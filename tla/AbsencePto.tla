---------------------------- MODULE AbsencePto ----------------------------
(***************************************************************************)
(* The conversion of one recorded absence into paid time off               *)
(* (absence_pto.py, absence_pto_store.py, absence_pto_conversion.py and    *)
(* the reconciler of absence_pto_review.py).                               *)
(*                                                                         *)
(* The approved Absence leave in Odoo is refused, a PTO leave is found or  *)
(* created, confirmed and approved, and the attendance row is linked to    *)
(* it.  Every durable step is a compare-and-set by the holder of a         *)
(* two-minute lease; when something goes wrong after the refusal, the PTO  *)
(* is closed and the Absence put back.  Managers and the reconciler run    *)
(* this concurrently; a process dies anywhere; a call to Odoo is rejected, *)
(* or takes effect though its answer is lost; people change leaves in Odoo *)
(* meanwhile.                                                              *)
(*                                                                         *)
(* The reads of one check, and the compare-and-set that follows a read,    *)
(* are one step: what the write tests (the lease and the step) and what    *)
(* the reads see (Odoo) have no writer in common.  The call to Odoo itself *)
(* is always a step of its own, after the last check before it.            *)
(***************************************************************************)
EXTENDS Naturals, FiniteSets

CONSTANTS Workers,    \* manager requests and reconciler runs
          MaxPto,     \* PTO leaves Odoo ever holds for this day
          MaxDays,    \* days allocated to the employee
          MaxPtoFaults,  \* calls lost, processes killed, leases outrun
          MaxOutside, \* changes other people make
          MaxSubmits, \* times the employee asks
          Rollover    \* the pay period may end

ASSUME PtoAssumption ==
    /\ "nobody" \notin Workers
    /\ MaxPto \in Nat \ {0} /\ MaxDays \in Nat \ {0}
    /\ MaxPtoFaults \in Nat /\ MaxOutside \in Nat /\ MaxSubmits \in Nat

VARIABLES req,     \* the row of absence_pto_requests
          link,    \* manual_absences.odoo_leave_id
          orig,    \* the state of the original Absence leave in Odoo
          pto,     \* the state of each PTO leave in Odoo
          days,    \* days the employee's allocation leaves for this day
          open,    \* is the day in the current pay period?
          wk,      \* what each worker is doing
          late,    \* calls whose caller is gone and Odoo still runs
          slow,    \* history: a call outlived the wait or the lease of its caller
          ptoFaults, outside, submits

ptoVars == <<req, link, orig, pto, days, open, wk, late, slow, ptoFaults, outside,
             submits>>

PtoIds == 1..MaxPto
None == 0
Original == MaxPto + 1
Undone == MaxPto + 2     \* the attendance row was deleted

Terminal == {"refuse", "cancel"}
LeaveStates == {"draft", "confirm", "validate1", "validate"} \cup Terminal
Nobody == "nobody"
Free == [pc |-> "idle", post |-> FALSE, op |-> "none", id |-> None, exp |-> "any",
         got |-> None]

PtoInit ==
    /\ req = [state |-> "none", step |-> "not_started", pto |-> None,
              owner |-> Nobody, parked |-> FALSE]
    /\ \/ orig = "validate" /\ link = Original
       \/ orig = "none" /\ link = None
    /\ pto = [i \in PtoIds |-> "none"]
    /\ days \in 1..MaxDays
    /\ open = TRUE
    /\ wk = [w \in Workers |-> Free]
    /\ late = {} /\ slow = FALSE
    /\ ptoFaults = 0 /\ outside = 0 /\ submits = 0

(***************************************************************************)
(* What the reads show.                                                    *)
(***************************************************************************)
HasOriginal == orig # "none"
HomeLink == IF HasOriginal THEN Original ELSE None

Matching == {i \in PtoIds : pto[i] \notin {"none"} \cup Terminal}

\* Odoo does not let two leaves that are not closed lie on one day.
DayIsFree == Matching = {} /\ orig \in {"none"} \cup Terminal

Reserved(i) == pto[i] \in {"confirm", "validate1", "validate"}
Available == days - Cardinality({i \in PtoIds : Reserved(i)})

\* A day this request's own PTO has reserved counts as available to it.
LowBalance ==
    IF req.pto # None /\ Reserved(req.pto) THEN Available + 1 < 1
                                           ELSE Available < 1

Unsafe ==
    \/ link # HomeLink
    \/ ~open
    \/ HasOriginal /\ req.step # "not_started" /\ orig # "refuse"
    \/ req.pto # None /\ Matching # {req.pto}
    \/ Cardinality(Matching) > 1 /\ req.step = "absence_refused"

RecoveryUnsafe ==
    \/ link # HomeLink
    \/ ~open
    \/ Cardinality(Matching) > 1
    \/ req.pto \in Matching /\ Matching # {req.pto}

Advanced(from) ==
    IF from = "confirm" THEN {"validate1", "validate"} ELSE {"validate"}

(***************************************************************************)
(* The employee's request, and the decisions that touch no leave.          *)
(***************************************************************************)
Submit ==
    /\ submits < MaxSubmits
    /\ req.state \in {"none", "denied"}
    /\ open /\ link # Undone
    /\ Available >= 1
    /\ req' = [state |-> "pending", step |-> "not_started", pto |-> None,
               owner |-> Nobody, parked |-> FALSE]
    /\ submits' = submits + 1
    /\ UNCHANGED <<link, orig, pto, days, open, wk, late, slow, ptoFaults,
                   outside>>

\* Who leaves a request in review delivers its task; the next look is due in a
\* while, or never once the delivery failed for good (task_next_at).
Parked(state) == IF state = "needs_review" THEN BOOLEAN ELSE {FALSE}

Settle(from, to) ==
    /\ req.state = from
    /\ req.owner = Nobody
    /\ \E p \in Parked(to) : req' = [req EXCEPT !.state = to, !.parked = p]
    /\ UNCHANGED <<link, orig, pto, days, open, wk, late, slow, ptoFaults,
                   outside, submits>>

(* Mutant: a denial writes Odoo's word for it. *)
MutDeny == Settle("pending", "refuse")

Deny == Settle("pending", "denied")
ResolveManually == Settle("needs_review", "resolved_manually")
ReviewAfterRollover == ~open /\ Settle("pending", "needs_review")

(***************************************************************************)
(* Taking the lease.  An expired lease is no lease; the owner of one finds *)
(* out at its next compare-and-set and drops what it was doing.            *)
(***************************************************************************)
(* Mutant: only requests that wait, or are in review, are taken up. *)
MutClaim(w) ==
    /\ wk[w] = Free
    /\ req.owner = Nobody
    /\ \/ req.state = "pending" /\ wk' = [wk EXCEPT ![w].pc = "enter"]
       \/ /\ req.state = "needs_review" /\ ~req.parked
          /\ wk' = [wk EXCEPT ![w].pc = "review"]
    /\ req' = [req EXCEPT !.owner = w]
    /\ UNCHANGED <<link, orig, pto, days, open, late, slow, ptoFaults,
                   outside, submits>>

Claim(w) ==
    /\ wk[w] = Free
    /\ req.owner = Nobody
    /\ \/ /\ req.state \in {"pending", "converting"}
          /\ wk' = [wk EXCEPT ![w].pc = "enter",
                              ![w].post = req.step # "not_started"]
       \/ /\ req.state = "needs_review" /\ ~req.parked
          /\ wk' = [wk EXCEPT ![w].pc = "review"]
    /\ req' = [req EXCEPT !.owner = w]
    /\ UNCHANGED <<link, orig, pto, days, open, late, slow, ptoFaults,
                   outside, submits>>

Stale(w) ==
    /\ wk[w].pc \notin {"idle", "sent"}
    /\ req.owner # w
    /\ wk' = [wk EXCEPT ![w] = Free]
    /\ UNCHANGED <<req, link, orig, pto, days, open, late, slow, ptoFaults,
                   outside, submits>>

Owns(w, pc) == wk[w].pc = pc /\ req.owner = w

\* A step that changes the request and the worker, and nothing in Odoo.
Local(w, row, next) ==
    /\ req' = row
    /\ wk' = [wk EXCEPT ![w] = next]
    /\ UNCHANGED <<link, orig, pto, days, open, late, slow, ptoFaults,
                   outside, submits>>

Go(w, pc) == [wk[w] EXCEPT !.pc = pc, !.op = "none", !.id = None, !.got = None]
Call(w, op, id) == [wk[w] EXCEPT !.pc = "sent", !.op = op, !.id = id]
Send(w, op) == Local(w, req, Call(w, op, req.pto))

Ends(w, row) ==
    \E p \in Parked(row.state) :
        Local(w, [row EXCEPT !.owner = Nobody, !.parked = p], Free)

Review(w) == Ends(w, [req EXCEPT !.state = "needs_review"])
ToPending(w) ==
    Ends(w, [req EXCEPT !.state = "pending", !.step = "not_started",
                        !.pto = None])

Compensates(w, post) ==
    req.state = "converting" /\ (req.step # "not_started" \/ post)

Fail(w, post) ==
    IF Compensates(w, post) THEN Local(w, req, Go(w, "close")) ELSE Review(w)

Low(w, post) ==
    IF req.step = "not_started" /\ ~post
    THEN Ends(w, [req EXCEPT !.state = "pending"])
    ELSE Local(w, req, Go(w, "close"))

Preflight(w, post, proceed) ==
    \/ Unsafe /\ Fail(w, post)
    \/ ~Unsafe /\ LowBalance /\ Low(w, post)
    \/ ~Unsafe /\ ~LowBalance /\ proceed

(***************************************************************************)
(* The conversion.                                                         *)
(***************************************************************************)
(* Mutant: only the recorded step tells that the absence was refused. *)
MutRefused(w) == wk[w].post

\* A conversion that died after its refusal has not recorded it.
Refused(w) ==
    wk[w].post \/ (req.state = "converting" /\ orig = "refuse")

Enter(w) ==
    /\ Owns(w, "enter")
    /\ LET post == Refused(w) IN
       Preflight(w, post,
           Local(w, [req EXCEPT !.state = "converting"],
                 [Go(w, "work") EXCEPT !.post = post]))

RefuseOriginal(w) ==
    /\ Owns(w, "work") /\ req.step = "not_started"
    /\ \/ /\ orig = "validate"
          /\ Preflight(w, wk[w].post,
                 Local(w, req, [Call(w, "refuse", None) EXCEPT !.post = TRUE]))
       \/ /\ orig \in {"refuse", "none"}
          /\ Local(w, [req EXCEPT !.step = "absence_refused"],
                   [Go(w, "work") EXCEPT !.post = TRUE])
       \/ /\ orig \notin {"validate", "refuse", "none"}
          /\ Fail(w, wk[w].post)

Created(w, i) ==
    Local(w, [req EXCEPT !.step = "pto_created", !.pto = i],
          [Go(w, "work") EXCEPT !.exp = "any"])

FindOrCreate(w) ==
    /\ Owns(w, "work") /\ req.step = "absence_refused"
    /\ Preflight(w, TRUE,
           IF Matching = {} THEN Send(w, "create")
           ELSE Created(w, CHOOSE i \in Matching : TRUE))

ApprovePto(w) ==
    /\ Owns(w, "work") /\ req.step = "pto_created"
    /\ LET state == pto[req.pto]
           exp == wk[w].exp
       IN  \/ /\ exp \in {"any", state}
              /\ state = "draft"
              /\ Preflight(w, TRUE, Send(w, "confirm"))
           \/ /\ exp \in {"any", state}
              /\ state \in {"confirm", "validate1"}
              /\ Preflight(w, TRUE,
                     Local(w, req, [Call(w, "approve", req.pto) EXCEPT !.exp = state]))
           \/ /\ "validate" = (IF exp = "any" THEN state ELSE exp)
              /\ Local(w, [req EXCEPT !.step = "pto_approved"], Go(w, "work"))
           \/ /\ exp # "validate"
              /\ \/ state \in Terminal
                 \/ exp \notin {"any", state}
              /\ Fail(w, TRUE)

FinalCheck(w) ==
    /\ Owns(w, "work") /\ req.step = "pto_approved"
    /\ Preflight(w, TRUE,
           IF pto[req.pto] = "validate" THEN Local(w, req, Go(w, "final"))
                                        ELSE Fail(w, TRUE))

(* Mutant: the transaction updates the link without testing it. *)
MutLinkHeld == TRUE

\* The local transaction: the attendance link is tested again inside it.
LinkHeld == link = HomeLink

FinalizeApproved(w) ==
    /\ Owns(w, "final")
    /\ IF LinkHeld
       THEN /\ link' = req.pto
            /\ req' = [req EXCEPT !.state = "approved",
                                  !.step = "pto_approved", !.owner = Nobody]
       ELSE /\ req' = [req EXCEPT !.owner = Nobody]
            /\ UNCHANGED link
    /\ wk' = [wk EXCEPT ![w] = Free]
    /\ UNCHANGED <<orig, pto, days, open, late, slow, ptoFaults, outside,
                   submits>>

(***************************************************************************)
(* The compensation.                                                       *)
(***************************************************************************)
(* Mutant: a PTO that was approved meanwhile is closed too. *)
MutClosable == {"draft", "confirm", "validate1", "validate"}

Closable == {"draft", "confirm", "validate1"}

ClosePto(w) ==
    /\ Owns(w, "close")
    /\ \/ RecoveryUnsafe /\ Review(w)
       \/ /\ ~RecoveryUnsafe /\ Matching = {}
          /\ Local(w, req, [Go(w, "restore") EXCEPT !.exp = "any"])
       \/ /\ ~RecoveryUnsafe
          /\ \E i \in Matching :
                \/ req.pto \notin {None, i} /\ Review(w)
                \/ /\ req.pto \in {None, i}
                   /\ IF pto[i] \in Closable
                      THEN Local(w, [req EXCEPT !.pto = i], Call(w, "close", i))
                      ELSE Ends(w, [req EXCEPT !.pto = i,
                                               !.state = "needs_review"])

RestoreOriginal(w) ==
    /\ Owns(w, "restore")
    /\ LET changed == wk[w].exp \notin {"any", orig} IN
       \/ /\ RecoveryUnsafe \/ Matching # {} \/ orig = "draft"
             \/ (HasOriginal /\ changed)
          /\ Review(w)
       \/ /\ ~RecoveryUnsafe /\ Matching = {}
          /\ \/ ~HasOriginal /\ ToPending(w)
             \/ ~changed /\ orig = "validate" /\ ToPending(w)
             \/ /\ ~changed /\ orig \in Terminal
                /\ Send(w, "reset")
             \/ /\ ~changed /\ orig \in {"confirm", "validate1"}
                /\ Local(w, req, [Call(w, "restore", None) EXCEPT !.exp = orig])

(***************************************************************************)
(* What a call does in Odoo.  A call Odoo refuses changes nothing.         *)
(***************************************************************************)
Approvals(s) == IF s = "confirm" THEN {"validate1", "validate"}
            ELSE IF s = "validate1" THEN {"validate"} ELSE {}

OrigEffect(op) ==
    CASE op = "refuse"  -> IF orig \in {"confirm", "validate1", "validate"}
                           THEN {"refuse"} ELSE {}
      [] op = "reset"   -> IF orig \in Terminal /\ DayIsFree
                           THEN {"confirm"} ELSE {}
      [] op = "restore" -> Approvals(orig)
      [] OTHER          -> {}

PtoEffect(op, i) ==
    CASE op = "create"  -> IF DayIsFree /\ pto[i] = "none"
                              /\ \A j \in PtoIds : j < i => pto[j] # "none"
                           THEN {"draft", "confirm"} ELSE {}
      [] op = "confirm" -> IF pto[i] = "draft"
                           THEN {"confirm", "validate"} ELSE {}
      [] op = "approve" -> Approvals(pto[i])
      [] op = "close"   -> IF i \in Matching THEN {"refuse"} ELSE {}
      [] OTHER          -> {}

\* What the call op about the leave id does.
Effects(op, id) ==
    {[orig |-> s, pto |-> pto, new |-> None] : s \in OrigEffect(op)} \cup
    UNION {{[orig |-> orig, pto |-> [pto EXCEPT ![i] = s], new |-> i] :
            s \in PtoEffect(op, i)} :
           i \in IF op = "create" THEN PtoIds ELSE PtoIds \cap {id}}

\* Odoo works through the call and its answer arrives.
Land(w) ==
    /\ wk[w].pc = "sent"
    /\ LET effects == Effects(wk[w].op, wk[w].id) IN
       \/ /\ effects = {}
          /\ wk' = [wk EXCEPT ![w].pc = "verify"]
          /\ UNCHANGED <<orig, pto>>
       \/ \E e \in effects :
             /\ orig' = e.orig /\ pto' = e.pto
             /\ wk' = [wk EXCEPT ![w].pc = "verify",
                                 ![w].got = IF wk[w].op = "create"
                                            THEN e.new ELSE None]
    /\ UNCHANGED <<req, link, days, open, late, slow, ptoFaults, outside,
                   submits>>

PtoFault == ptoFaults < MaxPtoFaults /\ ptoFaults' = ptoFaults + 1

\* The id of the new leave is lost with the answer.
AnswerLost(w) ==
    /\ PtoFault
    /\ wk[w].pc = "sent" /\ wk[w].op = "create"
    /\ \E e \in Effects("create", None) : orig' = e.orig /\ pto' = e.pto
    /\ wk' = [wk EXCEPT ![w].pc = "verify"]
    /\ UNCHANGED <<req, link, days, open, late, slow, outside, submits>>

CallFails(w) ==
    /\ PtoFault
    /\ wk[w].pc = "sent"
    /\ wk' = [wk EXCEPT ![w].pc = "verify"]
    /\ UNCHANGED <<req, link, orig, pto, days, open, late, slow, outside,
                   submits>>

GiveUp(w) ==
    /\ PtoFault
    /\ wk[w].pc = "sent"
    /\ slow' = TRUE
    /\ late' = late \cup {[op |-> wk[w].op, id |-> wk[w].id]}
    /\ wk' = [wk EXCEPT ![w].pc = "verify"]
    /\ UNCHANGED <<req, link, orig, pto, days, open, outside, submits>>

LandLate ==
    /\ \E c \in late :
          /\ late' = late \ {c}
          /\ \/ UNCHANGED <<orig, pto>>
             \/ \E e \in Effects(c.op, c.id) : orig' = e.orig /\ pto' = e.pto
    /\ UNCHANGED <<req, link, days, open, wk, slow, ptoFaults, outside,
                   submits>>

(***************************************************************************)
(* Every call is followed by a read of what it was meant to change; what   *)
(* Odoo answered does not matter.                                          *)
(***************************************************************************)
VerifyCall(w) ==
    /\ Owns(w, "verify")
    /\ LET id == req.pto
           state == IF id = None THEN "none" ELSE pto[id]
           Is(op) == wk[w].op = op
       IN  \/ /\ Is("refuse") /\ orig = "refuse"
              /\ Local(w, [req EXCEPT !.step = "absence_refused"], Go(w, "work"))
           \/ Is("refuse") /\ orig = "validate" /\ ToPending(w)
           \/ Is("refuse") /\ orig \notin {"refuse", "validate"} /\ Fail(w, TRUE)
           \/ Is("create") /\ wk[w].got # None /\ Created(w, wk[w].got)
           \/ /\ Is("create") /\ wk[w].got = None
              /\ IF Cardinality(Matching) = 1
                 THEN Created(w, CHOOSE i \in Matching : TRUE)
                 ELSE Fail(w, TRUE)
           \/ /\ Is("confirm")
              /\ IF Reserved(id)
                 THEN Local(w, req, [Go(w, "work") EXCEPT !.exp = state])
                 ELSE Fail(w, TRUE)
           \/ Is("approve") /\ state \notin Advanced(wk[w].exp) /\ Fail(w, TRUE)
           \/ /\ Is("approve") /\ state \in Advanced(wk[w].exp)
              /\ IF state = "validate"
                 THEN Local(w, [req EXCEPT !.step = "pto_approved"], Go(w, "work"))
                 ELSE Local(w, req, [Go(w, "work") EXCEPT !.exp = state])
           \/ /\ Is("close")
              /\ IF state \in Terminal /\ ~RecoveryUnsafe /\ Matching = {}
                 THEN Local(w, req, [Go(w, "restore") EXCEPT !.exp = "any"])
                 ELSE Review(w)
           \/ /\ Is("reset")
              /\ IF orig \in {"confirm", "validate1", "validate"}
                 THEN Local(w, req, [Go(w, "restore") EXCEPT !.exp = orig])
                 ELSE Review(w)
           \/ /\ Is("restore")
              /\ IF orig \in Advanced(wk[w].exp)
                 THEN Local(w, req, [Go(w, "restore") EXCEPT !.exp = orig])
                 ELSE Review(w)

\* Odoo cannot be read: the step fails.  A new leave's id is kept first.
Unreadable(w) ==
    /\ PtoFault
    /\ req.owner = w /\ wk[w].pc \in {"enter", "work", "close", "restore",
                                      "verify", "review", "adopted"}
    /\ LET recovery == \/ wk[w].pc \in {"close", "restore"}
                       \/ wk[w].op \in {"close", "reset", "restore"}
           row == IF wk[w].got = None THEN req
                  ELSE [req EXCEPT !.pto = wk[w].got]
       IN  IF wk[w].pc \in {"review", "adopted"}
           THEN /\ req' = [req EXCEPT !.owner = Nobody]
                /\ wk' = [wk EXCEPT ![w] = Free]
           ELSE IF recovery \/ ~Compensates(w, wk[w].post)
           THEN /\ \E p \in Parked("needs_review") :
                      req' = [req EXCEPT !.state = "needs_review",
                                         !.owner = Nobody, !.parked = p]
                /\ wk' = [wk EXCEPT ![w] = Free]
           ELSE /\ req' = row
                /\ wk' = [wk EXCEPT ![w] = Go(w, "close")]
    /\ UNCHANGED <<link, orig, pto, days, open, late, slow, outside, submits>>

(***************************************************************************)
(* Review: the reconciler looks for the one approved PTO of that day,      *)
(* binds it, reads it again, and finalizes with it.                        *)
(***************************************************************************)
(* Mutant: any one open PTO of that day is taken. *)
MutValidated == {i \in Matching : Matching = {i}}

Validated == {i \in Matching : Matching = {i} /\ pto[i] = "validate"}

(* Mutant: a request that already knows a PTO is not looked at again. *)
MutAdoptExternal(w) ==
    /\ Owns(w, "review")
    /\ IF Validated = {} \/ req.pto # None THEN Ends(w, req)
       ELSE \E i \in Validated :
               Local(w, [req EXCEPT !.pto = i], Go(w, "adopted"))

AdoptExternal(w) ==
    /\ Owns(w, "review")
    /\ IF Validated = {} THEN Ends(w, req)
       ELSE \E i \in Validated :
               Local(w, [req EXCEPT !.pto = i], Go(w, "adopted"))

VerifyExternal(w) ==
    /\ Owns(w, "adopted")
    /\ IF req.pto \in Validated THEN Local(w, req, Go(w, "final"))
                                ELSE Ends(w, req)

(***************************************************************************)
(* Processes die, leases run out, and other people act.                    *)
(***************************************************************************)
PtoCrash(w) ==
    /\ PtoFault
    /\ wk[w].pc # "idle"
    /\ late' = IF wk[w].pc = "sent"
               THEN late \cup {[op |-> wk[w].op, id |-> wk[w].id]} ELSE late
    /\ wk' = [wk EXCEPT ![w] = Free]
    /\ UNCHANGED <<req, link, orig, pto, days, open, slow, outside, submits>>

\* The lease outlives any call, unless Odoo is slower than its clients.
Running(w) == late # {} \/ wk[w].pc = "sent"

Lapse ==
    /\ req.owner # Nobody
    /\ wk[req.owner].pc = "idle"
    /\ slow' = (slow \/ Running(req.owner))
    /\ req' = [req EXCEPT !.owner = Nobody]
    /\ UNCHANGED <<link, orig, pto, days, open, wk, late, ptoFaults,
                   outside, submits>>

\* The owner is alive, and so slow that its lease runs out.
Outrun ==
    /\ PtoFault
    /\ req.owner # Nobody
    /\ wk[req.owner].pc # "idle"
    /\ slow' = (slow \/ Running(req.owner))
    /\ req' = [req EXCEPT !.owner = Nobody]
    /\ UNCHANGED <<link, orig, pto, days, open, wk, late, outside,
                   submits>>

PeriodCloses ==
    /\ Rollover /\ open
    /\ open' = FALSE
    /\ UNCHANGED <<req, link, orig, pto, days, wk, late, slow, ptoFaults,
                   outside, submits>>

\* Another request of the employee takes a day.
DaysSpent ==
    /\ Available >= 1
    /\ days' = days - 1
    /\ UNCHANGED <<req, link, orig, pto, open, wk, late, slow, ptoFaults,
                   outside, submits>>

Others ==
    /\ outside < MaxOutside /\ outside' = outside + 1
    /\ req.state # "none"
    /\ \/ /\ \E s \in {"confirm", "validate", "refuse", "cancel"} \ {orig} :
                /\ HasOriginal
                /\ s \in Terminal \/ Matching = {}
                /\ orig' = s
          /\ UNCHANGED <<pto, link>>
       \/ /\ \E i \in Matching, s \in {"validate", "refuse", "cancel"} :
                /\ s # pto[i]
                /\ pto' = [pto EXCEPT ![i] = s]
          /\ UNCHANGED <<orig, link>>
       \/ /\ \E e \in Effects("create", None) :
                pto' = [e.pto EXCEPT ![e.new] = "validate"]
          /\ UNCHANGED <<orig, link>>
       \/ /\ link # Undone /\ link' = Undone
          /\ UNCHANGED <<orig, pto>>
    /\ UNCHANGED <<req, days, open, wk, late, slow, ptoFaults, submits>>

(***************************************************************************)
(* The specification.                                                      *)
(***************************************************************************)
PtoStep(w) ==
    \/ Stale(w) \/ Enter(w) \/ RefuseOriginal(w) \/ FindOrCreate(w)
    \/ ApprovePto(w) \/ FinalCheck(w) \/ FinalizeApproved(w)
    \/ ClosePto(w) \/ RestoreOriginal(w) \/ Land(w) \/ VerifyCall(w)
    \/ AdoptExternal(w) \/ VerifyExternal(w)

PtoNext ==
    \/ Submit \/ Deny \/ ResolveManually \/ ReviewAfterRollover
    \/ Lapse \/ Outrun \/ PeriodCloses \/ DaysSpent \/ Others \/ LandLate
    \/ \E w \in Workers :
          \/ Claim(w) \/ PtoStep(w) \/ AnswerLost(w) \/ CallFails(w)
          \/ GiveUp(w) \/ Unreadable(w) \/ PtoCrash(w)

PtoSpec == PtoInit /\ [][PtoNext]_ptoVars

\* The reconciler comes round, a process that lives goes on, Odoo ends its
\* calls and a dead owner's lease runs out; nobody need submit or decide.
Fairness ==
    /\ WF_ptoVars(Lapse) /\ WF_ptoVars(LandLate)
    /\ \A w \in Workers : WF_ptoVars(PtoStep(w))
    /\ WF_ptoVars(\E w \in Workers :
                  req.state \in {"converting", "needs_review"} /\ Claim(w))
    /\ WF_ptoVars(ReviewAfterRollover)

FairPtoSpec == PtoSpec /\ Fairness

(***************************************************************************)
(* The properties.                                                         *)
(***************************************************************************)
Steps == {"not_started", "absence_refused", "pto_created", "pto_approved"}
Pcs == {"idle", "enter", "work", "sent", "verify", "close", "restore",
        "final", "review", "adopted"}
Ops == {"none", "refuse", "create", "confirm", "approve", "close", "reset",
        "restore"}

Requests ==
    [state : {"none", "pending", "converting", "approved", "denied", "needs_review",
              "resolved_manually"},
     step : Steps, pto : PtoIds \cup {None}, owner : Workers \cup {Nobody},
     parked : BOOLEAN]
Places == [pc : Pcs, post : BOOLEAN, op : Ops, id : PtoIds \cup {None},
           exp : LeaveStates \cup {"any"}, got : PtoIds \cup {None}]
Calls == [op : Ops, id : PtoIds \cup {None}]

\* The values each variable may take (absence_pto_store.py:172-190).
PtoTypeOK ==
    /\ req \in Requests
    /\ link \in PtoIds \cup {None, Original, Undone}
    /\ orig \in LeaveStates \cup {"none"}
    /\ pto \in [PtoIds -> LeaveStates \cup {"none"}]
    /\ days \in 0..MaxDays
    /\ open \in BOOLEAN
    /\ DOMAIN wk \subseteq Workers /\ \A w \in DOMAIN wk : wk[w] \in Places
    /\ late \subseteq Calls /\ slow \in BOOLEAN
    /\ ptoFaults \in 0..MaxPtoFaults /\ outside \in 0..MaxOutside
    /\ submits \in 0..MaxSubmits

\* A request that waits for a decision or was denied has cost the employee
\* nothing, whatever failed, crashed or was compensated before: the Absence is
\* not left refused and no PTO is open (absence_pto_conversion.py:448-534,
\* absence_pto_store.py:734-759).
PendingNotRefused ==
    req.state \in {"none", "pending", "denied"} =>
        orig \notin Terminal /\ Matching = {}

\* An approved request stands for exactly one approved PTO day, linked to the
\* attendance row, and no Absence beside it (absence_pto_store.py:865-1035).
ApprovedIsOneDay ==
    req.state = "approved" =>
        /\ Matching = {req.pto} /\ pto[req.pto] = "validate"
        /\ link = req.pto
        /\ orig \in {"none", "refuse"}

\* Nobody else edits the leaves, and Odoo ends a call before its caller's lease.
Calm == ~slow /\ outside = 0

\* What a conversion promises while only the conversion edits leaves.
ConversionIsRight == PtoTypeOK /\ (Calm => PendingNotRefused /\ ApprovedIsOneDay)

\* Recovery never takes back a day that was approved in Odoo: it hands the
\* request to a person instead (absence_pto_conversion.py:419).
PaidStep == \A i \in PtoIds : pto[i] = "validate" => pto'[i] = "validate"
PaidDayStays == [][Calm' => PaidStep]_ptoVars

\* The Absence a manager undid is never brought back by a conversion that
\* was under way (absence_pto_store.py:900-911, 955-962).
UndoneStaysUndone == [][link = Undone => link' = Undone]_ptoVars

\* A conversion never stays half done: it ends approved, pending again or in
\* review (absence_pto_review.py:704-742).
ConversionEnds == req.state = "converting" ~> req.state # "converting"

\* A review of a day still recorded ends once one approved PTO is there and
\* stays there, unless the delivery of its task failed for good: then nobody looks
\* at it again (absence_pto_review.py:582-618, absence_pto_store.py:480-481).
PaidAndRecorded == Validated # {} /\ link = HomeLink
PaidReviewEnds ==
    (req.state = "needs_review" /\ ~req.parked /\ PaidAndRecorded)
        ~> (req.state # "needs_review" \/ req.parked \/ ~PaidAndRecorded)

(***************************************************************************)
(* The inductive invariant.                                                *)
(***************************************************************************)
\* What the row r says while a call op is made and verified.
CallOk(r, op) ==
    /\ op \in Ops \ {"none"} /\ r.state = "converting"
    /\ op = "refuse" => r.step = "not_started"
    /\ op = "create" => r.step = "absence_refused"
    /\ op \in {"confirm", "approve", "close"} => r.pto # None

\* The place k of the owner fits the row r.
PlaceOk(r, k) ==
    /\ r.state \in {"pending", "converting", "needs_review"}
    /\ r.state = "pending" => k.pc \in {"idle", "enter"} /\ ~k.post
    /\ r.state = "needs_review" => k.pc \in {"idle", "review", "adopted", "final"}
    /\ r.state = "converting" => k.pc \notin {"review", "adopted"}
    /\ k.pc \in {"sent", "verify"} => CallOk(r, k.op)
    /\ k.pc = "final" => r.pto # None

\* A request that was not taken up is at its first step, one past the creation
\* of the PTO knows it, and one that ended has no owner.
RowInv ==
    /\ req.state \in {"none", "pending", "denied"} => req.step = "not_started"
    /\ req.step \in {"pto_created", "pto_approved"} => req.pto # None
    /\ req.owner # Nobody => PlaceOk(req, wk[req.owner])
    /\ \A w \in Workers : wk[w].got # None => wk[w].pc = "verify" /\ wk[w].op = "create"

\* Odoo keeps one open leave on the day.
OneLeave ==
    /\ \A i, j \in Matching : i = j
    /\ Matching # {} => orig \in {"none"} \cup Terminal

\* A call op about the leave id that has not ended is about the leave the row
\* names, and a PTO that is being closed is still closable.
CallStands(op, id) ==
    /\ CallOk(req, op)
    /\ op \in {"confirm", "approve", "close"} => id = req.pto
    /\ op = "close" => pto[id] \in Closable

\* Only the owner has a call at Odoo, or one is left of an owner that died.
CallsInv ==
    /\ \A w \in Workers :
          wk[w].pc = "sent" => req.owner = w /\ CallStands(wk[w].op, wk[w].id)
    /\ late # {} => req.owner # Nobody /\ wk[req.owner].pc = "idle"
    /\ \A c \in late : late = {c} /\ CallStands(c.op, c.id)

\* Nothing is closed that nobody decided about: a request at its first step has
\* no PTO, one that waits has its absence, one that is about to be approved or
\* is approved has the one day.
LeavesInv ==
    /\ orig # "cancel"
    /\ req.state \in {"none", "pending", "denied", "converting"} /\ req.step = "not_started" =>
          Matching = {} /\ req.pto = None
    /\ PendingNotRefused /\ ApprovedIsOneDay
    /\ req.owner # Nobody /\ wk[req.owner].pc = "final" =>
          Matching = {req.pto} /\ pto[req.pto] = "validate"

ConversionInv ==
    /\ PtoTypeOK /\ DOMAIN wk = Workers
    /\ RowInv /\ OneLeave
    /\ Calm => CallsInv /\ LeavesInv

=============================================================================
