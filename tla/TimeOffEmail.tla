----------------------------- MODULE TimeOffEmail -----------------------------
(***************************************************************************)
(* The approval email of one time-off request: the outbox row that the     *)
(* trigger of _time_off_email_schema.py captures with the approval, and    *)
(* the worker of time_off_email.py that hands it to Odoo's mail queue.     *)
(*                                                                         *)
(* The worker runs in every app process, serialized by an advisory lock    *)
(* that lives as long as one database session.  The status writes use      *)
(* other sessions and no fence.  A create call can take effect after its   *)
(* caller has timed out or died; the stable Message-ID makes the message   *)
(* recognisable later.  When a row is due again is left open.              *)
(***************************************************************************)
EXTENDS Integers, FiniteSets

CONSTANTS
    Workers,     \* app processes running the tick
    NoWorker,    \* the lock is free
    MaxCalls,    \* bound: mail.mail create calls
    MaxFaults,   \* bound: crashes, errors, time-outs, refused or failed mails
    MaxChanges,  \* bound: changes of the request
    MaxLosses    \* bound: lock sessions that end while their worker runs

ASSUME WorkersAssumption == NoWorker \notin Workers
ASSUME BoundsAssumption == /\ MaxCalls \in Nat
                           /\ MaxFaults \in Nat
                           /\ MaxChanges \in Nat
                           /\ MaxLosses \in Nat

Calls == 1..MaxCalls

VARIABLES
    req,         \* time_off_requests.state
    same,        \* request and Odoo leave are as captured, and not over yet
    row,         \* the time_off_approval_email row
    mail,        \* per create call, what became of the message in Odoo
    sent,        \* the calls whose message has left Odoo
    lock,        \* holder of the advisory lock _WORKER_LOCK
    wk,          \* the workers inside process_one
    faults, changes, losses,
    late         \* ghost: Odoo sent a message the worker was about to cancel

reqVars == <<req, same, changes>>
mailVars == <<mail, sent, late>>
vars == <<reqVars, row, mailVars, lock, wk, faults, losses>>

(* "confirm" stands for every state that is neither approved nor ended.    *)
RequestStates == {"none", "confirm", "validate", "refuse", "draft_cancel"}
Due == {"pending", "sending", "queued"}
Settled == {"sent", "skipped", "attention"}
RowStates == Due \cup Settled \cup {"none"}
Rows == [state : RowStates, mail : 0..MaxCalls]
MailStates == {"none", "asked", "outgoing", "sent", "exception", "cancel",
               "refused", "lost"}
PCs == {"idle", "find", "observe", "cancel", "skip", "check", "employee",
        "intent", "create", "wait"}

(* A worker: its copy of the row, the message or the create call it is     *)
(* about, and the state of the message that the lookup returned.           *)
WorkerStates == [pc : PCs, row : Rows, call : 0..MaxCalls, seen : MailStates]

NoRow == [state |-> "none", mail |-> 0]
Idle == [pc |-> "idle", row |-> NoRow, call |-> 0, seen |-> "none"]

TypeOK ==
    /\ req \in RequestStates
    /\ same \in BOOLEAN
    /\ row \in Rows
    /\ mail \in [Calls -> MailStates]
    /\ sent \in SUBSET Calls
    /\ lock \in Workers \cup {NoWorker}
    /\ wk \in [Workers -> WorkerStates]
    /\ faults \in 0..MaxFaults
    /\ changes \in 0..MaxChanges
    /\ losses \in 0..MaxLosses
    /\ late \in BOOLEAN

Init ==
    /\ req \in {"none", "confirm"}
    /\ same = FALSE
    /\ row = NoRow
    /\ mail = [c \in Calls |-> "none"]
    /\ sent = {}
    /\ lock = NoWorker
    /\ wk = [w \in Workers |-> Idle]
    /\ faults = 0 /\ changes = 0 /\ losses = 0
    /\ late = FALSE

-----------------------------------------------------------------------------
(* The request, and the trigger that fires on it *)

Change == changes < MaxChanges /\ changes' = changes + 1

(* Mutant: a second approval takes the row over.                           *)
Capture_Upsert(eligible) ==
    IF eligible THEN row' = [NoRow EXCEPT !.state = "pending"] /\ same' = TRUE
                ELSE UNCHANGED <<row, same>>

(* capture_time_off_approval_email: ON CONFLICT (request_id) DO NOTHING.   *)
Capture(eligible) ==
    IF eligible /\ row = NoRow
    THEN row' = [NoRow EXCEPT !.state = "pending"] /\ same' = TRUE
    ELSE UNCHANGED <<row, same>>

(* The request becomes "validate": by an approval in this app (recent is   *)
(* TRUE), or by a poll of an Odoo leave whose write_date is recent or not. *)
(* An insert or an update from any state but validate and draft_cancel is  *)
(* captured, unless the leave is over (recent is FALSE then, too).         *)
Approve(recent) ==
    /\ Change
    /\ req # "validate"
    /\ req' = "validate"
    /\ Capture(recent /\ req # "draft_cancel")
    /\ UNCHANGED <<mailVars, lock, wk, faults, losses>>

(* The request is cancelled, refused or asked for again; or its dates,     *)
(* hours, employee or Odoo leave stop matching the captured ones or match  *)
(* again.                                                                  *)
Alter ==
    /\ Change
    /\ \/ req = "validate" /\ req' \in {"refuse", "draft_cancel"} /\ UNCHANGED same
       \/ req \in {"none", "refuse", "draft_cancel"} /\ req' = "confirm" /\ UNCHANGED same
       \/ row # NoRow /\ same' = ~same /\ UNCHANGED req
    /\ UNCHANGED <<row, mailVars, lock, wk, faults, losses>>

(* _still_approved                                                         *)
StillApproved == req = "validate" /\ same

-----------------------------------------------------------------------------
(* The worker *)

Fault == faults < MaxFaults /\ faults' = faults + 1

Become(w, new) == wk' = [wk EXCEPT ![w] = new]

Goto(w, pc) == Become(w, [wk[w] EXCEPT !.pc = pc])

(* process_one and run_once end, and with them the lock's transaction.     *)
Release(w) == Become(w, Idle) /\ lock' = IF lock = w THEN NoWorker ELSE lock

(* _mark: no fence; a missing mail id keeps the recorded one.              *)
Mark(state, id) == row' = [state |-> state, mail |-> IF id = 0 THEN row.mail ELSE id]

(* process_one writes its verdict and returns.                             *)
Settle(w, state, id) ==
    /\ Mark(state, id)
    /\ Release(w)
    /\ UNCHANGED <<reqVars, mailVars, losses>>

(* The handler of unexpected errors before the create: "lookup_failed".    *)
LookupFailed(w) == Fault /\ Settle(w, wk[w].row.state, 0)

(* Mutant: the batch query leaves out the rows handed to Odoo.             *)
RunOnce_PendingOnly(w) ==
    /\ wk[w].pc = "idle"
    /\ lock = NoWorker
    /\ row.state = "pending"
    /\ lock' = w
    /\ Become(w, [Idle EXCEPT !.pc = "find", !.row = row])
    /\ UNCHANGED <<reqVars, row, mailVars, faults, losses>>

(* run_once: the lock, then the batch of due rows with this one.           *)
RunOnce(w) ==
    /\ wk[w].pc = "idle"
    /\ lock = NoWorker
    /\ row.state \in Due
    /\ lock' = w
    /\ Become(w, [Idle EXCEPT !.pc = "find", !.row = row])
    /\ UNCHANGED <<reqVars, row, mailVars, faults, losses>>

(* _find_mail: what the search for the Message-ID returns.                 *)
InOdoo == {c \in Calls : mail[c] \in {"outgoing", "sent", "exception", "cancel"}}

(* Mutant: the approval is looked at before the uncertain states are.      *)
NotFound_CheckFirst(w) == IF StillApproved THEN "unknown" ELSE "check"

(* Where process_one goes on when there is no message.                     *)
NotFound(w) == IF wk[w].row.state \in {"sending", "queued"} THEN "unknown" ELSE "check"

(* The lookup at the start of process_one.                                 *)
FindMail(w) ==
    LET found == InOdoo
    IN /\ wk[w].pc = "find"
       /\ \/ LookupFailed(w)
          \/ /\ Cardinality(found) > 1
             /\ Settle(w, "attention", 0)
             /\ UNCHANGED faults
          \/ /\ Cardinality(found) = 1
             /\ \E c \in found :
                  IF wk[w].row.mail \in {0, c}
                  THEN /\ Become(w, [wk[w] EXCEPT !.pc = "observe", !.call = c,
                                                   !.seen = mail[c]])
                       /\ UNCHANGED <<reqVars, row, mailVars, lock, faults, losses>>
                  ELSE Settle(w, "attention", 0) /\ UNCHANGED faults
          \/ /\ found = {}
             /\ NotFound(w) = "unknown"
             /\ Settle(w, "sending", 0)
             /\ UNCHANGED faults
          \/ /\ found = {}
             /\ NotFound(w) = "check"
             /\ Goto(w, "check")
             /\ UNCHANGED <<reqVars, row, mailVars, lock, faults, losses>>

(* Mutant: whatever Odoo holds counts as sent.                             *)
Verdict_Optimistic(st) == "sent"

(* Mutant: Odoo's own state is written to the row.                         *)
Verdict_Raw(st) == st

(* The row state for a message that needs no further look.                 *)
Verdict(st) == IF st = "sent" THEN "sent" ELSE "attention"

(* _observe_mail, with the state that the lookup returned a moment ago.    *)
ObserveMail(w) ==
    LET c == wk[w].call
        st == wk[w].seen
    IN /\ wk[w].pc = "observe"
       /\ \/ LookupFailed(w)
          \/ st # "outgoing" /\ Settle(w, Verdict(st), c) /\ UNCHANGED faults
          \/ st = "outgoing" /\ StillApproved /\ Settle(w, "queued", c) /\ UNCHANGED faults
          \/ /\ st = "outgoing" /\ ~StillApproved
             /\ Goto(w, "cancel")
             /\ UNCHANGED <<reqVars, row, mailVars, lock, faults, losses>>

(* The cancel call: Odoo sets the state whatever it was, and the answer    *)
(* may get lost although it did.                                           *)
CancelMail(w) ==
    LET c == wk[w].call
    IN /\ wk[w].pc = "cancel"
       /\ \/ LookupFailed(w)
          \/ /\ mail' = [mail EXCEPT ![c] = "cancel"]
             /\ late' = (late \/ c \in sent)
             /\ Goto(w, "skip")
             /\ UNCHANGED <<reqVars, row, sent, lock, faults, losses>>

MarkSkipped(w) ==
    /\ wk[w].pc = "skip"
    /\ \/ LookupFailed(w)
       \/ Settle(w, "skipped", wk[w].call) /\ UNCHANGED faults

(* The re-check of the approval before anything is sent.                   *)
CheckApproval(w) ==
    /\ wk[w].pc = "check"
    /\ \/ LookupFailed(w)
       \/ ~StillApproved /\ Settle(w, "skipped", 0) /\ UNCHANGED faults
       \/ /\ StillApproved
          /\ Goto(w, "employee")
          /\ UNCHANGED <<reqVars, row, mailVars, lock, faults, losses>>

(* Employee record, address and sender; whether they are usable is left    *)
(* open, but an unusable one is a fault so that it ends.                   *)
ReadEmployee(w) ==
    /\ wk[w].pc = "employee"
    /\ \/ LookupFailed(w)
       \/ Fault /\ Settle(w, "attention", 0)     \* employee_unavailable
       \/ Fault /\ Settle(w, "skipped", 0)       \* employee_inactive
       \/ Fault /\ Settle(w, "pending", 0)       \* missing_email, sender_unavailable
       \/ /\ Goto(w, "intent")
          /\ UNCHANGED <<reqVars, row, mailVars, lock, faults, losses>>

(* Mutant: the intent is only written after the call.                      *)
MarkIntent_Late(w) ==
    /\ wk[w].pc = "intent"
    /\ Goto(w, "create")
    /\ UNCHANGED <<reqVars, row, mailVars, lock, faults, losses>>

(* _mark(row, "sending"), committed before the remote create.              *)
MarkIntent(w) ==
    /\ wk[w].pc = "intent"
    /\ Mark("sending", 0)
    /\ Goto(w, "create")
    /\ UNCHANGED <<reqVars, mailVars, lock, faults, losses>>

(* _create_mail: one attempt, no transport-level replay.                   *)
CreateMail(w) ==
    /\ wk[w].pc = "create"
    /\ \E c \in Calls :
         /\ mail[c] = "none"
         /\ \A b \in 1..(c - 1) : mail[b] # "none"
         /\ mail' = [mail EXCEPT ![c] = "asked"]
         /\ Become(w, [wk[w] EXCEPT !.pc = "wait", !.call = c])
    /\ UNCHANGED <<reqVars, row, sent, late, lock, faults, losses>>

(* Mutant: every error counts as a rejection.                              *)
AnswerState_AlwaysRetry(st) == IF st \in {"outgoing", "sent"} THEN "queued" ELSE "pending"

(* A returned id, an Odoo fault, or no usable answer.                      *)
AnswerState(st) ==
    CASE st \in {"outgoing", "sent", "exception", "cancel"} -> "queued"
      [] st = "refused" -> "pending"
      [] OTHER -> "sending"

(* The answer to the create, or the end of waiting for one.                *)
CreateAnswered(w) ==
    LET c == wk[w].call
        next == AnswerState(mail[c])
    IN /\ wk[w].pc = "wait"
       /\ \/ /\ mail[c] # "asked"
             /\ Settle(w, next, IF next = "queued" THEN c ELSE 0)
             /\ UNCHANGED faults
          \/ Fault /\ Settle(w, AnswerState("asked"), 0)

WorkerStep(w) ==
    \/ FindMail(w) \/ ObserveMail(w) \/ CancelMail(w) \/ MarkSkipped(w)
    \/ CheckApproval(w) \/ ReadEmployee(w) \/ MarkIntent(w) \/ CreateMail(w) \/ CreateAnswered(w)

(* The process dies, or a status write fails and the error leaves run_once.*)
Crash(w) ==
    /\ wk[w].pc # "idle"
    /\ Fault
    /\ Release(w)
    /\ UNCHANGED <<reqVars, row, mailVars, losses>>

(* The session of the lock ends under a worker that keeps running.         *)
LoseLock ==
    /\ lock # NoWorker
    /\ losses < MaxLosses
    /\ losses' = losses + 1
    /\ lock' = NoWorker
    /\ UNCHANGED <<reqVars, row, mailVars, wk, faults>>

(* Odoo: a create takes effect, is refused, or never arrives.              *)
OdooCreate(c) ==
    /\ mail[c] = "asked"
    /\ \/ mail' = [mail EXCEPT ![c] = "outgoing"] /\ UNCHANGED faults
       \/ \E st \in {"refused", "lost"} : mail' = [mail EXCEPT ![c] = st] /\ Fault
    /\ UNCHANGED <<reqVars, row, sent, late, lock, wk, losses>>

(* Odoo's mail queue.                                                      *)
OdooSend(c) ==
    /\ mail[c] = "outgoing"
    /\ \/ /\ mail' = [mail EXCEPT ![c] = "sent"]
          /\ sent' = sent \cup {c}
          /\ UNCHANGED faults
       \/ mail' = [mail EXCEPT ![c] = "exception"] /\ UNCHANGED sent /\ Fault
    /\ UNCHANGED <<reqVars, row, late, lock, wk, losses>>

Next ==
    \/ \E recent \in BOOLEAN : Approve(recent)
    \/ Alter
    \/ \E w \in Workers : RunOnce(w) \/ WorkerStep(w) \/ Crash(w)
    \/ LoseLock
    \/ \E c \in Calls : OdooCreate(c) \/ OdooSend(c)

Spec == Init /\ [][Next]_vars

(* The tick keeps running, a worker that runs goes on, Odoo decides every  *)
(* call and works on its queue.  Faults and changes are never forced.      *)
Fairness ==
    /\ WF_vars(\E w \in Workers : RunOnce(w))
    /\ \A w \in Workers : WF_vars(WorkerStep(w))
    /\ \A c \in Calls : WF_vars(OdooCreate(c)) /\ WF_vars(OdooSend(c))

FairSpec == Spec /\ Fairness

-----------------------------------------------------------------------------
(* Properties *)

(* The create calls that have, or may still have, a message in Odoo.       *)
Created == {c \in Calls : mail[c] \notin {"none", "refused", "lost"}}

(* As long as the lock sessions live, a request never gets a second        *)
(* message, whatever crashes, time-outs, refusals and re-approvals happen  *)
(* (process_one, _mark before _create_mail, the conflict clause).          *)
AtMostOneMail == losses = 0 => Cardinality(Created) <= 1

(* A message that exists or may come into being is on record: the row      *)
(* never says that sending may start.                                      *)
IntentIsDurable == losses = 0 /\ Created # {} => row.state \notin {"none", "pending"}

(* One message at most, and never one without a record of it (process_one).*)
OneMailOnRecord == AtMostOneMail /\ IntentIsDurable

(* A skipped request has no message that left Odoo or still can, except    *)
(* one that Odoo sent while it was being cancelled (_observe_mail).        *)
SkippedIsUnsent ==
    losses = 0 /\ row.state = "skipped" =>
        /\ sent # {} => late
        /\ \A c \in Calls : mail[c] \notin {"asked", "outgoing"}

(* "sent" is only recorded for a message that Odoo has sent.               *)
SentIsTrue == row.state = "sent" => row.mail \in sent

(* The settled states mean what the request page shows (_observe_mail).    *)
StatusIsTrue == SkippedIsUnsent /\ SentIsTrue

(* A settled row is never reopened, neither by a late worker nor by a new  *)
(* approval of the request.                                                *)
SettledStays ==
    [][losses' = 0 /\ row.state \in Settled => row' = row]_vars

(* With finitely many faults the row settles, or it waits for a human      *)
(* because its one create call came to nothing unnoticed: no message that  *)
(* Odoo has is ever left unobserved (delivery_unknown).                    *)
OpenOnlyIfLost ==
    <>[](row = NoRow \/ row.state \in Settled \/ (row.state = "sending" /\ Created = {}))

(* README.md: "Each request gets at most one approval email."              *)
OneMailEver == Cardinality(Created) <= 1

(* The inductive invariant behind AtMostOneMail and IntentIsDurable: only  *)
(* the lock holder runs, its copy of the row is current until it marks its *)
(* intent, and the calls before that intent came to nothing.               *)
WorkerInv(w) ==
    /\ wk[w].pc # "idle" => lock = w
    /\ wk[w].pc \in {"find", "observe", "cancel", "skip"} =>
          wk[w].row.state = row.state /\ row.state \in Due
    /\ wk[w].pc \in {"observe", "cancel", "skip"} => wk[w].call \in InOdoo
    /\ wk[w].pc \in {"check", "employee", "intent"} =>
          wk[w].row.state = "pending" /\ row.state = "pending"
    /\ wk[w].pc \in {"create", "wait"} => row.state = "sending"
    /\ wk[w].pc = "create" => Created = {}
    /\ wk[w].pc = "wait" => Created \subseteq {wk[w].call}

OutboxInv ==
    losses = 0 =>
        /\ \A w \in Workers : WorkerInv(w)
        /\ Created # {} => row.state \notin {"none", "pending"}
        /\ \A b, c \in Created : b = c

(* What a worker remembers of the row and of the message it looked up.     *)
MemoryInv(w) ==
    /\ wk[w].pc # "idle" => wk[w].row.state \in Due
    /\ wk[w].pc \in {"observe", "cancel", "skip"} => wk[w].call \in Calls
    /\ wk[w].pc = "observe" /\ wk[w].seen = "sent" => wk[w].call \in sent
    /\ wk[w].pc = "skip" =>
          /\ mail[wk[w].call] = "cancel"
          /\ wk[w].call \in sent => late

(* The inductive invariant behind StatusIsTrue, on top of OutboxInv.       *)
StatusInv ==
    /\ \A w \in Workers : MemoryInv(w)
    /\ \A c \in Calls : mail[c] = "sent" => c \in sent
    /\ \A c \in sent : mail[c] \in {"sent", "cancel"}
    /\ StatusIsTrue
=============================================================================
