---------------------------- MODULE RecalcQueue -----------------------------
(***************************************************************************)
(* The durable queue of days whose production has to be computed again     *)
(* (attendance_recalc.py): workers claim a day with a lease, compute it    *)
(* outside a transaction, store it behind a fence, and publish that the    *)
(* caches were refreshed. The mirror queues a day in the transaction that  *)
(* changes its attendance (attendance_mirror._enqueue_recalc_cur). Beside  *)
(* the workers, ordinary refreshes store days of their own (precompute.py) *)
(* and pages are rendered into a cache (_http_cache.py).                   *)
(*                                                                         *)
(* Time is abstract: a lease or a time of completion is a token that was   *)
(* never used before, and a lease lapses in a step of its own.             *)
(***************************************************************************)
EXTENDS Integers, Sequences, FiniteSets

CONSTANTS
    Days, Workers,
    CutoverDay,      \* the day the live cutover recomputed
    MaxChanges,      \* bound: changes of attendance and further requests
    MaxFaults,       \* bound: failures, crashes and leases that lapse too early
    MaxOrdinary,     \* bound: refreshes outside the queue
    MaxRenders       \* bound: pages rendered into the cache

ASSUME DaysAssumption == CutoverDay \in Days
ASSUME BoundsAssumption ==
    MaxChanges \in Nat /\ MaxFaults \in Nat /\ MaxOrdinary \in Nat /\ MaxRenders \in Nat

VARIABLES
    source,   \* version of a day's attendance in the mirror
    q,        \* attendance_recalc_queue, by day
    order,    \* the unfinished days, oldest requested_at first
    prod,     \* version production_daily was computed from, by day
    made,     \* history: the version the last completed claim stored
    page,     \* version the cached page of a day shows, 0 if none
    wk,       \* process_next of each worker
    ordi,     \* precompute_day: the day it has computed and its version
    render,   \* a page that has been rendered and not stored
    token, changes, ordinaries, renders, faults,
    late      \* history: a day's page was rendered before and stored after its last
              \* completion, or an ordinary refresh put an older production there

vars == <<source, q, order, prod, made, page, wk, ordi, render, token, changes,
          ordinaries, renders, faults, late>>

NoRow == [present |-> FALSE, started |-> 0, lapsed |-> FALSE, done |-> 0,
          cstart |-> 0, clapsed |-> FALSE, ready |-> FALSE, attempts |-> 0]
Idle == [pc |-> "idle", day |-> CutoverDay, attempt |-> 0, token |-> 0, ver |-> 0, done |-> 0]
None == [busy |-> FALSE, day |-> CutoverDay, ver |-> 0]

Init ==
    /\ source = [d \in Days |-> 1]
    /\ q = [d \in Days |-> NoRow]
    /\ order = <<>>
    /\ prod = [d \in Days |-> 0] /\ made = prod /\ page = prod
    /\ wk = [w \in Workers |-> Idle]
    /\ ordi = None /\ render = None
    /\ token = 0 /\ changes = 0 /\ ordinaries = 0 /\ renders = 0 /\ faults = 0
    /\ late = [d \in Days |-> FALSE]

Without(o, i) == SubSeq(o, 1, i - 1) \o SubSeq(o, i + 1, Len(o))
With(o, i, d) == SubSeq(o, 1, i) \o <<d>> \o SubSeq(o, i + 1, Len(o))

(* _enqueue_recalc_cur: a day that is still waiting keeps its place and its
   attempts; a finished one starts anew. *)
(* Mutant: a day that waits is queued a second time. *)
EnqueueTwice(d) ==
    /\ q' = [q EXCEPT ![d] = [NoRow EXCEPT !.present = TRUE, !.attempts = q[d].attempts]]
    /\ order' = Append(order, d)
(* Mutant: a claim on the day survives the new request. *)
EnqueueKeepsClaim(d) ==
    /\ q' = [q EXCEPT ![d] = [NoRow EXCEPT !.present = TRUE, !.started = q[d].started,
                                           !.attempts = q[d].attempts]]
    /\ order' = IF q[d].present /\ q[d].done = 0 THEN order ELSE Append(order, d)
Enqueue(d) ==
    /\ q' = [q EXCEPT ![d] = [NoRow EXCEPT !.present = TRUE,
                                           !.attempts = IF q[d].done = 0 THEN q[d].attempts ELSE 0]]
    /\ order' = IF q[d].present /\ q[d].done = 0 THEN order ELSE Append(order, d)

(* The mirror stores a changed row and queues its days in one transaction. *)
ChangeAttendance(d) ==
    /\ changes < MaxChanges
    /\ changes' = changes + 1
    /\ source' = [source EXCEPT ![d] = @ + 1]
    /\ Enqueue(d)
    /\ UNCHANGED <<prod, made, page, wk, ordi, render, token, ordinaries, renders, faults, late>>

(* enqueue_recalc: a day is asked for again. *)
RequestAgain(d) ==
    /\ changes < MaxChanges
    /\ changes' = changes + 1
    /\ Enqueue(d)
    /\ UNCHANGED <<source, prod, made, page, wk, ordi, render, token, ordinaries, renders, faults, late>>

(* _enqueue_cutover_cur: the attempts start again even while a worker is at
   the day, and a finished day comes back with its first, older requested_at. *)
RequestCutover ==
    LET d == CutoverDay
    IN /\ changes < MaxChanges
       /\ changes' = changes + 1
       /\ q' = [q EXCEPT ![d] = [NoRow EXCEPT !.present = TRUE]]
       /\ IF q[d].present /\ q[d].done = 0 THEN order' = order
          ELSE \E i \in 0..Len(order) : order' = With(order, i, d)
       /\ UNCHANGED <<source, prod, made, page, wk, ordi, render, token, ordinaries, renders, faults, late>>

-----------------------------------------------------------------------------
(* A lease or a time for a retry is over: that of a worker that is gone, or,
   when a computation takes longer than CLAIM_LEASE, that of one at work. *)
Held(t) == \E w \in Workers : wk[w].pc # "idle" /\ wk[w].token = t
Lapse(d) ==
    \/ /\ q[d].started # 0 /\ ~q[d].lapsed
       /\ q' = [q EXCEPT ![d].lapsed = TRUE]
    \/ /\ q[d].cstart # 0 /\ ~q[d].clapsed
       /\ q' = [q EXCEPT ![d].clapsed = TRUE]
LeaseLapses(d) ==
    /\ ~Held(q[d].started) /\ ~Held(q[d].cstart)
    /\ Lapse(d)
    /\ UNCHANGED <<source, order, prod, made, page, wk, ordi, render, token, changes,
                   ordinaries, renders, faults, late>>
LapsesEarly(d) ==
    /\ faults < MaxFaults
    /\ faults' = faults + 1
    /\ Held(q[d].started) \/ Held(q[d].cstart)
    /\ Lapse(d)
    /\ UNCHANGED <<source, order, prod, made, page, wk, ordi, render, token, changes,
                   ordinaries, renders, late>>

(* _claim_pending_cache: a completed day whose caches are not refreshed. *)
(* Mutant: the lease of a lost refresh never ends. *)
CacheNeverAgain(d) == q[d].done # 0 /\ ~q[d].ready /\ q[d].cstart = 0
CacheEligible(d) ==
    q[d].done # 0 /\ ~q[d].ready /\ (q[d].cstart = 0 \/ q[d].clapsed)
ClaimCache(w, d) ==
    /\ wk[w].pc = "idle"
    /\ CacheEligible(d)
    /\ token' = token + 1
    /\ q' = [q EXCEPT ![d].cstart = token + 1, ![d].clapsed = FALSE]
    /\ wk' = [wk EXCEPT ![w] = [Idle EXCEPT !.pc = "refresh", !.day = d, !.done = q[d].done,
                                            !.attempt = q[d].attempts, !.token = token + 1]]
    /\ UNCHANGED <<source, order, prod, made, page, ordi, render, changes, ordinaries, renders, faults, late>>

(* _claim_next: the oldest day that nobody holds. *)
Eligible(d) == q[d].present /\ q[d].done = 0 /\ (q[d].started = 0 \/ q[d].lapsed)
(* Mutant: the row and the claim get two readings of the clock. *)
ClaimTwoClocks(w, d) ==
    /\ wk[w].pc = "idle"
    /\ ~\E e \in Days : CacheEligible(e)
    /\ \E i \in DOMAIN order : /\ order[i] = d /\ Eligible(d)
                               /\ \A j \in 1..(i - 1) : ~Eligible(order[j])
    /\ token' = token + 1
    /\ q' = [q EXCEPT ![d].started = token + 2, ![d].lapsed = FALSE, ![d].attempts = @ + 1]
    /\ wk' = [wk EXCEPT ![w] = [Idle EXCEPT !.pc = "prepare", !.day = d,
                                            !.attempt = q[d].attempts + 1, !.token = token + 1]]
    /\ UNCHANGED <<source, order, prod, made, page, ordi, render, changes, ordinaries, renders, faults, late>>
ClaimNext(w, d) ==
    /\ wk[w].pc = "idle"
    /\ ~\E e \in Days : CacheEligible(e)
    /\ \E i \in DOMAIN order : /\ order[i] = d /\ Eligible(d)
                               /\ \A j \in 1..(i - 1) : ~Eligible(order[j])
    /\ token' = token + 1
    /\ q' = [q EXCEPT ![d].started = token + 1, ![d].lapsed = FALSE, ![d].attempts = @ + 1]
    /\ wk' = [wk EXCEPT ![w] = [Idle EXCEPT !.pc = "prepare", !.day = d,
                                            !.attempt = q[d].attempts + 1, !.token = token + 1]]
    /\ UNCHANGED <<source, order, prod, made, page, ordi, render, changes, ordinaries, renders, faults, late>>

(* precompute.prepare_day, outside any transaction *)
Prepare(w) ==
    /\ wk[w].pc = "prepare"
    /\ wk' = [wk EXCEPT ![w].pc = "store", ![w].ver = source[wk[w].day]]
    /\ UNCHANGED <<source, q, order, prod, made, page, ordi, render, token, changes,
                   ordinaries, renders, faults, late>>

(* The claim still owns its day. *)
Owns(w) == LET r == q[wk[w].day]
           IN r.done = 0 /\ r.attempts = wk[w].attempt /\ r.started = wk[w].token

(* _complete_claim: the fence, the production rows and the completion in one
   transaction; a superseded claim writes nothing. *)
(* Mutant: only the number of attempts is compared. *)
CompleteByAttempt(w) ==
    LET d == wk[w].day
    IN /\ wk[w].pc = "store"
       /\ q[d].done = 0 /\ q[d].attempts = wk[w].attempt
       /\ token' = token + 1
       /\ prod' = [prod EXCEPT ![d] = wk[w].ver]
       /\ made' = [made EXCEPT ![d] = wk[w].ver]
       /\ q' = [q EXCEPT ![d] = [@ EXCEPT !.done = token + 1, !.started = 0, !.lapsed = FALSE,
                                          !.cstart = token + 1, !.clapsed = FALSE]]
       /\ \E i \in DOMAIN order : order[i] = d /\ order' = Without(order, i)
       /\ late' = [late EXCEPT ![d] = FALSE]
       /\ wk' = [wk EXCEPT ![w].pc = "refresh", ![w].token = token + 1, ![w].done = token + 1]
       /\ UNCHANGED <<source, page, ordi, render, changes, ordinaries, renders, faults>>
Complete(w) ==
    LET d == wk[w].day
    IN /\ wk[w].pc = "store"
       /\ Owns(w)
       /\ token' = token + 1
       /\ prod' = [prod EXCEPT ![d] = wk[w].ver]
       /\ made' = [made EXCEPT ![d] = wk[w].ver]
       /\ q' = [q EXCEPT ![d] = [@ EXCEPT !.done = token + 1, !.started = 0, !.lapsed = FALSE,
                                          !.cstart = token + 1, !.clapsed = FALSE]]
       /\ \E i \in DOMAIN order : order[i] = d /\ order' = Without(order, i)
       /\ late' = [late EXCEPT ![d] = FALSE]
       /\ wk' = [wk EXCEPT ![w].pc = "refresh", ![w].token = token + 1, ![w].done = token + 1]
       /\ UNCHANGED <<source, page, ordi, render, changes, ordinaries, renders, faults>>
Superseded(w) ==
    /\ wk[w].pc = "store" /\ ~Owns(w)
    /\ wk' = [wk EXCEPT ![w] = Idle]
    /\ UNCHANGED <<source, q, order, prod, made, page, ordi, render, token, changes,
                   ordinaries, renders, faults, late>>

(* An exception while computing or storing; _record_failure sets the time of
   the retry behind the same fence. *)
Fail(w) ==
    /\ wk[w].pc \in {"prepare", "store"} /\ faults < MaxFaults
    /\ faults' = faults + 1
    /\ token' = token + 1
    /\ q' = IF Owns(w) THEN [q EXCEPT ![wk[w].day].started = token + 1, ![wk[w].day].lapsed = FALSE]
            ELSE q
    /\ wk' = [wk EXCEPT ![w] = Idle]
    /\ UNCHANGED <<source, order, prod, made, page, ordi, render, changes, ordinaries, renders, late>>

(* _refresh_caches *)
(* Mutant: the pages are not dropped. *)
RefreshNothing(w) ==
    /\ wk[w].pc = "refresh"
    /\ wk' = [wk EXCEPT ![w].pc = "ready"]
    /\ UNCHANGED <<source, q, order, prod, made, page, ordi, render, token, changes,
                   ordinaries, renders, faults, late>>
RefreshCaches(w) ==
    /\ wk[w].pc = "refresh"
    /\ page' = [d \in Days |-> 0]    \* invalidate_all_cache
    /\ wk' = [wk EXCEPT ![w].pc = "ready"]
    /\ UNCHANGED <<source, q, order, prod, made, ordi, render, token, changes,
                   ordinaries, renders, faults, late>>

(* _mark_cache_ready, fenced by the completion and the lease *)
MarkCacheReady(w) ==
    LET d == wk[w].day
        r == q[d]
    IN /\ wk[w].pc = "ready"
       /\ q' = IF r.done # 0 /\ r.done = wk[w].done /\ r.attempts = wk[w].attempt /\ ~r.ready
                  /\ r.cstart = wk[w].token
               THEN [q EXCEPT ![d].ready = TRUE, ![d].cstart = 0, ![d].clapsed = FALSE]
               ELSE q
       /\ wk' = [wk EXCEPT ![w] = Idle]
       /\ UNCHANGED <<source, order, prod, made, page, ordi, render, token, changes,
                      ordinaries, renders, faults, late>>

(* The refresh fails, or the process stops: the lease is left to lapse. *)
Crash(w) ==
    /\ wk[w].pc # "idle" /\ faults < MaxFaults
    /\ faults' = faults + 1
    /\ wk' = [wk EXCEPT ![w] = Idle]
    /\ UNCHANGED <<source, q, order, prod, made, page, ordi, render, token, changes,
                   ordinaries, renders, late>>

-----------------------------------------------------------------------------
(* precompute_day: ordinary_refresh_ready, the computation, then the store
   behind the fence of store_prepared_day. Both look at the row of the
   cutover day only. *)
OrdinaryReady == q[CutoverDay].done # 0 /\ q[CutoverDay].ready
OrdinaryCompute(d) ==
    /\ ~ordi.busy /\ ordinaries < MaxOrdinary
    /\ OrdinaryReady
    /\ ordinaries' = ordinaries + 1
    /\ ordi' = [busy |-> TRUE, day |-> d, ver |-> source[d]]
    /\ UNCHANGED <<source, q, order, prod, made, page, wk, render, token, changes, renders, faults, late>>
OrdinaryStore ==
    /\ ordi.busy
    /\ ordi' = None
    /\ IF OrdinaryReady
       THEN /\ prod' = [prod EXCEPT ![ordi.day] = ordi.ver]
            /\ late' = [late EXCEPT ![ordi.day] = @ \/ ordi.ver < made[ordi.day]]
       ELSE UNCHANGED <<prod, late>>
    /\ UNCHANGED <<source, q, order, made, page, wk, render, token, changes, ordinaries, renders, faults>>

(* A page is rendered from production_daily and put into the cache. *)
RenderPage(d) ==
    /\ ~render.busy /\ renders < MaxRenders
    /\ page[d] = 0
    /\ renders' = renders + 1
    /\ render' = [busy |-> TRUE, day |-> d, ver |-> prod[d]]
    /\ UNCHANGED <<source, q, order, prod, made, page, wk, ordi, token, changes, ordinaries, faults, late>>
StorePage ==
    /\ render.busy
    /\ page' = [page EXCEPT ![render.day] = render.ver]
    /\ late' = [late EXCEPT ![render.day] = @ \/ render.ver # prod[render.day]]
    /\ render' = None
    /\ UNCHANGED <<source, q, order, prod, made, wk, ordi, token, changes, ordinaries, renders, faults>>

Process(w) ==
    \/ \E d \in Days : ClaimCache(w, d) \/ ClaimNext(w, d)
    \/ Prepare(w) \/ Complete(w) \/ Superseded(w) \/ RefreshCaches(w) \/ MarkCacheReady(w)

Next ==
    \/ \E d \in Days : ChangeAttendance(d) \/ RequestAgain(d) \/ LeaseLapses(d) \/ LapsesEarly(d)
    \/ RequestCutover
    \/ \E w \in Workers : Process(w)
    \/ \E w \in Workers : Fail(w) \/ Crash(w)
    \/ \E d \in Days : OrdinaryCompute(d) \/ RenderPage(d)
    \/ OrdinaryStore \/ StorePage

Spec == Init /\ [][Next]_vars

(* The worker's loop comes round for ever and leases lapse. *)
FairSpec ==
    /\ Spec
    /\ \A w \in Workers : WF_vars(Process(w))
    /\ \A d \in Days : WF_vars(LeaseLapses(d))

-----------------------------------------------------------------------------
Versions == Nat
RowType == [present : BOOLEAN, started : Nat, lapsed : BOOLEAN, done : Nat,
            cstart : Nat, clapsed : BOOLEAN, ready : BOOLEAN, attempts : Nat]
WorkType == [pc : {"idle", "prepare", "store", "refresh", "ready"}, day : Days,
             attempt : Nat, token : Nat, ver : Nat, done : Nat]
SlowType == [busy : BOOLEAN, day : Days, ver : Nat]
TypeOK ==
    /\ source \in [Days -> Versions]
    /\ q \in [Days -> RowType]
    /\ order \in Seq(Days)
    /\ prod \in [Days -> Nat] /\ made \in [Days -> Nat] /\ page \in [Days -> Nat]
    /\ wk \in [Workers -> WorkType]
    /\ ordi \in SlowType /\ render \in SlowType
    /\ token \in Nat /\ changes \in Nat /\ ordinaries \in Nat /\ renders \in Nat /\ faults \in Nat
    /\ late \in [Days -> BOOLEAN]
    /\ \A d \in Days : q[d].started <= token /\ q[d].cstart <= token
    /\ \A w \in Workers : wk[w].token <= token

(* A completed day was computed from the attendance as it is now: what a
   worker read before the attendance changed, or before its lease was given to
   another, never completes the day (_complete_claim). *)
CompletedIsCurrent == \A d \in Days : q[d].done # 0 => made[d] = source[d]

(* The queue is kept in one piece: exactly the unfinished days wait in it. *)
OrderIsPending ==
    /\ \A d \in Days : (q[d].present /\ q[d].done = 0) <=> \E i \in DOMAIN order : order[i] = d
    /\ \A i, j \in DOMAIN order : order[i] = order[j] => i = j

(* When a day is ready, no page shows an older production than the completed
   one, unless a page that was rendered before is stored after the refresh, or
   an ordinary refresh brought an older production back (_mark_cache_ready, the
   fence of CacheRefreshClaim). *)
PageIsUpToDate(d) == late[d] \/ page[d] = 0 \/ page[d] >= made[d]
ReadyIsVisible == \A d \in Days : q[d].ready => PageIsUpToDate(d)

(* A completed day was computed from the attendance as it is now, whatever was
   queued, leased or lost meanwhile; exactly the unfinished days wait; a ready
   day is on the pages (attendance_recalc.py:176). *)
QueueIsRight == TypeOK /\ CompletedIsCurrent /\ OrderIsPending /\ ReadyIsVisible

(* The inductive invariant. A worker that still owns its day has computed it from
   the attendance as it is now; a day that is not completed is not ready; the
   production is not older than the completed one unless the day is late; and a
   worker about to mark a day ready has dropped the pages since the completion. *)
OwnerIsCurrent ==
    \A w \in Workers : /\ wk[w].pc \in {"prepare", "store"} => wk[w].token # 0
                       /\ wk[w].pc = "store" /\ Owns(w) => wk[w].ver = source[wk[w].day]
ReadyIsDone == \A d \in Days : q[d].ready => q[d].done # 0
DoneIsOld == /\ \A d \in Days : q[d].done <= token
             /\ \A w \in Workers : wk[w].done <= token
ProdIsUpToDate == \A d \in Days : late[d] \/ prod[d] >= made[d]
MarkerSawRefresh ==
    \A w \in Workers : wk[w].pc = "ready" /\ wk[w].done # 0 /\ wk[w].done = q[wk[w].day].done =>
                           PageIsUpToDate(wk[w].day)
QueueInv == /\ QueueIsRight
            /\ OwnerIsCurrent /\ ReadyIsDone /\ DoneIsOld /\ ProdIsUpToDate /\ MarkerSawRefresh

(* Every requested day becomes ready. *)
EveryDayIsReady == \A d \in Days : q[d].present ~> q[d].ready

(* The queue implements the ledger of days. *)
Published == [d \in Days |-> IF q[d].done = 0 THEN 0 ELSE made[d]]
Next1(v) == v + 1
Ledger == INSTANCE DayLedger WITH
    source <- source, published <- Published, Pending <- 0, Following <- Next1
LedgerSpec == Ledger!Spec

=============================================================================
