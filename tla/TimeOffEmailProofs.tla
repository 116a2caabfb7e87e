-------------------------- MODULE TimeOffEmailProofs --------------------------
(***************************************************************************)
(* Proofs about TimeOffEmail for any number of workers, create calls,      *)
(* faults and changes of the request.                                      *)
(***************************************************************************)
EXTENDS TimeOffEmail, FiniteSetTheorems, TLAPS

-----------------------------------------------------------------------------
(* Type correctness *)

(* The idle worker and the missing row have their types.                   *)
LEMMA IdleType == Idle \in WorkerStates /\ NoRow \in Rows /\ 0 \in 0..MaxCalls
  BY BoundsAssumption
     DEF Idle, NoRow, WorkerStates, Rows, PCs, RowStates, Due, Settled, MailStates

(* Init establishes the types.                                             *)
LEMMA InitType == Init => TypeOK
  <1> SUFFICES ASSUME Init PROVE TypeOK
    OBVIOUS
  <1>1. wk \in [Workers -> WorkerStates] /\ row \in Rows
    BY IdleType DEF Init
  <1>2. mail \in [Calls -> MailStates] /\ sent \in SUBSET Calls
    BY DEF Init, MailStates
  <1>3. /\ faults \in 0..MaxFaults /\ changes \in 0..MaxChanges
        /\ losses \in 0..MaxLosses
    BY BoundsAssumption DEF Init
  <1>4. same \in BOOLEAN /\ late \in BOOLEAN
    BY Zenon DEF Init
  <1>5. req \in RequestStates /\ lock \in Workers \cup {NoWorker}
    BY DEF Init, RequestStates
  <1> QED
    BY <1>1, <1>2, <1>3, <1>4, <1>5, Zenon DEF TypeOK

(* What a step of one worker does to the worker function.                  *)
LEMMA BecomeType ==
  ASSUME TypeOK, NEW w \in Workers, NEW new, Become(w, new)
  PROVE  /\ wk'[w] = new
         /\ \A v \in Workers \ {w} : wk'[v] = wk[v]
         /\ new \in WorkerStates => wk' \in [Workers -> WorkerStates]
  BY DEF TypeOK, Become

(* Moving on changes the program counter and nothing else.                 *)
LEMMA GotoType ==
  ASSUME TypeOK, NEW w \in Workers, NEW pc \in PCs, Goto(w, pc)
  PROVE  /\ wk' \in [Workers -> WorkerStates]
         /\ wk'[w].pc = pc /\ wk'[w].row = wk[w].row /\ wk'[w].call = wk[w].call
         /\ \A v \in Workers \ {w} : wk'[v] = wk[v]
  <1> DEFINE new == [wk[w] EXCEPT !.pc = pc]
  <1>1. /\ new \in WorkerStates
        /\ new.pc = pc /\ new.row = wk[w].row /\ new.call = wk[w].call
    BY DEF TypeOK, WorkerStates
  <1>2. Become(w, new)
    BY DEF Goto
  <1> HIDE DEF new
  <1> QED
    BY <1>1, <1>2, BecomeType

(* The end of a run: the worker is idle and the lock is not its own.       *)
LEMMA ReleaseType ==
  ASSUME TypeOK, NEW w \in Workers, Release(w)
  PROVE  /\ wk' \in [Workers -> WorkerStates]
         /\ lock' \in Workers \cup {NoWorker}
         /\ wk'[w].pc = "idle"
         /\ \A v \in Workers \ {w} : wk'[v] = wk[v]
         /\ lock' = lock \/ (lock = w /\ lock' = NoWorker)
  BY IdleType, BecomeType DEF Release, TypeOK, Idle

(* A verdict keeps the types.                                              *)
LEMMA SettleType ==
  ASSUME TypeOK, NEW w \in Workers, NEW st \in RowStates, NEW id \in 0..MaxCalls,
         Settle(w, st, id), faults' \in 0..MaxFaults
  PROVE  TypeOK'
  <1>1. row' \in Rows
    BY DEF TypeOK, Settle, Mark, Rows
  <1> QED
    BY <1>1, ReleaseType DEF TypeOK, Settle, reqVars, mailVars

(* The error handler keeps the types.                                      *)
LEMMA LookupFailedType ==
  ASSUME TypeOK, NEW w \in Workers, LookupFailed(w)
  PROVE  TypeOK'
  <1>1. wk[w].row.state \in RowStates /\ faults' \in 0..MaxFaults
    BY BoundsAssumption DEF TypeOK, WorkerStates, Rows, LookupFailed, Fault
  <1> QED
    BY <1>1, IdleType, SettleType DEF LookupFailed

(* A worker moves on and nothing but its program counter changes.          *)
LEMMA GotoOnlyType ==
  ASSUME TypeOK, NEW w \in Workers, NEW pc \in PCs, Goto(w, pc),
         UNCHANGED <<reqVars, row, mailVars, lock, faults, losses>>
  PROVE  TypeOK'
  BY GotoType DEF TypeOK, reqVars, mailVars

(* Every step of a worker keeps the types.                                 *)
LEMMA FindMailType ==
  ASSUME TypeOK, NEW w \in Workers, FindMail(w)
  PROVE  TypeOK'
  <1>0. /\ {"attention", "sending"} \subseteq RowStates /\ "check" \in PCs
        /\ faults \in 0..MaxFaults
    BY DEF RowStates, Due, Settled, PCs, TypeOK
  <1>1. CASE LookupFailed(w)
    BY <1>1, LookupFailedType
  <1>2. CASE (Settle(w, "attention", 0) \/ Settle(w, "sending", 0)) /\ UNCHANGED faults
    BY <1>0, <1>2, IdleType, SettleType
  <1>3. CASE Goto(w, "check") /\ UNCHANGED <<reqVars, row, mailVars, lock, faults, losses>>
    BY <1>0, <1>3, GotoOnlyType
  <1>4. ASSUME NEW c \in InOdoo,
               Become(w, [wk[w] EXCEPT !.pc = "observe", !.call = c, !.seen = mail[c]]),
               UNCHANGED <<reqVars, row, mailVars, lock, faults, losses>>
        PROVE  TypeOK'
    <2>1. c \in 0..MaxCalls /\ mail[c] \in MailStates
      BY BoundsAssumption DEF InOdoo, Calls, TypeOK
    <2>2. [wk[w] EXCEPT !.pc = "observe", !.call = c, !.seen = mail[c]] \in WorkerStates
      BY <2>1 DEF TypeOK, WorkerStates, PCs
    <2>3. wk' \in [Workers -> WorkerStates]
      BY <1>4, <2>2, BecomeType
    <2> QED
      BY <1>4, <2>3 DEF TypeOK, reqVars, mailVars
  <1> QED
    BY <1>1, <1>2, <1>3, <1>4 DEF FindMail

(* Observing a message keeps the types.                                    *)
LEMMA ObserveMailType ==
  ASSUME TypeOK, NEW w \in Workers, ObserveMail(w)
  PROVE  TypeOK'
  <1>0. /\ Verdict(wk[w].seen) \in RowStates /\ "queued" \in RowStates
        /\ wk[w].call \in 0..MaxCalls /\ "cancel" \in PCs /\ faults \in 0..MaxFaults
    BY DEF Verdict, RowStates, Due, Settled, PCs, TypeOK, WorkerStates
  <1>1. CASE LookupFailed(w)
    BY <1>1, LookupFailedType
  <1>2. CASE \/ Settle(w, Verdict(wk[w].seen), wk[w].call) /\ UNCHANGED faults
             \/ Settle(w, "queued", wk[w].call) /\ UNCHANGED faults
    BY <1>0, <1>2, SettleType
  <1>3. CASE Goto(w, "cancel") /\ UNCHANGED <<reqVars, row, mailVars, lock, faults, losses>>
    BY <1>0, <1>3, GotoOnlyType
  <1> QED
    BY <1>1, <1>2, <1>3 DEF ObserveMail

(* Cancelling a message keeps the types.                                   *)
LEMMA CancelMailType ==
  ASSUME TypeOK, NEW w \in Workers, CancelMail(w)
  PROVE  TypeOK'
  <1>1. CASE LookupFailed(w)
    BY <1>1, LookupFailedType
  <1>2. CASE ~LookupFailed(w)
    <2>1. wk' \in [Workers -> WorkerStates]
      BY <1>2, GotoType DEF CancelMail, PCs
    <2>2. mail' \in [Calls -> MailStates]
      BY <1>2 DEF CancelMail, TypeOK, MailStates
    <2>3. late' \in BOOLEAN
      BY <1>2 DEF CancelMail, TypeOK
    <2> QED
      BY <1>2, <2>1, <2>2, <2>3 DEF CancelMail, TypeOK, reqVars
  <1> QED
    BY <1>1, <1>2

(* The steps that only mark the row or move on keep the types.             *)
LEMMA SmallStepsType ==
  ASSUME TypeOK, NEW w \in Workers,
         MarkSkipped(w) \/ CheckApproval(w) \/ ReadEmployee(w)
  PROVE  TypeOK'
  <1>0. /\ {"attention", "skipped", "pending"} \subseteq RowStates
        /\ {"employee", "intent"} \subseteq PCs
        /\ wk[w].call \in 0..MaxCalls /\ faults \in 0..MaxFaults
        /\ Fault => faults' \in 0..MaxFaults
    BY BoundsAssumption DEF RowStates, Due, Settled, PCs, TypeOK, WorkerStates, Fault
  <1>1. CASE LookupFailed(w)
    BY <1>1, LookupFailedType
  <1>2. CASE /\ \/ Settle(w, "skipped", 0) \/ Settle(w, "skipped", wk[w].call)
                \/ Settle(w, "attention", 0) \/ Settle(w, "pending", 0)
             /\ Fault \/ UNCHANGED faults
    BY <1>0, <1>2, IdleType, SettleType
  <1>3. CASE /\ Goto(w, "employee") \/ Goto(w, "intent")
             /\ UNCHANGED <<reqVars, row, mailVars, lock, faults, losses>>
    BY <1>0, <1>3, GotoOnlyType
  <1> QED
    BY <1>1, <1>2, <1>3 DEF MarkSkipped, CheckApproval, ReadEmployee

(* The create call and its answer keep the types.                          *)
LEMMA CreateType ==
  ASSUME TypeOK, NEW w \in Workers,
         MarkIntent(w) \/ CreateMail(w) \/ CreateAnswered(w)
  PROVE  TypeOK'
  <1>1. CASE MarkIntent(w)
    <2>1. wk' \in [Workers -> WorkerStates]
      BY <1>1, GotoType DEF MarkIntent, PCs
    <2>2. row' \in Rows
      BY <1>1, IdleType DEF MarkIntent, Mark, TypeOK, Rows, RowStates, Due
    <2> QED
      BY <1>1, <2>1, <2>2 DEF MarkIntent, TypeOK, reqVars, mailVars
  <1>2. CASE CreateMail(w)
    <2>1. PICK c \in Calls : /\ mail' = [mail EXCEPT ![c] = "asked"]
                             /\ Become(w, [wk[w] EXCEPT !.pc = "wait", !.call = c])
      BY <1>2 DEF CreateMail
    <2>2. c \in 0..MaxCalls
      BY BoundsAssumption DEF Calls
    <2>3. [wk[w] EXCEPT !.pc = "wait", !.call = c] \in WorkerStates
      BY <2>2 DEF TypeOK, WorkerStates, PCs
    <2>4. wk' \in [Workers -> WorkerStates]
      BY <2>1, <2>3, BecomeType
    <2>5. mail' \in [Calls -> MailStates]
      BY <2>1 DEF TypeOK, MailStates
    <2> QED
      BY <1>2, <2>4, <2>5 DEF CreateMail, TypeOK, reqVars
  <1>3. CASE CreateAnswered(w)
    <2>1. /\ AnswerState(mail[wk[w].call]) \in RowStates
          /\ AnswerState("asked") \in RowStates
          /\ wk[w].call \in 0..MaxCalls
      BY DEF AnswerState, RowStates, Due, TypeOK, WorkerStates
    <2>2. faults' \in 0..MaxFaults
      BY <1>3, BoundsAssumption DEF CreateAnswered, Fault, TypeOK
    <2>3. PICK st \in RowStates, id \in 0..MaxCalls : Settle(w, st, id)
      BY <1>3, <2>1, IdleType DEF CreateAnswered
    <2> QED
      BY <2>2, <2>3, SettleType
  <1> QED
    BY <1>1, <1>2, <1>3

(* Every step keeps the types.                                             *)
LEMMA NextType == TypeOK /\ [Next]_vars => TypeOK'
  <1> SUFFICES ASSUME TypeOK, [Next]_vars PROVE TypeOK'
    OBVIOUS
  <1>1. ASSUME NEW recent \in BOOLEAN, Approve(recent) PROVE TypeOK'
    <2>1. row' \in Rows /\ req' \in RequestStates /\ changes' \in 0..MaxChanges
      BY <1>1, IdleType, BoundsAssumption
         DEF Approve, Capture, Change, TypeOK, NoRow, Rows, RowStates, Due, RequestStates
    <2>2. same' \in BOOLEAN
      BY <1>1 DEF Approve, Capture, TypeOK
    <2> QED
      BY <1>1, <2>1, <2>2 DEF Approve, TypeOK, mailVars
  <1>2. CASE Alter
    <2>1. req' \in RequestStates /\ changes' \in 0..MaxChanges
      BY <1>2, BoundsAssumption DEF Alter, Change, TypeOK, RequestStates
    <2>2. same' \in BOOLEAN
      BY <1>2 DEF Alter, TypeOK
    <2> QED
      BY <1>2, <2>1, <2>2 DEF Alter, TypeOK, mailVars
  <1>3. ASSUME NEW w \in Workers, RunOnce(w) PROVE TypeOK'
    <2>1. [Idle EXCEPT !.pc = "find", !.row = row] \in WorkerStates
      BY IdleType DEF TypeOK, WorkerStates, PCs
    <2>2. wk' \in [Workers -> WorkerStates]
      BY <1>3, <2>1, BecomeType DEF RunOnce
    <2> QED
      BY <1>3, <2>2 DEF RunOnce, TypeOK, reqVars, mailVars
  <1>4. ASSUME NEW w \in Workers, WorkerStep(w) PROVE TypeOK'
    BY <1>4, FindMailType, ObserveMailType, CancelMailType, SmallStepsType, CreateType
       DEF WorkerStep
  <1>5. ASSUME NEW w \in Workers, Crash(w) PROVE TypeOK'
    <2>1. faults' \in 0..MaxFaults
      BY <1>5, BoundsAssumption DEF Crash, Fault, TypeOK
    <2> QED
      BY <1>5, <2>1, ReleaseType DEF Crash, TypeOK, reqVars, mailVars
  <1>6. CASE LoseLock
    BY <1>6, BoundsAssumption DEF LoseLock, TypeOK, reqVars, mailVars
  <1>7. ASSUME NEW c \in Calls, OdooCreate(c) PROVE TypeOK'
    <2>1. faults' \in 0..MaxFaults /\ mail' \in [Calls -> MailStates]
      BY <1>7, BoundsAssumption DEF OdooCreate, Fault, TypeOK, MailStates
    <2> QED
      BY <1>7, <2>1 DEF OdooCreate, TypeOK, reqVars
  <1>8. ASSUME NEW c \in Calls, OdooSend(c) PROVE TypeOK'
    <2>1. /\ faults' \in 0..MaxFaults /\ mail' \in [Calls -> MailStates]
          /\ sent' \in SUBSET Calls
      BY <1>8, BoundsAssumption DEF OdooSend, Fault, TypeOK, MailStates
    <2> QED
      BY <1>8, <2>1 DEF OdooSend, TypeOK, reqVars
  <1>9. CASE UNCHANGED vars
    BY <1>9 DEF vars, reqVars, mailVars, TypeOK
  <1> QED
    BY <1>1, <1>2, <1>3, <1>4, <1>5, <1>6, <1>7, <1>8, <1>9 DEF Next

(* The outbox, the workers and the messages keep their types: in           *)
(* particular _mark only writes states that the table's CHECK allows.      *)
THEOREM TypeCorrect == Spec => []TypeOK
  BY InitType, NextType, PTL DEF Spec

-----------------------------------------------------------------------------
(* The inductive invariant *)

(* Init establishes it.                                                    *)
LEMMA InitInv == Init => OutboxInv
  <1> SUFFICES ASSUME Init PROVE OutboxInv
    OBVIOUS
  <1>1. Created = {}
    BY DEF Init, Created
  <1> QED
    BY <1>1 DEF Init, OutboxInv, WorkerInv, Idle

(* The holder of the lock ends its run.  The verdict it leaves must not    *)
(* say "pending" when there is a message.                                  *)
LEMMA ReleaseInv ==
  ASSUME TypeOK, OutboxInv, losses = 0, NEW w \in Workers, wk[w].pc # "idle",
         Release(w), mail' = mail,
         Created # {} => row'.state \notin {"none", "pending"}
  PROVE  OutboxInv'
  <1>1. lock = w /\ \A v \in Workers \ {w} : wk[v].pc = "idle"
    BY DEF OutboxInv, WorkerInv
  <1>2. \A v \in Workers : wk'[v].pc = "idle"
    BY <1>1, ReleaseType
  <1>3. Created' = Created
    BY DEF Created
  <1>4. \A v \in Workers : WorkerInv(v)'
    BY <1>2 DEF WorkerInv
  <1> QED
    BY <1>3, <1>4 DEF OutboxInv

(* A verdict of the lock holder that does not reopen the row keeps OutboxInv. *)
LEMMA SettleInv ==
  ASSUME TypeOK, OutboxInv, losses = 0, NEW w \in Workers, wk[w].pc # "idle",
         NEW st, NEW id, Settle(w, st, id),
         Created # {} => st \notin {"none", "pending"}
  PROVE  OutboxInv'
  <1>1. row'.state = st
    BY DEF Settle, Mark
  <1> QED
    BY <1>1, ReleaseInv DEF Settle, mailVars

(* An error before the create puts the row back as it was read.            *)
LEMMA LookupFailedInv ==
  ASSUME TypeOK, OutboxInv, losses = 0, NEW w \in Workers,
         wk[w].pc \in {"find", "observe", "cancel", "skip", "check", "employee"},
         LookupFailed(w)
  PROVE  OutboxInv'
  <1>1. wk[w].row.state = row.state
    BY DEF OutboxInv, WorkerInv
  <1> QED
    BY <1>1, SettleInv DEF LookupFailed, OutboxInv

(* The holder of the lock moves on.                                        *)
LEMMA HolderMoves ==
  ASSUME TypeOK, OutboxInv, losses = 0, NEW w \in Workers, wk[w].pc # "idle",
         lock' = lock,
         \A v \in Workers \ {w} : wk'[v] = wk[v],
         WorkerInv(w)',
         Created' # {} => row'.state \notin {"none", "pending"},
         \A b, c \in Created' : b = c
  PROVE  OutboxInv'
  <1>1. \A v \in Workers \ {w} : wk[v].pc = "idle"
    BY DEF OutboxInv, WorkerInv
  <1>2. \A v \in Workers : WorkerInv(v)'
    BY <1>1 DEF WorkerInv
  <1> QED
    BY <1>2 DEF OutboxInv

(* The lookup keeps OutboxInv.                                             *)
LEMMA FindMailInv ==
  ASSUME TypeOK, OutboxInv, losses = 0, NEW w \in Workers, FindMail(w)
  PROVE  OutboxInv'
  <1>0. /\ wk[w].pc = "find" /\ lock = w /\ wk[w].row.state = row.state
        /\ row.state \in Due
    BY DEF FindMail, OutboxInv, WorkerInv
  <1>1. CASE LookupFailed(w)
    BY <1>0, <1>1, LookupFailedInv
  <1>2. CASE Settle(w, "attention", 0) \/ Settle(w, "sending", 0)
    BY <1>0, <1>2, SettleInv
  <1>3. CASE /\ NotFound(w) = "check" /\ Goto(w, "check")
             /\ UNCHANGED <<reqVars, row, mailVars, lock, faults, losses>>
    <2>1. /\ wk'[w].pc = "check" /\ wk'[w].row = wk[w].row
          /\ \A v \in Workers \ {w} : wk'[v] = wk[v]
      BY <1>3, GotoType DEF PCs
    <2>2. row.state = "pending"
      BY <1>0, <1>3 DEF NotFound, Due
    <2>3. Created' = Created /\ row' = row /\ lock' = lock
      BY <1>3 DEF Created, mailVars
    <2>4. WorkerInv(w)'
      BY <1>0, <2>1, <2>2, <2>3 DEF WorkerInv
    <2> QED
      BY <1>0, <2>1, <2>3, <2>4, HolderMoves DEF OutboxInv
  <1>4. ASSUME NEW c \in InOdoo,
               Become(w, [wk[w] EXCEPT !.pc = "observe", !.call = c, !.seen = mail[c]]),
               UNCHANGED <<reqVars, row, mailVars, lock, faults, losses>>
        PROVE  OutboxInv'
    <2> DEFINE new == [wk[w] EXCEPT !.pc = "observe", !.call = c, !.seen = mail[c]]
    <2>1. new.pc = "observe" /\ new.row = wk[w].row /\ new.call = c
      BY DEF TypeOK, WorkerStates
    <2>2. Become(w, new)
      BY <1>4
    <2> HIDE DEF new
    <2>3. wk'[w] = new /\ \A v \in Workers \ {w} : wk'[v] = wk[v]
      BY <2>2, BecomeType
    <2>4. Created' = Created /\ InOdoo' = InOdoo /\ row' = row /\ lock' = lock
      BY <1>4 DEF Created, InOdoo, mailVars
    <2>5. WorkerInv(w)'
      BY <1>0, <1>4, <2>1, <2>3, <2>4 DEF WorkerInv
    <2> QED
      BY <1>0, <2>3, <2>4, <2>5, HolderMoves DEF OutboxInv
  <1> QED
    BY <1>1, <1>2, <1>3, <1>4 DEF FindMail

(* A worker that only moves on, from one of the states before the intent.  *)
LEMMA GotoInv ==
  ASSUME TypeOK, OutboxInv, losses = 0, NEW w \in Workers, NEW pc \in PCs,
         Goto(w, pc), lock' = lock, row' = row, Created' = Created,
         InOdoo' = InOdoo,
         \/ wk[w].pc \in {"observe", "cancel"} /\ pc \in {"cancel", "skip"}
         \/ wk[w].pc \in {"check", "employee"} /\ pc \in {"employee", "intent"}
  PROVE  OutboxInv'
  <1>1. /\ wk'[w].pc = pc /\ wk'[w].row = wk[w].row /\ wk'[w].call = wk[w].call
        /\ \A v \in Workers \ {w} : wk'[v] = wk[v]
    BY GotoType
  <1>2. WorkerInv(w)'
    BY <1>1 DEF OutboxInv, WorkerInv
  <1> QED
    BY <1>1, <1>2, HolderMoves DEF OutboxInv

(* The steps before the intent keep OutboxInv.                             *)
LEMMA BeforeIntentInv ==
  ASSUME TypeOK, OutboxInv, losses = 0, NEW w \in Workers,
         \/ ObserveMail(w) \/ CancelMail(w) \/ MarkSkipped(w)
         \/ CheckApproval(w) \/ ReadEmployee(w)
  PROVE  OutboxInv'
  <1>0. {"cancel", "skip", "employee", "intent"} \subseteq PCs
    BY DEF PCs
  <1>1. CASE ObserveMail(w)
    <2>1. wk[w].pc = "observe"
      BY <1>1 DEF ObserveMail
    <2>2. Verdict(wk[w].seen) \notin {"none", "pending"}
      BY DEF Verdict
    <2>3. CASE LookupFailed(w)
      BY <2>1, <2>3, LookupFailedInv
    <2>4. CASE Settle(w, Verdict(wk[w].seen), wk[w].call)
      BY <2>1, <2>2, <2>4, SettleInv
    <2>5. CASE Settle(w, "queued", wk[w].call)
      BY <2>1, <2>5, SettleInv
    <2>6. CASE Goto(w, "cancel") /\ UNCHANGED <<row, mailVars, lock>>
      BY <1>0, <2>1, <2>6, GotoInv DEF Created, InOdoo, mailVars
    <2> QED
      BY <1>1, <2>3, <2>4, <2>5, <2>6 DEF ObserveMail
  <1>2. CASE CancelMail(w)
    <2>1. wk[w].pc = "cancel"
      BY <1>2 DEF CancelMail
    <2>2. CASE LookupFailed(w)
      BY <2>1, <2>2, LookupFailedInv
    <2>3. CASE ~LookupFailed(w)
      <3>1. /\ mail' = [mail EXCEPT ![wk[w].call] = "cancel"]
            /\ Goto(w, "skip") /\ row' = row /\ lock' = lock
        BY <1>2, <2>3 DEF CancelMail
      <3>2. wk[w].call \in InOdoo
        BY <2>1 DEF OutboxInv, WorkerInv
      <3>3. Created' = Created /\ InOdoo' = InOdoo
        BY <3>1, <3>2 DEF Created, InOdoo, TypeOK
      <3> QED
        BY <1>0, <2>1, <3>1, <3>3, GotoInv
    <2> QED
      BY <2>2, <2>3
  <1>3. CASE MarkSkipped(w)
    BY <1>3, LookupFailedInv, SettleInv DEF MarkSkipped
  <1>4. CASE CheckApproval(w)
    BY <1>0, <1>4, LookupFailedInv, SettleInv, GotoInv
       DEF CheckApproval, Created, InOdoo, mailVars
  <1>5. CASE ReadEmployee(w)
    <2>1. wk[w].pc = "employee" /\ Created = {}
      BY <1>5 DEF ReadEmployee, OutboxInv, WorkerInv
    <2>2. CASE LookupFailed(w)
      BY <2>1, <2>2, LookupFailedInv
    <2>3. CASE \/ Settle(w, "attention", 0) \/ Settle(w, "skipped", 0)
               \/ Settle(w, "pending", 0)
      BY <2>1, <2>3, SettleInv
    <2>4. CASE Goto(w, "intent") /\ UNCHANGED <<row, mailVars, lock>>
      BY <1>0, <2>1, <2>4, GotoInv DEF Created, InOdoo, mailVars
    <2> QED
      BY <1>5, <2>2, <2>3, <2>4 DEF ReadEmployee
  <1> QED
    BY <1>1, <1>2, <1>3, <1>4, <1>5

(* The intent, the call and its answer.                                    *)
LEMMA CreateInv ==
  ASSUME TypeOK, OutboxInv, losses = 0, NEW w \in Workers,
         MarkIntent(w) \/ CreateMail(w) \/ CreateAnswered(w)
  PROVE  OutboxInv'
  <1>0. wk[w].pc # "idle" /\ lock = w
    BY DEF MarkIntent, CreateMail, CreateAnswered, OutboxInv, WorkerInv
  <1>1. CASE MarkIntent(w)
    <2>1. wk'[w].pc = "create" /\ \A v \in Workers \ {w} : wk'[v] = wk[v]
      BY <1>1, GotoType DEF MarkIntent, PCs
    <2>2. row'.state = "sending" /\ lock' = lock /\ mail' = mail
      BY <1>1 DEF MarkIntent, Mark, mailVars
    <2>3. Created' = Created /\ Created = {}
      BY <1>1, <2>2 DEF MarkIntent, OutboxInv, WorkerInv, Created
    <2>4. WorkerInv(w)'
      BY <1>0, <2>1, <2>2, <2>3 DEF WorkerInv
    <2> QED
      BY <1>0, <2>1, <2>2, <2>3, <2>4, HolderMoves
  <1>2. CASE CreateMail(w)
    <2>1. PICK c \in Calls : /\ mail' = [mail EXCEPT ![c] = "asked"]
                             /\ Become(w, [wk[w] EXCEPT !.pc = "wait", !.call = c])
      BY <1>2 DEF CreateMail
    <2> DEFINE new == [wk[w] EXCEPT !.pc = "wait", !.call = c]
    <2>2. new.pc = "wait" /\ new.call = c
      BY DEF TypeOK, WorkerStates
    <2>3. Become(w, new)
      BY <2>1
    <2> HIDE DEF new
    <2>4. wk'[w] = new /\ \A v \in Workers \ {w} : wk'[v] = wk[v]
      BY <2>3, BecomeType
    <2>5. Created = {} /\ row.state = "sending" /\ row' = row /\ lock' = lock
      BY <1>2 DEF CreateMail, OutboxInv, WorkerInv
    <2>6. Created' \subseteq {c}
      BY <2>1, <2>5 DEF Created, TypeOK
    <2>7. WorkerInv(w)'
      BY <1>0, <2>2, <2>4, <2>5, <2>6 DEF WorkerInv
    <2> QED
      BY <1>0, <2>4, <2>5, <2>6, <2>7, HolderMoves
  <1>3. CASE CreateAnswered(w)
    <2>1. Created \subseteq {wk[w].call}
      BY <1>3 DEF CreateAnswered, OutboxInv, WorkerInv
    <2>2. Created # {} => AnswerState(mail[wk[w].call]) \notin {"none", "pending"}
      BY <2>1 DEF Created, AnswerState
    <2>3. AnswerState("asked") \notin {"none", "pending"}
      BY DEF AnswerState
    <2>4. CASE Settle(w, AnswerState("asked"), 0)
      BY <1>0, <2>3, <2>4, SettleInv
    <2>5. CASE Settle(w, AnswerState(mail[wk[w].call]),
                      IF AnswerState(mail[wk[w].call]) = "queued" THEN wk[w].call ELSE 0)
      BY <1>0, <2>2, <2>5, SettleInv
    <2> QED
      BY <1>3, <2>4, <2>5 DEF CreateAnswered
  <1> QED
    BY <1>1, <1>2, <1>3

(* Odoo decides: no message appears that was not asked for.                *)
LEMMA OdooInv ==
  ASSUME TypeOK, OutboxInv, losses = 0, NEW c \in Calls,
         OdooCreate(c) \/ OdooSend(c)
  PROVE  OutboxInv'
  <1>1. UNCHANGED <<row, lock, wk>>
    BY DEF OdooCreate, OdooSend
  <1>2. PICK st \in {"outgoing", "refused", "lost", "sent", "exception"} :
           mail' = [mail EXCEPT ![c] = st]
    BY DEF OdooCreate, OdooSend
  <1>3. c \in Created
    BY DEF Created, OdooCreate, OdooSend
  <1>4. Created' \subseteq Created
    BY <1>2, <1>3 DEF Created, TypeOK
  <1>5. InOdoo \subseteq InOdoo'
    BY <1>2 DEF InOdoo, TypeOK, OdooCreate, OdooSend
  <1>6. ASSUME NEW w \in Workers PROVE WorkerInv(w)'
    BY <1>1, <1>4, <1>5 DEF OutboxInv, WorkerInv
  <1> QED
    BY <1>1, <1>4, <1>6 DEF OutboxInv

(* Every step keeps the invariant.                                         *)
LEMMA NextInv == TypeOK /\ OutboxInv /\ [Next]_vars => OutboxInv'
  <1> SUFFICES ASSUME TypeOK, OutboxInv, [Next]_vars, losses' = 0 PROVE OutboxInv'
    BY DEF OutboxInv
  <1>0. CASE LoseLock
    BY <1>0 DEF LoseLock, TypeOK
  <1>1. CASE ~LoseLock
    <2>0. losses = 0
      BY <1>1 DEF Next, Approve, Alter, RunOnce, WorkerStep, FindMail, ObserveMail,
                  CancelMail, MarkSkipped, CheckApproval, ReadEmployee, MarkIntent,
                  CreateMail, CreateAnswered, Crash, OdooCreate, OdooSend,
                  LookupFailed, Settle, vars
    <2>1. ASSUME UNCHANGED <<mail, lock, wk>>, row' = row \/ row = NoRow
          PROVE  OutboxInv'
      <3>1. Created' = Created /\ InOdoo' = InOdoo
        BY <2>1 DEF Created, InOdoo
      <3>2. CASE row' = row
        BY <2>0, <2>1, <3>1, <3>2 DEF OutboxInv, WorkerInv
      <3>3. CASE row = NoRow
        <4>1. Created = {} /\ \A w \in Workers : wk[w].pc = "idle"
          BY <2>0, <3>3 DEF OutboxInv, WorkerInv, NoRow, Due, TypeOK, WorkerStates, PCs
        <4> QED
          BY <2>1, <3>1, <4>1 DEF OutboxInv, WorkerInv
      <3> QED
        BY <2>1, <3>2, <3>3
    <2>2. ASSUME NEW recent \in BOOLEAN, Approve(recent) PROVE OutboxInv'
      BY <2>1, <2>2 DEF Approve, Capture, mailVars
    <2>3. CASE Alter
      BY <2>1, <2>3 DEF Alter, mailVars
    <2>4. ASSUME NEW w \in Workers, RunOnce(w) PROVE OutboxInv'
      <3> DEFINE new == [Idle EXCEPT !.pc = "find", !.row = row]
      <3>1. new.pc = "find" /\ new.row = row
        BY DEF Idle
      <3>2. Become(w, new) /\ row.state \in Due /\ lock = NoWorker /\ lock' = w
            /\ UNCHANGED <<row, mail>>
        BY <2>4 DEF RunOnce, mailVars
      <3> HIDE DEF new
      <3>3. wk'[w] = new /\ \A v \in Workers \ {w} : wk'[v] = wk[v]
        BY <3>2, BecomeType
      <3>4. \A v \in Workers \ {w} : wk[v].pc = "idle"
        BY <2>0, <3>2, WorkersAssumption DEF OutboxInv, WorkerInv
      <3>5. Created' = Created
        BY <3>2 DEF Created
      <3>6. \A v \in Workers : WorkerInv(v)'
        BY <3>1, <3>2, <3>3, <3>4 DEF WorkerInv
      <3> QED
        BY <2>0, <3>2, <3>5, <3>6 DEF OutboxInv
    <2>5. ASSUME NEW w \in Workers, WorkerStep(w) PROVE OutboxInv'
      BY <2>0, <2>5, FindMailInv, BeforeIntentInv, CreateInv DEF WorkerStep
    <2>6. ASSUME NEW w \in Workers, Crash(w) PROVE OutboxInv'
      BY <2>0, <2>6, ReleaseInv DEF Crash, OutboxInv, mailVars
    <2>7. ASSUME NEW c \in Calls, OdooCreate(c) \/ OdooSend(c) PROVE OutboxInv'
      BY <2>0, <2>7, OdooInv
    <2>8. CASE UNCHANGED vars
      BY <2>1, <2>8 DEF vars, mailVars
    <2> QED
      BY <1>1, <2>2, <2>3, <2>4, <2>5, <2>6, <2>7, <2>8 DEF Next
  <1> QED
    BY <1>0, <1>1

-----------------------------------------------------------------------------
(* The safety properties *)

(* A set all of whose members are equal has at most one.                   *)
LEMMA AtMostOne ==
  ASSUME NEW S, \A m, n \in S : m = n
  PROVE  Cardinality(S) <= 1
  <1>1. CASE S = {}
    BY <1>1, FS_EmptySet
  <1>2. CASE S # {}
    <2>1. PICK m \in S : S = {m}
      BY <1>2
    <2>2. Cardinality({m}) = 1
      BY FS_Singleton
    <2> QED
      BY <2>1, <2>2
  <1> QED
    BY <1>1, <1>2

(* While the lock holds, the lock holder alone runs and its view of the    *)
(* row is current.                                                         *)
THEOREM OutboxInvariant == Spec => []OutboxInv
  <1>1. Init => TypeOK /\ OutboxInv
    BY InitType, InitInv
  <1>2. TypeOK /\ OutboxInv /\ [Next]_vars => (TypeOK /\ OutboxInv)'
    BY NextType, NextInv
  <1> QED
    BY <1>1, <1>2, PTL DEF Spec

(* For any number of workers, calls, faults and changes of the request, a  *)
(* request gets at most one message as long as no worker loses its lock    *)
(* (process_one).                                                          *)
THEOREM MailsExclude == Spec => []AtMostOneMail
  <1>1. OutboxInv => AtMostOneMail
    BY AtMostOne DEF OutboxInv, AtMostOneMail
  <1> QED
    BY <1>1, OutboxInvariant, PTL

(* Under the same condition a message that exists, or may come to exist,   *)
(* is never forgotten by the row (_mark before _create_mail).              *)
THEOREM IntentSurvives == Spec => []IntentIsDurable
  <1>1. OutboxInv => IntentIsDurable
    BY DEF OutboxInv, IntentIsDurable
  <1> QED
    BY <1>1, OutboxInvariant, PTL

(* Together: one message at most, and never one that the row has forgotten *)
(* (process_one).                                                          *)
THEOREM OneMailIsOnRecord == Spec => []OneMailOnRecord
  <1>1. AtMostOneMail /\ IntentIsDurable => OneMailOnRecord
    BY DEF OneMailOnRecord
  <1> QED
    BY <1>1, MailsExclude, IntentSurvives, PTL

-----------------------------------------------------------------------------
(* What the settled states mean *)

(* A new request has no message and no worker.                             *)
LEMMA InitStatus == Init => StatusInv
  <1> SUFFICES ASSUME Init PROVE StatusInv
    OBVIOUS
  <1>1. \A w \in Workers : wk[w].pc = "idle"
    BY DEF Init, Idle
  <1>2. row.state = "none" /\ sent = {} /\ \A c \in Calls : mail[c] = "none"
    BY DEF Init, NoRow
  <1> QED
    BY <1>1, <1>2 DEF StatusInv, MemoryInv, StatusIsTrue, SkippedIsUnsent, SentIsTrue

(* While the lock lives, nobody works on a settled row.                    *)
LEMMA SettledIsIdle ==
  ASSUME TypeOK, OutboxInv, losses = 0, row.state \in Settled, NEW w \in Workers
  PROVE  wk[w].pc = "idle"
  <1>1. WorkerInv(w) /\ wk[w].pc \in PCs
    BY DEF OutboxInv, TypeOK, WorkerStates
  <1> QED
    BY <1>1 DEF WorkerInv, Settled, Due, PCs

(* The one message there may be is the only one Odoo can have sent.        *)
LEMMA SentIsCreated ==
  ASSUME StatusInv, TypeOK
  PROVE  sent \subseteq Created
  BY DEF StatusInv, Created, TypeOK

(* The holder of a message that it cancelled may record it as skipped.     *)
LEMMA CancelledIsUnsent ==
  ASSUME TypeOK, OutboxInv, StatusInv, losses = 0, NEW w \in Workers, wk[w].pc = "skip"
  PROVE  /\ sent # {} => late
         /\ \A c \in Calls : mail[c] \notin {"asked", "outgoing"}
  <1>1. /\ wk[w].call \in Calls /\ mail[wk[w].call] = "cancel"
        /\ wk[w].call \in sent => late
    BY DEF StatusInv, MemoryInv
  <1>2. wk[w].call \in Created
    BY <1>1 DEF Created
  <1>3. \A c \in Created : c = wk[w].call
    BY <1>2 DEF OutboxInv
  <1>4. sent # {} => wk[w].call \in sent
    BY <1>3, SentIsCreated
  <1>5. \A c \in Calls : mail[c] \in {"asked", "outgoing"} => c \in Created
    BY DEF Created
  <1> QED
    BY <1>1, <1>3, <1>4, <1>5

(* Before the intent there is no message at all.                           *)
LEMMA NothingIsUnsent ==
  ASSUME TypeOK, OutboxInv, StatusInv, losses = 0, NEW w \in Workers,
         wk[w].pc \in {"check", "employee"}
  PROVE  sent = {} /\ \A c \in Calls : mail[c] \notin {"asked", "outgoing"}
  <1>1. row.state = "pending"
    BY DEF OutboxInv, WorkerInv
  <1>2. Created = {}
    BY <1>1 DEF OutboxInv
  <1> QED
    BY <1>2, SentIsCreated DEF Created

(* A worker ends its run, and leaves a verdict that is true.               *)
LEMMA ReleaseStatus ==
  ASSUME TypeOK, StatusInv, NEW w \in Workers, Release(w),
         UNCHANGED <<mail, sent, late>>,
         row'.state = "sent" => row'.mail \in sent,
         losses' = 0 /\ row'.state = "skipped" =>
            /\ sent # {} => late
            /\ \A c \in Calls : mail[c] \notin {"asked", "outgoing"}
  PROVE  StatusInv'
  <1>1. wk'[w].pc = "idle" /\ \A v \in Workers \ {w} : wk'[v] = wk[v]
    BY ReleaseType
  <1>2. \A v \in Workers : MemoryInv(v)'
    BY <1>1 DEF StatusInv, MemoryInv
  <1>3. StatusIsTrue'
    BY DEF StatusIsTrue, SkippedIsUnsent, SentIsTrue
  <1> QED
    BY <1>2, <1>3 DEF StatusInv

(* A worker settles a row as sent only with a message Odoo has sent, and as
   skipped only when none can come. *)
LEMMA SettleStatus ==
  ASSUME TypeOK, StatusInv, NEW w \in Workers, NEW st, NEW id, Settle(w, st, id),
         st = "sent" => id # 0 /\ id \in sent,
         losses = 0 /\ st = "skipped" =>
            /\ sent # {} => late
            /\ \A c \in Calls : mail[c] \notin {"asked", "outgoing"}
  PROVE  StatusInv'
  <1>1. /\ row'.state = st /\ (id # 0 => row'.mail = id)
        /\ Release(w) /\ UNCHANGED <<mail, sent, late, losses>>
    BY DEF Settle, Mark, mailVars
  <1> QED
    BY <1>1, ReleaseStatus

(* A failed look-up gives the row back in the state it had. *)
LEMMA LookupFailedStatus ==
  ASSUME TypeOK, StatusInv, NEW w \in Workers, wk[w].pc # "idle", LookupFailed(w)
  PROVE  StatusInv'
  <1>1. wk[w].row.state \in Due
    BY DEF StatusInv, MemoryInv
  <1> QED
    BY <1>1, SettleStatus DEF LookupFailed, Due

(* A worker moves on with what it knows, and the row is not settled.       *)
LEMMA GotoStatus ==
  ASSUME TypeOK, StatusInv, NEW w \in Workers, NEW pc \in PCs, wk[w].pc # "idle",
         Goto(w, pc), pc \notin {"observe", "skip"},
         pc = "cancel" => wk[w].pc = "observe",
         UNCHANGED <<mail, sent, late, losses>>,
         row' = row \/ row'.state \notin Settled
  PROVE  StatusInv'
  <1>1. /\ wk'[w].pc = pc /\ wk'[w].row = wk[w].row /\ wk'[w].call = wk[w].call
        /\ \A v \in Workers \ {w} : wk'[v] = wk[v]
    BY GotoType
  <1>2. \A v \in Workers : MemoryInv(v)'
    BY <1>1 DEF StatusInv, MemoryInv
  <1>3. StatusIsTrue'
    BY DEF StatusInv, StatusIsTrue, SkippedIsUnsent, SentIsTrue, Settled
  <1> QED
    BY <1>2, <1>3 DEF StatusInv

(* The lookup.                                                             *)
LEMMA FindMailStatus ==
  ASSUME TypeOK, OutboxInv, StatusInv, NEW w \in Workers, FindMail(w)
  PROVE  StatusInv'
  <1>0. wk[w].pc = "find" /\ "check" \in PCs /\ wk[w].row.state \in Due
    <2>1. wk[w].pc = "find"
      BY Zenon DEF FindMail
    <2> QED
      BY <2>1 DEF PCs, StatusInv, MemoryInv
  <1>1. CASE LookupFailed(w)
    BY <1>0, <1>1, LookupFailedStatus
  <1>2. CASE Settle(w, "attention", 0) \/ Settle(w, "sending", 0)
    BY <1>2, SettleStatus
  <1>3. CASE Goto(w, "check") /\ UNCHANGED <<reqVars, row, mailVars, lock, faults, losses>>
    BY <1>0, <1>3, GotoStatus DEF mailVars
  <1>4. ASSUME NEW c \in InOdoo,
               Become(w, [wk[w] EXCEPT !.pc = "observe", !.call = c, !.seen = mail[c]]),
               UNCHANGED <<reqVars, row, mailVars, lock, faults, losses>>
        PROVE  StatusInv'
    <2> DEFINE new == [wk[w] EXCEPT !.pc = "observe", !.call = c, !.seen = mail[c]]
    <2>1. new.pc = "observe" /\ new.row = wk[w].row /\ new.call = c /\ new.seen = mail[c]
      BY DEF TypeOK, WorkerStates
    <2>2. Become(w, new) /\ c \in Calls
      BY <1>4 DEF InOdoo
    <2> HIDE DEF new
    <2>3. wk'[w] = new /\ \A v \in Workers \ {w} : wk'[v] = wk[v]
      BY <2>2, BecomeType
    <2>4. UNCHANGED <<row, mail, sent, late, losses>>
      BY <1>4 DEF mailVars
    <2>5. mail[c] = "sent" => c \in sent
      BY <2>2 DEF StatusInv
    <2>6. \A v \in Workers : MemoryInv(v)'
      BY <1>0, <2>1, <2>2, <2>3, <2>4, <2>5 DEF StatusInv, MemoryInv
    <2>7. StatusIsTrue'
      BY <2>4 DEF StatusInv, StatusIsTrue, SkippedIsUnsent, SentIsTrue
    <2> QED
      BY <2>4, <2>6, <2>7 DEF StatusInv
  <1> QED
    BY <1>1, <1>2, <1>3, <1>4, Zenon DEF FindMail

(* The cancel call hits a message that may just have been sent.            *)
LEMMA CancelMailStatus ==
  ASSUME TypeOK, OutboxInv, StatusInv, NEW w \in Workers, CancelMail(w)
  PROVE  StatusInv'
  <1>0. wk[w].pc = "cancel" /\ wk[w].call \in Calls /\ "skip" \in PCs
    BY DEF CancelMail, PCs, StatusInv, MemoryInv
  <1>1. CASE LookupFailed(w)
    BY <1>0, <1>1, LookupFailedStatus
  <1>2. CASE ~LookupFailed(w)
    <2> DEFINE c == wk[w].call
    <2>1. /\ mail' = [mail EXCEPT ![c] = "cancel"]
          /\ late' = (late \/ c \in sent)
          /\ Goto(w, "skip")
          /\ UNCHANGED <<row, sent, losses>>
      BY <1>2 DEF CancelMail
    <2>2. /\ wk'[w].pc = "skip" /\ wk'[w].row = wk[w].row /\ wk'[w].call = wk[w].call
          /\ \A v \in Workers \ {w} : wk'[v] = wk[v]
      BY <1>0, <2>1, GotoType
    <2>3. mail'[c] = "cancel" /\ \A b \in Calls : b # c => mail'[b] = mail[b]
      BY <1>0, <2>1 DEF TypeOK
    <2>4. MemoryInv(w)'
      BY <1>0, <2>1, <2>2, <2>3 DEF StatusInv, MemoryInv
    <2>5. ASSUME NEW v \in Workers, v # w PROVE MemoryInv(v)'
      <3>1. MemoryInv(v) /\ wk'[v] = wk[v]
        BY <2>2, <2>5 DEF StatusInv
      <3>2. c \in sent => late'
        BY <2>1
      <3>3. wk[v].pc = "skip" /\ wk[v].call \in sent => late'
        BY <2>1, <3>1 DEF MemoryInv
      <3> QED
        BY <2>1, <2>3, <3>1, <3>3 DEF MemoryInv
    <2>6. /\ \A b \in Calls : mail'[b] = "sent" => b \in sent
          /\ \A b \in sent : mail'[b] \in {"sent", "cancel"}
      BY <1>0, <2>3 DEF StatusInv, TypeOK
    <2>7. StatusIsTrue'
      BY <1>0, <2>1, <2>3 DEF StatusInv, StatusIsTrue, SkippedIsUnsent, SentIsTrue
    <2> QED
      BY <2>1, <2>4, <2>5, <2>6, <2>7 DEF StatusInv
  <1> QED
    BY <1>1, <1>2

(* The other steps before the intent.                                      *)
LEMMA BeforeIntentStatus ==
  ASSUME TypeOK, OutboxInv, StatusInv, NEW w \in Workers,
         ObserveMail(w) \/ MarkSkipped(w) \/ CheckApproval(w) \/ ReadEmployee(w)
  PROVE  StatusInv'
  <1>0. {"cancel", "employee", "intent"} \subseteq PCs
    BY DEF PCs
  <1>1. CASE ObserveMail(w)
    <2>1. /\ wk[w].pc = "observe" /\ wk[w].call \in Calls
          /\ wk[w].seen = "sent" => wk[w].call \in sent
      BY <1>1 DEF ObserveMail, StatusInv, MemoryInv
    <2>2. wk[w].call # 0
      BY <2>1, BoundsAssumption DEF Calls
    <2>3. CASE LookupFailed(w)
      BY <2>1, <2>3, LookupFailedStatus
    <2>4. CASE Settle(w, Verdict(wk[w].seen), wk[w].call)
      BY <2>1, <2>2, <2>4, SettleStatus DEF Verdict
    <2>5. CASE Settle(w, "queued", wk[w].call)
      BY <2>5, SettleStatus
    <2>6. CASE Goto(w, "cancel") /\ UNCHANGED <<reqVars, row, mailVars, lock, faults, losses>>
      BY <1>0, <2>1, <2>6, GotoStatus DEF mailVars
    <2> QED
      BY <1>1, <2>3, <2>4, <2>5, <2>6 DEF ObserveMail
  <1>2. CASE MarkSkipped(w)
    <2>1. wk[w].pc = "skip"
      BY <1>2 DEF MarkSkipped
    <2>2. CASE LookupFailed(w)
      BY <2>1, <2>2, LookupFailedStatus
    <2>3. CASE Settle(w, "skipped", wk[w].call)
      BY <2>1, <2>3, CancelledIsUnsent, SettleStatus
    <2> QED
      BY <1>2, <2>2, <2>3 DEF MarkSkipped
  <1>3. CASE CheckApproval(w)
    <2>1. wk[w].pc = "check"
      BY <1>3 DEF CheckApproval
    <2>2. CASE LookupFailed(w)
      BY <2>1, <2>2, LookupFailedStatus
    <2>3. CASE Settle(w, "skipped", 0)
      BY <2>1, <2>3, NothingIsUnsent, SettleStatus
    <2>4. CASE Goto(w, "employee") /\ UNCHANGED <<reqVars, row, mailVars, lock, faults, losses>>
      BY <1>0, <2>1, <2>4, GotoStatus DEF mailVars
    <2> QED
      BY <1>3, <2>2, <2>3, <2>4 DEF CheckApproval
  <1>4. CASE ReadEmployee(w)
    <2>1. wk[w].pc = "employee"
      BY <1>4 DEF ReadEmployee
    <2>2. CASE LookupFailed(w)
      BY <2>1, <2>2, LookupFailedStatus
    <2>3. CASE Settle(w, "attention", 0) \/ Settle(w, "pending", 0)
      BY <2>3, SettleStatus
    <2>4. CASE Settle(w, "skipped", 0)
      BY <2>1, <2>4, NothingIsUnsent, SettleStatus
    <2>5. CASE Goto(w, "intent") /\ UNCHANGED <<reqVars, row, mailVars, lock, faults, losses>>
      BY <1>0, <2>1, <2>5, GotoStatus DEF mailVars
    <2> QED
      BY <1>4, <2>2, <2>3, <2>4, <2>5 DEF ReadEmployee
  <1> QED
    BY <1>1, <1>2, <1>3, <1>4

(* The intent, the call and its answer.                                    *)
LEMMA CreateStatus ==
  ASSUME TypeOK, OutboxInv, StatusInv, NEW w \in Workers,
         MarkIntent(w) \/ CreateMail(w) \/ CreateAnswered(w)
  PROVE  StatusInv'
  <1>1. CASE MarkIntent(w)
    <2>1. /\ wk[w].pc = "intent" /\ Goto(w, "create") /\ "create" \in PCs
          /\ row'.state = "sending" /\ UNCHANGED <<mail, sent, late, losses>>
      BY <1>1 DEF MarkIntent, Mark, mailVars, PCs
    <2> QED
      BY <2>1, GotoStatus DEF Settled
  <1>2. CASE CreateMail(w)
    <2>1. PICK c \in Calls : /\ mail[c] = "none"
                             /\ mail' = [mail EXCEPT ![c] = "asked"]
                             /\ Become(w, [wk[w] EXCEPT !.pc = "wait", !.call = c])
      BY <1>2, Zenon DEF CreateMail
    <2> DEFINE new == [wk[w] EXCEPT !.pc = "wait", !.call = c]
    <2>2. new.pc = "wait" /\ new.row = wk[w].row
      BY DEF TypeOK, WorkerStates
    <2>3. Become(w, new)
      BY <2>1
    <2> HIDE DEF new
    <2>4. wk'[w] = new /\ \A v \in Workers \ {w} : wk'[v] = wk[v]
      BY <2>3, BecomeType
    <2>5. wk[w].pc = "create" /\ UNCHANGED <<row, sent, late, losses>>
      BY <1>2, Zenon DEF CreateMail
    <2>6. mail'[c] = "asked" /\ \A b \in Calls : b # c => mail'[b] = mail[b]
      BY <2>1 DEF TypeOK
    <2>7. c \notin sent
      BY <2>1 DEF StatusInv
    <2>8. \A v \in Workers : MemoryInv(v)'
      BY <2>1, <2>2, <2>4, <2>5, <2>6 DEF StatusInv, MemoryInv
    <2>9. /\ \A b \in Calls : mail'[b] = "sent" => b \in sent
          /\ \A b \in sent : mail'[b] \in {"sent", "cancel"}
      BY <2>6, <2>7 DEF StatusInv, TypeOK
    <2>10. losses = 0 => row.state # "skipped"
      BY <2>5, SettledIsIdle DEF Settled
    <2>11. StatusIsTrue'
      BY <2>5, <2>10 DEF StatusInv, StatusIsTrue, SkippedIsUnsent, SentIsTrue
    <2> QED
      BY <2>5, <2>8, <2>9, <2>11 DEF StatusInv
  <1>3. CASE CreateAnswered(w)
    <2>1. PICK st, id : Settle(w, st, id) /\ st \in {"queued", "pending", "sending"}
      BY <1>3 DEF CreateAnswered, AnswerState
    <2> QED
      BY <2>1, SettleStatus
  <1> QED
    BY <1>1, <1>2, <1>3

(* Odoo sends what it has.                                                 *)
LEMMA OdooStatus ==
  ASSUME TypeOK, OutboxInv, StatusInv, NEW c \in Calls, OdooCreate(c) \/ OdooSend(c)
  PROVE  StatusInv'
  <1>1. UNCHANGED <<row, late, wk, losses>> /\ mail[c] \in {"asked", "outgoing"}
    BY DEF OdooCreate, OdooSend
  <1>2. PICK st \in {"outgoing", "refused", "lost", "sent", "exception"} :
           /\ mail' = [mail EXCEPT ![c] = st]
           /\ sent' = IF st = "sent" THEN sent \cup {c} ELSE sent
    BY DEF OdooCreate, OdooSend
  <1>3. mail'[c] = st /\ \A b \in Calls : b # c => mail'[b] = mail[b]
    BY <1>2 DEF TypeOK
  <1>4. c \notin sent
    BY <1>1 DEF StatusInv
  <1>5. \A w \in Workers : MemoryInv(w)'
    BY <1>1, <1>2, <1>3 DEF StatusInv, MemoryInv
  <1>6. /\ \A b \in Calls : mail'[b] = "sent" => b \in sent'
        /\ \A b \in sent' : mail'[b] \in {"sent", "cancel"}
    BY <1>2, <1>3, <1>4 DEF StatusInv, TypeOK
  <1>7. StatusIsTrue'
    BY <1>1, <1>2 DEF StatusInv, StatusIsTrue, SkippedIsUnsent, SentIsTrue
  <1> QED
    BY <1>5, <1>6, <1>7 DEF StatusInv

(* Every step keeps the meaning of the settled states.                     *)
LEMMA NextStatus == TypeOK /\ OutboxInv /\ StatusInv /\ [Next]_vars => StatusInv'
  <1> SUFFICES ASSUME TypeOK, OutboxInv, StatusInv, [Next]_vars PROVE StatusInv'
    OBVIOUS
  <1>1. ASSUME UNCHANGED <<mail, sent, late, wk>>,
               losses' = 0 => losses = 0,
               row' = row \/ row'.state \notin Settled
        PROVE  StatusInv'
    <2>1. StatusIsTrue'
      BY <1>1 DEF StatusInv, StatusIsTrue, SkippedIsUnsent, SentIsTrue, Settled
    <2> QED
      BY <1>1, <2>1 DEF StatusInv, MemoryInv
  <1>2. ASSUME NEW recent \in BOOLEAN, Approve(recent) PROVE StatusInv'
    BY <1>1, <1>2 DEF Approve, Capture, mailVars, NoRow, Settled
  <1>3. CASE Alter
    BY <1>1, <1>3 DEF Alter, mailVars
  <1>4. ASSUME NEW w \in Workers, RunOnce(w) PROVE StatusInv'
    <2> DEFINE new == [Idle EXCEPT !.pc = "find", !.row = row]
    <2>1. new.pc = "find" /\ new.row = row
      BY DEF Idle
    <2>2. Become(w, new) /\ row.state \in Due /\ UNCHANGED <<row, mail, sent, late, losses>>
      BY <1>4 DEF RunOnce, mailVars
    <2> HIDE DEF new
    <2>3. wk'[w] = new /\ \A v \in Workers \ {w} : wk'[v] = wk[v]
      BY <2>2, BecomeType
    <2>4. \A v \in Workers : MemoryInv(v)'
      BY <2>1, <2>2, <2>3 DEF StatusInv, MemoryInv
    <2>5. StatusIsTrue'
      BY <2>2 DEF StatusInv, StatusIsTrue, SkippedIsUnsent, SentIsTrue
    <2> QED
      BY <2>2, <2>4, <2>5 DEF StatusInv
  <1>5. ASSUME NEW w \in Workers, WorkerStep(w) PROVE StatusInv'
    BY <1>5, FindMailStatus, CancelMailStatus, BeforeIntentStatus, CreateStatus
       DEF WorkerStep
  <1>6. ASSUME NEW w \in Workers, Crash(w) PROVE StatusInv'
    <2>1. Release(w) /\ UNCHANGED <<row, mail, sent, late, losses>>
      BY <1>6 DEF Crash, mailVars
    <2> QED
      BY <2>1, ReleaseStatus DEF StatusInv, StatusIsTrue, SkippedIsUnsent, SentIsTrue
  <1>7. CASE LoseLock
    BY <1>1, <1>7 DEF LoseLock, mailVars, TypeOK
  <1>8. ASSUME NEW c \in Calls, OdooCreate(c) \/ OdooSend(c) PROVE StatusInv'
    BY <1>8, OdooStatus
  <1>9. CASE UNCHANGED vars
    BY <1>1, <1>9 DEF vars, mailVars
  <1> QED
    BY <1>2, <1>3, <1>4, <1>5, <1>6, <1>7, <1>8, <1>9 DEF Next

(* "sent" is only on record for a message that Odoo sent, and "skipped"    *)
(* only when nothing was sent or still can be, except for a message that   *)
(* Odoo sent while it was being cancelled (_observe_mail): for any number  *)
(* of workers, calls, faults and changes of the request.                   *)
THEOREM StatusIsMeant == Spec => []StatusIsTrue
  <1>1. StatusInv => StatusIsTrue
    BY DEF StatusInv
  <1>2. TypeOK /\ OutboxInv /\ StatusInv /\ [Next]_vars => StatusInv'
    BY NextStatus
  <1>3. Spec => []StatusInv
    BY InitStatus, <1>2, TypeCorrect, OutboxInvariant, PTL DEF Spec
  <1> QED
    BY <1>1, <1>3, PTL

(* A settled row is never reopened, although the status writes of the      *)
(* worker carry no fence (_mark) and the request can be approved again     *)
(* (ON CONFLICT DO NOTHING): for any number of workers and approvals.      *)
THEOREM SettledRowStays == Spec => SettledStays
  <1>1. ASSUME TypeOK, OutboxInv, [Next]_vars, losses' = 0, row.state \in Settled
        PROVE  row' = row
    <2>1. CASE losses = 0
      <3>1. \A w \in Workers : wk[w].pc = "idle"
        BY <1>1, <2>1, SettledIsIdle
      <3>2. ASSUME NEW recent \in BOOLEAN, Approve(recent) PROVE row' = row
        BY <1>1, <3>2 DEF Approve, Capture, NoRow, Settled
      <3>3. ASSUME NEW w \in Workers, WorkerStep(w) PROVE FALSE
        BY <3>1, <3>3, Zenon DEF WorkerStep, FindMail, ObserveMail, CancelMail, MarkSkipped,
           CheckApproval, ReadEmployee, MarkIntent, CreateMail, CreateAnswered
      <3>4. CASE Alter \/ (\E w \in Workers : RunOnce(w) \/ Crash(w)) \/ LoseLock
                 \/ (\E c \in Calls : OdooCreate(c) \/ OdooSend(c)) \/ UNCHANGED vars
        BY <3>4 DEF Alter, RunOnce, Crash, LoseLock, OdooCreate, OdooSend, vars
      <3> QED
        BY <1>1, <3>2, <3>3, <3>4 DEF Next
    <2>2. CASE losses # 0
      <3>1. LoseLock
        BY <1>1, <2>2 DEF Next, Approve, Alter, RunOnce, WorkerStep, FindMail, ObserveMail,
                  CancelMail, MarkSkipped, CheckApproval, ReadEmployee, MarkIntent,
                  CreateMail, CreateAnswered, Crash, OdooCreate, OdooSend,
                  LookupFailed, Settle, vars
      <3> QED
        BY <3>1 DEF LoseLock
    <2> QED
      BY <2>1, <2>2
  <1>2. TypeOK /\ OutboxInv /\ [Next]_vars =>
          [losses' = 0 /\ row.state \in Settled => row' = row]_vars
    BY <1>1
  <1> QED
    BY <1>2, TypeCorrect, OutboxInvariant, PTL DEF Spec, SettledStays
=============================================================================
