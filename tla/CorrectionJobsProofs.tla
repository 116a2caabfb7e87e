------------------------- MODULE CorrectionJobsProofs -------------------------
(***************************************************************************)
(* Proofs about CorrectionJobs for any number of workers, operations and   *)
(* lease units, and for any bound on faults and outside edits.             *)
(***************************************************************************)
EXTENDS CorrectionJobs, FiniteSetTheorems, TLAPS

-----------------------------------------------------------------------------
(* Type correctness *)

(* The idle worker is a worker state, and the empty progress a progress.   *)
LEMMA IdleType == Idle \in WorkerStates /\ EmptyProgress \in Progress
  BY OpsAssumption, LeaseAssumption
     DEF Idle, EmptyProgress, NoRes, WorkerStates, WorkerRecords, LoopPCs, Progress, Reservations,
         Active, PCs, Ops

(* Init establishes the types.                                             *)
LEMMA InitType == Init => TypeOK
  <1> SUFFICES ASSUME Init PROVE TypeOK
    OBVIOUS
  <1>1. wk \in [Workers -> WorkerStates] /\ prog \in Progress
    BY IdleType DEF Init
  <1>2. odoo \in [Ops -> RowStates] /\ pend \in SUBSET Requests /\ kept \in SUBSET Ops
    BY DEF Init, RowStates
  <1>3. attempt \in Nat /\ left \in 0..Lease /\ audits \in Nat
        /\ faults \in 0..MaxFaults /\ edits \in 0..MaxEdits
    BY LeaseAssumption, BoundsAssumption DEF Init
  <1>4. fixer \in BOOLEAN /\ rest \in BOOLEAN /\ target \in BOOLEAN /\ raced \in BOOLEAN
    BY Zenon DEF Init
  <1>5. status \in Statuses /\ recalc \in {"none", "queued", "done"}
        /\ reason \in {"none", "invalid_plan", "source_changed", "mismatch",
                       "attempt_limit"}
    BY DEF Init, Statuses
  <1> QED
    BY <1>1, <1>2, <1>3, <1>4, <1>5, Zenon DEF TypeOK

(* A worker that becomes a worker state keeps the worker function's type.  *)
LEMMA BecomeType ==
  ASSUME TypeOK, NEW w \in Workers, NEW new \in WorkerStates, Become(w, new)
  PROVE  /\ wk' \in [Workers -> WorkerStates]
         /\ wk'[w] = new
         /\ \A v \in Workers \ {w} : wk'[v] = wk[v]
  BY DEF TypeOK, Become

(* A worker is a worker state, and inside the loop it has an operation.    *)
LEMMA WorkerType ==
  ASSUME TypeOK, NEW w \in Workers
  PROVE  /\ wk[w] \in WorkerStates
         /\ wk[w] \in WorkerRecords
         /\ wk[w].pc \in LoopPCs => wk[w].k \in Ops
  BY DEF TypeOK, WorkerStates

(* Stopping keeps the type of the workers.                                 *)
LEMMA StopType ==
  ASSUME TypeOK, NEW w \in Workers, Stop(w)
  PROVE  wk' \in [Workers -> WorkerStates]
  BY IdleType, BecomeType DEF Stop

(* So does a step to another program counter.                              *)
LEMMA GotoType ==
  ASSUME TypeOK, NEW w \in Workers, NEW pc \in PCs, Goto(w, pc),
         pc \in LoopPCs => wk[w].pc \in LoopPCs
  PROVE  wk' \in [Workers -> WorkerStates]
  <1>1. [wk[w] EXCEPT !.pc = pc] \in WorkerStates
    BY WorkerType DEF WorkerStates, WorkerRecords
  <1> QED
    BY <1>1, BecomeType DEF Goto

(* The outcomes that end an attempt keep the types.                        *)
LEMMA SupersededType ==
  ASSUME TypeOK, NEW w \in Workers, Superseded(w)
  PROVE  TypeOK'
  BY StopType DEF TypeOK, Superseded, jobVars, odooVars, envVars

(* _transition to failed keeps the types.                                  *)
LEMMA FailType ==
  ASSUME TypeOK, NEW w \in Workers,
         NEW why \in {"invalid_plan", "source_changed", "mismatch"},
         Fail(w, why)
  PROVE  TypeOK'
  <1>1. wk[w].lease \in 0..Lease
    BY DEF TypeOK, WorkerStates, WorkerRecords
  <1> QED
    BY <1>1, StopType DEF TypeOK, Fail, odooVars, envVars, Statuses

(* _retry_or_fail keeps the types, capped or not.                          *)
LEMMA RetryType ==
  ASSUME TypeOK, NEW w \in Workers, NEW r \in 0..Lease, RetryOrFail(w, r),
         prog' \in Progress, faults' \in 0..MaxFaults
  PROVE  TypeOK'
  <1>1. wk[w].lease \in 0..Lease
    BY DEF TypeOK, WorkerStates, WorkerRecords
  <1>2. wk' \in [Workers -> WorkerStates]
    BY StopType DEF RetryOrFail
  <1>3. left' \in 0..Lease
    BY <1>1, LeaseAssumption DEF TypeOK, RetryOrFail, Max2, RetryDelays
  <1>4. status' \in Statuses /\ reason' \in {"none", "invalid_plan",
          "source_changed", "mismatch", "attempt_limit"}
    BY DEF TypeOK, RetryOrFail, Statuses
  <1> QED
    BY <1>2, <1>3, <1>4 DEF TypeOK, RetryOrFail, odooVars

(* A recoverable error outside the loop keeps the types.                   *)
LEMMA RecoverableType ==
  ASSUME TypeOK, NEW w \in Workers, Recoverable(w)
  PROVE  TypeOK'
  <1>1. faults' \in 0..MaxFaults /\ prog' \in Progress
    BY BoundsAssumption DEF Recoverable, Fault, TypeOK
  <1> QED
    BY <1>1, RetryType, LeaseAssumption DEF Recoverable

(* A recoverable error inside the loop keeps the types.                    *)
LEMMA RecoverableInLoopType ==
  ASSUME TypeOK, NEW w \in Workers, RecoverableInLoop(w)
  PROVE  TypeOK'
  <1>1. PICK r \in {prog.res.left, Lease} :
           /\ Fault
           /\ prog' = [prog EXCEPT !.res.left = r]
           /\ RetryOrFail(w, r)
    BY DEF RecoverableInLoop
  <1>2. r \in 0..Lease
    BY LeaseAssumption DEF TypeOK, Progress, Reservations
  <1>3. faults' \in 0..MaxFaults
    BY <1>1, BoundsAssumption DEF Fault, TypeOK
  <1>4. prog' \in Progress
    BY <1>1, <1>2 DEF TypeOK, Progress, Reservations
  <1> QED
    BY <1>1, <1>2, <1>3, <1>4, RetryType

(* Every action of a worker keeps the types.                               *)
LEMMA ClaimType ==
  ASSUME TypeOK, NEW w \in Workers, Claim(w)
  PROVE  TypeOK'
  <1>1. status' \in Active
    BY DEF TypeOK, Claim, Claimable, Active
  <1>2. [pc |-> "start", att |-> attempt + 1, lease |-> Lease,
         st |-> status', cp |-> prog, k |-> 0,
         bad |-> {k \in Ops : odoo[k] = "changed"}] \in WorkerStates
    BY <1>1, OpsAssumption, LeaseAssumption DEF TypeOK, WorkerStates, WorkerRecords, LoopPCs, PCs
  <1>3. wk' \in [Workers -> WorkerStates]
    BY <1>2, BecomeType DEF Claim
  <1>4. attempt' \in Nat /\ left' \in 0..Lease
    BY LeaseAssumption DEF TypeOK, Claim
  <1> QED
    BY <1>1, <1>3, <1>4 DEF TypeOK, Claim, odooVars, envVars, Statuses

(* Validation and the frozen horizon keep the types.                       *)
LEMMA StartType ==
  ASSUME TypeOK, NEW w \in Workers, Start(w)
  PROVE  TypeOK'
  <1> DEFINE cp == [wk[w].cp EXCEPT !.horizon = TRUE]
             next == IF wk[w].st = "applying" THEN "preflight" ELSE "verify"
             new == [wk[w] EXCEPT !.cp = cp, !.pc = next]
  <1>0. /\ cp \in Progress /\ next \in PCs /\ wk[w].lease \in 0..Lease
        /\ next \notin LoopPCs
    BY WorkerType DEF WorkerRecords, LoopPCs, Progress, PCs
  <1>6. new \in WorkerStates
    BY <1>0, WorkerType DEF WorkerStates, WorkerRecords
  <1>1. CASE Fail(w, "invalid_plan")
    BY <1>1, FailType
  <1>2. CASE Superseded(w)
    BY <1>2, SupersededType
  <1>3. CASE Recoverable(w)
    BY <1>3, RecoverableType
  <1>4. CASE Goto(w, next) /\ UNCHANGED <<jobVars, odooVars, envVars>>
    <2>1. wk' \in [Workers -> WorkerStates]
      BY <1>0, <1>4, GotoType
    <2> QED
      BY <1>4, <2>1 DEF TypeOK, jobVars, odooVars, envVars
  <1>5. CASE /\ prog' = cp
             /\ left' = wk[w].lease
             /\ Become(w, new)
             /\ UNCHANGED <<status, attempt, reason, audits, odooVars, envVars>>
    <2>1. wk' \in [Workers -> WorkerStates]
      BY <1>6, <1>5, BecomeType
    <2> QED
      BY <1>0, <1>5, <2>1 DEF TypeOK, odooVars, envVars
  <1> QED
    BY <1>1, <1>2, <1>3, <1>4, <1>5 DEF Start

(* A preflight read keeps the types.                                       *)
LEMMA PreflightType ==
  ASSUME TypeOK, NEW w \in Workers, Preflight(w)
  PROVE  TypeOK'
  <1> DEFINE new == IF wk[w].k < NumOps THEN [wk[w] EXCEPT !.k = wk[w].k + 1]
                                        ELSE [wk[w] EXCEPT !.pc = "reserve"]
  <1>1. CASE Fail(w, "source_changed")
    BY <1>1, FailType
  <1>2. CASE Superseded(w)
    BY <1>2, SupersededType
  <1>3. CASE Recoverable(w)
    BY <1>3, RecoverableType
  <1>4. CASE Heartbeat /\ Become(w, new) /\ UNCHANGED <<odooVars, envVars>>
    <2>1. new \in WorkerStates
      BY WorkerType, OpsAssumption
         DEF Preflight, WorkerStates, WorkerRecords, LoopPCs, PCs
    <2>2. wk' \in [Workers -> WorkerStates]
      BY <1>4, <2>1, BecomeType
    <2> QED
      BY <1>4, <2>2, LeaseAssumption DEF TypeOK, Heartbeat, odooVars, envVars
  <1> QED
    BY <1>1, <1>2, <1>3, <1>4 DEF Preflight

(* A reservation keeps the types.                                          *)
LEMMA ReserveType ==
  ASSUME TypeOK, NEW w \in Workers, Reserve(w)
  PROVE  TypeOK'
  <1>1. CASE Superseded(w)
    BY <1>1, SupersededType
  <1>2. CASE ~Superseded(w)
    <2>1. PICK k \in Ops :
             /\ prog' = [prog EXCEPT !.res =
                           [op |-> k, att |-> wk[w].att, left |-> Lease]]
             /\ left' = Lease
             /\ Become(w, [wk[w] EXCEPT !.pc = "read", !.k = k])
             /\ UNCHANGED <<status, attempt, reason, audits, odooVars, envVars>>
      BY <1>2 DEF Reserve
    <2>2. k \in 0..NumOps /\ Lease \in 0..Lease
      BY OpsAssumption, LeaseAssumption DEF Ops
    <2>3. prog' \in Progress
      BY <2>1, <2>2 DEF TypeOK, WorkerStates, WorkerRecords, Progress, Reservations
    <2>4. [wk[w] EXCEPT !.pc = "read", !.k = k] \in WorkerStates
      BY <2>2, WorkerType DEF WorkerStates, WorkerRecords, PCs
    <2>5. wk' \in [Workers -> WorkerStates]
      BY <2>1, <2>4, BecomeType
    <2> QED
      BY <2>1, <2>2, <2>3, <2>5 DEF TypeOK, odooVars, envVars
  <1> QED
    BY <1>1, <1>2

(* The step to verifying keeps the types.                                  *)
LEMMA FinishOperationsType ==
  ASSUME TypeOK, NEW w \in Workers, FinishOperations(w)
  PROVE  TypeOK'
  <1>1. CASE Superseded(w)
    BY <1>1, SupersededType
  <1>2. CASE ~Superseded(w)
    <2>1. /\ [wk[w] EXCEPT !.pc = "verify", !.st = "verifying"] \in WorkerStates
          /\ wk[w].lease \in 0..Lease
      BY WorkerType DEF WorkerStates, WorkerRecords, LoopPCs, PCs, Active
    <2>2. wk' \in [Workers -> WorkerStates]
      BY <1>2, <2>1, BecomeType DEF FinishOperations
    <2> QED
      BY <1>2, <2>1, <2>2
         DEF FinishOperations, TypeOK, Statuses, Active, odooVars, envVars
  <1> QED
    BY <1>1, <1>2

(* A renewal followed by a move to another program counter.                *)
LEMMA RenewType ==
  ASSUME TypeOK, NEW w \in Workers, Renew, NEW pc \in PCs, Goto(w, pc),
         wk[w].pc \in LoopPCs
  PROVE  /\ prog' \in Progress /\ left' \in 0..Lease
         /\ wk' \in [Workers -> WorkerStates]
  <1>1. Lease \in 0..Lease
    BY LeaseAssumption
  <1> QED
    BY <1>1, GotoType DEF TypeOK, Renew, Progress, Reservations

(* The guard read keeps the types.                                         *)
LEMMA ReadType ==
  ASSUME TypeOK, NEW w \in Workers, Read(w)
  PROVE  TypeOK'
  <1> DEFINE pc == IF SourceState(wk[w].k) = "after" THEN "confirm" ELSE "write"
  <1>1. CASE Superseded(w)
    BY <1>1, SupersededType
  <1>2. CASE Fail(w, "source_changed")
    BY <1>2, FailType
  <1>3. CASE RecoverableInLoop(w)
    BY <1>3, RecoverableInLoopType
  <1>4. CASE Renew /\ Goto(w, pc) /\ UNCHANGED <<odooVars, envVars>>
    <2>1. pc \in PCs /\ wk[w].pc \in LoopPCs
      BY DEF Read, PCs, LoopPCs
    <2>2. /\ prog' \in Progress /\ left' \in 0..Lease
          /\ wk' \in [Workers -> WorkerStates]
      BY <1>4, <2>1, RenewType
    <2> QED
      BY <1>4, <2>2 DEF TypeOK, Renew, odooVars, envVars
  <1> QED
    BY <1>1, <1>2, <1>3, <1>4 DEF Read

(* Sending a write keeps the types.                                        *)
LEMMA WriteType ==
  ASSUME TypeOK, NEW w \in Workers, Write(w)
  PROVE  TypeOK'
  <1>1. CASE Superseded(w)
    BY <1>1, SupersededType
  <1>2. CASE ~Superseded(w)
    <2>1. "sent" \in PCs /\ wk[w].pc \in LoopPCs
      BY DEF Write, PCs, LoopPCs
    <2>2. /\ prog' \in Progress /\ left' \in 0..Lease
          /\ wk' \in [Workers -> WorkerStates]
      BY <1>2, <2>1, RenewType DEF Write
    <2>3. [op |-> wk[w].k, att |-> wk[w].att, left |-> Lease] \in Requests
      BY LeaseAssumption DEF TypeOK, WorkerStates, WorkerRecords, Requests
    <2>4. pend' \in SUBSET Requests
      BY <1>2, <2>3 DEF TypeOK, Write
    <2> QED
      BY <1>2, <2>2, <2>4 DEF Write, TypeOK, Renew, envVars
  <1> QED
    BY <1>1, <1>2

(* The answer to a request only moves program counters.                    *)
LEMMA AnswerType ==
  ASSUME TypeOK, NEW m, NEW pc \in {"acked", "erred"}, Answer(m, pc)
  PROVE  wk' \in [Workers -> WorkerStates]
  <1>1. ASSUME NEW w \in Workers, wk[w].pc = "sent"
        PROVE  [wk[w] EXCEPT !.pc = pc] \in WorkerStates
    BY <1>1, WorkerType DEF WorkerStates, WorkerRecords, PCs, LoopPCs
  <1> QED
    BY <1>1 DEF TypeOK, Answer

(* Odoo deciding or losing a request keeps the types.                      *)
LEMMA LandType ==
  ASSUME TypeOK, NEW m \in pend, Land(m) \/ Lose(m)
  PROVE  TypeOK'
  <1>0. "acked" \in PCs /\ "erred" \in PCs
    BY DEF PCs
  <1>1. CASE Land(m)
    <2>1. wk' \in [Workers -> WorkerStates]
      BY <1>0, <1>1, AnswerType DEF Land
    <2>2. odoo' \in [Ops -> RowStates] /\ pend' \in SUBSET Requests
      BY <1>1 DEF TypeOK, Land, RowStates
    <2> QED
      BY <1>1, <2>1, <2>2 DEF Land, TypeOK, jobVars, envVars
  <1>2. CASE Lose(m)
    <2>1. wk' \in [Workers -> WorkerStates]
      BY <1>0, <1>2, AnswerType DEF Lose
    <2>2. pend' \in SUBSET Requests /\ faults' \in 0..MaxFaults
      BY <1>2, BoundsAssumption DEF TypeOK, Lose, Fault
    <2> QED
      BY <1>2, <2>1, <2>2 DEF Lose, TypeOK, jobVars
  <1> QED
    BY <1>1, <1>2

(* A time-out of the client keeps the types.                               *)
LEMMA TimeOutType ==
  ASSUME TypeOK, NEW w \in Workers, TimeOut(w) \/ Crash(w)
  PROVE  TypeOK'
  <1>1. "erred" \in PCs /\ "sent" \in LoopPCs
    BY DEF PCs, LoopPCs
  <1>2. wk' \in [Workers -> WorkerStates]
    BY <1>1, GotoType, StopType DEF TimeOut, Crash
  <1>3. faults' \in 0..MaxFaults
    BY BoundsAssumption DEF TimeOut, Crash, Fault, TypeOK
  <1> QED
    BY <1>2, <1>3 DEF TimeOut, Crash, TypeOK, jobVars, odooVars

(* The read-back keeps the types.                                          *)
LEMMA ReadBackType ==
  ASSUME TypeOK, NEW w \in Workers, ReadBack(w)
  PROVE  TypeOK'
  <1>1. CASE Superseded(w)
    BY <1>1, SupersededType
  <1>2. CASE Fail(w, "source_changed")
    BY <1>2, FailType
  <1>3. CASE RecoverableInLoop(w)
    BY <1>3, RecoverableInLoopType
  <1>4. CASE Renew /\ Goto(w, "confirm") /\ UNCHANGED <<odooVars, envVars>>
    <2>1. "confirm" \in PCs /\ wk[w].pc \in LoopPCs
      BY DEF ReadBack, PCs, LoopPCs
    <2>2. /\ prog' \in Progress /\ left' \in 0..Lease
          /\ wk' \in [Workers -> WorkerStates]
      BY <1>4, <2>1, RenewType
    <2> QED
      BY <1>4, <2>2 DEF TypeOK, Renew, odooVars, envVars
  <1>5. CASE /\ prog' = [prog EXCEPT !.res.left = Lease]
             /\ RetryOrFail(w, Lease)
             /\ UNCHANGED faults
    <2>1. Lease \in 0..Lease
      BY LeaseAssumption
    <2>2. prog' \in Progress /\ faults' \in 0..MaxFaults
      BY <1>5, <2>1 DEF TypeOK, Progress, Reservations
    <2> QED
      BY <1>5, <2>1, <2>2, RetryType
  <1> QED
    BY <1>1, <1>2, <1>3, <1>4, <1>5 DEF ReadBack

(* Confirming an operation keeps the types.                                *)
LEMMA ConfirmType ==
  ASSUME TypeOK, NEW w \in Workers, Confirm(w)
  PROVE  TypeOK'
  <1> DEFINE k == wk[w].k
             cp == [wk[w].cp EXCEPT !.done = wk[w].cp.done \cup {k}]
             new == [wk[w] EXCEPT !.pc = "reserve", !.k = 0, !.cp = cp]
  <1>1. CASE Superseded(w)
    BY <1>1, SupersededType
  <1>2. CASE ~Superseded(w)
    <2>1. k \in Ops /\ wk[w].lease \in 0..Lease /\ wk[w] \in WorkerRecords
      BY WorkerType DEF Confirm, WorkerRecords, LoopPCs
    <2>7. NoRes \in Reservations
      BY OpsAssumption, LeaseAssumption DEF NoRes, Reservations
    <2>8. prog' = [prog EXCEPT !.res = NoRes, !.done = prog.done \cup {k}]
      BY <1>2 DEF Confirm
    <2>2. prog' \in Progress
      BY <2>1, <2>7, <2>8 DEF TypeOK, Progress
    <2>3. cp \in Progress
      BY <2>1 DEF WorkerRecords, Progress
    <2>4. 0 \in 0..NumOps /\ "reserve" \in PCs /\ "reserve" \notin LoopPCs
      BY OpsAssumption DEF PCs, LoopPCs
    <2>9. new \in WorkerRecords /\ new.pc = "reserve"
      BY <2>1, <2>3, <2>4 DEF WorkerRecords
    <2>10. new \in WorkerStates
      BY <2>4, <2>9 DEF WorkerStates
    <2>5. wk' \in [Workers -> WorkerStates]
      BY <1>2, <2>10, BecomeType DEF Confirm
    <2>6. left' \in 0..Lease
      BY <1>2, <2>1, LeaseAssumption DEF Confirm, TypeOK, Progress, Reservations, Max2
    <2> QED
      BY <1>2, <2>2, <2>5, <2>6 DEF Confirm, TypeOK, odooVars, envVars
  <1> QED
    BY <1>1, <1>2

(* Verification keeps the types.                                           *)
LEMMA VerifyType ==
  ASSUME TypeOK, NEW w \in Workers, Verify(w)
  PROVE  TypeOK'
  <1> DEFINE pc == Downstream(wk[w].cp.stage)
             new == [wk[w] EXCEPT !.pc = pc, !.st = "recalculating"]
  <1>1. CASE Superseded(w)
    BY <1>1, SupersededType
  <1>2. CASE Fail(w, "mismatch")
    BY <1>2, FailType
  <1>3. CASE Recoverable(w)
    BY <1>3, RecoverableType
  <1>4. CASE /\ status' = "recalculating"
             /\ left' = IF wk[w].st = "verifying" THEN wk[w].lease ELSE Lease
             /\ Become(w, new)
             /\ UNCHANGED <<attempt, prog, reason, audits, odooVars, envVars>>
    <2>1. pc \in PCs \ LoopPCs
      BY DEF Downstream, PCs, LoopPCs
    <2>2. new \in WorkerStates /\ wk[w].lease \in 0..Lease
      BY <2>1, WorkerType DEF WorkerStates, WorkerRecords, Active
    <2>3. wk' \in [Workers -> WorkerStates]
      BY <1>4, <2>2, BecomeType
    <2>4. left' \in 0..Lease
      BY <1>4, <2>2, LeaseAssumption
    <2> QED
      BY <1>4, <2>3, <2>4 DEF TypeOK, Statuses, Active, odooVars, envVars
  <1> QED
    BY <1>1, <1>2, <1>3, <1>4 DEF Verify

(* Recording a stage writes a progress and leaves the loop.                *)
LEMMA RecordStageType ==
  ASSUME TypeOK, NEW w \in Workers, NEW stage \in 0..4, NEW pc \in PCs \ LoopPCs,
         RecordStage(w, stage, pc)
  PROVE  /\ prog' \in Progress
         /\ left' \in 0..Lease
         /\ wk' \in [Workers -> WorkerStates]
         /\ UNCHANGED <<status, attempt, reason, audits, odooVars>>
  <1> DEFINE cp == [wk[w].cp EXCEPT !.stage = stage]
             new == [wk[w] EXCEPT !.pc = pc, !.cp = cp]
  <1>1. cp \in Progress
    BY WorkerType DEF WorkerRecords, Progress
  <1>2. new \in WorkerStates /\ wk[w].lease \in 0..Lease
    BY <1>1, WorkerType DEF WorkerStates, WorkerRecords
  <1>3. wk' \in [Workers -> WorkerStates]
    BY <1>2, BecomeType DEF RecordStage
  <1> QED
    BY <1>1, <1>2, <1>3 DEF RecordStage

(* Recording a downstream stage keeps the types.                           *)
LEMMA StagesType ==
  ASSUME TypeOK, NEW w \in Workers,
         Mirror(w) \/ Enqueue(w) \/ CompleteStage(w)
  PROVE  TypeOK'
  <1>0. {"enqueue", "recalc", "cache", "audit"} \subseteq PCs \ LoopPCs
    BY DEF PCs, LoopPCs
  <1>1. CASE Superseded(w)
    BY <1>1, SupersededType
  <1>2. CASE Recoverable(w)
    BY <1>2, RecoverableType
  <1>3. CASE RecordStage(w, 1, "enqueue") /\ UNCHANGED envVars
    BY <1>0, <1>3, RecordStageType DEF TypeOK, odooVars, envVars
  <1>4. CASE /\ RecordStage(w, 2, "recalc")
             /\ recalc' = "queued"
             /\ UNCHANGED <<fixer, faults, edits, kept, raced>>
    BY <1>0, <1>4, RecordStageType DEF TypeOK, odooVars
  <1>5. CASE RecordStage(w, 3, "cache") /\ UNCHANGED envVars
    BY <1>0, <1>5, RecordStageType DEF TypeOK, odooVars, envVars
  <1>6. CASE RecordStage(w, 4, "audit") /\ UNCHANGED envVars
    BY <1>0, <1>6, RecordStageType DEF TypeOK, odooVars, envVars
  <1> QED
    BY <1>1, <1>2, <1>3, <1>4, <1>5, <1>6 DEF Mirror, Enqueue, CompleteStage

(* The recalculation keeps the types.                                      *)
LEMMA RunRecalculationType ==
  ASSUME TypeOK, NEW w \in Workers, RunRecalculation(w)
  PROVE  TypeOK'
  <1> DEFINE pc == CASE wk[w].cp.stage = 2 -> "recalcDone"
                     [] wk[w].cp.stage = 3 -> "cache"
                     [] OTHER -> "audit"
  <1>1. CASE Recoverable(w)
    BY <1>1, RecoverableType
  <1>2. CASE /\ recalc' = "done"
             /\ Goto(w, pc)
             /\ UNCHANGED <<jobVars, odooVars, fixer, faults, edits, kept, raced>>
    <2>1. pc \in PCs \ LoopPCs
      BY DEF PCs, LoopPCs
    <2>2. wk' \in [Workers -> WorkerStates]
      BY <1>2, <2>1, GotoType
    <2> QED
      BY <1>2, <2>2 DEF TypeOK, jobVars, odooVars
  <1> QED
    BY <1>1, <1>2 DEF RunRecalculation

(* The audit transaction keeps the types.                                  *)
LEMMA CompleteWithAuditType ==
  ASSUME TypeOK, NEW w \in Workers, CompleteWithAudit(w)
  PROVE  TypeOK'
  <1>1. CASE Superseded(w)
    BY <1>1, SupersededType
  <1>2. CASE Recoverable(w)
    BY <1>2, RecoverableType
  <1>3. CASE /\ status' = "complete"
             /\ audits' = audits + 1
             /\ left' = 0
             /\ Stop(w)
             /\ UNCHANGED <<attempt, prog, reason, odooVars, envVars>>
    BY <1>3, StopType, LeaseAssumption DEF TypeOK, Statuses, odooVars, envVars
  <1> QED
    BY <1>1, <1>2, <1>3 DEF CompleteWithAudit

(* The environment keeps the types.                                        *)
LEMMA EditType ==
  ASSUME TypeOK, NEW k \in Ops, NEW v \in RowStates, Edit(k, v)
  PROVE  TypeOK'
  <1>1. \A w \in Workers : [wk[w] EXCEPT !.bad = wk[w].bad \ {k}] \in WorkerStates
    BY WorkerType DEF WorkerStates, WorkerRecords
  <1>2. wk' \in [Workers -> WorkerStates]
    BY <1>1 DEF Edit
  <1>3. odoo' \in [Ops -> RowStates] /\ kept' \in SUBSET Ops
    BY DEF Edit, TypeOK
  <1>4. edits' \in 0..MaxEdits
    BY BoundsAssumption DEF Edit, SomeEdit, TypeOK
  <1>5. raced' \in BOOLEAN
    BY Zenon DEF Edit
  <1> QED
    BY <1>2, <1>3, <1>4, <1>5 DEF Edit, TypeOK, jobVars

(* Edits around the plan and the queue worker keep the types.              *)
LEMMA EditAroundType ==
  ASSUME TypeOK, EditAround \/ RecalcQueue
  PROVE  TypeOK'
  <1>1. edits' \in 0..MaxEdits
    BY BoundsAssumption DEF EditAround, RecalcQueue, SomeEdit, TypeOK
  <1>2. rest' \in BOOLEAN /\ target' \in BOOLEAN
    BY Zenon DEF EditAround, RecalcQueue, TypeOK, odooVars
  <1>3. recalc' \in {"none", "queued", "done"}
    BY DEF EditAround, RecalcQueue, TypeOK
  <1> QED
    BY <1>1, <1>2, <1>3 DEF EditAround, RecalcQueue, TypeOK, jobVars, odooVars

(* Counting a progress record's deadline down keeps it a progress record.  *)
LEMMA TickProgressType ==
  ASSUME NEW p \in Progress
  PROVE  TickProgress(p) \in Progress
  <1>1. Minus1(p.res.left) \in 0..Lease
    BY LeaseAssumption DEF Progress, Reservations, Minus1
  <1> QED
    BY <1>1 DEF Progress, Reservations, TickProgress

(* The passing of time keeps the types.                                    *)
LEMMA TickType ==
  ASSUME TypeOK, Tick
  PROVE  TypeOK'
  <1>0. left \in 0..Lease /\ prog \in Progress
    BY DEF TypeOK
  <1>7. left' = Minus1(left) /\ prog' = TickProgress(prog)
    BY DEF Tick
  <1>1. left' \in 0..Lease /\ prog' \in Progress
    BY <1>0, <1>7, LeaseAssumption, TickProgressType DEF Minus1
  <1>2. ASSUME NEW m \in pend
        PROVE  [m EXCEPT !.left = m.left - 1] \in Requests
    <2>1. m \in Requests /\ m.left > 1
      BY DEF TypeOK, Tick
    <2>2. m.left - 1 \in 0..Lease
      BY <2>1, LeaseAssumption DEF Requests
    <2> QED
      BY <2>1, <2>2 DEF Requests
  <1>3. pend' \in SUBSET Requests
    BY <1>2 DEF Tick
  <1>4. ASSUME NEW w \in Workers
        PROVE  [wk[w] EXCEPT !.lease = Minus1(wk[w].lease),
                             !.cp = TickProgress(wk[w].cp)] \in WorkerStates
    <2>1. Minus1(wk[w].lease) \in 0..Lease /\ TickProgress(wk[w].cp) \in Progress
      BY WorkerType, LeaseAssumption, TickProgressType DEF WorkerRecords, Minus1
    <2> QED
      BY <2>1, WorkerType DEF WorkerStates, WorkerRecords
  <1>5. wk' \in [Workers -> WorkerStates]
    BY <1>4 DEF Tick
  <1>6. faults' \in 0..MaxFaults
    <2>1. faults' = faults \/ (faults < MaxFaults /\ faults' = faults + 1)
      BY DEF Tick, Fault
    <2> QED
      BY <2>1, BoundsAssumption DEF TypeOK
  <1> QED
    BY <1>1, <1>3, <1>5, <1>6 DEF Tick, TypeOK

(* Every step keeps the types.                                             *)
LEMMA NextType == TypeOK /\ [Next]_vars => TypeOK'
  <1> SUFFICES ASSUME TypeOK, [Next]_vars PROVE TypeOK'
    OBVIOUS
  <1>1. ASSUME NEW w \in Workers, Claim(w) \/ TimeOut(w) \/ Crash(w) PROVE TypeOK'
    BY <1>1, ClaimType, TimeOutType
  <1>2. ASSUME NEW w \in Workers, WorkerStep(w) PROVE TypeOK'
    BY <1>2, StartType, PreflightType, ReserveType, FinishOperationsType, ReadType,
       WriteType, ReadBackType, ConfirmType, VerifyType, StagesType,
       RunRecalculationType, CompleteWithAuditType DEF WorkerStep
  <1>3. ASSUME NEW m \in pend, Land(m) \/ Lose(m) PROVE TypeOK'
    BY <1>3, LandType
  <1>4. ASSUME NEW k \in Ops, NEW v \in RowStates, Edit(k, v) PROVE TypeOK'
    BY <1>4, EditType
  <1>5. CASE EditAround \/ RecalcQueue
    BY <1>5, EditAroundType
  <1>6. CASE Tick
    BY <1>6, TickType
  <1>7. CASE UNCHANGED vars
    BY <1>7 DEF TypeOK, vars, jobVars, odooVars, envVars
  <1> QED
    BY <1>1, <1>2, <1>3, <1>4, <1>5, <1>6, <1>7 DEF Next, Settled

(* Every reachable state of the job, its workers and Odoo is well typed,   *)
(* for any number of workers, operations, faults and edits.                *)
THEOREM TypeCorrect == Spec => []TypeOK
  BY InitType, NextType, PTL DEF Spec

-----------------------------------------------------------------------------
(* The inductive invariant *)

(* A new job has no worker, no reservation and no request.                 *)
LEMMA InitInv == Init => JobInv
  BY LeaseAssumption
     DEF Init, JobInv, FenceInv, LeaseInv, WriteInv, Busy, Current, Idle,
         EmptyProgress, NoRes, Active

(* A worker gives up and the job row stays as it is.                       *)
LEMMA StopInv ==
  ASSUME TypeOK, JobInv, NEW w \in Workers, Stop(w),
         UNCHANGED <<status, attempt, left, prog, odoo, pend, raced>>
  PROVE  JobInv'
  <1>1. wk'[w].pc = "idle" /\ \A v \in Workers \ {w} : wk'[v] = wk[v]
    BY IdleType, BecomeType DEF Stop, Idle
  <1>2. \A v \in Workers : Busy(v)' => Busy(v) /\ wk'[v] = wk[v]
    BY <1>1 DEF Busy
  <1>3. \A v \in Workers : Current(v)' => Current(v) /\ wk'[v] = wk[v]
    BY <1>2 DEF Current
  <1>4. FenceInv'
    BY <1>2, <1>3 DEF JobInv, FenceInv, IsNextOp
  <1>5. LeaseInv'
    BY DEF JobInv, LeaseInv
  <1>6. WriteInv'
    BY <1>3 DEF JobInv, WriteInv, RequestInv, IsNextOp
  <1> QED
    BY <1>4, <1>5, <1>6 DEF JobInv

(* A worker without the current attempt moves on; the job row stays.       *)
LEMMA StaleInv ==
  ASSUME TypeOK, JobInv, NEW w \in Workers, NEW new \in WorkerStates,
         Become(w, new), Busy(w), ~Current(w), new.att = wk[w].att,
         UNCHANGED <<status, attempt, left, prog, odoo, pend, raced>>
  PROVE  JobInv'
  <1>1. wk'[w] = new /\ \A v \in Workers \ {w} : wk'[v] = wk[v]
    BY BecomeType
  <1>2. \A v \in Workers : Current(v)' => Current(v) /\ wk'[v] = wk[v]
    BY <1>1 DEF Current, Busy
  <1>3. \A v \in Workers : Busy(v)' => wk'[v].att <= attempt'
    BY <1>1 DEF JobInv, FenceInv, Busy
  <1>4. FenceInv'
    BY <1>2, <1>3 DEF JobInv, FenceInv, IsNextOp
  <1>5. LeaseInv'
    BY DEF JobInv, LeaseInv
  <1>6. WriteInv'
    BY <1>2 DEF JobInv, WriteInv, RequestInv, IsNextOp
  <1> QED
    BY <1>4, <1>5, <1>6 DEF JobInv

(* The holder of the current attempt moves on, with no request under way.  *)
LEMMA MoveInv ==
  ASSUME TypeOK, JobInv, NEW w \in Workers, NEW new \in WorkerStates,
         Become(w, new), Current(w), new.att = wk[w].att, attempt' = attempt,
         UNCHANGED <<odoo, pend, raced>>,
         raced \/ pend = {},
         LeaseInv',
         status' \in Active,
         new.st = status',
         new.cp.done = prog'.done,
         new.cp.res.left = 0,
         new.pc \in LoopPCs => IsNextOp(new.k, prog'),
         new.pc \notin LoopPCs => prog'.res.left = 0,
         new.pc = "write" => odoo[new.k] # "after",
         new.pc = "verify" => status' # "applying"
  PROVE  JobInv'
  <1>1. wk'[w] = new /\ \A v \in Workers \ {w} : wk'[v] = wk[v]
    BY BecomeType
  <1>2. \A v \in Workers : Current(v)' => v = w
    BY <1>1 DEF Current, Busy, JobInv, FenceInv
  <1>3. \A v \in Workers : Busy(v)' => wk'[v].att <= attempt'
    BY <1>1 DEF JobInv, FenceInv, Busy, Current
  <1>4. FenceInv'
    BY <1>1, <1>2, <1>3 DEF FenceInv, IsNextOp
  <1>5. WriteInv'
    BY <1>1, <1>2 DEF JobInv, WriteInv
  <1> QED
    BY <1>4, <1>5 DEF JobInv

(* The holder of the current attempt fails the job.                        *)
LEMMA FailInv ==
  ASSUME TypeOK, JobInv, NEW w \in Workers, NEW why, Current(w), Fail(w, why)
  PROVE  JobInv'
  <1>1. wk'[w].pc = "idle" /\ \A v \in Workers \ {w} : wk'[v] = wk[v]
    BY IdleType, BecomeType DEF Fail, Stop, Idle
  <1>2. \A v \in Workers : ~Current(v)' /\ (Busy(v)' => Busy(v) /\ wk'[v] = wk[v])
    BY <1>1 DEF Fail, Current, Busy, JobInv, FenceInv
  <1>3. FenceInv'
    BY <1>2 DEF Fail, JobInv, FenceInv
  <1>4. LeaseInv'
    BY DEF Fail, LeaseInv
  <1>5. WriteInv'
    BY <1>2 DEF Fail, JobInv, WriteInv, RequestInv, IsNextOp, odooVars, envVars
  <1> QED
    BY <1>3, <1>4, <1>5 DEF JobInv

(* The holder of the current attempt schedules a retry no earlier than the *)
(* reservation it leaves behind, or fails at the cap.                      *)
LEMMA RetryInv ==
  ASSUME TypeOK, TypeOK', JobInv, NEW w \in Workers, NEW r \in 0..Lease,
         Current(w), RetryOrFail(w, r),
         prog'.done = prog.done,
         prog'.res.op = prog.res.op,
         prog'.res.left = r,
         prog.res.left <= r,
         status # "applying" => r = 0
  PROVE  JobInv'
  <1>0. Owns(w)
    BY DEF Owns, Current, JobInv, FenceInv
  <1>1. wk'[w].pc = "idle" /\ \A v \in Workers \ {w} : wk'[v] = wk[v]
    BY IdleType, BecomeType DEF RetryOrFail, Stop, Idle
  <1>2. \A v \in Workers : ~Current(v)' /\ (Busy(v)' => Busy(v) /\ wk'[v] = wk[v])
    BY <1>1 DEF RetryOrFail, Current, Busy, JobInv, FenceInv
  <1>3. FenceInv'
    BY <1>2 DEF RetryOrFail, JobInv, FenceInv
  <1>4. \/ status' = "failed"
        \/ status' = status /\ r <= left'
    BY <1>0, WorkerType, LeaseAssumption
       DEF RetryOrFail, RetryDelays, Max2, WorkerRecords
  <1>5. LeaseInv'
    BY <1>4 DEF JobInv, LeaseInv
  <1>6. UNCHANGED <<attempt, odoo, pend, raced>>
    BY DEF RetryOrFail, odooVars
  <1>7. ASSUME NEW m \in pend, ~raced
        PROVE  RequestInv(m)'
    <2>1. RequestInv(m) /\ m \in Requests
      BY <1>7 DEF JobInv, WriteInv, TypeOK
    <2>2. status' \in {"applying", "failed"}
      BY <1>4, <2>1 DEF RequestInv
    <2>3. status' = "applying" => m.left <= prog'.res.left /\ m.left <= left'
      BY <1>4, <2>1 DEF RequestInv, TypeOK, Requests, Progress, Reservations
    <2> QED
      BY <1>6, <2>1, <2>2, <2>3 DEF RequestInv, IsNextOp
  <1>8. WriteInv'
    BY <1>2, <1>6, <1>7 DEF JobInv, WriteInv
  <1> QED
    BY <1>3, <1>5, <1>8 DEF JobInv

(* A superseded worker that stops leaves JobInv alone.                     *)
LEMMA SupersededInv ==
  ASSUME TypeOK, JobInv, NEW w \in Workers, Superseded(w)
  PROVE  JobInv'
  BY StopInv DEF Superseded, jobVars, odooVars, envVars

(* A retry outside the loop keeps JobInv: no request is in flight.         *)
LEMMA RecoverableInv ==
  ASSUME TypeOK, TypeOK', JobInv, NEW w \in Workers, Busy(w),
         wk[w].pc \notin LoopPCs, Recoverable(w)
  PROVE  JobInv'
  <1>1. CASE Current(w)
    <2>1. prog.res.left = 0
      BY <1>1 DEF JobInv, FenceInv
    <2> QED
      BY <1>1, <2>1, RetryInv, LeaseAssumption DEF Recoverable
  <1>2. CASE ~Current(w)
    <2>1. ~Owns(w)
      BY <1>2 DEF Owns, Current
    <2>2. Stop(w) /\ UNCHANGED <<status, attempt, left, prog, odoo, pend, raced>>
      BY <2>1 DEF Recoverable, RetryOrFail, odooVars
    <2> QED
      BY <2>2, StopInv
  <1> QED
    BY <1>1, <1>2

(* A retry in the loop keeps JobInv: it waits for the reservation.         *)
LEMMA RecoverableInLoopInv ==
  ASSUME TypeOK, TypeOK', JobInv, NEW w \in Workers, Current(w),
         status = "applying", RecoverableInLoop(w)
  PROVE  JobInv'
  <1>1. PICK r \in {prog.res.left, Lease} :
           prog' = [prog EXCEPT !.res.left = r] /\ RetryOrFail(w, r)
    BY DEF RecoverableInLoop
  <1>2. r \in 0..Lease /\ prog.res.left <= r
    BY LeaseAssumption DEF TypeOK, Progress, Reservations
  <1>3. prog'.done = prog.done /\ prog'.res.op = prog.res.op /\ prog'.res.left = r
    BY <1>1 DEF TypeOK, Progress, Reservations
  <1> QED
    BY <1>1, <1>2, <1>3, RetryInv

(* A claim finds the lease used up, so no request is in flight.            *)
LEMMA ClaimInv ==
  ASSUME TypeOK, JobInv, NEW w \in Workers, Claim(w)
  PROVE  JobInv'
  <1> DEFINE new == [pc |-> "start", att |-> attempt + 1, lease |-> Lease,
                     st |-> status', cp |-> prog, k |-> 0,
                     bad |-> {k \in Ops : odoo[k] = "changed"}]
  <1>1. status' \in Active
    BY DEF TypeOK, Claim, Claimable, Active
  <1>2. new \in WorkerStates
    BY <1>1, OpsAssumption, LeaseAssumption
       DEF TypeOK, WorkerStates, WorkerRecords, LoopPCs, PCs
  <1>3. wk'[w] = new /\ \A v \in Workers \ {w} : wk'[v] = wk[v]
    BY <1>2, BecomeType DEF Claim
  <1>4. attempt' = attempt + 1 /\ attempt \in Nat /\ left' = Lease /\ prog' = prog
    BY DEF Claim, TypeOK
  <1>5. prog.res.left = 0
    BY DEF Claim, Claimable, JobInv, LeaseInv, TypeOK, Progress, Reservations, Active
  <1>6. \A v \in Workers \ {w} : ~Current(v)'
    BY <1>3, <1>4, WorkerType DEF Current, Busy, JobInv, FenceInv, WorkerRecords
  <1>7. FenceInv'
    <2>1. \A v \in Workers : Busy(v)' => wk'[v].att <= attempt'
      BY <1>3, <1>4, WorkerType DEF JobInv, FenceInv, Busy, WorkerRecords
    <2> QED
      BY <1>1, <1>3, <1>4, <1>5, <1>6, <2>1 DEF FenceInv, LoopPCs
  <1>8. LeaseInv'
    <2>1. status' = "applying" \/ status' = status
      BY DEF Claim
    <2>2. status' # "applying" => prog.done = Ops
      BY <1>1, <2>1 DEF JobInv, LeaseInv, Active
    <2> QED
      BY <1>1, <1>4, <1>5, <2>2, LeaseAssumption DEF LeaseInv, Active
  <1>9. UNCHANGED <<odoo, pend, raced>>
    BY DEF Claim, odooVars, envVars
  <1>10. ASSUME ~raced
         PROVE  pend = {}
    <2> SUFFICES ASSUME NEW m \in pend PROVE FALSE
      OBVIOUS
    <2>1. RequestInv(m) /\ m.left >= 1 /\ m \in Requests
      BY <1>10 DEF JobInv, WriteInv, TypeOK
    <2> QED
      BY <2>1 DEF RequestInv, Claim, Claimable, Requests, Active
  <1>11. WriteInv'
    BY <1>3, <1>6, <1>9, <1>10 DEF JobInv, WriteInv
  <1> QED
    BY <1>7, <1>8, <1>11 DEF JobInv

(* Validation and the horizon keep JobInv.                                 *)
LEMMA StartInv ==
  ASSUME TypeOK, TypeOK', JobInv, NEW w \in Workers, Start(w)
  PROVE  JobInv'
  <1> DEFINE cp == [wk[w].cp EXCEPT !.horizon = TRUE]
             next == IF wk[w].st = "applying" THEN "preflight" ELSE "verify"
             new == [wk[w] EXCEPT !.cp = cp, !.pc = next]
             new2 == [wk[w] EXCEPT !.pc = next]
  <1>0. Busy(w) /\ wk[w].pc \notin LoopPCs
    BY DEF Start, Busy, LoopPCs
  <1>1. /\ next \in PCs /\ next \notin LoopPCs /\ next # "write"
        /\ cp \in Progress /\ cp.done = wk[w].cp.done /\ cp.res = wk[w].cp.res
    BY WorkerType DEF PCs, LoopPCs, WorkerRecords, Progress
  <1>2. new \in WorkerStates /\ new2 \in WorkerStates
    BY <1>1, WorkerType DEF WorkerStates, WorkerRecords
  <1>3. /\ new.att = wk[w].att /\ new.st = wk[w].st /\ new.cp = cp /\ new.pc = next
        /\ new2.att = wk[w].att /\ new2.st = wk[w].st /\ new2.cp = wk[w].cp
        /\ new2.pc = next
    BY WorkerType DEF WorkerRecords
  <1>4. CASE Owns(w) /\ Fail(w, "invalid_plan")
    BY <1>0, <1>4, FailInv DEF Owns, Current
  <1>5. CASE Superseded(w)
    BY <1>5, SupersededInv
  <1>6. CASE Recoverable(w)
    BY <1>0, <1>6, RecoverableInv
  <1>7. CASE Become(w, new2) /\ UNCHANGED <<jobVars, odooVars, envVars>>
    <2>1. UNCHANGED <<status, attempt, left, prog, odoo, pend, raced>>
      BY <1>7 DEF jobVars, odooVars, envVars
    <2>2. CASE ~Current(w)
      BY <1>0, <1>2, <1>3, <1>7, <2>1, <2>2, StaleInv
    <2>3. CASE Current(w)
      <3>1. raced \/ pend = {}
        BY <2>3 DEF JobInv, WriteInv, Start
      <3>2. LeaseInv'
        BY <2>1 DEF JobInv, LeaseInv
      <3>3. /\ status \in Active /\ wk[w].st = status /\ prog.res.left = 0
            /\ wk[w].cp.done = prog.done /\ wk[w].cp.res.left = 0
        BY <1>0, <2>3 DEF JobInv, FenceInv
      <3>4. /\ new2.st = status' /\ new2.cp.done = prog'.done
            /\ new2.cp.res.left = 0 /\ new2.pc \notin LoopPCs
            /\ new2.pc # "write" /\ prog'.res.left = 0 /\ status' \in Active
            /\ new2.pc = "verify" => status' # "applying"
        BY <1>1, <1>3, <2>1, <3>3
      <3> HIDE DEF new2
      <3> QED
        BY <1>2, <1>3, <1>7, <2>1, <2>3, <3>1, <3>2, <3>4, MoveInv
    <2> QED
      BY <2>2, <2>3
  <1>8. CASE /\ Owns(w)
             /\ prog' = cp
             /\ left' = wk[w].lease
             /\ Become(w, new)
             /\ UNCHANGED <<status, attempt, reason, audits, odooVars, envVars>>
    <2>1. Current(w)
      BY <1>0, <1>8 DEF Owns, Current
    <2>2. raced \/ pend = {}
      BY <2>1 DEF JobInv, WriteInv, Start
    <2>3. /\ status \in Active /\ wk[w].st = status
          /\ wk[w].cp.done = prog.done /\ wk[w].cp.res.left = 0
      BY <2>1 DEF JobInv, FenceInv
    <2>4. left' \in 0..Lease
      BY DEF TypeOK
    <2>5. LeaseInv'
      BY <1>1, <1>8, <2>3, <2>4 DEF JobInv, LeaseInv
    <2>6. /\ new.st = status' /\ new.cp.done = prog'.done
          /\ new.cp.res.left = 0 /\ new.pc \notin LoopPCs
          /\ new.pc # "write" /\ prog'.res.left = 0 /\ status' \in Active
          /\ new.pc = "verify" => status' # "applying"
      <3>1. prog' = cp /\ status' = status
        BY <1>8
      <3>2. next = "verify" => wk[w].st # "applying"
        OBVIOUS
      <3> HIDE DEF new, cp, next
      <3> QED
        BY <1>1, <1>3, <2>3, <3>1, <3>2
    <2>7. /\ Become(w, new)
          /\ UNCHANGED <<status, attempt, odoo, pend, raced>>
      BY <1>8 DEF odooVars, envVars
    <2> HIDE DEF new, cp, next
    <2> QED
      BY <1>2, <1>3, <2>1, <2>2, <2>5, <2>6, <2>7, MoveInv
  <1> QED
    BY <1>4, <1>5, <1>6, <1>7, <1>8 DEF Start, Goto

(* A preflight read keeps JobInv: it only extends the lease.               *)
LEMMA PreflightInv ==
  ASSUME TypeOK, TypeOK', JobInv, NEW w \in Workers, Preflight(w)
  PROVE  JobInv'
  <1> DEFINE new == IF wk[w].k < NumOps THEN [wk[w] EXCEPT !.k = wk[w].k + 1]
                                        ELSE [wk[w] EXCEPT !.pc = "reserve"]
  <1>0. Busy(w) /\ wk[w].pc = "preflight" /\ "preflight" \notin LoopPCs
        /\ "reserve" \notin LoopPCs
    BY DEF Preflight, Busy, LoopPCs
  <1>1. CASE Owns(w) /\ Fail(w, "source_changed")
    BY <1>0, <1>1, FailInv DEF Owns, Current
  <1>2. CASE Superseded(w)
    BY <1>2, SupersededInv
  <1>3. CASE Recoverable(w)
    BY <1>0, <1>3, RecoverableInv
  <1>4. CASE Owns(w) /\ Heartbeat /\ Become(w, new) /\ UNCHANGED <<odooVars, envVars>>
    <2>1. /\ new \in WorkerStates
          /\ new.att = wk[w].att /\ new.st = wk[w].st /\ new.cp = wk[w].cp
          /\ new.pc \in {"preflight", "reserve"}
      BY <1>0, WorkerType, OpsAssumption
         DEF WorkerStates, WorkerRecords, PCs
    <2>2. Current(w)
      BY <1>0, <1>4 DEF Owns, Current
    <2>3. raced \/ pend = {}
      BY <1>0, <2>2 DEF JobInv, WriteInv
    <2>4. /\ status \in Active /\ wk[w].st = status /\ prog.res.left = 0
          /\ wk[w].cp.done = prog.done /\ wk[w].cp.res.left = 0
      BY <1>0, <2>2 DEF JobInv, FenceInv
    <2>5. LeaseInv'
      BY <1>4, <2>4, LeaseAssumption DEF JobInv, LeaseInv, Heartbeat
    <2> QED
      BY <1>0, <1>4, <2>1, <2>2, <2>3, <2>4, <2>5, MoveInv
         DEF Heartbeat, odooVars, envVars
  <1> QED
    BY <1>1, <1>2, <1>3, <1>4 DEF Preflight

(* A reservation is made for the next operation by the current worker.     *)
LEMMA ReserveInv ==
  ASSUME TypeOK, TypeOK', JobInv, NEW w \in Workers, Reserve(w)
  PROVE  JobInv'
  <1>0. Busy(w) /\ wk[w].pc = "reserve"
    BY DEF Reserve, Busy
  <1>1. CASE Superseded(w)
    BY <1>1, SupersededInv
  <1>2. CASE ~Superseded(w)
    <2>1. PICK k \in Ops :
             /\ IsNextOp(k, wk[w].cp)
             /\ OwnsApplying(w)
             /\ prog' = [prog EXCEPT !.res =
                           [op |-> k, att |-> wk[w].att, left |-> Lease]]
             /\ left' = Lease
             /\ Become(w, [wk[w] EXCEPT !.pc = "read", !.k = k])
             /\ UNCHANGED <<status, attempt, reason, audits, odooVars, envVars>>
      BY <1>2 DEF Reserve
    <2> DEFINE new == [wk[w] EXCEPT !.pc = "read", !.k = k]
    <2>2. /\ new \in WorkerStates /\ new.att = wk[w].att /\ new.st = wk[w].st
          /\ new.cp = wk[w].cp /\ new.pc = "read" /\ new.k = k
      <3>1. k \in 0..NumOps
        BY OpsAssumption DEF Ops
      <3> QED
        BY <3>1, WorkerType DEF WorkerStates, WorkerRecords, PCs
    <2>3. Current(w) /\ status = "applying"
      BY <1>0, <2>1 DEF OwnsApplying, Current
    <2>4. /\ raced \/ pend = {}
          /\ wk[w].st = status /\ wk[w].cp.done = prog.done /\ wk[w].cp.res.left = 0
      BY <1>0, <2>3 DEF JobInv, WriteInv, FenceInv
    <2>5. prog'.done = prog.done /\ prog'.res.left = Lease
      BY <2>1 DEF TypeOK, Progress
    <2>6. LeaseInv'
      BY <2>1, <2>3, <2>5, LeaseAssumption DEF LeaseInv
    <2>7. IsNextOp(new.k, prog')
      BY <2>1, <2>2, <2>4, <2>5 DEF IsNextOp
    <2>8. "read" \in LoopPCs /\ status' \in Active
      BY <2>1, <2>3 DEF LoopPCs, Active
    <2> HIDE DEF new
    <2> QED
      BY <2>1, <2>2, <2>3, <2>4, <2>5, <2>6, <2>7, <2>8, MoveInv DEF new, odooVars, envVars
  <1> QED
    BY <1>1, <1>2

(* Verification starts with every operation confirmed.                     *)
LEMMA FinishOperationsInv ==
  ASSUME TypeOK, TypeOK', JobInv, NEW w \in Workers, FinishOperations(w)
  PROVE  JobInv'
  <1>0. Busy(w) /\ wk[w].pc = "reserve" /\ wk[w].cp.done = Ops
    BY DEF FinishOperations, Busy
  <1>1. CASE Superseded(w)
    BY <1>1, SupersededInv
  <1>2. CASE ~Superseded(w)
    <2> DEFINE new == [wk[w] EXCEPT !.pc = "verify", !.st = "verifying"]
    <2>1. /\ Owns(w) /\ status' = "verifying" /\ left' = wk[w].lease
          /\ Become(w, new)
          /\ UNCHANGED <<attempt, prog, reason, audits, odooVars, envVars>>
      BY <1>2 DEF FinishOperations
    <2>2. /\ new \in WorkerStates /\ new.att = wk[w].att /\ new.st = "verifying"
          /\ new.cp = wk[w].cp /\ new.pc = "verify"
      BY WorkerType DEF WorkerStates, WorkerRecords, PCs, LoopPCs, Active
    <2>3. Current(w)
      BY <1>0, <2>1 DEF Owns, Current
    <2>4. "reserve" \notin LoopPCs /\ "verify" \notin LoopPCs /\ "verifying" \in Active
      BY DEF LoopPCs, Active
    <2>5. /\ raced \/ pend = {}
          /\ wk[w].cp.done = prog.done /\ wk[w].cp.res.left = 0 /\ prog.res.left = 0
      BY <1>0, <2>3, <2>4 DEF JobInv, WriteInv, FenceInv
    <2>6. LeaseInv'
      BY <1>0, <2>1, <2>5 DEF LeaseInv
    <2> HIDE DEF new
    <2> QED
      BY <2>1, <2>2, <2>3, <2>4, <2>5, <2>6, MoveInv DEF odooVars, envVars
  <1> QED
    BY <1>1, <1>2

(* Holding the reservation means holding the current attempt, applying.    *)
LEMMA HoldsCurrent ==
  ASSUME TypeOK, JobInv, NEW w \in Workers, HoldsReservation(w), wk[w].pc \in LoopPCs
  PROVE  /\ Current(w) /\ status = "applying" /\ wk[w].st = status
         /\ wk[w].k \in Ops /\ prog.res.op = wk[w].k
         /\ wk[w].cp.done = prog.done /\ wk[w].cp.res.left = 0
         /\ IsNextOp(wk[w].k, prog)
  <1>1. Current(w) /\ status = "applying" /\ prog.res.op = wk[w].k
    BY DEF HoldsReservation, OwnsApplying, Current, Busy, LoopPCs
  <1> QED
    BY <1>1, WorkerType DEF JobInv, FenceInv

(* A renewal and a move inside the loop, with no request under way.        *)
LEMMA RenewInv ==
  ASSUME TypeOK, JobInv, NEW w \in Workers, HoldsReservation(w),
         wk[w].pc \in LoopPCs, Renew, NEW pc \in {"write", "confirm"}, Goto(w, pc),
         UNCHANGED <<odooVars, envVars>>,
         raced \/ pend = {},
         pc = "write" => odoo[wk[w].k] # "after"
  PROVE  JobInv'
  <1> DEFINE new == [wk[w] EXCEPT !.pc = pc]
  <1>1. /\ new \in WorkerStates /\ new.att = wk[w].att /\ new.st = wk[w].st
        /\ new.cp = wk[w].cp /\ new.pc = pc /\ new.k = wk[w].k
    BY HoldsCurrent, WorkerType DEF WorkerStates, WorkerRecords, PCs
  <1>2. /\ prog'.done = prog.done /\ prog'.res.left = Lease /\ left' = Lease
        /\ status' = status /\ attempt' = attempt
    BY DEF Renew, TypeOK, Progress, Reservations
  <1>3. LeaseInv'
    BY <1>2, HoldsCurrent, LeaseAssumption DEF LeaseInv
  <1>4. pc \in LoopPCs /\ "applying" \in Active
    BY DEF LoopPCs, Active
  <1>5. IsNextOp(new.k, prog')
    BY <1>1, <1>2, HoldsCurrent DEF IsNextOp
  <1>6. Become(w, new)
    BY DEF Goto
  <1> HIDE DEF new
  <1> QED
    BY <1>1, <1>2, <1>3, <1>4, <1>5, <1>6, HoldsCurrent, MoveInv DEF odooVars, envVars

(* The guard read extends both deadlines together.                         *)
LEMMA ReadInv ==
  ASSUME TypeOK, TypeOK', JobInv, NEW w \in Workers, Read(w)
  PROVE  JobInv'
  <1> DEFINE pc == IF SourceState(wk[w].k) = "after" THEN "confirm" ELSE "write"
  <1>0. wk[w].pc = "read" /\ "read" \in LoopPCs
    BY DEF Read, LoopPCs
  <1>1. CASE Superseded(w)
    BY <1>1, SupersededInv
  <1>2. CASE HoldsReservation(w) /\ Fail(w, "source_changed")
    BY <1>0, <1>2, HoldsCurrent, FailInv
  <1>3. CASE HoldsReservation(w) /\ RecoverableInLoop(w)
    BY <1>0, <1>3, HoldsCurrent, RecoverableInLoopInv
  <1>4. CASE /\ HoldsReservation(w) /\ Renew /\ Goto(w, pc)
             /\ UNCHANGED <<odooVars, envVars>>
    <2>1. raced \/ pend = {}
      BY <1>0, <1>4, HoldsCurrent DEF JobInv, WriteInv
    <2>2. pc \in {"write", "confirm"} /\ (pc = "write" => odoo[wk[w].k] # "after")
      BY DEF SourceState
    <2> QED
      BY <1>0, <1>4, <2>1, <2>2, RenewInv
  <1> QED
    BY <1>1, <1>2, <1>3, <1>4 DEF Read

(* A write starts only when no other request is in flight.                 *)
LEMMA WriteStepInv ==
  ASSUME TypeOK, TypeOK', JobInv, NEW w \in Workers, Write(w)
  PROVE  JobInv'
  <1> DEFINE new == [wk[w] EXCEPT !.pc = "sent"]
  <1>3. PICK m : m = [op |-> wk[w].k, att |-> wk[w].att, left |-> Lease]
    OBVIOUS
  <1>0. wk[w].pc = "write" /\ "write" \in LoopPCs /\ "sent" \in LoopPCs
    BY DEF Write, LoopPCs
  <1>1. CASE Superseded(w)
    BY <1>1, SupersededInv
  <1>2. CASE ~Superseded(w)
    <2>1. /\ HoldsReservation(w) /\ Renew /\ pend' = pend \cup {m} /\ Become(w, new)
          /\ UNCHANGED <<odoo, rest, target, envVars>>
      BY <1>2, <1>3 DEF Write, Goto
    <2>2. /\ new \in WorkerStates /\ new.att = wk[w].att /\ new.st = wk[w].st
          /\ new.cp = wk[w].cp /\ new.pc = "sent" /\ new.k = wk[w].k
      BY <1>0, WorkerType DEF WorkerStates, WorkerRecords, PCs
    <2>3. wk'[w] = new /\ \A v \in Workers \ {w} : wk'[v] = wk[v]
      BY <2>1, <2>2, BecomeType
    <2>4. /\ prog'.done = prog.done /\ prog'.res.left = Lease /\ left' = Lease
          /\ prog'.res.op = prog.res.op /\ status' = status /\ attempt' = attempt
      BY <2>1 DEF Renew, TypeOK, Progress, Reservations
    <2>5. /\ Current(w) /\ status = "applying" /\ wk[w].st = status
          /\ wk[w].k \in Ops /\ prog.res.op = wk[w].k
          /\ wk[w].cp.done = prog.done /\ wk[w].cp.res.left = 0
          /\ IsNextOp(wk[w].k, prog)
      BY <1>0, <2>1, HoldsCurrent
    <2>6. LeaseInv'
      BY <2>4, <2>5, LeaseAssumption DEF LeaseInv
    <2>7. \A v \in Workers : Current(v)' => v = w
      BY <2>3, <2>4, <2>5 DEF Current, Busy, JobInv, FenceInv
    <2>8. \A v \in Workers : Busy(v)' => wk'[v].att <= attempt'
      <3>1. wk'[w].att = wk[w].att /\ Busy(w)
        BY <2>2, <2>3, <2>5 DEF Current
      <3> QED
        BY <2>3, <2>4, <3>1 DEF JobInv, FenceInv, Busy
    <2>9. FenceInv'
      BY <1>0, <2>2, <2>3, <2>4, <2>5, <2>7, <2>8 DEF FenceInv, IsNextOp, Active
    <2>10. WriteInv'
      <3>1. /\ \A n \in pend : n.left >= 1
            /\ ~raced => pend = {} /\ odoo[wk[w].k] # "after"
        BY <1>0, <2>5 DEF JobInv, WriteInv
      <3>2. m.op = wk[w].k /\ m.att = wk[w].att /\ m.left = Lease
        BY <1>3
      <3>3. \A n \in pend' : n.left >= 1
        BY <2>1, <3>1, <3>2, LeaseAssumption
      <3>4. UNCHANGED <<odoo, raced>>
        BY <2>1 DEF envVars
      <3>5. ~raced => RequestInv(m)'
        BY <2>4, <2>5, <3>1, <3>2, <3>4, LeaseAssumption DEF RequestInv, IsNextOp, Current
      <3>6. ~raced => pend' = {m}
        BY <2>1, <3>1
      <3> QED
        BY <2>2, <2>3, <2>7, <3>3, <3>4, <3>5, <3>6 DEF WriteInv
    <2> QED
      BY <2>6, <2>9, <2>10 DEF JobInv
  <1> QED
    BY <1>1, <1>2

(* The answer to a request moves workers inside the loop, and nobody to    *)
(* "write".                                                                *)
LEMMA AnswerMoves ==
  ASSUME TypeOK, NEW m, NEW pc \in {"acked", "erred"}, Answer(m, pc),
         NEW v \in Workers
  PROVE  /\ wk'[v].att = wk[v].att /\ wk'[v].st = wk[v].st
         /\ wk'[v].cp = wk[v].cp /\ wk'[v].k = wk[v].k
         /\ wk'[v].pc = wk[v].pc \/ (wk[v].pc = "sent" /\ wk'[v].pc = pc)
  BY WorkerType DEF Answer, WorkerRecords

(* A decided or lost request leaves the others as they are.                *)
LEMMA LandInv ==
  ASSUME TypeOK, JobInv, NEW m \in pend, Land(m) \/ Lose(m)
  PROVE  JobInv'
  <1>1. PICK pc \in {"acked", "erred"} : Answer(m, pc)
    BY DEF Land, Lose
  <1>2. UNCHANGED <<status, attempt, left, prog, raced>> /\ pend' = pend \ {m}
    BY DEF Land, Lose, jobVars, envVars
  <1>3. \A v \in Workers : /\ wk'[v].att = wk[v].att /\ wk'[v].st = wk[v].st
                           /\ wk'[v].cp = wk[v].cp /\ wk'[v].k = wk[v].k
                           /\ \/ wk'[v].pc = wk[v].pc
                              \/ wk[v].pc = "sent" /\ wk'[v].pc = pc
    BY <1>1, AnswerMoves
  <1>4. \A v \in Workers : /\ Busy(v)' => Busy(v)
                           /\ Current(v)' => Current(v)
                           /\ wk'[v].pc \in LoopPCs <=> wk[v].pc \in LoopPCs
    BY <1>2, <1>3 DEF Busy, Current, LoopPCs
  <1>5. FenceInv'
    BY <1>2, <1>3, <1>4 DEF JobInv, FenceInv, IsNextOp
  <1>6. LeaseInv'
    BY <1>2 DEF JobInv, LeaseInv
  <1>7. ~raced => pend' = {}
    BY <1>2 DEF JobInv, WriteInv
  <1>8. ~raced => \A v \in Workers : Current(v) => wk[v].pc # "write"
    BY DEF JobInv, WriteInv
  <1>9. WriteInv'
    BY <1>2, <1>3, <1>4, <1>7, <1>8 DEF JobInv, WriteInv
  <1> QED
    BY <1>5, <1>6, <1>9 DEF JobInv

(* After a time-out the sender is in the error path.                       *)
LEMMA TimeOutInv ==
  ASSUME TypeOK, JobInv, NEW w \in Workers, TimeOut(w) \/ Crash(w)
  PROVE  JobInv'
  <1>0. UNCHANGED <<status, attempt, left, prog, odoo, pend, raced>>
    BY DEF TimeOut, Crash, jobVars, odooVars
  <1>1. CASE Crash(w)
    BY <1>0, <1>1, StopInv DEF Crash
  <1>2. CASE TimeOut(w)
    <2> DEFINE new == [wk[w] EXCEPT !.pc = "erred"]
    <2>1. /\ new \in WorkerStates /\ new.att = wk[w].att /\ new.st = wk[w].st
          /\ new.cp = wk[w].cp /\ new.pc = "erred" /\ new.k = wk[w].k
          /\ wk[w].pc = "sent"
      BY <1>2, WorkerType DEF TimeOut, WorkerStates, WorkerRecords, PCs, LoopPCs
    <2>2. wk'[w] = new /\ \A v \in Workers \ {w} : wk'[v] = wk[v]
      BY <1>2, <2>1, BecomeType DEF TimeOut, Goto
    <2> HIDE DEF new
    <2>3. \A v \in Workers : /\ wk'[v].att = wk[v].att /\ wk'[v].st = wk[v].st
                             /\ wk'[v].cp = wk[v].cp /\ wk'[v].k = wk[v].k
                             /\ \/ wk'[v].pc = wk[v].pc
                                \/ wk[v].pc = "sent" /\ wk'[v].pc = "erred"
      BY <2>1, <2>2
    <2>4. \A v \in Workers : /\ Busy(v)' => Busy(v)
                             /\ Current(v)' => Current(v)
                             /\ wk'[v].pc \in LoopPCs <=> wk[v].pc \in LoopPCs
      BY <1>0, <2>3 DEF Busy, Current, LoopPCs
    <2>5. FenceInv'
      BY <1>0, <2>3, <2>4 DEF JobInv, FenceInv, IsNextOp
    <2>6. LeaseInv'
      BY <1>0 DEF JobInv, LeaseInv
    <2>7. WriteInv'
      BY <1>0, <2>3, <2>4 DEF JobInv, WriteInv, RequestInv, IsNextOp
    <2> QED
      BY <2>5, <2>6, <2>7 DEF JobInv
  <1> QED
    BY <1>1, <1>2

(* The read-back confirms only what Odoo shows.                            *)
LEMMA ReadBackInv ==
  ASSUME TypeOK, TypeOK', JobInv, NEW w \in Workers, ReadBack(w)
  PROVE  JobInv'
  <1>0. wk[w].pc \in LoopPCs
    BY DEF ReadBack, LoopPCs
  <1>1. CASE Superseded(w)
    BY <1>1, SupersededInv
  <1>2. CASE HoldsReservation(w) /\ Fail(w, "source_changed")
    BY <1>0, <1>2, HoldsCurrent, FailInv
  <1>3. CASE HoldsReservation(w) /\ RecoverableInLoop(w)
    BY <1>0, <1>3, HoldsCurrent, RecoverableInLoopInv
  <1>4. CASE /\ HoldsReservation(w) /\ odoo[wk[w].k] = "after"
             /\ Renew /\ Goto(w, "confirm") /\ UNCHANGED <<odooVars, envVars>>
    <2>1. prog.res.op = wk[w].k
      BY <1>0, <1>4, HoldsCurrent
    <2>2. raced \/ pend = {}
      BY <1>4, <2>1 DEF JobInv, WriteInv, RequestInv
    <2> QED
      BY <1>0, <1>4, <2>2, RenewInv
  <1>5. CASE /\ HoldsReservation(w)
             /\ prog' = [prog EXCEPT !.res.left = Lease]
             /\ RetryOrFail(w, Lease)
    <2>1. Lease \in 0..Lease /\ prog.res.left <= Lease
      BY LeaseAssumption DEF TypeOK, Progress, Reservations
    <2>2. /\ prog'.done = prog.done /\ prog'.res.op = prog.res.op
          /\ prog'.res.left = Lease
      BY <1>5 DEF TypeOK, Progress, Reservations
    <2>3. Current(w) /\ status = "applying"
      BY <1>0, <1>5, HoldsCurrent
    <2> QED
      BY <1>5, <2>1, <2>2, <2>3, RetryInv
  <1> QED
    BY <1>1, <1>2, <1>3, <1>4, <1>5 DEF ReadBack, SourceState

(* Confirming an operation needs its request to be decided.                *)
LEMMA ConfirmInv ==
  ASSUME TypeOK, TypeOK', JobInv, NEW w \in Workers, Confirm(w)
  PROVE  JobInv'
  <1> DEFINE cp == [wk[w].cp EXCEPT !.done = wk[w].cp.done \cup {wk[w].k}]
             new == [wk[w] EXCEPT !.pc = "reserve", !.k = 0, !.cp = cp]
  <1>0. wk[w].pc = "confirm" /\ "confirm" \in LoopPCs
    BY DEF Confirm, LoopPCs
  <1>1. CASE Superseded(w)
    BY <1>1, SupersededInv
  <1>2. CASE ~Superseded(w)
    <2>1. /\ HoldsReservation(w)
          /\ prog' = [prog EXCEPT !.res = NoRes, !.done = prog.done \cup {wk[w].k}]
          /\ Become(w, new)
          /\ UNCHANGED <<status, attempt, reason, audits, odooVars, envVars>>
      BY <1>2 DEF Confirm
    <2>2. /\ Current(w) /\ status = "applying" /\ wk[w].st = status
          /\ wk[w].k \in Ops /\ wk[w].cp.done = prog.done /\ wk[w].cp.res.left = 0
      BY <1>0, <2>1, HoldsCurrent
    <2>3. cp \in Progress /\ cp.done = wk[w].cp.done \cup {wk[w].k} /\ cp.res = wk[w].cp.res
      BY <2>2, WorkerType DEF WorkerRecords, Progress
    <2>4. 0 \in 0..NumOps /\ "reserve" \in PCs /\ "reserve" \notin LoopPCs
      BY OpsAssumption DEF PCs, LoopPCs
    <2>5. /\ new \in WorkerRecords /\ new.att = wk[w].att /\ new.st = wk[w].st
          /\ new.cp = cp /\ new.pc = "reserve"
      BY <2>3, <2>4, WorkerType DEF WorkerRecords
    <2>6. new \in WorkerStates
      BY <2>4, <2>5 DEF WorkerStates
    <2>7. prog'.done = prog.done \cup {wk[w].k} /\ prog'.res.left = 0
      BY <2>1 DEF TypeOK, Progress, NoRes
    <2>8. raced \/ pend = {}
      BY <1>0, <2>2 DEF JobInv, WriteInv
    <2>9. LeaseInv' /\ status' \in Active
      <3>1. left' \in 0..Lease
        BY DEF TypeOK
      <3> QED
        BY <2>1, <2>2, <2>7, <3>1 DEF LeaseInv, Active
    <2>10. /\ new.st = status' /\ new.cp.done = prog'.done /\ new.cp.res.left = 0
           /\ new.pc \notin LoopPCs /\ new.pc # "write"
      BY <2>1, <2>2, <2>3, <2>4, <2>5, <2>7
    <2> HIDE DEF new, cp
    <2> QED
      BY <2>1, <2>2, <2>5, <2>6, <2>7, <2>8, <2>9, <2>10, MoveInv DEF odooVars, envVars
  <1> QED
    BY <1>1, <1>2

(* What the holder of the current attempt knows outside the loop.          *)
LEMMA OutsideLoop ==
  ASSUME TypeOK, JobInv, NEW w \in Workers, Current(w),
         wk[w].pc \notin LoopPCs
  PROVE  /\ raced \/ pend = {}
         /\ status \in Active /\ wk[w].st = status /\ prog.res.left = 0
         /\ wk[w].cp.done = prog.done /\ wk[w].cp.res.left = 0
  BY DEF JobInv, WriteInv, FenceInv, LoopPCs

(* Verification keeps JobInv.                                              *)
LEMMA VerifyInv ==
  ASSUME TypeOK, TypeOK', JobInv, NEW w \in Workers, Verify(w)
  PROVE  JobInv'
  <1> DEFINE pc == Downstream(wk[w].cp.stage)
             new == [wk[w] EXCEPT !.pc = pc, !.st = "recalculating"]
  <1>0. Busy(w) /\ wk[w].pc = "verify" /\ "verify" \notin LoopPCs
    BY DEF Verify, Busy, LoopPCs
  <1>1. CASE Superseded(w)
    BY <1>1, SupersededInv
  <1>2. CASE Owns(w) /\ Fail(w, "mismatch")
    BY <1>0, <1>2, FailInv DEF Owns, Current
  <1>3. CASE Recoverable(w)
    BY <1>0, <1>3, RecoverableInv
  <1>4. CASE /\ Owns(w) /\ Become(w, new)
             /\ status' = "recalculating"
             /\ UNCHANGED <<attempt, prog, reason, audits, odooVars, envVars>>
    <2>1. pc \in PCs \ LoopPCs /\ pc # "write" /\ "recalculating" \in Active
      BY DEF Downstream, PCs, LoopPCs, Active
    <2>2. /\ new \in WorkerStates /\ new.att = wk[w].att /\ new.st = "recalculating"
          /\ new.cp = wk[w].cp /\ new.pc = pc
      BY <2>1, WorkerType DEF WorkerStates, WorkerRecords, Active
    <2>3. Current(w)
      BY <1>0, <1>4 DEF Owns, Current
    <2>4. prog.done = Ops
      BY <1>0, <2>3 DEF JobInv, FenceInv, LeaseInv, Active
    <2>5. /\ raced \/ pend = {}
          /\ prog.res.left = 0 /\ wk[w].cp.done = prog.done /\ wk[w].cp.res.left = 0
      BY <1>0, <2>3, OutsideLoop
    <2>6. LeaseInv'
      BY <1>4, <2>4, <2>5 DEF LeaseInv
    <2> HIDE DEF new, pc
    <2> QED
      BY <1>4, <2>1, <2>2, <2>3, <2>5, <2>6, MoveInv DEF odooVars, envVars
  <1> QED
    BY <1>1, <1>2, <1>3, <1>4 DEF Verify

(* The holder of the current attempt records a stage.                      *)
LEMMA RecordStageInv ==
  ASSUME TypeOK, TypeOK', JobInv, NEW w \in Workers, Current(w),
         wk[w].pc \notin LoopPCs, NEW stage \in 0..4,
         NEW pc \in {"enqueue", "recalc", "cache", "audit"},
         RecordStage(w, stage, pc), UNCHANGED raced
  PROVE  JobInv'
  <1> DEFINE cp == [wk[w].cp EXCEPT !.stage = stage]
             new == [wk[w] EXCEPT !.pc = pc, !.cp = cp]
  <1>1. pc \in PCs \ LoopPCs /\ pc # "write" /\ pc # "verify"
    BY DEF PCs, LoopPCs
  <1>2. cp \in Progress /\ cp.done = wk[w].cp.done /\ cp.res = wk[w].cp.res
    BY WorkerType DEF WorkerRecords, Progress
  <1>3. /\ new \in WorkerStates /\ new.att = wk[w].att /\ new.st = wk[w].st
        /\ new.cp = cp /\ new.pc = pc
    BY <1>1, <1>2, WorkerType DEF WorkerStates, WorkerRecords
  <1>4. /\ prog' = cp /\ Become(w, new)
        /\ UNCHANGED <<status, attempt, reason, audits, odooVars>>
    BY DEF RecordStage
  <1>5. /\ raced \/ pend = {}
        /\ status \in Active /\ wk[w].st = status /\ prog.res.left = 0
        /\ wk[w].cp.done = prog.done /\ wk[w].cp.res.left = 0
    BY OutsideLoop
  <1>6. left' \in 0..Lease
    BY DEF TypeOK
  <1>7. LeaseInv'
    BY <1>2, <1>4, <1>5, <1>6 DEF JobInv, LeaseInv
  <1>8. /\ new.st = status' /\ new.cp.done = prog'.done /\ new.cp.res.left = 0
        /\ prog'.res.left = 0 /\ status' \in Active
    BY <1>2, <1>3, <1>4, <1>5
  <1> HIDE DEF new, cp
  <1> QED
    BY <1>1, <1>3, <1>4, <1>5, <1>7, <1>8, MoveInv DEF odooVars

(* Stages written from the private copy keep the confirmed operations.     *)
LEMMA StagesInv ==
  ASSUME TypeOK, TypeOK', JobInv, NEW w \in Workers,
         Mirror(w) \/ Enqueue(w) \/ CompleteStage(w)
  PROVE  JobInv'
  <1>0. Busy(w) /\ wk[w].pc \notin LoopPCs
    BY DEF Mirror, Enqueue, CompleteStage, Busy, LoopPCs
  <1>1. CASE Superseded(w)
    BY <1>1, SupersededInv
  <1>2. CASE Recoverable(w)
    BY <1>0, <1>2, RecoverableInv
  <1>3. CASE ~Superseded(w) /\ ~Recoverable(w)
    <2>1. Current(w)
      BY <1>0, <1>3
         DEF Mirror, Enqueue, CompleteStage, Owns, OwnsRecalculating, Current
    <2>2. UNCHANGED raced
      BY <1>3 DEF Mirror, Enqueue, CompleteStage, envVars
    <2>3. PICK stage \in 0..4, pc \in {"enqueue", "recalc", "cache", "audit"} :
             RecordStage(w, stage, pc)
      BY <1>3 DEF Mirror, Enqueue, CompleteStage
    <2> QED
      BY <1>0, <2>1, <2>2, <2>3, RecordStageInv
  <1> QED
    BY <1>1, <1>2, <1>3

(* The recalculation keeps JobInv.                                         *)
LEMMA RunRecalculationInv ==
  ASSUME TypeOK, TypeOK', JobInv, NEW w \in Workers, RunRecalculation(w)
  PROVE  JobInv'
  <1> DEFINE pc == CASE wk[w].cp.stage = 2 -> "recalcDone"
                     [] wk[w].cp.stage = 3 -> "cache"
                     [] OTHER -> "audit"
             new == [wk[w] EXCEPT !.pc = pc]
  <1>0. Busy(w) /\ wk[w].pc \notin LoopPCs
    BY DEF RunRecalculation, Busy, LoopPCs
  <1>1. CASE Recoverable(w)
    BY <1>0, <1>1, RecoverableInv
  <1>2. CASE /\ Become(w, new)
             /\ UNCHANGED <<jobVars, odooVars, fixer, faults, edits, kept, raced>>
    <2>1. pc \in PCs \ LoopPCs /\ pc # "write" /\ pc # "verify"
      BY DEF PCs, LoopPCs
    <2>2. /\ new \in WorkerStates /\ new.att = wk[w].att /\ new.st = wk[w].st
          /\ new.cp = wk[w].cp /\ new.pc = pc
      BY <2>1, WorkerType DEF WorkerStates, WorkerRecords
    <2>3. UNCHANGED <<status, attempt, left, prog, odoo, pend, raced>>
      BY <1>2 DEF jobVars, odooVars
    <2>4. LeaseInv'
      BY <2>3 DEF JobInv, LeaseInv
    <2> HIDE DEF new, pc
    <2>5. CASE ~Current(w)
      BY <1>0, <1>2, <2>2, <2>3, <2>5, StaleInv
    <2>6. CASE Current(w)
      <3>1. /\ raced \/ pend = {}
            /\ status \in Active /\ wk[w].st = status /\ prog.res.left = 0
            /\ wk[w].cp.done = prog.done /\ wk[w].cp.res.left = 0
        BY <1>0, <2>6, OutsideLoop
      <3> QED
        BY <1>2, <2>1, <2>2, <2>3, <2>4, <2>6, <3>1, MoveInv
    <2> QED
      BY <2>5, <2>6
  <1> QED
    BY <1>1, <1>2 DEF RunRecalculation, Goto

(* Completion keeps JobInv.                                                *)
LEMMA CompleteWithAuditInv ==
  ASSUME TypeOK, TypeOK', JobInv, NEW w \in Workers, CompleteWithAudit(w)
  PROVE  JobInv'
  <1>0. Busy(w) /\ wk[w].pc \notin LoopPCs
    BY DEF CompleteWithAudit, Busy, LoopPCs
  <1>1. CASE Superseded(w)
    BY <1>1, SupersededInv
  <1>2. CASE Recoverable(w)
    BY <1>0, <1>2, RecoverableInv
  <1>3. CASE /\ OwnsRecalculating(w)
             /\ status' = "complete"
             /\ Stop(w)
             /\ UNCHANGED <<attempt, prog, reason, odooVars, envVars>>
    <2>1. Current(w) /\ status = "recalculating"
      BY <1>0, <1>3 DEF OwnsRecalculating, Current
    <2>2. /\ raced \/ pend = {}
          /\ prog.res.left = 0 /\ prog.done = Ops
      BY <1>0, <2>1, OutsideLoop DEF JobInv, LeaseInv
    <2>3. wk'[w].pc = "idle" /\ \A v \in Workers \ {w} : wk'[v] = wk[v]
      BY <1>3, IdleType, BecomeType DEF Stop, Idle
    <2>4. \A v \in Workers : ~Current(v)' /\ (Busy(v)' => Busy(v) /\ wk'[v] = wk[v])
      BY <1>3, <2>1, <2>3 DEF Current, Busy, JobInv, FenceInv
    <2>5. FenceInv'
      BY <1>3, <2>4 DEF JobInv, FenceInv
    <2>6. LeaseInv'
      BY <1>3, <2>2 DEF LeaseInv
    <2>7. WriteInv'
      BY <1>3, <2>2, <2>4 DEF JobInv, WriteInv, odooVars, envVars
    <2> QED
      BY <2>5, <2>6, <2>7 DEF JobInv
  <1> QED
    BY <1>1, <1>2, <1>3 DEF CompleteWithAudit

(* An outside edit keeps JobInv, or is recorded as raced.                  *)
LEMMA EditInv ==
  ASSUME TypeOK, JobInv, NEW k \in Ops, NEW v \in RowStates, Edit(k, v)
  PROVE  JobInv'
  <1>1. UNCHANGED <<status, attempt, left, prog, pend>>
        /\ odoo' = [odoo EXCEPT ![k] = v] /\ odoo \in [Ops -> RowStates]
    BY DEF Edit, jobVars, TypeOK
  <1>2. ASSUME NEW w \in Workers
        PROVE  /\ wk'[w].att = wk[w].att /\ wk'[w].st = wk[w].st
               /\ wk'[w].cp = wk[w].cp /\ wk'[w].k = wk[w].k
               /\ wk'[w].pc = wk[w].pc
    BY WorkerType DEF Edit, WorkerRecords
  <1>3. \A w \in Workers : /\ Busy(w)' <=> Busy(w)
                           /\ Current(w)' <=> Current(w)
    BY <1>1, <1>2 DEF Busy, Current
  <1>4. FenceInv'
    BY <1>1, <1>2, <1>3 DEF JobInv, FenceInv, IsNextOp
  <1>5. LeaseInv'
    BY <1>1 DEF JobInv, LeaseInv
  <1>6. ~raced' => ~raced /\ (v = "after" => ~WriteUnderWay(k))
    BY Zenon DEF Edit
  <1>7. ASSUME NEW m \in pend, ~raced'
        PROVE  RequestInv(m)'
    <2>1. RequestInv(m)
      BY <1>6, <1>7 DEF JobInv, WriteInv
    <2>2. odoo'[m.op] # "after"
      BY <1>1, <1>6, <1>7, <2>1 DEF RequestInv, WriteUnderWay
    <2> QED
      BY <1>1, <2>1, <2>2 DEF RequestInv, IsNextOp
  <1>8. ASSUME NEW w \in Workers, Current(w), ~raced', wk[w].pc = "write"
        PROVE  odoo'[wk[w].k] # "after"
    BY <1>1, <1>6, <1>8 DEF JobInv, WriteInv, WriteUnderWay
  <1>9. WriteInv'
    BY <1>1, <1>2, <1>3, <1>6, <1>7, <1>8 DEF JobInv, WriteInv
  <1> QED
    BY <1>4, <1>5, <1>9 DEF JobInv

(* A step that touches none of the invariant's variables.                  *)
LEMMA UnchangedInv ==
  ASSUME TypeOK, JobInv,
         UNCHANGED <<status, attempt, left, prog, odoo, pend, raced, wk>>
  PROVE  JobInv'
  BY DEF JobInv, FenceInv, LeaseInv, WriteInv, RequestInv, IsNextOp, Busy, Current

(* Time takes the same from every deadline.                                *)
LEMMA TickInv ==
  ASSUME TypeOK, TypeOK', JobInv, Tick
  PROVE  JobInv'
  <1>0. left \in 0..Lease /\ prog \in Progress /\ prog.res \in Reservations
        /\ prog.res.left \in 0..Lease
    BY DEF TypeOK, Progress, Reservations
  <1>1. /\ left' = Minus1(left) /\ prog' = TickProgress(prog)
        /\ UNCHANGED <<status, attempt, odoo, raced>>
    BY DEF Tick
  <1>2. /\ prog'.done = prog.done /\ prog'.res.op = prog.res.op
        /\ prog'.res.left = Minus1(prog.res.left)
    BY <1>0, <1>1 DEF TickProgress, Progress, Reservations
  <1>3. ASSUME NEW w \in Workers
        PROVE  /\ wk'[w].att = wk[w].att /\ wk'[w].st = wk[w].st
               /\ wk'[w].cp = TickProgress(wk[w].cp) /\ wk'[w].k = wk[w].k
               /\ wk'[w].pc = wk[w].pc
    BY WorkerType DEF Tick, WorkerRecords
  <1>4. ASSUME NEW w \in Workers
        PROVE  /\ wk'[w].cp.done = wk[w].cp.done
               /\ wk[w].cp.res.left = 0 => wk'[w].cp.res.left = 0
    <2>1. wk[w].cp \in Progress /\ wk[w].cp.res \in Reservations
      BY WorkerType DEF WorkerRecords, Progress
    <2> QED
      BY <1>3, <2>1 DEF TickProgress, Progress, Reservations, Minus1
  <1>5. \A w \in Workers : /\ Busy(w)' <=> Busy(w)
                           /\ Current(w)' <=> Current(w)
    BY <1>1, <1>3 DEF Busy, Current
  <1>6. FenceInv'
    BY <1>1, <1>2, <1>3, <1>4, <1>5 DEF JobInv, FenceInv, IsNextOp, Minus1
  <1>7. LeaseInv'
    BY <1>0, <1>1, <1>2 DEF JobInv, LeaseInv, Minus1
  <1>8. \A n \in pend' : \E m \in pend : n = [m EXCEPT !.left = m.left - 1]
    BY DEF Tick
  <1>9. ASSUME NEW n \in pend'
        PROVE  n.left >= 1 /\ (~raced => RequestInv(n)')
    <2>1. PICK m \in pend : n = [m EXCEPT !.left = m.left - 1]
      BY <1>8
    <2>2. m \in Requests /\ m.left > 1
      BY DEF Tick, TypeOK
    <2>3. n.op = m.op /\ n.att = m.att /\ n.left = m.left - 1
      BY <2>1, <2>2 DEF Requests
    <2>4. ~raced => RequestInv(m)
      BY DEF JobInv, WriteInv
    <2>5. ~raced => RequestInv(n)'
      BY <1>0, <1>1, <1>2, <2>2, <2>3, <2>4 DEF RequestInv, IsNextOp, Minus1, Requests
    <2> QED
      BY <2>2, <2>3, <2>5 DEF Requests
  <1>10. ~raced => \A m, n \in pend' : m = n
    BY <1>8 DEF JobInv, WriteInv
  <1>11. pend = {} => pend' = {}
    BY <1>8
  <1>12. WriteInv'
    BY <1>1, <1>3, <1>5, <1>9, <1>10, <1>11 DEF JobInv, WriteInv
  <1> QED
    BY <1>6, <1>7, <1>12 DEF JobInv

(* Every step keeps the invariant.                                         *)
LEMMA NextInv == TypeOK /\ TypeOK' /\ JobInv /\ [Next]_vars => JobInv'
  <1> SUFFICES ASSUME TypeOK, TypeOK', JobInv, [Next]_vars PROVE JobInv'
    OBVIOUS
  <1>1. ASSUME NEW w \in Workers, Claim(w) \/ TimeOut(w) \/ Crash(w) PROVE JobInv'
    BY <1>1, ClaimInv, TimeOutInv
  <1>2. ASSUME NEW w \in Workers, WorkerStep(w) PROVE JobInv'
    BY <1>2, StartInv, PreflightInv, ReserveInv, FinishOperationsInv, ReadInv,
       WriteStepInv, ReadBackInv, ConfirmInv, VerifyInv, StagesInv,
       RunRecalculationInv, CompleteWithAuditInv DEF WorkerStep
  <1>3. ASSUME NEW m \in pend, Land(m) \/ Lose(m) PROVE JobInv'
    BY <1>3, LandInv
  <1>4. ASSUME NEW k \in Ops, NEW v \in RowStates, Edit(k, v) PROVE JobInv'
    BY <1>4, EditInv
  <1>5. CASE EditAround \/ RecalcQueue
    BY <1>5, UnchangedInv DEF EditAround, RecalcQueue, jobVars, odooVars
  <1>6. CASE Tick
    BY <1>6, TickInv
  <1>7. CASE UNCHANGED vars
    BY <1>7, UnchangedInv DEF vars, jobVars, odooVars, envVars
  <1> QED
    BY <1>1, <1>2, <1>3, <1>4, <1>5, <1>6, <1>7 DEF Next, Settled

(* The fence, the lease and the reservation of the job row keep their      *)
(* promise in every reachable state: one worker holds the current attempt, *)
(* the row cannot be claimed while a reservation runs, and a request under *)
(* way belongs to the current attempt and to the next operation.           *)
THEOREM JobInvariant == Spec => []JobInv
  <1>1. Init => TypeOK /\ JobInv
    BY InitType, InitInv
  <1>2. TypeOK /\ JobInv /\ [Next]_vars => (TypeOK /\ JobInv)'
    BY NextType, NextInv
  <1> QED
    BY <1>1, <1>2, PTL DEF Spec

-----------------------------------------------------------------------------
(* The safety properties *)

(* A set all of whose members are equal has at most one.                   *)
LEMMA AtMostOne ==
  ASSUME NEW S, \A m, n \in S : m = n
  PROVE  Cardinality(S) <= 1
  <1>1. CASE S = {}
    BY <1>1, FS_EmptySet
  <1>2. CASE S # {}
    <2>1. PICK m \in S : S = {m}
      BY <1>2
    <2>2. Cardinality({m}) = 1
      BY FS_Singleton
    <2> QED
      BY <2>1, <2>2
  <1> QED
    BY <1>1, <1>2

(* However many workers there are and however they are scheduled, at most  *)
(* one Odoo write of the job is undecided (_reserve_operation and the      *)
(* renewals), for every plan length, lease and number of faults.           *)
THEOREM WritesExclude == Spec => []ExclusiveWrite
  <1>1. JobInv => ExclusiveWrite
    BY AtMostOne DEF JobInv, WriteInv, ExclusiveWrite
  <1> QED
    BY <1>1, JobInvariant, PTL

(* Odoo sees the writes of the plan in the plan's order, each one after    *)
(* the durable confirmation of all before it (_complete_reserved_operation *)
(* and the loop of _process_claim).                                        *)
THEOREM WritesInOrder == Spec => []SafeOrder
  <1>1. JobInv => SafeOrder
    BY DEF JobInv, WriteInv, RequestInv, IsNextOp, SafeOrder
  <1> QED
    BY <1>1, JobInvariant, PTL

(* A job that is verifying, recalculating or complete has confirmed every  *)
(* operation and has no request left that could change what was verified   *)
(* (_verification_rows, _complete_with_audit).                             *)
THEOREM VerificationIsFinal == Spec => []VerifiedIsFinal
  <1>1. JobInv => VerifiedIsFinal
    BY DEF JobInv, LeaseInv, WriteInv, RequestInv, VerifiedIsFinal
  <1> QED
    BY <1>1, JobInvariant, PTL

(* While a reservation runs the WHERE of _claim_job does not select the    *)
(* row.                                                                    *)
THEOREM ReservationBlocksClaim == Spec => []LeaseCoversReservation
  <1>1. JobInv => LeaseCoversReservation
    BY DEF JobInv, LeaseInv, LeaseCoversReservation
  <1> QED
    BY <1>1, JobInvariant, PTL

-----------------------------------------------------------------------------
(* Rows that somebody else changed *)

(* A kept change is still there, and no write for its row is under way.    *)
KeptInv == \A k \in kept : odoo[k] = "changed" /\ ~WriteUnderWay(k)

(* A step that starts no write and leaves the rows alone keeps it.         *)
LEMMA NoNewWrite ==
  ASSUME KeptInv, UNCHANGED <<odoo, kept>>,
         \A m \in pend' : \E n \in pend : n.op = m.op,
         \A w \in Workers : wk'[w].pc = "write" =>
                               wk[w].pc = "write" /\ wk'[w].k = wk[w].k
  PROVE  KeptInv'
  BY DEF KeptInv, WriteUnderWay

(* The same for a step of one worker that does not get to "write".         *)
LEMMA NoWriteByWorker ==
  ASSUME TypeOK, KeptInv, NEW w \in Workers, NEW new,
         Become(w, new), new.pc # "write", UNCHANGED <<odoo, kept, pend>>
  PROVE  KeptInv'
  <1>1. wk'[w] = new /\ \A v \in Workers \ {w} : wk'[v] = wk[v]
    BY DEF Become, TypeOK
  <1> QED
    BY <1>1, NoNewWrite

(* The outcomes that end an attempt.                                       *)
LEMMA StopKeeps ==
  ASSUME TypeOK, KeptInv, NEW w \in Workers,
         \/ Superseded(w)
         \/ Fail(w, "invalid_plan") \/ Fail(w, "source_changed") \/ Fail(w, "mismatch")
         \/ Recoverable(w)
         \/ RecoverableInLoop(w)
         \/ RetryOrFail(w, Lease)
  PROVE  KeptInv'
  <1>1. Stop(w) /\ UNCHANGED <<odoo, kept, pend>>
    BY DEF Superseded, Fail, Recoverable, RecoverableInLoop, RetryOrFail,
           odooVars, envVars
  <1> QED
    BY <1>1, NoWriteByWorker DEF Stop, Idle

(* A move to a program counter other than "write".                         *)
LEMMA GotoKeeps ==
  ASSUME TypeOK, KeptInv, NEW w \in Workers, NEW pc, pc # "write",
         Goto(w, pc), UNCHANGED <<odoo, kept, pend>>
  PROVE  KeptInv'
  <1>1. [wk[w] EXCEPT !.pc = pc].pc = pc
    BY WorkerType DEF WorkerRecords
  <1> QED
    BY <1>1, NoWriteByWorker DEF Goto

(* The guard read goes on to the write only when the row is as planned.    *)
LEMMA ReadKeeps ==
  ASSUME TypeOK, KeptInv, NEW w \in Workers, Read(w)
  PROVE  KeptInv'
  <1>1. CASE Superseded(w) \/ Fail(w, "source_changed") \/ RecoverableInLoop(w)
    BY <1>1, StopKeeps
  <1>2. CASE /\ SourceState(wk[w].k) # "changed"
             /\ Goto(w, IF SourceState(wk[w].k) = "after" THEN "confirm" ELSE "write")
             /\ UNCHANGED <<odooVars, envVars>>
    <2>1. wk'[w].k = wk[w].k /\ \A v \in Workers \ {w} : wk'[v] = wk[v]
      BY <1>2, WorkerType DEF Goto, Become, TypeOK, WorkerRecords
    <2> QED
      BY <1>2, <2>1 DEF KeptInv, WriteUnderWay, SourceState, odooVars, envVars
  <1> QED
    BY <1>1, <1>2 DEF Read

(* Sending the request continues a write that was already under way.       *)
LEMMA WriteKeeps ==
  ASSUME TypeOK, KeptInv, NEW w \in Workers, Write(w)
  PROVE  KeptInv'
  <1>1. CASE Superseded(w)
    BY <1>1, StopKeeps
  <1>2. CASE ~Superseded(w)
    <2>1. wk'[w].pc = "sent" /\ \A v \in Workers \ {w} : wk'[v] = wk[v]
      BY <1>2, WorkerType DEF Write, Goto, Become, TypeOK, WorkerRecords
    <2>2. \A m \in pend' : m \in pend \/ m.op = wk[w].k
      BY <1>2 DEF Write
    <2>3. wk[w].pc = "write" /\ UNCHANGED <<odoo, kept>>
      BY <1>2 DEF Write, envVars
    <2> QED
      BY <2>1, <2>2, <2>3 DEF KeptInv, WriteUnderWay
  <1> QED
    BY <1>1, <1>2

(* The steps of a worker up to and including the operation loop.           *)
LEMMA LoopKeeps ==
  ASSUME TypeOK, KeptInv, NEW w \in Workers,
         \/ Claim(w) \/ Start(w) \/ Preflight(w) \/ Reserve(w)
         \/ FinishOperations(w) \/ TimeOut(w) \/ Crash(w)
  PROVE  KeptInv'
  <1>1. CASE \/ Superseded(w) \/ Recoverable(w)
             \/ Fail(w, "invalid_plan") \/ Fail(w, "source_changed")
    BY <1>1, StopKeeps
  <1>2. CASE Claim(w)
    BY <1>2, NoWriteByWorker DEF Claim, odooVars, envVars
  <1>3. CASE Start(w) /\ ~Superseded(w) /\ ~Recoverable(w) /\ ~Fail(w, "invalid_plan")
    <2> DEFINE cp == [wk[w].cp EXCEPT !.horizon = TRUE]
               next == IF wk[w].st = "applying" THEN "preflight" ELSE "verify"
               new == [wk[w] EXCEPT !.cp = cp, !.pc = next]
    <2>1. \/ Goto(w, next)
          \/ Become(w, new)
      BY <1>3 DEF Start
    <2>2. UNCHANGED <<odoo, kept, pend>>
      BY <1>3 DEF Start, odooVars, envVars
    <2>3. next # "write" /\ new.pc = next
      BY WorkerType DEF WorkerRecords
    <2> HIDE DEF cp, next, new
    <2> QED
      BY <2>1, <2>2, <2>3, GotoKeeps, NoWriteByWorker
  <1>4. CASE Preflight(w) /\ ~Superseded(w) /\ ~Recoverable(w)
             /\ ~Fail(w, "source_changed")
    <2> DEFINE new == IF wk[w].k < NumOps THEN [wk[w] EXCEPT !.k = wk[w].k + 1]
                                          ELSE [wk[w] EXCEPT !.pc = "reserve"]
    <2>1. Become(w, new) /\ UNCHANGED <<odoo, kept, pend>>
      BY <1>4 DEF Preflight, odooVars, envVars
    <2>2. new.pc # "write"
      BY <1>4, WorkerType DEF Preflight, WorkerRecords
    <2> HIDE DEF new
    <2> QED
      BY <2>1, <2>2, NoWriteByWorker
  <1>5. CASE Reserve(w) /\ ~Superseded(w)
    <2>1. PICK k \in Ops : Become(w, [wk[w] EXCEPT !.pc = "read", !.k = k])
      BY <1>5 DEF Reserve
    <2>2. [wk[w] EXCEPT !.pc = "read", !.k = k].pc = "read"
      BY WorkerType DEF WorkerRecords
    <2>3. UNCHANGED <<odoo, kept, pend>>
      BY <1>5 DEF Reserve, odooVars, envVars
    <2> QED
      BY <2>1, <2>2, <2>3, NoWriteByWorker
  <1>6. CASE FinishOperations(w) /\ ~Superseded(w)
    <2>1. [wk[w] EXCEPT !.pc = "verify", !.st = "verifying"].pc = "verify"
      BY WorkerType DEF WorkerRecords
    <2> QED
      BY <1>6, <2>1, NoWriteByWorker DEF FinishOperations, odooVars, envVars
  <1>7. CASE TimeOut(w)
    BY <1>7, GotoKeeps DEF TimeOut, odooVars
  <1>8. CASE Crash(w)
    BY <1>8, NoWriteByWorker DEF Crash, Stop, Idle, odooVars
  <1> QED
    BY <1>1, <1>2, <1>3, <1>4, <1>5, <1>6, <1>7, <1>8

(* The read-back, the confirmation, the verification and the stages.       *)
LEMMA StagesKeep ==
  ASSUME TypeOK, KeptInv, NEW w \in Workers,
         \/ ReadBack(w) \/ Confirm(w) \/ Verify(w) \/ Mirror(w) \/ Enqueue(w)
         \/ RunRecalculation(w) \/ CompleteStage(w) \/ CompleteWithAudit(w)
  PROVE  KeptInv'
  <1> DEFINE Ends == \/ Superseded(w) \/ Recoverable(w) \/ RecoverableInLoop(w)
                     \/ Fail(w, "source_changed") \/ Fail(w, "mismatch")
                     \/ RetryOrFail(w, Lease)
  <1>1. CASE Ends
    BY <1>1, StopKeeps
  <1>2. ASSUME NEW stage, NEW pc, pc # "write", RecordStage(w, stage, pc),
               UNCHANGED kept
        PROVE  KeptInv'
    <2> DEFINE new == [wk[w] EXCEPT !.pc = pc, !.cp = [wk[w].cp EXCEPT !.stage = stage]]
    <2>1. Become(w, new) /\ UNCHANGED <<odoo, pend>>
      BY <1>2 DEF RecordStage, odooVars
    <2>2. new.pc = pc
      BY WorkerType DEF WorkerRecords
    <2> HIDE DEF new
    <2> QED
      BY <1>2, <2>1, <2>2, NoWriteByWorker
  <1>3. CASE ReadBack(w) /\ ~Ends
    BY <1>3, GotoKeeps DEF ReadBack, odooVars, envVars
  <1>4. CASE Confirm(w) /\ ~Ends
    <2> DEFINE cp == [wk[w].cp EXCEPT !.done = @ \cup {wk[w].k}]
               new == [wk[w] EXCEPT !.pc = "reserve", !.k = 0, !.cp = cp]
    <2>1. Become(w, new) /\ UNCHANGED <<odoo, pend, kept>>
      BY <1>4 DEF Confirm, odooVars, envVars
    <2>2. new.pc = "reserve"
      BY WorkerType DEF WorkerRecords
    <2> HIDE DEF new
    <2> QED
      BY <2>1, <2>2, NoWriteByWorker
  <1>5. CASE Verify(w) /\ ~Ends
    <2> DEFINE new == [wk[w] EXCEPT !.pc = Downstream(wk[w].cp.stage),
                                    !.st = "recalculating"]
    <2>1. Become(w, new) /\ UNCHANGED <<odoo, pend, kept>>
      BY <1>5 DEF Verify, odooVars, envVars
    <2>2. new.pc # "write"
      BY WorkerType DEF WorkerRecords, Downstream
    <2> HIDE DEF new
    <2> QED
      BY <2>1, <2>2, NoWriteByWorker
  <1>6. CASE (Mirror(w) \/ Enqueue(w) \/ CompleteStage(w)) /\ ~Ends
    BY <1>2, <1>6 DEF Mirror, Enqueue, CompleteStage, envVars
  <1>7. CASE RunRecalculation(w) /\ ~Ends
    BY <1>7, GotoKeeps DEF RunRecalculation, odooVars
  <1>8. CASE CompleteWithAudit(w) /\ ~Ends
    BY <1>8, NoWriteByWorker DEF CompleteWithAudit, Stop, Idle, odooVars, envVars
  <1> QED
    BY <1>1, <1>3, <1>4, <1>5, <1>6, <1>7, <1>8

(* A request that lands or is lost is for a row that is not kept.          *)
LEMMA LandKeeps ==
  ASSUME TypeOK, KeptInv, NEW m \in pend, Land(m) \/ Lose(m)
  PROVE  KeptInv'
  <1>1. \A w \in Workers : wk'[w].pc = "write" => wk'[w] = wk[w]
    <2> SUFFICES ASSUME NEW w \in Workers, wk'[w].pc = "write" PROVE wk'[w] = wk[w]
      OBVIOUS
    <2>1. PICK pc \in {"acked", "erred"} : Answer(m, pc)
      BY DEF Land, Lose
    <2>2. [wk[w] EXCEPT !.pc = pc].pc = pc
      BY WorkerType DEF WorkerRecords
    <2> QED
      BY <2>1, <2>2 DEF Answer
  <1>2. pend' \subseteq pend /\ kept' = kept
    BY DEF Land, Lose, envVars
  <1>3. m.op \notin kept
    BY DEF KeptInv, WriteUnderWay
  <1>4. \A k \in kept : odoo'[k] = odoo[k]
    BY <1>3 DEF Land, Lose, TypeOK
  <1> QED
    BY <1>1, <1>2, <1>4 DEF KeptInv, WriteUnderWay

(* A row that somebody else changed while no write for it was under way    *)
(* keeps that change, whichever attempts get to it (_perform_operation and *)
(* _operation_source_state): for every number of workers, faults, edits.   *)
THEOREM EditsAreProtected == Spec => []ProtectedEdit
  <1>1. Init => KeptInv
    BY DEF Init, KeptInv
  <1>2. TypeOK /\ KeptInv /\ [Next]_vars => KeptInv'
    <2> SUFFICES ASSUME TypeOK, KeptInv, [Next]_vars PROVE KeptInv'
      OBVIOUS
    <2>1. ASSUME NEW w \in Workers, Claim(w) \/ WorkerStep(w) \/ TimeOut(w) \/ Crash(w)
          PROVE  KeptInv'
      BY <2>1, LoopKeeps, ReadKeeps, WriteKeeps, StagesKeep DEF WorkerStep
    <2>2. ASSUME NEW m \in pend, Land(m) \/ Lose(m) PROVE KeptInv'
      BY <2>2, LandKeeps
    <2>3. ASSUME NEW k \in Ops, NEW v \in RowStates, Edit(k, v) PROVE KeptInv'
      <3>1. \A w \in Workers : wk'[w].pc = wk[w].pc /\ wk'[w].k = wk[w].k
        BY <2>3, WorkerType DEF Edit, WorkerRecords
      <3>2. pend' = pend /\ kept' \subseteq kept \cup {k}
        BY <2>3 DEF Edit
      <3>3. \A j \in Ops : WriteUnderWay(j)' <=> WriteUnderWay(j)
        BY <3>1, <3>2 DEF WriteUnderWay
      <3>4. k \in kept' => v = "changed" /\ ~WriteUnderWay(k)
        BY <2>3 DEF Edit
      <3>5. odoo'[k] = v /\ \A j \in Ops \ {k} : odoo'[j] = odoo[j]
        BY <2>3 DEF Edit, TypeOK
      <3>6. kept \subseteq Ops
        BY DEF TypeOK
      <3> QED
        BY <3>2, <3>3, <3>4, <3>5, <3>6 DEF KeptInv
    <2>4. CASE Tick
      <3>1. \A w \in Workers : wk'[w].pc = wk[w].pc /\ wk'[w].k = wk[w].k
        BY <2>4, WorkerType DEF Tick, WorkerRecords
      <3>2. ASSUME NEW n \in pend' PROVE \E m \in pend : m.op = n.op
        <4>1. PICK m \in pend : n = [m EXCEPT !.left = m.left - 1]
          BY <2>4 DEF Tick
        <4> QED
          BY <4>1 DEF TypeOK, Requests
      <3> QED
        BY <2>4, <3>1, <3>2, NoNewWrite DEF Tick
    <2>5. CASE EditAround \/ RecalcQueue \/ UNCHANGED vars
      BY <2>5, NoNewWrite DEF EditAround, RecalcQueue, vars, odooVars, envVars
    <2> QED
      BY <2>1, <2>2, <2>3, <2>4, <2>5 DEF Next, Settled
  <1>3. KeptInv => ProtectedEdit
    BY DEF KeptInv, ProtectedEdit
  <1> QED
    BY <1>1, <1>2, <1>3, TypeCorrect, PTL DEF Spec

(* Together: what a job asks of Odoo is exclusive, in order, covered by    *)
(* its lease, and harmless to what others changed (_reserve_operation,     *)
(* _renew_operation_reservation, _perform_operation).                      *)
THEOREM WritesAreSafe == Spec => []SafeWrites
  <1>1. ExclusiveWrite /\ SafeOrder /\ LeaseCoversReservation /\ ProtectedEdit
        => SafeWrites
    BY DEF SafeWrites
  <1> QED
    BY <1>1, WritesExclude, WritesInOrder, ReservationBlocksClaim, EditsAreProtected, PTL
-----------------------------------------------------------------------------
(* What a job says of itself *)

(* A new job claims nothing. *)
LEMMA OutcomeInit == Init => OutcomeInv
  <1> SUFFICES ASSUME Init PROVE OutcomeInv
    OBVIOUS
  <1>1. /\ status = "planned" /\ prog.stage = 0 /\ prog.done = {} /\ audits = 0 /\ pend = {}
        /\ rest /\ target /\ \A k \in Ops : odoo[k] = "before"
    BY DEF Init, EmptyProgress
  <1>2. \A w \in Workers : wk[w].pc = "idle"
    BY DEF Init, Idle
  <1>3. \A w \in Workers : StageInv(w) /\ KnownInv(w)
    BY <1>2 DEF StageInv, KnownInv, DownstreamPCs, Current, Busy
  <1>4. AloneInv /\ PreflightProtects /\ FailureHasCause
    BY <1>1, <1>2 DEF AloneInv, PreflightProtects, FailureHasCause
  <1> QED
    BY <1>1, <1>3, <1>4 DEF OutcomeInv

(* Only the holder of the current attempt reads and writes the job.        *)
LEMMA OneCurrent ==
  ASSUME JobInv, NEW v \in Workers, NEW w \in Workers, Current(v), Current(w)
  PROVE  v = w /\ status \in Active
  BY DEF JobInv, FenceInv

(* An attempt ends.                                                        *)
LEMMA StopOutcome ==
  ASSUME TypeOK, TypeOK', JobInv, OutcomeInv, NEW w \in Workers, Stop(w),
         prog'.done = prog.done, prog'.stage = prog.stage, prog'.horizon = prog.horizon,
         UNCHANGED <<attempt, odoo, rest, target, pend, audits, edits, recalc>>,
         Current(w) \/ prog' = prog,
         status' = status \/ (Current(w) /\ status' = "failed"),
         \/ status' = status /\ reason' = reason
         \/ reason' \in {"invalid_plan", "attempt_limit"}
         \/ edits > 0,
         status' = "applying" => \A m \in pend : m.left <= left'
  PROVE  OutcomeInv'
  <1>1. wk'[w].pc = "idle" /\ \A v \in Workers \ {w} : wk'[v] = wk[v]
    BY IdleType, BecomeType DEF Stop, Idle
  <1>2. ASSUME NEW v \in Workers, Current(v)'
        PROVE  /\ Current(v) /\ wk'[v] = wk[v] /\ v # w
               /\ prog' = prog /\ status' = status
    <2>1. Current(v) /\ v # w /\ wk'[v] = wk[v]
      BY <1>1, <1>2 DEF Current, Busy
    <2>2. ~Current(w)
      BY <2>1, OneCurrent
    <2> QED
      BY <2>1, <2>2
  <1>3. \A v \in Workers : StageInv(v)' /\ KnownInv(v)'
    BY <1>2 DEF OutcomeInv, StageInv, KnownInv, DownstreamPCs
  <1>4. AloneInv' /\ FailureHasCause'
    BY DEF OutcomeInv, AloneInv, FailureHasCause
  <1>5. PreflightProtects'
    BY <1>1 DEF OutcomeInv, PreflightProtects
  <1>6. status' = "failed" \/ status' = status
    OBVIOUS
  <1>7. Current(w) => status \in Active
    BY OneCurrent
  <1> QED
    BY <1>3, <1>4, <1>5, <1>6, <1>7 DEF OutcomeInv, Active

(* A worker moves on; only the holder of the current attempt changes the   *)
(* job.                                                                    *)
LEMMA MoveOutcome ==
  ASSUME TypeOK, TypeOK', JobInv, OutcomeInv, NEW w \in Workers, NEW new \in WorkerStates,
         Become(w, new), Busy(w), new.att = wk[w].att, new.bad = wk[w].bad,
         UNCHANGED <<attempt, odoo, rest, target, edits, audits, reason>>,
         Current(w) \/ UNCHANGED <<status, prog, left, pend>>,
         Current(w) => status' \in Active,
         StageInv(w)', KnownInv(w)', AloneInv',
         new.pc \in {"reserve", "read", "write", "sent", "acked", "erred"} => new.bad = {},
         status' = "applying" => \A m \in pend' : m.left <= left',
         prog'.stage >= 2 => recalc' # "none"
  PROVE  OutcomeInv'
  <1>1. wk'[w] = new /\ \A v \in Workers \ {w} : wk'[v] = wk[v]
    BY BecomeType
  <1>2. ASSUME NEW v \in Workers, v # w PROVE StageInv(v)' /\ KnownInv(v)'
    <2>1. CASE Current(v)'
      <3>1. Current(v) /\ wk'[v] = wk[v]
        BY <1>1, <1>2, <2>1 DEF Current, Busy
      <3>2. ~Current(w)
        BY <1>2, <3>1, OneCurrent
      <3> QED
        BY <3>1, <3>2 DEF OutcomeInv, StageInv, KnownInv, DownstreamPCs
    <2>2. CASE ~Current(v)'
      BY <2>2 DEF StageInv, KnownInv, DownstreamPCs
    <2> QED
      BY <2>1, <2>2
  <1>3. PreflightProtects'
    BY <1>1 DEF OutcomeInv, PreflightProtects
  <1>4. Current(w) => status \in Active
    BY OneCurrent
  <1>5. FailureHasCause'
    BY <1>4 DEF OutcomeInv, FailureHasCause, Active
  <1>6. /\ status' = "planned" => pend' = {}
        /\ audits' = IF status' = "complete" THEN 1 ELSE 0
        /\ status' = "complete" => prog'.stage = 4
    BY <1>4 DEF OutcomeInv, Active
  <1> QED
    BY <1>2, <1>3, <1>5, <1>6 DEF OutcomeInv

(* The ways an attempt ends.                                               *)
LEMMA SupersededOutcome ==
  ASSUME TypeOK, TypeOK', JobInv, OutcomeInv, NEW w \in Workers, Superseded(w)
  PROVE  OutcomeInv'
  <1>1. /\ Stop(w)
        /\ UNCHANGED <<status, attempt, left, prog, reason, audits,
                       odoo, rest, target, pend, recalc, edits>>
    BY DEF Superseded, jobVars, odooVars, envVars
  <1>2. status' = "applying" => \A m \in pend : m.left <= left'
    BY <1>1 DEF OutcomeInv
  <1> QED
    BY <1>1, <1>2, StopOutcome

(* A job that fails records a cause that is there (_transition). *)
LEMMA FailOutcome ==
  ASSUME TypeOK, TypeOK', JobInv, OutcomeInv, NEW w \in Workers, NEW why, Current(w),
         Fail(w, why), why \in {"invalid_plan", "attempt_limit"} \/ edits > 0
  PROVE  OutcomeInv'
  <1>1. /\ Stop(w) /\ status' = "failed" /\ reason' = why
        /\ UNCHANGED <<attempt, prog, audits, odoo, rest, target, pend, recalc, edits>>
    BY DEF Fail, odooVars, envVars
  <1> QED
    BY <1>1, StopOutcome

(* _retry_or_fail: a retry waits until no request of the attempt is under
   way, and only the attempt cap makes it a failure. *)
LEMMA RetryOutcome ==
  ASSUME TypeOK, TypeOK', JobInv, OutcomeInv, NEW w \in Workers, NEW r \in 0..Lease,
         Busy(w), RetryOrFail(w, r),
         prog'.done = prog.done, prog'.stage = prog.stage, prog'.horizon = prog.horizon,
         Current(w) \/ prog' = prog,
         Current(w) /\ status = "applying" => \A m \in pend : m.left <= r
  PROVE  OutcomeInv'
  <1>1. Stop(w) /\ UNCHANGED <<attempt, odoo, rest, target, pend, audits, edits, recalc>>
    BY DEF RetryOrFail, odooVars
  <1>2. Owns(w) => Current(w)
    BY DEF Owns, Current
  <1>3. \A m \in pend : m.left \in Nat
    BY LeaseAssumption DEF TypeOK, Requests
  <1>4. CASE Owns(w) /\ Capped(w)
    <2>1. status' = "failed" /\ reason' = "attempt_limit"
      BY <1>4 DEF RetryOrFail
    <2> QED
      BY <1>1, <1>2, <1>4, <2>1, StopOutcome
  <1>5. CASE Owns(w) /\ ~Capped(w)
    <2>1. PICK d \in RetryDelays(w) : left' = Max2(d, r)
      BY <1>5 DEF RetryOrFail
    <2>2. d \in Nat /\ r \in Nat /\ r <= left'
      BY <2>1, WorkerType, LeaseAssumption DEF RetryDelays, WorkerRecords, Max2
    <2>3. status' = status /\ reason' = reason
      BY <1>5 DEF RetryOrFail
    <2>4. status' = "applying" => \A m \in pend : m.left <= left'
      BY <1>2, <1>3, <1>5, <2>2, <2>3 DEF TypeOK
    <2> QED
      BY <1>1, <2>3, <2>4, StopOutcome
  <1>6. CASE ~Owns(w)
    <2>1. UNCHANGED <<status, reason, left>>
      BY <1>6 DEF RetryOrFail
    <2>2. status' = "applying" => \A m \in pend : m.left <= left'
      BY <2>1 DEF OutcomeInv
    <2> QED
      BY <1>1, <2>1, <2>2, StopOutcome
  <1> QED
    BY <1>4, <1>5, <1>6

(* A recoverable error outside the loop is retried without a wait. *)
LEMMA RecoverableOutcome ==
  ASSUME TypeOK, TypeOK', JobInv, OutcomeInv, NEW w \in Workers, Busy(w), Recoverable(w),
         Current(w) /\ status = "applying" => pend = {}
  PROVE  OutcomeInv'
  <1>1. RetryOrFail(w, 0) /\ prog' = prog /\ 0 \in 0..Lease
    BY LeaseAssumption DEF Recoverable
  <1> QED
    BY <1>1, RetryOutcome

(* A recoverable error inside the loop keeps or renews the reservation,
   which bounds the wait. *)
LEMMA RecoverableInLoopOutcome ==
  ASSUME TypeOK, TypeOK', JobInv, OutcomeInv, NEW w \in Workers, Current(w),
         wk[w].pc \in LoopPCs, RecoverableInLoop(w)
  PROVE  OutcomeInv'
  <1>1. PICK r \in {prog.res.left, Lease} :
           prog' = [prog EXCEPT !.res.left = r] /\ RetryOrFail(w, r)
    BY DEF RecoverableInLoop
  <1>2. r \in 0..Lease /\ prog.res.left <= r /\ prog.res.left \in Nat /\ r \in Nat
    BY LeaseAssumption DEF TypeOK, Progress, Reservations
  <1>3. prog'.done = prog.done /\ prog'.stage = prog.stage /\ prog'.horizon = prog.horizon
    BY <1>1 DEF TypeOK, Progress, Reservations
  <1>4. \A m \in pend : m.left \in Nat /\ m.left <= prog.res.left
    BY LeaseAssumption DEF OutcomeInv, KnownInv, TypeOK, Requests
  <1>5. \A m \in pend : m.left <= r
    BY <1>2, <1>4
  <1>6. Busy(w)
    BY DEF Current
  <1> QED
    BY <1>1, <1>2, <1>3, <1>5, <1>6, RetryOutcome

(* A claim starts with the durable progress, when nothing is under way.    *)
LEMMA ClaimOutcome ==
  ASSUME TypeOK, TypeOK', JobInv, OutcomeInv, NEW w \in Workers, Claim(w)
  PROVE  OutcomeInv'
  <1> DEFINE new == [pc |-> "start", att |-> attempt + 1, lease |-> Lease,
                     st |-> status', cp |-> prog, k |-> 0,
                     bad |-> {k \in Ops : odoo[k] = "changed"}]
  <1>1. status' \in Active /\ (status' = "applying" => status \in {"planned", "applying"})
    BY DEF TypeOK, Claim, Claimable, Active
  <1>2. new \in WorkerStates
    BY <1>1, OpsAssumption, LeaseAssumption
       DEF TypeOK, WorkerStates, WorkerRecords, LoopPCs, PCs
  <1>3. wk'[w] = new /\ \A v \in Workers \ {w} : wk'[v] = wk[v]
    BY <1>2, BecomeType DEF Claim
  <1>4. /\ attempt' = attempt + 1 /\ attempt \in Nat /\ left' = Lease /\ prog' = prog
        /\ UNCHANGED <<odoo, rest, target, pend, audits, edits, reason, recalc>>
    BY DEF Claim, TypeOK, odooVars, envVars
  <1>5. \A v \in Workers \ {w} : ~Current(v)'
    BY <1>3, <1>4, WorkerType DEF Current, Busy, JobInv, FenceInv, WorkerRecords
  <1>6. status' = "applying" => pend = {}
    <2> SUFFICES ASSUME status' = "applying", NEW m \in pend PROVE FALSE
      OBVIOUS
    <2>1. CASE status = "planned"
      BY <2>1 DEF OutcomeInv
    <2>2. CASE status = "applying"
      <3>1. m.left <= left /\ m.left >= 1 /\ m.left \in Nat /\ left = 0
        BY <2>2, LeaseAssumption DEF OutcomeInv, JobInv, WriteInv, TypeOK, Requests, Claim, Claimable
      <3> QED
        BY <3>1
    <2> QED
      BY <1>1, <2>1, <2>2
  <1>7. StageInv(w)'
    BY <1>3, <1>4 DEF StageInv, DownstreamPCs
  <1>8. KnownInv(w)'
    <2>1. \A j \in new.bad : odoo[j] = "changed" /\ j \in Nat
      BY OpsAssumption DEF Ops
    <2>2. new.pc = "start" /\ new.k = 0
      OBVIOUS
    <2>3. "start" \notin LoopPCs
      BY DEF LoopPCs
    <2> HIDE DEF new
    <2> QED
      BY <1>3, <1>4, <1>6, <2>1, <2>2, <2>3 DEF KnownInv
  <1>9. \A v \in Workers : StageInv(v)' /\ KnownInv(v)'
    BY <1>5, <1>7, <1>8 DEF StageInv, KnownInv, DownstreamPCs
  <1>10. AloneInv' /\ FailureHasCause'
    BY <1>1, <1>4 DEF OutcomeInv, AloneInv, FailureHasCause, Active
  <1>11. PreflightProtects'
    BY <1>3 DEF OutcomeInv, PreflightProtects
  <1>12. /\ audits' = IF status' = "complete" THEN 1 ELSE 0
         /\ status' # "complete" /\ status' # "planned"
    BY <1>1, <1>4 DEF OutcomeInv, Claim, Claimable, Active
  <1>13. prog'.stage >= 2 => recalc' # "none"
    BY <1>4 DEF OutcomeInv
  <1> QED
    BY <1>4, <1>6, <1>9, <1>10, <1>11, <1>12, <1>13 DEF OutcomeInv

(* Validation, with the frozen horizon on record or recorded now.          *)
LEMMA StartOutcome ==
  ASSUME TypeOK, TypeOK', JobInv, OutcomeInv, NEW w \in Workers, Start(w)
  PROVE  OutcomeInv'
  <1> DEFINE cp == [wk[w].cp EXCEPT !.horizon = TRUE]
             next == IF wk[w].st = "applying" THEN "preflight" ELSE "verify"
             new == [wk[w] EXCEPT !.cp = cp, !.pc = next]
             new2 == [wk[w] EXCEPT !.pc = next]
  <1>0. Busy(w) /\ wk[w].pc = "start"
    BY DEF Start, Busy
  <1>1. /\ next \in PCs /\ next \notin LoopPCs /\ next \in {"preflight", "verify"}
        /\ next = "preflight" => wk[w].st = "applying"
        /\ cp \in Progress /\ cp.done = wk[w].cp.done /\ cp.stage = wk[w].cp.stage /\ cp.horizon
    BY WorkerType DEF PCs, LoopPCs, WorkerRecords, Progress
  <1>2. new \in WorkerStates /\ new2 \in WorkerStates
    BY <1>1, WorkerType DEF WorkerStates, WorkerRecords
  <1>3. /\ new.att = wk[w].att /\ new.bad = wk[w].bad /\ new.cp = cp /\ new.pc = next
        /\ new.k = wk[w].k
        /\ new2.att = wk[w].att /\ new2.bad = wk[w].bad /\ new2.cp = wk[w].cp
        /\ new2.pc = next /\ new2.k = wk[w].k
    BY WorkerType DEF WorkerRecords
  <1>4. Current(w) => /\ status \in Active /\ wk[w].st = status
                      /\ wk[w].cp.done = prog.done /\ wk[w].cp.stage = prog.stage
                      /\ wk[w].cp.horizon = prog.horizon /\ wk[w].k = 0
                      /\ status = "applying" => /\ pend = {}
                                                /\ \A j \in wk[w].bad : odoo[j] = "changed" /\ j >= wk[w].k
    BY <1>0 DEF JobInv, FenceInv, OutcomeInv, StageInv, KnownInv
  <1> HIDE DEF cp, next, new, new2
  <1>5. CASE Owns(w) /\ Fail(w, "invalid_plan")
    BY <1>0, <1>5, FailOutcome DEF Owns, Current
  <1>6. CASE Superseded(w)
    BY <1>6, SupersededOutcome
  <1>7. CASE Recoverable(w)
    BY <1>0, <1>4, <1>7, RecoverableOutcome
  <1>8. CASE Become(w, new2) /\ UNCHANGED <<jobVars, odooVars, envVars>>
    <2>1. /\ wk'[w] = new2
          /\ UNCHANGED <<status, attempt, left, prog, reason, audits, odoo, rest, target,
                         pend, recalc, edits>>
      BY <1>2, <1>8, BecomeType DEF jobVars, odooVars, envVars
    <2>2. Current(w)' => Current(w)
      BY <1>0, <1>3, <2>1 DEF Current
    <2>3. StageInv(w)' /\ KnownInv(w)'
      BY <1>1, <1>3, <1>4, <2>1, <2>2 DEF StageInv, KnownInv, DownstreamPCs
    <2>4. AloneInv' /\ (status' = "applying" => \A m \in pend' : m.left <= left')
          /\ (prog'.stage >= 2 => recalc' # "none")
      BY <2>1 DEF OutcomeInv, AloneInv
    <2>5. new2.pc \notin {"reserve", "read", "write", "sent", "acked", "erred"}
      BY <1>1, <1>3
    <2> QED
      BY <1>0, <1>2, <1>3, <1>4, <1>8, <2>1, <2>3, <2>4, <2>5, MoveOutcome
  <1>9. CASE /\ Owns(w)
             /\ prog' = cp
             /\ left' = wk[w].lease
             /\ Become(w, new)
             /\ UNCHANGED <<status, attempt, reason, audits, odooVars, envVars>>
    <2>1. Current(w)
      BY <1>0, <1>9 DEF Owns, Current
    <2>2. /\ wk'[w] = new
          /\ UNCHANGED <<status, attempt, reason, audits, odoo, rest, target, pend, recalc, edits>>
      BY <1>2, <1>9, BecomeType DEF odooVars, envVars
    <2>3. StageInv(w)' /\ KnownInv(w)'
      BY <1>1, <1>3, <1>4, <1>9, <2>1, <2>2 DEF StageInv, KnownInv, DownstreamPCs
    <2>4. AloneInv' /\ (status' = "applying" => \A m \in pend' : m.left <= left')
          /\ (prog'.stage >= 2 => recalc' # "none")
      BY <1>1, <1>4, <1>9, <2>1, <2>2 DEF OutcomeInv, AloneInv
    <2>5. new.pc \notin {"reserve", "read", "write", "sent", "acked", "erred"}
      BY <1>1, <1>3
    <2> QED
      BY <1>0, <1>2, <1>3, <1>4, <1>9, <2>1, <2>2, <2>3, <2>4, <2>5, MoveOutcome
  <1> QED
    BY <1>5, <1>6, <1>7, <1>8, <1>9 DEF Start, Goto, new, new2, cp, next

(* A preflight read: the rows that were changed at the claim lie ahead.    *)
LEMMA PreflightOutcome ==
  ASSUME TypeOK, TypeOK', JobInv, OutcomeInv, NEW w \in Workers, Preflight(w)
  PROVE  OutcomeInv'
  <1> DEFINE k == wk[w].k
             new == IF k < NumOps THEN [wk[w] EXCEPT !.k = k + 1]
                                  ELSE [wk[w] EXCEPT !.pc = "reserve"]
  <1>0. Busy(w) /\ wk[w].pc = "preflight" /\ "preflight" \notin LoopPCs /\ "reserve" \notin LoopPCs
    BY DEF Preflight, Busy, LoopPCs
  <1>1. Owns(w) => Current(w)
    BY <1>0 DEF Owns, Current
  <1>2. Current(w) => /\ status = "applying" /\ pend = {}
                      /\ wk[w].cp.stage = prog.stage /\ wk[w].cp.horizon = prog.horizon
                      /\ \A j \in wk[w].bad : odoo[j] = "changed" /\ j >= k
    BY <1>0 DEF OutcomeInv, StageInv, KnownInv, DownstreamPCs
  <1>3. CASE Owns(w) /\ ~PreflightFine(k) /\ Fail(w, "source_changed")
    <2>1. edits # 0
      <3> SUFFICES ASSUME edits = 0 PROVE PreflightFine(k)
        BY <1>3
      <3>1. rest /\ target /\ \A j \in Ops : odoo[j] # "changed"
        BY DEF OutcomeInv, AloneInv
      <3>2. k \in 0..NumOps
        BY WorkerType DEF WorkerRecords
      <3>3. k # 0 => k \in Ops
        BY <3>2, OpsAssumption DEF Ops
      <3> QED
        BY <3>1, <3>3 DEF PreflightFine, SourceState
    <2>2. edits > 0
      BY <2>1, BoundsAssumption DEF TypeOK
    <2> QED
      BY <1>1, <1>3, <2>2, FailOutcome
  <1>4. CASE Superseded(w)
    BY <1>4, SupersededOutcome
  <1>5. CASE Recoverable(w)
    BY <1>0, <1>2, <1>5, RecoverableOutcome
  <1>6. CASE Owns(w) /\ PreflightFine(k) /\ Heartbeat /\ Become(w, new) /\ UNCHANGED <<odooVars, envVars>>
    <2>1. /\ new \in WorkerStates
          /\ new.att = wk[w].att /\ new.cp = wk[w].cp /\ new.bad = wk[w].bad
          /\ \/ new.pc = "preflight" /\ k < NumOps /\ new.k = k + 1
             \/ new.pc = "reserve" /\ ~(k < NumOps)
      BY <1>0, WorkerType, OpsAssumption DEF WorkerStates, WorkerRecords, PCs
    <2>2. k \in 0..NumOps /\ NumOps \in Nat /\ wk[w].bad \subseteq Ops
      BY WorkerType, OpsAssumption DEF WorkerRecords
    <2>3. \A j \in wk[w].bad : odoo[j] = "changed" /\ j >= k + 1
      <3> SUFFICES ASSUME NEW j \in wk[w].bad PROVE odoo[j] = "changed" /\ j >= k + 1
        OBVIOUS
      <3>1. j \in Ops /\ j \in Nat /\ j > 0 /\ odoo[j] = "changed" /\ j >= k
        BY <1>1, <1>2, <1>6, <2>2, OpsAssumption DEF Ops
      <3>2. j # k
        BY <1>6, <3>1 DEF PreflightFine, SourceState
      <3> QED
        BY <2>2, <3>1, <3>2
    <2>4. new.pc = "reserve" => wk[w].bad = {}
      <3> SUFFICES ASSUME new.pc = "reserve", NEW j \in wk[w].bad PROVE FALSE
        OBVIOUS
      <3>1. j >= k + 1 /\ j \in 1..NumOps /\ ~(k < NumOps)
        BY <2>1, <2>2, <2>3 DEF Ops
      <3> QED
        BY <2>2, <3>1
    <2> HIDE DEF new, k
    <2>5. /\ wk'[w] = new /\ left' = Lease
          /\ UNCHANGED <<status, attempt, prog, reason, audits, odoo, rest, target, pend, recalc, edits>>
      BY <1>6, <2>1, BecomeType DEF Heartbeat, odooVars, envVars
    <2>6. StageInv(w)' /\ KnownInv(w)'
      BY <1>0, <1>1, <1>2, <1>6, <2>1, <2>3, <2>5 DEF StageInv, KnownInv, DownstreamPCs
    <2>7. AloneInv' /\ (status' = "applying" => \A m \in pend' : m.left <= left')
          /\ (prog'.stage >= 2 => recalc' # "none")
      BY <1>1, <1>2, <1>6, <2>5 DEF OutcomeInv, AloneInv
    <2>8. new.pc \in {"reserve", "read", "write", "sent", "acked", "erred"} => new.bad = {}
      BY <2>1, <2>4
    <2>9. status' \in Active
      BY <1>1, <1>2, <1>6, <2>5 DEF Active
    <2> QED
      BY <1>0, <1>1, <1>6, <2>1, <2>5, <2>6, <2>7, <2>8, <2>9, MoveOutcome
  <1> QED
    BY <1>3, <1>4, <1>5, <1>6 DEF Preflight

(* The private copy of the holder of the current attempt is up to date.    *)
LEMMA KnowsStage ==
  ASSUME OutcomeInv, NEW w \in Workers, Current(w)
  PROVE  wk[w].cp.stage = prog.stage /\ wk[w].cp.horizon = prog.horizon
  BY DEF OutcomeInv, StageInv

(* A reservation for the next operation; nothing of the job outlives it.   *)
LEMMA ReserveOutcome ==
  ASSUME TypeOK, TypeOK', JobInv, OutcomeInv, NEW w \in Workers, Reserve(w)
  PROVE  OutcomeInv'
  <1>0. Busy(w) /\ wk[w].pc = "reserve" /\ wk[w].bad = {}
    BY DEF Reserve, Busy, OutcomeInv, PreflightProtects
  <1>1. CASE Superseded(w)
    BY <1>1, SupersededOutcome
  <1>2. CASE ~Superseded(w)
    <2>1. PICK k \in Ops :
            /\ IsNextOp(k, wk[w].cp)
            /\ OwnsApplying(w)
            /\ prog' = [prog EXCEPT !.res = [op |-> k, att |-> wk[w].att, left |-> Lease]]
            /\ left' = Lease
            /\ Become(w, [wk[w] EXCEPT !.pc = "read", !.k = k])
            /\ UNCHANGED <<status, attempt, reason, audits, odooVars, envVars>>
      BY <1>2, Zenon DEF Reserve
    <2> DEFINE new == [wk[w] EXCEPT !.pc = "read", !.k = k]
    <2>2. /\ new \in WorkerStates /\ new.att = wk[w].att /\ new.bad = wk[w].bad
          /\ new.cp = wk[w].cp /\ new.pc = "read"
      <3>1. k \in 0..NumOps
        BY OpsAssumption DEF Ops
      <3> QED
        BY <3>1, WorkerType DEF WorkerStates, WorkerRecords, PCs
    <2>3. Current(w) /\ status = "applying" /\ Become(w, new)
      BY <1>0, <2>1 DEF OwnsApplying, Current
    <2> HIDE DEF new
    <2>4. /\ wk'[w] = new
          /\ UNCHANGED <<status, attempt, reason, audits, odoo, rest, target, pend, recalc, edits>>
      BY <2>1, <2>2, <2>3, BecomeType DEF odooVars, envVars
    <2>5. /\ prog'.stage = prog.stage /\ prog'.horizon = prog.horizon
          /\ prog'.done = prog.done /\ prog'.res.left = Lease
      BY <2>1 DEF TypeOK, Progress
    <2>6. \A m \in pend : m.left <= Lease
      BY LeaseAssumption DEF TypeOK, Requests
    <2>7. StageInv(w)' /\ KnownInv(w)'
      <3>1. wk[w].cp.stage = prog.stage /\ wk[w].cp.horizon = prog.horizon
        BY <2>3, KnowsStage
      <3> QED
        BY <1>0, <2>2, <2>4, <2>5, <2>6, <3>1 DEF StageInv, KnownInv, DownstreamPCs
    <2>8. AloneInv' /\ (status' = "applying" => \A m \in pend' : m.left <= left')
          /\ (prog'.stage >= 2 => recalc' # "none")
      BY <2>1, <2>4, <2>5, <2>6 DEF OutcomeInv, AloneInv
    <2>9. status' \in Active /\ new.bad = {}
      BY <1>0, <2>2, <2>3, <2>4 DEF Active
    <2> QED
      BY <1>0, <2>2, <2>3, <2>4, <2>7, <2>8, <2>9, MoveOutcome
  <1> QED
    BY <1>1, <1>2

(* Verification may find requests that somebody raced with.                *)
LEMMA FinishOperationsOutcome ==
  ASSUME TypeOK, TypeOK', JobInv, OutcomeInv, NEW w \in Workers, FinishOperations(w)
  PROVE  OutcomeInv'
  <1> DEFINE new == [wk[w] EXCEPT !.pc = "verify", !.st = "verifying"]
  <1>0. Busy(w) /\ wk[w].pc = "reserve"
    BY DEF FinishOperations, Busy
  <1>1. CASE Superseded(w)
    BY <1>1, SupersededOutcome
  <1>2. CASE ~Superseded(w)
    <2>1. /\ Owns(w) /\ status' = "verifying" /\ Become(w, new)
          /\ UNCHANGED <<attempt, prog, reason, audits, odooVars, envVars>>
      BY <1>2 DEF FinishOperations
    <2>2. /\ new \in WorkerStates /\ new.att = wk[w].att /\ new.bad = wk[w].bad
          /\ new.cp = wk[w].cp /\ new.pc = "verify" /\ "verify" \notin LoopPCs
      BY WorkerType DEF WorkerStates, WorkerRecords, PCs, LoopPCs, Active
    <2>3. Current(w)
      BY <1>0, <2>1 DEF Owns, Current
    <2> HIDE DEF new
    <2>4. /\ wk'[w] = new
          /\ UNCHANGED <<attempt, prog, reason, audits, odoo, rest, target, pend, recalc, edits>>
      BY <2>1, <2>2, BecomeType DEF odooVars, envVars
    <2>5. StageInv(w)' /\ KnownInv(w)'
      BY <2>1, <2>2, <2>3, <2>4 DEF OutcomeInv, StageInv, KnownInv, DownstreamPCs
    <2>6. AloneInv' /\ (prog'.stage >= 2 => recalc' # "none")
      BY <2>4 DEF OutcomeInv, AloneInv
    <2>7. status' \in Active
      BY <2>1 DEF Active
    <2> QED
      BY <1>0, <2>1, <2>2, <2>3, <2>4, <2>5, <2>6, <2>7, MoveOutcome
  <1> QED
    BY <1>1, <1>2

(* A renewal and a move inside the loop.                                   *)
LEMMA RenewOutcome ==
  ASSUME TypeOK, TypeOK', JobInv, OutcomeInv, NEW w \in Workers, HoldsReservation(w),
         wk[w].pc \in {"read", "write", "acked", "erred"},
         Renew, NEW pc \in {"write", "sent", "confirm"}, Goto(w, pc),
         UNCHANGED <<odoo, rest, target, envVars>>,
         pc = "confirm" => odoo[wk[w].k] = "after"
  PROVE  OutcomeInv'
  <1> DEFINE new == [wk[w] EXCEPT !.pc = pc]
  <1>0. wk[w].pc \in LoopPCs /\ wk[w].bad = {} /\ pc \in LoopPCs
    BY DEF LoopPCs, OutcomeInv, PreflightProtects
  <1>1. Current(w) /\ status = "applying" /\ wk[w].k \in Ops
    BY <1>0, HoldsCurrent
  <1>2. /\ new \in WorkerStates /\ new.att = wk[w].att /\ new.bad = wk[w].bad
        /\ new.cp = wk[w].cp /\ new.pc = pc /\ new.k = wk[w].k
    BY <1>1, WorkerType DEF WorkerStates, WorkerRecords, PCs
  <1>3. /\ prog'.done = prog.done /\ prog'.stage = prog.stage /\ prog'.horizon = prog.horizon
        /\ prog'.res.left = Lease /\ left' = Lease
        /\ UNCHANGED <<status, attempt, reason, audits>>
    BY DEF Renew, TypeOK, Progress, Reservations
  <1>4. Become(w, new) /\ Busy(w)
    BY <1>1 DEF Goto, Current
  <1> HIDE DEF new
  <1>5. wk'[w] = new /\ UNCHANGED <<odoo, rest, target, recalc, edits>>
    BY <1>2, <1>4, BecomeType DEF envVars
  <1>6. \A m \in pend' : m.left <= Lease
    BY LeaseAssumption DEF TypeOK, Requests
  <1>7. StageInv(w)' /\ KnownInv(w)'
    BY <1>0, <1>1, <1>2, <1>3, <1>5, <1>6 DEF OutcomeInv, StageInv, KnownInv, DownstreamPCs
  <1>8. AloneInv' /\ (status' = "applying" => \A m \in pend' : m.left <= left')
        /\ (prog'.stage >= 2 => recalc' # "none")
    BY <1>3, <1>5, <1>6 DEF OutcomeInv, AloneInv
  <1>9. status' \in Active /\ new.bad = {}
    BY <1>0, <1>1, <1>2, <1>3 DEF Active
  <1> QED
    BY <1>1, <1>2, <1>3, <1>4, <1>5, <1>7, <1>8, <1>9, MoveOutcome

(* A row that is not as planned was edited by somebody.                    *)
LEMMA ChangedByOthers ==
  ASSUME TypeOK, OutcomeInv, NEW k \in Ops, odoo[k] = "changed"
  PROVE  edits > 0
  <1>1. edits # 0
    BY DEF OutcomeInv, AloneInv
  <1> QED
    BY <1>1, BoundsAssumption DEF TypeOK

(* The guard read and the request.                                         *)
LEMMA ReadWriteOutcome ==
  ASSUME TypeOK, TypeOK', JobInv, OutcomeInv, NEW w \in Workers, Read(w) \/ Write(w)
  PROVE  OutcomeInv'
  <1>0. wk[w].pc \in {"read", "write"} /\ wk[w].pc \in LoopPCs
    BY DEF Read, Write, LoopPCs
  <1>1. CASE Superseded(w)
    BY <1>1, SupersededOutcome
  <1>2. CASE HoldsReservation(w) /\ SourceState(wk[w].k) = "changed" /\ Fail(w, "source_changed")
    BY <1>0, <1>2, HoldsCurrent, ChangedByOthers, FailOutcome DEF SourceState
  <1>3. CASE HoldsReservation(w) /\ RecoverableInLoop(w)
    BY <1>0, <1>3, HoldsCurrent, RecoverableInLoopOutcome
  <1>4. CASE /\ HoldsReservation(w)
             /\ Renew
             /\ Goto(w, IF SourceState(wk[w].k) = "after" THEN "confirm" ELSE "write")
             /\ UNCHANGED <<odooVars, envVars>>
    BY <1>0, <1>4, RenewOutcome DEF SourceState, odooVars
  <1>5. CASE /\ HoldsReservation(w)
             /\ Renew
             /\ Goto(w, "sent")
             /\ UNCHANGED <<odoo, rest, target, envVars>>
    BY <1>0, <1>5, RenewOutcome
  <1> QED
    BY <1>1, <1>2, <1>3, <1>4, <1>5 DEF Read, Write

(* The read-back.                                                          *)
LEMMA ReadBackOutcome ==
  ASSUME TypeOK, TypeOK', JobInv, OutcomeInv, NEW w \in Workers, ReadBack(w)
  PROVE  OutcomeInv'
  <1>0. wk[w].pc \in {"acked", "erred"} /\ wk[w].pc \in LoopPCs /\ Busy(w)
    BY DEF ReadBack, LoopPCs, Busy
  <1>1. CASE Superseded(w)
    BY <1>1, SupersededOutcome
  <1>2. CASE HoldsReservation(w) /\ SourceState(wk[w].k) = "changed" /\ Fail(w, "source_changed")
    BY <1>0, <1>2, HoldsCurrent, ChangedByOthers, FailOutcome DEF SourceState
  <1>3. CASE HoldsReservation(w) /\ RecoverableInLoop(w)
    BY <1>0, <1>3, HoldsCurrent, RecoverableInLoopOutcome
  <1>4. CASE /\ HoldsReservation(w) /\ SourceState(wk[w].k) = "after"
             /\ Renew /\ Goto(w, "confirm") /\ UNCHANGED <<odooVars, envVars>>
    BY <1>0, <1>4, RenewOutcome DEF SourceState, odooVars
  <1>5. CASE /\ HoldsReservation(w)
             /\ prog' = [prog EXCEPT !.res.left = Lease]
             /\ RetryOrFail(w, Lease)
    <2>1. Lease \in 0..Lease /\ \A m \in pend : m.left <= Lease
      BY LeaseAssumption DEF TypeOK, Requests
    <2>2. prog'.done = prog.done /\ prog'.stage = prog.stage /\ prog'.horizon = prog.horizon
      BY <1>5 DEF TypeOK, Progress, Reservations
    <2>3. Current(w)
      BY <1>0, <1>5, HoldsCurrent
    <2> QED
      BY <1>0, <1>5, <2>1, <2>2, <2>3, RetryOutcome
  <1> QED
    BY <1>1, <1>2, <1>3, <1>4, <1>5 DEF ReadBack

(* What is confirmed was made.                                             *)
LEMMA ConfirmOutcome ==
  ASSUME TypeOK, TypeOK', JobInv, OutcomeInv, NEW w \in Workers, Confirm(w)
  PROVE  OutcomeInv'
  <1> DEFINE cp == [wk[w].cp EXCEPT !.done = wk[w].cp.done \cup {wk[w].k}]
             new == [wk[w] EXCEPT !.pc = "reserve", !.k = 0, !.cp = cp]
  <1>0. /\ wk[w].pc = "confirm" /\ "confirm" \in LoopPCs /\ "reserve" \notin LoopPCs
        /\ "reserve" \in PCs /\ 0 \in 0..NumOps
    BY OpsAssumption DEF Confirm, LoopPCs, PCs
  <1>1. CASE Superseded(w)
    BY <1>1, SupersededOutcome
  <1>2. CASE ~Superseded(w)
    <2>1. /\ HoldsReservation(w)
          /\ prog' = [prog EXCEPT !.res = NoRes, !.done = prog.done \cup {wk[w].k}]
          /\ left' = Max2(wk[w].lease, prog.res.left)
          /\ Become(w, new)
          /\ UNCHANGED <<status, attempt, reason, audits, odooVars, envVars>>
      BY <1>2 DEF Confirm
    <2>2. Current(w) /\ Busy(w) /\ status = "applying" /\ wk[w].k \in Ops
      BY <1>0, <2>1, HoldsCurrent DEF Current
    <2>3. cp \in Progress /\ cp.stage = wk[w].cp.stage /\ cp.horizon = wk[w].cp.horizon
      BY <2>2, WorkerType DEF WorkerRecords, Progress
    <2>4. /\ new \in WorkerRecords /\ new.att = wk[w].att /\ new.bad = wk[w].bad
          /\ new.cp = cp /\ new.pc = "reserve"
      BY <1>0, <2>3, WorkerType DEF WorkerRecords
    <2>5. new \in WorkerStates
      BY <1>0, <2>4 DEF WorkerStates
    <2> HIDE DEF new, cp
    <2>6. /\ wk'[w] = new
          /\ UNCHANGED <<status, attempt, reason, audits, odoo, rest, target, pend, recalc, edits>>
      BY <2>1, <2>5, BecomeType DEF odooVars, envVars
    <2>7. /\ prog'.stage = prog.stage /\ prog'.horizon = prog.horizon
          /\ prog'.done = prog.done \cup {wk[w].k}
      BY <2>1 DEF TypeOK, Progress
    <2>8. StageInv(w)' /\ KnownInv(w)'
      BY <1>0, <2>2, <2>3, <2>4, <2>6, <2>7 DEF OutcomeInv, StageInv, KnownInv, DownstreamPCs
    <2>9. AloneInv'
      BY <1>0, <2>2, <2>6, <2>7 DEF OutcomeInv, KnownInv, AloneInv
    <2>10. \A m \in pend : m.left <= left'
      <3>1. \A m \in pend : m.left \in Nat /\ m.left <= prog.res.left
        BY <1>0, <2>2, LeaseAssumption DEF OutcomeInv, KnownInv, TypeOK, Requests
      <3>2. prog.res.left \in Nat /\ wk[w].lease \in Nat
        BY WorkerType, LeaseAssumption DEF TypeOK, Progress, Reservations, WorkerRecords
      <3>3. prog.res.left <= left' /\ left' \in Nat
        BY <2>1, <3>2 DEF Max2
      <3> QED
        BY <3>1, <3>2, <3>3
    <2>11. prog'.stage >= 2 => recalc' # "none"
      BY <2>6, <2>7 DEF OutcomeInv
    <2>12. status' \in Active /\ new.bad = {}
      BY <1>0, <2>2, <2>4, <2>6 DEF Active, OutcomeInv, KnownInv
    <2> QED
      BY <2>1, <2>2, <2>4, <2>5, <2>6, <2>8, <2>9, <2>10, <2>11, <2>12, MoveOutcome
  <1> QED
    BY <1>1, <1>2

(* A time-out or a crash of a worker.                                      *)
LEMMA TimeOutOutcome ==
  ASSUME TypeOK, TypeOK', JobInv, OutcomeInv, NEW w \in Workers, TimeOut(w) \/ Crash(w)
  PROVE  OutcomeInv'
  <1>0. UNCHANGED <<status, attempt, left, prog, reason, audits, odoo, rest, target,
                    pend, recalc, edits>>
    BY DEF TimeOut, Crash, jobVars, odooVars
  <1>1. CASE Crash(w)
    <2>1. status' = "applying" => \A m \in pend : m.left <= left'
      BY <1>0 DEF OutcomeInv
    <2>2. Stop(w)
      BY <1>1 DEF Crash
    <2> QED
      BY <1>0, <2>1, <2>2, StopOutcome
  <1>2. CASE TimeOut(w)
    <2> DEFINE new == [wk[w] EXCEPT !.pc = "erred"]
    <2>1. /\ new \in WorkerStates /\ new.att = wk[w].att /\ new.bad = wk[w].bad
          /\ new.cp = wk[w].cp /\ new.pc = "erred" /\ new.k = wk[w].k
          /\ wk[w].pc = "sent" /\ Busy(w) /\ Become(w, new)
      BY <1>2, WorkerType DEF TimeOut, WorkerStates, WorkerRecords, PCs, LoopPCs, Busy, Goto
    <2> HIDE DEF new
    <2>2. wk'[w] = new /\ "sent" \in LoopPCs /\ "erred" \notin DownstreamPCs
      BY <2>1, BecomeType DEF LoopPCs, DownstreamPCs
    <2>3. Current(w)' => Current(w)
      BY <1>0, <2>1, <2>2 DEF Current
    <2>4. StageInv(w)' /\ KnownInv(w)'
      <3>1. Current(w) => /\ wk[w].cp.stage = prog.stage /\ wk[w].cp.horizon = prog.horizon
                          /\ wk[w].bad = {} /\ \A m \in pend : m.left <= prog.res.left
        BY <2>1, <2>2 DEF OutcomeInv, StageInv, KnownInv
      <3> QED
        BY <1>0, <2>1, <2>2, <2>3, <3>1 DEF StageInv, KnownInv
    <2>5. AloneInv' /\ (status' = "applying" => \A m \in pend' : m.left <= left')
          /\ (prog'.stage >= 2 => recalc' # "none")
      BY <1>0 DEF OutcomeInv, AloneInv
    <2>6. new.bad = {} /\ (Current(w) => status' \in Active)
      BY <1>0, <2>1, OneCurrent DEF OutcomeInv, PreflightProtects
    <2> QED
      BY <1>0, <2>1, <2>4, <2>5, <2>6, MoveOutcome
  <1> QED
    BY <1>1, <1>2

(* Odoo decides a request: the rows only become as planned.                *)
LEMMA LandOutcome ==
  ASSUME TypeOK, TypeOK', JobInv, OutcomeInv, NEW m \in pend, Land(m) \/ Lose(m)
  PROVE  OutcomeInv'
  <1>1. PICK pc \in {"acked", "erred"} : Answer(m, pc)
    BY DEF Land, Lose
  <1>2. /\ UNCHANGED <<status, attempt, left, prog, reason, audits, rest, target, recalc, edits>>
        /\ pend' = pend \ {m}
    BY DEF Land, Lose, jobVars, envVars
  <1>3. \A k \in Ops : odoo'[k] = odoo[k] \/ odoo'[k] = "after"
    BY DEF Land, Lose, TypeOK
  <1>4. \A v \in Workers : /\ wk'[v].att = wk[v].att /\ wk'[v].bad = wk[v].bad
                           /\ wk'[v].cp = wk[v].cp /\ wk'[v].k = wk[v].k
                           /\ \/ wk'[v].pc = wk[v].pc
                              \/ wk[v].pc = "sent" /\ wk'[v].pc \in {"acked", "erred"}
    BY <1>1, WorkerType DEF Answer, WorkerRecords
  <1>5. ASSUME NEW v \in Workers PROVE StageInv(v)' /\ KnownInv(v)'
    <2>1. Current(v)' => Current(v)
      BY <1>2, <1>4 DEF Current, Busy
    <2>2. StageInv(v) /\ KnownInv(v)
      BY DEF OutcomeInv
    <2>3. StageInv(v)'
      BY <1>2, <1>4, <2>1, <2>2 DEF StageInv, DownstreamPCs
    <2>4. wk[v].pc = "confirm" => wk[v].k \in Ops
      BY WorkerType DEF LoopPCs
    <2>5. KnownInv(v)'
      <3>1. CASE wk'[v].pc = wk[v].pc
        BY <1>2, <1>3, <1>4, <2>1, <2>2, <2>4, <3>1 DEF KnownInv
      <3>2. CASE wk[v].pc = "sent" /\ wk'[v].pc \in {"acked", "erred"}
        BY <1>2, <1>4, <2>1, <2>2, <3>2 DEF KnownInv, LoopPCs
      <3> QED
        BY <1>4, <3>1, <3>2
    <2> QED
      BY <2>3, <2>5
  <1>6. AloneInv'
    <2>1. prog.done \subseteq Ops
      BY DEF TypeOK, Progress
    <2> QED
      BY <1>2, <1>3, <2>1 DEF OutcomeInv, AloneInv
  <1>7. PreflightProtects'
    BY <1>4 DEF OutcomeInv, PreflightProtects
  <1>8. FailureHasCause'
    BY <1>2 DEF OutcomeInv, FailureHasCause
  <1> QED
    BY <1>2, <1>5, <1>6, <1>7, <1>8 DEF OutcomeInv

(* Verification fails a job only for what somebody else did.               *)
LEMMA VerifyOutcome ==
  ASSUME TypeOK, TypeOK', JobInv, OutcomeInv, NEW w \in Workers, Verify(w)
  PROVE  OutcomeInv'
  <1> DEFINE pc == Downstream(wk[w].cp.stage)
             new == [wk[w] EXCEPT !.pc = pc, !.st = "recalculating"]
  <1>0. Busy(w) /\ wk[w].pc = "verify" /\ "verify" \notin LoopPCs
    BY DEF Verify, Busy, LoopPCs
  <1>1. Owns(w) => Current(w)
    BY <1>0 DEF Owns, Current
  <1>2. Current(w) => prog.done = Ops /\ status # "applying"
    BY <1>0 DEF JobInv, FenceInv, LeaseInv, Active
  <1>3. CASE Superseded(w)
    BY <1>3, SupersededOutcome
  <1>4. CASE Owns(w) /\ ~Verified /\ Fail(w, "mismatch")
    <2>1. edits # 0
      BY <1>1, <1>2, <1>4 DEF Verified, OutcomeInv, AloneInv
    <2>2. edits > 0
      BY <2>1, BoundsAssumption DEF TypeOK
    <2> QED
      BY <1>1, <1>4, <2>2, FailOutcome
  <1>5. CASE Owns(w) /\ Recoverable(w)
    BY <1>0, <1>1, <1>2, <1>5, RecoverableOutcome
  <1>6. CASE /\ Owns(w) /\ Become(w, new)
             /\ status' = "recalculating"
             /\ UNCHANGED <<attempt, prog, reason, audits, odooVars, envVars>>
    <2>1. /\ pc \in {"mirror", "enqueue", "recalc"} /\ pc \in PCs
          /\ pc \notin LoopPCs /\ "recalculating" \in Active
      BY DEF Downstream, PCs, LoopPCs, Active
    <2>2. /\ new \in WorkerStates /\ new.att = wk[w].att /\ new.bad = wk[w].bad
          /\ new.cp = wk[w].cp /\ new.pc = pc
      BY <2>1, WorkerType DEF WorkerStates, WorkerRecords, Active
    <2>3. wk[w].cp.stage = prog.stage /\ wk[w].cp.horizon = prog.horizon /\ prog.stage \in 0..4
      BY <1>1, <1>6, KnowsStage DEF TypeOK, Progress
    <2>4. /\ pc = "mirror" => prog.stage = 0
          /\ pc = "enqueue" => prog.stage = 1
          /\ pc = "recalc" => prog.stage >= 2
      BY <2>3 DEF Downstream
    <2> HIDE DEF new, pc
    <2>5. /\ wk'[w] = new
          /\ UNCHANGED <<attempt, prog, reason, audits, odoo, rest, target, pend, recalc, edits>>
      BY <1>6, <2>2, BecomeType DEF odooVars, envVars
    <2>6. StageInv(w)' /\ KnownInv(w)'
      BY <1>6, <2>1, <2>2, <2>3, <2>4, <2>5 DEF StageInv, KnownInv
    <2>7. AloneInv' /\ (prog'.stage >= 2 => recalc' # "none")
      BY <2>5 DEF OutcomeInv, AloneInv
    <2> QED
      BY <1>0, <1>1, <1>6, <2>1, <2>2, <2>5, <2>6, <2>7, MoveOutcome
  <1> QED
    BY <1>3, <1>4, <1>5, <1>6 DEF Verify

(* A stage is recorded, after the one before it.                           *)
LEMMA RecordStageOutcome ==
  ASSUME TypeOK, TypeOK', JobInv, OutcomeInv, NEW w \in Workers, Current(w),
         wk[w].pc \in DownstreamPCs, NEW stage \in 1..4,
         NEW pc \in {"enqueue", "recalc", "cache", "audit"},
         RecordStage(w, stage, pc), edits' = edits,
         \/ pc = "enqueue" /\ stage = 1
         \/ pc = "recalc" /\ stage = 2 /\ recalc' # "none"
         \/ pc = "cache" /\ stage = 3 /\ recalc' # "none"
         \/ pc = "audit" /\ stage = 4 /\ recalc' # "none"
  PROVE  OutcomeInv'
  <1> DEFINE cp == [wk[w].cp EXCEPT !.stage = stage]
             new == [wk[w] EXCEPT !.pc = pc, !.cp = cp]
  <1>1. /\ pc \in PCs /\ pc \notin LoopPCs
        /\ pc \notin {"start", "preflight", "reserve"} /\ pc # "mirror" /\ pc # "recalcDone"
    BY DEF PCs, LoopPCs
  <1>2. stage \in 0..4
    OBVIOUS
  <1>3. /\ cp \in Progress /\ cp.done = wk[w].cp.done /\ cp.horizon = wk[w].cp.horizon
        /\ cp.stage = stage
    BY <1>2, WorkerType DEF WorkerRecords, Progress
  <1>4. /\ new \in WorkerStates /\ new.att = wk[w].att /\ new.bad = wk[w].bad
        /\ new.cp = cp /\ new.pc = pc
    BY <1>1, <1>3, WorkerType DEF WorkerStates, WorkerRecords
  <1>5. Busy(w) /\ status = "recalculating" /\ wk[w].cp.done = prog.done
    BY DEF Current, OutcomeInv, StageInv, JobInv, FenceInv
  <1>6. /\ prog' = cp /\ Become(w, new)
        /\ UNCHANGED <<status, attempt, reason, audits, odoo, rest, target, pend>>
    BY DEF RecordStage, odooVars
  <1> HIDE DEF new, cp
  <1>7. wk'[w] = new
    BY <1>4, <1>6, BecomeType
  <1>8. StageInv(w)'
    BY <1>1, <1>3, <1>4, <1>5, <1>6, <1>7 DEF StageInv
  <1>9. KnownInv(w)'
    BY <1>1, <1>4, <1>7 DEF KnownInv, LoopPCs
  <1>10. AloneInv'
    BY <1>3, <1>5, <1>6 DEF OutcomeInv, AloneInv
  <1>11. prog'.stage >= 2 => recalc' # "none"
    BY <1>3, <1>6
  <1>12. status' \in Active /\ status' # "applying"
    BY <1>5, <1>6 DEF Active
  <1>13. new.pc \notin {"reserve", "read", "write", "sent", "acked", "erred"}
    BY <1>4
  <1> QED
    BY <1>4, <1>5, <1>6, <1>8, <1>9, <1>10, <1>11, <1>12, <1>13, MoveOutcome

(* The mirror, the queue and the two stages after the recalculation.       *)
LEMMA StagesOutcome ==
  ASSUME TypeOK, TypeOK', JobInv, OutcomeInv, NEW w \in Workers,
         Mirror(w) \/ Enqueue(w) \/ CompleteStage(w)
  PROVE  OutcomeInv'
  <1>0. Busy(w) /\ wk[w].pc \in DownstreamPCs
    BY DEF Mirror, Enqueue, CompleteStage, Busy, DownstreamPCs
  <1>1. Owns(w) \/ OwnsRecalculating(w) => Current(w)
    BY <1>0 DEF Owns, OwnsRecalculating, Current
  <1>2. Current(w) => /\ status = "recalculating"
                      /\ wk[w].pc \in {"recalcDone", "cache"} => recalc # "none"
    BY <1>0 DEF OutcomeInv, StageInv
  <1>3. CASE Superseded(w)
    BY <1>3, SupersededOutcome
  <1>4. CASE Recoverable(w)
    BY <1>0, <1>2, <1>4, RecoverableOutcome
  <1>5. CASE Mirror(w) /\ OwnsRecalculating(w) /\ RecordStage(w, 1, "enqueue") /\ UNCHANGED envVars
    BY <1>0, <1>1, <1>5, RecordStageOutcome DEF envVars
  <1>6. CASE Enqueue(w) /\ OwnsRecalculating(w) /\ RecordStage(w, 2, "recalc")
             /\ recalc' = "queued" /\ edits' = edits
    BY <1>0, <1>1, <1>6, RecordStageOutcome
  <1>7. CASE wk[w].pc = "recalcDone" /\ Owns(w) /\ RecordStage(w, 3, "cache") /\ UNCHANGED envVars
    BY <1>0, <1>1, <1>2, <1>7, RecordStageOutcome DEF envVars
  <1>8. CASE wk[w].pc = "cache" /\ Owns(w) /\ RecordStage(w, 4, "audit") /\ UNCHANGED envVars
    BY <1>0, <1>1, <1>2, <1>8, RecordStageOutcome DEF envVars
  <1>9. CASE Mirror(w)
    BY <1>3, <1>4, <1>5, <1>9 DEF Mirror
  <1>10. CASE Enqueue(w)
    BY <1>3, <1>4, <1>6, <1>10 DEF Enqueue
  <1>11. CASE CompleteStage(w)
    BY <1>3, <1>7, <1>8, <1>11 DEF CompleteStage
  <1> QED
    BY <1>9, <1>10, <1>11

(* The recalculation, by whoever got to it.                                *)
LEMMA RunRecalculationOutcome ==
  ASSUME TypeOK, TypeOK', JobInv, OutcomeInv, NEW w \in Workers, RunRecalculation(w)
  PROVE  OutcomeInv'
  <1> DEFINE pc == CASE wk[w].cp.stage = 2 -> "recalcDone"
                     [] wk[w].cp.stage = 3 -> "cache"
                     [] OTHER -> "audit"
             new == [wk[w] EXCEPT !.pc = pc]
  <1>0. Busy(w) /\ wk[w].pc = "recalc" /\ "recalc" \in DownstreamPCs
    BY DEF RunRecalculation, Busy, DownstreamPCs
  <1>1. Current(w) => /\ status = "recalculating" /\ prog.stage >= 2
                      /\ wk[w].cp.stage = prog.stage /\ wk[w].cp.horizon = prog.horizon
    BY <1>0 DEF OutcomeInv, StageInv
  <1>2. CASE Recoverable(w)
    BY <1>0, <1>1, <1>2, RecoverableOutcome
  <1>3. CASE /\ Become(w, new) /\ recalc' = "done"
             /\ UNCHANGED <<jobVars, odooVars, fixer, faults, edits, kept, raced>>
    <2>1. /\ pc \in {"recalcDone", "cache", "audit"} /\ pc \in PCs /\ pc \notin LoopPCs
      BY DEF PCs, LoopPCs
    <2>2. /\ new \in WorkerStates /\ new.att = wk[w].att /\ new.bad = wk[w].bad
          /\ new.cp = wk[w].cp /\ new.pc = pc
      BY <2>1, WorkerType DEF WorkerStates, WorkerRecords
    <2>3. UNCHANGED <<status, attempt, left, prog, reason, audits, odoo, rest, target, pend, edits>>
      BY <1>3 DEF jobVars, odooVars
    <2>4. prog.stage \in 0..4
      BY DEF TypeOK, Progress
    <2>5. Current(w) => /\ pc = "recalcDone" => prog.stage = 2
                        /\ pc = "cache" => prog.stage = 3
                        /\ pc = "audit" => prog.stage = 4
      BY <1>1, <2>4
    <2> HIDE DEF new, pc
    <2>6. wk'[w] = new
      BY <1>3, <2>2, BecomeType
    <2>7. Current(w)' => Current(w)
      BY <1>0, <2>2, <2>3, <2>6 DEF Current
    <2>8. StageInv(w)'
      BY <1>1, <2>1, <2>2, <2>3, <2>5, <2>6, <2>7 DEF StageInv
    <2>9. KnownInv(w)'
      BY <2>1, <2>2, <2>6 DEF KnownInv, LoopPCs
    <2>10. AloneInv' /\ (status' = "applying" => \A m \in pend' : m.left <= left')
          /\ (prog'.stage >= 2 => recalc' # "none")
      BY <1>3, <2>3 DEF OutcomeInv, AloneInv
    <2>11. /\ new.pc \notin {"reserve", "read", "write", "sent", "acked", "erred"}
           /\ Current(w) => status' \in Active
      BY <2>1, <2>2, <2>3, OneCurrent
    <2> QED
      BY <1>0, <1>3, <2>2, <2>3, <2>8, <2>9, <2>10, <2>11, MoveOutcome
  <1> QED
    BY <1>2, <1>3 DEF RunRecalculation, Goto

(* Completion, with the last stage on record.                              *)
LEMMA CompleteWithAuditOutcome ==
  ASSUME TypeOK, TypeOK', JobInv, OutcomeInv, NEW w \in Workers, CompleteWithAudit(w)
  PROVE  OutcomeInv'
  <1>0. Busy(w) /\ wk[w].pc = "audit" /\ "audit" \in DownstreamPCs
    BY DEF CompleteWithAudit, Busy, DownstreamPCs
  <1>1. CASE Superseded(w)
    BY <1>1, SupersededOutcome
  <1>2. CASE OwnsRecalculating(w) /\ Recoverable(w)
    BY <1>0, <1>2, RecoverableOutcome DEF OwnsRecalculating
  <1>3. CASE ~OwnsRecalculating(w) /\ Recoverable(w)
    <2>1. Current(w) => status = "recalculating"
      BY <1>0 DEF OutcomeInv, StageInv
    <2> QED
      BY <1>0, <1>3, <2>1, RecoverableOutcome
  <1>4. CASE /\ OwnsRecalculating(w)
             /\ status' = "complete"
             /\ audits' = audits + 1
             /\ Stop(w)
             /\ UNCHANGED <<attempt, prog, reason, odooVars, envVars>>
    <2>1. Current(w) /\ status = "recalculating"
      BY <1>0, <1>4 DEF OwnsRecalculating, Current
    <2>2. audits' = 1 /\ prog'.stage = 4 /\ (prog'.stage >= 2 => recalc' # "none")
      BY <1>0, <1>4, <2>1 DEF OutcomeInv, StageInv, envVars
    <2>3. wk'[w].pc = "idle" /\ \A v \in Workers \ {w} : wk'[v] = wk[v]
      BY <1>4, IdleType, BecomeType DEF Stop, Idle
    <2>4. \A v \in Workers : ~Current(v)'
      BY <1>4, <2>1, <2>3 DEF Current, Busy, JobInv, FenceInv
    <2>5. \A v \in Workers : StageInv(v)' /\ KnownInv(v)'
      BY <2>4 DEF StageInv, KnownInv
    <2>6. AloneInv' /\ FailureHasCause'
      BY <1>4 DEF OutcomeInv, AloneInv, FailureHasCause, odooVars, envVars
    <2>7. PreflightProtects'
      BY <2>3 DEF OutcomeInv, PreflightProtects
    <2> QED
      BY <1>4, <2>2, <2>5, <2>6, <2>7 DEF OutcomeInv
  <1> QED
    BY <1>1, <1>2, <1>3, <1>4 DEF CompleteWithAudit

(* An outside edit is what later failures can be put down to.              *)
LEMMA EditOutcome ==
  ASSUME TypeOK, TypeOK', JobInv, OutcomeInv, NEW k \in Ops, NEW v \in RowStates, Edit(k, v)
  PROVE  OutcomeInv'
  <1>1. /\ UNCHANGED <<status, attempt, left, prog, reason, audits, pend, recalc>>
        /\ edits' = edits + 1 /\ edits \in Nat
        /\ odoo' = [odoo EXCEPT ![k] = v] /\ odoo \in [Ops -> RowStates]
    BY BoundsAssumption DEF Edit, SomeEdit, jobVars, TypeOK
  <1>2. edits' > 0 /\ edits' # 0
    BY <1>1
  <1>3. ASSUME NEW w \in Workers
        PROVE  /\ wk'[w].att = wk[w].att /\ wk'[w].cp = wk[w].cp
               /\ wk'[w].k = wk[w].k /\ wk'[w].pc = wk[w].pc
               /\ wk'[w].bad = wk[w].bad \ {k} /\ wk[w].bad \subseteq Ops
    BY WorkerType DEF Edit, WorkerRecords
  <1>4. ASSUME NEW w \in Workers PROVE StageInv(w)' /\ KnownInv(w)'
    <2>1. Current(w)' => Current(w)
      BY <1>1, <1>3 DEF Busy, Current
    <2>2. StageInv(w) /\ KnownInv(w)
      BY DEF OutcomeInv
    <2>3. StageInv(w)'
      BY <1>1, <1>3, <2>1, <2>2 DEF StageInv
    <2>4. \A j \in wk'[w].bad : j \in wk[w].bad /\ odoo'[j] = odoo[j]
      BY <1>1, <1>3
    <2>5. KnownInv(w)'
      BY <1>1, <1>2, <1>3, <2>1, <2>2, <2>4 DEF KnownInv
    <2> QED
      BY <2>3, <2>5
  <1>5. AloneInv' /\ FailureHasCause' /\ PreflightProtects'
    BY <1>2, <1>3 DEF OutcomeInv, AloneInv, FailureHasCause, PreflightProtects
  <1> QED
    BY <1>1, <1>4, <1>5 DEF OutcomeInv

(* Edits around the plan, the queue worker, and stuttering.                *)
LEMMA AroundOutcome ==
  ASSUME TypeOK, TypeOK', JobInv, OutcomeInv,
         UNCHANGED <<status, attempt, left, prog, reason, audits, odoo, pend, wk>>,
         recalc' = "none" => recalc = "none",
         (edits' = edits /\ UNCHANGED <<rest, target>>) \/ edits' > 0
  PROVE  OutcomeInv'
  <1>1. edits' = 0 => edits = 0 /\ UNCHANGED <<rest, target>>
    OBVIOUS
  <1>2. edits > 0 => edits' > 0
    OBVIOUS
  <1>3. \A w \in Workers : StageInv(w)' /\ KnownInv(w)'
    BY <1>1 DEF OutcomeInv, StageInv, KnownInv, Current, Busy
  <1>4. AloneInv' /\ FailureHasCause' /\ PreflightProtects'
    BY <1>1, <1>2 DEF OutcomeInv, AloneInv, FailureHasCause, PreflightProtects
  <1> QED
    BY <1>3, <1>4 DEF OutcomeInv

(* Time takes the same from every deadline.                                *)
LEMMA TickOutcome ==
  ASSUME TypeOK, TypeOK', JobInv, OutcomeInv, Tick
  PROVE  OutcomeInv'
  <1>0. left \in 0..Lease /\ prog \in Progress /\ prog.res \in Reservations
        /\ prog.res.left \in 0..Lease
    BY DEF TypeOK, Progress, Reservations
  <1>1. /\ left' = Minus1(left) /\ prog' = TickProgress(prog)
        /\ UNCHANGED <<status, attempt, reason, audits, odoo, rest, target, recalc, edits>>
    BY Zenon DEF Tick
  <1>11. wk' = [w \in Workers |-> [wk[w] EXCEPT !.lease = Minus1(wk[w].lease),
                                               !.cp = TickProgress(wk[w].cp)]]
    BY Zenon DEF Tick
  <1>12. pend' = {[m EXCEPT !.left = m.left - 1] : m \in pend}
    BY Zenon DEF Tick
  <1>13. \A m \in pend : m.left > 1
    BY Zenon DEF Tick
  <1>2. /\ prog'.done = prog.done /\ prog'.stage = prog.stage /\ prog'.horizon = prog.horizon
        /\ prog'.res.left = Minus1(prog.res.left)
    BY <1>0, <1>1 DEF TickProgress, Progress, Reservations
  <1>3. ASSUME NEW w \in Workers
        PROVE  /\ wk'[w].att = wk[w].att /\ wk'[w].bad = wk[w].bad
               /\ wk'[w].cp = TickProgress(wk[w].cp) /\ wk'[w].k = wk[w].k
               /\ wk'[w].pc = wk[w].pc
    <2>1. wk'[w] = [wk[w] EXCEPT !.lease = Minus1(wk[w].lease), !.cp = TickProgress(wk[w].cp)]
      BY <1>11, Zenon
    <2>2. wk[w] \in WorkerRecords
      BY WorkerType
    <2> QED
      BY <2>1, <2>2 DEF WorkerRecords
  <1>4. ASSUME NEW w \in Workers
        PROVE  wk'[w].cp.stage = wk[w].cp.stage /\ wk'[w].cp.horizon = wk[w].cp.horizon
    <2>1. wk[w].cp \in Progress
      BY WorkerType DEF WorkerRecords, Progress
    <2> QED
      BY <1>3, <2>1 DEF TickProgress, Progress
  <1>5. \A n \in pend' : \E m \in pend : n.left = m.left - 1 /\ m.left > 1 /\ m.left \in Nat
    <2>1. \A m \in pend : m \in Requests /\ m.left > 1 /\ m.left \in Nat
      BY <1>13, LeaseAssumption DEF TypeOK, Requests
    <2>2. \A n \in pend' : \E m \in pend : n = [m EXCEPT !.left = m.left - 1]
      BY <1>12
    <2> QED
      BY <2>1, <2>2 DEF Requests
  <1>6. ASSUME NEW b \in 0..Lease, \A m \in pend : m.left <= b
        PROVE  \A n \in pend' : n.left <= Minus1(b)
    BY <1>5, <1>6, LeaseAssumption DEF Minus1
  <1>7. pend = {} => pend' = {}
    BY <1>5
  <1>8. ASSUME NEW w \in Workers PROVE StageInv(w)' /\ KnownInv(w)'
    <2>1. Current(w)' => Current(w)
      BY <1>1, <1>3 DEF Busy, Current
    <2>2. StageInv(w) /\ KnownInv(w)
      BY DEF OutcomeInv
    <2>3. StageInv(w)'
      BY <1>1, <1>2, <1>3, <1>4, <2>1, <2>2 DEF StageInv
    <2>4. Current(w) /\ wk[w].pc \in LoopPCs => \A n \in pend' : n.left <= prog'.res.left
      BY <1>0, <1>2, <1>6, <2>2 DEF KnownInv
    <2>5. KnownInv(w)'
      BY <1>1, <1>3, <1>7, <2>1, <2>2, <2>4 DEF KnownInv
    <2> QED
      BY <2>3, <2>5
  <1>9. AloneInv' /\ FailureHasCause' /\ PreflightProtects'
    BY <1>1, <1>2, <1>3 DEF OutcomeInv, AloneInv, FailureHasCause, PreflightProtects
  <1>10. status' = "applying" => \A n \in pend' : n.left <= left'
    BY <1>0, <1>1, <1>6 DEF OutcomeInv
  <1> QED
    BY <1>1, <1>2, <1>7, <1>8, <1>9, <1>10 DEF OutcomeInv

(* Every step keeps what a job says of itself true.                        *)
LEMMA NextOutcome ==
  TypeOK /\ TypeOK' /\ JobInv /\ OutcomeInv /\ [Next]_vars => OutcomeInv'
  <1> SUFFICES ASSUME TypeOK, TypeOK', JobInv, OutcomeInv, [Next]_vars PROVE OutcomeInv'
    OBVIOUS
  <1>1. ASSUME NEW w \in Workers, Claim(w) \/ TimeOut(w) \/ Crash(w) PROVE OutcomeInv'
    BY <1>1, ClaimOutcome, TimeOutOutcome
  <1>2. ASSUME NEW w \in Workers, WorkerStep(w) PROVE OutcomeInv'
    BY <1>2, StartOutcome, PreflightOutcome, ReserveOutcome, FinishOperationsOutcome,
       ReadWriteOutcome, ReadBackOutcome, ConfirmOutcome, VerifyOutcome, StagesOutcome,
       RunRecalculationOutcome, CompleteWithAuditOutcome DEF WorkerStep
  <1>3. ASSUME NEW m \in pend, Land(m) \/ Lose(m) PROVE OutcomeInv'
    BY <1>3, LandOutcome
  <1>4. ASSUME NEW k \in Ops, NEW v \in RowStates, Edit(k, v) PROVE OutcomeInv'
    BY <1>4, EditOutcome
  <1>5. CASE EditAround
    <2>1. edits' > 0
      BY <1>5, BoundsAssumption DEF EditAround, SomeEdit, TypeOK
    <2>2. UNCHANGED <<status, attempt, left, prog, reason, audits, odoo, pend, recalc, wk>>
      BY <1>5 DEF EditAround, jobVars
    <2> QED
      BY <2>1, <2>2, AroundOutcome
  <1>6. CASE RecalcQueue
    <2>1. edits' = edits \/ edits' > 0
      BY <1>6, BoundsAssumption DEF RecalcQueue, SomeEdit, TypeOK
    <2>2. /\ UNCHANGED <<status, attempt, left, prog, reason, audits, odoo, rest, target, pend, wk>>
          /\ recalc' # "none"
      BY <1>6 DEF RecalcQueue, jobVars, odooVars
    <2> QED
      BY <2>1, <2>2, AroundOutcome
  <1>7. CASE Tick
    BY <1>7, TickOutcome
  <1>8. CASE UNCHANGED vars
    BY <1>8, AroundOutcome DEF vars, jobVars, odooVars, envVars
  <1> QED
    BY <1>1, <1>2, <1>3, <1>4, <1>5, <1>6, <1>7, <1>8 DEF Next, Settled

(* What the holder of the current attempt knows of the job and of Odoo is  *)
(* true in every reachable state, races with other people included         *)
(* (_process_claim works on a private copy of the progress).               *)
THEOREM OutcomeInvariant == Spec => []OutcomeInv
  <1>1. TypeOK /\ TypeOK' /\ JobInv /\ OutcomeInv /\ [Next]_vars => OutcomeInv'
    BY NextOutcome
  <1> QED
    BY OutcomeInit, <1>1, TypeCorrect, JobInvariant, PTL DEF Spec

(* No attempt writes before it has validated every row; a job fails for a  *)
(* change only when somebody made one; it is complete only with every      *)
(* operation and stage on record and one audit event; and nothing of it is *)
(* under way once it was verified (_process_claim, _verification_rows,     *)
(* _complete_with_audit).                                                  *)
THEOREM OutcomeIsHonest == Spec => []HonestOutcome
  <1>1. LeaseInv /\ OutcomeInv /\ VerifiedIsFinal => HonestOutcome
    BY DEF OutcomeInv, LeaseInv, CompleteMeansDone, HonestOutcome
  <1>2. JobInv => LeaseInv
    BY DEF JobInv
  <1> QED
    BY <1>1, <1>2, OutcomeInvariant, JobInvariant, VerificationIsFinal, PTL

(* What a step may not take back.                                          *)
Kept ==
    /\ prog.done \subseteq prog'.done
    /\ prog.stage <= prog'.stage
    /\ prog.horizon => prog'.horizon
    /\ attempt <= attempt'
    /\ status \in Terminal =>
          status' = status /\ prog'.done = prog.done /\ attempt' = attempt

(* A step that leaves the confirmed operations, the stages and the horizon *)
(* alone, and the status when the job is settled.                          *)
LEMMA SameKept ==
  ASSUME TypeOK, attempt' = attempt,
         prog'.done = prog.done, prog'.stage = prog.stage, prog'.horizon = prog.horizon,
         status' = status \/ status \notin Terminal
  PROVE  Kept
  BY DEF Kept, TypeOK, Progress

(* An attempt ends without recording anything but its reservation.         *)
LEMMA EndKept ==
  ASSUME TypeOK, NEW w \in Workers,
         \/ Superseded(w)
         \/ \E why \in {"invalid_plan", "source_changed", "mismatch"} :
               Fail(w, why) /\ (Owns(w) \/ HoldsReservation(w))
         \/ Recoverable(w)
         \/ RecoverableInLoop(w)
         \/ (prog' = [prog EXCEPT !.res.left = Lease] /\ RetryOrFail(w, Lease))
  PROVE  Kept
  <1>1. Owns(w) \/ HoldsReservation(w) => status \notin Terminal
    BY DEF Owns, HoldsReservation, OwnsApplying, Active, Terminal
  <1>2. ASSUME NEW r, RetryOrFail(w, r)
        PROVE  attempt' = attempt /\ (status' = status \/ status \notin Terminal)
    BY <1>1, <1>2 DEF RetryOrFail
  <1>3. CASE Superseded(w)
    BY <1>3, SameKept DEF Superseded, jobVars
  <1>4. ASSUME NEW why, Fail(w, why), Owns(w) \/ HoldsReservation(w) PROVE Kept
    BY <1>1, <1>4, SameKept DEF Fail
  <1>5. CASE Recoverable(w)
    BY <1>2, <1>5, SameKept DEF Recoverable
  <1>6. ASSUME NEW r \in 0..Lease, prog' = [prog EXCEPT !.res.left = r], RetryOrFail(w, r)
        PROVE  Kept
    <2>1. prog'.done = prog.done /\ prog'.stage = prog.stage /\ prog'.horizon = prog.horizon
      BY <1>6 DEF TypeOK, Progress, Reservations
    <2> QED
      BY <1>2, <1>6, <2>1, SameKept
  <1>7. prog.res.left \in 0..Lease /\ Lease \in 0..Lease
    BY LeaseAssumption DEF TypeOK, Progress, Reservations
  <1>8. CASE RecoverableInLoop(w)
    BY <1>6, <1>7, <1>8 DEF RecoverableInLoop
  <1> QED
    BY <1>3, <1>4, <1>5, <1>6, <1>7, <1>8

(* The steps up to the request: they record the horizon and a reservation. *)
LEMMA LoopKept ==
  ASSUME TypeOK, TypeOK', JobInv, OutcomeInv, NEW w \in Workers,
         Preflight(w) \/ Reserve(w) \/ FinishOperations(w) \/ Read(w) \/ Write(w)
  PROVE  Kept
  <1>1. Owns(w) \/ OwnsApplying(w) \/ HoldsReservation(w) => status \notin Terminal
    BY DEF Owns, HoldsReservation, OwnsApplying, Active, Terminal
  <1>2. Renew => /\ prog'.done = prog.done /\ prog'.stage = prog.stage
                 /\ prog'.horizon = prog.horizon /\ UNCHANGED <<attempt, status>>
    BY DEF Renew, TypeOK, Progress, Reservations
  <1>3. Renew => Kept
    BY <1>2, SameKept
  <1>4. CASE Preflight(w)
    <2>1. Heartbeat => Kept
      BY SameKept DEF Heartbeat
    <2> QED
      BY <1>4, <2>1, EndKept DEF Preflight
  <1>5. CASE Reserve(w)
    <2>1. ASSUME NEW k \in Ops, UNCHANGED <<attempt, status>>,
                 prog' = [prog EXCEPT !.res = [op |-> k, att |-> wk[w].att, left |-> Lease]]
          PROVE  Kept
      <3>1. prog'.done = prog.done /\ prog'.stage = prog.stage /\ prog'.horizon = prog.horizon
        BY <2>1 DEF TypeOK, Progress
      <3> QED
        BY <2>1, <3>1, SameKept
    <2>2. CASE Superseded(w)
      BY <2>2, EndKept
    <2>3. CASE ~Superseded(w)
      <3>1. \E k \in Ops :
               /\ prog' = [prog EXCEPT !.res = [op |-> k, att |-> wk[w].att, left |-> Lease]]
               /\ UNCHANGED <<attempt, status>>
        BY <1>5, <2>3, Zenon DEF Reserve
      <3> QED
        BY <2>1, <3>1
    <2> QED
      BY <2>2, <2>3
  <1>6. CASE FinishOperations(w)
    BY <1>1, <1>6, EndKept, SameKept DEF FinishOperations
  <1>7. CASE Read(w)
    BY <1>3, <1>7, EndKept DEF Read
  <1>8. CASE Write(w)
    BY <1>3, <1>8, EndKept DEF Write
  <1> QED
    BY <1>4, <1>5, <1>6, <1>7, <1>8

(* The holder of the current attempt writes the horizon and the stages     *)
(* from its private copy, which has all that is on record.                 *)
LEMMA CopyKept ==
  ASSUME TypeOK, TypeOK', JobInv, OutcomeInv, NEW w \in Workers,
         Start(w) \/ Mirror(w) \/ Enqueue(w) \/ CompleteStage(w)
  PROVE  Kept
  <1>0. Busy(w)
    BY DEF Start, Mirror, Enqueue, CompleteStage, Busy
  <1>1. Owns(w) \/ OwnsRecalculating(w) => Current(w) /\ status \notin Terminal
    BY <1>0 DEF Owns, OwnsRecalculating, Current, Active, Terminal
  <1>2. Current(w) => /\ wk[w].cp.done = prog.done /\ wk[w].cp.stage = prog.stage
                      /\ wk[w].cp.horizon = prog.horizon
    BY KnowsStage DEF JobInv, FenceInv
  <1>3. wk[w].cp \in Progress
    BY WorkerType DEF WorkerRecords
  <1>4. ASSUME NEW stage \in 1..4, NEW pc, RecordStage(w, stage, pc), prog.stage < stage,
               Owns(w) \/ OwnsRecalculating(w)
        PROVE  Kept
    <2>1. /\ prog'.done = wk[w].cp.done /\ prog'.stage = stage
          /\ prog'.horizon = wk[w].cp.horizon
      BY <1>3, <1>4 DEF RecordStage, Progress
    <2>2. attempt' = attempt /\ attempt \in Nat /\ prog.stage \in Nat
      BY <1>4 DEF RecordStage, TypeOK, Progress
    <2> QED
      BY <1>1, <1>2, <1>4, <2>1, <2>2 DEF Kept
  <1>5. CASE Start(w)
    <2>1. ASSUME Owns(w), prog' = [wk[w].cp EXCEPT !.horizon = TRUE], attempt' = attempt
          PROVE  Kept
      <3>1. /\ prog'.done = wk[w].cp.done /\ prog'.stage = wk[w].cp.stage /\ prog'.horizon
        BY <1>3, <2>1 DEF Progress
      <3>2. attempt \in Nat /\ prog.stage \in Nat
        BY DEF TypeOK, Progress
      <3> QED
        BY <1>1, <1>2, <2>1, <3>1, <3>2 DEF Kept
    <2>2. UNCHANGED jobVars => Kept
      BY SameKept DEF jobVars
    <2> QED
      BY <1>5, <2>1, <2>2, EndKept DEF Start
  <1>6. CASE Mirror(w)
    <2>1. Current(w) => prog.stage = 0
      BY <1>6 DEF Mirror, OutcomeInv, StageInv
    <2> QED
      BY <1>1, <1>4, <1>6, <2>1, EndKept DEF Mirror
  <1>7. CASE Enqueue(w)
    <2>1. Current(w) => prog.stage = 1
      BY <1>7 DEF Enqueue, OutcomeInv, StageInv
    <2> QED
      BY <1>1, <1>4, <1>7, <2>1, EndKept DEF Enqueue
  <1>8. CASE CompleteStage(w)
    <2>1. Current(w) => /\ wk[w].pc = "recalcDone" => prog.stage = 2
                        /\ wk[w].pc = "cache" => prog.stage = 3
      BY DEF OutcomeInv, StageInv
    <2> QED
      BY <1>1, <1>4, <1>8, <2>1, EndKept DEF CompleteStage
  <1> QED
    BY <1>5, <1>6, <1>7, <1>8

(* The read-back, the confirmation and the steps to the end.               *)
LEMMA LateKept ==
  ASSUME TypeOK, TypeOK', JobInv, OutcomeInv, NEW w \in Workers,
         \/ ReadBack(w) \/ Confirm(w) \/ Verify(w) \/ RunRecalculation(w)
         \/ CompleteWithAudit(w)
  PROVE  Kept
  <1>1. Owns(w) \/ OwnsRecalculating(w) \/ HoldsReservation(w) => status \notin Terminal
    BY DEF Owns, OwnsRecalculating, HoldsReservation, OwnsApplying, Active, Terminal
  <1>2. Renew => Kept
    <2>1. Renew => /\ prog'.done = prog.done /\ prog'.stage = prog.stage
                   /\ prog'.horizon = prog.horizon /\ UNCHANGED <<attempt, status>>
      BY DEF Renew, TypeOK, Progress, Reservations
    <2> QED
      BY <2>1, SameKept
  <1>3. CASE ReadBack(w)
    BY <1>2, <1>3, EndKept DEF ReadBack
  <1>4. CASE Confirm(w)
    <2>1. ASSUME HoldsReservation(w), UNCHANGED <<status, attempt>>,
                 prog' = [prog EXCEPT !.res = NoRes, !.done = prog.done \cup {wk[w].k}]
          PROVE  Kept
      <3>1. /\ prog'.done = prog.done \cup {wk[w].k} /\ prog'.stage = prog.stage
            /\ prog'.horizon = prog.horizon
        BY <2>1 DEF TypeOK, Progress
      <3>2. attempt \in Nat /\ prog.stage \in Nat
        BY DEF TypeOK, Progress
      <3> QED
        BY <1>1, <2>1, <3>1, <3>2 DEF Kept
    <2> QED
      BY <1>4, <2>1, EndKept DEF Confirm
  <1>5. CASE Verify(w)
    BY <1>1, <1>5, EndKept, SameKept DEF Verify
  <1>6. CASE RunRecalculation(w)
    BY <1>6, EndKept, SameKept DEF RunRecalculation, jobVars
  <1>7. CASE CompleteWithAudit(w)
    BY <1>1, <1>7, EndKept, SameKept DEF CompleteWithAudit
  <1> QED
    BY <1>3, <1>4, <1>5, <1>6, <1>7

(* Confirmed operations, stages, the horizon and attempt numbers are never *)
(* taken back, and a settled job is left alone, although stages are        *)
(* written from a private copy (_complete_record, _claim_is_current).      *)
THEOREM NothingIsTakenBack == Spec => ProgressIsKept
  <1>1. ASSUME TypeOK, TypeOK', JobInv, OutcomeInv, [Next]_vars
        PROVE  Kept
    <2>1. ASSUME NEW w \in Workers, Claim(w) PROVE Kept
      <3>1. attempt \in Nat /\ prog.stage \in Nat
        BY <1>1 DEF TypeOK, Progress
      <3> QED
        BY <2>1, <3>1 DEF Kept, Claim, Claimable, Active, Terminal
    <2>2. ASSUME NEW w \in Workers, WorkerStep(w) PROVE Kept
      BY <1>1, <2>2, LoopKept, CopyKept, LateKept DEF WorkerStep
    <2>3. UNCHANGED jobVars => Kept
      BY <1>1, SameKept DEF jobVars
    <2>4. ASSUME NEW w \in Workers, TimeOut(w) \/ Crash(w) PROVE Kept
      BY <2>3, <2>4 DEF TimeOut, Crash
    <2>5. ASSUME NEW m \in pend, Land(m) \/ Lose(m) PROVE Kept
      BY <2>3, <2>5 DEF Land, Lose
    <2>6. ASSUME NEW k \in Ops, NEW v \in RowStates, Edit(k, v) PROVE Kept
      BY <2>3, <2>6 DEF Edit
    <2>7. CASE EditAround \/ RecalcQueue \/ UNCHANGED vars
      BY <2>3, <2>7 DEF EditAround, RecalcQueue, vars
    <2>8. CASE Tick
      <3>1. prog' = TickProgress(prog) /\ UNCHANGED <<status, attempt>>
        BY <2>8, Zenon DEF Tick
      <3>2. prog'.done = prog.done /\ prog'.stage = prog.stage /\ prog'.horizon = prog.horizon
        BY <1>1, <3>1 DEF TickProgress, TypeOK, Progress
      <3> QED
        BY <1>1, <3>1, <3>2, SameKept
    <2> QED
      BY <1>1, <2>1, <2>2, <2>4, <2>5, <2>6, <2>7, <2>8 DEF Next, Settled
  <1>2. TypeOK /\ TypeOK' /\ JobInv /\ OutcomeInv /\ [Next]_vars => [Kept]_vars
    BY <1>1
  <1>3. [][Kept]_vars => ProgressIsKept
    BY PTL DEF Kept, ProgressIsKept
  <1> QED
    BY <1>2, <1>3, TypeCorrect, JobInvariant, OutcomeInvariant, PTL DEF Spec

=============================================================================
