---------------------------- MODULE CorrectionJobs ----------------------------
(***************************************************************************)
(* The durable attendance-correction job of attendance_corrections.py.     *)
(*                                                                         *)
(* A manager (or the quick-punch fixer) saves a plan: an ordered list of   *)
(* Odoo writes, 1..NumOps.  One row of attendance_correction_jobs carries  *)
(* it to completion.  Any number of workers (the warmer tick, the request  *)
(* that created the job, a second process) may claim that row; a claim is  *)
(* fenced by attempt_count and leased through updated_at.  Odoo is remote: *)
(* a request can be slow, lost, or answered by an error although it took   *)
(* effect, and other people edit the same attendance rows.                 *)
(*                                                                         *)
(* Deadlines are kept as the time that is left of them, floored at zero    *)
(* ("expired"), so no clock value is needed and the state stays finite.    *)
(***************************************************************************)
EXTENDS Integers, FiniteSets

CONSTANTS
    Workers,     \* the threads and processes that may run _process_claim
    NumOps,      \* number of Odoo writes of the saved plan
    CreateOps,   \* the operations of kind "create"; the others update/delete
    Lease,       \* _CLAIM_LEASE in clock units
    FixerCap,    \* QUICK_PUNCH_MAX_ATTEMPTS
    MaxFaults,   \* bound: crashes, errors, time-outs, lapsed leases
    MaxEdits     \* bound: edits by people and by other programs

Ops == 1..NumOps

ASSUME OpsAssumption == NumOps \in Nat \ {0} /\ CreateOps \subseteq Ops
ASSUME LeaseAssumption == Lease \in Nat \ {0, 1}
ASSUME BoundsAssumption == /\ FixerCap \in Nat \ {0}
                           /\ MaxFaults \in Nat
                           /\ MaxEdits \in Nat

VARIABLES
    status,      \* attendance_correction_jobs.status
    attempt,     \* .attempt_count, the fencing token
    left,        \* .updated_at - now: the job may be reclaimed when it is 0
    prog,        \* .completed_operations
    reason,      \* why the job failed (the event that failed it)
    audits,      \* audit events written by the job
    fixer,       \* _is_quick_punch_job
    odoo,        \* per operation, the Odoo row it is about
    rest,        \* the rows the plan leaves alone are still as previewed
    target,      \* target mapping and employees are still as previewed
    pend,        \* Odoo write requests that have not been decided yet
    recalc,      \* the attendance_recalc_queue days of this job
    wk,          \* the workers
    faults,      \* faults so far
    edits,       \* outside edits so far
    kept,        \* ghost: operations whose row was edited by somebody else
                 \* while the job had no write for it under way
    raced        \* ghost: somebody else made the planned change of a row
                 \* while the job's own write for it was under way

jobVars == <<status, attempt, left, prog, reason, audits>>
odooVars == <<odoo, rest, target, pend>>
envVars == <<fixer, recalc, faults, edits, kept, raced>>
vars == <<jobVars, odooVars, envVars, wk>>

-----------------------------------------------------------------------------
(* State *)

Active == {"applying", "verifying", "recalculating"}
Statuses == Active \cup {"planned", "complete", "failed"}
Terminal == {"complete", "failed"}

(* A reservation record of completed_operations.  Its random token is      *)
(* (operation, attempt): an attempt reserves an operation at most once.    *)
NoRes == [op |-> 0, att |-> 0, left |-> 0]
Reservations == [op : 0..NumOps, att : Nat, left : 0..Lease]

(* completed_operations: the frozen horizon, the confirmed operations, at  *)
(* most one reservation, and how many of the stages mirror_complete,       *)
(* recalc_enqueued, recalc_complete, cache_refreshed are recorded.         *)
Progress == [horizon : BOOLEAN, done : SUBSET Ops,
             res : Reservations, stage : 0..4]

(* What a row is to the plan: _operation_source_state, or for a create the *)
(* exact/none/other distinction that _perform_operation makes.             *)
RowStates == {"before", "after", "changed"}

PCs == {"idle", "start", "preflight", "reserve", "read", "write", "sent",
        "acked", "erred", "confirm", "verify", "mirror", "enqueue",
        "recalc", "recalcDone", "cache", "audit"}

(* A worker: claim.attempt_count, claim.lease_until, the local             *)
(* row["status"] and `completed` of _process_claim, the index of its loop. *)
(* bad is a ghost: the rows that were already changed when it claimed.     *)
WorkerRecords == [pc : PCs, att : Nat, lease : 0..Lease,
                  st : Active \cup {"none"}, cp : Progress,
                  k : 0..NumOps, bad : SUBSET Ops]

(* The program counters inside the operation loop, on an operation k.      *)
LoopPCs == {"read", "write", "sent", "acked", "erred", "confirm"}

WorkerStates == {r \in WorkerRecords : r.pc \in LoopPCs => r.k \in Ops}

EmptyProgress == [horizon |-> FALSE, done |-> {}, res |-> NoRes, stage |-> 0]

Idle == [pc |-> "idle", att |-> 0, lease |-> 0, st |-> "none",
         cp |-> EmptyProgress, k |-> 0, bad |-> {}]

Requests == [op : 0..NumOps, att : Nat, left : 0..Lease]

TypeOK ==
    /\ status \in Statuses
    /\ attempt \in Nat
    /\ left \in 0..Lease
    /\ prog \in Progress
    /\ reason \in {"none", "invalid_plan", "source_changed", "mismatch",
                   "attempt_limit"}
    /\ audits \in Nat
    /\ fixer \in BOOLEAN
    /\ odoo \in [Ops -> RowStates]
    /\ rest \in BOOLEAN
    /\ target \in BOOLEAN
    /\ pend \in SUBSET Requests
    /\ recalc \in {"none", "queued", "done"}
    /\ wk \in [Workers -> WorkerStates]
    /\ faults \in 0..MaxFaults
    /\ edits \in 0..MaxEdits
    /\ kept \in SUBSET Ops
    /\ raced \in BOOLEAN

(* create_job_from_preview: a planned row with no progress.  The preview   *)
(* was just read, so Odoo is as the plan says.                             *)
Init ==
    /\ status = "planned"
    /\ attempt = 0
    /\ left = 0
    /\ prog = EmptyProgress
    /\ reason = "none"
    /\ audits = 0
    /\ fixer \in BOOLEAN
    /\ odoo = [k \in Ops |-> "before"]
    /\ rest = TRUE
    /\ target = TRUE
    /\ pend = {}
    /\ recalc = "none"
    /\ wk = [w \in Workers |-> Idle]
    /\ faults = 0
    /\ edits = 0
    /\ kept = {}
    /\ raced = FALSE

-----------------------------------------------------------------------------
(* Steps shared by the actions *)

(* Mutant: a retry adds the two delays up.                                 *)
Max2_Sum(a, b) == a + b

Max2(a, b) == IF a >= b THEN a ELSE b

Busy(w) == wk[w].pc # "idle"

(* Mutant: the fence checks the status but not the attempt.                *)
Owns_AnyAttempt(w) == status \in Active

(* _claim_is_current and the WHERE of _transition, _heartbeat_claim and    *)
(* _complete_record.                                                       *)
Owns(w) == attempt = wk[w].att /\ status \in Active

(* The stricter fence of the reservation operations.                       *)
OwnsApplying(w) == attempt = wk[w].att /\ status = "applying"

(* The fence of the mirror, enqueue and audit transactions.                *)
OwnsRecalculating(w) == attempt = wk[w].att /\ status = "recalculating"

(* Mutant: the renewal finds the reservation by operation, not by token.   *)
HoldsReservation_AnyAttempt(w) == status = "applying" /\ prog.res.op = wk[w].k

(* The reservation this worker made is still the recorded one.             *)
HoldsReservation(w) ==
    /\ OwnsApplying(w)
    /\ prog.res.op = wk[w].k
    /\ prog.res.att = wk[w].att

Fault == faults < MaxFaults /\ faults' = faults + 1

Become(w, new) == wk' = [wk EXCEPT ![w] = new]

Goto(w, pc) == Become(w, [wk[w] EXCEPT !.pc = pc])

Stop(w) == Become(w, Idle)

(* _StaleClaim: the worker gives up and leaves everything as it is.        *)
Superseded(w) == Stop(w) /\ UNCHANGED <<jobVars, odooVars, envVars>>

(* _transition(status="failed", ...), fenced by the caller.                *)
Fail(w, why) ==
    /\ status' = "failed"
    /\ reason' = why
    /\ left' = wk[w].lease
    /\ Stop(w)
    /\ UNCHANGED <<attempt, prog, audits, odooVars, envVars>>

(* _completed_operation_records is empty, and the attempt cap applies.     *)
Capped(w) ==
    /\ fixer
    /\ wk[w].st \in {"applying", "verifying"}
    /\ prog.done = {}
    /\ wk[w].att >= FixerCap

(* The updated_at of a retry: _retry_at counts 15 s to 15 min from the     *)
(* start of the claim, so it is never later than the claim's own lease.    *)
RetryDelays(w) == 0..wk[w].lease

(* _retry_or_fail; atLeast is the reserved_until that the write path adds. *)
RetryOrFail(w, atLeast) ==
    /\ Stop(w)
    /\ UNCHANGED <<attempt, audits, odooVars, fixer, recalc, edits, kept, raced>>
    /\ \/ /\ Owns(w)
          /\ Capped(w)
          /\ status' = "failed"
          /\ reason' = "attempt_limit"
          /\ left' = wk[w].lease
       \/ /\ Owns(w)
          /\ ~Capped(w)
          /\ \E d \in RetryDelays(w) : left' = Max2(d, atLeast)
          /\ UNCHANGED <<status, reason>>
       \/ /\ ~Owns(w)
          /\ UNCHANGED <<status, reason, left>>

(* An exception of a read or of a transaction outside the operation loop.  *)
Recoverable(w) == Fault /\ RetryOrFail(w, 0) /\ UNCHANGED prog

(* Mutant: the retry does not wait for the reservation.                    *)
RecoverableInLoop_BackoffOnly(w) == Fault /\ RetryOrFail(w, 0) /\ UNCHANGED prog

(* An exception in the operation loop, before or after the renewal that    *)
(* precedes the remote call: the retry waits for the reservation too.      *)
RecoverableInLoop(w) ==
    \E r \in {prog.res.left, Lease} :
        /\ Fault
        /\ prog' = [prog EXCEPT !.res.left = r]
        /\ RetryOrFail(w, r)

-----------------------------------------------------------------------------
(* Claiming and validating *)

(* Mutant: only planned jobs are picked up.                                *)
Claimable_PlannedOnly == status = "planned"

(* The WHERE of _claim_job: planned, or its updated_at has passed.         *)
Claimable == status = "planned" \/ (status \in Active /\ left = 0)

(* _claim_job *)
Claim(w) ==
    /\ ~Busy(w)
    /\ Claimable
    /\ status' = IF status = "planned" THEN "applying" ELSE status
    /\ attempt' = attempt + 1
    /\ left' = Lease
    /\ Become(w, [pc |-> "start", att |-> attempt + 1, lease |-> Lease,
                  st |-> status', cp |-> prog, k |-> 0,
                  bad |-> {k \in Ops : odoo[k] = "changed"}])
    /\ UNCHANGED <<prog, reason, audits, odooVars, envVars>>

(* _validated_completed_records and _validate_operation_progress on the    *)
(* claimed row: operations form a prefix; stages need all of them; a       *)
(* reservation is the last record, for the next operation, from an         *)
(* earlier attempt.                                                        *)
ValidProgress(p, att) ==
    /\ \A k \in p.done : 1..k \subseteq p.done
    /\ p.stage > 0 => p.done = Ops
    /\ p.res.op # 0 =>
          /\ p.stage = 0
          /\ p.res.op \notin p.done
          /\ 1..(p.res.op - 1) \subseteq p.done
          /\ p.res.att < att

(* The first part of _process_claim, with _freeze_recalc_horizon.          *)
Start(w) ==
    LET cp == [wk[w].cp EXCEPT !.horizon = TRUE]
        next == IF wk[w].st = "applying" THEN "preflight" ELSE "verify"
    IN /\ wk[w].pc = "start"
       /\ \/ /\ ~ValidProgress(wk[w].cp, wk[w].att)
             /\ \/ Owns(w) /\ Fail(w, "invalid_plan")
                \/ ~Owns(w) /\ Superseded(w)
          \/ /\ ValidProgress(wk[w].cp, wk[w].att)
             /\ wk[w].cp.horizon
             /\ Goto(w, next)
             /\ UNCHANGED <<jobVars, odooVars, envVars>>
          \/ /\ ValidProgress(wk[w].cp, wk[w].att)
             /\ ~wk[w].cp.horizon
             /\ \/ /\ Owns(w)
                   /\ prog' = cp
                   /\ left' = wk[w].lease
                   /\ Become(w, [wk[w] EXCEPT !.cp = cp, !.pc = next])
                   /\ UNCHANGED <<status, attempt, reason, audits,
                                  odooVars, envVars>>
                \/ ~Owns(w) /\ Superseded(w)
                \/ Recoverable(w)

(* _heartbeat_claim before a remote read that changes nothing else.        *)
Heartbeat == left' = Lease /\ UNCHANGED <<status, attempt, prog, reason, audits>>

(* Mutant: a row that already matches the plan is not recognised.          *)
SourceState_NeverAfter(k) == IF odoo[k] = "after" THEN "changed" ELSE odoo[k]

(* Mutant: the comparison leaves out the row's fields and write_date.      *)
SourceState_IgnoresChange(k) == IF odoo[k] = "changed" THEN "before" ELSE odoo[k]

(* _operation_source_state of the row as it is now in Odoo.                *)
SourceState(k) == odoo[k]

(* Mutant: only the targets are validated up front.                        *)
PreflightFine_TargetsOnly(k) == k = 0 => target /\ rest

(* What one preflight read must find.                                      *)
PreflightFine(k) == IF k = 0 THEN target /\ rest ELSE SourceState(k) # "changed"

(* _validate_applying_targets (k = 0, with the rows that have no           *)
(* operation) and _preflight_operations (one read per operation).          *)
Preflight(w) ==
    LET k == wk[w].k
        fine == PreflightFine(k)
    IN /\ wk[w].pc = "preflight"
       /\ \/ ~Owns(w) /\ Superseded(w)
          \/ Owns(w) /\ ~fine /\ Fail(w, "source_changed")
          \/ Owns(w) /\ Recoverable(w)
          \/ /\ Owns(w)
             /\ fine
             /\ Heartbeat
             /\ Become(w, IF k < NumOps THEN [wk[w] EXCEPT !.k = k + 1]
                                        ELSE [wk[w] EXCEPT !.pc = "reserve"])
             /\ UNCHANGED <<odooVars, envVars>>

-----------------------------------------------------------------------------
(* The operation loop *)

(* Mutant: any open operation.                                             *)
IsNextOp_AnyOpen(k, cp) == k \notin cp.done

(* The loop of _process_claim takes the operations in order and skips the  *)
(* completed ones.                                                         *)
IsNextOp(k, cp) == k \notin cp.done /\ 1..(k - 1) \subseteq cp.done

(* _reserve_operation for the next operation; a reservation that still     *)
(* runs, or a lost claim, ends the attempt.                                *)
Reserve(w) ==
    /\ wk[w].pc = "reserve"
    /\ \E k \in Ops :
        /\ IsNextOp(k, wk[w].cp)
        /\ \/ /\ \/ ~OwnsApplying(w)
                 \/ k \in prog.done
                 \/ prog.res.left > 0
              /\ Superseded(w)
           \/ /\ OwnsApplying(w)
              /\ k \notin prog.done
              /\ prog.res.left = 0
              /\ prog' = [prog EXCEPT !.res =
                            [op |-> k, att |-> wk[w].att, left |-> Lease]]
              /\ left' = Lease
              /\ Become(w, [wk[w] EXCEPT !.pc = "read", !.k = k])
              /\ UNCHANGED <<status, attempt, reason, audits, odooVars, envVars>>

(* The transition to verifying when every operation is on record.          *)
FinishOperations(w) ==
    /\ wk[w].pc = "reserve"
    /\ wk[w].cp.done = Ops
    /\ \/ ~Owns(w) /\ Superseded(w)
       \/ /\ Owns(w)
          /\ status' = "verifying"
          /\ left' = wk[w].lease
          /\ Become(w, [wk[w] EXCEPT !.pc = "verify", !.st = "verifying"])
          /\ UNCHANGED <<attempt, prog, reason, audits, odooVars, envVars>>

(* Mutant: the fence is checked but the deadlines are not extended.        *)
Renew_FenceOnly == UNCHANGED jobVars

(* _renew_operation_reservation: fence, then extend reservation and lease. *)
Renew == prog' = [prog EXCEPT !.res.left = Lease]
         /\ left' = Lease
         /\ UNCHANGED <<status, attempt, reason, audits>>

(* The guard read of _perform_operation.                                   *)
Read(w) ==
    LET k == wk[w].k
    IN /\ wk[w].pc = "read"
       /\ \/ ~HoldsReservation(w) /\ Superseded(w)
          \/ HoldsReservation(w) /\ SourceState(k) = "changed" /\ Fail(w, "source_changed")
          \/ HoldsReservation(w) /\ RecoverableInLoop(w)
          \/ /\ HoldsReservation(w)
             /\ SourceState(k) # "changed"
             /\ Renew
             /\ Goto(w, IF SourceState(k) = "after" THEN "confirm" ELSE "write")
             /\ UNCHANGED <<odooVars, envVars>>

(* The mutation request: renew, then send.  From here the request may take *)
(* effect at any time until the renewed deadline.                          *)
Write(w) ==
    /\ wk[w].pc = "write"
    /\ \/ ~HoldsReservation(w) /\ Superseded(w)
       \/ /\ HoldsReservation(w)
          /\ Renew
          /\ pend' = pend \cup {[op |-> wk[w].k, att |-> wk[w].att, left |-> Lease]}
          /\ Goto(w, "sent")
          /\ UNCHANGED <<odoo, rest, target, envVars>>

(* The workers waiting for the answer to request m learn it.               *)
Answer(m, pc) ==
    wk' = [w \in Workers |->
             IF wk[w].pc = "sent" /\ wk[w].att = m.att
             THEN [wk[w] EXCEPT !.pc = pc] ELSE wk[w]]

(* Odoo: a create is refused when its interval is taken; an update or a    *)
(* delete overwrites whatever the row has become.                          *)
Land(m) ==
    LET takesEffect == m.op \in CreateOps => odoo[m.op] = "before"
    IN /\ m \in pend
       /\ pend' = pend \ {m}
       /\ odoo' = IF takesEffect THEN [odoo EXCEPT ![m.op] = "after"] ELSE odoo
       /\ Answer(m, IF takesEffect THEN "acked" ELSE "erred")
       /\ UNCHANGED <<jobVars, rest, target, envVars>>

(* The request is lost or refused: it never takes effect.                  *)
Lose(m) ==
    /\ m \in pend
    /\ Fault
    /\ pend' = pend \ {m}
    /\ Answer(m, "erred")
    /\ UNCHANGED <<jobVars, odoo, rest, target, fixer, recalc, edits, kept, raced>>

(* The client gives up on the answer (_XMLRPC_TIMEOUT_SECONDS); the        *)
(* request may still take effect.                                          *)
TimeOut(w) ==
    /\ wk[w].pc = "sent"
    /\ Fault
    /\ Goto(w, "erred")
    /\ UNCHANGED <<jobVars, odooVars, fixer, recalc, edits, kept, raced>>

(* The read-back of _perform_operation after an answer or an exception.    *)
ReadBack(w) ==
    LET k == wk[w].k
    IN /\ wk[w].pc \in {"acked", "erred"}
       /\ \/ ~HoldsReservation(w) /\ Superseded(w)
          \/ HoldsReservation(w) /\ RecoverableInLoop(w)
          \/ /\ HoldsReservation(w)
             /\ SourceState(k) = "after"
             /\ Renew
             /\ Goto(w, "confirm")
             /\ UNCHANGED <<odooVars, envVars>>
          \/ /\ HoldsReservation(w)
             /\ SourceState(k) = "changed"
             /\ wk[w].pc = "erred"
             /\ Fail(w, "source_changed")
          \/ /\ HoldsReservation(w)
             /\ SourceState(k) # "after"
             /\ (wk[w].pc = "erred" => SourceState(k) = "before")
             /\ prog' = [prog EXCEPT !.res.left = Lease]
             /\ RetryOrFail(w, Lease)
             /\ UNCHANGED faults

(* _complete_reserved_operation *)
Confirm(w) ==
    LET k == wk[w].k
        cp == [wk[w].cp EXCEPT !.done = @ \cup {k}]
    IN /\ wk[w].pc = "confirm"
       /\ \/ ~HoldsReservation(w) /\ Superseded(w)
          \/ /\ HoldsReservation(w)
             /\ prog' = [prog EXCEPT !.res = NoRes, !.done = @ \cup {k}]
             /\ left' = Max2(wk[w].lease, prog.res.left)
             /\ Become(w, [wk[w] EXCEPT !.pc = "reserve", !.k = 0, !.cp = cp])
             /\ UNCHANGED <<status, attempt, reason, audits, odooVars, envVars>>

-----------------------------------------------------------------------------
(* Verification and the downstream stages *)

Verified == rest /\ \A k \in Ops : odoo[k] = "after"

(* Mutant: a resumed job goes straight to the recalculation.               *)
Downstream_SkipsMirror(stage) == "recalc"

(* What is left to do once Odoo is verified, by the stages on record.      *)
Downstream(stage) ==
    CASE stage = 0 -> "mirror" [] stage = 1 -> "enqueue" [] OTHER -> "recalc"

(* _verification_rows, on the way to recalculating or on a resume there.   *)
Verify(w) ==
    /\ wk[w].pc = "verify"
    /\ \/ ~Owns(w) /\ Superseded(w)
       \/ Owns(w) /\ ~Verified /\ Fail(w, "mismatch")
       \/ Owns(w) /\ Recoverable(w)
       \/ /\ Owns(w)
          /\ Verified
          /\ status' = "recalculating"
          /\ left' = IF wk[w].st = "verifying" THEN wk[w].lease ELSE Lease
          /\ Become(w, [wk[w] EXCEPT !.pc = Downstream(wk[w].cp.stage),
                                     !.st = "recalculating"])
          /\ UNCHANGED <<attempt, prog, reason, audits, odooVars, envVars>>

(* The local `completed` with one more stage replaces the durable list.    *)
RecordStage(w, stage, pc) ==
    LET cp == [wk[w].cp EXCEPT !.stage = stage]
    IN /\ prog' = cp
       /\ left' = wk[w].lease
       /\ Become(w, [wk[w] EXCEPT !.pc = pc, !.cp = cp])
       /\ UNCHANGED <<status, attempt, reason, audits, odooVars>>

(* _mirror_verified_rows *)
Mirror(w) ==
    /\ wk[w].pc = "mirror"
    /\ \/ ~OwnsRecalculating(w) /\ Superseded(w)
       \/ Recoverable(w)
       \/ /\ OwnsRecalculating(w)
          /\ RecordStage(w, 1, "enqueue")
          /\ UNCHANGED envVars

(* _enqueue_recalculation: the queue rows and the stage in one transaction *)
Enqueue(w) ==
    /\ wk[w].pc = "enqueue"
    /\ \/ ~OwnsRecalculating(w) /\ Superseded(w)
       \/ Recoverable(w)
       \/ /\ OwnsRecalculating(w)
          /\ RecordStage(w, 2, "recalc")
          /\ recalc' = "queued"
          /\ UNCHANGED <<fixer, faults, edits, kept, raced>>

(* _run_recalculation: waits for the queue, works on it itself; unfenced.  *)
RunRecalculation(w) ==
    /\ wk[w].pc = "recalc"
    /\ \/ Recoverable(w)
       \/ /\ recalc' = "done"
          /\ Goto(w, CASE wk[w].cp.stage = 2 -> "recalcDone"
                      [] wk[w].cp.stage = 3 -> "cache"
                      [] OTHER -> "audit")
          /\ UNCHANGED <<jobVars, odooVars, fixer, faults, edits, kept, raced>>

(* _complete_record for recalc_complete and for cache_refreshed.           *)
CompleteStage(w) ==
    /\ wk[w].pc \in {"recalcDone", "cache"}
    /\ \/ ~Owns(w) /\ Superseded(w)
       \/ /\ Owns(w)
          /\ IF wk[w].pc = "recalcDone" THEN RecordStage(w, 3, "cache")
                                        ELSE RecordStage(w, 4, "audit")
          /\ UNCHANGED envVars

(* _complete_with_audit *)
CompleteWithAudit(w) ==
    /\ wk[w].pc = "audit"
    /\ \/ ~OwnsRecalculating(w) /\ Superseded(w)
       \/ Recoverable(w)
       \/ /\ OwnsRecalculating(w)
          /\ status' = "complete"
          /\ audits' = audits + 1
          /\ left' = 0
          /\ Stop(w)
          /\ UNCHANGED <<attempt, prog, reason, odooVars, envVars>>

(* The process dies, or an exception leaves process_job.                   *)
Crash(w) ==
    /\ Busy(w)
    /\ Fault
    /\ Stop(w)
    /\ UNCHANGED <<jobVars, odooVars, fixer, recalc, edits, kept, raced>>

WorkerStep(w) ==
    \/ Start(w) \/ Preflight(w)
    \/ Reserve(w) \/ FinishOperations(w) \/ Read(w) \/ Write(w)
    \/ ReadBack(w) \/ Confirm(w)
    \/ Verify(w) \/ Mirror(w) \/ Enqueue(w) \/ RunRecalculation(w)
    \/ CompleteStage(w) \/ CompleteWithAudit(w)

-----------------------------------------------------------------------------
(* The environment *)

SomeEdit == edits < MaxEdits /\ edits' = edits + 1

(* The job has read row k as "before" and is about to write it, or has     *)
(* asked Odoo to: the window in which an outside edit cannot be seen.      *)
WriteUnderWay(k) ==
    \/ \E w \in Workers : wk[w].pc = "write" /\ wk[w].k = k
    \/ \E m \in pend : m.op = k

(* Somebody else changes the row of operation k, or makes the very change  *)
(* the plan wants; the interval of a create may also become free again.    *)
Edit(k, v) ==
    /\ SomeEdit
    /\ v # "before" \/ k \in CreateOps
    /\ odoo' = [odoo EXCEPT ![k] = v]
    /\ kept' = IF v = "changed" /\ ~WriteUnderWay(k) THEN kept \cup {k}
                                                     ELSE kept \ {k}
    /\ raced' = (raced \/ (v = "after" /\ WriteUnderWay(k)))
    /\ wk' = [w \in Workers |-> [wk[w] EXCEPT !.bad = @ \ {k}]]
    /\ UNCHANGED <<jobVars, rest, target, pend, fixer, recalc, faults>>

(* Other attendance rows, or the work-center mapping and the roster.       *)
EditAround ==
    /\ SomeEdit
    /\ \/ rest' = ~rest /\ UNCHANGED target
       \/ target' = ~target /\ UNCHANGED rest
    /\ UNCHANGED <<jobVars, odoo, pend, fixer, recalc, faults, kept, raced, wk>>

(* attendance_recalc.process_next in the warmer finishes the days; another *)
(* change to those days queues them again.                                 *)
RecalcQueue ==
    /\ \/ recalc = "queued" /\ recalc' = "done" /\ UNCHANGED edits
       \/ recalc = "done" /\ recalc' = "queued" /\ SomeEdit
    /\ UNCHANGED <<jobVars, odooVars, fixer, faults, kept, raced, wk>>

Minus1(n) == IF n = 0 THEN 0 ELSE n - 1

TickProgress(p) == [p EXCEPT !.res.left = Minus1(@)]

(* The lease of a working claim runs out: the worker was too slow.         *)
Lapse ==
    /\ status \in Active
    /\ left = 1
    /\ \E w \in Workers : Busy(w) /\ wk[w].att = attempt

(* Time passes.  Odoo decides a request before the deadline that was       *)
(* renewed for it: the 15-minute lease is far above the client's time-out. *)
Tick ==
    /\ \/ left > 0
       \/ pend # {}
       \/ \E w \in Workers : wk[w].lease > 0
    /\ \A m \in pend : m.left > 1
    /\ IF Lapse THEN Fault ELSE UNCHANGED faults
    /\ left' = Minus1(left)
    /\ prog' = TickProgress(prog)
    /\ pend' = {[m EXCEPT !.left = @ - 1] : m \in pend}
    /\ wk' = [w \in Workers |-> [wk[w] EXCEPT !.lease = Minus1(@),
                                             !.cp = TickProgress(@)]]
    /\ UNCHANGED <<status, attempt, reason, audits, odoo, rest, target,
                   fixer, recalc, edits, kept, raced>>

(* The job is settled and nobody works on it.                              *)
Settled ==
    /\ status \in Terminal
    /\ \A w \in Workers : ~Busy(w)
    /\ pend = {}
    /\ UNCHANGED vars

Next ==
    \/ \E w \in Workers : Claim(w) \/ WorkerStep(w) \/ TimeOut(w) \/ Crash(w)
    \/ \E m \in pend : Land(m) \/ Lose(m)
    \/ \E k \in Ops, v \in RowStates : Edit(k, v)
    \/ EditAround
    \/ RecalcQueue
    \/ Tick
    \/ Settled

Spec == Init /\ [][Next]_vars

(* Threads run, the warmer keeps claiming, Odoo decides every request, and *)
(* time passes.  Faults and edits are never forced.                        *)
Fairness ==
    /\ \A w \in Workers : WF_vars(WorkerStep(w))
    /\ WF_vars(\E w \in Workers : Claim(w))
    /\ WF_vars(\E m \in pend : Land(m))
    /\ WF_vars(Tick)

FairSpec == Spec /\ Fairness

-----------------------------------------------------------------------------
(* Properties.                                                             *)
(*                                                                         *)
(* When somebody else makes exactly the planned change while the job's own *)
(* request is under way, the read-back adopts their row and the request    *)
(* outlives its operation: it is then a harmless repetition, and the three *)
(* properties about requests under way exclude that case (raced).          *)

(* However workers are scheduled, delayed or killed, at most one Odoo      *)
(* write of the job is undecided: a reclaimed job never writes while the   *)
(* request of an earlier attempt can still take effect (_reserve_operation,*)
(* _renew_operation_reservation, _retry_or_fail).                          *)
ExclusiveWrite == raced \/ Cardinality(pend) <= 1

(* A write is only under way when every earlier write of the plan is       *)
(* durably confirmed and it is not confirmed itself, so Odoo never sees    *)
(* the plan out of its overlap-safe order (_ordered_operations).           *)
SafeOrder ==
    raced \/ \A m \in pend : 1..(m.op - 1) \subseteq prog.done /\ m.op \notin prog.done

(* From verification on, nothing the job asked of Odoo is still undecided, *)
(* so what was verified is not changed by the job itself afterwards.       *)
VerifiedIsFinal ==
    status \in {"verifying", "recalculating", "complete"} =>
        prog.done = Ops /\ (raced \/ pend = {})

(* While a reservation runs, the row cannot be claimed: the two deadlines  *)
(* that _reserve_operation, the renewals and the retries write agree.      *)
LeaseCoversReservation == status = "applying" => prog.res.left <= left

(* A row that somebody else changed while the job had no write for it      *)
(* under way is never overwritten, whatever attempt gets to it.            *)
ProtectedEdit == \A k \in kept : odoo[k] = "changed"

(* The four promises about what a job asks of Odoo, together.              *)
SafeWrites == ExclusiveWrite /\ SafeOrder /\ LeaseCoversReservation /\ ProtectedEdit

(* No attempt makes its first write when some row of the plan was already  *)
(* changed at its claim: _preflight_operations finds it first.             *)
PreflightProtects ==
    \A w \in Workers :
        wk[w].pc \in {"reserve", "read", "write", "sent", "acked", "erred"} =>
            wk[w].bad = {}

(* The job's own writes, late ones and those of killed attempts included,  *)
(* are never taken for somebody else's change.                             *)
FailureHasCause ==
    status = "failed" /\ reason \in {"source_changed", "mismatch"} => edits > 0

(* A completed job has every operation and every stage on record, nothing  *)
(* under way, and exactly one audit event; no other job has one.           *)
CompleteMeansDone ==
    IF status = "complete"
    THEN prog.done = Ops /\ prog.stage = 4 /\ audits = 1 /\ recalc # "none"
    ELSE audits = 0

(* What a job says of itself holds: a first write, a failure, a             *)
(* verification and a completion all had their grounds (_process_claim).   *)
HonestOutcome == PreflightProtects /\ FailureHasCause /\ CompleteMeansDone /\ VerifiedIsFinal

(* Confirmed operations, recorded stages and the frozen horizon are never  *)
(* lost again, although the stages are written from a worker's private     *)
(* copy; attempts only grow; a settled job stays as it is.                 *)
ProgressIsKept ==
    [][ /\ prog.done \subseteq prog'.done
        /\ prog.stage <= prog'.stage
        /\ prog.horizon => prog'.horizon
        /\ attempt <= attempt'
        /\ status \in Terminal =>
              status' = status /\ prog'.done = prog.done /\ attempt' = attempt
      ]_vars

(* The inductive invariant behind the properties above.                    *)
Current(w) == Busy(w) /\ wk[w].att = attempt

(* One worker holds the current attempt, and it knows the durable state.   *)
FenceInv ==
    /\ \A w \in Workers : Busy(w) => wk[w].att <= attempt
    /\ \A v, w \in Workers : Current(v) /\ Current(w) => v = w
    /\ \A w \in Workers :
          Current(w) => /\ status \in Active
                        /\ wk[w].st = status
                        /\ wk[w].cp.done = prog.done
                        /\ wk[w].cp.res.left = 0
                        /\ wk[w].pc \in LoopPCs => IsNextOp(wk[w].k, prog)
                        /\ wk[w].pc \notin LoopPCs => prog.res.left = 0
                        /\ wk[w].pc = "verify" => status # "applying"

(* The job cannot be claimed while a reservation runs, and verification    *)
(* waits for every operation.                                              *)
LeaseInv ==
    /\ status = "applying" => prog.res.left <= left
    /\ status \notin {"applying", "failed"} => prog.res.left = 0
    /\ status \in {"verifying", "recalculating", "complete"} => prog.done = Ops

(* A request under way belongs to the current attempt, to the reserved and *)
(* next operation, and runs out before the reservation and the lease.      *)
RequestInv(m) ==
    /\ m.att = attempt
    /\ status \in {"applying", "failed"}
    /\ status = "applying" => m.left <= prog.res.left /\ m.left <= left
    /\ m.op = prog.res.op
    /\ IsNextOp(m.op, prog)
    /\ odoo[m.op] # "after"

WriteInv ==
    /\ \A m \in pend : m.left >= 1
    /\ ~raced =>
          /\ \A m \in pend : RequestInv(m)
          /\ \A m, n \in pend : m = n
          /\ \A w \in Workers : Current(w) =>
                /\ wk[w].pc \notin {"sent", "erred"} => pend = {}
                /\ wk[w].pc = "write" => odoo[wk[w].k] # "after"

(* Why a claim, a write and a verification exclude one another: what the   *)
(* row's fence, lease and reservation say about workers and requests.      *)
JobInv == FenceInv /\ LeaseInv /\ WriteInv

DownstreamPCs == {"mirror", "enqueue", "recalc", "recalcDone", "cache", "audit"}

(* What the holder of the current attempt knows of the recorded stages.    *)
StageInv(w) ==
    Current(w) =>
        /\ wk[w].cp.stage = prog.stage
        /\ wk[w].cp.horizon = prog.horizon
        /\ wk[w].pc \in DownstreamPCs => status = "recalculating"
        /\ wk[w].pc = "mirror" => prog.stage = 0
        /\ wk[w].pc = "enqueue" => prog.stage = 1
        /\ wk[w].pc = "recalc" => prog.stage >= 2
        /\ wk[w].pc = "recalcDone" => prog.stage = 2
        /\ wk[w].pc = "cache" => prog.stage = 3
        /\ wk[w].pc = "audit" => prog.stage = 4

(* What it knows of Odoo: until it has validated every row nothing of the  *)
(* job is under way, later nothing outlives its reservation, and what it   *)
(* confirms was made.                                                      *)
KnownInv(w) ==
    Current(w) =>
        /\ wk[w].pc = "start" => wk[w].k = 0
        /\ wk[w].pc = "preflight" => status = "applying"
        /\ wk[w].pc \in {"start", "preflight"} /\ status = "applying" =>
              /\ pend = {}
              /\ \A j \in wk[w].bad : odoo[j] = "changed" /\ j >= wk[w].k
        /\ wk[w].pc \in LoopPCs =>
              /\ wk[w].bad = {}
              /\ \A m \in pend : m.left <= prog.res.left
        /\ wk[w].pc = "confirm" /\ edits = 0 => odoo[wk[w].k] = "after"

(* While nobody else edits, Odoo is as the job left it.                    *)
AloneInv ==
    edits = 0 => /\ rest /\ target
                 /\ \A k \in Ops : odoo[k] # "changed"
                 /\ \A k \in prog.done : odoo[k] = "after"

(* Why the job's outcome is honest, whether or not somebody raced with it. *)
OutcomeInv ==
    /\ \A w \in Workers : StageInv(w) /\ KnownInv(w)
    /\ AloneInv
    /\ PreflightProtects
    /\ FailureHasCause
    /\ status = "applying" => \A m \in pend : m.left <= left
    /\ status = "planned" => pend = {}
    /\ audits = IF status = "complete" THEN 1 ELSE 0
    /\ status = "complete" => prog.stage = 4
    /\ prog.stage >= 2 => recalc # "none"

(* With finitely many faults the job is settled in the end: no sequence of *)
(* crashes, lost answers and superseded workers leaves it stuck.           *)
EventuallySettled == <>(status \in Terminal)

(* Claimed by the docstring of _retry_or_fail: "After verification Odoo is *)
(* already correct, so the fixer waits out the mirror, recalculation, and  *)
(* audit steps like a manager job and still finishes".                     *)
VerifiedJobNeverFails ==
    [][status = "recalculating" /\ edits = 0 => status' # "failed"]_vars

(* Claimed there too: a fixer job stops at the attempt cap "only while it  *)
(* has written nothing to Odoo".                                           *)
CapLeavesOdooUntouched ==
    reason = "attempt_limit" /\ edits = 0 => \A k \in Ops : odoo[k] = "before"
=============================================================================
