--------------------------- MODULE FeedbackTasks ----------------------------
(***************************************************************************)
(* The delivery of one feedback to the app owner as a task in Odoo         *)
(* (feedback_task_delivery.py, feedback_task_worker.py), for a feedback    *)
(* whose owner is the coding project.                                      *)
(*                                                                         *)
(* A worker leases the row for two minutes, finds the task by its unique   *)
(* name or creates it, attaches the screenshot, brings stage and state to  *)
(* what the feedback says, posts one result note when the feedback ends,   *)
(* reads everything back and settles the version it claimed.  After an     *)
(* uncertain answer it looks again before it does anything twice; the HTTP *)
(* client below a call does not, and sends it again when the connection    *)
(* drops.  Every batch begins by queueing the tasks that lag behind their  *)
(* feedback.                                                               *)
(*                                                                         *)
(* A read of Odoo and the compare-and-set after it are one step; a call    *)
(* that changes Odoo is a step of its own, after the lease was renewed.    *)
(***************************************************************************)
EXTENDS Naturals, FiniteSets

CONSTANTS Batches,     \* processes that run the batch
          MaxTasks,    \* bound: tasks Odoo ever holds under this name
          MaxCopies,   \* bound: screenshots, and result notes, Odoo ever holds
          MaxTroubles, \* bound: calls that fail, processes that die, leases outrun
          MaxContract, \* bound: releases of the task contract
          MaxReplays,  \* bound: calls the HTTP client sends again by itself
          Image        \* the feedback came with a screenshot

NoTask == 0
NoBatch == "nobody"

ASSUME TaskAssumption ==
    /\ NoBatch \notin Batches /\ Image \in BOOLEAN
    /\ MaxTasks \in Nat /\ MaxCopies \in Nat /\ MaxTroubles \in Nat
    /\ MaxContract \in Nat \ {0} /\ MaxReplays \in Nat

VARIABLES tstatus,   \* feedback.status
          contract,  \* TASK_SYNC_CONTRACT_VERSION of the running release
          row,       \* the row of feedback_task_delivery
          tasks,     \* what each task in Odoo says
          shots,     \* screenshots on the recorded task
          notes,     \* result notes on the recorded task
          twk,       \* what each worker is doing
          tlate,     \* calls nobody waits for and Odoo still runs
          slow,      \* history: Odoo went on with a call nobody waits for
          overlap,   \* history: two batches were at work on the row
          replays,   \* history: calls that were sent twice
          troubles

taskVars == <<tstatus, contract, row, tasks, shots, notes, twk, tlate, slow, overlap,
              replays, troubles>>

TaskIds == 1..MaxTasks
TaskStatuses == {"requested", "in_progress", "completed", "declined"}
Terminal == {"completed", "declined"}

MovesTo(s) ==
    CASE s = "requested" -> {"in_progress", "completed", "declined"}
      [] s = "in_progress" -> {"completed", "declined"}
      [] OTHER -> {}

IdleBatch == [pc |-> "idle", ver |-> 0, con |-> 0, says |-> "requested",
              snap |-> 0, got |-> NoTask]

TaskInit ==
    /\ tstatus = "requested"
    /\ contract = 1
    /\ row = [st |-> "pending", wait |-> FALSE, owner |-> NoBatch,
              desired |-> 1, last |-> 0, dcon |-> 1, lcon |-> 0,
              task |-> NoTask, attached |-> FALSE]
    /\ tasks = [i \in TaskIds |-> "none"]
    /\ shots = 0 /\ notes = 0
    /\ twk = [w \in Batches |-> IdleBatch]
    /\ tlate = {} /\ slow = FALSE /\ overlap = FALSE /\ replays = 0
    /\ troubles = 0

\* find_feedback_task_ids: the tasks that carry this feedback's name.
FoundTasks == {i \in TaskIds : tasks[i] # "none"}

Trouble == troubles < MaxTroubles /\ troubles' = troubles + 1
odoo == <<tasks, shots, notes, tlate, slow>>
local == <<tstatus, contract, overlap, replays>>

(***************************************************************************)
(* The feedback changes, a release raises the contract, and a batch queues *)
(* what lags.                                                              *)
(***************************************************************************)
Moved ==
    \E s \in MovesTo(tstatus) :
        /\ tstatus' = s
        /\ row' = [row EXCEPT !.desired = @ + 1, !.dcon = contract,
                              !.wait = FALSE,
                              !.st = IF @ \in {"in_flight", "blocked"}
                                     THEN @ ELSE "pending"]
        /\ UNCHANGED <<contract, overlap, replays, odoo, twk, troubles>>

Release ==
    /\ contract < MaxContract
    /\ contract' = contract + 1
    /\ UNCHANGED <<tstatus, overlap, replays, row, odoo, twk, troubles>>

Lags == row.last < row.desired \/ row.dcon < contract \/ row.lcon < contract

\* queue_existing_lifecycle_mismatches, when a batch begins: whatever the row
\* is doing, unless it is blocked.
QueueMismatch(w) ==
    /\ twk[w].pc = "idle"
    /\ row.task # NoTask /\ row.st # "blocked" /\ Lags
    /\ row' = [row EXCEPT !.st = "pending", !.wait = FALSE, !.owner = NoBatch,
                          !.dcon = contract]
    /\ UNCHANGED <<local, odoo, twk, troubles>>

(***************************************************************************)
(* The lease.                                                              *)
(***************************************************************************)
(* Mutant: an expired lease is not due. *)
DeadStays == FALSE

Dead == row.st = "in_flight" /\ twk[row.owner].pc = "idle"

ClaimTask(w) ==
    /\ twk[w].pc = "idle"
    /\ (row.st \in {"pending", "attention"} /\ ~row.wait) \/ Dead
    /\ row' = [row EXCEPT !.st = "in_flight", !.owner = w]
    /\ twk' = [twk EXCEPT ![w] = [IdleBatch EXCEPT !.pc = "load",
                                            !.ver = row.desired,
                                            !.con = row.dcon]]
    /\ overlap' = (overlap \/ \E v \in Batches : twk[v].pc # "idle")
    /\ UNCHANGED <<tstatus, contract, replays, odoo, troubles>>

\* The retry's delay is longer than Odoo works on a call.
DelayPasses ==
    /\ row.wait /\ tlate = {}
    /\ row' = [row EXCEPT !.wait = FALSE]
    /\ UNCHANGED <<local, odoo, twk, troubles>>

Calls == {"create", "upload", "write", "post"}

\* A live worker is slower than its lease; not in a call, before which it
\* renewed the lease.
LeaseOutrun ==
    /\ row.st = "in_flight" /\ twk[row.owner].pc \notin {"idle"} \cup Calls
    /\ Trouble
    /\ row' = [row EXCEPT !.st = "pending", !.owner = NoBatch]
    /\ UNCHANGED <<local, odoo, twk>>

Leases(w) == row.st = "in_flight" /\ row.owner = w
At(w, pc) == twk[w].pc = pc /\ Leases(w)

GoesOn(w, pc) == twk' = [twk EXCEPT ![w].pc = pc]
Drops(w) == twk' = [twk EXCEPT ![w] = IdleBatch]

\* The lease is somebody else's: renewing or recording raises.
LeaseLost(w) ==
    /\ twk[w].pc \notin {"idle"} \cup Calls
    /\ ~Leases(w)
    /\ Drops(w)
    /\ UNCHANGED <<local, row, odoo, troubles>>

Retry(w) ==
    /\ row' = [row EXCEPT !.st = "attention", !.wait = TRUE, !.owner = NoBatch]
    /\ Drops(w)

Block(w) ==
    /\ row' = [row EXCEPT !.st = "blocked", !.owner = NoBatch]
    /\ Drops(w)

Moves(w, pc) == GoesOn(w, pc) /\ UNCHANGED row

(***************************************************************************)
(* process_claim.                                                          *)
(***************************************************************************)
LoadSnapshot(w) ==
    /\ At(w, "load")
    /\ twk' = [twk EXCEPT ![w].pc = "task", ![w].says = tstatus,
                        ![w].snap = row.desired]
    /\ UNCHANGED <<local, row, odoo, troubles>>

RecordTask(w, i) == row' = [row EXCEPT !.task = i] /\ GoesOn(w, "attach")

(* Mutant: the task is created without a look. *)
DeliverUnseen(w) ==
    /\ At(w, "task")
    /\ IF row.task # NoTask THEN Moves(w, "attach") ELSE Moves(w, "create")
    /\ UNCHANGED <<local, odoo, troubles>>

DeliverTask(w) ==
    /\ At(w, "task")
    /\ IF row.task # NoTask THEN Moves(w, "attach")
       ELSE IF Cardinality(FoundTasks) > 1 THEN Block(w)
       ELSE IF Cardinality(FoundTasks) = 1
       THEN RecordTask(w, CHOOSE i \in FoundTasks : TRUE)
       ELSE Moves(w, "create")
    /\ UNCHANGED <<local, odoo, troubles>>

RecordTaskId(w) ==
    /\ At(w, "created")
    /\ RecordTask(w, twk[w].got)
    /\ UNCHANGED <<local, odoo, troubles>>

ResolveUncertainTask(w) ==
    /\ At(w, "recheck")
    /\ CASE Cardinality(FoundTasks) > 1 -> Block(w)
         [] Cardinality(FoundTasks) = 1 ->
              RecordTask(w, CHOOSE i \in FoundTasks : TRUE)
         [] OTHER -> Retry(w)
    /\ UNCHANGED <<local, odoo, troubles>>

RecordShot(w) ==
    /\ row' = [row EXCEPT !.attached = TRUE]
    /\ GoesOn(w, "life")

(* Mutant: the screenshot is uploaded without a look. *)
AttachUnseen(w) ==
    /\ At(w, "attach")
    /\ IF ~Image \/ row.attached THEN Moves(w, "life") ELSE Moves(w, "upload")
    /\ UNCHANGED <<local, odoo, troubles>>

DeliverBeforeAttachment(w) ==
    /\ At(w, "attach")
    /\ IF ~Image \/ row.attached THEN Moves(w, "life")
       ELSE IF shots > 1 THEN Block(w)
       ELSE IF shots = 1 THEN RecordShot(w)
       ELSE Moves(w, "upload")
    /\ UNCHANGED <<local, odoo, troubles>>

RecordBeforeAttachment(w) ==
    /\ At(w, "uploaded")
    /\ RecordShot(w)
    /\ UNCHANGED <<local, odoo, troubles>>

ResolveUncertainShot(w) ==
    /\ At(w, "reshot")
    /\ CASE shots > 1 -> Block(w)
         [] shots = 1 -> RecordShot(w)
         [] OTHER -> Retry(w)
    /\ UNCHANGED <<local, odoo, troubles>>

AfterStage(w) == IF twk[w].says \in Terminal THEN "note" ELSE "verify"

ReconcileLifecycle(w) ==
    /\ At(w, "life")
    /\ IF twk[w].snap # twk[w].ver THEN Retry(w)
       ELSE IF tasks[row.task] # twk[w].says THEN Moves(w, "write")
       ELSE Moves(w, AfterStage(w))
    /\ UNCHANGED <<local, odoo, troubles>>

(* Mutant: the note is posted without a look. *)
EnsureNoteBlindly(w) ==
    /\ At(w, "note")
    /\ Moves(w, "post")
    /\ UNCHANGED <<local, odoo, troubles>>

EnsureTerminalNote(w) ==
    /\ At(w, "note")
    /\ CASE notes > 1 -> Block(w)
         [] notes = 1 -> Moves(w, "verify")
         [] OTHER -> Moves(w, "post")
    /\ UNCHANGED <<local, odoo, troubles>>

RecoverTerminalNote(w) ==
    /\ At(w, "renote")
    /\ CASE notes > 1 -> Block(w)
         [] notes = 1 -> Moves(w, "verify")
         [] OTHER -> Retry(w)
    /\ UNCHANGED <<local, odoo, troubles>>

(* Mutant: the newest version counts as delivered, not the one claimed. *)
MarksNewest(w) ==
    /\ row' = [row EXCEPT !.last = row.desired, !.lcon = row.dcon,
                          !.st = "delivered", !.owner = NoBatch]
    /\ Drops(w)

MarkDelivered(w) ==
    /\ row' = [row EXCEPT
                 !.last = twk[w].ver, !.lcon = twk[w].con,
                 !.st = IF row.desired = twk[w].ver /\ row.dcon = twk[w].con
                        THEN "delivered" ELSE "pending",
                 !.owner = NoBatch]
    /\ Drops(w)

Verify(w) ==
    /\ At(w, "verify")
    /\ IF twk[w].says \in Terminal /\ notes > 1 THEN Block(w)
       ELSE IF tasks[row.task] # twk[w].says \/ (twk[w].says \in Terminal /\ notes = 0)
       THEN Retry(w)
       ELSE MarkDelivered(w)
    /\ UNCHANGED <<local, odoo, troubles>>

\* A read of Odoo fails before anything is written.
ReadFails(w) ==
    /\ twk[w].pc \in {"task", "recheck", "attach", "uploaded", "reshot",
                     "life", "note", "renote", "verify"}
    /\ twk[w].pc = "task" => row.task = NoTask
    /\ twk[w].pc = "attach" => Image /\ ~row.attached
    /\ Leases(w) /\ Trouble
    /\ Retry(w)
    /\ UNCHANGED <<local, odoo>>

(***************************************************************************)
(* The calls that change Odoo.                                             *)
(***************************************************************************)
Call(w) == [op |-> twk[w].pc, task |-> row.task, says |-> twk[w].says]

NewTasks == {i \in TaskIds : tasks[i] = "none" /\ \A j \in 1..(i - 1) :
                                                 tasks[j] # "none"}

\* What the call does when Odoo runs it, and the id it answers.
Runs(c, got) ==
    \/ /\ c.op = "create" /\ got \in NewTasks
       /\ tasks' = [tasks EXCEPT ![got] = "requested"]
       /\ UNCHANGED <<shots, notes>>
    \/ /\ c.op = "upload" /\ got = NoTask /\ shots < MaxCopies
       /\ shots' = shots + 1
       /\ UNCHANGED <<tasks, notes>>
    \/ /\ c.op = "write" /\ got = NoTask
       /\ tasks' = [tasks EXCEPT ![c.task] = c.says]
       /\ UNCHANGED <<shots, notes>>
    \/ /\ c.op = "post" /\ got = NoTask /\ notes < MaxCopies
       /\ notes' = notes + 1
       /\ UNCHANGED <<tasks, shots>>

Answered(w) ==
    CASE twk[w].pc = "create" -> "created"
      [] twk[w].pc = "upload" -> "uploaded"
      [] twk[w].pc = "write" -> AfterStage(w)
      [] OTHER -> "verify"

CallLands(w) ==
    /\ twk[w].pc \in Calls
    /\ \E got \in TaskIds \cup {NoTask} :
          /\ Runs(Call(w), got)
          /\ twk' = [twk EXCEPT ![w].pc = Answered(w), ![w].got = got]
    /\ UNCHANGED <<local, row, tlate, slow, troubles>>

\* The connection drops before the answer, and the HTTP client sends the call again by
\* itself: Odoo ran the first one, did not, or will.
CallReplayed(w) ==
    /\ twk[w].pc \in Calls /\ Trouble
    /\ replays < MaxReplays /\ replays' = replays + 1
    /\ \/ (\E got \in TaskIds \cup {NoTask} : Runs(Call(w), got)) /\ UNCHANGED <<tlate, slow>>
       \/ UNCHANGED odoo
       \/ /\ tlate' = tlate \cup {Call(w)} /\ slow' = TRUE
          /\ UNCHANGED <<tasks, shots, notes>>
    /\ UNCHANGED <<tstatus, contract, overlap, row, twk>>

\* No answer comes: Odoo ran the call, did not, or will.
TaskAnswerLost(w) ==
    /\ twk[w].pc \in Calls /\ Trouble
    /\ \/ (\E got \in TaskIds \cup {NoTask} : Runs(Call(w), got)) /\ UNCHANGED <<tlate, slow>>
       \/ UNCHANGED odoo
       \/ /\ tlate' = tlate \cup {Call(w)} /\ slow' = TRUE
          /\ UNCHANGED <<tasks, shots, notes>>
    /\ CASE twk[w].pc = "create" -> Moves(w, "recheck")
         [] twk[w].pc = "upload" -> Moves(w, "reshot")
         [] twk[w].pc = "post" -> Moves(w, "renote")
         [] OTHER -> IF Leases(w) THEN Retry(w) ELSE Drops(w) /\ UNCHANGED row
    /\ UNCHANGED local

CallLandsLate ==
    \E c \in tlate : \E got \in TaskIds \cup {NoTask} :
        /\ Runs(c, got)
        /\ tlate' = tlate \ {c}
        /\ UNCHANGED <<local, slow, row, twk, troubles>>

TaskCrash(w) ==
    /\ twk[w].pc # "idle" /\ Trouble
    /\ Drops(w)
    /\ UNCHANGED <<local, row, odoo>>

(***************************************************************************)
(* The specification.                                                      *)
(***************************************************************************)
BatchStep(w) ==
    \/ LeaseLost(w) \/ LoadSnapshot(w) \/ DeliverTask(w) \/ RecordTaskId(w)
    \/ ResolveUncertainTask(w) \/ DeliverBeforeAttachment(w)
    \/ RecordBeforeAttachment(w) \/ ResolveUncertainShot(w)
    \/ ReconcileLifecycle(w) \/ EnsureTerminalNote(w)
    \/ RecoverTerminalNote(w) \/ Verify(w) \/ CallLands(w)

Around == Moved \/ Release \/ DelayPasses \/ LeaseOutrun \/ CallLandsLate

BatchActs(w) ==
    \/ QueueMismatch(w) \/ ClaimTask(w) \/ BatchStep(w)
    \/ ReadFails(w) \/ CallReplayed(w) \/ TaskAnswerLost(w) \/ TaskCrash(w)

TaskNext == Around \/ \E w \in Batches : BatchActs(w)

TaskSpec == TaskInit /\ [][TaskNext]_taskVars

\* The batch runs every minute, a process that lives goes on, delays pass and
\* Odoo ends its calls; nobody need change the feedback.
TaskFairness ==
    /\ WF_taskVars(DelayPasses) /\ WF_taskVars(CallLandsLate)
    /\ WF_taskVars(\E w \in Batches : ClaimTask(w))
    /\ WF_taskVars(\E w \in Batches : row.st = "delivered" /\ QueueMismatch(w))
    /\ \A w \in Batches : WF_taskVars(BatchStep(w))

TaskLiveSpec == TaskSpec /\ TaskFairness

(***************************************************************************)
(* The properties.                                                         *)
(***************************************************************************)
\* Where a batch may be, and what the row, a batch and a call hold.
Places == Calls \cup {"idle", "load", "task", "created", "recheck", "attach",
                      "uploaded", "reshot", "life", "note", "renote", "verify"}

TaskRows ==
    [st : {"pending", "in_flight", "attention", "delivered", "blocked"},
     wait : BOOLEAN, owner : Batches \cup {NoBatch}, desired : 1..3, last : 0..3,
     dcon : 1..MaxContract, lcon : 0..MaxContract,
     task : TaskIds \cup {NoTask}, attached : BOOLEAN]

BatchWorks ==
    [pc : Places, ver : 0..3, con : 0..MaxContract, says : TaskStatuses,
     snap : 0..3, got : TaskIds \cup {NoTask}]

TaskCalls == [op : Calls, task : TaskIds \cup {NoTask}, says : TaskStatuses]

\* The values each variable may take (_schema.py:1925-1992).
TaskTypeOK ==
    /\ tstatus \in TaskStatuses /\ contract \in 1..MaxContract
    /\ row \in TaskRows
    /\ tasks \in [TaskIds -> TaskStatuses \cup {"none"}]
    /\ shots \in 0..MaxCopies /\ notes \in 0..MaxCopies
    /\ twk \in [Batches -> BatchWorks]
    /\ tlate \subseteq TaskCalls
    /\ slow \in BOOLEAN /\ overlap \in BOOLEAN
    /\ replays \in 0..MaxReplays /\ troubles \in 0..MaxTroubles

\* However batches overlap, die and lose answers, one feedback becomes one task, and
\* one more for every call the HTTP client sent twice, while Odoo ends its calls
\* (feedback_task_worker.py:368-449, odoo_client.py:75-98).
OneTask == ~slow => Cardinality(FoundTasks) <= 1 + replays

\* The screenshot is attached once and the result note is posted once, whatever
\* is retried, but for a call the HTTP client sent twice, while batches do not overlap
\* and Odoo ends its calls (feedback_task_worker.py:592-650, :707-728).
OneCopy == ~slow /\ ~overlap => shots <= 1 + replays /\ notes <= 1 + replays

\* A delivered row means what it says: the newest version, with the task, its
\* screenshot and, at the end, its result note; and, while batches do not
\* overlap and Odoo ends its calls, the task says what the feedback says now
\* (feedback_task_worker.py:730-758).
DeliveredIsTrue ==
    row.st = "delivered" =>
        /\ row.last = row.desired /\ row.task \in FoundTasks
        /\ Image => shots > 0
        /\ tstatus \in Terminal => notes > 0
        /\ ~slow /\ ~overlap => tasks[row.task] = tstatus

\* Two batches at once make one task (feedback_task_delivery.py:327); screenshot
\* and result note are there once (feedback_task_worker.py:425), but for what the HTTP
\* client sends twice; what counts as delivered is what the task says
\* (feedback_task_worker.py:676).
TasksAreRight == TaskTypeOK /\ OneTask /\ OneCopy /\ DeliveredIsTrue

\* Every change of the feedback, and every release of the task contract,
\* reaches the task or is blocked for the owner to look at
\* (feedback_task_worker.py:800-824).
DeliveryEnds ==
    (row.st # "delivered" \/ row.lcon < contract)
        ~> (row.st = "blocked" \/ (row.st = "delivered" /\ row.lcon = contract))

(***************************************************************************)
(* Why they hold: the invariant.                                           *)
(***************************************************************************)
\* A batch has the row at hand; looks after the screenshot; and after the stage
\* and the note, once it has compared its version with the feedback's.
Busy(w) == twk[w].pc # "idle"

Attaching == {"attach", "upload", "uploaded", "reshot"}
Settling == {"write", "note", "post", "renote", "verify"}
Finishing == Settling \cup {"life"}

\* The row: a claim is some batch's, the version counts the changes of the
\* feedback, and what it records is in Odoo.
LedgerInv ==
    /\ row.st = "in_flight" => row.owner \in Batches
    /\ tstatus = "requested" => row.desired = 1
    /\ tstatus = "in_progress" => row.desired = 2
    /\ row.task # NoTask => row.task \in FoundTasks
    /\ row.attached => shots > 0

\* What a batch has behind it, from its place in process_claim.
PlaceInv(w) ==
    /\ twk[w].pc = "created" => twk[w].got \in FoundTasks
    /\ twk[w].pc \in Attaching \cup Finishing => row.task # NoTask
    /\ twk[w].pc = "uploaded" => shots > 0
    /\ twk[w].pc \in Finishing => ~Image \/ row.attached
    /\ twk[w].pc \in Settling => twk[w].snap = twk[w].ver
    /\ twk[w].pc \notin {"idle", "load"} =>
          /\ twk[w].snap <= row.desired
          /\ twk[w].snap = row.desired => twk[w].says = tstatus

\* One batch at a time creates, and it has looked under its lease.
CreateInv ==
    ~slow =>
        /\ tlate = {}
        /\ Cardinality(FoundTasks) <= 1 + replays
        /\ \A w \in Batches : twk[w].pc = "create" =>
               Leases(w) /\ row.task = NoTask /\ Cardinality(FoundTasks) <= replays

\* A batch alone uploads and posts what it has not seen.
AloneInv ==
    ~slow /\ ~overlap =>
        /\ \A v, w \in Batches : Busy(v) /\ Busy(w) => v = w
        /\ shots <= 1 + replays /\ notes <= 1 + replays
        /\ \A w \in Batches : /\ twk[w].pc = "upload" => shots <= replays
                              /\ twk[w].pc = "post" => notes <= replays
        /\ row.st = "delivered" => \A w \in Batches : ~Busy(w)

\* The inductive invariant.
TasksInv ==
    /\ TaskTypeOK /\ LedgerInv /\ (\A w \in Batches : PlaceInv(w))
    /\ CreateInv /\ AloneInv /\ DeliveredIsTrue
=============================================================================
