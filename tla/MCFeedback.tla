---------------------------- MODULE MCFeedback ------------------------------
(***************************************************************************)
(* The two ways feedback goes to Odoo, the mirror of its record and the    *)
(* delivery of its task, checked side by side.  They share no row, so a    *)
(* behaviour is one of either; the other one stays at its beginning.       *)
(***************************************************************************)
EXTENDS FeedbackSync, FeedbackTasks

VARIABLE on   \* what the behaviour is about

FeedbackInit ==
    /\ Init /\ TaskInit
    /\ on \in {"mirror", "lone mirror", "task", "two batches", "slow task"}

\* Two batches of the mirror overlap, or one meets one more fault; a request sent
\* again takes the place of a fault.
MirrorNext == Next /\ faults' + resends' < MaxFaults
LoneNext == Next /\ wk'["w2"].pc = "idle"

\* One batch whose calls Odoo ends; two batches that overlap, with at most two
\* faults or calls sent again, one contract and two copies of anything; one batch,
\* and Odoo ends calls nobody waits for.
OneBatch == Around \/ BatchActs("w1")
TaskOnTime == OneBatch /\ ~slow'
TwoBatches ==
    /\ TaskNext /\ ~slow' /\ contract' = 1
    /\ troubles' + replays' <= 2 /\ shots' <= 2 /\ notes' <= 2
SlowTask == OneBatch /\ troubles' + replays' < MaxTroubles

FeedbackNext ==
    \/ on = "mirror" /\ MirrorNext /\ UNCHANGED <<on, taskVars>>
    \/ on = "lone mirror" /\ LoneNext /\ UNCHANGED <<on, taskVars>>
    \/ on = "task" /\ TaskOnTime /\ UNCHANGED <<on, vars>>
    \/ on = "two batches" /\ TwoBatches /\ UNCHANGED <<on, vars>>
    \/ on = "slow task" /\ SlowTask /\ UNCHANGED <<on, vars>>

\* As in Fairness and TaskFairness.
FeedbackSpec ==
    /\ FeedbackInit /\ [][FeedbackNext]_<<on, vars, taskVars>>
    /\ WF_vars(on = "lone mirror" /\ ClaimExpires)
    /\ WF_vars(on = "lone mirror" /\ ClaimDue("w1"))
    /\ WF_vars(on = "lone mirror" /\ Step("w1"))
    /\ WF_taskVars(on = "slow task" /\ DelayPasses)
    /\ WF_taskVars(on = "slow task" /\ CallLandsLate)
    /\ WF_taskVars(on = "slow task" /\ ClaimTask("w1"))
    /\ WF_taskVars(on = "slow task" /\ row.st = "delivered" /\ QueueMismatch("w1"))
    /\ WF_taskVars(on = "slow task" /\ BatchStep("w1"))

\* A change reaches Odoo or ends in a quarantine (feedback_sync.py:679-707), and
\* every change is delivered to the task in the end (feedback_task_delivery.py:380).
FeedbackEnds ==
    /\ on = "lone mirror" => SyncEnds
    /\ on = "slow task" => DeliveryEnds
=============================================================================
