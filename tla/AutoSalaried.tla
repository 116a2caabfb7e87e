---------------------------- MODULE AutoSalaried ----------------------------
(***************************************************************************)
(* The automatic punches of one salaried person on one day                 *)
(* (auto_salaried.py): the worker punches four slots at their times and    *)
(* syncs each at once, the retry sweep of timeclock_sync.py syncs what is  *)
(* left, and the reconciler takes a day back when leave is approved after  *)
(* the first punch. The three run in different loops; a statement or an    *)
(* XML-RPC call is one step.                                               *)
(***************************************************************************)
EXTENDS Integers, Sequences, FiniteSets

CONSTANTS
    DayOver,      \* when the day ends: 5, after the last slot, or earlier
    MaxDayFaults, \* bound: failed calls and crashes
    MaxEdits      \* bound: attendances and punches by others

ASSUME DayAssumption == DayOver \in Nat /\ MaxDayFaults \in Nat /\ MaxEdits \in Nat

(* SLOT_ORDER: morning_in, lunch_out, lunch_in, day_out, each due at its own
   number on the clock. *)
Slots == 1..4
IsIn(slot) == slot \in {1, 3}

VARIABLES
    dayNow,
    dayMode,    \* "live" or "dry_run"
    leave,      \* approved leave for the day
    dayRun,     \* the row of auto_salaried_runs
    dayLog,     \* timeclock_punches_log of the day
    dayOdoo,    \* hr.attendance of the day
    tk,         \* the worker's tick
    sync,       \* _retry_one on the worker's thread and on the sweep's
    rc,         \* the reconciler inside _revert_day
    dayFaults, edits,
    overlap     \* history: two loops worked on the day at once

dayVars ==
    <<dayNow, dayMode, leave, dayRun, dayLog, dayOdoo, tk, sync, rc, dayFaults, edits, overlap>>

Threads == {"worker", "sweep"}
NoDayRun == [exists |-> FALSE, closed |-> "no", slots |-> <<>>]
IdleTick == [pc |-> "idle", now |-> 0, leave |-> FALSE, run |-> NoDayRun]
IdleSync == [pc |-> "idle", p |-> 0, seen |-> 0]
Looking(p) == [pc |-> "look", p |-> p, seen |-> 0]
IdleRc == [pc |-> "idle", rows |-> {}, own |-> {}]

Robot(p) == dayLog[p].slot # 0
UnsyncedSlots == {p \in DOMAIN dayLog : ~dayLog[p].synced}
OpenRows == {a \in DOMAIN dayOdoo : ~dayOdoo[a].gone /\ dayOdoo[a].out = 0}
Rows == {a \in DOMAIN dayOdoo : ~dayOdoo[a].gone}
Opened == IF OpenRows = {} THEN 0 ELSE CHOOSE a \in OpenRows : \A b \in OpenRows : b <= a

-----------------------------------------------------------------------------
DayInit ==
    /\ dayNow = 0
    /\ dayMode \in {"live", "dry_run"}
    /\ leave = FALSE
    /\ dayRun = NoDayRun /\ dayLog = <<>> /\ dayOdoo = <<>>
    /\ tk = IdleTick /\ rc = IdleRc
    /\ sync = [t \in Threads |-> IdleSync]
    /\ dayFaults = 0 /\ edits = 0 /\ overlap = FALSE

DayClock ==
    /\ dayNow < DayOver
    /\ dayNow' = dayNow + 1
    /\ UNCHANGED <<dayMode, leave, dayRun, dayLog, dayOdoo, tk, sync, rc, dayFaults, edits, overlap>>

(* A time-off request for the day is approved. *)
ApproveLeave ==
    /\ ~leave
    /\ leave' = TRUE
    /\ UNCHANGED <<dayNow, dayMode, dayRun, dayLog, dayOdoo, tk, sync, rc, dayFaults, edits, overlap>>

(* A punch of another source, as after a change of the wage type; an
   attendance that is opened by hand in Odoo. *)
ForeignPunch ==
    /\ edits < MaxEdits
    /\ edits' = edits + 1
    /\ dayLog' = Append(dayLog, [slot |-> 0, synced |-> FALSE, att |-> 0])
    /\ UNCHANGED <<dayNow, dayMode, leave, dayRun, dayOdoo, tk, sync, rc, dayFaults, overlap>>
ManualAttendance ==
    /\ edits < MaxEdits /\ OpenRows = {}
    /\ edits' = edits + 1
    /\ dayOdoo' = Append(dayOdoo, [in |-> 0, out |-> 0, gone |-> FALSE])
    /\ UNCHANGED <<dayNow, dayMode, leave, dayRun, dayLog, tk, sync, rc, dayFaults, overlap>>

-----------------------------------------------------------------------------
(* run_tick: the runs and the leaves of all people are read before the loop. *)
ReadDay ==
    /\ tk.pc = "idle" /\ sync["worker"].pc = "idle"
    /\ dayNow \in 1..(DayOver - 1)
    /\ dayRun.closed = "no" /\ Len(dayRun.slots) < dayNow
    /\ tk' = [pc |-> "advance", now |-> dayNow, leave |-> leave, run |-> dayRun]
    /\ UNCHANGED <<dayNow, dayMode, leave, dayRun, dayLog, dayOdoo, sync, rc, dayFaults, edits, overlap>>

(* _advance_person, without a run: _insert_skipped_run or _ensure_run, both
   ON CONFLICT DO NOTHING. *)
Enroll ==
    LET skip == tk.leave \/ \E p \in DOMAIN dayLog : ~Robot(p)
    IN /\ tk.pc = "advance" /\ ~tk.run.exists
       /\ dayRun' = IF dayRun.exists THEN dayRun
                 ELSE [NoDayRun EXCEPT !.exists = TRUE, !.closed = IF skip THEN "skipped" ELSE "no"]
       /\ tk' = IF skip THEN IdleTick ELSE [tk EXCEPT !.run = [NoDayRun EXCEPT !.exists = TRUE]]
       /\ UNCHANGED <<dayNow, dayMode, leave, dayLog, dayOdoo, sync, rc, dayFaults, edits, overlap>>

(* due_slots and _has_unsynced_prior_slot: the next slot may be punched. *)
NextSlot == Len(tk.run.slots) + 1
(* Mutant: a slot does not wait for the one before it. *)
NoWait == FALSE
UnsyncedPrior ==
    \E i \in DOMAIN tk.run.slots : tk.run.slots[i] # 0 /\ ~dayLog[tk.run.slots[i]].synced

(* The punch and _record_punch in one transaction, which is refused once the
   run is skipped, reverted or flagged; then sync_one_by_id. *)
(* Mutant: _record_punch does not look at the state of the run. *)
PunchUnguarded ==
    /\ tk.pc = "advance" /\ tk.run.exists /\ sync["worker"].pc = "idle"
    /\ NextSlot \in Slots /\ NextSlot <= tk.now
    /\ dayMode = "live" /\ ~UnsyncedPrior
    /\ dayLog' = Append(dayLog, [slot |-> NextSlot, synced |-> FALSE, att |-> 0])
    /\ dayRun' = [dayRun EXCEPT !.slots = Append(@, Len(dayLog) + 1)]
    /\ tk' = [tk EXCEPT !.run.slots = Append(@, Len(dayLog) + 1)]
    /\ sync' = [sync EXCEPT !["worker"] = Looking(Len(dayLog) + 1)]
    /\ overlap' = (overlap \/ rc.pc # "idle")
    /\ UNCHANGED <<dayNow, dayMode, leave, dayOdoo, rc, dayFaults, edits>>
PunchSlot ==
    /\ tk.pc = "advance" /\ tk.run.exists /\ sync["worker"].pc = "idle"
    /\ NextSlot \in Slots /\ NextSlot <= tk.now
    /\ dayMode = "live" /\ ~UnsyncedPrior
    /\ IF dayRun.closed # "no"
       THEN /\ tk' = IdleTick
            /\ UNCHANGED <<dayLog, dayRun, sync, overlap>>
       ELSE /\ dayLog' = Append(dayLog, [slot |-> NextSlot, synced |-> FALSE, att |-> 0])
            /\ dayRun' = [dayRun EXCEPT !.slots = Append(@, Len(dayLog) + 1)]
            /\ tk' = [tk EXCEPT !.run.slots = Append(@, Len(dayLog) + 1)]
            /\ sync' = [sync EXCEPT !["worker"] = Looking(Len(dayLog) + 1)]
            /\ overlap' = (overlap \/ rc.pc # "idle" \/ sync["sweep"].pc # "idle")
    /\ UNCHANGED <<dayNow, dayMode, leave, dayOdoo, rc, dayFaults, edits>>

(* The dry run marks the slot with SIMULATED_PUNCH_ID. *)
SimulateSlot ==
    /\ tk.pc = "advance" /\ tk.run.exists /\ dayMode = "dry_run"
    /\ NextSlot \in Slots /\ NextSlot <= tk.now
    /\ dayRun' = [dayRun EXCEPT !.slots = Append(@, 0)]
    /\ tk' = [tk EXCEPT !.run.slots = Append(@, 0)]
    /\ UNCHANGED <<dayNow, dayMode, leave, dayLog, dayOdoo, sync, rc, dayFaults, edits, overlap>>

(* Nothing more is due, or an earlier slot has not reached Odoo. *)
EndTick ==
    /\ tk.pc = "advance" /\ tk.run.exists /\ sync["worker"].pc = "idle"
    /\ NextSlot \notin Slots \/ NextSlot > tk.now \/ UnsyncedPrior
    /\ tk' = IdleTick
    /\ UNCHANGED <<dayNow, dayMode, leave, dayRun, dayLog, dayOdoo, sync, rc, dayFaults, edits, overlap>>

-----------------------------------------------------------------------------
(* retry_unsynced_punches picks the oldest unsynced row. *)
StartSweep ==
    /\ sync["sweep"].pc = "idle" /\ UnsyncedSlots # {}
    /\ LET oldest == CHOOSE p \in UnsyncedSlots : \A q \in UnsyncedSlots : p <= q
       IN sync' = [sync EXCEPT !["sweep"] = Looking(oldest)]
    /\ overlap' = (overlap \/ sync["worker"].pc # "idle" \/ rc.pc # "idle")
    /\ UNCHANGED <<dayNow, dayMode, leave, dayRun, dayLog, dayOdoo, tk, rc, dayFaults, edits>>

(* _retry_one: what is open, then adopt, create or close, then mark. *)
Look(t) ==
    /\ sync[t].pc = "look"
    /\ sync' = [sync EXCEPT ![t].pc = "act", ![t].seen = Opened]
    /\ UNCHANGED <<dayNow, dayMode, leave, dayRun, dayLog, dayOdoo, tk, rc, dayFaults, edits, overlap>>

Written(t) ==
    LET slot == dayLog[sync[t].p].slot
    IN IF ~(slot = 0 \/ IsIn(slot))
       THEN IF sync[t].seen = 0 THEN dayOdoo ELSE [dayOdoo EXCEPT ![sync[t].seen].out = slot]
       ELSE IF sync[t].seen # 0 THEN dayOdoo
       ELSE Append(dayOdoo, [in |-> slot, out |-> 0, gone |-> FALSE])
Act(t) ==
    /\ sync[t].pc = "act"
    /\ dayOdoo' = Written(t)
    /\ sync' = [sync EXCEPT ![t].pc = "mark",
                            ![t].seen = IF Len(dayOdoo') > Len(dayOdoo) THEN Len(dayOdoo') ELSE @]
    /\ UNCHANGED <<dayNow, dayMode, leave, dayRun, dayLog, tk, rc, dayFaults, edits, overlap>>

Mark(t) ==
    /\ sync[t].pc = "mark"
    /\ dayLog' = [dayLog EXCEPT ![sync[t].p].synced = TRUE, ![sync[t].p].att = sync[t].seen]
    /\ sync' = [sync EXCEPT ![t] = IdleSync]
    /\ UNCHANGED <<dayNow, dayMode, leave, dayRun, dayOdoo, tk, rc, dayFaults, edits, overlap>>

(* An exception in the sync; the write may have happened. *)
SyncFails(t) ==
    /\ sync[t].pc # "idle" /\ dayFaults < MaxDayFaults
    /\ dayFaults' = dayFaults + 1
    /\ dayOdoo' \in {dayOdoo} \cup (IF sync[t].pc = "act" THEN {Written(t)} ELSE {})
    /\ sync' = [sync EXCEPT ![t] = IdleSync]
    /\ UNCHANGED <<dayNow, dayMode, leave, dayRun, dayLog, tk, rc, edits, overlap>>

-----------------------------------------------------------------------------
(* run_reconcile: _runs_with_late_leave, then _revert_day reads the log. *)
StartRevert ==
    /\ rc.pc = "idle" /\ dayMode = "live"
    /\ leave /\ dayRun.exists /\ dayRun.closed = "no" /\ dayRun.slots # <<>>
    /\ dayLog # <<>>
    /\ rc' = [pc |-> IF \E p \in DOMAIN dayLog : ~Robot(p) THEN "flag" ELSE "neutralize",
              rows |-> DOMAIN dayLog,
              own |-> {dayLog[p].att : p \in DOMAIN dayLog} \ {0}]
    /\ overlap' = (overlap \/ \E t \in Threads : sync[t].pc # "idle")
    /\ UNCHANGED <<dayNow, dayMode, leave, dayRun, dayLog, dayOdoo, tk, sync, dayFaults, edits>>

(* UPDATE timeclock_punches_log SET synced_to_odoo = TRUE: first of all, so
   that the retry sweep leaves the rows alone. *)
(* Mutant: the rows are not neutralised. *)
NeutralizeNothing ==
    /\ rc.pc = "neutralize"
    /\ rc' = [rc EXCEPT !.pc = "fetch"]
    /\ UNCHANGED <<dayNow, dayMode, leave, dayRun, dayLog, dayOdoo, tk, sync, dayFaults, edits, overlap>>
Neutralize ==
    /\ rc.pc = "neutralize"
    /\ dayLog' = [p \in DOMAIN dayLog |->
                     IF p \in rc.rows THEN [dayLog[p] EXCEPT !.synced = TRUE] ELSE dayLog[p]]
    /\ rc' = [rc EXCEPT !.pc = "fetch"]
    /\ UNCHANGED <<dayNow, dayMode, leave, dayRun, dayOdoo, tk, sync, dayFaults, edits, overlap>>

(* fetch_employee_attendances_for_day: strangers, own rows that are missing,
   own rows that were adopted (_matches_scheduled_clock_in): any of them makes
   the day one for a person to clean up. *)
(* Mutant: an adopted record is taken for the robot's own. *)
TrustsOwnIds == Rows = rc.own
DayIsClean == Rows = rc.own /\ \A a \in rc.own : dayOdoo[a].in # 0
(* Mutant: a day that is not clean is left for the next sweep. *)
FetchDayAgain ==
    /\ rc.pc = "fetch"
    /\ rc' = IF DayIsClean THEN [rc EXCEPT !.pc = "delete"] ELSE IdleRc
    /\ UNCHANGED <<dayNow, dayMode, leave, dayRun, dayLog, dayOdoo, tk, sync, dayFaults, edits, overlap>>
FetchDay ==
    /\ rc.pc = "fetch"
    /\ rc' = [rc EXCEPT !.pc = IF DayIsClean THEN "delete" ELSE "flag"]
    /\ UNCHANGED <<dayNow, dayMode, leave, dayRun, dayLog, dayOdoo, tk, sync, dayFaults, edits, overlap>>

FlagDay ==
    /\ rc.pc = "flag"
    /\ dayRun' = [dayRun EXCEPT !.closed = "flagged"]
    /\ rc' = IdleRc
    /\ UNCHANGED <<dayNow, dayMode, leave, dayLog, dayOdoo, tk, sync, dayFaults, edits, overlap>>

WithoutOwn ==
    [a \in DOMAIN dayOdoo |-> IF a \in rc.own THEN [dayOdoo[a] EXCEPT !.gone = TRUE] ELSE dayOdoo[a]]
DeleteAttendances ==
    /\ rc.pc = "delete"
    /\ dayOdoo' = WithoutOwn
    /\ rc' = [rc EXCEPT !.pc = "revert"]
    /\ UNCHANGED <<dayNow, dayMode, leave, dayRun, dayLog, tk, sync, dayFaults, edits, overlap>>

MarkReverted ==
    /\ rc.pc = "revert"
    /\ dayRun' = [dayRun EXCEPT !.closed = "reverted"]
    /\ rc' = IdleRc
    /\ UNCHANGED <<dayNow, dayMode, leave, dayLog, dayOdoo, tk, sync, dayFaults, edits, overlap>>

(* An exception in _revert_day; a delete may have happened. *)
RevertFails ==
    /\ rc.pc # "idle" /\ dayFaults < MaxDayFaults
    /\ dayFaults' = dayFaults + 1
    /\ dayOdoo' \in {dayOdoo} \cup (IF rc.pc = "delete" THEN {WithoutOwn} ELSE {})
    /\ rc' = IdleRc
    /\ UNCHANGED <<dayNow, dayMode, leave, dayRun, dayLog, tk, sync, edits, overlap>>

(* _flag_incomplete_days, for a day that is past *)
(* Mutant: a day that was not finished is not flagged. *)
FlagNothing ==
    /\ FALSE
    /\ UNCHANGED dayVars
FlagIncomplete ==
    /\ rc.pc = "idle" /\ dayMode = "live"
    /\ dayNow = DayOver /\ tk.pc = "idle"
    /\ dayRun.exists /\ dayRun.closed = "no" /\ Len(dayRun.slots) < 4
    /\ dayRun' = [dayRun EXCEPT !.closed = "flagged"]
    /\ UNCHANGED <<dayNow, dayMode, leave, dayLog, dayOdoo, tk, sync, rc, dayFaults, edits, overlap>>

(* The process stops. *)
DayCrash ==
    /\ dayFaults < MaxDayFaults
    /\ dayFaults' = dayFaults + 1
    /\ tk' = IdleTick /\ rc' = IdleRc
    /\ sync' = [t \in Threads |-> IdleSync]
    /\ UNCHANGED <<dayNow, dayMode, leave, dayRun, dayLog, dayOdoo, edits, overlap>>

Worker == ReadDay \/ Enroll \/ PunchSlot \/ SimulateSlot \/ EndTick
Syncing(t) == Look(t) \/ Act(t) \/ Mark(t)
Reconciler ==
    \/ StartRevert \/ Neutralize \/ FetchDay \/ FlagDay
    \/ DeleteAttendances \/ MarkReverted \/ FlagIncomplete

DayNext ==
    \/ DayClock \/ ApproveLeave \/ ForeignPunch \/ ManualAttendance
    \/ Worker
    \/ StartSweep
    \/ \E t \in Threads : Syncing(t)
    \/ \E t \in Threads : SyncFails(t)
    \/ Reconciler \/ RevertFails
    \/ DayCrash

DaySpec == DayInit /\ [][DayNext]_dayVars

(* The three loops come round again for ever; nobody else is forced. *)
FairDaySpec ==
    /\ DaySpec
    /\ WF_dayVars(DayClock) /\ WF_dayVars(Worker) /\ WF_dayVars(StartSweep)
    /\ \A t \in Threads : WF_dayVars(Syncing(t))
    /\ WF_dayVars(Reconciler)

-----------------------------------------------------------------------------
DayTypeOK ==
    /\ dayNow \in 0..DayOver
    /\ dayRun.closed \in {"no", "skipped", "reverted", "flagged"}
    /\ Len(dayRun.slots) <= 4
    /\ \A i \in DOMAIN dayRun.slots : dayRun.slots[i] \in 0..Len(dayLog)
    /\ \A p \in DOMAIN dayLog : dayLog[p].slot \in 0..4 /\ dayLog[p].att \in 0..Len(dayOdoo)
    /\ \A a \in DOMAIN dayOdoo : dayOdoo[a].in \in 0..4 /\ dayOdoo[a].out \in 0..4
    /\ rc.own \subseteq DOMAIN dayOdoo

(* The robot's four punches make two attendances with the lunch between them,
   whatever syncs failed: not one long one (_has_unsynced_prior_slot, "an
   interleaved sync failure during catch-up could merge the day into one
   lunch-less attendance"). *)
UndisturbedDay == edits = 0 /\ ~leave /\ ~overlap
LunchBetween ==
    (UndisturbedDay /\ dayMode = "live" /\ Len(dayRun.slots) = 4 /\ UnsyncedSlots = {}
        /\ \A t \in Threads : sync[t].pc = "idle")
        => /\ Len(dayOdoo) = 2
           /\ dayOdoo[1].in = 1 /\ dayOdoo[1].out = 2 /\ dayOdoo[2].in = 3 /\ dayOdoo[2].out = 4

(* The reconciler never deletes an attendance that a person opened, not even
   one that a robot's punch adopted (_matches_scheduled_clock_in). *)
NoHumanRecordDeleted ==
    \A a \in DOMAIN dayOdoo : dayOdoo[a].gone => dayOdoo[a].in # 0

(* A reverted day has no attendance of the robot left, provided no sync or
   tick was under way during the revert (Neutralize, _record_punch). *)
RobotRows == {a \in Rows : dayOdoo[a].in # 0}
RevertedIsClean ==
    dayRun.closed = "reverted" /\ ~overlap => RobotRows = {}

(* After approved leave no new punch is recorded once the day is closed. *)
ClosedStaysClosed ==
    [][dayRun.closed # "no" => dayRun'.closed = dayRun.closed /\ dayRun'.slots = dayRun.slots]_dayVars

\* The four punches of the robot make two attendances with the lunch between
\* them, whatever syncs failed (auto_salaried.py:321); a reverted day holds no
\* attendance of the robot, when no two loops met (auto_salaried.py:469); and no
\* attendance a person opened is deleted with the robot's (auto_salaried.py:503).
SalariedDayIsRight == DayTypeOK /\ LunchBetween /\ RevertedIsClean /\ NoHumanRecordDeleted

(* A day with late leave is taken back or handed to a person in the end, and
   so is a day that the worker could not finish. *)
LeaveIsHandled ==
    (leave /\ dayMode = "live" /\ dayRun.slots # <<>> /\ dayRun.closed = "no") ~> dayRun.closed # "no"
DayIsAccountedFor ==
    (dayMode = "live" /\ dayRun.exists) ~> (dayRun.closed # "no" \/ Len(dayRun.slots) = 4)

(***************************************************************************)
(* The inductive invariant.                                                *)
(***************************************************************************)
Runs == [exists : BOOLEAN, closed : {"no", "skipped", "reverted", "flagged"}, slots : Seq(Nat)]
PunchRows == [slot : 0..4, synced : BOOLEAN, att : Nat]
AttendanceRows == [in : 0..4, out : 0..4, gone : BOOLEAN]
Ticks == [pc : {"idle", "advance"}, now : Nat, leave : BOOLEAN, run : Runs]
Syncs == [pc : {"idle", "look", "act", "mark"}, p : Nat, seen : Nat]
Reverts == [pc : {"idle", "neutralize", "fetch", "flag", "delete", "revert"},
            rows : SUBSET Nat, own : SUBSET Nat]
DayTyped ==
    /\ dayNow \in 0..DayOver /\ dayMode \in {"live", "dry_run"}
    /\ leave \in BOOLEAN /\ overlap \in BOOLEAN
    /\ dayFaults \in Nat /\ edits \in Nat
    /\ dayRun \in Runs
    /\ dayLog \in Seq(PunchRows)
    /\ dayOdoo \in Seq(AttendanceRows)
    /\ tk \in Ticks /\ sync \in [Threads -> Syncs] /\ rc \in Reverts

\* Every number that stands for a punch or an attendance names one.
NumbersInv ==
    /\ Len(dayRun.slots) <= 4
    /\ \A i \in DOMAIN dayRun.slots : dayRun.slots[i] <= Len(dayLog)
    /\ \A p \in DOMAIN dayLog : dayLog[p].att <= Len(dayOdoo)
    /\ \A t \in Threads : /\ sync[t].seen <= Len(dayOdoo)
                          /\ sync[t].pc # "idle" => sync[t].p \in DOMAIN dayLog
    /\ rc.own \subseteq DOMAIN dayOdoo

\* A run begins open and without slots, and only the worker writes slots, so
\* that what its tick has read of them still holds.
WorkerInv ==
    /\ ~dayRun.exists => dayRun = NoDayRun
    /\ tk.pc = "advance" =>
         /\ tk.run.slots = dayRun.slots /\ tk.run.exists = dayRun.exists
         /\ dayMode = "dry_run" => dayRun.closed = "no"

\* The reconciler works on an open run whose leave came late, and takes only
\* attendances that begin at a slot's time.
ReconcilerInv ==
    /\ rc.pc # "idle" => /\ leave /\ dayMode = "live"
                         /\ dayRun.exists /\ dayRun.closed = "no"
    /\ rc.pc = "delete" => \A a \in rc.own : dayOdoo[a].in # 0
    /\ NoHumanRecordDeleted

\* While no two loops meet: nothing of the robot is left to sync once its rows
\* are neutralised, and what is to be deleted is all there is of the robot.
RevertInv ==
    ~overlap =>
      /\ rc.pc # "idle" => \A t \in Threads : sync[t].pc = "idle"
      /\ sync["worker"].pc = "idle" \/ sync["sweep"].pc = "idle"
      /\ rc.pc = "neutralize" => \A p \in DOMAIN dayLog \ rc.rows : ~Robot(p)
      /\ rc.pc \in {"fetch", "delete", "revert"} \/ dayRun.closed = "reverted" =>
           /\ \A p \in DOMAIN dayLog : Robot(p) => dayLog[p].synced
           /\ \A t \in Threads : sync[t].pc # "idle" => ~Robot(sync[t].p)
      /\ rc.pc = "delete" => RobotRows \subseteq rc.own
      /\ rc.pc = "revert" \/ dayRun.closed = "reverted" => RobotRows = {}

\* The attendances of the first k slots. On a day that nobody disturbs the log
\* holds the slots in order, all but the last one synced, and Odoo the
\* attendances of all of them, or of all but the last one.
RowsOf(k) == [a \in 1..((k + 1) \div 2) |->
                 [in |-> 2 * a - 1, out |-> IF 2 * a <= k THEN 2 * a ELSE 0, gone |-> FALSE]]
SlotsInv ==
    UndisturbedDay /\ dayMode = "live" =>
      /\ Len(dayRun.slots) = Len(dayLog)
      /\ \A i \in DOMAIN dayLog : /\ dayRun.slots[i] = i /\ dayLog[i].slot = i
                                  /\ i < Len(dayLog) => dayLog[i].synced
      /\ \/ dayOdoo = RowsOf(Len(dayLog))
         \/ /\ dayLog # <<>> /\ ~dayLog[Len(dayLog)].synced
            /\ dayOdoo = RowsOf(Len(dayLog) - 1)
      /\ \A t \in Threads : sync[t].pc # "idle" =>
           /\ sync[t].p = Len(dayLog) /\ ~dayLog[Len(dayLog)].synced
           /\ sync[t].pc = "act" => sync[t].seen = Opened
           /\ sync[t].pc = "mark" => dayOdoo = RowsOf(Len(dayLog))

DayInv ==
    DayTyped /\ NumbersInv /\ WorkerInv /\ ReconcilerInv /\ RevertInv /\ SlotsInv

=============================================================================
