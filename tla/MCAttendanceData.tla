--------------------------- MODULE MCAttendanceData ---------------------------
(***************************************************************************)
(* From Odoo's attendances to the production of a day: the mirror, in      *)
(* four scenes with bounds of their own, and the queue of days to compute  *)
(* again.  A behaviour is one scene; the other component stays at its      *)
(* beginning.                                                              *)
(***************************************************************************)
EXTENDS RecalcQueue, AttendanceMirror

VARIABLE on   \* the scene

DataInit ==
    /\ Init /\ MirrorInit
    /\ on \in {"computing"} \cup IF st.base THEN {"tombstone", "recovery"} ELSE {"cursor", "settling"}

DataNext ==
    \/ on = "computing" /\ Next /\ UNCHANGED <<on, mirrorVars>>
    \/ on # "computing" /\ MirrorNext /\ UNCHANGED <<on, vars>>

\* As in FairSpec of each of them.
DataSpec ==
    /\ DataInit /\ [][DataNext]_<<on, vars, mirrorVars>>
    /\ \A w \in Workers : WF_vars(on = "computing" /\ Process(w))
    /\ \A d \in Days : WF_vars(on = "computing" /\ LeaseLapses(d))
    /\ WF_mirrorVars(on = "settling" /\ Sync)
    /\ WF_mirrorVars(on = "settling" /\ HourPasses)
    /\ WF_mirrorVars(on = "settling" /\ CommitWrite)
    /\ \A o \in Owners : WF_mirrorVars(on = "settling" /\ RecordFailure(o))

\* Bounds of the exploration: events beside the queue's own work; and of each
\* scene of the mirror its rows, days, events and the clock.
OneRow == ~tx.busy /\ \A i \in Ids \ {1} : odoo[i].ver = 0
OneDay == \A i \in Ids : odoo[i].day \in {0, 1} /\ (tx.busy => tx.att.day = 1)
Bounded ==
    /\ ordinaries + renders <= 1
    /\ changes + faults + ordinaries + renders <= 3
    \* two rows of one day and their writes, from the baseline on
    /\ on = "cursor" => /\ OneDay /\ hides = 0 /\ troubles = 0 /\ directs = 0
                        /\ now <= 4
    \* one row that moves between two days and is deleted, beside a job
    /\ on = "tombstone" => /\ OneRow /\ hides = 0 /\ troubles = 0
                           /\ now <= IF edits < 2 THEN 4 ELSE 2 + directs
    \* one row that is out of sight for a while
    /\ on = "recovery" => OneRow /\ OneDay /\ edits <= 1 /\ troubles = 0 /\ directs = 0
    \* a run fails, and everything comes to rest
    /\ on = "settling" => OneDay /\ edits <= 1 /\ hides = 0 /\ directs = 0

\* Every requested day becomes ready (attendance_recalc.py:176), and the mirror
\* stops differing from Odoo when Odoo stops changing (attendance_sync.py:432).
DataSettles ==
    /\ EveryDayIsReady
    /\ <>[](on = "settling" => Settled)
=============================================================================
