------------------------ MODULE MCAutomaticPunches --------------------------
(***************************************************************************)
(* The two automations of the time clock, checked side by side.  They work *)
(* on different people and share no row, so a behaviour of this module is  *)
(* a behaviour of one of them; the state of the other one stays as it is.  *)
(* The salaried day is taken twice: the whole day while no two loops meet, *)
(* and a day that ends after two slots with every meeting of the loops.    *)
(***************************************************************************)
EXTENDS AutoLunch, AutoSalaried

VARIABLE on       \* the automation at work: "lunch", "day" or "short day"

ShortDay == INSTANCE AutoSalaried WITH DayOver <- 3

LunchRests == Init /\ ~mode.observe /\ ~mode.flex
DayRests == DayInit /\ dayMode = "live"

AutomaticInit ==
    \/ on = "lunch" /\ Init /\ DayRests
    \/ on \in {"day", "short day"} /\ DayInit /\ LunchRests

AutomaticNext ==
    \/ on = "lunch" /\ Next /\ UNCHANGED <<on, dayVars>>
    \/ on = "day" /\ DayNext /\ UNCHANGED <<on, vars>>
    \/ on = "short day" /\ ShortDay!DayNext /\ UNCHANGED <<on, vars>>

\* As in FairSpec and FairDaySpec.
AutomaticSpec ==
    /\ AutomaticInit /\ [][AutomaticNext]_<<on, vars, dayVars>>
    /\ WF_vars(on = "lunch" /\ Clock)
    /\ WF_vars(on = "lunch" /\ NoteEmployeeClockOut)
    /\ WF_vars(on = "lunch" /\ RefreshSnapshot)
    /\ WF_vars(on = "lunch" /\ ReadTick)
    /\ WF_vars(on = "lunch" /\ AdvancePerson)
    /\ WF_dayVars(on = "short day" /\ ShortDay!DayClock)
    /\ WF_dayVars(on = "short day" /\ ShortDay!Worker)
    /\ WF_dayVars(on = "short day" /\ ShortDay!StartSweep)
    /\ \A t \in {"worker", "sweep"} : WF_dayVars(on = "short day" /\ ShortDay!Syncing(t))
    /\ WF_dayVars(on = "short day" /\ ShortDay!Reconciler)

\* The whole day is followed until two loops meet; a short one has either a
\* fault or an edit. Crashes and failed steps happen only where punches are
\* written, in the schedule's lunch and while nobody acts inside a tick, and on
\* a day whose loops do not meet.
Bounded ==
    /\ on = "lunch" /\ faults > 0 => ~mode.observe /\ ~mode.flex /\ ~raced
    /\ on = "lunch" => ~(mode.observe /\ mode.flex)
    /\ on = "day" => ~overlap
    /\ on = "short day" => dayFaults + edits <= 1
    /\ on = "short day" /\ dayFaults > 0 => dayMode = "live" /\ ~overlap

(***************************************************************************)
(* The liveness of both, each part stated in the module of its component.  *)
(***************************************************************************)
\* Every lunch that was begun ends (auto_lunch.py:119); a day with late leave is
\* taken back or handed to a person (auto_salaried.py:511), and so is a day the
\* worker could not finish (auto_salaried.py:532).
AutomationsEnd ==
    /\ on = "lunch" => LunchEnds
    /\ on = "short day" => ShortDay!LeaveIsHandled
    /\ on = "short day" => ShortDay!DayIsAccountedFor
=============================================================================
