----------------------------- MODULE MCStaffing -----------------------------
(***************************************************************************)
(* Staffing: the Saturday recruitment, the matching of its volunteers and  *)
(* the schedules of a day, checked side by side.  A behaviour is one of    *)
(* them; the others stay at their beginning.                               *)
(***************************************************************************)
EXTENDS SaturdayRecruiting, VolunteerMatch, ScheduleStore

VARIABLE on   \* what the behaviour is about, see StaffingInit

\* One person fits either center: whoever comes later must be able to move
\* them.
MCSkills == [p1 |-> {"ca"}, p2 |-> {"ca", "cb"}, p3 |-> {"cb"}]

SaturdayRests == Init /\ sched.asg = Nobody
MatchRests == MatchInit /\ slots = << >> /\ fits = [p \in Numbers |-> {}]

StaffingInit ==
    /\ ScheduleInit
    /\ \/ on = "saturday" /\ Init /\ MatchRests
       \/ on = "match" /\ SaturdayRests /\ MatchInit
       \/ on \in {"schedule", "posting"} /\ SaturdayRests /\ MatchRests

\* Any three requests, or four about what is posted and delivered.
AnyNext == ScheduleNext /\ ops' <= 3
PostingNext ==
    /\ ScheduleNext
    /\ \A t \in Threads :
          thread'[t].op \in {"none", "save", "publish", "share", "hours"}

StaffingNext ==
    \/ on = "saturday" /\ Next /\ UNCHANGED <<on, matchVars, scheduleVars>>
    \/ on = "match" /\ MatchNext /\ UNCHANGED <<on, vars, scheduleVars>>
    \/ on = "schedule" /\ AnyNext /\ UNCHANGED <<on, vars, matchVars>>
    \/ on = "posting" /\ PostingNext /\ UNCHANGED <<on, vars, matchVars>>

StaffingSpec == StaffingInit /\ [][StaffingNext]_<<on, vars, matchVars, scheduleVars>>

\* Bounds of the exploration: a Saturday that is saved has one opening in a center at
\* most, and one that the manager rebuilds, with time off or a person moved by hand,
\* is one of two people.
Rebuilt == saves + granted > 1 \/ off # {} \/ sched.over["p1"] # "none"
Bounded ==
    /\ saves + granted > 0 \/ Rebuilt => \A c \in Centers : rec.open[c] <= 1
    /\ Rebuilt => resp["p3"] = "none" /\ sched.asg["p3"] = None /\ "p3" \notin off
=============================================================================
