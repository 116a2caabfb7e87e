------------------------- MODULE SaturdayRecruiting -------------------------
(***************************************************************************)
(* Recruiting volunteers for one Saturday (saturday_recruiting_store.py,   *)
(* saturday_recruiting.py) and the schedule made from them                 *)
(* (routes/staffing.py, routes/rotations.py).                              *)
(*                                                                         *)
(* A manager opens a round with so many openings per work center,          *)
(* employees answer at the time clock until the deadline, the round        *)
(* closes, opening the scheduler places the volunteers' defaults once, the *)
(* manager schedules and publishes, or cancels the day.                    *)
(*                                                                         *)
(* Every operation is one transaction under the lock of the day, or of its *)
(* row, and reads what it checks under that lock; publishing is two.  An   *)
(* employee's request reads the time before it waits for the lock: it may  *)
(* run after the deadline, until the round is closed.                      *)
(***************************************************************************)
EXTENDS Naturals, FiniteSets

CONSTANTS People,
          Centers,     \* work centers with required skills
          Skills,      \* [People -> SUBSET Centers]: who is qualified for what
          Movable,     \* of People: moved between Unassigned and Off
          MaxOpen,     \* openings of one center
          MaxSaves,    \* schedules saved, published and rebuilt
          MaxTimeOff   \* full days off granted or taken back

ASSUME BoundsAssumption ==
    /\ IsFiniteSet(People) /\ Skills \in [People -> SUBSET Centers]
    /\ MaxOpen \in Nat /\ MaxSaves \in Nat /\ MaxTimeOff \in Nat

VARIABLES rec,      \* the row of saturday_recruitments and its openings
          past,     \* the response deadline is over
          resp,     \* saturday_work_responses.status
          elig,     \* saturday_work_responses.eligible_wc_ids
          sched,    \* the row of schedules and its assignments
          marking,  \* a publication whose round is not marked yet
          off,      \* people with a full day off
          saves, granted

vars == <<rec, past, resp, elig, sched, marking, off, saves, granted>>

None == "none"
Answers == {"none", "later", "declined", "committed", "cancelled"}
Counts == [Centers -> 0..MaxOpen]
Assignments == [People -> Centers \cup {None}]
Nobody == [p \in People |-> None]

\* A schedule from before the round may hold seeded defaults.
Init ==
    /\ rec = [st |-> "none", prepared |-> FALSE,
              open |-> [c \in Centers |-> 0]]
    /\ past = FALSE
    /\ resp = [p \in People |-> "none"]
    /\ elig = [p \in People |-> {}]
    /\ \E a \in Assignments :
          sched = [pub |-> FALSE, asg |-> a, manual |-> {},
                   over |-> [p \in People |-> "none"]]
    /\ marking = FALSE
    /\ off = {}
    /\ saves = 0 /\ granted = 0

Committed == {p \in People : resp[p] = "committed"}
Active == rec.st \in {"recruiting", "closed", "published"}
Assigned(a) == {p \in People : a[p] # None}

\* match_commitments: everybody gets one opening of a center they may fill.
Matches(open, who, can) ==
    \E f \in [who -> Centers] :
        /\ \A p \in who : f[p] \in can[p]
        /\ \A c \in Centers : Cardinality({p \in who : f[p] = c}) <= open[c]

\* _eligible_wc_ids_for_person: nothing for somebody who is off that day.
Eligible(p) ==
    IF p \in off THEN {} ELSE {c \in Skills[p] : rec.open[c] > 0}

(* Mutant: there is an opening left and this person could fill one. *)
HasOpening(p) ==
    /\ Eligible(p) # {}
    /\ \E c \in Centers : Cardinality(Committed \ {p}) < rec.open[c]

\* _coverage_with_candidate.
Fits(p) ==
    /\ Eligible(p) # {}
    /\ Matches(rec.open, (Committed \ {p}) \cup {p},
               [elig EXCEPT ![p] = Eligible(p)])

round == <<rec, past, marking>>
answers == <<resp, elig>>
counters == <<off, saves, granted>>

(***************************************************************************)
(* Employees.                                                              *)
(***************************************************************************)
(* Mutant: only the time the request carries is compared. *)
OpenByTime == rec.st \in {"recruiting", "closed", "published"}

\* _require_open, with the time of a request that may have waited.
RequireOpen == rec.st = "recruiting"

RecordLater(p) ==
    /\ RequireOpen /\ resp[p] = "none" /\ Fits(p)
    /\ resp' = [resp EXCEPT ![p] = "later"]
    /\ elig' = [elig EXCEPT ![p] = {}]
    /\ UNCHANGED <<round, sched, counters>>

Decline(p) ==
    /\ RequireOpen /\ resp[p] \in {"none", "later"}
    /\ resp' = [resp EXCEPT ![p] = "declined"]
    /\ elig' = [elig EXCEPT ![p] = {}]
    /\ UNCHANGED <<round, sched, counters>>

Commit(p) ==
    /\ RequireOpen /\ resp[p] \in {"none", "later", "cancelled"} /\ Fits(p)
    /\ resp' = [resp EXCEPT ![p] = "committed"]
    /\ elig' = [elig EXCEPT ![p] = Eligible(p)]
    /\ UNCHANGED <<round, sched, counters>>

Cancels(p) ==
    /\ resp[p] = "committed"
    /\ resp' = [resp EXCEPT ![p] = "cancelled"]
    /\ UNCHANGED <<round, elig, sched, counters>>

CancelByEmployee(p) == RequireOpen /\ Cancels(p)

(***************************************************************************)
(* The round.                                                              *)
(***************************************************************************)
CancelByManager(p) == rec.st # "none" /\ Cancels(p)

\* _normalize_counts: at least one opening.
Requests(n) == \E c \in Centers : n[c] > 0

(* Mutant: what is on the schedule stays when the round opens. *)
ActivateKeeps(n) ==
    /\ rec.st = "none" /\ ~past /\ Requests(n) /\ ~sched.pub
    /\ rec' = [rec EXCEPT !.st = "recruiting", !.open = n]
    /\ UNCHANGED <<past, answers, sched, marking, counters>>

\* Only seeded defaults are cleared; other assignments and a published
\* schedule refuse.
Activate(n) ==
    /\ rec.st = "none" /\ ~past /\ Requests(n)
    /\ ~sched.pub /\ sched.manual = {}
    /\ rec' = [rec EXCEPT !.st = "recruiting", !.open = n]
    /\ sched' = [sched EXCEPT !.asg = Nobody]
    /\ UNCHANGED <<past, answers, marking, counters>>

Reduces(n) == \A c \in Centers : n[c] <= rec.open[c]

\* update_openings, for either of its callers.
MayOpen(n) ==
    /\ rec.st \in {"recruiting", "closed"} /\ Requests(n)
    /\ rec.st = "closed" => Reduces(n)
    /\ Matches(n, Committed, elig)

UpdateOpenings(n) ==
    /\ MayOpen(n)
    /\ rec' = [rec EXCEPT !.open = n]
    /\ UNCHANGED <<past, answers, sched, marking, counters>>

DeadlinePasses ==
    /\ ~past /\ past' = TRUE
    /\ UNCHANGED <<rec, answers, sched, marking, counters>>

CloseDue ==
    /\ rec.st = "recruiting" /\ past
    /\ rec' = [rec EXCEPT !.st = "closed"]
    /\ UNCHANGED <<past, answers, sched, marking, counters>>

(* Mutant: the assignments are deleted, their sources are not. *)
CancelKeepsSources ==
    /\ rec.st \notin {"none", "cancelled"}
    /\ rec' = [rec EXCEPT !.st = "cancelled"]
    /\ sched' = [sched EXCEPT !.pub = FALSE, !.asg = Nobody]
    /\ UNCHANGED <<past, answers, marking, counters>>

CancelRecruitment ==
    /\ rec.st \notin {"none", "cancelled"}
    /\ rec' = [rec EXCEPT !.st = "cancelled"]
    /\ sched' = [pub |-> FALSE, asg |-> Nobody, manual |-> {},
                 over |-> [p \in People |-> "none"]]
    /\ UNCHANGED <<past, answers, marking, counters>>

(***************************************************************************)
(* The schedule.                                                           *)
(***************************************************************************)
\* effective_saturday_commitments.
Available ==
    {p \in People : sched.over[p] # "off"
                    /\ (resp[p] = "committed" \/ sched.over[p] = "unassigned")}

Saved == saves < MaxSaves /\ saves' = saves + 1

\* A source is kept with the assignment it belongs to.
ManualIn(a) == {p \in Assigned(a) : p \in sched.manual \/ a[p] # sched.asg[p]}

(* Mutant: the save looks at the round as the page showed it. *)
MaySaveStale(a) == Active => Assigned(a) \subseteq Available

\* _save_staffing_schedule_for_state: what any save of this day must pass.
MaySave(a) ==
    /\ rec.st # "cancelled"
    /\ rec.st = "recruiting" => Assigned(a) = {}
    /\ Active => Assigned(a) \subseteq Available

SaveDraft(a) ==
    /\ MaySave(a) /\ Saved
    /\ sched' = [sched EXCEPT !.pub = FALSE, !.asg = a, !.manual = ManualIn(a)]
    /\ UNCHANGED <<round, answers, off, granted>>

\* validate_publish, without the coverage a manager may leave open.
MayPublish(a) ==
    /\ rec.st # "recruiting"
    /\ Active => \A p \in Assigned(a) :
                    /\ p \notin off
                    /\ rec.open[a[p]] > 0 => a[p] \in Skills[p]

\* The posted schedule is committed first; a publication that is refused is
\* saved as a draft.
Publish(a) ==
    /\ MaySave(a) /\ Saved
    /\ rec.st # "recruiting"
    /\ sched' = [sched EXCEPT !.pub = MayPublish(a), !.asg = a,
                              !.manual = ManualIn(a)]
    /\ marking' = (marking \/ (MayPublish(a) /\ Active))
    /\ UNCHANGED <<rec, past, answers, off, granted>>

\* mark_published, in a transaction of its own; it fails unless the round is
\* closed, and the process may die before it.
MarkPublished ==
    /\ marking /\ marking' = FALSE
    /\ rec' = IF rec.st = "closed" THEN [rec EXCEPT !.st = "published"] ELSE rec
    /\ UNCHANGED <<past, answers, sched, counters>>

MarkFails ==
    /\ marking /\ marking' = FALSE
    /\ UNCHANGED <<rec, past, answers, sched, counters>>

\* _prepare_closed_saturday_schedule: the defaults of those who are available,
\* once; a schedule somebody already filled refuses.
Prepare(a) ==
    /\ rec.st = "closed" /\ ~rec.prepared
    /\ Assigned(sched.asg) = {}
    /\ Assigned(a) \subseteq Available \ off
    /\ sched' = [sched EXCEPT !.asg = a, !.manual = {}]
    /\ rec' = [rec EXCEPT !.prepared = TRUE]
    /\ UNCHANGED <<past, answers, marking, counters>>

\* _rebuild_with_state: what was placed by hand stays, the centers Auto
\* manages are filled again from the volunteers.
AutoRebuild(a) ==
    /\ rec.st = "closed" /\ rec.prepared /\ Saved
    /\ \A p \in sched.manual : a[p] = sched.asg[p]
    /\ \A p \in Assigned(a) : a[p] = sched.asg[p] \/ p \in Available \ off
    /\ sched' = [sched EXCEPT !.pub = FALSE, !.asg = a]
    /\ UNCHANGED <<round, answers, off, granted>>

\* _reset_to_defaults: everything is replaced by the volunteers' defaults.
ResetToDefaults(a) ==
    /\ rec.st = "closed" /\ rec.prepared /\ Saved
    /\ Assigned(a) \subseteq Available \ off
    /\ sched' = [sched EXCEPT !.pub = FALSE, !.asg = a, !.manual = {}]
    /\ UNCHANGED <<round, answers, off, granted>>

\* The toggle of work centers: the openings follow while the round is open,
\* and the people of a center turned off lose their assignment.
ToggleCenters(n) ==
    /\ rec.st # "cancelled" /\ Saved
    /\ IF rec.st = "recruiting"
       THEN MayOpen(n) /\ rec' = [rec EXCEPT !.open = n]
       ELSE UNCHANGED rec
    /\ sched' = [sched EXCEPT
                   !.pub = FALSE,
                   !.asg = [p \in People |->
                              IF @[p] # None /\ n[@[p]] = 0 THEN None ELSE @[p]],
                   !.manual = @ \ {p \in People : sched.asg[p] # None
                                                  /\ n[sched.asg[p]] = 0}]
    /\ UNCHANGED <<past, answers, marking, off, granted>>

(* Mutant: the posted schedule stays posted. *)
MoveKeepsPosted(p, to) ==
    /\ Active /\ p \in Movable \ off
    /\ sched' = [sched EXCEPT !.over[p] = to]
    /\ UNCHANGED <<round, answers, counters>>

\* _set_saturday_availability_work: a posted schedule becomes a draft.
SetAvailability(p, to) ==
    /\ Active /\ p \in Movable \ off
    /\ sched' = [sched EXCEPT !.over[p] = to, !.pub = FALSE]
    /\ UNCHANGED <<round, answers, counters>>

\* The time-off mirror changes.
TimeOff(p) ==
    /\ granted < MaxTimeOff /\ granted' = granted + 1
    /\ off' = IF p \in off THEN off \ {p} ELSE off \cup {p}
    /\ UNCHANGED <<round, answers, sched, saves>>

(***************************************************************************)
(* The specification.                                                      *)
(***************************************************************************)
Next ==
    \/ DeadlinePasses \/ CloseDue \/ CancelRecruitment
    \/ MarkPublished \/ MarkFails
    \/ \E n \in Counts : Activate(n) \/ UpdateOpenings(n) \/ ToggleCenters(n)
    \/ \E a \in Assignments :
          \/ SaveDraft(a) \/ Publish(a) \/ Prepare(a)
          \/ AutoRebuild(a) \/ ResetToDefaults(a)
    \/ \E p \in People :
          \/ RecordLater(p) \/ Decline(p) \/ Commit(p)
          \/ CancelByEmployee(p) \/ CancelByManager(p) \/ TimeOff(p)
          \/ \E to \in {"off", "unassigned"} : SetAvailability(p, to)

Spec == Init /\ [][Next]_vars

(***************************************************************************)
(* The properties.                                                         *)
(***************************************************************************)
\* The values each variable may take (_schema.py:1402-1475).
TypeOK ==
    /\ rec \in [st : {"none", "recruiting", "closed", "published", "cancelled"},
                prepared : BOOLEAN, open : [Centers -> 0..MaxOpen]]
    /\ past \in BOOLEAN /\ marking \in BOOLEAN
    /\ resp \in [People -> Answers] /\ elig \in [People -> SUBSET Centers]
    /\ sched \in [pub : BOOLEAN, asg : Assignments, manual : SUBSET People,
                  over : [People -> {"none", "off", "unassigned"}]]
    /\ sched.manual \subseteq Assigned(sched.asg)
    /\ off \subseteq People
    /\ saves \in 0..MaxSaves /\ granted \in 0..MaxTimeOff

\* Whoever commits and cancels in whatever order, and however the manager
\* changes the openings, those who hold a commitment can all be placed, one
\* opening each, by what they were qualified for when they committed
\* (saturday_recruiting_store.py:687, :946).
Coverable == Matches(rec.open, Committed, elig)

\* A cancelled Saturday stays cleared: no save, publication, preparation or
\* rebuild that was under way puts anybody back on it
\* (saturday_recruiting_store.py:265).
CancelledIsClear ==
    rec.st = "cancelled" => ~sched.pub /\ sched.asg = Nobody

\* Nobody is scheduled for a recruited Saturday who neither volunteered nor was
\* put on the list by the manager, not even from a schedule that was there
\* before the round (saturday_recruiting_store.py:888-907).
VolunteersOnly ==
    Active => \A p \in Assigned(sched.asg) :
                 resp[p] \in {"committed", "cancelled"} \/ sched.over[p] # "none"

\* Who the manager marked off is not on the posted schedule
\* (routes/staffing.py:3605).
PostedIsNotOff ==
    (sched.pub /\ Active) =>
        \A p \in Assigned(sched.asg) : sched.over[p] # "off"

\* The Saturday the volunteers were promised: those who committed can be placed,
\* nobody else is scheduled, and neither a cancellation nor an absence is undone.
RecruitingIsRight ==
    /\ TypeOK /\ Coverable /\ VolunteersOnly /\ CancelledIsClear /\ PostedIsNotOff

\* The inductive invariant: before a round nobody has answered.
Unasked == rec.st = "none" => resp = [p \in People |-> "none"]
RecruitingInv == RecruitingIsRight /\ Unasked

\* Once the round is closed an employee's answer can only be a request of the
\* manager: a request that waited for the lock across the deadline changes
\* nothing (saturday_recruiting_store.py:405).
ClosedStep ==
    rec.st \notin {"none", "recruiting"} =>
        \A p \in People : resp'[p] = resp[p]
                          \/ (resp[p] = "committed" /\ resp'[p] = "cancelled")
ClosedIsFrozen == [][ClosedStep]_vars
=============================================================================
