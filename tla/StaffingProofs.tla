--------------------------- MODULE StaffingProofs ---------------------------
(***************************************************************************)
(* Theorems about the staffing of a day.  SaturdayRecruiting, for every    *)
(* set of people and work centers, every qualification and every bound:    *)
(* those who committed can always all be placed, nobody else is scheduled, *)
(* neither a cancellation nor an absence is undone, and answers stand once *)
(* the round is closed.  VolunteerMatch, for every number of volunteers,   *)
(* centers and openings: whoever is placed keeps one opening they may      *)
(* fill, and no coverage is missed.  ScheduleStore, for every set of       *)
(* threads and every choice of requests: what is marked as delivered was   *)
(* delivered, a toggle stands, and a locked write keeps what was posted.   *)
(***************************************************************************)
EXTENDS SaturdayRecruiting, VolunteerMatch, ScheduleStore, FiniteSetTheorems, TLAPS

(***************************************************************************)
(* Placements                                                              *)
(***************************************************************************)
(* Who can be placed can be placed without some of the others              *)
(* (match_commitments).                                                    *)
LEMMA FewerFit ==
    ASSUME NEW open \in Counts, NEW who \in SUBSET People, NEW less \in SUBSET who,
           NEW can, NEW after,
           Matches(open, who, can), \A p \in less : after[p] = can[p]
    PROVE  Matches(open, less, after)
<1>1. PICK f \in [who -> Centers] :
         /\ \A p \in who : f[p] \in can[p]
         /\ \A c \in Centers : Cardinality({p \in who : f[p] = c}) <= open[c]
  BY DEF Matches
<1> DEFINE g == [p \in less |-> f[p]]
<1>2. g \in [less -> Centers] /\ \A p \in less : g[p] = f[p]
  BY <1>1
<1>3. \A p \in less : g[p] \in after[p]
  BY <1>1, <1>2
<1> HIDE DEF g
<1>4. ASSUME NEW c \in Centers
      PROVE  Cardinality({p \in less : g[p] = c}) <= open[c]
  <2> DEFINE G == {p \in less : g[p] = c}
             F == {p \in who : f[p] = c}
  <2>1. G \subseteq F /\ F \subseteq People
    BY <1>2
  <2>2. IsFiniteSet(F)
    BY <2>1, BoundsAssumption, FS_Subset
  <2>3. /\ Cardinality(G) \in Nat /\ Cardinality(F) \in Nat
        /\ Cardinality(G) <= Cardinality(F)
    BY <2>1, <2>2, FS_Subset, FS_CardinalityType
  <2>4. Cardinality(F) <= open[c] /\ open[c] \in Nat
    BY <1>1, BoundsAssumption DEF Counts
  <2> HIDE DEF G, F
  <2>5. Cardinality(G) <= open[c]
    BY <2>3, <2>4
  <2> QED BY <2>5 DEF G
<1> QED BY <1>2, <1>3, <1>4 DEF Matches

(* Nobody can always be placed.                                            *)
LEMMA NobodyFits ==
    ASSUME NEW open \in Counts, NEW can
    PROVE  Matches(open, {}, can)
<1> DEFINE f == [p \in {} |-> None]
<1>1. f \in [{} -> Centers]
  OBVIOUS
<1>2. \A c \in Centers : {p \in {} : f[p] = c} = {} /\ open[c] \in Nat
  BY BoundsAssumption DEF Counts
<1>3. \A c \in Centers : Cardinality({p \in {} : f[p] = c}) <= open[c]
  BY <1>2, FS_EmptySet
<1> QED BY <1>1, <1>3 DEF Matches

(***************************************************************************)
(* The parts of the invariant                                              *)
(***************************************************************************)
SaturdaySchedules == [pub : BOOLEAN, asg : Assignments, manual : SUBSET People,
                      over : [People -> {"none", "off", "unassigned"}]]
Rounds == [st : {"none", "recruiting", "closed", "published", "cancelled"},
           prepared : BOOLEAN, open : Counts]

(* What the invariant says of the values.                                  *)
LEMMA Typed ==
    ASSUME RecruitingInv
    PROVE  /\ rec \in Rounds /\ sched \in SaturdaySchedules
           /\ rec.open \in Counts /\ rec.prepared \in BOOLEAN
           /\ sched.asg \in Assignments /\ sched.manual \subseteq Assigned(sched.asg)
           /\ sched.manual \subseteq People /\ sched.over \in [People -> {"none", "off", "unassigned"}]
           /\ resp \in [People -> Answers] /\ elig \in [People -> SUBSET Centers]
           /\ Committed \subseteq People
           /\ off \subseteq People /\ saves \in 0..MaxSaves /\ granted \in 0..MaxTimeOff
           /\ past \in BOOLEAN /\ marking \in BOOLEAN
BY DEF RecruitingInv, RecruitingIsRight, TypeOK, Rounds, SaturdaySchedules, Counts, Committed

(* What is placed by hand in an assignment is a part of it.                *)
LEMMA ManualIsAssigned ==
    ASSUME NEW a \in Assignments
    PROVE  ManualIn(a) \subseteq Assigned(a) /\ Assigned(a) \subseteq People
BY DEF ManualIn, Assigned

(* Where neither the answers nor the openings change, the placement that   *)
(* was possible still is.                                                  *)
LEMMA CoverageStays ==
    ASSUME Coverable, UNCHANGED answers, rec'.open = rec.open
    PROVE  Coverable'
<1>1. resp' = resp /\ elig' = elig
  BY DEF answers
<1>2. Committed' = Committed
  BY <1>1 DEF Committed
<1> QED BY <1>1, <1>2 DEF Coverable, Matches

(* A step that leaves answers and openings alone has to keep the schedule  *)
(* right.                                                                  *)
LEMMA ScheduleSteps ==
    ASSUME RecruitingInv, UNCHANGED <<past, answers>>,
           rec' \in Rounds, rec'.open = rec.open, rec'.st = "none" => rec.st = "none",
           sched' \in SaturdaySchedules, sched'.manual \subseteq Assigned(sched'.asg),
           marking' \in BOOLEAN, off' \subseteq People,
           saves' \in 0..MaxSaves, granted' \in 0..MaxTimeOff,
           VolunteersOnly', CancelledIsClear', PostedIsNotOff'
    PROVE  RecruitingInv'
<1>1. Coverable'
  BY CoverageStays DEF RecruitingInv, RecruitingIsRight
<1>2. resp' = resp /\ elig' = elig /\ past' = past
  BY DEF answers
<1>3. TypeOK'
  BY <1>2, Typed DEF TypeOK, Rounds, SaturdaySchedules, Counts
<1>4. Unasked'
  BY <1>2 DEF RecruitingInv, Unasked
<1> QED BY <1>1, <1>3, <1>4 DEF RecruitingInv, RecruitingIsRight

(* An employee's answer leaves round and schedule alone; who is scheduled  *)
(* as a volunteer stays one.                                               *)
LEMMA AnswerSteps ==
    ASSUME RecruitingInv, UNCHANGED <<round, sched, counters>>, rec.st # "none",
           resp' \in [People -> Answers], elig' \in [People -> SUBSET Centers],
           Coverable',
           \A p \in People : resp[p] \in {"committed", "cancelled"}
                                => resp'[p] \in {"committed", "cancelled"}
    PROVE  RecruitingInv'
<1>1. /\ rec' = rec /\ past' = past /\ marking' = marking /\ sched' = sched
      /\ off' = off /\ saves' = saves /\ granted' = granted
  BY DEF round, counters
<1>2. TypeOK'
  BY <1>1 DEF RecruitingInv, RecruitingIsRight, TypeOK, Assigned
<1>3. VolunteersOnly'
  BY <1>1 DEF RecruitingInv, RecruitingIsRight, VolunteersOnly, Active, Assigned
<1>4. CancelledIsClear' /\ PostedIsNotOff'
  BY <1>1 DEF RecruitingInv, RecruitingIsRight, CancelledIsClear, PostedIsNotOff, Active, Assigned
<1>5. Unasked'
  BY <1>1 DEF Unasked
<1> QED BY <1>2, <1>3, <1>4, <1>5 DEF RecruitingInv, RecruitingIsRight

(* Before the round nobody has answered.                                   *)
LEMMA RecruitingStarts == Init => RecruitingInv
<1> SUFFICES ASSUME Init PROVE RecruitingInv
  OBVIOUS
<1>1. TypeOK
  <2>1. sched \in SaturdaySchedules /\ sched.manual = {} /\ ~sched.pub
    BY DEF Init, SaturdaySchedules
  <2>2. resp \in [People -> Answers] /\ elig \in [People -> SUBSET Centers]
    BY DEF Init, Answers
  <2>3. /\ rec.st = "none" /\ rec.prepared = FALSE /\ rec.open = [c \in Centers |-> 0]
        /\ rec = [st |-> "none", prepared |-> FALSE, open |-> [c \in Centers |-> 0]]
    BY DEF Init
  <2>4. rec \in Rounds
    BY <2>3, BoundsAssumption DEF Rounds, Counts
  <2>5. past = FALSE /\ marking = FALSE /\ off = {} /\ saves = 0 /\ granted = 0
    BY DEF Init
  <2>6. past \in BOOLEAN /\ marking \in BOOLEAN /\ off \subseteq People
    BY <2>5
  <2>7. saves \in 0..MaxSaves /\ granted \in 0..MaxTimeOff
    BY <2>5, BoundsAssumption
  <2>8. sched.manual \subseteq Assigned(sched.asg)
    BY <2>1
  <2> QED BY <2>1, <2>2, <2>4, <2>6, <2>7, <2>8 DEF TypeOK, SaturdaySchedules, Rounds, Counts
<1>2. Committed = {} /\ rec.open \in Counts
  BY BoundsAssumption DEF Init, Committed, Counts
<1>3. Coverable
  BY <1>2, NobodyFits DEF Coverable
<1>4. VolunteersOnly /\ CancelledIsClear /\ PostedIsNotOff /\ Unasked
  BY DEF Init, VolunteersOnly, CancelledIsClear, PostedIsNotOff, Unasked, Active
<1> QED BY <1>1, <1>3, <1>4 DEF RecruitingInv, RecruitingIsRight

(***************************************************************************)
(* Employees                                                               *)
(***************************************************************************)
(* An answer of somebody who had not committed, without commitment.        *)
LEMMA OtherAnswer ==
    ASSUME RecruitingInv, NEW p \in People, NEW to \in Answers \ {"committed"},
           resp[p] \notin {"committed", "cancelled"}, rec.st # "none",
           resp' = [resp EXCEPT ![p] = to], elig' = [elig EXCEPT ![p] = {}],
           UNCHANGED <<round, sched, counters>>
    PROVE  RecruitingInv'
<1>1. resp \in [People -> Answers] /\ elig \in [People -> SUBSET Centers]
  BY Typed
<1>2. /\ resp' \in [People -> Answers] /\ elig' \in [People -> SUBSET Centers]
      /\ \A q \in People : resp[q] \in {"committed", "cancelled"} => resp'[q] = resp[q]
  BY <1>1
<1>3. Committed' = Committed
  BY <1>1 DEF Committed
<1>4. \A q \in Committed : elig'[q] = elig[q]
  BY <1>1 DEF Committed
<1>5. rec' = rec
  BY DEF round
<1>6. Coverable'
  <2>1. PICK open, who, can, after :
           open = rec.open /\ who = Committed /\ can = elig /\ after = elig'
    OBVIOUS
  <2>2. Matches(open, who, can) /\ open \in Counts /\ who \in SUBSET People
    BY <2>1, Typed DEF RecruitingInv, RecruitingIsRight, Coverable
  <2>3. who \in SUBSET who /\ \A q \in who : after[q] = can[q]
    BY <1>4, <2>1
  <2>4. Matches(open, who, after)
    BY <2>2, <2>3, FewerFit
  <2> QED BY <1>3, <1>5, <2>1, <2>4 DEF Coverable, Matches
<1> QED BY <1>2, <1>6, AnswerSteps

(* An employee asks for time, or declines.                                 *)
LEMMA NoCommitment ==
    ASSUME RecruitingInv, NEW p \in People, RecordLater(p) \/ Decline(p)
    PROVE  RecruitingInv'
BY OtherAnswer DEF RecordLater, Decline, RequireOpen, Answers

(* An employee commits, and the coverage was found with them.              *)
LEMMA CommitKeeps ==
    ASSUME RecruitingInv, NEW p \in People, Commit(p)
    PROVE  RecruitingInv'
<1>1. /\ resp \in [People -> Answers] /\ elig \in [People -> SUBSET Centers]
      /\ resp' = [resp EXCEPT ![p] = "committed"]
      /\ elig' = [elig EXCEPT ![p] = Eligible(p)]
      /\ Fits(p) /\ rec.st # "none" /\ UNCHANGED <<round, sched, counters>>
  BY Typed DEF Commit, RequireOpen
<1>2. Eligible(p) \subseteq Centers
  BY BoundsAssumption DEF Eligible
<1>3. resp' \in [People -> Answers] /\ elig' \in [People -> SUBSET Centers]
  BY <1>1, <1>2 DEF Answers
<1>4. Committed' = (Committed \ {p}) \cup {p}
  BY <1>1 DEF Committed
<1>5. rec' = rec
  BY <1>1 DEF round
<1>6. Coverable'
  BY <1>1, <1>4, <1>5 DEF Fits, Coverable, Matches
<1> QED BY <1>1, <1>3, <1>6, AnswerSteps

(* A commitment is taken back: the others can be placed without it.        *)
LEMMA CancelsKeeps ==
    ASSUME RecruitingInv, NEW p \in People, CancelByEmployee(p) \/ CancelByManager(p)
    PROVE  RecruitingInv'
<1>1. /\ resp \in [People -> Answers] /\ elig \in [People -> SUBSET Centers]
      /\ resp[p] = "committed" /\ resp' = [resp EXCEPT ![p] = "cancelled"]
      /\ elig' = elig /\ rec.st # "none" /\ UNCHANGED <<round, sched, counters>>
  BY Typed DEF CancelByEmployee, CancelByManager, Cancels, RequireOpen
<1>2. Committed' = Committed \ {p}
  BY <1>1 DEF Committed
<1>3. rec' = rec
  BY <1>1 DEF round
<1>4. Coverable'
  <2>1. PICK open, who, less, can : /\ open = rec.open /\ who = Committed
                                    /\ less = Committed \ {p} /\ can = elig
    OBVIOUS
  <2>2. Matches(open, who, can) /\ open \in Counts /\ who \in SUBSET People /\ less \in SUBSET who
    BY <2>1, Typed DEF RecruitingInv, RecruitingIsRight, Coverable
  <2>3. Matches(open, less, can)
    BY <2>2, FewerFit
  <2> QED BY <1>1, <1>2, <1>3, <2>1, <2>3 DEF Coverable, Matches
<1>5. resp' \in [People -> Answers] /\ elig' \in [People -> SUBSET Centers]
  BY <1>1 DEF Answers
<1> QED BY <1>1, <1>4, <1>5, AnswerSteps

(***************************************************************************)
(* The round                                                               *)
(***************************************************************************)
(* What the schedule promises is kept where the schedule stays.            *)
LEMMA ScheduleStays ==
    ASSUME RecruitingInv, UNCHANGED <<past, answers, sched, counters>>,
           rec' \in Rounds, rec'.open = rec.open, marking' \in BOOLEAN,
           \/ rec'.st = rec.st
           \/ rec.st = "recruiting" /\ rec'.st = "closed"
           \/ rec.st = "closed" /\ rec'.st = "published"
    PROVE  RecruitingInv'
<1>1. /\ sched' = sched /\ resp' = resp /\ off' = off /\ saves' = saves /\ granted' = granted
  BY DEF answers, counters
<1>2. VolunteersOnly' /\ CancelledIsClear' /\ PostedIsNotOff'
  BY <1>1 DEF RecruitingInv, RecruitingIsRight, VolunteersOnly, CancelledIsClear,
              PostedIsNotOff, Active, Assigned
<1> QED BY <1>1, <1>2, Typed, ScheduleSteps

(* The round is closed, or marked published, or not.                       *)
LEMMA RoundGoesOn ==
    ASSUME RecruitingInv, CloseDue \/ MarkPublished \/ MarkFails
    PROVE  RecruitingInv'
<1>1. rec \in Rounds /\ marking \in BOOLEAN
  BY Typed
<1>2. CASE CloseDue
  <2>1. /\ rec.st = "recruiting" /\ rec' = [rec EXCEPT !.st = "closed"] /\ marking' = marking
        /\ UNCHANGED <<past, answers, sched, counters>>
    BY <1>2 DEF CloseDue
  <2>2. rec' \in Rounds /\ rec'.open = rec.open /\ rec'.st = "closed"
    BY <1>1, <2>1 DEF Rounds
  <2> QED BY <1>1, <2>1, <2>2, ScheduleStays
<1>3. CASE MarkPublished
  <2>1. /\ rec' = IF rec.st = "closed" THEN [rec EXCEPT !.st = "published"] ELSE rec
        /\ marking' = FALSE /\ UNCHANGED <<past, answers, sched, counters>>
    BY <1>3 DEF MarkPublished
  <2>2. /\ rec' \in Rounds /\ rec'.open = rec.open
        /\ rec'.st = IF rec.st = "closed" THEN "published" ELSE rec.st
    BY <1>1, <2>1 DEF Rounds
  <2> QED BY <2>1, <2>2, ScheduleStays
<1>4. CASE MarkFails
  BY <1>1, <1>4, ScheduleStays DEF MarkFails
<1> QED BY <1>2, <1>3, <1>4

(* The deadline changes nothing but the time.                              *)
LEMMA DeadlineKeeps ==
    ASSUME RecruitingInv, DeadlinePasses
    PROVE  RecruitingInv'
<1>1. /\ rec' = rec /\ resp' = resp /\ elig' = elig /\ sched' = sched /\ marking' = marking
      /\ off' = off /\ saves' = saves /\ granted' = granted /\ past' = TRUE
  BY DEF DeadlinePasses, answers, counters
<1>2. TypeOK'
  BY <1>1 DEF RecruitingInv, RecruitingIsRight, TypeOK, Assigned
<1>3. Coverable'
  BY <1>1, CoverageStays DEF RecruitingInv, RecruitingIsRight, answers
<1>4. VolunteersOnly' /\ CancelledIsClear' /\ PostedIsNotOff' /\ Unasked'
  BY <1>1 DEF RecruitingInv, RecruitingIsRight, VolunteersOnly, CancelledIsClear,
              PostedIsNotOff, Active, Assigned, Unasked
<1> QED BY <1>2, <1>3, <1>4 DEF RecruitingInv, RecruitingIsRight

(* A round opens: nobody has committed, and nobody is scheduled.           *)
LEMMA ActivationKeeps ==
    ASSUME RecruitingInv, NEW n \in Counts, Activate(n)
    PROVE  RecruitingInv'
<1>1. /\ rec.st = "none" /\ ~sched.pub /\ sched.manual = {}
      /\ rec' = [rec EXCEPT !.st = "recruiting", !.open = n]
      /\ sched' = [sched EXCEPT !.asg = Nobody]
      /\ past' = past /\ resp' = resp /\ elig' = elig /\ marking' = marking
      /\ off' = off /\ saves' = saves /\ granted' = granted
  BY DEF Activate, answers, counters
<1>2. rec' \in Rounds /\ rec'.st = "recruiting" /\ rec'.open = n
  BY <1>1, Typed DEF Rounds
<1>3. Nobody \in Assignments /\ Assigned(Nobody) = {}
  BY DEF Nobody, Assignments, Assigned
<1>4. /\ sched' \in SaturdaySchedules /\ ~sched'.pub /\ sched'.manual = {} /\ sched'.asg = Nobody
  BY <1>1, <1>3, Typed DEF SaturdaySchedules
<1>5. TypeOK'
  BY <1>1, <1>2, <1>3, <1>4, Typed DEF TypeOK, Rounds, SaturdaySchedules, Counts
<1>6. Committed' = {}
  BY <1>1 DEF RecruitingInv, Unasked, Committed
<1>7. Coverable'
  <2>1. \A can : Matches(n, {}, can)
    BY NobodyFits
  <2> QED BY <1>1, <1>2, <1>6, <2>1 DEF Coverable, Matches
<1>8. VolunteersOnly' /\ CancelledIsClear' /\ PostedIsNotOff' /\ Unasked'
  BY <1>2, <1>3, <1>4 DEF VolunteersOnly, CancelledIsClear, PostedIsNotOff, Unasked
<1> QED BY <1>5, <1>7, <1>8 DEF RecruitingInv, RecruitingIsRight

(* The openings change where those who committed can still be placed.      *)
LEMMA OpeningsChange ==
    ASSUME RecruitingInv, NEW n \in Counts, MayOpen(n),
           rec' = [rec EXCEPT !.open = n], UNCHANGED answers
    PROVE  /\ rec' \in Rounds /\ rec'.st = rec.st /\ rec.st \in {"recruiting", "closed"}
           /\ Coverable' /\ Unasked'
<1>1. rec' \in Rounds /\ rec'.st = rec.st /\ rec'.open = n
  BY Typed DEF Rounds
<1>2. resp' = resp /\ elig' = elig
  BY DEF answers
<1>3. Committed' = Committed
  BY <1>2 DEF Committed
<1>4. Coverable'
  BY <1>1, <1>2, <1>3 DEF MayOpen, Coverable, Matches
<1> QED BY <1>1, <1>4 DEF MayOpen, Unasked

(* The manager changes the openings.                                       *)
LEMMA UpdateOpeningsKeeps ==
    ASSUME RecruitingInv, NEW n \in Counts, UpdateOpenings(n)
    PROVE  RecruitingInv'
<1>1. /\ MayOpen(n) /\ rec' = [rec EXCEPT !.open = n] /\ UNCHANGED answers
      /\ resp' = resp /\ elig' = elig /\ past' = past /\ sched' = sched /\ marking' = marking
      /\ off' = off /\ saves' = saves /\ granted' = granted
  BY DEF UpdateOpenings, answers, counters
<1>2. /\ rec' \in Rounds /\ rec'.st = rec.st /\ Coverable' /\ Unasked'
  BY <1>1, OpeningsChange
<1>3. TypeOK'
  BY <1>1, <1>2 DEF RecruitingInv, RecruitingIsRight, TypeOK, Rounds, Counts, Assigned
<1>4. VolunteersOnly' /\ CancelledIsClear' /\ PostedIsNotOff'
  BY <1>1, <1>2 DEF RecruitingInv, RecruitingIsRight, VolunteersOnly, CancelledIsClear,
                    PostedIsNotOff, Active, Assigned
<1> QED BY <1>2, <1>3, <1>4 DEF RecruitingInv, RecruitingIsRight

(* A cancellation clears the day.                                          *)
LEMMA CancelKeeps ==
    ASSUME RecruitingInv, CancelRecruitment
    PROVE  RecruitingInv'
<1>1. /\ rec.st # "none" /\ rec' = [rec EXCEPT !.st = "cancelled"]
      /\ sched' = [pub |-> FALSE, asg |-> Nobody, manual |-> {},
                   over |-> [p \in People |-> "none"]]
      /\ UNCHANGED <<past, answers>> /\ marking' = marking
      /\ off' = off /\ saves' = saves /\ granted' = granted
  BY DEF CancelRecruitment, counters
<1>2. rec' \in Rounds /\ rec'.open = rec.open /\ rec'.st = "cancelled"
  BY <1>1, Typed DEF Rounds
<1>3. Nobody \in Assignments
  BY DEF Nobody, Assignments
<1>4. /\ sched' \in SaturdaySchedules /\ ~sched'.pub /\ sched'.manual = {} /\ sched'.asg = Nobody
  BY <1>1, <1>3 DEF SaturdaySchedules
<1>5. VolunteersOnly' /\ CancelledIsClear' /\ PostedIsNotOff'
  BY <1>2, <1>4 DEF VolunteersOnly, CancelledIsClear, PostedIsNotOff, Active
<1> QED BY <1>1, <1>2, <1>4, <1>5, Typed, ScheduleSteps

(***************************************************************************)
(* The schedule                                                            *)
(***************************************************************************)
(* A draft for a day that is not cancelled, with volunteers only.          *)
LEMMA DraftKeeps ==
    ASSUME RecruitingInv, NEW a \in Assignments, NEW m \in SUBSET Assigned(a),
           rec.st # "cancelled", Active => Assigned(a) \subseteq Available,
           sched' = [sched EXCEPT !.pub = FALSE, !.asg = a, !.manual = m],
           UNCHANGED <<past, answers, marking, off, granted>>,
           rec' \in Rounds, rec'.open = rec.open, rec'.st = rec.st, saves' \in 0..MaxSaves
    PROVE  RecruitingInv'
<1>1. /\ sched' \in SaturdaySchedules /\ ~sched'.pub /\ sched'.asg = a /\ sched'.manual = m
      /\ sched'.over = sched.over
  BY Typed DEF SaturdaySchedules, Assigned
<1>2. VolunteersOnly'
  BY <1>1, Typed DEF VolunteersOnly, Active, Available, answers, Assigned
<1>3. CancelledIsClear' /\ PostedIsNotOff'
  BY <1>1 DEF CancelledIsClear, PostedIsNotOff
<1> QED BY <1>1, <1>2, <1>3, Typed, ScheduleSteps

(* Every save counts.                                                      *)
LEMMA SavedTyped ==
    ASSUME RecruitingInv, Saved
    PROVE  saves' \in 0..MaxSaves
BY Typed, BoundsAssumption DEF Saved

(* The schedule is saved.                                                  *)
LEMMA SaveDraftKeeps ==
    ASSUME RecruitingInv, NEW a \in Assignments, SaveDraft(a)
    PROVE  RecruitingInv'
<1>1. /\ rec.st # "cancelled"
      /\ Active => Assigned(a) \subseteq Available
      /\ sched' = [sched EXCEPT !.pub = FALSE, !.asg = a, !.manual = ManualIn(a)]
      /\ UNCHANGED <<past, answers, marking, off, granted>> /\ rec' = rec /\ Saved
  BY DEF SaveDraft, MaySave, round
<1>2. PICK m \in SUBSET Assigned(a) : m = ManualIn(a)
  BY ManualIsAssigned
<1> QED BY <1>1, <1>2, Typed, SavedTyped, DraftKeeps

(* The schedule is posted, or saved because it may not be.                 *)
LEMMA PublishKeeps ==
    ASSUME RecruitingInv, NEW a \in Assignments, Publish(a)
    PROVE  RecruitingInv'
<1>1. /\ rec.st # "cancelled"
      /\ Active => Assigned(a) \subseteq Available
      /\ sched' = [sched EXCEPT !.pub = MayPublish(a), !.asg = a, !.manual = ManualIn(a)]
      /\ UNCHANGED <<past, answers, off, granted>> /\ rec' = rec /\ Saved
      /\ marking' = (marking \/ (MayPublish(a) /\ Active))
  BY DEF Publish, MaySave
<1>2. MayPublish(a) \in BOOLEAN /\ marking' \in BOOLEAN
  BY <1>1, Typed DEF MayPublish
<1>3. /\ sched' \in SaturdaySchedules /\ sched'.asg = a /\ sched'.manual = ManualIn(a)
      /\ sched'.over = sched.over
  BY <1>1, <1>2, Typed, ManualIsAssigned DEF SaturdaySchedules
<1>4. VolunteersOnly'
  BY <1>1, <1>3, Typed DEF VolunteersOnly, Active, Available, answers, Assigned
<1>5. CancelledIsClear'
  BY <1>1 DEF CancelledIsClear
<1>6. PostedIsNotOff'
  BY <1>1, <1>3 DEF PostedIsNotOff, Active, Available, Assigned
<1> QED BY <1>1, <1>2, <1>3, <1>4, <1>5, <1>6, Typed, SavedTyped, ManualIsAssigned, ScheduleSteps

(* The volunteers' defaults are placed once.                               *)
LEMMA PrepareKeeps ==
    ASSUME RecruitingInv, NEW a \in Assignments, Prepare(a)
    PROVE  RecruitingInv'
<1>1. /\ rec.st = "closed" /\ Assigned(a) \subseteq Available
      /\ sched' = [sched EXCEPT !.asg = a, !.manual = {}]
      /\ rec' = [rec EXCEPT !.prepared = TRUE]
      /\ UNCHANGED <<past, answers>> /\ marking' = marking
      /\ off' = off /\ saves' = saves /\ granted' = granted
  BY DEF Prepare, counters
<1>2. rec' \in Rounds /\ rec'.open = rec.open /\ rec'.st = "closed"
  BY <1>1, Typed DEF Rounds
<1>3. /\ sched' \in SaturdaySchedules /\ sched'.asg = a /\ sched'.manual = {}
      /\ sched'.over = sched.over
  BY <1>1, Typed DEF SaturdaySchedules
<1>4. VolunteersOnly' /\ CancelledIsClear' /\ PostedIsNotOff'
  BY <1>1, <1>2, <1>3 DEF VolunteersOnly, CancelledIsClear, PostedIsNotOff, Available,
                          answers, Assigned
<1> QED BY <1>1, <1>2, <1>3, <1>4, Typed, ScheduleSteps

(* The centers Auto manages are filled again; who stays was allowed.       *)
LEMMA AutoRebuildKeeps ==
    ASSUME RecruitingInv, NEW a \in Assignments, AutoRebuild(a)
    PROVE  RecruitingInv'
<1>1. /\ rec.st = "closed" /\ sched' = [sched EXCEPT !.pub = FALSE, !.asg = a]
      /\ \A p \in sched.manual : a[p] = sched.asg[p]
      /\ \A p \in Assigned(a) : a[p] = sched.asg[p] \/ p \in Available
      /\ UNCHANGED <<past, answers, marking, off, granted>> /\ rec' = rec /\ Saved
  BY DEF AutoRebuild, round
<1>2. /\ sched' \in SaturdaySchedules /\ ~sched'.pub /\ sched'.asg = a /\ sched'.manual = sched.manual
      /\ sched'.over = sched.over
  BY <1>1, Typed DEF SaturdaySchedules
<1>3. sched'.manual \subseteq Assigned(sched'.asg)
  BY <1>1, <1>2, Typed DEF Assigned
<1>4. VolunteersOnly'
  BY <1>1, <1>2 DEF RecruitingInv, RecruitingIsRight, VolunteersOnly, Active, Available,
                    answers, Assigned
<1>5. CancelledIsClear' /\ PostedIsNotOff'
  BY <1>1, <1>2 DEF CancelledIsClear, PostedIsNotOff
<1> QED BY <1>1, <1>2, <1>3, <1>4, <1>5, Typed, SavedTyped, ScheduleSteps

(* Everything is replaced by the volunteers' defaults.                     *)
LEMMA ResetKeeps ==
    ASSUME RecruitingInv, NEW a \in Assignments, ResetToDefaults(a)
    PROVE  RecruitingInv'
<1>1. /\ rec.st = "closed" /\ Assigned(a) \subseteq Available
      /\ sched' = [sched EXCEPT !.pub = FALSE, !.asg = a, !.manual = {}]
      /\ UNCHANGED <<past, answers, marking, off, granted>> /\ rec' = rec /\ Saved
  BY DEF ResetToDefaults, round
<1>2. PICK m \in SUBSET Assigned(a) : m = {}
  OBVIOUS
<1> QED BY <1>1, <1>2, Typed, SavedTyped, DraftKeeps

(* Centers are turned on and off: who works in one that is off loses it.   *)
LEMMA ToggleKeeps ==
    ASSUME RecruitingInv, NEW n \in Counts, ToggleCenters(n)
    PROVE  RecruitingInv'
<1>1. PICK a : a = [p \in People |-> IF sched.asg[p] # None /\ n[sched.asg[p]] = 0
                                     THEN None ELSE sched.asg[p]]
  OBVIOUS
<1>2. PICK m : m = sched.manual \ {p \in People : sched.asg[p] # None
                                                  /\ n[sched.asg[p]] = 0}
  OBVIOUS
<1>3. /\ rec.st # "cancelled" /\ sched' = [sched EXCEPT !.pub = FALSE, !.asg = a, !.manual = m]
      /\ resp' = resp /\ elig' = elig /\ past' = past /\ marking' = marking
      /\ off' = off /\ granted' = granted /\ Saved /\ UNCHANGED answers
      /\ rec.st = "recruiting" => MayOpen(n) /\ rec' = [rec EXCEPT !.open = n]
      /\ rec.st # "recruiting" => rec' = rec
  BY <1>1, <1>2 DEF ToggleCenters, answers
<1>4. /\ a \in Assignments /\ Assigned(a) \subseteq Assigned(sched.asg) /\ m \subseteq Assigned(a)
  BY <1>1, <1>2, Typed DEF Assignments, Assigned
<1>5. /\ rec' \in Rounds /\ rec'.st = rec.st /\ Coverable' /\ Unasked'
  <2>1. CASE rec.st = "recruiting"
    BY <1>3, <2>1, OpeningsChange
  <2>2. CASE rec.st # "recruiting"
    BY <1>3, <2>2, Typed, CoverageStays DEF RecruitingInv, RecruitingIsRight, Unasked
  <2> QED BY <2>1, <2>2
<1>6. /\ sched' \in SaturdaySchedules /\ ~sched'.pub /\ sched'.asg = a /\ sched'.manual = m
      /\ sched'.over = sched.over
  <2>1. m \subseteq People
    BY <1>2, Typed
  <2> QED BY <1>3, <1>4, <2>1, Typed DEF SaturdaySchedules
<1>7. saves' \in 0..MaxSaves
  BY <1>3, SavedTyped
<1>8. TypeOK'
  BY <1>3, <1>4, <1>5, <1>6, <1>7, Typed DEF TypeOK, Rounds, SaturdaySchedules, Counts
<1>9. VolunteersOnly'
  BY <1>3, <1>4, <1>5, <1>6 DEF RecruitingInv, RecruitingIsRight, VolunteersOnly, Active, Assigned
<1>10. CancelledIsClear' /\ PostedIsNotOff'
  BY <1>3, <1>5, <1>6 DEF CancelledIsClear, PostedIsNotOff
<1> QED BY <1>5, <1>8, <1>9, <1>10 DEF RecruitingInv, RecruitingIsRight

(* Somebody is moved between Unassigned and Off: what was posted is a draft*)
LEMMA SetAvailabilityKeeps ==
    ASSUME RecruitingInv, NEW p \in People, NEW to \in {"off", "unassigned"},
           SetAvailability(p, to)
    PROVE  RecruitingInv'
<1>1. /\ Active /\ sched' = [sched EXCEPT !.over[p] = to, !.pub = FALSE]
      /\ UNCHANGED <<past, answers>> /\ rec' = rec /\ marking' = marking
      /\ off' = off /\ saves' = saves /\ granted' = granted
  BY DEF SetAvailability, round, counters
<1>2. /\ sched' \in SaturdaySchedules /\ ~sched'.pub /\ sched'.asg = sched.asg
      /\ sched'.manual = sched.manual
      /\ \A q \in People : sched.over[q] # "none" => sched'.over[q] # "none"
  BY <1>1, Typed DEF SaturdaySchedules
<1>3. VolunteersOnly'
  BY <1>1, <1>2 DEF RecruitingInv, RecruitingIsRight, VolunteersOnly, Active, answers, Assigned
<1>4. CancelledIsClear' /\ PostedIsNotOff'
  BY <1>1, <1>2 DEF CancelledIsClear, PostedIsNotOff, Active
<1> QED BY <1>1, <1>2, <1>3, <1>4, Typed, ScheduleSteps DEF Assigned

(* The time-off mirror changes.                                            *)
LEMMA TimeOffKeeps ==
    ASSUME RecruitingInv, NEW p \in People, TimeOff(p)
    PROVE  RecruitingInv'
<1>1. /\ rec' = rec /\ sched' = sched /\ past' = past /\ marking' = marking /\ resp' = resp
      /\ UNCHANGED <<past, answers>> /\ saves' = saves
  BY DEF TimeOff, round, answers
<1>2. off' \subseteq People /\ granted' \in 0..MaxTimeOff
  BY Typed, BoundsAssumption DEF TimeOff
<1>3. VolunteersOnly' /\ CancelledIsClear' /\ PostedIsNotOff'
  BY <1>1 DEF RecruitingInv, RecruitingIsRight, VolunteersOnly, CancelledIsClear,
              PostedIsNotOff, Active, Assigned
<1> QED BY <1>1, <1>2, <1>3, Typed, ScheduleSteps DEF Assigned

(***************************************************************************)
(* The theorems                                                            *)
(***************************************************************************)
(* Every step keeps the invariant.                                         *)
LEMMA RecruitingSteps == RecruitingInv /\ [Next]_vars => RecruitingInv'
<1> SUFFICES ASSUME RecruitingInv, [Next]_vars PROVE RecruitingInv'
  OBVIOUS
<1>1. ASSUME NEW n \in Counts, Activate(n) \/ UpdateOpenings(n) \/ ToggleCenters(n)
      PROVE  RecruitingInv'
  BY <1>1, ActivationKeeps, UpdateOpeningsKeeps, ToggleKeeps
<1>2. ASSUME NEW a \in Assignments,
             SaveDraft(a) \/ Publish(a) \/ Prepare(a) \/ AutoRebuild(a) \/ ResetToDefaults(a)
      PROVE  RecruitingInv'
  BY <1>2, SaveDraftKeeps, PublishKeeps, PrepareKeeps, AutoRebuildKeeps, ResetKeeps
<1>3. ASSUME NEW p \in People,
             \/ RecordLater(p) \/ Decline(p) \/ Commit(p)
             \/ CancelByEmployee(p) \/ CancelByManager(p) \/ TimeOff(p)
             \/ \E to \in {"off", "unassigned"} : SetAvailability(p, to)
      PROVE  RecruitingInv'
  BY <1>3, NoCommitment, CommitKeeps, CancelsKeeps, TimeOffKeeps, SetAvailabilityKeeps
<1>4. CASE UNCHANGED vars
  <2>1. /\ rec' = rec /\ sched' = sched /\ UNCHANGED <<past, answers, sched, counters>>
        /\ marking' = marking
    BY <1>4 DEF vars, answers, counters
  <2> QED BY <2>1, Typed, ScheduleStays
<1> QED BY <1>1, <1>2, <1>3, <1>4, DeadlineKeeps, RoundGoesOn, CancelKeeps DEF Next

(* Those who hold a commitment can all be placed, one opening each, nobody *)
(* else is scheduled, a cancelled day stays clear and who is off is not on *)
(* the posted schedule (saturday_recruiting_store.py:265, :687, :888-946). *)
THEOREM RecruitingIsSafe == Spec => []RecruitingIsRight
<1>1. Init => RecruitingInv
  BY RecruitingStarts
<1>2. RecruitingInv /\ [Next]_vars => RecruitingInv'
  BY RecruitingSteps
<1>3. RecruitingInv => RecruitingIsRight
  BY DEF RecruitingInv
<1> QED BY <1>1, <1>2, <1>3, PTL DEF Spec

(* Once the round is closed an employee's answer stands; only the manager  *)
(* takes a commitment back (saturday_recruiting_store.py:405).             *)
THEOREM AnswersStand == Spec => ClosedIsFrozen
<1>1. ASSUME RecruitingInv, [Next]_vars PROVE [ClosedStep]_vars
  <2> SUFFICES ASSUME Next, rec.st \notin {"none", "recruiting"}, NEW p \in People
               PROVE  \/ resp'[p] = resp[p]
                      \/ resp[p] = "committed" /\ resp'[p] = "cancelled"
    BY <1>1 DEF ClosedStep
  <2>1. resp \in [People -> Answers]
    BY <1>1, Typed
  <2>2. ASSUME NEW q \in People, CancelByManager(q)
        PROVE  resp'[p] = resp[p] \/ (resp[p] = "committed" /\ resp'[p] = "cancelled")
    BY <2>1, <2>2 DEF CancelByManager, Cancels
  <2>3. ASSUME NEW q \in People,
               RecordLater(q) \/ Decline(q) \/ Commit(q) \/ CancelByEmployee(q)
        PROVE  FALSE
    BY <2>3 DEF RecordLater, Decline, Commit, CancelByEmployee, RequireOpen
  <2>4. ASSUME NEW q \in People,
               TimeOff(q) \/ \E to \in {"off", "unassigned"} : SetAvailability(q, to)
        PROVE  resp' = resp
    BY <2>4 DEF TimeOff, SetAvailability, answers
  <2>5. ASSUME NEW n \in Counts, Activate(n) \/ UpdateOpenings(n) \/ ToggleCenters(n)
        PROVE  resp' = resp
    BY <2>5 DEF Activate, UpdateOpenings, ToggleCenters, answers
  <2>6. ASSUME NEW a \in Assignments,
               SaveDraft(a) \/ Publish(a) \/ Prepare(a) \/ AutoRebuild(a) \/ ResetToDefaults(a)
        PROVE  resp' = resp
    BY <2>6 DEF SaveDraft, Publish, Prepare, AutoRebuild, ResetToDefaults, answers
  <2>7. DeadlinePasses \/ CloseDue \/ CancelRecruitment \/ MarkPublished \/ MarkFails => resp' = resp
    BY DEF DeadlinePasses, CloseDue, CancelRecruitment, MarkPublished, MarkFails, answers
  <2> QED BY <2>2, <2>3, <2>4, <2>5, <2>6, <2>7 DEF Next
<1>2. Spec => []RecruitingInv
  BY RecruitingStarts, RecruitingSteps, PTL DEF Spec
<1> QED BY <1>1, <1>2, PTL DEF Spec, ClosedIsFrozen

-----------------------------------------------------------------------------
(***************************************************************************)
(* The stored schedule.                                                    *)
(***************************************************************************)
Served == [op : AllOps \cup {"none"},
           pc : {"idle", "load", "row", "read", "loaded", "write",
                 "begin", "locked", "committed", "upload"},
           got : Schedules, ver : 0..MaxVer, doc : Docs]

(* What a day without a row looks like is a schedule (load_schedule).      *)
LEMMA BlankIsTyped == Blank \in Schedules /\ NotCached \notin Schedules
                      /\ Idle \in Served
<1>1. NoSnap \in Snapshots \cup {NoSnap} /\ 0 \in 0..MaxVer /\ Empty \in Docs
  BY ScheduleAssumption DEF Docs
<1>2. Blank \in Schedules
  BY <1>1 DEF Blank, Schedules
<1>3. NotCached.asg = "none"
  BY DEF NotCached, Blank
<1>4. "none" \notin Docs
  BY DEF Docs, Empty
<1>5. NotCached \notin Schedules
  BY <1>3, <1>4 DEF Schedules
<1> QED BY <1>1, <1>2, <1>5 DEF Idle, Served

(* A day without a row says nothing of a delivery.                         *)
LEMMA NothingSaid == SaysTruly(Blank) /\ SaysTruly(NotCached)
BY DEF SaysTruly, Says, Blank, NotCached, NoSnap

(* A draft keeps what was posted, with its version and its mark            *)
(* (staffing.py, the fork of a posted schedule).                           *)
LEMMA DraftIsTyped ==
    ASSUME NEW s \in Schedules, SaysTruly(s)
    PROVE  /\ DraftFromPosted(s) \in Schedules
           /\ SaysTruly(DraftFromPosted(s))
           /\ DraftFromPosted(s).auto = s.auto
<1>1. SnapshotOf(s) \in Snapshots /\ 0 \in 0..MaxVer
  BY ScheduleAssumption DEF Schedules, Snapshots, SnapshotOf
<1>2. CASE ~s.pub
  BY <1>2 DEF DraftFromPosted
<1>3. CASE s.pub
  <2> DEFINE kept == IF s.snap = NoSnap THEN SnapshotOf(s) ELSE s.snap
             d == [s EXCEPT !.pub = FALSE, !.ver = 0, !.mark = FALSE, !.snap = kept]
  <2>1. DraftFromPosted(s) = d
    BY <1>3 DEF DraftFromPosted
  <2>2. kept \in Snapshots \cup {NoSnap}
    BY <1>1 DEF Schedules
  <2>3. d \in Schedules /\ d.snap = kept /\ d.mark = FALSE /\ d.auto = s.auto
    BY <1>1, <2>2 DEF Schedules
  <2>4. Says(kept)
    BY DEF SaysTruly, Says, SnapshotOf
  <2> HIDE DEF d, kept
  <2> QED BY <2>1, <2>3, <2>4 DEF SaysTruly, Says
<1> QED BY <1>2, <1>3

(* Whatever is saved, the row stays well-formed, its snapshot claims only  *)
(* what was delivered, and it keeps the choice of centers it has           *)
(* (_save_schedule_with_cursor).                                           *)
LEMMA UpsertKeeps ==
    ASSUME NEW new \in Schedules, SaysTruly(new), row \in Schedules, SaysTruly(row)
    PROVE  /\ Upsert(new) \in Schedules /\ SaysTruly(Upsert(new)) /\ Upsert(new).has
           /\ Upsert(new).auto = IF row.has THEN row.auto ELSE new.auto
<1>1. MergedSnap(new) \in Snapshots \cup {NoSnap}
  BY DEF MergedSnap, Schedules, Snapshots
<1>2. Says(MergedSnap(new))
  <2>1. CASE /\ row.pub /\ ~new.pub /\ new.snap # NoSnap
             /\ row.ver # 0 /\ row.ver = new.snap.ver
    <3>1. MergedSnap(new) = [new.snap EXCEPT !.mark = row.mark]
      BY <2>1 DEF MergedSnap
    <3>2. new.snap \in Snapshots
      BY <2>1 DEF Schedules
    <3>3. MergedSnap(new).mark = row.mark /\ MergedSnap(new).ver = row.ver
      BY <3>1, <3>2, <2>1 DEF Snapshots
    <3> QED BY <3>3 DEF SaysTruly, Says
  <2>2. CASE ~(/\ row.pub /\ ~new.pub /\ new.snap # NoSnap
               /\ row.ver # 0 /\ row.ver = new.snap.ver)
    BY <2>2 DEF MergedSnap, SaysTruly
  <2> QED BY <2>1, <2>2
<1> DEFINE m == MergedSnap(new)
           au == IF row.has THEN row.auto ELSE new.auto
           u == [new EXCEPT !.has = TRUE, !.snap = m, !.auto = au]
<1>3. Upsert(new) = u
  BY DEF Upsert
<1>4. m \in Snapshots \cup {NoSnap} /\ au \in BOOLEAN
  BY <1>1 DEF Schedules
<1> HIDE DEF m, au
<1>5. u \in Schedules /\ u.snap = m /\ u.has /\ u.auto = au
      /\ u.mark = new.mark /\ u.ver = new.ver
  BY <1>4 DEF Schedules
<1>6. Says(u)
  BY <1>5 DEF SaysTruly, Says
<1>7. Says(u.snap)
  BY <1>5, <1>2 DEF m
<1> HIDE DEF u
<1> QED BY <1>3, <1>5, <1>6, <1>7 DEF SaysTruly, au

(* A day begins without a row and with nothing promised.                   *)
LEMMA ScheduleStarts == ScheduleInit => ScheduleInv
<1> SUFFICES ASSUME ScheduleInit PROVE ScheduleInv
  OBVIOUS
<1>1. ScheduleTypeOK
  <2>1. thread \in [Threads -> Served]
    BY BlankIsTyped DEF ScheduleInit
  <2>2. versions \in 0..MaxVer /\ ops \in 0..MaxOps
    BY ScheduleAssumption DEF ScheduleInit
  <2>3. marks \subseteq (1..MaxVer) \X Docs /\ toggled \in BOOLEAN
    BY DEF ScheduleInit
  <2> QED BY <2>1, <2>2, <2>3, BlankIsTyped DEF ScheduleInit, ScheduleTypeOK, Served
<1>2. ToggleStands
  BY DEF ScheduleInit, ToggleStands, Blank
<1>3. MarkedIsDelivered
  BY NothingSaid DEF ScheduleInit, MarkedIsDelivered
<1>4. ASSUME NEW t \in Threads
      PROVE  SaysTruly(thread[t].got) /\ thread[t].pc # "upload"
  BY NothingSaid DEF ScheduleInit, Idle
<1> QED BY <1>1, <1>2, <1>3, <1>4 DEF ScheduleInv, ScheduleIsRight

(* One thread goes on: what it has loaded, and the version it was asked to *)
(* deliver, are all that matters of it.                                    *)
LEMMA ThreadGoes ==
    ASSUME ScheduleInv, NEW t \in Threads, NEW new \in Served,
           thread' = [thread EXCEPT ![t] = new],
           marks' = marks, SaysTruly(new.got), new.pc = "upload" => new.ver # 0
    PROVE  /\ thread' \in [Threads -> Served]
           /\ \A u \in Threads :
                 /\ SaysTruly(thread[u].got)'
                 /\ thread'[u].pc = "upload" => thread'[u].ver # 0
<1>1. thread \in [Threads -> Served]
  BY DEF ScheduleInv, ScheduleIsRight, ScheduleTypeOK, Served
<1>2. ASSUME NEW u \in Threads
      PROVE  /\ SaysTruly(thread[u].got)'
             /\ thread'[u].pc = "upload" => thread'[u].ver # 0
  <2>1. thread'[u] = IF u = t THEN new ELSE thread[u]
    BY <1>1
  <2>2. SaysTruly(thread[u].got) /\ (thread[u].pc = "upload" => thread[u].ver # 0)
    BY DEF ScheduleInv
  <2>3. SaysTruly(thread'[u].got)
    BY <2>1, <2>2
  <2> QED BY <2>1, <2>2, <2>3 DEF SaysTruly, Says
<1> QED BY <1>1, <1>2

(* The steps that only load, show and drop the cache.                      *)
LEMMA LoadKeeps ==
    ASSUME ScheduleInv, NEW t \in Threads, NEW new \in Served,
           thread' = [thread EXCEPT ![t] = new],
           SaysTruly(new.got), new.pc = "upload" => new.ver # 0,
           row' = row, versions' = versions, marks' = marks, toggled' = toggled,
           cache' \in {cache, NotCached, thread[t].got}, ops' \in 0..MaxOps
    PROVE  ScheduleInv'
<1>1. /\ thread' \in [Threads -> Served]
      /\ \A u \in Threads : /\ SaysTruly(thread[u].got)'
                            /\ thread'[u].pc = "upload" => thread'[u].ver # 0
  BY ThreadGoes
<1>2. thread[t].got \in Schedules /\ SaysTruly(thread[t].got)
  BY DEF ScheduleInv, ScheduleIsRight, ScheduleTypeOK
<1>3. ScheduleTypeOK'
  BY <1>1, <1>2 DEF ScheduleInv, ScheduleIsRight, ScheduleTypeOK, Served
<1>4. ToggleStands'
  BY DEF ScheduleInv, ScheduleIsRight, ToggleStands
<1>5. MarkedIsDelivered'
  <2>1. SaysTruly(cache')
    BY <1>2, NothingSaid DEF ScheduleInv, ScheduleIsRight, MarkedIsDelivered
  <2>2. SaysTruly(row)
    BY DEF ScheduleInv, ScheduleIsRight, MarkedIsDelivered
  <2> QED BY <2>1, <2>2 DEF MarkedIsDelivered, SaysTruly, Says
<1> QED BY <1>1, <1>3, <1>4, <1>5 DEF ScheduleInv, ScheduleIsRight

(* The steps that write the row, in one transaction.                       *)
LEMMA RowKeeps ==
    ASSUME ScheduleInv, NEW t \in Threads, NEW new \in Served,
           thread' = [thread EXCEPT ![t] = new],
           SaysTruly(new.got), new.pc # "upload",
           row' \in Schedules, SaysTruly(row'), row'.has \/ row' = Blank,
           toggled' \in BOOLEAN, row'.auto = toggled',
           cache' = cache, versions' \in 0..MaxVer, ops' = ops, marks' = marks
    PROVE  ScheduleInv'
<1>1. /\ thread' \in [Threads -> Served]
      /\ \A u \in Threads : /\ SaysTruly(thread[u].got)'
                            /\ thread'[u].pc = "upload" => thread'[u].ver # 0
  BY ThreadGoes
<1>2. ScheduleTypeOK'
  BY <1>1 DEF ScheduleInv, ScheduleIsRight, ScheduleTypeOK, Served
<1>3. MarkedIsDelivered'
  BY DEF ScheduleInv, ScheduleIsRight, MarkedIsDelivered, SaysTruly, Says
<1> QED BY <1>1, <1>2, <1>3 DEF ScheduleInv, ScheduleIsRight, ToggleStands

(* Every step of a request keeps the schedule right.                       *)
LEMMA ScheduleStepKeeps ==
    ASSUME ScheduleInv, NEW t \in Threads,
           \/ \E op \in AllOps : Start(t, op)
           \/ LoadHit(t) \/ ReadRow(t) \/ ReadAssignments(t) \/ StoreCache(t)
           \/ Shown(t) \/ DropCache(t) \/ Unpublish(t)
           \/ \E b \in BOOLEAN : ApiPublished(t, b)
           \/ \E a \in Docs : \/ Save(t, a) \/ PublishSchedule(t, a)
                              \/ RemovePerson(t, a) \/ Seed(t, a)
                              \/ \E on \in BOOLEAN : Toggle(t, on, a)
           \/ LockRow(t) \/ Metadata(t) \/ Delete(t) \/ Invalidate(t)
           \/ CheckVersion(t) \/ Upload(t) \/ RecordDelivery(t)
    PROVE  ScheduleInv'
<1> DEFINE me == thread[t]
<1>a. /\ me \in Served /\ me.got \in Schedules /\ SaysTruly(me.got)
      /\ me.pc = "upload" => me.ver # 0
      /\ thread \in [Threads -> Served]
  BY DEF ScheduleInv, ScheduleIsRight, ScheduleTypeOK, Served
<1>b. /\ row \in Schedules /\ SaysTruly(row) /\ row.auto = toggled
      /\ (~row.has => row = Blank) /\ toggled \in BOOLEAN
      /\ cache \in Schedules \cup {NotCached} /\ SaysTruly(cache)
      /\ versions \in 0..MaxVer /\ ops \in 0..MaxOps
  BY DEF ScheduleInv, ScheduleIsRight, ScheduleTypeOK, MarkedIsDelivered, ToggleStands
<1>c. Idle \in Served /\ Blank \in Schedules /\ SaysTruly(Idle.got) /\ Idle.pc = "idle"
  BY BlankIsTyped, NothingSaid DEF Idle
<1>d. ASSUME NEW pc \in {"idle", "load", "row", "read", "loaded", "write",
                         "begin", "locked", "committed"}
      PROVE  LET new == [me EXCEPT !.pc = pc] IN
             new \in Served /\ new.got = me.got /\ new.pc = pc
  BY <1>a, <1>d DEF Served
<1>1. ASSUME NEW op \in AllOps, Start(t, op) PROVE ScheduleInv'
  <2> DEFINE pc == IF op \in Loads THEN "load" ELSE "begin"
             new == [me EXCEPT !.op = op, !.pc = pc]
  <2>1. thread' = [thread EXCEPT ![t] = new]
    BY <1>1, <1>a DEF Start
  <2>2. new \in Served /\ new.got = me.got /\ new.pc # "upload"
    BY <1>a DEF Served
  <2>3. ops' \in 0..MaxOps
    BY <1>1, <1>b, ScheduleAssumption DEF Start
  <2>4. UNCHANGED <<row, cache, versions, marks, toggled>>
    BY <1>1 DEF Start, history
  <2> HIDE DEF new, me
  <2> QED BY <2>1, <2>2, <2>3, <2>4, <1>a, LoadKeeps DEF me
<1>2. CASE LoadHit(t)
  <2> DEFINE new == [me EXCEPT !.got = cache, !.pc = "loaded"]
  <2>1. thread' = [thread EXCEPT ![t] = new]
    BY <1>2, <1>a DEF LoadHit
  <2>2. new \in Served /\ new.got = cache /\ new.pc # "upload"
    BY <1>2, <1>a, <1>b DEF LoadHit, Served
  <2>3. UNCHANGED <<row, cache, versions, ops, marks, toggled>>
    BY <1>2 DEF LoadHit, history
  <2> HIDE DEF new, me
  <2> QED BY <2>1, <2>2, <2>3, <1>b, LoadKeeps
<1>3. CASE ReadRow(t)
  <2> DEFINE pc == IF row.has THEN "row" ELSE "read"
             new == [me EXCEPT !.got = row, !.pc = pc]
  <2>1. thread' = [thread EXCEPT ![t] = new]
    BY <1>3, <1>a DEF ReadRow
  <2>2. new \in Served /\ new.got = row /\ new.pc # "upload"
    BY <1>a, <1>b DEF Served
  <2>3. UNCHANGED <<row, cache, versions, ops, marks, toggled>>
    BY <1>3 DEF ReadRow, history
  <2> HIDE DEF new, me
  <2> QED BY <2>1, <2>2, <2>3, <1>b, LoadKeeps
<1>4. CASE ReadAssignments(t)
  <2> DEFINE got == [me.got EXCEPT !.asg = row.asg]
             new == [me EXCEPT !.got = got, !.pc = "read"]
  <2>1. thread' = [thread EXCEPT ![t] = new]
    BY <1>4, <1>a DEF ReadAssignments, Served
  <2>2. /\ got \in Schedules /\ got.mark = me.got.mark /\ got.ver = me.got.ver
        /\ got.snap = me.got.snap
    BY <1>a, <1>b DEF Schedules
  <2>3. SaysTruly(got)
    BY <2>2, <1>a DEF SaysTruly, Says
  <2>4. new \in Served /\ new.got = got /\ new.pc # "upload"
    BY <1>a, <2>2 DEF Served
  <2>5. UNCHANGED <<row, cache, versions, ops, marks, toggled>>
    BY <1>4 DEF ReadAssignments, history
  <2> HIDE DEF new, me, got
  <2> QED BY <2>1, <2>3, <2>4, <2>5, <1>b, LoadKeeps
<1>5. CASE StoreCache(t)
  <2>1. /\ thread' = [thread EXCEPT ![t] = [me EXCEPT !.pc = "loaded"]]
        /\ cache' = me.got
        /\ UNCHANGED <<row, versions, ops, marks, toggled>>
    BY <1>5, <1>a DEF StoreCache, Goes, history
  <2> QED BY <2>1, <1>a, <1>b, <1>d, LoadKeeps
<1>6. CASE Shown(t)
  <2>1. thread' = [thread EXCEPT ![t] = Idle]
        /\ UNCHANGED <<row, cache, versions, ops, marks, toggled>>
    BY <1>6 DEF Shown, Ends, history
  <2> QED BY <2>1, <1>b, <1>c, LoadKeeps
<1>7. CASE DropCache(t) \/ LockRow(t)
  <2>1. PICK pc \in {"write", "locked"} :
           thread' = [thread EXCEPT ![t] = [me EXCEPT !.pc = pc]]
    BY <1>7, <1>a DEF DropCache, LockRow, Goes
  <2>2. cache' = NotCached /\ UNCHANGED <<row, versions, ops, marks, toggled>>
    BY <1>7 DEF DropCache, LockRow, history
  <2> QED BY <2>1, <2>2, <1>a, <1>b, <1>d, LoadKeeps
<1>8. CASE Invalidate(t)
  <2>1. /\ thread' = [thread EXCEPT ![t] = Idle] /\ cache' = NotCached
        /\ UNCHANGED <<row, versions, ops, marks, toggled>>
    BY <1>8 DEF Invalidate, Ends, history
  <2> QED BY <2>1, <1>b, <1>c, LoadKeeps
<1>9. CASE CheckVersion(t)
  <2> DEFINE d == Delivered(me.got)
  <2>1. UNCHANGED <<row, cache, versions, ops, marks, toggled>>
    BY <1>9 DEF CheckVersion, history
  <2>2. CASE d.ver = 0
    <3>1. thread' = [thread EXCEPT ![t] = Idle]
      BY <1>9, <2>2 DEF CheckVersion, Ends
    <3> QED BY <2>1, <3>1, <1>b, <1>c, LoadKeeps
  <2>3. CASE d.ver # 0
    <3> DEFINE new == [me EXCEPT !.ver = d.ver, !.pc = "load"]
    <3>1. thread' = [thread EXCEPT ![t] = new]
      BY <1>9, <1>a, <2>3 DEF CheckVersion
    <3>2. d.ver \in 0..MaxVer
      BY <1>a DEF Delivered, SnapshotOf, Schedules, Snapshots
    <3>3. new \in Served /\ new.got = me.got /\ new.pc # "upload"
      BY <1>a, <3>2 DEF Served
    <3> HIDE DEF new, me
    <3> QED BY <2>1, <3>1, <3>3, <1>a, <1>b, LoadKeeps
  <2> QED BY <2>2, <2>3
<1>10. CASE Upload(t)
  <2> DEFINE d == Delivered(me.got)
             new == [me EXCEPT !.doc = d.asg, !.pc = "upload"]
  <2>1. thread' = [thread EXCEPT ![t] = new]
        /\ UNCHANGED <<row, cache, versions, ops, marks, toggled>>
    BY <1>10, <1>a DEF Upload, history
  <2>2. d.asg \in Docs
    BY <1>a DEF Delivered, SnapshotOf, Schedules, Snapshots, NoSnap, Docs
  <2>3. new \in Served /\ new.got = me.got /\ new.ver = me.ver
    BY <1>a, <2>2 DEF Served
  <2>4. me.ver # 0
    BY <1>10 DEF Upload
  <2> HIDE DEF new, me
  <2> QED BY <2>1, <2>3, <2>4, <1>a, <1>b, LoadKeeps
<1>11. ASSUME NEW new \in Schedules, SaysTruly(new), Writes(t, new),
              versions' \in 0..MaxVer
       PROVE  ScheduleInv'
  <2>1. /\ Upsert(new) \in Schedules /\ SaysTruly(Upsert(new)) /\ Upsert(new).has
        /\ Upsert(new).auto = IF row.has THEN row.auto ELSE new.auto
    BY <1>11, <1>b, UpsertKeeps
  <2>2. /\ thread' = [thread EXCEPT ![t] = Idle] /\ row' = Upsert(new)
        /\ toggled' = IF row.has THEN toggled ELSE new.auto
        /\ UNCHANGED <<cache, ops, marks>>
    BY <1>11 DEF Writes, Ends
  <2>3. toggled' \in BOOLEAN /\ row'.auto = toggled'
    BY <1>11, <1>b, <2>1, <2>2 DEF Schedules
  <2> HIDE DEF me
  <2> QED BY <1>11, <1>c, <2>1, <2>2, <2>3, RowKeeps
<1>12. ASSUME NEW a \in Docs, Save(t, a) PROVE ScheduleInv'
  <2> DEFINE d == DraftFromPosted(me.got)
             new == [d EXCEPT !.asg = a]
  <2>1. d \in Schedules /\ SaysTruly(d)
    BY <1>a, DraftIsTyped
  <2> HIDE DEF d
  <2>2. /\ new \in Schedules /\ new.mark = d.mark /\ new.ver = d.ver
        /\ new.snap = d.snap
    BY <2>1 DEF Schedules
  <2>3. SaysTruly(new)
    BY <2>1, <2>2 DEF SaysTruly, Says
  <2>4. Writes(t, new) /\ versions' = versions
    BY <1>12 DEF Save, d
  <2> QED BY <2>2, <2>3, <2>4, <1>b, <1>11
<1>13. ASSUME NEW a \in Docs, PublishSchedule(t, a) PROVE ScheduleInv'
  <2> DEFINE v == versions + 1
             new == [me.got EXCEPT !.pub = TRUE, !.asg = a, !.snap = NoSnap,
                                   !.ver = v, !.mark = FALSE]
  <2>0. versions' = versions + 1 /\ versions < MaxVer
    BY <1>13 DEF PublishSchedule
  <2>1. v \in 0..MaxVer /\ versions' = v
    BY <2>0, <1>b, ScheduleAssumption
  <2> HIDE DEF v
  <2>2. new \in Schedules /\ new.mark = FALSE /\ new.snap = NoSnap
    BY <1>a, <2>1 DEF Schedules
  <2>3. SaysTruly(new)
    BY <2>2 DEF SaysTruly, Says, NoSnap
  <2>4. Writes(t, new)
    BY <1>13, <2>1 DEF PublishSchedule
  <2> QED BY <2>1, <2>2, <2>3, <2>4, <1>11
<1>14. CASE Unpublish(t)
  <2> DEFINE kept == IF me.got.pub /\ me.got.snap = NoSnap THEN SnapshotOf(me.got)
                     ELSE me.got.snap
             new == [me.got EXCEPT !.pub = FALSE, !.snap = kept]
  <2>1. kept \in Snapshots \cup {NoSnap} /\ Says(kept)
    BY <1>a DEF SnapshotOf, Schedules, Snapshots, SaysTruly, Says
  <2>2. Writes(t, new) /\ versions' = versions
    BY <1>14, <1>a DEF Unpublish, Schedules
  <2> HIDE DEF kept
  <2>3. /\ new \in Schedules /\ new.mark = me.got.mark /\ new.ver = me.got.ver
        /\ new.snap = kept
    BY <1>a, <2>1 DEF Schedules
  <2>4. SaysTruly(new)
    BY <1>a, <2>1, <2>3 DEF SaysTruly, Says
  <2> QED BY <2>2, <2>3, <2>4, <1>b, <1>11
<1>15. ASSUME NEW b \in BOOLEAN, ApiPublished(t, b) PROVE ScheduleInv'
  <2> DEFINE new == [me.got EXCEPT !.pub = b]
  <2>1. /\ new \in Schedules /\ new.mark = me.got.mark /\ new.ver = me.got.ver
        /\ new.snap = me.got.snap
    BY <1>a DEF Schedules
  <2>2. SaysTruly(new)
    BY <1>a, <2>1 DEF SaysTruly, Says
  <2>3. Writes(t, new) /\ versions' = versions
    BY <1>15 DEF ApiPublished
  <2> QED BY <2>1, <2>2, <2>3, <1>b, <1>11
<1>16. ASSUME NEW a \in Docs, NEW on \in BOOLEAN, Toggle(t, on, a) PROVE ScheduleInv'
  <2> DEFINE d == DraftFromPosted(row)
             new == [d EXCEPT !.has = TRUE, !.auto = on, !.asg = a]
  <2>1. d \in Schedules /\ SaysTruly(d)
    BY <1>b, DraftIsTyped
  <2>2. /\ row' = new /\ toggled' = on /\ thread' = [thread EXCEPT ![t] = Idle]
        /\ UNCHANGED <<cache, versions, ops, marks>>
    BY <1>16 DEF Toggle, Ends
  <2> HIDE DEF d
  <2>3. /\ new \in Schedules /\ new.mark = d.mark /\ new.ver = d.ver
        /\ new.snap = d.snap /\ new.has /\ new.auto = on
    BY <2>1 DEF Schedules
  <2>4. SaysTruly(new)
    BY <2>1, <2>3 DEF SaysTruly, Says
  <2> HIDE DEF new, me
  <2> QED BY <2>2, <2>3, <2>4, <1>b, <1>c, RowKeeps
<1>17. ASSUME NEW a \in Docs, RemovePerson(t, a) PROVE ScheduleInv'
  <2> DEFINE new == [row EXCEPT !.asg = a]
  <2>1. /\ thread' = [thread EXCEPT ![t] = Idle]
        /\ row' = IF row.has THEN Upsert(new) ELSE row
        /\ UNCHANGED <<cache, versions, ops, marks, toggled>>
    BY <1>17 DEF RemovePerson, Ends
  <2>2. /\ new \in Schedules /\ new.mark = row.mark /\ new.ver = row.ver
        /\ new.snap = row.snap
    BY <1>b DEF Schedules
  <2>3. SaysTruly(new)
    BY <1>b, <2>2 DEF SaysTruly, Says
  <2>4. /\ Upsert(new) \in Schedules /\ SaysTruly(Upsert(new)) /\ Upsert(new).has
        /\ row.has => Upsert(new).auto = row.auto
    BY <2>2, <2>3, <1>b, UpsertKeeps
  <2>5. /\ row' \in Schedules /\ SaysTruly(row') /\ row'.auto = toggled
        /\ (row'.has \/ row' = Blank)
    BY <1>b, <2>1, <2>4
  <2> HIDE DEF new, me
  <2> QED BY <2>1, <2>5, <1>b, <1>c, RowKeeps
<1>18. CASE Metadata(t)
  <2> DEFINE d == DraftFromPosted(row)
             new == [d EXCEPT !.has = TRUE]
  <2>1. d \in Schedules /\ SaysTruly(d) /\ d.auto = row.auto
    BY <1>b, DraftIsTyped
  <2>2. /\ row' = new /\ thread' = [thread EXCEPT ![t] = [me EXCEPT !.pc = "committed"]]
        /\ UNCHANGED <<cache, versions, ops, marks, toggled>>
    BY <1>18, <1>a DEF Metadata, Goes, history
  <2> HIDE DEF d
  <2>3. /\ new \in Schedules /\ new.mark = d.mark /\ new.ver = d.ver
        /\ new.snap = d.snap /\ new.has /\ new.auto = d.auto
    BY <2>1 DEF Schedules
  <2>4. SaysTruly(new)
    BY <2>1, <2>3 DEF SaysTruly, Says
  <2>5. PICK next \in Served : next = [me EXCEPT !.pc = "committed"]
                              /\ next.got = me.got /\ next.pc = "committed"
    BY <1>d
  <2>6. /\ row' \in Schedules /\ SaysTruly(row') /\ row'.has
        /\ row'.auto = toggled' /\ toggled' \in BOOLEAN /\ versions' \in 0..MaxVer
    BY <2>1, <2>2, <2>3, <2>4, <1>b
  <2>7. thread' = [thread EXCEPT ![t] = next] /\ SaysTruly(next.got) /\ next.pc # "upload"
    BY <2>2, <2>5, <1>a
  <2> HIDE DEF new, me
  <2> QED BY <2>2, <2>6, <2>7, RowKeeps
<1>19. CASE Delete(t) \/ \E a \in Docs : Seed(t, a)
  <2>1. /\ thread' = [thread EXCEPT ![t] = [me EXCEPT !.pc = "committed"]]
        /\ UNCHANGED <<cache, versions, ops, marks>>
    BY <1>19, <1>a DEF Delete, Seed, Goes
  <2>2. /\ row' \in Schedules /\ SaysTruly(row') /\ (row'.has \/ row' = Blank)
        /\ toggled' \in BOOLEAN /\ row'.auto = toggled'
    <3>1. CASE Delete(t)
      BY <3>1, <1>c, NothingSaid DEF Delete, Blank
    <3>2. ASSUME NEW a \in Docs, Seed(t, a), row.has
          PROVE  row' = row /\ toggled' = toggled
      BY <3>2, <1>b DEF Seed
    <3>3. ASSUME NEW a \in Docs, Seed(t, a), ~row.has
          PROVE  /\ row' = [Blank EXCEPT !.has = TRUE, !.asg = a, !.auto = TRUE]
                 /\ toggled' = TRUE
      BY <3>3 DEF Seed
    <3>4. ASSUME NEW a \in Docs
          PROVE  LET new == [Blank EXCEPT !.has = TRUE, !.asg = a, !.auto = TRUE] IN
                 /\ new \in Schedules /\ new.has /\ new.auto = TRUE
                 /\ new.mark = Blank.mark /\ new.snap = Blank.snap
      BY <1>c DEF Schedules
    <3>5. Blank.mark = FALSE /\ Says(Blank.snap)
      BY NothingSaid DEF Blank, SaysTruly
    <3> QED BY <1>19, <1>b, <3>1, <3>2, <3>3, <3>4, <3>5 DEF SaysTruly, Says
  <2>3. PICK next \in Served : next = [me EXCEPT !.pc = "committed"]
                              /\ next.got = me.got /\ next.pc = "committed"
    BY <1>d
  <2> HIDE DEF me
  <2> QED BY <2>1, <2>2, <2>3, <1>a, <1>b, RowKeeps
<1>20. CASE RecordDelivery(t)
  <2>1. PICK next \in Served : next = [me EXCEPT !.pc = "committed"]
                              /\ next.got = me.got /\ next.pc = "committed"
    BY <1>d
  <2>2. thread' = [thread EXCEPT ![t] = next]
        /\ UNCHANGED <<cache, versions, ops, toggled>>
    BY <1>20, <1>a, <2>1 DEF RecordDelivery, Goes
  <2>3. CASE ~Marks(t)
    <3>1. row' = row /\ marks' = marks
      BY <1>20, <2>3 DEF RecordDelivery
    <3>2. /\ row' \in Schedules /\ SaysTruly(row') /\ (row'.has \/ row' = Blank)
          /\ row'.auto = toggled' /\ toggled' \in BOOLEAN /\ versions' \in 0..MaxVer
      BY <2>2, <3>1, <1>b
    <3>3. SaysTruly(next.got) /\ next.pc # "upload"
      BY <2>1, <1>a
    <3> HIDE DEF me
    <3> QED BY <2>2, <3>1, <3>2, <3>3, RowKeeps
  <2>4. CASE Marks(t)
    <3> DEFINE mark == <<me.ver, me.doc>>
               snap == [row.snap EXCEPT !.mark = TRUE]
               new == IF row.pub THEN [row EXCEPT !.mark = TRUE]
                      ELSE [row EXCEPT !.snap = snap]
    <3>1. me.ver # 0 /\ me.ver \in 1..MaxVer /\ me.doc \in Docs
      BY <1>20, <1>a, ScheduleAssumption DEF RecordDelivery, At, Served
    <3>2. row' = new /\ marks' = marks \cup {mark}
      BY <1>20, <1>b, <2>4 DEF RecordDelivery, Schedules
    <3>3. mark \in (1..MaxVer) \X Docs /\ mark[1] = me.ver
      BY <3>1
    <3>4. /\ new \in Schedules /\ new.has = row.has /\ new.auto = row.auto
          /\ new.ver = row.ver
      BY <1>b, <2>4 DEF Marks, Schedules, Snapshots
    <3>5. row.has
      <4>1. row.pub \/ row.snap # NoSnap
        BY <2>4 DEF Marks
      <4> QED BY <4>1, <1>b DEF Blank
    <3>6. ASSUME NEW s, SaysTruly(s) PROVE SaysTruly(s)'
      BY <3>6, <3>2 DEF SaysTruly, Says
    <3>7. SaysTruly(row)'
      <4>1. CASE row.pub
        <5>1. new.snap = row.snap /\ row.ver = me.ver
          BY <4>1, <1>b, <2>4 DEF Marks, Delivered, SnapshotOf, Schedules
        <5> QED BY <5>1, <3>2, <3>3, <3>4, <1>b DEF SaysTruly, Says
      <4>2. CASE ~row.pub
        <5>1. row.snap # NoSnap /\ row.snap.ver = me.ver /\ row.snap \in Snapshots
          BY <4>2, <1>b, <2>4 DEF Marks, Delivered, Schedules
        <5>2. new.mark = row.mark /\ new.snap.ver = me.ver
          BY <4>2, <5>1, <1>b DEF Schedules, Snapshots
        <5> QED BY <5>2, <3>2, <3>3, <3>4, <1>b DEF SaysTruly, Says
      <4> QED BY <4>1, <4>2
    <3>8. thread' \in [Threads -> Served] /\ thread'[t] = next
          /\ \A u \in Threads \ {t} : thread'[u] = thread[u]
      BY <2>1, <2>2, <1>a
    <3>9. ScheduleTypeOK'
      <4>1. marks' \subseteq (1..MaxVer) \X Docs
        BY <3>2, <3>3 DEF ScheduleInv, ScheduleIsRight, ScheduleTypeOK
      <4> HIDE DEF me, new
      <4> QED BY <4>1, <2>2, <3>2, <3>4, <3>5, <3>8, <1>b DEF ScheduleTypeOK, Served
    <3>10. \A u \in Threads : /\ SaysTruly(thread[u].got)'
                              /\ thread'[u].pc = "upload" => thread'[u].ver # 0
      <4> SUFFICES ASSUME NEW u \in Threads
                   PROVE  /\ SaysTruly(thread[u].got)'
                          /\ thread'[u].pc = "upload" => thread'[u].ver # 0
        OBVIOUS
      <4>1. thread'[u].got = thread[u].got
        BY <3>8, <2>1
      <4>2. SaysTruly(thread[u].got) /\ (thread[u].pc = "upload" => thread[u].ver # 0)
        BY DEF ScheduleInv
      <4>3. PICK g : g = thread[u].got
        OBVIOUS
      <4>4. SaysTruly(g)'
        BY <4>2, <4>3, <3>6
      <4> QED BY <4>1, <4>2, <4>3, <4>4, <3>8, <2>1 DEF SaysTruly, Says
    <3>11. SaysTruly(cache)'
      BY <1>b, <2>2, <3>2 DEF SaysTruly, Says
    <3>12. MarkedIsDelivered'
      BY <3>7, <3>11 DEF MarkedIsDelivered
    <3>13. ToggleStands'
      BY <2>2, <3>2, <3>4, <1>b DEF ToggleStands
    <3>14. ScheduleIsRight'
      BY <3>9, <3>12, <3>13 DEF ScheduleIsRight
    <3> QED BY <3>10, <3>14 DEF ScheduleInv
  <2> QED BY <2>3, <2>4
<1> QED BY <1>1, <1>2, <1>3, <1>4, <1>5, <1>6, <1>7, <1>8, <1>9, <1>10, <1>12,
           <1>13, <1>14, <1>15, <1>16, <1>17, <1>18, <1>19, <1>20

(* ScheduleInv holds of every behaviour.                                   *)
THEOREM ScheduleInvariant == ScheduleSpec => []ScheduleInv
<1>1. ScheduleInv /\ [ScheduleNext]_scheduleVars => ScheduleInv'
  <2>1. ScheduleInv /\ ScheduleNext => ScheduleInv'
    BY ScheduleStepKeeps DEF ScheduleNext
  <2>2. ScheduleInv /\ UNCHANGED scheduleVars => ScheduleInv'
    BY DEF ScheduleInv, ScheduleIsRight, ScheduleTypeOK, ToggleStands,
           MarkedIsDelivered, SaysTruly, Says, scheduleVars
  <2> QED BY <2>1, <2>2
<1> QED BY <1>1, ScheduleStarts, PTL DEF ScheduleSpec

(* Whatever the requests load, save and post at the same time, the choice  *)
(* of work centers stands and what counts as delivered was delivered       *)
(* (staffing.py:1025, :1164).                                              *)
THEOREM ScheduleIsSafe == ScheduleSpec => []ScheduleIsRight
<1>1. ScheduleInv => ScheduleIsRight
  BY DEF ScheduleInv
<1> QED BY <1>1, ScheduleInvariant, PTL

(* An operation under the lock of the row keeps what is posted as the      *)
(* snapshot of the draft it makes (staffing.py:760).                       *)
THEOREM PostedIsKept == ScheduleSpec => LockedKeepsPosted
<1> DEFINE Kept == ~row'.pub /\ (row.snap = NoSnap => row'.snap = SnapshotOf(row))
           Step(t) ==
               (row.pub /\ \/ At(t, {"toggle"}, "locked") /\ thread'[t] = Idle
                           \/ At(t, {"hours"}, "begin") /\ thread'[t].pc = "committed")
                 => Kept
<1>1. ASSUME ScheduleInv, [ScheduleNext]_scheduleVars, NEW t \in Threads, row.pub,
             \/ At(t, {"toggle"}, "locked") /\ thread'[t] = Idle
             \/ At(t, {"hours"}, "begin") /\ thread'[t].pc = "committed"
      PROVE  Kept
  <2>1. thread \in [Threads -> Served] /\ row \in Schedules
    BY <1>1 DEF ScheduleInv, ScheduleIsRight, ScheduleTypeOK, Served
  <2>2. thread'[t].pc # thread[t].pc
    BY <1>1 DEF At, Idle
  <2>3. PICK u \in Threads :
           \/ \E op \in AllOps : Start(u, op)
           \/ LoadHit(u) \/ ReadRow(u) \/ ReadAssignments(u) \/ StoreCache(u)
           \/ Shown(u) \/ DropCache(u) \/ Unpublish(u)
           \/ \E b \in BOOLEAN : ApiPublished(u, b)
           \/ \E a \in Docs : \/ Save(u, a) \/ PublishSchedule(u, a)
                              \/ RemovePerson(u, a) \/ Seed(u, a)
                              \/ \E on \in BOOLEAN : Toggle(u, on, a)
           \/ LockRow(u) \/ Metadata(u) \/ Delete(u) \/ Invalidate(u)
           \/ CheckVersion(u) \/ Upload(u) \/ RecordDelivery(u)
    BY <1>1, <2>2 DEF ScheduleNext, scheduleVars
  <2>4. u = t
    <3>1. PICK new : thread' = [thread EXCEPT ![u] = new]
      <4>1. \/ \E pc : thread' = [thread EXCEPT ![u].pc = pc]
            \/ thread' = [thread EXCEPT ![u] = Idle]
            \/ \E op, pc : thread' = [thread EXCEPT ![u].op = op, ![u].pc = pc]
            \/ \E g, pc : thread' = [thread EXCEPT ![u].got = g, ![u].pc = pc]
            \/ \E g, pc : thread' = [thread EXCEPT ![u].got.asg = g, ![u].pc = pc]
            \/ \E v, pc : thread' = [thread EXCEPT ![u].ver = v, ![u].pc = pc]
            \/ \E d, pc : thread' = [thread EXCEPT ![u].doc = d, ![u].pc = pc]
        BY <2>3 DEF Start, LoadHit, ReadRow, ReadAssignments, StoreCache, Shown,
             DropCache, Unpublish, ApiPublished, Save, PublishSchedule, RemovePerson,
             Seed, Toggle, LockRow, Metadata, Delete, Invalidate, CheckVersion,
             Upload, RecordDelivery, Goes, Ends, Writes
      <4> QED BY <4>1, <2>1, Zenon
    <3> QED BY <3>1, <2>1, <2>2
  <2>5. \/ /\ thread[t].op = "toggle" /\ thread[t].pc = "locked" /\ thread'[t].pc = "idle"
        \/ /\ thread[t].op = "hours" /\ thread[t].pc = "begin"
           /\ thread'[t].pc = "committed"
    BY <1>1 DEF At, Idle
  <2>6. \/ \E a \in Docs : \E on \in BOOLEAN : Toggle(t, on, a)
        \/ Metadata(t)
    <3>1. thread[t] # Idle
      BY <2>5 DEF Idle
    <3>2. ~ \E op \in AllOps : Start(t, op)
      BY <3>1 DEF Start
    <3>3. ~LoadHit(t) /\ ~ReadRow(t) /\ ~ReadAssignments(t) /\ ~StoreCache(t) /\ ~Shown(t)
      BY <2>5 DEF LoadHit, ReadRow, ReadAssignments, StoreCache, Shown, At
    <3>4. ~DropCache(t) /\ ~Unpublish(t) /\ ~ \E b \in BOOLEAN : ApiPublished(t, b)
      BY <2>5 DEF DropCache, Unpublish, ApiPublished, At
    <3>5. ~ \E a \in Docs : Save(t, a) \/ PublishSchedule(t, a) \/ RemovePerson(t, a)
                           \/ Seed(t, a)
      BY <2>5 DEF Save, PublishSchedule, RemovePerson, Seed, At
    <3>6. ~LockRow(t) /\ ~Delete(t) /\ ~Invalidate(t)
      BY <2>5 DEF LockRow, Delete, Invalidate, At
    <3>7. ~CheckVersion(t) /\ ~Upload(t) /\ ~RecordDelivery(t)
      BY <2>5 DEF CheckVersion, Upload, RecordDelivery, At
    <3> QED BY <2>3, <2>4, <3>2, <3>3, <3>4, <3>5, <3>6, <3>7
  <2>7. PICK new : row' = new /\ new.pub = FALSE /\ new.snap = DraftFromPosted(row).snap
    <3> DEFINE d == DraftFromPosted(row)
    <3>1. SaysTruly(row)
      BY <1>1 DEF ScheduleInv, ScheduleIsRight, MarkedIsDelivered
    <3>2. d \in Schedules
      BY <2>1, <3>1, DraftIsTyped
    <3>3. d.pub = FALSE
      BY <2>1, <1>1 DEF DraftFromPosted, Schedules
    <3> HIDE DEF d
    <3>4. CASE Metadata(t)
      <4>1. row' = [d EXCEPT !.has = TRUE]
        BY <3>4 DEF Metadata, d
      <4>2. row'.pub = FALSE /\ row'.snap = d.snap
        BY <4>1, <3>2, <3>3 DEF Schedules
      <4> QED BY <4>2 DEF d
    <3>5. ASSUME NEW a \in Docs, NEW on \in BOOLEAN, Toggle(t, on, a)
          PROVE  row'.pub = FALSE /\ row'.snap = d.snap
      <4>1. row' = [d EXCEPT !.has = TRUE, !.auto = on, !.asg = a]
        BY <3>5 DEF Toggle, d
      <4> QED BY <4>1, <3>2, <3>3 DEF Schedules
    <3> QED BY <2>6, <3>4, <3>5 DEF d
  <2>8. row.snap = NoSnap => DraftFromPosted(row).snap = SnapshotOf(row)
    BY <2>1, <1>1 DEF DraftFromPosted, Schedules
  <2> QED BY <2>7, <2>8
<1>2. ScheduleInv /\ [ScheduleNext]_scheduleVars
         => [\A t \in Threads : Step(t)]_scheduleVars
  BY <1>1
<1> QED BY <1>2, ScheduleInvariant, PTL DEF ScheduleSpec, LockedKeepsPosted

(***************************************************************************)
(* The matching of the volunteers                                          *)
(***************************************************************************)
(* Every opening has one number, and so do the calls.                      *)
LEMMA CallsTyped ==
    ASSUME MatchTypeOK, Running
    PROVE  /\ Len(calls) \in Nat \ {0} /\ DOMAIN calls = 1..Len(calls)
           /\ \A k \in DOMAIN calls : calls[k] \in Calls
           /\ Len(calls) \in DOMAIN calls /\ 1 \in DOMAIN calls
           /\ This \in Calls /\ This = calls[Len(calls)]
           /\ Len(slots) \in Nat /\ DOMAIN slots = Openings
<1>1. calls \in Seq(Calls) /\ calls # << >> /\ slots \in Seq(Wcs)
  BY DEF MatchTypeOK, Running
<1>2. Len(calls) \in Nat /\ Len(calls) # 0 /\ DOMAIN calls = 1..Len(calls)
      /\ \A k \in 1..Len(calls) : calls[k] \in Calls
  BY <1>1
<1>3. Len(slots) \in Nat /\ DOMAIN slots = 1..Len(slots)
  BY <1>1
<1> QED BY <1>2, <1>3 DEF This, Openings

(* Somebody who fills an opening fills no other.                           *)
LEMMA FillsOne ==
    ASSUME MatchTypeOK, IsPlacement, NEW i \in Openings, NEW j \in Openings,
           filled[i] = filled[j], filled[i] # 0
    PROVE  i = j
<1>1. filled[i] \in 1..answer.n
  BY DEF MatchTypeOK, IsPlacement
<1>2. PICK o \in Openings : {x \in Openings : filled[x] = filled[i]} = {o}
  BY <1>1 DEF IsPlacement
<1> QED BY <1>2

(* Openings that were filled are filled by different people, none of them  *)
(* the one who is placed now: with that one there are too many for them.   *)
LEMMA TooMany ==
    ASSUME MatchTypeOK, IsPlacement, NEW p \in Numbers, answer.n < p,
           NEW S \in SUBSET Openings, \A i \in S : filled[i] # 0,
           \A i \in Openings : MayFill(p, i) => i \in S,
           \A i \in S : \A j \in Openings : MayFill(filled[i], j) => j \in S
    PROVE  ~Placeable
<1> SUFFICES ASSUME NEW g \in [Numbers -> Openings],
                    \A q \in Numbers : MayFill(q, g[q]),
                    \A q, r \in Numbers : q # r => g[q] # g[r]
             PROVE  FALSE
  BY DEF Placeable
<1>0. Len(slots) \in Nat /\ Openings \subseteq Nat \ {0}
  BY DEF MatchTypeOK, Openings
<1>1. IsFiniteSet(S) /\ Cardinality(S) \in Nat
  <2>1. IsFiniteSet(Openings)
    BY <1>0, FS_Interval DEF Openings
  <2> QED BY <2>1, FS_Subset, FS_CardinalityType
<1> DEFINE W == S \cup {0}
           Who(x) == IF x = 0 THEN p ELSE filled[x]
           h == [x \in W |-> g[Who(x)]]
<1>2. IsFiniteSet(W) /\ Cardinality(W) = Cardinality(S) + 1
  BY <1>0, <1>1, FS_AddElement
<1>3. \A x \in W : Who(x) \in Numbers
  BY DEF MatchTypeOK, Numbers
<1>4. \A x, y \in W : Who(x) = Who(y) => x = y
  <2>1. \A x \in S : Who(x) = filled[x] /\ filled[x] # 0 /\ filled[x] <= answer.n
    BY <1>0 DEF IsPlacement
  <2>2. \A x \in S : Who(x) # p
    BY <2>1 DEF MatchTypeOK, Numbers
  <2>3. \A x, y \in S : filled[x] = filled[y] => x = y
    BY FillsOne
  <2> QED BY <2>1, <2>2, <2>3
<1>5. \A x \in W : g[Who(x)] \in S
  <2>1. \A x \in W : g[Who(x)] \in Openings /\ MayFill(Who(x), g[Who(x)])
    BY <1>3
  <2> QED BY <1>0, <2>1
<1>6. h \in [W -> S]
  BY <1>5
<1>7. \A x \in W : h[x] = g[Who(x)]
  OBVIOUS
<1>8. Cardinality(S) < Cardinality(W)
  BY <1>1, <1>2
<1> HIDE DEF W, h
<1>9. \E x, y \in W : x # y /\ h[x] = h[y]
  BY <1>1, <1>2, <1>6, <1>8, FS_PigeonHole
<1> QED BY <1>3, <1>4, <1>7, <1>9

(* More volunteers than openings are too many.                             *)
LEMMA TooManyAtOnce ==
    ASSUME Len(slots) \in Nat, Volunteers > Len(slots)
    PROVE  ~Placeable
<1> SUFFICES ASSUME NEW g \in [Numbers -> Openings],
                    \A q, r \in Numbers : q # r => g[q] # g[r]
             PROVE  FALSE
  BY DEF Placeable
<1>1. \A n \in Nat : IsFiniteSet(1..n) /\ Cardinality(1..n) = n
  BY FS_Interval
<1>2. /\ IsFiniteSet(Numbers) /\ IsFiniteSet(Openings)
      /\ Cardinality(Openings) < Cardinality(Numbers)
  BY <1>1, MatchAssumption DEF Numbers, Openings
<1>3. \E x, y \in Numbers : x # y /\ g[x] = g[y]
  BY <1>2, FS_PigeonHole
<1> QED BY <1>3

(* Nobody is placed at the beginning.                                      *)
LEMMA MatchStarts == MatchInit => MatchInv
<1> SUFFICES ASSUME MatchInit
             PROVE  MatchInv
  OBVIOUS
<1>1. slots \in Seq(Wcs)
  BY DEF MatchInit, SlotLists
<1>2. Len(slots) \in Nat
  BY <1>1
<1>3. MatchTypeOK
  BY <1>1, MatchAssumption DEF MatchInit, MatchTypeOK
<1>4. IsPlacement
  BY DEF MatchInit, IsPlacement
<1>5. FindsIt
  BY <1>2, TooManyAtOnce DEF MatchInit, FindsIt
<1>6. ~Running
  BY DEF MatchInit, Running
<1> QED BY <1>3, <1>4, <1>5, <1>6 DEF MatchInv, MatchingIsRight, ChainInv, SearchInv

(* The next volunteer is to be placed: nothing was seen.                   *)
LEMMA AssignNextKeeps ==
    ASSUME MatchInv, AssignNext
    PROVE  MatchInv'
<1> USE DEF AssignNext
<1>1. MatchTypeOK /\ IsPlacement /\ FindsIt
  BY DEF MatchInv, MatchingIsRight
<1> DEFINE c == [p |-> answer.n + 1, i |-> 1]
<1>2. Len(slots) \in Nat
  BY <1>1 DEF MatchTypeOK
<1>3. c \in Calls /\ calls' = <<c>> /\ seen' = {} /\ c.p = answer.n + 1 /\ c.i = 1
  BY <1>1, <1>2, MatchAssumption DEF MatchTypeOK, Calls, Numbers
<1> HIDE DEF c
<1>4. Len(calls') = 1 /\ calls'[1] = c /\ DOMAIN calls' = {1}
  BY <1>3
<1>5. MatchTypeOK'
  BY <1>1, <1>3 DEF MatchTypeOK, Calls, Openings, Numbers, Wcs
<1>6. IsPlacement' /\ FindsIt'
  BY <1>1 DEF IsPlacement, FindsIt, Openings, MayFill, Placeable
<1>7. ChainInv'
  BY <1>3, <1>4 DEF ChainInv, Inner
<1>8. SearchInv'
  <2>1. \A i \in Openings' : ~(i < 1)
    BY <1>2 DEF Openings
  <2> QED BY <1>3, <1>4, <2>1 DEF SearchInv
<1> QED BY <1>5, <1>6, <1>7, <1>8 DEF MatchInv, MatchingIsRight

(* All are placed.                                                         *)
LEMMA ReportKeeps ==
    ASSUME MatchInv, Report
    PROVE  MatchInv'
<1> USE DEF Report
<1>1. MatchTypeOK /\ IsPlacement /\ FindsIt /\ ChainInv
  BY DEF MatchInv, MatchingIsRight
<1>2. ~Running
  BY <1>1, MatchAssumption DEF ChainInv, MatchTypeOK
<1>3. answer'.n = answer.n /\ answer'.result = "coverage"
  BY <1>1 DEF MatchTypeOK
<1>4. MatchTypeOK'
  BY <1>1 DEF MatchTypeOK, Calls, Openings, Numbers, Wcs
<1>5. IsPlacement' /\ FindsIt'
  BY <1>1, <1>3 DEF IsPlacement, FindsIt, Openings, MayFill
<1>6. ~Running'
  BY <1>2 DEF Running
<1> QED BY <1>4, <1>5, <1>6 DEF MatchInv, MatchingIsRight, ChainInv, SearchInv

(* What holds of the placement holds as long as only the calls change.     *)
LEMMA SamePlacement ==
    ASSUME MatchingIsRight, UNCHANGED <<slots, fits, answer, filled>>,
           (calls \in Seq(Calls))', (seen \subseteq Openings)'
    PROVE  MatchingIsRight'
<1>1. MatchTypeOK'
  BY DEF MatchingIsRight, MatchTypeOK, Openings, Numbers, Wcs
<1>2. IsPlacement' /\ FindsIt'
  BY DEF MatchingIsRight, IsPlacement, FindsIt, Openings, MayFill, Placeable
<1> QED BY <1>1, <1>2 DEF MatchingIsRight

(* A round that finds the opening closed to the volunteer, or seen.        *)
LEMMA PassKeeps ==
    ASSUME MatchInv, Pass
    PROVE  MatchInv'
<1> DEFINE L == Len(calls)
<1>1. /\ MatchTypeOK /\ MatchingIsRight /\ ChainInv /\ SearchInv
      /\ Running /\ This.i <= Len(slots) /\ ~MayTry
  BY DEF MatchInv, MatchingIsRight, Pass, AtOpening
<1>2. /\ calls' = [calls EXCEPT ![L].i = @ + 1]
      /\ UNCHANGED <<slots, fits, answer, filled, seen>>
  BY DEF Pass
<1>3. /\ L \in Nat \ {0} /\ DOMAIN calls = 1..L /\ L \in DOMAIN calls /\ This = calls[L]
      /\ \A k \in DOMAIN calls : calls[k] \in Calls
      /\ Len(slots) \in Nat /\ calls \in Seq(Calls)
  BY <1>1, CallsTyped DEF MatchTypeOK
<1> HIDE DEF L
<1>4. calls[L].i \in 1..Len(slots) /\ calls[L].i \in Openings
  BY <1>1, <1>3 DEF Calls, Openings
<1>5. /\ DOMAIN calls' = 1..L /\ Len(calls') = L
      /\ \A k \in 1..L : calls'[k].p = calls[k].p
      /\ \A k \in 1..L : k # L => calls'[k] = calls[k]
      /\ calls'[L].i = calls[L].i + 1
  BY <1>2, <1>3 DEF Calls
<1>6. (calls \in Seq(Calls))' /\ Calls' = Calls /\ Openings' = Openings
  <2>1. Calls' = Calls /\ Openings' = Openings
    BY <1>2 DEF Calls, Numbers, Openings
  <2>2. [calls[L] EXCEPT !.i = @ + 1] \in Calls
    BY <1>3, <1>4 DEF Calls
  <2> QED BY <1>2, <1>3, <2>1, <2>2
<1>7. MatchingIsRight'
  BY <1>1, <1>2, <1>6, SamePlacement DEF MatchTypeOK
<1>8. Running'
  BY <1>3, <1>5 DEF Running
<1>9. ChainInv'
  <2>1. Inner = 1..(L - 1) /\ Inner' = 1..(L - 1)
    BY <1>3, <1>5 DEF Inner, L
  <2>2. \A k \in 1..(L - 1) : k \in 1..L /\ k + 1 \in 1..L /\ k # L
    BY <1>3
  <2>3. 1 \in 1..L
    BY <1>3
  <2> QED BY <1>1, <1>2, <1>5, <2>1, <2>2, <2>3 DEF ChainInv, MayFill
<1>10. SearchInv'
  <2>1. ASSUME NEW k \in 1..L, NEW i \in Openings, i < calls'[k].i, MayFill(calls[k].p, i)
        PROVE  i \in seen
    <3>1. CASE i < calls[k].i
      BY <1>1, <1>3, <2>1, <3>1 DEF SearchInv
    <3>2. CASE k = L /\ i = calls[L].i
      BY <1>1, <1>3, <2>1, <3>2 DEF MayTry
    <3>3. i \in Nat /\ calls[L].i \in Nat
      BY <1>4 DEF Openings
    <3> QED BY <1>5, <2>1, <3>1, <3>2, <3>3
  <2>2. \A p : Tried(p)' <=> Tried(p)
    BY <1>2, <1>6 DEF Tried, MayFill
  <2>3. \A p, i : MayFill(p, i)' <=> MayFill(p, i)
    BY <1>2 DEF MayFill
  <2> QED BY <1>1, <1>2, <1>3, <1>5, <1>6, <2>1, <2>2, <2>3 DEF SearchInv, Tried, MayFill
<1> QED BY <1>7, <1>9, <1>10 DEF MatchInv

(* Who fills the opening is to be placed elsewhere: the call waits.        *)
LEMMA AskPriorKeeps ==
    ASSUME MatchInv, AskPrior
    PROVE  MatchInv'
<1> DEFINE L == Len(calls)
           c == [p |-> filled[This.i], i |-> 1]
<1>1. /\ MatchTypeOK /\ MatchingIsRight /\ ChainInv /\ SearchInv
      /\ Running /\ This.i <= Len(slots) /\ MayTry /\ filled[This.i] # 0
  BY DEF MatchInv, MatchingIsRight, AskPrior, AtOpening
<1>2. /\ calls' = Append(calls, c) /\ seen' = seen \cup {This.i}
      /\ UNCHANGED <<slots, fits, answer, filled>>
  BY DEF AskPrior
<1>3. /\ L \in Nat \ {0} /\ DOMAIN calls = 1..L /\ L \in DOMAIN calls /\ This = calls[L]
      /\ \A k \in DOMAIN calls : calls[k] \in Calls
      /\ Len(slots) \in Nat /\ calls \in Seq(Calls)
  BY <1>1, CallsTyped DEF MatchTypeOK
<1>4. This.i \in Openings
  BY <1>1, <1>3 DEF Calls, Openings
<1>5. c \in Calls /\ c.p = filled[This.i] /\ c.i = 1
  BY <1>1, <1>3, <1>4 DEF MatchTypeOK, Calls, Numbers
<1> HIDE DEF L, c
<1>6. /\ DOMAIN calls' = 1..(L + 1) /\ Len(calls') = L + 1
      /\ \A k \in 1..L : calls'[k] = calls[k]
      /\ calls'[L + 1] = c /\ calls' \in Seq(Calls)
  BY <1>2, <1>3, <1>5 DEF L
<1>7. Calls' = Calls /\ Openings' = Openings
  BY <1>2 DEF Calls, Numbers, Openings
<1>8. seen \subseteq Openings /\ seen' \subseteq Openings
  BY <1>1, <1>2, <1>4 DEF MatchTypeOK
<1>9. MatchingIsRight'
  BY <1>1, <1>2, <1>6, <1>7, <1>8, SamePlacement
<1>10. ChainInv'
  <2>1. Inner = 1..(L - 1) /\ Inner' = 1..L
    BY <1>3, <1>6 DEF Inner, L
  <2>2. answer.result = "running" /\ answer.n < Volunteers /\ calls[1].p = answer.n + 1
    BY <1>1 DEF ChainInv
  <2>3. calls'[1] = calls[1]
    BY <1>3, <1>6
  <2>4. ASSUME NEW k \in 1..L
        PROVE  /\ calls[k].i \in seen' /\ MayFill(calls[k].p, calls[k].i)
               /\ calls'[k + 1].p = filled[calls[k].i]
    <3>1. CASE k = L
      BY <1>1, <1>2, <1>3, <1>5, <1>6, <3>1 DEF MayTry
    <3>2. CASE k # L
      <4>1. k \in Inner /\ calls'[k + 1] = calls[k + 1]
        BY <1>3, <1>6, <2>1, <3>2
      <4> QED BY <1>1, <1>2, <4>1 DEF ChainInv
    <3> QED BY <3>1, <3>2
  <2>5. ASSUME NEW k \in 1..L, NEW l \in 1..L, calls[k].i = calls[l].i
        PROVE  k = l
    <3>1. \A m \in 1..L : m # L => m \in Inner /\ calls[m].i \in seen
      BY <1>1, <1>3, <2>1 DEF ChainInv
    <3>2. calls[L].i \notin seen
      BY <1>1, <1>3 DEF MayTry
    <3> QED BY <1>1, <2>5, <3>1, <3>2 DEF ChainInv
  <2> QED BY <1>2, <1>6, <2>1, <2>2, <2>3, <2>4, <2>5 DEF ChainInv, MayFill
<1>11. SearchInv'
  <2>1. ASSUME NEW k \in 1..(L + 1), NEW i \in Openings, i < calls'[k].i,
               MayFill(calls'[k].p, i)
        PROVE  i \in seen'
    <3>1. CASE k = L + 1
      BY <1>3, <1>5, <1>6, <2>1, <3>1 DEF Openings
    <3>2. CASE k # L + 1
      <4>1. k \in DOMAIN calls /\ calls'[k] = calls[k]
        BY <1>3, <1>6, <3>2
      <4> QED BY <1>1, <1>2, <2>1, <4>1 DEF SearchInv
    <3> QED BY <3>1, <3>2
  <2>2. \A p : Tried(p) => Tried(p)'
    BY <1>2, <1>7 DEF Tried, MayFill
  <2>3. ASSUME NEW i \in seen'
        PROVE  /\ filled[i] # 0
               /\ Tried(filled[i])' \/ \E k \in 1..(L + 1) : calls'[k].p = filled[i]
    <3>1. CASE i = This.i
      BY <1>1, <1>3, <1>5, <1>6, <3>1
    <3>2. CASE i \in seen
      <4>1. /\ filled[i] # 0
            /\ Tried(filled[i]) \/ \E k \in DOMAIN calls : calls[k].p = filled[i]
        BY <1>1, <3>2 DEF SearchInv
      <4>2. CASE Tried(filled[i])
        <5>1. PICK q : q = filled[i]
          OBVIOUS
        <5> QED BY <1>2, <2>2, <4>1, <4>2, <5>1 DEF Tried, MayFill, Openings
      <4>3. CASE \E k \in DOMAIN calls : calls[k].p = filled[i]
        BY <1>3, <1>6, <4>1, <4>3
      <4> QED BY <4>1, <4>2, <4>3
    <3> QED BY <1>2, <2>3, <3>1, <3>2
  <2> QED BY <1>2, <1>6, <1>7, <2>1, <2>3 DEF SearchInv, MayFill, Tried
<1> QED BY <1>9, <1>10, <1>11 DEF MatchInv

(* No opening was found for the volunteer of the running call: the first   *)
(* call has no caller, and nobody can place them all; another returns to   *)
(* its caller, which goes on with its next opening.                        *)
LEMMA NoneLeftKeeps ==
    ASSUME MatchInv, NoneLeft
    PROVE  MatchInv'
<1> DEFINE L == Len(calls)
<1>1. /\ MatchTypeOK /\ MatchingIsRight /\ ChainInv /\ SearchInv
      /\ IsPlacement /\ FindsIt /\ Running /\ This.i > Len(slots)
      /\ UNCHANGED <<slots, fits, filled, seen>>
  BY DEF MatchInv, MatchingIsRight, NoneLeft
<1>2. /\ L \in Nat \ {0} /\ DOMAIN calls = 1..L /\ L \in DOMAIN calls /\ This = calls[L]
      /\ \A k \in DOMAIN calls : calls[k] \in Calls
      /\ Len(slots) \in Nat /\ calls \in Seq(Calls) /\ seen \subseteq Openings
  BY <1>1, CallsTyped DEF MatchTypeOK
<1>3. PICK p \in Numbers : p = calls[L].p
  BY <1>2 DEF Calls
<1>4. Tried(p)
  <2>1. \A i \in Openings : i < calls[L].i
    BY <1>1, <1>2 DEF Openings, Calls
  <2> QED BY <1>1, <1>2, <1>3, <2>1 DEF SearchInv, Tried
<1>5. /\ Calls' = Calls /\ Openings' = Openings
      /\ \A q, i : MayFill(q, i)' <=> MayFill(q, i)
  BY <1>1 DEF Calls, Numbers, Openings, MayFill
<1>6. CASE L = 1
  <2>1. answer' = [answer EXCEPT !.result = "none"] /\ calls' = << >>
    BY <1>6 DEF NoneLeft
  <2>2. p = answer.n + 1 /\ answer.n < p /\ answer.result = "running"
    BY <1>1, <1>3, <1>6 DEF ChainInv, MatchTypeOK
  <2>3. \A i \in seen : filled[i] # 0 /\ Tried(filled[i])
    BY <1>1, <1>2, <1>3, <1>4, <1>6 DEF SearchInv
  <2>4. ~Placeable
    <3>1. \A i \in Openings : MayFill(p, i) => i \in seen
      BY <1>4 DEF Tried
    <3>2. \A i \in seen : \A j \in Openings : MayFill(filled[i], j) => j \in seen
      BY <2>3 DEF Tried
    <3> QED BY <1>1, <1>2, <2>2, <2>3, <3>1, <3>2, TooMany
  <2>5. answer'.n = answer.n /\ answer'.result = "none"
        /\ answer' \in [n : 0..Volunteers, result : {"running", "none", "coverage"}]
    BY <1>1, <2>1 DEF MatchTypeOK
  <2>6. MatchTypeOK'
    BY <1>1, <1>5, <2>1, <2>5 DEF MatchTypeOK, Wcs, Numbers
  <2>7. IsPlacement'
    BY <1>1, <1>5, <2>5 DEF IsPlacement, MayFill
  <2>8. FindsIt'
    BY <1>1, <1>5, <2>4, <2>5 DEF FindsIt, Placeable, MayFill, Numbers
  <2>9. ~Running'
    BY <2>1 DEF Running
  <2> QED BY <2>6, <2>7, <2>8, <2>9 DEF MatchInv, MatchingIsRight, ChainInv, SearchInv
<1>7. CASE L # 1
  <2> DEFINE c == [calls[L - 1] EXCEPT !.i = @ + 1]
  <2>1. /\ calls' = [k \in 1..(L - 1) |-> IF k = L - 1 THEN [calls[k] EXCEPT !.i = @ + 1]
                                                       ELSE calls[k]]
        /\ UNCHANGED answer
    BY <1>7 DEF NoneLeft
  <2>2. /\ L - 1 \in Nat \ {0} /\ L - 1 \in DOMAIN calls
        /\ Inner = 1..(L - 1) /\ L - 1 \in Inner
    BY <1>2, <1>7 DEF Inner
  <2>3. calls[L - 1] \in Calls /\ calls[L - 1].i \in seen /\ calls[L - 1].i \in Openings
    BY <1>1, <1>2, <2>2 DEF ChainInv
  <2>4. c \in Calls /\ c.p = calls[L - 1].p /\ c.i = calls[L - 1].i + 1
    <3>1. PICK r \in Calls : r = calls[L - 1]
      BY <2>3
    <3>2. r.i + 1 \in 1..(Len(slots) + 1)
      BY <1>2, <2>3, <3>1 DEF Openings
    <3>3. [r EXCEPT !.i = @ + 1] \in Calls
      BY <3>1, <3>2 DEF Calls
    <3> QED BY <3>1, <3>3 DEF Calls
  <2> HIDE DEF c, L
  <2>5. /\ DOMAIN calls' = 1..(L - 1)
        /\ \A k \in 1..(L - 1) : k # L - 1 => calls'[k] = calls[k]
        /\ calls'[L - 1] = c
    BY <2>1, <2>2 DEF c
  <2>6. \A k \in 1..(L - 1) : k \in DOMAIN calls /\ calls'[k].p = calls[k].p
    BY <1>2, <2>4, <2>5
  <2>7. calls' \in Seq(Calls) /\ Len(calls') = L - 1
    <3>1. \A k \in 1..(L - 1) : calls'[k] \in Calls
      BY <1>2, <2>4, <2>5, <2>6
    <3>2. calls' \in [1..(L - 1) -> Calls]
      BY <2>1, <2>5, <3>1
    <3> QED BY <2>2, <3>2
  <2>8. MatchingIsRight'
    BY <1>1, <1>2, <1>5, <2>1, <2>7, SamePlacement
  <2>9. ChainInv'
    <3>1. Inner' = 1..(L - 2)
      BY <1>2, <2>2, <2>7 DEF Inner
    <3>2. \A k \in 1..(L - 2) : k \in Inner /\ k # L - 1 /\ k \in 1..(L - 1) /\ k + 1 \in 1..(L - 1)
      BY <1>2, <2>2
    <3>3. calls'[1].p = calls[1].p
      BY <2>2, <2>6
    <3> QED BY <1>1, <1>5, <2>1, <2>5, <2>6, <3>1, <3>2, <3>3 DEF ChainInv, Running
  <2>10. SearchInv'
    <3>1. ASSUME NEW k \in 1..(L - 1), NEW i \in Openings, i < calls'[k].i,
                 MayFill(calls[k].p, i)
          PROVE  i \in seen
      <4>1. CASE k # L - 1
        BY <1>1, <2>5, <2>6, <3>1, <4>1 DEF SearchInv
      <4>2. CASE k = L - 1
        <5>1. i < calls[L - 1].i \/ i = calls[L - 1].i
          BY <2>3, <2>4, <2>5, <3>1, <4>2, <1>2 DEF Openings
        <5> QED BY <1>1, <2>2, <2>3, <3>1, <4>2, <5>1 DEF SearchInv
      <4> QED BY <4>1, <4>2
    <3>2. ASSUME NEW i \in seen
          PROVE  /\ filled[i] # 0
                 /\ Tried(filled[i]) \/ \E k \in 1..(L - 1) : calls'[k].p = filled[i]
      <4>1. /\ filled[i] # 0
            /\ Tried(filled[i]) \/ \E k \in DOMAIN calls : calls[k].p = filled[i]
        BY <1>1 DEF SearchInv
      <4>2. ASSUME NEW k \in DOMAIN calls, calls[k].p = filled[i]
            PROVE  Tried(filled[i]) \/ k \in 1..(L - 1)
        <5>1. CASE k = L
          BY <1>3, <1>4, <4>2, <5>1
        <5>2. CASE k # L
          BY <1>2, <5>2
        <5> QED BY <5>1, <5>2
      <4> QED BY <2>6, <4>1, <4>2
    <3>3. \A i \in seen : Tried(filled[i])' <=> Tried(filled[i])
      BY <1>1, <1>5 DEF Tried, MayFill
    <3> QED BY <1>1, <1>5, <2>5, <2>6, <3>1, <3>2, <3>3 DEF SearchInv
  <2> QED BY <2>8, <2>9, <2>10 DEF MatchInv
<1> QED BY <1>6, <1>7

(* The calls return, each giving its volunteer the opening it is at.  The  *)
(* one placed now has the first of these openings; everybody moved has     *)
(* left one of them, for the caller's volunteer, and has the next.         *)
LEMMA TakeFreeKeeps ==
    ASSUME MatchInv, TakeFree
    PROVE  MatchInv'
<1> DEFINE L == Len(calls)
           n == answer.n
<1>1. /\ MatchTypeOK /\ ChainInv /\ SearchInv /\ IsPlacement
      /\ Running /\ This.i <= Len(slots) /\ MayTry /\ filled[This.i] = 0
      /\ filled' = Taken /\ answer' = [answer EXCEPT !.n = @ + 1] /\ calls' = << >>
      /\ seen' = {} /\ UNCHANGED <<slots, fits>>
  BY DEF MatchInv, MatchingIsRight, TakeFree, AtOpening
<1>2. /\ L \in Nat \ {0} /\ DOMAIN calls = 1..L /\ L \in DOMAIN calls /\ This = calls[L]
      /\ \A k \in DOMAIN calls : calls[k] \in Calls
      /\ Len(slots) \in Nat
  BY <1>1, CallsTyped
<1>3. n \in Nat /\ n < Volunteers /\ calls[1].p = n + 1 /\ answer.result = "running"
  BY <1>1 DEF ChainInv, MatchTypeOK
<1>4. Inner = 1..(L - 1)
  BY DEF Inner
<1> HIDE DEF L, n
<1>5. \A k \in 1..L : k # L => k \in Inner
  BY <1>2, <1>4
<1>6. \A k \in 1..L : /\ calls[k].i \in Openings /\ calls[k].p \in Numbers
                      /\ MayFill(calls[k].p, calls[k].i)
  <2>1. \A k \in 1..L : calls[k].p \in Numbers
    BY <1>2 DEF Calls
  <2>2. calls[L].i \in Openings /\ MayFill(calls[L].p, calls[L].i)
    BY <1>1, <1>2 DEF Calls, Openings, MayTry
  <2>3. \A k \in Inner : calls[k].i \in Openings /\ MayFill(calls[k].p, calls[k].i)
    BY <1>1 DEF ChainInv, MatchTypeOK
  <2> QED BY <1>5, <2>1, <2>2, <2>3
<1>7. \A k, l \in 1..L : calls[k].i = calls[l].i => k = l
  <2>1. \A k \in 1..L : k # L => calls[k].i \in seen
    BY <1>1, <1>5 DEF ChainInv
  <2>2. calls[L].i \notin seen
    BY <1>1, <1>2 DEF MayTry
  <2> QED BY <1>1, <1>5, <2>1, <2>2 DEF ChainInv
<1>8. \A k \in 1..L : filled'[calls[k].i] = calls[k].p
  <2> TAKE k \in 1..L
  <2>1. PICK i \in Openings : i = calls[k].i
    BY <1>6
  <2>2. \E l \in DOMAIN calls : calls[l].i = i
    BY <1>2, <2>1
  <2>3. (CHOOSE l \in DOMAIN calls : calls[l].i = i) = k
    BY <1>2, <1>7, <2>1, <2>2
  <2> QED BY <1>1, <2>1, <2>2, <2>3 DEF Taken
<1>9. \A i \in Openings : (\A k \in 1..L : calls[k].i # i) => filled'[i] = filled[i]
  BY <1>1, <1>2 DEF Taken
\* Who is placed by each call but the first has left the opening of the one before.
<1>10. \A k \in 1..L : k # 1 => /\ k - 1 \in 1..L /\ k - 1 # L /\ k - 1 \in Inner
                                /\ calls[k].p = filled[calls[k - 1].i]
  <2> SUFFICES ASSUME NEW k \in 1..L, k # 1
               PROVE  /\ k - 1 \in 1..L /\ k - 1 # L /\ k - 1 \in Inner
                      /\ calls[k].p = filled[calls[k - 1].i]
    OBVIOUS
  <2>1. k - 1 \in 1..L /\ k - 1 # L /\ k - 1 \in Inner /\ (k - 1) + 1 = k
    BY <1>2, <1>4
  <2> QED BY <1>1, <2>1 DEF ChainInv
<1>11. \A k \in Inner : /\ k \in 1..L /\ k + 1 \in 1..L /\ k + 1 # 1
                        /\ calls[k + 1].p = filled[calls[k].i] /\ filled[calls[k].i] # 0
  <2>1. \A k \in Inner : k \in 1..L /\ k + 1 \in 1..L /\ k + 1 # 1
    BY <1>2, <1>4
  <2>2. \A k \in Inner : calls[k].i \in seen /\ calls[k + 1].p = filled[calls[k].i]
    BY <1>1 DEF ChainInv
  <2> QED BY <1>1, <2>1, <2>2 DEF SearchInv
<1>12. \A i \in Openings : filled[i] \in Nat /\ (filled[i] # 0 => filled[i] <= n)
  BY <1>1 DEF MatchTypeOK, IsPlacement, n
<1>13. \A k \in 1..L : calls[k].p # 0 /\ calls[k].p <= n + 1 /\ (calls[k].p = n + 1 => k = 1)
  <2> TAKE k \in 1..L
  <2>1. CASE k = 1
    BY <1>3, <2>1
  <2>2. CASE k # 1
    <3>1. k - 1 \in 1..L /\ k - 1 \in Inner /\ calls[k].p = filled[calls[k - 1].i]
      BY <1>10, <2>2
    <3>2. calls[k].p # 0 /\ calls[k - 1].i \in Openings
      BY <1>6, <1>11, <3>1
    <3>3. calls[k].p \in Nat /\ calls[k].p <= n
      BY <1>12, <3>1, <3>2
    <3> QED BY <1>3, <3>2, <3>3
  <2> QED BY <2>1, <2>2
<1>14. answer'.n = n + 1 /\ answer'.result = "running"
       /\ answer' \in [n : 0..Volunteers, result : {"running", "none", "coverage"}]
  BY <1>1, <1>3, MatchAssumption DEF MatchTypeOK, n
<1>15. /\ Openings' = Openings /\ Calls' = Calls
       /\ \A p, i : MayFill(p, i)' <=> MayFill(p, i)
  BY <1>1 DEF Openings, Calls, Numbers, MayFill
<1>16. \A i \in Openings : filled'[i] \in 0..Volunteers
  <2> TAKE i \in Openings
  <2>1. CASE \E k \in 1..L : calls[k].i = i
    BY <1>6, <1>8, <2>1, MatchAssumption DEF Numbers
  <2>2. CASE \A k \in 1..L : calls[k].i # i
    BY <1>1, <1>9, <2>2 DEF MatchTypeOK
  <2> QED BY <2>1, <2>2
<1>17. MatchTypeOK'
  <2>1. filled' \in [Openings -> 0..Volunteers]
    <3>1. filled' = [i \in Openings |-> filled'[i]]
      BY <1>1 DEF Taken
    <3> QED BY <1>16, <3>1
  <2> QED BY <1>1, <1>14, <1>15, <2>1 DEF MatchTypeOK, Wcs, Numbers
<1>18. ASSUME NEW i \in Openings, filled'[i] # 0
       PROVE  filled'[i] <= n + 1 /\ MayFill(filled'[i], i)
  <2>1. CASE \E k \in 1..L : calls[k].i = i
    BY <1>6, <1>8, <1>13, <2>1
  <2>2. CASE \A k \in 1..L : calls[k].i # i
    <3>1. filled'[i] = filled[i] /\ filled[i] <= n /\ filled[i] \in Nat
      BY <1>9, <1>12, <1>18, <2>2
    <3> QED BY <1>1, <1>3, <1>18, <3>1 DEF IsPlacement
  <2> QED BY <2>1, <2>2
<1>19. ASSUME NEW p \in 1..(n + 1)
       PROVE  \E i \in Openings : {j \in Openings : filled'[j] = p} = {i}
  <2>1. CASE p = n + 1
    <3>1. 1 \in 1..L /\ calls[1].i \in Openings /\ filled'[calls[1].i] = p
      BY <1>2, <1>3, <1>6, <1>8, <2>1
    <3>2. ASSUME NEW j \in Openings, filled'[j] = p
          PROVE  j = calls[1].i
      <4>1. CASE \E k \in 1..L : calls[k].i = j
        BY <1>8, <1>13, <2>1, <3>2, <4>1
      <4>2. CASE \A k \in 1..L : calls[k].i # j
        BY <1>3, <1>9, <1>12, <2>1, <3>2, <4>2
      <4> QED BY <4>1, <4>2
    <3> QED BY <3>1, <3>2
  <2>2. CASE p # n + 1
    <3>1. p \in 1..n /\ p # 0
      BY <1>3, <2>2
    <3>2. PICK o \in Openings : {j \in Openings : filled[j] = p} = {o}
      BY <1>1, <3>1 DEF IsPlacement, n
    \* An opening p has now: p was moved to it from o, or had it.
    <3>3. ASSUME NEW j \in Openings, filled'[j] = p
          PROVE  \/ \E k \in Inner : calls[k].i = o /\ calls[k + 1].i = j
                 \/ (\A k \in 1..L : calls[k].i # j) /\ j = o
      <4>1. ASSUME NEW k \in 1..L, calls[k].i = j
            PROVE  \E m \in Inner : calls[m].i = o /\ calls[m + 1].i = j
        <5>1. calls[k].p = p /\ k # 1
          BY <1>3, <1>8, <2>2, <3>3, <4>1
        <5>2. k - 1 \in Inner /\ k - 1 \in 1..L /\ p = filled[calls[k - 1].i]
          BY <1>10, <5>1
        <5>3. calls[k - 1].i = o
          BY <1>6, <3>2, <5>2
        <5>4. (k - 1) + 1 = k
          BY <1>2
        <5> QED BY <4>1, <5>2, <5>3, <5>4
      <4>2. CASE \A k \in 1..L : calls[k].i # j
        BY <1>9, <3>2, <3>3, <4>2
      <4> QED BY <4>1, <4>2
    <3>4. CASE \E k \in Inner : calls[k].i = o
      <4>1. PICK k \in Inner : calls[k].i = o
        BY <3>4
      <4>2. /\ k \in 1..L /\ k + 1 \in 1..L /\ calls[k + 1].i \in Openings
            /\ filled'[calls[k + 1].i] = p
        BY <1>6, <1>8, <1>11, <3>2, <4>1
      <4>3. \A j \in Openings : filled'[j] = p => j = calls[k + 1].i
        BY <1>7, <1>11, <3>3, <4>1, <4>2
      <4> QED BY <4>2, <4>3
    <3>5. CASE \A k \in Inner : calls[k].i # o
      <4>1. \A k \in 1..L : calls[k].i # o
        BY <1>1, <1>2, <1>5, <3>1, <3>2, <3>5
      <4>2. filled'[o] = p
        BY <1>9, <3>2, <4>1
      <4> QED BY <3>3, <3>5, <4>2
    <3> QED BY <3>4, <3>5
  <2> QED BY <2>1, <2>2
<1>20. IsPlacement'
  BY <1>14, <1>15, <1>18, <1>19 DEF IsPlacement
<1>21. FindsIt'
  BY <1>14 DEF FindsIt
<1>22. ~Running'
  BY <1>1 DEF Running
<1> QED BY <1>17, <1>20, <1>21, <1>22 DEF MatchInv, MatchingIsRight, ChainInv, SearchInv

(* A volunteer who is placed keeps exactly one opening they may fill,      *)
(* whoever is moved about for the next one, and there is no coverage only  *)
(* where nobody could find one: the invariant behind it.                   *)
THEOREM MatchInvariant == MatchSpec => []MatchInv
<1>1. MatchInit => MatchInv
  BY MatchStarts
<1>2. MatchInv /\ [MatchNext]_matchVars => MatchInv'
  <2> SUFFICES ASSUME MatchInv, [MatchNext]_matchVars
               PROVE  MatchInv'
    OBVIOUS
  <2>1. CASE AssignNext
    BY <2>1, AssignNextKeeps
  <2>2. CASE Report
    BY <2>2, ReportKeeps
  <2>3. CASE Pass
    BY <2>3, PassKeeps
  <2>4. CASE AskPrior
    BY <2>4, AskPriorKeeps
  <2>5. CASE TakeFree
    BY <2>5, TakeFreeKeeps
  <2>6. CASE NoneLeft
    BY <2>6, NoneLeftKeeps
  <2>7. CASE UNCHANGED matchVars
    BY <2>7 DEF matchVars, MatchInv, MatchingIsRight, MatchTypeOK, IsPlacement, FindsIt,
                ChainInv, SearchInv, Calls, Openings, Numbers, Wcs, Placeable, MayFill,
                Inner, Running, Tried
  <2> QED BY <2>1, <2>2, <2>3, <2>4, <2>5, <2>6, <2>7 DEF MatchNext
<1> QED BY <1>1, <1>2, PTL DEF MatchSpec

(* The matching is right, however many volunteers, centers and openings    *)
(* there are (saturday_recruiting.py:128-150).                             *)
THEOREM MatchingIsCorrect == MatchSpec => []MatchingIsRight
<1>1. MatchInv => MatchingIsRight
  BY DEF MatchInv
<1> QED BY <1>1, MatchInvariant, PTL
=============================================================================
