--------------------------- MODULE PaidTimeProofs ---------------------------
(***************************************************************************)
(* Theorems about what decides the paid time of a day in Odoo.             *)
(*                                                                         *)
(* PayrollGuard, for every set of processes, every duration and every      *)
(* bound: the values of the variables, that one pass runs, that what the   *)
(* guard changed in Odoo is on record, that an entry never has two         *)
(* corrections pending, and that a correction leaves nothing to correct.   *)
(*                                                                         *)
(* AbsencePto, for every set of workers, every number of leaves, days and  *)
(* requests, and every number of faults: the values of the variables, that *)
(* a request that waits has cost nothing, that an approved one is exactly  *)
(* one approved day, that an approved day is never taken back, and that an *)
(* Absence that was undone stays undone.                                   *)
(***************************************************************************)
EXTENDS PayrollGuard, AbsencePto, FiniteSetTheorems, WellFoundedInduction, TLAPS

(***************************************************************************)
(* The rules of a correction.                                              *)
(***************************************************************************)
(* Among saved attempts there is a first one (the ORDER BY of              *)
(* load_pending_attempts).                                                 *)
LEMMA FirstAttempt ==
    ASSUME NEW T \in SUBSET Attempts, T # {}
    PROVE  \E b \in T : \A c \in T : b.n <= c.n
<1> DEFINE N == {a.n : a \in T}
<1>1. N \in SUBSET Nat /\ N # {}
  BY BoundsAssumption DEF Attempts
<1> HIDE DEF N
<1>2. PICK x \in N : \A y \in N : ~(<<y, x>> \in OpToRel(<, Nat))
  BY <1>1, NatLessThanWellFounded, WFMin
<1>3. \A y \in N : ~(y < x) /\ y \in Nat /\ x \in Nat
  BY <1>1, <1>2 DEF OpToRel
<1>4. \A y \in N : x <= y
  BY <1>3
<1> QED BY <1>4 DEF N

(* A day with one entry is credited the work that this entry says, and the *)
(* correction aims at the attendance (payroll_work_entry_rules.py:152).    *)
LEMMA TargetIsRegular ==
    ASSUME RowsOk
    PROVE  /\ \A i \in Ids : ents[i] \in Entries /\ Regular(i) \in Durations
           /\ WorkRegular \in Int /\ att.reg \in Durations /\ Target = att.reg
<1>1. \A i \in Ids : ents[i] \in Entries /\ ents[i].dur \in Durations
  BY DEF RowsOk, Entries
<1>2. 0 \in Durations /\ Durations \subseteq Int
  BY BoundsAssumption DEF Durations
<1>3. \A i \in Ids : Regular(i) \in Durations
  BY <1>1, <1>2 DEF Regular
<1>4. WorkRegular \in Int
  <2>1. Regular(1) \in Int /\ Regular(2) \in Int
    BY <1>2, <1>3 DEF Ids
  <2> QED BY <2>1 DEF WorkRegular
<1>5. att.reg \in Durations
  BY DEF RowsOk, Days
<1>6. att.reg \in Int
  BY <1>2, <1>5
<1>7. Target = att.reg
  BY <1>4, <1>6 DEF Target
<1> QED BY <1>1, <1>3, <1>4, <1>5, <1>7

(* The correction of a day that is classified so is an attempt the table   *)
(* accepts (payroll_work_entry_store.py:104).                              *)
LEMMA CorrectionIsAttempt ==
    ASSUME RowsOk, CorrectDay, NEW n \in 1..MaxAttempts
    PROVE  /\ Correction(n) \in Attempts /\ Correction(n).n = n
           /\ Present = {Correction(n).id}
<1>1. Present # {}
  BY FS_EmptySet DEF CorrectDay
<1> DEFINE i == CHOOSE j \in Present : TRUE
<1>2. i \in Present /\ i \in Ids
  BY <1>1 DEF Present
<1>3. Present = {i}
  <2>1. IsFiniteSet(Present) /\ Cardinality(Present) = 1
    <3>1. IsFiniteSet(Ids)
      <4>1. IsFiniteSet({1})
        BY FS_Singleton
      <4>2. Ids = {1} \cup {2}
        BY DEF Ids
      <4> QED BY <4>1, <4>2, FS_AddElement
    <3>2. Present \subseteq Ids
      BY DEF Present
    <3> QED BY <3>1, <3>2, FS_Subset DEF CorrectDay
  <2>2. PICK k : Present = {k}
    BY <2>1, FS_Singleton
  <2> QED BY <1>2, <2>2
<1> HIDE DEF i
<1>4. ents[i].dur \in Durations /\ Target \in Durations /\ 0 \in Durations
  BY <1>2, TargetIsRegular, BoundsAssumption DEF Entries, Durations
<1>5. Correction(n) = [n |-> n, id |-> i, before |-> ents[i].dur,
                       after |-> IF Near(Target, 0) THEN 0 ELSE Target]
  BY DEF Correction, i
<1> QED BY <1>2, <1>3, <1>4, <1>5 DEF Attempts

(***************************************************************************)
(* The invariant                                                           *)
(***************************************************************************)
(* Before anything happened nothing is saved.                              *)
LEMMA GuardStarts == Init => GuardInv
<1> SUFFICES ASSUME Init PROVE GuardInv
  OBVIOUS
<1>1. RowsOk
  BY BoundsAssumption DEF Init, RowsOk
<1>2. \A g \in Procs : pass[g] = Idle
  BY DEF Init
<1>3. OnePass
  BY <1>2 DEF Init, OnePass, At, Idle
<1>4. PassOk(Idle, attempts, made)
  BY DEF Init, PassOk, Passes, Idle, Settling
<1>5. ChangedIsOnRecord /\ OnePending
  BY DEF Init, ChangedIsOnRecord, OnePending
<1> QED BY <1>1, <1>2, <1>3, <1>4, <1>5 DEF GuardInv

(* A process that does nothing is right whatever is saved.                 *)
LEMMA IdleIsOk ==
    ASSUME NEW p \in Passes, p.pc = "idle", NEW saved, NEW n
    PROVE  PassOk(p, saved, n)
BY DEF PassOk, Settling

(* What a step of the pass of g has to keep: the rows, its own pass and    *)
(* the two records; the other processes are idle.                          *)
LEMMA PassSteps ==
    ASSUME GuardInv, NEW g \in Procs, NEW p,
           pass' = [pass EXCEPT ![g] = p],
           \A h \in Procs \ {g} : At(h, "idle"),
           PassOk(p, attempts', made'), RowsOk',
           ChangedIsOnRecord', OnePending'
    PROVE  GuardInv'
<1>1. /\ DOMAIN pass' = Procs /\ pass'[g] = p
      /\ \A h \in Procs \ {g} : pass'[h] = pass[h] /\ pass[h].pc = "idle" /\ pass[h] \in Passes
  BY DEF GuardInv, OnePass, At, PassOk
<1>2. OnePass'
  BY <1>1 DEF OnePass, At
<1>3. \A h \in Procs : PassOk(pass'[h], attempts', made')
  BY <1>1, IdleIsOk
<1> QED BY <1>2, <1>3 DEF GuardInv

(* While the pass of g runs, the others do nothing.                        *)
LEMMA OthersIdle ==
    ASSUME GuardInv, NEW g \in Procs, ~At(g, "idle")
    PROVE  \A h \in Procs \ {g} : At(h, "idle")
BY DEF GuardInv, OnePass

(* What the invariant says of the pass of one process.                     *)
LEMMA PassTyped ==
    ASSUME GuardInv, NEW g \in Procs
    PROVE  /\ DOMAIN pass = Procs /\ pass[g] \in Passes /\ PassOk(pass[g], attempts, made)
           /\ RowsOk /\ ChangedIsOnRecord /\ OnePending
           /\ pass[g].todo \subseteq Attempts /\ pass[g].cur \in Attempts \cup {Nothing}
           /\ pass[g].new \in BOOLEAN /\ pass[g].pend \subseteq Ids
BY DEF GuardInv, OnePass, PassOk, Passes

(* The pass of g moves on and nothing else changes.                        *)
LEMMA PassMoves ==
    ASSUME GuardInv, NEW g \in Procs, ~At(g, "idle"), NEW p,
           pass' = [pass EXCEPT ![g] = p], UNCHANGED <<odoo, book>>,
           PassOk(p, attempts, made)
    PROVE  GuardInv'
<1>1. \A h \in Procs \ {g} : At(h, "idle")
  BY OthersIdle
<1>2. /\ ents' = ents /\ att' = att /\ touched' = touched
      /\ attempts' = attempts /\ audits' = audits /\ made' = made
  BY DEF odoo, book
<1>3. RowsOk' /\ ChangedIsOnRecord' /\ OnePending'
  BY <1>2 DEF GuardInv, RowsOk, ChangedIsOnRecord, OnePending
<1> QED BY <1>1, <1>2, <1>3, PassSteps

(* The pass goes on with its attempt.                                      *)
LEMMA GoesOn ==
    ASSUME GuardInv, NEW g \in Procs, NEW pc \in Settling, pass[g].pc \in Settling,
           To(g, pc), UNCHANGED <<odoo, book>>
    PROVE  GuardInv'
<1>1. PICK p : p = [pass[g] EXCEPT !.pc = pc]
  OBVIOUS
<1>2. p \in Passes /\ p.pc = pc /\ p.todo = pass[g].todo /\ p.cur = pass[g].cur
      /\ p.new = pass[g].new /\ p.pend = pass[g].pend
  BY <1>1, PassTyped DEF Passes
<1>3. pass' = [pass EXCEPT ![g] = p]
  BY <1>1 DEF To
<1>4. PassOk(p, attempts, made)
  BY <1>2, PassTyped DEF PassOk, Settling
<1>5. ~At(g, "idle")
  BY DEF At, Settling
<1> QED BY <1>3, <1>4, <1>5, PassMoves

(* The pass gives the day up.                                              *)
LEMMA GivesUp ==
    ASSUME GuardInv, NEW g \in Procs, ~At(g, "idle"),
           To(g, "sync"), UNCHANGED <<odoo, book>>
    PROVE  GuardInv'
<1>1. PICK p : p = [pass[g] EXCEPT !.pc = "sync"]
  OBVIOUS
<1>2. p \in Passes /\ p.pc = "sync"
  BY <1>1, PassTyped DEF Passes
<1>3. pass' = [pass EXCEPT ![g] = p]
  BY <1>1 DEF To
<1>4. PassOk(p, attempts, made)
  BY <1>2 DEF PassOk, Settling
<1> QED BY <1>3, <1>4, PassMoves

(* The attempt stays pending, and the pass remembers its entry.            *)
LEMMA LeavesIt ==
    ASSUME GuardInv, NEW g \in Procs, pass[g].pc \in Settling,
           Leaves(g), UNCHANGED <<odoo, book>>
    PROVE  GuardInv'
<1>1. PICK p : p = [pass[g] EXCEPT !.pc = After(g), !.cur = Nothing,
                                   !.pend = @ \cup {pass[g].cur.id}]
  OBVIOUS
<1>2. PassOk(pass[g], attempts, made) /\ pass[g] \in Passes
      /\ pass[g].cur \in attempts /\ attempts \subseteq Attempts
  BY PassTyped DEF PassOk, RowsOk
<1>3. pass[g].cur.id \in Ids
  BY <1>2 DEF Attempts
<1>4. After(g) \in {"sync", "next"} /\ (After(g) = "next" <=> ~pass[g].new)
  BY <1>2 DEF After, Passes
<1>5. /\ p \in Passes /\ p.pc = After(g) /\ p.todo = pass[g].todo
      /\ p.new = pass[g].new /\ p.pend = pass[g].pend \cup {pass[g].cur.id}
  BY <1>1, <1>2, <1>3, <1>4 DEF Passes
<1>6. pass' = [pass EXCEPT ![g] = p]
  BY <1>1 DEF Leaves
<1>7. PassOk(p, attempts, made)
  BY <1>2, <1>4, <1>5 DEF PassOk, Settling
<1>8. ~At(g, "idle")
  BY DEF At, Settling
<1> QED BY <1>6, <1>7, <1>8, PassMoves

(***************************************************************************)
(* A pass                                                                  *)
(***************************************************************************)
(* A pass begins with every saved attempt.                                 *)
LEMMA BeginKeeps ==
    ASSUME GuardInv, NEW g \in Procs, Begin(g)
    PROVE  GuardInv'
<1>1. PICK p : p = [Idle EXCEPT !.pc = "next", !.todo = attempts]
  OBVIOUS
<1>2. attempts \subseteq Attempts
  BY PassTyped DEF RowsOk
<1>3. p = [pc |-> "next", todo |-> attempts, cur |-> Nothing, new |-> FALSE, pend |-> {}]
  BY <1>1 DEF Idle
<1>4. PassOk(p, attempts, made)
  BY <1>2, <1>3 DEF PassOk, Passes, Settling
<1>5. /\ pass' = [pass EXCEPT ![g] = p] /\ \A h \in Procs \ {g} : At(h, "idle")
      /\ UNCHANGED <<odoo, book>>
  BY <1>1 DEF Begin
<1>6. /\ ents' = ents /\ att' = att /\ touched' = touched
      /\ attempts' = attempts /\ audits' = audits /\ made' = made
  BY <1>5 DEF odoo, book
<1>7. RowsOk' /\ ChangedIsOnRecord' /\ OnePending'
  BY <1>6 DEF GuardInv, RowsOk, ChangedIsOnRecord, OnePending
<1> QED BY <1>4, <1>5, <1>6, <1>7, PassSteps

(* The first attempt that is left is taken.                                *)
LEMMA TakePendingKeeps ==
    ASSUME GuardInv, NEW g \in Procs, TakePending(g)
    PROVE  GuardInv'
<1>1. /\ pass[g].pc = "next" /\ pass[g].todo # {} /\ pass[g] \in Passes
      /\ PassOk(pass[g], attempts, made) /\ pass[g].todo \subseteq Attempts
  BY PassTyped DEF TakePending, At
<1>2. PICK a : a = CHOOSE b \in pass[g].todo : \A c \in pass[g].todo : b.n <= c.n
  OBVIOUS
<1>3. a \in pass[g].todo
  BY <1>1, <1>2, FirstAttempt
<1>4. PICK p : p = [pass[g] EXCEPT !.cur = a, !.todo = @ \ {a}, !.pc = "fresh"]
  OBVIOUS
<1>5. pass' = [pass EXCEPT ![g] = p] /\ UNCHANGED <<odoo, book>>
  <2>1. /\ pass' = [pass EXCEPT ![g].cur = a, ![g].todo = @ \ {a}, ![g].pc = "fresh"]
        /\ UNCHANGED <<odoo, book>>
    BY <1>2, Zenon DEF TakePending
  <2> QED BY <1>4, <2>1
<1>6. /\ p \in Passes /\ p.pc = "fresh" /\ p.cur = a /\ p.todo = pass[g].todo \ {a}
      /\ p.new = pass[g].new /\ p.pend = pass[g].pend
  BY <1>1, <1>3, <1>4 DEF Passes, Settling
<1>7. PassOk(p, attempts, made)
  BY <1>1, <1>3, <1>6 DEF PassOk, Settling
<1>8. ~At(g, "idle")
  BY <1>1 DEF At
<1> QED BY <1>5, <1>7, <1>8, PassMoves

(* The entry is read again before it is changed.                           *)
LEMMA FreshReadKeeps ==
    ASSUME GuardInv, NEW g \in Procs, FreshRead(g)
    PROVE  GuardInv'
<1>1. pass[g].pc \in Settling /\ UNCHANGED <<odoo, book>>
  BY DEF FreshRead, At, Settling
<1>2. To(g, "final") \/ To(g, "mutate") \/ Leaves(g)
  BY DEF FreshRead
<1> QED BY <1>1, <1>2, GoesOn, LeavesIt DEF Settling

(* A read fails.                                                           *)
LEMMA ReadFailsKeeps ==
    ASSUME GuardInv, NEW g \in Procs, ReadFails(g)
    PROVE  GuardInv'
<1>1. pass[g].pc \in Settling /\ UNCHANGED <<odoo, book>> /\ Leaves(g)
  BY DEF ReadFails, At, Settling
<1> QED BY <1>1, LeavesIt

(* Odoo changes the entry of the attempt, which is saved.                  *)
LEMMA MutateKeeps ==
    ASSUME GuardInv, NEW g \in Procs, Mutate(g)
    PROVE  GuardInv'
<1>1. PICK a : a = pass[g].cur
  OBVIOUS
<1>2. /\ pass[g].pc = "mutate" /\ pass[g] \in Passes /\ PassOk(pass[g], attempts, made)
      /\ RowsOk /\ ChangedIsOnRecord /\ OnePending
  BY PassTyped DEF Mutate, At
<1>3. a \in attempts /\ a \in Attempts
  BY <1>1, <1>2 DEF PassOk, Settling, RowsOk
<1>4. a.n \in 1..MaxAttempts /\ a.id \in Ids /\ a.after \in Durations
  BY <1>3 DEF Attempts
<1>5. PICK p : p = [pass[g] EXCEPT !.pc = "verify"]
  OBVIOUS
<1>6. /\ p \in Passes /\ p.pc = "verify" /\ p.todo = pass[g].todo /\ p.cur = a
      /\ p.new = pass[g].new /\ p.pend = pass[g].pend
  BY <1>1, <1>2, <1>5 DEF Passes, Settling
<1>7. /\ pass' = [pass EXCEPT ![g] = p] /\ att' = att /\ touched' = touched \cup {a.n}
      /\ attempts' = attempts /\ audits' = audits /\ made' = made
      /\ ents' = [ents EXCEPT ![a.id] = IF a.after = 0 THEN [dur |-> 0, st |-> "gone"]
                                        ELSE [@ EXCEPT !.dur = a.after]]
  BY <1>1, <1>5 DEF Mutate, To, book
<1>8. PassOk(p, attempts', made')
  BY <1>1, <1>2, <1>3, <1>6, <1>7 DEF PassOk, Settling
<1>9. RowsOk'
  <2>1. ents' \in [Ids -> Entries]
    BY <1>2, <1>4, <1>7, BoundsAssumption DEF RowsOk, Entries, Durations
  <2> QED BY <1>2, <1>4, <1>7, <2>1 DEF RowsOk
<1>10. ChangedIsOnRecord'
  BY <1>2, <1>3, <1>7 DEF ChangedIsOnRecord
<1>11. OnePending'
  BY <1>2, <1>7 DEF OnePending
<1>12. \A h \in Procs \ {g} : At(h, "idle")
  BY <1>2, OthersIdle DEF At
<1> QED BY <1>7, <1>8, <1>9, <1>10, <1>11, <1>12, PassSteps

(* Odoo refuses, or its answer is lost.                                    *)
LEMMA MutateFailsKeeps ==
    ASSUME GuardInv, NEW g \in Procs, MutateFails(g)
    PROVE  GuardInv'
<1>1. pass[g].pc \in Settling /\ UNCHANGED <<odoo, book>> /\ To(g, "verify")
  BY DEF MutateFails, At, Settling
<1> QED BY <1>1, GoesOn DEF Settling

(* The entry is read once more.                                            *)
LEMMA VerifyKeeps ==
    ASSUME GuardInv, NEW g \in Procs, Verify(g)
    PROVE  GuardInv'
<1>1. pass[g].pc \in Settling /\ UNCHANGED <<odoo, book>>
  BY DEF Verify, At, Settling
<1>2. To(g, "final") \/ Leaves(g)
  BY DEF Verify
<1> QED BY <1>1, <1>2, GoesOn, LeavesIt DEF Settling

(* The attempt becomes an audit row in one transaction: what was changed   *)
(* stays on record.                                                        *)
LEMMA FinalizeKeeps ==
    ASSUME GuardInv, NEW g \in Procs, Finalize(g)
    PROVE  GuardInv'
<1>1. PICK a : a = pass[g].cur
  OBVIOUS
<1>2. /\ pass[g].pc = "final" /\ pass[g] \in Passes /\ PassOk(pass[g], attempts, made)
      /\ RowsOk /\ ChangedIsOnRecord /\ OnePending
  BY PassTyped DEF Finalize, At
<1>3. a \in attempts /\ a \in Attempts /\ a \notin pass[g].todo /\ a.n \in 1..MaxAttempts
  BY <1>1, <1>2 DEF PassOk, Settling, RowsOk, Attempts
<1>4. PICK p : p = [pass[g] EXCEPT !.pc = After(g), !.cur = Nothing]
  OBVIOUS
<1>5. After(g) \in {"sync", "next"} /\ (After(g) = "next" <=> ~pass[g].new)
  BY <1>2 DEF After, Passes
<1>6. /\ p \in Passes /\ p.pc = After(g) /\ p.todo = pass[g].todo
      /\ p.new = pass[g].new /\ p.pend = pass[g].pend
  BY <1>2, <1>4, <1>5 DEF Passes
<1>7. /\ pass' = [pass EXCEPT ![g] = p] /\ ents' = ents /\ att' = att /\ touched' = touched
      /\ attempts' = attempts \ {a} /\ audits' = audits \cup {a.n} /\ made' = made
  BY <1>1, <1>4 DEF Finalize, odoo
<1>8. PassOk(p, attempts', made')
  <2>1. p.pc \in {"sync", "next"} /\ (p.pc = "next" <=> ~p.new)
    BY <1>5, <1>6
  <2>2. CASE p.new
    BY <2>1, <2>2, <1>6 DEF PassOk, Settling
  <2>3. CASE ~p.new
    <3>1. p.todo \subseteq attempts'
      BY <1>2, <1>3, <1>6, <1>7, <2>3 DEF PassOk, Settling
    <3>2. \A b \in attempts' : b \in p.todo \/ b.id \in p.pend
      BY <1>1, <1>2, <1>6, <1>7, <2>3 DEF PassOk
    <3> QED BY <1>6, <2>1, <2>3, <3>1, <3>2 DEF PassOk, Settling
  <2> QED BY <2>2, <2>3
<1>9. RowsOk'
  BY <1>2, <1>3, <1>7 DEF RowsOk
<1>10. ChangedIsOnRecord'
  BY <1>2, <1>7 DEF ChangedIsOnRecord
<1>11. OnePending'
  BY <1>2, <1>7 DEF OnePending
<1>12. \A h \in Procs \ {g} : At(h, "idle")
  BY <1>2, OthersIdle DEF At
<1> QED BY <1>7, <1>8, <1>9, <1>10, <1>11, <1>12, PassSteps

(* The transaction fails.                                                  *)
LEMMA FinalizeFailsKeeps ==
    ASSUME GuardInv, NEW g \in Procs, FinalizeFails(g)
    PROVE  GuardInv'
<1>1. pass[g].pc \in Settling /\ UNCHANGED <<odoo, book>> /\ Leaves(g)
  BY DEF FinalizeFails, At, Settling
<1> QED BY <1>1, LeavesIt

(* The day is classified once every saved attempt is settled or stays.     *)
LEMMA ClassifyKeeps ==
    ASSUME GuardInv, NEW g \in Procs, Classify(g)
    PROVE  GuardInv'
<1>1. /\ pass[g].pc = "next" /\ pass[g].todo = {} /\ ~At(g, "idle")
      /\ UNCHANGED <<odoo, book>> /\ pass[g] \in Passes
      /\ PassOk(pass[g], attempts, made) /\ RowsOk
  BY PassTyped DEF Classify, At
<1>2. CASE CorrectDay /\ made < MaxAttempts
  <2>1. PICK a : a = Correction(made + 1)
    OBVIOUS
  <2>2. made + 1 \in 1..MaxAttempts
    BY <1>1, <1>2, BoundsAssumption DEF RowsOk
  <2>3. a \in Attempts /\ a.n = made + 1
    BY <1>1, <1>2, <2>1, <2>2, CorrectionIsAttempt
  <2>4. PICK p : p = [pass[g] EXCEPT !.pc = "create", !.cur = a]
    OBVIOUS
  <2>5. pass' = [pass EXCEPT ![g] = p]
    BY <1>2, <2>1, <2>4 DEF Classify
  <2>6. /\ p \in Passes /\ p.pc = "create" /\ p.cur = a /\ p.todo = {}
        /\ p.new = pass[g].new /\ p.pend = pass[g].pend
    BY <1>1, <2>3, <2>4 DEF Passes
  <2>7. PassOk(p, attempts, made)
    BY <1>1, <2>3, <2>6 DEF PassOk, Settling
  <2> QED BY <1>1, <2>5, <2>7, PassMoves
<1>3. CASE ~(CorrectDay /\ made < MaxAttempts)
  BY <1>1, <1>3, GivesUp DEF Classify
<1> QED BY <1>2, <1>3

(* The attempt is saved: the entry is in no other one.                     *)
LEMMA CreateKeeps ==
    ASSUME GuardInv, NEW g \in Procs, Create(g)
    PROVE  GuardInv'
<1>1. PICK a : a = pass[g].cur
  OBVIOUS
<1>2. /\ pass[g].pc = "create" /\ pass[g] \in Passes /\ PassOk(pass[g], attempts, made)
      /\ RowsOk /\ ChangedIsOnRecord /\ OnePending
  BY PassTyped DEF Create, At
<1>3. /\ a \in Attempts /\ a.n = made + 1 /\ pass[g].todo = {} /\ ~pass[g].new
      /\ a.n \in 1..MaxAttempts /\ a.id \notin pass[g].pend
  BY <1>1, <1>2 DEF PassOk, Attempts, Create
<1>4. \A b \in attempts : b.id \in pass[g].pend
  BY <1>2, <1>3 DEF PassOk, Settling
<1>5. PICK p : p = [pass[g] EXCEPT !.pc = "fresh", !.new = TRUE]
  OBVIOUS
<1>6. /\ p \in Passes /\ p.pc = "fresh" /\ p.cur = a /\ p.todo = {} /\ p.new = TRUE
  BY <1>1, <1>2, <1>3, <1>5 DEF Passes, Settling
<1>7. /\ pass' = [pass EXCEPT ![g] = p] /\ ents' = ents /\ att' = att /\ touched' = touched
      /\ attempts' = attempts \cup {a} /\ audits' = audits /\ made' = made + 1
  BY <1>1, <1>5 DEF Create, odoo
<1>8. PassOk(p, attempts', made')
  BY <1>6, <1>7 DEF PassOk, Settling
<1>9. RowsOk'
  BY <1>2, <1>3, <1>7 DEF RowsOk
<1>10. ChangedIsOnRecord'
  BY <1>2, <1>7 DEF ChangedIsOnRecord
<1>11. OnePending'
  BY <1>2, <1>3, <1>4, <1>7 DEF OnePending
<1>12. \A h \in Procs \ {g} : At(h, "idle")
  BY <1>2, OthersIdle DEF At
<1> QED BY <1>7, <1>8, <1>9, <1>10, <1>11, <1>12, PassSteps

(* The correction is not made.                                             *)
LEMMA SkipKeeps ==
    ASSUME GuardInv, NEW g \in Procs, Skip(g)
    PROVE  GuardInv'
<1>1. ~At(g, "idle") /\ UNCHANGED <<odoo, book>> /\ To(g, "sync")
  BY DEF Skip, At
<1> QED BY <1>1, GivesUp

(* The pass ends, or its process dies: the lock is free either way.        *)
LEMMA EndsKeep ==
    ASSUME GuardInv, NEW g \in Procs, Sync(g) \/ Crash(g)
    PROVE  GuardInv'
<1>1. PICK p : p = Idle
  OBVIOUS
<1>2. /\ ~At(g, "idle") /\ pass' = [pass EXCEPT ![g] = p] /\ UNCHANGED <<odoo, book>>
  BY <1>1 DEF Sync, Crash, At
<1>3. PassOk(p, attempts, made)
  BY <1>1 DEF PassOk, Passes, Idle, Settling
<1> QED BY <1>2, <1>3, PassMoves

(***************************************************************************)
(* Payroll staff and Odoo                                                  *)
(***************************************************************************)
(* They change the day and nothing of the guard.                           *)
LEMMA DayChanges ==
    ASSUME GuardInv, UNCHANGED <<book, pass, touched>>,
           ents' \in [Ids -> Entries], att' \in Days
    PROVE  GuardInv'
<1>1. /\ pass' = pass /\ touched' = touched
      /\ attempts' = attempts /\ audits' = audits /\ made' = made
  BY DEF book
<1>2. RowsOk' /\ OnePass'
  BY <1>1 DEF GuardInv, RowsOk, OnePass, At
<1>3. ChangedIsOnRecord' /\ OnePending'
  BY <1>1 DEF GuardInv, ChangedIsOnRecord, OnePending
<1>4. \A h \in Procs : PassOk(pass'[h], attempts', made')
  BY <1>1 DEF GuardInv
<1> QED BY <1>2, <1>3, <1>4 DEF GuardInv

(* Each of their changes leaves a day behind.                              *)
LEMMA StaffKeep ==
    ASSUME GuardInv,
           \/ \E i \in Ids : Validate(i) \/ \E d \in Durations : EditDuration(i, d)
           \/ \E d \in Durations : Regenerate(d)
           \/ \E d \in Days : EditAttendance(d)
    PROVE  GuardInv'
<1>1. ents \in [Ids -> Entries] /\ att \in Days /\ 0 \in Durations
  BY BoundsAssumption DEF GuardInv, RowsOk, Durations
<1>2. ASSUME NEW i \in Ids, Validate(i) PROVE GuardInv'
  <2>1. ents' \in [Ids -> Entries]
    BY <1>1, <1>2 DEF Validate, Entries
  <2>2. UNCHANGED <<book, pass, touched>> /\ att' = att
    BY <1>2 DEF Validate, Ours
  <2> QED BY <1>1, <2>1, <2>2, DayChanges
<1>3. ASSUME NEW i \in Ids, NEW d \in Durations, EditDuration(i, d) PROVE GuardInv'
  <2>1. ents' \in [Ids -> Entries]
    BY <1>1, <1>3 DEF EditDuration, Entries
  <2>2. UNCHANGED <<book, pass, touched>> /\ att' = att
    BY <1>3 DEF EditDuration, Ours
  <2> QED BY <1>1, <2>1, <2>2, DayChanges
<1>4. ASSUME NEW d \in Durations, Regenerate(d) PROVE GuardInv'
  <2>1. ents' \in [Ids -> Entries]
    BY <1>1, <1>4 DEF Regenerate, Entries
  <2>2. UNCHANGED <<book, pass, touched>> /\ att' = att
    BY <1>4 DEF Regenerate, Ours
  <2> QED BY <1>1, <2>1, <2>2, DayChanges
<1>5. ASSUME NEW d \in Days, EditAttendance(d) PROVE GuardInv'
  BY <1>1, <1>5, DayChanges DEF EditAttendance, Ours
<1> QED BY <1>2, <1>3, <1>4, <1>5

(***************************************************************************)
(* The theorems                                                            *)
(***************************************************************************)
(* Every step keeps the invariant.                                         *)
LEMMA GuardSteps == GuardInv /\ [Next]_vars => GuardInv'
<1> SUFFICES ASSUME GuardInv, [Next]_vars PROVE GuardInv'
  OBVIOUS
<1>1. ASSUME NEW g \in Procs, Begin(g) PROVE GuardInv'
  BY <1>1, BeginKeeps
<1>2. ASSUME NEW g \in Procs, Step(g) PROVE GuardInv'
  BY <1>2, TakePendingKeeps, FreshReadKeeps, MutateKeeps, VerifyKeeps, FinalizeKeeps,
     ClassifyKeeps, CreateKeeps, SkipKeeps, EndsKeep DEF Step
<1>3. ASSUME NEW g \in Procs, ReadFails(g) \/ MutateFails(g) \/ FinalizeFails(g) \/ Crash(g)
      PROVE  GuardInv'
  BY <1>3, ReadFailsKeeps, MutateFailsKeeps, FinalizeFailsKeeps, EndsKeep
<1>4. CASE UNCHANGED vars
  <2>1. /\ ents' = ents /\ att' = att /\ pass' = pass /\ touched' = touched
        /\ UNCHANGED book
    BY <1>4 DEF vars, book
  <2>2. ents \in [Ids -> Entries] /\ att \in Days
    BY DEF GuardInv, RowsOk
  <2> QED BY <2>1, <2>2, DayChanges
<1> QED BY <1>1, <1>2, <1>3, <1>4, StaffKeep DEF Next

(* One pass runs, it acts on nothing that is not saved, and it knows of    *)
(* every attempt that it leaves.                                           *)
THEOREM GuardInvariant == Spec => []GuardInv
<1>1. Init => GuardInv
  BY GuardStarts
<1>2. GuardInv /\ [Next]_vars => GuardInv'
  BY GuardSteps
<1> QED BY <1>1, <1>2, PTL DEF Spec

(* What the guard changed in Odoo is on record, and an entry never has two *)
(* corrections pending (payroll_work_entry_guard.py:340-344).              *)
THEOREM PayrollIsOnRecord == Spec => []PayrollIsRight
<1>1. GuardInv => PayrollIsRight
  <2> SUFFICES ASSUME GuardInv PROVE PayrollIsRight
    OBVIOUS
  <2>1. \A g \in DOMAIN pass : /\ pass[g].todo \subseteq Attempts /\ pass[g].pend \subseteq Ids
                               /\ pass[g].cur \in Attempts \cup {Nothing}
    BY DEF GuardInv, OnePass, PassOk, Passes
  <2>2. TypeOK
    BY <2>1 DEF GuardInv, RowsOk, OnePass, TypeOK
  <2> QED BY <2>2 DEF GuardInv, PayrollIsRight
<1> QED BY <1>1, GuardInvariant, PTL

(* A change that Odoo makes on a day as it was classified leaves a day     *)
(* without the defect, whether it shortens the entry or deletes it.        *)
LEMMA MutateCorrects ==
    ASSUME GuardInv, NEW g \in Procs, Mutate(g), CorrectDay,
           Correction(pass[g].cur.n) = pass[g].cur
    PROVE  NoopDay'
<1>1. PICK a : a = pass[g].cur
  OBVIOUS
<1>2. /\ pass[g].pc = "mutate" /\ RowsOk /\ PassOk(pass[g], attempts, made)
  BY PassTyped DEF Mutate, At
<1>3. a \in Attempts /\ a.n \in 1..MaxAttempts /\ a.id \in Ids
  BY <1>1, <1>2 DEF PassOk, Settling, RowsOk, Attempts
<1>4. Present = {a.id}
  BY <1>1, <1>2, <1>3, CorrectionIsAttempt
<1>5. a.after = IF Near(Target, 0) THEN 0 ELSE Target
  BY <1>1 DEF Correction
<1>6. Target = att.reg /\ att.reg \in Nat /\ Tol \in Nat
  BY <1>2, TargetIsRegular, BoundsAssumption DEF Durations
<1>7. /\ att' = att /\ ents \in [Ids -> Entries]
      /\ ents' = [ents EXCEPT ![a.id] = IF a.after = 0 THEN [dur |-> 0, st |-> "gone"]
                                        ELSE [@ EXCEPT !.dur = a.after]]
  BY <1>1, <1>2 DEF Mutate, RowsOk
<1>8. /\ \A i \in Ids \ {a.id} : ents'[i] = ents[i] /\ ents[i].st = "gone"
      /\ ents[a.id].st # "gone" /\ ents[a.id] \in Entries
  BY <1>3, <1>4, <1>7 DEF Present
<1>9. Near(att.paid, att.val)
  BY DEF CorrectDay
<1>10. CASE a.after = 0
  <2>1. ents'[a.id].st = "gone"
    BY <1>3, <1>7, <1>10
  <2>2. \A i \in Ids : Regular(i)' = 0
    BY <1>8, <2>1 DEF Regular, Present
  <2>3. WorkRegular' = 0
    BY <2>2 DEF WorkRegular, Ids
  <2>4. Near(0, att.reg)
    BY <1>5, <1>6, <1>10 DEF Near
  <2> QED BY <1>7, <1>9, <2>3, <2>4 DEF NoopDay
<1>11. CASE a.after # 0
  <2>1. a.after = att.reg
    BY <1>5, <1>6, <1>11
  <2>2. ents'[a.id].st # "gone" /\ ents'[a.id].dur = att.reg
    BY <1>3, <1>7, <1>8, <1>11, <2>1 DEF Entries
  <2>3. /\ Regular(a.id)' = att.reg
        /\ \A i \in Ids \ {a.id} : Regular(i)' = 0
    BY <1>3, <1>8, <2>2 DEF Regular, Present
  <2>4. WorkRegular' = att.reg
    BY <1>3, <1>6, <2>3 DEF WorkRegular, Ids
  <2>5. Near(att.reg, att.reg)
    BY <1>6 DEF Near
  <2> QED BY <1>7, <1>9, <2>4, <2>5 DEF NoopDay
<1> QED BY <1>10, <1>11

(* A correction of a day that is still as it was classified leaves nothing *)
(* for the next pass to correct (payroll_work_entry_rules.py:152).         *)
THEOREM CorrectionSuffices == Spec => CorrectedIsNoop
<1> DEFINE Corrects(g) == /\ At(g, "mutate") /\ CorrectDay
                          /\ Correction(pass[g].cur.n) = pass[g].cur
                          /\ ents' # ents /\ pass'[g].pc = "verify"
<1>1. ASSUME GuardInv, [Next]_vars
      PROVE  [\A g \in DOMAIN pass : Corrects(g) => NoopDay']_vars
  <2>0. DOMAIN pass = Procs
    BY <1>1 DEF GuardInv, OnePass
  <2> SUFFICES ASSUME NEW g \in Procs, Corrects(g), Next
               PROVE  NoopDay'
    BY <1>1, <2>0
  <2>1. At(g, "mutate") /\ ents' # ents /\ pass' # pass
    BY DEF At
  <2>2. \A h \in Procs \ {g} : At(h, "idle")
    BY <1>1, <2>1, OthersIdle DEF At
  <2>3. ~UNCHANGED odoo
    BY <2>1 DEF odoo
  <2>4. \E h \in Procs : Mutate(h)
    <3>1. ASSUME NEW h \in Procs,
                 \/ Begin(h) \/ ReadFails(h) \/ MutateFails(h) \/ FinalizeFails(h) \/ Crash(h)
          PROVE  UNCHANGED odoo
      BY <3>1 DEF Begin, ReadFails, MutateFails, FinalizeFails, Crash
    <3>2. ASSUME NEW h \in Procs, Step(h), ~Mutate(h)
          PROVE  UNCHANGED odoo
      BY <3>2, Zenon DEF Step, TakePending, FreshRead, Verify, Finalize, Classify, Create,
                         Skip, Sync
    <3>3. ~\E i \in Ids : Validate(i) \/ \E d \in Durations : EditDuration(i, d)
      BY <2>1 DEF Validate, EditDuration, Ours
    <3>4. ~\E d \in Durations : Regenerate(d)
      BY <2>1 DEF Regenerate, Ours
    <3>5. ~\E d \in Days : EditAttendance(d)
      BY <2>1 DEF EditAttendance, Ours
    <3> QED BY <2>3, <3>1, <3>2, <3>3, <3>4, <3>5 DEF Next
  <2>5. Mutate(g)
    BY <2>2, <2>4 DEF Mutate, At
  <2> QED BY <1>1, <2>5, MutateCorrects
<1> QED BY <1>1, GuardInvariant, PTL DEF Spec, CorrectedIsNoop

(***************************************************************************)
(* The conversion of an absence.                                           *)
(***************************************************************************)
\* What a step of the owner w may leave behind: the row r and its place k.
Row(r) ==
    /\ r \in Requests
    /\ r.state \in {"none", "pending", "denied"} => r.step = "not_started"
    /\ r.step \in {"pto_created", "pto_approved"} => r.pto # None
MayLeave(w, r, k) ==
    /\ Row(r) /\ k \in Places /\ k.got = None
    /\ \/ r.owner = Nobody /\ k.pc # "sent"
       \/ r.owner = w /\ PlaceOk(r, k)

\* What it owes the day, while only conversions edit leaves.
Owes(r, k) ==
    /\ r.state # "approved"
    /\ k.pc = "sent" => /\ k.op \in {"confirm", "approve", "close"} => k.id = r.pto
                        /\ k.op = "close" => pto[k.id] \in Closable
    /\ r.state \in {"none", "pending", "denied", "converting"} /\ r.step = "not_started" =>
          Matching = {} /\ r.pto = None
    /\ r.state \in {"none", "pending", "denied"} => orig \notin Terminal
    /\ k.pc = "final" => Matching = {r.pto} /\ pto[r.pto] = "validate"

(* The pieces of the invariant, once.                                      *)
LEMMA PtoFacts ==
    ASSUME ConversionInv
    PROVE  /\ Row(req) /\ req \in Requests /\ Nobody \notin Workers
           /\ DOMAIN wk = Workers /\ \A w \in Workers : wk[w] \in Places
           /\ req.owner \in Workers \cup {Nobody}
           /\ req.owner # Nobody => req.owner \in Workers /\ PlaceOk(req, wk[req.owner])
           /\ pto \in [PtoIds -> LeaveStates \cup {"none"}]
           /\ None \notin PtoIds
BY PtoAssumption
   DEF ConversionInv, PtoTypeOK, RowInv, Row, Requests, Nobody, None, PtoIds

(* While a process lives that holds the lease, no other call is left.      *)
LEMMA OwnerAlone ==
    ASSUME ConversionInv, Calm, NEW w \in Workers, req.owner = w, wk[w].pc # "idle"
    PROVE  /\ late = {}
           /\ \A v \in Workers : wk[v].pc = "sent" => v = w
<1>1. CallsInv
  BY DEF ConversionInv
<1> QED BY <1>1 DEF CallsInv

(* The owner changes the row and its place, and nothing in Odoo.           *)
Moves(w, r, k) ==
    /\ req' = r /\ wk' = [wk EXCEPT ![w] = k]
    /\ ptoFaults' \in 0..MaxPtoFaults
    /\ UNCHANGED <<link, orig, pto, days, open, late, slow, outside, submits>>
LEMMA MovesKeeps ==
    ASSUME ConversionInv, NEW w \in Workers, req.owner = w, wk[w].pc \notin {"idle", "sent"},
           NEW r, NEW k, Moves(w, r, k), MayLeave(w, r, k), Calm => Owes(r, k)
    PROVE  ConversionInv'
<1>1. /\ req' = r /\ wk' = [wk EXCEPT ![w] = k] /\ ptoFaults' \in 0..MaxPtoFaults
      /\ UNCHANGED <<link, orig, pto, days, open, late, slow, outside, submits>>
  BY DEF Moves
<1>2. DOMAIN wk' = Workers /\ wk'[w] = k /\ \A v \in Workers \ {w} : wk'[v] = wk[v]
  BY <1>1, PtoFacts
<1>3. PtoTypeOK' /\ DOMAIN wk' = Workers
  BY <1>1, <1>2, PtoFacts DEF ConversionInv, PtoTypeOK, MayLeave, Row
<1>4. RowInv'
  <2>1. \A v \in Workers : wk'[v].got # None => wk'[v].pc = "verify" /\ wk'[v].op = "create"
    BY <1>2 DEF ConversionInv, RowInv, MayLeave
  <2>2. r.owner # Nobody => PlaceOk(r, wk'[r.owner])
    BY <1>2 DEF MayLeave
  <2> QED BY <1>1, <2>1, <2>2 DEF RowInv, MayLeave, Row, PlaceOk, CallOk
<1>5. OneLeave'
  BY <1>1 DEF ConversionInv, OneLeave, Matching
<1>6. ASSUME Calm' PROVE CallsInv' /\ LeavesInv'
  <2>1. Calm /\ CallsInv /\ LeavesInv /\ Owes(r, k) /\ late = {} /\ late' = {}
    BY <1>1, <1>6, OwnerAlone DEF Calm, ConversionInv
  <2>2. \A v \in Workers : wk'[v].pc = "sent" => v = w
    BY <1>2, <2>1, OwnerAlone
  <2>3. req' = r /\ wk'[w] = k /\ pto' = pto
    BY <1>1, <1>2
  <2>4. CallsInv'
    <3> SUFFICES ASSUME NEW v \in Workers, wk'[v].pc = "sent"
                 PROVE  req'.owner = v /\ CallStands(wk[v].op, wk[v].id)'
      BY <2>1 DEF CallsInv
    <3>1. v = w /\ k.pc = "sent"
      BY <2>2, <2>3
    <3>2. r.owner = w /\ PlaceOk(r, k)
      BY <3>1 DEF MayLeave
    <3>3. CallOk(r, k.op)
      BY <3>1, <3>2 DEF PlaceOk
    <3> QED BY <2>1, <2>3, <3>1, <3>2, <3>3 DEF Owes, CallStands
  <2>5. LeavesInv'
    <3>1. orig' # "cancel" /\ Matching' = Matching /\ orig' = orig /\ pto' = pto
      BY <1>1, <2>1 DEF LeavesInv, Matching
    <3>2. req'.owner # Nobody /\ wk'[req'.owner].pc = "final" =>
              Matching' = {req'.pto} /\ pto'[req'.pto] = "validate"
      BY <1>1, <1>2, <2>1, <3>1 DEF MayLeave, Owes
    <3> QED BY <1>1, <2>1, <3>1, <3>2 DEF LeavesInv, MayLeave, Row, Owes, PendingNotRefused, ApprovedIsOneDay
  <2> QED BY <2>4, <2>5
<1> QED BY <1>3, <1>4, <1>5, <1>6 DEF ConversionInv

(* Most steps of a worker leave the count of faults alone.                 *)
LEMMA LocalKeeps ==
    ASSUME ConversionInv, NEW w \in Workers, req.owner = w, wk[w].pc \notin {"idle", "sent"},
           NEW r, NEW k, Local(w, r, k), MayLeave(w, r, k), Calm => Owes(r, k)
    PROVE  ConversionInv'
<1>1. Moves(w, r, k)
  BY DEF Local, Moves, ConversionInv, PtoTypeOK
<1> QED BY <1>1, MovesKeeps

Acting(w) == w \in Workers /\ req.owner = w /\ wk[w].pc \notin {"idle", "sent"}

(* Places of a worker that goes on, and of one that ends.                  *)
LEMMA PlacesTyped ==
    ASSUME ConversionInv, NEW w \in Workers, NEW pc \in Pcs
    PROVE  /\ Free \in Places /\ Free.pc = "idle" /\ Free.got = None
           /\ Go(w, pc) \in Places /\ Go(w, pc).pc = pc /\ Go(w, pc).got = None
           /\ Go(w, pc).op = "none" /\ Go(w, pc).post = wk[w].post /\ Go(w, pc).exp = wk[w].exp
<1>1. wk[w] \in Places
  BY PtoFacts
<1>2. Free \in Places
  BY DEF Free, Places, Pcs, Ops
<1> QED BY <1>1, <1>2 DEF Free, Go, Places, Ops

(* Whoever ends gives the lease back.                                      *)
LEMMA EndsKeeps ==
    ASSUME ConversionInv, NEW w, Acting(w), NEW r, Ends(w, r), Row(r),
           Calm => Owes([r EXCEPT !.owner = Nobody], Free)
    PROVE  ConversionInv'
<1>0. PICK p \in BOOLEAN : Local(w, [r EXCEPT !.owner = Nobody, !.parked = p], Free)
  BY DEF Ends, Parked
<1> DEFINE o == [r EXCEPT !.owner = Nobody]
           q == [r EXCEPT !.owner = Nobody, !.parked = p]
<1>1. Local(w, q, Free)
  BY <1>0
<1>2. q \in Requests /\ q.owner = Nobody /\ q.state = r.state /\ q.step = r.step /\ q.pto = r.pto
  BY DEF Row, Requests
<1>6. o.state = r.state /\ o.step = r.step /\ o.pto = r.pto
  BY DEF Row, Requests
<1>7. Calm => Owes(o, Free)
  OBVIOUS
<1>3. Row(q)
  BY <1>2 DEF Row
<1> HIDE DEF q, o
<1>4. MayLeave(w, q, Free)
  BY <1>2, <1>3, PlacesTyped DEF MayLeave, Acting, Pcs
<1>5. Calm => Owes(q, Free)
  BY <1>2, <1>6, <1>7 DEF Owes
<1> QED BY <1>1, <1>4, <1>5, LocalKeeps DEF Acting

(* A person decides what the conversion cannot.                            *)
LEMMA ReviewKeeps ==
    ASSUME ConversionInv, NEW w, Acting(w), Review(w)
    PROVE  ConversionInv'
<1> DEFINE r == [req EXCEPT !.state = "needs_review"]
           q == [r EXCEPT !.owner = Nobody]
<1>1. r \in Requests /\ r.state = "needs_review" /\ r.step = req.step /\ r.pto = req.pto
  BY PtoFacts DEF Requests
<1>2. Row(r)
  BY <1>1, PtoFacts DEF Row
<1>3. q.state = "needs_review"
  BY <1>1 DEF Requests
<1>4. Owes(q, Free)
  BY <1>3 DEF Owes, Free
<1> QED BY <1>2, <1>4, EndsKeeps DEF Review

(* The request waits again: its absence stands and it has no PTO.          *)
LEMMA WaitsAgain ==
    ASSUME ConversionInv, NEW w, Acting(w), NEW r, Ends(w, r), r \in Requests,
           r.state = "pending", r.step = "not_started", r.pto = None,
           Calm => Matching = {} /\ orig \notin Terminal
    PROVE  ConversionInv'
<1> DEFINE q == [r EXCEPT !.owner = Nobody]
<1>1. Row(r)
  BY DEF Row
<1>2. q.state = "pending" /\ q.step = "not_started" /\ q.pto = None
  BY DEF Requests
<1>3. Calm => Owes(q, Free)
  BY <1>2 DEF Owes, Free
<1> QED BY <1>1, <1>3, EndsKeeps

(* So after a compensation, or where the refusal did not happen.           *)
LEMMA ToPendingKeeps ==
    ASSUME ConversionInv, NEW w, Acting(w), ToPending(w),
           Calm => Matching = {} /\ orig \notin Terminal
    PROVE  ConversionInv'
<1> DEFINE r == [req EXCEPT !.state = "pending", !.step = "not_started", !.pto = None]
<1>1. r \in Requests /\ r.state = "pending" /\ r.step = "not_started" /\ r.pto = None
  BY PtoFacts DEF Requests, Steps
<1> QED BY <1>1, WaitsAgain DEF ToPending

(* A conversion goes on, without a call.                                   *)
LEMMA ConversionGoesOn ==
    ASSUME ConversionInv, NEW w, Acting(w), NEW r, NEW k, Local(w, r, k),
           r \in Requests, r.owner = w, r.state = "converting",
           r.step \in {"pto_created", "pto_approved"} => r.pto # None,
           r.step = "not_started" => req.step = "not_started" /\ r.pto = req.pto
                                     /\ req.state \in {"pending", "converting"},
           k \in Places, k.pc \in {"enter", "work", "close", "restore"}, k.got = None
    PROVE  ConversionInv'
<1>1. Row(r)
  BY DEF Row
<1>2. MayLeave(w, r, k)
  BY <1>1 DEF MayLeave, PlaceOk
<1>3. Calm => Owes(r, k)
  BY DEF Owes, ConversionInv, LeavesInv
<1> QED BY <1>2, <1>3, LocalKeeps DEF Acting

LEMMA CompensationKeeps ==
    ASSUME ConversionInv, NEW w, Acting(w), req.state = "converting", Local(w, req, Go(w, "close"))
    PROVE  ConversionInv'
<1>1. Go(w, "close") \in Places /\ Go(w, "close").pc = "close" /\ Go(w, "close").got = None
  BY PlacesTyped DEF Acting, Pcs
<1>2. Row(req)
  BY PtoFacts
<1> QED BY <1>1, <1>2, ConversionGoesOn DEF Acting, Row

(* What went wrong is compensated, or left to a person.                    *)
LEMMA FailKeeps ==
    ASSUME ConversionInv, NEW w, Acting(w), NEW post, Fail(w, post)
    PROVE  ConversionInv'
BY CompensationKeeps, ReviewKeeps DEF Fail, Compensates

(* Without a day left the request waits, or what was done is taken back.   *)
LEMMA LowKeeps ==
    ASSUME ConversionInv, NEW w, Acting(w), NEW post, Low(w, post),
           req.state = "converting" \/ (req.state = "pending" /\ ~post),
           Calm => (req.step = "not_started" /\ ~post => orig \notin Terminal)
    PROVE  ConversionInv'
<1>1. Row(req)
  BY PtoFacts
<1>2. CASE req.step = "not_started" /\ ~post
  <2> DEFINE r == [req EXCEPT !.state = "pending"]
             q == [r EXCEPT !.owner = Nobody]
  <2>1. Ends(w, r)
    BY <1>2 DEF Low
  <2>2. /\ r \in Requests /\ r.state = "pending" /\ r.step = "not_started"
        /\ q.state = "pending" /\ q.step = "not_started" /\ q.pto = req.pto
    BY <1>1, <1>2 DEF Row, Requests
  <2>3. Row(r)
    BY <2>2 DEF Row
  <2>4. Calm => Matching = {} /\ req.pto = None /\ orig \notin Terminal
    BY <1>2 DEF ConversionInv, LeavesInv
  <2>5. Calm => Owes(q, Free)
    BY <2>2, <2>4 DEF Owes, Free
  <2> QED BY <2>1, <2>3, <2>5, EndsKeeps
<1>3. CASE req.step # "not_started" \/ post
  BY <1>1, <1>3, CompensationKeeps DEF Low, Row
<1> QED BY <1>2, <1>3

(* A check that does not let the step proceed.                             *)
Stops(w, post) == (Unsafe /\ Fail(w, post)) \/ (~Unsafe /\ LowBalance /\ Low(w, post))
LEMMA StopsKeeps ==
    ASSUME ConversionInv, NEW w, Acting(w), NEW post, Stops(w, post),
           req.state = "converting" \/ (req.state = "pending" /\ ~post),
           Calm => (req.step = "not_started" /\ ~post => orig \notin Terminal)
    PROVE  ConversionInv'
BY FailKeeps, LowKeeps DEF Stops

(* A call goes to Odoo.                                                    *)
LEMMA SendKeeps ==
    ASSUME ConversionInv, NEW w, Acting(w), NEW r, NEW k, Local(w, r, k),
           r \in Requests, r.owner = w, r.state = "converting", r.step = req.step,
           r.step \in {"pto_created", "pto_approved"} => r.pto # None,
           Calm /\ r.step = "not_started" => r.pto = req.pto /\ req.state \in {"pending", "converting"},
           k \in Places, k.pc = "sent", k.got = None, CallOk(r, k.op),
           k.op \in {"confirm", "approve", "close"} => k.id = r.pto,
           k.op = "close" => pto[k.id] \in Closable
    PROVE  ConversionInv'
<1>1. Row(r)
  BY DEF Row
<1>2. MayLeave(w, r, k)
  BY <1>1 DEF MayLeave, PlaceOk
<1>3. Calm => Owes(r, k)
  BY DEF Owes, ConversionInv, LeavesInv
<1> QED BY <1>2, <1>3, LocalKeeps DEF Acting

(* The call a worker makes from the place it is at.                        *)
LEMMA CallIs ==
    ASSUME ConversionInv, NEW w, Acting(w), wk[w].pc # "verify", NEW op \in Ops,
           NEW id \in PtoIds \cup {None}
    PROVE  /\ Call(w, op, id) \in Places /\ Call(w, op, id).pc = "sent" /\ Call(w, op, id).got = None
           /\ Call(w, op, id).op = op /\ Call(w, op, id).id = id
<1>1. wk[w] \in Places /\ wk[w].got = None
  BY PtoFacts DEF Acting, ConversionInv, RowInv
<1> QED BY <1>1 DEF Call, Places, Pcs

(* What is known where a worker acts.                                      *)
LEMMA ActingAt ==
    ASSUME ConversionInv, NEW w \in Workers, NEW pc \in Pcs \ {"idle", "sent"}, Owns(w, pc)
    PROVE  /\ Acting(w) /\ wk[w].pc = pc /\ wk[w] \in Places /\ req.owner = w
           /\ Row(req) /\ req \in Requests /\ PlaceOk(req, wk[w])
           /\ pc \in {"work", "verify", "close", "restore"} => req.state = "converting"
           /\ pc # "verify" => wk[w].got = None
BY PtoFacts DEF Owns, Acting, PlaceOk, Pcs, ConversionInv, RowInv

(* A worker starts, or takes up what a dead one left.                      *)
LEMMA EnterKeeps ==
    ASSUME ConversionInv, NEW w \in Workers, Enter(w)
    PROVE  ConversionInv'
<1> DEFINE post == Refused(w)
           r == [req EXCEPT !.state = "converting"]
           k == [Go(w, "work") EXCEPT !.post = post]
<1>1. /\ Acting(w) /\ wk[w].pc = "enter" /\ wk[w] \in Places /\ req.owner = w
      /\ Row(req) /\ req \in Requests /\ PlaceOk(req, wk[w])
  BY ActingAt DEF Enter, Pcs
<1>2. req.state \in {"pending", "converting"} /\ (req.state = "pending" => ~post /\ req.step = "not_started")
  BY <1>1 DEF PlaceOk, Refused, Row
<1>3. Calm => (~post /\ req.step = "not_started" => orig \notin Terminal)
  BY <1>2 DEF Refused, ConversionInv, LeavesInv, PendingNotRefused, Terminal
<1>4. post \in BOOLEAN
  BY <1>1 DEF Refused, Places
<1>5. Stops(w, post) \/ Local(w, r, k)
  BY DEF Enter, Preflight, Stops
<1>6. CASE Stops(w, post)
  BY <1>1, <1>2, <1>3, <1>6, StopsKeeps
<1>7. CASE Local(w, r, k)
  <2>1. r \in Requests /\ r.owner = w /\ r.state = "converting" /\ r.step = req.step /\ r.pto = req.pto
    BY <1>1 DEF Requests
  <2>2. /\ Go(w, "work") \in Places /\ Go(w, "work").pc = "work" /\ Go(w, "work").got = None
    BY PlacesTyped DEF Pcs
  <2>3. k \in Places /\ k.pc = "work" /\ k.got = None
    BY <1>4, <2>2 DEF Places
  <2> HIDE DEF r, k, post
  <2> QED BY <1>1, <1>2, <1>7, <2>1, <2>3, ConversionGoesOn DEF Row
<1> QED BY <1>5, <1>6, <1>7

(* First the Absence is refused.                                           *)
LEMMA RefuseOriginalKeeps ==
    ASSUME ConversionInv, NEW w \in Workers, RefuseOriginal(w)
    PROVE  ConversionInv'
<1>1. /\ Acting(w) /\ wk[w].pc = "work" /\ wk[w] \in Places /\ req.owner = w
      /\ Row(req) /\ req \in Requests /\ req.state = "converting" /\ req.step = "not_started"
  BY ActingAt DEF RefuseOriginal, Pcs
<1>2. CASE orig = "validate" /\ Stops(w, wk[w].post)
  BY <1>1, <1>2, StopsKeeps DEF Terminal
<1>3. CASE Local(w, req, [Call(w, "refuse", None) EXCEPT !.post = TRUE])
  <2> DEFINE k == [Call(w, "refuse", None) EXCEPT !.post = TRUE]
  <2>1. k \in Places /\ k.pc = "sent" /\ k.got = None /\ k.op = "refuse"
    <3> DEFINE c == Call(w, "refuse", None)
    <3>1. c \in Places /\ c.pc = "sent" /\ c.got = None /\ c.op = "refuse"
      BY <1>1, CallIs DEF Ops
    <3> HIDE DEF c
    <3>2. [c EXCEPT !.post = TRUE] \in Places /\ [c EXCEPT !.post = TRUE].pc = "sent"
          /\ [c EXCEPT !.post = TRUE].got = None /\ [c EXCEPT !.post = TRUE].op = "refuse"
      BY <3>1 DEF Places
    <3> QED BY <3>2 DEF c
  <2>2. CallOk(req, "refuse")
    BY <1>1 DEF CallOk, Ops
  <2>3. Local(w, req, k)
    BY <1>3
  <2> HIDE DEF k
  <2> QED BY <1>1, <2>1, <2>2, <2>3, SendKeeps
<1>4. CASE Local(w, [req EXCEPT !.step = "absence_refused"], [Go(w, "work") EXCEPT !.post = TRUE])
  <2> DEFINE r == [req EXCEPT !.step = "absence_refused"]
             k == [Go(w, "work") EXCEPT !.post = TRUE]
  <2>1. r \in Requests /\ r.owner = w /\ r.state = "converting" /\ r.step = "absence_refused"
    BY <1>1 DEF Requests, Steps
  <2>2. Go(w, "work") \in Places /\ Go(w, "work").pc = "work" /\ Go(w, "work").got = None
    BY PlacesTyped DEF Pcs
  <2>3. k \in Places /\ k.pc = "work" /\ k.got = None
    BY <2>2 DEF Places
  <2> HIDE DEF r, k
  <2> QED BY <1>1, <1>4, <2>1, <2>3, ConversionGoesOn DEF r, k
<1>5. CASE Fail(w, wk[w].post)
  BY <1>1, <1>5, FailKeeps
<1> QED BY <1>2, <1>3, <1>4, <1>5 DEF RefuseOriginal, Preflight, Stops

(* A PTO is found, or was just made.                                       *)
LEMMA CreatedKeeps ==
    ASSUME ConversionInv, NEW w, Acting(w), req.state = "converting", NEW i \in PtoIds, Created(w, i)
    PROVE  ConversionInv'
<1> DEFINE r == [req EXCEPT !.step = "pto_created", !.pto = i]
           k == [Go(w, "work") EXCEPT !.exp = "any"]
<1>1. r \in Requests /\ r.owner = w /\ r.state = "converting" /\ r.step = "pto_created" /\ r.pto # None
  BY PtoFacts DEF Requests, Steps, Acting
<1>2. Go(w, "work") \in Places /\ Go(w, "work").pc = "work" /\ Go(w, "work").got = None
  BY PlacesTyped DEF Pcs, Acting
<1>3. k \in Places /\ k.pc = "work" /\ k.got = None
  BY <1>2 DEF Places
<1>4. Local(w, r, k)
  BY DEF Created
<1> HIDE DEF r, k
<1> QED BY <1>1, <1>3, <1>4, ConversionGoesOn

(* Then a PTO is found, or made.                                           *)
LEMMA FindOrCreateKeeps ==
    ASSUME ConversionInv, NEW w \in Workers, FindOrCreate(w)
    PROVE  ConversionInv'
<1>1. /\ Acting(w) /\ wk[w].pc = "work" /\ wk[w] \in Places /\ req.owner = w
      /\ Row(req) /\ req \in Requests /\ req.state = "converting" /\ req.step = "absence_refused"
  BY ActingAt DEF FindOrCreate, Pcs
<1>2. CASE Stops(w, TRUE)
  BY <1>1, <1>2, StopsKeeps
<1>3. CASE Send(w, "create")
  <2>1. req.pto \in PtoIds \cup {None} /\ CallOk(req, "create")
    BY <1>1 DEF CallOk, Ops, Requests
  <2> DEFINE k == Call(w, "create", req.pto)
  <2>2. k \in Places /\ k.pc = "sent" /\ k.got = None /\ k.op = "create"
    <3>1. "create" \in Ops /\ wk[w].pc # "verify"
      BY <1>1 DEF Ops
    <3> QED BY <1>1, <2>1, <3>1, CallIs
  <2>3. Local(w, req, k)
    BY <1>3 DEF Send
  <2> HIDE DEF k
  <2> QED BY <1>1, <2>1, <2>2, <2>3, SendKeeps
<1>4. CASE Matching # {} /\ Created(w, CHOOSE i \in Matching : TRUE)
  <2>1. (CHOOSE i \in Matching : TRUE) \in PtoIds
    BY <1>4 DEF Matching
  <2> QED BY <1>1, <1>4, <2>1, CreatedKeeps
<1> QED BY <1>2, <1>3, <1>4 DEF FindOrCreate, Preflight, Stops


(* A place with an expected state of the leave.                            *)
LEMMA GoesExpecting ==
    ASSUME ConversionInv, NEW w \in Workers, NEW pc \in Pcs, NEW e \in LeaveStates \cup {"any"}
    PROVE  /\ [Go(w, pc) EXCEPT !.exp = e] \in Places
           /\ [Go(w, pc) EXCEPT !.exp = e].pc = pc /\ [Go(w, pc) EXCEPT !.exp = e].got = None
<1> DEFINE g == Go(w, pc)
<1>1. g \in Places /\ g.pc = pc /\ g.got = None
  BY PlacesTyped
<1> HIDE DEF g
<1>2. /\ [g EXCEPT !.exp = e] \in Places
      /\ [g EXCEPT !.exp = e].pc = pc /\ [g EXCEPT !.exp = e].got = None
  BY <1>1 DEF Places
<1> QED BY <1>2 DEF g

(* A call that is made in an expected state of the leave.                  *)
LEMMA CallsExpecting ==
    ASSUME ConversionInv, NEW w, Acting(w), wk[w].pc # "verify", NEW op \in Ops,
           NEW id \in PtoIds \cup {None}, NEW e \in LeaveStates \cup {"any"}
    PROVE  /\ [Call(w, op, id) EXCEPT !.exp = e] \in Places
           /\ [Call(w, op, id) EXCEPT !.exp = e].pc = "sent"
           /\ [Call(w, op, id) EXCEPT !.exp = e].got = None
           /\ [Call(w, op, id) EXCEPT !.exp = e].op = op
           /\ [Call(w, op, id) EXCEPT !.exp = e].id = id
<1> DEFINE c == Call(w, op, id)
<1>1. c \in Places /\ c.pc = "sent" /\ c.got = None /\ c.op = op /\ c.id = id
  BY CallIs
<1> HIDE DEF c
<1>2. /\ [c EXCEPT !.exp = e] \in Places /\ [c EXCEPT !.exp = e].pc = "sent"
      /\ [c EXCEPT !.exp = e].got = None /\ [c EXCEPT !.exp = e].op = op
      /\ [c EXCEPT !.exp = e].id = id
  BY <1>1 DEF Places
<1> QED BY <1>2 DEF c

(* It is confirmed and approved, step by step.                             *)
LEMMA ApprovePtoKeeps ==
    ASSUME ConversionInv, NEW w \in Workers, ApprovePto(w)
    PROVE  ConversionInv'
<1>1. /\ Acting(w) /\ wk[w].pc = "work" /\ wk[w] \in Places /\ req.owner = w
      /\ Row(req) /\ req \in Requests /\ req.state = "converting" /\ req.step = "pto_created"
  BY ActingAt DEF ApprovePto, Pcs
<1>2. req.pto \in PtoIds
  BY <1>1 DEF Row, Requests
<1>3. CASE Stops(w, TRUE)
  BY <1>1, <1>3, StopsKeeps
<1>4. CASE Fail(w, TRUE)
  BY <1>1, <1>4, FailKeeps
<1>5. CASE Send(w, "confirm")
  <2> DEFINE k == Call(w, "confirm", req.pto)
  <2>1. k \in Places /\ k.pc = "sent" /\ k.got = None /\ k.op = "confirm" /\ k.id = req.pto
    <3>1. "confirm" \in Ops /\ wk[w].pc # "verify"
      BY <1>1 DEF Ops
    <3> QED BY <1>1, <1>2, <3>1, CallIs
  <2>2. CallOk(req, "confirm")
    BY <1>1, <1>2, PtoFacts DEF CallOk, Ops
  <2>3. Local(w, req, k)
    BY <1>5 DEF Send
  <2> HIDE DEF k
  <2> QED BY <1>1, <2>1, <2>2, <2>3, SendKeeps DEF Row
<1>6. CASE /\ pto[req.pto] \in {"confirm", "validate1"}
           /\ Local(w, req, [Call(w, "approve", req.pto) EXCEPT !.exp = pto[req.pto]])
  <2> DEFINE k == [Call(w, "approve", req.pto) EXCEPT !.exp = pto[req.pto]]
  <2>1. k \in Places /\ k.pc = "sent" /\ k.got = None /\ k.op = "approve" /\ k.id = req.pto
    <3>1. "approve" \in Ops /\ wk[w].pc # "verify" /\ pto[req.pto] \in LeaveStates \cup {"any"}
      BY <1>1, <1>6 DEF Ops, LeaveStates
    <3> QED BY <1>1, <1>2, <3>1, CallsExpecting
  <2>2. CallOk(req, "approve")
    BY <1>1, <1>2, PtoFacts DEF CallOk, Ops
  <2>3. Local(w, req, k)
    BY <1>6
  <2> HIDE DEF k
  <2> QED BY <1>1, <2>1, <2>2, <2>3, SendKeeps DEF Row
<1>7. CASE Local(w, [req EXCEPT !.step = "pto_approved"], Go(w, "work"))
  <2> DEFINE r == [req EXCEPT !.step = "pto_approved"]
             k == Go(w, "work")
  <2>1. r \in Requests /\ r.owner = w /\ r.state = "converting" /\ r.step = "pto_approved" /\ r.pto # None
    BY <1>1 DEF Requests, Steps, Row
  <2>2. k \in Places /\ k.pc = "work" /\ k.got = None
    BY PlacesTyped DEF Pcs
  <2>3. Local(w, r, k)
    BY <1>7
  <2> HIDE DEF r, k
  <2> QED BY <1>1, <2>1, <2>2, <2>3, ConversionGoesOn
<1>8. pto[req.pto] \in {"draft", "confirm", "validate1"} => pto[req.pto] # "validate"
  OBVIOUS
<1> QED BY <1>3, <1>4, <1>5, <1>6, <1>7 DEF ApprovePto, Preflight, Stops

(* Before it is finalized the day is read once more.                       *)
LEMMA FinalCheckKeeps ==
    ASSUME ConversionInv, NEW w \in Workers, FinalCheck(w)
    PROVE  ConversionInv'
<1>1. /\ Acting(w) /\ wk[w].pc = "work" /\ wk[w] \in Places /\ req.owner = w
      /\ Row(req) /\ req \in Requests /\ req.state = "converting" /\ req.step = "pto_approved"
  BY ActingAt DEF FinalCheck, Pcs
<1>2. CASE Stops(w, TRUE)
  BY <1>1, <1>2, StopsKeeps
<1>3. CASE Fail(w, TRUE)
  BY <1>1, <1>3, FailKeeps
<1>4. CASE ~Unsafe /\ pto[req.pto] = "validate" /\ Local(w, req, Go(w, "final"))
  <2>1. Go(w, "final") \in Places /\ Go(w, "final").pc = "final" /\ Go(w, "final").got = None
    BY PlacesTyped DEF Pcs
  <2>2. req.pto # None /\ Matching = {req.pto}
    BY <1>1, <1>4 DEF Row, Unsafe
  <2>3. MayLeave(w, req, Go(w, "final"))
    BY <1>1, <2>1, <2>2 DEF MayLeave, PlaceOk
  <2>4. Owes(req, Go(w, "final"))
    BY <1>1, <1>4, <2>1, <2>2 DEF Owes
  <2> QED BY <1>1, <1>4, <2>3, <2>4, LocalKeeps DEF Acting
<1> QED BY <1>2, <1>3, <1>4 DEF FinalCheck, Preflight, Stops

(* The compensation closes the PTO, unless it was approved.                *)
LEMMA ClosePtoKeeps ==
    ASSUME ConversionInv, NEW w \in Workers, ClosePto(w)
    PROVE  ConversionInv'
<1>1. /\ Acting(w) /\ wk[w].pc = "close" /\ wk[w] \in Places /\ req.owner = w
      /\ Row(req) /\ req \in Requests /\ req.state = "converting"
  BY ActingAt DEF ClosePto, Pcs
<1>2. CASE Review(w)
  BY <1>1, <1>2, ReviewKeeps
<1>3. CASE Local(w, req, [Go(w, "restore") EXCEPT !.exp = "any"])
  <2> DEFINE k == [Go(w, "restore") EXCEPT !.exp = "any"]
  <2>1. k \in Places /\ k.pc = "restore" /\ k.got = None
    BY GoesExpecting DEF Pcs
  <2>2. Local(w, req, k)
    BY <1>3
  <2> HIDE DEF k
  <2> QED BY <1>1, <2>1, <2>2, ConversionGoesOn DEF Row
<1>4. ASSUME NEW i \in Matching, pto[i] \in Closable,
             Local(w, [req EXCEPT !.pto = i], Call(w, "close", i))
      PROVE  ConversionInv'
  <2> DEFINE r == [req EXCEPT !.pto = i]
             k == Call(w, "close", i)
  <2>0. i \in PtoIds
    BY DEF Matching
  <2>1. r \in Requests /\ r.owner = w /\ r.state = "converting" /\ r.step = req.step /\ r.pto = i
    BY <1>1, <2>0 DEF Requests
  <2>2. k \in Places /\ k.pc = "sent" /\ k.got = None /\ k.op = "close" /\ k.id = i
    <3>1. "close" \in Ops /\ wk[w].pc # "verify"
      BY <1>1 DEF Ops
    <3> QED BY <1>1, <2>0, <3>1, CallIs
  <2>3. Local(w, r, k)
    BY <1>4
  <2>4. Calm => r.step # "not_started"
    BY <1>1, <2>1 DEF ConversionInv, LeavesInv
  <2>5. i # None
    BY <2>0, PtoFacts
  <2> HIDE DEF r, k
  <2>6. CallOk(r, "close")
    BY <2>1, <2>5 DEF CallOk, Ops
  <2> QED BY <1>1, <1>4, <2>1, <2>2, <2>3, <2>4, <2>5, <2>6, SendKeeps
<1>5. ASSUME NEW i \in Matching,
             Ends(w, [req EXCEPT !.pto = i, !.state = "needs_review"])
      PROVE  ConversionInv'
  <2> DEFINE r == [req EXCEPT !.pto = i, !.state = "needs_review"]
             q == [r EXCEPT !.owner = Nobody]
  <2>0. i \in PtoIds /\ i # None
    BY PtoFacts DEF Matching
  <2>1. r \in Requests /\ r.state = "needs_review" /\ r.pto # None /\ q.state = "needs_review"
    BY <1>1, <2>0 DEF Requests
  <2>2. Row(r) /\ Ends(w, r)
    BY <1>5, <2>1 DEF Row
  <2>3. Owes(q, Free)
    BY <2>1 DEF Owes, Free
  <2> HIDE DEF r
  <2> QED BY <1>1, <2>2, <2>3, EndsKeeps
<1> QED BY <1>2, <1>3, <1>4, <1>5 DEF ClosePto

(* Then it puts the Absence back.                                          *)
LEMMA RestoreOriginalKeeps ==
    ASSUME ConversionInv, NEW w \in Workers, RestoreOriginal(w)
    PROVE  ConversionInv'
<1>1. /\ Acting(w) /\ wk[w].pc = "restore" /\ wk[w] \in Places /\ req.owner = w
      /\ Row(req) /\ req \in Requests /\ req.state = "converting"
  BY ActingAt DEF RestoreOriginal, Pcs
<1>2. CASE Review(w)
  BY <1>1, <1>2, ReviewKeeps
<1>3. CASE Matching = {} /\ orig \in {"none", "validate"} /\ ToPending(w)
  BY <1>1, <1>3, ToPendingKeeps DEF Terminal
<1>4. CASE Send(w, "reset")
  <2>1. req.pto \in PtoIds \cup {None} /\ CallOk(req, "reset")
    BY <1>1 DEF CallOk, Ops, Requests
  <2> DEFINE k == Call(w, "reset", req.pto)
  <2>2. k \in Places /\ k.pc = "sent" /\ k.got = None /\ k.op = "reset"
    <3>1. "reset" \in Ops /\ wk[w].pc # "verify"
      BY <1>1 DEF Ops
    <3> QED BY <1>1, <2>1, <3>1, CallIs
  <2>3. Local(w, req, k)
    BY <1>4 DEF Send
  <2> HIDE DEF k
  <2> QED BY <1>1, <2>1, <2>2, <2>3, SendKeeps DEF Row
<1>5. CASE /\ orig \in {"confirm", "validate1"}
           /\ Local(w, req, [Call(w, "restore", None) EXCEPT !.exp = orig])
  <2> DEFINE k == [Call(w, "restore", None) EXCEPT !.exp = orig]
  <2>1. k \in Places /\ k.pc = "sent" /\ k.got = None /\ k.op = "restore"
    <3>1. "restore" \in Ops /\ wk[w].pc # "verify" /\ orig \in LeaveStates \cup {"any"}
      BY <1>1, <1>5 DEF Ops, LeaveStates
    <3> QED BY <1>1, <3>1, CallsExpecting
  <2>2. CallOk(req, "restore")
    BY <1>1 DEF CallOk, Ops
  <2>3. Local(w, req, k)
    BY <1>5
  <2> HIDE DEF k
  <2> QED BY <1>1, <2>1, <2>2, <2>3, SendKeeps DEF Row
<1> QED BY <1>2, <1>3, <1>4, <1>5 DEF RestoreOriginal, HasOriginal

(* The conversion goes on with the leave in a state it expects.            *)
LEMMA ExpectingKeeps ==
    ASSUME ConversionInv, NEW w, Acting(w), req.state = "converting",
           NEW pc \in {"work", "restore"}, NEW e \in LeaveStates \cup {"any"},
           Local(w, req, [Go(w, pc) EXCEPT !.exp = e])
    PROVE  ConversionInv'
<1> DEFINE k == [Go(w, pc) EXCEPT !.exp = e]
<1>1. k \in Places /\ k.pc = pc /\ k.got = None
  BY GoesExpecting DEF Pcs, Acting
<1>2. Row(req)
  BY PtoFacts
<1>3. Local(w, req, k)
  OBVIOUS
<1> HIDE DEF k
<1> QED BY <1>1, <1>2, <1>3, ConversionGoesOn DEF Row, Acting

(* A step is done and recorded.                                            *)
LEMMA RecordsKeeps ==
    ASSUME ConversionInv, NEW w, Acting(w), req.state = "converting",
           NEW s \in {"absence_refused", "pto_approved"},
           s = "pto_approved" => req.pto # None,
           Local(w, [req EXCEPT !.step = s], Go(w, "work"))
    PROVE  ConversionInv'
<1> DEFINE r == [req EXCEPT !.step = s]
           k == Go(w, "work")
<1>1. r \in Requests /\ r.owner = w /\ r.state = "converting" /\ r.step = s /\ r.pto = req.pto
  BY PtoFacts DEF Requests, Steps, Acting
<1>2. k \in Places /\ k.pc = "work" /\ k.got = None
  BY PlacesTyped DEF Pcs, Acting
<1>3. Local(w, r, k)
  OBVIOUS
<1> HIDE DEF r, k
<1> QED BY <1>1, <1>2, <1>3, ConversionGoesOn

(* What a call was meant to do is read before the next step.               *)
LEMMA VerifyCallKeeps ==
    ASSUME ConversionInv, NEW w \in Workers, VerifyCall(w)
    PROVE  ConversionInv'
<1>1. /\ Acting(w) /\ wk[w].pc = "verify" /\ wk[w] \in Places /\ req.owner = w
      /\ Row(req) /\ req \in Requests /\ req.state = "converting" /\ CallOk(req, wk[w].op)
  BY ActingAt DEF VerifyCall, Pcs, PlaceOk
<1>2. /\ orig \in LeaveStates \cup {"none"}
      /\ req.pto # None => req.pto \in PtoIds /\ pto[req.pto] \in LeaveStates \cup {"none"}
  BY <1>1, PtoFacts DEF Requests, ConversionInv, PtoTypeOK
<1>3. CASE Review(w)
  BY <1>1, <1>3, ReviewKeeps
<1>4. CASE Fail(w, TRUE)
  BY <1>1, <1>4, FailKeeps
<1>5. CASE wk[w].op = "refuse" /\ orig = "validate" /\ ToPending(w)
  <2>1. Calm => Matching = {} /\ orig \notin Terminal
    BY <1>1, <1>5 DEF CallOk, ConversionInv, LeavesInv, Terminal
  <2> QED BY <1>1, <1>5, <2>1, ToPendingKeeps
<1>6. CASE Local(w, [req EXCEPT !.step = "absence_refused"], Go(w, "work"))
  BY <1>1, <1>6, RecordsKeeps
<1>7. CASE wk[w].op = "approve" /\ Local(w, [req EXCEPT !.step = "pto_approved"], Go(w, "work"))
  BY <1>1, <1>7, RecordsKeeps DEF CallOk
<1>8. CASE wk[w].got # None /\ Created(w, wk[w].got)
  <2>1. wk[w].got \in PtoIds
    BY <1>1, <1>8 DEF Places
  <2> QED BY <1>1, <1>8, <2>1, CreatedKeeps
<1>9. CASE Cardinality(Matching) = 1 /\ Created(w, CHOOSE i \in Matching : TRUE)
  <2>1. Matching # {}
    BY <1>9, FS_EmptySet
  <2>2. (CHOOSE i \in Matching : TRUE) \in PtoIds
    BY <2>1 DEF Matching
  <2> QED BY <1>1, <1>9, <2>2, CreatedKeeps
<1>10. CASE /\ wk[w].op \in {"confirm", "approve"}
            /\ pto[req.pto] \in {"confirm", "validate1", "validate"}
            /\ Local(w, req, [Go(w, "work") EXCEPT !.exp = pto[req.pto]])
  <2>1. pto[req.pto] \in LeaveStates \cup {"any"}
    BY <1>10 DEF LeaveStates
  <2> QED BY <1>1, <1>10, <2>1, ExpectingKeeps
<1>11. CASE Local(w, req, [Go(w, "restore") EXCEPT !.exp = "any"])
  BY <1>1, <1>11, ExpectingKeeps
<1>12. CASE /\ orig \in {"confirm", "validate1", "validate"}
            /\ Local(w, req, [Go(w, "restore") EXCEPT !.exp = orig])
  <2>1. orig \in LeaveStates \cup {"any"}
    BY <1>12 DEF LeaveStates
  <2> QED BY <1>1, <1>12, <2>1, ExpectingKeeps
<1>13. Advanced(wk[w].exp) \subseteq {"validate1", "validate"}
  BY DEF Advanced
<1>14. req.pto # None \/ wk[w].op \notin {"confirm", "approve"}
  BY <1>1 DEF CallOk
<1> HIDE DEF Advanced
<1> QED
  BY <1>3, <1>4, <1>5, <1>6, <1>7, <1>8, <1>9, <1>10, <1>11, <1>12, <1>13, <1>14
  DEF VerifyCall, Reserved

(* Nothing was found, or it no longer holds: the request stays as it is.   *)
LEMMA StaysKeeps ==
    ASSUME ConversionInv, NEW w, Acting(w), req.state \in {"converting", "needs_review"},
           Ends(w, req)
    PROVE  ConversionInv'
<1> DEFINE q == [req EXCEPT !.owner = Nobody]
<1>1. Row(req) /\ req \in Requests
  BY PtoFacts
<1>2. q.state = req.state /\ q.step = req.step /\ q.pto = req.pto
  BY <1>1 DEF Requests
<1>3. Calm => (req.state = "converting" /\ req.step = "not_started" =>
                    Matching = {} /\ req.pto = None)
  BY DEF ConversionInv, LeavesInv
<1>4. Calm => Owes(q, Free)
  BY <1>2, <1>3 DEF Owes, Free
<1> QED BY <1>1, <1>4, EndsKeeps

(* The reconciler takes the one approved PTO of the day.                   *)
LEMMA AdoptExternalKeeps ==
    ASSUME ConversionInv, NEW w \in Workers, AdoptExternal(w)
    PROVE  ConversionInv'
<1>1. /\ Acting(w) /\ wk[w].pc = "review" /\ wk[w] \in Places /\ req.owner = w
      /\ Row(req) /\ req \in Requests /\ req.state = "needs_review"
  BY ActingAt DEF AdoptExternal, Pcs, PlaceOk
<1>2. CASE Ends(w, req)
  BY <1>1, <1>2, StaysKeeps
<1>3. ASSUME NEW i \in Validated, Local(w, [req EXCEPT !.pto = i], Go(w, "adopted"))
      PROVE  ConversionInv'
  <2> DEFINE r == [req EXCEPT !.pto = i]
             k == Go(w, "adopted")
  <2>1. i \in PtoIds /\ i # None
    BY PtoFacts DEF Validated, Matching
  <2>2. r \in Requests /\ r.owner = w /\ r.state = "needs_review" /\ r.pto # None
    BY <1>1, <2>1 DEF Requests
  <2>3. k \in Places /\ k.pc = "adopted" /\ k.got = None
    BY PlacesTyped DEF Pcs
  <2>4. Local(w, r, k)
    BY <1>3
  <2> HIDE DEF r, k
  <2>5. Row(r)
    BY <2>2 DEF Row
  <2>6. MayLeave(w, r, k)
    BY <2>2, <2>3, <2>5 DEF MayLeave, PlaceOk
  <2>7. Owes(r, k)
    BY <2>2, <2>3 DEF Owes
  <2> QED BY <1>1, <2>4, <2>6, <2>7, LocalKeeps DEF Acting
<1> QED BY <1>2, <1>3 DEF AdoptExternal

(* It reads it again before it finalizes.                                  *)
LEMMA VerifyExternalKeeps ==
    ASSUME ConversionInv, NEW w \in Workers, VerifyExternal(w)
    PROVE  ConversionInv'
<1>1. /\ Acting(w) /\ wk[w].pc = "adopted" /\ wk[w] \in Places /\ req.owner = w
      /\ Row(req) /\ req \in Requests /\ req.state = "needs_review"
  BY ActingAt DEF VerifyExternal, Pcs, PlaceOk
<1>2. CASE Ends(w, req)
  BY <1>1, <1>2, StaysKeeps
<1>3. CASE req.pto \in Validated /\ Local(w, req, Go(w, "final"))
  <2> DEFINE k == Go(w, "final")
  <2>1. req.pto # None /\ Matching = {req.pto} /\ pto[req.pto] = "validate"
    BY <1>3, PtoFacts DEF Validated, Matching
  <2>2. k \in Places /\ k.pc = "final" /\ k.got = None
    BY PlacesTyped DEF Pcs
  <2>3. Local(w, req, k)
    BY <1>3
  <2> HIDE DEF k
  <2>4. MayLeave(w, req, k)
    BY <1>1, <2>1, <2>2 DEF MayLeave, PlaceOk
  <2>5. Owes(req, k)
    BY <1>1, <2>1, <2>2 DEF Owes
  <2> QED BY <1>1, <2>3, <2>4, <2>5, LocalKeeps DEF Acting
<1> QED BY <1>2, <1>3 DEF VerifyExternal

(* Odoo cannot be read.                                                    *)
LEMMA UnreadableKeeps ==
    ASSUME ConversionInv, NEW w \in Workers, Unreadable(w)
    PROVE  ConversionInv'
<1>1. /\ req.owner = w /\ wk[w].pc \notin {"idle", "sent", "final"} /\ wk[w] \in Places
      /\ Row(req) /\ req \in Requests /\ PlaceOk(req, wk[w])
  BY PtoFacts DEF Unreadable
<1>2. ptoFaults' \in 0..MaxPtoFaults
  <2>1. PtoFault
    BY DEF Unreadable
  <2> QED BY <2>1, PtoAssumption DEF PtoFault, ConversionInv, PtoTypeOK
<1>3. Free \in Places /\ Free.pc = "idle" /\ Free.got = None
  BY PlacesTyped DEF Pcs
<1>4. CASE wk[w].pc \in {"review", "adopted"}
  <2> DEFINE q == [req EXCEPT !.owner = Nobody]
  <2>1. q \in Requests /\ q.owner = Nobody /\ q.state = "needs_review"
        /\ q.step = req.step /\ q.pto = req.pto
    BY <1>1, <1>4 DEF Requests, PlaceOk
  <2>2. Moves(w, q, Free)
    BY <1>2, <1>4 DEF Unreadable, Moves
  <2> HIDE DEF q
  <2>3. MayLeave(w, q, Free)
    BY <1>1, <1>3, <2>1 DEF MayLeave, Row
  <2>4. Owes(q, Free)
    BY <1>3, <2>1 DEF Owes
  <2> QED BY <1>1, <2>2, <2>3, <2>4, MovesKeeps
<1>5. ASSUME NEW p \in BOOLEAN,
             Moves(w, [req EXCEPT !.state = "needs_review", !.owner = Nobody, !.parked = p], Free)
      PROVE  ConversionInv'
  <2> DEFINE q == [req EXCEPT !.state = "needs_review", !.owner = Nobody, !.parked = p]
  <2>1. q \in Requests /\ q.owner = Nobody /\ q.state = "needs_review"
        /\ q.step = req.step /\ q.pto = req.pto
    BY <1>1 DEF Requests
  <2>2. Moves(w, q, Free)
    BY <1>5
  <2> HIDE DEF q
  <2>3. MayLeave(w, q, Free)
    BY <1>1, <1>3, <2>1 DEF MayLeave, Row
  <2>4. Owes(q, Free)
    BY <1>3, <2>1 DEF Owes
  <2> QED BY <1>1, <2>2, <2>3, <2>4, MovesKeeps
<1>6. ASSUME NEW r, r = IF wk[w].got = None THEN req ELSE [req EXCEPT !.pto = wk[w].got],
             Compensates(w, wk[w].post), Moves(w, r, Go(w, "close"))
      PROVE  ConversionInv'
  <2> DEFINE k == Go(w, "close")
  <2>1. k \in Places /\ k.pc = "close" /\ k.got = None
    BY PlacesTyped DEF Pcs
  <2>2. r \in Requests /\ r.owner = w /\ r.state = "converting" /\ r.step = req.step
        /\ (wk[w].got = None => r = req) /\ (wk[w].got # None => r.pto # None)
    BY <1>1, <1>6 DEF Compensates, Requests, Places
  <2>3. wk[w].got # None => req.step = "absence_refused"
    BY <1>1 DEF ConversionInv, RowInv, PlaceOk, CallOk
  <2>4. Moves(w, r, k)
    BY <1>6
  <2> HIDE DEF k
  <2>5. Row(r)
    BY <1>1, <2>2 DEF Row
  <2>6. MayLeave(w, r, k)
    BY <2>1, <2>2, <2>5 DEF MayLeave, PlaceOk
  <2>7. Calm => Owes(r, k)
    BY <2>1, <2>2, <2>3 DEF Owes, ConversionInv, LeavesInv
  <2> QED BY <1>1, <2>4, <2>6, <2>7, MovesKeeps
<1> QED BY <1>2, <1>4, <1>5, <1>6 DEF Unreadable, Moves, Parked

(* The transaction that ends a conversion.                                 *)
LEMMA FinalizeApprovedKeeps ==
    ASSUME ConversionInv, NEW w \in Workers, FinalizeApproved(w)
    PROVE  ConversionInv'
<1>1. /\ Acting(w) /\ wk[w].pc = "final" /\ wk[w] \in Places /\ req.owner = w
      /\ Row(req) /\ req \in Requests /\ PlaceOk(req, wk[w]) /\ req.pto # None
      /\ req.state \in {"converting", "needs_review"}
  BY ActingAt DEF FinalizeApproved, Pcs, PlaceOk
<1>2. CASE ~LinkHeld
  <2> DEFINE q == [req EXCEPT !.owner = Nobody]
  <2>1. Local(w, q, Free)
    BY <1>2 DEF FinalizeApproved, Local
  <2>2. q \in Requests /\ q.owner = Nobody /\ q.state = req.state /\ q.step = req.step /\ q.pto = req.pto
    BY <1>1 DEF Requests
  <2>3. Free.pc = "idle"
    BY DEF Free
  <2>4. Row(q)
    BY <1>1, <2>2 DEF Row
  <2>7. Calm => (req.state = "converting" /\ req.step = "not_started" =>
                    Matching = {} /\ req.pto = None)
    BY DEF ConversionInv, LeavesInv
  <2> HIDE DEF q
  <2>5. MayLeave(w, q, Free)
    BY <2>2, <2>4, PlacesTyped DEF MayLeave, Acting, Pcs
  <2>6. Calm => Owes(q, Free)
    BY <1>1, <2>2, <2>3, <2>7 DEF Owes
  <2> QED BY <1>1, <2>1, <2>5, <2>6, LocalKeeps DEF Acting
<1>3. CASE LinkHeld
  <2> DEFINE r == [req EXCEPT !.state = "approved", !.step = "pto_approved", !.owner = Nobody]
  <2>1. /\ req' = r /\ link' = req.pto /\ wk' = [wk EXCEPT ![w] = Free]
        /\ UNCHANGED <<orig, pto, days, open, late, slow, ptoFaults, outside, submits>>
    BY <1>3 DEF FinalizeApproved
  <2>2. r \in Requests /\ r.state = "approved" /\ r.pto = req.pto /\ r.owner = Nobody
    BY <1>1 DEF Requests, Steps
  <2>3. DOMAIN wk' = Workers /\ wk'[w] = Free /\ \A v \in Workers \ {w} : wk'[v] = wk[v]
    BY <2>1, PtoFacts
  <2>4. Free \in Places /\ Free.pc = "idle" /\ Free.got = None
    BY PlacesTyped DEF Pcs
  <2> HIDE DEF r
  <2>5. PtoTypeOK' /\ OneLeave'
    <3>1. req.pto \in PtoIds
      BY <1>1 DEF Requests
    <3> QED BY <2>1, <2>2, <2>3, <2>4, <3>1, PtoFacts DEF ConversionInv, PtoTypeOK, OneLeave, Matching
  <2>6. RowInv'
    BY <1>1, <2>1, <2>2, <2>3, <2>4 DEF ConversionInv, RowInv
  <2>7. ASSUME Calm' PROVE CallsInv' /\ LeavesInv'
    <3>1. /\ Calm /\ late = {} /\ \A v \in Workers : wk[v].pc = "sent" => v = w
          /\ Matching = {req.pto} /\ pto[req.pto] = "validate" /\ orig # "cancel"
          /\ orig \in {"none"} \cup Terminal
      <4>1. Calm
        BY <2>1, <2>7 DEF Calm
      <4>2. late = {} /\ \A v \in Workers : wk[v].pc = "sent" => v = w
        BY <1>1, <4>1, OwnerAlone
      <4>3. w # Nobody
        BY PtoFacts
      <4>4. Matching = {req.pto} /\ pto[req.pto] = "validate" /\ orig # "cancel"
        BY <1>1, <4>1, <4>3 DEF ConversionInv, LeavesInv
      <4>5. orig \in {"none"} \cup Terminal
        BY <4>4 DEF ConversionInv, OneLeave
      <4> QED BY <4>1, <4>2, <4>4, <4>5
    <3>2. CallsInv'
      BY <2>1, <2>3, <2>4, <3>1 DEF CallsInv
    <3>3. Matching' = Matching
      BY <2>1 DEF Matching
    <3> QED BY <1>1, <2>1, <2>2, <3>1, <3>2, <3>3
            DEF LeavesInv, PendingNotRefused, ApprovedIsOneDay, Terminal
  <2> QED BY <2>3, <2>5, <2>6, <2>7 DEF ConversionInv
<1> QED BY <1>2, <1>3

(* What one effect of a call changes: the Absence, or one PTO.             *)
LEMMA EffectForms ==
    ASSUME NEW op, NEW id, NEW e \in Effects(op, id)
    PROVE  \/ \E s \in OrigEffect(op) : e.orig = s /\ e.pto = pto /\ e.new = None
           \/ \E i \in PtoIds : \E s \in PtoEffect(op, i) :
                 /\ e.orig = orig /\ e.pto = [pto EXCEPT ![i] = s] /\ e.new = i
                 /\ op = "create" \/ i = id
BY DEF Effects

(* Odoo runs a call, or refuses to.                                        *)
Runs(op, id) ==
    UNCHANGED <<orig, pto>> \/ \E e \in Effects(op, id) : orig' = e.orig /\ pto' = e.pto

(* What a call does to the leaves of the day.                              *)
LEMMA RunFacts ==
    ASSUME ConversionInv, NEW op, NEW id, Runs(op, id)
    PROVE  /\ orig' \in LeaveStates \cup {"none"}
           /\ pto' \in [PtoIds -> LeaveStates \cup {"none"}]
           /\ OneLeave'
           /\ orig # "cancel" => orig' # "cancel"
           /\ op \in {"refuse", "reset", "restore"} => pto' = pto
           /\ op # "close" \/ (id \in PtoIds /\ pto[id] \in Closable) => PaidStep
<1>1. /\ orig \in LeaveStates \cup {"none"} /\ pto \in [PtoIds -> LeaveStates \cup {"none"}]
      /\ OneLeave
  BY DEF ConversionInv, PtoTypeOK
<1>2. CASE UNCHANGED <<orig, pto>>
  <2>1. Matching' = Matching
    BY <1>2 DEF Matching
  <2> QED BY <1>1, <1>2, <2>1 DEF OneLeave, PaidStep
<1>3. ASSUME NEW s \in OrigEffect(op), orig' = s, pto' = pto
      PROVE  /\ orig' \in LeaveStates \cup {"none"} /\ orig' # "cancel" /\ OneLeave'
             /\ op \in {"refuse", "reset", "restore"}
  <2>1. Matching' = Matching
    BY <1>3 DEF Matching
  <2>2. \/ op = "refuse" /\ s = "refuse"
        \/ op = "reset" /\ s = "confirm" /\ DayIsFree
        \/ op = "restore" /\ s \in {"validate1", "validate"} /\ orig \in {"confirm", "validate1"}
    BY DEF OrigEffect, Approvals
  <2>3. s = "refuse" \/ Matching = {}
    BY <1>1, <2>2 DEF OneLeave, DayIsFree, Terminal
  <2> QED BY <1>1, <1>3, <2>1, <2>2, <2>3 DEF OneLeave, LeaveStates, Terminal
<1>4. ASSUME NEW i \in PtoIds, NEW s \in PtoEffect(op, i), op = "create" \/ i = id,
             orig' = orig, pto' = [pto EXCEPT ![i] = s]
      PROVE  /\ pto' \in [PtoIds -> LeaveStates \cup {"none"}] /\ OneLeave'
             /\ op \notin {"refuse", "reset", "restore"}
             /\ op # "close" \/ (id \in PtoIds /\ pto[id] \in Closable) => PaidStep
  <2>1. \/ op = "create" /\ DayIsFree /\ pto[i] = "none" /\ s \in {"draft", "confirm"}
        \/ op = "confirm" /\ pto[i] = "draft" /\ s \in {"confirm", "validate"}
        \/ op = "approve" /\ pto[i] \in {"confirm", "validate1"} /\ s \in {"validate1", "validate"}
        \/ op = "close" /\ i \in Matching /\ s = "refuse"
    BY DEF PtoEffect, Approvals
  <2>2. s \in LeaveStates
    BY <2>1 DEF LeaveStates, Terminal
  <2>3. /\ pto' \in [PtoIds -> LeaveStates \cup {"none"}]
        /\ pto'[i] = s /\ \A j \in PtoIds \ {i} : pto'[j] = pto[j]
    BY <1>1, <1>4, <2>2
  <2>4. Matching' \subseteq Matching \cup {i}
    BY <2>3 DEF Matching
  <2>5. i \in Matching \/ (Matching = {} /\ orig \in {"none"} \cup Terminal)
    BY <2>1 DEF Matching, DayIsFree, Terminal
  <2>6. OneLeave'
    BY <1>1, <1>4, <2>4, <2>5 DEF OneLeave
  <2>7. op # "close" \/ (id \in PtoIds /\ pto[id] \in Closable) => PaidStep
    BY <1>4, <2>1, <2>3 DEF PaidStep, Closable
  <2> QED BY <2>1, <2>3, <2>6, <2>7
<1>5. ASSUME NEW e \in Effects(op, id), orig' = e.orig, pto' = e.pto
      PROVE  \/ \E s \in OrigEffect(op) : orig' = s /\ pto' = pto
             \/ \E i \in PtoIds : \E s \in PtoEffect(op, i) :
                   orig' = orig /\ pto' = [pto EXCEPT ![i] = s] /\ (op = "create" \/ i = id)
  <2>1. CASE \E s \in OrigEffect(op) : e.orig = s /\ e.pto = pto /\ e.new = None
    BY <1>5, <2>1
  <2>2. CASE \E i \in PtoIds : \E s \in PtoEffect(op, i) :
                 /\ e.orig = orig /\ e.pto = [pto EXCEPT ![i] = s] /\ e.new = i
                 /\ op = "create" \/ i = id
    <3>1. PICK i \in PtoIds : \E s \in PtoEffect(op, i) :
                 /\ e.orig = orig /\ e.pto = [pto EXCEPT ![i] = s] /\ e.new = i
                 /\ op = "create" \/ i = id
      BY <2>2
    <3>2. PICK s \in PtoEffect(op, i) :
                 /\ e.orig = orig /\ e.pto = [pto EXCEPT ![i] = s] /\ e.new = i
                 /\ op = "create" \/ i = id
      BY <3>1
    <3>3. orig' = orig /\ pto' = [pto EXCEPT ![i] = s] /\ (op = "create" \/ i = id)
      BY <1>5, <3>2
    <3> QED BY <3>3
  <2> QED BY <2>1, <2>2, EffectForms
<1>6. CASE \E s \in OrigEffect(op) : orig' = s /\ pto' = pto
  <2>1. PaidStep
    BY <1>6 DEF PaidStep
  <2> QED BY <1>1, <1>3, <1>6, <2>1
<1>7. CASE \E i \in PtoIds : \E s \in PtoEffect(op, i) :
              orig' = orig /\ pto' = [pto EXCEPT ![i] = s] /\ (op = "create" \/ i = id)
  <2>1. PICK i \in PtoIds : \E s \in PtoEffect(op, i) :
              orig' = orig /\ pto' = [pto EXCEPT ![i] = s] /\ (op = "create" \/ i = id)
    BY <1>7
  <2>2. PICK s \in PtoEffect(op, i) :
              orig' = orig /\ pto' = [pto EXCEPT ![i] = s] /\ (op = "create" \/ i = id)
    BY <2>1
  <2> QED BY <1>1, <1>4, <2>2
<1> QED BY <1>2, <1>5, <1>6, <1>7 DEF Runs

(* A call that ended leaves the request as it is: it is being converted.   *)
LEMMA RunKeeps ==
    ASSUME ConversionInv, Calm, NEW op, NEW id, Runs(op, id), CallStands(op, id), req' = req,
           req'.owner # Nobody => wk'[req'.owner].pc # "final"
    PROVE  LeavesInv'
<1>1. LeavesInv /\ req.state = "converting" /\ CallOk(req, op) /\ op \in Ops \ {"none"}
  BY DEF ConversionInv, CallStands, CallOk
<1>2. orig' # "cancel"
  BY <1>1, RunFacts DEF LeavesInv
<1>3. ASSUME req.step = "not_started" PROVE Matching' = {} /\ req.pto = None
  <2>1. Matching = {} /\ req.pto = None
    BY <1>1, <1>3 DEF LeavesInv
  <2>2. op \in {"refuse", "reset", "restore"}
    BY <1>1, <1>3, <2>1 DEF CallOk, Ops
  <2>3. pto' = pto
    BY <2>2, RunFacts
  <2> QED BY <2>1, <2>3 DEF Matching
<1> QED BY <1>1, <1>2, <1>3 DEF LeavesInv, PendingNotRefused, ApprovedIsOneDay

(* The caller goes on to read what its call did.                           *)
LEMMA AnswerKeeps ==
    ASSUME ConversionInv, NEW w \in Workers, wk[w].pc = "sent", NEW k \in Places,
           k.pc = "verify", k.op = wk[w].op, k.got # None => k.op = "create",
           wk' = [wk EXCEPT ![w] = k], Runs(wk[w].op, wk[w].id),
           UNCHANGED <<req, link, days, open, outside, submits>>,
           ptoFaults' \in 0..MaxPtoFaults, late' \subseteq Calls, slow' \in BOOLEAN,
           Calm' => Calm /\ late' = late
    PROVE  ConversionInv'
<1>1. DOMAIN wk' = Workers /\ wk'[w] = k /\ \A v \in Workers \ {w} : wk'[v] = wk[v]
  BY PtoFacts
<1>2. PtoTypeOK' /\ OneLeave'
  <2>1. \A v \in Workers : wk'[v] \in Places
    BY <1>1, PtoFacts
  <2> QED BY <1>1, <2>1, RunFacts DEF ConversionInv, PtoTypeOK
<1>3. RowInv'
  <2>1. req.owner = w => PlaceOk(req, k)
    BY PtoFacts DEF PlaceOk
  <2> QED BY <1>1, <2>1 DEF ConversionInv, RowInv
<1>4. ASSUME Calm' PROVE CallsInv' /\ LeavesInv'
  <2>1. Calm /\ CallsInv /\ req.owner = w /\ CallStands(wk[w].op, wk[w].id)
    BY <1>4 DEF ConversionInv, CallsInv
  <2>2. late' = {} /\ \A v \in Workers : wk[v].pc = "sent" => v = w
    BY <1>4, <2>1, OwnerAlone
  <2>3. CallsInv'
    BY <1>1, <2>2 DEF CallsInv
  <2>4. LeavesInv'
    BY <1>1, <2>1, RunKeeps
  <2> QED BY <2>3, <2>4
<1> QED BY <1>1, <1>2, <1>3, <1>4 DEF ConversionInv

(* The new leave an effect names.                                          *)
LEMMA EffectNew ==
    ASSUME NEW op, NEW id, NEW e \in Effects(op, id)
    PROVE  e.new \in PtoIds \cup {None}
<1>1. CASE e \in {[orig |-> s, pto |-> pto, new |-> None] : s \in OrigEffect(op)}
  BY <1>1
<1>2. CASE \E i \in PtoIds :
              e \in {[orig |-> orig, pto |-> [pto EXCEPT ![i] = s], new |-> i] :
                      s \in PtoEffect(op, i)}
  BY <1>2
<1> QED BY <1>1, <1>2 DEF Effects

(* The answer tells nothing of the new leave.                              *)
LEMMA SilentAnswerKeeps ==
    ASSUME ConversionInv, NEW w \in Workers, wk[w].pc = "sent",
           wk' = [wk EXCEPT ![w].pc = "verify"], Runs(wk[w].op, wk[w].id),
           UNCHANGED <<req, link, days, open, outside, submits>>,
           ptoFaults' \in 0..MaxPtoFaults, late' \subseteq Calls, slow' \in BOOLEAN,
           Calm' => Calm /\ late' = late
    PROVE  ConversionInv'
<1> DEFINE k == [wk[w] EXCEPT !.pc = "verify", !.got = None]
<1>1. /\ wk[w] \in Places /\ wk[w].got = None
      /\ k \in Places /\ k.pc = "verify" /\ k.op = wk[w].op /\ k.got = None
  <2>1. None \in PtoIds \cup {None}
    OBVIOUS
  <2>2. wk[w] \in Places /\ wk[w].got = None
    BY PtoFacts DEF ConversionInv, RowInv
  <2>3. k \in Places /\ k.pc = "verify" /\ k.op = wk[w].op /\ k.got = None
    BY <2>2 DEF Places, Pcs
  <2> QED BY <2>2, <2>3
<1>2. k = [wk[w] EXCEPT !.pc = "verify"]
  BY <1>1 DEF Places
<1>3. wk' = [wk EXCEPT ![w] = k]
  BY <1>2
<1> HIDE DEF k
<1> QED BY <1>1, <1>3, AnswerKeeps

(* Odoo answers.                                                           *)
LEMMA LandKeeps ==
    ASSUME ConversionInv, NEW w \in Workers, Land(w)
    PROVE  ConversionInv'
<1>1. /\ wk[w].pc = "sent" /\ UNCHANGED <<req, link, days, open, late, slow, ptoFaults, outside, submits>>
      /\ ptoFaults' \in 0..MaxPtoFaults /\ late' \subseteq Calls /\ slow' \in BOOLEAN
      /\ Calm' => Calm
  BY DEF Land, ConversionInv, PtoTypeOK, Calm
<1>2. CASE wk' = [wk EXCEPT ![w].pc = "verify"] /\ UNCHANGED <<orig, pto>>
  <2>1. Runs(wk[w].op, wk[w].id)
    BY <1>2 DEF Runs
  <2> QED BY <1>1, <1>2, <2>1, SilentAnswerKeeps
<1>3. ASSUME NEW e \in Effects(wk[w].op, wk[w].id), orig' = e.orig, pto' = e.pto,
             wk' = [wk EXCEPT ![w].pc = "verify",
                              ![w].got = IF wk[w].op = "create" THEN e.new ELSE None]
      PROVE  ConversionInv'
  <2> DEFINE g == IF wk[w].op = "create" THEN e.new ELSE None
             k == [wk[w] EXCEPT !.pc = "verify", !.got = g]
  <2>1. e.new \in PtoIds \cup {None}
    BY EffectNew
  <2>2. g \in PtoIds \cup {None} /\ (g # None => wk[w].op = "create")
    BY <2>1
  <2>3. wk' = [wk EXCEPT ![w] = k]
    BY <1>3
  <2> HIDE DEF g
  <2>4. k \in Places /\ k.pc = "verify" /\ k.op = wk[w].op /\ (k.got # None => k.op = "create")
    <3>1. wk[w] \in Places
      BY PtoFacts
    <3>2. k \in Places /\ k.pc = "verify" /\ k.op = wk[w].op /\ k.got = g
      BY <2>2, <3>1 DEF Places, Pcs
    <3> QED BY <2>2, <3>2
  <2> HIDE DEF k
  <2>5. Runs(wk[w].op, wk[w].id)
    BY <1>3 DEF Runs
  <2> QED BY <1>1, <2>3, <2>4, <2>5, AnswerKeeps
<1> QED BY <1>2, <1>3 DEF Land

(* Faults are counted up to their bound.                                   *)
LEMMA FaultsTyped ==
    ASSUME ConversionInv, PtoFault
    PROVE  ptoFaults' \in 0..MaxPtoFaults
BY PtoAssumption DEF PtoFault, ConversionInv, PtoTypeOK

(* The three ways in which a call gets no answer.                          *)
LEMMA AnswerLostKeeps ==
    ASSUME ConversionInv, NEW w \in Workers, AnswerLost(w)
    PROVE  ConversionInv'
<1>1. Effects("create", None) = Effects("create", wk[w].id)
  BY DEF Effects, OrigEffect, PtoEffect
<1>2. Runs(wk[w].op, wk[w].id)
  BY <1>1 DEF AnswerLost, Runs
<1>3. late' \subseteq Calls /\ slow' \in BOOLEAN /\ (Calm' => Calm /\ late' = late)
  BY DEF AnswerLost, ConversionInv, PtoTypeOK, Calm
<1> QED BY <1>2, <1>3, FaultsTyped, SilentAnswerKeeps DEF AnswerLost

(* Odoo refuses the call.                                                  *)
LEMMA CallFailsKeeps ==
    ASSUME ConversionInv, NEW w \in Workers, CallFails(w)
    PROVE  ConversionInv'
<1>1. Runs(wk[w].op, wk[w].id)
  BY DEF CallFails, Runs
<1>2. late' \subseteq Calls /\ slow' \in BOOLEAN /\ (Calm' => Calm /\ late' = late)
  BY DEF CallFails, ConversionInv, PtoTypeOK, Calm
<1> QED BY <1>1, <1>2, FaultsTyped, SilentAnswerKeeps DEF CallFails

(* The caller no longer waits.                                             *)
LEMMA GiveUpKeeps ==
    ASSUME ConversionInv, NEW w \in Workers, GiveUp(w)
    PROVE  ConversionInv'
<1>1. Runs(wk[w].op, wk[w].id)
  BY DEF GiveUp, Runs
<1>2. [op |-> wk[w].op, id |-> wk[w].id] \in Calls
  BY PtoFacts DEF Places, Calls
<1>3. late' \subseteq Calls /\ slow' \in BOOLEAN /\ ~Calm'
  BY <1>2 DEF GiveUp, ConversionInv, PtoTypeOK, Calm
<1> QED BY <1>1, <1>3, FaultsTyped, SilentAnswerKeeps DEF GiveUp

(* The call of a caller that is gone ends.                                 *)
LEMMA LandLateKeeps ==
    ASSUME ConversionInv, LandLate
    PROVE  ConversionInv'
<1>1. PICK c \in late : /\ late' = late \ {c}
                        /\ \/ UNCHANGED <<orig, pto>>
                           \/ \E e \in Effects(c.op, c.id) : orig' = e.orig /\ pto' = e.pto
  BY DEF LandLate
<1>2. UNCHANGED <<req, link, days, open, wk, slow, ptoFaults, outside, submits>>
  BY DEF LandLate
<1>3. Runs(c.op, c.id)
  BY <1>1 DEF Runs
<1>4. PtoTypeOK' /\ OneLeave' /\ DOMAIN wk' = Workers
  BY <1>1, <1>2, <1>3, RunFacts DEF ConversionInv, PtoTypeOK
<1>5. RowInv'
  BY <1>2 DEF ConversionInv, RowInv
<1>6. ASSUME Calm' PROVE CallsInv' /\ LeavesInv'
  <2>1. Calm /\ CallsInv
    BY <1>2, <1>6 DEF Calm, ConversionInv
  <2>2. /\ late = {c} /\ CallStands(c.op, c.id)
        /\ req.owner # Nobody /\ wk[req.owner].pc = "idle"
    BY <1>1, <2>1 DEF CallsInv
  <2>3. late' = {}
    BY <1>1, <2>2
  <2>4. \A w \in Workers : wk[w].pc # "sent"
    BY <2>1, <2>2 DEF CallsInv
  <2>5. CallsInv'
    BY <1>2, <2>3, <2>4 DEF CallsInv
  <2>6. LeavesInv'
    BY <1>2, <1>3, <2>1, <2>2, RunKeeps
  <2> QED BY <2>5, <2>6
<1> QED BY <1>4, <1>5, <1>6 DEF ConversionInv

(* Steps that touch neither the leaves nor the request.                    *)
LEMMA ElsewhereKeeps ==
    ASSUME ConversionInv, UNCHANGED <<req, link, orig, pto, wk, late, slow, ptoFaults, outside, submits>>,
           days' \in 0..MaxDays, open' \in BOOLEAN
    PROVE  ConversionInv'
<1>1. PtoTypeOK' /\ DOMAIN wk' = Workers /\ RowInv'
  BY DEF ConversionInv, PtoTypeOK, RowInv
<1>2. Matching' = Matching
  BY DEF Matching
<1>3. OneLeave' /\ (LeavesInv => LeavesInv') /\ (CallsInv => CallsInv') /\ (Calm' => Calm)
  BY <1>2 DEF ConversionInv, OneLeave, LeavesInv, PendingNotRefused, ApprovedIsOneDay,
              CallsInv, CallStands, Calm
<1> QED BY <1>1, <1>3 DEF ConversionInv

(* The pay period ends.                                                    *)
LEMMA PeriodClosesKeeps ==
    ASSUME ConversionInv, PeriodCloses
    PROVE  ConversionInv'
<1>1. days' \in 0..MaxDays /\ open' \in BOOLEAN
  BY DEF PeriodCloses, ConversionInv, PtoTypeOK
<1> QED BY <1>1, ElsewhereKeeps DEF PeriodCloses

(* A day is taken only while one is left.                                  *)
LEMMA DaysSpentKeeps ==
    ASSUME ConversionInv, DaysSpent
    PROVE  ConversionInv'
<1>1. IsFiniteSet(PtoIds)
  BY PtoAssumption, FS_Interval DEF PtoIds
<1>2. Cardinality({i \in PtoIds : Reserved(i)}) \in Nat
  BY <1>1, FS_Subset, FS_CardinalityType
<1>3. days \in 0..MaxDays /\ MaxDays \in Nat /\ open \in BOOLEAN
  BY PtoAssumption DEF ConversionInv, PtoTypeOK
<1>4. days >= 1
  BY <1>2, <1>3 DEF DaysSpent, Available
<1>5. days' \in 0..MaxDays /\ open' \in BOOLEAN
  BY <1>3, <1>4 DEF DaysSpent
<1> QED BY <1>5, ElsewhereKeeps DEF DaysSpent

(* A lease that is lost under a running call is remembered.                *)
LEMMA LeaseLostKeeps ==
    ASSUME ConversionInv, req.owner # Nobody, req' = [req EXCEPT !.owner = Nobody],
           slow' = (slow \/ Running(req.owner)), ptoFaults' \in 0..MaxPtoFaults,
           UNCHANGED <<link, orig, pto, days, open, wk, late, outside, submits>>
    PROVE  ConversionInv'
<1>1. Row(req) /\ req \in Requests
  BY PtoFacts
<1>2. req' \in Requests /\ req'.owner = Nobody /\ req'.state = req.state
      /\ req'.step = req.step /\ req'.pto = req.pto
  BY <1>1 DEF Requests
<1>3. PtoTypeOK' /\ DOMAIN wk' = Workers
  BY <1>2 DEF ConversionInv, PtoTypeOK
<1>4. RowInv'
  BY <1>1, <1>2 DEF ConversionInv, RowInv, Row
<1>5. Matching' = Matching
  BY DEF Matching
<1>6. OneLeave'
  BY <1>5 DEF ConversionInv, OneLeave
<1>7. ASSUME Calm' PROVE CallsInv' /\ LeavesInv'
  <2>1. Calm /\ ~Running(req.owner)
    BY <1>7 DEF Calm, ConversionInv, PtoTypeOK
  <2>2. CallsInv /\ LeavesInv
    BY <2>1 DEF ConversionInv
  <2>3. late' = {} /\ \A v \in Workers : wk'[v].pc # "sent"
    BY <2>1, <2>2 DEF Running, CallsInv
  <2>4. CallsInv'
    BY <2>3 DEF CallsInv
  <2>5. LeavesInv'
    BY <1>2, <1>5, <2>2 DEF LeavesInv, PendingNotRefused, ApprovedIsOneDay
  <2> QED BY <2>4, <2>5
<1> QED BY <1>3, <1>4, <1>6, <1>7 DEF ConversionInv

(* The lease of a dead owner, or of a slow one, runs out.                  *)
LEMMA LapseKeeps ==
    ASSUME ConversionInv, Lapse \/ Outrun
    PROVE  ConversionInv'
<1>1. ptoFaults' \in 0..MaxPtoFaults
  BY FaultsTyped DEF Lapse, Outrun, ConversionInv, PtoTypeOK
<1> QED BY <1>1, LeaseLostKeeps DEF Lapse, Outrun

(* A request without an owner has no call under way.                       *)
LEMMA NoCalls ==
    ASSUME ConversionInv, Calm, req.owner = Nobody
    PROVE  late = {} /\ \A v \in Workers : wk[v].pc # "sent"
BY PtoFacts DEF ConversionInv, CallsInv

(* The employee, or a manager, changes a request that nobody works at.     *)
LEMMA RowKeeps ==
    ASSUME ConversionInv, req.owner = Nobody, req' \in Requests, req'.owner = Nobody, Row(req'),
           submits' \in 0..MaxSubmits,
           UNCHANGED <<link, orig, pto, days, open, wk, late, slow, ptoFaults, outside>>,
           req'.state # "approved",
           Calm /\ req'.state \in {"none", "pending", "denied", "converting"} /\ req'.step = "not_started" =>
               Matching = {} /\ req'.pto = None,
           Calm /\ req'.state \in {"none", "pending", "denied"} => orig \notin Terminal
    PROVE  ConversionInv'
<1>1. PtoTypeOK' /\ DOMAIN wk' = Workers
  BY DEF ConversionInv, PtoTypeOK
<1>2. RowInv'
  BY DEF ConversionInv, RowInv, Row
<1>3. Matching' = Matching
  BY DEF Matching
<1>4. OneLeave'
  BY <1>3 DEF ConversionInv, OneLeave
<1>5. ASSUME Calm' PROVE CallsInv' /\ LeavesInv'
  <2>1. Calm
    BY <1>5 DEF Calm
  <2>2. late' = {} /\ \A v \in Workers : wk'[v].pc # "sent"
    BY <2>1, NoCalls
  <2>3. orig # "cancel"
    BY <2>1 DEF ConversionInv, LeavesInv
  <2>4. LeavesInv'
    BY <1>3, <2>1, <2>3 DEF LeavesInv, PendingNotRefused, ApprovedIsOneDay, Row
  <2> QED BY <2>2, <2>4 DEF CallsInv
<1> QED BY <1>1, <1>2, <1>4, <1>5 DEF ConversionInv

(* The employee asks.                                                      *)
LEMMA SubmitKeeps ==
    ASSUME ConversionInv, Submit
    PROVE  ConversionInv'
<1>1. req.owner = Nobody /\ req.state \in {"none", "denied"} /\ req.step = "not_started"
  BY PtoFacts DEF Submit, PlaceOk, Row
<1>2. /\ req' \in Requests /\ req'.owner = Nobody /\ req'.state = "pending"
      /\ req'.step = "not_started" /\ req'.pto = None
  BY DEF Submit, Requests, Steps
<1>3. submits' \in 0..MaxSubmits
  BY PtoAssumption DEF Submit, ConversionInv, PtoTypeOK
<1>4. Calm => Matching = {} /\ orig \notin Terminal
  BY <1>1 DEF ConversionInv, LeavesInv, PendingNotRefused
<1> QED BY <1>1, <1>2, <1>3, <1>4, RowKeeps DEF Submit, Row

(* A manager denies or settles, or the period is over.                     *)
LEMMA SettleKeeps ==
    ASSUME ConversionInv, Deny \/ ResolveManually \/ ReviewAfterRollover
    PROVE  ConversionInv'
<1> SUFFICES ASSUME NEW from, NEW to,
                    <<from, to>> \in {<<"pending", "denied">>, <<"pending", "needs_review">>,
                                      <<"needs_review", "resolved_manually">>},
                    Settle(from, to)
             PROVE  ConversionInv'
  BY DEF Deny, ResolveManually, ReviewAfterRollover
<1>1. Row(req) /\ req \in Requests
  BY PtoFacts
<1>2. /\ req.owner = Nobody /\ req.state = from
      /\ req' \in Requests /\ req'.owner = Nobody /\ req'.state = to
      /\ req'.step = req.step /\ req'.pto = req.pto
  <2>1. PICK p \in BOOLEAN : req' = [req EXCEPT !.state = to, !.parked = p]
    BY DEF Settle, Parked
  <2> QED BY <1>1, <2>1 DEF Settle, Requests
<1>3. (from = "pending" /\ to \in {"denied", "needs_review"}) \/ to = "resolved_manually"
  OBVIOUS
<1>4. Calm /\ from = "pending" => Matching = {} /\ req.pto = None /\ orig \notin Terminal
  BY <1>1, <1>2 DEF ConversionInv, LeavesInv, PendingNotRefused, Row
<1>5. Row(req')
  BY <1>1, <1>2, <1>3 DEF Row
<1>6. submits' \in 0..MaxSubmits
  BY DEF Settle, ConversionInv, PtoTypeOK
<1> QED BY <1>2, <1>3, <1>4, <1>5, <1>6, RowKeeps DEF Settle

(* A worker takes the lease.                                               *)
LEMMA ClaimKeeps ==
    ASSUME ConversionInv, NEW w \in Workers, Claim(w)
    PROVE  ConversionInv'
<1> DEFINE k == wk'[w]
<1>1. /\ wk[w] = Free /\ req.owner = Nobody /\ req' = [req EXCEPT !.owner = w]
      /\ UNCHANGED <<link, orig, pto, days, open, late, slow, ptoFaults, outside, submits>>
  BY DEF Claim
<1>2. Row(req) /\ req \in Requests /\ Nobody \notin Workers
  BY PtoFacts
<1>3. /\ DOMAIN wk' = Workers /\ \A v \in Workers \ {w} : wk'[v] = wk[v]
      /\ k \in Places /\ k.got = None
      /\ \/ req.state \in {"pending", "converting"} /\ k.pc = "enter" /\ k.post = (req.step # "not_started")
         \/ req.state = "needs_review" /\ k.pc = "review"
  <2>1. CASE /\ req.state \in {"pending", "converting"}
             /\ wk' = [wk EXCEPT ![w].pc = "enter", ![w].post = req.step # "not_started"]
    <3>1. wk'[w] = [Free EXCEPT !.pc = "enter", !.post = req.step # "not_started"]
      BY <1>1, <2>1, PtoFacts
    <3>2. (req.step # "not_started") \in BOOLEAN
      OBVIOUS
    <3>3. /\ wk'[w] \in Places /\ wk'[w].pc = "enter" /\ wk'[w].got = None
          /\ wk'[w].post = (req.step # "not_started")
      BY <3>1, <3>2 DEF Free, Places, Pcs, Ops
    <3> QED BY <2>1, <3>3, PtoFacts
  <2>2. CASE req.state = "needs_review" /\ wk' = [wk EXCEPT ![w].pc = "review"]
    <3>1. wk'[w] = [Free EXCEPT !.pc = "review"]
      BY <1>1, <2>2, PtoFacts
    <3>2. wk'[w] \in Places /\ wk'[w].pc = "review" /\ wk'[w].got = None
      BY <3>1 DEF Free, Places, Pcs, Ops
    <3> QED BY <2>2, <3>2, PtoFacts
  <2> QED BY <2>1, <2>2 DEF Claim
<1>4. req' \in Requests /\ req'.owner = w /\ req'.state = req.state
      /\ req'.step = req.step /\ req'.pto = req.pto
  BY <1>1, <1>2 DEF Requests
<1> HIDE DEF k
<1>5. PtoTypeOK' /\ DOMAIN wk' = Workers
  <2>1. \A v \in Workers : wk'[v] \in Places
    BY <1>3, PtoFacts DEF k
  <2> QED BY <1>1, <1>3, <1>4, <2>1 DEF ConversionInv, PtoTypeOK
<1>6. RowInv'
  <2>1. PlaceOk(req', k)
    BY <1>2, <1>3, <1>4 DEF PlaceOk, Row
  <2>2. \A v \in Workers : wk'[v].got # None => wk'[v].pc = "verify" /\ wk'[v].op = "create"
    BY <1>3 DEF ConversionInv, RowInv, k
  <2> QED BY <1>2, <1>4, <2>1, <2>2 DEF RowInv, Row, k
<1>7. Matching' = Matching
  BY <1>1 DEF Matching
<1>8. OneLeave'
  BY <1>1, <1>7 DEF ConversionInv, OneLeave
<1>9. ASSUME Calm' PROVE CallsInv' /\ LeavesInv'
  <2>1. Calm /\ LeavesInv
    BY <1>1, <1>9 DEF Calm, ConversionInv
  <2>2. late' = {} /\ \A v \in Workers : wk'[v].pc # "sent"
    BY <1>1, <1>3, <2>1, NoCalls DEF k
  <2>3. LeavesInv'
    BY <1>1, <1>3, <1>4, <1>7, <2>1 DEF LeavesInv, PendingNotRefused, ApprovedIsOneDay, k
  <2> QED BY <2>2, <2>3 DEF CallsInv
<1> QED BY <1>5, <1>6, <1>8, <1>9 DEF ConversionInv

(* A worker forgets what it was doing; its call may go on at Odoo.         *)
LEMMA ForgetsKeeps ==
    ASSUME ConversionInv, NEW w \in Workers, wk[w].pc # "idle", wk' = [wk EXCEPT ![w] = Free],
           UNCHANGED <<req, link, orig, pto, days, open, slow, outside, submits>>,
           ptoFaults' \in 0..MaxPtoFaults,
           late' = IF wk[w].pc = "sent"
                   THEN late \cup {[op |-> wk[w].op, id |-> wk[w].id]} ELSE late
    PROVE  ConversionInv'
<1> PICK c : c = [op |-> wk[w].op, id |-> wk[w].id]
  OBVIOUS
<1>1. DOMAIN wk' = Workers /\ wk'[w] = Free /\ \A v \in Workers \ {w} : wk'[v] = wk[v]
  BY PtoFacts
<1>2. Free \in Places /\ Free.pc = "idle" /\ Free.post = FALSE /\ Free.got = None
  BY PlacesTyped DEF Pcs, Free
<1>3. c \in Calls /\ c.op = wk[w].op /\ c.id = wk[w].id
  BY PtoFacts DEF Places, Calls
<1>4. PtoTypeOK'
  <2>1. \A v \in Workers : wk'[v] \in Places
    BY <1>1, <1>2, PtoFacts
  <2> QED BY <1>1, <1>3, <2>1 DEF ConversionInv, PtoTypeOK
<1>5. RowInv'
  <2>1. req.owner # Nobody => req.owner \in Workers /\ PlaceOk(req, wk[req.owner])
    BY PtoFacts
  <2>2. req.owner = w => PlaceOk(req, Free)
    BY <1>2, <2>1, PtoFacts DEF PlaceOk
  <2> QED BY <1>1, <1>2, <2>1, <2>2 DEF ConversionInv, RowInv
<1>6. Matching' = Matching
  BY DEF Matching
<1>7. OneLeave'
  BY <1>6 DEF ConversionInv, OneLeave
<1>8. ASSUME Calm' PROVE CallsInv' /\ LeavesInv'
  <2>1. CallsInv /\ LeavesInv /\ Calm
    BY <1>8 DEF Calm, ConversionInv
  <2>2. LeavesInv'
    BY <1>1, <1>2, <1>6, <2>1, PtoFacts DEF LeavesInv, PendingNotRefused, ApprovedIsOneDay
  <2>3. \A v \in Workers : wk'[v].pc = "sent" =>
            v # w /\ req.owner = v /\ CallStands(wk[v].op, wk[v].id)'
    BY <1>1, <1>2, <2>1 DEF CallsInv, CallStands
  <2>4. CASE wk[w].pc = "sent"
    <3>1. /\ req.owner = w /\ CallStands(wk[w].op, wk[w].id) /\ w # Nobody
          /\ \A v \in Workers : wk[v].pc = "sent" => v = w
      BY <2>1, <2>4, PtoFacts DEF CallsInv
    <3>2. late = {}
      BY <2>1, <3>1 DEF CallsInv
    <3>3. late' = {c}
      BY <2>4, <3>2
    <3>4. CallStands(c.op, c.id)'
      BY <1>3, <3>1 DEF CallStands
    <3> QED BY <1>1, <1>2, <2>2, <2>3, <3>1, <3>3, <3>4 DEF CallsInv
  <2>5. CASE wk[w].pc # "sent"
    <3>1. late' = late
      BY <2>5
    <3>2. late # {} => req.owner # Nobody /\ req.owner # w /\ wk'[req.owner].pc = "idle"
      BY <1>1, <2>1, PtoFacts DEF CallsInv
    <3>3. \A d \in late : late = {d} /\ CallStands(d.op, d.id)'
      BY <2>1 DEF CallsInv, CallStands
    <3> QED BY <2>2, <2>3, <3>1, <3>2, <3>3 DEF CallsInv
  <2> QED BY <2>4, <2>5
<1> QED BY <1>1, <1>4, <1>5, <1>7, <1>8 DEF ConversionInv

(* It finds that it lost the lease, or its process dies.                   *)
LEMMA CrashKeeps ==
    ASSUME ConversionInv, NEW w \in Workers, Stale(w) \/ PtoCrash(w)
    PROVE  ConversionInv'
<1>1. ptoFaults' \in 0..MaxPtoFaults
  BY FaultsTyped DEF Stale, PtoCrash, ConversionInv, PtoTypeOK
<1> QED BY <1>1, ForgetsKeeps DEF Stale, PtoCrash

(* A leave is made only on a free day.                                     *)
LEMMA CreateForms ==
    ASSUME NEW id, NEW e \in Effects("create", id)
    PROVE  \E i \in PtoIds : e.new = i /\ DayIsFree /\ \E s : e.pto = [pto EXCEPT ![i] = s]
<1>1. e \notin {[orig |-> s, pto |-> pto, new |-> None] : s \in OrigEffect("create")}
  BY DEF OrigEffect
<1>2. PICK i \in PtoIds :
          e \in {[orig |-> orig, pto |-> [pto EXCEPT ![i] = s], new |-> i] :
                  s \in PtoEffect("create", i)}
  BY <1>1 DEF Effects
<1>3. PICK s \in PtoEffect("create", i) :
          e = [orig |-> orig, pto |-> [pto EXCEPT ![i] = s], new |-> i]
  BY <1>2
<1>4. DayIsFree
  BY <1>3 DEF PtoEffect
<1> QED BY <1>3, <1>4

(* People change leaves; Odoo keeps one open leave on the day.             *)
LEMMA OthersKeeps ==
    ASSUME ConversionInv, Others
    PROVE  ConversionInv'
<1>1. UNCHANGED <<req, days, open, wk, late, slow, ptoFaults, submits>> /\ outside' = outside + 1
  BY DEF Others
<1>2. outside' \in 0..MaxOutside /\ ~Calm'
  BY <1>1, PtoAssumption DEF Others, Calm, ConversionInv, PtoTypeOK
<1>3. /\ orig \in LeaveStates \cup {"none"} /\ pto \in [PtoIds -> LeaveStates \cup {"none"}]
      /\ link \in PtoIds \cup {None, Original, Undone} /\ OneLeave
  BY DEF ConversionInv, PtoTypeOK
<1> DEFINE Fits ==
             /\ orig' \in LeaveStates \cup {"none"}
             /\ pto' \in [PtoIds -> LeaveStates \cup {"none"}]
             /\ link' \in PtoIds \cup {None, Original, Undone} /\ OneLeave'
<1>4. Fits
  <2>1. ASSUME NEW s \in {"confirm", "validate", "refuse", "cancel"},
               s \in Terminal \/ Matching = {}, orig' = s, UNCHANGED <<pto, link>>
        PROVE  Fits
    <3>1. Matching' = Matching
      BY <2>1 DEF Matching
    <3> QED BY <1>3, <2>1, <3>1 DEF OneLeave, LeaveStates, Terminal
  <2>2. ASSUME NEW i \in Matching, NEW s \in {"validate", "refuse", "cancel"},
               pto' = [pto EXCEPT ![i] = s], UNCHANGED <<orig, link>>
        PROVE  Fits
    <3>1. i \in PtoIds /\ s \in LeaveStates
      BY DEF Matching, LeaveStates, Terminal
    <3>2. /\ pto' \in [PtoIds -> LeaveStates \cup {"none"}]
          /\ \A j \in PtoIds \ {i} : pto'[j] = pto[j]
      BY <1>3, <2>2, <3>1
    <3>3. Matching' \subseteq Matching
      BY <3>2 DEF Matching
    <3> QED BY <1>3, <2>2, <3>2, <3>3 DEF OneLeave
  <2>3. ASSUME NEW e \in Effects("create", None),
               pto' = [e.pto EXCEPT ![e.new] = "validate"], UNCHANGED <<orig, link>>
        PROVE  Fits
    <3>1. PICK i \in PtoIds : /\ e.new = i /\ Matching = {} /\ orig \in {"none"} \cup Terminal
                              /\ \E s : e.pto = [pto EXCEPT ![i] = s]
      BY CreateForms DEF DayIsFree
    <3>2. PICK s : e.pto = [pto EXCEPT ![i] = s]
      BY <3>1
    <3>3. pto' = [pto EXCEPT ![i] = "validate"]
      BY <1>3, <2>3, <3>1, <3>2
    <3>4. /\ pto' \in [PtoIds -> LeaveStates \cup {"none"}]
          /\ \A j \in PtoIds \ {i} : pto'[j] = pto[j]
      BY <1>3, <3>3 DEF LeaveStates
    <3>5. Matching' \subseteq {i}
      BY <3>1, <3>4 DEF Matching
    <3> QED BY <1>3, <2>3, <3>1, <3>4, <3>5 DEF OneLeave
  <2>4. ASSUME link' = Undone, UNCHANGED <<orig, pto>> PROVE Fits
    <3>1. Matching' = Matching
      BY <2>4 DEF Matching
    <3> QED BY <1>3, <2>4, <3>1 DEF OneLeave
  <2> QED BY <2>1, <2>2, <2>3, <2>4 DEF Others
<1> QED BY <1>1, <1>2, <1>4 DEF ConversionInv, PtoTypeOK, RowInv

(* Nothing was asked for yet.                                              *)
LEMMA ConversionStarts == PtoInit => ConversionInv
<1> SUFFICES ASSUME PtoInit PROVE ConversionInv
  OBVIOUS
<1>1. Free \in Places /\ Free.pc = "idle" /\ Free.got = None
  BY DEF Free, Places, Pcs, Ops
<1>2. /\ DOMAIN wk = Workers /\ \A w \in Workers : wk[w] = Free
      /\ Matching = {} /\ orig \in {"validate", "none"} /\ late = {}
      /\ req.state = "none" /\ req.step = "not_started" /\ req.pto = None /\ req.owner = Nobody
      /\ req \in Requests
  BY DEF PtoInit, Matching, Requests, Steps
<1>3. PtoTypeOK
  <2>1. /\ link \in {None, Original} /\ open = TRUE /\ slow = FALSE
        /\ orig \in LeaveStates \cup {"none"}
    BY DEF PtoInit, LeaveStates
  <2>2. pto \in [PtoIds -> LeaveStates \cup {"none"}]
    BY DEF PtoInit
  <2>3. /\ days \in 0..MaxDays /\ ptoFaults \in 0..MaxPtoFaults /\ outside \in 0..MaxOutside
        /\ submits \in 0..MaxSubmits
    BY PtoAssumption DEF PtoInit
  <2> QED BY <1>1, <1>2, <2>1, <2>2, <2>3 DEF PtoTypeOK
<1>4. RowInv /\ OneLeave
  BY <1>1, <1>2 DEF RowInv, OneLeave
<1>5. CallsInv /\ LeavesInv
  BY <1>1, <1>2 DEF CallsInv, LeavesInv, PendingNotRefused, ApprovedIsOneDay, Terminal
<1> QED BY <1>2, <1>3, <1>4, <1>5 DEF ConversionInv

(* Every step keeps the invariant.                                         *)
LEMMA ConversionSteps == ConversionInv /\ [PtoNext]_ptoVars => ConversionInv'
<1> SUFFICES ASSUME ConversionInv, [PtoNext]_ptoVars PROVE ConversionInv'
  OBVIOUS
<1>1. CASE UNCHANGED ptoVars
  <2>1. days' \in 0..MaxDays /\ open' \in BOOLEAN
    BY <1>1 DEF ptoVars, ConversionInv, PtoTypeOK
  <2> QED BY <1>1, <2>1, ElsewhereKeeps DEF ptoVars
<1>2. CASE Submit
  BY <1>2, SubmitKeeps
<1>3. CASE Deny \/ ResolveManually \/ ReviewAfterRollover
  BY <1>3, SettleKeeps
<1>4. CASE Lapse \/ Outrun
  BY <1>4, LapseKeeps
<1>5. CASE PeriodCloses
  BY <1>5, PeriodClosesKeeps
<1>6. CASE DaysSpent
  BY <1>6, DaysSpentKeeps
<1>7. CASE Others
  BY <1>7, OthersKeeps
<1>8. CASE LandLate
  BY <1>8, LandLateKeeps
<1>9. ASSUME NEW w \in Workers, PtoStep(w) PROVE ConversionInv'
  BY <1>9, CrashKeeps, EnterKeeps, RefuseOriginalKeeps, FindOrCreateKeeps, ApprovePtoKeeps,
     FinalCheckKeeps, FinalizeApprovedKeeps, ClosePtoKeeps, RestoreOriginalKeeps, LandKeeps,
     VerifyCallKeeps, AdoptExternalKeeps, VerifyExternalKeeps
  DEF PtoStep
<1>10. ASSUME NEW w \in Workers,
              Claim(w) \/ AnswerLost(w) \/ CallFails(w) \/ GiveUp(w) \/ Unreadable(w) \/ PtoCrash(w)
       PROVE  ConversionInv'
  BY <1>10, ClaimKeeps, AnswerLostKeeps, CallFailsKeeps, GiveUpKeeps, UnreadableKeeps, CrashKeeps
<1> QED BY <1>1, <1>2, <1>3, <1>4, <1>5, <1>6, <1>7, <1>8, <1>9, <1>10 DEF PtoNext

(* The inductive invariant of the conversion: whose calls are under way,   *)
(* what they still may change, and what the day then looks like            *)
(* (absence_pto_conversion.py:200-534).                                    *)
THEOREM ConversionInvariant == PtoSpec => []ConversionInv
<1>1. PtoInit => ConversionInv
  BY ConversionStarts
<1>2. ConversionInv /\ [PtoNext]_ptoVars => ConversionInv'
  BY ConversionSteps
<1> QED BY <1>1, <1>2, PTL DEF PtoSpec

(* A request that waits or was denied has cost nothing, an approved one is *)
(* exactly one approved day beside no Absence, through every lost answer,  *)
(* failed call, dead process and expired lease                             *)
(* (absence_pto_conversion.py:448-534, absence_pto_store.py:865-1035).     *)
THEOREM ConversionIsSafe == PtoSpec => []ConversionIsRight
<1>1. ConversionInv => ConversionIsRight
  BY DEF ConversionInv, ConversionIsRight, LeavesInv
<1> QED BY <1>1, ConversionInvariant, PTL

(* The steps of a worker between two calls change nothing in Odoo, and the *)
(* link of the attendance row only where the conversion is finalized.      *)
LocalSteps(w) ==
    \/ Enter(w) \/ RefuseOriginal(w) \/ FindOrCreate(w) \/ ApprovePto(w) \/ FinalCheck(w)
    \/ ClosePto(w) \/ RestoreOriginal(w) \/ VerifyCall(w)
    \/ AdoptExternal(w) \/ VerifyExternal(w)
LEMMA LocalStepsAreLocal ==
    ASSUME NEW w \in Workers, LocalSteps(w)
    PROVE  UNCHANGED <<link, orig, pto>>
<1>1. ASSUME NEW r, NEW k, Local(w, r, k) PROVE UNCHANGED <<link, orig, pto>>
  BY <1>1 DEF Local
<1>2. ASSUME NEW r, Ends(w, r) PROVE UNCHANGED <<link, orig, pto>>
  BY <1>1, <1>2 DEF Ends
<1>3. ASSUME NEW post, Fail(w, post) \/ Low(w, post) \/ Review(w) \/ ToPending(w)
      PROVE  UNCHANGED <<link, orig, pto>>
  BY <1>1, <1>2, <1>3 DEF Fail, Low, Review, ToPending
<1>4. ASSUME NEW i, Created(w, i) \/ Send(w, i) PROVE UNCHANGED <<link, orig, pto>>
  BY <1>1, <1>4 DEF Created, Send
<1>5. CASE Enter(w)
  BY <1>1, <1>3, <1>5 DEF Enter, Preflight
<1>6. CASE RefuseOriginal(w)
  BY <1>1, <1>3, <1>6 DEF RefuseOriginal, Preflight
<1>7. CASE FindOrCreate(w)
  BY <1>3, <1>4, <1>7 DEF FindOrCreate, Preflight
<1>8. CASE ApprovePto(w)
  BY <1>1, <1>3, <1>4, <1>8 DEF ApprovePto, Preflight
<1>9. CASE FinalCheck(w)
  BY <1>1, <1>3, <1>9 DEF FinalCheck, Preflight
<1>10. CASE ClosePto(w)
  BY <1>1, <1>2, <1>3, <1>10 DEF ClosePto
<1>11. CASE RestoreOriginal(w)
  BY <1>1, <1>3, <1>4, <1>11 DEF RestoreOriginal
<1>12. CASE VerifyCall(w)
  BY <1>1, <1>3, <1>4, <1>12 DEF VerifyCall
<1>13. CASE AdoptExternal(w) \/ VerifyExternal(w)
  BY <1>1, <1>2, <1>13 DEF AdoptExternal, VerifyExternal
<1> QED BY <1>5, <1>6, <1>7, <1>8, <1>9, <1>10, <1>11, <1>12, <1>13 DEF LocalSteps

(* A call that stands takes no approved day back.                          *)
LEMMA RunPays ==
    ASSUME ConversionInv, NEW op, NEW id, Runs(op, id), CallStands(op, id)
    PROVE  PaidStep
<1>1. op = "close" => id \in PtoIds /\ pto[id] \in Closable
  BY PtoFacts DEF CallStands, CallOk, Requests
<1> QED BY <1>1, RunFacts

(* Every change of a PTO is a call, or somebody else acts.                 *)
LEMMA PaidKept ==
    ASSUME ConversionInv, [PtoNext]_ptoVars, Calm'
    PROVE  PaidStep
<1>1. CASE pto' = pto
  BY <1>1 DEF PaidStep
<1>2. ASSUME NEW w \in Workers, Land(w) \/ AnswerLost(w) PROVE PaidStep
  <2>1. wk[w].pc = "sent" /\ Calm
    BY <1>2 DEF Land, AnswerLost, Calm
  <2>2. CallStands(wk[w].op, wk[w].id)
    BY <2>1 DEF ConversionInv, CallsInv
  <2>3. Effects("create", None) = Effects("create", wk[w].id)
    BY DEF Effects, OrigEffect, PtoEffect
  <2>4. Runs(wk[w].op, wk[w].id)
    BY <1>2, <2>3 DEF Land, AnswerLost, Runs
  <2> QED BY <2>2, <2>4, RunPays
<1>3. CASE LandLate
  <2>1. PICK c \in late : \/ UNCHANGED <<orig, pto>>
                          \/ \E e \in Effects(c.op, c.id) : orig' = e.orig /\ pto' = e.pto
    BY <1>3 DEF LandLate
  <2>2. Runs(c.op, c.id)
    BY <2>1 DEF Runs
  <2>3. Calm
    BY <1>3 DEF LandLate, Calm
  <2>4. CallStands(c.op, c.id)
    BY <2>3 DEF ConversionInv, CallsInv
  <2> QED BY <2>2, <2>4, RunPays
<1>4. ~Others
  BY DEF Others, Calm, ConversionInv, PtoTypeOK
<1>5. CASE UNCHANGED ptoVars
  BY <1>1, <1>5 DEF ptoVars
<1>6. CASE \/ Submit \/ Deny \/ ResolveManually \/ ReviewAfterRollover \/ Lapse \/ Outrun
           \/ PeriodCloses \/ DaysSpent
  BY <1>1, <1>6 DEF Submit, Deny, ResolveManually, ReviewAfterRollover, Settle, Lapse, Outrun,
                    PeriodCloses, DaysSpent
<1>7. ASSUME NEW w \in Workers,
             \/ Claim(w) \/ CallFails(w) \/ GiveUp(w) \/ Unreadable(w) \/ PtoCrash(w)
             \/ Stale(w) \/ FinalizeApproved(w)
      PROVE  pto' = pto
  BY <1>7 DEF Claim, CallFails, GiveUp, Unreadable, PtoCrash, Stale, FinalizeApproved
<1> QED BY <1>1, <1>2, <1>3, <1>4, <1>5, <1>6, <1>7, LocalStepsAreLocal
        DEF PtoNext, PtoStep, LocalSteps

(* Only the compensation closes a PTO, and it closes none that was         *)
(* approved meanwhile (absence_pto_conversion.py:419).                     *)
THEOREM PaidDayIsKept == PtoSpec => PaidDayStays
<1>1. ConversionInv /\ [PtoNext]_ptoVars => [Calm' => PaidStep]_ptoVars
  BY PaidKept
<1> QED BY <1>1, ConversionInvariant, PTL DEF PtoSpec, PaidDayStays

(* The Absence that was undone stays undone: the transaction that links    *)
(* the PTO tests the link again (absence_pto_store.py:900-911, 955-962).   *)
THEOREM UndoneIsKept == PtoSpec => UndoneStaysUndone
<1>1. [PtoNext]_ptoVars => [link = Undone => link' = Undone]_ptoVars
  <2> SUFFICES ASSUME [PtoNext]_ptoVars, link = Undone PROVE link' = Undone
    OBVIOUS
  <2>1. ~LinkHeld
    BY PtoAssumption DEF LinkHeld, HomeLink, Undone, Original, None
  <2>2. CASE UNCHANGED ptoVars
    BY <2>2 DEF ptoVars
  <2>3. CASE PtoNext
    <3>1. CASE \/ Submit \/ Deny \/ ResolveManually \/ ReviewAfterRollover \/ Lapse \/ Outrun
               \/ PeriodCloses \/ DaysSpent \/ LandLate
      BY <3>1 DEF Submit, Deny, ResolveManually, ReviewAfterRollover, Settle, Lapse, Outrun,
                  PeriodCloses, DaysSpent, LandLate
    <3>2. CASE Others
      BY <3>2 DEF Others
    <3>3. ASSUME NEW w \in Workers,
                 \/ Claim(w) \/ AnswerLost(w) \/ CallFails(w) \/ GiveUp(w) \/ Unreadable(w)
                 \/ PtoCrash(w) \/ Stale(w) \/ Land(w) \/ FinalizeApproved(w)
          PROVE  link' = link
      BY <2>1, <3>3 DEF Claim, AnswerLost, CallFails, GiveUp, Unreadable, PtoCrash, Stale, Land,
                        FinalizeApproved
    <3>4. ASSUME NEW w \in Workers, LocalSteps(w) PROVE link' = link
      BY <3>4, LocalStepsAreLocal
    <3> QED BY <2>3, <3>1, <3>2, <3>3, <3>4 DEF PtoNext, PtoStep, LocalSteps
  <2> QED BY <2>2, <2>3
<1> QED BY <1>1, PTL DEF PtoSpec, UndoneStaysUndone

=============================================================================
