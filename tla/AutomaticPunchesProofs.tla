----------------------- MODULE AutomaticPunchesProofs ------------------------
(***************************************************************************)
(* Theorems about AutoLunch and AutoSalaried. For every lunch of the       *)
(* schedule or the flex rule, every day length, and any number of punches  *)
(* and faults: there is one lunch a day, whoever works through gets        *)
(* exactly the lunch of the window, and who signs out in the gap is not    *)
(* signed in again. For every salaried day and any number of failed syncs, *)
(* crashes and edits: the four punches make two attendances with the lunch *)
(* between them, a reverted day is clean, what people opened is never      *)
(* deleted, and a closed day takes no punch.                               *)
(***************************************************************************)
EXTENDS AutoLunch, AutoSalaried, FiniteSetTheorems, WellFoundedInduction, NaturalsInduction, TLAPS

(***************************************************************************)
(* The log                                                                 *)
(***************************************************************************)
(* A set of numbers has a smallest element.                                *)
LEMMA Smallest ==
    ASSUME NEW T \in SUBSET Nat, T # {}
    PROVE  \E x \in T : \A y \in T : x <= y
<1>1. PICK x \in T : \A y \in T : ~(<<y, x>> \in OpToRel(<, Nat))
  BY NatLessThanWellFounded, WFMin
<1>2. \A y \in T : ~(y < x)
  BY <1>1 DEF OpToRel
<1> QED BY <1>2

(* One that is bounded has a largest element.                              *)
LEMMA Largest ==
    ASSUME NEW S \in SUBSET Nat, NEW n \in Nat, S # {}, \A s \in S : s <= n
    PROVE  \E x \in S : \A y \in S : y <= x
<1> DEFINE T == {k \in Nat : \A s \in S : s <= k}
<1>1. PICK k \in T : \A j \in T : k <= j
  BY Smallest
<1>2. k \in S
  <2> SUFFICES ASSUME k \notin S PROVE FALSE
    OBVIOUS
  <2>1. \A s \in S : s <= k - 1 /\ k - 1 \in Nat
    BY <1>1
  <2>2. k - 1 \in T
    BY <2>1
  <2> QED BY <1>1, <2>2
<1> QED BY <1>1, <1>2

(* The punches of the log, by number.                                      *)
LEMMA LogTyped ==
    ASSUME LogInv
    PROVE  /\ Len(log) \in Nat /\ Ids = 1..Len(log) /\ Ids \subseteq Nat
           /\ \A p \in Ids : log[p] \in Punches
           /\ (log = <<>>) <=> (Ids = {})
           /\ (Ids # {}) => Len(log) \in Ids
<1>1. log \in Seq(Punches)
  BY DEF LogInv
<1>2. Len(log) \in Nat /\ Ids = 1..Len(log) /\ \A p \in Ids : log[p] \in Punches
  BY <1>1 DEF Ids
<1>3. (log = <<>>) <=> (Len(log) = 0)
  BY <1>1
<1>4. (Ids = {}) <=> (Len(log) = 0)
  BY <1>2
<1>5. Ids # {} => Len(log) \in Ids
  BY <1>2, <1>4
<1> QED BY <1>2, <1>3, <1>4, <1>5

(* The latest punch is one of the log (latest_punches_bulk).               *)
LEMMA LatestIsPunch ==
    ASSUME LogInv, now \in Nat, Ids # {}
    PROVE  /\ Latest \in Ids
           /\ \A q \in Ids : q = Latest \/ Before(q, Latest)
<1>0. /\ Len(log) \in Nat /\ Ids \subseteq Nat
      /\ \A p \in Ids : p <= Len(log) /\ log[p].key \in Nat /\ log[p].key <= now
  BY LogTyped DEF Punches, LogInv
<1> DEFINE K == {log[p].key : p \in Ids}
<1>1. PICK k \in K : \A j \in K : j <= k
  <2>1. K \in SUBSET Nat /\ K # {} /\ \A j \in K : j <= now
    BY <1>0
  <2> QED BY <2>1, Largest
<1> DEFINE L == {p \in Ids : log[p].key = k}
<1>2. PICK x \in L : \A y \in L : y <= x
  <2>1. L \in SUBSET Nat /\ L # {} /\ \A y \in L : y <= Len(log)
    BY <1>0, <1>1
  <2> QED BY <2>1, <1>0, Largest
<1>3. \A q \in Ids : q = x \/ Before(q, x)
  <2> SUFFICES ASSUME NEW q \in Ids, q # x PROVE Before(q, x)
    OBVIOUS
  <2>1. log[q].key <= k /\ log[x].key = k /\ log[q].key \in Nat /\ k \in Nat
    BY <1>0, <1>1, <1>2
  <2>2. CASE log[q].key = k
    <3>1. q \in L
      BY <2>2
    <3>2. q <= x /\ q \in Nat /\ x \in Nat
      BY <3>1, <1>0, <1>2
    <3> QED BY <3>2, <2>1, <2>2 DEF Before
  <2> QED BY <2>1, <2>2 DEF Before
<1>4. x \in Ids
  BY <1>2
<1> QED BY <1>3, <1>4 DEF Latest

(* In a sorted log it is the last one.                                     *)
LEMMA LatestIsLast ==
    ASSUME LogInv, now \in Nat, Ids # {}, Sorted
    PROVE  Latest = Len(log)
<1>1. /\ Len(log) \in Ids /\ Ids = 1..Len(log) /\ Len(log) \in Nat
      /\ \A p \in Ids : log[p].key \in Nat
  BY LogTyped DEF Punches
<1>2. Latest \in Ids /\ (Len(log) = Latest \/ Before(Len(log), Latest))
  BY <1>1, LatestIsPunch
<1>3. log[Latest].key <= log[Len(log)].key
  BY <1>1, <1>2 DEF Sorted
<1> QED BY <1>1, <1>2, <1>3 DEF Before

(* The first clock-in has a time that has come (_first_clock_in).          *)
LEMMA FirstIsTime ==
    ASSUME LogInv, now \in Nat
    PROVE  FirstClockIn \in 0..now
<1> DEFINE ins == {p \in Ids : log[p].act = "clock_in"}
<1>1. CASE ins = {}
  BY <1>1 DEF FirstClockIn
<1>2. CASE ins # {}
  <2>0. \A p \in Ids : log[p].key \in 1..now
    BY DEF LogInv
  <2> DEFINE K == {log[p].key : p \in ins}
  <2>1. PICK k \in K : \A j \in K : k <= j
    <3>1. K \in SUBSET Nat /\ K # {}
      BY <1>2, <2>0
    <3> QED BY <3>1, Smallest
  <2>2. \E p \in ins : \A q \in ins : log[p].key <= log[q].key
    BY <2>1
  <2> DEFINE c == CHOOSE p \in ins : \A q \in ins : log[p].key <= log[q].key
  <2>3. c \in ins
    BY <2>2
  <2>4. FirstClockIn = log[c].key
    BY <1>2 DEF FirstClockIn
  <2> HIDE DEF c
  <2> QED BY <2>0, <2>3, <2>4
<1> QED BY <1>1, <1>2

(* It stays when no clock-in of an earlier time is added.                  *)
LEMMA FirstStays ==
    ASSUME LogInv, LogInv', now \in Nat, now' \in Nat, FirstClockIn # 0,
           \A p \in Ids : /\ p \in Ids'
                          /\ log'[p].act = log[p].act /\ log'[p].key = log[p].key,
           \A q \in Ids' \ Ids : log'[q].act = "clock_in" => FirstClockIn <= log'[q].key
    PROVE  FirstClockIn' = FirstClockIn
<1> DEFINE ins == {p \in Ids : log[p].act = "clock_in"}
           now_ins == {p \in Ids' : log'[p].act = "clock_in"}
           k == FirstClockIn
<1>0. (\A p \in Ids : log[p].key \in Nat) /\ (\A p \in Ids' : log'[p].key \in Nat)
  BY DEF LogInv
<1>1. ins # {}
  BY DEF FirstClockIn
<1>2. PICK p \in ins : \A q \in ins : log[p].key <= log[q].key
  <2> DEFINE K == {log[q].key : q \in ins}
  <2>1. K \in SUBSET Nat /\ K # {}
    BY <1>0, <1>1
  <2>2. \E x \in K : \A y \in K : x <= y
    BY <2>1, Smallest
  <2> QED BY <2>2
<1>3. k = log[p].key /\ \A q \in ins : k <= log[q].key
  <2> DEFINE c == CHOOSE x \in ins : \A q \in ins : log[x].key <= log[q].key
  <2>1. c \in ins /\ \A q \in ins : log[c].key <= log[q].key
    BY <1>2
  <2>2. k = log[c].key
    BY <1>1 DEF FirstClockIn
  <2> HIDE DEF c, k
  <2>3. log[c].key = log[p].key
    BY <1>0, <1>2, <2>1
  <2> QED BY <2>1, <2>2, <2>3
<1> HIDE DEF k
<1>4. p \in now_ins /\ log'[p].key = k /\ k \in Nat
  BY <1>0, <1>2, <1>3
<1>5. \A q \in now_ins : k <= log'[q].key
  BY <1>3 DEF k
<1> DEFINE c == CHOOSE x \in now_ins : \A q \in now_ins : log'[x].key <= log'[q].key
<1>6. c \in now_ins /\ \A q \in now_ins : log'[c].key <= log'[q].key
  BY <1>4, <1>5
<1>7. FirstClockIn' = log'[c].key
  BY <1>4 DEF FirstClockIn
<1> HIDE DEF c
<1>8. log'[c].key = k
  BY <1>0, <1>4, <1>5, <1>6
<1> QED BY <1>7, <1>8 DEF k

(* And so does the window (_window_for).                                   *)
LEMMA WindowStays ==
    ASSUME LogInv, WindowInv, LogInv', now \in Nat, now' \in Nat,
           \A p \in Ids : /\ p \in Ids'
                          /\ log'[p].act = log[p].act /\ log'[p].key = log[p].key,
           \A q \in Ids' \ Ids : /\ mode.flex \/ tick'.busy
                                 /\ FirstClockIn # 0 /\ log'[q].act = "clock_in"
                                 => FirstClockIn <= log'[q].key,
           mode' = mode, run'.out = run.out, run'.in = run.in,
           run.state = "pending" => run'.state = "pending",
           tick' = tick \/ ~tick'.busy
    PROVE  WindowInv'
<1>1. (mode.flex \/ tick'.busy) /\ FirstClockIn # 0 => FirstClockIn' = FirstClockIn
  BY FirstStays
<1>2. run'.state # "pending"
        => IF mode'.flex
           THEN /\ FirstClockIn' # 0
                /\ run'.out = FirstClockIn' + FlexAfter /\ run'.in = run'.out + FlexLen
           ELSE run'.out < run'.in
  BY <1>1 DEF WindowInv
<1>3. tick'.busy => IF tick'.first = 0 THEN tick'.run.state = "pending" \/ ~mode'.flex
                    ELSE tick'.first = FirstClockIn'
  BY <1>1 DEF WindowInv
<1> QED BY <1>2, <1>3 DEF WindowInv

(* The punch that is synced next is the first of those that are not.       *)
NextOut == CHOOSE q \in Unsynced : \A r \in Unsynced : r = q \/ Before(q, r)
LEMMA NextIsFirst ==
    ASSUME LogInv, now \in Nat, Unsynced # {}
    PROVE  /\ NextOut \in Unsynced
           /\ \A r \in Unsynced : r = NextOut \/ Before(NextOut, r)
<1>0. Ids \subseteq Nat /\ \A p \in Ids : log[p].key \in Nat
  BY LogTyped DEF Punches
<1>u. Unsynced \subseteq Ids
  BY DEF Unsynced
<1> DEFINE K == {log[p].key : p \in Unsynced}
<1>1. PICK k \in K : \A j \in K : k <= j
  <2>1. K \in SUBSET Nat /\ K # {}
    BY <1>0, <1>u
  <2> QED BY <2>1, Smallest
<1> DEFINE L == {p \in Unsynced : log[p].key = k}
<1>2. PICK x \in L : \A y \in L : x <= y
  <2>1. L \in SUBSET Nat /\ L # {}
    BY <1>0, <1>u, <1>1
  <2> QED BY <2>1, Smallest
<1>3. \A q \in Unsynced : q = x \/ Before(x, q)
  <2> SUFFICES ASSUME NEW q \in Unsynced, q # x PROVE Before(x, q)
    OBVIOUS
  <2>1. k <= log[q].key /\ log[x].key = k /\ log[q].key \in Nat /\ k \in Nat
    BY <1>0, <1>u, <1>1, <1>2
  <2>2. CASE log[q].key = k
    <3>1. q \in L
      BY <2>2
    <3>2. x <= q /\ q \in Nat /\ x \in Nat
      BY <3>1, <1>0, <1>u, <1>2
    <3> QED BY <3>2, <2>1, <2>2 DEF Before
  <2> QED BY <2>1, <2>2 DEF Before
<1>4. x \in Unsynced
  BY <1>2
<1> QED BY <1>3, <1>4 DEF NextOut

(* What is read of the log, the run and the mode alone.                    *)
LEMMA SameSides ==
    ASSUME LogInv, log' \in Seq(Punches), Len(log') = Len(log),
           \A p \in Ids : /\ log'[p].act = log[p].act /\ log'[p].src = log[p].src
                          /\ log'[p].key = log[p].key
    PROVE  /\ Ids' = Ids /\ Sorted' = Sorted /\ LastIsIn' = LastIsIn
           /\ AutoOuts' = AutoOuts /\ AutoIns' = AutoIns
           /\ By("employee", "clock_in")' = By("employee", "clock_in")
           /\ By("employee", "clock_out")' = By("employee", "clock_out")
<1>1. Ids' = Ids /\ Ids = 1..Len(log) /\ Len(log) \in Nat
  BY LogTyped DEF Ids
<1>2. Len(log) \in Ids \/ Ids = {}
  BY <1>1
<1>3. LastIsIn' = LastIsIn
  BY <1>1, <1>2 DEF LastIsIn
<1>4. Sorted' = Sorted
  <2>1. \A q \in Ids : 1..q \subseteq Ids
    BY <1>1
  <2> QED BY <1>1, <2>1 DEF Sorted
<1>5. /\ By("auto_lunch", "clock_out")' = By("auto_lunch", "clock_out")
      /\ By("auto_lunch", "clock_in")' = By("auto_lunch", "clock_in")
      /\ By("employee", "clock_in")' = By("employee", "clock_in")
      /\ By("employee", "clock_out")' = By("employee", "clock_out")
  BY <1>1 DEF By
<1> QED BY <1>1, <1>3, <1>4, <1>5 DEF AutoOuts, AutoIns

(* And what is read of the employee's day.                                 *)
LEMMA SameDay ==
    ASSUME LogInv, log' \in Seq(Punches), Len(log') = Len(log),
           \A p \in Ids : /\ log'[p].act = log[p].act /\ log'[p].src = log[p].src
                          /\ log'[p].key = log[p].key,
           run'.out = run.out, run'.in = run.in
    PROVE  /\ Undisturbed' = Undisturbed
           /\ \A p \in Ids : SignedOutInGap(p)' = SignedOutInGap(p)
<1>1. /\ Ids' = Ids
      /\ By("employee", "clock_in")' = By("employee", "clock_in")
      /\ By("employee", "clock_out")' = By("employee", "clock_out")
  BY SameSides
<1>2. By("employee", "clock_in") \cup By("employee", "clock_out") \subseteq Ids
  BY DEF By
<1>3. Undisturbed' = Undisturbed
  BY <1>1, <1>2 DEF Undisturbed
<1>4. ASSUME NEW p \in Ids PROVE SignedOutInGap(p)' = SignedOutInGap(p)
  BY <1>1, <1>4 DEF SignedOutInGap
<1> QED BY <1>3, <1>4

(* A punch is added at the end (_insert_punch).                            *)
LEMMA Appended ==
    ASSUME LogInv, NEW r \in Punches, log' = Append(log, r)
    PROVE  /\ log' \in Seq(Punches) /\ Len(log') = Len(log) + 1
           /\ Ids' = Ids \cup {Len(log) + 1} /\ Len(log) + 1 \notin Ids
           /\ log'[Len(log) + 1] = r
           /\ \A p \in Ids : log'[p] = log[p]
           /\ LastIsIn' = (r.act = "clock_in")
           /\ Sorted' => Sorted
           /\ \A src, act : By(src, act)' =
                 By(src, act) \cup (IF r.src = src /\ r.act = act THEN {Len(log) + 1} ELSE {})
<1>1. Len(log) \in Nat /\ Ids = 1..Len(log) /\ log \in Seq(Punches)
  BY LogTyped DEF LogInv
<1>2. log' \in Seq(Punches) /\ Len(log') = Len(log) + 1
  BY <1>1
<1>3. Ids' = Ids \cup {Len(log) + 1} /\ Len(log) + 1 \notin Ids
  <2>1. Ids' = 1..(Len(log) + 1)
    BY <1>1, <1>2 DEF Ids
  <2> QED BY <1>1, <2>1
<1>4. log'[Len(log) + 1] = r /\ \A p \in Ids : log'[p] = log[p]
  BY <1>1
<1>5. LastIsIn' = (r.act = "clock_in")
  BY <1>2, <1>3, <1>4 DEF LastIsIn
<1>6. Sorted' => Sorted
  <2>1. \A q \in Ids : 1..q \subseteq Ids
    BY <1>1
  <2> QED BY <1>3, <1>4, <2>1 DEF Sorted
<1>7. ASSUME NEW src, NEW act
      PROVE  By(src, act)' =
               By(src, act) \cup (IF r.src = src /\ r.act = act THEN {Len(log) + 1} ELSE {})
  BY <1>3, <1>4 DEF By
<1> QED BY <1>2, <1>3, <1>4, <1>5, <1>6, <1>7

(***************************************************************************)
(* The invariant says what is to be shown                                  *)
(***************************************************************************)
LEMMA LunchStarts == Init => LunchInv
<1> SUFFICES ASSUME Init PROVE LunchInv
  OBVIOUS
<1>1. /\ now = 1 /\ log = <<>> /\ odoo = FALSE /\ faults = 0 /\ raced = FALSE
      /\ snap = [known |-> FALSE, open |-> FALSE, after |-> {}]
      /\ run = NoRun /\ tick = NoTick /\ note = [busy |-> FALSE]
      /\ mode \in [observe : BOOLEAN, flex : BOOLEAN]
  BY DEF Init
<1>2. now \in 1..MaxTime /\ faults \in 0..MaxFaults
  BY <1>1, LunchAssumption
<1>3. Ids = {} /\ log \in Seq(Punches) /\ Len(log) = 0
  BY <1>1 DEF Ids
<1>4. AutoOuts = {} /\ AutoIns = {}
  BY <1>3 DEF AutoOuts, AutoIns, By
<1>5. LogInv
  BY <1>3 DEF LogInv
<1>6. RunInv
  BY <1>1, <1>4 DEF RunInv, NoRun
<1>7. SyncInv
  <2>1. snap \in [known : BOOLEAN, open : BOOLEAN, after : SUBSET Ids]
    BY <1>1
  <2>2. ~snap.open /\ snap.after = {} /\ ~odoo
    BY <1>1
  <2> QED BY <1>1, <1>3, <2>1, <2>2 DEF SyncInv
<1>8. TickInv
  <2>1. ~tick.busy /\ tick.busy \in BOOLEAN /\ tick.latest = 0
    BY <1>1 DEF NoTick
  <2>2. note.busy \in BOOLEAN /\ raced \in BOOLEAN
    BY <1>1
  <2>3. 0 \in 0..Len(log)
    BY <1>3
  <2> QED BY <2>1, <2>2, <2>3 DEF TickInv
<1>9. GapInv /\ LunchIsDeducted
  BY <1>1, <1>3 DEF GapInv, LunchIsDeducted, NoRun
<1>10. WindowInv
  BY <1>1 DEF WindowInv, NoRun, NoTick
<1> QED BY <1>1, <1>10, <1>2, <1>5, <1>6, <1>7, <1>8, <1>9 DEF LunchInv

LEMMA RightByInv == LunchInv => LunchIsRight
<1> SUFFICES ASSUME LunchInv PROVE LunchIsRight
  OBVIOUS
<1>1. LogInv /\ RunInv /\ SyncInv /\ TickInv /\ GapInv /\ LunchIsDeducted
  BY DEF LunchInv
<1>2. TypeOK
  <2>1. ASSUME NEW p \in Ids
        PROVE  /\ log[p].act \in {"clock_in", "clock_out"}
               /\ log[p].src \in {"employee", "auto_lunch"}
               /\ log[p].key \in Nat /\ log[p].synced \in BOOLEAN
    BY <1>1, LogTyped DEF Punches
  <2>2. run.state \in Terminal \cup {"pending", "auto_out"}
    BY <1>1 DEF RunInv
  <2>3. run.state # "pending" => run.out <= run.in
    BY <1>1 DEF RunInv
  <2>4. snap.after \subseteq Ids /\ tick.latest \in 0..Len(log)
    BY <1>1 DEF SyncInv, TickInv
  <2>5. now \in 1..MaxTime /\ faults \in 0..MaxFaults
    BY DEF LunchInv
  <2> QED BY <2>1, <2>2, <2>3, <2>4, <2>5 DEF TypeOK
<1>3. OneLunch
  <2>0. Cardinality({}) = 0
    BY FS_EmptySet
  <2>1. CASE AutoOuts = {}
    <3>1. AutoIns = {}
      BY <1>1, <2>1 DEF RunInv
    <3> QED BY <2>0, <2>1, <3>1 DEF OneLunch
  <2>2. CASE AutoOuts # {}
    <3>1. ~mode.observe /\ run.state \in {"auto_out", "done", "ended_by_employee"}
      BY <1>1, <2>2 DEF RunInv, Terminal
    <3>2. PICK a \in Ids :
             /\ AutoOuts = {a} /\ log[a].key = run.out
             /\ AutoIns = {} \/ \E b \in Ids : AutoIns = {b} /\ a < b /\ log[b].key = run.in
      BY <1>1, <3>1 DEF RunInv
    <3>3. Cardinality(AutoOuts) = 1
      BY <3>2, FS_Singleton
    <3>4. CASE AutoIns = {}
      BY <2>0, <3>1, <3>3, <3>4 DEF OneLunch
    <3>5. CASE AutoIns # {}
      <4>1. PICK b \in Ids : AutoIns = {b} /\ a < b /\ log[b].key = run.in
        BY <3>2, <3>5
      <4>2. Cardinality(AutoIns) = 1
        BY <4>1, FS_Singleton
      <4>3. run.out <= run.in /\ run.out \in Nat /\ run.in \in Nat
        BY <1>1, <3>1 DEF RunInv
      <4>4. Before(a, b)
        BY <3>2, <4>1, <4>3 DEF Before
      <4> QED BY <3>1, <3>2, <3>3, <4>1, <4>2, <4>4 DEF OneLunch
    <3> QED BY <3>4, <3>5
  <2> QED BY <2>1, <2>2
<1>4. GapSignOutEndsDay
  <2>1. run.state = "auto_out" => AutoIns = {}
    BY <1>1 DEF RunInv
  <2> QED BY <1>1, <2>1 DEF GapSignOutEndsDay, GapInv
<1> QED BY <1>1, <1>2, <1>3, <1>4 DEF LunchIsRight

(***************************************************************************)
(* Steps that write neither the log nor the run                            *)
(***************************************************************************)
LEMMA QuietKeeps ==
    ASSUME LunchInv, UNCHANGED <<log, run, mode>>, now' \in Nat, now <= now'
    PROVE  /\ LogInv' /\ RunInv' /\ LunchIsDeducted'
           /\ Ids' = Ids /\ Sorted' = Sorted /\ LastIsIn' = LastIsIn
           /\ AutoOuts' = AutoOuts /\ AutoIns' = AutoIns
           /\ Undisturbed' = Undisturbed
           /\ \A p \in Ids : SignedOutInGap(p)' = SignedOutInGap(p)
           /\ Unsynced' = Unsynced
           /\ tick' = tick \/ ~tick'.busy => WindowInv'
<1>1. LogInv /\ RunInv /\ WindowInv /\ LunchIsDeducted /\ now \in Nat
  BY DEF LunchInv
<1>2. log' \in Seq(Punches)
  BY <1>1 DEF LogInv
<1>3. /\ Ids' = Ids /\ Sorted' = Sorted /\ LastIsIn' = LastIsIn
      /\ AutoOuts' = AutoOuts /\ AutoIns' = AutoIns
  BY <1>1, <1>2, SameSides
<1>4. Undisturbed' = Undisturbed /\ \A p \in Ids : SignedOutInGap(p)' = SignedOutInGap(p)
  BY <1>1, <1>2, SameDay
<1>5. LogInv'
  <2>1. \A p \in Ids : log[p].key \in 1..now'
    BY <1>1 DEF LogInv
  <2> QED BY <1>1, <1>2, <1>3, <2>1 DEF LogInv
<1>6. RunInv'
  <2>1. run.out \in Nat
    BY <1>1 DEF RunInv
  <2>2. IF run.state = "pending" THEN run = NoRun
        ELSE 1 <= run.out /\ run.out <= now' /\ run.out <= run.in
    BY <1>1, <2>1 DEF RunInv
  <2> QED BY <1>1, <1>3, <2>2 DEF RunInv
<1>7. LunchIsDeducted'
  BY <1>1, <1>3, <1>4 DEF LunchIsDeducted
<1>8. Unsynced' = Unsynced
  BY <1>3 DEF Unsynced
<1>9. tick' = tick \/ ~tick'.busy => WindowInv'
  BY <1>1, <1>3, <1>5, WindowStays
<1> QED BY <1>3, <1>4, <1>5, <1>6, <1>7, <1>8, <1>9

(* Time passes.                                                            *)
LEMMA ClockKeeps ==
    ASSUME LunchInv, Clock
    PROVE  LunchInv'
<1>1. /\ now < MaxTime /\ now' = now + 1
      /\ UNCHANGED <<log, odoo, snap, run, tick, note, mode, faults, raced>>
  BY DEF Clock
<1>2. now \in 1..MaxTime /\ now' \in 1..MaxTime /\ now <= now' /\ now' \in Nat
  BY <1>1, LunchAssumption DEF LunchInv
<1>3. /\ LogInv' /\ RunInv' /\ LunchIsDeducted' /\ WindowInv'
      /\ Ids' = Ids /\ Sorted' = Sorted /\ LastIsIn' = LastIsIn
      /\ AutoIns' = AutoIns /\ Undisturbed' = Undisturbed
      /\ \A p \in Ids : SignedOutInGap(p)' = SignedOutInGap(p)
  BY <1>1, <1>2, QuietKeeps
<1>4. SyncInv'
  BY <1>1, <1>3 DEF LunchInv, SyncInv
<1>5. TickInv'
  <2>1. IsClockedIn' = IsClockedIn
    BY <1>1 DEF IsClockedIn
  <2>2. tick.busy => tick.now \in 1..now' /\ tick.first \in 0..now'
    BY <1>1, <1>2 DEF LunchInv, TickInv
  <2> QED BY <1>1, <1>3, <2>1, <2>2 DEF LunchInv, TickInv
<1>6. GapInv'
  BY <1>1, <1>3 DEF LunchInv, GapInv
<1> QED BY <1>1, <1>2, <1>3, <1>4, <1>5, <1>6 DEF LunchInv

(* The snapshot is refreshed (refresh_odoo_open_attendance).               *)
LEMMA RefreshKeeps ==
    ASSUME LunchInv, RefreshSnapshot
    PROVE  LunchInv'
<1>1. /\ snap' = [known |-> TRUE, open |-> odoo, after |-> Ids \ Unsynced]
      /\ UNCHANGED <<now, log, odoo, run, tick, note, mode, faults, raced>>
  BY DEF RefreshSnapshot
<1>2. now \in Nat /\ now' = now
  BY <1>1 DEF LunchInv
<1>3. /\ LogInv' /\ RunInv' /\ LunchIsDeducted' /\ WindowInv'
      /\ Ids' = Ids /\ Sorted' = Sorted /\ LastIsIn' = LastIsIn
      /\ AutoIns' = AutoIns /\ Undisturbed' = Undisturbed
      /\ \A p \in Ids : SignedOutInGap(p)' = SignedOutInGap(p)
  BY <1>1, <1>2, QuietKeeps
<1>4. SyncInv'
  <2>1. SyncInv
    BY DEF LunchInv
  <2>2. /\ snap' \in [known : BOOLEAN, open : BOOLEAN, after : SUBSET Ids]
        /\ snap'.open = odoo /\ snap'.after = Ids \ Unsynced
    BY <1>1, <2>1 DEF SyncInv
  <2>3. Len(log) \in snap'.after => log # <<>> /\ log[Len(log)].synced
    <3>1. LogInv
      BY DEF LunchInv
    <3> QED BY <2>2, <3>1, LogTyped DEF Unsynced
  <2> QED BY <1>1, <1>3, <2>1, <2>2, <2>3 DEF SyncInv
<1>5. TickInv'
  <2>1. IsClockedIn' = IsClockedIn
    BY <1>1 DEF IsClockedIn
  <2> QED BY <1>1, <1>3, <2>1 DEF LunchInv, TickInv
<1>6. GapInv'
  BY <1>1, <1>3 DEF LunchInv, GapInv
<1> QED BY <1>1, <1>3, <1>4, <1>5, <1>6 DEF LunchInv

(* A tick fails, or the process ends: what was read is lost.               *)
LEMMA FaultKeeps ==
    ASSUME LunchInv, TickFails \/ Crash
    PROVE  LunchInv'
<1>1. /\ faults < MaxFaults /\ faults' = faults + 1 /\ tick' = NoTick
      /\ UNCHANGED <<now, log, odoo, snap, run, mode>>
      /\ \/ note' = note /\ raced' = raced
         \/ note' = [busy |-> FALSE] /\ raced' = (raced \/ note.busy)
  BY DEF TickFails, Crash
<1>2. now \in Nat /\ now' = now /\ faults' \in 0..MaxFaults
  BY <1>1, LunchAssumption DEF LunchInv
<1>3. /\ LogInv' /\ RunInv' /\ LunchIsDeducted' /\ WindowInv'
      /\ Ids' = Ids /\ Sorted' = Sorted /\ LastIsIn' = LastIsIn
      /\ AutoIns' = AutoIns /\ Undisturbed' = Undisturbed
      /\ \A p \in Ids : SignedOutInGap(p)' = SignedOutInGap(p)
  <2>1. ~tick'.busy
    BY <1>1 DEF NoTick
  <2> QED BY <1>1, <1>2, <2>1, QuietKeeps
<1>4. SyncInv'
  BY <1>1, <1>3 DEF LunchInv, SyncInv
<1>5. TickInv'
  <2>1. TickInv /\ LogInv
    BY DEF LunchInv
  <2>2. note'.busy \in BOOLEAN /\ raced' \in BOOLEAN
    <3>1. note.busy \in BOOLEAN /\ raced \in BOOLEAN
      BY <2>1 DEF TickInv
    <3>2. CASE note' = note /\ raced' = raced
      BY <3>1, <3>2
    <3>3. CASE note' = [busy |-> FALSE] /\ raced' = (raced \/ note.busy)
      <4>1. note'.busy = FALSE
        BY <3>3
      <4>2. raced' \in BOOLEAN
        BY <3>1, <3>3, Zenon
      <4> QED BY <4>1, <4>2
    <3> QED BY <1>1, <3>2, <3>3
  <2>3. 0 \in 0..Len(log)'
    BY <1>1, <2>1, LogTyped
  <2>4. tick'.busy = FALSE /\ tick'.latest = 0
    BY <1>1 DEF NoTick
  <2> QED BY <2>2, <2>3, <2>4 DEF TickInv
<1>6. GapInv'
  <2>1. note.busy \in BOOLEAN /\ raced \in BOOLEAN
    BY DEF LunchInv, TickInv
  <2>2. ~raced' => ~raced /\ note'.busy = note.busy
    <3>1. CASE note' = note /\ raced' = raced
      BY <3>1
    <3>2. CASE note' = [busy |-> FALSE] /\ raced' = (raced \/ note.busy)
      <4>1. note'.busy = FALSE
        BY <3>2
      <4>2. ~raced' => ~raced /\ ~note.busy
        BY <2>1, <3>2, Zenon
      <4>3. ~raced' => note.busy = FALSE
        BY <2>1, <4>2
      <4> QED BY <4>1, <4>2, <4>3
    <3> QED BY <1>1, <3>1, <3>2
  <2> QED BY <1>1, <1>3, <2>2 DEF LunchInv, GapInv
<1> QED BY <1>1, <1>2, <1>3, <1>4, <1>5, <1>6 DEF LunchInv

(* A punch reaches Odoo (timeclock_sync).                                  *)
LEMMA SyncKeeps ==
    ASSUME LunchInv, SyncPunch
    PROVE  LunchInv'
<1>1. /\ Unsynced # {}
      /\ log' = [log EXCEPT ![NextOut].synced = TRUE]
      /\ odoo' = (log[NextOut].act = "clock_in")
      /\ snap' = [snap EXCEPT !.after = @ \ {NextOut}]
      /\ UNCHANGED <<now, run, tick, note, mode, faults, raced>>
  BY DEF SyncPunch, NextOut
<1>i. /\ LogInv /\ RunInv /\ WindowInv /\ SyncInv /\ TickInv /\ GapInv
      /\ LunchIsDeducted /\ now \in Nat
  BY DEF LunchInv
<1> DEFINE p == NextOut
<1>2. p \in Ids /\ ~log[p].synced /\ \A r \in Unsynced : r = p \/ Before(p, r)
  BY <1>1, <1>i, NextIsFirst DEF Unsynced
<1>3. /\ Len(log) \in Nat /\ Ids = 1..Len(log) /\ log \in Seq(Punches)
      /\ \A q \in Ids : log[q] \in Punches
  BY <1>i, LogTyped DEF LogInv
<1> HIDE DEF p
<1>4. log' = [log EXCEPT ![p].synced = TRUE] /\ odoo' = (log[p].act = "clock_in")
      /\ snap' = [snap EXCEPT !.after = @ \ {p}]
  BY <1>1 DEF p
<1>5. ASSUME NEW q \in Ids
      PROVE  log'[q] = IF q = p THEN [log[q] EXCEPT !.synced = TRUE] ELSE log[q]
  <2>1. log = [r \in Ids |-> log[r]]
    BY <1>3 DEF Ids
  <2>2. log' = [r \in Ids |-> IF r = p THEN [log[r] EXCEPT !.synced = TRUE] ELSE log[r]]
    BY <1>4, <2>1, <1>2, Zenon DEF Ids
  <2> QED BY <1>5, <2>2
<1>6. log' \in Seq(Punches) /\ Len(log') = Len(log)
  <2>1. [log[p] EXCEPT !.synced = TRUE] \in Punches
    BY <1>2, <1>3 DEF Punches
  <2> QED BY <1>2, <1>3, <1>4, <2>1
<1>7. \A q \in Ids : /\ log'[q].act = log[q].act /\ log'[q].src = log[q].src
                     /\ log'[q].key = log[q].key
  BY <1>3, <1>5 DEF Punches
<1>8. /\ Ids' = Ids /\ Sorted' = Sorted /\ LastIsIn' = LastIsIn
      /\ AutoOuts' = AutoOuts /\ AutoIns' = AutoIns /\ Undisturbed' = Undisturbed
      /\ \A q \in Ids : SignedOutInGap(q)' = SignedOutInGap(q)
  <2>1. run'.out = run.out /\ run'.in = run.in
    BY <1>1
  <2> QED BY <1>i, <1>6, <1>7, <2>1, SameSides, SameDay
<1>9. LogInv'
  <2>1. \A q \in Ids : 1..q \subseteq Ids
    BY <1>3
  <2> QED BY <1>1, <1>i, <1>6, <1>7, <1>8, <2>1 DEF LogInv
<1>10. RunInv'
  <2>1. AutoOuts \subseteq Ids /\ AutoIns \subseteq Ids
    BY DEF AutoOuts, AutoIns, By
  <2>2. /\ run' = run /\ now' = now /\ mode' = mode
    BY <1>1
  <2>3. ~mode.observe /\ run.state \in {"auto_out", "done", "ended_by_employee"}
         => \E a \in Ids : /\ AutoOuts = {a} /\ log'[a].key = run.out
                          /\ \/ AutoIns = {}
                             \/ \E b \in Ids : AutoIns = {b} /\ a < b /\ log'[b].key = run.in
    BY <1>i, <1>7 DEF RunInv
  <2> QED BY <1>i, <1>8, <2>2, <2>3 DEF RunInv
<1>11. LunchIsDeducted'
  <2>1. AutoOuts \subseteq Ids /\ AutoIns \subseteq Ids
    BY DEF AutoOuts, AutoIns, By
  <2>2. /\ run' = run /\ mode' = mode
    BY <1>1
  <2> QED BY <1>i, <1>7, <1>8, <2>1, <2>2 DEF LunchIsDeducted
<1>12. TickInv'
  <2>1. IsClockedIn' = IsClockedIn
    <3>1. CASE tick.latest \in Ids
      BY <1>1, <1>7, <3>1 DEF IsClockedIn
    <3>2. CASE tick.latest \notin Ids
      <4>1. ~tick.busy \/ tick.latest = 0
        BY <1>3, <1>i, <3>2 DEF TickInv
      <4>2. log'[tick.latest] = log[tick.latest]
        BY <1>2, <1>4, <1>3, <3>2
      <4> QED BY <1>1, <4>2 DEF IsClockedIn
    <3> QED BY <3>1, <3>2
  <2> QED BY <1>1, <1>i, <1>6, <1>8, <2>1 DEF TickInv
<1>13. GapInv'
  BY <1>1, <1>i, <1>8 DEF GapInv
<1>14. SyncInv'
  <2>1. /\ odoo' \in BOOLEAN
        /\ snap' \in [known : BOOLEAN, open : BOOLEAN, after : SUBSET Ids]
        /\ snap'.open = snap.open /\ snap'.after = snap.after \ {p}
    BY <1>i, <1>4 DEF SyncInv
  <2>2. log' # <<>> /\ log # <<>> /\ Len(log) \in Ids
    <3>1. Ids # {}
      BY <1>2
    <3> QED BY <3>1, <1>8, <1>i, LogTyped DEF Ids
  <2>3. \A q \in Ids : log'[q].synced <=> (q = p \/ log[q].synced)
    BY <1>3, <1>5 DEF Punches
  <2>4. ASSUME Sorted
        PROVE  /\ \A q \in Ids : log'[q].synced => \A r \in 1..q : log'[r].synced
               /\ log'[Len(log)].synced => odoo' = LastIsIn
               /\ Len(log) \in snap'.after => snap.open = LastIsIn
    <3>1. \A q \in Ids : log[q].synced => \A r \in 1..q : log[r].synced
      BY <1>i, <2>4 DEF SyncInv
    <3>2. \A r \in 1..p : r = p \/ log[r].synced
      <4> SUFFICES ASSUME NEW r \in 1..p, r # p, ~log[r].synced PROVE FALSE
        OBVIOUS
      <4>1. r \in Unsynced /\ r \in Ids /\ r < p
        BY <1>2, <1>3 DEF Unsynced
      <4>2. Before(p, r)
        BY <1>2, <4>1
      <4>3. log[r].key <= log[p].key
        BY <1>2, <2>4 DEF Sorted
      <4>4. log[r].key \in Nat /\ log[p].key \in Nat /\ r \in Nat /\ p \in Nat
        BY <1>2, <1>3, <4>1 DEF Punches
      <4> QED BY <4>1, <4>2, <4>3, <4>4 DEF Before
    <3>3. ASSUME NEW q \in Ids, log'[q].synced, NEW r \in 1..q PROVE log'[r].synced
      <4>1. r \in Ids /\ q \in Ids
        BY <1>3
      <4> QED BY <2>3, <3>1, <3>2, <3>3, <4>1
    <3>4. log'[Len(log)].synced => odoo' = LastIsIn
      <4> SUFFICES ASSUME log'[Len(log)].synced PROVE odoo' = LastIsIn
        OBVIOUS
      <4>1. p \in 1..Len(log)
        BY <1>2, <1>3
      <4>2. p = Len(log)
        BY <1>2, <2>2, <2>3, <3>1, <4>1
      <4>3. LastIsIn = (log[Len(log)].act = "clock_in")
        BY <1>2 DEF LastIsIn
      <4> QED BY <1>4, <4>2, <4>3
    <3>5. Len(log) \in snap'.after => snap.open = LastIsIn
      BY <1>i, <2>1, <2>4 DEF SyncInv
    <3> QED BY <3>3, <3>4, <3>5
  <2> QED BY <1>6, <1>8, <2>1, <2>2, <2>4 DEF SyncInv
<1>15. now' \in 1..MaxTime /\ faults' \in 0..MaxFaults
       /\ mode' \in [observe : BOOLEAN, flex : BOOLEAN]
  BY <1>1 DEF LunchInv
<1>16. WindowInv'
  BY <1>1, <1>i, <1>7, <1>8, <1>9, WindowStays
<1> QED BY <1>9, <1>10, <1>11, <1>12, <1>13, <1>14, <1>15, <1>16 DEF LunchInv

(* The sign-out is noted (note_employee_clock_out).                        *)
LEMMA NoteKeeps ==
    ASSUME LunchInv, NoteEmployeeClockOut
    PROVE  LunchInv'
<1>1. /\ note.busy /\ note' = [busy |-> FALSE]
      /\ run' = IF run.state = "auto_out" THEN [run EXCEPT !.state = "ended_by_employee"] ELSE run
      /\ UNCHANGED <<now, log, odoo, snap, tick, mode, faults, raced>>
  BY DEF NoteEmployeeClockOut
<1>i. /\ LogInv /\ RunInv /\ WindowInv /\ SyncInv /\ TickInv /\ GapInv
      /\ LunchIsDeducted /\ now \in Nat
  BY DEF LunchInv
<1>2. /\ run \in [state : Terminal \cup {"pending", "auto_out"}, out : Nat, in : Nat]
      /\ log \in Seq(Punches)
  BY <1>i DEF RunInv, LogInv
<1>3. /\ run'.out = run.out /\ run'.in = run.in
      /\ run' \in [state : Terminal \cup {"pending", "auto_out"}, out : Nat, in : Nat]
      /\ run.state # "auto_out" => run' = run
      /\ run.state = "auto_out" => run'.state = "ended_by_employee"
  BY <1>1, <1>2 DEF Terminal
<1>4. /\ Ids' = Ids /\ Sorted' = Sorted /\ LastIsIn' = LastIsIn
      /\ AutoOuts' = AutoOuts /\ AutoIns' = AutoIns /\ Undisturbed' = Undisturbed
      /\ \A q \in Ids : SignedOutInGap(q)' = SignedOutInGap(q)
  BY <1>1, <1>2, <1>3, <1>i, SameSides, SameDay
<1>5. LogInv' /\ SyncInv'
  BY <1>1, <1>4, <1>i DEF LogInv, SyncInv
<1>6. RunInv'
  <2>1. CASE run.state = "auto_out"
    <3>1. /\ run'.state = "ended_by_employee" /\ run'.out = run.out /\ run'.in = run.in
          /\ now' = now /\ mode' = mode /\ log' = log
      BY <1>1, <1>3, <2>1
    <3> QED BY <1>i, <1>3, <1>4, <2>1, <3>1 DEF RunInv
  <2>2. CASE run.state # "auto_out"
    BY <1>1, <1>3, <1>4, <1>i, <2>2 DEF RunInv
  <2> QED BY <2>1, <2>2
<1>7. LunchIsDeducted'
  <2>1. run'.state = "done" => run' = run
    BY <1>3
  <2> QED BY <1>1, <1>4, <1>i, <2>1 DEF LunchIsDeducted
<1>8. TickInv'
  <2>1. IsClockedIn' = IsClockedIn
    BY <1>1 DEF IsClockedIn
  <2>2. tick.busy => \/ tick.run = run' /\ run'.state \notin Terminal
                     \/ /\ tick.run = [run' EXCEPT !.state = "auto_out"]
                        /\ run'.state = "ended_by_employee" /\ raced
    <3> SUFFICES ASSUME tick.busy
                 PROVE  \/ tick.run = run' /\ run'.state \notin Terminal
                        \/ /\ tick.run = [run' EXCEPT !.state = "auto_out"]
                           /\ run'.state = "ended_by_employee" /\ raced
      OBVIOUS
    <3>1. raced
      BY <1>1, <1>i DEF TickInv
    <3>2. CASE run.state = "auto_out"
      <4>1. tick.run = run
        BY <1>i, <3>2 DEF TickInv
      <4>2. run' = [run EXCEPT !.state = "ended_by_employee"]
        BY <1>1, <3>2
      <4>3. [run' EXCEPT !.state = "auto_out"] = run
        BY <1>2, <3>2, <4>2
      <4> QED BY <1>3, <3>1, <3>2, <4>1, <4>3
    <3>3. CASE run.state # "auto_out"
      BY <1>3, <1>i, <3>3 DEF TickInv
    <3> QED BY <3>2, <3>3
  <2>3. note'.busy = FALSE
    BY <1>1
  <2> QED BY <1>1, <1>4, <1>i, <2>1, <2>2, <2>3 DEF TickInv
<1>9. GapInv'
  <2>1. run.state = "auto_out" => AutoIns = {} /\ run'.state \in Terminal
    BY <1>3, <1>i DEF RunInv, Terminal
  <2> QED BY <1>1, <1>3, <1>4, <1>i, <2>1 DEF GapInv
<1>10. now' \in 1..MaxTime /\ faults' \in 0..MaxFaults
       /\ mode' \in [observe : BOOLEAN, flex : BOOLEAN]
  BY <1>1 DEF LunchInv
<1>11. WindowInv'
  <2>1. run.state = "pending" => run'.state = "pending"
    BY <1>3
  <2> QED BY <1>1, <1>i, <1>3, <1>4, <1>5, <2>1, WindowStays
<1> QED BY <1>5, <1>6, <1>7, <1>8, <1>9, <1>10, <1>11 DEF LunchInv

(***************************************************************************)
(* Steps that write a punch                                                *)
(***************************************************************************)
(* A new punch is not in Odoo, and an employee's is of now.                *)
LEMMA AppendKeeps ==
    ASSUME LunchInv, NEW r \in Punches, log' = Append(log, r), ~r.synced,
           r.key \in 1..now, r.src = "employee" => r.key = now,
           UNCHANGED <<now, odoo, snap>>
    PROVE  LogInv' /\ SyncInv'
<1> DEFINE new == Len(log) + 1
<1>i. LogInv /\ SyncInv /\ now \in Nat
  BY DEF LunchInv
<1>3. /\ log' \in Seq(Punches) /\ Len(log') = new
      /\ Ids' = Ids \cup {new} /\ new \notin Ids
      /\ log'[new] = r
      /\ \A p \in Ids : log'[p] = log[p]
      /\ Sorted' => Sorted
  BY <1>i, Appended
<1>4. Len(log) \in Nat /\ Ids = 1..Len(log)
  BY <1>i, LogTyped
<1>5. new \in Nat /\ new # 0 /\ 1..new = Ids'
  BY <1>3, <1>4
<1> HIDE DEF new
<1>6. LogInv'
  <2>1. \A p \in Ids' : log'[p].key \in 1..now
    BY <1>3, <1>i DEF LogInv
  <2>2. ASSUME NEW q \in Ids', log'[q].src = "employee", NEW p \in 1..q
        PROVE  log'[p].key <= log'[q].key
    <3>1. CASE q \in Ids
      <4>1. p \in Ids /\ log'[p] = log[p] /\ log'[q] = log[q]
        BY <1>3, <1>4, <3>1
      <4> QED BY <1>i, <2>2, <3>1, <4>1 DEF LogInv
    <3>2. CASE q = new
      <4>1. p \in Ids' /\ log'[q].key = now
        BY <1>3, <1>5, <2>2, <3>2
      <4>2. log'[p].key \in 1..now
        BY <2>1, <4>1
      <4>3. \A k \in 1..now : k <= now
        BY <1>i
      <4>4. log'[p].key <= now
        BY <4>2, <4>3, Zenon
      <4> QED BY <4>1, <4>4, Zenon
    <3> QED BY <1>3, <3>1, <3>2
  <2> QED BY <1>3, <2>1, <2>2 DEF LogInv
<1>7. SyncInv'
  <2>1. log' # <<>>
    <3>1. Len(log') # 0
      BY <1>3, <1>5
    <3> QED BY <3>1
  <2>2. snap \in [known : BOOLEAN, open : BOOLEAN, after : SUBSET Ids']
    BY <1>3, <1>i DEF SyncInv
  <2>3. new \notin snap.after
    BY <1>3, <1>i DEF SyncInv
  <2>4. ASSUME Sorted', NEW q \in Ids', log'[q].synced
        PROVE  \A p \in 1..q : log'[p].synced
    <3>1. q \in Ids
      BY <1>3, <2>4
    <3>2. \A p \in 1..q : p \in Ids /\ log'[p] = log[p]
      BY <1>3, <1>4, <3>1
    <3>3. log[q].synced /\ Sorted
      BY <1>3, <2>4, <3>1
    <3> QED BY <1>i, <3>1, <3>2, <3>3 DEF SyncInv
  <2>5. ~log'[Len(log')].synced
    BY <1>3
  <2> QED BY <1>3, <1>i, <2>1, <2>2, <2>3, <2>4, <2>5 DEF SyncInv
<1> QED BY <1>6, <1>7

(* The employee punches (kiosk_clock_in, kiosk_clock_out).                 *)
LEMMA PunchKeeps ==
    ASSUME LunchInv, NEW act \in {"clock_in", "clock_out"}, EmployeePunches(act)
    PROVE  LunchInv'
<1> DEFINE r == [act |-> act, key |-> now, src |-> "employee", synced |-> FALSE]
           new == Len(log) + 1
<1>1. /\ ~note.busy
      /\ log' = Append(log, r)
      /\ note' = [busy |-> act = "clock_out" /\ InGap]
      /\ raced' = (raced \/ tick.busy)
      /\ UNCHANGED <<now, odoo, snap, run, tick, mode, faults>>
  BY DEF EmployeePunches, Punch
<1>i. /\ LogInv /\ RunInv /\ WindowInv /\ SyncInv /\ TickInv /\ GapInv
      /\ LunchIsDeducted /\ now \in Nat /\ now >= 1
  BY DEF LunchInv
<1>b. raced \in BOOLEAN /\ tick.busy \in BOOLEAN
  BY <1>i DEF TickInv
<1>c. /\ raced' \in BOOLEAN
      /\ tick.busy => raced'
      /\ ~raced' => ~raced /\ ~tick.busy
  BY <1>1, <1>b, Zenon
<1>2. r \in Punches /\ r.act = act /\ r.key = now /\ r.src = "employee" /\ r.synced = FALSE
  BY <1>i DEF Punches
<1>3. /\ log' \in Seq(Punches) /\ Len(log') = new
      /\ Ids' = Ids \cup {new} /\ new \notin Ids
      /\ log'[new] = r
      /\ \A p \in Ids : log'[p] = log[p]
      /\ LastIsIn' = (r.act = "clock_in")
      /\ Sorted' => Sorted
      /\ \A src, a : By(src, a)' =
            By(src, a) \cup (IF r.src = src /\ r.act = a THEN {new} ELSE {})
  <2> HIDE DEF r
  <2> QED BY <1>1, <1>2, <1>i, Appended
<1> HIDE DEF r
<1>4. Len(log) \in Nat /\ Ids = 1..Len(log) /\ \A p \in Ids : log[p] \in Punches
  BY <1>i, LogTyped
<1>5. AutoOuts' = AutoOuts /\ AutoIns' = AutoIns
  BY <1>2, <1>3 DEF AutoOuts, AutoIns
<1>6. AutoOuts \subseteq Ids /\ AutoIns \subseteq Ids
  BY DEF AutoOuts, AutoIns, By
<1> HIDE DEF new
<1>n. new \in Nat /\ \A p \in Ids : p < new
  BY <1>4 DEF new
<1>7. LogInv' /\ SyncInv'
  <2>1. log' = Append(log, r) /\ r.key \in 1..now
    BY <1>1, <1>2, <1>i
  <2> QED BY <1>1, <1>2, <2>1, AppendKeeps
<1>8. RunInv'
  <2>1. /\ run' = run /\ now' = now /\ mode' = mode
    BY <1>1
  <2>2. ~mode.observe /\ run.state \in {"auto_out", "done", "ended_by_employee"}
         => \E a \in Ids' : /\ AutoOuts = {a} /\ log'[a].key = run.out
                           /\ \/ AutoIns = {}
                              \/ \E b \in Ids' : AutoIns = {b} /\ a < b /\ log'[b].key = run.in
    BY <1>i, <1>3 DEF RunInv
  <2> QED BY <1>i, <1>5, <2>1, <2>2 DEF RunInv
<1>10. ASSUME run.state # "pending" PROVE ~Undisturbed'
  <2>1. run.out <= now /\ run.out \in Nat /\ run' = run
    BY <1>1, <1>10, <1>i DEF RunInv
  <2>2. new \in By("employee", act)'
    BY <1>2, <1>3
  <2>3. new \in (By("employee", "clock_in") \cup By("employee", "clock_out"))'
    BY <2>2
  <2>4. ~(log'[new].key < run'.out)
    BY <1>2, <1>3, <2>1, <1>i
  <2> QED BY <2>3, <2>4 DEF Undisturbed
<1>11. LunchIsDeducted'
  BY <1>1, <1>10 DEF LunchIsDeducted
<1>12. TickInv'
  <2>1. tick.busy => IsClockedIn' = IsClockedIn
    <3>1. tick.busy /\ tick.trust => tick.latest \in Ids
      BY <1>4, <1>i DEF TickInv
    <3> QED BY <1>1, <1>3, <3>1 DEF IsClockedIn
  <2>2. tick.latest \in 0..Len(log)'
    BY <1>3, <1>4, <1>i DEF TickInv, new
  <2>3. note'.busy \in BOOLEAN
    BY <1>1
  <2>4. tick.busy /\ tick.run.state = "auto_out" => run.state # "pending"
    <3>1. run \in [state : Terminal \cup {"pending", "auto_out"}, out : Nat, in : Nat]
      BY <1>i DEF RunInv
    <3> QED BY <1>i, <3>1 DEF TickInv
  <2>5. tick.busy /\ tick.run.state = "auto_out" => ~Undisturbed'
    BY <1>10, <2>4
  <2> QED BY <1>1, <1>c, <1>i, <2>1, <2>2, <2>3, <2>5 DEF TickInv
<1>13. GapInv'
  <2> SUFFICES ASSUME NEW p \in Ids', SignedOutInGap(p)', ~raced'
               PROVE  \/ run'.state = "auto_out" /\ note'.busy
                      \/ run'.state \in Terminal /\ \A q \in AutoIns' : q < p
    BY DEF GapInv
  <2>0. run' = run /\ now' = now /\ ~raced
    BY <1>1, <1>c
  <2>1. CASE p = new
    <3>1. act = "clock_out" /\ run.out # 0 /\ run.out <= now /\ now < run.in
      BY <1>2, <1>3, <2>0, <2>1 DEF SignedOutInGap
    <3>2. run.state # "pending" /\ run.state \in Terminal \cup {"auto_out"}
      BY <1>i, <3>1 DEF RunInv, NoRun
    <3>3. run.state = "auto_out" => note'.busy
      BY <1>1, <3>1 DEF InGap
    <3>4. \A q \in AutoIns' : q < p
      BY <1>5, <1>6, <1>n, <2>1
    <3> QED BY <2>0, <3>2, <3>3, <3>4
  <2>2. CASE p \in Ids
    <3>1. By("employee", "clock_in") \subseteq By("employee", "clock_in")'
      BY <1>3
    <3>2. SignedOutInGap(p)
      BY <1>3, <2>0, <2>2, <3>1 DEF SignedOutInGap
    <3>3. run.state \in Terminal /\ \A q \in AutoIns : q < p
      BY <1>1, <1>i, <2>0, <2>2, <3>2 DEF GapInv
    <3> QED BY <2>0, <1>5, <3>3
  <2> QED BY <1>3, <2>1, <2>2
<1>14. now' \in 1..MaxTime /\ faults' \in 0..MaxFaults
       /\ mode' \in [observe : BOOLEAN, flex : BOOLEAN]
  BY <1>1 DEF LunchInv
<1>15. WindowInv'
  <2>1. \A q \in Ids' \ Ids : log'[q].key = now
    BY <1>2, <1>3
  <2>2. FirstClockIn <= now
    BY <1>i, FirstIsTime
  <2> QED BY <1>1, <1>i, <1>3, <1>7, <2>1, <2>2, WindowStays
<1> QED BY <1>7, <1>8, <1>11, <1>12, <1>13, <1>14, <1>15 DEF LunchInv

(***************************************************************************)
(* A tick reads                                                            *)
(***************************************************************************)
(* What a tick reads of a log in order is its last punch, from the log or  *)
(* from the snapshot (trust_local).                                        *)
LEMMA ReadsLastPunch ==
    ASSUME LunchInv, Sorted
    PROVE  (IF TrustLocal THEN log[Latest].act = "clock_in" ELSE snap.open) = LastIsIn
<1>i. LogInv /\ SyncInv /\ now \in Nat
  BY DEF LunchInv
<1>1. CASE Ids = {}
  <2>1. Latest = 0 /\ log = <<>>
    BY <1>1, <1>i, LogTyped DEF Latest
  <2>2. snap.open = FALSE /\ ~TrustLocal /\ LastIsIn = FALSE
    BY <1>1, <1>i, <2>1 DEF SyncInv, TrustLocal, LastIsIn
  <2> QED BY <2>2
<1>2. CASE Ids # {}
  <2>1. Latest = Len(log) /\ LastIsIn = (log[Len(log)].act = "clock_in")
    BY <1>2, <1>i, LatestIsLast DEF LastIsIn
  <2>2. Len(log) \in Ids /\ Ids = 1..Len(log) /\ Len(log) \in Nat
    BY <1>2, <1>i, LogTyped
  <2>3. CASE TrustLocal
    BY <2>1, <2>3
  <2>4. CASE ~TrustLocal
    <3>1. Len(log) \in snap.after
      BY <2>1, <2>2, <2>4 DEF TrustLocal
    <3>2. snap.open = LastIsIn
      BY <1>i, <3>1 DEF SyncInv
    <3> QED BY <2>4, <3>2
  <2> QED BY <2>3, <2>4
<1> QED BY <1>1, <1>2

(* Before the lunch every punch is the employee's.                         *)
LEMMA PendingIsSorted ==
    ASSUME LunchInv, AutoOuts = {}, AutoIns = {}
    PROVE  Sorted
<1>i. LogInv
  BY DEF LunchInv
<1>1. \A p \in Ids : log[p].src = "employee"
  <2>1. \A p \in Ids : log[p] \in Punches
    BY <1>i, LogTyped
  <2> QED BY <2>1 DEF AutoOuts, AutoIns, By, Punches
<1> QED BY <1>1, <1>i DEF Sorted, LogInv

(* Somebody who has not touched the kiosk since the automatic sign-out is  *)
(* the last thing on a log in order: signed out.                           *)
LEMMA UndisturbedIsOut ==
    ASSUME LunchInv, run.state = "auto_out", ~mode.observe, Undisturbed
    PROVE  Sorted /\ ~LastIsIn
<1>i. LogInv /\ RunInv /\ now \in Nat
  BY DEF LunchInv
<1>1. PICK a \in Ids : AutoOuts = {a} /\ log[a].key = run.out
  BY <1>i DEF RunInv
<1>2. AutoIns = {}
  BY <1>i DEF RunInv
<1>3. /\ Ids = 1..Len(log) /\ Len(log) \in Nat /\ \A p \in Ids : log[p] \in Punches
  BY <1>i, LogTyped
<1>4. ASSUME NEW p \in Ids, p # a
      PROVE  log[p].src = "employee" /\ log[p].key < run.out
  <2>1. log[p].src = "employee"
    <3>1. p \notin AutoOuts /\ p \notin AutoIns
      BY <1>1, <1>2, <1>4
    <3> QED BY <1>3, <1>4, <3>1 DEF AutoOuts, AutoIns, By, Punches
  <2>2. p \in By("employee", "clock_in") \cup By("employee", "clock_out")
    BY <1>3, <1>4, <2>1 DEF By, Punches
  <2> QED BY <2>1, <2>2 DEF Undisturbed
<1>5. run.out \in Nat /\ \A p \in Ids : log[p].key \in Nat
  BY <1>3, <1>i DEF RunInv, Punches
<1>6. ASSUME NEW p \in Ids PROVE p <= a
  <2> SUFFICES ASSUME a < p PROVE FALSE
    BY <1>3, <1>1
  <2>1. a \in 1..p /\ p # a
    BY <1>1, <1>3, <1>6
  <2>2. log[a].key <= log[p].key
    BY <1>i, <1>4, <1>6, <2>1 DEF LogInv
  <2> QED BY <1>1, <1>4, <1>5, <1>6, <2>1, <2>2
<1>7. a = Len(log)
  <2>1. Len(log) \in Ids
    BY <1>1, <1>i, LogTyped
  <2> QED BY <1>1, <1>3, <1>6, <2>1
<1>8. Sorted
  <2> SUFFICES ASSUME NEW q \in Ids, NEW p \in 1..q PROVE log[p].key <= log[q].key
    BY DEF Sorted
  <2>1. p \in Ids
    BY <1>3
  <2>2. CASE q = a
    BY <1>1, <1>4, <1>5, <2>1, <2>2
  <2>3. CASE q # a
    BY <1>4, <1>i, <2>3 DEF LogInv
  <2> QED BY <2>2, <2>3
<1>9. log[a].act = "clock_out"
  BY <1>1 DEF AutoOuts, By
<1> QED BY <1>7, <1>8, <1>9 DEF LastIsIn

LEMMA ReadKeeps ==
    ASSUME LunchInv, ReadTick
    PROVE  LunchInv'
<1>1. /\ ~tick.busy /\ run.state \notin Terminal
      /\ tick' = [busy |-> TRUE, now |-> now, run |-> run, latest |-> Latest,
                  snap |-> snap.open, trust |-> TrustLocal, first |-> FirstClockIn]
      /\ raced' = (raced \/ note.busy)
      /\ UNCHANGED <<now, log, odoo, snap, run, note, mode, faults>>
  BY DEF ReadTick
<1>i. /\ LogInv /\ RunInv /\ SyncInv /\ TickInv /\ GapInv
      /\ now \in Nat /\ now >= 1 /\ now' = now
  BY <1>1 DEF LunchInv
<1>b. raced \in BOOLEAN /\ note.busy \in BOOLEAN
  BY <1>i DEF TickInv
<1>c. /\ raced' \in BOOLEAN
      /\ note.busy => raced'
      /\ ~raced' => ~raced
  BY <1>1, <1>b, Zenon
<1>2. /\ LogInv' /\ RunInv' /\ LunchIsDeducted'
      /\ Ids' = Ids /\ Sorted' = Sorted /\ LastIsIn' = LastIsIn
      /\ AutoIns' = AutoIns /\ Undisturbed' = Undisturbed
      /\ \A p \in Ids : SignedOutInGap(p)' = SignedOutInGap(p)
  <2>1. UNCHANGED <<log, run, mode>> /\ now' \in Nat /\ now <= now'
    BY <1>1, <1>i
  <2> QED BY <2>1, QuietKeeps
<1>3. SyncInv'
  BY <1>1, <1>2, <1>i DEF SyncInv
<1>4. TickInv'
  <2> DEFINE seen == IF TrustLocal THEN log[Latest].act = "clock_in" ELSE snap.open
  <2>1. /\ tick'.busy = TRUE /\ tick'.now = now /\ tick'.run = run /\ tick'.latest = Latest
        /\ tick'.snap = snap.open /\ tick'.trust = TrustLocal /\ tick'.first = FirstClockIn
    BY <1>1
  <2>2. Latest \in 0..Len(log) /\ (TrustLocal => Latest # 0)
    <3>1. CASE Ids = {}
      <4>1. Latest = 0
        BY <3>1 DEF Latest
      <4>2. Len(log) \in Nat
        BY <1>i, LogTyped
      <4> QED BY <4>1, <4>2 DEF TrustLocal
    <3>2. CASE Ids # {}
      <4>1. Latest \in Ids
        BY <3>2, <1>i, LatestIsPunch
      <4> QED BY <4>1, <1>i, LogTyped
    <3> QED BY <3>1, <3>2
  <2>3. FirstClockIn \in 0..now /\ now \in 1..now
    BY <1>i, FirstIsTime
  <2>4. TrustLocal \in BOOLEAN /\ snap.open \in BOOLEAN
    BY <1>i DEF TrustLocal, SyncInv
  <2>5. IsClockedIn' => seen
    BY <1>1, <2>1 DEF IsClockedIn
  <2> HIDE DEF seen
  <2>6. run.state = "pending" /\ IsClockedIn' => LastIsIn
    <3> SUFFICES ASSUME run.state = "pending", IsClockedIn' PROVE LastIsIn
      OBVIOUS
    <3>1. AutoOuts = {} /\ AutoIns = {}
      BY <1>i DEF RunInv
    <3>2. seen = LastIsIn
      BY <3>1, PendingIsSorted, ReadsLastPunch DEF seen
    <3> QED BY <2>5, <3>2
  <2>7. run.state = "auto_out" /\ ~mode.observe /\ Undisturbed => ~IsClockedIn'
    <3> SUFFICES ASSUME run.state = "auto_out", ~mode.observe, Undisturbed
                 PROVE  ~IsClockedIn'
      OBVIOUS
    <3>1. Sorted /\ ~LastIsIn
      BY UndisturbedIsOut
    <3>2. seen = LastIsIn
      BY <3>1, ReadsLastPunch DEF seen
    <3> QED BY <2>5, <3>1, <3>2
  <2>8. /\ run' = run /\ now' = now /\ mode' = mode /\ note' = note
        /\ Len(log)' = Len(log)
    BY <1>1
  <2> QED BY <1>1, <1>2, <1>b, <1>c, <2>1, <2>2, <2>3, <2>4, <2>6, <2>7, <2>8 DEF TickInv
<1>5. GapInv'
  BY <1>1, <1>2, <1>c, <1>i DEF GapInv
<1>6. now' \in 1..MaxTime /\ faults' \in 0..MaxFaults
       /\ mode' \in [observe : BOOLEAN, flex : BOOLEAN]
  BY <1>1 DEF LunchInv
<1>7. WindowInv'
  <2>1. FirstClockIn' = FirstClockIn /\ run' = run /\ mode' = mode
    BY <1>1, <1>2 DEF FirstClockIn
  <2>2. tick'.first = FirstClockIn /\ tick'.run = run
    BY <1>1
  <2>3. WindowInv
    BY DEF LunchInv
  <2> QED BY <2>1, <2>2, <2>3 DEF WindowInv
<1> QED BY <1>2, <1>3, <1>4, <1>5, <1>6, <1>7 DEF LunchInv

(***************************************************************************)
(* A tick writes                                                           *)
(***************************************************************************)
(* What decide makes of the run it has read.                               *)
LEMMA Decisions ==
    ASSUME NEW state \in {"pending", "auto_out"}, NEW isIn \in BOOLEAN,
           NEW w, w.out \in Nat, w.in \in Nat, NEW t \in Nat,
           NEW d, d = Decide(state, isIn, w, t)
    PROVE  \/ d = [state |-> state, act |-> "none", at |-> 0]
           \/ /\ state = "pending" /\ w.out <= t /\ isIn
              /\ d = [state |-> "auto_out", act |-> "clock_out", at |-> w.out]
           \/ /\ state = "pending" /\ w.out <= t /\ ~isIn
              /\ d = [state |-> "skipped", act |-> "none", at |-> 0]
           \/ /\ state = "auto_out" /\ w.in <= t /\ ~isIn
              /\ d = [state |-> "done", act |-> "clock_in", at |-> w.in]
           \/ /\ state = "auto_out" /\ w.in <= t /\ isIn
              /\ d = [state |-> "done", act |-> "none", at |-> 0]
<1>1. CASE state = "pending" /\ t >= w.out /\ isIn
  BY <1>1 DEF Decide
<1>2. CASE state = "pending" /\ t >= w.out /\ ~isIn
  BY <1>2 DEF Decide
<1>3. CASE state = "pending" /\ ~(t >= w.out)
  BY <1>3 DEF Decide
<1>4. CASE state = "auto_out" /\ t >= w.in /\ ~isIn
  BY <1>4 DEF Decide
<1>5. CASE state = "auto_out" /\ t >= w.in /\ isIn
  BY <1>5 DEF Decide
<1>6. CASE state = "auto_out" /\ ~(t >= w.in)
  BY <1>6 DEF Decide
<1> QED BY <1>1, <1>2, <1>3, <1>4, <1>5, <1>6

(* The writes of a tick, one by one (_advance_person).                     *)
IsWindow(out, in) ==
    IF mode.flex
    THEN FirstClockIn # 0 /\ out = FirstClockIn + FlexAfter /\ in = out + FlexLen
    ELSE out < in
Begins(out, in) ==
    /\ run = NoRun /\ tick.run = NoRun /\ IsClockedIn /\ IsWindow(out, in)
    /\ 1 <= out /\ out <= in /\ out <= tick.now
    /\ run' = [state |-> "auto_out", out |-> out, in |-> in]
    /\ log' = IF mode.observe THEN log ELSE Punch("clock_out", "auto_lunch", out)
Skips(out, in) ==
    /\ run = NoRun /\ IsWindow(out, in)
    /\ 1 <= out /\ out <= in /\ out <= tick.now
    /\ run' = [state |-> "skipped", out |-> out, in |-> in]
    /\ log' = log
Returns ==
    /\ tick.run.state = "auto_out" /\ ~IsClockedIn /\ run.in <= tick.now
    /\ run' = [run EXCEPT !.state = "done"]
    /\ log' = IF mode.observe THEN log ELSE Punch("clock_in", "auto_lunch", run.in)
Was ==
    /\ tick.run.state = "auto_out" /\ IsClockedIn /\ run.in <= tick.now
    /\ run' = [run EXCEPT !.state = "done"]
    /\ log' = log

(* The window that is worked out anew (_window_for).                       *)
LEMMA NewWindow ==
    ASSUME NEW r, ~(r.out < r.in), NEW first \in Nat,
           NEW w, w = WindowFor(r, first), w # NoWindow
    PROVE  /\ w.out \in Nat /\ w.in \in Nat
           /\ IF mode.flex
              THEN first # 0 /\ w.out = first + FlexAfter /\ w.in = w.out + FlexLen
              ELSE w.out = OutAt /\ w.in = InAt
<1>1. CASE ~mode.flex
  <2>1. w = [out |-> OutAt, in |-> InAt]
    BY <1>1 DEF WindowFor
  <2> QED BY <1>1, <2>1, LunchAssumption
<1>2. CASE mode.flex
  <2>1. first # 0
    BY <1>2 DEF WindowFor
  <2>2. w = [out |-> first + FlexAfter, in |-> first + FlexAfter + FlexLen]
    BY <1>2, <2>1 DEF WindowFor
  <2> QED BY <1>2, <2>1, <2>2, LunchAssumption
<1> QED BY <1>1, <1>2

LEMMA Advances ==
    ASSUME LunchInv, AdvancePerson
    PROVE  /\ tick.busy /\ tick' = NoTick
           /\ UNCHANGED <<now, odoo, snap, note, mode, faults, raced>>
           /\ \/ log' = log /\ run' = run
              \/ \E out, in \in Nat : Begins(out, in) \/ Skips(out, in)
              \/ Returns \/ Was
<1> DEFINE w == WindowFor(tick.run, tick.first)
           d == Decide(tick.run.state, IsClockedIn, w, tick.now)
<1>1. /\ tick.busy /\ tick' = NoTick
      /\ UNCHANGED <<now, odoo, snap, note, mode, faults, raced>>
      /\ IF w = NoWindow \/ d = [state |-> tick.run.state, act |-> "none", at |-> 0]
         THEN log' = log /\ run' = run
         ELSE /\ log' = IF d.act # "none" /\ ~mode.observe
                        THEN Punch(d.act, "auto_lunch", d.at) ELSE log
              /\ run' = Upsert(d, w)
  BY DEF AdvancePerson
<1>i. RunInv /\ TickInv /\ WindowInv /\ now \in Nat
  BY DEF LunchInv
<1>2. /\ tick.now \in Nat /\ tick.first \in Nat
      /\ \/ tick.run = run /\ run.state \notin Terminal
         \/ /\ tick.run = [run EXCEPT !.state = "auto_out"]
            /\ run.state = "ended_by_employee"
  BY <1>1, <1>i DEF TickInv
<1>3. /\ run \in [state : Terminal \cup {"pending", "auto_out"}, out : Nat, in : Nat]
      /\ IF run.state = "pending" THEN run = NoRun
         ELSE 1 <= run.out /\ run.out <= now /\ run.out <= run.in
  BY <1>i DEF RunInv
<1>4. tick.run.state \in {"pending", "auto_out"} /\ tick.run.out = run.out /\ tick.run.in = run.in
  BY <1>2, <1>3
<1>5. IsClockedIn \in BOOLEAN
  <2>1. tick.snap \in BOOLEAN
    BY <1>1, <1>i DEF TickInv
  <2> QED BY <2>1 DEF IsClockedIn
<1> SUFFICES ASSUME w # NoWindow, d # [state |-> tick.run.state, act |-> "none", at |-> 0]
             PROVE  \/ \E out, in \in Nat : Begins(out, in) \/ Skips(out, in)
                    \/ Returns \/ Was
  BY <1>1
<1>6. /\ log' = IF d.act # "none" /\ ~mode.observe THEN Punch(d.act, "auto_lunch", d.at) ELSE log
      /\ run' = Upsert(d, w)
  BY <1>1
<1>7. CASE tick.run.state = "pending"
  <2>1. run = NoRun /\ tick.run = NoRun /\ ~(NoRun.out < NoRun.in)
    BY <1>2, <1>3, <1>7 DEF NoRun
  <2>2. /\ w.out \in Nat /\ w.in \in Nat
        /\ IF mode.flex
           THEN /\ tick.first # 0
                /\ w.out = tick.first + FlexAfter /\ w.in = w.out + FlexLen
           ELSE w.out = OutAt /\ w.in = InAt
    BY <1>2, <2>1, NewWindow
  <2> HIDE DEF w
  <2>3. 1 <= w.out /\ w.out <= w.in
    BY <1>2, <2>2, LunchAssumption
  <2>4. IsWindow(w.out, w.in)
    BY <1>1, <1>i, <2>2, LunchAssumption DEF WindowInv, IsWindow
  <2>5. \/ /\ w.out <= tick.now /\ IsClockedIn
           /\ d = [state |-> "auto_out", act |-> "clock_out", at |-> w.out]
        \/ /\ w.out <= tick.now
           /\ d = [state |-> "skipped", act |-> "none", at |-> 0]
    BY <1>2, <1>5, <1>7, <2>2, Decisions
  <2> HIDE DEF d
  <2>6. run' = [state |-> d.state, out |-> w.out, in |-> w.in]
    BY <1>6, <2>5 DEF Upsert
  <2>7. Begins(w.out, w.in) \/ Skips(w.out, w.in)
    BY <1>6, <2>1, <2>3, <2>4, <2>5, <2>6 DEF Begins, Skips
  <2> QED BY <2>2, <2>7
<1>8. CASE tick.run.state = "auto_out"
  <2>1. run.state \in {"auto_out", "ended_by_employee"} /\ run.out <= run.in
    BY <1>2, <1>3, <1>8
  <2>2. w.out = run.out /\ w.in = run.in
    <3>1. CASE run.out < run.in
      <4>1. w = [out |-> run.out, in |-> run.in]
        BY <1>4, <3>1 DEF WindowFor
      <4> QED BY <4>1
    <3>2. CASE ~(run.out < run.in)
      <4>1. /\ mode.flex /\ FirstClockIn # 0
            /\ run.out = FirstClockIn + FlexAfter /\ run.in = run.out + FlexLen
        BY <1>i, <2>1, <3>2 DEF WindowInv
      <4>2. tick.first = FirstClockIn
        BY <1>1, <1>8, <1>i, <4>1 DEF WindowInv
      <4>3. w.out = tick.first + FlexAfter /\ w.in = w.out + FlexLen
        BY <1>2, <1>4, <3>2, <4>1, NewWindow
      <4> QED BY <4>1, <4>2, <4>3
    <3> QED BY <3>1, <3>2
  <2>w. w.out \in Nat /\ w.in \in Nat
    BY <1>3, <2>2
  <2> HIDE DEF w
  <2>3. \/ /\ w.in <= tick.now /\ ~IsClockedIn
           /\ d = [state |-> "done", act |-> "clock_in", at |-> w.in]
        \/ /\ w.in <= tick.now /\ IsClockedIn
           /\ d = [state |-> "done", act |-> "none", at |-> 0]
    BY <1>2, <1>5, <1>8, <2>w, Decisions
  <2> HIDE DEF d
  <2>4. run' = [run EXCEPT !.state = "done"]
    <3>1. [state |-> "done", out |-> run.out, in |-> run.in] = [run EXCEPT !.state = "done"]
      BY <1>3
    <3> QED BY <1>6, <2>2, <2>3, <3>1 DEF Upsert
  <2> QED BY <1>6, <1>8, <2>2, <2>3, <2>4 DEF Returns, Was
<1> QED BY <1>4, <1>7, <1>8

(* A window that was just worked out is the one of the run.                *)
LEMMA WindowBegins ==
    ASSUME LogInv, LogInv', now \in Nat, now' \in Nat, NEW out, NEW in,
           IsWindow(out, in), mode' = mode, ~tick'.busy,
           run'.out = out, run'.in = in,
           \A p \in Ids : /\ p \in Ids'
                          /\ log'[p].act = log[p].act /\ log'[p].key = log[p].key,
           \A q \in Ids' \ Ids : log'[q].act # "clock_in"
    PROVE  WindowInv'
<1>1. FirstClockIn # 0 => FirstClockIn' = FirstClockIn
  BY FirstStays
<1> QED BY <1>1 DEF WindowInv, IsWindow

(* The tick is over.                                                       *)
LEMMA TickIsOver ==
    ASSUME LunchInv, tick' = NoTick, note' = note, raced' = raced, log' \in Seq(Punches)
    PROVE  TickInv'
<1>1. note.busy \in BOOLEAN /\ raced \in BOOLEAN
  BY DEF LunchInv, TickInv
<1>2. Len(log') \in Nat
  OBVIOUS
<1>3. ~tick'.busy /\ tick'.busy \in BOOLEAN /\ tick'.latest = 0
  BY DEF NoTick
<1> QED BY <1>1, <1>2, <1>3 DEF TickInv

(* The automatic sign-out: the last punch the tick knew was a clock-in.    *)
LEMMA BeginsKeeps ==
    ASSUME LunchInv, tick.busy, tick' = NoTick,
           UNCHANGED <<now, odoo, snap, note, mode, faults, raced>>,
           NEW out \in Nat, NEW in \in Nat, Begins(out, in)
    PROVE  LunchInv'
<1> DEFINE r == [act |-> "clock_out", key |-> out, src |-> "auto_lunch", synced |-> FALSE]
           new == Len(log) + 1
<1>i. /\ LogInv /\ RunInv /\ SyncInv /\ TickInv /\ now \in Nat
      /\ mode \in [observe : BOOLEAN, flex : BOOLEAN]
  BY DEF LunchInv
<1>1. /\ run = NoRun /\ tick.run = NoRun /\ IsClockedIn /\ IsWindow(out, in)
      /\ 1 <= out /\ out <= in /\ out <= tick.now
      /\ run' = [state |-> "auto_out", out |-> out, in |-> in]
      /\ log' = IF mode.observe THEN log ELSE Append(log, r)
  BY DEF Begins, Punch
<1>2. AutoOuts = {} /\ AutoIns = {} /\ out <= now /\ tick.run.state = "pending"
  BY <1>1, <1>i DEF RunInv, NoRun, TickInv
<1>3. ~raced => LastIsIn
  BY <1>1, <1>2, <1>i DEF TickInv
<1>4. /\ Len(log) \in Nat /\ Ids = 1..Len(log) /\ log \in Seq(Punches)
      /\ \A p \in Ids : log[p] \in Punches
  BY <1>i, LogTyped DEF LogInv
<1>5. /\ run'.state = "auto_out" /\ run'.out = out /\ run'.in = in
      /\ run' \in [state : Terminal \cup {"pending", "auto_out"}, out : Nat, in : Nat]
  BY <1>1
<1>6. r \in Punches /\ r.key = out /\ r.src = "auto_lunch" /\ r.act = "clock_out" /\ ~r.synced
  BY DEF Punches
<1>7. ~raced => Len(log) \in By("employee", "clock_in")
  <2> SUFFICES ASSUME ~raced PROVE Len(log) \in By("employee", "clock_in")
    OBVIOUS
  <2>1. Len(log) \in Ids /\ log[Len(log)].act = "clock_in"
    BY <1>3, <1>4 DEF LastIsIn
  <2>2. log[Len(log)].src # "auto_lunch"
    BY <1>2, <2>1 DEF AutoIns, By
  <2>3. log[Len(log)].src = "employee"
    BY <1>4, <2>1, <2>2 DEF Punches
  <2> QED BY <2>1, <2>3 DEF By
<1>8. now' \in 1..MaxTime /\ faults' \in 0..MaxFaults
      /\ mode' \in [observe : BOOLEAN, flex : BOOLEAN]
  BY DEF LunchInv
<1>9. LunchIsDeducted'
  BY <1>5 DEF LunchIsDeducted
<1> HIDE DEF r
<1>10. CASE mode.observe
  <2>1. log' = log
    BY <1>1, <1>10
  <2>2. Ids' = Ids /\ AutoOuts' = AutoOuts /\ AutoIns' = AutoIns
        /\ Sorted' = Sorted /\ LastIsIn' = LastIsIn
        /\ By("employee", "clock_in")' = By("employee", "clock_in")
    BY <2>1, <1>4, <1>i, SameSides
  <2>3. LogInv' /\ SyncInv'
    BY <2>1, <2>2, <1>i DEF LogInv, SyncInv
  <2>4. RunInv'
    BY <1>1, <1>2, <1>5, <1>10, <2>2 DEF RunInv
  <2>5. TickInv'
    BY <2>1, <1>4, TickIsOver
  <2>6. GapInv'
    <3> SUFFICES ASSUME NEW p \in Ids', SignedOutInGap(p)', ~raced PROVE FALSE
      BY DEF GapInv
    <3>1. Len(log) < p
      BY <1>7, <2>2 DEF SignedOutInGap
    <3> QED BY <1>4, <2>2, <3>1
  <2>7. WindowInv'
    BY <1>1, <1>5, <1>i, <2>1, <2>2, <2>3, WindowBegins DEF NoTick
  <2> QED BY <1>8, <1>9, <2>3, <2>4, <2>5, <2>6, <2>7 DEF LunchInv
<1>11. CASE ~mode.observe
  <2>1. log' = Append(log, r)
    BY <1>1, <1>11
  <2>2. /\ log' \in Seq(Punches) /\ Len(log') = new
        /\ Ids' = Ids \cup {new} /\ new \notin Ids
        /\ log'[new] = r
        /\ \A p \in Ids : log'[p] = log[p]
        /\ \A src, a : By(src, a)' =
              By(src, a) \cup (IF r.src = src /\ r.act = a THEN {new} ELSE {})
    BY <2>1, <1>6, <1>i, Appended
  <2> HIDE DEF new
  <2>3. LogInv' /\ SyncInv'
    <3>1. r.key \in 1..now /\ r.src # "employee"
      BY <1>1, <1>2, <1>6, <1>i
    <3> QED BY <1>6, <2>1, <3>1, AppendKeeps
  <2>4. AutoOuts' = {new} /\ AutoIns' = {}
        /\ By("employee", "clock_in")' = By("employee", "clock_in")
    BY <1>2, <1>6, <2>2 DEF AutoOuts, AutoIns
  <2>5. RunInv'
    <3>1. new \in Ids' /\ log'[new].key = run'.out
      BY <1>5, <1>6, <2>2
    <3>2. \E a \in Ids' : AutoOuts' = {a} /\ log'[a].key = run'.out
      BY <2>4, <3>1
    <3> QED BY <1>1, <1>2, <1>5, <1>11, <2>4, <3>2 DEF RunInv
  <2>6. TickInv'
    BY <2>2, TickIsOver
  <2>7. GapInv'
    <3> SUFFICES ASSUME NEW p \in Ids', SignedOutInGap(p)', ~raced PROVE FALSE
      BY DEF GapInv
    <3>1. Len(log) < p
      BY <1>7, <2>4 DEF SignedOutInGap
    <3>2. p = new
      BY <1>4, <2>2, <3>1
    <3> QED BY <1>6, <2>2, <3>2 DEF SignedOutInGap
  <2>8. WindowInv'
    <3>1. \A q \in Ids' \ Ids : log'[q].act # "clock_in"
      BY <1>6, <2>2
    <3> QED BY <1>1, <1>5, <1>i, <2>2, <2>3, <3>1, WindowBegins DEF NoTick
  <2> QED BY <1>8, <1>9, <2>3, <2>5, <2>6, <2>7, <2>8 DEF LunchInv
<1> QED BY <1>10, <1>11

(* The person is out when the lunch begins: there is no automatic lunch.   *)
LEMMA SkipsKeeps ==
    ASSUME LunchInv, tick.busy, tick' = NoTick,
           UNCHANGED <<now, odoo, snap, note, mode, faults, raced>>,
           NEW out \in Nat, NEW in \in Nat, Skips(out, in)
    PROVE  LunchInv'
<1>i. LogInv /\ RunInv /\ SyncInv /\ TickInv /\ now \in Nat
  BY DEF LunchInv
<1>1. /\ run = NoRun /\ IsWindow(out, in) /\ 1 <= out /\ out <= in /\ out <= tick.now
      /\ run' = [state |-> "skipped", out |-> out, in |-> in]
      /\ log' = log
  BY DEF Skips
<1>2. AutoOuts = {} /\ AutoIns = {} /\ out <= now
  BY <1>1, <1>i DEF RunInv, NoRun, TickInv
<1>3. log' \in Seq(Punches)
  BY <1>1, <1>i DEF LogInv
<1>4. /\ run'.state = "skipped" /\ run'.out = out /\ run'.in = in
      /\ run' \in [state : Terminal \cup {"pending", "auto_out"}, out : Nat, in : Nat]
  BY <1>1 DEF Terminal
<1>5. Ids' = Ids /\ AutoOuts' = AutoOuts /\ AutoIns' = AutoIns
      /\ Sorted' = Sorted /\ LastIsIn' = LastIsIn
  BY <1>1, <1>3, <1>i, SameSides
<1>6. LogInv' /\ SyncInv'
  BY <1>1, <1>5, <1>i DEF LogInv, SyncInv
<1>7. RunInv'
  BY <1>1, <1>2, <1>4, <1>5 DEF RunInv
<1>8. TickInv'
  BY <1>3, TickIsOver
<1>9. GapInv' /\ LunchIsDeducted'
  BY <1>2, <1>4, <1>5 DEF GapInv, LunchIsDeducted, Terminal
<1>10. now' \in 1..MaxTime /\ faults' \in 0..MaxFaults
       /\ mode' \in [observe : BOOLEAN, flex : BOOLEAN]
  BY DEF LunchInv
<1>11. WindowInv'
  BY <1>1, <1>4, <1>5, <1>6, <1>i, WindowBegins DEF NoTick
<1> QED BY <1>6, <1>7, <1>8, <1>9, <1>10, <1>11 DEF LunchInv

(* The automatic sign-in: nobody signed out in the gap, unless inside the  *)
(* tick.                                                                   *)
LEMMA NobodyEnded ==
    ASSUME LunchInv, tick.busy, tick.run.state = "auto_out", ~raced, NEW p \in Ids
    PROVE  ~SignedOutInGap(p)
<1>1. ~note.busy
  BY DEF LunchInv, TickInv
<1>2. run.state = "auto_out"
  BY DEF LunchInv, TickInv
<1> QED BY <1>1, <1>2 DEF LunchInv, GapInv, Terminal

(* The run of a tick that returns a person: it is under way, or the person *)
(* ended it since.                                                         *)
LEMMA ReturnsFrom ==
    ASSUME LunchInv, tick.busy, tick.run.state = "auto_out"
    PROVE  /\ run.state \in {"auto_out", "ended_by_employee"} /\ AutoIns = {}
           /\ run.out \in Nat /\ run.in \in Nat /\ 1 <= run.out
           /\ run.out <= now /\ run.out <= run.in
           /\ tick.now <= now
           /\ mode.observe => AutoOuts = {}
           /\ ~mode.observe => \E a \in Ids : AutoOuts = {a} /\ log[a].key = run.out
<1>i. RunInv /\ TickInv /\ now \in Nat
  BY DEF LunchInv
<1>1. run \in [state : Terminal \cup {"pending", "auto_out"}, out : Nat, in : Nat]
  BY <1>i DEF RunInv
<1>2. run.state \in {"auto_out", "ended_by_employee"}
  BY <1>i, <1>1 DEF TickInv
<1>3. tick.now <= now
  BY <1>i DEF TickInv
<1> QED BY <1>i, <1>1, <1>2, <1>3 DEF RunInv

LEMMA ReturnsKeeps ==
    ASSUME LunchInv, tick.busy, tick' = NoTick,
           UNCHANGED <<now, odoo, snap, note, mode, faults, raced>>, Returns
    PROVE  LunchInv'
<1> DEFINE r == [act |-> "clock_in", key |-> run.in, src |-> "auto_lunch", synced |-> FALSE]
           new == Len(log) + 1
<1>i. /\ LogInv /\ RunInv /\ WindowInv /\ SyncInv /\ TickInv /\ now \in Nat
      /\ mode \in [observe : BOOLEAN, flex : BOOLEAN]
  BY DEF LunchInv
<1>1. /\ tick.run.state = "auto_out" /\ ~IsClockedIn /\ run.in <= tick.now
      /\ run' = [run EXCEPT !.state = "done"]
      /\ log' = IF mode.observe THEN log ELSE Append(log, r)
  BY DEF Returns, Punch
<1>2. /\ AutoIns = {}
      /\ run.out \in Nat /\ run.in \in Nat /\ 1 <= run.out
      /\ run.out <= now /\ run.out <= run.in /\ tick.now <= now
      /\ mode.observe => AutoOuts = {}
      /\ ~mode.observe => \E a \in Ids : AutoOuts = {a} /\ log[a].key = run.out
  BY <1>1, ReturnsFrom
<1>3. run.in \in 1..now
  <2>1. tick.now \in Nat
    BY <1>i DEF TickInv
  <2> QED BY <1>1, <1>2, <1>i, <2>1
<1>4. /\ Len(log) \in Nat /\ Ids = 1..Len(log) /\ log \in Seq(Punches)
      /\ \A p \in Ids : log[p] \in Punches
  BY <1>i, LogTyped DEF LogInv
<1>5. /\ run'.state = "done" /\ run'.out = run.out /\ run'.in = run.in
      /\ run' \in [state : Terminal \cup {"pending", "auto_out"}, out : Nat, in : Nat]
  BY <1>1, <1>i DEF RunInv, Terminal
<1>6. r \in Punches /\ r.key = run.in /\ r.src = "auto_lunch" /\ r.act = "clock_in" /\ ~r.synced
  BY <1>2 DEF Punches
<1>7. \A p \in Ids : ~raced => ~SignedOutInGap(p)
  BY <1>1, NobodyEnded
<1>8. now' \in 1..MaxTime /\ faults' \in 0..MaxFaults
      /\ mode' \in [observe : BOOLEAN, flex : BOOLEAN]
  BY DEF LunchInv
<1>p. run.state # "pending"
  BY <1>1, ReturnsFrom
<1> HIDE DEF r
<1>10. CASE mode.observe
  <2>1. log' = log
    BY <1>1, <1>10
  <2>2. /\ Ids' = Ids /\ AutoOuts' = AutoOuts /\ AutoIns' = AutoIns
        /\ Sorted' = Sorted /\ LastIsIn' = LastIsIn
        /\ \A p \in Ids : SignedOutInGap(p)' = SignedOutInGap(p)
    BY <2>1, <1>4, <1>5, <1>i, SameSides, SameDay
  <2>3. LogInv' /\ SyncInv'
    BY <2>1, <2>2, <1>i DEF LogInv, SyncInv
  <2>4. RunInv'
    BY <1>2, <1>5, <1>10, <2>2 DEF RunInv
  <2>5. TickInv'
    BY <2>1, <1>4, TickIsOver
  <2>6. GapInv'
    BY <1>7, <2>2 DEF GapInv
  <2>7. LunchIsDeducted'
    BY <1>10 DEF LunchIsDeducted
  <2>8. WindowInv'
    BY <1>5, <1>i, <1>p, <2>1, <2>2, <2>3, WindowStays DEF NoTick
  <2> QED BY <1>8, <2>3, <2>4, <2>5, <2>6, <2>7, <2>8 DEF LunchInv
<1>11. CASE ~mode.observe
  <2>1. log' = Append(log, r)
    BY <1>1, <1>11
  <2>2. /\ log' \in Seq(Punches) /\ Len(log') = new
        /\ Ids' = Ids \cup {new} /\ new \notin Ids
        /\ log'[new] = r
        /\ \A p \in Ids : log'[p] = log[p]
        /\ \A src, a : By(src, a)' =
              By(src, a) \cup (IF r.src = src /\ r.act = a THEN {new} ELSE {})
    BY <2>1, <1>6, <1>i, Appended
  <2>n. \A p \in Ids : p < new
    BY <1>4
  <2> HIDE DEF new
  <2>3. LogInv' /\ SyncInv'
    <3>1. r.key \in 1..now /\ r.src # "employee"
      BY <1>3, <1>6
    <3> QED BY <1>6, <2>1, <3>1, AppendKeeps
  <2>4. AutoOuts' = AutoOuts /\ AutoIns' = {new}
        /\ By("employee", "clock_in")' = By("employee", "clock_in")
    BY <1>2, <1>6, <2>2 DEF AutoOuts, AutoIns
  <2>a. PICK a \in Ids : AutoOuts = {a} /\ log[a].key = run.out
    BY <1>2, <1>11
  <2>b. /\ a \in Ids' /\ new \in Ids' /\ a < new
        /\ log'[a].key = run'.out /\ log'[new].key = run'.in
    BY <1>5, <1>6, <2>2, <2>n, <2>a
  <2>5. RunInv'
    <3>1. \E c \in Ids' : /\ AutoOuts' = {c} /\ log'[c].key = run'.out
                          /\ \/ AutoIns' = {}
                             \/ \E b \in Ids' : AutoIns' = {b} /\ c < b /\ log'[b].key = run'.in
      BY <2>4, <2>a, <2>b
    <3> QED BY <1>2, <1>5, <1>11, <2>4, <3>1 DEF RunInv
  <2>6. TickInv'
    BY <2>2, TickIsOver
  <2>7. GapInv'
    <3> SUFFICES ASSUME NEW p \in Ids', SignedOutInGap(p)', ~raced PROVE FALSE
      BY DEF GapInv
    <3>1. p # new
      BY <1>6, <2>2 DEF SignedOutInGap
    <3>2. p \in Ids
      BY <2>2, <3>1
    <3>3. SignedOutInGap(p)
      BY <1>5, <2>2, <2>4, <3>2 DEF SignedOutInGap
    <3> QED BY <1>7, <3>2, <3>3
  <2>8. LunchIsDeducted'
    BY <2>4, <2>a, <2>b DEF LunchIsDeducted
  <2>9. WindowInv'
    <3>1. mode.flex => FirstClockIn <= run.in
      <4>1. mode.flex => /\ run.out = FirstClockIn + FlexAfter
                         /\ FirstClockIn \in Nat
        BY <1>i, <1>p, FirstIsTime DEF WindowInv
      <4> QED BY <1>2, <4>1, LunchAssumption
    <3>2. \A q \in Ids' \ Ids : log'[q].key = run.in
      BY <1>6, <2>2
    <3> QED BY <1>5, <1>i, <1>p, <2>2, <2>3, <3>1, <3>2, WindowStays DEF NoTick
  <2> QED BY <1>8, <2>3, <2>5, <2>6, <2>7, <2>8, <2>9 DEF LunchInv
<1> QED BY <1>10, <1>11

(* The person is in already: the run ends without a punch. Nobody who      *)
(* worked through is taken for one of these.                               *)
LEMMA WasKeeps ==
    ASSUME LunchInv, tick.busy, tick' = NoTick,
           UNCHANGED <<now, odoo, snap, note, mode, faults, raced>>, Was
    PROVE  LunchInv'
<1>i. LogInv /\ RunInv /\ WindowInv /\ SyncInv /\ TickInv /\ now \in Nat
  BY DEF LunchInv
<1>1. /\ tick.run.state = "auto_out" /\ IsClockedIn
      /\ run' = [run EXCEPT !.state = "done"]
      /\ log' = log
  BY DEF Was
<1>2. /\ AutoIns = {}
      /\ run.out \in Nat /\ run.in \in Nat /\ 1 <= run.out
      /\ run.out <= now /\ run.out <= run.in
      /\ mode.observe => AutoOuts = {}
      /\ ~mode.observe => \E a \in Ids : AutoOuts = {a} /\ log[a].key = run.out
  BY <1>1, ReturnsFrom
<1>3. log' \in Seq(Punches)
  BY <1>1, <1>i DEF LogInv
<1>4. /\ run'.state = "done" /\ run'.out = run.out /\ run'.in = run.in
      /\ run' \in [state : Terminal \cup {"pending", "auto_out"}, out : Nat, in : Nat]
  BY <1>1, <1>i DEF RunInv, Terminal
<1>5. /\ Ids' = Ids /\ AutoOuts' = AutoOuts /\ AutoIns' = AutoIns
      /\ Sorted' = Sorted /\ LastIsIn' = LastIsIn /\ Undisturbed' = Undisturbed
  BY <1>1, <1>3, <1>4, <1>i, SameSides, SameDay
<1>6. LogInv' /\ SyncInv'
  BY <1>1, <1>5, <1>i DEF LogInv, SyncInv
<1>7. RunInv'
  BY <1>1, <1>2, <1>4, <1>5 DEF RunInv
<1>8. TickInv'
  BY <1>3, TickIsOver
<1>9. GapInv'
  BY <1>2, <1>4, <1>5 DEF GapInv, Terminal
<1>10. LunchIsDeducted'
  <2>1. ~mode.observe => ~Undisturbed
    BY <1>1, <1>i DEF TickInv
  <2> QED BY <1>5, <2>1 DEF LunchIsDeducted
<1>11. now' \in 1..MaxTime /\ faults' \in 0..MaxFaults
       /\ mode' \in [observe : BOOLEAN, flex : BOOLEAN]
  BY DEF LunchInv
<1>12. WindowInv'
  <2>1. run.state # "pending"
    BY <1>1, ReturnsFrom
  <2> QED BY <1>1, <1>4, <1>5, <1>6, <1>i, <2>1, WindowStays DEF NoTick
<1> QED BY <1>6, <1>7, <1>8, <1>9, <1>10, <1>11, <1>12 DEF LunchInv

(* _advance_person as a whole.                                             *)
LEMMA AdvanceKeeps ==
    ASSUME LunchInv, AdvancePerson
    PROVE  LunchInv'
<1>1. /\ tick.busy /\ tick' = NoTick
      /\ UNCHANGED <<now, odoo, snap, note, mode, faults, raced>>
      /\ \/ log' = log /\ run' = run
         \/ \E out, in \in Nat : Begins(out, in) \/ Skips(out, in)
         \/ Returns \/ Was
  BY Advances
<1>2. CASE log' = log /\ run' = run
  <2>1. now \in Nat /\ now <= now' /\ now' \in Nat
    BY <1>1 DEF LunchInv
  <2>2. /\ LogInv' /\ RunInv' /\ LunchIsDeducted' /\ WindowInv'
        /\ Ids' = Ids /\ Sorted' = Sorted /\ LastIsIn' = LastIsIn
        /\ AutoIns' = AutoIns
        /\ \A p \in Ids : SignedOutInGap(p)' = SignedOutInGap(p)
    <3>1. ~tick'.busy
      BY <1>1 DEF NoTick
    <3> QED BY <1>1, <1>2, <2>1, <3>1, QuietKeeps
  <2>3. SyncInv' /\ GapInv'
    BY <1>1, <1>2, <2>2 DEF LunchInv, SyncInv, GapInv
  <2>4. TickInv'
    <3>1. log' \in Seq(Punches)
      BY <1>2 DEF LunchInv, LogInv
    <3> QED BY <1>1, <3>1, TickIsOver
  <2>5. now' \in 1..MaxTime /\ faults' \in 0..MaxFaults
        /\ mode' \in [observe : BOOLEAN, flex : BOOLEAN]
    BY <1>1 DEF LunchInv
  <2> QED BY <2>2, <2>3, <2>4, <2>5 DEF LunchInv
<1>3. ASSUME NEW out \in Nat, NEW in \in Nat, Begins(out, in) \/ Skips(out, in)
      PROVE  LunchInv'
  BY <1>1, <1>3, BeginsKeeps, SkipsKeeps
<1>4. CASE Returns \/ Was
  BY <1>1, <1>4, ReturnsKeeps, WasKeeps
<1> QED BY <1>1, <1>2, <1>3, <1>4

(***************************************************************************)
(* The theorems                                                            *)
(***************************************************************************)
LEMMA LunchStepKeeps == LunchInv /\ [Next]_vars => LunchInv'
<1> SUFFICES ASSUME LunchInv, [Next]_vars PROVE LunchInv'
  OBVIOUS
<1>1. ASSUME NEW act \in {"clock_in", "clock_out"}, EmployeePunches(act)
      PROVE  LunchInv'
  BY <1>1, PunchKeeps
<1>2. CASE UNCHANGED vars
  <2>1. /\ UNCHANGED <<log, run, mode>>
        /\ UNCHANGED <<now, odoo, snap, tick, note, faults, raced>>
    BY <1>2 DEF vars
  <2>2. now \in Nat /\ now <= now' /\ now' \in Nat
    BY <2>1 DEF LunchInv
  <2>3. /\ LogInv' /\ RunInv' /\ LunchIsDeducted' /\ WindowInv'
        /\ Ids' = Ids /\ Sorted' = Sorted /\ LastIsIn' = LastIsIn
        /\ AutoIns' = AutoIns /\ Undisturbed' = Undisturbed
        /\ \A p \in Ids : SignedOutInGap(p)' = SignedOutInGap(p)
    BY <2>1, <2>2, QuietKeeps
  <2>4. SyncInv' /\ GapInv'
    BY <2>1, <2>3 DEF LunchInv, SyncInv, GapInv
  <2>5. TickInv'
    <3>1. IsClockedIn' = IsClockedIn
      BY <2>1 DEF IsClockedIn
    <3> QED BY <2>1, <2>3, <3>1 DEF LunchInv, TickInv
  <2> QED BY <2>1, <2>3, <2>4, <2>5 DEF LunchInv
<1> QED BY <1>1, <1>2, ClockKeeps, NoteKeeps, SyncKeeps, RefreshKeeps, ReadKeeps,
           AdvanceKeeps, FaultKeeps DEF Next

(* The inductive invariant (run_tick, note_employee_clock_out): what a     *)
(* tick has read still holds but for what the employee did since, and Odoo *)
(* and its snapshot lag behind the log by a suffix.                        *)
THEOREM LunchInvariant == Spec => []LunchInv
BY LunchStarts, LunchStepKeeps, PTL DEF Spec

(* One automatic sign-out and sign-in a day, the lunch of the window for   *)
(* whoever works through, and no sign-in for whoever signed out in the gap *)
(* (auto_lunch.py:423, :546; attendance_state.py:80).                      *)
THEOREM LunchIsSafe == Spec => []LunchIsRight
BY LunchInvariant, RightByInv, PTL

(***************************************************************************)
(* The salaried day                                                        *)
(***************************************************************************)
(* The punches and the attendances of the day, by number.                  *)
LEMMA DayTypes ==
    ASSUME DayTyped
    PROVE  /\ Len(dayLog) \in Nat /\ DOMAIN dayLog = 1..Len(dayLog)
           /\ \A p \in DOMAIN dayLog :
                 /\ dayLog[p] \in PunchRows
                 /\ dayLog[p].slot \in 0..4 /\ dayLog[p].synced \in BOOLEAN /\ dayLog[p].att \in Nat
           /\ Len(dayOdoo) \in Nat /\ DOMAIN dayOdoo = 1..Len(dayOdoo)
           /\ \A a \in DOMAIN dayOdoo :
                 /\ dayOdoo[a] \in AttendanceRows
                 /\ dayOdoo[a].in \in 0..4 /\ dayOdoo[a].out \in 0..4 /\ dayOdoo[a].gone \in BOOLEAN
           /\ Len(dayRun.slots) \in Nat /\ DOMAIN dayRun.slots = 1..Len(dayRun.slots)
           /\ \A i \in DOMAIN dayRun.slots : dayRun.slots[i] \in Nat
           /\ Len(tk.run.slots) \in Nat /\ DOMAIN tk.run.slots = 1..Len(tk.run.slots)
           /\ \A t \in Threads : sync[t].p \in Nat /\ sync[t].seen \in Nat
<1>1. dayLog \in Seq(PunchRows)
  BY DEF DayTyped
<1>2. dayOdoo \in Seq(AttendanceRows)
  BY DEF DayTyped
<1>3. dayRun.slots \in Seq(Nat) /\ tk.run.slots \in Seq(Nat)
  BY DEF DayTyped, Runs, Ticks
<1>4. \A t \in Threads : sync[t].p \in Nat /\ sync[t].seen \in Nat
  BY DEF DayTyped, Syncs
<1>5. /\ Len(dayLog) \in Nat /\ DOMAIN dayLog = 1..Len(dayLog)
      /\ \A p \in DOMAIN dayLog : dayLog[p] \in PunchRows
  BY <1>1
<1>6. /\ Len(dayOdoo) \in Nat /\ DOMAIN dayOdoo = 1..Len(dayOdoo)
      /\ \A a \in DOMAIN dayOdoo : dayOdoo[a] \in AttendanceRows
  BY <1>2
<1>7. /\ Len(dayRun.slots) \in Nat /\ DOMAIN dayRun.slots = 1..Len(dayRun.slots)
      /\ \A i \in DOMAIN dayRun.slots : dayRun.slots[i] \in Nat
      /\ Len(tk.run.slots) \in Nat /\ DOMAIN tk.run.slots = 1..Len(tk.run.slots)
  BY <1>3
<1>8. \A p \in DOMAIN dayLog :
         dayLog[p].slot \in 0..4 /\ dayLog[p].synced \in BOOLEAN /\ dayLog[p].att \in Nat
  BY <1>5 DEF PunchRows
<1>9. \A a \in DOMAIN dayOdoo :
         dayOdoo[a].in \in 0..4 /\ dayOdoo[a].out \in 0..4 /\ dayOdoo[a].gone \in BOOLEAN
  BY <1>6 DEF AttendanceRows
<1> QED BY <1>4, <1>5, <1>6, <1>7, <1>8, <1>9

(* What _retry_one finds open is an open attendance of the day, or none    *)
(* (get_current_attendance).                                               *)
LEMMA OpenedTyped ==
    ASSUME DayTyped
    PROVE  /\ Opened \in 0..Len(dayOdoo)
           /\ OpenRows # {} => Opened \in OpenRows
<1>1. /\ Len(dayOdoo) \in Nat /\ OpenRows \in SUBSET Nat
      /\ \A a \in OpenRows : a <= Len(dayOdoo) /\ a \in 0..Len(dayOdoo)
  BY DayTypes DEF OpenRows
<1>2. CASE OpenRows = {}
  BY <1>1, <1>2 DEF Opened
<1>3. CASE OpenRows # {}
  <2>1. \E a \in OpenRows : \A b \in OpenRows : b <= a
    BY <1>1, <1>3, Largest
  <2>2. Opened = CHOOSE a \in OpenRows : \A b \in OpenRows : b <= a
    BY <1>3 DEF Opened
  <2>3. Opened \in OpenRows
    BY <2>1, <2>2
  <2> QED BY <2>3, <1>1
<1> QED BY <1>2, <1>3

(* The sweep begins with an unsynced row (retry_unsynced_punches).         *)
LEMMA OldestTyped ==
    ASSUME DayTyped, UnsyncedSlots # {},
           NEW oldest, oldest = CHOOSE p \in UnsyncedSlots : \A q \in UnsyncedSlots : p <= q
    PROVE  oldest \in UnsyncedSlots
<1>1. UnsyncedSlots \in SUBSET Nat
  BY DayTypes DEF UnsyncedSlots
<1>2. \E p \in UnsyncedSlots : \A q \in UnsyncedSlots : p <= q
  BY <1>1, Smallest
<1> QED BY <1>2

(* What a sync writes is the attendances of the day (_retry_one).          *)
LEMMA WrittenTyped ==
    ASSUME DayTyped, NumbersInv, NEW t \in Threads, sync[t].pc # "idle"
    PROVE  /\ Written(t) \in Seq(AttendanceRows)
           /\ Len(Written(t)) \in {Len(dayOdoo), Len(dayOdoo) + 1}
           /\ \A a \in DOMAIN dayOdoo :
                 a \in DOMAIN Written(t)
                 /\ Written(t)[a].in = dayOdoo[a].in /\ Written(t)[a].gone = dayOdoo[a].gone
           /\ \A a \in DOMAIN Written(t) \ DOMAIN dayOdoo :
                 Written(t)[a].in = dayLog[sync[t].p].slot /\ ~Written(t)[a].gone
<1> DEFINE slot == dayLog[sync[t].p].slot
<1>1. slot \in 0..4 /\ sync[t].seen \in 0..Len(dayOdoo)
  BY DayTypes DEF NumbersInv
<1>2. dayOdoo \in Seq(AttendanceRows)
  BY DEF DayTyped
<1> DEFINE new == [in |-> slot, out |-> 0, gone |-> FALSE]
<1>3. CASE Written(t) = dayOdoo
  BY <1>2, <1>3
<1>4. CASE Written(t) = [dayOdoo EXCEPT ![sync[t].seen].out = slot] /\ sync[t].seen # 0
  <2>1. sync[t].seen \in DOMAIN dayOdoo
    BY <1>1, <1>2, <1>4
  <2> HIDE DEF slot
  <2>2. dayOdoo[sync[t].seen] \in AttendanceRows
    BY <1>2, <2>1
  <2>3. Written(t) = [dayOdoo EXCEPT ![sync[t].seen] = [dayOdoo[sync[t].seen] EXCEPT !.out = slot]]
    BY <1>4
  <2>4. /\ [dayOdoo[sync[t].seen] EXCEPT !.out = slot] \in AttendanceRows
        /\ [dayOdoo[sync[t].seen] EXCEPT !.out = slot].in = dayOdoo[sync[t].seen].in
        /\ [dayOdoo[sync[t].seen] EXCEPT !.out = slot].gone = dayOdoo[sync[t].seen].gone
    BY <1>1, <2>2 DEF AttendanceRows
  <2>5. /\ Written(t) \in Seq(AttendanceRows)
        /\ Len(Written(t)) = Len(dayOdoo) /\ DOMAIN Written(t) = DOMAIN dayOdoo
    BY <1>2, <2>1, <2>3, <2>4
  <2> QED BY <2>1, <2>3, <2>4, <2>5
<1>5. CASE Written(t) = Append(dayOdoo, new)
  <2>1. new \in AttendanceRows /\ new.in = slot /\ ~new.gone
    BY <1>1 DEF AttendanceRows
  <2> HIDE DEF new, slot
  <2>2. Len(dayOdoo) \in Nat /\ DOMAIN dayOdoo = 1..Len(dayOdoo)
    BY <1>2
  <2>3. /\ Written(t) \in Seq(AttendanceRows)
        /\ Len(Written(t)) = Len(dayOdoo) + 1 /\ DOMAIN Written(t) = 1..(Len(dayOdoo) + 1)
        /\ \A a \in 1..Len(dayOdoo) : Written(t)[a] = dayOdoo[a]
        /\ Written(t)[Len(dayOdoo) + 1] = new
    BY <1>2, <1>5, <2>1
  <2>4. \A a \in DOMAIN Written(t) \ DOMAIN dayOdoo : a = Len(dayOdoo) + 1
    BY <2>2, <2>3
  <2>5. \A a \in DOMAIN dayOdoo : a \in DOMAIN Written(t)
    BY <2>2, <2>3
  <2>6. \A a \in DOMAIN Written(t) \ DOMAIN dayOdoo : Written(t)[a] = new
    BY <2>3, <2>4
  <2>7. \A a \in DOMAIN dayOdoo : Written(t)[a] = dayOdoo[a]
    BY <2>2, <2>3
  <2> QED BY <2>1, <2>3, <2>5, <2>6, <2>7 DEF slot
<1> QED BY <1>3, <1>4, <1>5 DEF Written

(* The places of the loops.                                                *)
LEMMA PlacesTyped ==
    /\ NoDayRun \in Runs /\ IdleTick \in Ticks /\ IdleRc \in Reverts
    /\ IdleSync \in Syncs /\ \A p \in Nat : Looking(p) \in Syncs
    /\ IdleSync.seen = 0 /\ IdleSync.pc = "idle" /\ IdleTick.pc = "idle" /\ IdleTick.run = NoDayRun
    /\ IdleRc.pc = "idle" /\ IdleRc.own = {}
    /\ \A p : Looking(p).p = p /\ Looking(p).seen = 0 /\ Looking(p).pc = "look"
<1>1. NoDayRun \in Runs
  BY DEF NoDayRun, Runs
<1>2. IdleTick \in Ticks
  BY <1>1 DEF IdleTick, Ticks
<1> QED BY <1>1, <1>2 DEF IdleRc, Reverts, IdleSync, Looking, Syncs, IdleTick

(* A further slot keeps the run and what the worker holds of it typed.     *)
LEMMA NewSlotTyped ==
    ASSUME DayTyped, NEW slot \in Nat
    PROVE  /\ [dayRun EXCEPT !.slots = Append(@, slot)] \in Runs
           /\ [tk EXCEPT !.run.slots = Append(@, slot)] \in Ticks
<1>1. dayRun \in Runs /\ tk \in Ticks /\ tk.run \in Runs
  BY DEF DayTyped, Ticks
<1>2. Append(dayRun.slots, slot) \in Seq(Nat) /\ Append(tk.run.slots, slot) \in Seq(Nat)
  BY <1>1 DEF Runs
<1>3. [dayRun EXCEPT !.slots = Append(@, slot)] \in Runs
  BY <1>1, <1>2 DEF Runs
<1>4. [tk.run EXCEPT !.slots = Append(@, slot)] \in Runs
  BY <1>1, <1>2 DEF Runs
<1>5. [tk EXCEPT !.run.slots = Append(@, slot)]
         = [tk EXCEPT !.run = [tk.run EXCEPT !.slots = Append(@, slot)]]
  BY <1>1 DEF Ticks
<1>6. \A r \in Runs : [tk EXCEPT !.run = r] \in Ticks
  BY <1>1 DEF Ticks
<1> QED BY <1>3, <1>4, <1>5, <1>6

(* What the reconciler leaves are the attendances of the day (DeleteAttendances). *)
LEMMA WithoutOwnTyped ==
    ASSUME DayTyped
    PROVE  /\ WithoutOwn \in Seq(AttendanceRows)
           /\ Len(WithoutOwn) = Len(dayOdoo) /\ DOMAIN WithoutOwn = DOMAIN dayOdoo
           /\ \A a \in DOMAIN dayOdoo :
                 /\ WithoutOwn[a].in = dayOdoo[a].in /\ WithoutOwn[a].out = dayOdoo[a].out
                 /\ WithoutOwn[a].gone = (dayOdoo[a].gone \/ a \in rc.own)
<1>1. \A r \in AttendanceRows : /\ [r EXCEPT !.gone = TRUE] \in AttendanceRows
                                /\ [r EXCEPT !.gone = TRUE].in = r.in
                                /\ [r EXCEPT !.gone = TRUE].out = r.out
                                /\ [r EXCEPT !.gone = TRUE].gone = TRUE
  BY DEF AttendanceRows
<1>2. /\ Len(dayOdoo) \in Nat /\ DOMAIN dayOdoo = 1..Len(dayOdoo)
      /\ \A a \in DOMAIN dayOdoo : dayOdoo[a] \in AttendanceRows /\ dayOdoo[a].gone \in BOOLEAN
  BY DayTypes
<1>3. \A a \in DOMAIN dayOdoo : WithoutOwn[a] \in AttendanceRows
  BY <1>1, <1>2 DEF WithoutOwn
<1>4. DOMAIN WithoutOwn = 1..Len(dayOdoo)
  BY <1>2 DEF WithoutOwn
<1>5. WithoutOwn \in Seq(AttendanceRows) /\ Len(WithoutOwn) = Len(dayOdoo)
  <2>1. WithoutOwn \in [1..Len(dayOdoo) -> AttendanceRows]
    BY <1>2, <1>3 DEF WithoutOwn
  <2> QED BY <2>1, <1>2
<1>6. \A a \in DOMAIN dayOdoo :
         /\ WithoutOwn[a].in = dayOdoo[a].in /\ WithoutOwn[a].out = dayOdoo[a].out
         /\ WithoutOwn[a].gone = (dayOdoo[a].gone \/ a \in rc.own)
  BY <1>1, <1>2 DEF WithoutOwn
<1> QED BY <1>2, <1>4, <1>5, <1>6

(* Every variable keeps its type.                                          *)
LEMMA DayTypedHolds ==
    ASSUME DayInv, [DayNext]_dayVars
    PROVE  DayTyped'
<1>1. CASE DayClock
  BY <1>1, PlacesTyped, DayAssumption DEF DayInv, DayTyped, Threads, dayVars, DayClock
<1>2. CASE ApproveLeave
  BY <1>2, PlacesTyped, DayAssumption DEF DayInv, DayTyped, Threads, dayVars, ApproveLeave
<1>3. CASE ForeignPunch
  <2> USE <1>3 DEF DayInv, ForeignPunch
  <2>1. [slot |-> 0, synced |-> FALSE, att |-> 0] \in PunchRows
    BY DEF PunchRows
  <2>2. dayLog' \in Seq(PunchRows)
    BY <2>1 DEF DayTyped
  <2> QED BY <2>1, <2>2, PlacesTyped DEF DayTyped, Threads
<1>4. CASE ManualAttendance
  <2> USE <1>4 DEF DayInv, ManualAttendance
  <2>1. [in |-> 0, out |-> 0, gone |-> FALSE] \in AttendanceRows
    BY DEF AttendanceRows
  <2>2. dayOdoo' \in Seq(AttendanceRows)
    BY <2>1 DEF DayTyped
  <2> QED BY <2>1, <2>2, PlacesTyped DEF DayTyped, Threads
<1>5. CASE ReadDay
  <2> USE <1>5 DEF DayInv, ReadDay
  <2>1. tk' \in Ticks
    BY DEF DayTyped, Ticks
  <2> QED BY <2>1, PlacesTyped DEF DayTyped, Threads
<1>6. CASE Enroll
  <2> USE <1>6 DEF DayInv, Enroll
  <2>1. \A c \in {"skipped", "no"} : [NoDayRun EXCEPT !.exists = TRUE, !.closed = c] \in Runs
    BY PlacesTyped DEF Runs
  <2>2. [NoDayRun EXCEPT !.exists = TRUE] \in Runs
    BY PlacesTyped DEF Runs
  <2>3. \A r \in Runs : [tk EXCEPT !.run = r] \in Ticks
    BY DEF DayTyped, Ticks
  <2>4. dayRun' \in Runs /\ tk' \in Ticks
    BY <2>1, <2>2, <2>3, PlacesTyped DEF DayTyped
  <2> QED BY <2>1, <2>2, <2>3, <2>4, PlacesTyped DEF DayTyped, Threads
<1>7. CASE PunchSlot
  <2> USE <1>7 DEF DayInv, PunchSlot
  <2>1. Len(dayLog) + 1 \in Nat
    BY DayTypes
  <2>2. [dayRun EXCEPT !.slots = Append(@, Len(dayLog) + 1)] \in Runs
        /\ [tk EXCEPT !.run.slots = Append(@, Len(dayLog) + 1)] \in Ticks
    BY <2>1, NewSlotTyped
  <2>3. [slot |-> NextSlot, synced |-> FALSE, att |-> 0] \in PunchRows
    BY DEF PunchRows, Slots
  <2>4. Append(dayLog, [slot |-> NextSlot, synced |-> FALSE, att |-> 0]) \in Seq(PunchRows)
    BY <2>3 DEF DayTyped
  <2>5. [sync EXCEPT !["worker"] = Looking(Len(dayLog) + 1)] \in [Threads -> Syncs]
    BY <2>1, PlacesTyped DEF DayTyped, Threads
  <2>6. dayRun' \in Runs /\ tk' \in Ticks /\ dayLog' \in Seq(PunchRows)
    BY <2>2, <2>4, PlacesTyped DEF DayTyped
  <2>7. sync' \in [Threads -> Syncs] /\ overlap' \in BOOLEAN
    BY <2>5 DEF DayTyped
  <2> QED BY <2>1, <2>2, <2>3, <2>4, <2>5, <2>6, <2>7, PlacesTyped DEF DayTyped, Threads
<1>8. CASE SimulateSlot
  <2> USE <1>8 DEF DayInv, SimulateSlot
  <2>1. dayRun' \in Runs /\ tk' \in Ticks
    BY NewSlotTyped DEF DayTyped
  <2> QED BY <2>1, PlacesTyped DEF DayTyped, Threads
<1>9. CASE EndTick
  BY <1>9, PlacesTyped, DayAssumption DEF DayInv, DayTyped, Threads, dayVars, EndTick
<1>10. CASE StartSweep
  <2> USE <1>10 DEF DayInv, StartSweep
  <2>1. (CHOOSE p \in UnsyncedSlots : \A q \in UnsyncedSlots : p <= q) \in Nat
    BY OldestTyped, DayTypes DEF UnsyncedSlots
  <2>2. sync' \in [Threads -> Syncs]
    BY <2>1, PlacesTyped DEF DayTyped, Threads
  <2> QED BY <2>1, <2>2, PlacesTyped DEF DayTyped, Threads
<1>11. ASSUME NEW t \in Threads, Look(t) PROVE DayTyped'
  <2> USE <1>11 DEF DayInv, Look
  <2>1. Opened \in Nat
    BY OpenedTyped, DayTypes
  <2>2. [sync[t] EXCEPT !.pc = "act", !.seen = Opened] \in Syncs
    BY <2>1 DEF DayTyped, Syncs
  <2>3. sync' = [sync EXCEPT ![t] = [sync[t] EXCEPT !.pc = "act", !.seen = Opened]]
    BY DEF DayTyped
  <2>4. sync' \in [Threads -> Syncs]
    BY <2>2, <2>3 DEF DayTyped
  <2> QED BY <2>1, <2>2, <2>3, <2>4, PlacesTyped DEF DayTyped, Threads
<1>12. ASSUME NEW t \in Threads, Act(t) PROVE DayTyped'
  <2> USE <1>12 DEF DayInv, Act
  <2>1. dayOdoo' \in Seq(AttendanceRows) /\ Len(dayOdoo') \in Nat
    BY WrittenTyped, DayTypes
  <2>2. \A s \in Nat : [sync[t] EXCEPT !.pc = "mark", !.seen = s] \in Syncs
    BY DEF DayTyped, Syncs
  <2>3. sync[t].seen \in Nat
    BY DayTypes
  <2>4. \E s \in Nat : sync' = [sync EXCEPT ![t] = [sync[t] EXCEPT !.pc = "mark", !.seen = s]]
    BY <2>1, <2>3 DEF DayTyped
  <2>5. sync' \in [Threads -> Syncs]
    BY <2>2, <2>4 DEF DayTyped
  <2> QED BY <2>1, <2>2, <2>3, <2>4, <2>5, PlacesTyped DEF DayTyped, Threads
<1>13. ASSUME NEW t \in Threads, Mark(t) PROVE DayTyped'
  <2> USE <1>13 DEF DayInv, Mark
  <2>1. sync[t].p \in DOMAIN dayLog /\ sync[t].seen \in Nat
    BY DayTypes DEF NumbersInv
  <2>2. [dayLog[sync[t].p] EXCEPT !.synced = TRUE, !.att = sync[t].seen] \in PunchRows
    BY <2>1, DayTypes DEF PunchRows
  <2>3. dayLog' = [dayLog EXCEPT ![sync[t].p] = [dayLog[sync[t].p] EXCEPT !.synced = TRUE, !.att = sync[t].seen]]
    BY <2>1
  <2>4. dayLog' \in Seq(PunchRows)
    BY <2>1, <2>2, <2>3 DEF DayTyped
  <2>5. sync' \in [Threads -> Syncs]
    BY PlacesTyped DEF DayTyped
  <2> QED BY <2>1, <2>2, <2>3, <2>4, <2>5, PlacesTyped DEF DayTyped, Threads
<1>14. ASSUME NEW t \in Threads, SyncFails(t) PROVE DayTyped'
  <2> USE <1>14 DEF DayInv, SyncFails
  <2>1. dayOdoo' \in Seq(AttendanceRows)
    BY WrittenTyped DEF DayTyped
  <2>2. sync' \in [Threads -> Syncs]
    BY PlacesTyped DEF DayTyped
  <2> QED BY <2>1, <2>2, PlacesTyped DEF DayTyped, Threads
<1>15. CASE StartRevert
  <2> USE <1>15 DEF DayInv, StartRevert
  <2>1. DOMAIN dayLog \in SUBSET Nat /\ {dayLog[p].att : p \in DOMAIN dayLog} \ {0} \in SUBSET Nat
    BY DayTypes
  <2>2. rc' \in Reverts
    BY <2>1 DEF Reverts
  <2>3. overlap' \in BOOLEAN
    BY DEF DayTyped
  <2> QED BY <2>1, <2>2, <2>3, PlacesTyped DEF DayTyped, Threads
<1>16. CASE Neutralize
  <2> USE <1>16 DEF DayInv, Neutralize
  <2>1. \A r \in PunchRows : [r EXCEPT !.synced = TRUE] \in PunchRows
    BY DEF PunchRows
  <2>2. \A p \in 1..Len(dayLog) : dayLog'[p] \in PunchRows
    BY <2>1, DayTypes
  <2>3. dayLog' \in Seq(PunchRows)
    BY <2>2, DayTypes
  <2>4. rc' \in Reverts
    BY DEF DayTyped, Reverts
  <2> QED BY <2>1, <2>2, <2>3, <2>4, PlacesTyped DEF DayTyped, Threads
<1>17. CASE FetchDay
  <2> USE <1>17 DEF DayInv, FetchDay
  <2>1. rc' \in Reverts
    BY DEF DayTyped, Reverts
  <2> QED BY <2>1, PlacesTyped DEF DayTyped, Threads
<1>18. CASE FlagDay
  <2> USE <1>18 DEF DayInv, FlagDay
  <2>1. dayRun' \in Runs
    BY DEF DayTyped, Runs
  <2> QED BY <2>1, PlacesTyped DEF DayTyped, Threads
<1>19. CASE DeleteAttendances
  <2> USE <1>19 DEF DayInv, DeleteAttendances
  <2>1. dayOdoo' \in Seq(AttendanceRows)
    BY WithoutOwnTyped
  <2>2. rc' \in Reverts
    BY DEF DayTyped, Reverts
  <2> QED BY <2>1, <2>2, PlacesTyped DEF DayTyped, Threads
<1>20. CASE MarkReverted
  <2> USE <1>20 DEF DayInv, MarkReverted
  <2>1. dayRun' \in Runs
    BY DEF DayTyped, Runs
  <2> QED BY <2>1, PlacesTyped DEF DayTyped, Threads
<1>21. CASE FlagIncomplete
  <2> USE <1>21 DEF DayInv, FlagIncomplete
  <2>1. dayRun' \in Runs
    BY DEF DayTyped, Runs
  <2> QED BY <2>1, PlacesTyped DEF DayTyped, Threads
<1>22. CASE RevertFails
  <2> USE <1>22 DEF DayInv, RevertFails
  <2>1. dayOdoo' \in Seq(AttendanceRows)
    BY WithoutOwnTyped DEF DayTyped
  <2> QED BY <2>1, PlacesTyped DEF DayTyped, Threads
<1>23. CASE DayCrash
  <2> USE <1>23 DEF DayInv, DayCrash
  <2>1. sync' \in [Threads -> Syncs]
    BY PlacesTyped
  <2> QED BY <2>1, PlacesTyped DEF DayTyped, Threads
<1>24. CASE UNCHANGED dayVars
  BY <1>24 DEF DayInv, DayTyped, Threads, dayVars
<1> QED
  BY <1>1, <1>2, <1>3, <1>4, <1>5, <1>6, <1>7, <1>8, <1>9, <1>10, <1>11, <1>12, <1>13,
     <1>14, <1>15, <1>16, <1>17, <1>18, <1>19, <1>20, <1>21, <1>22, <1>23, <1>24
  DEF DayNext, Worker, Syncing, Reconciler

(* A sync adds at most one row.                                            *)
LEMMA Grown == \A n, m \in Nat : m = n \/ m = n + 1 => n <= m /\ 1..n \subseteq 1..m
OBVIOUS

(* One more row at the end.                                                *)
LEMMA AppendIs ==
    ASSUME NEW S, NEW s \in Seq(S), NEW r \in S
    PROVE  /\ Len(Append(s, r)) = Len(s) + 1 /\ DOMAIN Append(s, r) = 1..(Len(s) + 1)
           /\ \A i \in 1..Len(s) : Append(s, r)[i] = s[i]
           /\ Append(s, r)[Len(s) + 1] = r
OBVIOUS

(* One more unsynced punch at the end of the log.                          *)
LEMMA PunchAppended ==
    ASSUME DayTyped, NEW slot \in 0..4,
           dayLog' = Append(dayLog, [slot |-> slot, synced |-> FALSE, att |-> 0])
    PROVE  /\ Len(dayLog') = Len(dayLog) + 1 /\ DOMAIN dayLog' = 1..(Len(dayLog) + 1)
           /\ \A p \in DOMAIN dayLog : p \in DOMAIN dayLog' /\ dayLog'[p] = dayLog[p]
           /\ DOMAIN dayLog' \ DOMAIN dayLog = {Len(dayLog) + 1}
           /\ dayLog'[Len(dayLog) + 1].slot = slot
           /\ ~dayLog'[Len(dayLog) + 1].synced /\ dayLog'[Len(dayLog) + 1].att = 0
<1> DEFINE r == [slot |-> slot, synced |-> FALSE, att |-> 0]
<1>1. r \in PunchRows /\ r.slot = slot /\ ~r.synced /\ r.att = 0
  BY DEF PunchRows
<1> HIDE DEF r
<1>2. /\ Len(dayLog') = Len(dayLog) + 1 /\ DOMAIN dayLog' = 1..(Len(dayLog) + 1)
      /\ \A i \in 1..Len(dayLog) : dayLog'[i] = dayLog[i]
      /\ dayLog'[Len(dayLog) + 1] = r
  <2>1. dayLog' = Append(dayLog, r) /\ dayLog \in Seq(PunchRows)
    BY DEF r, DayTyped
  <2> QED BY <1>1, <2>1, AppendIs
<1> QED BY <1>1, <1>2, DayTypes

(* One more slot at the end of the run.                                    *)
LEMMA SlotAppended ==
    ASSUME DayTyped, NEW n \in Nat
    PROVE  /\ Append(dayRun.slots, n) \in Seq(Nat)
           /\ Len(Append(dayRun.slots, n)) = Len(dayRun.slots) + 1
           /\ DOMAIN Append(dayRun.slots, n) = 1..(Len(dayRun.slots) + 1)
           /\ \A i \in 1..Len(dayRun.slots) : Append(dayRun.slots, n)[i] = dayRun.slots[i]
           /\ Append(dayRun.slots, n)[Len(dayRun.slots) + 1] = n
<1>1. dayRun.slots \in Seq(Nat)
  BY DEF DayTyped, Runs
<1> QED BY <1>1, AppendIs

(* What the worker has read of the slots still holds when it writes one.   *)
LEMMA NextSlotIs ==
    ASSUME DayInv, tk.pc = "advance", NEW n \in Nat
    PROVE  /\ NextSlot = Len(dayRun.slots) + 1
           /\ [dayRun EXCEPT !.slots = Append(@, n)] \in Runs
           /\ [dayRun EXCEPT !.slots = Append(@, n)].slots = Append(dayRun.slots, n)
           /\ [dayRun EXCEPT !.slots = Append(@, n)].exists = dayRun.exists
           /\ [dayRun EXCEPT !.slots = Append(@, n)].closed = dayRun.closed
           /\ [tk EXCEPT !.run.slots = Append(@, n)].run.slots = Append(dayRun.slots, n)
           /\ [tk EXCEPT !.run.slots = Append(@, n)].run.exists = dayRun.exists
           /\ [tk EXCEPT !.run.slots = Append(@, n)].pc = "advance"
<1>1. DayTyped /\ dayRun \in Runs /\ tk.run.slots = dayRun.slots /\ tk.run.exists = dayRun.exists
  BY DEF DayInv, DayTyped, WorkerInv
<1>2. tk \in Ticks /\ tk.run \in Runs
  BY <1>1 DEF DayTyped, Ticks
<1>3. NextSlot = Len(dayRun.slots) + 1
  BY <1>1 DEF NextSlot
<1>4. [dayRun EXCEPT !.slots = Append(@, n)] \in Runs
  BY <1>1, NewSlotTyped
<1> QED BY <1>1, <1>2, <1>3, <1>4 DEF Ticks, Runs

(* Every number still names a punch or an attendance.                      *)
LEMMA NumbersHold ==
    ASSUME DayInv, [DayNext]_dayVars
    PROVE  NumbersInv'
<1>0. DayTyped' /\ DayTyped
  BY DayTypedHolds DEF DayInv
<1>a. Len(dayOdoo) \in Nat /\ DOMAIN dayOdoo = 1..Len(dayOdoo)
  BY <1>0, DayTypes
<1>1. CASE DayClock
  BY <1>1, <1>0, DayTypes, PlacesTyped DEF NumbersInv, DayInv, dayVars, DayClock
<1>2. CASE ApproveLeave
  BY <1>2, <1>0, DayTypes, PlacesTyped DEF NumbersInv, DayInv, dayVars, ApproveLeave
<1>3. CASE ForeignPunch
  <2>1. Len(dayLog') = Len(dayLog) + 1 /\ DOMAIN dayLog' = 1..(Len(dayLog) + 1)
        /\ (\A p \in DOMAIN dayLog : p \in DOMAIN dayLog' /\ dayLog'[p] = dayLog[p])
        /\ DOMAIN dayLog' \ DOMAIN dayLog = {Len(dayLog) + 1} /\ dayLog'[Len(dayLog) + 1].att = 0
    BY <1>3, <1>0, PunchAppended DEF DayInv, ForeignPunch
  <2>2. Len(dayRun'.slots) <= 4 /\ \A i \in DOMAIN dayRun'.slots : dayRun'.slots[i] <= Len(dayLog')
    BY <1>3, <2>1, <1>0, DayTypes DEF NumbersInv, DayInv, ForeignPunch
  <2>3. \A p \in DOMAIN dayLog' : dayLog'[p].att <= Len(dayOdoo')
    BY <1>3, <2>1, <1>0, DayTypes DEF NumbersInv, DayInv, ForeignPunch
  <2>4. \A u \in Threads : /\ sync'[u].seen <= Len(dayOdoo')
                           /\ sync'[u].pc # "idle" => sync'[u].p \in DOMAIN dayLog'
    BY <1>3, <2>1, <1>0, DayTypes DEF NumbersInv, DayInv, ForeignPunch
  <2>5. rc'.own \subseteq DOMAIN dayOdoo'
    BY <1>3, <2>1, <1>0, DayTypes DEF NumbersInv, DayInv, ForeignPunch
  <2> QED BY <2>2, <2>3, <2>4, <2>5 DEF NumbersInv, Threads
<1>4. CASE ManualAttendance
  <2>1. [in |-> 0, out |-> 0, gone |-> FALSE] \in AttendanceRows
    BY <1>4 DEF AttendanceRows, DayInv, ManualAttendance
  <2>2. Len(dayOdoo) <= Len(dayOdoo') /\ DOMAIN dayOdoo \subseteq DOMAIN dayOdoo' /\ Len(dayOdoo') \in Nat
    BY <1>4, <2>1, AppendIs, <1>0, DayTypes DEF DayTyped, DayInv, ManualAttendance
  <2>3. Len(dayRun'.slots) <= 4 /\ \A i \in DOMAIN dayRun'.slots : dayRun'.slots[i] <= Len(dayLog')
    BY <1>4, <2>2, <1>0, DayTypes DEF NumbersInv, DayInv, ManualAttendance
  <2>4. \A p \in DOMAIN dayLog' : dayLog'[p].att <= Len(dayOdoo')
    BY <1>4, <2>2, <1>0, DayTypes DEF NumbersInv, DayInv, ManualAttendance
  <2>5. \A u \in Threads : /\ sync'[u].seen <= Len(dayOdoo')
                           /\ sync'[u].pc # "idle" => sync'[u].p \in DOMAIN dayLog'
    BY <1>4, <2>2, <1>0, DayTypes DEF NumbersInv, DayInv, ManualAttendance
  <2>6. rc'.own \subseteq DOMAIN dayOdoo'
    BY <1>4, <2>2, <1>0, DayTypes DEF NumbersInv, DayInv, ManualAttendance
  <2> QED BY <2>3, <2>4, <2>5, <2>6 DEF NumbersInv, Threads
<1>5. CASE ReadDay
  BY <1>5, <1>0, DayTypes, PlacesTyped DEF NumbersInv, DayInv, dayVars, ReadDay
<1>6. CASE Enroll
  <2>1. dayRun.slots = <<>> /\ dayRun'.slots = <<>>
    BY <1>6 DEF WorkerInv, NoDayRun, DayTyped, Runs, DayInv, Enroll
  <2>2. Len(dayRun'.slots) <= 4 /\ \A i \in DOMAIN dayRun'.slots : dayRun'.slots[i] <= Len(dayLog')
    BY <1>6, <2>1, <1>0, DayTypes DEF NumbersInv, DayInv, Enroll
  <2>3. \A p \in DOMAIN dayLog' : dayLog'[p].att <= Len(dayOdoo')
    BY <1>6, <2>1, <1>0, DayTypes DEF NumbersInv, DayInv, Enroll
  <2>4. \A u \in Threads : /\ sync'[u].seen <= Len(dayOdoo')
                           /\ sync'[u].pc # "idle" => sync'[u].p \in DOMAIN dayLog'
    BY <1>6, <2>1, <1>0, DayTypes DEF NumbersInv, DayInv, Enroll
  <2>5. rc'.own \subseteq DOMAIN dayOdoo'
    BY <1>6, <2>1, <1>0, DayTypes DEF NumbersInv, DayInv, Enroll
  <2> QED BY <2>2, <2>3, <2>4, <2>5 DEF NumbersInv, Threads
<1>7. CASE PunchSlot
  <2>1. CASE dayRun.closed # "no"
    BY <1>7, <2>1, <1>0, PlacesTyped DEF NumbersInv, DayInv, PunchSlot
  <2>2. CASE dayRun.closed = "no"
    <3>1. NextSlot \in 0..4 /\ NextSlot <= 4 /\ Len(dayLog) + 1 \in Nat
      BY <1>7, DayTypes, <1>0 DEF Slots, PunchSlot
    <3>2. /\ Len(dayLog') = Len(dayLog) + 1 /\ DOMAIN dayLog' = 1..(Len(dayLog) + 1)
          /\ \A p \in DOMAIN dayLog : p \in DOMAIN dayLog' /\ dayLog'[p] = dayLog[p]
          /\ DOMAIN dayLog' \ DOMAIN dayLog = {Len(dayLog) + 1} /\ dayLog'[Len(dayLog) + 1].att = 0
      BY <1>7, <3>1, <2>2, <1>0, PunchAppended DEF PunchSlot
    <3>3. dayRun'.slots = Append(dayRun.slots, Len(dayLog) + 1) /\ NextSlot = Len(dayRun.slots) + 1
      BY <1>7, <3>1, <2>2, NextSlotIs DEF PunchSlot
    <3>a. /\ Len(dayRun'.slots) = Len(dayRun.slots) + 1
          /\ DOMAIN dayRun'.slots = 1..(Len(dayRun.slots) + 1)
          /\ \A i \in 1..Len(dayRun.slots) : dayRun'.slots[i] = dayRun.slots[i]
          /\ dayRun'.slots[Len(dayRun.slots) + 1] = Len(dayLog) + 1
      BY <3>1, <3>3, <1>0, SlotAppended
    <3>b. sync'["worker"] = Looking(Len(dayLog) + 1) /\ \A u \in Threads \ {"worker"} : sync'[u] = sync[u]
      BY <1>7, <2>2, <1>0 DEF DayTyped, Threads, PunchSlot
    <3>4. Len(dayRun'.slots) <= 4 /\ \A i \in DOMAIN dayRun'.slots : dayRun'.slots[i] <= Len(dayLog')
      BY <3>1, <3>2, <3>3, <3>a, DayTypes, <1>0 DEF NumbersInv, DayInv
    <3>5. \A p \in DOMAIN dayLog' : dayLog'[p].att <= Len(dayOdoo')
      BY <1>7, <2>2, <3>2, DayTypes, <1>0 DEF NumbersInv, DayInv, PunchSlot
    <3>6. \A u \in Threads : /\ sync'[u].seen <= Len(dayOdoo')
                             /\ sync'[u].pc # "idle" => sync'[u].p \in DOMAIN dayLog'
      BY <3>2, <3>b, PlacesTyped, DayTypes, <1>0, <1>7, <2>2 DEF NumbersInv, DayInv, PunchSlot
    <3>7. rc'.own \subseteq DOMAIN dayOdoo'
      BY <1>7, <2>2 DEF NumbersInv, DayInv, PunchSlot
    <3> QED BY <3>4, <3>5, <3>6, <3>7 DEF NumbersInv, Threads
  <2> QED BY <2>1, <2>2
<1>8. CASE SimulateSlot
  <2>1. 0 \in Nat /\ tk.pc = "advance" /\ dayRun' = [dayRun EXCEPT !.slots = Append(@, 0)] /\ NextSlot <= 4
    BY <1>8 DEF Slots, SimulateSlot
  <2>2. dayRun'.slots = Append(dayRun.slots, 0) /\ NextSlot = Len(dayRun.slots) + 1 /\ NextSlot <= 4
    BY <2>1, NextSlotIs
  <2>3. Len(dayRun'.slots) <= 4 /\ \A i \in DOMAIN dayRun'.slots : dayRun'.slots[i] <= Len(dayLog')
    BY <1>8, <2>1, <2>2, SlotAppended, <1>0, DayTypes DEF NumbersInv, DayInv, SimulateSlot
  <2>4. \A p \in DOMAIN dayLog' : dayLog'[p].att <= Len(dayOdoo')
    BY <1>8 DEF NumbersInv, DayInv, SimulateSlot
  <2>5. \A u \in Threads : /\ sync'[u].seen <= Len(dayOdoo')
                           /\ sync'[u].pc # "idle" => sync'[u].p \in DOMAIN dayLog'
    BY <1>8 DEF NumbersInv, DayInv, SimulateSlot
  <2>6. rc'.own \subseteq DOMAIN dayOdoo'
    BY <1>8 DEF NumbersInv, DayInv, SimulateSlot
  <2> QED BY <2>3, <2>4, <2>5, <2>6 DEF NumbersInv, Threads
<1>9. CASE EndTick
  BY <1>9, <1>0, DayTypes, PlacesTyped DEF NumbersInv, DayInv, dayVars, EndTick
<1>10. CASE StartSweep
  <2>1. (CHOOSE p \in UnsyncedSlots : \A q \in UnsyncedSlots : p <= q) \in DOMAIN dayLog
    BY <1>10, <1>0, OldestTyped DEF UnsyncedSlots, DayInv, StartSweep
  <2>2. Len(dayRun'.slots) <= 4 /\ \A i \in DOMAIN dayRun'.slots : dayRun'.slots[i] <= Len(dayLog')
    BY <1>10 DEF NumbersInv, DayInv, StartSweep
  <2>3. \A p \in DOMAIN dayLog' : dayLog'[p].att <= Len(dayOdoo')
    BY <1>10 DEF NumbersInv, DayInv, StartSweep
  <2>4. \A u \in Threads : /\ sync'[u].seen <= Len(dayOdoo')
                           /\ sync'[u].pc # "idle" => sync'[u].p \in DOMAIN dayLog'
    BY <1>10, <2>1, PlacesTyped, <1>0, DayTypes DEF NumbersInv, DayTyped, DayInv, StartSweep
  <2>5. rc'.own \subseteq DOMAIN dayOdoo'
    BY <1>10 DEF NumbersInv, DayInv, StartSweep
  <2> QED BY <2>2, <2>3, <2>4, <2>5 DEF NumbersInv, Threads
<1>11. ASSUME NEW t \in Threads, Look(t) PROVE NumbersInv'
  <2>1. Opened \in Nat /\ Opened <= Len(dayOdoo)
    BY <1>11, <1>0, OpenedTyped, DayTypes DEF DayInv, Look
  <2>2. Len(dayRun'.slots) <= 4 /\ \A i \in DOMAIN dayRun'.slots : dayRun'.slots[i] <= Len(dayLog')
    BY <1>11 DEF NumbersInv, DayInv, Look
  <2>3. \A p \in DOMAIN dayLog' : dayLog'[p].att <= Len(dayOdoo')
    BY <1>11 DEF NumbersInv, DayInv, Look
  <2>4. \A u \in Threads : /\ sync'[u].seen <= Len(dayOdoo')
                           /\ sync'[u].pc # "idle" => sync'[u].p \in DOMAIN dayLog'
    BY <1>11, <2>1, <1>0, DayTypes DEF NumbersInv, DayTyped, Syncs, DayInv, Look
  <2>5. rc'.own \subseteq DOMAIN dayOdoo'
    BY <1>11 DEF NumbersInv, DayInv, Look
  <2> QED BY <2>2, <2>3, <2>4, <2>5 DEF NumbersInv, Threads
<1>12. ASSUME NEW t \in Threads, Act(t) PROVE NumbersInv'
  <2>1. /\ Len(Written(t)) \in Nat /\ DOMAIN Written(t) = 1..Len(Written(t))
        /\ Len(Written(t)) \in {Len(dayOdoo), Len(dayOdoo) + 1}
    BY <1>12, <1>0, WrittenTyped DEF DayInv, Act
  <2>2. /\ Len(dayOdoo') = Len(dayOdoo) \/ Len(dayOdoo') = Len(dayOdoo) + 1
        /\ Len(dayOdoo') \in Nat /\ DOMAIN dayOdoo' = 1..Len(dayOdoo')
    BY <1>12, <2>1, <1>0, DayTypes DEF NumbersInv, DayInv, Act
  <2>3. Len(dayOdoo) <= Len(dayOdoo') /\ DOMAIN dayOdoo \subseteq DOMAIN dayOdoo' /\ Len(dayOdoo') \in Nat
    BY <2>2, <1>a, Grown
  <2>4. \A u \in Threads : u # t => sync'[u] = sync[u]
    BY <1>12, <1>0 DEF DayTyped, DayInv, Act
  <2>5. /\ sync'[t].p = sync[t].p
        /\ sync'[t].seen = Len(dayOdoo') \/ sync'[t].seen = sync[t].seen
    BY <1>12, <1>0 DEF DayTyped, Syncs, DayInv, Act
  <2>6. Len(dayRun'.slots) <= 4 /\ \A i \in DOMAIN dayRun'.slots : dayRun'.slots[i] <= Len(dayLog')
    BY <1>12, <2>3, <1>0, DayTypes DEF NumbersInv, DayInv, Act
  <2>7. \A p \in DOMAIN dayLog' : dayLog'[p].att <= Len(dayOdoo')
    BY <1>12, <2>3, <1>0, DayTypes DEF NumbersInv, DayInv, Act
  <2>8. \A u \in Threads : /\ sync'[u].seen <= Len(dayOdoo')
                           /\ sync'[u].pc # "idle" => sync'[u].p \in DOMAIN dayLog'
    <3>1. \A u \in Threads : sync[u].seen \in Nat /\ sync[u].seen <= Len(dayOdoo)
      BY <1>0, DayTypes DEF NumbersInv, DayInv
    <3>2. \A u \in Threads : sync[u].pc # "idle" => sync[u].p \in DOMAIN dayLog'
      BY <1>12 DEF NumbersInv, DayInv, Act
    <3>3. sync[t].pc # "idle"
      BY <1>12 DEF Act
    <3>4. \A u \in Threads : sync'[u].seen <= Len(dayOdoo')
      BY <2>3, <2>4, <2>5, <3>1, <1>a
    <3>5. \A u \in Threads : sync'[u].pc # "idle" => sync'[u].p \in DOMAIN dayLog'
      BY <2>4, <2>5, <3>2, <3>3
    <3> QED BY <3>4, <3>5
  <2>9. rc'.own \subseteq DOMAIN dayOdoo'
    BY <1>12, <2>3, <1>0, DayTypes DEF NumbersInv, DayInv, Act
  <2> QED BY <2>6, <2>7, <2>8, <2>9 DEF NumbersInv, Threads
<1>13. ASSUME NEW t \in Threads, Mark(t) PROVE NumbersInv'
  BY <1>13, <1>0, DayTypes, PlacesTyped DEF NumbersInv, DayInv, dayVars, Mark
<1>14. ASSUME NEW t \in Threads, SyncFails(t) PROVE NumbersInv'
  <2>1. /\ Len(Written(t)) \in Nat /\ DOMAIN Written(t) = 1..Len(Written(t))
        /\ Len(Written(t)) \in {Len(dayOdoo), Len(dayOdoo) + 1}
    BY <1>14, <1>0, WrittenTyped DEF DayInv, SyncFails
  <2>2. /\ Len(dayOdoo') = Len(dayOdoo) \/ Len(dayOdoo') = Len(dayOdoo) + 1
        /\ Len(dayOdoo') \in Nat /\ DOMAIN dayOdoo' = 1..Len(dayOdoo')
    BY <1>14, <2>1, <1>0, DayTypes DEF NumbersInv, DayInv, SyncFails
  <2>3. Len(dayOdoo) <= Len(dayOdoo') /\ DOMAIN dayOdoo \subseteq DOMAIN dayOdoo' /\ Len(dayOdoo') \in Nat
    BY <2>2, <1>a, Grown
  <2>4. Len(dayRun'.slots) <= 4 /\ \A i \in DOMAIN dayRun'.slots : dayRun'.slots[i] <= Len(dayLog')
    BY <1>14, <2>3, <1>0, DayTypes DEF NumbersInv, DayInv, SyncFails
  <2>5. \A p \in DOMAIN dayLog' : dayLog'[p].att <= Len(dayOdoo')
    BY <1>14, <2>3, <1>0, DayTypes DEF NumbersInv, DayInv, SyncFails
  <2>6. \A u \in Threads : /\ sync'[u].seen <= Len(dayOdoo')
                           /\ sync'[u].pc # "idle" => sync'[u].p \in DOMAIN dayLog'
    <3>1. \A u \in Threads : sync[u].seen \in Nat /\ sync[u].seen <= Len(dayOdoo)
      BY <1>0, DayTypes DEF NumbersInv, DayInv
    <3>2. \A u \in Threads : sync[u].pc # "idle" => sync[u].p \in DOMAIN dayLog'
      BY <1>14 DEF NumbersInv, DayInv, SyncFails
    <3>3. sync'[t] = IdleSync /\ \A u \in Threads : u # t => sync'[u] = sync[u]
      BY <1>14, <1>0 DEF DayTyped, DayInv, SyncFails
    <3>4. IdleSync.seen = 0 /\ IdleSync.pc = "idle"
      BY DEF IdleSync
    <3>5. \A u \in Threads : sync'[u].seen <= Len(dayOdoo')
      BY <2>3, <3>1, <3>3, <3>4, <1>a
    <3>6. \A u \in Threads : sync'[u].pc # "idle" => sync'[u].p \in DOMAIN dayLog'
      BY <3>2, <3>3, <3>4
    <3> QED BY <3>5, <3>6
  <2>7. rc'.own \subseteq DOMAIN dayOdoo'
    BY <1>14, <2>3, <1>0, DayTypes DEF NumbersInv, DayInv, SyncFails
  <2> QED BY <2>4, <2>5, <2>6, <2>7 DEF NumbersInv, Threads
<1>15. CASE StartRevert
  BY <1>15, <1>0, DayTypes, PlacesTyped DEF NumbersInv, DayInv, dayVars, StartRevert
<1>16. CASE Neutralize
  BY <1>16, <1>0, DayTypes, PlacesTyped DEF NumbersInv, DayInv, dayVars, Neutralize
<1>17. CASE FetchDay
  BY <1>17, <1>0, DayTypes, PlacesTyped DEF NumbersInv, DayInv, dayVars, FetchDay
<1>18. CASE FlagDay
  BY <1>18, <1>0, DayTypes, PlacesTyped DEF NumbersInv, DayInv, dayVars, FlagDay
<1>19. CASE DeleteAttendances
  <2>1. Len(dayOdoo') = Len(dayOdoo) /\ DOMAIN dayOdoo' = DOMAIN dayOdoo
    BY <1>19, <1>0, WithoutOwnTyped DEF DayInv, DeleteAttendances
  <2>2. Len(dayRun'.slots) <= 4 /\ \A i \in DOMAIN dayRun'.slots : dayRun'.slots[i] <= Len(dayLog')
    BY <1>19, <2>1, <1>0, DayTypes DEF NumbersInv, DayInv, DeleteAttendances
  <2>3. \A p \in DOMAIN dayLog' : dayLog'[p].att <= Len(dayOdoo')
    BY <1>19, <2>1, <1>0, DayTypes DEF NumbersInv, DayInv, DeleteAttendances
  <2>4. \A u \in Threads : /\ sync'[u].seen <= Len(dayOdoo')
                           /\ sync'[u].pc # "idle" => sync'[u].p \in DOMAIN dayLog'
    BY <1>19, <2>1, <1>0, DayTypes DEF NumbersInv, DayInv, DeleteAttendances
  <2>5. rc'.own \subseteq DOMAIN dayOdoo'
    BY <1>19, <2>1, <1>0, DayTypes DEF NumbersInv, DayTyped, Reverts, DayInv, DeleteAttendances
  <2> QED BY <2>2, <2>3, <2>4, <2>5 DEF NumbersInv, Threads
<1>20. CASE MarkReverted
  BY <1>20, <1>0, DayTypes, PlacesTyped DEF NumbersInv, DayInv, dayVars, MarkReverted
<1>21. CASE FlagIncomplete
  BY <1>21, <1>0, DayTypes, PlacesTyped DEF NumbersInv, DayInv, dayVars, FlagIncomplete
<1>22. CASE RevertFails
  <2>1. Len(dayOdoo') = Len(dayOdoo) /\ DOMAIN dayOdoo' = DOMAIN dayOdoo
    BY <1>22, <1>0, WithoutOwnTyped DEF DayInv, RevertFails
  <2>2. Len(dayRun'.slots) <= 4 /\ \A i \in DOMAIN dayRun'.slots : dayRun'.slots[i] <= Len(dayLog')
    BY <1>22, <2>1, <1>0, DayTypes DEF NumbersInv, DayInv, RevertFails
  <2>3. \A p \in DOMAIN dayLog' : dayLog'[p].att <= Len(dayOdoo')
    BY <1>22, <2>1, <1>0, DayTypes DEF NumbersInv, DayInv, RevertFails
  <2>4. \A u \in Threads : /\ sync'[u].seen <= Len(dayOdoo')
                           /\ sync'[u].pc # "idle" => sync'[u].p \in DOMAIN dayLog'
    BY <1>22, <2>1, <1>0, DayTypes DEF NumbersInv, DayInv, RevertFails
  <2>5. rc'.own \subseteq DOMAIN dayOdoo'
    BY <1>22, <2>1, PlacesTyped, <1>0, DayTypes DEF NumbersInv, DayInv, RevertFails
  <2> QED BY <2>2, <2>3, <2>4, <2>5 DEF NumbersInv, Threads
<1>23. CASE DayCrash
  BY <1>23, <1>0, DayTypes, PlacesTyped DEF NumbersInv, DayInv, dayVars, DayCrash
<1>24. CASE UNCHANGED dayVars
  BY <1>24 DEF NumbersInv, DayInv, dayVars
<1> QED
  BY <1>1, <1>2, <1>3, <1>4, <1>5, <1>6, <1>7, <1>8, <1>9, <1>10, <1>11, <1>12, <1>13,
     <1>14, <1>15, <1>16, <1>17, <1>18, <1>19, <1>20, <1>21, <1>22, <1>23, <1>24
  DEF DayNext, Worker, Syncing, Reconciler

(* What the worker has read still holds.                                   *)
LEMMA WorkerHolds ==
    ASSUME DayInv, [DayNext]_dayVars
    PROVE  WorkerInv'
<1>0. DayTyped' /\ DayTyped
  BY DayTypedHolds DEF DayInv
<1>a. Len(dayOdoo) \in Nat /\ DOMAIN dayOdoo = 1..Len(dayOdoo)
  BY <1>0, DayTypes
<1>1. CASE DayClock
  BY <1>1, <1>0, PlacesTyped DEF WorkerInv, DayInv, dayVars, DayClock
<1>2. CASE ApproveLeave
  BY <1>2, <1>0, PlacesTyped DEF WorkerInv, DayInv, dayVars, ApproveLeave
<1>3. CASE ForeignPunch
  BY <1>3, <1>0, PlacesTyped DEF WorkerInv, DayInv, dayVars, ForeignPunch
<1>4. CASE ManualAttendance
  BY <1>4, <1>0, PlacesTyped DEF WorkerInv, DayInv, dayVars, ManualAttendance
<1>5. CASE ReadDay
  BY <1>5, <1>0, PlacesTyped DEF WorkerInv, DayInv, dayVars, ReadDay
<1>6. CASE Enroll
  <2> USE <1>6 DEF DayInv, Enroll
  <2>1. dayRun = NoDayRun /\ dayRun' \in Runs
    BY <1>0 DEF WorkerInv, DayTyped
  <2>2. dayRun'.exists /\ dayRun'.slots = <<>>
    BY <2>1 DEF NoDayRun
  <2>3. tk'.pc = "advance" => tk'.run.slots = <<>> /\ tk'.run.exists
    BY <1>0, PlacesTyped DEF DayTyped, Ticks, NoDayRun
  <2>4. tk'.pc = "advance" => dayRun'.closed = "no"
    BY <2>1, PlacesTyped DEF NoDayRun
  <2> QED
    BY <2>1, <2>2, <2>3, <2>4, <1>0 DEF WorkerInv
<1>7. CASE PunchSlot
  <2> USE <1>7 DEF DayInv, PunchSlot
  <2>1. CASE dayRun.closed # "no"
    BY <2>1, PlacesTyped DEF WorkerInv
  <2>2. CASE dayRun.closed = "no"
    <3>1. Len(dayLog) + 1 \in Nat
      BY <1>0, DayTypes
    <3>2. /\ dayRun'.slots = Append(dayRun.slots, Len(dayLog) + 1)
          /\ dayRun'.exists = dayRun.exists /\ dayRun'.closed = dayRun.closed
          /\ tk'.run.slots = Append(dayRun.slots, Len(dayLog) + 1) /\ tk'.run.exists = dayRun.exists
      BY <2>2, <3>1, NextSlotIs
    <3> QED BY <2>2, <3>2 DEF WorkerInv
  <2> QED BY <2>1, <2>2
<1>8. CASE SimulateSlot
  BY <1>8, <1>0, NextSlotIs DEF WorkerInv, DayInv, SimulateSlot
<1>9. CASE EndTick
  BY <1>9, <1>0, PlacesTyped DEF WorkerInv, DayInv, dayVars, EndTick
<1>10. CASE StartSweep
  BY <1>10, <1>0, PlacesTyped DEF WorkerInv, DayInv, dayVars, StartSweep
<1>11. ASSUME NEW t \in Threads, Look(t) PROVE WorkerInv'
  BY <1>11, <1>0, PlacesTyped DEF WorkerInv, DayInv, dayVars, Look
<1>12. ASSUME NEW t \in Threads, Act(t) PROVE WorkerInv'
  BY <1>12, <1>0, PlacesTyped DEF WorkerInv, DayInv, dayVars, Act
<1>13. ASSUME NEW t \in Threads, Mark(t) PROVE WorkerInv'
  BY <1>13, <1>0, PlacesTyped DEF WorkerInv, DayInv, dayVars, Mark
<1>14. ASSUME NEW t \in Threads, SyncFails(t) PROVE WorkerInv'
  BY <1>14, <1>0, PlacesTyped DEF WorkerInv, DayInv, dayVars, SyncFails
<1>15. CASE StartRevert
  BY <1>15, <1>0, PlacesTyped DEF WorkerInv, DayInv, dayVars, StartRevert
<1>16. CASE Neutralize
  BY <1>16, <1>0, PlacesTyped DEF WorkerInv, DayInv, dayVars, Neutralize
<1>17. CASE FetchDay
  BY <1>17, <1>0, PlacesTyped DEF WorkerInv, DayInv, dayVars, FetchDay
<1>18. CASE FlagDay
  BY <1>18, <1>0 DEF WorkerInv, ReconcilerInv, DayInv, DayTyped, Runs, FlagDay
<1>19. CASE DeleteAttendances
  BY <1>19, <1>0, PlacesTyped DEF WorkerInv, DayInv, dayVars, DeleteAttendances
<1>20. CASE MarkReverted
  BY <1>20, <1>0 DEF WorkerInv, ReconcilerInv, DayInv, DayTyped, Runs, MarkReverted
<1>21. CASE FlagIncomplete
  BY <1>21, <1>0, PlacesTyped DEF WorkerInv, DayInv, dayVars, FlagIncomplete
<1>22. CASE RevertFails
  BY <1>22, <1>0, PlacesTyped DEF WorkerInv, DayInv, dayVars, RevertFails
<1>23. CASE DayCrash
  BY <1>23, <1>0, PlacesTyped DEF WorkerInv, DayInv, dayVars, DayCrash
<1>24. CASE UNCHANGED dayVars
  BY <1>24 DEF WorkerInv, DayInv, dayVars
<1> QED
  BY <1>1, <1>2, <1>3, <1>4, <1>5, <1>6, <1>7, <1>8, <1>9, <1>10, <1>11, <1>12, <1>13,
     <1>14, <1>15, <1>16, <1>17, <1>18, <1>19, <1>20, <1>21, <1>22, <1>23, <1>24
  DEF DayNext, Worker, Syncing, Reconciler

(* The reconciler works on an open run and spares what people opened.      *)
LEMMA ReconcilerHolds ==
    ASSUME DayInv, [DayNext]_dayVars
    PROVE  ReconcilerInv'
<1>0. DayTyped' /\ DayTyped
  BY DayTypedHolds DEF DayInv
<1>a. Len(dayOdoo) \in Nat /\ DOMAIN dayOdoo = 1..Len(dayOdoo)
  BY <1>0, DayTypes
<1>1. CASE DayClock
  BY <1>1, <1>0, PlacesTyped DEF ReconcilerInv, NoHumanRecordDeleted, DayInv, dayVars, DayClock
<1>2. CASE ApproveLeave
  BY <1>2, <1>0, PlacesTyped DEF ReconcilerInv, NoHumanRecordDeleted, DayInv, dayVars, ApproveLeave
<1>3. CASE ForeignPunch
  BY <1>3, <1>0, PlacesTyped DEF ReconcilerInv, NoHumanRecordDeleted, DayInv, dayVars, ForeignPunch
<1>4. CASE ManualAttendance
  <2> USE <1>4 DEF DayInv, ManualAttendance
  <2>1. [in |-> 0, out |-> 0, gone |-> FALSE] \in AttendanceRows
    BY DEF AttendanceRows
  <2>2. /\ \A a \in DOMAIN dayOdoo : dayOdoo'[a] = dayOdoo[a]
        /\ \A a \in DOMAIN dayOdoo' \ DOMAIN dayOdoo : ~dayOdoo'[a].gone
    BY <2>1, AppendIs, <1>0, DayTypes DEF DayTyped
  <2> QED
    BY <2>1, <2>2, <1>0 DEF ReconcilerInv, NoHumanRecordDeleted, NumbersInv
<1>5. CASE ReadDay
  BY <1>5, <1>0, PlacesTyped DEF ReconcilerInv, NoHumanRecordDeleted, DayInv, dayVars, ReadDay
<1>6. CASE Enroll
  BY <1>6, <1>0, PlacesTyped DEF ReconcilerInv, NoHumanRecordDeleted, DayInv, dayVars, Enroll
<1>7. CASE PunchSlot
  <2> USE <1>7 DEF DayInv, PunchSlot
  <2>1. CASE dayRun.closed # "no"
    BY <2>1 DEF ReconcilerInv, NoHumanRecordDeleted
  <2>2. CASE dayRun.closed = "no"
    <3>0. Len(dayLog) + 1 \in Nat
      BY <1>0, DayTypes
    <3>1. dayRun'.exists = dayRun.exists /\ dayRun'.closed = dayRun.closed
      BY <2>2, <3>0, NextSlotIs
    <3> QED BY <2>2, <3>1 DEF ReconcilerInv, NoHumanRecordDeleted
  <2> QED BY <2>1, <2>2
<1>8. CASE SimulateSlot
  BY <1>8, <1>0, PlacesTyped DEF ReconcilerInv, NoHumanRecordDeleted, DayInv, dayVars, SimulateSlot
<1>9. CASE EndTick
  BY <1>9, <1>0, PlacesTyped DEF ReconcilerInv, NoHumanRecordDeleted, DayInv, dayVars, EndTick
<1>10. CASE StartSweep
  BY <1>10, <1>0, PlacesTyped DEF ReconcilerInv, NoHumanRecordDeleted, DayInv, dayVars, StartSweep
<1>11. ASSUME NEW t \in Threads, Look(t) PROVE ReconcilerInv'
  BY <1>11, <1>0, PlacesTyped DEF ReconcilerInv, NoHumanRecordDeleted, DayInv, dayVars, Look
<1>12. ASSUME NEW t \in Threads, Act(t) PROVE ReconcilerInv'
  <2> USE <1>12 DEF DayInv, Act
  <2>1. /\ \A a \in DOMAIN dayOdoo : dayOdoo'[a].in = dayOdoo[a].in /\ dayOdoo'[a].gone = dayOdoo[a].gone
        /\ \A a \in DOMAIN dayOdoo' \ DOMAIN dayOdoo : ~dayOdoo'[a].gone
    BY <1>0, WrittenTyped
  <2> QED
    BY <2>1, <1>0 DEF ReconcilerInv, NoHumanRecordDeleted, NumbersInv
<1>13. ASSUME NEW t \in Threads, Mark(t) PROVE ReconcilerInv'
  BY <1>13, <1>0, PlacesTyped DEF ReconcilerInv, NoHumanRecordDeleted, DayInv, dayVars, Mark
<1>14. ASSUME NEW t \in Threads, SyncFails(t) PROVE ReconcilerInv'
  <2> USE <1>14 DEF DayInv, SyncFails
  <2>1. /\ \A a \in DOMAIN dayOdoo : dayOdoo'[a].in = dayOdoo[a].in /\ dayOdoo'[a].gone = dayOdoo[a].gone
        /\ \A a \in DOMAIN dayOdoo' \ DOMAIN dayOdoo : ~dayOdoo'[a].gone
    BY <1>0, WrittenTyped
  <2> QED
    BY <2>1, <1>0 DEF ReconcilerInv, NoHumanRecordDeleted, NumbersInv
<1>15. CASE StartRevert
  BY <1>15, <1>0, PlacesTyped DEF ReconcilerInv, NoHumanRecordDeleted, DayInv, dayVars, StartRevert
<1>16. CASE Neutralize
  BY <1>16, <1>0, PlacesTyped DEF ReconcilerInv, NoHumanRecordDeleted, DayInv, dayVars, Neutralize
<1>17. CASE FetchDay
  <2> USE <1>17 DEF DayInv, FetchDay
  <2>1. rc'.own = rc.own
    BY <1>0 DEF DayTyped, Reverts
  <2>2. rc'.pc = "delete" => DayIsClean
    BY <1>0 DEF DayTyped, Reverts
  <2> QED
    BY <2>1, <2>2, <1>0 DEF ReconcilerInv, NoHumanRecordDeleted, NumbersInv, DayIsClean
<1>18. CASE FlagDay
  BY <1>18, <1>0, PlacesTyped DEF ReconcilerInv, NoHumanRecordDeleted, DayInv, dayVars, FlagDay
<1>19. CASE DeleteAttendances
  <2> USE <1>19 DEF DayInv, DeleteAttendances
  <2>1. rc'.pc = "revert"
    BY <1>0 DEF DayTyped, Reverts
  <2>2. DOMAIN dayOdoo' = DOMAIN dayOdoo /\ \A a \in DOMAIN dayOdoo :
           dayOdoo'[a].in = dayOdoo[a].in /\ dayOdoo'[a].gone = (dayOdoo[a].gone \/ a \in rc.own)
    BY <1>0, WithoutOwnTyped
  <2> QED
    BY <2>1, <2>2, <1>0 DEF ReconcilerInv, NoHumanRecordDeleted, NumbersInv
<1>20. CASE MarkReverted
  BY <1>20, <1>0, PlacesTyped DEF ReconcilerInv, NoHumanRecordDeleted, DayInv, dayVars, MarkReverted
<1>21. CASE FlagIncomplete
  BY <1>21, <1>0, PlacesTyped DEF ReconcilerInv, NoHumanRecordDeleted, DayInv, dayVars, FlagIncomplete
<1>22. CASE RevertFails
  <2> USE <1>22 DEF DayInv, RevertFails
  <2>1. rc'.pc = "idle"
    BY PlacesTyped
  <2>2. WithoutOwn = dayOdoo' => DOMAIN dayOdoo' = DOMAIN dayOdoo /\ \A a \in DOMAIN dayOdoo :
           dayOdoo'[a].in = dayOdoo[a].in /\ dayOdoo'[a].gone = (dayOdoo[a].gone \/ a \in rc.own)
    BY <1>0, WithoutOwnTyped
  <2> QED
    BY <2>1, <2>2, <1>0 DEF ReconcilerInv, NoHumanRecordDeleted, NumbersInv
<1>23. CASE DayCrash
  BY <1>23, <1>0, PlacesTyped DEF ReconcilerInv, NoHumanRecordDeleted, DayInv, dayVars, DayCrash
<1>24. CASE UNCHANGED dayVars
  BY <1>24 DEF ReconcilerInv, NoHumanRecordDeleted, DayInv, dayVars
<1> QED
  BY <1>1, <1>2, <1>3, <1>4, <1>5, <1>6, <1>7, <1>8, <1>9, <1>10, <1>11, <1>12, <1>13,
     <1>14, <1>15, <1>16, <1>17, <1>18, <1>19, <1>20, <1>21, <1>22, <1>23, <1>24
  DEF DayNext, Worker, Syncing, Reconciler

(* What the robot has in Odoo.                                             *)
LEMMA RobotRowsKept ==
    ASSUME DayTyped, DayTyped',
           \A a \in DOMAIN dayOdoo : /\ a \in DOMAIN dayOdoo' /\ dayOdoo'[a].in = dayOdoo[a].in
                                     /\ dayOdoo[a].gone => dayOdoo'[a].gone,
           \A a \in DOMAIN dayOdoo' \ DOMAIN dayOdoo : dayOdoo'[a].in = 0
    PROVE  RobotRows' \subseteq RobotRows
BY DayTypes DEF RobotRows, Rows

(* A step that writes neither punches nor attendances and closes nothing.  *)
LEMMA RevertKept ==
    ASSUME RevertInv, overlap' = overlap, rc' = rc, sync' = sync, dayLog' = dayLog, dayOdoo' = dayOdoo,
           dayRun'.closed = "reverted" => dayRun.closed = "reverted"
    PROVE  RevertInv'
BY DEF RevertInv, Robot, RobotRows, Rows, Threads

(* The attendances a sync leaves are the robot's only if its punch is.     *)
LEMMA ForeignWritten ==
    ASSUME DayInv, DayTyped', NEW t \in Threads, sync[t].pc # "idle", ~Robot(sync[t].p),
           dayOdoo' \in {dayOdoo, Written(t)}
    PROVE  RobotRows' \subseteq RobotRows
<1>1. DayTyped /\ NumbersInv
  BY DEF DayInv
<1>2. dayLog[sync[t].p].slot = 0
  BY DEF Robot
<1>3. CASE dayOdoo' = dayOdoo
  BY <1>1, <1>3, RobotRowsKept
<1>4. CASE dayOdoo' = Written(t)
  <2>1. /\ \A a \in DOMAIN dayOdoo : /\ a \in DOMAIN dayOdoo' /\ dayOdoo'[a].in = dayOdoo[a].in
                                     /\ dayOdoo[a].gone => dayOdoo'[a].gone
        /\ \A a \in DOMAIN dayOdoo' \ DOMAIN dayOdoo : dayOdoo'[a].in = 0
    BY <1>1, <1>2, <1>4, WrittenTyped
  <2> QED BY <2>1, <1>1, RobotRowsKept
<1> QED BY <1>3, <1>4

(* While no two loops meet, what is to be deleted is all there is of the robot. *)
LEMMA RevertHolds ==
    ASSUME DayInv, [DayNext]_dayVars
    PROVE  RevertInv'
<1>0. DayTyped' /\ DayTyped /\ RevertInv
  BY DayTypedHolds DEF DayInv
<1>1. CASE DayClock
  BY <1>1, <1>0, RevertKept DEF DayClock
<1>2. CASE ApproveLeave
  BY <1>2, <1>0, RevertKept DEF ApproveLeave
<1>3. CASE ForeignPunch
  <2>1. /\ DOMAIN dayLog' \ DOMAIN dayLog = {Len(dayLog) + 1}
        /\ \A p \in DOMAIN dayLog : p \in DOMAIN dayLog' /\ dayLog'[p] = dayLog[p]
        /\ dayLog'[Len(dayLog) + 1].slot = 0
    BY <1>3, <1>0, PunchAppended DEF ForeignPunch
  <2>2. RobotRows' = RobotRows
    BY <1>3 DEF ForeignPunch, RobotRows, Rows
  <2>3. \A t \in Threads : sync[t].pc # "idle" => sync[t].p \in DOMAIN dayLog
    BY DEF DayInv, NumbersInv
  <2> QED BY <1>3, <1>0, <2>1, <2>2, <2>3 DEF RevertInv, Robot, Threads, ForeignPunch
<1>4. CASE ManualAttendance
  <2>1. [in |-> 0, out |-> 0, gone |-> FALSE] \in AttendanceRows
    BY DEF AttendanceRows
  <2>2. /\ \A a \in DOMAIN dayOdoo : a \in DOMAIN dayOdoo' /\ dayOdoo'[a] = dayOdoo[a]
        /\ \A a \in DOMAIN dayOdoo' \ DOMAIN dayOdoo : dayOdoo'[a].in = 0
    BY <1>4, <2>1, <1>0, AppendIs, DayTypes DEF DayTyped, ManualAttendance
  <2>3. RobotRows' \subseteq RobotRows
    BY <2>2, <1>0, RobotRowsKept
  <2> QED BY <1>4, <1>0, <2>3 DEF RevertInv, Robot, Threads, ManualAttendance
<1>5. CASE ReadDay
  BY <1>5, <1>0, RevertKept DEF ReadDay
<1>6. CASE Enroll
  <2>1. dayRun'.closed # "reverted" \/ dayRun' = dayRun
    BY <1>6 DEF Enroll, NoDayRun
  <2> QED BY <1>6, <1>0, <2>1, RevertKept DEF Enroll
<1>7. CASE PunchSlot
  <2>1. CASE dayRun.closed # "no"
    BY <1>7, <1>0, <2>1, RevertKept DEF PunchSlot
  <2>2. CASE dayRun.closed = "no"
    <3>1. Len(dayLog) + 1 \in Nat
      BY <1>0, DayTypes
    <3>2. dayRun'.closed = "no"
      BY <1>7, <2>2, <3>1, NextSlotIs DEF PunchSlot
    <3>3. ~overlap' => rc'.pc = "idle" /\ sync'["sweep"].pc = "idle"
      BY <1>7, <1>0, <2>2 DEF PunchSlot, DayTyped, Threads
    <3> QED BY <3>2, <3>3 DEF RevertInv
  <2> QED BY <2>1, <2>2
<1>8. CASE SimulateSlot
  <2>1. 0 \in Nat /\ tk.pc = "advance" /\ dayRun' = [dayRun EXCEPT !.slots = Append(@, 0)]
    BY <1>8 DEF SimulateSlot
  <2>2. dayRun'.closed = dayRun.closed
    BY <2>1, NextSlotIs
  <2> QED BY <1>8, <1>0, <2>2, RevertKept DEF SimulateSlot
<1>9. CASE EndTick
  BY <1>9, <1>0, RevertKept DEF EndTick
<1>10. CASE StartSweep
  <2> DEFINE oldest == CHOOSE p \in UnsyncedSlots : \A q \in UnsyncedSlots : p <= q
  <2>1. oldest \in UnsyncedSlots
    BY <1>10, <1>0, OldestTyped DEF StartSweep
  <2> HIDE DEF oldest
  <2>2. /\ sync'["sweep"].p = oldest /\ sync'["worker"] = sync["worker"]
        /\ ~overlap' => ~overlap /\ sync["worker"].pc = "idle" /\ rc'.pc = "idle"
    BY <1>10, <1>0, PlacesTyped DEF StartSweep, oldest, DayTyped, Threads
  <2>3. dayLog' = dayLog /\ dayRun' = dayRun /\ RobotRows' = RobotRows
    BY <1>10 DEF StartSweep, RobotRows, Rows
  <2>4. ~overlap /\ dayRun.closed = "reverted" => ~Robot(oldest)
    BY <1>0, <2>1 DEF RevertInv, UnsyncedSlots
  <2> QED BY <1>0, <2>2, <2>3, <2>4 DEF RevertInv, Robot, Threads
<1>11. ASSUME NEW t \in Threads, Look(t) PROVE RevertInv'
  <2>1. ~overlap' => ~overlap /\ rc.pc = "idle" /\ sync[t].pc # "idle"
    BY <1>11, <1>0 DEF RevertInv, Look
  <2>2. /\ \A u \in Threads : sync'[u].p = sync[u].p /\ (sync'[u].pc = "idle" <=> sync[u].pc = "idle")
        /\ dayLog' = dayLog /\ dayRun' = dayRun /\ rc' = rc /\ overlap' = overlap
    BY <1>11, <1>0 DEF Look, DayTyped, Syncs
  <2>3. RobotRows' = RobotRows
    BY <1>11 DEF Look, RobotRows, Rows
  <2> QED BY <1>0, <2>1, <2>2, <2>3 DEF RevertInv, Robot, Threads
<1>12. ASSUME NEW t \in Threads, Act(t) PROVE RevertInv'
  <2>1. ~overlap' => ~overlap /\ rc.pc = "idle" /\ sync[t].pc # "idle"
    BY <1>12, <1>0 DEF RevertInv, Act
  <2>2. /\ \A u \in Threads : sync'[u].p = sync[u].p /\ (sync'[u].pc = "idle" <=> sync[u].pc = "idle")
        /\ dayLog' = dayLog /\ dayRun' = dayRun /\ rc' = rc /\ overlap' = overlap
    BY <1>12, <1>0 DEF Act, DayTyped, Syncs
  <2>3. ~overlap /\ dayRun.closed = "reverted" => RobotRows' \subseteq RobotRows
    BY <1>12, <1>0, ForeignWritten DEF Act, RevertInv
  <2> QED BY <1>0, <2>1, <2>2, <2>3 DEF RevertInv, Robot, Threads
<1>13. ASSUME NEW t \in Threads, Mark(t) PROVE RevertInv'
  <2>1. ~overlap' => ~overlap /\ rc.pc = "idle" /\ sync[t].pc # "idle"
    BY <1>13, <1>0 DEF RevertInv, Mark
  <2>2. /\ \A u \in Threads : sync'[u] = sync[u] \/ sync'[u].pc = "idle"
        /\ dayRun' = dayRun /\ rc' = rc /\ overlap' = overlap
    BY <1>13, <1>0, PlacesTyped DEF Mark, DayTyped, Syncs
  <2>3. RobotRows' = RobotRows
    BY <1>13 DEF Mark, RobotRows, Rows
  <2>4. sync[t].p \in DOMAIN dayLog
    BY <1>13 DEF DayInv, NumbersInv, Mark
  <2>5. DOMAIN dayLog' = DOMAIN dayLog
        /\ \A p \in DOMAIN dayLog : /\ dayLog'[p].slot = dayLog[p].slot
                                    /\ dayLog[p].synced => dayLog'[p].synced
    BY <1>13, <1>0, <2>4, DayTypes DEF Mark, PunchRows
  <2>6. \A u \in Threads : sync[u].pc # "idle" => sync[u].p \in DOMAIN dayLog
    BY DEF DayInv, NumbersInv
  <2> QED BY <1>0, <2>1, <2>2, <2>3, <2>5, <2>6 DEF RevertInv, Robot, Threads
<1>14. ASSUME NEW t \in Threads, SyncFails(t) PROVE RevertInv'
  <2>1. ~overlap' => ~overlap /\ rc.pc = "idle" /\ sync[t].pc # "idle"
    BY <1>14, <1>0 DEF RevertInv, SyncFails
  <2>2. /\ \A u \in Threads : sync'[u] = sync[u] \/ sync'[u].pc = "idle"
        /\ dayLog' = dayLog /\ dayRun' = dayRun /\ rc' = rc /\ overlap' = overlap
    BY <1>14, <1>0, PlacesTyped DEF SyncFails, DayTyped
  <2>3. ~overlap /\ dayRun.closed = "reverted" => RobotRows' \subseteq RobotRows
    BY <1>14, <1>0, ForeignWritten DEF SyncFails, RevertInv
  <2> QED BY <1>0, <2>1, <2>2, <2>3 DEF RevertInv, Robot, Threads
<1>15. CASE StartRevert
  <2>1. ~overlap' => ~overlap /\ \A t \in Threads : sync'[t].pc = "idle"
    BY <1>15 DEF StartRevert
  <2>2. rc'.pc \in {"flag", "neutralize"} /\ rc'.rows = DOMAIN dayLog'
        /\ dayRun'.closed = "no"
    BY <1>15 DEF StartRevert
  <2> QED BY <2>1, <2>2 DEF RevertInv, Threads
<1>16. CASE Neutralize
  <2>1. dayRun.closed = "no" /\ dayRun' = dayRun
    BY <1>16 DEF Neutralize, DayInv, ReconcilerInv
  <2>2. rc'.pc = "fetch"
    BY <1>16, <1>0 DEF Neutralize, DayTyped, Reverts
  <2>3. \A p \in DOMAIN dayLog' : /\ p \in DOMAIN dayLog /\ dayLog'[p].slot = dayLog[p].slot
                                  /\ p \in rc.rows => dayLog'[p].synced
    BY <1>16, <1>0, DayTypes DEF Neutralize, PunchRows
  <2>4. ~overlap => /\ \A p \in DOMAIN dayLog \ rc.rows : ~Robot(p)
                    /\ \A t \in Threads : sync[t].pc = "idle"
    BY <1>16, <1>0 DEF Neutralize, RevertInv
  <2> QED BY <1>16, <2>1, <2>2, <2>3, <2>4 DEF RevertInv, Robot, Threads, Neutralize
<1>17. CASE FetchDay
  <2>1. rc'.pc \in {"delete", "flag"} /\ rc'.own = rc.own /\ (rc'.pc = "delete" => Rows = rc.own)
    BY <1>17, <1>0 DEF FetchDay, DayTyped, Reverts, DayIsClean
  <2>2. dayRun.closed = "no" /\ RobotRows' = RobotRows /\ RobotRows \subseteq Rows
    BY <1>17 DEF FetchDay, DayInv, ReconcilerInv, RobotRows, Rows
  <2> QED BY <1>17, <1>0, <2>1, <2>2 DEF RevertInv, Robot, Threads, FetchDay
<1>18. CASE FlagDay
  <2>1. dayRun'.closed = "flagged" /\ rc'.pc = "idle"
    BY <1>18, <1>0, PlacesTyped DEF FlagDay, DayTyped, Runs
  <2> QED BY <1>18, <1>0, <2>1 DEF RevertInv, FlagDay
<1>19. CASE DeleteAttendances
  <2>1. rc'.pc = "revert" /\ dayRun.closed = "no"
    BY <1>19, <1>0 DEF DeleteAttendances, DayTyped, Reverts, DayInv, ReconcilerInv
  <2>2. ~overlap => RobotRows \subseteq rc.own
    BY <1>19, <1>0 DEF DeleteAttendances, RevertInv
  <2>3. ~overlap => RobotRows' = {}
    BY <1>19, <1>0, <2>2, WithoutOwnTyped DEF DeleteAttendances, RobotRows, Rows
  <2> QED BY <1>19, <1>0, <2>1, <2>3 DEF RevertInv, Robot, Threads, DeleteAttendances
<1>20. CASE MarkReverted
  <2>1. rc'.pc = "idle" /\ RobotRows' = RobotRows
    BY <1>20, PlacesTyped DEF MarkReverted, RobotRows, Rows
  <2> QED BY <1>20, <1>0, <2>1 DEF RevertInv, Robot, Threads, MarkReverted
<1>21. CASE FlagIncomplete
  <2>1. dayRun'.closed = "flagged"
    BY <1>21, <1>0 DEF FlagIncomplete, DayTyped, Runs
  <2> QED BY <1>21, <1>0, <2>1, RevertKept DEF FlagIncomplete
<1>22. CASE RevertFails
  <2>1. rc'.pc = "idle" /\ dayRun'.closed = "no"
    BY <1>22, PlacesTyped DEF RevertFails, DayInv, ReconcilerInv
  <2> QED BY <1>22, <1>0, <2>1 DEF RevertInv, RevertFails
<1>23. CASE DayCrash
  <2>1. rc'.pc = "idle" /\ \A t \in Threads : sync'[t].pc = "idle"
    BY <1>23, PlacesTyped DEF DayCrash
  <2>2. RobotRows' = RobotRows
    BY <1>23 DEF DayCrash, RobotRows, Rows
  <2> QED BY <1>23, <1>0, <2>1, <2>2 DEF RevertInv, Robot, Threads, DayCrash
<1>24. CASE UNCHANGED dayVars
  BY <1>24, <1>0, RevertKept DEF dayVars
<1> QED
  BY <1>1, <1>2, <1>3, <1>4, <1>5, <1>6, <1>7, <1>8, <1>9, <1>10, <1>11, <1>12, <1>13,
     <1>14, <1>15, <1>16, <1>17, <1>18, <1>19, <1>20, <1>21, <1>22, <1>23, <1>24
  DEF DayNext, Worker, Syncing, Reconciler

(* The attendances of the first slots, one by one.                         *)
LEMMA RowsAre ==
    /\ RowsOf(0) = <<>>
    /\ RowsOf(1) = <<[in |-> 1, out |-> 0, gone |-> FALSE]>>
    /\ RowsOf(2) = <<[in |-> 1, out |-> 2, gone |-> FALSE]>>
    /\ RowsOf(3) = <<[in |-> 1, out |-> 2, gone |-> FALSE], [in |-> 3, out |-> 0, gone |-> FALSE]>>
    /\ RowsOf(4) = <<[in |-> 1, out |-> 2, gone |-> FALSE], [in |-> 3, out |-> 4, gone |-> FALSE]>>
<1> DEFINE row(a, k) == [in |-> 2 * a - 1, out |-> IF 2 * a <= k THEN 2 * a ELSE 0, gone |-> FALSE]
<1>1. RowsOf(0) = <<>>
  <2>1. (0 + 1) \div 2 = 0
    OBVIOUS
  <2>2. RowsOf(0) = [a \in 1..0 |-> row(a, 0)]
    BY <2>1 DEF RowsOf
  <2> QED BY <2>2
<1>2. /\ RowsOf(1) = [a \in 1..1 |-> row(a, 1)] /\ RowsOf(2) = [a \in 1..1 |-> row(a, 2)]
      /\ RowsOf(3) = [a \in 1..2 |-> row(a, 3)] /\ RowsOf(4) = [a \in 1..2 |-> row(a, 4)]
  <2>1. (1 + 1) \div 2 = 1 /\ (2 + 1) \div 2 = 1 /\ (3 + 1) \div 2 = 2 /\ (4 + 1) \div 2 = 2
    OBVIOUS
  <2> QED BY <2>1 DEF RowsOf
<1>3. /\ row(1, 1) = [in |-> 1, out |-> 0, gone |-> FALSE]
      /\ row(1, 2) = [in |-> 1, out |-> 2, gone |-> FALSE]
      /\ row(1, 3) = [in |-> 1, out |-> 2, gone |-> FALSE]
      /\ row(2, 3) = [in |-> 3, out |-> 0, gone |-> FALSE]
      /\ row(1, 4) = [in |-> 1, out |-> 2, gone |-> FALSE]
      /\ row(2, 4) = [in |-> 3, out |-> 4, gone |-> FALSE]
  OBVIOUS
<1> HIDE DEF row
<1> QED BY <1>1, <1>2, <1>3

(* After an odd number of slots the last attendance is open, after an even *)
(* number none is (get_current_attendance).                                *)
LEMMA OpenedIs ==
    /\ dayOdoo = RowsOf(0) => Opened = 0
    /\ dayOdoo = RowsOf(1) => Opened = 1
    /\ dayOdoo = RowsOf(2) => Opened = 0
    /\ dayOdoo = RowsOf(3) => Opened = 2
    /\ dayOdoo = RowsOf(4) => Opened = 0
<1>1. ASSUME NEW a \in Nat, OpenRows = {a} PROVE Opened = a
  BY <1>1 DEF Opened
<1>2. dayOdoo = RowsOf(0) => OpenRows = {}
  BY RowsAre DEF OpenRows
<1>3. dayOdoo = RowsOf(1) => OpenRows = {1}
  BY RowsAre DEF OpenRows
<1>4. dayOdoo = RowsOf(2) => OpenRows = {}
  BY RowsAre DEF OpenRows
<1>5. dayOdoo = RowsOf(3) => OpenRows = {2}
  BY RowsAre DEF OpenRows
<1>6. dayOdoo = RowsOf(4) => OpenRows = {}
  BY RowsAre DEF OpenRows
<1>7. OpenRows = {} => Opened = 0
  BY DEF Opened
<1> QED BY <1>1, <1>2, <1>3, <1>4, <1>5, <1>6, <1>7

(* A sequence is its rows.                                                 *)
LEMMA SequenceIs ==
    ASSUME NEW S, NEW s \in Seq(S), NEW q \in Seq(S), Len(s) = Len(q),
           \A i \in 1..Len(s) : s[i] = q[i]
    PROVE  s = q
OBVIOUS

(* The sync of a slot adds what it stands for, once (_retry_one).          *)
LEMMA WrittenIs ==
    ASSUME NEW t \in Threads, NEW k \in 1..4, dayLog[sync[t].p].slot = k,
           sync[t].seen = Opened, dayOdoo = RowsOf(k) \/ dayOdoo = RowsOf(k - 1)
    PROVE  Written(t) = RowsOf(k)
<1> DEFINE in1 == [in |-> 1, out |-> 0, gone |-> FALSE]
           out1 == [in |-> 1, out |-> 2, gone |-> FALSE]
           in2 == [in |-> 3, out |-> 0, gone |-> FALSE]
           out2 == [in |-> 3, out |-> 4, gone |-> FALSE]
<1>0. /\ {in1, out1, in2, out2} \subseteq AttendanceRows
      /\ [in1 EXCEPT !.out = 2] = out1 /\ [in2 EXCEPT !.out = 4] = out2
  <2>1. \A r \in AttendanceRows, o \in 0..4 :
           [r EXCEPT !.out = o] = [in |-> r.in, out |-> o, gone |-> r.gone]
    BY DEF AttendanceRows
  <2>2. in1 \in AttendanceRows /\ out1 \in AttendanceRows /\ in2 \in AttendanceRows /\ out2 \in AttendanceRows
    BY DEF AttendanceRows
  <2>3. in1.in = 1 /\ in1.gone = FALSE /\ in2.in = 3 /\ in2.gone = FALSE
    OBVIOUS
  <2>4. /\ out1 = [in |-> 1, out |-> 2, gone |-> FALSE] /\ out2 = [in |-> 3, out |-> 4, gone |-> FALSE]
        /\ 2 \in 0..4 /\ 4 \in 0..4
    OBVIOUS
  <2> HIDE DEF in1, out1, in2, out2
  <2>5. /\ [in1 EXCEPT !.out = 2] = [in |-> in1.in, out |-> 2, gone |-> in1.gone]
        /\ [in2 EXCEPT !.out = 4] = [in |-> in2.in, out |-> 4, gone |-> in2.gone]
    BY <2>1, <2>2, <2>4
  <2> QED BY <2>2, <2>3, <2>4, <2>5
<1>a. /\ RowsOf(0) = <<>> /\ RowsOf(1) = <<in1>> /\ RowsOf(2) = <<out1>>
      /\ RowsOf(3) = <<out1, in2>> /\ RowsOf(4) = <<out1, out2>>
  BY RowsAre
<1> HIDE DEF in1, out1, in2, out2
<1>1. Append(RowsOf(0), in1) = RowsOf(1) /\ Append(RowsOf(2), in2) = RowsOf(3)
  <2>1. /\ <<>> \in Seq(AttendanceRows) /\ <<out1>> \in Seq(AttendanceRows)
        /\ <<in1>> \in Seq(AttendanceRows) /\ <<out1, in2>> \in Seq(AttendanceRows)
        /\ in1 \in AttendanceRows /\ in2 \in AttendanceRows
    BY <1>0
  <2>2. /\ Append(<<>>, in1) \in Seq(AttendanceRows) /\ Len(Append(<<>>, in1)) = 1
        /\ Append(<<>>, in1)[1] = in1
    BY <2>1
  <2>3. /\ Append(<<out1>>, in2) \in Seq(AttendanceRows) /\ Len(Append(<<out1>>, in2)) = 2
        /\ Append(<<out1>>, in2)[1] = out1 /\ Append(<<out1>>, in2)[2] = in2
    BY <2>1
  <2>4. Append(<<>>, in1) = <<in1>>
    BY <2>1, <2>2, SequenceIs
  <2>5. Append(<<out1>>, in2) = <<out1, in2>>
    <3> DEFINE s == Append(<<out1>>, in2)
               q == <<out1, in2>>
    <3>1. s \in Seq(AttendanceRows) /\ q \in Seq(AttendanceRows) /\ Len(s) = 2 /\ Len(q) = 2
      BY <2>1, <2>3
    <3>2. \A i \in 1..2 : i = 1 \/ i = 2
      OBVIOUS
    <3>3. s[1] = q[1] /\ s[2] = q[2]
      BY <2>3
    <3> HIDE DEF s, q
    <3>4. s = q
      BY <3>1, <3>2, <3>3, SequenceIs
    <3> QED BY <3>4 DEF s, q
  <2> QED BY <1>a, <2>4, <2>5
<1>2. [RowsOf(1) EXCEPT ![1].out = 2] = RowsOf(2) /\ [RowsOf(3) EXCEPT ![2].out = 4] = RowsOf(4)
  <2>1. /\ [RowsOf(1) EXCEPT ![1].out = 2] = [<<in1>> EXCEPT ![1] = out1]
        /\ [RowsOf(3) EXCEPT ![2].out = 4] = [<<out1, in2>> EXCEPT ![2] = out2]
    <3>1. <<in1>>[1] = in1 /\ <<out1, in2>>[2] = in2
      OBVIOUS
    <3>2. /\ [RowsOf(1) EXCEPT ![1].out = 2] = [<<in1>> EXCEPT ![1] = [<<in1>>[1] EXCEPT !.out = 2]]
          /\ [RowsOf(3) EXCEPT ![2].out = 4] = [<<out1, in2>> EXCEPT ![2] = [<<out1, in2>>[2] EXCEPT !.out = 4]]
      BY <1>a
    <3> QED BY <3>1, <3>2, <1>0
  <2>2. /\ [<<in1>> EXCEPT ![1] = out1] = <<out1>>
        /\ [<<out1, in2>> EXCEPT ![2] = out2] = <<out1, out2>>
    OBVIOUS
  <2> QED BY <2>1, <2>2, <1>a
<1>3. CASE k = 1
  <2>1. dayOdoo = RowsOf(1) \/ dayOdoo = RowsOf(0)
    BY <1>3
  <2>2. dayLog[sync[t].p].slot = 1
    BY <1>3
  <2>3. dayOdoo = RowsOf(1) => Opened = 1
    BY OpenedIs
  <2>4. dayOdoo = RowsOf(0) => Opened = 0
    BY OpenedIs
  <2>5. dayOdoo = RowsOf(1) => Written(t) = RowsOf(1)
    BY <2>2, <2>3 DEF Written, IsIn
  <2>6. dayOdoo = RowsOf(0) => Written(t) = RowsOf(1)
    BY <2>2, <2>4, <1>1 DEF Written, IsIn, in1, in2
  <2> QED BY <1>3, <2>1, <2>5, <2>6
<1>4. CASE k = 2
  <2>1. dayOdoo = RowsOf(2) \/ dayOdoo = RowsOf(1)
    BY <1>4
  <2>2. dayLog[sync[t].p].slot = 2
    BY <1>4
  <2>3. dayOdoo = RowsOf(2) => Opened = 0
    BY OpenedIs
  <2>4. dayOdoo = RowsOf(1) => Opened = 1
    BY OpenedIs
  <2>5. dayOdoo = RowsOf(2) => Written(t) = RowsOf(2)
    BY <2>2, <2>3 DEF Written, IsIn
  <2>6. dayOdoo = RowsOf(1) => Written(t) = RowsOf(2)
    BY <2>2, <2>4, <1>2 DEF Written, IsIn
  <2> QED BY <1>4, <2>1, <2>5, <2>6
<1>5. CASE k = 3
  <2>1. dayOdoo = RowsOf(3) \/ dayOdoo = RowsOf(2)
    BY <1>5
  <2>2. dayLog[sync[t].p].slot = 3
    BY <1>5
  <2>3. dayOdoo = RowsOf(3) => Opened = 2
    BY OpenedIs
  <2>4. dayOdoo = RowsOf(2) => Opened = 0
    BY OpenedIs
  <2>5. dayOdoo = RowsOf(3) => Written(t) = RowsOf(3)
    BY <2>2, <2>3 DEF Written, IsIn
  <2>6. dayOdoo = RowsOf(2) => Written(t) = RowsOf(3)
    BY <2>2, <2>4, <1>1 DEF Written, IsIn, in1, in2
  <2> QED BY <1>5, <2>1, <2>5, <2>6
<1>6. CASE k = 4
  <2>1. dayOdoo = RowsOf(4) \/ dayOdoo = RowsOf(3)
    BY <1>6
  <2>2. dayLog[sync[t].p].slot = 4
    BY <1>6
  <2>3. dayOdoo = RowsOf(4) => Opened = 0
    BY OpenedIs
  <2>4. dayOdoo = RowsOf(3) => Opened = 2
    BY OpenedIs
  <2>5. dayOdoo = RowsOf(4) => Written(t) = RowsOf(4)
    BY <2>2, <2>3 DEF Written, IsIn
  <2>6. dayOdoo = RowsOf(3) => Written(t) = RowsOf(4)
    BY <2>2, <2>4, <1>2 DEF Written, IsIn
  <2> QED BY <1>6, <2>1, <2>5, <2>6
<1> QED BY <1>3, <1>4, <1>5, <1>6

(* A step that writes neither punches nor attendances.                     *)
LEMMA SlotsKept ==
    ASSUME SlotsInv, UndisturbedDay' => UndisturbedDay, dayMode' = dayMode,
           dayRun'.slots = dayRun.slots, dayLog' = dayLog, dayOdoo' = dayOdoo, sync' = sync
    PROVE  SlotsInv'
BY DEF SlotsInv, Opened, OpenRows, Threads, RowsOf

(* A disturbed day, or a dry run, is not claimed anything of.              *)
LEMMA SlotsDisturbed ==
    ASSUME ~UndisturbedDay' \/ dayMode' # "live"
    PROVE  SlotsInv'
BY DEF SlotsInv

(* On an undisturbed day.                                                  *)
LEMMA SlotsSay ==
    ASSUME DayInv, UndisturbedDay, dayMode = "live"
    PROVE  /\ Len(dayLog) \in 0..4 /\ Len(dayRun.slots) = Len(dayLog)
           /\ \A i \in DOMAIN dayLog : /\ dayRun.slots[i] = i /\ dayLog[i].slot = i
                                       /\ i < Len(dayLog) => dayLog[i].synced
           /\ dayLog = <<>> \/ dayLog[Len(dayLog)].synced => dayOdoo = RowsOf(Len(dayLog))
           /\ dayOdoo = RowsOf(Len(dayLog)) \/ dayOdoo = RowsOf(Len(dayLog) - 1)
           /\ rc.pc = "idle"
           /\ \A t \in Threads : sync[t].pc # "idle" =>
                /\ Len(dayLog) \in 1..4 /\ sync[t].p = Len(dayLog) /\ ~dayLog[Len(dayLog)].synced
                /\ dayLog[sync[t].p].slot = Len(dayLog)
                /\ sync[t].pc = "act" => sync[t].seen = Opened
                /\ sync[t].pc = "mark" => dayOdoo = RowsOf(Len(dayLog))
                /\ \A u \in Threads : u # t => sync[u].pc = "idle"
<1>1. DayTyped /\ NumbersInv /\ ReconcilerInv /\ RevertInv /\ SlotsInv /\ ~overlap /\ ~leave
  BY DEF DayInv, UndisturbedDay
<1>2. Len(dayLog) \in Nat /\ DOMAIN dayLog = 1..Len(dayLog) /\ Len(dayRun.slots) \in Nat
  BY <1>1, DayTypes
<1>3. Len(dayRun.slots) = Len(dayLog) /\ Len(dayLog) \in 0..4
  BY <1>1, <1>2 DEF SlotsInv, NumbersInv
<1>4. rc.pc = "idle"
  BY <1>1 DEF ReconcilerInv
<1>5. /\ \A i \in DOMAIN dayLog : /\ dayRun.slots[i] = i /\ dayLog[i].slot = i
                                  /\ i < Len(dayLog) => dayLog[i].synced
      /\ dayLog = <<>> \/ dayLog[Len(dayLog)].synced => dayOdoo = RowsOf(Len(dayLog))
      /\ dayOdoo = RowsOf(Len(dayLog)) \/ dayOdoo = RowsOf(Len(dayLog) - 1)
  BY <1>1 DEF SlotsInv
<1>6. ASSUME NEW t \in Threads, sync[t].pc # "idle"
      PROVE  /\ Len(dayLog) \in 1..4 /\ sync[t].p = Len(dayLog) /\ ~dayLog[Len(dayLog)].synced
             /\ dayLog[sync[t].p].slot = Len(dayLog)
             /\ sync[t].pc = "act" => sync[t].seen = Opened
             /\ sync[t].pc = "mark" => dayOdoo = RowsOf(Len(dayLog))
             /\ \A u \in Threads : u # t => sync[u].pc = "idle"
  <2>1. sync[t].p = Len(dayLog) /\ sync[t].p \in DOMAIN dayLog
    BY <1>1, <1>6 DEF SlotsInv, NumbersInv
  <2>2. \A u \in Threads : u # t => sync[u].pc = "idle"
    BY <1>1, <1>6 DEF RevertInv, Threads
  <2>3. Len(dayLog) \in 1..4
    BY <1>2, <1>3, <2>1
  <2> QED BY <1>1, <1>5, <1>6, <2>1, <2>2, <2>3 DEF SlotsInv
<1> QED BY <1>3, <1>4, <1>5, <1>6

(* On an undisturbed day the slots and their attendances go in step.       *)
LEMMA SlotsHold ==
    ASSUME DayInv, [DayNext]_dayVars
    PROVE  SlotsInv'
<1>0. DayTyped' /\ DayTyped /\ SlotsInv
  BY DayTypedHolds DEF DayInv
<1>1. CASE DayClock
  BY <1>1, <1>0, SlotsKept DEF DayClock, UndisturbedDay
<1>2. CASE ApproveLeave
  BY <1>2, SlotsDisturbed DEF ApproveLeave, UndisturbedDay, DayInv, ReconcilerInv
<1>3. CASE ForeignPunch
  BY <1>3, <1>0, SlotsDisturbed DEF ForeignPunch, UndisturbedDay, DayTyped
<1>4. CASE ManualAttendance
  BY <1>4, <1>0, SlotsDisturbed DEF ManualAttendance, UndisturbedDay, DayTyped
<1>5. CASE ReadDay
  BY <1>5, <1>0, SlotsKept DEF ReadDay, UndisturbedDay
<1>6. CASE Enroll
  <2>1. dayRun'.slots = dayRun.slots
    BY <1>6 DEF Enroll, DayInv, WorkerInv, NoDayRun
  <2> QED BY <1>6, <1>0, <2>1, SlotsKept DEF Enroll, UndisturbedDay
<1>7. CASE PunchSlot
  <2>1. CASE dayRun.closed # "no"
    BY <1>7, <1>0, <2>1, SlotsKept DEF PunchSlot, UndisturbedDay
  <2>2. CASE dayRun.closed = "no"
    <3> SUFFICES ASSUME UndisturbedDay', dayMode' = "live"
                 PROVE  SlotsInv'
      BY SlotsDisturbed
    <3> DEFINE k == Len(dayLog)
    <3>1. UndisturbedDay /\ dayMode = "live" /\ sync["sweep"].pc = "idle"
      BY <1>7, <2>2 DEF PunchSlot, UndisturbedDay
    <3>2. /\ k \in 0..4 /\ Len(dayRun.slots) = k
          /\ \A i \in DOMAIN dayLog : dayRun.slots[i] = i /\ dayLog[i].slot = i
          /\ dayLog = <<>> \/ dayLog[k].synced => dayOdoo = RowsOf(k)
      BY <3>1, SlotsSay
    <3>3. /\ k \in Nat /\ k + 1 \in Nat /\ DOMAIN dayLog = 1..k
      BY <1>0, DayTypes
    <3>4. /\ NextSlot = k + 1 /\ k + 1 \in 0..4 /\ tk.run.slots = dayRun.slots
          /\ dayRun'.slots = Append(dayRun.slots, k + 1)
      <4>1. NextSlot \in Slots /\ tk.pc = "advance" /\ dayRun' = [dayRun EXCEPT !.slots = Append(@, k + 1)]
        BY <1>7, <2>2 DEF PunchSlot
      <4>2. NextSlot = Len(dayRun.slots) + 1 /\ dayRun'.slots = Append(dayRun.slots, k + 1)
        BY <4>1, <3>3, NextSlotIs
      <4> QED BY <4>1, <4>2, <3>2 DEF Slots, DayInv, WorkerInv
    <3>5. \A i \in 1..k : dayLog[i].synced
      <4>1. \A i \in DOMAIN dayRun.slots : ~(dayRun.slots[i] # 0 /\ ~dayLog[dayRun.slots[i]].synced)
        BY <1>7, <2>2, <3>4 DEF PunchSlot, UnsyncedPrior
      <4>2. DOMAIN dayRun.slots = 1..k
        BY <1>0, <3>2, DayTypes
      <4> QED BY <4>1, <4>2, <3>2, <3>3
    <3>6. dayOdoo = RowsOf(k)
      <4>1. CASE k = 0
        <5>1. dayLog = <<>>
          BY <4>1, <1>0 DEF DayTyped
        <5> QED BY <5>1, <3>2
      <4>2. CASE k # 0
        BY <4>2, <3>2, <3>3, <3>5
      <4> QED BY <4>1, <4>2
    <3>7. /\ Len(dayLog') = k + 1 /\ DOMAIN dayLog' = 1..(k + 1)
          /\ \A i \in 1..k : dayLog'[i] = dayLog[i]
          /\ dayLog'[k + 1].slot = k + 1 /\ ~dayLog'[k + 1].synced
      BY <1>7, <2>2, <1>0, <3>3, <3>4, PunchAppended DEF PunchSlot
    <3>8. /\ Len(dayRun'.slots) = k + 1 /\ \A i \in 1..k : dayRun'.slots[i] = dayRun.slots[i]
          /\ dayRun'.slots[k + 1] = k + 1
      BY <1>0, <3>2, <3>3, <3>4, SlotAppended
    <3>9. /\ sync'["worker"].p = k + 1 /\ sync'["worker"].pc = "look" /\ sync'["sweep"].pc = "idle"
          /\ dayOdoo' = dayOdoo
      BY <1>7, <2>2, <1>0, <3>1, PlacesTyped DEF PunchSlot, DayTyped, Threads
    <3> HIDE DEF k
    <3>10. \A i \in DOMAIN dayLog' : /\ dayRun'.slots[i] = i /\ dayLog'[i].slot = i
                                     /\ i < Len(dayLog') => dayLog'[i].synced
      <4> SUFFICES ASSUME NEW i \in 1..(k + 1)
                   PROVE  /\ dayRun'.slots[i] = i /\ dayLog'[i].slot = i
                          /\ i < k + 1 => dayLog'[i].synced
        BY <3>7
      <4>1. CASE i = k + 1
        BY <4>1, <3>7, <3>8, <3>3
      <4>2. CASE i # k + 1
        <5>1. i \in 1..k
          BY <4>2, <3>3
        <5> QED BY <5>1, <3>2, <3>3, <3>5, <3>7, <3>8
      <4> QED BY <4>1, <4>2
    <3>11. dayLog' # <<>> /\ k + 1 - 1 = k
      BY <3>7, <3>3
    <3>12. Len(dayRun'.slots) = Len(dayLog') /\ ~dayLog'[Len(dayLog')].synced
           /\ Len(dayLog') - 1 = k
      BY <3>7, <3>8, <3>3
    <3>13. dayOdoo' = RowsOf(Len(dayLog') - 1)
      BY <3>6, <3>9, <3>12
    <3>14. \A t \in Threads : sync'[t].pc # "idle" =>
             sync'[t].p = Len(dayLog') /\ sync'[t].pc = "look"
      BY <3>7, <3>9 DEF Threads
    <3> QED BY <3>10, <3>11, <3>12, <3>13, <3>14 DEF SlotsInv, Threads, RowsOf
  <2> QED BY <2>1, <2>2
<1>8. CASE SimulateSlot
  BY <1>8, SlotsDisturbed DEF SimulateSlot
<1>9. CASE EndTick
  BY <1>9, <1>0, SlotsKept DEF EndTick, UndisturbedDay
<1>10. CASE StartSweep
  <2> SUFFICES ASSUME UndisturbedDay', dayMode' = "live"
               PROVE  SlotsInv'
    BY SlotsDisturbed
  <2>1. UndisturbedDay /\ dayMode = "live"
    BY <1>10 DEF StartSweep, UndisturbedDay
  <2> DEFINE k == Len(dayLog)
  <2> DEFINE oldest == CHOOSE p \in UnsyncedSlots : \A q \in UnsyncedSlots : p <= q
  <2>2. oldest \in UnsyncedSlots
    BY <1>10, <1>0, OldestTyped DEF StartSweep
  <2>3. oldest = k /\ ~dayLog[k].synced
    <3>1. /\ k \in 0..4 /\ \A i \in DOMAIN dayLog : i < k => dayLog[i].synced
          /\ DOMAIN dayLog = 1..k
      BY <1>0, <2>1, SlotsSay, DayTypes
    <3> HIDE DEF oldest, k
    <3> QED BY <3>1, <2>2 DEF UnsyncedSlots
  <2> HIDE DEF oldest
  <2>4. /\ sync'["sweep"].p = oldest /\ sync'["sweep"].pc = "look" /\ sync'["worker"].pc = "idle"
    BY <1>10, <1>0, PlacesTyped DEF StartSweep, oldest, DayTyped, Threads, UndisturbedDay
  <2>5. dayLog' = dayLog /\ dayRun' = dayRun /\ dayOdoo' = dayOdoo
    BY <1>10 DEF StartSweep
  <2> QED BY <1>0, <2>1, <2>3, <2>4, <2>5 DEF SlotsInv, Threads, RowsOf
<1>11. ASSUME NEW t \in Threads, Look(t) PROVE SlotsInv'
  <2> SUFFICES ASSUME UndisturbedDay', dayMode' = "live"
               PROVE  SlotsInv'
    BY SlotsDisturbed
  <2>1. UndisturbedDay /\ dayMode = "live"
    BY <1>11 DEF Look, UndisturbedDay
  <2> DEFINE k == Len(dayLog)
  <2>2. /\ \A v \in Threads \ {t} : sync'[v] = sync[v] /\ sync[v].pc = "idle"
        /\ sync[t].p = k /\ ~dayLog[k].synced
    BY <1>11, <1>0, <2>1, SlotsSay DEF Look, DayTyped
  <2>3. sync'[t].p = sync[t].p /\ sync'[t].pc = "act" /\ sync'[t].seen = Opened
    BY <1>11, <1>0 DEF Look, DayTyped, Syncs
  <2>4. dayLog' = dayLog /\ dayRun' = dayRun /\ dayOdoo' = dayOdoo /\ Opened' = Opened
    BY <1>11 DEF Look, Opened, OpenRows
  <2> QED BY <1>0, <2>1, <2>2, <2>3, <2>4 DEF SlotsInv, RowsOf
<1>12. ASSUME NEW t \in Threads, Act(t) PROVE SlotsInv'
  <2> SUFFICES ASSUME UndisturbedDay', dayMode' = "live"
               PROVE  SlotsInv'
    BY SlotsDisturbed
  <2>1. UndisturbedDay /\ dayMode = "live"
    BY <1>12 DEF Act, UndisturbedDay
  <2> DEFINE k == Len(dayLog)
  <2>2. /\ \A v \in Threads \ {t} : sync'[v] = sync[v] /\ sync[v].pc = "idle"
        /\ sync[t].p = k /\ ~dayLog[k].synced /\ k \in 1..4 /\ dayLog[sync[t].p].slot = k
        /\ sync[t].seen = Opened /\ (dayOdoo = RowsOf(k) \/ dayOdoo = RowsOf(k - 1))
    BY <1>12, <1>0, <2>1, SlotsSay DEF Act, DayTyped
  <2>3. sync'[t].p = sync[t].p /\ sync'[t].pc = "mark"
    BY <1>12, <1>0 DEF Act, DayTyped, Syncs
  <2>4. dayLog' = dayLog /\ dayRun' = dayRun /\ dayOdoo' = RowsOf(k)
    BY <1>12, <2>2, WrittenIs DEF Act
  <2> QED BY <1>0, <2>1, <2>2, <2>3, <2>4 DEF SlotsInv, RowsOf
<1>13. ASSUME NEW t \in Threads, Mark(t) PROVE SlotsInv'
  <2> SUFFICES ASSUME UndisturbedDay', dayMode' = "live"
               PROVE  SlotsInv'
    BY SlotsDisturbed
  <2>1. UndisturbedDay /\ dayMode = "live"
    BY <1>13 DEF Mark, UndisturbedDay
  <2> DEFINE k == Len(dayLog)
  <2>2. /\ \A v \in Threads \ {t} : sync'[v] = sync[v] /\ sync[v].pc = "idle"
        /\ sync[t].p = k /\ k \in 1..4 /\ dayOdoo = RowsOf(k)
    BY <1>13, <1>0, <2>1, SlotsSay DEF Mark, DayTyped
  <2>3. sync'[t].pc = "idle" /\ dayRun' = dayRun /\ dayOdoo' = dayOdoo
    BY <1>13, <1>0, PlacesTyped DEF Mark, DayTyped
  <2>4. k \in DOMAIN dayLog /\ Len(dayLog') = k /\ DOMAIN dayLog' = DOMAIN dayLog
        /\ \A i \in DOMAIN dayLog : /\ dayLog'[i].slot = dayLog[i].slot
                                    /\ dayLog[i].synced => dayLog'[i].synced
    BY <1>13, <1>0, <2>2, DayTypes DEF Mark, PunchRows
  <2>5. /\ Len(dayRun.slots) = k
        /\ \A i \in DOMAIN dayLog : /\ dayRun.slots[i] = i /\ dayLog[i].slot = i
                                    /\ i < k => dayLog[i].synced
    BY <2>1, SlotsSay
  <2> HIDE DEF k
  <2>6. /\ Len(dayRun'.slots) = Len(dayLog')
        /\ \A i \in DOMAIN dayLog' : /\ dayRun'.slots[i] = i /\ dayLog'[i].slot = i
                                     /\ i < Len(dayLog') => dayLog'[i].synced
        /\ dayOdoo' = RowsOf(Len(dayLog'))
    BY <2>2, <2>3, <2>4, <2>5
  <2>7. \A v \in Threads : sync'[v].pc = "idle"
    BY <2>2, <2>3
  <2> QED BY <2>6, <2>7 DEF SlotsInv, RowsOf, Threads
<1>14. ASSUME NEW t \in Threads, SyncFails(t) PROVE SlotsInv'
  <2> SUFFICES ASSUME UndisturbedDay', dayMode' = "live"
               PROVE  SlotsInv'
    BY SlotsDisturbed
  <2>1. UndisturbedDay /\ dayMode = "live"
    BY <1>14 DEF SyncFails, UndisturbedDay
  <2> DEFINE k == Len(dayLog)
  <2>2. /\ \A v \in Threads \ {t} : sync'[v] = sync[v] /\ sync[v].pc = "idle"
        /\ sync[t].p = k /\ ~dayLog[k].synced /\ k \in 1..4 /\ dayLog[sync[t].p].slot = k
        /\ sync[t].pc = "act" => sync[t].seen = Opened
        /\ (dayOdoo = RowsOf(k) \/ dayOdoo = RowsOf(k - 1))
    BY <1>14, <1>0, <2>1, SlotsSay DEF SyncFails, DayTyped
  <2>3. sync'[t].pc = "idle" /\ dayRun' = dayRun /\ dayLog' = dayLog
    BY <1>14, <1>0, PlacesTyped DEF SyncFails, DayTyped
  <2>4. dayOdoo' = dayOdoo \/ dayOdoo' = RowsOf(k)
    BY <1>14, <2>2, WrittenIs DEF SyncFails
  <2> QED BY <1>0, <2>1, <2>2, <2>3, <2>4 DEF SlotsInv, RowsOf
<1>15. CASE StartRevert
  BY <1>15, SlotsDisturbed DEF StartRevert, UndisturbedDay, DayInv, ReconcilerInv
<1>16. CASE Neutralize
  BY <1>16, SlotsDisturbed DEF Neutralize, UndisturbedDay, DayInv, ReconcilerInv
<1>17. CASE FetchDay
  BY <1>17, SlotsDisturbed DEF FetchDay, UndisturbedDay, DayInv, ReconcilerInv
<1>18. CASE FlagDay
  BY <1>18, SlotsDisturbed DEF FlagDay, UndisturbedDay, DayInv, ReconcilerInv
<1>19. CASE DeleteAttendances
  BY <1>19, SlotsDisturbed DEF DeleteAttendances, UndisturbedDay, DayInv, ReconcilerInv
<1>20. CASE MarkReverted
  BY <1>20, SlotsDisturbed DEF MarkReverted, UndisturbedDay, DayInv, ReconcilerInv
<1>21. CASE FlagIncomplete
  <2>1. dayRun'.slots = dayRun.slots
    BY <1>21, <1>0 DEF FlagIncomplete, DayTyped, Runs
  <2> QED BY <1>21, <1>0, <2>1, SlotsKept DEF FlagIncomplete, UndisturbedDay
<1>22. CASE RevertFails
  BY <1>22, SlotsDisturbed DEF RevertFails, UndisturbedDay, DayInv, ReconcilerInv
<1>23. CASE DayCrash
  <2>1. \A t \in Threads : sync'[t].pc = "idle"
    BY <1>23, PlacesTyped DEF DayCrash
  <2> QED BY <1>23, <1>0, <2>1 DEF DayCrash, SlotsInv, UndisturbedDay, RowsOf
<1>24. CASE UNCHANGED dayVars
  BY <1>24, <1>0, SlotsKept DEF dayVars, UndisturbedDay
<1> QED
  BY <1>1, <1>2, <1>3, <1>4, <1>5, <1>6, <1>7, <1>8, <1>9, <1>10, <1>11, <1>12, <1>13,
     <1>14, <1>15, <1>16, <1>17, <1>18, <1>19, <1>20, <1>21, <1>22, <1>23, <1>24
  DEF DayNext, Worker, Syncing, Reconciler

(* DayInv holds always: what the tables of the time clock and Odoo say of a salaried day
   at any moment, while the worker, the sweep and the reconciler run (auto_salaried.py). *)
THEOREM DayInvariant == DaySpec => []DayInv
<1>1. DayInit => DayInv
  <2> SUFFICES ASSUME DayInit PROVE DayInv
    OBVIOUS
  <2>1. DayTyped
    <3>1. <<>> \in Seq(PunchRows) /\ <<>> \in Seq(AttendanceRows)
      OBVIOUS
    <3>2. sync \in [Threads -> Syncs]
      BY PlacesTyped DEF DayInit
    <3>3. dayLog \in Seq(PunchRows) /\ dayOdoo \in Seq(AttendanceRows)
      BY <3>1 DEF DayInit
    <3>4. dayNow \in 0..DayOver /\ dayFaults \in Nat /\ edits \in Nat
      BY DayAssumption DEF DayInit, DayAssumption
    <3>6. dayMode \in {"live", "dry_run"} /\ leave \in BOOLEAN /\ overlap \in BOOLEAN
      BY DEF DayInit
    <3>5. dayRun \in Runs /\ tk \in Ticks /\ rc \in Reverts
      BY PlacesTyped DEF DayInit
    <3> QED BY <3>2, <3>3, <3>4, <3>5, <3>6 DEF DayTyped
  <2>2. /\ dayRun.slots = <<>> /\ dayRun.closed = "no" /\ tk.pc = "idle" /\ rc.pc = "idle" /\ rc.own = {}
        /\ \A t \in Threads : sync[t].pc = "idle" /\ sync[t].seen = 0
    BY PlacesTyped DEF DayInit, NoDayRun
  <2>3. Len(<<>>) = 0 /\ DOMAIN <<>> = {}
    OBVIOUS
  <2>4. dayLog = <<>> /\ dayOdoo = <<>> /\ dayRun = NoDayRun
    BY DEF DayInit
  <2>5. NumbersInv
    BY <2>2, <2>3, <2>4 DEF NumbersInv
  <2>6. WorkerInv /\ ReconcilerInv
    BY <2>2, <2>3, <2>4 DEF WorkerInv, ReconcilerInv, NoHumanRecordDeleted
  <2>7. RevertInv
    BY <2>2 DEF RevertInv, Threads
  <2>8. SlotsInv
    BY <2>2, <2>3, <2>4, RowsAre DEF SlotsInv
  <2> QED BY <2>1, <2>5, <2>6, <2>7, <2>8 DEF DayInv
<1>2. DayInv /\ [DayNext]_dayVars => DayInv'
  BY DayTypedHolds, NumbersHold, WorkerHolds, ReconcilerHolds, RevertHolds, SlotsHold DEF DayInv
<1> QED BY <1>1, <1>2, PTL DEF DaySpec

(* On any day, however many calls fail, processes stop and people punch or edit in between:
   the four punches make two attendances with the lunch between them when nobody disturbs the
   day, a reverted day has no attendance of the robot left when no two loops met, and no
   attendance a person opened is deleted (_has_unsynced_prior_slot, _revert_day). *)
THEOREM DayIsSafe == DaySpec => []SalariedDayIsRight
<1>1. DayInv => SalariedDayIsRight
  <2> SUFFICES ASSUME DayInv PROVE SalariedDayIsRight
    OBVIOUS
  <2>0. DayTyped /\ NumbersInv /\ ReconcilerInv /\ RevertInv
    BY DEF DayInv
  <2>1. DayTypeOK
    <3>1. dayNow \in 0..DayOver /\ dayRun.closed \in {"no", "skipped", "reverted", "flagged"}
      BY <2>0 DEF DayTyped, Runs
    <3>2. Len(dayRun.slots) <= 4 /\ \A i \in DOMAIN dayRun.slots : dayRun.slots[i] \in 0..Len(dayLog)
      BY <2>0, DayTypes DEF NumbersInv
    <3>3. \A p \in DOMAIN dayLog : dayLog[p].slot \in 0..4 /\ dayLog[p].att \in 0..Len(dayOdoo)
      BY <2>0, DayTypes DEF NumbersInv
    <3>4. \A a \in DOMAIN dayOdoo : dayOdoo[a].in \in 0..4 /\ dayOdoo[a].out \in 0..4
      BY <2>0, DayTypes
    <3>5. rc.own \subseteq DOMAIN dayOdoo
      BY <2>0 DEF NumbersInv
    <3> QED BY <3>1, <3>2, <3>3, <3>4, <3>5 DEF DayTypeOK
  <2>2. LunchBetween
    <3> SUFFICES ASSUME UndisturbedDay, dayMode = "live", Len(dayRun.slots) = 4, UnsyncedSlots = {}
                 PROVE  /\ Len(dayOdoo) = 2
                        /\ dayOdoo[1].in = 1 /\ dayOdoo[1].out = 2
                        /\ dayOdoo[2].in = 3 /\ dayOdoo[2].out = 4
      BY DEF LunchBetween
    <3>1. Len(dayLog) = 4 /\ (dayLog[4].synced => dayOdoo = RowsOf(4))
      BY SlotsSay
    <3>2. dayLog[4].synced
      BY <2>0, <3>1, DayTypes DEF UnsyncedSlots
    <3> QED BY <3>1, <3>2, RowsAre
  <2>3. RevertedIsClean /\ NoHumanRecordDeleted
    BY <2>0 DEF RevertInv, RevertedIsClean, ReconcilerInv
  <2> QED BY <2>1, <2>2, <2>3 DEF SalariedDayIsRight
<1> QED BY <1>1, DayInvariant, PTL

(* A closed day takes no further slot.                                     *)
LEMMA ClosedStep ==
    ASSUME DayInv, [DayNext]_dayVars
    PROVE  dayRun.closed # "no" => dayRun'.closed = dayRun.closed /\ dayRun'.slots = dayRun.slots
<1>0. WorkerInv /\ ReconcilerInv
  BY DEF DayInv
<1>1. CASE DayClock
  BY <1>1 DEF DayClock
<1>2. CASE ApproveLeave
  BY <1>2 DEF ApproveLeave
<1>3. CASE ForeignPunch
  BY <1>3 DEF ForeignPunch
<1>4. CASE ManualAttendance
  BY <1>4 DEF ManualAttendance
<1>5. CASE ReadDay
  BY <1>5 DEF ReadDay
<1>6. CASE Enroll
  BY <1>6, <1>0 DEF Enroll, WorkerInv, NoDayRun
<1>7. CASE PunchSlot
  BY <1>7 DEF PunchSlot
<1>8. CASE SimulateSlot
  BY <1>8, <1>0 DEF SimulateSlot, WorkerInv
<1>9. CASE EndTick
  BY <1>9 DEF EndTick
<1>10. CASE StartSweep
  BY <1>10 DEF StartSweep
<1>11. ASSUME NEW t \in Threads, Look(t)
      PROVE  dayRun.closed # "no" => dayRun'.closed = dayRun.closed /\ dayRun'.slots = dayRun.slots
  BY <1>11 DEF Look
<1>12. ASSUME NEW t \in Threads, Act(t)
      PROVE  dayRun.closed # "no" => dayRun'.closed = dayRun.closed /\ dayRun'.slots = dayRun.slots
  BY <1>12 DEF Act
<1>13. ASSUME NEW t \in Threads, Mark(t)
      PROVE  dayRun.closed # "no" => dayRun'.closed = dayRun.closed /\ dayRun'.slots = dayRun.slots
  BY <1>13 DEF Mark
<1>14. ASSUME NEW t \in Threads, SyncFails(t)
      PROVE  dayRun.closed # "no" => dayRun'.closed = dayRun.closed /\ dayRun'.slots = dayRun.slots
  BY <1>14 DEF SyncFails
<1>15. CASE StartRevert
  BY <1>15 DEF StartRevert
<1>16. CASE Neutralize
  BY <1>16 DEF Neutralize
<1>17. CASE FetchDay
  BY <1>17 DEF FetchDay
<1>18. CASE FlagDay
  BY <1>18, <1>0 DEF FlagDay, ReconcilerInv
<1>19. CASE DeleteAttendances
  BY <1>19 DEF DeleteAttendances
<1>20. CASE MarkReverted
  BY <1>20, <1>0 DEF MarkReverted, ReconcilerInv
<1>21. CASE FlagIncomplete
  BY <1>21 DEF FlagIncomplete
<1>22. CASE RevertFails
  BY <1>22 DEF RevertFails
<1>23. CASE DayCrash
  BY <1>23 DEF DayCrash
<1>24. CASE UNCHANGED dayVars
  BY <1>24 DEF dayVars
<1> QED
  BY <1>1, <1>2, <1>3, <1>4, <1>5, <1>6, <1>7, <1>8, <1>9, <1>10, <1>11, <1>12, <1>13,
     <1>14, <1>15, <1>16, <1>17, <1>18, <1>19, <1>20, <1>21, <1>22, <1>23, <1>24
  DEF DayNext, Worker, Syncing, Reconciler

(* Once a day is skipped, reverted or flagged it stays so and takes no further punch,
   whatever the worker had read before (_record_punch). *)
THEOREM ClosedDayStays == DaySpec => ClosedStaysClosed
<1>1. DayInv /\ [DayNext]_dayVars =>
        [dayRun.closed # "no" => dayRun'.closed = dayRun.closed /\ dayRun'.slots = dayRun.slots]_dayVars
  BY ClosedStep
<1> QED BY <1>1, DayInvariant, PTL DEF DaySpec, ClosedStaysClosed

=============================================================================
