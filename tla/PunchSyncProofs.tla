-------------------------- MODULE PunchSyncProofs ---------------------------
(***************************************************************************)
(* Theorems about PunchSync, for any number of tasks, punches, faults,     *)
(* fetches and edits, and any day and rounding.                            *)
(***************************************************************************)
EXTENDS PunchSync, FiniteSetTheorems, SequenceTheorems, WellFoundedInduction, TLAPS

-----------------------------------------------------------------------------
(* Sets of numbers and the open rows *)

(* A set of natural numbers that is not empty has a smallest element.      *)
LEMMA Smallest ==
    ASSUME NEW T \in SUBSET Nat, T # {}
    PROVE  \E x \in T : \A y \in T : x <= y
<1>1. PICK x \in T : \A y \in T : ~(<<y, x>> \in OpToRel(<, Nat))
  BY NatLessThanWellFounded, WFMin
<1>2. \A y \in T : ~(y < x)
  BY <1>1 DEF OpToRel
<1> QED BY <1>2

(* One that is bounded has a largest element.                              *)
LEMMA Largest ==
    ASSUME NEW S \in SUBSET Nat, NEW n \in Nat, S # {}, \A s \in S : s <= n
    PROVE  \E x \in S : \A y \in S : y <= x
<1> DEFINE T == {k \in Nat : \A s \in S : s <= k}
<1>1. PICK k \in T : \A j \in T : k <= j
  BY Smallest
<1>2. k \in S
  <2> SUFFICES ASSUME k \notin S PROVE FALSE
    OBVIOUS
  <2>1. \A s \in S : s <= k - 1 /\ k - 1 \in Nat
    BY <1>1
  <2>2. k - 1 \in T
    BY <2>1
  <2> QED BY <1>1, <2>2
<1> QED BY <1>1, <1>2

-----------------------------------------------------------------------------
(* Types *)

(* What the invariant says of single rows, attendances and workers.        *)
LEMMA Typed ==
    ASSUME PunchInv
    PROVE  /\ Len(log) \in Nat /\ Ids = 1..Len(log) /\ log \in Seq(RowType)
           /\ \A p \in Ids : log[p] \in RowType /\ log[p].att \in 0..Len(odoo)
           /\ Len(odoo) \in Nat /\ DOMAIN odoo = 1..Len(odoo) /\ odoo \in Seq(AttendanceType)
           /\ \A a \in DOMAIN odoo : odoo[a] \in AttendanceType
           /\ wk \in [Workers -> WorkerType]
           /\ \A w \in Workers : wk[w] \in WorkerType /\ WorkerOk(wk[w], Len(log), Len(odoo))
           /\ now \in 1..MaxTime /\ now \in Stamps \ {0}
BY BoundsAssumption DEF PunchInv, ClockInv, LogInv, OdooInv, WorkersInv, Ids, Stamps

(* A sequence that is not empty has a first element.                       *)
LEMMA FirstOf ==
    ASSUME NEW S, NEW s \in Seq(S), s # <<>>
    PROVE  /\ Len(s) \in Nat \ {0} /\ DOMAIN s = 1..Len(s)
           /\ 1 \in DOMAIN s /\ s[1] \in S /\ Head(s) = s[1]
<1>1. Len(s) \in Nat \ {0} /\ DOMAIN s = 1..Len(s)
  BY EmptySeq, LenProperties
<1> QED BY <1>1

(* A function on 1..n is a sequence.                                       *)
LEMMA FunIsSeq ==
    ASSUME NEW S, NEW n \in Nat, NEW f \in [1..n -> S]
    PROVE  f \in Seq(S) /\ DOMAIN f = 1..n
BY SeqDef

(* The parts of the batch of a worker that is not idle.                    *)
LEMMA BatchFacts ==
    ASSUME PunchInv, NEW w \in Workers, wk[w].pc # "idle"
    PROVE  /\ wk[w].batch \in Seq(Entries)
           /\ Len(wk[w].batch) \in Nat \ {0} /\ DOMAIN wk[w].batch = 1..Len(wk[w].batch)
           /\ 1 \in DOMAIN wk[w].batch
           /\ Cur(w) = wk[w].batch[1] /\ Cur(w) \in Entries
           /\ Cur(w).id \in Ids /\ Row(w) = log[Cur(w).id] /\ Row(w) \in RowType
<1>1. wk[w] \in WorkerType /\ WorkerOk(wk[w], Len(log), Len(odoo))
  BY Typed
<1>2. wk[w].batch \in Seq(Entries) /\ wk[w].batch # <<>>
  BY <1>1 DEF WorkerType, WorkerOk
<1>3. /\ Len(wk[w].batch) \in Nat \ {0} /\ DOMAIN wk[w].batch = 1..Len(wk[w].batch)
      /\ 1 \in DOMAIN wk[w].batch /\ wk[w].batch[1] \in Entries
      /\ Head(wk[w].batch) = wk[w].batch[1]
  BY <1>2, FirstOf
<1>4. Cur(w) = wk[w].batch[1] /\ Cur(w) \in Entries
  BY <1>3 DEF Cur
<1>6. Cur(w).id \in Ids
  BY <1>1, <1>3, <1>4, Typed DEF WorkerOk
<1> QED BY <1>2, <1>3, <1>4, <1>6, Typed DEF Row

(* Zero is a stamp, and every stamp is a number.                           *)
LEMMA StampFacts == 0 \in Stamps /\ Stamps \subseteq Nat
BY BoundsAssumption DEF Stamps

(* Idle is a worker.                                                       *)
LEMMA IdleTyped ==
    /\ Idle \in WorkerType /\ Idle.pc = "idle" /\ Idle.batch = <<>> /\ Idle.seen = {}
    /\ Idle.res = 0 /\ DOMAIN Idle.batch = {}
<1>1. <<>> \in Seq(Entries)
  BY EmptySeq
<1> QED BY <1>1, StampFacts DEF Idle, WorkerType

(* After a row comes the next row of the batch, or the worker is idle.     *)
LEMMA NextRowFacts ==
    ASSUME PunchInv, NEW w \in Workers, wk[w].pc # "idle", NEW r, r = NextRow(w)
    PROVE  /\ r \in WorkerType /\ r.pc \in {"idle", "start"}
           /\ r.pc # "idle" => r.batch # <<>>
           /\ r.seen = {} /\ r.res = 0
           /\ \A i \in DOMAIN r.batch : /\ i + 1 \in DOMAIN wk[w].batch
                                        /\ r.batch[i] = wk[w].batch[i + 1]
<1> DEFINE b == wk[w].batch
<1>1. /\ b \in Seq(Entries) /\ Len(b) \in Nat \ {0} /\ DOMAIN b = 1..Len(b)
      /\ b # <<>>
  BY BatchFacts, EmptySeq
<1>2. CASE Len(b) = 1
  BY <1>2, IdleTyped DEF NextRow
<1>3. CASE Len(b) # 1
  <2>1. /\ Tail(b) \in Seq(Entries) /\ Len(Tail(b)) = Len(b) - 1
        /\ \A i \in 1..Len(Tail(b)) : Tail(b)[i] = b[i + 1]
    BY <1>1, HeadTailProperties
  <2>2. /\ Tail(b) # <<>>
        /\ DOMAIN Tail(b) = 1..Len(b) - 1
    <3>1. Len(<<>>) = 0
      OBVIOUS
    <3>2. Len(Tail(b)) # 0
      BY <1>1, <1>3, <2>1
    <3>3. DOMAIN Tail(b) = 1..Len(Tail(b))
      BY <2>1, LenProperties
    <3> QED BY <2>1, <3>1, <3>2, <3>3
  <2>3. r = [Idle EXCEPT !.pc = "start", !.batch = Tail(b)]
    BY <1>3 DEF NextRow
  <2>4. /\ r.pc = "start" /\ r.batch = Tail(b) /\ r.seen = {} /\ r.res = 0
        /\ r \in WorkerType
    BY <2>1, <2>3, IdleTyped DEF Idle, WorkerType
  <2>5. ASSUME NEW i \in DOMAIN r.batch
        PROVE  i + 1 \in DOMAIN b /\ r.batch[i] = b[i + 1]
    <3>1. i \in 1..Len(b) - 1 /\ r.batch[i] = Tail(b)[i]
      BY <2>2, <2>4, <2>5
    <3>2. Tail(b)[i] = b[i + 1] /\ i + 1 \in 1..Len(b)
      BY <1>1, <2>1, <3>1
    <3> QED BY <1>1, <3>1, <3>2
  <2> QED BY <2>2, <2>4, <2>5
<1> QED BY <1>2, <1>3

(* What a worker knows stays right while rows and attendances are added.   *)
LEMMA WorkerFrame ==
    ASSUME NEW r, NEW p \in Nat, NEW q \in Nat, NEW m \in Nat, NEW n \in Nat,
           WorkerOk(r, p, m), p <= q, m <= n
    PROVE  WorkerOk(r, q, n)
<1>1. 1..p \subseteq 1..q /\ 1..m \subseteq 1..n /\ 0..m \subseteq 0..n
  OBVIOUS
<1> QED BY <1>1 DEF WorkerOk

(* One worker moves.                                                       *)
LEMMA WorkerStep ==
    ASSUME PunchInv, NEW w \in Workers, NEW r \in WorkerType, 
           WorkerOk(r, Len(log'), Len(odoo')),
           wk' = [wk EXCEPT ![w] = r],
           Len(log') \in Nat, Len(odoo') \in Nat, Len(log) <= Len(log'), Len(odoo) <= Len(odoo')
    PROVE  WorkersInv'
<1>1. wk' \in [Workers -> WorkerType] /\ \A v \in Workers : wk'[v] = IF v = w THEN r ELSE wk[v]
  BY Typed
<1>2. ASSUME NEW v \in Workers PROVE WorkerOk(wk'[v], Len(log'), Len(odoo'))
  <2>1. CASE v = w
    BY <1>1, <2>1
  <2>2. CASE v # w
    <3>1. /\ WorkerOk(wk[v], Len(log), Len(odoo)) /\ Len(log) \in Nat /\ Len(odoo) \in Nat
      BY Typed
    <3>2. wk'[v] = wk[v]
      BY <1>1, <2>2
    <3> QED BY <3>1, <3>2, WorkerFrame
  <2> QED BY <2>1, <2>2
<1> QED BY <1>1, <1>2 DEF WorkersInv

(* One worker moves and nothing else.                                      *)
LEMMA WorkerMoves ==
    ASSUME PunchInv, NEW w \in Workers, NEW r, r \in WorkerType,
           WorkerOk(r, Len(log), Len(odoo)),
           wk' = [wk EXCEPT ![w] = r], log' = log, odoo' = odoo
    PROVE  WorkersInv'
<1>1. Len(log) \in Nat /\ Len(odoo) \in Nat /\ Len(log') = Len(log) /\ Len(odoo') = Len(odoo)
  BY Typed
<1>2. WorkerOk(r, Len(log'), Len(odoo'))
  BY <1>1
<1>3. Len(log) <= Len(log') /\ Len(odoo) <= Len(odoo')
  BY <1>1
<1> QED BY <1>1, <1>2, <1>3, WorkerStep

(* Nobody moves.                                                           *)
LEMMA WorkersFrame ==
    ASSUME PunchInv, wk' = wk, Len(log') \in Nat, Len(odoo') \in Nat,
           Len(log) <= Len(log'), Len(odoo) <= Len(odoo')
    PROVE  WorkersInv'
<1>1. ASSUME NEW v \in Workers PROVE WorkerOk(wk[v], Len(log'), Len(odoo'))
  <2>1. /\ WorkerOk(wk[v], Len(log), Len(odoo)) /\ Len(log) \in Nat /\ Len(odoo) \in Nat
    BY Typed
  <2> QED BY <2>1, WorkerFrame
<1> QED BY <1>1, Typed DEF WorkersInv

(* A new row of the log.                                                   *)
LEMMA LogRow ==
    ASSUME PunchInv, NEW act \in Ins \cup Outs, NEW live \in BOOLEAN,
           log' = OpenLogRow(act, live)
    PROVE  /\ log' \in Seq(RowType) /\ Len(log') = Len(log) + 1
           /\ Ids' = 1..Len(log) + 1
           /\ \A p \in Ids : log'[p] = log[p]
           /\ log'[Len(log) + 1] \in RowType
           /\ log'[Len(log) + 1].act = act
           /\ log'[Len(log) + 1].all => act \in Outs
           /\ log'[Len(log) + 1].synced = FALSE /\ log'[Len(log) + 1].att = 0
<1> DEFINE r == [act |-> act, at |-> now, key |-> now,
                 all |-> act = "clock_out" /\ live,
                 wc |-> WcOf(act, live), synced |-> FALSE, att |-> 0]
<1>1. r \in RowType /\ r.act = act /\ r.synced = FALSE /\ r.att = 0 /\ (r.all => act \in Outs)
  BY Typed DEF RowType, WcOf, Ins, Outs, None
<1>2. log' = Append(log, r)
  BY DEF OpenLogRow
<1> HIDE DEF r
<1> QED BY <1>1, <1>2, Typed DEF Ids

(* Punching and inserting the second row keep the types.                   *)
LEMMA OpenRowTyped ==
    ASSUME PunchInv, NEW act \in Ins \cup Outs, NEW live \in BOOLEAN,
           log' = OpenLogRow(act, live),
           req'.todo \in Seq(Ins \cup Outs), req'.ids \in {req.ids, <<>>},
           req' = [todo |-> req'.todo, ids |-> req'.ids, rounding |-> Len(log) + 1],
           UNCHANGED <<now, queue, wk, odoo, snap, fetch, faults, edits, fetches, crowded>>
    PROVE  PunchInv'
<1>0. ClockInv /\ LogInv /\ OdooInv /\ SnapInv /\ RequestInv /\ WorkersInv
  BY DEF PunchInv
<1>a. <<>> \in Seq(Nat) /\ DOMAIN <<>> = {}
  BY EmptySeq
<1>1. /\ log' \in Seq(RowType) /\ Len(log') = Len(log) + 1 /\ Ids' = 1..Len(log) + 1
      /\ \A p \in Ids : log'[p] = log[p]
      /\ log'[Len(log) + 1].att = 0
      /\ log'[Len(log) + 1].all => log'[Len(log) + 1].act \in Outs
      /\ Len(log) \in Nat /\ Len(odoo) \in Nat /\ Ids = 1..Len(log) /\ Ids \subseteq Ids'
  <2>1. Len(log) \in Nat /\ Len(odoo) \in Nat /\ Ids = 1..Len(log)
    BY Typed
  <2>2. /\ log' \in Seq(RowType) /\ Len(log') = Len(log) + 1 /\ Ids' = 1..Len(log) + 1
        /\ \A p \in Ids : log'[p] = log[p]
        /\ log'[Len(log) + 1].att = 0
        /\ log'[Len(log) + 1].all => log'[Len(log) + 1].act \in Outs
    BY LogRow
  <2> QED BY <2>1, <2>2
<1>2. ClockInv' /\ OdooInv' /\ SnapInv'
  BY <1>0, <1>1 DEF ClockInv, OdooInv, SnapInv
<1>3. LogInv'
  BY <1>0, <1>1 DEF LogInv, Ids
<1>4. WorkersInv'
  BY <1>1, WorkersFrame
<1>5. RequestInv'
  <2>1. /\ req.ids \in Seq(Nat) /\ \A i \in DOMAIN req.ids : req.ids[i] \in Ids
    BY <1>0 DEF RequestInv
  <2>2. req'.ids \in Seq(Nat) /\ \A i \in DOMAIN req'.ids : req'.ids[i] \in Ids
    <3>1. CASE req'.ids = req.ids
      BY <2>1, <3>1
    <3>2. CASE req'.ids = <<>>
      BY <1>a, <3>2
    <3> QED BY <3>1, <3>2
  <2>3. req' \in [todo : Seq(Ins \cup Outs), ids : Seq(Nat), rounding : {0, Len(log')}]
    BY <1>1, <2>2
  <2>4. \A i \in DOMAIN req'.ids : req'.ids[i] \in Ids' \ {req'.rounding}
    BY <1>1, <2>2
  <2> QED BY <1>0, <1>1, <2>3, <2>4 DEF RequestInv
<1> QED BY <1>2, <1>3, <1>4, <1>5 DEF PunchInv

(* Punching keeps the types.                                               *)
LEMMA PunchTyped ==
    ASSUME PunchInv, NEW acts \in Requests, NEW live \in BOOLEAN, Punch(acts, live)
    PROVE  PunchInv'
<1>1. acts[1] \in Ins \cup Outs /\ Tail(acts) \in Seq(Ins \cup Outs)
  <2>1. ASSUME NEW a \in Ins \cup Outs PROVE Tail(<<a>>) \in Seq(Ins \cup Outs)
    OBVIOUS
  <2>2. ASSUME NEW a \in Ins \cup Outs, NEW b \in Ins \cup Outs
        PROVE  Tail(<<a, b>>) \in Seq(Ins \cup Outs)
    OBVIOUS
  <2>3. \A a \in Ins \cup Outs : <<a>>[1] \in Ins \cup Outs
    OBVIOUS
  <2>4. \A a, b \in Ins \cup Outs : <<a, b>>[1] \in Ins \cup Outs
    OBVIOUS
  <2>5. \/ \E a \in Ins \cup Outs : acts = <<a>>
        \/ \E a, b \in Ins \cup Outs : acts = <<a, b>>
    BY DEF Requests, Ins, Outs
  <2> QED BY <2>1, <2>2, <2>3, <2>4, <2>5
<1>2. /\ log' = OpenLogRow(acts[1], live)
      /\ req' = [todo |-> Tail(acts), ids |-> <<>>, rounding |-> Len(log) + 1]
      /\ UNCHANGED <<now, queue, wk, odoo, snap, fetch, faults, edits, fetches, crowded>>
  BY DEF Punch
<1>3. req'.todo = Tail(acts) /\ req'.ids = <<>>
  BY <1>2
<1> QED BY <1>1, <1>2, <1>3, OpenRowTyped

(* So does inserting the second row of a transfer.                         *)
LEMMA InsertSecondTyped ==
    ASSUME PunchInv, InsertSecond
    PROVE  PunchInv'
<1>1. req \in [todo : Seq(Ins \cup Outs), ids : Seq(Nat), rounding : {0, Len(log)}]
  BY DEF PunchInv, RequestInv
<1>2. /\ req.todo # <<>>
      /\ log' = OpenLogRow(Head(req.todo), FALSE)
      /\ req' = [req EXCEPT !.todo = Tail(@), !.rounding = Len(log) + 1]
      /\ UNCHANGED <<now, queue, wk, odoo, snap, fetch, faults, edits, fetches, crowded>>
  BY DEF InsertSecond
<1>3. Head(req.todo) \in Ins \cup Outs /\ Tail(req.todo) \in Seq(Ins \cup Outs)
  BY <1>1, <1>2, HeadTailProperties
<1>4. /\ req'.todo = Tail(req.todo) /\ req'.ids = req.ids /\ req'.rounding = Len(log) + 1
      /\ req' = [todo |-> req'.todo, ids |-> req'.ids, rounding |-> Len(log) + 1]
  BY <1>1, <1>2
<1> QED BY <1>2, <1>3, <1>4, OpenRowTyped

(* A rounded time is a time.                                               *)
LEMMA RoundedTyped ==
    ASSUME NEW act, NEW t \in 1..MaxTime
    PROVE  ApplyRounding(act, t) \in Stamps \ {0}
BY BoundsAssumption DEF ApplyRounding, Toward, Stamps

(* What RoundRow does to the log.                                          *)
LEMMA RoundEffect ==
    ASSUME PunchInv, RoundRow
    PROVE  /\ req.rounding \in Ids /\ req.rounding = Len(log)
           /\ log' \in Seq(RowType) /\ Len(log') = Len(log) /\ Ids' = Ids
           /\ \A q \in Ids : /\ q # req.rounding => log'[q] = log[q]
                             /\ log'[q].act = log[q].act /\ log'[q].synced = log[q].synced
                             /\ log'[q].att = log[q].att /\ log'[q].all = log[q].all
                             /\ log'[q].wc = log[q].wc
<1> DEFINE p == req.rounding
<1>1. p # 0 /\ p \in {0, Len(log)}
  BY DEF RoundRow, PunchInv, RequestInv
<1>2. p \in Ids /\ p = Len(log)
  BY <1>1, Typed
<1>3. PICK k \in Stamps \ {0} : log' = [log EXCEPT ![p].key = k]
  <2> DEFINE rounded == ApplyRounding(log[p].act, log[p].at)
  <2>1. log' = [log EXCEPT ![p].key = rounded] \/ log' = log
    BY DEF RoundRow
  <2>2. log[p] \in RowType
    BY <1>2, Typed
  <2>3. rounded \in Stamps \ {0} /\ log[p].key \in Stamps \ {0}
    BY <2>2, RoundedTyped, BoundsAssumption DEF RowType
  <2> HIDE DEF rounded
  <2>4. log = [log EXCEPT ![p].key = log[p].key]
    BY <1>2, <2>2, Typed DEF RowType, Ids
  <2> QED BY <2>1, <2>3, <2>4
<1> DEFINE r == [log[p] EXCEPT !.key = k]
<1>4. r \in RowType /\ r.act = log[p].act /\ r.synced = log[p].synced /\ r.att = log[p].att
      /\ r.all = log[p].all /\ r.wc = log[p].wc
  BY <1>2, <1>3, Typed DEF RowType
<1>5. log' = [log EXCEPT ![p] = r]
  BY <1>3
<1> HIDE DEF r, p
<1>6. log' \in Seq(RowType) /\ Len(log') = Len(log) /\ Ids' = Ids
  BY <1>2, <1>4, <1>5, Typed DEF Ids
<1>7. \A q \in Ids : log'[q] = IF q = p THEN r ELSE log[q]
  BY <1>2, <1>5, Typed DEF Ids
<1> QED BY <1>2, <1>4, <1>6, <1>7 DEF p

(* Rounding keeps the types.                                               *)
LEMMA RoundRowTyped ==
    ASSUME PunchInv, RoundRow
    PROVE  PunchInv'
<1>0. ClockInv /\ LogInv /\ OdooInv /\ SnapInv /\ RequestInv /\ WorkersInv
  BY DEF PunchInv
<1> DEFINE p == req.rounding
<1>1. /\ p \in Ids /\ log' \in Seq(RowType) /\ Len(log') = Len(log) /\ Ids' = Ids
      /\ \A q \in Ids : log'[q].att = log[q].att /\ log'[q].all = log[q].all
                        /\ log'[q].act = log[q].act
  BY RoundEffect
<1>2. /\ faults' = faults \/ (faults < MaxFaults /\ faults' = faults + 1)
      /\ IF req.todo # <<>>
         THEN /\ req' = [req EXCEPT !.ids = Append(@, p), !.rounding = 0]
              /\ queue' = queue
         ELSE /\ req' = NoRequest
              /\ queue' = Append(queue, Append(req.ids, p))
      /\ UNCHANGED <<now, wk, odoo, snap, fetch, edits, fetches, crowded>>
  BY DEF RoundRow
<1>3. ClockInv'
  BY <1>0, <1>2, BoundsAssumption DEF ClockInv
<1>8. OdooInv' /\ SnapInv'
  BY <1>0, <1>1, <1>2 DEF OdooInv, SnapInv
<1>4. LogInv'
  BY <1>0, <1>1, <1>2 DEF LogInv
<1>5. WorkersInv'
  BY <1>1, <1>2, Typed, WorkersFrame
<1>6. RequestInv'
  <2>1. /\ req \in [todo : Seq(Ins \cup Outs), ids : Seq(Nat), rounding : {0, Len(log)}]
        /\ \A i \in DOMAIN req.ids : req.ids[i] \in Ids \ {p}
        /\ queue \in Seq(Seq(Nat))
        /\ \A i \in DOMAIN queue : queue[i] # <<>> /\ \A j \in DOMAIN queue[i] : queue[i][j] \in Ids
    BY <1>0 DEF RequestInv
  <2>2. p \in Nat /\ p # 0 /\ Ids = 1..Len(log) /\ Len(log) \in Nat
    BY <1>1, Typed
  <2> DEFINE a == Append(req.ids, p)
  <2>3. /\ a \in Seq(Nat) /\ Len(a) = Len(req.ids) + 1 /\ Len(req.ids) \in Nat
        /\ \A i \in DOMAIN a : a[i] \in Ids
    BY <1>1, <2>1, <2>2
  <2>4. a # <<>>
    <3>1. Len(<<>>) = 0
      OBVIOUS
    <3> QED BY <2>3, <3>1
  <2> HIDE DEF a
  <2>5. CASE req.todo # <<>>
    <3>1. req' = [req EXCEPT !.ids = a, !.rounding = 0] /\ queue' = queue
      BY <1>2, <2>5 DEF a
    <3>2. req'.ids = a /\ req'.rounding = 0
      BY <2>1, <3>1
    <3>3. req' \in [todo : Seq(Ins \cup Outs), ids : Seq(Nat), rounding : {0, Len(log')}]
      BY <2>1, <2>3, <3>1
    <3>4. \A i \in DOMAIN req'.ids : req'.ids[i] \in Ids' \ {req'.rounding}
      BY <1>1, <2>2, <2>3, <3>2
    <3> QED BY <1>1, <2>1, <3>1, <3>3, <3>4 DEF RequestInv
  <2>6. CASE req.todo = <<>>
    <3>1. req' = NoRequest /\ queue' = Append(queue, a)
      BY <1>2, <2>6 DEF a
    <3>2. <<>> \in Seq(Ins \cup Outs) /\ <<>> \in Seq(Nat) /\ DOMAIN <<>> = {}
      BY EmptySeq
    <3>3. /\ req' \in [todo : Seq(Ins \cup Outs), ids : Seq(Nat), rounding : {0, Len(log')}]
          /\ req'.ids = <<>>
      BY <3>1, <3>2 DEF NoRequest
    <3>4. /\ queue' \in Seq(Seq(Nat)) /\ Len(queue) \in Nat
          /\ DOMAIN queue' = 1..Len(queue) + 1 /\ DOMAIN queue = 1..Len(queue)
          /\ \A i \in DOMAIN queue : queue'[i] = queue[i]
          /\ queue'[Len(queue) + 1] = a
      <4> HIDE <1>2
      <4>1. a \in Seq(Nat) /\ queue \in Seq(Seq(Nat))
        BY <2>1, <2>3
      <4> QED BY <4>1, <3>1
    <3>5. ASSUME NEW i \in DOMAIN queue'
          PROVE  queue'[i] # <<>> /\ \A j \in DOMAIN queue'[i] : queue'[i][j] \in Ids'
      <4>1. CASE i \in DOMAIN queue
        BY <1>1, <2>1, <3>4, <4>1
      <4>2. CASE i = Len(queue) + 1
        BY <1>1, <2>3, <2>4, <3>4, <4>2
      <4> QED BY <3>4, <4>1, <4>2
    <3> QED BY <3>2, <3>3, <3>4, <3>5 DEF RequestInv
  <2> QED BY <2>5, <2>6
<1> QED BY <1>3, <1>4, <1>5, <1>6, <1>8 DEF PunchInv

(* What StartTask makes of the worker.                                     *)
LEMMA StartTaskEffect ==
    ASSUME PunchInv, NEW w \in Tasks, StartTask(w)
    PROVE  \E r \in WorkerType :
              /\ wk' = [wk EXCEPT ![w] = r]
              /\ wk[w].pc = "idle" /\ r.pc = "start" /\ r.batch # <<>>
              /\ r.seen = {} /\ r.res = 0
              /\ queue # <<>> /\ 1 \in DOMAIN queue /\ queue' = Tail(queue)
              /\ DOMAIN r.batch = DOMAIN queue[1]
              /\ \A i \in DOMAIN r.batch : r.batch[i] = [id |-> queue[1][i], ts |-> 0]
<1> DEFINE h == queue[1]
           b == [i \in DOMAIN h |-> [id |-> h[i], ts |-> 0]]
           r == [Idle EXCEPT !.pc = "start", !.batch = b]
<1>1. /\ queue \in Seq(Seq(Nat)) /\ queue # <<>>
      /\ \A i \in DOMAIN queue : queue[i] # <<>>
  BY DEF StartTask, PunchInv, RequestInv
<1>2. 1 \in DOMAIN queue /\ h \in Seq(Nat) /\ Head(queue) = h /\ h # <<>>
  BY <1>1, FirstOf
<1>3. Len(h) \in Nat \ {0} /\ DOMAIN h = 1..Len(h) /\ \A i \in DOMAIN h : h[i] \in Nat
  BY <1>2, FirstOf
<1>4. b \in Seq(Entries) /\ b # <<>> /\ DOMAIN b = DOMAIN h
  <2>1. b \in [1..Len(h) -> Entries]
    BY <1>3, StampFacts DEF Entries
  <2>2. b \in Seq(Entries)
    BY <1>3, <2>1, FunIsSeq
  <2>3. DOMAIN <<>> = {}
    OBVIOUS
  <2>4. 1 \in DOMAIN h
    BY <1>3
  <2>5. DOMAIN b = DOMAIN h
    OBVIOUS
  <2> QED BY <2>2, <2>3, <2>4, <2>5
<1>5. r \in WorkerType /\ r.pc = "start" /\ r.batch = b /\ r.seen = {} /\ r.res = 0
  BY <1>4, IdleTyped DEF Idle, WorkerType
<1>6. wk' = [wk EXCEPT ![w] = r] /\ queue' = Tail(queue) /\ wk[w].pc = "idle"
  BY <1>2 DEF StartTask
<1>7. \A i \in DOMAIN b : b[i] = [id |-> h[i], ts |-> 0]
  OBVIOUS
<1> HIDE DEF b, r
<1> QED BY <1>1, <1>2, <1>4, <1>5, <1>6, <1>7

(* Starting a task keeps the types.                                        *)
LEMMA StartTaskTyped ==
    ASSUME PunchInv, NEW w \in Tasks, StartTask(w)
    PROVE  PunchInv'
<1>0. /\ ClockInv /\ LogInv /\ OdooInv /\ SnapInv /\ RequestInv /\ WorkersInv
      /\ w \in Workers
  BY DEF PunchInv, Workers
<1>1. PICK r \in WorkerType :
              /\ wk' = [wk EXCEPT ![w] = r]
              /\ r.pc = "start" /\ r.batch # <<>>
              /\ r.seen = {} /\ r.res = 0
              /\ queue # <<>> /\ 1 \in DOMAIN queue /\ queue' = Tail(queue)
              /\ DOMAIN r.batch = DOMAIN queue[1]
              /\ \A i \in DOMAIN r.batch : r.batch[i] = [id |-> queue[1][i], ts |-> 0]
  BY StartTaskEffect
<1>2. UNCHANGED <<now, log, req, odoo, snap, fetch, faults, edits, fetches, crowded>>
  BY DEF StartTask
<1>3. /\ queue \in Seq(Seq(Nat))
      /\ \A i \in DOMAIN queue : queue[i] # <<>> /\ \A j \in DOMAIN queue[i] : queue[i][j] \in Ids
  BY <1>0 DEF RequestInv
<1>4. \A i \in DOMAIN r.batch : r.batch[i].id \in Ids
  <2>1. \A i \in DOMAIN queue[1] : queue[1][i] \in Ids
    BY <1>1, <1>3
  <2>2. ASSUME NEW i \in DOMAIN r.batch PROVE r.batch[i].id = queue[1][i]
    <3>1. r.batch[i] = [id |-> queue[1][i], ts |-> 0]
      BY <1>1
    <3> QED BY <3>1
  <2> QED BY <1>1, <2>1, <2>2
<1>5. WorkersInv'
  <2>1. log' = log /\ odoo' = odoo /\ Len(log) \in Nat /\ Len(odoo) \in Nat /\ Ids = 1..Len(log)
    BY <1>2, Typed
  <2>2. WorkerOk(r, Len(log), Len(odoo))
    BY <1>1, <1>2, <1>4, <2>1 DEF WorkerOk
  <2>3. wk' = [wk EXCEPT ![w] = r]
    BY <1>1
  <2>4. r \in WorkerType
    BY <1>1
  <2> QED BY <1>0, <2>1, <2>2, <2>3, <2>4, WorkerMoves
<1>6. RequestInv'
  <2>1. /\ queue' \in Seq(Seq(Nat)) /\ DOMAIN queue = 1..Len(queue) /\ Len(queue) \in Nat
        /\ Len(queue') = Len(queue) - 1 /\ DOMAIN queue' = 1..Len(queue')
        /\ \A i \in 1..Len(queue') : queue'[i] = queue[i + 1]
    BY <1>1, <1>3, HeadTailProperties, LenProperties
  <2>2. \A i \in DOMAIN queue' : i + 1 \in DOMAIN queue /\ queue'[i] = queue[i + 1]
    BY <2>1
  <2>3. \A i \in DOMAIN queue' : queue'[i] # <<>> /\ \A j \in DOMAIN queue'[i] : queue'[i][j] \in Ids'
    BY <1>2, <1>3, <2>2 DEF Ids
  <2> QED BY <1>0, <1>2, <2>1, <2>3 DEF RequestInv, Ids
<1> QED BY <1>0, <1>2, <1>5, <1>6 DEF PunchInv, ClockInv, LogInv, OdooInv, SnapInv, Ids

(* What StartSweep makes of the sweep.                                     *)
LEMMA StartSweepEffect ==
    ASSUME PunchInv, StartSweep
    PROVE  \E r \in WorkerType :
              /\ wk' = [wk EXCEPT ![Sweep] = r]
              /\ wk[Sweep].pc = "idle" /\ r.pc = "start" /\ r.batch # <<>>
              /\ r.seen = {} /\ r.res = 0
              /\ \A i \in DOMAIN r.batch : /\ r.batch[i].id \in Ids
                                           /\ r.batch[i].ts = log[r.batch[i].id].key
<1>1. IsFiniteSet(Unsynced) /\ Cardinality(Unsynced) \in Nat
  <2>1. Unsynced \in SUBSET (1..Len(log)) /\ Len(log) \in Nat
    BY Typed DEF Unsynced
  <2>2. IsFiniteSet(1..Len(log))
    BY <2>1, FS_Interval
  <2> QED BY <2>1, <2>2, FS_Subset, FS_CardinalityType
<1>2. Cardinality(Unsynced) # 0
  BY <1>1, FS_EmptySet DEF StartSweep
<1>3. PICK order \in Sorted(Unsynced) :
         wk' = [wk EXCEPT ![Sweep] =
                  [Idle EXCEPT !.pc = "start",
                               !.batch = [i \in DOMAIN order |->
                                    [id |-> order[i], ts |-> log[order[i]].key]]]]
  BY DEF StartSweep
<1> DEFINE b == [i \in DOMAIN order |-> [id |-> order[i], ts |-> log[order[i]].key]]
           r == [Idle EXCEPT !.pc = "start", !.batch = b]
<1>4. /\ order \in [1..Cardinality(Unsynced) -> Unsynced]
      /\ \A i \in DOMAIN order : order[i] \in Ids
  BY DEF Sorted, Unsynced
<1>5. \A p \in Ids : p \in Nat /\ log[p].key \in Stamps
  BY Typed DEF RowType
<1>6. b \in [1..Cardinality(Unsynced) -> Entries]
  BY <1>4, <1>5 DEF Entries
<1>7. /\ b \in Seq(Entries) /\ b # <<>> /\ DOMAIN b = DOMAIN order
  <2>1. b \in Seq(Entries)
    BY <1>1, <1>6, FunIsSeq
  <2>2. DOMAIN <<>> = {}
    OBVIOUS
  <2>3. 1 \in DOMAIN b
    BY <1>1, <1>2, <1>6
  <2> QED BY <2>1, <2>2, <2>3
<1>8. r \in WorkerType /\ r.pc = "start" /\ r.batch = b /\ r.seen = {} /\ r.res = 0
  BY <1>7, IdleTyped DEF Idle, WorkerType
<1>9. wk' = [wk EXCEPT ![Sweep] = r] /\ wk[Sweep].pc = "idle"
  BY <1>3 DEF StartSweep
<1>10. \A i \in DOMAIN b : b[i] = [id |-> order[i], ts |-> log[order[i]].key]
  OBVIOUS
<1> HIDE DEF b, r
<1>11. \A i \in DOMAIN b : b[i].id \in Ids /\ b[i].ts = log[b[i].id].key
  BY <1>4, <1>7, <1>10
<1> QED BY <1>7, <1>8, <1>9, <1>11

(* Starting the sweep keeps the types.                                     *)
LEMMA StartSweepTyped ==
    ASSUME PunchInv, StartSweep
    PROVE  PunchInv'
<1>0. /\ ClockInv /\ LogInv /\ OdooInv /\ SnapInv /\ RequestInv /\ WorkersInv
      /\ Sweep \in Workers
  BY DEF PunchInv, Workers
<1>1. PICK r \in WorkerType :
              /\ wk' = [wk EXCEPT ![Sweep] = r]
              /\ r.pc = "start" /\ r.batch # <<>>
              /\ r.seen = {} /\ r.res = 0
              /\ \A i \in DOMAIN r.batch : r.batch[i].id \in Ids
  BY StartSweepEffect
<1>2. /\ UNCHANGED <<now, log, req, queue, odoo, snap, fetch, faults, edits, fetches>>
      /\ crowded' = (crowded \/ req.rounding # 0)
  BY DEF StartSweep
<1>3. WorkersInv'
  <2>1. log' = log /\ odoo' = odoo /\ Len(log) \in Nat /\ Len(odoo) \in Nat /\ Ids = 1..Len(log)
    BY <1>2, Typed
  <2>2. WorkerOk(r, Len(log), Len(odoo))
    BY <1>1, <1>2, <2>1 DEF WorkerOk
  <2>3. wk' = [wk EXCEPT ![Sweep] = r]
    BY <1>1
  <2>4. r \in WorkerType
    BY <1>1
  <2> QED BY <1>0, <2>1, <2>2, <2>3, <2>4, WorkerMoves
<1> QED BY <1>0, <1>2, <1>3 DEF PunchInv, ClockInv, LogInv, OdooInv, SnapInv, RequestInv, Ids

(* A step that only moves a worker keeps the types.                        *)
LEMMA OnlyWorkerTyped ==
    ASSUME PunchInv, NEW w \in Workers, NEW r, r \in WorkerType,
           WorkerOk(r, Len(log), Len(odoo)),
           wk' = [wk EXCEPT ![w] = r], crowded' \in BOOLEAN, faults' \in 0..MaxFaults,
           UNCHANGED <<now, log, req, queue, odoo, snap, fetch, edits>>
    PROVE  PunchInv'
<1>0. ClockInv /\ LogInv /\ OdooInv /\ SnapInv /\ RequestInv /\ WorkersInv
  BY DEF PunchInv
<1>1. WorkersInv'
  BY WorkerMoves
<1>2. Ids' = Ids
  BY DEF Ids
<1> QED BY <1>0, <1>1, <1>2 DEF PunchInv, ClockInv, LogInv, OdooInv, SnapInv, RequestInv

(* What Start makes of the worker.                                         *)
LEMMA StartEffect ==
    ASSUME PunchInv, NEW w \in Workers, Start(w)
    PROVE  \E r \in WorkerType :
              /\ wk' = [wk EXCEPT ![w] = r] /\ WorkerOk(r, Len(log), Len(odoo))
              /\ wk[w].pc = "start" /\ r.pc = "look" /\ r.batch = wk[w].batch
              /\ r.ts = IF Cur(w).ts = 0 THEN Row(w).key ELSE Cur(w).ts
<1> DEFINE t == IF Cur(w).ts = 0 THEN Row(w).key ELSE Cur(w).ts
           r == [wk[w] EXCEPT !.pc = "look", !.ts = t]
<1>1. wk[w].pc = "start" /\ wk' = [wk EXCEPT ![w].pc = "look", ![w].ts = t]
  BY DEF Start
<1>2. Cur(w) \in Entries /\ Row(w) \in RowType
  BY <1>1, BatchFacts
<1>3. t \in Stamps /\ t # 0
  BY <1>2 DEF Entries, RowType
<1> HIDE DEF t
<1>4. wk' = [wk EXCEPT ![w] = r]
  BY <1>1
<1>5. wk[w] \in WorkerType /\ WorkerOk(wk[w], Len(log), Len(odoo))
  BY Typed
<1>6. /\ r \in WorkerType /\ r.pc = "look" /\ r.batch = wk[w].batch /\ r.ts = t
      /\ r.seen = wk[w].seen /\ r.res = wk[w].res
  BY <1>3, <1>5 DEF WorkerType
<1> HIDE DEF r
<1>7. WorkerOk(r, Len(log), Len(odoo))
  BY <1>1, <1>3, <1>5, <1>6 DEF WorkerOk
<1> QED BY <1>1, <1>4, <1>6, <1>7 DEF t

(* The chosen open row is an open row.                                     *)
LEMMA CurrentIsOpen ==
    ASSUME PunchInv
    PROVE  /\ OpenRows \subseteq DOMAIN odoo
           /\ CurrentAttendance \subseteq OpenRows
           /\ \A a \in OpenRows : OpenRows = {a} => CurrentAttendance = OpenRows
<1> DEFINE Newest(a) == \A b \in OpenRows :
                odoo[b].in < odoo[a].in \/ (odoo[b].in = odoo[a].in /\ b <= a)
<1>1. OpenRows \subseteq DOMAIN odoo
  BY DEF OpenRows
<1>2. CASE OpenRows = {}
  BY <1>1, <1>2 DEF CurrentAttendance
<1>3. CASE OpenRows # {}
  <2> DEFINE T == {odoo[a].in : a \in OpenRows}
             top == MaxTime + ShiftStart + ShiftEnd
  <2>1. /\ \A a \in OpenRows : odoo[a].in \in Nat /\ odoo[a].in <= top /\ a \in Nat /\ a <= Len(odoo)
        /\ top \in Nat /\ Len(odoo) \in Nat
    <3>1. top \in Nat
      BY BoundsAssumption
    <3>2. \A t \in Stamps : t \in Nat /\ t <= top
      BY <3>1 DEF Stamps
    <3> HIDE DEF top
    <3>3. \A a \in OpenRows : odoo[a] \in AttendanceType /\ a \in 1..Len(odoo) /\ Len(odoo) \in Nat
      BY <1>1, Typed
    <3>4. \A a \in OpenRows : odoo[a].in \in Stamps
      BY <3>3 DEF AttendanceType
    <3>5. Len(odoo) \in Nat
      BY Typed
    <3> QED BY <3>1, <3>2, <3>3, <3>4, <3>5
  <2>2. T \in SUBSET Nat /\ T # {} /\ \A t \in T : t <= top
    BY <1>3, <2>1
  <2> HIDE DEF top
  <2>3. PICK m \in T : \A t \in T : t <= m
    BY <2>1, <2>2, Largest
  <2> DEFINE U == {a \in OpenRows : odoo[a].in = m}
  <2>4. U \in SUBSET Nat /\ U # {} /\ \A a \in U : a <= Len(odoo)
    BY <2>1, <2>3
  <2>5. PICK a \in U : \A b \in U : b <= a
    BY <2>1, <2>4, Largest
  <2>6. Newest(a)
    <3> SUFFICES ASSUME NEW b \in OpenRows
                 PROVE  odoo[b].in < odoo[a].in \/ (odoo[b].in = odoo[a].in /\ b <= a)
      OBVIOUS
    <3>1. odoo[b].in \in T /\ odoo[a].in = m /\ m \in Nat /\ odoo[b].in \in Nat
      BY <2>1, <2>5
    <3>2. odoo[b].in <= m
      BY <2>3, <3>1
    <3>3. odoo[b].in = m => b <= a
      BY <2>5
    <3> QED BY <3>1, <3>2, <3>3
  <2>7. a \in OpenRows
    BY <2>5
  <2> HIDE DEF Newest
  <2>8. (CHOOSE c \in OpenRows : Newest(c)) \in OpenRows
    BY <2>6, <2>7
  <2>9. CurrentAttendance = {CHOOSE c \in OpenRows : Newest(c)}
    BY <1>3 DEF CurrentAttendance, Newest
  <2> QED BY <1>1, <2>8, <2>9
<1> QED BY <1>2, <1>3

(* What Look makes of the worker.                                          *)
LEMMA LookEffect ==
    ASSUME PunchInv, NEW w \in Workers, Look(w)
    PROVE  \E r \in WorkerType :
              /\ wk' = [wk EXCEPT ![w] = r] /\ WorkerOk(r, Len(log), Len(odoo))
              /\ wk[w].pc = "look" /\ r.batch = wk[w].batch /\ r.ts = wk[w].ts
              /\ r.seen = IF Row(w).all THEN OpenRows ELSE CurrentAttendance
              /\ r.pc = IF r.seen = {} /\ Row(w).act \in Outs /\ ~Row(w).all
                        THEN "mark" ELSE "act"
<1> DEFINE found == IF Row(w).all THEN OpenRows ELSE CurrentAttendance
           pc == IF found = {} /\ Row(w).act \in Outs /\ ~Row(w).all THEN "mark" ELSE "act"
           r == [wk[w] EXCEPT !.seen = found, !.pc = pc]
<1>1. wk[w].pc = "look" /\ wk' = [wk EXCEPT ![w].seen = found, ![w].pc = pc]
  BY DEF Look
<1>2. found \subseteq 1..Len(odoo) /\ found \in SUBSET Nat
  BY CurrentIsOpen, Typed
<1>3. pc \in {"mark", "act"}
  OBVIOUS
<1> HIDE DEF pc, found
<1>4. wk' = [wk EXCEPT ![w] = r]
  BY <1>1
<1>5. wk[w] \in WorkerType /\ WorkerOk(wk[w], Len(log), Len(odoo))
  BY Typed
<1>6. /\ r \in WorkerType /\ r.pc = pc /\ r.batch = wk[w].batch /\ r.ts = wk[w].ts
      /\ r.seen = found /\ r.res = wk[w].res
  BY <1>2, <1>3, <1>5 DEF WorkerType
<1> HIDE DEF r
<1>7. WorkerOk(r, Len(log), Len(odoo))
  BY <1>1, <1>2, <1>3, <1>5, <1>6 DEF WorkerOk
<1> QED BY <1>1, <1>4, <1>6, <1>7 DEF pc, found

(* Picking up a row, looking and checking keep the types.                  *)
LEMMA LookingTyped ==
    ASSUME PunchInv, NEW w \in Workers, Start(w) \/ Look(w) \/ CheckNoneOpen(w)
    PROVE  PunchInv'
<1>0. crowded \in BOOLEAN /\ faults \in 0..MaxFaults
  BY DEF PunchInv, ClockInv
<1>1. CASE Start(w)
  <2>1. PICK r \in WorkerType : wk' = [wk EXCEPT ![w] = r] /\ WorkerOk(r, Len(log), Len(odoo))
    BY <1>1, StartEffect
  <2>2. /\ crowded' = (crowded \/ Disorder(w))
        /\ UNCHANGED <<now, log, req, queue, odoo, snap, fetch, faults, edits, fetches>>
    BY <1>1 DEF Start
  <2>3. crowded' \in BOOLEAN /\ faults' \in 0..MaxFaults
    BY <1>0, <2>2
  <2> QED BY <2>1, <2>2, <2>3, OnlyWorkerTyped
<1>2. CASE Look(w)
  <2>1. PICK r \in WorkerType : wk' = [wk EXCEPT ![w] = r] /\ WorkerOk(r, Len(log), Len(odoo))
    BY <1>2, LookEffect
  <2>2. UNCHANGED <<now, log, req, queue, odoo, snap, fetch, faults, edits, fetches, crowded>>
    BY <1>2 DEF Look
  <2> QED BY <1>0, <2>1, <2>2, OnlyWorkerTyped
<1>3. CASE CheckNoneOpen(w)
  <2> DEFINE r == IF OpenRows = {} THEN [wk[w] EXCEPT !.pc = "mark"] ELSE NextRow(w)
  <2>1. /\ wk[w].pc = "check" /\ wk' = [wk EXCEPT ![w] = r]
        /\ UNCHANGED <<now, log, req, queue, odoo, snap, fetch, faults, edits, fetches, crowded>>
    BY <1>3 DEF CheckNoneOpen
  <2>2. wk[w] \in WorkerType /\ WorkerOk(wk[w], Len(log), Len(odoo)) /\ Len(odoo) \in Nat
    BY Typed
  <2>3. CASE OpenRows = {}
    <3>1. r = [wk[w] EXCEPT !.pc = "mark"]
      BY <2>3
    <3>2. /\ r \in WorkerType /\ r.pc = "mark" /\ r.batch = wk[w].batch /\ r.ts = wk[w].ts
          /\ r.seen = wk[w].seen /\ r.res = wk[w].res
      BY <2>2, <3>1 DEF WorkerType
    <3> HIDE DEF r
    <3>3. WorkerOk(r, Len(log), Len(odoo))
      BY <2>1, <2>2, <3>2 DEF WorkerOk
    <3> QED BY <1>0, <2>1, <3>2, <3>3, OnlyWorkerTyped
  <2>4. CASE OpenRows # {}
    <3>1. r = NextRow(w)
      BY <2>4
    <3>2. r \in WorkerType /\ WorkerOk(r, Len(log), Len(odoo))
      BY <2>1, <2>2, <3>1, NextRowFacts DEF WorkerOk
    <3> HIDE DEF r
    <3> QED BY <1>0, <2>1, <3>2, OnlyWorkerTyped
  <2> QED BY <2>3, <2>4
<1> QED BY <1>1, <1>2, <1>3

(* An attendance of the model, and what is written keeps it one.           *)
Sound(o, punches) ==
    /\ o \in Seq(AttendanceType)
    /\ \A a \in DOMAIN o : /\ o[a].by \in 0..punches /\ o[a].closer \in 0..punches
                           /\ o[a].out = 0 => o[a].closer = 0

(* Closing rows changes their ends only.                                   *)
LEMMA ClosedEffect ==
    ASSUME PunchInv, NEW w \in Workers, Mid(w), NEW S, S \subseteq DOMAIN odoo,
           NEW o, o = Closed(w, S)
    PROVE  /\ Sound(o, Len(log)) /\ Len(o) = Len(odoo) /\ DOMAIN o = DOMAIN odoo
           /\ \A a \in DOMAIN odoo : a \notin S => o[a] = odoo[a]
           /\ \A a \in S : /\ o[a].in = odoo[a].in /\ o[a].wc = odoo[a].wc /\ o[a].by = odoo[a].by
                           /\ o[a].out = wk[w].ts /\ o[a].closer = Cur(w).id
           /\ wk[w].ts # 0
<1>1. wk[w].pc # "idle" /\ wk[w].ts # 0 /\ wk[w].ts \in Stamps
  BY Typed DEF Mid, WorkerOk, WorkerType
<1>2. Cur(w).id \in 0..Len(log) /\ Cur(w).id \in Nat
  BY <1>1, BatchFacts, Typed
<1>3. o = [a \in DOMAIN odoo |-> IF a \in S THEN [odoo[a] EXCEPT !.out = wk[w].ts, !.closer = Cur(w).id]
                                 ELSE odoo[a]]
  BY DEF Closed
<1>4. ASSUME NEW a \in S
      PROVE  /\ o[a] \in AttendanceType /\ o[a].in = odoo[a].in /\ o[a].wc = odoo[a].wc
             /\ o[a].by = odoo[a].by /\ o[a].out = wk[w].ts /\ o[a].closer = Cur(w).id
  <2>1. odoo[a] \in AttendanceType
    BY Typed
  <2>2. o[a] = [odoo[a] EXCEPT !.out = wk[w].ts, !.closer = Cur(w).id]
    BY <1>3
  <2> QED BY <1>1, <1>2, <2>1, <2>2 DEF AttendanceType
<1>5. \A a \in DOMAIN odoo : a \notin S => o[a] = odoo[a]
  BY <1>3
<1>6. o \in Seq(AttendanceType) /\ DOMAIN o = DOMAIN odoo /\ Len(o) = Len(odoo)
  <2>1. \A a \in DOMAIN odoo : o[a] \in AttendanceType
    BY <1>4, <1>5, Typed
  <2>2. o \in [1..Len(odoo) -> AttendanceType] /\ Len(odoo) \in Nat
    BY <1>3, <2>1, Typed
  <2>3. o \in Seq(AttendanceType) /\ DOMAIN o = 1..Len(odoo)
    BY <2>2, FunIsSeq
  <2> QED BY <2>2, <2>3, LenProperties, Typed
<1>7. \A a \in DOMAIN odoo : /\ odoo[a].by \in 0..Len(log) /\ odoo[a].closer \in 0..Len(log)
                             /\ odoo[a].out = 0 => odoo[a].closer = 0
  BY DEF PunchInv, OdooInv
<1>8. Sound(o, Len(log))
  <2>1. ASSUME NEW a \in DOMAIN o
        PROVE  /\ o[a].by \in 0..Len(log) /\ o[a].closer \in 0..Len(log)
               /\ o[a].out = 0 => o[a].closer = 0
    <3>1. CASE a \in S
      BY <1>1, <1>2, <1>4, <1>7, <3>1
    <3>2. CASE a \notin S
      BY <1>5, <1>6, <1>7, <2>1, <3>2
    <3> QED BY <3>1, <3>2
  <2> QED BY <1>6, <2>1 DEF Sound
<1> QED BY <1>1, <1>4, <1>5, <1>6, <1>8

(* Adopting rows changes their labels only.                                *)
LEMMA AdoptedEffect ==
    ASSUME PunchInv, NEW w \in Workers, Mid(w), NEW o, o = Adopted(w)
    PROVE  /\ Sound(o, Len(log)) /\ Len(o) = Len(odoo) /\ DOMAIN o = DOMAIN odoo
           /\ \A a \in DOMAIN odoo :
                 /\ o[a].in = odoo[a].in /\ o[a].by = odoo[a].by
                 /\ o[a].out = odoo[a].out /\ o[a].closer = odoo[a].closer
                 /\ o[a].wc = IF a \in wk[w].seen /\ Row(w).wc # None THEN Row(w).wc ELSE odoo[a].wc
<1>1. Row(w) \in RowType
  BY BatchFacts DEF Mid
<1>2. o = [a \in DOMAIN odoo |->
              IF a \in wk[w].seen /\ Row(w).wc # None THEN [odoo[a] EXCEPT !.wc = Row(w).wc]
              ELSE odoo[a]]
  BY DEF Adopted
<1>3. ASSUME NEW a \in DOMAIN odoo
      PROVE  /\ o[a] \in AttendanceType
             /\ o[a].in = odoo[a].in /\ o[a].by = odoo[a].by
             /\ o[a].out = odoo[a].out /\ o[a].closer = odoo[a].closer
             /\ o[a].wc = IF a \in wk[w].seen /\ Row(w).wc # None THEN Row(w).wc ELSE odoo[a].wc
  <2>1. odoo[a] \in AttendanceType /\ Row(w).wc \in {"first", "second", None}
    BY <1>1, Typed DEF RowType
  <2>2. o[a] = IF a \in wk[w].seen /\ Row(w).wc # None THEN [odoo[a] EXCEPT !.wc = Row(w).wc]
               ELSE odoo[a]
    BY <1>2
  <2> QED BY <2>1, <2>2 DEF AttendanceType
<1>4. o \in Seq(AttendanceType) /\ DOMAIN o = DOMAIN odoo /\ Len(o) = Len(odoo)
  <2>1. o \in [1..Len(odoo) -> AttendanceType] /\ Len(odoo) \in Nat
    BY <1>2, <1>3, Typed
  <2>2. o \in Seq(AttendanceType) /\ DOMAIN o = 1..Len(odoo)
    BY <2>1, FunIsSeq
  <2> QED BY <2>1, <2>2, LenProperties, Typed
<1>5. Sound(o, Len(log))
  BY <1>3, <1>4 DEF Sound, PunchInv, OdooInv
<1> QED BY <1>3, <1>4, <1>5

(* Creating a row appends one.                                             *)
LEMMA CreatedEffect ==
    ASSUME PunchInv, NEW w \in Workers, Mid(w), NEW o, o = Created(w)
    PROVE  /\ Sound(o, Len(log)) /\ Len(o) = Len(odoo) + 1 /\ DOMAIN o = 1..Len(odoo) + 1
           /\ \A a \in DOMAIN odoo : o[a] = odoo[a]
           /\ o[Len(odoo) + 1] = [in |-> wk[w].ts, out |-> 0, wc |-> Row(w).wc,
                                  by |-> Cur(w).id, closer |-> 0]
<1> DEFINE r == [in |-> wk[w].ts, out |-> 0, wc |-> Row(w).wc, by |-> Cur(w).id, closer |-> 0]
<1>1. wk[w].pc # "idle" /\ wk[w].ts # 0 /\ wk[w].ts \in Stamps
  BY Typed DEF Mid, WorkerOk, WorkerType
<1>2. Row(w) \in RowType /\ Cur(w).id \in 0..Len(log) /\ Cur(w).id \in Nat
  BY <1>1, BatchFacts, Typed
<1>3. r \in AttendanceType /\ r.by = Cur(w).id /\ r.closer = 0
  BY <1>1, <1>2, StampFacts DEF AttendanceType, RowType
<1>4. o = Append(odoo, r)
  BY DEF Created
<1> HIDE DEF r
<1>5. /\ o \in Seq(AttendanceType) /\ Len(o) = Len(odoo) + 1 /\ DOMAIN o = 1..Len(odoo) + 1
      /\ \A a \in DOMAIN odoo : o[a] = odoo[a]
      /\ o[Len(odoo) + 1] = r
  BY <1>3, <1>4, Typed
<1>6. ASSUME NEW a \in DOMAIN o
      PROVE  /\ o[a].by \in 0..Len(log) /\ o[a].closer \in 0..Len(log)
             /\ o[a].out = 0 => o[a].closer = 0
  <2>1. CASE a \in DOMAIN odoo
    BY <1>5, <2>1 DEF PunchInv, OdooInv
  <2>2. CASE a = Len(odoo) + 1
    BY <1>2, <1>3, <1>5, <2>2, Typed
  <2> QED BY <1>5, <2>1, <2>2, Typed
<1> QED BY <1>5, <1>6 DEF Sound, r

(* Whatever is written to Odoo, no row disappears.                         *)
LEMMA WrittenSound ==
    ASSUME PunchInv, NEW w \in Workers, Mid(w),
           NEW o, o = Written(w) \/ \E S \in SUBSET wk[w].seen : o = Closed(w, S)
    PROVE  Sound(o, Len(log)) /\ Len(o) \in Nat /\ Len(odoo) <= Len(o)
<1>1. wk[w].seen \subseteq DOMAIN odoo /\ Len(odoo) \in Nat
  BY Typed DEF WorkerOk
<1>2. CASE \E S \in SUBSET wk[w].seen : o = Closed(w, S)
  <2>1. PICK S \in SUBSET wk[w].seen : o = Closed(w, S)
    BY <1>2
  <2>2. S \subseteq DOMAIN odoo
    BY <1>1, <2>1
  <2>3. Sound(o, Len(log)) /\ Len(o) = Len(odoo)
    BY <2>1, <2>2, ClosedEffect
  <2> QED BY <1>1, <2>3
<1>3. CASE o = Adopted(w)
  BY <1>1, <1>3, AdoptedEffect
<1>4. CASE o = Created(w)
  <2>1. Sound(o, Len(log)) /\ Len(o) = Len(odoo) + 1
    BY <1>4, CreatedEffect
  <2> QED BY <1>1, <2>1
<1>5. CASE o = Closed(w, wk[w].seen)
  <2>1. Sound(o, Len(log)) /\ Len(o) = Len(odoo)
    BY <1>1, <1>5, ClosedEffect
  <2> QED BY <1>1, <2>1
<1>6. o = Written(w) => o = Closed(w, wk[w].seen) \/ o = Adopted(w) \/ o = Created(w)
  BY DEF Written
<1> QED BY <1>2, <1>3, <1>4, <1>5, <1>6

(* A step that moves a worker and writes to Odoo keeps the types.          *)
LEMMA WriteTyped ==
    ASSUME PunchInv, NEW w \in Workers, NEW r, r \in WorkerType,
           Sound(odoo', Len(log)), Len(odoo') \in Nat, Len(odoo) <= Len(odoo'),
           WorkerOk(r, Len(log), Len(odoo')),
           wk' = [wk EXCEPT ![w] = r], faults' \in 0..MaxFaults,
           UNCHANGED <<now, log, req, queue, snap, fetch, edits, crowded>>
    PROVE  PunchInv'
<1>0. ClockInv /\ LogInv /\ OdooInv /\ SnapInv /\ RequestInv /\ WorkersInv
  BY DEF PunchInv
<1>1. WorkersInv'
  <2>1. Len(log') = Len(log) /\ Len(log) \in Nat
    BY Typed
  <2>2. WorkerOk(r, Len(log'), Len(odoo')) /\ Len(log) <= Len(log') /\ Len(log') \in Nat
    BY <2>1
  <2> QED BY <2>2, WorkerStep
<1>2. Ids' = Ids
  BY DEF Ids
<1>3. OdooInv'
  BY DEF Sound, OdooInv
<1>4. LogInv'
  BY <1>0, <1>2, Typed DEF LogInv
<1> QED BY <1>0, <1>1, <1>2, <1>3, <1>4 DEF PunchInv, ClockInv, SnapInv, RequestInv

(* Writing keeps the types: the id it reports is that of a row.            *)
LEMMA ActTyped ==
    ASSUME PunchInv, NEW w \in Workers, Act(w)
    PROVE  PunchInv'
<1> DEFINE r == [wk[w] EXCEPT !.pc = IF Row(w).all THEN "check" ELSE "mark", !.res = ResultId(w)]
<1>1. /\ wk[w].pc = "act" /\ odoo' = Written(w) /\ wk' = [wk EXCEPT ![w] = r]
      /\ UNCHANGED <<now, log, req, queue, snap, fetch, faults, edits, fetches, crowded>>
  BY DEF Act
<1>2. Mid(w)
  BY <1>1 DEF Mid
<1>3. Sound(odoo', Len(log)) /\ Len(odoo') \in Nat /\ Len(odoo) <= Len(odoo') /\ Len(odoo) \in Nat
  BY <1>1, <1>2, WrittenSound, Typed
<1>4. wk[w] \in WorkerType /\ WorkerOk(wk[w], Len(log), Len(odoo)) /\ wk[w].seen \subseteq 1..Len(odoo)
  BY Typed DEF WorkerOk
<1>5. ResultId(w) \in 0..Len(odoo')
  <2>1. CASE wk[w].seen # {}
    <3>1. wk[w].seen \in SUBSET Nat /\ \A a \in wk[w].seen : a <= Len(odoo)
      BY <1>3, <1>4
    <3>2. \E a \in wk[w].seen : \A b \in wk[w].seen : b <= a
      BY <1>3, <2>1, <3>1, Largest
    <3>3. ResultId(w) = CHOOSE a \in wk[w].seen : \A b \in wk[w].seen : b <= a
      BY <2>1 DEF ResultId
    <3>4. ResultId(w) \in wk[w].seen
      BY <3>2, <3>3
    <3> QED BY <1>3, <1>4, <3>4
  <2>2. CASE wk[w].seen = {} /\ Row(w).act \in Ins
    <3>1. odoo' = Created(w)
      BY <1>1, <2>2 DEF Written, Ins, Outs
    <3>2. Len(odoo') = Len(odoo) + 1
      BY <1>2, <3>1, CreatedEffect
    <3>3. ResultId(w) = Len(odoo) + 1
      BY <2>2 DEF ResultId
    <3> QED BY <1>3, <3>2, <3>3
  <2>3. CASE wk[w].seen = {} /\ Row(w).act \notin Ins
    BY <1>3, <2>3 DEF ResultId
  <2> QED BY <2>1, <2>2, <2>3
<1>6. r \in WorkerType /\ r.batch = wk[w].batch /\ r.ts = wk[w].ts /\ r.seen = wk[w].seen
      /\ r.res = ResultId(w) /\ r.pc \in {"check", "mark"}
  <2>1. ResultId(w) \in Nat /\ (IF Row(w).all THEN "check" ELSE "mark") \in {"check", "mark"}
    BY <1>3, <1>5
  <2> QED BY <1>4, <2>1 DEF WorkerType
<1> HIDE DEF r
<1>7. WorkerOk(r, Len(log), Len(odoo'))
  <2>1. 1..Len(odoo) \subseteq 1..Len(odoo')
    BY <1>3
  <2> QED BY <1>1, <1>4, <1>5, <1>6, <2>1 DEF WorkerOk
<1>8. faults' \in 0..MaxFaults
  BY <1>1 DEF PunchInv, ClockInv
<1> QED BY <1>1, <1>3, <1>6, <1>7, <1>8, WriteTyped

(* Marking a row as synced keeps the types.                                *)
LEMMA MarkEffect ==
    ASSUME PunchInv, NEW w \in Workers, MarkSynced(w)
    PROVE  /\ wk[w].pc = "mark" /\ Cur(w).id \in Ids
           /\ log' \in Seq(RowType) /\ Len(log') = Len(log) /\ Ids' = Ids
           /\ \A p \in Ids : /\ log'[p].act = log[p].act /\ log'[p].key = log[p].key
                             /\ log'[p].wc = log[p].wc /\ log'[p].all = log[p].all
                             /\ p # Cur(w).id => log'[p] = log[p]
           /\ log'[Cur(w).id].synced = TRUE /\ log'[Cur(w).id].att = wk[w].res
<1>1. /\ wk[w].pc = "mark"
      /\ log' = [log EXCEPT ![Cur(w).id].synced = TRUE, ![Cur(w).id].att = wk[w].res]
  BY DEF MarkSynced
<1>2. Cur(w).id \in Ids /\ wk[w].res \in Nat
  BY <1>1, BatchFacts, Typed DEF WorkerType
<1> DEFINE p == Cur(w).id
           r == [log[p] EXCEPT !.synced = TRUE, !.att = wk[w].res]
<1>3. log[p] \in RowType
  BY <1>2, Typed
<1>4. /\ r \in RowType /\ r.act = log[p].act /\ r.key = log[p].key /\ r.wc = log[p].wc
      /\ r.synced = TRUE /\ r.att = wk[w].res /\ r.all = log[p].all
  BY <1>2, <1>3 DEF RowType
<1>5. log' = [log EXCEPT ![p] = r]
  BY <1>1
<1> HIDE DEF r, p
<1>6. p \in Ids
  BY <1>2 DEF p
<1>7. /\ log' \in Seq(RowType) /\ Len(log') = Len(log) /\ Ids' = Ids
      /\ \A q \in Ids : log'[q] = IF q = p THEN r ELSE log[q]
  BY <1>4, <1>5, <1>6, Typed DEF Ids
<1> QED BY <1>1, <1>2, <1>4, <1>6, <1>7 DEF p

LEMMA MarkTyped ==
    ASSUME PunchInv, NEW w \in Workers, MarkSynced(w)
    PROVE  PunchInv'
<1>0. ClockInv /\ LogInv /\ OdooInv /\ SnapInv /\ RequestInv /\ WorkersInv
  BY DEF PunchInv
<1>1. /\ wk[w].pc = "mark" /\ Cur(w).id \in Ids
      /\ log' \in Seq(RowType) /\ Len(log') = Len(log) /\ Ids' = Ids
      /\ \A p \in Ids : /\ p # Cur(w).id => log'[p] = log[p]
                        /\ log'[p].act = log[p].act /\ log'[p].all = log[p].all
      /\ log'[Cur(w).id].att = wk[w].res
  BY MarkEffect
<1>2. /\ snap' = [snap EXCEPT !.after = @ \ {Cur(w).id}]
      /\ wk' = [wk EXCEPT ![w] = NextRow(w)]
      /\ UNCHANGED <<now, req, queue, odoo, fetch, faults, edits, fetches, crowded>>
  BY DEF MarkSynced
<1>3. ClockInv' /\ OdooInv' /\ RequestInv'
  BY <1>0, <1>1, <1>2 DEF ClockInv, OdooInv, RequestInv
<1>4. SnapInv'
  BY <1>0, <1>1, <1>2 DEF SnapInv
<1>5. LogInv'
  <2>1. wk[w].res \in 0..Len(odoo)
    BY Typed DEF WorkerOk
  <2>2. \A p \in Ids : log'[p].att \in 0..Len(odoo)
    BY <1>1, <2>1, Typed
  <2> QED BY <1>0, <1>1, <1>2, <2>2 DEF LogInv
<1>6. WorkersInv'
  <2> DEFINE r == NextRow(w)
  <2>1. r \in WorkerType /\ WorkerOk(r, Len(log), Len(odoo))
    BY <1>1, NextRowFacts, Typed DEF WorkerOk
  <2> HIDE DEF r
  <2>2. wk' = [wk EXCEPT ![w] = r]
    BY <1>2 DEF r
  <2>3. /\ Len(log) \in Nat /\ Len(odoo) \in Nat /\ Len(log') = Len(log) /\ Len(odoo') = Len(odoo)
    BY <1>1, <1>2, Typed
  <2>4. WorkerOk(r, Len(log'), Len(odoo')) /\ Len(log) <= Len(log') /\ Len(odoo) <= Len(odoo')
    BY <2>1, <2>3
  <2> QED BY <2>1, <2>2, <2>3, <2>4, WorkerStep
<1> QED BY <1>3, <1>4, <1>5, <1>6 DEF PunchInv

(* A failed call keeps the types.                                          *)
LEMMA CallFailsTyped ==
    ASSUME PunchInv, NEW w \in Workers, CallFails(w)
    PROVE  PunchInv'
<1> DEFINE r == NextRow(w)
<1>1. /\ wk[w].pc \in {"look", "act", "check", "mark"}
      /\ faults < MaxFaults /\ faults' = faults + 1
      /\ \/ odoo' = odoo
         \/ odoo' = Written(w)
         \/ \E S \in SUBSET wk[w].seen : odoo' = Closed(w, S)
      /\ wk' = [wk EXCEPT ![w] = r]
      /\ UNCHANGED <<now, log, req, queue, snap, fetch, edits, fetches, crowded>>
  BY DEF CallFails
<1>2. Mid(w) /\ wk[w].pc # "idle"
  BY <1>1 DEF Mid
<1>3. r \in WorkerType /\ WorkerOk(r, Len(log), Len(odoo)) /\ Len(odoo) \in Nat /\ Len(log) \in Nat
  BY <1>2, NextRowFacts, Typed DEF WorkerOk
<1>4. faults' \in 0..MaxFaults
  BY <1>1, BoundsAssumption DEF PunchInv, ClockInv
<1>5. Sound(odoo', Len(log)) /\ Len(odoo') \in Nat /\ Len(odoo) <= Len(odoo')
  <2>1. CASE odoo' = odoo
    BY <1>3, <2>1, Typed DEF Sound, PunchInv, OdooInv
  <2> QED BY <1>1, <1>2, <2>1, WrittenSound
<1>6. WorkerOk(r, Len(log), Len(odoo'))
  BY <1>3, <1>5, WorkerFrame
<1> HIDE DEF r
<1> QED BY <1>1, <1>3, <1>4, <1>5, <1>6, WriteTyped

(* The other steps keep the types.                                         *)
LEMMA OtherTyped ==
    ASSUME PunchInv,
           Tick \/ Crash \/ FetchOpen \/ WriteOpenAttendance \/ GrowStale \/ EditOdoo
              \/ UNCHANGED vars
    PROVE  PunchInv'
<1>0. /\ ClockInv /\ LogInv /\ OdooInv /\ SnapInv /\ RequestInv /\ WorkersInv
      /\ Len(log) \in Nat /\ Len(odoo) \in Nat /\ Ids = 1..Len(log) /\ DOMAIN odoo = 1..Len(odoo)
      /\ OpenRows \subseteq DOMAIN odoo
  BY Typed, CurrentIsOpen DEF PunchInv
<1>1. CASE Tick
  <2>1. now' \in 1..MaxTime
    BY <1>0, <1>1, BoundsAssumption DEF Tick, ClockInv
  <2> QED BY <1>0, <1>1, <2>1
        DEF Tick, PunchInv, ClockInv, LogInv, OdooInv, SnapInv, RequestInv, WorkersInv, Ids
<1>2. CASE Crash
  <2>1. /\ faults < MaxFaults /\ faults' = faults + 1
        /\ wk' = [w \in Workers |-> Idle]
        /\ queue' = <<>> /\ req' = NoRequest /\ fetch' = NoFetch
        /\ UNCHANGED <<now, log, odoo, snap, edits, fetches, crowded>>
    BY <1>2 DEF Crash
  <2>2. ClockInv' /\ LogInv' /\ OdooInv'
    BY <1>0, <2>1, BoundsAssumption DEF ClockInv, LogInv, OdooInv, Ids
  <2>3. SnapInv'
    BY <1>0, <2>1 DEF SnapInv, NoFetch, Ids
  <2>4. /\ <<>> \in Seq(Ins \cup Outs) /\ <<>> \in Seq(Nat) /\ DOMAIN <<>> = {}
        /\ <<>> \in Seq(Seq(Nat))
    BY EmptySeq
  <2>5. RequestInv'
    BY <2>1, <2>4 DEF RequestInv, NoRequest
  <2>6. WorkerOk(Idle, Len(log), Len(odoo))
    BY <1>0, IdleTyped DEF WorkerOk
  <2>7. WorkersInv'
    BY <2>1, <2>6, IdleTyped DEF WorkersInv
  <2> QED BY <2>2, <2>3, <2>5, <2>7 DEF PunchInv
<1>3. CASE FetchOpen \/ WriteOpenAttendance \/ GrowStale
  <2>1. UNCHANGED <<now, log, req, queue, wk, odoo, faults, edits, crowded>>
    BY <1>3 DEF FetchOpen, WriteOpenAttendance, GrowStale
  <2>2. Ids \ Unsynced \in SUBSET Nat /\ Ids \ Unsynced \subseteq Ids
    BY <1>0
  <2>3. SnapInv'
    <3>1. CASE FetchOpen
      BY <1>0, <2>1, <2>2, <3>1 DEF FetchOpen, SnapInv, Ids
    <3>2. CASE WriteOpenAttendance
      BY <1>0, <2>1, <2>2, <3>2 DEF WriteOpenAttendance, SnapInv, NoFetch, Ids
    <3>3. CASE GrowStale
      BY <1>0, <2>1, <3>3 DEF GrowStale, SnapInv, Ids
    <3> QED BY <1>3, <3>1, <3>2, <3>3
  <2> QED BY <1>0, <2>1, <2>3
        DEF PunchInv, ClockInv, LogInv, OdooInv, RequestInv, WorkersInv, Ids
<1>4. CASE EditOdoo
  <2>1. /\ edits < MaxEdits /\ edits' = edits + 1
        /\ \/ odoo' = Append(odoo, [in |-> now, out |-> 0, wc |-> None, by |-> 0, closer |-> 0])
           \/ odoo' = [a \in DOMAIN odoo |->
                         IF a \in OpenRows THEN [odoo[a] EXCEPT !.out = now] ELSE odoo[a]]
        /\ UNCHANGED <<now, log, req, queue, wk, snap, fetch, faults, fetches, crowded>>
    BY <1>4 DEF EditOdoo
  <2>2. now \in Stamps /\ now # 0
    BY Typed
  <2>3. Sound(odoo', Len(log)) /\ Len(odoo') \in Nat /\ Len(odoo) <= Len(odoo')
    <3>1. CASE odoo' = Append(odoo, [in |-> now, out |-> 0, wc |-> None, by |-> 0, closer |-> 0])
      <4> DEFINE r == [in |-> now, out |-> 0, wc |-> None, by |-> 0, closer |-> 0]
      <4>1. r \in AttendanceType /\ r.by = 0 /\ r.closer = 0
        BY <2>2, StampFacts DEF AttendanceType
      <4> HIDE DEF r
      <4>2. odoo' = Append(odoo, r)
        BY <3>1 DEF r
      <4>3. /\ odoo' \in Seq(AttendanceType) /\ Len(odoo') = Len(odoo) + 1
            /\ \A a \in DOMAIN odoo' : odoo'[a] = r \/ (a \in DOMAIN odoo /\ odoo'[a] = odoo[a])
        BY <4>1, <4>2, Typed
      <4> QED BY <1>0, <4>1, <4>3 DEF Sound, OdooInv
    <3>2. CASE odoo' = [a \in DOMAIN odoo |->
                         IF a \in OpenRows THEN [odoo[a] EXCEPT !.out = now] ELSE odoo[a]]
      <4>1. ASSUME NEW a \in DOMAIN odoo
            PROVE  /\ odoo'[a] \in AttendanceType /\ odoo'[a].by = odoo[a].by
                   /\ odoo'[a].closer = odoo[a].closer
                   /\ odoo'[a].out = odoo[a].out \/ odoo'[a].out = now
        <5>1. odoo[a] \in AttendanceType
          BY Typed
        <5>2. odoo'[a] = odoo[a] \/ odoo'[a] = [odoo[a] EXCEPT !.out = now]
          BY <3>2
        <5> QED BY <2>2, <5>1, <5>2 DEF AttendanceType
      <4>2. odoo' \in [1..Len(odoo) -> AttendanceType]
        BY <1>0, <3>2, <4>1
      <4>3. odoo' \in Seq(AttendanceType) /\ DOMAIN odoo' = 1..Len(odoo)
        BY <1>0, <4>2, FunIsSeq
      <4>4. Len(odoo') = Len(odoo)
        BY <1>0, <4>3, LenProperties
      <4> QED BY <1>0, <2>2, <4>1, <4>3, <4>4 DEF Sound, OdooInv
    <3> QED BY <2>1, <3>1, <3>2
  <2>4. edits' \in 0..MaxEdits
    <3>1. edits \in 0..MaxEdits /\ MaxEdits \in Nat
      BY <1>0, BoundsAssumption DEF ClockInv
    <3> QED BY <2>1, <3>1
  <2>5. WorkersInv'
    BY <1>0, <2>1, <2>3, WorkersFrame
  <2>6. OdooInv' /\ LogInv'
    BY <1>0, <2>1, <2>3 DEF Sound, OdooInv, LogInv, Ids
  <2> QED BY <1>0, <2>1, <2>4, <2>5, <2>6 DEF PunchInv, ClockInv, SnapInv, RequestInv, Ids
<1>5. CASE UNCHANGED vars
  BY <1>0, <1>5 DEF vars, PunchInv, ClockInv, LogInv, OdooInv, SnapInv, RequestInv, WorkersInv, Ids
<1> QED BY <1>1, <1>2, <1>3, <1>4, <1>5

(* Init establishes the types.                                             *)
LEMMA InitTyped == Init => PunchInv
<1> SUFFICES ASSUME Init PROVE PunchInv
  OBVIOUS
<1>1. /\ <<>> \in Seq(Ins \cup Outs) /\ <<>> \in Seq(Nat) /\ DOMAIN <<>> = {} /\ Len(<<>>) = 0
      /\ <<>> \in Seq(Seq(Nat)) /\ <<>> \in Seq(RowType) /\ <<>> \in Seq(AttendanceType)
  BY EmptySeq
<1>2. ClockInv
  <2>1. MaxTime \in Nat \ {0} /\ MaxFaults \in Nat /\ MaxEdits \in Nat
    BY BoundsAssumption
  <2>2. now = 1 /\ faults = 0 /\ edits = 0 /\ crowded = FALSE
    BY DEF Init
  <2>3. now \in 1..MaxTime /\ faults \in 0..MaxFaults /\ edits \in 0..MaxEdits
    BY <2>1, <2>2
  <2>4. crowded \in BOOLEAN
    BY <2>2
  <2> QED BY <2>3, <2>4 DEF ClockInv
<1>3. LogInv /\ OdooInv
  BY <1>1 DEF Init, LogInv, OdooInv, Ids
<1>4. SnapInv
  BY DEF Init, SnapInv, NoFetch
<1>5. RequestInv
  BY <1>1 DEF Init, RequestInv, NoRequest
<1>6. WorkersInv
  <2>1. WorkerOk(Idle, Len(log), Len(odoo))
    BY <1>1, IdleTyped DEF WorkerOk, Init
  <2> QED BY <2>1, IdleTyped DEF WorkersInv, Init
<1> QED BY <1>2, <1>3, <1>4, <1>5, <1>6 DEF PunchInv

(* Every step keeps the types.                                             *)
LEMMA StepTyped == PunchInv /\ [Next]_vars => PunchInv'
<1> SUFFICES ASSUME PunchInv, [Next]_vars PROVE PunchInv'
  OBVIOUS
<1>1. ASSUME NEW acts \in Requests, NEW live \in BOOLEAN, Punch(acts, live) PROVE PunchInv'
  BY <1>1, PunchTyped
<1>2. CASE InsertSecond
  BY <1>2, InsertSecondTyped
<1>3. CASE RoundRow
  BY <1>3, RoundRowTyped
<1>4. ASSUME NEW w \in Tasks, StartTask(w) PROVE PunchInv'
  BY <1>4, StartTaskTyped
<1>5. CASE StartSweep
  BY <1>5, StartSweepTyped
<1>6. ASSUME NEW w \in Workers, Step(w) PROVE PunchInv'
  BY <1>6, LookingTyped, ActTyped, MarkTyped DEF Step
<1>7. ASSUME NEW w \in Workers, CallFails(w) PROVE PunchInv'
  BY <1>7, CallFailsTyped
<1> QED BY <1>1, <1>2, <1>3, <1>4, <1>5, <1>6, <1>7, OtherTyped DEF Next

(* Types follow from the invariant.                                        *)
LEMMA TypesOfInvariant == PunchInv => TypeOK
<1> SUFFICES ASSUME PunchInv PROVE TypeOK
  OBVIOUS
<1>1. ClockInv /\ LogInv /\ OdooInv /\ SnapInv
  BY DEF PunchInv
<1>2. \A p \in Ids : log[p].act \in Ins \cup Outs /\ log[p].at \in 1..MaxTime
                     /\ log[p].att \in 0..Len(odoo)
  BY Typed DEF RowType
<1>3. ASSUME NEW w \in Workers, wk[w].pc # "idle" PROVE wk[w].batch # <<>> /\ Cur(w).id \in Ids
  BY <1>3, BatchFacts, Typed DEF WorkerOk
<1> QED BY <1>1, <1>2, <1>3 DEF TypeOK, ClockInv, OdooInv, SnapInv

(* Every reachable state has the declared types (the rows of
   timeclock_punches_log, hr.attendance and the batches of the workers).   *)
THEOREM TypeCorrect == Spec => []TypeOK
<1>1. Spec => []PunchInv
  BY InitTyped, StepTyped, PTL DEF Spec
<1> QED BY <1>1, TypesOfInvariant, PTL

-----------------------------------------------------------------------------
(* One punch at a time, in order *)

(* Steps that leave punches, workers and requests alone.                   *)
LEMMA CalmFrame ==
    ASSUME PunchInv, NEW n, Calm(n), 
           UNCHANGED <<log, req, queue, wk>>,
           \A a \in DOMAIN odoo : odoo'[a].closer = odoo[a].closer
    PROVE  Calm(n)'
<1>1. \A w \in Workers : wk[w].seen \subseteq DOMAIN odoo
  BY Typed DEF WorkerOk
<1>2. Unrounded' /\ TimesAreKeys' /\ SyncedUpTo(n)'
  BY DEF Calm, Unrounded, TimesAreKeys, SyncedUpTo, Ids
<1>3. OneAtWork(n)'
  BY <1>1 DEF Calm, OneAtWork, Mid
<1> QED BY <1>2, <1>3 DEF Calm

(* A new row is the one to be rounded, and nobody has it.                  *)
LEMMA CalmOpenRow ==
    ASSUME PunchInv, NEW n, Calm(n), NEW act \in Ins \cup Outs, NEW live \in BOOLEAN,
           log' = OpenLogRow(act, live), req'.rounding = Len(log) + 1,
           UNCHANGED <<queue, wk, odoo>>
    PROVE  Calm(n)'
<1>1. /\ Ids = 1..Len(log) /\ Ids' = 1..Len(log) + 1 /\ Len(log) \in Nat /\ Len(log') = Len(log) + 1
      /\ \A p \in Ids : log'[p] = log[p]
      /\ log'[Len(log) + 1].synced = FALSE
  BY LogRow, Typed
<1>2. \A w \in Workers : \A i \in DOMAIN wk[w].batch : wk[w].batch[i].id \in Ids
  BY Typed DEF WorkerOk
<1>3. Unrounded'
  <2>1. \A i \in DOMAIN queue : \A j \in DOMAIN queue[i] : queue[i][j] \in Ids
    BY DEF PunchInv, RequestInv
  <2> QED BY <1>1, <1>2, <2>1 DEF Unrounded
<1>4. TimesAreKeys'
  BY <1>1, <1>2 DEF Calm, TimesAreKeys
<1>5. SyncedUpTo(n)'
  <2>1. n \in 0..Len(log) /\ \A p \in Ids : log[p].synced <=> p <= n
    BY DEF Calm, SyncedUpTo
  <2>2. ASSUME NEW p \in Ids' PROVE log'[p].synced <=> p <= n
    <3>1. CASE p \in Ids
      BY <1>1, <2>1, <3>1
    <3>2. CASE p = Len(log) + 1
      BY <1>1, <2>1, <3>2
    <3> QED BY <1>1, <3>1, <3>2
  <2>3. n \in 0..Len(log') /\ n < req'.rounding
    BY <1>1, <2>1
  <2> QED BY <2>2, <2>3 DEF SyncedUpTo
<1>6. OneAtWork(n)'
  <2>1. ASSUME NEW w \in Workers, Mid(w) PROVE wk[w].batch[1].id = n + 1 /\ wk[w].ts = log'[n + 1].key
    <3>1. wk[w].batch[1].id = n + 1 /\ wk[w].ts = log[n + 1].key
      BY <2>1 DEF Calm, OneAtWork
    <3>2. wk[w].batch[1].id \in Ids
      BY <2>1, BatchFacts DEF Mid
    <3> QED BY <1>1, <3>1, <3>2
  <2> QED BY <2>1 DEF Calm, OneAtWork, Mid
<1> QED BY <1>3, <1>4, <1>5, <1>6 DEF Calm

(* RoundRow changes a time that nobody has read.                           *)
LEMMA CalmRoundRow ==
    ASSUME PunchInv, NEW n, Calm(n), RoundRow
    PROVE  Calm(n)'
<1>1. /\ req.rounding \in Ids /\ req.rounding = Len(log) /\ Ids' = Ids /\ Len(log') = Len(log)
      /\ Ids = 1..Len(log) /\ Len(log) \in Nat
      /\ \A q \in Ids : /\ q # req.rounding => log'[q] = log[q]
                        /\ log'[q].synced = log[q].synced
  BY RoundEffect, Typed
<1>2. req'.rounding = 0 /\ UNCHANGED <<wk, odoo>> /\ req.rounding # 0
  <2>1. req \in [todo : Seq(Ins \cup Outs), ids : Seq(Nat), rounding : {0, Len(log)}]
    BY DEF PunchInv, RequestInv
  <2>2. /\ \/ req' = [req EXCEPT !.ids = Append(@, req.rounding), !.rounding = 0]
           \/ req' = NoRequest
        /\ UNCHANGED <<wk, odoo>> /\ req.rounding # 0
    BY DEF RoundRow
  <2>3. NoRequest.rounding = 0
    BY DEF NoRequest
  <2>4. req' = [req EXCEPT !.ids = Append(@, req.rounding), !.rounding = 0] => req'.rounding = 0
    BY <2>1
  <2> QED BY <2>2, <2>3, <2>4
<1>3. /\ \A w \in Workers : \A i \in DOMAIN wk[w].batch :
            wk[w].batch[i].id \in Ids /\ wk[w].batch[i].id # req.rounding
  BY <1>2, Typed DEF WorkerOk, Calm, Unrounded
<1>4. Unrounded'
  BY <1>2 DEF Unrounded
<1>5. TimesAreKeys'
  BY <1>1, <1>2, <1>3 DEF Calm, TimesAreKeys
<1>6. SyncedUpTo(n)'
  BY <1>1, <1>2 DEF Calm, SyncedUpTo
<1>7. OneAtWork(n)'
  <2>1. ASSUME NEW w \in Workers, Mid(w) PROVE wk[w].batch[1].id = n + 1 /\ wk[w].ts = log'[n + 1].key
    <3>1. wk[w].batch[1].id = n + 1 /\ wk[w].ts = log[n + 1].key
      BY <2>1 DEF Calm, OneAtWork
    <3>2. wk[w].batch[1].id \in Ids /\ wk[w].batch[1].id # req.rounding
      BY <1>3, <2>1, BatchFacts DEF Mid
    <3> QED BY <1>1, <3>1, <3>2
  <2> QED BY <1>2, <2>1 DEF Calm, OneAtWork, Mid
<1> QED BY <1>4, <1>5, <1>6, <1>7 DEF Calm

(* A worker starts a batch or lets a row go. Only the one at work has      *)
(* anything in its hands.                                                  *)
LEMMA CalmRest ==
    ASSUME PunchInv, NEW n, Calm(n), NEW w \in Workers, NEW r,
           wk' = [wk EXCEPT ![w] = r], r.pc \in {"idle", "start"},
           \A i \in DOMAIN r.batch :
              /\ r.batch[i].id # req.rounding \/ req.rounding = 0
              /\ r.batch[i].ts = 0 \/ r.batch[i].ts = log[r.batch[i].id].key,
           UNCHANGED <<log, req>>, odoo' = odoo \/ Mid(w),
           \A i \in DOMAIN queue' : \E j \in DOMAIN queue : queue'[i] = queue[j]
    PROVE  Calm(n)'
<1>1. \A v \in Workers : wk'[v] = IF v = w THEN r ELSE wk[v]
  BY Typed
<1>2. Unrounded'
  <2>1. SUFFICES ASSUME req.rounding # 0 PROVE Unrounded'
    BY DEF Unrounded
  <2>2. \A v \in Workers : \A i \in DOMAIN wk'[v].batch : wk'[v].batch[i].id # req.rounding
    BY <1>1, <2>1 DEF Calm, Unrounded
  <2>3. \A i \in DOMAIN queue' : \A j \in DOMAIN queue'[i] : queue'[i][j] # req.rounding
    BY <2>1 DEF Calm, Unrounded
  <2> QED BY <2>2, <2>3 DEF Unrounded
<1>3. TimesAreKeys'
  BY <1>1 DEF Calm, TimesAreKeys
<1>4. SyncedUpTo(n)'
  BY DEF Calm, SyncedUpTo, Ids
<1>5. OneAtWork(n)'
  <2>1. \A v \in Workers : Mid(v)' => v # w /\ Mid(v) /\ wk'[v] = wk[v]
    BY <1>1 DEF Mid
  <2>2. \A v \in Workers : Mid(v)' => odoo' = odoo
    BY <2>1 DEF Calm, OneAtWork
  <2>3. \A v \in Workers : wk'[v].pc = "act" => Mid(v)'
    BY DEF Mid
  <2>4. \A u, v \in Workers : Mid(u)' /\ Mid(v)' => u = v
    BY <2>1 DEF Calm, OneAtWork
  <2>5. \A v \in Workers : Mid(v)' => wk'[v].batch[1].id = n + 1 /\ wk'[v].ts = log'[n + 1].key
    BY <2>1 DEF Calm, OneAtWork
  <2>6. \A v \in Workers : wk'[v].pc = "act" => \A a \in wk'[v].seen : odoo'[a].closer = 0
    BY <2>1, <2>2, <2>3 DEF Calm, OneAtWork
  <2> QED BY <2>4, <2>5, <2>6 DEF OneAtWork
<1> QED BY <1>2, <1>3, <1>4, <1>5 DEF Calm

(* The worker at the next punch goes on.                                   *)
LEMMA CalmAtWork ==
    ASSUME PunchInv, NEW n, Calm(n), NEW w \in Workers, NEW r,
           wk' = [wk EXCEPT ![w] = r], r.batch = wk[w].batch,
           r.batch[1].id = n + 1, r.ts = log[n + 1].key,
           \A v \in Workers : Mid(v) => v = w,
           r.pc = "act" => \A a \in r.seen : odoo'[a].closer = 0,
           UNCHANGED <<log, req, queue>>
    PROVE  Calm(n)'
<1>1. \A v \in Workers : wk'[v] = IF v = w THEN r ELSE wk[v]
  BY Typed
<1>2. \A v \in Workers : wk'[v].batch = wk[v].batch
  BY <1>1
<1>3. Unrounded' /\ TimesAreKeys'
  BY <1>2 DEF Calm, Unrounded, TimesAreKeys
<1>4. SyncedUpTo(n)'
  BY DEF Calm, SyncedUpTo, Ids
<1>5. OneAtWork(n)'
  <2>1. \A v \in Workers : Mid(v)' => v = w
    BY <1>1 DEF Mid
  <2>2. \A v \in Workers : wk'[v].pc = "act" => Mid(v)'
    BY DEF Mid
  <2> QED BY <1>1, <2>1, <2>2 DEF OneAtWork
<1> QED BY <1>3, <1>4, <1>5 DEF Calm

(* A row is picked up in order, with its time.                             *)
LEMMA CalmStart ==
    ASSUME PunchInv, NEW n, Calm(n), NEW w \in Workers, Start(w), ~crowded'
    PROVE  Calm(n)'
<1>1. PICK r \in WorkerType :
              /\ wk' = [wk EXCEPT ![w] = r]
              /\ wk[w].pc = "start" /\ r.pc = "look" /\ r.batch = wk[w].batch
              /\ r.ts = IF Cur(w).ts = 0 THEN Row(w).key ELSE Cur(w).ts
  BY StartEffect
<1>2. ~Disorder(w) /\ UNCHANGED <<log, req, queue, odoo>>
  BY DEF Start
<1>3. /\ Cur(w) = wk[w].batch[1] /\ 1 \in DOMAIN wk[w].batch /\ Cur(w).id \in Ids
      /\ Row(w) = log[Cur(w).id] /\ Ids = 1..Len(log) /\ Len(log) \in Nat
  BY <1>1, BatchFacts, Typed
<1>4. /\ ~log[Cur(w).id].synced
      /\ \A q \in Ids : q < Cur(w).id => log[q].synced
      /\ \A v \in Workers : Mid(v) => v = w
  BY <1>2, <1>3 DEF Disorder, Mid
<1>5. Cur(w).id = n + 1
  <2>1. n \in 0..Len(log) /\ \A p \in Ids : log[p].synced <=> p <= n
    BY DEF Calm, SyncedUpTo
  <2>2. Cur(w).id > n
    BY <1>3, <1>4, <2>1
  <2>3. n + 1 < Cur(w).id => log[n + 1].synced
    BY <1>3, <1>4, <2>1
  <2>4. n + 1 < Cur(w).id => ~log[n + 1].synced
    BY <1>3, <2>1
  <2> QED BY <1>3, <2>1, <2>2, <2>3, <2>4
<1>6. r.ts = log[n + 1].key
  <2>1. Cur(w).ts = 0 \/ Cur(w).ts = log[Cur(w).id].key
    BY <1>3 DEF Calm, TimesAreKeys
  <2> QED BY <1>1, <1>3, <1>5, <2>1
<1>7. r.batch[1].id = n + 1 /\ r.batch = wk[w].batch /\ wk' = [wk EXCEPT ![w] = r] /\ r.pc # "act"
  BY <1>1, <1>3, <1>5
<1> QED BY <1>2, <1>4, <1>6, <1>7, CalmAtWork

(* Rows that are open have not been closed.                                *)
LEMMA CalmLook ==
    ASSUME PunchInv, NEW n, Calm(n), NEW w \in Workers, Look(w)
    PROVE  Calm(n)'
<1>1. PICK r \in WorkerType :
              /\ wk' = [wk EXCEPT ![w] = r]
              /\ wk[w].pc = "look" /\ r.batch = wk[w].batch /\ r.ts = wk[w].ts
              /\ r.seen = IF Row(w).all THEN OpenRows ELSE CurrentAttendance
  BY LookEffect
<1>2. UNCHANGED <<log, req, queue, odoo>>
  BY DEF Look
<1>3. Mid(w)
  BY <1>1 DEF Mid
<1>4. /\ wk[w].batch[1].id = n + 1 /\ wk[w].ts = log[n + 1].key
      /\ \A v \in Workers : Mid(v) => v = w
  BY <1>3 DEF Calm, OneAtWork
<1>5. \A a \in OpenRows : odoo[a].closer = 0
  BY CurrentIsOpen DEF OpenRows, PunchInv, OdooInv
<1>6. r.seen \subseteq OpenRows
  BY <1>1, CurrentIsOpen
<1>7. \A a \in r.seen : odoo'[a].closer = 0
  BY <1>2, <1>5, <1>6
<1>8. r.batch[1].id = n + 1 /\ r.batch = wk[w].batch /\ wk' = [wk EXCEPT ![w] = r]
      /\ r.ts = log[n + 1].key
  BY <1>1, <1>4
<1> QED BY <1>2, <1>4, <1>7, <1>8, CalmAtWork

(* Writing is the worker's own.                                            *)
LEMMA CalmAct ==
    ASSUME PunchInv, NEW n, Calm(n), NEW w \in Workers, Act(w)
    PROVE  Calm(n)'
<1> DEFINE r == [wk[w] EXCEPT !.pc = IF Row(w).all THEN "check" ELSE "mark", !.res = ResultId(w)]
<1>1. /\ wk[w].pc = "act" /\ wk' = [wk EXCEPT ![w] = r] /\ UNCHANGED <<log, req, queue>>
  BY DEF Act
<1>2. r.batch = wk[w].batch /\ r.ts = wk[w].ts /\ r.pc # "act"
  BY Typed DEF WorkerType
<1>3. /\ wk[w].batch[1].id = n + 1 /\ wk[w].ts = log[n + 1].key
      /\ \A v \in Workers : Mid(v) => v = w
  BY <1>1 DEF Calm, OneAtWork, Mid
<1> HIDE DEF r
<1>4. r.batch[1].id = n + 1 /\ r.ts = log[n + 1].key
  BY <1>2, <1>3
<1> QED BY <1>1, <1>2, <1>3, <1>4, CalmAtWork

(* What is left of the batch was in the batch.                             *)
LEMMA CalmNextRow ==
    ASSUME PunchInv, NEW n, Calm(n), NEW w \in Workers, Mid(w),
           wk' = [wk EXCEPT ![w] = NextRow(w)], UNCHANGED <<log, req, queue>>
    PROVE  Calm(n)'
<1> DEFINE r == NextRow(w)
<1>1. /\ r.pc \in {"idle", "start"}
      /\ \A i \in DOMAIN r.batch : /\ i + 1 \in DOMAIN wk[w].batch
                                   /\ r.batch[i] = wk[w].batch[i + 1]
  BY NextRowFacts DEF Mid
<1> HIDE DEF r
<1>2. \A i \in DOMAIN r.batch : /\ r.batch[i].id # req.rounding \/ req.rounding = 0
                                /\ r.batch[i].ts = 0 \/ r.batch[i].ts = log[r.batch[i].id].key
  BY <1>1 DEF Calm, Unrounded, TimesAreKeys
<1>3. wk' = [wk EXCEPT ![w] = r]
  BY DEF r
<1>4. \A i \in DOMAIN queue' : \E j \in DOMAIN queue : queue'[i] = queue[j]
  OBVIOUS
<1> QED BY <1>1, <1>2, <1>3, <1>4, CalmRest

(* The check after closing.                                                *)
LEMMA CalmCheck ==
    ASSUME PunchInv, NEW n, Calm(n), NEW w \in Workers, CheckNoneOpen(w)
    PROVE  Calm(n)'
<1>1. /\ wk[w].pc = "check"
      /\ wk' = [wk EXCEPT ![w] = IF OpenRows = {} THEN [@ EXCEPT !.pc = "mark"] ELSE NextRow(w)]
      /\ UNCHANGED <<log, req, queue, odoo>>
  BY DEF CheckNoneOpen
<1>2. Mid(w)
  BY <1>1 DEF Mid
<1>3. CASE OpenRows = {}
  <2> DEFINE r == [wk[w] EXCEPT !.pc = "mark"]
  <2>1. wk' = [wk EXCEPT ![w] = r]
    BY <1>1, <1>3
  <2>2. r.batch = wk[w].batch /\ r.ts = wk[w].ts /\ r.pc # "act"
    BY Typed DEF WorkerType
  <2>3. /\ wk[w].batch[1].id = n + 1 /\ wk[w].ts = log[n + 1].key
        /\ \A v \in Workers : Mid(v) => v = w
    BY <1>2 DEF Calm, OneAtWork
  <2> HIDE DEF r
  <2>4. r.batch[1].id = n + 1 /\ r.ts = log[n + 1].key
    BY <2>2, <2>3
  <2> QED BY <1>1, <2>1, <2>2, <2>3, <2>4, CalmAtWork
<1>4. CASE OpenRows # {}
  <2>1. wk' = [wk EXCEPT ![w] = NextRow(w)]
    BY <1>1, <1>4
  <2> QED BY <1>1, <1>2, <2>1, CalmNextRow
<1> QED BY <1>3, <1>4

(* The row that is marked is the next one.                                 *)
LEMMA CalmMark ==
    ASSUME PunchInv, NEW n, Calm(n), NEW w \in Workers, MarkSynced(w)
    PROVE  Calm(n + 1)' /\ n + 1 \in 0..Len(log) /\ Cur(w).id = n + 1
<1> DEFINE r == NextRow(w)
<1>1. /\ wk[w].pc = "mark" /\ Cur(w).id \in Ids /\ Ids' = Ids /\ Len(log') = Len(log)
      /\ \A p \in Ids : log'[p].key = log[p].key /\ (p # Cur(w).id => log'[p] = log[p])
      /\ log'[Cur(w).id].synced = TRUE
  BY MarkEffect
<1>2. wk' = [wk EXCEPT ![w] = r] /\ UNCHANGED <<req, queue, odoo>>
  BY DEF MarkSynced
<1>3. Mid(w) /\ wk[w].pc # "idle"
  BY <1>1 DEF Mid
<1>4. /\ r.pc \in {"idle", "start"}
      /\ \A i \in DOMAIN r.batch : /\ i + 1 \in DOMAIN wk[w].batch
                                   /\ r.batch[i] = wk[w].batch[i + 1]
  BY <1>3, NextRowFacts
<1> HIDE DEF r
<1>5. \A v \in Workers : wk'[v] = IF v = w THEN r ELSE wk[v]
  BY <1>2, Typed
<1>6. /\ Cur(w).id = n + 1 /\ Cur(w) = wk[w].batch[1] /\ 1 \in DOMAIN wk[w].batch
      /\ \A v \in Workers : Mid(v) => v = w
  BY <1>3, BatchFacts DEF Calm, OneAtWork
<1>7. /\ n \in 0..Len(log) /\ \A p \in Ids : log[p].synced <=> p <= n
      /\ req.rounding # 0 => n < req.rounding
      /\ Ids = 1..Len(log) /\ Len(log) \in Nat
  BY Typed DEF Calm, SyncedUpTo
<1>8. Unrounded'
  BY <1>2, <1>4, <1>5 DEF Calm, Unrounded
<1>9. TimesAreKeys'
  <2>1. \A v \in Workers : \A i \in DOMAIN wk[v].batch : wk[v].batch[i].id \in Ids
    BY Typed DEF WorkerOk
  <2>2. ASSUME NEW v \in Workers, NEW i \in DOMAIN wk'[v].batch
        PROVE  \E j \in DOMAIN wk[v].batch : wk'[v].batch[i] = wk[v].batch[j]
    BY <1>4, <1>5, <2>2
  <2> QED BY <1>1, <2>1, <2>2 DEF Calm, TimesAreKeys
<1>10. SyncedUpTo(n + 1)'
  <2>1. req.rounding # 0 => n + 1 # req.rounding
    BY <1>6 DEF Calm, Unrounded
  <2>2. req.rounding \in {0, Len(log)}
    BY DEF PunchInv, RequestInv
  <2>3. req'.rounding # 0 => n + 1 < req'.rounding
    BY <1>2, <1>7, <2>1, <2>2
  <2>4. n + 1 \in 0..Len(log)
    BY <1>1, <1>6, <1>7
  <2>5. ASSUME NEW p \in Ids PROVE log'[p].synced <=> p <= n + 1
    BY <1>1, <1>6, <1>7
  <2> QED BY <1>1, <2>3, <2>4, <2>5 DEF SyncedUpTo
<1>11. OneAtWork(n + 1)'
  <2>1. \A v \in Workers : ~Mid(v)'
    BY <1>4, <1>5, <1>6 DEF Mid
  <2>2. \A v \in Workers : wk'[v].pc = "act" => Mid(v)'
    BY DEF Mid
  <2> QED BY <2>1, <2>2 DEF OneAtWork
<1>12. n + 1 \in 0..Len(log)
  BY <1>1, <1>6, <1>7
<1> QED BY <1>6, <1>8, <1>9, <1>10, <1>11, <1>12 DEF Calm

(* A task takes its rows with their times unread.                          *)
LEMMA CalmStartTask ==
    ASSUME PunchInv, NEW n, Calm(n), NEW w \in Tasks, StartTask(w)
    PROVE  Calm(n)'
<1>1. PICK r \in WorkerType :
              /\ wk' = [wk EXCEPT ![w] = r]
              /\ r.pc = "start"
              /\ queue # <<>> /\ 1 \in DOMAIN queue /\ queue' = Tail(queue)
              /\ DOMAIN r.batch = DOMAIN queue[1]
              /\ \A i \in DOMAIN r.batch : r.batch[i] = [id |-> queue[1][i], ts |-> 0]
  BY StartTaskEffect
<1>2. UNCHANGED <<log, req, odoo>> /\ w \in Workers
  BY DEF StartTask, Workers
<1>3. \A i \in DOMAIN queue' : \E j \in DOMAIN queue : queue'[i] = queue[j]
  <2>1. queue \in Seq(Seq(Nat))
    BY DEF PunchInv, RequestInv
  <2>2. /\ queue' \in Seq(Seq(Nat)) /\ DOMAIN queue = 1..Len(queue) /\ Len(queue) \in Nat
        /\ Len(queue') = Len(queue) - 1 /\ DOMAIN queue' = 1..Len(queue')
        /\ \A i \in 1..Len(queue') : queue'[i] = queue[i + 1]
    BY <1>1, <2>1, HeadTailProperties, LenProperties
  <2>3. \A i \in DOMAIN queue' : i + 1 \in DOMAIN queue /\ queue'[i] = queue[i + 1]
    BY <2>2
  <2> QED BY <2>3
<1>4. ASSUME NEW i \in DOMAIN r.batch
      PROVE  /\ r.batch[i].id # req.rounding \/ req.rounding = 0
             /\ r.batch[i].ts = 0 \/ r.batch[i].ts = log[r.batch[i].id].key
  <2>1. r.batch[i] = [id |-> queue[1][i], ts |-> 0] /\ i \in DOMAIN queue[1]
    BY <1>1
  <2>2. r.batch[i].id = queue[1][i] /\ r.batch[i].ts = 0
    BY <2>1
  <2>3. req.rounding # 0 => queue[1][i] # req.rounding
    BY <1>1, <2>1 DEF Calm, Unrounded
  <2> QED BY <2>2, <2>3
<1>5. wk' = [wk EXCEPT ![w] = r] /\ r.pc \in {"idle", "start"}
  BY <1>1
<1> QED BY <1>2, <1>3, <1>4, <1>5, CalmRest

(* The sweep takes rows with the times they have; none is being rounded.   *)
LEMMA CalmStartSweep ==
    ASSUME PunchInv, NEW n, Calm(n), StartSweep, ~crowded'
    PROVE  Calm(n)'
<1>1. PICK r \in WorkerType :
              /\ wk' = [wk EXCEPT ![Sweep] = r]
              /\ r.pc = "start"
              /\ \A i \in DOMAIN r.batch : /\ r.batch[i].id \in Ids
                                           /\ r.batch[i].ts = log[r.batch[i].id].key
  BY StartSweepEffect
<1>2. UNCHANGED <<log, req, odoo, queue>> /\ req.rounding = 0 /\ Sweep \in Workers
  BY DEF StartSweep, Workers
<1>3. \A i \in DOMAIN queue' : \E j \in DOMAIN queue : queue'[i] = queue[j]
  BY <1>2
<1>4. /\ wk' = [wk EXCEPT ![Sweep] = r] /\ r.pc \in {"idle", "start"}
      /\ \A i \in DOMAIN r.batch : r.batch[i].ts = 0 \/ r.batch[i].ts = log[r.batch[i].id].key
  BY <1>1
<1> QED BY <1>2, <1>3, <1>4, CalmRest

(* A crash empties every hand; an edit in Odoo closes nothing in the name  *)
(* of a punch.                                                             *)
LEMMA CalmOther ==
    ASSUME PunchInv, NEW n, Calm(n),
           Tick \/ Crash \/ FetchOpen \/ WriteOpenAttendance \/ GrowStale \/ EditOdoo
              \/ UNCHANGED vars
    PROVE  Calm(n)'
<1>1. CASE Crash
  <2>1. /\ \A v \in Workers : wk'[v] = Idle
        /\ queue' = <<>> /\ req' = NoRequest /\ UNCHANGED <<log, odoo>>
    BY <1>1 DEF Crash
  <2>2. \A v \in Workers : DOMAIN wk'[v].batch = {} /\ ~Mid(v)' /\ wk'[v].pc = "idle"
    BY <2>1, IdleTyped DEF Mid
  <2>3. req'.rounding = 0
    BY <2>1 DEF NoRequest
  <2> QED BY <2>1, <2>2, <2>3 DEF Calm, Unrounded, TimesAreKeys, SyncedUpTo, OneAtWork, Ids
<1>2. CASE EditOdoo
  <2>1. /\ \/ odoo' = Append(odoo, [in |-> now, out |-> 0, wc |-> None, by |-> 0, closer |-> 0])
           \/ odoo' = [a \in DOMAIN odoo |->
                         IF a \in OpenRows THEN [odoo[a] EXCEPT !.out = now] ELSE odoo[a]]
        /\ UNCHANGED <<log, req, queue, wk>>
    BY <1>2 DEF EditOdoo
  <2>2. \A a \in DOMAIN odoo : odoo'[a].closer = odoo[a].closer
    <3> DEFINE e == [in |-> now, out |-> 0, wc |-> None, by |-> 0, closer |-> 0]
    <3>1. ASSUME odoo' = Append(odoo, e), NEW a \in DOMAIN odoo PROVE odoo'[a] = odoo[a]
      <4> HIDE DEF e
      <4>1. odoo \in Seq(AttendanceType) /\ a \in 1..Len(odoo)
        BY Typed
      <4> QED BY <3>1, <4>1
    <3>2. ASSUME odoo' = [a \in DOMAIN odoo |->
                         IF a \in OpenRows THEN [odoo[a] EXCEPT !.out = now] ELSE odoo[a]],
                 NEW a \in DOMAIN odoo
          PROVE  odoo'[a].closer = odoo[a].closer
      <4>1. odoo[a] \in AttendanceType
        BY Typed
      <4>2. odoo'[a] = IF a \in OpenRows THEN [odoo[a] EXCEPT !.out = now] ELSE odoo[a]
        BY <3>2
      <4> QED BY <4>1, <4>2 DEF AttendanceType
    <3> QED BY <2>1, <3>1, <3>2
  <2> QED BY <2>1, <2>2, CalmFrame
<1>3. CASE Tick \/ FetchOpen \/ WriteOpenAttendance \/ GrowStale \/ UNCHANGED vars
  <2>1. UNCHANGED <<log, req, queue, wk, odoo>>
    BY <1>3 DEF Tick, FetchOpen, WriteOpenAttendance, GrowStale, vars
  <2> QED BY <2>1, CalmFrame
<1> QED BY <1>1, <1>2, <1>3

(* One transaction of a request.                                           *)
LEMMA CalmRequest ==
    ASSUME PunchInv, NEW n, Calm(n),
           InsertSecond \/ \E acts \in Requests, live \in BOOLEAN : Punch(acts, live)
    PROVE  Calm(n)' /\ Len(log') = Len(log) + 1
<1>1. \E act \in Ins \cup Outs, live \in BOOLEAN : log' = OpenLogRow(act, live)
  <2>1. CASE InsertSecond
    <3>1. req.todo \in Seq(Ins \cup Outs) /\ req.todo # <<>>
      BY <2>1 DEF InsertSecond, PunchInv, RequestInv
    <3> QED BY <2>1, <3>1, FirstOf DEF InsertSecond
  <2>2. ASSUME NEW acts \in Requests, NEW live \in BOOLEAN, Punch(acts, live)
        PROVE  acts[1] \in Ins \cup Outs /\ log' = OpenLogRow(acts[1], live)
    BY <2>2 DEF Punch, Requests, Ins, Outs
  <2> QED BY <2>1, <2>2
<1>2. req'.rounding = Len(log) + 1
  <2>1. CASE InsertSecond
    BY <2>1 DEF InsertSecond, PunchInv, RequestInv
  <2>2. ASSUME NEW acts \in Requests, NEW live \in BOOLEAN, Punch(acts, live)
        PROVE  req'.rounding = Len(log) + 1
    BY <2>2 DEF Punch
  <2> QED BY <2>1, <2>2
<1>3. UNCHANGED <<queue, wk, odoo>>
  BY DEF InsertSecond, Punch
<1> QED BY <1>1, <1>2, <1>3, CalmOpenRow, LogRow

(* A call that fails gives its punch up.                                   *)
LEMMA CalmCallFails ==
    ASSUME PunchInv, NEW n, Calm(n), NEW w \in Workers, CallFails(w)
    PROVE  Calm(n)'
<1>1. /\ Mid(w) /\ wk' = [wk EXCEPT ![w] = NextRow(w)] /\ UNCHANGED <<log, req, queue>>
  BY DEF CallFails, Mid
<1> QED BY <1>1, CalmNextRow

(* Nobody is at work in the beginning.                                     *)
LEMMA CalmInit == Init => CalmInv
<1> SUFFICES ASSUME Init PROVE 0 \in 0..Len(log) /\ Calm(0)
  BY DEF CalmInv
<1>1. log = <<>> /\ queue = <<>> /\ req.rounding = 0 /\ \A w \in Workers : wk[w] = Idle
  BY DEF Init, NoRequest
<1>2. Len(log) = 0 /\ Ids = {}
  BY <1>1 DEF Ids
<1>3. \A w \in Workers : wk[w].pc = "idle" /\ DOMAIN wk[w].batch = {} /\ ~Mid(w)
  BY <1>1, IdleTyped DEF Mid
<1> QED BY <1>1, <1>2, <1>3 DEF Calm, Unrounded, TimesAreKeys, SyncedUpTo, OneAtWork

(* Every step but the marking of a row leaves the place in the punches.    *)
LEMMA CalmStays ==
    ASSUME PunchInv, NEW n, Calm(n), [Next]_vars, ~crowded',
           \A w \in Workers : ~MarkSynced(w)
    PROVE  n \in 0..Len(log') /\ Calm(n)'
<1>1. n \in 0..Len(log) /\ Len(log) \in Nat
  BY Typed DEF Calm, SyncedUpTo
<1>2. ASSUME Calm(n)', Len(log') = Len(log) \/ Len(log') = Len(log) + 1
      PROVE  n \in 0..Len(log') /\ Calm(n)'
  BY <1>1, <1>2
<1>3. ASSUME InsertSecond \/ \E acts \in Requests, live \in BOOLEAN : Punch(acts, live)
      PROVE  n \in 0..Len(log') /\ Calm(n)'
  BY <1>2, <1>3, CalmRequest
<1>4. CASE RoundRow
  BY <1>2, <1>4, CalmRoundRow, RoundEffect
<1>5. ASSUME NEW w \in Tasks, StartTask(w) PROVE n \in 0..Len(log') /\ Calm(n)'
  <2>1. Calm(n)' /\ Len(log') = Len(log)
    BY <1>5, CalmStartTask DEF StartTask
  <2> QED BY <1>2, <2>1
<1>6. CASE StartSweep
  <2>1. Calm(n)' /\ Len(log') = Len(log)
    BY <1>6, CalmStartSweep DEF StartSweep
  <2> QED BY <1>2, <2>1
<1>7. ASSUME NEW w \in Workers, Start(w) \/ Look(w) \/ Act(w) \/ CheckNoneOpen(w) \/ CallFails(w)
      PROVE  n \in 0..Len(log') /\ Calm(n)'
  <2>1. Calm(n)'
    BY <1>7, CalmStart, CalmLook, CalmAct, CalmCheck, CalmCallFails
  <2>2. log' = log
    BY <1>7 DEF Start, Look, Act, CheckNoneOpen, CallFails
  <2> QED BY <1>2, <2>1, <2>2
<1>8. ASSUME Tick \/ Crash \/ FetchOpen \/ WriteOpenAttendance \/ GrowStale \/ EditOdoo
                \/ UNCHANGED vars
      PROVE  n \in 0..Len(log') /\ Calm(n)'
  <2>1. Calm(n)' /\ log' = log
    BY <1>8, CalmOther
       DEF Tick, Crash, FetchOpen, WriteOpenAttendance, GrowStale, EditOdoo, vars
  <2> QED BY <1>2, <2>1
<1> QED BY <1>3, <1>4, <1>5, <1>6, <1>7, <1>8 DEF Next, Step

(* The history never forgets.                                              *)
LEMMA CrowdedStays ==
    ASSUME PunchInv, [Next]_vars, crowded
    PROVE  crowded'
<1>1. crowded = TRUE
  BY DEF PunchInv, ClockInv
<1> QED BY <1>1 DEF Next, Tick, Punch, InsertSecond, RoundRow, StartTask, StartSweep, Step,
           Start, Look, Act, CheckNoneOpen, MarkSynced, CallFails, Crash, FetchOpen,
           WriteOpenAttendance, GrowStale, EditOdoo, vars

(* So the place stays or moves on by one.                                  *)
LEMMA CalmStep == PunchInv /\ CalmInv /\ [Next]_vars => CalmInv'
<1> SUFFICES ASSUME PunchInv, CalmInv, [Next]_vars, ~crowded'
             PROVE  \E n \in 0..Len(log') : Calm(n)'
  BY DEF CalmInv
<1>1. PICK n \in 0..Len(log) : Calm(n)
  BY CrowdedStays DEF CalmInv
<1>2. CASE \A w \in Workers : ~MarkSynced(w)
  BY <1>1, <1>2, CalmStays
<1>3. ASSUME NEW w \in Workers, MarkSynced(w) PROVE \E m \in 0..Len(log') : Calm(m)'
  <2>1. Calm(n + 1)' /\ n + 1 \in 0..Len(log) /\ Len(log') = Len(log)
    BY <1>1, <1>3, CalmMark, MarkEffect
  <2> QED BY <2>1
<1> QED BY <1>2, <1>3

(* What a write does to rows that are closed already.                      *)
LEMMA WriteKeepsClosers ==
    ASSUME PunchInv, NEW n, Calm(n), NEW w \in Workers, wk[w].pc = "act",
           NEW o, o = Written(w) \/ \E S \in SUBSET wk[w].seen : o = Closed(w, S),
           NEW a \in DOMAIN odoo, odoo[a].closer # 0
    PROVE  o[a].closer = odoo[a].closer
<1>1. Mid(w) /\ a \notin wk[w].seen /\ wk[w].seen \subseteq DOMAIN odoo
  BY Typed DEF Mid, Calm, OneAtWork, WorkerOk
<1>2. ASSUME NEW S \in SUBSET wk[w].seen, o = Closed(w, S) PROVE o[a].closer = odoo[a].closer
  <2>1. S \subseteq DOMAIN odoo /\ a \notin S
    BY <1>1
  <2> QED BY <1>1, <1>2, <2>1, ClosedEffect
<1>3. CASE o = Adopted(w)
  BY <1>1, <1>3, AdoptedEffect
<1>4. CASE o = Created(w)
  BY <1>1, <1>4, CreatedEffect
<1> QED BY <1>2, <1>3, <1>4 DEF Written

(* A row that one punch has closed is closed again by another punch only
   when punches were worked on at the same time, out of order, again or
   before they were rounded: get_current_attendance and the open rows of
   close_all_open_attendance_rows offer only open ones, and they are still
   open when they are written if nobody else is at work.                   *)
THEOREM ClosedOnce == Spec => NoSecondClose
<1>1. PunchInv /\ CalmInv /\ [Next]_vars =>
        [\A a \in DOMAIN odoo :
            (odoo[a].closer # 0 /\ odoo'[a].closer # odoo[a].closer) => crowded]_vars
  <2> SUFFICES ASSUME PunchInv, CalmInv, Next, ~crowded, NEW a \in DOMAIN odoo, odoo[a].closer # 0
               PROVE  odoo'[a].closer = odoo[a].closer
    OBVIOUS
  <2>1. PICK n \in 0..Len(log) : Calm(n)
    BY DEF CalmInv
  <2>2. ASSUME NEW w \in Workers, Act(w) PROVE odoo'[a].closer = odoo[a].closer
    <3>1. wk[w].pc = "act" /\ odoo' = Written(w)
      BY <2>2 DEF Act
    <3> QED BY <2>1, <3>1, WriteKeepsClosers
  <2>3. ASSUME NEW w \in Workers, CallFails(w) PROVE odoo'[a].closer = odoo[a].closer
    <3>1. \/ odoo' = odoo
          \/ wk[w].pc = "act" /\ odoo' = Written(w)
          \/ wk[w].pc = "act" /\ \E S \in SUBSET wk[w].seen : odoo' = Closed(w, S)
      BY <2>3 DEF CallFails
    <3> QED BY <2>1, <3>1, WriteKeepsClosers
  <2>4. CASE EditOdoo
    <3>1. odoo' = Append(odoo, [in |-> now, out |-> 0, wc |-> None, by |-> 0, closer |-> 0])
             \/ odoo' = [b \in DOMAIN odoo |->
                            IF b \in OpenRows THEN [odoo[b] EXCEPT !.out = now] ELSE odoo[b]]
      BY <2>4 DEF EditOdoo
    <3>2. odoo[a].out # 0 /\ a \notin OpenRows
      BY DEF PunchInv, OdooInv, OpenRows
    <3> DEFINE e == [in |-> now, out |-> 0, wc |-> None, by |-> 0, closer |-> 0]
    <3>3. ASSUME odoo' = Append(odoo, e) PROVE odoo'[a] = odoo[a]
      <4> HIDE DEF e
      <4>1. odoo \in Seq(AttendanceType) /\ a \in 1..Len(odoo)
        BY Typed
      <4> QED BY <3>3, <4>1
    <3> QED BY <3>1, <3>2, <3>3
  <2>5. UNCHANGED odoo => odoo'[a].closer = odoo[a].closer
    OBVIOUS
  <2>6. ASSUME Tick \/ InsertSecond \/ RoundRow \/ StartSweep \/ Crash \/ FetchOpen
                  \/ WriteOpenAttendance \/ GrowStale
        PROVE  UNCHANGED odoo
    BY <2>6 DEF Tick, InsertSecond, RoundRow, StartSweep, Crash, FetchOpen,
                WriteOpenAttendance, GrowStale
  <2>7. ASSUME NEW acts \in Requests, NEW live \in BOOLEAN, Punch(acts, live)
        PROVE  UNCHANGED odoo
    BY <2>7 DEF Punch
  <2>8. ASSUME NEW w \in Workers, Start(w) \/ Look(w) \/ CheckNoneOpen(w) \/ MarkSynced(w)
        PROVE  UNCHANGED odoo
    BY <2>8 DEF Start, Look, CheckNoneOpen, MarkSynced
  <2>9. ASSUME NEW w \in Tasks, StartTask(w) PROVE UNCHANGED odoo
    BY <2>9 DEF StartTask
  <2> QED BY <2>2, <2>3, <2>4, <2>5, <2>6, <2>7, <2>8, <2>9 DEF Next, Step
<1>2. Spec => [](PunchInv /\ CalmInv)
  <2>1. Init => PunchInv /\ CalmInv
    BY InitTyped, CalmInit
  <2>2. PunchInv /\ CalmInv /\ [Next]_vars => PunchInv' /\ CalmInv'
    BY StepTyped, CalmStep
  <2> QED BY <2>1, <2>2, PTL DEF Spec
<1> QED BY <1>1, <1>2, PTL DEF Spec, NoSecondClose

(***************************************************************************)
(* What Odoo holds: proofs that it is what the punches describe, and that  *)
(* the kiosk shows it, while punches are worked on one at a time and in    *)
(* order.                                                                  *)
(***************************************************************************)
(* What the punches describe *)

(* Attendances and punches of the right types, n of them described.        *)
Described3(o, l, n) ==
    o \in Seq(AttendanceType) /\ l \in Seq(RowType) /\ n \in 0..Len(l)

(* The fields of attendances and punches.                                  *)
LEMMA Fields ==
    ASSUME NEW o, NEW l, NEW n, Described3(o, l, n)
    PROVE  /\ Len(l) \in Nat /\ n \in Nat /\ n <= Len(l)
           /\ Len(o) \in Nat /\ DOMAIN o = 1..Len(o)
           /\ \A a \in DOMAIN o : /\ o[a].by \in Nat /\ o[a].closer \in Nat /\ o[a].out \in Nat
                                  /\ a \in Nat
           /\ \A p \in 1..Len(l) : /\ l[p].key \in Nat \ {0} /\ l[p].act \in Ins \cup Outs
                                   /\ l[p].wc \in {"first", "second", None}
           /\ Ins \cap Outs = {}
<1>1. Len(l) \in Nat /\ n \in Nat /\ n <= Len(l) /\ Len(o) \in Nat /\ DOMAIN o = 1..Len(o)
  BY LenProperties DEF Described3
<1>2. \A a \in DOMAIN o : o[a] \in AttendanceType
  BY <1>1 DEF Described3
<1>3. \A p \in 1..Len(l) : l[p] \in RowType
  BY <1>1 DEF Described3
<1>4. Ins \cap Outs = {}
  BY DEF Ins, Outs
<1>5. \A a \in DOMAIN o : o[a].by \in Nat /\ o[a].closer \in Nat /\ o[a].out \in Nat /\ a \in Nat
  <2> SUFFICES ASSUME NEW a \in DOMAIN o
               PROVE  o[a].by \in Nat /\ o[a].closer \in Nat /\ o[a].out \in Nat /\ a \in Nat
    OBVIOUS
  <2>1. o[a].by \in Nat /\ o[a].closer \in Nat /\ o[a].out \in Stamps
    BY <1>2 DEF AttendanceType
  <2>2. a \in Nat
    BY <1>1
  <2> QED BY <2>1, <2>2, StampFacts
<1>6. \A p \in 1..Len(l) : /\ l[p].key \in Nat \ {0} /\ l[p].act \in Ins \cup Outs
                           /\ l[p].wc \in {"first", "second", None}
  BY <1>3, StampFacts DEF RowType
<1> QED BY <1>1, <1>4, <1>5, <1>6

(* An open row reaches from its punch to the last one.                     *)
LEMMA OpenReaches ==
    ASSUME NEW o, NEW l, NEW n, Described3(o, l, n), Matches(o, l, n),
           NEW a \in DOMAIN o, o[a].out = 0
    PROVE  StillOpen(o[a], l, n) /\ o[a].by \in 1..n /\ n > 0 /\ l[n].act \in Ins
<1>1. RowMatches(o[a], l, n)
  BY DEF Matches
<1>2. o[a].by \in 1..n /\ n \in Nat /\ n <= Len(l) /\ Len(l) \in Nat
  BY <1>1, Fields DEF RowMatches
<1>3. ~Ended(o[a], l, n)
  <2> SUFFICES ASSUME Ended(o[a], l, n) PROVE FALSE
    OBVIOUS
  <2>1. o[a].closer \in (o[a].by + 1)..n /\ o[a].out = l[o[a].closer].key
    BY DEF Ended
  <2>2. o[a].closer \in 1..Len(l)
    BY <1>2, <2>1
  <2> QED BY <2>1, <2>2, Fields
<1>4. StillOpen(o[a], l, n)
  BY <1>1, <1>3 DEF RowMatches
<1> QED BY <1>2, <1>4 DEF StillOpen

(* So there is at most one.                                                *)
LEMMA OneOpen ==
    ASSUME NEW o, NEW l, NEW n, Described3(o, l, n), Matches(o, l, n),
           NEW a \in DOMAIN o, NEW b \in DOMAIN o, o[a].out = 0, o[b].out = 0
    PROVE  a = b
<1>1. ASSUME NEW c \in DOMAIN o, NEW d \in DOMAIN o, o[c].out = 0, o[d].out = 0, c < d
      PROVE  FALSE
  <2>1. o[c].by < o[d].by
    BY <1>1 DEF Matches
  <2>2. /\ o[c].by \in 1..n /\ o[d].by \in 1..n /\ n \in Nat
        /\ \A q \in o[c].by..n : l[q].act \in Ins
    BY <1>1, OpenReaches, Fields DEF StillOpen
  <2>3. Begins(l, o[d].by)
    BY DEF Matches, RowMatches
  <2>4. o[d].by # 1 /\ o[d].by - 1 \in o[c].by..n
    BY <2>1, <2>2
  <2>5. l[o[d].by - 1].act \in Outs /\ l[o[d].by - 1].act \in Ins
    BY <2>2, <2>3, <2>4 DEF Begins
  <2> QED BY <2>5, Fields
<1>2. a \in Nat /\ b \in Nat
  BY Fields
<1> QED BY <1>1, <1>2

(* Only what the first n punches say counts.                               *)
LEMMA SamePunches ==
    ASSUME NEW o, NEW l, NEW n \in Nat, Matches(o, l, n), NEW k,
           \A p \in 1..n : k[p].act = l[p].act /\ k[p].key = l[p].key /\ k[p].wc = l[p].wc
    PROVE  Matches(o, k, n)
<1>1. \A p \in 1..n : Begins(k, p) <=> Begins(l, p)
  <2>1. \A p \in 1..n : p # 1 => p - 1 \in 1..n
    OBVIOUS
  <2> QED BY <2>1 DEF Begins
<1>2. ASSUME NEW a \in DOMAIN o PROVE RowMatches(o[a], k, n)
  <2>1. RowMatches(o[a], l, n)
    BY DEF Matches
  <2>2. o[a].by \in 1..n /\ Begins(k, o[a].by) /\ o[a].in = k[o[a].by].key
    BY <1>1, <2>1 DEF RowMatches
  <2>3. ASSUME NEW m \in Nat, m <= n, Labelled(o[a], l, m) PROVE Labelled(o[a], k, m)
    <3>1. \A q \in o[a].by..m : q \in 1..n
      BY <2>2, <2>3
    <3>2. CASE o[a].wc = None /\ \A q \in o[a].by..m : l[q].wc = None
      BY <3>1, <3>2 DEF Labelled
    <3>3. CASE o[a].wc # None
      <4>1. PICK q \in o[a].by..m : l[q].wc = o[a].wc /\ \A t \in (q + 1)..m : l[t].wc = None
        BY <2>3, <3>3 DEF Labelled
      <4>2. \A t \in (q + 1)..m : t \in o[a].by..m
        BY <2>2
      <4>3. k[q].wc = o[a].wc /\ \A t \in (q + 1)..m : k[t].wc = None
        BY <3>1, <4>1, <4>2
      <4> QED BY <3>3, <4>3 DEF Labelled
    <3> QED BY <2>3, <3>2, <3>3 DEF Labelled
  <2>4. CASE StillOpen(o[a], l, n)
    <3>1. \A q \in o[a].by..n : q \in 1..n
      BY <2>2
    <3>2. StillOpen(o[a], k, n)
      BY <2>3, <2>4, <3>1 DEF StillOpen
    <3> QED BY <2>2, <3>2 DEF RowMatches
  <2>5. CASE Ended(o[a], l, n)
    <3> DEFINE c == o[a].closer
    <3>1. c \in (o[a].by + 1)..n
      BY <2>5 DEF Ended
    <3>2. c \in 1..n /\ c - 1 \in Nat /\ c - 1 <= n /\ \A q \in o[a].by..(c - 1) : q \in 1..n
      BY <2>2, <3>1
    <3>3. Labelled(o[a], k, c - 1)
      BY <2>3, <2>5, <3>2 DEF Ended
    <3>4. Ended(o[a], k, n)
      BY <2>5, <3>2, <3>3 DEF Ended
    <3> QED BY <2>2, <3>4 DEF RowMatches
  <2> QED BY <2>1, <2>4, <2>5 DEF RowMatches
<1>3. n > 0 => n \in 1..n
  OBVIOUS
<1> QED BY <1>1, <1>2, <1>3 DEF Matches

(* A row that has ended stays what it is when a punch is added.            *)
LEMMA EndedStays ==
    ASSUME NEW r, NEW l, NEW n \in Nat, r.by \in 1..n, Ended(r, l, n)
    PROVE  Ended(r, l, n + 1)
BY DEF Ended

(* Rows that differ in no field describe the same.                         *)
LEMMA SameRows ==
    ASSUME NEW o, NEW l, NEW n, Matches(o, l, n), NEW k, DOMAIN k = DOMAIN o,
           \A a \in DOMAIN o : /\ k[a].in = o[a].in /\ k[a].out = o[a].out /\ k[a].wc = o[a].wc
                               /\ k[a].by = o[a].by /\ k[a].closer = o[a].closer
    PROVE  Matches(k, l, n)
<1>1. ASSUME NEW a \in DOMAIN o PROVE RowMatches(k[a], l, n)
  <2>1. RowMatches(o[a], l, n)
    BY DEF Matches
  <2> QED BY <2>1 DEF RowMatches, StillOpen, Ended, Labelled
<1> QED BY <1>1 DEF Matches

(* A row that was closed earlier matches when the next punch counts.       *)
LEMMA ClosedRowMatches ==
    ASSUME NEW o, NEW l, NEW n, Described3(o, l, n), Matches(o, l, n),
           NEW a \in DOMAIN o, o[a].out # 0
    PROVE  RowMatches(o[a], l, n + 1)
<1>1. n \in Nat
  BY Fields
<1>2. RowMatches(o[a], l, n) /\ ~StillOpen(o[a], l, n)
  BY DEF Matches, StillOpen
<1>3. o[a].by \in 1..n /\ Ended(o[a], l, n)
  BY <1>2 DEF RowMatches
<1>4. Ended(o[a], l, n + 1) /\ o[a].by \in 1..(n + 1)
  BY <1>1, <1>3, EndedStays
<1> QED BY <1>2, <1>4 DEF RowMatches

(* An out-punch closes the rows that are open; with none nothing changes.  *)
LEMMA OutCloses ==
    ASSUME NEW o, NEW l, NEW n, Described3(o, l, n), Matches(o, l, n), n < Len(l),
           l[n + 1].act \in Outs,
           NEW k, DOMAIN k = DOMAIN o,
           \A a \in DOMAIN o : /\ k[a].in = o[a].in /\ k[a].wc = o[a].wc /\ k[a].by = o[a].by
                               /\ k[a].out = IF o[a].out = 0 THEN l[n + 1].key ELSE o[a].out
                               /\ k[a].closer = IF o[a].out = 0 THEN n + 1 ELSE o[a].closer
    PROVE  Matches(k, l, n + 1)
<1>1. n \in Nat /\ Ins \cap Outs = {}
  BY Fields
<1>2. ASSUME NEW a \in DOMAIN o, o[a].out = 0 PROVE RowMatches(k[a], l, n + 1)
  <2>1. StillOpen(o[a], l, n) /\ o[a].by \in 1..n /\ o[a].by \in Nat
    BY <1>2, OpenReaches, Fields
  <2>2. Begins(l, o[a].by) /\ o[a].in = l[o[a].by].key
    BY DEF Matches, RowMatches
  <2>3. k[a].closer = n + 1 /\ k[a].out = l[n + 1].key /\ k[a].by = o[a].by
    BY <1>2
  <2>4. Labelled(k[a], l, n)
    BY <2>1 DEF StillOpen, Labelled
  <2>5. \A q \in k[a].by..n : l[q].act \in Ins
    BY <2>1, <2>3 DEF StillOpen
  <2>6. k[a].closer \in (k[a].by + 1)..(n + 1) /\ k[a].closer - 1 = n /\ k[a].by \in 1..(n + 1)
    BY <1>1, <2>1, <2>3
  <2>7. Ended(k[a], l, n + 1)
    BY <2>3, <2>4, <2>5, <2>6 DEF Ended
  <2> QED BY <2>2, <2>3, <2>6, <2>7 DEF RowMatches
<1>3. ASSUME NEW a \in DOMAIN o, o[a].out # 0 PROVE RowMatches(k[a], l, n + 1)
  <2>1. RowMatches(o[a], l, n + 1)
    BY <1>3, ClosedRowMatches
  <2> QED BY <1>3, <2>1 DEF RowMatches, StillOpen, Ended, Labelled
<1>4. l[n + 1].act \notin Ins
  BY <1>1
<1>5. ~Begins(l, n + 1)
  BY <1>4 DEF Begins
<1>6. \A p \in 1..(n + 1) : Begins(l, p) => p \in 1..n
  BY <1>1, <1>5
<1> QED BY <1>2, <1>3, <1>4, <1>6 DEF Matches

(* An in-punch with no row open begins one.                                *)
LEMMA InBegins ==
    ASSUME NEW o, NEW l, NEW n, Described3(o, l, n), Matches(o, l, n), n < Len(l),
           l[n + 1].act \in Ins, \A a \in DOMAIN o : o[a].out # 0,
           NEW k, DOMAIN k = 1..(Len(o) + 1), \A a \in DOMAIN o : k[a] = o[a],
           NEW r, k[Len(o) + 1] = r, r.in = l[n + 1].key, r.out = 0, r.wc = l[n + 1].wc,
           r.by = n + 1, r.closer = 0
    PROVE  Matches(k, l, n + 1)
<1>1. n \in Nat /\ Len(o) \in Nat /\ DOMAIN o = 1..Len(o) /\ n <= Len(l) /\ Len(l) \in Nat
  BY Fields
<1>2. Begins(l, n + 1)
  <2>1. CASE n = 0
    BY <2>1 DEF Begins
  <2>2. CASE n > 0
    <3>1. l[n].act \notin Ins /\ n \in 1..Len(l)
      BY <1>1, <2>2 DEF Matches
    <3>2. l[n].act \in Outs
      BY <3>1, Fields
    <3>3. (n + 1) - 1 = n
      BY <1>1
    <3> QED BY <3>2, <3>3 DEF Begins
  <2> QED BY <1>1, <2>1, <2>2
<1>3. ASSUME NEW a \in DOMAIN o PROVE RowMatches(k[a], l, n + 1) /\ k[a].by \in 1..n
  <2>1. RowMatches(o[a], l, n + 1)
    BY ClosedRowMatches
  <2>2. RowMatches(o[a], l, n)
    BY DEF Matches
  <2> QED BY <2>1, <2>2 DEF RowMatches
<1>4. RowMatches(r, l, n + 1)
  <2>1. \A q \in (n + 1)..(n + 1) : q = n + 1
    BY <1>1
  <2>2. Labelled(r, l, n + 1)
    <3>1. \A s \in (n + 1 + 1)..(n + 1) : FALSE
      BY <1>1
    <3>2. n + 1 \in (n + 1)..(n + 1)
      BY <1>1
    <3> QED BY <2>1, <3>1, <3>2 DEF Labelled
  <2>3. StillOpen(r, l, n + 1)
    BY <2>1, <2>2 DEF StillOpen
  <2>4. n + 1 \in 1..(n + 1)
    BY <1>1
  <2> QED BY <1>2, <2>3, <2>4 DEF RowMatches
<1>5. ASSUME NEW a \in DOMAIN k, NEW b \in DOMAIN k, a < b PROVE k[a].by < k[b].by
  <2>1. a \in DOMAIN o /\ (b \in DOMAIN o \/ b = Len(o) + 1)
    BY <1>1, <1>5
  <2>2. CASE b \in DOMAIN o
    BY <1>5, <2>1, <2>2 DEF Matches
  <2>3. CASE b = Len(o) + 1
    BY <1>1, <1>3, <2>1, <2>3
  <2> QED BY <2>1, <2>2, <2>3
<1>6. ASSUME NEW a \in DOMAIN k PROVE RowMatches(k[a], l, n + 1)
  <2>1. a \in DOMAIN o \/ a = Len(o) + 1
    BY <1>1
  <2> QED BY <1>3, <1>4, <2>1
<1>7. ASSUME NEW p \in 1..(n + 1), Begins(l, p) PROVE \E a \in DOMAIN k : k[a].by = p
  <2>1. Len(o) + 1 \in DOMAIN k /\ \A a \in DOMAIN o : a \in DOMAIN k
    BY <1>1
  <2>2. CASE p = n + 1
    BY <2>1, <2>2
  <2>3. CASE p # n + 1
    <3>1. p \in 1..n
      BY <1>1, <2>3
    <3>2. PICK a \in DOMAIN o : o[a].by = p
      BY <1>7, <3>1 DEF Matches
    <3> QED BY <2>1, <3>2
  <2> QED BY <2>2, <2>3
<1>8. Len(o) + 1 \in DOMAIN k /\ k[Len(o) + 1].out = 0
  BY <1>1
<1> QED BY <1>5, <1>6, <1>7, <1>8 DEF Matches

(* An in-punch with a row open labels that row.                            *)
LEMMA InContinues ==
    ASSUME NEW o, NEW l, NEW n, Described3(o, l, n), Matches(o, l, n), n < Len(l),
           l[n + 1].act \in Ins, \E a \in DOMAIN o : o[a].out = 0,
           NEW k, DOMAIN k = DOMAIN o,
           \A a \in DOMAIN o :
              /\ k[a].in = o[a].in /\ k[a].by = o[a].by
              /\ k[a].out = o[a].out /\ k[a].closer = o[a].closer
              /\ k[a].wc = IF o[a].out = 0 /\ l[n + 1].wc # None THEN l[n + 1].wc ELSE o[a].wc
    PROVE  Matches(k, l, n + 1)
<1>1. n \in Nat /\ n <= Len(l) /\ Len(l) \in Nat /\ Ins \cap Outs = {}
  BY Fields
<1>2. ASSUME NEW a \in DOMAIN o, o[a].out = 0 PROVE RowMatches(k[a], l, n + 1)
  <2>1. StillOpen(o[a], l, n) /\ o[a].by \in 1..n /\ o[a].by \in Nat
    BY <1>2, OpenReaches, Fields
  <2>2. Begins(l, o[a].by) /\ o[a].in = l[o[a].by].key
    BY DEF Matches, RowMatches
  <2>3. k[a].by = o[a].by /\ k[a].out = 0 /\ k[a].closer = 0
    BY <1>2, <2>1 DEF StillOpen
  <2>4. \A q \in k[a].by..(n + 1) : q \in k[a].by..n \/ q = n + 1
    BY <1>1, <2>1, <2>3
  <2>5. \A q \in k[a].by..(n + 1) : l[q].act \in Ins
    BY <2>1, <2>3, <2>4 DEF StillOpen
  <2>6. Labelled(k[a], l, n + 1)
    <3>1. CASE l[n + 1].wc # None
      <4>1. k[a].wc = l[n + 1].wc
        BY <1>2, <3>1
      <4>2. n + 1 \in k[a].by..(n + 1) /\ \A s \in (n + 1 + 1)..(n + 1) : FALSE
        BY <1>1, <2>1, <2>3
      <4> QED BY <3>1, <4>1, <4>2 DEF Labelled
    <3>2. CASE l[n + 1].wc = None
      <4>1. k[a].wc = o[a].wc
        BY <3>2
      <4>2. CASE o[a].wc = None
        <5>1. \A q \in k[a].by..n : l[q].wc = None
          BY <2>1, <2>3, <4>2 DEF StillOpen, Labelled
        <5> QED BY <2>4, <3>2, <4>1, <4>2, <5>1 DEF Labelled
      <4>3. CASE o[a].wc # None
        <5>1. PICK q \in o[a].by..n : /\ l[q].wc = o[a].wc
                                      /\ \A s \in (q + 1)..n : l[s].wc = None
          BY <2>1, <4>3 DEF StillOpen, Labelled
        <5>2. q \in k[a].by..(n + 1) /\ \A s \in (q + 1)..(n + 1) : s \in (q + 1)..n \/ s = n + 1
          BY <1>1, <2>1, <2>3
        <5>3. \A s \in (q + 1)..(n + 1) : l[s].wc = None
          BY <3>2, <5>1, <5>2
        <5> QED BY <4>1, <4>3, <5>1, <5>2, <5>3 DEF Labelled
      <4> QED BY <4>2, <4>3
    <3> QED BY <3>1, <3>2
  <2>7. StillOpen(k[a], l, n + 1) /\ k[a].by \in 1..(n + 1)
    BY <1>1, <2>1, <2>3, <2>5, <2>6 DEF StillOpen
  <2> QED BY <2>2, <2>3, <2>7 DEF RowMatches
<1>3. ASSUME NEW a \in DOMAIN o, o[a].out # 0 PROVE RowMatches(k[a], l, n + 1)
  <2>1. RowMatches(o[a], l, n + 1)
    BY <1>3, ClosedRowMatches
  <2> QED BY <1>3, <2>1 DEF RowMatches, StillOpen, Ended, Labelled
<1>4. PICK a \in DOMAIN o : o[a].out = 0
  OBVIOUS
<1>5. n > 0 /\ l[n].act \in Ins
  BY <1>4, OpenReaches
<1>6. ~Begins(l, n + 1)
  <2>1. n + 1 # 1 /\ (n + 1) - 1 = n /\ l[n].act \notin Outs
    BY <1>1, <1>5
  <2> QED BY <2>1 DEF Begins
<1>7. \A p \in 1..(n + 1) : Begins(l, p) => p \in 1..n
  BY <1>1, <1>6
<1>8. k[a].out = 0
  BY <1>4
<1> QED BY <1>2, <1>3, <1>4, <1>7, <1>8 DEF Matches

(* The same in-punch worked on again changes nothing.                      *)
LEMMA InAgain ==
    ASSUME NEW o, NEW l, NEW n, Described3(o, l, n + 1), n \in Nat, Matches(o, l, n + 1),
           NEW a \in DOMAIN o, o[a].out = 0, l[n + 1].wc # None
    PROVE  o[a].wc = l[n + 1].wc
<1>1. StillOpen(o[a], l, n + 1) /\ o[a].by \in 1..(n + 1)
  BY OpenReaches
<1>2. n + 1 \in o[a].by..(n + 1)
  BY <1>1
<1>3. o[a].wc # None /\ \E q \in o[a].by..(n + 1) : /\ l[q].wc = o[a].wc
                                                   /\ \A s \in (q + 1)..(n + 1) : l[s].wc = None
  BY <1>1, <1>2 DEF StillOpen, Labelled
<1>4. PICK q \in o[a].by..(n + 1) : l[q].wc = o[a].wc /\ \A s \in (q + 1)..(n + 1) : l[s].wc = None
  BY <1>3
<1>5. q = n + 1
  <2>1. q # n + 1 => n + 1 \in (q + 1)..(n + 1)
    BY <1>1
  <2> QED BY <1>4, <2>1
<1> QED BY <1>4, <1>5

-----------------------------------------------------------------------------
(* Odoo step by step *)

(* The invariant gives what the lemmas above ask for.                      *)
LEMMA OdooDescribed ==
    ASSUME PunchInv, NEW n \in 0..Len(log)
    PROVE  Described3(odoo, log, n)
BY Typed DEF Described3

(* A worker inside _retry_one is at punch n + 1, which is rounded.         *)
LEMMA AtWork ==
    ASSUME PunchInv, NEW n, Calm(n), NEW w \in Workers, Mid(w)
    PROVE  /\ n \in 0..Len(log) /\ n \in Nat /\ n < Len(log) /\ n + 1 \in Ids
           /\ n + 1 # req.rounding
           /\ Cur(w).id = n + 1 /\ Row(w) = log[n + 1] /\ wk[w].ts = log[n + 1].key
           /\ \A v \in Workers : Mid(v) => v = w
<1>1. wk[w].pc # "idle"
  BY DEF Mid
<1>2. Cur(w) = wk[w].batch[1] /\ 1 \in DOMAIN wk[w].batch /\ Cur(w).id \in Ids
      /\ Row(w) = log[Cur(w).id]
  BY <1>1, BatchFacts
<1>3. wk[w].batch[1].id = n + 1 /\ wk[w].ts = log[n + 1].key /\ n \in 0..Len(log)
      /\ \A v \in Workers : Mid(v) => v = w
  BY DEF Calm, OneAtWork, SyncedUpTo
<1>4. n + 1 \in Ids /\ Ids = 1..Len(log) /\ Len(log) \in Nat
  BY <1>2, <1>3, Typed
<1>5. n + 1 # req.rounding
  <2>1. req.rounding # 0 => n + 1 # req.rounding
    BY <1>2, <1>3 DEF Calm, Unrounded
  <2> QED BY <1>3, <2>1
<1> QED BY <1>2, <1>3, <1>4, <1>5

(* At most one row is open.                                                *)
LEMMA OneOpenRow ==
    ASSUME PunchInv, NEW n, Calm(n), AtPlace(n)
    PROVE  \A a, b \in OpenRows : a = b
<1>1. n \in 0..Len(log) /\ Len(log) \in Nat
  BY Typed DEF Calm, SyncedUpTo
<1>2. PICK m \in 0..Len(log) : Matches(odoo, log, m)
  <2>1. n < Len(log) => n + 1 \in 0..Len(log)
    BY <1>1
  <2> QED BY <1>1, <2>1 DEF AtPlace
<1>3. Described3(odoo, log, m)
  BY <1>2, OdooDescribed
<1> QED BY <1>2, <1>3, OneOpen DEF OpenRows

(* Nothing is open after an out-punch that counts already.                 *)
LEMMA NothingOpen ==
    ASSUME PunchInv, NEW n \in Nat, n + 1 \in Ids, Matches(odoo, log, n + 1),
           log[n + 1].act \in Outs
    PROVE  OpenRows = {}
<1>1. Described3(odoo, log, n + 1)
  BY Typed, OdooDescribed
<1>2. Ins \cap Outs = {}
  BY DEF Ins, Outs
<1> QED BY <1>1, <1>2, OpenReaches DEF OpenRows

(* The write of an out-punch.                                              *)
LEMMA ClosingFollows ==
    ASSUME PunchInv, NEW n, Calm(n), AtPlace(n), NEW w \in Workers, wk[w].pc = "act",
           Row(w).act \in Outs, NEW o, o = Closed(w, OpenRows)
    PROVE  Matches(o, log, n + 1)
<1>1. Mid(w)
  BY DEF Mid
<1>2. /\ n \in 0..Len(log) /\ n \in Nat /\ n < Len(log) /\ n + 1 \in Ids
      /\ Cur(w).id = n + 1 /\ Row(w) = log[n + 1] /\ wk[w].ts = log[n + 1].key
  BY <1>1, AtWork
<1>3. /\ DOMAIN o = DOMAIN odoo
      /\ \A a \in DOMAIN odoo : a \notin OpenRows => o[a] = odoo[a]
      /\ \A a \in OpenRows : /\ o[a].in = odoo[a].in /\ o[a].wc = odoo[a].wc /\ o[a].by = odoo[a].by
                             /\ o[a].out = log[n + 1].key /\ o[a].closer = n + 1
  BY <1>1, <1>2, CurrentIsOpen, ClosedEffect
<1>4. \A a \in DOMAIN odoo : a \in OpenRows <=> odoo[a].out = 0
  BY DEF OpenRows
<1>5. ASSUME Matches(odoo, log, n) PROVE Matches(o, log, n + 1)
  <2>1. Described3(odoo, log, n)
    BY <1>2, OdooDescribed
  <2>2. ASSUME NEW a \in DOMAIN odoo
        PROVE  /\ o[a].in = odoo[a].in /\ o[a].wc = odoo[a].wc /\ o[a].by = odoo[a].by
               /\ o[a].out = IF odoo[a].out = 0 THEN log[n + 1].key ELSE odoo[a].out
               /\ o[a].closer = IF odoo[a].out = 0 THEN n + 1 ELSE odoo[a].closer
    BY <1>3, <1>4
  <2>3. log[n + 1].act \in Outs
    BY <1>2
  <2> QED BY <1>2, <1>3, <1>5, <2>1, <2>2, <2>3, OutCloses
<1>6. ASSUME Matches(odoo, log, n + 1) PROVE Matches(o, log, n + 1)
  <2>1. OpenRows = {}
    BY <1>2, <1>6, NothingOpen
  <2>2. \A a \in DOMAIN odoo : o[a] = odoo[a]
    BY <1>3, <2>1
  <2> QED BY <1>3, <1>6, <2>2, SameRows
<1> QED BY <1>5, <1>6 DEF AtPlace

(* The write of an in-punch.                                               *)
LEMMA OpeningFollows ==
    ASSUME PunchInv, NEW n, Calm(n), AtPlace(n), NEW w \in Workers, wk[w].pc = "act",
           Row(w).act \in Ins,
           NEW o, o = IF wk[w].seen # {} THEN Adopted(w) ELSE Created(w)
    PROVE  Matches(o, log, n + 1)
<1>1. Mid(w) /\ wk[w].seen = OpenRows
  BY DEF Mid, AtPlace
<1>2. /\ n \in 0..Len(log) /\ n \in Nat /\ n < Len(log) /\ n + 1 \in Ids
      /\ Cur(w).id = n + 1 /\ Row(w) = log[n + 1] /\ wk[w].ts = log[n + 1].key
  BY <1>1, AtWork
<1>3. \A a \in DOMAIN odoo : a \in OpenRows <=> odoo[a].out = 0
  BY DEF OpenRows
<1>4. OpenRows \subseteq DOMAIN odoo /\ log[n + 1].act \in Ins
  BY <1>2 DEF OpenRows
<1>5. CASE OpenRows = {}
  <2>1. /\ DOMAIN o = 1..(Len(odoo) + 1) /\ \A a \in DOMAIN odoo : o[a] = odoo[a]
        /\ o[Len(odoo) + 1] = [in |-> log[n + 1].key, out |-> 0, wc |-> log[n + 1].wc,
                               by |-> n + 1, closer |-> 0]
    BY <1>1, <1>2, <1>5, CreatedEffect
  <2>2. ~Matches(odoo, log, n + 1)
    <3> SUFFICES ASSUME Matches(odoo, log, n + 1) PROVE FALSE
      OBVIOUS
    <3>1. \E a \in DOMAIN odoo : odoo[a].out = 0
      BY <1>2, <1>4 DEF Matches
    <3> QED BY <1>3, <1>5, <3>1
  <2>3. Matches(odoo, log, n) /\ Described3(odoo, log, n)
    BY <1>2, <2>2, OdooDescribed DEF AtPlace
  <2> DEFINE r == [in |-> log[n + 1].key, out |-> 0, wc |-> log[n + 1].wc, by |-> n + 1, closer |-> 0]
  <2>4. r.in = log[n + 1].key /\ r.out = 0 /\ r.wc = log[n + 1].wc /\ r.by = n + 1 /\ r.closer = 0
    OBVIOUS
  <2>5. o[Len(odoo) + 1] = r
    BY <2>1
  <2>6. \A a \in DOMAIN odoo : odoo[a].out # 0
    BY <1>3, <1>5
  <2> HIDE DEF r
  <2> QED BY <1>2, <1>4, <2>1, <2>3, <2>4, <2>5, <2>6, InBegins
<1>6. CASE OpenRows # {}
  <2>1. /\ DOMAIN o = DOMAIN odoo
        /\ \A a \in DOMAIN odoo :
              /\ o[a].in = odoo[a].in /\ o[a].by = odoo[a].by
              /\ o[a].out = odoo[a].out /\ o[a].closer = odoo[a].closer
              /\ o[a].wc = IF a \in OpenRows /\ log[n + 1].wc # None THEN log[n + 1].wc ELSE odoo[a].wc
    BY <1>1, <1>2, <1>6, AdoptedEffect
  <2>2. ASSUME Matches(odoo, log, n) PROVE Matches(o, log, n + 1)
    <3>1. Described3(odoo, log, n)
      BY <1>2, OdooDescribed
    <3>2. \E a \in DOMAIN odoo : odoo[a].out = 0
      BY <1>3, <1>4, <1>6
    <3>3. ASSUME NEW a \in DOMAIN odoo
          PROVE  o[a].wc = IF odoo[a].out = 0 /\ log[n + 1].wc # None THEN log[n + 1].wc ELSE odoo[a].wc
      BY <1>3, <2>1
    <3> QED BY <1>2, <1>4, <2>1, <2>2, <3>1, <3>2, <3>3, InContinues
  <2>3. ASSUME Matches(odoo, log, n + 1) PROVE Matches(o, log, n + 1)
    <3>1. Described3(odoo, log, n + 1)
      BY <1>2, Typed, OdooDescribed
    <3>2. \A a \in DOMAIN odoo : odoo[a].out = 0 /\ log[n + 1].wc # None => odoo[a].wc = log[n + 1].wc
      BY <1>2, <2>3, <3>1, InAgain
    <3>3. \A a \in DOMAIN odoo : o[a].wc = odoo[a].wc
      BY <1>3, <2>1, <3>2
    <3> QED BY <2>1, <2>3, <3>3, SameRows
  <2> QED BY <2>2, <2>3 DEF AtPlace
<1> QED BY <1>5, <1>6

(* The write of _retry_one, made from current rows, puts punch n + 1 into
   Odoo, also when it was there already.                                   *)
LEMMA WriteFollows ==
    ASSUME PunchInv, NEW n, Calm(n), AtPlace(n), NEW w \in Workers, wk[w].pc = "act",
           NEW o, o = Written(w)
    PROVE  Matches(o, log, n + 1)
<1>1. wk[w].seen = OpenRows
  BY DEF AtPlace
<1>2. Row(w).act \in Ins \cup Outs
  <2>1. wk[w].pc # "idle"
    OBVIOUS
  <2> QED BY <2>1, BatchFacts DEF RowType
<1>3. CASE Row(w).act \in Outs
  BY <1>1, <1>3, ClosingFollows DEF Written
<1>4. CASE Row(w).act \notin Outs
  BY <1>2, <1>4, OpeningFollows DEF Written
<1> QED BY <1>3, <1>4

(* Closing some of the rows is closing none or all: at most one is open.   *)
LEMMA PartFollows ==
    ASSUME PunchInv, NEW n, Calm(n), AtPlace(n), NEW w \in Workers, wk[w].pc = "act",
           Row(w).act \in Outs, NEW S \in SUBSET wk[w].seen, NEW o, o = Closed(w, S)
    PROVE  Matches(o, log, n) \/ Matches(o, log, n + 1)
<1>1. wk[w].seen = OpenRows /\ OpenRows \subseteq DOMAIN odoo /\ Mid(w)
  BY DEF AtPlace, OpenRows, Mid
<1>2. S = {} \/ S = OpenRows
  BY <1>1, OneOpenRow
<1>3. CASE S = {}
  <2>1. DOMAIN o = DOMAIN odoo /\ \A a \in DOMAIN odoo : o[a] = odoo[a]
    BY <1>1, <1>3, ClosedEffect
  <2> QED BY <2>1, SameRows DEF AtPlace
<1>4. CASE S = OpenRows
  BY <1>4, ClosingFollows
<1> QED BY <1>2, <1>3, <1>4

-----------------------------------------------------------------------------
(* The place in the punches *)

(* Steps that leave Odoo alone and change only punches that do not count.  *)
LEMMA PlaceFrame ==
    ASSUME PunchInv, NEW n, Calm(n), AtPlace(n), odoo' = odoo,
           Len(log') \in Nat, Len(log) <= Len(log'),
           \A p \in Ids : p # req.rounding =>
              log'[p].act = log[p].act /\ log'[p].key = log[p].key /\ log'[p].wc = log[p].wc,
           req'.rounding \in {0, req.rounding, Len(log) + 1},
           \A w \in Workers :
              /\ wk'[w].pc = "act" =>
                    (wk[w].pc = "act" /\ wk'[w].seen = wk[w].seen) \/ wk'[w].seen = OpenRows
              /\ wk'[w].pc \in {"check", "mark"} =>
                    \/ wk[w].pc \in {"check", "mark"}
                    \/ Mid(w) /\ Matches(odoo, log, n + 1)
    PROVE  AtPlace(n)'
<1>1. /\ n \in 0..Len(log) /\ n \in Nat /\ Len(log) \in Nat /\ Ids = 1..Len(log)
      /\ req.rounding # 0 => n < req.rounding
  BY Typed DEF Calm, SyncedUpTo
<1>2. OpenRows' = OpenRows
  BY DEF OpenRows
<1>3. ASSUME Matches(odoo, log, n) PROVE Matches(odoo', log', n)
  <2>1. \A p \in 1..n : p \in Ids /\ p # req.rounding
    BY <1>1
  <2>2. Matches(odoo, log', n)
    BY <1>1, <1>3, <2>1, SamePunches
  <2> QED BY <2>2
<1>4. ASSUME n < Len(log), n + 1 # req.rounding, Matches(odoo, log, n + 1)
      PROVE  Matches(odoo', log', n + 1)
  <2>1. n + 1 \in Nat /\ \A p \in 1..(n + 1) : p \in Ids /\ p # req.rounding
    BY <1>1, <1>4
  <2>2. Matches(odoo, log', n + 1)
    BY <1>4, <2>1, SamePunches
  <2> QED BY <2>2
<1>5. ASSUME n < Len(log), n + 1 # req.rounding
      PROVE  n < Len(log') /\ n + 1 # req'.rounding
  BY <1>1, <1>5
<1>6. ASSUME NEW w \in Workers, wk'[w].pc \in {"check", "mark"} PROVE Matches(odoo', log', n + 1)
  <2>1. Mid(w) /\ Matches(odoo, log, n + 1)
    BY <1>6 DEF AtPlace, Mid
  <2>2. n < Len(log) /\ n + 1 # req.rounding
    BY <2>1, AtWork
  <2> QED BY <1>4, <2>1, <2>2
<1>7. ASSUME NEW w \in Workers, wk'[w].pc = "act" PROVE wk'[w].seen = OpenRows'
  BY <1>2, <1>7 DEF AtPlace
<1>8. \/ Matches(odoo', log', n)
      \/ n < Len(log') /\ n + 1 # req'.rounding /\ Matches(odoo', log', n + 1)
  BY <1>3, <1>4, <1>5 DEF AtPlace
<1> QED BY <1>6, <1>7, <1>8 DEF AtPlace

(* One worker looks: what it sees is what is open.                         *)
LEMMA PlaceLook ==
    ASSUME PunchInv, NEW n, Calm(n), AtPlace(n), NEW w \in Workers, Look(w)
    PROVE  AtPlace(n)'
<1>1. PICK r \in WorkerType :
              /\ wk' = [wk EXCEPT ![w] = r]
              /\ wk[w].pc = "look"
              /\ r.seen = IF Row(w).all THEN OpenRows ELSE CurrentAttendance
              /\ r.pc = IF r.seen = {} /\ Row(w).act \in Outs /\ ~Row(w).all
                        THEN "mark" ELSE "act"
  BY LookEffect
<1>2. UNCHANGED <<log, req, odoo>>
  BY DEF Look
<1>3. Mid(w) /\ Len(log) \in Nat
  BY <1>1, Typed DEF Mid
<1>4. /\ n \in 0..Len(log) /\ n \in Nat /\ n < Len(log) /\ n + 1 \in Ids /\ Row(w) = log[n + 1]
  BY <1>3, AtWork
<1>5. r.seen = OpenRows
  <2>1. CASE OpenRows = {}
    BY <1>1, <2>1, CurrentIsOpen
  <2>2. CASE OpenRows # {}
    <3>1. PICK a \in OpenRows : TRUE
      BY <2>2
    <3>2. OpenRows = {a}
      BY <3>1, OneOpenRow
    <3> QED BY <1>1, <3>1, <3>2, CurrentIsOpen
  <2> QED BY <2>1, <2>2
<1>6. ASSUME r.pc = "mark" PROVE Matches(odoo, log, n + 1)
  <2>1. OpenRows = {} /\ log[n + 1].act \in Outs
    BY <1>1, <1>4, <1>5, <1>6
  <2>2. ASSUME Matches(odoo, log, n) PROVE Matches(odoo, log, n + 1)
    <3>1. Described3(odoo, log, n)
      BY <1>4, OdooDescribed
    <3>2. \A a \in DOMAIN odoo : odoo[a].out # 0
      BY <2>1 DEF OpenRows
    <3> QED BY <1>4, <2>1, <2>2, <3>1, <3>2, OutCloses
  <2> QED BY <2>2 DEF AtPlace
<1>7. ASSUME NEW v \in Workers
      PROVE  /\ wk'[v].pc = "act" =>
                    (wk[v].pc = "act" /\ wk'[v].seen = wk[v].seen) \/ wk'[v].seen = OpenRows
             /\ wk'[v].pc \in {"check", "mark"} =>
                    \/ wk[v].pc \in {"check", "mark"}
                    \/ Mid(v) /\ Matches(odoo, log, n + 1)
  <2>1. wk'[v] = IF v = w THEN r ELSE wk[v]
    BY <1>1, Typed
  <2>2. CASE v = w
    <3>1. wk'[v] = r
      BY <2>1, <2>2
    <3>2. r.pc \in {"mark", "act"}
      BY <1>1
    <3> QED BY <1>3, <1>5, <1>6, <2>2, <3>1, <3>2
  <2> QED BY <2>1, <2>2
<1> QED BY <1>2, <1>3, <1>7, PlaceFrame

(* One worker starts a row, checks, or gives up with Odoo as it was.       *)
LEMMA PlaceOneWorker ==
    ASSUME PunchInv, NEW n, Calm(n), AtPlace(n), NEW w \in Workers, NEW r,
           wk' = [wk EXCEPT ![w] = r], UNCHANGED <<log, req, odoo>>,
           r.pc # "act", r.pc \in {"check", "mark"} => wk[w].pc \in {"check", "mark"}
    PROVE  AtPlace(n)'
<1>1. Len(log) \in Nat /\ \A v \in Workers : wk'[v] = IF v = w THEN r ELSE wk[v]
  BY Typed
<1>2. ASSUME NEW v \in Workers
      PROVE  /\ wk'[v].pc = "act" =>
                    (wk[v].pc = "act" /\ wk'[v].seen = wk[v].seen) \/ wk'[v].seen = OpenRows
             /\ wk'[v].pc \in {"check", "mark"} =>
                    \/ wk[v].pc \in {"check", "mark"}
                    \/ Mid(v) /\ Matches(odoo, log, n + 1)
  BY <1>1
<1> QED BY <1>1, <1>2, PlaceFrame

(* The write: punch n + 1 is in Odoo, and nobody else holds a row.         *)
LEMMA PlaceWrite ==
    ASSUME PunchInv, NEW n, Calm(n), AtPlace(n), NEW w \in Workers, Mid(w), NEW r,
           wk' = [wk EXCEPT ![w] = r], UNCHANGED <<log, req>>, r.pc # "act",
           \/ Matches(odoo', log, n + 1)
           \/ Matches(odoo', log, n) /\ r.pc \notin {"check", "mark"}
    PROVE  AtPlace(n)'
<1>1. n < Len(log) /\ n + 1 # req.rounding /\ \A v \in Workers : Mid(v) => v = w
  BY AtWork
<1>2. \A v \in Workers : wk'[v] = IF v = w THEN r ELSE wk[v]
  BY Typed
<1>3. ASSUME NEW v \in Workers
      PROVE  /\ wk'[v].pc # "act"
             /\ wk'[v].pc \in {"check", "mark"} => v = w
  BY <1>1, <1>2 DEF Mid
<1> QED BY <1>1, <1>2, <1>3 DEF AtPlace

(* _mark_synced: the place moves on.                                       *)
LEMMA PlaceMark ==
    ASSUME PunchInv, NEW n, Calm(n), AtPlace(n), NEW w \in Workers, MarkSynced(w)
    PROVE  AtPlace(n + 1)'
<1> DEFINE r == NextRow(w)
<1>1. /\ wk[w].pc = "mark" /\ wk' = [wk EXCEPT ![w] = r] /\ UNCHANGED <<req, odoo>>
      /\ \A p \in Ids : log'[p].act = log[p].act /\ log'[p].key = log[p].key /\ log'[p].wc = log[p].wc
  BY MarkEffect DEF MarkSynced
<1>2. Mid(w) /\ wk[w].pc # "idle"
  BY <1>1 DEF Mid
<1>3. r.pc \in {"idle", "start"}
  BY <1>2, NextRowFacts
<1>4. n \in Nat /\ n + 1 \in Ids /\ Ids = 1..Len(log) /\ Len(log) \in Nat
      /\ \A v \in Workers : Mid(v) => v = w
  BY <1>2, AtWork, Typed
<1>5. Matches(odoo, log, n + 1)
  BY <1>1 DEF AtPlace
<1>6. n + 1 \in Nat /\ \A p \in 1..(n + 1) : p \in Ids
  BY <1>4
<1>7. Matches(odoo, log', n + 1)
  BY <1>1, <1>5, <1>6, SamePunches
<1> HIDE DEF r
<1>8. \A v \in Workers : wk'[v] = IF v = w THEN r ELSE wk[v]
  BY <1>1, Typed
<1>9. \A v \in Workers : wk'[v].pc \notin {"act", "check", "mark"}
  BY <1>3, <1>4, <1>8 DEF Mid
<1> QED BY <1>1, <1>7, <1>9 DEF AtPlace

(* A call that fails: the write reached Odoo, or part of it, or not.       *)
LEMMA PlaceCallFails ==
    ASSUME PunchInv, NEW n, Calm(n), AtPlace(n), NEW w \in Workers, CallFails(w)
    PROVE  AtPlace(n)'
<1> DEFINE r == NextRow(w)
<1>1. /\ wk[w].pc # "idle" /\ Mid(w) /\ wk' = [wk EXCEPT ![w] = r] /\ UNCHANGED <<log, req>>
  BY DEF CallFails, Mid
<1>2. r.pc \in {"idle", "start"}
  BY <1>1, NextRowFacts
<1>3. Row(w) \in RowType /\ Cur(w).id \in Ids /\ Row(w) = log[Cur(w).id]
  BY <1>1, BatchFacts
<1>4. \/ odoo' = odoo
      \/ wk[w].pc = "act" /\ odoo' = Written(w)
      \/ wk[w].pc = "act" /\ Row(w).all /\ \E S \in SUBSET wk[w].seen : odoo' = Closed(w, S)
  BY DEF CallFails
<1> HIDE DEF r
<1>5. CASE odoo' = odoo
  BY <1>1, <1>2, <1>5, PlaceOneWorker
<1>6. CASE wk[w].pc = "act" /\ odoo' = Written(w)
  <2>1. Matches(odoo', log, n + 1)
    BY <1>6, WriteFollows
  <2> QED BY <1>1, <1>2, <2>1, PlaceWrite
<1>7. ASSUME wk[w].pc = "act", Row(w).all, NEW S \in SUBSET wk[w].seen, odoo' = Closed(w, S)
      PROVE  AtPlace(n)'
  <2>1. Row(w).act \in Outs
    BY <1>3, <1>7 DEF PunchInv, LogInv
  <2>2. Matches(odoo', log, n) \/ Matches(odoo', log, n + 1)
    BY <1>7, <2>1, PartFollows
  <2> QED BY <1>1, <1>2, <2>2, PlaceWrite
<1> QED BY <1>4, <1>5, <1>6, <1>7

(* The write itself.                                                       *)
LEMMA PlaceAct ==
    ASSUME PunchInv, NEW n, Calm(n), AtPlace(n), NEW w \in Workers, Act(w)
    PROVE  AtPlace(n)'
<1> DEFINE r == [wk[w] EXCEPT !.pc = IF Row(w).all THEN "check" ELSE "mark", !.res = ResultId(w)]
<1>1. /\ wk[w].pc = "act" /\ wk' = [wk EXCEPT ![w] = r] /\ UNCHANGED <<log, req>>
      /\ odoo' = Written(w)
  BY DEF Act
<1>2. r.pc # "act"
  BY Typed DEF WorkerType
<1>3. Mid(w) /\ Matches(odoo', log, n + 1)
  BY <1>1, WriteFollows DEF Mid
<1> HIDE DEF r
<1> QED BY <1>1, <1>2, <1>3, PlaceWrite

(* Starting a row and the check after closing.                             *)
LEMMA PlaceStartOrCheck ==
    ASSUME PunchInv, NEW n, Calm(n), AtPlace(n), NEW w \in Workers, Start(w) \/ CheckNoneOpen(w)
    PROVE  AtPlace(n)'
<1>1. UNCHANGED <<log, req, odoo>>
  BY DEF Start, CheckNoneOpen
<1>2. CASE Start(w)
  <2>1. PICK r \in WorkerType : wk' = [wk EXCEPT ![w] = r] /\ r.pc = "look"
    BY <1>2, StartEffect
  <2>2. r.pc # "act" /\ r.pc \notin {"check", "mark"}
    BY <2>1
  <2> QED BY <1>1, <2>1, <2>2, PlaceOneWorker
<1>3. CASE CheckNoneOpen(w)
  <2>1. /\ wk[w].pc = "check"
        /\ wk' = [wk EXCEPT ![w] = IF OpenRows = {} THEN [@ EXCEPT !.pc = "mark"] ELSE NextRow(w)]
    BY <1>3 DEF CheckNoneOpen
  <2>2. CASE OpenRows = {}
    <3> DEFINE r == [wk[w] EXCEPT !.pc = "mark"]
    <3>1. wk' = [wk EXCEPT ![w] = r]
      BY <2>1, <2>2
    <3>2. r.pc # "act"
      BY Typed DEF WorkerType
    <3> HIDE DEF r
    <3> QED BY <1>1, <2>1, <3>1, <3>2, PlaceOneWorker
  <2>3. CASE OpenRows # {}
    <3> DEFINE r == NextRow(w)
    <3>1. wk' = [wk EXCEPT ![w] = r]
      BY <2>1, <2>3
    <3>2. r.pc \in {"idle", "start"}
      BY <2>1, NextRowFacts
    <3> HIDE DEF r
    <3>3. r.pc # "act" /\ r.pc \notin {"check", "mark"}
      BY <3>2
    <3> QED BY <1>1, <3>1, <3>3, PlaceOneWorker
  <2> QED BY <2>2, <2>3
<1> QED BY <1>2, <1>3

(* Batches are taken.                                                      *)
LEMMA PlaceTake ==
    ASSUME PunchInv, NEW n, Calm(n), AtPlace(n),
           StartSweep \/ \E w \in Tasks : StartTask(w)
    PROVE  AtPlace(n)'
<1>1. UNCHANGED <<log, req, odoo>>
  BY DEF StartSweep, StartTask
<1>2. CASE StartSweep
  <2>1. PICK r \in WorkerType : wk' = [wk EXCEPT ![Sweep] = r] /\ r.pc = "start"
    BY <1>2, StartSweepEffect
  <2>2. r.pc # "act" /\ r.pc \notin {"check", "mark"} /\ Sweep \in Workers
    BY <2>1 DEF Workers
  <2> QED BY <1>1, <2>1, <2>2, PlaceOneWorker
<1>3. ASSUME NEW w \in Tasks, StartTask(w) PROVE AtPlace(n)'
  <2>1. PICK r \in WorkerType : wk' = [wk EXCEPT ![w] = r] /\ r.pc = "start"
    BY <1>3, StartTaskEffect
  <2>2. r.pc # "act" /\ r.pc \notin {"check", "mark"} /\ w \in Workers
    BY <2>1 DEF Workers
  <2> QED BY <1>1, <2>1, <2>2, PlaceOneWorker
<1> QED BY <1>2, <1>3

(* Requests, rounding, crashes, reads and the clock.                       *)
LEMMA PlaceOther ==
    ASSUME PunchInv, NEW n, Calm(n), AtPlace(n),
           \/ InsertSecond \/ RoundRow \/ Tick \/ Crash \/ FetchOpen \/ WriteOpenAttendance
           \/ GrowStale \/ UNCHANGED vars
           \/ \E acts \in Requests, live \in BOOLEAN : Punch(acts, live)
    PROVE  AtPlace(n)'
<1>1. Len(log) \in Nat /\ Len(log) <= Len(log) /\ odoo' = odoo
  <2>1. odoo' = odoo
    BY Zenon DEF InsertSecond, RoundRow, Tick, Crash, FetchOpen, WriteOpenAttendance, GrowStale,
                 vars, Punch
  <2> QED BY <2>1, Typed
<1>2. ASSUME NEW w \in Workers, wk' = wk \/ wk'[w] = Idle
      PROVE  /\ wk'[w].pc = "act" =>
                    (wk[w].pc = "act" /\ wk'[w].seen = wk[w].seen) \/ wk'[w].seen = OpenRows
             /\ wk'[w].pc \in {"check", "mark"} =>
                    \/ wk[w].pc \in {"check", "mark"}
                    \/ Mid(w) /\ Matches(odoo, log, n + 1)
  BY <1>2, IdleTyped
<1>3. ASSUME log' = log, req'.rounding \in {0, req.rounding},
             wk' = wk \/ \A w \in Workers : wk'[w] = Idle
      PROVE  AtPlace(n)'
  BY <1>1, <1>2, <1>3, PlaceFrame
<1>4. CASE Crash
  BY <1>3, <1>4 DEF Crash, NoRequest
<1>5. CASE Tick \/ FetchOpen \/ WriteOpenAttendance \/ GrowStale \/ UNCHANGED vars
  BY <1>3, <1>5 DEF Tick, FetchOpen, WriteOpenAttendance, GrowStale, vars
<1>6. CASE RoundRow
  <2>1. wk' = wk /\ req'.rounding \in {0, req.rounding}
    <3>1. req \in [todo : Seq(Ins \cup Outs), ids : Seq(Nat), rounding : {0, Len(log)}]
      BY DEF PunchInv, RequestInv
    <3>2. wk' = wk
      BY <1>6 DEF RoundRow
    <3> DEFINE ids == Append(req.ids, req.rounding)
    <3>3. req' = NoRequest \/ req' = [req EXCEPT !.ids = ids, !.rounding = 0]
      BY <1>6 DEF RoundRow
    <3> HIDE DEF ids
    <3>4. req' = NoRequest => req'.rounding = 0
      BY DEF NoRequest
    <3>5. req'.rounding = 0
      BY <3>1, <3>3, <3>4
    <3> QED BY <3>2, <3>5
  <2>2. Len(log') = Len(log) /\ \A p \in Ids : p # req.rounding => log'[p] = log[p]
    BY <1>6, RoundEffect
  <2> QED BY <1>1, <1>2, <2>1, <2>2, PlaceFrame
<1>7. ASSUME InsertSecond \/ \E acts \in Requests, live \in BOOLEAN : Punch(acts, live)
      PROVE  AtPlace(n)'
  <2>1. \E act \in Ins \cup Outs, live \in BOOLEAN : log' = OpenLogRow(act, live)
    <3>1. CASE InsertSecond
      <4>1. req.todo \in Seq(Ins \cup Outs) /\ req.todo # <<>>
        BY <3>1 DEF InsertSecond, PunchInv, RequestInv
      <4> QED BY <3>1, <4>1, FirstOf DEF InsertSecond
    <3>2. ASSUME NEW acts \in Requests, NEW live \in BOOLEAN, Punch(acts, live)
          PROVE  acts[1] \in Ins \cup Outs /\ log' = OpenLogRow(acts[1], live)
      BY <3>2 DEF Punch, Requests, Ins, Outs
    <3> QED BY <1>7, <3>1, <3>2
  <2>2. Len(log') = Len(log) + 1 /\ \A p \in Ids : log'[p] = log[p]
    BY <2>1, LogRow
  <2>3. wk' = wk
    BY <1>7 DEF InsertSecond, Punch
  <2>4. req'.rounding = Len(log) + 1
    <3>1. CASE InsertSecond
      BY <3>1 DEF InsertSecond, PunchInv, RequestInv
    <3>2. ASSUME NEW acts \in Requests, NEW live \in BOOLEAN, Punch(acts, live)
          PROVE  req'.rounding = Len(log) + 1
      BY <3>2 DEF Punch
    <3> QED BY <1>7, <3>1, <3>2
  <2>5. Len(log') \in Nat /\ Len(log) <= Len(log')
    BY <1>1, <2>2
  <2> QED BY <1>1, <1>2, <2>2, <2>3, <2>4, <2>5, PlaceFrame
<1> QED BY <1>4, <1>5, <1>6, <1>7

-----------------------------------------------------------------------------
(* The invariant of a calm day *)

(* Every step but the marking of a row keeps Odoo at its place.            *)
LEMMA PlaceStays ==
    ASSUME PunchInv, NEW n, Calm(n), AtPlace(n), [Next]_vars, ~EditOdoo,
           \A w \in Workers : ~MarkSynced(w)
    PROVE  AtPlace(n)'
<1>1. ASSUME NEW w \in Tasks, StartTask(w) PROVE AtPlace(n)'
  BY <1>1, PlaceTake
<1>2. CASE StartSweep
  BY <1>2, PlaceTake
<1>3. ASSUME NEW w \in Workers, Step(w) PROVE AtPlace(n)'
  <2>1. Start(w) \/ Look(w) \/ Act(w) \/ CheckNoneOpen(w)
    BY <1>3 DEF Step
  <2> QED BY <2>1, PlaceStartOrCheck, PlaceLook, PlaceAct
<1>4. ASSUME NEW w \in Workers, CallFails(w) PROVE AtPlace(n)'
  BY <1>4, PlaceCallFails
<1>5. ASSUME \/ InsertSecond \/ RoundRow \/ Tick \/ Crash \/ FetchOpen \/ WriteOpenAttendance
             \/ GrowStale \/ UNCHANGED vars
             \/ \E acts \in Requests, live \in BOOLEAN : Punch(acts, live)
      PROVE  AtPlace(n)'
  BY <1>5, PlaceOther
<1> QED BY <1>1, <1>2, <1>3, <1>4, <1>5 DEF Next

(* Only a hand in Odoo counts an edit, and none is forgotten.              *)
LEMMA EditsStay ==
    ASSUME PunchInv, [Next]_vars
    PROVE  /\ edits' = 0 => edits = 0
           /\ edits' = 0 => ~EditOdoo
<1>1. edits \in Nat
  BY BoundsAssumption DEF PunchInv, ClockInv
<1>2. EditOdoo => edits' = edits + 1
  BY DEF EditOdoo
<1>3. ~EditOdoo => edits' = edits
  BY DEF Next, Tick, Punch, InsertSecond, RoundRow, StartTask, StartSweep, Step,
         Start, Look, Act, CheckNoneOpen, MarkSynced, CallFails, Crash, FetchOpen,
         WriteOpenAttendance, GrowStale, vars
<1> QED BY <1>1, <1>2, <1>3

(* Nothing is in Odoo in the beginning.                                    *)
LEMMA OrderInit == Init => OrderInv
<1> SUFFICES ASSUME Init PROVE 0 \in 0..Len(log) /\ Calm(0) /\ AtPlace(0)
  BY DEF OrderInv
<1>1. Len(log) = 0 /\ odoo = <<>> /\ \A w \in Workers : wk[w] = Idle
  BY DEF Init
<1>2. ~crowded /\ CalmInv
  BY CalmInit DEF Init
<1>3. Calm(0)
  <2>1. PICK n \in 0..Len(log) : Calm(n)
    BY <1>2 DEF CalmInv
  <2>2. n = 0
    BY <1>1
  <2> QED BY <2>1, <2>2
<1>4. Matches(odoo, log, 0)
  BY <1>1 DEF Matches
<1>5. \A w \in Workers : wk[w].pc = "idle"
  BY <1>1, IdleTyped
<1> QED BY <1>1, <1>3, <1>4, <1>5 DEF AtPlace

(* Odoo stays with the punches.                                            *)
LEMMA OrderStep == PunchInv /\ OrderInv /\ [Next]_vars => OrderInv'
<1> SUFFICES ASSUME PunchInv, OrderInv, [Next]_vars, ~crowded'
             PROVE  \E n \in 0..Len(log') : Calm(n)' /\ (edits' = 0 => AtPlace(n)')
  BY DEF OrderInv
<1>1. PICK n \in 0..Len(log) : Calm(n) /\ (edits = 0 => AtPlace(n))
  BY CrowdedStays DEF OrderInv
<1>2. CASE \A w \in Workers : ~MarkSynced(w)
  <2>1. n \in 0..Len(log') /\ Calm(n)'
    BY <1>1, <1>2, CalmStays
  <2>2. edits' = 0 => AtPlace(n)'
    BY <1>1, <1>2, EditsStay, PlaceStays
  <2> QED BY <2>1, <2>2
<1>3. ASSUME NEW w \in Workers, MarkSynced(w)
      PROVE  \E m \in 0..Len(log') : Calm(m)' /\ (edits' = 0 => AtPlace(m)')
  <2>1. Calm(n + 1)' /\ n + 1 \in 0..Len(log')
    BY <1>1, <1>3, CalmMark, MarkEffect
  <2>2. edits' = 0 => AtPlace(n + 1)'
    BY <1>1, <1>3, EditsStay, PlaceMark
  <2> QED BY <2>1, <2>2
<1> QED BY <1>2, <1>3

(* What was read tells the side of the last punch until there is another.  *)
LEMMA ReadFrame ==
    ASSUME PunchInv, Len(log') \in {Len(log), Len(log) + 1}, Ids' = 1..Len(log'),
           Len(log') = Len(log) => \A p \in Ids : log'[p].act = log[p].act,
           NEW saw, NEW open, saw \subseteq Ids, Tells(saw, open)
    PROVE  Tells(saw, open)'
<1>1. Len(log) \in Nat /\ Ids = 1..Len(log)
  BY Typed
<1>2. CASE Len(log') = Len(log) + 1
  <2>1. Len(log) + 1 \in Ids' /\ Len(log) + 1 \notin saw
    BY <1>1, <1>2
  <2> QED BY <2>1 DEF Tells
<1>3. CASE Len(log') = Len(log)
  <2>1. Ids' = Ids
    BY <1>1, <1>3
  <2>2. Ids # {} => Len(log) \in Ids
    BY <1>1
  <2>3. LastIsIn' <=> LastIsIn
    BY <1>3, <2>1, <2>2 DEF LastIsIn
  <2>4. LastIsIn' = LastIsIn
    BY <2>3 DEF LastIsIn
  <2> QED BY <2>1, <2>4 DEF Tells
<1> QED BY <1>2, <1>3

(* How the punch log may change.                                           *)
LEMMA LogMoves ==
    ASSUME PunchInv, [Next]_vars
    PROVE  /\ Len(log') \in {Len(log), Len(log) + 1} /\ Ids' = 1..Len(log')
           /\ Len(log') = Len(log) => \A p \in Ids : log'[p].act = log[p].act
<1>1. PunchInv' /\ Len(log) \in Nat
  BY Typed, StepTyped
<1>2. Ids' = 1..Len(log')
  BY <1>1 DEF PunchInv, LogInv, Ids
<1>3. ASSUME log' = log
      PROVE  Len(log') = Len(log) /\ \A p \in Ids : log'[p].act = log[p].act
  BY <1>3
<1>4. ASSUME InsertSecond \/ \E acts \in Requests, live \in BOOLEAN : Punch(acts, live)
      PROVE  Len(log') = Len(log) + 1
  <2>1. \E act \in Ins \cup Outs, live \in BOOLEAN : log' = OpenLogRow(act, live)
    <3>1. CASE InsertSecond
      <4>1. req.todo \in Seq(Ins \cup Outs) /\ req.todo # <<>>
        BY <3>1 DEF InsertSecond, PunchInv, RequestInv
      <4> QED BY <3>1, <4>1, FirstOf DEF InsertSecond
    <3>2. ASSUME NEW acts \in Requests, NEW live \in BOOLEAN, Punch(acts, live)
          PROVE  acts[1] \in Ins \cup Outs /\ log' = OpenLogRow(acts[1], live)
      BY <3>2 DEF Punch, Requests, Ins, Outs
    <3> QED BY <1>4, <3>1, <3>2
  <2> QED BY <2>1, LogRow
<1>5. CASE RoundRow
  BY <1>2, <1>5, RoundEffect
<1>6. ASSUME NEW w \in Workers, MarkSynced(w)
      PROVE  Len(log') = Len(log) /\ \A p \in Ids : log'[p].act = log[p].act
  BY <1>6, MarkEffect
<1>7. ASSUME NEW w \in Workers, Start(w) \/ Look(w) \/ Act(w) \/ CheckNoneOpen(w) \/ CallFails(w)
      PROVE  log' = log
  BY <1>7 DEF Start, Look, Act, CheckNoneOpen, CallFails
<1>8. ASSUME Tick \/ StartSweep \/ Crash \/ FetchOpen \/ WriteOpenAttendance \/ GrowStale \/ EditOdoo
                \/ UNCHANGED vars \/ \E w \in Tasks : StartTask(w)
      PROVE  log' = log
  BY <1>8 DEF Tick, StartSweep, Crash, FetchOpen, WriteOpenAttendance, GrowStale, EditOdoo, vars,
              StartTask
<1>9. Len(log') = Len(log) + 1 => Len(log') # Len(log)
  BY <1>1
<1> QED BY <1>1, <1>2, <1>3, <1>4, <1>5, <1>6, <1>7, <1>8, <1>9 DEF Next, Step

(* A read of Odoo: with all punches synced, a row is open exactly when the
   last punch is an in-punch.                                              *)
LEMMA FetchTells ==
    ASSUME PunchInv, NEW n, Calm(n), AtPlace(n)
    PROVE  Tells(Ids \ Unsynced, OpenRows # {})
<1>1. /\ n \in 0..Len(log) /\ Len(log) \in Nat /\ n \in Nat /\ Ids = 1..Len(log)
      /\ \A p \in Ids : log[p].synced <=> p <= n
  BY Typed DEF Calm, SyncedUpTo
<1>2. Ids \ Unsynced = 1..n
  BY <1>1 DEF Unsynced
<1>3. \A p \in 1..n : 1..p \subseteq 1..n
  BY <1>1
<1>4. ASSUME Ids \subseteq 1..n PROVE (OpenRows # {}) = LastIsIn
  <2>1. n = Len(log)
    <3>1. n # Len(log) => n + 1 \in Ids
      BY <1>1
    <3>2. n + 1 \notin 1..n
      BY <1>1
    <3> QED BY <1>4, <3>1, <3>2
  <2>2. Matches(odoo, log, n) /\ Described3(odoo, log, n)
    BY <1>1, <2>1, OdooDescribed DEF AtPlace
  <2>3. ASSUME OpenRows # {} PROVE LastIsIn
    <3>1. PICK a \in DOMAIN odoo : odoo[a].out = 0
      BY <2>3 DEF OpenRows
    <3>2. n > 0 /\ log[n].act \in Ins
      BY <2>2, <3>1, OpenReaches
    <3>3. n \in Ids
      BY <1>1, <3>2
    <3> QED BY <2>1, <3>2, <3>3 DEF LastIsIn
  <2>4. ASSUME LastIsIn PROVE OpenRows # {}
    <3>1. Ids # {} /\ log[n].act \in Ins
      BY <2>1, <2>4 DEF LastIsIn
    <3>2. n > 0
      BY <1>1, <2>1, <3>1
    <3>3. \E a \in DOMAIN odoo : odoo[a].out = 0
      BY <2>2, <3>1, <3>2 DEF Matches
    <3> QED BY <3>3 DEF OpenRows
  <2>5. (OpenRows # {}) <=> LastIsIn
    BY <2>3, <2>4
  <2> QED BY <2>5 DEF LastIsIn
<1> QED BY <1>2, <1>3, <1>4 DEF Tells

(* What was read and stored keeps telling the truth.                       *)
LEMMA ReadStep == PunchInv /\ OrderInv /\ ReadInv /\ [Next]_vars => ReadInv'
<1> SUFFICES ASSUME PunchInv, OrderInv, ReadInv, [Next]_vars, ~crowded', edits' = 0
             PROVE  /\ fetch'.busy => Tells(fetch.saw, fetch.open)'
                    /\ snap'.state = "fresh" => Tells(snap.saw, snap.open)'
  BY DEF ReadInv
<1>1. ~crowded /\ edits = 0
  BY CrowdedStays, EditsStay
<1>2. /\ fetch.busy => Tells(fetch.saw, fetch.open)
      /\ snap.state = "fresh" => Tells(snap.saw, snap.open)
  BY <1>1 DEF ReadInv
<1>3. /\ snap \in [state : {"missing", "fresh", "stale"}, open : BOOLEAN,
                  after : SUBSET Nat, saw : SUBSET Nat]
      /\ fetch \in [busy : BOOLEAN, open : BOOLEAN, saw : SUBSET Nat]
      /\ snap.saw \subseteq Ids /\ fetch.saw \subseteq Ids
  BY DEF PunchInv, SnapInv
<1>4. PICK n \in 0..Len(log) : Calm(n) /\ AtPlace(n)
  BY <1>1 DEF OrderInv
<1>5. ASSUME NEW saw, NEW open, saw \subseteq Ids, Tells(saw, open)
      PROVE  Tells(saw, open)'
  BY <1>5, LogMoves, ReadFrame
<1>6. PICK fsaw, fopen, ssaw, sopen : /\ fsaw = fetch.saw /\ fopen = fetch.open
                                      /\ ssaw = snap.saw /\ sopen = snap.open
  OBVIOUS
<1>7. /\ fetch.busy => Tells(fsaw, fopen)'
      /\ snap.state = "fresh" => Tells(ssaw, sopen)'
  BY <1>2, <1>3, <1>5, <1>6
<1>8. ASSUME FetchOpen PROVE fetch'.busy => Tells(fetch.saw, fetch.open)'
  <2>1. PICK saw, open : saw = Ids \ Unsynced /\ open = (OpenRows # {})
    OBVIOUS
  <2>2. Tells(saw, open)
    BY <1>4, <2>1, FetchTells
  <2>3. saw \subseteq Ids
    BY <2>1
  <2>4. Tells(saw, open)'
    BY <1>5, <2>2, <2>3
  <2>5. fetch' = [busy |-> TRUE, open |-> open, saw |-> saw]
    BY <1>8, <2>1 DEF FetchOpen
  <2>6. fetch'.saw = saw /\ fetch'.open = open
    BY <2>5
  <2> QED BY <2>4, <2>6 DEF Tells
<1>9. ASSUME fetch' = fetch PROVE fetch'.busy => Tells(fetch.saw, fetch.open)'
  BY <1>6, <1>7, <1>9 DEF Tells
<1>10. ASSUME fetch' = NoFetch PROVE ~fetch'.busy
  BY <1>10 DEF NoFetch
<1>11. ASSUME WriteOpenAttendance
       PROVE  snap'.state = "fresh" => Tells(snap.saw, snap.open)'
  <2>1. fetch.busy /\ snap'.saw = fsaw /\ snap'.open = fopen
    BY <1>6, <1>11 DEF WriteOpenAttendance
  <2> QED BY <1>7, <2>1 DEF Tells
<1>12. ASSUME snap'.saw = snap.saw, snap'.open = snap.open, snap'.state = "fresh" => snap.state = "fresh"
       PROVE  snap'.state = "fresh" => Tells(snap.saw, snap.open)'
  BY <1>6, <1>7, <1>12 DEF Tells
<1>13. ASSUME GrowStale \/ \E w \in Workers : MarkSynced(w)
       PROVE  /\ snap'.saw = snap.saw /\ snap'.open = snap.open
              /\ snap'.state = "fresh" => snap.state = "fresh"
  BY <1>3, <1>13 DEF GrowStale, MarkSynced
<1>14. fetch' = fetch \/ fetch' = NoFetch \/ FetchOpen
  BY DEF Next, Tick, Punch, InsertSecond, RoundRow, StartTask, StartSweep, Step,
         Start, Look, Act, CheckNoneOpen, MarkSynced, CallFails, Crash,
         WriteOpenAttendance, GrowStale, EditOdoo, vars
<1>15. snap' = snap \/ WriteOpenAttendance \/ GrowStale \/ \E w \in Workers : MarkSynced(w)
  BY DEF Next, Tick, Punch, InsertSecond, RoundRow, StartTask, StartSweep, Step,
         Start, Look, Act, CheckNoneOpen, CallFails, Crash, FetchOpen, EditOdoo, vars
<1> QED BY <1>8, <1>9, <1>10, <1>11, <1>12, <1>13, <1>14, <1>15

(* Before anybody read anything there is nothing to mislead.               *)
LEMMA ReadInit == Init => ReadInv
BY DEF Init, ReadInv, NoFetch

(* The inductive invariant: as long as punches are worked on one at a time
   and in order, the punches 1..n are synced, Odoo holds what they describe
   (or the next one as well), and what was read of it says so.             *)
THEOREM SyncInvariant == Spec => []SyncInv
<1>1. Init => SyncInv
  BY InitTyped, OrderInit, ReadInit DEF SyncInv
<1>2. SyncInv /\ [Next]_vars => SyncInv'
  BY StepTyped, OrderStep, ReadStep DEF SyncInv
<1> QED BY <1>1, <1>2, PTL DEF Spec

-----------------------------------------------------------------------------
(* What is promised *)

(* The order of the log without rounding across punches.                   *)
LEMMA LatestIsLast ==
    ASSUME PunchInv, ~RoundingMisleads, Ids # {}
    PROVE  Latest = Len(log) /\ Len(log) \in Ids
<1>1. Ids = 1..Len(log) /\ Len(log) \in Nat /\ Len(log) \in Ids
  BY Typed
<1>2. \A p \in Ids : log[p].key \in Nat
  BY Typed, StampFacts DEF RowType
<1>3. ASSUME NEW q \in Ids PROVE q = Len(log) \/ Before(q, Len(log))
  <2>1. q = Len(log) \/ q < Len(log)
    BY <1>1
  <2>2. CASE q < Len(log)
    <3>1. ~Before(Len(log), q)
      BY <1>1, <2>2 DEF RoundingMisleads
    <3>2. log[q].key \in Nat /\ log[Len(log)].key \in Nat
      BY <1>1, <1>2
    <3>3. log[q].key <= log[Len(log)].key
      BY <3>1, <3>2 DEF Before
    <3> QED BY <2>2, <3>2, <3>3 DEF Before
  <2> QED BY <2>1, <2>2
<1>4. ASSUME NEW p \in Ids, \A q \in Ids : q = p \/ Before(q, p) PROVE p = Len(log)
  <2>1. Len(log) = p \/ Before(Len(log), p)
    BY <1>1, <1>4
  <2>2. p = Len(log) \/ p < Len(log)
    BY <1>1
  <2> QED BY <1>1, <2>1, <2>2 DEF RoundingMisleads
<1>5. Latest \in Ids /\ \A q \in Ids : q = Latest \/ Before(q, Latest)
  BY <1>1, <1>3 DEF Latest
<1> QED BY <1>1, <1>4, <1>5

(* The kiosk shows the side of the last punch, from the log or from the
   snapshot (current_state, trust_local), as long as nobody edits Odoo,
   punches are worked on in order, no punch was synced between the reading
   and the storing of the snapshot, and rounding reorders nothing.         *)
THEOREM KioskIsRight == Spec => []KioskShowsLastPunch
<1>1. SyncInv => KioskShowsLastPunch
  <2> SUFFICES ASSUME SyncInv, ~crowded, edits = 0, ~SnapshotMisleads, ~RoundingMisleads
               PROVE  CurrentState = LastIsIn
    BY DEF KioskShowsLastPunch
  <2>1. PunchInv
    BY DEF SyncInv
  <2>2. Ids = 1..Len(log) /\ Len(log) \in Nat
    BY <2>1, Typed
  <2>3. StateFromLog = LastIsIn
    BY <2>1, LatestIsLast DEF StateFromLog, LastIsIn
  <2>4. ASSUME snap.state = "fresh", ~TrustLocal PROVE snap.open = LastIsIn
    <3>1. Tells(snap.saw, snap.open) /\ snap.after \subseteq snap.saw
      BY <2>4 DEF SyncInv, ReadInv, SnapshotMisleads
    <3>2. CASE Ids = {}
      BY <3>1, <3>2 DEF Tells
    <3>3. CASE Ids # {}
      <4>1. Len(log) \in snap.saw
        BY <2>1, <2>4, <3>1, <3>3, LatestIsLast DEF TrustLocal
      <4> QED BY <2>2, <3>1, <4>1 DEF Tells
    <3> QED BY <3>2, <3>3
  <2> QED BY <2>3, <2>4 DEF CurrentState
<1> QED BY <1>1, SyncInvariant, PTL

(* A row that matches all punches is the described one.                    *)
LEMMA RowIsDescribed ==
    ASSUME PunchInv, NEW a \in DOMAIN odoo, RowMatches(odoo[a], log, Len(log))
    PROVE  /\ odoo[a].by \in Ids /\ Opens(odoo[a].by)
           /\ [in |-> odoo[a].in, out |-> odoo[a].out, wc |-> odoo[a].wc] = Described(odoo[a].by)
<1> DEFINE p == odoo[a].by
           m == Len(log)
<1>1. m \in Nat /\ Ids = 1..m
  BY Typed
<1>2. p \in 1..m /\ p \in Nat /\ Begins(log, p) /\ odoo[a].in = log[p].key
  BY DEF RowMatches
<1>3. Ins \cap Outs = {}
  BY DEF Ins, Outs
<1> HIDE DEF p, m
<1>4. p \in Ids /\ Opens(p)
  BY <1>1, <1>2 DEF Opens, Begins
<1>5. ASSUME NEW k \in Nat, Until(p) = k, Labelled(odoo[a], log, k) PROVE odoo[a].wc = LabelOf(p)
  <2> DEFINE named == {r \in p..k : log[r].wc # None}
  <2>1. LabelOf(p) = IF named = {} THEN None
                     ELSE log[CHOOSE r \in named : \A s \in named : s <= r].wc
    BY <1>5 DEF LabelOf
  <2>2. CASE odoo[a].wc = None /\ \A q \in p..k : log[q].wc = None
    BY <2>1, <2>2
  <2>3. CASE odoo[a].wc # None
    <3>1. PICK q \in p..k : log[q].wc = odoo[a].wc /\ \A s \in (q + 1)..k : log[s].wc = None
      BY <1>5, <2>3 DEF Labelled, p
    <3>2. q \in named
      BY <2>3, <3>1
    <3>3. \A s \in named : s <= q
      <4> SUFFICES ASSUME NEW s \in named, ~(s <= q) PROVE FALSE
        OBVIOUS
      <4>1. s \in (q + 1)..k /\ log[s].wc # None
        BY <1>2, <1>5, <3>1
      <4> QED BY <3>1, <4>1
    <3>4. \A r \in named : (\A s \in named : s <= r) => r = q
      <4>1. \A r \in named : r \in Int /\ q \in Int
        BY <1>2
      <4> QED BY <3>2, <3>3, <4>1
    <3>5. (CHOOSE r \in named : \A s \in named : s <= r) = q
      BY <3>2, <3>3, <3>4
    <3> QED BY <2>1, <3>1, <3>2, <3>5
  <2> QED BY <1>5, <2>2, <2>3 DEF Labelled, p
<1>6. CASE StillOpen(odoo[a], log, m)
  <2>1. \A q \in p..m : log[q].act \in Ins
    BY <1>6 DEF StillOpen, p
  <2>2. EndOf(p) = {}
    <3> SUFFICES ASSUME NEW q \in EndOf(p) PROVE FALSE
      OBVIOUS
    <3>1. q \in p..m /\ log[q].act \in Outs
      BY <1>1, <1>2 DEF EndOf
    <3> QED BY <1>3, <2>1, <3>1
  <2>3. Until(p) = m /\ m \in Nat /\ Labelled(odoo[a], log, m)
    BY <1>1, <1>6, <2>2 DEF Until, m, StillOpen
  <2>4. odoo[a].wc = LabelOf(p)
    BY <1>5, <2>3
  <2>5. odoo[a].out = 0
    BY <1>6 DEF StillOpen
  <2>6. [in |-> odoo[a].in, out |-> odoo[a].out, wc |-> odoo[a].wc] = Described(p)
    BY <1>2, <2>2, <2>4, <2>5 DEF Described
  <2> QED BY <1>4, <2>6 DEF p
<1>7. CASE Ended(odoo[a], log, m)
  <2> DEFINE c == odoo[a].closer
  <2>1. /\ c \in (p + 1)..m /\ odoo[a].out = log[c].key /\ log[c].act \in Outs
        /\ \A q \in p..(c - 1) : log[q].act \in Ins
        /\ Labelled(odoo[a], log, c - 1)
    BY <1>7 DEF Ended, p
  <2> HIDE DEF c
  <2>2. c \in Nat /\ c > p /\ c \in Ids /\ c - 1 \in Nat
    BY <1>1, <1>2, <2>1
  <2>3. c \in EndOf(p)
    BY <2>1, <2>2 DEF EndOf
  <2>4. ASSUME NEW q \in EndOf(p) PROVE q = c
    <3>1. q \in Ids /\ q \in Nat /\ q > p /\ log[q].act \in Outs /\ \A r \in p..(q - 1) : log[r].act \in Ins
      BY <1>1 DEF EndOf
    <3>2. CASE q < c
      <4>1. q \in p..(c - 1)
        BY <1>2, <2>2, <3>1, <3>2
      <4> QED BY <1>3, <2>1, <3>1, <4>1
    <3>3. CASE c < q
      <4>1. c \in p..(q - 1)
        BY <1>2, <2>2, <3>1, <3>3
      <4> QED BY <1>3, <2>1, <3>1, <4>1
    <3> QED BY <2>2, <3>1, <3>2, <3>3
  <2>5. EndOf(p) # {} /\ (CHOOSE q \in EndOf(p) : TRUE) = c
    BY <2>3, <2>4
  <2>6. Until(p) = c - 1
    BY <2>5 DEF Until
  <2>7. odoo[a].wc = LabelOf(p)
    BY <1>5, <2>1, <2>2, <2>6
  <2>8. [in |-> odoo[a].in, out |-> odoo[a].out, wc |-> odoo[a].wc] = Described(p)
    BY <1>2, <2>1, <2>5, <2>7 DEF Described
  <2> QED BY <1>4, <2>8 DEF p
<1> QED BY <1>6, <1>7 DEF RowMatches, m

(* When all is settled every punch counts.                                 *)
LEMMA AllCount ==
    ASSUME SyncInv, Settled, ~crowded, edits = 0
    PROVE  Matches(odoo, log, Len(log))
<1>1. PunchInv
  BY DEF SyncInv
<1>2. PICK n \in 0..Len(log) : Calm(n) /\ AtPlace(n)
  BY DEF SyncInv, OrderInv
<1>3. Ids = 1..Len(log) /\ Len(log) \in Nat
  BY <1>1, Typed
<1>4. n = Len(log)
  <2>1. n # Len(log) => n + 1 \in Ids /\ ~(n + 1 <= n)
    BY <1>3
  <2>2. \A p \in Ids : log[p].synced <=> p <= n
    BY <1>2 DEF Calm, SyncedUpTo
  <2>3. \A p \in Ids : log[p].synced
    BY DEF Settled, Unsynced
  <2> QED BY <2>1, <2>2, <2>3
<1>5. ~(n < Len(log))
  BY <1>3, <1>4
<1> QED BY <1>2, <1>4, <1>5 DEF AtPlace

(* When all punches are synced Odoo holds exactly the attendances that they
   describe, one row each, whatever calls failed or crashed on the way -
   as long as punches were worked on one at a time, in order and after
   their rounding, and nobody edited Odoo (retry_unsynced_punches and
   _retry_one).                                                            *)
THEOREM AttendancesAreRight == Spec => []AttendancesFollow
<1>1. SyncInv => AttendancesFollow
  <2> SUFFICES ASSUME SyncInv PROVE TypeOK /\ OdooFollowsPunches
    BY DEF AttendancesFollow
  <2>1. PunchInv /\ TypeOK
    BY TypesOfInvariant DEF SyncInv
  <2>2. ASSUME Settled, ~crowded, edits = 0
        PROVE  InOdoo = Ledger /\ Cardinality(Ledger) = Len(odoo)
    <3> DEFINE row(a) == [id |-> odoo[a].by,
                          row |-> [in |-> odoo[a].in, out |-> odoo[a].out, wc |-> odoo[a].wc]]
    <3>1. Matches(odoo, log, Len(log)) /\ Ids = 1..Len(log)
      BY <2>1, <2>2, AllCount, Typed
    <3>2. ASSUME NEW a \in DOMAIN odoo
          PROVE  /\ odoo[a].by \in Ids /\ Opens(odoo[a].by)
                 /\ row(a) = [id |-> odoo[a].by, row |-> Described(odoo[a].by)]
      <4>1. RowMatches(odoo[a], log, Len(log))
        BY <3>1 DEF Matches
      <4> QED BY <2>1, <4>1, RowIsDescribed
    <3>3. ASSUME NEW p \in Ids, Opens(p)
          PROVE  \E a \in DOMAIN odoo : odoo[a].by = p
      <4>1. Begins(log, p)
        BY <3>3 DEF Opens, Begins
      <4> QED BY <3>1, <4>1 DEF Matches
    <3>4. InOdoo = {row(a) : a \in DOMAIN odoo}
      BY DEF InOdoo
    <3>5. InOdoo \subseteq Ledger
      BY <3>2, <3>4 DEF Ledger
    <3>6. Ledger \subseteq InOdoo
      <4> SUFFICES ASSUME NEW p \in Ids, Opens(p)
                   PROVE  [id |-> p, row |-> Described(p)] \in InOdoo
        BY DEF Ledger
      <4>1. PICK a \in DOMAIN odoo : odoo[a].by = p
        BY <3>3
      <4> QED BY <3>2, <3>4, <4>1
    <3>7. Cardinality(Ledger) = Len(odoo)
      <4> DEFINE f == [a \in DOMAIN odoo |-> row(a)]
      <4>1. DOMAIN odoo = 1..Len(odoo) /\ Len(odoo) \in Nat
        BY <2>1, Typed
      <4>2. f \in Surjection(DOMAIN odoo, Ledger)
        <5>1. f \in [DOMAIN odoo -> Ledger]
          BY <3>4, <3>5
        <5>2. \A t \in Ledger : \E a \in DOMAIN odoo : f[a] = t
          BY <3>4, <3>6
        <5> QED BY <5>1, <5>2 DEF Surjection
      <4>3. f \in Injection(DOMAIN odoo, Ledger)
        <5>1. f \in [DOMAIN odoo -> Ledger]
          BY <3>4, <3>5
        <5>2. ASSUME NEW a \in DOMAIN odoo, NEW b \in DOMAIN odoo, f[a] = f[b] PROVE a = b
          <6>1. odoo[a].by = odoo[b].by
            BY <5>2
          <6>2. ~(a < b) /\ ~(b < a)
            <7>1. odoo[a].by \in Nat /\ odoo[b].by \in Nat
              BY <2>1, Typed DEF AttendanceType
            <7> QED BY <3>1, <6>1, <7>1 DEF Matches
          <6> QED BY <4>1, <6>2
        <5> QED BY <5>1, <5>2 DEF Injection, IsInjective
      <4>4. ExistsBijection(1..Len(odoo), Ledger)
        BY <4>1, <4>2, <4>3 DEF ExistsBijection, Bijection
      <4> QED BY <4>1, <4>4, FS_CountingElements
    <3> QED BY <3>5, <3>6, <3>7
  <2> QED BY <2>1, <2>2 DEF OdooFollowsPunches
<1> QED BY <1>1, SyncInvariant, PTL

=============================================================================
