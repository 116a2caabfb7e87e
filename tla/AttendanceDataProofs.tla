------------------------ MODULE AttendanceDataProofs ------------------------
(***************************************************************************)
(* Theorems about the two components that carry Odoo's attendances to the  *)
(* production of a day, for every value of the constants.                  *)
(*                                                                         *)
(* RecalcQueue: a completed day was computed from its attendance as it is  *)
(* now, exactly the unfinished days wait, a ready day is on the pages, and *)
(* the queue implements the ledger of days.                                *)
(*                                                                         *)
(* AttendanceMirror: the copies of the rows become Odoo's, a tombstone is  *)
(* true and is removed only by a newer reading, and a day that is not      *)
(* queued was computed from the copies.                                    *)
(***************************************************************************)
EXTENDS RecalcQueue, AttendanceMirror, SequenceTheorems, WellFoundedInduction, NaturalsInduction,
        TLAPS

(***************************************************************************)
(* THE QUEUE OF DAYS                                                       *)
(***************************************************************************)
(***************************************************************************)
(* The order of the waiting days                                           *)
(***************************************************************************)
Listed(o, d) == \E i \in DOMAIN o : o[i] = d
NoRepeat(o) == \A i, j \in DOMAIN o : o[i] = o[j] => i = j

(* The part of a sequence behind its first k elements. *)
LEMMA BehindIsSeq ==
    ASSUME NEW o \in Seq(Days), NEW k \in Nat, k <= Len(o)
    PROVE  /\ SubSeq(o, k + 1, Len(o)) \in Seq(Days)
           /\ Len(SubSeq(o, k + 1, Len(o))) = Len(o) - k
           /\ \A j \in 1..(Len(o) - k) : SubSeq(o, k + 1, Len(o))[j] = o[k + j]
<1> DEFINE n == Len(o)
           m == k + 1
<1>1. n \in Nat /\ m \in Int /\ n \in Int /\ k <= n
  BY LenProperties
<1>2. \A j \in m..n : o[j] \in Days
  BY <1>1, ElementOfSeq
<1> HIDE DEF n, m
<1>3. /\ SubSeq(o, m, n) \in Seq(Days)
      /\ Len(SubSeq(o, m, n)) = IF m <= n THEN n - m + 1 ELSE 0
      /\ \A j \in 1..(n - m + 1) : SubSeq(o, m, n)[j] = o[m + j - 1]
  BY <1>1, <1>2, SubSeqProperties
<1> USE DEF m
<1>4. Len(SubSeq(o, m, n)) = n - k
  BY <1>1, <1>3
<1>5. \A j \in 1..(n - k) : SubSeq(o, m, n)[j] = o[k + j]
  <2>1. n - m + 1 = n - k /\ \A j \in 1..(n - k) : m + j - 1 = k + j
    BY <1>1
  <2> QED BY <2>1, <1>3
<1> QED BY <1>3, <1>4, <1>5 DEF n

(* Two parts, one after the other. *)
LEMMA Joined ==
    ASSUME NEW a \in Seq(Days), NEW b \in Seq(Days)
    PROVE  /\ a \o b \in Seq(Days)
           /\ Len(a \o b) = Len(a) + Len(b)
           /\ \A j \in 1..Len(a) : (a \o b)[j] = a[j]
           /\ \A j \in 1..Len(b) : (a \o b)[Len(a) + j] = b[j]
<1> DEFINE m == Len(a)
           n == Len(b)
<1>1. m \in Nat /\ n \in Nat
  BY LenProperties
<1>2. /\ a \o b \in Seq(Days)
      /\ Len(a \o b) = m + n
      /\ \A j \in 1..(m + n) : (a \o b)[j] = IF j <= m THEN a[j] ELSE b[j - m]
  BY ConcatProperties
<1> HIDE DEF m, n
<1>3. \A j \in 1..m : (a \o b)[j] = a[j]
  BY <1>1, <1>2
<1>4. ASSUME NEW j \in 1..n PROVE (a \o b)[m + j] = b[j]
  <2>1. m + j \in 1..(m + n) /\ ~(m + j <= m) /\ (m + j) - m = j
    BY <1>1
  <2> QED BY <2>1, <1>2
<1> QED BY <1>2, <1>3, <1>4 DEF m, n

(* A day that was not waiting is appended. *)
LEMMA AppendListed ==
    ASSUME NEW o \in Seq(Days), NEW d \in Days
    PROVE  /\ Append(o, d) \in Seq(Days)
           /\ \A e : Listed(Append(o, d), e) <=> Listed(o, e) \/ e = d
           /\ NoRepeat(o) /\ ~Listed(o, d) => NoRepeat(Append(o, d))
<1>1. /\ Append(o, d) \in Seq(Days)
      /\ DOMAIN Append(o, d) = 1..(Len(o) + 1) /\ DOMAIN o = 1..Len(o) /\ Len(o) \in Nat
      /\ \A i \in 1..Len(o) : Append(o, d)[i] = o[i]
      /\ Append(o, d)[Len(o) + 1] = d
  BY AppendProperties, LenProperties
<1>2. \A e : Listed(Append(o, d), e) <=> Listed(o, e) \/ e = d
  BY <1>1 DEF Listed
<1>3. NoRepeat(o) /\ ~Listed(o, d) => NoRepeat(Append(o, d))
  BY <1>1 DEF Listed, NoRepeat
<1> QED BY <1>1, <1>2, <1>3

(* A day that was not waiting is put in its old place. *)
LEMMA WithListed ==
    ASSUME NEW o \in Seq(Days), NEW d \in Days, NEW i \in 0..Len(o)
    PROVE  /\ With(o, i, d) \in Seq(Days)
           /\ \A e : Listed(With(o, i, d), e) <=> Listed(o, e) \/ e = d
           /\ NoRepeat(o) /\ ~Listed(o, d) => NoRepeat(With(o, i, d))
<1> DEFINE a == SubSeq(o, 1, i)
           b == SubSeq(o, i + 1, Len(o))
           c == <<d>>
<1>1. /\ Len(o) \in Nat /\ DOMAIN o = 1..Len(o) /\ i \in Nat /\ i <= Len(o)
      /\ \A j \in 1..Len(o) : o[j] \in Days
  BY LenProperties, ElementOfSeq
<1>2. /\ a \in Seq(Days) /\ Len(a) = i
      /\ \A j \in 1..i : a[j] = o[j]
  BY <1>1, SubSeqProperties, Z3
<1>3. /\ b \in Seq(Days) /\ Len(b) = Len(o) - i
      /\ \A j \in 1..(Len(o) - i) : b[j] = o[i + j]
  BY <1>1, BehindIsSeq
<1>0. c \in Seq(Days) /\ Len(c) = 1 /\ c[1] = d
  OBVIOUS
<1>n. With(o, i, d) = (a \o c) \o b
  BY DEF With
<1> HIDE DEF a, b, c
<1>4. /\ a \o c \in Seq(Days) /\ Len(a \o c) = i + 1
      /\ \A j \in 1..i : (a \o c)[j] = o[j]
      /\ (a \o c)[i + 1] = d
  <2> DEFINE z == a \o c
  <2>1. /\ z \in Seq(Days)
        /\ Len(z) = Len(a) + Len(c)
        /\ \A j \in 1..Len(a) : z[j] = a[j]
        /\ \A j \in 1..Len(c) : z[Len(a) + j] = c[j]
    BY <1>0, <1>2, Joined
  <2> HIDE DEF z
  <2>2. z \in Seq(Days) /\ Len(z) = i + 1 /\ (\A j \in 1..i : z[j] = o[j]) /\ z[i + 1] = d
    BY <2>1, <1>0, <1>1, <1>2
  <2> QED BY <2>2 DEF z
<1>5. /\ With(o, i, d) \in Seq(Days) /\ Len(With(o, i, d)) = Len(o) + 1
      /\ \A j \in 1..(Len(o) + 1) :
            With(o, i, d)[j] = IF j <= i THEN o[j] ELSE IF j = i + 1 THEN d ELSE o[j - 1]
  <2>1. /\ With(o, i, d) \in Seq(Days)
        /\ Len(With(o, i, d)) = (i + 1) + (Len(o) - i)
        /\ \A j \in 1..(i + 1) : With(o, i, d)[j] = (a \o c)[j]
        /\ \A j \in 1..(Len(o) - i) : With(o, i, d)[(i + 1) + j] = b[j]
    <3> DEFINE z == a \o c
               y == z \o b
    <3>1. z \in Seq(Days) /\ Len(z) = i + 1
      BY <1>4
    <3> HIDE DEF z
    <3>2. /\ y \in Seq(Days)
          /\ Len(y) = Len(z) + Len(b)
          /\ \A j \in 1..Len(z) : y[j] = z[j]
          /\ \A j \in 1..Len(b) : y[Len(z) + j] = b[j]
      BY <3>1, <1>3, Joined
    <3> HIDE DEF y
    <3>3. /\ y \in Seq(Days) /\ Len(y) = (i + 1) + (Len(o) - i)
          /\ \A j \in 1..(i + 1) : y[j] = z[j]
          /\ \A j \in 1..(Len(o) - i) : y[(i + 1) + j] = b[j]
      BY <3>1, <3>2, <1>3
    <3> QED BY <1>n, <3>3 DEF y, z
  <2>2. ASSUME NEW j \in 1..(Len(o) + 1)
        PROVE  With(o, i, d)[j] = IF j <= i THEN o[j] ELSE IF j = i + 1 THEN d ELSE o[j - 1]
    <3>1. CASE j <= i
      <4>1. j \in 1..(i + 1) /\ j \in 1..i
        BY <3>1, <1>1
      <4> QED BY <3>1, <4>1, <2>1, <1>4
    <3>2. CASE j = i + 1
      <4>1. j \in 1..(i + 1) /\ ~(j <= i)
        BY <3>2, <1>1
      <4> QED BY <3>2, <4>1, <2>1, <1>4
    <3>3. CASE ~(j <= i) /\ j # i + 1
      <4> DEFINE k == j - (i + 1)
      <4>1. k \in 1..(Len(o) - i) /\ (i + 1) + k = j /\ i + k = j - 1
        BY <3>3, <1>1
      <4>2. With(o, i, d)[(i + 1) + k] = b[k] /\ b[k] = o[i + k]
        BY <4>1, <2>1, <1>3
      <4> QED BY <3>3, <4>1, <4>2
    <3> QED BY <3>1, <3>2, <3>3
  <2> QED BY <2>1, <2>2, <1>1
<1>6. DOMAIN With(o, i, d) = 1..(Len(o) + 1)
  BY <1>5, LenProperties
<1>7. ASSUME NEW e PROVE Listed(With(o, i, d), e) <=> Listed(o, e) \/ e = d
  <2>1. ASSUME NEW j \in 1..Len(o)
        PROVE  With(o, i, d)[IF j <= i THEN j ELSE j + 1] = o[j]
    BY <1>1, <1>5
  <2>2. With(o, i, d)[i + 1] = d
    BY <1>1, <1>5
  <2>3. Listed(o, e) => Listed(With(o, i, d), e)
    BY <2>1, <1>1, <1>6 DEF Listed
  <2>4. Listed(With(o, i, d), e) => Listed(o, e) \/ e = d
    BY <1>1, <1>5, <1>6 DEF Listed
  <2> QED BY <2>2, <2>3, <2>4, <1>1, <1>6 DEF Listed
<1>8. ASSUME NoRepeat(o), ~Listed(o, d) PROVE NoRepeat(With(o, i, d))
  <2>1. \A j \in 1..Len(o) : o[j] # d
    BY <1>8, <1>1 DEF Listed
  <2>2. \A j, k \in 1..Len(o) : o[j] = o[k] => j = k
    BY <1>8, <1>1 DEF NoRepeat
  <2>3. ASSUME NEW j \in 1..(Len(o) + 1), NEW k \in 1..(Len(o) + 1),
               With(o, i, d)[j] = With(o, i, d)[k]
        PROVE  j = k
    <3>1. CASE j = i + 1
      BY <3>1, <2>1, <2>3, <1>1, <1>5
    <3>2. CASE k = i + 1
      BY <3>2, <2>1, <2>3, <1>1, <1>5
    <3>3. CASE j # i + 1 /\ k # i + 1
      <4> DEFINE old(n) == IF n <= i THEN n ELSE n - 1
      <4>1. old(j) \in 1..Len(o) /\ old(k) \in 1..Len(o)
        BY <3>3, <1>1
      <4>2. o[old(j)] = o[old(k)]
        BY <3>3, <2>3, <1>5
      <4>3. old(j) = old(k)
        BY <4>1, <4>2, <2>2
      <4> QED BY <4>3, <3>3, <1>1
    <3> QED BY <3>1, <3>2, <3>3
  <2> QED BY <2>3, <1>6 DEF NoRepeat
<1> QED BY <1>5, <1>7, <1>8

(* A day stops waiting. *)
LEMMA WithoutListed ==
    ASSUME NEW o \in Seq(Days), NEW i \in DOMAIN o, NoRepeat(o)
    PROVE  /\ Without(o, i) \in Seq(Days)
           /\ \A e : Listed(Without(o, i), e) <=> Listed(o, e) /\ e # o[i]
           /\ NoRepeat(Without(o, i))
<1> DEFINE a == SubSeq(o, 1, i - 1)
           b == SubSeq(o, i + 1, Len(o))
<1>1. /\ Len(o) \in Nat /\ DOMAIN o = 1..Len(o) /\ i \in Nat /\ 1 <= i /\ i <= Len(o)
      /\ \A j \in 1..Len(o) : o[j] \in Days
  BY LenProperties, ElementOfSeq
<1>2. /\ a \in Seq(Days) /\ Len(a) = i - 1
      /\ \A j \in 1..(i - 1) : a[j] = o[j]
  BY <1>1, SubSeqProperties, Z3
<1>3. /\ b \in Seq(Days) /\ Len(b) = Len(o) - i
      /\ \A j \in 1..(Len(o) - i) : b[j] = o[i + j]
  BY <1>1, BehindIsSeq
<1>n. Without(o, i) = a \o b
  BY DEF Without
<1> HIDE DEF a, b
<1>4. /\ Without(o, i) \in Seq(Days) /\ Len(Without(o, i)) = Len(o) - 1
      /\ \A j \in 1..(Len(o) - 1) :
            Without(o, i)[j] = IF j < i THEN o[j] ELSE o[j + 1]
  <2>1. /\ Without(o, i) \in Seq(Days)
        /\ Len(Without(o, i)) = (i - 1) + (Len(o) - i)
        /\ \A j \in 1..(i - 1) : Without(o, i)[j] = a[j]
        /\ \A j \in 1..(Len(o) - i) : Without(o, i)[(i - 1) + j] = b[j]
    <3> DEFINE y == a \o b
    <3>1. /\ y \in Seq(Days)
          /\ Len(y) = Len(a) + Len(b)
          /\ \A j \in 1..Len(a) : y[j] = a[j]
          /\ \A j \in 1..Len(b) : y[Len(a) + j] = b[j]
      BY <1>2, <1>3, Joined
    <3> HIDE DEF y
    <3>2. /\ y \in Seq(Days) /\ Len(y) = (i - 1) + (Len(o) - i)
          /\ \A j \in 1..(i - 1) : y[j] = a[j]
          /\ \A j \in 1..(Len(o) - i) : y[(i - 1) + j] = b[j]
      BY <3>1, <1>2, <1>3
    <3> QED BY <1>n, <3>2 DEF y
  <2>2. ASSUME NEW j \in 1..(Len(o) - 1)
        PROVE  Without(o, i)[j] = IF j < i THEN o[j] ELSE o[j + 1]
    <3>1. CASE j < i
      <4>1. j \in 1..(i - 1)
        BY <3>1, <1>1
      <4> QED BY <3>1, <4>1, <2>1, <1>2
    <3>2. CASE ~(j < i)
      <4> DEFINE k == j - (i - 1)
      <4>1. k \in 1..(Len(o) - i) /\ (i - 1) + k = j /\ i + k = j + 1
        BY <3>2, <1>1
      <4>2. Without(o, i)[(i - 1) + k] = b[k] /\ b[k] = o[i + k]
        BY <4>1, <2>1, <1>3
      <4> QED BY <3>2, <4>1, <4>2
    <3> QED BY <3>1, <3>2
  <2> QED BY <2>1, <2>2, <1>1
<1>5. DOMAIN Without(o, i) = 1..(Len(o) - 1)
  BY <1>4, LenProperties
<1>6. ASSUME NEW e PROVE Listed(Without(o, i), e) <=> Listed(o, e) /\ e # o[i]
  <2>1. ASSUME NEW j \in 1..Len(o), j # i
        PROVE  Without(o, i)[IF j < i THEN j ELSE j - 1] = o[j]
    BY <2>1, <1>1, <1>4
  <2>2. Listed(o, e) /\ e # o[i] => Listed(Without(o, i), e)
    BY <2>1, <1>1, <1>5 DEF Listed
  <2>3. ASSUME NEW j \in 1..(Len(o) - 1), Without(o, i)[j] = e
        PROVE  Listed(o, e) /\ e # o[i]
    <3> DEFINE k == IF j < i THEN j ELSE j + 1
    <3>1. k \in 1..Len(o) /\ k # i /\ o[k] = e
      BY <2>3, <1>1, <1>4
    <3> QED BY <3>1, <1>1 DEF Listed, NoRepeat
  <2>4. Listed(Without(o, i), e) => Listed(o, e) /\ e # o[i]
    BY <2>3, <1>5 DEF Listed
  <2> QED BY <2>2, <2>4
<1>7. NoRepeat(Without(o, i))
  <2>1. \A j, k \in 1..Len(o) : o[j] = o[k] => j = k
    BY <1>1 DEF NoRepeat
  <2>2. ASSUME NEW j \in 1..(Len(o) - 1), NEW k \in 1..(Len(o) - 1),
               Without(o, i)[j] = Without(o, i)[k]
        PROVE  j = k
    <3> DEFINE old(n) == IF n < i THEN n ELSE n + 1
    <3>1. old(j) \in 1..Len(o) /\ old(k) \in 1..Len(o) /\ o[old(j)] = o[old(k)]
      BY <2>2, <1>1, <1>4
    <3>2. old(j) = old(k)
      BY <3>1, <2>1
    <3> QED BY <3>2, <1>1
  <2> QED BY <2>2, <1>5 DEF NoRepeat
<1> QED BY <1>4, <1>6, <1>7


(***************************************************************************)
(* The inductive invariant                                                 *)
(***************************************************************************)
LEMMA Typed ==
    ASSUME TypeOK
    PROVE  /\ \A d \in Days : /\ q[d].started \in Nat /\ q[d].started <= token
                            /\ q[d].cstart \in Nat /\ q[d].cstart <= token
                            /\ q[d].done \in Nat /\ q[d].attempts \in Nat
                            /\ source[d] \in Nat /\ prod[d] \in Nat /\ made[d] \in Nat
                            /\ page[d] \in Nat /\ late[d] \in BOOLEAN
           /\ \A w \in Workers : /\ wk[w].day \in Days /\ wk[w].ver \in Nat
                               /\ wk[w].token \in Nat /\ wk[w].token <= token
                               /\ wk[w].done \in Nat /\ wk[w].attempt \in Nat
           /\ token \in Nat
BY DEF TypeOK, RowType, WorkType, Versions

(* prepare_day computes from the attendance it reads, so a worker that owns
   its day holds the current version. *)
LEMMA PrepareStep ==
    ASSUME QueueInv, NEW w \in Workers, Prepare(w)
    PROVE  QueueInv'
<1>0. TypeOK /\ CompletedIsCurrent /\ OrderIsPending /\ ReadyIsVisible
      /\ OwnerIsCurrent /\ ReadyIsDone /\ DoneIsOld /\ ProdIsUpToDate /\ MarkerSawRefresh
  BY DEF QueueInv, QueueIsRight
<1>1. /\ wk[w].pc = "prepare"
      /\ wk' = [wk EXCEPT ![w].pc = "store", ![w].ver = source[wk[w].day]]
      /\ UNCHANGED <<source, q, order, prod, made, page, ordi, render, token, changes,
                     ordinaries, renders, faults, late>>
  BY DEF Prepare
<1>2. /\ wk' \in [Workers -> WorkType]
      /\ \A v \in Workers : /\ v # w => wk'[v] = wk[v]
                          /\ wk'[v].token = wk[v].token /\ wk'[v].done = wk[v].done
                          /\ wk'[v].day = wk[v].day /\ wk'[v].attempt = wk[v].attempt
      /\ wk'[w].pc = "store" /\ wk'[w].ver = source[wk[w].day]
  BY <1>0, <1>1 DEF TypeOK, WorkType, Versions
<1>3. TypeOK'
  BY <1>0, <1>1, <1>2 DEF TypeOK
<1>4. CompletedIsCurrent' /\ OrderIsPending' /\ ReadyIsVisible' /\ ReadyIsDone' /\ ProdIsUpToDate'
  BY <1>0, <1>1 DEF CompletedIsCurrent, OrderIsPending, ReadyIsVisible, ReadyIsDone,
         ProdIsUpToDate, PageIsUpToDate
<1>5. OwnerIsCurrent'
  BY <1>0, <1>1, <1>2 DEF OwnerIsCurrent, Owns
<1>6. DoneIsOld' /\ MarkerSawRefresh'
  BY <1>0, <1>1, <1>2 DEF DoneIsOld, MarkerSawRefresh, PageIsUpToDate
<1> QED BY <1>3, <1>4, <1>5, <1>6 DEF QueueInv, QueueIsRight

(* _complete_claim writes only for the owner of the day, whose version is
   current. *)
LEMMA CompleteStep ==
    ASSUME QueueInv, NEW w \in Workers, Complete(w)
    PROVE  QueueInv'
<1> DEFINE d == wk[w].day
<1>0. TypeOK /\ CompletedIsCurrent /\ OrderIsPending /\ ReadyIsVisible
      /\ OwnerIsCurrent /\ ReadyIsDone /\ DoneIsOld /\ ProdIsUpToDate /\ MarkerSawRefresh
  BY DEF QueueInv, QueueIsRight
<1>1. /\ wk[w].pc = "store" /\ Owns(w)
      /\ token' = token + 1
      /\ prod' = [prod EXCEPT ![d] = wk[w].ver]
      /\ made' = [made EXCEPT ![d] = wk[w].ver]
      /\ q' = [q EXCEPT ![d] = [@ EXCEPT !.done = token + 1, !.started = 0, !.lapsed = FALSE,
                                         !.cstart = token + 1, !.clapsed = FALSE]]
      /\ \E i \in DOMAIN order : order[i] = d /\ order' = Without(order, i)
      /\ late' = [late EXCEPT ![d] = FALSE]
      /\ wk' = [wk EXCEPT ![w].pc = "refresh", ![w].token = token + 1, ![w].done = token + 1]
      /\ UNCHANGED <<source, page, ordi, render, changes, ordinaries, renders, faults>>
  BY DEF Complete
<1>2. d \in Days
  BY <1>0, Typed
<1> HIDE DEF d
<1>3. /\ q' \in [Days -> RowType]
      /\ \A e \in Days : e # d => q'[e] = q[e]
      /\ q'[d].done = token + 1 /\ q'[d].started = 0 /\ q'[d].cstart = token + 1
      /\ q'[d].ready = q[d].ready /\ q'[d].present = q[d].present
  <2>1. q \in [Days -> RowType] /\ token + 1 \in Nat
    BY <1>0 DEF TypeOK
  <2>2. [q[d] EXCEPT !.done = token + 1, !.started = 0, !.lapsed = FALSE,
                     !.cstart = token + 1, !.clapsed = FALSE] \in RowType
    BY <2>1, <1>2 DEF RowType
  <2>3. \A e \in Days : e # d => q'[e] = q[e]
    BY <2>1, <1>1, <1>2
  <2>4. q'[d] = [q[d] EXCEPT !.done = token + 1, !.started = 0, !.lapsed = FALSE,
                             !.cstart = token + 1, !.clapsed = FALSE]
    BY <2>1, <1>1, <1>2
  <2>5. q' \in [Days -> RowType]
    BY <2>1, <2>2, <1>1, <1>2
  <2> QED BY <2>1, <2>3, <2>4, <2>5, <1>2 DEF RowType
<1>4. /\ wk' \in [Workers -> WorkType]
      /\ \A v \in Workers : v # w => wk'[v] = wk[v]
      /\ wk'[w].pc = "refresh" /\ wk'[w].token = token + 1 /\ wk'[w].done = token + 1
  <2>1. wk \in [Workers -> WorkType] /\ token + 1 \in Nat
    BY <1>0 DEF TypeOK
  <2> QED BY <2>1, <1>1 DEF WorkType
<1>5. /\ order' \in Seq(Days) /\ NoRepeat(order')
      /\ \A e : Listed(order', e) <=> Listed(order, e) /\ e # d
  <2>1. PICK i \in DOMAIN order : order[i] = d /\ order' = Without(order, i)
    BY <1>1
  <2>2. order \in Seq(Days) /\ NoRepeat(order)
    BY <1>0 DEF TypeOK, OrderIsPending, NoRepeat
  <2>3. /\ Without(order, i) \in Seq(Days)
        /\ \A e : Listed(Without(order, i), e) <=> Listed(order, e) /\ e # order[i]
        /\ NoRepeat(Without(order, i))
    BY <2>2, WithoutListed
  <2> QED BY <2>1, <2>3
<1>6. TypeOK'
  <2>1. /\ prod' \in [Days -> Nat] /\ made' \in [Days -> Nat] /\ late' \in [Days -> BOOLEAN]
        /\ token' \in Nat
    <3>1. wk[w].ver \in Nat /\ token + 1 \in Nat
      BY <1>0, Typed
    <3>2. prod \in [Days -> Nat] /\ made \in [Days -> Nat] /\ late \in [Days -> BOOLEAN]
      BY <1>0 DEF TypeOK
    <3> QED BY <3>1, <3>2, <1>1
  <2>2. \A e \in Days : q'[e].started <= token' /\ q'[e].cstart <= token'
    BY <1>0, <1>1, <1>2, <1>3, Typed
  <2>3. \A v \in Workers : wk'[v].token <= token'
    BY <1>0, <1>1, <1>4, Typed
  <2> QED BY <2>1, <2>2, <2>3, <1>0, <1>1, <1>3, <1>4, <1>5 DEF TypeOK
<1>7. CompletedIsCurrent'
  BY <1>0, <1>1, <1>2, <1>3, Typed DEF CompletedIsCurrent, OwnerIsCurrent, TypeOK, d
<1>8. OrderIsPending'
  <2>1. \A e \in Days : (q'[e].present /\ q'[e].done = 0) <=> Listed(order', e)
    <3>1. q'[d].done # 0 /\ ~Listed(order', d)
      BY <1>0, <1>3, <1>5, Typed
    <3>2. \A e \in Days : (q[e].present /\ q[e].done = 0) <=> Listed(order, e)
      BY <1>0 DEF OrderIsPending, Listed
    <3> QED BY <3>1, <3>2, <1>3, <1>5
  <2> QED BY <2>1, <1>5 DEF OrderIsPending, Listed, NoRepeat
<1>9. ReadyIsVisible'
  BY <1>0, <1>1, <1>2, <1>3, Typed DEF ReadyIsVisible, PageIsUpToDate, Owns, ReadyIsDone, TypeOK, d
<1>10. OwnerIsCurrent'
  BY <1>0, <1>1, <1>2, <1>3, <1>4, Typed DEF OwnerIsCurrent, Owns
<1>11. ReadyIsDone' /\ DoneIsOld'
  BY <1>0, <1>1, <1>2, <1>3, <1>4, Typed DEF ReadyIsDone, DoneIsOld
<1>12. ProdIsUpToDate'
  <2>1. /\ \A e \in Days : e # d => late'[e] = late[e] /\ prod'[e] = prod[e] /\ made'[e] = made[e]
        /\ prod'[d] = made'[d] /\ prod'[d] \in Nat
    BY <1>0, <1>1, <1>2, Typed DEF TypeOK
  <2> QED BY <2>1, <1>0 DEF ProdIsUpToDate
<1>13. MarkerSawRefresh'
  <2>1. \A e \in Days : e # d => late'[e] = late[e] /\ made'[e] = made[e] /\ page'[e] = page[e]
    BY <1>0, <1>1, <1>2 DEF TypeOK
  <2>2. \A v \in Workers : v # w /\ wk[v].day = d => wk'[v].done # q'[d].done
    BY <1>0, <1>3, <1>4, Typed DEF DoneIsOld
  <2> QED BY <2>1, <2>2, <1>0, <1>3, <1>4, Typed DEF MarkerSawRefresh, PageIsUpToDate
<1> QED BY <1>6, <1>7, <1>8, <1>9, <1>10, <1>11, <1>12, <1>13 DEF QueueInv, QueueIsRight

(* A day is requested: whatever was held or finished of it is forgotten. *)
LEMMA RequestedStep ==
    ASSUME QueueInv, NEW d \in Days,
           source' \in [Days -> Nat], \A e \in Days : e # d => source'[e] = source[e],
           q' \in [Days -> RowType], \A e \in Days : e # d => q'[e] = q[e],
           q'[d].present, q'[d].done = 0, q'[d].started = 0, q'[d].cstart = 0, ~q'[d].ready,
           order' \in Seq(Days), NoRepeat(order'),
           \A e : Listed(order', e) <=> Listed(order, e) \/ e = d,
           changes' \in Nat,
           UNCHANGED <<prod, made, page, wk, ordi, render, token, ordinaries, renders, faults, late>>
    PROVE  QueueInv'
<1>0. TypeOK /\ CompletedIsCurrent /\ OrderIsPending /\ ReadyIsVisible
      /\ OwnerIsCurrent /\ ReadyIsDone /\ DoneIsOld /\ ProdIsUpToDate /\ MarkerSawRefresh
  BY DEF QueueInv, QueueIsRight
<1>1. TypeOK'
  <2>1. \A e \in Days : q'[e].started <= token' /\ q'[e].cstart <= token'
    <3>1. token \in Nat /\ token' = token /\ \A e \in Days : q[e].started <= token /\ q[e].cstart <= token
      BY <1>0, Typed
    <3>2. q'[d].started <= token' /\ q'[d].cstart <= token'
      BY <3>1
    <3> QED BY <3>1, <3>2
  <2> QED BY <2>1, <1>0 DEF TypeOK, Versions
<1>2. CompletedIsCurrent'
  BY <1>0 DEF CompletedIsCurrent
<1>3. OrderIsPending'
  <2>1. \A e \in Days : (q[e].present /\ q[e].done = 0) <=> Listed(order, e)
    BY <1>0 DEF OrderIsPending, Listed
  <2>2. \A e \in Days : (q'[e].present /\ q'[e].done = 0) <=> Listed(order', e)
    BY <2>1
  <2> QED BY <2>2 DEF OrderIsPending, Listed, NoRepeat
<1>4. ReadyIsVisible' /\ ProdIsUpToDate' /\ ReadyIsDone'
  BY <1>0 DEF ReadyIsVisible, ProdIsUpToDate, ReadyIsDone, PageIsUpToDate
<1>5. OwnerIsCurrent'
  <2>1. ASSUME NEW v \in Workers, wk[v].pc = "store", Owns(v)' PROVE wk[v].ver = source'[wk[v].day]
    <3>1. wk[v].day \in Days /\ wk[v].token # 0
      BY <2>1, <1>0, Typed DEF OwnerIsCurrent
    <3>2. wk[v].day # d
      BY <2>1, <3>1 DEF Owns
    <3> QED BY <2>1, <3>1, <3>2, <1>0 DEF OwnerIsCurrent, Owns
  <2> QED BY <2>1, <1>0 DEF OwnerIsCurrent
<1>6. DoneIsOld'
  BY <1>0, Typed DEF DoneIsOld
<1>7. MarkerSawRefresh'
  BY <1>0, Typed DEF MarkerSawRefresh, PageIsUpToDate
<1> QED BY <1>1, <1>2, <1>3, <1>4, <1>5, <1>6, <1>7 DEF QueueInv, QueueIsRight

(* What Enqueue does to the row and to the order. *)
LEMMA EnqueueEffect ==
    ASSUME QueueInv, NEW d \in Days, Enqueue(d)
    PROVE  /\ q' \in [Days -> RowType] /\ \A e \in Days : e # d => q'[e] = q[e]
           /\ q'[d].present /\ q'[d].done = 0 /\ q'[d].started = 0 /\ q'[d].cstart = 0 /\ ~q'[d].ready
           /\ order' \in Seq(Days) /\ NoRepeat(order')
           /\ \A e : Listed(order', e) <=> Listed(order, e) \/ e = d
<1> DEFINE n == IF q[d].done = 0 THEN q[d].attempts ELSE 0
           r == [NoRow EXCEPT !.present = TRUE, !.attempts = n]
<1>1. /\ q \in [Days -> RowType] /\ order \in Seq(Days) /\ NoRepeat(order)
      /\ (q[d].present /\ q[d].done = 0) <=> Listed(order, d)
  BY DEF QueueInv, QueueIsRight, TypeOK, OrderIsPending, Listed, NoRepeat
<1>2. n \in Nat
  BY <1>1 DEF RowType
<1> HIDE DEF n
<1>3. /\ r \in RowType
      /\ r.present /\ r.done = 0 /\ r.started = 0 /\ r.cstart = 0 /\ ~r.ready
  BY <1>2 DEF RowType, NoRow
<1> HIDE DEF r
<1>4. q' = [q EXCEPT ![d] = r]
  BY DEF Enqueue, r, n
<1>5. /\ order' \in Seq(Days) /\ NoRepeat(order')
      /\ \A e : Listed(order', e) <=> Listed(order, e) \/ e = d
  <2>1. CASE q[d].present /\ q[d].done = 0
    <3>1. order' = order /\ Listed(order, d)
      BY <2>1, <1>1 DEF Enqueue
    <3> QED BY <3>1, <1>1
  <2>2. CASE ~(q[d].present /\ q[d].done = 0)
    <3>1. order' = Append(order, d) /\ ~Listed(order, d)
      BY <2>2, <1>1 DEF Enqueue
    <3> QED BY <3>1, <1>1, AppendListed
  <2> QED BY <2>1, <2>2
<1> QED BY <1>1, <1>3, <1>4, <1>5

(* _enqueue_recalc_cur, with or without a change: the day is unfinished
   again and no claim of it is owned. *)
LEMMA RequestStep ==
    ASSUME QueueInv, NEW d \in Days, ChangeAttendance(d) \/ RequestAgain(d)
    PROVE  QueueInv'
<1>1. /\ Enqueue(d) /\ changes' = changes + 1
      /\ source' = source \/ source' = [source EXCEPT ![d] = @ + 1]
      /\ UNCHANGED <<prod, made, page, wk, ordi, render, token, ordinaries, renders, faults, late>>
  BY DEF ChangeAttendance, RequestAgain
<1>2. source \in [Days -> Nat] /\ changes \in Nat
  BY DEF QueueInv, QueueIsRight, TypeOK, Versions
<1>3. source' \in [Days -> Nat] /\ \A e \in Days : e # d => source'[e] = source[e]
  BY <1>1, <1>2
<1>4. changes' \in Nat
  BY <1>1, <1>2
<1> QED BY <1>1, <1>3, <1>4, EnqueueEffect, RequestedStep

(* _enqueue_cutover_cur starts the day anew, wherever the sort puts it. *)
LEMMA RequestCutoverStep ==
    ASSUME QueueInv, RequestCutover
    PROVE  QueueInv'
<1> DEFINE d == CutoverDay
           r == [NoRow EXCEPT !.present = TRUE]
<1>1. /\ changes' = changes + 1
      /\ q' = [q EXCEPT ![d] = r]
      /\ IF q[d].present /\ q[d].done = 0 THEN order' = order
         ELSE \E i \in 0..Len(order) : order' = With(order, i, d)
      /\ UNCHANGED <<source, prod, made, page, wk, ordi, render, token, ordinaries, renders, faults, late>>
  BY DEF RequestCutover
<1>2. d \in Days
  BY DaysAssumption
<1> HIDE DEF d
<1>3. /\ q \in [Days -> RowType] /\ order \in Seq(Days) /\ NoRepeat(order)
      /\ (q[d].present /\ q[d].done = 0) <=> Listed(order, d)
      /\ source \in [Days -> Nat] /\ changes \in Nat
  BY <1>2 DEF QueueInv, QueueIsRight, TypeOK, OrderIsPending, Listed, NoRepeat, Versions
<1>4. /\ r \in RowType
      /\ r.present /\ r.done = 0 /\ r.started = 0 /\ r.cstart = 0 /\ ~r.ready
  BY DEF RowType, NoRow
<1> HIDE DEF r
<1>5. /\ q' \in [Days -> RowType] /\ (\A e \in Days : e # d => q'[e] = q[e]) /\ q'[d] = r
  BY <1>1, <1>2, <1>3, <1>4
<1>6. /\ order' \in Seq(Days) /\ NoRepeat(order')
      /\ \A e : Listed(order', e) <=> Listed(order, e) \/ e = d
  <2>1. CASE q[d].present /\ q[d].done = 0
    BY <2>1, <1>1, <1>3
  <2>2. CASE ~(q[d].present /\ q[d].done = 0)
    <3>1. PICK i \in 0..Len(order) : order' = With(order, i, d)
      BY <2>2, <1>1
    <3> QED BY <3>1, <2>2, <1>2, <1>3, WithListed
  <2> QED BY <2>1, <2>2
<1>7. source' \in [Days -> Nat] /\ (\A e \in Days : e # d => source'[e] = source[e]) /\ changes' \in Nat
  BY <1>1, <1>3
<1> QED BY <1>1, <1>2, <1>4, <1>5, <1>6, <1>7, RequestedStep

(* A worker drops what it had. *)
LEMMA LeaveStep ==
    ASSUME QueueInv, NEW w \in Workers, Superseded(w) \/ Crash(w)
    PROVE  QueueInv'
<1>0. TypeOK /\ CompletedIsCurrent /\ OrderIsPending /\ ReadyIsVisible
      /\ OwnerIsCurrent /\ ReadyIsDone /\ DoneIsOld /\ ProdIsUpToDate /\ MarkerSawRefresh
  BY DEF QueueInv, QueueIsRight
<1>1. /\ wk' = [wk EXCEPT ![w] = Idle]
      /\ faults' = faults \/ faults' = faults + 1
      /\ UNCHANGED <<source, q, order, prod, made, page, ordi, render, token, changes,
                     ordinaries, renders, late>>
  BY DEF Superseded, Crash
<1>2. /\ wk' \in [Workers -> WorkType]
      /\ \A v \in Workers : v # w => wk'[v] = wk[v]
      /\ wk'[w].pc = "idle" /\ wk'[w].token = 0 /\ wk'[w].done = 0
  <2>1. wk \in [Workers -> WorkType] /\ Idle \in WorkType
    BY <1>0, DaysAssumption DEF TypeOK, WorkType, Idle
  <2> QED BY <2>1, <1>1 DEF Idle
<1>3. TypeOK'
  <2>1. faults' \in Nat
    BY <1>0, <1>1 DEF TypeOK
  <2>2. \A v \in Workers : wk'[v].token <= token'
    BY <1>0, <1>1, <1>2, Typed
  <2> QED BY <2>1, <2>2, <1>0, <1>1, <1>2 DEF TypeOK
<1>4. CompletedIsCurrent' /\ OrderIsPending' /\ ReadyIsVisible' /\ ReadyIsDone' /\ ProdIsUpToDate'
  BY <1>0, <1>1 DEF CompletedIsCurrent, OrderIsPending, ReadyIsVisible, ReadyIsDone,
         ProdIsUpToDate, PageIsUpToDate
<1>5. OwnerIsCurrent'
  BY <1>0, <1>1, <1>2 DEF OwnerIsCurrent, Owns
<1>6. DoneIsOld' /\ MarkerSawRefresh'
  BY <1>0, <1>1, <1>2, Typed DEF DoneIsOld, MarkerSawRefresh, PageIsUpToDate
<1> QED BY <1>3, <1>4, <1>5, <1>6 DEF QueueInv, QueueIsRight

(* A step on the row of one day that completes nothing and stores nothing. *)
LEMMA RowStep ==
    ASSUME QueueInv, NEW d \in Days,
           q' \in [Days -> RowType], \A e \in Days : e # d => q'[e] = q[e],
           q'[d].present = q[d].present, q'[d].done = q[d].done,
           q'[d].ready => q[d].ready \/ (q[d].done # 0 /\ PageIsUpToDate(d)),
           q'[d].started <= token', q'[d].cstart <= token',
           wk' \in [Workers -> WorkType],
           \A v \in Workers : wk'[v].token <= token' /\ wk'[v].done <= token',
           \A v \in Workers : wk'[v].pc = "ready" => wk'[v] = wk[v],
           token' \in Nat, token <= token', faults' \in Nat,
           OwnerIsCurrent',
           UNCHANGED <<source, order, prod, made, page, ordi, render, changes, ordinaries, renders, late>>
    PROVE  QueueInv'
<1>0. TypeOK /\ CompletedIsCurrent /\ OrderIsPending /\ ReadyIsVisible
      /\ OwnerIsCurrent /\ ReadyIsDone /\ DoneIsOld /\ ProdIsUpToDate /\ MarkerSawRefresh
  BY DEF QueueInv, QueueIsRight
<1>1. TypeOK'
  <2>1. token \in Nat /\ \A e \in Days : q[e].started \in Nat /\ q[e].started <= token
                                       /\ q[e].cstart \in Nat /\ q[e].cstart <= token
    BY <1>0, Typed
  <2>2. \A e \in Days : q'[e].started <= token' /\ q'[e].cstart <= token'
    BY <2>1
  <2> QED BY <2>2, <1>0 DEF TypeOK
<1>2. CompletedIsCurrent'
  BY <1>0 DEF CompletedIsCurrent
<1>3. OrderIsPending'
  <2>1. \A e \in Days : q'[e].present = q[e].present /\ q'[e].done = q[e].done
    OBVIOUS
  <2> QED BY <2>1, <1>0 DEF OrderIsPending
<1>4. ReadyIsVisible' /\ ProdIsUpToDate' /\ ReadyIsDone'
  BY <1>0 DEF ReadyIsVisible, ProdIsUpToDate, ReadyIsDone, PageIsUpToDate
<1>5. DoneIsOld'
  <2>1. token \in Nat /\ \A e \in Days : q[e].done \in Nat /\ q[e].done <= token
    BY <1>0, Typed DEF DoneIsOld
  <2>2. \A e \in Days : q'[e].done <= token'
    BY <2>1
  <2> QED BY <2>2 DEF DoneIsOld
<1>6. MarkerSawRefresh'
  <2>1. \A e \in Days : q'[e].done = q[e].done
    OBVIOUS
  <2> QED BY <2>1, <1>0, Typed DEF MarkerSawRefresh, PageIsUpToDate
<1> QED BY <1>1, <1>2, <1>3, <1>4, <1>5, <1>6 DEF QueueInv, QueueIsRight

(* A lease that runs out changes no owner until somebody claims. *)
LEMMA LapseStep ==
    ASSUME QueueInv, NEW d \in Days, LeaseLapses(d) \/ LapsesEarly(d)
    PROVE  QueueInv'
<1>1. /\ \/ q' = [q EXCEPT ![d].lapsed = TRUE]
         \/ q' = [q EXCEPT ![d].clapsed = TRUE]
      /\ faults' = faults \/ faults' = faults + 1
      /\ UNCHANGED <<wk, token>>
      /\ UNCHANGED <<source, order, prod, made, page, ordi, render, changes, ordinaries, renders, late>>
  BY DEF LeaseLapses, LapsesEarly, Lapse
<1>2. TypeOK /\ OwnerIsCurrent /\ DoneIsOld
  BY DEF QueueInv, QueueIsRight
<1>3. q \in [Days -> RowType] /\ wk \in [Workers -> WorkType] /\ faults \in Nat /\ token \in Nat
  BY <1>2 DEF TypeOK
<1>4. /\ q' \in [Days -> RowType] /\ \A e \in Days : e # d => q'[e] = q[e]
      /\ q'[d].present = q[d].present /\ q'[d].done = q[d].done /\ q'[d].ready = q[d].ready
      /\ q'[d].started = q[d].started /\ q'[d].cstart = q[d].cstart
      /\ q'[d].attempts = q[d].attempts
  <2>1. q[d] \in RowType /\ [q[d] EXCEPT !.lapsed = TRUE] \in RowType
        /\ [q[d] EXCEPT !.clapsed = TRUE] \in RowType
    BY <1>3 DEF RowType
  <2>2. /\ \A e \in Days : e # d => q'[e] = q[e]
        /\ q'[d] = [q[d] EXCEPT !.lapsed = TRUE] \/ q'[d] = [q[d] EXCEPT !.clapsed = TRUE]
        /\ q' \in [Days -> RowType]
    BY <2>1, <1>1, <1>3
  <2> QED BY <2>1, <2>2 DEF RowType
<1>5. OwnerIsCurrent'
  <2>1. \A e \in Days : /\ q'[e].done = q[e].done /\ q'[e].started = q[e].started
                        /\ q'[e].attempts = q[e].attempts
    BY <1>4
  <2>2. \A v \in Workers : wk'[v] = wk[v] /\ wk[v].day \in Days /\ source'[wk[v].day] = source[wk[v].day]
    BY <1>1, <1>2, Typed
  <2>3. \A v \in Workers : Owns(v)' => Owns(v)
    BY <2>1, <2>2 DEF Owns
  <2> QED BY <2>2, <2>3, <1>2 DEF OwnerIsCurrent
<1>6. /\ token' \in Nat /\ token <= token' /\ faults' \in Nat
      /\ q'[d].started <= token' /\ q'[d].cstart <= token'
      /\ \A v \in Workers : wk'[v].token <= token' /\ wk'[v].done <= token'
  BY <1>1, <1>2, <1>3, <1>4, Typed DEF DoneIsOld
<1>7. \A v \in Workers : wk'[v].pc = "ready" => wk'[v] = wk[v]
  BY <1>1
<1>11. q'[d].ready => q[d].ready \/ (q[d].done # 0 /\ PageIsUpToDate(d))
  BY <1>4
<1> QED BY <1>1, <1>3, <1>4, <1>5, <1>6, <1>7, <1>11, RowStep, Zenon

(* _claim_pending_cache takes the refresh of a completed day. *)
LEMMA ClaimCacheStep ==
    ASSUME QueueInv, NEW w \in Workers, NEW d \in Days, ClaimCache(w, d)
    PROVE  QueueInv'
<1> DEFINE r == [Idle EXCEPT !.pc = "refresh", !.day = d, !.done = q[d].done,
                             !.attempt = q[d].attempts, !.token = token + 1]
<1>1. /\ wk[w].pc = "idle" /\ q[d].done # 0
      /\ token' = token + 1
      /\ q' = [q EXCEPT ![d].cstart = token + 1, ![d].clapsed = FALSE]
      /\ wk' = [wk EXCEPT ![w] = r]
      /\ faults' = faults
      /\ UNCHANGED <<source, order, prod, made, page, ordi, render, changes, ordinaries, renders, late>>
  BY DEF ClaimCache, CacheEligible
<1>2. TypeOK /\ OwnerIsCurrent /\ DoneIsOld
  BY DEF QueueInv, QueueIsRight
<1>3. q \in [Days -> RowType] /\ wk \in [Workers -> WorkType] /\ faults \in Nat /\ token \in Nat
  BY <1>2 DEF TypeOK
<1>4. /\ q' \in [Days -> RowType] /\ \A e \in Days : e # d => q'[e] = q[e]
      /\ q'[d].present = q[d].present /\ q'[d].done = q[d].done /\ q'[d].ready = q[d].ready
      /\ q'[d].started = q[d].started /\ q'[d].cstart = token + 1
      /\ q'[d].attempts = q[d].attempts
  <2>1. q[d] \in RowType /\ token + 1 \in Nat
    BY <1>3
  <2>2. [q[d] EXCEPT !.cstart = token + 1, !.clapsed = FALSE] \in RowType
    BY <2>1 DEF RowType
  <2>3. /\ \A e \in Days : e # d => q'[e] = q[e]
        /\ q'[d] = [q[d] EXCEPT !.cstart = token + 1, !.clapsed = FALSE]
    BY <1>1, <1>3
  <2>4. q' \in [Days -> RowType]
    BY <2>2, <1>1, <1>3
  <2> QED BY <2>1, <2>3, <2>4 DEF RowType
<1>5. /\ r \in WorkType /\ r.pc = "refresh" /\ r.token = token + 1 /\ r.done = q[d].done
  <2>1. q[d].done \in Nat /\ q[d].attempts \in Nat /\ token + 1 \in Nat
    BY <1>2, Typed
  <2> QED BY <2>1 DEF WorkType, Idle
<1> HIDE DEF r
<1>6. /\ wk' \in [Workers -> WorkType]
      /\ wk'[w] = r /\ \A v \in Workers : v # w => wk'[v] = wk[v]
  BY <1>1, <1>3, <1>5
<1>7. OwnerIsCurrent'
  BY <1>1, <1>2, <1>4, <1>5, <1>6, Typed DEF OwnerIsCurrent, Owns
<1>8. /\ token' \in Nat /\ token <= token' /\ faults' \in Nat
      /\ q'[d].started <= token' /\ q'[d].cstart <= token'
  BY <1>1, <1>2, <1>3, <1>4, Typed
<1>9. \A v \in Workers : wk'[v].token <= token' /\ wk'[v].done <= token'
  BY <1>1, <1>2, <1>5, <1>6, Typed DEF DoneIsOld
<1>10. \A v \in Workers : wk'[v].pc = "ready" => wk'[v] = wk[v]
  BY <1>5, <1>6
<1>11. q'[d].ready => q[d].ready \/ (q[d].done # 0 /\ PageIsUpToDate(d))
  BY <1>4
<1> QED BY <1>1, <1>4, <1>5, <1>6, <1>7, <1>8, <1>9, <1>10, <1>11, RowStep, Zenon

(* _claim_next takes the first day that waits, with a new token. *)
LEMMA ClaimNextStep ==
    ASSUME QueueInv, NEW w \in Workers, NEW d \in Days, ClaimNext(w, d)
    PROVE  QueueInv'
<1> DEFINE r == [Idle EXCEPT !.pc = "prepare", !.day = d,
                             !.attempt = q[d].attempts + 1, !.token = token + 1]
<1>1. /\ wk[w].pc = "idle"
      /\ token' = token + 1
      /\ q' = [q EXCEPT ![d].started = token + 1, ![d].lapsed = FALSE, ![d].attempts = @ + 1]
      /\ wk' = [wk EXCEPT ![w] = r]
      /\ faults' = faults
      /\ UNCHANGED <<source, order, prod, made, page, ordi, render, changes, ordinaries, renders, late>>
  BY DEF ClaimNext
<1>2. TypeOK /\ OwnerIsCurrent /\ DoneIsOld
  BY DEF QueueInv, QueueIsRight
<1>3. q \in [Days -> RowType] /\ wk \in [Workers -> WorkType] /\ faults \in Nat /\ token \in Nat
  BY <1>2 DEF TypeOK
<1>4. /\ q' \in [Days -> RowType] /\ \A e \in Days : e # d => q'[e] = q[e]
      /\ q'[d].present = q[d].present /\ q'[d].done = q[d].done /\ q'[d].ready = q[d].ready
      /\ q'[d].started = token + 1 /\ q'[d].cstart = q[d].cstart
  BY <1>1, <1>3 DEF RowType
<1>5. /\ r \in WorkType /\ r.pc = "prepare" /\ r.token = token + 1 /\ r.done = 0
  <2>1. q[d].attempts \in Nat /\ q[d].attempts + 1 \in Nat /\ token + 1 \in Nat
    BY <1>2, Typed
  <2> QED BY <2>1 DEF WorkType, Idle
<1> HIDE DEF r
<1>6. /\ wk' \in [Workers -> WorkType]
      /\ wk'[w] = r /\ \A v \in Workers : v # w => wk'[v] = wk[v]
  BY <1>1, <1>3, <1>5
<1>7. OwnerIsCurrent'
  <2>1. ASSUME NEW v \in Workers, wk'[v].pc = "store", Owns(v)' PROVE wk'[v].ver = source'[wk'[v].day]
    <3>1. v # w /\ wk'[v] = wk[v] /\ wk[v].token # token + 1
      BY <2>1, <1>2, <1>5, <1>6, Typed
    <3>2. wk[v].day # d
      BY <2>1, <3>1, <1>4 DEF Owns
    <3> QED BY <2>1, <3>1, <3>2, <1>1, <1>2, <1>4, Typed DEF OwnerIsCurrent, Owns
  <2>2. \A v \in Workers : wk'[v].pc \in {"prepare", "store"} => wk'[v].token # 0
    BY <1>2, <1>3, <1>5, <1>6 DEF OwnerIsCurrent
  <2> QED BY <2>1, <2>2 DEF OwnerIsCurrent
<1>8. /\ token' \in Nat /\ token <= token' /\ faults' \in Nat
      /\ q'[d].started <= token' /\ q'[d].cstart <= token'
  BY <1>1, <1>2, <1>3, <1>4, Typed
<1>9. \A v \in Workers : wk'[v].token <= token' /\ wk'[v].done <= token'
  BY <1>1, <1>2, <1>5, <1>6, Typed DEF DoneIsOld
<1>10. \A v \in Workers : wk'[v].pc = "ready" => wk'[v] = wk[v]
  BY <1>5, <1>6
<1>11. q'[d].ready => q[d].ready \/ (q[d].done # 0 /\ PageIsUpToDate(d))
  BY <1>4
<1> QED BY <1>1, <1>4, <1>5, <1>6, <1>7, <1>8, <1>9, <1>10, <1>11, RowStep, Zenon

(* _record_failure gives the day back only if the worker still owns it. *)
LEMMA FailStep ==
    ASSUME QueueInv, NEW w \in Workers, Fail(w)
    PROVE  QueueInv'
<1> DEFINE d == wk[w].day
<1>1. /\ token' = token + 1 /\ faults' = faults + 1
      /\ \/ q' = q
         \/ Owns(w) /\ q' = [q EXCEPT ![d].started = token + 1, ![d].lapsed = FALSE]
      /\ wk' = [wk EXCEPT ![w] = Idle]
      /\ UNCHANGED <<source, order, prod, made, page, ordi, render, changes, ordinaries, renders, late>>
  BY DEF Fail
<1>2. TypeOK /\ OwnerIsCurrent /\ DoneIsOld
  BY DEF QueueInv, QueueIsRight
<1>3. /\ q \in [Days -> RowType] /\ wk \in [Workers -> WorkType] /\ faults \in Nat /\ token \in Nat
      /\ d \in Days
  BY <1>2, Typed DEF TypeOK
<1> HIDE DEF d
<1>4. /\ q' \in [Days -> RowType] /\ \A e \in Days : e # d => q'[e] = q[e]
      /\ q'[d].present = q[d].present /\ q'[d].done = q[d].done /\ q'[d].ready = q[d].ready
      /\ q'[d].started = token + 1 \/ q' = q
      /\ q'[d].cstart = q[d].cstart
  BY <1>1, <1>3 DEF RowType
<1>5. /\ wk' \in [Workers -> WorkType]
      /\ wk'[w] = Idle /\ \A v \in Workers : v # w => wk'[v] = wk[v]
  <2>1. Idle \in WorkType
    BY DaysAssumption DEF WorkType, Idle
  <2> QED BY <1>1, <1>3, <2>1
<1>6. Idle.pc = "idle" /\ Idle.token = 0 /\ Idle.done = 0
  BY DEF Idle
<1>7. OwnerIsCurrent'
  <2>1. ASSUME NEW v \in Workers, wk'[v].pc = "store", Owns(v)' PROVE wk'[v].ver = source'[wk'[v].day]
    <3>1. v # w /\ wk'[v] = wk[v] /\ wk[v].token # token + 1
      BY <2>1, <1>2, <1>5, <1>6, Typed
    <3>2. wk[v].day # d \/ q' = q
      BY <2>1, <3>1, <1>4 DEF Owns
    <3> QED BY <2>1, <3>1, <3>2, <1>1, <1>2, <1>4, Typed DEF OwnerIsCurrent, Owns
  <2>2. \A v \in Workers : wk'[v].pc \in {"prepare", "store"} => wk'[v].token # 0
    BY <1>2, <1>5, <1>6 DEF OwnerIsCurrent
  <2> QED BY <2>1, <2>2 DEF OwnerIsCurrent
<1>8. /\ token' \in Nat /\ token <= token' /\ faults' \in Nat
      /\ q'[d].started <= token' /\ q'[d].cstart <= token'
  BY <1>1, <1>2, <1>3, <1>4, Typed
<1>9. \A v \in Workers : wk'[v].token <= token' /\ wk'[v].done <= token'
  BY <1>1, <1>2, <1>3, <1>5, <1>6, Typed DEF DoneIsOld
<1>10. \A v \in Workers : wk'[v].pc = "ready" => wk'[v] = wk[v]
  BY <1>5, <1>6
<1>11. q'[d].ready => q[d].ready \/ (q[d].done # 0 /\ PageIsUpToDate(d))
  BY <1>4
<1> QED BY <1>1, <1>3, <1>4, <1>5, <1>6, <1>7, <1>8, <1>9, <1>10, <1>11, RowStep, Zenon

(* _refresh_caches drops the pages of the day. *)
LEMMA RefreshCachesStep ==
    ASSUME QueueInv, NEW w \in Workers, RefreshCaches(w)
    PROVE  QueueInv'
<1>0. TypeOK /\ CompletedIsCurrent /\ OrderIsPending /\ ReadyIsVisible
      /\ OwnerIsCurrent /\ ReadyIsDone /\ DoneIsOld /\ ProdIsUpToDate /\ MarkerSawRefresh
  BY DEF QueueInv, QueueIsRight
<1>1. /\ page' = [d \in Days |-> 0]
      /\ wk' = [wk EXCEPT ![w].pc = "ready"]
      /\ wk[w].pc = "refresh"
      /\ UNCHANGED <<source, q, order, prod, made, ordi, render, token, changes,
                     ordinaries, renders, faults, late>>
  BY DEF RefreshCaches
<1>2. /\ wk' \in [Workers -> WorkType]
      /\ \A v \in Workers : /\ v # w => wk'[v] = wk[v]
                          /\ wk'[v].token = wk[v].token /\ wk'[v].done = wk[v].done
                          /\ wk'[v].day = wk[v].day
      /\ wk'[w].pc = "ready"
  <2>1. wk \in [Workers -> WorkType]
    BY <1>0 DEF TypeOK
  <2> QED BY <2>1, <1>1 DEF WorkType
<1>3. page' \in [Days -> Nat] /\ \A d \in Days : page'[d] = 0
  BY <1>1
<1>4. TypeOK'
  <2>1. \A v \in Workers : wk'[v].token <= token'
    BY <1>0, <1>1, <1>2, Typed
  <2> QED BY <2>1, <1>0, <1>1, <1>2, <1>3 DEF TypeOK
<1>5. CompletedIsCurrent' /\ OrderIsPending' /\ ReadyIsVisible' /\ ReadyIsDone' /\ ProdIsUpToDate'
  BY <1>0, <1>1, <1>3 DEF CompletedIsCurrent, OrderIsPending, ReadyIsVisible, ReadyIsDone,
         ProdIsUpToDate, PageIsUpToDate
<1>6. OwnerIsCurrent'
  BY <1>0, <1>1, <1>2 DEF OwnerIsCurrent, Owns
<1>7. DoneIsOld'
  BY <1>0, <1>1, <1>2 DEF DoneIsOld
<1>8. MarkerSawRefresh'
  BY <1>0, <1>2, <1>3, Typed DEF MarkerSawRefresh, PageIsUpToDate
<1> QED BY <1>4, <1>5, <1>6, <1>7, <1>8 DEF QueueInv, QueueIsRight

(* _mark_cache_ready: the completion is still the one whose pages were
   dropped. *)
LEMMA MarkCacheReadyStep ==
    ASSUME QueueInv, NEW w \in Workers, MarkCacheReady(w)
    PROVE  QueueInv'
<1>0. TypeOK /\ CompletedIsCurrent /\ OrderIsPending /\ ReadyIsVisible
      /\ OwnerIsCurrent /\ ReadyIsDone /\ DoneIsOld /\ ProdIsUpToDate /\ MarkerSawRefresh
  BY DEF QueueInv, QueueIsRight
<1> DEFINE d == wk[w].day
           r == [q[d] EXCEPT !.ready = TRUE, !.cstart = 0, !.clapsed = FALSE]
<1>1. /\ \/ q' = q
         \/ /\ q[d].done # 0 /\ q[d].done = wk[w].done
            /\ q' = [q EXCEPT ![d].ready = TRUE, ![d].cstart = 0, ![d].clapsed = FALSE]
      /\ wk[w].pc = "ready"
      /\ wk' = [wk EXCEPT ![w] = Idle]
      /\ UNCHANGED <<token, faults>>
      /\ UNCHANGED <<source, order, prod, made, page, ordi, render, changes, ordinaries, renders, late>>
  BY DEF MarkCacheReady
<1>2. /\ q \in [Days -> RowType] /\ wk \in [Workers -> WorkType] /\ faults \in Nat /\ token \in Nat
      /\ d \in Days
  BY <1>0, Typed DEF TypeOK
<1>3. q[d].done # 0 /\ q[d].done = wk[w].done => PageIsUpToDate(d)
  BY <1>0, <1>1 DEF MarkerSawRefresh
<1> HIDE DEF d
<1>4. /\ r \in RowType /\ q[d] \in RowType
      /\ r.present = q[d].present /\ r.done = q[d].done /\ r.started = q[d].started
      /\ r.cstart = 0 /\ r.attempts = q[d].attempts
  <2>1. q[d] \in RowType
    BY <1>2
  <2> QED BY <2>1 DEF RowType
<1>5. /\ q' \in [Days -> RowType] /\ \A e \in Days : e # d => q'[e] = q[e]
      /\ \/ q'[d] = q[d]
         \/ q'[d] = r /\ q[d].done # 0 /\ PageIsUpToDate(d)
  BY <1>1, <1>2, <1>3, <1>4
<1> HIDE DEF r
<1>6. /\ q'[d].present = q[d].present /\ q'[d].done = q[d].done /\ q'[d].started = q[d].started
      /\ q'[d].attempts = q[d].attempts
      /\ q'[d].cstart = q[d].cstart \/ q'[d].cstart = 0
  BY <1>4, <1>5
<1>7. q'[d].ready => q[d].ready \/ (q[d].done # 0 /\ PageIsUpToDate(d))
  BY <1>5
<1>8. /\ wk' \in [Workers -> WorkType]
      /\ wk'[w] = Idle /\ \A v \in Workers : v # w => wk'[v] = wk[v]
  <2>1. Idle \in WorkType
    BY DaysAssumption DEF WorkType, Idle
  <2> QED BY <1>1, <1>2, <2>1
<1>9. Idle.pc = "idle" /\ Idle.token = 0 /\ Idle.done = 0
  BY DEF Idle
<1>10. OwnerIsCurrent'
  <2>1. \A e \in Days : /\ q'[e].done = q[e].done /\ q'[e].started = q[e].started
                        /\ q'[e].attempts = q[e].attempts
    BY <1>5, <1>6
  <2>2. \A v \in Workers : wk[v].day \in Days /\ source'[wk[v].day] = source[wk[v].day]
    BY <1>0, <1>1, Typed
  <2>3. \A v \in Workers : v # w /\ Owns(v)' => Owns(v)
    BY <2>1, <2>2, <1>8 DEF Owns
  <2> QED BY <2>2, <2>3, <1>0, <1>8, <1>9 DEF OwnerIsCurrent
<1>11. /\ token' \in Nat /\ token <= token' /\ faults' \in Nat
       /\ q'[d].started <= token' /\ q'[d].cstart <= token'
  BY <1>0, <1>1, <1>2, <1>6, Typed
<1>12. \A v \in Workers : wk'[v].token <= token' /\ wk'[v].done <= token'
  BY <1>0, <1>1, <1>2, <1>8, <1>9, Typed DEF DoneIsOld
<1>13. \A v \in Workers : wk'[v].pc = "ready" => wk'[v] = wk[v]
  BY <1>8, <1>9
<1> QED BY <1>1, <1>2, <1>5, <1>6, <1>7, <1>8, <1>10, <1>11, <1>12, <1>13, RowStep, Zenon

(* A refresh outside the queue. *)
LEMMA OrdinaryStep ==
    ASSUME QueueInv, (\E d \in Days : OrdinaryCompute(d)) \/ OrdinaryStore
    PROVE  QueueInv'
<1>0. TypeOK /\ CompletedIsCurrent /\ OrderIsPending /\ ReadyIsVisible
      /\ OwnerIsCurrent /\ ReadyIsDone /\ DoneIsOld /\ ProdIsUpToDate /\ MarkerSawRefresh
  BY DEF QueueInv, QueueIsRight
<1>1. UNCHANGED <<source, q, order, made, page, wk, render, token, changes, renders, faults>>
  BY DEF OrdinaryCompute, OrdinaryStore
<1>2. /\ ordi \in SlowType /\ ordinaries \in Nat /\ source \in [Days -> Nat]
      /\ prod \in [Days -> Nat] /\ late \in [Days -> BOOLEAN]
  BY <1>0 DEF TypeOK, Versions
<1>3. /\ ordi' \in SlowType /\ ordinaries' \in Nat
      /\ prod' \in [Days -> Nat] /\ late' \in [Days -> BOOLEAN]
      /\ \A d \in Days : late[d] => late'[d]
      /\ \A d \in Days : late'[d] \/ prod'[d] >= made[d]
  <2>1. CASE \E d \in Days : OrdinaryCompute(d)
    <3>1. PICK d \in Days : OrdinaryCompute(d)
      BY <2>1
    <3>2. /\ ordi' = [busy |-> TRUE, day |-> d, ver |-> source[d]]
          /\ ordinaries' = ordinaries + 1 /\ UNCHANGED <<prod, late>>
      BY <3>1 DEF OrdinaryCompute
    <3> QED BY <3>2, <1>0, <1>2 DEF SlowType, ProdIsUpToDate
  <2>2. CASE OrdinaryStore
    <3>1. None \in SlowType
      BY DaysAssumption DEF None, SlowType
    <3>2. ordi.day \in Days /\ ordi.ver \in Nat
      BY <1>2 DEF SlowType
    <3>3. ordi' = None /\ ordinaries' = ordinaries
      BY <2>2 DEF OrdinaryStore
    <3>4. CASE OrdinaryReady
      <4>1. /\ prod' = [prod EXCEPT ![ordi.day] = ordi.ver]
            /\ late' = [late EXCEPT ![ordi.day] = @ \/ ordi.ver < made[ordi.day]]
        BY <2>2, <3>4 DEF OrdinaryStore
      <4>2. made \in [Days -> Nat]
        BY <1>0 DEF TypeOK
      <4>3. /\ prod' \in [Days -> Nat] /\ late' \in [Days -> BOOLEAN]
            /\ \A d \in Days : d # ordi.day => prod'[d] = prod[d] /\ late'[d] = late[d]
            /\ prod'[ordi.day] = ordi.ver
            /\ late'[ordi.day] = (late[ordi.day] \/ ordi.ver < made[ordi.day])
        BY <4>1, <3>2, <1>2
      <4>4. \A d \in Days : late[d] => late'[d]
        BY <4>3
      <4>5. late'[ordi.day] \/ prod'[ordi.day] >= made[ordi.day]
        BY <4>2, <4>3, <3>2
      <4> QED BY <4>3, <4>4, <4>5, <3>1, <3>3, <1>0, <1>2 DEF ProdIsUpToDate
    <3>5. CASE ~OrdinaryReady
      <4>1. UNCHANGED <<prod, late>>
        BY <2>2, <3>5 DEF OrdinaryStore
      <4> QED BY <4>1, <3>1, <3>3, <1>0, <1>2 DEF ProdIsUpToDate
    <3> QED BY <3>4, <3>5
  <2> QED BY <2>1, <2>2
<1>4. TypeOK'
  BY <1>0, <1>1, <1>3 DEF TypeOK
<1>5. CompletedIsCurrent' /\ OrderIsPending' /\ ReadyIsDone' /\ DoneIsOld'
  BY <1>0, <1>1 DEF CompletedIsCurrent, OrderIsPending, ReadyIsDone, DoneIsOld
<1>6. \A d \in Days : PageIsUpToDate(d) => PageIsUpToDate(d)'
  BY <1>1, <1>3 DEF PageIsUpToDate
<1>7. ReadyIsVisible' /\ ProdIsUpToDate'
  BY <1>0, <1>1, <1>3, <1>6 DEF ReadyIsVisible, ProdIsUpToDate
<1>8. OwnerIsCurrent'
  BY <1>0, <1>1 DEF OwnerIsCurrent, Owns
<1>9. MarkerSawRefresh'
  BY <1>0, <1>1, <1>6, Typed DEF MarkerSawRefresh
<1> QED BY <1>4, <1>5, <1>7, <1>8, <1>9 DEF QueueInv, QueueIsRight

(* A page rendered before a completion and stored after it makes the day
   late. *)
LEMMA PageStep ==
    ASSUME QueueInv, (\E d \in Days : RenderPage(d)) \/ StorePage
    PROVE  QueueInv'
<1>0. TypeOK /\ CompletedIsCurrent /\ OrderIsPending /\ ReadyIsVisible
      /\ OwnerIsCurrent /\ ReadyIsDone /\ DoneIsOld /\ ProdIsUpToDate /\ MarkerSawRefresh
  BY DEF QueueInv, QueueIsRight
<1>1. UNCHANGED <<source, q, order, prod, made, wk, ordi, token, changes, ordinaries, faults>>
  BY DEF RenderPage, StorePage
<1>2. /\ render \in SlowType /\ renders \in Nat /\ prod \in [Days -> Nat] /\ made \in [Days -> Nat]
      /\ page \in [Days -> Nat] /\ late \in [Days -> BOOLEAN]
  BY <1>0 DEF TypeOK
<1>3. /\ render' \in SlowType /\ renders' \in Nat
      /\ page' \in [Days -> Nat] /\ late' \in [Days -> BOOLEAN]
      /\ \A d \in Days : late[d] => late'[d]
      /\ \A d \in Days : PageIsUpToDate(d) => PageIsUpToDate(d)'
  <2>1. CASE \E d \in Days : RenderPage(d)
    <3>1. PICK d \in Days : RenderPage(d)
      BY <2>1
    <3>2. /\ render' = [busy |-> TRUE, day |-> d, ver |-> prod[d]]
          /\ renders' = renders + 1 /\ UNCHANGED <<page, late>>
      BY <3>1 DEF RenderPage
    <3> QED BY <3>2, <1>1, <1>2 DEF SlowType, PageIsUpToDate
  <2>2. CASE StorePage
    <3>1. None \in SlowType
      BY DaysAssumption DEF None, SlowType
    <3>2. render.day \in Days /\ render.ver \in Nat
      BY <1>2 DEF SlowType
    <3>3. /\ render' = None /\ renders' = renders
          /\ page' = [page EXCEPT ![render.day] = render.ver]
          /\ late' = [late EXCEPT ![render.day] = @ \/ render.ver # prod[render.day]]
      BY <2>2 DEF StorePage
    <3>4. /\ page' \in [Days -> Nat] /\ late' \in [Days -> BOOLEAN]
          /\ \A d \in Days : d # render.day => page'[d] = page[d] /\ late'[d] = late[d]
          /\ page'[render.day] = render.ver
          /\ late'[render.day] = (late[render.day] \/ render.ver # prod[render.day])
      BY <3>2, <3>3, <1>2
    <3>5. \A d \in Days : late[d] => late'[d]
      BY <3>4
    <3>6. late[render.day] \/ prod[render.day] >= made[render.day]
      BY <1>0, <3>2 DEF ProdIsUpToDate
    <3>7. \A d \in Days : PageIsUpToDate(d) => PageIsUpToDate(d)'
      BY <3>4, <3>6, <1>1 DEF PageIsUpToDate
    <3> QED BY <3>1, <3>3, <3>4, <3>5, <3>7, <1>2
  <2> QED BY <2>1, <2>2
<1>4. TypeOK'
  BY <1>0, <1>1, <1>3 DEF TypeOK
<1>5. CompletedIsCurrent' /\ OrderIsPending' /\ ReadyIsDone' /\ DoneIsOld'
  BY <1>0, <1>1 DEF CompletedIsCurrent, OrderIsPending, ReadyIsDone, DoneIsOld
<1>6. ReadyIsVisible' /\ ProdIsUpToDate'
  BY <1>0, <1>1, <1>3 DEF ReadyIsVisible, ProdIsUpToDate
<1>7. OwnerIsCurrent'
  BY <1>0, <1>1 DEF OwnerIsCurrent, Owns
<1>8. MarkerSawRefresh'
  BY <1>0, <1>1, <1>3, Typed DEF MarkerSawRefresh
<1> QED BY <1>4, <1>5, <1>6, <1>7, <1>8 DEF QueueInv, QueueIsRight

(* Nothing is queued at first. *)
LEMMA InitIsRight == Init => QueueInv
<1> SUFFICES ASSUME Init PROVE QueueInv
  OBVIOUS
<1>1. NoRow \in RowType /\ Idle \in WorkType /\ None \in SlowType
  BY DaysAssumption DEF NoRow, RowType, Idle, WorkType, None, SlowType
<1>2. order \in Seq(Days) /\ DOMAIN order = {}
  BY DEF Init
<1>3. /\ \A d \in Days : q[d] = NoRow /\ prod[d] = 0 /\ made[d] = 0 /\ page[d] = 0
      /\ \A w \in Workers : wk[w] = Idle
      /\ token = 0
  BY DEF Init
<1>4. /\ NoRow.started = 0 /\ NoRow.cstart = 0 /\ NoRow.done = 0 /\ ~NoRow.ready /\ ~NoRow.present
      /\ Idle.token = 0 /\ Idle.done = 0 /\ Idle.pc = "idle"
  BY DEF NoRow, Idle
<1>5. TypeOK
  <2>1. /\ source \in [Days -> Nat] /\ q \in [Days -> RowType]
        /\ prod \in [Days -> Nat] /\ made \in [Days -> Nat] /\ page \in [Days -> Nat]
        /\ wk \in [Workers -> WorkType] /\ ordi \in SlowType /\ render \in SlowType
        /\ changes \in Nat /\ ordinaries \in Nat /\ renders \in Nat /\ faults \in Nat
        /\ late \in [Days -> BOOLEAN]
    BY <1>1 DEF Init
  <2> QED BY <2>1, <1>2, <1>3, <1>4 DEF TypeOK, Versions
<1>6. CompletedIsCurrent /\ OrderIsPending /\ ReadyIsVisible
  BY <1>2, <1>3, <1>4 DEF CompletedIsCurrent, OrderIsPending, ReadyIsVisible
<1>7. OwnerIsCurrent /\ ReadyIsDone /\ DoneIsOld /\ MarkerSawRefresh
  BY <1>3, <1>4 DEF OwnerIsCurrent, ReadyIsDone, DoneIsOld, MarkerSawRefresh
<1>8. ProdIsUpToDate
  BY <1>3 DEF ProdIsUpToDate
<1> QED BY <1>5, <1>6, <1>7, <1>8 DEF QueueInv, QueueIsRight

(* Every step keeps the inductive invariant. *)
LEMMA StepIsRight == QueueInv /\ [Next]_vars => QueueInv'
<1> SUFFICES ASSUME QueueInv, [Next]_vars PROVE QueueInv'
  OBVIOUS
<1>1. ASSUME NEW d \in Days, ChangeAttendance(d) \/ RequestAgain(d) PROVE QueueInv'
  BY <1>1, RequestStep
<1>2. ASSUME NEW d \in Days, LeaseLapses(d) \/ LapsesEarly(d) PROVE QueueInv'
  BY <1>2, LapseStep
<1>3. ASSUME NEW w \in Workers, NEW d \in Days, ClaimCache(w, d) PROVE QueueInv'
  BY <1>3, ClaimCacheStep
<1>4. ASSUME NEW w \in Workers, NEW d \in Days, ClaimNext(w, d) PROVE QueueInv'
  BY <1>4, ClaimNextStep
<1>5. ASSUME NEW w \in Workers, Prepare(w) \/ Complete(w) PROVE QueueInv'
  BY <1>5, PrepareStep, CompleteStep
<1>6. ASSUME NEW w \in Workers, Superseded(w) \/ Crash(w) \/ Fail(w) PROVE QueueInv'
  BY <1>6, LeaveStep, FailStep
<1>7. ASSUME NEW w \in Workers, RefreshCaches(w) \/ MarkCacheReady(w) PROVE QueueInv'
  BY <1>7, RefreshCachesStep, MarkCacheReadyStep
<1>8. CASE UNCHANGED vars
  BY <1>8 DEF vars, QueueInv, QueueIsRight, TypeOK, CompletedIsCurrent, OrderIsPending,
     ReadyIsVisible, PageIsUpToDate, OwnerIsCurrent, Owns, ReadyIsDone, DoneIsOld,
     ProdIsUpToDate, MarkerSawRefresh
<1> QED BY <1>1, <1>2, <1>3, <1>4, <1>5, <1>6, <1>7, <1>8, RequestCutoverStep, OrdinaryStep,
           PageStep DEF Next, Process

(* The invariant holds in every reachable state. *)
THEOREM QueueInvariant == Spec => []QueueInv
BY InitIsRight, StepIsRight, PTL DEF Spec

(* For every set of days and workers: the values are of their types, a completed
   day was computed from its attendance as it is now, exactly the unfinished days
   wait, and a ready day is on the pages (attendance_recalc.py _complete_claim,
   _mark_cache_ready). *)
THEOREM QueueCorrect == Spec => []QueueIsRight
<1>1. QueueInv => QueueIsRight
  BY DEF QueueInv
<1> QED BY <1>1, QueueInvariant, PTL

(***************************************************************************)
(* The ledger of days                                                      *)
(***************************************************************************)
(* A step that neither completes a day nor changes its attendance. *)
LEMMA LedgerStutters ==
    ASSUME QueueInv, QueueInv', source' = source, made' = made,
           \A d \in Days : q'[d].done = q[d].done
    PROVE  Published' = Published
BY DEF Published

(* A request makes the day pending; completing it publishes it. *)
LEMMA LedgerRequest ==
    ASSUME QueueInv, NEW d \in Days, Enqueue(d) \/ (RequestCutover /\ d = CutoverDay), made' = made
    PROVE  Published' = [Published EXCEPT ![d] = 0]
<1>1. q \in [Days -> RowType]
  BY DEF QueueInv, QueueIsRight, TypeOK
<1>2. q'[d].done = 0 /\ \A e \in Days : e # d => q'[e] = q[e]
  <2>1. CASE Enqueue(d)
    BY <2>1, EnqueueEffect
  <2>2. CASE RequestCutover /\ d = CutoverDay
    <3>1. q' = [q EXCEPT ![d] = [NoRow EXCEPT !.present = TRUE]]
      BY <2>2 DEF RequestCutover
    <3> QED BY <3>1, <1>1 DEF NoRow
  <2> QED BY <2>1, <2>2
<1> QED BY <1>2 DEF Published

(* A completion publishes the version of the attendance as it is now. *)
LEMMA LedgerPublish ==
    ASSUME QueueInv, NEW w \in Workers, Complete(w)
    PROVE  /\ Published[wk[w].day] = 0
           /\ Published' = [Published EXCEPT ![wk[w].day] = source[wk[w].day]]
           /\ source' = source
<1> DEFINE d == wk[w].day
<1>1. /\ q \in [Days -> RowType] /\ made \in [Days -> Nat] /\ token \in Nat
      /\ d \in Days /\ q[d].done = 0 /\ wk[w].ver = source[d]
  BY Typed DEF QueueInv, QueueIsRight, TypeOK, Complete, Owns, OwnerIsCurrent
<1>2. /\ made' = [made EXCEPT ![d] = wk[w].ver]
      /\ q' = [q EXCEPT ![d] = [@ EXCEPT !.done = token + 1, !.started = 0, !.lapsed = FALSE,
                                         !.cstart = token + 1, !.clapsed = FALSE]]
      /\ source' = source
  BY DEF Complete
<1> HIDE DEF d
<1>3. /\ \A e \in Days : e # d => q'[e] = q[e] /\ made'[e] = made[e]
      /\ q'[d].done = token + 1 /\ token + 1 # 0 /\ made'[d] = source[d]
  <2>1. q[d] \in RowType /\ q'[d] = [q[d] EXCEPT !.done = token + 1, !.started = 0, !.lapsed = FALSE,
                                         !.cstart = token + 1, !.clapsed = FALSE]
    BY <1>1, <1>2
  <2>2. q'[d].done = token + 1
    BY <2>1 DEF RowType
  <2> QED BY <2>2, <1>1, <1>2
<1>4. Published[d] = 0 /\ Published' = [Published EXCEPT ![d] = source[d]]
  BY <1>1, <1>3 DEF Published
<1> QED BY <1>2, <1>4 DEF d

(* Every step of the queue is a step of the day ledger or a stutter. *)
LEMMA LedgerStep ==
    ASSUME QueueInv, QueueInv', [Next]_vars
    PROVE  [Ledger!Next]_<<source, Published>>
<1> DEFINE Stutter == source' = source /\ Published' = Published
<1>1. ASSUME NEW d \in Days, ChangeAttendance(d) PROVE Ledger!Change(d)
  BY <1>1, LedgerRequest DEF ChangeAttendance, Ledger!Change, Next1
<1>2. ASSUME NEW d \in Days, RequestAgain(d) PROVE Ledger!Request(d)
  BY <1>2, LedgerRequest DEF RequestAgain, Ledger!Request
<1>3. ASSUME RequestCutover PROVE Ledger!Request(CutoverDay)
  BY <1>3, LedgerRequest, DaysAssumption DEF RequestCutover, Ledger!Request
<1>4. ASSUME NEW w \in Workers, Complete(w) PROVE wk[w].day \in Days /\ Ledger!Publish(wk[w].day)
  BY <1>4, LedgerPublish, Typed DEF Ledger!Publish, QueueInv, QueueIsRight
<1>5. q \in [Days -> RowType] /\ wk \in [Workers -> WorkType]
  BY DEF QueueInv, QueueIsRight, TypeOK
<1>6. ASSUME NEW d \in Days, LeaseLapses(d) \/ LapsesEarly(d) PROVE Stutter
  <2>1. /\ source' = source /\ made' = made
        /\ q' = [q EXCEPT ![d].lapsed = TRUE] \/ q' = [q EXCEPT ![d].clapsed = TRUE]
    BY <1>6 DEF LeaseLapses, LapsesEarly, Lapse
  <2>2. \A e \in Days : q'[e].done = q[e].done
    BY <2>1, <1>5 DEF RowType
  <2> QED BY <2>1, <2>2, LedgerStutters
<1>7. ASSUME NEW w \in Workers, NEW d \in Days, ClaimCache(w, d) \/ ClaimNext(w, d) PROVE Stutter
  <2>1. /\ source' = source /\ made' = made
        /\ \/ q' = [q EXCEPT ![d].cstart = token + 1, ![d].clapsed = FALSE]
           \/ q' = [q EXCEPT ![d].started = token + 1, ![d].lapsed = FALSE, ![d].attempts = @ + 1]
    BY <1>7 DEF ClaimCache, ClaimNext
  <2>2. \A e \in Days : q'[e].done = q[e].done
    BY <2>1, <1>5 DEF RowType
  <2> QED BY <2>1, <2>2, LedgerStutters
<1>8. ASSUME NEW w \in Workers, Fail(w) \/ MarkCacheReady(w) PROVE Stutter
  <2> DEFINE d == wk[w].day
  <2>1. /\ source' = source /\ made' = made
        /\ \/ q' = q
           \/ q' = [q EXCEPT ![d].started = token + 1, ![d].lapsed = FALSE]
           \/ q' = [q EXCEPT ![d].ready = TRUE, ![d].cstart = 0, ![d].clapsed = FALSE]
    BY <1>8 DEF Fail, MarkCacheReady
  <2>2. \A e \in Days : q'[e].done = q[e].done
    BY <2>1, <1>5 DEF RowType
  <2> QED BY <2>1, <2>2, LedgerStutters
<1>9. ASSUME UNCHANGED <<source, q, made>> PROVE Stutter
  BY <1>9, LedgerStutters
<1>10. ASSUME NEW w \in Workers, Prepare(w) \/ Superseded(w) \/ RefreshCaches(w) \/ Crash(w)
       PROVE  Stutter
  BY <1>10, <1>9 DEF Prepare, Superseded, RefreshCaches, Crash
<1>11. ASSUME OrdinaryStore \/ StorePage \/ (\E d \in Days : OrdinaryCompute(d) \/ RenderPage(d))
       PROVE  Stutter
  BY <1>11, <1>9 DEF OrdinaryStore, StorePage, OrdinaryCompute, RenderPage
<1>12. CASE UNCHANGED vars
  BY <1>12, <1>9 DEF vars
<1>13. CASE Next
  <2>1. Ledger!Next \/ Stutter
    BY <1>1, <1>2, <1>3, <1>4, <1>6, <1>7, <1>8, <1>10, <1>11, <1>13, DaysAssumption
       DEF Next, Process, Ledger!Next
  <2> QED BY <2>1
<1> QED BY <1>12, <1>13

(* The queue implements the ledger of days: a change of a day's attendance makes
   its production pending in the same step, and what is published is what the
   day's attendance gives as it is now. *)
THEOREM LedgerImplemented == Spec => LedgerSpec
<1>1. Init => Ledger!Init
  <2>1. ASSUME Init PROVE source \in [Days -> Versions] /\ Published = [d \in Days |-> 0]
    BY <2>1 DEF Init, Published, NoRow, Versions
  <2> QED BY <2>1 DEF Ledger!Init
<1>2. QueueInv /\ QueueInv' /\ [Next]_vars => [Ledger!Next]_<<source, Published>>
  BY LedgerStep
<1> QED BY <1>1, <1>2, QueueInvariant, PTL DEF Spec, LedgerSpec, Ledger!Spec

(***************************************************************************)
(* THE MIRROR                                                              *)
(***************************************************************************)
(***************************************************************************)
(* The largest of a set of bounded numbers.                                *)
(***************************************************************************)
LEMMA LeastIn ==
    ASSUME NEW T \in SUBSET Nat, T # {}
    PROVE  \E x \in T : \A y \in T : x <= y
<1>1. PICK x \in T : \A y \in T : ~(<<y, x>> \in OpToRel(<, Nat))
  BY NatLessThanWellFounded, WFMin
<1>2. \A y \in T : ~(y < x)
  BY <1>1 DEF OpToRel
<1> QED BY <1>2

LEMMA MaxIs ==
    ASSUME NEW n \in Nat, NEW S \in SUBSET (0..n), S # {}
    PROVE  Max(S) \in S /\ \A y \in S : Max(S) >= y
<1> DEFINE T == {n - x : x \in S}
<1>1. T \in SUBSET Nat /\ T # {}
  <2>1. \A x \in S : x \in 0..n /\ n - x \in Nat
    OBVIOUS
  <2>2. \A y \in T : y \in Nat
    BY <2>1
  <2>3. PICK x \in S : TRUE
    OBVIOUS
  <2>4. n - x \in T
    OBVIOUS
  <2> QED BY <2>2, <2>4
<1>2. PICK t \in T : \A y \in T : t <= y
  BY <1>1, LeastIn
<1>3. PICK x \in S : t = n - x
  BY <1>2
<1>4. \A y \in S : x >= y
  <2> TAKE y \in S
  <2>1. n - y \in T /\ n - x \in T
    OBVIOUS
  <2>2. n - x <= n - y
    BY <1>2, <1>3, <2>1
  <2> QED BY <2>2
<1> QED BY <1>4 DEF Max

LEMMA LaterOfTwo ==
    ASSUME NEW a \in Nat, NEW b \in Nat
    PROVE  /\ Max({a, b}) \in {a, b}
           /\ a <= Max({a, b}) /\ b <= Max({a, b})
<1>1. {a, b} \in SUBSET (0..(a + b)) /\ {a, b} # {} /\ a + b \in Nat
  OBVIOUS
<1>2. Max({a, b}) \in {a, b} /\ \A y \in {a, b} : Max({a, b}) >= y
  BY <1>1, MaxIs
<1> QED BY <1>2

(***************************************************************************)
(* The mirror's own state changes: nothing of Odoo, of the copies and of   *)
(* the runs.                                                               *)
(***************************************************************************)
Kept == <<now, odoo, mirror, run, dw, stale, missing, hides, directs>>

LEMMA KeptStep ==
    ASSUME AttendanceInv, MirrorTypeOK', UNCHANGED Kept,
           st'.cursor = st.cursor, UnqueuedIsComputed',
           tx' = tx \/ ~tx'.busy
    PROVE  AttendanceInv'
<1>1. OdooInv'
  BY DEF AttendanceInv, OdooInv, Kept
<1>2. CopyInv'
  BY DEF AttendanceInv, CopyInv, Kept
<1>3. AbsentInv' /\ TombstoneIsTrue'
  BY DEF AttendanceInv, AbsentInv, TombstoneIsTrue, Absent, Visible, Active, Kept
<1>4. hides' = 0 /\ directs' = 0 => VersionInv' /\ CursorInv' /\ FreshInv'
  BY DEF AttendanceInv, VersionInv, CursorInv, FreshInv, Mirrored, Visible, Before, AtMost, Key, Kept
<1> QED BY <1>1, <1>2, <1>3, <1>4 DEF AttendanceInv

LEMMA MirrorStarts == MirrorInit => AttendanceInv
<1> SUFFICES ASSUME MirrorInit PROVE AttendanceInv
  OBVIOUS
<1> USE MirrorAssumption DEF MirrorInit
<1>1. NoAtt \in AttType /\ NoCopy \in CopyType /\ NoRun \in RunType({})
      /\ NoDirect \in DirectType
  <2>1. NoRows \in [{} -> AttType]
    BY DEF NoRows
  <2> QED BY <2>1 DEF NoAtt, NoCopy, NoRun, NoDirect, AttType, CopyType, RunType, DirectType,
                      IncPhases, SweepPhases
<1>2. DOMAIN run.got = {}
  BY DEF NoRun, NoRows
<1>3. MirrorTypeOK
  <2>1. st \in [cursor : 0..MaxTime, inc : BOOLEAN, sweep : BOOLEAN, base : BOOLEAN,
                err : SUBSET Owners]
    OBVIOUS
  <2>2. tx \in [busy : BOOLEAN, id : Ids \cup {0}, att : AttType]
    BY <1>1 DEF NoTx
  <2>3. tk \in [pc : {"idle", "inc", "sweep", "base"}, due : BOOLEAN, ok : BOOLEAN]
    BY DEF NoTick
  <2> QED BY <1>1, <1>2, <2>1, <2>2, <2>3 DEF MirrorTypeOK, Owners
<1>4. OdooInv
  BY DEF OdooInv, NoAtt, NoTx
<1>5. CopyInv
  BY <1>2 DEF CopyInv, NoCopy, NoRun, NoDirect
<1>6. AbsentInv /\ TombstoneIsTrue
  BY DEF AbsentInv, TombstoneIsTrue, NoCopy, NoRun, NoDirect
<1>7. UnqueuedIsComputed
  BY DEF UnqueuedIsComputed, View, Active, NoCopy
<1>8. VersionInv /\ CursorInv /\ FreshInv
  BY <1>2 DEF VersionInv, CursorInv, FreshInv, NoAtt, NoCopy, NoRun, Visible, Mirrored
<1> QED BY <1>3, <1>4, <1>5, <1>6, <1>7, <1>8 DEF AttendanceInv


(***************************************************************************)
(* Odoo                                                                    *)
(***************************************************************************)
(* A row is written, at once or by a transaction that ends. *)
LEMMA WrittenStep ==
    ASSUME AttendanceInv, NEW i \in Ids, NEW new \in AttType,
           new.there, new.shown, new.ver = odoo[i].ver + 1, new.day \in WorkDays,
           0 < new.wd, odoo[i].wd <= new.wd, new.wd <= now, now <= new.wd + Overlap,
           odoo[i].ver = 0 \/ Visible(i),
           ~tx'.busy \/ (tx' = tx /\ tx.id # i), tx' \in [busy : BOOLEAN, id : Ids \cup {0}, att : AttType],
           odoo' = [odoo EXCEPT ![i] = new], Unseen({"inc"}), edits' \in Nat,
           UNCHANGED <<now, appVars, missing, hides, troubles, directs>>
    PROVE  AttendanceInv'
<1> USE DEF appVars, Unseen
<1>0. /\ odoo \in [Ids -> AttType] /\ run \in RunType(DOMAIN run.got) /\ stale \subseteq Owners
      /\ DOMAIN run.got \subseteq Ids
  BY DEF AttendanceInv, MirrorTypeOK
<1>1. /\ odoo' \in [Ids -> AttType]
      /\ odoo'[i] = new /\ \A j \in Ids : j # i => odoo'[j] = odoo[j]
  BY <1>0
<1>2. /\ run' \in RunType(DOMAIN run.got) /\ ~run'.fresh
      /\ run'.got = run.got /\ run'.pc = run.pc /\ run'.obs = run.obs /\ run'.ids = run.ids
      /\ run'.lo = run.lo /\ run'.hi = run.hi /\ run'.top = run.top
  BY <1>0 DEF RunType
<1>3. stale' \subseteq Owners /\ "inc" \in stale'
  BY <1>0 DEF Owners
<1>4. MirrorTypeOK'
  BY <1>1, <1>2, <1>3 DEF AttendanceInv, MirrorTypeOK
<1>5. OdooInv'
  <2>1. \A j \in Ids : /\ odoo'[j].wd <= now /\ missing[j] <= now
                       /\ odoo'[j].there => odoo'[j].ver > 0 /\ odoo'[j].wd > 0 /\ odoo'[j].day \in WorkDays
    BY <1>0, <1>1 DEF AttendanceInv, OdooInv, AttType
  <2> QED BY <1>1, <2>1 DEF AttendanceInv, OdooInv
<1>6. CopyInv'
  <2>1. \A j \in Ids : odoo[j].ver > 0 => odoo'[j].ver > 0
    BY <1>0, <1>1 DEF AttType
  <2> QED BY <1>0, <1>2, <2>1 DEF AttendanceInv, CopyInv
<1>7. \A j \in Ids, t \in 0..MaxTime : mirror[j].known /\ Absent(j, t) => Absent(j, t)'
  <2>1. \A j \in Ids : mirror[j].known /\ Visible(j)' => Visible(j)
    BY <1>0, <1>1 DEF AttendanceInv, CopyInv, Visible, AttType
  <2> QED BY <2>1 DEF Absent
<1>8. AbsentInv' /\ TombstoneIsTrue'
  <2>1. \A j \in Ids : mirror[j].deleted \in 0..MaxTime /\ (mirror[j].deleted # 0 => mirror[j].known)
    BY DEF AttendanceInv, CopyInv, MirrorTypeOK, CopyType
  <2>2. run.obs \in 0..MaxTime /\ dw.obs \in 0..MaxTime
    BY DEF AttendanceInv, MirrorTypeOK, RunType, DirectType
  <2>3. TombstoneIsTrue'
    BY <1>7, <2>1 DEF AttendanceInv, TombstoneIsTrue
  <2>4. Active' = Active /\ \A j \in Active : j \in Ids /\ mirror[j].known
    BY DEF Active
  <2>5. dw.pc = "store" => dw.id \in Ids /\ mirror[dw.id].known
    BY DEF AttendanceInv, CopyInv
  <2> QED BY <1>2, <1>7, <2>2, <2>3, <2>4, <2>5 DEF AttendanceInv, AbsentInv
<1>9. UnqueuedIsComputed'
  BY DEF AttendanceInv, UnqueuedIsComputed, View, Active
<1>10. ASSUME hides = 0, directs = 0 PROVE VersionInv' /\ CursorInv' /\ FreshInv'
  <2>0. VersionInv /\ CursorInv /\ FreshInv
    BY <1>10 DEF AttendanceInv
  <2>1. \A j \in Ids : odoo[j].ver <= odoo'[j].ver /\ odoo[j].wd <= odoo'[j].wd
    BY <1>0, <1>1 DEF AttType
  <2>2. \A j \in Ids : mirror[j] \in CopyType /\ odoo[j] \in AttType /\ odoo'[j] \in AttType
    BY <1>0, <1>1 DEF AttendanceInv, MirrorTypeOK
  <2>3. \A j \in DOMAIN run.got : run.got[j] \in AttType /\ j \in Ids
    BY <1>0 DEF RunType
  <2>4. VersionInv'
    <3>1. missing[i] = 0 /\ mirror[i].deleted = 0
      <4>1. missing[i] # 0 \/ mirror[i].deleted # 0 => ~Visible(i) /\ odoo[i].ver # 0
        BY <2>0, <2>2 DEF AttendanceInv, VersionInv, Visible, OdooInv, CopyInv, AttType
      <4> QED BY <4>1
    <3>2. \A j \in Ids : /\ odoo'[j].shown
                         /\ missing[j] # 0 \/ mirror[j].deleted # 0 => ~odoo'[j].there
      BY <1>1, <2>0, <3>1 DEF VersionInv
    <3>3. \A j \in Ids : mirror[j].known => mirror[j].ver <= odoo'[j].ver /\ mirror[j].wd <= odoo'[j].wd
      BY <2>0, <2>1, <2>2 DEF VersionInv, CopyType, AttType
    <3>4. \A j \in DOMAIN run.got : run.got[j].ver <= odoo'[j].ver /\ run.got[j].wd <= odoo'[j].wd
      BY <2>0, <2>1, <2>2, <2>3 DEF VersionInv, AttType
    <3> QED BY <1>2, <2>0, <3>2, <3>3, <3>4 DEF VersionInv
  <2>5. CursorInv'
    <3> SUFFICES ASSUME NEW j \in Ids, Visible(j)', ~Mirrored(j)'
                 PROVE  /\ st.cursor = 0 \/ odoo'[j].wd >= st.cursor - Overlap
                        /\ run.pc \in {"page", "open", "store"} =>
                             \/ j \in DOMAIN run.got /\ run.got[j].ver = odoo'[j].ver
                             \/ run.pc = "page" /\ Before(run.lo, Key(j)') /\ AtMost(Key(j)', run.hi)
                             \/ odoo'[j].wd >= now - Overlap
      BY <1>2 DEF CursorInv
    <3>1. CASE j = i
      <4>1. odoo'[j].wd >= now - Overlap /\ st.cursor <= now /\ st.cursor \in Nat /\ now \in Nat
        BY <1>1, <3>1, MirrorAssumption DEF AttendanceInv, MirrorTypeOK, CopyInv, AttType
      <4>2. odoo'[j].wd >= st.cursor - Overlap
        BY <4>1, <2>2, MirrorAssumption DEF AttType
      <4> QED BY <4>1, <4>2
    <3>2. CASE j # i
      <4>1. odoo'[j] = odoo[j]
        BY <1>1, <3>2
      <4>2. Visible(j) /\ ~Mirrored(j) /\ Key(j)' = Key(j)
        BY <4>1 DEF Visible, Mirrored, Key
      <4> QED BY <2>0, <4>1, <4>2 DEF CursorInv
    <3> QED BY <3>1, <3>2
  <2>6. FreshInv'
    <3>1. \A j \in Ids : Visible(j) => Visible(j)'
      BY <1>1 DEF Visible
    <3>2. "sweep" \notin stale' => "sweep" \notin stale
      OBVIOUS
    <3> QED BY <1>2, <1>3, <2>0, <2>3, <3>1, <3>2 DEF FreshInv
  <2> QED BY <2>4, <2>5, <2>6
<1> QED BY <1>4, <1>5, <1>6, <1>8, <1>9, <1>10 DEF AttendanceInv

(* A row is deleted, or goes out of sight, or comes back. *)
LEMMA SeenStep ==
    ASSUME AttendanceInv, NEW i \in Ids, odoo[i].there,
           \/ odoo' = [odoo EXCEPT ![i].there = FALSE, ![i].open = FALSE]
           \/ hides' # 0 /\ odoo' = [odoo EXCEPT ![i].shown = FALSE]
           \/ ~odoo[i].shown /\ odoo' = [odoo EXCEPT ![i].shown = TRUE],
           missing' = [missing EXCEPT ![i] = now],
           Untouched(i) \/ ~odoo[i].shown,
           hides' \in Nat, hides <= hides', edits' \in Nat, Unseen({"sweep"}),
           UNCHANGED <<now, tx, appVars, troubles, directs>>
    PROVE  AttendanceInv'
<1> USE DEF appVars, Unseen
<1>0. /\ odoo \in [Ids -> AttType] /\ run \in RunType(DOMAIN run.got) /\ stale \subseteq Owners
      /\ DOMAIN run.got \subseteq Ids /\ missing \in [Ids -> 0..MaxTime]
      /\ hides \in Nat /\ now \in 1..MaxTime
  BY DEF AttendanceInv, MirrorTypeOK
<1>1. /\ odoo' \in [Ids -> AttType] /\ odoo'[i].there \in BOOLEAN
      /\ odoo'[i].wd = odoo[i].wd /\ odoo'[i].ver = odoo[i].ver /\ odoo'[i].day = odoo[i].day
      /\ \A j \in Ids : j # i => odoo'[j] = odoo[j]
  <2>1. odoo[i] \in AttType
    BY <1>0
  <2>2. CASE odoo' = [odoo EXCEPT ![i].there = FALSE, ![i].open = FALSE]
    <3> DEFINE new == [odoo[i] EXCEPT !.there = FALSE, !.open = FALSE]
    <3>1. odoo' = [odoo EXCEPT ![i] = new]
      BY <1>0, <2>1, <2>2 DEF AttType
    <3>2. /\ new \in AttType /\ new.there \in BOOLEAN
          /\ new.wd = odoo[i].wd /\ new.ver = odoo[i].ver /\ new.day = odoo[i].day
      BY <2>1 DEF AttType
    <3> HIDE DEF new
    <3> QED BY <1>0, <3>1, <3>2
  <2>3. CASE odoo' = [odoo EXCEPT ![i].shown = FALSE]
    BY <1>0, <2>1, <2>3 DEF AttType
  <2>4. CASE odoo' = [odoo EXCEPT ![i].shown = TRUE]
    BY <1>0, <2>1, <2>4 DEF AttType
  <2> QED BY <2>2, <2>3, <2>4
<1>2. /\ run' \in RunType(DOMAIN run.got) /\ ~run'.fresh
      /\ run'.got = run.got /\ run'.pc = run.pc /\ run'.obs = run.obs /\ run'.ids = run.ids
      /\ run'.lo = run.lo /\ run'.hi = run.hi /\ run'.top = run.top
  BY <1>0 DEF RunType
<1>3. stale' \subseteq Owners /\ "sweep" \in stale' /\ stale \subseteq stale'
      /\ ("inc" \in stale' => "inc" \in stale)
  BY <1>0 DEF Owners
<1>4. /\ missing' \in [Ids -> 0..MaxTime] /\ missing'[i] = now
      /\ \A j \in Ids : j # i => missing'[j] = missing[j]
  BY <1>0
<1>5. MirrorTypeOK'
  BY <1>1, <1>2, <1>3, <1>4 DEF AttendanceInv, MirrorTypeOK
<1>6. \A j \in Ids : odoo'[j].ver = odoo[j].ver /\ odoo'[j].wd = odoo[j].wd /\ odoo'[j].day = odoo[j].day
  BY <1>1
<1>7. OdooInv'
  <2>1. odoo[i].ver > 0 /\ odoo[i].wd > 0 /\ odoo[i].day \in WorkDays
    BY DEF AttendanceInv, OdooInv
  <2>2. \A j \in Ids : /\ odoo'[j].wd <= now /\ missing'[j] <= now
                       /\ odoo'[j].there => odoo'[j].ver > 0 /\ odoo'[j].wd > 0 /\ odoo'[j].day \in WorkDays
                       /\ missing'[j] # 0 => odoo'[j].ver > 0
    BY <1>0, <1>1, <1>4, <2>1 DEF AttendanceInv, OdooInv
  <2>3. ASSUME tx.busy PROVE tx.id # i
    BY <2>1, <2>3, <1>0 DEF Untouched, AttendanceInv, OdooInv, AttType
  <2>4. tx.busy => tx.id \in Ids
    BY DEF AttendanceInv, OdooInv
  <2> QED BY <1>1, <2>2, <2>3, <2>4 DEF AttendanceInv, OdooInv
<1>8. CopyInv'
  BY <1>0, <1>2, <1>6 DEF AttendanceInv, CopyInv
<1>9. \A j \in Ids, t \in 0..MaxTime : t <= now /\ Absent(j, t) => Absent(j, t)'
  BY <1>0, <1>1, <1>4 DEF Absent, Visible
<1>10. AbsentInv' /\ TombstoneIsTrue'
  <2>1. \A j \in Ids : mirror[j].deleted \in 0..MaxTime /\ mirror[j].deleted <= now
    BY DEF AttendanceInv, CopyInv, MirrorTypeOK, CopyType
  <2>2. /\ run.obs \in 0..MaxTime /\ (run.pc # "idle" => run.obs <= now)
        /\ dw.obs \in 0..MaxTime /\ (dw.pc # "idle" => dw.obs <= now)
    BY DEF AttendanceInv, MirrorTypeOK, RunType, DirectType, CopyInv
  <2>3. TombstoneIsTrue'
    BY <1>9, <2>1 DEF AttendanceInv, TombstoneIsTrue
  <2>4. Active' = Active /\ \A j \in Active : j \in Ids
    BY DEF Active
  <2>5. dw.pc = "store" => dw.id \in Ids
    BY DEF AttendanceInv, CopyInv
  <2> QED BY <1>2, <1>9, <2>2, <2>3, <2>4, <2>5 DEF AttendanceInv, AbsentInv
<1>11. UnqueuedIsComputed'
  BY DEF AttendanceInv, UnqueuedIsComputed, View, Active
<1>12. ASSUME hides' = 0, directs = 0 PROVE VersionInv' /\ CursorInv' /\ FreshInv'
  <2>0. VersionInv /\ CursorInv /\ FreshInv /\ hides = 0
    BY <1>0, <1>12 DEF AttendanceInv
  <2>1. ~odoo'[i].there /\ odoo'[i].shown = odoo[i].shown
    <3>1. odoo[i].shown /\ odoo[i] \in AttType
      BY <1>0, <2>0 DEF VersionInv
    <3>2. odoo' = [odoo EXCEPT ![i].there = FALSE, ![i].open = FALSE]
      BY <1>12, <3>1
    <3>3. odoo'[i] = [odoo[i] EXCEPT !.there = FALSE, !.open = FALSE]
      BY <1>0, <3>1, <3>2 DEF AttType
    <3> QED BY <3>1, <3>3 DEF AttType
  <2>2. VersionInv'
    <3>1. \A j \in Ids : /\ odoo'[j].shown
                         /\ missing'[j] # 0 \/ mirror[j].deleted # 0 => ~odoo'[j].there
      BY <1>1, <1>4, <2>0, <2>1 DEF VersionInv
    <3> QED BY <1>0, <1>2, <1>6, <2>0, <3>1 DEF VersionInv
  <2>3. \A j \in Ids : Visible(j)' => j # i /\ Visible(j) /\ odoo'[j] = odoo[j]
    BY <1>1, <2>1 DEF Visible
  <2>4. CursorInv'
    <3>1. \A j \in Ids : Visible(j)' /\ ~Mirrored(j)' =>
             Visible(j) /\ ~Mirrored(j) /\ Key(j)' = Key(j) /\ odoo'[j] = odoo[j]
      BY <2>3 DEF Mirrored, Key
    <3> QED BY <1>2, <2>0, <3>1 DEF CursorInv
  <2>5. FreshInv'
    <3>1. \A j \in Ids : Visible(j)' /\ Mirrored(j) => Mirrored(j)'
      BY <2>3 DEF Mirrored
    <3> QED BY <1>2, <1>3, <2>0, <2>3, <3>1 DEF FreshInv
  <2> QED BY <2>2, <2>4, <2>5
<1> QED BY <1>5, <1>7, <1>8, <1>10, <1>11, <1>12 DEF AttendanceInv

(* What happens in Odoo. *)
LEMMA OdooStep == AttendanceInv /\ Odoo => AttendanceInv'
<1> SUFFICES ASSUME AttendanceInv, Odoo PROVE AttendanceInv'
  OBVIOUS
<1>0. /\ odoo \in [Ids -> AttType] /\ now \in 1..MaxTime /\ hides \in Nat /\ edits \in Nat
      /\ tx \in [busy : BOOLEAN, id : Ids \cup {0}, att : AttType]
  BY DEF AttendanceInv, MirrorTypeOK
<1>1. ASSUME NEW i \in Ids, NEW open \in BOOLEAN, NEW d \in WorkDays, Writable(i)
      PROVE  /\ Written(i, open, d) \in AttType
             /\ odoo[i].ver = 0 \/ Visible(i)
             /\ 0 < now /\ odoo[i].wd <= now /\ now <= now + Overlap
  BY <1>0, <1>1, MirrorAssumption DEF Writable, Written, Visible, AttType, AttendanceInv, OdooInv
<1>2. ASSUME NEW i \in Ids, NEW open \in BOOLEAN, NEW d \in WorkDays, Write(i, open, d)
      PROVE  AttendanceInv'
  <2> DEFINE new == Written(i, open, d)
  <2>1. new.there /\ new.shown /\ new.ver = odoo[i].ver + 1 /\ new.day = d /\ new.wd = now
    BY DEF Written
  <2>2. ~tx'.busy \/ (tx' = tx /\ tx.id # i)
    BY <1>2 DEF Write, Writable, Untouched
  <2>3. /\ new \in AttType /\ (odoo[i].ver = 0 \/ Visible(i))
        /\ 0 < now /\ odoo[i].wd <= now /\ now <= now + Overlap
    BY <1>1, <1>2 DEF Write
  <2>4. /\ odoo' = [odoo EXCEPT ![i] = new] /\ Unseen({"inc"}) /\ edits' \in Nat
        /\ UNCHANGED <<now, tx, appVars, missing, hides, troubles, directs>>
    BY <1>0, <1>2 DEF Write
  <2>5. tx' \in [busy : BOOLEAN, id : Ids \cup {0}, att : AttType]
    BY <1>0, <2>4
  <2>6. /\ 0 < new.wd /\ odoo[i].wd <= new.wd /\ new.wd <= now /\ now <= new.wd + Overlap
        /\ new.day \in WorkDays
    BY <1>0, <2>1, <2>3, MirrorAssumption DEF AttType
  <2> HIDE DEF new
  <2> QED BY <2>1, <2>2, <2>3, <2>4, <2>5, <2>6, WrittenStep
<1>3. ASSUME CommitWrite PROVE AttendanceInv'
  <2>1. tx.id \in Ids /\ tx.att \in AttType
    BY <1>0, <1>3 DEF CommitWrite, AttendanceInv, OdooInv
  <2>2. /\ tx.att.there /\ tx.att.shown /\ tx.att.ver = odoo[tx.id].ver + 1 /\ tx.att.day \in WorkDays
        /\ 0 < tx.att.wd /\ odoo[tx.id].wd <= tx.att.wd /\ tx.att.wd <= now
        /\ now <= tx.att.wd + Overlap
        /\ odoo[tx.id].ver = 0 \/ Visible(tx.id)
    BY <1>3 DEF CommitWrite, AttendanceInv, OdooInv, Visible
  <2>3. ~tx'.busy /\ tx' \in [busy : BOOLEAN, id : Ids \cup {0}, att : AttType]
    BY <1>3, MirrorAssumption DEF CommitWrite, NoTx, NoAtt, AttType
  <2> QED BY <1>0, <1>3, <2>1, <2>2, <2>3, WrittenStep DEF CommitWrite
<1>4. ASSUME NEW i \in Ids, NEW open \in BOOLEAN, NEW d \in WorkDays, BeginWrite(i, open, d)
      PROVE  AttendanceInv'
  <2>1. /\ UNCHANGED Kept /\ st' = st /\ ~tx.busy /\ Writable(i)
        /\ tx' = [busy |-> TRUE, id |-> i, att |-> Written(i, open, d)]
    BY <1>4 DEF BeginWrite, Kept, appVars
  <2>2. MirrorTypeOK'
    BY <1>0, <1>1, <1>4, <2>1 DEF BeginWrite, appVars, AttendanceInv, MirrorTypeOK
  <2>3. OdooInv'
    <3>1. /\ \A j \in Ids : odoo'[j] = odoo[j] /\ missing'[j] = missing[j]
          /\ now' = now
      BY <2>1 DEF Kept
    <3>2. /\ tx'.att.there /\ tx'.att.shown /\ tx'.att.day = d /\ tx'.att.ver = odoo[i].ver + 1
          /\ tx'.att.wd = now /\ tx'.id = i
      BY <2>1 DEF Written
    <3>3. odoo[i].ver = 0 \/ (odoo[i].there /\ odoo[i].shown)
      BY <1>1, <2>1 DEF Visible
    <3>4. 0 < now /\ odoo[i].wd <= now /\ now <= now + Overlap
      BY <1>1, <2>1
    <3>5. \A j \in Ids :
             /\ odoo[j].wd <= now /\ missing[j] <= now
             /\ odoo[j].there => odoo[j].ver > 0 /\ odoo[j].wd > 0 /\ odoo[j].day \in WorkDays
             /\ missing[j] # 0 => odoo[j].ver > 0
      BY DEF AttendanceInv, OdooInv
    <3>6. /\ tx'.id \in Ids
          /\ tx'.att.there /\ tx'.att.shown /\ tx'.att.day \in WorkDays
          /\ tx'.att.ver = odoo'[tx'.id].ver + 1
          /\ 0 < tx'.att.wd /\ odoo'[tx'.id].wd <= tx'.att.wd /\ tx'.att.wd <= now'
          /\ now' <= tx'.att.wd + Overlap
          /\ odoo'[tx'.id].ver = 0 \/ (odoo'[tx'.id].there /\ odoo'[tx'.id].shown)
      BY <1>0, <3>1, <3>2, <3>3, <3>4, MirrorAssumption
    <3> QED BY <3>1, <3>5, <3>6 DEF OdooInv
  <2>4. CopyInv' /\ AbsentInv' /\ TombstoneIsTrue'
    BY <2>1 DEF AttendanceInv, CopyInv, AbsentInv, TombstoneIsTrue, Absent, Visible, Active, Kept
  <2>5. UnqueuedIsComputed'
    BY <1>4 DEF BeginWrite, appVars, AttendanceInv, UnqueuedIsComputed, View, Active
  <2>6. hides' = 0 /\ directs' = 0 => VersionInv' /\ CursorInv' /\ FreshInv'
    BY <2>1 DEF AttendanceInv, VersionInv, CursorInv, FreshInv, Mirrored, Visible, Before, AtMost, Key, Kept
  <2> QED BY <2>2, <2>3, <2>4, <2>5, <2>6 DEF AttendanceInv
<1>5. ASSUME NEW i \in Ids, Remove(i) \/ Hide(i) \/ Show(i) PROVE AttendanceInv'
  <2>1. odoo[i].there /\ (Untouched(i) \/ ~odoo[i].shown)
    BY <1>5 DEF Remove, Hide, Show, Visible
  <2>2. \/ odoo' = [odoo EXCEPT ![i].there = FALSE, ![i].open = FALSE]
        \/ hides' # 0 /\ odoo' = [odoo EXCEPT ![i].shown = FALSE]
        \/ ~odoo[i].shown /\ odoo' = [odoo EXCEPT ![i].shown = TRUE]
    <3>1. CASE Remove(i)
      BY <3>1 DEF Remove
    <3>2. CASE Hide(i)
      <4>1. hides' = hides + 1 /\ odoo' = [odoo EXCEPT ![i].shown = FALSE]
        BY <3>2 DEF Hide
      <4>2. hides' # 0
        BY <1>0, <4>1
      <4> QED BY <4>1, <4>2
    <3>3. CASE Show(i)
      <4>1. odoo' = [odoo EXCEPT ![i].shown = TRUE] /\ ~odoo[i].shown
        BY <3>3 DEF Show
      <4> QED BY <4>1
    <3> QED BY <1>5, <3>1, <3>2, <3>3
  <2>3. /\ missing' = [missing EXCEPT ![i] = now] /\ Unseen({"sweep"})
        /\ hides' \in Nat /\ hides <= hides' /\ edits' \in Nat
        /\ UNCHANGED <<now, tx, appVars, troubles, directs>>
    BY <1>0, <1>5 DEF Remove, Hide, Show
  <2> QED BY <2>1, <2>2, <2>3, SeenStep
<1> QED BY <1>2, <1>3, <1>4, <1>5 DEF Odoo

(***************************************************************************)
(* The runs                                                                *)
(***************************************************************************)
(* A run goes on, and reads what there is.  The clock may have moved. *)
LEMMA RunStep ==
    ASSUME AttendanceInv, MirrorTypeOK', OdooInv', now <= now',
           UNCHANGED <<odoo, mirror, st, dw, queued, computed, stale, missing, hides, directs>>,
           run'.pc # "idle" => /\ 0 < run'.obs /\ run'.obs <= now'
                               /\ hides = 0 /\ directs = 0 => run'.obs = now',
           run'.top <= now',
           \A i \in DOMAIN run'.got :
               \/ i \in DOMAIN run.got /\ run'.got[i] = run.got[i]
               \/ i \in Ids /\ Visible(i) /\ run'.got[i] = odoo[i],
           run'.pc \in {"confirm", "recover", "sstore"} /\ (run'.ids # {} \/ run'.pc # "confirm")
               => \A i \in Active \ run'.ids : Absent(i, run'.obs),
           run'.pc = "sstore" => DOMAIN run'.got \subseteq run'.ids,
           hides = 0 /\ directs = 0 =>
               /\ CursorInv'
               /\ run'.pc \in {"confirm", "recover", "sstore"} /\ run'.fresh
                      => \A i \in run'.ids : Visible(i)
               /\ run'.pc \in {"idle", "watermark"} \cup SweepPhases => DOMAIN run'.got = {}
    PROVE  AttendanceInv'
<1>0. /\ odoo \in [Ids -> AttType] /\ mirror \in [Ids -> CopyType] /\ DOMAIN run.got \subseteq Ids
      /\ run \in RunType(DOMAIN run.got) /\ dw \in DirectType /\ now \in Nat /\ now' \in Nat
      /\ st.cursor \in Nat
  BY MirrorAssumption DEF AttendanceInv, MirrorTypeOK
<1>1. \A i \in DOMAIN run.got : i \in Ids /\ run.got[i] \in AttType
  BY <1>0 DEF RunType
<1>2. CopyInv'
  <2>1. \A i \in Ids : mirror[i].deleted \in Nat /\ mirror[i].deleted <= now'
    BY <1>0 DEF AttendanceInv, CopyInv, CopyType
  <2>2. \A i \in DOMAIN run'.got :
           odoo[i].ver > 0 /\ run'.got[i].day \in WorkDays /\ run'.got[i].wd <= now'
    BY <1>0, <1>1 DEF AttendanceInv, CopyInv, OdooInv, Visible, AttType
  <2>3. dw.pc # "idle" => 0 < dw.obs /\ dw.obs <= now' /\ directs > 0
    BY <1>0 DEF AttendanceInv, CopyInv, DirectType
  <2>4. st.cursor <= now'
    BY <1>0 DEF AttendanceInv, CopyInv
  <2> QED BY <2>1, <2>2, <2>3, <2>4 DEF AttendanceInv, CopyInv
<1>3. AbsentInv' /\ TombstoneIsTrue'
  BY DEF AttendanceInv, AbsentInv, TombstoneIsTrue, Absent, Visible, Active
<1>4. UnqueuedIsComputed'
  BY DEF AttendanceInv, UnqueuedIsComputed, View, Active
<1>5. ASSUME hides = 0, directs = 0 PROVE VersionInv' /\ FreshInv'
  <2>0. VersionInv /\ FreshInv
    BY <1>5 DEF AttendanceInv
  <2>1. \A i \in DOMAIN run'.got :
           /\ run'.got[i].ver <= odoo[i].ver /\ run'.got[i].wd <= odoo[i].wd
           /\ mirror[i].known => mirror[i].ver <= run'.got[i].ver /\ mirror[i].wd <= run'.got[i].wd
    BY <1>0, <1>1, <2>0 DEF VersionInv, AttType, CopyType
  <2>2. VersionInv'
    BY <1>5, <2>0, <2>1 DEF VersionInv
  <2>3. FreshInv'
    BY <1>5, <2>0 DEF FreshInv, Visible, Mirrored
  <2> QED BY <2>2, <2>3
<1> QED BY <1>2, <1>3, <1>4, <1>5 DEF AttendanceInv

LEMMA NoRunIs ==
    /\ NoRun \in RunType({}) /\ DOMAIN NoRun.got = {}
    /\ NoRun.pc = "idle" /\ NoRun.top = 0 /\ NoRun.fresh = TRUE
<1>1. NoRows \in [{} -> AttType]
  BY DEF NoRows
<1> QED BY <1>1, MirrorAssumption DEF NoRun, RunType, IncPhases, SweepPhases

(* A run that ends, one way or another, leaves the copies as they are. *)
LEMMA RunEnds ==
    ASSUME AttendanceInv, run' = NoRun,
           tk' \in [pc : {"idle", "inc", "sweep", "base"}, due : BOOLEAN, ok : BOOLEAN],
           failing' \subseteq Owners, troubles' \in Nat,
           UNCHANGED <<now, odoo, tx, mirror, st, dw, due, queued, computed, stale, missing,
                       edits, hides, directs>>
    PROVE  AttendanceInv'
<1>1. run' \in RunType({}) /\ DOMAIN run'.got = {} /\ run'.pc = "idle" /\ run'.top = 0
  BY NoRunIs
<1>2. MirrorTypeOK' /\ OdooInv'
  BY <1>1 DEF AttendanceInv, MirrorTypeOK, OdooInv
<1>3. now \in Nat
  BY MirrorAssumption DEF AttendanceInv, MirrorTypeOK
<1>4. hides = 0 /\ directs = 0 => CursorInv'
  BY <1>1 DEF AttendanceInv, CursorInv, Visible, Mirrored
<1> QED BY <1>1, <1>2, <1>3, <1>4, RunStep

(* The clock moves. *)
LEMMA ClockStep ==
    ASSUME AttendanceInv, TimePasses, now' = Later, UNCHANGED <<odoo, tx, missing>>
    PROVE  /\ OdooInv' /\ now <= now' /\ now' \in 1..MaxTime
<1>1. now \in 1..MaxTime /\ odoo \in [Ids -> AttType] /\ missing \in [Ids -> 0..MaxTime]
      /\ tx \in [busy : BOOLEAN, id : Ids \cup {0}, att : AttType] /\ MaxTime \in Nat
  BY MirrorAssumption DEF AttendanceInv, MirrorTypeOK
<1>2. now' \in 1..MaxTime /\ now <= now'
  BY <1>1 DEF Later
<1>3. \A i \in Ids : odoo[i].wd <= now' /\ missing[i] <= now'
  BY <1>1, <1>2 DEF AttendanceInv, OdooInv, AttType
<1>4. tx.busy => tx.att.wd <= now' /\ now' <= tx.att.wd + Overlap
  BY <1>1, <1>2, MirrorAssumption DEF TimePasses, AttendanceInv, OdooInv, AttType
<1> QED BY <1>2, <1>3, <1>4 DEF AttendanceInv, OdooInv

(* A run begins. *)
LEMMA RunBegins ==
    ASSUME AttendanceInv, run.pc = "idle", TimePasses, now' = Later, NEW pc \in {"watermark", "ids"},
           run' = [NoRun EXCEPT !.pc = pc, !.obs = Later],
           tk' = tk,
           UNCHANGED <<odoo, tx, mirror, st, dw, failing, due, queued, computed, stale, missing,
                       edits, hides, troubles, directs>>
    PROVE  AttendanceInv'
<1>1. OdooInv' /\ now <= now' /\ now' \in 1..MaxTime
  BY ClockStep
<1>2. /\ run' \in RunType({}) /\ DOMAIN run'.got = {} /\ run'.pc = pc /\ run'.obs = now'
      /\ run'.top = 0
  <2>1. /\ run'.got = NoRun.got /\ run'.pc = pc /\ run'.obs = Later /\ run'.top = NoRun.top
    BY NoRunIs DEF RunType
  <2>2. run' \in RunType({})
    <3> DEFINE R == [pc : {"idle"} \cup IncPhases \cup SweepPhases, obs : 0..MaxTime,
                     lo : Int \X Nat, hi : Int \X Nat, got : [{} -> AttType], top : Nat,
                     ids : SUBSET Ids, fresh : BOOLEAN]
    <3>1. NoRun \in R /\ Later \in 0..MaxTime
      BY <1>1, NoRunIs DEF RunType
    <3>2. pc \in {"idle"} \cup IncPhases \cup SweepPhases
      BY DEF IncPhases, SweepPhases
    <3>3. run' \in R
      BY <3>1, <3>2
    <3> QED BY <3>3 DEF RunType
  <2> QED BY <1>1, <2>1, <2>2, NoRunIs
<1>3. MirrorTypeOK'
  BY <1>1, <1>2 DEF AttendanceInv, MirrorTypeOK
<1>4. hides = 0 /\ directs = 0 => CursorInv'
  BY <1>1, <1>2 DEF AttendanceInv, CursorInv, Visible, Mirrored
<1> QED BY <1>1, <1>2, <1>3, <1>4, RunStep

(* What a run knows is a record: its fields. *)
LEMMA RunFields ==
    ASSUME MirrorTypeOK
    PROVE  /\ run = [pc |-> run.pc, obs |-> run.obs, lo |-> run.lo, hi |-> run.hi, got |-> run.got,
                     top |-> run.top, ids |-> run.ids, fresh |-> run.fresh]
           /\ run.pc \in {"idle"} \cup IncPhases \cup SweepPhases /\ run.obs \in 0..MaxTime
           /\ run.lo \in Int \X Nat /\ run.hi \in Int \X Nat /\ run.top \in Nat
           /\ run.ids \subseteq Ids /\ run.fresh \in BOOLEAN
           /\ DOMAIN run.got \subseteq Ids /\ run.got \in [DOMAIN run.got -> AttType]
  BY DEF MirrorTypeOK, RunType

(* The newest of what was read. *)
LEMMA NewestIs ==
    ASSUME NEW D \in SUBSET Ids, NEW E \in SUBSET Ids,
           NEW rows \in [D -> AttType], NEW more \in [E -> AttType]
    PROVE  /\ Newest(rows, more) \in [D \cup E -> AttType]
           /\ DOMAIN Newest(rows, more) = D \cup E
           /\ \A i \in D \cup E :
                 Newest(rows, more)[i] = IF i \in E /\ (i \in D => more[i].wd >= rows[i].wd)
                                         THEN more[i] ELSE rows[i]
<1>1. DOMAIN rows = D /\ DOMAIN more = E
  OBVIOUS
<1>2. \A i \in D \cup E : (IF i \in E /\ (i \in D => more[i].wd >= rows[i].wd)
                           THEN more[i] ELSE rows[i]) \in AttType
  BY <1>1
<1> QED BY <1>1, <1>2 DEF Newest

(* A run reads some rows more, as they are. *)
LEMMA ReadMore ==
    ASSUME AttendanceInv, NEW E \in SUBSET Ids, \A i \in E : Visible(i)
    PROVE  LET got == Newest(run.got, [i \in E |-> odoo[i]])
           IN /\ got \in [DOMAIN run.got \cup E -> AttType]
              /\ DOMAIN got = DOMAIN run.got \cup E /\ DOMAIN got \subseteq Ids
              /\ \A i \in DOMAIN got :
                    \/ i \in DOMAIN run.got /\ got[i] = run.got[i]
                    \/ i \in Ids /\ Visible(i) /\ got[i] = odoo[i]
              /\ \A i \in E : got[i].wd >= odoo[i].wd
              /\ VersionInv => /\ \A i \in E : got[i] = odoo[i]
                               /\ \A i \in DOMAIN run.got : run.got[i].ver = odoo[i].ver
                                                              => got[i].ver = odoo[i].ver
<1> DEFINE more == [i \in E |-> odoo[i]]
           got == Newest(run.got, more)
           D == DOMAIN run.got
<1>0. D \in SUBSET Ids /\ run.got \in [D -> AttType] /\ more \in [E -> AttType]
      /\ odoo \in [Ids -> AttType]
  BY RunFields DEF AttendanceInv, MirrorTypeOK
<1>1. \A i \in E : more[i] = odoo[i] /\ odoo[i].wd \in Nat
  BY <1>0 DEF AttType
<1>2. \A i \in D : run.got[i].wd \in Nat
  BY <1>0 DEF AttType
<1> HIDE DEF more, D, got
<1>3. /\ got \in [D \cup E -> AttType] /\ DOMAIN got = D \cup E
      /\ \A i \in D \cup E :
            got[i] = IF i \in E /\ (i \in D => more[i].wd >= run.got[i].wd)
                     THEN more[i] ELSE run.got[i]
  <2>1. \A F \in SUBSET Ids, G \in SUBSET Ids :
           \A rows \in [F -> AttType], m \in [G -> AttType] :
              /\ Newest(rows, m) \in [F \cup G -> AttType]
              /\ DOMAIN Newest(rows, m) = F \cup G
              /\ \A i \in F \cup G :
                    Newest(rows, m)[i] = IF i \in G /\ (i \in F => m[i].wd >= rows[i].wd)
                                         THEN m[i] ELSE rows[i]
    BY NewestIs
  <2>2. got = Newest(run.got, more)
    BY DEF got
  <2> QED BY <1>0, <2>1, <2>2
<1>4. \A i \in DOMAIN got : \/ i \in D /\ got[i] = run.got[i]
                            \/ i \in Ids /\ Visible(i) /\ got[i] = odoo[i]
  BY <1>1, <1>3
<1>5. \A i \in E : got[i].wd >= odoo[i].wd
  BY <1>1, <1>2, <1>3
<1>6. ASSUME VersionInv
      PROVE  /\ \A i \in E : got[i] = odoo[i]
             /\ \A i \in D : run.got[i].ver = odoo[i].ver => got[i].ver = odoo[i].ver
  <2>1. \A i \in D : run.got[i].wd <= odoo[i].wd
    BY <1>6 DEF VersionInv, D
  <2>2. \A i \in E : got[i] = odoo[i]
    BY <1>1, <1>2, <1>3, <2>1
  <2> QED BY <1>3, <2>2
<1> QED BY <1>0, <1>3, <1>4, <1>5, <1>6 DEF got, more, D

LEMMA WatermarkStep == AttendanceInv /\ Watermark => AttendanceInv'
<1> SUFFICES ASSUME AttendanceInv, Watermark PROVE AttendanceInv'
  OBVIOUS
<1> DEFINE new == {i \in Ids : Visible(i) /\ Before(Boundary, Key(i))}
<1>0. /\ odoo \in [Ids -> AttType] /\ st.cursor \in Nat /\ now \in Nat /\ MirrorTypeOK /\ OdooInv
      /\ Overlap \in Nat /\ Ids \subseteq Nat \ {0}
  BY MirrorAssumption DEF AttendanceInv, MirrorTypeOK
<1>1. \A i \in Ids : odoo[i].wd \in Nat /\ Key(i) \in Int \X Nat
  BY <1>0 DEF Key, AttType
<1>2. Boundary \in Int \X Nat
  BY <1>0 DEF Boundary
<1>3. /\ run.pc = "watermark"
      /\ \/ new = {} /\ run' = [run EXCEPT !.pc = "open"]
         \/ \E i \in new : /\ \A j \in new : AtMost(Key(j), Key(i))
                           /\ run' = [run EXCEPT !.pc = "page", !.lo = Boundary, !.hi = Key(i)]
  BY DEF Watermark
<1>8. /\ UNCHANGED <<now, odoo, tx, mirror, st, tk, dw, failing, due, queued, computed, stale>>
      /\ UNCHANGED <<missing, edits, hides, troubles, directs>>
  BY DEF Watermark, appVars
<1>4. /\ run'.pc \in {"open", "page"} /\ run'.obs = run.obs /\ run'.top = run.top
      /\ run'.got = run.got /\ run' \in RunType(DOMAIN run.got)
  BY <1>0, <1>1, <1>2, <1>3, RunFields DEF RunType, IncPhases, SweepPhases
<1>5. MirrorTypeOK' /\ OdooInv'
  <2>1. MirrorTypeOK'
    BY <1>0, <1>4, <1>8 DEF MirrorTypeOK
  <2>2. OdooInv'
    BY <1>0, <1>8 DEF OdooInv
  <2> QED BY <2>1, <2>2
<1>6. ASSUME hides = 0, directs = 0 PROVE CursorInv'
  <2>1. \A i \in Ids : Visible(i) /\ ~Mirrored(i) => i \in new
    <3>1. ASSUME NEW i \in Ids, Visible(i), ~Mirrored(i) PROVE Before(Boundary, Key(i))
      <4>1. st.cursor = 0 \/ odoo[i].wd >= st.cursor - Overlap
        BY <1>6, <3>1 DEF AttendanceInv, CursorInv
      <4>2. odoo[i].wd > 0 /\ odoo[i].wd \in Nat /\ i \in Nat /\ i > 0
        BY <1>0, <1>1, <3>1 DEF OdooInv, Visible
      <4> QED BY <1>0, <4>1, <4>2 DEF Before, Boundary, Key
    <3> QED BY <3>1
  <2>2. CASE new = {}
    BY <1>8, <1>6, <2>1, <2>2 DEF AttendanceInv, CursorInv, Visible, Mirrored
  <2>3. ASSUME NEW k \in new, \A j \in new : AtMost(Key(j), Key(k)),
               run' = [run EXCEPT !.pc = "page", !.lo = Boundary, !.hi = Key(k)]
        PROVE  CursorInv'
    <3>1. run'.pc = "page" /\ run'.lo = Boundary /\ run'.hi = Key(k)
      BY <1>0, <2>3, RunFields
    <3>2. \A i \in Ids : Visible(i) /\ ~Mirrored(i) => Before(run'.lo, Key(i)) /\ AtMost(Key(i), run'.hi)
      BY <2>1, <2>3, <3>1
    <3> QED BY <1>8, <1>6, <3>1, <3>2 DEF AttendanceInv, CursorInv, Visible, Mirrored, Key
  <2> QED BY <1>3, <2>2, <2>3
<1>7. run.top <= now /\ 0 < run.obs /\ run.obs <= now
      /\ (hides = 0 /\ directs = 0 => run.obs = now)
  BY <1>3 DEF AttendanceInv, CopyInv, VersionInv
<1>9. run'.pc \notin {"idle", "watermark", "confirm", "recover", "sstore"} \cup SweepPhases
  BY <1>4 DEF SweepPhases
<1>10. now <= now' /\ \A i \in DOMAIN run'.got : i \in DOMAIN run.got /\ run'.got[i] = run.got[i]
  BY <1>0, <1>4, <1>8
<1> QED BY <1>4, <1>5, <1>6, <1>7, <1>8, <1>9, <1>10, RunStep

LEMMA ReadPageStep == AttendanceInv /\ Page => AttendanceInv'
<1> SUFFICES ASSUME AttendanceInv, Page PROVE AttendanceInv'
  OBVIOUS
<1> DEFINE rest == {i \in Ids : Visible(i) /\ Before(run.lo, Key(i)) /\ AtMost(Key(i), run.hi)}
           top == Max({0} \cup {run.got[i].wd : i \in DOMAIN run.got})
<1>0. /\ odoo \in [Ids -> AttType] /\ now \in Nat /\ MirrorTypeOK /\ OdooInv
      /\ Ids \subseteq Nat \ {0}
  BY MirrorAssumption DEF AttendanceInv, MirrorTypeOK
<1>1. \A i \in Ids : odoo[i].wd \in Nat /\ i \in Nat /\ Key(i) = <<odoo[i].wd, i>> /\ Key(i) \in Int \X Nat
  BY <1>0 DEF Key, AttType
<1>2. /\ run.pc = "page"
      /\ \/ rest = {} /\ run' = [run EXCEPT !.pc = "open", !.top = top]
         \/ \E i \in rest : /\ \A j \in rest : AtMost(Key(i), Key(j))
                            /\ run' = [run EXCEPT !.lo = Key(i),
                                          !.got = Newest(run.got, [k \in {i} |-> odoo[i]])]
  BY DEF Page
<1>3. /\ UNCHANGED <<now, odoo, tx, mirror, st, tk, dw, failing, due, queued, computed, stale>>
      /\ UNCHANGED <<missing, edits, hides, troubles, directs>>
  BY DEF Page, appVars
<1>4. top \in 0..now
  <2> DEFINE T == {0} \cup {run.got[i].wd : i \in DOMAIN run.got}
  <2>1. \A i \in DOMAIN run.got : run.got[i].wd \in 0..now
    BY <1>0, RunFields DEF AttendanceInv, CopyInv, AttType
  <2>2. T \in SUBSET (0..now) /\ T # {}
    BY <1>0, <2>1
  <2> HIDE DEF T
  <2>3. Max(T) \in T
    BY <1>0, <2>2, MaxIs
  <2> QED BY <2>2, <2>3 DEF T
<1> HIDE DEF top
<1>5. OdooInv'
  BY <1>0, <1>3 DEF OdooInv
<1>6. run.top <= now /\ 0 < run.obs /\ run.obs <= now
      /\ (hides = 0 /\ directs = 0 => run.obs = now)
  BY <1>2 DEF AttendanceInv, CopyInv, VersionInv
<1>7. ASSUME rest = {}, run' = [run EXCEPT !.pc = "open", !.top = top] PROVE AttendanceInv'
  <2>1. /\ run'.pc = "open" /\ run'.obs = run.obs /\ run'.top = top /\ run'.got = run.got
        /\ run'.fresh = run.fresh /\ run' \in RunType(DOMAIN run.got)
    <3>1. run' = [pc |-> "open", obs |-> run.obs, lo |-> run.lo, hi |-> run.hi, got |-> run.got,
                  top |-> top, ids |-> run.ids, fresh |-> run.fresh]
      BY <1>0, <1>7, RunFields
    <3>2. top \in Nat
      BY <1>0, <1>4
    <3> QED BY <1>0, <3>1, <3>2, RunFields DEF RunType, IncPhases
  <2>2. MirrorTypeOK'
    BY <1>0, <1>3, <2>1 DEF MirrorTypeOK
  <2>3. ASSUME hides = 0, directs = 0 PROVE CursorInv'
    <3>1. CursorInv
      BY <2>3 DEF AttendanceInv
    <3>2. \A i \in Ids : Visible(i) => ~(Before(run.lo, Key(i)) /\ AtMost(Key(i), run.hi))
      BY <1>7
    <3> QED BY <1>2, <1>3, <2>1, <3>1, <3>2 DEF CursorInv, Visible, Mirrored
  <2>4. run'.pc \notin {"idle", "watermark", "confirm", "recover", "sstore"} \cup SweepPhases
    BY <2>1 DEF SweepPhases
  <2>5. now <= now' /\ \A i \in DOMAIN run'.got : i \in DOMAIN run.got /\ run'.got[i] = run.got[i]
    BY <1>0, <1>3, <2>1
  <2>6. run'.top <= now' /\ 0 < run'.obs /\ run'.obs <= now'
        /\ (hides = 0 /\ directs = 0 => run'.obs = now')
    BY <1>0, <1>3, <1>4, <1>6, <2>1
  <2> QED BY <1>3, <1>5, <2>2, <2>3, <2>4, <2>5, <2>6, RunStep
<1>8. ASSUME NEW k \in rest, \A j \in rest : AtMost(Key(k), Key(j)),
             run' = [run EXCEPT !.lo = Key(k), !.got = Newest(run.got, [j \in {k} |-> odoo[k]])]
      PROVE  AttendanceInv'
  <2> DEFINE got == Newest(run.got, [j \in {k} |-> odoo[j]])
  <2>1. /\ got \in [DOMAIN run.got \cup {k} -> AttType]
        /\ DOMAIN got = DOMAIN run.got \cup {k} /\ DOMAIN got \subseteq Ids
        /\ \A i \in DOMAIN got :
              \/ i \in DOMAIN run.got /\ got[i] = run.got[i]
              \/ i \in Ids /\ Visible(i) /\ got[i] = odoo[i]
        /\ VersionInv => /\ \A i \in {k} : got[i] = odoo[i]
                         /\ \A i \in DOMAIN run.got : run.got[i].ver = odoo[i].ver
                                                        => got[i].ver = odoo[i].ver
    <3>1. {k} \in SUBSET Ids /\ \A i \in {k} : Visible(i)
      OBVIOUS
    <3> QED BY <3>1, ReadMore
  <2>2. [j \in {k} |-> odoo[k]] = [j \in {k} |-> odoo[j]]
    OBVIOUS
  <2>3. run' = [run EXCEPT !.lo = Key(k), !.got = got]
    BY <1>8, <2>2
  <2> HIDE DEF got
  <2>4. /\ run'.pc = "page" /\ run'.obs = run.obs /\ run'.top = run.top /\ run'.got = got
        /\ run'.fresh = run.fresh /\ run'.lo = Key(k) /\ run'.hi = run.hi
        /\ run' \in RunType(DOMAIN got)
    <3>1. run' = [pc |-> run.pc, obs |-> run.obs, lo |-> Key(k), hi |-> run.hi, got |-> got,
                  top |-> run.top, ids |-> run.ids, fresh |-> run.fresh]
      BY <1>0, <2>3, RunFields
    <3>2. got \in [DOMAIN got -> AttType]
      BY <2>1
    <3> QED BY <1>0, <1>1, <1>2, <3>1, <3>2, RunFields DEF RunType
  <2>5. MirrorTypeOK'
    BY <1>0, <1>3, <2>1, <2>4 DEF MirrorTypeOK
  <2>6. ASSUME hides = 0, directs = 0 PROVE CursorInv'
    <3>1. CursorInv /\ VersionInv
      BY <2>6 DEF AttendanceInv
    <3>2. \A i \in Ids : Visible(i) /\ i # k /\ Before(run.lo, Key(i)) /\ AtMost(Key(i), run.hi)
                           => Before(Key(k), Key(i))
      BY <1>1, <1>8 DEF AtMost, Before
    <3> SUFFICES ASSUME NEW i \in Ids, Visible(i)', ~Mirrored(i)'
                 PROVE  /\ st.cursor = 0 \/ odoo[i].wd >= st.cursor - Overlap
                        /\ \/ i \in DOMAIN got /\ got[i].ver = odoo[i].ver
                           \/ Before(Key(k), Key(i)) /\ AtMost(Key(i), run.hi)
                           \/ ~run.fresh /\ odoo[i].wd >= now - Overlap
      BY <1>2, <1>3, <2>4 DEF CursorInv, Key
    <3>3. Visible(i) /\ ~Mirrored(i)
      BY <1>3 DEF Visible, Mirrored
    <3>4. CASE i = k
      BY <1>2, <2>1, <3>1, <3>3, <3>4 DEF CursorInv
    <3>5. CASE i # k
      BY <1>2, <2>1, <3>1, <3>2, <3>3, <3>5 DEF CursorInv
    <3> QED BY <3>4, <3>5
  <2>7. run'.pc \notin {"idle", "watermark", "confirm", "recover", "sstore"} \cup SweepPhases
    BY <2>4 DEF SweepPhases
  <2>8. now <= now' /\ run'.top <= now' /\ 0 < run'.obs /\ run'.obs <= now'
        /\ (hides = 0 /\ directs = 0 => run'.obs = now')
    BY <1>0, <1>3, <1>6, <2>4
  <2> QED BY <1>3, <1>5, <2>1, <2>4, <2>5, <2>6, <2>7, <2>8, RunStep
<1> QED BY <1>2, <1>7, <1>8

LEMMA OpenRowsStep == AttendanceInv /\ OpenRows => AttendanceInv'
<1> SUFFICES ASSUME AttendanceInv, OpenRows PROVE AttendanceInv'
  OBVIOUS
<1> DEFINE E == {i \in Ids : Visible(i) /\ odoo[i].open}
           got == Newest(run.got, [i \in E |-> odoo[i]])
<1>0. MirrorTypeOK /\ OdooInv /\ now \in Nat
  BY MirrorAssumption DEF AttendanceInv, MirrorTypeOK
<1>1. run.pc = "open" /\ run' = [run EXCEPT !.pc = "store", !.got = got]
  BY DEF OpenRows
<1>2. /\ UNCHANGED <<now, odoo, tx, mirror, st, tk, dw, failing, due, queued, computed, stale>>
      /\ UNCHANGED <<missing, edits, hides, troubles, directs>>
  BY DEF OpenRows, appVars
<1>3. /\ got \in [DOMAIN run.got \cup E -> AttType]
      /\ DOMAIN got = DOMAIN run.got \cup E /\ DOMAIN got \subseteq Ids
      /\ \A i \in DOMAIN got :
            \/ i \in DOMAIN run.got /\ got[i] = run.got[i]
            \/ i \in Ids /\ Visible(i) /\ got[i] = odoo[i]
      /\ VersionInv => \A i \in DOMAIN run.got : run.got[i].ver = odoo[i].ver
                                                   => got[i].ver = odoo[i].ver
  <2>1. E \in SUBSET Ids /\ \A i \in E : Visible(i)
    OBVIOUS
  <2> HIDE DEF E
  <2> QED BY <2>1, ReadMore
<1> HIDE DEF E, got
<1>4. /\ run'.pc = "store" /\ run'.obs = run.obs /\ run'.top = run.top /\ run'.got = got
      /\ run'.fresh = run.fresh /\ run' \in RunType(DOMAIN got)
  <2>1. run' = [pc |-> "store", obs |-> run.obs, lo |-> run.lo, hi |-> run.hi, got |-> got,
                top |-> run.top, ids |-> run.ids, fresh |-> run.fresh]
    BY <1>0, <1>1, RunFields
  <2>2. got \in [DOMAIN got -> AttType]
    BY <1>3
  <2> QED BY <1>0, <2>1, <2>2, RunFields DEF RunType, IncPhases
<1>5. MirrorTypeOK' /\ OdooInv'
  <2>1. MirrorTypeOK'
    BY <1>0, <1>2, <1>3, <1>4 DEF MirrorTypeOK
  <2>2. OdooInv'
    BY <1>0, <1>2 DEF OdooInv
  <2> QED BY <2>1, <2>2
<1>6. ASSUME hides = 0, directs = 0 PROVE CursorInv'
  <2>1. CursorInv /\ VersionInv
    BY <1>6 DEF AttendanceInv
  <2> QED BY <1>1, <1>2, <1>3, <1>4, <2>1 DEF CursorInv, Visible, Mirrored
<1>7. run'.pc \notin {"idle", "watermark", "confirm", "recover", "sstore"} \cup SweepPhases
  BY <1>4 DEF SweepPhases
<1>8. now <= now' /\ run'.top <= now' /\ 0 < run'.obs /\ run'.obs <= now'
      /\ (hides = 0 /\ directs = 0 => run'.obs = now')
  BY <1>0, <1>1, <1>2, <1>4 DEF AttendanceInv, CopyInv, VersionInv
<1> QED BY <1>2, <1>3, <1>4, <1>5, <1>6, <1>7, <1>8, RunStep

(* The ids are read, all of them or, wrongly, none. *)
LEMMA FetchIdsStep == AttendanceInv /\ FetchIds => AttendanceInv'
<1> SUFFICES ASSUME AttendanceInv, FetchIds PROVE AttendanceInv'
  OBVIOUS
<1> DEFINE seen == {i \in Ids : Visible(i)}
<1>0. MirrorTypeOK /\ OdooInv /\ now \in Nat /\ troubles \in Nat
  BY MirrorAssumption DEF AttendanceInv, MirrorTypeOK
<1>1. PICK ids \in {seen, {}} : run.pc = "ids" /\ run' = [run EXCEPT !.pc = "confirm", !.ids = ids]
  BY DEF FetchIds
<1>2. /\ UNCHANGED <<now, odoo, tx, mirror, st, tk, dw, failing, due, queued, computed, stale>>
      /\ UNCHANGED <<missing, edits, hides, directs>> /\ troubles' \in Nat
  BY <1>0 DEF FetchIds, appVars
<1>3. ids \subseteq Ids /\ (\A i \in ids : Visible(i))
      /\ (ids # {} => \A i \in Ids \ ids : ~Visible(i))
  OBVIOUS
<1>4. /\ run'.pc = "confirm" /\ run'.obs = run.obs /\ run'.top = run.top /\ run'.got = run.got
      /\ run'.ids = ids /\ run' \in RunType(DOMAIN run.got)
  <2>1. run' = [pc |-> "confirm", obs |-> run.obs, lo |-> run.lo, hi |-> run.hi, got |-> run.got,
                top |-> run.top, ids |-> ids, fresh |-> run.fresh]
    BY <1>0, <1>1, RunFields
  <2> HIDE DEF seen
  <2> QED BY <1>0, <1>3, <2>1, RunFields DEF RunType, SweepPhases
<1>5. MirrorTypeOK' /\ OdooInv'
  <2>1. MirrorTypeOK'
    BY <1>0, <1>2, <1>4 DEF MirrorTypeOK
  <2>2. OdooInv'
    BY <1>0, <1>2 DEF OdooInv
  <2> QED BY <2>1, <2>2
<1>6. ASSUME hides = 0, directs = 0 PROVE CursorInv' /\ DOMAIN run'.got = {}
  <2>1. CursorInv /\ FreshInv
    BY <1>6 DEF AttendanceInv
  <2>2. CursorInv'
    BY <1>2, <1>4, <2>1 DEF CursorInv, Visible, Mirrored
  <2> QED BY <1>1, <1>4, <2>1, <2>2 DEF FreshInv, SweepPhases
<1>7. now <= now' /\ run'.top <= now' /\ 0 < run'.obs /\ run'.obs <= now'
      /\ (hides = 0 /\ directs = 0 => run'.obs = now')
  BY <1>0, <1>1, <1>2, <1>4 DEF AttendanceInv, CopyInv, VersionInv
<1>8. run'.ids # {} => \A i \in Active \ run'.ids : Absent(i, run'.obs)
  BY <1>3, <1>4 DEF Active, Absent
<1>9. \A i \in DOMAIN run'.got : i \in DOMAIN run.got /\ run'.got[i] = run.got[i]
  BY <1>4
<1> HIDE DEF seen
<1> QED BY <1>2, <1>3, <1>4, <1>5, <1>6, <1>7, <1>8, <1>9, RunStep

(* A run fails. *)
LEMMA FailsStep ==
    ASSUME AttendanceInv, NEW owner \in Owners, Fails(owner), troubles' \in Nat,
           UNCHANGED <<now, odoo, tx, mirror, st, dw, due, queued, computed, stale, missing,
                       edits, hides, directs>>
    PROVE  AttendanceInv'
<1>1. tk' \in [pc : {"idle", "inc", "sweep", "base"}, due : BOOLEAN, ok : BOOLEAN]
  BY DEF Fails, AttendanceInv, MirrorTypeOK
<1>2. failing' \subseteq Owners /\ run' = NoRun
  BY DEF Fails, AttendanceInv, MirrorTypeOK
<1> QED BY <1>1, <1>2, RunEnds

LEMMA ConfirmEmptyStep == AttendanceInv /\ ConfirmEmpty => AttendanceInv'
<1> SUFFICES ASSUME AttendanceInv, ConfirmEmpty PROVE AttendanceInv'
  OBVIOUS
<1>0. MirrorTypeOK /\ OdooInv /\ now \in Nat /\ troubles \in Nat
  BY MirrorAssumption DEF AttendanceInv, MirrorTypeOK
<1>1. /\ UNCHANGED <<now, odoo, tx, mirror, st, dw, due, queued, computed, stale>>
      /\ UNCHANGED <<missing, edits, hides, troubles, directs>> /\ run.pc = "confirm"
  BY DEF ConfirmEmpty
<1>2. CASE Fails("sweep")
  BY <1>0, <1>1, <1>2, FailsStep DEF Owners
<1>3. CASE ~(run.ids = {} /\ \E i \in Active : Visible(i))
  <2>1. run' = [run EXCEPT !.pc = "recover"] /\ UNCHANGED <<failing, tk>>
    BY <1>3 DEF ConfirmEmpty
  <2>2. /\ run'.pc = "recover" /\ run'.obs = run.obs /\ run'.top = run.top /\ run'.got = run.got
        /\ run'.ids = run.ids /\ run'.fresh = run.fresh /\ run' \in RunType(DOMAIN run.got)
    BY <1>0, <2>1, RunFields DEF RunType, SweepPhases
  <2>3. MirrorTypeOK'
    BY <1>0, <1>1, <2>1, <2>2 DEF MirrorTypeOK
  <2>4. OdooInv'
    BY <1>0, <1>1 DEF OdooInv
  <2>5. ASSUME hides = 0, directs = 0
        PROVE  CursorInv' /\ DOMAIN run'.got = {}
               /\ (run'.fresh => \A i \in run'.ids : Visible(i))
    <3>1. CursorInv /\ FreshInv
      BY <2>5 DEF AttendanceInv
    <3>2. CursorInv'
      BY <1>1, <2>2, <3>1 DEF CursorInv, Visible, Mirrored
    <3> QED BY <1>1, <2>2, <3>1, <3>2 DEF FreshInv, SweepPhases
  <2>6. now <= now' /\ run'.top <= now' /\ 0 < run'.obs /\ run'.obs <= now'
        /\ (hides = 0 /\ directs = 0 => run'.obs = now')
    BY <1>0, <1>1, <2>2 DEF AttendanceInv, CopyInv, VersionInv
  <2>7. \A i \in Active \ run'.ids : Absent(i, run'.obs)
    <3>1. CASE run.ids = {}
      BY <1>3, <2>2, <3>1 DEF Absent
    <3>2. CASE run.ids # {}
      BY <1>1, <2>2, <3>2 DEF AttendanceInv, AbsentInv
    <3> QED BY <3>1, <3>2
  <2>8. \A i \in DOMAIN run'.got : i \in DOMAIN run.got /\ run'.got[i] = run.got[i]
    BY <2>2
  <2> QED BY <1>1, <2>2, <2>3, <2>4, <2>5, <2>6, <2>7, <2>8, RunStep
<1> QED BY <1>2, <1>3 DEF ConfirmEmpty

LEMMA ReadRecoveryStep == AttendanceInv /\ ReadRecovery => AttendanceInv'
<1> SUFFICES ASSUME AttendanceInv, ReadRecovery PROVE AttendanceInv'
  OBVIOUS
<1> DEFINE back == {i \in run.ids : mirror[i].known /\ mirror[i].deleted # 0}
           got == [i \in back |-> odoo[i]]
<1>0. /\ MirrorTypeOK /\ OdooInv /\ now \in Nat /\ troubles \in Nat /\ run.ids \subseteq Ids
      /\ odoo \in [Ids -> AttType]
  BY MirrorAssumption, RunFields DEF AttendanceInv, MirrorTypeOK
<1>1. /\ UNCHANGED <<now, odoo, tx, mirror, st, dw, due, queued, computed, stale>>
      /\ UNCHANGED <<missing, edits, hides, troubles, directs>> /\ run.pc = "recover"
  BY DEF ReadRecovery
<1>2. CASE Fails("sweep")
  BY <1>0, <1>1, <1>2, FailsStep DEF Owners
<1>3. CASE \A i \in back : Visible(i)
  <2>1. run' = [run EXCEPT !.pc = "sstore", !.got = got] /\ UNCHANGED <<failing, tk>>
    BY <1>3 DEF ReadRecovery
  <2>2. back \subseteq run.ids /\ back \subseteq Ids /\ got \in [back -> AttType] /\ DOMAIN got = back
        /\ \A i \in back : got[i] = odoo[i]
    BY <1>0
  <2>3. \A i \in back : mirror[i].deleted # 0
    OBVIOUS
  <2> HIDE DEF back, got
  <2>4. /\ run'.pc = "sstore" /\ run'.obs = run.obs /\ run'.top = run.top /\ run'.got = got
        /\ run'.ids = run.ids /\ run'.fresh = run.fresh /\ run' \in RunType(back)
    <3>1. run' = [pc |-> "sstore", obs |-> run.obs, lo |-> run.lo, hi |-> run.hi, got |-> got,
                  top |-> run.top, ids |-> run.ids, fresh |-> run.fresh]
      BY <1>0, <2>1, RunFields
    <3> QED BY <1>0, <2>2, <3>1, RunFields DEF RunType, SweepPhases
  <2>5. MirrorTypeOK'
    BY <1>0, <1>1, <2>1, <2>2, <2>4 DEF MirrorTypeOK
  <2>6. OdooInv'
    BY <1>0, <1>1 DEF OdooInv
  <2>7. ASSUME hides = 0, directs = 0
        PROVE  CursorInv' /\ DOMAIN run'.got = {}
               /\ (run'.fresh => \A i \in run'.ids : Visible(i))
    <3>1. CursorInv /\ FreshInv /\ VersionInv
      BY <2>7 DEF AttendanceInv
    <3>2. CursorInv'
      BY <1>1, <2>4, <3>1 DEF CursorInv, Visible, Mirrored
    <3>3. back = {}
      BY <1>3, <2>2, <2>3, <3>1 DEF VersionInv, Visible
    <3>4. run'.fresh => \A i \in run'.ids : Visible(i)
      BY <1>1, <2>4, <3>1 DEF FreshInv
    <3> QED BY <2>2, <2>4, <3>2, <3>3, <3>4
  <2>8. now <= now' /\ run'.top <= now' /\ 0 < run'.obs /\ run'.obs <= now'
        /\ (hides = 0 /\ directs = 0 => run'.obs = now')
    BY <1>0, <1>1, <2>4 DEF AttendanceInv, CopyInv, VersionInv
  <2>9. \A i \in Active \ run'.ids : Absent(i, run'.obs)
    BY <1>1, <2>4 DEF AttendanceInv, AbsentInv
  <2>10. DOMAIN run'.got \subseteq run'.ids
         /\ \A i \in DOMAIN run'.got : i \in Ids /\ Visible(i) /\ run'.got[i] = odoo[i]
    BY <1>3, <2>2, <2>4
  <2> QED BY <1>1, <2>4, <2>5, <2>6, <2>7, <2>8, <2>9, <2>10, RunStep
<1> QED BY <1>2, <1>3 DEF ReadRecovery

(* A run, or the program, dies. *)
LEMMA DiesStep == AttendanceInv /\ (RunFails \/ MirrorCrash) => AttendanceInv'
<1> SUFFICES ASSUME AttendanceInv, RunFails \/ MirrorCrash PROVE AttendanceInv'
  OBVIOUS
<1>0. troubles' \in Nat
  BY DEF AttendanceInv, MirrorTypeOK, RunFails, MirrorCrash
<1>1. CASE RunFails
  BY <1>0, <1>1, FailsStep DEF RunFails, Owner, Owners
<1>2. CASE MirrorCrash
  <2>1. tk' \in [pc : {"idle", "inc", "sweep", "base"}, due : BOOLEAN, ok : BOOLEAN]
        /\ failing' \subseteq Owners
    BY <1>2 DEF MirrorCrash, NoTick
  <2> QED BY <1>0, <1>2, <2>1, RunEnds DEF MirrorCrash
<1> QED BY <1>1, <1>2

LEMMA RunBeginsStep == AttendanceInv /\ (IncBegins \/ SweepBegins) => AttendanceInv'
<1> SUFFICES ASSUME AttendanceInv, IncBegins \/ SweepBegins PROVE AttendanceInv'
  OBVIOUS
<1>1. CASE IncBegins
  BY <1>1, RunBegins DEF IncBegins, appVars
<1>2. CASE SweepBegins /\ due
  BY <1>2, RunBegins DEF SweepBegins
<1>3. CASE SweepBegins /\ ~due
  <2>1. UNCHANGED Kept /\ st' = st /\ tx' = tx
    BY <1>3 DEF SweepBegins, Kept
  <2>2. MirrorTypeOK'
    BY <1>3 DEF SweepBegins, AttendanceInv, MirrorTypeOK
  <2>3. UnqueuedIsComputed'
    BY <1>3 DEF SweepBegins, AttendanceInv, UnqueuedIsComputed, View, Active
  <2> QED BY <2>1, <2>2, <2>3, KeptStep
<1> QED BY <1>1, <1>2, <1>3

(* The clockwork around the runs, and the days that are computed. *)
LEMMA AroundStep ==
    AttendanceInv /\ (\/ TickBegins \/ HourPasses \/ CompleteBaseline
                  \/ (\E o \in {"inc", "sweep"} : RecordFailure(o))
                  \/ (\E d \in WorkDays : Recalculate(d)))
        => AttendanceInv'
<1> SUFFICES ASSUME AttendanceInv, TickBegins \/ HourPasses \/ CompleteBaseline
                               \/ (\E o \in {"inc", "sweep"} : RecordFailure(o))
                               \/ (\E d \in WorkDays : Recalculate(d))
             PROVE  AttendanceInv'
  OBVIOUS
<1>0. MirrorTypeOK /\ UnqueuedIsComputed
  BY DEF AttendanceInv
<1>1. CASE TickBegins
  <2>1. UNCHANGED Kept /\ st' = st /\ tx' = tx
    BY <1>1 DEF TickBegins, Kept
  <2>2. MirrorTypeOK'
    BY <1>0, <1>1 DEF TickBegins, MirrorTypeOK
  <2>3. UnqueuedIsComputed'
    BY <1>0, <1>1 DEF TickBegins, UnqueuedIsComputed, View, Active
  <2> QED BY <2>1, <2>2, <2>3, KeptStep
<1>2. CASE HourPasses
  <2>1. UNCHANGED Kept /\ st' = st /\ tx' = tx
    BY <1>2 DEF HourPasses, Kept
  <2>2. MirrorTypeOK'
    BY <1>0, <1>2 DEF HourPasses, MirrorTypeOK
  <2>3. UnqueuedIsComputed'
    BY <1>0, <1>2 DEF HourPasses, UnqueuedIsComputed, View, Active
  <2> QED BY <2>1, <2>2, <2>3, KeptStep
<1>3. CASE CompleteBaseline
  <2>1. UNCHANGED Kept /\ tx' = tx /\ st'.cursor = st.cursor
    <3>1. UNCHANGED Kept /\ tx' = tx /\ st' = [st EXCEPT !.base = @ \/ (st.inc /\ st.sweep)]
      BY <1>3 DEF CompleteBaseline, Kept
    <3> QED BY <1>0, <3>1 DEF MirrorTypeOK
  <2>2. MirrorTypeOK'
    <3>1. DOMAIN computed' = WorkDays
      BY <1>0, <1>3 DEF CompleteBaseline, MirrorTypeOK
    <3>2. st' \in [cursor : 0..MaxTime, inc : BOOLEAN, sweep : BOOLEAN, base : BOOLEAN,
                   err : SUBSET Owners]
      BY <1>0, <1>3 DEF CompleteBaseline, MirrorTypeOK
    <3>3. tk' \in [pc : {"idle", "inc", "sweep", "base"}, due : BOOLEAN, ok : BOOLEAN]
      BY <1>3 DEF CompleteBaseline, NoTick
    <3> QED BY <1>0, <1>3, <3>1, <3>2, <3>3 DEF CompleteBaseline, MirrorTypeOK
  <2>3. \A d \in WorkDays : View(d)' = View(d)
    BY <1>3 DEF CompleteBaseline, View, Active
  <2>4. UnqueuedIsComputed'
    <3>1. CASE st.base
      BY <1>0, <1>3, <2>3, <3>1 DEF CompleteBaseline, UnqueuedIsComputed
    <3>2. CASE ~st.base
      BY <1>3, <2>3, <3>2 DEF CompleteBaseline, UnqueuedIsComputed
    <3> QED BY <3>1, <3>2
  <2> QED BY <2>1, <2>2, <2>4, KeptStep
<1>4. ASSUME NEW o \in {"inc", "sweep"}, RecordFailure(o) PROVE AttendanceInv'
  <2>1. UNCHANGED Kept /\ tx' = tx /\ st'.cursor = st.cursor /\ st'.base = st.base
    <3>1. UNCHANGED Kept /\ tx' = tx /\ st' = [st EXCEPT !.err = @ \cup {o}]
      BY <1>4 DEF RecordFailure, Kept
    <3> QED BY <1>0, <3>1 DEF MirrorTypeOK
  <2>2. MirrorTypeOK'
    <3>1. st' \in [cursor : 0..MaxTime, inc : BOOLEAN, sweep : BOOLEAN, base : BOOLEAN,
                   err : SUBSET Owners]
      <4>1. {o} \subseteq Owners
        BY DEF Owners
      <4> QED BY <1>0, <1>4, <4>1 DEF RecordFailure, MirrorTypeOK
    <3> QED BY <1>0, <1>4, <3>1 DEF RecordFailure, MirrorTypeOK
  <2>3. UnqueuedIsComputed'
    BY <1>0, <1>4, <2>1 DEF RecordFailure, UnqueuedIsComputed, View, Active
  <2> QED BY <2>1, <2>2, <2>3, KeptStep
<1>5. ASSUME NEW d \in WorkDays, Recalculate(d) PROVE AttendanceInv'
  <2>1. UNCHANGED Kept /\ st' = st /\ tx' = tx
    BY <1>5 DEF Recalculate, Kept
  <2>2. MirrorTypeOK'
    BY <1>0, <1>5 DEF Recalculate, MirrorTypeOK
  <2>3. \A e \in WorkDays : View(e)' = View(e)
    BY <2>1 DEF View, Active, Kept
  <2>4. \A e \in WorkDays : computed'[e] = (IF e = d THEN View(d) ELSE computed[e])
                            /\ (e \in queued' <=> e \in queued /\ e # d)
    BY <1>0, <1>5 DEF Recalculate, MirrorTypeOK
  <2>5. UnqueuedIsComputed'
    BY <1>0, <2>1, <2>3, <2>4 DEF UnqueuedIsComputed, Kept
  <2> QED BY <2>1, <2>2, <2>5, KeptStep
<1> QED BY <1>1, <1>2, <1>3, <1>4, <1>5

(***************************************************************************)
(* The stores                                                              *)
(***************************************************************************)
(* Rows that are stored are accepted, or the copy stays. *)
LEMMA UpsertAll ==
    ASSUME MirrorTypeOK
    PROVE  \A D \in SUBSET Ids : \A rows \in [D -> AttType] : \A obs \in Nat :
              /\ Upsert(rows, obs) \in [Ids -> CopyType]
              /\ \A i \in Ids :
                    \/ /\ Upsert(rows, obs)[i] = mirror[i]
                       /\ ~(i \in D /\ Accepts(mirror[i], rows[i], obs))
                    \/ /\ i \in D
                       /\ Upsert(rows, obs)[i].known /\ Upsert(rows, obs)[i].deleted = 0
                       /\ Upsert(rows, obs)[i].ver = rows[i].ver
                       /\ Upsert(rows, obs)[i].wd = rows[i].wd
                       /\ Upsert(rows, obs)[i].day = rows[i].day
<1> TAKE D \in SUBSET Ids
<1> TAKE rows \in [D -> AttType]
<1> TAKE obs \in Nat
<1>1. DOMAIN rows = D /\ mirror \in [Ids -> CopyType]
  BY DEF MirrorTypeOK
<1>2. \A i \in D : Stored(rows[i]) \in CopyType
  BY MirrorAssumption DEF Stored, AttType, CopyType
<1>3. \A i \in D : LET s == Stored(rows[i])
                   IN s.known /\ s.deleted = 0 /\ s.ver = rows[i].ver /\ s.wd = rows[i].wd
                      /\ s.day = rows[i].day
  BY DEF Stored
<1> HIDE DEF Stored, Accepts
<1>4. Upsert(rows, obs) \in [Ids -> CopyType]
      /\ \A i \in Ids : Upsert(rows, obs)[i] =
            IF i \in D /\ Accepts(mirror[i], rows[i], obs) THEN Stored(rows[i]) ELSE mirror[i]
  BY <1>1, <1>2 DEF Upsert
<1> QED BY <1>3, <1>4

LEMMA UpsertRun ==
    ASSUME MirrorTypeOK
    PROVE  LET up == Upsert(run.got, run.obs)
               D == DOMAIN run.got
           IN /\ up \in [Ids -> CopyType]
              /\ \A i \in Ids : \/ up[i] = mirror[i] /\ ~(i \in D /\ Accepts(mirror[i], run.got[i], run.obs))
                                \/ /\ i \in D /\ up[i].known /\ up[i].deleted = 0
                                   /\ up[i].ver = run.got[i].ver /\ up[i].wd = run.got[i].wd
                                   /\ up[i].day = run.got[i].day
<1> DEFINE D == DOMAIN run.got
<1>1. D \in SUBSET Ids /\ run.got \in [D -> AttType] /\ run.obs \in Nat
  BY MirrorAssumption, RunFields
<1> HIDE DEF D
<1>2. \A rows \in [D -> AttType], obs \in Nat :
         /\ Upsert(rows, obs) \in [Ids -> CopyType]
         /\ \A i \in Ids :
               \/ /\ Upsert(rows, obs)[i] = mirror[i]
                  /\ ~(i \in D /\ Accepts(mirror[i], rows[i], obs))
               \/ /\ i \in D
                  /\ Upsert(rows, obs)[i].known /\ Upsert(rows, obs)[i].deleted = 0
                  /\ Upsert(rows, obs)[i].ver = rows[i].ver
                  /\ Upsert(rows, obs)[i].wd = rows[i].wd
                  /\ Upsert(rows, obs)[i].day = rows[i].day
  BY <1>1, UpsertAll
<1>3. /\ Upsert(run.got, run.obs) \in [Ids -> CopyType]
      /\ \A i \in Ids :
            \/ /\ Upsert(run.got, run.obs)[i] = mirror[i]
               /\ ~(i \in D /\ Accepts(mirror[i], run.got[i], run.obs))
            \/ /\ i \in D
               /\ Upsert(run.got, run.obs)[i].known /\ Upsert(run.got, run.obs)[i].deleted = 0
               /\ Upsert(run.got, run.obs)[i].ver = run.got[i].ver
               /\ Upsert(run.got, run.obs)[i].wd = run.got[i].wd
               /\ Upsert(run.got, run.obs)[i].day = run.got[i].day
  BY <1>1, <1>2, Zenon
<1> QED BY <1>3 DEF D

(* A store queues the days whose view it changes. *)
LEMMA StoredDays ==
    ASSUME AttendanceInv, NEW new \in [Ids -> CopyType], StoreRows(new),
           \A i \in Ids : /\ mirror[i].known => new[i].known
                          /\ new[i].known => new[i].day \in WorkDays
                          /\ ~new[i].known => new[i] = mirror[i],
           st'.base = st.base, computed' = computed, dw.pc = "enqueue" => dw' = dw
    PROVE  queued' \subseteq WorkDays /\ UnqueuedIsComputed'
<1>0. /\ mirror' = new /\ queued' = IF st.base THEN queued \cup Affected(new) ELSE queued
      /\ queued \subseteq WorkDays /\ UnqueuedIsComputed
      /\ \A i \in Ids : mirror[i].known => mirror[i].day \in WorkDays
  BY DEF StoreRows, AttendanceInv, MirrorTypeOK, CopyInv
<1>1. Affected(new) \subseteq WorkDays
  <2>1. \A i \in Ids : Touches(mirror[i], new[i]) \subseteq WorkDays
    BY <1>0 DEF Touches
  <2> QED BY <2>1 DEF Affected
<1>2. ASSUME NEW d \in WorkDays, d \notin Affected(new) PROVE View(d)' = View(d)
  <2>1. ASSUME NEW i \in Ids
        PROVE  /\ (i \in Active /\ mirror[i].day = d) <=> (i \in Active' /\ mirror'[i].day = d)
               /\ i \in Active /\ mirror[i].day = d => mirror'[i].ver = mirror[i].ver
    <3>1. d \notin Touches(mirror[i], new[i])
      BY <1>2 DEF Affected
    <3>2. mirror'[i] = new[i] /\ mirror[i].known \in BOOLEAN /\ new[i].known \in BOOLEAN
          /\ (mirror[i].known => new[i].known)
      BY <1>0 DEF AttendanceInv, MirrorTypeOK, CopyType
    <3>3. /\ i \in Active <=> mirror[i].known /\ mirror[i].deleted = 0
          /\ i \in Active' <=> new[i].known /\ new[i].deleted = 0
      BY <3>2 DEF Active
    <3>4. CASE ~mirror[i].known /\ new[i].known
      BY <3>1, <3>2, <3>3, <3>4 DEF Touches
    <3>5. CASE /\ ~(~mirror[i].known /\ new[i].known)
               /\ mirror[i].ver = new[i].ver /\ mirror[i].day = new[i].day
               /\ mirror[i].deleted = new[i].deleted
      BY <3>2, <3>3, <3>5
    <3>6. CASE /\ ~(~mirror[i].known /\ new[i].known)
               /\ ~(mirror[i].ver = new[i].ver /\ mirror[i].day = new[i].day
                    /\ mirror[i].deleted = new[i].deleted)
      <4>1. d \notin {mirror[i].day, new[i].day}
        BY <3>1, <3>6 DEF Touches
      <4> QED BY <3>2, <4>1
    <3> QED BY <3>4, <3>5, <3>6
  <2>2. /\ View(d) = {<<i, mirror[i].ver>> : i \in {k \in Active : mirror[k].day = d}}
        /\ View(d)' = {<<i, mirror'[i].ver>> : i \in {k \in Active' : mirror'[k].day = d}}
        /\ Active \subseteq Ids /\ Active' \subseteq Ids
    BY DEF View, Active
  <2>3. {k \in Active : mirror[k].day = d} = {k \in Active' : mirror'[k].day = d}
    BY <2>1, <2>2
  <2>4. \A i \in {k \in Active : mirror[k].day = d} : mirror'[i].ver = mirror[i].ver
    BY <2>1, <2>2
  <2> QED BY <2>2, <2>3, <2>4
<1>3. UnqueuedIsComputed'
  <2> SUFFICES ASSUME st.base, NEW d \in WorkDays
               PROVE  \/ d \in queued' \/ computed[d] = View(d)'
                      \/ dw'.pc = "enqueue" /\ d \in dw'.days
    BY DEF UnqueuedIsComputed
  <2>1. \/ d \in queued \/ computed[d] = View(d)
        \/ dw.pc = "enqueue" /\ d \in dw.days
    BY <1>0 DEF UnqueuedIsComputed
  <2>2. CASE d \in Affected(new)
    BY <1>0, <2>2
  <2>3. CASE d \notin Affected(new)
    <3>1. View(d)' = View(d)
      BY <1>2, <2>3
    <3> QED BY <1>0, <2>1, <3>1
  <2> QED BY <2>2, <2>3
<1> QED BY <1>0, <1>1, <1>3

(* The rows of an incremental run are stored, and the cursor moves. *)
LEMMA StoreIncrementalStep == AttendanceInv /\ StoreIncremental => AttendanceInv'
<1> SUFFICES ASSUME AttendanceInv, StoreIncremental PROVE AttendanceInv'
  OBVIOUS
<1> DEFINE D == DOMAIN run.got
           new == Upsert(run.got, run.obs)
<1>0. /\ MirrorTypeOK /\ OdooInv /\ CopyInv /\ now \in 0..MaxTime /\ MaxTime \in Nat
      /\ D \in SUBSET Ids /\ run.got \in [D -> AttType]
      /\ odoo \in [Ids -> AttType] /\ mirror \in [Ids -> CopyType]
      /\ st.cursor \in Nat /\ run.top \in Nat /\ Overlap \in Nat
  BY MirrorAssumption, RunFields DEF AttendanceInv, MirrorTypeOK
<1>1. /\ UNCHANGED <<now, odoo, tx, dw, failing, due, computed>>
      /\ UNCHANGED <<missing, edits, hides, troubles, directs>>
      /\ run.pc = "store" /\ run' = NoRun /\ StoreRows(new) /\ mirror' = new
      /\ stale' = (IF run.fresh THEN stale \ {"inc"} ELSE stale)
  BY DEF StoreIncremental, StoreRows
<1>2. /\ new \in [Ids -> CopyType]
      /\ \A i \in Ids : \/ new[i] = mirror[i] /\ ~(i \in D /\ Accepts(mirror[i], run.got[i], run.obs))
                        \/ /\ i \in D /\ new[i].known /\ new[i].deleted = 0
                           /\ new[i].ver = run.got[i].ver /\ new[i].wd = run.got[i].wd
                           /\ new[i].day = run.got[i].day
  BY <1>0, UpsertRun
<1> HIDE DEF new, D
<1>3. LaterCursor \in {st.cursor, run.top} /\ st.cursor <= LaterCursor
      /\ LaterCursor <= now /\ LaterCursor \in 0..MaxTime
  <2>1. LaterCursor \in {st.cursor, run.top} /\ st.cursor <= LaterCursor
    BY <1>0, LaterOfTwo DEF LaterCursor
  <2>2. st.cursor <= now /\ run.top <= now
    BY <1>0 DEF CopyInv
  <2> QED BY <1>0, <2>1, <2>2
<1>4. /\ st' \in [cursor : 0..MaxTime, inc : BOOLEAN, sweep : BOOLEAN, base : BOOLEAN,
                  err : SUBSET Owners]
      /\ st'.cursor = LaterCursor /\ st'.base = st.base
  <2>1. st' = [cursor |-> LaterCursor, inc |-> TRUE, sweep |-> st.sweep, base |-> st.base,
               err |-> st.err \ {"inc"}]
    BY <1>0 DEF StoreIncremental, ErrorAfterSuccess, MirrorTypeOK
  <2> QED BY <1>0, <1>3, <2>1 DEF MirrorTypeOK
<1>5. \A i \in Ids : /\ mirror[i].known => new[i].known
                     /\ new[i].known => new[i].day \in WorkDays /\ odoo[i].ver > 0
                     /\ ~new[i].known => new[i] = mirror[i]
                     /\ new[i].deleted # 0 => new[i] = mirror[i]
  BY <1>0, <1>2 DEF CopyInv, D
<1>6. queued' \subseteq WorkDays /\ UnqueuedIsComputed'
  BY <1>1, <1>2, <1>4, <1>5, StoredDays
<1>7. /\ run' \in RunType({}) /\ DOMAIN run'.got = {} /\ run'.pc = "idle" /\ run'.top = 0
  BY <1>1, NoRunIs
<1>8. MirrorTypeOK'
  <2>1. tk' \in [pc : {"idle", "inc", "sweep", "base"}, due : BOOLEAN, ok : BOOLEAN]
    BY <1>0 DEF StoreIncremental, MirrorTypeOK
  <2>2. stale' \subseteq Owners
    BY <1>0, <1>1 DEF MirrorTypeOK
  <2> QED BY <1>0, <1>1, <1>2, <1>4, <1>6, <1>7, <2>1, <2>2 DEF MirrorTypeOK
<1>9. OdooInv'
  BY <1>0, <1>1 DEF OdooInv
<1>10. CopyInv'
  <2>1. \A i \in Ids : /\ new[i].deleted # 0 => new[i].known
                       /\ new[i].deleted <= now
                       /\ new[i].known => odoo[i].ver > 0 /\ new[i].day \in WorkDays
    <3>1. \A i \in Ids : new[i].deleted = 0 \/ new[i].deleted = mirror[i].deleted
      BY <1>5
    <3> QED BY <1>0, <1>5, <3>1 DEF CopyInv
  <2> QED BY <1>0, <1>1, <1>3, <1>4, <1>5, <1>7, <2>1 DEF CopyInv
<1>11. AbsentInv' /\ TombstoneIsTrue'
  <2>1. AbsentInv'
    BY <1>1, <1>7 DEF AttendanceInv, AbsentInv, Absent, Visible
  <2>2. TombstoneIsTrue'
    BY <1>1, <1>5 DEF AttendanceInv, TombstoneIsTrue, Absent, Visible
  <2> QED BY <2>1, <2>2
<1>12. ASSUME hides = 0, directs = 0 PROVE VersionInv' /\ CursorInv' /\ FreshInv'
  <2>0. VersionInv /\ CursorInv /\ FreshInv
    BY <1>12 DEF AttendanceInv
  <2>1. \A i \in Ids : /\ odoo[i] \in AttType /\ mirror[i] \in CopyType /\ new[i] \in CopyType
                       /\ odoo[i].ver \in Nat /\ odoo[i].wd \in Nat
                       /\ mirror[i].ver \in Nat /\ mirror[i].wd \in Nat
    BY <1>0, <1>2 DEF AttType, CopyType
  <2>2. \A i \in D : run.got[i].ver \in Nat /\ run.got[i].wd \in Nat /\ i \in Ids
    BY <1>0 DEF AttType
  <2>3. \A i \in D : /\ run.got[i].ver <= odoo[i].ver /\ run.got[i].wd <= odoo[i].wd
                     /\ mirror[i].known => mirror[i].ver <= run.got[i].ver /\ mirror[i].wd <= run.got[i].wd
    BY <2>0 DEF VersionInv, D
  <2>4. VersionInv'
    <3>1. \A i \in Ids :
             /\ missing[i] # 0 \/ new[i].deleted # 0 => ~odoo[i].there
             /\ new[i].known => new[i].ver <= odoo[i].ver /\ new[i].wd <= odoo[i].wd
      BY <1>2, <1>5, <2>0, <2>3 DEF VersionInv
    <3> QED BY <1>1, <1>7, <2>0, <3>1 DEF VersionInv
  <2>5. ASSUME NEW i \in Ids, Mirrored(i) PROVE Mirrored(i)'
    BY <1>1, <1>2, <2>1, <2>2, <2>3, <2>5 DEF Mirrored
  <2>6. ASSUME NEW i \in Ids, Visible(i), i \in D, run.got[i].ver = odoo[i].ver PROVE Mirrored(i)'
    <3>1. mirror[i].deleted = 0
      BY <2>0, <2>6 DEF VersionInv, Visible
    <3>2. Accepts(mirror[i], run.got[i], run.obs)
      BY <2>1, <2>2, <2>3, <2>6, <3>1 DEF Accepts
    <3> QED BY <1>1, <1>2, <2>6, <3>2 DEF Mirrored
  <2>7. \A i \in Ids : Visible(i) => Mirrored(i)' \/ (~run.fresh /\ odoo[i].wd >= now - Overlap)
    BY <1>1, <2>0, <2>5, <2>6 DEF CursorInv, D
  <2>8. CursorInv'
    <3> SUFFICES ASSUME NEW i \in Ids, Visible(i), ~Mirrored(i)'
                 PROVE  odoo[i].wd >= LaterCursor - Overlap
      BY <1>1, <1>4, <1>7 DEF CursorInv, Visible
    <3>1. odoo[i].wd >= now - Overlap
      BY <2>7
    <3> QED BY <1>0, <1>3, <2>1, <3>1
  <2>9. FreshInv'
    <3>1. "inc" \notin stale' => \A i \in Ids : Visible(i) => Mirrored(i)'
      <4>1. CASE run.fresh
        BY <2>7, <4>1
      <4>2. CASE ~run.fresh
        BY <1>1, <2>0, <2>5, <4>2 DEF FreshInv
      <4> QED BY <4>1, <4>2
    <3>2. "sweep" \notin stale' =>
             \A i \in Ids : new[i].known /\ ~Visible(i) => new[i].deleted # 0
      <4> SUFFICES ASSUME "sweep" \notin stale', NEW i \in Ids, new[i].known, ~Visible(i)
                   PROVE  new[i].deleted # 0
        OBVIOUS
      <4>1. "sweep" \notin stale
        BY <1>1
      <4>2. i \notin D
        BY <2>0, <4>1 DEF FreshInv, D
      <4>3. new[i] = mirror[i]
        BY <1>2, <4>2
      <4> QED BY <2>0, <4>1, <4>3 DEF FreshInv
    <3> QED BY <1>1, <1>7, <3>1, <3>2 DEF FreshInv, Visible
  <2> QED BY <2>4, <2>8, <2>9
<1> QED BY <1>1, <1>6, <1>8, <1>9, <1>10, <1>11, <1>12 DEF AttendanceInv

(* A sweep stores: what was not found is a tombstone, what is back is read. *)
LEMMA StoreSweepStep == AttendanceInv /\ StoreSweep => AttendanceInv'
<1> SUFFICES ASSUME AttendanceInv, StoreSweep PROVE AttendanceInv'
  OBVIOUS
<1> DEFINE D == DOMAIN run.got
           up == Upsert(run.got, run.obs)
           new == [i \in Ids |-> IF up[i].known /\ up[i].deleted = 0 /\ i \notin run.ids
                                 THEN [up[i] EXCEPT !.deleted = run.obs] ELSE up[i]]
<1>0. /\ MirrorTypeOK /\ OdooInv /\ CopyInv /\ now \in 0..MaxTime /\ MaxTime \in Nat
      /\ D \in SUBSET Ids /\ run.got \in [D -> AttType] /\ run.obs \in 0..MaxTime
      /\ odoo \in [Ids -> AttType] /\ mirror \in [Ids -> CopyType]
  BY MirrorAssumption, RunFields DEF AttendanceInv, MirrorTypeOK
<1>1. /\ UNCHANGED <<now, odoo, tx, dw, failing, computed>>
      /\ UNCHANGED <<missing, edits, hides, troubles, directs>>
      /\ run.pc = "sstore" /\ run' = NoRun /\ StoreRows(new) /\ mirror' = new /\ due' = FALSE
      /\ stale' = (IF run.fresh THEN stale \ {"sweep"} ELSE stale)
  BY DEF StoreSweep, StoreRows
<1>2. /\ up \in [Ids -> CopyType]
      /\ \A i \in Ids : \/ up[i] = mirror[i]
                        \/ /\ i \in D /\ up[i].known /\ up[i].deleted = 0
                           /\ up[i].day = run.got[i].day
  <2>1. /\ up \in [Ids -> CopyType]
        /\ \A i \in Ids : \/ up[i] = mirror[i] /\ ~(i \in D /\ Accepts(mirror[i], run.got[i], run.obs))
                          \/ /\ i \in D /\ up[i].known /\ up[i].deleted = 0
                             /\ up[i].ver = run.got[i].ver /\ up[i].wd = run.got[i].wd
                             /\ up[i].day = run.got[i].day
    BY <1>0, UpsertRun
  <2> QED BY <2>1
<1>3. 0 < run.obs /\ run.obs <= now
  BY <1>0, <1>1 DEF CopyInv
<1>4. /\ new \in [Ids -> CopyType]
      /\ \A i \in Ids : \/ new[i] = up[i] /\ ~(up[i].known /\ up[i].deleted = 0 /\ i \notin run.ids)
                        \/ /\ up[i].known /\ up[i].deleted = 0 /\ i \notin run.ids
                           /\ new[i].known /\ new[i].deleted = run.obs /\ new[i].day = up[i].day
                           /\ new[i].ver = up[i].ver /\ new[i].wd = up[i].wd
  <2> HIDE DEF up, D
  <2>1. \A i \in Ids : LET n == [up[i] EXCEPT !.deleted = run.obs]
                       IN n \in CopyType /\ n.known = up[i].known /\ n.deleted = run.obs
                          /\ n.day = up[i].day /\ n.ver = up[i].ver /\ n.wd = up[i].wd
    BY <1>0, <1>2 DEF CopyType
  <2> QED BY <1>2, <2>1
<1> HIDE DEF new, up, D
<1>5. DOMAIN run.got \subseteq run.ids /\ \A i \in Active \ run.ids : Absent(i, run.obs)
  BY <1>1 DEF AttendanceInv, AbsentInv
<1>6. \A i \in Ids : /\ mirror[i].known => new[i].known
                     /\ new[i].known => new[i].day \in WorkDays /\ odoo[i].ver > 0
                     /\ ~new[i].known => new[i] = mirror[i]
  BY <1>0, <1>2, <1>4 DEF CopyInv, D
<1>7. \A i \in Ids : new[i].deleted # 0 =>
         \/ new[i] = mirror[i]
         \/ /\ i \in Active \ run.ids /\ new[i].deleted = run.obs
            /\ up[i] = mirror[i]
  BY <1>2, <1>4, <1>5 DEF D, Active
<1>8. /\ st' \in [cursor : 0..MaxTime, inc : BOOLEAN, sweep : BOOLEAN, base : BOOLEAN,
                  err : SUBSET Owners]
      /\ st'.cursor = st.cursor /\ st'.base = st.base
  <2>1. st' = [cursor |-> st.cursor, inc |-> st.inc, sweep |-> TRUE, base |-> st.base,
               err |-> st.err \ {"sweep"}]
    BY <1>0 DEF StoreSweep, ErrorAfterSuccess, MirrorTypeOK
  <2> QED BY <1>0, <2>1 DEF MirrorTypeOK
<1>9. queued' \subseteq WorkDays /\ UnqueuedIsComputed'
  BY <1>1, <1>4, <1>6, <1>8, StoredDays
<1>10. /\ run' \in RunType({}) /\ DOMAIN run'.got = {} /\ run'.pc = "idle" /\ run'.top = 0
  BY <1>1, NoRunIs
<1>11. MirrorTypeOK'
  <2>1. tk' \in [pc : {"idle", "inc", "sweep", "base"}, due : BOOLEAN, ok : BOOLEAN]
    BY <1>0 DEF StoreSweep, MirrorTypeOK
  <2>2. stale' \subseteq Owners
    BY <1>0, <1>1 DEF MirrorTypeOK
  <2> QED BY <1>0, <1>1, <1>4, <1>8, <1>9, <1>10, <2>1, <2>2 DEF MirrorTypeOK
<1>12. OdooInv'
  BY <1>0, <1>1 DEF OdooInv
<1>13. CopyInv'
  <2>1. \A i \in Ids : /\ new[i].deleted # 0 => new[i].known
                       /\ new[i].deleted <= now
                       /\ new[i].known => odoo[i].ver > 0 /\ new[i].day \in WorkDays
    <3>1. \A i \in Ids : new[i].deleted = 0 \/ new[i].deleted = mirror[i].deleted
                         \/ new[i].deleted = run.obs
      BY <1>7
    <3>2. \A i \in Ids : new[i].deleted # 0 => new[i].known
      BY <1>0, <1>6, <1>7 DEF CopyInv, Active
    <3> QED BY <1>0, <1>3, <1>6, <3>1, <3>2 DEF CopyInv
  <2>2. st'.cursor <= now /\ run'.top <= now
    BY <1>0, <1>8, <1>10 DEF CopyInv
  <2> QED BY <1>0, <1>1, <1>6, <1>10, <2>1, <2>2 DEF CopyInv
<1>14. AbsentInv'
  BY <1>1, <1>10 DEF AttendanceInv, AbsentInv, Absent, Visible
<1>15. TombstoneIsTrue'
  <2> SUFFICES ASSUME NEW i \in Ids, new[i].deleted # 0 PROVE Absent(i, new[i].deleted)
    BY <1>1 DEF TombstoneIsTrue, Absent, Visible
  <2>1. CASE new[i] = mirror[i]
    BY <2>1 DEF AttendanceInv, TombstoneIsTrue
  <2>2. CASE i \in Active \ run.ids /\ new[i].deleted = run.obs
    BY <1>5, <2>2
  <2> QED BY <1>7, <2>1, <2>2
<1>16. ASSUME hides = 0, directs = 0 PROVE VersionInv' /\ CursorInv' /\ FreshInv'
  <2>0. VersionInv /\ CursorInv /\ FreshInv
    BY <1>16 DEF AttendanceInv
  <2>1. D = {}
    BY <1>1, <2>0 DEF FreshInv, SweepPhases, D
  <2>2. \A i \in Ids : up[i] = mirror[i]
    BY <1>2, <2>1
  <2>3. \A i \in Active \ run.ids : ~odoo[i].there
    <3> SUFFICES ASSUME NEW i \in Active \ run.ids PROVE ~odoo[i].there
      OBVIOUS
    <3>1. i \in Ids /\ missing[i] \in Nat
      BY <1>0 DEF Active, MirrorTypeOK
    <3>2. ~Visible(i) \/ missing[i] # 0
      BY <1>0, <1>3, <1>5, <3>1 DEF Absent
    <3> QED BY <2>0, <3>1, <3>2 DEF VersionInv, Visible
  <2>4. \A i \in Ids : new[i].ver = mirror[i].ver /\ new[i].wd = mirror[i].wd
                       /\ (new[i].known => mirror[i].known)
    BY <1>4, <1>6, <2>2
  <2>5. VersionInv'
    <3>1. \A i \in Ids : new[i].deleted # 0 => ~odoo[i].there
      BY <1>7, <2>0, <2>3 DEF VersionInv
    <3> QED BY <1>1, <1>10, <2>0, <2>4, <3>1 DEF VersionInv
  <2>6. \A i \in Ids : Visible(i) /\ Mirrored(i) => Mirrored(i)'
    <3> SUFFICES ASSUME NEW i \in Ids, Visible(i), Mirrored(i) PROVE Mirrored(i)'
      OBVIOUS
    <3>1. i \notin Active \ run.ids
      BY <2>3 DEF Visible
    <3>2. new[i].deleted = 0
      BY <1>7, <3>1 DEF Mirrored
    <3> QED BY <1>1, <1>6, <2>4, <3>2 DEF Mirrored
  <2>7. CursorInv'
    BY <1>1, <1>8, <1>10, <2>0, <2>6 DEF CursorInv, Visible
  <2>8. FreshInv'
    <3>1. "inc" \notin stale' => \A i \in Ids : Visible(i) => Mirrored(i)'
      <4>1. "inc" \notin stale' => "inc" \notin stale
        BY <1>1
      <4> QED BY <2>0, <2>6, <4>1 DEF FreshInv
    <3>2. "sweep" \notin stale' =>
             \A i \in Ids : new[i].known /\ ~Visible(i) => new[i].deleted # 0
      <4> SUFFICES ASSUME "sweep" \notin stale', NEW i \in Ids, new[i].known, ~Visible(i),
                          new[i].deleted = 0
                   PROVE  FALSE
        OBVIOUS
      <4>1. new[i] = mirror[i] /\ i \in run.ids
        BY <1>0, <1>3, <1>4, <2>2
      <4>2. CASE run.fresh
        BY <1>1, <2>0, <4>1, <4>2 DEF FreshInv
      <4>3. CASE ~run.fresh
        BY <1>1, <2>0, <4>1, <4>3 DEF FreshInv
      <4> QED BY <4>2, <4>3
    <3> QED BY <1>1, <1>10, <3>1, <3>2 DEF FreshInv, Visible
  <2> QED BY <2>5, <2>7, <2>8
<1> QED BY <1>1, <1>9, <1>11, <1>12, <1>13, <1>14, <1>15, <1>16 DEF AttendanceInv

(***************************************************************************)
(* A correction job that stores what it verified                           *)
(***************************************************************************)
LEMMA DirectReadsStep ==
    AttendanceInv /\ (DirectBegins \/ (\E i \in Ids : DirectRead(i)) \/ DirectEnqueue) => AttendanceInv'
<1> SUFFICES ASSUME AttendanceInv, DirectBegins \/ (\E i \in Ids : DirectRead(i)) \/ DirectEnqueue
             PROVE  AttendanceInv'
  OBVIOUS
<1>0. /\ MirrorTypeOK /\ OdooInv /\ CopyInv /\ AbsentInv /\ TombstoneIsTrue /\ UnqueuedIsComputed
      /\ now \in Nat /\ directs \in Nat /\ dw \in DirectType
      /\ odoo \in [Ids -> AttType] /\ mirror \in [Ids -> CopyType]
      /\ run.obs \in 0..MaxTime /\ run.top \in Nat /\ st.cursor \in Nat
      /\ DOMAIN run.got \subseteq Ids /\ run.got \in [DOMAIN run.got -> AttType]
  BY MirrorAssumption, RunFields DEF AttendanceInv, MirrorTypeOK
<1>1. NoAtt \in AttType /\ ~NoAtt.there /\ NoDirect \in DirectType /\ NoDirect.pc = "idle"
  BY MirrorAssumption DEF NoAtt, NoDirect, AttType, DirectType
<1>2. CASE DirectBegins
  <2>1. /\ UNCHANGED <<odoo, tx, mirror, st, run, tk, failing, due, queued, computed, stale>>
        /\ UNCHANGED <<missing, edits, hides, troubles>>
        /\ directs' = directs + 1 /\ now' = Later /\ dw.pc = "idle"
        /\ dw' = [NoDirect EXCEPT !.pc = "read", !.obs = Later]
    BY <1>2 DEF DirectBegins
  <2>2. OdooInv' /\ now <= now' /\ now' \in 1..MaxTime
    BY <1>2, <2>1, ClockStep DEF DirectBegins
  <2>3. dw'.pc = "read" /\ dw'.obs = now' /\ dw' \in DirectType
    <3>1. dw' = [pc |-> "read", obs |-> now', id |-> 0, att |-> NoAtt, days |-> {}]
      BY <2>1 DEF NoDirect
    <3> QED BY <1>1, <2>2, <3>1 DEF DirectType
  <2>4. MirrorTypeOK'
    BY <1>0, <2>1, <2>2, <2>3 DEF MirrorTypeOK
  <2>5. CopyInv'
    <3>1. \A i \in Ids : mirror[i].deleted \in Nat /\ mirror[i].deleted <= now'
      BY <1>0, <2>2 DEF CopyInv, CopyType
    <3>2. \A i \in DOMAIN run.got : run.got[i].wd <= now'
      BY <1>0, <2>2 DEF CopyInv, AttType
    <3>3. run.pc # "idle" => 0 < run.obs /\ run.obs <= now'
      BY <1>0, <2>2 DEF CopyInv
    <3>4. st.cursor <= now' /\ run.top <= now'
      BY <1>0, <2>2 DEF CopyInv
    <3>5. directs' > 0 /\ 0 < dw'.obs /\ dw'.obs <= now' /\ dw'.pc # "store"
      BY <1>0, <2>1, <2>2, <2>3
    <3> QED BY <1>0, <2>1, <3>1, <3>2, <3>3, <3>4, <3>5 DEF CopyInv
  <2>6. AbsentInv' /\ TombstoneIsTrue'
    BY <1>0, <2>1, <2>3 DEF AbsentInv, TombstoneIsTrue, Absent, Visible, Active
  <2>7. UnqueuedIsComputed'
    BY <1>0, <2>1 DEF UnqueuedIsComputed, View, Active
  <2>8. directs' # 0
    BY <1>0, <2>1
  <2> QED BY <2>2, <2>4, <2>5, <2>6, <2>7, <2>8 DEF AttendanceInv
<1>3. ASSUME NEW i \in Ids, DirectRead(i) PROVE AttendanceInv'
  <2> DEFINE att == IF Visible(i) THEN odoo[i] ELSE NoAtt
  <2>1. /\ UNCHANGED <<now, odoo, tx, mirror, st, run, tk, failing, due, queued, computed, stale>>
        /\ UNCHANGED <<missing, edits, hides, troubles, directs>>
        /\ dw.pc = "read" /\ mirror[i].known
        /\ dw' = [dw EXCEPT !.pc = "store", !.id = i, !.att = att]
    BY <1>3 DEF DirectRead
  <2>2. /\ att \in AttType /\ (att.there => att.day \in WorkDays) /\ (~att.there => ~Visible(i))
    BY <1>0, <1>1 DEF OdooInv, Visible
  <2> HIDE DEF att
  <2>3. /\ dw'.pc = "store" /\ dw'.obs = dw.obs /\ dw'.id = i /\ dw'.att = att
        /\ dw' \in DirectType
    <3>1. dw' = [pc |-> "store", obs |-> dw.obs, id |-> i, att |-> att, days |-> dw.days]
      BY <1>0, <2>1 DEF DirectType
    <3> QED BY <1>0, <2>2, <3>1 DEF DirectType
  <2>4. MirrorTypeOK'
    BY <1>0, <2>1, <2>3 DEF MirrorTypeOK
  <2>5. OdooInv'
    BY <1>0, <2>1 DEF OdooInv
  <2>6. CopyInv'
    BY <1>0, <2>1, <2>2, <2>3 DEF CopyInv
  <2>7. AbsentInv' /\ TombstoneIsTrue'
    BY <1>0, <2>1, <2>2, <2>3 DEF AbsentInv, TombstoneIsTrue, Absent, Visible, Active
  <2>8. UnqueuedIsComputed'
    BY <1>0, <2>1 DEF UnqueuedIsComputed, View, Active
  <2>9. directs' # 0
    BY <1>0, <2>1 DEF CopyInv
  <2> QED BY <2>4, <2>5, <2>6, <2>7, <2>8, <2>9 DEF AttendanceInv
<1>4. CASE DirectEnqueue
  <2>1. /\ UNCHANGED <<now, odoo, tx, mirror, st, run, tk, failing, due, computed, stale>>
        /\ UNCHANGED <<missing, edits, hides, troubles, directs>>
        /\ dw.pc = "enqueue" /\ dw' = NoDirect /\ queued' = queued \cup dw.days
    BY <1>4 DEF DirectEnqueue
  <2>2. MirrorTypeOK'
    <3>1. queued' \subseteq WorkDays
      BY <1>0, <2>1 DEF MirrorTypeOK, DirectType
    <3> QED BY <1>0, <1>1, <2>1, <3>1 DEF MirrorTypeOK
  <2>3. OdooInv'
    BY <1>0, <2>1 DEF OdooInv
  <2>4. CopyInv' /\ AbsentInv' /\ TombstoneIsTrue'
    BY <1>0, <1>1, <2>1 DEF CopyInv, AbsentInv, TombstoneIsTrue, Absent, Visible, Active
  <2>5. UnqueuedIsComputed'
    BY <1>0, <2>1 DEF UnqueuedIsComputed, View, Active
  <2>6. directs' # 0
    BY <1>0, <2>1 DEF CopyInv
  <2> QED BY <2>2, <2>3, <2>4, <2>5, <2>6 DEF AttendanceInv
<1> QED BY <1>2, <1>3, <1>4

LEMMA DirectStoreStep == AttendanceInv /\ DirectStore => AttendanceInv'
<1> SUFFICES ASSUME AttendanceInv, DirectStore PROVE AttendanceInv'
  OBVIOUS
<1> DEFINE i == dw.id
           up == Upsert([k \in {i} |-> dw.att], dw.obs)
           gone == IF mirror[i].deleted = 0 THEN [mirror EXCEPT ![i].deleted = dw.obs] ELSE mirror
<1>0. /\ MirrorTypeOK /\ OdooInv /\ CopyInv /\ AbsentInv /\ TombstoneIsTrue /\ UnqueuedIsComputed
      /\ now \in Nat /\ directs \in Nat /\ dw \in DirectType
      /\ odoo \in [Ids -> AttType] /\ mirror \in [Ids -> CopyType]
      /\ DOMAIN run.got \subseteq Ids /\ run.got \in [DOMAIN run.got -> AttType]
  BY MirrorAssumption, RunFields DEF AttendanceInv, MirrorTypeOK
<1>1. NoDirect \in DirectType /\ NoDirect.pc = "idle"
  BY MirrorAssumption DEF NoAtt, NoDirect, AttType, DirectType
<1>2. /\ UNCHANGED <<now, odoo, tx, st, run, tk, failing, due, computed, stale>>
      /\ UNCHANGED <<missing, edits, hides, troubles, directs>>
      /\ dw.pc = "store" /\ run.pc = "idle"
  BY DEF DirectStore
<1>3. /\ i \in Ids /\ mirror[i].known /\ mirror[i].day \in WorkDays /\ odoo[i].ver > 0
      /\ dw.obs \in 0..MaxTime /\ 0 < dw.obs /\ dw.obs <= now /\ directs # 0
      /\ dw.att \in AttType /\ (dw.att.there => dw.att.day \in WorkDays)
      /\ (~dw.att.there => Absent(i, dw.obs))
  BY <1>0, <1>2 DEF CopyInv, AbsentInv, DirectType
<1> HIDE DEF i
<1>4. ASSUME NEW new \in [Ids -> CopyType], mirror' = new, queued' \subseteq WorkDays,
             \A k \in Ids : /\ new[k].known => mirror[k].known /\ new[k].day \in WorkDays
                            /\ \/ new[k] = mirror[k] \/ new[k].deleted = 0
                               \/ new[k].deleted = dw.obs /\ new[k].known /\ Absent(k, dw.obs),
             dw' \in DirectType, dw'.pc \in {"idle", "enqueue"},
             dw'.pc = "enqueue" => dw'.obs = dw.obs, UnqueuedIsComputed'
      PROVE  AttendanceInv'
  <2>1. MirrorTypeOK'
    BY <1>0, <1>2, <1>4 DEF MirrorTypeOK
  <2>2. OdooInv'
    BY <1>0, <1>2 DEF OdooInv
  <2>3. CopyInv'
    <3>1. \A k \in Ids : /\ new[k].deleted # 0 => new[k].known
                         /\ new[k].deleted <= now
                         /\ new[k].known => odoo[k].ver > 0 /\ new[k].day \in WorkDays
      BY <1>0, <1>3, <1>4 DEF CopyInv
    <3>2. dw'.pc # "idle" => 0 < dw'.obs /\ dw'.obs <= now /\ directs > 0
      BY <1>0, <1>3, <1>4
    <3> QED BY <1>0, <1>2, <1>4, <3>1, <3>2 DEF CopyInv
  <2>4. AbsentInv'
    BY <1>2, <1>4 DEF AbsentInv
  <2>5. TombstoneIsTrue'
    BY <1>0, <1>2, <1>4 DEF TombstoneIsTrue, Absent, Visible
  <2> QED BY <1>2, <1>3, <1>4, <2>1, <2>2, <2>3, <2>4, <2>5 DEF AttendanceInv
<1>5. CASE dw.att.there
  <2>1. /\ StoreRows(up) /\ dw' = NoDirect /\ mirror' = up
    BY <1>5 DEF DirectStore, StoreRows, i
  <2>2. [k \in {i} |-> dw.att] \in [{i} -> AttType] /\ {i} \in SUBSET Ids /\ dw.obs \in Nat
    BY <1>3, MirrorAssumption
  <2>3. /\ up \in [Ids -> CopyType]
        /\ \A k \in Ids : \/ up[k] = mirror[k]
                          \/ k = i /\ up[k].known /\ up[k].deleted = 0 /\ up[k].day = dw.att.day
    <3>1. \A rows \in [{i} -> AttType], obs \in Nat :
             /\ Upsert(rows, obs) \in [Ids -> CopyType]
             /\ \A k \in Ids :
                   \/ /\ Upsert(rows, obs)[k] = mirror[k]
                      /\ ~(k \in {i} /\ Accepts(mirror[k], rows[k], obs))
                   \/ /\ k \in {i}
                      /\ Upsert(rows, obs)[k].known /\ Upsert(rows, obs)[k].deleted = 0
                      /\ Upsert(rows, obs)[k].ver = rows[k].ver
                      /\ Upsert(rows, obs)[k].wd = rows[k].wd
                      /\ Upsert(rows, obs)[k].day = rows[k].day
      BY <1>0, <2>2, UpsertAll
    <3> DEFINE rows == [k \in {i} |-> dw.att]
    <3>2. \A k \in {i} : rows[k] = dw.att
      OBVIOUS
    <3> HIDE DEF rows
    <3>3. rows \in [{i} -> AttType]
      BY <2>2 DEF rows
    <3>4. /\ Upsert(rows, dw.obs) \in [Ids -> CopyType]
          /\ \A k \in Ids :
                   \/ Upsert(rows, dw.obs)[k] = mirror[k]
                   \/ /\ k \in {i}
                      /\ Upsert(rows, dw.obs)[k].known /\ Upsert(rows, dw.obs)[k].deleted = 0
                      /\ Upsert(rows, dw.obs)[k].day = rows[k].day
      BY <2>2, <3>1, <3>3, Zenon
    <3> QED BY <3>2, <3>4 DEF rows
  <2> HIDE DEF up
  <2>4. \A k \in Ids : /\ mirror[k].known => up[k].known
                       /\ up[k].known => mirror[k].known /\ up[k].day \in WorkDays
                       /\ ~up[k].known => up[k] = mirror[k]
    BY <1>0, <1>3, <1>5, <2>3 DEF CopyInv
  <2>5. queued' \subseteq WorkDays /\ UnqueuedIsComputed'
    BY <1>2, <2>1, <2>3, <2>4, StoredDays
  <2> QED BY <1>1, <1>4, <2>1, <2>3, <2>4, <2>5
<1>6. CASE ~dw.att.there
  <2>1. /\ mirror' = gone /\ dw' = [dw EXCEPT !.pc = "enqueue", !.days = {mirror[i].day}]
        /\ queued' = queued
    BY <1>6 DEF DirectStore, i
  <2>2. /\ gone \in [Ids -> CopyType]
        /\ \A k \in Ids : /\ k # i => gone[k] = mirror[k]
                          /\ gone[k].known = mirror[k].known /\ gone[k].day = mirror[k].day
                          /\ gone[k].ver = mirror[k].ver
                          /\ gone[k] = mirror[k] \/ (k = i /\ gone[k].deleted = dw.obs)
    BY <1>0, <1>3 DEF CopyType
  <2> HIDE DEF gone
  <2>3. /\ dw'.pc = "enqueue" /\ dw'.obs = dw.obs /\ dw'.days = {mirror[i].day} /\ dw' \in DirectType
    <3>1. dw' = [pc |-> "enqueue", obs |-> dw.obs, id |-> dw.id, att |-> dw.att, days |-> {mirror[i].day}]
      BY <1>0, <2>1 DEF DirectType
    <3> QED BY <1>0, <1>3, <3>1 DEF DirectType
  <2>4. \A d \in WorkDays : d # mirror[i].day => View(d)' = View(d)
    <3>1. \A k \in Ids : /\ mirror'[k].day = mirror[k].day /\ mirror'[k].ver = mirror[k].ver
                         /\ k # i => mirror'[k] = mirror[k]
      BY <2>1, <2>2
    <3>2. \A d \in WorkDays : d # mirror[i].day =>
             {k \in Active' : mirror'[k].day = d} = {k \in Active : mirror[k].day = d}
      BY <3>1 DEF Active
    <3> QED BY <3>1, <3>2 DEF View, Active
  <2>5. UnqueuedIsComputed'
    BY <1>0, <1>2, <2>1, <2>3, <2>4 DEF UnqueuedIsComputed
  <2>6. \A k \in Ids : /\ gone[k].known => mirror[k].known /\ gone[k].day \in WorkDays
                       /\ \/ gone[k] = mirror[k] \/ gone[k].deleted = 0
                          \/ gone[k].deleted = dw.obs /\ gone[k].known /\ Absent(k, dw.obs)
    BY <1>0, <1>3, <1>6, <2>2 DEF CopyInv
  <2>7. queued' \subseteq WorkDays
    BY <1>0, <2>1 DEF MirrorTypeOK
  <2> QED BY <1>4, <2>1, <2>2, <2>3, <2>5, <2>6, <2>7
<1> QED BY <1>5, <1>6

(***************************************************************************)
(* Every step, and the theorems                                            *)
(***************************************************************************)
LEMMA MirrorStands == AttendanceInv /\ UNCHANGED mirrorVars => AttendanceInv'
<1> SUFFICES ASSUME AttendanceInv, UNCHANGED mirrorVars PROVE AttendanceInv'
  OBVIOUS
<1>1. UNCHANGED Kept /\ st' = st /\ tx' = tx
  BY DEF mirrorVars, Kept
<1>2. MirrorTypeOK'
  BY DEF mirrorVars, AttendanceInv, MirrorTypeOK
<1>3. UnqueuedIsComputed'
  BY DEF mirrorVars, AttendanceInv, UnqueuedIsComputed, View, Active
<1> QED BY <1>1, <1>2, <1>3, KeptStep

LEMMA MirrorStep == AttendanceInv /\ [MirrorNext]_mirrorVars => AttendanceInv'
<1> SUFFICES ASSUME AttendanceInv, [MirrorNext]_mirrorVars PROVE AttendanceInv'
  OBVIOUS
<1>1. CASE Odoo
  BY <1>1, OdooStep
<1>2. CASE Sync
  BY <1>2, AroundStep, RunBeginsStep, WatermarkStep, ReadPageStep, OpenRowsStep, StoreIncrementalStep,
     FetchIdsStep, ConfirmEmptyStep, ReadRecoveryStep, StoreSweepStep DEF Sync
<1>3. CASE Job
  BY <1>3, DirectReadsStep, DirectStoreStep DEF Job
<1>4. CASE \/ RunFails \/ MirrorCrash \/ HourPasses
           \/ (\E o \in {"inc", "sweep"} : RecordFailure(o))
           \/ (\E d \in WorkDays : Recalculate(d))
  BY <1>4, DiesStep, AroundStep
<1>5. CASE UNCHANGED mirrorVars
  BY <1>5, MirrorStands
<1> QED BY <1>1, <1>2, <1>3, <1>4, <1>5 DEF MirrorNext

(* The invariant of the mirror (attendance_mirror.py, attendance_sync.py). *)
THEOREM AttendanceInvariant == MirrorSpec => []AttendanceInv
<1> QED BY MirrorStarts, MirrorStep, PTL DEF MirrorSpec

(* The copies are typed; once both runs have read Odoo as it is now, with no   *)
(* row hidden and no job storing beside them, they are Odoo; a tombstone stands *)
(* for a row that was not there; and a day that is not queued was computed     *)
(* from its copies (attendance_mirror.py:411, :446, attendance_sync.py:350).   *)
THEOREM MirrorIsSafe == MirrorSpec => []MirrorIsRight
<1>1. AttendanceInv => MirrorIsRight
  <2> SUFFICES ASSUME AttendanceInv PROVE MirrorIsRight
    OBVIOUS
  <2>1. MirrorTypeOK /\ TombstoneIsTrue /\ UnqueuedIsComputed
    BY DEF AttendanceInv
  <2>2. ASSUME stale = {}, hides = 0, directs = 0, NEW i \in Ids PROVE SameAsOdoo(i)
    <3>1. FreshInv
      BY <2>2 DEF AttendanceInv
    <3>2. CASE Visible(i)
      BY <2>2, <3>1, <3>2 DEF FreshInv, SameAsOdoo, Mirrored
    <3>3. CASE ~Visible(i)
      BY <2>2, <3>1, <3>3 DEF FreshInv, SameAsOdoo
    <3> QED BY <3>2, <3>3
  <2>3. Converged
    BY <2>2 DEF Converged
  <2> QED BY <2>1, <2>3 DEF MirrorIsRight
<1> QED BY <1>1, AttendanceInvariant, PTL

(* Only the stores change the copies. *)
LEMMA Revives ==
    ASSUME AttendanceInv, [MirrorNext]_mirrorVars PROVE RevivesLater
<1> DEFINE obs == IF run.pc = "idle" THEN dw.obs ELSE run.obs
<1> SUFFICES ASSUME NEW i \in Ids, mirror[i].deleted # 0, mirror'[i].deleted = 0
             PROVE  obs > mirror[i].deleted
  BY DEF RevivesLater
<1>0. /\ MirrorTypeOK /\ mirror[i].known /\ mirror \in [Ids -> CopyType]
  BY DEF AttendanceInv, MirrorTypeOK, CopyInv
<1>1. mirror' # mirror
  OBVIOUS
<1>2. StoreIncremental \/ StoreSweep \/ DirectStore
  <2>1. ~Odoo
    BY <1>1 DEF Odoo, Write, BeginWrite, CommitWrite, Remove, Hide, Show, appVars
  <2>2. Sync => StoreIncremental \/ StoreSweep
    BY <1>1 DEF Sync, TickBegins, IncBegins, Watermark, Page, OpenRows, SweepBegins, FetchIds,
                ConfirmEmpty, ReadRecovery, CompleteBaseline, appVars
  <2>3. Job => DirectStore
    BY <1>1 DEF Job, DirectBegins, DirectRead, DirectEnqueue
  <2>4. ~(\/ RunFails \/ MirrorCrash \/ HourPasses
          \/ (\E o \in {"inc", "sweep"} : RecordFailure(o))
          \/ (\E d \in WorkDays : Recalculate(d)))
    BY <1>1 DEF RunFails, MirrorCrash, HourPasses, RecordFailure, Recalculate
  <2> QED BY <1>1, <2>1, <2>2, <2>3, <2>4 DEF MirrorNext, mirrorVars
<1>3. CASE StoreIncremental
  <2>1. mirror' = Upsert(run.got, run.obs) /\ run.pc # "idle"
    BY <1>3 DEF StoreIncremental, StoreRows
  <2>2. mirror'[i] # mirror[i]
    OBVIOUS
  <2>3. Accepts(mirror[i], run.got[i], run.obs)
    BY <2>1, <2>2 DEF Upsert
  <2> QED BY <1>0, <2>1, <2>3 DEF Accepts
<1>4. CASE StoreSweep
  <2> DEFINE up == Upsert(run.got, run.obs)
  <2>1. /\ mirror' = [k \in Ids |-> IF up[k].known /\ up[k].deleted = 0 /\ k \notin run.ids
                                    THEN [up[k] EXCEPT !.deleted = run.obs] ELSE up[k]]
        /\ run.pc # "idle"
    BY <1>4 DEF StoreSweep, StoreRows
  <2>2. up \in [Ids -> CopyType]
    BY <1>0, UpsertRun
  <2>3. up[i] # mirror[i]
    <3> HIDE DEF up
    <3>1. up[i].deleted # 0 => mirror'[i] = up[i]
      BY <2>1
    <3> QED BY <3>1
  <2>4. Accepts(mirror[i], run.got[i], run.obs)
    BY <2>3 DEF Upsert
  <2> QED BY <1>0, <2>1, <2>4 DEF Accepts
<1>5. CASE DirectStore
  <2>1. CASE dw.att.there
    <3>1. mirror' = Upsert([k \in {dw.id} |-> dw.att], dw.obs) /\ run.pc = "idle"
      BY <1>5, <2>1 DEF DirectStore, StoreRows
    <3>2. mirror'[i] # mirror[i]
      OBVIOUS
    <3>3. i = dw.id /\ Accepts(mirror[i], dw.att, dw.obs)
      BY <3>1, <3>2 DEF Upsert
    <3> QED BY <1>0, <3>1, <3>3 DEF Accepts
  <2>2. CASE ~dw.att.there
    <3>1. mirror' = IF mirror[dw.id].deleted = 0 THEN [mirror EXCEPT ![dw.id].deleted = dw.obs]
                    ELSE mirror
      BY <1>5, <2>2 DEF DirectStore
    <3>2. mirror[dw.id].deleted = 0 /\ mirror' = [mirror EXCEPT ![dw.id].deleted = dw.obs]
      BY <1>1, <3>1
    <3>3. mirror'[i] = mirror[i]
      BY <1>0, <3>2
    <3> QED BY <3>3
  <2> QED BY <2>1, <2>2
<1> QED BY <1>2, <1>3, <1>4, <1>5

(* A tombstone is removed only by a reading that began after it was set        *)
(* (attendance_mirror.py:269).                                                 *)
THEOREM RevivedByNewer == MirrorSpec => ReviveIsNew
<1>1. AttendanceInv /\ [MirrorNext]_mirrorVars => [RevivesLater]_mirrorVars
  BY Revives
<1> QED BY <1>1, AttendanceInvariant, PTL DEF MirrorSpec, ReviveIsNew

=============================================================================
