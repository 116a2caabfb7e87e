--------------------------- MODULE FeedbackProofs ---------------------------
(***************************************************************************)
(* Theorems about the two ways of feedback to Odoo, for every set of       *)
(* workers and every bound.                                                *)
(*                                                                         *)
(* FeedbackSync: the values of the variables; that one feedback has one    *)
(* row in Odoo, and one more for every request the HTTP client sent again; *)
(* that, while none was, what counts as synchronized is what the row says; *)
(* and that an ambiguous attempt is held.                                  *)
(*                                                                         *)
(* FeedbackTasks: the values of the variables; that one feedback becomes   *)
(* one task, and a batch alone makes one screenshot and one note, in each  *)
(* case one more for every call the HTTP client sent twice; and that what  *)
(* counts as delivered is what the task says.                              *)
(***************************************************************************)
EXTENDS FeedbackSync, FeedbackTasks, FiniteSetTheorems, TLAPS

(***************************************************************************)
(* The data                                                                *)
(***************************************************************************)
(* Changes of a feedback go forward (feedback_store.py:115).               *)
LEMMA ChangesGoForward ==
    /\ \A s \in Statuses :
          /\ Transitions(s) \subseteq Statuses /\ s \notin Transitions(s)
          /\ RankOf(s) \in 0..2
          /\ s # "unused" /\ s # "deleted"
    /\ \A s \in Statuses : \A t \in Transitions(s) :
          /\ RankOf(t) >= RankOf(s) + 1
          /\ Transitions(t) \subseteq Transitions(s)
<1>1. \A s \in Statuses : Transitions(s) \subseteq Statuses /\ s \notin Transitions(s)
  BY DEF Statuses, Transitions
<1>2. \A s \in Statuses : RankOf(s) \in 0..2 /\ s # "unused" /\ s # "deleted"
  BY DEF Statuses, RankOf
<1>3. \A s \in Statuses : \A t \in Transitions(s) : RankOf(t) >= RankOf(s) + 1
  BY DEF Statuses, Transitions, RankOf
<1>4. \A s \in Statuses : \A t \in Transitions(s) : Transitions(t) \subseteq Transitions(s)
  BY DEF Statuses, Transitions
<1> QED BY <1>1, <1>2, <1>3, <1>4

(* Nothing is sent before there is an attempt.                             *)
LEMMA NothingIsTyped ==
    /\ NoAttempt \in Attempts /\ Idle \in Works
    /\ Idle.pc = "idle" /\ NoAttempt.state = "none"
<1>1. 0 \in 0..MaxVersion
  BY BoundsAssumption DEF MaxVersion
<1>2. NoAttempt \in Attempts
  BY <1>1 DEF NoAttempt, Attempts, None, Statuses
<1>3. Idle \in Works
  BY <1>1, <1>2 DEF Idle, Works, None
<1> QED BY <1>2, <1>3 DEF Idle, NoAttempt

(* One worker goes on, the others stay where they are.                     *)
LEMMA OneWorks ==
    ASSUME wk \in [Workers -> Works], NEW w \in Workers, NEW x \in Works,
           wk' = [wk EXCEPT ![w] = x]
    PROVE  /\ wk' \in [Workers -> Works] /\ wk'[w] = x
           /\ \A v \in Workers : v # w => wk'[v] = wk[v]
OBVIOUS

(* What the code never touches in a step of the mirror.                    *)
Counted ==
    /\ faults' \in 0..MaxFaults /\ outside' \in 0..MaxOutside
    /\ releases' \in 0..MaxReleases
    /\ supersedes' = supersedes /\ resends' = resends

(* The columns of the row that the invariant speaks of.                    *)
SameVersions ==
    /\ sync'.desired = sync.desired /\ sync'.last = sync.last
    /\ sync'.rid = sync.rid

(* A version is settled after its attempt, not during it.                  *)
LEMMA NotSettledYet ==
    ASSUME MirrorInv, OneRowInv,
           att.state \in {"prepared", "dispatch_marked", "rpc_succeeded"}
    PROVE  sync.last # sync.desired
BY DEF OneRowInv, VersionInv

(***************************************************************************)
(* The operations of the store                                             *)
(***************************************************************************)
(* A thread that ends, or dies, without a write (run_batch).               *)
LEMMA EndsKeeps ==
    ASSUME MirrorInv, Counted, NEW w \in Workers, Ends(w),
           UNCHANGED <<status, sync, att, remote, late>>
    PROVE  MirrorInv'
<1>1. wk' = [wk EXCEPT ![w] = Idle] /\ Idle \in Works /\ Idle.pc = "idle"
  BY NothingIsTyped DEF Ends
<1>2. /\ wk' \in [Workers -> Works] /\ wk'[w] = Idle
      /\ \A v \in Workers : v # w => wk'[v] = wk[v]
  BY <1>1, OneWorks DEF MirrorInv, TypeOK
<1>3. TypeOK'
  BY <1>2 DEF MirrorInv, TypeOK, Counted
<1>4. CountInv'
  BY DEF MirrorInv, CountInv, Counted
<1>5. ClaimInv'
  BY <1>1, <1>2 DEF MirrorInv, ClaimInv, AttemptAt
<1>6. ASSUME Unaided' PROVE OneRowInv'
  <2>1. OneRowInv
    BY <1>6 DEF MirrorInv, Unaided, Counted
  <2>2. OwnerInv'
    BY <1>1, <1>2, <2>1 DEF MirrorInv, ClaimInv, OneRowInv, OwnerInv, Request, Used
  <2>3. VersionInv'
    BY <2>1 DEF OneRowInv, VersionInv
  <2>4. RowInv'
    BY <2>1 DEF OneRowInv, RowInv, Used
  <2>5. Sending' \subseteq Sending /\ \A v \in Sending' : wk'[v] = wk[v]
    BY <1>1, <1>2 DEF Sending
  <2>6. RequestInv'
    BY <2>1, <2>5 DEF OneRowInv, RequestInv, Request, Asked, Used, Owns
  <2>7. ContentInv'
    BY <2>1 DEF OneRowInv, ContentInv
  <2> QED BY <2>2, <2>3, <2>4, <2>6, <2>7 DEF OneRowInv
<1> QED BY <1>3, <1>4, <1>5, <1>6 DEF MirrorInv

(* The row is due again with the attempt it has (schedule_readback).       *)
LEMMA DeferKeeps ==
    ASSUME MirrorInv, Counted, NEW w \in Workers, Owns(w), Defer(w),
           att.state \in {"none", "prepared", "rpc_succeeded"}
    PROVE  MirrorInv'
<1>1. wk' = [wk EXCEPT ![w] = Idle] /\ Idle \in Works /\ Idle.pc = "idle"
  BY NothingIsTyped DEF Defer, Ends
<1>2. /\ wk' \in [Workers -> Works] /\ wk'[w] = Idle
      /\ \A v \in Workers : v # w => wk'[v] = wk[v]
  BY <1>1, OneWorks DEF MirrorInv, TypeOK
<1>3. sync' = [sync EXCEPT !.st = "idle", !.owner = Nobody]
  BY DEF Defer, Released
<1>4. /\ sync' \in Syncs /\ SameVersions
      /\ sync'.st = "idle" /\ sync'.count = sync.count
  BY <1>3 DEF MirrorInv, TypeOK, Syncs, SameVersions
<1>5. UNCHANGED <<status, att, remote, late>>
  BY DEF Defer
<1>6. TypeOK'
  BY <1>2, <1>4, <1>5 DEF MirrorInv, TypeOK, Counted
<1>7. CountInv'
  BY <1>4, <1>5 DEF MirrorInv, CountInv, Counted, SameVersions, Owns
<1>8. ClaimInv'
  BY <1>4, <1>5 DEF MirrorInv, ClaimInv
<1>9. ASSUME Unaided' PROVE OneRowInv'
  <2>1. OneRowInv
    BY <1>9 DEF MirrorInv, Unaided, Counted
  <2>2. OwnerInv'
    BY <1>4 DEF OwnerInv
  <2>3. VersionInv'
    BY <1>4, <1>5, <2>1 DEF OneRowInv, VersionInv, SameVersions
  <2>4. RowInv'
    BY <1>4, <1>5, <2>1 DEF OneRowInv, RowInv, Used, SameVersions
  <2>5. Sending' \subseteq Sending /\ \A v \in Sending' : wk'[v] = wk[v]
    BY <1>1, <1>2 DEF Sending
  <2>6. \A v \in Sending' : att.state = "ambiguous"
    BY <2>1, <2>5 DEF OneRowInv, RequestInv
  <2>7. RequestInv'
    BY <1>5, <2>1, <2>5, <2>6 DEF OneRowInv, RequestInv, Request, Asked, Used
  <2>8. ContentInv'
    BY <1>4, <1>5, <2>1 DEF OneRowInv, ContentInv, SameVersions
  <2> QED BY <2>2, <2>3, <2>4, <2>7, <2>8 DEF OneRowInv
<1> QED BY <1>6, <1>7, <1>8, <1>9 DEF MirrorInv

Reasons == {"none", "duplicate", "saved_id_conflict", "contract",
            "identity_changed", "ambiguous", "mismatch", "stale_dispatch",
            "retry_exhausted"}

(* The row is held for a person, the attempt is ambiguous (quarantine).    *)
LEMMA QuarantineKeeps ==
    ASSUME MirrorInv, Counted, NEW w \in Workers, Owns(w),
           NEW why \in Reasons, Quarantine(w, why)
    PROVE  MirrorInv'
<1>1. wk' = [wk EXCEPT ![w] = Idle] /\ Idle \in Works /\ Idle.pc = "idle"
  BY NothingIsTyped DEF Quarantine, Ends
<1>2. /\ wk' \in [Workers -> Works] /\ wk'[w] = Idle
      /\ \A v \in Workers : v # w => wk'[v] = wk[v]
  BY <1>1, OneWorks DEF MirrorInv, TypeOK
<1>3. sync' = [sync EXCEPT !.st = "quarantined", !.owner = Nobody, !.reason = why]
  BY DEF Quarantine, Held
<1>4. sync' \in Syncs /\ SameVersions /\ sync'.st = "quarantined"
  BY <1>3 DEF MirrorInv, TypeOK, Syncs, SameVersions, Reasons
<1>5. UNCHANGED <<status, remote, late>>
  BY DEF Quarantine
<1>6. /\ sync.st = "in_flight" /\ sync.owner = w
      /\ att.state \in {"none", "prepared", "dispatch_marked", "rpc_succeeded"}
      /\ att.state = "none" => att = NoAttempt
  BY DEF Owns, MirrorInv, ClaimInv, AttemptAt
<1>7. \/ att.state = "none" /\ att' = att
      \/ att.state # "none" /\ att' = [att EXCEPT !.state = "ambiguous"]
  BY <1>6, NothingIsTyped DEF Quarantine
<1>8. att' \in Attempts
  BY <1>7 DEF MirrorInv, TypeOK, Attempts
<1>9. TypeOK'
  BY <1>2, <1>4, <1>5, <1>8 DEF MirrorInv, TypeOK, Counted
<1>10. CountInv'
  BY <1>4, <1>5 DEF MirrorInv, CountInv, Counted, SameVersions
<1>11. att'.state \in {"none", "ambiguous"} /\ (att'.state = "none" => att' = att)
  BY <1>7 DEF MirrorInv, TypeOK, Attempts
<1>12. ClaimInv'
  BY <1>4, <1>6, <1>11 DEF ClaimInv
<1>13. ASSUME Unaided' PROVE OneRowInv'
  <2>1. OneRowInv
    BY <1>13 DEF MirrorInv, Unaided, Counted
  <2>2. OwnerInv'
    BY <1>4 DEF OwnerInv
  <2>3. VersionInv'
    <3>1. att.state # "none" => sync.last # sync.desired
      BY <1>6, <2>1, NotSettledYet
    <3>2. att.state = "none" => att'.state = "none"
      BY <1>7
    <3>3. sync.last <= sync.desired /\ (sync.last = sync.desired => sync.rid # None)
      BY <2>1 DEF OneRowInv, VersionInv
    <3> QED BY <1>4, <1>11, <3>1, <3>2, <3>3 DEF VersionInv, SameVersions
  <2>4. att'.kind = att.kind /\ att'.rid = att.rid /\ att'.says = att.says
    BY <1>7 DEF MirrorInv, TypeOK, Attempts
  <2>5. RowInv'
    <3>1. CASE att.state = "none"
      BY <1>4, <1>5, <1>7, <2>1, <3>1 DEF OneRowInv, RowInv, Used, SameVersions
    <3>2. CASE att.state # "none"
      <4>1. att'.state = "ambiguous"
        BY <1>7, <1>11, <3>2
      <4>2. att.kind # "create" => att.rid = sync.rid /\ sync.rid # None
        BY <1>6, <2>1, <3>2 DEF OneRowInv, RowInv, VersionInv
      <4>3. sync.rid = None => att.kind = "create" /\ \A i, j \in Used : i = j
        BY <1>6, <2>1, <3>2, <4>2 DEF OneRowInv, RowInv, VersionInv
      <4> QED BY <1>4, <1>5, <2>1, <2>4, <4>1, <4>2, <4>3
              DEF OneRowInv, RowInv, Used, SameVersions
    <3> QED BY <3>1, <3>2
  <2>6. Sending' = {}
    BY <1>1, <1>2, <1>6, <2>1 DEF Sending, OneRowInv, RequestInv, Owns
  <2>7. ASSUME NEW m \in late' PROVE m = Request' /\ att'.state = "ambiguous" /\ Asked'
    <3>1. m = Request /\ att.state # "none" /\ Asked
      BY <1>5, <1>6, <2>1 DEF OneRowInv, RequestInv
    <3>2. att' = [att EXCEPT !.state = "ambiguous"]
      BY <1>7, <3>1
    <3>3. Request' = Request
      BY <3>2 DEF Request, MirrorInv, TypeOK, Attempts
    <3> QED BY <1>5, <1>11, <2>4, <3>1, <3>2, <3>3 DEF Asked, Used, MirrorInv, TypeOK, Attempts
  <2>8. RequestInv'
    BY <2>6, <2>7 DEF RequestInv
  <2>9. ContentInv'
    BY <1>4, <1>5, <1>7, <1>11, <2>1 DEF OneRowInv, ContentInv, SameVersions
  <2> QED BY <2>2, <2>3, <2>5, <2>8, <2>9 DEF OneRowInv
<1> QED BY <1>9, <1>10, <1>12, <1>13 DEF MirrorInv

(* What is said of the row still holds when the attempt, which wrote       *)
(* nothing, is given up: the version it belonged to is not settled.        *)
LEMMA UnsentLeavesContent ==
    ASSUME MirrorInv, OneRowInv, NEW w \in Workers, Owns(w),
           wk[w].pc \in {"gate", "send"}, sync.rid # None,
           remote[sync.rid] # "deleted"
    PROVE  IF sync.last = sync.desired THEN remote[sync.rid] = status
           ELSE status \in Transitions(remote[sync.rid])
<1>1. att.state \in {"prepared", "dispatch_marked"}
  BY DEF Owns, MirrorInv, ClaimInv, AttemptAt
<1>2. CASE att.state = "prepared"
  BY <1>2 DEF OneRowInv, ContentInv
<1>3. CASE att.state = "dispatch_marked"
  <2>1. w \in Sending
    BY <1>3 DEF Sending, Owns, MirrorInv, ClaimInv, AttemptAt
  <2>2. Asked
    BY <2>1 DEF OneRowInv, RequestInv
  <2>3. Used = {sync.rid} /\ att.kind # "create" /\ att.rid = sync.rid
    BY <1>3, <2>2 DEF OneRowInv, RowInv, VersionInv, Asked
  <2>4. att.says \in Transitions(remote[sync.rid])
    BY <2>2, <2>3 DEF Asked
  <2>5. remote[sync.rid] \in Statuses
    BY <2>3 DEF Used, MirrorInv, TypeOK
  <2>6. status = att.says \/ status \in Transitions(att.says)
    BY <1>3 DEF OneRowInv, VersionInv
  <2>7. status \in Transitions(remote[sync.rid])
    BY <2>4, <2>5, <2>6, ChangesGoForward
  <2>8. sync.last < att.ver /\ att.ver <= sync.desired
    BY <1>3 DEF OneRowInv, VersionInv
  <2>9. sync.last # sync.desired
    BY <2>8, BoundsAssumption DEF MirrorInv, TypeOK, Syncs, Attempts, MaxVersion
  <2> QED BY <2>7, <2>9
<1> QED BY <1>1, <1>2, <1>3

(* An attempt that certainly wrote nothing is given up                     *)
(* (record_definitive_failure).                                            *)
LEMMA FailureKeeps ==
    ASSUME MirrorInv, Counted, NEW w \in Workers, Owns(w),
           wk[w].pc \in {"gate", "send"}, RecordDefinitiveFailure(w)
    PROVE  MirrorInv'
<1>1. wk' = [wk EXCEPT ![w] = Idle] /\ Idle \in Works /\ Idle.pc = "idle"
  BY NothingIsTyped DEF RecordDefinitiveFailure, Ends
<1>2. /\ wk' \in [Workers -> Works] /\ wk'[w] = Idle
      /\ \A v \in Workers : v # w => wk'[v] = wk[v]
  BY <1>1, OneWorks DEF MirrorInv, TypeOK
<1>3. UNCHANGED <<status, remote, late>>
  BY DEF RecordDefinitiveFailure
<1>4. /\ sync.st = "in_flight" /\ sync.owner = w
      /\ att.state \in {"prepared", "dispatch_marked"}
      /\ sync.count \in 0..MaxAttempts /\ sync.count < MaxAttempts
  BY DEF Owns, MirrorInv, ClaimInv, AttemptAt, CountInv, TypeOK, Syncs
<1>5. \/ /\ att' = [att EXCEPT !.state = "definitive_failed"]
         /\ sync' = [sync EXCEPT !.st = "quarantined", !.owner = Nobody,
                                 !.reason = "retry_exhausted", !.count = @ + 1]
      \/ /\ att' = NoAttempt
         /\ sync' = [sync EXCEPT !.st = "idle", !.owner = Nobody, !.count = @ + 1]
         /\ ~(sync.count + 1 >= MaxAttempts)
  BY DEF RecordDefinitiveFailure, Held, Released, MirrorInv, TypeOK, Syncs
<1>6. sync.count + 1 \in 0..MaxAttempts
  BY <1>4, BoundsAssumption
<1>7. sync' \in Syncs /\ SameVersions
  BY <1>5, <1>6 DEF MirrorInv, TypeOK, Syncs, SameVersions
<1>8. \/ /\ att'.state = "definitive_failed" /\ sync'.st = "quarantined"
         /\ att' \in Attempts
      \/ /\ att' = NoAttempt /\ sync'.st = "idle" /\ sync'.count < MaxAttempts
         /\ att' \in Attempts /\ att'.state = "none"
  <2>1. att \in Attempts /\ sync \in Syncs /\ MaxAttempts \in Nat
    BY BoundsAssumption DEF MirrorInv, TypeOK
  <2>2. CASE att' = NoAttempt
    <3>1. sync'.st = "idle" /\ sync'.count = sync.count + 1 /\ ~(sync.count + 1 >= MaxAttempts)
      BY <1>4, <1>5, <2>1, <2>2, NothingIsTyped DEF Syncs, Attempts
    <3> QED BY <1>4, <2>1, <2>2, <3>1, NothingIsTyped
  <2>3. CASE att' # NoAttempt
    BY <1>5, <2>1, <2>3 DEF Attempts, Syncs
  <2> QED BY <2>2, <2>3
<1>9. TypeOK'
  BY <1>2, <1>3, <1>7, <1>8 DEF MirrorInv, TypeOK, Counted
<1>10. CountInv'
  BY <1>3, <1>7, <1>8 DEF MirrorInv, CountInv, Counted, SameVersions
<1>11. ClaimInv'
  BY <1>8 DEF ClaimInv
<1>12. ASSUME Unaided' PROVE OneRowInv'
  <2>1. OneRowInv
    BY <1>12 DEF MirrorInv, Unaided, Counted
  <2>2. OwnerInv' /\ VersionInv'
    BY <1>4, <1>7, <1>8, <2>1, NotSettledYet
       DEF OneRowInv, OwnerInv, VersionInv, SameVersions
  <2>3. Sending' = {}
    BY <1>1, <1>2, <1>4, <2>1 DEF Sending, OneRowInv, RequestInv, Owns
  <2>4. att.state = "dispatch_marked" => w \in Sending
    BY <1>4 DEF Sending, MirrorInv, ClaimInv, AttemptAt
  <2>5. late = {}
    BY <1>4, <2>1, <2>4 DEF OneRowInv, RequestInv
  <2>6. RequestInv'
    BY <1>3, <2>3, <2>5 DEF RequestInv
  <2>7. sync.rid = None => Used = {}
    BY <1>4, <2>1, <2>4 DEF OneRowInv, RowInv, RequestInv, Asked
  <2>8. RowInv'
    BY <1>3, <1>7, <1>8, <2>1, <2>7 DEF OneRowInv, RowInv, Used, SameVersions
  <2>9. ContentInv'
    BY <1>3, <1>7, <1>8, <2>1, UnsentLeavesContent DEF ContentInv, SameVersions
  <2> QED BY <2>2, <2>6, <2>8, <2>9 DEF OneRowInv
<1> QED BY <1>9, <1>10, <1>11, <1>12 DEF MirrorInv

(* The feedback changes (transition).                                      *)
LEMMA TransitionKeeps ==
    ASSUME MirrorInv, Transition
    PROVE  MirrorInv'
<1>1. PICK s \in Transitions(status) :
         status' = s /\ sync' = [sync EXCEPT !.desired = @ + 1]
  BY DEF Transition
<1>2. UNCHANGED <<att, remote, wk, late, counters>>
  BY DEF Transition
<1>3. /\ status \in Statuses /\ s \in Statuses /\ RankOf(s) \in 0..2
      /\ RankOf(s) >= RankOf(status) + 1 /\ RankOf(status) \in 0..2
  BY <1>1, ChangesGoForward DEF MirrorInv, TypeOK
<1>4. /\ sync.desired \in 1..MaxVersion /\ sync.last \in 0..MaxVersion
      /\ supersedes \in 0..MaxSupersedes /\ MaxSupersedes \in Nat
      /\ sync.desired <= 1 + supersedes + RankOf(status)
  BY BoundsAssumption DEF MirrorInv, TypeOK, CountInv, Syncs
<1>5. sync.desired + 1 \in 1..MaxVersion /\ MaxVersion \in Nat
  BY <1>3, <1>4 DEF MaxVersion
<1>6. /\ sync' \in Syncs /\ sync'.desired = sync.desired + 1
      /\ sync'.last = sync.last /\ sync'.rid = sync.rid /\ sync'.st = sync.st
      /\ sync'.owner = sync.owner /\ sync'.count = sync.count
  BY <1>1, <1>5 DEF MirrorInv, TypeOK, Syncs
<1>7. TypeOK'
  BY <1>1, <1>2, <1>3, <1>6 DEF MirrorInv, TypeOK, counters
<1>8. CountInv'
  <2>1. sync'.desired <= 1 + supersedes' + RankOf(status')
    BY <1>1, <1>2, <1>3, <1>4, <1>6 DEF counters
  <2> QED BY <1>6, <2>1 DEF MirrorInv, CountInv
<1>9. ClaimInv'
  BY <1>2, <1>6 DEF MirrorInv, ClaimInv
<1>10. ASSUME Unaided' PROVE OneRowInv'
  <2>1. OneRowInv
    BY <1>2, <1>10 DEF MirrorInv, Unaided, counters
  <2>2. att.ver \in 0..MaxVersion /\ \A v \in Workers : wk[v].ver \in 0..MaxVersion
    BY DEF MirrorInv, TypeOK, Attempts, Works
  <2>3. OwnerInv'
    <3> SUFFICES ASSUME sync.st = "in_flight"
                 PROVE  OwnerInv'
      BY <1>6 DEF OwnerInv
    <3>1. sync.owner \in Workers
      BY DEF MirrorInv, ClaimInv
    <3>2. wk[sync.owner].ver <= sync.desired => wk[sync.owner].ver <= sync.desired + 1
      BY <1>4, <1>5, <2>2, <3>1
    <3> QED BY <1>2, <1>6, <2>1, <3>2 DEF OneRowInv, OwnerInv, Request, Used
  <2>8. sync'.last <= sync'.desired /\ sync'.last # sync'.desired
    <3>1. sync.last <= sync.desired
      BY <2>1 DEF OneRowInv, VersionInv
    <3> QED BY <1>4, <1>6, <3>1
  <2>4. VersionInv'
    <3> SUFFICES ASSUME att.state \in {"prepared", "dispatch_marked", "rpc_succeeded"}
                 PROVE  VersionInv'
      BY <1>2, <2>8 DEF VersionInv
    <3>1. att.ver <= sync.desired /\ att.ver < sync.desired + 1
      BY <1>4, <2>1, <2>2 DEF OneRowInv, VersionInv
    <3>2. att.ver # sync.desired + 1 /\ att.ver <= sync.desired + 1
      BY <1>4, <2>2, <3>1
    <3>3. s \in Transitions(att.says)
      <4>1. status = att.says \/ status \in Transitions(att.says)
        BY <2>1 DEF OneRowInv, VersionInv
      <4>2. att.says \in Statuses
        BY DEF MirrorInv, TypeOK, Attempts
      <4> QED BY <1>1, <4>1, <4>2, ChangesGoForward
    <3> QED BY <1>1, <1>2, <1>6, <2>1, <2>8, <3>2, <3>3 DEF OneRowInv, VersionInv
  <2>5. RowInv'
    BY <1>2, <1>6, <2>1 DEF OneRowInv, RowInv, Used
  <2>6. RequestInv'
    BY <1>2, <1>6, <2>1 DEF OneRowInv, RequestInv, Request, Sending, Asked, Used, Owns
  <2>7. ContentInv'
    <3> SUFFICES ASSUME sync.rid # None, remote[sync.rid] # "deleted"
                 PROVE  ContentInv'
      BY <1>2, <1>6 DEF ContentInv
    <3>1. Used = {sync.rid}
      BY <2>1 DEF OneRowInv, RowInv
    <3>2. remote[sync.rid] \in Statuses
      BY <3>1 DEF Used, MirrorInv, TypeOK
    <3>3. att.state \in {"none", "prepared", "definitive_failed"} =>
             s \in Transitions(remote[sync.rid])
      <4>1. att.state \in {"none", "prepared", "definitive_failed"} =>
               \/ status = remote[sync.rid]
               \/ status \in Transitions(remote[sync.rid])
        BY <2>1 DEF OneRowInv, ContentInv
      <4> QED BY <1>1, <3>2, <4>1, ChangesGoForward
    <3> QED BY <1>1, <1>2, <1>6, <2>1, <2>8, <3>3 DEF OneRowInv, ContentInv
  <2> QED BY <2>3, <2>4, <2>5, <2>6, <2>7 DEF OneRowInv
<1> QED BY <1>7, <1>8, <1>9, <1>10 DEF MirrorInv

(* A worker takes the row, and goes on where the attempt stands (claim_due,*)
(* load_active_attempt).                                                   *)
LEMMA ClaimKeeps ==
    ASSUME MirrorInv, NEW w \in Workers, ClaimDue(w)
    PROVE  MirrorInv'
<1> DEFINE x == [Idle EXCEPT !.pc = Entry, !.ver = sync.desired, !.rid = att.rid]
<1>1. /\ wk[w].pc = "idle" /\ sync.st = "idle" /\ sync.last < sync.desired
      /\ sync' = [sync EXCEPT !.st = "in_flight", !.owner = w]
      /\ wk' = [wk EXCEPT ![w] = x]
      /\ UNCHANGED <<status, att, remote, late, counters>>
  BY DEF ClaimDue
<1>2. att.state \in {"none", "prepared", "rpc_succeeded"}
  BY <1>1 DEF MirrorInv, ClaimInv
<1>3. \/ att.state = "none" /\ Entry = "read"
      \/ att.state = "prepared" /\ Entry = "gate"
      \/ att.state = "rpc_succeeded" /\ Entry = "verify"
  BY <1>2 DEF Entry
<1>4. x \in Works /\ x.pc = Entry /\ x.ver = sync.desired /\ x.rid = att.rid
  <2>1. sync.desired \in 0..MaxVersion /\ att.rid \in Ids \cup {None}
    BY BoundsAssumption DEF MirrorInv, TypeOK, Syncs, Attempts, MaxVersion
  <2>2. Entry \in {"read", "gate", "verify"}
    BY <1>3
  <2>3. PICK e \in {"read", "gate", "verify"}, v \in 0..MaxVersion, r \in Ids \cup {None} :
           e = Entry /\ v = sync.desired /\ r = att.rid
    BY <2>1, <2>2
  <2>4. x = [Idle EXCEPT !.pc = e, !.ver = v, !.rid = r]
    BY <2>3
  <2> HIDE DEF x
  <2>5. x \in Works /\ x.pc = e /\ x.ver = v /\ x.rid = r
    BY <2>4, NothingIsTyped DEF Works
  <2> QED BY <2>3, <2>5
<1> HIDE DEF x
<1>5. /\ wk' \in [Workers -> Works] /\ wk'[w] = x
      /\ \A v \in Workers : v # w => wk'[v] = wk[v]
  BY <1>1, <1>4, OneWorks DEF MirrorInv, TypeOK
<1>6. /\ sync' \in Syncs /\ SameVersions /\ sync'.st = "in_flight"
      /\ sync'.owner = w /\ sync'.count = sync.count
  BY <1>1 DEF MirrorInv, TypeOK, Syncs, SameVersions
<1>7. TypeOK'
  BY <1>1, <1>5, <1>6 DEF MirrorInv, TypeOK, counters
<1>8. CountInv'
  BY <1>1, <1>6 DEF MirrorInv, CountInv, counters, SameVersions
<1>9. ClaimInv'
  BY <1>1, <1>3, <1>4, <1>5, <1>6 DEF MirrorInv, ClaimInv, AttemptAt
<1>10. ASSUME Unaided' PROVE OneRowInv'
  <2>1. OneRowInv
    BY <1>1, <1>10 DEF MirrorInv, Unaided, counters
  <2>2. sync.desired \in Nat
    BY BoundsAssumption DEF MirrorInv, TypeOK, Syncs, MaxVersion
  <2>3. OwnerInv'
    BY <1>1, <1>3, <1>4, <1>5, <1>6, <2>2 DEF OwnerInv, SameVersions
  <2>4. VersionInv'
    BY <1>1, <1>6, <2>1 DEF OneRowInv, VersionInv, SameVersions
  <2>5. RowInv'
    BY <1>1, <1>6, <2>1 DEF OneRowInv, RowInv, Used, SameVersions
  <2>6. Sending' \subseteq Sending /\ \A v \in Sending' : wk'[v] = wk[v]
    BY <1>3, <1>4, <1>5 DEF Sending
  <2>7. \A v \in Sending' : att.state = "ambiguous"
    BY <1>2, <2>1, <2>6 DEF OneRowInv, RequestInv
  <2>8. RequestInv'
    BY <1>1, <2>1, <2>6, <2>7 DEF OneRowInv, RequestInv, Request, Asked, Used
  <2>9. ContentInv'
    BY <1>1, <1>6, <2>1 DEF OneRowInv, ContentInv, SameVersions
  <2> QED BY <2>3, <2>4, <2>5, <2>8, <2>9 DEF OneRowInv
<1> QED BY <1>7, <1>8, <1>9, <1>10 DEF MirrorInv

(* What is about to be sent is saved (prepare_attempt).                    *)
LEMMA PrepareKeeps ==
    ASSUME MirrorInv, Counted, NEW w \in Workers, Owns(w), wk[w].pc = "read",
           sync.desired = wk[w].ver, sync.rid # None => Found = {sync.rid},
           SavesAttempt(w)
    PROVE  MirrorInv'
<1> DEFINE k == IF Found = {} THEN "create" ELSE "update"
           r == IF Found = {} THEN None ELSE CHOOSE i \in Found : TRUE
           x == [wk[w] EXCEPT !.pc = "gate"]
<1>1. /\ att' = [state |-> "prepared", ver |-> wk[w].ver, kind |-> k,
                 rid |-> r, says |-> status]
      /\ wk' = [wk EXCEPT ![w] = x]
      /\ UNCHANGED <<status, sync, remote, late>>
  BY DEF SavesAttempt, Goes, MirrorInv, TypeOK
<1>2. r \in Ids \cup {None} /\ k \in {"create", "update"}
  BY DEF Found
<1>3. Found # {} => r \in Found
  OBVIOUS
<1>4. k = "create" <=> Found = {}
  OBVIOUS
<1> HIDE DEF k, r
<1>5. x \in Works /\ x.pc = "gate" /\ wk[w].ver \in 0..MaxVersion
  BY DEF MirrorInv, TypeOK, Works
<1> HIDE DEF x
<1>6. /\ wk' \in [Workers -> Works] /\ wk'[w] = x
      /\ \A v \in Workers : v # w => wk'[v] = wk[v]
  BY <1>1, <1>5, OneWorks DEF MirrorInv, TypeOK
<1>7. att' \in Attempts
  BY <1>1, <1>2, <1>5 DEF MirrorInv, TypeOK, Attempts
<1>8. TypeOK'
  BY <1>1, <1>6, <1>7 DEF MirrorInv, TypeOK, Counted
<1>9. CountInv'
  BY <1>1 DEF MirrorInv, CountInv, Counted
<1>10. sync.st = "in_flight" /\ sync.owner = w
  BY DEF Owns
<1>11. ClaimInv'
  BY <1>1, <1>5, <1>6, <1>10 DEF ClaimInv, AttemptAt
<1>12. ASSUME Unaided' PROVE OneRowInv'
  <2>1. OneRowInv
    BY <1>12 DEF MirrorInv, Unaided, Counted
  <2>2. att.state = "none"
    BY <1>10 DEF MirrorInv, ClaimInv, AttemptAt
  <2>3. OwnerInv'
    BY <1>1, <1>5, <1>6, <1>10 DEF OwnerInv
  <2>4. sync.last < wk[w].ver /\ wk[w].ver <= sync.desired
    BY <1>10, <2>1 DEF OneRowInv, OwnerInv
  <2>13. sync.last # sync.desired
    BY <2>4, BoundsAssumption DEF MirrorInv, TypeOK, Syncs, MaxVersion
  <2>5. VersionInv'
    BY <1>1, <1>2, <2>1, <2>4, <2>13 DEF OneRowInv, VersionInv
  <2>6. sync.rid = None => Used = {} /\ Found = {}
    <3>1. sync.rid = None => Used = {}
      BY <2>1, <2>2 DEF OneRowInv, RowInv
    <3>2. Found \subseteq Used
      BY ChangesGoForward DEF Found, Used
    <3> QED BY <3>1, <3>2
  <2>7. k = "update" => r = sync.rid /\ sync.rid # None
    BY <1>2, <1>3, <1>4, <2>6
  <2>8. k = "create" => sync.rid = None
    BY <1>4
  <2>9. RowInv'
    BY <1>1, <1>2, <2>1, <2>2, <2>7, <2>8 DEF OneRowInv, RowInv, Used
  <2>10. late = {} /\ Sending = {}
    BY <2>1, <2>2 DEF OneRowInv, RequestInv
  <2>11. RequestInv'
    BY <1>1, <1>5, <1>6, <2>10 DEF RequestInv, Sending
  <2>12. ContentInv'
    BY <1>1, <2>1, <2>2, <2>13 DEF OneRowInv, ContentInv
  <2> QED BY <2>3, <2>5, <2>9, <2>11, <2>12 DEF OneRowInv
<1> QED BY <1>8, <1>9, <1>11, <1>12 DEF MirrorInv

(* The dispatch is marked, and the request leaves (mark_dispatch).         *)
LEMMA MarksKeeps ==
    ASSUME MirrorInv, Counted, NEW w \in Workers, Owns(w), wk[w].pc = "gate",
           Found = IF att.kind = "create" THEN {} ELSE {att.rid}, Marks(w)
    PROVE  MirrorInv'
<1> DEFINE x == [wk[w] EXCEPT !.pc = "send", !.sent = att]
<1>1. /\ att' = [att EXCEPT !.state = "dispatch_marked"]
      /\ wk' = [wk EXCEPT ![w] = x]
      /\ UNCHANGED <<status, sync, remote, late>>
  BY DEF Marks, MirrorInv, TypeOK
<1>2. att.state = "prepared" /\ sync.st = "in_flight" /\ sync.owner = w
  BY DEF Owns, MirrorInv, ClaimInv, AttemptAt
<1>3. /\ att' \in Attempts /\ att'.state = "dispatch_marked"
      /\ att'.ver = att.ver /\ att'.kind = att.kind /\ att'.rid = att.rid
      /\ att'.says = att.says
  BY <1>1 DEF MirrorInv, TypeOK, Attempts
<1>4. Request' = att
  BY <1>1, <1>2 DEF Request, MirrorInv, TypeOK, Attempts
<1>5. x \in Works /\ x.pc = "send" /\ x.sent = att
  BY DEF MirrorInv, TypeOK, Works
<1> HIDE DEF x
<1>6. /\ wk' \in [Workers -> Works] /\ wk'[w] = x
      /\ \A v \in Workers : v # w => wk'[v] = wk[v]
  BY <1>1, <1>5, OneWorks DEF MirrorInv, TypeOK
<1>7. TypeOK'
  BY <1>1, <1>3, <1>6 DEF MirrorInv, TypeOK, Counted
<1>8. CountInv'
  BY <1>1 DEF MirrorInv, CountInv, Counted
<1>9. ClaimInv'
  BY <1>1, <1>2, <1>3, <1>5, <1>6 DEF ClaimInv, AttemptAt
<1>10. ASSUME Unaided' PROVE OneRowInv'
  <2>1. OneRowInv
    BY <1>10 DEF MirrorInv, Unaided, Counted
  <2>2. OwnerInv'
    BY <1>1, <1>2, <1>4, <1>5, <1>6 DEF OwnerInv
  <2>3. VersionInv'
    BY <1>1, <1>2, <1>3, <2>1 DEF OneRowInv, VersionInv
  <2>4. sync.rid = None => Used = {}
    BY <1>2, <2>1 DEF OneRowInv, RowInv
  <2>5. RowInv'
    BY <1>1, <1>2, <1>3, <2>1, <2>4 DEF OneRowInv, RowInv, Used
  <2>6. late = {} /\ Sending = {}
    BY <1>2, <2>1 DEF OneRowInv, RequestInv
  <2>7. Sending' = {w}
    BY <1>5, <1>6, <2>6 DEF Sending
  <2>8. Asked'
    <3>1. CASE att.kind = "create"
      <4>1. Used = {}
        BY <1>2, <2>1, <2>4, <3>1 DEF OneRowInv, RowInv
      <4> QED BY <1>1, <1>3, <3>1, <4>1 DEF Asked, Used
    <3>2. CASE att.kind # "create"
      <4>1. att.kind = "update" /\ att.rid = sync.rid /\ sync.rid # None
        BY <1>2, <2>1, <3>2 DEF OneRowInv, VersionInv, RowInv
      <4>2. remote[sync.rid] = "deleted" \/ att.says \in Transitions(remote[sync.rid])
        BY <1>2, <2>1, <4>1 DEF OneRowInv, ContentInv
      <4> QED BY <1>1, <1>3, <3>2, <4>1, <4>2 DEF Asked
    <3> QED BY <3>1, <3>2
  <2>9. RequestInv'
    BY <1>1, <1>2, <1>3, <1>4, <1>5, <1>6, <2>6, <2>7, <2>8 DEF RequestInv, Owns
  <2>10. ContentInv'
    BY <1>3 DEF ContentInv
  <2> QED BY <2>2, <2>3, <2>5, <2>9, <2>10 DEF OneRowInv
<1> QED BY <1>7, <1>8, <1>9, <1>10 DEF MirrorInv

(* A claim that ran out is taken back; a marked dispatch is held           *)
(* (recover_expired_claims).                                               *)
LEMMA RecoverKeeps ==
    ASSUME MirrorInv, Counted, sync.st = "in_flight", RecoverExpired,
           UNCHANGED <<status, remote, wk, late>>
    PROVE  MirrorInv'
<1>1. /\ sync.owner \in Workers
      /\ att.state \in {"none", "prepared", "dispatch_marked", "rpc_succeeded"}
  BY DEF MirrorInv, ClaimInv, AttemptAt
<1>2. CASE att.state = "dispatch_marked"
  <2>1. /\ sync' = [sync EXCEPT !.st = "quarantined", !.owner = Nobody,
                                !.reason = "stale_dispatch"]
        /\ att' = [att EXCEPT !.state = "ambiguous"]
    BY <1>2 DEF RecoverExpired, Held
  <2>2. sync' \in Syncs /\ SameVersions /\ sync'.st = "quarantined"
    BY <2>1 DEF MirrorInv, TypeOK, Syncs, SameVersions
  <2>3. /\ att' \in Attempts /\ att'.state = "ambiguous"
        /\ att'.kind = att.kind /\ att'.rid = att.rid /\ att'.says = att.says
    BY <2>1 DEF MirrorInv, TypeOK, Attempts
  <2>4. Request' = Request
    BY <2>1 DEF Request, MirrorInv, TypeOK, Attempts
  <2>5. TypeOK'
    BY <2>2, <2>3 DEF MirrorInv, TypeOK, Counted
  <2>6. CountInv' /\ ClaimInv'
    BY <2>2, <2>3 DEF MirrorInv, CountInv, ClaimInv, Counted, SameVersions
  <2>7. ASSUME Unaided' PROVE OneRowInv'
    <3>1. OneRowInv
      BY <2>7 DEF MirrorInv, Unaided, Counted
    <3>2. OwnerInv' /\ ContentInv'
      BY <2>2, <2>3 DEF OwnerInv, ContentInv
    <3>6. VersionInv'
      BY <1>2, <2>2, <2>3, <3>1, NotSettledYet DEF OneRowInv, VersionInv, SameVersions
    <3>3. RowInv'
      BY <1>2, <2>2, <2>3, <3>1 DEF OneRowInv, RowInv, VersionInv, Used, SameVersions
    <3>4. Asked => Asked'
      BY <2>3 DEF Asked, Used
    <3>5. RequestInv'
      BY <2>3, <2>4, <3>1, <3>4 DEF OneRowInv, RequestInv, Sending
    <3> QED BY <3>2, <3>3, <3>5, <3>6 DEF OneRowInv
  <2> QED BY <2>5, <2>6, <2>7 DEF MirrorInv
<1>3. CASE att.state # "dispatch_marked"
  <2>1. sync' = [sync EXCEPT !.st = "idle", !.owner = Nobody] /\ att' = att
    BY <1>3 DEF RecoverExpired, Released
  <2>2. sync' \in Syncs /\ SameVersions /\ sync'.st = "idle" /\ sync'.count = sync.count
    BY <2>1 DEF MirrorInv, TypeOK, Syncs, SameVersions
  <2>3. TypeOK'
    BY <2>1, <2>2 DEF MirrorInv, TypeOK, Counted
  <2>4. CountInv' /\ ClaimInv'
    BY <1>1, <1>3, <2>1, <2>2 DEF MirrorInv, CountInv, ClaimInv, Counted, SameVersions
  <2>5. ASSUME Unaided' PROVE OneRowInv'
    <3>1. OneRowInv
      BY <2>5 DEF MirrorInv, Unaided, Counted
    <3>2. OwnerInv' /\ VersionInv'
      BY <2>1, <2>2, <3>1 DEF OneRowInv, OwnerInv, VersionInv, SameVersions
    <3>3. RowInv' /\ ContentInv'
      BY <2>1, <2>2, <3>1 DEF OneRowInv, RowInv, ContentInv, Used, SameVersions
    <3>4. \A v \in Sending : att.state = "ambiguous"
      BY <1>3, <3>1 DEF OneRowInv, RequestInv
    <3>5. RequestInv'
      BY <2>1, <3>1, <3>4 DEF OneRowInv, RequestInv, Sending, Request, Asked, Used
    <3> QED BY <3>2, <3>3, <3>5 DEF OneRowInv
  <2> QED BY <2>3, <2>4, <2>5 DEF MirrorInv
<1> QED BY <1>2, <1>3

(* Somebody deletes the row in Odoo.                                       *)
LEMMA DeletedKeeps ==
    ASSUME MirrorInv, Deleted
    PROVE  MirrorInv'
<1>1. PICK i \in Found : remote' = [remote EXCEPT ![i] = "deleted"]
  BY DEF Deleted
<1>2. UNCHANGED <<status, sync, att, wk, late, faults, releases, supersedes, resends>>
  BY DEF Deleted
<1>3. outside' \in 0..MaxOutside
  BY BoundsAssumption DEF Deleted, MirrorInv, TypeOK
<1>4. i \in Ids /\ remote[i] \in Statuses /\ remote[i] # "unused"
  BY <1>1, ChangesGoForward DEF Found
<1>5. /\ remote' \in [Ids -> Statuses \cup {"unused", "deleted"}]
      /\ remote'[i] = "deleted"
      /\ \A j \in Ids : j # i => remote'[j] = remote[j]
  BY <1>1, <1>4 DEF MirrorInv, TypeOK
<1>6. Used' = Used
  BY <1>4, <1>5 DEF Used
<1>7. TypeOK'
  BY <1>2, <1>3, <1>5 DEF MirrorInv, TypeOK
<1>8. CountInv' /\ ClaimInv'
  BY <1>2 DEF MirrorInv, CountInv, ClaimInv
<1>9. ASSUME Unaided' PROVE OneRowInv'
  <2>1. OneRowInv
    BY <1>2, <1>9 DEF MirrorInv, Unaided
  <2>2. OwnerInv' /\ VersionInv' /\ RowInv'
    BY <1>2, <1>6, <2>1 DEF OneRowInv, OwnerInv, VersionInv, RowInv, Request
  <2>3. Sending # {} \/ late # {} => (Asked => Asked')
    <3>1. CASE att.kind = "create"
      BY <1>2, <1>6, <3>1 DEF Asked
    <3>2. CASE att.kind # "create" /\ att.rid \in Ids
      BY <1>2, <1>5, <3>2 DEF Asked
    <3>3. CASE att.kind # "create" /\ att.rid \notin Ids
      <4>1. att.rid = None /\ att.rid \notin Ids
        BY <3>3 DEF MirrorInv, TypeOK, Attempts
      <4>2. Sending # {} \/ late # {} =>
               att.state \in {"dispatch_marked", "rpc_succeeded", "ambiguous"}
        BY <2>1 DEF OneRowInv, RequestInv
      <4>3. remote'[att.rid] = remote[att.rid]
        BY <1>1, <1>4, <4>1 DEF MirrorInv, TypeOK
      <4> QED BY <1>2, <3>3, <4>3 DEF Asked
    <3> QED BY <3>1, <3>2, <3>3
  <2>4. RequestInv'
    BY <1>2, <2>1, <2>3 DEF OneRowInv, RequestInv, Sending, Request, Owns
  <2>5. ContentInv'
    <3> SUFFICES ASSUME sync.rid # None, remote'[sync.rid] # "deleted"
                 PROVE  ContentInv'
      BY <1>2 DEF ContentInv
    <3>1. sync.rid \in Ids /\ sync.rid # i
      BY <1>5 DEF MirrorInv, TypeOK, Syncs
    <3>2. remote'[sync.rid] = remote[sync.rid]
      BY <1>5, <3>1
    <3> QED BY <1>2, <2>1, <3>2 DEF OneRowInv, ContentInv
  <2> QED BY <2>2, <2>4, <2>5 DEF OneRowInv
<1> QED BY <1>7, <1>8, <1>9 DEF MirrorInv

(***************************************************************************)
(* Odoo                                                                    *)
(***************************************************************************)
(* What Odoo does with a create and with a write.                          *)
LEMMA EffectsAre ==
    ASSUME TypeOK, NEW m \in Attempts, NEW e \in Effects(m)
    PROVE  /\ e.rows \in [Ids -> Statuses \cup {"unused", "deleted"}]
           /\ e.id \in Ids \cup {None}
           /\ m.kind = "create" =>
                /\ e.id \in Ids /\ remote[e.id] = "unused"
                /\ e.rows = [remote EXCEPT ![e.id] = m.says]
           /\ m.kind # "create" =>
                /\ e.id = m.rid
                /\ e.rows = IF m.rid \in Found THEN [remote EXCEPT ![m.rid] = m.says]
                            ELSE remote
<1>1. /\ remote \in [Ids -> Statuses \cup {"unused", "deleted"}]
      /\ m.says \in Statuses /\ m.rid \in Ids \cup {None}
  BY DEF TypeOK, Attempts
<1>2. CASE m.kind = "create"
  <2>1. PICK i \in {j \in Ids : /\ remote[j] = "unused"
                                /\ \A k \in 1..(j - 1) : remote[k] # "unused"} :
           e = [rows |-> [remote EXCEPT ![i] = m.says], id |-> i]
    BY <1>2 DEF Effects
  <2>2. i \in Ids /\ remote[i] = "unused" /\ e.id = i /\ e.rows = [remote EXCEPT ![i] = m.says]
    BY <2>1
  <2> QED BY <1>1, <1>2, <2>2
<1>3. CASE m.kind # "create"
  <2>1. /\ e.id = m.rid
        /\ e.rows = IF m.rid \in Found THEN [remote EXCEPT ![m.rid] = m.says]
                    ELSE remote
    BY <1>3 DEF Effects
  <2> QED BY <1>1, <1>3, <2>1 DEF Found
<1> QED BY <1>2, <1>3

(* A request that nothing else competes with makes the one row or writes   *)
(* it (_dispatch_prepared_once).                                           *)
LEMMA RequestRuns ==
    ASSUME TypeOK, OneRowInv, Asked, NEW e \in Effects(Request),
           att.state \in {"dispatch_marked", "rpc_succeeded", "ambiguous"},
           remote' = e.rows, UNCHANGED <<status, sync, att>>
    PROVE  /\ VersionInv' /\ RowInv' /\ ContentInv'
           /\ att.kind = "create" => Used' = {e.id} /\ Used = {}
           /\ att.kind # "create" => Used' = Used /\ e.id = att.rid /\ Used = {att.rid}
<1>1. /\ Request \in Attempts /\ Request.kind = att.kind
      /\ Request.rid = att.rid /\ Request.says = att.says /\ att.says \in Statuses
  BY DEF TypeOK, Attempts, Request
<1>2. VersionInv' /\ ContentInv'
  BY DEF OneRowInv, VersionInv, ContentInv
<1>5. PICK m \in Attempts : m = Request
  BY <1>1
<1>6. e \in Effects(m) /\ m.kind = att.kind /\ m.rid = att.rid /\ m.says = att.says
  BY <1>1, <1>5
<1>7. /\ att.kind = "create" =>
           /\ e.id \in Ids /\ remote[e.id] = "unused"
           /\ e.rows = [remote EXCEPT ![e.id] = att.says]
      /\ att.kind # "create" =>
           /\ e.id = att.rid
           /\ e.rows = IF att.rid \in Found THEN [remote EXCEPT ![att.rid] = att.says]
                       ELSE remote
  <2>1. /\ m.kind = "create" =>
             /\ e.id \in Ids /\ remote[e.id] = "unused"
             /\ e.rows = [remote EXCEPT ![e.id] = m.says]
        /\ m.kind # "create" =>
             /\ e.id = m.rid
             /\ e.rows = IF m.rid \in Found THEN [remote EXCEPT ![m.rid] = m.says]
                         ELSE remote
    BY <1>6, EffectsAre
  <2> QED BY <1>6, <2>1
<1>3. CASE att.kind = "create"
  <2>1. /\ e.id \in Ids /\ remote[e.id] = "unused"
        /\ remote' = [remote EXCEPT ![e.id] = att.says]
    BY <1>3, <1>7
  <2>2. Used = {} /\ att.state # "rpc_succeeded"
    BY <1>3 DEF Asked
  <2>3. att.says # "unused"
    BY <1>1, ChangesGoForward
  <2>4. Used' = {e.id}
    BY <2>1, <2>2, <2>3 DEF Used, TypeOK
  <2>5. sync.rid = None
    BY <2>2 DEF OneRowInv, RowInv
  <2>6. RowInv'
    BY <1>3, <2>2, <2>4, <2>5 DEF OneRowInv, RowInv
  <2> QED BY <1>2, <1>3, <2>2, <2>4, <2>6
<1>4. CASE att.kind # "create"
  <2>1. /\ e.id = att.rid
        /\ remote' = IF att.rid \in Found THEN [remote EXCEPT ![att.rid] = att.says]
                     ELSE remote
    BY <1>4, <1>7
  <2>2. att.rid = sync.rid /\ sync.rid # None
    BY <1>4 DEF OneRowInv, RowInv, VersionInv
  <2>3. Used = {att.rid}
    BY <2>2 DEF OneRowInv, RowInv
  <2>4. att.says # "unused"
    BY <1>1, ChangesGoForward
  <2>5. Used' = Used
    BY <2>1, <2>3, <2>4 DEF Used, TypeOK
  <2>6. RowInv'
    BY <2>5 DEF OneRowInv, RowInv
  <2> QED BY <1>2, <1>4, <2>1, <2>3, <2>5, <2>6
<1> QED BY <1>3, <1>4

(* The request of a worker: who sends is the owner, or the attempt is held.*)
LEMMA SenderIsAlone ==
    ASSUME MirrorInv, OneRowInv, NEW w \in Workers, wk[w].pc = "send"
    PROVE  /\ Sending = {w} /\ late = {} /\ wk[w].sent = Request /\ Asked
           /\ att.state \in {"dispatch_marked", "ambiguous"}
           /\ sync.st = "in_flight" => sync.owner = w
<1>1. w \in Sending
  BY DEF Sending
<1>2. /\ Sending = {w} /\ late = {} /\ wk[w].sent = Request /\ Asked
      /\ att.state = "ambiguous" \/ (att.state = "dispatch_marked" /\ Owns(w))
  BY <1>1 DEF OneRowInv, RequestInv
<1>3. sync.st = "in_flight" => att.state # "ambiguous"
  BY DEF MirrorInv, ClaimInv, AttemptAt
<1> QED BY <1>2, <1>3 DEF Owns

(* Odoo answers.                                                           *)
LEMMA LandKeeps ==
    ASSUME MirrorInv, NEW w \in Workers, Land(w)
    PROVE  MirrorInv'
<1>1. PICK e \in Effects(wk[w].sent) :
         remote' = e.rows /\ wk' = [wk EXCEPT ![w].pc = "ack", ![w].rid = e.id]
  BY DEF Land
<1>2. wk[w].pc = "send" /\ UNCHANGED <<status, sync, att, late, counters>>
  BY DEF Land
<1>3. wk[w] \in Works /\ wk[w].sent \in Attempts
  BY DEF MirrorInv, TypeOK, Works
<1>4. /\ e.rows \in [Ids -> Statuses \cup {"unused", "deleted"}]
      /\ e.id \in Ids \cup {None}
  BY <1>3, EffectsAre DEF MirrorInv
<1> DEFINE x == [wk[w] EXCEPT !.pc = "ack", !.rid = e.id]
<1>5. wk' = [wk EXCEPT ![w] = x]
  BY <1>1 DEF MirrorInv, TypeOK
<1>6. x \in Works /\ x.pc = "ack" /\ x.rid = e.id /\ x.sent = wk[w].sent
  BY <1>3, <1>4 DEF Works
<1> HIDE DEF x
<1>7. /\ wk' \in [Workers -> Works] /\ wk'[w] = x
      /\ \A v \in Workers : v # w => wk'[v] = wk[v]
  BY <1>5, <1>6, OneWorks DEF MirrorInv, TypeOK
<1>8. TypeOK'
  BY <1>1, <1>2, <1>4, <1>7 DEF MirrorInv, TypeOK, counters
<1>9. CountInv'
  BY <1>2 DEF MirrorInv, CountInv, counters
<1>10. ClaimInv'
  BY <1>2, <1>6, <1>7 DEF MirrorInv, ClaimInv, AttemptAt
<1>11. ASSUME Unaided' PROVE OneRowInv'
  <2>1. OneRowInv
    BY <1>2, <1>11 DEF MirrorInv, Unaided, counters
  <2>2. /\ Sending = {w} /\ late = {} /\ wk[w].sent = Request /\ Asked
        /\ att.state \in {"dispatch_marked", "ambiguous"}
        /\ sync.st = "in_flight" => sync.owner = w
    BY <1>2, <2>1, SenderIsAlone
  <2>3. /\ VersionInv' /\ RowInv' /\ ContentInv' /\ Used' = {e.id}
    BY <1>1, <1>2, <2>1, <2>2, RequestRuns DEF MirrorInv
  <2>4. Sending' = {}
    BY <1>6, <1>7, <2>2 DEF Sending
  <2>5. RequestInv'
    BY <1>2, <2>2, <2>4 DEF RequestInv
  <2>6. OwnerInv'
    BY <1>2, <1>6, <1>7, <2>2, <2>3 DEF OwnerInv, Request
  <2> QED BY <2>3, <2>5, <2>6 DEF OneRowInv
<1> QED BY <1>8, <1>9, <1>10, <1>11 DEF MirrorInv

(* What a request that is sent, or sent again, leaves in Odoo is typed.    *)
LEMMA SendingIsTyped ==
    ASSUME TypeOK, NEW w \in Workers,
           \/ (\E e \in Effects(wk[w].sent) : remote' = e.rows) /\ UNCHANGED late
           \/ late' = late \cup {wk[w].sent} /\ UNCHANGED remote
           \/ UNCHANGED <<remote, late>>
    PROVE  /\ remote' \in [Ids -> Statuses \cup {"unused", "deleted"}]
           /\ late' \subseteq Attempts
<1>1. wk[w].sent \in Attempts
  BY DEF TypeOK, Works
<1>2. CASE (\E e \in Effects(wk[w].sent) : remote' = e.rows) /\ UNCHANGED late
  <2>1. PICK e \in Effects(wk[w].sent) : remote' = e.rows
    BY <1>2
  <2>2. remote' \in [Ids -> Statuses \cup {"unused", "deleted"}]
    BY <1>1, <2>1, EffectsAre
  <2> QED BY <1>2, <2>2 DEF TypeOK
<1>3. CASE UNCHANGED remote /\ (late' = late \cup {wk[w].sent} \/ UNCHANGED late)
  BY <1>1, <1>3 DEF TypeOK
<1> QED BY <1>2, <1>3

(* No answer comes.                                                        *)
LEMMA AnswerLostKeeps ==
    ASSUME MirrorInv, NEW w \in Workers, AnswerLost(w)
    PROVE  MirrorInv'
<1>1. /\ wk[w].pc = "send" /\ wk' = [wk EXCEPT ![w].pc = "ambiguous"]
      /\ UNCHANGED <<status, sync, att, outside, releases, supersedes, resends>>
  BY DEF AnswerLost, Goes
<1>2. \/ /\ \E e \in Effects(wk[w].sent) : remote' = e.rows
         /\ UNCHANGED late
      \/ UNCHANGED <<remote, late>>
      \/ late' = late \cup {wk[w].sent} /\ UNCHANGED remote
  BY DEF AnswerLost
<1>3. faults' \in 0..MaxFaults
  BY BoundsAssumption DEF AnswerLost, Fault, MirrorInv, TypeOK
<1>4. wk[w] \in Works /\ wk[w].sent \in Attempts
  BY DEF MirrorInv, TypeOK, Works
<1> DEFINE x == [wk[w] EXCEPT !.pc = "ambiguous"]
<1>5. wk' = [wk EXCEPT ![w] = x]
  BY <1>1 DEF MirrorInv, TypeOK
<1>6. x \in Works /\ x.pc = "ambiguous" /\ x.sent = wk[w].sent
  BY <1>4 DEF Works
<1> HIDE DEF x
<1>7. /\ wk' \in [Workers -> Works] /\ wk'[w] = x
      /\ \A v \in Workers : v # w => wk'[v] = wk[v]
  BY <1>5, <1>6, OneWorks DEF MirrorInv, TypeOK
<1>8. /\ remote' \in [Ids -> Statuses \cup {"unused", "deleted"}]
      /\ late' \subseteq Attempts
  BY <1>2, SendingIsTyped DEF MirrorInv
<1>9. TypeOK'
  BY <1>1, <1>3, <1>7, <1>8 DEF MirrorInv, TypeOK
<1>10. CountInv'
  BY <1>1 DEF MirrorInv, CountInv
<1>11. ClaimInv'
  BY <1>1, <1>6, <1>7 DEF MirrorInv, ClaimInv, AttemptAt
<1>12. ASSUME Unaided' PROVE OneRowInv'
  <2>1. OneRowInv
    BY <1>1, <1>12 DEF MirrorInv, Unaided
  <2>2. /\ Sending = {w} /\ late = {} /\ wk[w].sent = Request /\ Asked
        /\ att.state \in {"dispatch_marked", "ambiguous"}
        /\ sync.st = "in_flight" => sync.owner = w
    BY <1>1, <2>1, SenderIsAlone
  <2>3. Sending' = {}
    BY <1>6, <1>7, <2>2 DEF Sending
  <2>4. OwnerInv'
    BY <1>1, <1>6, <1>7, <2>2 DEF OwnerInv, Request
  <2>5. VersionInv' /\ RowInv' /\ ContentInv'
    <3>1. CASE UNCHANGED remote
      BY <1>1, <2>1, <3>1 DEF OneRowInv, VersionInv, RowInv, ContentInv, Used
    <3>2. CASE \E e \in Effects(wk[w].sent) : remote' = e.rows
      BY <1>1, <2>1, <2>2, <3>2, RequestRuns DEF MirrorInv
    <3> QED BY <1>2, <3>1, <3>2
  <2>6. RequestInv'
    <3>1. CASE late' = late
      BY <2>2, <2>3, <3>1 DEF RequestInv
    <3>2. CASE late' = late \cup {wk[w].sent} /\ UNCHANGED remote
      <4>1. late' = {Request} /\ Request' = Request /\ Asked'
        BY <1>1, <2>2, <3>2 DEF Request, Asked, Used
      <4> QED BY <1>1, <2>2, <2>3, <4>1 DEF RequestInv
    <3> QED BY <1>2, <3>1, <3>2
  <2> QED BY <2>4, <2>5, <2>6 DEF OneRowInv
<1> QED BY <1>9, <1>10, <1>11, <1>12 DEF MirrorInv

(* The HTTP client sends the request again, after which nothing more is    *)
(* promised of what the row says.                                          *)
LEMMA ResendsKeeps ==
    ASSUME MirrorInv, NEW w \in Workers, Resends(w)
    PROVE  MirrorInv'
<1>1. /\ resends < MaxResends /\ resends' = resends + 1
      /\ UNCHANGED <<status, sync, att, wk, outside, releases, supersedes>>
  BY DEF Resends
<1>2. faults' \in 0..MaxFaults /\ resends' \in 0..MaxResends /\ resends' # 0
  BY <1>1, BoundsAssumption DEF Resends, Fault, MirrorInv, TypeOK
<1>3. /\ remote' \in [Ids -> Statuses \cup {"unused", "deleted"}]
      /\ late' \subseteq Attempts
  BY SendingIsTyped DEF Resends, MirrorInv
<1>4. TypeOK'
  BY <1>1, <1>2, <1>3 DEF MirrorInv, TypeOK
<1>5. CountInv' /\ ClaimInv'
  BY <1>1 DEF MirrorInv, CountInv, ClaimInv
<1> QED BY <1>2, <1>4, <1>5 DEF MirrorInv, Unaided

(* Odoo runs a request nobody waits for.                                   *)
LEMMA LandLateKeeps ==
    ASSUME MirrorInv, LandLate
    PROVE  MirrorInv'
<1>1. PICK m \in late : \E e \in Effects(m) :
         remote' = e.rows /\ late' = late \ {m}
  BY DEF LandLate
<1>2. UNCHANGED <<status, sync, att, wk, counters>>
  BY DEF LandLate
<1>3. PICK e \in Effects(m) : remote' = e.rows /\ late' = late \ {m}
  BY <1>1
<1>4. m \in Attempts
  BY DEF MirrorInv, TypeOK
<1>5. TypeOK'
  BY <1>2, <1>3, <1>4, EffectsAre DEF MirrorInv, TypeOK, counters
<1>6. CountInv' /\ ClaimInv'
  BY <1>2 DEF MirrorInv, CountInv, ClaimInv, counters
<1>7. ASSUME Unaided' PROVE OneRowInv'
  <2>1. OneRowInv
    BY <1>2, <1>7 DEF MirrorInv, Unaided, counters
  <2>2. /\ late = {m} /\ m = Request /\ Asked /\ Sending = {}
        /\ att.state \in {"dispatch_marked", "rpc_succeeded", "ambiguous"}
    BY <2>1 DEF OneRowInv, RequestInv
  <2>3. /\ VersionInv' /\ RowInv' /\ ContentInv'
        /\ att.kind = "create" => Used = {}
        /\ att.kind # "create" => Used' = Used
    BY <1>2, <1>3, <2>1, <2>2, RequestRuns DEF MirrorInv
  <2>4. RequestInv'
    BY <1>2, <1>3, <2>2 DEF RequestInv, Sending
  <2>5. OwnerInv'
    BY <1>2, <2>1, <2>3 DEF OneRowInv, OwnerInv, Request
  <2> QED BY <2>3, <2>4, <2>5 DEF OneRowInv
<1> QED BY <1>5, <1>6, <1>7 DEF MirrorInv

(***************************************************************************)
(* After the answer                                                        *)
(***************************************************************************)
(* The row's id is recorded (mark_rpc_succeeded).                          *)
LEMMA MarksSucceededKeeps ==
    ASSUME MirrorInv, Counted, NEW w \in Workers, Owns(w),
           wk[w].pc \in {"ack", "ambiguous"}, NEW id \in Ids \cup {None},
           MarksSucceeded(w, id),
           Unaided =>
              Used = {id} /\ id # None /\ (att.kind # "create" => id = att.rid)
    PROVE  MirrorInv'
<1> DEFINE x == [wk[w] EXCEPT !.pc = "verify", !.rid = id]
<1>1. /\ att' = [att EXCEPT !.state = "rpc_succeeded", !.rid = id]
      /\ sync' = [sync EXCEPT !.rid = id]
      /\ wk' = [wk EXCEPT ![w] = x]
      /\ UNCHANGED <<status, remote, late>>
  BY DEF MarksSucceeded, MirrorInv, TypeOK
<1>2. x \in Works /\ x.pc = "verify" /\ x.rid = id
  BY DEF MirrorInv, TypeOK, Works
<1> HIDE DEF x
<1>3. /\ wk' \in [Workers -> Works] /\ wk'[w] = x
      /\ \A v \in Workers : v # w => wk'[v] = wk[v]
  BY <1>1, <1>2, OneWorks DEF MirrorInv, TypeOK
<1>4. sync.st = "in_flight" /\ sync.owner = w /\ att.state = "dispatch_marked"
  BY DEF Owns, MirrorInv, ClaimInv, AttemptAt
<1>5. /\ sync' \in Syncs /\ sync'.desired = sync.desired /\ sync'.last = sync.last
      /\ sync'.rid = id /\ sync'.st = "in_flight" /\ sync'.owner = w
      /\ sync'.count = sync.count
  BY <1>1, <1>4 DEF MirrorInv, TypeOK, Syncs
<1>6. /\ att' \in Attempts /\ att'.state = "rpc_succeeded" /\ att'.rid = id
      /\ att'.ver = att.ver /\ att'.kind = att.kind /\ att'.says = att.says
  BY <1>1 DEF MirrorInv, TypeOK, Attempts
<1>7. TypeOK'
  BY <1>1, <1>3, <1>5, <1>6 DEF MirrorInv, TypeOK, Counted
<1>8. CountInv'
  BY <1>1, <1>4, <1>5 DEF MirrorInv, CountInv, Counted
<1>9. ClaimInv'
  BY <1>2, <1>3, <1>5, <1>6 DEF ClaimInv, AttemptAt
<1>10. ASSUME Unaided' PROVE OneRowInv'
  <2>1. OneRowInv
    BY <1>10 DEF MirrorInv, Unaided, Counted
  <2>2. Used = {id} /\ id # None /\ (att.kind # "create" => id = att.rid)
    BY <1>10 DEF Counted, Unaided
  <2>3. OwnerInv'
    BY <1>2, <1>3, <1>5, <1>6 DEF OwnerInv
  <2>4. VersionInv'
    BY <1>1, <1>4, <1>5, <1>6, <2>1, NotSettledYet DEF OneRowInv, VersionInv
  <2>5. RowInv'
    BY <1>1, <1>5, <1>6, <2>2 DEF RowInv, Used
  <2>6. Sending = {} /\ Sending' = {}
    BY <1>2, <1>3, <1>4, <2>1 DEF OneRowInv, RequestInv, Sending, Owns
  <2>7. ASSUME NEW m \in late' PROVE m = Request' /\ Asked'
    <3>1. m = Request /\ Asked
      BY <1>1, <2>1 DEF OneRowInv, RequestInv
    <3>2. att.kind # "create" /\ id = att.rid
      BY <2>2, <3>1 DEF Asked
    <3>3. Request' = Request
      BY <1>1, <3>2 DEF Request, MirrorInv, TypeOK, Attempts
    <3> QED BY <1>1, <1>6, <3>1, <3>2, <3>3 DEF Asked
  <2>8. RequestInv'
    BY <1>6, <2>6, <2>7 DEF RequestInv
  <2>9. ContentInv'
    BY <1>6 DEF ContentInv
  <2> QED BY <2>3, <2>4, <2>5, <2>8, <2>9 DEF OneRowInv
<1> QED BY <1>7, <1>8, <1>9, <1>10 DEF MirrorInv

(* The answer itself names the row (_dispatch_prepared_once).              *)
LEMMA AcknowledgedKeeps ==
    ASSUME MirrorInv, NEW w \in Workers, MarkRpcSucceeded(w)
    PROVE  MirrorInv'
<1>1. /\ wk[w].pc = "ack" /\ Owns(w) /\ MarksSucceeded(w, wk[w].rid)
      /\ Counted
  BY DEF MarkRpcSucceeded, counters, Counted, MirrorInv, TypeOK
<1>2. wk[w].rid \in Ids \cup {None}
  BY DEF MirrorInv, TypeOK, Works
<1>3. ASSUME Unaided
      PROVE  /\ Used = {wk[w].rid} /\ wk[w].rid # None
             /\ att.kind # "create" => wk[w].rid = att.rid
  <2>1. OneRowInv /\ sync.st = "in_flight" /\ sync.owner = w
    BY <1>1, <1>3 DEF MirrorInv, Unaided, Owns
  <2>2. Used = {wk[w].rid}
    BY <1>1, <2>1 DEF OneRowInv, OwnerInv
  <2>3. wk[w].rid \in Ids
    BY <2>2 DEF Used
  <2>4. att.state = "dispatch_marked"
    BY <1>1, <2>1 DEF MirrorInv, ClaimInv, AttemptAt
  <2>5. att.kind # "create" => Used = {att.rid}
    BY <2>1, <2>4 DEF OneRowInv, RowInv
  <2> QED BY <2>2, <2>3, <2>5 DEF Ids, None
<1> QED BY <1>1, <1>2, <1>3, MarksSucceededKeeps

(* A write is taken for done, a create only if its row is there            *)
(* (_recover_ambiguous_mutation).                                          *)
LEMMA RecoveredKeeps ==
    ASSUME MirrorInv, NEW w \in Workers, RecoverAmbiguousMutation(w)
    PROVE  MirrorInv'
<1>1. wk[w].pc = "ambiguous" /\ Owns(w) /\ Counted
  BY DEF RecoverAmbiguousMutation, counters, Counted, MirrorInv, TypeOK
<1>2. sync.st = "in_flight" /\ sync.owner = w /\ att.state = "dispatch_marked"
  BY <1>1 DEF Owns, MirrorInv, ClaimInv, AttemptAt
<1>3. wk[w].sent \in Attempts
  BY DEF MirrorInv, TypeOK, Works
<1>4. ASSUME Unaided
      PROVE  /\ OneRowInv /\ wk[w].sent.kind = att.kind /\ wk[w].sent.rid = att.rid
             /\ att.kind \in {"create", "update"}
  <2>1. OneRowInv
    BY <1>4 DEF MirrorInv, Unaided
  <2>2. wk[w].sent = Request
    BY <1>1, <1>2, <2>1 DEF OneRowInv, OwnerInv
  <2>3. Request.kind = att.kind /\ Request.rid = att.rid
    BY DEF Request, MirrorInv, TypeOK, Attempts
  <2> QED BY <1>2, <2>1, <2>2, <2>3 DEF OneRowInv, VersionInv
<1>5. CASE wk[w].sent.kind = "update"
  <2>1. MarksSucceeded(w, wk[w].sent.rid)
    BY <1>5 DEF RecoverAmbiguousMutation
  <2>2. wk[w].sent.rid \in Ids \cup {None}
    BY <1>3 DEF Attempts
  <2>3. ASSUME Unaided
        PROVE  Used = {att.rid} /\ att.rid # None /\ wk[w].sent.rid = att.rid
    BY <1>2, <1>4, <1>5, <2>3 DEF OneRowInv, RowInv
  <2> QED BY <1>1, <2>1, <2>2, <2>3, MarksSucceededKeeps
<1>6. CASE wk[w].sent.kind # "update" /\ Cardinality(Found) = 1
  <2> DEFINE id == CHOOSE i \in Found : TRUE
  <2>1. MarksSucceeded(w, id)
    BY <1>6 DEF RecoverAmbiguousMutation
  <2>2. Found # {}
    BY <1>6, FS_EmptySet
  <2>3. id \in Found /\ id \in Ids /\ remote[id] # "unused"
    BY <2>2, ChangesGoForward DEF Found
  <2> HIDE DEF id
  <2>4. ASSUME Unaided
        PROVE  Used = {id} /\ att.kind = "create"
    <3>1. OneRowInv /\ att.kind = "create"
      BY <1>4, <1>6, <2>4
    <3>2. sync.rid = None /\ \A i, j \in Used : i = j
      BY <1>2, <3>1 DEF OneRowInv, RowInv
    <3>3. id \in Used
      BY <2>3 DEF Used
    <3> QED BY <3>1, <3>2, <3>3
  <2>5. id # None
    BY <2>3 DEF Ids, None
  <2> QED BY <1>1, <2>1, <2>3, <2>4, <2>5, MarksSucceededKeeps
<1>7. CASE wk[w].sent.kind # "update" /\ Cardinality(Found) # 1
  <2>1. Quarantine(w, "ambiguous")
    BY <1>7 DEF RecoverAmbiguousMutation
  <2> QED BY <1>1, <2>1, QuarantineKeeps DEF Reasons
<1> QED BY <1>5, <1>6, <1>7

(* What was read back is settled (settle_verified).                        *)
LEMMA SettlesKeeps ==
    ASSUME MirrorInv, Counted, NEW w \in Workers, Owns(w), wk[w].pc = "verify",
           remote[wk[w].rid] = att.says, Settles(w)
    PROVE  MirrorInv'
<1>1. wk' = [wk EXCEPT ![w] = Idle] /\ Idle \in Works /\ Idle.pc = "idle"
  BY NothingIsTyped DEF Settles, Ends
<1>2. /\ wk' \in [Workers -> Works] /\ wk'[w] = Idle
      /\ \A v \in Workers : v # w => wk'[v] = wk[v]
  BY <1>1, OneWorks DEF MirrorInv, TypeOK
<1>3. /\ att' = NoAttempt /\ att' \in Attempts /\ att'.state = "none"
      /\ sync' = [sync EXCEPT !.st = "idle", !.owner = Nobody, !.last = att.ver,
                              !.count = 0, !.reason = "none"]
      /\ UNCHANGED <<status, remote, late>>
  BY NothingIsTyped DEF Settles, Released, MirrorInv, TypeOK, Syncs
<1>4. sync.st = "in_flight" /\ sync.owner = w /\ att.state = "rpc_succeeded"
  BY DEF Owns, MirrorInv, ClaimInv, AttemptAt
<1>5. att.ver \in 0..MaxVersion /\ 0 \in 0..MaxAttempts /\ 0 < MaxAttempts
  BY BoundsAssumption DEF MirrorInv, TypeOK, Attempts
<1>6. /\ sync' \in Syncs /\ sync'.desired = sync.desired /\ sync'.last = att.ver
      /\ sync'.rid = sync.rid /\ sync'.st = "idle" /\ sync'.count = 0
  BY <1>3, <1>5 DEF MirrorInv, TypeOK, Syncs
<1>7. TypeOK'
  BY <1>2, <1>3, <1>6 DEF MirrorInv, TypeOK, Counted
<1>8. CountInv' /\ ClaimInv'
  BY <1>3, <1>5, <1>6 DEF MirrorInv, CountInv, ClaimInv, Counted
<1>9. ASSUME Unaided' PROVE OneRowInv'
  <2>1. OneRowInv
    BY <1>9 DEF MirrorInv, Unaided, Counted
  <2>2. att.ver <= sync.desired /\ att.rid = sync.rid /\ sync.rid # None
    BY <1>4, <2>1 DEF OneRowInv, VersionInv, RowInv
  <2>3. wk[w].rid = att.rid /\ att.says \in Statuses
    BY <1>4, <2>1 DEF OneRowInv, OwnerInv, MirrorInv, TypeOK, Attempts
  <2>4. OwnerInv' /\ VersionInv'
    BY <1>3, <1>6, <2>2 DEF OwnerInv, VersionInv
  <2>5. RowInv'
    BY <1>3, <1>6, <2>1, <2>2 DEF OneRowInv, RowInv, Used
  <2>6. Sending' = {}
    BY <1>1, <1>2, <1>4, <2>1 DEF OneRowInv, RequestInv, Sending
  <2>7. ~Asked
    BY <1>4, <2>3, ChangesGoForward DEF Asked
  <2>8. late' = {}
    BY <1>3, <2>1, <2>7 DEF OneRowInv, RequestInv
  <2>9. RequestInv'
    BY <2>6, <2>8 DEF RequestInv
  <2>10. IF att.ver = sync.desired THEN status = att.says
         ELSE status \in Transitions(att.says)
    BY <1>4, <2>1 DEF OneRowInv, VersionInv
  <2>11. ContentInv'
    BY <1>3, <1>6, <2>2, <2>3, <2>10 DEF ContentInv
  <2> QED BY <2>4, <2>5, <2>9, <2>11 DEF OneRowInv
<1> QED BY <1>7, <1>8, <1>9 DEF MirrorInv

(***************************************************************************)
(* A person decides, and the specification                                 *)
(***************************************************************************)
(* A definitive failure is released, a feedback that was held before its   *)
(* first attempt too (apply_quarantine_disposition).                       *)
LEMMA ReleasesKeep ==
    ASSUME MirrorInv, ReleaseDefinitive \/ ReleasePreAttempt
    PROVE  MirrorInv'
<1>1. /\ att' = NoAttempt /\ att.state \in {"none", "definitive_failed"}
      /\ att.state = "none" => att = NoAttempt
      /\ sync' = [sync EXCEPT !.st = "idle", !.count = 0, !.reason = "none"]
      /\ UNCHANGED <<status, remote, wk, late, faults, outside, supersedes, resends>>
  BY NothingIsTyped DEF ReleaseDefinitive, ReleasePreAttempt, Revived
<1>2. releases' \in 0..MaxReleases
  BY BoundsAssumption DEF ReleaseDefinitive, ReleasePreAttempt, MirrorInv, TypeOK
<1>3. 0 \in 0..MaxAttempts /\ 0 < MaxAttempts
  BY BoundsAssumption
<1>4. sync' \in Syncs /\ SameVersions /\ sync'.st = "idle" /\ sync'.count = 0
  BY <1>1, <1>3 DEF MirrorInv, TypeOK, Syncs, SameVersions
<1>5. att' \in Attempts /\ att'.state = "none"
  BY <1>1, NothingIsTyped
<1>6. TypeOK'
  BY <1>1, <1>2, <1>4, <1>5 DEF MirrorInv, TypeOK
<1>7. CountInv' /\ ClaimInv'
  BY <1>1, <1>3, <1>4, <1>5 DEF MirrorInv, CountInv, ClaimInv, SameVersions
<1>8. ASSUME Unaided' PROVE OneRowInv'
  <2>1. OneRowInv
    BY <1>1, <1>8 DEF MirrorInv, Unaided
  <2>2. OwnerInv' /\ VersionInv'
    BY <1>1, <1>4, <1>5, <2>1 DEF OneRowInv, OwnerInv, VersionInv, SameVersions
  <2>3. RowInv' /\ ContentInv'
    BY <1>1, <1>4, <1>5, <2>1 DEF OneRowInv, RowInv, ContentInv, Used, SameVersions
  <2>4. Sending = {} /\ late = {}
    BY <1>1, <2>1 DEF OneRowInv, RequestInv
  <2>5. RequestInv'
    BY <1>1, <2>4 DEF RequestInv, Sending
  <2> QED BY <2>2, <2>3, <2>5 DEF OneRowInv
<1> QED BY <1>6, <1>7, <1>8 DEF MirrorInv

(* An ambiguous attempt is superseded, which promises nothing of the rows. *)
LEMMA SupersedeKeeps ==
    ASSUME MirrorInv, SupersedeAndRetry
    PROVE  MirrorInv'
<1>1. /\ att' = NoAttempt /\ supersedes < MaxSupersedes
      /\ supersedes' = supersedes + 1
      /\ sync' = [sync EXCEPT !.st = "idle", !.count = 0, !.reason = "none",
                              !.desired = @ + 1]
      /\ UNCHANGED <<status, remote, wk, late, faults, outside, releases, resends>>
  BY DEF SupersedeAndRetry, Revived, MirrorInv, TypeOK, Syncs
<1>2. /\ sync.desired \in 1..MaxVersion /\ supersedes \in 0..MaxSupersedes
      /\ MaxSupersedes \in Nat /\ 0 \in 0..MaxAttempts /\ 0 < MaxAttempts
      /\ sync.desired <= 1 + supersedes + RankOf(status) /\ RankOf(status) \in 0..2
  BY BoundsAssumption, ChangesGoForward DEF MirrorInv, TypeOK, CountInv, Syncs
<1>3. /\ sync.desired + 1 \in 1..MaxVersion /\ supersedes' \in 0..MaxSupersedes
      /\ sync.desired + 1 <= 1 + supersedes' + RankOf(status)
      /\ supersedes' # 0
  BY <1>1, <1>2 DEF MaxVersion
<1>4. /\ sync' \in Syncs /\ sync'.desired = sync.desired + 1
      /\ sync'.st = "idle" /\ sync'.count = 0
  BY <1>1, <1>2, <1>3 DEF MirrorInv, TypeOK, Syncs
<1>5. TypeOK'
  BY <1>1, <1>3, <1>4, NothingIsTyped DEF MirrorInv, TypeOK
<1>6. CountInv' /\ ClaimInv'
  BY <1>1, <1>2, <1>3, <1>4, NothingIsTyped DEF CountInv, ClaimInv
<1> QED BY <1>3, <1>5, <1>6 DEF MirrorInv, Unaided

(* A new feedback is mirrored nowhere (create_submission).                 *)
LEMMA MirrorStarts == Init => MirrorInv
<1> SUFFICES ASSUME Init PROVE MirrorInv
  OBVIOUS
<1>1. 0 \in 0..MaxVersion /\ 1 \in 1..MaxVersion /\ 0 \in 0..MaxAttempts /\ 0 < MaxAttempts
  BY BoundsAssumption DEF MaxVersion
<1>2. /\ 0 \in 0..MaxFaults /\ 0 \in 0..MaxOutside /\ 0 \in 0..MaxReleases
      /\ 0 \in 0..MaxSupersedes /\ 0 \in 0..MaxResends
  BY BoundsAssumption
<1>3. sync \in Syncs
  BY <1>1 DEF Init, Syncs, None
<1>4. wk \in [Workers -> Works] /\ \A w \in Workers : wk[w].pc = "idle"
  BY NothingIsTyped DEF Init
<1>5. TypeOK
  BY <1>2, <1>3, <1>4, NothingIsTyped DEF Init, TypeOK, Statuses
<1>6. CountInv /\ ClaimInv
  BY <1>1, NothingIsTyped DEF Init, CountInv, ClaimInv, RankOf
<1>7. Used = {} /\ Sending = {}
  BY <1>4 DEF Init, Used, Sending
<1>8. OwnerInv /\ VersionInv
  BY NothingIsTyped DEF Init, OwnerInv, VersionInv
<1>9. RowInv /\ RequestInv /\ ContentInv
  BY <1>7, NothingIsTyped DEF Init, RowInv, RequestInv, ContentInv, None
<1> QED BY <1>5, <1>6, <1>8, <1>9 DEF MirrorInv, OneRowInv

(* A fault is counted, and nothing else of what is counted.                *)
LEMMA FaultIsCounted ==
    ASSUME MirrorInv
    PROVE  /\ Fault /\ UNCHANGED <<outside, releases, supersedes, resends>> => Counted
           /\ UNCHANGED counters => Counted
BY BoundsAssumption DEF Fault, Counted, counters, MirrorInv, TypeOK

(* A step of the batch (process_claim).                                    *)
LEMMA StepKeeps ==
    ASSUME MirrorInv, NEW w \in Workers, Step(w)
    PROVE  MirrorInv'
<1>1. CASE Stale(w)
  BY <1>1, EndsKeeps, FaultIsCounted DEF Stale
<1>2. CASE Prepare(w)
  <2>1. wk[w].pc = "read" /\ Owns(w) /\ Counted
    BY <1>2, FaultIsCounted DEF Prepare
  <2>2. att.state = "none"
    BY <2>1 DEF Owns, MirrorInv, ClaimInv, AttemptAt
  <2>3. CASE sync.desired # wk[w].ver
    <3>1. Defer(w)
      BY <1>2, <2>3 DEF Prepare
    <3> QED BY <2>1, <2>2, <3>1, DeferKeeps
  <2>4. CASE sync.desired = wk[w].ver /\ Cardinality(Found) > 1
    <3>1. Quarantine(w, "duplicate")
      BY <1>2, <2>4 DEF Prepare
    <3> QED BY <2>1, <3>1, QuarantineKeeps DEF Reasons
  <2>5. CASE /\ sync.desired = wk[w].ver /\ ~(Cardinality(Found) > 1)
             /\ sync.rid # None /\ Found # {sync.rid}
    <3>1. Quarantine(w, "saved_id_conflict")
      BY <1>2, <2>5 DEF Prepare
    <3> QED BY <2>1, <3>1, QuarantineKeeps DEF Reasons
  <2>6. CASE /\ sync.desired = wk[w].ver /\ ~(Cardinality(Found) > 1)
             /\ ~(sync.rid # None /\ Found # {sync.rid})
    <3>1. SavesAttempt(w)
      BY <1>2, <2>6 DEF Prepare
    <3> QED BY <2>1, <2>6, <3>1, PrepareKeeps
  <2> QED BY <2>3, <2>4, <2>5, <2>6
<1>3. CASE MarkDispatch(w)
  <2>1. wk[w].pc = "gate" /\ Owns(w) /\ Counted
    BY <1>3, FaultIsCounted DEF MarkDispatch
  <2>2. CASE Found = IF att.kind = "create" THEN {} ELSE {att.rid}
    <3>1. Marks(w)
      BY <1>3, <2>2 DEF MarkDispatch
    <3> QED BY <2>1, <2>2, <3>1, MarksKeeps
  <2>3. CASE Found # IF att.kind = "create" THEN {} ELSE {att.rid}
    <3>1. Quarantine(w, "identity_changed")
      BY <1>3, <2>3 DEF MarkDispatch
    <3> QED BY <2>1, <3>1, QuarantineKeeps DEF Reasons
  <2> QED BY <2>2, <2>3
<1>4. CASE Land(w)
  BY <1>4, LandKeeps
<1>5. CASE MarkRpcSucceeded(w)
  BY <1>5, AcknowledgedKeeps
<1>6. CASE RecoverAmbiguousMutation(w)
  BY <1>6, RecoveredKeeps
<1>7. CASE VerifyReadback(w)
  <2>1. wk[w].pc = "verify" /\ Owns(w) /\ Counted
    BY <1>7, FaultIsCounted DEF VerifyReadback
  <2>2. CASE remote[wk[w].rid] = att.says
    <3>1. Settles(w)
      BY <1>7, <2>2 DEF VerifyReadback
    <3> QED BY <2>1, <2>2, <3>1, SettlesKeeps
  <2>3. CASE remote[wk[w].rid] # att.says
    <3>1. Quarantine(w, "mismatch")
      BY <1>7, <2>3 DEF VerifyReadback
    <3> QED BY <2>1, <3>1, QuarantineKeeps DEF Reasons
  <2> QED BY <2>2, <2>3
<1> QED BY <1>1, <1>2, <1>3, <1>4, <1>5, <1>6, <1>7 DEF Step

(* A step that fails.                                                      *)
LEMMA FaultKeeps ==
    ASSUME MirrorInv, NEW w \in Workers,
           \/ PrepareFails(w) \/ DispatchFails(w) \/ Resends(w) \/ AnswerLost(w)
           \/ SendFails(w) \/ RecoverFails(w) \/ VerifyFails(w) \/ Crash(w)
    PROVE  MirrorInv'
<1>1. CASE PrepareFails(w)
  <2>1. wk[w].pc = "read" /\ Owns(w) /\ Counted
    BY <1>1, FaultIsCounted DEF PrepareFails
  <2>2. att.state = "none"
    BY <2>1 DEF Owns, MirrorInv, ClaimInv, AttemptAt
  <2>3. Defer(w) \/ Quarantine(w, "contract")
    BY <1>1 DEF PrepareFails
  <2> QED BY <2>1, <2>2, <2>3, DeferKeeps, QuarantineKeeps DEF Reasons
<1>2. CASE DispatchFails(w)
  <2>1. wk[w].pc = "gate" /\ Owns(w) /\ Counted
    BY <1>2, FaultIsCounted DEF DispatchFails
  <2>2. att.state = "prepared"
    BY <2>1 DEF Owns, MirrorInv, ClaimInv, AttemptAt
  <2>3. Defer(w) \/ RecordDefinitiveFailure(w) \/ Quarantine(w, "contract")
    BY <1>2 DEF DispatchFails
  <2> QED BY <2>1, <2>2, <2>3, DeferKeeps, FailureKeeps, QuarantineKeeps DEF Reasons
<1>3. CASE AnswerLost(w)
  BY <1>3, AnswerLostKeeps
<1>4. CASE SendFails(w)
  <2>1. wk[w].pc = "send" /\ Counted
    BY <1>4, FaultIsCounted DEF SendFails
  <2>2. CASE Owns(w)
    <3>1. RecordDefinitiveFailure(w) \/ Quarantine(w, "contract")
      BY <1>4, <2>2 DEF SendFails
    <3> QED BY <2>1, <2>2, <3>1, FailureKeeps, QuarantineKeeps DEF Reasons
  <2>3. CASE ~Owns(w)
    <3>1. Ends(w) /\ UNCHANGED <<status, sync, att, remote, late>>
      BY <1>4, <2>3 DEF SendFails
    <3> QED BY <2>1, <3>1, EndsKeeps
  <2> QED BY <2>2, <2>3
<1>5. CASE RecoverFails(w)
  <2>1. Owns(w) /\ Counted /\ Quarantine(w, "ambiguous")
    BY <1>5, FaultIsCounted DEF RecoverFails
  <2> QED BY <2>1, QuarantineKeeps DEF Reasons
<1>6. CASE VerifyFails(w)
  <2>1. wk[w].pc = "verify" /\ Owns(w) /\ Counted /\ Defer(w)
    BY <1>6, FaultIsCounted DEF VerifyFails
  <2>2. att.state = "rpc_succeeded"
    BY <2>1 DEF Owns, MirrorInv, ClaimInv, AttemptAt
  <2> QED BY <2>1, <2>2, DeferKeeps
<1>7. CASE Crash(w)
  <2>1. Ends(w) /\ UNCHANGED <<status, sync, att, remote, late>> /\ Counted
    BY <1>7, FaultIsCounted DEF Crash
  <2> QED BY <2>1, EndsKeeps
<1>8. CASE Resends(w)
  BY <1>8, ResendsKeeps
<1> QED BY <1>1, <1>2, <1>3, <1>4, <1>5, <1>6, <1>7, <1>8

(* No step of the batch, of Odoo or of a person breaks the invariant.      *)
LEMMA NextKeeps == MirrorInv /\ [Next]_vars => MirrorInv'
<1> SUFFICES ASSUME MirrorInv, [Next]_vars PROVE MirrorInv'
  OBVIOUS
<1>1. CASE Transition
  BY <1>1, TransitionKeeps
<1>2. CASE LandLate
  BY <1>2, LandLateKeeps
<1>3. CASE ClaimExpires
  <2>1. /\ sync.st = "in_flight" /\ RecoverExpired /\ Counted
        /\ UNCHANGED <<status, remote, wk, late>>
    BY <1>3, FaultIsCounted DEF ClaimExpires
  <2> QED BY <2>1, RecoverKeeps
<1>4. CASE Outrun
  <2>1. /\ sync.st = "in_flight" /\ RecoverExpired /\ Counted
        /\ UNCHANGED <<status, remote, wk, late>>
    BY <1>4, FaultIsCounted DEF Outrun
  <2> QED BY <2>1, RecoverKeeps
<1>5. CASE Deleted
  BY <1>5, DeletedKeeps
<1>6. CASE ReleaseDefinitive \/ ReleasePreAttempt
  BY <1>6, ReleasesKeep
<1>7. CASE SupersedeAndRetry
  BY <1>7, SupersedeKeeps
<1>8. ASSUME NEW w \in Workers, ClaimDue(w) PROVE MirrorInv'
  BY <1>8, ClaimKeeps
<1>9. ASSUME NEW w \in Workers, Step(w) PROVE MirrorInv'
  BY <1>9, StepKeeps
<1>10. ASSUME NEW w \in Workers,
              \/ PrepareFails(w) \/ DispatchFails(w) \/ Resends(w) \/ AnswerLost(w)
              \/ SendFails(w) \/ RecoverFails(w) \/ VerifyFails(w) \/ Crash(w)
       PROVE  MirrorInv'
  BY <1>10, FaultKeeps
<1>11. CASE UNCHANGED vars
  <2>1. /\ TypeOK' /\ CountInv' /\ ClaimInv' /\ (Unaided' <=> Unaided)
    BY <1>11 DEF vars, MirrorInv, TypeOK, CountInv, ClaimInv, Unaided
  <2>2. OneRowInv => OneRowInv'
    BY <1>11 DEF vars, OneRowInv, OwnerInv, VersionInv, RowInv, RequestInv,
                 ContentInv, Request, Used, Sending, Asked, Owns
  <2> QED BY <2>1, <2>2 DEF MirrorInv
<1> QED BY <1>1, <1>2, <1>3, <1>4, <1>5, <1>6, <1>7, <1>8, <1>9, <1>10, <1>11
        DEF Next

(* MirrorInv holds of every behaviour.                                     *)
THEOREM MirrorInvariant == Spec => []MirrorInv
<1> QED BY MirrorStarts, NextKeeps, PTL DEF Spec

(***************************************************************************)
(* How many rows there are                                                 *)
(***************************************************************************)
(* The rows and the requests under way can be counted.                     *)
LEMMA RowsAreCounted ==
    ASSUME TypeOK, IsFiniteSet(late)
    PROVE  /\ IsFiniteSet(Used) /\ Cardinality(Used) \in Nat
           /\ IsFiniteSet(LateCreates) /\ Cardinality(LateCreates) \in Nat
<1>1. IsFiniteSet(Ids)
  BY FS_Interval, BoundsAssumption DEF Ids
<1>2. IsFiniteSet(Used)
  BY <1>1, FS_Subset DEF Used
<1>3. IsFiniteSet(LateCreates)
  BY FS_Subset DEF LateCreates
<1> QED BY <1>2, <1>3, FS_CardinalityType

(* A create that Odoo runs makes one row, a write makes none.              *)
LEMMA OneRowMore ==
    ASSUME TypeOK, NEW m \in Attempts, NEW e \in Effects(m), remote' = e.rows
    PROVE  IF m.kind = "create" THEN Cardinality(Used') = Cardinality(Used) + 1
                                ELSE Used' = Used
<1>1. m.says \in Statuses /\ m.says # "unused"
  BY ChangesGoForward DEF Attempts
<1>2. CASE m.kind = "create"
  <2>1. e.id \in Ids /\ remote[e.id] = "unused" /\ remote' = [remote EXCEPT ![e.id] = m.says]
    BY <1>2, EffectsAre
  <2>2. Used' = Used \cup {e.id} /\ e.id \notin Used
    BY <1>1, <2>1 DEF Used, TypeOK
  <2>3. IsFiniteSet(Ids)
    BY FS_Interval, BoundsAssumption DEF Ids
  <2>4. IsFiniteSet(Used)
    BY <2>3, FS_Subset DEF Used
  <2> QED BY <1>2, <2>2, <2>4, FS_AddElement
<1>3. CASE m.kind # "create"
  <2>1. remote' = IF m.rid \in Found THEN [remote EXCEPT ![m.rid] = m.says] ELSE remote
    BY <1>3, EffectsAre
  <2>2. \A i \in Found : remote[i] # "unused" /\ i \in Ids
    BY ChangesGoForward DEF Found
  <2>3. Used' = Used
    BY <1>1, <2>1, <2>2 DEF Used, TypeOK
  <2> QED BY <1>3, <2>3
<1> QED BY <1>2, <1>3

(* A create under way is the owner's, or its attempt is held.              *)
LEMMA CreatorOwns ==
    ASSUME MirrorInv, RowsInv, NEW w \in Creating
    PROVE  /\ w \in Workers /\ Creating = {w}
           /\ att.kind = "create" /\ att.state \in {"dispatch_marked", "ambiguous"}
           /\ sync.st # "idle" /\ (sync.st = "in_flight" => sync.owner = w)
           /\ Tried /\ Underway = 1
<1>1. w \in Workers /\ Creating = {w}
  BY DEF RowsInv, Creating
<1>2. /\ att.kind = "create"
      /\ att.state = "ambiguous" \/ (att.state = "dispatch_marked" /\ Owns(w))
  BY DEF RowsInv
<1>3. sync.st # "idle" /\ (sync.st = "in_flight" => sync.owner = w)
  BY <1>2 DEF MirrorInv, ClaimInv, AttemptAt, Owns
<1> QED BY <1>1, <1>2, <1>3 DEF Tried, Underway

(* A step that sends nothing and keeps what was tried adds no row.         *)
LEMMA NothingIsSent ==
    ASSUME MirrorInv, RowsInv, UNCHANGED late, Used' = Used, resends' = resends,
           Tried => Tried',
           \A w \in Creating' :
              /\ w \in Creating /\ att'.kind = "create"
              /\ att'.state = "ambiguous" \/ (att'.state = "dispatch_marked" /\ Owns(w)')
    PROVE  RowsInv'
<1>1. /\ IsFiniteSet(late') /\ LateCreates' = LateCreates
  BY DEF RowsInv, LateCreates
<1>2. Cardinality(Used) \in Nat /\ Cardinality(LateCreates) \in Nat /\ resends \in Nat
  BY RowsAreCounted, BoundsAssumption DEF MirrorInv, RowsInv, TypeOK
<1>3. Creating' \subseteq Creating
  OBVIOUS
<1>4. Underway \in {0, 1} /\ Underway' \in {0, 1} /\ Underway' <= Underway
  BY <1>3 DEF Underway
<1>5. \A v, w \in Creating' : v = w
  BY <1>3 DEF RowsInv
<1>6. Cardinality(Used') + Cardinality(LateCreates') + Underway'
        <= IF Tried' THEN 1 + resends' ELSE resends'
  <2>1. Cardinality(Used) + Cardinality(LateCreates) + Underway
          <= IF Tried THEN 1 + resends ELSE resends
    BY DEF RowsInv
  <2>2. Cardinality(Used') = Cardinality(Used) /\ Cardinality(LateCreates') = Cardinality(LateCreates)
    BY <1>1
  <2>3. CASE Tried
    BY <1>2, <1>4, <2>1, <2>2, <2>3
  <2>4. CASE ~Tried
    BY <1>2, <1>4, <2>1, <2>2, <2>4
  <2> QED BY <2>3, <2>4
<1> QED BY <1>1, <1>5, <1>6 DEF RowsInv

(* A worker that ends without a write, and one that holds the claim.       *)
LEMMA EndingSendsNothing ==
    ASSUME MirrorInv, RemoteInv, NEW w \in Workers, Ends(w), resends' = resends,
           supersedes' = supersedes, UNCHANGED <<remote, late, att>>,
           \/ UNCHANGED sync
           \/ Owns(w) /\ sync' = Released /\ att.state \in {"none", "prepared", "rpc_succeeded"}
    PROVE  RemoteInv'
<1>1. wk' = [wk EXCEPT ![w] = Idle] /\ Idle \in Works /\ Idle.pc = "idle"
  BY NothingIsTyped DEF Ends
<1>2. /\ wk' \in [Workers -> Works] /\ wk'[w] = Idle
      /\ \A v \in Workers : v # w => wk'[v] = wk[v]
  BY <1>1, OneWorks DEF MirrorInv, TypeOK
<1>3. sync'.rid = sync.rid /\ (sync' = sync \/ sync'.st = "idle")
  BY DEF Released, MirrorInv, TypeOK, Syncs
<1>4. SentInv'
  BY <1>1, <1>2, <1>3 DEF RemoteInv, SentInv, Request, MirrorInv, ClaimInv
<1>5. ASSUME supersedes' = 0 PROVE RowsInv'
  <2>1. RowsInv
    BY <1>5 DEF RemoteInv
  <2>2. Used' = Used /\ (Tried => Tried')
    BY <1>3 DEF Used, Tried
  <2>3. ASSUME NEW v \in Creating'
        PROVE  v \in Creating /\ (sync' = sync \/ FALSE)
    <3>1. v \in Creating /\ v # w
      BY <1>1, <1>2 DEF Creating
    <3>2. att.state \in {"dispatch_marked", "ambiguous"}
      BY <2>1, <3>1, CreatorOwns
    <3> QED BY <3>1, <3>2
  <2>4. \A v \in Creating' :
           /\ v \in Creating /\ att'.kind = "create"
           /\ att'.state = "ambiguous" \/ (att'.state = "dispatch_marked" /\ Owns(v)')
    BY <2>1, <2>3 DEF RowsInv, Owns
  <2> QED BY <2>1, <2>2, <2>4, NothingIsSent
<1> QED BY <1>4, <1>5 DEF RemoteInv

(* Where the attempt stands while a worker that is not sending owns it.    *)
LEMMA NobodyCreates ==
    ASSUME MirrorInv, RowsInv,
           \/ sync.st = "idle"
           \/ sync.st = "in_flight" /\ wk[sync.owner].pc # "send"
    PROVE  Creating = {}
<1> SUFFICES ASSUME NEW v \in Creating PROVE FALSE
  OBVIOUS
<1>1. sync.st # "idle" /\ (sync.st = "in_flight" => sync.owner = v)
  BY CreatorOwns
<1>2. wk[v].pc = "send"
  BY DEF Creating
<1> QED BY <1>1, <1>2

(* The row is held.                                                        *)
LEMMA HoldingSendsNothing ==
    ASSUME MirrorInv, RemoteInv, Counted, NEW w \in Workers, Owns(w), NEW why,
           Quarantine(w, why)
    PROVE  RemoteInv'
<1>1. /\ wk' = [wk EXCEPT ![w] = Idle] /\ Idle.pc = "idle" /\ Idle \in Works
      /\ UNCHANGED <<remote, late>>
  BY NothingIsTyped DEF Quarantine, Ends
<1>2. /\ wk' \in [Workers -> Works] /\ wk'[w] = Idle
      /\ \A v \in Workers : v # w => wk'[v] = wk[v]
  BY <1>1, OneWorks DEF MirrorInv, TypeOK
<1>3. sync'.st = "quarantined" /\ sync'.rid = sync.rid
  BY DEF Quarantine, Held, MirrorInv, TypeOK, Syncs
<1>4. /\ sync.st = "in_flight" /\ sync.owner = w
      /\ att.state \in {"none", "prepared", "dispatch_marked", "rpc_succeeded"}
      /\ att.state = "none" => att = NoAttempt
  BY DEF Owns, MirrorInv, ClaimInv, AttemptAt
<1>5. \/ att.state = "none" /\ att' = att
      \/ /\ att.state # "none" /\ att'.state = "ambiguous"
         /\ att'.kind = att.kind /\ att'.rid = att.rid
  BY <1>4, NothingIsTyped DEF Quarantine, MirrorInv, TypeOK, Attempts
<1>6. SentInv'
  BY <1>3, <1>4, <1>5 DEF RemoteInv, SentInv
<1>7. ASSUME supersedes' = 0 PROVE RowsInv'
  <2>1. RowsInv
    BY <1>7 DEF RemoteInv, Counted
  <2>2. Creating' = {}
    <3> SUFFICES ASSUME NEW v \in Creating' PROVE FALSE
      OBVIOUS
    <3>1. v \in Creating /\ v # w
      BY <1>1, <1>2 DEF Creating
    <3> QED BY <1>4, <2>1, <3>1, CreatorOwns
  <2>3. Tried => Tried'
    BY <1>3, <1>4, <1>5 DEF Tried, RemoteInv, SentInv
  <2>4. Used' = Used /\ resends' = resends
    BY <1>1 DEF Used, Counted
  <2> QED BY <1>1, <2>1, <2>2, <2>3, <2>4, NothingIsSent
<1> QED BY <1>6, <1>7 DEF RemoteInv

(* The attempt that certainly wrote nothing is given up, and with it its   *)
(* create.                                                                 *)
LEMMA FailingSendsNothing ==
    ASSUME MirrorInv, RemoteInv, Counted, NEW w \in Workers, Owns(w),
           wk[w].pc \in {"gate", "send"}, RecordDefinitiveFailure(w)
    PROVE  RemoteInv'
<1>1. /\ wk' = [wk EXCEPT ![w] = Idle] /\ Idle.pc = "idle" /\ Idle \in Works
      /\ UNCHANGED <<remote, late>>
  BY NothingIsTyped DEF RecordDefinitiveFailure, Ends
<1>2. /\ wk' \in [Workers -> Works] /\ wk'[w] = Idle
      /\ \A v \in Workers : v # w => wk'[v] = wk[v]
  BY <1>1, OneWorks DEF MirrorInv, TypeOK
<1>3. sync'.st \in {"idle", "quarantined"} /\ sync'.rid = sync.rid
  BY DEF RecordDefinitiveFailure, Held, Released, MirrorInv, TypeOK, Syncs
<1>4. /\ sync.st = "in_flight" /\ sync.owner = w
      /\ wk[w].pc = "gate" => att.state = "prepared"
      /\ wk[w].pc = "send" => att.state = "dispatch_marked"
  BY DEF Owns, MirrorInv, ClaimInv, AttemptAt
<1>5. \/ att'.state = "none" /\ att'.kind = "none"
      \/ att'.state = "definitive_failed" /\ att'.kind = att.kind /\ att'.rid = att.rid
  <2>1. att' = NoAttempt \/ att' = [att EXCEPT !.state = "definitive_failed"]
    BY DEF RecordDefinitiveFailure
  <2> QED BY <2>1 DEF NoAttempt, MirrorInv, TypeOK, Attempts
<1>6. SentInv'
  BY <1>3, <1>4, <1>5 DEF RemoteInv, SentInv
<1>7. ASSUME supersedes' = 0 PROVE RowsInv'
  <2>1. RowsInv /\ resends' = resends
    BY <1>7 DEF RemoteInv, Counted
  <2>2. Creating' = {}
    <3> SUFFICES ASSUME NEW v \in Creating' PROVE FALSE
      OBVIOUS
    <3>1. v \in Creating /\ v # w
      BY <1>1, <1>2 DEF Creating
    <3> QED BY <1>4, <2>1, <3>1, CreatorOwns
  <2>3. CASE Tried => Tried'
    BY <1>1, <2>1, <2>2, <2>3, NothingIsSent DEF Used
  <2>4. CASE Tried /\ ~Tried'
    <3>1. att.state = "dispatch_marked" /\ att.kind = "create" /\ wk[w].pc = "send"
      BY <1>3, <1>4, <2>4 DEF Tried
    <3>2. wk[w].sent.kind = att.kind
      BY <1>4, <3>1 DEF RemoteInv, SentInv, Request, MirrorInv, TypeOK, Attempts
    <3>3. w \in Creating /\ Underway = 1 /\ Underway' = 0
      BY <2>2, <3>1, <3>2 DEF Creating, Underway
    <3>4. Cardinality(Used) \in Nat /\ Cardinality(LateCreates) \in Nat /\ resends \in Nat
      BY <2>1, RowsAreCounted, BoundsAssumption DEF MirrorInv, RowsInv, TypeOK
    <3>5. Cardinality(Used) + Cardinality(LateCreates) + 1 <= 1 + resends
      BY <2>1, <2>4, <3>3 DEF RowsInv
    <3>6. Used' = Used /\ LateCreates' = LateCreates /\ IsFiniteSet(late')
      BY <1>1, <2>1 DEF Used, LateCreates, RowsInv
    <3>7. Cardinality(Used') + Cardinality(LateCreates') + Underway' <= resends'
      BY <2>1, <3>3, <3>4, <3>5, <3>6
    <3> QED BY <2>2, <2>4, <3>6, <3>7 DEF RowsInv
  <2> QED BY <2>3, <2>4
<1> QED BY <1>6, <1>7 DEF RemoteInv

(* An attempt is saved.                                                    *)
LEMMA SavingSendsNothing ==
    ASSUME MirrorInv, RemoteInv, Counted, NEW w \in Workers, Owns(w),
           wk[w].pc = "read", sync.rid # None => Found = {sync.rid}, SavesAttempt(w)
    PROVE  RemoteInv'
<1> DEFINE x == [wk[w] EXCEPT !.pc = "gate"]
<1>1. /\ wk' = [wk EXCEPT ![w] = x] /\ UNCHANGED <<status, sync, remote, late>>
      /\ att'.state = "prepared"
      /\ att'.kind = IF Found = {} THEN "create" ELSE "update"
      /\ att'.rid = IF Found = {} THEN None ELSE CHOOSE i \in Found : TRUE
  BY DEF SavesAttempt, Goes, MirrorInv, TypeOK
<1>2. x \in Works /\ x.pc = "gate"
  BY DEF MirrorInv, TypeOK, Works
<1> HIDE DEF x
<1>3. /\ wk' \in [Workers -> Works] /\ wk'[w] = x
      /\ \A v \in Workers : v # w => wk'[v] = wk[v]
  BY <1>1, <1>2, OneWorks DEF MirrorInv, TypeOK
<1>4. sync.st = "in_flight" /\ sync.owner = w /\ att.state = "none"
  BY DEF Owns, MirrorInv, ClaimInv, AttemptAt
<1>5. Found # {} => att'.rid \in Ids /\ att'.rid # None
  <2>1. ASSUME Found # {} PROVE att'.rid \in Found
    BY <1>1, <2>1
  <2> QED BY <2>1 DEF Found, Ids, None
<1>6. SentInv'
  BY <1>1, <1>2, <1>3, <1>4, <1>5 DEF SentInv
<1>7. ASSUME supersedes' = 0 PROVE RowsInv'
  <2>1. RowsInv /\ resends' = resends
    BY <1>7 DEF RemoteInv, Counted
  <2>2. Creating = {}
    BY <1>4, <2>1, NobodyCreates
  <2>3. Creating' = {}
    BY <1>2, <1>3, <2>2 DEF Creating
  <2>4. Used' = Used /\ (Tried => Tried')
    BY <1>1, <1>4 DEF Used, Tried
  <2> QED BY <1>1, <2>1, <2>3, <2>4, NothingIsSent
<1> QED BY <1>6, <1>7 DEF RemoteInv

(* The dispatch is marked: a create is on its way for the attempt.         *)
LEMMA MarkingTries ==
    ASSUME MirrorInv, RemoteInv, Counted, NEW w \in Workers, Owns(w),
           wk[w].pc = "gate", Marks(w)
    PROVE  RemoteInv'
<1> DEFINE x == [wk[w] EXCEPT !.pc = "send", !.sent = att]
<1>1. /\ att' = [att EXCEPT !.state = "dispatch_marked"]
      /\ wk' = [wk EXCEPT ![w] = x]
      /\ UNCHANGED <<status, sync, remote, late>>
  BY DEF Marks, MirrorInv, TypeOK
<1>2. att.state = "prepared" /\ sync.st = "in_flight" /\ sync.owner = w
  BY DEF Owns, MirrorInv, ClaimInv, AttemptAt
<1>3. att'.state = "dispatch_marked" /\ att'.kind = att.kind /\ att'.rid = att.rid
  BY <1>1 DEF MirrorInv, TypeOK, Attempts
<1>4. Request' = att
  BY <1>1, <1>2 DEF Request, MirrorInv, TypeOK, Attempts
<1>5. x \in Works /\ x.pc = "send" /\ x.sent = att
  BY DEF MirrorInv, TypeOK, Works
<1> HIDE DEF x
<1>6. /\ wk' \in [Workers -> Works] /\ wk'[w] = x
      /\ \A v \in Workers : v # w => wk'[v] = wk[v]
  BY <1>1, <1>5, OneWorks DEF MirrorInv, TypeOK
<1>7. SentInv'
  BY <1>1, <1>2, <1>3, <1>4, <1>5, <1>6 DEF RemoteInv, SentInv
<1>8. ASSUME supersedes' = 0 PROVE RowsInv'
  <2>1. RowsInv /\ resends' = resends
    BY <1>8 DEF RemoteInv, Counted
  <2>2. Creating = {}
    BY <1>2, <2>1, NobodyCreates
  <2>3. Used' = Used /\ LateCreates' = LateCreates /\ IsFiniteSet(late')
    BY <1>1, <2>1 DEF Used, LateCreates, RowsInv
  <2>4. CASE att.kind # "create"
    <3>1. Creating' = {}
      BY <1>5, <1>6, <2>2, <2>4 DEF Creating
    <3>2. Tried => Tried'
      BY <1>1, <1>2 DEF Tried
    <3> QED BY <1>1, <2>1, <2>3, <3>1, <3>2, NothingIsSent
  <2>5. CASE att.kind = "create"
    <3>1. Creating' = {w}
      BY <1>5, <1>6, <2>2, <2>5 DEF Creating
    <3>2. ~Tried /\ Tried' /\ Underway = 0 /\ Underway' = 1
      BY <1>2, <1>3, <2>2, <2>5, <3>1 DEF RemoteInv, SentInv, Tried, Underway
    <3>3. Cardinality(Used) \in Nat /\ Cardinality(LateCreates) \in Nat /\ resends \in Nat
      BY <2>1, RowsAreCounted, BoundsAssumption DEF MirrorInv, RowsInv, TypeOK
    <3>4. Cardinality(Used) + Cardinality(LateCreates) + 0 <= resends
      BY <2>1, <3>2 DEF RowsInv
    <3>5. Cardinality(Used') + Cardinality(LateCreates') + Underway' <= 1 + resends'
      BY <2>1, <2>3, <3>2, <3>3, <3>4
    <3>6. Owns(w)'
      BY <1>1, <1>2 DEF Owns
    <3>7. att'.kind = "create" /\ att'.state = "dispatch_marked"
      BY <1>3, <2>5
    <3>8. \A v \in Creating' :
             /\ \A u \in Creating' : u = v
             /\ att'.kind = "create"
             /\ att'.state = "ambiguous" \/ (att'.state = "dispatch_marked" /\ Owns(v)')
      BY <3>1, <3>6, <3>7
    <3> QED BY <2>3, <3>2, <3>5, <3>8 DEF RowsInv
  <2> QED BY <2>4, <2>5
<1> QED BY <1>7, <1>8 DEF RemoteInv

(* The id of the row is recorded.                                          *)
LEMMA RecordingSendsNothing ==
    ASSUME MirrorInv, RemoteInv, Counted, NEW w \in Workers, Owns(w),
           wk[w].pc \in {"ack", "ambiguous"}, NEW id \in Ids \cup {None}, id # None,
           MarksSucceeded(w, id)
    PROVE  RemoteInv'
<1> DEFINE x == [wk[w] EXCEPT !.pc = "verify", !.rid = id]
<1>1. /\ att' = [att EXCEPT !.state = "rpc_succeeded", !.rid = id]
      /\ sync' = [sync EXCEPT !.rid = id]
      /\ wk' = [wk EXCEPT ![w] = x]
      /\ UNCHANGED <<status, remote, late>>
  BY DEF MarksSucceeded, MirrorInv, TypeOK
<1>2. x \in Works /\ x.pc = "verify" /\ x.rid = id
  BY DEF MirrorInv, TypeOK, Works
<1> HIDE DEF x
<1>3. /\ wk' \in [Workers -> Works] /\ wk'[w] = x
      /\ \A v \in Workers : v # w => wk'[v] = wk[v]
  BY <1>1, <1>2, OneWorks DEF MirrorInv, TypeOK
<1>4. sync.st = "in_flight" /\ sync.owner = w /\ att.state = "dispatch_marked"
  BY DEF Owns, MirrorInv, ClaimInv, AttemptAt
<1>5. /\ sync'.rid = id /\ sync'.owner = w
      /\ att'.state = "rpc_succeeded" /\ att'.rid = id /\ att'.kind = att.kind
  BY <1>1, <1>4 DEF MirrorInv, TypeOK, Syncs, Attempts
<1>6. SentInv'
  BY <1>2, <1>3, <1>4, <1>5 DEF RemoteInv, SentInv
<1>7. ASSUME supersedes' = 0 PROVE RowsInv'
  <2>1. RowsInv /\ resends' = resends
    BY <1>7 DEF RemoteInv, Counted
  <2>2. Creating = {}
    BY <1>4, <2>1, NobodyCreates
  <2>3. Creating' = {}
    BY <1>2, <1>3, <2>2 DEF Creating
  <2>4. Used' = Used /\ Tried'
    BY <1>1, <1>5 DEF Used, Tried
  <2> QED BY <1>1, <2>1, <2>3, <2>4, NothingIsSent
<1> QED BY <1>6, <1>7 DEF RemoteInv

(* The version is settled.                                                 *)
LEMMA SettlingSendsNothing ==
    ASSUME MirrorInv, RemoteInv, Counted, NEW w \in Workers, Owns(w),
           wk[w].pc = "verify", Settles(w)
    PROVE  RemoteInv'
<1>1. /\ wk' = [wk EXCEPT ![w] = Idle] /\ Idle.pc = "idle" /\ Idle \in Works
      /\ att' = NoAttempt /\ UNCHANGED <<remote, late>>
  BY NothingIsTyped DEF Settles, Ends
<1>2. /\ wk' \in [Workers -> Works] /\ wk'[w] = Idle
      /\ \A v \in Workers : v # w => wk'[v] = wk[v]
  BY <1>1, OneWorks DEF MirrorInv, TypeOK
<1>3. sync'.st = "idle" /\ sync'.rid = sync.rid
  BY DEF Settles, Released, MirrorInv, TypeOK, Syncs
<1>4. sync.st = "in_flight" /\ sync.owner = w /\ att.state = "rpc_succeeded"
  BY DEF Owns, MirrorInv, ClaimInv, AttemptAt
<1>5. att'.state = "none" /\ att'.kind = "none"
  BY <1>1 DEF NoAttempt
<1>6. SentInv'
  BY <1>3, <1>5 DEF SentInv
<1>7. ASSUME supersedes' = 0 PROVE RowsInv'
  <2>1. RowsInv /\ resends' = resends
    BY <1>7 DEF RemoteInv, Counted
  <2>2. Creating = {}
    BY <1>4, <2>1, NobodyCreates
  <2>3. Creating' = {}
    BY <1>1, <1>2, <2>2 DEF Creating
  <2>4. Used' = Used /\ Tried'
    BY <1>1, <1>3, <1>4 DEF Used, Tried, RemoteInv, SentInv
  <2> QED BY <1>1, <2>1, <2>3, <2>4, NothingIsSent
<1> QED BY <1>6, <1>7 DEF RemoteInv

(* A claim that ran out is taken back.                                     *)
LEMMA RecoveringSendsNothing ==
    ASSUME MirrorInv, RemoteInv, Counted, sync.st = "in_flight", RecoverExpired,
           UNCHANGED <<remote, wk, late>>
    PROVE  RemoteInv'
<1>1. sync.owner \in Workers
  BY DEF MirrorInv, ClaimInv
<1>2. sync'.st # "in_flight" /\ sync'.rid = sync.rid
  BY DEF RecoverExpired, Held, Released, MirrorInv, TypeOK, Syncs
<1>3. \/ /\ att.state = "dispatch_marked" /\ att'.state = "ambiguous"
         /\ att'.kind = att.kind /\ att'.rid = att.rid
      \/ att.state # "dispatch_marked" /\ att' = att
  BY DEF RecoverExpired, MirrorInv, TypeOK, Attempts
<1>4. SentInv'
  BY <1>2, <1>3 DEF RemoteInv, SentInv
<1>5. ASSUME supersedes' = 0 PROVE RowsInv'
  <2>1. RowsInv /\ resends' = resends
    BY <1>5 DEF RemoteInv, Counted
  <2>2. Used' = Used /\ (Tried => Tried') /\ Creating' = Creating
    BY <1>2, <1>3 DEF Used, Tried, Creating
  <2>3. ASSUME NEW v \in Creating PROVE att'.kind = "create" /\ att'.state = "ambiguous"
    <3>1. att.kind = "create" /\ att.state \in {"dispatch_marked", "ambiguous"}
      BY <2>1, CreatorOwns
    <3> QED BY <1>3, <3>1
  <2> QED BY <2>1, <2>2, <2>3, NothingIsSent
<1> QED BY <1>4, <1>5 DEF RemoteInv

(* A worker takes the row (claim_due).                                     *)
LEMMA TakingSendsNothing ==
    ASSUME MirrorInv, RemoteInv, NEW w \in Workers, ClaimDue(w)
    PROVE  RemoteInv'
<1> DEFINE x == [Idle EXCEPT !.pc = Entry, !.ver = sync.desired, !.rid = att.rid]
<1>1. /\ wk[w].pc = "idle" /\ sync.st = "idle"
      /\ sync' = [sync EXCEPT !.st = "in_flight", !.owner = w]
      /\ wk' = [wk EXCEPT ![w] = x]
      /\ UNCHANGED <<status, att, remote, late, counters>>
  BY DEF ClaimDue
<1>2. x.pc = Entry /\ Entry \in {"read", "gate", "verify"}
  BY <1>1 DEF Idle, Entry, MirrorInv, ClaimInv
<1> HIDE DEF x
<1>3. wk'[w] = x /\ \A v \in Workers : v # w => wk'[v] = wk[v]
  BY <1>1 DEF MirrorInv, TypeOK
<1>4. sync'.st = "in_flight" /\ sync'.owner = w /\ sync'.rid = sync.rid
  BY <1>1 DEF MirrorInv, TypeOK, Syncs
<1>5. SentInv'
  BY <1>1, <1>2, <1>3, <1>4 DEF RemoteInv, SentInv
<1>6. ASSUME RowsInv PROVE RowsInv'
  <2>1. Creating = {}
    BY <1>1, <1>6, NobodyCreates
  <2>2. Creating' = {}
    BY <1>2, <1>3, <2>1 DEF Creating
  <2>3. Used' = Used /\ (Tried => Tried') /\ resends' = resends
    BY <1>1, <1>4 DEF Used, Tried, counters
  <2> QED BY <1>1, <1>6, <2>2, <2>3, NothingIsSent
<1> QED BY <1>1, <1>5, <1>6 DEF RemoteInv, counters

(* The feedback changes, a worker claims the row, somebody deletes it in   *)
(* Odoo, a person releases or supersedes an attempt.                       *)
LEMMA OthersSendNothing ==
    ASSUME MirrorInv, RemoteInv,
           \/ Transition \/ Deleted \/ ReleaseDefinitive \/ ReleasePreAttempt
           \/ SupersedeAndRetry \/ \E w \in Workers : ClaimDue(w)
    PROVE  RemoteInv'
<1>1. CASE Transition
  <2>1. /\ sync'.st = sync.st /\ sync'.rid = sync.rid /\ sync'.owner = sync.owner
        /\ UNCHANGED <<att, remote, wk, late, counters>>
    BY <1>1 DEF Transition, MirrorInv, TypeOK, Syncs
  <2>2. SentInv'
    BY <2>1 DEF RemoteInv, SentInv, Request
  <2>3. ASSUME RowsInv PROVE RowsInv'
    BY <2>1, <2>3, NothingIsSent DEF Used, Tried, Creating, RowsInv, Owns, counters
  <2> QED BY <2>1, <2>2, <2>3 DEF RemoteInv, counters
<1>2. CASE Deleted
  <2>1. PICK i \in Found : remote' = [remote EXCEPT ![i] = "deleted"]
    BY <1>2 DEF Deleted
  <2>2. UNCHANGED <<status, sync, att, wk, late, faults, releases, supersedes, resends>>
    BY <1>2 DEF Deleted
  <2>3. i \in Ids /\ remote[i] # "unused"
    BY ChangesGoForward DEF Found
  <2>4. Used' = Used
    BY <2>1, <2>3 DEF Used, MirrorInv, TypeOK
  <2>5. SentInv'
    BY <2>2 DEF RemoteInv, SentInv, Request
  <2>6. ASSUME RowsInv PROVE RowsInv'
    BY <2>2, <2>4, <2>6, NothingIsSent DEF Tried, Creating, RowsInv, Owns
  <2> QED BY <2>2, <2>5, <2>6 DEF RemoteInv
<1>3. CASE ReleaseDefinitive \/ ReleasePreAttempt
  <2>1. /\ att' = NoAttempt /\ att.state \in {"none", "definitive_failed"}
        /\ sync' = [sync EXCEPT !.st = "idle", !.count = 0, !.reason = "none"]
        /\ UNCHANGED <<status, remote, wk, late, faults, outside, supersedes, resends>>
    BY <1>3, NothingIsTyped DEF ReleaseDefinitive, ReleasePreAttempt, Revived
  <2>2. sync'.st = "idle" /\ sync'.rid = sync.rid
    BY <2>1 DEF MirrorInv, TypeOK, Syncs
  <2>3. att'.state = "none" /\ att'.kind = "none"
    BY <2>1 DEF NoAttempt
  <2>4. SentInv'
    BY <2>2, <2>3 DEF SentInv
  <2>5. ASSUME RowsInv PROVE RowsInv'
    <3>1. Creating = {}
      BY <2>1, <2>5, CreatorOwns
    <3>2. Creating' = {} /\ Used' = Used /\ (Tried => Tried')
      BY <2>1, <2>2, <3>1 DEF Creating, Used, Tried
    <3> QED BY <2>1, <2>5, <3>2, NothingIsSent
  <2> QED BY <2>1, <2>4, <2>5 DEF RemoteInv
<1>4. CASE SupersedeAndRetry
  <2>1. /\ att' = NoAttempt /\ supersedes' = supersedes + 1
        /\ sync' = [sync EXCEPT !.st = "idle", !.count = 0, !.reason = "none",
                                !.desired = @ + 1]
    BY <1>4 DEF SupersedeAndRetry, Revived, MirrorInv, TypeOK, Syncs
  <2>2. sync'.st = "idle" /\ att'.state = "none" /\ att'.kind = "none"
    BY <2>1 DEF NoAttempt, MirrorInv, TypeOK, Syncs
  <2>3. supersedes' # 0
    BY <2>1, BoundsAssumption DEF MirrorInv, TypeOK
  <2>4. SentInv'
    BY <2>2 DEF SentInv
  <2> QED BY <2>3, <2>4 DEF RemoteInv
<1>5. ASSUME NEW w \in Workers, ClaimDue(w) PROVE RemoteInv'
  BY <1>5, TakingSendsNothing
<1> QED BY <1>1, <1>2, <1>3, <1>4, <1>5

(* What a request that is sent leaves in Odoo or on its way there: at most *)
(* one row more.                                                           *)
LEMMA OneCreateMore ==
    ASSUME TypeOK, IsFiniteSet(late), NEW w \in Workers,
           \/ (\E e \in Effects(wk[w].sent) : remote' = e.rows) /\ UNCHANGED late
           \/ late' = late \cup {wk[w].sent} /\ UNCHANGED remote
           \/ UNCHANGED <<remote, late>>
    PROVE  /\ IsFiniteSet(late')
           /\ Cardinality(Used') \in Nat /\ Cardinality(LateCreates') \in Nat
           /\ Cardinality(Used') + Cardinality(LateCreates')
                <= Cardinality(Used) + Cardinality(LateCreates)
                     + (IF wk[w].sent.kind = "create" THEN 1 ELSE 0)
<1>1. wk[w].sent \in Attempts
  BY DEF TypeOK, Works
<1>2. /\ Cardinality(Used) \in Nat
      /\ IsFiniteSet(LateCreates) /\ Cardinality(LateCreates) \in Nat
  BY RowsAreCounted
<1>3. CASE (\E e \in Effects(wk[w].sent) : remote' = e.rows) /\ UNCHANGED late
  <2>1. PICK e \in Effects(wk[w].sent) : remote' = e.rows
    BY <1>3
  <2>2. LateCreates' = LateCreates
    BY <1>3 DEF LateCreates
  <2>3. CASE wk[w].sent.kind = "create"
    <3>1. Cardinality(Used') = Cardinality(Used) + 1
      BY <1>1, <2>1, <2>3, OneRowMore
    <3> QED BY <1>2, <1>3, <2>2, <2>3, <3>1
  <2>4. CASE wk[w].sent.kind # "create"
    <3>1. Used' = Used
      BY <1>1, <2>1, <2>4, OneRowMore
    <3> QED BY <1>2, <1>3, <2>2, <2>4, <3>1
  <2> QED BY <2>3, <2>4
<1>4. CASE late' = late \cup {wk[w].sent} /\ UNCHANGED remote
  <2>1. IsFiniteSet(late')
    BY <1>4, FS_AddElement
  <2>2. Used' = Used
    BY <1>4 DEF Used
  <2>3. CASE wk[w].sent.kind = "create" /\ wk[w].sent \notin late
    <3>1. LateCreates' = LateCreates \cup {wk[w].sent} /\ wk[w].sent \notin LateCreates
      BY <1>4, <2>3 DEF LateCreates
    <3>2. Cardinality(LateCreates') = Cardinality(LateCreates) + 1
      BY <1>2, <3>1, FS_AddElement
    <3> QED BY <1>2, <2>1, <2>2, <2>3, <3>2
  <2>4. CASE wk[w].sent.kind # "create" \/ wk[w].sent \in late
    <3>1. LateCreates' = LateCreates
      BY <1>4, <2>4 DEF LateCreates
    <3> QED BY <1>2, <2>1, <2>2, <3>1
  <2> QED BY <2>3, <2>4
<1>5. CASE UNCHANGED <<remote, late>>
  <2>1. Used' = Used /\ LateCreates' = LateCreates
    BY <1>5 DEF Used, LateCreates
  <2> QED BY <1>2, <1>5, <2>1
<1> QED BY <1>3, <1>4, <1>5

(* A request leaves its sender: Odoo ran it, did not, or will.             *)
LEMMA SenderIsDone ==
    ASSUME MirrorInv, RowsInv, NEW w \in Workers, wk[w].pc = "send",
           UNCHANGED <<sync, att, resends>>, NEW x \in Works, x.pc # "send",
           wk' = [wk EXCEPT ![w] = x],
           \/ (\E e \in Effects(wk[w].sent) : remote' = e.rows) /\ UNCHANGED late
           \/ late' = late \cup {wk[w].sent} /\ UNCHANGED remote
           \/ UNCHANGED <<remote, late>>
    PROVE  RowsInv'
<1>1. wk'[w] = x /\ \A v \in Workers : v # w => wk'[v] = wk[v]
  BY DEF MirrorInv, TypeOK
<1>2. Creating' = Creating \ {w}
  BY <1>1 DEF Creating
<1>3. /\ IsFiniteSet(late')
      /\ Cardinality(Used') \in Nat /\ Cardinality(LateCreates') \in Nat
      /\ Cardinality(Used') + Cardinality(LateCreates')
           <= Cardinality(Used) + Cardinality(LateCreates)
                + (IF wk[w].sent.kind = "create" THEN 1 ELSE 0)
  BY OneCreateMore DEF MirrorInv, RowsInv
<1>4. Cardinality(Used) \in Nat /\ Cardinality(LateCreates) \in Nat /\ resends \in Nat
  BY RowsAreCounted, BoundsAssumption DEF MirrorInv, RowsInv, TypeOK
<1>5. Underway' + (IF wk[w].sent.kind = "create" THEN 1 ELSE 0) <= Underway
  <2>1. CASE wk[w].sent.kind = "create"
    <3>1. w \in Creating
      BY <2>1 DEF Creating
    <3>2. Creating = {w}
      BY <3>1, CreatorOwns
    <3>3. Creating' = {}
      BY <1>2, <3>2
    <3> QED BY <2>1, <3>2, <3>3 DEF Underway
  <2>2. CASE wk[w].sent.kind # "create"
    BY <1>2, <2>2 DEF Underway
  <2> QED BY <2>1, <2>2
<1>6. Underway \in {0, 1} /\ Underway' \in {0, 1} /\ (Tried' <=> Tried)
  BY DEF Underway, Tried
<1>7. Cardinality(Used') + Cardinality(LateCreates') + Underway'
        <= IF Tried' THEN 1 + resends' ELSE resends'
  <2>1. Cardinality(Used') + Cardinality(LateCreates') + Underway'
          <= Cardinality(Used) + Cardinality(LateCreates) + Underway
    <3> DEFINE s == IF wk[w].sent.kind = "create" THEN 1 ELSE 0
    <3>1. s \in {0, 1}
      OBVIOUS
    <3> HIDE DEF s
    <3>2. /\ Cardinality(Used') + Cardinality(LateCreates')
               <= Cardinality(Used) + Cardinality(LateCreates) + s
          /\ Underway' + s <= Underway
      BY <1>3, <1>5 DEF s
    <3> QED BY <1>3, <1>4, <1>6, <3>1, <3>2
  <2>2. Cardinality(Used) + Cardinality(LateCreates) + Underway
          <= IF Tried THEN 1 + resends ELSE resends
    BY DEF RowsInv
  <2>3. (IF Tried THEN 1 + resends ELSE resends) \in Nat /\ resends' = resends
    BY <1>4
  <2> QED BY <1>3, <1>4, <1>6, <2>1, <2>2, <2>3
<1>8. \A v \in Creating' :
         /\ \A u \in Creating' : u = v
         /\ att'.kind = "create"
         /\ att'.state = "ambiguous" \/ (att'.state = "dispatch_marked" /\ Owns(v)')
  BY <1>2 DEF RowsInv, Owns
<1> QED BY <1>3, <1>7, <1>8 DEF RowsInv

(* Odoo answers, or no answer comes.                                       *)
LEMMA SendingAddsOne ==
    ASSUME MirrorInv, RemoteInv, NEW w \in Workers, Land(w) \/ AnswerLost(w)
    PROVE  RemoteInv'
<1>1. wk[w] \in Works /\ wk[w].sent \in Attempts /\ wk[w].pc = "send"
  BY DEF Land, AnswerLost, MirrorInv, TypeOK, Works
<1>2. UNCHANGED <<sync, att, resends, supersedes>>
  BY DEF Land, AnswerLost, counters
<1>3. PICK x \in Works :
         /\ wk' = [wk EXCEPT ![w] = x] /\ x.pc \in {"ack", "ambiguous"}
         /\ x.sent = wk[w].sent
         /\ x.pc = "ack" => (wk[w].sent.kind = "create" \/ wk[w].sent.rid # None => x.rid # None)
         /\ \/ (\E e \in Effects(wk[w].sent) : remote' = e.rows) /\ UNCHANGED late
            \/ late' = late \cup {wk[w].sent} /\ UNCHANGED remote
            \/ UNCHANGED <<remote, late>>
  <2>1. CASE Land(w)
    <3>1. PICK e \in Effects(wk[w].sent) :
             remote' = e.rows /\ wk' = [wk EXCEPT ![w].pc = "ack", ![w].rid = e.id]
      BY <2>1 DEF Land
    <3>2. /\ e.id \in Ids \cup {None}
          /\ wk[w].sent.kind = "create" => e.id \in Ids
          /\ wk[w].sent.kind # "create" => e.id = wk[w].sent.rid
      BY <1>1, EffectsAre DEF MirrorInv
    <3> DEFINE x == [wk[w] EXCEPT !.pc = "ack", !.rid = e.id]
    <3>3. wk' = [wk EXCEPT ![w] = x]
      BY <3>1 DEF MirrorInv, TypeOK
    <3>4. x \in Works /\ x.pc = "ack" /\ x.rid = e.id /\ x.sent = wk[w].sent
      BY <1>1, <3>2 DEF Works
    <3> HIDE DEF x
    <3>5. wk[w].sent.kind = "create" \/ wk[w].sent.rid # None => x.rid # None
      BY <3>2, <3>4 DEF Ids, None
    <3>6. UNCHANGED late
      BY <2>1 DEF Land
    <3> QED BY <3>1, <3>3, <3>4, <3>5, <3>6
  <2>2. CASE AnswerLost(w)
    <3> DEFINE x == [wk[w] EXCEPT !.pc = "ambiguous"]
    <3>1. wk' = [wk EXCEPT ![w] = x]
      BY <2>2 DEF AnswerLost, Goes, MirrorInv, TypeOK
    <3>2. x \in Works /\ x.pc = "ambiguous" /\ x.sent = wk[w].sent
      BY <1>1 DEF Works
    <3> HIDE DEF x
    <3>3. \/ (\E e \in Effects(wk[w].sent) : remote' = e.rows) /\ UNCHANGED late
          \/ late' = late \cup {wk[w].sent} /\ UNCHANGED remote
          \/ UNCHANGED <<remote, late>>
      BY <2>2 DEF AnswerLost
    <3> QED BY <3>1, <3>2, <3>3
  <2> QED BY <2>1, <2>2
<1>4. wk'[w] = x /\ \A v \in Workers : v # w => wk'[v] = wk[v]
  BY <1>3 DEF MirrorInv, TypeOK
<1>5. SentInv'
  <2>1. UNCHANGED <<sync, att>> /\ Request' = Request
    BY <1>2 DEF Request
  <2> SUFFICES ASSUME sync.st = "in_flight"
               PROVE  /\ wk'[sync.owner].pc \in {"send", "ack", "ambiguous"}
                           => wk'[sync.owner].sent = Request
                      /\ wk'[sync.owner].pc = "ack" => wk'[sync.owner].rid # None
    BY <2>1 DEF RemoteInv, SentInv
  <2>2. sync.owner \in Workers /\ att.state \in AttemptAt(wk[sync.owner].pc)
    BY DEF MirrorInv, ClaimInv
  <2>3. CASE sync.owner # w
    BY <1>4, <2>2, <2>3 DEF RemoteInv, SentInv
  <2>4. CASE sync.owner = w
    <3>1. att.state = "dispatch_marked" /\ wk[w].sent = Request
      BY <1>1, <2>2, <2>4 DEF AttemptAt, RemoteInv, SentInv
    <3>2. Request.kind = att.kind /\ Request.rid = att.rid
      BY DEF Request, MirrorInv, TypeOK, Attempts
    <3>3. att.kind = "create" \/ att.rid # None
      BY <3>1 DEF RemoteInv, SentInv
    <3> QED BY <1>3, <1>4, <2>4, <3>1, <3>2, <3>3
  <2> QED BY <2>3, <2>4
<1>6. ASSUME supersedes' = 0 PROVE RowsInv'
  <2>1. RowsInv
    BY <1>2, <1>6 DEF RemoteInv
  <2> QED BY <1>1, <1>2, <1>3, <2>1, SenderIsDone
<1> QED BY <1>5, <1>6 DEF RemoteInv

(* The request is sent again: one row more, and one request more that was  *)
(* sent again.                                                             *)
LEMMA ResendingAddsOne ==
    ASSUME MirrorInv, RemoteInv, NEW w \in Workers, Resends(w)
    PROVE  RemoteInv'
<1>1. /\ UNCHANGED <<sync, att, wk, supersedes>> /\ resends' = resends + 1
      /\ \/ (\E e \in Effects(wk[w].sent) : remote' = e.rows) /\ UNCHANGED late
         \/ late' = late \cup {wk[w].sent} /\ UNCHANGED remote
         \/ UNCHANGED <<remote, late>>
  BY DEF Resends
<1>2. SentInv'
  BY <1>1 DEF RemoteInv, SentInv, Request
<1>3. ASSUME supersedes' = 0 PROVE RowsInv'
  <2>1. RowsInv
    BY <1>1, <1>3 DEF RemoteInv
  <2>2. Creating' = Creating /\ Underway' = Underway /\ (Tried' <=> Tried)
    BY <1>1 DEF Creating, Underway, Tried
  <2>3. /\ IsFiniteSet(late')
        /\ Cardinality(Used') \in Nat /\ Cardinality(LateCreates') \in Nat
        /\ Cardinality(Used') + Cardinality(LateCreates')
             <= Cardinality(Used) + Cardinality(LateCreates)
                  + (IF wk[w].sent.kind = "create" THEN 1 ELSE 0)
    BY <1>1, <2>1, OneCreateMore DEF MirrorInv, RowsInv
  <2>4. Cardinality(Used) \in Nat /\ Cardinality(LateCreates) \in Nat /\ resends \in Nat
    BY <2>1, RowsAreCounted, BoundsAssumption DEF MirrorInv, RowsInv, TypeOK
  <2>5. Cardinality(Used') + Cardinality(LateCreates') + Underway'
          <= IF Tried' THEN 1 + resends' ELSE resends'
    <3>1. Cardinality(Used') + Cardinality(LateCreates')
            <= Cardinality(Used) + Cardinality(LateCreates) + 1
      BY <2>3, <2>4
    <3>2. Cardinality(Used) + Cardinality(LateCreates) + Underway
            <= IF Tried THEN 1 + resends ELSE resends
      BY <2>1 DEF RowsInv
    <3>3. Underway \in {0, 1}
      BY DEF Underway
    <3>4. CASE Tried
      BY <1>1, <2>2, <2>3, <2>4, <3>1, <3>2, <3>3, <3>4
    <3>5. CASE ~Tried
      BY <1>1, <2>2, <2>3, <2>4, <3>1, <3>2, <3>3, <3>5
    <3> QED BY <3>4, <3>5
  <2> QED BY <1>1, <2>1, <2>2, <2>3, <2>5 DEF RowsInv, Owns
<1> QED BY <1>2, <1>3 DEF RemoteInv

(* A request nobody waits for ends: a create on its way becomes a row.     *)
LEMMA LateRowIsCounted ==
    ASSUME MirrorInv, RemoteInv, LandLate
    PROVE  RemoteInv'
<1>1. PICK m \in late : \E e \in Effects(m) :
         remote' = e.rows /\ late' = late \ {m}
  BY DEF LandLate
<1>2. PICK e \in Effects(m) : remote' = e.rows /\ late' = late \ {m}
  BY <1>1
<1>3. UNCHANGED <<sync, att, wk, counters>> /\ m \in Attempts
  BY DEF LandLate, MirrorInv, TypeOK
<1>4. SentInv'
  BY <1>3 DEF RemoteInv, SentInv, Request
<1>5. ASSUME supersedes' = 0 PROVE RowsInv'
  <2>1. RowsInv /\ resends' = resends
    BY <1>3, <1>5 DEF RemoteInv, counters
  <2>2. Creating' = Creating /\ Underway' = Underway /\ (Tried' <=> Tried)
    BY <1>3 DEF Creating, Underway, Tried
  <2>3. /\ IsFiniteSet(LateCreates) /\ Cardinality(Used) \in Nat
        /\ Cardinality(LateCreates) \in Nat
    BY <2>1, RowsAreCounted DEF MirrorInv, RowsInv
  <2>4. Cardinality(Used') + Cardinality(LateCreates') = Cardinality(Used) + Cardinality(LateCreates)
    <3>1. CASE m.kind = "create"
      <4>1. m \in LateCreates /\ LateCreates' = LateCreates \ {m}
        BY <1>2, <3>1 DEF LateCreates
      <4>2. Cardinality(LateCreates') = Cardinality(LateCreates) - 1
        BY <2>3, <4>1, FS_RemoveElement
      <4>3. Cardinality(Used') = Cardinality(Used) + 1
        BY <1>2, <1>3, <3>1, OneRowMore DEF MirrorInv
      <4> QED BY <2>3, <4>2, <4>3
    <3>2. CASE m.kind # "create"
      <4>1. LateCreates' = LateCreates
        BY <1>2, <3>2 DEF LateCreates
      <4>2. Used' = Used
        BY <1>2, <1>3, <3>2, OneRowMore DEF MirrorInv
      <4> QED BY <4>1, <4>2
    <3> QED BY <3>1, <3>2
  <2>5. IsFiniteSet(late')
    BY <1>2, <2>1, FS_Subset DEF RowsInv
  <2>6. Cardinality(Used') + Cardinality(LateCreates') + Underway'
          <= IF Tried' THEN 1 + resends' ELSE resends'
    BY <2>1, <2>2, <2>4 DEF RowsInv
  <2> QED BY <1>3, <2>1, <2>2, <2>5, <2>6 DEF RowsInv, Owns
<1> QED BY <1>4, <1>5 DEF RemoteInv

(* No step of the batch adds a row that nobody tried or sent again.        *)
LEMMA RemoteStepKeeps ==
    ASSUME MirrorInv, RemoteInv, NEW w \in Workers, Step(w)
    PROVE  RemoteInv'
<1>1. CASE Stale(w)
  BY <1>1, EndingSendsNothing DEF Stale, counters
<1>2. CASE Prepare(w)
  <2>1. wk[w].pc = "read" /\ Owns(w) /\ Counted
    BY <1>2, FaultIsCounted DEF Prepare
  <2>2. att.state = "none"
    BY <2>1 DEF Owns, MirrorInv, ClaimInv, AttemptAt
  <2>3. CASE Defer(w)
    BY <2>1, <2>2, <2>3, EndingSendsNothing DEF Defer, Counted
  <2>4. CASE Quarantine(w, "duplicate") \/ Quarantine(w, "saved_id_conflict")
    BY <2>1, <2>4, HoldingSendsNothing
  <2>5. CASE SavesAttempt(w) /\ (sync.rid # None => Found = {sync.rid})
    BY <2>1, <2>5, SavingSendsNothing
  <2> QED BY <1>2, <2>3, <2>4, <2>5 DEF Prepare
<1>3. CASE MarkDispatch(w)
  <2>1. wk[w].pc = "gate" /\ Owns(w) /\ Counted
    BY <1>3, FaultIsCounted DEF MarkDispatch
  <2>2. Marks(w) \/ Quarantine(w, "identity_changed")
    BY <1>3 DEF MarkDispatch
  <2> QED BY <2>1, <2>2, MarkingTries, HoldingSendsNothing
<1>4. CASE Land(w)
  BY <1>4, SendingAddsOne
<1>5. CASE MarkRpcSucceeded(w)
  <2>1. wk[w].pc = "ack" /\ Owns(w) /\ Counted /\ MarksSucceeded(w, wk[w].rid)
    BY <1>5, FaultIsCounted DEF MarkRpcSucceeded
  <2>2. wk[w].rid \in Ids \cup {None} /\ wk[w].rid # None
    BY <2>1 DEF MirrorInv, TypeOK, Works, RemoteInv, SentInv, Owns
  <2> QED BY <2>1, <2>2, RecordingSendsNothing
<1>6. CASE RecoverAmbiguousMutation(w)
  <2>1. wk[w].pc = "ambiguous" /\ Owns(w) /\ Counted
    BY <1>6, FaultIsCounted DEF RecoverAmbiguousMutation
  <2>2. CASE wk[w].sent.kind = "update"
    <3>1. MarksSucceeded(w, wk[w].sent.rid)
      BY <1>6, <2>2 DEF RecoverAmbiguousMutation
    <3>2. att.state = "dispatch_marked" /\ wk[w].sent = Request
      BY <2>1 DEF Owns, MirrorInv, ClaimInv, AttemptAt, RemoteInv, SentInv
    <3>3. wk[w].sent.kind = att.kind /\ wk[w].sent.rid = att.rid /\ att.rid \in Ids \cup {None}
      BY <3>2 DEF Request, MirrorInv, TypeOK, Attempts
    <3>4. att.rid # None
      BY <2>2, <3>3 DEF RemoteInv, SentInv
    <3> QED BY <2>1, <3>1, <3>3, <3>4, RecordingSendsNothing
  <2>3. CASE wk[w].sent.kind # "update" /\ Cardinality(Found) = 1
    <3> DEFINE id == CHOOSE i \in Found : TRUE
    <3>1. MarksSucceeded(w, id)
      BY <1>6, <2>3 DEF RecoverAmbiguousMutation
    <3>2. Found # {}
      BY <2>3, FS_EmptySet
    <3>3. id \in Found /\ id \in Ids
      BY <3>2 DEF Found
    <3> HIDE DEF id
    <3>4. id # None
      BY <3>3 DEF Ids, None
    <3> QED BY <2>1, <3>1, <3>3, <3>4, RecordingSendsNothing
  <2>4. CASE wk[w].sent.kind # "update" /\ Cardinality(Found) # 1
    BY <1>6, <2>1, <2>4, HoldingSendsNothing DEF RecoverAmbiguousMutation
  <2> QED BY <2>2, <2>3, <2>4
<1>7. CASE VerifyReadback(w)
  <2>1. wk[w].pc = "verify" /\ Owns(w) /\ Counted
    BY <1>7, FaultIsCounted DEF VerifyReadback
  <2>2. Settles(w) \/ Quarantine(w, "mismatch")
    BY <1>7 DEF VerifyReadback
  <2> QED BY <2>1, <2>2, SettlingSendsNothing, HoldingSendsNothing
<1> QED BY <1>1, <1>2, <1>3, <1>4, <1>5, <1>6, <1>7 DEF Step

(* Nor does a step that fails.                                             *)
LEMMA RemoteFaultKeeps ==
    ASSUME MirrorInv, RemoteInv, NEW w \in Workers,
           \/ PrepareFails(w) \/ DispatchFails(w) \/ Resends(w) \/ AnswerLost(w)
           \/ SendFails(w) \/ RecoverFails(w) \/ VerifyFails(w) \/ Crash(w)
    PROVE  RemoteInv'
<1>1. CASE PrepareFails(w)
  <2>1. wk[w].pc = "read" /\ Owns(w) /\ Counted /\ (Defer(w) \/ Quarantine(w, "contract"))
    BY <1>1, FaultIsCounted DEF PrepareFails
  <2>2. att.state = "none"
    BY <2>1 DEF Owns, MirrorInv, ClaimInv, AttemptAt
  <2> QED BY <2>1, <2>2, EndingSendsNothing, HoldingSendsNothing DEF Defer, Counted
<1>2. CASE DispatchFails(w)
  <2>1. /\ wk[w].pc = "gate" /\ Owns(w) /\ Counted
        /\ Defer(w) \/ RecordDefinitiveFailure(w) \/ Quarantine(w, "contract")
    BY <1>2, FaultIsCounted DEF DispatchFails
  <2>2. att.state = "prepared"
    BY <2>1 DEF Owns, MirrorInv, ClaimInv, AttemptAt
  <2> QED BY <2>1, <2>2, EndingSendsNothing, FailingSendsNothing, HoldingSendsNothing
          DEF Defer, Counted
<1>3. CASE Resends(w)
  BY <1>3, ResendingAddsOne
<1>4. CASE AnswerLost(w)
  BY <1>4, SendingAddsOne
<1>5. CASE SendFails(w)
  <2>1. wk[w].pc = "send" /\ Counted
    BY <1>5, FaultIsCounted DEF SendFails
  <2>2. CASE Owns(w)
    <3>1. RecordDefinitiveFailure(w) \/ Quarantine(w, "contract")
      BY <1>5, <2>2 DEF SendFails
    <3> QED BY <2>1, <2>2, <3>1, FailingSendsNothing, HoldingSendsNothing
  <2>3. CASE ~Owns(w)
    <3>1. Ends(w) /\ UNCHANGED <<status, sync, att, remote, late>>
      BY <1>5, <2>3 DEF SendFails
    <3> QED BY <2>1, <3>1, EndingSendsNothing DEF Counted
  <2> QED BY <2>2, <2>3
<1>6. CASE RecoverFails(w)
  <2>1. Owns(w) /\ Counted /\ Quarantine(w, "ambiguous")
    BY <1>6, FaultIsCounted DEF RecoverFails
  <2> QED BY <2>1, HoldingSendsNothing
<1>7. CASE VerifyFails(w)
  <2>1. wk[w].pc = "verify" /\ Owns(w) /\ Counted /\ Defer(w)
    BY <1>7, FaultIsCounted DEF VerifyFails
  <2>2. att.state = "rpc_succeeded"
    BY <2>1 DEF Owns, MirrorInv, ClaimInv, AttemptAt
  <2> QED BY <2>1, <2>2, EndingSendsNothing DEF Defer, Counted
<1>8. CASE Crash(w)
  <2>1. Ends(w) /\ UNCHANGED <<status, sync, att, remote, late>> /\ Counted
    BY <1>8, FaultIsCounted DEF Crash
  <2> QED BY <2>1, EndingSendsNothing DEF Counted
<1> QED BY <1>1, <1>2, <1>3, <1>4, <1>5, <1>6, <1>7, <1>8

(* No step of the mirror breaks the count of the rows.                     *)
LEMMA RemoteKeeps == MirrorInv /\ RemoteInv /\ [Next]_vars => RemoteInv'
<1> SUFFICES ASSUME MirrorInv, RemoteInv, [Next]_vars PROVE RemoteInv'
  OBVIOUS
<1>1. CASE \/ Transition \/ Deleted \/ ReleaseDefinitive \/ ReleasePreAttempt
           \/ SupersedeAndRetry
  BY <1>1, OthersSendNothing
<1>2. CASE LandLate
  BY <1>2, LateRowIsCounted
<1>3. CASE ClaimExpires \/ Outrun
  <2>1. /\ sync.st = "in_flight" /\ RecoverExpired /\ Counted
        /\ UNCHANGED <<status, remote, wk, late>>
    BY <1>3, FaultIsCounted DEF ClaimExpires, Outrun
  <2> QED BY <2>1, RecoveringSendsNothing
<1>4. ASSUME NEW w \in Workers, ClaimDue(w) PROVE RemoteInv'
  BY <1>4, OthersSendNothing
<1>5. ASSUME NEW w \in Workers, Step(w) PROVE RemoteInv'
  BY <1>5, RemoteStepKeeps
<1>6. ASSUME NEW w \in Workers,
             \/ PrepareFails(w) \/ DispatchFails(w) \/ Resends(w) \/ AnswerLost(w)
             \/ SendFails(w) \/ RecoverFails(w) \/ VerifyFails(w) \/ Crash(w)
      PROVE  RemoteInv'
  BY <1>6, RemoteFaultKeeps
<1>7. CASE UNCHANGED vars
  BY <1>7 DEF vars, RemoteInv, SentInv, RowsInv, Request, Creating, LateCreates,
              Underway, Tried, Used, Owns
<1> QED BY <1>1, <1>2, <1>3, <1>4, <1>5, <1>6, <1>7 DEF Next

(* No row to begin with.                                                   *)
LEMMA RemoteStarts == Init => RemoteInv
<1> SUFFICES ASSUME Init PROVE RemoteInv
  OBVIOUS
<1>1. Used = {} /\ Creating = {} /\ LateCreates = {} /\ late = {} /\ resends = 0
  BY DEF Init, Idle, Used, Creating, LateCreates
<1>2. ~Tried /\ SentInv
  BY DEF Init, NoAttempt, Tried, SentInv, None
<1>3. Cardinality(Used) = 0 /\ Cardinality(LateCreates) = 0 /\ IsFiniteSet(late)
  BY <1>1, FS_EmptySet
<1>4. Underway = 0
  BY <1>1 DEF Underway
<1>5. Cardinality(Used) + Cardinality(LateCreates) + Underway
        <= IF Tried THEN 1 + resends ELSE resends
  BY <1>1, <1>2, <1>3, <1>4
<1> QED BY <1>1, <1>2, <1>3, <1>5 DEF RemoteInv, RowsInv

(* The count of the rows holds of every behaviour.                         *)
LEMMA RemoteHolds == Spec => []RemoteInv
<1> QED BY RemoteStarts, RemoteKeeps, MirrorInvariant, PTL DEF Spec

(* Until a person supersedes an ambiguous attempt, a feedback has at most  *)
(* one row in Odoo and one more for every request the HTTP client sent     *)
(* again by itself, whatever crashes, stalls, answers late or is retried   *)
(* (feedback_sync.py:376, odoo_improvements.py:257); and while nothing was *)
(* sent again, what counts as synchronized is what that row says           *)
(* (feedback_sync_store.py:1507).                                          *)
THEOREM SyncIsSafe == Spec => []SyncIsRight
<1>1. MirrorInv /\ RemoteInv => SyncIsRight
  <2> SUFFICES ASSUME MirrorInv, RemoteInv PROVE SyncIsRight
    OBVIOUS
  <2>1. ASSUME supersedes = 0 PROVE Cardinality(Used) <= 1 + resends
    <3>1. RowsInv
      BY <2>1 DEF RemoteInv
    <3>2. Cardinality(Used) \in Nat /\ Cardinality(LateCreates) \in Nat /\ resends \in Nat
      BY <3>1, RowsAreCounted, BoundsAssumption DEF MirrorInv, RowsInv, TypeOK
    <3>3. Underway \in {0, 1}
      BY DEF Underway
    <3>4. Cardinality(Used) + Cardinality(LateCreates) + Underway
            <= IF Tried THEN 1 + resends ELSE resends
      BY <3>1 DEF RowsInv
    <3> QED BY <3>2, <3>3, <3>4
  <2>2. NoDuplicate
    BY <2>1 DEF NoDuplicate, Used
  <2>3. ASSUME Unaided, sync.last = sync.desired
        PROVE  remote[sync.rid] \in {status, "deleted"}
    <3>1. OneRowInv
      BY <2>3 DEF MirrorInv
    <3>2. sync.rid # None /\ att.state = "none"
      BY <2>3, <3>1 DEF OneRowInv, VersionInv
    <3> QED BY <2>3, <3>1, <3>2 DEF OneRowInv, ContentInv
  <2> QED BY <2>2, <2>3 DEF SyncIsRight, SyncedIsRemote, MirrorInv, Unaided
<1> QED BY <1>1, MirrorInvariant, RemoteHolds, PTL

(* An ambiguous attempt is touched by nobody but the person who supersedes *)
(* it (feedback_sync_store.py:1733).                                       *)
THEOREM AmbiguousAttemptIsHeld == Spec => AmbiguousIsHeld
<1>1. ASSUME MirrorInv, [Next]_vars, att.state = "ambiguous", supersedes' = supersedes
      PROVE  att' = att /\ sync'.st = "quarantined"
  <2>1. sync.st = "quarantined" /\ att # NoAttempt
    <3>1. sync \in Syncs /\ sync.st \notin {"idle", "in_flight"}
      BY <1>1 DEF MirrorInv, TypeOK, ClaimInv, AttemptAt
    <3> QED BY <1>1, <3>1, NothingIsTyped DEF Syncs
  <2>2. \A w : ~Owns(w)
    BY <2>1 DEF Owns
  <2>3. CASE Transition
    <3>1. att' = att /\ \E s : sync' = [sync EXCEPT !.desired = @ + 1]
      BY <2>3 DEF Transition
    <3> QED BY <1>1, <2>1, <3>1 DEF MirrorInv, TypeOK, Syncs
  <2>4. CASE LandLate \/ Deleted \/ UNCHANGED vars
    BY <2>1, <2>4 DEF LandLate, Deleted, vars
  <2>5. ~ClaimExpires /\ ~Outrun
    BY <2>1 DEF ClaimExpires, Outrun
  <2>6. ~ReleaseDefinitive /\ ~ReleasePreAttempt
    BY <1>1, <2>1 DEF ReleaseDefinitive, ReleasePreAttempt
  <2>7. ~SupersedeAndRetry
    <3>1. supersedes \in Int
      BY <1>1, BoundsAssumption DEF MirrorInv, TypeOK
    <3> QED BY <1>1, <3>1 DEF SupersedeAndRetry
  <2>8. ASSUME NEW w \in Workers, ClaimDue(w) PROVE FALSE
    BY <2>1, <2>8 DEF ClaimDue
  <2>9. ASSUME NEW w \in Workers, Step(w) PROVE att' = att /\ sync' = sync
    BY <2>2, <2>9 DEF Step, Stale, Prepare, MarkDispatch, Land, MarkRpcSucceeded,
                      RecoverAmbiguousMutation, VerifyReadback
  <2>10. ASSUME NEW w \in Workers,
                \/ PrepareFails(w) \/ DispatchFails(w) \/ Resends(w) \/ AnswerLost(w)
                \/ SendFails(w) \/ RecoverFails(w) \/ VerifyFails(w) \/ Crash(w)
         PROVE  att' = att /\ sync' = sync
    BY <2>2, <2>10 DEF PrepareFails, DispatchFails, Resends, AnswerLost, SendFails,
                       RecoverFails, VerifyFails, Crash
  <2> QED BY <1>1, <2>1, <2>3, <2>4, <2>5, <2>6, <2>7, <2>8, <2>9, <2>10 DEF Next
<1>2. MirrorInv /\ [Next]_vars
        => [att.state = "ambiguous" /\ supersedes' = supersedes
              => att' = att /\ sync'.st = "quarantined"]_vars
  BY <1>1
<1> QED BY <1>2, MirrorInvariant, PTL DEF Spec, AmbiguousIsHeld

(***************************************************************************)
(* The tasks: the data                                                     *)
(***************************************************************************)
(* A feedback ends after at most two changes (feedback_store.py:115).      *)
LEMMA FeedbackMovesOn ==
    /\ \A s \in TaskStatuses : MovesTo(s) \subseteq TaskStatuses
    /\ \A s \in TaskStatuses : s \in Terminal => MovesTo(s) = {}
    /\ \A s \in TaskStatuses : s \notin Terminal => s \in {"requested", "in_progress"}
    /\ \A s \in TaskStatuses : "requested" \notin MovesTo(s)
    /\ "in_progress" \notin MovesTo("in_progress")
BY DEF TaskStatuses, MovesTo, Terminal

(* An id of a task is not the id of none, and an idle batch is at work on  *)
(* nothing.                                                                *)
LEMMA BatchesAreTyped ==
    /\ \A i \in TaskIds : i # NoTask
    /\ IdleBatch \in BatchWorks /\ IdleBatch.pc = "idle"
    /\ MaxContract \in Nat /\ 1 \in 1..MaxContract
<1>1. \A i \in TaskIds : i # NoTask
  BY TaskAssumption DEF TaskIds, NoTask
<1>2. MaxContract \in Nat /\ 1 \in 1..MaxContract /\ 0 \in 0..MaxContract
  BY TaskAssumption
<1>3. IdleBatch \in BatchWorks /\ IdleBatch.pc = "idle"
  BY <1>2 DEF IdleBatch, BatchWorks, Places, Calls, TaskStatuses
<1> QED BY <1>1, <1>2, <1>3

LEMMA TroubleIsCounted ==
    ASSUME TaskTypeOK, Trouble PROVE troubles' \in 0..MaxTroubles
<1>1. MaxTroubles \in Nat
  BY TaskAssumption
<1> QED BY <1>1 DEF TaskTypeOK, Trouble

(* Odoo finds none, one or several tasks of the name.                      *)
LEMMA FoundIsCounted ==
    /\ IsFiniteSet(FoundTasks) /\ Cardinality(FoundTasks) \in Nat
    /\ FoundTasks = {} => Cardinality(FoundTasks) = 0
    /\ Cardinality(FoundTasks) = 1 => (CHOOSE i \in FoundTasks : TRUE) \in FoundTasks
<1>1. IsFiniteSet(FoundTasks)
  <2>1. IsFiniteSet(TaskIds)
    BY TaskAssumption, FS_Interval DEF TaskIds
  <2> QED BY <2>1, FS_Subset DEF FoundTasks
<1>2. Cardinality(FoundTasks) \in Nat
  BY <1>1, FS_CardinalityType
<1>3. FoundTasks = {} => Cardinality(FoundTasks) = 0
  BY FS_EmptySet
<1>4. FoundTasks # {} => (CHOOSE i \in FoundTasks : TRUE) \in FoundTasks
  OBVIOUS
<1>5. Cardinality(FoundTasks) = 1 => FoundTasks # {}
  BY <1>3
<1> QED BY <1>1, <1>2, <1>3, <1>4, <1>5

(* Every copy and every call that was sent twice is counted.               *)
LEMMA CopiesAreCounted ==
    ASSUME TaskTypeOK PROVE shots \in Nat /\ notes \in Nat /\ replays \in Nat
BY TaskAssumption DEF TaskTypeOK

(* One batch goes on, the others stay where they are.                      *)
LEMMA OneBatchMoves ==
    ASSUME TaskTypeOK, NEW w \in Batches, NEW x \in BatchWorks,
           twk' = [twk EXCEPT ![w] = x]
    PROVE  /\ twk' \in [Batches -> BatchWorks] /\ twk'[w] = x
           /\ \A v \in Batches : v # w => twk'[v] = twk[v]
BY DEF TaskTypeOK

LEMMA GoesOnSays ==
    ASSUME TaskTypeOK, NEW w \in Batches, NEW pc \in Places, GoesOn(w, pc)
    PROVE  \E x \in BatchWorks :
              /\ twk' = [twk EXCEPT ![w] = x]
              /\ x.pc = pc /\ x.ver = twk[w].ver /\ x.con = twk[w].con
              /\ x.says = twk[w].says /\ x.snap = twk[w].snap /\ x.got = twk[w].got
<1> DEFINE x == [twk[w] EXCEPT !.pc = pc]
<1>1. twk[w] \in BatchWorks
  BY DEF TaskTypeOK
<1>2. x \in BatchWorks /\ x.pc = pc /\ x.ver = twk[w].ver /\ x.con = twk[w].con
      /\ x.says = twk[w].says /\ x.snap = twk[w].snap /\ x.got = twk[w].got
  BY <1>1 DEF BatchWorks
<1>3. twk' = [twk EXCEPT ![w] = x]
  BY DEF GoesOn
<1> QED BY <1>2, <1>3

(***************************************************************************)
(* The tasks: the steps of a batch                                         *)
(***************************************************************************)
(* A batch at work goes on, or ends; it writes the row only under its      *)
(* lease, and Odoo is as it was.                                           *)
LEMMA BatchKeeps ==
    ASSUME TasksInv, troubles' \in 0..MaxTroubles, UNCHANGED <<local, odoo>>,
           NEW w \in Batches, Busy(w),
           NEW x \in BatchWorks, twk' = [twk EXCEPT ![w] = x],
           row' \in TaskRows, row' # row => Leases(w),
           row'.desired = row.desired,
           row'.st = "in_flight" => row'.owner \in Batches,
           row'.task # NoTask => row'.task \in FoundTasks,
           row.task # NoTask => row'.task # NoTask,
           row'.attached => shots > 0, row.attached => row'.attached,
           row'.st = "delivered" /\ row' # row => x.pc = "idle" /\ DeliveredIsTrue',
           PlaceInv(w)',
           ~slow /\ x.pc = "create" => Leases(w)' /\ row'.task = NoTask /\ Cardinality(FoundTasks) <= replays,
           x.pc = "upload" => shots <= replays, x.pc = "post" => notes <= replays
    PROVE  TasksInv'
<1>1. /\ twk' \in [Batches -> BatchWorks] /\ twk'[w] = x
      /\ \A v \in Batches : v # w => twk'[v] = twk[v]
  BY OneBatchMoves DEF TasksInv
<1>2. /\ tstatus' = tstatus /\ contract' = contract /\ overlap' = overlap
      /\ replays' = replays
      /\ tasks' = tasks /\ shots' = shots /\ notes' = notes /\ tlate' = tlate /\ slow' = slow
  BY DEF local, odoo
<1>3. FoundTasks' = FoundTasks
  BY <1>2 DEF FoundTasks
<1>4. TaskTypeOK'
  BY <1>1, <1>2 DEF TasksInv, TaskTypeOK
<1>5. LedgerInv'
  BY <1>2, <1>3 DEF TasksInv, LedgerInv
<1>6. ASSUME NEW v \in Batches PROVE PlaceInv(v)'
  <2>1. CASE v = w
    BY <2>1
  <2>2. CASE v # w
    <3>1. twk'[v] = twk[v] /\ PlaceInv(v)
      BY <1>1, <2>2 DEF TasksInv
    <3> QED BY <1>2, <1>3, <3>1 DEF PlaceInv
  <2> QED BY <2>1, <2>2
<1>7. CreateInv'
  <2> SUFFICES ASSUME ~slow
               PROVE  /\ tlate = {} /\ Cardinality(FoundTasks) <= 1 + replays
                      /\ \A v \in Batches : twk'[v].pc = "create" =>
                            Leases(v)' /\ row'.task = NoTask /\ Cardinality(FoundTasks) <= replays
    BY <1>2, <1>3 DEF CreateInv
  <2>1. /\ tlate = {} /\ Cardinality(FoundTasks) <= 1 + replays
        /\ \A v \in Batches : twk[v].pc = "create" =>
               Leases(v) /\ row.task = NoTask /\ Cardinality(FoundTasks) <= replays
    BY DEF TasksInv, CreateInv
  <2>2. ASSUME NEW v \in Batches, v # w, twk[v].pc = "create"
        PROVE  Leases(v)' /\ row'.task = NoTask /\ Cardinality(FoundTasks) <= replays
    <3>1. Leases(v) /\ row.task = NoTask /\ Cardinality(FoundTasks) <= replays
      BY <2>1, <2>2
    <3>2. row' = row
      BY <2>2, <3>1 DEF Leases
    <3> QED BY <3>1, <3>2 DEF Leases
  <2> QED BY <1>1, <2>1, <2>2
<1>8. AloneInv'
  <2> SUFFICES ASSUME ~slow, ~overlap
               PROVE  /\ \A u, v \in Batches : Busy(u)' /\ Busy(v)' => u = v
                      /\ shots <= 1 + replays /\ notes <= 1 + replays
                      /\ \A v \in Batches : /\ twk'[v].pc = "upload" => shots <= replays
                                            /\ twk'[v].pc = "post" => notes <= replays
                      /\ row'.st = "delivered" => \A v \in Batches : ~Busy(v)'
    BY <1>2 DEF AloneInv
  <2>1. /\ \A u, v \in Batches : Busy(u) /\ Busy(v) => u = v
        /\ shots <= 1 + replays /\ notes <= 1 + replays
        /\ \A v \in Batches : /\ twk[v].pc = "upload" => shots <= replays
                              /\ twk[v].pc = "post" => notes <= replays
        /\ row.st = "delivered" => \A v \in Batches : ~Busy(v)
    BY DEF TasksInv, AloneInv
  <2>2. \A v \in Batches : Busy(v)' => v = w
    BY <1>1, <2>1 DEF Busy
  <2>3. row'.st = "delivered" => \A v \in Batches : ~Busy(v)'
    BY <1>1, <2>1, <2>2 DEF Busy
  <2> QED BY <1>1, <2>1, <2>2, <2>3
<1>9. DeliveredIsTrue'
  <2>1. row' = row => DeliveredIsTrue'
    BY <1>2, <1>3 DEF TasksInv, DeliveredIsTrue
  <2>2. row'.st = "delivered" /\ row' # row => DeliveredIsTrue'
    OBVIOUS
  <2>3. row'.st # "delivered" => DeliveredIsTrue'
    BY DEF DeliveredIsTrue
  <2> QED BY <2>1, <2>2, <2>3
<1> QED BY <1>4, <1>5, <1>6, <1>7, <1>8, <1>9 DEF TasksInv
(* A batch goes on and writes nothing.                                     *)
LEMMA MovesKeeps ==
    ASSUME TasksInv, troubles' \in 0..MaxTroubles, UNCHANGED <<local, odoo>>,
           NEW w \in Batches, Busy(w), NEW pc \in Places, Moves(w, pc),
           pc \notin {"idle", "load", "created"}, twk[w].pc # "load",
           pc \in Attaching \cup Finishing => row.task # NoTask,
           pc = "uploaded" => shots > 0,
           pc \in Finishing => ~Image \/ row.attached,
           pc \in Settling => twk[w].snap = twk[w].ver,
           pc = "create" => Leases(w) /\ row.task = NoTask /\ Cardinality(FoundTasks) <= replays,
           pc = "upload" => shots <= replays, pc = "post" => notes <= replays
    PROVE  TasksInv'
<1>1. row' = row /\ GoesOn(w, pc)
  BY DEF Moves
<1>2. PICK x \in BatchWorks :
         /\ twk' = [twk EXCEPT ![w] = x]
         /\ x.pc = pc /\ x.ver = twk[w].ver /\ x.con = twk[w].con
         /\ x.says = twk[w].says /\ x.snap = twk[w].snap /\ x.got = twk[w].got
  BY <1>1, GoesOnSays DEF TasksInv
<1>3. twk'[w] = x
  BY <1>2, OneBatchMoves DEF TasksInv
<1>4. LedgerInv /\ PlaceInv(w) /\ row \in TaskRows /\ twk[w].pc \notin {"idle", "load"}
  BY DEF TasksInv, TaskTypeOK, Busy
<1>5. tstatus' = tstatus /\ shots' = shots
  BY DEF local, odoo
<1>6. PlaceInv(w)'
  BY <1>1, <1>2, <1>3, <1>4, <1>5 DEF PlaceInv
<1>7. /\ row.st = "in_flight" => row.owner \in Batches
      /\ row.task # NoTask => row.task \in FoundTasks
      /\ row.attached => shots > 0
  BY <1>4 DEF LedgerInv
<1>8. pc = "create" => Leases(w)'
  BY <1>1 DEF Leases
<1> QED BY <1>1, <1>2, <1>4, <1>6, <1>7, <1>8, BatchKeeps

(* A batch ends and writes at most that the row is no longer its.          *)
LEMMA DropsKeep ==
    ASSUME TasksInv, troubles' \in 0..MaxTroubles, UNCHANGED <<local, odoo>>,
           NEW w \in Batches, Busy(w), Drops(w),
           row' \in TaskRows, row' # row => Leases(w) /\ row'.st # "in_flight",
           row'.desired = row.desired, row'.task = row.task,
           row'.attached = row.attached,
           row'.st = "delivered" /\ row' # row => DeliveredIsTrue'
    PROVE  TasksInv'
<1>1. twk' = [twk EXCEPT ![w] = IdleBatch] /\ IdleBatch \in BatchWorks /\ IdleBatch.pc = "idle"
  BY BatchesAreTyped DEF Drops
<1>2. twk'[w] = IdleBatch
  BY <1>1, OneBatchMoves DEF TasksInv
<1>3. PlaceInv(w)'
  BY <1>1, <1>2 DEF PlaceInv, Attaching, Finishing, Settling
<1>4. LedgerInv
  BY DEF TasksInv
<1>5. /\ row'.st = "in_flight" => row'.owner \in Batches
      /\ row.task # NoTask => row.task \in FoundTasks
      /\ row.attached => shots > 0
  BY <1>4 DEF LedgerInv
<1> QED BY <1>1, <1>3, <1>5, BatchKeeps

(* A batch gives the row up, for a while or for a person (schedule_retry,  *)
(* block).                                                                 *)
LEMMA GivesUpKeeps ==
    ASSUME TasksInv, troubles' \in 0..MaxTroubles, UNCHANGED <<local, odoo>>,
           NEW w \in Batches, Busy(w), Leases(w), Retry(w) \/ Block(w)
    PROVE  TasksInv'
<1>1. row \in TaskRows
  BY DEF TasksInv, TaskTypeOK
<1>2. Drops(w)
  BY DEF Retry, Block
<1>3. \/ row' = [row EXCEPT !.st = "attention", !.wait = TRUE, !.owner = NoBatch]
      \/ row' = [row EXCEPT !.st = "blocked", !.owner = NoBatch]
  BY DEF Retry, Block
<1>4. /\ row' \in TaskRows /\ row'.st \in {"attention", "blocked"}
      /\ row'.desired = row.desired /\ row'.task = row.task
      /\ row'.attached = row.attached
  BY <1>1, <1>3 DEF TaskRows
<1> QED BY <1>2, <1>4, DropsKeep

(* A batch records the task (record_task_id).                              *)
LEMMA RecordTaskKeeps ==
    ASSUME TasksInv, troubles' \in 0..MaxTroubles, UNCHANGED <<local, odoo>>,
           NEW w \in Batches, Busy(w), Leases(w), twk[w].pc # "load",
           NEW i \in FoundTasks, RecordTask(w, i)
    PROVE  TasksInv'
<1>1. row' = [row EXCEPT !.task = i] /\ GoesOn(w, "attach") /\ "attach" \in Places
  BY DEF RecordTask, Places
<1>2. PICK x \in BatchWorks :
         /\ twk' = [twk EXCEPT ![w] = x]
         /\ x.pc = "attach" /\ x.ver = twk[w].ver /\ x.con = twk[w].con
         /\ x.says = twk[w].says /\ x.snap = twk[w].snap /\ x.got = twk[w].got
  BY <1>1, GoesOnSays DEF TasksInv
<1>3. twk'[w] = x
  BY <1>2, OneBatchMoves DEF TasksInv
<1>4. LedgerInv /\ PlaceInv(w) /\ row \in TaskRows /\ twk[w].pc \notin {"idle", "load"}
  BY DEF TasksInv, TaskTypeOK, Busy
<1>5. i \in TaskIds /\ i # NoTask
  BY BatchesAreTyped DEF FoundTasks
<1>6. /\ row' \in TaskRows /\ row'.task = i
      /\ row'.st = row.st /\ row'.owner = row.owner /\ row'.desired = row.desired
      /\ row'.attached = row.attached
  BY <1>1, <1>4, <1>5 DEF TaskRows
<1>7. tstatus' = tstatus /\ shots' = shots
  BY DEF local, odoo
<1>8. PlaceInv(w)'
  BY <1>2, <1>3, <1>4, <1>5, <1>6, <1>7 DEF PlaceInv, Attaching, Finishing, Settling
<1>9. row.st = "in_flight" /\ row.owner = w
  BY DEF Leases
<1>10. row.attached => shots > 0
  BY <1>4 DEF LedgerInv
<1> QED BY <1>2, <1>5, <1>6, <1>8, <1>9, <1>10, BatchKeeps

(* A batch records the screenshot (record_before_attachment).              *)
LEMMA RecordShotKeeps ==
    ASSUME TasksInv, troubles' \in 0..MaxTroubles, UNCHANGED <<local, odoo>>,
           NEW w \in Batches, Busy(w), Leases(w), twk[w].pc # "load",
           shots > 0, row.task # NoTask, RecordShot(w)
    PROVE  TasksInv'
<1>1. row' = [row EXCEPT !.attached = TRUE] /\ GoesOn(w, "life") /\ "life" \in Places
  BY DEF RecordShot, Places
<1>2. PICK x \in BatchWorks :
         /\ twk' = [twk EXCEPT ![w] = x]
         /\ x.pc = "life" /\ x.ver = twk[w].ver /\ x.con = twk[w].con
         /\ x.says = twk[w].says /\ x.snap = twk[w].snap /\ x.got = twk[w].got
  BY <1>1, GoesOnSays DEF TasksInv
<1>3. twk'[w] = x
  BY <1>2, OneBatchMoves DEF TasksInv
<1>4. LedgerInv /\ PlaceInv(w) /\ row \in TaskRows /\ twk[w].pc \notin {"idle", "load"}
  BY DEF TasksInv, TaskTypeOK, Busy
<1>5. /\ row' \in TaskRows /\ row'.task = row.task /\ row'.attached = TRUE
      /\ row'.st = row.st /\ row'.owner = row.owner /\ row'.desired = row.desired
  BY <1>1, <1>4 DEF TaskRows
<1>6. tstatus' = tstatus /\ shots' = shots
  BY DEF local, odoo
<1>7. PlaceInv(w)'
  BY <1>2, <1>3, <1>4, <1>5, <1>6 DEF PlaceInv, Attaching, Finishing, Settling
<1>8. row.st = "in_flight" /\ row.owner = w
  BY DEF Leases
<1>9. row.task \in FoundTasks
  BY <1>4 DEF LedgerInv
<1> QED BY <1>2, <1>5, <1>7, <1>8, <1>9, BatchKeeps

(* A batch reads what the feedback says (load_snapshot).                   *)
LEMMA LoadKeeps ==
    ASSUME TasksInv, NEW w \in Batches, LoadSnapshot(w) PROVE TasksInv'
<1> DEFINE x == [twk[w] EXCEPT !.pc = "task", !.says = tstatus, !.snap = row.desired]
<1>1. /\ twk[w].pc = "load" /\ row' = row /\ UNCHANGED <<local, odoo, troubles>>
      /\ twk' = [twk EXCEPT ![w] = x]
  BY DEF LoadSnapshot, At
<1>2. /\ twk[w] \in BatchWorks /\ row \in TaskRows /\ tstatus \in TaskStatuses
      /\ troubles \in 0..MaxTroubles
  BY DEF TasksInv, TaskTypeOK
<1>3. row.desired \in 1..3 /\ row.desired \in 0..3 /\ "task" \in Places
  BY <1>2 DEF TaskRows, Places
<1>4. x \in BatchWorks /\ x.pc = "task" /\ x.says = tstatus /\ x.snap = row.desired
  BY <1>2, <1>3 DEF BatchWorks
<1>5. twk'[w] = x
  BY <1>1, <1>4, OneBatchMoves DEF TasksInv
<1>6. PlaceInv(w)'
  BY <1>1, <1>3, <1>4, <1>5 DEF PlaceInv, Attaching, Finishing, Settling, local
<1>7. /\ row.st = "in_flight" => row.owner \in Batches
      /\ row.task # NoTask => row.task \in FoundTasks
      /\ row.attached => shots > 0
  BY DEF TasksInv, LedgerInv
<1> HIDE DEF x
<1>8. Busy(w) /\ troubles' \in 0..MaxTroubles
  BY <1>1, <1>2 DEF Busy
<1> QED BY <1>1, <1>2, <1>4, <1>6, <1>7, <1>8, BatchKeeps

(* A batch finds the task, or that there is none (_deliver_task).          *)
LEMMA DeliverTaskKeeps ==
    ASSUME TasksInv, NEW w \in Batches, DeliverTask(w) PROVE TasksInv'
<1>1. /\ twk[w].pc = "task" /\ Leases(w) /\ UNCHANGED <<local, odoo, troubles>> /\ Busy(w)
  BY DEF DeliverTask, At, Busy
<1>2. troubles' \in 0..MaxTroubles /\ {"attach", "create"} \subseteq Places
  BY <1>1 DEF TasksInv, TaskTypeOK, Places, Calls
<1>3. CASE row.task # NoTask
  <2>1. Moves(w, "attach")
    BY <1>3 DEF DeliverTask
  <2> QED BY <1>1, <1>2, <1>3, <2>1, MovesKeeps DEF Finishing, Settling
<1>4. CASE row.task = NoTask /\ Cardinality(FoundTasks) > 1
  <2>1. Block(w)
    BY <1>4 DEF DeliverTask
  <2> QED BY <1>1, <1>2, <2>1, GivesUpKeeps
<1>5. CASE row.task = NoTask /\ ~(Cardinality(FoundTasks) > 1) /\ Cardinality(FoundTasks) = 1
  <2>1. RecordTask(w, CHOOSE i \in FoundTasks : TRUE)
    BY <1>5 DEF DeliverTask
  <2>2. (CHOOSE i \in FoundTasks : TRUE) \in FoundTasks
    BY <1>5, FoundIsCounted
  <2> QED BY <1>1, <1>2, <2>1, <2>2, RecordTaskKeeps
<1>6. CASE row.task = NoTask /\ ~(Cardinality(FoundTasks) > 1) /\ Cardinality(FoundTasks) # 1
  <2>1. Moves(w, "create")
    BY <1>6 DEF DeliverTask
  <2>2. Cardinality(FoundTasks) <= replays
    BY <1>6, FoundIsCounted, CopiesAreCounted DEF TasksInv
  <2> QED BY <1>1, <1>2, <1>6, <2>1, <2>2, MovesKeeps DEF Attaching, Finishing, Settling
<1> QED BY <1>3, <1>4, <1>5, <1>6

(* A batch records the task it created, or finds it when no answer came    *)
(* (_record_task_match, _resolve_uncertain_task_create).                   *)
LEMMA CreatedKeeps ==
    ASSUME TasksInv, NEW w \in Batches, RecordTaskId(w) \/ ResolveUncertainTask(w)
    PROVE  TasksInv'
<1>1. /\ twk[w].pc \in {"created", "recheck"} /\ Leases(w)
      /\ UNCHANGED <<local, odoo, troubles>> /\ Busy(w)
  BY DEF RecordTaskId, ResolveUncertainTask, At, Busy
<1>2. troubles' \in 0..MaxTroubles
  BY <1>1 DEF TasksInv, TaskTypeOK
<1>3. CASE RecordTaskId(w)
  <2>1. twk[w].got \in FoundTasks /\ RecordTask(w, twk[w].got)
    BY <1>3 DEF RecordTaskId, At, TasksInv, PlaceInv
  <2> QED BY <1>1, <1>2, <2>1, RecordTaskKeeps
<1>4. CASE ResolveUncertainTask(w) /\ Cardinality(FoundTasks) = 1
  <2>1. \/ Block(w)
        \/ RecordTask(w, CHOOSE i \in FoundTasks : TRUE)
    BY <1>4 DEF ResolveUncertainTask
  <2>2. (CHOOSE i \in FoundTasks : TRUE) \in FoundTasks
    BY <1>4, FoundIsCounted
  <2> QED BY <1>1, <1>2, <2>1, <2>2, RecordTaskKeeps, GivesUpKeeps
<1>5. CASE ResolveUncertainTask(w) /\ Cardinality(FoundTasks) # 1
  <2>1. Block(w) \/ Retry(w)
    BY <1>5 DEF ResolveUncertainTask
  <2> QED BY <1>1, <1>2, <2>1, GivesUpKeeps
<1> QED BY <1>3, <1>4, <1>5

(* A batch looks for the screenshot, uploads it or records it              *)
(* (_deliver_before_attachment, _verify_and_record_attachment).            *)
LEMMA ShotKeeps ==
    ASSUME TasksInv, NEW w \in Batches,
           \/ DeliverBeforeAttachment(w) \/ RecordBeforeAttachment(w)
           \/ ResolveUncertainShot(w)
    PROVE  TasksInv'
<1>1. /\ twk[w].pc \in {"attach", "uploaded", "reshot"} /\ Leases(w)
      /\ UNCHANGED <<local, odoo, troubles>> /\ Busy(w)
  BY DEF DeliverBeforeAttachment, RecordBeforeAttachment, ResolveUncertainShot, At, Busy
<1>2. /\ troubles' \in 0..MaxTroubles /\ {"life", "upload"} \subseteq Places
      /\ shots \in Nat /\ replays \in Nat
  BY <1>1, CopiesAreCounted DEF TasksInv, TaskTypeOK, Places, Calls
<1>3. row.task # NoTask /\ (twk[w].pc = "uploaded" => shots > 0)
  BY <1>1 DEF TasksInv, PlaceInv, Attaching
<1>4. CASE DeliverBeforeAttachment(w) /\ (~Image \/ row.attached)
  <2>1. Moves(w, "life")
    BY <1>4 DEF DeliverBeforeAttachment
  <2> QED BY <1>1, <1>2, <1>3, <1>4, <2>1, MovesKeeps DEF Settling
<1>5. CASE DeliverBeforeAttachment(w) /\ ~(~Image \/ row.attached) /\ shots = 0
  <2>1. Moves(w, "upload")
    BY <1>5 DEF DeliverBeforeAttachment
  <2>2. shots <= replays
    BY <1>2, <1>5
  <2> QED BY <1>1, <1>2, <1>3, <2>1, <2>2, MovesKeeps DEF Finishing, Settling
<1>6. CASE Block(w) \/ Retry(w)
  BY <1>1, <1>2, <1>6, GivesUpKeeps
<1>7. CASE RecordShot(w) /\ shots > 0
  BY <1>1, <1>2, <1>3, <1>7, RecordShotKeeps
<1>8. CASE DeliverBeforeAttachment(w) /\ ~(~Image \/ row.attached) /\ shots # 0
  <2>1. Block(w) \/ (RecordShot(w) /\ shots > 0)
    BY <1>2, <1>8 DEF DeliverBeforeAttachment
  <2> QED BY <1>6, <1>7, <2>1
<1>9. CASE RecordBeforeAttachment(w)
  <2>1. RecordShot(w) /\ shots > 0
    BY <1>3, <1>9 DEF RecordBeforeAttachment, At
  <2> QED BY <1>7, <2>1
<1>10. CASE ResolveUncertainShot(w)
  <2>1. CASE shots > 1
    <3>1. Block(w) \/ (RecordShot(w) /\ shots > 0)
      BY <1>10, <2>1 DEF ResolveUncertainShot
    <3> QED BY <1>6, <1>7, <3>1
  <2>2. CASE ~(shots > 1) /\ shots = 1
    <3>1. RecordShot(w)
      BY <1>10, <2>2 DEF ResolveUncertainShot
    <3> QED BY <1>7, <2>2, <3>1
  <2>3. CASE ~(shots > 1) /\ shots # 1
    <3>1. Retry(w)
      BY <1>10, <2>3 DEF ResolveUncertainShot
    <3> QED BY <1>6, <3>1
  <2> QED BY <2>1, <2>2, <2>3
<1> QED BY <1>4, <1>5, <1>8, <1>9, <1>10

(* A batch brings the task to what the feedback says and adds the result   *)
(* note (_reconcile_task_lifecycle).                                       *)
LEMMA LifecycleKeeps ==
    ASSUME TasksInv, NEW w \in Batches,
           ReconcileLifecycle(w) \/ EnsureTerminalNote(w) \/ RecoverTerminalNote(w)
    PROVE  TasksInv'
<1>1. /\ twk[w].pc \in {"life", "note", "renote"} /\ Leases(w)
      /\ UNCHANGED <<local, odoo, troubles>> /\ Busy(w)
  BY DEF ReconcileLifecycle, EnsureTerminalNote, RecoverTerminalNote, At, Busy
<1>2. /\ troubles' \in 0..MaxTroubles /\ notes \in Nat /\ replays \in Nat
      /\ {"write", "note", "verify", "post"} \subseteq Places
  BY <1>1, CopiesAreCounted DEF TasksInv, TaskTypeOK, Places, Calls
<1>3. /\ row.task # NoTask /\ (~Image \/ row.attached)
      /\ twk[w].pc \in {"note", "renote"} => twk[w].snap = twk[w].ver
  BY <1>1 DEF TasksInv, PlaceInv, Finishing, Settling
<1>4. CASE Block(w) \/ Retry(w)
  BY <1>1, <1>2, <1>4, GivesUpKeeps
<1>5. ASSUME NEW pc \in {"write", "note", "verify", "post"}, Moves(w, pc),
             twk[w].snap = twk[w].ver, pc = "post" => notes = 0
      PROVE  TasksInv'
  <2>1. pc = "post" => notes <= replays
    BY <1>2, <1>5
  <2> QED BY <1>1, <1>2, <1>3, <1>5, <2>1, MovesKeeps
<1>6. CASE ReconcileLifecycle(w)
  <2>1. AfterStage(w) \in {"note", "verify"}
    BY DEF AfterStage
  <2>2. CASE twk[w].snap # twk[w].ver
    <3>1. Retry(w)
      BY <1>6, <2>2 DEF ReconcileLifecycle
    <3> QED BY <1>4, <3>1
  <2>3. CASE twk[w].snap = twk[w].ver
    <3>1. Moves(w, "write") \/ Moves(w, AfterStage(w))
      BY <1>6, <2>3 DEF ReconcileLifecycle
    <3> QED BY <1>5, <2>1, <2>3, <3>1
  <2> QED BY <2>2, <2>3
<1>7. CASE EnsureTerminalNote(w)
  <2>1. twk[w].pc = "note"
    BY <1>7 DEF EnsureTerminalNote, At
  <2>2. \/ Block(w) \/ Moves(w, "verify")
        \/ Moves(w, "post") /\ notes = 0
    <3>1. CASE notes > 1
      BY <1>7, <3>1 DEF EnsureTerminalNote
    <3>2. CASE ~(notes > 1) /\ notes = 1
      BY <1>7, <3>2 DEF EnsureTerminalNote
    <3>3. CASE ~(notes > 1) /\ notes # 1
      BY <1>2, <1>7, <3>3 DEF EnsureTerminalNote
    <3> QED BY <3>1, <3>2, <3>3
  <2> QED BY <1>3, <1>4, <1>5, <2>1, <2>2
<1>8. CASE RecoverTerminalNote(w)
  <2>1. twk[w].pc = "renote"
    BY <1>8 DEF RecoverTerminalNote, At
  <2>2. Block(w) \/ Retry(w) \/ Moves(w, "verify")
    BY <1>8 DEF RecoverTerminalNote
  <2> QED BY <1>3, <1>4, <1>5, <2>1, <2>2
<1> QED BY <1>6, <1>7, <1>8

(* A batch reads everything back and settles its version (mark_delivered). *)
LEMMA VerifyKeeps ==
    ASSUME TasksInv, NEW w \in Batches, Verify(w) PROVE TasksInv'
<1>1. /\ twk[w].pc = "verify" /\ Leases(w) /\ UNCHANGED <<local, odoo, troubles>> /\ Busy(w)
  BY DEF Verify, At, Busy
<1>2. /\ troubles' \in 0..MaxTroubles /\ notes \in 0..MaxCopies /\ MaxCopies \in Nat
      /\ row \in TaskRows /\ twk[w] \in BatchWorks
  BY <1>1, TaskAssumption DEF TasksInv, TaskTypeOK
<1>3. CASE Block(w) \/ Retry(w)
  BY <1>1, <1>2, <1>3, GivesUpKeeps
<1>4. CASE ~(Block(w) \/ Retry(w))
  <2>1. /\ MarkDelivered(w) /\ tasks[row.task] = twk[w].says
        /\ twk[w].says \in Terminal => notes # 0
    BY <1>4 DEF Verify
  <2>2. /\ row.task # NoTask /\ (~Image \/ row.attached)
        /\ twk[w].snap = twk[w].ver
        /\ twk[w].snap = row.desired => twk[w].says = tstatus
    BY <1>1 DEF TasksInv, PlaceInv, Finishing, Settling
  <2>3. /\ row.task \in FoundTasks
        /\ row.attached => shots > 0
    BY <2>2 DEF TasksInv, LedgerInv
  <2>4. row' = [row EXCEPT
                  !.last = twk[w].ver, !.lcon = twk[w].con,
                  !.st = IF row.desired = twk[w].ver /\ row.dcon = twk[w].con
                         THEN "delivered" ELSE "pending",
                  !.owner = NoBatch]
    BY <2>1 DEF MarkDelivered
  <2>5. /\ row' \in TaskRows /\ row'.desired = row.desired /\ row'.task = row.task
        /\ row'.attached = row.attached /\ row'.last = twk[w].ver
        /\ row'.st = IF row.desired = twk[w].ver /\ row.dcon = twk[w].con
                     THEN "delivered" ELSE "pending"
    BY <1>2, <2>4 DEF TaskRows, BatchWorks
  <2>6. row'.st # "in_flight" /\ Drops(w)
    BY <2>1, <2>5 DEF MarkDelivered
  <2>7. /\ tstatus' = tstatus /\ tasks' = tasks /\ shots' = shots /\ notes' = notes
        /\ FoundTasks' = FoundTasks
    BY <1>1 DEF local, odoo, FoundTasks
  <2>8. ASSUME row'.st = "delivered" PROVE DeliveredIsTrue'
    <3>1. row.desired = twk[w].ver /\ twk[w].says = tstatus
      BY <2>2, <2>5, <2>8
    <3>2. tstatus' \in Terminal => notes' > 0
      BY <1>2, <2>1, <2>7, <3>1
    <3>3. row'.last = row'.desired /\ row'.task \in FoundTasks' /\ (Image => shots' > 0)
      BY <2>2, <2>3, <2>5, <2>7, <3>1
    <3>4. tasks'[row'.task] = tstatus'
      BY <2>1, <2>5, <2>7, <3>1
    <3> QED BY <3>2, <3>3, <3>4 DEF DeliveredIsTrue
  <2> QED BY <1>1, <1>2, <2>5, <2>6, <2>8, DropsKeep
<1> QED BY <1>3, <1>4

(* A batch that lost its lease, dies or cannot read Odoo ends.             *)
LEMMA EndsBadlyKeeps ==
    ASSUME TasksInv, NEW w \in Batches, LeaseLost(w) \/ TaskCrash(w) \/ ReadFails(w)
    PROVE  TasksInv'
<1>1. /\ UNCHANGED <<local, odoo>> /\ Busy(w) /\ troubles' \in 0..MaxTroubles
      /\ row \in TaskRows
  BY TroubleIsCounted
     DEF LeaseLost, TaskCrash, ReadFails, Busy, TasksInv, TaskTypeOK
<1>2. CASE ReadFails(w)
  BY <1>1, <1>2, GivesUpKeeps DEF ReadFails
<1>3. CASE LeaseLost(w) \/ TaskCrash(w)
  <2>1. row' = row /\ Drops(w)
    BY <1>3 DEF LeaseLost, TaskCrash
  <2> QED BY <1>1, <2>1, DropsKeep
<1> QED BY <1>2, <1>3

(***************************************************************************)
(* The tasks: the calls                                                    *)
(***************************************************************************)
(* What a call may do to Odoo.                                             *)
LEMMA RunsSays ==
    ASSUME TaskTypeOK, NEW c \in TaskCalls, NEW got \in TaskIds \cup {NoTask},
           Runs(c, got)
    PROVE  /\ tasks' \in [TaskIds -> TaskStatuses \cup {"none"}]
           /\ shots' \in 0..MaxCopies /\ notes' \in 0..MaxCopies
           /\ shots <= shots' /\ notes <= notes' /\ FoundTasks \subseteq FoundTasks'
           /\ c.op = "create" => got \in FoundTasks' /\ FoundTasks' = FoundTasks \cup {got}
           /\ Cardinality(FoundTasks \cup {got}) <= Cardinality(FoundTasks) + 1
           /\ c.op # "create" /\ (c.op = "write" => c.task \in FoundTasks)
                => FoundTasks' = FoundTasks
           /\ shots' = IF c.op = "upload" THEN shots + 1 ELSE shots
           /\ notes' = IF c.op = "post" THEN notes + 1 ELSE notes
<1>1. MaxCopies \in Nat /\ c.op \in Calls /\ c.says \in TaskStatuses
  BY TaskAssumption DEF TaskCalls
<1>2. tasks \in [TaskIds -> TaskStatuses \cup {"none"}]
      /\ shots \in 0..MaxCopies /\ notes \in 0..MaxCopies
  BY DEF TaskTypeOK
<1>3. "none" \notin TaskStatuses /\ "requested" \in TaskStatuses
  BY DEF TaskStatuses
<1>4. Cardinality(FoundTasks \cup {got}) <= Cardinality(FoundTasks) + 1
  BY FoundIsCounted, FS_AddElement
<1>5. CASE c.op = "create"
  <2>1. /\ got \in TaskIds /\ tasks' = [tasks EXCEPT ![got] = "requested"]
        /\ shots' = shots /\ notes' = notes
    BY <1>5 DEF Runs, NewTasks
  <2>2. tasks' \in [TaskIds -> TaskStatuses \cup {"none"}]
    BY <1>2, <1>3, <2>1
  <2>3. tasks'[got] = "requested" /\ \A i \in TaskIds : i # got => tasks'[i] = tasks[i]
    BY <1>2, <2>1
  <2>4. FoundTasks' = FoundTasks \cup {got}
    BY <2>1, <2>3 DEF FoundTasks
  <2> QED BY <1>1, <1>2, <1>4, <1>5, <2>1, <2>2, <2>4
<1>6. CASE c.op \in {"upload", "post"}
  <2>1. tasks' = tasks
    BY <1>6 DEF Runs
  <2>2. FoundTasks' = FoundTasks
    BY <2>1 DEF FoundTasks
  <2>3. /\ shots' = IF c.op = "upload" THEN shots + 1 ELSE shots
        /\ notes' = IF c.op = "post" THEN notes + 1 ELSE notes
        /\ shots' \in 0..MaxCopies /\ notes' \in 0..MaxCopies
    BY <1>1, <1>2, <1>6 DEF Runs
  <2> QED BY <1>1, <1>2, <1>4, <1>6, <2>1, <2>2, <2>3
<1>7. CASE c.op = "write"
  <2>1. /\ tasks' = [tasks EXCEPT ![c.task] = c.says]
        /\ shots' = shots /\ notes' = notes
    BY <1>7 DEF Runs
  <2>2. tasks' \in [TaskIds -> TaskStatuses \cup {"none"}]
    BY <1>1, <1>2, <2>1
  <2>3. \A i \in TaskIds : tasks'[i] = tasks[i] \/ (i = c.task /\ tasks'[i] = c.says)
    BY <1>2, <2>1
  <2>4. FoundTasks \subseteq FoundTasks'
    BY <1>1, <1>3, <2>3 DEF FoundTasks
  <2>5. c.task \in FoundTasks => FoundTasks' \subseteq FoundTasks
    BY <2>3 DEF FoundTasks
  <2> QED BY <1>1, <1>2, <1>4, <1>7, <2>1, <2>2, <2>4, <2>5
<1> QED BY <1>1, <1>5, <1>6, <1>7, <1>4 DEF Calls

LEMMA CallIsTyped ==
    ASSUME TaskTypeOK, NEW w \in Batches, twk[w].pc \in Calls
    PROVE  /\ Call(w) \in TaskCalls /\ Call(w).op = twk[w].pc
           /\ Call(w).task = row.task
<1>1. twk[w].says \in TaskStatuses /\ row.task \in TaskIds \cup {NoTask}
  BY DEF TaskTypeOK, BatchWorks, TaskRows
<1> QED BY <1>1 DEF Call, TaskCalls

(* While a batch waits for an answer, or gives up waiting, Odoo only gains *)
(* a task, a screenshot or a note.                                         *)
LEMMA CallKeepsRows ==
    ASSUME TasksInv, troubles' \in 0..MaxTroubles, replays' \in 0..MaxReplays,
           UNCHANGED <<tstatus, contract, overlap>>, NEW w \in Batches, Busy(w),
           NEW x \in BatchWorks, twk' = [twk EXCEPT ![w] = x],
           row' \in TaskRows, row' # row => row'.st \notin {"in_flight", "delivered"},
           row'.desired = row.desired, row'.task = row.task,
           row'.attached = row.attached,
           tasks' \in [TaskIds -> TaskStatuses \cup {"none"}],
           shots' \in 0..MaxCopies, notes' \in 0..MaxCopies,
           shots <= shots', notes <= notes', FoundTasks \subseteq FoundTasks',
           tlate' \subseteq TaskCalls, slow' \in BOOLEAN, slow => slow',
           PlaceInv(w)'
    PROVE  TaskTypeOK' /\ LedgerInv' /\ (\A v \in Batches : PlaceInv(v)') /\ DeliveredIsTrue'
<1>1. /\ twk' \in [Batches -> BatchWorks] /\ twk'[w] = x
      /\ \A v \in Batches : v # w => twk'[v] = twk[v]
  BY OneBatchMoves DEF TasksInv
<1>2. tstatus' = tstatus /\ contract' = contract /\ overlap' = overlap
  OBVIOUS
<1>3. /\ MaxCopies \in Nat /\ shots \in 0..MaxCopies /\ notes \in 0..MaxCopies
      /\ shots > 0 => shots' > 0
      /\ notes > 0 => notes' > 0
  BY TaskAssumption DEF TasksInv, TaskTypeOK
<1>4. TaskTypeOK'
  BY <1>1, <1>2 DEF TasksInv, TaskTypeOK
<1>5. LedgerInv'
  BY <1>2, <1>3 DEF TasksInv, LedgerInv
<1>6. ASSUME NEW v \in Batches PROVE PlaceInv(v)'
  <2>1. CASE v = w
    BY <2>1
  <2>2. CASE v # w
    <3>1. twk'[v] = twk[v] /\ PlaceInv(v)
      BY <1>1, <2>2 DEF TasksInv
    <3> QED BY <1>2, <1>3, <3>1 DEF PlaceInv
  <2> QED BY <2>1, <2>2
<1>7. DeliveredIsTrue'
  <2> SUFFICES ASSUME row'.st = "delivered" PROVE DeliveredIsTrue'
    BY DEF DeliveredIsTrue
  <2>1. row' = row /\ DeliveredIsTrue
    BY DEF TasksInv
  <2>2. slow' \/ overlap'
    BY <1>2, <2>1 DEF TasksInv, AloneInv
  <2> QED BY <1>2, <1>3, <2>1, <2>2 DEF DeliveredIsTrue
<1> QED BY <1>4, <1>5, <1>6, <1>7

(* And still does when a call has run.                                     *)
LEMMA FoundStaysCounted ==
    ASSUME NEW got
    PROVE  /\ Cardinality(FoundTasks') \in Nat
           /\ Cardinality(FoundTasks \cup {got}) \in Nat
<1>1. IsFiniteSet(FoundTasks')
  <2>1. IsFiniteSet(TaskIds)
    BY TaskAssumption, FS_Interval DEF TaskIds
  <2> QED BY <2>1, FS_Subset DEF FoundTasks
<1>2. IsFiniteSet(FoundTasks \cup {got})
  BY FoundIsCounted, FS_AddElement
<1> QED BY <1>1, <1>2, FS_CardinalityType

(* Odoo runs a call whose batch is there, answered or not.                 *)
LEMMA CallKeeps ==
    ASSUME TasksInv, troubles' \in 0..MaxTroubles, UNCHANGED <<local, tlate, slow>>,
           NEW w \in Batches, twk[w].pc \in Calls,
           NEW got \in TaskIds \cup {NoTask}, Runs(Call(w), got),
           NEW x \in BatchWorks, twk' = [twk EXCEPT ![w] = x], x.pc \notin Calls,
           row' \in TaskRows,
           row' # row => Leases(w) /\ row'.st \notin {"in_flight", "delivered"},
           row'.desired = row.desired, row'.task = row.task,
           row'.attached = row.attached,
           PlaceInv(w)'
    PROVE  TasksInv'
<1>1. /\ twk' \in [Batches -> BatchWorks] /\ twk'[w] = x
      /\ \A v \in Batches : v # w => twk'[v] = twk[v]
  BY OneBatchMoves DEF TasksInv
<1>2. Busy(w) /\ Call(w) \in TaskCalls /\ Call(w).op = twk[w].pc /\ Call(w).task = row.task
  BY CallIsTyped DEF TasksInv, Busy, Calls
<1>3. twk[w].pc \in {"upload", "write", "post"} => row.task # NoTask /\ row.task \in FoundTasks
  BY DEF TasksInv, PlaceInv, LedgerInv, Attaching, Finishing, Settling
<1>4. /\ tasks' \in [TaskIds -> TaskStatuses \cup {"none"}]
      /\ shots' \in 0..MaxCopies /\ notes' \in 0..MaxCopies
      /\ shots <= shots' /\ notes <= notes' /\ FoundTasks \subseteq FoundTasks'
      /\ twk[w].pc = "create" => FoundTasks' = FoundTasks \cup {got}
      /\ Cardinality(FoundTasks \cup {got}) <= Cardinality(FoundTasks) + 1
      /\ twk[w].pc # "create" => FoundTasks' = FoundTasks
      /\ shots' = IF twk[w].pc = "upload" THEN shots + 1 ELSE shots
      /\ notes' = IF twk[w].pc = "post" THEN notes + 1 ELSE notes
  BY <1>2, <1>3, RunsSays DEF TasksInv
<1>5. /\ slow' = slow /\ tlate' = tlate /\ overlap' = overlap
      /\ slow \in BOOLEAN /\ tlate \subseteq TaskCalls
      /\ replays' = replays /\ replays \in 0..MaxReplays
      /\ shots \in Nat /\ notes \in Nat /\ replays \in Nat
      /\ Cardinality(FoundTasks) \in Nat /\ Cardinality(FoundTasks') \in Nat
      /\ Cardinality(FoundTasks \cup {got}) \in Nat
  BY CopiesAreCounted, FoundIsCounted, FoundStaysCounted DEF local, TasksInv, TaskTypeOK
<1>6. TaskTypeOK' /\ LedgerInv' /\ (\A v \in Batches : PlaceInv(v)') /\ DeliveredIsTrue'
  <2>1. UNCHANGED <<tstatus, contract, overlap>> /\ replays' \in 0..MaxReplays /\ (row' # row => row'.st \notin {"in_flight", "delivered"})
    BY <1>5 DEF local
  <2>2. slow' \in BOOLEAN /\ tlate' \subseteq TaskCalls
    BY <1>5
  <2>3. slow => slow'
    BY <1>5
  <2> QED BY <1>2, <1>4, <2>1, <2>2, <2>3, CallKeepsRows
<1>7. CreateInv'
  <2> SUFFICES ASSUME ~slow
               PROVE  /\ tlate = {} /\ Cardinality(FoundTasks') <= 1 + replays
                      /\ \A v \in Batches : twk'[v].pc # "create"
    BY <1>5 DEF CreateInv
  <2>1. /\ tlate = {} /\ Cardinality(FoundTasks) <= 1 + replays
        /\ \A v \in Batches : twk[v].pc = "create" =>
               Leases(v) /\ row.task = NoTask /\ Cardinality(FoundTasks) <= replays
    BY DEF TasksInv, CreateInv
  <2>2. Cardinality(FoundTasks') <= 1 + replays
    BY <1>4, <1>5, <2>1
  <2>3. ASSUME NEW v \in Batches, v # w PROVE twk[v].pc # "create"
    BY <1>3, <2>1, <2>3 DEF Calls, Leases
  <2> QED BY <1>1, <2>1, <2>2, <2>3 DEF Calls
<1>8. AloneInv'
  <2> SUFFICES ASSUME ~slow, ~overlap
               PROVE  /\ \A u, v \in Batches : Busy(u)' /\ Busy(v)' => u = v
                      /\ shots' <= 1 + replays /\ notes' <= 1 + replays
                      /\ \A v \in Batches : twk'[v].pc \notin {"upload", "post"}
                      /\ row'.st # "delivered"
    BY <1>5 DEF AloneInv
  <2>1. /\ \A u, v \in Batches : Busy(u) /\ Busy(v) => u = v
        /\ shots <= 1 + replays /\ notes <= 1 + replays
        /\ \A v \in Batches : /\ twk[v].pc = "upload" => shots <= replays
                              /\ twk[v].pc = "post" => notes <= replays
        /\ row.st = "delivered" => \A v \in Batches : ~Busy(v)
    BY DEF TasksInv, AloneInv
  <2>2. \A v \in Batches : v # w => ~Busy(v) /\ ~Busy(v)'
    BY <1>1, <1>2, <2>1 DEF Busy
  <2>3. shots' <= 1 + replays /\ notes' <= 1 + replays
    BY <1>4, <1>5, <2>1
  <2> QED BY <1>1, <1>2, <2>1, <2>2, <2>3 DEF Busy, Calls
<1> QED BY <1>6, <1>7, <1>8 DEF TasksInv

(* Odoo answers the call (_deliver_task, _deliver_before_attachment,       *)
(* _reconcile_task_lifecycle).                                             *)
LEMMA CallLandsKeeps ==
    ASSUME TasksInv, NEW w \in Batches, CallLands(w) PROVE TasksInv'
<1>1. PICK got \in TaskIds \cup {NoTask} :
         /\ Runs(Call(w), got)
         /\ twk' = [twk EXCEPT ![w].pc = Answered(w), ![w].got = got]
  BY DEF CallLands
<1>2. /\ twk[w].pc \in Calls /\ UNCHANGED <<local, tlate, slow>>
      /\ row' = row /\ row \in TaskRows /\ troubles' \in 0..MaxTroubles
      /\ twk[w] \in BatchWorks
  BY DEF CallLands, TasksInv, TaskTypeOK
<1>3. /\ Answered(w) \in {"created", "uploaded", "note", "verify"}
      /\ twk[w].pc = "create" <=> Answered(w) = "created"
      /\ twk[w].pc = "upload" <=> Answered(w) = "uploaded"
  BY <1>2 DEF Answered, AfterStage, Calls
<1> DEFINE x == [twk[w] EXCEPT !.pc = Answered(w), !.got = got]
<1>4. /\ x \in BatchWorks /\ x.pc = Answered(w) /\ x.got = got
      /\ x.ver = twk[w].ver /\ x.snap = twk[w].snap /\ x.says = twk[w].says
  <2>1. Answered(w) \in Places
    BY <1>3 DEF Places
  <2> QED BY <1>2, <2>1 DEF BatchWorks
<1>5. twk' = [twk EXCEPT ![w] = x]
  BY <1>1
<1> HIDE DEF x
<1>6. twk'[w] = x
  BY <1>4, <1>5, OneBatchMoves DEF TasksInv
<1>7. /\ Call(w) \in TaskCalls /\ Call(w).op = twk[w].pc /\ Call(w).task = row.task
  BY <1>2, CallIsTyped DEF TasksInv
<1>8. /\ twk[w].pc = "create" => got \in FoundTasks'
      /\ twk[w].pc = "upload" => shots' > 0
  <2>1. shots \in Nat
    BY TaskAssumption DEF TasksInv, TaskTypeOK
  <2>2. /\ twk[w].pc = "create" => got \in FoundTasks'
        /\ shots' = IF twk[w].pc = "upload" THEN shots + 1 ELSE shots
    BY <1>1, <1>7, RunsSays DEF TasksInv
  <2> QED BY <2>1, <2>2
<1>9. PlaceInv(w)'
  <2>1. /\ twk[w].pc \in {"upload", "write", "post"} => row.task # NoTask
        /\ twk[w].pc \in {"write", "post"} =>
              (~Image \/ row.attached) /\ twk[w].snap = twk[w].ver
        /\ twk[w].snap <= row.desired
        /\ twk[w].snap = row.desired => twk[w].says = tstatus
    BY <1>2 DEF TasksInv, PlaceInv, Attaching, Finishing, Settling, Calls
  <2>2. tstatus' = tstatus
    BY <1>2 DEF local
  <2> QED BY <1>2, <1>3, <1>4, <1>6, <1>8, <2>1, <2>2
          DEF PlaceInv, Attaching, Finishing, Settling, Calls
<1>10. x.pc \notin Calls
  BY <1>3, <1>4 DEF Calls
<1> QED BY <1>1, <1>2, <1>4, <1>5, <1>9, <1>10, CallKeeps

(* No answer comes, and Odoo ran the call, did not, or will.               *)
LEMMA AnswerIsLost ==
    ASSUME TasksInv, NEW w \in Batches, TaskAnswerLost(w) PROVE TasksInv'
<1>1. /\ twk[w].pc \in Calls /\ UNCHANGED local /\ Busy(w)
      /\ troubles' \in 0..MaxTroubles /\ row \in TaskRows /\ LedgerInv /\ PlaceInv(w)
      /\ twk[w] \in BatchWorks
  BY TroubleIsCounted DEF TaskAnswerLost, TasksInv, TaskTypeOK, Busy, Calls
<1>2. \/ \E pc \in {"recheck", "reshot", "renote"} :
             /\ Moves(w, pc)
             /\ pc = "reshot" => twk[w].pc = "upload"
             /\ pc = "renote" => twk[w].pc = "post"
      \/ Retry(w) /\ Leases(w)
      \/ Drops(w) /\ UNCHANGED row
  BY <1>1 DEF TaskAnswerLost, Calls
<1> DEFINE Left(x) ==
         /\ twk' = [twk EXCEPT ![w] = x]
         /\ x.pc \in {"recheck", "reshot", "renote", "idle"}
         /\ x.pc = "reshot" => twk[w].pc = "upload"
         /\ x.pc = "renote" => twk[w].pc = "post"
         /\ x.pc # "idle" => /\ x.ver = twk[w].ver /\ x.snap = twk[w].snap
                             /\ x.says = twk[w].says
<1>3. \E x \in BatchWorks : Left(x)
  <2>1. ASSUME NEW pc \in {"recheck", "reshot", "renote"}, Moves(w, pc),
               pc = "reshot" => twk[w].pc = "upload",
               pc = "renote" => twk[w].pc = "post"
        PROVE  \E x \in BatchWorks : Left(x)
    <3>1. pc \in Places /\ GoesOn(w, pc)
      BY <2>1 DEF Places, Moves
    <3>2. PICK x \in BatchWorks :
             /\ twk' = [twk EXCEPT ![w] = x]
             /\ x.pc = pc /\ x.ver = twk[w].ver /\ x.con = twk[w].con
             /\ x.says = twk[w].says /\ x.snap = twk[w].snap /\ x.got = twk[w].got
      BY <3>1, GoesOnSays DEF TasksInv
    <3> QED BY <2>1, <3>2
  <2>2. CASE Drops(w)
    <3>1. twk' = [twk EXCEPT ![w] = IdleBatch] /\ IdleBatch \in BatchWorks
          /\ IdleBatch.pc = "idle"
      BY <2>2, BatchesAreTyped DEF Drops
    <3> QED BY <3>1
  <2> QED BY <1>2, <2>1, <2>2 DEF Retry
<1>4. PICK x \in BatchWorks : Left(x)
  BY <1>3
<1>5. /\ row' \in TaskRows /\ row'.desired = row.desired /\ row'.task = row.task
      /\ row'.attached = row.attached
      /\ row' # row => Leases(w) /\ row'.st \notin {"in_flight", "delivered"}
  <2>1. \/ row' = row
        \/ row' = [row EXCEPT !.st = "attention", !.wait = TRUE, !.owner = NoBatch] /\ Leases(w)
    BY <1>2 DEF Moves, Retry
  <2> QED BY <1>1, <2>1 DEF TaskRows
<1>6. twk'[w] = x
  BY <1>4, OneBatchMoves DEF TasksInv
<1>7. PlaceInv(w)'
  <2>1. tstatus' = tstatus
    BY <1>1 DEF local
  <2> QED BY <1>1, <1>4, <1>5, <1>6, <2>1
          DEF PlaceInv, Attaching, Finishing, Settling, Calls
<1>8. x.pc \notin Calls
  BY <1>4 DEF Calls
<1>9. CASE UNCHANGED odoo
  <2>1. /\ row'.st = "in_flight" => row'.owner \in Batches
        /\ row'.task # NoTask => row'.task \in FoundTasks
        /\ row'.attached => shots > 0
    BY <1>1, <1>5 DEF LedgerInv
  <2>2. UNCHANGED <<local, odoo>>
    BY <1>1, <1>9
  <2>3. /\ x.pc # "create" /\ x.pc # "upload" /\ x.pc # "post"
        /\ row' # row => Leases(w)
        /\ ~(row'.st = "delivered" /\ row' # row)
    BY <1>5, <1>8 DEF Calls
  <2> QED BY <1>1, <1>4, <1>5, <1>7, <2>1, <2>2, <2>3, BatchKeeps
<1>10. CASE (\E got \in TaskIds \cup {NoTask} : Runs(Call(w), got)) /\ UNCHANGED <<tlate, slow>>
  <2>1. PICK got \in TaskIds \cup {NoTask} : Runs(Call(w), got)
    BY <1>10
  <2> QED BY <1>1, <1>4, <1>5, <1>7, <1>8, <1>10, <2>1, CallKeeps
<1>11. CASE /\ tlate' = tlate \cup {Call(w)} /\ slow' = TRUE
            /\ UNCHANGED <<tasks, shots, notes>>
  <2>1. /\ tasks' \in [TaskIds -> TaskStatuses \cup {"none"}]
        /\ shots' \in 0..MaxCopies /\ notes' \in 0..MaxCopies
        /\ tlate \subseteq TaskCalls
    BY <1>11 DEF TasksInv, TaskTypeOK
  <2>2. shots <= shots' /\ notes <= notes'
    <3>1. shots \in Int /\ notes \in Int
      BY TaskAssumption DEF TasksInv, TaskTypeOK
    <3> QED BY <1>11, <3>1
  <2>3. FoundTasks \subseteq FoundTasks'
    BY <1>11 DEF FoundTasks
  <2>4. tlate' \subseteq TaskCalls /\ slow' \in BOOLEAN /\ (slow => slow')
    BY <1>1, <1>11, <2>1, CallIsTyped DEF TasksInv
  <2>5. row' # row => row'.st \notin {"in_flight", "delivered"}
    BY <1>5
  <2>6. TaskTypeOK' /\ LedgerInv' /\ (\A v \in Batches : PlaceInv(v)') /\ DeliveredIsTrue'
    <3>1. UNCHANGED <<tstatus, contract, overlap>> /\ replays' \in 0..MaxReplays
      BY <1>1 DEF local, TasksInv, TaskTypeOK
    <3> QED BY <1>1, <1>4, <1>5, <1>7, <2>1, <2>2, <2>3, <2>4, <2>5, <3>1, CallKeepsRows
  <2>7. CreateInv' /\ AloneInv'
    BY <1>11 DEF CreateInv, AloneInv
  <2> QED BY <2>6, <2>7 DEF TasksInv
<1> QED BY <1>9, <1>10, <1>11 DEF TaskAnswerLost

(* The HTTP client sends a call again, and Odoo ran the first one, did not,*)
(* or will (odoo_client.py:75-98).                                         *)
LEMMA ReplayKeeps ==
    ASSUME TasksInv, NEW w \in Batches, CallReplayed(w) PROVE TasksInv'
<1>1. /\ twk[w].pc \in Calls /\ Busy(w) /\ twk[w] \in BatchWorks
      /\ row' = row /\ twk' = twk /\ twk' = [twk EXCEPT ![w] = twk[w]]
      /\ tstatus' = tstatus /\ contract' = contract /\ overlap' = overlap
      /\ row \in TaskRows /\ LedgerInv /\ PlaceInv(w)
  BY DEF CallReplayed, TasksInv, TaskTypeOK, Busy, Calls
<1>2. /\ troubles' \in 0..MaxTroubles
      /\ replays' = replays + 1 /\ replays' \in 0..MaxReplays /\ replays \in Nat
  <2>1. replays \in 0..MaxReplays /\ MaxReplays \in Nat
    BY TaskAssumption DEF TasksInv, TaskTypeOK
  <2> QED BY <2>1, TroubleIsCounted DEF CallReplayed, TasksInv
<1>3. /\ Call(w) \in TaskCalls /\ Call(w).op = twk[w].pc /\ Call(w).task = row.task
  BY <1>1, CallIsTyped DEF TasksInv
<1>4. twk[w].pc \in {"upload", "write", "post"} => row.task # NoTask /\ row.task \in FoundTasks
  BY DEF TasksInv, PlaceInv, LedgerInv, Attaching, Finishing, Settling
<1>5. /\ shots \in Nat /\ notes \in Nat /\ Cardinality(FoundTasks) \in Nat
      /\ Cardinality(FoundTasks') \in Nat
      /\ tasks \in [TaskIds -> TaskStatuses \cup {"none"}]
      /\ shots \in 0..MaxCopies /\ notes \in 0..MaxCopies
      /\ tlate \subseteq TaskCalls /\ slow \in BOOLEAN
  BY CopiesAreCounted, FoundIsCounted, FoundStaysCounted DEF TasksInv, TaskTypeOK
<1>6. /\ tasks' \in [TaskIds -> TaskStatuses \cup {"none"}]
      /\ shots' \in 0..MaxCopies /\ notes' \in 0..MaxCopies
      /\ shots <= shots' /\ notes <= notes' /\ FoundTasks \subseteq FoundTasks'
      /\ twk[w].pc # "create" => FoundTasks' = FoundTasks
      /\ Cardinality(FoundTasks') <= Cardinality(FoundTasks) + 1
      /\ shots' # shots => twk[w].pc = "upload" /\ shots' = shots + 1
      /\ notes' # notes => twk[w].pc = "post" /\ notes' = notes + 1
  <2>1. CASE /\ \E got \in TaskIds \cup {NoTask} : Runs(Call(w), got)
             /\ UNCHANGED <<tlate, slow>>
    <3>1. PICK got \in TaskIds \cup {NoTask} : Runs(Call(w), got)
      BY <2>1
    <3>2. /\ tasks' \in [TaskIds -> TaskStatuses \cup {"none"}]
          /\ shots' \in 0..MaxCopies /\ notes' \in 0..MaxCopies
          /\ shots <= shots' /\ notes <= notes' /\ FoundTasks \subseteq FoundTasks'
          /\ twk[w].pc = "create" => FoundTasks' = FoundTasks \cup {got}
          /\ Cardinality(FoundTasks \cup {got}) <= Cardinality(FoundTasks) + 1
          /\ twk[w].pc # "create" => FoundTasks' = FoundTasks
          /\ shots' = IF twk[w].pc = "upload" THEN shots + 1 ELSE shots
          /\ notes' = IF twk[w].pc = "post" THEN notes + 1 ELSE notes
      BY <1>3, <1>4, <3>1, RunsSays DEF TasksInv
    <3>3. Cardinality(FoundTasks') <= Cardinality(FoundTasks) + 1
      BY <1>5, <3>2
    <3> QED BY <1>5, <2>1, <3>2, <3>3
  <2>2. CASE UNCHANGED <<tasks, shots, notes>>
    <3>1. FoundTasks' = FoundTasks
      BY <2>2 DEF FoundTasks
    <3> QED BY <1>3, <1>5, <2>2, <3>1
  <2> QED BY <2>1, <2>2 DEF CallReplayed, odoo
<1>7. \/ UNCHANGED <<tlate, slow>>
      \/ tlate' = tlate \cup {Call(w)} /\ slow' = TRUE
  BY DEF CallReplayed, odoo
<1>8. /\ tlate' \subseteq TaskCalls /\ slow' \in BOOLEAN /\ (slow => slow')
      /\ ~slow' => tlate' = tlate
  <2>1. tlate' \subseteq TaskCalls
    BY <1>3, <1>5, <1>7
  <2>2. slow' \in BOOLEAN /\ (slow => slow') /\ (~slow' => tlate' = tlate)
    BY <1>5, <1>7, Zenon
  <2> QED BY <2>1, <2>2
<1>9. PlaceInv(w)'
  <2>1. shots > 0 => shots' > 0
    BY <1>5, <1>6
  <2> QED BY <1>1, <1>6, <2>1 DEF PlaceInv
<1>10. TaskTypeOK' /\ LedgerInv' /\ (\A v \in Batches : PlaceInv(v)') /\ DeliveredIsTrue'
  BY <1>1, <1>2, <1>6, <1>9, <1>8, CallKeepsRows
<1>11. CreateInv'
  <2> SUFFICES ASSUME ~slow'
               PROVE  /\ tlate' = {} /\ Cardinality(FoundTasks') <= 1 + replays'
                      /\ \A v \in Batches : twk[v].pc = "create" =>
                             /\ Leases(v) /\ row.task = NoTask
                             /\ Cardinality(FoundTasks') <= replays'
    BY <1>1 DEF CreateInv, Leases
  <2>1. /\ tlate = {} /\ Cardinality(FoundTasks) <= 1 + replays
        /\ \A v \in Batches : twk[v].pc = "create" =>
               Leases(v) /\ row.task = NoTask /\ Cardinality(FoundTasks) <= replays
    BY <1>8 DEF TasksInv, CreateInv
  <2>2. tlate' = {}
    BY <1>8, <2>1
  <2>3. CASE twk[w].pc = "create"
    <3>1. Cardinality(FoundTasks') <= replays'
      BY <1>2, <1>5, <1>6, <2>1, <2>3
    <3> QED BY <1>2, <1>5, <2>1, <2>2, <3>1
  <2>4. CASE twk[w].pc # "create"
    BY <1>2, <1>5, <1>6, <2>1, <2>2, <2>4
  <2> QED BY <2>3, <2>4
<1>12. AloneInv'
  <2> SUFFICES ASSUME ~slow', ~overlap
               PROVE  /\ \A u, v \in Batches : Busy(u) /\ Busy(v) => u = v
                      /\ shots' <= 1 + replays' /\ notes' <= 1 + replays'
                      /\ \A v \in Batches : /\ twk[v].pc = "upload" => shots' <= replays'
                                            /\ twk[v].pc = "post" => notes' <= replays'
                      /\ row.st = "delivered" => \A v \in Batches : ~Busy(v)
    BY <1>1 DEF AloneInv, Busy
  <2>1. /\ \A u, v \in Batches : Busy(u) /\ Busy(v) => u = v
        /\ shots <= 1 + replays /\ notes <= 1 + replays
        /\ \A v \in Batches : /\ twk[v].pc = "upload" => shots <= replays
                              /\ twk[v].pc = "post" => notes <= replays
        /\ row.st = "delivered" => \A v \in Batches : ~Busy(v)
    BY <1>8 DEF TasksInv, AloneInv
  <2>2. shots' <= 1 + replays' /\ notes' <= 1 + replays'
    BY <1>2, <1>5, <1>6, <2>1
  <2>3. ASSUME NEW v \in Batches
        PROVE  /\ twk[v].pc = "upload" => shots' <= replays'
               /\ twk[v].pc = "post" => notes' <= replays'
    BY <1>2, <1>5, <1>6, <2>1
  <2> QED BY <2>1, <2>2, <2>3
<1> QED BY <1>10, <1>11, <1>12 DEF TasksInv

(* A call nobody waits for lands.                                          *)
LEMMA LateCallKeeps ==
    ASSUME TasksInv, CallLandsLate PROVE TasksInv'
<1>1. PICK c \in tlate, got \in TaskIds \cup {NoTask} :
         Runs(c, got) /\ tlate' = tlate \ {c} /\ UNCHANGED <<local, slow, row, twk, troubles>>
  BY DEF CallLandsLate
<1>2. c \in TaskCalls /\ slow
  BY DEF TasksInv, TaskTypeOK, CreateInv
<1>3. /\ tasks' \in [TaskIds -> TaskStatuses \cup {"none"}]
      /\ shots' \in 0..MaxCopies /\ notes' \in 0..MaxCopies
      /\ shots <= shots' /\ notes <= notes' /\ FoundTasks \subseteq FoundTasks'
  BY <1>1, <1>2, RunsSays DEF TasksInv
<1>4. /\ MaxCopies \in Nat /\ shots \in 0..MaxCopies /\ notes \in 0..MaxCopies
      /\ shots > 0 => shots' > 0
      /\ notes > 0 => notes' > 0
  BY <1>3, TaskAssumption DEF TasksInv, TaskTypeOK
<1>5. /\ tstatus' = tstatus /\ contract' = contract /\ overlap' = overlap
      /\ replays' = replays
  BY <1>1 DEF local
<1>6. TaskTypeOK'
  BY <1>1, <1>3, <1>5 DEF TasksInv, TaskTypeOK
<1>7. LedgerInv'
  BY <1>1, <1>3, <1>4, <1>5 DEF TasksInv, LedgerInv
<1>8. ASSUME NEW v \in Batches PROVE PlaceInv(v)'
  <2>1. PlaceInv(v)
    BY DEF TasksInv
  <2> QED BY <1>1, <1>3, <1>4, <1>5, <2>1 DEF PlaceInv
<1>9. DeliveredIsTrue'
  BY <1>1, <1>2, <1>3, <1>4, <1>5 DEF TasksInv, DeliveredIsTrue
<1>10. CreateInv' /\ AloneInv'
  BY <1>1, <1>2 DEF CreateInv, AloneInv
<1> QED BY <1>6, <1>7, <1>8, <1>9, <1>10 DEF TasksInv

(***************************************************************************)
(* The tasks: the row and the world around it                              *)
(***************************************************************************)
(* A row that is taken back, or due again, with what it records.           *)
LEMMA RowKeeps ==
    ASSUME TasksInv, troubles' \in 0..MaxTroubles, UNCHANGED <<local, odoo, twk>>,
           row' \in TaskRows, row'.desired = row.desired, row'.last = row.last,
           row'.task = row.task, row'.attached = row.attached,
           \/ row'.st = "pending"
           \/ row'.st = row.st /\ row'.owner = row.owner,
           \A w \in Batches : twk[w].pc = "create" /\ Leases(w) /\ row.task = NoTask
                                => Leases(w)'
    PROVE  TasksInv'
<1>1. /\ tstatus' = tstatus /\ contract' = contract /\ overlap' = overlap
      /\ replays' = replays
      /\ tasks' = tasks /\ shots' = shots /\ notes' = notes /\ tlate' = tlate /\ slow' = slow
      /\ twk' = twk
  BY DEF local, odoo
<1>2. FoundTasks' = FoundTasks
  BY <1>1 DEF FoundTasks
<1>3. TaskTypeOK'
  BY <1>1 DEF TasksInv, TaskTypeOK
<1>4. LedgerInv'
  BY <1>1, <1>2 DEF TasksInv, LedgerInv
<1>5. ASSUME NEW v \in Batches PROVE PlaceInv(v)'
  BY <1>1, <1>2 DEF TasksInv, PlaceInv
<1>6. CreateInv'
  BY <1>1, <1>2 DEF TasksInv, CreateInv
<1>7. AloneInv'
  BY <1>1 DEF TasksInv, AloneInv, Busy
<1>8. DeliveredIsTrue'
  BY <1>1, <1>2 DEF TasksInv, DeliveredIsTrue
<1> QED BY <1>3, <1>4, <1>5, <1>6, <1>7, <1>8 DEF TasksInv

(* The delay passes, a lease runs out, a batch queues what lags.           *)
LEMMA RowStepsKeep ==
    ASSUME TasksInv,
           DelayPasses \/ LeaseOutrun \/ \E w \in Batches : QueueMismatch(w)
    PROVE  TasksInv'
<1>1. /\ row \in TaskRows /\ contract \in 1..MaxContract /\ troubles \in 0..MaxTroubles
      /\ UNCHANGED <<local, odoo, twk>>
  BY DEF TasksInv, TaskTypeOK, DelayPasses, LeaseOutrun, QueueMismatch
<1>2. CASE DelayPasses
  <2>1. row' = [row EXCEPT !.wait = FALSE] /\ troubles' = troubles
    BY <1>2 DEF DelayPasses
  <2>2. /\ row' \in TaskRows /\ row'.desired = row.desired /\ row'.last = row.last
        /\ row'.task = row.task /\ row'.attached = row.attached
        /\ row'.st = row.st /\ row'.owner = row.owner
    BY <1>1, <2>1 DEF TaskRows
  <2>3. \A w \in Batches : Leases(w) => Leases(w)'
    BY <2>2 DEF Leases
  <2> QED BY <1>1, <2>1, <2>2, <2>3, RowKeeps
<1>3. CASE LeaseOutrun
  <2>1. /\ row' = [row EXCEPT !.st = "pending", !.owner = NoBatch]
        /\ row.st = "in_flight" /\ twk[row.owner].pc \notin {"idle"} \cup Calls
        /\ troubles' \in 0..MaxTroubles
    BY <1>3, TroubleIsCounted DEF LeaseOutrun, TasksInv
  <2>2. /\ row' \in TaskRows /\ row'.desired = row.desired /\ row'.last = row.last
        /\ row'.task = row.task /\ row'.attached = row.attached
        /\ row'.st = "pending"
    BY <1>1, <2>1 DEF TaskRows
  <2>3. \A w \in Batches : twk[w].pc = "create" => ~Leases(w)
    BY <2>1 DEF Leases, Calls
  <2> QED BY <1>1, <2>1, <2>2, <2>3, RowKeeps
<1>4. CASE \E w \in Batches : QueueMismatch(w)
  <2>1. /\ row' = [row EXCEPT !.st = "pending", !.wait = FALSE, !.owner = NoBatch,
                              !.dcon = contract]
        /\ row.task # NoTask /\ troubles' = troubles
    BY <1>4 DEF QueueMismatch
  <2>2. /\ row' \in TaskRows /\ row'.desired = row.desired /\ row'.last = row.last
        /\ row'.task = row.task /\ row'.attached = row.attached
        /\ row'.st = "pending"
    BY <1>1, <2>1 DEF TaskRows
  <2> QED BY <1>1, <2>1, <2>2, RowKeeps
<1> QED BY <1>2, <1>3, <1>4

(* The feedback changes (enqueue_lifecycle).                               *)
LEMMA MovedKeeps ==
    ASSUME TasksInv, Moved PROVE TasksInv'
<1>1. PICK s \in MovesTo(tstatus) :
        /\ tstatus' = s
        /\ row' = [row EXCEPT !.desired = @ + 1, !.dcon = contract,
                              !.wait = FALSE,
                              !.st = IF @ \in {"in_flight", "blocked"}
                                     THEN @ ELSE "pending"]
        /\ UNCHANGED <<contract, overlap, replays, odoo, twk, troubles>>
  BY DEF Moved
<1>2. /\ row \in TaskRows /\ contract \in 1..MaxContract /\ tstatus \in TaskStatuses
      /\ LedgerInv
  BY DEF TasksInv, TaskTypeOK
<1>3. /\ tstatus \in {"requested", "in_progress"} /\ s \in TaskStatuses
      /\ s # "requested" /\ (tstatus = "in_progress" => s # "in_progress")
  BY <1>1, <1>2, FeedbackMovesOn
<1>4. /\ row.desired \in {1, 2} /\ row.desired + 1 \in 1..3
      /\ s = "in_progress" => row.desired = 1
  BY <1>2, <1>3 DEF LedgerInv
<1>5. /\ row' \in TaskRows /\ row'.desired = row.desired + 1 /\ row'.last = row.last
      /\ row'.task = row.task /\ row'.attached = row.attached
      /\ row'.owner = row.owner /\ row'.st # "delivered"
      /\ row'.st = "in_flight" <=> row.st = "in_flight"
  <2>1. DEFINE st == IF row.st \in {"in_flight", "blocked"} THEN row.st ELSE "pending"
  <2>2. row' = [row EXCEPT !.desired = row.desired + 1, !.dcon = contract,
                           !.wait = FALSE, !.st = st]
    BY <1>1
  <2>3. /\ st \in {"pending", "in_flight", "blocked"}
        /\ st = "in_flight" <=> row.st = "in_flight"
    OBVIOUS
  <2> HIDE DEF st
  <2> QED BY <1>2, <1>4, <2>2, <2>3 DEF TaskRows
<1>6. /\ contract' = contract /\ overlap' = overlap /\ troubles' = troubles
      /\ replays' = replays
      /\ tasks' = tasks /\ shots' = shots /\ notes' = notes /\ tlate' = tlate /\ slow' = slow
      /\ twk' = twk
  BY <1>1 DEF odoo
<1>7. FoundTasks' = FoundTasks
  BY <1>6 DEF FoundTasks
<1>8. TaskTypeOK'
  BY <1>1, <1>3, <1>5, <1>6 DEF TasksInv, TaskTypeOK
<1>9. LedgerInv'
  BY <1>1, <1>2, <1>3, <1>4, <1>5, <1>6, <1>7 DEF LedgerInv
<1>10. ASSUME NEW v \in Batches PROVE PlaceInv(v)'
  <2>1. PlaceInv(v) /\ twk[v].snap \in 0..3
    BY DEF TasksInv, TaskTypeOK, BatchWorks
  <2> QED BY <1>4, <1>5, <1>6, <1>7, <2>1 DEF PlaceInv
<1>11. CreateInv'
  BY <1>5, <1>6, <1>7 DEF TasksInv, CreateInv, Leases
<1>12. AloneInv'
  BY <1>5, <1>6 DEF TasksInv, AloneInv, Busy
<1>13. DeliveredIsTrue'
  BY <1>5 DEF DeliveredIsTrue
<1> QED BY <1>8, <1>9, <1>10, <1>11, <1>12, <1>13 DEF TasksInv

(* A release raises the contract.                                          *)
LEMMA ReleaseKeeps ==
    ASSUME TasksInv, Release PROVE TasksInv'
<1>1. /\ contract' = contract + 1 /\ contract < MaxContract
      /\ UNCHANGED <<tstatus, overlap, replays, row, twk, troubles, tasks, shots, notes,
                     tlate, slow>>
  BY DEF Release, odoo
<1>2. contract' \in 1..MaxContract
  BY <1>1, BatchesAreTyped DEF TasksInv, TaskTypeOK
<1>3. FoundTasks' = FoundTasks
  BY <1>1 DEF FoundTasks
<1>4. TaskTypeOK'
  BY <1>1, <1>2 DEF TasksInv, TaskTypeOK
<1>5. LedgerInv' /\ \A v \in Batches : PlaceInv(v)'
  BY <1>1, <1>3 DEF TasksInv, LedgerInv, PlaceInv
<1>6. CreateInv' /\ AloneInv' /\ DeliveredIsTrue'
  BY <1>1, <1>3 DEF TasksInv, CreateInv, AloneInv, DeliveredIsTrue, Leases, Busy
<1> QED BY <1>4, <1>5, <1>6 DEF TasksInv

(* A batch takes the row that is due, or whose batch is dead (claim_due).  *)
LEMMA ClaimTaskKeeps ==
    ASSUME TasksInv, NEW w \in Batches, ClaimTask(w) PROVE TasksInv'
<1> DEFINE x == [IdleBatch EXCEPT !.pc = "load", !.ver = row.desired, !.con = row.dcon]
<1>1. /\ twk[w].pc = "idle"
      /\ (row.st \in {"pending", "attention"}) \/ Dead
      /\ row' = [row EXCEPT !.st = "in_flight", !.owner = w]
      /\ twk' = [twk EXCEPT ![w] = x]
      /\ overlap' = (overlap \/ \E v \in Batches : twk[v].pc # "idle")
  BY DEF ClaimTask
<1>2. /\ tstatus' = tstatus /\ contract' = contract /\ troubles' = troubles
      /\ replays' = replays
      /\ tasks' = tasks /\ shots' = shots /\ notes' = notes /\ tlate' = tlate /\ slow' = slow
  BY DEF ClaimTask, odoo
<1>3. row \in TaskRows
  BY DEF TasksInv, TaskTypeOK
<1>4. /\ row' \in TaskRows /\ row'.desired = row.desired /\ row'.task = row.task
      /\ row'.attached = row.attached /\ row'.st = "in_flight" /\ row'.owner = w
      /\ row.desired \in 1..3 /\ row.dcon \in 1..MaxContract
  BY <1>1, <1>3 DEF TaskRows
<1>5. x \in BatchWorks /\ x.pc = "load"
  <2>1. row.desired \in 0..3 /\ row.dcon \in 0..MaxContract /\ "load" \in Places
    BY <1>4, BatchesAreTyped DEF Places
  <2> QED BY <2>1, BatchesAreTyped DEF BatchWorks, IdleBatch
<1> HIDE DEF x
<1>6. /\ twk' \in [Batches -> BatchWorks] /\ twk'[w] = x
      /\ \A v \in Batches : v # w => twk'[v] = twk[v]
  BY <1>1, <1>5, OneBatchMoves DEF TasksInv
<1>7. FoundTasks' = FoundTasks
  BY <1>2 DEF FoundTasks
<1>8. TaskTypeOK'
  <2>1. overlap' \in BOOLEAN
    BY <1>1
  <2> QED BY <1>2, <1>4, <1>6, <2>1 DEF TasksInv, TaskTypeOK
<1>9. LedgerInv'
  BY <1>2, <1>4, <1>7 DEF TasksInv, LedgerInv
<1>10. ASSUME NEW v \in Batches PROVE PlaceInv(v)'
  <2>1. CASE v = w
    BY <1>5, <1>6, <2>1 DEF PlaceInv, Attaching, Finishing, Settling
  <2>2. CASE v # w
    <3>1. twk'[v] = twk[v] /\ PlaceInv(v)
      BY <1>6, <2>2 DEF TasksInv
    <3> QED BY <1>2, <1>4, <1>7, <3>1 DEF PlaceInv
  <2> QED BY <2>1, <2>2
<1>11. CreateInv'
  <2>1. ASSUME ~slow, NEW v \in Batches PROVE twk[v].pc # "create"
    <3>1. twk[v].pc = "create" => row.st = "in_flight" /\ row.owner = v
      BY <2>1 DEF TasksInv, CreateInv, Leases
    <3> QED BY <1>1, <3>1 DEF Dead
  <2>2. ~slow => tlate = {} /\ Cardinality(FoundTasks) <= 1 + replays
    BY DEF TasksInv, CreateInv
  <2>3. ASSUME ~slow, NEW v \in Batches PROVE twk'[v].pc # "create"
    BY <1>5, <1>6, <2>1, <2>3
  <2> QED BY <1>2, <1>7, <2>2, <2>3 DEF CreateInv
<1>12. AloneInv'
  <2> SUFFICES ASSUME ~slow, ~overlap, \A v \in Batches : twk[v].pc = "idle"
               PROVE  /\ \A u, v \in Batches : Busy(u)' /\ Busy(v)' => u = v
                      /\ shots <= 1 + replays /\ notes <= 1 + replays
                      /\ \A v \in Batches : /\ twk'[v].pc = "upload" => shots <= replays
                                            /\ twk'[v].pc = "post" => notes <= replays
    BY <1>1, <1>2, <1>4 DEF AloneInv
  <2>1. shots <= 1 + replays /\ notes <= 1 + replays
    BY DEF TasksInv, AloneInv
  <2> QED BY <1>5, <1>6, <2>1 DEF Busy
<1>13. DeliveredIsTrue'
  BY <1>4 DEF DeliveredIsTrue
<1> QED BY <1>8, <1>9, <1>10, <1>11, <1>12, <1>13 DEF TasksInv

(***************************************************************************)
(* The tasks: the theorems                                                 *)
(***************************************************************************)
LEMMA TasksStart == TaskInit => TasksInv
<1> SUFFICES ASSUME TaskInit PROVE TasksInv
  OBVIOUS
<1>1. /\ MaxTasks \in Nat /\ MaxCopies \in Nat /\ MaxTroubles \in Nat
      /\ MaxContract \in Nat /\ 1 \in 1..MaxContract /\ 0 \in 0..MaxContract
      /\ 0 \in 0..MaxCopies /\ 0 \in 0..MaxTroubles /\ 0 \in 0..MaxReplays
  BY TaskAssumption
<1>2. /\ row.st = "pending" /\ row.desired = 1 /\ row.task = NoTask /\ row.attached = FALSE
      /\ row \in TaskRows
  BY <1>1 DEF TaskInit, TaskRows
<1>3. /\ twk \in [Batches -> BatchWorks] /\ \A w \in Batches : twk[w].pc = "idle"
  BY BatchesAreTyped DEF TaskInit
<1>4. FoundTasks = {} /\ tasks \in [TaskIds -> TaskStatuses \cup {"none"}]
  BY DEF FoundTasks, TaskInit
<1>5. TaskTypeOK
  BY <1>1, <1>2, <1>3, <1>4 DEF TaskInit, TaskTypeOK, TaskStatuses
<1>6. LedgerInv
  BY <1>2 DEF TaskInit, LedgerInv
<1>7. \A w \in Batches : PlaceInv(w)
  BY <1>3 DEF PlaceInv, Attaching, Finishing, Settling
<1>8. CreateInv /\ AloneInv /\ DeliveredIsTrue
  BY <1>2, <1>3, <1>4, FoundIsCounted DEF TaskInit, CreateInv, AloneInv, DeliveredIsTrue, Busy
<1> QED BY <1>5, <1>6, <1>7, <1>8 DEF TasksInv

(* No step of a batch, of Odoo or of the feedback breaks the invariant.    *)
LEMMA TaskNextKeeps == TasksInv /\ [TaskNext]_taskVars => TasksInv'
<1> SUFFICES ASSUME TasksInv, [TaskNext]_taskVars PROVE TasksInv'
  OBVIOUS
<1>1. CASE Around
  BY <1>1, MovedKeeps, ReleaseKeeps, RowStepsKeep, LateCallKeeps DEF Around
<1>2. ASSUME NEW w \in Batches, BatchActs(w) PROVE TasksInv'
  <2>1. CASE QueueMismatch(w)
    BY <2>1, RowStepsKeep
  <2>2. CASE ClaimTask(w)
    BY <2>2, ClaimTaskKeeps
  <2>3. CASE BatchStep(w)
    BY <2>3, EndsBadlyKeeps, LoadKeeps, DeliverTaskKeeps, CreatedKeeps, ShotKeeps,
       LifecycleKeeps, VerifyKeeps, CallLandsKeeps DEF BatchStep
  <2>4. CASE ReadFails(w) \/ TaskCrash(w)
    BY <2>4, EndsBadlyKeeps
  <2>5. CASE TaskAnswerLost(w)
    BY <2>5, AnswerIsLost
  <2>6. CASE CallReplayed(w)
    BY <2>6, ReplayKeeps
  <2> QED BY <1>2, <2>1, <2>2, <2>3, <2>4, <2>5, <2>6 DEF BatchActs
<1>3. CASE UNCHANGED taskVars
  <2>1. /\ UNCHANGED <<tstatus, contract, row, tasks, shots, notes, twk, tlate, slow,
                       overlap, replays, troubles>>
        /\ FoundTasks' = FoundTasks
    BY <1>3 DEF taskVars, FoundTasks
  <2> QED BY <2>1 DEF TasksInv, TaskTypeOK, LedgerInv, PlaceInv, CreateInv, AloneInv,
                      DeliveredIsTrue, Leases, Busy
<1> QED BY <1>1, <1>2, <1>3 DEF TaskNext

(* TasksInv holds of every behaviour.                                      *)
THEOREM TasksInvariant == TaskSpec => []TasksInv
<1> QED BY TasksStart, TaskNextKeeps, PTL DEF TaskSpec

(* One feedback becomes one task however batches overlap, die and lose     *)
(* answers (feedback_task_worker.py:368-449), a batch alone makes one      *)
(* screenshot and one note (:425), in both cases one more for every call   *)
(* the HTTP client sent twice (odoo_client.py:75-98), and what counts as   *)
(* delivered is what the task says (:676).                                 *)
THEOREM TasksAreSafe == TaskSpec => []TasksAreRight
<1>1. TasksInv => TasksAreRight
  <2> SUFFICES ASSUME TasksInv PROVE TasksAreRight
    OBVIOUS
  <2>1. OneTask
    BY FoundIsCounted DEF TasksInv, CreateInv, OneTask
  <2>2. OneCopy
    BY DEF TasksInv, AloneInv, OneCopy
  <2> QED BY <2>1, <2>2 DEF TasksInv, TasksAreRight
<1> QED BY <1>1, TasksInvariant, PTL
=============================================================================
