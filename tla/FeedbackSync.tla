---------------------------- MODULE FeedbackSync ----------------------------
(***************************************************************************)
(* The mirror of one feedback row into Odoo's improvements table           *)
(* (feedback_sync.py, feedback_sync_store.py, and the lifecycle changes of *)
(* feedback_store.py), for a row whose lifecycle Plant Manager owns.       *)
(*                                                                         *)
(* Every change of the feedback raises the desired version.  A worker      *)
(* claims the row for five minutes, looks for the remote row by its source *)
(* id, saves an attempt with what it is about to send, marks the dispatch, *)
(* sends ONE create or write, saves the acknowledgement, reads the remote  *)
(* row back and settles the version.  An attempt that was marked and whose *)
(* outcome is unknown is never sent again: the row is quarantined until a  *)
(* person decides.  Workers die and outrun their claims, answers get lost, *)
(* Odoo may finish a request its caller has given up on, and the HTTP      *)
(* client below the call sends a request again whose connection dropped.   *)
(*                                                                         *)
(* A read of Odoo and the compare-and-set after it are one step (nobody    *)
(* writes both); the request that changes Odoo is a step of its own.       *)
(***************************************************************************)
EXTENDS Naturals, FiniteSets

CONSTANTS Workers,       \* processes that run the batch
          MaxAttempts,   \* MAX_MUTATION_ATTEMPTS
          MaxRows,       \* rows Odoo ever holds for this source id
          MaxFaults,     \* failures of calls, processes and claims
          MaxOutside,    \* rows people delete in Odoo
          MaxReleases,   \* quarantines an operator releases
          MaxSupersedes, \* ambiguous attempts an operator supersedes
          MaxResends,    \* requests the HTTP client sends again by itself
          SlowOdoo       \* Odoo may finish a request nobody waits for

VARIABLES status,  \* feedback.status; what a version's projection says
          sync,    \* the row of feedback_odoo_sync
          att,     \* the active row of feedback_odoo_attempts
          remote,  \* what each remote row says
          wk,      \* what each worker is doing
          late,    \* requests nobody waits for and Odoo still runs
          faults, outside, releases, supersedes, resends

Nobody == "nobody"

ASSUME BoundsAssumption ==
    /\ Nobody \notin Workers
    /\ MaxAttempts \in Nat \ {0} /\ MaxRows \in Nat /\ MaxFaults \in Nat
    /\ MaxOutside \in Nat /\ MaxReleases \in Nat /\ MaxSupersedes \in Nat
    /\ MaxResends \in Nat /\ SlowOdoo \in BOOLEAN

vars == <<status, sync, att, remote, wk, late, faults, outside, releases,
          supersedes, resends>>
counters == <<faults, outside, releases, supersedes, resends>>

Ids == 1..MaxRows
None == 0
Transitions(s) ==
    CASE s = "requested" -> {"in_progress", "completed", "declined"}
      [] s = "in_progress" -> {"completed", "declined"}
      [] OTHER -> {}
Statuses == {"requested", "in_progress", "completed", "declined"}

NoAttempt == [state |-> "none", ver |-> 0, kind |-> "none", rid |-> None,
              says |-> "requested"]
Idle == [pc |-> "idle", ver |-> 0, sent |-> NoAttempt, rid |-> None]

Init ==
    /\ status = "requested"
    /\ sync = [desired |-> 1, last |-> 0, rid |-> None, st |-> "idle",
               owner |-> Nobody, count |-> 0, reason |-> "none"]
    /\ att = NoAttempt
    /\ remote = [i \in Ids |-> "unused"]
    /\ wk = [w \in Workers |-> Idle]
    /\ late = {}
    /\ faults = 0 /\ outside = 0 /\ releases = 0 /\ supersedes = 0
    /\ resends = 0

\* find_exact: the remote rows that carry this feedback's source id.
Found == {i \in Ids : remote[i] \in Statuses}

Fault == faults < MaxFaults /\ faults' = faults + 1

(***************************************************************************)
(* The feedback changes, and a worker claims its row.                      *)
(***************************************************************************)
(* Mutant: the change makes a quarantined row due again. *)
TransitionRevives ==
    \E s \in Transitions(status) :
        /\ status' = s
        /\ sync' = [sync EXCEPT !.desired = @ + 1,
                                !.st = IF @ = "in_flight" THEN @ ELSE "idle"]
        /\ UNCHANGED <<att, remote, wk, late, counters>>

Transition ==
    \E s \in Transitions(status) :
        /\ status' = s
        /\ sync' = [sync EXCEPT !.desired = @ + 1]
        /\ UNCHANGED <<att, remote, wk, late, counters>>

(* Mutant: an acknowledged attempt is not recovered. *)
EntryForgetsReadback ==
    CASE att.state = "none" -> "read"
      [] att.state = "prepared" -> "gate"
      [] OTHER -> "idle"

\* load_active_attempt decides how the claim goes on.
Entry ==
    CASE att.state = "none" -> "read"
      [] att.state = "prepared" -> "gate"
      [] att.state = "rpc_succeeded" -> "verify"
      [] OTHER -> "idle"

ClaimDue(w) ==
    /\ wk[w].pc = "idle"
    /\ sync.st = "idle" /\ sync.last < sync.desired
    /\ sync' = [sync EXCEPT !.st = "in_flight", !.owner = w]
    /\ wk' = [wk EXCEPT ![w] = [Idle EXCEPT !.pc = Entry,
                                            !.ver = sync.desired,
                                            !.rid = att.rid]]
    /\ UNCHANGED <<status, att, remote, late, counters>>

Owns(w) == sync.st = "in_flight" /\ sync.owner = w

(***************************************************************************)
(* What a step may do with its claim.                                      *)
(***************************************************************************)
Goes(w, pc) == wk' = [wk EXCEPT ![w].pc = pc]
Ends(w) == wk' = [wk EXCEPT ![w] = Idle]

\* The claim was taken away: every write refuses, the batch goes on.
Stale(w) ==
    /\ wk[w].pc \notin {"idle", "send"}
    /\ ~Owns(w)
    /\ Ends(w)
    /\ UNCHANGED <<status, sync, att, remote, late, counters>>

Released == [sync EXCEPT !.st = "idle", !.owner = Nobody]
Held(why) == [sync EXCEPT !.st = "quarantined", !.owner = Nobody,
                          !.reason = why]

Quarantine(w, why) ==
    /\ sync' = Held(why)
    /\ att' = IF att = NoAttempt THEN att
                                 ELSE [att EXCEPT !.state = "ambiguous"]
    /\ Ends(w)
    /\ UNCHANGED <<status, remote, late>>

\* defer_unprepared_read_failure, defer_prepared_for_closed_gate and
\* schedule_readback: the row is due again, with the attempt it has.
Defer(w) ==
    /\ sync' = Released
    /\ Ends(w)
    /\ UNCHANGED <<status, att, remote, late>>

(* Mutant: one attempt too many. *)
RecordOneTooMany(w) ==
    /\ IF sync.count + 1 > MaxAttempts
       THEN /\ att' = [att EXCEPT !.state = "definitive_failed"]
            /\ sync' = [Held("retry_exhausted") EXCEPT !.count = @ + 1]
       ELSE /\ att' = NoAttempt
            /\ sync' = [Released EXCEPT !.count = @ + 1]
    /\ Ends(w)
    /\ UNCHANGED <<status, remote, late>>

RecordDefinitiveFailure(w) ==
    /\ IF sync.count + 1 >= MaxAttempts
       THEN /\ att' = [att EXCEPT !.state = "definitive_failed"]
            /\ sync' = [Held("retry_exhausted") EXCEPT !.count = @ + 1]
       ELSE /\ att' = NoAttempt
            /\ sync' = [Released EXCEPT !.count = @ + 1]
    /\ Ends(w)
    /\ UNCHANGED <<status, remote, late>>

(***************************************************************************)
(* process_claim without an attempt: read, and save what is to be sent.    *)
(***************************************************************************)
SavesAttempt(w) ==
    /\ att' = [state |-> "prepared", ver |-> wk[w].ver,
               kind |-> IF Found = {} THEN "create" ELSE "update",
               rid |-> IF Found = {} THEN None ELSE CHOOSE i \in Found : TRUE,
               says |-> status]
    /\ Goes(w, "gate")
    /\ UNCHANGED <<status, sync, remote, late>>

Prepare(w) ==
    /\ wk[w].pc = "read" /\ Owns(w)
    /\ UNCHANGED counters
    /\ IF sync.desired # wk[w].ver THEN Defer(w)
       ELSE IF Cardinality(Found) > 1 THEN Quarantine(w, "duplicate")
       ELSE IF sync.rid # None /\ Found # {sync.rid}
       THEN Quarantine(w, "saved_id_conflict")
       ELSE SavesAttempt(w)

PrepareFails(w) ==
    /\ wk[w].pc = "read" /\ Owns(w) /\ Fault
    /\ UNCHANGED <<outside, releases, supersedes, resends>>
    /\ \/ Defer(w)
       \/ /\ sync.desired = wk[w].ver
          /\ Quarantine(w, "contract")

(***************************************************************************)
(* _dispatch_prepared_once: the gate, the identity once more, the mark,    *)
(* the one request.                                                        *)
(***************************************************************************)
Marks(w) ==
    /\ att' = [att EXCEPT !.state = "dispatch_marked"]
    /\ wk' = [wk EXCEPT ![w].pc = "send", ![w].sent = att]
    /\ UNCHANGED <<status, sync, remote, late>>

MarkDispatch(w) ==
    /\ wk[w].pc = "gate" /\ Owns(w)
    /\ UNCHANGED counters
    /\ IF Found = IF att.kind = "create" THEN {} ELSE {att.rid}
       THEN Marks(w)
       ELSE Quarantine(w, "identity_changed")

DispatchFails(w) ==
    /\ wk[w].pc = "gate" /\ Owns(w) /\ Fault
    /\ UNCHANGED <<outside, releases, supersedes, resends>>
    /\ \/ Defer(w)                     \* the gate is closed
       \/ RecordDefinitiveFailure(w)   \* the read failed
       \/ Quarantine(w, "contract")

\* What the request does when Odoo runs it: a create makes a new row, a write
\* of a row that is gone does nothing.
Effects(m) ==
    IF m.kind = "create"
    THEN {[rows |-> [remote EXCEPT ![i] = m.says], id |-> i] :
             i \in {j \in Ids : /\ remote[j] = "unused"
                                /\ \A k \in 1..(j - 1) :
                                      remote[k] # "unused"}}
    ELSE {[rows |-> IF m.rid \in Found THEN [remote EXCEPT ![m.rid] = m.says]
                                       ELSE remote,
           id |-> m.rid]}

Land(w) ==
    /\ wk[w].pc = "send"
    /\ \E e \in Effects(wk[w].sent) :
          /\ remote' = e.rows
          /\ wk' = [wk EXCEPT ![w].pc = "ack", ![w].rid = e.id]
    /\ UNCHANGED <<status, sync, att, late, counters>>

\* The connection drops before the answer, and the HTTP client of the call sends the
\* request again by itself: Odoo ran the first one, did not, or will.
Resends(w) ==
    /\ wk[w].pc = "send" /\ Fault
    /\ resends < MaxResends /\ resends' = resends + 1
    /\ \/ \E e \in Effects(wk[w].sent) : remote' = e.rows /\ UNCHANGED late
       \/ SlowOdoo /\ late' = late \cup {wk[w].sent} /\ UNCHANGED remote
       \/ UNCHANGED <<remote, late>>
    /\ UNCHANGED <<status, sync, att, wk, outside, releases, supersedes>>

\* The answer does not come: Odoo ran the request, did not, or will.
AnswerLost(w) ==
    /\ wk[w].pc = "send" /\ Fault
    /\ \/ /\ \E e \in Effects(wk[w].sent) : remote' = e.rows
          /\ UNCHANGED late
       \/ UNCHANGED <<remote, late>>
       \/ /\ SlowOdoo
          /\ late' = late \cup {wk[w].sent}
          /\ UNCHANGED remote
    /\ Goes(w, "ambiguous")
    /\ UNCHANGED <<status, sync, att, outside, releases, supersedes, resends>>

LandLate ==
    \E m \in late : \E e \in Effects(m) :
        /\ remote' = e.rows
        /\ late' = late \ {m}
        /\ UNCHANGED <<status, sync, att, wk, counters>>

\* The request was refused: a fault proves nothing was written, the gate
\* closed before it was sent, or the contract changed.
SendFails(w) ==
    /\ wk[w].pc = "send" /\ Fault
    /\ UNCHANGED <<outside, releases, supersedes, resends>>
    /\ IF Owns(w) THEN RecordDefinitiveFailure(w) \/ Quarantine(w, "contract")
                  ELSE Ends(w) /\ UNCHANGED <<status, sync, att, remote, late>>

MarksSucceeded(w, id) ==
    /\ att' = [att EXCEPT !.state = "rpc_succeeded", !.rid = id]
    /\ sync' = [sync EXCEPT !.rid = id]
    /\ wk' = [wk EXCEPT ![w].pc = "verify", ![w].rid = id]
    /\ UNCHANGED <<status, remote, late>>

MarkRpcSucceeded(w) ==
    /\ wk[w].pc = "ack" /\ Owns(w)
    /\ MarksSucceeded(w, wk[w].rid)
    /\ UNCHANGED counters

RecoverAmbiguousMutation(w) ==
    /\ wk[w].pc = "ambiguous" /\ Owns(w)
    /\ UNCHANGED counters
    /\ IF wk[w].sent.kind = "update" THEN MarksSucceeded(w, wk[w].sent.rid)
       ELSE IF Cardinality(Found) = 1
       THEN MarksSucceeded(w, CHOOSE i \in Found : TRUE)
       ELSE Quarantine(w, "ambiguous")

RecoverFails(w) ==
    /\ wk[w].pc = "ambiguous" /\ Owns(w) /\ wk[w].sent.kind = "create"
    /\ Fault /\ UNCHANGED <<outside, releases, supersedes, resends>>
    /\ Quarantine(w, "ambiguous")

(***************************************************************************)
(* _verify_rpc_succeeded: read back, settle.                               *)
(***************************************************************************)
(* Mutant: the version settled is the newest, not the one sent. *)
SettlesNewest(w) ==
    /\ sync' = [Released EXCEPT !.last = sync.desired, !.count = 0,
                                !.reason = "none"]
    /\ att' = NoAttempt
    /\ Ends(w)
    /\ UNCHANGED <<status, remote, late>>

Settles(w) ==
    /\ sync' = [Released EXCEPT !.last = att.ver, !.count = 0,
                                !.reason = "none"]
    /\ att' = NoAttempt
    /\ Ends(w)
    /\ UNCHANGED <<status, remote, late>>

VerifyReadback(w) ==
    /\ wk[w].pc = "verify" /\ Owns(w)
    /\ UNCHANGED counters
    /\ IF remote[wk[w].rid] = att.says THEN Settles(w)
                                       ELSE Quarantine(w, "mismatch")

VerifyFails(w) ==
    /\ wk[w].pc = "verify" /\ Owns(w) /\ Fault
    /\ UNCHANGED <<outside, releases, supersedes, resends>>
    /\ Defer(w)

(***************************************************************************)
(* Claims that run out, and processes that die.                            *)
(***************************************************************************)
(* Mutant: a marked dispatch is released like a prepared one. *)
RecoverReleasesAll ==
    /\ sync' = Released
    /\ att' = [att EXCEPT !.state = IF @ = "dispatch_marked" THEN "prepared"
                                                             ELSE @]

RecoverExpired ==
    IF att.state = "dispatch_marked"
    THEN /\ sync' = Held("stale_dispatch")
         /\ att' = [att EXCEPT !.state = "ambiguous"]
    ELSE /\ sync' = Released
         /\ UNCHANGED att

\* The owner is gone, and five minutes have passed.
ClaimExpires ==
    /\ sync.st = "in_flight" /\ wk[sync.owner].pc = "idle"
    /\ RecoverExpired
    /\ UNCHANGED <<status, remote, wk, late, counters>>

\* The owner is alive, and slower than its claim.
Outrun ==
    /\ sync.st = "in_flight" /\ wk[sync.owner].pc # "idle"
    /\ Fault
    /\ RecoverExpired
    /\ UNCHANGED <<status, remote, wk, late, outside, releases, supersedes, resends>>

Crash(w) ==
    /\ wk[w].pc # "idle" /\ Fault
    /\ Ends(w)
    /\ UNCHANGED <<status, sync, att, remote, late, outside, releases,
                   supersedes, resends>>

\* Somebody deletes a mirrored row in Odoo.
Deleted ==
    /\ outside < MaxOutside /\ outside' = outside + 1
    /\ \E i \in Found : remote' = [remote EXCEPT ![i] = "deleted"]
    /\ UNCHANGED <<status, sync, att, wk, late, faults, releases, supersedes,
                   resends>>

(***************************************************************************)
(* The operator's commands (keep changes nothing but the audit).           *)
(***************************************************************************)
Reviewable == sync.st = "quarantined" /\ att # NoAttempt
              /\ att.rid = sync.rid

Revived == [sync EXCEPT !.st = "idle", !.count = 0, !.reason = "none"]

ReleaseDefinitive ==
    /\ releases < MaxReleases /\ releases' = releases + 1
    /\ Reviewable /\ att.state = "definitive_failed"
    /\ sync' = Revived
    /\ att' = NoAttempt
    /\ UNCHANGED <<status, remote, wk, late, faults, outside, supersedes,
                   resends>>

ReleasePreAttempt ==
    /\ releases < MaxReleases /\ releases' = releases + 1
    /\ sync.st = "quarantined" /\ sync.reason = "contract"
    /\ att = NoAttempt /\ sync.rid = None /\ sync.count = 0
    /\ sync' = Revived
    /\ UNCHANGED <<status, att, remote, wk, late, faults, outside, supersedes,
                   resends>>

SupersedeAndRetry ==
    /\ supersedes < MaxSupersedes /\ supersedes' = supersedes + 1
    /\ Reviewable /\ att.state = "ambiguous"
    /\ sync' = [Revived EXCEPT !.desired = @ + 1]
    /\ att' = NoAttempt
    /\ UNCHANGED <<status, remote, wk, late, faults, outside, releases, resends>>

(***************************************************************************)
(* The specification.                                                      *)
(***************************************************************************)
Step(w) ==
    \/ Stale(w) \/ Prepare(w) \/ MarkDispatch(w) \/ Land(w)
    \/ MarkRpcSucceeded(w) \/ RecoverAmbiguousMutation(w)
    \/ VerifyReadback(w)

Next ==
    \/ Transition \/ LandLate \/ ClaimExpires \/ Outrun \/ Deleted
    \/ ReleaseDefinitive \/ ReleasePreAttempt \/ SupersedeAndRetry
    \/ \E w \in Workers :
          \/ ClaimDue(w) \/ Step(w)
          \/ PrepareFails(w) \/ DispatchFails(w) \/ Resends(w) \/ AnswerLost(w)
          \/ SendFails(w) \/ RecoverFails(w) \/ VerifyFails(w) \/ Crash(w)

Spec == Init /\ [][Next]_vars

\* The batch comes round, a process that lives goes on and a dead one's claim
\* runs out; nobody need change the feedback or release a quarantine.
Fairness ==
    /\ WF_vars(ClaimExpires)
    /\ WF_vars(\E w \in Workers : ClaimDue(w))
    /\ \A w \in Workers : WF_vars(Step(w))

LiveSpec == Spec /\ Fairness

(***************************************************************************)
(* The properties.                                                         *)
(***************************************************************************)
MaxVersion == 3 + MaxSupersedes
Attempts == [state : {"none", "prepared", "dispatch_marked", "rpc_succeeded",
                      "definitive_failed", "ambiguous"},
             ver : 0..MaxVersion, kind : {"none", "create", "update"},
             rid : Ids \cup {None}, says : Statuses]

Syncs == [desired : 1..MaxVersion, last : 0..MaxVersion, rid : Ids \cup {None},
          st : {"idle", "in_flight", "quarantined"},
          owner : Workers \cup {Nobody}, count : 0..MaxAttempts,
          reason : {"none", "duplicate", "saved_id_conflict", "contract",
                    "identity_changed", "ambiguous", "mismatch",
                    "stale_dispatch", "retry_exhausted"}]
Works == [pc : {"idle", "read", "gate", "send", "ack", "ambiguous", "verify"},
          ver : 0..MaxVersion, sent : Attempts, rid : Ids \cup {None}]

\* The values each variable may take (_schema.py:1892-2020).
TypeOK ==
    /\ status \in Statuses
    /\ sync \in Syncs /\ att \in Attempts
    /\ remote \in [Ids -> Statuses \cup {"unused", "deleted"}]
    /\ wk \in [Workers -> Works]
    /\ late \subseteq Attempts
    /\ faults \in 0..MaxFaults /\ outside \in 0..MaxOutside
    /\ releases \in 0..MaxReleases /\ supersedes \in 0..MaxSupersedes
    /\ resends \in 0..MaxResends

\* Whatever crashes, stalls, answers late or is retried, one feedback has at
\* most one remote row, and one more for every request the HTTP client sent again
\* by itself, until a person supersedes an ambiguous attempt
\* (feedback_sync.py:376-513, feedback_sync_store.py:1909-2003,
\* odoo_improvements.py:257-277).
NoDuplicate ==
    supersedes = 0 =>
        Cardinality({i \in Ids : remote[i] # "unused"}) <= 1 + resends

\* A row that counts as synchronized says in Odoo what the feedback says
\* here, until a person supersedes an ambiguous attempt or the HTTP client sends a
\* request again (feedback_sync_store.py:1507-1595).
SyncedIsRemote ==
    (supersedes = 0 /\ resends = 0 /\ sync.last = sync.desired) =>
        remote[sync.rid] \in {status, "deleted"}

\* The record of one feedback in Odoo is single, but for what the HTTP client sends
\* twice, and true.
SyncIsRight == TypeOK /\ NoDuplicate /\ SyncedIsRemote

\* An ambiguous attempt is kept until a person supersedes it: no worker, no
\* recovery and no later change of the feedback sends it again or makes the
\* row due (feedback_sync_store.py:1733-1814, feedback_store.py:1592).
AmbiguousIsHeld ==
    [][(att.state = "ambiguous" /\ supersedes' = supersedes) =>
           att' = att /\ sync'.st = "quarantined"]_vars

\* A change of the feedback reaches Odoo, or ends in a quarantine a person
\* looks at (feedback_sync.py:679-707).
SyncEnds ==
    sync.last < sync.desired
        ~> (sync.last = sync.desired \/ sync.st = "quarantined")

(***************************************************************************)
(* Why they hold: the inductive invariant.                                 *)
(***************************************************************************)
Used == {i \in Ids : remote[i] # "unused"}

\* The changes that are still possible bound the versions, and only a held row has
\* used up its attempts.
RankOf(s) == CASE s = "requested" -> 0 [] s = "in_progress" -> 1 [] OTHER -> 2
CountInv ==
    /\ sync.desired <= 1 + supersedes + RankOf(status)
    /\ sync.st # "quarantined" => sync.count < MaxAttempts

\* What the claim, the attempt and its worker's place in the code say of each other.
AttemptAt(pc) ==
    CASE pc = "read" -> {"none"}
      [] pc = "gate" -> {"prepared"}
      [] pc \in {"send", "ack", "ambiguous"} -> {"dispatch_marked"}
      [] pc = "verify" -> {"rpc_succeeded"}
      [] OTHER -> {"none", "prepared", "dispatch_marked", "rpc_succeeded"}
ClaimInv ==
    /\ sync.st = "idle" => att.state \in {"none", "prepared", "rpc_succeeded"}
    /\ sync.st = "quarantined" =>
          att.state \in {"none", "ambiguous", "definitive_failed"}
    /\ sync.st = "in_flight" =>
          /\ sync.owner \in Workers
          /\ att.state \in AttemptAt(wk[sync.owner].pc)
    /\ att.state = "none" => att = NoAttempt

\* The attempt as it was when it was sent.
Request == [att EXCEPT !.state = "prepared"]
OwnerInv ==
    sync.st = "in_flight" =>
        LET me == wk[sync.owner]
        IN  /\ me.pc = "read" => sync.last < me.ver /\ me.ver <= sync.desired
            /\ me.pc \in {"send", "ack", "ambiguous"} => me.sent = Request
            /\ me.pc = "ack" => Used = {me.rid}
            /\ me.pc = "verify" => me.rid = att.rid

\* The attempt belongs to a version that is not settled yet, and says what the
\* feedback said then.
VersionInv ==
    /\ sync.last <= sync.desired
    /\ sync.last = sync.desired => sync.rid # None /\ att.state = "none"
    /\ att.state \in {"prepared", "dispatch_marked", "rpc_succeeded"} =>
          /\ att.kind \in {"create", "update"}
          /\ sync.last < att.ver /\ att.ver <= sync.desired
          /\ IF att.ver = sync.desired THEN status = att.says
             ELSE status \in Transitions(att.says)

\* The one row, and who knows its id.
RowInv ==
    /\ IF sync.rid # None THEN Used = {sync.rid}
       ELSE IF att.state \in {"dispatch_marked", "ambiguous"} /\ att.kind = "create"
       THEN \A i, j \in Used : i = j
       ELSE Used = {}
    /\ att.state \in {"prepared", "dispatch_marked"} /\ att.kind = "create" =>
          sync.rid = None
    /\ \/ att.state \in {"prepared", "dispatch_marked", "ambiguous"} /\ att.kind # "create"
       \/ att.state = "rpc_succeeded"
       => att.rid = sync.rid /\ sync.rid # None

\* A request under way, by a worker or by nobody, is the only one, and the row does
\* not say yet what it asks for.
Sending == {w \in Workers : wk[w].pc = "send"}
Asked ==
    IF att.kind = "create" THEN Used = {} /\ att.state # "rpc_succeeded"
    ELSE remote[att.rid] = "deleted" \/ att.says \in Transitions(remote[att.rid])
RequestInv ==
    /\ \A w \in Sending :
          /\ \A v \in Sending : v = w
          /\ late = {} /\ wk[w].sent = Request
          /\ att.state = "ambiguous" \/ (att.state = "dispatch_marked" /\ Owns(w))
          /\ Asked
    /\ \A m \in late :
          /\ m = Request
          /\ att.state \in {"dispatch_marked", "rpc_succeeded", "ambiguous"}
          /\ Asked

\* Between attempts the row says what the settled version said.
ContentInv ==
    (sync.rid # None /\ remote[sync.rid] # "deleted") =>
        /\ att.state \in {"none", "prepared", "definitive_failed"} =>
              IF sync.last = sync.desired THEN remote[sync.rid] = status
              ELSE status \in Transitions(remote[sync.rid])
        /\ att.state = "prepared" => att.says \in Transitions(remote[sync.rid])

OneRowInv == OwnerInv /\ VersionInv /\ RowInv /\ RequestInv /\ ContentInv

\* What the owner of the claim sends is what the attempt says, and what is known of
\* the remote row has an id.
SentInv ==
    /\ att.state # "none" => att.kind \in {"create", "update"}
    /\ att.state = "prepared" /\ att.kind = "create" => sync.rid = None
    /\ att.kind = "update" \/ att.state = "rpc_succeeded" => att.rid # None
    /\ att.state = "rpc_succeeded" => sync.rid # None
    /\ sync.st = "in_flight" =>
          LET me == wk[sync.owner]
          IN  /\ me.pc \in {"send", "ack", "ambiguous"} => me.sent = Request
              /\ me.pc = "ack" => me.rid # None

\* A create under way is the attempt's, and a row is in Odoo, or on its way, for it
\* or for a request that was sent again.
Creating == {w \in Workers : wk[w].pc = "send" /\ wk[w].sent.kind = "create"}
LateCreates == {m \in late : m.kind = "create"}
Underway == IF Creating = {} THEN 0 ELSE 1
Tried == \/ sync.rid # None
         \/ att.state \in {"dispatch_marked", "ambiguous"} /\ att.kind = "create"
RowsInv ==
    /\ IsFiniteSet(late)
    /\ \A w \in Creating :
          /\ \A v \in Creating : v = w
          /\ att.kind = "create"
          /\ att.state = "ambiguous" \/ (att.state = "dispatch_marked" /\ Owns(w))
    /\ Cardinality(Used) + Cardinality(LateCreates) + Underway
          <= IF Tried THEN 1 + resends ELSE resends

RemoteInv == SentInv /\ (supersedes = 0 => RowsInv)

\* Nothing was sent again, by a person or by the HTTP client.
Unaided == supersedes = 0 /\ resends = 0
MirrorInv ==
    /\ TypeOK /\ CountInv /\ ClaimInv
    /\ Unaided => OneRowInv
=============================================================================
