--------------------------- MODULE ScheduleStore ----------------------------
(***************************************************************************)
(* The schedule of one weekday (staffing.py), its cache in the process and *)
(* the requests that change it (routes/staffing.py, routes/rotations.py,   *)
(* routes/past_schedules.py, routes/share.py, object_models.py).           *)
(*                                                                         *)
(* A schedule is a draft or posted.  Publishing gives it a version; an     *)
(* edit of a posted schedule turns it into a draft and keeps what was      *)
(* posted as a snapshot with its version and its delivery mark (printed,   *)
(* posted to Slack).                                                       *)
(*                                                                         *)
(* Requests run in threads.  A load that misses the cache reads the row    *)
(* and the assignments in two queries and stores what it read; a save      *)
(* drops the cache first and commits afterwards, what it does not set it   *)
(* takes from the schedule it loaded.  Other operations work on the row    *)
(* under its lock, some of them drop the cache before they commit.         *)
(***************************************************************************)
EXTENDS Naturals, FiniteSets

CONSTANTS Threads,
          Ops,       \* the operations of a run
          MaxOps,    \* requests
          MaxVer     \* publications

AllOps == {"read", "save", "publish", "unpublish", "api", "share",
           "toggle", "hours", "absent", "delete", "seed"}

ASSUME ScheduleAssumption == Ops \subseteq AllOps /\ MaxOps \in Nat /\ MaxVer \in Nat

VARIABLES row,        \* schedules and schedule_assignments
          cache,      \* _schedule_cache
          thread,     \* the request each thread serves
          versions,   \* versions given out
          ops,
          marks,      \* history: <<version, content>> of recorded deliveries
          toggled     \* history: the last choice of work centers

scheduleVars == <<row, cache, thread, versions, ops, marks, toggled>>
history == <<marks, toggled>>

Empty == "empty"
Docs == {Empty, "a", "b"}

Snapshots == [asg : Docs, ver : 0..MaxVer, mark : BOOLEAN]
NoSnap == [asg |-> Empty, ver |-> 0, mark |-> FALSE, none |-> TRUE]
Schedules == [has : BOOLEAN, pub : BOOLEAN, asg : Docs,
              snap : Snapshots \cup {NoSnap}, ver : 0..MaxVer,
              mark : BOOLEAN, auto : BOOLEAN]

\* load_schedule of a day without a row.
Blank == [has |-> FALSE, pub |-> FALSE, asg |-> Empty, snap |-> NoSnap,
          ver |-> 0, mark |-> FALSE, auto |-> FALSE]

NotCached == [Blank EXCEPT !.asg = "none"]
Idle == [op |-> "none", pc |-> "idle", got |-> Blank, ver |-> 0, doc |-> Empty]

ScheduleInit ==
    /\ row = Blank /\ cache = NotCached
    /\ thread = [t \in Threads |-> Idle]
    /\ versions = 0 /\ ops = 0
    /\ marks = {} /\ toggled = FALSE

At(t, op, pc) == thread[t].op \in op /\ thread[t].pc = pc
Goes(t, pc) == thread' = [thread EXCEPT ![t].pc = pc]
Ends(t) == thread' = [thread EXCEPT ![t] = Idle]

\* A transaction that holds the lock of the row.
Free == \A t \in Threads : thread[t].pc # "locked"

(***************************************************************************)
(* Drafts and snapshots.                                                   *)
(***************************************************************************)
SnapshotOf(s) == [asg |-> s.asg, ver |-> s.ver, mark |-> s.mark]

(* Mutant: the draft forgets what was posted. *)
DraftForgets(s) == [s EXCEPT !.pub = FALSE, !.ver = 0, !.mark = FALSE]

DraftFromPosted(s) ==
    IF s.pub
    THEN [s EXCEPT !.pub = FALSE, !.ver = 0, !.mark = FALSE,
                   !.snap = IF @ = NoSnap THEN SnapshotOf(s) ELSE @]
    ELSE s

\* A fork takes the delivery recorded for its version since it was loaded.
MergedSnap(new) ==
    IF /\ row.pub /\ ~new.pub /\ new.snap # NoSnap
       /\ row.ver # 0 /\ row.ver = new.snap.ver
    THEN [new.snap EXCEPT !.mark = row.mark]
    ELSE new.snap

(* Mutant: the upsert writes every column it was given. *)
UpsertAll(new) == [new EXCEPT !.has = TRUE, !.snap = MergedSnap(new)]

\* _save_schedule_with_cursor: the choice of work centers belongs to the toggle.
Upsert(new) ==
    [new EXCEPT !.has = TRUE, !.snap = MergedSnap(new),
                !.auto = IF row.has THEN row.auto ELSE @]

(***************************************************************************)
(* load_schedule.                                                          *)
(***************************************************************************)
Loads == {"read", "save", "publish", "unpublish", "api", "share"}

Start(t, op) ==
    /\ thread[t] = Idle /\ op \in Ops /\ ops < MaxOps
    /\ ops' = ops + 1
    /\ thread' = [thread EXCEPT ![t].op = op,
                    ![t].pc = IF op \in Loads THEN "load" ELSE "begin"]
    /\ UNCHANGED <<row, cache, versions, history>>

LoadHit(t) ==
    /\ At(t, Loads, "load") /\ cache # NotCached
    /\ thread' = [thread EXCEPT ![t].got = cache, ![t].pc = "loaded"]
    /\ UNCHANGED <<row, cache, versions, ops, history>>

ReadRow(t) ==
    /\ At(t, Loads, "load") /\ cache = NotCached
    /\ thread' = [thread EXCEPT ![t].got = row,
                                ![t].pc = IF row.has THEN "row" ELSE "read"]
    /\ UNCHANGED <<row, cache, versions, ops, history>>

ReadAssignments(t) ==
    /\ At(t, Loads, "row")
    /\ thread' = [thread EXCEPT ![t].got.asg = row.asg, ![t].pc = "read"]
    /\ UNCHANGED <<row, cache, versions, ops, history>>

StoreCache(t) ==
    /\ At(t, Loads, "read")
    /\ cache' = thread[t].got
    /\ Goes(t, "loaded")
    /\ UNCHANGED <<row, versions, ops, history>>

\* A page that only shows the schedule.
Shown(t) ==
    /\ At(t, {"read"}, "loaded") /\ Ends(t)
    /\ UNCHANGED <<row, cache, versions, ops, history>>

(***************************************************************************)
(* save_schedule: the cache is dropped, then the row is written.           *)
(***************************************************************************)
DropCache(t) ==
    /\ At(t, {"save", "publish", "unpublish", "api"}, "loaded")
    /\ cache' = NotCached
    /\ Goes(t, "write")
    /\ UNCHANGED <<row, versions, ops, history>>

Writes(t, new) ==
    /\ Free
    /\ row' = Upsert(new)
    /\ toggled' = IF row.has THEN toggled ELSE new.auto
    /\ Ends(t)
    /\ UNCHANGED <<cache, ops, marks>>

\* An autosave, a rebuild, or a publication that was refused.
Save(t, a) ==
    /\ At(t, {"save"}, "write")
    /\ Writes(t, [DraftFromPosted(thread[t].got) EXCEPT !.asg = a])
    /\ UNCHANGED versions

PublishSchedule(t, a) ==
    /\ At(t, {"publish"}, "write") /\ versions < MaxVer
    /\ versions' = versions + 1
    /\ Writes(t, [thread[t].got EXCEPT !.pub = TRUE, !.asg = a, !.snap = NoSnap,
                                       !.ver = versions', !.mark = FALSE])

\* _unpublish_day; the version stays on the draft.
Unpublish(t) ==
    /\ At(t, {"unpublish"}, "write")
    /\ LET got == thread[t].got IN
       Writes(t, [got EXCEPT !.pub = FALSE,
                    !.snap = IF got.pub /\ @ = NoSnap THEN SnapshotOf(got)
                             ELSE @])
    /\ UNCHANGED versions

\* create_record of the object API with a value for published only.
ApiPublished(t, b) ==
    /\ At(t, {"api"}, "write")
    /\ Writes(t, [thread[t].got EXCEPT !.pub = b])
    /\ UNCHANGED versions

(***************************************************************************)
(* Operations on the row under its lock.                                   *)
(***************************************************************************)
\* The toggle of a weekday and a declared absence drop the cache inside.
LockRow(t) ==
    /\ At(t, {"toggle", "absent"}, "begin") /\ Free
    /\ cache' = NotCached
    /\ Goes(t, "locked")
    /\ UNCHANGED <<row, versions, ops, history>>

\* update_auto_enabled_work_centers: assignments of centers turned off go.
Toggle(t, on, a) ==
    /\ At(t, {"toggle"}, "locked")
    /\ a = row.asg \/ (~on /\ a = Empty)
    /\ row' = [DraftFromPosted(row) EXCEPT !.has = TRUE, !.auto = on, !.asg = a]
    /\ toggled' = on
    /\ Ends(t)
    /\ UNCHANGED <<cache, versions, ops, marks>>

\* remove_person_from_schedule: a posted schedule stays posted without them.
RemovePerson(t, a) ==
    /\ At(t, {"absent"}, "locked")
    /\ row' = IF row.has THEN Upsert([row EXCEPT !.asg = a]) ELSE row
    /\ Ends(t)
    /\ UNCHANGED <<cache, versions, ops, marks, toggled>>

\* _update_schedule_metadata_work: committed, then the cache is dropped.
Metadata(t) ==
    /\ At(t, {"hours"}, "begin") /\ Free
    /\ row' = [DraftFromPosted(row) EXCEPT !.has = TRUE]
    /\ Goes(t, "committed")
    /\ UNCHANGED <<cache, versions, ops, history>>

\* _delete_day.
Delete(t) ==
    /\ At(t, {"delete"}, "begin") /\ Free
    /\ row' = Blank
    /\ toggled' = FALSE
    /\ Goes(t, "committed")
    /\ UNCHANGED <<cache, versions, ops, marks>>

\* create_schedule_if_absent, with the defaults of a new day.
Seed(t, a) ==
    /\ At(t, {"seed"}, "begin") /\ Free
    /\ row' = IF row.has THEN row
              ELSE [Blank EXCEPT !.has = TRUE, !.asg = a, !.auto = TRUE]
    /\ toggled' = (row.has => toggled)
    /\ Goes(t, "committed")
    /\ UNCHANGED <<cache, versions, ops, marks>>

Invalidate(t) ==
    /\ thread[t].pc = "committed"
    /\ cache' = NotCached
    /\ Ends(t)
    /\ UNCHANGED <<row, versions, ops, history>>

(***************************************************************************)
(* Printing and Slack.                                                     *)
(***************************************************************************)
\* What the posted view of a schedule shows, and its version.
Delivered(s) == IF s.pub \/ s.snap = NoSnap THEN SnapshotOf(s) ELSE s.snap

\* delivery_for_version of the version on the user's page.
CheckVersion(t) ==
    /\ At(t, {"share"}, "loaded") /\ thread[t].ver = 0
    /\ LET d == Delivered(thread[t].got) IN
       IF d.ver = 0 THEN Ends(t)
       ELSE thread' = [thread EXCEPT ![t].ver = d.ver, ![t].pc = "load"]
    /\ UNCHANGED <<row, cache, versions, ops, history>>

\* The page is rendered from a load of its own and uploaded.
Upload(t) ==
    /\ At(t, {"share"}, "loaded") /\ thread[t].ver # 0
    /\ thread' = [thread EXCEPT ![t].doc = Delivered(thread[t].got).asg,
                                ![t].pc = "upload"]
    /\ UNCHANGED <<row, cache, versions, ops, history>>

(* Mutant: whatever version is posted now is marked. *)
MarksAny(t) == row.pub \/ row.snap # NoSnap

Marks(t) == Delivered(row).ver = thread[t].ver /\ (row.pub \/ row.snap # NoSnap)

RecordDelivery(t) ==
    /\ At(t, {"share"}, "upload") /\ Free
    /\ IF Marks(t)
       THEN /\ row' = IF row.pub THEN [row EXCEPT !.mark = TRUE]
                      ELSE [row EXCEPT !.snap.mark = TRUE]
            /\ marks' = marks \cup {<<thread[t].ver, thread[t].doc>>}
       ELSE UNCHANGED <<row, marks>>
    /\ Goes(t, "committed")
    /\ UNCHANGED <<cache, versions, ops, toggled>>

(***************************************************************************)
(* The specification.                                                      *)
(***************************************************************************)
ScheduleNext ==
    \E t \in Threads :
        \/ \E op \in AllOps : Start(t, op)
        \/ LoadHit(t) \/ ReadRow(t) \/ ReadAssignments(t) \/ StoreCache(t)
        \/ Shown(t) \/ DropCache(t) \/ Unpublish(t)
        \/ \E b \in BOOLEAN : ApiPublished(t, b)
        \/ \E a \in Docs : \/ Save(t, a) \/ PublishSchedule(t, a) \/ RemovePerson(t, a)
                           \/ Seed(t, a)
                           \/ \E on \in BOOLEAN : Toggle(t, on, a)
        \/ LockRow(t) \/ Metadata(t) \/ Delete(t) \/ Invalidate(t)
        \/ CheckVersion(t) \/ Upload(t) \/ RecordDelivery(t)

ScheduleSpec == ScheduleInit /\ [][ScheduleNext]_scheduleVars

(***************************************************************************)
(* The properties.                                                         *)
(***************************************************************************)
\* The values each variable may take; a snapshot, a version and a mark need a
\* row (staffing.py:338, _schema.py:403).
ScheduleTypeOK ==
    /\ row \in Schedules /\ cache \in Schedules \cup {NotCached}
    /\ ~row.has => row = Blank
    /\ thread \in [Threads -> [op : AllOps \cup {"none"},
                               pc : {"idle", "load", "row", "read", "loaded",
                                     "write", "begin", "locked", "committed",
                                     "upload"},
                               got : Schedules, ver : 0..MaxVer, doc : Docs]]
    /\ versions \in 0..MaxVer /\ ops \in 0..MaxOps
    /\ marks \subseteq (1..MaxVer) \X Docs
    /\ toggled \in BOOLEAN

\* A save that loaded the schedule before a toggle does not bring back the
\* centers it turned off: the choice of the last toggle stands
\* (staffing.py:1025).
ToggleStands == row.auto = toggled

\* A schedule says that it was delivered only if that very version was, even
\* if it was edited, posted again or marked late (staffing.py:1164).
Says(s) == s.mark => \E m \in marks : m[1] = s.ver
SaysTruly(s) == Says(s) /\ Says(s.snap)
MarkedIsDelivered == SaysTruly(row) /\ SaysTruly(cache)

\* The stored schedule keeps the manager's choice of centers and tells the truth
\* about what was delivered.
ScheduleIsRight == ScheduleTypeOK /\ ToggleStands /\ MarkedIsDelivered

\* The inductive invariant: what a request has loaded says no more than what was
\* stored, and only a request with a version renders a page to deliver.
ScheduleInv ==
    /\ ScheduleIsRight
    /\ \A t \in Threads :
          /\ SaysTruly(thread[t].got)
          /\ thread[t].pc = "upload" => thread[t].ver # 0

\* An operation under the lock of the row never loses what is posted, whatever
\* the other requests do (staffing.py:760).
LockedKeepsPosted ==
    [][\A t \in Threads :
         (row.pub /\ \/ At(t, {"toggle"}, "locked") /\ thread'[t] = Idle
                     \/ At(t, {"hours"}, "begin") /\ thread'[t].pc = "committed")
           => ~row'.pub /\ (row.snap = NoSnap => row'.snap = SnapshotOf(row))]_scheduleVars

=============================================================================
