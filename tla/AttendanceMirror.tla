-------------------------- MODULE AttendanceMirror --------------------------
(***************************************************************************)
(* The durable copy of Odoo's attendances (attendance_mirror.py) and the   *)
(* runs that keep it (attendance_sync.py): every tick an incremental run   *)
(* reads what changed since the cursor, in pages, and all open rows; once  *)
(* an hour a sweep reads all ids, tombstones the rows that are gone and    *)
(* recovers tombstones that are back. A run holds one lock from before its *)
(* first read to its commit. Beside the runs, a correction job stores the  *)
(* rows it verified. Odoo commits some writes later than the write_date    *)
(* they carry.                                                             *)
(***************************************************************************)
EXTENDS Integers, FiniteSets, FiniteSetsExt

CONSTANTS
    Ids,           \* attendance ids (positive numbers), handed out in order
    WorkDays,      \* days of the plant
    Installed,     \* whether the baseline is complete at the start
    Overlap,       \* fetch_attendance_changes(overlap), in steps of the clock
    MaxTime,       \* bound: the clock stops here
    MaxEdits, MaxHides, MaxTroubles, MaxDirect   \* bounds

ASSUME MirrorAssumption ==
    /\ Ids \subseteq Nat \ {0} /\ Installed \subseteq BOOLEAN
    /\ Overlap \in Nat \ {0} /\ MaxTime \in Nat \ {0}
    /\ MaxEdits \in Nat /\ MaxHides \in Nat /\ MaxTroubles \in Nat /\ MaxDirect \in Nat

VARIABLES
    now,
    odoo,        \* hr.attendance
    tx,          \* an Odoo transaction that has its write_date and is not committed
    mirror,      \* odoo_attendance_mirror
    st,          \* odoo_attendance_sync_state
    run,         \* the run that holds the lock
    tk,          \* tick
    dw,          \* a correction job that stores what it verified
    failing,     \* failed runs whose _record_failure is still to come
    due,         \* the last sweep is an hour old
    queued,      \* attendance_recalc_queue: days to compute again
    computed,    \* history: what the production of a day was computed from
    stale,       \* history: kinds of run that have not seen Odoo as it is now
    missing,     \* history: when a row was last not visible
    edits, hides, troubles, directs

mirrorVars == <<now, odoo, tx, mirror, st, run, tk, dw, failing, due, queued, computed, stale,
          missing, edits, hides, troubles, directs>>

NoAtt == [there |-> FALSE, shown |-> TRUE, wd |-> 0, ver |-> 0, open |-> FALSE, day |-> 0]
NoCopy == [known |-> FALSE, wd |-> 0, ver |-> 0, open |-> FALSE, day |-> 0, deleted |-> 0]
NoTx == [busy |-> FALSE, id |-> 0, att |-> NoAtt]
NoRows == [i \in {} |-> NoAtt]
NoRun == [pc |-> "idle", obs |-> 0, lo |-> <<0, 0>>, hi |-> <<0, 0>>, got |-> NoRows,
          top |-> 0, ids |-> {}, fresh |-> TRUE]
NoTick == [pc |-> "idle", due |-> FALSE, ok |-> TRUE]
NoDirect == [pc |-> "idle", obs |-> 0, id |-> 0, att |-> NoAtt, days |-> {}]

MirrorInit ==
    /\ now = 1
    /\ odoo = [i \in Ids |-> NoAtt]
    /\ tx = NoTx
    /\ mirror = [i \in Ids |-> NoCopy]
    \* a new installation, or one that completed its baseline before the first row
    /\ \E b \in Installed : st = [cursor |-> 0, inc |-> b, sweep |-> b, base |-> b, err |-> {}]
    /\ run = NoRun /\ tk = NoTick /\ dw = NoDirect
    /\ failing = {} /\ due = ~st.base /\ queued = {}
    /\ computed = [d \in WorkDays |-> {}]
    /\ stale = {"inc", "sweep"} /\ missing = [i \in Ids |-> 0]
    /\ edits = 0 /\ hides = 0 /\ troubles = 0 /\ directs = 0

Later == IF now < MaxTime THEN now + 1 ELSE now

appVars == <<mirror, st, tk, dw, failing, due, queued, computed>>

-----------------------------------------------------------------------------
(* Odoo *)
Visible(i) == odoo[i].there /\ odoo[i].shown
Untouched(i) == ~tx.busy \/ tx.id # i
(* Whatever has been read may be out of date from here on. *)
Unseen(kinds) ==
    /\ stale' = stale \cup kinds
    /\ run' = [run EXCEPT !.fresh = FALSE]

Written(i, open, day) ==
    [there |-> TRUE, shown |-> TRUE, wd |-> now, ver |-> odoo[i].ver + 1, open |-> open, day |-> day]
Writable(i) ==
    /\ Untouched(i)
    /\ odoo[i].there => odoo[i].shown
    /\ ~odoo[i].there => /\ odoo[i].ver = 0
                         /\ \A j \in Ids : j < i => odoo[j].ver > 0 \/ (tx.busy /\ tx.id = j)

Write(i, open, day) ==
    /\ edits < MaxEdits /\ edits' = edits + 1
    /\ Writable(i)
    /\ odoo' = [odoo EXCEPT ![i] = Written(i, open, day)]
    /\ Unseen({"inc"})
    /\ UNCHANGED <<now, tx, appVars, missing, hides, troubles, directs>>

BeginWrite(i, open, day) ==
    /\ edits < MaxEdits /\ edits' = edits + 1
    /\ ~tx.busy /\ Writable(i) /\ now < MaxTime
    /\ tx' = [busy |-> TRUE, id |-> i, att |-> Written(i, open, day)]
    /\ UNCHANGED <<now, odoo, run, appVars, stale, missing, hides, troubles, directs>>
(* A transaction does not last longer than the overlap. *)
CommitWrite ==
    /\ tx.busy
    /\ odoo' = [odoo EXCEPT ![tx.id] = tx.att]
    /\ tx' = NoTx
    /\ Unseen({"inc"})
    /\ UNCHANGED <<now, appVars, missing, edits, hides, troubles, directs>>
TimePasses == ~tx.busy \/ Later - tx.att.wd <= Overlap

Remove(i) ==
    /\ edits < MaxEdits /\ edits' = edits + 1
    /\ Visible(i) /\ Untouched(i)
    /\ odoo' = [odoo EXCEPT ![i].there = FALSE, ![i].open = FALSE]
    /\ missing' = [missing EXCEPT ![i] = now]
    /\ Unseen({"sweep"})
    /\ UNCHANGED <<now, tx, appVars, hides, troubles, directs>>

(* A row the account cannot see for a while, without a write *)
Hide(i) ==
    /\ hides < MaxHides /\ hides' = hides + 1
    /\ Visible(i) /\ Untouched(i)
    /\ odoo' = [odoo EXCEPT ![i].shown = FALSE]
    /\ missing' = [missing EXCEPT ![i] = now]
    /\ Unseen({"sweep"})
    /\ UNCHANGED <<now, tx, appVars, edits, troubles, directs>>
Show(i) ==
    /\ odoo[i].there /\ ~odoo[i].shown
    /\ odoo' = [odoo EXCEPT ![i].shown = TRUE]
    /\ missing' = [missing EXCEPT ![i] = now]
    /\ Unseen({"sweep"})
    /\ UNCHANGED <<now, tx, appVars, edits, hides, troubles, directs>>

-----------------------------------------------------------------------------
(* _upsert_rows_cur *)
Stored(att) == [known |-> TRUE, wd |-> att.wd, ver |-> att.ver, open |-> att.open,
                day |-> att.day, deleted |-> 0]
(* Mutant: any observation revives a tombstone. *)
RevivesAlways(old, att, obs) == ~old.known \/ att.wd >= old.wd
Accepts(old, att, obs) ==
    \/ ~old.known
    \/ att.wd >= old.wd /\ (old.deleted = 0 \/ obs > old.deleted)
Upsert(rows, obs) ==
    [i \in Ids |-> IF i \in DOMAIN rows /\ Accepts(mirror[i], rows[i], obs)
                   THEN Stored(rows[i]) ELSE mirror[i]]
(* _materially_different, and the days a change touches *)
(* Mutant: only the day a row has now is queued. *)
TouchesNew(old, new) == IF old = new THEN {} ELSE {new.day}
Touches(old, new) ==
    IF ~old.known /\ new.known THEN {new.day}
    ELSE IF <<old.ver, old.open, old.day, old.deleted>> = <<new.ver, new.open, new.day, new.deleted>>
    THEN {} ELSE {old.day, new.day}
Affected(new) == UNION {Touches(mirror[i], new[i]) : i \in Ids}

(* A store: the rows and, once the baseline is complete, their days. *)
StoreRows(new) ==
    /\ mirror' = new
    /\ queued' = IF st.base THEN queued \cup Affected(new) ELSE queued

-----------------------------------------------------------------------------
(* tick *)
TickBegins ==
    /\ tk.pc = "idle"
    /\ tk' = [pc |-> "inc", due |-> due, ok |-> TRUE]
    /\ UNCHANGED <<now, odoo, tx, mirror, st, run, dw, failing, due, queued, computed, stale,
                   missing, edits, hides, troubles, directs>>

(* run_incremental_sync: the lock, then the clock, then the cursor *)
IncBegins ==
    /\ tk.pc = "inc" /\ run.pc = "idle" /\ TimePasses
    /\ now' = Later
    /\ run' = [NoRun EXCEPT !.pc = "watermark", !.obs = Later]
    /\ UNCHANGED <<odoo, tx, appVars, stale, missing, edits, hides, troubles, directs>>

Key(i) == <<odoo[i].wd, i>>
Before(a, b) == a[1] < b[1] \/ (a[1] = b[1] /\ a[2] < b[2])
AtMost(a, b) == a = b \/ Before(a, b)
(* fetch_attendance_changes: the boundary lies an overlap before the cursor. *)
(* Mutant: the boundary is the cursor. *)
BoundaryAtCursor == <<st.cursor, 0>>
Boundary == IF st.cursor = 0 THEN <<0, 0>> ELSE <<st.cursor - Overlap, 0>>
Watermark ==
    LET new == {i \in Ids : Visible(i) /\ Before(Boundary, Key(i))}
    IN /\ run.pc = "watermark"
       /\ IF new = {} THEN run' = [run EXCEPT !.pc = "open"]
          ELSE \E i \in new : /\ \A j \in new : AtMost(Key(j), Key(i))
                              /\ run' = [run EXCEPT !.pc = "page", !.lo = Boundary, !.hi = Key(i)]
       /\ UNCHANGED <<now, odoo, tx, appVars, stale, missing, edits, hides, troubles, directs>>

(* The newest copy of a row that was read twice, and the rest *)
Newest(rows, more) ==
    [i \in DOMAIN rows \cup DOMAIN more |->
        IF i \in DOMAIN more /\ (i \in DOMAIN rows => more[i].wd >= rows[i].wd)
        THEN more[i] ELSE rows[i]]

(* One page, of one row, in the order of write_date and id *)
Page ==
    LET rest == {i \in Ids : Visible(i) /\ Before(run.lo, Key(i)) /\ AtMost(Key(i), run.hi)}
    IN /\ run.pc = "page"
       /\ IF rest = {}
          THEN run' = [run EXCEPT !.pc = "open",
                                  !.top = Max({0} \cup {run.got[i].wd : i \in DOMAIN run.got})]
          ELSE \E i \in rest :
                 /\ \A j \in rest : AtMost(Key(i), Key(j))
                 /\ run' = [run EXCEPT !.lo = Key(i), !.got = Newest(@, [k \in {i} |-> odoo[i]])]
       /\ UNCHANGED <<now, odoo, tx, appVars, stale, missing, edits, hides, troubles, directs>>

OpenRows ==
    /\ run.pc = "open"
    /\ LET open == {i \in Ids : Visible(i) /\ odoo[i].open}
       IN run' = [run EXCEPT !.pc = "store", !.got = Newest(@, [i \in open |-> odoo[i]])]
    /\ UNCHANGED <<now, odoo, tx, appVars, stale, missing, edits, hides, troubles, directs>>

(* _later_cursor: only the changes move the cursor, not the open rows. *)
(* Mutant: the cursor is set past the overlap. *)
CursorPastOverlap == Max({st.cursor, run.top + Overlap + 1})
LaterCursor == Max({st.cursor, run.top})

(* Mutant: a success leaves the errors on record. *)
KeepsErrors(owner) == st.err
ErrorAfterSuccess(owner) == st.err \ {owner}

(* _store_incremental_cycle_cur, and the commit *)
StoreIncremental ==
    /\ run.pc = "store"
    /\ StoreRows(Upsert(run.got, run.obs))
    /\ st' = [st EXCEPT !.cursor = LaterCursor, !.inc = TRUE, !.err = ErrorAfterSuccess("inc")]
    /\ stale' = IF run.fresh THEN stale \ {"inc"} ELSE stale
    /\ run' = NoRun
    /\ tk' = [tk EXCEPT !.pc = IF tk.due THEN "sweep" ELSE "base"]
    /\ UNCHANGED <<now, odoo, tx, dw, failing, due, computed, missing, edits, hides, troubles, directs>>

-----------------------------------------------------------------------------
(* _run_full_sweep: whether it is due is asked again under the lock. *)
SweepBegins ==
    /\ tk.pc = "sweep" /\ run.pc = "idle" /\ TimePasses
    /\ IF due THEN /\ now' = Later
                   /\ run' = [NoRun EXCEPT !.pc = "ids", !.obs = Later]
                   /\ tk' = tk
       ELSE UNCHANGED <<now, run>> /\ tk' = [tk EXCEPT !.pc = IF tk.ok THEN "base" ELSE "idle"]
    /\ UNCHANGED <<odoo, tx, mirror, st, dw, failing, due, queued, computed, stale, missing,
                   edits, hides, troubles, directs>>

Active == {i \in Ids : mirror[i].known /\ mirror[i].deleted = 0}
(* fetch_all_attendance_ids; Odoo may answer with nothing although there are rows. *)
FetchIds ==
    /\ run.pc = "ids"
    /\ \/ /\ run' = [run EXCEPT !.pc = "confirm", !.ids = {i \in Ids : Visible(i)}]
          /\ UNCHANGED troubles
       \/ /\ troubles < MaxTroubles /\ troubles' = troubles + 1
          /\ run' = [run EXCEPT !.pc = "confirm", !.ids = {}]
    /\ UNCHANGED <<now, odoo, tx, appVars, stale, missing, edits, hides, directs>>

(* The run fails: nothing is stored, the failure is recorded afterwards. *)
Fails(owner) ==
    /\ run' = NoRun
    /\ failing' = failing \cup {owner}
    /\ tk' = [tk EXCEPT !.pc = IF owner = "inc" /\ tk.due THEN "sweep" ELSE "idle", !.ok = FALSE]

(* An empty sweep is believed only when none of the known rows can be read. *)
(* Mutant: an empty sweep is believed. *)
BelieveEmpty ==
    /\ run.pc = "confirm"
    /\ run' = [run EXCEPT !.pc = "recover"]
    /\ UNCHANGED <<now, odoo, tx, appVars, stale, missing, edits, hides, troubles, directs>>
ConfirmEmpty ==
    /\ run.pc = "confirm"
    /\ IF run.ids = {} /\ \E i \in Active : Visible(i)
       THEN Fails("sweep")
       ELSE run' = [run EXCEPT !.pc = "recover"] /\ UNCHANGED <<failing, tk>>
    /\ UNCHANGED <<now, odoo, tx, mirror, st, dw, due, queued, computed, stale, missing, edits,
                   hides, troubles, directs>>

(* Tombstones whose ids are back are read again, all of them. *)
ReadRecovery ==
    LET back == {i \in run.ids : mirror[i].known /\ mirror[i].deleted # 0}
    IN /\ run.pc = "recover"
       /\ IF \E i \in back : ~Visible(i)
          THEN Fails("sweep")
          ELSE /\ run' = [run EXCEPT !.pc = "sstore", !.got = [i \in back |-> odoo[i]]]
               /\ UNCHANGED <<failing, tk>>
       /\ UNCHANGED <<now, odoo, tx, mirror, st, dw, due, queued, computed, stale, missing, edits,
                      hides, troubles, directs>>

(* _store_full_sweep_cur *)
StoreSweep ==
    LET up == Upsert(run.got, run.obs)
        new == [i \in Ids |-> IF up[i].known /\ up[i].deleted = 0 /\ i \notin run.ids
                              THEN [up[i] EXCEPT !.deleted = run.obs] ELSE up[i]]
    IN /\ run.pc = "sstore"
       /\ StoreRows(new)
       /\ st' = [st EXCEPT !.sweep = TRUE, !.err = ErrorAfterSuccess("sweep")]
       /\ stale' = IF run.fresh THEN stale \ {"sweep"} ELSE stale
       /\ due' = FALSE
       /\ run' = NoRun
       /\ tk' = [tk EXCEPT !.pc = IF tk.ok THEN "base" ELSE "idle"]
       /\ UNCHANGED <<now, odoo, tx, dw, failing, computed, missing, edits, hides, troubles, directs>>

(* _complete_baseline_if_ready; what the plant shows is computed from here on. *)
View(d) == {<<i, mirror[i].ver>> : i \in {k \in Active : mirror[k].day = d}}
CompleteBaseline ==
    /\ tk.pc = "base"
    /\ st' = [st EXCEPT !.base = @ \/ (st.inc /\ st.sweep)]
    /\ computed' = IF ~st.base /\ st'.base THEN [d \in WorkDays |-> View(d)] ELSE computed
    /\ tk' = NoTick
    /\ UNCHANGED <<now, odoo, tx, mirror, run, dw, failing, due, queued, stale, missing, edits,
                   hides, troubles, directs>>

-----------------------------------------------------------------------------
Owner == IF run.pc \in {"watermark", "page", "open", "store"} THEN "inc" ELSE "sweep"
RunFails ==
    /\ run.pc # "idle" /\ troubles < MaxTroubles /\ troubles' = troubles + 1
    /\ Fails(Owner)
    /\ UNCHANGED <<now, odoo, tx, mirror, st, dw, due, queued, computed, stale, missing, edits,
                   hides, directs>>
RecordFailure(owner) ==
    /\ owner \in failing
    /\ failing' = failing \ {owner}
    /\ st' = [st EXCEPT !.err = @ \cup {owner}]
    /\ UNCHANGED <<now, odoo, tx, mirror, run, tk, dw, due, queued, computed, stale, missing, edits,
                   hides, troubles, directs>>
MirrorCrash ==
    /\ tk.pc # "idle" /\ troubles < MaxTroubles /\ troubles' = troubles + 1
    /\ run' = NoRun /\ tk' = NoTick /\ failing' = {}
    /\ UNCHANGED <<now, odoo, tx, mirror, st, dw, due, queued, computed, stale, missing, edits,
                   hides, directs>>
HourPasses ==
    /\ ~due /\ due' = TRUE
    /\ UNCHANGED <<now, odoo, tx, mirror, st, run, tk, dw, failing, queued, computed, stale, missing,
                   edits, hides, troubles, directs>>

(* attendance_recalc: the day is computed from the mirror as it is. *)
Recalculate(d) ==
    /\ d \in queued
    /\ queued' = queued \ {d}
    /\ computed' = [computed EXCEPT ![d] = View(d)]
    /\ UNCHANGED <<now, odoo, tx, mirror, st, run, tk, dw, failing, due, stale, missing, edits,
                   hides, troubles, directs>>

(* A correction job: its clock, its reading, and _mirror_verified_rows, which
   waits for the state row a run holds; then the days of what it deleted. *)
DirectBegins ==
    /\ dw.pc = "idle" /\ directs < MaxDirect /\ directs' = directs + 1
    /\ TimePasses
    /\ now' = Later
    /\ dw' = [NoDirect EXCEPT !.pc = "read", !.obs = Later]
    /\ UNCHANGED <<odoo, tx, mirror, st, run, tk, failing, due, queued, computed, stale, missing,
                   edits, hides, troubles>>
DirectRead(i) ==
    /\ dw.pc = "read" /\ mirror[i].known
    /\ dw' = [dw EXCEPT !.pc = "store", !.id = i, !.att = IF Visible(i) THEN odoo[i] ELSE NoAtt]
    /\ UNCHANGED <<now, odoo, tx, mirror, st, run, tk, failing, due, queued, computed, stale,
                   missing, edits, hides, troubles, directs>>
DirectStore ==
    LET i == dw.id
        old == mirror[i]
    IN /\ dw.pc = "store" /\ run.pc = "idle"
       /\ IF dw.att.there
          THEN StoreRows(Upsert([k \in {i} |-> dw.att], dw.obs)) /\ dw' = NoDirect
          ELSE /\ mirror' = IF old.deleted = 0 THEN [mirror EXCEPT ![i].deleted = dw.obs] ELSE mirror
               /\ dw' = [dw EXCEPT !.pc = "enqueue", !.days = {old.day}]
               /\ UNCHANGED queued
       /\ UNCHANGED <<now, odoo, tx, st, run, tk, failing, due, computed, stale, missing, edits,
                      hides, troubles, directs>>
DirectEnqueue ==
    /\ dw.pc = "enqueue"
    /\ queued' = queued \cup dw.days
    /\ dw' = NoDirect
    /\ UNCHANGED <<now, odoo, tx, mirror, st, run, tk, failing, due, computed, stale, missing, edits,
                   hides, troubles, directs>>

-----------------------------------------------------------------------------
Sync == \/ TickBegins \/ IncBegins \/ Watermark \/ Page \/ OpenRows \/ StoreIncremental
        \/ SweepBegins \/ FetchIds \/ ConfirmEmpty \/ ReadRecovery \/ StoreSweep
        \/ CompleteBaseline
Odoo == \/ \E i \in Ids, open \in BOOLEAN, d \in WorkDays : Write(i, open, d) \/ BeginWrite(i, open, d)
        \/ CommitWrite
        \/ \E i \in Ids : Remove(i) \/ Hide(i) \/ Show(i)
Job == DirectBegins \/ (\E i \in Ids : DirectRead(i)) \/ DirectStore \/ DirectEnqueue

MirrorNext == \/ Odoo \/ Sync \/ Job \/ RunFails \/ MirrorCrash \/ HourPasses
        \/ \E o \in {"inc", "sweep"} : RecordFailure(o)
        \/ \E d \in WorkDays : Recalculate(d)

MirrorSpec == MirrorInit /\ [][MirrorNext]_mirrorVars

(* The ticker comes round for ever, an hour passes, and a transaction of Odoo
   ends. *)
MirrorFairSpec ==
    /\ MirrorSpec
    /\ WF_mirrorVars(Sync) /\ WF_mirrorVars(HourPasses) /\ WF_mirrorVars(CommitWrite)
    /\ \A i \in Ids : WF_mirrorVars(Show(i))
    /\ \A o \in {"inc", "sweep"} : WF_mirrorVars(RecordFailure(o))

-----------------------------------------------------------------------------
AttType == [there : BOOLEAN, shown : BOOLEAN, wd : 0..MaxTime, ver : Nat, open : BOOLEAN,
            day : WorkDays \cup {0}]
CopyType == [known : BOOLEAN, wd : 0..MaxTime, ver : Nat, open : BOOLEAN,
             day : WorkDays \cup {0}, deleted : 0..MaxTime]
Owners == {"inc", "sweep"}
IncPhases == {"watermark", "page", "open", "store"}
SweepPhases == {"ids", "confirm", "recover", "sstore"}
RunType(rows) == [pc : {"idle"} \cup IncPhases \cup SweepPhases, obs : 0..MaxTime,
                  lo : Int \X Nat, hi : Int \X Nat, got : [rows -> AttType], top : Nat,
                  ids : SUBSET Ids, fresh : BOOLEAN]
DirectType == [pc : {"idle", "read", "store", "enqueue"}, obs : 0..MaxTime, id : Ids \cup {0},
               att : AttType, days : SUBSET WorkDays]

\* The values each variable of the mirror may take (_schema.py:202).
MirrorTypeOK ==
    /\ now \in 1..MaxTime
    /\ odoo \in [Ids -> AttType] /\ mirror \in [Ids -> CopyType]
    /\ tx \in [busy : BOOLEAN, id : Ids \cup {0}, att : AttType]
    /\ st \in [cursor : 0..MaxTime, inc : BOOLEAN, sweep : BOOLEAN, base : BOOLEAN,
               err : SUBSET Owners]
    /\ DOMAIN run.got \subseteq Ids /\ run \in RunType(DOMAIN run.got)
    /\ dw \in DirectType
    /\ tk \in [pc : {"idle", "inc", "sweep", "base"}, due : BOOLEAN, ok : BOOLEAN]
    /\ failing \subseteq Owners /\ due \in BOOLEAN
    /\ queued \subseteq WorkDays /\ DOMAIN computed = WorkDays
    /\ stale \subseteq Owners /\ missing \in [Ids -> 0..MaxTime]
    /\ edits \in Nat /\ hides \in Nat /\ troubles \in Nat /\ directs \in Nat

\* When an incremental run and a sweep have both read Odoo as it is now, the
\* mirror is Odoo: no write that was committed late, moved between two pages
\* or made while a run was reading is ever passed over by the cursor
\* (_odoo_attendance.py:307, attendance_mirror.py:446, :761). Rows that come
\* back into sight, and rows a correction job read earlier, are not promised.
SameAsOdoo(i) ==
    IF Visible(i)
    THEN mirror[i].known /\ mirror[i].deleted = 0 /\ mirror[i].ver = odoo[i].ver
    ELSE mirror[i].known => mirror[i].deleted # 0
Converged ==
    stale = {} /\ hides = 0 /\ directs = 0 => \A i \in Ids : SameAsOdoo(i)

\* A tombstone stands for a row that was really not there after the sweep or
\* the job that set it began (attendance_sync.py:350).
Absent(i, t) == ~Visible(i) \/ missing[i] >= t
TombstoneIsTrue ==
    \A i \in Ids : mirror[i].deleted # 0 => Absent(i, mirror[i].deleted)

\* A day that is not queued was computed from the rows the mirror has for it:
\* every insert, edit, move, deletion and recovery after the baseline queued
\* the days it touches (attendance_mirror.py:411).
UnqueuedIsComputed ==
    st.base => \A d \in WorkDays : \/ d \in queued \/ computed[d] = View(d)
                                   \/ dw.pc = "enqueue" /\ d \in dw.days

\* The mirror is typed and true, and what the plant shows was computed from it.
MirrorIsRight == MirrorTypeOK /\ Converged /\ TombstoneIsTrue /\ UnqueuedIsComputed

\* A tombstone is removed only by a reading that began after it was set
\* (attendance_mirror.py:269).
RevivesLater ==
    \A i \in Ids : mirror[i].deleted # 0 /\ mirror'[i].deleted = 0
                   => (IF run.pc = "idle" THEN dw.obs ELSE run.obs) > mirror[i].deleted
ReviveIsNew == [][RevivesLater]_mirrorVars

(* The mirror stops differing from Odoo when Odoo stops changing, and no error
   stays on record. *)
Settled == st.err = {} /\ \A i \in Ids : SameAsOdoo(i)
EventuallyConverges == <>[]Settled

(***************************************************************************)
(* The inductive invariant.                                                *)
(***************************************************************************)
\* Odoo: ids are not used again, a row under a transaction stays, and the clock
\* does not leave the write date of a transaction further behind than the overlap.
OdooInv ==
    /\ \A i \in Ids : /\ odoo[i].wd <= now /\ missing[i] <= now
                      /\ odoo[i].there => odoo[i].ver > 0 /\ odoo[i].wd > 0 /\ odoo[i].day \in WorkDays
                      /\ missing[i] # 0 => odoo[i].ver > 0
    /\ tx.busy => LET old == odoo[tx.id]
                  IN /\ tx.id \in Ids
                     /\ tx.att.there /\ tx.att.shown /\ tx.att.day \in WorkDays
                     /\ tx.att.ver = old.ver + 1
                     /\ 0 < tx.att.wd /\ old.wd <= tx.att.wd /\ tx.att.wd <= now
                     /\ now <= tx.att.wd + Overlap
                     /\ old.ver = 0 \/ (old.there /\ old.shown)

\* What was read was there; what is stored was read.
CopyInv ==
    /\ \A i \in Ids : /\ mirror[i].deleted # 0 => mirror[i].known
                      /\ mirror[i].deleted <= now
                      /\ mirror[i].known => odoo[i].ver > 0 /\ mirror[i].day \in WorkDays
    /\ \A i \in DOMAIN run.got :
          odoo[i].ver > 0 /\ run.got[i].day \in WorkDays /\ run.got[i].wd <= now
    /\ dw.pc = "store" => /\ dw.id \in Ids /\ mirror[dw.id].known
                          /\ dw.att.there => dw.att.day \in WorkDays
    /\ run.pc # "idle" => 0 < run.obs /\ run.obs <= now
    /\ dw.pc # "idle" => 0 < dw.obs /\ dw.obs <= now /\ directs > 0
    /\ st.cursor <= now /\ run.top <= now

\* A known row that a sweep, or a job, did not find was not there.
AbsentInv ==
    /\ run.pc \in {"confirm", "recover", "sstore"} /\ (run.ids # {} \/ run.pc # "confirm")
         => \A i \in Active \ run.ids : Absent(i, run.obs)
    /\ run.pc = "sstore" => DOMAIN run.got \subseteq run.ids
    /\ dw.pc = "store" /\ ~dw.att.there => Absent(dw.id, dw.obs)

\* While no row goes out of sight and no job stores rows of its own: the mirror
\* and what a run has read follow Odoo's versions.
Mirrored(i) == mirror[i].known /\ mirror[i].deleted = 0 /\ mirror[i].ver = odoo[i].ver
VersionInv ==
    /\ run.pc # "idle" => run.obs = now
    /\ \A i \in Ids :
          /\ odoo[i].shown
          /\ missing[i] # 0 \/ mirror[i].deleted # 0 => ~odoo[i].there
          /\ mirror[i].known => mirror[i].ver <= odoo[i].ver /\ mirror[i].wd <= odoo[i].wd
    /\ \A i \in DOMAIN run.got :
          /\ run.got[i].ver <= odoo[i].ver /\ run.got[i].wd <= odoo[i].wd
          /\ mirror[i].known => mirror[i].ver <= run.got[i].ver /\ mirror[i].wd <= run.got[i].wd

\* A row that is not mirrored lies behind the boundary of the next reading; while
\* a run reads, it was read, will be read, or was committed since the run began.
CursorInv ==
    \A i \in Ids : Visible(i) /\ ~Mirrored(i) =>
        /\ st.cursor = 0 \/ odoo[i].wd >= st.cursor - Overlap
        /\ run.pc \in {"page", "open", "store"} =>
             \/ i \in DOMAIN run.got /\ run.got[i].ver = odoo[i].ver
             \/ run.pc = "page" /\ Before(run.lo, Key(i)) /\ AtMost(Key(i), run.hi)
             \/ ~run.fresh /\ odoo[i].wd >= now - Overlap

\* What a run that was fresh has established.
FreshInv ==
    /\ "inc" \notin stale => \A i \in Ids : Visible(i) => Mirrored(i)
    /\ "sweep" \notin stale =>
         /\ \A i \in Ids : mirror[i].known /\ ~Visible(i) => mirror[i].deleted # 0
         /\ \A i \in DOMAIN run.got : Visible(i)
    /\ run.pc \in {"confirm", "recover", "sstore"} /\ run.fresh => \A i \in run.ids : Visible(i)
    /\ run.pc \in {"idle", "watermark"} \cup SweepPhases => DOMAIN run.got = {}

AttendanceInv ==
    /\ MirrorTypeOK /\ OdooInv /\ CopyInv /\ AbsentInv
    /\ TombstoneIsTrue /\ UnqueuedIsComputed
    /\ hides = 0 /\ directs = 0 => VersionInv /\ CursorInv /\ FreshInv

=============================================================================
