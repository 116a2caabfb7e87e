----------------------------- MODULE AutoLunch ------------------------------
(***************************************************************************)
(* The automatic lunch of one person on one day: auto_lunch.run_tick reads *)
(* its inputs for everybody, then advances one person after the other      *)
(* (_advance_person, decide, _apply), while the person punches at the      *)
(* kiosk (routes/timeclock.py, note_employee_clock_out). A tick's reading  *)
(* and its writing are two steps: between them lie an XML-RPC call and the *)
(* Odoo syncs of the people before this one. Whether the mode is           *)
(* observe-only is fixed for the day ("going live is a between-days flip").*)
(***************************************************************************)
EXTENDS Integers, Sequences, FiniteSets

CONSTANTS
    OutAt, InAt,         \* the lunch of the schedule
    FlexAfter, FlexLen,  \* flex_after_hours, flex_minutes
    MaxTime,             \* bound: the clock
    MaxPunches,          \* bound: the employee's punches
    MaxFaults            \* bound: crashes and failed steps

\* A break of the schedule ends after it begins (shift_config.py:134); the
\* minutes of a flexible lunch may be 0 (routes/settings.py:963).
ASSUME LunchAssumption ==
    /\ OutAt \in Nat \ {0} /\ InAt \in Nat /\ OutAt < InAt
    /\ FlexAfter \in Nat /\ FlexLen \in Nat
    /\ MaxTime \in Nat \ {0} /\ MaxPunches \in Nat /\ MaxFaults \in Nat

VARIABLES
    now,
    log,      \* timeclock_punches_log of the person
    odoo,     \* Odoo holds an open attendance
    snap,     \* odoo_open_attendance_cache, and the punches synced by then
    run,      \* the row of auto_lunch_runs
    tick,     \* what run_tick has read
    note,     \* note_employee_clock_out, between its SELECT and its UPDATE
    mode,     \* observe_only and is_flexible
    faults,
    raced     \* history: the person punched inside a tick, or a tick read
              \* inside note_employee_clock_out

vars == <<now, log, odoo, snap, run, tick, note, mode, faults, raced>>

Terminal == {"done", "skipped", "ended_by_employee"}
NoRun == [state |-> "pending", out |-> 0, in |-> 0]
NoTick == [busy |-> FALSE, now |-> 0, run |-> NoRun, latest |-> 0, snap |-> FALSE,
           trust |-> FALSE, first |-> 0]

Ids == DOMAIN log
Before(p, q) == log[p].key < log[q].key \/ (log[p].key = log[q].key /\ p < q)
Unsynced == {p \in Ids : ~log[p].synced}
By(src, act) == {p \in Ids : log[p].src = src /\ log[p].act = act}

(* latest_punches_bulk, trust_local *)
Latest == IF Ids = {} THEN 0 ELSE CHOOSE p \in Ids : \A q \in Ids : q = p \/ Before(q, p)
(* Mutant: the snapshot is trusted once there is one. *)
TrustSnapshot == Latest # 0 /\ ~snap.known
TrustLocal == Latest # 0 /\ (~log[Latest].synced \/ Latest \notin snap.after)

(* _first_clock_in, on the local log *)
FirstClockIn ==
    LET ins == {p \in Ids : log[p].act = "clock_in"}
    IN IF ins = {} THEN 0
       ELSE log[CHOOSE p \in ins : \A q \in ins : log[p].key <= log[q].key].key

(* _window_for: the stored window if it is one, else the schedule's or the flex rule's *)
NoWindow == [out |-> 0, in |-> 0]
WindowFor(r, first) ==
    IF r.out < r.in THEN [out |-> r.out, in |-> r.in]
    ELSE IF ~mode.flex THEN [out |-> OutAt, in |-> InAt]
    ELSE IF first = 0 THEN NoWindow
    ELSE [out |-> first + FlexAfter, in |-> first + FlexAfter + FlexLen]

(* Mutant: a run that is past its end does not end while the person is out. *)
DecideWaits(state, isIn, w, t) ==
    CASE state = "pending" /\ t >= w.out /\ isIn  -> [state |-> "auto_out", act |-> "clock_out", at |-> w.out]
      [] state = "pending" /\ t >= w.out /\ ~isIn -> [state |-> "skipped", act |-> "none", at |-> 0]
      [] state = "auto_out" /\ t >= w.in /\ isIn  -> [state |-> "done", act |-> "none", at |-> 0]
      [] OTHER -> [state |-> state, act |-> "none", at |-> 0]
(* decide: the next state and the punch, if any *)
Decide(state, isIn, w, t) ==
    CASE state = "pending" /\ t >= w.out /\ isIn   -> [state |-> "auto_out", act |-> "clock_out", at |-> w.out]
      [] state = "pending" /\ t >= w.out /\ ~isIn  -> [state |-> "skipped", act |-> "none", at |-> 0]
      [] state = "auto_out" /\ t >= w.in /\ ~isIn  -> [state |-> "done", act |-> "clock_in", at |-> w.in]
      [] state = "auto_out" /\ t >= w.in /\ isIn   -> [state |-> "done", act |-> "none", at |-> 0]
      [] OTHER -> [state |-> state, act |-> "none", at |-> 0]

-----------------------------------------------------------------------------
Init ==
    /\ now = 1
    /\ log = <<>> /\ odoo = FALSE
    /\ snap = [known |-> FALSE, open |-> FALSE, after |-> {}]
    /\ run = NoRun /\ tick = NoTick
    /\ note = [busy |-> FALSE]
    /\ mode \in [observe : BOOLEAN, flex : BOOLEAN]
    /\ faults = 0 /\ raced = FALSE

Clock ==
    /\ now < MaxTime
    /\ now' = now + 1
    /\ UNCHANGED <<log, odoo, snap, run, tick, note, mode, faults, raced>>

(* kiosk_clock_in and kiosk_clock_out up to the log row. The kiosk offers the
   other side of what it shows, and a sign-out throughout the lunch gap. *)
LastIsIn == Ids # {} /\ log[Len(log)].act = "clock_in"
InGap == run.state = "auto_out" /\ run.out <= now /\ now < run.in
Punch(act, src, at) == Append(log, [act |-> act, key |-> at, src |-> src, synced |-> FALSE])
EmployeePunches(act) ==
    /\ Cardinality(By("employee", "clock_in") \cup By("employee", "clock_out")) < MaxPunches
    /\ ~note.busy
    /\ act = "clock_in" => ~LastIsIn /\ ~InGap
    /\ act = "clock_out" => LastIsIn \/ InGap
    /\ log' = Punch(act, "employee", now)
    /\ note' = [busy |-> act = "clock_out" /\ InGap]   \* active_lunch_run
    /\ raced' = (raced \/ tick.busy)
    /\ UNCHANGED <<now, odoo, snap, run, tick, mode, faults>>

(* note_employee_clock_out: UPDATE ... WHERE state = 'auto_out' *)
(* Mutant: the sign-out is not noted. *)
NoteForgotten ==
    /\ note.busy
    /\ note' = [busy |-> FALSE]
    /\ UNCHANGED <<now, log, odoo, snap, run, tick, mode, faults, raced>>
NoteEmployeeClockOut ==
    /\ note.busy
    /\ note' = [busy |-> FALSE]
    /\ run' = IF run.state = "auto_out" THEN [run EXCEPT !.state = "ended_by_employee"] ELSE run
    /\ UNCHANGED <<now, log, odoo, snap, tick, mode, faults, raced>>

(* timeclock_sync, row by row in the order of the rounded times *)
SyncPunch ==
    /\ Unsynced # {}
    /\ LET p == CHOOSE q \in Unsynced : \A r \in Unsynced : r = q \/ Before(q, r)
       IN /\ log' = [log EXCEPT ![p].synced = TRUE]
          /\ odoo' = (log[p].act = "clock_in")
          /\ snap' = [snap EXCEPT !.after = @ \ {p}]
    /\ UNCHANGED <<now, run, tick, note, mode, faults, raced>>

(* live_cache.refresh_odoo_open_attendance *)
RefreshSnapshot ==
    /\ snap' = [known |-> TRUE, open |-> odoo, after |-> Ids \ Unsynced]
    /\ snap' # snap
    /\ UNCHANGED <<now, log, odoo, run, tick, note, mode, faults, raced>>

-----------------------------------------------------------------------------
(* run_tick up to the loop. The candidates are those who are clocked in by the
   snapshot and those with an unfinished run; without a snapshot it does
   nothing. The run and the punch are read after the snapshot, in separate
   queries, all before the loop. *)
ReadTick ==
    /\ ~tick.busy
    /\ snap.known
    /\ snap.open \/ run.state = "auto_out"
    /\ run.state \notin Terminal
    /\ tick' = [busy |-> TRUE, now |-> now, run |-> run, latest |-> Latest,
                snap |-> snap.open, trust |-> TrustLocal, first |-> FirstClockIn]
    /\ raced' = (raced \/ note.busy)
    /\ UNCHANGED <<now, log, odoo, snap, run, note, mode, faults>>

(* attendance_state.current_state on the inputs of the tick, and the pretence
   of the observe-only mode *)
IsClockedIn ==
    /\ ~(mode.observe /\ tick.run.state = "auto_out")
    /\ IF tick.trust THEN log[tick.latest].act = "clock_in" ELSE tick.snap

(* _upsert_run: the sign-in leaves the stored window as it is *)
(* Mutant: the two ends of the window are swapped. *)
UpsertSwapped(d, w) ==
    IF d.act = "clock_in" THEN [run EXCEPT !.state = d.state]
    ELSE [state |-> d.state, out |-> w.in, in |-> w.out]
Upsert(d, w) ==
    IF d.act = "clock_in" THEN [run EXCEPT !.state = d.state]
    ELSE [state |-> d.state, out |-> w.out, in |-> w.in]

(* _advance_person and _apply: the punch and the run in one transaction *)
(* Mutant: the run is saved in a transaction of its own, which may be lost. *)
AdvanceTorn ==
    LET w == WindowFor(tick.run, tick.first)
        d == Decide(tick.run.state, IsClockedIn, w, tick.now)
    IN /\ tick.busy
       /\ tick' = NoTick
       /\ IF w = NoWindow THEN UNCHANGED <<log, run>>
          ELSE /\ log' = IF d.act # "none" /\ ~mode.observe THEN Punch(d.act, "auto_lunch", d.at) ELSE log
               /\ run' \in {run, Upsert(d, w)}
       /\ UNCHANGED <<now, odoo, snap, note, mode, faults, raced>>
AdvancePerson ==
    LET w == WindowFor(tick.run, tick.first)
        d == Decide(tick.run.state, IsClockedIn, w, tick.now)
    IN /\ tick.busy
       /\ tick' = NoTick
       /\ IF w = NoWindow \/ d = [state |-> tick.run.state, act |-> "none", at |-> 0]
          THEN UNCHANGED <<log, run>>
          ELSE /\ log' = IF d.act # "none" /\ ~mode.observe THEN Punch(d.act, "auto_lunch", d.at) ELSE log
               /\ run' = Upsert(d, w)
       /\ UNCHANGED <<now, odoo, snap, note, mode, faults, raced>>

(* An exception for this person, an Odoo calendar that cannot be read, or the
   end of the process: nothing is written. *)
TickFails ==
    /\ tick.busy /\ faults < MaxFaults
    /\ faults' = faults + 1
    /\ tick' = NoTick
    /\ UNCHANGED <<now, log, odoo, snap, run, note, mode, raced>>

(* The process stops: the sign-out of a request under way is not noted. *)
Crash ==
    /\ faults < MaxFaults
    /\ tick.busy \/ note.busy
    /\ faults' = faults + 1
    /\ tick' = NoTick /\ note' = [busy |-> FALSE]
    /\ raced' = (raced \/ note.busy)
    /\ UNCHANGED <<now, log, odoo, snap, run, mode>>

Next ==
    \/ Clock
    \/ \E act \in {"clock_in", "clock_out"} : EmployeePunches(act)
    \/ NoteEmployeeClockOut
    \/ SyncPunch \/ RefreshSnapshot
    \/ ReadTick \/ AdvancePerson \/ TickFails \/ Crash

Spec == Init /\ [][Next]_vars

(* The worker comes every minute, the warmer refreshes, the clock runs. *)
FairSpec ==
    /\ Spec
    /\ WF_vars(Clock) /\ WF_vars(NoteEmployeeClockOut) /\ WF_vars(RefreshSnapshot)
    /\ WF_vars(ReadTick) /\ WF_vars(AdvancePerson)

-----------------------------------------------------------------------------
TypeOK ==
    /\ now \in 1..MaxTime
    /\ \A p \in Ids : /\ log[p].act \in {"clock_in", "clock_out"}
                      /\ log[p].src \in {"employee", "auto_lunch"}
                      /\ log[p].key \in Nat /\ log[p].synced \in BOOLEAN
    /\ run.state \in Terminal \cup {"pending", "auto_out"}
    /\ run.state # "pending" => run.out <= run.in
    /\ snap.after \subseteq Ids
    /\ tick.latest \in 0..Len(log)
    /\ faults \in 0..MaxFaults

AutoOuts == By("auto_lunch", "clock_out")
AutoIns == By("auto_lunch", "clock_in")

(* One lunch a day, whatever is restarted: at most one automatic sign-out and
   one automatic sign-in, nobody is signed in who was not signed out, and a
   signed-out person's run still owes or has settled the sign-in ("a crash
   between them can't strand the employee", _apply). In observe-only mode no
   punch is written at all. *)
OneLunch ==
    /\ Cardinality(AutoOuts) <= 1 /\ Cardinality(AutoIns) <= 1
    /\ \A p \in AutoIns : \E q \in AutoOuts : q < p /\ Before(q, p)
    /\ AutoOuts # {} => run.state \in {"auto_out", "done", "ended_by_employee"}
    /\ mode.observe => AutoOuts = {}

(* Somebody who clocked in in the morning and has not touched the kiosk since
   lunch began gets exactly the lunch of the window, and is signed in again:
   the sign-out that is not in Odoo yet is read from the log, so the sign-in
   is not taken for superfluous (trust_local, _apply). *)
Undisturbed == /\ By("employee", "clock_in") # {}
               /\ \A p \in By("employee", "clock_in") \cup By("employee", "clock_out") :
                     /\ log[p].key < run.out
                     /\ (\A q \in Ids : q > p => log[q].src # "employee") => log[p].act = "clock_in"
LunchIsDeducted ==
    (run.state = "done" /\ ~mode.observe /\ Undisturbed)
        => /\ \E q \in AutoOuts : log[q].key = run.out
           /\ \E q \in AutoIns : log[q].key = run.in

(* A person who signs out in the gap, and does not sign in again, is not signed in by
   the automation, unless the sign-out fell between a tick's reading and its writing
   (note_employee_clock_out, "Signing out during the gap ends the day"). *)
SignedOutInGap(p) ==
    /\ log[p].src = "employee" /\ log[p].act = "clock_out"
    /\ run.out # 0 /\ run.out <= log[p].key /\ log[p].key < run.in
    /\ \A q \in By("employee", "clock_in") : q < p
GapSignOutEndsDay ==
    \A p \in Ids : SignedOutInGap(p) /\ ~raced => \A q \in AutoIns : q < p

\* One automatic sign-out and one sign-in a day, whatever is restarted
\* (auto_lunch.py:423); whoever works through gets exactly the lunch of the
\* window (attendance_state.py:80); who signs out in the gap is not signed in
\* again, unless a tick was under way (auto_lunch.py:546).
LunchIsRight == TypeOK /\ OneLunch /\ LunchIsDeducted /\ GapSignOutEndsDay

(* Every lunch that was begun ends. *)
LunchEnds == (run.state = "auto_out" /\ run.in <= MaxTime) ~> run.state \in Terminal

(***************************************************************************)
(* The inductive invariant.                                                *)
(***************************************************************************)
Punches == [act : {"clock_in", "clock_out"}, key : Nat,
            src : {"employee", "auto_lunch"}, synced : BOOLEAN]

\* Punches carry a time that has come, and the employee's are in order: only
\* the automation writes a punch of the past.
LogInv ==
    /\ log \in Seq(Punches)
    /\ \A p \in Ids : log[p].key \in 1..now
    /\ \A q \in Ids : log[q].src = "employee" => \A p \in 1..q : log[p].key <= log[q].key

\* What the state of the run says of the automatic punches.
RunInv ==
    /\ run \in [state : Terminal \cup {"pending", "auto_out"}, out : Nat, in : Nat]
    /\ IF run.state = "pending" THEN run = NoRun
       ELSE 1 <= run.out /\ run.out <= now /\ run.out <= run.in
    /\ mode.observe \/ run.state \in {"pending", "skipped"} => AutoOuts = {}
    /\ run.state # "done" \/ mode.observe => AutoIns = {}
    /\ ~mode.observe /\ run.state \in {"auto_out", "done", "ended_by_employee"}
         => \E a \in Ids : /\ AutoOuts = {a} /\ log[a].key = run.out
                          /\ \/ AutoIns = {}
                             \/ \E b \in Ids : AutoIns = {b} /\ a < b /\ log[b].key = run.in

\* The window is the schedule's or the flex rule's, whenever it is worked out.
WindowInv ==
    /\ run.state # "pending"
         => IF mode.flex
            THEN /\ FirstClockIn # 0
                 /\ run.out = FirstClockIn + FlexAfter /\ run.in = run.out + FlexLen
            ELSE run.out < run.in
    /\ tick.busy => IF tick.first = 0 THEN tick.run.state = "pending" \/ ~mode.flex
                    ELSE tick.first = FirstClockIn

\* While the log is in the order of its times, Odoo and its snapshot lag behind
\* it by a suffix.
Sorted == \A q \in Ids : \A p \in 1..q : log[p].key <= log[q].key
SyncInv ==
    /\ odoo \in BOOLEAN
    /\ snap \in [known : BOOLEAN, open : BOOLEAN, after : SUBSET Ids]
    /\ log = <<>> => ~odoo /\ ~snap.open
    /\ Sorted => /\ \A q \in Ids : log[q].synced => \A p \in 1..q : log[p].synced
                 /\ log # <<>> /\ log[Len(log)].synced => odoo = LastIsIn
                 /\ Len(log) \in snap.after => snap.open = LastIsIn

\* What a tick has read still holds, but for what the employee did since.
TickInv ==
    /\ tick.busy \in BOOLEAN /\ note.busy \in BOOLEAN /\ raced \in BOOLEAN
    /\ tick.latest \in 0..Len(log)
    /\ tick.busy =>
         /\ tick.now \in 1..now /\ tick.first \in 0..now
         /\ tick.trust \in BOOLEAN /\ tick.snap \in BOOLEAN
         /\ tick.trust => tick.latest # 0
         /\ \/ tick.run = run /\ run.state \notin Terminal
            \/ /\ tick.run = [run EXCEPT !.state = "auto_out"]
               /\ run.state = "ended_by_employee" /\ raced
         /\ note.busy => raced
         /\ tick.run.state = "pending" /\ ~raced /\ IsClockedIn => LastIsIn
         /\ tick.run.state = "auto_out" /\ ~mode.observe /\ Undisturbed => ~IsClockedIn

\* A sign-out in the gap is being noted, or the run is over.
GapInv ==
    \A p \in Ids : SignedOutInGap(p) /\ ~raced
        => \/ run.state = "auto_out" /\ note.busy
           \/ run.state \in Terminal /\ \A q \in AutoIns : q < p

LunchInv ==
    /\ now \in 1..MaxTime /\ faults \in 0..MaxFaults
    /\ mode \in [observe : BOOLEAN, flex : BOOLEAN]
    /\ LogInv /\ RunInv /\ WindowInv /\ SyncInv /\ TickInv /\ GapInv
    /\ LunchIsDeducted

=============================================================================
