---------------------------- MODULE PayrollGuard ----------------------------
(***************************************************************************)
(* The payroll guard (payroll_work_entry_guard.py, _rules.py, _store.py)   *)
(* on the work entries of one employee and day.                            *)
(*                                                                         *)
(* Odoo credits a day with half an hour too much regular time.  Every five *)
(* minutes a pass looks at the day, saves the exact correction as an       *)
(* attempt, reads the entry again, changes or deletes it, reads it once    *)
(* more and turns the attempt into an audit row.  A pass takes the         *)
(* attempts an earlier one left behind first.  Passes of several processes *)
(* exclude each other by an advisory lock that a dead process releases.    *)
(* Payroll staff change entries and attendance at any time.                *)
(***************************************************************************)
EXTENDS Integers, FiniteSets

CONSTANTS Procs,
          Excess,       \* the known defect: half an hour
          Tol,          \* one minute
          MaxDur,       \* longest duration
          Edits,        \* what payroll staff may change in a run
          MaxEdits, MaxFaults, MaxAttempts

ASSUME BoundsAssumption ==
    /\ Excess \in Nat /\ Tol \in Nat /\ MaxDur \in Nat
    /\ MaxEdits \in Nat /\ MaxFaults \in Nat /\ MaxAttempts \in Nat

VARIABLES ents,      \* the regular work entries of the day
          att,       \* attendance: regular, worked and approved overtime
          attempts,  \* payroll_work_entry_correction_attempts
          audits,    \* payroll_work_entry_corrections, by attempt
          pass,      \* the pass of each process
          made, edits, faults,
          touched    \* history: attempts whose change reached Odoo

vars == <<ents, att, attempts, audits, pass, made, edits, faults, touched>>

Ids == {1, 2}
Overtime == 4
Durations == 0..MaxDur
Entries == [dur : Durations, st : {"draft", "validated", "gone"}]
Days == [reg : Durations, raw : {0, Overtime}, val : {0, Overtime},
         ok : BOOLEAN, paid : {0, Overtime}]
Attempts == [n : 1..MaxAttempts, id : Ids, before : Durations, after : Durations]
Nothing == [n |-> 0, id |-> 0, before |-> 0, after |-> 0]
Idle == [pc |-> "idle", todo |-> {}, cur |-> Nothing, new |-> FALSE, pend |-> {}]

Init ==
    /\ ents \in [Ids -> Entries] /\ ents[2] = [dur |-> 0, st |-> "gone"]
    /\ ents[1].st = "draft"
    /\ att \in Days
    /\ attempts = {} /\ audits = {} /\ touched = {}
    /\ pass = [g \in Procs |-> Idle]
    /\ made = 0 /\ edits = 0 /\ faults = 0

(***************************************************************************)
(* The rules.                                                              *)
(***************************************************************************)
Near(a, b) == a - b <= Tol /\ b - a <= Tol

Present == {i \in Ids : ents[i].st # "gone"}
Regular(i) == IF i \in Present THEN ents[i].dur ELSE 0
WorkRegular == Regular(1) + Regular(2)

(* Mutant: the excess is taken off the wrong side. *)
TargetTwice == 2 * att.reg - WorkRegular

\* before_duration - measured_excess, for a single regular entry.
Target == WorkRegular - (WorkRegular - att.reg)

NoopDay ==
    \/ Near(WorkRegular, att.reg) /\ Near(att.paid, att.val)
    \/ att.raw = 0 /\ att.val = 0 /\ att.paid = 0

\* The reasons of a review are what fails here.
CorrectDay ==
    /\ ~NoopDay
    /\ Cardinality(Present) = 1
    /\ att.val > 0
    /\ att.raw > 0 => att.ok
    /\ Near(att.raw, att.val) /\ Near(att.paid, att.val)
    /\ Near(WorkRegular - att.reg, Excess)
    /\ \A i \in Present : ents[i].st = "draft"
    /\ Target >= -Tol

\* A target of zero deletes the entry.
Correction(n) ==
    LET i == CHOOSE j \in Present : TRUE
    IN  [n |-> n, id |-> i, before |-> ents[i].dur,
         after |-> IF Near(Target, 0) THEN 0 ELSE Target]

\* _duration_matches: the row is the draft it was.
Matches(a, d) == ents[a.id].st = "draft" /\ Near(ents[a.id].dur, d)
AtTarget(a) == IF a.after = 0 THEN ents[a.id].st = "gone" ELSE Matches(a, a.after)

(***************************************************************************)
(* A pass.                                                                 *)
(***************************************************************************)
odoo == <<ents, att, touched>>
book == <<attempts, audits, made>>

At(g, pc) == pass[g].pc = pc
To(g, pc) == pass' = [pass EXCEPT ![g].pc = pc]
Fault == faults < MaxFaults /\ faults' = faults + 1

\* What follows a pending attempt, and the one this pass made.
After(g) == IF pass[g].new THEN "sync" ELSE "next"

(* Mutant: what stayed pending is not remembered. *)
LeavesForgotten(g) ==
    pass' = [pass EXCEPT ![g].pc = After(g), ![g].cur = Nothing]

\* _mark_pending.
Leaves(g) ==
    pass' = [pass EXCEPT ![g].pc = After(g), ![g].cur = Nothing,
                         ![g].pend = @ \cup {pass[g].cur.id}]

\* run_once: guard_lock, then load_pending_attempts.
Begin(g) ==
    /\ \A h \in Procs : At(h, "idle")
    /\ pass' = [pass EXCEPT ![g] = [Idle EXCEPT !.pc = "next", !.todo = attempts]]
    /\ UNCHANGED <<odoo, book, edits, faults>>

TakePending(g) ==
    /\ At(g, "next") /\ pass[g].todo # {}
    /\ LET a == CHOOSE b \in pass[g].todo : \A c \in pass[g].todo : b.n <= c.n
       IN  pass' = [pass EXCEPT ![g].cur = a, ![g].todo = @ \ {a}, ![g].pc = "fresh"]
    /\ UNCHANGED <<odoo, book, edits, faults>>

(* Mutant: recovery only looks whether the change arrived. *)
FreshReadOnce(g) ==
    LET a == pass[g].cur IN
    /\ At(g, "fresh")
    /\ CASE AtTarget(a) -> To(g, "final")
         [] ~AtTarget(a) /\ Matches(a, a.before) /\ pass[g].new -> To(g, "mutate")
         [] OTHER -> Leaves(g)
    /\ UNCHANGED <<odoo, book, edits, faults>>

\* _reconcile_attempt up to the change.
FreshRead(g) ==
    LET a == pass[g].cur IN
    /\ At(g, "fresh")
    /\ CASE AtTarget(a) -> To(g, "final")
         [] ~AtTarget(a) /\ Matches(a, a.before) -> To(g, "mutate")
         [] OTHER -> Leaves(g)
    /\ UNCHANGED <<odoo, book, edits, faults>>

ReadFails(g) ==
    /\ At(g, "fresh") \/ At(g, "verify")
    /\ Fault /\ Leaves(g)
    /\ UNCHANGED <<odoo, book, edits>>

\* Odoo does what it is asked; it may refuse, or its answer may be lost.
Mutate(g) ==
    LET a == pass[g].cur IN
    /\ At(g, "mutate") /\ ents[a.id].st # "gone"
    /\ ents' = [ents EXCEPT ![a.id] =
                  IF a.after = 0 THEN [dur |-> 0, st |-> "gone"]
                  ELSE [@ EXCEPT !.dur = a.after]]
    /\ touched' = touched \cup {a.n}
    /\ To(g, "verify")
    /\ UNCHANGED <<att, book, edits, faults>>

MutateFails(g) ==
    /\ At(g, "mutate")
    /\ ents[pass[g].cur.id].st = "draft" => faults < MaxFaults
    /\ faults' = IF faults < MaxFaults THEN faults + 1 ELSE faults
    /\ To(g, "verify")
    /\ UNCHANGED <<odoo, book, edits>>

\* _read_after_mutation.
Verify(g) ==
    /\ At(g, "verify")
    /\ IF AtTarget(pass[g].cur) THEN To(g, "final") ELSE Leaves(g)
    /\ UNCHANGED <<odoo, book, edits, faults>>

(* Mutant: the attempt is removed in a transaction before the audit. *)
FinalizeInTwo(g) ==
    /\ At(g, "final")
    /\ attempts' = attempts \ {pass[g].cur}
    /\ audits' = IF faults < MaxFaults THEN audits ELSE audits \cup {pass[g].cur.n}
    /\ pass' = [pass EXCEPT ![g].pc = After(g), ![g].cur = Nothing]
    /\ UNCHANGED <<odoo, made, edits, faults>>

\* finalize_attempt, in one transaction.
Finalize(g) ==
    /\ At(g, "final")
    /\ attempts' = attempts \ {pass[g].cur}
    /\ audits' = audits \cup {pass[g].cur.n}
    /\ pass' = [pass EXCEPT ![g].pc = After(g), ![g].cur = Nothing]
    /\ UNCHANGED <<odoo, made, edits, faults>>

FinalizeFails(g) ==
    /\ At(g, "final") /\ Fault /\ Leaves(g)
    /\ UNCHANGED <<odoo, book, edits>>

\* fetch_payroll_inputs and classify_day; the decision is acted on later.
Classify(g) ==
    /\ At(g, "next") /\ pass[g].todo = {}
    /\ IF CorrectDay /\ made < MaxAttempts
       THEN pass' = [pass EXCEPT ![g].pc = "create", ![g].cur = Correction(made + 1)]
       ELSE To(g, "sync")
    /\ UNCHANGED <<odoo, book, edits, faults>>

\* create_attempt, unless the entry is pending.
Create(g) ==
    LET a == pass[g].cur IN
    /\ At(g, "create")
    /\ a.id \notin pass[g].pend
    /\ attempts' = attempts \cup {a} /\ made' = made + 1
    /\ pass' = [pass EXCEPT ![g].pc = "fresh", ![g].new = TRUE]
    /\ UNCHANGED <<odoo, audits, edits, faults>>

Skip(g) ==
    /\ At(g, "create")
    /\ \/ pass[g].cur.id \in pass[g].pend /\ UNCHANGED faults
       \/ Fault
    /\ To(g, "sync")
    /\ UNCHANGED <<odoo, book, edits>>

\* sync_review_task, and the lock is released.
Sync(g) ==
    /\ At(g, "sync")
    /\ pass' = [pass EXCEPT ![g] = Idle]
    /\ UNCHANGED <<odoo, book, edits, faults>>

Crash(g) ==
    /\ ~At(g, "idle") /\ Fault
    /\ pass' = [pass EXCEPT ![g] = Idle]
    /\ UNCHANGED <<odoo, book, edits>>

(***************************************************************************)
(* Payroll staff and Odoo.                                                 *)
(***************************************************************************)
Edited(e) == e \in Edits /\ edits < MaxEdits /\ edits' = edits + 1
Ours == <<book, pass, faults, touched>>

EditDuration(i, d) ==
    /\ Edited("duration") /\ ents[i].st = "draft"
    /\ ents' = [ents EXCEPT ![i].dur = d]
    /\ UNCHANGED <<att, Ours>>

Validate(i) ==
    /\ Edited("validate") /\ ents[i].st = "draft"
    /\ ents' = [ents EXCEPT ![i].st = "validated"]
    /\ UNCHANGED <<att, Ours>>

\* Odoo makes the entries of a changed attendance anew.
Regenerate(d) ==
    /\ Edited("regenerate") /\ ents[2].st = "gone"
    /\ ents' = [i \in Ids |-> IF i = 1 THEN [dur |-> 0, st |-> "gone"]
                              ELSE [dur |-> d, st |-> "draft"]]
    /\ UNCHANGED <<att, Ours>>

EditAttendance(d) ==
    /\ Edited("attendance") /\ att' = d
    /\ UNCHANGED <<ents, Ours>>

(***************************************************************************)
(* The specification.                                                      *)
(***************************************************************************)
Step(g) ==
    \/ TakePending(g) \/ FreshRead(g) \/ Mutate(g) \/ Verify(g)
    \/ Finalize(g) \/ Classify(g) \/ Create(g) \/ Skip(g) \/ Sync(g)

Next ==
    \/ \E g \in Procs :
          \/ Begin(g) \/ Step(g) \/ ReadFails(g) \/ MutateFails(g)
          \/ FinalizeFails(g) \/ Crash(g)
    \/ \E i \in Ids : Validate(i) \/ \E d \in Durations : EditDuration(i, d)
    \/ \E d \in Durations : Regenerate(d)
    \/ \E d \in Days : EditAttendance(d)

Spec == Init /\ [][Next]_vars

\* A pass every five minutes that takes its steps; faults and edits end.
LiveSpec ==
    /\ Spec
    /\ WF_vars(\E g \in Procs : Begin(g))
    /\ \A g \in Procs : WF_vars(Step(g) \/ MutateFails(g))

(***************************************************************************)
(* The properties.                                                         *)
(***************************************************************************)
\* The values each variable may take; only one pass runs, and a correction is
\* a value Odoo accepts (payroll_work_entry_store.py:104).
TypeOK ==
    /\ ents \in [Ids -> Entries] /\ att \in Days
    /\ attempts \subseteq Attempts
    /\ audits \subseteq 1..MaxAttempts /\ touched \subseteq 1..MaxAttempts
    /\ DOMAIN pass \subseteq Procs
    /\ \A g \in DOMAIN pass :
          /\ pass[g].todo \subseteq Attempts /\ pass[g].pend \subseteq Ids
          /\ pass[g].cur \in Attempts \cup {Nothing}
    /\ \A g, h \in DOMAIN pass : ~At(g, "idle") /\ ~At(h, "idle") => g = h
    /\ made \in 0..MaxAttempts

\* Wherever a pass is interrupted, a change the guard made in Odoo is on record:
\* as an attempt that a later pass settles, or in the audit
\* (payroll_work_entry_guard.py:344).
ChangedIsOnRecord == touched \subseteq {a.n : a \in attempts} \cup audits

\* An entry never has two corrections pending, whatever failed and died before
\* (payroll_work_entry_guard.py:340).
OnePending == \A a, b \in attempts : a.id = b.id => a = b

\* Nothing the guard did is forgotten, and nothing is done twice.
PayrollIsRight == TypeOK /\ ChangedIsOnRecord /\ OnePending

(***************************************************************************)
(* The inductive invariant.  One pass runs; it acts on nothing that is not *)
(* saved, and whatever is saved it has yet to settle, is settling, or      *)
(* knows to stay pending.                                                  *)
(***************************************************************************)
Settling == {"fresh", "mutate", "verify", "final"}
Passes == [pc : {"idle", "next", "create", "sync"} \cup Settling,
           todo : SUBSET Attempts, cur : Attempts \cup {Nothing},
           new : BOOLEAN, pend : SUBSET Ids]

\* Of the pass p when the attempts `saved` are saved and n were made.
PassOk(p, saved, n) ==
    /\ p \in Passes
    /\ p.pc \in Settling => p.cur \in saved /\ p.cur \notin p.todo
    /\ p.pc = "create" => p.cur \in Attempts /\ p.cur.n = n + 1 /\ p.todo = {} /\ ~p.new
    /\ p.pc = "next" => ~p.new
    /\ p.pc \notin {"idle", "sync"} /\ ~p.new =>
          /\ p.todo \subseteq saved
          /\ \A a \in saved :
                a \in p.todo \/ a.id \in p.pend \/ (p.pc \in Settling /\ a = p.cur)

RowsOk ==
    /\ ents \in [Ids -> Entries] /\ att \in Days
    /\ attempts \subseteq Attempts
    /\ audits \subseteq 1..MaxAttempts /\ touched \subseteq 1..MaxAttempts
    /\ made \in 0..MaxAttempts

OnePass ==
    /\ DOMAIN pass = Procs
    /\ \A g, h \in Procs : ~At(g, "idle") /\ ~At(h, "idle") => g = h

GuardInv ==
    /\ RowsOk /\ OnePass
    /\ \A g \in Procs : PassOk(pass[g], attempts, made)
    /\ ChangedIsOnRecord /\ OnePending

\* A correction of a day that is still as it was classified leaves nothing to
\* correct: the next pass finds nothing to do (payroll_work_entry_rules.py:152).
CorrectedIsNoop ==
    [][\A g \in DOMAIN pass :
         (/\ At(g, "mutate") /\ CorrectDay
          /\ Correction(pass[g].cur.n) = pass[g].cur
          /\ ents' # ents /\ pass'[g].pc = "verify")
           => NoopDay']_vars

\* A day with the defect is corrected, or a saved correction that no longer
\* fits holds it for review (payroll_work_entry_guard.py:299).
DefectSettles ==
    CorrectDay ~> (\/ ~CorrectDay
                   \/ \E a \in attempts : ~AtTarget(a) /\ ~Matches(a, a.before))

=============================================================================
