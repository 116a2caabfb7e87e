----------------------------- MODULE PunchSync ------------------------------
(***************************************************************************)
(* One employee's punches on their way from the kiosk to Odoo:             *)
(* routes/timeclock.py writes rows of timeclock_punches_log and starts a   *)
(* background task per request, timeclock_sync.py syncs a row at once and  *)
(* sweeps every 60 s over what is left, live_cache.py keeps a snapshot of  *)
(* Odoo's open rows, and attendance_state.py tells the kiosk which state   *)
(* to show. A PostgreSQL statement or an XML-RPC call is one step. Nothing *)
(* serialises the tasks and the sweep: there is no lock and no claim.      *)
(***************************************************************************)
EXTENDS Integers, Sequences, FiniteSets

CONSTANTS
    Tasks,        \* threads that run background tasks
    MaxPunches,   \* bound: rows of the punch log
    MaxTime,      \* bound: the clock
    MaxFaults,    \* bound: failed calls and crashes
    MaxFetches,   \* bound: refreshes of the snapshot
    MaxEdits,     \* bound: attendances entered or closed by hand in Odoo
    ShiftStart, ShiftEnd,    \* of the day
    InBefore, InAfter, OutBefore, OutAfter   \* RoundingSettings

ASSUME BoundsAssumption ==
    /\ MaxPunches \in Nat /\ MaxTime \in Nat \ {0} /\ MaxFaults \in Nat
    /\ MaxEdits \in Nat /\ MaxFetches \in Nat
    /\ ShiftStart \in Nat \ {0} /\ ShiftEnd \in Nat \ {0}   \* 0 is no time
    /\ InBefore \in Nat /\ InAfter \in Nat /\ OutBefore \in Nat /\ OutAfter \in Nat

Sweep == "sweep"
ASSUME TasksAssumption == Sweep \notin Tasks

VARIABLES
    now,      \* wall clock
    log,      \* timeclock_punches_log of the employee, by id
    req,      \* the kiosk request being handled: rows to insert, rows inserted
    queue,    \* background tasks not started yet
    wk,       \* the threads inside sync_one_by_id and retry_unsynced_punches
    odoo,     \* hr.attendance of the employee, by id
    snap,     \* odoo_open_attendance_cache and whether it is stale
    fetch,    \* a refresh_odoo_open_attendance that has read and not stored
    faults, edits, fetches,
    crowded   \* history: punches were worked on concurrently, out of order,
              \* again, or before their time was rounded

vars == <<now, log, req, queue, wk, odoo, snap, fetch, faults, edits, fetches, crowded>>

Workers == Tasks \cup {Sweep}
Ins  == {"clock_in", "transfer_in"}
Outs == {"clock_out", "transfer_out"}
None == "none"

Ids == DOMAIN log
Idle == [pc |-> "idle", batch |-> <<>>, ts |-> 0, seen |-> {}, res |-> 0]
NoRequest == [todo |-> <<>>, ids |-> <<>>, rounding |-> 0]
NoFetch == [busy |-> FALSE, open |-> FALSE, saw |-> {}]

-----------------------------------------------------------------------------
(* rounding.apply_rounding *)
Toward(t, boundary, before, after) ==
    IF boundary - before <= t /\ t <= boundary + after THEN boundary ELSE t

ApplyRounding(act, t) ==
    CASE act = "clock_in"  -> Toward(t, ShiftStart, InBefore, InAfter)
      [] act = "clock_out" -> Toward(t, ShiftEnd, OutBefore, OutAfter)
      [] OTHER -> t

(* get_current_attendance: ORDER BY check_in desc, id desc LIMIT 1 *)
OpenRows == {a \in DOMAIN odoo : odoo[a].out = 0}
(* Mutant: the search leaves out check_out = False. *)
LastAttendance == IF odoo = <<>> THEN {} ELSE {Len(odoo)}
CurrentAttendance ==
    IF OpenRows = {} THEN {}
    ELSE {CHOOSE a \in OpenRows : \A b \in OpenRows :
             odoo[b].in < odoo[a].in \/ (odoo[b].in = odoo[a].in /\ b <= a)}

(* ORDER BY COALESCE(rounded_at, occurred_at), id: the alias, not the column *)
Before(p, q) == log[p].key < log[q].key \/ (log[p].key = log[q].key /\ p < q)
Unsynced == {p \in Ids : ~log[p].synced}

(* latest_punch, trust_local, state_from_log and current_state, while the
   legacy snapshot owns the reads: is the employee shown as clocked in? *)
Latest == CHOOSE p \in Ids : \A q \in Ids : q = p \/ Before(q, p)
StateFromLog == Ids # {} /\ log[Latest].act \in Ins
(* Mutant: only synced punches are compared with the snapshot. *)
TrustSynced == Ids # {} /\ log[Latest].synced /\ Latest \notin snap.after
TrustLocal == Ids # {} /\ (~log[Latest].synced \/ Latest \notin snap.after)
CurrentState ==
    IF snap.state # "fresh" \/ TrustLocal THEN StateFromLog ELSE snap.open

-----------------------------------------------------------------------------
Init ==
    /\ now = 1
    /\ log = <<>> /\ odoo = <<>> /\ queue = <<>>
    /\ req = NoRequest
    /\ wk = [w \in Workers |-> Idle]
    /\ snap = [state |-> "missing", open |-> FALSE, after |-> {}, saw |-> {}]
    /\ fetch = NoFetch
    /\ faults = 0 /\ edits = 0 /\ fetches = 0
    /\ crowded = FALSE

Tick ==
    /\ now < MaxTime
    /\ now' = now + 1
    /\ UNCHANGED <<log, req, queue, wk, odoo, snap, fetch, faults, edits, fetches, crowded>>

(* _open_log_row, first transaction: INSERT ... RETURNING id, occurred_at. A
   live plant floor takes the work centre from the punch and marks a clock-out
   as closing every open row. *)
WcOf(act, live) ==
    CASE act = "clock_in" /\ ~live -> "first"
      [] act = "transfer_in" -> "second"
      [] OTHER -> None
OpenLogRow(act, live) ==
    Append(log, [act |-> act, at |-> now, key |-> now,
                 all |-> act = "clock_out" /\ live,
                 wc |-> WcOf(act, live), synced |-> FALSE, att |-> 0])

(* kiosk_clock_in, kiosk_clock_out, kiosk_transfer up to the first INSERT; the
   live plant floor knows no transfers. *)
Requests == {<<"clock_in">>, <<"clock_out">>, <<"transfer_out", "transfer_in">>}
Punch(acts, live) ==
    /\ req = NoRequest
    /\ Len(log) + Len(acts) <= MaxPunches
    /\ acts[1] = "transfer_out" => ~live
    /\ log' = OpenLogRow(acts[1], live)
    /\ req' = [todo |-> Tail(acts), ids |-> <<>>, rounding |-> Len(log) + 1]
    /\ UNCHANGED <<now, queue, wk, odoo, snap, fetch, faults, edits, fetches, crowded>>

(* The second row of a transfer. *)
InsertSecond ==
    /\ req.todo # <<>> /\ req.rounding = 0
    /\ log' = OpenLogRow(Head(req.todo), FALSE)
    /\ req' = [req EXCEPT !.todo = Tail(@), !.rounding = Len(log) + 1]
    /\ UNCHANGED <<now, queue, wk, odoo, snap, fetch, faults, edits, fetches, crowded>>

(* _open_log_row, second transaction: rounded_at. When the computation
   fails the row keeps its raw time. *)
RoundRow ==
    LET p == req.rounding
        rounded == ApplyRounding(log[p].act, log[p].at)
    IN /\ p # 0
       /\ \/ /\ log' = [log EXCEPT ![p].key = rounded]
             /\ faults' = faults
          \/ /\ faults < MaxFaults
             /\ log' = log
             /\ faults' = faults + 1
       /\ IF req.todo # <<>>
          THEN /\ req' = [req EXCEPT !.ids = Append(@, p), !.rounding = 0]
               /\ queue' = queue
          ELSE /\ req' = NoRequest     \* the response is sent, the tasks start
               /\ queue' = Append(queue, Append(req.ids, p))
       /\ UNCHANGED <<now, wk, odoo, snap, fetch, edits, fetches, crowded>>

-----------------------------------------------------------------------------
(* sync_one_by_id for each id of the request, in order, on some thread. *)
StartTask(w) ==
    /\ wk[w].pc = "idle" /\ w \in Tasks
    /\ queue # <<>>
    /\ wk' = [wk EXCEPT ![w] = [Idle EXCEPT !.pc = "start",
                                !.batch = [i \in DOMAIN Head(queue) |->
                                              [id |-> Head(queue)[i], ts |-> 0]]]]
    /\ queue' = Tail(queue)
    /\ UNCHANGED <<now, log, req, odoo, snap, fetch, faults, edits, fetches, crowded>>

(* retry_unsynced_punches: one SELECT, then the rows one by one. It may see
   a row between the two transactions of _open_log_row. *)
Sorted(S) ==
    {order \in [1..Cardinality(S) -> S] :
        \A i, j \in DOMAIN order : i < j => Before(order[i], order[j])}
StartSweep ==
    /\ wk[Sweep].pc = "idle"
    /\ Unsynced # {}
    /\ \E order \in Sorted(Unsynced) :
          wk' = [wk EXCEPT ![Sweep] =
                    [Idle EXCEPT !.pc = "start",
                                 !.batch = [i \in DOMAIN order |->
                                    [id |-> order[i], ts |-> log[order[i]].key]]]]
    /\ crowded' = (crowded \/ req.rounding # 0)
    /\ UNCHANGED <<now, log, req, queue, odoo, snap, fetch, faults, edits, fetches>>

Cur(w) == Head(wk[w].batch)
Row(w) == log[Cur(w).id]

(* The next row of the batch, or the end of it. *)
NextRow(w) == IF Len(wk[w].batch) = 1 THEN Idle
              ELSE [Idle EXCEPT !.pc = "start", !.batch = Tail(wk[w].batch)]

(* The row is picked up; a task reads it only now. _retry_one does not look
   whether somebody else has synced it meanwhile. *)
Disorder(w) ==
    \/ Row(w).synced
    \/ \E q \in Ids : q < Cur(w).id /\ ~log[q].synced
    \/ \E v \in Workers \ {w} : wk[v].pc \notin {"idle", "start"}
Start(w) ==
    /\ wk[w].pc = "start"
    /\ wk' = [wk EXCEPT ![w].pc = "look",
                        ![w].ts = IF Cur(w).ts = 0 THEN Row(w).key ELSE Cur(w).ts]
    /\ crowded' = (crowded \/ Disorder(w))
    /\ UNCHANGED <<now, log, req, queue, odoo, snap, fetch, faults, edits, fetches>>

(* get_current_attendance, or the open rows of close_all_open_attendance_rows *)
(* Mutant: a clock-out with nothing to close is left for the next sweep. *)
LookOnly(w) ==
    /\ wk[w].pc = "look"
    /\ LET found == IF Row(w).all THEN OpenRows ELSE CurrentAttendance
       IN wk' = [wk EXCEPT ![w] = IF found = {} /\ Row(w).act \in Outs THEN NextRow(w)
                                  ELSE [@ EXCEPT !.seen = found, !.pc = "act"]]
    /\ UNCHANGED <<now, log, req, queue, odoo, snap, fetch, faults, edits, fetches, crowded>>
Look(w) ==
    /\ wk[w].pc = "look"
    /\ LET found == IF Row(w).all THEN OpenRows ELSE CurrentAttendance
       IN wk' = [wk EXCEPT ![w].seen = found,
                           ![w].pc = IF found = {} /\ Row(w).act \in Outs /\ ~Row(w).all
                                     THEN "mark" ELSE "act"]
    /\ UNCHANGED <<now, log, req, queue, odoo, snap, fetch, faults, edits, fetches, crowded>>

(* What the write of _retry_one does to Odoo, on the rows it saw. *)
Adopted(w) ==
    [a \in DOMAIN odoo |->
        IF a \in wk[w].seen /\ Row(w).wc # None THEN [odoo[a] EXCEPT !.wc = Row(w).wc]
        ELSE odoo[a]]
Created(w) == Append(odoo, [in |-> wk[w].ts, out |-> 0, wc |-> Row(w).wc,
                            by |-> Cur(w).id, closer |-> 0])
Closed(w, S) ==
    [a \in DOMAIN odoo |->
        IF a \in S THEN [odoo[a] EXCEPT !.out = wk[w].ts, !.closer = Cur(w).id] ELSE odoo[a]]
(* Mutant: the clock-in does not adopt an open row. *)
AlwaysCreates(w) ==
    IF Row(w).act \in Outs THEN Closed(w, wk[w].seen) ELSE Created(w)
Written(w) ==
    IF Row(w).act \in Outs THEN Closed(w, wk[w].seen)
    ELSE IF wk[w].seen # {} THEN Adopted(w) ELSE Created(w)
(* Mutant: the id of the attendance is guessed before the create. *)
StaleId(w) == IF wk[w].seen = {} THEN Len(odoo) + 2 ELSE 0
ResultId(w) ==
    IF wk[w].seen # {} THEN CHOOSE a \in wk[w].seen : \A b \in wk[w].seen : b <= a
    ELSE IF Row(w).act \in Ins THEN Len(odoo) + 1 ELSE 0

Act(w) ==
    /\ wk[w].pc = "act"
    /\ odoo' = Written(w)
    /\ wk' = [wk EXCEPT ![w].pc = IF Row(w).all THEN "check" ELSE "mark",
                        ![w].res = ResultId(w)]
    /\ UNCHANGED <<now, log, req, queue, snap, fetch, faults, edits, fetches, crowded>>

(* close_all_open_attendance_rows: an open row that is left is an error. *)
CheckNoneOpen(w) ==
    /\ wk[w].pc = "check"
    /\ wk' = [wk EXCEPT ![w] = IF OpenRows = {} THEN [@ EXCEPT !.pc = "mark"]
                               ELSE NextRow(w)]
    /\ UNCHANGED <<now, log, req, queue, odoo, snap, fetch, faults, edits, fetches, crowded>>

(* _mark_synced; synced_at is later than the snapshot, if there is one. *)
MarkSynced(w) ==
    /\ wk[w].pc = "mark"
    /\ log' = [log EXCEPT ![Cur(w).id].synced = TRUE, ![Cur(w).id].att = wk[w].res]
    /\ snap' = [snap EXCEPT !.after = @ \ {Cur(w).id}]
    /\ wk' = [wk EXCEPT ![w] = NextRow(w)]
    /\ UNCHANGED <<now, req, queue, odoo, fetch, faults, edits, fetches, crowded>>

(* An exception: sync_error is recorded and the loop goes on. The write may
   have reached Odoo, all of it or, with several rows to close, some of it. *)
CallFails(w) ==
    /\ wk[w].pc \in {"look", "act", "check", "mark"}
    /\ faults < MaxFaults
    /\ faults' = faults + 1
    /\ \/ odoo' = odoo
       \/ wk[w].pc = "act" /\ ~Row(w).all /\ odoo' = Written(w)
       \/ wk[w].pc = "act" /\ Row(w).all /\ \E S \in SUBSET wk[w].seen : odoo' = Closed(w, S)
    /\ wk' = [wk EXCEPT ![w] = NextRow(w)]
    /\ UNCHANGED <<now, log, req, queue, snap, fetch, edits, fetches, crowded>>

(* The process stops: requests, tasks and the sweep are gone. *)
Crash ==
    /\ faults < MaxFaults
    /\ faults' = faults + 1
    /\ wk' = [w \in Workers |-> Idle]
    /\ queue' = <<>> /\ req' = NoRequest /\ fetch' = NoFetch
    /\ UNCHANGED <<now, log, odoo, snap, edits, fetches, crowded>>

-----------------------------------------------------------------------------
(* refresh_odoo_open_attendance: read Odoo, then store with refreshed_at =
   now(). "saw" is the history: the punches that were synced when it read. *)
FetchOpen ==
    /\ ~fetch.busy /\ fetches < MaxFetches
    /\ fetches' = fetches + 1
    /\ fetch' = [busy |-> TRUE, open |-> OpenRows # {}, saw |-> Ids \ Unsynced]
    /\ UNCHANGED <<now, log, req, queue, wk, odoo, snap, faults, edits, crowded>>

WriteOpenAttendance ==
    /\ fetch.busy
    /\ snap' = [state |-> "fresh", open |-> fetch.open, after |-> Ids \ Unsynced,
                saw |-> fetch.saw]
    /\ fetch' = NoFetch
    /\ UNCHANGED <<now, log, req, queue, wk, odoo, faults, edits, fetches, crowded>>

(* is_stale: nothing was stored for three minutes. *)
GrowStale ==
    /\ snap.state = "fresh"
    /\ snap' = [snap EXCEPT !.state = "stale"]
    /\ UNCHANGED <<now, log, req, queue, wk, odoo, fetch, faults, edits, fetches, crowded>>

(* Somebody enters or closes an attendance in Odoo. *)
EditOdoo ==
    /\ edits < MaxEdits
    /\ edits' = edits + 1
    /\ \/ /\ OpenRows = {}
          /\ odoo' = Append(odoo, [in |-> now, out |-> 0, wc |-> None, by |-> 0, closer |-> 0])
       \/ /\ OpenRows # {}
          /\ odoo' = [a \in DOMAIN odoo |->
                         IF a \in OpenRows THEN [odoo[a] EXCEPT !.out = now] ELSE odoo[a]]
    /\ UNCHANGED <<now, log, req, queue, wk, snap, fetch, faults, fetches, crowded>>

Step(w) ==
    \/ Start(w) \/ Look(w) \/ Act(w) \/ CheckNoneOpen(w) \/ MarkSynced(w)

Next ==
    \/ Tick
    \/ \E acts \in Requests, live \in BOOLEAN : Punch(acts, live)
    \/ InsertSecond \/ RoundRow
    \/ \E w \in Tasks : StartTask(w)
    \/ StartSweep
    \/ \E w \in Workers : Step(w)
    \/ \E w \in Workers : CallFails(w)
    \/ Crash
    \/ FetchOpen \/ WriteOpenAttendance \/ GrowStale
    \/ EditOdoo

Spec == Init /\ [][Next]_vars

(* The sweep comes again for ever and a started loop goes on; people and
   faults are never forced. *)
FairSpec ==
    /\ Spec
    /\ WF_vars(InsertSecond) /\ WF_vars(RoundRow)
    /\ WF_vars(StartSweep)
    /\ \A w \in Workers : WF_vars(Step(w))

-----------------------------------------------------------------------------
TypeOK ==
    /\ now \in 1..MaxTime
    /\ \A p \in Ids : /\ log[p].act \in Ins \cup Outs
                      /\ log[p].at \in 1..MaxTime
                      /\ log[p].att \in 0..Len(odoo)
    /\ \A a \in DOMAIN odoo : odoo[a].by \in 0..Len(log) /\ odoo[a].closer \in 0..Len(log)
    /\ \A w \in Workers : wk[w].pc # "idle" => wk[w].batch # <<>> /\ Cur(w).id \in Ids
    /\ snap.state \in {"missing", "fresh", "stale"} /\ snap.after \subseteq Ids
    /\ faults \in 0..MaxFaults /\ edits \in 0..MaxEdits

(* What the punches describe, read in the order they were made: an attendance
   begins at an in-punch that follows an out-punch (or nothing), ends at the
   next out-punch, and is labelled with the last work centre punched. *)
Opens(p) == log[p].act \in Ins /\ (p = 1 \/ log[p - 1].act \in Outs)
EndOf(p) == {q \in Ids : /\ q > p /\ log[q].act \in Outs
                         /\ \A r \in p..(q - 1) : log[r].act \in Ins}
Until(p) == IF EndOf(p) = {} THEN Len(log) ELSE (CHOOSE q \in EndOf(p) : TRUE) - 1
LabelOf(p) ==
    LET named == {r \in p..Until(p) : log[r].wc # None}
    IN IF named = {} THEN None
       ELSE log[CHOOSE r \in named : \A s \in named : s <= r].wc
Described(p) == [in |-> log[p].key,
                 out |-> IF EndOf(p) = {} THEN 0 ELSE log[CHOOSE q \in EndOf(p) : TRUE].key,
                 wc |-> LabelOf(p)]
Ledger == {[id |-> p, row |-> Described(p)] : p \in {q \in Ids : Opens(q)}}
InOdoo == {[id |-> odoo[a].by, row |-> [in |-> odoo[a].in, out |-> odoo[a].out, wc |-> odoo[a].wc]] :
              a \in DOMAIN odoo}

Settled == /\ Unsynced = {} /\ req = NoRequest
           /\ \A w \in Workers : wk[w].pc = "idle"

(* When all punches are synced, Odoo holds exactly the attendances that the
   punches describe, whatever calls failed or crashed on the way - as long as
   no punch was worked on twice at a time, again, or before an earlier one, and
   nobody edited Odoo (retry_unsynced_punches, _retry_one). *)
OdooFollowsPunches ==
    Settled /\ ~crowded /\ edits = 0 => /\ InOdoo = Ledger
                                        /\ Cardinality(Ledger) = Len(odoo)

(* The same, with the values each variable may take.                        *)
AttendancesFollow == TypeOK /\ OdooFollowsPunches

(* A snapshot misleads when a punch was synced between its reading and its
   storing; the rounding misleads when it puts an earlier punch after a later
   one. Otherwise the kiosk shows the side of the last punch (current_state,
   trust_local). *)
SnapshotMisleads == snap.state = "fresh" /\ ~(snap.after \subseteq snap.saw)
RoundingMisleads == \E p, q \in Ids : p < q /\ Before(q, p)
LastIsIn == Ids # {} /\ log[Len(log)].act \in Ins
KioskShowsLastPunch ==
    (~crowded /\ edits = 0 /\ ~SnapshotMisleads /\ ~RoundingMisleads)
        => CurrentState = LastIsIn

(* The inductive invariant. First, what each variable holds. *)
Stamps == 0..(MaxTime + ShiftStart + ShiftEnd)      \* 0 is no time
RowType == [act : Ins \cup Outs, at : 1..MaxTime, key : Stamps \ {0}, all : BOOLEAN,
            wc : {"first", "second", None}, synced : BOOLEAN, att : Nat]
AttendanceType == [in : Stamps \ {0}, out : Stamps, wc : {"first", "second", None},
                   by : Nat, closer : Nat]
Entries == [id : Nat, ts : Stamps]
WorkerType == [pc : {"idle", "start", "look", "act", "check", "mark"},
               batch : Seq(Entries), ts : Stamps, seen : SUBSET Nat, res : Nat]

ClockInv == /\ now \in 1..MaxTime /\ crowded \in BOOLEAN
            /\ faults \in 0..MaxFaults /\ edits \in 0..MaxEdits
LogInv ==
    /\ log \in Seq(RowType)
    /\ \A p \in Ids : log[p].att \in 0..Len(odoo) /\ (log[p].all => log[p].act \in Outs)
OdooInv ==
    /\ odoo \in Seq(AttendanceType)
    /\ \A a \in DOMAIN odoo : /\ odoo[a].by \in 0..Len(log) /\ odoo[a].closer \in 0..Len(log)
                              /\ odoo[a].out = 0 => odoo[a].closer = 0
SnapInv ==
    /\ snap \in [state : {"missing", "fresh", "stale"}, open : BOOLEAN,
                 after : SUBSET Nat, saw : SUBSET Nat]
    /\ fetch \in [busy : BOOLEAN, open : BOOLEAN, saw : SUBSET Nat]
    /\ snap.after \subseteq Ids /\ snap.saw \subseteq Ids /\ fetch.saw \subseteq Ids
RequestInv ==
    /\ req \in [todo : Seq(Ins \cup Outs), ids : Seq(Nat), rounding : {0, Len(log)}]
    /\ \A i \in DOMAIN req.ids : req.ids[i] \in Ids \ {req.rounding}
    /\ queue \in Seq(Seq(Nat))
    /\ \A i \in DOMAIN queue : queue[i] # <<>> /\ \A j \in DOMAIN queue[i] : queue[i][j] \in Ids
WorkerOk(r, punches, rows) ==
    /\ r.pc # "idle" => r.batch # <<>>
    /\ \A i \in DOMAIN r.batch : r.batch[i].id \in 1..punches
    /\ r.seen \subseteq 1..rows /\ r.res \in 0..rows
    /\ r.pc \notin {"idle", "start"} => r.ts # 0
WorkersInv ==
    /\ wk \in [Workers -> WorkerType]
    /\ \A w \in Workers : WorkerOk(wk[w], Len(log), Len(odoo))
PunchInv == ClockInv /\ LogInv /\ OdooInv /\ SnapInv /\ RequestInv /\ WorkersInv

(* While nothing is crowded the punches 1..n are synced, nobody has a punch whose
   time is still to be rounded, and at most one worker is inside _retry_one, at
   punch n + 1 and with rows that nobody has closed. *)
Mid(w) == wk[w].pc \notin {"idle", "start"}
Unrounded ==
    req.rounding # 0 =>
        /\ \A w \in Workers : \A i \in DOMAIN wk[w].batch : wk[w].batch[i].id # req.rounding
        /\ \A i \in DOMAIN queue : \A j \in DOMAIN queue[i] : queue[i][j] # req.rounding
TimesAreKeys ==
    \A w \in Workers : \A i \in DOMAIN wk[w].batch :
        wk[w].batch[i].ts = 0 \/ wk[w].batch[i].ts = log[wk[w].batch[i].id].key
SyncedUpTo(n) ==
    /\ n \in 0..Len(log)
    /\ \A p \in Ids : log[p].synced <=> p <= n
    /\ req.rounding # 0 => n < req.rounding
OneAtWork(n) ==
    /\ \A v, w \in Workers : Mid(v) /\ Mid(w) => v = w
    /\ \A w \in Workers : Mid(w) => wk[w].batch[1].id = n + 1 /\ wk[w].ts = log[n + 1].key
    /\ \A w \in Workers : wk[w].pc = "act" => \A a \in wk[w].seen : odoo[a].closer = 0
Calm(n) == Unrounded /\ TimesAreKeys /\ SyncedUpTo(n) /\ OneAtWork(n)
CalmInv == ~crowded => \E n \in 0..Len(log) : Calm(n)

(* The attendances o are those that the first n punches of l describe. *)
Begins(l, p) == l[p].act \in Ins /\ (p = 1 \/ l[p - 1].act \in Outs)
Labelled(r, l, k) ==
    \/ r.wc = None /\ \A q \in r.by..k : l[q].wc = None
    \/ r.wc # None /\ \E q \in r.by..k : l[q].wc = r.wc /\ \A s \in (q + 1)..k : l[s].wc = None
StillOpen(r, l, n) ==
    /\ r.out = 0 /\ r.closer = 0
    /\ \A q \in r.by..n : l[q].act \in Ins
    /\ Labelled(r, l, n)
Ended(r, l, n) ==
    /\ r.closer \in (r.by + 1)..n /\ r.out = l[r.closer].key
    /\ l[r.closer].act \in Outs
    /\ \A q \in r.by..(r.closer - 1) : l[q].act \in Ins
    /\ Labelled(r, l, r.closer - 1)
RowMatches(r, l, n) ==
    /\ r.by \in 1..n /\ Begins(l, r.by) /\ r.in = l[r.by].key
    /\ StillOpen(r, l, n) \/ Ended(r, l, n)
Matches(o, l, n) ==
    /\ \A a, b \in DOMAIN o : a < b => o[a].by < o[b].by
    /\ \A a \in DOMAIN o : RowMatches(o[a], l, n)
    /\ \A p \in 1..n : Begins(l, p) => \E a \in DOMAIN o : o[a].by = p
    /\ n > 0 /\ l[n].act \in Ins => \E a \in DOMAIN o : o[a].out = 0

(* While nobody edits Odoo it holds what the synced punches describe, or the next
   punch as well, and what a worker has read of it is current. *)
AtPlace(n) ==
    /\ \/ Matches(odoo, log, n)
       \/ n < Len(log) /\ n + 1 # req.rounding /\ Matches(odoo, log, n + 1)
    /\ \A w \in Workers : /\ wk[w].pc = "act" => wk[w].seen = OpenRows
                          /\ wk[w].pc \in {"check", "mark"} => Matches(odoo, log, n + 1)
OrderInv == ~crowded => \E n \in 0..Len(log) : Calm(n) /\ (edits = 0 => AtPlace(n))

(* What was read of Odoo is the side of the last punch if that was synced then. *)
Tells(saw, open) ==
    /\ \A p \in saw : 1..p \subseteq saw
    /\ Ids \subseteq saw => open = LastIsIn
ReadInv ==
    ~crowded /\ edits = 0 =>
        /\ fetch.busy => Tells(fetch.saw, fetch.open)
        /\ snap.state = "fresh" => Tells(snap.saw, snap.open)
SyncInv == PunchInv /\ OrderInv /\ ReadInv

(* A row that one punch closed is closed again by another punch only when
   punches were worked on concurrently or out of order (clock_out "just
   overwrites the timestamp"). *)
NoSecondClose ==
    [][\A a \in DOMAIN odoo :
          (odoo[a].closer # 0 /\ odoo'[a].closer # odoo[a].closer) => crowded]_vars

(* Every punch is synced in the end, by the task or by the sweep. *)
AllSynced == []<>(Unsynced = {})

=============================================================================
