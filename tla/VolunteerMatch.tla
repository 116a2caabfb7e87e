--------------------------- MODULE VolunteerMatch ---------------------------
(***************************************************************************)
(* match_commitments of saturday_recruiting.py: the volunteers are placed  *)
(* one after the other in the openings, and somebody who fits elsewhere    *)
(* is moved when the next one fits nowhere else.                           *)
(*                                                                         *)
(* The function calls itself: calls is the stack of its calls, each with   *)
(* the volunteer it is to place and the opening its loop is at, and a step *)
(* is one round of that loop.  Once a call finds a free opening all of     *)
(* them return, each giving its volunteer the opening it is at: that is    *)
(* one step.  The openings are numbered by center, as the code sorts them. *)
(***************************************************************************)
EXTENDS Naturals, Sequences, FiniteSets

CONSTANTS Volunteers,   \* how many, numbered as they are sorted
          WorkCenters,  \* how many
          MaxSlots      \* openings of one center

ASSUME MatchAssumption ==
    Volunteers \in Nat /\ WorkCenters \in Nat /\ MaxSlots \in Nat

VARIABLES slots,   \* the center of each opening
          fits,    \* the centers each volunteer may fill
          answer,  \* the volunteers placed, and the result
          filled,  \* who fills each opening, 0 for nobody
          calls,   \* the calls of assign, the last one runs
          seen     \* the openings a call of assign was at

matchVars == <<slots, fits, answer, filled, calls, seen>>

Numbers == 1..Volunteers
Wcs == 1..WorkCenters

\* Openings are listed by center, in order.
SlotLists ==
    {s \in UNION {[1..m -> Wcs] : m \in 0..(WorkCenters * MaxSlots)} :
        /\ \A i, j \in DOMAIN s : i < j => s[i] <= s[j]
        /\ \A c \in Wcs : Cardinality({i \in DOMAIN s : s[i] = c}) <= MaxSlots}

Openings == 1..Len(slots)
MayFill(p, i) == slots[i] \in fits[p]

MatchInit ==
    /\ slots \in SlotLists
    /\ fits \in [Numbers -> SUBSET Wcs]
    /\ answer = [n |-> 0, result |-> IF Volunteers > Len(slots) THEN "none"
                                                                ELSE "running"]
    /\ filled = [i \in Openings |-> 0]
    /\ calls = << >> /\ seen = {}

(***************************************************************************)
(* The loop over the volunteers.                                           *)
(***************************************************************************)
AssignNext ==
    /\ answer.result = "running" /\ answer.n < Volunteers
    /\ calls = << >>
    /\ calls' = <<[p |-> answer.n + 1, i |-> 1]>>
    /\ seen' = {}
    /\ UNCHANGED <<slots, fits, answer, filled>>

Report ==
    /\ answer.result = "running" /\ answer.n = Volunteers
    /\ answer' = [answer EXCEPT !.result = "coverage"]
    /\ UNCHANGED <<slots, fits, filled, calls, seen>>

(***************************************************************************)
(* assign(person_id, seen): the loop over the openings.                    *)
(***************************************************************************)
Running == calls # << >>
This == calls[Len(calls)]
AtOpening == Running /\ This.i <= Len(slots)
MayTry == MayFill(This.p, This.i) /\ This.i \notin seen

Pass ==
    /\ AtOpening /\ ~MayTry
    /\ calls' = [calls EXCEPT ![Len(calls)].i = @ + 1]
    /\ UNCHANGED <<slots, fits, answer, filled, seen>>

(* Mutant: a volunteer already placed is never moved. *)
AskNobody ==
    /\ AtOpening /\ MayTry /\ filled[This.i] # 0
    /\ calls' = [calls EXCEPT ![Len(calls)].i = @ + 1]
    /\ seen' = seen \cup {This.i}
    /\ UNCHANGED <<slots, fits, answer, filled>>

\* Who fills the opening is to be placed elsewhere.
AskPrior ==
    /\ AtOpening /\ MayTry /\ filled[This.i] # 0
    /\ calls' = Append(calls, [p |-> filled[This.i], i |-> 1])
    /\ seen' = seen \cup {This.i}
    /\ UNCHANGED <<slots, fits, answer, filled>>

(* Mutant: who is moved away is not put into the other opening. *)
TakenByFirst ==
    [i \in Openings |-> IF i = calls[1].i THEN calls[1].p ELSE filled[i]]

\* Each call gives its volunteer the opening it is at.
Taken ==
    [i \in Openings |->
        IF \E k \in DOMAIN calls : calls[k].i = i
        THEN calls[CHOOSE k \in DOMAIN calls : calls[k].i = i].p
        ELSE filled[i]]

TakeFree ==
    /\ AtOpening /\ MayTry /\ filled[This.i] = 0
    /\ filled' = Taken
    /\ answer' = [answer EXCEPT !.n = @ + 1]
    /\ calls' = << >> /\ seen' = {}
    /\ UNCHANGED <<slots, fits>>

\* No opening was found: the caller goes on with its next one.
NoneLeft ==
    /\ Running /\ This.i > Len(slots)
    /\ IF Len(calls) = 1
       THEN /\ answer' = [answer EXCEPT !.result = "none"]
            /\ calls' = << >>
       ELSE /\ calls' = [k \in 1..(Len(calls) - 1) |->
                            IF k = Len(calls) - 1 THEN [calls[k] EXCEPT !.i = @ + 1]
                                                  ELSE calls[k]]
            /\ UNCHANGED answer
    /\ UNCHANGED <<slots, fits, filled, seen>>

MatchNext == AssignNext \/ Report \/ Pass \/ AskPrior \/ TakeFree \/ NoneLeft

MatchSpec == MatchInit /\ [][MatchNext]_matchVars

(***************************************************************************)
(* The properties.                                                         *)
(***************************************************************************)
Calls == [p : Numbers, i : 1..(Len(slots) + 1)]

\* The values each variable may take (saturday_recruiting.py:120-129).
MatchTypeOK ==
    /\ slots \in Seq(Wcs)
    /\ fits \in [Numbers -> SUBSET Wcs]
    /\ answer \in [n : 0..Volunteers, result : {"running", "none", "coverage"}]
    /\ filled \in [Openings -> 0..Volunteers]
    /\ calls \in Seq(Calls)
    /\ seen \subseteq Openings

\* While volunteers are moved about, everybody placed keeps exactly one
\* opening of a center they may fill (saturday_recruiting.py:128-140).
IsPlacement ==
    /\ \A i \in Openings : filled[i] # 0 => filled[i] <= answer.n /\ MayFill(filled[i], i)
    /\ \A p \in 1..answer.n : \E i \in Openings :
          {j \in Openings : filled[j] = p} = {i}

\* The reference: all volunteers can be placed.
Placeable ==
    \E g \in [Numbers -> Openings] :
        /\ \A p \in Numbers : MayFill(p, g[p])
        /\ \A p, q \in Numbers : p # q => g[p] # g[q]

\* The answer is right: there is no coverage only where nobody could find one,
\* the order of the volunteers and of the openings notwithstanding
\* (saturday_recruiting.py:142-150).
FindsIt ==
    /\ answer.result = "none" => ~Placeable
    /\ answer.result = "coverage" => answer.n = Volunteers

MatchingIsRight == MatchTypeOK /\ IsPlacement /\ FindsIt

(***************************************************************************)
(* The inductive invariant.                                                *)
(***************************************************************************)
Inner == 1..(Len(calls) - 1)

\* A call waits at an opening its volunteer may fill, for the call after it to
\* place whoever fills that opening; no two calls wait at the same one.
ChainInv ==
    Running =>
        /\ answer.result = "running" /\ answer.n < Volunteers
        /\ calls[1].p = answer.n + 1
        /\ \A k \in Inner :
              /\ calls[k].i \in seen /\ MayFill(calls[k].p, calls[k].i)
              /\ calls[k + 1].p = filled[calls[k].i]
        /\ \A k, l \in Inner : calls[k].i = calls[l].i => k = l

\* Nothing is left to try for p.
Tried(p) == \A i \in Openings : MayFill(p, i) => i \in seen

\* What was seen is filled, by somebody who was tried or is being tried; a call
\* has tried every opening before the one it is at.
SearchInv ==
    Running =>
        /\ \A k \in DOMAIN calls : \A i \in Openings :
              i < calls[k].i /\ MayFill(calls[k].p, i) => i \in seen
        /\ \A i \in seen :
              /\ filled[i] # 0
              /\ Tried(filled[i]) \/ \E k \in DOMAIN calls : calls[k].p = filled[i]

MatchInv == MatchingIsRight /\ ChainInv /\ SearchInv
=============================================================================
