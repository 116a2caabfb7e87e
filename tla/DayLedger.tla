----------------------------- MODULE DayLedger ------------------------------
(***************************************************************************)
(* What the attendance recalculation promises for a day: its production is *)
(* either pending, or it is what the day's attendance, as it is now, gives.*)
(* A change of the attendance makes the day pending in the same step.      *)
(***************************************************************************)
CONSTANTS Days, Versions, Pending, Following(_)

VARIABLES
    source,      \* the version of the attendance of each day
    published    \* the version its production was computed from, or Pending

Init ==
    /\ source \in [Days -> Versions]
    /\ published = [d \in Days |-> Pending]

Change(d) ==
    /\ source' = [source EXCEPT ![d] = Following(source[d])]
    /\ published' = [published EXCEPT ![d] = Pending]

Request(d) ==
    /\ published' = [published EXCEPT ![d] = Pending]
    /\ UNCHANGED source

Publish(d) ==
    /\ published[d] = Pending
    /\ published' = [published EXCEPT ![d] = source[d]]
    /\ UNCHANGED source

Next == \E d \in Days : Change(d) \/ Request(d) \/ Publish(d)

Spec == Init /\ [][Next]_<<source, published>>

=============================================================================
