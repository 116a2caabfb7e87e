---------------------------- MODULE MCPunchSync -----------------------------
(* The instance of PunchSync that TLC checks. *)
EXTENDS PunchSync

(* Three punches, among them a transfer, while nothing is worked on out of
   order, with a failed call before the third one or before the clock moves;
   or two punches in any order without a failed call, or in their order with
   one failed call, one snapshot read beside them or one attendance edited in
   Odoo, the last two before the clock moves. *)
Budget ==
    \/ /\ edits + fetches = 0 /\ ~crowded
       /\ Len(log) = 3 => faults = 0 \/ now = 1
    \/ /\ Len(log) <= 2 /\ faults + edits + fetches <= 1
       /\ crowded => faults = 0
       /\ edits + fetches = 1 => now = 1 /\ ~crowded

=============================================================================
