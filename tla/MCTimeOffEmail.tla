---------------------------- MODULE MCTimeOffEmail ----------------------------
(* Small instances of TimeOffEmail for TLC.                                *)
EXTENDS TimeOffEmail, TLC

(* Workers are interchangeable.                                            *)
WorkerSymmetry == Permutations(Workers)
=============================================================================
