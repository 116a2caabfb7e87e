--------------------------- MODULE MCCorrectionJobs ---------------------------
(* Small instances of CorrectionJobs for TLC.                              *)
EXTENDS CorrectionJobs, TLC

(* Workers are interchangeable.                                            *)
WorkerSymmetry == Permutations(Workers)
=============================================================================
