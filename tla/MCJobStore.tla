----------------------------- MODULE MCJobStore -----------------------------
(* JobStore for TLC: job ids are interchangeable, and so are payloads. *)
EXTENDS JobStore, TLC

JobSymmetry == Permutations(JobIds)
=============================================================================
