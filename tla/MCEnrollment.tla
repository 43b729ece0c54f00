---------------------------- MODULE MCEnrollment ----------------------------
(* Small instances of Enrollment for TLC. *)
EXTENDS Enrollment, TLC

(* Devices are interchangeable, and so are the goroutines of one pool. *)
Symmetry == Permutations(WGKeys) \cup Permutations(Logins) \cup Permutations(Savers)
=============================================================================
