--------------------------- MODULE MCMfaEnrolment ---------------------------
(* Bounds for model checking MfaEnrolment. *)
EXTENDS MfaEnrolment, TLC

\* Request slots are interchangeable.
Slots == Permutations(Requests)
=============================================================================
