----------------------------- MODULE MCJobQueue -----------------------------
(* Bounds for model checking JobQueue. *)
EXTENDS JobQueue
=============================================================================
