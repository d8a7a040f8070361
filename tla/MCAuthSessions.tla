--------------------------- MODULE MCAuthSessions ---------------------------
(* Bounds for model checking AuthSessions. *)
EXTENDS AuthSessions
=============================================================================
