--------------------------- MODULE MCPasskeyLogin ---------------------------
(* Bounds for model checking PasskeyLogin. *)
EXTENDS PasskeyLogin, TLC

\* Request slots are interchangeable, and so are accounts.
Interchangeable == Permutations(Requests) \cup Permutations(Accounts)
=============================================================================
