--------------------------- MODULE MCDocumentStore ---------------------------
(* Bounds for model checking DocumentStore. *)
EXTENDS DocumentStore, TLC

\* Request slots, case ids and accounts are each interchangeable.
Interchangeable == Permutations(Requests) \cup Permutations(Cases) \cup Permutations(Accounts)
=============================================================================
