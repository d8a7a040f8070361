---------------------------- MODULE MCMigrations ----------------------------
(* Bounds for model checking Migrations. *)
EXTENDS Migrations

\* One value of each kind a script treats differently.
SampleValues == {"none", "needs_ocr", "complete", "case_read", "event_created",
                 "event_note_created", "document_derived", "user_asserted"}
=============================================================================
