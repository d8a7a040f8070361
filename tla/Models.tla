------------------------------- MODULE Models -------------------------------
(* The tables as the ORM declares them (app/models, app/jobs/models.py).  Of *)
(* each table: the columns that refer to another table, what deleting the    *)
(* row they refer to does, the columns of an enum type, the unique keys, and *)
(* the checks that span columns.  Other columns are left out.                *)

Column(kind, on, to, rule, null) ==
    [kind |-> kind, on |-> on, to |-> to, rule |-> rule, null |-> null]

\* A foreign key, with its ON DELETE rule; `Optional` if the column may be NULL.
Ref(column, table, rule)      == Column("ref", {column}, table, rule, FALSE)
Optional(column, table, rule) == Column("ref", {column}, table, rule, TRUE)
Enum(column, type) == Column("enum", {column}, type, "none", FALSE)
Unique(columns)    == Column("unique", columns, "none", "none", FALSE)
Check(name)        == Column("check", {name}, "none", "none", FALSE)
Nullable(column)   == Column("plain", {column}, "none", "none", TRUE)

-----------------------------------------------------------------------------
Jurisdiction == {"florida"}
PartyRole == {"petitioner", "respondent", "child", "counsel", "guardian_ad_litem",
              "evaluator", "judge", "other"}
DocumentKind == {"unclassified", "petition", "motion", "response", "order", "notice",
                 "financial_affidavit", "parenting_plan", "evaluation", "correspondence",
                 "exhibit", "other"}
IngestSource == {"upload", "camera", "email"}
OcrStatus == {"pending", "processing", "needs_ocr", "complete", "failed"}
FactField == {"case_number", "court", "judge", "document_kind", "filed_date", "served_date",
              "party_name", "counsel_name", "requested_relief", "referenced_exhibit",
              "referenced_date", "monetary_amount"}
EventKind == {"procedural", "alleged"}
EventProvenance == {"document_derived", "user_asserted"}
DatePrecision == {"exact", "day", "month", "year"}
AuthEventType == {"login_succeeded", "login_failed"}
CaseAction == {"case_created", "case_read", "case_list", "document_uploaded", "document_list",
               "document_read", "event_created", "event_list", "event_note_created"}
JobKind == {"ocr_document"}
JobStatus == {"queued", "running", "succeeded", "failed"}

-----------------------------------------------------------------------------
UserAccount == {Unique({"email"}), Nullable("password_hash")}
Case == {Ref("owner_id", "user_account", "CASCADE"), Enum("jurisdiction", "jurisdiction")}
Party == {Ref("case_id", "case", "CASCADE"), Enum("role", "party_role"),
          Unique({"case_id", "display_name", "role"})}
Document == {Ref("case_id", "case", "CASCADE"), Enum("kind", "document_kind"),
             Enum("ingest_source", "ingest_source"), Enum("ocr_status", "ocr_status"),
             Unique({"case_id", "content_hash"})}
DocumentPage == {Ref("document_id", "document", "CASCADE"),
                 Unique({"document_id", "page_number"})}
Passage == {Ref("page_id", "document_page", "CASCADE")}
ExtractedFact == {Ref("document_id", "document", "CASCADE"),
                  Ref("passage_id", "passage", "CASCADE"), Enum("field", "fact_field"),
                  Unique({"passage_id", "field", "extractor_version"})}
CaseEvent == {Ref("case_id", "case", "CASCADE"), Enum("kind", "event_kind"),
              Enum("provenance", "event_provenance"), Enum("date_precision", "date_precision"),
              Optional("passage_id", "passage", "CASCADE"),
              Optional("recorded_by_user_id", "user_account", "CASCADE"),
              Optional("asserted_by_party_id", "party", "SET_NULL"),
              Optional("about_party_id", "party", "SET_NULL"),
              Check("documentary_events_cite_a_passage"),
              Check("asserted_events_name_their_author")}
CaseEventNote == {Ref("event_id", "case_event", "CASCADE"),
                  Ref("author_user_id", "user_account", "CASCADE")}
AuthEvent == {Optional("user_id", "user_account", "SET_NULL"),
              Enum("event_type", "auth_event_type")}
CaseAuditEvent == {Optional("actor_user_id", "user_account", "SET_NULL"),
                   Optional("case_id", "case", "SET_NULL"), Enum("action", "case_action")}
UserSession == {Ref("user_id", "user_account", "CASCADE"), Unique({"refresh_digest"})}
UsedRefreshToken == {Ref("session_id", "user_session", "CASCADE"), Unique({"digest"})}
UserMfa == {Ref("user_id", "user_account", "CASCADE"), Unique({"user_id"})}
RecoveryCode == {Ref("user_id", "user_account", "CASCADE"), Unique({"user_id", "digest"})}
Passkey == {Ref("user_id", "user_account", "CASCADE"), Unique({"credential_id"})}
PasskeyChallenge == {Optional("user_id", "user_account", "CASCADE"), Unique({"challenge"})}
Job == {Enum("kind", "job_kind"), Enum("status", "job_status")}

-----------------------------------------------------------------------------
\* Base.metadata, once every model is imported.
ModelTypes == [
    jurisdiction |-> Jurisdiction, party_role |-> PartyRole, document_kind |-> DocumentKind,
    ingest_source |-> IngestSource, ocr_status |-> OcrStatus, fact_field |-> FactField,
    event_kind |-> EventKind, event_provenance |-> EventProvenance,
    date_precision |-> DatePrecision, auth_event_type |-> AuthEventType,
    case_action |-> CaseAction, job_kind |-> JobKind, job_status |-> JobStatus]
ModelTables == [
    user_account |-> UserAccount, case |-> Case, party |-> Party, document |-> Document,
    document_page |-> DocumentPage, passage |-> Passage, extracted_fact |-> ExtractedFact,
    case_event |-> CaseEvent, case_event_note |-> CaseEventNote, auth_event |-> AuthEvent,
    case_audit_event |-> CaseAuditEvent, user_session |-> UserSession,
    used_refresh_token |-> UsedRefreshToken, user_mfa |-> UserMfa,
    recovery_code |-> RecoveryCode, passkey |-> Passkey,
    passkey_challenge |-> PasskeyChallenge, job |-> Job]
=============================================================================
