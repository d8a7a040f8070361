----------------------------- MODULE Migrations -----------------------------
(* The database under alembic/versions: nine revisions in a chain, each a    *)
(* script up and a script down, run on a database with rows in it; and the   *)
(* one statement that reaches every table, the deletion of an account        *)
(* (auth/deletion.py).  env.py runs scripts in a transaction: one statement  *)
(* refused and nothing has happened.                                         *)
(*                                                                           *)
(* An account has at most one row in each table, and what the row refers to  *)
(* are the account's rows in the tables referred to.                         *)
EXTENDS Models, Naturals, FiniteSets, Functions

CONSTANTS
    Accounts,   \* user accounts
    Values,     \* bound: the enum values that rows carry
    MaxRows     \* bound: rows in the database

ASSUME BoundsAssumption == MaxRows \in Nat

VARIABLES
    db,         \* the tables with their columns, the enum types with their values, the rows
    revision    \* how many of the scripts have been run

vars == <<db, revision>>

-----------------------------------------------------------------------------
(* Statements.  Enum types are created and dropped with checkfirst.          *)
CreateTypes(types)           == [do |-> "create_types", types |-> types]
DropTypes(types)             == [do |-> "drop_types", types |-> types]
AddValues(type, values)      == [do |-> "add_values", type |-> type, values |-> values]
CreateTable(table, columns)  == [do |-> "create_table", table |-> table, columns |-> columns]
DropTable(table)             == [do |-> "drop_table", table |-> table]
AddColumn(table, column)     == [do |-> "add_column", table |-> table, column |-> column]
DropColumn(table, column)    == [do |-> "drop_column", table |-> table, column |-> column]
Update(table, old, new)      == [do |-> "update", table |-> table, old |-> old, new |-> new]
Delete(table, values)        == [do |-> "delete", table |-> table, values |-> values]
\* Rename the type, create it anew, have the table's column use it, drop the renamed one.
Recast(table, type, values)  == [do |-> "recast", table |-> table, type |-> type, values |-> values]

\* Columns of other tables that refer to a table or use a type.
Users(d, name, table) == {k \in UNION {d.tables[t] : t \in DOMAIN d.tables \ {table}} : k.to = name}
Known(d) == DOMAIN d.tables \cup DOMAIN d.types \cup {"none"}

\* What PostgreSQL refuses.
Refused(d, s) ==
    \/ s.do = "drop_types" /\ \E y \in s.types \cap DOMAIN d.types : Users(d, y, "none") # {}
    \/ s.do = "add_values" /\ s.type \notin DOMAIN d.types
    \/ s.do = "create_table" /\ \/ s.table \in DOMAIN d.tables
                                \/ \E k \in s.columns : k.to \notin Known(d)
    \/ s.do = "drop_table" /\ (s.table \notin DOMAIN d.tables \/ Users(d, s.table, s.table) # {})
    \/ s.do = "add_column" /\ (s.table \notin DOMAIN d.tables \/ s.column \in d.tables[s.table])
    \/ s.do = "drop_column" /\ (s.table \notin DOMAIN d.tables \/ s.column \notin d.tables[s.table])
    \/ s.do = "recast" /\ \/ Users(d, s.type, s.table) # {}
                          \/ \E r \in d.rows : r.table = s.table /\ r.value \notin s.values

\* What it does.
Joined(f, g) == [x \in DOMAIN f \cup DOMAIN g |-> IF x \in DOMAIN f THEN f[x] ELSE g[x]]
Effect(d, s) ==
    CASE s.do = "create_types" -> [d EXCEPT !.types = Joined(@, s.types)]
      [] s.do = "drop_types" -> [d EXCEPT !.types = Restrict(@, DOMAIN @ \ s.types)]
      [] s.do = "add_values" -> [d EXCEPT !.types[s.type] = @ \cup s.values]
      [] s.do = "create_table" -> [d EXCEPT !.tables = Joined(@, [t \in {s.table} |-> s.columns])]
      [] s.do = "drop_table" -> [d EXCEPT !.tables = Restrict(@, DOMAIN @ \ {s.table}),
                                          !.rows = {r \in @ : r.table # s.table}]
      [] s.do = "add_column" ->
           [d EXCEPT !.tables[s.table] = @ \cup {s.column},
                     !.rows = {IF r.table = s.table THEN [r EXCEPT !.null = @ \cup s.column.on]
                                                    ELSE r : r \in @}]
      [] s.do = "drop_column" ->
           [d EXCEPT !.tables[s.table] = @ \ {s.column},
                     !.rows = {IF r.table = s.table THEN [r EXCEPT !.null = @ \ s.column.on]
                                                    ELSE r : r \in @}]
      [] s.do = "update" ->
           [d EXCEPT !.rows = {IF r.table = s.table /\ r.value = s.old
                               THEN [r EXCEPT !.value = s.new] ELSE r : r \in @}]
      [] s.do = "delete" ->
           [d EXCEPT !.rows = {r \in @ : ~ (r.table = s.table /\ r.value \in s.values)}]
      [] s.do = "recast" -> [d EXCEPT !.types[s.type] = s.values]

\* One statement more of a script; after one that is refused, nothing.
Execute(d, s) == IF d.failed THEN d
                 ELSE IF Refused(d, s) THEN [d EXCEPT !.failed = TRUE]
                 ELSE Effect(d, s)
d ++ s == Execute(d, s)

-----------------------------------------------------------------------------
(* 2d61942264a6, core case file schema                                       *)
core_values == [
    jurisdiction |-> {"florida"},
    party_role |-> {"petitioner", "respondent", "child", "counsel", "guardian_ad_litem",
                    "evaluator", "judge", "other"},
    document_kind |-> {"unclassified", "petition", "motion", "response", "order", "notice",
                       "financial_affidavit", "parenting_plan", "evaluation",
                       "correspondence", "exhibit", "other"},
    ingest_source |-> {"upload", "camera", "email"},
    ocr_status |-> {"pending", "processing", "complete", "failed"},
    fact_field |-> {"case_number", "court", "judge", "document_kind", "filed_date",
                    "served_date", "party_name", "counsel_name", "requested_relief",
                    "referenced_exhibit", "referenced_date", "monetary_amount"}]

user_account == CreateTable("user_account", {Unique({"email"})})
case == CreateTable("case",
    {Ref("owner_id", "user_account", "CASCADE"), Enum("jurisdiction", "jurisdiction")})
party == CreateTable("party",
    {Ref("case_id", "case", "CASCADE"), Enum("role", "party_role"),
     Unique({"case_id", "display_name", "role"})})
document == CreateTable("document",
    {Ref("case_id", "case", "CASCADE"), Enum("kind", "document_kind"),
     Enum("ingest_source", "ingest_source"), Enum("ocr_status", "ocr_status"),
     Unique({"case_id", "content_hash"})})
document_page == CreateTable("document_page",
    {Ref("document_id", "document", "CASCADE"), Unique({"document_id", "page_number"})})
passage == CreateTable("passage", {Ref("page_id", "document_page", "CASCADE")})
extracted_fact == CreateTable("extracted_fact",
    {Ref("document_id", "document", "CASCADE"), Ref("passage_id", "passage", "CASCADE"),
     Enum("field", "fact_field"), Unique({"passage_id", "field", "extractor_version"})})

upgrade_2d61(d) ==
    d ++ CreateTypes(core_values) ++ user_account ++ case ++ party ++ document
      ++ document_page ++ passage ++ extracted_fact

\* Mutant: the tables are dropped in the order they were created.
MutDowngrade2d61(d) == d ++ DropTable("document") ++ DropTable("document_page")

downgrade_2d61(d) ==
    d ++ DropTable("extracted_fact") ++ DropTable("passage") ++ DropTable("document_page")
      ++ DropTable("document") ++ DropTable("party") ++ DropTable("case")
      ++ DropTable("user_account") ++ DropTypes(DOMAIN core_values)

-----------------------------------------------------------------------------
(* 8a1be962755b, timeline events with provenance                             *)
event_values == [
    event_kind |-> {"procedural", "alleged"},
    event_provenance |-> {"document_derived", "user_asserted"},
    date_precision |-> {"exact", "day", "month", "year"}]
case_event == CreateTable("case_event",
    {Ref("case_id", "case", "CASCADE"), Enum("kind", "event_kind"),
     Enum("provenance", "event_provenance"), Enum("date_precision", "date_precision"),
     Optional("passage_id", "passage", "CASCADE"),
     Optional("recorded_by_user_id", "user_account", "CASCADE"),
     Optional("asserted_by_party_id", "party", "SET_NULL"),
     Optional("about_party_id", "party", "SET_NULL"),
     Check("documentary_events_cite_a_passage"), Check("asserted_events_name_their_author")})

upgrade_8a1b(d) == d ++ CreateTypes(event_values) ++ case_event
downgrade_8a1b(d) == d ++ DropTable("case_event") ++ DropTypes(DOMAIN event_values)

(* c3f07a19b842, add needs_ocr status                                        *)
without_needs_ocr == {"pending", "processing", "complete", "failed"}
upgrade_c3f0(d) == d ++ AddValues("ocr_status", {"needs_ocr"})
downgrade_c3f0(d) == d ++ Update("document", "needs_ocr", "pending")
                       ++ Recast("document", "ocr_status", without_needs_ocr)

(* 6d9928f10001, auth accounts, sessions and audit                           *)
auth_event_type == [auth_event_type |-> {"login_succeeded", "login_failed"}]
auth_event == CreateTable("auth_event",
    {Optional("user_id", "user_account", "SET_NULL"), Enum("event_type", "auth_event_type")})
user_session == CreateTable("user_session",
    {Ref("user_id", "user_account", "CASCADE"), Unique({"refresh_digest"})})
used_refresh_token == CreateTable("used_refresh_token",
    {Ref("session_id", "user_session", "CASCADE"), Unique({"digest"})})

upgrade_6d99(d) ==
    d ++ CreateTypes(auth_event_type) ++ auth_event ++ user_session ++ used_refresh_token
      ++ AddColumn("user_account", Nullable("password_hash"))

\* Mutant: the type is left behind, as when create_table creates it by itself.
MutDowngrade6d99(d) ==
    d ++ DropColumn("user_account", Nullable("password_hash")) ++ DropTable("used_refresh_token")
      ++ DropTable("user_session") ++ DropTable("auth_event")

downgrade_6d99(d) ==
    d ++ DropColumn("user_account", Nullable("password_hash")) ++ DropTable("used_refresh_token")
      ++ DropTable("user_session") ++ DropTable("auth_event") ++ DropTypes({"auth_event_type"})

-----------------------------------------------------------------------------
(* dc19afc76696, MFA enrolment and recovery codes                            *)
recovery_code == CreateTable("recovery_code",
    {Ref("user_id", "user_account", "CASCADE"), Unique({"user_id", "digest"})})
user_mfa == CreateTable("user_mfa",
    {Ref("user_id", "user_account", "CASCADE"), Unique({"user_id"})})
upgrade_dc19(d) == d ++ recovery_code ++ user_mfa
downgrade_dc19(d) == d ++ DropTable("user_mfa") ++ DropTable("recovery_code")

(* be21fb82e87b, case audit trail                                            *)
case_action == [case_action |->
    {"case_created", "case_read", "case_list", "document_uploaded", "document_list",
     "document_read"}]
case_audit_event == CreateTable("case_audit_event",
    {Optional("actor_user_id", "user_account", "SET_NULL"),
     Optional("case_id", "case", "SET_NULL"), Enum("action", "case_action")})
upgrade_be21(d) == d ++ CreateTypes(case_action) ++ case_audit_event
downgrade_be21(d) == d ++ DropTable("case_audit_event") ++ DropTypes({"case_action"})

(* 27d0756116a0, passkey credentials                                         *)
passkey == CreateTable("passkey",
    {Ref("user_id", "user_account", "CASCADE"), Unique({"credential_id"})})

\* Mutant: a challenge outlives its account, as the audit rows do.
MutPasskeyChallenge == CreateTable("passkey_challenge",
    {Optional("user_id", "user_account", "SET_NULL"), Unique({"challenge"})})

passkey_challenge == CreateTable("passkey_challenge",
    {Optional("user_id", "user_account", "CASCADE"), Unique({"challenge"})})
upgrade_27d0(d) == d ++ passkey ++ passkey_challenge
downgrade_27d0(d) == d ++ DropTable("passkey_challenge") ++ DropTable("passkey")

(* 00002f9f0461, background job queue                                        *)
job_values == [job_kind |-> {"ocr_document"},
               job_status |-> {"queued", "running", "succeeded", "failed"}]
job == CreateTable("job", {Enum("kind", "job_kind"), Enum("status", "job_status")})
upgrade_0000(d) == d ++ CreateTypes(job_values) ++ job
downgrade_0000(d) == d ++ DropTable("job") ++ DropTypes(DOMAIN job_values)

(* 4b7c1d90e2aa, timeline correction notes and audit actions                 *)
previous_values == {"case_created", "case_read", "case_list", "document_uploaded",
                    "document_list", "document_read"}

\* Mutant: the action of the timeline's notes is forgotten.
MutNewValues == {"event_created", "event_list"}

new_values == {"event_created", "event_list", "event_note_created"}
case_event_note == CreateTable("case_event_note",
    {Ref("event_id", "case_event", "CASCADE"), Ref("author_user_id", "user_account", "CASCADE")})
upgrade_4b7c(d) == d ++ AddValues("case_action", new_values) ++ case_event_note

\* Mutant: the rows of an action that is gone are kept under another.
MutDowngrade4b7c(d) ==
    d ++ DropTable("case_event_note") ++ Update("case_audit_event", "event_created", "case_read")
      ++ Delete("case_audit_event", new_values)
      ++ Recast("case_audit_event", "case_action", previous_values)

downgrade_4b7c(d) ==
    d ++ DropTable("case_event_note") ++ Delete("case_audit_event", new_values)
      ++ Recast("case_audit_event", "case_action", previous_values)

-----------------------------------------------------------------------------
\* The scripts between a revision and the one before it.
upgrade(d, n) ==
    CASE n = 1 -> upgrade_2d61(d) [] n = 2 -> upgrade_8a1b(d) [] n = 3 -> upgrade_c3f0(d)
      [] n = 4 -> upgrade_6d99(d) [] n = 5 -> upgrade_dc19(d) [] n = 6 -> upgrade_be21(d)
      [] n = 7 -> upgrade_27d0(d) [] n = 8 -> upgrade_0000(d) [] n = 9 -> upgrade_4b7c(d)
downgrade(d, n) ==
    CASE n = 1 -> downgrade_2d61(d) [] n = 2 -> downgrade_8a1b(d) [] n = 3 -> downgrade_c3f0(d)
      [] n = 4 -> downgrade_6d99(d) [] n = 5 -> downgrade_dc19(d) [] n = 6 -> downgrade_be21(d)
      [] n = 7 -> downgrade_27d0(d) [] n = 8 -> downgrade_0000(d) [] n = 9 -> downgrade_4b7c(d)
Newest == 9

\* The function without arguments.
Nothing == [x \in {} |-> x]
Empty == [tables |-> Nothing, types |-> Nothing, rows |-> {}, failed |-> FALSE]
Init == db = Empty /\ revision = 0

Migrate(d, to) ==
    /\ ~ d.failed
    /\ db' = d /\ revision' = to

Upgrade   == revision < Newest /\ Migrate(upgrade(db, revision + 1), revision + 1)
Downgrade == revision > 0 /\ Migrate(downgrade(db, revision), revision - 1)

-----------------------------------------------------------------------------
\* The one enum column of a table whose value matters here.
Carried == [document |-> "ocr_status", case_audit_event |-> "case_action",
            case_event |-> "event_provenance"]
ValuesOf(d, table) == IF table \in DOMAIN Carried THEN d.types[Carried[table]] ELSE {"none"}

\* The columns that are NULL in a row.
IsNull(r, k) == k.on \subseteq r.null
References(d, r) == {k \in d.tables[r.table] : k.kind = "ref" /\ ~ IsNull(r, k)}
RowOf(d, table, account) == {r \in d.rows : r.table = table /\ r.account = account}

\* The CHECK constraints of case_event.
Holds(check, r) ==
    /\ check = Check("documentary_events_cite_a_passage") =>
           (r.value = "document_derived" <=> "passage_id" \notin r.null)
    /\ check = Check("asserted_events_name_their_author") =>
           (r.value = "user_asserted" <=> "recorded_by_user_id" \notin r.null)

\* A row the constraints let stand.
Permitted(d, r) ==
    /\ r.table \in DOMAIN d.tables
    /\ r.value \in ValuesOf(d, r.table)
    /\ \A k \in d.tables[r.table] : IsNull(r, k) => k.null \/ k.kind \notin {"ref", "plain"}
    /\ \A k \in References(d, r) : RowOf(d, k.to, r.account) # {}
    /\ \A k \in d.tables[r.table] : k.kind = "check" => Holds(k, r)

\* The columns a new row may leave NULL, as the models say.
NullableOf(table) == UNION {k.on : k \in {k \in ModelTables[table] : k.null}}

\* The program, which knows the schema of the models, inserts a row; an account it creates
\* has a password.
Insert(table, account, value, null) ==
    LET r == [table |-> table, account |-> account, value |-> value, null |-> null] IN
    /\ revision = Newest
    /\ Cardinality(db.rows) < MaxRows
    /\ RowOf(db, table, account) = {}
    /\ "password_hash" \notin null
    /\ Permitted(db, r)
    /\ db' = [db EXCEPT !.rows = @ \cup {r}]
    /\ UNCHANGED revision

\* A row refers to another by a column with ON DELETE CASCADE.
Follows(d, r, p) == \E k \in References(d, r) :
                       k.rule = "CASCADE" /\ p.table = k.to /\ p.account = r.account

\* Rows that go when an account's row goes: it, and the least set of rows that has those that
\* follow it and, with any row, those that follow that one.
Closure(d, account) ==
    LET start   == RowOf(d, "user_account", account)
        Cascade == {e \in d.rows \X d.rows : Follows(d, e[2], e[1])}
        Closed  == {S \in SUBSET {e[2] : e \in Cascade} :
                       \A e \in Cascade : e[1] \in start \cup S => e[2] \in S}
    IN  start \cup {r \in d.rows : \A S \in Closed : r \in S}

\* Mutant: ON DELETE SET NULL is forgotten.
MutNulled(d, r, gone) == r

\* ON DELETE SET NULL, in the rows that stay.
Nulled(d, r, gone) ==
    [r EXCEPT !.null = @ \cup UNION {k.on : k \in {k \in References(d, r) :
         k.rule = "SET_NULL" /\ \E p \in gone : p.table = k.to /\ p.account = r.account}}]

Erased(d, account) ==
    LET gone == Closure(d, account)
    IN  [d EXCEPT !.rows = {Nulled(d, r, gone) : r \in @ \ gone}]

\* delete_account: one DELETE, with all that its foreign keys entail.
delete_account(account) ==
    /\ revision = Newest
    /\ RowOf(db, "user_account", account) # {}
    /\ db' = Erased(db, account)
    /\ UNCHANGED revision

Next ==
    \/ Upgrade \/ Downgrade
    \/ \E table \in DOMAIN ModelTables, account \in Accounts :
          \E value \in Values, null \in SUBSET NullableOf(table) :
              Insert(table, account, value, null)
    \/ \E account \in Accounts : delete_account(account)

Spec == Init /\ [][Next]_vars

-----------------------------------------------------------------------------
\* At every revision, with whatever rows have been through whatever migrations and
\* deletions: the database is well formed and every row keeps every constraint.
TypeOK ==
    /\ revision \in 0 .. Newest /\ ~ db.failed
    /\ \A t \in DOMAIN db.tables : \A k \in db.tables[t] : k.to \in Known(db)
    /\ \A r \in db.rows : Permitted(db, r)

\* No statement of the next script up or down is refused, whatever rows are there: no table
\* another still refers to is dropped, no type in use, no row is left with a value its type
\* has lost.  Up and down again is as before, rows and all (ADR-0004:98: "Migration verified
\* reversible by round-tripping").
ScriptsSucceed ==
    /\ revision < Newest =>
           LET up == upgrade(db, revision + 1) IN
           ~ up.failed /\ downgrade(up, revision + 1) = db
    /\ revision > 0 => ~ downgrade(db, revision).failed

\* The schema depends on the revision alone and not on the way there: a downgrade leaves
\* nothing of its upgrade behind, such as an enum type, which checkfirst would let the next
\* upgrade take over with whatever values it has (2d61942264a6:7-10).
Fresh ==
    LET d1 == upgrade_2d61(Empty)  d2 == upgrade_8a1b(d1)  d3 == upgrade_c3f0(d2)
        d4 == upgrade_6d99(d3)     d5 == upgrade_dc19(d4)  d6 == upgrade_be21(d5)
        d7 == upgrade_27d0(d6)     d8 == upgrade_0000(d7)  d9 == upgrade_4b7c(d8)
    IN  <<d1, d2, d3, d4, d5, d6, d7, d8, d9>>
SchemaOfRevision ==
    LET fresh == IF revision = 0 THEN Empty ELSE Fresh[revision] IN
    /\ db.tables = fresh.tables
    /\ db.types = fresh.types

\* The head revision is what the models declare, key by key and value by value: a value the
\* program writes or a constraint its transactions count on is never missing.
HeadMatchesModels ==
    revision = Newest => db.tables = ModelTables /\ db.types = ModelTypes

\* Deleting an account is never refused by a constraint and leaves no row that refers to any
\* of what is gone; of the rows that did, only those of the two audit trails stay
\* (auth/deletion.py:9-12, 55-58).
DeletionComplete ==
    revision = Newest => \A account \in Accounts :
        RowOf(db, "user_account", account) # {} =>
            LET d == Erased(db, account) IN
            \A r \in d.rows : r.account = account =>
                /\ Permitted(d, r) /\ References(d, r) = {}
                /\ r \in db.rows \/ r.table \in {"auth_event", "case_audit_event"}

\* A migration changes no recorded fact.  Going down, the rows of a table go with it, an
\* audit row whose action is no longer a value goes ("silently rewriting a recorded action
\* to a different one would be worse", 4b7c1d90e2aa:83-86), a document that needs OCR is
\* pending; going up, every row stays as it is.  A password's hash is no fact in this sense:
\* undoing the revision that added the column drops it.
Facts(d) == {[r EXCEPT !.null = @ \ {"password_hash"}] : r \in d.rows}
FactsKept ==
    [][revision' # revision =>
         /\ \A r \in Facts(db) \ Facts(db)' :
                /\ revision' < revision
                /\ \/ r.table \notin DOMAIN db'.tables
                   \/ r.table = "case_audit_event" /\ r.value \notin db'.types["case_action"]
                   \/ r.table = "document" /\ r.value = "needs_ocr"
                      /\ [r EXCEPT !.value = "pending"] \in Facts(db)'
         /\ \A r \in Facts(db)' \ Facts(db) :
                r.value = "pending" /\ [r EXCEPT !.value = "needs_ocr"] \in Facts(db)]_vars
=============================================================================
