-------------------------- MODULE MigrationsProofs --------------------------
(* Proofs about Migrations, for any accounts, values and number of rows.     *)
EXTENDS Migrations, TLAPS

\* The revision that creates a table, an enum type.
Since == [
    user_account |-> 1, case |-> 1, party |-> 1, document |-> 1, document_page |-> 1,
    passage |-> 1, extracted_fact |-> 1, case_event |-> 2, auth_event |-> 4,
    user_session |-> 4, used_refresh_token |-> 4, recovery_code |-> 5, user_mfa |-> 5,
    case_audit_event |-> 6, passkey |-> 7, passkey_challenge |-> 7, job |-> 8,
    case_event_note |-> 9]
TypeSince == [
    jurisdiction |-> 1, party_role |-> 1, document_kind |-> 1, ingest_source |-> 1,
    ocr_status |-> 1, fact_field |-> 1, event_kind |-> 2, event_provenance |-> 2,
    date_precision |-> 2, auth_event_type |-> 4, case_action |-> 6, job_kind |-> 8,
    job_status |-> 8]
Tables(n) == {t \in DOMAIN Since : Since[t] <= n}
Types(n)  == {y \in DOMAIN TypeSince : TypeSince[y] <= n}

\* What a table and a type are at a revision, once they are there.
ColumnsAt(n, t) == IF t = "user_account" /\ n < 4 THEN {Unique({"email"})} ELSE ModelTables[t]
ValuesAt(n, y)  == IF y = "ocr_status" /\ n < 3 THEN without_needs_ocr
                   ELSE IF y = "case_action" /\ n < 9 THEN previous_values
                   ELSE ModelTypes[y]

\* The database with tables T and types Y as they are at revision n, and rows R.
Db(T, Y, n, R) == [tables |-> [t \in T |-> ColumnsAt(n, t)],
                   types |-> [y \in Y |-> ValuesAt(n, y)], rows |-> R, failed |-> FALSE]
At(n, R) == Db(Tables(n), Types(n), n, R)

\* The names of tables and types that the columns of a table refer to.
Targets == [
    user_account |-> {"none"}, case |-> {"user_account", "jurisdiction"},
    party |-> {"case", "party_role", "none"},
    document |-> {"case", "document_kind", "ingest_source", "ocr_status", "none"},
    document_page |-> {"document", "none"}, passage |-> {"document_page"},
    extracted_fact |-> {"document", "passage", "fact_field", "none"},
    case_event |-> {"case", "event_kind", "event_provenance", "date_precision", "passage",
                    "user_account", "party", "none"},
    case_event_note |-> {"case_event", "user_account"},
    auth_event |-> {"user_account", "auth_event_type"},
    case_audit_event |-> {"user_account", "case", "case_action"},
    user_session |-> {"user_account", "none"}, used_refresh_token |-> {"user_session", "none"},
    user_mfa |-> {"user_account", "none"}, recovery_code |-> {"user_account", "none"},
    passkey |-> {"user_account", "none"}, passkey_challenge |-> {"user_account", "none"},
    job |-> {"job_kind", "job_status"}]

\* Names of columns, and rows.
Names == UNION {UNION {k.on : k \in ModelTables[t]} : t \in DOMAIN ModelTables}
Row   == [table : DOMAIN ModelTables, account : Accounts, value : Values \cup {"pending"},
          null : SUBSET Names]

\* No account's row says that a column is NULL which is not there yet.
Unmarked(n, r) == n < 4 /\ r.table = "user_account" => "password_hash" \notin r.null

\* The invariant: nothing but the revision's schema, and rows that keep its constraints.
IInv == /\ revision \in 0 .. 9
        /\ db.rows \subseteq Row
        /\ db = At(revision, db.rows)
        /\ \A r \in db.rows : Permitted(db, r) /\ Unmarked(revision, r)

-----------------------------------------------------------------------------
\* The columns of the tables.
LEMMA ColumnTo == /\ \A c, t, r : Ref(c, t, r).to = t /\ Optional(c, t, r).to = t
                  /\ \A c, t : Enum(c, t).to = t
                  /\ \A c : Unique(c).to = "none" /\ Check(c).to = "none" /\ Nullable(c).to = "none"
BY DEF Ref, Optional, Enum, Unique, Check, Nullable, Column

LEMMA RefFields == \A c, t, r : /\ Ref(c, t, r).to = t /\ Ref(c, t, r).kind = "ref"
                                /\ Ref(c, t, r).rule = r /\ Ref(c, t, r).null = FALSE
                                /\ Ref(c, t, r).on = {c}
BY DEF Ref, Column

LEMMA OptionalFields == \A c, t, r :
    /\ Optional(c, t, r).to = t /\ Optional(c, t, r).kind = "ref"
    /\ Optional(c, t, r).rule = r /\ Optional(c, t, r).null = TRUE
    /\ Optional(c, t, r).on = {c}
BY DEF Optional, Column

LEMMA EnumFields == \A c, t : Enum(c, t).to = t /\ Enum(c, t).kind = "enum"
BY DEF Enum, Column

LEMMA OtherFields == \A c : /\ Unique(c).to = "none" /\ Unique(c).kind = "unique"
                            /\ Check(c).to = "none" /\ Check(c).kind = "check"
                            /\ Nullable(c).to = "none" /\ Nullable(c).kind = "plain"
                            /\ Nullable(c).on = {c} /\ Nullable(c).null = TRUE
BY DEF Unique, Check, Nullable, Column

LEMMA CaseEventTargets ==
    \A k \in CaseEvent : k.to \in {"case", "event_kind", "event_provenance", "date_precision",
                                   "passage", "user_account", "party", "none"}
<1> SUFFICES ASSUME NEW k \in CaseEvent
             PROVE  k.to \in {"case", "event_kind", "event_provenance", "date_precision",
                              "passage", "user_account", "party", "none"}
  OBVIOUS
<1>1. CASE k \in {Ref("case_id", "case", "CASCADE"), Enum("kind", "event_kind"),
                  Enum("provenance", "event_provenance"),
                  Enum("date_precision", "date_precision")}
  BY <1>1, ColumnTo
<1>2. CASE k \in {Optional("passage_id", "passage", "CASCADE"),
                  Optional("recorded_by_user_id", "user_account", "CASCADE"),
                  Optional("asserted_by_party_id", "party", "SET_NULL"),
                  Optional("about_party_id", "party", "SET_NULL")}
  BY <1>2, ColumnTo
<1>3. CASE k \in {Check("documentary_events_cite_a_passage"),
                  Check("asserted_events_name_their_author")}
  BY <1>3, ColumnTo
<1> QED BY <1>1, <1>2, <1>3 DEF CaseEvent

LEMMA TargetsOfColumns ==
    \A t \in DOMAIN ModelTables : \A k \in ModelTables[t] : k.to \in Targets[t]
<1> SUFFICES ASSUME NEW t \in DOMAIN ModelTables, NEW k \in ModelTables[t]
             PROVE  k.to \in Targets[t]
  OBVIOUS
<1>1. CASE t \in {"user_account", "case", "party", "document"}
  BY <1>1, ColumnTo
     DEF ModelTables, Targets, UserAccount, Case, Party, Document
<1>2. CASE t \in {"document_page", "passage", "extracted_fact"}
  BY <1>2, ColumnTo
     DEF ModelTables, Targets, DocumentPage, Passage, ExtractedFact
<1>3. CASE t = "case_event"
  BY <1>3, CaseEventTargets DEF ModelTables, Targets
<1>4. CASE t \in {"case_event_note", "auth_event", "case_audit_event"}
  <2>1. CASE t = "case_event_note"
    BY <2>1, ColumnTo DEF ModelTables, Targets, CaseEventNote
  <2>2. CASE t = "auth_event"
    BY <2>2, ColumnTo DEF ModelTables, Targets, AuthEvent
  <2>3. CASE t = "case_audit_event"
    BY <2>3, ColumnTo DEF ModelTables, Targets, CaseAuditEvent
  <2> QED BY <1>4, <2>1, <2>2, <2>3
<1>5. CASE t \in {"user_session", "used_refresh_token", "user_mfa", "recovery_code"}
  BY <1>5, ColumnTo
     DEF ModelTables, Targets, UserSession, UsedRefreshToken, UserMfa, RecoveryCode
<1>6. CASE t \in {"passkey", "passkey_challenge", "job"}
  BY <1>6, ColumnTo
     DEF ModelTables, Targets, Passkey, PasskeyChallenge, Job
<1> QED BY <1>1, <1>2, <1>3, <1>4, <1>5, <1>6 DEF ModelTables

LEMMA ColumnTargets ==
    \A n : \A t \in DOMAIN ModelTables : \A k \in ColumnsAt(n, t) : k.to \in Targets[t]
<1> SUFFICES ASSUME NEW n, NEW t \in DOMAIN ModelTables, NEW k \in ColumnsAt(n, t)
             PROVE  k.to \in Targets[t]
  OBVIOUS
<1>1. CASE k \in ModelTables[t]
  BY <1>1, TargetsOfColumns
<1>2. CASE t = "user_account" /\ k = Unique({"email"})
  BY <1>2, ColumnTo DEF Targets
<1> QED BY <1>1, <1>2 DEF ColumnsAt

-----------------------------------------------------------------------------
\* What a statement that is not refused makes of the database at a revision.
LEMMA Executed == ASSUME NEW d, NEW s, d.failed = FALSE, ~ Refused(d, s)
                  PROVE  d ++ s = Effect(d, s)
<1>1. d ++ s = Execute(d, s)
  BY DEF ++
<1> QED BY <1>1 DEF Execute

LEMMA NoUsers == ASSUME NEW T \in SUBSET DOMAIN ModelTables, NEW Y, NEW n, NEW R, NEW x, NEW t,
                        \A u \in T \ {t} : x \notin Targets[u]
                 PROVE  Users(Db(T, Y, n, R), x, t) = {}
<1> DEFINE d == Db(T, Y, n, R)
<1>1. DOMAIN d.tables = T /\ \A u \in T : d.tables[u] = ColumnsAt(n, u)
  BY DEF Db
<1> HIDE DEF d
<1>2. \A u \in T \ {t} : \A k \in d.tables[u] : k.to # x
  BY <1>1, ColumnTargets
<1>3. Users(d, x, t) = {}
  BY <1>1, <1>2 DEF Users
<1> QED BY <1>3 DEF d

LEMMA TableCreated ==
    ASSUME NEW T \in SUBSET DOMAIN ModelTables, NEW Y, NEW n, NEW R,
           NEW t \in DOMAIN ModelTables \ T, Targets[t] \subseteq T \cup Y \cup {"none"}
    PROVE  Db(T, Y, n, R) ++ CreateTable(t, ColumnsAt(n, t)) = Db(T \cup {t}, Y, n, R)
<1> DEFINE d == Db(T, Y, n, R)
           s == CreateTable(t, ColumnsAt(n, t))
<1>0. /\ DOMAIN d.tables = T /\ \A u \in T : d.tables[u] = ColumnsAt(n, u)
      /\ DOMAIN d.types = Y /\ \A y \in Y : d.types[y] = ValuesAt(n, y)
      /\ d.rows = R /\ d.failed = FALSE
  BY DEF Db
<1>1. ~ Refused(d, s)
  BY <1>0, ColumnTargets DEF Refused, CreateTable, Known
<1>2. Effect(d, s) = [d EXCEPT !.tables = Joined(d.tables, [x \in {t} |-> ColumnsAt(n, t)])]
  BY DEF Effect, CreateTable
<1>3. Joined(d.tables, [x \in {t} |-> ColumnsAt(n, t)]) = [x \in T \cup {t} |-> ColumnsAt(n, x)]
  BY <1>0 DEF Joined
<1>4. Effect(d, s) = Db(T \cup {t}, Y, n, R)
  BY <1>2, <1>3 DEF Db
<1> HIDE DEF d, s
<1>6. d ++ s = Effect(d, s)
  BY <1>0, <1>1, Executed
<1> QED BY <1>4, <1>6 DEF d, s

LEMMA TableDropped ==
    ASSUME NEW T \in SUBSET DOMAIN ModelTables, NEW Y, NEW n, NEW R,
           NEW t \in T, \A u \in T \ {t} : t \notin Targets[u]
    PROVE  Db(T, Y, n, R) ++ DropTable(t) = Db(T \ {t}, Y, n, {r \in R : r.table # t})
<1> DEFINE d == Db(T, Y, n, R)
           s == DropTable(t)
<1>0. /\ DOMAIN d.tables = T /\ \A u \in T : d.tables[u] = ColumnsAt(n, u)
      /\ DOMAIN d.types = Y /\ \A y \in Y : d.types[y] = ValuesAt(n, y)
      /\ d.rows = R /\ d.failed = FALSE
  BY DEF Db
<1>5. Users(d, t, t) = {}
  BY NoUsers
<1>1. ~ Refused(d, s)
  BY <1>0, <1>5 DEF Refused, DropTable
<1>2. Effect(d, s) = [d EXCEPT !.tables = Restrict(d.tables, T \ {t}),
                               !.rows = {r \in R : r.table # t}]
  BY <1>0 DEF Effect, DropTable
<1>3. Restrict(d.tables, T \ {t}) = [x \in T \ {t} |-> ColumnsAt(n, x)]
  BY <1>0 DEF Restrict
<1>4. Effect(d, s) = Db(T \ {t}, Y, n, {r \in R : r.table # t})
  BY <1>2, <1>3 DEF Db
<1> HIDE DEF d, s
<1>6. d ++ s = Effect(d, s)
  BY <1>0, <1>1, Executed
<1> QED BY <1>4, <1>6 DEF d, s

LEMMA TypesCreated ==
    ASSUME NEW T, NEW Y, NEW n, NEW R, NEW f, DOMAIN f \cap Y = {},
           \A y \in DOMAIN f : f[y] = ValuesAt(n, y)
    PROVE  Db(T, Y, n, R) ++ CreateTypes(f) = Db(T, Y \cup DOMAIN f, n, R)
<1> DEFINE d == Db(T, Y, n, R)
           s == CreateTypes(f)
<1>0. /\ DOMAIN d.tables = T /\ \A u \in T : d.tables[u] = ColumnsAt(n, u)
      /\ DOMAIN d.types = Y /\ \A y \in Y : d.types[y] = ValuesAt(n, y)
      /\ d.rows = R /\ d.failed = FALSE
  BY DEF Db
<1>1. ~ Refused(d, s)
  BY DEF Refused, CreateTypes
<1>2. Effect(d, s) = [d EXCEPT !.types = Joined(d.types, f)]
  BY DEF Effect, CreateTypes
<1>3. Joined(d.types, f) = [y \in Y \cup DOMAIN f |-> ValuesAt(n, y)]
  BY <1>0 DEF Joined
<1>4. Effect(d, s) = Db(T, Y \cup DOMAIN f, n, R)
  BY <1>2, <1>3 DEF Db
<1> HIDE DEF d, s
<1>6. d ++ s = Effect(d, s)
  BY <1>0, <1>1, Executed
<1> QED BY <1>4, <1>6 DEF d, s

LEMMA TypesDropped ==
    ASSUME NEW T \in SUBSET DOMAIN ModelTables, NEW Y, NEW n, NEW R, NEW X,
           \A t \in T : Targets[t] \cap X = {}
    PROVE  Db(T, Y, n, R) ++ DropTypes(X) = Db(T, Y \ X, n, R)
<1> DEFINE d == Db(T, Y, n, R)
           s == DropTypes(X)
<1>0. /\ DOMAIN d.tables = T /\ \A u \in T : d.tables[u] = ColumnsAt(n, u)
      /\ DOMAIN d.types = Y /\ \A y \in Y : d.types[y] = ValuesAt(n, y)
      /\ d.rows = R /\ d.failed = FALSE
  BY DEF Db
<1>1. ~ Refused(d, s)
  <2>1. \A y \in X : Users(d, y, "none") = {}
    BY NoUsers
  <2> QED BY <2>1 DEF Refused, DropTypes
<1>2. Effect(d, s) = [d EXCEPT !.types = Restrict(d.types, Y \ X)]
  BY <1>0 DEF Effect, DropTypes
<1>3. Restrict(d.types, Y \ X) = [y \in Y \ X |-> ValuesAt(n, y)]
  BY <1>0 DEF Restrict
<1>4. Effect(d, s) = Db(T, Y \ X, n, R)
  BY <1>2, <1>3 DEF Db
<1> HIDE DEF d, s
<1>6. d ++ s = Effect(d, s)
  BY <1>0, <1>1, Executed
<1> QED BY <1>4, <1>6 DEF d, s

LEMMA ValuesAdded ==
    ASSUME NEW T, NEW Y, NEW n, NEW m, NEW R, NEW y \in Y, NEW V,
           ValuesAt(n, y) \cup V = ValuesAt(m, y),
           \A x \in Y \ {y} : ValuesAt(n, x) = ValuesAt(m, x),
           \A t \in T : ColumnsAt(n, t) = ColumnsAt(m, t)
    PROVE  Db(T, Y, n, R) ++ AddValues(y, V) = Db(T, Y, m, R)
<1> DEFINE d == Db(T, Y, n, R)
           s == AddValues(y, V)
<1>0. DOMAIN d.types = Y /\ (\A x \in Y : d.types[x] = ValuesAt(n, x)) /\ d.failed = FALSE
  BY DEF Db
<1>1. ~ Refused(d, s)
  BY <1>0 DEF Refused, AddValues
<1>2. Effect(d, s) = [d EXCEPT !.types = [d.types EXCEPT ![y] = d.types[y] \cup V]]
  BY DEF Effect, AddValues
<1>3. [d.types EXCEPT ![y] = d.types[y] \cup V] = [x \in Y |-> ValuesAt(m, x)]
  <2>1. d.types = [x \in Y |-> ValuesAt(n, x)]
    BY DEF Db
  <2> HIDE DEF d
  <2> QED BY <2>1
<1>7. [u \in T |-> ColumnsAt(n, u)] = [u \in T |-> ColumnsAt(m, u)]
  OBVIOUS
<1>4. Effect(d, s) = Db(T, Y, m, R)
  BY <1>2, <1>3, <1>7 DEF Db
<1> HIDE DEF d, s
<1>6. d ++ s = Effect(d, s)
  BY <1>0, <1>1, Executed
<1> QED BY <1>4, <1>6 DEF d, s

\* What a column that comes or goes, and an UPDATE of a value, make of the rows.
NullAdded(R, t, k)   == {IF r.table = t THEN [r EXCEPT !.null = @ \cup k.on] ELSE r : r \in R}
NullRemoved(R, t, k) == {IF r.table = t THEN [r EXCEPT !.null = @ \ k.on] ELSE r : r \in R}
Updated(R, t, old, new) ==
    {IF r.table = t /\ r.value = old THEN [r EXCEPT !.value = new] ELSE r : r \in R}

LEMMA ColumnAdded ==
    ASSUME NEW T, NEW Y, NEW n, NEW m, NEW R, NEW t \in T, NEW k,
           k \notin ColumnsAt(n, t), ColumnsAt(n, t) \cup {k} = ColumnsAt(m, t),
           \A u \in T \ {t} : ColumnsAt(n, u) = ColumnsAt(m, u),
           \A y \in Y : ValuesAt(n, y) = ValuesAt(m, y)
    PROVE  Db(T, Y, n, R) ++ AddColumn(t, k)
             = Db(T, Y, m, NullAdded(R, t, k))
<1> DEFINE d == Db(T, Y, n, R)
           s == AddColumn(t, k)
           Q == NullAdded(R, t, k)
<1>0. /\ DOMAIN d.tables = T /\ d.tables[t] = ColumnsAt(n, t)
      /\ d.rows = R /\ d.failed = FALSE
  BY DEF Db
<1>1. ~ Refused(d, s)
  BY <1>0 DEF Refused, AddColumn
<1>2. Effect(d, s) = [d EXCEPT !.tables = [d.tables EXCEPT ![t] = d.tables[t] \cup {k}],
                               !.rows = Q]
  BY <1>0 DEF Effect, AddColumn, NullAdded
<1>3. [d.tables EXCEPT ![t] = d.tables[t] \cup {k}] = [u \in T |-> ColumnsAt(m, u)]
  <2>1. d.tables = [u \in T |-> ColumnsAt(n, u)]
    BY DEF Db
  <2> HIDE DEF d
  <2> QED BY <2>1
<1>7. [y \in Y |-> ValuesAt(n, y)] = [y \in Y |-> ValuesAt(m, y)]
  OBVIOUS
<1>4. Effect(d, s) = Db(T, Y, m, Q)
  <2> HIDE DEF Q
  <2> QED BY <1>2, <1>3, <1>7 DEF Db
<1> HIDE DEF d, s
<1>6. d ++ s = Effect(d, s)
  BY <1>0, <1>1, Executed
<1> QED BY <1>4, <1>6 DEF d, s

LEMMA ColumnDropped ==
    ASSUME NEW T, NEW Y, NEW n, NEW m, NEW R, NEW t \in T, NEW k,
           k \in ColumnsAt(n, t), ColumnsAt(n, t) \ {k} = ColumnsAt(m, t),
           \A u \in T \ {t} : ColumnsAt(n, u) = ColumnsAt(m, u),
           \A y \in Y : ValuesAt(n, y) = ValuesAt(m, y)
    PROVE  Db(T, Y, n, R) ++ DropColumn(t, k)
             = Db(T, Y, m, NullRemoved(R, t, k))
<1> DEFINE d == Db(T, Y, n, R)
           s == DropColumn(t, k)
           Q == NullRemoved(R, t, k)
<1>0. /\ DOMAIN d.tables = T /\ d.tables[t] = ColumnsAt(n, t)
      /\ d.rows = R /\ d.failed = FALSE
  BY DEF Db
<1>1. ~ Refused(d, s)
  BY <1>0 DEF Refused, DropColumn
<1>2. Effect(d, s) = [d EXCEPT !.tables = [d.tables EXCEPT ![t] = d.tables[t] \ {k}],
                               !.rows = Q]
  BY <1>0 DEF Effect, DropColumn, NullRemoved
<1>3. [d.tables EXCEPT ![t] = d.tables[t] \ {k}] = [u \in T |-> ColumnsAt(m, u)]
  <2>1. d.tables = [u \in T |-> ColumnsAt(n, u)]
    BY DEF Db
  <2> HIDE DEF d
  <2> QED BY <2>1
<1>7. [y \in Y |-> ValuesAt(n, y)] = [y \in Y |-> ValuesAt(m, y)]
  OBVIOUS
<1>4. Effect(d, s) = Db(T, Y, m, Q)
  <2> HIDE DEF Q
  <2> QED BY <1>2, <1>3, <1>7 DEF Db
<1> HIDE DEF d, s
<1>6. d ++ s = Effect(d, s)
  BY <1>0, <1>1, Executed
<1> QED BY <1>4, <1>6 DEF d, s

LEMMA RowsUpdated ==
    ASSUME NEW T, NEW Y, NEW n, NEW R, NEW t, NEW old, NEW new
    PROVE  Db(T, Y, n, R) ++ Update(t, old, new)
             = Db(T, Y, n, Updated(R, t, old, new))
<1> DEFINE d == Db(T, Y, n, R)
           s == Update(t, old, new)
           Q == Updated(R, t, old, new)
<1>0. d.rows = R /\ d.failed = FALSE
  BY DEF Db
<1>1. ~ Refused(d, s)
  BY DEF Refused, Update
<1>2. Effect(d, s) = [d EXCEPT !.rows = Q]
  BY <1>0 DEF Effect, Update, Updated
<1>4. Effect(d, s) = Db(T, Y, n, Q)
  <2> HIDE DEF Q
  <2> QED BY <1>2 DEF Db
<1> HIDE DEF d, s
<1>6. d ++ s = Effect(d, s)
  BY <1>0, <1>1, Executed
<1> QED BY <1>4, <1>6 DEF d, s

LEMMA RowsDeleted ==
    ASSUME NEW T, NEW Y, NEW n, NEW R, NEW t, NEW V
    PROVE  Db(T, Y, n, R) ++ Delete(t, V)
             = Db(T, Y, n, {r \in R : ~ (r.table = t /\ r.value \in V)})
<1> DEFINE d == Db(T, Y, n, R)
           s == Delete(t, V)
           Q == {r \in R : ~ (r.table = t /\ r.value \in V)}
<1>0. d.rows = R /\ d.failed = FALSE
  BY DEF Db
<1>1. ~ Refused(d, s)
  BY DEF Refused, Delete
<1>2. Effect(d, s) = [d EXCEPT !.rows = Q]
  BY <1>0 DEF Effect, Delete
<1>4. Effect(d, s) = Db(T, Y, n, Q)
  <2> HIDE DEF Q
  <2> QED BY <1>2 DEF Db
<1> HIDE DEF d, s
<1>6. d ++ s = Effect(d, s)
  BY <1>0, <1>1, Executed
<1> QED BY <1>4, <1>6 DEF d, s

LEMMA TypeRecast ==
    ASSUME NEW T \in SUBSET DOMAIN ModelTables, NEW Y, NEW n, NEW m, NEW R, NEW t, NEW y \in Y,
           \A u \in T \ {t} : y \notin Targets[u],
           \A r \in R : r.table = t => r.value \in ValuesAt(m, y),
           \A x \in Y \ {y} : ValuesAt(n, x) = ValuesAt(m, x),
           \A u \in T : ColumnsAt(n, u) = ColumnsAt(m, u)
    PROVE  Db(T, Y, n, R) ++ Recast(t, y, ValuesAt(m, y)) = Db(T, Y, m, R)
<1> DEFINE d == Db(T, Y, n, R)
           s == Recast(t, y, ValuesAt(m, y))
<1>0. d.rows = R /\ d.failed = FALSE
  BY DEF Db
<1>5. Users(d, y, t) = {}
  BY NoUsers
<1>1. ~ Refused(d, s)
  BY <1>0, <1>5 DEF Refused, Recast
<1>2. Effect(d, s) = [d EXCEPT !.types = [d.types EXCEPT ![y] = ValuesAt(m, y)]]
  BY DEF Effect, Recast
<1>3. [d.types EXCEPT ![y] = ValuesAt(m, y)] = [x \in Y |-> ValuesAt(m, x)]
  <2>1. d.types = [x \in Y |-> ValuesAt(n, x)]
    BY DEF Db
  <2> HIDE DEF d
  <2> QED BY <2>1
<1>7. [u \in T |-> ColumnsAt(n, u)] = [u \in T |-> ColumnsAt(m, u)]
  OBVIOUS
<1>4. Effect(d, s) = Db(T, Y, m, R)
  BY <1>2, <1>3, <1>7 DEF Db
<1> HIDE DEF d, s
<1>6. d ++ s = Effect(d, s)
  BY <1>0, <1>1, Executed
<1> QED BY <1>4, <1>6 DEF d, s

-----------------------------------------------------------------------------
\* The tables and types of the revisions.
LEMMA Domains ==
    /\ DOMAIN ModelTables = DOMAIN Since /\ DOMAIN Targets = DOMAIN Since
    /\ DOMAIN ModelTypes = DOMAIN TypeSince
BY DEF ModelTables, Since, Targets, ModelTypes, TypeSince

LEMMA TablesOf ==
    /\ Tables(0) = {}
    /\ Tables(1) = {"user_account", "case", "party", "document", "document_page", "passage",
                    "extracted_fact"}
    /\ Tables(2) = Tables(1) \cup {"case_event"}
    /\ Tables(3) = Tables(2)
    /\ Tables(4) = Tables(3) \cup {"auth_event", "user_session", "used_refresh_token"}
    /\ Tables(5) = Tables(4) \cup {"recovery_code", "user_mfa"}
    /\ Tables(6) = Tables(5) \cup {"case_audit_event"}
    /\ Tables(7) = Tables(6) \cup {"passkey", "passkey_challenge"}
    /\ Tables(8) = Tables(7) \cup {"job"}
    /\ Tables(9) = Tables(8) \cup {"case_event_note"}
BY DEF Tables, Since

LEMMA TypesOf ==
    /\ Types(0) = {}
    /\ Types(1) = {"jurisdiction", "party_role", "document_kind", "ingest_source", "ocr_status",
                   "fact_field"}
    /\ Types(2) = Types(1) \cup {"event_kind", "event_provenance", "date_precision"}
    /\ Types(3) = Types(2)
    /\ Types(4) = Types(3) \cup {"auth_event_type"}
    /\ Types(5) = Types(4)
    /\ Types(6) = Types(5) \cup {"case_action"}
    /\ Types(7) = Types(6)
    /\ Types(8) = Types(7) \cup {"job_kind", "job_status"}
    /\ Types(9) = Types(8)
BY DEF Types, TypeSince

LEMMA CoreStatements ==
    \A n : /\ case = CreateTable("case", ColumnsAt(n, "case"))
           /\ party = CreateTable("party", ColumnsAt(n, "party"))
           /\ document = CreateTable("document", ColumnsAt(n, "document"))
           /\ document_page = CreateTable("document_page", ColumnsAt(n, "document_page"))
           /\ passage = CreateTable("passage", ColumnsAt(n, "passage"))
           /\ extracted_fact = CreateTable("extracted_fact", ColumnsAt(n, "extracted_fact"))
           /\ case_event = CreateTable("case_event", ColumnsAt(n, "case_event"))
           /\ case_event_note = CreateTable("case_event_note", ColumnsAt(n, "case_event_note"))
BY DEF case, party, document, document_page, passage, extracted_fact, case_event,
       case_event_note, ColumnsAt, ModelTables, Case, Party, Document, DocumentPage, Passage,
       ExtractedFact, CaseEvent, CaseEventNote

LEMMA OtherStatements ==
    \A n : /\ auth_event = CreateTable("auth_event", ColumnsAt(n, "auth_event"))
           /\ user_session = CreateTable("user_session", ColumnsAt(n, "user_session"))
           /\ used_refresh_token
                = CreateTable("used_refresh_token", ColumnsAt(n, "used_refresh_token"))
           /\ recovery_code = CreateTable("recovery_code", ColumnsAt(n, "recovery_code"))
           /\ user_mfa = CreateTable("user_mfa", ColumnsAt(n, "user_mfa"))
           /\ case_audit_event
                = CreateTable("case_audit_event", ColumnsAt(n, "case_audit_event"))
           /\ passkey = CreateTable("passkey", ColumnsAt(n, "passkey"))
           /\ passkey_challenge
                = CreateTable("passkey_challenge", ColumnsAt(n, "passkey_challenge"))
           /\ job = CreateTable("job", ColumnsAt(n, "job"))
BY DEF auth_event, user_session, used_refresh_token, recovery_code, user_mfa, case_audit_event,
       passkey, passkey_challenge, job, ColumnsAt, ModelTables, AuthEvent, UserSession,
       UsedRefreshToken, RecoveryCode, UserMfa, CaseAuditEvent, Passkey, PasskeyChallenge, Job

LEMMA CoreValues ==
    /\ DOMAIN core_values = Types(1)
    /\ \A y \in Types(1) : core_values[y] = ValuesAt(1, y)
<1>1. DOMAIN core_values = Types(1)
  BY TypesOf DEF core_values
<1>2. ASSUME NEW y \in Types(1) PROVE core_values[y] = ValuesAt(1, y)
  <2>1. CASE y = "jurisdiction"
    BY <2>1 DEF core_values, ValuesAt, ModelTypes, Jurisdiction
  <2>2. CASE y = "party_role"
    BY <2>2 DEF core_values, ValuesAt, ModelTypes, PartyRole
  <2>3. CASE y = "document_kind"
    BY <2>3 DEF core_values, ValuesAt, ModelTypes, DocumentKind
  <2>4. CASE y = "ingest_source"
    BY <2>4 DEF core_values, ValuesAt, ModelTypes, IngestSource
  <2>5. CASE y = "ocr_status"
    BY <2>5 DEF core_values, ValuesAt, without_needs_ocr
  <2>6. CASE y = "fact_field"
    BY <2>6 DEF core_values, ValuesAt, ModelTypes, FactField
  <2> QED BY <2>1, <2>2, <2>3, <2>4, <2>5, <2>6, TypesOf
<1> QED BY <1>1, <1>2

LEMMA EventValues ==
    /\ DOMAIN event_values = {"event_kind", "event_provenance", "date_precision"}
    /\ \A n : \A y \in DOMAIN event_values : event_values[y] = ValuesAt(n, y)
BY DEF event_values, ValuesAt, ModelTypes, EventKind, EventProvenance, DatePrecision

LEMMA AuthEventValues ==
    /\ DOMAIN auth_event_type = {"auth_event_type"}
    /\ \A n : \A y \in DOMAIN auth_event_type : auth_event_type[y] = ValuesAt(n, y)
BY DEF auth_event_type, ValuesAt, ModelTypes, AuthEventType

LEMMA CaseActionValues ==
    /\ DOMAIN case_action = {"case_action"}
    /\ \A y \in DOMAIN case_action : case_action[y] = ValuesAt(6, y)
BY DEF case_action, ValuesAt, previous_values

LEMMA JobValues ==
    /\ DOMAIN job_values = {"job_kind", "job_status"}
    /\ \A n : \A y \in DOMAIN job_values : job_values[y] = ValuesAt(n, y)
BY DEF job_values, ValuesAt, ModelTypes, JobKind, JobStatus
-----------------------------------------------------------------------------
\* The scripts, between one revision and the next.
LEMMA SameColumns ==
    \A n, m \in Nat : (n < 4 <=> m < 4) => \A t : ColumnsAt(n, t) = ColumnsAt(m, t)
BY DEF ColumnsAt

LEMMA SameValues ==
    \A n, m \in Nat : (n < 3 <=> m < 3) /\ (n < 9 <=> m < 9)
                          => \A y : ValuesAt(n, y) = ValuesAt(m, y)
BY DEF ValuesAt

LEMMA SameRevision ==
    ASSUME NEW n \in Nat, NEW m \in Nat, NEW T, NEW Y, NEW R,
           n < 4 <=> m < 4, n < 3 <=> m < 3, n < 9 <=> m < 9
    PROVE  Db(T, Y, n, R) = Db(T, Y, m, R)
BY SameColumns, SameValues DEF Db

LEMMA Up1 == ASSUME NEW R PROVE upgrade_2d61(At(0, R)) = At(1, R)
<1> DEFINE Y == Types(1)
           D(T) == Db(T, Y, 1, R)
<1>0. /\ Y = {"jurisdiction", "party_role", "document_kind", "ingest_source", "ocr_status",
              "fact_field"}
      /\ DOMAIN ModelTables = DOMAIN Since
  BY TypesOf, Domains
<1>1. At(0, R) ++ CreateTypes(core_values) = D({})
  <2>1. At(0, R) = Db({}, {}, 1, R)
    BY SameRevision, TablesOf, TypesOf DEF At
  <2>2. Db({}, {}, 1, R) ++ CreateTypes(core_values) = Db({}, {} \cup DOMAIN core_values, 1, R)
    BY TypesCreated, CoreValues
  <2> QED BY <2>1, <2>2, CoreValues
<1> HIDE DEF Y, D
<1>t. ASSUME NEW T \in SUBSET DOMAIN Since, NEW t \in DOMAIN Since \ T,
             Targets[t] \subseteq T \cup Y \cup {"none"}
      PROVE  D(T) ++ CreateTable(t, ColumnsAt(1, t)) = D(T \cup {t})
  BY <1>0, <1>t, TableCreated DEF D
<1>2. D({}) ++ user_account = D({"user_account"})
  <2>1. user_account = CreateTable("user_account", ColumnsAt(1, "user_account"))
    BY DEF user_account, ColumnsAt
  <2> QED BY <1>0, <1>t, <2>1 DEF Since, Targets
<1>3. D({"user_account"}) ++ case = D({"user_account", "case"})
  <2>1. {"user_account"} \cup {"case"} = {"user_account", "case"}
    OBVIOUS
  <2> QED BY <1>0, <1>t, <2>1, CoreStatements DEF Since, Targets
<1>4. D({"user_account", "case"}) ++ party = D({"user_account", "case", "party"})
  <2>1. {"user_account", "case"} \cup {"party"} = {"user_account", "case", "party"}
    OBVIOUS
  <2> QED BY <1>0, <1>t, <2>1, CoreStatements DEF Since, Targets
<1>5. D({"user_account", "case", "party"}) ++ document
        = D({"user_account", "case", "party", "document"})
  <2>1. {"user_account", "case", "party"} \cup {"document"}
          = {"user_account", "case", "party", "document"}
    OBVIOUS
  <2> QED BY <1>0, <1>t, <2>1, CoreStatements DEF Since, Targets
<1>6. D({"user_account", "case", "party", "document"}) ++ document_page
        = D({"user_account", "case", "party", "document", "document_page"})
  <2>1. {"user_account", "case", "party", "document"} \cup {"document_page"}
          = {"user_account", "case", "party", "document", "document_page"}
    OBVIOUS
  <2> QED BY <1>0, <1>t, <2>1, CoreStatements DEF Since, Targets
<1>7. D({"user_account", "case", "party", "document", "document_page"}) ++ passage
        = D({"user_account", "case", "party", "document", "document_page", "passage"})
  <2>1. {"user_account", "case", "party", "document", "document_page"} \cup {"passage"}
          = {"user_account", "case", "party", "document", "document_page", "passage"}
    OBVIOUS
  <2> QED BY <1>0, <1>t, <2>1, CoreStatements DEF Since, Targets
<1>8. D({"user_account", "case", "party", "document", "document_page", "passage"})
        ++ extracted_fact = D(Tables(1))
  <2>1. {"user_account", "case", "party", "document", "document_page", "passage"}
          \cup {"extracted_fact"} = Tables(1)
    BY TablesOf
  <2> QED BY <1>0, <1>t, <2>1, CoreStatements DEF Since, Targets
<1>9. upgrade_2d61(At(0, R)) = D(Tables(1))
  BY <1>1, <1>2, <1>3, <1>4, <1>5, <1>6, <1>7, <1>8 DEF upgrade_2d61
<1> QED BY <1>9 DEF D, Y, At

LEMMA Up2 == ASSUME NEW R PROVE upgrade_8a1b(At(1, R)) = At(2, R)
<1> DEFINE T == Tables(1)
<1>0. /\ T = {"user_account", "case", "party", "document", "document_page", "passage",
              "extracted_fact"}
      /\ T \in SUBSET DOMAIN ModelTables /\ "case_event" \in DOMAIN ModelTables \ T
      /\ Types(2) = Types(1) \cup DOMAIN event_values /\ DOMAIN event_values \cap Types(1) = {}
  BY TablesOf, TypesOf, Domains, EventValues DEF Since
<1>1. At(1, R) = Db(T, Types(1), 2, R)
  BY SameRevision DEF At
<1>2. Db(T, Types(1), 2, R) ++ CreateTypes(event_values) = Db(T, Types(2), 2, R)
  BY <1>0, TypesCreated, EventValues
<1>3. Targets["case_event"] \subseteq T \cup Types(2) \cup {"none"}
  BY <1>0, TypesOf, EventValues DEF Targets
<1>4. Db(T, Types(2), 2, R) ++ case_event = Db(T \cup {"case_event"}, Types(2), 2, R)
  BY <1>0, <1>3, TableCreated, CoreStatements
<1> QED BY <1>1, <1>2, <1>4, TablesOf DEF upgrade_8a1b, At

LEMMA Up3 == ASSUME NEW R PROVE upgrade_c3f0(At(2, R)) = At(3, R)
<1>1. /\ "ocr_status" \in Types(2)
      /\ ValuesAt(2, "ocr_status") \cup {"needs_ocr"} = ValuesAt(3, "ocr_status")
  BY TypesOf DEF ValuesAt, ModelTypes, OcrStatus, without_needs_ocr
<1>2. \A y \in Types(2) \ {"ocr_status"} : ValuesAt(2, y) = ValuesAt(3, y)
  BY DEF ValuesAt
<1>3. \A t \in Tables(2) : ColumnsAt(2, t) = ColumnsAt(3, t)
  BY SameColumns
<1>4. Db(Tables(2), Types(2), 2, R) ++ AddValues("ocr_status", {"needs_ocr"})
        = Db(Tables(2), Types(2), 3, R)
  BY <1>1, <1>2, <1>3, ValuesAdded
<1> QED BY <1>4, TablesOf, TypesOf DEF upgrade_c3f0, At

\* What the password column does to a row: an account that was there before has no password.
WithHash(r)    == IF r.table = "user_account" THEN [r EXCEPT !.null = @ \cup {"password_hash"}]
                                              ELSE r
WithoutHash(r) == IF r.table = "user_account" THEN [r EXCEPT !.null = @ \ {"password_hash"}]
                                              ELSE r

LEMMA AccountColumns ==
    \A n \in 0 .. 3, m \in 4 .. 9 :
        /\ Nullable("password_hash") \notin ColumnsAt(n, "user_account")
        /\ Nullable("password_hash") \in ColumnsAt(m, "user_account")
        /\ ColumnsAt(n, "user_account") \cup {Nullable("password_hash")}
             = ColumnsAt(m, "user_account")
        /\ ColumnsAt(m, "user_account") \ {Nullable("password_hash")}
             = ColumnsAt(n, "user_account")
        /\ \A t : t # "user_account" => ColumnsAt(n, t) = ColumnsAt(m, t)
<1>1. Nullable("password_hash") # Unique({"email"})
  BY OtherFields
<1> QED BY <1>1 DEF ColumnsAt, ModelTables, UserAccount

LEMMA Up4 == ASSUME NEW R PROVE upgrade_6d99(At(3, R)) = At(4, {WithHash(r) : r \in R})
<1> DEFINE T == Tables(3)
           Y == Types(4)
<1>0. /\ T = {"user_account", "case", "party", "document", "document_page", "passage",
              "extracted_fact", "case_event"}
      /\ T \in SUBSET DOMAIN ModelTables
      /\ {"auth_event", "user_session", "used_refresh_token"} \subseteq DOMAIN ModelTables \ T
      /\ Y = Types(3) \cup DOMAIN auth_event_type /\ DOMAIN auth_event_type \cap Types(3) = {}
      /\ "auth_event_type" \in Y
  BY TablesOf, TypesOf, Domains, AuthEventValues DEF Since
<1>1. At(3, R) ++ CreateTypes(auth_event_type) = Db(T, Y, 3, R)
  BY <1>0, TypesCreated, AuthEventValues DEF At
<1> HIDE DEF T, Y
<1>2. Db(T, Y, 3, R) ++ auth_event = Db(T \cup {"auth_event"}, Y, 3, R)
  <2>1. Targets["auth_event"] \subseteq T \cup Y \cup {"none"}
    BY <1>0 DEF Targets
  <2> QED BY <1>0, <2>1, TableCreated, OtherStatements
<1>3. Db(T \cup {"auth_event"}, Y, 3, R) ++ user_session
        = Db(T \cup {"auth_event", "user_session"}, Y, 3, R)
  <2>1. Targets["user_session"] \subseteq T \cup {"auth_event"} \cup Y \cup {"none"}
    BY <1>0 DEF Targets
  <2>2. T \cup {"auth_event"} \cup {"user_session"} = T \cup {"auth_event", "user_session"}
    OBVIOUS
  <2>3. T \cup {"auth_event"} \in SUBSET DOMAIN ModelTables
        /\ "user_session" \in DOMAIN ModelTables \ (T \cup {"auth_event"})
    BY <1>0
  <2> QED BY <2>1, <2>2, <2>3, TableCreated, OtherStatements
<1>4. Db(T \cup {"auth_event", "user_session"}, Y, 3, R) ++ used_refresh_token
        = Db(Tables(4), Y, 3, R)
  <2> DEFINE U == T \cup {"auth_event", "user_session"}
  <2>1. Targets["used_refresh_token"] \subseteq U \cup Y \cup {"none"}
    BY <1>0 DEF Targets
  <2>2. U \cup {"used_refresh_token"} = Tables(4)
    BY TablesOf DEF T
  <2>3. U \in SUBSET DOMAIN ModelTables /\ "used_refresh_token" \in DOMAIN ModelTables \ U
    BY <1>0
  <2> HIDE DEF U
  <2>4. Db(U, Y, 3, R) ++ used_refresh_token = Db(Tables(4), Y, 3, R)
    BY <2>1, <2>2, <2>3, TableCreated, OtherStatements
  <2> QED BY <2>4 DEF U
<1>5. Db(Tables(4), Y, 3, R) ++ AddColumn("user_account", Nullable("password_hash"))
        = Db(Tables(4), Y, 4, {WithHash(r) : r \in R})
  <2> DEFINE k == Nullable("password_hash")
             Q == NullAdded(R, "user_account", k)
  <2>1. Q = {WithHash(r) : r \in R}
    BY OtherFields DEF WithHash, NullAdded
  <2>2. "user_account" \in Tables(4) /\ \A y \in Y : ValuesAt(3, y) = ValuesAt(4, y)
    BY TablesOf, SameValues
  <2>3. /\ k \notin ColumnsAt(3, "user_account")
        /\ ColumnsAt(3, "user_account") \cup {k} = ColumnsAt(4, "user_account")
        /\ \A u \in Tables(4) \ {"user_account"} : ColumnsAt(3, u) = ColumnsAt(4, u)
    BY AccountColumns
  <2> HIDE DEF k
  <2>4. Db(Tables(4), Y, 3, R) ++ AddColumn("user_account", k) = Db(Tables(4), Y, 4, Q)
    BY <2>2, <2>3, ColumnAdded
  <2> QED BY <2>1, <2>4 DEF k
<1> QED BY <1>1, <1>2, <1>3, <1>4, <1>5 DEF upgrade_6d99, At, Y

LEMMA Up5 == ASSUME NEW R PROVE upgrade_dc19(At(4, R)) = At(5, R)
<1> DEFINE T == Tables(4)
           Y == Types(5)
<1>0. /\ "user_account" \in T /\ T \cup {"recovery_code"} \cup {"user_mfa"} = Tables(5)
      /\ T \in SUBSET DOMAIN ModelTables
      /\ {"recovery_code", "user_mfa"} \subseteq DOMAIN ModelTables \ T
  BY TablesOf, Domains DEF Since
<1>1. At(4, R) = Db(T, Y, 5, R)
  BY SameRevision, TypesOf DEF At
<1>2. /\ Targets["recovery_code"] \subseteq T \cup Y \cup {"none"}
      /\ Targets["user_mfa"] \subseteq T \cup {"recovery_code"} \cup Y \cup {"none"}
  BY <1>0 DEF Targets
<1> HIDE DEF T, Y
<1>3. Db(T, Y, 5, R) ++ recovery_code = Db(T \cup {"recovery_code"}, Y, 5, R)
  BY <1>0, <1>2, TableCreated, OtherStatements
<1>4. Db(T \cup {"recovery_code"}, Y, 5, R) ++ user_mfa = Db(Tables(5), Y, 5, R)
  <2> DEFINE U == T \cup {"recovery_code"}
  <2>1. U \in SUBSET DOMAIN ModelTables /\ "user_mfa" \in DOMAIN ModelTables \ U
    BY <1>0
  <2>2. U \cup {"user_mfa"} = Tables(5) /\ Targets["user_mfa"] \subseteq U \cup Y \cup {"none"}
    BY <1>0, <1>2
  <2> HIDE DEF U
  <2>3. Db(U, Y, 5, R) ++ user_mfa = Db(Tables(5), Y, 5, R)
    BY <2>1, <2>2, TableCreated, OtherStatements
  <2> QED BY <2>3 DEF U
<1> QED BY <1>1, <1>3, <1>4 DEF upgrade_dc19, At, Y

LEMMA Up6 == ASSUME NEW R PROVE upgrade_be21(At(5, R)) = At(6, R)
<1> DEFINE T == Tables(5)
           Y == Types(6)
<1>0. /\ {"user_account", "case"} \subseteq T /\ T \cup {"case_audit_event"} = Tables(6)
      /\ T \in SUBSET DOMAIN ModelTables /\ "case_audit_event" \in DOMAIN ModelTables \ T
      /\ Y = Types(5) \cup DOMAIN case_action /\ DOMAIN case_action \cap Types(5) = {}
      /\ "case_action" \in Y
  BY TablesOf, TypesOf, Domains, CaseActionValues DEF Since
<1>1. At(5, R) = Db(T, Types(5), 6, R)
  BY SameRevision DEF At
<1>2. Db(T, Types(5), 6, R) ++ CreateTypes(case_action) = Db(T, Y, 6, R)
  BY <1>0, TypesCreated, CaseActionValues
<1>3. Targets["case_audit_event"] \subseteq T \cup Y \cup {"none"}
  BY <1>0 DEF Targets
<1>4. Db(T, Y, 6, R) ++ case_audit_event = Db(Tables(6), Y, 6, R)
  <2> HIDE DEF T, Y
  <2> QED BY <1>0, <1>3, TableCreated, OtherStatements
<1> QED BY <1>1, <1>2, <1>4 DEF upgrade_be21, At

LEMMA Up7 == ASSUME NEW R PROVE upgrade_27d0(At(6, R)) = At(7, R)
<1> DEFINE T == Tables(6)
           Y == Types(7)
<1>0. /\ "user_account" \in T /\ T \cup {"passkey"} \cup {"passkey_challenge"} = Tables(7)
      /\ T \in SUBSET DOMAIN ModelTables
      /\ {"passkey", "passkey_challenge"} \subseteq DOMAIN ModelTables \ T
  BY TablesOf, Domains DEF Since
<1>1. At(6, R) = Db(T, Y, 7, R)
  BY SameRevision, TypesOf DEF At
<1>2. /\ Targets["passkey"] \subseteq T \cup Y \cup {"none"}
      /\ Targets["passkey_challenge"] \subseteq T \cup {"passkey"} \cup Y \cup {"none"}
  BY <1>0 DEF Targets
<1> HIDE DEF T, Y
<1>3. Db(T, Y, 7, R) ++ passkey = Db(T \cup {"passkey"}, Y, 7, R)
  BY <1>0, <1>2, TableCreated, OtherStatements
<1>4. Db(T \cup {"passkey"}, Y, 7, R) ++ passkey_challenge = Db(Tables(7), Y, 7, R)
  <2> DEFINE U == T \cup {"passkey"}
  <2>1. U \in SUBSET DOMAIN ModelTables /\ "passkey_challenge" \in DOMAIN ModelTables \ U
    BY <1>0
  <2>2. /\ U \cup {"passkey_challenge"} = Tables(7)
        /\ Targets["passkey_challenge"] \subseteq U \cup Y \cup {"none"}
    BY <1>0, <1>2
  <2> HIDE DEF U
  <2>3. Db(U, Y, 7, R) ++ passkey_challenge = Db(Tables(7), Y, 7, R)
    BY <2>1, <2>2, TableCreated, OtherStatements
  <2> QED BY <2>3 DEF U
<1> QED BY <1>1, <1>3, <1>4 DEF upgrade_27d0, At, Y

LEMMA Up8 == ASSUME NEW R PROVE upgrade_0000(At(7, R)) = At(8, R)
<1> DEFINE T == Tables(7)
           Y == Types(8)
<1>0. /\ T \cup {"job"} = Tables(8)
      /\ T \in SUBSET DOMAIN ModelTables /\ "job" \in DOMAIN ModelTables \ T
      /\ Y = Types(7) \cup DOMAIN job_values /\ DOMAIN job_values \cap Types(7) = {}
      /\ {"job_kind", "job_status"} \subseteq Y
  BY TablesOf, TypesOf, Domains, JobValues DEF Since
<1>1. At(7, R) = Db(T, Types(7), 8, R)
  BY SameRevision DEF At
<1>2. Db(T, Types(7), 8, R) ++ CreateTypes(job_values) = Db(T, Y, 8, R)
  BY <1>0, TypesCreated, JobValues
<1>3. Targets["job"] \subseteq T \cup Y \cup {"none"}
  BY <1>0 DEF Targets
<1>4. Db(T, Y, 8, R) ++ job = Db(Tables(8), Y, 8, R)
  <2> HIDE DEF T, Y
  <2> QED BY <1>0, <1>3, TableCreated, OtherStatements
<1> QED BY <1>1, <1>2, <1>4 DEF upgrade_0000, At

LEMMA Up9 == ASSUME NEW R PROVE upgrade_4b7c(At(8, R)) = At(9, R)
<1> DEFINE T == Tables(8)
           Y == Types(9)
<1>0. /\ {"case_event", "user_account"} \subseteq T /\ T \cup {"case_event_note"} = Tables(9)
      /\ T \in SUBSET DOMAIN ModelTables /\ "case_event_note" \in DOMAIN ModelTables \ T
      /\ Y = Types(8) /\ "case_action" \in Y
  BY TablesOf, TypesOf, Domains DEF Since
<1>1. ValuesAt(8, "case_action") \cup new_values = ValuesAt(9, "case_action")
  BY DEF ValuesAt, ModelTypes, CaseAction, previous_values, new_values
<1>2. \A y \in Y \ {"case_action"} : ValuesAt(8, y) = ValuesAt(9, y)
  BY DEF ValuesAt
<1>3. At(8, R) ++ AddValues("case_action", new_values) = Db(T, Y, 9, R)
  BY <1>0, <1>1, <1>2, SameColumns, ValuesAdded DEF At
<1>4. Targets["case_event_note"] \subseteq T \cup Y \cup {"none"}
  BY <1>0 DEF Targets
<1>5. Db(T, Y, 9, R) ++ case_event_note = Db(Tables(9), Y, 9, R)
  <2> HIDE DEF T, Y
  <2> QED BY <1>0, <1>4, TableCreated, CoreStatements
<1> QED BY <1>3, <1>5 DEF upgrade_4b7c, At

\* The rows that are left when only the tables T are.
Kept(R, T) == {r \in R : r.table \in T}

LEMMA TableGone ==
    ASSUME NEW T \in SUBSET DOMAIN ModelTables, NEW Y, NEW n, NEW R,
           NEW t \in T, \A u \in T \ {t} : t \notin Targets[u]
    PROVE  Db(T, Y, n, Kept(R, T)) ++ DropTable(t) = Db(T \ {t}, Y, n, Kept(R, T \ {t}))
<1>1. Db(T, Y, n, Kept(R, T)) ++ DropTable(t)
        = Db(T \ {t}, Y, n, {r \in Kept(R, T) : r.table # t})
  BY TableDropped
<1>2. {r \in Kept(R, T) : r.table # t} = Kept(R, T \ {t})
  BY DEF Kept
<1> QED BY <1>1, <1>2

LEMMA AllKept == ASSUME NEW T, NEW R, \A r \in R : r.table \in T
                 PROVE  Kept(R, T) = R
BY DEF Kept

LEMMA Down1 == ASSUME NEW R, \A r \in R : r.table \in Tables(1)
               PROVE  downgrade_2d61(At(1, R)) = At(0, Kept(R, Tables(0)))
<1> DEFINE Y == Types(1)
           D(T) == Db(T, Y, 1, Kept(R, T))
           T2 == {"user_account"}
           T3 == {"user_account", "case"}
           T4 == {"user_account", "case", "party"}
           T5 == {"user_account", "case", "party", "document"}
           T6 == {"user_account", "case", "party", "document", "document_page"}
           T7 == {"user_account", "case", "party", "document", "document_page", "passage"}
<1>0. DOMAIN ModelTables = DOMAIN Since
  BY Domains
<1>1. At(1, R) = D(Tables(1))
  BY AllKept DEF At
<1> HIDE DEF Y, D
<1>t. ASSUME NEW T \in SUBSET DOMAIN Since, NEW t \in T, \A u \in T \ {t} : t \notin Targets[u]
      PROVE  D(T) ++ DropTable(t) = D(T \ {t})
  BY <1>0, <1>t, TableGone DEF D
<1>2. D(Tables(1)) ++ DropTable("extracted_fact") = D(T7)
  <2>1. Tables(1) \ {"extracted_fact"} = T7
    BY TablesOf
  <2> QED BY <1>t, <2>1, TablesOf DEF Since, Targets
<1>3. D(T7) ++ DropTable("passage") = D(T6)
  <2>1. T7 \ {"passage"} = T6
    OBVIOUS
  <2> QED BY <1>t, <2>1 DEF Since, Targets
<1>4. D(T6) ++ DropTable("document_page") = D(T5)
  <2>1. T6 \ {"document_page"} = T5
    OBVIOUS
  <2> QED BY <1>t, <2>1 DEF Since, Targets
<1>5. D(T5) ++ DropTable("document") = D(T4)
  <2>1. T5 \ {"document"} = T4
    OBVIOUS
  <2> QED BY <1>t, <2>1 DEF Since, Targets
<1>6. D(T4) ++ DropTable("party") = D(T3)
  <2>1. T4 \ {"party"} = T3
    OBVIOUS
  <2> QED BY <1>t, <2>1 DEF Since, Targets
<1>7. D(T3) ++ DropTable("case") = D(T2)
  <2>1. T3 \ {"case"} = T2
    OBVIOUS
  <2> QED BY <1>t, <2>1 DEF Since, Targets
<1>8. D(T2) ++ DropTable("user_account") = D({})
  <2>1. T2 \ {"user_account"} = {}
    OBVIOUS
  <2> QED BY <1>t, <2>1 DEF Since, Targets
<1>9. D({}) ++ DropTypes(DOMAIN core_values) = At(0, Kept(R, Tables(0)))
  <2>1. D({}) ++ DropTypes(Y) = Db({}, Y \ Y, 1, Kept(R, {}))
    BY TypesDropped DEF D
  <2>2. Y \ Y = Types(0) /\ Tables(0) = {}
    BY TypesOf, TablesOf
  <2>3. Db({}, Types(0), 1, Kept(R, {})) = At(0, Kept(R, Tables(0)))
    BY <2>2, SameRevision DEF At
  <2> QED BY <2>1, <2>2, <2>3, CoreValues DEF Y
<1> HIDE DEF T2, T3, T4, T5, T6, T7
<1> QED BY <1>1, <1>2, <1>3, <1>4, <1>5, <1>6, <1>7, <1>8, <1>9 DEF downgrade_2d61

LEMMA Down2 == ASSUME NEW R, \A r \in R : r.table \in Tables(2)
               PROVE  downgrade_8a1b(At(2, R)) = At(1, Kept(R, Tables(1)))
<1>0. /\ Tables(2) \ {"case_event"} = Tables(1) /\ "case_event" \in Tables(2)
      /\ Tables(2) \in SUBSET DOMAIN ModelTables
      /\ Types(2) \ DOMAIN event_values = Types(1)
  BY TablesOf, TypesOf, Domains, EventValues DEF Since
<1>1. At(2, R) = Db(Tables(2), Types(2), 2, Kept(R, Tables(2)))
  BY AllKept DEF At
<1>2. \A u \in Tables(2) \ {"case_event"} : "case_event" \notin Targets[u]
  BY TablesOf DEF Targets
<1>3. At(2, R) ++ DropTable("case_event") = Db(Tables(1), Types(2), 2, Kept(R, Tables(1)))
  BY <1>0, <1>1, <1>2, TableGone
<1>4. \A t \in Tables(1) : Targets[t] \cap DOMAIN event_values = {}
  BY TablesOf, EventValues DEF Targets
<1>5. Db(Tables(1), Types(2), 2, Kept(R, Tables(1))) ++ DropTypes(DOMAIN event_values)
        = Db(Tables(1), Types(1), 2, Kept(R, Tables(1)))
  <2>1. Tables(1) \in SUBSET DOMAIN ModelTables
    BY <1>0
  <2> QED BY <1>0, <1>4, <2>1, TypesDropped
<1> QED BY <1>3, <1>5, SameRevision DEF downgrade_8a1b, At

\* A document that needs OCR is pending.
Pending(r) == IF r.table = "document" /\ r.value = "needs_ocr" THEN [r EXCEPT !.value = "pending"]
                                                               ELSE r

LEMMA Down3 == ASSUME NEW R, R \subseteq Row,
                      \A r \in R : r.table = "document" => r.value \in ValuesAt(3, "ocr_status")
               PROVE  downgrade_c3f0(At(3, R)) = At(2, {Pending(r) : r \in R})
<1> DEFINE T == Tables(3)
           Y == Types(3)
           Q == Updated(R, "document", "needs_ocr", "pending")
<1>0. /\ T = Tables(2) /\ Y = Types(2) /\ "ocr_status" \in Y
      /\ T \in SUBSET DOMAIN ModelTables
      /\ \A u \in T \ {"document"} : "ocr_status" \notin Targets[u]
  <2>1. T = {"user_account", "case", "party", "document", "document_page", "passage",
             "extracted_fact", "case_event"}
    BY TablesOf
  <2> QED BY <2>1, TablesOf, TypesOf, Domains DEF Since, Targets
<1>1. At(3, R) ++ Update("document", "needs_ocr", "pending") = Db(T, Y, 3, Q)
  BY RowsUpdated DEF At
<1>2. without_needs_ocr = ValuesAt(2, "ocr_status")
  BY DEF ValuesAt
<1>3. \A r \in Q : r.table = "document" => r.value \in ValuesAt(2, "ocr_status")
  <2>1. ValuesAt(3, "ocr_status") = OcrStatus
    BY DEF ValuesAt, ModelTypes
  <2>2. ASSUME NEW r \in R, NEW q, r.table = "document",
               q = IF r.table = "document" /\ r.value = "needs_ocr"
                   THEN [r EXCEPT !.value = "pending"] ELSE r
        PROVE  q.value \in ValuesAt(2, "ocr_status")
    BY <2>1, <2>2, <1>2 DEF Row, OcrStatus, without_needs_ocr
  <2>3. ASSUME NEW r \in R, r.table # "document", NEW q,
               q = IF r.table = "document" /\ r.value = "needs_ocr"
                   THEN [r EXCEPT !.value = "pending"] ELSE r
        PROVE  q.table # "document"
    BY <2>3
  <2> QED BY <2>2, <2>3 DEF Updated
<1>4. \A x \in Y \ {"ocr_status"} : ValuesAt(3, x) = ValuesAt(2, x)
  BY DEF ValuesAt
<1> HIDE DEF Q
<1>5. Db(T, Y, 3, Q) ++ Recast("document", "ocr_status", ValuesAt(2, "ocr_status"))
        = Db(T, Y, 2, Q)
  BY <1>0, <1>3, <1>4, SameColumns, TypeRecast
<1>6. Q = {Pending(r) : r \in R}
  BY DEF Q, Updated, Pending
<1> QED BY <1>0, <1>1, <1>2, <1>5, <1>6 DEF downgrade_c3f0, At

LEMMA Down4 == ASSUME NEW R, \A r \in R : r.table \in Tables(4), R \subseteq Row
               PROVE  downgrade_6d99(At(4, R)) = At(3, Kept({WithoutHash(r) : r \in R}, Tables(3)))
<1> DEFINE k == Nullable("password_hash")
           Q == {WithoutHash(r) : r \in R}
           Y == Types(4)
           D(T) == Db(T, Y, 3, Kept(Q, T))
           T4 == Tables(4)
           T6 == Tables(3) \cup {"auth_event", "user_session"}
           T5 == Tables(3) \cup {"auth_event"}
<1>0. /\ Tables(3) = {"user_account", "case", "party", "document", "document_page", "passage",
                      "extracted_fact", "case_event"}
      /\ T4 = Tables(3) \cup {"auth_event", "user_session", "used_refresh_token"}
      /\ T4 \in SUBSET DOMAIN ModelTables
      /\ T4 \ {"used_refresh_token"} = T6 /\ T6 \ {"user_session"} = T5
      /\ T5 \ {"auth_event"} = Tables(3)
      /\ Y \ {"auth_event_type"} = Types(3)
  BY TablesOf, TypesOf, Domains DEF Since
<1>1. At(4, R) ++ DropColumn("user_account", k) = D(T4)
  <2>1. NullRemoved(R, "user_account", k) = Q
    BY OtherFields DEF NullRemoved, WithoutHash
  <2>2. \A r \in Q : r.table \in T4
    <3>1. \A r \in R : WithoutHash(r).table = r.table
      BY DEF WithoutHash, Row
    <3> QED BY <3>1
  <2>3. Kept(Q, T4) = Q
    BY <2>2, AllKept
  <2>4. /\ k \in ColumnsAt(4, "user_account")
        /\ ColumnsAt(4, "user_account") \ {k} = ColumnsAt(3, "user_account")
        /\ \A u \in T4 \ {"user_account"} : ColumnsAt(4, u) = ColumnsAt(3, u)
        /\ \A y \in Y : ValuesAt(4, y) = ValuesAt(3, y)
    BY AccountColumns, SameValues
  <2> HIDE DEF k, Q
  <2>5. At(4, R) ++ DropColumn("user_account", k)
          = Db(T4, Y, 3, NullRemoved(R, "user_account", k))
    BY <1>0, <2>4, ColumnDropped DEF At
  <2> QED BY <2>1, <2>3, <2>5
<1>2. /\ \A u \in T6 : "used_refresh_token" \notin Targets[u]
      /\ \A u \in T5 : "user_session" \notin Targets[u]
      /\ \A u \in Tables(3) : "auth_event" \notin Targets[u]
      /\ \A u \in Tables(3) : Targets[u] \cap {"auth_event_type"} = {}
  BY <1>0 DEF Targets
<1>3. /\ T6 \in SUBSET DOMAIN ModelTables /\ T5 \in SUBSET DOMAIN ModelTables
      /\ "used_refresh_token" \in T4 /\ "user_session" \in T6 /\ "auth_event" \in T5
      /\ Tables(3) \in SUBSET DOMAIN ModelTables
  BY <1>0
<1> HIDE DEF T4, T5, T6, Q, Y
<1>4. D(T4) ++ DropTable("used_refresh_token") = D(T6)
  BY <1>0, <1>2, <1>3, TableGone
<1>5. D(T6) ++ DropTable("user_session") = D(T5)
  BY <1>0, <1>2, <1>3, TableGone
<1>6. D(T5) ++ DropTable("auth_event") = D(Tables(3))
  BY <1>0, <1>2, <1>3, TableGone
<1>7. D(Tables(3)) ++ DropTypes({"auth_event_type"})
        = Db(Tables(3), Types(3), 3, Kept(Q, Tables(3)))
  BY <1>0, <1>2, <1>3, TypesDropped
<1> HIDE DEF D
<1> QED BY <1>1, <1>4, <1>5, <1>6, <1>7 DEF downgrade_6d99, At, Q

LEMMA Down5 == ASSUME NEW R, \A r \in R : r.table \in Tables(5)
               PROVE  downgrade_dc19(At(5, R)) = At(4, Kept(R, Tables(4)))
<1> DEFINE Y == Types(5)
           T == Tables(4) \cup {"recovery_code"}
<1>0. /\ Tables(5) \ {"user_mfa"} = T /\ T \ {"recovery_code"} = Tables(4)
      /\ Tables(5) \in SUBSET DOMAIN ModelTables /\ T \in SUBSET DOMAIN ModelTables
      /\ "user_mfa" \in Tables(5) /\ "recovery_code" \in T
  BY TablesOf, Domains DEF Since
<1>1. /\ \A u \in T : "user_mfa" \notin Targets[u]
      /\ \A u \in Tables(4) : "recovery_code" \notin Targets[u]
  BY TablesOf DEF Targets
<1>2. At(5, R) = Db(Tables(5), Y, 5, Kept(R, Tables(5)))
  BY AllKept DEF At
<1> HIDE DEF T
<1>3. Db(Tables(5), Y, 5, Kept(R, Tables(5))) ++ DropTable("user_mfa") = Db(T, Y, 5, Kept(R, T))
  BY <1>0, <1>1, TableGone
<1>4. Db(T, Y, 5, Kept(R, T)) ++ DropTable("recovery_code")
        = Db(Tables(4), Y, 5, Kept(R, Tables(4)))
  BY <1>0, <1>1, TableGone
<1>5. Db(Tables(4), Y, 5, Kept(R, Tables(4))) = At(4, Kept(R, Tables(4)))
  BY TypesOf, SameRevision DEF At
<1> QED BY <1>2, <1>3, <1>4, <1>5 DEF downgrade_dc19

LEMMA Down6 == ASSUME NEW R, \A r \in R : r.table \in Tables(6)
               PROVE  downgrade_be21(At(6, R)) = At(5, Kept(R, Tables(5)))
<1>0. /\ Tables(6) \ {"case_audit_event"} = Tables(5) /\ "case_audit_event" \in Tables(6)
      /\ Tables(6) \in SUBSET DOMAIN ModelTables /\ Tables(5) \in SUBSET DOMAIN ModelTables
      /\ Types(6) \ {"case_action"} = Types(5)
  BY TablesOf, TypesOf, Domains DEF Since
<1>1. /\ \A u \in Tables(5) : "case_audit_event" \notin Targets[u]
      /\ \A u \in Tables(5) : Targets[u] \cap {"case_action"} = {}
  BY TablesOf DEF Targets
<1>2. At(6, R) = Db(Tables(6), Types(6), 6, Kept(R, Tables(6)))
  BY AllKept DEF At
<1>3. At(6, R) ++ DropTable("case_audit_event") = Db(Tables(5), Types(6), 6, Kept(R, Tables(5)))
  BY <1>0, <1>1, <1>2, TableGone
<1>4. Db(Tables(5), Types(6), 6, Kept(R, Tables(5))) ++ DropTypes({"case_action"})
        = Db(Tables(5), Types(5), 6, Kept(R, Tables(5)))
  BY <1>0, <1>1, TypesDropped
<1> QED BY <1>3, <1>4, SameRevision DEF downgrade_be21, At

LEMMA Down7 == ASSUME NEW R, \A r \in R : r.table \in Tables(7)
               PROVE  downgrade_27d0(At(7, R)) = At(6, Kept(R, Tables(6)))
<1> DEFINE Y == Types(7)
           T == Tables(6) \cup {"passkey"}
<1>0. /\ Tables(7) \ {"passkey_challenge"} = T /\ T \ {"passkey"} = Tables(6)
      /\ Tables(7) \in SUBSET DOMAIN ModelTables /\ T \in SUBSET DOMAIN ModelTables
      /\ "passkey_challenge" \in Tables(7) /\ "passkey" \in T
  BY TablesOf, Domains DEF Since
<1>1. /\ \A u \in T : "passkey_challenge" \notin Targets[u]
      /\ \A u \in Tables(6) : "passkey" \notin Targets[u]
  BY TablesOf DEF Targets
<1>2. At(7, R) = Db(Tables(7), Y, 7, Kept(R, Tables(7)))
  BY AllKept DEF At
<1> HIDE DEF T
<1>3. Db(Tables(7), Y, 7, Kept(R, Tables(7))) ++ DropTable("passkey_challenge")
        = Db(T, Y, 7, Kept(R, T))
  BY <1>0, <1>1, TableGone
<1>4. Db(T, Y, 7, Kept(R, T)) ++ DropTable("passkey") = Db(Tables(6), Y, 7, Kept(R, Tables(6)))
  BY <1>0, <1>1, TableGone
<1>5. Db(Tables(6), Y, 7, Kept(R, Tables(6))) = At(6, Kept(R, Tables(6)))
  BY TypesOf, SameRevision DEF At
<1> QED BY <1>2, <1>3, <1>4, <1>5 DEF downgrade_27d0

LEMMA Down8 == ASSUME NEW R, \A r \in R : r.table \in Tables(8)
               PROVE  downgrade_0000(At(8, R)) = At(7, Kept(R, Tables(7)))
<1>0. /\ Tables(8) \ {"job"} = Tables(7) /\ "job" \in Tables(8)
      /\ Tables(8) \in SUBSET DOMAIN ModelTables /\ Tables(7) \in SUBSET DOMAIN ModelTables
      /\ Types(8) \ DOMAIN job_values = Types(7)
  BY TablesOf, TypesOf, Domains, JobValues DEF Since
<1>1. /\ \A u \in Tables(7) : "job" \notin Targets[u]
      /\ \A u \in Tables(7) : Targets[u] \cap DOMAIN job_values = {}
  BY TablesOf, JobValues DEF Targets
<1>2. At(8, R) = Db(Tables(8), Types(8), 8, Kept(R, Tables(8)))
  BY AllKept DEF At
<1>3. At(8, R) ++ DropTable("job") = Db(Tables(7), Types(8), 8, Kept(R, Tables(7)))
  BY <1>0, <1>1, <1>2, TableGone
<1>4. Db(Tables(7), Types(8), 8, Kept(R, Tables(7))) ++ DropTypes(DOMAIN job_values)
        = Db(Tables(7), Types(7), 8, Kept(R, Tables(7)))
  BY <1>0, <1>1, TypesDropped
<1> QED BY <1>3, <1>4, SameRevision DEF downgrade_0000, At

\* The audit rows of the actions that revision 9 adds.
Unrecorded(R) == {r \in R : ~ (r.table = "case_audit_event" /\ r.value \in new_values)}

LEMMA Down9 == ASSUME NEW R, \A r \in R : r.table \in Tables(9),
                      \A r \in R : r.table = "case_audit_event"
                                     => r.value \in ValuesAt(9, "case_action")
               PROVE  downgrade_4b7c(At(9, R)) = At(8, Unrecorded(Kept(R, Tables(8))))
<1> DEFINE T == Tables(8)
           Y == Types(9)
           Q == Unrecorded(Kept(R, T))
<1>0. /\ Tables(9) \ {"case_event_note"} = T /\ "case_event_note" \in Tables(9)
      /\ Tables(9) \in SUBSET DOMAIN ModelTables /\ T \in SUBSET DOMAIN ModelTables
      /\ Y = Types(8) /\ "case_action" \in Y
  BY TablesOf, TypesOf, Domains DEF Since
<1>1. /\ \A u \in T : "case_event_note" \notin Targets[u]
      /\ \A u \in T \ {"case_audit_event"} : "case_action" \notin Targets[u]
  BY TablesOf DEF Targets
<1>2. At(9, R) = Db(Tables(9), Y, 9, Kept(R, Tables(9)))
  BY AllKept DEF At
<1>3. At(9, R) ++ DropTable("case_event_note") = Db(T, Y, 9, Kept(R, T))
  BY <1>0, <1>1, <1>2, TableGone
<1>4. Db(T, Y, 9, Kept(R, T)) ++ Delete("case_audit_event", new_values) = Db(T, Y, 9, Q)
  BY RowsDeleted DEF Unrecorded
<1>5. ValuesAt(8, "case_action") = previous_values
  BY DEF ValuesAt
<1>6. \A r \in Q : r.table = "case_audit_event" => r.value \in ValuesAt(8, "case_action")
  <2>1. \A v \in ValuesAt(9, "case_action") : v \in new_values \/ v \in ValuesAt(8, "case_action")
    BY DEF ValuesAt, ModelTypes, CaseAction, previous_values, new_values
  <2> QED BY <2>1 DEF Unrecorded, Kept
<1>7. /\ \A y \in Y \ {"case_action"} : ValuesAt(9, y) = ValuesAt(8, y)
      /\ \A u \in T : ColumnsAt(9, u) = ColumnsAt(8, u)
  BY SameColumns DEF ValuesAt
<1> HIDE DEF Q
<1>8. Db(T, Y, 9, Q) ++ Recast("case_audit_event", "case_action", ValuesAt(8, "case_action"))
        = Db(T, Y, 8, Q)
  BY <1>0, <1>1, <1>6, <1>7, TypeRecast
<1> QED BY <1>0, <1>3, <1>4, <1>5, <1>8 DEF downgrade_4b7c, At, Q
-----------------------------------------------------------------------------
\* What a migration makes of a row, and the rows that a downgrade leaves.
Up(n, r)      == IF n = 4 THEN WithHash(r) ELSE r
Down(n, r)    == IF n = 3 THEN Pending(r) ELSE IF n = 4 THEN WithoutHash(r) ELSE r
Staying(n, R) == {r \in R : /\ r.table \in Tables(n - 1)
                            /\ n = 9 => ~ (r.table = "case_audit_event" /\ r.value \in new_values)}
UpRows(n, R)   == {Up(n, r) : r \in R}
DownRows(n, R) == {Down(n, r) : r \in Staying(n, R)}

\* What the constraints ask of a row by itself, and of the rows it refers to.
ValuesIn(n, t) == IF t \in DOMAIN Carried THEN ValuesAt(n, Carried[t]) ELSE {"none"}
Lawful(n, r) ==
    /\ r.table \in Tables(n)
    /\ r.value \in ValuesIn(n, r.table)
    /\ \A k \in ColumnsAt(n, r.table) : IsNull(r, k) => k.null \/ k.kind \notin {"ref", "plain"}
    /\ \A k \in ColumnsAt(n, r.table) : k.kind = "check" => Holds(k, r)
Rooted(n, R, r) ==
    \A k \in ColumnsAt(n, r.table) :
        k.kind = "ref" /\ ~ IsNull(r, k) => \E p \in R : p.table = k.to /\ p.account = r.account

LEMMA CarriedTypes == \A n : \A t \in DOMAIN Carried \cap Tables(n) : Carried[t] \in Types(n)
BY DEF Carried, Tables, Types, Since, TypeSince

LEMMA PermittedRow ==
    ASSUME NEW n, NEW R, NEW r
    PROVE  Permitted(At(n, R), r) <=> Lawful(n, r) /\ Rooted(n, R, r)
<1> DEFINE d == At(n, R)
<1>0. /\ DOMAIN d.tables = Tables(n) /\ \A t \in Tables(n) : d.tables[t] = ColumnsAt(n, t)
      /\ \A y \in Types(n) : d.types[y] = ValuesAt(n, y)
      /\ d.rows = R
  BY DEF At, Db
<1> HIDE DEF d
<1>1. ASSUME r.table \in Tables(n) PROVE ValuesOf(d, r.table) = ValuesIn(n, r.table)
  BY <1>0, <1>1, CarriedTypes DEF ValuesOf, ValuesIn
<1>2. ASSUME r.table \in Tables(n)
      PROVE  (\A k \in References(d, r) : RowOf(d, k.to, r.account) # {}) <=> Rooted(n, R, r)
  <2>1. \A t, a : RowOf(d, t, a) # {} <=> \E p \in R : p.table = t /\ p.account = a
    BY <1>0 DEF RowOf
  <2>2. References(d, r) = {k \in ColumnsAt(n, r.table) : k.kind = "ref" /\ ~ IsNull(r, k)}
    BY <1>0, <1>2 DEF References
  <2> QED BY <2>1, <2>2 DEF Rooted
<1>3. Permitted(d, r) <=> Lawful(n, r) /\ Rooted(n, R, r)
  BY <1>0, <1>1, <1>2 DEF Permitted, Lawful
<1> QED BY <1>3 DEF d

\* The tables a foreign key may refer to.
Referable == {"user_account", "case", "party", "document", "document_page", "passage",
              "case_event", "user_session"}

LEMMA ColumnKind == /\ \A c, t : Enum(c, t).kind = "enum"
                    /\ \A c : Unique(c).kind = "unique" /\ Check(c).kind = "check"
                                                        /\ Nullable(c).kind = "plain"
BY DEF Enum, Unique, Check, Nullable, Column

LEMMA ReferencesAreToTables ==
    \A t \in DOMAIN ModelTables : \A k \in ModelTables[t] : k.kind = "ref" => k.to \in Referable
<1> SUFFICES ASSUME NEW t \in DOMAIN ModelTables, NEW k \in ModelTables[t], k.kind = "ref"
             PROVE  k.to \in Referable
  OBVIOUS
<1>1. CASE t \in {"user_account", "case", "party", "document"}
  BY <1>1, ColumnTo, ColumnKind
     DEF ModelTables, Referable, UserAccount, Case, Party, Document
<1>2. CASE t \in {"document_page", "passage", "extracted_fact"}
  BY <1>2, ColumnTo, ColumnKind DEF ModelTables, Referable, DocumentPage, Passage, ExtractedFact
<1>3. CASE t = "case_event"
  BY <1>3, ColumnTo, ColumnKind DEF ModelTables, Referable, CaseEvent
<1>4. CASE t \in {"case_event_note", "auth_event", "case_audit_event"}
  BY <1>4, ColumnTo, ColumnKind
     DEF ModelTables, Referable, CaseEventNote, AuthEvent, CaseAuditEvent
<1>5. CASE t \in {"user_session", "used_refresh_token", "user_mfa", "recovery_code"}
  BY <1>5, ColumnTo, ColumnKind
     DEF ModelTables, Referable, UserSession, UsedRefreshToken, UserMfa, RecoveryCode
<1>6. CASE t \in {"passkey", "passkey_challenge", "job"}
  BY <1>6, ColumnTo, ColumnKind DEF ModelTables, Referable, Passkey, PasskeyChallenge, Job
<1> QED BY <1>1, <1>2, <1>3, <1>4, <1>5, <1>6 DEF ModelTables

\* A table refers to tables and types that are as old.
LEMMA TargetsAreOlder ==
    \A n \in 0 .. 9 : \A t \in Tables(n) :
        /\ Targets[t] \cap Referable \subseteq Tables(n)
        /\ Targets[t] \subseteq Tables(n) \cup Types(n) \cup {"none"}
<1>1. \A t \in DOMAIN Since : \A u \in Targets[t] :
         /\ u \in Referable => u \in DOMAIN Since /\ Since[u] <= Since[t]
         /\ \/ u = "none"
            \/ u \in DOMAIN Since /\ Since[u] <= Since[t]
            \/ u \in DOMAIN TypeSince /\ TypeSince[u] <= Since[t]
  BY DEF Since, TypeSince, Targets, Referable
<1>2. /\ \A t \in DOMAIN Since : Since[t] \in Nat
      /\ \A y \in DOMAIN TypeSince : TypeSince[y] \in Nat
  BY DEF Since, TypeSince
<1> QED BY <1>1, <1>2 DEF Tables, Types

LEMMA ForeignKeys ==
    \A n \in 0 .. 9 : \A t \in Tables(n) : \A k \in ColumnsAt(n, t) :
        k.kind = "ref" => /\ k \in ModelTables[t] /\ t # "user_account"
                          /\ k.to \in Tables(n) \cap Referable
<1> SUFFICES ASSUME NEW n \in 0 .. 9, NEW t \in Tables(n), NEW k \in ColumnsAt(n, t), k.kind = "ref"
             PROVE  /\ k \in ModelTables[t] /\ t # "user_account"
                    /\ k.to \in Tables(n) \cap Referable
  OBVIOUS
<1>1. t \in DOMAIN ModelTables
  BY Domains DEF Tables
<1>2. t # "user_account"
  BY ColumnKind DEF ColumnsAt, ModelTables, UserAccount
<1>3. k \in ModelTables[t]
  BY <1>2 DEF ColumnsAt
<1>4. k.to \in Targets[t] /\ k.to \in Referable
  BY <1>1, <1>3, TargetsOfColumns, ReferencesAreToTables
<1> QED BY <1>2, <1>3, <1>4, TargetsAreOlder
-----------------------------------------------------------------------------
\* Migrations keep the rows within the constraints.
LEMMA PasswordName == "password_hash" \in Names
<1>1. "user_account" \in DOMAIN ModelTables
      /\ Nullable("password_hash") \in ModelTables["user_account"]
  BY DEF ModelTables, UserAccount
<1> QED BY <1>1, OtherFields DEF Names

LEMMA UpRow ==
    ASSUME NEW n, NEW r \in Row
    PROVE  /\ Up(n, r) \in Row
           /\ Up(n, r).table = r.table /\ Up(n, r).account = r.account
           /\ Up(n, r).value = r.value
           /\ r.table # "user_account" => Up(n, r) = r
<1>1. CASE n = 4 /\ r.table = "user_account"
  <2> DEFINE q == [r EXCEPT !.null = @ \cup {"password_hash"}]
  <2>1. q \in Row
    BY PasswordName DEF Row
  <2>2. q.table = r.table /\ q.account = r.account /\ q.value = r.value
    BY DEF Row
  <2>3. Up(n, r) = q
    BY <1>1 DEF Up, WithHash
  <2> QED BY <1>1, <2>1, <2>2, <2>3
<1>2. CASE ~ (n = 4 /\ r.table = "user_account")
  BY <1>2 DEF Up, WithHash
<1> QED BY <1>1, <1>2

LEMMA DownRow ==
    ASSUME NEW n, NEW r \in Row
    PROVE  /\ Down(n, r) \in Row
           /\ Down(n, r).table = r.table /\ Down(n, r).account = r.account
           /\ r.table # "user_account" => Down(n, r).null = r.null
           /\ r.table # "document" => Down(n, r).value = r.value
           /\ r.table \notin {"user_account", "document"} => Down(n, r) = r
<1>1. CASE n = 4 /\ r.table = "user_account"
  <2> DEFINE q == [r EXCEPT !.null = @ \ {"password_hash"}]
  <2>1. q \in Row
    BY DEF Row
  <2>2. q.table = r.table /\ q.account = r.account /\ q.value = r.value
    BY DEF Row
  <2>3. Down(n, r) = q
    BY <1>1 DEF Down, WithoutHash
  <2> QED BY <1>1, <2>1, <2>2, <2>3
<1>2. CASE n = 3 /\ r.table = "document" /\ r.value = "needs_ocr"
  <2> DEFINE q == [r EXCEPT !.value = "pending"]
  <2>1. q \in Row
    BY DEF Row
  <2>2. q.table = r.table /\ q.account = r.account /\ q.null = r.null
    BY DEF Row
  <2>3. Down(n, r) = q
    BY <1>2 DEF Down, Pending
  <2> QED BY <1>2, <2>1, <2>2, <2>3
<1>3. CASE /\ ~ (n = 4 /\ r.table = "user_account")
           /\ ~ (n = 3 /\ r.table = "document" /\ r.value = "needs_ocr")
  <2>1. Down(n, r) = r
    BY <1>3 DEF Down, WithoutHash, Pending
  <2> QED BY <2>1
<1> QED BY <1>1, <1>2, <1>3

LEMMA TableTyped == \A n \in 0 .. 9 : \A t : /\ t \in Tables(n) => t \in DOMAIN Since /\ n >= 1
                                             /\ n <= 8 /\ t \in Tables(n) => t \in Tables(n + 1)
<1>1. \A t \in DOMAIN Since : Since[t] \in 1 .. 9
  BY DEF Since
<1> QED BY <1>1 DEF Tables

\* Of an account's row the constraints ask nothing.
LEMMA AccountRow ==
    ASSUME NEW n \in 1 .. 9, NEW r, r.table = "user_account"
    PROVE  Lawful(n, r) <=> r.value = "none"
<1>1. "user_account" \in Tables(n)
  BY DEF Tables, Since
<1>2. ValuesIn(n, "user_account") = {"none"}
  BY DEF ValuesIn, Carried
<1>3. \A k \in ColumnsAt(n, "user_account") :
         k.kind = "unique" \/ (k.kind = "plain" /\ k.null = TRUE)
  BY OtherFields DEF ColumnsAt, ModelTables, UserAccount
<1> QED BY <1>1, <1>2, <1>3 DEF Lawful

LEMMA LawfulUp ==
    ASSUME NEW n \in 1 .. 9, NEW r \in Row, Lawful(n - 1, r)
    PROVE  Lawful(n, Up(n, r))
<1>0. r.table \in Tables(n - 1) /\ r.table \in Tables(n) /\ n - 1 >= 1
  BY TableTyped DEF Lawful
<1>1. CASE r.table = "user_account"
  BY <1>0, <1>1, AccountRow, UpRow
<1>2. CASE r.table # "user_account"
  <2>1. Up(n, r) = r
    BY <1>2, UpRow
  <2>2. ColumnsAt(n - 1, r.table) = ColumnsAt(n, r.table)
    BY <1>2 DEF ColumnsAt
  <2>3. ValuesIn(n - 1, r.table) \subseteq ValuesIn(n, r.table)
    <3>1. \A y : ValuesAt(n - 1, y) \subseteq ValuesAt(n, y)
      BY DEF ValuesAt, ModelTypes, OcrStatus, CaseAction, without_needs_ocr, previous_values
    <3> QED BY <3>1 DEF ValuesIn
  <2> QED BY <1>0, <2>1, <2>2, <2>3 DEF Lawful
<1> QED BY <1>1, <1>2

LEMMA LawfulDown ==
    ASSUME NEW n \in 1 .. 9, NEW R, NEW r \in Staying(n, R), r \in Row, Lawful(n, r)
    PROVE  Lawful(n - 1, Down(n, r))
<1>0. r.table \in Tables(n - 1) /\ r.table \in Tables(n) /\ n - 1 >= 1
  BY TableTyped DEF Lawful, Staying
<1>1. CASE r.table = "user_account"
  BY <1>0, <1>1, AccountRow, DownRow
<1>2. CASE r.table = "document"
  <2>1. ColumnsAt(n - 1, "document") = Document /\ ColumnsAt(n, "document") = Document
    BY DEF ColumnsAt, ModelTables
  <2>2. \A k \in Document : k.kind # "check"
    BY ColumnKind, RefFields DEF Document
  <2>3. \A m : ValuesIn(m, "document") = ValuesAt(m, "ocr_status")
    BY DEF ValuesIn, Carried
  <2>4. Down(n, r).value \in ValuesIn(n - 1, "document")
    <3>1. CASE n = 3 /\ r.value = "needs_ocr"
      <4>1. Down(n, r).value = "pending"
        BY <1>2, <3>1 DEF Down, Pending, Row
      <4> QED BY <2>3, <3>1, <4>1 DEF ValuesAt, without_needs_ocr
    <3>2. CASE ~ (n = 3 /\ r.value = "needs_ocr")
      <4>1. Down(n, r) = r
        BY <1>2, <3>2 DEF Down, Pending, WithoutHash
      <4>2. r.value \in ValuesAt(n, "ocr_status")
        BY <1>2, <2>3 DEF Lawful
      <4> QED BY <2>3, <3>2, <4>1, <4>2 DEF ValuesAt, ModelTypes, OcrStatus, without_needs_ocr
    <3> QED BY <3>1, <3>2
  <2>5. Down(n, r).table = "document" /\ Down(n, r).null = r.null
    BY <1>2, DownRow
  <2> QED BY <1>0, <1>2, <2>1, <2>2, <2>4, <2>5 DEF Lawful, IsNull
<1>3. CASE r.table \notin {"user_account", "document"}
  <2>1. Down(n, r) = r
    BY <1>3, DownRow
  <2>2. ColumnsAt(n - 1, r.table) = ColumnsAt(n, r.table)
    BY <1>3 DEF ColumnsAt
  <2>3. r.value \in ValuesIn(n, r.table)
    BY DEF Lawful
  <2>4. r.value \in ValuesIn(n - 1, r.table)
    <3>1. CASE r.table = "case_audit_event"
      <4>1. \A m : ValuesIn(m, "case_audit_event") = ValuesAt(m, "case_action")
        BY DEF ValuesIn, Carried
      <4>2. n = 9 => r.value \notin new_values
        BY <3>1 DEF Staying
      <4> QED BY <2>3, <3>1, <4>1, <4>2
             DEF ValuesAt, ModelTypes, CaseAction, previous_values, new_values
    <3>2. CASE r.table # "case_audit_event"
      BY <1>3, <2>3, <3>2 DEF ValuesIn, Carried, ValuesAt
    <3> QED BY <3>1, <3>2
  <2> QED BY <1>0, <2>1, <2>2, <2>4 DEF Lawful
<1> QED BY <1>1, <1>2, <1>3

LEMMA RootedUp ==
    ASSUME NEW n \in 1 .. 9, NEW R \in SUBSET Row, NEW r \in R,
           Lawful(n - 1, r), Rooted(n - 1, R, r)
    PROVE  Rooted(n, UpRows(n, R), Up(n, r))
<1> DEFINE q == Up(n, r)
<1>0. r \in Row /\ q.table = r.table /\ q.account = r.account
      /\ (r.table # "user_account" => q = r) /\ r.table \in Tables(n)
  BY UpRow, TableTyped DEF Lawful
<1> SUFFICES ASSUME NEW k \in ColumnsAt(n, q.table), k.kind = "ref", ~ IsNull(q, k)
             PROVE  \E p \in UpRows(n, R) : p.table = k.to /\ p.account = q.account
  BY DEF Rooted
<1>1. r.table # "user_account"
  BY <1>0, ForeignKeys
<1>2. k \in ColumnsAt(n - 1, r.table) /\ ~ IsNull(r, k)
  BY <1>0, <1>1 DEF ColumnsAt
<1>3. PICK p \in R : p.table = k.to /\ p.account = r.account
  BY <1>2 DEF Rooted
<1>4. Up(n, p).table = k.to /\ Up(n, p).account = r.account
  BY <1>3, UpRow
<1> QED BY <1>0, <1>4 DEF UpRows

LEMMA RootedDown ==
    ASSUME NEW n \in 1 .. 9, NEW R \in SUBSET Row, NEW r \in Staying(n, R), Rooted(n, R, r)
    PROVE  Rooted(n - 1, DownRows(n, R), Down(n, r))
<1> DEFINE q == Down(n, r)
<1>0. /\ r \in Row /\ q.table = r.table /\ q.account = r.account
      /\ r.table # "user_account" => q.null = r.null
      /\ r.table \in Tables(n - 1) /\ n - 1 \in 0 .. 9
  BY DownRow DEF Staying
<1> SUFFICES ASSUME NEW k \in ColumnsAt(n - 1, q.table), k.kind = "ref", ~ IsNull(q, k)
             PROVE  \E p \in DownRows(n, R) : p.table = k.to /\ p.account = q.account
  BY DEF Rooted
<1>1. r.table # "user_account" /\ k.to \in Tables(n - 1) \cap Referable
  BY <1>0, ForeignKeys
<1>2. k \in ColumnsAt(n, r.table) /\ ~ IsNull(r, k)
  BY <1>0, <1>1 DEF ColumnsAt, IsNull
<1>3. PICK p \in R : p.table = k.to /\ p.account = r.account
  BY <1>2 DEF Rooted
<1>4. p \in Staying(n, R)
  BY <1>1, <1>3 DEF Staying, Referable
<1>5. Down(n, p).table = k.to /\ Down(n, p).account = r.account
  BY <1>3, DownRow
<1> QED BY <1>0, <1>4, <1>5 DEF DownRows

\* The scripts take a revision to the next and the one before, with the rows they leave.
LEMMA Upgraded ==
    ASSUME NEW n \in 0 .. 8, NEW R \in SUBSET Row
    PROVE  upgrade(At(n, R), n + 1) = At(n + 1, UpRows(n + 1, R))
<1>1. CASE n = 3
  <2>1. UpRows(4, R) = {WithHash(r) : r \in R}
    BY DEF UpRows, Up
  <2> QED BY <1>1, <2>1, Up4 DEF upgrade
<1>2. CASE n # 3
  <2>1. UpRows(n + 1, R) = R
    BY <1>2 DEF UpRows, Up
  <2>2. CASE n \in {0, 1, 2}
    BY <2>1, <2>2, Up1, Up2, Up3 DEF upgrade
  <2>3. CASE n \in {4, 5, 6}
    BY <2>1, <2>3, Up5, Up6, Up7 DEF upgrade
  <2>4. CASE n \in {7, 8}
    BY <2>1, <2>4, Up8, Up9 DEF upgrade
  <2> QED BY <1>2, <2>2, <2>3, <2>4
<1> QED BY <1>1, <1>2

LEMMA Downgraded ==
    ASSUME NEW n \in 1 .. 9, NEW R \in SUBSET Row, \A r \in R : Lawful(n, r)
    PROVE  downgrade(At(n, R), n) = At(n - 1, DownRows(n, R))
<1>0. \A r \in R : r.table \in Tables(n)
  BY DEF Lawful
<1>1. CASE n = 3
  <2>1. \A r \in R : r.table = "document" => r.value \in ValuesAt(3, "ocr_status")
    BY <1>1 DEF Lawful, ValuesIn, Carried
  <2>2. downgrade_c3f0(At(3, R)) = At(2, {Pending(r) : r \in R})
    BY <2>1, Down3
  <2>3. Staying(3, R) = R
    BY <1>0, <1>1, TablesOf DEF Staying
  <2>4. DownRows(3, R) = {Pending(r) : r \in R}
    BY <2>3 DEF DownRows, Down
  <2> QED BY <1>1, <2>2, <2>4 DEF downgrade
<1>2. CASE n = 4
  <2>1. downgrade_6d99(At(4, R)) = At(3, Kept({WithoutHash(r) : r \in R}, Tables(3)))
    BY <1>0, <1>2, Down4
  <2>2. \A r \in R : WithoutHash(r).table = r.table
    BY DEF WithoutHash, Row
  <2>3. DownRows(4, R) = Kept({WithoutHash(r) : r \in R}, Tables(3))
    BY <2>2 DEF DownRows, Down, Staying, Kept
  <2> QED BY <1>2, <2>1, <2>3 DEF downgrade
<1>3. CASE n = 9
  <2>1. \A r \in R : r.table = "case_audit_event" => r.value \in ValuesAt(9, "case_action")
    BY <1>3 DEF Lawful, ValuesIn, Carried
  <2>2. downgrade_4b7c(At(9, R)) = At(8, Unrecorded(Kept(R, Tables(8))))
    BY <1>0, <1>3, <2>1, Down9
  <2>3. DownRows(9, R) = Unrecorded(Kept(R, Tables(8)))
    BY DEF DownRows, Down, Staying, Unrecorded, Kept
  <2> QED BY <1>3, <2>2, <2>3 DEF downgrade
<1>4. CASE n \notin {3, 4, 9}
  <2>1. DownRows(n, R) = Kept(R, Tables(n - 1))
    BY <1>4 DEF DownRows, Down, Staying, Kept
  <2>2. CASE n \in {1, 2, 5}
    BY <1>0, <2>1, <2>2, Down1, Down2, Down5 DEF downgrade
  <2>3. CASE n \in {6, 7, 8}
    BY <1>0, <2>1, <2>3, Down6, Down7, Down8 DEF downgrade
  <2> QED BY <1>4, <2>2, <2>3
<1> QED BY <1>1, <1>2, <1>3, <1>4

\* Down after up, a row is what it was, and no row goes.
LEMMA RowRoundTrip ==
    ASSUME NEW n \in 0 .. 8, NEW R \in SUBSET Row, NEW r \in R, Lawful(n, r), Unmarked(n, r)
    PROVE  Up(n + 1, r) \in Staying(n + 1, UpRows(n + 1, R)) /\ Down(n + 1, Up(n + 1, r)) = r
<1> DEFINE q == Up(n + 1, r)
<1>0. /\ q \in UpRows(n + 1, R) /\ q.table = r.table /\ q.value = r.value
      /\ r.table # "user_account" => q = r
      /\ r.table \in Tables(n) /\ (n + 1) - 1 = n
  BY UpRow DEF UpRows, Lawful
<1> HIDE DEF q
<1>1. q \in Staying(n + 1, UpRows(n + 1, R))
  <2>1. n = 8 /\ r.table = "case_audit_event" => r.value \in previous_values
    BY DEF Lawful, ValuesIn, Carried, ValuesAt
  <2>2. n = 8 /\ r.table = "case_audit_event" => r.value \notin new_values
    BY <2>1 DEF previous_values, new_values
  <2> QED BY <1>0, <2>2 DEF Staying
<1>2. Down(n + 1, q) = r
  <2>1. CASE n = 3 /\ r.table = "user_account"
    <3>1. q = [r EXCEPT !.null = r.null \cup {"password_hash"}]
      BY <2>1 DEF q, Up, WithHash
    <3>2. (r.null \cup {"password_hash"}) \ {"password_hash"} = r.null
      BY <2>1 DEF Unmarked
    <3>3. q.null = r.null \cup {"password_hash"}
      BY <3>1 DEF Row
    <3>4. Down(n + 1, q) = [q EXCEPT !.null = r.null]
      BY <1>0, <2>1, <3>2, <3>3 DEF Down, WithoutHash
    <3>5. [q EXCEPT !.null = r.null] = r
      BY <3>1 DEF Row
    <3> QED BY <3>4, <3>5
  <2>2. CASE n = 2 /\ r.table = "document"
    <3>1. r.value # "needs_ocr"
      BY <2>2 DEF Lawful, ValuesIn, Carried, ValuesAt, without_needs_ocr
    <3> QED BY <1>0, <2>2, <3>1 DEF Down, Pending
  <2>3. CASE ~ (n = 3 /\ r.table = "user_account") /\ ~ (n = 2 /\ r.table = "document")
    <3>1. q = r
      BY <2>3 DEF q, Up, WithHash
    <3> QED BY <2>3, <3>1 DEF Down, Pending, WithoutHash
  <2> QED BY <2>1, <2>2, <2>3
<1> QED BY <1>1, <1>2 DEF q

LEMMA RoundTrip ==
    ASSUME NEW n \in 0 .. 8, NEW R \in SUBSET Row,
           \A r \in R : Lawful(n, r) /\ Unmarked(n, r)
    PROVE  downgrade(upgrade(At(n, R), n + 1), n + 1) = At(n, R)
<1> DEFINE Q == UpRows(n + 1, R)
<1>1. upgrade(At(n, R), n + 1) = At(n + 1, Q)
  BY Upgraded
<1>2. n + 1 \in 1 .. 9 /\ (n + 1) - 1 = n
  OBVIOUS
<1>3. Q \in SUBSET Row
  BY UpRow DEF UpRows
<1>4. ASSUME NEW q \in Q PROVE Lawful(n + 1, q)
  BY <1>2, LawfulUp DEF UpRows
<1>5. DownRows(n + 1, Q) = R
  <2>1. ASSUME NEW r \in R PROVE r \in DownRows(n + 1, Q)
    BY RowRoundTrip DEF DownRows
  <2>2. ASSUME NEW x \in DownRows(n + 1, Q) PROVE x \in R
    <3>1. PICK q \in Q : x = Down(n + 1, q)
      BY DEF DownRows, Staying
    <3>2. PICK r \in R : q = Up(n + 1, r)
      BY DEF UpRows
    <3> QED BY <3>1, <3>2, RowRoundTrip
  <2> QED BY <2>1, <2>2
<1> HIDE DEF Q
<1>6. downgrade(At(n + 1, Q), n + 1) = At(n, DownRows(n + 1, Q))
  BY <1>2, <1>3, <1>4, Downgraded
<1> QED BY <1>1, <1>5, <1>6

-----------------------------------------------------------------------------
\* What the invariant says of each property.
LEMMA Schema == ASSUME IInv
                PROVE  /\ DOMAIN db.tables = Tables(revision)
                       /\ \A t \in Tables(revision) : db.tables[t] = ColumnsAt(revision, t)
                       /\ db.tables = [t \in Tables(revision) |-> ColumnsAt(revision, t)]
                       /\ DOMAIN db.types = Types(revision)
                       /\ db.types = [y \in Types(revision) |-> ValuesAt(revision, y)]
                       /\ ~ db.failed
                       /\ \A r \in db.rows : Lawful(revision, r) /\ Rooted(revision, db.rows, r)
<1> DEFINE n == revision
           R == db.rows
<1>1. db = At(n, R)
  BY DEF IInv
<1>2. \A r \in R : Permitted(At(n, R), r)
  BY <1>1 DEF IInv
<1>3. \A r \in R : Lawful(n, r) /\ Rooted(n, R, r)
  BY <1>2, PermittedRow
<1> HIDE DEF n, R
<1>4. /\ db.tables = [t \in Tables(n) |-> ColumnsAt(n, t)]
      /\ db.types = [y \in Types(n) |-> ValuesAt(n, y)]
      /\ db.failed = FALSE
  BY <1>1 DEF At, Db
<1>5. /\ DOMAIN db.tables = Tables(n) /\ \A t \in Tables(n) : db.tables[t] = ColumnsAt(n, t)
  BY <1>4
<1>6. DOMAIN db.types = Types(n)
  BY <1>4
<1> QED BY <1>3, <1>4, <1>5, <1>6 DEF n, R

LEMMA TypeOKFollows == IInv => TypeOK
<1> SUFFICES ASSUME IInv PROVE TypeOK
  OBVIOUS
<1>1. revision \in 0 .. Newest /\ ~ db.failed
  BY Schema DEF IInv, Newest
<1>2. ASSUME NEW t \in DOMAIN db.tables, NEW k \in db.tables[t]
      PROVE  k.to \in Known(db)
  <2>1. t \in Tables(revision) /\ k \in ColumnsAt(revision, t)
    BY <1>2, Schema
  <2>2. k.to \in Targets[t]
    BY <2>1, ColumnTargets, Domains DEF Tables
  <2>3. k.to \in Tables(revision) \cup Types(revision) \cup {"none"}
    BY <2>1, <2>2, TargetsAreOlder DEF IInv
  <2> QED BY <2>3, Schema DEF Known
<1>3. \A r \in db.rows : Permitted(db, r)
  BY DEF IInv
<1> QED BY <1>1, <1>2, <1>3 DEF TypeOK

LEMMA ScriptsSucceedFollows == IInv => ScriptsSucceed
<1> SUFFICES ASSUME IInv PROVE ScriptsSucceed
  OBVIOUS
<1> DEFINE n == revision
           R == db.rows
<1>1. n \in 0 .. 9 /\ R \in SUBSET Row /\ db = At(n, R) /\ \A r \in R : Lawful(n, r) /\ Unmarked(n, r)
  BY Schema DEF IInv
<1> HIDE DEF n, R
<1>2. ASSUME n < 9
      PROVE  ~ upgrade(db, n + 1).failed /\ downgrade(upgrade(db, n + 1), n + 1) = db
  <2>1. n \in 0 .. 8
    BY <1>1, <1>2
  <2>2. upgrade(db, n + 1) = At(n + 1, UpRows(n + 1, R))
    BY <1>1, <2>1, Upgraded
  <2>3. ~ upgrade(db, n + 1).failed
    BY <2>2 DEF At, Db
  <2>4. downgrade(upgrade(db, n + 1), n + 1) = db
    BY <1>1, <2>1, RoundTrip
  <2> QED BY <2>3, <2>4
<1>3. ASSUME n > 0 PROVE ~ downgrade(db, n).failed
  <2>1. n \in 1 .. 9
    BY <1>1, <1>3
  <2>2. downgrade(db, n) = At(n - 1, DownRows(n, R))
    BY <1>1, <2>1, Downgraded
  <2> QED BY <2>2 DEF At, Db
<1> QED BY <1>2, <1>3 DEF ScriptsSucceed, Newest, n

\* The schema as it is made from nothing is that of the revision too.
LEMMA EmptyAt == Empty = At(0, {})
<1>1. [t \in {} |-> ColumnsAt(0, t)] = Nothing /\ [y \in {} |-> ValuesAt(0, y)] = Nothing
  BY DEF Nothing
<1> QED BY <1>1, TablesOf, TypesOf DEF Empty, At, Db

LEMMA FreshAt == \A n \in 1 .. 9 : Fresh[n] = At(n, {})
<1>1. {WithHash(r) : r \in {}} = {}
  OBVIOUS
<1>2. /\ upgrade_2d61(Empty) = At(1, {}) /\ upgrade_8a1b(At(1, {})) = At(2, {})
      /\ upgrade_c3f0(At(2, {})) = At(3, {})
  BY EmptyAt, Up1, Up2, Up3
<1>3. /\ upgrade_6d99(At(3, {})) = At(4, {}) /\ upgrade_dc19(At(4, {})) = At(5, {})
      /\ upgrade_be21(At(5, {})) = At(6, {})
  BY <1>1, Up4, Up5, Up6
<1>4. /\ upgrade_27d0(At(6, {})) = At(7, {}) /\ upgrade_0000(At(7, {})) = At(8, {})
      /\ upgrade_4b7c(At(8, {})) = At(9, {})
  BY Up7, Up8, Up9
<1>5. Fresh = <<At(1, {}), At(2, {}), At(3, {}), At(4, {}), At(5, {}), At(6, {}), At(7, {}),
                At(8, {}), At(9, {})>>
  BY <1>2, <1>3, <1>4 DEF Fresh
<1> QED BY <1>5

LEMMA SchemaOfRevisionFollows == IInv => SchemaOfRevision
<1> SUFFICES ASSUME IInv PROVE SchemaOfRevision
  OBVIOUS
<1> DEFINE fresh == IF revision = 0 THEN Empty ELSE Fresh[revision]
<1>1. fresh = At(revision, {})
  BY EmptyAt, FreshAt DEF IInv
<1>2. fresh.tables = [t \in Tables(revision) |-> ColumnsAt(revision, t)]
      /\ fresh.types = [y \in Types(revision) |-> ValuesAt(revision, y)]
  BY <1>1 DEF At, Db
<1> QED BY <1>2, Schema DEF SchemaOfRevision

LEMMA HeadMatchesModelsFollows == IInv => HeadMatchesModels
<1> SUFFICES ASSUME IInv, revision = 9
             PROVE  db.tables = ModelTables /\ db.types = ModelTypes
  BY DEF HeadMatchesModels, Newest
<1>1. Tables(9) = DOMAIN ModelTables /\ Types(9) = DOMAIN ModelTypes
  BY Domains DEF Tables, Types, Since, TypeSince
<1>2. \A t : ColumnsAt(9, t) = ModelTables[t]
  BY DEF ColumnsAt
<1>3. \A y : ValuesAt(9, y) = ModelTypes[y]
  BY DEF ValuesAt
<1>4. ModelTables = [t \in DOMAIN ModelTables |-> ModelTables[t]]
      /\ ModelTypes = [y \in DOMAIN ModelTypes |-> ModelTypes[y]]
  BY DEF ModelTables, ModelTypes
<1> QED BY <1>1, <1>2, <1>3, <1>4, Schema
-----------------------------------------------------------------------------
\* The steps.
LEMMA Initially == Init => IInv
<1>1. \A r \in Empty.rows : FALSE
  BY DEF Empty
<1>2. Empty.rows = {}
  BY DEF Empty
<1> QED BY <1>1, <1>2, EmptyAt DEF Init, IInv

LEMMA UpgradeStep == ASSUME IInv, Upgrade
                     PROVE  /\ revision' = revision + 1 /\ revision \in 0 .. 8
                            /\ db' = At(revision + 1, UpRows(revision + 1, db.rows))
                            /\ IInv'
<1> DEFINE n == revision
           R == db.rows
           Q == UpRows(n + 1, R)
<1>1. n \in 0 .. 8 /\ n + 1 \in 1 .. 9 /\ R \in SUBSET Row /\ db = At(n, R)
  BY DEF IInv, Upgrade, Newest
<1>2. \A r \in R : Lawful(n, r) /\ Rooted(n, R, r)
  BY Schema
<1>3. db' = upgrade(db, n + 1) /\ revision' = n + 1
  BY DEF Upgrade, Migrate
<1>9. \A r \in R : Unmarked(n, r)
  BY DEF IInv
<1> HIDE DEF n, R
<1>4. db' = At(n + 1, Q)
  BY <1>1, <1>3, Upgraded
<1>5. Q \in SUBSET Row
  BY <1>1, UpRow DEF UpRows
<1>6. ASSUME NEW q \in Q PROVE Permitted(At(n + 1, Q), q)
  <2>1. PICK r \in R : q = Up(n + 1, r)
    BY <1>6 DEF UpRows
  <2>2. (n + 1) - 1 = n
    BY <1>1
  <2>3. Lawful(n + 1, q)
    BY <1>1, <1>2, <2>1, <2>2, LawfulUp
  <2>4. Rooted(n + 1, Q, q)
    BY <1>1, <1>2, <2>1, <2>2, RootedUp
  <2> QED BY <2>3, <2>4, PermittedRow
<1>8. ASSUME NEW q \in Q PROVE Unmarked(n + 1, q)
  <2>1. PICK r \in R : q = Up(n + 1, r)
    BY DEF UpRows
  <2> QED BY <1>1, <1>9, <2>1 DEF Unmarked, Up
<1>7. db'.rows = Q
  BY <1>4 DEF At, Db
<1> QED BY <1>1, <1>3, <1>4, <1>5, <1>6, <1>7, <1>8 DEF IInv, n, R

LEMMA DowngradeStep == ASSUME IInv, Downgrade
                       PROVE  /\ revision' = revision - 1 /\ revision \in 1 .. 9
                              /\ db' = At(revision - 1, DownRows(revision, db.rows))
                              /\ IInv'
<1> DEFINE n == revision
           R == db.rows
           Q == DownRows(n, R)
<1>1. n \in 1 .. 9 /\ n - 1 \in 0 .. 9 /\ R \in SUBSET Row /\ db = At(n, R)
  BY DEF IInv, Downgrade
<1>2. \A r \in R : Lawful(n, r) /\ Rooted(n, R, r)
  BY Schema
<1>3. db' = downgrade(db, n) /\ revision' = n - 1
  BY DEF Downgrade, Migrate
<1>9. \A r \in R : Unmarked(n, r)
  BY DEF IInv
<1> HIDE DEF n, R
<1>4. db' = At(n - 1, Q)
  BY <1>1, <1>2, <1>3, Downgraded
<1>5. Q \in SUBSET Row
  BY <1>1, DownRow DEF DownRows, Staying
<1>6. ASSUME NEW q \in Q PROVE Permitted(At(n - 1, Q), q)
  <2>1. PICK r \in Staying(n, R) : q = Down(n, r)
    BY <1>6 DEF DownRows
  <2>2. r \in R
    BY DEF Staying
  <2>3. Lawful(n - 1, q)
    BY <1>1, <1>2, <2>1, <2>2, LawfulDown
  <2>4. Rooted(n - 1, Q, q)
    BY <1>1, <1>2, <2>1, <2>2, RootedDown
  <2> QED BY <2>3, <2>4, PermittedRow
<1>8. ASSUME NEW q \in Q PROVE Unmarked(n - 1, q)
  <2>1. PICK r \in R : q = Down(n, r)
    BY DEF DownRows, Staying
  <2> SUFFICES ASSUME n - 1 < 4, q.table = "user_account" PROVE "password_hash" \notin q.null
    BY DEF Unmarked
  <2>2. r \in Row /\ r.table = "user_account"
    BY <1>1, <2>1, DownRow
  <2>3. CASE n = 4
    <3>1. q = [r EXCEPT !.null = @ \ {"password_hash"}]
      BY <2>1, <2>2, <2>3 DEF Down, WithoutHash
    <3> QED BY <2>2, <3>1 DEF Row
  <2>4. CASE n < 4
    <3>1. q = r
      BY <2>1, <2>2, <2>4 DEF Down, Pending
    <3> QED BY <1>9, <2>2, <2>4, <3>1 DEF Unmarked
  <2> QED BY <1>1, <2>3, <2>4
<1>7. db'.rows = Q
  BY <1>4 DEF At, Db
<1> QED BY <1>1, <1>3, <1>4, <1>5, <1>6, <1>7, <1>8 DEF IInv, n, R

LEMMA NullableNames == \A t \in DOMAIN ModelTables : NullableOf(t) \subseteq Names
BY DEF NullableOf, Names

LEMMA InsertStep ==
    ASSUME IInv, NEW t \in DOMAIN ModelTables, NEW a \in Accounts,
           NEW v \in Values, NEW null \in SUBSET NullableOf(t), Insert(t, a, v, null)
    PROVE  IInv' /\ revision' = revision
<1> DEFINE n == revision
           R == db.rows
           r == [table |-> t, account |-> a, value |-> v, null |-> null]
           Q == R \cup {r}
<1>1. n \in 0 .. 9 /\ R \in SUBSET Row /\ db = At(n, R)
  BY DEF IInv
<1>2. \A q \in R : Lawful(n, q) /\ Rooted(n, R, q)
  BY Schema
<1>9. n = 9
  BY DEF Insert, Newest
<1>3. Permitted(db, r) /\ db' = [db EXCEPT !.rows = Q] /\ revision' = n
  BY DEF Insert
<1>4. r \in Row
  BY NullableNames DEF Row
<1> HIDE DEF n, R, r
<1>5. db' = At(n, Q)
  BY <1>1, <1>3 DEF At, Db
<1>6. Lawful(n, r) /\ Rooted(n, R, r)
  BY <1>1, <1>3, PermittedRow
<1>7. ASSUME NEW q \in Q PROVE Permitted(At(n, Q), q)
  <2>1. Lawful(n, q) /\ Rooted(n, R, q)
    BY <1>2, <1>6
  <2>2. Rooted(n, Q, q)
    BY <2>1 DEF Rooted
  <2> QED BY <2>1, <2>2, PermittedRow
<1>8. db'.rows = Q
  BY <1>5 DEF At, Db
<1>10. \A q \in Q : Unmarked(n, q)
  BY <1>9 DEF Unmarked
<1> QED BY <1>1, <1>3, <1>4, <1>5, <1>7, <1>8, <1>10 DEF IInv, n, R

\* What a migration makes of what is recorded.
Fact(r) == [r EXCEPT !.null = @ \ {"password_hash"}]

LEMMA FactsAre == ASSUME NEW d PROVE Facts(d) = {Fact(r) : r \in d.rows}
BY DEF Facts, Fact

LEMMA FactOfUp == ASSUME NEW n, NEW r \in Row PROVE Fact(Up(n, r)) = Fact(r)
BY DEF Fact, Up, WithHash, Row

LEMMA FactOfDown ==
    ASSUME NEW n, NEW r \in Row
    PROVE  /\ Fact(r).table = r.table /\ Fact(r).value = r.value
           /\ \/ Fact(Down(n, r)) = Fact(r)
              \/ /\ r.table = "document" /\ r.value = "needs_ocr"
                 /\ Fact(Down(n, r)) = [Fact(r) EXCEPT !.value = "pending"]
                 /\ Fact(Down(n, r)).value = "pending"
                 /\ Fact(r) = [Fact(Down(n, r)) EXCEPT !.value = "needs_ocr"]
<1>1. Fact(r).table = r.table /\ Fact(r).value = r.value
  BY DEF Fact, Row
<1>2. CASE n = 3 /\ r.table = "document" /\ r.value = "needs_ocr"
  <2>1. Fact(Down(n, r)) = [Fact(r) EXCEPT !.value = "pending"]
    BY <1>2 DEF Fact, Down, Pending, Row
  <2>2. Fact(r) \in [table : DOMAIN ModelTables, account : Accounts, value : {"needs_ocr"},
                      null : SUBSET Names]
    BY <1>2 DEF Fact, Row
  <2>3. [Fact(r) EXCEPT !.value = "pending"].value = "pending"
        /\ Fact(r) = [[Fact(r) EXCEPT !.value = "pending"] EXCEPT !.value = "needs_ocr"]
    BY <2>2
  <2> QED BY <1>1, <1>2, <2>1, <2>3
<1>3. CASE n = 4 /\ r.table = "user_account"
  <2>1. Down(n, r) = [r EXCEPT !.null = @ \ {"password_hash"}]
    BY <1>3 DEF Down, WithoutHash
  <2>2. Down(n, r).null = r.null \ {"password_hash"}
    BY <2>1 DEF Row
  <2>3. (r.null \ {"password_hash"}) \ {"password_hash"} = r.null \ {"password_hash"}
    OBVIOUS
  <2>4. Fact(Down(n, r)) = [Down(n, r) EXCEPT !.null = r.null \ {"password_hash"}]
    BY <2>2, <2>3 DEF Fact
  <2>5. Fact(Down(n, r)) = Fact(r)
    BY <2>1, <2>4 DEF Fact, Row
  <2> QED BY <1>1, <2>5
<1>4. CASE /\ ~ (n = 4 /\ r.table = "user_account")
           /\ ~ (n = 3 /\ r.table = "document" /\ r.value = "needs_ocr")
  <2>1. Down(n, r) = r
    BY <1>4 DEF Down, Pending, WithoutHash
  <2> QED BY <1>1, <2>1
<1> QED BY <1>2, <1>3, <1>4

LEMMA UpgradeKeepsFacts == ASSUME IInv, Upgrade PROVE Facts(db)' = Facts(db)
<1> DEFINE R == db.rows
           Q == UpRows(revision + 1, R)
<1>1. db' = At(revision + 1, Q) /\ R \in SUBSET Row
  BY UpgradeStep DEF IInv
<1>2. db'.rows = Q
  BY <1>1 DEF At, Db
<1>3. Facts(db') = {Fact(q) : q \in Q} /\ Facts(db) = {Fact(r) : r \in R}
  BY <1>2, FactsAre
<1>4. {Fact(q) : q \in Q} = {Fact(r) : r \in R}
  BY <1>1, FactOfUp DEF UpRows
<1> QED BY <1>3, <1>4

LEMMA DowngradeKeepsFacts ==
    ASSUME IInv, Downgrade
    PROVE  /\ \A f \in Facts(db) \ Facts(db)' :
                  \/ f.table \notin DOMAIN db'.tables
                  \/ f.table = "case_audit_event" /\ f.value \notin db'.types["case_action"]
                  \/ f.table = "document" /\ f.value = "needs_ocr"
                     /\ [f EXCEPT !.value = "pending"] \in Facts(db)'
           /\ \A f \in Facts(db)' \ Facts(db) :
                  f.value = "pending" /\ [f EXCEPT !.value = "needs_ocr"] \in Facts(db)
<1> DEFINE n == revision
           R == db.rows
           Q == DownRows(n, R)
<1>1. n \in 1 .. 9 /\ db' = At(n - 1, Q) /\ R \in SUBSET Row
  BY DowngradeStep DEF IInv
<1> HIDE DEF n
<1>2. /\ db'.rows = Q /\ DOMAIN db'.tables = Tables(n - 1)
      /\ db'.types = [y \in Types(n - 1) |-> ValuesAt(n - 1, y)]
  BY <1>1 DEF At, Db
<1>3. Facts(db)' = {Fact(q) : q \in Q} /\ Facts(db) = {Fact(r) : r \in R}
  <2>1. Facts(db') = {Fact(q) : q \in Q}
    BY <1>2, FactsAre
  <2> QED BY <2>1, FactsAre
<1>4. ASSUME NEW r \in R, Fact(r) \notin Facts(db)'
      PROVE  \/ r.table \notin Tables(n - 1)
             \/ r.table = "case_audit_event" /\ r.value \notin db'.types["case_action"]
             \/ r.table = "document" /\ r.value = "needs_ocr"
                /\ [Fact(r) EXCEPT !.value = "pending"] \in Facts(db)'
  <2>1. CASE r \in Staying(n, R)
    <3>1. Fact(Down(n, r)) \in Facts(db)'
      BY <1>3, <2>1 DEF DownRows
    <3> QED BY <1>1, <1>4, <3>1, FactOfDown
  <2>2. CASE n = 9 /\ r.table = "case_audit_event" /\ r.value \in new_values
    <3>1. db'.types["case_action"] = previous_values
      <4>1. "case_action" \in Types(8) /\ ValuesAt(8, "case_action") = previous_values
        BY TypesOf DEF ValuesAt
      <4> QED BY <1>2, <2>2, <4>1
    <3> QED BY <2>2, <3>1 DEF new_values, previous_values
  <2> QED BY <2>1, <2>2 DEF Staying
<1>5. ASSUME NEW q \in Q, Fact(q) \notin Facts(db)
      PROVE  Fact(q).value = "pending" /\ [Fact(q) EXCEPT !.value = "needs_ocr"] \in Facts(db)
  <2>1. PICK r \in R : q = Down(n, r)
    BY DEF DownRows, Staying
  <2>2. Fact(r) \in Facts(db)
    BY <1>3
  <2> QED BY <1>1, <1>5, <2>1, <2>2, FactOfDown
<1>6. \A r \in R : Fact(r).table = r.table /\ Fact(r).value = r.value
  BY <1>1, FactOfDown
<1> HIDE DEF Q, R
<1>7. ASSUME NEW f \in Facts(db) \ Facts(db)'
      PROVE  \/ f.table \notin DOMAIN db'.tables
             \/ f.table = "case_audit_event" /\ f.value \notin db'.types["case_action"]
             \/ f.table = "document" /\ f.value = "needs_ocr"
                /\ [f EXCEPT !.value = "pending"] \in Facts(db)'
  <2>1. PICK r \in R : f = Fact(r)
    BY <1>3
  <2> QED BY <1>2, <1>4, <1>6, <2>1
<1>8. ASSUME NEW f \in Facts(db)' \ Facts(db)
      PROVE  f.value = "pending" /\ [f EXCEPT !.value = "needs_ocr"] \in Facts(db)
  <2>1. PICK q \in Q : f = Fact(q)
    BY <1>3
  <2> QED BY <1>5, <2>1
<1> QED BY <1>7, <1>8

-----------------------------------------------------------------------------
\* The deletion of an account.  What goes is closed under following, and is the account's.
LEMMA ClosureStarts == ASSUME NEW d, NEW a
                       PROVE  RowOf(d, "user_account", a) \subseteq Closure(d, a)
                              /\ Closure(d, a) \subseteq d.rows
BY DEF Closure, RowOf

LEMMA ClosureFollows ==
    ASSUME NEW d, NEW a, NEW p \in Closure(d, a), NEW r \in d.rows, Follows(d, r, p)
    PROVE  r \in Closure(d, a)
<1> DEFINE start   == RowOf(d, "user_account", a)
           Cascade == {e \in d.rows \X d.rows : Follows(d, e[2], e[1])}
           Closed  == {S \in SUBSET {e[2] : e \in Cascade} :
                          \A e \in Cascade : e[1] \in start \cup S => e[2] \in S}
<1>1. Closure(d, a) = start \cup {q \in d.rows : \A S \in Closed : q \in S}
  BY DEF Closure
<1>2. p \in d.rows
  BY ClosureStarts
<1>3. <<p, r>> \in Cascade
  BY <1>2
<1>4. ASSUME NEW S \in Closed PROVE r \in S
  <2>1. p \in start \cup S
    BY <1>1
  <2>2. <<p, r>>[1] = p /\ <<p, r>>[2] = r
    OBVIOUS
  <2> QED BY <1>3, <2>1, <2>2
<1> HIDE DEF Closed
<1> QED BY <1>1, <1>4

LEMMA ClosureOwned == ASSUME NEW d, NEW a, NEW r \in Closure(d, a)
                      PROVE  r.account = a
<1> DEFINE start   == RowOf(d, "user_account", a)
           Cascade == {e \in d.rows \X d.rows : Follows(d, e[2], e[1])}
           Closed  == {S \in SUBSET {e[2] : e \in Cascade} :
                          \A e \in Cascade : e[1] \in start \cup S => e[2] \in S}
           S0      == {q \in {e[2] : e \in Cascade} : q.account = a}
<1>1. Closure(d, a) = start \cup {q \in d.rows : \A S \in Closed : q \in S}
  BY DEF Closure
<1>2. ASSUME NEW e \in Cascade, e[1] \in start \cup S0 PROVE e[2] \in S0
  <2>1. e[1].account = a
    BY <1>2 DEF RowOf
  <2>2. e[2].account = e[1].account
    BY DEF Follows
  <2> QED BY <2>1, <2>2
<1>3. S0 \in Closed
  BY <1>2
<1>4. \A q \in S0 \cup start : q.account = a
  BY DEF RowOf
<1> HIDE DEF Closed, S0, start
<1> QED BY <1>1, <1>3, <1>4

\* A row that refers by ON DELETE CASCADE to a table whose rows of the account all go, goes.
LEMMA ReferrerGoes ==
    ASSUME NEW d, NEW a, NEW r \in d.rows, r.account = a, Permitted(d, r),
           NEW k \in d.tables[r.table], k.kind = "ref", k.rule = "CASCADE", ~ IsNull(r, k),
           RowOf(d, k.to, a) \subseteq Closure(d, a)
    PROVE  r \in Closure(d, a)
<1>1. k \in References(d, r)
  BY DEF References
<1>2. PICK p \in RowOf(d, k.to, a) : TRUE
  BY <1>1 DEF Permitted
<1>3. p \in d.rows /\ p.table = k.to /\ p.account = r.account
  BY <1>2 DEF RowOf
<1>4. Follows(d, r, p)
  BY <1>1, <1>3 DEF Follows
<1> QED BY <1>2, <1>4, ClosureFollows

\* With the rows of a table go those of a table that must refer to it.
LEMMA TableGoes ==
    ASSUME NEW d, NEW a, \A r \in d.rows : Permitted(d, r),
           NEW t, NEW c, NEW u, Ref(c, u, "CASCADE") \in d.tables[t],
           RowOf(d, u, a) \subseteq Closure(d, a)
    PROVE  RowOf(d, t, a) \subseteq Closure(d, a)
<1> SUFFICES ASSUME NEW r \in RowOf(d, t, a) PROVE r \in Closure(d, a)
  OBVIOUS
<1> DEFINE k == Ref(c, u, "CASCADE")
<1>1. k.kind = "ref" /\ k.rule = "CASCADE" /\ k.null = FALSE /\ k.to = u
  BY RefFields
<1>2. k \in d.tables[t]
  OBVIOUS
<1> HIDE DEF k
<1>3. r \in d.rows /\ r.table = t /\ r.account = a /\ Permitted(d, r)
  BY DEF RowOf
<1>4. ~ IsNull(r, k)
  BY <1>1, <1>2, <1>3 DEF Permitted
<1> QED BY <1>1, <1>2, <1>3, <1>4, ReferrerGoes

\* Tables whose rows may stay when the account goes, and what their columns are.
MayStay == {"auth_event", "case_audit_event", "passkey_challenge", "job"}

LEMMA MayStayColumns ==
    \A t \in MayStay : \A k \in ModelTables[t] :
        \/ k.kind \in {"enum", "unique"}
        \/ /\ k.kind = "ref" /\ k.null = TRUE
           /\ \/ t \in {"auth_event", "case_audit_event"} /\ k.rule = "SET_NULL"
                 /\ k.to \in {"user_account", "case"}
              \/ t = "passkey_challenge" /\ k.rule = "CASCADE" /\ k.to = "user_account"
<1>1. \A k \in AuthEvent : k.kind = "enum" \/ (k.kind = "ref" /\ k.null = TRUE
                          /\ k.rule = "SET_NULL" /\ k.to = "user_account")
  BY OptionalFields, EnumFields DEF AuthEvent
<1>2. \A k \in CaseAuditEvent : k.kind = "enum" \/ (k.kind = "ref" /\ k.null = TRUE
                          /\ k.rule = "SET_NULL" /\ k.to \in {"user_account", "case"})
  BY OptionalFields, EnumFields DEF CaseAuditEvent
<1>3. \A k \in PasskeyChallenge : k.kind = "unique" \/ (k.kind = "ref" /\ k.null = TRUE
                          /\ k.rule = "CASCADE" /\ k.to = "user_account")
  BY OptionalFields, OtherFields DEF PasskeyChallenge
<1>4. \A k \in Job : k.kind = "enum"
  BY EnumFields DEF Job
<1>5. /\ ModelTables["auth_event"] = AuthEvent
      /\ ModelTables["case_audit_event"] = CaseAuditEvent
      /\ ModelTables["passkey_challenge"] = PasskeyChallenge /\ ModelTables["job"] = Job
  BY DEF ModelTables
<1> QED BY <1>1, <1>2, <1>3, <1>4, <1>5 DEF MayStay

LEMMA OthersGo ==
    ASSUME NEW d, NEW a, \A r \in d.rows : Permitted(d, r), d.tables = ModelTables
    PROVE  \A t \in DOMAIN ModelTables \ MayStay : RowOf(d, t, a) \subseteq Closure(d, a)
<1> DEFINE Goes(t) == RowOf(d, t, a) \subseteq Closure(d, a)
<1>0. \A t, c, u : Ref(c, u, "CASCADE") \in ModelTables[t] /\ Goes(u) => Goes(t)
  BY TableGoes
<1>1. Goes("user_account")
  BY ClosureStarts
<1> HIDE DEF Goes
<1>2. Goes("case")
  <2>1. Ref("owner_id", "user_account", "CASCADE") \in ModelTables["case"]
    BY DEF ModelTables, Case
  <2> QED BY <1>0, <1>1, <2>1
<1>3. Goes("party")
  <2>1. Ref("case_id", "case", "CASCADE") \in ModelTables["party"]
    BY DEF ModelTables, Party
  <2> QED BY <1>0, <1>2, <2>1
<1>4. Goes("document")
  <2>1. Ref("case_id", "case", "CASCADE") \in ModelTables["document"]
    BY DEF ModelTables, Document
  <2> QED BY <1>0, <1>2, <2>1
<1>5. Goes("document_page")
  <2>1. Ref("document_id", "document", "CASCADE") \in ModelTables["document_page"]
    BY DEF ModelTables, DocumentPage
  <2> QED BY <1>0, <1>4, <2>1
<1>6. Goes("passage")
  <2>1. Ref("page_id", "document_page", "CASCADE") \in ModelTables["passage"]
    BY DEF ModelTables, Passage
  <2> QED BY <1>0, <1>5, <2>1
<1>7. Goes("extracted_fact")
  <2>1. Ref("document_id", "document", "CASCADE") \in ModelTables["extracted_fact"]
    BY DEF ModelTables, ExtractedFact
  <2> QED BY <1>0, <1>4, <2>1
<1>8. Goes("case_event")
  <2>1. Ref("case_id", "case", "CASCADE") \in ModelTables["case_event"]
    BY DEF ModelTables, CaseEvent
  <2> QED BY <1>0, <1>2, <2>1
<1>9. Goes("case_event_note")
  <2>1. Ref("event_id", "case_event", "CASCADE") \in ModelTables["case_event_note"]
    BY DEF ModelTables, CaseEventNote
  <2> QED BY <1>0, <1>8, <2>1
<1>10. Goes("user_session")
  <2>1. Ref("user_id", "user_account", "CASCADE") \in ModelTables["user_session"]
    BY DEF ModelTables, UserSession
  <2> QED BY <1>0, <1>1, <2>1
<1>11. Goes("used_refresh_token")
  <2>1. Ref("session_id", "user_session", "CASCADE") \in ModelTables["used_refresh_token"]
    BY DEF ModelTables, UsedRefreshToken
  <2> QED BY <1>0, <1>10, <2>1
<1>12. Goes("user_mfa")
  <2>1. Ref("user_id", "user_account", "CASCADE") \in ModelTables["user_mfa"]
    BY DEF ModelTables, UserMfa
  <2> QED BY <1>0, <1>1, <2>1
<1>13. Goes("recovery_code")
  <2>1. Ref("user_id", "user_account", "CASCADE") \in ModelTables["recovery_code"]
    BY DEF ModelTables, RecoveryCode
  <2> QED BY <1>0, <1>1, <2>1
<1>14. Goes("passkey")
  <2>1. Ref("user_id", "user_account", "CASCADE") \in ModelTables["passkey"]
    BY DEF ModelTables, Passkey
  <2> QED BY <1>0, <1>1, <2>1
<1>15. \A t \in DOMAIN ModelTables \ MayStay : Goes(t)
  BY <1>1, <1>2, <1>3, <1>4, <1>5, <1>6, <1>7, <1>8, <1>9, <1>10, <1>11, <1>12, <1>13, <1>14
     DEF ModelTables, MayStay
<1> QED BY <1>15 DEF Goes

\* The columns that ON DELETE SET NULL makes NULL in a row.
NulledOf(d, r, gone) ==
    UNION {k.on : k \in {k \in References(d, r) :
         k.rule = "SET_NULL" /\ \E p \in gone : p.table = k.to /\ p.account = r.account}}

LEMMA NulledRow ==
    ASSUME NEW d, NEW r \in Row, NEW gone, d.tables = ModelTables
    PROVE  /\ Nulled(d, r, gone) \in Row
           /\ Nulled(d, r, gone).table = r.table /\ Nulled(d, r, gone).account = r.account
           /\ Nulled(d, r, gone).value = r.value
           /\ Nulled(d, r, gone).null = r.null \cup NulledOf(d, r, gone)
           /\ NulledOf(d, r, gone) = {} => Nulled(d, r, gone) = r
<1> DEFINE N == NulledOf(d, r, gone)
           q == [r EXCEPT !.null = r.null \cup N]
<1>1. Nulled(d, r, gone) = q
  BY DEF Nulled, NulledOf
<1>2. N \subseteq Names
  <2>1. \A k \in References(d, r) : k \in ModelTables[r.table]
    BY DEF References
  <2>2. r.table \in DOMAIN ModelTables
    BY DEF Row
  <2> QED BY <2>1, <2>2 DEF NulledOf, Names
<1> HIDE DEF N
<1>3. q \in Row /\ q.table = r.table /\ q.account = r.account /\ q.value = r.value
      /\ q.null = r.null \cup N
  BY <1>2 DEF Row
<1>4. N = {} => q = r
  BY DEF Row
<1> QED BY <1>1, <1>3, <1>4 DEF N

\* Of the account, rows of four tables are left, and they refer to nothing any more.
LEMMA AccountRowsLeft ==
    ASSUME IInv, revision = 9, NEW a, NEW r \in db.rows \ Closure(db, a), r.account = a
    PROVE  LET q == Nulled(db, r, Closure(db, a)) IN
           /\ Lawful(9, q)
           /\ \A k \in ColumnsAt(9, q.table) : k.kind = "ref" => IsNull(q, k)
           /\ q = r \/ q.table \in {"auth_event", "case_audit_event"}
<1> DEFINE G == Closure(db, a)
           q == Nulled(db, r, G)
<1>0. /\ db.tables = ModelTables /\ r \in Row /\ \A x \in db.rows : Permitted(db, x)
      /\ Lawful(9, r) /\ Rooted(9, db.rows, r)
  BY Schema, HeadMatchesModelsFollows DEF IInv, HeadMatchesModels, Newest
<1>1. /\ q.table = r.table /\ q.account = a /\ q.value = r.value
      /\ q.null = r.null \cup NulledOf(db, r, G)
      /\ NulledOf(db, r, G) = {} => q = r
  BY <1>0, NulledRow
<1>2. r.table \in MayStay
  BY <1>0, OthersGo DEF RowOf, Row
<1>3. ColumnsAt(9, r.table) = ModelTables[r.table]
  BY DEF ColumnsAt
<1>4. {"user_account", "case"} \subseteq DOMAIN ModelTables \ MayStay
  BY DEF ModelTables, MayStay
<1>5. /\ RowOf(db, "user_account", a) \subseteq G
      /\ RowOf(db, "case", a) \subseteq G
  BY <1>0, <1>4, OthersGo
<1> HIDE DEF G, q
<1>6. ASSUME NEW k \in References(db, r)
      PROVE  r.table \in {"auth_event", "case_audit_event"} /\ k.on \subseteq NulledOf(db, r, G)
  <2>1. k \in ModelTables[r.table] /\ k.kind = "ref" /\ ~ IsNull(r, k)
    BY <1>0 DEF References
  <2>2. RowOf(db, k.to, a) # {}
    BY <1>0 DEF Permitted
  <2>3. CASE k.rule = "SET_NULL" /\ k.to \in {"user_account", "case"}
                /\ r.table \in {"auth_event", "case_audit_event"}
    <3>1. PICK p \in RowOf(db, k.to, a) : p \in G
      BY <1>5, <2>2, <2>3
    <3>2. p.table = k.to /\ p.account = r.account
      BY <3>1 DEF RowOf
    <3> QED BY <2>3, <3>1, <3>2 DEF NulledOf
  <2>4. CASE r.table = "passkey_challenge" /\ k.rule = "CASCADE" /\ k.to = "user_account"
    <3>1. r \in G
      BY <1>0, <1>5, <2>1, <2>4, ReferrerGoes DEF G
    <3> QED BY <3>1 DEF G
  <2>5. k.kind \notin {"enum", "unique"}
    BY <2>1
  <2> QED BY <1>2, <2>1, <2>3, <2>4, <2>5, MayStayColumns
<1>7. \A k \in ModelTables[r.table] : k.kind = "ref" => IsNull(q, k)
  <2> SUFFICES ASSUME NEW k \in ModelTables[r.table], k.kind = "ref" PROVE IsNull(q, k)
    OBVIOUS
  <2>1. CASE IsNull(r, k)
    BY <1>1, <2>1 DEF IsNull
  <2>2. CASE ~ IsNull(r, k)
    <3>1. k \in References(db, r)
      BY <1>0, <2>2 DEF References
    <3> QED BY <1>1, <1>6, <3>1 DEF IsNull
  <2> QED BY <2>1, <2>2
<1>8. q = r \/ q.table \in {"auth_event", "case_audit_event"}
  <2>1. References(db, r) = {} => NulledOf(db, r, G) = {}
    BY DEF NulledOf
  <2> QED BY <1>1, <1>6, <2>1
<1>9. Lawful(9, q)
  <2>1. \A k \in ModelTables[r.table] : /\ k.kind \notin {"plain", "check"}
                                        /\ k.kind = "ref" => k.null
    BY <1>2, MayStayColumns
  <2> QED BY <1>0, <1>1, <1>3, <2>1 DEF Lawful
<1> QED BY <1>1, <1>3, <1>7, <1>8, <1>9 DEF q, G

LEMMA OtherRowsLeft ==
    ASSUME IInv, revision = 9, NEW a, NEW r \in db.rows, r.account # a
    PROVE  r \notin Closure(db, a) /\ Nulled(db, r, Closure(db, a)) = r
<1> DEFINE G == Closure(db, a)
<1>0. db.tables = ModelTables /\ r \in Row
  BY HeadMatchesModelsFollows DEF IInv, HeadMatchesModels, Newest
<1>1. \A p \in G : p.account # r.account
  BY ClosureOwned
<1> HIDE DEF G
<1>2. NulledOf(db, r, G) = {}
  BY <1>1 DEF NulledOf
<1>3. Nulled(db, r, G) = r
  BY <1>0, <1>2, NulledRow
<1>4. r \notin G
  BY <1>1
<1> QED BY <1>3, <1>4 DEF G

LEMMA RowsReplaced == ASSUME NEW n, NEW R, NEW Q, NEW e, e = [At(n, R) EXCEPT !.rows = Q]
                      PROVE  e = At(n, Q)
BY DEF At, Db

LEMMA Deleted ==
    ASSUME IInv, revision = 9, NEW a
    PROVE  LET Q == {Nulled(db, r, Closure(db, a)) : r \in db.rows \ Closure(db, a)} IN
           /\ Erased(db, a) = At(9, Q) /\ Q \in SUBSET Row
           /\ \A q \in Q : Permitted(At(9, Q), q)
           /\ \A q \in Q : q.account = a =>
                  /\ References(At(9, Q), q) = {}
                  /\ q \in db.rows \/ q.table \in {"auth_event", "case_audit_event"}
<1> DEFINE G == Closure(db, a)
           Q == {Nulled(db, r, G) : r \in db.rows \ G}
<1>0. /\ db.tables = ModelTables /\ db.rows \in SUBSET Row /\ db = At(9, db.rows)
      /\ \A r \in db.rows : Lawful(9, r) /\ Rooted(9, db.rows, r)
  BY Schema, HeadMatchesModelsFollows DEF IInv, HeadMatchesModels, Newest
<1>1. Erased(db, a) = [db EXCEPT !.rows = Q]
  BY DEF Erased
<1>2. ASSUME NEW r \in db.rows \ G
      PROVE  Nulled(db, r, G) \in Row /\ Nulled(db, r, G).account = r.account
  BY <1>0, NulledRow
<1>3. Q \in SUBSET Row
  BY <1>2
<1>4. ASSUME NEW r \in db.rows \ G, r.account = a, NEW q, q = Nulled(db, r, G)
      PROVE  /\ Lawful(9, q) /\ Rooted(9, Q, q) /\ References(At(9, Q), q) = {}
             /\ q \in db.rows \/ q.table \in {"auth_event", "case_audit_event"}
  <2>1. /\ Lawful(9, q)
        /\ \A k \in ColumnsAt(9, q.table) : k.kind = "ref" => IsNull(q, k)
        /\ q = r \/ q.table \in {"auth_event", "case_audit_event"}
    BY <1>4, AccountRowsLeft
  <2>2. Rooted(9, Q, q)
    BY <2>1 DEF Rooted
  <2>3. References(At(9, Q), q) = {}
    <3>1. At(9, Q).tables[q.table] = ColumnsAt(9, q.table)
      BY <2>1 DEF Lawful, At, Db
    <3> QED BY <2>1, <3>1 DEF References
  <2> QED BY <2>1, <2>2, <2>3
<1>5. ASSUME NEW r \in db.rows \ G, r.account # a, NEW q, q = Nulled(db, r, G)
      PROVE  q.account # a /\ Lawful(9, q) /\ Rooted(9, Q, q)
  <2>1. q = r
    BY <1>5, OtherRowsLeft
  <2>2. ASSUME NEW p \in db.rows, p.account = r.account PROVE p \in Q
    <3>1. p \notin G /\ Nulled(db, p, G) = p
      BY <1>5, <2>2, OtherRowsLeft
    <3> QED BY <3>1
  <2>3. Rooted(9, db.rows, r)
    BY <1>0
  <2> HIDE DEF Q
  <2>4. Rooted(9, Q, r)
    BY <2>2, <2>3 DEF Rooted
  <2> QED BY <1>0, <1>5, <2>1, <2>4
<1> HIDE DEF G
<1>6. \A q \in Q : \E r \in db.rows \ G : q = Nulled(db, r, G)
  OBVIOUS
<1> HIDE DEF Q
<1>7. Erased(db, a) = At(9, Q)
  <2> DEFINE R == db.rows
  <2>1. db = At(9, R)
    BY <1>0
  <2> HIDE DEF R
  <2>2. Erased(db, a) = [At(9, R) EXCEPT !.rows = Q]
    BY <1>1, <2>1
  <2> QED BY <2>2, RowsReplaced
<1>8. ASSUME NEW q \in Q PROVE Permitted(At(9, Q), q)
  <2>1. Lawful(9, q) /\ Rooted(9, Q, q)
    BY <1>4, <1>5, <1>6
  <2> QED BY <2>1, PermittedRow
<1>9. ASSUME NEW q \in Q, q.account = a
      PROVE  /\ References(At(9, Q), q) = {}
             /\ q \in db.rows \/ q.table \in {"auth_event", "case_audit_event"}
  BY <1>4, <1>5, <1>6, <1>9
<1> QED BY <1>3, <1>7, <1>8, <1>9 DEF Q, G

LEMMA DeletionCompleteFollows == IInv => DeletionComplete
<1> SUFFICES ASSUME IInv, revision = 9, NEW a \in Accounts, NEW r \in Erased(db, a).rows,
                    r.account = a
             PROVE  /\ Permitted(Erased(db, a), r) /\ References(Erased(db, a), r) = {}
                    /\ r \in db.rows \/ r.table \in {"auth_event", "case_audit_event"}
  BY DEF DeletionComplete, Newest
<1> DEFINE Q == {Nulled(db, x, Closure(db, a)) : x \in db.rows \ Closure(db, a)}
<1>1. /\ Erased(db, a) = At(9, Q)
      /\ \A q \in Q : Permitted(At(9, Q), q)
      /\ \A q \in Q : q.account = a =>
             /\ References(At(9, Q), q) = {}
             /\ q \in db.rows \/ q.table \in {"auth_event", "case_audit_event"}
  BY Deleted
<1> HIDE DEF Q
<1>2. r \in Q
  BY <1>1 DEF At, Db
<1> QED BY <1>1, <1>2

LEMMA DeletionStep == ASSUME IInv, NEW a \in Accounts, delete_account(a)
                      PROVE  IInv' /\ revision' = revision
<1> DEFINE Q == {Nulled(db, x, Closure(db, a)) : x \in db.rows \ Closure(db, a)}
<1>1. revision = 9 /\ revision' = 9 /\ db' = Erased(db, a)
  BY DEF delete_account, Newest
<1>2. Erased(db, a) = At(9, Q) /\ Q \in SUBSET Row /\ \A q \in Q : Permitted(At(9, Q), q)
  BY <1>1, Deleted
<1> HIDE DEF Q
<1>3. db' = At(9, Q)
  BY <1>1, <1>2
<1>4. db'.rows = Q
  BY <1>3 DEF At, Db
<1>5. \A q \in Q : Unmarked(9, q)
  BY DEF Unmarked
<1> QED BY <1>1, <1>2, <1>3, <1>4, <1>5 DEF IInv

LEMMA StepInv == IInv /\ [Next]_vars => IInv'
<1> SUFFICES ASSUME IInv, [Next]_vars PROVE IInv'
  OBVIOUS
<1>1. CASE Upgrade
  BY <1>1, UpgradeStep
<1>2. CASE Downgrade
  BY <1>2, DowngradeStep
<1>3. ASSUME NEW t \in DOMAIN ModelTables, NEW a \in Accounts, NEW v \in Values,
             NEW null \in SUBSET NullableOf(t), Insert(t, a, v, null)
      PROVE  IInv'
  BY <1>3, InsertStep
<1>4. ASSUME NEW a \in Accounts, delete_account(a) PROVE IInv'
  BY <1>4, DeletionStep
<1>5. CASE UNCHANGED vars
  <2>1. db' = db /\ revision' = revision
    BY <1>5 DEF vars
  <2>2. \A r \in db.rows : Permitted(db, r) /\ Unmarked(revision, r)
    BY DEF IInv
  <2> QED BY <2>1, <2>2 DEF IInv
<1> QED BY <1>1, <1>2, <1>3, <1>4, <1>5 DEF Next

-----------------------------------------------------------------------------
\* Every state that can be reached is a revision's schema with rows that keep its constraints.
THEOREM Inductive == Spec => []IInv
BY Initially, StepInv, PTL DEF Spec

\* At every revision the database is well formed and every row keeps every constraint, after
\* any walk up and down the scripts and any insertions and deletions (alembic/versions).
THEOREM TypeCorrect == Spec => []TypeOK
BY Inductive, TypeOKFollows, PTL

\* No statement of the next script is refused, whatever rows are there, and going up and down
\* again changes nothing (ADR-0004:98).
THEOREM NoScriptFails == Spec => []ScriptsSucceed
BY Inductive, ScriptsSucceedFollows, PTL

\* The schema depends on the revision alone: no downgrade leaves anything behind.
THEOREM SchemaDetermined == Spec => []SchemaOfRevision
BY Inductive, SchemaOfRevisionFollows, PTL

\* At the head the schema is the one the models declare (app/models).
THEOREM HeadIsModels == Spec => []HeadMatchesModels
BY Inductive, HeadMatchesModelsFollows, PTL

\* Deleting an account leaves, of its rows, those of the two audit trails and what referred
\* to nothing, and every constraint holds afterwards (auth/deletion.py:50-68).
THEOREM DeletionTrue == Spec => []DeletionComplete
BY Inductive, DeletionCompleteFollows, PTL

\* A migration changes no recorded fact: what goes is what the schema has no place for.
THEOREM FactsSurvive == Spec => FactsKept
<1>1. IInv /\ [Next]_vars => [revision' # revision =>
         /\ \A r \in Facts(db) \ Facts(db)' :
                /\ revision' < revision
                /\ \/ r.table \notin DOMAIN db'.tables
                   \/ r.table = "case_audit_event" /\ r.value \notin db'.types["case_action"]
                   \/ r.table = "document" /\ r.value = "needs_ocr"
                      /\ [r EXCEPT !.value = "pending"] \in Facts(db)'
         /\ \A r \in Facts(db)' \ Facts(db) :
                r.value = "pending" /\ [r EXCEPT !.value = "needs_ocr"] \in Facts(db)]_vars
  <2> SUFFICES ASSUME IInv, Next, revision' # revision
               PROVE
         /\ \A r \in Facts(db) \ Facts(db)' :
                /\ revision' < revision
                /\ \/ r.table \notin DOMAIN db'.tables
                   \/ r.table = "case_audit_event" /\ r.value \notin db'.types["case_action"]
                   \/ r.table = "document" /\ r.value = "needs_ocr"
                      /\ [r EXCEPT !.value = "pending"] \in Facts(db)'
         /\ \A r \in Facts(db)' \ Facts(db) :
                r.value = "pending" /\ [r EXCEPT !.value = "needs_ocr"] \in Facts(db)
    OBVIOUS
  <2>1. CASE Upgrade
    BY <2>1, UpgradeKeepsFacts
  <2>2. CASE Downgrade
    <3>1. revision' < revision
      BY <2>2, DowngradeStep
    <3> QED BY <2>2, <3>1, DowngradeKeepsFacts
  <2>3. ASSUME NEW t \in DOMAIN ModelTables, NEW a \in Accounts, NEW v \in Values,
               NEW null \in SUBSET NullableOf(t), Insert(t, a, v, null)
        PROVE  FALSE
    BY <2>3, InsertStep
  <2>4. ASSUME NEW a \in Accounts, delete_account(a) PROVE FALSE
    BY <2>4, DeletionStep
  <2> QED BY <2>1, <2>2, <2>3, <2>4 DEF Next
<1> QED BY <1>1, Inductive, PTL DEF Spec, FactsKept
=============================================================================
