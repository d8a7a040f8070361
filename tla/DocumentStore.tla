---------------------------- MODULE DocumentStore ----------------------------
(* Cases, documents and their bytes: opening a case, uploading into it and   *)
(* deleting the account (app/api/cases.py, ingest/service.py, storage/,      *)
(* auth/deletion.py).  Rows follow the transactions of AuthSessions: a       *)
(* request reads committed rows, its writes are seen by others when it       *)
(* commits, an exception undoes them.  Files do not: a write or a removal is *)
(* there as soon as it is done, whatever becomes of the request.             *)
EXTENDS Naturals

CONSTANTS
    Accounts, Cases, Contents,  \* accounts, case ids, and documents as bytes
    Unreadable,                 \* contents that extract_text_layer raises on
    Scanned,                    \* contents with a page that has no text layer
    Requests,                   \* slots for requests in flight at the same time
    None,                       \* no account, case, content
    MaxFaults                   \* bound: failures

ASSUME NoneAssumption == None \notin Accounts \cup Cases \cup Contents
ASSUME ContentsAssumption == /\ Unreadable \subseteq Contents
                             /\ Scanned \subseteq Contents \ Unreadable
ASSUME FaultsAssumption == MaxFaults \in Nat

VARIABLES
    accounts,   \* the user_account rows
    owner,      \* the account that opened a case, None for a case id not drawn yet
    cases,      \* the case rows
    documents,  \* the document rows, with their pages
    jobs,       \* documents that an OCR job row names
    opened,     \* the audit row of a case's opening: not yet there, naming its actor or not
    uploaded,   \* the audit row of a document's upload
    blob,       \* the files of the object store, by key
    req,        \* the requests in flight
    cut,        \* keys whose file a failed request left cut short or removed
    faults      \* the failures so far

rows == <<accounts, owner, cases, documents, jobs, opened, uploaded>>
vars == <<rows, blob, req, cut, faults>>

-----------------------------------------------------------------------------
Keys == Cases \X Contents
AuditRow == {"none", "named", "anonymous"}

\* Mutant: keys by content only, as if the store were not divided by case.
MutStorageKey(case_id, digest) == <<CHOOSE c \in Cases : TRUE, digest>>

\* The key of a document's file is its case and the hash of its bytes.
storage_key(case_id, digest) == <<case_id, digest>>

\* What a request works on and has read; `fd`, the file it has open for writing: `sole` if
\* nobody opened it since, `torn` if another upload has truncated it, `gone` if it was
\* removed meanwhile.  A deletion has `keys` to remove and has `purged` others.
Request == [op : {"none", "create", "upload", "delete"},
            at : {"idle", "open", "write", "extract", "audit", "lock", "cascade", "purge", "return"},
            account : Accounts \cup {None}, case : Cases \cup {None},
            content : Contents \cup {None}, fd : {"none", "sole", "torn", "gone"},
            keys : SUBSET Keys, purged : SUBSET Keys]
Idle == [op |-> "none", at |-> "idle", account |-> None, case |-> None, content |-> None,
         fd |-> "none", keys |-> {}, purged |-> {}]

Init ==
    /\ accounts = Accounts
    /\ owner = [c \in Cases |-> None]
    /\ cases = {} /\ documents = {} /\ jobs = {}
    /\ opened = [c \in Cases |-> "none"]
    /\ uploaded = [k \in Keys |-> "none"]
    /\ blob = [k \in Keys |-> "absent"]
    /\ req = [r \in Requests |-> Idle]
    /\ cut = {} /\ faults = 0

-----------------------------------------------------------------------------
Key(r) == storage_key(req[r].case, req[r].content)
Owned(a) == {c \in cases : owner[c] = a}

\* Uploads that have key k's file open.
Writing(r, k) == req[r].at = "write" /\ Key(r) = k

\* Uploads that have opened their file and not ended.
Storing(r) == req[r].op = "upload" /\ req[r].at \in {"write", "extract", "audit", "return"}

\* PostgreSQL's locks.  An INSERT takes a share of the rows it refers to, a DELETE the row
\* itself and, by its cascades, those that refer to it.
SharesAccount(r, a) == req[r].account = a /\ req[r].at = "return"
SharesCase(r, c)    == req[r].case = c /\ req[r].at \in {"audit", "return"}
TakesAccount(r, a)  == /\ req[r].op = "delete" /\ req[r].at \in {"cascade", "purge"}
                       /\ req[r].account = a /\ a \in accounts
TakesCases(r, a)    == TakesAccount(r, a) /\ req[r].at = "purge"
Others(r) == Requests \ {r}

Start(r, request) == req[r].at = "idle" /\ req' = [req EXCEPT ![r] = request]
End(r)            == req' = [req EXCEPT ![r] = Idle]

-----------------------------------------------------------------------------
\* create_case: a signed-in account opens a case under a new id, with its audit row.
CreateCase(r, a, c) ==
    /\ a \in accounts
    /\ \A q \in Others(r) : ~ TakesAccount(q, a)
    /\ owner[c] = None /\ \A q \in Requests : req[q].case # c
    /\ Start(r, [Idle EXCEPT !.op = "create", !.at = "return", !.account = a, !.case = c])
    /\ UNCHANGED <<rows, blob, cut, faults>>

CommitCreate(r) ==
    LET c == req[r].case IN
    /\ req[r].op = "create" /\ req[r].at = "return"
    /\ cases' = cases \cup {c}
    /\ owner' = [owner EXCEPT ![c] = req[r].account]
    /\ opened' = [opened EXCEPT ![c] = "named"]
    /\ End(r)
    /\ UNCHANGED <<accounts, documents, jobs, uploaded, blob, cut, faults>>

-----------------------------------------------------------------------------
\* upload_document by the owner of the case, and ingest_document's SELECT: these bytes are
\* not in the case yet.  If they are the answer is 409 and nothing is written.
Upload(r, c, x) ==
    /\ c \in cases
    /\ <<c, x>> \notin documents
    /\ Start(r, [Idle EXCEPT !.op = "upload", !.at = "open", !.account = owner[c],
                             !.case = c, !.content = x])
    /\ UNCHANGED <<rows, blob, cut, faults>>

\* write_bytes opens the file, which empties it, also under another upload's hands ...
OpenBlob(r) ==
    /\ req[r].at = "open"
    /\ blob' = [blob EXCEPT ![Key(r)] = "partial"]
    /\ req' = [q \in Requests |->
                  IF q = r THEN [req[q] EXCEPT !.at = "write", !.fd = "sole"]
                  ELSE IF Writing(q, Key(r)) /\ req[q].fd = "sole" THEN [req[q] EXCEPT !.fd = "torn"]
                  ELSE req[q]]
    /\ UNCHANGED <<rows, cut, faults>>

\* ... and writes the bytes from where it is.  If that was not at the start when another
\* upload emptied the file, there is a hole until that one has written too.
WriteBlob(r) ==
    /\ req[r].at = "write"
    /\ \/ req[r].fd # "gone" /\ blob' = [blob EXCEPT ![Key(r)] = "whole"]
       \/ req[r].fd # "sole" /\ UNCHANGED blob
    /\ req' = [req EXCEPT ![r].at = "extract", ![r].fd = "none"]
    /\ UNCHANGED <<rows, cut, faults>>

\* Mutant: the text layer of a scan is refused too.
MutExtractRaises(r) ==
    /\ req[r].at = "extract"
    /\ End(r)
    /\ UNCHANGED <<rows, blob, cut, faults>>

\* extract_text_layer raises: answered 422, the file stays.
ExtractRaises(r) ==
    /\ req[r].at = "extract" /\ req[r].content \in Unreadable
    /\ End(r)
    /\ UNCHANGED <<rows, blob, cut, faults>>

\* The INSERT of the document, its job and its pages: it waits for a deletion that has
\* reached the case, and for an uncommitted upload of the same bytes (the unique index).
InsertDocument(r) ==
    /\ req[r].at = "extract" /\ req[r].content \notin Unreadable
    /\ req[r].case \in cases /\ Key(r) \notin documents
    /\ \A q \in Others(r) : /\ ~ TakesCases(q, req[r].account)
                            /\ ~ (SharesCase(q, req[r].case) /\ Key(q) = Key(r))
    /\ req' = [req EXCEPT ![r].at = "audit"]
    /\ UNCHANGED <<rows, blob, cut, faults>>

\* Its IntegrityError: the case is gone, or the same bytes have been committed.
InsertRefused(r) ==
    /\ req[r].at = "extract" /\ req[r].content \notin Unreadable
    /\ req[r].case \notin cases \/ Key(r) \in documents
    /\ End(r)
    /\ UNCHANGED <<rows, blob, cut, faults>>

\* The INSERT of the audit row, which refers to the account too.
InsertAudit(r) ==
    /\ req[r].at = "audit"
    /\ \A q \in Others(r) : ~ TakesAccount(q, req[r].account)
    /\ req' = [req EXCEPT ![r].at = "return"]
    /\ UNCHANGED <<rows, blob, cut, faults>>

\* Mutant: every page that has no text is left for later, no job is enqueued.
MutCommitUpload(r) ==
    /\ req[r].op = "upload" /\ req[r].at = "return"
    /\ documents' = documents \cup {<<req[r].case, req[r].content>>}
    /\ uploaded' = [uploaded EXCEPT ![<<req[r].case, req[r].content>>] = "named"]
    /\ End(r)
    /\ UNCHANGED <<accounts, owner, cases, jobs, opened, blob, cut, faults>>

CommitUpload(r) ==
    LET d == <<req[r].case, req[r].content>> IN
    /\ req[r].op = "upload" /\ req[r].at = "return"
    /\ documents' = documents \cup {d}
    /\ jobs' = IF d[2] \in Scanned THEN jobs \cup {d} ELSE jobs
    /\ uploaded' = [uploaded EXCEPT ![d] = "named"]
    /\ End(r)
    /\ UNCHANGED <<accounts, owner, cases, opened, blob, cut, faults>>

-----------------------------------------------------------------------------
\* delete_own_account: collect_storage_keys of the documents on record.
Delete(r, a) ==
    /\ a \in accounts
    /\ Start(r, [Idle EXCEPT !.op = "delete", !.at = "lock", !.account = a,
                    !.keys = {storage_key(d[1], d[2]) : d \in {d \in documents : owner[d[1]] = a}}])
    /\ UNCHANGED <<rows, blob, cut, faults>>

\* Mutant: the DELETE does not wait for those who refer to the account.
MutDeleteAccount(r) ==
    /\ req[r].op = "delete" /\ req[r].at = "lock"
    /\ req' = [req EXCEPT ![r].at = "cascade"]
    /\ UNCHANGED <<rows, blob, cut, faults>>

\* The DELETE of the account (of no row, when another deletion has committed) ...
DeleteAccount(r) ==
    /\ req[r].op = "delete" /\ req[r].at = "lock"
    /\ \A q \in Others(r) : /\ ~ SharesAccount(q, req[r].account)
                            /\ ~ TakesAccount(q, req[r].account)
    /\ req' = [req EXCEPT ![r].at = "cascade"]
    /\ UNCHANGED <<rows, blob, cut, faults>>

\* Mutant: the cascade does not wait for those who refer to the cases.
MutDeleteCascade(r) ==
    /\ req[r].at = "cascade"
    /\ req' = [req EXCEPT ![r].at = "purge"]
    /\ UNCHANGED <<rows, blob, cut, faults>>

\* ... its cascade to the cases and all they hold ...
DeleteCascade(r) ==
    /\ req[r].at = "cascade"
    /\ \A q \in Others(r) : \A c \in Owned(req[r].account) : ~ SharesCase(q, c)
    /\ req' = [req EXCEPT ![r].at = "purge"]
    /\ UNCHANGED <<rows, blob, cut, faults>>

\* ... and purge_objects, before the commit: each file is removed, under an upload's hands
\* too, ...
PurgeObject(r, k) ==
    /\ req[r].at = "purge" /\ k \in req[r].keys
    /\ blob' = [blob EXCEPT ![k] = "absent"]
    /\ req' = [q \in Requests |->
                  IF q = r THEN [req[q] EXCEPT !.keys = @ \ {k}, !.purged = @ \cup {k}]
                  ELSE IF Writing(q, k) THEN [req[q] EXCEPT !.fd = "gone"]
                  ELSE req[q]]
    /\ UNCHANGED <<rows, cut, faults>>

\* ... or fails to be, which is passed over.
PurgeFails(r, k) ==
    /\ req[r].at = "purge" /\ k \in req[r].keys
    /\ faults < MaxFaults /\ faults' = faults + 1
    /\ req' = [req EXCEPT ![r].keys = @ \ {k}]
    /\ UNCHANGED <<rows, blob, cut>>

\* Mutant: the audit rows go with the case.
MutAnonymous(row) == "none"

\* ON DELETE SET NULL: the audit row stays without its actor and case.
Anonymous(row) == IF row = "named" THEN "anonymous" ELSE row

CommitDelete(r) ==
    LET a == req[r].account IN
    /\ req[r].at = "purge" /\ req[r].keys = {}
    /\ accounts' = accounts \ {a}
    /\ cases' = cases \ Owned(a)
    /\ documents' = {d \in documents : owner[d[1]] # a}
    /\ opened' = [c \in Cases |-> IF owner[c] = a THEN Anonymous(opened[c]) ELSE opened[c]]
    /\ uploaded' = [k \in Keys |-> IF owner[k[1]] = a THEN Anonymous(uploaded[k]) ELSE uploaded[k]]
    /\ End(r)
    /\ UNCHANGED <<owner, jobs, blob, cut, faults>>

-----------------------------------------------------------------------------
\* A crash, a lost connection, a full disk, a deadlock PostgreSQL breaks, anywhere before
\* the commit: the rows are as before, the files as they are.
Fail(r) ==
    /\ req[r].at # "idle"
    /\ faults < MaxFaults /\ faults' = faults + 1
    /\ cut' = cut \cup req[r].purged \cup (IF req[r].at = "write" THEN {Key(r)} ELSE {})
    /\ End(r)
    /\ UNCHANGED <<rows, blob>>

Step(r) ==
    \/ \E a \in Accounts, c \in Cases : CreateCase(r, a, c)
    \/ CommitCreate(r)
    \/ \E c \in Cases, x \in Contents : Upload(r, c, x)
    \/ OpenBlob(r) \/ WriteBlob(r) \/ ExtractRaises(r)
    \/ InsertDocument(r) \/ InsertRefused(r) \/ InsertAudit(r) \/ CommitUpload(r)
    \/ \E a \in Accounts : Delete(r, a)
    \/ DeleteAccount(r) \/ DeleteCascade(r)
    \/ \E k \in Keys : PurgeObject(r, k) \/ PurgeFails(r, k)
    \/ CommitDelete(r) \/ Fail(r)

Next == \E r \in Requests : Step(r)
Spec == Init /\ [][Next]_vars

-----------------------------------------------------------------------------
\* Every variable keeps its type, and a document is in a case that is on record.
TypeOK ==
    /\ accounts \subseteq Accounts
    /\ owner \in [Cases -> Accounts \cup {None}]
    /\ cases \subseteq Cases /\ documents \subseteq cases \X Contents /\ jobs \subseteq Keys
    /\ opened \in [Cases -> AuditRow] /\ uploaded \in [Keys -> AuditRow]
    /\ blob \in [Keys -> {"absent", "partial", "whole"}]
    /\ req \in [Requests -> Request]
    /\ cut \subseteq Keys /\ faults \in 0 .. MaxFaults

\* A document's file is whole, or in the hands of a request in flight: an upload of the same
\* bytes that will make it whole, or its owner's deletion, which will take the row too.
Intact(d) ==
    LET k == storage_key(d[1], d[2]) IN
    \/ blob[k] = "whole"
    \/ \E r \in Requests : \/ Writing(r, k) /\ req[r].fd = "sole"
                           \/ k \in req[r].purged /\ req[r].account = owner[d[1]]

\* No interleaving of uploads and deletions leaves a document on record without its bytes,
\* two uploads of the same bytes included (ingest/service.py:50-80); and when a request
\* fails, nothing is harmed but the files it was itself writing or removing.
BytesOnRecord == \A d \in documents : Intact(d) \/ storage_key(d[1], d[2]) \in cut

\* "a failure leaves unreferenced objects rather than broken records" (auth/deletion.py:74,
\* also ingest/service.py:5-9): whatever fails, those files are not a recorded document's.
FailureSparesRecords == \A d \in documents : Intact(d)

\* "the queue can never hold work for a document that was rolled back, and a committed
\* document can never be missing its job" (jobs/models.py:9-12).
JobWithDocument ==
    /\ \A d \in documents : d[2] \in Scanned => d \in jobs
    /\ \A d \in jobs : uploaded[d] # "none"

\* The audit trail names whoever opened the cases and uploaded the documents on record,
\* these and no others: a request that failed left no row, a deleted account no name.
TrailMatches ==
    /\ \A c \in Cases : opened[c] = "named" <=> c \in cases
    /\ \A k \in Keys : uploaded[k] = "named" <=> k \in documents
    /\ \A c \in Cases : owner[c] # None => opened[c] # "none"

\* The catalogue of documents is what Catalogue says, at every commit.
Shelves == INSTANCE Catalogue WITH shelf <- documents
ImplementsCatalogue == Shelves!Spec

\* The store holds a file that no row names only for a reason: a failure; an upload still
\* under way; bytes that extract_text_layer refused, after ingest_document had put them; or
\* the case is gone, and what reached the store after collect_storage_keys stays behind.
\* Every other file has its row, by which a deletion finds it (auth/deletion.py:38-47).
LeftoversExplained ==
    \A k \in Keys : blob[k] # "absent" /\ k \notin documents =>
        \/ faults > 0
        \/ k[2] \in Unreadable
        \/ k[1] \notin cases
        \/ \E r \in Requests : Storing(r) /\ Key(r) = k
=============================================================================
