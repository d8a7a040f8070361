----------------------------- MODULE CaseTimeline -----------------------------
(* Reading a case file and its chronology, and adding to it, while documents *)
(* are still being read and the account may be deleted (app/api/events.py,   *)
(* the read routes of app/api/cases.py, models/event.py, models/audit.py).   *)
(* Every route reads in several SELECTs, each of which sees what has been    *)
(* committed by then, writes its audit row last, and commits.                *)
EXTENDS Naturals, FiniteSets

CONSTANTS
    Accounts, Cases, Documents, \* rows the run starts with
    Owner, CaseOf,              \* the account of a case, the case of a document
    Entries, Notes,             \* ids of case_event and case_event_note rows
    None,                       \* no account, case, document, entry
    MaxRequests, MaxFaults      \* bounds: requests over a behaviour, failures

ASSUME NoneAssumption == None \notin Accounts \cup Cases \cup Documents \cup Entries \cup Notes
ASSUME RowsAssumption == Owner \in [Cases -> Accounts] /\ CaseOf \in [Documents -> Cases]
ASSUME FiniteAssumption == /\ IsFiniteSet(Cases) /\ IsFiniteSet(Documents)
                           /\ IsFiniteSet(Entries) /\ IsFiniteSet(Notes)
ASSUME BoundsAssumption == MaxRequests \in Nat /\ MaxFaults \in Nat

\* The requests, in the order in which they begin.
Requests == 1 .. MaxRequests

VARIABLES
    accounts,   \* the user_account rows
    ocr,        \* the ocr_status of a document and whether all its pages have text
    entry,      \* the case_event rows, None for an id without one
    note,       \* the case_event_note rows, None for an id without one
    trail,      \* the case_audit_event rows
    req,        \* the requests in flight
    begun,      \* requests begun so far
    faults      \* failures so far

rows == <<accounts, ocr, entry, note, trail>>
vars == <<rows, req, begun, faults>>

-----------------------------------------------------------------------------
OcrStatus == {"needs_ocr", "processing", "complete"}
\* documentary_events_cite_a_passage, asserted_events_name_their_author: one or the other.
CaseEvent == {e \in [case : Cases, passage : Documents \cup {None}, author : Accounts \cup {None}] :
                 e.passage = None <=> e.author # None}
CaseEventNote == [event : Entries, author : Accounts]
ASSUME RowsNotNone == None \notin CaseEvent \cup CaseEventNote
Reads == {"case_list", "case_read", "document_list", "document_read", "event_list"}
CaseAction == Reads \cup {"event_created", "event_note_created"}
CaseAuditEvent == [id : Requests, action : CaseAction, actor : Accounts \cup {None},
                   case : Cases \cup {None}, detail : Nat]

\* Rows on record: cases and documents go with their account (DocumentStore).
cases == {c \in Cases : Owner[c] \in accounts}
documents == {d \in Documents : CaseOf[d] \in cases}
timeline(c) == {e \in Entries : entry[e] # None /\ entry[e].case = c}
NotesOf(es) == {n \in Notes : note[n] # None /\ note[n].event \in es}

\* A request: `item`, the document or entry it is about; `known`, what was on record in its
\* case when it began; and what its SELECTs returned: `seen`, the rows listed; `cited`, the
\* entries whose passage was found; `notes`; the status and the pages of a document.
Request == [op : CaseAction \cup {"none", "delete"},
            at : {"idle", "pages", "events", "citations", "notes", "entry", "note", "audit",
                  "lock", "cascade", "return"},
            account : Accounts \cup {None}, case : Cases \cup {None},
            item : Documents \cup Entries \cup Notes \cup {None},
            known : SUBSET (Entries \cup Notes), seen : SUBSET (Cases \cup Documents \cup Entries),
            cited : SUBSET Entries, notes : SUBSET Notes,
            status : OcrStatus \cup {"unread"}, pages : {"unread", "none", "partial", "text"}]
Idle == [op |-> "none", at |-> "idle", account |-> None, case |-> None, item |-> None,
         known |-> {}, seen |-> {}, cited |-> {}, notes |-> {}, status |-> "unread", pages |-> "unread"]

Init ==
    /\ accounts = Accounts
    /\ ocr \in [Documents -> {[status |-> "needs_ocr", text |-> FALSE],
                               [status |-> "complete", text |-> TRUE]}]
    /\ entry = [e \in Entries |-> None] /\ note = [n \in Notes |-> None]
    /\ trail = {}
    /\ req = [r \in Requests |-> Idle]
    /\ begun = 0 /\ faults = 0

-----------------------------------------------------------------------------
\* PostgreSQL's locks.  An INSERT takes a share of the rows it refers to: a case_event of its
\* case first, which is why its account is the next thing it waits for; a case_event_note
\* and an audit row of the account first.  A DELETE takes the account, then by cascade the
\* cases and all they hold.
TakesAccount(r, a) == /\ req[r].op = "delete" /\ req[r].at \in {"cascade", "return"}
                      /\ req[r].account = a /\ a \in accounts
TakesCases(r, a)   == TakesAccount(r, a) /\ req[r].at = "return"
SharesAccount(r, a) ==
    /\ req[r].op # "delete" /\ req[r].account = a
    /\ req[r].at = "return" \/ (req[r].op = "event_note_created" /\ req[r].at = "audit")
SharesCase(r, c) ==
    /\ req[r].op # "delete" /\ req[r].case = c
    /\ req[r].at = "return" \/ (req[r].op = "event_created" /\ req[r].at = "audit")

\* What a request needs next is held by another.
WaitsFor(r, q) ==
    LET a == req[r].account IN
    /\ r # q
    /\ \/ req[r].at \in {"audit", "note"} /\ TakesAccount(q, a)
       \/ req[r].at = "entry" /\ TakesCases(q, a)
       \/ req[r].at = "lock" /\ (SharesAccount(q, a) \/ TakesAccount(q, a))
       \/ req[r].at = "cascade" /\ \E c \in cases : Owner[c] = a /\ SharesCase(q, c)
Granted(r) == \A q \in Requests : ~ WaitsFor(r, q)

\* A request begins.  Its first SELECTs, of the account, the case and the item, amount to one:
\* rows only ever go with the account they belong to.
Begin(r, request) ==
    /\ r = begun + 1 /\ begun' = r
    /\ req' = [req EXCEPT ![r] = request]
    /\ UNCHANGED <<rows, faults>>
Goes(r, request) == req' = [req EXCEPT ![r] = request] /\ UNCHANGED <<rows, begun, faults>>
End(r) == req' = [req EXCEPT ![r] = Idle] /\ UNCHANGED begun

-----------------------------------------------------------------------------
\* list_cases, read_case, list_documents: one SELECT, then the audit row.
list_cases(r, a) ==
    /\ a \in accounts
    /\ Begin(r, [Idle EXCEPT !.op = "case_list", !.at = "audit", !.account = a,
                             !.seen = {c \in cases : Owner[c] = a}])

read_case(r, c) ==
    /\ c \in cases
    /\ Begin(r, [Idle EXCEPT !.op = "case_read", !.at = "audit", !.account = Owner[c], !.case = c])

list_documents(r, c) ==
    /\ c \in cases
    /\ Begin(r, [Idle EXCEPT !.op = "document_list", !.at = "audit", !.account = Owner[c], !.case = c,
                             !.seen = {d \in documents : CaseOf[d] = c}])

\* read_document: owned_document's SELECT of the row, with its status, ...
read_document(r, d) ==
    /\ d \in documents
    /\ Begin(r, [Idle EXCEPT !.op = "document_read", !.at = "pages", !.account = Owner[CaseOf[d]],
                             !.case = CaseOf[d], !.item = d, !.status = ocr[d].status])

\* ... and then of its pages.
SelectPages(r) ==
    LET d == req[r].item IN
    /\ req[r].at = "pages"
    /\ Goes(r, [req[r] EXCEPT !.at = "audit",
                   !.pages = IF d \notin documents THEN "none"
                             ELSE IF ocr[d].text THEN "text" ELSE "partial"])

\* list_events: the SELECT of the entries, ...
list_events(r, c) ==
    /\ c \in cases
    /\ Begin(r, [Idle EXCEPT !.op = "event_list", !.at = "events", !.account = Owner[c], !.case = c,
                             !.known = timeline(c) \cup NotesOf(timeline(c))])

SelectEvents(r) ==
    /\ req[r].at = "events"
    /\ Goes(r, [req[r] EXCEPT !.at = "citations", !.seen = timeline(req[r].case)])

\* ... of the passages they cite, with page and document: an entry whose passage is not found
\* gets None for it, ...
SelectCitations(r) ==
    /\ req[r].at = "citations"
    /\ Goes(r, [req[r] EXCEPT !.at = "notes",
                   !.cited = {e \in req[r].seen : entry[e] # None /\ entry[e].passage \in documents}])

\* ... and of their notes.
SelectNotes(r) ==
    /\ req[r].at = "notes"
    /\ Goes(r, [req[r] EXCEPT !.at = "audit", !.notes = NotesOf(req[r].seen)])

-----------------------------------------------------------------------------
\* create_event: the entry of somebody signed in, on a case of theirs ...
create_event(r, c, e) ==
    /\ c \in cases
    /\ entry[e] = None /\ \A q \in Requests : req[q].item # e
    /\ Begin(r, [Idle EXCEPT !.op = "event_created", !.at = "entry", !.account = Owner[c],
                             !.case = c, !.item = e])

\* Mutant: the case_event row does not refer to its case.
MutInsertEntry(r) ==
    /\ req[r].at = "entry" /\ Goes(r, [req[r] EXCEPT !.at = "return"])

\* ... is INSERTed, or refused because the case is gone.
InsertEntry(r) ==
    /\ req[r].at = "entry" /\ Granted(r) /\ req[r].case \in cases
    /\ Goes(r, [req[r] EXCEPT !.at = "audit"])

\* create_note: beside an entry of a case of theirs.
create_note(r, e, n) ==
    /\ entry[e] # None /\ entry[e].case \in cases
    /\ note[n] = None /\ \A q \in Requests : req[q].item # n
    /\ Begin(r, [Idle EXCEPT !.op = "event_note_created", !.at = "note", !.seen = {e}, !.item = n,
                             !.account = Owner[entry[e].case], !.case = entry[e].case])

InsertNote(r) ==
    /\ req[r].at = "note" /\ Granted(r) /\ req[r].account \in accounts
    /\ Goes(r, [req[r] EXCEPT !.at = "audit"])

\* Mutant: the audit row does not refer to the account and the case.
MutReferred(r) == TRUE

\* The foreign keys of an audit row: its account and its case, if it has one.
Referred(r) == req[r].account \in accounts /\ req[r].case \in cases \cup {None}

\* The INSERT of the audit row, the last before the answer is put together.
InsertAudit(r) ==
    /\ req[r].at = "audit" /\ Granted(r) /\ Referred(r)
    /\ Goes(r, [req[r] EXCEPT !.at = "return"])

\* Mutant: an INSERT that is refused is tried again.
MutInsertRefused(r) == FALSE /\ UNCHANGED vars

\* An IntegrityError at any of these INSERTs: the account has been deleted.
InsertRefused(r) ==
    /\ req[r].at \in {"entry", "note", "audit"} /\ Granted(r) /\ req[r].account \notin accounts
    /\ End(r) /\ UNCHANGED <<rows, faults>>

\* What goes into `detail`: how many rows the answer lists.
Detail(r) == IF req[r].op \in {"case_list", "document_list", "event_list"}
             THEN Cardinality(req[r].seen) ELSE 0
AuditRow(r) == [id |-> r, action |-> req[r].op, actor |-> req[r].account,
                case |-> req[r].case, detail |-> Detail(r)]

\* The commit: the request's rows become visible with its audit row.
Commit(r) ==
    /\ req[r].at = "return" /\ req[r].op \in CaseAction
    /\ trail' = trail \cup {AuditRow(r)}
    /\ End(r) /\ UNCHANGED <<accounts, ocr, faults>>

CommitRead(r) == req[r].op \in Reads /\ Commit(r) /\ UNCHANGED <<entry, note>>

CommitEntry(r) ==
    /\ req[r].op = "event_created" /\ Commit(r)
    /\ entry' = [entry EXCEPT ![req[r].item] =
                    [case |-> req[r].case, passage |-> None, author |-> req[r].account]]
    /\ UNCHANGED note

\* Mutant: a correction takes the place of what it corrects.
MutCommitNote(r) ==
    /\ req[r].op = "event_note_created" /\ Commit(r)
    /\ entry' = [e \in Entries |-> IF e \in req[r].seen THEN None ELSE entry[e]]
    /\ UNCHANGED note

CommitNote(r) ==
    /\ req[r].op = "event_note_created" /\ Commit(r)
    /\ note' = [note EXCEPT ![req[r].item] =
                   [event |-> CHOOSE e \in req[r].seen : TRUE, author |-> req[r].account]]
    /\ UNCHANGED entry

-----------------------------------------------------------------------------
\* delete_own_account: the DELETE waits for every request that refers to the account, ...
delete_own_account(r, a) ==
    /\ a \in accounts
    /\ Begin(r, [Idle EXCEPT !.op = "delete", !.at = "lock", !.account = a])

DeleteAccount(r) ==
    /\ req[r].at = "lock" /\ Granted(r)
    /\ Goes(r, [req[r] EXCEPT !.at = "cascade"])

\* ... its cascade for every one that refers to a case.
DeleteCascade(r) ==
    /\ req[r].at = "cascade" /\ Granted(r)
    /\ Goes(r, [req[r] EXCEPT !.at = "return"])

\* The entries go with their case, the notes with their entry; the audit rows lose their
\* actor and case.
CommitDelete(r) ==
    LET a == req[r].account
        Gone(e) == entry[e] # None /\ Owner[entry[e].case] = a IN
    /\ req[r].op = "delete" /\ req[r].at = "return"
    /\ accounts' = accounts \ {a}
    /\ entry' = [e \in Entries |-> IF Gone(e) THEN None ELSE entry[e]]
    /\ note' = [n \in Notes |-> IF note[n] # None /\ Gone(note[n].event) THEN None ELSE note[n]]
    /\ trail' = {[t EXCEPT !.actor = IF t.actor = a THEN None ELSE @,
                           !.case = IF t.case # None /\ Owner[t.case] = a THEN None ELSE @] : t \in trail}
    /\ End(r) /\ UNCHANGED <<ocr, faults>>

-----------------------------------------------------------------------------
\* A row of a document can be written unless a deletion has reached it.
Writable(d) == d \in documents /\ \A q \in Requests : ~ TakesCases(q, Owner[CaseOf[d]])

\* Mutant: complete when the engine has ended, whatever it has read.
MutOcr(d) ==
    /\ Writable(d) /\ ocr[d].status # "complete"
    /\ ocr' = [ocr EXCEPT ![d].status = "complete"]
    /\ UNCHANGED <<accounts, entry, note, trail, req, begun, faults>>

\* What an OCR job commits: the text of all pages and the status together, what is left to
\* read, or that it was tried (JobQueue has the jobs).
Ocr(d) ==
    /\ Writable(d) /\ ocr[d].status # "complete"
    /\ \/ ocr' = [ocr EXCEPT ![d] = [status |-> "complete", text |-> TRUE]]
       \/ \E s \in {"needs_ocr", "processing"} : ocr' = [ocr EXCEPT ![d].status = s]
    /\ UNCHANGED <<accounts, entry, note, trail, req, begun, faults>>

\* Extraction, which no code of this repository does yet: an entry from a document.
Extract(d, e) ==
    /\ Writable(d) /\ ocr[d].text
    /\ entry[e] = None /\ \A q \in Requests : req[q].item # e
    /\ entry' = [entry EXCEPT ![e] = [case |-> CaseOf[d], passage |-> d, author |-> None]]
    /\ UNCHANGED <<accounts, ocr, note, trail, req, begun, faults>>

\* Anything else that ends a request before its commit.
Fail(r) ==
    /\ req[r].at # "idle" /\ faults < MaxFaults /\ faults' = faults + 1
    /\ End(r) /\ UNCHANGED rows

\* PostgreSQL fails one of two transactions that wait for each other.
BreakDeadlock(r) ==
    /\ \E q \in Requests : WaitsFor(r, q) /\ WaitsFor(q, r)
    /\ End(r) /\ UNCHANGED <<rows, faults>>

Start(r) ==
    \/ \E a \in Accounts : list_cases(r, a) \/ delete_own_account(r, a)
    \/ \E c \in Cases : read_case(r, c) \/ list_documents(r, c) \/ list_events(r, c)
    \/ \E d \in Documents : read_document(r, d)
    \/ \E c \in Cases, e \in Entries : create_event(r, c, e)
    \/ \E e \in Entries, n \in Notes : create_note(r, e, n)
Go(r) ==
    \/ SelectPages(r) \/ SelectEvents(r) \/ SelectCitations(r) \/ SelectNotes(r)
    \/ InsertEntry(r) \/ InsertNote(r) \/ InsertAudit(r) \/ InsertRefused(r)
    \/ CommitRead(r) \/ CommitEntry(r) \/ CommitNote(r)
    \/ DeleteAccount(r) \/ DeleteCascade(r) \/ CommitDelete(r)
Environment == \E d \in Documents : Ocr(d) \/ \E e \in Entries : Extract(d, e)

Next == \/ \E r \in Requests : Start(r) \/ Go(r) \/ BreakDeadlock(r) \/ Fail(r)
        \/ Environment

\* A request goes on when it can, and PostgreSQL looks for deadlocks.
Fairness == \A r \in Requests : WF_vars(Go(r)) /\ WF_vars(BreakDeadlock(r))
Spec == Init /\ [][Next]_vars
FairSpec == Spec /\ Fairness

-----------------------------------------------------------------------------
\* Every variable keeps its type; an entry is on a case on record and cites a document on
\* record of that case or names its owner, a note is beside an entry on record by its owner,
\* an audit row names nobody and nothing that is gone.
TypeOK ==
    /\ accounts \subseteq Accounts
    /\ ocr \in [Documents -> [status : OcrStatus, text : BOOLEAN]]
    /\ entry \in [Entries -> CaseEvent \cup {None}]
    /\ \A e \in Entries : entry[e] # None =>
          /\ entry[e].case \in cases
          /\ entry[e].passage # None => CaseOf[entry[e].passage] = entry[e].case
          /\ entry[e].author # None => entry[e].author = Owner[entry[e].case]
    /\ note \in [Notes -> CaseEventNote \cup {None}]
    /\ \A n \in Notes : note[n] # None =>
          /\ entry[note[n].event] # None
          /\ note[n].author = Owner[entry[note[n].event].case]
    /\ trail \subseteq CaseAuditEvent
    /\ \A t \in trail : t.actor \in accounts \cup {None} /\ t.case \in cases \cup {None}
    /\ req \in [Requests -> Request]
    /\ begun \in 0 .. MaxRequests /\ faults \in 0 .. MaxFaults

\* An answer about to be given still holds: whatever it lists is on record and of the
\* account, nothing that was recorded before the request began is missing, and no
\* document-derived entry goes out without its citation (events.py:86-88), although the
\* passage and the notes are read after the entries and the account may be deleted meanwhile.
AnswersHold ==
    \A r \in Requests : req[r].at = "return" /\ req[r].op \in Reads =>
        LET c == req[r].case IN
        /\ req[r].account \in accounts
        /\ req[r].op = "case_list" => \A x \in req[r].seen : Owner[x] = req[r].account
        /\ req[r].op = "document_list" => \A x \in req[r].seen : x \in documents /\ CaseOf[x] = c
        /\ req[r].op = "document_read" => req[r].item \in documents /\ req[r].pages # "none"
        /\ req[r].op = "event_list" =>
              /\ \A x \in req[r].seen : /\ x \in timeline(c)
                                        /\ x \in req[r].cited <=> entry[x].passage # None
              /\ req[r].notes \subseteq NotesOf(req[r].seen)
              /\ req[r].known \subseteq req[r].seen \cup req[r].notes

\* A document that is answered as complete comes with the text of all its pages, although
\* they are read after its status and an OCR job may commit in between.
CompleteHasText ==
    \A r \in Requests : req[r].at = "return" /\ req[r].status = "complete" => req[r].pages = "text"

\* The trail reconciles with the case file it is about: as many entries and notes were
\* recorded as there are, and no answer claims more entries than there are now, for entries
\* are permanent (events.py:10-12).
TrailReconciles ==
    \A c \in cases :
        LET Rows(action) == {t \in trail : t.case = c /\ t.action = action} IN
        /\ Cardinality(Rows("event_created")) =
              Cardinality({e \in timeline(c) : entry[e].author # None})
        /\ Cardinality(Rows("event_note_created")) = Cardinality(NotesOf(timeline(c)))
        /\ \A t \in Rows("event_list") : t.detail <= Cardinality(timeline(c))

\* Every request ends: those that wait for a lock get it, are refused, or are the victim of
\* the deadlock between a new entry, which holds its case and needs its account, and the
\* deletion of the account.
EveryRequestEnds == \A r \in Requests : []<>(req[r].at = "idle")
=============================================================================
