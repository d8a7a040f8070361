-------------------------- MODULE CaseTimelineProofs --------------------------
(* Proofs about CaseTimeline, for any accounts, cases, documents, entries,   *)
(* notes and number of requests and failures.                                *)
EXTENDS CaseTimeline, FiniteSetTheorems, TLAPS

\* Which operation is at which step, ...
Placed(r) ==
    /\ req[r].op = "none" <=> req[r].at = "idle"
    /\ req[r].op \in {"case_list", "case_read", "document_list"} => req[r].at \in {"audit", "return"}
    /\ req[r].op = "document_read" => req[r].at \in {"pages", "audit", "return"}
    /\ req[r].op = "event_list" =>
          req[r].at \in {"events", "citations", "notes", "audit", "return"}
    /\ req[r].op = "event_created" => req[r].at \in {"entry", "audit", "return"}
    /\ req[r].op = "event_note_created" => req[r].at \in {"note", "audit", "return"}
    /\ req[r].op = "delete" => req[r].at \in {"lock", "cascade", "return"}

\* ... what it is about, ...
Subject(r) ==
    /\ req[r].op # "none" => req[r].account \in Accounts
    /\ req[r].op \in CaseAction \ {"case_list"} =>
          req[r].case \in Cases /\ Owner[req[r].case] = req[r].account
    /\ req[r].op = "case_list" => req[r].case = None
    /\ req[r].op = "document_read" => req[r].item \in Documents /\ CaseOf[req[r].item] = req[r].case
    /\ req[r].op = "event_created" => req[r].item \in Entries
    /\ req[r].op = "event_note_created" => req[r].item \in Notes
    /\ req[r].op = "event_list" => req[r].seen \subseteq Entries
    /\ req[r].op # "document_read" => req[r].status = "unread"

\* ... and that its account is there once its audit row is.
Held(r) == req[r].at = "return" /\ req[r].op \in CaseAction => req[r].account \in accounts

\* What the SELECTs returned holds as long as the account is there.
Chronology(r) ==
    LET c == req[r].case IN
    /\ req[r].known \subseteq timeline(c) \cup NotesOf(timeline(c))
    /\ req[r].at \in {"citations", "notes", "audit", "return"} =>
          req[r].seen \subseteq timeline(c) /\ req[r].known \subseteq req[r].seen \cup NotesOf(req[r].seen)
    /\ req[r].at \in {"notes", "audit", "return"} =>
          \A x \in req[r].seen : x \in req[r].cited <=> entry[x].passage # None
    /\ req[r].at \in {"audit", "return"} =>
          req[r].notes \subseteq NotesOf(req[r].seen) /\ req[r].known \subseteq req[r].seen \cup req[r].notes
Listed(r) ==
    /\ req[r].op = "case_list" => \A x \in req[r].seen : x \in Cases /\ Owner[x] = req[r].account
    /\ req[r].op = "document_list" =>
          \A x \in req[r].seen : x \in Documents /\ CaseOf[x] = req[r].case
    /\ req[r].op = "document_read" /\ req[r].at \in {"audit", "return"} =>
          req[r].pages # "none" /\ (req[r].status = "complete" => req[r].pages = "text")
    /\ req[r].op = "event_note_created" => \E e \in timeline(req[r].case) : req[r].seen = {e}
    /\ req[r].op = "event_list" => Chronology(r)
Shown(r) ==
    /\ req[r].account \in accounts => Listed(r)
    /\ req[r].op = "document_read" /\ req[r].status = "complete" => ocr[req[r].item].text

\* The id of a row about to be committed is nobody else's.
Fresh(r) ==
    /\ req[r].op = "event_created" => entry[req[r].item] = None
    /\ req[r].op = "event_note_created" => note[req[r].item] = None
Apart(r, q) ==
    /\ req[r].at = "return" /\ req[r].op # "delete" => ~ TakesAccount(q, req[r].account)
    /\ req[r].op = req[q].op /\ req[r].op \in {"event_created", "event_note_created"}
          => req[r].item # req[q].item

Good(r) == Placed(r) /\ Subject(r) /\ Held(r) /\ Shown(r) /\ Fresh(r)
Read == \A d \in Documents : ocr[d].status = "complete" => ocr[d].text
IInv == /\ TypeOK /\ Read
        /\ \A r \in Requests : Good(r)
        /\ \A r, q \in Requests : r # q => Apart(r, q)
-----------------------------------------------------------------------------
LEMMA IdleTyped ==
  /\ Idle \in Request /\ Idle.op = "none" /\ Idle.at = "idle" /\ Idle.status = "unread"
BY DEF Idle, Request

LEMMA RequestNat == Requests \subseteq Nat /\ \A r \in Requests : r \in 0 .. MaxRequests
BY BoundsAssumption DEF Requests

\* What the invariant says of one request.
LEMMA Facts ==
  ASSUME IInv, NEW r \in Requests
  PROVE  /\ TypeOK /\ Read /\ req \in [Requests -> Request] /\ req[r] \in Request
         /\ Good(r) /\ Placed(r) /\ Subject(r) /\ Held(r) /\ Shown(r) /\ Fresh(r)
         /\ begun \in 0 .. MaxRequests /\ faults \in 0 .. MaxFaults
         /\ \A q \in Requests \ {r} : Apart(r, q) /\ Apart(q, r)
BY DEF IInv, TypeOK, Good

\* A step of one request that leaves the rows as they are.
LEMMA Quiet ==
  ASSUME IInv, NEW r \in Requests, NEW x \in Request,
         req' = [req EXCEPT ![r] = x], UNCHANGED rows,
         begun' \in 0 .. MaxRequests, faults' \in 0 .. MaxFaults,
         Good(r)', \A q \in Requests \ {r} : Apart(r, q)' /\ Apart(q, r)'
  PROVE  IInv'
<1>u. /\ accounts' = accounts /\ ocr' = ocr /\ entry' = entry /\ note' = note /\ trail' = trail
  BY DEF rows
<1>r. req \in [Requests -> Request] /\ \A q \in Requests \ {r} : req'[q] = req[q]
  BY DEF IInv, TypeOK
<1>1. TypeOK' /\ Read'
  BY <1>u, <1>r DEF IInv, TypeOK, Read, cases
<1>2. ASSUME NEW q \in Requests \ {r} PROVE Good(q)'
  <2>1. Good(q) /\ req'[q] = req[q]
    BY <1>r DEF IInv
  <2>2. Placed(q)' /\ Subject(q)' /\ Held(q)' /\ Fresh(q)'
    BY <2>1, <1>u DEF Good, Placed, Subject, Held, Fresh
  <2>3. Shown(q)'
    BY <2>1, <1>u DEF Good, Shown, Listed, Chronology, timeline, NotesOf
  <2> QED BY <2>2, <2>3 DEF Good
<1>3. ASSUME NEW p \in Requests, NEW q \in Requests, p # q PROVE Apart(p, q)'
  <2>1. CASE p = r \/ q = r
    BY <2>1, <1>3
  <2>2. CASE p # r /\ q # r
    <3>1. Apart(p, q) /\ req'[p] = req[p] /\ req'[q] = req[q]
      BY <2>2, <1>3, <1>r DEF IInv
    <3> QED BY <3>1, <1>u DEF Apart, TakesAccount
  <2> QED BY <2>1, <2>2
<1> QED BY <1>1, <1>2, <1>3 DEF IInv

\* A request that ends with nothing done.
LEMMA Ends ==
  ASSUME IInv, NEW r \in Requests, End(r), UNCHANGED rows, faults' \in 0 .. MaxFaults
  PROVE  IInv'
<1>r. req' = [req EXCEPT ![r] = Idle] /\ req'[r] = Idle /\ begun' \in 0 .. MaxRequests
  BY Facts DEF End
<1>1. Good(r)'
  BY <1>r, IdleTyped DEF Good, Placed, Subject, Held, Shown, Listed, Fresh, CaseAction, Reads
<1>2. ASSUME NEW q \in Requests \ {r} PROVE Apart(r, q)' /\ Apart(q, r)'
  BY <1>r, IdleTyped DEF Apart, TakesAccount
<1> QED BY <1>r, <1>1, <1>2, IdleTyped, Quiet

\* A request goes on with what it is about, not yet to its last step.
LEMMA GoesOn ==
  ASSUME IInv, NEW r \in Requests, NEW x \in Request, Goes(r, x),
         x.op = req[r].op, x.account = req[r].account, x.case = req[r].case, x.item = req[r].item,
         x.status = req[r].status, x.op \notin {"none", "delete"}, x.at # "return",
         x.op = "event_list" => x.seen \subseteq Entries,
         Placed(r)', Shown(r)'
  PROVE  IInv'
<1>f. /\ req \in [Requests -> Request] /\ Subject(r) /\ Fresh(r)
      /\ begun \in 0 .. MaxRequests /\ faults \in 0 .. MaxFaults
      /\ \A q \in Requests \ {r} : Apart(r, q) /\ Apart(q, r)
  BY Facts
<1>r. /\ req' = [req EXCEPT ![r] = x] /\ UNCHANGED <<rows, begun, faults>>
      /\ req'[r] = x /\ \A q \in Requests \ {r} : req'[q] = req[q]
  BY <1>f DEF Goes
<1>1. Subject(r)' /\ Fresh(r)' /\ Held(r)'
  BY <1>f, <1>r DEF Subject, Fresh, Held, rows
<1>2. ASSUME NEW q \in Requests \ {r} PROVE Apart(r, q)' /\ Apart(q, r)'
  BY <1>f, <1>r, <1>2 DEF Apart, TakesAccount, rows
<1> QED BY <1>f, <1>r, <1>1, <1>2, Quiet DEF Good
-----------------------------------------------------------------------------
\* A request begins, with an item nobody else has when it is to create one.
LEMMA Begins ==
  ASSUME IInv, NEW r \in Requests, NEW x \in Request, Begin(r, x), x.at \notin {"cascade", "return"},
         Placed(r)', Subject(r)', Shown(r)', Fresh(r)',
         x.op \in {"event_created", "event_note_created"} =>
            \A q \in Requests : req[q].item # x.item
  PROVE  IInv'
<1>f. /\ req \in [Requests -> Request] /\ faults \in 0 .. MaxFaults /\ r \in 0 .. MaxRequests
      /\ \A q \in Requests \ {r} : Apart(r, q) /\ Apart(q, r)
  BY Facts, RequestNat
<1>r. /\ req' = [req EXCEPT ![r] = x] /\ UNCHANGED <<rows, faults>> /\ begun' \in 0 .. MaxRequests
      /\ req'[r] = x /\ \A q \in Requests \ {r} : req'[q] = req[q]
  BY <1>f DEF Begin
<1>1. Held(r)'
  BY <1>r DEF Held
<1>2. ASSUME NEW q \in Requests \ {r} PROVE Apart(r, q)' /\ Apart(q, r)'
  BY <1>f, <1>r, <1>2 DEF Apart, TakesAccount, rows
<1> QED BY <1>f, <1>r, <1>1, <1>2, Quiet DEF Good

LEMMA OwnerTyped == /\ \A c \in Cases : Owner[c] \in Accounts
                    /\ \A d \in Documents : CaseOf[d] \in Cases
BY RowsAssumption

LEMMA ListsCases == ASSUME IInv, NEW r \in Requests, NEW a \in Accounts, list_cases(r, a) PROVE IInv'
<1> DEFINE x == [Idle EXCEPT !.op = "case_list", !.at = "audit", !.account = a,
                             !.seen = {c \in cases : Owner[c] = a}]
<1>1. /\ x \in Request /\ x.op = "case_list" /\ x.at = "audit" /\ x.account = a /\ x.case = None
      /\ x.seen = {c \in cases : Owner[c] = a} /\ x.status = "unread"
  BY DEF Idle, Request, CaseAction, Reads, cases
<1>2. Begin(r, x)
  BY DEF list_cases
<1> HIDE DEF x
<1>3. req'[r] = x /\ UNCHANGED rows
  BY <1>2, Facts DEF Begin
<1>4. Placed(r)' /\ Subject(r)' /\ Fresh(r)' /\ Shown(r)'
  BY <1>1, <1>3 DEF Placed, Subject, Fresh, Shown, Listed, CaseAction, Reads, cases
<1> QED BY <1>1, <1>2, <1>4, Begins

LEMMA ReadsCase == ASSUME IInv, NEW r \in Requests, NEW c \in Cases, read_case(r, c) PROVE IInv'
<1> DEFINE x == [Idle EXCEPT !.op = "case_read", !.at = "audit", !.account = Owner[c], !.case = c]
<1>1. /\ x \in Request /\ x.op = "case_read" /\ x.at = "audit" /\ x.account = Owner[c] /\ x.case = c
      /\ x.status = "unread"
  BY OwnerTyped DEF Idle, Request, CaseAction, Reads
<1>2. Begin(r, x)
  BY DEF read_case
<1> HIDE DEF x
<1>3. req'[r] = x /\ UNCHANGED rows
  BY <1>2, Facts DEF Begin
<1>4. Placed(r)' /\ Subject(r)' /\ Fresh(r)' /\ Shown(r)'
  BY <1>1, <1>3, OwnerTyped DEF Placed, Subject, Fresh, Shown, Listed, CaseAction, Reads
<1> QED BY <1>1, <1>2, <1>4, Begins

LEMMA ListsDocuments == ASSUME IInv, NEW r \in Requests, NEW c \in Cases, list_documents(r, c) PROVE IInv'
<1> DEFINE x == [Idle EXCEPT !.op = "document_list", !.at = "audit", !.account = Owner[c], !.case = c,
                             !.seen = {d \in documents : CaseOf[d] = c}]
<1>1. /\ x \in Request /\ x.op = "document_list" /\ x.at = "audit" /\ x.account = Owner[c]
      /\ x.case = c /\ x.seen = {d \in documents : CaseOf[d] = c} /\ x.status = "unread"
  BY OwnerTyped DEF Idle, Request, CaseAction, Reads, documents
<1>2. Begin(r, x)
  BY DEF list_documents
<1> HIDE DEF x
<1>3. req'[r] = x /\ UNCHANGED rows
  BY <1>2, Facts DEF Begin
<1>4. Placed(r)' /\ Subject(r)' /\ Fresh(r)' /\ Shown(r)'
  BY <1>1, <1>3, OwnerTyped DEF Placed, Subject, Fresh, Shown, Listed, CaseAction, Reads, documents
<1> QED BY <1>1, <1>2, <1>4, Begins

LEMMA ReadsDocument == ASSUME IInv, NEW r \in Requests, NEW d \in Documents, read_document(r, d) PROVE IInv'
<1> DEFINE x == [Idle EXCEPT !.op = "document_read", !.at = "pages", !.account = Owner[CaseOf[d]],
                             !.case = CaseOf[d], !.item = d, !.status = ocr[d].status]
<1>0. ocr[d].status \in OcrStatus
  BY Facts DEF TypeOK
<1>1. /\ x \in Request /\ x.op = "document_read" /\ x.at = "pages" /\ x.account = Owner[CaseOf[d]]
      /\ x.case = CaseOf[d] /\ x.item = d /\ x.status = ocr[d].status
  BY <1>0, OwnerTyped DEF Idle, Request, CaseAction, Reads
<1>2. Begin(r, x)
  BY DEF read_document
<1> HIDE DEF x
<1>3. req'[r] = x /\ UNCHANGED rows
  BY <1>2, Facts DEF Begin
<1>4. Placed(r)' /\ Subject(r)' /\ Fresh(r)'
  BY <1>1, <1>3, OwnerTyped DEF Placed, Subject, Fresh, CaseAction, Reads
<1>5. Shown(r)'
  BY <1>1, <1>3, Facts DEF Shown, Listed, Read, rows
<1> QED BY <1>1, <1>2, <1>4, <1>5, Begins

LEMMA ListsEvents == ASSUME IInv, NEW r \in Requests, NEW c \in Cases, list_events(r, c) PROVE IInv'
<1> DEFINE x == [Idle EXCEPT !.op = "event_list", !.at = "events", !.account = Owner[c], !.case = c,
                             !.known = timeline(c) \cup NotesOf(timeline(c))]
<1>1. /\ x \in Request /\ x.op = "event_list" /\ x.at = "events" /\ x.account = Owner[c]
      /\ x.case = c /\ x.known = timeline(c) \cup NotesOf(timeline(c)) /\ x.status = "unread"
      /\ x.seen = {}
  BY OwnerTyped DEF Idle, Request, CaseAction, Reads, timeline, NotesOf
<1>2. Begin(r, x)
  BY DEF list_events
<1> HIDE DEF x
<1>3. req'[r] = x /\ UNCHANGED rows
  BY <1>2, Facts DEF Begin
<1>4. Placed(r)' /\ Subject(r)' /\ Fresh(r)'
  BY <1>1, <1>3, OwnerTyped DEF Placed, Subject, Fresh, CaseAction, Reads
<1>5. Shown(r)'
  BY <1>1, <1>3 DEF Shown, Listed, Chronology, timeline, NotesOf, rows
<1> QED BY <1>1, <1>2, <1>4, <1>5, Begins

LEMMA CreatesEvent ==
  ASSUME IInv, NEW r \in Requests, NEW c \in Cases, NEW e \in Entries, create_event(r, c, e)
  PROVE  IInv'
<1> DEFINE x == [Idle EXCEPT !.op = "event_created", !.at = "entry", !.account = Owner[c],
                             !.case = c, !.item = e]
<1>1. /\ x \in Request /\ x.op = "event_created" /\ x.at = "entry" /\ x.account = Owner[c]
      /\ x.case = c /\ x.item = e /\ x.status = "unread"
  BY OwnerTyped DEF Idle, Request, CaseAction, Reads
<1>2. Begin(r, x) /\ entry[e] = None /\ \A q \in Requests : req[q].item # e
  BY DEF create_event
<1> HIDE DEF x
<1>3. req'[r] = x /\ UNCHANGED rows
  BY <1>2, Facts DEF Begin
<1>4. Placed(r)' /\ Subject(r)' /\ Fresh(r)' /\ Shown(r)'
  BY <1>1, <1>2, <1>3, OwnerTyped DEF Placed, Subject, Fresh, Shown, Listed, CaseAction, Reads, rows
<1> QED BY <1>1, <1>2, <1>4, Begins

LEMMA CreatesNote ==
  ASSUME IInv, NEW r \in Requests, NEW e \in Entries, NEW n \in Notes, create_note(r, e, n)
  PROVE  IInv'
<1> DEFINE x == [Idle EXCEPT !.op = "event_note_created", !.at = "note", !.seen = {e}, !.item = n,
                             !.account = Owner[entry[e].case], !.case = entry[e].case]
<1>0. entry[e].case \in Cases
  BY DEF create_note, cases
<1>1. /\ x \in Request /\ x.op = "event_note_created" /\ x.at = "note" /\ x.seen = {e} /\ x.item = n
      /\ x.account = Owner[entry[e].case] /\ x.case = entry[e].case /\ x.status = "unread"
  BY <1>0, OwnerTyped DEF Idle, Request, CaseAction, Reads
<1>2. /\ Begin(r, x) /\ entry[e] # None /\ note[n] = None /\ \A q \in Requests : req[q].item # n
  BY DEF create_note
<1> HIDE DEF x
<1>3. req'[r] = x /\ UNCHANGED rows
  BY <1>2, Facts DEF Begin
<1>4. Placed(r)' /\ Subject(r)' /\ Fresh(r)'
  BY <1>0, <1>1, <1>2, <1>3, OwnerTyped DEF Placed, Subject, Fresh, CaseAction, Reads, rows
<1>5. Shown(r)'
  <2>1. (e \in timeline(req[r].case))'
    BY <1>1, <1>2, <1>3 DEF timeline, rows
  <2> QED BY <1>1, <1>3, <2>1 DEF Shown, Listed
<1> QED BY <1>1, <1>2, <1>4, <1>5, Begins

LEMMA Deletes == ASSUME IInv, NEW r \in Requests, NEW a \in Accounts, delete_own_account(r, a) PROVE IInv'
<1> DEFINE x == [Idle EXCEPT !.op = "delete", !.at = "lock", !.account = a]
<1>1. /\ x \in Request /\ x.op = "delete" /\ x.at = "lock" /\ x.account = a /\ x.status = "unread"
  BY DEF Idle, Request
<1>2. Begin(r, x)
  BY DEF delete_own_account
<1> HIDE DEF x
<1>3. req'[r] = x /\ UNCHANGED rows
  BY <1>2, Facts DEF Begin
<1>4. Placed(r)' /\ Subject(r)' /\ Fresh(r)' /\ Shown(r)'
  BY <1>1, <1>3 DEF Placed, Subject, Fresh, Shown, Listed, CaseAction, Reads
<1> QED BY <1>1, <1>2, <1>4, Begins
-----------------------------------------------------------------------------
LEMMA PagesTyped ==
  ASSUME NEW q \in Request, NEW v \in {"none", "partial", "text"}
  PROVE  [q EXCEPT !.at = "audit", !.pages = v] \in Request
BY ZenonT(60) DEF Request

LEMMA SelectsPages == ASSUME IInv, NEW r \in Requests, SelectPages(r) PROVE IInv'
<1> DEFINE d == req[r].item
           p == IF d \notin documents THEN "none" ELSE IF ocr[d].text THEN "text" ELSE "partial"
           x == [req[r] EXCEPT !.at = "audit", !.pages = p]
<1>f. req[r] \in Request /\ Placed(r) /\ Subject(r) /\ Shown(r) /\ req \in [Requests -> Request]
  BY Facts
<1>a. req[r].at = "pages" /\ Goes(r, x)
  BY DEF SelectPages
<1>b. req[r].op = "document_read"
  BY <1>a, <1>f DEF Placed, Request, CaseAction, Reads
<1>p. p \in {"none", "partial", "text"}
  OBVIOUS
<1>q. p = "none" <=> d \notin documents
  OBVIOUS
<1>s. d \in documents /\ ocr[d].text => p = "text"
  OBVIOUS
<1> HIDE DEF p
<1>1. /\ x \in Request /\ x.op = req[r].op /\ x.account = req[r].account /\ x.case = req[r].case
      /\ x.item = d /\ x.status = req[r].status /\ x.at = "audit" /\ x.pages = p
  <2>1. x.at = "audit" /\ x.pages = p /\ x.op = req[r].op /\ x.account = req[r].account
    BY <1>f DEF Request
  <2>2. x.case = req[r].case /\ x.item = d /\ x.status = req[r].status
    BY <1>f DEF Request
  <2>3. req[r] \in Request
    BY <1>f
  <2>4. x \in Request
    BY <2>3, <1>p, PagesTyped
  <2> QED BY <2>1, <2>2, <2>4
<1> HIDE DEF x
<1>2. req'[r] = x /\ UNCHANGED rows
  BY <1>a, <1>f DEF Goes
<1>3. Placed(r)'
  BY <1>1, <1>2, <1>b DEF Placed
<1>4. req[r].account \in accounts => d \in documents
  BY <1>b, <1>f DEF Subject, documents, cases, CaseAction, Reads
<1>5. Shown(r)'
  BY <1>1, <1>2, <1>b, <1>4, <1>q, <1>s, <1>f DEF Shown, Listed, rows
<1> QED BY <1>1, <1>3, <1>5, <1>a, <1>b, GoesOn

LEMMA SelectsEvents == ASSUME IInv, NEW r \in Requests, SelectEvents(r) PROVE IInv'
<1> DEFINE x == [req[r] EXCEPT !.at = "citations", !.seen = timeline(req[r].case)]
<1>f. req[r] \in Request /\ Placed(r) /\ Subject(r) /\ Shown(r) /\ req \in [Requests -> Request]
  BY Facts
<1>a. req[r].at = "events" /\ Goes(r, x)
  BY DEF SelectEvents
<1>b. req[r].op = "event_list"
  BY <1>a, <1>f DEF Placed, Request, CaseAction, Reads
<1>1. /\ x \in Request /\ x.op = req[r].op /\ x.account = req[r].account /\ x.case = req[r].case
      /\ x.item = req[r].item /\ x.status = req[r].status /\ x.at = "citations"
      /\ x.seen = timeline(req[r].case) /\ x.known = req[r].known /\ x.seen \subseteq Entries
  <2>1. req[r] \in Request /\ timeline(req[r].case) \subseteq Entries
    BY <1>f DEF timeline
  <2>2. x \in Request /\ x.op = req[r].op /\ x.account = req[r].account /\ x.case = req[r].case
    BY <2>1, ZenonT(60) DEF Request
  <2>3. /\ x.item = req[r].item /\ x.status = req[r].status /\ x.at = "citations"
        /\ x.seen = timeline(req[r].case) /\ x.known = req[r].known
    BY <2>1 DEF Request
  <2> QED BY <2>1, <2>2, <2>3
<1> HIDE DEF x
<1>2. req'[r] = x /\ UNCHANGED rows
  BY <1>a, <1>f DEF Goes
<1>3. Placed(r)'
  BY <1>1, <1>2, <1>b DEF Placed
<1>5. Shown(r)'
  BY <1>1, <1>2, <1>b, <1>f DEF Shown, Listed, Chronology, timeline, NotesOf, rows
<1> QED BY <1>1, <1>3, <1>5, <1>a, <1>b, GoesOn

LEMMA SelectsCitations == ASSUME IInv, NEW r \in Requests, SelectCitations(r) PROVE IInv'
<1> DEFINE C == {e \in req[r].seen : entry[e] # None /\ entry[e].passage \in documents}
           x == [req[r] EXCEPT !.at = "notes", !.cited = C]
<1>f. /\ req[r] \in Request /\ Placed(r) /\ Subject(r) /\ Shown(r) /\ TypeOK
      /\ req \in [Requests -> Request]
  BY Facts
<1>a. req[r].at = "citations" /\ Goes(r, x)
  BY DEF SelectCitations
<1>b. req[r].op = "event_list"
  BY <1>a, <1>f DEF Placed, Request, CaseAction, Reads
<1>c. C \subseteq Entries
  BY <1>b, <1>f DEF Subject
<1>1. /\ x \in Request /\ x.op = req[r].op /\ x.account = req[r].account /\ x.case = req[r].case
      /\ x.item = req[r].item /\ x.status = req[r].status /\ x.at = "notes"
      /\ x.seen = req[r].seen /\ x.known = req[r].known /\ x.cited = C /\ x.seen \subseteq Entries
  BY <1>b, <1>f, <1>c DEF Request, Subject
<1> HIDE DEF x
<1>2. req'[r] = x /\ UNCHANGED rows
  BY <1>a, <1>f DEF Goes
<1>3. Placed(r)'
  BY <1>1, <1>2, <1>b DEF Placed
<1>4. req[r].account \in accounts =>
        \A e \in req[r].seen : e \in C <=> entry[e].passage # None
  <2> SUFFICES ASSUME req[r].account \in accounts, NEW e \in req[r].seen
               PROVE  e \in C <=> entry[e].passage # None
    OBVIOUS
  <2>1. /\ e \in Entries /\ entry[e] # None /\ entry[e].case = req[r].case
        /\ entry[e] \in CaseEvent
    BY <1>a, <1>b, <1>f DEF Shown, Listed, Chronology, timeline, TypeOK
  <2>2. entry[e].passage \in Documents => entry[e].passage \in documents
    BY <2>1, <1>f, NoneAssumption DEF TypeOK, documents
  <2> QED BY <2>1, <2>2, NoneAssumption DEF CaseEvent, documents
<1>5. Shown(r)'
  BY <1>1, <1>2, <1>b, <1>a, <1>4, <1>f DEF Shown, Listed, Chronology, timeline, NotesOf, rows
<1> QED BY <1>1, <1>3, <1>5, <1>a, <1>b, GoesOn

LEMMA SelectsNotes == ASSUME IInv, NEW r \in Requests, SelectNotes(r) PROVE IInv'
<1> DEFINE x == [req[r] EXCEPT !.at = "audit", !.notes = NotesOf(req[r].seen)]
<1>f. req[r] \in Request /\ Placed(r) /\ Subject(r) /\ Shown(r) /\ req \in [Requests -> Request]
  BY Facts
<1>a. req[r].at = "notes" /\ Goes(r, x)
  BY DEF SelectNotes
<1>b. req[r].op = "event_list"
  BY <1>a, <1>f DEF Placed, Request, CaseAction, Reads
<1>1. /\ x \in Request /\ x.op = req[r].op /\ x.account = req[r].account /\ x.case = req[r].case
      /\ x.item = req[r].item /\ x.status = req[r].status /\ x.at = "audit"
      /\ x.seen = req[r].seen /\ x.known = req[r].known /\ x.cited = req[r].cited
      /\ x.notes = NotesOf(req[r].seen) /\ x.seen \subseteq Entries
  BY <1>b, <1>f DEF Request, NotesOf, Subject
<1> HIDE DEF x
<1>2. req'[r] = x /\ UNCHANGED rows
  BY <1>a, <1>f DEF Goes
<1>3. Placed(r)'
  BY <1>1, <1>2, <1>b DEF Placed
<1>5. Shown(r)'
  BY <1>1, <1>2, <1>b, <1>a, <1>f DEF Shown, Listed, Chronology, timeline, NotesOf, rows
<1> QED BY <1>1, <1>3, <1>5, <1>a, <1>b, GoesOn
-----------------------------------------------------------------------------
\* Moving to `at` keeps everything else a request has.
LEMMA Moved ==
  ASSUME IInv, NEW r \in Requests, NEW s \in {"audit", "cascade", "return"}
  PROVE  LET x == [req[r] EXCEPT !.at = s] IN
         /\ x \in Request /\ x.at = s /\ x.op = req[r].op /\ x.account = req[r].account
         /\ x.case = req[r].case /\ x.item = req[r].item /\ x.known = req[r].known
         /\ x.seen = req[r].seen /\ x.cited = req[r].cited /\ x.notes = req[r].notes
         /\ x.status = req[r].status /\ x.pages = req[r].pages
BY Facts DEF Request

LEMMA Inserts ==
  ASSUME IInv, NEW r \in Requests, InsertEntry(r) \/ InsertNote(r)
  PROVE  IInv'
<1> DEFINE x == [req[r] EXCEPT !.at = "audit"]
<1>f. req[r] \in Request /\ Placed(r) /\ Subject(r) /\ Shown(r) /\ req \in [Requests -> Request]
  BY Facts
<1>a. req[r].at \in {"entry", "note"} /\ Goes(r, x)
  BY DEF InsertEntry, InsertNote
<1>b. req[r].op \in {"event_created", "event_note_created"}
  BY <1>a, <1>f DEF Placed, Request, CaseAction, Reads
<1>1. /\ x \in Request /\ x.op = req[r].op /\ x.account = req[r].account /\ x.case = req[r].case
      /\ x.item = req[r].item /\ x.status = req[r].status /\ x.at = "audit" /\ x.seen = req[r].seen
  BY Moved
<1> HIDE DEF x
<1>2. req'[r] = x /\ UNCHANGED rows
  BY <1>a, <1>f DEF Goes
<1>3. Placed(r)'
  BY <1>1, <1>2, <1>b DEF Placed
<1>5. Shown(r)'
  BY <1>1, <1>2, <1>b, <1>f DEF Shown, Listed, timeline, rows
<1> QED BY <1>1, <1>3, <1>5, <1>a, <1>b, GoesOn

LEMMA InsertsAudit == ASSUME IInv, NEW r \in Requests, InsertAudit(r) PROVE IInv'
<1> DEFINE x == [req[r] EXCEPT !.at = "return"]
<1>f. /\ req[r] \in Request /\ Placed(r) /\ Subject(r) /\ Shown(r) /\ Fresh(r)
      /\ req \in [Requests -> Request] /\ begun \in 0 .. MaxRequests /\ faults \in 0 .. MaxFaults
      /\ \A q \in Requests \ {r} : Apart(r, q) /\ Apart(q, r)
  BY Facts
<1>a. /\ req[r].at = "audit" /\ Goes(r, x) /\ Granted(r) /\ req[r].account \in accounts
  BY DEF InsertAudit, Referred
<1>b. req[r].op \in CaseAction
  BY <1>a, <1>f DEF Placed, Request
<1>1. /\ x \in Request /\ x.at = "return" /\ x.op = req[r].op /\ x.account = req[r].account
      /\ x.case = req[r].case /\ x.item = req[r].item /\ x.known = req[r].known
      /\ x.seen = req[r].seen /\ x.cited = req[r].cited /\ x.notes = req[r].notes
      /\ x.status = req[r].status /\ x.pages = req[r].pages
  BY Moved
<1> HIDE DEF x
<1>2. /\ req' = [req EXCEPT ![r] = x] /\ req'[r] = x /\ UNCHANGED <<rows, begun, faults>>
      /\ \A q \in Requests \ {r} : req'[q] = req[q]
  BY <1>a, <1>f DEF Goes
<1>3. Placed(r)' /\ Subject(r)' /\ Fresh(r)' /\ Held(r)'
  BY <1>1, <1>2, <1>a, <1>b, <1>f DEF Placed, Subject, Fresh, Held, CaseAction, Reads, rows
<1>4. Shown(r)'
  BY <1>1, <1>2, <1>a, <1>b, <1>f DEF Shown, Listed, Chronology, timeline, NotesOf, rows
<1>5. ASSUME NEW q \in Requests \ {r} PROVE Apart(r, q)' /\ Apart(q, r)'
  <2>1. ~ TakesAccount(q, req[r].account)
    BY <1>a DEF Granted, WaitsFor
  <2>2. ~ TakesAccount(r, req[q].account)'
    BY <1>1, <1>2, <1>b DEF TakesAccount, CaseAction, Reads
  <2> QED BY <2>1, <2>2, <1>1, <1>2, <1>f, <1>5 DEF Apart, TakesAccount, rows
<1> QED BY <1>1, <1>2, <1>3, <1>4, <1>5, <1>f, Quiet DEF Good

LEMMA Ended ==
  ASSUME IInv, NEW r \in Requests, InsertRefused(r) \/ Fail(r) \/ BreakDeadlock(r)
  PROVE  IInv'
<1>1. faults \in 0 .. MaxFaults
  BY Facts
<1>2. End(r) /\ UNCHANGED rows /\ faults' \in 0 .. MaxFaults
  BY <1>1, BoundsAssumption DEF InsertRefused, Fail, BreakDeadlock
<1> QED BY <1>2, Ends

LEMMA Waits ==
  ASSUME IInv, NEW r \in Requests, DeleteAccount(r) \/ DeleteCascade(r)
  PROVE  IInv'
<1>0. PICK s \in {"cascade", "return"} :
         /\ Goes(r, [req[r] EXCEPT !.at = s])
         /\ \/ req[r].at = "lock" /\ Granted(r)
            \/ req[r].at = "cascade"
  BY DEF DeleteAccount, DeleteCascade
<1> DEFINE x == [req[r] EXCEPT !.at = s]
<1>f. /\ req[r] \in Request /\ Placed(r) /\ Subject(r)
      /\ req \in [Requests -> Request] /\ begun \in 0 .. MaxRequests /\ faults \in 0 .. MaxFaults
      /\ \A q \in Requests \ {r} : Apart(r, q) /\ Apart(q, r)
  BY Facts
<1>b. req[r].op = "delete"
  BY <1>0, <1>f DEF Placed, Request, CaseAction, Reads
<1>1. /\ x \in Request /\ x.at = s /\ x.op = "delete" /\ x.account = req[r].account
      /\ x.status = req[r].status
  BY <1>b, Moved
<1> HIDE DEF x
<1>2. /\ req' = [req EXCEPT ![r] = x] /\ req'[r] = x /\ UNCHANGED <<rows, begun, faults>>
      /\ \A q \in Requests \ {r} : req'[q] = req[q]
  BY <1>0, <1>f DEF Goes, x
<1>3. Placed(r)' /\ Subject(r)' /\ Fresh(r)' /\ Held(r)' /\ Shown(r)'
  BY <1>1, <1>2, <1>b, <1>f DEF Placed, Subject, Fresh, Held, Shown, Listed, CaseAction, Reads
<1>5. ASSUME NEW q \in Requests \ {r} PROVE Apart(r, q)' /\ Apart(q, r)'
  <2>1. Apart(r, q)'
    BY <1>1, <1>2, <1>5 DEF Apart
  <2>2. ASSUME req[q].at = "return", req[q].op # "delete", req[q].account = req[r].account,
               req[r].account \in accounts
        PROVE  FALSE
    <3>1. CASE req[r].at = "lock"
      BY <3>1, <2>2, <1>0 DEF Granted, WaitsFor, SharesAccount
    <3>2. CASE req[r].at = "cascade"
      BY <3>2, <2>2, <1>b, <1>f, <1>5 DEF Apart, TakesAccount
    <3> QED BY <3>1, <3>2, <1>0
  <2>3. Apart(q, r)'
    BY <2>2, <1>1, <1>2, <1>5 DEF Apart, TakesAccount, rows
  <2> QED BY <2>1, <2>3
<1> QED BY <1>1, <1>2, <1>3, <1>5, <1>f, Quiet DEF Good
-----------------------------------------------------------------------------
\* Rows of accounts that remain are left as they are; others may be added.
Extends ==
    /\ accounts' \subseteq accounts
    /\ \A e \in Entries : entry[e] # None /\ Owner[entry[e].case] \in accounts' => entry'[e] = entry[e]
    /\ \A n \in Notes : note[n] # None /\ Owner[entry[note[n].event].case] \in accounts'
                           => note'[n] = note[n]
    /\ \A d \in Documents : ocr[d].text => ocr'[d].text

\* What another request has read then still holds.
LEMMA StillShown ==
  ASSUME IInv, Extends, NEW q \in Requests, req'[q] = req[q]
  PROVE  Shown(q)'
<1>f. TypeOK /\ Subject(q) /\ Shown(q) /\ req[q] \in Request
  BY Facts
<1>1. ASSUME NEW c \in Cases, Owner[c] \in accounts' PROVE timeline(c) \subseteq timeline(c)'
  <2> SUFFICES ASSUME NEW e \in timeline(c) PROVE e \in timeline(c)'
    OBVIOUS
  <2>1. e \in Entries /\ entry[e] # None /\ entry[e].case = c
    BY DEF timeline
  <2>2. entry'[e] = entry[e]
    BY <2>1, <1>1 DEF Extends
  <2> QED BY <2>1, <2>2 DEF timeline
<1>2. ASSUME NEW c \in Cases, Owner[c] \in accounts', NEW S, S \subseteq timeline(c)
      PROVE  NotesOf(S) \subseteq NotesOf(S)'
  <2> SUFFICES ASSUME NEW n \in NotesOf(S) PROVE n \in NotesOf(S)'
    OBVIOUS
  <2>1. n \in Notes /\ note[n] # None /\ note[n].event \in S /\ entry[note[n].event].case = c
    BY <1>2 DEF NotesOf, timeline
  <2>2. note'[n] = note[n]
    BY <2>1, <1>2 DEF Extends
  <2> QED BY <2>1, <2>2 DEF NotesOf
<1>3. ASSUME req[q].account \in accounts' PROVE Listed(q)'
  <2> DEFINE c == req[q].case
  <2>0. Listed(q)
    BY <1>3, <1>f DEF Shown, Extends
  <2>1. req[q].op \in {"event_list", "event_note_created"} => c \in Cases /\ Owner[c] \in accounts'
    BY <1>3, <1>f DEF Subject, CaseAction, Reads
  <2>2. req[q].op = "event_list" => Chronology(q)'
    <3> SUFFICES ASSUME req[q].op = "event_list" PROVE Chronology(q)'
      OBVIOUS
    <3>1. Chronology(q) /\ c \in Cases /\ Owner[c] \in accounts'
      BY <2>0, <2>1 DEF Listed
    <3>2. \A e \in timeline(c) : (e \in timeline(req[q].case))'
      BY <3>1, <1>1
    <3>5. \A n \in NotesOf(timeline(c)) : (n \in NotesOf(timeline(req[q].case)))'
      <4>1. \A n \in NotesOf(timeline(c)) : note'[n] = note[n]
        BY <3>1 DEF Extends, NotesOf, timeline
      <4> QED BY <4>1, <3>2 DEF NotesOf
    <3>3. (req[q].known \subseteq timeline(req[q].case) \cup NotesOf(timeline(req[q].case)))'
      BY <3>1, <3>2, <3>5 DEF Chronology
    <3>4. ASSUME req[q].seen \subseteq timeline(c)
          PROVE  /\ NotesOf(req[q].seen) \subseteq NotesOf(req[q].seen)'
                 /\ \A e \in req[q].seen : entry'[e] = entry[e]
      BY <3>4, <3>1, <1>2 DEF timeline, Extends
    <3>6. (req[q].at \in {"citations", "notes", "audit", "return"} =>
             /\ req[q].seen \subseteq timeline(req[q].case)
             /\ req[q].known \subseteq req[q].seen \cup NotesOf(req[q].seen))'
      BY <3>1, <3>2, <3>4 DEF Chronology
    <3>7. (req[q].at \in {"notes", "audit", "return"} =>
             \A x \in req[q].seen : x \in req[q].cited <=> entry[x].passage # None)'
      BY <3>1, <3>4 DEF Chronology
    <3>8. (req[q].at \in {"audit", "return"} =>
             /\ req[q].notes \subseteq NotesOf(req[q].seen)
             /\ req[q].known \subseteq req[q].seen \cup req[q].notes)'
      BY <3>1, <3>4 DEF Chronology
    <3> QED BY <3>3, <3>6, <3>7, <3>8 DEF Chronology
  <2>3. req[q].op = "event_note_created" => (\E e \in timeline(req[q].case) : req[q].seen = {e})'
    BY <2>0, <2>1, <1>1 DEF Listed
  <2> QED BY <2>0, <2>2, <2>3 DEF Listed
<1>4. req[q].op = "document_read" /\ req[q].status = "complete" => ocr'[req[q].item].text
  BY <1>f DEF Shown, Subject, Extends
<1> QED BY <1>3, <1>4 DEF Shown
\* A step that writes rows and ends at most the request that wrote them.
LEMMA Writes ==
  ASSUME IInv, Extends, TypeOK', Read',
         \A q \in Requests : req'[q] \in {req[q], Idle},
         \A q \in Requests : req'[q] = req[q] /\ req[q].at = "return" /\ req[q].op \in CaseAction
                               => req[q].account \in accounts',
         \A q \in Requests : req'[q] = req[q] => Fresh(q)'
  PROVE  IInv'
<1>1. ASSUME NEW q \in Requests PROVE Good(q)'
  <2>1. CASE req'[q] = req[q]
    <3>1. Good(q)
      BY DEF IInv
    <3>2. Placed(q)' /\ Subject(q)' /\ Held(q)'
      BY <2>1, <3>1 DEF Good, Placed, Subject, Held
    <3> QED BY <2>1, <3>2, StillShown DEF Good
  <2>2. CASE req'[q] = Idle
    BY <2>2, IdleTyped DEF Good, Placed, Subject, Held, Shown, Listed, Fresh, CaseAction, Reads
  <2> QED BY <2>1, <2>2
<1>2. ASSUME NEW p \in Requests, NEW q \in Requests, p # q PROVE Apart(p, q)'
  <2>1. Apart(p, q) /\ accounts' \subseteq accounts
    BY <1>2 DEF IInv, Extends
  <2>2. CASE req'[p] = req[p] /\ req'[q] = req[q]
    BY <2>1, <2>2 DEF Apart, TakesAccount
  <2>3. CASE req'[p] = Idle \/ req'[q] = Idle
    BY <2>3, IdleTyped DEF Apart, TakesAccount
  <2> QED BY <2>2, <2>3
<1> QED BY <1>1, <1>2 DEF IInv

\* The audit row that a request commits.
LEMMA AuditRowTyped ==
  ASSUME IInv, NEW r \in Requests, req[r].at = "return", req[r].op \in CaseAction
  PROVE  /\ AuditRow(r) \in CaseAuditEvent
         /\ AuditRow(r).actor \in accounts \cup {None} /\ AuditRow(r).case \in cases \cup {None}
         /\ AuditRow(r).id = r /\ AuditRow(r).action = req[r].op /\ AuditRow(r).case = req[r].case
<1>f. req[r] \in Request /\ Subject(r) /\ Held(r) /\ Shown(r) /\ TypeOK
  BY Facts
<1>1. Detail(r) \in Nat
  <2>1. CASE req[r].op \in {"case_list", "document_list", "event_list"}
    <3>1. req[r].account \in accounts /\ Listed(r)
      BY <1>f DEF Held, Shown
    <3>2. \/ req[r].seen \subseteq Cases \/ req[r].seen \subseteq Documents
          \/ req[r].seen \subseteq Entries
      BY <2>1, <3>1, <1>f DEF Listed, Subject
    <3>3. IsFiniteSet(req[r].seen)
      BY <3>2, FiniteAssumption, FS_Subset
    <3> QED BY <3>3, FS_CardinalityType DEF Detail
  <2>2. CASE req[r].op \notin {"case_list", "document_list", "event_list"}
    BY <2>2 DEF Detail
  <2> QED BY <2>1, <2>2
<1>2. req[r].account \in accounts /\ req[r].account \in Accounts
  BY <1>f DEF Held, TypeOK
<1>3. req[r].case \in cases \cup {None}
  BY <1>2, <1>f DEF Subject, cases
<1> QED BY <1>1, <1>2, <1>3, <1>f DEF AuditRow, CaseAuditEvent, cases

\* What a commit has in common, whatever it writes.
LEMMA Committed ==
  ASSUME IInv, NEW r \in Requests, Commit(r)
  PROVE  /\ accounts' = accounts /\ ocr' = ocr /\ faults' = faults /\ begun' = begun
         /\ req' \in [Requests -> Request] /\ \A q \in Requests : req'[q] \in {req[q], Idle}
         /\ req'[r] = Idle /\ \A q \in Requests \ {r} : req'[q] = req[q]
         /\ trail' \subseteq CaseAuditEvent
         /\ \A t \in trail' : t.actor \in accounts \cup {None} /\ t.case \in cases \cup {None}
         /\ req[r].account \in accounts /\ Idle # req[r]
<1>1. TypeOK /\ Held(r)
  BY Facts
<1>2. /\ req[r].at = "return" /\ req[r].op \in CaseAction /\ trail' = trail \cup {AuditRow(r)}
      /\ req' = [req EXCEPT ![r] = Idle]
  BY DEF Commit, End
<1> QED BY <1>1, <1>2, IdleTyped, AuditRowTyped DEF TypeOK, Commit, End, Held

LEMMA CommitsRead == ASSUME IInv, NEW r \in Requests, CommitRead(r) PROVE IInv'
<1>1. Commit(r) /\ entry' = entry /\ note' = note
  BY DEF CommitRead
<1>2. TypeOK' /\ Read' /\ Extends
  BY <1>1, Committed, Facts DEF TypeOK, Read, Extends, cases
<1>3. ASSUME NEW q \in Requests, req'[q] = req[q]
      PROVE  Fresh(q)' /\ (req[q].at = "return" /\ req[q].op \in CaseAction => req[q].account \in accounts')
  BY <1>1, <1>3, Committed, Facts DEF Fresh, Held
<1> QED BY <1>1, <1>2, <1>3, Committed, Writes

LEMMA CommitsEntry == ASSUME IInv, NEW r \in Requests, CommitEntry(r) PROVE IInv'
<1> DEFINE i == req[r].item
           c == req[r].case
           x == [case |-> c, passage |-> None, author |-> req[r].account]
<1>1. /\ Commit(r) /\ req[r].op = "event_created" /\ note' = note
      /\ entry' = [entry EXCEPT ![i] = x]
  BY DEF CommitEntry
<1>f. /\ TypeOK /\ Read /\ Subject(r) /\ Fresh(r) /\ accounts' = accounts /\ ocr' = ocr
      /\ req[r].account \in accounts /\ faults' = faults /\ begun' = begun
  BY <1>1, Committed, Facts
<1>2. /\ c \in Cases /\ Owner[c] = req[r].account /\ i \in Entries /\ entry[i] = None
  BY <1>1, <1>f DEF Subject, Fresh, CaseAction, Reads
<1>3. x \in CaseEvent /\ x # None /\ x.case = c /\ x.passage = None /\ x.author = Owner[c]
      /\ c \in cases
  BY <1>2, <1>f, NoneAssumption, RowsNotNone DEF CaseEvent, TypeOK, cases
<1> HIDE DEF x
<1>4. /\ entry' \in [Entries -> CaseEvent \cup {None}] /\ entry'[i] = x
      /\ \A e \in Entries \ {i} : entry'[e] = entry[e]
  BY <1>1, <1>2, <1>3, <1>f DEF TypeOK
<1>5. TypeOK'
  <2>1. (\A e \in Entries : entry[e] # None =>
          /\ entry[e].case \in cases
          /\ entry[e].passage # None => CaseOf[entry[e].passage] = entry[e].case
          /\ entry[e].author # None => entry[e].author = Owner[entry[e].case])'
    BY <1>3, <1>4, <1>f DEF TypeOK, cases
  <2>2. (\A n \in Notes : note[n] # None =>
          /\ entry[note[n].event] # None
          /\ note[n].author = Owner[entry[note[n].event].case])'
    <3>1. \A n \in Notes : note[n] # None => note[n].event \in Entries \ {i}
      BY <1>2, <1>f DEF TypeOK, CaseEventNote
    <3> QED BY <3>1, <1>1, <1>4, <1>f DEF TypeOK
  <2> QED BY <2>1, <2>2, <1>1, <1>4, <1>f, Committed DEF TypeOK, cases
<1>6. Read' /\ Extends
  BY <1>1, <1>2, <1>4, <1>f DEF Read, Extends
<1>7. ASSUME NEW q \in Requests, req'[q] = req[q]
      PROVE  Fresh(q)' /\ (req[q].at = "return" /\ req[q].op \in CaseAction => req[q].account \in accounts')
  <2>1. q # r
    BY <1>1, <1>7, Committed
  <2>2. req[q].op = "event_created" => req[q].item # i /\ req[q].item \in Entries
    BY <2>1, <1>1, Facts DEF Apart, Subject
  <2>3. Fresh(q) /\ Held(q)
    BY Facts
  <2> QED BY <2>2, <2>3, <1>1, <1>4, <1>7, <1>f DEF Fresh, Held
<1> QED BY <1>1, <1>5, <1>6, <1>7, Committed, Writes

LEMMA CommitsNote == ASSUME IInv, NEW r \in Requests, CommitNote(r) PROVE IInv'
<1> DEFINE i == req[r].item
           c == req[r].case
           w == CHOOSE y \in req[r].seen : TRUE
<1>1. /\ Commit(r) /\ req[r].op = "event_note_created" /\ entry' = entry
      /\ note' = [note EXCEPT ![i] = [event |-> w, author |-> req[r].account]]
  BY DEF CommitNote
<1>f. /\ TypeOK /\ Read /\ Subject(r) /\ Fresh(r) /\ Shown(r) /\ accounts' = accounts /\ ocr' = ocr
      /\ req[r].account \in accounts /\ faults' = faults /\ begun' = begun
  BY <1>1, Committed, Facts
<1>2. c \in Cases /\ Owner[c] = req[r].account /\ i \in Notes /\ note[i] = None
  BY <1>1, <1>f DEF Subject, Fresh, CaseAction, Reads
<1>3. PICK e \in timeline(c) : req[r].seen = {e}
  BY <1>1, <1>f DEF Shown, Listed
<1>4. e \in Entries /\ entry[e] # None /\ entry[e].case = c
  BY <1>3 DEF timeline
<1>w. w = e
  BY <1>3
<1> HIDE DEF w
<1> DEFINE x == [event |-> e, author |-> req[r].account]
<1>5. x \in CaseEventNote /\ x # None /\ x.event = e /\ x.author = Owner[c] /\ note' = [note EXCEPT ![i] = x]
  BY <1>1, <1>2, <1>4, <1>w, <1>f, RowsNotNone DEF CaseEventNote, TypeOK
<1> HIDE DEF x
<1>6. /\ note' \in [Notes -> CaseEventNote \cup {None}] /\ note'[i] = x
      /\ \A n \in Notes \ {i} : note'[n] = note[n]
  BY <1>2, <1>5, <1>f DEF TypeOK
<1>7. TypeOK'
  <2>1. (\A n \in Notes : note[n] # None =>
          /\ entry[note[n].event] # None
          /\ note[n].author = Owner[entry[note[n].event].case])'
    <3>1. ASSUME NEW n \in Notes, note'[n] # None
          PROVE  /\ entry[note'[n].event] # None
                 /\ note'[n].author = Owner[entry[note'[n].event].case]
      <4>1. CASE n = i
        BY <4>1, <1>4, <1>5, <1>6
      <4>2. CASE n # i
        BY <4>2, <3>1, <1>6, <1>f DEF TypeOK
      <4> QED BY <4>1, <4>2
    <3> QED BY <3>1, <1>1
  <2> QED BY <2>1, <1>1, <1>6, <1>f, Committed DEF TypeOK, cases
<1>8. Read' /\ Extends
  BY <1>1, <1>2, <1>6, <1>f DEF Read, Extends
<1>9. ASSUME NEW q \in Requests, req'[q] = req[q]
      PROVE  Fresh(q)' /\ (req[q].at = "return" /\ req[q].op \in CaseAction => req[q].account \in accounts')
  <2>1. q # r
    BY <1>1, <1>9, Committed
  <2>2. req[q].op = "event_note_created" => req[q].item # i /\ req[q].item \in Notes
    BY <2>1, <1>1, Facts DEF Apart, Subject
  <2>3. Fresh(q) /\ Held(q)
    BY Facts
  <2> QED BY <2>2, <2>3, <1>1, <1>6, <1>9, <1>f DEF Fresh, Held
<1> QED BY <1>1, <1>7, <1>8, <1>9, Committed, Writes

LEMMA CommitsDelete == ASSUME IInv, NEW r \in Requests, CommitDelete(r) PROVE IInv'
<1> DEFINE a == req[r].account
           Gone(e) == entry[e] # None /\ Owner[entry[e].case] = a
           Off(t) == [t EXCEPT !.actor = IF t.actor = a THEN None ELSE @,
                               !.case = IF t.case # None /\ Owner[t.case] = a THEN None ELSE @]
<1>1. /\ req[r].op = "delete" /\ req[r].at = "return" /\ accounts' = accounts \ {a}
      /\ entry' = [e \in Entries |-> IF Gone(e) THEN None ELSE entry[e]]
      /\ note' = [n \in Notes |-> IF note[n] # None /\ Gone(note[n].event) THEN None ELSE note[n]]
      /\ trail' = {Off(t) : t \in trail}
      /\ req' = [req EXCEPT ![r] = Idle] /\ begun' = begun /\ ocr' = ocr /\ faults' = faults
  BY DEF CommitDelete, End
<1>f. TypeOK /\ Read /\ req \in [Requests -> Request]
  BY Facts
<1>2. ASSUME NEW e \in Entries
      PROVE  entry'[e] # None => entry'[e] = entry[e] /\ entry[e].case \in cases'
  BY <1>1, <1>f DEF TypeOK, cases
<1>3. ASSUME NEW n \in Notes, note'[n] # None
      PROVE  /\ note'[n] = note[n] /\ note[n].event \in Entries
             /\ entry'[note[n].event] = entry[note[n].event] /\ entry[note[n].event] # None
  BY <1>1, <1>3, <1>f DEF TypeOK, CaseEventNote
<1>4. ASSUME NEW t \in trail
      PROVE  /\ Off(t) \in CaseAuditEvent /\ Off(t).actor \in accounts' \cup {None}
             /\ Off(t).case \in cases' \cup {None}
  <2>1. t \in CaseAuditEvent /\ t.actor \in accounts \cup {None} /\ t.case \in cases \cup {None}
    BY <1>f DEF TypeOK
  <2>2. /\ Off(t) \in CaseAuditEvent
        /\ Off(t).actor = IF t.actor = a THEN None ELSE t.actor
        /\ Off(t).case = IF t.case # None /\ Owner[t.case] = a THEN None ELSE t.case
    BY <2>1 DEF CaseAuditEvent
  <2> HIDE DEF Off
  <2>3. Off(t).actor \in accounts' \cup {None}
    BY <2>1, <2>2, <1>1
  <2>4. Off(t).case \in cases' \cup {None}
    BY <2>1, <2>2, <1>1 DEF cases
  <2> QED BY <2>2, <2>3, <2>4
<1>5. TypeOK'
  <2>1. entry' \in [Entries -> CaseEvent \cup {None}] /\ note' \in [Notes -> CaseEventNote \cup {None}]
    BY <1>1, <1>f DEF TypeOK
  <2>2. (\A e \in Entries : entry[e] # None =>
          /\ entry[e].case \in cases
          /\ entry[e].passage # None => CaseOf[entry[e].passage] = entry[e].case
          /\ entry[e].author # None => entry[e].author = Owner[entry[e].case])'
    BY <1>2, <1>f DEF TypeOK
  <2>3. (\A n \in Notes : note[n] # None =>
          /\ entry[note[n].event] # None
          /\ note[n].author = Owner[entry[note[n].event].case])'
    BY <1>3, <1>f DEF TypeOK
  <2>4. /\ trail' \subseteq CaseAuditEvent
        /\ \A t \in trail' : t.actor \in accounts' \cup {None} /\ t.case \in cases' \cup {None}
    BY <1>1, <1>4
  <2>5. req' \in [Requests -> Request]
    BY <1>1, <1>f, IdleTyped
  <2> QED BY <2>1, <2>2, <2>3, <2>4, <2>5, <1>1, <1>f DEF TypeOK
<1>6. Read' /\ Extends
  BY <1>1, <1>f DEF Read, Extends, TypeOK, CaseEventNote
<1>7. ASSUME NEW q \in Requests PROVE req'[q] \in {req[q], Idle}
  BY <1>1, <1>f
<1>8. ASSUME NEW q \in Requests, req'[q] = req[q]
      PROVE  Fresh(q)' /\ (req[q].at = "return" /\ req[q].op \in CaseAction => req[q].account \in accounts')
  <2>1. Fresh(q) /\ Held(q) /\ Subject(q)
    BY Facts
  <2>2. Fresh(q)'
    BY <2>1, <1>1, <1>8 DEF Fresh, Subject
  <2>3. req[q].at = "return" /\ req[q].op \in CaseAction => ~ TakesAccount(r, req[q].account)
    <3>1. req[q].op \in CaseAction => q # r /\ req[q].op # "delete"
      BY <1>1 DEF CaseAction, Reads
    <3> QED BY <3>1, Facts DEF Apart
  <2> QED BY <2>1, <2>2, <2>3, <1>1 DEF Held, TakesAccount
<1> QED BY <1>5, <1>6, <1>7, <1>8, Writes

LEMMA ReadsText == ASSUME IInv, NEW d \in Documents, Ocr(d) PROVE IInv'
<1>f. TypeOK /\ Read /\ ocr[d] \in [status : OcrStatus, text : BOOLEAN]
  BY DEF IInv, TypeOK
<1>1. /\ accounts' = accounts /\ entry' = entry /\ note' = note /\ trail' = trail
      /\ req' = req /\ begun' = begun /\ faults' = faults
  BY DEF Ocr
<1>2. PICK y \in [status : OcrStatus, text : BOOLEAN] :
         /\ ocr' = [ocr EXCEPT ![d] = y]
         /\ ocr[d].text => y.text
         /\ y.status = "complete" => y.text
  <2>1. CASE ocr' = [ocr EXCEPT ![d] = [status |-> "complete", text |-> TRUE]]
    <3> DEFINE y == [status |-> "complete", text |-> TRUE]
    <3>1. y \in [status : OcrStatus, text : BOOLEAN] /\ y.text
      BY DEF OcrStatus
    <3> QED BY <2>1, <3>1
  <2>2. ASSUME NEW s \in {"needs_ocr", "processing"}, ocr' = [ocr EXCEPT ![d].status = s]
        PROVE  \E y \in [status : OcrStatus, text : BOOLEAN] :
                 /\ ocr' = [ocr EXCEPT ![d] = y]
                 /\ ocr[d].text => y.text
                 /\ y.status = "complete" => y.text
    <3> DEFINE y == [ocr[d] EXCEPT !.status = s]
    <3>1. y \in [status : OcrStatus, text : BOOLEAN] /\ y.text = ocr[d].text /\ y.status = s
      BY <1>f DEF OcrStatus
    <3>2. ocr' = [ocr EXCEPT ![d] = y]
      BY <2>2
    <3> HIDE DEF y
    <3> QED BY <3>1, <3>2
  <2> QED BY <2>1, <2>2 DEF Ocr
<1>3. TypeOK' /\ Read' /\ Extends
  BY <1>1, <1>2, <1>f DEF TypeOK, Read, Extends, cases
<1>4. ASSUME NEW q \in Requests
      PROVE  Fresh(q)' /\ (req[q].at = "return" /\ req[q].op \in CaseAction => req[q].account \in accounts')
  BY <1>1, Facts DEF Fresh, Held
<1> QED BY <1>1, <1>3, <1>4, Writes

LEMMA Extracts == ASSUME IInv, NEW d \in Documents, NEW i \in Entries, Extract(d, i) PROVE IInv'
<1> DEFINE x == [case |-> CaseOf[d], passage |-> d, author |-> None]
<1>1. /\ accounts' = accounts /\ ocr' = ocr /\ note' = note /\ trail' = trail
      /\ req' = req /\ begun' = begun /\ faults' = faults
      /\ d \in documents /\ entry[i] = None /\ entry' = [entry EXCEPT ![i] = x]
      /\ \A q \in Requests : req[q].item # i
  BY DEF Extract, Writable
<1>f. TypeOK /\ Read
  BY DEF IInv
<1>3. /\ x \in CaseEvent /\ x # None /\ x.case = CaseOf[d] /\ x.passage = d /\ x.author = None
      /\ x.case \in cases
  BY <1>1, NoneAssumption, RowsNotNone, OwnerTyped DEF CaseEvent, documents
<1> HIDE DEF x
<1>4. /\ entry' \in [Entries -> CaseEvent \cup {None}] /\ entry'[i] = x
      /\ \A e \in Entries \ {i} : entry'[e] = entry[e]
  BY <1>1, <1>3, <1>f DEF TypeOK
<1>5. TypeOK'
  <2>1. (\A e \in Entries : entry[e] # None =>
          /\ entry[e].case \in cases
          /\ entry[e].passage # None => CaseOf[entry[e].passage] = entry[e].case
          /\ entry[e].author # None => entry[e].author = Owner[entry[e].case])'
    BY <1>1, <1>3, <1>4, <1>f DEF TypeOK, cases
  <2>2. (\A n \in Notes : note[n] # None =>
          /\ entry[note[n].event] # None
          /\ note[n].author = Owner[entry[note[n].event].case])'
    <3>1. \A n \in Notes : note[n] # None => note[n].event \in Entries \ {i}
      BY <1>1, <1>f DEF TypeOK, CaseEventNote
    <3> QED BY <3>1, <1>1, <1>4, <1>f DEF TypeOK
  <2> QED BY <2>1, <2>2, <1>1, <1>4, <1>f DEF TypeOK, cases
<1>6. Read' /\ Extends
  BY <1>1, <1>4, <1>f DEF Read, Extends
<1>7. ASSUME NEW q \in Requests
      PROVE  Fresh(q)' /\ (req[q].at = "return" /\ req[q].op \in CaseAction => req[q].account \in accounts')
  BY <1>1, <1>4, Facts DEF Fresh, Held, Subject
<1> QED BY <1>1, <1>5, <1>6, <1>7, Writes
-----------------------------------------------------------------------------
LEMMA InitInv == Init => IInv
<1> SUFFICES ASSUME Init PROVE IInv
  OBVIOUS
<1>1. ocr \in [Documents -> [status : OcrStatus, text : BOOLEAN]] /\ Read
  <2>1. /\ [status |-> "needs_ocr", text |-> FALSE] \in [status : OcrStatus, text : BOOLEAN]
        /\ [status |-> "complete", text |-> TRUE] \in [status : OcrStatus, text : BOOLEAN]
    BY DEF OcrStatus
  <2> DEFINE S == {[status |-> "needs_ocr", text |-> FALSE], [status |-> "complete", text |-> TRUE]}
  <2>2. /\ S \subseteq [status : OcrStatus, text : BOOLEAN]
        /\ \A y \in S : y.status = "complete" => y.text
    BY <2>1
  <2>3. ocr \in [Documents -> S]
    BY DEF Init
  <2> HIDE DEF S
  <2> QED BY <2>2, <2>3 DEF Read
<1>2. TypeOK
  BY <1>1, IdleTyped, BoundsAssumption DEF Init, TypeOK
<1>3. ASSUME NEW r \in Requests PROVE Good(r)
  BY IdleTyped DEF Init, Good, Placed, Subject, Held, Shown, Listed, Fresh, CaseAction, Reads
<1>4. ASSUME NEW r \in Requests, NEW q \in Requests PROVE Apart(r, q)
  BY IdleTyped DEF Init, Apart
<1> QED BY <1>1, <1>2, <1>3, <1>4 DEF IInv

LEMMA StepInv == IInv /\ [Next]_vars => IInv'
<1> SUFFICES ASSUME IInv, [Next]_vars PROVE IInv'
  OBVIOUS
<1>1. CASE UNCHANGED vars
  <2>1. /\ accounts' = accounts /\ ocr' = ocr /\ entry' = entry /\ note' = note /\ trail' = trail
        /\ req' = req /\ begun' = begun /\ faults' = faults
    BY <1>1 DEF vars, rows
  <2>2. TypeOK' /\ Read' /\ Extends
    BY <2>1, <1>1 DEF IInv, TypeOK, Read, Extends, cases
  <2>3. ASSUME NEW q \in Requests
        PROVE  Fresh(q)' /\ (req[q].at = "return" /\ req[q].op \in CaseAction => req[q].account \in accounts')
    BY <2>1, Facts DEF Fresh, Held
  <2> QED BY <2>1, <2>2, <2>3, Writes
<1>2. ASSUME NEW r \in Requests, Start(r) PROVE IInv'
  <2>1. CASE \E a \in Accounts : list_cases(r, a) \/ delete_own_account(r, a)
    BY <2>1, ListsCases, Deletes
  <2>2. CASE \E c \in Cases : read_case(r, c) \/ list_documents(r, c) \/ list_events(r, c)
    BY <2>2, ReadsCase, ListsDocuments, ListsEvents
  <2>3. CASE \E d \in Documents : read_document(r, d)
    BY <2>3, ReadsDocument
  <2>4. CASE \E c \in Cases, e \in Entries : create_event(r, c, e)
    BY <2>4, CreatesEvent
  <2>5. CASE \E e \in Entries, n \in Notes : create_note(r, e, n)
    BY <2>5, CreatesNote
  <2> QED BY <1>2, <2>1, <2>2, <2>3, <2>4, <2>5 DEF Start
<1>3. ASSUME NEW r \in Requests, Go(r) PROVE IInv'
  <2>1. CASE SelectPages(r) \/ SelectEvents(r) \/ SelectCitations(r) \/ SelectNotes(r)
    BY <2>1, SelectsPages, SelectsEvents, SelectsCitations, SelectsNotes
  <2>2. CASE InsertEntry(r) \/ InsertNote(r) \/ InsertAudit(r) \/ InsertRefused(r)
    BY <2>2, Inserts, InsertsAudit, Ended
  <2>3. CASE CommitRead(r) \/ CommitEntry(r) \/ CommitNote(r)
    BY <2>3, CommitsRead, CommitsEntry, CommitsNote
  <2>4. CASE DeleteAccount(r) \/ DeleteCascade(r) \/ CommitDelete(r)
    BY <2>4, Waits, CommitsDelete
  <2> QED BY <1>3, <2>1, <2>2, <2>3, <2>4 DEF Go
<1>4. CASE Environment
  BY <1>4, ReadsText, Extracts DEF Environment
<1> QED BY <1>1, <1>2, <1>3, <1>4, Ended DEF Next

\* Every state that can be reached has the invariant.
THEOREM Inductive == Spec => []IInv
BY InitInv, StepInv, PTL DEF Spec

\* Every variable keeps its type, every entry and note is on a case on record and by its
\* owner, no audit row names what is gone (models/event.py, models/audit.py).
THEOREM TypeCorrect == Spec => []TypeOK
<1>1. IInv => TypeOK
  BY DEF IInv
<1> QED BY <1>1, Inductive, PTL

\* An answer about to be given holds, is complete and cites its documents, whatever was
\* committed between its SELECTs (api/events.py:143-172, api/cases.py:216-315).
THEOREM AnswersTrue == Spec => []AnswersHold
<1>1. IInv => AnswersHold
  <2> SUFFICES ASSUME IInv, NEW r \in Requests, req[r].at = "return", req[r].op \in Reads
               PROVE
        LET c == req[r].case IN
        /\ req[r].account \in accounts
        /\ req[r].op = "case_list" => \A x \in req[r].seen : Owner[x] = req[r].account
        /\ req[r].op = "document_list" => \A x \in req[r].seen : x \in documents /\ CaseOf[x] = c
        /\ req[r].op = "document_read" => req[r].item \in documents /\ req[r].pages # "none"
        /\ req[r].op = "event_list" =>
              /\ \A x \in req[r].seen : /\ x \in timeline(c)
                                        /\ x \in req[r].cited <=> entry[x].passage # None
              /\ req[r].notes \subseteq NotesOf(req[r].seen)
              /\ req[r].known \subseteq req[r].seen \cup req[r].notes
    BY DEF AnswersHold
  <2>1. /\ req[r].account \in accounts /\ Listed(r) /\ Subject(r)
    BY Facts DEF Held, Shown, CaseAction
  <2>2. req[r].op # "case_list" => req[r].case \in cases
    BY <2>1 DEF Subject, cases, CaseAction
  <2>3. req[r].op = "event_list" => Chronology(r)
    BY <2>1 DEF Listed
  <2> QED BY <2>1, <2>2, <2>3 DEF Listed, Chronology, Subject, documents
<1> QED BY <1>1, Inductive, PTL

\* A document answered as complete comes with the text of all its pages, although an OCR job
\* may commit between the SELECTs (api/cases.py:269-315, ingest/ocr.py:127-134).
THEOREM CompleteTrue == Spec => []CompleteHasText
<1>1. IInv => CompleteHasText
  <2> SUFFICES ASSUME IInv, NEW r \in Requests, req[r].at = "return", req[r].status = "complete"
               PROVE  req[r].pages = "text"
    BY DEF CompleteHasText
  <2>1. req[r].op = "document_read"
    BY Facts DEF Subject
  <2>2. req[r].account \in accounts /\ Listed(r)
    BY <2>1, Facts DEF Held, Shown, CaseAction, Reads
  <2> QED BY <2>1, <2>2 DEF Listed
<1> QED BY <1>1, Inductive, PTL
-----------------------------------------------------------------------------
\* The trail against the case file: each audit row is of a request that has ended, names the
\* owner of the case it names, and counts what was on record.
Begun == /\ \A r \in Requests : req[r].op # "none" => r <= begun
         /\ \A t \in trail : /\ t.id <= begun /\ req[t.id].op = "none"
                             /\ t.case # None => t.actor = Owner[t.case]
RowsOf(c, action) == {t \in trail : t.case = c /\ t.action = action}
Asserted(c) == {e \in timeline(c) : entry[e].author # None}
Recon(c) ==
    /\ \A action \in CaseAction : IsFiniteSet(RowsOf(c, action))
    /\ Cardinality(RowsOf(c, "event_created")) = Cardinality(Asserted(c))
    /\ Cardinality(RowsOf(c, "event_note_created")) = Cardinality(NotesOf(timeline(c)))
    /\ \A t \in RowsOf(c, "event_list") : t.detail <= Cardinality(timeline(c))
Tally == Begun /\ \A c \in cases : Recon(c)

\* Steps that begin, move or end a request and leave the rows alone.
LEMMA TallyQuiet ==
  ASSUME IInv, Tally, UNCHANGED rows, NEW r \in Requests, NEW x, req' = [req EXCEPT ![r] = x],
         \/ begun' = begun /\ x.op \in {req[r].op, "none"}
         \/ begun' = r /\ r = begun + 1
  PROVE  Tally'
<1>f. /\ req \in [Requests -> Request] /\ begun \in Nat /\ r \in Nat /\ Requests \subseteq Nat
      /\ \A t \in trail : t.id \in Requests
  BY Facts, RequestNat DEF TypeOK, CaseAuditEvent
<1>1. req'[r] = x /\ \A q \in Requests \ {r} : req'[q] = req[q]
  BY <1>f
<1>2. Begun'
  <2>1. begun <= begun' /\ begun' \in Nat
    BY <1>f
  <2>2. ASSUME NEW q \in Requests, req'[q].op # "none" PROVE q <= begun'
    <3>1. CASE q # r
      BY <3>1, <2>1, <2>2, <1>1, <1>f DEF Tally, Begun
    <3>2. CASE q = r /\ begun' = begun /\ x.op \in {req[r].op, "none"}
      BY <3>2, <2>2, <1>1, <1>f DEF Tally, Begun
    <3>3. CASE q = r /\ begun' = r
      BY <3>3, <1>f
    <3> QED BY <3>1, <3>2, <3>3
  <2>3. ASSUME NEW t \in trail
        PROVE  /\ t.id <= begun' /\ req'[t.id].op = "none"
               /\ t.case # None => t.actor = Owner[t.case]
    <3>1. /\ t.id \in Requests /\ t.id <= begun /\ req[t.id].op = "none"
          /\ t.case # None => t.actor = Owner[t.case]
      BY <1>f DEF Tally, Begun
    <3>2. t.id <= begun'
      <4>1. t.id \in Nat /\ begun \in Nat
        BY <3>1, <1>f
      <4> QED BY <4>1, <3>1, <2>1
    <3>3. CASE t.id # r
      BY <3>1, <3>2, <3>3, <1>1
    <3>4. CASE t.id = r
      BY <3>1, <3>2, <3>4, <1>1, <1>f
    <3> QED BY <3>3, <3>4
  <2> QED BY <2>2, <2>3 DEF Begun, rows
<1>3. ASSUME NEW c \in Cases PROVE Recon(c)' = Recon(c)
  BY DEF rows, Recon, RowsOf, Asserted, timeline, NotesOf
<1> QED BY <1>2, <1>3 DEF Tally, cases, rows

\* The chronology of a case whose rows stay as they are, but for entries that nobody asserts.
LEMMA ReconSame ==
  ASSUME IInv, NEW c \in Cases, Recon(c),
         \A action \in CaseAction : RowsOf(c, action)' = RowsOf(c, action),
         Asserted(c)' = Asserted(c), NotesOf(timeline(c))' = NotesOf(timeline(c)),
         timeline(c) \subseteq timeline(c)'
  PROVE  Recon(c)'
<1>1. IsFiniteSet(timeline(c)')
  <2>1. timeline(c)' \subseteq Entries
    BY DEF timeline
  <2> QED BY <2>1, FiniteAssumption, FS_Subset
<1>2. Cardinality(timeline(c)) <= Cardinality(timeline(c)')
  BY <1>1, FS_Subset
<1>3. Cardinality(timeline(c)) \in Nat /\ Cardinality(timeline(c)') \in Nat
  BY <1>1, FS_Subset, FS_CardinalityType
<1>4. \A t \in RowsOf(c, "event_list") : t.detail \in Nat
  BY Facts DEF IInv, TypeOK, RowsOf, CaseAuditEvent
<1>5. \A t \in RowsOf(c, "event_list")' : t.detail <= Cardinality(timeline(c)')
  BY <1>2, <1>3, <1>4 DEF Recon, CaseAction, Reads
<1> QED BY <1>5 DEF Recon, CaseAction, Reads

\* What a commit adds to the trail.
LEMMA TrailGrows ==
  ASSUME IInv, Tally, NEW r \in Requests, Commit(r)
  PROVE  /\ Begun' /\ AuditRow(r) \notin trail /\ cases' = cases
         /\ \A c \in Cases, action \in CaseAction :
               RowsOf(c, action)' = IF c = req[r].case /\ action = req[r].op
                                    THEN RowsOf(c, action) \cup {AuditRow(r)} ELSE RowsOf(c, action)
<1>1. /\ req[r].at = "return" /\ req[r].op \in CaseAction /\ trail' = trail \cup {AuditRow(r)}
      /\ req' = [req EXCEPT ![r] = Idle] /\ begun' = begun /\ accounts' = accounts
  BY DEF Commit, End
<1>2. /\ AuditRow(r).id = r /\ AuditRow(r).action = req[r].op /\ AuditRow(r).case = req[r].case
      /\ AuditRow(r).actor = req[r].account
  BY <1>1, AuditRowTyped DEF AuditRow
<1>f. /\ req \in [Requests -> Request] /\ Subject(r) /\ \A t \in trail : t.id \in Requests
  BY Facts DEF TypeOK, CaseAuditEvent
<1>3. req[r].op # "none" /\ r <= begun
  BY <1>1 DEF CaseAction, Reads, Tally, Begun
<1>4. AuditRow(r) \notin trail
  BY <1>2, <1>3 DEF Tally, Begun
<1>5. req[r].case # None => req[r].account = Owner[req[r].case]
  BY <1>1, <1>f DEF Subject
<1>6. Begun'
  BY <1>1, <1>2, <1>3, <1>5, <1>f, IdleTyped DEF Tally, Begun
<1> QED BY <1>1, <1>2, <1>4, <1>6 DEF RowsOf, cases

LEMMA OneMore ==
  ASSUME NEW S, NEW T, NEW x, NEW y, IsFiniteSet(S), IsFiniteSet(T), x \notin S, y \notin T,
         Cardinality(S) = Cardinality(T)
  PROVE  Cardinality(S \cup {x}) = Cardinality(T \cup {y})
BY FS_AddElement

LEMMA FiniteRows ==
  ASSUME NEW c \in Cases
  PROVE  /\ IsFiniteSet(timeline(c)) /\ IsFiniteSet(Asserted(c)) /\ IsFiniteSet(NotesOf(timeline(c)))
<1>1. timeline(c) \subseteq Entries /\ Asserted(c) \subseteq Entries /\ NotesOf(timeline(c)) \subseteq Notes
  BY DEF timeline, Asserted, NotesOf
<1> QED BY <1>1, FiniteAssumption, FS_Subset

LEMMA TallyRead == ASSUME IInv, Tally, NEW r \in Requests, CommitRead(r) PROVE Tally'
<1>1. /\ Commit(r) /\ req[r].op \in Reads /\ entry' = entry /\ note' = note
  BY DEF CommitRead
<1>2. /\ Begun' /\ cases' = cases
      /\ \A c \in Cases, action \in CaseAction :
            RowsOf(c, action)' = IF c = req[r].case /\ action = req[r].op
                                 THEN RowsOf(c, action) \cup {AuditRow(r)} ELSE RowsOf(c, action)
  BY <1>1, TrailGrows
<1>3. ASSUME NEW c \in cases PROVE Recon(c)'
  <2>1. /\ Recon(c) /\ c \in Cases /\ timeline(c)' = timeline(c) /\ Asserted(c)' = Asserted(c)
        /\ NotesOf(timeline(c))' = NotesOf(timeline(c))
    <3>1. Recon(c) /\ c \in Cases
      BY DEF Tally, cases
    <3>2. timeline(c)' = timeline(c) /\ Asserted(c)' = Asserted(c)
      BY <1>1 DEF timeline, Asserted
    <3>3. NotesOf(timeline(c))' = NotesOf(timeline(c))
      BY <1>1 DEF NotesOf, timeline
    <3> QED BY <3>1, <3>2, <3>3
  <2>2. ASSUME NEW action \in CaseAction PROVE IsFiniteSet(RowsOf(c, action)')
    <3>1. IsFiniteSet(RowsOf(c, action))
      BY <2>1 DEF Recon
    <3>2. IsFiniteSet(RowsOf(c, action) \cup {AuditRow(r)})
      BY <3>1, FS_AddElement
    <3> QED BY <3>1, <3>2, <1>2, <2>1
  <2>3. /\ RowsOf(c, "event_created")' = RowsOf(c, "event_created")
        /\ RowsOf(c, "event_note_created")' = RowsOf(c, "event_note_created")
    <3>1. /\ req[r].op # "event_created" /\ req[r].op # "event_note_created"
          /\ "event_created" \in CaseAction /\ "event_note_created" \in CaseAction
      BY <1>1 DEF Reads, CaseAction
    <3> QED BY <3>1, <1>2, <2>1
  <2>4. ASSUME NEW t \in RowsOf(c, "event_list")' PROVE t.detail <= Cardinality(timeline(c))
    <3>1. CASE t \in RowsOf(c, "event_list")
      BY <3>1, <2>1 DEF Recon
    <3>2. CASE t \notin RowsOf(c, "event_list")
      <4>1. t = AuditRow(r) /\ req[r].case = c /\ req[r].op = "event_list"
        BY <3>2, <2>4, <1>2, <2>1 DEF CaseAction, Reads
      <4>2. t.detail = Cardinality(req[r].seen)
        BY <4>1 DEF AuditRow, Detail
      <4>3. Held(r) /\ Shown(r) /\ req[r].at = "return"
        BY <1>1, Facts DEF Commit
      <4>4. req[r].seen \subseteq timeline(c)
        BY <4>1, <4>3 DEF Held, Shown, Listed, Chronology, CaseAction, Reads
      <4> QED BY <4>2, <4>4, <2>1, FiniteRows, FS_Subset
    <3> QED BY <3>1, <3>2
  <2> QED BY <2>1, <2>2, <2>3, <2>4 DEF Recon
<1> QED BY <1>2, <1>3 DEF Tally

LEMMA TallyEntry == ASSUME IInv, Tally, NEW r \in Requests, CommitEntry(r) PROVE Tally'
<1> DEFINE i == req[r].item
           k == req[r].case
           x == [case |-> k, passage |-> None, author |-> req[r].account]
<1>1. /\ Commit(r) /\ req[r].op = "event_created" /\ note' = note
      /\ entry' = [entry EXCEPT ![i] = x]
  BY DEF CommitEntry
<1>f. /\ TypeOK /\ Subject(r) /\ Fresh(r) /\ req[r].account \in accounts
  BY <1>1, Committed, Facts
<1>2. /\ Begun' /\ cases' = cases /\ AuditRow(r) \notin trail
      /\ \A c \in Cases, action \in CaseAction :
            RowsOf(c, action)' = IF c = k /\ action = req[r].op
                                 THEN RowsOf(c, action) \cup {AuditRow(r)} ELSE RowsOf(c, action)
  BY <1>1, TrailGrows
<1>3. /\ k \in Cases /\ i \in Entries /\ entry[i] = None /\ req[r].account \in Accounts
  BY <1>1, <1>f DEF Subject, Fresh, CaseAction, Reads
<1>4. x # None /\ x.case = k /\ x.author # None
  BY <1>3, NoneAssumption, RowsNotNone, <1>f DEF CaseEvent
<1> HIDE DEF x
<1>5. entry'[i] = x /\ \A e \in Entries \ {i} : entry'[e] = entry[e]
  BY <1>1, <1>3, <1>f DEF TypeOK
<1>6. ASSUME NEW c \in cases PROVE Recon(c)'
  <2>1. Recon(c) /\ c \in Cases
    BY DEF Tally, cases
  <2>2. NotesOf(timeline(c))' = NotesOf(timeline(c))
    <3>1. \A n \in Notes : note[n] # None => note[n].event \in Entries \ {i}
      BY <1>3, <1>f DEF TypeOK, CaseEventNote
    <3> QED BY <3>1, <1>1, <1>5 DEF NotesOf, timeline
  <2>3. CASE c # k
    <3>1. timeline(c)' = timeline(c) /\ Asserted(c)' = Asserted(c)
      BY <2>3, <1>3, <1>4, <1>5 DEF timeline, Asserted
    <3>2. \A action \in CaseAction : RowsOf(c, action)' = RowsOf(c, action)
      BY <2>1, <2>3, <1>2
    <3> QED BY <2>1, <2>2, <3>1, <3>2, ReconSame
  <2>4. CASE c = k
    <3>1. /\ timeline(c)' = timeline(c) \cup {i} /\ Asserted(c)' = Asserted(c) \cup {i}
          /\ i \notin timeline(c) /\ i \notin Asserted(c)
      BY <2>4, <1>3, <1>4, <1>5 DEF timeline, Asserted
    <3>2. /\ RowsOf(c, "event_created")' = RowsOf(c, "event_created") \cup {AuditRow(r)}
          /\ AuditRow(r) \notin RowsOf(c, "event_created")
          /\ RowsOf(c, "event_note_created")' = RowsOf(c, "event_note_created")
          /\ RowsOf(c, "event_list")' = RowsOf(c, "event_list")
      BY <2>1, <2>4, <1>1, <1>2 DEF CaseAction, Reads, RowsOf
    <3>3. \A action \in CaseAction : IsFiniteSet(RowsOf(c, action)')
      BY <1>2, <2>1, FS_AddElement DEF Recon
    <3>4. Cardinality(RowsOf(c, "event_created")') = Cardinality(Asserted(c)')
      <4>1. /\ IsFiniteSet(RowsOf(c, "event_created")) /\ IsFiniteSet(Asserted(c))
            /\ Cardinality(RowsOf(c, "event_created")) = Cardinality(Asserted(c))
        BY <2>1, FiniteRows DEF Recon, CaseAction
      <4>2. Cardinality(RowsOf(c, "event_created") \cup {AuditRow(r)})
              = Cardinality(Asserted(c) \cup {i})
        BY <4>1, <3>1, <3>2, OneMore
      <4> QED BY <4>2, <3>1, <3>2
    <3>5. ASSUME NEW t \in RowsOf(c, "event_list")' PROVE t.detail <= Cardinality(timeline(c)')
      <4>1. t.detail <= Cardinality(timeline(c)) /\ t.detail \in Nat
        BY <2>1, <3>2, <3>5, <1>f DEF Recon, RowsOf, TypeOK, CaseAuditEvent
      <4>2. Cardinality(timeline(c)') = Cardinality(timeline(c)) + 1 /\ Cardinality(timeline(c)) \in Nat
        BY <2>1, <3>1, FiniteRows, FS_AddElement, FS_CardinalityType
      <4> QED BY <4>1, <4>2
    <3> QED BY <2>1, <2>2, <3>2, <3>3, <3>4, <3>5 DEF Recon
  <2> QED BY <2>3, <2>4
<1> QED BY <1>2, <1>6 DEF Tally

LEMMA TallyNote == ASSUME IInv, Tally, NEW r \in Requests, CommitNote(r) PROVE Tally'
<1> DEFINE i == req[r].item
           k == req[r].case
           w == CHOOSE y \in req[r].seen : TRUE
           x == [event |-> w, author |-> req[r].account]
<1>1. /\ Commit(r) /\ req[r].op = "event_note_created" /\ entry' = entry
      /\ note' = [note EXCEPT ![i] = x]
  BY DEF CommitNote
<1>f. /\ TypeOK /\ Subject(r) /\ Fresh(r) /\ Shown(r) /\ req[r].account \in accounts
  BY <1>1, Committed, Facts
<1>2. /\ Begun' /\ cases' = cases /\ AuditRow(r) \notin trail
      /\ \A c \in Cases, action \in CaseAction :
            RowsOf(c, action)' = IF c = k /\ action = req[r].op
                                 THEN RowsOf(c, action) \cup {AuditRow(r)} ELSE RowsOf(c, action)
  BY <1>1, TrailGrows
<1>3. /\ k \in Cases /\ i \in Notes /\ note[i] = None /\ req[r].account \in Accounts
  BY <1>1, <1>f DEF Subject, Fresh, CaseAction, Reads
<1>w. w \in timeline(k)
  <2>1. PICK e \in timeline(k) : req[r].seen = {e}
    BY <1>1, <1>f DEF Shown, Listed
  <2> QED BY <2>1
<1> HIDE DEF w
<1>4. x # None /\ x.event = w
  BY <1>3, <1>w, RowsNotNone DEF CaseEventNote, timeline
<1> HIDE DEF x
<1>5. note'[i] = x /\ \A n \in Notes \ {i} : note'[n] = note[n]
  BY <1>1, <1>3, <1>f DEF TypeOK
<1>6. ASSUME NEW c \in cases PROVE Recon(c)'
  <2>1. /\ Recon(c) /\ c \in Cases /\ timeline(c)' = timeline(c) /\ Asserted(c)' = Asserted(c)
    BY <1>1 DEF Tally, cases, timeline, Asserted
  <2>2. CASE c # k
    <3>1. NotesOf(timeline(c))' = NotesOf(timeline(c))
      BY <2>1, <2>2, <1>w, <1>3, <1>4, <1>5 DEF NotesOf, timeline
    <3>2. \A action \in CaseAction : RowsOf(c, action)' = RowsOf(c, action)
      BY <2>1, <2>2, <1>2
    <3> QED BY <2>1, <3>1, <3>2, ReconSame
  <2>3. CASE c = k
    <3>1. /\ NotesOf(timeline(c))' = NotesOf(timeline(c)) \cup {i} /\ i \notin NotesOf(timeline(c))
      BY <2>1, <2>3, <1>w, <1>3, <1>4, <1>5 DEF NotesOf
    <3>2. /\ RowsOf(c, "event_note_created")' = RowsOf(c, "event_note_created") \cup {AuditRow(r)}
          /\ AuditRow(r) \notin RowsOf(c, "event_note_created")
          /\ RowsOf(c, "event_created")' = RowsOf(c, "event_created")
          /\ RowsOf(c, "event_list")' = RowsOf(c, "event_list")
      BY <2>1, <2>3, <1>1, <1>2 DEF CaseAction, Reads, RowsOf
    <3>3. \A action \in CaseAction : IsFiniteSet(RowsOf(c, action)')
      BY <1>2, <2>1, FS_AddElement DEF Recon
    <3>4. Cardinality(RowsOf(c, "event_note_created")') = Cardinality(NotesOf(timeline(c))')
      <4>1. /\ IsFiniteSet(RowsOf(c, "event_note_created")) /\ IsFiniteSet(NotesOf(timeline(c)))
            /\ Cardinality(RowsOf(c, "event_note_created")) = Cardinality(NotesOf(timeline(c)))
        BY <2>1, FiniteRows DEF Recon, CaseAction
      <4>2. Cardinality(RowsOf(c, "event_note_created") \cup {AuditRow(r)})
              = Cardinality(NotesOf(timeline(c)) \cup {i})
        BY <4>1, <3>1, <3>2, OneMore
      <4> QED BY <4>2, <3>1, <3>2
    <3> QED BY <2>1, <3>2, <3>3, <3>4 DEF Recon
  <2> QED BY <2>2, <2>3
<1> QED BY <1>2, <1>6 DEF Tally

LEMMA TallyDelete == ASSUME IInv, Tally, NEW r \in Requests, CommitDelete(r) PROVE Tally'
<1> DEFINE a == req[r].account
           Gone(e) == entry[e] # None /\ Owner[entry[e].case] = a
           Off(t) == [t EXCEPT !.actor = IF t.actor = a THEN None ELSE @,
                               !.case = IF t.case # None /\ Owner[t.case] = a THEN None ELSE @]
<1>1. /\ accounts' = accounts \ {a}
      /\ entry' = [e \in Entries |-> IF Gone(e) THEN None ELSE entry[e]]
      /\ note' = [n \in Notes |-> IF note[n] # None /\ Gone(note[n].event) THEN None ELSE note[n]]
      /\ trail' = {Off(t) : t \in trail}
      /\ req' = [req EXCEPT ![r] = Idle] /\ begun' = begun
  BY DEF CommitDelete, End
<1>f. TypeOK /\ req \in [Requests -> Request]
  BY Facts
<1>2. ASSUME NEW t \in trail
      PROVE  /\ t \in CaseAuditEvent /\ Off(t).id = t.id /\ Off(t).action = t.action
             /\ Off(t).case = IF t.case # None /\ Owner[t.case] = a THEN None ELSE t.case
             /\ Off(t).case # None => Off(t) = t
  <2>1. t \in CaseAuditEvent /\ (t.case # None => t.actor = Owner[t.case])
    BY <1>f DEF TypeOK, Tally, Begun
  <2>2. /\ Off(t).id = t.id /\ Off(t).action = t.action
        /\ Off(t).case = IF t.case # None /\ Owner[t.case] = a THEN None ELSE t.case
    BY <2>1 DEF CaseAuditEvent
  <2>3. ASSUME t.case # None, Owner[t.case] # a PROVE Off(t) = t
    BY <2>1, <2>3 DEF CaseAuditEvent
  <2> QED BY <2>1, <2>2, <2>3
<1>3. Begun'
  <2>1. \A q \in Requests : req'[q].op # "none" => req'[q] = req[q]
    BY <1>1, <1>f, IdleTyped
  <2>2. \A q \in Requests : req[q].op = "none" => req'[q].op = "none"
    BY <1>1, <1>f, IdleTyped
  <2>3. ASSUME NEW t \in trail
        PROVE  /\ Off(t).id <= begun /\ req'[Off(t).id].op = "none"
               /\ Off(t).case # None => Off(t).actor = Owner[Off(t).case]
    BY <2>2, <1>2 DEF Tally, Begun, CaseAuditEvent
  <2> HIDE DEF Off
  <2> QED BY <2>1, <2>3, <1>1 DEF Tally, Begun
<1>4. ASSUME NEW c \in cases' PROVE Recon(c)'
  <2>1. c \in cases /\ c \in Cases /\ Owner[c] # a /\ c # None
    BY <1>1, NoneAssumption DEF cases
  <2>2. ASSUME NEW action \in CaseAction PROVE RowsOf(c, action)' = RowsOf(c, action)
    <3>1. \A t \in trail : t.case = c => Off(t) = t
      BY <1>2, <2>1
    <3>2. \A t \in trail : Off(t).case = c => Off(t) = t
      BY <1>2, <2>1
    <3> HIDE DEF Off
    <3> QED BY <3>1, <3>2, <1>1 DEF RowsOf
  <2>3. timeline(c)' = timeline(c) /\ Asserted(c)' = Asserted(c)
    BY <1>1, <2>1 DEF timeline, Asserted
  <2>4. NotesOf(timeline(c))' = NotesOf(timeline(c))
    BY <1>1, <2>1, <1>f DEF NotesOf, timeline, TypeOK
  <2>5. Recon(c)
    BY <2>1 DEF Tally
  <2> QED BY <2>1, <2>2, <2>3, <2>4, <2>5, ReconSame
<1> QED BY <1>3, <1>4 DEF Tally

LEMMA TallyExtract == ASSUME IInv, Tally, NEW d \in Documents, NEW i \in Entries, Extract(d, i) PROVE Tally'
<1> DEFINE x == [case |-> CaseOf[d], passage |-> d, author |-> None]
<1>1. /\ accounts' = accounts /\ note' = note /\ trail' = trail /\ req' = req /\ begun' = begun
      /\ entry[i] = None /\ entry' = [entry EXCEPT ![i] = x] /\ x.author = None
  BY DEF Extract
<1>f. TypeOK
  BY DEF IInv
<1> HIDE DEF x
<1>2. entry'[i] = x /\ \A e \in Entries \ {i} : entry'[e] = entry[e]
  BY <1>1, <1>f DEF TypeOK
<1>3. ASSUME NEW c \in cases PROVE Recon(c)'
  <2>1. Recon(c) /\ c \in Cases
    BY DEF Tally, cases
  <2>2. timeline(c) \subseteq timeline(c)' /\ Asserted(c)' = Asserted(c)
    BY <1>1, <1>2 DEF timeline, Asserted
  <2>3. NotesOf(timeline(c))' = NotesOf(timeline(c))
    <3>1. \A n \in Notes : note[n] # None => note[n].event \in Entries \ {i}
      BY <1>1, <1>f DEF TypeOK, CaseEventNote
    <3> QED BY <3>1, <1>1, <1>2 DEF NotesOf, timeline
  <2>4. \A action \in CaseAction : RowsOf(c, action)' = RowsOf(c, action)
    BY <1>1 DEF RowsOf
  <2> QED BY <2>1, <2>2, <2>3, <2>4, ReconSame
<1>4. Begun' /\ cases' = cases
  BY <1>1 DEF Tally, Begun, cases
<1> QED BY <1>3, <1>4 DEF Tally
LEMMA TallyStart == ASSUME IInv, Tally, NEW r \in Requests, Start(r) PROVE Tally'
<1>1. /\ UNCHANGED rows /\ begun' = r /\ r = begun + 1
      /\ \E x : req' = [req EXCEPT ![r] = x]
  BY DEF Start, list_cases, read_case, list_documents, read_document, list_events,
         create_event, create_note, delete_own_account, Begin
<1> QED BY <1>1, TallyQuiet

\* A step of a request that neither begins nor commits.
LEMMA TallyGo ==
  ASSUME IInv, Tally, NEW r \in Requests, NEW x, Goes(r, x), x.op = req[r].op
  PROVE  Tally'
BY TallyQuiet DEF Goes

LEMMA TallyEnd ==
  ASSUME IInv, Tally, NEW r \in Requests, End(r), UNCHANGED rows
  PROVE  Tally'
<1>1. Idle.op = "none"
  BY DEF Idle
<1> QED BY <1>1, TallyQuiet DEF End

LEMMA TallySelect ==
  ASSUME IInv, Tally, NEW r \in Requests,
         \/ SelectPages(r) \/ SelectEvents(r) \/ SelectCitations(r) \/ SelectNotes(r)
         \/ InsertEntry(r) \/ InsertNote(r) \/ InsertAudit(r) \/ DeleteAccount(r) \/ DeleteCascade(r)
  PROVE  Tally'
<1>1. req[r] \in Request
  BY Facts DEF TypeOK
<1>2. PICK x : Goes(r, x) /\ x.op = req[r].op
  <2>1. CASE SelectPages(r)
    <3> DEFINE x == [req[r] EXCEPT !.at = "audit",
                   !.pages = IF req[r].item \notin documents THEN "none"
                             ELSE IF ocr[req[r].item].text THEN "text" ELSE "partial"]
    <3>1. x.op = req[r].op
      BY <1>1 DEF Request
    <3>2. Goes(r, x)
      BY <2>1 DEF SelectPages
    <3> HIDE DEF x
    <3> QED BY <3>1, <3>2
  <2>2. CASE SelectEvents(r)
    <3> DEFINE x == [req[r] EXCEPT !.at = "citations", !.seen = timeline(req[r].case)]
    <3>1. x.op = req[r].op
      BY <1>1 DEF Request
    <3>2. Goes(r, x)
      BY <2>2 DEF SelectEvents
    <3> HIDE DEF x
    <3> QED BY <3>1, <3>2
  <2>3. CASE SelectCitations(r)
    <3> DEFINE x == [req[r] EXCEPT !.at = "notes",
                   !.cited = {e \in req[r].seen : entry[e] # None /\ entry[e].passage \in documents}]
    <3>1. x.op = req[r].op
      BY <1>1 DEF Request
    <3>2. Goes(r, x)
      BY <2>3 DEF SelectCitations
    <3> HIDE DEF x
    <3> QED BY <3>1, <3>2
  <2>4. CASE SelectNotes(r)
    <3> DEFINE x == [req[r] EXCEPT !.at = "audit", !.notes = NotesOf(req[r].seen)]
    <3>1. x.op = req[r].op
      BY <1>1 DEF Request
    <3>2. Goes(r, x)
      BY <2>4 DEF SelectNotes
    <3> HIDE DEF x
    <3> QED BY <3>1, <3>2
  <2>5. CASE InsertEntry(r) \/ InsertNote(r) \/ InsertAudit(r)
    BY <2>5, <1>1 DEF InsertEntry, InsertNote, InsertAudit, Request
  <2>6. CASE DeleteAccount(r) \/ DeleteCascade(r)
    BY <2>6, <1>1 DEF DeleteAccount, DeleteCascade, Request
  <2> QED BY <2>1, <2>2, <2>3, <2>4, <2>5, <2>6
<1> QED BY <1>2, TallyGo

LEMMA TallyOcr == ASSUME IInv, Tally, NEW d \in Documents, Ocr(d) PROVE Tally'
<1>1. UNCHANGED <<accounts, entry, note, trail, req, begun>>
  BY DEF Ocr
<1>2. cases' = cases /\ Begun' = Begun
  BY <1>1 DEF cases, Begun
<1>3. ASSUME NEW c \in Cases PROVE Recon(c)' = Recon(c)
  BY <1>1 DEF Recon, RowsOf, Asserted, timeline, NotesOf
<1> QED BY <1>2, <1>3 DEF Tally, cases

LEMMA InitTally == Init => Tally
<1> SUFFICES ASSUME Init PROVE Tally
  OBVIOUS
<1>1. Begun
  BY DEF Init, Begun, Idle
<1>2. ASSUME NEW c \in Cases PROVE Recon(c)
  <2>1. /\ \A action \in CaseAction : RowsOf(c, action) = {}
        /\ timeline(c) = {} /\ Asserted(c) = {} /\ NotesOf(timeline(c)) = {}
    BY DEF Init, RowsOf, timeline, Asserted, NotesOf
  <2>2. Cardinality({}) = 0 /\ IsFiniteSet({})
    BY FS_EmptySet
  <2> QED BY <2>1, <2>2 DEF Recon, CaseAction, Reads
<1> QED BY <1>1, <1>2 DEF Tally, cases

LEMMA StepTally == IInv /\ Tally /\ [Next]_vars => Tally'
<1> SUFFICES ASSUME IInv, Tally, [Next]_vars PROVE Tally'
  OBVIOUS
<1>1. ASSUME NEW r \in Requests, Go(r) PROVE Tally'
  <2>1. CASE InsertRefused(r)
    BY <2>1, TallyEnd DEF InsertRefused
  <2>2. CASE CommitRead(r)
    BY <2>2, TallyRead
  <2>3. CASE CommitEntry(r)
    BY <2>3, TallyEntry
  <2>4. CASE CommitNote(r)
    BY <2>4, TallyNote
  <2>5. CASE CommitDelete(r)
    BY <2>5, TallyDelete
  <2> QED BY <1>1, <2>1, <2>2, <2>3, <2>4, <2>5, TallySelect DEF Go
<1>2. ASSUME NEW r \in Requests, Start(r) PROVE Tally'
  BY <1>2, TallyStart
<1>3. ASSUME NEW r \in Requests, BreakDeadlock(r) \/ Fail(r) PROVE Tally'
  BY <1>3, TallyEnd DEF BreakDeadlock, Fail, rows
<1>4. CASE Environment
  BY <1>4, TallyOcr, TallyExtract DEF Environment
<1>5. CASE UNCHANGED vars
  <2>1. UNCHANGED <<accounts, entry, note, trail, req, begun>>
    BY <1>5 DEF vars, rows
  <2>2. cases' = cases /\ Begun' = Begun
    BY <2>1 DEF cases, Begun
  <2>3. ASSUME NEW c \in Cases PROVE Recon(c)' = Recon(c)
    BY <2>1 DEF Recon, RowsOf, Asserted, timeline, NotesOf
  <2> QED BY <2>2, <2>3 DEF Tally, cases
<1> QED BY <1>1, <1>2, <1>3, <1>4, <1>5 DEF Next

\* The trail reconciles with the case file: entries and notes against the audit rows of
\* their creation, and no list longer than the permanent chronology (models/audit.py,
\* api/events.py:10-12), for any number of accounts, cases and concurrent requests.
THEOREM TrailTrue == Spec => []TrailReconciles
<1>1. Init => IInv /\ Tally
  BY InitInv, InitTally
<1>2. IInv /\ Tally /\ [Next]_vars => IInv' /\ Tally'
  BY StepInv, StepTally
<1>3. Tally => TrailReconciles
  BY DEF Tally, Recon, RowsOf, Asserted, TrailReconciles
<1> QED BY <1>1, <1>2, <1>3, PTL DEF Spec
=============================================================================
