------------------------- MODULE DocumentStoreProofs -------------------------
(* Proofs about DocumentStore, for any accounts, cases, contents, requests   *)
(* and number of failures.                                                   *)
EXTENDS DocumentStore, TLAPS

\* Which operation is at which step, and what it has by then.
Placed(r) ==
    /\ req[r].op = "none" <=> req[r].at = "idle"
    /\ req[r].op = "create" => req[r].at = "return"
    /\ req[r].op = "upload" => req[r].at \in {"open", "write", "extract", "audit", "return"}
    /\ req[r].op = "delete" => req[r].at \in {"lock", "cascade", "purge"}
    /\ req[r].op \in {"none", "delete"} => req[r].case = None
    /\ req[r].at # "purge" => req[r].purged = {}

\* A case being opened is under an id nobody has, for an account that is still there ...
Creating(r) ==
    req[r].op = "create" => /\ req[r].account \in accounts
                            /\ req[r].case \in Cases /\ owner[req[r].case] = None

\* ... an upload is into a case of its account, on record once it holds it ...
Uploading(r) ==
    req[r].op = "upload" =>
        /\ req[r].case \in Cases /\ req[r].content \in Contents /\ req[r].account \in Accounts
        /\ owner[req[r].case] = req[r].account
        /\ req[r].at \in {"audit", "return"} => req[r].case \in cases /\ Key(r) \notin documents

\* ... and a deletion removes files of its account's cases only.
Deleting(r) ==
    req[r].op = "delete" => /\ req[r].account \in Accounts
                            /\ \A k \in req[r].keys \cup req[r].purged : owner[k[1]] = req[r].account

\* The file is whole, or there is a reason: one that failed, one that is writing it and
\* whose file nobody has emptied, a deletion of its account; or its case is gone.
Purging(q, k) == k \in req[q].purged /\ req[q].account = owner[k[1]]
Filling(q, k) == Writing(q, k) /\ req[q].fd = "sole"
Sound(k) ==
    \/ blob[k] = "whole"
    \/ k \in cut
    \/ k[1] \notin cases
    \/ \E q \in Requests : Filling(q, k) \/ Purging(q, k)

\* An upload that has written, or had its file emptied while it did.
Stored(r) == \/ req[r].at = "write" /\ req[r].fd # "sole"
             \/ req[r].op = "upload" /\ req[r].at \in {"extract", "audit", "return"}
Backed(r) == Stored(r) => Sound(Key(r))

Good(r) == Placed(r) /\ Creating(r) /\ Uploading(r) /\ Deleting(r) /\ Backed(r)

\* What is true of two requests: they do not open the same case or insert the same document,
\* and a deletion waits for those who refer to what it deletes.
Apart(r, q) ==
    /\ req[r].op = "create" /\ req[q].op = "create" => req[r].case # req[q].case
    /\ req[r].op = "upload" /\ req[r].at \in {"audit", "return"}
       /\ req[q].op = "upload" /\ req[q].at \in {"audit", "return"} => Key(r) # Key(q)
    /\ req[r].at = "return" => ~ TakesAccount(q, req[r].account)
    /\ req[r].op = "upload" /\ req[r].at \in {"audit", "return"} => ~ TakesCases(q, req[r].account)

\* What is true of the rows.
Rows ==
    /\ JobWithDocument /\ TrailMatches
    /\ \A c \in cases : owner[c] \in accounts
    /\ \A d \in documents : Sound(d)

IInv == /\ TypeOK /\ Rows
        /\ \A r \in Requests : Good(r)
        /\ \A r, q \in Requests : r # q => Apart(r, q)
-----------------------------------------------------------------------------
LEMMA IdleTyped ==
  /\ Idle \in Request /\ Idle.op = "none" /\ Idle.at = "idle" /\ Idle.case = None
  /\ Idle.keys = {} /\ Idle.purged = {} /\ Idle.fd = "none"
BY DEF Idle, Request

\* The steps that change only what their request is about: no row and no file, nor what
\* keeps a document's bytes accounted for.
LEMMA Quiet ==
  ASSUME IInv, NEW r \in Requests, NEW x \in Request,
         req' = [req EXCEPT ![r] = x], UNCHANGED <<rows, blob, cut>>, faults' \in 0 .. MaxFaults,
         req[r].at # "write", x.at # "write",
         req[r].purged = {} \/ (x.purged = req[r].purged /\ x.account = req[r].account),
         Placed(r)', Creating(r)', Uploading(r)', Deleting(r)',
         x.op = "upload" /\ x.at \in {"extract", "audit", "return"}
            => Stored(r) /\ x.case = req[r].case /\ x.content = req[r].content,
         \A q \in Requests \ {r} : Apart(r, q)' /\ Apart(q, r)'
  PROVE  IInv'
<1>t. /\ TypeOK /\ Rows /\ req \in [Requests -> Request]
  BY DEF IInv, TypeOK
<1>u. /\ accounts' = accounts /\ owner' = owner /\ cases' = cases /\ documents' = documents
      /\ jobs' = jobs /\ opened' = opened /\ uploaded' = uploaded /\ blob' = blob /\ cut' = cut
  BY DEF rows
<1>r. req'[r] = x /\ \A q \in Requests \ {r} : req'[q] = req[q]
  BY <1>t
<1>1. TypeOK'
  BY <1>t, <1>u DEF TypeOK
<1>2. ASSUME NEW k, Sound(k) PROVE Sound(k)'
  <2>1. ASSUME NEW q \in Requests, Filling(q, k) PROVE Filling(q, k)'
    <3>1. q # r
      BY <2>1 DEF Filling, Writing
    <3> QED BY <3>1, <2>1, <1>r DEF Filling, Writing, Key
  <2>2. ASSUME NEW q \in Requests, Purging(q, k) PROVE Purging(q, k)'
    <3>1. CASE q # r
      BY <3>1, <2>2, <1>r, <1>u DEF Purging
    <3>2. CASE q = r
      BY <3>2, <2>2, <1>r, <1>u DEF Purging
    <3> QED BY <3>1, <3>2
  <2> QED BY <1>2, <2>1, <2>2, <1>u DEF Sound
<1>3. Rows'
  <2>1. JobWithDocument' /\ TrailMatches'
    BY <1>t, <1>u DEF Rows, JobWithDocument, TrailMatches
  <2> QED BY <2>1, <1>2, <1>t, <1>u DEF Rows
<1>4. ASSUME NEW q \in Requests PROVE Good(q)'
  <2>1. CASE q # r
    <3>1. Good(q) /\ req'[q] = req[q]
      BY <2>1, <1>r DEF IInv
    <3>2. Placed(q)' /\ Creating(q)' /\ Uploading(q)' /\ Deleting(q)'
      BY <3>1, <1>u DEF Good, Placed, Creating, Uploading, Deleting, Key
    <3>3. Backed(q)'
      BY <3>1, <1>2 DEF Good, Backed, Stored, Key
    <3> QED BY <3>2, <3>3 DEF Good
  <2>2. CASE q = r
    <3>1. Backed(r)
      BY DEF IInv, Good
    <3>2. Backed(r)'
      <4>1. Stored(r)' => Stored(r) /\ Key(r)' = Key(r)
        BY <1>r DEF Stored, Key
      <4> QED BY <3>1, <4>1, <1>2 DEF Backed
    <3> QED BY <3>2, <2>2 DEF Good
  <2> QED BY <2>1, <2>2
<1>5. ASSUME NEW p \in Requests, NEW q \in Requests, p # q PROVE Apart(p, q)'
  <2>1. CASE p = r \/ q = r
    BY <2>1, <1>5
  <2>2. CASE p # r /\ q # r
    <3>1. Apart(p, q) /\ req'[p] = req[p] /\ req'[q] = req[q]
      BY <2>2, <1>r, <1>5 DEF IInv
    <3> QED BY <3>1, <1>u DEF Apart, Key, TakesAccount, TakesCases
  <2> QED BY <2>1, <2>2
<1> QED BY <1>1, <1>3, <1>4, <1>5 DEF IInv

\* A request that ends with nothing done.
LEMMA Ends ==
  ASSUME IInv, NEW r \in Requests, End(r), req[r].at # "write", req[r].purged = {},
         UNCHANGED <<rows, blob, cut>>, faults' \in 0 .. MaxFaults
  PROVE  IInv'
<1>t. req \in [Requests -> Request]
  BY DEF IInv, TypeOK
<1>e. req' = [req EXCEPT ![r] = Idle]
  BY DEF End
<1>r. req'[r] = Idle /\ \A q \in Requests \ {r} : req'[q] = req[q]
  BY <1>t, <1>e
<1>1. Placed(r)' /\ Creating(r)' /\ Uploading(r)' /\ Deleting(r)'
  BY <1>r, IdleTyped DEF Placed, Creating, Uploading, Deleting
<1>2. ASSUME NEW q \in Requests \ {r} PROVE Apart(r, q)' /\ Apart(q, r)'
  BY <1>r, IdleTyped DEF Apart, TakesAccount, TakesCases
<1> QED BY <1>e, <1>1, <1>2, IdleTyped, Quiet

\* What the invariant says of one request.
LEMMA Facts ==
  ASSUME IInv, NEW r \in Requests
  PROVE  /\ TypeOK /\ Rows /\ req \in [Requests -> Request] /\ req[r] \in Request
         /\ Placed(r) /\ Creating(r) /\ Uploading(r) /\ Deleting(r) /\ Backed(r)
         /\ \A q \in Requests : Placed(q) /\ Creating(q) /\ Uploading(q) /\ Deleting(q) /\ Backed(q)
         /\ \A q \in Requests \ {r} : Apart(r, q) /\ Apart(q, r)
         /\ faults \in 0 .. MaxFaults
BY DEF IInv, TypeOK, Good
-----------------------------------------------------------------------------
LEMMA CreatesCase ==
  ASSUME IInv, NEW r \in Requests, NEW a \in Accounts, NEW c \in Cases, CreateCase(r, a, c)
  PROVE  IInv'
<1> DEFINE x == [Idle EXCEPT !.op = "create", !.at = "return", !.account = a, !.case = c]
<1>f. /\ TypeOK /\ req \in [Requests -> Request] /\ Placed(r) /\ faults \in 0 .. MaxFaults
      /\ \A q \in Requests : Placed(q)
  BY Facts
<1>a. /\ a \in accounts /\ owner[c] = None /\ req[r].at = "idle" /\ req' = [req EXCEPT ![r] = x]
      /\ \A q \in Requests : req[q].case # c
      /\ \A q \in Requests \ {r} : ~ TakesAccount(q, a)
      /\ UNCHANGED <<rows, blob, cut, faults>>
  BY DEF CreateCase, Start, Others
<1>x. /\ x.op = "create" /\ x.at = "return" /\ x.account = a /\ x.case = c /\ x.purged = {}
      /\ x \in Request
  BY DEF Idle, Request
<1>r. req'[r] = x /\ \A q \in Requests \ {r} : req'[q] = req[q]
  BY <1>a, <1>f
<1>u. accounts' = accounts /\ owner' = owner
  BY <1>a DEF rows
<1> HIDE DEF x
<1>1. Placed(r)' /\ Creating(r)' /\ Uploading(r)' /\ Deleting(r)'
  BY <1>r, <1>x, <1>a, <1>u DEF Placed, Creating, Uploading, Deleting
<1>2. ASSUME NEW q \in Requests \ {r} PROVE Apart(r, q)' /\ Apart(q, r)'
  <2>1. ~ TakesAccount(q, a) /\ req'[q] = req[q] /\ req[q].case # c
    BY <1>a, <1>r
  <2> QED BY <2>1, <1>r, <1>x, <1>u DEF Apart, TakesAccount, TakesCases
<1>3. req[r].purged = {}
  BY <1>f, <1>a DEF Placed
<1> QED BY <1>a, <1>f, <1>x, <1>1, <1>2, <1>3, Quiet

LEMMA Uploads ==
  ASSUME IInv, NEW r \in Requests, NEW c \in Cases, NEW d \in Contents, Upload(r, c, d)
  PROVE  IInv'
<1> DEFINE x == [Idle EXCEPT !.op = "upload", !.at = "open", !.account = owner[c],
                             !.case = c, !.content = d]
<1>f. /\ TypeOK /\ Rows /\ req \in [Requests -> Request] /\ Placed(r) /\ faults \in 0 .. MaxFaults
      /\ \A q \in Requests : Placed(q) /\ Creating(q)
  BY Facts
<1>a. /\ c \in cases /\ req[r].at = "idle" /\ req' = [req EXCEPT ![r] = x]
      /\ UNCHANGED <<rows, blob, cut, faults>>
  BY DEF Upload, Start
<1>o. owner[c] \in Accounts /\ owner[c] # None
  BY <1>f, <1>a, NoneAssumption DEF Rows, TypeOK
<1>x. /\ x.op = "upload" /\ x.at = "open" /\ x.account = owner[c] /\ x.case = c
      /\ x.content = d /\ x.purged = {} /\ x \in Request
  BY <1>o DEF Idle, Request
<1>r. req'[r] = x /\ \A q \in Requests \ {r} : req'[q] = req[q]
  BY <1>a, <1>f
<1>u. accounts' = accounts /\ owner' = owner
  BY <1>a DEF rows
<1> HIDE DEF x
<1>1. Placed(r)' /\ Creating(r)' /\ Uploading(r)' /\ Deleting(r)'
  BY <1>r, <1>x, <1>o, <1>u DEF Placed, Creating, Uploading, Deleting
<1>2. ASSUME NEW q \in Requests \ {r} PROVE Apart(r, q)' /\ Apart(q, r)'
  BY <1>r, <1>x DEF Apart, TakesAccount, TakesCases
<1>3. req[r].purged = {}
  BY <1>f, <1>a DEF Placed
<1> QED BY <1>a, <1>f, <1>x, <1>1, <1>2, <1>3, Quiet

LEMMA Extracts == ASSUME IInv, NEW r \in Requests, ExtractRaises(r) PROVE IInv'
<1>1. Placed(r) /\ faults \in 0 .. MaxFaults
  BY Facts
<1> QED BY <1>1, Ends DEF ExtractRaises, Placed

LEMMA Refuses == ASSUME IInv, NEW r \in Requests, InsertRefused(r) PROVE IInv'
<1>1. Placed(r) /\ faults \in 0 .. MaxFaults
  BY Facts
<1> QED BY <1>1, Ends DEF InsertRefused, Placed

LEMMA InsertsDocument == ASSUME IInv, NEW r \in Requests, InsertDocument(r) PROVE IInv'
<1> DEFINE x == [req[r] EXCEPT !.at = "audit"]
<1>f. /\ TypeOK /\ req \in [Requests -> Request] /\ req[r] \in Request /\ faults \in 0 .. MaxFaults
      /\ Placed(r) /\ Creating(r) /\ Uploading(r) /\ Deleting(r)
      /\ \A q \in Requests \ {r} : Apart(r, q) /\ Apart(q, r)
  BY Facts
<1>a. /\ req[r].at = "extract" /\ req[r].case \in cases /\ Key(r) \notin documents
      /\ \A q \in Requests \ {r} : /\ ~ TakesCases(q, req[r].account)
                                   /\ ~ (SharesCase(q, req[r].case) /\ Key(q) = Key(r))
      /\ req' = [req EXCEPT ![r] = x] /\ UNCHANGED <<rows, blob, cut, faults>>
  BY DEF InsertDocument, Others
<1>x. /\ x.op = req[r].op /\ x.at = "audit" /\ x.account = req[r].account /\ x.case = req[r].case
      /\ x.content = req[r].content /\ x.purged = req[r].purged /\ x.keys = req[r].keys
      /\ x \in Request
  BY <1>f DEF Request
<1>r. req'[r] = x /\ \A q \in Requests \ {r} : req'[q] = req[q]
  BY <1>a, <1>f
<1>u. accounts' = accounts /\ owner' = owner /\ cases' = cases /\ documents' = documents
  BY <1>a DEF rows
<1> HIDE DEF x
<1>o. req[r].op = "upload"
  BY <1>a, <1>f DEF Placed, Request
<1>1. Placed(r)' /\ Creating(r)' /\ Uploading(r)' /\ Deleting(r)'
  BY <1>r, <1>x, <1>o, <1>u, <1>f, <1>a DEF Placed, Creating, Uploading, Deleting, Key
<1>2. ASSUME NEW q \in Requests \ {r} PROVE Apart(r, q)' /\ Apart(q, r)'
  <2>1. /\ Apart(r, q) /\ Apart(q, r) /\ req'[q] = req[q] /\ ~ TakesCases(q, req[r].account)
        /\ ~ (SharesCase(q, req[r].case) /\ Key(q) = Key(r))
    BY <1>a, <1>f, <1>r
  <2>2. req[q].at \in {"audit", "return"} => Key(q) # Key(r)
    BY <2>1 DEF SharesCase, Key, storage_key
  <2> QED BY <2>1, <2>2, <1>r, <1>x, <1>u, <1>o DEF Apart, TakesAccount, TakesCases, Key
<1>3. Stored(r)
  BY <1>a, <1>o DEF Stored
<1> QED BY <1>a, <1>f, <1>x, <1>1, <1>2, <1>3, Quiet

LEMMA InsertsAudit == ASSUME IInv, NEW r \in Requests, InsertAudit(r) PROVE IInv'
<1> DEFINE x == [req[r] EXCEPT !.at = "return"]
<1>f. /\ TypeOK /\ req \in [Requests -> Request] /\ req[r] \in Request /\ faults \in 0 .. MaxFaults
      /\ Placed(r) /\ Creating(r) /\ Uploading(r) /\ Deleting(r)
      /\ \A q \in Requests \ {r} : Apart(r, q) /\ Apart(q, r)
  BY Facts
<1>a. /\ req[r].at = "audit" /\ \A q \in Requests \ {r} : ~ TakesAccount(q, req[r].account)
      /\ req' = [req EXCEPT ![r] = x] /\ UNCHANGED <<rows, blob, cut, faults>>
  BY DEF InsertAudit, Others
<1>x. /\ x.op = req[r].op /\ x.at = "return" /\ x.account = req[r].account /\ x.case = req[r].case
      /\ x.content = req[r].content /\ x.purged = req[r].purged /\ x.keys = req[r].keys
      /\ x \in Request
  BY <1>f DEF Request
<1>r. req'[r] = x /\ \A q \in Requests \ {r} : req'[q] = req[q]
  BY <1>a, <1>f
<1>u. accounts' = accounts /\ owner' = owner /\ cases' = cases /\ documents' = documents
  BY <1>a DEF rows
<1> HIDE DEF x
<1>o. req[r].op = "upload"
  BY <1>a, <1>f DEF Placed, Request
<1>1. Placed(r)' /\ Creating(r)' /\ Uploading(r)' /\ Deleting(r)'
  BY <1>r, <1>x, <1>o, <1>u, <1>f, <1>a DEF Placed, Creating, Uploading, Deleting, Key
<1>2. ASSUME NEW q \in Requests \ {r} PROVE Apart(r, q)' /\ Apart(q, r)'
  <2>1. Apart(r, q) /\ Apart(q, r) /\ req'[q] = req[q] /\ ~ TakesAccount(q, req[r].account)
    BY <1>a, <1>f, <1>r
  <2> QED BY <2>1, <1>a, <1>r, <1>x, <1>u, <1>o DEF Apart, TakesAccount, TakesCases, Key
<1>3. Stored(r)
  BY <1>a, <1>o DEF Stored
<1> QED BY <1>a, <1>f, <1>x, <1>1, <1>2, <1>3, Quiet
-----------------------------------------------------------------------------
LEMMA Deletes == ASSUME IInv, NEW r \in Requests, NEW a \in Accounts, Delete(r, a) PROVE IInv'
<1> DEFINE K == {storage_key(d[1], d[2]) : d \in {d \in documents : owner[d[1]] = a}}
           x == [Idle EXCEPT !.op = "delete", !.at = "lock", !.account = a, !.keys = K]
<1>f. /\ TypeOK /\ req \in [Requests -> Request] /\ Placed(r) /\ faults \in 0 .. MaxFaults
  BY Facts
<1>a. /\ req[r].at = "idle" /\ req' = [req EXCEPT ![r] = x]
      /\ UNCHANGED <<rows, blob, cut, faults>>
  BY DEF Delete, Start
<1>k. K \subseteq Keys /\ \A k \in K : owner[k[1]] = a
  BY <1>f DEF TypeOK, Keys, storage_key
<1> HIDE DEF K
<1>x. /\ x.op = "delete" /\ x.at = "lock" /\ x.account = a /\ x.case = None /\ x.keys = K
      /\ x.purged = {} /\ x \in Request
  BY <1>k DEF Idle, Request
<1>r. req'[r] = x /\ \A q \in Requests \ {r} : req'[q] = req[q]
  BY <1>a, <1>f
<1>u. accounts' = accounts /\ owner' = owner
  BY <1>a DEF rows
<1> HIDE DEF x
<1>1. Placed(r)' /\ Creating(r)' /\ Uploading(r)' /\ Deleting(r)'
  BY <1>r, <1>x, <1>k, <1>u DEF Placed, Creating, Uploading, Deleting
<1>2. ASSUME NEW q \in Requests \ {r} PROVE Apart(r, q)' /\ Apart(q, r)'
  BY <1>r, <1>x DEF Apart, TakesAccount, TakesCases
<1>3. req[r].purged = {}
  BY <1>f, <1>a DEF Placed
<1> QED BY <1>a, <1>f, <1>x, <1>1, <1>2, <1>3, Quiet

\* The steps of a deletion that change its place or the keys it has left.
LEMMA Proceeds ==
  ASSUME IInv, NEW r \in Requests, NEW x \in Request, req[r].op = "delete",
         req' = [req EXCEPT ![r] = x], UNCHANGED <<rows, blob, cut>>, faults' \in 0 .. MaxFaults,
         x.op = "delete", x.account = req[r].account, x.case = req[r].case,
         x.keys \subseteq req[r].keys, x.purged = req[r].purged,
         x.at \in {"cascade", "purge"}, req[r].at = "purge" => x.at = "purge",
         \A q \in Requests \ {r} : Apart(q, r)'
  PROVE  IInv'
<1>f. /\ req \in [Requests -> Request] /\ Placed(r) /\ Deleting(r)
  BY Facts
<1>r. req'[r] = x /\ \A q \in Requests \ {r} : req'[q] = req[q]
  BY <1>f
<1>u. owner' = owner
  BY DEF rows
<1>1. Placed(r)' /\ Creating(r)' /\ Uploading(r)' /\ Deleting(r)'
  BY <1>r, <1>f, <1>u DEF Placed, Creating, Uploading, Deleting
<1>2. \A q \in Requests \ {r} : Apart(r, q)'
  BY <1>r DEF Apart
<1>3. req[r].at # "write" /\ x.at # "write"
  BY <1>f DEF Placed
<1> QED BY <1>1, <1>2, <1>3, Quiet

LEMMA DeletesAccount == ASSUME IInv, NEW r \in Requests, DeleteAccount(r) PROVE IInv'
<1> DEFINE x == [req[r] EXCEPT !.at = "cascade"]
<1>f. /\ req \in [Requests -> Request] /\ req[r] \in Request /\ faults \in 0 .. MaxFaults
      /\ \A q \in Requests \ {r} : Apart(q, r)
  BY Facts
<1>a. /\ req[r].op = "delete" /\ req[r].at = "lock"
      /\ \A q \in Requests \ {r} : ~ SharesAccount(q, req[r].account)
      /\ req' = [req EXCEPT ![r] = x] /\ UNCHANGED <<rows, blob, cut, faults>>
  BY DEF DeleteAccount, Others
<1>x. /\ x.op = "delete" /\ x.at = "cascade" /\ x.account = req[r].account
      /\ x.case = req[r].case /\ x.keys = req[r].keys /\ x.purged = req[r].purged
      /\ x \in Request
  BY <1>f, <1>a DEF Request
<1>r. req'[r] = x /\ \A q \in Requests \ {r} : req'[q] = req[q]
  BY <1>a, <1>f
<1>u. accounts' = accounts
  BY <1>a DEF rows
<1> HIDE DEF x
<1>1. ASSUME NEW q \in Requests \ {r} PROVE Apart(q, r)'
  <2>1. ~ SharesAccount(q, req[r].account) /\ Apart(q, r) /\ req'[q] = req[q]
    BY <1>a, <1>f, <1>r
  <2> QED BY <2>1, <1>r, <1>x, <1>u DEF Apart, SharesAccount, TakesAccount, TakesCases
<1> QED BY <1>a, <1>f, <1>x, <1>1, Proceeds

LEMMA Cascades == ASSUME IInv, NEW r \in Requests, DeleteCascade(r) PROVE IInv'
<1> DEFINE x == [req[r] EXCEPT !.at = "purge"]
<1>f. /\ req \in [Requests -> Request] /\ req[r] \in Request /\ faults \in 0 .. MaxFaults
      /\ Placed(r) /\ \A q \in Requests : Uploading(q)
      /\ \A q \in Requests \ {r} : Apart(q, r)
  BY Facts
<1>a. /\ req[r].at = "cascade"
      /\ \A q \in Requests \ {r} : \A c \in Owned(req[r].account) : ~ SharesCase(q, c)
      /\ req' = [req EXCEPT ![r] = x] /\ UNCHANGED <<rows, blob, cut, faults>>
  BY DEF DeleteCascade, Others
<1>o. req[r].op = "delete"
  BY <1>f, <1>a DEF Placed, Request
<1>x. /\ x.op = "delete" /\ x.at = "purge" /\ x.account = req[r].account
      /\ x.case = req[r].case /\ x.keys = req[r].keys /\ x.purged = req[r].purged
      /\ x \in Request
  BY <1>f, <1>o DEF Request
<1>r. req'[r] = x /\ \A q \in Requests \ {r} : req'[q] = req[q]
  BY <1>a, <1>f
<1>u. accounts' = accounts
  BY <1>a DEF rows
<1> HIDE DEF x
<1>1. ASSUME NEW q \in Requests \ {r} PROVE Apart(q, r)'
  <2>1. Apart(q, r) /\ Uploading(q) /\ req'[q] = req[q]
    BY <1>f, <1>r
  <2>2. req[q].op = "upload" /\ req[q].at \in {"audit", "return"} => req[q].account # req[r].account
    BY <2>1, <1>a DEF Uploading, Owned, SharesCase
  <2> QED BY <2>1, <2>2, <1>r, <1>x, <1>u, <1>a, <1>o DEF Apart, TakesAccount, TakesCases
<1> QED BY <1>a, <1>f, <1>o, <1>x, <1>1, Proceeds

LEMMA FailsToPurge == ASSUME IInv, NEW r \in Requests, NEW k \in Keys, PurgeFails(r, k) PROVE IInv'
<1> DEFINE x == [req[r] EXCEPT !.keys = @ \ {k}]
<1>f. /\ req \in [Requests -> Request] /\ req[r] \in Request /\ faults \in 0 .. MaxFaults
      /\ Placed(r) /\ \A q \in Requests \ {r} : Apart(q, r)
  BY Facts
<1>a. /\ req[r].at = "purge" /\ faults < MaxFaults /\ faults' = faults + 1
      /\ req' = [req EXCEPT ![r] = x] /\ UNCHANGED <<rows, blob, cut>>
  BY DEF PurgeFails
<1>o. req[r].op = "delete"
  BY <1>f, <1>a DEF Placed, Request
<1>x. /\ x.op = req[r].op /\ x.at = req[r].at /\ x.account = req[r].account
      /\ x.case = req[r].case /\ x.keys \subseteq req[r].keys /\ x.purged = req[r].purged
      /\ x \in Request
  BY <1>f DEF Request
<1>r. req'[r] = x /\ \A q \in Requests \ {r} : req'[q] = req[q]
  BY <1>a, <1>f
<1>u. accounts' = accounts
  BY <1>a DEF rows
<1> HIDE DEF x
<1>1. ASSUME NEW q \in Requests \ {r} PROVE Apart(q, r)'
  <2>1. Apart(q, r) /\ req'[q] = req[q]
    BY <1>f, <1>r
  <2> QED BY <2>1, <1>r, <1>x, <1>u, <1>a, <1>o DEF Apart, TakesAccount, TakesCases
<1>2. faults' \in 0 .. MaxFaults
  BY <1>f, <1>a, FaultsAssumption
<1> QED BY <1>a, <1>f, <1>o, <1>x, <1>1, <1>2, Proceeds
-----------------------------------------------------------------------------
\* The steps on files: no row changes, no request changes its subject, and what accounts for
\* a document's bytes is lost nowhere.
LEMMA Files ==
  ASSUME IInv, req' \in [Requests -> Request], UNCHANGED <<rows, cut, faults>>,
         blob' \in [Keys -> {"absent", "partial", "whole"}],
         \A q \in Requests :
            /\ req'[q].op = req[q].op /\ req'[q].account = req[q].account
            /\ req'[q].case = req[q].case /\ req'[q].content = req[q].content
            /\ \/ req'[q].at = req[q].at
               \/ req[q].op = "upload" /\ req[q].at \in {"open", "write"}
                  /\ req'[q].at \in {"write", "extract"}
            /\ req'[q].keys \cup req'[q].purged \subseteq req[q].keys \cup req[q].purged
            /\ req'[q].at # "purge" => req'[q].purged = {}
            /\ Stored(q)' => Sound(Key(q))',
         \A k \in Keys : Sound(k) => Sound(k)'
  PROVE  IInv'
<1>t. TypeOK /\ Rows
  BY DEF IInv
<1>u. /\ accounts' = accounts /\ owner' = owner /\ cases' = cases /\ documents' = documents
      /\ jobs' = jobs /\ opened' = opened /\ uploaded' = uploaded /\ cut' = cut /\ faults' = faults
  BY DEF rows
<1>1. TypeOK'
  BY <1>t, <1>u DEF TypeOK
<1>2. Rows'
  <2>1. JobWithDocument' /\ TrailMatches'
    BY <1>t, <1>u DEF Rows, JobWithDocument, TrailMatches
  <2>2. \A d \in documents : Sound(d)'
    BY <1>t DEF Rows, TypeOK, Keys
  <2> QED BY <2>1, <2>2, <1>t, <1>u DEF Rows
<1>3. ASSUME NEW q \in Requests PROVE Good(q)'
  <2>1. Placed(q) /\ Creating(q) /\ Uploading(q) /\ Deleting(q)
    BY DEF IInv, Good
  <2>2. Placed(q)'
    BY <2>1 DEF Placed
  <2>3. Creating(q)' /\ Uploading(q)' /\ Deleting(q)'
    BY <2>1, <1>u DEF Creating, Uploading, Deleting, Key
  <2> QED BY <2>2, <2>3 DEF Good, Backed
<1>4. ASSUME NEW p \in Requests, NEW q \in Requests, p # q PROVE Apart(p, q)'
  <2>1. Apart(p, q)
    BY <1>4 DEF IInv
  <2>2. TakesAccount(q, req[p].account)' => TakesAccount(q, req[p].account)
    BY <1>u DEF TakesAccount
  <2>3. TakesCases(q, req[p].account)' => TakesCases(q, req[p].account)
    BY <2>2 DEF TakesCases
  <2> QED BY <2>1, <2>2, <2>3 DEF Apart, Key
<1> QED BY <1>1, <1>2, <1>3, <1>4 DEF IInv

\* An upload works on a key of the store.
LEMMA KeyOfUpload ==
  ASSUME IInv, NEW r \in Requests, req[r].at \in {"open", "write", "extract", "audit"}
  PROVE  req[r].op = "upload" /\ Key(r) \in Keys /\ Key(r) = <<req[r].case, req[r].content>>
<1>1. Placed(r) /\ Uploading(r) /\ req[r] \in Request
  BY Facts
<1>2. req[r].op = "upload"
  BY <1>1 DEF Placed, Request
<1> QED BY <1>1, <1>2 DEF Uploading, Key, storage_key, Keys

LEMMA StoredSound ==
  ASSUME IInv, NEW r \in Requests, Stored(r)
  PROVE  Key(r) \in Keys /\ Sound(Key(r)) /\ req[r].op = "upload"
<1>1. Placed(r) /\ Uploading(r) /\ Backed(r) /\ req[r] \in Request
  BY Facts
<1>2. req[r].op = "upload"
  BY <1>1 DEF Placed, Stored, Request
<1> QED BY <1>1, <1>2 DEF Backed, Uploading, Key, storage_key, Keys

LEMMA OpensBlob == ASSUME IInv, NEW r \in Requests, OpenBlob(r) PROVE IInv'
<1>f. /\ TypeOK /\ req \in [Requests -> Request] /\ Placed(r)
      /\ \A q \in Requests : req[q] \in Request /\ Placed(q) /\ Backed(q)
  BY Facts
<1>a. /\ req[r].at = "open" /\ UNCHANGED <<rows, cut, faults>>
      /\ blob' = [blob EXCEPT ![Key(r)] = "partial"]
      /\ req' = [q \in Requests |->
                  IF q = r THEN [req[q] EXCEPT !.at = "write", !.fd = "sole"]
                  ELSE IF Writing(q, Key(r)) /\ req[q].fd = "sole" THEN [req[q] EXCEPT !.fd = "torn"]
                  ELSE req[q]]
  BY DEF OpenBlob
<1>k. req[r].op = "upload" /\ Key(r) \in Keys
  BY <1>a, KeyOfUpload
<1>u. owner' = owner /\ cases' = cases /\ cut' = cut
  BY <1>a DEF rows
<1>1. ASSUME NEW q \in Requests
      PROVE  /\ req'[q] \in Request
             /\ req'[q].op = req[q].op /\ req'[q].account = req[q].account
             /\ req'[q].case = req[q].case /\ req'[q].content = req[q].content
             /\ req'[q].keys = req[q].keys /\ req'[q].purged = req[q].purged
             /\ req'[q].at = IF q = r THEN "write" ELSE req[q].at
             /\ q = r => req'[q].fd = "sole"
             /\ q # r /\ req'[q].fd # req[q].fd => Writing(q, Key(r))
  BY <1>a, <1>f DEF Request
<1>2. req' \in [Requests -> Request]
  BY <1>1, <1>a
<1>3. \A q \in Requests : Key(q)' = Key(q)
  BY <1>1 DEF Key
<1>4. Filling(r, Key(r))'
  BY <1>1, <1>3 DEF Filling, Writing
<1>5. ASSUME NEW k \in Keys, Sound(k) PROVE Sound(k)'
  <2>1. CASE k = Key(r)
    BY <2>1, <1>4, <1>3 DEF Sound
  <2>2. CASE k # Key(r)
    <3>1. blob'[k] = blob[k]
      BY <2>2, <1>a, <1>f DEF TypeOK
    <3>2. ASSUME NEW q \in Requests, Filling(q, k) PROVE Filling(q, k)'
      BY <3>2, <2>2, <1>1, <1>3, <1>a DEF Filling, Writing
    <3>3. ASSUME NEW q \in Requests, Purging(q, k) PROVE Purging(q, k)'
      BY <3>3, <1>1, <1>u DEF Purging
    <3> QED BY <1>5, <3>1, <3>2, <3>3, <1>u DEF Sound
  <2> QED BY <2>1, <2>2
<1>6. ASSUME NEW q \in Requests, Stored(q)' PROVE Sound(Key(q))'
  <2>1. q # r
    BY <1>6, <1>1 DEF Stored
  <2>2. CASE Stored(q)
    <3>1. Key(q) \in Keys /\ Sound(Key(q))
      BY <2>2, StoredSound
    <3> QED BY <3>1, <1>5, <1>3
  <2>3. CASE ~ Stored(q)
    <3>1. Key(q) = Key(r)
      BY <2>1, <2>3, <1>6, <1>1 DEF Stored, Writing
    <3> QED BY <3>1, <1>3, <1>4 DEF Sound
  <2> QED BY <2>2, <2>3
<1>7. blob' \in [Keys -> {"absent", "partial", "whole"}]
  BY <1>a, <1>f DEF TypeOK
<1>8. \A q \in Requests : req[q].at # "purge" => req[q].purged = {}
  BY <1>f DEF Placed
<1>9. ASSUME NEW q \in Requests
      PROVE  /\ \/ req'[q].at = req[q].at
                \/ req[q].op = "upload" /\ req[q].at \in {"open", "write"}
                   /\ req'[q].at \in {"write", "extract"}
             /\ req'[q].at # "purge" => req'[q].purged = {}
  BY <1>1, <1>8, <1>a, <1>k, ZenonT(60)
<1> QED BY <1>1, <1>2, <1>5, <1>6, <1>7, <1>9, <1>a, Files
LEMMA WritesBlob == ASSUME IInv, NEW r \in Requests, WriteBlob(r) PROVE IInv'
<1> DEFINE x == [req[r] EXCEPT !.at = "extract", !.fd = "none"]
<1>f. /\ TypeOK /\ req \in [Requests -> Request] /\ req[r] \in Request
      /\ \A q \in Requests : Placed(q)
  BY Facts
<1>a. /\ req[r].at = "write" /\ UNCHANGED <<rows, cut, faults>>
      /\ \/ blob' = [blob EXCEPT ![Key(r)] = "whole"]
         \/ req[r].fd # "sole" /\ blob' = blob
      /\ req' = [req EXCEPT ![r] = x]
  BY DEF WriteBlob
<1>k. req[r].op = "upload" /\ Key(r) \in Keys
  BY <1>a, KeyOfUpload
<1>u. owner' = owner /\ cases' = cases /\ cut' = cut
  BY <1>a DEF rows
<1>x. /\ x.op = req[r].op /\ x.at = "extract" /\ x.account = req[r].account
      /\ x.case = req[r].case /\ x.content = req[r].content /\ x.keys = req[r].keys
      /\ x.purged = req[r].purged /\ x.fd = "none" /\ x \in Request
  BY <1>f DEF Request
<1>r. req'[r] = x /\ \A q \in Requests \ {r} : req'[q] = req[q]
  BY <1>a, <1>f
<1> HIDE DEF x
<1>1. req' \in [Requests -> Request] /\ blob' \in [Keys -> {"absent", "partial", "whole"}]
  BY <1>a, <1>f, <1>x DEF TypeOK
<1>2. \A q \in Requests : Key(q)' = Key(q)
  BY <1>r, <1>x DEF Key
<1>3. ASSUME NEW k \in Keys, Sound(k) PROVE Sound(k)'
  <2>1. CASE blob'[k] = "whole"
    BY <2>1 DEF Sound
  <2>2. CASE blob'[k] # "whole"
    <3>1. blob'[k] = blob[k] /\ ~ Filling(r, k)
      BY <2>2, <1>a, <1>f, <1>k DEF TypeOK, Filling, Writing
    <3>2. ASSUME NEW q \in Requests, Filling(q, k) PROVE Filling(q, k)'
      BY <3>1, <3>2, <1>r, <1>2 DEF Filling, Writing
    <3>3. ASSUME NEW q \in Requests, Purging(q, k) PROVE Purging(q, k)'
      BY <3>3, <1>r, <1>x, <1>u DEF Purging
    <3> QED BY <1>3, <3>1, <3>2, <3>3, <1>u DEF Sound
  <2> QED BY <2>1, <2>2
<1>4. ASSUME NEW q \in Requests, Stored(q)' PROVE Sound(Key(q))'
  <2>1. CASE Stored(q)
    BY <2>1, StoredSound, <1>3, <1>2
  <2>2. CASE ~ Stored(q)
    <3>1. q = r /\ req[r].fd = "sole"
      BY <2>2, <1>4, <1>r, <1>a DEF Stored
    <3>2. blob'[Key(r)] = "whole"
      BY <3>1, <1>a, <1>k, <1>f DEF TypeOK
    <3> QED BY <3>1, <3>2, <1>2 DEF Sound
  <2> QED BY <2>1, <2>2
<1>5. ASSUME NEW q \in Requests
      PROVE  /\ req'[q].op = req[q].op /\ req'[q].account = req[q].account
             /\ req'[q].case = req[q].case /\ req'[q].content = req[q].content
             /\ \/ req'[q].at = req[q].at
                \/ req[q].op = "upload" /\ req[q].at \in {"open", "write"}
                   /\ req'[q].at \in {"write", "extract"}
             /\ req'[q].keys \cup req'[q].purged \subseteq req[q].keys \cup req[q].purged
             /\ req'[q].at # "purge" => req'[q].purged = {}
  BY <1>r, <1>x, <1>a, <1>k, <1>f DEF Placed
<1> QED BY <1>1, <1>3, <1>4, <1>5, <1>a, Files

LEMMA Purges == ASSUME IInv, NEW r \in Requests, NEW k \in Keys, PurgeObject(r, k) PROVE IInv'
<1>f. /\ TypeOK /\ req \in [Requests -> Request] /\ Placed(r) /\ Deleting(r)
      /\ \A q \in Requests : req[q] \in Request /\ Placed(q)
  BY Facts
<1>a. /\ req[r].at = "purge" /\ k \in req[r].keys /\ UNCHANGED <<rows, cut, faults>>
      /\ blob' = [blob EXCEPT ![k] = "absent"]
      /\ req' = [q \in Requests |->
                  IF q = r THEN [req[q] EXCEPT !.keys = @ \ {k}, !.purged = @ \cup {k}]
                  ELSE IF Writing(q, k) THEN [req[q] EXCEPT !.fd = "gone"]
                  ELSE req[q]]
  BY DEF PurgeObject
<1>o. req[r].op = "delete"
  BY <1>f, <1>a DEF Placed, Request
<1>u. owner' = owner /\ cases' = cases /\ cut' = cut
  BY <1>a DEF rows
<1>1. ASSUME NEW q \in Requests
      PROVE  /\ req'[q] \in Request
             /\ req'[q].op = req[q].op /\ req'[q].account = req[q].account
             /\ req'[q].case = req[q].case /\ req'[q].content = req[q].content
             /\ req'[q].at = req[q].at /\ req[q].purged \subseteq req'[q].purged
             /\ req'[q].keys \cup req'[q].purged \subseteq req[q].keys \cup req[q].purged
             /\ q = r => k \in req'[q].purged
             /\ q # r => req'[q].purged = req[q].purged
             /\ req'[q].fd # req[q].fd => Writing(q, k)
  <2>1. CASE q = r
    BY <2>1, <1>a, <1>f, ZenonT(60) DEF Request
  <2>2. CASE q # r /\ Writing(q, k)
    <3>1. req'[q] = [req[q] EXCEPT !.fd = "gone"] /\ req[q] \in Request
      BY <2>2, <1>a, <1>f
    <3> QED BY <3>1, <2>2, <1>a DEF Request
  <2>3. CASE q # r /\ ~ Writing(q, k)
    <3>1. req'[q] = req[q] /\ req[q] \in Request
      BY <2>3, <1>a, <1>f
    <3> QED BY <3>1, <2>3
  <2> QED BY <2>1, <2>2, <2>3
<1>2. req' \in [Requests -> Request]
  BY <1>1, <1>a
<1>3. \A q \in Requests : Key(q)' = Key(q)
  BY <1>1 DEF Key
<1>4. Purging(r, k)'
  BY <1>1, <1>f, <1>a, <1>o, <1>u DEF Purging, Deleting
<1>5. ASSUME NEW l \in Keys, Sound(l) PROVE Sound(l)'
  <2>1. CASE l = k
    BY <2>1, <1>4 DEF Sound
  <2>2. CASE l # k
    <3>1. blob'[l] = blob[l]
      BY <2>2, <1>a, <1>f DEF TypeOK
    <3>2. ASSUME NEW q \in Requests, Filling(q, l) PROVE Filling(q, l)'
      BY <3>2, <2>2, <1>1, <1>3 DEF Filling, Writing
    <3>3. ASSUME NEW q \in Requests, Purging(q, l) PROVE Purging(q, l)'
      BY <3>3, <1>1, <1>u DEF Purging
    <3> QED BY <1>5, <3>1, <3>2, <3>3, <1>u DEF Sound
  <2> QED BY <2>1, <2>2
<1>6. ASSUME NEW q \in Requests, Stored(q)' PROVE Sound(Key(q))'
  <2>1. CASE Stored(q)
    BY <2>1, StoredSound, <1>5, <1>3
  <2>2. CASE ~ Stored(q)
    <3>1. Key(q) = k
      BY <2>2, <1>6, <1>1 DEF Stored, Writing
    <3> QED BY <3>1, <1>3, <1>4 DEF Sound
  <2> QED BY <2>1, <2>2
<1>7. blob' \in [Keys -> {"absent", "partial", "whole"}]
  BY <1>a, <1>f DEF TypeOK
<1>8. ASSUME NEW q \in Requests, req'[q].at # "purge" PROVE req'[q].purged = {}
  <2>1. q # r /\ req[q].at # "purge" /\ req'[q].purged = req[q].purged
    BY <1>8, <1>1, <1>a
  <2> QED BY <2>1, <1>f DEF Placed
<1> QED BY <1>1, <1>2, <1>5, <1>6, <1>7, <1>8, <1>a, Files

-----------------------------------------------------------------------------
\* A request that ends with its rows and files changed: what is to be shown is about the rows
\* and the other requests.
LEMMA EndsWith ==
  ASSUME NEW r \in Requests, End(r), req \in [Requests -> Request], TypeOK', Rows',
         \A q \in Requests \ {r} : Good(q)',
         \A p, q \in Requests \ {r} : p # q => Apart(p, q)'
  PROVE  IInv'
<1>e. req' = [req EXCEPT ![r] = Idle]
  BY DEF End
<1>r. req'[r] = Idle
  BY <1>e
<1>1. Good(r)'
  BY <1>r, IdleTyped DEF Good, Placed, Creating, Uploading, Deleting, Backed, Stored
<1>2. ASSUME NEW q \in Requests \ {r} PROVE Apart(r, q)' /\ Apart(q, r)'
  BY <1>r, IdleTyped DEF Apart, TakesAccount, TakesCases
<1> QED BY <1>1, <1>2 DEF IInv

LEMMA Fails == ASSUME IInv, NEW r \in Requests, Fail(r) PROVE IInv'
<1>f. /\ TypeOK /\ Rows /\ req \in [Requests -> Request] /\ req[r] \in Request
      /\ \A q \in Requests : Placed(q) /\ Creating(q) /\ Uploading(q) /\ Deleting(q) /\ Backed(q)
  BY Facts
<1>a. /\ faults < MaxFaults /\ faults' = faults + 1 /\ End(r) /\ UNCHANGED <<rows, blob>>
      /\ cut' = cut \cup req[r].purged \cup (IF req[r].at = "write" THEN {Key(r)} ELSE {})
  BY DEF Fail
<1>u. /\ accounts' = accounts /\ owner' = owner /\ cases' = cases /\ documents' = documents
      /\ jobs' = jobs /\ opened' = opened /\ uploaded' = uploaded /\ blob' = blob
  BY <1>a DEF rows
<1>e. req' = [req EXCEPT ![r] = Idle]
  BY <1>a DEF End
<1>r. req'[r] = Idle /\ \A q \in Requests \ {r} : req'[q] = req[q]
  BY <1>e, <1>f
<1>1. TypeOK'
  <2>1. cut' \subseteq Keys
    BY <1>a, <1>f, KeyOfUpload DEF TypeOK, Request
  <2>2. faults' \in 0 .. MaxFaults
    BY <1>a, <1>f, FaultsAssumption DEF TypeOK
  <2>3. req' \in [Requests -> Request]
    BY <1>e, <1>f, IdleTyped
  <2> QED BY <2>1, <2>2, <2>3, <1>u, <1>f DEF TypeOK
<1>2. ASSUME NEW k, Sound(k) PROVE Sound(k)'
  <2>1. Filling(r, k) \/ Purging(r, k) => k \in cut'
    BY <1>a DEF Filling, Writing, Purging
  <2>2. ASSUME NEW q \in Requests \ {r}, Filling(q, k) \/ Purging(q, k)
        PROVE  Filling(q, k)' \/ Purging(q, k)'
    BY <2>2, <1>r, <1>u DEF Filling, Writing, Purging, Key
  <2>3. cut \subseteq cut'
    BY <1>a
  <2> QED BY <1>2, <2>1, <2>2, <2>3, <1>u DEF Sound
<1>3. Rows'
  <2>1. JobWithDocument' /\ TrailMatches'
    BY <1>f, <1>u DEF Rows, JobWithDocument, TrailMatches
  <2> QED BY <2>1, <1>2, <1>f, <1>u DEF Rows
<1>4. ASSUME NEW q \in Requests \ {r} PROVE Good(q)'
  <2>1. Placed(q)' /\ Creating(q)' /\ Uploading(q)' /\ Deleting(q)'
    BY <1>f, <1>r, <1>u DEF Placed, Creating, Uploading, Deleting, Key
  <2>2. Backed(q)'
    BY <1>f, <1>r, <1>2 DEF Backed, Stored, Key
  <2> QED BY <2>1, <2>2 DEF Good
<1>5. ASSUME NEW p \in Requests \ {r}, NEW q \in Requests \ {r}, p # q PROVE Apart(p, q)'
  <2>1. Apart(p, q)
    BY <1>5 DEF IInv
  <2> QED BY <2>1, <1>r, <1>u DEF Apart, Key, TakesAccount, TakesCases
<1> QED BY <1>1, <1>3, <1>4, <1>5, <1>a, <1>f, EndsWith
-----------------------------------------------------------------------------
LEMMA CommitsCreate == ASSUME IInv, NEW r \in Requests, CommitCreate(r) PROVE IInv'
<1> DEFINE c == req[r].case
           a == req[r].account
<1>f. /\ TypeOK /\ Rows /\ req \in [Requests -> Request] /\ Creating(r)
      /\ \A q \in Requests : Placed(q) /\ Creating(q) /\ Uploading(q) /\ Deleting(q) /\ Backed(q)
      /\ \A q \in Requests \ {r} : Apart(r, q)
  BY Facts
<1>a. /\ req[r].op = "create" /\ req[r].at = "return" /\ End(r)
      /\ cases' = cases \cup {c} /\ owner' = [owner EXCEPT ![c] = a]
      /\ opened' = [opened EXCEPT ![c] = "named"]
      /\ UNCHANGED <<accounts, documents, jobs, uploaded, blob, cut, faults>>
  BY DEF CommitCreate
<1>e. req' = [req EXCEPT ![r] = Idle]
  BY <1>a DEF End
<1>r. req'[r] = Idle /\ \A q \in Requests \ {r} : req'[q] = req[q]
  BY <1>e, <1>f
<1>c. c \in Cases /\ owner[c] = None /\ a \in accounts /\ a \in Accounts
  BY <1>f, <1>a DEF Creating, TypeOK
<1>n. None \notin Accounts /\ None \notin accounts
  BY <1>f, NoneAssumption DEF TypeOK
<1>o. /\ owner'[c] = a /\ \A b \in Cases \ {c} : owner'[b] = owner[b]
      /\ opened'[c] = "named" /\ \A b \in Cases \ {c} : opened'[b] = opened[b]
  BY <1>a, <1>c, <1>f DEF TypeOK
<1>d. c \notin cases /\ \A d \in documents : d[1] \in cases /\ d[1] # c
  BY <1>c, <1>n, <1>f DEF Rows, TypeOK
<1> HIDE DEF c, a
<1>1. TypeOK'
  <2>1. req' \in [Requests -> Request]
    BY <1>e, <1>f, IdleTyped
  <2>2. owner' \in [Cases -> Accounts \cup {None}] /\ opened' \in [Cases -> AuditRow]
    BY <1>a, <1>c, <1>f DEF TypeOK, AuditRow
  <2> QED BY <2>1, <2>2, <1>a, <1>c, <1>f DEF TypeOK
<1>2. ASSUME NEW k \in Keys, k[1] # c, Sound(k) PROVE Sound(k)'
  <2>1. k[1] \in Cases /\ owner'[k[1]] = owner[k[1]] /\ (k[1] \notin cases => k[1] \notin cases')
    BY <1>2, <1>o, <1>a DEF Keys
  <2>2. ~ Filling(r, k) /\ ~ Purging(r, k)
    BY <1>a, <1>f DEF Filling, Writing, Purging, Placed
  <2>3. ASSUME NEW q \in Requests \ {r}, Filling(q, k) \/ Purging(q, k)
        PROVE  Filling(q, k)' \/ Purging(q, k)'
    BY <2>3, <2>1, <1>r DEF Filling, Writing, Purging, Key
  <2> QED BY <1>2, <2>1, <2>2, <2>3, <1>a DEF Sound
<1>3. Rows'
  <2>1. JobWithDocument'
    BY <1>f, <1>a DEF Rows, JobWithDocument
  <2>2. TrailMatches'
    <3>1. TrailMatches
      BY <1>f DEF Rows
    <3>2. \A b \in Cases : opened'[b] = "named" <=> b \in cases'
      BY <3>1, <1>a, <1>o DEF TrailMatches
    <3>3. \A b \in Cases : owner'[b] # None => opened'[b] # "none"
      BY <3>1, <1>o DEF TrailMatches
    <3> QED BY <3>1, <3>2, <3>3, <1>a DEF TrailMatches
  <2>3. \A b \in cases' : owner'[b] \in accounts'
    BY <1>f, <1>a, <1>o, <1>c DEF Rows, TypeOK
  <2>4. \A d \in documents' : Sound(d)'
    BY <1>2, <1>d, <1>a, <1>f DEF Rows, TypeOK, Keys
  <2> QED BY <2>1, <2>2, <2>3, <2>4 DEF Rows
<1>4. ASSUME NEW q \in Requests \ {r} PROVE Good(q)'
  <2>1. /\ req'[q] = req[q] /\ Placed(q) /\ Creating(q) /\ Uploading(q) /\ Deleting(q)
        /\ req[q] \in Request
    BY <1>f, <1>r
  <2>2. Placed(q)'
    BY <2>1 DEF Placed
  <2>3. Creating(q)'
    <3>1. req[q].op = "create" => req[q].case # c
      BY <1>f, <1>a DEF Apart, c
    <3> QED BY <2>1, <3>1, <1>o, <1>a DEF Creating
  <2>4. Uploading(q)'
    <3>1. req[q].op = "upload" => req[q].case # c
      BY <2>1, <1>c, <1>n DEF Uploading
    <3> QED BY <2>1, <3>1, <1>o, <1>a DEF Uploading, Key
  <2>5. Deleting(q)'
    <3>1. SUFFICES ASSUME req[q].op = "delete", NEW k \in req[q].keys \cup req[q].purged
                   PROVE  owner'[k[1]] = req[q].account
      BY <2>1 DEF Deleting
    <3>2. k \in Keys /\ owner[k[1]] = req[q].account /\ req[q].account \in Accounts
      BY <3>1, <2>1 DEF Deleting, Request
    <3> QED BY <3>2, <1>c, <1>n, <1>o DEF Keys
  <2>6. Backed(q)'
    <3>1. ASSUME Stored(q) PROVE Sound(Key(q))'
      <4>1. Key(q) \in Keys /\ Sound(Key(q)) /\ req[q].op = "upload"
        BY <3>1, StoredSound
      <4>2. Key(q)[1] # c
        BY <4>1, <2>1, <1>c, <1>n DEF Uploading, Key, storage_key
      <4>3. Key(q)' = Key(q)
        BY <2>1 DEF Key
      <4> QED BY <4>1, <4>2, <4>3, <1>2
    <3> QED BY <3>1, <2>1 DEF Backed, Stored
  <2> QED BY <2>2, <2>3, <2>4, <2>5, <2>6 DEF Good
<1>5. ASSUME NEW p \in Requests \ {r}, NEW q \in Requests \ {r}, p # q PROVE Apart(p, q)'
  <2>1. Apart(p, q)
    BY <1>5 DEF IInv
  <2> QED BY <2>1, <1>r, <1>a DEF Apart, Key, TakesAccount, TakesCases
<1> QED BY <1>1, <1>3, <1>4, <1>5, <1>a, <1>f, EndsWith
LEMMA CommitsUpload == ASSUME IInv, NEW r \in Requests, CommitUpload(r) PROVE IInv'
<1> DEFINE e == <<req[r].case, req[r].content>>
<1>f. /\ TypeOK /\ Rows /\ req \in [Requests -> Request] /\ Uploading(r)
      /\ \A q \in Requests : Placed(q) /\ Creating(q) /\ Uploading(q) /\ Deleting(q) /\ Backed(q)
      /\ \A q \in Requests \ {r} : Apart(r, q)
  BY Facts
<1>a. /\ req[r].op = "upload" /\ req[r].at = "return" /\ End(r)
      /\ documents' = documents \cup {e}
      /\ jobs' = IF e[2] \in Scanned THEN jobs \cup {e} ELSE jobs
      /\ uploaded' = [uploaded EXCEPT ![e] = "named"]
      /\ UNCHANGED <<accounts, owner, cases, opened, blob, cut, faults>>
  BY DEF CommitUpload
<1>e. req' = [req EXCEPT ![r] = Idle]
  BY <1>a DEF End
<1>r. req'[r] = Idle /\ \A q \in Requests \ {r} : req'[q] = req[q]
  BY <1>e, <1>f
<1>k. /\ e = Key(r) /\ e \in Keys /\ e[1] \in cases /\ e[2] \in Contents /\ e \notin documents
      /\ e \in cases \X Contents
  BY <1>f, <1>a DEF Uploading, Key, storage_key, Keys
<1>o. uploaded'[e] = "named" /\ \A k \in Keys \ {e} : uploaded'[k] = uploaded[k]
  BY <1>a, <1>k, <1>f DEF TypeOK
<1> HIDE DEF e
<1>1. TypeOK'
  <2>1. req' \in [Requests -> Request]
    BY <1>e, <1>f, IdleTyped
  <2>2. uploaded' \in [Keys -> AuditRow]
    BY <1>a, <1>k, <1>f DEF TypeOK, AuditRow
  <2> QED BY <2>1, <2>2, <1>a, <1>k, <1>f DEF TypeOK
<1>2. ASSUME NEW k \in Keys, Sound(k) PROVE Sound(k)'
  <2>1. ~ Filling(r, k) /\ ~ Purging(r, k)
    BY <1>a, <1>f DEF Filling, Writing, Purging, Placed
  <2>2. ASSUME NEW q \in Requests \ {r}, Filling(q, k) \/ Purging(q, k)
        PROVE  Filling(q, k)' \/ Purging(q, k)'
    BY <2>2, <1>a, <1>r DEF Filling, Writing, Purging, Key
  <2> QED BY <1>2, <2>1, <2>2, <1>a DEF Sound
<1>3. Rows'
  <2>1. JobWithDocument'
    <3>1. /\ \A d \in documents : d[2] \in Scanned => d \in jobs
          /\ \A d \in jobs : d \in Keys /\ uploaded[d] # "none"
      BY <1>f DEF Rows, JobWithDocument, TypeOK
    <3>2. \A d \in jobs' : uploaded'[d] # "none"
      BY <3>1, <1>a, <1>o
    <3>3. \A d \in documents' : d[2] \in Scanned => d \in jobs'
      BY <3>1, <1>a
    <3> QED BY <3>2, <3>3 DEF JobWithDocument
  <2>2. TrailMatches'
    <3>1. TrailMatches
      BY <1>f DEF Rows
    <3>2. \A k \in Keys : uploaded'[k] = "named" <=> k \in documents'
      BY <3>1, <1>a, <1>o DEF TrailMatches
    <3> QED BY <3>1, <3>2, <1>a DEF TrailMatches
  <2>3. \A d \in documents' : Sound(d)'
    <3>1. Sound(e)
      BY <1>a, <1>k, StoredSound DEF Stored
    <3>2. \A d \in documents : d \in Keys /\ Sound(d)
      BY <1>f DEF Rows, TypeOK, Keys
    <3> QED BY <3>1, <3>2, <1>2, <1>k, <1>a
  <2> QED BY <2>1, <2>2, <2>3, <1>f, <1>a DEF Rows
<1>4. ASSUME NEW q \in Requests \ {r} PROVE Good(q)'
  <2>1. /\ req'[q] = req[q] /\ Placed(q) /\ Creating(q) /\ Uploading(q) /\ Deleting(q)
        /\ Apart(r, q)
    BY <1>f, <1>r
  <2>2. Placed(q)' /\ Creating(q)' /\ Deleting(q)'
    BY <2>1, <1>a DEF Placed, Creating, Deleting
  <2>3. Uploading(q)'
    <3>1. req[q].op = "upload" /\ req[q].at \in {"audit", "return"} => Key(q) # e
      BY <2>1, <1>a, <1>k DEF Apart
    <3> QED BY <2>1, <3>1, <1>a DEF Uploading, Key
  <2>4. Backed(q)'
    <3>1. ASSUME Stored(q) PROVE Sound(Key(q))'
      <4>1. Key(q) \in Keys /\ Sound(Key(q)) /\ Key(q)' = Key(q)
        BY <3>1, <2>1, StoredSound DEF Key
      <4> QED BY <4>1, <1>2
    <3> QED BY <3>1, <2>1 DEF Backed, Stored
  <2> QED BY <2>2, <2>3, <2>4 DEF Good
<1>5. ASSUME NEW p \in Requests \ {r}, NEW q \in Requests \ {r}, p # q PROVE Apart(p, q)'
  <2>1. Apart(p, q)
    BY <1>5 DEF IInv
  <2> QED BY <2>1, <1>r, <1>a DEF Apart, Key, TakesAccount, TakesCases
<1> QED BY <1>1, <1>3, <1>4, <1>5, <1>a, <1>f, EndsWith
LEMMA CommitsDelete == ASSUME IInv, NEW r \in Requests, CommitDelete(r) PROVE IInv'
<1> DEFINE a == req[r].account
<1>f. /\ TypeOK /\ Rows /\ req \in [Requests -> Request] /\ Placed(r)
      /\ req[r] \in Request
      /\ \A q \in Requests : Placed(q) /\ Creating(q) /\ Uploading(q) /\ Deleting(q) /\ Backed(q)
      /\ \A q \in Requests \ {r} : Apart(q, r)
  BY Facts
<1>a. /\ req[r].at = "purge" /\ End(r)
      /\ accounts' = accounts \ {a} /\ cases' = cases \ Owned(a)
      /\ documents' = {d \in documents : owner[d[1]] # a}
      /\ opened' = [c \in Cases |-> IF owner[c] = a THEN Anonymous(opened[c]) ELSE opened[c]]
      /\ uploaded' = [k \in Keys |-> IF owner[k[1]] = a THEN Anonymous(uploaded[k]) ELSE uploaded[k]]
      /\ UNCHANGED <<owner, jobs, blob, cut, faults>>
  BY DEF CommitDelete
<1>e. req' = [req EXCEPT ![r] = Idle]
  BY <1>a DEF End
<1>r. req'[r] = Idle /\ \A q \in Requests \ {r} : req'[q] = req[q]
  BY <1>e, <1>f
<1>t. \A b \in accounts : TakesAccount(r, b) /\ TakesCases(r, b) <=> b = a
  BY <1>f, <1>a DEF Placed, Request, TakesAccount, TakesCases
<1>n. \A row \in AuditRow : /\ Anonymous(row) \in AuditRow /\ Anonymous(row) # "named"
                            /\ row # "none" => Anonymous(row) # "none"
  BY DEF Anonymous, AuditRow
<1>c. cases' = {c \in cases : owner[c] # a}
  BY <1>a DEF Owned
<1>d. documents' \subseteq documents /\ \A d \in documents' : owner[d[1]] # a
  BY <1>a
<1> HIDE DEF a
<1>1. TypeOK'
  <2>1. req' \in [Requests -> Request]
    BY <1>e, <1>f, IdleTyped
  <2>2. opened' \in [Cases -> AuditRow] /\ uploaded' \in [Keys -> AuditRow]
    BY <1>a, <1>n, <1>f DEF TypeOK
  <2>3. documents' \subseteq cases' \X Contents
    BY <1>a, <1>c, <1>f DEF TypeOK
  <2> QED BY <2>1, <2>2, <2>3, <1>a, <1>f DEF TypeOK
<1>2. ASSUME NEW k, Sound(k) PROVE Sound(k)'
  <2>1. ~ Filling(r, k)
    BY <1>a DEF Filling, Writing
  <2>2. Purging(r, k) => k[1] \notin cases'
    BY <1>c DEF Purging, a
  <2>3. ASSUME NEW q \in Requests \ {r}, Filling(q, k) \/ Purging(q, k)
        PROVE  Filling(q, k)' \/ Purging(q, k)'
    BY <2>3, <1>a, <1>r DEF Filling, Writing, Purging, Key
  <2> QED BY <1>2, <2>1, <2>2, <2>3, <1>a, <1>c DEF Sound
<1>3. Rows'
  <2>1. JobWithDocument'
    <3>1. JobWithDocument /\ jobs \subseteq Keys
      BY <1>f DEF Rows, TypeOK
    <3>2. \A k \in Keys : uploaded[k] \in AuditRow /\ (uploaded[k] # "none" => uploaded'[k] # "none")
      BY <1>a, <1>n, <1>f DEF TypeOK
    <3> QED BY <3>1, <3>2, <1>a, <1>d DEF JobWithDocument
  <2>2. TrailMatches'
    <3>1. TrailMatches /\ opened \in [Cases -> AuditRow] /\ uploaded \in [Keys -> AuditRow]
      BY <1>f DEF Rows, TypeOK
    <3>2. \A c \in Cases : opened'[c] = "named" <=> c \in cases'
      BY <3>1, <1>a, <1>c, <1>n DEF TrailMatches
    <3>3. \A k \in Keys : uploaded'[k] = "named" <=> k \in documents'
      BY <3>1, <1>a, <1>n DEF TrailMatches
    <3>4. \A c \in Cases : owner'[c] # None => opened'[c] # "none"
      BY <3>1, <1>a, <1>n DEF TrailMatches
    <3> QED BY <3>2, <3>3, <3>4 DEF TrailMatches
  <2>3. \A d \in documents' : Sound(d)'
    BY <1>2, <1>d, <1>f DEF Rows
  <2>4. \A c \in cases' : owner'[c] \in accounts'
    BY <1>a, <1>c, <1>f DEF Rows
  <2> QED BY <2>1, <2>2, <2>3, <2>4 DEF Rows
<1>4. ASSUME NEW q \in Requests \ {r} PROVE Good(q)'
  <2>1. /\ req'[q] = req[q] /\ Placed(q) /\ Creating(q) /\ Uploading(q) /\ Deleting(q)
        /\ Backed(q) /\ Apart(q, r)
    BY <1>f, <1>r
  <2>2. Placed(q)' /\ Deleting(q)'
    BY <2>1, <1>a DEF Placed, Deleting
  <2>3. Creating(q)'
    BY <2>1, <1>a, <1>t DEF Creating, Apart, Placed
  <2>4. Uploading(q)'
    <3>1. req[q].op = "upload" /\ req[q].at \in {"audit", "return"} => req[q].case \in cases'
      <4>1. SUFFICES ASSUME req[q].op = "upload", req[q].at \in {"audit", "return"}
                     PROVE  req[q].case \in cases'
        OBVIOUS
      <4>2. /\ req[q].case \in cases /\ owner[req[q].case] = req[q].account
            /\ req[q].account \in accounts
        BY <4>1, <2>1, <1>f DEF Uploading, Rows
      <4>3. ~ TakesCases(r, req[q].account) /\ (req[q].at = "return" => ~ TakesAccount(r, req[q].account))
        BY <4>1, <2>1 DEF Apart
      <4>4. req[q].account # a
        BY <4>2, <4>3, <1>t
      <4> QED BY <4>2, <4>4, <1>c
    <3> QED BY <2>1, <3>1, <1>a, <1>d DEF Uploading, Key
  <2>5. Backed(q)'
    BY <2>1, <1>2 DEF Backed, Stored, Key
  <2> QED BY <2>2, <2>3, <2>4, <2>5 DEF Good
<1>5. ASSUME NEW p \in Requests \ {r}, NEW q \in Requests \ {r}, p # q PROVE Apart(p, q)'
  <2>1. Apart(p, q)
    BY <1>5 DEF IInv
  <2>2. Key(p)' = Key(p) /\ Key(q)' = Key(q)
    BY <1>r DEF Key
  <2> QED BY <2>1, <2>2, <1>r, <1>a DEF Apart, TakesAccount, TakesCases
<1> QED BY <1>1, <1>3, <1>4, <1>5, <1>a, <1>f, EndsWith
-----------------------------------------------------------------------------
LEMMA InitInv == Init => IInv
<1> SUFFICES ASSUME Init PROVE IInv
  OBVIOUS
<1>1. \A r \in Requests : req[r] = Idle
  BY DEF Init
<1>2. TypeOK
  BY IdleTyped, FaultsAssumption DEF Init, TypeOK, AuditRow
<1>3. Rows
  BY DEF Init, Rows, JobWithDocument, TrailMatches
<1>4. \A r \in Requests : Good(r)
  BY <1>1, IdleTyped DEF Good, Placed, Creating, Uploading, Deleting, Backed, Stored
<1>5. \A r, q \in Requests : Apart(r, q)
  BY <1>1, IdleTyped DEF Apart, TakesAccount, TakesCases
<1> QED BY <1>2, <1>3, <1>4, <1>5 DEF IInv

LEMMA StepInv == IInv /\ [Next]_vars => IInv'
<1> SUFFICES ASSUME IInv, [Next]_vars PROVE IInv'
  OBVIOUS
<1>1. CASE UNCHANGED vars
  <2>1. /\ accounts' = accounts /\ owner' = owner /\ cases' = cases /\ documents' = documents
        /\ jobs' = jobs /\ opened' = opened /\ uploaded' = uploaded /\ blob' = blob
        /\ req' = req /\ cut' = cut /\ faults' = faults
    BY <1>1 DEF vars, rows
  <2>2. TypeOK' /\ \A k : Sound(k) => Sound(k)'
    BY <2>1 DEF IInv, TypeOK, Sound, Filling, Purging, Writing, Key
  <2>3. Rows'
    BY <2>1, <2>2 DEF IInv, Rows, JobWithDocument, TrailMatches
  <2>4. ASSUME NEW r \in Requests PROVE Good(r)'
    BY <2>1, <2>2 DEF IInv, Good, Placed, Creating, Uploading, Deleting, Backed, Stored, Key
  <2>5. ASSUME NEW r \in Requests, NEW q \in Requests, r # q PROVE Apart(r, q)'
    BY <2>1, <2>5 DEF IInv, Apart, Key, TakesAccount, TakesCases
  <2> QED BY <2>2, <2>3, <2>4, <2>5 DEF IInv
<1>2. ASSUME NEW r \in Requests, Step(r) PROVE IInv'
  <2>1. CASE \E a \in Accounts, c \in Cases : CreateCase(r, a, c)
    BY <2>1, CreatesCase
  <2>2. CASE CommitCreate(r)
    BY <2>2, CommitsCreate
  <2>3. CASE \E c \in Cases, x \in Contents : Upload(r, c, x)
    BY <2>3, Uploads
  <2>4. CASE OpenBlob(r)
    BY <2>4, OpensBlob
  <2>5. CASE WriteBlob(r)
    BY <2>5, WritesBlob
  <2>6. CASE ExtractRaises(r)
    BY <2>6, Extracts
  <2>7. CASE InsertDocument(r)
    BY <2>7, InsertsDocument
  <2>8. CASE InsertRefused(r)
    BY <2>8, Refuses
  <2>9. CASE InsertAudit(r)
    BY <2>9, InsertsAudit
  <2>10. CASE CommitUpload(r)
    BY <2>10, CommitsUpload
  <2>11. CASE \E a \in Accounts : Delete(r, a)
    BY <2>11, Deletes
  <2>12. CASE DeleteAccount(r)
    BY <2>12, DeletesAccount
  <2>13. CASE DeleteCascade(r)
    BY <2>13, Cascades
  <2>14. CASE \E k \in Keys : PurgeObject(r, k) \/ PurgeFails(r, k)
    BY <2>14, Purges, FailsToPurge
  <2>15. CASE CommitDelete(r)
    BY <2>15, CommitsDelete
  <2>16. CASE Fail(r)
    BY <2>16, Fails
  <2> QED
    BY <1>2, <2>1, <2>2, <2>3, <2>4, <2>5, <2>6, <2>7, <2>8, <2>9, <2>10, <2>11, <2>12,
       <2>13, <2>14, <2>15, <2>16 DEF Step
<1> QED BY <1>1, <1>2 DEF Next

\* Every state that can be reached has the invariant.
THEOREM Inductive == Spec => []IInv
BY InitInv, StepInv, PTL DEF Spec
\* Every variable keeps its type in every reachable state, a document in a case on record.
THEOREM TypeCorrect == Spec => []TypeOK
<1>1. IInv => TypeOK
  BY DEF IInv
<1> QED BY <1>1, Inductive, PTL

\* A row without its bytes has its reason within its own case: no other account, case or
\* failure leaves one behind (ingest/service.py:50-90, storage/local.py, api/auth.py:258-266).
THEOREM BytesAccounted == Spec => []BytesOnRecord
<1>1. IInv => BytesOnRecord
  <2> SUFFICES ASSUME IInv, NEW d \in documents
               PROVE  Intact(d) \/ storage_key(d[1], d[2]) \in cut
    BY DEF BytesOnRecord
  <2>1. /\ Sound(d) /\ d[1] \in cases /\ d = storage_key(d[1], d[2])
    BY DEF IInv, Rows, TypeOK, storage_key
  <2> QED BY <2>1 DEF Sound, Filling, Purging, Intact
<1> QED BY <1>1, Inductive, PTL

\* Until something fails, a document on record has its bytes, but while its owner's deletion or
\* another upload of the same bytes is under way: what the run failure_spares_records shows
\* takes a failure, a race alone does not do it (ingest/service.py:50-90, api/auth.py:258-266).
THEOREM IntactUntilFailure == Spec => [](faults = 0 => FailureSparesRecords)
<1> DEFINE Uncut == faults = 0 => cut = {}
<1>1. Init => Uncut
  BY DEF Init
<1>2. IInv /\ Uncut /\ [Next]_vars => Uncut'
  <2> SUFFICES ASSUME IInv, Uncut, [Next]_vars PROVE Uncut'
    OBVIOUS
  <2>1. faults \in Nat
    BY FaultsAssumption DEF IInv, TypeOK
  <2>2. ASSUME NEW r \in Requests, Step(r)
        PROVE  UNCHANGED <<cut, faults>> \/ faults' = faults + 1
    <3>1. CASE \E a \in Accounts, c \in Cases : CreateCase(r, a, c)
      BY <3>1 DEF CreateCase
    <3>2. CASE CommitCreate(r)
      BY <3>2 DEF CommitCreate
    <3>3. CASE \E c \in Cases, x \in Contents : Upload(r, c, x)
      BY <3>3 DEF Upload
    <3>4. CASE OpenBlob(r) \/ WriteBlob(r) \/ ExtractRaises(r)
      BY <3>4 DEF OpenBlob, WriteBlob, ExtractRaises
    <3>5. CASE InsertDocument(r) \/ InsertRefused(r) \/ InsertAudit(r) \/ CommitUpload(r)
      BY <3>5 DEF InsertDocument, InsertRefused, InsertAudit, CommitUpload
    <3>6. CASE \E a \in Accounts : Delete(r, a)
      BY <3>6 DEF Delete
    <3>7. CASE DeleteAccount(r) \/ DeleteCascade(r)
      BY <3>7 DEF DeleteAccount, DeleteCascade
    <3>8. CASE \E k \in Keys : PurgeObject(r, k) \/ PurgeFails(r, k)
      BY <3>8 DEF PurgeObject, PurgeFails
    <3>9. CASE CommitDelete(r) \/ Fail(r)
      BY <3>9 DEF CommitDelete, Fail
    <3> QED BY <2>2, <3>1, <3>2, <3>3, <3>4, <3>5, <3>6, <3>7, <3>8, <3>9 DEF Step
  <2>3. UNCHANGED <<cut, faults>> \/ faults' = faults + 1
    BY <2>2 DEF Next, vars
  <2> QED BY <2>1, <2>3
<1>3. BytesOnRecord /\ Uncut => (faults = 0 => FailureSparesRecords)
  BY DEF BytesOnRecord, FailureSparesRecords
<1> QED BY <1>1, <1>2, <1>3, Inductive, BytesAccounted, PTL DEF Spec

\* A document with a scanned page has its job, and no job names a document that was never
\* committed (jobs/models.py:9-12).
THEOREM JobsMatch == Spec => []JobWithDocument
<1>1. IInv => JobWithDocument
  BY DEF IInv, Rows
<1> QED BY <1>1, Inductive, PTL

\* The audit trail names who opened the cases and uploaded the documents on record, and no
\* deleted account (api/cases.py, ON DELETE SET NULL of models/audit.py).
THEOREM TrailTrue == Spec => []TrailMatches
<1>1. IInv => TrailMatches
  BY DEF IInv, Rows
<1> QED BY <1>1, Inductive, PTL
-----------------------------------------------------------------------------
\* What a leftover is inductively: no file is written under a case id nobody has, and a
\* file without a row has an upload on the way, unless there is another reason.
Excused(k) == faults > 0 \/ k \in documents \/ k[2] \in Unreadable \/ k[1] \notin cases
Kept(k) == /\ owner[k[1]] = None => blob[k] = "absent"
           /\ \/ blob[k] = "absent" \/ Excused(k)
              \/ \E r \in Requests : Storing(r) /\ Key(r) = k

\* Steps that leave rows and files alone, as long as no upload is lost track of.
LEMMA KeptQuiet ==
  ASSUME NEW k \in Keys, Kept(k), UNCHANGED <<rows, blob>>, faults > 0 => faults' > 0,
         \A q \in Requests : Storing(q) /\ Key(q) = k => Excused(k)' \/ (Storing(q) /\ Key(q) = k)'
  PROVE  Kept(k)'
BY DEF Kept, Excused, rows

\* Steps by which one request goes on or ends.
LEMMA KeptStep ==
  ASSUME IInv, NEW k \in Keys, Kept(k), UNCHANGED <<rows, blob>>, faults > 0 => faults' > 0,
         NEW r \in Requests, NEW x, req' = [req EXCEPT ![r] = x],
         Storing(r) /\ Key(r) = k => Excused(k)' \/ (Storing(r) /\ Key(r) = k)'
  PROVE  Kept(k)'
<1>1. \A q \in Requests \ {r} : req'[q] = req[q]
  BY DEF IInv, TypeOK
<1>2. \A q \in Requests \ {r} : Storing(q) /\ Key(q) = k => (Storing(q) /\ Key(q) = k)'
  BY <1>1 DEF Storing, Key
<1> QED BY <1>2, KeptQuiet

\* No step leaves a file behind without a reason.
LEMMA StepKept ==
  ASSUME IInv, NEW r \in Requests, Step(r), NEW k \in Keys, Kept(k)
  PROVE  Kept(k)'
<1>f. /\ TypeOK /\ Rows /\ req \in [Requests -> Request] /\ req[r] \in Request
      /\ Placed(r) /\ Creating(r) /\ Uploading(r) /\ faults \in Nat
  BY Facts, FaultsAssumption
<1>k. k = <<k[1], k[2]>> /\ k[1] \in Cases /\ k[2] \in Contents
  BY DEF Keys
<1>1. CASE req[r].at = "idle" /\ UNCHANGED <<rows, blob, faults>> /\ \E x : req' = [req EXCEPT ![r] = x]
  BY <1>1, KeptStep DEF Storing
<1>2. CASE CommitCreate(r)
  <2>1. /\ req[r].op = "create" /\ req' = [req EXCEPT ![r] = Idle] /\ blob' = blob
        /\ cases' = cases \cup {req[r].case} /\ documents' = documents /\ faults' = faults
        /\ owner' = [owner EXCEPT ![req[r].case] = req[r].account]
    BY <1>2 DEF CommitCreate, End
  <2>2. owner \in [Cases -> Accounts \cup {None}] /\ owner[req[r].case] = None
    BY <2>1, <1>f DEF Creating, TypeOK
  <2>3. owner'[k[1]] = None => owner[k[1]] = None
    BY <2>1, <2>2, <1>k
  <2>4. \A q \in Requests : Storing(q) => Storing(q)' /\ Key(q)' = Key(q)
    BY <2>1, <1>f DEF Storing, Key
  <2>5. CASE k[1] = req[r].case
    BY <2>5, <2>1, <2>2, <2>3 DEF Kept
  <2>6. CASE k[1] # req[r].case
    BY <2>6, <2>1, <2>3, <2>4 DEF Kept, Excused
  <2> QED BY <2>5, <2>6
<1>3. CASE OpenBlob(r)
  <2>1. /\ req[r].at = "open" /\ UNCHANGED <<rows, cut, faults>>
        /\ blob' = [blob EXCEPT ![Key(r)] = "partial"]
        /\ req' = [q \in Requests |->
                    IF q = r THEN [req[q] EXCEPT !.at = "write", !.fd = "sole"]
                    ELSE IF Writing(q, Key(r)) /\ req[q].fd = "sole" THEN [req[q] EXCEPT !.fd = "torn"]
                    ELSE req[q]]
    BY <1>3 DEF OpenBlob
  <2>2. req[r].op = "upload"
    BY <2>1, <1>f DEF Placed, Request
  <2>3. /\ owner[req[r].case] # None
    BY <2>2, <1>f, NoneAssumption DEF Uploading
  <2>4. req'[r] = [req[r] EXCEPT !.at = "write", !.fd = "sole"]
    BY <2>1
  <2>5. Storing(r)' /\ Key(r)' = Key(r)
    BY <2>2, <2>4, <1>f DEF Storing, Key, Request
  <2>6. ASSUME NEW q \in Requests, Storing(q), Key(q) = k PROVE Storing(q)' /\ Key(q)' = k
    <3>1. CASE q = r
      BY <3>1, <2>5, <2>6
    <3>2. CASE q # r
      <4>1. req'[q] \in {req[q], [req[q] EXCEPT !.fd = "torn"]}
        BY <3>2, <2>1
      <4>2. req[q] \in Request
        BY <1>f
      <4> QED BY <4>1, <4>2, <2>6 DEF Storing, Key, Request
    <3> QED BY <3>1, <3>2
  <2>7. CASE Key(r) = k
    <3>1. k[1] = req[r].case
      BY <2>7 DEF Key, storage_key
    <3> QED BY <3>1, <2>7, <2>5, <2>3, <2>1 DEF Kept, rows
  <2>8. CASE Key(r) # k
    <3>1. blob'[k] = blob[k]
      BY <2>8, <2>1, <1>f DEF TypeOK
    <3> QED BY <3>1, <2>6, <2>1 DEF Kept, Excused, rows
  <2> QED BY <2>7, <2>8
<1>4. CASE WriteBlob(r)
  <2>1. /\ req[r].at = "write" /\ UNCHANGED <<rows, cut, faults>>
        /\ blob' = [blob EXCEPT ![Key(r)] = "whole"] \/ blob' = blob
        /\ req' = [req EXCEPT ![r].at = "extract", ![r].fd = "none"]
    BY <1>4 DEF WriteBlob
  <2>2. req[r].op = "upload"
    BY <2>1, <1>f DEF Placed, Request
  <2>3. /\ owner[req[r].case] # None
    BY <2>2, <1>f, NoneAssumption DEF Uploading
  <2>4. /\ req'[r] = [req[r] EXCEPT !.at = "extract", !.fd = "none"]
        /\ \A q \in Requests \ {r} : req'[q] = req[q]
    BY <2>1, <1>f
  <2>5. Storing(r)' /\ Key(r)' = Key(r)
    BY <2>2, <2>4, <1>f DEF Storing, Key, Request
  <2>6. \A q \in Requests : Storing(q) /\ Key(q) = k => Storing(q)' /\ Key(q)' = k
    BY <2>4, <2>5 DEF Storing, Key
  <2>7. CASE Key(r) = k
    <3>1. k[1] = req[r].case
      BY <2>7 DEF Key, storage_key
    <3> QED BY <3>1, <2>7, <2>5, <2>3, <2>1 DEF Kept, rows
  <2>8. CASE Key(r) # k
    <3>1. blob'[k] = blob[k]
      BY <2>8, <2>1, <1>f DEF TypeOK
    <3> QED BY <3>1, <2>6, <2>1 DEF Kept, Excused, rows
  <2> QED BY <2>7, <2>8
<1>5. CASE ExtractRaises(r)
  <2>1. /\ req[r].content \in Unreadable /\ UNCHANGED <<rows, blob, faults>>
        /\ req' = [req EXCEPT ![r] = Idle]
    BY <1>5 DEF ExtractRaises, End
  <2>2. Key(r) = k => Excused(k)'
    BY <2>1 DEF Key, storage_key, Excused
  <2> QED BY <2>1, <2>2, KeptStep
<1>6. CASE InsertRefused(r)
  <2>1. /\ UNCHANGED <<rows, blob, faults>>
        /\ req' = [req EXCEPT ![r] = Idle]
    BY <1>6 DEF InsertRefused, End
  <2>2. Key(r) = k => Excused(k)'
    BY <1>6 DEF InsertRefused, Key, storage_key, Excused, rows
  <2>3. UNCHANGED <<rows, blob, faults>>
    BY <1>6 DEF InsertRefused
  <2> QED BY <2>1, <2>2, <2>3, KeptStep
<1>7. CASE InsertDocument(r) \/ InsertAudit(r) \/ DeleteAccount(r) \/ DeleteCascade(r)
  <2>1. PICK s \in {"audit", "return", "cascade", "purge"} :
           /\ UNCHANGED <<rows, blob, faults>> /\ req' = [req EXCEPT ![r].at = s]
           /\ req[r].op = "upload" => s \in {"audit", "return"}
    BY <1>7, <1>f DEF InsertDocument, InsertAudit, DeleteAccount, DeleteCascade, Placed
  <2>2. req'[r] = [req[r] EXCEPT !.at = s] /\ req' = [req EXCEPT ![r] = [req[r] EXCEPT !.at = s]]
    BY <2>1, <1>f
  <2>3. Storing(r) /\ Key(r) = k => (Storing(r) /\ Key(r) = k)'
    BY <2>1, <2>2, <1>f DEF Storing, Key, Request
  <2> QED BY <2>1, <2>2, <2>3, KeptStep
<1>8. CASE CommitUpload(r)
  <2>1. /\ documents' = documents \cup {<<req[r].case, req[r].content>>}
        /\ owner' = owner /\ cases' = cases /\ blob' = blob /\ faults' = faults
        /\ req' = [req EXCEPT ![r] = Idle]
    BY <1>8 DEF CommitUpload, End
  <2>2. Key(r) = k => k \in documents'
    BY <2>1 DEF Key, storage_key
  <2>3. \A q \in Requests \ {r} : Storing(q) /\ Key(q) = k => (Storing(q) /\ Key(q) = k)'
    BY <2>1, <1>f DEF Storing, Key
  <2> QED BY <2>1, <2>2, <2>3 DEF Kept, Excused
<1>9. ASSUME NEW l \in Keys, PurgeObject(r, l) PROVE Kept(k)'
  <2>1. /\ req[r].at = "purge" /\ UNCHANGED <<rows, cut, faults>>
        /\ blob' = [blob EXCEPT ![l] = "absent"]
        /\ req' = [q \in Requests |->
                    IF q = r THEN [req[q] EXCEPT !.keys = @ \ {l}, !.purged = @ \cup {l}]
                    ELSE IF Writing(q, l) THEN [req[q] EXCEPT !.fd = "gone"]
                    ELSE req[q]]
    BY <1>9 DEF PurgeObject
  <2>2. ASSUME NEW q \in Requests PROVE Storing(q)' = Storing(q) /\ Key(q)' = Key(q)
    <3>1. req'[q] \in {[req[q] EXCEPT !.keys = @ \ {l}, !.purged = @ \cup {l}],
                       [req[q] EXCEPT !.fd = "gone"], req[q]}
      BY <2>1
    <3>2. req[q] \in Request
      BY <1>f
    <3> QED BY <3>1, <3>2 DEF Storing, Key, Request
  <2>3. blob'[k] \in {"absent", blob[k]}
    BY <2>1, <1>f DEF TypeOK
  <2> QED BY <2>1, <2>2, <2>3 DEF Kept, Excused, rows
<1>10. ASSUME NEW l \in Keys, PurgeFails(r, l) PROVE Kept(k)'
  <2>1. PICK x : /\ faults' = faults + 1 /\ UNCHANGED <<rows, blob>>
                 /\ req' = [req EXCEPT ![r] = x]
    BY <1>10, <1>f DEF PurgeFails
  <2>2. faults' > 0
    BY <2>1, <1>f
  <2>3. Excused(k)'
    BY <2>2 DEF Excused
  <2> QED BY <2>1, <2>2, <2>3, KeptStep
<1>11. CASE CommitDelete(r)
  <2>1. /\ cases' = cases \ Owned(req[r].account)
        /\ documents' = {d \in documents : owner[d[1]] # req[r].account}
        /\ owner' = owner /\ blob' = blob /\ faults' = faults
        /\ req' = [req EXCEPT ![r] = Idle] /\ req[r].at = "purge"
    BY <1>11 DEF CommitDelete, End
  <2>2. \A q \in Requests : Storing(q) /\ Key(q) = k => (Storing(q) /\ Key(q) = k)'
    BY <2>1, <1>f DEF Storing, Key
  <2>3. k \in documents => k \in documents' \/ k[1] \notin cases'
    BY <2>1, <1>f DEF Owned, TypeOK
  <2> QED BY <2>1, <2>2, <2>3 DEF Kept, Excused
<1>12. CASE Fail(r)
  <2>1. PICK x : /\ faults' = faults + 1 /\ UNCHANGED <<rows, blob>>
                 /\ req' = [req EXCEPT ![r] = x]
    BY <1>12 DEF Fail, End
  <2>2. faults' > 0
    BY <2>1, <1>f
  <2>3. Excused(k)'
    BY <2>2 DEF Excused
  <2> QED BY <2>1, <2>2, <2>3, KeptStep
<1>13. CASE \/ \E a \in Accounts, c \in Cases : CreateCase(r, a, c)
            \/ \E c \in Cases, x \in Contents : Upload(r, c, x)
            \/ \E a \in Accounts : Delete(r, a)
  BY <1>13, <1>1 DEF CreateCase, Upload, Delete, Start
<1> QED
  BY <1>2, <1>3, <1>4, <1>5, <1>6, <1>7, <1>8, <1>9, <1>10, <1>11, <1>12, <1>13 DEF Step

\* A file without a row is there for a reason: a deletion of the account otherwise finds
\* every file of a readable document (ingest/service.py:63-80, auth/deletion.py:38-47).
THEOREM LeftoversTrue == Spec => []LeftoversExplained
<1> DEFINE AllKept == \A k \in Keys : Kept(k)
<1>1. Init => AllKept
  BY DEF Init, Kept, Keys
<1>2. IInv /\ AllKept /\ [Next]_vars => AllKept'
  <2> SUFFICES ASSUME IInv, AllKept, [Next]_vars, NEW k \in Keys PROVE Kept(k)'
    OBVIOUS
  <2>1. CASE UNCHANGED vars
    BY <2>1 DEF vars, rows, Kept, Excused, Storing, Key
  <2>2. CASE Next
    BY <2>2, StepKept DEF Next
  <2> QED BY <2>1, <2>2
<1>3. AllKept => LeftoversExplained
  BY DEF Kept, Excused, LeftoversExplained
<1> QED BY <1>1, <1>2, <1>3, Inductive, PTL DEF Spec
-----------------------------------------------------------------------------
LEMMA InitCatalogue == Init => Shelves!Init
BY DEF Init, Shelves!Init

\* Three commits are steps of Catalogue; a deletion of an account that another deletion has
\* erased, and every other step, changes nothing it shows.
LEMMA StepCatalogue == IInv /\ [Next]_vars => [Shelves!Next]_(Shelves!vars)
<1> SUFFICES ASSUME IInv, [Next]_vars PROVE [Shelves!Next]_(Shelves!vars)
  OBVIOUS
<1> USE DEF Shelves!vars
<1>1. CASE UNCHANGED vars
  BY <1>1 DEF vars, rows
<1>2. ASSUME NEW r \in Requests, Step(r) PROVE [Shelves!Next]_(Shelves!vars)
  <2>f. /\ TypeOK /\ Rows /\ req[r] \in Request /\ Placed(r) /\ Creating(r) /\ Uploading(r)
        /\ Deleting(r)
    BY Facts
  <2>1. CASE CommitCreate(r)
    <3>1. Shelves!Open(req[r].account, req[r].case)
      BY <2>1, <2>f DEF CommitCreate, Creating, Shelves!Open
    <3>2. req[r].account \in Accounts /\ req[r].case \in Cases
      BY <2>1, <2>f DEF CommitCreate, Creating, TypeOK
    <3> QED BY <3>1, <3>2 DEF Shelves!Next
  <2>2. CASE CommitUpload(r)
    <3>1. /\ req[r].case \in cases /\ req[r].content \in Contents
          /\ <<req[r].case, req[r].content>> \notin documents
      BY <2>2, <2>f DEF CommitUpload, Uploading, Key, storage_key
    <3>2. req[r].case \in Cases /\ owner[req[r].case] \in accounts
      BY <3>1, <2>f DEF TypeOK, Rows
    <3>3. Shelves!Shelve(req[r].case, req[r].content)
      BY <2>2, <3>1, <3>2 DEF CommitUpload, Shelves!Shelve
    <3> QED BY <3>1, <3>2, <3>3 DEF Shelves!Next
  <2>3. CASE CommitDelete(r)
    <3>1. CASE req[r].account \in accounts
      <4>1. Shelves!Erase(req[r].account) /\ req[r].account \in Accounts
        BY <2>3, <3>1, <2>f DEF CommitDelete, Shelves!Erase, TypeOK
      <4> QED BY <4>1 DEF Shelves!Next
    <3>2. CASE req[r].account \notin accounts
      <4>1. \A d \in documents : owner[d[1]] \in accounts
        BY <2>f DEF TypeOK, Rows
      <4>2. documents' = documents /\ accounts' = accounts /\ owner' = owner
        BY <4>1, <3>2, <2>3 DEF CommitDelete
      <4> QED BY <4>2
    <3> QED BY <3>1, <3>2
  <2>4. CASE UNCHANGED rows
    BY <2>4 DEF rows
  <2> QED
    BY <1>2, <2>1, <2>2, <2>3, <2>4
    DEF Step, CreateCase, Upload, OpenBlob, WriteBlob, ExtractRaises, InsertDocument,
        InsertRefused, InsertAudit, Delete, DeleteAccount, DeleteCascade, PurgeObject,
        PurgeFails, Fail
<1> QED BY <1>1, <1>2 DEF Next

\* Whatever requests and failures there are, the cases and documents on record behave as
\* Catalogue says: once on the shelf, there until the account is erased.
THEOREM CatalogueImplemented == Spec => ImplementsCatalogue
BY InitCatalogue, StepCatalogue, Inductive, PTL DEF Spec, ImplementsCatalogue, Shelves!Spec
=============================================================================
