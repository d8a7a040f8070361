# Counselready: verification project

TLA+ specifications of the Counselready backend, the TLC runs that check them on small
instances, and TLAPS proofs of the results that matter most. Paths are relative to
`src/backend/app/` unless they start with `src/` or `docs/`.

Files: `PROJECT.json` lists the components, runs, mutants, the source lines every
definition stands for, the findings, the hazards and the theorems. Parse a module with SANY,
run `tlc -config X.cfg M`, and prove with `tlapm M.tla`.

## 1. The system

Counselready is a FastAPI service over PostgreSQL: people sign in, open cases, upload
documents, and build a timeline whose entries cite pages of those documents. It is written
with SQLAlchemy's async sessions. There are no in-process locks: **the only thing that orders
two requests is PostgreSQL**, at READ COMMITTED. That makes the transaction discipline of
`db/session.py` the heart of every model here:

* `get_session` is a FastAPI dependency. It yields one `AsyncSession` to the handler,
  commits after the handler has returned, and on *any* exception, `HTTPException` included,
  rolls everything back (lines 47-55);
* a handler reads committed rows, decides in Python, mutates ORM objects, and `flush()`
  sends the SQL, which takes row locks and can meet a unique index or a foreign key;
* an ORM `UPDATE` writes only the columns that changed, `WHERE` primary key.

So every request is a sequence *read ... read, flush, commit or rollback*, and others may
commit between any two of its steps. Most of what can go wrong in this code goes wrong
there, and the tests, which share one session and override `get_session` by one that never
commits or rolls back, do not see it.

### Components

| component | state it keeps | operations | what makes it correct |
|---|---|---|---|
| Login sessions (`auth/service.py`, `auth/tokens.py`, `api/auth.py`, `api/deps.py`, `models/session.py`) | `user_account`, `user_session` (current refresh digest, expiry, `revoked_at`), `used_refresh_token`, `auth_event` | register, login, challenged login, refresh with rotation, replay, logout, logout everywhere, the authenticated-route check | one good refresh token per session; each exchanged at most once and never forgotten; a revoked session stays revoked; a deleted account leaves nothing behind |
| Request transactions (`db/session.py`) | the open transaction | commit, rollback | nothing of a request that raised is kept |
| TOTP second factor (`auth/mfa_service.py`, `auth/mfa.py`, `api/mfa.py`, `models/mfa.py`) | `user_mfa` (encrypted secret, `confirmed_at`, `last_used_counter`), `recovery_code` | setup, confirm, verify, consume a recovery code, disable | a confirmed secret changes only by disabling; one acceptance per time step and per recovery code; the codes on record belong to the secret on record |
| Passkeys (`api/passkeys.py`, `auth/passkeys.py`, `models/passkey.py`) | `passkey` (public key, `sign_count`), `passkey_challenge` | register begin / complete, login begin / complete, list, delete | a challenge that has served is gone; an assertion signs in once; a removed passkey signs nobody in |
| Document ingest and blob store (`ingest/service.py`, `ingest/limits.py`, `ingest/pdf.py`, `storage/*`, `api/cases.py`, `models/document.py`) | `document`, `document_page`, files by content hash | upload, read, list | every row on record has its bytes; the same bytes are one document per case; pages are those of the bytes |
| Account deletion and purge (`auth/deletion.py`, `api/auth.py`) | (all tables by cascade, the files) | collect keys, delete, purge | all rows go, then all files, and no other account's file |
| Job queue and OCR (`jobs/queue.py`, `jobs/models.py`, `ingest/ocr.py`) | `job` (status, attempts, `run_after`), `ocr_status` of a document | enqueue, claim (`FOR UPDATE SKIP LOCKED`), succeed, fail with backoff, run OCR | a job runs once at a time; its attempts are bounded; a document does not stay "processing" |
| Timeline, facts, audit (`api/events.py`, `api/cases.py`, `models/event.py`, `models/extraction.py`, `models/audit.py`, `models/case.py`) | events, notes, facts, `case_audit_event` | create, list, read | only the owner reads or writes; an audit row exists exactly for what committed |
| Startup and configuration (`main.py`, `core/config.py`, `core/logging.py`) | settings | checks at boot | refuses to serve an unsafe configuration |
| Schema migrations (`src/backend/alembic`, `models/*`) | the tables, enum types and rows | nine revisions, up and down | no script is refused, whatever rows there are; the head is what the models declare; nothing recorded is rewritten |
| Passwords (`auth/passwords.py`), health probes (`api/health.py`), web client (`src/frontend`) | none | | left out, see the last section |

### How they interact

A request authenticates (`api/deps.py`) by reading `user_session` and `user_account`, then
calls one service. Login goes to the second factor when one is confirmed and comes back with
a signed challenge; `POST /mfa/verify`, and a passkey sign-in, open a session through the
same `_issue_session`. An upload writes the blob store first and the rows second, and
enqueues an OCR job in the same transaction; the worker reads the blob by key. Deletion
removes the account row, PostgreSQL cascades, and the handler purges the files. PostgreSQL
couples all of them: unique indexes (email, refresh digest, used digest, content hash per
case), foreign keys with `ON DELETE CASCADE`, and row locks.

### What is hard here

* two requests that read before either writes (rotation, TOTP counter, recovery codes,
  challenges, de-duplication);
* a write flushed by a request that then raises: it is undone;
* a request that acts on rows read before a logout, a disable or a deletion committed;
* effects outside the transaction: files written before the commit, files purged before it;
* a crash between two steps of an upload, a deletion or a job.

The complete list, each at its line and with the properties that watch it, is `hazards` in
`PROJECT.json`.

## 2. Plan

In order of importance; each module gets an MC module, its configurations, mutants, and
where it pays a proof module.

| # | module | what it models | composes with / abstract specification | runs and bounds | proofs |
|---|---|---|---|---|---|
| 1 | `AuthSessions` (done) | sessions, refresh families, logout, deletion, login limiter | implements `SessionLedger` | safety and liveness: 2 concurrent requests, 2 sessions, 3 tokens, one clock tick; one finding run for two findings | type, four safety properties, refinement, two findings in general (done) |
| 2 | `MfaEnrolment` (done) | setup, confirm, verify, recovery codes, disable on one account's enrolment | shares the transaction steps of 1 | 2-3 concurrent requests, 2-3 secrets, time steps 0..2 | type, three safety properties, two findings' cause (done) |
| 3 | `DocumentStore` (done) | cases, uploads, de-duplication, file writes, deletion and purge, crash | implements `Catalogue` | 3 requests, 2 accounts, 2 cases, 2 contents, 1 failure; one finding | type, four safety properties, refinement, the finding's cause (done) |
| 4 | `JobQueue` (done) | claim, succeed, fail, worker death, OCR of a document, deletion | | 2 workers, 2 jobs, 3 attempts, 1 death each; safety and liveness | type, four invariants, two action properties (done) |
| 5 | `PasskeyLogin` (done) | challenges, registration, sign-in with its counter, removal, erasure | shares the transaction steps of 1 | 3 requests, 3 challenges, one counting credential, 2 passkeys; one finding | type, three invariants, the finding's cause (done) |
| 6 | `Migrations` over `Models` (done) | the nine migrations, up and down, over a database with rows; the deletion of an account as the schema has it | `Models` is what the head must be | 1 account, 7 rows, every walk over the revisions | type, four invariants, the facts kept (done) |
| 7 | `CaseTimeline` (done) | the routes that read a case file and its chronology or add to it, the audit row of each, against OCR, extraction and the account's deletion | shares accounts, cases and their locks with 3, the documents' status with 4 | 3 requests, 1 case, 1 document, 2 entries, 1 note, 1 failure; safety and liveness | type, three safety properties (done) |
| 8 | pure operators (not started) | `read_bounded`, `matching_counter`, `check_serving_configuration` against reference definitions | used by 2-3 | exhaustive over small ranges | |

Each module keeps state changes in one action per step of a request, its parameters as
CONSTANTS with named assumptions, its invariants as conjunctions of named parts, and no
RECURSIVE operator.

## 3. AuthSessions

### State

| variable | code |
|---|---|
| `account`, `session`, `used`, `authEvent` | committed rows of `user_account`, `user_session`, `used_refresh_token`, `auth_event`. A session row is `free` before it is inserted, then `open` (no `revoked_at`), `revoked`, or `gone` (deleted) |
| `req` | per slot, a request in flight: its operation, its step (`select`, `flush`, `return`, `raise`), what it has read, and the rows it locks |
| `now` | the clock (`datetime.now(UTC)`); a handler reads it once |
| `opened`, `minted` | the session ids and refresh tokens drawn so far; drawn randoms never repeat, so a counter stands for them |
| `granted`, `access`, `challenge` | what callers hold: refresh tokens from committed answers, the expiry of access tokens and challenges. `granted` is a history variable: no action's guard reads it |

### Steps

A request takes one to four steps. `Register`, `LoginRefused`, `LoginChallenged`, `Login`,
`Refresh`, `RefreshReplayed`, `Logout`, `LogoutAll`, `Delete` start it with its first reads;
`RefreshLoad`, `RefreshRejected`, `LogoutAllSelect` are the second reads of the two handlers
that have one whose rows others can change meanwhile; `LoginFlush`, `ReplayFlush`,
`RefreshFlush`, `RevokeFlush`, `DeleteFlush` send the SQL; `CommitX` is the commit;
`Conflict` a flush the database refuses; `Rollback` the unwinding of an exception; `Fail` a
crash, a lost connection, a deadlock that PostgreSQL breaks, anywhere before the commit.

Rows become visible at the commit. Between flush and commit only the locks are visible to
others: a row lock on each updated session (`LocksFree`), the unique index on the e-mail
(`Register`), the `FOR KEY SHARE` lock that an insert takes on the account it refers to
(`Inserting`, `Deleting`). Those are PostgreSQL's, modelled from how the code relies on them
and marked external. A flush that waits takes its step when the lock is free, with the
database's re-check at that time (`RefreshFlush` against `Conflict`).

What is abstracted: a digest is its token; a session's user agent and IP, password hashing
and the opportunistic rehash, and the text of answers are left out. A second `SELECT` in
`revoke_session` that finds nothing ends in 204 without a write; the model lets that request
roll back, the database is the same. A code given to `POST /mfa/verify` is an input here
(accepted: `Login`; otherwise no write); what accepting one does to the enrolment is module
2. A deleted e-mail address is not registered again (it would be a new account).
`UserAccount.active` is never set to false anywhere in the code, so `authenticated`'s test of
it is not modelled. A token is `granted` when its commit succeeds. Recent FastAPI versions send
the answer before a `yield` dependency ends, so a caller may also hold tokens of a commit that
failed afterwards; no row on record matches those, so no request with one gets past its reads.

### Runs

| run | configuration | shows |
|---|---|---|
| `auth_sessions` | `AuthSessions.cfg` | type, `CurrentNeverUsed`, `TokensAccounted`, `CascadeComplete`, `NeverResurrected`, `EveryRequestEnds`, and that the committed rows implement `SessionLedger` |
| `refusals_recorded` | `RefusalsRecorded.cfg` | finding: what a refused request is documented to leave on record is rolled back |

`auth_sessions` has two requests in flight, every pair of them: two rotations of one session, a
rotation under a logout, a login under a deletion. Two sessions are what logout everywhere needs, and
what a login that races with the deletion of its account needs (the deletion is authenticated by the first);
three tokens give two rotations of one session or a rotation and a second
login, and with one clock tick and lifetimes of one, tokens expire between two steps of a
request. Accounts never share a row, so one is enough; it has a second factor, so that the challenged login is
exercised (a login by password alone differs in its guard only, and is the one of `refusals_recorded`).
Three requests at a time, as a logout during two racing rotations, do not fit with liveness, which excludes symmetry:
there the theorems below, which are for any number of requests, accounts and sessions, take over for every safety property of the run.
`MaxSessions`, `MaxTokens` and `MaxTime` are the bounds; they stop new requests and the clock, never a request in
flight (`RefreshRejected` lets a rotation that would exceed `MaxTokens` fail). `Refusable` says for which accounts a login
is refused; a refusal leaves nothing, so it needs no bound on their number. Deadlock is not checked: when the bounds are used up the system
stops with every slot idle.

`EveryRequestEnds` says that a lock which is held is given back. The rows of one flush are locked in one step, so two flushes of
several rows never hold a part each here; a cycle of waits, and PostgreSQL's remedy, is in `CaseTimeline`.

### Fairness

`Read` and `Finish` are weakly fair for each request: once enabled they stay so until taken,
and asyncio runs every ready task. `Flush` needs strong fairness: a row lock may be released
and taken again by another request before ours gets it, and PostgreSQL serves its waiters in
order. Nothing is assumed of `Begin`, `Fail` and `Tick`: nobody need call the service.

### Findings

`RefusalsRecorded` says that what a refused request is documented to leave is there when it has ended. Both kinds of
refusal break it. The run refuses no login (`Refusable` is empty), so that its counterexample is the longer one, the replay; with
`Refusable = {a1}` the property falls to the first wrong password.

* **A replay does not revoke the session.** `refresh_session` (`auth/service.py:205-213`)
  flushes the revocation and then raises; the route answers 401 with an `HTTPException`, and
  `get_session` rolls the revocation back. ADR-0007 line 58 and `models/session.py` say the
  session is revoked.
* **The login limiter has nothing to count.** `authenticate` flushes the `login_failed` row
  and raises; it is rolled back in the same way, so `_failed_attempts_since` counts nothing
  and no sequence of refusals leads to a 429. `auth/service.py:126` says failures are
  recorded for the limiter. In consequence `Limited` is never true in a reachable state of
  the model; it is kept since the code tests it.

### Proofs

`AuthSessionsProofs.tla` proves, for any number of accounts, requests, sessions and tokens,
under `NoUserAssumption` (the null account is not an account) and `NatAssumption` (the
numbers are numbers):

| theorem | says |
|---|---|
| `TypeCorrect` | `Spec => []TypeOK` |
| `Inductive` | `Spec => []IInv` |
| `CurrentTokenNeverUsed`, `EveryTokenAccounted`, `DeletionCascades` | the three invariants |
| `RevokedStaysRevoked` | the action property `NeverResurrected` |
| `LedgerImplemented` | `Spec => Ledger!Spec`, the refinement of `SessionLedger` |
| `LimiterNeverLimits` | no `login_failed` row is ever on record, so the limiter refuses no login |
| `ReplayChangesNothing` | no step of a replay changes a committed row |

None of the three invariants is inductive: a request in flight may hold anything. `IInv` adds
what is true of requests between their steps:

* `IssuedFresh`, `OpeningFresh`: ids and tokens a request has drawn are not in any row yet,
  and no two requests have drawn the same;
* `Drawn`: every token in a row, a used-token row, or an answer has been drawn;
* `Rotating`: a rotation that has *flushed* still finds its session with the digest it read,
  and that digest unused. This is what the unique index and the row lock buy, and what makes
  the commit an exchange;
* `Exclusive`: two requests that have flushed lock disjoint rows;
* `Ending`: a logout or deletion that has flushed names rows that exist, and a deletion all
  rows of its account, none being inserted.

Only commits write rows; the lemma `OnlyCommitsWrite` says so once, and the proofs about
rows go through one step per commit. The refinement maps a revoked or deleted session to an
ended one without token, `CommitLogin` to `Open`, `CommitRefresh` to `Exchange` (or to a
stutter, when the session was revoked between its read and its flush), `CommitRevoke` and
`CommitDelete` to `Finish`, everything else to a stutter.

The last two theorems say of every behaviour what the run `refusals_recorded` shows in one: both
handlers write and then raise, so what they write is never committed. Their statements are in the proof module.

`EveryRequestEnds` is checked by TLC only: liveness under fairness is outside the prover.


## 4. MfaEnrolment

The second factor of one account: `auth/mfa_service.py`, as `api/mfa.py` and
`POST /auth/mfa/verify` call it.

### State

| variable | code |
|---|---|
| `mfa` | the committed `user_mfa` row: its key, its secret, `confirmed_at`, `last_used_counter`. Its key is the number of the setup that inserted it; 0 is no row |
| `codes`, `spent` | the `recovery_code` rows, and those whose `used_at` is set |
| `drawn` | secrets drawn; secrets are random, so the n-th is n, and its recovery codes are the pairs `<<n, i>>` |
| `now` | the time step, `counter_for` of the clock |
| `req` | per slot, a request: its step, what it has read, the codes it will delete, its row locks |
| `shown` | secrets some setup has answered with. A user can present a TOTP code or a recovery code only of these |
| `proven` | history: secrets a committed confirmation has seen a code of |

### Steps

* **Setup** reads the row (`Setup`), then its SELECT of the old codes autoflushes the INSERT or
  UPDATE of the row (`SetupFlush`), returns them (`SelectCodes`), and their DELETE runs before the
  INSERT of the new ones (`PurgeCodes`). Then `CommitSetup`.
* **Confirm** is `Confirm`, `AcceptFlush`, `CommitConfirm`.
* **Signing in** is `VerifyTotp`, or `VerifyRecovery` and `FindRecovery`; `AcceptFlush`;
  `CommitVerify`. The session it opens is `Login` of module 1.
* **Disabling** accepts a code like a sign-in, reads the row again (`DisableReload`), deletes it by
  the same autoflush (`DisableErase`), deletes the codes (`SelectCodes`, `PurgeCodes`), and
  commits (`CommitDisable`).
* `Refused` is a statement or a check a request cannot get past: the unique index on `user_id`, an
  UPDATE that matches no row (SQLAlchemy's `StaleDataError`), an unknown or used code, an
  enrolment that is gone. A DELETE that matches no row is only warned about, so `DisableErase` and
  `PurgeCodes` go on. `Fail` is any other end before the commit, deadlocks included: a setup
  and a disable that hold the row and a code the other wants wait for one another until
  PostgreSQL breaks the cycle.

An UPDATE writes the columns that changed and no others, which is what the commits write:
`CommitSetup` on an existing row writes the secret and leaves `confirmed_at`, and leaves
`last_used_counter`, whose NULL it read and would set to NULL. The module takes the row lock
where the SQL is sent and shows the write at the commit.

Abstracted: codes of different steps differ (two six-digit codes could coincide), encryption and hashing
of secrets, the challenge token and password in front of each route (module 1). The account's
deletion takes a code in the same way as `disable_mfa`, and is in module 1 as `Delete`.

### Runs

| run | configuration | shows |
|---|---|---|
| `mfa_enrolment` | `MfaEnrolment.cfg` | type, `CodesBelongToSecret`, `GrantedOnRecord`, `ActiveUntilDisabled` |
| `mfa_secret_proven` | `MfaSecretProven.cfg` | finding: an active secret nobody has produced a code of |
| `mfa_code_once` | `MfaCodeOnce.cfg` | finding: one code is accepted twice |

Three requests let a setup, a confirmation and a disable overlap, or two sign-ins and a
disable. Two secrets are an enrolment and its restart, or an enrolment after a disable. Two time
steps and a window of one give codes of the past, the present and the future. Two recovery codes
let one be used and one remain. `MaxSecrets` and `MaxStep` bound setups and the clock. The slots are symmetric.
Deadlock is not checked, since the system stops when nobody has a code. There is no liveness run: a
request here ends as one of module 1 does.

### Findings

* **An active secret that was never proven.** A setup reads an unconfirmed row; a confirmation of
  the old secret commits; the setup's UPDATE then writes its new secret into the row, which stays
  confirmed. ADR-0008 says the second factor is active only once a working code was produced.
  `ActiveUntilDisabled` shows what does hold: the row is not un-confirmed.
* **A code accepted twice.** `verify_code_for_login` compares with the `last_used_counter` it read, and
  `_consume_recovery_code` with the `used_at` it read; neither UPDATE checks again. Two requests
  that both read before either commits are both granted. The later UPDATE may also set the counter
  back, after which a code between the two counters is accepted again.

### Proofs

`MfaEnrolmentProofs.tla` proves for any number of requests, secrets, steps and codes, under
`NatAssumption`:

| theorem | says |
|---|---|
| `TypeCorrect` | `Spec => []TypeOK` (with it, that only codes on record are marked used) |
| `Inductive` | `Spec => []IInv` |
| `CodesMatchSecret` | `CodesBelongToSecret` |
| `SignInOnRecord` | `GrantedOnRecord` |
| `ActiveStaysActive` | the action property `ActiveUntilDisabled` |
| `OneAtATime` | with a single request slot, `ActiveSecretProven` and `CodeGrantedOnce` |

`CodesBelongToSecret` says nothing of a request between its steps, so it is not inductive. `IInv` adds, per
request, `Placed` (which steps an operation has), `Locking` (from its flush to its
commit it holds the row or the code it writes), `Purging` (after reading the codes it holds exactly those
on record; here the autoflush matters: had the codes been read before the row was held, another setup
could replace them in between, which is the mutant `MutSetupNoAutoflush`), `Checking` (a code that
was checked belongs to a confirmed row, if that row is still there) and `Drawing` (a setup's secret is in no row);
for each two requests, `Apart` (they do not hold the same row, and have not drawn the same secret); and
`Rows`, which relates `mfa`, `codes` and `shown`. `Local` does the steps that change
one request only, `Quiet`, `Begins` and `Ends` its special cases, `Alone` and `Replaces` the commits.

`OneAtATime` is the other half of the two findings: the checks of `start_enrolment` and `verify_code_for_login` are right, and what they
read (`StillSo`) is still so at the commit unless another request has committed meanwhile. Its hypothesis, one slot, is not what
the deployment guarantees; it says where the fault lies.

## 5. DocumentStore

Cases, documents and files: `api/cases.py` (open a case, upload), `ingest/service.py`,
`storage/`, `auth/deletion.py` and the route that calls it. The subject is the seam between
what a transaction undoes and what it does not.

### State

| variable | code |
|---|---|
| `accounts`, `cases`, `documents` | committed rows; a document is its case and its content (the unique constraint on both) |
| `owner` | `case.owner_id`, kept after the case is gone: it tells whose it was |
| `jobs` | documents a `job` row names; no foreign key, so it stays when the document goes |
| `opened`, `uploaded` | the `case_audit_event` of a case's opening and of a document's upload: none, naming its actor, or anonymous after `ON DELETE SET NULL` |
| `blob` | the files: absent, partial, whole. Not part of any transaction |
| `req` | per slot, a request: its step, its subject, the file it has open, the keys it has to purge and has purged |
| `cut` | history: keys whose file a request that failed had truncated or removed |

### Steps

* **Opening a case**: `CreateCase`, `CommitCreate`.
* **Uploading**: `Upload` reads the case and looks for the same bytes; `OpenBlob` and `WriteBlob`
  are `write_bytes`, which truncates and then writes, in a thread; `ExtractRaises` is the 422 of
  a file that cannot be read; `InsertDocument` is the flush of the document, its pages and its
  job, or `InsertRefused` its `IntegrityError`; `InsertAudit`; `CommitUpload`.
* **Deleting the account**: `Delete` collects the keys, `DeleteAccount` and `DeleteCascade` are
  the DELETE with the locks it takes one after the other, `PurgeObject` and `PurgeFails` remove
  the files, and only then `CommitDelete` makes the rows go.
* `Fail` ends any request before its commit: rows as before, files as they are.

An INSERT takes a share of the rows it refers to: the audit row of the account, the document
of its case. A DELETE and its cascade wait for those shares, and the INSERTs for the DELETE
(`SharesAccount`, `SharesCase`, `TakesAccount`, `TakesCases`, external). An upload that
holds its case and wants the account, and a deletion that holds the account and wants the
case, wait for one another; PostgreSQL ends one of them, which is `Fail`.

Two uploads may have one file open. One that opens it empties it for the other (`torn`), whose
write may then leave a hole until the first has written; a removal leaves an open file without
a name (`gone`), and what is written to it is lost.

Abstracted: `Upload` merges the read of the case and the read for duplicates. Between them
only a commit of the same bytes or a deletion matters, and both have the same effect when
they come just before `InsertDocument`. Content is a value of a small set that says whether it
can be read and whether a page has no text; pages are those of the document. A list or a read
adds an audit row and nothing else; those rows are in `CaseTimeline`.

### Runs

| run | configuration | shows |
|---|---|---|
| `document_store` | `DocumentStore.cfg` | type (a document's case is on record), `BytesOnRecord`, `JobWithDocument`, `TrailMatches`, `LeftoversExplained`, and that the rows implement `Catalogue` |
| `failure_spares_records` | `FailureSparesRecords.cfg` | finding: a deletion that fails leaves documents without their bytes |

Three requests let two uploads of one file race while the account is deleted. Two accounts with
two cases show that nothing crosses from one to the other. One content has a page without text
and one cannot be read. `MaxFaults` is one: two failures do no more than one did
to each of two keys, and one gives every place at which a request can fail. Slots, accounts and cases are
symmetric. Deadlock is not checked: an upload and a deletion can wait for one another when
the one failure has been used, and the system stops when every account is gone.

`Intact(d)` is what both properties about bytes are made of: a document's file is whole, or in the hands of a
request in flight that will make it whole or take the row as well. `BytesOnRecord` says that no interleaving breaks it, and that
a failure breaks it only for the files the failed request was itself writing or removing (`cut`). `FailureSparesRecords` is what the
documentation promises: no failure breaks it at all. That is false, and the second run says so; it has one request at a time and one
failure, which is all it takes.

### Findings, and where the code differs from its comments

* **A failed deletion leaves broken records** (finding). `auth/deletion.py:3-7` and ADR-0011 say the blobs go "only
  after that transaction has committed", so that a failure leaves "unreferenced objects rather than broken
  records". `delete_own_account` calls `purge_objects` in the
  handler (`api/auth.py:264`); `get_session` commits after it. A commit that fails leaves
  documents without bytes. `BytesOnRecord` says how far that goes: only the documents of the
  account that asked for its deletion, and only when its request failed.
* **So does a failed upload of bytes that are on record.** `LocalObjectStore.put` truncates the file in place. Two uploads of the same bytes
  that both find no duplicate write one file; when the second is cut short, the document of the first
  has lost its bytes. With two slots `FailureSparesRecords` falls to that as well; `ingest/service.py:5-9` considers a failure of
  the database only.
* **Files without a row are never removed.** `api/auth.py:223` says the account is destroyed with
  every case it owns, but the deletion removes the keys of documents on record. An upload refused
  after its `put`, or in flight during the deletion, leaves a file that no row names.
  `LeftoversExplained` says that there is no other way to one: a failure, an upload still under
  way, bytes that could not be read, or a case that is gone.

### Proofs

`DocumentStoreProofs.tla` proves for any accounts, cases, contents, number of requests and
failures, under `NoneAssumption` (the null value is not an account, case or content) and
`FaultsAssumption` (the bound is a number):

| theorem | says |
|---|---|
| `TypeCorrect` | `Spec => []TypeOK` |
| `Inductive` | `Spec => []IInv` |
| `BytesAccounted`, `JobsMatch`, `TrailTrue`, `LeftoversTrue` | the four invariants |
| `IntactUntilFailure` | as long as nothing has failed, `FailureSparesRecords` |
| `CatalogueImplemented` | `Spec => Shelves!Spec`, the refinement of `Catalogue` |

`BytesOnRecord` speaks of documents on record, and an upload must bring it about before its document is.
`IInv` therefore says of each request that has written its file (`Stored`) that the file is
`Sound`: whole, or there is a reason. A writer counts as a reason only while nobody has
emptied its file (`Filling`): the last to open it is then always one, which is why two racing
uploads cannot both leave a hole. The other parts are `Placed`, `Creating`, `Uploading` and
`Deleting` (what a request is about, and that an upload past its INSERT is into a case on
record), and, for each two requests, `Apart` (the locks: no deletion holds what an upload or an
opening refers to, and no two insert the same document).

Four lemmas carry the steps: `Quiet` those that change one request only (`Ends` and `Proceeds`
are its special cases), `Files` those that change a file, and `EndsWith` the commits and
failures. The refinement maps `CommitCreate` to `Open`, `CommitUpload` to `Shelve`,
`CommitDelete` to `Erase`, or to a stutter when another deletion came first, and everything
else to a stutter.

## 6. JobQueue

The OCR jobs and the workers that drain them: `jobs/queue.py`, `jobs/models.py`,
`ingest/ocr.py`. The loop that calls them is not in the repository (ADR-0011, Consequences). The
model's worker does what the ADR and the comments expect: it claims, runs, marks and commits
in **one transaction**, so that "a worker that dies releases its claim when its transaction dies".

### State

| variable | code |
|---|---|
| `job` | the `job` rows by the document their payload names: `status`, `attempts`, `run_after`, `last_error`. Ingest is the only caller of `enqueue`, so a document has one job at most |
| `page` | per page, its text: native, not read yet, illegible to OCR, read by OCR |
| `status` | `Document.ocr_status`, with `absent` before the upload and `gone` after the deletion |
| `worker` | per worker, its step, its job, and the failure class it is about to record |
| `now` | the clock in units of `BACKOFF_BASE` |
| `taken`, `lost` | history: claims of each job, and claims that were rolled back |

### Steps

`Enqueue` is the commit of an upload (`CommitUpload` of module 3). A worker's transaction is
`Claim`; `FindDocument`; `MarkProcessing`; then `ReadFails` and `MarkFailed`, or `Succeed`, which writes
pages, document and job. Writes show at the commit: in particular `running` is never on record, so there
are no zombie jobs. `DocumentVanished` is the `StaleDataError` of an UPDATE whose document was deleted;
it is no `OcrFailure`, so the transaction is rolled back. `Die` is a worker's death. `Delete` waits for a
worker that has written the document. A worker that finds the document already marked `processing` by an
earlier attempt does not write it (the ORM sends no UPDATE for an unchanged value), so it
holds no lock, and a deletion can come while the engine reads.

Abstracted: the three classes of failures after the document was found are one, `not_read`, since
nothing distinguishes them. What a page says is reduced to whether it has text. The engine is
nondeterministic: it answers for any pages, with or without text, or fails.

### Run

`job_queue` (`JobQueue.cfg`) checks the type, `RunsAccounted`, `CompleteMeansRead`, `StatusExplained`,
`BackoffDoubles`, `OutcomeFinal`, `TextKept` and `EveryJobEnds`. Two jobs and two workers let a retry wait
behind another job and two claims race. Three attempts give a first, a repeated and a last failure.
The backoff has the code's numbers, in units of 30 seconds: base 1, cap 60, clamp 16; `BackoffDoubles` says that
each delay is twice the one before, up to the cap, for 20 attempts, far beyond the budget. `MaxDeaths` bounds deaths per job. The clock moves only
while a queued job waits for it, which bounds it without another constant: nothing else compares
times. Deadlock is not checked: the system stops when all jobs have ended.

`EveryJobEnds` assumes weak fairness of each worker and of the clock: a deployment runs its workers'
loops. It holds for finitely many deaths only, and `RunsAccounted` says why: the attempt that is lost with a
worker is not counted, so a document that kills every worker that reads it is tried again
without end, although `jobs/models.py:28` says a job is "treated as permanently failed rather than retried forever".

`StatusExplained` also records what the code does not do: a document whose job has failed for good keeps
saying `processing` (`OcrStatus.failed` is used nowhere), and one that says `needs_ocr` after
its job has succeeded has no job left.

### Proofs

`JobQueueProofs.tla` proves for any documents, pages, workers, budget and number of deaths, under
`NoneAssumption`, `BudgetAssumption` (the numbers are numbers, and at least one attempt is allowed),
`ClampAssumption` (the clamp on the doublings lies beyond the cap, as 30 s doubled 16 times lies beyond 30 min) and
`PowerAssumption` (each power of two up to the clamp is twice the one before: a fact of arithmetic, but the provers know nothing of
powers):

| theorem | says |
|---|---|
| `TypeCorrect` | `Spec => []TypeOK` |
| `Inductive` | `Spec => []IInv` |
| `ClaimsAccounted`, `CompleteIsRead`, `StatusFitsJob` | the invariants `RunsAccounted`, `CompleteMeansRead`, `StatusExplained` |
| `DelaysDouble` | the invariant `BackoffDoubles` |
| `OutcomesAreFinal`, `TextStays` | the action properties `OutcomeFinal`, `TextKept` |

`IInv` adds `Placed` (a job being worked on is still queued on record; a document that was not
found is gone for good), `Apart` (no two workers have the same job) and `Listed` (a document and its job
come together). `GoesOn` covers the steps within a transaction, `Counts` the two commits, `Loses` the
rollbacks; all three rest on `Rests`: whoever ends a transaction was the only one with that job.

`DelaysDouble` needs nothing of the state but that `attempts` is a number: `DelayDoubles` proves the recurrence for every number of
attempts. Below the clamp the delay is a power of two or the cap, and beyond it, by `ClampAssumption`, always the cap. Without that
assumption it is false: the clamp would then hold the delays below the cap.

## 7. PasskeyLogin

Passkeys: `api/passkeys.py`, `auth/passkeys.py`, `models/passkey.py`, with the session of
`complete_mfa_login` and the erasure of the account. The authenticator and the webauthn library are
outside the repository and modelled from how they are called.

### State

| variable | code |
|---|---|
| `accounts`, `passkeys`, `challenges` | committed rows. A passkey is kept by its credential, with its primary key (`id`, 0 for no row), its account and `sign_count`; a challenge is `fresh`, `expired`, or `gone` |
| `issued`, `added` | challenges and passkeys drawn so far: challenges are random, primary keys are uuids, neither repeats |
| `counter`, `signed` | the authenticators' counters, and every response they ever signed. A client may send any of them, at any time, any number of times |
| `req` | per slot, a request: its step, whose it is, the response it completes, the row it has read, and whether its DELETE matched a row, which it then has locked |
| `served`, `regranted`, `erased`, `lowered` | history: responses accepted, assertions accepted once more, challenges that went with their account, credentials whose `sign_count` a commit lowered or that were registered anew |

### Steps

`RegisterBegin` and `LoginBegin` are `_store_challenge` and its commit. A completion begins with
`RegisterComplete` or `LoginComplete`, which find the challenge; `Consume` is its flushed DELETE, which
waits for the row and may find it gone, an outcome SQLAlchemy only warns about. A registration goes on to
`InsertPasskey` and `CommitRegister`; a sign-in to `Verify` (the reads of passkey and account, and the library's
counter check), `WritePasskey`, `IssueSession` and `CommitLogin`. `RemovePasskey`, `DeletePasskey`, `CommitRemove` are the
route that deletes a passkey; `EraseAccount`, `LockAccount`, `Cascade`, `CommitErase` the account's deletion. `Fail`
is every exception before a commit: also a response that does not verify, a passkey that is not found, an UPDATE
that matches no row (`StaleDataError`), a duplicate credential. All of them undo the DELETE of the challenge.

The locks are PostgreSQL's, external as before: a deleted or updated row is held until the end of the transaction, an
INSERT holds its place in the unique index on `credential_id`, a row that refers to the account keeps it from being
deleted, and the cascade waits for the rows it deletes.

Abstracted: reading the passkey and reading its account are one step, `Verify` (a passkey on record has its account, and
one that goes afterwards is caught by `WritePasskey`). Responses of the wrong type, and those
not signed by the authenticator, never verify and are `Fail`. The list of passkeys, which only reads, labels,
public keys and `backed_up` are left out; the session itself is module 1. An unused challenge is never removed by
anything but its account's deletion, which the model keeps: there is no action for it.

### Runs

| run | configuration | shows |
|---|---|---|
| `passkey_login` | `PasskeyLogin.cfg` | type, `SpentChallengeGone`, `SignInOnRecord`, `ReplayExplained` |
| `response_grants_once` | `ResponseGrantsOnce.cfg` | finding: one assertion signs in twice |

`passkey_login` has three requests, which let two completions of one challenge race while a third removes the passkey or erases its account; three
challenges are a registration's and two sign-ins'; two passkeys
let one credential be removed and registered anew by a completion that overlapped the first; counts up to two let one sign-in overtake another.
The credential is one that counts, the harder case: `ReplayExplained` is about those alone, and in the other
properties counts play no part. One account is what fits with these bounds; nothing but the account's erasure compares accounts, and
the theorems below are for any number. Slots are symmetric. Deadlock is not checked: with the
challenges used up and the account erased the system stops.

`response_grants_once` has three requests too, one passkey and two challenges.

### Finding

**A challenge can serve twice, and one assertion sign in twice.** `models/passkey.py:53-57` calls a challenge "consumed once", for one "that verified
twice would let a captured response be replayed"; `api/passkeys.py:86` says it "cannot serve twice", ADR-0010 that it is "single-use".
`ResponseGrantsOnce` is that claim about assertions. `_consume_challenge` reads the challenge without a lock and does not ask whether its
DELETE matched a row, so completions that overlap all find it. In the run one of three is a registration: once it has
committed there is no row left to lock, and two copies of one assertion verify against the same `sign_count`. When the authenticator keeps no
counter, two copies alone suffice. What does hold:

* **once a completion has committed, its challenge is gone for good** (`SpentChallengeGone`), so a completion that
  *begins* later is refused. A second one that had found the challenge before is not: its DELETE
  matches no row, and it goes on. With one request at a time there is none (theorem `OneAtATime`);
* for one **with a counter** the same assertion serves twice only for one of the three reasons
  `ReplayExplained` lists. It is the row lock of the DELETE that protects it: the second completion waits, and so reads the
  `sign_count` the first has written. The mutant `MutConsumeUnflushed` shows that without the flush in `_consume_challenge` it would not;
* two overlapping sign-ins with different challenges **may set `sign_count` back**, since both verify against
  the value they read; `lowered` records it, and it is the first of the three reasons. A passkey removed and
  registered anew from the same response starts its count anew, which has the same effect;
* a response that fails to verify leaves its challenge usable until it expires;
* a passkey that is removed, or erased with its account, between its verification and the session signs nobody in
  (`SignInOnRecord`): the UPDATE by primary key finds no row, and PostgreSQL's lock keeps it after that.

The code never compares a challenge's `user_id` with the account that completes it, nor the ceremony the
challenge was issued for; neither does the model.

### Proofs

`PasskeyLoginProofs.tla` proves for any number of requests, accounts, credentials, challenges, passkeys and counts, under
`ConstAssumption` (counting credentials are credentials, the null account is no account, the bounds are numbers):

| theorem | says |
|---|---|
| `TypeCorrect` | `Spec => []TypeOK` |
| `Inductive` | `Spec => []IInv` |
| `ServedGone`, `SignInRests` | `SpentChallengeGone`, `SignInOnRecord` |
| `ReplaysExplained` | `ReplayExplained` |
| `OneAtATime` | with a single request slot, `ResponseGrantsOnce` |

`IInv` adds, per request, `Placed` (what it carries at each step) and `Locking` (what a lock on a passkey
buys: the row is as it was read), for each two requests `Apart` (no passkey held by both, no account erased while
it is referred to), and `PasskeyRows`, `ChallengeRows`. The replays need a second invariant over it, `RInv`: a completion keeps the
challenge it deletes on record until it ends, or comes after somebody who answered it (`Kept`); an assertion that verified after it
had served has one of the excuses (`Fresh`); nobody shares a challenge's lock (`Separate`); every
challenge that is gone has been answered or erased, and `sign_count` is at least every count that has served unless it was lowered
(`ChallengeLedger`, `CountLedger`). The argument of `ReplayCommitLogin`: a first sign-in with an assertion holds the challenge's lock, so nobody else can have
served it or verified it meanwhile; a later one holds no lock, so the challenge was answered before it verified, by another
response, which is an excuse, or by this one, whose count the verification has then seen.

## 8. Migrations

`src/backend/alembic/versions`, nine revisions in a chain, and the ORM's metadata (`models/*`,
`jobs/models.py`), which the program believes the schema to be. `Models.tla` translates the
second, `Migrations.tla` the first; neither is derived from the other.

### State

`db` is a record: the tables, each a set of columns that matter (foreign keys with their ON DELETE
rule, columns of an enum type, unique keys, CHECKs over several columns); the enum types with
their values; the rows; and whether a statement has been refused. `revision` counts the scripts
that have been run. A row is its table, its account, the value of the one enum column that a
script or a CHECK looks at (`Carried`), and which of its columns are NULL. An account has one row
per table, which refers to the account's rows in the others: that is enough for every
cascade and every constraint between tables.

### Steps

* `Upgrade`, `Downgrade`: a script is its statements one after the other, as in `d ++ user_account ++ case`, where
  `++` is `Execute`; `Refused` says which PostgreSQL would refuse, `Effect` what the others do.
  One that is refused undoes the script. `env.py` runs all scripts of a command in one transaction and the model commits
  after each; as none is ever refused (`ScriptsSucceed`), the two end alike.
* `Insert`: the program, at the head revision, inserts any row the constraints permit.
* `delete_account`: one DELETE, with the rows that go by cascade (`Closure`) and the columns that
  become NULL in those that stay (`Nulled`).

Left out: plain columns, indexes, server defaults and CHECKs on one column, which no script and no
cascade depends on, except `password_hash`, added to a table that has rows.
`ADD VALUE` must not be used in the transaction that adds it; no script does.

### Run

`migrations` (`Migrations.cfg`) walks up and down all revisions, with rows inserted at the head and
carried along. It checks the type (every row keeps every constraint at every revision),
`ScriptsSucceed` (no statement is refused, and a script up and down again leaves the database as it was, rows and
all, which is how ADR-0004:98 says a migration was verified), `SchemaOfRevision` (a downgrade leaves nothing behind, such as an enum type that
`checkfirst` would let a later upgrade take over), `HeadMatchesModels`, `DeletionComplete` and
`FactsKept`. Seven rows hold the longest chain of references (account, case, document, page,
passage, entry, note), so every cascade is followed to its end. `SampleValues` has one
value of each kind a script treats differently. The accounts never meet, so one is enough.

`FactsKept` says what a downgrade does lose: the rows of the tables it drops, the audit rows of actions that are gone, the difference between
`needs_ocr` and `pending`; and, outside what counts as a fact there, password hashes when the revision that added
them is undone. `DeletionComplete` is about references: `auth_event.email`, a plain column, keeps the address of
a deleted account, although `auth/deletion.py:11-12` says that erasing it erases its identity.

### Proofs

`MigrationsProofs.tla` proves for any accounts, values and number of rows, with no assumption but that `MaxRows` is a number
(which the proofs do not use):

| theorem | says |
|---|---|
| `TypeCorrect` | `Spec => []TypeOK` |
| `Inductive` | `Spec => []IInv` |
| `NoScriptFails`, `SchemaDetermined`, `HeadIsModels`, `DeletionTrue` | the invariants `ScriptsSucceed`, `SchemaOfRevision`, `HeadMatchesModels`, `DeletionComplete` |
| `FactsSurvive` | the action property `FactsKept` |

`At(n, R)` is the database of revision `n` with rows `R`, written down without the scripts: which revision brings a table or a type
(`Since`, `TypeSince`), and the three things that change afterwards (`password_hash`, `needs_ocr`, three audit actions). `IInv` says that the database is
`At(revision, db.rows)` and that every row keeps every constraint. `Unmarked` is needed for the round trip only: going up,
revision 4 marks the password of every account as NULL, going down it removes the mark, so no row may have had it before.

The argument goes upwards from statements. One lemma for each kind of statement (`TableCreated`, `TypesDropped`,
`TypeRecast`, ...) says when it is not refused and what it makes of `At`; they rest on `TargetsOfColumns`, which tables and types
each table's columns refer to. One lemma for each script (`Up1` to `Up9`, `Down1` to `Down9`) chains them; `Upgraded` and `Downgraded` put the
eighteen together as maps of the rows, `UpRows` and `DownRows`. That the rows left keep the constraints is shown in two parts: what a constraint
asks of a row by itself (`LawfulUp`, `LawfulDown`) and that the rows it refers to are still there (`RootedUp`, `RootedDown`: a row's
table is never older than one it refers to, `TargetsAreOlder`). `RoundTrip` is that `DownRows` undoes `UpRows`.

For the deletion, `Closure` is a least set; the proof uses that it has what follows it (`ClosureFollows`) and, since the rows of the account are such a
set, nothing of another account (`ClosureOwned`). `OthersGo` then goes table by table, each after those it must refer to, and finds
that all rows of the account go but for four tables' (`MayStay`); `AccountRowsLeft` that no reference is left in those, and
`OtherRowsLeft` that rows of other accounts are as they were.

## 9. CaseTimeline

The routes on an open case file: `api/events.py` and those of `api/cases.py` that read. Every route
reads in several SELECTs, each of which sees what has been committed by then; adds its
audit row last (`_audit`); and commits when it has returned. The subject is whether an answer put
together from several moments holds at the last of them.

### State

| variable | code |
|---|---|
| `accounts` | `user_account`; `cases` and `documents` are derived from it, since they only go with it |
| `ocr` | a document's `ocr_status`, and whether all its pages have text |
| `entry`, `note` | `case_event` with its case and its passage or author; `case_event_note` |
| `trail` | `case_audit_event`, with the count in `detail` |
| `req`, `begun` | the requests: their step, what they are about and what their SELECTs have returned |
| `faults` | failures so far |

### Steps

* **Reading**: `list_cases`, `read_case`, `list_documents` take one SELECT and their audit row;
  `read_document` the row, then `SelectPages`; `list_events` the case, then `SelectEvents`,
  `SelectCitations`, `SelectNotes`. `InsertAudit`, `CommitRead`.
* **Adding**: `create_event`, `InsertEntry`, `InsertAudit`, `CommitEntry`; `create_note`, `InsertNote`,
  `InsertAudit`, `CommitNote`. `InsertRefused` is the IntegrityError when what the row refers to is gone.
* **Deleting the account**: `delete_own_account`, `DeleteAccount`, `DeleteCascade`, `CommitDelete`, as in
  `DocumentStore` but for the files.
* **Meanwhile**: `Ocr` is what a job of `JobQueue` commits. `Extract`, an entry that cites a passage, is written by no code of the repository yet
  (ADR-0005), but the reading routes are ready for it; external. `Fail` ends any request before its
  commit; `BreakDeadlock` ends one of two that wait for each other.

An INSERT takes a share of the rows it refers to, in the order of its foreign keys: a `case_event` its case,
then its account; a `case_event_note` and an audit row the account first. A deletion takes the account, then by
cascade the cases. So a new entry and a deletion can wait for each other, and the run reaches that.

Abstracted: the first SELECTs of a route (account, case, document or entry) amount to one, for rows only go
with their account. The passage, its page and its document are read by three SELECTs that amount to one for the same reason;
a passage is on record as long as its document is. A request's id is used once, in the order in which they begin. Titles, dates, precision, kinds,
bodies, and the parties an entry names are data; no code creates a party.

### Run

`case_timeline` (`CaseTimeline.cfg`) checks the type, `AnswersHold`, `CompleteHasText`,
`TrailReconciles` and `EveryRequestEnds`. Three requests are a reader, a writer and a deletion, or a reader
between two writers; two entries let one be recorded while another is being extracted. One case and one
account: requests on two never touch the same row, and the runs with two
take too long with liveness (which excludes symmetry); the theorems are about any number.

What the properties turn on: nothing in the SELECTs of `list_events` keeps the case from being deleted between
them, and an entry whose passage is gone would get no citation (`_citation` returns None). What prevents that answer is
the audit row, whose foreign keys refuse the INSERT at the end: the mutant without them breaks `AnswersHold`.
`CompleteHasText` holds because the document's status is read before its pages and OCR writes both in one transaction.

### Fairness

Weak fairness of each request's steps: a handler is awaited to its end, and a lock that is free is granted. Weak fairness of
`BreakDeadlock`: PostgreSQL looks for deadlocks after `deadlock_timeout`. None of `Start`, `Fail`, `Ocr` or `Extract`.
`EveryRequestEnds` needs that requests are finitely many: a stream of readers without end, each with a share of
the account, could keep a deletion waiting. Without `BreakDeadlock` it fails.

### Proofs

`CaseTimelineProofs.tla` proves for any accounts, cases, documents, entries, notes, requests and failures, under
`NoneAssumption`, `RowsNotNone` (the null value is no id and no row), `RowsAssumption` (the owner of a case and the case of a document),
`FiniteAssumption` (finitely many ids, for there is counting) and `BoundsAssumption`:

| theorem | says |
|---|---|
| `TypeCorrect` | `Spec => []TypeOK` |
| `Inductive` | `Spec => []IInv` |
| `AnswersTrue`, `CompleteTrue` | `AnswersHold`, `CompleteHasText` |
| `TrailTrue` | `TrailReconciles` |

`AnswersHold` is about requests at their end. `IInv` says what they have at each step before: `Placed` and `Subject` (where a request stands and
what it is about), `Listed`, `Chronology` and `Shown` (what its SELECTs returned is still so, **or** its account is gone, in which case
it will be refused), `Held` (past its audit row the account is there and stays), `Fresh` and, for each two requests, `Apart`
(no deletion holds what another refers to; no two record the same row). `Begins`, `GoesOn` and `Ends` cover the steps that change one request
only, `Writes` the commits that add a row, each by what it leaves as it was (`StillShown`).

The trail needs a second invariant over it, `Tally`: each audit row is of a request that has ended and names the owner of its case
(`Begun`), and the counts agree case by case (`Recon`). `TrailGrows` says what a commit adds;
`ReconSame` that a case whose own rows stay keeps its balance, also when an entry is extracted into it.

## 10. What is left out, and why

* **Not modelled yet**: the pure operators of module 8. Reading an upload within its limit (`ingest/limits.py`) ends before
  anything is stored, and the boot checks (`core/config.py`) leave no state: unit tests reach both.
* **Not modelled**: password hashing, strength rules and the opportunistic rehash (`auth/passwords.py`: a
  library call); re-registration of a deleted address; health probes; the web client; validation and formatting of requests and answers.
  Parties and extracted facts are tables that no code writes: only `Migrations` has them.
* **Deadlocks**: of the pairs of requests that can wait for each other, `CaseTimeline` has entry and deletion with PostgreSQL's remedy.
  In `DocumentStore` (upload and deletion) and `MfaEnrolment` (disable with a recovery code and restarted setup) the remedy is `Fail`.
* **Model-checked only**: `EveryRequestEnds` and `EveryJobEnds`, since liveness under fairness is out of the
  prover's reach, and the five properties of the findings, which are false (what each turns on is a theorem: no refusal is ever recorded, the second factor and
  the passkeys keep their promises with one request at a time, and files stay whole until something fails). Every other property of a run is a theorem.
* **Assumed of the database**: row locks and unique-index waits as PostgreSQL documents them, READ COMMITTED
  visibility, cascades. They are external definitions or named in the comments of the step that uses them.
