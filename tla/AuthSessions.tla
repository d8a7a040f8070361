---------------------------- MODULE AuthSessions ----------------------------
(* Login sessions and their refresh-token families (app/auth/service.py), as *)
(* concurrent HTTP requests drive them.  Every request runs in ONE database  *)
(* transaction (app/db/session.py, get_session): its handler reads committed *)
(* rows, flushes its writes under row locks, and only when it has returned   *)
(* does the transaction commit.  An exception, HTTPException included, rolls *)
(* the whole transaction back.  PostgreSQL runs it at READ COMMITTED.        *)
(*                                                                           *)
(* A token stands for its SHA-256 digest.  Tokens and session ids are 256    *)
(* bit and uuid4 randoms, so a fresh one is the next number, never reused,   *)
(* not even when the transaction that drew it is rolled back.                *)
EXTENDS Naturals, FiniteSets

CONSTANTS
    Accounts,         \* accounts, each with an email address of its own
    NoUser,           \* not an account
    MfaAccounts,      \* the accounts whose second factor is confirmed
    Requests,         \* slots for requests in flight at the same time
    AccessTTL,        \* ACCESS_TOKEN_TTL
    RefreshTTL,       \* REFRESH_TOKEN_TTL
    ChallengeTTL,     \* MFA_CHALLENGE_TTL
    LoginWindow,      \* LOGIN_WINDOW
    MaxFailedLogins,  \* MAX_FAILED_LOGINS
    Refusable,        \* bound: the accounts a login to which is ever refused
    MaxSessions,      \* bound: sessions ever opened
    MaxTokens,        \* bound: refresh tokens ever generated
    MaxTime           \* bound: the clock

ASSUME NoUserAssumption == NoUser \notin Accounts
ASSUME NatAssumption ==
    /\ {AccessTTL, RefreshTTL, ChallengeTTL} \subseteq Nat
    /\ {LoginWindow, MaxFailedLogins} \subseteq Nat
    /\ {MaxSessions, MaxTokens, MaxTime} \subseteq Nat

Sessions == 1 .. MaxSessions
Tokens   == 1 .. MaxTokens

VARIABLES
    now,        \* the clock every handler reads
    account,    \* user_account rows
    session,    \* user_session rows, all of them committed
    used,       \* used_refresh_token rows
    authEvent,  \* auth_event rows
    req,        \* the requests in flight, with what each has read and not yet committed
    opened,     \* the last session id drawn
    minted,     \* the last refresh token drawn
    granted,    \* <<refresh token, session>> pairs handed out by committed requests
    access,     \* per session, when the last access token handed out for it expires
    challenge   \* per account, when the last MFA challenge handed out expires

tables == <<account, session, used, authEvent>>
tokens == <<opened, minted, granted, access, challenge>>
vars   == <<now, account, session, used, authEvent, req, opened, minted,
            granted, access, challenge>>

-----------------------------------------------------------------------------
Ops   == {"none", "register", "login", "refresh", "replay",
          "logout", "logoutAll", "delete", "badLogin"}
Steps == {"idle", "select", "flush", "return", "raise"}

SessionRow == [st : {"free", "open", "revoked", "gone"}, user : Accounts \cup {NoUser},
               digest : Nat, expires : Nat]
UsedRow    == [digest : Nat, session : Sessions]
EventRow   == [email : Accounts \cup {NoUser}, type : {"login_succeeded", "login_failed"},
               at : Nat, id : Nat]
Request    == [op : Ops, at : Steps, user : Accounts \cup {NoUser}, ses : Nat,
               tok : Nat, new : Nat, rows : SUBSET Sessions, t : Nat]

Idle == [op |-> "none", at |-> "idle", user |-> NoUser, ses |-> 0,
         tok |-> 0, new |-> 0, rows |-> {}, t |-> 0]

Init ==
    /\ now = 0
    /\ account = [a \in Accounts |-> "absent"]
    /\ session = [s \in Sessions |-> [st |-> "free", user |-> NoUser,
                                      digest |-> 0, expires |-> 0]]
    /\ used = {}
    /\ authEvent = {}
    /\ req = [r \in Requests |-> Idle]
    /\ opened = 0
    /\ minted = 0
    /\ granted = {}
    /\ access = [s \in Sessions |-> 0]
    /\ challenge = [a \in Accounts |-> 0]

-----------------------------------------------------------------------------
UsedDigests == {u.digest : u \in used}
Exists(s)   == session[s].st \in {"open", "revoked"}

Later(t, u) == IF t > u THEN t ELSE u

\* UserSession.is_active
IsActive(s, t) == session[s].st = "open" /\ session[s].expires > t

\* _failed_attempts_since: what the limiter counts among `events`.
FailedSince(events, a, t) ==
    Cardinality({e \in events : /\ e.email = a
                                /\ e.type = "login_failed"
                                /\ e.at + LoginWindow >= t})

\* Transactions that have flushed hold their row locks until they end.
HasFlushed(r) == req[r].at \in {"return", "raise"}

\* Mutants: locks are not taken at all; a lock is held from the read on.
MutNoLocks(r, S) == TRUE
MutLockOnRead(r, S) == \A q \in Requests \ {r} : req[q].rows \cap S = {}
LocksFree(r, S) == \A q \in Requests \ {r} : HasFlushed(q) => req[q].rows \cap S = {}

\* An INSERT that references the account holds FOR KEY SHARE on it, its DELETE the row.
Inserting(r, a) == req[r].at = "return" /\ req[r].op = "login" /\ req[r].user = a
Deleting(r, a)  == req[r].at = "return" /\ req[r].op = "delete" /\ req[r].user = a

Start(r, request) == req[r].at = "idle" /\ req' = [req EXCEPT ![r] = request]
GoTo(r, at)       == req' = [req EXCEPT ![r].at = at]
End(r)            == req' = [req EXCEPT ![r] = Idle]

-----------------------------------------------------------------------------
\* POST /register up to its flush.  The unique index on email makes the INSERT wait for
\* a concurrent one; the loser gets IntegrityError, rolls back and answers 409.
Register(r, a) ==
    /\ account[a] # "deleted"
    /\ \A q \in Requests : ~ (req[q].at = "return" /\ req[q].op = "register" /\ req[q].user = a)
    /\ Start(r, [Idle EXCEPT !.op = "register", !.user = a, !.t = now,
                  !.at = IF account[a] = "absent" THEN "return" ELSE "raise"])
    /\ UNCHANGED <<now, tables, tokens>>

CommitRegister(r) ==
    /\ req[r].at = "return" /\ req[r].op = "register"
    /\ account' = [account EXCEPT ![req[r].user] = "present"]
    /\ End(r)
    /\ UNCHANGED <<now, session, used, authEvent, tokens>>

-----------------------------------------------------------------------------
\* The rate limiter's refusal (429) reads only: it is no step of its own.
Limited(a) == FailedSince(authEvent, a, now) >= MaxFailedLogins

\* authenticate, when the credentials do not match: the login_failed row is flushed and
\* the exception is raised with the transaction still open.
LoginRefused(r, a, matched) ==
    /\ ~ Limited(a)
    /\ matched => account[a] # "present"
    /\ a \in Refusable
    /\ Start(r, [Idle EXCEPT !.op = "badLogin", !.at = "raise", !.user = a, !.t = now])
    /\ UNCHANGED <<now, tables, tokens>>

\* authenticate, password accepted and a second factor owed: a signed challenge, no row.
LoginChallenged(r, a) ==
    /\ req[r].at = "idle"
    /\ ~ Limited(a) /\ account[a] = "present"
    /\ a \in MfaAccounts
    /\ challenge' = [challenge EXCEPT ![a] = now + ChallengeTTL]
    /\ UNCHANGED <<now, tables, req, opened, minted, granted, access>>

\* The reads of authenticate, or of POST /mfa/verify with an unexpired challenge and a
\* code that verifies, up to the INSERT of the session.
Login(r, a) ==
    /\ account[a] = "present"
    /\ IF a \in MfaAccounts THEN challenge[a] > now ELSE ~ Limited(a)
    /\ opened < MaxSessions /\ minted < MaxTokens
    /\ Start(r, [Idle EXCEPT !.op = "login", !.at = "flush", !.user = a, !.t = now,
                  !.ses = opened + 1, !.new = minted + 1])
    /\ opened' = opened + 1
    /\ minted' = minted + 1
    /\ UNCHANGED <<now, tables, granted, access, challenge>>

\* Mutant: user_session has no foreign key to user_account.
MutLoginFlushNoForeignKey(r) ==
    /\ req[r].at = "flush" /\ req[r].op = "login"
    /\ GoTo(r, "return")
    /\ UNCHANGED <<now, tables, tokens>>

\* _issue_session and the login_succeeded row: waits while the account's row is being
\* deleted.
LoginFlush(r) ==
    LET a == req[r].user IN
    /\ req[r].at = "flush" /\ req[r].op = "login"
    /\ account[a] = "present" /\ \A q \in Requests : ~ Deleting(q, a)
    /\ GoTo(r, "return")
    /\ access' = [access EXCEPT ![req[r].ses] = Later(@, req[r].t + AccessTTL)]
    /\ UNCHANGED <<now, tables, opened, minted, granted, challenge>>

CommitLogin(r) ==
    LET q == req[r] IN
    /\ q.at = "return" /\ q.op = "login"
    /\ session' = [session EXCEPT ![q.ses] = [st |-> "open", user |-> q.user,
                                    digest |-> q.new, expires |-> q.t + RefreshTTL]]
    /\ authEvent' = authEvent \cup {[email |-> q.user, type |-> "login_succeeded",
                                      at |-> q.t, id |-> q.ses]}
    /\ granted' = granted \cup {<<q.new, q.ses>>}
    /\ End(r)
    /\ UNCHANGED <<now, account, used, opened, minted, access, challenge>>

-----------------------------------------------------------------------------
\* refresh_session, first SELECT: this token has not been rotated away ...
Refresh(r, tok) ==
    /\ tok \notin UsedDigests
    /\ Start(r, [Idle EXCEPT !.op = "refresh", !.at = "select", !.tok = tok, !.t = now])
    /\ UNCHANGED <<now, tables, tokens>>

\* ... or it has: the used-token row names the session to end.
RefreshReplayed(r, u) ==
    /\ Start(r, [Idle EXCEPT !.op = "replay", !.at = "flush", !.tok = u.digest,
                             !.ses = u.session, !.t = now])
    /\ UNCHANGED <<now, tables, tokens>>

\* Replay detected: _revoke_session_by_id flushes revoked_at and the exception is raised.
ReplayFlush(r) ==
    LET target == {s \in Sessions : s = req[r].ses /\ session[s].st = "open"} IN
    /\ req[r].at = "flush" /\ req[r].op = "replay"
    /\ LocksFree(r, target)
    /\ req' = [req EXCEPT ![r].at = "raise", ![r].rows = target]
    /\ UNCHANGED <<now, tables, tokens>>

\* refresh_session, the session and its account: the row is found by the token's digest,
\* and a new token is drawn.
Accepts(r, s) == /\ session[s].digest = req[r].tok
                 /\ IsActive(s, req[r].t)
                 /\ account[session[s].user] = "present"

RefreshLoad(r, s) ==
    /\ req[r].at = "select" /\ req[r].op = "refresh"
    /\ Accepts(r, s)
    /\ minted < MaxTokens
    /\ req' = [req EXCEPT ![r].at = "flush", ![r].ses = s, ![r].new = minted + 1,
                          ![r].user = session[s].user]
    /\ minted' = minted + 1
    /\ UNCHANGED <<now, tables, opened, granted, access, challenge>>

\* No active session has this token (or the bound on tokens is reached, which ends the
\* request as Fail may anywhere).
RefreshRejected(r) ==
    /\ req[r].at = "select" /\ req[r].op = "refresh"
    /\ (\A s \in Sessions : ~ Accepts(r, s)) \/ minted = MaxTokens
    /\ GoTo(r, "raise")
    /\ UNCHANGED <<now, tables, tokens>>

\* Mutant: the index on used_refresh_token.digest is not unique.
MutRefreshFlushNotUnique(r) ==
    /\ req[r].at = "flush" /\ req[r].op = "refresh"
    /\ LocksFree(r, {req[r].ses})
    /\ Exists(req[r].ses)
    /\ req' = [req EXCEPT ![r].at = "return", ![r].rows = {req[r].ses}]
    /\ UNCHANGED <<now, tables, tokens>>

\* refresh_session, flush: INSERT the used digest (unique index, foreign key) and UPDATE
\* the session by primary key, under its row lock.
RefreshFlush(r) ==
    LET s == req[r].ses IN
    /\ req[r].at = "flush" /\ req[r].op = "refresh"
    /\ LocksFree(r, {s})
    /\ req[r].tok \notin UsedDigests /\ Exists(s)
    /\ req' = [req EXCEPT ![r].at = "return", ![r].rows = {s}]
    /\ access' = [access EXCEPT ![s] = Later(@, req[r].t + AccessTTL)]
    /\ UNCHANGED <<now, tables, opened, minted, granted, challenge>>

\* Mutants: the whole row is written back as it was read; the digest is not rotated.
MutCommitRefreshWholeRow(r) ==
    LET q == req[r] IN
    /\ q.at = "return" /\ q.op = "refresh"
    /\ session' = [session EXCEPT ![q.ses].digest = q.new, ![q.ses].st = "open"]
    /\ used' = used \cup {[digest |-> q.tok, session |-> q.ses]}
    /\ End(r)
    /\ UNCHANGED <<now, account, authEvent, tokens>>
MutCommitRefreshSameToken(r) ==
    LET q == req[r] IN
    /\ q.at = "return" /\ q.op = "refresh"
    /\ used' = used \cup {[digest |-> q.tok, session |-> q.ses]}
    /\ End(r)
    /\ UNCHANGED <<now, account, session, authEvent, tokens>>

\* Only the changed columns are written: a revocation committed since the row was read stays.
CommitRefresh(r) ==
    LET q == req[r] IN
    /\ q.at = "return" /\ q.op = "refresh"
    /\ session' = [session EXCEPT ![q.ses].digest = q.new]
    /\ used' = used \cup {[digest |-> q.tok, session |-> q.ses]}
    /\ granted' = granted \cup {<<q.new, q.ses>>}
    /\ End(r)
    /\ UNCHANGED <<now, account, authEvent, opened, minted, access, challenge>>

-----------------------------------------------------------------------------
\* authenticated (app/api/deps.py): an unexpired access token, whose session is active and
\* whose account exists.  A request refused here reads only.
Authenticated(s) ==
    /\ access[s] > now
    /\ IsActive(s, now)
    /\ account[session[s].user] = "present"

Logout(r, s) ==
    /\ Authenticated(s)
    /\ Start(r, [Idle EXCEPT !.op = "logout", !.at = "flush", !.ses = s, !.rows = {s},
                             !.user = session[s].user, !.t = now])
    /\ UNCHANGED <<now, tables, tokens>>

LogoutAll(r, s) ==
    /\ Authenticated(s)
    /\ Start(r, [Idle EXCEPT !.op = "logoutAll", !.at = "select", !.ses = s,
                             !.user = session[s].user, !.t = now])
    /\ UNCHANGED <<now, tables, tokens>>

LogoutAllSelect(r) ==
    /\ req[r].at = "select" /\ req[r].op = "logoutAll"
    /\ req' = [req EXCEPT ![r].at = "flush",
                          ![r].rows = {s \in Sessions : /\ session[s].st = "open"
                                                        /\ session[s].user = req[r].user}]
    /\ UNCHANGED <<now, tables, tokens>>

\* The UPDATE of revoked_at, under the row locks.
RevokeFlush(r) ==
    /\ req[r].at = "flush" /\ req[r].op \in {"logout", "logoutAll"}
    /\ LocksFree(r, req[r].rows)
    /\ \A s \in req[r].rows : Exists(s)
    /\ GoTo(r, "return")
    /\ UNCHANGED <<now, tables, tokens>>

CommitRevoke(r) ==
    /\ req[r].at = "return" /\ req[r].op \in {"logout", "logoutAll"}
    /\ session' = [s \in Sessions |-> IF s \in req[r].rows
                                      THEN [session[s] EXCEPT !.st = "revoked"]
                                      ELSE session[s]]
    /\ End(r)
    /\ UNCHANGED <<now, account, used, authEvent, tokens>>

-----------------------------------------------------------------------------
\* POST /me/delete, once the acknowledgement, the password and the code are accepted.
Delete(r, s) ==
    /\ Authenticated(s)
    /\ Start(r, [Idle EXCEPT !.op = "delete", !.at = "flush", !.ses = s,
                             !.user = session[s].user, !.t = now])
    /\ UNCHANGED <<now, tables, tokens>>

\* DELETE FROM user_account: waits for every INSERT that references the row, then the
\* cascade takes the row lock of each of its sessions.
DeleteFlush(r) ==
    LET a     == req[r].user
        owned == {s \in Sessions : Exists(s) /\ session[s].user = a} IN
    /\ req[r].at = "flush" /\ req[r].op = "delete"
    /\ \A q \in Requests : ~ Inserting(q, a) /\ ~ Deleting(q, a)
    /\ LocksFree(r, owned)
    /\ req' = [req EXCEPT ![r].at = "return", ![r].rows = owned]
    /\ UNCHANGED <<now, tables, tokens>>

\* Mutant: used_refresh_token.session_id is ON DELETE SET NULL.
MutCommitDeleteSetNull(r) ==
    LET q == req[r] IN
    /\ q.at = "return" /\ q.op = "delete"
    /\ account' = [account EXCEPT ![q.user] = "deleted"]
    /\ session' = [s \in Sessions |-> IF s \in q.rows
                                      THEN [session[s] EXCEPT !.st = "gone"]
                                      ELSE session[s]]
    /\ used' = {IF u.session \in q.rows THEN [u EXCEPT !.session = 0] ELSE u : u \in used}
    /\ End(r)
    /\ UNCHANGED <<now, authEvent, tokens>>

CommitDelete(r) ==
    LET q == req[r] IN
    /\ q.at = "return" /\ q.op = "delete"
    /\ account' = [account EXCEPT ![q.user] = "deleted"]
    /\ session' = [s \in Sessions |-> IF s \in q.rows
                                      THEN [session[s] EXCEPT !.st = "gone"]
                                      ELSE session[s]]
    /\ used' = {u \in used : u.session \notin q.rows}
    /\ End(r)
    /\ UNCHANGED <<now, authEvent, tokens>>

-----------------------------------------------------------------------------
\* A flush the database refuses: the account of the new session is gone (foreign key), the
\* token was rotated meanwhile (unique index), or a row to update is gone (StaleDataError).
Conflict(r) ==
    /\ req[r].at = "flush"
    /\ \/ req[r].op = "login" /\ account[req[r].user] # "present"
       \/ /\ req[r].op = "refresh" /\ LocksFree(r, {req[r].ses})
          /\ req[r].tok \in UsedDigests \/ ~ Exists(req[r].ses)
       \/ /\ req[r].op \in {"logout", "logoutAll"} /\ LocksFree(r, req[r].rows)
          /\ \E s \in req[r].rows : ~ Exists(s)
    /\ GoTo(r, "raise")
    /\ UNCHANGED <<now, tables, tokens>>

\* get_session unwinding an exception: nothing the handler flushed is kept.
Rollback(r) ==
    /\ req[r].at = "raise"
    /\ End(r)
    /\ UNCHANGED <<now, tables, tokens>>

\* A crash, a dropped connection or a database error, at any point before the commit.
Fail(r) ==
    /\ req[r].at \in {"select", "flush", "return"}
    /\ End(r)
    /\ UNCHANGED <<now, tables, tokens>>

Tick ==
    /\ now < MaxTime
    /\ now' = now + 1
    /\ UNCHANGED <<tables, req, tokens>>

-----------------------------------------------------------------------------
Begin(r) ==
    \/ \E a \in Accounts : \/ Register(r, a)
                           \/ \E matched \in BOOLEAN : LoginRefused(r, a, matched)
                           \/ LoginChallenged(r, a)
                           \/ Login(r, a)
    \/ \E tok \in 1 .. minted : Refresh(r, tok)
    \/ \E u \in used : RefreshReplayed(r, u)
    \/ \E s \in Sessions : Logout(r, s) \/ LogoutAll(r, s) \/ Delete(r, s)

Read(r)  == (\E s \in Sessions : RefreshLoad(r, s)) \/ RefreshRejected(r) \/ LogoutAllSelect(r)
Flush(r) == \/ LoginFlush(r) \/ ReplayFlush(r) \/ RefreshFlush(r)
            \/ RevokeFlush(r) \/ DeleteFlush(r) \/ Conflict(r)
Finish(r) == \/ CommitRegister(r) \/ CommitLogin(r) \/ CommitRefresh(r)
             \/ CommitRevoke(r) \/ CommitDelete(r) \/ Rollback(r)

Next == Tick \/ \E r \in Requests : Begin(r) \/ Read(r) \/ Flush(r) \/ Finish(r) \/ Fail(r)

Spec == Init /\ [][Next]_vars

\* A handler that runs gets on: its reads and its end need nothing of anyone else, and
\* PostgreSQL serves the requests that wait for a row lock in turn.
Fairness == \A r \in Requests : /\ WF_vars(Read(r))
                                /\ SF_vars(Flush(r))
                                /\ WF_vars(Finish(r))
FairSpec == Spec /\ Fairness

-----------------------------------------------------------------------------
\* A request names the session it is about, a rotation once it has found it.
Named(r) == \/ req[r].op \in {"login", "replay", "logout", "logoutAll", "delete"}
            \/ req[r].op = "refresh" /\ req[r].at \in {"flush", "return"}
            => req[r].ses \in Sessions

\* Every variable keeps its type: in particular a used-token row always names a session,
\* as its NOT NULL foreign key demands.
TypeOK ==
    /\ now \in 0 .. MaxTime
    /\ account \in [Accounts -> {"absent", "present", "deleted"}]
    /\ session \in [Sessions -> SessionRow]
    /\ used \subseteq UsedRow
    /\ authEvent \subseteq EventRow
    /\ req \in [Requests -> Request]
    /\ \A r \in Requests : Named(r)
    /\ opened \in 0 .. MaxSessions
    /\ minted \in 0 .. MaxTokens
    /\ granted \subseteq Nat \X Sessions
    /\ access \in [Sessions -> Nat]
    /\ challenge \in [Accounts -> Nat]

\* The token a session would accept next is never one that counts as a replay, whatever
\* rotations, logouts and deletions interleave: a client holding it is never locked out.
CurrentNeverUsed == \A s \in Sessions : Exists(s) => session[s].digest \notin UsedDigests

\* No refresh token a committed response handed out is forgotten while its session's row
\* exists: it is the current one or it is recorded as used by that very session, so two
\* concurrent rotations never both succeed and every replay stays detectable.
TokensAccounted ==
    \A g \in granted :
        Exists(g[2]) => \/ session[g[2]].digest = g[1]
                        \/ [digest |-> g[1], session |-> g[2]] \in used

\* An account's deletion takes every session and every used-token row with it, however it
\* interleaves with a login or a rotation that was already in flight.
CascadeComplete ==
    /\ \A s \in Sessions : Exists(s) => account[session[s].user] = "present"
    /\ \A u \in used : Exists(u.session)

\* "A revoked session is never resurrected" (models/session.py): no step, a rotation that
\* read the row before the logout included, makes an ended session usable again.
NeverResurrected ==
    [][\A s \in Sessions : session[s].st \in {"revoked", "gone"}
            => session'[s].st \in {session[s].st, "gone"}]_vars

\* Every request in flight is answered: none waits for a row lock for ever.  (A flush takes
\* its row locks together here; PostgreSQL breaks a cycle of waits by failing one of them.)
EveryRequestEnds == \A r \in Requests : req[r].at # "idle" ~> req[r].at = "idle"

\* The committed rows, seen as SessionLedger's variables: a revoked or deleted session holds
\* no token.
Open(s)      == session[s].st = "open"
StatusOf(s)  == CASE session[s].st = "free" -> "unopened"
                  [] Open(s)                -> "live"
                  [] OTHER                  -> "ended"
TokenOf(s)   == IF Open(s) THEN session[s].digest ELSE 0
SpentOf(s)   == IF Open(s) THEN {u.digest : u \in {v \in used : v.session = s}} ELSE {}
LedgerStatus == [s \in Sessions |-> StatusOf(s)]
LedgerToken  == [s \in Sessions |-> TokenOf(s)]
LedgerSpent  == [s \in Sessions |-> SpentOf(s)]
Ledger == INSTANCE SessionLedger WITH status <- LedgerStatus, token <- LedgerToken,
                                      spent <- LedgerSpent

\* Every commit opens a session with a fresh token, exchanges the one good token of a
\* live session for a fresh one, or ends sessions; no other step is visible.
ImplementsLedger == Ledger!Spec

\* What a refused request is documented to leave is there when it has ended: presenting an
\* already-used token "revokes the whole session" (ADR-0007), and a wrong password is
\* "recorded so the rate limiter has something to count" (auth/service.py:126).
RefusalsRecorded ==
    [][\A r \in Requests : req[r].at = "raise" /\ req'[r].at = "idle" =>
        /\ req[r].op = "replay" => session'[req[r].ses].st # "open"
        /\ req[r].op = "badLogin" =>
              \E e \in authEvent' : /\ e.email = req[r].user /\ e.at = req[r].t
                                    /\ e.type = "login_failed"]_vars
=============================================================================
