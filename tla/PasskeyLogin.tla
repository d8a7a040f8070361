---------------------------- MODULE PasskeyLogin ----------------------------
(* Passkeys (app/api/passkeys.py): challenges are stored, answered once by an *)
(* authenticator's response and deleted; a registration adds a passkey, an    *)
(* assertion opens a session; passkeys are removed, accounts erased.          *)
(* Transactions are those of AuthSessions: reads see committed rows, writes   *)
(* are flushed under row locks, a commit ends the request, an exception       *)
(* undoes it.                                                                 *)
(*                                                                            *)
(* Challenges are random: the n-th stored is n.  A response is what its       *)
(* authenticator signed: of which ceremony, for which challenge, with which   *)
(* signature counter; a signature by anything else does not verify.           *)
EXTENDS Integers, FiniteSets

CONSTANTS
    Requests,       \* slots for requests in flight at the same time
    Accounts,
    Credentials,    \* the credential ids of the authenticators
    Counting,       \* those whose authenticator keeps a signature counter
    None,           \* no account
    MaxChallenges,  \* bound: challenges stored
    MaxPasskeys,    \* bound: passkeys registered
    MaxCount        \* bound: assertions by one counting authenticator

ASSUME ConstAssumption ==
    /\ Counting \subseteq Credentials
    /\ None \notin Accounts
    /\ {MaxChallenges, MaxPasskeys, MaxCount} \subseteq Nat

VARIABLES
    accounts,    \* the user_account rows
    passkeys,    \* the passkey row of each credential
    challenges,  \* the passkey_challenge rows
    issued,      \* challenges stored so far
    added,       \* passkeys registered so far
    counter,     \* the counter each authenticator keeps
    signed,      \* responses signed so far
    req,         \* the requests in flight
    served,      \* history: responses of committed completions
    regranted,   \* history: assertions among them that signed in once more
    erased,      \* history: challenges erased with their account
    lowered      \* history: credentials whose sign_count a commit lowered or started anew

rows    == <<accounts, passkeys, challenges>>
clients == <<issued, counter, signed>>
history == <<served, regranted, erased, lowered>>
vars    == <<rows, clients, added, req, history>>

-----------------------------------------------------------------------------
Challenges == 1 .. MaxChallenges
Counts     == 0 .. MaxCount

\* `id` is the row's primary key, 0 when the credential has no row.
Passkey   == [id : 0 .. MaxPasskeys, user : Accounts \cup {None}, count : Counts]
NoPasskey == [id |-> 0, user |-> None, count |-> 0]

\* `state` is "gone" when there is no row, "expired" once expires_at has passed.
Challenge == [state : {"gone", "fresh", "expired"}, user : Accounts \cup {None}]
NoChallenge == [state |-> "gone", user |-> None]

Response == [type : {"create", "get"}, key : Credentials, ch : Challenges, count : Counts]

\* What a request has read and what it holds: whose it is, the credential, challenge and
\* counter of the response it completes, the id of the passkey row it has read, and whether
\* its DELETE matched a row, which it then has locked.
Request == [op : {"none", "register", "login", "remove", "erase"},
            at : {"idle", "consume", "verify", "write", "issue", "cascade", "return"},
            user : Accounts \cup {None}, key : Credentials \cup {None},
            ch : 0 .. MaxChallenges, count : Counts, id : 0 .. MaxPasskeys, holds : BOOLEAN]
Idle == [op |-> "none", at |-> "idle", user |-> None, key |-> None, ch |-> 0, count |-> 0,
         id |-> 0, holds |-> FALSE]

Init ==
    /\ accounts = Accounts
    /\ passkeys = [k \in Credentials |-> NoPasskey]
    /\ challenges = [c \in Challenges |-> NoChallenge]
    /\ issued = 0
    /\ added = 0
    /\ counter = [k \in Credentials |-> 0]
    /\ signed = {}
    /\ req = [r \in Requests |-> Idle]
    /\ served = {} /\ regranted = {} /\ erased = {} /\ lowered = {}

-----------------------------------------------------------------------------
OnRecord(c) == challenges[c].state # "gone"

\* PostgreSQL's locks: who has locked a challenge's row, a passkey's row (or the place of
\* its credential in the unique index), or an account's row; and who has inserted a row
\* that refers to the account, which keeps the account from being deleted.
Cascaded(q, user) == q.op = "erase" /\ q.at = "return" /\ q.holds /\ q.user = user

HoldsChallenge(q, c) ==
    \/ q.op \in {"register", "login"} /\ q.holds /\ q.ch = c
    \/ Cascaded(q, challenges[c].user)
HoldsPasskey(q, k) ==
    \/ q.op = "register" /\ q.at = "return" /\ q.key = k
    \/ q.op = "login" /\ q.at \in {"issue", "return"} /\ q.key = k
    \/ q.op = "remove" /\ q.holds /\ q.key = k
    \/ Cascaded(q, passkeys[k].user)
Erasing(q, u)   == q.op = "erase" /\ q.holds /\ q.user = u
Referring(q, u) == q.op \in {"register", "login"} /\ q.at = "return" /\ q.user = u

ChallengeFree(r, c) == \A s \in Requests \ {r} : ~ HoldsChallenge(req[s], c)
PasskeyFree(r, k)   == \A s \in Requests \ {r} : ~ HoldsPasskey(req[s], k)

\* A foreign key to the account: there is one, and nobody is deleting it.
Refers(u) == u \in accounts /\ \A s \in Requests : ~ Erasing(req[s], u)

Start(r, request)   == req[r].at = "idle" /\ req' = [req EXCEPT ![r] = request]
Move(r, next, held) == req' = [req EXCEPT ![r].at = next, ![r].holds = held]
End(r)              == req' = [req EXCEPT ![r] = Idle]

-----------------------------------------------------------------------------
\* _store_challenge
StoreChallenge(u) ==
    /\ issued < MaxChallenges
    /\ issued' = issued + 1
    /\ challenges' = [challenges EXCEPT ![issued + 1] = [state |-> "fresh", user |-> u]]
    /\ UNCHANGED <<accounts, passkeys, counter, signed, added, req, history>>

\* register_begin, for a signed-in account.
RegisterBegin(u) == Refers(u) /\ StoreChallenge(u)

\* login_begin: an email without an account gets a challenge too.
LoginBegin(u) == (u = None \/ Refers(u)) /\ StoreChallenge(u)

\* expires_at passes.
Expire(c) ==
    /\ challenges[c].state = "fresh"
    /\ challenges' = [challenges EXCEPT ![c].state = "expired"]
    /\ UNCHANGED <<accounts, passkeys, clients, added, req, history>>

\* The browser: an authenticator creates a credential for a challenge, once, ...
Create(k, c) ==
    /\ OnRecord(c)
    /\ \A s \in signed : s.type = "create" => s.key # k
    /\ signed' = signed \cup {[type |-> "create", key |-> k, ch |-> c, count |-> counter[k]]}
    /\ UNCHANGED <<rows, issued, counter, added, req, history>>

\* ... and then signs assertions with it, and counts them if it keeps a counter.
Sign(k, c) ==
    LET n == IF k \in Counting THEN counter[k] + 1 ELSE 0 IN
    /\ OnRecord(c)
    /\ \E s \in signed : s.type = "create" /\ s.key = k
    /\ n \in Counts
    /\ counter' = [counter EXCEPT ![k] = n]
    /\ signed' = signed \cup {[type |-> "get", key |-> k, ch |-> c, count |-> n]}
    /\ UNCHANGED <<rows, issued, added, req, history>>

-----------------------------------------------------------------------------
\* _consume_challenge: the response's challenge is on record and not expired.
Answerable(c) == challenges[c].state = "fresh"

\* register_complete.  The challenge's user_id is not compared with the caller's account.
RegisterComplete(r, u, s) ==
    /\ s.type = "create" /\ u \in accounts /\ Answerable(s.ch)
    /\ Start(r, [Idle EXCEPT !.op = "register", !.at = "consume", !.user = u, !.key = s.key,
                             !.ch = s.ch, !.count = s.count])
    /\ UNCHANGED <<rows, clients, added, history>>

\* login_complete
LoginComplete(r, s) ==
    /\ s.type = "get" /\ Answerable(s.ch)
    /\ Start(r, [Idle EXCEPT !.op = "login", !.at = "consume", !.key = s.key, !.ch = s.ch,
                             !.count = s.count])
    /\ UNCHANGED <<rows, clients, added, history>>

\* Mutant: the DELETE is left to the commit, and locks nothing before.
MutConsumeUnflushed(r) ==
    /\ req[r].at = "consume"
    /\ Move(r, IF req[r].op = "login" THEN "verify" ELSE "write", FALSE)
    /\ UNCHANGED <<rows, clients, added, history>>

\* The DELETE of the challenge, flushed.  One that is gone meanwhile is only warned about.
Consume(r) ==
    /\ req[r].at = "consume"
    /\ ChallengeFree(r, req[r].ch)
    /\ Move(r, IF req[r].op = "login" THEN "verify" ELSE "write", OnRecord(req[r].ch))
    /\ UNCHANGED <<rows, clients, added, history>>

\* The response a request completes.
Completed(q) == [type |-> IF q.op = "login" THEN "get" ELSE "create", key |-> q.key,
                 ch |-> q.ch, count |-> q.count]

\* Mutant: user_id is no foreign key.
MutInsertPasskeyNoForeignKey(r) ==
    LET q == req[r] IN
    /\ q.op = "register" /\ q.at = "write"
    /\ passkeys[q.key].id = 0 /\ PasskeyFree(r, q.key)
    /\ Move(r, "return", q.holds)
    /\ UNCHANGED <<rows, clients, added, history>>

\* The INSERT of the passkey, under the unique index on credential_id.
InsertPasskey(r) ==
    LET q == req[r] IN
    /\ q.op = "register" /\ q.at = "write"
    /\ passkeys[q.key].id = 0 /\ PasskeyFree(r, q.key)
    /\ Refers(q.user)
    /\ Move(r, "return", q.holds)
    /\ UNCHANGED <<rows, clients, added, history>>

\* Some registration of the credential has committed before.
Registered(k) == \E s \in served : s.type = "create" /\ s.key = k

\* Mutant: a registration does not delete its challenge.
MutCommitRegisterKeeps(r) ==
    LET q == req[r] IN
    /\ q.op = "register" /\ q.at = "return"
    /\ added < MaxPasskeys
    /\ added' = added + 1
    /\ passkeys' = [passkeys EXCEPT ![q.key] = [id |-> added + 1, user |-> q.user,
                                                count |-> q.count]]
    /\ served' = served \cup {Completed(q)}
    /\ lowered' = IF Registered(q.key) THEN lowered \cup {q.key} ELSE lowered
    /\ End(r)
    /\ UNCHANGED <<accounts, challenges, clients, regranted, erased>>

CommitRegister(r) ==
    LET q == req[r] IN
    /\ q.op = "register" /\ q.at = "return"
    /\ added < MaxPasskeys
    /\ added' = added + 1
    /\ passkeys' = [passkeys EXCEPT ![q.key] = [id |-> added + 1, user |-> q.user,
                                                count |-> q.count]]
    /\ challenges' = [challenges EXCEPT ![q.ch] = NoChallenge]
    /\ served' = served \cup {Completed(q)}
    /\ lowered' = IF Registered(q.key) THEN lowered \cup {q.key} ELSE lowered
    /\ End(r)
    /\ UNCHANGED <<accounts, clients, regranted, erased>>

-----------------------------------------------------------------------------
\* The library's check of the counter: no counter at all, or one that has advanced.
Advances(old, new) == old > 0 \/ new > 0 => new > old

\* The passkey as read, its account, and the verification against its sign_count.
Verify(r) ==
    LET q == req[r]
        p == passkeys[q.key] IN
    /\ q.op = "login" /\ q.at = "verify"
    /\ p.id # 0 /\ p.user \in accounts
    /\ Advances(p.count, q.count)
    /\ req' = [req EXCEPT ![r].at = "write", ![r].id = p.id, ![r].user = p.user]
    /\ UNCHANGED <<rows, clients, added, history>>

\* Mutant: an UPDATE that matches no row is let pass.
MutWritePasskeyUnchecked(r) ==
    LET q == req[r] IN
    /\ q.op = "login" /\ q.at = "write"
    /\ PasskeyFree(r, q.key)
    /\ Move(r, "issue", q.holds)
    /\ UNCHANGED <<rows, clients, added, history>>

\* The UPDATE of sign_count and last_used_at, by primary key: with no row left it is an error.
WritePasskey(r) ==
    LET q == req[r] IN
    /\ q.op = "login" /\ q.at = "write"
    /\ passkeys[q.key].id = q.id /\ PasskeyFree(r, q.key)
    /\ Move(r, "issue", q.holds)
    /\ UNCHANGED <<rows, clients, added, history>>

\* complete_mfa_login inserts the session and the login_succeeded event.
IssueSession(r) ==
    /\ req[r].op = "login" /\ req[r].at = "issue"
    /\ Refers(req[r].user)
    /\ Move(r, "return", req[r].holds)
    /\ UNCHANGED <<rows, clients, added, history>>

CommitLogin(r) ==
    LET q == req[r] IN
    /\ q.op = "login" /\ q.at = "return"
    /\ passkeys' = [passkeys EXCEPT ![q.key].count = q.count]
    /\ challenges' = [challenges EXCEPT ![q.ch] = NoChallenge]
    /\ served' = served \cup {Completed(q)}
    /\ regranted' = regranted \cup (served \cap {Completed(q)})
    /\ lowered' = IF q.count < passkeys[q.key].count THEN lowered \cup {q.key} ELSE lowered
    /\ End(r)
    /\ UNCHANGED <<accounts, clients, added, erased>>

-----------------------------------------------------------------------------
\* delete_passkey: one of the caller's own.
RemovePasskey(r, u, k) ==
    /\ u \in accounts /\ passkeys[k].user = u
    /\ Start(r, [Idle EXCEPT !.op = "remove", !.at = "write", !.user = u, !.key = k,
                             !.id = passkeys[k].id])
    /\ UNCHANGED <<rows, clients, added, history>>

\* Its DELETE.  A row that is gone meanwhile is only warned about.
DeletePasskey(r) ==
    LET q == req[r] IN
    /\ q.op = "remove" /\ q.at = "write"
    /\ PasskeyFree(r, q.key)
    /\ Move(r, "return", passkeys[q.key].id = q.id)
    /\ UNCHANGED <<rows, clients, added, history>>

CommitRemove(r) ==
    LET q == req[r] IN
    /\ q.op = "remove" /\ q.at = "return"
    /\ passkeys' = IF q.holds THEN [passkeys EXCEPT ![q.key] = NoPasskey] ELSE passkeys
    /\ End(r)
    /\ UNCHANGED <<accounts, challenges, clients, added, history>>

-----------------------------------------------------------------------------
\* delete_account: the DELETE of the account's row waits for those who refer to it, ...
EraseAccount(r, u) ==
    /\ u \in accounts
    /\ Start(r, [Idle EXCEPT !.op = "erase", !.at = "write", !.user = u])
    /\ UNCHANGED <<rows, clients, added, history>>

LockAccount(r) ==
    LET u == req[r].user IN
    /\ req[r].op = "erase" /\ req[r].at = "write"
    /\ \A s \in Requests \ {r} : ~ Erasing(req[s], u) /\ ~ Referring(req[s], u)
    /\ Move(r, IF u \in accounts THEN "cascade" ELSE "return", u \in accounts)
    /\ UNCHANGED <<rows, clients, added, history>>

\* ... and its cascade for the locks on the account's passkeys and challenges.
Cascade(r) ==
    LET u == req[r].user IN
    /\ req[r].op = "erase" /\ req[r].at = "cascade"
    /\ \A k \in Credentials : passkeys[k].user = u => PasskeyFree(r, k)
    /\ \A c \in Challenges : challenges[c].user = u => ChallengeFree(r, c)
    /\ Move(r, "return", TRUE)
    /\ UNCHANGED <<rows, clients, added, history>>

CommitErase(r) ==
    LET u == req[r].user IN
    /\ req[r].op = "erase" /\ req[r].at = "return"
    /\ accounts' = accounts \ {u}
    /\ passkeys' = [k \in Credentials |-> IF passkeys[k].user = u THEN NoPasskey
                                                                 ELSE passkeys[k]]
    /\ challenges' = [c \in Challenges |-> IF challenges[c].user = u THEN NoChallenge
                                                                     ELSE challenges[c]]
    /\ erased' = erased \cup {c \in Challenges : challenges[c].user = u}
    /\ End(r)
    /\ UNCHANGED <<clients, added, served, regranted, lowered>>

-----------------------------------------------------------------------------
\* An exception before the commit: what an action above requires of the rows does not hold
\* (a response that does not verify, a passkey or an account that is gone, a duplicate
\* credential), a lost connection, a deadlock PostgreSQL breaks.  All is undone, the
\* deletion of the challenge too.
Fail(r) ==
    /\ req[r].at # "idle"
    /\ End(r)
    /\ UNCHANGED <<rows, clients, added, history>>

Step(r) ==
    \/ \E s \in signed : LoginComplete(r, s) \/ \E u \in accounts : RegisterComplete(r, u, s)
    \/ Consume(r) \/ InsertPasskey(r) \/ CommitRegister(r)
    \/ Verify(r) \/ WritePasskey(r) \/ IssueSession(r) \/ CommitLogin(r)
    \/ \E u \in accounts : EraseAccount(r, u) \/ \E k \in Credentials : RemovePasskey(r, u, k)
    \/ DeletePasskey(r) \/ CommitRemove(r)
    \/ LockAccount(r) \/ Cascade(r) \/ CommitErase(r)
    \/ Fail(r)

Client ==
    \/ \E u \in Accounts : RegisterBegin(u)
    \/ \E u \in Accounts \cup {None} : LoginBegin(u)
    \/ \E c \in Challenges : Expire(c)
    \/ \E k \in Credentials, c \in Challenges : Create(k, c) \/ Sign(k, c)

Next == Client \/ \E r \in Requests : Step(r)
Spec == Init /\ [][Next]_vars

-----------------------------------------------------------------------------
\* Every variable keeps its type; passkeys and challenges are of accounts that exist, though
\* an account may be erased while a registration for it is in flight.
TypeOK ==
    /\ accounts \subseteq Accounts
    /\ passkeys \in [Credentials -> Passkey]
    /\ \A k \in Credentials : passkeys[k].user \in accounts \cup {None}
    /\ issued \in 0 .. MaxChallenges
    /\ challenges \in [Challenges -> Challenge]
    /\ \A c \in Challenges : challenges[c].user \in accounts \cup {None}
    /\ added \in 0 .. MaxPasskeys
    /\ counter \in [Credentials -> Counts]
    /\ signed \subseteq Response
    /\ req \in [Requests -> Request]
    /\ served \subseteq Response
    /\ regranted \subseteq served
    /\ erased \subseteq Challenges
    /\ lowered \subseteq Credentials

\* A challenge that has served is never on record again, whatever completions of it fail,
\* are rolled back or find it gone: only a completion that had found it before the first one
\* committed can still be accepted ("deleted on use", ADR-0010).
SpentChallengeGone == \A s \in served : ~ OnRecord(s.ch)

\* A sign-in about to commit rests on the very passkey it verified, still on record and
\* still of an existing account: one that is removed, or erased with its account, signs
\* nobody in, though the sign-in read it before.
SignInOnRecord ==
    \A r \in Requests : req[r].op = "login" /\ req[r].at = "return" =>
        /\ passkeys[req[r].key].id = req[r].id
        /\ passkeys[req[r].key].user = req[r].user
        /\ req[r].user \in accounts

\* "a challenge that verified twice would let a captured response be replayed"
\* (models/passkey.py:56-57): no assertion signs in twice, since its challenge "cannot serve
\* twice" (api/passkeys.py:86) and its counter has to advance.
ResponseGrantsOnce == regranted = {}

\* All the ways in which that fails for an authenticator that counts.  The check of sign_count
\* stops a second sign-in with one assertion, even one that has found the challenge before
\* the first committed, as long as no commit has set sign_count back or registered the passkey
\* anew, and the challenge went with that assertion, not with another response or its
\* account: the lock on the challenge puts the second completion's read of sign_count
\* behind the first one's commit.
ReplayExplained ==
    \A s \in regranted : s.count > 0 =>
        \/ s.key \in lowered
        \/ s.ch \in erased
        \/ \E t \in served : t # s /\ t.ch = s.ch
=============================================================================
