---------------------------- MODULE MfaEnrolment ----------------------------
(* The second factor of one account (app/auth/mfa_service.py): its enrolment *)
(* row and its recovery codes, as concurrent requests set it up, confirm it, *)
(* sign in with it and disable it.  Transactions are those of AuthSessions:  *)
(* reads see committed rows, writes are flushed under row locks, a commit    *)
(* ends the request, an exception undoes it.                                 *)
(*                                                                           *)
(* Secrets are random: the n-th setup draws secret n.  A TOTP code is the    *)
(* pair of its secret and its time step; codes of different steps differ.    *)
(* A recovery code is the pair of its setup and its place in the set.        *)
EXTENDS Integers, FiniteSets

CONSTANTS
    Requests,            \* slots for requests in flight at the same time
    VALID_WINDOW,        \* steps either side of now whose codes are accepted
    RECOVERY_CODE_COUNT, \* recovery codes per setup
    MaxSecrets,          \* bound: setups
    MaxStep              \* bound: the last time step (counter_for of the clock)

ASSUME NatAssumption ==
    /\ {VALID_WINDOW, RECOVERY_CODE_COUNT, MaxSecrets} \subseteq Nat
    /\ MaxStep \in Nat \ {0}

VARIABLES
    now,        \* the current time step
    mfa,        \* the user_mfa row
    codes,      \* the recovery_code rows
    spent,      \* those of them whose used_at is set
    drawn,      \* secrets drawn so far
    req,        \* the requests in flight
    shown,      \* secrets that a setup has answered with, and their recovery codes
    proven      \* secrets for which a committed confirm saw a code

vars == <<now, mfa, codes, spent, drawn, req, shown, proven>>
rows == <<mfa, codes, spent>>
seen == <<shown, proven>>

-----------------------------------------------------------------------------
Secrets == 1 .. MaxSecrets
TimeSteps == 1 .. MaxStep
Codes(S) == S \X (1 .. RECOVERY_CODE_COUNT)
Recovery == Codes(Secrets)

\* The row's primary key is the setup that inserted it, 0 when there is no row;
\* `last` is last_used_counter, 0 for NULL.
MfaRow == [id : 0 .. MaxSecrets, secret : 0 .. MaxSecrets, confirmed : BOOLEAN,
           last : 0 .. MaxStep]
NoRow  == [id |-> 0, secret |-> 0, confirmed |-> FALSE, last |-> 0]

\* What a request has read: the row's key, the secret it has drawn or verified, the code it
\* accepts, the codes it will delete; and its row locks, `row` for user_mfa's.
Request == [op : {"none", "setup", "confirm", "verify", "disable"},
            at : {"idle", "lookup", "flush", "reload", "erase", "select", "purge", "return"},
            id : 0 .. MaxSecrets, secret : 0 .. MaxSecrets, code : Nat \X Nat,
            how : {"none", "totp", "recovery"}, stale : SUBSET Recovery,
            row : BOOLEAN, locked : SUBSET Recovery]
Idle == [op |-> "none", at |-> "idle", id |-> 0, secret |-> 0, code |-> <<0, 0>>,
         how |-> "none", stale |-> {}, row |-> FALSE, locked |-> {}]

Init ==
    /\ now = 1
    /\ mfa = NoRow
    /\ codes = {}
    /\ spent = {}
    /\ drawn = 0
    /\ req = [r \in Requests |-> Idle]
    /\ shown = {}
    /\ proven = {}

-----------------------------------------------------------------------------
\* UserMfa.is_active
IsActive == mfa.id # 0 /\ mfa.confirmed

\* matching_counter: the code is of this secret and of a step within the window.
Matches(secret, code) ==
    code[1] = secret /\ code[2] \in (now - VALID_WINDOW) .. (now + VALID_WINDOW)

\* PostgreSQL's locks on the user_mfa row and on recovery_code rows.
MutRowNotLocked(r) == TRUE  \* Mutant: no row lock on user_mfa.
RowFree(r)      == \A q \in Requests \ {r} : ~ req[q].row
CodesFree(r, C) == \A q \in Requests \ {r} : req[q].locked \cap C = {}

Start(r, request) == req[r].at = "idle" /\ req' = [req EXCEPT ![r] = request]
End(r)            == req' = [req EXCEPT ![r] = Idle]

-----------------------------------------------------------------------------
\* start_enrolment: the row as read is absent or unconfirmed; a secret and its codes are
\* drawn.  An active one is answered 409 with nothing written.
Setup(r) ==
    /\ ~ IsActive
    /\ drawn < MaxSecrets
    /\ drawn' = drawn + 1
    /\ Start(r, [Idle EXCEPT !.op = "setup", !.at = "flush", !.id = mfa.id,
                             !.secret = drawn + 1])
    /\ UNCHANGED <<now, rows, seen>>

\* An INSERT meets the unique index on user_id: it waits for another transaction's
\* uncommitted INSERT or DELETE.
InsertWaits(r) ==
    \E q \in Requests \ {r} : /\ req[q].row
                              /\ \/ req[q].op = "setup" /\ req[q].id = 0
                                 \/ req[q].op = "disable" /\ req[q].at \in {"select", "purge", "return"}

\* Mutant: no autoflush, the old codes are read before the row is held.
MutSetupNoAutoflush(r) ==
    /\ req[r].op = "setup" /\ req[r].at = "flush"
    /\ req' = [req EXCEPT ![r].at = "select"]
    /\ UNCHANGED <<now, rows, drawn, seen>>

\* The INSERT or the UPDATE of user_mfa, which the SELECT of the old recovery codes
\* autoflushes: from here on the request holds the row.
SetupFlush(r) ==
    /\ req[r].op = "setup" /\ req[r].at = "flush"
    /\ \/ req[r].id = 0 /\ mfa.id = 0 /\ ~ InsertWaits(r)
       \/ req[r].id # 0 /\ mfa.id = req[r].id /\ RowFree(r)
    /\ req' = [req EXCEPT ![r].at = "select", ![r].row = TRUE]
    /\ UNCHANGED <<now, rows, drawn, seen>>

\* The recovery codes to delete, of a restarted setup and of disable_mfa.
SelectCodes(r) ==
    /\ req[r].at = "select"
    /\ req' = [req EXCEPT ![r].at = "purge", ![r].stale = codes]
    /\ UNCHANGED <<now, rows, drawn, seen>>

\* Their DELETE, and after it the INSERT of the new ones.  A row that is gone by then is
\* only warned about.  The handler is done: its answer shows the secret and the codes.
PurgeCodes(r) ==
    /\ req[r].at = "purge"
    /\ CodesFree(r, req[r].stale)
    /\ req' = [req EXCEPT ![r].at = "return", ![r].locked = @ \cup req[r].stale]
    /\ shown' = IF req[r].op = "setup" THEN shown \cup {req[r].secret} ELSE shown
    /\ UNCHANGED <<now, rows, drawn, proven>>

\* Mutant: the whole row is written back, confirmed_at included.
MutCommitSetupWholeRow(r) ==
    LET q == req[r] IN
    /\ q.op = "setup" /\ q.at = "return"
    /\ mfa' = [id |-> IF q.id = 0 THEN q.secret ELSE q.id, secret |-> q.secret,
               confirmed |-> FALSE, last |-> 0]
    /\ codes' = (codes \ q.stale) \cup Codes({q.secret})
    /\ spent' = spent \ q.stale
    /\ End(r)
    /\ UNCHANGED <<now, drawn, seen>>

\* Of an existing row only the secret is written: last_used_counter was NULL when read, and
\* confirmed_at is not touched.
CommitSetup(r) ==
    LET q == req[r] IN
    /\ q.op = "setup" /\ q.at = "return"
    /\ mfa' = IF q.id = 0 THEN [NoRow EXCEPT !.id = q.secret, !.secret = q.secret]
                          ELSE [mfa EXCEPT !.secret = q.secret]
    /\ codes' = (codes \ q.stale) \cup Codes({q.secret})
    /\ spent' = spent \ q.stale
    /\ End(r)
    /\ UNCHANGED <<now, drawn, seen>>

-----------------------------------------------------------------------------
\* confirm_enrolment: a code of the unconfirmed row's secret.
Confirm(r, code) ==
    /\ mfa.id # 0 /\ ~ mfa.confirmed
    /\ Matches(mfa.secret, code)
    /\ Start(r, [Idle EXCEPT !.op = "confirm", !.at = "flush", !.id = mfa.id,
                             !.secret = mfa.secret, !.code = code, !.how = "totp"])
    /\ UNCHANGED <<now, rows, drawn, seen>>

CommitConfirm(r) ==
    LET q == req[r] IN
    /\ q.op = "confirm" /\ q.at = "return"
    /\ mfa' = [mfa EXCEPT !.confirmed = TRUE, !.last = q.code[2]]
    /\ proven' = proven \cup {q.secret}
    /\ End(r)
    /\ UNCHANGED <<now, codes, spent, drawn, shown>>

-----------------------------------------------------------------------------
\* verify_code_for_login, for POST /mfa/verify and POST /mfa/disable: a TOTP code of a
\* step after the last accepted one ...
VerifyTotp(r, op, code) ==
    /\ IsActive
    /\ Matches(mfa.secret, code) /\ code[2] > mfa.last
    /\ Start(r, [Idle EXCEPT !.op = op, !.at = "flush", !.id = mfa.id,
                             !.secret = mfa.secret, !.code = code, !.how = "totp"])
    /\ UNCHANGED <<now, rows, drawn, seen>>

\* ... or, when it is no TOTP code, a recovery code, looked up next.
VerifyRecovery(r, op, code) ==
    /\ IsActive
    /\ Start(r, [Idle EXCEPT !.op = op, !.at = "lookup", !.id = mfa.id,
                             !.secret = mfa.secret, !.code = code, !.how = "recovery"])
    /\ UNCHANGED <<now, rows, drawn, seen>>

\* _consume_recovery_code: on record and not used.
FindRecovery(r) ==
    /\ req[r].at = "lookup"
    /\ req[r].code \in codes \ spent
    /\ req' = [req EXCEPT ![r].at = "flush"]
    /\ UNCHANGED <<now, rows, drawn, seen>>

\* Mutant: an UPDATE that matches no row is let pass.
MutAcceptFlushUnchecked(r) ==
    LET q == req[r] IN
    /\ q.op \in {"confirm", "verify", "disable"} /\ q.at = "flush"
    /\ RowFree(r) /\ CodesFree(r, {q.code})
    /\ req' = [req EXCEPT ![r].at = IF q.op = "disable" THEN "reload" ELSE "return",
                          ![r].row = q.how = "totp",
                          ![r].locked = IF q.how = "totp" THEN {} ELSE {q.code}]
    /\ UNCHANGED <<now, rows, drawn, seen>>

\* The UPDATE of last_used_counter (and confirmed_at), or of the code's used_at, under the
\* row lock.  A sign-in then inserts its session; disable goes on.
AcceptFlush(r) ==
    LET q == req[r] IN
    /\ q.op \in {"confirm", "verify", "disable"} /\ q.at = "flush"
    /\ \/ /\ q.how = "totp" /\ mfa.id = q.id /\ RowFree(r)
          /\ req' = [req EXCEPT ![r].at = IF q.op = "disable" THEN "reload" ELSE "return",
                                ![r].row = TRUE]
       \/ /\ q.how = "recovery" /\ q.code \in codes /\ CodesFree(r, {q.code})
          /\ req' = [req EXCEPT ![r].at = IF q.op = "disable" THEN "reload" ELSE "return",
                                ![r].locked = {q.code}]
    /\ UNCHANGED <<now, rows, drawn, seen>>

\* What accepting its code has written, seen by others once the request commits.
Accepted(q, row)  == IF q.how = "totp" /\ row.id = q.id THEN [row EXCEPT !.last = q.code[2]]
                                                        ELSE row
Consumed(q, used) == IF q.how = "recovery" THEN used \cup {q.code} ELSE used

CommitVerify(r) ==
    LET q == req[r] IN
    /\ q.op = "verify" /\ q.at = "return"
    /\ mfa' = Accepted(q, mfa)
    /\ spent' = Consumed(q, spent)
    /\ End(r)
    /\ UNCHANGED <<now, codes, drawn, shown, proven>>

-----------------------------------------------------------------------------
\* disable_mfa reads the row again; the one it knows is still active to it.
DisableReload(r) ==
    /\ req[r].op = "disable" /\ req[r].at = "reload"
    /\ mfa.id = req[r].id \/ IsActive
    /\ req' = [req EXCEPT ![r].at = "erase", ![r].id = mfa.id]
    /\ UNCHANGED <<now, rows, drawn, seen>>

\* The DELETE of the row, autoflushed by the SELECT of the codes.  Deleting a row that is
\* gone is only warned about.
DisableErase(r) ==
    /\ req[r].op = "disable" /\ req[r].at = "erase"
    /\ RowFree(r)
    /\ req' = [req EXCEPT ![r].at = "select", ![r].row = (mfa.id = req[r].id)]
    /\ UNCHANGED <<now, rows, drawn, seen>>

CommitDisable(r) ==
    LET q == req[r] IN
    /\ q.op = "disable" /\ q.at = "return"
    /\ mfa' = IF mfa.id = q.id THEN NoRow ELSE mfa
    /\ codes' = codes \ q.stale
    /\ spent' = Consumed(q, spent) \ q.stale
    /\ End(r)
    /\ UNCHANGED <<now, drawn, shown, proven>>

-----------------------------------------------------------------------------
\* A statement the request cannot get past: a unique index, a row to update that is gone,
\* a recovery code unknown or used, an enrolment disabled meanwhile.
Refused(r) ==
    LET q == req[r] IN
    /\ \/ q.op = "setup" /\ q.at = "flush" /\ q.id = 0 /\ mfa.id # 0 /\ ~ InsertWaits(r)
       \/ q.op = "setup" /\ q.at = "flush" /\ q.id # 0 /\ mfa.id # q.id
       \/ q.op # "setup" /\ q.at = "flush" /\ q.how = "totp" /\ mfa.id # q.id
       \/ q.at = "flush" /\ q.how = "recovery" /\ q.code \notin codes
       \/ q.at = "lookup" /\ q.code \notin codes \ spent
       \/ q.at = "reload" /\ mfa.id # q.id /\ ~ IsActive
    /\ End(r)
    /\ UNCHANGED <<now, rows, drawn, seen>>

\* A crash, a lost connection, a deadlock PostgreSQL breaks, anywhere before the commit.
Fail(r) ==
    /\ req[r].at # "idle"
    /\ End(r)
    /\ UNCHANGED <<now, rows, drawn, seen>>

Tick ==
    /\ now < MaxStep
    /\ now' = now + 1
    /\ UNCHANGED <<rows, drawn, req, seen>>

Step(r) ==
    \/ Setup(r) \/ SetupFlush(r) \/ SelectCodes(r) \/ PurgeCodes(r) \/ CommitSetup(r)
    \/ \E code \in shown \X TimeSteps : \/ Confirm(r, code)
                                        \/ \E op \in {"verify", "disable"} : VerifyTotp(r, op, code)
    \/ \E code \in Codes(shown), op \in {"verify", "disable"} : VerifyRecovery(r, op, code)
    \/ FindRecovery(r) \/ AcceptFlush(r) \/ CommitConfirm(r) \/ CommitVerify(r)
    \/ DisableReload(r) \/ DisableErase(r) \/ CommitDisable(r)
    \/ Refused(r) \/ Fail(r)

Next == Tick \/ \E r \in Requests : Step(r)
Spec == Init /\ [][Next]_vars

-----------------------------------------------------------------------------
\* A request that accepts a code holds one of that kind.
Presents(r) == /\ req[r].how = "totp" => req[r].code \in Secrets \X TimeSteps
               /\ req[r].how = "recovery" => req[r].code \in Recovery
               /\ req[r].op \in {"confirm", "verify", "disable"} => req[r].how # "none"
               /\ req[r].op = "confirm" => req[r].how = "totp"

\* Every variable keeps its type: only recovery codes on record are marked used.
TypeOK ==
    /\ now \in 1 .. MaxStep
    /\ mfa \in MfaRow
    /\ codes \subseteq Recovery /\ spent \subseteq codes
    /\ drawn \in 0 .. MaxSecrets
    /\ req \in [Requests -> Request]
    /\ \A r \in Requests : Presents(r)
    /\ shown \subseteq Secrets /\ proven \subseteq 0 .. MaxSecrets

\* The recovery codes on record are exactly those drawn with the secret on record, whatever
\* setups, restarts and disables interleave; without an enrolment there are none ("Disabling
\* MFA destroys them, so an old code cannot bypass a later re-enrolment", ADR-0008).
CodesBelongToSecret ==
    codes = IF mfa.id = 0 THEN {} ELSE Codes({mfa.secret})

\* Only disabling turns the second factor off: a setup that read the enrolment before it was
\* confirmed does not.
ActiveUntilDisabled ==
    [][IsActive => \/ mfa'.id = mfa.id /\ mfa'.confirmed
                   \/ \E r \in Requests : req[r].op = "disable" /\ req'[r].at = "idle"]_vars

\* A sign-in is granted against what is on record when it commits: the enrolment row its
\* TOTP code was checked with, still active, or the very recovery code; a disable that
\* committed since the check is never overlooked.
GrantedOnRecord ==
    \A r \in Requests : req[r].op = "verify" /\ req[r].at = "return" =>
        /\ IsActive
        /\ req[r].how = "totp" => mfa.id = req[r].id
        /\ req[r].how = "recovery" => req[r].code \in codes

\* ADR-0008: "MFA activates only once the user produces a working code", of that secret.
ActiveSecretProven == IsActive => mfa.secret \in proven

\* ADR-0008: "The TOTP step of each accepted code is recorded, and a code from that step or
\* earlier is refused", "Ten single-use codes": what a request is about to be granted on has
\* not been used by one that committed before.
CodeGrantedOnce ==
    \A r \in Requests : req[r].op \in {"verify", "disable"} /\ req[r].at = "return" =>
        /\ req[r].how = "totp" => req[r].code[2] > mfa.last
        /\ req[r].how = "recovery" => req[r].code \notin spent
=============================================================================
