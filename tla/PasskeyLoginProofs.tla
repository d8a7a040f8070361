------------------------- MODULE PasskeyLoginProofs -------------------------
(* Proofs about PasskeyLogin, for any number of requests, accounts,          *)
(* authenticators, challenges and passkeys.                                  *)
EXTENDS PasskeyLogin, TLAPS

-----------------------------------------------------------------------------
\* What a request carries at each step.
Placed(q) ==
    /\ q.at = "consume" => q.op \in {"register", "login"}
    /\ q.op \in {"register", "login"} =>
           /\ q.key \in Credentials
           /\ q.ch \in Challenges /\ q.ch <= issued
    /\ q.at = "cascade" => q.holds
    /\ q.op \in {"register", "erase"} => q.user \in Accounts
    /\ q.op = "login" /\ q.at \in {"write", "issue", "return"} =>
           q.id # 0 /\ q.id <= added /\ q.user \in Accounts

\* What a request may rely on: once it has locked a passkey's place, the row (or that there
\* is none); before, that the row's primary key still names the row it has read.
Locking(q) ==
    /\ q.op = "register" /\ q.at = "return" => passkeys[q.key].id = 0 /\ q.user \in accounts
    /\ q.op = "login" /\ q.at = "write" =>
           (passkeys[q.key].id = q.id => passkeys[q.key].user = q.user)
    /\ q.op = "login" /\ q.at \in {"issue", "return"} =>
           passkeys[q.key].id = q.id /\ passkeys[q.key].user = q.user
    /\ q.op = "erase" /\ q.at = "return" /\ ~ q.holds => q.user \notin accounts

\* Two requests hold no passkey together, and nobody refers to an account being deleted.
Apart(q, t) ==
    /\ \A k \in Credentials : ~ (HoldsPasskey(q, k) /\ HoldsPasskey(t, k))
    /\ \A u \in Accounts : ~ (Erasing(q, u) /\ Erasing(t, u))
    /\ \A u \in Accounts : ~ (Erasing(q, u) /\ Referring(t, u))
    /\ \A u \in Accounts : ~ (Erasing(t, u) /\ Referring(q, u))

\* What the rows on record and the responses say of one another.
PasskeyRows ==
    \A k \in Credentials :
        /\ passkeys[k].id <= added
        /\ passkeys[k].id = 0 => passkeys[k].user = None
        /\ passkeys[k].id # 0 => passkeys[k].user \in accounts
ChallengeRows ==
    /\ \A c \in Challenges : /\ OnRecord(c) => c <= issued
                             /\ challenges[c].user \in accounts \cup {None}
    /\ \A s \in signed : s.ch <= issued
    /\ \A s \in served : s.ch <= issued /\ ~ OnRecord(s.ch)

Types ==
    /\ accounts \subseteq Accounts
    /\ passkeys \in [Credentials -> Passkey]
    /\ issued \in 0 .. MaxChallenges
    /\ challenges \in [Challenges -> Challenge]
    /\ added \in 0 .. MaxPasskeys
    /\ counter \in [Credentials -> Counts]
    /\ signed \subseteq Response
    /\ served \subseteq Response
    /\ regranted \subseteq served
    /\ erased \subseteq Challenges
    /\ lowered \subseteq Credentials

Tables == Types /\ PasskeyRows /\ ChallengeRows

\* The inductive invariant.
IInv ==
    /\ Tables
    /\ req \in [Requests -> Request]
    /\ \A r \in Requests : Placed(req[r]) /\ Locking(req[r])
    /\ \A r, s \in Requests : r # s => Apart(req[r], req[s])

-----------------------------------------------------------------------------
\* The invariant says what the runs check.
LEMMA InvariantImplies == IInv => TypeOK /\ SpentChallengeGone /\ SignInOnRecord
<1> SUFFICES ASSUME IInv PROVE TypeOK /\ SpentChallengeGone /\ SignInOnRecord
    OBVIOUS
<1>1. TypeOK
    <2>1. \A k \in Credentials : passkeys[k].user \in accounts \cup {None}
        BY DEF IInv, Tables, PasskeyRows, Types
    <2> QED
        BY <2>1 DEF TypeOK, IInv, Tables, Types, ChallengeRows
<1>2. SpentChallengeGone
    BY DEF SpentChallengeGone, IInv, Tables, ChallengeRows
<1>3. SignInOnRecord
    <2> SUFFICES ASSUME NEW r \in Requests, req[r].op = "login", req[r].at = "return"
                 PROVE  /\ passkeys[req[r].key].id = req[r].id
                        /\ passkeys[req[r].key].user = req[r].user
                        /\ req[r].user \in accounts
        BY DEF SignInOnRecord
    <2>1. Placed(req[r]) /\ Locking(req[r]) /\ PasskeyRows
        BY DEF IInv, Tables
    <2> QED
        BY <2>1 DEF Placed, Locking, PasskeyRows
<1> QED
    BY <1>1, <1>2, <1>3

LEMMA InitInvariant == Init => IInv
<1> SUFFICES ASSUME Init PROVE IInv
    OBVIOUS
<1> USE ConstAssumption
<1>1. Idle \in Request
    BY DEF Idle, Request, Counts
<1>2. NoPasskey \in Passkey /\ NoChallenge \in Challenge
    BY DEF NoPasskey, Passkey, Counts, NoChallenge, Challenge
<1>3. Types
    BY <1>2 DEF Init, Types, Counts
<1>4. PasskeyRows
    BY DEF Init, PasskeyRows, NoPasskey
<1>5. ChallengeRows
    BY DEF Init, ChallengeRows, NoChallenge, OnRecord
<1>6. \A r \in Requests : req[r] = Idle
    BY DEF Init
<1>7. \A r \in Requests : Placed(req[r]) /\ Locking(req[r])
    BY <1>6 DEF Placed, Locking, Idle
<1>8. \A r, s \in Requests : Apart(req[r], req[s])
    BY <1>6 DEF Apart, Idle, HoldsPasskey, Erasing, Referring, Cascaded
<1>9. req \in [Requests -> Request]
    BY <1>1 DEF Init
<1> QED
    BY <1>3, <1>4, <1>5, <1>7, <1>8, <1>9 DEF IInv, Tables

-----------------------------------------------------------------------------
\* A step of one request that leaves the tables alone.
LEMMA Local ==
    ASSUME IInv, NEW r \in Requests, NEW q \in Request,
           req' = [req EXCEPT ![r] = q],
           UNCHANGED <<rows, clients, added, history>>,
           Placed(q), Locking(q),
           \A s \in Requests \ {r} : Apart(q, req[s])
    PROVE  IInv'
<1>1. Tables'
    BY DEF IInv, Tables, Types, PasskeyRows, ChallengeRows, OnRecord, rows, clients, history
<1>2. /\ \A s \in Requests : req'[s] = IF s = r THEN q ELSE req[s]
      /\ req' \in [Requests -> Request]
    BY DEF IInv
<1>3. ASSUME NEW s \in Requests
      PROVE  (Placed(req[s]) /\ Locking(req[s]))'
    <2>1. Placed(req'[s]) /\ Locking(req'[s])
        BY <1>2 DEF IInv
    <2> QED
        BY <2>1 DEF Placed, Locking, rows, clients
<1>4. ASSUME NEW s \in Requests, NEW t \in Requests, s # t
      PROVE  Apart(req[s], req[t])'
    <2>1. Apart(req'[s], req'[t])
        <3>1. CASE s = r
            BY <1>2, <1>4, <3>1
        <3>2. CASE t = r
            <4>1. Apart(q, req[s])
                BY <1>4, <3>2
            <4> QED
                BY <1>2, <1>4, <3>2, <4>1 DEF Apart
        <3>3. CASE s # r /\ t # r
            BY <1>2, <1>4, <3>3 DEF IInv
        <3> QED
            BY <3>1, <3>2, <3>3
    <2> QED
        BY <2>1 DEF Apart, HoldsPasskey, Cascaded, Erasing, Referring, rows
<1> QED
    BY <1>1, <1>2, <1>3, <1>4 DEF IInv

\* A request slot at rest holds nothing.
LEMMA IdleIsFree == /\ Idle \in Request
                    /\ Placed(Idle) /\ Locking(Idle)
                    /\ \A t : Apart(Idle, t)
<1>1. Idle \in Request
    BY ConstAssumption DEF Idle, Request, Counts
<1>2. Placed(Idle) /\ Locking(Idle)
    BY DEF Idle, Placed, Locking
<1>3. \A t : Apart(Idle, t)
    BY DEF Idle, Apart, HoldsPasskey, Cascaded, Erasing, Referring
<1> QED
    BY <1>1, <1>2, <1>3

\* A request that begins: it is placed, and holds nothing yet.
LEMMA Begins ==
    ASSUME IInv, NEW r \in Requests, NEW q \in Request, Start(r, q),
           UNCHANGED <<rows, clients, added, history>>,
           Placed(q), q.at \in {"consume", "write"}, q.holds = FALSE,
           q.op = "login" => q.at = "consume"
    PROVE  IInv'
<1>1. Locking(q)
    BY DEF Locking
<1>2. \A s \in Requests \ {r} : Apart(q, req[s])
    BY DEF Apart, HoldsPasskey, Cascaded, Erasing, Referring
<1> QED
    BY <1>1, <1>2, Local DEF Start

\* A request that ends without a commit.
LEMMA Undone ==
    ASSUME IInv, NEW r \in Requests, End(r), UNCHANGED <<rows, clients, added, history>>
    PROVE  IInv'
BY Local, IdleIsFree DEF End

-----------------------------------------------------------------------------
\* The steps of a request between its beginning and its commit.
LEMMA StartSteps ==
    ASSUME IInv, NEW r \in Requests,
           \/ \E s \in signed : LoginComplete(r, s) \/ \E u \in accounts : RegisterComplete(r, u, s)
           \/ \E u \in accounts : EraseAccount(r, u) \/ \E k \in Credentials : RemovePasskey(r, u, k)
    PROVE  IInv'
<1> USE ConstAssumption
<1>1. ASSUME NEW s \in signed, LoginComplete(r, s) PROVE IInv'
    <2> DEFINE q == [Idle EXCEPT !.op = "login", !.at = "consume", !.key = s.key, !.ch = s.ch,
                                 !.count = s.count]
    <2>1. /\ s.key \in Credentials /\ s.ch \in Challenges /\ s.count \in Counts
          /\ s.ch <= issued
        BY DEF IInv, Tables, Types, ChallengeRows, Response
    <2>4. /\ q.op = "login" /\ q.at = "consume" /\ q.user = None /\ q.key = s.key /\ q.ch = s.ch
          /\ q.count = s.count /\ q.id = 0 /\ q.holds = FALSE
        BY DEF Idle
    <2>5. s.ch \in 0 .. MaxChallenges
        BY <2>1 DEF Challenges
    <2>6. q \in Request
        BY <2>1, <2>5, IdleIsFree DEF Request
    <2>2. Placed(q)
        BY <2>1, <2>4 DEF Placed, Response
    <2>3. Start(r, q)
        BY <1>1 DEF LoginComplete
    <2> HIDE DEF q
    <2> QED
        BY <1>1, <2>2, <2>3, <2>4, <2>6, Begins DEF LoginComplete
<1>2. ASSUME NEW s \in signed, NEW u \in accounts, RegisterComplete(r, u, s) PROVE IInv'
    <2> DEFINE q == [Idle EXCEPT !.op = "register", !.at = "consume", !.user = u, !.key = s.key,
                                 !.ch = s.ch, !.count = s.count]
    <2>1. /\ s.key \in Credentials /\ s.ch \in Challenges /\ s.count \in Counts
          /\ s.ch <= issued /\ u \in Accounts
        BY DEF IInv, Tables, Types, ChallengeRows, Response
    <2>4. /\ q.op = "register" /\ q.at = "consume" /\ q.user = u /\ q.key = s.key /\ q.ch = s.ch
          /\ q.count = s.count /\ q.id = 0 /\ q.holds = FALSE
        BY DEF Idle
    <2>5. s.ch \in 0 .. MaxChallenges
        BY <2>1 DEF Challenges
    <2>6. q \in Request
        BY <2>1, <2>5, IdleIsFree DEF Request
    <2>2. Placed(q)
        BY <2>1, <2>4 DEF Placed, Response
    <2>3. Start(r, q)
        BY <1>2 DEF RegisterComplete
    <2> HIDE DEF q
    <2> QED
        BY <1>2, <2>2, <2>3, <2>4, <2>6, Begins DEF RegisterComplete
<1>3. ASSUME NEW u \in accounts, EraseAccount(r, u) PROVE IInv'
    <2> DEFINE q == [Idle EXCEPT !.op = "erase", !.at = "write", !.user = u]
    <2>1. u \in Accounts
        BY DEF IInv, Tables, Types
    <2>4. /\ q.op = "erase" /\ q.at = "write" /\ q.user = u /\ q.key = None /\ q.ch = 0
          /\ q.count = 0 /\ q.id = 0 /\ q.holds = FALSE
        BY DEF Idle
    <2>6. q \in Request
        BY <2>1, IdleIsFree DEF Request
    <2>2. Placed(q)
        BY <2>1, <2>4 DEF Placed, Response
    <2>3. Start(r, q)
        BY <1>3 DEF EraseAccount
    <2> HIDE DEF q
    <2> QED
        BY <1>3, <2>2, <2>3, <2>4, <2>6, Begins DEF EraseAccount
<1>4. ASSUME NEW u \in accounts, NEW k \in Credentials, RemovePasskey(r, u, k) PROVE IInv'
    <2> DEFINE q == [Idle EXCEPT !.op = "remove", !.at = "write", !.user = u, !.key = k,
                                 !.id = passkeys[k].id]
    <2>1. u \in Accounts /\ passkeys[k] \in Passkey
        BY DEF IInv, Tables, Types
    <2>4. /\ q.op = "remove" /\ q.at = "write" /\ q.user = u /\ q.key = k /\ q.ch = 0
          /\ q.count = 0 /\ q.id = passkeys[k].id /\ q.holds = FALSE
        BY DEF Idle
    <2>6. q \in Request
        BY <2>1, IdleIsFree DEF Request, Passkey
    <2>2. Placed(q)
        BY <2>1, <2>4 DEF Placed, Response
    <2>3. Start(r, q)
        BY <1>4 DEF RemovePasskey
    <2> HIDE DEF q
    <2> QED
        BY <1>4, <2>2, <2>3, <2>4, <2>6, Begins DEF RemovePasskey
<1> QED
    BY <1>1, <1>2, <1>3, <1>4
\* A request that goes on to its next step, and may lock a row with it.
LEMMA Moves ==
    ASSUME IInv, NEW r \in Requests, NEW next, NEW held \in BOOLEAN, Move(r, next, held),
           next \in {"verify", "write", "issue", "cascade", "return"},
           UNCHANGED <<rows, clients, added, history>>,
           \A q \in Request :
               /\ q.op = req[r].op /\ q.at = next /\ q.user = req[r].user
               /\ q.key = req[r].key /\ q.ch = req[r].ch /\ q.id = req[r].id /\ q.holds = held
               => Placed(q) /\ Locking(q) /\ \A s \in Requests \ {r} : Apart(q, req[s])
    PROVE  IInv'
<1> DEFINE q == [req[r] EXCEPT !.at = next, !.holds = held]
<1>1. req[r] \in Request
    BY DEF IInv
<1>2. q \in Request
    BY <1>1 DEF Request
<1>3. /\ q.op = req[r].op /\ q.at = next /\ q.user = req[r].user
      /\ q.key = req[r].key /\ q.ch = req[r].ch /\ q.id = req[r].id /\ q.holds = held
    BY <1>1 DEF Request
<1>4. req' = [req EXCEPT ![r] = q]
    BY DEF IInv, Move
<1> HIDE DEF q
<1>5. Placed(q) /\ Locking(q) /\ \A s \in Requests \ {r} : Apart(q, req[s])
    BY <1>2, <1>3
<1> QED
    BY <1>2, <1>4, <1>5, Local

LEMMA ConsumeStep ==
    ASSUME IInv, NEW r \in Requests, Consume(r)
    PROVE  IInv'
<1> DEFINE next == IF req[r].op = "login" THEN "verify" ELSE "write"
           held == OnRecord(req[r].ch)
<1>1. next \in {"verify", "write"} /\ (req[r].op = "login" => next = "verify")
    OBVIOUS
<1>2. held \in BOOLEAN
    BY DEF OnRecord
<1>3. Move(r, next, held) /\ UNCHANGED <<rows, clients, added, history>>
    BY DEF Consume
<1>4. req[r].at = "consume" /\ Placed(req[r])
    BY DEF Consume, IInv
<1> HIDE DEF next, held
<1>5. ASSUME NEW q \in Request, q.op = req[r].op, q.at = next, q.user = req[r].user,
             q.key = req[r].key, q.ch = req[r].ch, q.id = req[r].id, q.holds = held
      PROVE  Placed(q) /\ Locking(q) /\ \A s \in Requests \ {r} : Apart(q, req[s])
    <2>1. q.op \in {"register", "login"} /\ q.at \in {"verify", "write"}
        BY <1>1, <1>4, <1>5 DEF Placed
    <2>2. Placed(q)
        BY <1>1, <1>4, <1>5, <2>1 DEF Placed
    <2>3. Locking(q)
        BY <1>1, <1>5, <2>1 DEF Locking
    <2>4. \A s : Apart(q, req[s])
        BY <2>1 DEF Apart, HoldsPasskey, Cascaded, Erasing, Referring
    <2> QED
        BY <2>2, <2>3, <2>4
<1> QED
    BY <1>1, <1>2, <1>3, <1>5, Moves
LEMMA VerifyStep ==
    ASSUME IInv, NEW r \in Requests, Verify(r)
    PROVE  IInv'
<1> DEFINE p == passkeys[req[r].key]
           q == [req[r] EXCEPT !.at = "write", !.id = p.id, !.user = p.user]
<1>1. req[r] \in Request /\ Placed(req[r]) /\ req[r].op = "login"
    BY DEF IInv, Verify
<1>2. p \in Passkey /\ p.id # 0 /\ p.id <= added /\ p.user \in Accounts
    BY <1>1 DEF IInv, Tables, Types, PasskeyRows, Placed, Verify
<1>3. q \in Request
    BY <1>1, <1>2 DEF Request, Passkey
<1>4. /\ q.op = "login" /\ q.at = "write" /\ q.user = p.user /\ q.key = req[r].key
      /\ q.ch = req[r].ch /\ q.id = p.id
    BY <1>1 DEF Request
<1>5. req' = [req EXCEPT ![r] = q] /\ UNCHANGED <<rows, clients, added, history>>
    BY DEF IInv, Verify
<1> HIDE DEF q
<1>6. Placed(q)
    BY <1>1, <1>2, <1>4 DEF Placed
<1>7. Locking(q)
    BY <1>4 DEF Locking
<1>8. \A s : Apart(q, req[s])
    BY <1>4 DEF Apart, HoldsPasskey, Cascaded, Erasing, Referring
<1> QED
    BY <1>3, <1>5, <1>6, <1>7, <1>8, Local

\* A request that locks a passkey's row or place: nobody else holds it.
LEMMA PasskeyLocked ==
    ASSUME NEW r \in Requests, NEW q, NEW s \in Requests \ {r},
           PasskeyFree(r, q.key), q.op \in {"register", "login", "remove"},
           q.op \in {"register", "login"} /\ q.at = "return" => ~ Erasing(req[s], q.user)
    PROVE  Apart(q, req[s])
BY DEF Apart, PasskeyFree, HoldsPasskey, Cascaded, Erasing, Referring

LEMMA InsertPasskeyStep ==
    ASSUME IInv, NEW r \in Requests, InsertPasskey(r)
    PROVE  IInv'
<1>1. /\ Move(r, "return", req[r].holds) /\ UNCHANGED <<rows, clients, added, history>>
      /\ req[r].op = "register" /\ passkeys[req[r].key].id = 0
      /\ PasskeyFree(r, req[r].key) /\ Refers(req[r].user)
    BY DEF InsertPasskey
<1>2. req[r].holds \in BOOLEAN /\ Placed(req[r])
    BY DEF IInv, Request
<1>3. ASSUME NEW q \in Request, q.op = req[r].op, q.at = "return", q.user = req[r].user,
             q.key = req[r].key, q.ch = req[r].ch, q.id = req[r].id, q.holds = req[r].holds
      PROVE  Placed(q) /\ Locking(q) /\ \A s \in Requests \ {r} : Apart(q, req[s])
    <2>1. Placed(q)
        BY <1>1, <1>2, <1>3 DEF Placed
    <2>2. Locking(q)
        BY <1>1, <1>3 DEF Locking, Refers
    <2>3. \A s \in Requests \ {r} : Apart(q, req[s])
        BY <1>1, <1>3, PasskeyLocked DEF Refers
    <2> QED
        BY <2>1, <2>2, <2>3
<1> QED
    BY <1>1, <1>2, <1>3, Moves

LEMMA WritePasskeyStep ==
    ASSUME IInv, NEW r \in Requests, WritePasskey(r)
    PROVE  IInv'
<1>1. /\ Move(r, "issue", req[r].holds) /\ UNCHANGED <<rows, clients, added, history>>
      /\ req[r].op = "login" /\ req[r].at = "write" /\ passkeys[req[r].key].id = req[r].id
      /\ PasskeyFree(r, req[r].key)
    BY DEF WritePasskey
<1>2. req[r].holds \in BOOLEAN /\ Placed(req[r]) /\ Locking(req[r])
    BY DEF IInv, Request
<1>3. ASSUME NEW q \in Request, q.op = req[r].op, q.at = "issue", q.user = req[r].user,
             q.key = req[r].key, q.ch = req[r].ch, q.id = req[r].id, q.holds = req[r].holds
      PROVE  Placed(q) /\ Locking(q) /\ \A s \in Requests \ {r} : Apart(q, req[s])
    <2>1. Placed(q)
        BY <1>1, <1>2, <1>3 DEF Placed
    <2>2. Locking(q)
        BY <1>1, <1>2, <1>3 DEF Locking
    <2>3. \A s \in Requests \ {r} : Apart(q, req[s])
        BY <1>1, <1>3, PasskeyLocked
    <2> QED
        BY <2>1, <2>2, <2>3
<1> QED
    BY <1>1, <1>2, <1>3, Moves

LEMMA IssueSessionStep ==
    ASSUME IInv, NEW r \in Requests, IssueSession(r)
    PROVE  IInv'
<1>1. /\ Move(r, "return", req[r].holds) /\ UNCHANGED <<rows, clients, added, history>>
      /\ req[r].op = "login" /\ req[r].at = "issue" /\ Refers(req[r].user)
    BY DEF IssueSession
<1>2. /\ req[r].holds \in BOOLEAN /\ Placed(req[r]) /\ Locking(req[r])
      /\ \A s \in Requests \ {r} : Apart(req[r], req[s])
    BY DEF IInv, Request
<1>3. ASSUME NEW q \in Request, q.op = req[r].op, q.at = "return", q.user = req[r].user,
             q.key = req[r].key, q.ch = req[r].ch, q.id = req[r].id, q.holds = req[r].holds
      PROVE  Placed(q) /\ Locking(q) /\ \A s \in Requests \ {r} : Apart(q, req[s])
    <2>1. Placed(q)
        BY <1>1, <1>2, <1>3 DEF Placed
    <2>2. Locking(q)
        BY <1>1, <1>2, <1>3 DEF Locking
    <2>3. ASSUME NEW s \in Requests \ {r} PROVE Apart(q, req[s])
        <3>1. Apart(req[r], req[s])
            BY <1>2
        <3>2. ~ Erasing(req[s], q.user)
            BY <1>1, <1>3 DEF Refers
        <3> QED
            BY <1>1, <1>3, <3>1, <3>2 DEF Apart, HoldsPasskey, Cascaded, Erasing, Referring
    <2> QED
        BY <2>1, <2>2, <2>3
<1> QED
    BY <1>1, <1>2, <1>3, Moves

LEMMA DeletePasskeyStep ==
    ASSUME IInv, NEW r \in Requests, DeletePasskey(r)
    PROVE  IInv'
<1> DEFINE held == passkeys[req[r].key].id = req[r].id
<1>1. /\ Move(r, "return", held) /\ UNCHANGED <<rows, clients, added, history>>
      /\ req[r].op = "remove" /\ PasskeyFree(r, req[r].key)
    BY DEF DeletePasskey
<1>2. held \in BOOLEAN
    OBVIOUS
<1> HIDE DEF held
<1>3. ASSUME NEW q \in Request, q.op = req[r].op, q.at = "return", q.user = req[r].user,
             q.key = req[r].key, q.ch = req[r].ch, q.id = req[r].id, q.holds = held
      PROVE  Placed(q) /\ Locking(q) /\ \A s \in Requests \ {r} : Apart(q, req[s])
    <2>1. Placed(q) /\ Locking(q)
        BY <1>1, <1>3 DEF Placed, Locking
    <2>2. \A s \in Requests \ {r} : Apart(q, req[s])
        BY <1>1, <1>3, PasskeyLocked
    <2> QED
        BY <2>1, <2>2
<1> QED
    BY <1>1, <1>2, <1>3, Moves

LEMMA LockAccountStep ==
    ASSUME IInv, NEW r \in Requests, LockAccount(r)
    PROVE  IInv'
<1> DEFINE u == req[r].user
           held == u \in accounts
           next == IF held THEN "cascade" ELSE "return"
<1>1. /\ Move(r, next, held) /\ UNCHANGED <<rows, clients, added, history>>
      /\ req[r].op = "erase"
      /\ \A s \in Requests \ {r} : ~ Erasing(req[s], u) /\ ~ Referring(req[s], u)
    BY DEF LockAccount
<1>2. held \in BOOLEAN /\ Placed(req[r])
    BY DEF IInv
<1>3. ASSUME NEW q \in Request, q.op = req[r].op, q.at = next, q.user = req[r].user,
             q.key = req[r].key, q.ch = req[r].ch, q.id = req[r].id, q.holds = held
      PROVE  Placed(q) /\ Locking(q) /\ \A s \in Requests \ {r} : Apart(q, req[s])
    <2>1. Placed(q) /\ Locking(q)
        BY <1>1, <1>2, <1>3 DEF Placed, Locking
    <2>2. \A s \in Requests \ {r} : Apart(q, req[s])
        BY <1>1, <1>3 DEF Apart, HoldsPasskey, Cascaded, Erasing, Referring
    <2> QED
        BY <2>1, <2>2
<1>4. next \in {"cascade", "return"}
    OBVIOUS
<1> HIDE DEF next, held
<1> QED
    BY <1>1, <1>2, <1>3, <1>4, Moves

LEMMA CascadeStep ==
    ASSUME IInv, NEW r \in Requests, Cascade(r)
    PROVE  IInv'
<1> DEFINE held == TRUE
<1>1. /\ Move(r, "return", held) /\ UNCHANGED <<rows, clients, added, history>>
      /\ req[r].op = "erase" /\ req[r].at = "cascade"
      /\ \A k \in Credentials : passkeys[k].user = req[r].user => PasskeyFree(r, k)
    BY DEF Cascade
<1>2. /\ Placed(req[r]) /\ held \in BOOLEAN
      /\ \A s \in Requests \ {r} : Apart(req[r], req[s])
    BY DEF IInv, Request
<1>3. ASSUME NEW q \in Request, q.op = req[r].op, q.at = "return", q.user = req[r].user,
             q.key = req[r].key, q.ch = req[r].ch, q.id = req[r].id, q.holds = held
      PROVE  Placed(q) /\ Locking(q) /\ \A s \in Requests \ {r} : Apart(q, req[s])
    <2>1. Placed(q) /\ Locking(q)
        BY <1>1, <1>2, <1>3 DEF Placed, Locking
    <2>2. ASSUME NEW s \in Requests \ {r} PROVE Apart(q, req[s])
        <3>1. Apart(req[r], req[s])
            BY <1>2
        <3>2. \A k \in Credentials : ~ (HoldsPasskey(q, k) /\ HoldsPasskey(req[s], k))
            BY <1>1, <1>3 DEF PasskeyFree, HoldsPasskey, Cascaded
        <3> QED
            BY <1>1, <1>2, <1>3, <3>1, <3>2 DEF Apart, Placed, Erasing, Referring
    <2> QED
        BY <2>1, <2>2
<1> HIDE DEF held
<1> QED
    BY <1>1, <1>2, <1>3, Moves
-----------------------------------------------------------------------------
\* A commit: the request is gone, and what the others rely on is as it was.
LEMMA Commits ==
    ASSUME IInv, NEW r \in Requests, End(r), Tables',
           issued' = issued, added' \in {added, added + 1},
           \A s \in Requests \ {r} : Locking(req[s])',
           \A s \in Requests \ {r}, k \in Credentials :
               HoldsPasskey(req[s], k)' => HoldsPasskey(req[s], k)
    PROVE  IInv'
<1>1. Idle \in Request
    BY IdleIsFree
<1>2. /\ req' \in [Requests -> Request]
      /\ \A s \in Requests : req'[s] = IF s = r THEN Idle ELSE req[s]
    BY <1>1 DEF IInv, End
<1>3. ASSUME NEW s \in Requests PROVE (Placed(req[s]) /\ Locking(req[s]))'
    <2>1. CASE s = r
        BY <1>2, <2>1 DEF Placed, Locking, Idle
    <2>2. CASE s # r
        <3>1. Placed(req[s]) /\ req'[s] = req[s] /\ req[s] \in Request /\ added \in Nat
            BY <1>2, <2>2 DEF IInv, Tables, Types
        <3>2. Placed(req[s])'
            BY <3>1 DEF Placed, Request
        <3> QED
            BY <2>2, <3>2
    <2> QED
        BY <2>1, <2>2
<1>4. ASSUME NEW s \in Requests, NEW t \in Requests, s # t
      PROVE  Apart(req[s], req[t])'
    <2>1. CASE s = r
        BY <1>2, <2>1 DEF Apart, Idle, HoldsPasskey, Cascaded, Erasing, Referring
    <2>2. CASE t = r
        BY <1>2, <2>2 DEF Apart, Idle, HoldsPasskey, Cascaded, Erasing, Referring
    <2>3. CASE s # r /\ t # r
        <3>1. /\ Apart(req[s], req[t]) /\ req'[s] = req[s] /\ req'[t] = req[t]
              /\ s \in Requests \ {r} /\ t \in Requests \ {r}
            BY <1>2, <1>4, <2>3 DEF IInv
        <3>2. \A k \in Credentials : ~ (HoldsPasskey(req[s], k)' /\ HoldsPasskey(req[t], k)')
            BY <3>1 DEF Apart
        <3> QED
            BY <3>1, <3>2 DEF Apart, Erasing, Referring
    <2> QED
        BY <2>1, <2>2, <2>3
<1> QED
    BY <1>2, <1>3, <1>4 DEF IInv

\* What is known of a request of either ceremony about to commit.
LEMMA Completing ==
    ASSUME IInv, NEW r \in Requests, req[r].op \in {"register", "login"}
    PROVE  /\ req[r].key \in Credentials /\ req[r].ch \in Challenges /\ req[r].ch <= issued
           /\ req[r].count \in Counts
           /\ Completed(req[r]) \in Response /\ Completed(req[r]).ch = req[r].ch
<1>1. Placed(req[r]) /\ req[r] \in Request
    BY DEF IInv
<1> QED
    BY <1>1 DEF Placed, Request, Response, Completed

\* The challenge a commit answers leaves the table and has served.
LEMMA AnswerRows ==
    ASSUME IInv, NEW r \in Requests, req[r].op \in {"register", "login"},
           challenges' = [challenges EXCEPT ![req[r].ch] = NoChallenge],
           served' = served \cup {Completed(req[r])},
           UNCHANGED <<accounts, clients>>
    PROVE  /\ ChallengeRows'
           /\ challenges' \in [Challenges -> Challenge] /\ served' \subseteq Response
<1>1. ChallengeRows /\ challenges \in [Challenges -> Challenge] /\ served \subseteq Response
    BY DEF IInv, Tables, Types
<1>2. NoChallenge \in Challenge /\ NoChallenge.state = "gone" /\ NoChallenge.user = None
    BY DEF NoChallenge, Challenge
<1> DEFINE c == req[r].ch
           s == Completed(req[r])
<1>3. c \in Challenges /\ c <= issued /\ s \in Response /\ s.ch = c
    BY Completing
<1>4. challenges' = [challenges EXCEPT ![c] = NoChallenge] /\ served' = served \cup {s}
    OBVIOUS
<1> HIDE DEF c, s
<1>5. challenges' \in [Challenges -> Challenge] /\ served' \subseteq Response
    BY <1>1, <1>2, <1>3, <1>4
<1>6. \A d \in Challenges : challenges'[d] = IF d = c THEN NoChallenge ELSE challenges[d]
    BY <1>1, <1>4
<1>7. \A d \in Challenges : /\ OnRecord(d)' => d <= issued'
                            /\ challenges'[d].user \in accounts' \cup {None}
    BY <1>1, <1>2, <1>6 DEF ChallengeRows, OnRecord, clients
<1>8. \A t \in served' : t.ch <= issued' /\ ~ OnRecord(t.ch)'
    <2> SUFFICES ASSUME NEW t \in served' PROVE t.ch <= issued' /\ ~ OnRecord(t.ch)'
        OBVIOUS
    <2>1. t.ch \in Challenges
        BY <1>5 DEF Response
    <2>2. CASE t = s
        BY <1>2, <1>3, <1>6, <2>2 DEF OnRecord, clients
    <2>3. CASE t \in served
        BY <1>1, <1>2, <1>6, <2>1, <2>3 DEF ChallengeRows, OnRecord, clients
    <2> QED
        BY <1>4, <2>2, <2>3
<1> QED
    BY <1>1, <1>5, <1>7, <1>8 DEF ChallengeRows, clients
LEMMA CommitRegisterStep ==
    ASSUME IInv, NEW r \in Requests, CommitRegister(r)
    PROVE  IInv'
<1> DEFINE q == req[r]
           new == [id |-> added + 1, user |-> q.user, count |-> q.count]
<1>1. /\ q.op = "register" /\ q.at = "return" /\ added < MaxPasskeys /\ added' = added + 1
      /\ passkeys' = [passkeys EXCEPT ![q.key] = new]
      /\ challenges' = [challenges EXCEPT ![q.ch] = NoChallenge]
      /\ served' = served \cup {Completed(q)}
      /\ End(r)
      /\ lowered' \in {lowered, lowered \cup {q.key}}
      /\ UNCHANGED <<accounts, clients, regranted, erased>>
    BY DEF CommitRegister
<1>2. /\ Types /\ PasskeyRows /\ Placed(q) /\ Locking(q)
      /\ \A s \in Requests \ {r} : Locking(req[s]) /\ Placed(req[s]) /\ Apart(q, req[s])
    BY DEF IInv, Tables
<1>3. q.key \in Credentials /\ q.count \in Counts
    BY <1>1, Completing
<1>4. q.user \in Accounts /\ q.user \in accounts /\ passkeys[q.key].id = 0
    BY <1>1, <1>2 DEF Placed, Locking
<1>5. added \in Nat /\ added + 1 \in 0 .. MaxPasskeys
    BY <1>1, <1>2, ConstAssumption DEF Types
<1>6. new \in Passkey /\ new.id = added + 1 /\ new.user = q.user
    BY <1>3, <1>4, <1>5 DEF Passkey
<1> HIDE DEF new
<1>7. /\ passkeys' \in [Credentials -> Passkey]
      /\ \A k \in Credentials : passkeys'[k] = IF k = q.key THEN new ELSE passkeys[k]
    BY <1>1, <1>2, <1>6 DEF Types
<1>8. /\ ChallengeRows'
      /\ challenges' \in [Challenges -> Challenge] /\ served' \subseteq Response
    BY <1>1, AnswerRows
<1>9. Types'
    BY <1>1, <1>2, <1>5, <1>7, <1>8 DEF Types, clients
<1>10. PasskeyRows'
    <2> SUFFICES ASSUME NEW k \in Credentials
                 PROVE  /\ passkeys'[k].id <= added'
                        /\ passkeys'[k].id = 0 => passkeys'[k].user = None
                        /\ passkeys'[k].id # 0 => passkeys'[k].user \in accounts'
        BY DEF PasskeyRows
    <2>1. CASE k = q.key
        BY <1>1, <1>4, <1>5, <1>6, <1>7, <2>1
    <2>2. CASE k # q.key
        <3>1. passkeys'[k] = passkeys[k] /\ passkeys[k].id \in Nat
            BY <1>2, <1>7, <2>2, ConstAssumption DEF Types, Passkey
        <3> QED
            BY <1>1, <1>2, <1>5, <3>1 DEF PasskeyRows
    <2> QED
        BY <2>1, <2>2
<1>11. ASSUME NEW s \in Requests \ {r} PROVE Locking(req[s])'
    <2>1. req'[s] = req[s] /\ req[s] \in Request
        BY <1>1 DEF End, IInv
    <2>2. ASSUME req[s].op = "register" /\ req[s].at = "return"
          PROVE  req[s].key # q.key /\ req[s].key \in Credentials
        BY <1>1, <1>2, <1>3, <2>2 DEF Apart, HoldsPasskey, Placed
    <2>3. ASSUME req[s].op = "login" /\ req[s].at \in {"issue", "return"}
          PROVE  req[s].key # q.key /\ req[s].key \in Credentials
        BY <1>1, <1>2, <1>3, <2>3 DEF Apart, HoldsPasskey, Placed
    <2>4. ASSUME req[s].op = "login" /\ req[s].at = "write"
          PROVE  req[s].id # added + 1 /\ req[s].key \in Credentials
        BY <1>2, <1>5, <2>1, <2>4, ConstAssumption DEF Placed, Request
    <2> QED
        BY <1>1, <1>2, <1>6, <1>7, <2>1, <2>2, <2>3, <2>4 DEF Locking
<1>12. ASSUME NEW s \in Requests \ {r}, NEW k \in Credentials, HoldsPasskey(req[s], k)'
       PROVE  HoldsPasskey(req[s], k)
    <2>1. req'[s] = req[s]
        BY <1>1 DEF End, IInv
    <2>2. ~ Cascaded(req[s], q.user)
        <3>1. Referring(q, q.user) /\ Apart(q, req[s])
            BY <1>1, <1>2 DEF Referring
        <3> QED
            BY <1>4, <3>1 DEF Apart, Cascaded, Erasing
    <2> QED
        BY <1>6, <1>7, <1>12, <2>1, <2>2 DEF HoldsPasskey, Cascaded
<1>13. issued' = issued
    BY <1>1 DEF clients
<1> QED
    BY <1>1, <1>8, <1>9, <1>10, <1>11, <1>12, <1>13, Commits DEF Tables

LEMMA CommitLoginStep ==
    ASSUME IInv, NEW r \in Requests, CommitLogin(r)
    PROVE  IInv'
<1> DEFINE q == req[r]
<1>1. /\ q.op = "login" /\ q.at = "return"
      /\ passkeys' = [passkeys EXCEPT ![q.key].count = q.count]
      /\ challenges' = [challenges EXCEPT ![q.ch] = NoChallenge]
      /\ served' = served \cup {Completed(q)}
      /\ regranted' = regranted \cup (served \cap {Completed(q)})
      /\ lowered' \in {lowered, lowered \cup {q.key}}
      /\ End(r)
      /\ UNCHANGED <<accounts, clients, added, erased>>
    BY DEF CommitLogin
<1>2. /\ Types /\ PasskeyRows /\ Placed(q) /\ Locking(q) /\ q \in Request
      /\ \A s \in Requests \ {r} : Locking(req[s]) /\ Placed(req[s])
    BY DEF IInv, Tables
<1>3. q.key \in Credentials /\ q.count \in Counts /\ Completed(q) \in Response
    BY <1>1, Completing
<1>5. /\ passkeys' \in [Credentials -> Passkey]
      /\ \A k \in Credentials : /\ passkeys'[k].id = passkeys[k].id
                                /\ passkeys'[k].user = passkeys[k].user
    BY <1>1, <1>2, <1>3 DEF Types, Passkey
<1>6. /\ ChallengeRows'
      /\ challenges' \in [Challenges -> Challenge] /\ served' \subseteq Response
    BY <1>1, AnswerRows
<1>9. Types'
    BY <1>1, <1>2, <1>3, <1>5, <1>6 DEF Types, clients
<1>10. PasskeyRows'
    BY <1>1, <1>2, <1>5 DEF PasskeyRows
<1>11. ASSUME NEW s \in Requests \ {r} PROVE Locking(req[s])'
    <2>1. req'[s] = req[s]
        BY <1>1 DEF End, IInv
    <2> QED
        BY <1>1, <1>2, <1>5, <2>1 DEF Locking, Placed
<1>12. ASSUME NEW s \in Requests \ {r}, NEW k \in Credentials, HoldsPasskey(req[s], k)'
       PROVE  HoldsPasskey(req[s], k)
    <2>1. req'[s] = req[s]
        BY <1>1 DEF End, IInv
    <2> QED
        BY <1>5, <1>12, <2>1 DEF HoldsPasskey, Cascaded
<1>13. issued' = issued
    BY <1>1 DEF clients
<1> QED
    BY <1>1, <1>6, <1>9, <1>10, <1>11, <1>12, <1>13, Commits DEF Tables
LEMMA CommitRemoveStep ==
    ASSUME IInv, NEW r \in Requests, CommitRemove(r)
    PROVE  IInv'
<1> DEFINE q == req[r]
<1>1. /\ q.op = "remove"
      /\ passkeys' = IF q.holds THEN [passkeys EXCEPT ![q.key] = NoPasskey] ELSE passkeys
      /\ End(r)
      /\ UNCHANGED <<accounts, challenges, clients, added, history>>
    BY DEF CommitRemove
<1>2. /\ Types /\ PasskeyRows /\ ChallengeRows
      /\ \A s \in Requests \ {r} : Locking(req[s]) /\ Placed(req[s]) /\ Apart(q, req[s])
    BY DEF IInv, Tables
<1>3. NoPasskey \in Passkey /\ NoPasskey.id = 0 /\ NoPasskey.user = None
    BY ConstAssumption DEF NoPasskey, Passkey, Counts
<1>4. /\ passkeys' \in [Credentials -> Passkey]
      /\ \A k \in Credentials :
             passkeys'[k] = IF q.holds /\ k = q.key THEN NoPasskey ELSE passkeys[k]
    BY <1>1, <1>2, <1>3 DEF Types
<1>5. Types'
    BY <1>1, <1>2, <1>4 DEF Types, clients, history
<1>6. PasskeyRows'
    BY <1>1, <1>2, <1>3, <1>4 DEF PasskeyRows, Types
<1>7. ChallengeRows'
    BY <1>1, <1>2 DEF ChallengeRows, OnRecord, clients, history
<1>8. ASSUME NEW s \in Requests \ {r} PROVE Locking(req[s])'
    <2>1. req'[s] = req[s]
        BY <1>1 DEF End, IInv
    <2>2. ASSUME req[s].op = "login" /\ req[s].at \in {"issue", "return"}
          PROVE  ~ (q.holds /\ req[s].key = q.key) /\ req[s].key \in Credentials
        BY <1>1, <1>2, <2>2 DEF Apart, HoldsPasskey, Placed
    <2> QED
        BY <1>1, <1>2, <1>3, <1>4, <2>1, <2>2 DEF Locking, Placed
<1>9. ASSUME NEW s \in Requests \ {r}, NEW k \in Credentials, HoldsPasskey(req[s], k)'
      PROVE  HoldsPasskey(req[s], k)
    <2>1. req'[s] = req[s] /\ ~ Cascaded(req[s], None)
        BY <1>1, <1>2, ConstAssumption DEF End, IInv, Cascaded, Placed
    <2> QED
        BY <1>3, <1>4, <1>9, <2>1 DEF HoldsPasskey, Cascaded
<1>10. issued' = issued
    BY <1>1 DEF clients
<1> QED
    BY <1>1, <1>5, <1>6, <1>7, <1>8, <1>9, <1>10, Commits DEF Tables

LEMMA CommitEraseStep ==
    ASSUME IInv, NEW r \in Requests, CommitErase(r)
    PROVE  IInv'
<1> DEFINE q == req[r]
           u == req[r].user
<1>1. /\ q.op = "erase" /\ q.at = "return"
      /\ accounts' = accounts \ {u}
      /\ passkeys' = [k \in Credentials |-> IF passkeys[k].user = u THEN NoPasskey
                                                                   ELSE passkeys[k]]
      /\ challenges' = [c \in Challenges |-> IF challenges[c].user = u THEN NoChallenge
                                                                      ELSE challenges[c]]
      /\ End(r)
      /\ erased' \subseteq Challenges
      /\ UNCHANGED <<clients, added, served, regranted, lowered>>
    BY DEF CommitErase, IInv, Tables, Types
<1>2. /\ Types /\ PasskeyRows /\ ChallengeRows /\ Placed(q) /\ Locking(q)
      /\ \A s \in Requests \ {r} : Locking(req[s]) /\ Placed(req[s]) /\ Apart(q, req[s])
    BY DEF IInv, Tables
<1>3. /\ NoPasskey \in Passkey /\ NoPasskey.id = 0 /\ NoPasskey.user = None
      /\ NoChallenge \in Challenge /\ NoChallenge.state = "gone" /\ NoChallenge.user = None
      /\ u \in Accounts /\ u # None
    BY <1>1, <1>2, ConstAssumption
       DEF NoPasskey, Passkey, Counts, NoChallenge, Challenge, Placed
<1>4. /\ passkeys' \in [Credentials -> Passkey]
      /\ challenges' \in [Challenges -> Challenge]
    BY <1>1, <1>2, <1>3 DEF Types
<1>5. Types'
    BY <1>1, <1>2, <1>4 DEF Types, clients
<1>6. PasskeyRows'
    BY <1>1, <1>2, <1>3 DEF PasskeyRows, Types
<1>7. ChallengeRows'
    <2>1. \A c \in Challenges : /\ OnRecord(c)' => c <= issued'
                                /\ challenges'[c].user \in accounts' \cup {None}
        BY <1>1, <1>2, <1>3 DEF ChallengeRows, OnRecord, clients
    <2>2. \A s \in served' : s.ch <= issued' /\ ~ OnRecord(s.ch)'
        <3> SUFFICES ASSUME NEW s \in served PROVE s.ch <= issued /\ ~ OnRecord(s.ch)'
            BY <1>1 DEF clients
        <3>1. s.ch \in Challenges /\ s.ch <= issued /\ ~ OnRecord(s.ch)
            BY <1>2 DEF Types, Response, ChallengeRows
        <3> QED
            BY <1>1, <1>3, <3>1 DEF OnRecord
    <2> QED
        BY <1>1, <1>2, <2>1, <2>2 DEF ChallengeRows, clients
<1>8. ASSUME NEW s \in Requests \ {r} PROVE Locking(req[s])'
    <2>1. req'[s] = req[s]
        BY <1>1 DEF End, IInv
    <2>2. ASSUME req[s].op = "register" /\ req[s].at = "return"
          PROVE  req[s].user \in accounts' /\ req[s].key \in Credentials
        <3>1. CASE q.holds
            BY <1>1, <1>2, <1>3, <2>2, <3>1 DEF Apart, Erasing, Referring, Locking, Placed
        <3>2. CASE ~ q.holds
            BY <1>1, <1>2, <2>2, <3>2 DEF Locking, Placed
        <3> QED
            BY <3>1, <3>2
    <2>3. ASSUME req[s].op = "login" /\ req[s].at \in {"issue", "return"}
          PROVE  passkeys[req[s].key].user # u /\ req[s].key \in Credentials
        <3> DEFINE k == req[s].key
        <3>1. k \in Credentials /\ passkeys[k].id # 0
            BY <1>2, <2>3 DEF Placed, Locking
        <3>2. CASE q.holds
            BY <1>1, <1>2, <2>3, <3>1, <3>2 DEF Apart, HoldsPasskey, Cascaded
        <3>3. CASE ~ q.holds
            BY <1>1, <1>2, <3>1, <3>3 DEF Locking, PasskeyRows
        <3> QED
            BY <3>1, <3>2, <3>3
    <2>4. ASSUME req[s].op = "login" /\ req[s].at = "write"
          PROVE  req[s].id # 0 /\ req[s].key \in Credentials
        BY <1>2, <2>4 DEF Placed
    <2> QED
        BY <1>1, <1>2, <1>3, <2>1, <2>2, <2>3, <2>4 DEF Locking
<1>9. ASSUME NEW s \in Requests \ {r}, NEW k \in Credentials, HoldsPasskey(req[s], k)'
      PROVE  HoldsPasskey(req[s], k)
    <2>1. req'[s] = req[s] /\ ~ Cascaded(req[s], None)
        BY <1>1, <1>2, ConstAssumption DEF End, IInv, Cascaded, Placed
    <2> QED
        BY <1>1, <1>3, <1>9, <2>1 DEF HoldsPasskey, Cascaded
<1>10. issued' = issued
    BY <1>1 DEF clients
<1> QED
    BY <1>1, <1>5, <1>6, <1>7, <1>8, <1>9, <1>10, Commits DEF Tables

-----------------------------------------------------------------------------
\* What happens outside the requests: the accounts, passkeys and requests stay.
LEMMA Outside ==
    ASSUME IInv, UNCHANGED <<req, accounts, passkeys, added>>, Tables', issued <= issued'
    PROVE  IInv'
<1>1. ASSUME NEW r \in Requests PROVE (Placed(req[r]) /\ Locking(req[r]))'
    <2>1. Placed(req[r]) /\ Locking(req[r]) /\ issued \in Nat /\ issued' \in Nat
        BY DEF IInv, Tables, Types
    <2>2. Placed(req[r])'
        BY <2>1 DEF Placed, Challenges
    <2> QED
        BY <2>1, <2>2 DEF Locking
<1>2. \A r, s \in Requests : r # s => Apart(req[r], req[s])'
    BY DEF IInv, Apart, HoldsPasskey, Cascaded, Erasing, Referring
<1> QED
    BY <1>1, <1>2 DEF IInv

LEMMA StoreChallengeStep ==
    ASSUME IInv, NEW u \in accounts \cup {None}, StoreChallenge(u)
    PROVE  IInv'
<1> DEFINE new == [state |-> "fresh", user |-> u]
<1>1. /\ issued < MaxChallenges /\ issued' = issued + 1
      /\ challenges' = [challenges EXCEPT ![issued + 1] = new]
      /\ UNCHANGED <<accounts, passkeys, counter, signed, added, req, history>>
    BY DEF StoreChallenge
<1>2. Types /\ PasskeyRows /\ ChallengeRows
    BY DEF IInv, Tables
<1>3. new \in Challenge /\ new.user = u
    BY <1>2 DEF Challenge, Types
<1>4. issued \in Nat /\ issued' \in 0 .. MaxChallenges /\ issued + 1 \in Challenges
    BY <1>1, <1>2, ConstAssumption DEF Types, Challenges
<1> HIDE DEF new
<1>5. /\ challenges' \in [Challenges -> Challenge]
      /\ \A c \in Challenges : challenges'[c] = IF c = issued + 1 THEN new ELSE challenges[c]
    BY <1>1, <1>2, <1>3, <1>4 DEF Types
<1>6. Types' /\ PasskeyRows'
    BY <1>1, <1>2, <1>4, <1>5 DEF Types, PasskeyRows, history
<1>7. ChallengeRows'
    <2>1. ASSUME NEW c \in Challenges
          PROVE  /\ OnRecord(c)' => c <= issued'
                 /\ challenges'[c].user \in accounts' \cup {None}
        <3>1. c \in Nat
            BY DEF Challenges
        <3> QED
            BY <1>1, <1>2, <1>3, <1>4, <1>5, <3>1 DEF ChallengeRows, OnRecord
    <2>2. ASSUME NEW s \in signed' PROVE s.ch <= issued'
        <3>1. s.ch \in Nat /\ s.ch <= issued
            BY <1>1, <1>2 DEF Types, Response, Challenges, ChallengeRows
        <3> QED
            BY <1>1, <1>4, <3>1
    <2>3. ASSUME NEW s \in served' PROVE s.ch <= issued' /\ ~ OnRecord(s.ch)'
        <3>1. s.ch \in Challenges /\ s.ch \in Nat /\ s.ch <= issued /\ ~ OnRecord(s.ch)
            BY <1>1, <1>2 DEF Types, Response, Challenges, ChallengeRows, history
        <3> QED
            BY <1>1, <1>4, <1>5, <3>1 DEF OnRecord
    <2> QED
        BY <2>1, <2>2, <2>3 DEF ChallengeRows
<1> QED
    BY <1>1, <1>4, <1>6, <1>7, Outside DEF Tables

LEMMA ExpireStep ==
    ASSUME IInv, NEW c \in Challenges, Expire(c)
    PROVE  IInv'
<1>1. /\ challenges[c].state = "fresh"
      /\ challenges' = [challenges EXCEPT ![c].state = "expired"]
      /\ UNCHANGED <<accounts, passkeys, clients, added, req, history>>
    BY DEF Expire
<1>2. Types /\ PasskeyRows /\ ChallengeRows
    BY DEF IInv, Tables
<1>3. /\ challenges' \in [Challenges -> Challenge]
      /\ \A d \in Challenges : /\ challenges'[d].user = challenges[d].user
                               /\ OnRecord(d)' <=> OnRecord(d)
    BY <1>1, <1>2 DEF Types, Challenge, OnRecord
<1>4. Types' /\ PasskeyRows'
    BY <1>1, <1>2, <1>3 DEF Types, PasskeyRows, clients, history
<1>5. ChallengeRows'
    <2>1. \A s \in served : s.ch \in Challenges
        BY <1>2 DEF Types, Response
    <2> QED
        BY <1>1, <1>2, <1>3, <2>1 DEF ChallengeRows, clients, history
<1>6. issued' = issued /\ issued \in Nat
    BY <1>1, <1>2 DEF clients, Types
<1> QED
    BY <1>1, <1>4, <1>5, <1>6, Outside DEF Tables

\* A response is signed for a challenge on record.
LEMMA SignStep ==
    ASSUME IInv, NEW k \in Credentials, NEW c \in Challenges, Create(k, c) \/ Sign(k, c)
    PROVE  IInv'
<1>1. Types /\ PasskeyRows /\ ChallengeRows
    BY DEF IInv, Tables
<1>2. /\ OnRecord(c) /\ UNCHANGED <<rows, issued, added, req, history>>
      /\ counter' \in [Credentials -> Counts]
      /\ \E s \in Response : s.ch = c /\ signed' = signed \cup {s}
    <2>1. CASE Create(k, c)
        <3> DEFINE s == [type |-> "create", key |-> k, ch |-> c, count |-> counter[k]]
        <3>1. s \in Response /\ s.ch = c
            BY <1>1 DEF Response, Types
        <3>2. /\ OnRecord(c) /\ signed' = signed \cup {s}
              /\ UNCHANGED <<rows, issued, counter, added, req, history>>
            BY <2>1 DEF Create
        <3> HIDE DEF s
        <3> QED
            BY <1>1, <3>1, <3>2 DEF Types
    <2>2. CASE Sign(k, c)
        <3> DEFINE n == IF k \in Counting THEN counter[k] + 1 ELSE 0
                   s == [type |-> "get", key |-> k, ch |-> c, count |-> n]
        <3>1. /\ OnRecord(c) /\ n \in Counts /\ counter' = [counter EXCEPT ![k] = n]
              /\ signed' = signed \cup {s}
              /\ UNCHANGED <<rows, issued, added, req, history>>
            BY <2>2 DEF Sign
        <3> HIDE DEF n
        <3>2. s \in Response /\ s.ch = c
            BY <3>1 DEF Response
        <3> HIDE DEF s
        <3> QED
            BY <1>1, <3>1, <3>2 DEF Types
    <2> QED
        BY <2>1, <2>2
<1>3. Types' /\ PasskeyRows'
    BY <1>1, <1>2 DEF Types, PasskeyRows, rows, history
<1>4. ChallengeRows'
    BY <1>1, <1>2 DEF ChallengeRows, OnRecord, rows, history
<1>5. issued' = issued /\ issued \in Nat
    BY <1>1, <1>2 DEF Types
<1> QED
    BY <1>2, <1>3, <1>4, <1>5, Outside DEF Tables, rows
LEMMA NextInvariant == IInv /\ [Next]_vars => IInv'
<1> SUFFICES ASSUME IInv, [Next]_vars PROVE IInv'
    OBVIOUS
<1>1. ASSUME NEW u \in Accounts, RegisterBegin(u) PROVE IInv'
    BY <1>1, StoreChallengeStep DEF RegisterBegin, Refers
<1>2. ASSUME NEW u \in Accounts \cup {None}, LoginBegin(u) PROVE IInv'
    BY <1>2, StoreChallengeStep DEF LoginBegin, Refers
<1>3. ASSUME NEW c \in Challenges, Expire(c) PROVE IInv'
    BY <1>3, ExpireStep
<1>4. ASSUME NEW k \in Credentials, NEW c \in Challenges, Create(k, c) \/ Sign(k, c) PROVE IInv'
    BY <1>4, SignStep
<1>5. ASSUME NEW r \in Requests, Step(r) PROVE IInv'
    <2>1. ASSUME Fail(r) PROVE IInv'
        BY <2>1, Undone DEF Fail
    <2> QED
        BY <1>5, <2>1, StartSteps, ConsumeStep, InsertPasskeyStep, CommitRegisterStep,
           VerifyStep, WritePasskeyStep, IssueSessionStep, CommitLoginStep,
           DeletePasskeyStep, CommitRemoveStep, LockAccountStep, CascadeStep, CommitEraseStep
           DEF Step
<1>6. CASE UNCHANGED vars
    <2>1. Tables'
        BY <1>6 DEF IInv, Tables, Types, PasskeyRows, ChallengeRows, OnRecord,
                    vars, rows, clients, history
    <2>2. issued' <= issued' /\ issued <= issued'
        BY <1>6 DEF IInv, Tables, Types, vars, clients
    <2> QED
        BY <1>6, <2>1, <2>2, Outside DEF vars, rows
<1> QED
    BY <1>1, <1>2, <1>3, <1>4, <1>5, <1>6 DEF Next, Client

\* The inductive strengthening holds throughout.
THEOREM Inductive == Spec => []IInv
BY InitInvariant, NextInvariant, PTL DEF Spec

\* Every variable keeps its type, and passkeys and challenges are of existing accounts.
THEOREM TypeCorrect == Spec => []TypeOK
BY Inductive, InvariantImplies, PTL

\* A challenge that has served is on record no more.
THEOREM ServedGone == Spec => []SpentChallengeGone
BY Inductive, InvariantImplies, PTL

\* A sign-in commits only with the passkey it verified still on record, of an account that
\* exists.
THEOREM SignInRests == Spec => []SignInOnRecord
BY Inductive, InvariantImplies, PTL
-----------------------------------------------------------------------------
\* Replays.  Why a response may serve again, and why a challenge left the table.
Excused(s) == \/ s.key \in lowered
              \/ s.ch \in erased
              \/ \E t \in served : t # s /\ t.ch = s.ch
Answered(c) == c \in erased \/ \E t \in served : t.ch = c

\* A request whose DELETE found the challenge keeps it on record until it ends; one whose
\* DELETE found none came after an answer.
Kept(q) ==
    /\ q.op \in {"register", "login"} /\ q.holds => OnRecord(q.ch)
    /\ /\ q.op \in {"register", "login"} /\ q.at \in {"verify", "write", "issue", "return"}
       /\ ~ q.holds
       => Answered(q.ch)

\* A verified assertion that has served already has an excuse.
Fresh(q) ==
    /\ q.op = "login" /\ q.at \in {"write", "issue", "return"} /\ q.count > 0
    /\ Completed(q) \in served
    => Excused(Completed(q))

\* Two requests hold no challenge together.
Separate(q, t) == \A c \in Challenges : ~ (HoldsChallenge(q, c) /\ HoldsChallenge(t, c))

\* The history and the rows: sign_count has not fallen behind an assertion that has served.
ChallengeLedger ==
    /\ \A c \in Challenges : c <= issued => OnRecord(c) \/ Answered(c)
    /\ \A c \in Challenges : ~ OnRecord(c) => challenges[c].user = None
    /\ \A c \in erased : c <= issued /\ ~ OnRecord(c)
CountLedger ==
    /\ \A k \in Credentials : passkeys[k].id # 0 => Registered(k)
    /\ \A s \in served : s.type = "get" => Registered(s.key)
    /\ \A s \in served : s.type = "get" => \/ s.key \in lowered
                                           \/ passkeys[s.key].id = 0
                                           \/ passkeys[s.key].count >= s.count

\* The inductive invariant for replays, over IInv.
RInv ==
    /\ ChallengeLedger
    /\ CountLedger
    /\ ReplayExplained
    /\ \A r \in Requests : Kept(req[r]) /\ Fresh(req[r])
    /\ \A r, s \in Requests : r # s => Separate(req[r], req[s])

LEMMA ReplayInit == Init => RInv
<1> SUFFICES ASSUME Init PROVE RInv
    OBVIOUS
<1>1. ChallengeLedger
    BY ConstAssumption DEF Init, ChallengeLedger, OnRecord, NoChallenge, Challenges
<1>2. CountLedger /\ ReplayExplained
    BY DEF Init, CountLedger, ReplayExplained, NoPasskey
<1>3. \A r \in Requests : req[r] = Idle
    BY DEF Init
<1>4. \A r \in Requests : Kept(req[r]) /\ Fresh(req[r])
    BY <1>3 DEF Kept, Fresh, Idle
<1>5. \A r, s \in Requests : Separate(req[r], req[s])
    BY <1>3 DEF Separate, HoldsChallenge, Cascaded, Idle
<1> QED
    BY <1>1, <1>2, <1>4, <1>5 DEF RInv

\* A step of one request that leaves the tables and the history alone.
LEMMA ReplayLocal ==
    ASSUME IInv, RInv, NEW r \in Requests, NEW q,
           req' = [req EXCEPT ![r] = q],
           UNCHANGED <<rows, clients, added, history>>,
           Kept(q), Fresh(q),
           \A s \in Requests \ {r} : Separate(q, req[s])
    PROVE  RInv'
<1>1. \A s \in Requests : req'[s] = IF s = r THEN q ELSE req[s]
    BY DEF IInv
<1>2. ChallengeLedger'
    BY DEF RInv, ChallengeLedger, OnRecord, Answered, rows, clients, history
<1>3. CountLedger' /\ ReplayExplained'
    BY DEF RInv, CountLedger, ReplayExplained, Registered, rows, history
<1>4. ASSUME NEW s \in Requests PROVE (Kept(req[s]) /\ Fresh(req[s]))'
    <2>1. Kept(req'[s]) /\ Fresh(req'[s])
        BY <1>1 DEF RInv
    <2> QED
        BY <2>1 DEF Kept, Fresh, OnRecord, Answered, Excused, Completed, rows, history
<1>5. ASSUME NEW s \in Requests, NEW t \in Requests, s # t
      PROVE  Separate(req[s], req[t])'
    <2>1. Separate(req'[s], req'[t])
        <3>1. CASE s = r
            BY <1>1, <1>5, <3>1
        <3>2. CASE t = r
            <4>1. Separate(q, req[s])
                BY <1>5, <3>2
            <4> QED
                BY <1>1, <1>5, <3>2, <4>1 DEF Separate
        <3>3. CASE s # r /\ t # r
            BY <1>1, <1>5, <3>3 DEF RInv
        <3> QED
            BY <3>1, <3>2, <3>3
    <2> QED
        BY <2>1 DEF Separate, HoldsChallenge, Cascaded, rows
<1> QED
    BY <1>2, <1>3, <1>4, <1>5 DEF RInv

\* A request that goes on within its ceremony: what it carries and holds stays.
LEMMA ReplayMoves ==
    ASSUME IInv, RInv, NEW r \in Requests, NEW next, NEW held \in BOOLEAN, Move(r, next, held),
           UNCHANGED <<rows, clients, added, history>>,
           \A q : /\ q.op = req[r].op /\ q.at = next /\ q.user = req[r].user
                  /\ q.key = req[r].key /\ q.ch = req[r].ch /\ q.count = req[r].count
                  /\ q.holds = held
                  => Kept(q) /\ Fresh(q) /\ \A s \in Requests \ {r} : Separate(q, req[s])
    PROVE  RInv'
<1> DEFINE q == [req[r] EXCEPT !.at = next, !.holds = held]
<1>1. req[r] \in Request
    BY DEF IInv
<1>2. /\ q.op = req[r].op /\ q.at = next /\ q.user = req[r].user
      /\ q.key = req[r].key /\ q.ch = req[r].ch /\ q.count = req[r].count /\ q.holds = held
    BY <1>1 DEF Request
<1>3. req' = [req EXCEPT ![r] = q]
    BY DEF IInv, Move
<1> HIDE DEF q
<1>4. Kept(q) /\ Fresh(q) /\ \A s \in Requests \ {r} : Separate(q, req[s])
    BY <1>2
<1> QED
    BY <1>3, <1>4, ReplayLocal
LEMMA ReplayBegins ==
    ASSUME IInv, RInv, NEW r \in Requests, NEW q, Start(r, q),
           UNCHANGED <<rows, clients, added, history>>,
           q.holds = FALSE, q.at \in {"consume", "write"},
           q.op \in {"register", "login"} => q.at = "consume"
    PROVE  RInv'
<1>1. Kept(q) /\ Fresh(q)
    BY DEF Kept, Fresh
<1>2. \A s : Separate(q, s)
    BY DEF Separate, HoldsChallenge, Cascaded
<1> QED
    BY <1>1, <1>2, ReplayLocal DEF Start

LEMMA ReplayStartSteps ==
    ASSUME IInv, RInv, NEW r \in Requests,
           \/ \E s \in signed : LoginComplete(r, s) \/ \E u \in accounts : RegisterComplete(r, u, s)
           \/ \E u \in accounts : EraseAccount(r, u) \/ \E k \in Credentials : RemovePasskey(r, u, k)
    PROVE  RInv'
<1>1. ASSUME NEW s \in signed, LoginComplete(r, s) PROVE RInv'
    <2> DEFINE q == [Idle EXCEPT !.op = "login", !.at = "consume", !.key = s.key, !.ch = s.ch,
                                 !.count = s.count]
    <2>1. q.at = "consume" /\ q.holds = FALSE
        BY DEF Idle
    <2>2. Start(r, q) /\ UNCHANGED <<rows, clients, added, history>>
        BY <1>1 DEF LoginComplete
    <2> HIDE DEF q
    <2> QED
        BY <2>1, <2>2, ReplayBegins
<1>2. ASSUME NEW s \in signed, NEW u \in accounts, RegisterComplete(r, u, s) PROVE RInv'
    <2> DEFINE q == [Idle EXCEPT !.op = "register", !.at = "consume", !.user = u, !.key = s.key,
                                 !.ch = s.ch, !.count = s.count]
    <2>1. q.at = "consume" /\ q.holds = FALSE
        BY DEF Idle
    <2>2. Start(r, q) /\ UNCHANGED <<rows, clients, added, history>>
        BY <1>2 DEF RegisterComplete
    <2> HIDE DEF q
    <2> QED
        BY <2>1, <2>2, ReplayBegins
<1>3. ASSUME NEW u \in accounts, EraseAccount(r, u) PROVE RInv'
    <2> DEFINE q == [Idle EXCEPT !.op = "erase", !.at = "write", !.user = u]
    <2>1. q.op = "erase" /\ q.at = "write" /\ q.holds = FALSE
        BY DEF Idle
    <2>2. Start(r, q) /\ UNCHANGED <<rows, clients, added, history>>
        BY <1>3 DEF EraseAccount
    <2> HIDE DEF q
    <2> QED
        BY <2>1, <2>2, ReplayBegins
<1>4. ASSUME NEW u \in accounts, NEW k \in Credentials, RemovePasskey(r, u, k) PROVE RInv'
    <2> DEFINE q == [Idle EXCEPT !.op = "remove", !.at = "write", !.user = u, !.key = k,
                                 !.id = passkeys[k].id]
    <2>1. q.op = "remove" /\ q.at = "write" /\ q.holds = FALSE
        BY DEF Idle
    <2>2. Start(r, q) /\ UNCHANGED <<rows, clients, added, history>>
        BY <1>4 DEF RemovePasskey
    <2> HIDE DEF q
    <2> QED
        BY <2>1, <2>2, ReplayBegins
<1> QED
    BY <1>1, <1>2, <1>3, <1>4

LEMMA ReplayUndone ==
    ASSUME IInv, RInv, NEW r \in Requests, End(r), UNCHANGED <<rows, clients, added, history>>
    PROVE  RInv'
<1>1. Kept(Idle) /\ Fresh(Idle)
    BY DEF Kept, Fresh, Idle
<1>2. \A s : Separate(Idle, s)
    BY DEF Separate, HoldsChallenge, Cascaded, Idle
<1> QED
    BY <1>1, <1>2, ReplayLocal DEF End

\* The challenge is locked, and found on record or gone with an answer.
LEMMA ReplayConsume ==
    ASSUME IInv, RInv, NEW r \in Requests, Consume(r)
    PROVE  RInv'
<1> DEFINE next == IF req[r].op = "login" THEN "verify" ELSE "write"
           held == OnRecord(req[r].ch)
<1>1. /\ Move(r, next, held) /\ UNCHANGED <<rows, clients, added, history>>
      /\ req[r].at = "consume" /\ ChallengeFree(r, req[r].ch)
    BY DEF Consume
<1>2. Placed(req[r])
    BY DEF IInv
<1>3. req[r].op \in {"register", "login"} /\ req[r].ch \in Challenges /\ req[r].ch <= issued
    BY <1>1, <1>2 DEF Placed
<1>4. held \/ Answered(req[r].ch)
    BY <1>3 DEF RInv, ChallengeLedger
<1>5. held \in BOOLEAN /\ (req[r].op = "login" => next = "verify")
    BY DEF OnRecord
<1>6. ASSUME NEW q, q.op = req[r].op, q.at = next, q.user = req[r].user,
             q.key = req[r].key, q.ch = req[r].ch, q.count = req[r].count, q.holds = held
      PROVE  Kept(q) /\ Fresh(q) /\ \A s \in Requests \ {r} : Separate(q, req[s])
    <2>1. Kept(q)
        BY <1>4, <1>6 DEF Kept
    <2>2. Fresh(q)
        BY <1>5, <1>6 DEF Fresh
    <2>3. \A s \in Requests \ {r} : Separate(q, req[s])
        BY <1>1, <1>3, <1>6 DEF Separate, ChallengeFree, HoldsChallenge, Cascaded
    <2> QED
        BY <2>1, <2>2, <2>3
<1> HIDE DEF next, held
<1> QED
    BY <1>1, <1>5, <1>6, ReplayMoves

\* An assertion that has served does not verify against the sign_count it left behind.
LEMMA ReplayVerify ==
    ASSUME IInv, RInv, NEW r \in Requests, Verify(r)
    PROVE  RInv'
<1> DEFINE p == passkeys[req[r].key]
           q == [req[r] EXCEPT !.at = "write", !.id = p.id, !.user = p.user]
<1>1. req[r] \in Request /\ req[r].op = "login" /\ req[r].at = "verify"
    BY DEF IInv, Verify
<1>2. /\ req[r].key \in Credentials /\ req[r].count \in Counts
      /\ Completed(req[r]) \in Response
    BY <1>1, Completing
<1>3. p \in Passkey /\ p.id # 0 /\ (p.count > 0 \/ req[r].count > 0 => req[r].count > p.count)
    BY <1>2 DEF IInv, Tables, Types, Verify, Advances
<1>4. /\ q.op = "login" /\ q.at = "write" /\ q.key = req[r].key /\ q.ch = req[r].ch
      /\ q.count = req[r].count /\ q.holds = req[r].holds
    BY <1>1 DEF Request
<1>5. req' = [req EXCEPT ![r] = q] /\ UNCHANGED <<rows, clients, added, history>>
    BY DEF IInv, Verify
<1> HIDE DEF q
<1>6. Kept(q)
    BY <1>1, <1>4 DEF RInv, Kept
<1>7. Fresh(q)
    <2> SUFFICES ASSUME q.count > 0, Completed(q) \in served PROVE Completed(q).key \in lowered
        BY DEF Fresh, Excused
    <2>1. /\ Completed(q).key = req[r].key /\ Completed(q).count = req[r].count
          /\ Completed(q).type = "get"
        BY <1>4 DEF Completed
    <2>2. \/ Completed(q).key \in lowered
          \/ p.id = 0
          \/ p.count >= req[r].count
        BY <2>1 DEF RInv, CountLedger
    <2>3. p.count \in Nat /\ req[r].count \in Nat /\ req[r].count > 0
        BY <1>2, <1>3, <1>4 DEF Passkey, Counts
    <2> QED
        BY <1>3, <2>2, <2>3
<1>8. \A s \in Requests \ {r} : Separate(q, req[s])
    <2>1. \A s \in Requests \ {r} : Separate(req[r], req[s])
        BY DEF RInv
    <2> QED
        BY <1>1, <1>4, <2>1 DEF Separate, HoldsChallenge, Cascaded
<1> QED
    BY <1>5, <1>6, <1>7, <1>8, ReplayLocal

\* The statements between the verification and the commit.
LEMMA ReplayWrites ==
    ASSUME IInv, RInv, NEW r \in Requests,
           InsertPasskey(r) \/ WritePasskey(r) \/ IssueSession(r)
    PROVE  RInv'
<1> DEFINE next == IF WritePasskey(r) THEN "issue" ELSE "return"
           held == req[r].holds
<1>1. /\ Move(r, next, held) /\ UNCHANGED <<rows, clients, added, history>>
      /\ req[r].op \in {"register", "login"} /\ req[r].at \in {"write", "issue"}
      /\ next \in {"issue", "return"}
    <2>1. CASE InsertPasskey(r)
        <3>1. ~ WritePasskey(r)
            BY <2>1 DEF InsertPasskey, WritePasskey
        <3> QED
            BY <2>1, <3>1 DEF InsertPasskey
    <2>2. CASE WritePasskey(r)
        BY <2>2 DEF WritePasskey
    <2>3. CASE IssueSession(r)
        <3>1. ~ WritePasskey(r)
            BY <2>3 DEF IssueSession, WritePasskey
        <3> QED
            BY <2>3, <3>1 DEF IssueSession
    <2> QED
        BY <2>1, <2>2, <2>3
<1>2. /\ Kept(req[r]) /\ Fresh(req[r]) /\ held \in BOOLEAN
      /\ \A s \in Requests \ {r} : Separate(req[r], req[s])
    BY DEF RInv, IInv, Request
<1> HIDE DEF next
<1>3. ASSUME NEW q, q.op = req[r].op, q.at = next, q.user = req[r].user,
             q.key = req[r].key, q.ch = req[r].ch, q.count = req[r].count, q.holds = held
      PROVE  Kept(q) /\ Fresh(q) /\ \A s \in Requests \ {r} : Separate(q, req[s])
    <2>1. Kept(q)
        BY <1>1, <1>2, <1>3 DEF Kept
    <2>2. Fresh(q)
        BY <1>1, <1>2, <1>3 DEF Fresh, Completed
    <2>3. \A s \in Requests \ {r} : Separate(q, req[s])
        BY <1>1, <1>2, <1>3 DEF Separate, HoldsChallenge, Cascaded
    <2> QED
        BY <2>1, <2>2, <2>3
<1> HIDE DEF held
<1> QED
    BY <1>1, <1>2, <1>3, ReplayMoves

LEMMA ReplayDeletes ==
    ASSUME IInv, RInv, NEW r \in Requests, DeletePasskey(r) \/ LockAccount(r)
    PROVE  RInv'
<1>1. CASE DeletePasskey(r)
    <2> DEFINE held == passkeys[req[r].key].id = req[r].id
    <2>1. /\ Move(r, "return", held) /\ UNCHANGED <<rows, clients, added, history>>
          /\ req[r].op = "remove" /\ held \in BOOLEAN
        BY <1>1 DEF DeletePasskey
    <2> HIDE DEF held
    <2>2. ASSUME NEW q, q.op = req[r].op
          PROVE  Kept(q) /\ Fresh(q) /\ \A s : Separate(q, s)
        BY <2>1, <2>2 DEF Kept, Fresh, Separate, HoldsChallenge, Cascaded
    <2> QED
        BY <2>1, <2>2, ReplayMoves
<1>2. CASE LockAccount(r)
    <2> DEFINE held == req[r].user \in accounts
               next == IF held THEN "cascade" ELSE "return"
    <2>1. /\ Move(r, next, held) /\ UNCHANGED <<rows, clients, added, history>>
          /\ req[r].op = "erase" /\ held \in BOOLEAN
        BY <1>2 DEF LockAccount
    <2>2. ASSUME NEW q, q.op = req[r].op, q.at = next, q.holds = held
          PROVE  Kept(q) /\ Fresh(q) /\ \A s : Separate(q, s)
        BY <2>1, <2>2 DEF Kept, Fresh, Separate, HoldsChallenge, Cascaded
    <2> HIDE DEF held, next
    <2> QED
        BY <2>1, <2>2, ReplayMoves
<1> QED
    BY <1>1, <1>2

LEMMA ReplayCascade ==
    ASSUME IInv, RInv, NEW r \in Requests, Cascade(r)
    PROVE  RInv'
<1> DEFINE held == TRUE
<1>1. /\ Move(r, "return", held) /\ UNCHANGED <<rows, clients, added, history>>
      /\ req[r].op = "erase" /\ held \in BOOLEAN
      /\ \A c \in Challenges : challenges[c].user = req[r].user => ChallengeFree(r, c)
    BY DEF Cascade
<1> HIDE DEF held
<1>2. ASSUME NEW q, q.op = req[r].op, q.user = req[r].user
      PROVE  Kept(q) /\ Fresh(q) /\ \A s \in Requests \ {r} : Separate(q, req[s])
    <2>1. Kept(q) /\ Fresh(q)
        BY <1>1, <1>2 DEF Kept, Fresh
    <2>2. ASSUME NEW s \in Requests \ {r}, NEW c \in Challenges, HoldsChallenge(q, c)
          PROVE  ~ HoldsChallenge(req[s], c)
        BY <1>1, <1>2, <2>2 DEF HoldsChallenge, Cascaded, ChallengeFree
    <2> QED
        BY <2>1, <2>2 DEF Separate
<1> QED
    BY <1>1, <1>2, ReplayMoves
\* A commit: the other requests and the history keep what they rely on.
LEMMA ReplayCommits ==
    ASSUME IInv, RInv, NEW r \in Requests, End(r),
           ChallengeLedger', CountLedger', ReplayExplained',
           \A s \in Requests \ {r} : Kept(req[s])' /\ Fresh(req[s])',
           \A s \in Requests \ {r}, c \in Challenges :
               HoldsChallenge(req[s], c)' => HoldsChallenge(req[s], c)
    PROVE  RInv'
<1>1. \A s \in Requests : req'[s] = IF s = r THEN Idle ELSE req[s]
    BY DEF IInv, End
<1>2. ASSUME NEW s \in Requests PROVE (Kept(req[s]) /\ Fresh(req[s]))'
    <2>1. CASE s = r
        BY <1>1, <2>1 DEF Kept, Fresh, Idle
    <2>2. CASE s # r
        BY <2>2
    <2> QED
        BY <2>1, <2>2
<1>3. ASSUME NEW s \in Requests, NEW t \in Requests, s # t
      PROVE  Separate(req[s], req[t])'
    <2>1. CASE s = r
        BY <1>1, <2>1 DEF Separate, Idle, HoldsChallenge, Cascaded
    <2>2. CASE t = r
        BY <1>1, <2>2 DEF Separate, Idle, HoldsChallenge, Cascaded
    <2>3. CASE s # r /\ t # r
        <3>1. Separate(req[s], req[t]) /\ s \in Requests \ {r} /\ t \in Requests \ {r}
            BY <1>3, <2>3 DEF RInv
        <3> QED
            BY <3>1 DEF Separate
    <2> QED
        BY <2>1, <2>2, <2>3
<1> QED
    BY <1>2, <1>3 DEF RInv

\* The history only grows, and an excuse stays one.
LEMMA ExcusesStay ==
    ASSUME served \subseteq served', lowered \subseteq lowered', erased \subseteq erased',
           NEW s, Excused(s)
    PROVE  Excused(s)'
BY DEF Excused

\* Of two requests past the DELETE of one challenge, only one can have found it; and when
\* one of them is about to commit without having found it, the other has not either.
LEMMA OnlyHolder ==
    ASSUME IInv, RInv, NEW r \in Requests, NEW s \in Requests \ {r},
           req[r].op \in {"register", "login"}, req[r].at = "return",
           req[s].op \in {"register", "login"}, req[s].holds
    PROVE  req[s].ch # req[r].ch
<1> SUFFICES ASSUME req[s].ch = req[r].ch PROVE FALSE
    OBVIOUS
<1> DEFINE c == req[r].ch
<1>1. c \in Challenges
    BY Completing
<1>2. OnRecord(c) /\ HoldsChallenge(req[s], c)
    BY DEF RInv, Kept, HoldsChallenge
<1>3. CASE req[r].holds
    <2>1. Separate(req[r], req[s])
        BY DEF RInv
    <2> QED
        BY <1>1, <1>2, <1>3, <2>1 DEF Separate, HoldsChallenge
<1>4. CASE ~ req[r].holds
    <2>1. Answered(c)
        BY <1>4 DEF RInv, Kept
    <2> QED
        BY <1>2, <2>1 DEF Answered, RInv, ChallengeLedger, IInv, Tables, ChallengeRows
<1> QED
    BY <1>3, <1>4

\* The commit of a completion, as far as its challenge goes.
LEMMA ReplayAnswers ==
    ASSUME IInv, RInv, NEW r \in Requests, End(r),
           req[r].op \in {"register", "login"}, req[r].at = "return",
           challenges' = [challenges EXCEPT ![req[r].ch] = NoChallenge],
           served' = served \cup {Completed(req[r])},
           UNCHANGED <<accounts, clients, erased>>
    PROVE  /\ ChallengeLedger'
           /\ \A s \in Requests \ {r} : Kept(req[s])'
           /\ \A s \in Requests \ {r}, c \in Challenges :
                  HoldsChallenge(req[s], c)' => HoldsChallenge(req[s], c)
<1> DEFINE c == req[r].ch
           x == Completed(req[r])
<1>1. c \in Challenges /\ c <= issued /\ x.ch = c
    BY Completing
<1>2. challenges \in [Challenges -> Challenge]
    BY DEF IInv, Tables, Types
<1>3. challenges' = [challenges EXCEPT ![c] = NoChallenge] /\ served' = served \cup {x}
    OBVIOUS
<1> HIDE DEF c, x
<1>4. \A d \in Challenges : challenges'[d] = IF d = c THEN NoChallenge ELSE challenges[d]
    BY <1>2, <1>3
<1>5. NoChallenge.state = "gone" /\ NoChallenge.user = None
    BY DEF NoChallenge
<1>6. ChallengeLedger'
    <2>1. \A d \in Challenges : d <= issued' => OnRecord(d)' \/ Answered(d)'
        BY <1>1, <1>3, <1>4 DEF RInv, ChallengeLedger, Answered, OnRecord, clients
    <2>2. \A d \in Challenges : ~ OnRecord(d)' => challenges'[d].user = None
        BY <1>4, <1>5 DEF RInv, ChallengeLedger, OnRecord
    <2>3. \A d \in erased' : d <= issued' /\ ~ OnRecord(d)'
        <3>1. \A d \in erased : d \in Challenges
            BY DEF IInv, Tables, Types
        <3> QED
            BY <1>4, <1>5, <3>1 DEF RInv, ChallengeLedger, OnRecord, clients
    <2> QED
        BY <2>1, <2>2, <2>3 DEF ChallengeLedger
<1>7. ASSUME NEW s \in Requests \ {r} PROVE Kept(req[s])'
    <2>1. req'[s] = req[s] /\ Kept(req[s])
        BY DEF End, IInv, RInv
    <2>2. ASSUME req[s].op \in {"register", "login"}, req[s].holds PROVE OnRecord(req[s].ch)'
        <3>1. req[s].ch # c /\ req[s].ch \in Challenges
            BY <2>2, OnlyHolder, Completing DEF c
        <3> QED
            BY <1>4, <2>1, <2>2, <3>1 DEF Kept, OnRecord
    <2> QED
        BY <1>3, <2>1, <2>2 DEF Kept, Answered
<1>8. ASSUME NEW s \in Requests \ {r}, NEW d \in Challenges, HoldsChallenge(req[s], d)'
      PROVE  HoldsChallenge(req[s], d)
    <2>1. req'[s] = req[s] /\ ~ Cascaded(req[s], None)
        BY ConstAssumption DEF End, IInv, Cascaded, Placed
    <2> QED
        BY <1>4, <1>5, <1>8, <2>1 DEF HoldsChallenge, Cascaded
<1> QED
    BY <1>6, <1>7, <1>8
LEMMA ReplayCommitRegister ==
    ASSUME IInv, RInv, NEW r \in Requests, CommitRegister(r)
    PROVE  RInv'
<1> DEFINE q == req[r]
           x == Completed(req[r])
           new == [id |-> added + 1, user |-> q.user, count |-> q.count]
<1>1. /\ q.op = "register" /\ q.at = "return"
      /\ passkeys' = [passkeys EXCEPT ![q.key] = new]
      /\ challenges' = [challenges EXCEPT ![q.ch] = NoChallenge]
      /\ served' = served \cup {x}
      /\ lowered' = IF Registered(q.key) THEN lowered \cup {q.key} ELSE lowered
      /\ End(r)
      /\ UNCHANGED <<accounts, clients, regranted, erased>>
    BY DEF CommitRegister
<1>2. x.type = "create" /\ x.key = q.key
    BY <1>1 DEF Completed
<1> HIDE DEF x, new
<1>3. passkeys \in [Credentials -> Passkey] /\ served \subseteq Response /\ regranted \subseteq served
    BY DEF IInv, Tables, Types
<1>4. \A k \in Credentials : k # q.key => passkeys'[k] = passkeys[k]
    BY <1>1, <1>3
<1>5. served \subseteq served' /\ lowered \subseteq lowered' /\ erased \subseteq erased'
    BY <1>1
<1>6. CountLedger'
    <2>1. ASSUME NEW k \in Credentials, passkeys'[k].id # 0 PROVE Registered(k)'
        <3>1. CASE k = q.key
            BY <1>1, <1>2, <3>1 DEF Registered
        <3>2. CASE k # q.key
            BY <1>4, <1>5, <2>1, <3>2 DEF RInv, CountLedger, Registered
        <3> QED
            BY <3>1, <3>2
    <2>2. ASSUME NEW s \in served', s.type = "get"
          PROVE  /\ Registered(s.key)'
                 /\ \/ s.key \in lowered'
                    \/ passkeys'[s.key].id = 0
                    \/ passkeys'[s.key].count >= s.count
        <3>1. s \in served /\ s.key \in Credentials /\ Registered(s.key)
            BY <1>1, <1>2, <1>3, <2>2 DEF RInv, CountLedger, Response
        <3>2. Registered(s.key)'
            BY <1>5, <3>1 DEF Registered
        <3>3. CASE s.key = q.key
            BY <1>1, <3>1, <3>2, <3>3
        <3>4. CASE s.key # q.key
            BY <1>4, <1>5, <2>2, <3>1, <3>2, <3>4 DEF RInv, CountLedger
        <3> QED
            BY <3>3, <3>4
    <2> QED
        BY <2>1, <2>2 DEF CountLedger
<1>7. ReplayExplained'
    <2> SUFFICES ASSUME NEW s \in regranted, s.count > 0 PROVE Excused(s)'
        BY <1>1 DEF ReplayExplained, Excused
    <2>1. Excused(s)
        BY DEF RInv, ReplayExplained, Excused
    <2> QED
        BY <1>5, <2>1, ExcusesStay
<1>8. ASSUME NEW s \in Requests \ {r} PROVE Fresh(req[s])'
    <2>1. req'[s] = req[s] /\ Fresh(req[s])
        BY <1>1 DEF End, IInv, RInv
    <2> SUFFICES ASSUME req[s].op = "login", req[s].at \in {"write", "issue", "return"},
                        req[s].count > 0, Completed(req[s]) \in served'
                 PROVE  Excused(Completed(req[s]))'
        BY <2>1 DEF Fresh, Excused, Completed
    <2>2. Completed(req[s]).type = "get"
        BY DEF Completed
    <2>3. Excused(Completed(req[s]))
        BY <1>1, <1>2, <2>1, <2>2 DEF Fresh
    <2>4. \/ Completed(req[s]).key \in lowered'
          \/ Completed(req[s]).ch \in erased'
          \/ \E t \in served' : t # Completed(req[s]) /\ t.ch = Completed(req[s]).ch
        BY <1>5, <2>3 DEF Excused
    <2> QED
        BY <2>1, <2>4 DEF Excused, Completed
<1>9. /\ ChallengeLedger'
      /\ \A s \in Requests \ {r} : Kept(req[s])'
      /\ \A s \in Requests \ {r}, c \in Challenges :
             HoldsChallenge(req[s], c)' => HoldsChallenge(req[s], c)
    BY <1>1, ReplayAnswers DEF x
<1> QED
    BY <1>1, <1>6, <1>7, <1>8, <1>9, ReplayCommits

\* An assertion commits a second time only with an excuse, and leaves one to those that
\* have verified it too.
LEMMA ReplayCommitLogin ==
    ASSUME IInv, RInv, NEW r \in Requests, CommitLogin(r)
    PROVE  RInv'
<1> DEFINE q == req[r]
           x == Completed(req[r])
<1>1. /\ q.op = "login" /\ q.at = "return"
      /\ passkeys' = [passkeys EXCEPT ![q.key].count = q.count]
      /\ challenges' = [challenges EXCEPT ![q.ch] = NoChallenge]
      /\ served' = served \cup {x}
      /\ regranted' = regranted \cup (served \cap {x})
      /\ lowered' = IF q.count < passkeys[q.key].count THEN lowered \cup {q.key} ELSE lowered
      /\ End(r)
      /\ UNCHANGED <<accounts, clients, added, erased>>
    BY DEF CommitLogin
<1>2. /\ x.type = "get" /\ x.key = q.key /\ x.ch = q.ch /\ x.count = q.count
      /\ x \in Response /\ q.ch \in Challenges /\ q.key \in Credentials /\ q.count \in Nat
    BY <1>1, Completing DEF Completed, Counts
<1>3. passkeys \in [Credentials -> Passkey] /\ served \subseteq Response /\ regranted \subseteq served
    BY DEF IInv, Tables, Types
<1>4. passkeys[q.key].id # 0 /\ Kept(q) /\ Fresh(q)
    <2>1. Placed(q) /\ Locking(q) /\ Kept(q) /\ Fresh(q)
        BY DEF IInv, RInv
    <2> QED
        BY <1>1, <2>1 DEF Placed, Locking
<1> HIDE DEF x
<1>5. /\ passkeys'[q.key].count = q.count
      /\ \A k \in Credentials : passkeys'[k].id = passkeys[k].id
      /\ \A k \in Credentials : k # q.key => passkeys'[k].count = passkeys[k].count
    BY <1>1, <1>2, <1>3 DEF Passkey
<1>6. served \subseteq served' /\ lowered \subseteq lowered' /\ erased \subseteq erased'
    BY <1>1
<1>7. CountLedger'
    <2>1. ASSUME NEW k \in Credentials, passkeys'[k].id # 0 PROVE Registered(k)'
        BY <1>5, <1>6, <2>1 DEF RInv, CountLedger, Registered
    <2>2. ASSUME NEW s \in served', s.type = "get"
          PROVE  /\ Registered(s.key)'
                 /\ \/ s.key \in lowered'
                    \/ passkeys'[s.key].id = 0
                    \/ passkeys'[s.key].count >= s.count
        <3>1. CASE s = x
            BY <1>2, <1>4, <1>5, <1>6, <3>1 DEF RInv, CountLedger, Registered
        <3>2. CASE s \in served
            <4>1. s.key \in Credentials /\ s.count \in Nat /\ Registered(s.key)'
                BY <1>3, <1>6, <2>2, <3>2 DEF RInv, CountLedger, Registered, Response, Counts
            <4>2. \/ s.key \in lowered
                  \/ passkeys[s.key].id = 0
                  \/ passkeys[s.key].count >= s.count
                BY <2>2, <3>2 DEF RInv, CountLedger
            <4>3. CASE s.key # q.key
                BY <1>5, <1>6, <4>1, <4>2, <4>3
            <4>4. CASE s.key = q.key
                <5>1. passkeys[q.key].count \in Nat
                    BY <1>2, <1>3 DEF Passkey, Counts
                <5> QED
                    BY <1>1, <1>2, <1>4, <1>5, <1>6, <4>1, <4>2, <4>4, <5>1
            <4> QED
                BY <4>3, <4>4
        <3> QED
            BY <1>1, <3>1, <3>2
    <2> QED
        BY <2>1, <2>2 DEF CountLedger
<1>8. ReplayExplained'
    <2> SUFFICES ASSUME NEW s \in regranted', s.count > 0 PROVE Excused(s)'
        BY DEF ReplayExplained, Excused
    <2>1. Excused(s)
        <3>1. CASE s \in regranted
            BY <3>1 DEF RInv, ReplayExplained, Excused
        <3>2. CASE s = x /\ x \in served
            BY <1>1, <1>2, <1>4, <3>2 DEF Fresh, x
        <3> QED
            BY <1>1, <3>1, <3>2
    <2> QED
        BY <1>6, <2>1, ExcusesStay
<1>9. ASSUME NEW s \in Requests \ {r} PROVE Fresh(req[s])'
    <2> DEFINE y == Completed(req[s])
    <2>1. req'[s] = req[s] /\ Fresh(req[s]) /\ Kept(req[s]) /\ Separate(req[r], req[s])
        BY <1>1 DEF End, IInv, RInv
    <2> SUFFICES ASSUME req[s].op = "login", req[s].at \in {"write", "issue", "return"},
                        req[s].count > 0, y \in served'
                 PROVE  \/ y.key \in lowered'
                        \/ y.ch \in erased'
                        \/ \E t \in served' : t # y /\ t.ch = y.ch
        BY <2>1 DEF Fresh, Excused, Completed
    <2>2. CASE y \in served
        BY <1>6, <2>1, <2>2 DEF Fresh, Excused
    <2>3. CASE y = x /\ y \notin served
        <3>1. y.ch = q.ch /\ req[s].ch = q.ch
            BY <1>2, <2>3 DEF Completed
        <3>2. ~ req[s].holds
            BY <1>1, <3>1, OnlyHolder
        <3>3. Answered(q.ch)
            BY <2>1, <3>1, <3>2 DEF Kept
        <3> QED
            BY <1>6, <2>3, <3>1, <3>3 DEF Answered
    <2> QED
        BY <1>1, <2>2, <2>3
<1>10. /\ ChallengeLedger'
       /\ \A s \in Requests \ {r} : Kept(req[s])'
       /\ \A s \in Requests \ {r}, c \in Challenges :
              HoldsChallenge(req[s], c)' => HoldsChallenge(req[s], c)
    BY <1>1, ReplayAnswers DEF x
<1> QED
    BY <1>1, <1>7, <1>8, <1>9, <1>10, ReplayCommits
LEMMA ReplayCommitRemove ==
    ASSUME IInv, RInv, NEW r \in Requests, CommitRemove(r)
    PROVE  RInv'
<1> DEFINE q == req[r]
<1>1. /\ passkeys' = IF q.holds THEN [passkeys EXCEPT ![q.key] = NoPasskey] ELSE passkeys
      /\ End(r)
      /\ UNCHANGED <<accounts, challenges, clients, added, history>>
    BY DEF CommitRemove
<1>2. \A k \in Credentials : passkeys'[k].id = 0 \/ passkeys'[k] = passkeys[k]
    BY <1>1 DEF IInv, Tables, Types, NoPasskey
<1>3. ChallengeLedger' /\ ReplayExplained'
    BY <1>1 DEF RInv, ChallengeLedger, ReplayExplained, OnRecord, Answered, clients, history
<1>4. CountLedger'
    <2>1. \A s \in served : s.key \in Credentials
        BY DEF IInv, Tables, Types, Response
    <2> QED
        BY <1>1, <1>2, <2>1 DEF RInv, CountLedger, Registered, history
<1>5. ASSUME NEW s \in Requests \ {r} PROVE Kept(req[s])' /\ Fresh(req[s])'
    <2>1. req'[s] = req[s] /\ Kept(req[s]) /\ Fresh(req[s])
        BY <1>1 DEF End, IInv, RInv
    <2> QED
        BY <1>1, <2>1 DEF Kept, Fresh, OnRecord, Answered, Excused, Completed, history
<1>6. ASSUME NEW s \in Requests \ {r}, NEW c \in Challenges, HoldsChallenge(req[s], c)'
      PROVE  HoldsChallenge(req[s], c)
    <2>1. req'[s] = req[s]
        BY <1>1 DEF End, IInv
    <2> QED
        BY <1>1, <1>6, <2>1 DEF HoldsChallenge, Cascaded
<1> QED
    BY <1>1, <1>3, <1>4, <1>5, <1>6, ReplayCommits

LEMMA ReplayCommitErase ==
    ASSUME IInv, RInv, NEW r \in Requests, CommitErase(r)
    PROVE  RInv'
<1> DEFINE q == req[r]
           u == req[r].user
           E == {c \in Challenges : challenges[c].user = u}
<1>1. /\ q.op = "erase" /\ q.at = "return"
      /\ passkeys' = [k \in Credentials |-> IF passkeys[k].user = u THEN NoPasskey
                                                                   ELSE passkeys[k]]
      /\ challenges' = [c \in Challenges |-> IF challenges[c].user = u THEN NoChallenge
                                                                      ELSE challenges[c]]
      /\ erased' = erased \cup E
      /\ End(r)
      /\ UNCHANGED <<clients, added, served, regranted, lowered>>
    BY DEF CommitErase
<1>2. Placed(q) /\ Locking(q) /\ ChallengeRows
    BY DEF IInv, Tables
<1>3. u # None /\ NoChallenge.state = "gone" /\ NoChallenge.user = None
    BY <1>1, <1>2, ConstAssumption DEF Placed, NoChallenge
<1>4. \A k \in Credentials : passkeys'[k].id = 0 \/ passkeys'[k] = passkeys[k]
    BY <1>1 DEF NoPasskey
<1>5. \A c \in Challenges : /\ c \in E => c <= issued /\ ~ OnRecord(c)'
                            /\ c \notin E => challenges'[c] = challenges[c]
    BY <1>1, <1>2, <1>3 DEF RInv, ChallengeLedger, ChallengeRows, OnRecord
<1>6. served \subseteq served' /\ lowered \subseteq lowered' /\ erased \subseteq erased'
    BY <1>1
<1>7. ChallengeLedger'
    <2>1. \A c \in Challenges : c <= issued' => OnRecord(c)' \/ Answered(c)'
        BY <1>1, <1>5 DEF RInv, ChallengeLedger, Answered, OnRecord, clients
    <2>2. \A c \in Challenges : ~ OnRecord(c)' => challenges'[c].user = None
        BY <1>1, <1>3 DEF RInv, ChallengeLedger, OnRecord
    <2>3. \A c \in erased' : c <= issued' /\ ~ OnRecord(c)'
        <3>1. \A c \in erased : c \in Challenges
            BY DEF IInv, Tables, Types
        <3> QED
            BY <1>1, <1>5, <3>1 DEF RInv, ChallengeLedger, OnRecord, clients
    <2> QED
        BY <2>1, <2>2, <2>3 DEF ChallengeLedger
<1>8. ReplayExplained'
    <2> SUFFICES ASSUME NEW s \in regranted, s.count > 0 PROVE Excused(s)'
        BY <1>1 DEF ReplayExplained, Excused
    <2>1. Excused(s)
        BY DEF RInv, ReplayExplained, Excused
    <2> QED
        BY <1>6, <2>1, ExcusesStay
<1>9. CountLedger'
    <2>1. \A s \in served : s.key \in Credentials
        BY DEF IInv, Tables, Types, Response
    <2> QED
        BY <1>1, <1>4, <2>1 DEF RInv, CountLedger, Registered
<1>10. ASSUME NEW s \in Requests \ {r} PROVE Kept(req[s])' /\ Fresh(req[s])'
    <2>1. req'[s] = req[s] /\ Kept(req[s]) /\ Fresh(req[s]) /\ Separate(req[r], req[s])
        BY <1>1 DEF End, IInv, RInv
    <2>2. ASSUME req[s].op \in {"register", "login"}, req[s].holds PROVE OnRecord(req[s].ch)'
        <3> DEFINE c == req[s].ch
        <3>1. c \in Challenges /\ OnRecord(c) /\ HoldsChallenge(req[s], c)
            BY <2>1, <2>2, Completing DEF Kept, HoldsChallenge
        <3>2. challenges[c].user # u
            <4>1. CASE q.holds
                BY <1>1, <2>1, <3>1, <4>1 DEF Separate, HoldsChallenge, Cascaded
            <4>2. CASE ~ q.holds
                BY <1>1, <1>2, <1>3, <3>1, <4>2 DEF Locking, ChallengeRows
            <4> QED
                BY <4>1, <4>2
        <3> QED
            BY <1>1, <2>1, <3>1, <3>2 DEF OnRecord
    <2>3. Kept(req[s])'
        BY <1>1, <2>1, <2>2 DEF Kept, Answered
    <2>4. Fresh(req[s])'
        BY <1>1, <2>1 DEF Fresh, Excused, Completed
    <2> QED
        BY <2>3, <2>4
<1>11. ASSUME NEW s \in Requests \ {r}, NEW c \in Challenges, HoldsChallenge(req[s], c)'
       PROVE  HoldsChallenge(req[s], c)
    <2>1. req'[s] = req[s] /\ ~ Cascaded(req[s], None)
        BY <1>1, ConstAssumption DEF End, IInv, Cascaded, Placed
    <2> QED
        BY <1>1, <1>3, <1>11, <2>1 DEF HoldsChallenge, Cascaded
<1> QED
    BY <1>1, <1>7, <1>8, <1>9, <1>10, <1>11, ReplayCommits

-----------------------------------------------------------------------------
\* What happens outside the requests, the history untouched.
LEMMA ReplayOutside ==
    ASSUME IInv, RInv, UNCHANGED <<req, passkeys, history>>, ChallengeLedger',
           \A c \in Challenges : OnRecord(c) => OnRecord(c)',
           \A r \in Requests, c \in Challenges :
               HoldsChallenge(req[r], c)' => HoldsChallenge(req[r], c)
    PROVE  RInv'
<1>1. CountLedger' /\ ReplayExplained'
    BY DEF RInv, CountLedger, Registered, ReplayExplained, history
<1>2. ASSUME NEW r \in Requests PROVE Kept(req[r])' /\ Fresh(req[r])'
    <2>1. Kept(req[r]) /\ Fresh(req[r])
        BY DEF RInv
    <2>2. req[r].op \in {"register", "login"} => req[r].ch \in Challenges
        BY Completing
    <2>3. Kept(req[r])'
        BY <2>1, <2>2 DEF Kept, Answered, history
    <2>4. Fresh(req[r])'
        BY <2>1 DEF Fresh, Excused, Completed, history
    <2> QED
        BY <2>3, <2>4
<1>3. \A r, s \in Requests : r # s => Separate(req[r], req[s])'
    BY DEF RInv, Separate
<1> QED
    BY <1>1, <1>2, <1>3 DEF RInv

LEMMA ReplayStore ==
    ASSUME IInv, RInv, NEW u \in Accounts \cup {None}, u = None \/ Refers(u), StoreChallenge(u)
    PROVE  RInv'
<1> DEFINE n == issued + 1
           new == [state |-> "fresh", user |-> u]
<1>1. /\ issued < MaxChallenges /\ issued' = n
      /\ challenges' = [challenges EXCEPT ![n] = new]
      /\ UNCHANGED <<accounts, passkeys, counter, signed, added, req, history>>
    BY DEF StoreChallenge
<1>2. challenges \in [Challenges -> Challenge] /\ issued \in Nat
    BY DEF IInv, Tables, Types
<1>3. new.state = "fresh" /\ new.user = u
    OBVIOUS
<1> HIDE DEF new
<1>4. \A c \in Challenges : /\ c \in Nat
                            /\ challenges'[c] = IF c = n THEN new ELSE challenges[c]
    BY <1>1, <1>2 DEF Challenges
<1>5. \A c \in Challenges : OnRecord(c) => OnRecord(c)'
    BY <1>3, <1>4 DEF OnRecord
<1>6. ChallengeLedger'
    <2>1. \A c \in Challenges : c <= issued' => OnRecord(c)' \/ Answered(c)'
        BY <1>1, <1>2, <1>3, <1>4 DEF RInv, ChallengeLedger, Answered, OnRecord, history
    <2>2. \A c \in Challenges : ~ OnRecord(c)' => challenges'[c].user = None
        BY <1>3, <1>4 DEF RInv, ChallengeLedger, OnRecord
    <2>3. \A c \in erased' : c <= issued' /\ ~ OnRecord(c)'
        <3>1. \A c \in erased : c \in Challenges /\ c \in Nat /\ c <= issued
            BY <1>4 DEF IInv, Tables, Types, RInv, ChallengeLedger
        <3>2. \A c \in erased : c # n /\ c <= n
            BY <1>2, <3>1
        <3> QED
            BY <1>1, <1>4, <3>1, <3>2 DEF RInv, ChallengeLedger, OnRecord, history
    <2> QED
        BY <2>1, <2>2, <2>3 DEF ChallengeLedger
<1>7. ASSUME NEW r \in Requests, NEW c \in Challenges, HoldsChallenge(req[r], c)'
      PROVE  HoldsChallenge(req[r], c)
    <2>1. req'[r] = req[r] /\ ~ Cascaded(req[r], u)
        <3>1. ~ Cascaded(req[r], None)
            BY ConstAssumption DEF IInv, Cascaded, Placed
        <3> QED
            BY <1>1, <3>1 DEF Refers, Erasing, Cascaded
    <2> QED
        BY <1>3, <1>4, <1>7, <2>1 DEF HoldsChallenge, Cascaded
<1> QED
    BY <1>1, <1>5, <1>6, <1>7, ReplayOutside

LEMMA ReplayExpire ==
    ASSUME IInv, RInv, NEW d \in Challenges, Expire(d)
    PROVE  RInv'
<1>1. /\ challenges[d].state = "fresh"
      /\ challenges' = [challenges EXCEPT ![d].state = "expired"]
      /\ UNCHANGED <<accounts, passkeys, clients, added, req, history>>
    BY DEF Expire
<1>2. \A c \in Challenges : /\ challenges'[c].user = challenges[c].user
                            /\ OnRecord(c)' <=> OnRecord(c)
    BY <1>1 DEF IInv, Tables, Types, Challenge, OnRecord
<1>3. ChallengeLedger'
    <2>1. \A c \in erased : c \in Challenges
        BY DEF IInv, Tables, Types
    <2> QED
        BY <1>1, <1>2, <2>1 DEF RInv, ChallengeLedger, Answered, clients, history
<1>4. \A r \in Requests, c \in Challenges : HoldsChallenge(req[r], c)' => HoldsChallenge(req[r], c)
    BY <1>1, <1>2 DEF HoldsChallenge, Cascaded
<1> QED
    BY <1>1, <1>2, <1>3, <1>4, ReplayOutside

LEMMA ReplayIdle ==
    ASSUME IInv, RInv, UNCHANGED <<req, rows, issued, history>>
    PROVE  RInv'
<1>1. ChallengeLedger'
    BY DEF RInv, ChallengeLedger, OnRecord, Answered, rows, history
<1>2. /\ \A c \in Challenges : OnRecord(c) => OnRecord(c)'
      /\ \A r \in Requests, c \in Challenges :
             HoldsChallenge(req[r], c)' => HoldsChallenge(req[r], c)
    BY DEF OnRecord, HoldsChallenge, Cascaded, rows
<1> QED
    BY <1>1, <1>2, ReplayOutside DEF rows

LEMMA ReplayNext == IInv /\ RInv /\ [Next]_vars => RInv'
<1> SUFFICES ASSUME IInv, RInv, [Next]_vars PROVE RInv'
    OBVIOUS
<1>1. ASSUME NEW u \in Accounts, RegisterBegin(u) PROVE RInv'
    BY <1>1, ReplayStore DEF RegisterBegin
<1>2. ASSUME NEW u \in Accounts \cup {None}, LoginBegin(u) PROVE RInv'
    BY <1>2, ReplayStore DEF LoginBegin
<1>3. ASSUME NEW c \in Challenges, Expire(c) PROVE RInv'
    BY <1>3, ReplayExpire
<1>4. ASSUME NEW k \in Credentials, NEW c \in Challenges, Create(k, c) \/ Sign(k, c) PROVE RInv'
    BY <1>4, ReplayIdle DEF Create, Sign
<1>5. ASSUME NEW r \in Requests, Step(r) PROVE RInv'
    <2>1. ASSUME Fail(r) PROVE RInv'
        BY <2>1, ReplayUndone DEF Fail
    <2> QED
        BY <1>5, <2>1, ReplayStartSteps, ReplayConsume, ReplayVerify, ReplayWrites,
           ReplayCommitRegister, ReplayCommitLogin, ReplayDeletes, ReplayCommitRemove,
           ReplayCascade, ReplayCommitErase
           DEF Step
<1>6. CASE UNCHANGED vars
    BY <1>6, ReplayIdle DEF vars, clients
<1> QED
    BY <1>1, <1>2, <1>3, <1>4, <1>5, <1>6 DEF Next, Client

\* A replayed assertion of an authenticator that counts has one of the three excuses, for
\* any number of requests, accounts, authenticators and challenges.
THEOREM ReplaysExplained == Spec => []ReplayExplained
<1>1. Init => RInv
    BY ReplayInit
<1>2. IInv /\ RInv /\ [Next]_vars => RInv'
    BY ReplayNext
<1>3. RInv => ReplayExplained
    BY DEF RInv
<1> QED
    BY <1>1, <1>2, <1>3, Inductive, PTL DEF Spec

-----------------------------------------------------------------------------
\* One request at a time: the challenge of a completion in flight stays on record.
StillThere(r) == req[r].op \in {"register", "login"} => OnRecord(req[r].ch)

\* A completion starts with its challenge on record, and moves on with the same one.
LEMMA StaysThere ==
    ASSUME NEW r, Requests = {r}, IInv, StillThere(r), Step(r),
           ~ (CommitRegister(r) \/ CommitLogin(r) \/ CommitRemove(r) \/ CommitErase(r))
    PROVE  StillThere(r)' /\ UNCHANGED <<challenges, regranted>>
<1>1. UNCHANGED <<challenges, regranted>>
    BY DEF Step, LoginComplete, RegisterComplete, Consume, InsertPasskey, Verify, WritePasskey,
           IssueSession, EraseAccount, RemovePasskey, DeletePasskey, LockAccount, Cascade, Fail,
           rows, history
<1> SUFFICES StillThere(r)'
    BY <1>1
<1>2. req \in [Requests -> Request] /\ r \in Requests
    BY DEF IInv
<1>3. ASSUME NEW s \in signed, LoginComplete(r, s) PROVE StillThere(r)'
    BY <1>1, <1>2, <1>3 DEF LoginComplete, Start, Answerable, StillThere, OnRecord, Idle
<1>4. ASSUME NEW s \in signed, NEW u \in accounts, RegisterComplete(r, u, s)
      PROVE  StillThere(r)'
    BY <1>1, <1>2, <1>4 DEF RegisterComplete, Start, Answerable, StillThere, OnRecord, Idle
<1>5. ASSUME NEW u \in accounts,
             EraseAccount(r, u) \/ \E k \in Credentials : RemovePasskey(r, u, k)
      PROVE  StillThere(r)'
    <2>1. req'[r].op \in {"erase", "remove"}
        <3>1. CASE EraseAccount(r, u)
            BY <1>2, <3>1 DEF EraseAccount, Start, Idle
        <3>2. ASSUME NEW k \in Credentials, RemovePasskey(r, u, k)
              PROVE  req'[r].op \in {"erase", "remove"}
            BY <1>2, <3>2 DEF RemovePasskey, Start, Idle
        <3> QED
            BY <1>5, <3>1, <3>2
    <2> QED
        BY <2>1 DEF StillThere
<1>6. ASSUME NEW next, NEW held, Move(r, next, held) PROVE StillThere(r)'
    BY <1>1, <1>2, <1>6 DEF Move, StillThere, OnRecord, Request
<1>7. CASE Verify(r)
    BY <1>1, <1>2, <1>7 DEF Verify, StillThere, OnRecord, Request
<1>8. CASE Fail(r)
    <2>1. req'[r] = Idle
        BY <1>2, <1>8 DEF Fail, End
    <2> QED
        BY <2>1 DEF StillThere, OnRecord, Idle
<1>9. CASE \/ Consume(r) \/ InsertPasskey(r) \/ WritePasskey(r) \/ IssueSession(r)
          \/ DeletePasskey(r) \/ LockAccount(r) \/ Cascade(r)
    <2>1. PICK next, held : Move(r, next, held)
        <3>1. CASE Consume(r) \/ InsertPasskey(r) \/ WritePasskey(r)
            BY <3>1, Zenon DEF Consume, InsertPasskey, WritePasskey
        <3>2. CASE IssueSession(r) \/ DeletePasskey(r)
            BY <3>2, Zenon DEF IssueSession, DeletePasskey
        <3>3. CASE LockAccount(r) \/ Cascade(r)
            BY <3>3, Zenon DEF LockAccount, Cascade
        <3> QED
            BY <1>9, <3>1, <3>2, <3>3
    <2> QED
        BY <1>6, <2>1
<1> QED
    BY <1>1, <1>3, <1>4, <1>5, <1>7, <1>8, <1>9 DEF Step

\* One request at a time, no assertion signs in twice, whether its authenticator counts or
\* not: what lets ResponseGrantsOnce fail is a completion that finds its challenge before
\* another commits its deletion (_consume_challenge, api/passkeys.py:97-107).
THEOREM OneAtATime ==
    ASSUME NEW r, Requests = {r}
    PROVE  Spec => []ResponseGrantsOnce
<1>1. Init => StillThere(r) /\ ResponseGrantsOnce
    BY DEF Init, StillThere, Idle, ResponseGrantsOnce
<1>2. IInv /\ StillThere(r) /\ ResponseGrantsOnce /\ [Next]_vars
        => (StillThere(r) /\ ResponseGrantsOnce)'
    <2> SUFFICES ASSUME IInv, StillThere(r), ResponseGrantsOnce, [Next]_vars
                 PROVE  StillThere(r)' /\ ResponseGrantsOnce'
        BY DEF ResponseGrantsOnce
    <2>1. req \in [Requests -> Request] /\ r \in Requests /\ SpentChallengeGone
        BY InvariantImplies DEF IInv
    <2>2. CASE CommitLogin(r)
        <3>1. Completed(req[r]) \notin served
            BY <2>1, <2>2 DEF CommitLogin, StillThere, SpentChallengeGone, Completed
        <3>2. regranted' = {}
            BY <2>2, <3>1 DEF CommitLogin, ResponseGrantsOnce
        <3> QED
            BY <2>1, <2>2, <3>2 DEF CommitLogin, End, StillThere, Idle, ResponseGrantsOnce
    <2>3. CASE CommitRegister(r) \/ CommitRemove(r) \/ CommitErase(r)
        BY <2>1, <2>3 DEF CommitRegister, CommitRemove, CommitErase, End, StillThere, Idle,
                          ResponseGrantsOnce, history
    <2>4. CASE Step(r) /\ ~ (\/ CommitRegister(r) \/ CommitLogin(r)
                            \/ CommitRemove(r) \/ CommitErase(r))
        BY <2>4, StaysThere DEF ResponseGrantsOnce
    <2>5. ASSUME NEW u, StoreChallenge(u) PROVE StillThere(r)' /\ ResponseGrantsOnce'
        <3>1. challenges \in [Challenges -> Challenge]
            BY DEF IInv, Tables, Types
        <3>2. \A c : OnRecord(c) => OnRecord(c)'
            BY <2>5, <3>1 DEF StoreChallenge, OnRecord
        <3> QED
            BY <2>5, <3>2 DEF StoreChallenge, StillThere, ResponseGrantsOnce, history
    <2>6. ASSUME NEW c \in Challenges, Expire(c) PROVE StillThere(r)' /\ ResponseGrantsOnce'
        <3>1. challenges \in [Challenges -> Challenge]
            BY DEF IInv, Tables, Types
        <3>2. \A d \in Challenges : OnRecord(d) => OnRecord(d)'
            BY <2>6, <3>1 DEF Expire, OnRecord, Challenge
        <3>3. req[r].op \in {"register", "login"} => req[r].ch \in Challenges
            BY <2>1 DEF IInv, Placed
        <3> QED
            BY <2>6, <3>2, <3>3 DEF Expire, StillThere, ResponseGrantsOnce, history
    <2>7. ASSUME UNCHANGED <<req, challenges, regranted>>
          PROVE  StillThere(r)' /\ ResponseGrantsOnce'
        BY <2>7 DEF StillThere, OnRecord, ResponseGrantsOnce
    <2>8. ASSUME NEW k \in Credentials, NEW c \in Challenges, Create(k, c) \/ Sign(k, c)
          PROVE  StillThere(r)' /\ ResponseGrantsOnce'
        BY <2>7, <2>8 DEF Create, Sign, rows, history
    <2>9. CASE UNCHANGED vars
        BY <2>7, <2>9 DEF vars, rows, history
    <2> QED
        BY <2>2, <2>3, <2>4, <2>5, <2>6, <2>8, <2>9
           DEF Next, Client, RegisterBegin, LoginBegin
<1> QED
    BY <1>1, <1>2, Inductive, PTL DEF Spec
=============================================================================
