------------------------- MODULE MfaEnrolmentProofs -------------------------
(* Proofs about MfaEnrolment, for any number of requests, secrets, codes and *)
(* time steps.                                                               *)
EXTENDS MfaEnrolment, TLAPS

\* The steps of a request after the flush of its code, and after the flush of user_mfa by a
\* setup or of its deletion by a disable.
Took(r)   == \/ req[r].op \in {"confirm", "verify"} /\ req[r].at = "return"
             \/ req[r].op = "disable" /\ req[r].at \in {"reload", "erase", "select", "purge", "return"}
Erasing(r) == req[r].op \in {"setup", "disable"} /\ req[r].at \in {"select", "purge", "return"}

\* Which operation is at which step.
Placed(r) ==
    /\ req[r].op = "none" <=> req[r].at = "idle"
    /\ req[r].op = "setup" => req[r].at \in {"flush", "select", "purge", "return"} /\ req[r].how = "none"
    /\ req[r].op = "confirm" => req[r].at \in {"flush", "return"}
    /\ req[r].op = "verify" => req[r].at \in {"lookup", "flush", "return"}
    /\ req[r].op = "none" => ~ req[r].row /\ req[r].locked = {} /\ req[r].how = "none"

\* What is true of each request on its own: it has the locks that its steps have taken ...
Locking(r) ==
    /\ req[r].row => mfa.id = req[r].id
    /\ Erasing(r) \/ (Took(r) /\ req[r].how = "totp") => req[r].row
    /\ Took(r) /\ req[r].how = "recovery" => req[r].code \in req[r].locked \cap codes

\* ... the codes it is to delete are those on record ...
Purging(r) ==
    req[r].op \in {"setup", "disable"} =>
        /\ req[r].at \in {"purge", "return"} => req[r].stale = codes
        /\ req[r].at = "return" => req[r].stale \subseteq req[r].locked

\* ... the enrolment a code was checked with is active as long as it is there, and when it
\* is gone the recovery code presented is gone too ...
Checking(r) ==
    /\ req[r].op \in {"confirm", "verify", "disable"} => req[r].id # 0
    /\ req[r].op \in {"verify", "disable"} => (mfa.id = req[r].id => mfa.confirmed)
    /\ req[r].how = "recovery" => /\ req[r].code[1] \in shown
                                  /\ mfa.id # req[r].id => req[r].code \notin codes

\* ... and the secret it has drawn is new, and unknown until it answers.
Drawing(r) ==
    req[r].op = "setup" => /\ req[r].secret \in 1 .. drawn
                           /\ req[r].secret # mfa.id
                           /\ req[r].at # "return" => req[r].secret \notin shown

Good(r) == Placed(r) /\ Locking(r) /\ Purging(r) /\ Checking(r) /\ Drawing(r)

\* What is true of two requests: their locks are disjoint, a secret drawn is nobody else's,
\* and a code presented after its enrolment is gone is none that a setup is adding.
Apart(r, q) ==
    /\ ~ (req[r].row /\ req[q].row)
    /\ req[r].locked \cap req[q].locked = {}
    /\ req[r].op = "setup" /\ req[q].op = "setup" => req[r].secret # req[q].secret
    /\ req[r].op = "setup" => req[r].secret # req[q].id
    /\ req[r].op = "setup" /\ req[q].how = "recovery" /\ mfa.id # req[q].id
          => req[r].secret # req[q].code[1]

\* What is true of the rows.
Rows ==
    /\ CodesBelongToSecret
    /\ shown \subseteq 1 .. drawn
    /\ mfa.id \in 0 .. drawn
    /\ \A r \in Requests : req[r].id \in 0 .. drawn

IInv == /\ TypeOK /\ Rows
        /\ \A r \in Requests : Good(r)
        /\ \A r, q \in Requests : r # q => Apart(r, q)

-----------------------------------------------------------------------------
LEMMA Numbers == ASSUME NatAssumption
                 PROVE /\ VALID_WINDOW \in Nat /\ RECOVERY_CODE_COUNT \in Nat
                       /\ MaxSecrets \in Nat /\ MaxStep \in Nat
BY DEF NatAssumption

LEMMA NoRowTyped == NoRow \in MfaRow /\ NoRow.id = 0
BY Numbers, NatAssumption DEF NoRow, MfaRow

LEMMA IdleTyped == Idle \in Request
BY Numbers, NatAssumption DEF Idle, Request

\* The steps that leave the identity of the enrolment and its codes alone: what is to be
\* shown is only about the request that takes the step.
LEMMA Local ==
  ASSUME IInv, NEW r \in Requests, NEW x \in Request,
         req' = [req EXCEPT ![r] = x],
         mfa' \in MfaRow, mfa'.id = mfa.id, mfa'.secret = mfa.secret,
         mfa.confirmed => mfa'.confirmed,
         codes' = codes, spent' \subseteq codes, proven' \subseteq 0 .. MaxSecrets,
         now' \in 1 .. MaxStep,
         drawn' \in 0 .. MaxSecrets, drawn <= drawn',
         shown \subseteq shown', shown' \subseteq 1 .. drawn',
         \A q \in Requests \ {r} : req[q].op = "setup" /\ req[q].at # "return"
                                     => req[q].secret \notin shown',
         x.id \in 0 .. drawn',
         Presents(r)', Good(r)',
         \A q \in Requests \ {r} : Apart(r, q)' /\ Apart(q, r)'
  PROVE  IInv'
<1>t. /\ TypeOK /\ Rows /\ req \in [Requests -> Request] /\ drawn \in Nat /\ drawn' \in Nat
      /\ MaxSecrets \in Nat
  BY Numbers, NatAssumption DEF IInv, TypeOK
<1>r. /\ req'[r] = x
      /\ \A q \in Requests \ {r} : req'[q] = req[q]
  BY <1>t
<1>1. TypeOK'
  <2>1. req' \in [Requests -> Request]
    BY <1>t
  <2>2. \A q \in Requests : Presents(q)'
    <3>1. SUFFICES ASSUME NEW q \in Requests \ {r} PROVE Presents(q)'
      OBVIOUS
    <3>2. Presents(q)
      BY <1>t DEF TypeOK
    <3> QED BY <3>2, <1>r DEF Presents
  <2>3. shown' \subseteq Secrets /\ codes' \subseteq Recovery
    BY <1>t DEF TypeOK, Secrets
  <2> QED BY <2>1, <2>2, <2>3, <1>t DEF TypeOK
<1>2. Rows'
  <2>1. CodesBelongToSecret'
    BY <1>t DEF Rows, CodesBelongToSecret
  <2>2. \A q \in Requests : req'[q].id \in 0 .. drawn'
    BY <1>t, <1>r DEF Rows
  <2>3. mfa'.id \in 0 .. drawn'
    BY <1>t DEF Rows
  <2> QED BY <2>1, <2>2, <2>3 DEF Rows
<1>3. ASSUME NEW q \in Requests PROVE Good(q)'
  <2>1. SUFFICES ASSUME q # r PROVE Good(q)'
    OBVIOUS
  <2>2. Good(q) /\ req'[q] = req[q]
    BY <2>1, <1>r DEF IInv
  <2>3. Placed(q)'
    BY <2>2 DEF Good, Placed
  <2>4. Erasing(q)' = Erasing(q) /\ Took(q)' = Took(q)
    BY <2>2 DEF Erasing, Took
  <2>5. Locking(q)'
    BY <2>2, <2>4 DEF Good, Locking
  <2>6. Purging(q)'
    BY <2>2 DEF Good, Purging
  <2>7. Checking(q)'
    <3>1. Checking(q)
      BY <2>2 DEF Good
    <3>2. req[q].op \in {"verify", "disable"} => (mfa'.id = req[q].id => mfa'.confirmed)
      BY <3>1, Zenon DEF Checking
    <3>3. req[q].how = "recovery" => req[q].code[1] \in shown'
      BY <3>1 DEF Checking
    <3> QED BY <3>1, <3>2, <3>3, <2>2 DEF Checking
  <2>8. Drawing(q)'
    BY <2>1, <2>2, <1>t DEF Good, Drawing
  <2> QED BY <2>3, <2>5, <2>6, <2>7, <2>8 DEF Good
<1>4. ASSUME NEW p \in Requests, NEW q \in Requests, p # q PROVE Apart(p, q)'
  <2>1. CASE p = r \/ q = r
    BY <2>1, <1>4
  <2>2. CASE p # r /\ q # r
    <3>1. Apart(p, q) /\ req'[p] = req[p] /\ req'[q] = req[q]
      BY <2>2, <1>r, <1>4 DEF IInv
    <3> QED BY <3>1 DEF Apart
  <2> QED BY <2>1, <2>2
<1> QED BY <1>1, <1>2, <1>3, <1>4 DEF IInv

-----------------------------------------------------------------------------
LEMMA Starts ==
  ASSUME IInv, NEW r \in Requests, Setup(r)
  PROVE  IInv'
<1> DEFINE x == [Idle EXCEPT !.op = "setup", !.at = "flush", !.id = mfa.id, !.secret = drawn + 1]
<1>t. /\ TypeOK /\ Rows /\ drawn \in Nat /\ MaxSecrets \in Nat /\ mfa \in MfaRow
      /\ req \in [Requests -> Request] /\ mfa.id \in 0 .. MaxSecrets
  BY Numbers, NatAssumption DEF IInv, TypeOK, MfaRow
<1>x. /\ x.op = "setup" /\ x.at = "flush" /\ x.id = mfa.id /\ x.secret = drawn + 1
      /\ x.how = "none" /\ ~ x.row /\ x.locked = {}
  BY DEF Idle
<1>a. /\ drawn < MaxSecrets /\ drawn' = drawn + 1 /\ req' = [req EXCEPT ![r] = x]
      /\ UNCHANGED <<now, rows, seen>> /\ req[r].at = "idle"
  BY DEF Setup, Start
<1>u. /\ now' = now /\ mfa' = mfa /\ codes' = codes /\ spent' = spent /\ shown' = shown
      /\ proven' = proven
  BY <1>a DEF rows, seen
<1>1. x \in Request
  <2>1. drawn + 1 \in 0 .. MaxSecrets
    BY <1>t, <1>a
  <2> QED BY <2>1, <1>t, IdleTyped DEF Request
<1>r. req'[r] = x /\ \A q \in Requests \ {r} : req'[q] = req[q]
  BY <1>a, <1>t
<1> HIDE DEF x
<1>2. Presents(r)'
  BY <1>r, <1>x DEF Presents
<1>3. Good(r)'
  <2>1. Placed(r)'
    BY <1>r, <1>x DEF Placed
  <2>2. ~ Erasing(r)' /\ ~ Took(r)'
    BY <1>r, <1>x DEF Erasing, Took
  <2>3. /\ drawn + 1 \in 1 .. drawn' /\ drawn + 1 # mfa.id /\ drawn + 1 \notin shown
    BY <1>t, <1>a DEF Rows
  <2> QED BY <2>1, <2>2, <2>3, <1>r, <1>x, <1>u
          DEF Good, Locking, Purging, Checking, Drawing, Erasing
<1>4. ASSUME NEW q \in Requests \ {r} PROVE Apart(r, q)' /\ Apart(q, r)'
  <2>1. req'[q] = req[q] /\ Good(q)
    BY <1>r DEF IInv
  <2>2. /\ drawn + 1 # req[q].id
        /\ req[q].how = "recovery" => drawn + 1 # req[q].code[1]
    BY <2>1, <1>t DEF Good, Checking, Rows
  <2>3. req[q].op = "setup" => drawn + 1 # req[q].secret /\ req[q].secret # mfa.id
    BY <2>1, <1>t DEF Good, Drawing
  <2> QED BY <2>1, <2>2, <2>3, <1>r, <1>x, <1>u DEF Apart
<1>5. \A q \in Requests \ {r} : req[q].op = "setup" /\ req[q].at # "return"
                                  => req[q].secret \notin shown'
  BY <1>u DEF IInv, Good, Drawing
<1>6. /\ drawn' \in 0 .. MaxSecrets /\ drawn <= drawn' /\ shown' \subseteq 1 .. drawn'
      /\ x.id \in 0 .. drawn'
  BY <1>t, <1>a, <1>u, <1>x DEF Rows
<1>7. /\ spent' \subseteq codes /\ proven' \subseteq 0 .. MaxSecrets /\ now' \in 1 .. MaxStep
  BY <1>t, <1>u DEF TypeOK
<1> QED BY <1>t, <1>u, <1>1, <1>a, <1>2, <1>3, <1>4, <1>5, <1>6, <1>7, Local
-----------------------------------------------------------------------------
\* A step in the middle of a request: it changes its place, its locks and what it will
\* delete.
LEMMA Quiet ==
  ASSUME IInv, NEW r \in Requests, NEW x \in Request,
         req' = [req EXCEPT ![r] = x], UNCHANGED <<now, rows, drawn, seen>>,
         x.op = req[r].op, x.id = req[r].id, x.secret = req[r].secret,
         x.code = req[r].code, x.how = req[r].how,
         \A q \in Requests \ {r} : /\ ~ (x.row /\ req[q].row)
                                   /\ x.locked \cap req[q].locked = {},
         Good(r)'
  PROVE  IInv'
<1>t. /\ TypeOK /\ Rows /\ req \in [Requests -> Request] /\ mfa \in MfaRow
      /\ drawn \in Nat /\ MaxSecrets \in Nat /\ drawn \in 0 .. MaxSecrets
  BY Numbers, NatAssumption DEF IInv, TypeOK
<1>u. /\ now' = now /\ mfa' = mfa /\ codes' = codes /\ spent' = spent /\ shown' = shown
      /\ proven' = proven /\ drawn' = drawn
  BY DEF rows, seen
<1>r. req'[r] = x /\ \A q \in Requests \ {r} : req'[q] = req[q]
  BY <1>t
<1>1. Presents(r)'
  <2>1. Presents(r)
    BY <1>t DEF TypeOK
  <2> QED BY <2>1, <1>r DEF Presents
<1>2. ASSUME NEW q \in Requests \ {r} PROVE Apart(r, q)' /\ Apart(q, r)'
  <2>1. Apart(r, q) /\ Apart(q, r) /\ req'[q] = req[q]
    BY <1>r DEF IInv
  <2>2. ~ (x.row /\ req[q].row) /\ x.locked \cap req[q].locked = {}
    OBVIOUS
  <2> QED BY <2>1, <2>2, <1>r, <1>u DEF Apart
<1>3. \A q \in Requests \ {r} : req[q].op = "setup" /\ req[q].at # "return"
                                  => req[q].secret \notin shown'
  BY <1>u DEF IInv, Good, Drawing
<1>4. /\ x.id \in 0 .. drawn' /\ shown' \subseteq 1 .. drawn' /\ shown \subseteq shown'
      /\ drawn' \in 0 .. MaxSecrets /\ drawn <= drawn'
  BY <1>t, <1>u DEF Rows
<1>5. /\ spent' \subseteq codes /\ proven' \subseteq 0 .. MaxSecrets /\ now' \in 1 .. MaxStep
  BY <1>t, <1>u DEF TypeOK
<1> QED BY <1>t, <1>u, <1>1, <1>2, <1>3, <1>4, <1>5, Local

\* A request that ends and leaves the enrolment's identity and codes alone.
LEMMA Ends ==
  ASSUME IInv, NEW r \in Requests, End(r), UNCHANGED <<now, codes, drawn, shown>>,
         mfa' \in MfaRow, mfa'.id = mfa.id, mfa'.secret = mfa.secret,
         mfa.confirmed => mfa'.confirmed, spent' \subseteq codes, proven' \subseteq 0 .. MaxSecrets
  PROVE  IInv'
<1>t. /\ TypeOK /\ Rows /\ req \in [Requests -> Request]
      /\ drawn \in Nat /\ MaxSecrets \in Nat /\ drawn \in 0 .. MaxSecrets
  BY Numbers, NatAssumption DEF IInv, TypeOK
<1>i. /\ Idle.op = "none" /\ Idle.at = "idle" /\ Idle.id = 0 /\ Idle.how = "none"
      /\ ~ Idle.row /\ Idle.locked = {}
  BY DEF Idle
<1>e. req' = [req EXCEPT ![r] = Idle]
  BY DEF End
<1>r. req'[r] = Idle /\ \A q \in Requests \ {r} : req'[q] = req[q]
  BY <1>t, <1>e
<1>1. Presents(r)' /\ Good(r)'
  BY <1>r, <1>i DEF Presents, Good, Placed, Locking, Purging, Checking, Drawing, Erasing, Took
<1>2. ASSUME NEW q \in Requests \ {r} PROVE Apart(r, q)' /\ Apart(q, r)'
  <2>1. req[q].op = "setup" => req[q].secret # 0
    BY <1>t DEF IInv, Good, Drawing
  <2> QED BY <2>1, <1>r, <1>i DEF Apart
<1>3. \A q \in Requests \ {r} : req[q].op = "setup" /\ req[q].at # "return"
                                  => req[q].secret \notin shown'
  BY DEF IInv, Good, Drawing
<1>4. /\ Idle.id \in 0 .. drawn' /\ shown' \subseteq 1 .. drawn' /\ shown \subseteq shown'
      /\ drawn' \in 0 .. MaxSecrets /\ drawn <= drawn' /\ now' \in 1 .. MaxStep
  BY <1>t, <1>i DEF Rows, TypeOK
<1> QED BY <1>t, <1>e, <1>1, <1>2, <1>3, <1>4, IdleTyped, Local

\* A request that presents a code to the enrolment on record.
LEMMA Begins ==
  ASSUME IInv, NEW r \in Requests, NEW x \in Request,
         req[r].at = "idle", req' = [req EXCEPT ![r] = x], UNCHANGED <<now, rows, drawn, seen>>,
         x.op \in {"confirm", "verify", "disable"}, x.id = mfa.id, mfa.id # 0,
         \/ x.at = "flush" /\ x.how = "totp"
         \/ x.at = "lookup" /\ x.how = "recovery" /\ x.op # "confirm",
         x.op # "confirm" => mfa.confirmed,
         x.how = "recovery" => x.code[1] \in shown /\ x.code \in Recovery,
         x.how = "totp" => x.code \in Secrets \X TimeSteps,
         ~ x.row, x.locked = {}
  PROVE  IInv'
<1>t. /\ TypeOK /\ Rows /\ req \in [Requests -> Request] /\ mfa \in MfaRow
      /\ drawn \in Nat /\ MaxSecrets \in Nat /\ drawn \in 0 .. MaxSecrets
  BY Numbers, NatAssumption DEF IInv, TypeOK
<1>u. /\ now' = now /\ mfa' = mfa /\ codes' = codes /\ spent' = spent /\ shown' = shown
      /\ proven' = proven /\ drawn' = drawn
  BY DEF rows, seen
<1>r. req'[r] = x /\ \A q \in Requests \ {r} : req'[q] = req[q]
  BY <1>t
<1>1. Presents(r)'
  BY <1>r DEF Presents
<1>2. Good(r)'
  <2>1. Placed(r)'
    BY <1>r DEF Placed
  <2>2. ~ Erasing(r)' /\ ~ Took(r)'
    BY <1>r DEF Erasing, Took
  <2>3. Locking(r)' /\ Purging(r)' /\ Drawing(r)'
    BY <2>2, <1>r DEF Locking, Purging, Drawing
  <2>4. Checking(r)'
    <3>1. x.op \in {"verify", "disable"} => mfa'.confirmed
      BY <1>u, Zenon
    <3> QED BY <3>1, <1>r, <1>u DEF Checking
  <2> QED BY <2>1, <2>3, <2>4 DEF Good
<1>3. ASSUME NEW q \in Requests \ {r} PROVE Apart(r, q)' /\ Apart(q, r)'
  <2>1. Good(q) /\ req'[q] = req[q]
    BY <1>r DEF IInv
  <2>2. req[q].op = "setup" => req[q].secret # mfa.id
    BY <2>1 DEF Good, Drawing
  <2> QED BY <2>1, <2>2, <1>r, <1>u DEF Apart
<1>4. \A q \in Requests \ {r} : req[q].op = "setup" /\ req[q].at # "return"
                                  => req[q].secret \notin shown'
  BY <1>u DEF IInv, Good, Drawing
<1>5. /\ x.id \in 0 .. drawn' /\ shown' \subseteq 1 .. drawn' /\ shown \subseteq shown'
      /\ drawn' \in 0 .. MaxSecrets /\ drawn <= drawn'
  BY <1>t, <1>u DEF Rows
<1>6. /\ spent' \subseteq codes /\ proven' \subseteq 0 .. MaxSecrets /\ now' \in 1 .. MaxStep
  BY <1>t, <1>u DEF TypeOK
<1> QED BY <1>t, <1>u, <1>1, <1>2, <1>3, <1>4, <1>5, <1>6, Local
-----------------------------------------------------------------------------
\* Facts about a request that the steps below all start from.
LEMMA Facts ==
  ASSUME IInv, NEW r \in Requests
  PROVE  /\ req \in [Requests -> Request] /\ req[r] \in Request /\ mfa \in MfaRow
         /\ codes \subseteq Recovery /\ spent \subseteq codes /\ shown \subseteq Secrets
         /\ proven \subseteq 0 .. MaxSecrets /\ now \in 1 .. MaxStep
         /\ Presents(r) /\ Placed(r) /\ Locking(r) /\ Purging(r) /\ Checking(r) /\ Drawing(r)
         /\ \A q \in Requests \ {r} : Apart(r, q) /\ Apart(q, r)
         /\ \A q \in Requests : Good(q) /\ Placed(q) /\ Locking(q) /\ Checking(q) /\ Drawing(q)
BY DEF IInv, TypeOK, Good

LEMMA SetupFlushes == ASSUME IInv, NEW r \in Requests, SetupFlush(r) PROVE IInv'
<1> DEFINE x == [req[r] EXCEPT !.at = "select", !.row = TRUE]
<1>f. /\ req[r] \in Request /\ req \in [Requests -> Request]
      /\ Placed(r) /\ Locking(r) /\ Purging(r) /\ Checking(r) /\ Drawing(r)
      /\ \A q \in Requests \ {r} : Apart(r, q)
  BY Facts
<1>1. x \in Request
  BY <1>f DEF Request
<1>x. /\ x.op = req[r].op /\ x.id = req[r].id /\ x.secret = req[r].secret /\ x.how = req[r].how
      /\ x.code = req[r].code /\ x.at = "select" /\ x.row = TRUE /\ x.locked = req[r].locked
  BY <1>f DEF Request
<1>2. req' = [req EXCEPT ![r] = x]
  BY <1>f DEF SetupFlush
<1> HIDE DEF x
<1>3. /\ req[r].op = "setup" /\ req[r].at = "flush" /\ mfa.id = req[r].id
      /\ UNCHANGED <<now, rows, drawn, seen>>
  BY DEF SetupFlush
<1>4. ASSUME NEW q \in Requests \ {r}, req[q].row PROVE FALSE
  <2>1. mfa.id = req[q].id /\ (req[q].op = "setup" \/ req[q].op = "disable" \/ req[q].id # 0)
    BY <1>4, Facts DEF Locking, Placed, Checking, Request
  <2>2. CASE req[r].id # 0
    BY <2>2, <1>4 DEF SetupFlush, RowFree
  <2>3. CASE req[r].id = 0
    <3>1. req[q].op = "setup" /\ req[q].id = 0
      BY <2>1, <2>3, <1>3, Facts DEF Checking
    <3>2. ~ InsertWaits(r)
      BY <2>3 DEF SetupFlush
    <3> QED BY <3>1, <3>2, <1>4 DEF InsertWaits
  <2> QED BY <2>2, <2>3
<1>5. Good(r)'
  <2>1. req'[r] = x /\ mfa' = mfa /\ codes' = codes /\ shown' = shown /\ drawn' = drawn
    BY <1>2, <1>3, <1>f DEF rows, seen
  <2> QED BY <2>1, <1>x, <1>3, <1>f
          DEF Good, Placed, Locking, Purging, Checking, Drawing, Took
<1>6. \A q \in Requests \ {r} : /\ ~ (x.row /\ req[q].row)
                                /\ x.locked \cap req[q].locked = {}
  BY <1>4, <1>x, <1>f DEF Apart
<1> QED BY <1>1, <1>2, <1>3, <1>x, <1>5, <1>6, Quiet

LEMMA SelectsCodes == ASSUME IInv, NEW r \in Requests, SelectCodes(r) PROVE IInv'
<1> DEFINE x == [req[r] EXCEPT !.at = "purge", !.stale = codes]
<1>f. /\ req[r] \in Request /\ req \in [Requests -> Request] /\ codes \subseteq Recovery
      /\ Placed(r) /\ Locking(r) /\ Purging(r) /\ Checking(r) /\ Drawing(r)
      /\ \A q \in Requests \ {r} : Apart(r, q)
  BY Facts
<1>1. x \in Request
  BY <1>f DEF Request
<1>x. /\ x.op = req[r].op /\ x.id = req[r].id /\ x.secret = req[r].secret /\ x.how = req[r].how
      /\ x.code = req[r].code /\ x.at = "purge" /\ x.row = req[r].row
      /\ x.locked = req[r].locked /\ x.stale = codes
  BY <1>f DEF Request
<1>2. req' = [req EXCEPT ![r] = x]
  BY <1>f DEF SelectCodes
<1> HIDE DEF x
<1>3. /\ req[r].at = "select" /\ UNCHANGED <<now, rows, drawn, seen>>
  BY DEF SelectCodes
<1>4. req[r].op \in {"setup", "disable"}
  BY <1>3, <1>f DEF Placed, Request
<1>5. Good(r)'
  <2>1. req'[r] = x /\ mfa' = mfa /\ codes' = codes /\ shown' = shown /\ drawn' = drawn
    BY <1>2, <1>3, <1>f DEF rows, seen
  <2>2. Placed(r)' /\ Drawing(r)' /\ Purging(r)'
    BY <2>1, <1>x, <1>3, <1>4, <1>f DEF Placed, Drawing, Purging
  <2>3. Locking(r)'
    BY <2>1, <1>x, <1>3, <1>4, <1>f DEF Locking, Erasing, Took
  <2>4. Checking(r)'
    BY <2>1, <1>x, <1>f DEF Checking
  <2> QED BY <2>2, <2>3, <2>4 DEF Good
<1>6. \A q \in Requests \ {r} : /\ ~ (x.row /\ req[q].row)
                                /\ x.locked \cap req[q].locked = {}
  BY <1>x, <1>f DEF Apart
<1> QED BY <1>1, <1>2, <1>3, <1>x, <1>5, <1>6, Quiet

LEMMA PurgesCodes == ASSUME IInv, NEW r \in Requests, PurgeCodes(r) PROVE IInv'
<1> DEFINE x == [req[r] EXCEPT !.at = "return", !.locked = @ \cup req[r].stale]
<1>f. /\ req[r] \in Request /\ req \in [Requests -> Request] /\ mfa \in MfaRow
      /\ codes \subseteq Recovery /\ spent \subseteq codes /\ shown \subseteq Secrets
      /\ proven \subseteq 0 .. MaxSecrets /\ now \in 1 .. MaxStep
      /\ Presents(r) /\ Placed(r) /\ Locking(r) /\ Purging(r) /\ Checking(r) /\ Drawing(r)
      /\ \A q \in Requests \ {r} : Apart(r, q) /\ Apart(q, r)
      /\ \A q \in Requests : Drawing(q)
  BY Facts
<1>t. /\ Rows /\ drawn \in Nat /\ MaxSecrets \in Nat /\ drawn \in 0 .. MaxSecrets
  BY Numbers, NatAssumption DEF IInv, TypeOK
<1>1. x \in Request
  BY <1>f DEF Request
<1>x. /\ x.op = req[r].op /\ x.id = req[r].id /\ x.secret = req[r].secret /\ x.how = req[r].how
      /\ x.code = req[r].code /\ x.at = "return" /\ x.row = req[r].row
      /\ x.locked = req[r].locked \cup req[r].stale /\ x.stale = req[r].stale
  BY <1>f DEF Request
<1>2. req' = [req EXCEPT ![r] = x]
  BY <1>f DEF PurgeCodes
<1> HIDE DEF x
<1>3. /\ req[r].at = "purge" /\ CodesFree(r, req[r].stale)
      /\ shown' = IF req[r].op = "setup" THEN shown \cup {req[r].secret} ELSE shown
      /\ now' = now /\ mfa' = mfa /\ codes' = codes /\ spent' = spent /\ proven' = proven
      /\ drawn' = drawn
  BY DEF PurgeCodes, rows
<1>4. req[r].op \in {"setup", "disable"}
  BY <1>3, <1>f DEF Placed, Request
<1>r. req'[r] = x /\ \A q \in Requests \ {r} : req'[q] = req[q]
  BY <1>2, <1>f
<1>5. Good(r)'
  <2>1. Placed(r)' /\ Drawing(r)' /\ Purging(r)'
    BY <1>r, <1>x, <1>3, <1>4, <1>f DEF Placed, Drawing, Purging
  <2>2. Locking(r)'
    BY <1>r, <1>x, <1>3, <1>4, <1>f DEF Locking, Erasing, Took
  <2>3. Checking(r)'
    BY <1>r, <1>x, <1>3, <1>f DEF Checking
  <2> QED BY <2>1, <2>2, <2>3 DEF Good
<1>6. Presents(r)'
  BY <1>r, <1>x, <1>f DEF Presents
<1>7. ASSUME NEW q \in Requests \ {r} PROVE Apart(r, q)' /\ Apart(q, r)'
  <2>1. Apart(r, q) /\ Apart(q, r) /\ req'[q] = req[q]
    BY <1>f, <1>r
  <2>2. x.locked \cap req[q].locked = {}
    BY <2>1, <1>x, <1>3 DEF Apart, CodesFree
  <2> QED BY <2>1, <2>2, <1>r, <1>x, <1>3 DEF Apart
<1>8. ASSUME NEW q \in Requests \ {r}, req[q].op = "setup", req[q].at # "return"
      PROVE req[q].secret \notin shown'
  <2>1. req[q].secret \notin shown
    BY <1>8, <1>f DEF Drawing
  <2>2. req[r].op = "setup" => req[q].secret # req[r].secret
    BY <1>8, <1>f DEF Apart
  <2> QED BY <2>1, <2>2, <1>3
<1>9. /\ x.id \in 0 .. drawn' /\ shown' \subseteq 1 .. drawn' /\ shown \subseteq shown'
      /\ drawn' \in 0 .. MaxSecrets /\ drawn <= drawn'
  <2>1. req[r].id \in 0 .. drawn /\ shown \subseteq 1 .. drawn
    BY <1>t DEF Rows
  <2>2. req[r].op = "setup" => req[r].secret \in 1 .. drawn
    BY <1>f DEF Drawing
  <2>3. shown' \subseteq 1 .. drawn' /\ shown \subseteq shown'
    BY <2>1, <2>2, <1>3
  <2>4. x.id \in 0 .. drawn' /\ drawn' \in 0 .. MaxSecrets /\ drawn <= drawn'
    BY <2>1, <1>t, <1>3, <1>x
  <2> QED BY <2>3, <2>4
<1> QED BY <1>f, <1>3, <1>1, <1>2, <1>5, <1>6, <1>7, <1>8, <1>9, Local
LEMMA Presenting == ASSUME IInv, NEW r \in Requests,
                           \/ \E code \in shown \X TimeSteps :
                                 \/ Confirm(r, code)
                                 \/ \E op \in {"verify", "disable"} : VerifyTotp(r, op, code)
                           \/ \E code \in Codes(shown), op \in {"verify", "disable"} :
                                 VerifyRecovery(r, op, code)
                    PROVE  IInv'
<1>f. /\ mfa \in MfaRow /\ shown \subseteq Secrets
  BY Facts
<1>s. Codes(shown) \subseteq Recovery /\ shown \X TimeSteps \subseteq Secrets \X TimeSteps
  BY <1>f DEF Codes, Recovery
<1>n. Recovery \subseteq Nat \X Nat /\ Secrets \X TimeSteps \subseteq Nat \X Nat
  BY Numbers, NatAssumption DEF Recovery, Codes, Secrets, TimeSteps
<1>1. ASSUME NEW code \in shown \X TimeSteps, Confirm(r, code) PROVE IInv'
  <2> DEFINE x == [Idle EXCEPT !.op = "confirm", !.at = "flush", !.id = mfa.id,
                               !.secret = mfa.secret, !.code = code, !.how = "totp"]
  <2>1. x \in Request
    BY <1>f, <1>s, <1>n, IdleTyped DEF Request, MfaRow
  <2>x. /\ x.op = "confirm" /\ x.at = "flush" /\ x.id = mfa.id /\ x.how = "totp"
        /\ x.code = code /\ ~ x.row /\ x.locked = {}
    BY DEF Idle
  <2>2. /\ req[r].at = "idle" /\ req' = [req EXCEPT ![r] = x] /\ mfa.id # 0
        /\ UNCHANGED <<now, rows, drawn, seen>>
    BY <1>1 DEF Confirm, Start
  <2> HIDE DEF x
  <2> QED BY <2>1, <2>x, <2>2, <1>s, Begins
<1>2. ASSUME NEW code \in shown \X TimeSteps, NEW op \in {"verify", "disable"},
             VerifyTotp(r, op, code)
      PROVE  IInv'
  <2> DEFINE x == [Idle EXCEPT !.op = op, !.at = "flush", !.id = mfa.id,
                               !.secret = mfa.secret, !.code = code, !.how = "totp"]
  <2>1. x \in Request
    BY <1>f, <1>s, <1>n, IdleTyped DEF Request, MfaRow
  <2>x. /\ x.op = op /\ x.at = "flush" /\ x.id = mfa.id /\ x.how = "totp"
        /\ x.code = code /\ ~ x.row /\ x.locked = {}
    BY DEF Idle
  <2>2. /\ req[r].at = "idle" /\ req' = [req EXCEPT ![r] = x] /\ mfa.id # 0 /\ mfa.confirmed
        /\ UNCHANGED <<now, rows, drawn, seen>>
    BY <1>2 DEF VerifyTotp, Start, IsActive
  <2> HIDE DEF x
  <2> QED BY <2>1, <2>x, <2>2, <1>s, Begins
<1>3. ASSUME NEW code \in Codes(shown), NEW op \in {"verify", "disable"},
             VerifyRecovery(r, op, code)
      PROVE  IInv'
  <2> DEFINE x == [Idle EXCEPT !.op = op, !.at = "lookup", !.id = mfa.id,
                               !.secret = mfa.secret, !.code = code, !.how = "recovery"]
  <2>1. x \in Request
    BY <1>f, <1>s, <1>n, IdleTyped DEF Request, MfaRow
  <2>x. /\ x.op = op /\ x.at = "lookup" /\ x.id = mfa.id /\ x.how = "recovery"
        /\ x.code = code /\ ~ x.row /\ x.locked = {}
    BY DEF Idle
  <2>2. /\ req[r].at = "idle" /\ req' = [req EXCEPT ![r] = x] /\ mfa.id # 0 /\ mfa.confirmed
        /\ UNCHANGED <<now, rows, drawn, seen>>
    BY <1>3 DEF VerifyRecovery, Start, IsActive
  <2>3. code[1] \in shown
    BY DEF Codes
  <2> HIDE DEF x
  <2> QED BY <2>1, <2>x, <2>2, <2>3, <1>s, Begins
<1> QED BY <1>1, <1>2, <1>3

LEMMA FindsRecovery == ASSUME IInv, NEW r \in Requests, FindRecovery(r) PROVE IInv'
<1> DEFINE x == [req[r] EXCEPT !.at = "flush"]
<1>f. /\ req[r] \in Request /\ req \in [Requests -> Request]
      /\ Placed(r) /\ Locking(r) /\ Purging(r) /\ Checking(r) /\ Drawing(r)
      /\ \A q \in Requests \ {r} : Apart(r, q)
  BY Facts
<1>1. x \in Request
  BY <1>f DEF Request
<1>x. /\ x.op = req[r].op /\ x.id = req[r].id /\ x.secret = req[r].secret /\ x.how = req[r].how
      /\ x.code = req[r].code /\ x.at = "flush" /\ x.row = req[r].row
      /\ x.locked = req[r].locked /\ x.stale = req[r].stale
  BY <1>f DEF Request
<1>2. req' = [req EXCEPT ![r] = x]
  BY <1>f DEF FindRecovery
<1> HIDE DEF x
<1>3. /\ req[r].at = "lookup" /\ UNCHANGED <<now, rows, drawn, seen>>
  BY DEF FindRecovery
<1>4. req[r].op \in {"verify", "disable"}
  BY <1>3, <1>f DEF Placed, Request
<1>5. Good(r)'
  <2>1. req'[r] = x /\ mfa' = mfa /\ codes' = codes /\ shown' = shown /\ drawn' = drawn
    BY <1>2, <1>3, <1>f DEF rows, seen
  <2>2. Placed(r)' /\ Drawing(r)' /\ Purging(r)'
    BY <2>1, <1>x, <1>3, <1>4, <1>f DEF Placed, Drawing, Purging
  <2>3. Locking(r)'
    BY <2>1, <1>x, <1>3, <1>4, <1>f DEF Locking, Erasing, Took
  <2>4. Checking(r)'
    BY <2>1, <1>x, <1>f DEF Checking
  <2> QED BY <2>2, <2>3, <2>4 DEF Good
<1>6. \A q \in Requests \ {r} : /\ ~ (x.row /\ req[q].row)
                                /\ x.locked \cap req[q].locked = {}
  BY <1>x, <1>f DEF Apart
<1> QED BY <1>1, <1>2, <1>3, <1>x, <1>5, <1>6, Quiet

LEMMA AcceptFlushes == ASSUME IInv, NEW r \in Requests, AcceptFlush(r) PROVE IInv'
<1> DEFINE to  == IF req[r].op = "disable" THEN "reload" ELSE "return"
           x   == [req[r] EXCEPT !.at = to, !.row = TRUE]
           y   == [req[r] EXCEPT !.at = to, !.locked = {req[r].code}]
<1>f. /\ req[r] \in Request /\ req \in [Requests -> Request] /\ Presents(r)
      /\ Placed(r) /\ Locking(r) /\ Purging(r) /\ Checking(r) /\ Drawing(r)
      /\ \A q \in Requests \ {r} : Apart(r, q)
  BY Facts
<1>3. /\ req[r].op \in {"confirm", "verify", "disable"} /\ req[r].at = "flush"
      /\ UNCHANGED <<now, rows, drawn, seen>>
  BY DEF AcceptFlush
<1>u. mfa' = mfa /\ codes' = codes /\ shown' = shown /\ drawn' = drawn
  BY <1>3 DEF rows, seen
<1>t. to \in {"reload", "return"}
  OBVIOUS
<1>4. CASE /\ req[r].how = "totp" /\ mfa.id = req[r].id /\ RowFree(r)
           /\ req' = [req EXCEPT ![r].at = to, ![r].row = TRUE]
  <2>1. x \in Request
    BY <1>f, <1>t DEF Request
  <2>x. /\ x.op = req[r].op /\ x.id = req[r].id /\ x.secret = req[r].secret
        /\ x.how = req[r].how /\ x.code = req[r].code /\ x.at = to /\ x.row = TRUE
        /\ x.locked = req[r].locked
    BY <1>f DEF Request
  <2>2. req' = [req EXCEPT ![r] = x]
    BY <1>4, <1>f
  <2> HIDE DEF x
  <2>3. req'[r] = x
    BY <2>2, <1>f
  <2>4. Placed(r)' /\ Drawing(r)' /\ Purging(r)'
    BY <2>3, <2>x, <1>3, <1>f DEF Placed, Drawing, Purging
  <2>5. Locking(r)'
    BY <2>3, <2>x, <1>3, <1>4, <1>u DEF Locking
  <2>6. Checking(r)'
    BY <2>3, <2>x, <1>u, <1>f DEF Checking
  <2>7. \A q \in Requests \ {r} : /\ ~ (x.row /\ req[q].row)
                                  /\ x.locked \cap req[q].locked = {}
    BY <2>x, <1>f, <1>4 DEF Apart, RowFree
  <2> QED BY <2>1, <2>2, <2>x, <2>4, <2>5, <2>6, <2>7, <1>3, Quiet DEF Good
<1>5. CASE /\ req[r].how = "recovery" /\ req[r].code \in codes /\ CodesFree(r, {req[r].code})
           /\ req' = [req EXCEPT ![r].at = to, ![r].locked = {req[r].code}]
  <2>1. y \in Request
    BY <1>f, <1>t, <1>5 DEF Request, Presents
  <2>x. /\ y.op = req[r].op /\ y.id = req[r].id /\ y.secret = req[r].secret
        /\ y.how = req[r].how /\ y.code = req[r].code /\ y.at = to /\ y.row = req[r].row
        /\ y.locked = {req[r].code}
    BY <1>f DEF Request
  <2>2. req' = [req EXCEPT ![r] = y]
    BY <1>5, <1>f
  <2> HIDE DEF y
  <2>3. req'[r] = y
    BY <2>2, <1>f
  <2>4. Placed(r)' /\ Drawing(r)' /\ Purging(r)'
    BY <2>3, <2>x, <1>3, <1>f DEF Placed, Drawing, Purging
  <2>5. Locking(r)'
    BY <2>3, <2>x, <1>3, <1>5, <1>u, <1>f DEF Locking, Erasing, Took
  <2>6. Checking(r)'
    BY <2>3, <2>x, <1>u, <1>f DEF Checking
  <2>7. \A q \in Requests \ {r} : /\ ~ (y.row /\ req[q].row)
                                  /\ y.locked \cap req[q].locked = {}
    BY <2>x, <1>f, <1>5 DEF Apart, CodesFree
  <2> QED BY <2>1, <2>2, <2>x, <2>4, <2>5, <2>6, <2>7, <1>3, Quiet DEF Good
<1> QED BY <1>4, <1>5 DEF AcceptFlush
LEMMA Reloads == ASSUME IInv, NEW r \in Requests, DisableReload(r) PROVE IInv'
<1> DEFINE x == [req[r] EXCEPT !.at = "erase", !.id = mfa.id]
<1>f. /\ req[r] \in Request /\ req \in [Requests -> Request] /\ mfa \in MfaRow /\ Presents(r)
      /\ Placed(r) /\ Locking(r) /\ Purging(r) /\ Checking(r) /\ Drawing(r)
      /\ \A q \in Requests \ {r} : Apart(r, q)
  BY Facts
<1>3. /\ req[r].op = "disable" /\ req[r].at = "reload" /\ UNCHANGED <<now, rows, drawn, seen>>
  BY DEF DisableReload
<1>4. mfa.id = req[r].id
  <2>1. CASE req[r].how = "totp"
    BY <2>1, <1>3, <1>f DEF Locking, Took
  <2>2. CASE req[r].how = "recovery"
    BY <2>2, <1>3, <1>f DEF Locking, Took, Checking
  <2> QED BY <2>1, <2>2, <1>3, <1>f DEF Presents, Request
<1>1. x \in Request
  BY <1>f, <1>4 DEF Request, MfaRow
<1>x. /\ x.op = req[r].op /\ x.id = req[r].id /\ x.secret = req[r].secret /\ x.how = req[r].how
      /\ x.code = req[r].code /\ x.at = "erase" /\ x.row = req[r].row
      /\ x.locked = req[r].locked /\ x.stale = req[r].stale
  BY <1>f, <1>4 DEF Request
<1>2. req' = [req EXCEPT ![r] = x]
  BY <1>f DEF DisableReload
<1> HIDE DEF x
<1>5. Good(r)'
  <2>1. req'[r] = x /\ mfa' = mfa /\ codes' = codes /\ shown' = shown /\ drawn' = drawn
    BY <1>2, <1>3, <1>f DEF rows, seen
  <2>2. Placed(r)' /\ Drawing(r)' /\ Purging(r)'
    BY <2>1, <1>x, <1>3, <1>f DEF Placed, Drawing, Purging
  <2>3. Locking(r)'
    BY <2>1, <1>x, <1>3, <1>f DEF Locking, Erasing, Took
  <2>4. Checking(r)'
    BY <2>1, <1>x, <1>f DEF Checking
  <2> QED BY <2>2, <2>3, <2>4 DEF Good
<1>6. \A q \in Requests \ {r} : /\ ~ (x.row /\ req[q].row)
                                /\ x.locked \cap req[q].locked = {}
  BY <1>x, <1>f DEF Apart
<1> QED BY <1>1, <1>2, <1>3, <1>x, <1>5, <1>6, Quiet

LEMMA Erases == ASSUME IInv, NEW r \in Requests, DisableErase(r) PROVE IInv'
<1> DEFINE x == [req[r] EXCEPT !.at = "select", !.row = (mfa.id = req[r].id)]
<1>f. /\ req[r] \in Request /\ req \in [Requests -> Request] /\ Presents(r)
      /\ Placed(r) /\ Locking(r) /\ Purging(r) /\ Checking(r) /\ Drawing(r)
      /\ \A q \in Requests \ {r} : Apart(r, q)
  BY Facts
<1>3. /\ req[r].op = "disable" /\ req[r].at = "erase" /\ UNCHANGED <<now, rows, drawn, seen>>
      /\ RowFree(r)
  BY DEF DisableErase
<1>4. mfa.id = req[r].id
  <2>1. CASE req[r].how = "totp"
    BY <2>1, <1>3, <1>f DEF Locking, Took
  <2>2. CASE req[r].how = "recovery"
    BY <2>2, <1>3, <1>f DEF Locking, Took, Checking
  <2> QED BY <2>1, <2>2, <1>3, <1>f DEF Presents, Request
<1>1. x \in Request
  BY <1>f, <1>4 DEF Request
<1>x. /\ x.op = req[r].op /\ x.id = req[r].id /\ x.secret = req[r].secret /\ x.how = req[r].how
      /\ x.code = req[r].code /\ x.at = "select" /\ x.row = TRUE
      /\ x.locked = req[r].locked /\ x.stale = req[r].stale
  BY <1>f, <1>4 DEF Request
<1>2. req' = [req EXCEPT ![r] = x]
  BY <1>f DEF DisableErase
<1> HIDE DEF x
<1>5. Good(r)'
  <2>1. req'[r] = x /\ mfa' = mfa /\ codes' = codes /\ shown' = shown /\ drawn' = drawn
    BY <1>2, <1>3, <1>f DEF rows, seen
  <2>2. Placed(r)' /\ Drawing(r)' /\ Purging(r)'
    BY <2>1, <1>x, <1>3, <1>f DEF Placed, Drawing, Purging
  <2>3. Locking(r)'
    BY <2>1, <1>x, <1>3, <1>4, <1>f DEF Locking, Erasing, Took
  <2>4. Checking(r)'
    BY <2>1, <1>x, <1>f DEF Checking
  <2> QED BY <2>2, <2>3, <2>4 DEF Good
<1>6. \A q \in Requests \ {r} : /\ ~ (x.row /\ req[q].row)
                                /\ x.locked \cap req[q].locked = {}
  BY <1>x, <1>3, <1>f DEF Apart, RowFree
<1> QED BY <1>1, <1>2, <1>3, <1>x, <1>5, <1>6, Quiet

-----------------------------------------------------------------------------
\* The commits that accept a code, and the requests that end with nothing written.
LEMMA Accepts ==
  ASSUME IInv, NEW r \in Requests, CommitConfirm(r) \/ CommitVerify(r) \/ Refused(r) \/ Fail(r)
  PROVE  IInv'
<1>f. /\ req[r] \in Request /\ mfa \in MfaRow /\ codes \subseteq Recovery /\ spent \subseteq codes
      /\ proven \subseteq 0 .. MaxSecrets /\ Presents(r) /\ Placed(r) /\ Locking(r) /\ Checking(r)
      /\ Rows
  BY Facts DEF IInv
<1>1. CASE CommitConfirm(r)
  <2>1. /\ End(r) /\ UNCHANGED <<now, codes, spent, drawn, shown>>
        /\ mfa' = [mfa EXCEPT !.confirmed = TRUE, !.last = req[r].code[2]]
        /\ proven' = proven \cup {req[r].secret}
        /\ req[r].op = "confirm" /\ req[r].at = "return"
    BY <1>1 DEF CommitConfirm
  <2>2. req[r].code[2] \in 1 .. MaxStep
    BY <2>1, <1>f DEF Presents, TimeSteps
  <2>3. mfa' \in MfaRow /\ mfa'.id = mfa.id /\ mfa'.secret = mfa.secret
        /\ mfa'.confirmed = TRUE
    <3> DEFINE row == [mfa EXCEPT !.confirmed = TRUE]
    <3>1. row \in MfaRow /\ row.id = mfa.id /\ row.secret = mfa.secret /\ row.confirmed = TRUE
      BY <1>f DEF MfaRow
    <3>2. mfa' = [row EXCEPT !.last = req[r].code[2]]
      BY <2>1
    <3> HIDE DEF row
    <3> QED BY <2>2, <3>1, <3>2 DEF MfaRow
  <2>4. req[r].secret \in 0 .. MaxSecrets
    BY <1>f DEF Request
  <2>5. spent' \subseteq codes
    BY <2>1, <1>f
  <2> QED BY <2>1, <2>3, <2>4, <2>5, <1>f, Ends
<1>2. CASE CommitVerify(r)
  <2>1. /\ End(r) /\ UNCHANGED <<now, codes, drawn, shown, proven>>
        /\ mfa' = Accepted(req[r], mfa) /\ spent' = Consumed(req[r], spent)
        /\ req[r].op = "verify" /\ req[r].at = "return"
    BY <1>2 DEF CommitVerify
  <2>2. mfa' \in MfaRow /\ mfa'.id = mfa.id /\ mfa'.secret = mfa.secret
        /\ (mfa.confirmed => mfa'.confirmed)
    <3>1. CASE req[r].how = "totp" /\ mfa.id = req[r].id
      <4>1. mfa' = [mfa EXCEPT !.last = req[r].code[2]]
        BY <3>1, <2>1 DEF Accepted
      <4>2. req[r].code[2] \in 1 .. MaxStep
        BY <3>1, <1>f DEF Presents, TimeSteps
      <4>3. mfa' \in MfaRow /\ mfa'.id = mfa.id /\ mfa'.secret = mfa.secret
        BY <4>1, <4>2, <1>f DEF MfaRow
      <4>4. mfa'.confirmed = mfa.confirmed
        BY <4>1, <1>f DEF MfaRow
      <4> QED BY <4>3, <4>4
    <3>2. CASE ~ (req[r].how = "totp" /\ mfa.id = req[r].id)
      BY <3>2, <2>1, <1>f DEF Accepted
    <3> QED BY <3>1, <3>2
  <2>3. spent' \subseteq codes
    BY <2>1, <1>f DEF Consumed, Locking, Took
  <2>4. proven' \subseteq 0 .. MaxSecrets
    BY <2>1, <1>f
  <2> QED BY <2>1, <2>2, <2>3, <2>4, Ends
<1>3. CASE Refused(r) \/ Fail(r)
  <2>1. End(r) /\ UNCHANGED <<now, mfa, codes, spent, drawn, shown, proven>>
    BY <1>3 DEF Refused, Fail, rows, seen
  <2>2. mfa.confirmed => mfa'.confirmed
    BY <2>1
  <2> QED BY <2>1, <2>2, <1>f, Ends
<1> QED BY <1>1, <1>2, <1>3
-----------------------------------------------------------------------------
\* A commit that replaces the recovery codes: nobody else is past the flush of a code or of
\* the row then, so what the others have read is of the enrolment before or of one gone.
LEMMA Alone ==
  ASSUME IInv, NEW r \in Requests, Erasing(r), req[r].at = "return", NEW q \in Requests \ {r}
  PROVE  ~ req[q].row /\ ~ Erasing(q) /\ ~ Took(q)
<1>f. /\ Locking(r) /\ Purging(r) /\ Apart(r, q) /\ Locking(q) /\ Presents(q) /\ Placed(q)
      /\ req[q] \in Request
  BY Facts
<1>1. req[r].row /\ req[r].stale = codes /\ req[r].stale \subseteq req[r].locked
  BY <1>f DEF Locking, Purging, Erasing
<1>2. ~ req[q].row
  BY <1>1, <1>f DEF Apart
<1>3. ~ Erasing(q) /\ ~ (Took(q) /\ req[q].how = "totp")
  BY <1>2, <1>f DEF Locking
<1>4. ~ (Took(q) /\ req[q].how = "recovery")
  BY <1>1, <1>f DEF Locking, Apart
<1>5. Took(q) => req[q].how \in {"totp", "recovery"}
  BY <1>f DEF Took, Presents, Request
<1> QED BY <1>2, <1>3, <1>4, <1>5

\* What is left to show of such a commit.
LEMMA Replaces ==
  ASSUME IInv, NEW r \in Requests, Erasing(r), req[r].at = "return", End(r),
         UNCHANGED <<now, drawn, seen>>, mfa' \in MfaRow, mfa'.id \in 0 .. drawn,
         codes' \subseteq Recovery, spent' \subseteq codes', CodesBelongToSecret',
         \A q \in Requests \ {r} :
            /\ req[q].op \in {"verify", "disable"} => (mfa'.id = req[q].id => mfa'.confirmed)
            /\ req[q].op = "setup" => req[q].secret # mfa'.id
            /\ req[q].how = "recovery" /\ mfa'.id # req[q].id => req[q].code \notin codes',
         \A q, p \in Requests \ {r} :
            /\ req[q].op = "setup" /\ req[p].how = "recovery"
            /\ mfa'.id # req[p].id /\ mfa.id = req[p].id
            => req[q].secret # req[p].code[1]
  PROVE  IInv'
<1>t. /\ TypeOK /\ Rows /\ req \in [Requests -> Request] /\ drawn \in Nat
  BY Numbers, NatAssumption DEF IInv, TypeOK
<1>u. now' = now /\ drawn' = drawn /\ shown' = shown /\ proven' = proven
  BY DEF seen
<1>i. /\ Idle.op = "none" /\ Idle.at = "idle" /\ Idle.id = 0 /\ Idle.how = "none"
      /\ ~ Idle.row /\ Idle.locked = {}
  BY DEF Idle
<1>r. /\ req'[r] = Idle /\ \A q \in Requests \ {r} : req'[q] = req[q]
      /\ req' \in [Requests -> Request]
  BY <1>t, IdleTyped DEF End
<1>1. TypeOK'
  <2>1. ASSUME NEW q \in Requests PROVE Presents(q)'
    <3>1. CASE q = r
      BY <3>1, <1>r, <1>i DEF Presents
    <3>2. CASE q # r
      BY <3>2, <1>r, <1>t DEF Presents, TypeOK
    <3> QED BY <3>1, <3>2
  <2> QED BY <2>1, <1>t, <1>u, <1>r DEF TypeOK
<1>2. Rows'
  <2>1. \A q \in Requests : req'[q].id \in 0 .. drawn
    BY <1>r, <1>i, <1>t DEF Rows
  <2> QED BY <2>1, <1>t, <1>u DEF Rows
<1>3. ASSUME NEW q \in Requests PROVE Good(q)'
  <2>1. CASE q = r
    BY <2>1, <1>r, <1>i
       DEF Good, Placed, Locking, Purging, Checking, Drawing, Erasing, Took
  <2>2. CASE q # r
    <3>f. /\ req'[q] = req[q] /\ Placed(q) /\ Locking(q) /\ Checking(q) /\ Drawing(q)
      BY <2>2, <1>r, Facts
    <3>1. ~ req[q].row /\ ~ Erasing(q) /\ ~ Took(q)
      BY <2>2, Alone
    <3>2. Placed(q)' /\ Locking(q)'
      BY <3>f, <3>1 DEF Placed, Locking, Erasing, Took
    <3>3. Purging(q)'
      BY <3>f, <3>1 DEF Purging, Erasing
    <3>4. Drawing(q)'
      BY <3>f, <2>2, <1>u DEF Drawing
    <3>5. Checking(q)'
      <4>1. req[q].op \in {"verify", "disable"} => (mfa'.id = req[q].id => mfa'.confirmed)
        BY <2>2
      <4> QED BY <4>1, <3>f, <2>2, <1>u DEF Checking
    <3> QED BY <3>2, <3>3, <3>4, <3>5 DEF Good
  <2> QED BY <2>1, <2>2
<1>4. ASSUME NEW p \in Requests, NEW q \in Requests, p # q PROVE Apart(p, q)'
  <2>1. CASE p = r
    BY <2>1, <1>r, <1>i, <1>4 DEF Apart
  <2>2. CASE q = r
    <3>1. req'[p] = req[p] /\ (req[p].op = "setup" => req[p].secret # 0)
      BY <2>2, <1>4, <1>r, Facts DEF Drawing
    <3> QED BY <3>1, <2>2, <1>r, <1>i DEF Apart
  <2>3. CASE p # r /\ q # r
    <3>1. req'[p] = req[p] /\ req'[q] = req[q] /\ Apart(p, q)
      BY <2>3, <1>4, <1>r DEF IInv
    <3> QED BY <3>1, <2>3 DEF Apart
  <2> QED BY <2>1, <2>2, <2>3
<1> QED BY <1>1, <1>2, <1>3, <1>4 DEF IInv

LEMMA SetupCommits == ASSUME IInv, NEW r \in Requests, CommitSetup(r) PROVE IInv'
<1>f. /\ req[r] \in Request /\ mfa \in MfaRow /\ codes \subseteq Recovery
      /\ spent \subseteq codes /\ Locking(r) /\ Purging(r) /\ Drawing(r)
      /\ Rows /\ drawn \in 0 .. MaxSecrets /\ MaxSecrets \in Nat
  BY Facts, Numbers, NatAssumption DEF IInv, TypeOK
<1>1. /\ End(r) /\ UNCHANGED <<now, drawn, seen>> /\ Erasing(r) /\ req[r].at = "return"
      /\ req[r].op = "setup"
  BY DEF CommitSetup, Erasing
<1>2. /\ mfa.id = req[r].id /\ req[r].stale = codes
  BY <1>1, <1>f DEF Locking, Purging
<1>3. codes' = Codes({req[r].secret}) /\ spent' = {}
  BY <1>2, <1>f DEF CommitSetup
<1>4. req[r].secret \in 1 .. drawn /\ req[r].secret \in Secrets
  BY <1>1, <1>f DEF Drawing, Secrets
<1>5. CASE req[r].id = 0
  <2>1. mfa' = [NoRow EXCEPT !.id = req[r].secret, !.secret = req[r].secret]
    BY <1>5 DEF CommitSetup
  <2>2. mfa' \in MfaRow /\ mfa'.id = req[r].secret /\ mfa'.secret = req[r].secret
    <3>1. req[r].secret \in 0 .. MaxSecrets
      BY <1>4, <1>f DEF Secrets
    <3> QED BY <2>1, <3>1, NoRowTyped DEF MfaRow
  <2>3. CodesBelongToSecret'
    BY <2>2, <1>3, <1>4 DEF CodesBelongToSecret
  <2>4. ASSUME NEW q \in Requests \ {r}
        PROVE  /\ req[q].id # mfa'.id
               /\ req[q].op = "setup" => req[q].secret # mfa'.id
               /\ req[q].how = "recovery" => mfa.id # req[q].id /\ req[q].code \notin codes'
    <3>1. Apart(r, q) /\ Checking(q) /\ Placed(q) /\ Presents(q) /\ req[q] \in Request
      BY Facts
    <3>2. req[q].how = "recovery" => req[q].id # 0
      BY <3>1 DEF Checking, Placed, Presents, Request
    <3>3. req[q].how = "recovery" => req[q].code[1] # req[r].secret
      BY <3>1, <3>2, <1>1, <1>2, <1>5 DEF Apart
    <3> QED BY <3>1, <3>2, <3>3, <2>2, <1>1, <1>2, <1>3, <1>5 DEF Apart, Codes
  <2>5. codes' \subseteq Recovery /\ spent' \subseteq codes' /\ mfa'.id \in 0 .. drawn
    BY <2>2, <1>3, <1>4, <1>f DEF Recovery, Codes
  <2> QED BY <2>2, <2>3, <2>4, <2>5, <1>1, Replaces
<1>6. CASE req[r].id # 0
  <2>1. mfa' = [mfa EXCEPT !.secret = req[r].secret]
    BY <1>6 DEF CommitSetup
  <2>2. mfa' \in MfaRow /\ mfa'.id = mfa.id /\ mfa'.secret = req[r].secret
    BY <2>1, <1>4, <1>f, Numbers DEF MfaRow, Secrets
  <2>c. mfa'.confirmed = mfa.confirmed
    BY <2>1, <1>f DEF MfaRow
  <2>3. CodesBelongToSecret'
    BY <2>2, <1>2, <1>3, <1>6 DEF CodesBelongToSecret
  <2>4. ASSUME NEW q \in Requests \ {r}
        PROVE  /\ req[q].op \in {"verify", "disable"} => (mfa'.id = req[q].id => mfa'.confirmed)
               /\ req[q].op = "setup" => req[q].secret # mfa'.id
               /\ req[q].how = "recovery" /\ mfa'.id # req[q].id => req[q].code \notin codes'
    <3>1. Apart(r, q) /\ Checking(q) /\ Drawing(q)
      BY Facts
    <3>2. req[q].op \in {"verify", "disable"} => (mfa'.id = req[q].id => mfa'.confirmed)
      BY <3>1, <2>2, <2>c, Zenon DEF Checking
    <3>3. req[q].op = "setup" => req[q].secret # mfa'.id
      BY <3>1, <2>2 DEF Drawing
    <3>4. req[q].how = "recovery" /\ mfa'.id # req[q].id => req[q].code \notin codes'
      BY <3>1, <2>2, <1>1, <1>3 DEF Apart, Codes
    <3> QED BY <3>2, <3>3, <3>4
  <2>5. codes' \subseteq Recovery /\ spent' \subseteq codes' /\ mfa'.id \in 0 .. drawn
    BY <2>2, <1>3, <1>4, <1>f DEF Recovery, Codes, Rows
  <2> QED BY <2>2, <2>3, <2>4, <2>5, <1>1, Replaces
<1> QED BY <1>5, <1>6

LEMMA DisableCommits == ASSUME IInv, NEW r \in Requests, CommitDisable(r) PROVE IInv'
<1>f. /\ req[r] \in Request /\ mfa \in MfaRow /\ codes \subseteq Recovery
      /\ spent \subseteq codes /\ Locking(r) /\ Purging(r) /\ Presents(r)
      /\ Rows /\ drawn \in 0 .. MaxSecrets /\ MaxSecrets \in Nat
  BY Facts, Numbers, NatAssumption DEF IInv, TypeOK
<1>1. /\ End(r) /\ UNCHANGED <<now, drawn, seen>> /\ Erasing(r) /\ req[r].at = "return"
      /\ req[r].op = "disable" /\ Took(r)
  BY DEF CommitDisable, Erasing, seen, Took
<1>2. /\ mfa.id = req[r].id /\ req[r].stale = codes
  BY <1>1, <1>f DEF Locking, Purging
<1>3. mfa' = NoRow /\ codes' = {} /\ spent' \subseteq {}
  <2>1. mfa' = NoRow /\ codes' = codes \ codes /\ spent' = Consumed(req[r], spent) \ codes
    BY <1>2 DEF CommitDisable
  <2>2. Consumed(req[r], spent) \subseteq codes
    BY <1>f, <1>1 DEF Consumed, Locking
  <2> QED BY <2>1, <2>2
<1>4. mfa' \in MfaRow /\ mfa'.id = 0 /\ mfa'.id \in 0 .. drawn
  BY <1>3, <1>f, NoRowTyped
<1>5. CodesBelongToSecret'
  BY <1>3, <1>4 DEF CodesBelongToSecret
<1>6. ASSUME NEW q \in Requests \ {r}
      PROVE  /\ req[q].op \in {"verify", "disable"} => mfa'.id # req[q].id
             /\ req[q].op = "setup" => req[q].secret # mfa'.id
             /\ req[q].code \notin codes'
  BY <1>3, <1>4, Facts DEF Checking, Drawing
<1>7. ASSUME NEW q \in Requests \ {r}, NEW p \in Requests \ {r},
             req[q].op = "setup", req[p].how = "recovery"
      PROVE  req[q].secret # req[p].code[1]
  <2>1. req[q].at # "return"
    BY <1>1, <1>7, Alone DEF Erasing
  <2> QED BY <2>1, <1>7, Facts DEF Drawing, Checking
<1> QED BY <1>1, <1>3, <1>4, <1>5, <1>6, <1>7, Replaces
-----------------------------------------------------------------------------
LEMMA Initial == ASSUME Init PROVE IInv
<1>i. /\ Idle.op = "none" /\ Idle.at = "idle" /\ Idle.id = 0 /\ Idle.how = "none"
      /\ ~ Idle.row /\ Idle.locked = {}
  BY DEF Idle
<1>1. \A r \in Requests : req[r] = Idle
  BY DEF Init
<1>2. /\ req \in [Requests -> Request] /\ mfa \in MfaRow /\ mfa.id = 0
  BY IdleTyped, NoRowTyped DEF Init
<1>3. \A r \in Requests : Presents(r)
  BY <1>1, <1>i DEF Presents
<1>4. now \in 1 .. MaxStep /\ drawn \in 0 .. MaxSecrets
  BY Numbers, NatAssumption DEF Init
<1>5. TypeOK
  BY <1>2, <1>3, <1>4 DEF TypeOK, Init
<1>6. Rows
  BY <1>1, <1>2, <1>i DEF Rows, CodesBelongToSecret, Init
<1>7. \A r \in Requests : Good(r)
  BY <1>1, <1>i DEF Good, Placed, Locking, Purging, Checking, Drawing, Erasing, Took
<1>8. \A r, q \in Requests : r # q => Apart(r, q)
  BY <1>1, <1>i DEF Apart
<1> QED BY <1>5, <1>6, <1>7, <1>8 DEF IInv

LEMMA Ticks == ASSUME IInv, Tick PROVE IInv'
<1>1. /\ UNCHANGED <<mfa, codes, spent, drawn, req, shown, proven>> /\ now' \in 1 .. MaxStep
  BY Numbers, NatAssumption DEF Tick, rows, seen, IInv, TypeOK
<1>2. TypeOK' /\ Rows'
  BY <1>1 DEF IInv, TypeOK, Rows, CodesBelongToSecret, Presents
<1>3. \A r \in Requests : Good(r)'
  BY <1>1 DEF IInv, Good, Placed, Locking, Purging, Checking, Drawing, Erasing, Took
<1>4. \A r, q \in Requests : r # q => Apart(r, q)'
  BY <1>1 DEF IInv, Apart
<1> QED BY <1>2, <1>3, <1>4 DEF IInv

LEMMA Stutters == ASSUME IInv, UNCHANGED vars PROVE IInv'
<1>1. UNCHANGED <<mfa, codes, spent, drawn, req, shown, proven, now>>
  BY DEF vars
<1>2. TypeOK' /\ Rows'
  BY <1>1 DEF IInv, TypeOK, Rows, CodesBelongToSecret, Presents
<1>3. \A r \in Requests : Good(r)'
  BY <1>1 DEF IInv, Good, Placed, Locking, Purging, Checking, Drawing, Erasing, Took
<1>4. \A r, q \in Requests : r # q => Apart(r, q)'
  BY <1>1 DEF IInv, Apart
<1> QED BY <1>2, <1>3, <1>4 DEF IInv

\* The invariant the other theorems follow from: locks are exclusive, and what a request has
\* read under them, or presented, fits what is on record.
THEOREM Inductive == Spec => []IInv
<1>1. Init => IInv
  BY Initial
<1>2. IInv /\ [Next]_vars => IInv'
  <2>1. ASSUME IInv, NEW r \in Requests, Step(r) PROVE IInv'
    BY <2>1, Starts, SetupFlushes, SelectsCodes, PurgesCodes, SetupCommits, Presenting,
       FindsRecovery, AcceptFlushes, Reloads, Erases, DisableCommits, Accepts DEF Step
  <2> QED BY <2>1, Ticks, Stutters DEF Next
<1> QED BY <1>1, <1>2, PTL DEF Spec

\* Every reachable state is well typed; a code marked used is one on record.
THEOREM TypeCorrect == Spec => []TypeOK
<1>1. IInv => TypeOK
  BY DEF IInv
<1> QED BY <1>1, Inductive, PTL

\* However setups, restarts, confirmations and disables interleave, the recovery codes on
\* record are exactly those drawn with the secret on record.
THEOREM CodesMatchSecret == Spec => []CodesBelongToSecret
<1>1. IInv => CodesBelongToSecret
  BY DEF IInv, Rows
<1> QED BY <1>1, Inductive, PTL

\* A sign-in about to commit rests on the active enrolment, or the recovery code, that is on
\* record then.
THEOREM SignInOnRecord == Spec => []GrantedOnRecord
<1>1. ASSUME IInv PROVE GrantedOnRecord
  <2>1. SUFFICES ASSUME NEW r \in Requests, req[r].op = "verify", req[r].at = "return"
                 PROVE  /\ IsActive
                        /\ req[r].how = "totp" => mfa.id = req[r].id
                        /\ req[r].how = "recovery" => req[r].code \in codes
    BY DEF GrantedOnRecord
  <2>2. /\ Locking(r) /\ Checking(r) /\ Presents(r) /\ req[r] \in Request /\ Took(r)
    BY <1>1, <2>1, Facts DEF Took
  <2>3. req[r].how \in {"totp", "recovery"}
    BY <2>1, <2>2 DEF Presents, Request
  <2>4. /\ req[r].how = "totp" => mfa.id = req[r].id
        /\ req[r].how = "recovery" => req[r].code \in codes
    BY <2>2 DEF Locking
  <2>5. mfa.id = req[r].id
    BY <2>2, <2>3, <2>4 DEF Checking
  <2>6. IsActive
    BY <2>1, <2>2, <2>5 DEF Checking, IsActive
  <2> QED BY <2>4, <2>6
<1> QED BY <1>1, Inductive, PTL

\* No step but the commit of a disable turns an active second factor off.
THEOREM ActiveStaysActive == Spec => ActiveUntilDisabled
<1> DEFINE Kept == mfa'.id = mfa.id /\ mfa'.confirmed
           Off  == \E r \in Requests : req[r].op = "disable" /\ req'[r].at = "idle"
<1>1. ASSUME IInv, [Next]_vars, IsActive PROVE Kept \/ Off
  <2>m. mfa \in MfaRow /\ mfa.id # 0 /\ mfa.confirmed = TRUE
    BY <1>1 DEF IInv, TypeOK, IsActive, MfaRow
  <2>1. CASE mfa' = mfa
    BY <2>1, <2>m
  <2>2. ASSUME NEW r \in Requests, CommitSetup(r) PROVE Kept
    <3>1. mfa.id = req[r].id
      BY <1>1, <2>2, Facts DEF CommitSetup, Locking, Erasing
    <3>2. mfa' = [mfa EXCEPT !.secret = req[r].secret]
      BY <3>1, <2>2, <2>m DEF CommitSetup
    <3> QED BY <3>2, <2>m DEF MfaRow
  <2>3. ASSUME NEW r \in Requests, CommitConfirm(r) PROVE Kept
    BY <2>3, <2>m DEF CommitConfirm, MfaRow
  <2>4. ASSUME NEW r \in Requests, CommitVerify(r) PROVE Kept
    BY <2>4, <2>m DEF CommitVerify, Accepted, MfaRow
  <2>5. ASSUME NEW r \in Requests, CommitDisable(r) PROVE Off
    <3>1. req[r].op = "disable" /\ req' = [req EXCEPT ![r] = Idle]
      BY <2>5 DEF CommitDisable, End
    <3>2. req'[r].at = "idle"
      BY <3>1, <1>1, Facts DEF Idle
    <3> QED BY <3>1, <3>2
  <2>6. ASSUME NEW r \in Requests, Step(r)
        PROVE  \/ mfa' = mfa
               \/ CommitSetup(r) \/ CommitConfirm(r) \/ CommitVerify(r) \/ CommitDisable(r)
    BY <2>6 DEF Step, Setup, SetupFlush, SelectCodes, PurgeCodes, Confirm, VerifyTotp,
                VerifyRecovery, FindRecovery, AcceptFlush, DisableReload, DisableErase,
                Refused, Fail, rows
  <2>7. CASE Tick \/ UNCHANGED vars
    BY <2>7, <2>1 DEF Tick, rows, vars
  <2> QED BY <1>1, <2>1, <2>2, <2>3, <2>4, <2>5, <2>6, <2>7 DEF Next
<1>2. IInv /\ [Next]_vars => [IsActive => Kept \/ Off]_vars
  BY <1>1
<1> QED BY <1>2, Inductive, PTL DEF Spec, ActiveUntilDisabled

-----------------------------------------------------------------------------
\* Two counterexamples of the runs take two requests in flight: one at a time, neither
\* happens.  What a request has read is still so when it goes on.
StillSo(r) ==
    /\ req[r].op = "setup" => ~ IsActive
    /\ req[r].op = "confirm" => req[r].secret = mfa.secret
    /\ req[r].op \in {"verify", "disable"} =>
          /\ req[r].how = "totp" => req[r].code[2] > mfa.last
          /\ req[r].how = "recovery" /\ req[r].at # "lookup" => req[r].code \notin spent

\* A request reads what it goes on with.
LEMMA ReadsStillSo ==
  ASSUME IInv, NEW r \in Requests, StillSo(r), Step(r), UNCHANGED <<mfa, spent>>
  PROVE  StillSo(r)'
<1>t. req \in [Requests -> Request]
  BY DEF IInv, TypeOK
<1>1. CASE req' = [req EXCEPT ![r] = Idle]
  <2>1. req'[r].op = "none"
    BY <1>1, <1>t DEF Idle
  <2> QED BY <2>1 DEF StillSo
<1>2. CASE Setup(r)
  <2>1. req'[r].op = "setup" /\ ~ IsActive
    BY <1>2, <1>t DEF Setup, Start, Idle
  <2> QED BY <2>1 DEF StillSo, IsActive
<1>3. ASSUME NEW code, Confirm(r, code) PROVE StillSo(r)'
  <2>1. req'[r].op = "confirm" /\ req'[r].secret = mfa.secret
    BY <1>3, <1>t DEF Confirm, Start, Idle
  <2> QED BY <2>1 DEF StillSo
<1>4. ASSUME NEW code, NEW op \in {"verify", "disable"}, VerifyTotp(r, op, code)
      PROVE  StillSo(r)'
  <2>1. req'[r].op = op /\ req'[r].how = "totp" /\ req'[r].code = code /\ code[2] > mfa.last
    BY <1>4, <1>t DEF VerifyTotp, Start, Idle
  <2> QED BY <2>1 DEF StillSo
<1>5. ASSUME NEW code, NEW op \in {"verify", "disable"}, VerifyRecovery(r, op, code)
      PROVE  StillSo(r)'
  <2>1. req'[r].op = op /\ req'[r].how = "recovery" /\ req'[r].at = "lookup"
    BY <1>5, <1>t DEF VerifyRecovery, Start, Idle
  <2> QED BY <2>1 DEF StillSo
<1>6. CASE FindRecovery(r)
  <2>1. /\ req'[r].op = req[r].op /\ req'[r].how = req[r].how /\ req'[r].code = req[r].code
        /\ req'[r].secret = req[r].secret /\ req[r].code \notin spent
    BY <1>6, <1>t DEF FindRecovery, Request
  <2> QED BY <2>1 DEF StillSo, IsActive
<1>7. CASE \/ SetupFlush(r) \/ SelectCodes(r) \/ PurgeCodes(r) \/ AcceptFlush(r)
           \/ DisableReload(r) \/ DisableErase(r)
  <2>1. /\ req'[r].op = req[r].op /\ req'[r].how = req[r].how /\ req'[r].code = req[r].code
        /\ req'[r].secret = req[r].secret /\ req[r].at # "lookup"
    BY <1>7, <1>t DEF SetupFlush, SelectCodes, PurgeCodes, AcceptFlush, DisableReload,
                      DisableErase, Request
  <2> QED BY <2>1 DEF StillSo, IsActive
<1>8. \/ CommitSetup(r) \/ CommitConfirm(r) \/ CommitVerify(r) \/ CommitDisable(r)
      \/ Refused(r) \/ Fail(r)
      => req' = [req EXCEPT ![r] = Idle]
  BY DEF CommitSetup, CommitConfirm, CommitVerify, CommitDisable, Refused, Fail, End
<1> QED BY <1>1, <1>2, <1>3, <1>4, <1>5, <1>6, <1>7, <1>8 DEF Step

\* A commit leaves an active enrolment with a secret proven, if what it rests on is still so.
LEMMA CommitsProven ==
  ASSUME IInv, NEW r \in Requests, StillSo(r), ActiveSecretProven,
         CommitSetup(r) \/ CommitConfirm(r) \/ CommitVerify(r) \/ CommitDisable(r)
  PROVE  ActiveSecretProven' /\ StillSo(r)'
<1>t. req \in [Requests -> Request] /\ mfa \in MfaRow
  BY DEF IInv, TypeOK
<1>0. StillSo(r)'
  <2>1. req' = [req EXCEPT ![r] = Idle]
    BY DEF CommitSetup, CommitConfirm, CommitVerify, CommitDisable, End
  <2>2. req'[r].op = "none"
    BY <2>1, <1>t DEF Idle
  <2> QED BY <2>2 DEF StillSo
<1> SUFFICES ActiveSecretProven'
  BY <1>0
<1>1. CASE CommitSetup(r)
  <2>1. ~ IsActive
    BY <1>1 DEF CommitSetup, StillSo
  <2>2. CASE req[r].id = 0
    BY <1>1, <2>2 DEF CommitSetup, NoRow, ActiveSecretProven, IsActive
  <2>3. CASE req[r].id # 0
    <3>1. mfa'.id = mfa.id /\ mfa'.confirmed = mfa.confirmed
      BY <1>1, <2>3, <1>t DEF CommitSetup, MfaRow
    <3> QED BY <2>1, <3>1 DEF ActiveSecretProven, IsActive
  <2> QED BY <2>2, <2>3
<1>2. CASE CommitConfirm(r)
  <2>1. mfa'.secret = mfa.secret /\ proven' = proven \cup {req[r].secret}
    BY <1>2, <1>t DEF CommitConfirm, MfaRow
  <2>2. req[r].secret = mfa.secret
    BY <1>2 DEF CommitConfirm, StillSo
  <2> QED BY <2>1, <2>2 DEF ActiveSecretProven
<1>3. CASE CommitVerify(r)
  <2>1. /\ mfa'.secret = mfa.secret /\ mfa'.id = mfa.id /\ mfa'.confirmed = mfa.confirmed
        /\ proven' = proven
    BY <1>3, <1>t DEF CommitVerify, Accepted, MfaRow
  <2> QED BY <2>1 DEF ActiveSecretProven, IsActive
<1>4. CASE CommitDisable(r)
  <2>1. (mfa' = NoRow \/ mfa' = mfa) /\ proven' = proven
    BY <1>4 DEF CommitDisable
  <2> QED BY <2>1 DEF ActiveSecretProven, IsActive, NoRow
<1> QED BY <1>1, <1>2, <1>3, <1>4

\* One request at a time, an active enrolment's secret is one that a code was produced from
\* and no code is granted twice: only requests that read before another commits get past
\* start_enrolment's and verify_code_for_login's checks (auth/mfa_service.py:66-98, 124-163).
THEOREM OneAtATime ==
  ASSUME NEW r, Requests = {r}
  PROVE  Spec => [](ActiveSecretProven /\ CodeGrantedOnce)
<1>1. Init => StillSo(r) /\ ActiveSecretProven
  <2>1. ASSUME Init PROVE req[r].op = "none" /\ mfa.id = 0
    BY <2>1 DEF Init, Idle, NoRow
  <2> QED BY <2>1 DEF StillSo, ActiveSecretProven, IsActive
<1>2. IInv /\ StillSo(r) /\ ActiveSecretProven /\ [Next]_vars
        => (StillSo(r) /\ ActiveSecretProven)'
  <2> SUFFICES ASSUME IInv, StillSo(r), ActiveSecretProven, [Next]_vars
               PROVE  (StillSo(r) /\ ActiveSecretProven)'
    OBVIOUS
  <2>1. CASE CommitSetup(r) \/ CommitConfirm(r) \/ CommitVerify(r) \/ CommitDisable(r)
    BY <2>1, CommitsProven
  <2>2. CASE Step(r) /\ ~ (CommitSetup(r) \/ CommitConfirm(r) \/ CommitVerify(r) \/ CommitDisable(r))
    <3>1. UNCHANGED <<mfa, spent, proven>>
      BY <2>2 DEF Step, Setup, SetupFlush, SelectCodes, PurgeCodes, Confirm, VerifyTotp,
                  VerifyRecovery, FindRecovery, AcceptFlush, DisableReload, DisableErase,
                  Refused, Fail, rows, seen
    <3>2. StillSo(r)'
      BY <2>2, <3>1, ReadsStillSo
    <3> QED BY <3>1, <3>2 DEF ActiveSecretProven, IsActive
  <2>3. CASE Tick \/ UNCHANGED vars
    <3>1. UNCHANGED <<mfa, spent, proven, req>>
      BY <2>3 DEF Tick, vars, rows, seen
    <3> QED BY <3>1 DEF StillSo, ActiveSecretProven, IsActive
  <2> QED BY <2>1, <2>2, <2>3 DEF Next
<1>3. IInv /\ StillSo(r) => CodeGrantedOnce
  BY DEF StillSo, CodeGrantedOnce
<1> QED BY <1>1, <1>2, <1>3, Inductive, PTL DEF Spec
=============================================================================
