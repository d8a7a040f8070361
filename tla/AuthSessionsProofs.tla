------------------------- MODULE AuthSessionsProofs -------------------------
(* Proofs about AuthSessions, for any number of accounts, requests, sessions *)
(* and tokens and any value of the time constants.                           *)
EXTENDS AuthSessions, FiniteSetTheorems, TLAPS

-----------------------------------------------------------------------------
\* Type correctness, the requests in flight first: each action is treated on its own.

LEMMA IdleType == Idle \in Request
  BY DEF Idle, Request, Ops, Steps

LEMMA InitTypeOK == Init => TypeOK
  <1> SUFFICES ASSUME Init PROVE TypeOK
    OBVIOUS
  <1>1. req \in [Requests -> Request] /\ \A r \in Requests : Named(r)
    BY IdleType DEF Init, Named, Idle
  <1>2. session \in [Sessions -> SessionRow]
    BY DEF Init, SessionRow
  <1>. QED
    BY <1>1, <1>2, NatAssumption, FS_EmptySet DEF Init, TypeOK

\* A request that goes on to another step and holds other rows keeps its type.
LEMMA MovesOn ==
  ASSUME NEW r \in Requests, NEW at \in Steps, NEW rs \in SUBSET Sessions,
         req \in [Requests -> Request], req' = [req EXCEPT ![r].at = at, ![r].rows = rs]
  PROVE  req' \in [Requests -> Request]
  <1> DEFINE x == [req[r] EXCEPT !.at = at, !.rows = rs]
  <1>1. x \in Request
    BY DEF Request
  <1>2. req' = [req EXCEPT ![r] = x]
    OBVIOUS
  <1> HIDE DEF x
  <1>. QED
    BY <1>1, <1>2

LEMMA RequestType == TypeOK /\ [Next]_vars => req' \in [Requests -> Request]
  <1> SUFFICES ASSUME TypeOK, [Next]_vars
               PROVE  req' \in [Requests -> Request]
    OBVIOUS
  <1>t. /\ req \in [Requests -> Request] /\ now \in Nat
        /\ minted \in Nat /\ opened \in Nat
    BY NatAssumption DEF TypeOK
  <1>s. \A s \in Sessions : s \in Nat /\ session[s].user \in Accounts \cup {NoUser}
    BY NatAssumption DEF TypeOK, SessionRow, Sessions
  <1>u. \A u \in used : u.session \in Sessions /\ u.digest \in Nat
    BY DEF TypeOK, UsedRow
  <1>i. Idle \in Request
    BY IdleType
  <1>0. ASSUME UNCHANGED vars PROVE req' \in [Requests -> Request]
    BY <1>0, <1>t DEF vars
  <1>1. ASSUME Tick PROVE req' \in [Requests -> Request]
    BY <1>1, <1>t DEF Tick
  <1>2. ASSUME NEW r \in Requests, NEW a \in Accounts, Register(r, a)
        PROVE  req' \in [Requests -> Request]
    BY <1>2, <1>t, <1>i DEF Register, Start, Request, Ops, Steps
  <1>3. ASSUME NEW r \in Requests, NEW a \in Accounts, NEW m \in BOOLEAN, LoginRefused(r, a, m)
        PROVE  req' \in [Requests -> Request]
    BY <1>3, <1>t, <1>i DEF LoginRefused, Start, Request, Ops, Steps
  <1>4. ASSUME NEW r \in Requests, NEW a \in Accounts, LoginChallenged(r, a)
        PROVE  req' \in [Requests -> Request]
    BY <1>4, <1>t DEF LoginChallenged
  <1>5. ASSUME NEW r \in Requests, NEW a \in Accounts, Login(r, a)
        PROVE  req' \in [Requests -> Request]
    <2>1. /\ req' = [req EXCEPT ![r] = [Idle EXCEPT !.op = "login", !.at = "flush",
                          !.user = a, !.t = now, !.ses = opened + 1, !.new = minted + 1]]
      BY <1>5 DEF Login, Start
    <2>2. opened + 1 \in Nat /\ minted + 1 \in Nat
      BY <1>t
    <2>. QED
      BY <2>1, <2>2, <1>t, <1>i DEF Request, Ops, Steps
  <1>6. ASSUME NEW r \in Requests, NEW tok \in 1 .. minted, Refresh(r, tok)
        PROVE  req' \in [Requests -> Request]
    <2>1. req' = [req EXCEPT ![r] = [Idle EXCEPT !.op = "refresh", !.at = "select",
                                                 !.tok = tok, !.t = now]]
      BY <1>6 DEF Refresh, Start
    <2>2. tok \in Nat
      BY <1>t
    <2>. QED
      BY <2>1, <2>2, <1>t, <1>i DEF Request, Ops, Steps
  <1>7. ASSUME NEW r \in Requests, NEW u \in used, RefreshReplayed(r, u)
        PROVE  req' \in [Requests -> Request]
    <2>1. req' = [req EXCEPT ![r] = [Idle EXCEPT !.op = "replay", !.at = "flush",
                                       !.tok = u.digest, !.ses = u.session, !.t = now]]
      BY <1>7 DEF RefreshReplayed, Start
    <2>2. u.session \in Nat /\ u.digest \in Nat
      BY <1>u, <1>s
    <2>. QED
      BY <2>1, <2>2, <1>t, <1>i DEF Request, Ops, Steps
  <1>8. ASSUME NEW r \in Requests, NEW s \in Sessions, Logout(r, s)
        PROVE  req' \in [Requests -> Request]
    BY <1>8, <1>t, <1>i, <1>s DEF Logout, Start, Request, Ops, Steps
  <1>9. ASSUME NEW r \in Requests, NEW s \in Sessions, LogoutAll(r, s)
        PROVE  req' \in [Requests -> Request]
    BY <1>9, <1>t, <1>i, <1>s DEF LogoutAll, Start, Request, Ops, Steps
  <1>10. ASSUME NEW r \in Requests, NEW s \in Sessions, Delete(r, s)
        PROVE  req' \in [Requests -> Request]
    BY <1>10, <1>t, <1>i, <1>s DEF Delete, Start, Request, Ops, Steps
  <1>11. ASSUME NEW r \in Requests, NEW s \in Sessions, RefreshLoad(r, s)
        PROVE  req' \in [Requests -> Request]
    <2>1. req' = [req EXCEPT ![r].at = "flush", ![r].ses = s, ![r].new = minted + 1,
                            ![r].user = session[s].user]
      BY <1>11 DEF RefreshLoad
    <2>2. minted + 1 \in Nat /\ s \in Nat /\ session[s].user \in Accounts \cup {NoUser}
      BY <1>t, <1>s
    <2>3. [req[r] EXCEPT !.at = "flush", !.ses = s, !.new = minted + 1,
                         !.user = session[s].user] \in Request
      BY <2>2, <1>t DEF Request, Steps
    <2>. QED
      BY <2>1, <2>3, <1>t
  <1>12. ASSUME NEW r \in Requests, RefreshRejected(r) PROVE req' \in [Requests -> Request]
    BY <1>12, <1>t DEF RefreshRejected, GoTo, Request, Steps
  <1>13. ASSUME NEW r \in Requests, LogoutAllSelect(r) PROVE req' \in [Requests -> Request]
    <2>1. PICK rs \in SUBSET Sessions : req' = [req EXCEPT ![r].at = "flush", ![r].rows = rs]
      BY <1>13, Zenon DEF LogoutAllSelect
    <2>. QED
      BY <2>1, <1>t, MovesOn DEF Steps
  <1>14. ASSUME NEW r \in Requests, LoginFlush(r) PROVE req' \in [Requests -> Request]
    BY <1>14, <1>t DEF LoginFlush, GoTo, Request, Steps
  <1>15. ASSUME NEW r \in Requests, ReplayFlush(r) PROVE req' \in [Requests -> Request]
    <2>1. PICK rs \in SUBSET Sessions : req' = [req EXCEPT ![r].at = "raise", ![r].rows = rs]
      BY <1>15, Zenon DEF ReplayFlush
    <2>. QED
      BY <2>1, <1>t, MovesOn DEF Steps
  <1>16. ASSUME NEW r \in Requests, RefreshFlush(r) PROVE req' \in [Requests -> Request]
    <2>1. req' = [req EXCEPT ![r].at = "return", ![r].rows = {req[r].ses}]
      BY <1>16 DEF RefreshFlush
    <2>2. req[r].ses \in Sessions
      BY <1>16 DEF RefreshFlush, TypeOK, Named
    <2>3. [req[r] EXCEPT !.at = "return", !.rows = {req[r].ses}] \in Request
      BY <2>2, <1>t DEF Request, Steps
    <2>. QED
      BY <2>1, <2>3, <1>t
  <1>17. ASSUME NEW r \in Requests, RevokeFlush(r) PROVE req' \in [Requests -> Request]
    BY <1>17, <1>t, <1>s DEF RevokeFlush, GoTo, Request, Steps
  <1>18. ASSUME NEW r \in Requests, DeleteFlush(r) PROVE req' \in [Requests -> Request]
    <2>1. PICK rs \in SUBSET Sessions : req' = [req EXCEPT ![r].at = "return", ![r].rows = rs]
      BY <1>18, Zenon DEF DeleteFlush
    <2>. QED
      BY <2>1, <1>t, MovesOn DEF Steps
  <1>19. ASSUME NEW r \in Requests, CommitRegister(r) PROVE req' \in [Requests -> Request]
    BY <1>19, <1>t, <1>i DEF CommitRegister, End
  <1>20. ASSUME NEW r \in Requests, CommitLogin(r) PROVE req' \in [Requests -> Request]
    BY <1>20, <1>t, <1>i DEF CommitLogin, End
  <1>21. ASSUME NEW r \in Requests, CommitRefresh(r) PROVE req' \in [Requests -> Request]
    BY <1>21, <1>t, <1>i DEF CommitRefresh, End
  <1>22. ASSUME NEW r \in Requests, CommitRevoke(r) PROVE req' \in [Requests -> Request]
    BY <1>22, <1>t, <1>i DEF CommitRevoke, End
  <1>23. ASSUME NEW r \in Requests, CommitDelete(r) PROVE req' \in [Requests -> Request]
    BY <1>23, <1>t, <1>i DEF CommitDelete, End
  <1>24. ASSUME NEW r \in Requests, Rollback(r) PROVE req' \in [Requests -> Request]
    BY <1>24, <1>t, <1>i DEF Rollback, End
  <1>25. ASSUME NEW r \in Requests, Fail(r) PROVE req' \in [Requests -> Request]
    BY <1>25, <1>t, <1>i DEF Fail, End
  <1>26. ASSUME NEW r \in Requests, Conflict(r) PROVE req' \in [Requests -> Request]
    BY <1>26, <1>t DEF Conflict, GoTo, Request, Steps
  <1>. QED
    BY <1>0, <1>1, <1>2, <1>3, <1>4, <1>5, <1>6, <1>7, <1>8, <1>9, <1>10, <1>11, <1>12,
       <1>13, <1>14, <1>15, <1>16, <1>17, <1>18, <1>19, <1>20, <1>21, <1>22, <1>23, <1>24, <1>25,
       <1>26
       DEF Next, Begin, Read, Flush, Finish

LEMMA RequestSession == TypeOK /\ [Next]_vars => \A q \in Requests : Named(q)'
  <1> SUFFICES ASSUME TypeOK, [Next]_vars
               PROVE  \A q \in Requests : Named(q)'
    OBVIOUS
  <1>t. req \in [Requests -> Request] /\ opened \in 0 .. MaxSessions /\ MaxSessions \in Nat
    BY NatAssumption DEF TypeOK
  <1>n. \A q \in Requests : Named(q)
    BY DEF TypeOK, Named
  <1>u. \A u \in used : u.session \in Sessions
    BY DEF TypeOK, UsedRow
  <1> USE DEF Named
  <1>0. ASSUME UNCHANGED vars PROVE \A q \in Requests : Named(q)'
    BY <1>0, <1>n DEF vars
  <1>1. ASSUME Tick PROVE \A q \in Requests : Named(q)'
    BY <1>1, <1>t, <1>n DEF Tick, GoTo, Request
  <1>2. ASSUME NEW r \in Requests, NEW a \in Accounts, Register(r, a)
        PROVE  \A q \in Requests : Named(q)'
    BY <1>2, <1>t, <1>n, <1>u DEF Register, Start, Idle
  <1>3. ASSUME NEW r \in Requests, NEW a \in Accounts, NEW m \in BOOLEAN, LoginRefused(r, a, m)
        PROVE  \A q \in Requests : Named(q)'
    BY <1>3, <1>t, <1>n, <1>u DEF LoginRefused, Start, Idle
  <1>4. ASSUME NEW r \in Requests, NEW a \in Accounts, LoginChallenged(r, a)
        PROVE  \A q \in Requests : Named(q)'
    BY <1>4, <1>t, <1>n DEF LoginChallenged, GoTo, Request
  <1>5. ASSUME NEW r \in Requests, NEW a \in Accounts, Login(r, a)
        PROVE  \A q \in Requests : Named(q)'
    BY <1>5, <1>t, <1>n, <1>u DEF Login, Start, Idle, Sessions
  <1>6. ASSUME NEW r \in Requests, NEW tok \in 1 .. minted, Refresh(r, tok)
        PROVE  \A q \in Requests : Named(q)'
    BY <1>6, <1>t, <1>n DEF Refresh, Start, Idle
  <1>7. ASSUME NEW r \in Requests, NEW u \in used, RefreshReplayed(r, u)
        PROVE  \A q \in Requests : Named(q)'
    BY <1>7, <1>t, <1>n, <1>u DEF RefreshReplayed, Start, Idle
  <1>8. ASSUME NEW r \in Requests, NEW s \in Sessions, Logout(r, s)
        PROVE  \A q \in Requests : Named(q)'
    BY <1>8, <1>t, <1>n, <1>u DEF Logout, Start, Idle
  <1>9. ASSUME NEW r \in Requests, NEW s \in Sessions, LogoutAll(r, s)
        PROVE  \A q \in Requests : Named(q)'
    BY <1>9, <1>t, <1>n, <1>u DEF LogoutAll, Start, Idle
  <1>10. ASSUME NEW r \in Requests, NEW s \in Sessions, Delete(r, s)
        PROVE  \A q \in Requests : Named(q)'
    BY <1>10, <1>t, <1>n, <1>u DEF Delete, Start, Idle
  <1>11. ASSUME NEW r \in Requests, NEW s \in Sessions, RefreshLoad(r, s)
        PROVE  \A q \in Requests : Named(q)'
    BY <1>11, <1>t, <1>n DEF RefreshLoad, Request
  <1>12. ASSUME NEW r \in Requests, RefreshRejected(r) PROVE \A q \in Requests : Named(q)'
    BY <1>12, <1>t, <1>n DEF RefreshRejected, GoTo, Request
  <1>13. ASSUME NEW r \in Requests, LogoutAllSelect(r) PROVE \A q \in Requests : Named(q)'
    BY <1>13, <1>t, <1>n DEF LogoutAllSelect, GoTo, Request
  <1>14. ASSUME NEW r \in Requests, LoginFlush(r) PROVE \A q \in Requests : Named(q)'
    BY <1>14, <1>t, <1>n DEF LoginFlush, GoTo, Request
  <1>15. ASSUME NEW r \in Requests, ReplayFlush(r) PROVE \A q \in Requests : Named(q)'
    BY <1>15, <1>t, <1>n DEF ReplayFlush, GoTo, Request
  <1>16. ASSUME NEW r \in Requests, RefreshFlush(r) PROVE \A q \in Requests : Named(q)'
    BY <1>16, <1>t, <1>n DEF RefreshFlush, GoTo, Request
  <1>17. ASSUME NEW r \in Requests, RevokeFlush(r) PROVE \A q \in Requests : Named(q)'
    BY <1>17, <1>t, <1>n DEF RevokeFlush, GoTo, Request
  <1>18. ASSUME NEW r \in Requests, DeleteFlush(r) PROVE \A q \in Requests : Named(q)'
    BY <1>18, <1>t, <1>n DEF DeleteFlush, GoTo, Request
  <1>19. ASSUME NEW r \in Requests, CommitRegister(r) PROVE \A q \in Requests : Named(q)'
    BY <1>19, <1>t, <1>n DEF CommitRegister, End, Idle
  <1>20. ASSUME NEW r \in Requests, CommitLogin(r) PROVE \A q \in Requests : Named(q)'
    BY <1>20, <1>t, <1>n DEF CommitLogin, End, Idle
  <1>21. ASSUME NEW r \in Requests, CommitRefresh(r) PROVE \A q \in Requests : Named(q)'
    BY <1>21, <1>t, <1>n DEF CommitRefresh, End, Idle
  <1>22. ASSUME NEW r \in Requests, CommitRevoke(r) PROVE \A q \in Requests : Named(q)'
    BY <1>22, <1>t, <1>n DEF CommitRevoke, End, Idle
  <1>23. ASSUME NEW r \in Requests, CommitDelete(r) PROVE \A q \in Requests : Named(q)'
    BY <1>23, <1>t, <1>n DEF CommitDelete, End, Idle
  <1>24. ASSUME NEW r \in Requests, Rollback(r) PROVE \A q \in Requests : Named(q)'
    BY <1>24, <1>t, <1>n DEF Rollback, End, Idle
  <1>25. ASSUME NEW r \in Requests, Fail(r) PROVE \A q \in Requests : Named(q)'
    BY <1>25, <1>t, <1>n DEF Fail, End, Idle
  <1>26. ASSUME NEW r \in Requests, Conflict(r) PROVE \A q \in Requests : Named(q)'
    BY <1>26, <1>t, <1>n DEF Conflict, GoTo, Request
  <1>. QED
    BY <1>0, <1>1, <1>2, <1>3, <1>4, <1>5, <1>6, <1>7, <1>8, <1>9, <1>10, <1>11, <1>12,
       <1>13, <1>14, <1>15, <1>16, <1>17, <1>18, <1>19, <1>20, <1>21, <1>22, <1>23, <1>24, <1>25,
       <1>26
       DEF Next, Begin, Read, Flush, Finish

LEMMA StepTypeOK == TypeOK /\ [Next]_vars => TypeOK'
  <1> SUFFICES ASSUME TypeOK, [Next]_vars
               PROVE  TypeOK'
    OBVIOUS
  <1>r. req' \in [Requests -> Request] /\ \A q \in Requests : Named(q)'
    BY RequestType, RequestSession
  <1> USE NatAssumption, <1>r DEF TypeOK, Named, tables, tokens
  <1>0. ASSUME UNCHANGED vars PROVE TypeOK'
    BY <1>0 DEF vars
  <1>1. ASSUME Tick PROVE TypeOK'
    BY <1>1 DEF Tick
  <1>2. ASSUME NEW r \in Requests, NEW a \in Accounts, Register(r, a) PROVE TypeOK'
    BY <1>2 DEF Register
  <1>3. ASSUME NEW r \in Requests, NEW a \in Accounts, NEW m \in BOOLEAN, LoginRefused(r, a, m)
        PROVE  TypeOK'
    BY <1>3 DEF LoginRefused
  <1>4. ASSUME NEW r \in Requests, NEW a \in Accounts, LoginChallenged(r, a) PROVE TypeOK'
    BY <1>4 DEF LoginChallenged
  <1>5. ASSUME NEW r \in Requests, NEW a \in Accounts, Login(r, a) PROVE TypeOK'
    BY <1>5 DEF Login
  <1>6. ASSUME NEW r \in Requests, NEW tok \in 1 .. minted, Refresh(r, tok) PROVE TypeOK'
    BY <1>6 DEF Refresh
  <1>7. ASSUME NEW r \in Requests, NEW u \in used, RefreshReplayed(r, u) PROVE TypeOK'
    BY <1>7 DEF RefreshReplayed
  <1>8. ASSUME NEW r \in Requests, NEW s \in Sessions, Logout(r, s) PROVE TypeOK'
    BY <1>8 DEF Logout
  <1>9. ASSUME NEW r \in Requests, NEW s \in Sessions, LogoutAll(r, s) PROVE TypeOK'
    BY <1>9 DEF LogoutAll
  <1>10. ASSUME NEW r \in Requests, NEW s \in Sessions, Delete(r, s) PROVE TypeOK'
    BY <1>10 DEF Delete
  <1>11. ASSUME NEW r \in Requests, NEW s \in Sessions, RefreshLoad(r, s) PROVE TypeOK'
    BY <1>11 DEF RefreshLoad
  <1>12. ASSUME NEW r \in Requests, RefreshRejected(r) PROVE TypeOK'
    BY <1>12 DEF RefreshRejected
  <1>13. ASSUME NEW r \in Requests, LogoutAllSelect(r) PROVE TypeOK'
    BY <1>13 DEF LogoutAllSelect
  <1>14. ASSUME NEW r \in Requests, LoginFlush(r) PROVE TypeOK'
    BY <1>14 DEF LoginFlush, Request, Later
  <1>15. ASSUME NEW r \in Requests, ReplayFlush(r) PROVE TypeOK'
    BY <1>15 DEF ReplayFlush
  <1>16. ASSUME NEW r \in Requests, RefreshFlush(r) PROVE TypeOK'
    <2>1. access' \in [Sessions -> Nat]
      BY <1>16 DEF RefreshFlush, Later, Request
    <2>. QED
      BY <2>1, <1>16 DEF RefreshFlush
  <1>17. ASSUME NEW r \in Requests, RevokeFlush(r) PROVE TypeOK'
    BY <1>17 DEF RevokeFlush
  <1>18. ASSUME NEW r \in Requests, DeleteFlush(r) PROVE TypeOK'
    BY <1>18 DEF DeleteFlush
  <1>19. ASSUME NEW r \in Requests, CommitRegister(r) PROVE TypeOK'
    BY <1>19 DEF CommitRegister
  <1>20. ASSUME NEW r \in Requests, CommitLogin(r) PROVE TypeOK'
    <2>1. req[r] \in Request /\ req[r].ses \in Sessions
      BY <1>20 DEF CommitLogin
    <2>2. session' \in [Sessions -> SessionRow]
      BY <2>1, <1>20 DEF CommitLogin, Request, SessionRow
    <2>3. authEvent' \subseteq EventRow
      BY <2>1, <1>20 DEF CommitLogin, Request, EventRow
    <2>4. granted' \subseteq Nat \X Sessions
      BY <2>1, <1>20 DEF CommitLogin, Request
    <2>. QED
      BY <2>2, <2>3, <2>4, <1>20 DEF CommitLogin
  <1>21. ASSUME NEW r \in Requests, CommitRefresh(r) PROVE TypeOK'
    <2>1. req[r] \in Request /\ req[r].ses \in Sessions
      BY <1>21 DEF CommitRefresh
    <2>2. session' \in [Sessions -> SessionRow]
      <3>1. session' = [session EXCEPT ![req[r].ses].digest = req[r].new]
        BY <1>21 DEF CommitRefresh
      <3>2. req[r].new \in Nat
        BY <2>1 DEF Request
      <3>. QED
        BY <3>1, <3>2, <2>1 DEF SessionRow
    <2>3. used' \subseteq UsedRow
      BY <2>1, <1>21 DEF CommitRefresh, Request, UsedRow
    <2>4. granted' \subseteq Nat \X Sessions
      BY <2>1, <1>21 DEF CommitRefresh, Request
    <2>. QED
      BY <2>2, <2>3, <2>4, <1>21 DEF CommitRefresh
  <1>22. ASSUME NEW r \in Requests, CommitRevoke(r) PROVE TypeOK'
    BY <1>22 DEF CommitRevoke, SessionRow
  <1>23. ASSUME NEW r \in Requests, CommitDelete(r) PROVE TypeOK'
    BY <1>23 DEF CommitDelete, SessionRow
  <1>24. ASSUME NEW r \in Requests, Rollback(r) PROVE TypeOK'
    BY <1>24 DEF Rollback
  <1>25. ASSUME NEW r \in Requests, Fail(r) PROVE TypeOK'
    BY <1>25 DEF Fail
  <1>26. ASSUME NEW r \in Requests, Conflict(r) PROVE TypeOK'
    BY <1>26 DEF Conflict
  <1>. QED
    BY <1>0, <1>1, <1>2, <1>3, <1>4, <1>5, <1>6, <1>7, <1>8, <1>9, <1>10, <1>11, <1>12,
       <1>13, <1>14, <1>15, <1>16, <1>17, <1>18, <1>19, <1>20, <1>21, <1>22, <1>23, <1>24, <1>25,
       <1>26
       DEF Next, Begin, Read, Flush, Finish

\* Every reachable state is well typed.
THEOREM TypeCorrect == Spec => []TypeOK
  BY InitTypeOK, StepTypeOK, PTL DEF Spec

-----------------------------------------------------------------------------
\* The inductive strengthening of the three safety invariants, part by part.

\* r has drawn a token that no committed row holds yet.
Issuing(r) == req[r].op \in {"login", "refresh"} /\ req[r].at \in {"flush", "return"}

\* A token being issued is nobody else's.
IssuedFresh ==
    \A r \in Requests : Issuing(r) =>
        /\ req[r].new \in 1 .. minted
        /\ req[r].new \notin UsedDigests
        /\ \A s \in Sessions : session[s].digest # req[r].new
        /\ \A g \in granted : g[1] # req[r].new
        /\ \A q \in Requests \ {r} : Issuing(q) => req[q].new # req[r].new

\* So is a session being opened, and its account is there when its row is flushed.
OpeningFresh ==
    \A r \in Requests : Issuing(r) /\ req[r].op = "login" =>
        /\ req[r].ses \in 1 .. opened
        /\ session[req[r].ses].st = "free"
        /\ req[r].user \in Accounts
        /\ req[r].at = "return" => account[req[r].user] = "present"
        /\ \A q \in Requests \ {r} : Issuing(q) /\ req[q].op = "login"
                                        => req[q].ses # req[r].ses

\* Rows hold only tokens and ids that were drawn, and no two sessions the same token.
Drawn ==
    /\ \A s \in Sessions : session[s].st # "free" => s <= opened
    /\ \A s \in Sessions : session[s].st = "free" <=> session[s].digest = 0
    /\ \A s \in Sessions : session[s].digest <= minted
    /\ \A s1, s2 \in Sessions : session[s1].st # "free" /\ s1 # s2
                                  => session[s1].digest # session[s2].digest
    /\ \A u \in used : u.digest <= minted
    /\ \A g \in granted : g[1] <= minted /\ session[g[2]].st # "free"

\* A rotation that has read its session finds, when it flushes, that the token is still
\* the current one, or was recorded as used meanwhile, or the session is gone; once it
\* has flushed, its row lock keeps the token current.
Rotating ==
    \A r \in Requests : Issuing(r) /\ req[r].op = "refresh" =>
        /\ req[r].ses \in Sessions
        /\ session[req[r].ses].st # "free"
        /\ \/ session[req[r].ses].digest = req[r].tok
           \/ [digest |-> req[r].tok, session |-> req[r].ses] \in used
           \/ ~ Exists(req[r].ses)
        /\ req[r].at = "return" =>
              /\ session[req[r].ses].digest = req[r].tok
              /\ Exists(req[r].ses)
              /\ req[r].tok \notin UsedDigests
              /\ req[r].rows = {req[r].ses}

\* Two transactions never hold the lock of one row, and only some hold any.
Exclusive ==
    /\ \A r, q \in Requests : r # q /\ HasFlushed(r) /\ HasFlushed(q)
                                => req[r].rows \cap req[q].rows = {}
    /\ \A r \in Requests :
          req[r].op \notin {"logout", "logoutAll"} /\ req[r].at \in {"idle", "select", "flush"}
             => req[r].rows = {}
    /\ \A r \in Requests : req[r].op \in {"none", "register", "login", "badLogin"}
                            => req[r].rows = {}

\* A logout that has flushed holds rows that are still there; a deletion holds every row
\* of its account, and no login is adding one.
Ending ==
    \A r \in Requests : req[r].at = "return" =>
        /\ req[r].op \in {"logout", "logoutAll"} => \A s \in req[r].rows : Exists(s)
        /\ req[r].op = "delete" =>
             /\ req[r].rows = {s \in Sessions : Exists(s) /\ session[s].user = req[r].user}
             /\ \A q \in Requests : ~ Inserting(q, req[r].user)

IInv == /\ TypeOK /\ IssuedFresh /\ OpeningFresh /\ Drawn /\ Rotating /\ Exclusive /\ Ending
        /\ CurrentNeverUsed /\ TokensAccounted /\ CascadeComplete

-----------------------------------------------------------------------------
\* What the four commits that write session rows do, row by row.
LEMMA CommitLoginEffect ==
  ASSUME IInv, NEW r \in Requests, CommitLogin(r)
  PROVE  /\ req[r].at = "return" /\ req[r].op = "login" /\ req[r].ses \in Sessions
         /\ \A s \in Sessions \ {req[r].ses} : session'[s] = session[s]
         /\ session'[req[r].ses].st = "open"
         /\ session'[req[r].ses].user = req[r].user
         /\ session'[req[r].ses].digest = req[r].new
         /\ granted' = granted \cup {<<req[r].new, req[r].ses>>}
         /\ req' = [req EXCEPT ![r] = Idle]
         /\ UNCHANGED <<now, account, used, opened, minted>>
  <1>1. req[r].ses \in Sessions /\ session \in [Sessions -> SessionRow]
    BY DEF IInv, TypeOK, Named, CommitLogin
  <1>. QED
    BY <1>1 DEF CommitLogin, End

LEMMA CommitRefreshEffect ==
  ASSUME IInv, NEW r \in Requests, CommitRefresh(r)
  PROVE  /\ req[r].at = "return" /\ req[r].op = "refresh" /\ req[r].ses \in Sessions
         /\ \A s \in Sessions : /\ session'[s].st = session[s].st
                                /\ session'[s].user = session[s].user
                                /\ session'[s].digest = IF s = req[r].ses THEN req[r].new
                                                                         ELSE session[s].digest
         /\ used' = used \cup {[digest |-> req[r].tok, session |-> req[r].ses]}
         /\ granted' = granted \cup {<<req[r].new, req[r].ses>>}
         /\ req' = [req EXCEPT ![r] = Idle]
         /\ UNCHANGED <<now, account, opened, minted>>
  <1>1. req[r].ses \in Sessions /\ session \in [Sessions -> SessionRow]
    BY DEF IInv, TypeOK, Named, CommitRefresh
  <1>2. session' = [session EXCEPT ![req[r].ses].digest = req[r].new]
    BY DEF CommitRefresh
  <1>3. \A s \in Sessions : /\ session'[s].st = session[s].st
                            /\ session'[s].user = session[s].user
                            /\ session'[s].digest = IF s = req[r].ses THEN req[r].new
                                                                     ELSE session[s].digest
    BY <1>1, <1>2 DEF SessionRow
  <1>. QED
    BY <1>1, <1>3 DEF CommitRefresh, End

LEMMA CommitRevokeEffect ==
  ASSUME IInv, NEW r \in Requests, CommitRevoke(r)
  PROVE  /\ req[r].at = "return" /\ req[r].op \in {"logout", "logoutAll"}
         /\ \A s \in req[r].rows : s \in Sessions /\ Exists(s)
         /\ \A s \in Sessions : /\ session'[s].st = IF s \in req[r].rows THEN "revoked"
                                                                         ELSE session[s].st
                                /\ session'[s].user = session[s].user
                                /\ session'[s].digest = session[s].digest
         /\ req' = [req EXCEPT ![r] = Idle]
         /\ UNCHANGED <<now, account, used, opened, minted, granted>>
  <1>1. session \in [Sessions -> SessionRow] /\ req[r].rows \subseteq Sessions
    BY DEF IInv, TypeOK, Request
  <1>2. \A s \in req[r].rows : Exists(s)
    BY DEF IInv, Ending, CommitRevoke
  <1>3. \A s \in Sessions : /\ session'[s].st = IF s \in req[r].rows THEN "revoked"
                                                                     ELSE session[s].st
                            /\ session'[s].user = session[s].user
                            /\ session'[s].digest = session[s].digest
    BY <1>1 DEF CommitRevoke, SessionRow
  <1>. QED
    BY <1>1, <1>2, <1>3 DEF CommitRevoke, End, tokens

LEMMA CommitDeleteEffect ==
  ASSUME IInv, NEW r \in Requests, CommitDelete(r)
  PROVE  /\ req[r].at = "return" /\ req[r].op = "delete"
         /\ req[r].rows = {s \in Sessions : Exists(s) /\ session[s].user = req[r].user}
         /\ \A q \in Requests : ~ Inserting(q, req[r].user)
         /\ \A s \in Sessions : /\ session'[s].st = IF s \in req[r].rows THEN "gone"
                                                                         ELSE session[s].st
                                /\ session'[s].user = session[s].user
                                /\ session'[s].digest = session[s].digest
         /\ account' = [account EXCEPT ![req[r].user] = "deleted"]
         /\ used' = {u \in used : u.session \notin req[r].rows}
         /\ req' = [req EXCEPT ![r] = Idle]
         /\ UNCHANGED <<now, opened, minted, granted>>
  <1>1. session \in [Sessions -> SessionRow]
    BY DEF IInv, TypeOK
  <1>2. /\ req[r].rows = {s \in Sessions : Exists(s) /\ session[s].user = req[r].user}
        /\ \A q \in Requests : ~ Inserting(q, req[r].user)
    BY DEF IInv, Ending, CommitDelete
  <1>3. \A s \in Sessions : /\ session'[s].st = IF s \in req[r].rows THEN "gone"
                                                                     ELSE session[s].st
                            /\ session'[s].user = session[s].user
                            /\ session'[s].digest = session[s].digest
    BY <1>1 DEF CommitDelete, SessionRow
  <1>. QED
    BY <1>2, <1>3 DEF CommitDelete, End, tokens

-----------------------------------------------------------------------------
\* Each part is kept by every step, one step of the proof per action.
LEMMA IssuedFreshStep == IInv /\ [Next]_vars => IssuedFresh'
  <1> SUFFICES ASSUME IInv, [Next]_vars
               PROVE  IssuedFresh'
    OBVIOUS
  <1>t. /\ req \in [Requests -> Request] /\ session \in [Sessions -> SessionRow]
        /\ used \subseteq UsedRow /\ granted \subseteq Nat \X Sessions
        /\ minted \in Nat /\ opened \in 0 .. MaxSessions /\ MaxSessions \in Nat
    BY NatAssumption DEF IInv, TypeOK
  <1>v. /\ \A s \in Sessions : s \in Nat /\ session[s].digest \in Nat
        /\ \A u \in used : u.digest \in Nat /\ u.session \in Sessions
        /\ \A g \in granted : g[1] \in Nat /\ g[2] \in Sessions
    BY <1>t DEF SessionRow, UsedRow, Sessions
  <1>p. IssuedFresh /\ Drawn /\ Rotating
    BY DEF IInv, TypeOK
  <1> USE DEF IssuedFresh, Issuing, UsedDigests, Drawn, Rotating, Request, SessionRow,
     UsedRow
  <1>0. ASSUME UNCHANGED vars PROVE IssuedFresh'
    BY <1>0, <1>p DEF vars
  <1>1. ASSUME Tick PROVE IssuedFresh'
    BY <1>1, <1>t, <1>p DEF Tick, tables, tokens
  <1>2. ASSUME NEW r \in Requests, NEW a \in Accounts, Register(r, a) PROVE IssuedFresh'
    BY <1>2, <1>t, <1>p DEF Register, tables, tokens, Start, Idle
  <1>3. ASSUME NEW r \in Requests, NEW a \in Accounts, NEW m \in BOOLEAN, LoginRefused(r, a, m)
        PROVE  IssuedFresh'
    BY <1>3, <1>t, <1>p DEF LoginRefused, tables, tokens, Start, Idle
  <1>4. ASSUME NEW r \in Requests, NEW a \in Accounts, LoginChallenged(r, a)
        PROVE  IssuedFresh'
    BY <1>4, <1>t, <1>p DEF LoginChallenged, tables, tokens, Start, Idle
  <1>5. ASSUME NEW r \in Requests, NEW a \in Accounts, Login(r, a) PROVE IssuedFresh'
    BY <1>5, <1>t, <1>p DEF Login, tables, tokens, Start, Idle
  <1>6. ASSUME NEW r \in Requests, NEW tok \in 1 .. minted, Refresh(r, tok) PROVE IssuedFresh'
    BY <1>6, <1>t, <1>p DEF Refresh, tables, tokens, Start, Idle
  <1>7. ASSUME NEW r \in Requests, NEW u \in used, RefreshReplayed(r, u) PROVE IssuedFresh'
    BY <1>7, <1>t, <1>p DEF RefreshReplayed, tables, tokens, Start, Idle
  <1>8. ASSUME NEW r \in Requests, NEW s \in Sessions, Logout(r, s) PROVE IssuedFresh'
    BY <1>8, <1>t, <1>p DEF Logout, tables, tokens, Start, Idle
  <1>9. ASSUME NEW r \in Requests, NEW s \in Sessions, LogoutAll(r, s) PROVE IssuedFresh'
    BY <1>9, <1>t, <1>p DEF LogoutAll, tables, tokens, Start, Idle
  <1>10. ASSUME NEW r \in Requests, NEW s \in Sessions, Delete(r, s) PROVE IssuedFresh'
    BY <1>10, <1>t, <1>p DEF Delete, tables, tokens, Start, Idle
  <1>11. ASSUME NEW r \in Requests, NEW s \in Sessions, RefreshLoad(r, s) PROVE IssuedFresh'
    BY <1>11, <1>t, <1>p DEF RefreshLoad, tables, tokens
  <1>12. ASSUME NEW r \in Requests, RefreshRejected(r) PROVE IssuedFresh'
    BY <1>12, <1>t, <1>p DEF RefreshRejected, tables, tokens, GoTo
  <1>13. ASSUME NEW r \in Requests, LogoutAllSelect(r) PROVE IssuedFresh'
    BY <1>13, <1>t, <1>p DEF LogoutAllSelect, tables, tokens
  <1>14. ASSUME NEW r \in Requests, LoginFlush(r) PROVE IssuedFresh'
    BY <1>14, <1>t, <1>p DEF LoginFlush, tables, tokens, GoTo
  <1>15. ASSUME NEW r \in Requests, ReplayFlush(r) PROVE IssuedFresh'
    BY <1>15, <1>t, <1>p DEF ReplayFlush, tables, tokens
  <1>16. ASSUME NEW r \in Requests, RefreshFlush(r) PROVE IssuedFresh'
    BY <1>16, <1>t, <1>p DEF RefreshFlush, tables, tokens
  <1>17. ASSUME NEW r \in Requests, RevokeFlush(r) PROVE IssuedFresh'
    BY <1>17, <1>t, <1>p DEF RevokeFlush, tables, tokens, GoTo
  <1>18. ASSUME NEW r \in Requests, DeleteFlush(r) PROVE IssuedFresh'
    BY <1>18, <1>t, <1>p DEF DeleteFlush, tables, tokens
  <1>19. ASSUME NEW r \in Requests, CommitRegister(r) PROVE IssuedFresh'
    BY <1>19, <1>t, <1>p DEF CommitRegister, tables, tokens, End, Idle
  <1>20. ASSUME NEW r \in Requests, CommitLogin(r) PROVE IssuedFresh'
    BY <1>20, <1>t, <1>p, CommitLoginEffect, SMTT(30) DEF Idle
  <1>21. ASSUME NEW r \in Requests, CommitRefresh(r) PROVE IssuedFresh'
    BY <1>21, <1>t, <1>p, CommitRefreshEffect DEF Idle
  <1>22. ASSUME NEW r \in Requests, CommitRevoke(r) PROVE IssuedFresh'
    BY <1>22, <1>t, <1>p, CommitRevokeEffect DEF Idle
  <1>23. ASSUME NEW r \in Requests, CommitDelete(r) PROVE IssuedFresh'
    BY <1>23, <1>t, <1>p, CommitDeleteEffect, SMTT(30) DEF Idle
  <1>24. ASSUME NEW r \in Requests, Rollback(r) PROVE IssuedFresh'
    BY <1>24, <1>t, <1>p DEF Rollback, tables, tokens, End, Idle
  <1>25. ASSUME NEW r \in Requests, Fail(r) PROVE IssuedFresh'
    BY <1>25, <1>t, <1>p DEF Fail, tables, tokens, End, Idle
  <1>26. ASSUME NEW r \in Requests, Conflict(r) PROVE IssuedFresh'
    BY <1>26, <1>t, <1>p DEF Conflict, tables, tokens, GoTo
  <1>. QED
    BY <1>0, <1>1, <1>2, <1>3, <1>4, <1>5, <1>6, <1>7, <1>8, <1>9, <1>10, <1>11, <1>12,
       <1>13, <1>14, <1>15, <1>16, <1>17, <1>18, <1>19, <1>20, <1>21, <1>22, <1>23, <1>24, <1>25,
       <1>26
       DEF Next, Begin, Read, Flush, Finish

LEMMA OpeningFreshStep == IInv /\ [Next]_vars => OpeningFresh'
  <1> SUFFICES ASSUME IInv, [Next]_vars
               PROVE  OpeningFresh'
    OBVIOUS
  <1>t. /\ req \in [Requests -> Request] /\ session \in [Sessions -> SessionRow]
        /\ used \subseteq UsedRow /\ granted \subseteq Nat \X Sessions
        /\ minted \in Nat /\ opened \in 0 .. MaxSessions /\ MaxSessions \in Nat
    BY NatAssumption DEF IInv, TypeOK
  <1>v. /\ \A s \in Sessions : s \in Nat /\ session[s].digest \in Nat
        /\ \A u \in used : u.digest \in Nat /\ u.session \in Sessions
        /\ \A g \in granted : g[1] \in Nat /\ g[2] \in Sessions
    BY <1>t DEF SessionRow, UsedRow, Sessions
  <1>p. OpeningFresh /\ Drawn /\ Ending
    BY DEF IInv, TypeOK
  <1>0. ASSUME UNCHANGED vars PROVE OpeningFresh'
    BY <1>0, <1>p DEF vars, OpeningFresh, Issuing
  <1>1. ASSUME Tick PROVE OpeningFresh'
    BY <1>1, <1>t, <1>p DEF Tick, tables, tokens, OpeningFresh, Issuing, Request, Sessions
  <1>2. ASSUME NEW r \in Requests, NEW a \in Accounts, Register(r, a) PROVE OpeningFresh'
    BY <1>2, <1>t, <1>p DEF Register, tables, tokens, Start, Idle, OpeningFresh, Issuing,
       Request, Sessions
  <1>3. ASSUME NEW r \in Requests, NEW a \in Accounts, NEW m \in BOOLEAN, LoginRefused(r, a, m)
        PROVE  OpeningFresh'
    BY <1>3, <1>t, <1>p DEF LoginRefused, tables, tokens, Start, Idle, OpeningFresh,
       Issuing, Request, Sessions
  <1>4. ASSUME NEW r \in Requests, NEW a \in Accounts, LoginChallenged(r, a)
        PROVE  OpeningFresh'
    BY <1>4, <1>t, <1>p DEF LoginChallenged, tables, tokens, Start, Idle, OpeningFresh,
       Issuing, Request, Sessions
  <1>5. ASSUME NEW r \in Requests, NEW a \in Accounts, Login(r, a) PROVE OpeningFresh'
    <2>1. /\ opened' = opened + 1 /\ opened + 1 \in Sessions
          /\ req' = [req EXCEPT ![r] = [Idle EXCEPT !.op = "login", !.at = "flush",
                          !.user = a, !.t = now, !.ses = opened + 1, !.new = minted + 1]]
          /\ UNCHANGED <<account, session>>
      BY <1>5, <1>t, NatAssumption DEF Login, Start, tables, Sessions
    <2>2. session[opened + 1].st = "free"
      BY <2>1, <1>t, <1>p DEF Drawn
    <2>. QED
      BY <2>1, <2>2, <1>t, <1>p DEF Idle, OpeningFresh, Issuing, Sessions
  <1>6. ASSUME NEW r \in Requests, NEW tok \in 1 .. minted, Refresh(r, tok)
        PROVE  OpeningFresh'
    BY <1>6, <1>t, <1>p DEF Refresh, tables, tokens, Start, Idle, OpeningFresh, Issuing,
       Request, Sessions
  <1>7. ASSUME NEW r \in Requests, NEW u \in used, RefreshReplayed(r, u) PROVE OpeningFresh'
    BY <1>7, <1>t, <1>p DEF RefreshReplayed, tables, tokens, Start, Idle, OpeningFresh,
       Issuing, Request, Sessions
  <1>8. ASSUME NEW r \in Requests, NEW s \in Sessions, Logout(r, s) PROVE OpeningFresh'
    BY <1>8, <1>t, <1>p DEF Logout, tables, tokens, Start, Idle, OpeningFresh, Issuing,
       Request, Sessions
  <1>9. ASSUME NEW r \in Requests, NEW s \in Sessions, LogoutAll(r, s) PROVE OpeningFresh'
    BY <1>9, <1>t, <1>p DEF LogoutAll, tables, tokens, Start, Idle, OpeningFresh, Issuing,
       Request, Sessions
  <1>10. ASSUME NEW r \in Requests, NEW s \in Sessions, Delete(r, s) PROVE OpeningFresh'
    BY <1>10, <1>t, <1>p DEF Delete, tables, tokens, Start, Idle, OpeningFresh, Issuing,
       Request, Sessions
  <1>11. ASSUME NEW r \in Requests, NEW s \in Sessions, RefreshLoad(r, s) PROVE OpeningFresh'
    BY <1>11, <1>t, <1>p DEF RefreshLoad, tables, tokens, OpeningFresh, Issuing, Request,
       Sessions
  <1>12. ASSUME NEW r \in Requests, RefreshRejected(r) PROVE OpeningFresh'
    BY <1>12, <1>t, <1>p DEF RefreshRejected, tables, tokens, GoTo, OpeningFresh, Issuing,
       Request, Sessions
  <1>13. ASSUME NEW r \in Requests, LogoutAllSelect(r) PROVE OpeningFresh'
    BY <1>13, <1>t, <1>p DEF LogoutAllSelect, tables, tokens, OpeningFresh, Issuing,
       Request, Sessions
  <1>14. ASSUME NEW r \in Requests, LoginFlush(r) PROVE OpeningFresh'
    BY <1>14, <1>t, <1>p DEF LoginFlush, tables, tokens, GoTo, OpeningFresh, Issuing,
       Request, Sessions
  <1>15. ASSUME NEW r \in Requests, ReplayFlush(r) PROVE OpeningFresh'
    BY <1>15, <1>t, <1>p DEF ReplayFlush, tables, tokens, OpeningFresh, Issuing, Request,
       Sessions
  <1>16. ASSUME NEW r \in Requests, RefreshFlush(r) PROVE OpeningFresh'
    BY <1>16, <1>t, <1>p DEF RefreshFlush, tables, tokens, OpeningFresh, Issuing, Request,
       Sessions
  <1>17. ASSUME NEW r \in Requests, RevokeFlush(r) PROVE OpeningFresh'
    BY <1>17, <1>t, <1>p DEF RevokeFlush, tables, tokens, GoTo, OpeningFresh, Issuing,
       Request, Sessions
  <1>18. ASSUME NEW r \in Requests, DeleteFlush(r) PROVE OpeningFresh'
    BY <1>18, <1>t, <1>p DEF DeleteFlush, tables, tokens, OpeningFresh, Issuing, Request,
       Sessions
  <1>19. ASSUME NEW r \in Requests, CommitRegister(r) PROVE OpeningFresh'
    BY <1>19, <1>t, <1>p DEF CommitRegister, tables, tokens, End, Idle, OpeningFresh,
       Issuing, Request, Sessions
  <1>20. ASSUME NEW r \in Requests, CommitLogin(r) PROVE OpeningFresh'
    <2>1. req' = [req EXCEPT ![r] = Idle] /\ opened' = opened /\ account' = account
      BY <1>20, CommitLoginEffect
    <2>2. \A s \in Sessions : session[s].st = "free" /\ s # req[r].ses => session'[s].st = "free"
      BY <1>20, CommitLoginEffect DEF Exists
    <2>3. \A q \in Requests : Issuing(q)' => q # r /\ Issuing(q) /\ req'[q] = req[q]
      BY <2>1, <1>t DEF Issuing, Idle
    <2>4. req[r].op = "login" /\ Issuing(r)
      BY <1>20, CommitLoginEffect DEF Issuing
    <2>. QED
      BY <2>4, <2>1, <2>2, <2>3, <1>t, <1>20, <1>p DEF OpeningFresh, Sessions
  <1>21. ASSUME NEW r \in Requests, CommitRefresh(r) PROVE OpeningFresh'
    <2>1. req' = [req EXCEPT ![r] = Idle] /\ opened' = opened /\ account' = account
      BY <1>21, CommitRefreshEffect
    <2>2. \A s \in Sessions : session[s].st = "free" => session'[s].st = "free"
      BY <1>21, CommitRefreshEffect DEF Exists
    <2>3. \A q \in Requests : Issuing(q)' => q # r /\ Issuing(q) /\ req'[q] = req[q]
      BY <2>1, <1>t DEF Issuing, Idle
    <2>. QED
      BY <2>1, <2>2, <2>3, <1>t, <1>21, <1>p DEF OpeningFresh, Sessions
  <1>22. ASSUME NEW r \in Requests, CommitRevoke(r) PROVE OpeningFresh'
    <2>1. req' = [req EXCEPT ![r] = Idle] /\ opened' = opened /\ account' = account
      BY <1>22, CommitRevokeEffect
    <2>2. \A s \in Sessions : session[s].st = "free" => session'[s].st = "free"
      BY <1>22, CommitRevokeEffect DEF Exists
    <2>3. \A q \in Requests : Issuing(q)' => q # r /\ Issuing(q) /\ req'[q] = req[q]
      BY <2>1, <1>t DEF Issuing, Idle
    <2>. QED
      BY <2>1, <2>2, <2>3, <1>t, <1>22, <1>p DEF OpeningFresh, Sessions
  <1>23. ASSUME NEW r \in Requests, CommitDelete(r) PROVE OpeningFresh'
    <2>1. req' = [req EXCEPT ![r] = Idle] /\ opened' = opened
          /\ account' = [account EXCEPT ![req[r].user] = "deleted"]
          /\ \A q \in Requests : ~ Inserting(q, req[r].user)
      BY <1>23, CommitDeleteEffect
    <2>2. \A s \in Sessions : session[s].st = "free" => session'[s].st = "free"
      BY <1>23, CommitDeleteEffect DEF Exists
    <2>3. \A q \in Requests : Issuing(q)' => q # r /\ Issuing(q) /\ req'[q] = req[q]
      BY <2>1, <1>t DEF Issuing, Idle
    <2>4. account \in [Accounts -> {"absent", "present", "deleted"}]
      BY DEF IInv, TypeOK
    <2>. QED
      BY <2>4, <2>1, <2>2, <2>3, <1>t, <1>23, <1>p DEF OpeningFresh, Sessions, Inserting,
         Issuing
  <1>24. ASSUME NEW r \in Requests, Rollback(r) PROVE OpeningFresh'
    BY <1>24, <1>t, <1>p DEF Rollback, tables, tokens, End, Idle, OpeningFresh, Issuing,
       Request, Sessions
  <1>25. ASSUME NEW r \in Requests, Fail(r) PROVE OpeningFresh'
    BY <1>25, <1>t, <1>p DEF Fail, tables, tokens, End, Idle, OpeningFresh, Issuing,
       Request, Sessions
  <1>26. ASSUME NEW r \in Requests, Conflict(r) PROVE OpeningFresh'
    BY <1>26, <1>t, <1>p DEF Conflict, tables, tokens, GoTo, OpeningFresh, Issuing, Request,
       Sessions
  <1>. QED
    BY <1>0, <1>1, <1>2, <1>3, <1>4, <1>5, <1>6, <1>7, <1>8, <1>9, <1>10, <1>11, <1>12,
       <1>13, <1>14, <1>15, <1>16, <1>17, <1>18, <1>19, <1>20, <1>21, <1>22, <1>23, <1>24, <1>25,
       <1>26
       DEF Next, Begin, Read, Flush, Finish

LEMMA RotatingStep == IInv /\ [Next]_vars => Rotating'
  <1> SUFFICES ASSUME IInv, [Next]_vars
               PROVE  Rotating'
    OBVIOUS
  <1>t. /\ req \in [Requests -> Request] /\ session \in [Sessions -> SessionRow]
        /\ used \subseteq UsedRow /\ granted \subseteq Nat \X Sessions
        /\ minted \in Nat /\ opened \in 0 .. MaxSessions /\ MaxSessions \in Nat
    BY NatAssumption DEF IInv, TypeOK
  <1>v. /\ \A s \in Sessions : s \in Nat /\ session[s].digest \in Nat
        /\ \A u \in used : u.digest \in Nat /\ u.session \in Sessions
        /\ \A g \in granted : g[1] \in Nat /\ g[2] \in Sessions
    BY <1>t DEF SessionRow, UsedRow, Sessions
  <1>p. Rotating /\ Exclusive /\ OpeningFresh /\ Drawn
    BY DEF IInv, TypeOK
  <1> USE DEF Rotating, Issuing, Exists, UsedDigests, Accepts, IsActive, LocksFree,
     HasFlushed, Request, SessionRow, UsedRow, Exclusive, OpeningFresh
  <1>0. ASSUME UNCHANGED vars PROVE Rotating'
    BY <1>0, <1>p DEF vars
  <1>1. ASSUME Tick PROVE Rotating'
    BY <1>1, <1>t, <1>p DEF Tick, tables, tokens
  <1>2. ASSUME NEW r \in Requests, NEW a \in Accounts, Register(r, a) PROVE Rotating'
    BY <1>2, <1>t, <1>p DEF Register, tables, tokens, Start, Idle
  <1>3. ASSUME NEW r \in Requests, NEW a \in Accounts, NEW m \in BOOLEAN, LoginRefused(r, a, m)
        PROVE  Rotating'
    BY <1>3, <1>t, <1>p DEF LoginRefused, tables, tokens, Start, Idle
  <1>4. ASSUME NEW r \in Requests, NEW a \in Accounts, LoginChallenged(r, a) PROVE Rotating'
    BY <1>4, <1>t, <1>p DEF LoginChallenged, tables, tokens, Start, Idle
  <1>5. ASSUME NEW r \in Requests, NEW a \in Accounts, Login(r, a) PROVE Rotating'
    BY <1>5, <1>t, <1>p DEF Login, tables, tokens, Start, Idle
  <1>6. ASSUME NEW r \in Requests, NEW tok \in 1 .. minted, Refresh(r, tok) PROVE Rotating'
    BY <1>6, <1>t, <1>p DEF Refresh, tables, tokens, Start, Idle
  <1>7. ASSUME NEW r \in Requests, NEW u \in used, RefreshReplayed(r, u) PROVE Rotating'
    BY <1>7, <1>t, <1>p DEF RefreshReplayed, tables, tokens, Start, Idle
  <1>8. ASSUME NEW r \in Requests, NEW s \in Sessions, Logout(r, s) PROVE Rotating'
    BY <1>8, <1>t, <1>p DEF Logout, tables, tokens, Start, Idle
  <1>9. ASSUME NEW r \in Requests, NEW s \in Sessions, LogoutAll(r, s) PROVE Rotating'
    BY <1>9, <1>t, <1>p DEF LogoutAll, tables, tokens, Start, Idle
  <1>10. ASSUME NEW r \in Requests, NEW s \in Sessions, Delete(r, s) PROVE Rotating'
    BY <1>10, <1>t, <1>p DEF Delete, tables, tokens, Start, Idle
  <1>11. ASSUME NEW r \in Requests, NEW s \in Sessions, RefreshLoad(r, s) PROVE Rotating'
    BY <1>11, <1>t, <1>p DEF RefreshLoad, tables, tokens
  <1>12. ASSUME NEW r \in Requests, RefreshRejected(r) PROVE Rotating'
    BY <1>12, <1>t, <1>p DEF RefreshRejected, tables, tokens, GoTo
  <1>13. ASSUME NEW r \in Requests, LogoutAllSelect(r) PROVE Rotating'
    BY <1>13, <1>t, <1>p DEF LogoutAllSelect, tables, tokens
  <1>14. ASSUME NEW r \in Requests, LoginFlush(r) PROVE Rotating'
    BY <1>14, <1>t, <1>p DEF LoginFlush, tables, tokens, GoTo
  <1>15. ASSUME NEW r \in Requests, ReplayFlush(r) PROVE Rotating'
    BY <1>15, <1>t, <1>p DEF ReplayFlush, tables, tokens
  <1>16. ASSUME NEW r \in Requests, RefreshFlush(r) PROVE Rotating'
    BY <1>16, <1>t, <1>p DEF RefreshFlush, tables, tokens
  <1>17. ASSUME NEW r \in Requests, RevokeFlush(r) PROVE Rotating'
    BY <1>17, <1>t, <1>p DEF RevokeFlush, tables, tokens, GoTo
  <1>18. ASSUME NEW r \in Requests, DeleteFlush(r) PROVE Rotating'
    BY <1>18, <1>t, <1>p DEF DeleteFlush, tables, tokens
  <1>19. ASSUME NEW r \in Requests, CommitRegister(r) PROVE Rotating'
    BY <1>19, <1>t, <1>p DEF CommitRegister, tables, tokens, End, Idle
  <1>20. ASSUME NEW r \in Requests, CommitLogin(r) PROVE Rotating'
    BY <1>20, <1>t, <1>p, CommitLoginEffect DEF Idle
  <1>21. ASSUME NEW r \in Requests, CommitRefresh(r) PROVE Rotating'
    <2>1. Issuing(r) /\ req[r].op = "refresh" /\ req[r].at = "return"
      BY <1>21, CommitRefreshEffect
    <2>2. /\ session[req[r].ses].digest = req[r].tok /\ req[r].rows = {req[r].ses}
          /\ session[req[r].ses].st # "free"
      BY <2>1, <1>p
    <2>3. /\ req[r].ses \in Sessions
          /\ \A s \in Sessions : session'[s].st = session[s].st
          /\ \A s \in Sessions \ {req[r].ses} : session'[s].digest = session[s].digest
          /\ session'[req[r].ses].digest = req[r].new
          /\ used' = used \cup {[digest |-> req[r].tok, session |-> req[r].ses]}
      BY <1>21, CommitRefreshEffect
    <2>4. \A q \in Requests : Issuing(q)' => q # r /\ Issuing(q) /\ req'[q] = req[q]
      BY <1>21, <1>t, CommitRefreshEffect DEF Idle
    <2>. SUFFICES ASSUME NEW q \in Requests, Issuing(q)', req'[q].op = "refresh"
                  PROVE  /\ req[q].ses \in Sessions
                         /\ session'[req[q].ses].st # "free"
                         /\ \/ session'[req[q].ses].digest = req[q].tok
                            \/ [digest |-> req[q].tok, session |-> req[q].ses] \in used'
                            \/ ~ Exists(req[q].ses)'
                         /\ req[q].at = "return" =>
                               /\ session'[req[q].ses].digest = req[q].tok
                               /\ Exists(req[q].ses)'
                               /\ req[q].tok \notin UsedDigests'
                               /\ req[q].rows = {req[q].ses}
      BY <2>4
    <2>5. q # r /\ Issuing(q) /\ req[q].op = "refresh"
      BY <2>4
    <2>6. /\ req[q].ses \in Sessions /\ session[req[q].ses].st # "free"
          /\ \/ session[req[q].ses].digest = req[q].tok
             \/ [digest |-> req[q].tok, session |-> req[q].ses] \in used
             \/ ~ Exists(req[q].ses)
      BY <2>5, <1>p
    <2>9. \A s \in Sessions : Exists(s)' <=> Exists(s)
      BY <2>3
    <2>10. req[q].ses \in Sessions /\ session'[req[q].ses].st # "free"
      BY <2>3, <2>6
    <2>7. CASE req[q].at = "return"
      <3>1. /\ session[req[q].ses].digest = req[q].tok /\ Exists(req[q].ses)
            /\ req[q].tok \notin UsedDigests /\ req[q].rows = {req[q].ses}
        BY <2>5, <2>7, <1>p
      <3>2. req[q].ses # req[r].ses
        BY <3>1, <2>1, <2>2, <2>5, <2>7, <1>p
      <3>3. req[q].tok # req[r].tok
        BY <3>1, <3>2, <2>2, <2>3, <2>6, <1>p DEF Drawn
      <3>4. session'[req[q].ses].digest = req[q].tok
        BY <3>1, <3>2, <2>3, <2>6
      <3>5. req[q].tok \notin UsedDigests'
        BY <3>1, <3>3, <2>3, <1>v
      <3>. QED
        BY <2>9, <2>10, <2>4, <3>1, <3>4, <3>5
    <2>8. CASE req[q].at # "return"
      <3>1. \/ session'[req[q].ses].digest = req[q].tok
            \/ [digest |-> req[q].tok, session |-> req[q].ses] \in used'
            \/ ~ Exists(req[q].ses)
        BY <2>6, <2>2, <2>3, Zenon
      <3>. QED
        BY <2>4, <3>1, <2>8, <2>9, <2>10
    <2>. QED
      BY <2>7, <2>8
  <1>22. ASSUME NEW r \in Requests, CommitRevoke(r) PROVE Rotating'
    BY <1>22, <1>t, <1>p, CommitRevokeEffect DEF Idle
  <1>23. ASSUME NEW r \in Requests, CommitDelete(r) PROVE Rotating'
    BY <1>23, <1>t, <1>p, CommitDeleteEffect DEF Idle
  <1>24. ASSUME NEW r \in Requests, Rollback(r) PROVE Rotating'
    BY <1>24, <1>t, <1>p DEF Rollback, tables, tokens, End, Idle
  <1>25. ASSUME NEW r \in Requests, Fail(r) PROVE Rotating'
    BY <1>25, <1>t, <1>p DEF Fail, tables, tokens, End, Idle
  <1>26. ASSUME NEW r \in Requests, Conflict(r) PROVE Rotating'
    BY <1>26, <1>t, <1>p DEF Conflict, tables, tokens, GoTo
  <1>. QED
    BY <1>0, <1>1, <1>2, <1>3, <1>4, <1>5, <1>6, <1>7, <1>8, <1>9, <1>10, <1>11, <1>12,
       <1>13, <1>14, <1>15, <1>16, <1>17, <1>18, <1>19, <1>20, <1>21, <1>22, <1>23, <1>24, <1>25,
       <1>26
       DEF Next, Begin, Read, Flush, Finish

LEMMA ExclusiveStep == IInv /\ [Next]_vars => Exclusive'
  <1> SUFFICES ASSUME IInv, [Next]_vars
               PROVE  Exclusive'
    OBVIOUS
  <1>t. /\ req \in [Requests -> Request] /\ session \in [Sessions -> SessionRow]
        /\ used \subseteq UsedRow /\ granted \subseteq Nat \X Sessions
        /\ minted \in Nat /\ opened \in 0 .. MaxSessions /\ MaxSessions \in Nat
    BY NatAssumption DEF IInv, TypeOK
  <1>v. /\ \A s \in Sessions : s \in Nat /\ session[s].digest \in Nat
        /\ \A u \in used : u.digest \in Nat /\ u.session \in Sessions
        /\ \A g \in granted : g[1] \in Nat /\ g[2] \in Sessions
    BY <1>t DEF SessionRow, UsedRow, Sessions
  <1>p. Exclusive
    BY DEF IInv, TypeOK
  <1> USE DEF Exclusive, HasFlushed, LocksFree, Request
  <1>0. ASSUME UNCHANGED vars PROVE Exclusive'
    BY <1>0, <1>p DEF vars
  <1>1. ASSUME Tick PROVE Exclusive'
    BY <1>1, <1>t, <1>p DEF Tick, tables, tokens
  <1>2. ASSUME NEW r \in Requests, NEW a \in Accounts, Register(r, a) PROVE Exclusive'
    BY <1>2, <1>t, <1>p DEF Register, tables, tokens, Start, Idle
  <1>3. ASSUME NEW r \in Requests, NEW a \in Accounts, NEW m \in BOOLEAN, LoginRefused(r, a, m)
        PROVE  Exclusive'
    BY <1>3, <1>t, <1>p DEF LoginRefused, tables, tokens, Start, Idle
  <1>4. ASSUME NEW r \in Requests, NEW a \in Accounts, LoginChallenged(r, a) PROVE Exclusive'
    BY <1>4, <1>t, <1>p DEF LoginChallenged, tables, tokens, Start, Idle
  <1>5. ASSUME NEW r \in Requests, NEW a \in Accounts, Login(r, a) PROVE Exclusive'
    BY <1>5, <1>t, <1>p DEF Login, tables, tokens, Start, Idle
  <1>6. ASSUME NEW r \in Requests, NEW tok \in 1 .. minted, Refresh(r, tok) PROVE Exclusive'
    BY <1>6, <1>t, <1>p DEF Refresh, tables, tokens, Start, Idle
  <1>7. ASSUME NEW r \in Requests, NEW u \in used, RefreshReplayed(r, u) PROVE Exclusive'
    BY <1>7, <1>t, <1>p DEF RefreshReplayed, tables, tokens, Start, Idle
  <1>8. ASSUME NEW r \in Requests, NEW s \in Sessions, Logout(r, s) PROVE Exclusive'
    BY <1>8, <1>t, <1>p DEF Logout, tables, tokens, Start, Idle
  <1>9. ASSUME NEW r \in Requests, NEW s \in Sessions, LogoutAll(r, s) PROVE Exclusive'
    BY <1>9, <1>t, <1>p DEF LogoutAll, tables, tokens, Start, Idle
  <1>10. ASSUME NEW r \in Requests, NEW s \in Sessions, Delete(r, s) PROVE Exclusive'
    BY <1>10, <1>t, <1>p DEF Delete, tables, tokens, Start, Idle
  <1>11. ASSUME NEW r \in Requests, NEW s \in Sessions, RefreshLoad(r, s) PROVE Exclusive'
    BY <1>11, <1>t, <1>p DEF RefreshLoad, tables, tokens
  <1>12. ASSUME NEW r \in Requests, RefreshRejected(r) PROVE Exclusive'
    BY <1>12, <1>t, <1>p DEF RefreshRejected, tables, tokens, GoTo
  <1>13. ASSUME NEW r \in Requests, LogoutAllSelect(r) PROVE Exclusive'
    BY <1>13, <1>t, <1>p DEF LogoutAllSelect, tables, tokens
  <1>14. ASSUME NEW r \in Requests, LoginFlush(r) PROVE Exclusive'
    BY <1>14, <1>t, <1>p DEF LoginFlush, tables, tokens, GoTo
  <1>15. ASSUME NEW r \in Requests, ReplayFlush(r) PROVE Exclusive'
    BY <1>15, <1>t, <1>p DEF ReplayFlush, tables, tokens
  <1>16. ASSUME NEW r \in Requests, RefreshFlush(r) PROVE Exclusive'
    BY <1>16, <1>t, <1>p DEF RefreshFlush, tables, tokens
  <1>17. ASSUME NEW r \in Requests, RevokeFlush(r) PROVE Exclusive'
    BY <1>17, <1>t, <1>p DEF RevokeFlush, tables, tokens, GoTo
  <1>18. ASSUME NEW r \in Requests, DeleteFlush(r) PROVE Exclusive'
    BY <1>18, <1>t, <1>p DEF DeleteFlush, tables, tokens
  <1>19. ASSUME NEW r \in Requests, CommitRegister(r) PROVE Exclusive'
    BY <1>19, <1>t, <1>p DEF CommitRegister, tables, tokens, End, Idle
  <1>20. ASSUME NEW r \in Requests, CommitLogin(r) PROVE Exclusive'
    BY <1>20, <1>t, <1>p, CommitLoginEffect DEF Idle
  <1>21. ASSUME NEW r \in Requests, CommitRefresh(r) PROVE Exclusive'
    BY <1>21, <1>t, <1>p, CommitRefreshEffect DEF Idle
  <1>22. ASSUME NEW r \in Requests, CommitRevoke(r) PROVE Exclusive'
    BY <1>22, <1>t, <1>p, CommitRevokeEffect DEF Idle
  <1>23. ASSUME NEW r \in Requests, CommitDelete(r) PROVE Exclusive'
    BY <1>23, <1>t, <1>p, CommitDeleteEffect DEF Idle
  <1>24. ASSUME NEW r \in Requests, Rollback(r) PROVE Exclusive'
    BY <1>24, <1>t, <1>p DEF Rollback, tables, tokens, End, Idle
  <1>25. ASSUME NEW r \in Requests, Fail(r) PROVE Exclusive'
    BY <1>25, <1>t, <1>p DEF Fail, tables, tokens, End, Idle
  <1>26. ASSUME NEW r \in Requests, Conflict(r) PROVE Exclusive'
    BY <1>26, <1>t, <1>p DEF Conflict, tables, tokens, GoTo
  <1>. QED
    BY <1>0, <1>1, <1>2, <1>3, <1>4, <1>5, <1>6, <1>7, <1>8, <1>9, <1>10, <1>11, <1>12,
       <1>13, <1>14, <1>15, <1>16, <1>17, <1>18, <1>19, <1>20, <1>21, <1>22, <1>23, <1>24, <1>25,
       <1>26
       DEF Next, Begin, Read, Flush, Finish

LEMMA EndingStep == IInv /\ [Next]_vars => Ending'
  <1> SUFFICES ASSUME IInv, [Next]_vars
               PROVE  Ending'
    OBVIOUS
  <1>t. /\ req \in [Requests -> Request] /\ session \in [Sessions -> SessionRow]
        /\ used \subseteq UsedRow /\ granted \subseteq Nat \X Sessions
        /\ minted \in Nat /\ opened \in 0 .. MaxSessions /\ MaxSessions \in Nat
    BY NatAssumption DEF IInv, TypeOK
  <1>v. /\ \A s \in Sessions : s \in Nat /\ session[s].digest \in Nat
        /\ \A u \in used : u.digest \in Nat /\ u.session \in Sessions
        /\ \A g \in granted : g[1] \in Nat /\ g[2] \in Sessions
    BY <1>t DEF SessionRow, UsedRow, Sessions
  <1>p. Ending /\ Exclusive /\ Rotating /\ OpeningFresh
    BY DEF IInv, TypeOK
  <1> USE DEF Ending, Exists, Inserting, Deleting, HasFlushed, LocksFree, Exclusive,
     Rotating, OpeningFresh, Issuing, Request
  <1>0. ASSUME UNCHANGED vars PROVE Ending'
    BY <1>0, <1>p DEF vars
  <1>1. ASSUME Tick PROVE Ending'
    BY <1>1, <1>t, <1>p DEF Tick, tables, tokens
  <1>2. ASSUME NEW r \in Requests, NEW a \in Accounts, Register(r, a) PROVE Ending'
    BY <1>2, <1>t, <1>p DEF Register, tables, tokens, Start, Idle
  <1>3. ASSUME NEW r \in Requests, NEW a \in Accounts, NEW m \in BOOLEAN, LoginRefused(r, a, m)
        PROVE  Ending'
    BY <1>3, <1>t, <1>p DEF LoginRefused, tables, tokens, Start, Idle
  <1>4. ASSUME NEW r \in Requests, NEW a \in Accounts, LoginChallenged(r, a) PROVE Ending'
    BY <1>4, <1>t, <1>p DEF LoginChallenged, tables, tokens, Start, Idle
  <1>5. ASSUME NEW r \in Requests, NEW a \in Accounts, Login(r, a) PROVE Ending'
    BY <1>5, <1>t, <1>p DEF Login, tables, tokens, Start, Idle
  <1>6. ASSUME NEW r \in Requests, NEW tok \in 1 .. minted, Refresh(r, tok) PROVE Ending'
    BY <1>6, <1>t, <1>p DEF Refresh, tables, tokens, Start, Idle
  <1>7. ASSUME NEW r \in Requests, NEW u \in used, RefreshReplayed(r, u) PROVE Ending'
    BY <1>7, <1>t, <1>p DEF RefreshReplayed, tables, tokens, Start, Idle
  <1>8. ASSUME NEW r \in Requests, NEW s \in Sessions, Logout(r, s) PROVE Ending'
    BY <1>8, <1>t, <1>p DEF Logout, tables, tokens, Start, Idle
  <1>9. ASSUME NEW r \in Requests, NEW s \in Sessions, LogoutAll(r, s) PROVE Ending'
    BY <1>9, <1>t, <1>p DEF LogoutAll, tables, tokens, Start, Idle
  <1>10. ASSUME NEW r \in Requests, NEW s \in Sessions, Delete(r, s) PROVE Ending'
    BY <1>10, <1>t, <1>p DEF Delete, tables, tokens, Start, Idle
  <1>11. ASSUME NEW r \in Requests, NEW s \in Sessions, RefreshLoad(r, s) PROVE Ending'
    BY <1>11, <1>t, <1>p DEF RefreshLoad, tables, tokens
  <1>12. ASSUME NEW r \in Requests, RefreshRejected(r) PROVE Ending'
    BY <1>12, <1>t, <1>p DEF RefreshRejected, tables, tokens, GoTo
  <1>13. ASSUME NEW r \in Requests, LogoutAllSelect(r) PROVE Ending'
    BY <1>13, <1>t, <1>p DEF LogoutAllSelect, tables, tokens
  <1>14. ASSUME NEW r \in Requests, LoginFlush(r) PROVE Ending'
    BY <1>14, <1>t, <1>p DEF LoginFlush, tables, tokens, GoTo
  <1>15. ASSUME NEW r \in Requests, ReplayFlush(r) PROVE Ending'
    BY <1>15, <1>t, <1>p DEF ReplayFlush, tables, tokens
  <1>16. ASSUME NEW r \in Requests, RefreshFlush(r) PROVE Ending'
    BY <1>16, <1>t, <1>p DEF RefreshFlush, tables, tokens
  <1>17. ASSUME NEW r \in Requests, RevokeFlush(r) PROVE Ending'
    BY <1>17, <1>t, <1>p DEF RevokeFlush, tables, tokens, GoTo
  <1>18. ASSUME NEW r \in Requests, DeleteFlush(r) PROVE Ending'
    BY <1>18, <1>t, <1>p DEF DeleteFlush, tables, tokens
  <1>19. ASSUME NEW r \in Requests, CommitRegister(r) PROVE Ending'
    BY <1>19, <1>t, <1>p DEF CommitRegister, tables, tokens, End, Idle
  <1>20. ASSUME NEW r \in Requests, CommitLogin(r) PROVE Ending'
    BY <1>20, <1>t, <1>p, CommitLoginEffect DEF Idle
  <1>21. ASSUME NEW r \in Requests, CommitRefresh(r) PROVE Ending'
    BY <1>21, <1>t, <1>p, CommitRefreshEffect DEF Idle
  <1>22. ASSUME NEW r \in Requests, CommitRevoke(r) PROVE Ending'
    BY <1>22, <1>t, <1>p, CommitRevokeEffect DEF Idle
  <1>23. ASSUME NEW r \in Requests, CommitDelete(r) PROVE Ending'
    BY <1>23, <1>t, <1>p, CommitDeleteEffect DEF Idle
  <1>24. ASSUME NEW r \in Requests, Rollback(r) PROVE Ending'
    BY <1>24, <1>t, <1>p DEF Rollback, tables, tokens, End, Idle
  <1>25. ASSUME NEW r \in Requests, Fail(r) PROVE Ending'
    BY <1>25, <1>t, <1>p DEF Fail, tables, tokens, End, Idle
  <1>26. ASSUME NEW r \in Requests, Conflict(r) PROVE Ending'
    BY <1>26, <1>t, <1>p DEF Conflict, tables, tokens, GoTo
  <1>. QED
    BY <1>0, <1>1, <1>2, <1>3, <1>4, <1>5, <1>6, <1>7, <1>8, <1>9, <1>10, <1>11, <1>12,
       <1>13, <1>14, <1>15, <1>16, <1>17, <1>18, <1>19, <1>20, <1>21, <1>22, <1>23, <1>24, <1>25,
       <1>26
       DEF Next, Begin, Read, Flush, Finish

\* Only a commit changes a committed row; other steps draw at most one token and one id.
LEMMA OnlyCommitsWrite ==
  ASSUME IInv, [Next]_vars
  PROVE  \/ /\ UNCHANGED <<account, session, used, authEvent, granted>>
            /\ minted' >= minted /\ opened' >= opened
         \/ \E r \in Requests : CommitRegister(r) \/ CommitLogin(r) \/ CommitRefresh(r)
                                \/ CommitRevoke(r) \/ CommitDelete(r)
  <1> DEFINE Kept == /\ UNCHANGED <<account, session, used, authEvent, granted>>
                     /\ minted' >= minted /\ opened' >= opened
  <1>t. minted \in Nat /\ opened \in Nat
    BY NatAssumption DEF IInv, TypeOK
  <1>0. UNCHANGED vars \/ Tick => Kept
    BY <1>t DEF vars, Tick, tables, tokens
  <1>1. ASSUME NEW r \in Requests, Begin(r) PROVE Kept
    <2>1. ASSUME NEW a \in Accounts, Login(r, a) PROVE Kept
      BY <2>1, <1>t DEF Login, tables
    <2>2. ASSUME NEW a \in Accounts, \/ Register(r, a) \/ LoginChallenged(r, a)
                                    \/ \E m \in BOOLEAN : LoginRefused(r, a, m)
          PROVE  Kept
      BY <2>2, <1>t DEF Register, LoginChallenged, LoginRefused, tables, tokens
    <2>3. ASSUME NEW tok, Refresh(r, tok) PROVE Kept
      BY <2>3, <1>t DEF Refresh, tables, tokens
    <2>4. ASSUME NEW u, RefreshReplayed(r, u) PROVE Kept
      BY <2>4, <1>t DEF RefreshReplayed, tables, tokens
    <2>5. ASSUME NEW s, Logout(r, s) \/ LogoutAll(r, s) \/ Delete(r, s) PROVE Kept
      BY <2>5, <1>t DEF Logout, LogoutAll, Delete, tables, tokens
    <2>. QED
      BY <1>1, <2>1, <2>2, <2>3, <2>4, <2>5 DEF Begin
  <1>2. ASSUME NEW r \in Requests, Read(r) \/ Fail(r) \/ Rollback(r) PROVE Kept
    <2>1. ASSUME NEW s \in Sessions, RefreshLoad(r, s) PROVE Kept
      BY <2>1, <1>t DEF RefreshLoad, tables
    <2>2. RefreshRejected(r) \/ LogoutAllSelect(r) \/ Fail(r) \/ Rollback(r) => Kept
      BY <1>t DEF RefreshRejected, LogoutAllSelect, Fail, Rollback, tables, tokens
    <2>. QED
      BY <1>2, <2>1, <2>2 DEF Read
  <1>3. ASSUME NEW r \in Requests, Flush(r) PROVE Kept
    BY <1>3, <1>t DEF Flush, LoginFlush, ReplayFlush, RefreshFlush, RevokeFlush,
       DeleteFlush,
       Conflict, tables, tokens
  <1>. QED
    BY <1>0, <1>1, <1>2, <1>3 DEF Next, Finish

LEMMA DrawnStep == IInv /\ [Next]_vars => Drawn'
  <1> SUFFICES ASSUME IInv, [Next]_vars PROVE Drawn'
    OBVIOUS
  <1>t. /\ session \in [Sessions -> SessionRow] /\ granted \subseteq Nat \X Sessions
        /\ used \subseteq UsedRow /\ minted \in Nat /\ opened \in Nat
        /\ account \in [Accounts -> {"absent", "present", "deleted"}]
    BY NatAssumption DEF IInv, TypeOK
  <1>v. /\ \A s \in Sessions : s \in Nat /\ session[s].digest \in Nat
        /\ \A u \in used : u.digest \in Nat /\ u.session \in Sessions
        /\ \A g \in granted : g[1] \in Nat /\ g[2] \in Sessions
    BY <1>t DEF SessionRow, UsedRow, Sessions
  <1>p. Drawn /\ IssuedFresh /\ OpeningFresh /\ Rotating
    BY DEF IInv, TypeOK
  <1>0. ASSUME UNCHANGED <<account, session, used, granted>>, minted' >= minted, opened' >= opened
        PROVE  Drawn'
    <2>1. minted' \in Nat /\ opened' \in Nat
      BY StepTypeOK, NatAssumption DEF IInv, TypeOK
    <2>2. \A s \in Sessions : /\ session'[s].st # "free" => s <= opened'
                              /\ session'[s].digest <= minted'
      BY <1>0, <1>t, <1>v, <1>p, <2>1 DEF Drawn
    <2>3. \A u \in used' : u.digest <= minted'
      BY <1>0, <1>t, <1>v, <1>p, <2>1 DEF Drawn
    <2>4. \A g \in granted' : g[1] <= minted' /\ session'[g[2]].st # "free"
      BY <1>0, <1>t, <1>v, <1>p, <2>1 DEF Drawn
    <2>. QED
      BY <1>0, <1>p, <2>2, <2>3, <2>4 DEF Drawn
  <1>1. ASSUME NEW r \in Requests, CommitRegister(r) PROVE Drawn'
    BY <1>1, <1>t, <1>v, <1>p DEF CommitRegister, tokens, Drawn
  <1>2. ASSUME NEW r \in Requests, CommitLogin(r) PROVE Drawn'
    <2>1. Issuing(r) /\ req[r].op = "login"
      BY <1>2, CommitLoginEffect DEF Issuing
    <2>2. /\ req[r].new \in 1 .. minted /\ \A s \in Sessions : session[s].digest # req[r].new
          /\ req[r].ses \in 1 .. opened
      BY <2>1, <1>p DEF IssuedFresh, OpeningFresh
    <2>3. /\ req[r].ses \in Sessions /\ session'[req[r].ses].st = "open"
          /\ session'[req[r].ses].digest = req[r].new
          /\ \A s \in Sessions \ {req[r].ses} : session'[s] = session[s]
          /\ granted' = granted \cup {<<req[r].new, req[r].ses>>}
          /\ UNCHANGED <<used, opened, minted>>
      BY <1>2, CommitLoginEffect
    <2>. QED
      BY <2>2, <2>3, <1>t, <1>v, <1>p DEF Drawn
  <1>3. ASSUME NEW r \in Requests, CommitRefresh(r) PROVE Drawn'
    <2>1. Issuing(r) /\ req[r].op = "refresh" /\ req[r].at = "return"
      BY <1>3, CommitRefreshEffect DEF Issuing
    <2>2. /\ req[r].new \in 1 .. minted /\ \A s \in Sessions : session[s].digest # req[r].new
          /\ session[req[r].ses].st # "free" /\ session[req[r].ses].digest = req[r].tok
      BY <2>1, <1>p DEF IssuedFresh, Rotating
    <2>3. /\ req[r].ses \in Sessions
          /\ \A s \in Sessions : session'[s].st = session[s].st
          /\ \A s \in Sessions \ {req[r].ses} : session'[s].digest = session[s].digest
          /\ session'[req[r].ses].digest = req[r].new
          /\ used' = used \cup {[digest |-> req[r].tok, session |-> req[r].ses]}
          /\ granted' = granted \cup {<<req[r].new, req[r].ses>>}
          /\ UNCHANGED <<opened, minted>>
      BY <1>3, CommitRefreshEffect
    <2>4. \A u \in used' : u.digest <= minted'
      BY <2>2, <2>3, <1>v, <1>p DEF Drawn
    <2>5. \A g \in granted' : g[1] <= minted' /\ session'[g[2]].st # "free"
      BY <2>2, <2>3, <1>t, <1>v, <1>p DEF Drawn
    <2>6. \A s1, s2 \in Sessions : session'[s1].st # "free" /\ s1 # s2
                                  => session'[s1].digest # session'[s2].digest
      BY <2>2, <2>3, <1>v, <1>p DEF Drawn
    <2>7. \A s \in Sessions : /\ session'[s].st # "free" => s <= opened'
                              /\ session'[s].st = "free" <=> session'[s].digest = 0
                              /\ session'[s].digest <= minted'
      BY <2>2, <2>3, <1>t, <1>v, <1>p DEF Drawn
    <2>. QED
      BY <2>4, <2>5, <2>6, <2>7 DEF Drawn
  <1>4. ASSUME NEW r \in Requests, CommitRevoke(r) PROVE Drawn'
    <2>1. /\ \A s \in Sessions : /\ session'[s].st = "free" <=> session[s].st = "free"
                                 /\ session'[s].digest = session[s].digest
          /\ UNCHANGED <<used, granted, opened, minted>>
      BY <1>4, CommitRevokeEffect DEF Exists
    <2>. QED
      BY <2>1, <1>v, <1>p DEF Drawn
  <1>5. ASSUME NEW r \in Requests, CommitDelete(r) PROVE Drawn'
    <2>1. /\ \A s \in Sessions : /\ session'[s].st = "free" <=> session[s].st = "free"
                                 /\ session'[s].digest = session[s].digest
          /\ used' \subseteq used /\ UNCHANGED <<granted, opened, minted>>
      BY <1>5, CommitDeleteEffect DEF Exists
    <2>. QED
      BY <2>1, <1>v, <1>p DEF Drawn
  <1>. QED
    BY <1>0, <1>1, <1>2, <1>3, <1>4, <1>5, OnlyCommitsWrite

LEMMA CurrentNeverUsedStep == IInv /\ [Next]_vars => CurrentNeverUsed'
  <1> SUFFICES ASSUME IInv, [Next]_vars PROVE CurrentNeverUsed'
    OBVIOUS
  <1>t. /\ session \in [Sessions -> SessionRow] /\ granted \subseteq Nat \X Sessions
        /\ used \subseteq UsedRow /\ minted \in Nat /\ opened \in Nat
        /\ account \in [Accounts -> {"absent", "present", "deleted"}]
    BY NatAssumption DEF IInv, TypeOK
  <1>v. /\ \A s \in Sessions : s \in Nat /\ session[s].digest \in Nat
        /\ \A u \in used : u.digest \in Nat /\ u.session \in Sessions
        /\ \A g \in granted : g[1] \in Nat /\ g[2] \in Sessions
    BY <1>t DEF SessionRow, UsedRow, Sessions
  <1>p. CurrentNeverUsed /\ IssuedFresh /\ Rotating /\ Drawn
    BY DEF IInv, TypeOK
  <1> USE DEF CurrentNeverUsed, UsedDigests, Exists, IssuedFresh, Rotating, Drawn, Issuing
  <1>0. ASSUME UNCHANGED <<account, session, used, granted>>, minted' >= minted, opened' >= opened
        PROVE  CurrentNeverUsed'
    BY <1>0, <1>t, <1>v, <1>p
  <1>1. ASSUME NEW r \in Requests, CommitRegister(r) PROVE CurrentNeverUsed'
    BY <1>1, <1>t, <1>v, <1>p DEF CommitRegister, tokens
  <1>2. ASSUME NEW r \in Requests, CommitLogin(r) PROVE CurrentNeverUsed'
    BY <1>2, <1>t, <1>p, <1>v, CommitLoginEffect
  <1>3. ASSUME NEW r \in Requests, CommitRefresh(r) PROVE CurrentNeverUsed'
    <2>1. Issuing(r) /\ req[r].op = "refresh" /\ req[r].at = "return"
      BY <1>3, CommitRefreshEffect
    <2>2. /\ session[req[r].ses].digest = req[r].tok /\ session[req[r].ses].st # "free"
          /\ req[r].new \notin UsedDigests
          /\ \A s \in Sessions : session[s].digest # req[r].new
      BY <2>1, <1>p
    <2>3. /\ req[r].ses \in Sessions
          /\ \A s \in Sessions : session'[s].st = session[s].st
          /\ \A s \in Sessions \ {req[r].ses} : session'[s].digest = session[s].digest
          /\ session'[req[r].ses].digest = req[r].new
          /\ used' = used \cup {[digest |-> req[r].tok, session |-> req[r].ses]}
      BY <1>3, CommitRefreshEffect
    <2>4. \A d \in UsedDigests' : d \in UsedDigests \/ d = req[r].tok
      <3>1. \A u \in used' : u \in used \/ u.digest = req[r].tok
        BY <2>3
      <3>. QED
        BY <3>1
    <2>. SUFFICES ASSUME NEW s \in Sessions, session'[s].st \in {"open", "revoked"}
                  PROVE  session'[s].digest \notin UsedDigests'
      OBVIOUS
    <2>5. CASE s = req[r].ses
      BY <2>2, <2>3, <2>4, <2>5
    <2>6. CASE s # req[r].ses
      <3>1. session'[s].digest = session[s].digest /\ session[s].st \in {"open", "revoked"}
        BY <2>3, <2>6
      <3>2. session[s].digest # req[r].tok
        BY <3>1, <2>2, <2>3, <2>6, <1>p
      <3>3. session[s].digest \notin UsedDigests
        BY <3>1, <1>p
      <3>. QED
        BY <3>1, <3>2, <3>3, <2>4
    <2>. QED
      BY <2>5, <2>6
  <1>4. ASSUME NEW r \in Requests, CommitRevoke(r) PROVE CurrentNeverUsed'
    BY <1>4, <1>t, <1>p, <1>v, CommitRevokeEffect
  <1>5. ASSUME NEW r \in Requests, CommitDelete(r) PROVE CurrentNeverUsed'
    BY <1>5, <1>t, <1>p, <1>v, CommitDeleteEffect
  <1>. QED
    BY <1>0, <1>1, <1>2, <1>3, <1>4, <1>5, OnlyCommitsWrite

LEMMA TokensAccountedStep == IInv /\ [Next]_vars => TokensAccounted'
  <1> SUFFICES ASSUME IInv, [Next]_vars PROVE TokensAccounted'
    OBVIOUS
  <1>t. /\ session \in [Sessions -> SessionRow] /\ granted \subseteq Nat \X Sessions
        /\ used \subseteq UsedRow /\ minted \in Nat /\ opened \in Nat
        /\ account \in [Accounts -> {"absent", "present", "deleted"}]
    BY NatAssumption DEF IInv, TypeOK
  <1>v. /\ \A s \in Sessions : s \in Nat /\ session[s].digest \in Nat
        /\ \A u \in used : u.digest \in Nat /\ u.session \in Sessions
        /\ \A g \in granted : g[1] \in Nat /\ g[2] \in Sessions
    BY <1>t DEF SessionRow, UsedRow, Sessions
  <1>p. TokensAccounted /\ Drawn /\ Rotating /\ OpeningFresh
    BY DEF IInv, TypeOK
  <1> USE DEF TokensAccounted, Exists, Drawn, IssuedFresh, OpeningFresh, Rotating, Issuing
  <1>0. ASSUME UNCHANGED <<account, session, used, granted>>, minted' >= minted, opened' >= opened
        PROVE  TokensAccounted'
    BY <1>0, <1>t, <1>v, <1>p
  <1>1. ASSUME NEW r \in Requests, CommitRegister(r) PROVE TokensAccounted'
    BY <1>1, <1>t, <1>v, <1>p DEF CommitRegister, tokens
  <1>2. ASSUME NEW r \in Requests, CommitLogin(r) PROVE TokensAccounted'
    BY <1>2, <1>t, <1>p, <1>v, CommitLoginEffect
  <1>3. ASSUME NEW r \in Requests, CommitRefresh(r) PROVE TokensAccounted'
    <2>1. Issuing(r) /\ req[r].op = "refresh" /\ req[r].at = "return"
      BY <1>3, CommitRefreshEffect
    <2>2. session[req[r].ses].digest = req[r].tok
      BY <2>1, <1>p
    <2>3. /\ req[r].ses \in Sessions
          /\ \A s \in Sessions : session'[s].st = session[s].st
          /\ \A s \in Sessions \ {req[r].ses} : session'[s].digest = session[s].digest
          /\ session'[req[r].ses].digest = req[r].new
          /\ used' = used \cup {[digest |-> req[r].tok, session |-> req[r].ses]}
          /\ granted' = granted \cup {<<req[r].new, req[r].ses>>}
      BY <1>3, CommitRefreshEffect
    <2>. QED
      BY <2>2, <2>3, <1>v, <1>p
  <1>4. ASSUME NEW r \in Requests, CommitRevoke(r) PROVE TokensAccounted'
    BY <1>4, <1>t, <1>p, <1>v, CommitRevokeEffect
  <1>5. ASSUME NEW r \in Requests, CommitDelete(r) PROVE TokensAccounted'
    BY <1>5, <1>t, <1>p, <1>v, CommitDeleteEffect
  <1>. QED
    BY <1>0, <1>1, <1>2, <1>3, <1>4, <1>5, OnlyCommitsWrite

LEMMA CascadeCompleteStep == IInv /\ [Next]_vars => CascadeComplete'
  <1> SUFFICES ASSUME IInv, [Next]_vars PROVE CascadeComplete'
    OBVIOUS
  <1>t. /\ session \in [Sessions -> SessionRow] /\ granted \subseteq Nat \X Sessions
        /\ used \subseteq UsedRow /\ minted \in Nat /\ opened \in Nat
        /\ account \in [Accounts -> {"absent", "present", "deleted"}]
    BY NatAssumption DEF IInv, TypeOK
  <1>v. /\ \A s \in Sessions : s \in Nat /\ session[s].digest \in Nat
        /\ \A u \in used : u.digest \in Nat /\ u.session \in Sessions
        /\ \A g \in granted : g[1] \in Nat /\ g[2] \in Sessions
    BY <1>t DEF SessionRow, UsedRow, Sessions
  <1>p. CascadeComplete /\ OpeningFresh /\ Ending /\ Rotating
    BY DEF IInv, TypeOK
  <1> USE DEF CascadeComplete, Exists, OpeningFresh, Ending, Rotating, Inserting, Issuing
  <1>0. ASSUME UNCHANGED <<account, session, used, granted>>, minted' >= minted, opened' >= opened
        PROVE  CascadeComplete'
    BY <1>0, <1>t, <1>v, <1>p
  <1>1. ASSUME NEW r \in Requests, CommitRegister(r) PROVE CascadeComplete'
    BY <1>1, <1>t, <1>v, <1>p DEF CommitRegister, tokens
  <1>2. ASSUME NEW r \in Requests, CommitLogin(r) PROVE CascadeComplete'
    <2>1. Issuing(r) /\ req[r].op = "login" /\ req[r].at = "return"
      BY <1>2, CommitLoginEffect
    <2>2. account[req[r].user] = "present"
      BY <2>1, <1>p
    <2>3. /\ \A s \in Sessions \ {req[r].ses} : session'[s] = session[s]
          /\ req[r].ses \in Sessions /\ session'[req[r].ses].st = "open"
          /\ session'[req[r].ses].user = req[r].user
          /\ UNCHANGED <<account, used>>
      BY <1>2, CommitLoginEffect
    <2>. QED
      BY <2>2, <2>3, <1>v, <1>p
  <1>3. ASSUME NEW r \in Requests, CommitRefresh(r) PROVE CascadeComplete'
    <2>1. Issuing(r) /\ req[r].op = "refresh" /\ req[r].at = "return"
      BY <1>3, CommitRefreshEffect
    <2>2. Exists(req[r].ses)
      BY <2>1, <1>p
    <2>3. /\ req[r].ses \in Sessions
          /\ \A s \in Sessions : /\ session'[s].st = session[s].st
                                 /\ session'[s].user = session[s].user
          /\ used' = used \cup {[digest |-> req[r].tok, session |-> req[r].ses]}
          /\ UNCHANGED account
      BY <1>3, CommitRefreshEffect
    <2>. QED
      BY <2>2, <2>3, <1>v, <1>p
  <1>4. ASSUME NEW r \in Requests, CommitRevoke(r) PROVE CascadeComplete'
    <2>1. /\ \A s \in Sessions : /\ Exists(s) <=> session'[s].st \in {"open", "revoked"}
                                 /\ session'[s].user = session[s].user
          /\ UNCHANGED <<account, used>>
      BY <1>4, CommitRevokeEffect
    <2>. QED
      BY <2>1, <1>v, <1>p
  <1>5. ASSUME NEW r \in Requests, CommitDelete(r) PROVE CascadeComplete'
    <2>1. /\ req[r].rows = {s \in Sessions : Exists(s) /\ session[s].user = req[r].user}
          /\ account' = [account EXCEPT ![req[r].user] = "deleted"]
          /\ used' = {u \in used : u.session \notin req[r].rows}
          /\ \A s \in Sessions : /\ session'[s].user = session[s].user
                                 /\ session'[s].st = IF s \in req[r].rows THEN "gone"
                                                                         ELSE session[s].st
      BY <1>5, CommitDeleteEffect
    <2>2. \A a \in Accounts \ {req[r].user} : account'[a] = account[a]
      BY <2>1
    <2>3. \A s \in Sessions : session'[s].st \in {"open", "revoked"}
                              => account'[session'[s].user] = "present"
      <3>. SUFFICES ASSUME NEW s \in Sessions, session'[s].st \in {"open", "revoked"}
                    PROVE  account'[session'[s].user] = "present"
        OBVIOUS
      <3>1. s \notin req[r].rows /\ Exists(s) /\ session'[s].user = session[s].user
        BY <2>1
      <3>2. session[s].user # req[r].user
        BY <3>1, <2>1
      <3>3. account[session[s].user] = "present"
        BY <3>1, <1>p
      <3>. QED
        BY <3>1, <3>2, <3>3, <2>1, <1>t
    <2>4. \A u \in used' : session'[u.session].st \in {"open", "revoked"}
      BY <2>1, <1>v, <1>p
    <2>. QED
      BY <2>3, <2>4
  <1>. QED
    BY <1>0, <1>1, <1>2, <1>3, <1>4, <1>5, OnlyCommitsWrite

LEMMA InitIInv == Init => IInv
  <1> SUFFICES ASSUME Init PROVE IInv
    OBVIOUS
  <1>1. TypeOK
    BY InitTypeOK
  <1>2. \A r \in Requests : req[r].op = "none" /\ req[r].at = "idle" /\ req[r].rows = {}
    BY DEF Init, Idle
  <1>3. IssuedFresh /\ OpeningFresh /\ Rotating /\ Exclusive /\ Ending
    BY <1>2 DEF IssuedFresh, OpeningFresh, Rotating, Exclusive, Ending, Issuing, HasFlushed
  <1>4. \A s \in Sessions : session[s].st = "free" /\ session[s].digest = 0
    BY DEF Init
  <1>5. Drawn /\ CurrentNeverUsed /\ TokensAccounted /\ CascadeComplete
    BY <1>4 DEF Init, Drawn, CurrentNeverUsed, TokensAccounted, CascadeComplete, Exists
  <1>. QED
    BY <1>1, <1>3, <1>5 DEF IInv

LEMMA StepIInv == IInv /\ [Next]_vars => IInv'
  <1>1. IInv /\ [Next]_vars => TypeOK'
    BY StepTypeOK DEF IInv
  <1>. QED
    BY <1>1, IssuedFreshStep, OpeningFreshStep, DrawnStep, RotatingStep, ExclusiveStep,
       EndingStep, CurrentNeverUsedStep, TokensAccountedStep, CascadeCompleteStep DEF IInv

\* The strengthening holds in every reachable state.
THEOREM Inductive == Spec => []IInv
  BY InitIInv, StepIInv, PTL DEF Spec

\* refresh_session never records the token a session would accept next as used.
THEOREM CurrentTokenNeverUsed == Spec => []CurrentNeverUsed
  <1>1. IInv => CurrentNeverUsed
    BY DEF IInv
  <1>. QED
    BY <1>1, Inductive, PTL

\* No granted refresh token is forgotten: it is current, or on record as used.
THEOREM EveryTokenAccounted == Spec => []TokensAccounted
  <1>1. IInv => TokensAccounted
    BY DEF IInv
  <1>. QED
    BY <1>1, Inductive, PTL

\* The deletion of an account leaves no session and no used token of it behind.
THEOREM DeletionCascades == Spec => []CascadeComplete
  <1>1. IInv => CascadeComplete
    BY DEF IInv
  <1>. QED
    BY <1>1, Inductive, PTL

-----------------------------------------------------------------------------
\* A revoked or deleted session stays so: only free rows are opened, and the row locks keep
\* the rows a logout or a deletion has flushed as they are.
THEOREM RevokedStaysRevoked == Spec => NeverResurrected
  <1> DEFINE Kept == \A s \in Sessions : session[s].st \in {"revoked", "gone"}
                        => session'[s].st \in {session[s].st, "gone"}
  <1>1. ASSUME IInv, [Next]_vars PROVE Kept
    <2>1. ASSUME NEW r \in Requests, CommitLogin(r) PROVE Kept
      <3>1. session[req[r].ses].st = "free"
        BY <1>1, <2>1, CommitLoginEffect DEF IInv, OpeningFresh, Issuing
      <3>. QED
        BY <2>1, <3>1, CommitLoginEffect, <1>1
    <2>2. ASSUME NEW r \in Requests, CommitRefresh(r) PROVE Kept
      BY <2>2, <1>1, CommitRefreshEffect
    <2>3. ASSUME NEW r \in Requests, CommitRevoke(r) PROVE Kept
      <3>1. \A s \in req[r].rows : session[s].st # "gone"
        BY <2>3, <1>1, CommitRevokeEffect DEF Exists
      <3>. QED
        BY <2>3, <1>1, <3>1, CommitRevokeEffect
    <2>4. ASSUME NEW r \in Requests, CommitDelete(r) PROVE Kept
      BY <2>4, <1>1, CommitDeleteEffect
    <2>5. ASSUME NEW r \in Requests, CommitRegister(r) PROVE Kept
      BY <2>5 DEF CommitRegister
    <2>. QED
      BY <1>1, <2>1, <2>2, <2>3, <2>4, <2>5, OnlyCommitsWrite
  <1>. QED
    BY <1>1, Inductive, PTL DEF NeverResurrected, Spec

-----------------------------------------------------------------------------
\* The committed rows implement the abstract session, commit by commit.

LEMMA LedgerInit == Init => Ledger!Init
  BY DEF Init, Ledger!Init, LedgerStatus, LedgerToken, LedgerSpent, StatusOf, TokenOf,
     SpentOf, Open

LEMMA LedgerStutter ==
  ASSUME UNCHANGED <<session, used>>
  PROVE  UNCHANGED Ledger!vars
  BY DEF Ledger!vars, LedgerStatus, LedgerToken, LedgerSpent, StatusOf, TokenOf, SpentOf,
     Open

\* A token about to be issued is fresh for the abstract session, too.
LEMMA IssuedIsFresh ==
  ASSUME IInv, NEW r \in Requests, Issuing(r)
  PROVE  Ledger!Fresh(req[r].new) /\ req[r].new \in Tokens
  <1>1. /\ req[r].new \in 1 .. minted /\ req[r].new \notin UsedDigests
        /\ \A s \in Sessions : session[s].digest # req[r].new
    BY DEF IInv, IssuedFresh
  <1>2. minted \in 0 .. MaxTokens /\ MaxTokens \in Nat
    BY NatAssumption DEF IInv, TypeOK
  <1>3. req[r].new \in Tokens /\ req[r].new # 0
    BY <1>1, <1>2 DEF Tokens
  <1>4. ASSUME NEW s \in Sessions
        PROVE  TokenOf(s) # req[r].new /\ req[r].new \notin SpentOf(s)
    BY <1>1, <1>3 DEF TokenOf, SpentOf, UsedDigests
  <1>. QED
    BY <1>3, <1>4 DEF Ledger!Fresh, LedgerToken, LedgerSpent

LEMMA LedgerOpens ==
  ASSUME IInv, NEW r \in Requests, CommitLogin(r), NEW n \in Sessions, n = req[r].ses
  PROVE  Ledger!Open(n, req[r].new)
  <1>1. /\ UNCHANGED used
        /\ \A s \in Sessions \ {n} : session'[s] = session[s]
        /\ session'[n].st = "open" /\ session'[n].digest = req[r].new
    BY CommitLoginEffect
  <1>2. Issuing(r) /\ session[n].st = "free"
    BY CommitLoginEffect DEF IInv, OpeningFresh, Issuing
  <1>3. Ledger!Fresh(req[r].new)
    BY <1>2, IssuedIsFresh
  <1>4. \A u \in used : u.session # n
    BY <1>2 DEF IInv, CascadeComplete, Exists
  <1>5. /\ StatusOf(n) = "unopened" /\ StatusOf(n)' = "live" /\ TokenOf(n)' = req[r].new
        /\ SpentOf(n)' = SpentOf(n)
    BY <1>1, <1>2, <1>4 DEF StatusOf, TokenOf, SpentOf, Open
  <1>6. \A s \in Sessions \ {n} : /\ StatusOf(s)' = StatusOf(s) /\ TokenOf(s)' = TokenOf(s)
                                 /\ SpentOf(s)' = SpentOf(s)
    BY <1>1 DEF StatusOf, TokenOf, SpentOf, Open
  <1>. QED
    BY <1>3, <1>5, <1>6 DEF Ledger!Open, LedgerStatus, LedgerToken, LedgerSpent

LEMMA LedgerExchanges ==
  ASSUME IInv, NEW r \in Requests, CommitRefresh(r), NEW n \in Sessions, n = req[r].ses
  PROVE  Ledger!Exchange(n, req[r].new) \/ UNCHANGED Ledger!vars
  <1>1. /\ \A s \in Sessions : session'[s].st = session[s].st
        /\ \A s \in Sessions \ {n} : session'[s].digest = session[s].digest
        /\ session'[n].digest = req[r].new
        /\ used' = used \cup {[digest |-> req[r].tok, session |-> n]}
    BY CommitRefreshEffect
  <1>2. Issuing(r) /\ session[n].digest = req[r].tok
    BY CommitRefreshEffect DEF IInv, Rotating, Issuing
  <1>3. Ledger!Fresh(req[r].new)
    BY <1>2, IssuedIsFresh
  <1>4. \A s \in Sessions : Open(s)' <=> Open(s)
    BY <1>1 DEF Open
  <1>5. \A s \in Sessions : StatusOf(s)' = StatusOf(s)
    BY <1>1, <1>4 DEF StatusOf
  <1>6. \A s \in Sessions \ {n} : {v \in used' : v.session = s} = {v \in used : v.session = s}
    BY <1>1
  <1>7. \A s \in Sessions \ {n} : TokenOf(s)' = TokenOf(s) /\ SpentOf(s)' = SpentOf(s)
    BY <1>1, <1>4, <1>6 DEF TokenOf, SpentOf
  <1>8. CASE ~ Open(n)
    <2>1. TokenOf(n)' = TokenOf(n) /\ SpentOf(n)' = SpentOf(n)
      BY <1>4, <1>8 DEF TokenOf, SpentOf
    <2>. QED
      BY <1>5, <1>7, <2>1 DEF Ledger!vars, LedgerStatus, LedgerToken, LedgerSpent
  <1>9. CASE Open(n)
    <2>1. StatusOf(n) = "live" /\ TokenOf(n) = req[r].tok /\ TokenOf(n)' = req[r].new
      BY <1>1, <1>2, <1>4, <1>9 DEF StatusOf, TokenOf, Open
    <2>2. SpentOf(n)' = SpentOf(n) \cup {req[r].tok}
      <3>1. /\ SpentOf(n) = {u.digest : u \in {v \in used : v.session = n}}
            /\ SpentOf(n)' = {u.digest : u \in {v \in used' : v.session = n}}
        BY <1>4, <1>9 DEF SpentOf
      <3>2. \A u \in used' : u.session = n => u \in used \/ u.digest = req[r].tok
        BY <1>1
      <3>3. \E u \in used' : u.session = n /\ u.digest = req[r].tok
        <4>1. [digest |-> req[r].tok, session |-> n] \in used'
          BY <1>1
        <4>. QED
          BY <4>1
      <3>4. \A d \in SpentOf(n)' : d \in SpentOf(n) \/ d = req[r].tok
        BY <3>1, <3>2
      <3>5. SpentOf(n) \subseteq SpentOf(n)'
        BY <3>1, <1>1
      <3>6. req[r].tok \in SpentOf(n)'
        BY <3>1, <3>3
      <3>. QED
        BY <3>4, <3>5, <3>6
    <2>. QED
      BY <1>3, <1>5, <1>7, <2>1, <2>2
         DEF Ledger!Exchange, LedgerStatus, LedgerToken, LedgerSpent
  <1>. QED
    BY <1>8, <1>9

\* Logouts and deletions: the live rows among those they hold are ended.
LEMMA LedgerFinishes ==
  ASSUME IInv, NEW R \in SUBSET Sessions,
         \A s \in R : Exists(s) /\ session'[s].st \in {"revoked", "gone"},
         \A s \in Sessions \ R : session'[s].st = session[s].st,
         \A s \in Sessions : session'[s].digest = session[s].digest,
         \A s \in Sessions \ R : {v \in used' : v.session = s} = {v \in used : v.session = s}
  PROVE  \E S \in SUBSET Sessions : Ledger!Finish(S)
  <1> DEFINE S == {s \in R : Open(s)}
  <1>1. \A s \in S : StatusOf(s) = "live"
    BY DEF StatusOf, Open
  <1>2. \A s \in R : StatusOf(s)' = "ended" /\ TokenOf(s)' = 0 /\ SpentOf(s)' = {}
    BY DEF StatusOf, TokenOf, SpentOf, Open
  <1>3. \A s \in R \ S : StatusOf(s) = "ended" /\ TokenOf(s) = 0 /\ SpentOf(s) = {}
    BY DEF StatusOf, TokenOf, SpentOf, Open, Exists
  <1>4. \A s \in Sessions \ R : Open(s)' <=> Open(s)
    BY DEF Open
  <1>5. \A s \in Sessions \ R : StatusOf(s)' = StatusOf(s) /\ TokenOf(s)' = TokenOf(s)
    BY <1>4 DEF StatusOf, TokenOf
  <1>6. \A s \in Sessions \ R : SpentOf(s)' = SpentOf(s)
    BY <1>4 DEF SpentOf
  <1>7. Ledger!Finish(S)
    BY <1>1, <1>2, <1>3, <1>5, <1>6, ZenonT(60) DEF Ledger!Finish, LedgerStatus, LedgerToken,
       LedgerSpent
  <1>. QED
    BY <1>7

\* Every commit opens a session, exchanges its token or ends sessions; no other step shows.
THEOREM LedgerImplemented == Spec => ImplementsLedger
  <1>1. ASSUME IInv, [Next]_vars PROVE [Ledger!Next]_(Ledger!vars)
    <2>1. ASSUME NEW r \in Requests, CommitLogin(r) PROVE Ledger!Next
      <3>1. req[r].ses \in Sessions /\ req[r].new \in Tokens
        BY <1>1, <2>1, CommitLoginEffect, IssuedIsFresh DEF Issuing
      <3>. QED
        BY <1>1, <2>1, <3>1, LedgerOpens DEF Ledger!Next
    <2>2. ASSUME NEW r \in Requests, CommitRefresh(r) PROVE [Ledger!Next]_(Ledger!vars)
      <3>1. req[r].ses \in Sessions /\ req[r].new \in Tokens
        BY <1>1, <2>2, CommitRefreshEffect, IssuedIsFresh DEF Issuing
      <3>. QED
        BY <1>1, <2>2, <3>1, LedgerExchanges DEF Ledger!Next
    <2>3. ASSUME NEW r \in Requests, CommitRevoke(r) PROVE Ledger!Next
      <3>1. PICK R \in SUBSET Sessions : R = req[r].rows
        BY <1>1, <2>3, CommitRevokeEffect
      <3>2. \E S \in SUBSET Sessions : Ledger!Finish(S)
        BY <1>1, <2>3, <3>1, CommitRevokeEffect, LedgerFinishes
      <3>. QED
        BY <3>2 DEF Ledger!Next
    <2>4. ASSUME NEW r \in Requests, CommitDelete(r) PROVE Ledger!Next
      <3>1. PICK R \in SUBSET Sessions : R = req[r].rows
        BY <1>1, <2>4, CommitDeleteEffect
      <3>2. \A s \in R : Exists(s) /\ session'[s].st = "gone"
        BY <1>1, <2>4, <3>1, CommitDeleteEffect
      <3>3. \A s \in Sessions \ R : {v \in used' : v.session = s} = {v \in used : v.session = s}
        BY <1>1, <2>4, <3>1, CommitDeleteEffect
      <3>4. \E S \in SUBSET Sessions : Ledger!Finish(S)
        BY <1>1, <2>4, <3>1, <3>2, <3>3, CommitDeleteEffect, LedgerFinishes, ZenonT(60)
      <3>. QED
        BY <3>4 DEF Ledger!Next
    <2>5. ASSUME NEW r \in Requests, CommitRegister(r) PROVE UNCHANGED Ledger!vars
      BY <2>5, LedgerStutter DEF CommitRegister
    <2>. QED
      BY <1>1, <2>1, <2>2, <2>3, <2>4, <2>5, LedgerStutter, OnlyCommitsWrite
  <1>. QED
    BY <1>1, LedgerInit, Inductive, PTL DEF Spec, ImplementsLedger, Ledger!Spec

-----------------------------------------------------------------------------
\* What two of the counterexamples of the runs come from, in every behaviour.

\* No refused password is on record, and the limiter refuses no login.
NoFailureRecorded == \A e \in authEvent : e.type = "login_succeeded"
NobodyLimited     == MaxFailedLogins > 0 => \A a \in Accounts : ~ Limited(a)

\* No step of a replay, its rollback included, changes a committed row.
ReplayIgnored ==
    [][\A r \in Requests : req[r].op = "replay" /\ req'[r] # req[r] => UNCHANGED tables]_vars

LEMMA RecordStep == IInv /\ NoFailureRecorded /\ [Next]_vars => NoFailureRecorded'
  <1> SUFFICES ASSUME IInv, NoFailureRecorded, [Next]_vars PROVE NoFailureRecorded'
    OBVIOUS
  <1>1. CASE UNCHANGED authEvent
    BY <1>1 DEF NoFailureRecorded
  <1>2. ASSUME NEW r \in Requests, CommitLogin(r) PROVE NoFailureRecorded'
    <2>1. authEvent' = authEvent \cup {[email |-> req[r].user, type |-> "login_succeeded",
                                        at |-> req[r].t, id |-> req[r].ses]}
      BY <1>2 DEF CommitLogin
    <2>. QED
      BY <2>1 DEF NoFailureRecorded
  <1>3. ASSUME NEW r \in Requests,
               CommitRegister(r) \/ CommitRefresh(r) \/ CommitRevoke(r) \/ CommitDelete(r)
        PROVE  UNCHANGED authEvent
    BY <1>3 DEF CommitRegister, CommitRefresh, CommitRevoke, CommitDelete
  <1>. QED
    BY <1>1, <1>2, <1>3, OnlyCommitsWrite

LEMMA NobodyCounted == NoFailureRecorded => NobodyLimited
  <1> SUFFICES ASSUME NoFailureRecorded, MaxFailedLogins > 0, NEW a \in Accounts
               PROVE  ~ Limited(a)
    BY DEF NobodyLimited
  <1>1. {e \in authEvent : /\ e.email = a /\ e.type = "login_failed"
                           /\ e.at + LoginWindow >= now} = {}
    BY DEF NoFailureRecorded
  <1>2. FailedSince(authEvent, a, now) = 0
    BY <1>1, FS_EmptySet DEF FailedSince
  <1>. QED
    BY <1>2, NatAssumption DEF Limited

\* authenticate's login_failed row is rolled back with the request that raised, always: the
\* limiter finds nothing to count (auth/service.py:119-145, db/session.py:47-55).
THEOREM LimiterNeverLimits == Spec => [](NoFailureRecorded /\ NobodyLimited)
  <1>1. Init => NoFailureRecorded
    BY DEF Init, NoFailureRecorded
  <1>. QED
    BY <1>1, RecordStep, NobodyCounted, Inductive, PTL DEF Spec

\* refresh_session's revocation of a replayed token's session is rolled back with the
\* exception it raises, always (auth/service.py:199-207, db/session.py:47-55).
THEOREM ReplayChangesNothing == Spec => ReplayIgnored
  <1> DEFINE Ignored == \A r \in Requests :
                            req[r].op = "replay" /\ req'[r] # req[r] => UNCHANGED tables
  <1>1. ASSUME IInv, [Next]_vars PROVE Ignored
    <2> SUFFICES ASSUME NEW r \in Requests, req[r].op = "replay", req'[r] # req[r]
                 PROVE  UNCHANGED tables
      OBVIOUS
    <2>1. ASSUME NEW q \in Requests, req[q].op # "replay", req' = [req EXCEPT ![q] = Idle]
          PROVE  FALSE
      BY <2>1, <1>1 DEF IInv, TypeOK
    <2>2. ASSUME NEW q \in Requests,
                 \/ CommitRegister(q) \/ CommitLogin(q) \/ CommitRefresh(q)
                 \/ CommitRevoke(q) \/ CommitDelete(q)
          PROVE  FALSE
      <3>1. /\ req[q].op \in {"register", "login", "refresh", "logout", "logoutAll", "delete"}
            /\ req' = [req EXCEPT ![q] = Idle]
        BY <2>2 DEF CommitRegister, CommitLogin, CommitRefresh, CommitRevoke, CommitDelete, End
      <3>. QED
        BY <3>1, <2>1
    <2>. QED
      BY <1>1, <2>2, OnlyCommitsWrite DEF tables
  <1>. QED
    BY <1>1, Inductive, PTL DEF ReplayIgnored, Spec
=============================================================================
