--------------------------- MODULE SessionLedger ----------------------------
(* What a login session promises its holder, with no database in sight: one  *)
(* refresh token is good at any time, it is exchanged at most once, and a    *)
(* session that has ended is never good again.  AuthSessions implements it.  *)
EXTENDS Naturals

CONSTANTS Sessions, Tokens

VARIABLES
    status,   \* whether the session has been opened, is live, or has ended
    token,    \* the one refresh token of a live session
    spent     \* the tokens a live session has already exchanged

vars == <<status, token, spent>>

Init ==
    /\ status = [s \in Sessions |-> "unopened"]
    /\ token = [s \in Sessions |-> 0]
    /\ spent = [s \in Sessions |-> {}]

\* No session holds t, or has ever exchanged it.
Fresh(t) == \A s \in Sessions : token[s] # t /\ t \notin spent[s]

Open(s, t) ==
    /\ status[s] = "unopened" /\ Fresh(t)
    /\ status' = [status EXCEPT ![s] = "live"]
    /\ token' = [token EXCEPT ![s] = t]
    /\ UNCHANGED spent

Exchange(s, t) ==
    /\ status[s] = "live" /\ Fresh(t)
    /\ token' = [token EXCEPT ![s] = t]
    /\ spent' = [spent EXCEPT ![s] = @ \cup {token[s]}]
    /\ UNCHANGED status

\* A logout ends one session, a logout everywhere or a deletion all of an account's.
Finish(S) ==
    /\ \A s \in S : status[s] = "live"
    /\ status' = [s \in Sessions |-> IF s \in S THEN "ended" ELSE status[s]]
    /\ token' = [s \in Sessions |-> IF s \in S THEN 0 ELSE token[s]]
    /\ spent' = [s \in Sessions |-> IF s \in S THEN {} ELSE spent[s]]

Next == \/ \E s \in Sessions, t \in Tokens : Open(s, t) \/ Exchange(s, t)
        \/ \E S \in SUBSET Sessions : Finish(S)

Spec == Init /\ [][Next]_vars
=============================================================================
