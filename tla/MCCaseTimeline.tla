---------------------------- MODULE MCCaseTimeline ----------------------------
(* Bounds for model checking CaseTimeline: one account with one case and one *)
(* document in it.                                                           *)
EXTENDS CaseTimeline

CONSTANTS a1, c1, d1
OneOwner == [c \in {c1} |-> a1]
OneCase == [d \in {d1} |-> c1]
=============================================================================
