---------------------------- MODULE MCAccessDecision ----------------------------
(***************************************************************************)
(* An instance of AccessDecision for TLC: a global scope that covers a     *)
(* project, so that rows and questions match, cover and miss each other.   *)
(***************************************************************************)
EXTENDS AccessDecision

everywhere == [type |-> "global", id |-> ""]
project == [type |-> "project", id |-> "p"]

TwoScopes == {everywhere, project}
StartOfTime == {0}
==================================================================================
