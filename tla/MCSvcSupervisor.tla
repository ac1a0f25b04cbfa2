---------------------------- MODULE MCSvcSupervisor ----------------------------
(* Small instances of SvcSupervisor for TLC. *)
EXTENDS SvcSupervisor

\* A service that stops for everything and restarts on failure, and one that
\* declares nothing.
Sensitive1 == [game |-> "stop", onFailure |-> TRUE, stopOn |-> Triggers]
Insensitive1 == [game |-> "ignore", onFailure |-> FALSE, stopOn |-> {}]

PoliciesOne == {Sensitive1}
PoliciesTwo == {Sensitive1, Insensitive1}
=============================================================================
