---------------------------- MODULE MCGameLaunch ----------------------------
(* Small instances of GameLaunch for TLC. *)
EXTENDS GameLaunch

\* Two services the game must not run beside.
Sensitive == [s \in Service |-> "stop"]

\* One of them, and one that no game disturbs unless it subscribes.
Mixed == [s \in Service |-> IF s = 1 THEN "notify" ELSE "ignore"]
=============================================================================
