------------------------------ MODULE MCLifecycle ------------------------------
(***************************************************************************)
(* Small instances of Lifecycle: a daemon that starts on a good build, one *)
(* more good build and a broken one, a wake launch and an agent session,   *)
(* two restarts that may meet.                                             *)
(***************************************************************************)
EXTENDS Lifecycle, TLC

CONSTANTS old, new, bad, launch, session, goal, h1, h2
===============================================================================
