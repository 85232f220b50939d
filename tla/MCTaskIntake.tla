----------------------------- MODULE MCTaskIntake -----------------------------
(***************************************************************************)
(* A small instance of TaskIntake: two requests for the same task and one  *)
(* for another.                                                            *)
(***************************************************************************)
EXTENDS TaskIntake, TLC

CONSTANTS r1, r2, r3

Twins == (r1 :> "write") @@ (r2 :> "write") @@ (r3 :> "test")
===============================================================================
