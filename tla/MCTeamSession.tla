------------------------------ MODULE MCTeamSession ------------------------------
(***************************************************************************)
(* Small instances of TeamSession: one listener of two streams, a rotation *)
(* of one stage, and a session that is suspended after two failures.       *)
(***************************************************************************)
EXTENDS TeamSession, TLC

CONSTANTS l1
===============================================================================
