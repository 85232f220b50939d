---------------------------- MODULE MCActionQueue ----------------------------
(***************************************************************************)
(* Small instances of ActionQueue: one draft that declares an              *)
(* irrecoverable action BEFORE a compensable one, and one draft of a       *)
(* single compensable action.                                              *)
(***************************************************************************)
EXTENDS ActionQueue, TLC

CONSTANTS d1, mail, post

OneDraft == (mail :> d1) @@ (post :> d1)
DeclaredOrder == (mail :> 0) @@ (post :> 1)
DeclaredClass == (mail :> "irrecoverable") @@ (post :> "compensable")

LoneDraft == post :> d1
LoneOrder == post :> 0
LoneClass == post :> "compensable"

(* Daemons are interchangeable.                                            *)
DaemonSymmetry == Permutations(Worker)
===============================================================================
