---------------------------- MODULE MCApplyJournal ----------------------------
(***************************************************************************)
(* A small instance of ApplyJournal: a draft that edits one file, creates  *)
(* one and deletes one, and the combinations of faults to explore.         *)
(***************************************************************************)
EXTENDS ApplyJournal, TLC

NoFaults == [k \in FaultKinds |-> 0]

(* Three crashes and a queue and a status write that fail; or two crashes, *)
(* edits that were never committed and a rollback that cannot write; or a  *)
(* stop before the copy, a journal or a status write and a step of the     *)
(* recovery that fail, with nobody dying.                                  *)
CrashBudgets ==
    {("crash" :> 3 @@ "enqueue" :> 1 @@ "status" :> 1) @@ NoFaults,
     ("crash" :> 2 @@ "edits" :> 1 @@ "undo" :> 1) @@ NoFaults,
     ("journal" :> 1 @@ "restore" :> 1 @@ "early" :> 1) @@ NoFaults,
     ("status" :> 1 @@ "restore" :> 1) @@ NoFaults}

OneJournal == {("journal" :> 1 @@ "edits" :> 1) @@ NoFaults}
OneCrash == {("crash" :> 1) @@ NoFaults}
OneTear == {("tear" :> 1) @@ NoFaults}
OneCrashOneRestore == {("crash" :> 1 @@ "restore" :> 1) @@ NoFaults}
===============================================================================
