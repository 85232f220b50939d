-------------------------- MODULE ApplyJournalProofs --------------------------
(***************************************************************************)
(* Theorems about ApplyJournal for every draft and any number of daemons   *)
(* and of faults, within limits that hand-run instances show to be needed: *)
(*   - OneApplier: one process at most runs `ta draft apply';              *)
(*   - CalmRecovery: nobody else moves while a process recovers;           *)
(*   - CalmFaults, for the first two theorems about files only.  The files *)
(*     are put back in one of two ways, by the guard in the process or     *)
(*     from the journal, and a behaviour does not fail them both: either   *)
(*     no process dies, the guard's writes succeed, nothing tracked by git *)
(*     has edits that were never committed, and at most one write of a     *)
(*     status fails; or no write of the journal fails, no recovery step    *)
(*     does, and no apply stops before it begins to copy.                  *)
(***************************************************************************)
EXTENDS ApplyJournal, FiniteSetTheorems, TLAPS

(* A process that only recovers is never in a place of an apply.           *)
DaemonsRecover == \A q \in Proc \ Applier : pc[q] \in {"down", "scan"} \cup RecoveryPlaces

TypeInv == Typed /\ DaemonsRecover

LocalTypes ==
    /\ left \in [Proc -> SUBSET File]
    /\ hand \in [Proc -> File \cup {NoFile}]
    /\ snap \in [Proc -> [File -> Contents]]
    /\ read \in [Proc -> Logs]
    /\ failed \in [Proc -> BOOLEAN]

LEMMA NoLogType == NoLog \in Logs
  BY DEF NoLog, Logs

LEMMA BeforeType == Before \in [File -> Contents] /\ After \in [File -> Contents]
  BY DEF Before, After, Contents

LEMMA HeadType == AtHead \in [File -> Contents] /\ Strays \in SUBSET File
  BY BeforeType DEF AtHead, Strays, Contents

LEMMA ClearTypes ==
  ASSUME LocalTypes, NEW p \in Proc, ClearLocals(p)
  PROVE  LocalTypes'
<1>1. [f \in File |-> "absent"] \in [File -> Contents]
  BY DEF Contents
<1>2. left' \in [Proc -> SUBSET File] /\ hand' \in [Proc -> File \cup {NoFile}]
  BY DEF LocalTypes, ClearLocals
<1>3. snap' \in [Proc -> [File -> Contents]]
  BY <1>1 DEF LocalTypes, ClearLocals
<1>4. read' \in [Proc -> Logs] /\ failed' \in [Proc -> BOOLEAN]
  BY NoLogType DEF LocalTypes, ClearLocals
<1> QED
  BY <1>2, <1>3, <1>4 DEF LocalTypes

(* Where a process may go: a daemon only through the recovery.             *)
GoesTo(p, places) ==
    \E place \in places : pc' = [pc EXCEPT ![p] = place]

LEMMA GoTypes ==
  ASSUME TypeInv, NEW p \in Proc,
         \/ GoesTo(p, {"down", "scan"} \cup RecoveryPlaces)
         \/ p \in Applier /\ GoesTo(p, Places)
         \/ pc' = pc
  PROVE  pc' \in [Proc -> Places] /\ DaemonsRecover'
<1> DEFINE Free == {"down", "scan"} \cup RecoveryPlaces
<1>1. Free \in SUBSET Places
  BY DEF Places
<1> HIDE DEF Free
<1>2. pc \in [Proc -> Places] /\ \A q \in Proc \ Applier : pc[q] \in Free
  BY DEF TypeInv, Typed, DaemonsRecover, Free
<1>3. pc' \in [Proc -> Places] /\ \A q \in Proc \ Applier : pc'[q] \in Free
  BY <1>1, <1>2 DEF GoesTo, Free
<1> QED
  BY <1>3 DEF DaemonsRecover, Free

LEMMA UsedTypes ==
  ASSUME Typed, UNCHANGED used \/ \E kind \in FaultKinds : Fault(kind)
  PROVE  used' \in [FaultKinds -> Nat]
  BY DEF Typed, Fault

(* A process moves on, starts a loop, ends its recovery, ends its command. *)
Located == pc \in [Proc -> Places] /\ DaemonsRecover
MayBeAt(p, place) ==
    place \in Places /\ (p \in Applier \/ place \in {"down", "scan"} \cup RecoveryPlaces)

LEMMA MoveTypes ==
  ASSUME TypeInv, NEW p \in Proc, NEW place, MayBeAt(p, place), Go(p, place)
  PROVE  Located'
<1>1. GoesTo(p, {"down", "scan"} \cup RecoveryPlaces) \/ (p \in Applier /\ GoesTo(p, Places))
  BY DEF MayBeAt, Go, GoesTo
<1> QED
  BY <1>1, GoTypes DEF Located

LEMMA LoopTypes ==
  ASSUME TypeInv, NEW p \in Proc, NEW place, MayBeAt(p, place),
         NEW paths \in SUBSET File, Loop(p, place, paths),
         hand' \in [Proc -> File \cup {NoFile}], UNCHANGED snap, read' \in [Proc -> Logs]
  PROVE  Located' /\ LocalTypes'
  BY MoveTypes DEF Loop, LocalTypes, TypeInv, Typed

LEMMA RecoveredTypes ==
  ASSUME TypeInv, NEW p \in Proc, Recovered(p)
  PROVE  Located' /\ LocalTypes'
<1>1. MayBeAt(p, IF p \in Applier THEN "lock" ELSE "down")
  BY DEF MayBeAt, Places, ApplyPlaces
<1> QED
  BY <1>1, MoveTypes, ClearTypes DEF Recovered, TypeInv, Typed, LocalTypes

LEMMA QuitTypes ==
  ASSUME TypeInv, NEW p \in Proc, Quit(p)
  PROVE  Located' /\ LocalTypes' /\ lock' \in {"none", "dead"} \cup Applier
<1>1. MayBeAt(p, "down")
  BY DEF MayBeAt, Places
<1> QED
  BY <1>1, MoveTypes, ClearTypes DEF Quit, TypeInv, Typed, LocalTypes

LEMMA RecoveryTypes ==
  ASSUME TypeInv, NEW p \in Proc, RecoveryStep(p)
  PROVE  TypeInv'
<1> USE DEF projectVars, journalVars, localVars, At
<1> SUFFICES /\ dirty' \subseteq Tracked
             /\ file' \in [File -> Contents] /\ head' \in {"prior", "commit"}
             /\ UNCHANGED <<goal, status>> /\ queued' \in BOOLEAN
             /\ lock' \in {"none", "dead"} \cup Applier
             /\ dir' \in BOOLEAN /\ log' \in Logs /\ backup' \in [File -> Contents]
             /\ LocalTypes' /\ used' \in [FaultKinds -> Nat] /\ Located'
  BY DEF TypeInv, Typed, LocalTypes, Located
<1>a. LocalTypes
  BY DEF TypeInv, Typed, LocalTypes
<1>b. \A place \in {"down", "scan"} \cup RecoveryPlaces : MayBeAt(p, place)
  BY DEF MayBeAt, Places
<1>c. ASSUME NEW place \in {"down", "scan"} \cup RecoveryPlaces, Go(p, place),
             UNCHANGED localVars
      PROVE  Located' /\ LocalTypes'
  BY <1>a, <1>b, <1>c, MoveTypes DEF LocalTypes
<1> USE DEF RecoveryPlaces
<1>1. CASE Scan(p)
  <2>1. ASSUME Go(p, "check"), read' = [read EXCEPT ![p] = log],
               UNCHANGED <<left, hand, snap, failed>>
        PROVE  Located' /\ LocalTypes'
    BY <1>a, <1>b, <2>1, MoveTypes DEF LocalTypes, TypeInv, Typed
  <2>2. Located' /\ LocalTypes'
    BY <1>1, <1>c, <2>1, RecoveredTypes DEF Scan
  <2> QED
    BY <1>1, <2>2 DEF Scan, TypeInv, Typed
<1>2. CASE Check(p)
  <2>1. Located' /\ LocalTypes'
    BY <1>2, <1>c, RecoveredTypes DEF Check
  <2> QED
    BY <1>2, <2>1 DEF Check, TypeInv, Typed
<1>3. CASE Decide(p)
  <2>1. ASSUME Loop(p, IF status = "applied" THEN "forward" ELSE "uncommit", read[p].priors),
               UNCHANGED <<hand, snap, read>>
        PROVE  Located' /\ LocalTypes'
    <3>1. MayBeAt(p, IF status = "applied" THEN "forward" ELSE "uncommit")
      BY <1>b
    <3>2. read[p].priors \in SUBSET File
      BY DEF TypeInv, Typed, Logs
    <3> QED
      BY <2>1, <3>1, <3>2, <1>a, LoopTypes DEF LocalTypes
  <2>2. Located' /\ LocalTypes'
    BY <1>3, <2>1, RecoveredTypes DEF Decide
  <2>3. used' \in [FaultKinds -> Nat]
    BY <1>3, UsedTypes DEF Decide, TypeInv, FaultKinds
  <2> QED
    BY <1>3, <2>2, <2>3 DEF Decide, TypeInv, Typed
<1>4. CASE Forward(p)
  <2>1. Located' /\ LocalTypes'
    BY <1>4, <1>c, RecoveredTypes DEF Forward
  <2>2. used' \in [FaultKinds -> Nat]
    BY <1>4, UsedTypes DEF Forward, TypeInv, FaultKinds
  <2> QED
    BY <1>4, <2>1, <2>2 DEF Forward, TypeInv, Typed
<1>5. CASE Uncommit(p)
  <2>1. Located' /\ LocalTypes'
    BY <1>5, <1>c, RecoveredTypes DEF Uncommit
  <2>2. used' \in [FaultKinds -> Nat]
    BY <1>5, UsedTypes DEF Uncommit, TypeInv, FaultKinds
  <2> QED
    BY <1>5, <2>1, <2>2 DEF Uncommit, TypeInv, Typed
<1>6. CASE \E f \in File : Restore(p, f)
  <2>1. Located' /\ LocalTypes'
    <3>1. Located'
      BY <1>6 DEF Restore, Located, TypeInv, Typed, DaemonsRecover
    <3>2. LocalTypes'
      BY <1>6, <1>a DEF Restore, LocalTypes
    <3> QED
      BY <3>1, <3>2
  <2>2. used' \in [FaultKinds -> Nat]
    BY <1>6, UsedTypes DEF Restore, TypeInv, FaultKinds
  <2>3. file' \in [File -> Contents]
    BY <1>6 DEF Restore, TypeInv, Typed, Contents
  <2> QED
    BY <1>6, <2>1, <2>2, <2>3 DEF Restore, TypeInv, Typed
<1>7. CASE Restored(p)
  <2>1. ASSUME At(p, "abandon"), Go(p, "close"), UNCHANGED localVars
        PROVE  Located' /\ LocalTypes'
    <3>1. MayBeAt(p, "close")
      BY <2>1 DEF MayBeAt, TypeInv, DaemonsRecover, Places, ApplyPlaces
    <3> QED
      BY <2>1, <3>1, <1>a, MoveTypes DEF LocalTypes
  <2>2. Located' /\ LocalTypes' /\ lock' \in {"none", "dead"} \cup Applier
    BY <1>7, <1>c, <2>1, QuitTypes, RecoveredTypes DEF Restored, TypeInv, Typed
  <2> QED
    BY <1>7, <2>2 DEF Restored, TypeInv, Typed
<1>8. CASE Sweep(p)
  <2>1. Located' /\ LocalTypes' /\ lock' \in {"none", "dead"} \cup Applier
    <3>1. CASE UNCHANGED <<lock, pc, localVars>>
      BY <3>1, <1>a DEF Located, LocalTypes, TypeInv, Typed, DaemonsRecover
    <3> QED
      BY <1>8, <3>1, QuitTypes, RecoveredTypes DEF Sweep, TypeInv, Typed
  <2>2. /\ backup' \in [File -> Contents] /\ log' \in Logs /\ dir' \in BOOLEAN
    BY <1>8, NoLogType DEF Sweep, TypeInv, Typed, Contents
  <2> QED
    BY <1>8, <2>1, <2>2 DEF Sweep, TypeInv, Typed
<1> QED
  BY <1>1, <1>2, <1>3, <1>4, <1>5, <1>6, <1>7, <1>8 DEF RecoveryStep

LEMMA ApplyTypes ==
  ASSUME TypeInv, NEW p \in Proc, ApplyStep(p)
  PROVE  TypeInv'
<1> USE DEF projectVars, journalVars, localVars, At
<1>a. p \in Applier
  BY DEF ApplyStep, CheckLock, WriteLock, Load, MakeDir, Begin, RecordPrior, StopEarly,
         PriorsDone, Copy, Copied, Fail, Undo, Undone, Checkout, Discarded, Abandon, Verified,
         Commit, Resave, LogCommit, MarkGoal, MarkApplied, Enqueue, TypeInv, DaemonsRecover, RecoveryPlaces
<1>b. \A place \in Places : MayBeAt(p, place)
  BY <1>a DEF MayBeAt
<1>c. LocalTypes
  BY DEF TypeInv, Typed, LocalTypes
<1>d. ASSUME NEW place \in Places, Go(p, place), UNCHANGED localVars
      PROVE  Located' /\ LocalTypes'
  BY <1>b, <1>c, <1>d, MoveTypes DEF LocalTypes
<1>e. ASSUME UNCHANGED used \/ \E kind \in FaultKinds : Fault(kind)
      PROVE  used' \in [FaultKinds -> Nat]
  BY <1>e, UsedTypes DEF TypeInv
<1> USE DEF Places, ApplyPlaces, FaultKinds
<1>1. CASE CheckLock(p) \/ WriteLock(p)
  <2>1. Located' /\ LocalTypes'
    BY <1>1, <1>d DEF CheckLock, WriteLock
  <2> QED
    BY <1>1, <1>a, <2>1 DEF CheckLock, WriteLock, Located, LocalTypes, TypeInv, Typed
<1>2. CASE Load(p)
  <2>1. Located' /\ LocalTypes' /\ lock' \in {"none", "dead"} \cup Applier
    BY <1>2, <1>d, QuitTypes DEF Load, TypeInv, Typed
  <2> QED
    BY <1>2, <2>1 DEF Load, Located, LocalTypes, TypeInv, Typed
<1>3. CASE MakeDir(p)
  <2>1. Located' /\ LocalTypes'
    BY <1>3, <1>d DEF MakeDir
  <2> QED
    BY <1>3, <2>1 DEF MakeDir, Located, LocalTypes, TypeInv, Typed
<1>4. CASE Begin(p)
  <2>1. Located' /\ LocalTypes'
    <3>1. PICK place \in {"prior", "discard"}, paths \in SUBSET File : Loop(p, place, paths)
      BY <1>4, HeadType DEF Begin
    <3> QED
      BY <1>4, <1>b, <1>c, <3>1, LoopTypes DEF Begin, LocalTypes
  <2>2. used' \in [FaultKinds -> Nat]
    BY <1>4, <1>e DEF Begin
  <2>3. log' \in Logs
    BY <1>4 DEF Begin, NoLog, Logs, TypeInv, Typed
  <2> QED
    BY <1>4, <2>1, <2>2, <2>3 DEF Begin, Located, LocalTypes, TypeInv, Typed
<1>5. CASE \E f \in File : RecordPrior(p, f)
  <2>0. PICK f \in File : RecordPrior(p, f)
    BY <1>5
  <2>1. Located'
    BY <2>0 DEF RecordPrior, Located, TypeInv, Typed, DaemonsRecover
  <2>2. LocalTypes'
    <3>1. file[f] \in Contents
      BY DEF TypeInv, Typed
    <3>2. snap' \in [Proc -> [File -> Contents]]
      BY <2>0, <3>1, <1>c DEF RecordPrior, LocalTypes
    <3>3. left' \in [Proc -> SUBSET File] /\ failed' \in [Proc -> BOOLEAN]
      BY <2>0, <1>c DEF RecordPrior, LocalTypes
    <3> QED
      BY <2>0, <3>2, <3>3, <1>c DEF RecordPrior, LocalTypes
  <2>3. used' \in [FaultKinds -> Nat]
    BY <2>0, <1>e DEF RecordPrior
  <2>4. log' \in Logs /\ backup' \in [File -> Contents]
    <3>1. log \in Logs /\ file[f] \in Contents /\ backup \in [File -> Contents]
      BY DEF TypeInv, Typed
    <3>2. backup' \in [File -> Contents]
      BY <2>0, <3>1 DEF RecordPrior
    <3>3. [log EXCEPT !.priors = @ \cup {f},
                      !.existed = IF file[f] = "absent" THEN @ ELSE @ \cup {f}] \in Logs
      BY <3>1 DEF Logs
    <3> QED
      BY <2>0, <3>1, <3>2, <3>3 DEF RecordPrior
  <2> QED
    BY <2>0, <2>1, <2>2, <2>3, <2>4 DEF RecordPrior, Located, LocalTypes, TypeInv, Typed
<1>6. CASE StopEarly(p) \/ PriorsDone(p) \/ Fail(p) \/ Undone(p) \/ Abandon(p)
  <2>1. PICK place \in Places, paths \in SUBSET File : Loop(p, place, paths)
    BY <1>6, HeadType DEF StopEarly, PriorsDone, Fail, Undone, Abandon, TypeInv, Typed, Logs
  <2>2. hand' \in [Proc -> File \cup {NoFile}] /\ read' \in [Proc -> Logs] /\ UNCHANGED snap
    BY <1>6, <1>c DEF StopEarly, PriorsDone, Fail, Undone, Abandon, LocalTypes, TypeInv, Typed
  <2>3. Located' /\ LocalTypes'
    BY <1>b, <2>1, <2>2, LoopTypes
  <2>4. used' \in [FaultKinds -> Nat]
    BY <1>6, <1>e DEF StopEarly, PriorsDone, Fail, Undone, Abandon
  <2> QED
    BY <1>6, <2>3, <2>4
       DEF StopEarly, PriorsDone, Fail, Undone, Abandon, Located, LocalTypes, TypeInv, Typed
<1>7. CASE \E contents \in [File -> Contents] : Put(p, contents) /\ UNCHANGED used
  <2>1. PICK contents \in [File -> Contents] : Put(p, contents) /\ UNCHANGED used
    BY <1>7
  <2>2. hand[p] \in File \cup {NoFile} /\ left[p] \in SUBSET File /\ "torn" \in Contents
        /\ "absent" \in Contents /\ file \in [File -> Contents]
    BY DEF TypeInv, Typed, Contents
  <2> HIDE DEF Places, ApplyPlaces
  <2>3. CASE EndWrite(p, contents)
    BY <2>1, <2>2, <2>3, <1>c DEF Put, EndWrite, LocalTypes, TypeInv, Typed, DaemonsRecover
  <2>4. ASSUME NEW f \in left[p], Remove(p, f) \/ BeginWrite(p, f) PROVE TypeInv'
    <3>1. file' \in [File -> Contents]
      BY <2>2, <2>4 DEF Remove, BeginWrite
    <3>2. UNCHANGED <<snap, read, failed>>
      BY <2>1 DEF Put
    <3>3. left' \in [Proc -> SUBSET File] /\ hand' \in [Proc -> File \cup {NoFile}]
      BY <2>2, <2>4, <1>c DEF Remove, BeginWrite, LocalTypes
    <3> QED
      BY <2>1, <3>1, <3>2, <3>3 DEF Put, TypeInv, Typed, DaemonsRecover
  <2> QED
    BY <2>1, <2>3, <2>4 DEF Put
<1>11. CASE Undo(p) /\ Fault("undo") /\ UNCHANGED <<file, pc, snap, read, failed>>
  <2>1. used' \in [FaultKinds -> Nat]
    BY <1>11, <1>e
  <2>2. LocalTypes'
    <3>1. hand' = [hand EXCEPT ![p] = NoFile] \/ hand' \in [Proc -> File \cup {NoFile}]
      BY <1>11, <1>c DEF Undo, Put, EndWrite, BeginWrite, Remove, LocalTypes
    <3> QED
      BY <1>11, <3>1, <1>c DEF Undo, Put, EndWrite, BeginWrite, Remove, LocalTypes
  <2> QED
    BY <1>11, <2>1, <2>2 DEF Undo, Put, LocalTypes, TypeInv, Typed, DaemonsRecover
<1>12. CASE Discarded(p)
  BY <1>12, QuitTypes DEF Discarded, Located, LocalTypes, TypeInv, Typed
<1>13. CASE Copy(p) \/ Undo(p) \/ Checkout(p)
  <2>1. snap[p] \in [File -> Contents]
    BY DEF TypeInv, Typed
  <2> QED
    BY <1>7, <1>11, <1>13, <2>1, BeforeType, HeadType DEF Copy, Undo, Checkout
<1>8. CASE Copied(p) \/ Verified(p) \/ Commit(p) \/ Resave(p)
  <2>1. Located' /\ LocalTypes'
    BY <1>8, <1>d DEF Copied, Verified, Commit, Resave
  <2> QED
    BY <1>8, <2>1 DEF Copied, Verified, Commit, Resave, Located, LocalTypes, TypeInv, Typed
<1>9. CASE LogCommit(p) \/ MarkGoal(p)
  <2>1. Located' /\ LocalTypes'
    BY <1>9, <1>d DEF LogCommit, MarkGoal
  <2>2. used' \in [FaultKinds -> Nat]
    BY <1>9, <1>e DEF LogCommit, MarkGoal
  <2>3. log' \in Logs
    BY <1>9 DEF LogCommit, MarkGoal, TypeInv, Typed, Logs
  <2> QED
    BY <1>9, <2>1, <2>2, <2>3 DEF LogCommit, MarkGoal, Located, LocalTypes, TypeInv, Typed
<1>10. CASE MarkApplied(p) \/ Enqueue(p)
  <2>1. Located' /\ LocalTypes' /\ lock' \in {"none", "dead"} \cup Applier
    BY <1>10, <1>d, QuitTypes DEF MarkApplied, Enqueue, TypeInv, Typed
  <2>2. used' \in [FaultKinds -> Nat]
    BY <1>10, <1>e DEF MarkApplied, Enqueue
  <2>3. queued' \in BOOLEAN
    BY <1>10 DEF MarkApplied, Enqueue, TypeInv, Typed, Logs
  <2> QED
    BY <1>10, <2>1, <2>2, <2>3 DEF MarkApplied, Enqueue, Located, LocalTypes, TypeInv, Typed
<1> QED
  BY <1>1, <1>2, <1>3, <1>4, <1>5, <1>6, <1>8, <1>9, <1>10, <1>12, <1>13 DEF ApplyStep

LEMMA TypeInit == Init => TypeInv
<1> SUFFICES ASSUME Init PROVE TypeInv
  OBVIOUS
<1>1. file \in [File -> Contents] /\ backup \in [File -> Contents]
  BY BeforeType DEF Init, Contents
<1>2. snap \in [Proc -> [File -> Contents]] /\ read \in [Proc -> Logs]
  BY NoLogType DEF Init, Contents
<1>3. pc \in [Proc -> Places] /\ DaemonsRecover
  BY DEF Init, Places, DaemonsRecover
<1> QED
  BY <1>1, <1>2, <1>3, NoLogType DEF Init, TypeInv, Typed

LEMMA TypeStep == TypeInv /\ [Next]_vars => TypeInv'
<1> SUFFICES ASSUME TypeInv, [Next]_vars PROVE TypeInv'
  OBVIOUS
<1>1. ASSUME NEW p \in Proc, Start(p) PROVE TypeInv'
  <2>1. Located'
    BY <1>1, MoveTypes DEF Start, MayBeAt, Places
  <2> QED
    BY <1>1, <2>1
       DEF Start, Located, TypeInv, Typed, projectVars, journalVars, localVars
<1>2. ASSUME NEW p \in Proc, Crash(p) PROVE TypeInv'
  <2>1. Located' /\ LocalTypes'
    BY <1>2, MoveTypes, ClearTypes DEF Crash, MayBeAt, Places, TypeInv, Typed, LocalTypes
  <2>2. used' \in [FaultKinds -> Nat]
    BY <1>2, UsedTypes DEF Crash, TypeInv, FaultKinds
  <2> QED
    BY <1>2, <2>1, <2>2
       DEF Crash, Located, LocalTypes, TypeInv, Typed, projectVars, journalVars
<1>3. CASE UNCHANGED vars
  BY <1>3 DEF vars, TypeInv, Typed, DaemonsRecover
<1> QED
  BY <1>1, <1>2, <1>3, RecoveryTypes, ApplyTypes DEF Next, Step

-----------------------------------------------------------------------------
OneApplier == \A p, q \in Applier : p = q

(* Two ways to keep the files: either the rollback in the process does it, *)
(* or the journal does.                                                    *)
RollsBack(u) == u["crash"] = 0 /\ u["undo"] = 0 /\ u["edits"] = 0 /\ u["status"] <= 1
Journals(u) == u["journal"] = 0 /\ u["early"] = 0 /\ u["restore"] = 0
Calm(u) == RollsBack(u) \/ Journals(u)

CalmFaults == \A b \in Budgets : Calm(b)

(* The places in which an apply holds the lock, and those in which it has  *)
(* begun to overwrite.                                                     *)
Holding == ApplyPlaces \ {"lock", "write"}
Written == {"verify", "commit", "resave", "resaved", "logcommit", "goal", "status"}
Overwriting == {"copy"} \cup Written
Committed == {"resave", "resaved", "logcommit", "goal", "status"}
Uncommitted == {"mkdir", "begin", "prior", "copy", "verify", "commit", "undo", "checkout", "discard"}
Restoring == {"uncommit", "restore"}
Reading == {"check", "decide", "forward"} \cup Restoring

LockRight == \A p \in Applier : lock = p <=> pc[p] \in Holding

Alone ==
    \A p, q \in Proc : pc[p] \in RecoveryPlaces /\ pc[q] \in RecoveryPlaces => p = q

(* The journal is what one apply wrote, its backups not yet swept away are *)
(* what the paths held before it.                                          *)
Exact == \A f \in log.priors : backup[f] = Before[f]

GoodLog ==
    /\ log.begun => dir
    /\ ~log.begun => log = NoLog
    /\ log.existed = log.priors \cap Existed
    /\ \A f \in log.priors : backup[f] \in {Before[f], "absent"}

(* What the apply overwrote can be had from the journal.                   *)
Saved == file = Before \/ (Exact /\ \A f \in File : file[f] = Before[f] \/ f \in log.priors)

Undoing == \E p \in Applier : pc[p] = "undo"

StatusRight ==
    /\ status = "applied" => file = After
    /\ status = "applied" => queued \/ log.begun
    /\ status # "applied" => ~queued
    /\ status # "applied" => Saved \/ Undoing
    /\ status = "torn" => log.begun

RollingBack == {"undo", "checkout", "abandon"}
NobodyWrites == \A p \in Applier : pc[p] \notin Overwriting \cup RollingBack

(* Files that are left overwritten without an apply at work have a reason, *)
(* and one that keeps a second apply from starting over them.              *)
LeftForCause ==
    status = "approved" /\ file # Before /\ NobodyWrites
    => goal = "applied" \/ used["crash"] > 0 \/ used["status"] > 1

(* A commit that was not undone has a reason too, if nothing went wrong    *)
(* but what a rollback can deal with.                                      *)
CommitForCause ==
    RollsBack(used) /\ head = "commit" /\ status = "approved" /\ goal = "ready"
    => \E p \in Applier : pc[p] \in Committed

EditsCounted == dirty # {} => used["edits"] > 0

(* The journal may go.                                                     *)
Settled ==
    /\ status # "torn"
    /\ status = "applied" => queued
    /\ status = "approved" => file = Before

(* A second apply will not begin over a first one's files.                 *)
NoRestart == status = "approved" => file = Before \/ goal = "applied"

(* What a process that recovers knows.                                     *)
Recovering(q) ==
    /\ pc[q] \in Reading => log.begun /\ read[q] = log
    /\ pc[q] \in Reading \ {"check"} => lock \notin Proc
    /\ pc[q] = "sweep" => Settled /\ (log.begun => lock \notin Proc)
    /\ pc[q] = "forward" => status = "applied"
    /\ pc[q] \in Restoring =>
          /\ status = "approved" /\ left[q] \in SUBSET log.priors
          /\ \A f \in log.priors \ left[q] : file[f] = Before[f] \/ failed[q]
          /\ failed[q] => used["restore"] > 0 \/ file = Before

(* No recovery comes upon the directory of a journal that is about to be   *)
(* written.                                                                *)
Unseen == dir /\ \A q \in Proc : pc[q] \notin RecoveryPlaces

(* What a process that applies knows.                                      *)
Applying(p) ==
    /\ pc[p] \in {"lock", "write", "load"} => NoRestart
    /\ pc[p] \in Uncommitted => goal = "ready"
    /\ pc[p] \in {"mkdir", "begin"} => status = "approved" /\ file = Before
    /\ pc[p] = "begin" => Unseen
    /\ pc[p] = "prior" =>
          /\ log.begun /\ status = "approved" /\ file = Before /\ Exact
          /\ \A f \in File \ left[p] : snap[p][f] = Before[f]
          /\ IF failed[p] THEN used["journal"] > 0 ELSE log.priors = File \ left[p]
    /\ pc[p] \in Overwriting =>
          /\ log.begun /\ log.priors = File /\ Exact /\ snap[p] = Before
          /\ status = IF pc[p] = "resaved" THEN "torn" ELSE "approved"
    /\ pc[p] = "copy" => \A f \in File \ left[p] : file[f] = After[f]
    /\ pc[p] \in Written => file = After
    /\ pc[p] = "status" => goal = "applied" \/ used["status"] > 0
    /\ pc[p] \in RollingBack =>
          /\ log.begun /\ status = "approved" /\ Exact
          /\ Journals(used) => log.priors = File
    /\ pc[p] = "undo" =>
          /\ \A f \in left[p] : snap[p][f] = Before[f]
          /\ RollsBack(used) => \A f \in File \ left[p] : file[f] = Before[f]
    /\ pc[p] = "checkout" => (RollsBack(used) => file = Before /\ left[p] = {})
    /\ pc[p] = "discard" =>
          ~Journals(used) /\ status = "approved" /\ file = Before /\ left[p] = {}
    /\ pc[p] = "abandon" =>
          /\ read[p] = log /\ left[p] \in SUBSET log.priors
          /\ RollsBack(used) => file = Before
          /\ Journals(used) => ~failed[p] /\ \A f \in File \ left[p] : file[f] = Before[f]
    /\ pc[p] = "enqueue" => status = "applied" /\ log.begun
    /\ pc[p] = "close" => Settled
    /\ hand[p] # NoFile => pc[p] \in {"copy", "undo", "checkout"} /\ hand[p] \in left[p]

ApplyInv ==
    /\ TypeInv /\ Calm(used)
    /\ LockRight /\ Alone
    /\ GoodLog /\ StatusRight /\ LeftForCause /\ CommitForCause /\ EditsCounted
    /\ \A q \in Proc : Recovering(q)
    /\ \A p \in Applier : Applying(p)

-----------------------------------------------------------------------------
LEMMA BeforeValues ==
  \A f \in File : Before[f] = IF f \in Existed THEN "old" ELSE "absent"
  BY DEF Before

LEMMA SameFiles ==
  ASSUME NEW g \in [File -> Contents], NEW h \in [File -> Contents], \A f \in File : g[f] = h[f]
  PROVE  g = h
  OBVIOUS

(* Faults stay calm and are only ever counted up.                          *)
LEMMA CalmStep ==
  ASSUME CalmFaults, TypeInv, Calm(used), UNCHANGED used \/ \E kind \in FaultKinds : Fault(kind)
  PROVE  /\ Calm(used)' /\ \A k \in FaultKinds : used'[k] >= used[k]
         /\ RollsBack(used)' => RollsBack(used)
         /\ Journals(used)' => Journals(used)
<1>1. \A k \in FaultKinds : used[k] \in Nat
  BY DEF TypeInv, Typed
<1>2. CASE UNCHANGED used
  BY <1>1, <1>2 DEF Calm, RollsBack, Journals
<1>3. CASE \E kind \in FaultKinds : Fault(kind)
  <2>1. \A k \in FaultKinds : used'[k] \in Nat /\ used'[k] >= used[k]
    BY <1>1, <1>3 DEF Fault, TypeInv, Typed
  <2>2. PICK b \in Budgets : \A k \in FaultKinds : used'[k] <= b[k]
    BY <1>3 DEF Fault
  <2>3. Calm(b) /\ \A k \in FaultKinds : b[k] \in Nat
    BY <2>2, CalmFaults, JournalAssumption DEF CalmFaults, JournalAssumption
  <2>4. Calm(used)'
    BY <2>1, <2>2, <2>3 DEF Calm, RollsBack, Journals, FaultKinds
  <2>5. (RollsBack(used)' => RollsBack(used)) /\ (Journals(used)' => Journals(used))
    BY <1>1, <2>1 DEF RollsBack, Journals, FaultKinds
  <2> QED
    BY <2>1, <2>4, <2>5
<1> QED
  BY <1>2, <1>3

(* Only the process that moves changes its place and its locals.           *)
Same(q) ==
    /\ pc'[q] = pc[q] /\ left'[q] = left[q] /\ hand'[q] = hand[q]
    /\ snap'[q] = snap[q] /\ read'[q] = read[q] /\ failed'[q] = failed[q]

LEMMA OthersStand ==
  ASSUME TypeInv, NEW p \in Proc, Step(p) \/ Crash(p), NEW q \in Proc, q # p
  PROVE  Same(q)
<1> USE DEF TypeInv, Typed, Same, Go, Loop, ClearLocals, Recovered, Quit, localVars
<1>1. CASE Start(p) \/ RecoveryStep(p) \/ Crash(p)
  BY <1>1 DEF RecoveryStep, Start, Scan, Check, Decide, Forward, Uncommit, Restore, Restored,
              Sweep, Crash
<1>2. CASE ApplyStep(p)
  BY <1>2 DEF ApplyStep, CheckLock, WriteLock, Load, MakeDir, Begin, RecordPrior, PriorsDone,
              StopEarly, Copy, Copied, Fail, Undo, Undone, Checkout, Discarded, Abandon,
              Verified, Commit, Resave, LogCommit, MarkGoal, MarkApplied, Enqueue, Put,
              EndWrite, Remove, BeginWrite
<1> QED
  BY <1>1, <1>2 DEF Step

LEMMA FaultsCount ==
  ASSUME NEW p \in Proc, Step(p) \/ Crash(p)
  PROVE  UNCHANGED used \/ \E kind \in FaultKinds : Fault(kind)
<1> USE DEF FaultKinds
<1>1. CASE Start(p) \/ RecoveryStep(p) \/ Crash(p)
  BY <1>1 DEF RecoveryStep, Start, Scan, Check, Decide, Forward, Uncommit, Restore, Restored,
              Sweep, Crash
<1>2. CASE ApplyStep(p)
  BY <1>2 DEF ApplyStep, CheckLock, WriteLock, Load, MakeDir, Begin, RecordPrior, PriorsDone,
              StopEarly, Copy, Copied, Fail, Undo, Undone, Checkout, Discarded, Abandon,
              Verified, Commit, Resave, LogCommit, MarkGoal, MarkApplied, Enqueue, Put
<1> QED
  BY <1>1, <1>2 DEF Step

(* A process leaves no loop, and no command, with a write still open.      *)
LEMMA HandKept ==
  ASSUME TypeInv, InHand, NEW p \in Proc, Step(p) \/ Crash(p)
  PROVE  InHand'
<1> DEFINE Writing == {"copy", "undo", "checkout", "discard"}
<1>1. /\ hand[p] # NoFile => hand[p] \in left[p] /\ pc[p] \in Writing
      /\ pc \in [Proc -> Places] /\ hand \in [Proc -> File \cup {NoFile}]
      /\ left \in [Proc -> SUBSET File] /\ NoFile \notin File
  BY JournalAssumption DEF InHand, TypeInv, Typed, JournalAssumption
<1>2. SUFFICES hand'[p] # NoFile => hand'[p] \in left'[p] /\ pc'[p] \in Writing
  BY OthersStand DEF InHand, Same
<1> USE DEF At, Go, Loop, ClearLocals, Recovered, Quit, localVars
<1>3. CASE Start(p) \/ RecoveryStep(p) \/ Crash(p)
  BY <1>1, <1>3 DEF RecoveryStep, Start, Scan, Check, Decide, Forward, Uncommit, Restore,
                    Restored, Sweep, Crash
<1>4. CASE \/ CheckLock(p) \/ WriteLock(p) \/ Load(p) \/ MakeDir(p) \/ Begin(p)
           \/ (\E f \in File : RecordPrior(p, f)) \/ StopEarly(p) \/ PriorsDone(p)
  BY <1>1, <1>4 DEF CheckLock, WriteLock, Load, MakeDir, Begin, RecordPrior, StopEarly, PriorsDone
<1>5. ASSUME NEW contents, Put(p, contents), pc[p] \in Writing
      PROVE  hand'[p] # NoFile => hand'[p] \in left'[p] /\ pc'[p] \in Writing
  BY <1>1, <1>5 DEF Put, EndWrite, BeginWrite, Remove
<1>6. CASE Copy(p) \/ Undo(p) \/ Checkout(p)
  BY <1>1, <1>5, <1>6 DEF Copy, Undo, Checkout
<1>7. CASE \/ Copied(p) \/ Fail(p) \/ Undone(p) \/ Discarded(p) \/ Abandon(p) \/ Verified(p)
           \/ Commit(p) \/ Resave(p) \/ LogCommit(p) \/ MarkGoal(p) \/ MarkApplied(p) \/ Enqueue(p)
  BY <1>1, <1>7 DEF Copied, Fail, Undone, Discarded, Abandon, Verified, Commit, Resave,
                    LogCommit, MarkGoal, MarkApplied, Enqueue
<1> QED
  BY <1>3, <1>4, <1>6, <1>7 DEF Step, ApplyStep

(* The model is well formed: its types, and no write is left open by a     *)
(* process that is no longer writing.                                      *)
THEOREM TypeCorrect == Spec => []TypeOK
<1>1. Init => TypeInv /\ InHand
  BY TypeInit DEF Init, InHand
<1>2. TypeInv /\ InHand /\ [Next]_vars => (TypeInv /\ InHand)'
  <2> SUFFICES ASSUME TypeInv, InHand, [Next]_vars PROVE TypeInv' /\ InHand'
    OBVIOUS
  <2>1. TypeInv'
    BY TypeStep
  <2>2. ASSUME UNCHANGED vars PROVE InHand'
    BY <2>2 DEF vars, InHand
  <2>3. ASSUME Next PROVE InHand'
    BY <2>3, HandKept DEF Next
  <2> QED
    BY <2>1, <2>2, <2>3
<1>3. TypeInv /\ InHand => TypeOK
  BY DEF TypeInv, TypeOK
<1> QED
  BY <1>1, <1>2, <1>3, PTL DEF Spec

(* A step of p, in calm.                                                   *)
CalmMove(p) ==
    /\ ApplyInv /\ TypeInv'
    /\ Step(p) \/ Crash(p)
    /\ \A q \in Proc \ {p} : pc[q] \notin RecoveryPlaces /\ ~(At(p, "scan") /\ At(q, "begin"))

(* How a step may lead away from a commit that is in place.                *)
LEMMA CommitSteps ==
  ASSUME TypeInv, NEW p \in Proc, Step(p) \/ Crash(p)
  PROVE  /\ UNCHANGED dirty
         /\ goal' = "ready" => goal = "ready"
         /\ \/ pc'[p] \in Committed
            \/ head' = "commit" /\ status' = "approved" => head = "commit" /\ status = "approved"
         /\ pc[p] \in Committed =>
               \/ pc'[p] \in Committed
               \/ status' = "applied"
               \/ pc[p] = "resaved" /\ UNCHANGED status
               \/ pc[p] = "status" /\ used'["status"] = used["status"] + 1 /\ UNCHANGED goal
               \/ used'["crash"] = used["crash"] + 1
<1> USE DEF At, Go, Loop, Recovered, Quit, projectVars, Committed
<1>1. pc \in [Proc -> Places] /\ used \in [FaultKinds -> Nat]
  BY DEF TypeInv, Typed
<1>2. CASE Start(p) \/ RecoveryStep(p)
  BY <1>1, <1>2 DEF RecoveryStep, Start, Scan, Check, Decide, Forward, Uncommit, Restore,
                    Restored, Sweep, RecoveryPlaces
<1>3. CASE Crash(p)
  <2>1. pc[p] # "resaved" => used'["crash"] = used["crash"] + 1
    BY <1>1, <1>3 DEF Crash, Fault, FaultKinds
  <2> QED
    BY <1>1, <1>3, <2>1 DEF Crash
<1>4. CASE \/ CheckLock(p) \/ WriteLock(p) \/ Load(p) \/ MakeDir(p) \/ Begin(p)
           \/ (\E f \in File : RecordPrior(p, f)) \/ StopEarly(p) \/ PriorsDone(p)
           \/ Copy(p) \/ Copied(p) \/ Fail(p) \/ Undo(p) \/ Undone(p) \/ Checkout(p)
           \/ Discarded(p) \/ Abandon(p)
  BY <1>1, <1>4 DEF CheckLock, WriteLock, Load, MakeDir, Begin, RecordPrior, StopEarly,
                    PriorsDone, Copy, Copied, Fail, Undo, Undone, Checkout, Discarded, Abandon, Put
<1>5. CASE Verified(p) \/ Commit(p) \/ Resave(p) \/ LogCommit(p) \/ MarkGoal(p) \/ Enqueue(p)
  BY <1>1, <1>5 DEF Verified, Commit, Resave, LogCommit, MarkGoal, Enqueue
<1>6. CASE MarkApplied(p)
  <2>1. Fault("status") => used'["status"] = used["status"] + 1
    BY <1>1 DEF Fault, FaultKinds
  <2> QED
    BY <1>1, <1>6, <2>1 DEF MarkApplied
<1> QED
  BY <1>2, <1>3, <1>4, <1>5, <1>6 DEF Step, ApplyStep

LEMMA CommitKept ==
  ASSUME CalmFaults, NEW p \in Proc, CalmMove(p)
  PROVE  CommitForCause' /\ EditsCounted'
<1>1. /\ RollsBack(used)' => RollsBack(used)
      /\ \A k \in FaultKinds : used'[k] >= used[k] /\ used'[k] \in Nat /\ used[k] \in Nat
  BY CalmStep, FaultsCount, CalmFaults DEF CalmMove, ApplyInv, TypeInv, Typed
<1>2. EditsCounted'
  BY <1>1, CommitSteps DEF EditsCounted, CalmMove, ApplyInv, FaultKinds
<1>3. SUFFICES ASSUME RollsBack(used)', head' = "commit", status' = "approved", goal' = "ready"
               PROVE  \E q \in Applier : pc'[q] \in Committed
  BY <1>2 DEF CommitForCause
<1>4. CASE pc'[p] \in Committed
  BY <1>4 DEF CalmMove, TypeInv, DaemonsRecover, Committed, RecoveryPlaces
<1>5. CASE pc'[p] \notin Committed
  <2>1. head = "commit" /\ status = "approved" /\ goal = "ready"
    BY <1>3, <1>5, CommitSteps DEF CalmMove, ApplyInv
  <2>2. PICK q \in Applier : pc[q] \in Committed
    BY <1>1, <1>3, <2>1 DEF CalmMove, ApplyInv, CommitForCause
  <2>3. CASE q # p
    BY <2>2, <2>3, OthersStand DEF CalmMove, ApplyInv, Same, Proc
  <2>4. CASE q = p
    <3>1. /\ pc[p] = "resaved" => status = "torn"
          /\ pc[p] = "status" => used["status"] > 0
      BY <2>1, <2>2, <2>4 DEF CalmMove, ApplyInv, Applying, Overwriting, Written
    <3>2. used'["crash"] = 0 /\ used'["status"] <= 1
      BY <1>3 DEF RollsBack
    <3> QED
      BY <1>1, <1>3, <1>5, <2>1, <2>2, <2>4, <3>1, <3>2, CommitSteps
         DEF CalmMove, ApplyInv, FaultKinds
  <2> QED
    BY <2>3, <2>4
<1> QED
  BY <1>4, <1>5

LEMMA BystandersStand ==
  ASSUME CalmFaults, NEW p \in Proc, CalmMove(p)
  PROVE  /\ Calm(used)' /\ Alone' /\ CommitForCause' /\ EditsCounted'
         /\ RollsBack(used)' => RollsBack(used)
         /\ Journals(used)' => Journals(used)
         /\ \A k \in FaultKinds : used'[k] >= used[k]
         /\ \A q \in Proc \ {p} : Same(q) /\ Recovering(q)'
<1>1. /\ Calm(used)' /\ \A k \in FaultKinds : used'[k] >= used[k]
      /\ RollsBack(used)' => RollsBack(used)
      /\ Journals(used)' => Journals(used)
  BY CalmStep, FaultsCount, CalmFaults DEF CalmMove, ApplyInv
<1>2. \A q \in Proc \ {p} : Same(q) /\ pc'[q] \notin RecoveryPlaces
  BY OthersStand DEF CalmMove, ApplyInv, Same
<1>3. Alone'
  BY <1>2 DEF Alone
<1>4. \A q \in Proc \ {p} : Recovering(q)'
  BY <1>2 DEF Recovering, RecoveryPlaces, Reading, Restoring
<1> QED
  BY <1>1, <1>2, <1>3, <1>4, CommitKept, CalmFaults

-----------------------------------------------------------------------------
(* A recovery keeps what the project holds, and with it what an apply that *)
(* stands by knows: an apply that holds the lock is left alone.            *)
Spares ==
    /\ UNCHANGED <<goal, status>>
    /\ file = Before => file' = Before
    /\ queued => queued'

Harmless ==
    \/ UNCHANGED <<file, log, backup>>
    \/ lock \notin Proc
    \/ ~log.begun /\ UNCHANGED file

LEMMA FreeOfLock ==
  ASSUME TypeInv, LockRight, NEW a \in Applier, lock \notin Proc
  PROVE  pc[a] \notin Holding
  BY DEF LockRight, Proc

LEMMA ApplierSpared ==
  ASSUME ApplyInv, NEW a \in Applier, Same(a), Spares, Harmless,
         \A k \in FaultKinds : used'[k] >= used[k] /\ used'[k] \in Nat,
         RollsBack(used)' => RollsBack(used), Journals(used)' => Journals(used),
         pc[a] = "begin" => Unseen'
  PROVE  Applying(a)'
<1>1. /\ Applying(a) /\ used["journal"] \in Nat /\ used["status"] \in Nat
      /\ used'["journal"] >= used["journal"] /\ used'["status"] >= used["status"]
      /\ used'["journal"] \in Nat /\ used'["status"] \in Nat
  BY DEF ApplyInv, TypeInv, Typed, FaultKinds
<1>2. /\ NoRestart => NoRestart'
      /\ Settled => Settled'
  BY DEF Spares, NoRestart, Settled
<1>3. CASE UNCHANGED <<file, log, backup>>
  BY <1>1, <1>2, <1>3 DEF Applying, Same, Spares, Exact, Uncommitted, RollingBack
<1>4. CASE lock \notin Proc
  <2>1. pc[a] \notin Holding
    BY <1>4, FreeOfLock DEF ApplyInv
  <2> QED
    BY <1>1, <1>2, <2>1 DEF Applying, Same, Holding, ApplyPlaces, Overwriting, Written,
                            Uncommitted, RollingBack
<1>5. CASE ~log.begun /\ UNCHANGED file
  BY <1>1, <1>2, <1>5 DEF Applying, Same, Spares, Overwriting, Written, Uncommitted, RollingBack
<1> QED
  BY <1>3, <1>4, <1>5 DEF Harmless

(* A process that only recovers holds nothing half written.                *)
LEMMA RecovererApplies ==
  ASSUME ApplyInv, TypeInv', NEW p \in Applier,
         pc[p] \in {"scan"} \cup RecoveryPlaces,
         pc'[p] \in {"down", "lock"} \cup RecoveryPlaces,
         pc'[p] = "lock" => NoRestart',
         hand'[p] \in {hand[p], NoFile}
  PROVE  Applying(p)'
<1>1. hand'[p] = NoFile
  BY DEF ApplyInv, Applying, RecoveryPlaces
<1> QED
  BY <1>1 DEF Applying, RecoveryPlaces, Overwriting, Written, Uncommitted, RollingBack

(* Nobody is overwriting while the apply's own process recovers, or while  *)
(* nobody holds the lock.                                                  *)

LEMMA RecovererAlone ==
  ASSUME OneApplier, ApplyInv, NEW p \in Proc, p \in Applier \/ lock \notin Proc,
         pc[p] \in {"scan"} \cup RecoveryPlaces
  PROVE  NobodyWrites
<1>1. CASE p \in Applier
  BY <1>1, OneApplier
     DEF OneApplier, NobodyWrites, RecoveryPlaces, Overwriting, Written, RollingBack
<1>2. CASE lock \notin Proc
  BY <1>2, FreeOfLock
     DEF ApplyInv, NobodyWrites, Holding, ApplyPlaces, Overwriting, Written, RollingBack
<1> QED
  BY <1>1, <1>2

(* Without a journal to recover from, the draft is untouched or finished.  *)
LEMMA NothingBegun ==
  ASSUME ApplyInv, ~log.begun
  PROVE  Settled /\ ~Undoing /\ log = NoLog
<1>1. ~Undoing
  BY DEF ApplyInv, Undoing, Applying, RollingBack
<1>2. log = NoLog
  BY DEF ApplyInv, GoodLog
<1>3. status = "approved" => file = Before
  <2> SUFFICES ASSUME status = "approved" PROVE file = Before
    OBVIOUS
  <2>1. Saved /\ log.priors = {}
    BY <1>1, <1>2 DEF ApplyInv, StatusRight, NoLog
  <2>2. \A f \in File : file[f] = Before[f]
    BY <2>1 DEF Saved
  <2> QED
    BY <2>2, BeforeType, SameFiles DEF ApplyInv, TypeInv, Typed
<1> QED
  BY <1>1, <1>2, <1>3 DEF ApplyInv, StatusRight, Settled

(* What every step of a recovery keeps.                                    *)
RecoveryMove(p) ==
    /\ CalmMove(p) /\ UNCHANGED lock /\ Spares /\ Harmless
    /\ pc[p] \in {"scan"} \cup RecoveryPlaces
    /\ pc'[p] \in {"down", "lock"} \cup RecoveryPlaces
    /\ pc'[p] = "lock" => p \in Applier /\ NoRestart'
    /\ hand'[p] \in {hand[p], NoFile}

LEMMA RecoveryKeeps ==
  ASSUME CalmFaults, NEW p \in Proc, RecoveryMove(p)
  PROVE  /\ LockRight' /\ LeftForCause' /\ \A a \in Applier : Applying(a)'
         /\ Undoing' <=> Undoing
<1>1. /\ \A q \in Proc \ {p} : Same(q)
      /\ \A k \in FaultKinds : used'[k] >= used[k] /\ used'[k] \in Nat /\ used[k] \in Nat
      /\ RollsBack(used)' => RollsBack(used)
      /\ Journals(used)' => Journals(used)
  BY BystandersStand, CalmFaults DEF RecoveryMove, CalmMove, ApplyInv, TypeInv, Typed
<1>2. \A a \in Applier : pc[a] = pc'[a] \/ (a = p /\ {pc[p], pc'[p]} \cap Holding = {})
  BY <1>1 DEF RecoveryMove, Same, Proc, Holding, ApplyPlaces, RecoveryPlaces
<1>3. LockRight'
  BY <1>2 DEF LockRight, RecoveryMove, CalmMove, ApplyInv
<1>4. Overwriting \cup RollingBack \in SUBSET Holding
  BY DEF Overwriting, Written, Holding, ApplyPlaces, RollingBack
<1>5. (Undoing' <=> Undoing) /\ (NobodyWrites' <=> NobodyWrites)
  BY <1>2, <1>4 DEF Undoing, NobodyWrites, RollingBack
<1>6. LeftForCause'
  BY <1>1, <1>5 DEF LeftForCause, RecoveryMove, Spares, CalmMove, ApplyInv, FaultKinds
<1>7. ASSUME NEW a \in Applier PROVE Applying(a)'
  <2>1. CASE a = p
    BY <2>1, RecovererApplies DEF RecoveryMove, CalmMove
  <2>2. CASE a # p
    <3>1. pc[a] # "begin"
      BY <2>2 DEF RecoveryMove, CalmMove, ApplyInv, Applying, Unseen, At, Proc
    <3> QED
      BY <1>1, <2>2, <3>1, ApplierSpared DEF RecoveryMove, CalmMove, Proc
  <2> QED
    BY <2>1, <2>2
<1> QED
  BY <1>3, <1>5, <1>6, <1>7

(* A recovery that stops does not let a second apply begin over the files. *)
LEMMA StopsInTime ==
  ASSUME OneApplier, CalmFaults, NEW p \in Applier, CalmMove(p), Spares,
         pc[p] \in {"scan"} \cup RecoveryPlaces,
         status = "torn" \/ used'["restore"] > 0
  PROVE  NoRestart'
<1>1. NobodyWrites
  BY RecovererAlone, OneApplier DEF CalmMove, Proc
<1>2. Calm(used)' /\ used'["crash"] >= used["crash"] /\ used'["status"] >= used["status"]
  BY BystandersStand, CalmFaults DEF FaultKinds, Proc
<1>3. /\ used["crash"] \in Nat /\ used["status"] \in Nat /\ used'["restore"] \in Nat
      /\ used'["crash"] \in Nat /\ used'["status"] \in Nat
  BY DEF CalmMove, ApplyInv, TypeInv, Typed, FaultKinds
<1>4. used'["restore"] > 0 => used["crash"] = 0 /\ used["status"] <= 1
  BY <1>2, <1>3 DEF Calm, RollsBack, Journals
<1>5. status # "torn" => NoRestart
  BY <1>1, <1>3, <1>4 DEF CalmMove, ApplyInv, LeftForCause, NoRestart
<1> QED
  BY <1>5 DEF NoRestart, Spares

LEMMA RecoveryDone ==
  ASSUME CalmFaults, NEW p \in Proc, RecoveryMove(p), GoodLog', StatusRight', Recovering(p)'
  PROVE  ApplyInv'
<1>1. /\ Calm(used)' /\ Alone' /\ CommitForCause' /\ EditsCounted'
      /\ \A q \in Proc \ {p} : Recovering(q)'
  BY BystandersStand, CalmFaults DEF RecoveryMove
<1>2. LockRight' /\ LeftForCause' /\ \A a \in Applier : Applying(a)'
  BY RecoveryKeeps, CalmFaults
<1> QED
  BY <1>1, <1>2 DEF ApplyInv, RecoveryMove, CalmMove

(* A step that only moves the process leaves journal and status right.     *)
LEMMA OnlyMoves ==
  ASSUME CalmFaults, NEW p \in Proc, RecoveryMove(p),
         UNCHANGED <<file, goal, status, queued, dir, log, backup>>
  PROVE  GoodLog' /\ StatusRight'
<1>1. Undoing' <=> Undoing
  BY RecoveryKeeps, CalmFaults
<1> QED
  BY <1>1 DEF GoodLog, StatusRight, Saved, Exact, RecoveryMove, CalmMove, ApplyInv

LEMMA PlaceAfter ==
  ASSUME TypeInv, NEW p \in Proc
  PROVE  /\ \A place : Go(p, place) => pc'[p] = place
         /\ Recovered(p) => /\ pc'[p] = (IF p \in Applier THEN "lock" ELSE "down")
                            /\ hand'[p] = NoFile
         /\ UNCHANGED hand => hand'[p] = hand[p]
  BY DEF Go, Recovered, ClearLocals, TypeInv, Typed

LEMMA StopsQuietly ==
  ASSUME CalmFaults, NEW p \in Proc, RecoveryMove(p), Recovered(p),
         UNCHANGED <<projectVars, journalVars>>
  PROVE  ApplyInv'
<1>1. pc'[p] \in {"lock", "down"}
  BY PlaceAfter DEF RecoveryMove, CalmMove, ApplyInv
<1>2. Recovering(p)'
  BY <1>1 DEF Recovering, Reading, Restoring
<1> QED
  BY <1>2, OnlyMoves, RecoveryDone, CalmFaults DEF projectVars, journalVars

LEMMA ScanKeeps ==
  ASSUME OneApplier, CalmFaults, NEW p \in Proc, CalmMove(p), Scan(p)
  PROVE  ApplyInv'
<1> USE DEF projectVars, journalVars, localVars
<1>1. Spares /\ Harmless /\ pc[p] = "scan" /\ UNCHANGED lock
  BY DEF Scan, At, Spares, Harmless
<1>2. ~log.begun => Settled
  BY NothingBegun DEF CalmMove
<1>3. CASE ~dir /\ Recovered(p)
  <2>1. RecoveryMove(p)
    <3>1. NoRestart'
      BY <1>1, <1>2, <1>3 DEF CalmMove, ApplyInv, GoodLog, NoRestart, Settled, Spares
    <3> QED
      BY <1>1, <1>3, <3>1, PlaceAfter DEF RecoveryMove, CalmMove, ApplyInv
  <2> QED
    BY <2>1, <1>3, StopsQuietly, CalmFaults DEF Scan
<1>4. CASE dir /\ ~log.begun /\ Go(p, "sweep") /\ UNCHANGED localVars
  <2>1. pc'[p] = "sweep" /\ hand'[p] = hand[p]
    BY <1>4, PlaceAfter DEF CalmMove, ApplyInv
  <2>2. RecoveryMove(p)
    BY <1>1, <2>1 DEF RecoveryMove, RecoveryPlaces
  <2>3. Recovering(p)'
    BY <2>1, <1>2, <1>4 DEF Recovering, Reading, Restoring, Scan, Settled
  <2> QED
    BY <2>2, <2>3, OnlyMoves, RecoveryDone, CalmFaults DEF Scan
<1>5. CASE /\ dir /\ log.begun /\ Go(p, "check")
           /\ read' = [read EXCEPT ![p] = log]
           /\ UNCHANGED <<left, hand, snap, failed>>
  <2>1. pc'[p] = "check" /\ hand'[p] = hand[p] /\ read'[p] = log
    BY <1>5, PlaceAfter DEF CalmMove, ApplyInv, TypeInv, Typed
  <2>2. RecoveryMove(p)
    BY <1>1, <2>1 DEF RecoveryMove, RecoveryPlaces
  <2>3. Recovering(p)'
    BY <2>1, <1>5 DEF Recovering, Reading, Restoring, Scan
  <2> QED
    BY <2>2, <2>3, OnlyMoves, RecoveryDone, CalmFaults DEF Scan
<1> QED
  BY <1>3, <1>4, <1>5 DEF Scan

LEMMA CheckKeeps ==
  ASSUME OneApplier, CalmFaults, NEW p \in Proc, CalmMove(p), Check(p)
  PROVE  ApplyInv'
<1> USE DEF projectVars, journalVars, localVars
<1>1. Spares /\ Harmless /\ pc[p] = "check" /\ UNCHANGED lock
  BY DEF Check, At, Spares, Harmless
<1>2. CASE lock \in Proc /\ Recovered(p)
  <2>1. p \notin Applier
    <3> SUFFICES ASSUME p \in Applier PROVE FALSE
      OBVIOUS
    <3>1. lock \in Applier
      BY <1>2, JournalAssumption DEF JournalAssumption, CalmMove, ApplyInv, TypeInv, Typed
    <3>2. lock = p
      BY <3>1, OneApplier DEF OneApplier
    <3> QED
      BY <1>1, <3>2 DEF CalmMove, ApplyInv, LockRight, Holding, ApplyPlaces
  <2>2. RecoveryMove(p)
    BY <1>1, <1>2, <2>1, PlaceAfter DEF RecoveryMove, RecoveryPlaces, CalmMove, ApplyInv
  <2> QED
    BY <2>2, <1>2, StopsQuietly, CalmFaults DEF Check
<1>3. CASE lock \notin Proc /\ Go(p, "decide") /\ UNCHANGED localVars
  <2>1. pc'[p] = "decide" /\ hand'[p] = hand[p]
    BY <1>3, PlaceAfter DEF CalmMove, ApplyInv
  <2>2. RecoveryMove(p)
    BY <1>1, <2>1 DEF RecoveryMove, RecoveryPlaces
  <2>3. Recovering(p)'
    BY <1>1, <2>1, <1>3 DEF Recovering, Reading, Restoring, Check, CalmMove, ApplyInv
  <2> QED
    BY <2>2, <2>3, OnlyMoves, RecoveryDone, CalmFaults DEF Check
<1> QED
  BY <1>2, <1>3 DEF Check

LEMMA DecideKeeps ==
  ASSUME OneApplier, CalmFaults, NEW p \in Proc, CalmMove(p), Decide(p)
  PROVE  ApplyInv'
<1> USE DEF projectVars, journalVars, localVars
<1>1. /\ Spares /\ Harmless /\ pc[p] = "decide" /\ UNCHANGED lock
      /\ log.begun /\ read[p] = log /\ lock \notin Proc
  BY DEF Decide, At, Spares, Harmless, CalmMove, ApplyInv, Recovering, Reading
<1>2. CASE Recovered(p) /\ (status = "torn" \/ Fault("restore"))
  <2>1. Fault("restore") => used'["restore"] > 0
    BY DEF Fault, CalmMove, ApplyInv, TypeInv, Typed, FaultKinds
  <2>2. p \in Applier => NoRestart'
    BY <1>1, <1>2, <2>1, StopsInTime, OneApplier, CalmFaults DEF RecoveryPlaces
  <2>3. RecoveryMove(p)
    BY <1>1, <1>2, <2>2, PlaceAfter DEF RecoveryMove, RecoveryPlaces, CalmMove, ApplyInv
  <2> QED
    BY <2>3, <1>2, StopsQuietly, CalmFaults DEF Decide
<1>3. CASE /\ status # "torn"
           /\ Loop(p, IF status = "applied" THEN "forward" ELSE "uncommit", read[p].priors)
           /\ UNCHANGED <<hand, snap, read, used>>
  <2>1. /\ pc'[p] = (IF status = "applied" THEN "forward" ELSE "uncommit")
        /\ hand'[p] = hand[p] /\ left'[p] = log.priors /\ failed'[p] = FALSE /\ read'[p] = log
    BY <1>1, <1>3 DEF Loop, Go, CalmMove, ApplyInv, TypeInv, Typed
  <2>2. RecoveryMove(p)
    BY <1>1, <2>1 DEF RecoveryMove, RecoveryPlaces
  <2>3. status \in {"approved", "applied"}
    BY <1>3 DEF CalmMove, ApplyInv, TypeInv, Typed
  <2>4. Recovering(p)'
    BY <1>1, <2>1, <2>3 DEF Recovering, Reading, Restoring, Decide
  <2> QED
    BY <2>2, <2>4, OnlyMoves, RecoveryDone, CalmFaults DEF Decide
<1> QED
  BY <1>2, <1>3 DEF Decide

LEMMA ForwardKeeps ==
  ASSUME OneApplier, CalmFaults, NEW p \in Proc, CalmMove(p), Forward(p)
  PROVE  ApplyInv'
<1> USE DEF journalVars, localVars
<1>1. /\ pc[p] = "forward" /\ UNCHANGED lock /\ UNCHANGED <<file, goal, status>>
      /\ status = "applied" /\ log.begun /\ lock \notin Proc
  BY DEF Forward, At, CalmMove, ApplyInv, Recovering, Reading
<1>2. CASE queued' = TRUE /\ Go(p, "sweep") /\ UNCHANGED <<localVars, used>>
  <2>1. pc'[p] = "sweep" /\ hand'[p] = hand[p]
    BY <1>2, PlaceAfter DEF CalmMove, ApplyInv
  <2>2. RecoveryMove(p)
    BY <1>1, <1>2, <2>1 DEF RecoveryMove, RecoveryPlaces, Spares, Harmless
  <2>3. GoodLog' /\ StatusRight'
    BY <1>1, <1>2 DEF Forward, GoodLog, StatusRight, CalmMove, ApplyInv
  <2>4. Recovering(p)'
    BY <1>1, <1>2, <2>1 DEF Recovering, Reading, Restoring, Settled
  <2> QED
    BY <2>2, <2>3, <2>4, RecoveryDone, CalmFaults
<1>3. CASE Recovered(p) /\ UNCHANGED queued
  <2>1. RecoveryMove(p)
    BY <1>1, <1>3, PlaceAfter DEF RecoveryMove, RecoveryPlaces, Spares, Harmless, NoRestart,
                                  CalmMove, ApplyInv
  <2> QED
    BY <2>1, <1>3, StopsQuietly, CalmFaults DEF Forward, projectVars
<1> QED
  BY <1>2, <1>3 DEF Forward

LEMMA UncommitKeeps ==
  ASSUME OneApplier, CalmFaults, NEW p \in Proc, CalmMove(p), Uncommit(p)
  PROVE  ApplyInv'
<1> USE DEF journalVars, localVars
<1>1. /\ pc[p] = "uncommit" /\ UNCHANGED <<lock, file, goal, status, queued, dir, log, backup>>
      /\ Spares /\ Harmless /\ Recovering(p)
  BY DEF Uncommit, At, CalmMove, ApplyInv, Spares, Harmless
<1>2. CASE Go(p, "restore") /\ UNCHANGED <<localVars, used>>
  <2>1. pc'[p] = "restore" /\ hand'[p] = hand[p]
    BY <1>2, PlaceAfter DEF CalmMove, ApplyInv
  <2>2. RecoveryMove(p)
    BY <1>1, <2>1 DEF RecoveryMove, RecoveryPlaces
  <2>3. Recovering(p)'
    BY <1>1, <1>2, <2>1 DEF Recovering, Reading, Restoring
  <2> QED
    BY <1>1, <2>2, <2>3, OnlyMoves, RecoveryDone, CalmFaults
<1>3. CASE Fault("restore") /\ Recovered(p)
  <2>1. used'["restore"] > 0
    BY <1>3 DEF Fault, CalmMove, ApplyInv, TypeInv, Typed, FaultKinds
  <2>2. p \in Applier => NoRestart'
    BY <1>1, <2>1, StopsInTime, OneApplier, CalmFaults DEF RecoveryPlaces
  <2>3. RecoveryMove(p)
    BY <1>1, <1>3, <2>2, PlaceAfter DEF RecoveryMove, RecoveryPlaces, CalmMove, ApplyInv
  <2>4. pc'[p] \in {"lock", "down"}
    BY <1>3, PlaceAfter DEF CalmMove, ApplyInv
  <2>5. Recovering(p)'
    BY <2>4 DEF Recovering, Reading, Restoring
  <2> QED
    BY <1>1, <2>3, <2>5, OnlyMoves, RecoveryDone, CalmFaults
<1> QED
  BY <1>2, <1>3 DEF Uncommit

(* What one path is restored to is what it held before, whether it is the  *)
(* recovery or the apply's own rollback that restores it.                  *)
LEMMA RestoreRestores ==
  ASSUME ApplyInv, NEW p \in Proc, NEW f \in File, Restore(p, f),
         read[p] = log, f \in log.priors
  PROVE  /\ \/ file'[f] = Before[f] /\ UNCHANGED failed
            \/ file' = file /\ failed' = [failed EXCEPT ![p] = TRUE]
                 /\ (backup[f] # Before[f] \/ used'["restore"] > 0)
         /\ \A g \in File \ {f} : file'[g] = file[g]
         /\ file' \in [File -> Contents]
<1>1. /\ f \in log.existed <=> f \in Existed
      /\ backup[f] \in {Before[f], "absent"}
      /\ file \in [File -> Contents] /\ backup \in [File -> Contents]
      /\ used["restore"] \in Nat
  BY DEF ApplyInv, GoodLog, TypeInv, Typed, FaultKinds
<1>2. Fault("restore") => used'["restore"] > 0
  BY DEF Fault, ApplyInv, TypeInv, Typed, FaultKinds
<1>3. Before[f] = IF f \in Existed THEN "old" ELSE "absent"
  BY BeforeValues
<1>4. "absent" \in Contents
  BY DEF Contents
<1> QED
  BY <1>1, <1>2, <1>3, <1>4 DEF Restore

LEMMA RestoreKeeps ==
  ASSUME OneApplier, CalmFaults, NEW p \in Proc, CalmMove(p), NEW f \in File,
         Restore(p, f), pc[p] = "restore"
  PROVE  ApplyInv'
<1> USE DEF journalVars
<1>1. /\ log.begun /\ read[p] = log /\ lock \notin Proc /\ status = "approved"
      /\ left[p] \in SUBSET log.priors /\ f \in left[p]
      /\ \A g \in log.priors \ left[p] : file[g] = Before[g] \/ failed[p]
      /\ failed[p] => used["restore"] > 0 \/ file = Before
  BY DEF CalmMove, ApplyInv, Recovering, Reading, Restoring, Restore
<1>2. /\ UNCHANGED <<goal, status, queued, lock, dir, log, backup, pc, hand, snap, read>>
      /\ left'[p] = left[p] \ {f}
  BY DEF Restore, CalmMove, ApplyInv, TypeInv, Typed
<1>3. /\ \/ file'[f] = Before[f] /\ failed'[p] = failed[p]
         \/ file' = file /\ failed'[p] /\ (backup[f] # Before[f] \/ used'["restore"] > 0)
      /\ \A g \in File \ {f} : file'[g] = file[g]
      /\ file' \in [File -> Contents] /\ file \in [File -> Contents]
  BY <1>1, RestoreRestores DEF CalmMove, ApplyInv, TypeInv, Typed
<1>4. file = Before => file' = Before
  BY <1>3, BeforeType, SameFiles
<1>5. ~Undoing /\ Saved
  <2>1. NobodyWrites
    BY <1>1, RecovererAlone, OneApplier DEF CalmMove, RecoveryPlaces
  <2> QED
    BY <1>1, <2>1 DEF NobodyWrites, RollingBack, Undoing, CalmMove, ApplyInv, StatusRight
<1>6. RecoveryMove(p)
  BY <1>1, <1>2, <1>4 DEF RecoveryMove, CalmMove, Spares, Harmless, RecoveryPlaces
<1>7. GoodLog' /\ StatusRight'
  <2>1. Exact' <=> Exact
    BY <1>2 DEF Exact
  <2>2. Saved'
    BY <1>2, <1>3, <1>4, <1>5, <2>1 DEF Saved
  <2> QED
    BY <1>1, <1>2, <2>2 DEF GoodLog, StatusRight, CalmMove, ApplyInv
<1>8. Recovering(p)'
  <2>1. failed'[p] => used'["restore"] > 0 \/ file' = Before
    <3>1. used'["restore"] >= used["restore"] /\ used'["restore"] \in Nat /\ used["restore"] \in Nat
      BY BystandersStand, CalmFaults DEF FaultKinds, CalmMove, ApplyInv, TypeInv, Typed
    <3>2. backup[f] # Before[f] => file = Before
      BY <1>1, <1>5 DEF Saved, Exact
    <3>3. CASE failed'[p] = failed[p]
      BY <1>1, <1>4, <3>1, <3>3
    <3>4. CASE backup[f] # Before[f] \/ used'["restore"] > 0
      BY <1>4, <3>2, <3>4
    <3> QED
      BY <1>3, <3>3, <3>4
  <2>2. \A g \in log.priors \ left'[p] : file'[g] = Before[g] \/ failed'[p]
    BY <1>1, <1>2, <1>3 DEF CalmMove, ApplyInv, TypeInv, Typed, Logs
  <2> QED
    BY <1>1, <1>2, <2>1, <2>2 DEF Recovering, Reading, Restoring
<1> QED
  BY <1>6, <1>7, <1>8, RecoveryDone, CalmFaults

LEMMA RestoredKeeps ==
  ASSUME OneApplier, CalmFaults, NEW p \in Proc, CalmMove(p), Restored(p), pc[p] = "restore"
  PROVE  ApplyInv'
<1> USE DEF journalVars, projectVars, localVars
<1>1. /\ log.begun /\ lock \notin Proc /\ status = "approved" /\ left[p] = {}
      /\ \A g \in log.priors : file[g] = Before[g] \/ failed[p]
      /\ failed[p] => used["restore"] > 0 \/ file = Before
  BY DEF CalmMove, ApplyInv, Recovering, Reading, Restoring, Restored
<1>2. /\ UNCHANGED <<dirty, file, head, goal, status, queued, dir, log, backup, lock, used>>
      /\ Spares /\ Harmless
  BY DEF Restored, At, Spares, Harmless
<1>3. CASE failed[p] /\ Recovered(p)
  <2>1. p \in Applier => NoRestart'
    BY <1>1, <1>2, <1>3, StopsInTime, OneApplier, CalmFaults DEF RecoveryPlaces, NoRestart
  <2>2. RecoveryMove(p)
    BY <1>2, <1>3, <2>1, PlaceAfter DEF RecoveryMove, RecoveryPlaces, CalmMove, ApplyInv
  <2> QED
    BY <1>2, <1>3, <2>2, StopsQuietly, CalmFaults
<1>4. CASE ~failed[p] /\ Go(p, "sweep") /\ UNCHANGED localVars
  <2>1. file = Before
    <3>1. ~Undoing
      BY <1>1, RecovererAlone, OneApplier
         DEF CalmMove, RecoveryPlaces, NobodyWrites, RollingBack, Undoing
    <3>2. \A f \in File : file[f] = Before[f]
      BY <1>1, <1>4, <3>1 DEF CalmMove, ApplyInv, StatusRight, Saved
    <3> QED
      BY <3>2, BeforeType, SameFiles DEF CalmMove, ApplyInv, TypeInv, Typed
  <2>2. pc'[p] = "sweep" /\ hand'[p] = hand[p]
    BY <1>4, PlaceAfter DEF CalmMove, ApplyInv
  <2>3. RecoveryMove(p)
    BY <1>2, <2>2 DEF RecoveryMove, RecoveryPlaces
  <2>4. Recovering(p)'
    BY <1>1, <1>2, <2>1, <2>2 DEF Recovering, Reading, Restoring, Settled
  <2> QED
    BY <1>2, <2>3, <2>4, OnlyMoves, RecoveryDone, CalmFaults
<1> QED
  BY <1>3, <1>4 DEF Restored, At

(* Clearing the journal away, whoever does it.                             *)
LEMMA SweepClears ==
  ASSUME ApplyInv, NEW p \in Proc, Sweep(p), Settled
  PROVE  /\ UNCHANGED <<file, head, goal, status, queued, used>>
         /\ GoodLog' /\ StatusRight' /\ (log'.begun => log.begun)
<1>1. UNCHANGED <<file, head, goal, status, queued, used>>
  BY DEF Sweep, projectVars
<1>2. /\ log' = log \/ log' = NoLog
      /\ dir' = dir \/ log' = NoLog
      /\ \A f \in File : backup'[f] \in {backup[f], "absent"}
  BY DEF Sweep, ApplyInv, TypeInv, Typed
<1>3. ~NoLog.begun /\ NoLog.priors = {} /\ NoLog.existed = {}
  BY DEF NoLog
<1>4. log.priors \in SUBSET File /\ (log'.begun => log.begun)
  BY <1>2, <1>3 DEF ApplyInv, TypeInv, Typed, Logs
<1>5. GoodLog'
  <2>1. CASE log' = NoLog
    BY <1>3, <2>1 DEF GoodLog
  <2>2. CASE log' = log /\ dir' = dir
    BY <1>2, <1>4, <2>2 DEF GoodLog, ApplyInv, TypeInv, Typed, Logs
  <2> QED
    BY <1>2, <2>1, <2>2
<1>6. StatusRight'
  <2>1. status = "applied" \/ (status = "approved" /\ file = Before)
    BY DEF Settled, ApplyInv, TypeInv, Typed
  <2> QED
    BY <1>1, <2>1 DEF StatusRight, Settled, Saved, ApplyInv
<1> QED
  BY <1>1, <1>4, <1>5, <1>6

LEMMA SweepKeeps ==
  ASSUME OneApplier, CalmFaults, NEW p \in Proc, CalmMove(p), Sweep(p), pc[p] = "sweep"
  PROVE  ApplyInv'
<1>1. Settled /\ (log.begun => lock \notin Proc)
  BY DEF CalmMove, ApplyInv, Recovering
<1>2. /\ UNCHANGED <<file, head, goal, status, queued, used>>
      /\ GoodLog' /\ StatusRight' /\ (log'.begun => log.begun)
  BY <1>1, SweepClears DEF CalmMove
<1>3. Spares /\ Harmless /\ Settled' /\ NoRestart'
  BY <1>1, <1>2 DEF Spares, Harmless, Settled, NoRestart
<1>4. CASE UNCHANGED <<lock, pc, localVars>>
  <2>1. RecoveryMove(p)
    BY <1>3, <1>4 DEF RecoveryMove, RecoveryPlaces, localVars
  <2>2. Recovering(p)'
    BY <1>1, <1>2, <1>3, <1>4 DEF Recovering, Reading, Restoring
  <2> QED
    BY <1>2, <2>1, <2>2, RecoveryDone, CalmFaults
<1>5. CASE Recovered(p) /\ UNCHANGED lock
  <2>1. pc'[p] = (IF p \in Applier THEN "lock" ELSE "down") /\ hand'[p] = NoFile
    BY <1>5, PlaceAfter DEF CalmMove, ApplyInv
  <2>2. RecoveryMove(p)
    BY <1>3, <1>5, <2>1 DEF RecoveryMove, RecoveryPlaces
  <2>3. Recovering(p)'
    BY <2>1 DEF Recovering, Reading, Restoring
  <2> QED
    BY <1>2, <2>2, <2>3, RecoveryDone, CalmFaults
<1> QED
  BY <1>4, <1>5 DEF Sweep, At

-----------------------------------------------------------------------------
(* The steps of the apply.  There is one applier, so what is said of all   *)
(* appliers is said of the one that moves.                                 *)
LEMMA Sole ==
  ASSUME OneApplier, NEW p \in Applier
  PROVE  /\ Undoing <=> pc[p] = "undo"
         /\ Undoing' <=> pc'[p] = "undo"
         /\ NobodyWrites <=> pc[p] \notin Overwriting \cup RollingBack
         /\ NobodyWrites' <=> pc'[p] \notin Overwriting \cup RollingBack
         /\ LockRight <=> (lock = p <=> pc[p] \in Holding)
         /\ LockRight' <=> (lock' = p <=> pc'[p] \in Holding)
  BY DEF OneApplier, Undoing, NobodyWrites, LockRight

ApplyMove(p) == p \in Applier /\ CalmMove(p) /\ pc'[p] \notin RecoveryPlaces

LEMMA ApplyDone ==
  ASSUME OneApplier, CalmFaults, NEW p \in Applier, ApplyMove(p),
         LockRight', GoodLog', StatusRight', LeftForCause', Applying(p)'
  PROVE  ApplyInv'
<1>1. p \in Proc /\ \A a \in Applier : a = p
  BY OneApplier DEF OneApplier, Proc
<1>2. /\ Calm(used)' /\ Alone' /\ CommitForCause' /\ EditsCounted'
      /\ \A q \in Proc \ {p} : Recovering(q)'
  BY <1>1, BystandersStand, CalmFaults DEF ApplyMove
<1>3. Recovering(p)'
  BY DEF ApplyMove, Recovering, RecoveryPlaces, Reading, Restoring
<1>4. \A a \in Applier : Applying(a)'
  BY <1>1
<1> QED
  BY <1>2, <1>3, <1>4 DEF ApplyInv, ApplyMove, CalmMove

LEMMA LogKept ==
  ASSUME GoodLog, UNCHANGED <<dir, log, backup>>
  PROVE  GoodLog' /\ (Exact' <=> Exact)
  BY DEF GoodLog, Exact

LEMMA StatusKept ==
  ASSUME StatusRight, UNCHANGED <<file, status, queued, log, backup>>, Undoing' <=> Undoing
  PROVE  StatusRight'
  BY DEF StatusRight, Saved, Exact

(* Ending the command, or dying.                                           *)
LEMMA DownApplies ==
  ASSUME NEW p \in Applier, pc'[p] = "down", hand'[p] = NoFile
  PROVE  Applying(p)'
  BY DEF Applying, Overwriting, Written, Uncommitted, RollingBack

LEMMA AfterQuit ==
  ASSUME TypeInv, NEW p \in Applier, Quit(p)
  PROVE  pc'[p] = "down" /\ hand'[p] = NoFile /\ lock' = "none" /\ lock' # p
  BY JournalAssumption DEF Quit, Go, ClearLocals, TypeInv, Typed, Proc, JournalAssumption

LEMMA QuitKeeps ==
  ASSUME OneApplier, CalmFaults, NEW p \in Applier, CalmMove(p), Quit(p),
         GoodLog', StatusRight', LeftForCause'
  PROVE  ApplyInv'
<1>1. pc'[p] = "down" /\ hand'[p] = NoFile /\ lock' # p
  BY AfterQuit DEF CalmMove, ApplyInv
<1>2. LockRight' /\ Applying(p)' /\ ApplyMove(p)
  BY <1>1, Sole, OneApplier, DownApplies DEF ApplyMove, RecoveryPlaces, Holding, ApplyPlaces
<1> QED
  BY <1>2, ApplyDone, OneApplier, CalmFaults

(* Moving on within the places that hold the lock, the files untouched.    *)
LEMMA QuietApply ==
  ASSUME OneApplier, CalmFaults, NEW p \in Applier, CalmMove(p),
         pc[p] \in ApplyPlaces, pc'[p] \in ApplyPlaces \cup {"down"},
         lock' = p <=> pc'[p] \in Holding,
         pc[p] # "undo", pc'[p] # "undo" \/ status = "approved",
         pc[p] \in Overwriting \cup RollingBack => pc'[p] \in Overwriting \cup RollingBack,
         UNCHANGED <<file, goal, status, queued, dir, log, backup>>,
         Applying(p)'
  PROVE  ApplyInv'
<1>1. ApplyMove(p) /\ LockRight'
  BY Sole, OneApplier DEF ApplyMove, RecoveryPlaces, ApplyPlaces
<1>2. GoodLog'
  BY LogKept DEF CalmMove, ApplyInv
<1>3. StatusRight'
  BY Sole, OneApplier DEF StatusRight, Saved, Exact, CalmMove, ApplyInv
<1>4. LeftForCause'
  <2>1. NobodyWrites' => NobodyWrites
    BY Sole, OneApplier
  <2>2. \A k \in FaultKinds : used'[k] >= used[k] /\ used'[k] \in Nat /\ used[k] \in Nat
    BY BystandersStand, CalmFaults DEF CalmMove, ApplyInv, TypeInv, Typed, Proc
  <2> QED
    BY <2>1, <2>2 DEF LeftForCause, CalmMove, ApplyInv, FaultKinds
<1> QED
  BY <1>1, <1>2, <1>3, <1>4, ApplyDone, OneApplier, CalmFaults

LEMMA StartKeeps ==
  ASSUME OneApplier, CalmFaults, NEW p \in Proc, CalmMove(p), Start(p)
  PROVE  ApplyInv'
<1> USE DEF projectVars, journalVars, localVars
<1>1. pc[p] = "down" /\ pc'[p] = "scan" /\ hand'[p] = hand[p] /\ UNCHANGED lock
  BY DEF Start, At, Go, CalmMove, ApplyInv, TypeInv, Typed
<1>2. UNCHANGED <<file, goal, status, queued, dir, log, backup, used>>
  BY DEF Start
<1>3. \A q \in Proc \ {p} : Same(q)
  BY BystandersStand, CalmFaults
<1>4. /\ Calm(used)' /\ Alone' /\ CommitForCause' /\ EditsCounted'
      /\ \A q \in Proc \ {p} : Recovering(q)'
      /\ \A k \in FaultKinds : used'[k] >= used[k] /\ used'[k] \in Nat
      /\ RollsBack(used)' => RollsBack(used)
      /\ Journals(used)' => Journals(used)
  BY BystandersStand, CalmFaults DEF CalmMove, TypeInv, Typed
<1>5. Recovering(p)'
  BY <1>1 DEF Recovering, Reading, Restoring
<1>6. (Undoing' <=> Undoing) /\ (NobodyWrites' <=> NobodyWrites)
  BY <1>1, <1>3 DEF Same, Undoing, NobodyWrites, Overwriting, Written, RollingBack, Proc
<1>7. LockRight'
  BY <1>1, <1>3 DEF LockRight, Same, Proc, Holding, ApplyPlaces, CalmMove, ApplyInv
<1>8. GoodLog' /\ StatusRight' /\ LeftForCause'
  BY <1>2, <1>6, LogKept, StatusKept DEF LeftForCause, CalmMove, ApplyInv
<1>9. ASSUME NEW a \in Applier PROVE Applying(a)'
  <2>1. CASE a = p
    <3>1. hand'[p] = NoFile
      BY <1>1, <2>1 DEF CalmMove, ApplyInv, Applying
    <3> QED
      BY <1>1, <2>1, <3>1 DEF Applying, Overwriting, Written, Uncommitted, RollingBack
  <2>2. CASE a # p
    <3>1. pc[a] = "begin" => Unseen'
      BY <1>1, <1>2, <1>3 DEF CalmMove, ApplyInv, Applying, Unseen, Same, RecoveryPlaces
    <3> QED
      BY <1>2, <1>3, <1>4, <2>2, <3>1, ApplierSpared DEF CalmMove, Spares, Harmless, Proc
  <2> QED
    BY <2>1, <2>2
<1> QED
  BY <1>4, <1>5, <1>7, <1>8, <1>9 DEF ApplyInv, CalmMove

LEMMA CrashKeeps ==
  ASSUME OneApplier, CalmFaults, NEW p \in Proc, CalmMove(p), Crash(p)
  PROVE  ApplyInv'
<1>1. /\ pc'[p] = "down" /\ hand'[p] = NoFile
      /\ UNCHANGED <<file, goal, status, queued, dir, log, backup>>
      /\ lock' = IF lock = p THEN "dead" ELSE lock
  BY DEF Crash, Go, ClearLocals, projectVars, journalVars, CalmMove, ApplyInv, TypeInv, Typed
<1>2. "dead" # p /\ "dead" \notin Applier
  BY JournalAssumption DEF JournalAssumption, Proc
<1>3. /\ \A q \in Proc \ {p} : Same(q)
      /\ Calm(used)' /\ Alone' /\ CommitForCause' /\ EditsCounted'
      /\ \A q \in Proc \ {p} : Recovering(q)'
      /\ \A k \in FaultKinds : used'[k] >= used[k] /\ used'[k] \in Nat /\ used[k] \in Nat
      /\ RollsBack(used)' => RollsBack(used)
      /\ Journals(used)' => Journals(used)
  BY BystandersStand, CalmFaults DEF CalmMove, ApplyInv, TypeInv, Typed
<1>4. pc[p] = "resaved" \/ used'["crash"] > 0
  BY <1>3 DEF Crash, At, Fault, CalmMove, ApplyInv, TypeInv, Typed, FaultKinds
<1>5. Recovering(p)'
  BY <1>1 DEF Recovering, Reading, Restoring
<1>6. LockRight'
  BY <1>1, <1>2, <1>3 DEF LockRight, Same, Proc, Holding, ApplyPlaces, CalmMove, ApplyInv
<1>7. GoodLog'
  BY <1>1, LogKept DEF CalmMove, ApplyInv
<1>8. ASSUME NEW a \in Applier PROVE Applying(a)'
  <2>1. CASE a = p
    BY <1>1, <2>1, DownApplies
  <2>2. CASE a # p
    <3>1. pc[a] = "begin" => Unseen'
      BY <1>1, <1>3 DEF CalmMove, ApplyInv, Applying, Unseen, Same, RecoveryPlaces
    <3> QED
      BY <1>1, <1>3, <2>2, <3>1, ApplierSpared DEF CalmMove, Spares, Harmless, Proc
  <2> QED
    BY <2>1, <2>2
<1>9. StatusRight' /\ LeftForCause'
  <2>1. CASE p \in Applier
    <3>1. CASE pc[p] = "undo"
      <4>1. log.priors = File /\ Exact
        <5>1. used'["crash"] > 0
          BY <1>4, <3>1
        <5>2. Journals(used)
          BY <1>3, <5>1 DEF Calm, RollsBack, FaultKinds
        <5> QED
          BY <2>1, <3>1, <5>2 DEF CalmMove, ApplyInv, Applying, RollingBack
      <4>2. Saved'
        BY <1>1, <4>1 DEF Saved, Exact
      <4> QED
        BY <1>1, <1>4, <3>1, <4>2 DEF StatusRight, LeftForCause, CalmMove, ApplyInv
    <3>2. CASE pc[p] = "resaved"
      <4>1. status = "torn" /\ ~Undoing
        BY <2>1, <3>2, Sole, OneApplier DEF CalmMove, ApplyInv, Applying, Overwriting, Written
      <4> QED
        BY <1>1, <4>1 DEF StatusRight, Saved, Exact, LeftForCause, CalmMove, ApplyInv
    <3>3. CASE pc[p] \notin {"undo", "resaved"}
      <4>1. ~Undoing /\ used'["crash"] > 0
        BY <1>4, <2>1, <3>3, Sole, OneApplier
      <4> QED
        BY <1>1, <4>1 DEF StatusRight, Saved, Exact, LeftForCause, CalmMove, ApplyInv
    <3> QED
      BY <3>1, <3>2, <3>3
  <2>2. CASE p \notin Applier
    <3>1. (Undoing' <=> Undoing) /\ (NobodyWrites' <=> NobodyWrites)
      BY <1>3, <2>2 DEF Same, Undoing, NobodyWrites, Proc
    <3> QED
      BY <1>1, <1>3, <3>1, StatusKept DEF LeftForCause, CalmMove, ApplyInv, FaultKinds
  <2> QED
    BY <2>1, <2>2
<1> QED
  BY <1>3, <1>5, <1>6, <1>7, <1>8, <1>9 DEF ApplyInv, CalmMove

LEMMA LockSteps ==
  ASSUME OneApplier, CalmFaults, NEW p \in Applier, CalmMove(p),
         CheckLock(p) \/ WriteLock(p) \/ Load(p) \/ MakeDir(p)
  PROVE  ApplyInv'
<1> USE DEF projectVars, journalVars, localVars, CalmMove
<1>1. "none" # p /\ Applying(p) /\ p \in Proc
  BY JournalAssumption DEF ApplyInv, JournalAssumption, Proc
<1>2. CASE CheckLock(p)
  <2>1. /\ pc[p] = "lock" /\ hand'[p] = hand[p] /\ lock # p
        /\ pc'[p] \in {"down", "write"} /\ lock' \in {lock, "none"}
    BY <1>1, <1>2, Sole, OneApplier
       DEF CheckLock, At, Go, ApplyInv, TypeInv, Typed, Holding, ApplyPlaces
  <2>2. Applying(p)'
    BY <1>1, <1>2, <2>1 DEF CheckLock, Applying, NoRestart, Overwriting, Written, Uncommitted, RollingBack
  <2> QED
    BY <1>1, <1>2, <2>1, <2>2, QuietApply, OneApplier, CalmFaults
       DEF CheckLock, Holding, ApplyPlaces, Overwriting, Written, RollingBack
<1>3. CASE WriteLock(p)
  <2>1. pc[p] = "write" /\ pc'[p] = "load" /\ hand'[p] = hand[p] /\ lock' = p
    BY <1>1, <1>3 DEF WriteLock, At, Go, ApplyInv, TypeInv, Typed
  <2>2. Applying(p)'
    BY <1>1, <1>3, <2>1 DEF WriteLock, Applying, NoRestart, Overwriting, Written, Uncommitted, RollingBack
  <2> QED
    BY <1>1, <1>3, <2>1, <2>2, QuietApply, OneApplier, CalmFaults
       DEF WriteLock, Holding, ApplyPlaces, Overwriting, Written, RollingBack
<1>4. CASE Load(p)
  <2>1. pc[p] = "load" /\ lock = p
    BY <1>1, <1>4, Sole, OneApplier DEF Load, At, ApplyInv, Holding, ApplyPlaces
  <2>2. CASE Quit(p)
    <3>1. pc'[p] = "down" /\ hand'[p] = NoFile /\ lock' # p
      BY <2>2, AfterQuit DEF ApplyInv
    <3> QED
      BY <1>1, <1>4, <2>1, <3>1, DownApplies, QuietApply, OneApplier, CalmFaults
         DEF Load, Holding, ApplyPlaces, Overwriting, Written, RollingBack
  <2>3. CASE /\ status = "approved" /\ goal # "applied"
             /\ Go(p, "mkdir") /\ UNCHANGED <<lock, localVars>>
    <3>1. pc'[p] = "mkdir" /\ hand'[p] = hand[p] /\ goal = "ready" /\ file = Before
      BY <1>1, <2>1, <2>3 DEF Go, ApplyInv, TypeInv, Typed, Applying, NoRestart
    <3>2. Applying(p)'
      BY <1>1, <1>4, <2>1, <2>3, <3>1 DEF Load, Applying, Overwriting, Written, Uncommitted, RollingBack
    <3> QED
      BY <1>1, <1>4, <2>1, <2>3, <3>1, <3>2, QuietApply, OneApplier, CalmFaults
         DEF Load, Holding, ApplyPlaces, Overwriting, Written, RollingBack
  <2> QED
    BY <1>4, <2>2, <2>3 DEF Load
<1>5. CASE MakeDir(p)
  <2>1. pc[p] = "mkdir" /\ pc'[p] = "begin" /\ hand'[p] = hand[p]
    BY <1>1, <1>5 DEF MakeDir, At, Go, ApplyInv, TypeInv, Typed
  <2>2. Applying(p)'
    <3>1. Unseen'
      BY <1>1, <1>5, <2>1, BystandersStand, CalmFaults DEF MakeDir, Unseen, Same, RecoveryPlaces
    <3> QED
      BY <1>1, <1>5, <2>1, <3>1
         DEF MakeDir, Applying, Overwriting, Written, Uncommitted, RollingBack
  <2>3. GoodLog'
    BY <1>5 DEF MakeDir, GoodLog, ApplyInv
  <2>4. ApplyMove(p) /\ LockRight' /\ (Undoing' <=> Undoing) /\ (NobodyWrites' <=> NobodyWrites)
    BY <1>5, <2>1, Sole, OneApplier DEF MakeDir, ApplyMove, RecoveryPlaces, Holding,
       ApplyPlaces, Overwriting, Written, RollingBack, ApplyInv
  <2>5. StatusRight' /\ LeftForCause'
    BY <1>5, <2>4, StatusKept DEF MakeDir, LeftForCause, ApplyInv
  <2> QED
    BY <2>2, <2>3, <2>4, <2>5, ApplyDone, OneApplier, CalmFaults
<1> QED
  BY <1>2, <1>3, <1>4, <1>5

(* Where nothing has gone wrong but what a rollback can deal with, git     *)
(* finds nothing to check out once the files are what they were.           *)
LEMMA NoStrays ==
  ASSUME OneApplier, ApplyInv, NEW p \in Applier, RollsBack(used), pc[p] \in Uncommitted,
         status = "approved", file = Before
  PROVE  Strays = {}
<1>1. goal = "ready" /\ \A q \in Applier : pc[q] \notin Committed
  BY OneApplier DEF OneApplier, ApplyInv, Applying, Uncommitted, Committed
<1>2. head = "prior"
  BY <1>1 DEF ApplyInv, CommitForCause, TypeInv, Typed
<1>3. dirty = {}
  BY DEF ApplyInv, EditsCounted, RollsBack
<1>4. \A f \in File : AtHead[f] # "absent" => AtHead[f] = Before[f]
  BY <1>2, <1>3, JournalAssumption DEF AtHead, Before, JournalAssumption
<1> QED
  BY <1>4 DEF Strays

(* A command that stops before it has a journal leaves the files alone.    *)
LEMMA DiscardKeeps ==
  ASSUME OneApplier, CalmFaults, NEW p \in Applier, CalmMove(p), pc[p] \in {"mkdir", "begin"},
         Loop(p, "discard", Strays), ~Journals(used)', UNCHANGED <<lock, hand, dir, log, backup>>,
         UNCHANGED <<file, goal, status, queued>>
  PROVE  ApplyInv'
<1> USE DEF CalmMove
<1>1. /\ Applying(p) /\ p \in Proc /\ status = "approved" /\ goal = "ready"
      /\ file = Before /\ hand[p] = NoFile
  BY DEF ApplyInv, Applying, Uncommitted, Proc
<1>2. RollsBack(used)
  BY BystandersStand, CalmFaults, <1>1 DEF Calm
<1>3. Strays = {}
  BY <1>1, <1>2, NoStrays, OneApplier DEF Uncommitted
<1>4. pc'[p] = "discard" /\ left'[p] = {} /\ hand'[p] = NoFile
  BY <1>1, <1>3 DEF Loop, Go, ApplyInv, TypeInv, Typed
<1>5. Applying(p)'
  BY <1>1, <1>4 DEF Applying, Overwriting, Written, Uncommitted, RollingBack
<1> QED
  BY <1>1, <1>4, <1>5, Sole, QuietApply, OneApplier, CalmFaults
     DEF Holding, ApplyPlaces, Overwriting, Written, RollingBack, ApplyInv

LEMMA BeginKeeps ==
  ASSUME OneApplier, CalmFaults, NEW p \in Applier, CalmMove(p), Begin(p)
  PROVE  ApplyInv'
<1> USE DEF projectVars, CalmMove
<1>1. /\ pc[p] = "begin" /\ Applying(p) /\ p \in Proc /\ lock = p /\ dir
      /\ status = "approved" /\ goal = "ready" /\ file = Before /\ hand[p] = NoFile
  BY Sole, OneApplier
     DEF Begin, At, ApplyInv, Applying, Unseen, Uncommitted, Proc, Holding, ApplyPlaces
<1>2. UNCHANGED <<file, goal, status, queued, dir, backup>>
  BY DEF Begin
<1>3. LeftForCause' /\ StatusRight'
  BY <1>1, <1>2 DEF LeftForCause, StatusRight, Saved, ApplyInv
<1>4. CASE /\ dir /\ log' = [NoLog EXCEPT !.begun = TRUE]
           /\ Loop(p, "prior", File) /\ UNCHANGED <<lock, hand, snap, read, used>>
  <2>1. pc'[p] = "prior" /\ left'[p] = File /\ failed'[p] = FALSE /\ hand'[p] = NoFile
    BY <1>1, <1>4 DEF Loop, Go, ApplyInv, TypeInv, Typed
  <2>2. log'.begun /\ log'.priors = {} /\ log'.existed = {}
    BY <1>4 DEF NoLog
  <2>3. GoodLog' /\ Exact'
    BY <1>2, <1>4, <2>2 DEF GoodLog, Exact
  <2>4. Applying(p)'
    BY <1>1, <1>2, <2>1, <2>2, <2>3
       DEF Applying, Overwriting, Written, Uncommitted, RollingBack
  <2>5. ApplyMove(p) /\ LockRight'
    BY <1>1, <1>4, <2>1, Sole, OneApplier DEF ApplyMove, RecoveryPlaces, Holding, ApplyPlaces
  <2> QED
    BY <1>3, <2>3, <2>4, <2>5, ApplyDone, OneApplier, CalmFaults
<1>5. CASE /\ Fault("journal") /\ Loop(p, "discard", Strays)
           /\ UNCHANGED <<lock, hand, snap, read, log>>
  <2>1. ~Journals(used)'
    BY <1>5 DEF Fault, Journals, ApplyInv, TypeInv, Typed, FaultKinds
  <2> QED
    BY <1>1, <1>2, <1>5, <2>1, DiscardKeeps, OneApplier, CalmFaults
<1> QED
  BY <1>1, <1>4, <1>5 DEF Begin

LEMMA StopEarlyKeeps ==
  ASSUME OneApplier, CalmFaults, NEW p \in Applier, CalmMove(p), StopEarly(p)
  PROVE  ApplyInv'
<1> USE DEF projectVars, journalVars, CalmMove
<1>1. ~Journals(used)'
  BY DEF StopEarly, Fault, Journals, ApplyInv, TypeInv, Typed, FaultKinds
<1>2. UNCHANGED <<file, goal, status, queued, lock, dir, log, backup, hand, snap>>
  BY DEF StopEarly
<1>3. CASE pc[p] \in {"mkdir", "begin"} /\ Loop(p, "discard", Strays)
  BY <1>1, <1>2, <1>3, DiscardKeeps, OneApplier, CalmFaults
<1>4. CASE At(p, "prior") /\ Loop(p, "undo", File \ left[p])
  <2>1. /\ pc[p] = "prior" /\ Applying(p) /\ p \in Proc /\ lock = p
        /\ log.begun /\ status = "approved" /\ goal = "ready" /\ file = Before /\ Exact
        /\ hand[p] = NoFile /\ \A g \in File \ left[p] : snap[p][g] = Before[g]
    BY <1>4, Sole, OneApplier
       DEF At, ApplyInv, Applying, Uncommitted, Proc, Holding, ApplyPlaces
  <2>2. pc'[p] = "undo" /\ left'[p] = File \ left[p] /\ hand'[p] = NoFile
    BY <1>2, <1>4, <2>1 DEF Loop, Go, ApplyInv, TypeInv, Typed
  <2>3. Exact'
    BY <1>2, <2>1 DEF Exact
  <2>4. Applying(p)'
    BY <1>1, <1>2, <2>1, <2>2, <2>3
       DEF Applying, Overwriting, Written, Uncommitted, RollingBack
  <2> QED
    BY <1>2, <2>1, <2>2, <2>4, QuietApply, OneApplier, CalmFaults
       DEF Holding, ApplyPlaces, Overwriting, Written, RollingBack
<1> QED
  BY <1>3, <1>4 DEF StopEarly

LEMMA PriorKeeps ==
  ASSUME OneApplier, CalmFaults, NEW p \in Applier, CalmMove(p),
         NEW f \in File, RecordPrior(p, f)
  PROVE  ApplyInv'
<1> USE DEF projectVars, CalmMove
<1>1. /\ pc[p] = "prior" /\ Applying(p) /\ p \in Proc /\ lock = p
      /\ log.begun /\ dir /\ status = "approved" /\ file = Before /\ Exact /\ hand[p] = NoFile
      /\ \A g \in File \ left[p] : snap[p][g] = Before[g]
      /\ IF failed[p] THEN used["journal"] > 0 ELSE log.priors = File \ left[p]
      /\ goal = "ready"
  BY Sole, OneApplier
     DEF RecordPrior, At, ApplyInv, Applying, Uncommitted, GoodLog, Proc, Holding, ApplyPlaces
<1>2. /\ UNCHANGED <<file, goal, status, queued, dir, lock>>
      /\ pc'[p] = "prior" /\ hand'[p] = NoFile /\ left'[p] = left[p] \ {f}
      /\ snap'[p] = [snap[p] EXCEPT ![f] = file[f]]
  BY <1>1 DEF RecordPrior, ApplyInv, TypeInv, Typed
<1>3. LeftForCause' /\ StatusRight'
  BY <1>1, <1>2 DEF LeftForCause, StatusRight, Saved, ApplyInv
<1>4. ApplyMove(p) /\ LockRight'
  BY <1>1, <1>2, Sole, OneApplier DEF ApplyMove, RecoveryPlaces, Holding, ApplyPlaces
<1>5. \A g \in File \ left'[p] : snap'[p][g] = Before[g]
  BY <1>1, <1>2 DEF ApplyInv, TypeInv, Typed
<1>6. f \in left[p] /\ left[p] \in SUBSET File /\ log \in Logs
  BY <1>1 DEF RecordPrior, ApplyInv, TypeInv, Typed
<1>7. CASE /\ backup' = [backup EXCEPT ![f] = file[f]]
           /\ log' = [log EXCEPT !.priors = @ \cup {f},
                                 !.existed = IF file[f] = "absent" THEN @ ELSE @ \cup {f}]
           /\ UNCHANGED <<failed, used>>
  <2>1. /\ log'.begun /\ log'.priors = log.priors \cup {f}
        /\ log'.existed = (IF file[f] = "absent" THEN log.existed ELSE log.existed \cup {f})
    BY <1>1, <1>6, <1>7 DEF Logs
  <2>2. /\ backup'[f] = Before[f] /\ \A g \in File \ {f} : backup'[g] = backup[g]
        /\ log.priors \in SUBSET File
    BY <1>1, <1>6, <1>7 DEF ApplyInv, TypeInv, Typed, Logs
  <2>3. file[f] = "absent" <=> f \notin Existed
    BY <1>1, BeforeValues
  <2>4. Exact'
    BY <1>1, <2>1, <2>2 DEF Exact
  <2>5. GoodLog'
    BY <1>1, <1>2, <2>1, <2>2, <2>3 DEF GoodLog, ApplyInv
  <2>6. IF failed'[p] THEN used'["journal"] > 0 ELSE log'.priors = File \ left'[p]
    BY <1>1, <1>2, <1>6, <1>7, <2>1
  <2>7. Applying(p)'
    BY <1>1, <1>2, <1>5, <2>1, <2>4, <2>6 DEF Applying, Overwriting, Written, Uncommitted, RollingBack
  <2> QED
    BY <1>3, <1>4, <2>5, <2>7, ApplyDone, OneApplier, CalmFaults
<1>8. CASE /\ Fault("journal") /\ failed' = [failed EXCEPT ![p] = TRUE]
           /\ UNCHANGED <<backup, log>>
  <2>1. failed'[p] /\ used'["journal"] > 0
    BY <1>1, <1>8 DEF Fault, ApplyInv, TypeInv, Typed, FaultKinds
  <2>2. GoodLog' /\ Exact'
    BY <1>1, <1>2, <1>8, LogKept DEF ApplyInv
  <2>3. Applying(p)'
    BY <1>1, <1>2, <1>5, <1>8, <2>1, <2>2 DEF Applying, Overwriting, Written, Uncommitted, RollingBack
  <2> QED
    BY <1>3, <1>4, <2>2, <2>3, ApplyDone, OneApplier, CalmFaults
<1> QED
  BY <1>1, <1>7, <1>8 DEF RecordPrior

LEMMA PriorsDoneKeeps ==
  ASSUME OneApplier, CalmFaults, NEW p \in Applier, CalmMove(p), PriorsDone(p)
  PROVE  ApplyInv'
<1> USE DEF projectVars, journalVars, CalmMove
<1>0. pc[p] = "prior" /\ left[p] = {} /\ p \in Proc /\ Applying(p) /\ LockRight
  BY DEF PriorsDone, At, ApplyInv, Proc
<1>1. /\ lock = p /\ log.begun /\ status = "approved" /\ file = Before /\ Exact
      /\ hand[p] = NoFile /\ \A g \in File : snap[p][g] = Before[g]
      /\ goal = "ready"
      /\ IF failed[p] THEN used["journal"] > 0 ELSE log.priors = File
  <2>1. File \ left[p] = File
    BY <1>0
  <2> QED
    BY <1>0, <2>1 DEF Applying, Uncommitted, LockRight, Holding, ApplyPlaces
<1>2. snap[p] = Before
  BY <1>0, <1>1, BeforeType, SameFiles DEF ApplyInv, TypeInv, Typed
<1>3. /\ pc'[p] = (IF failed[p] THEN "undo" ELSE "copy") /\ left'[p] = File
      /\ hand'[p] = NoFile /\ snap'[p] = Before
      /\ UNCHANGED <<file, head, goal, status, queued, lock, dir, log, backup, used>>
  BY <1>0, <1>1, <1>2 DEF PriorsDone, Loop, Go, ApplyInv, TypeInv, Typed
<1>4. Exact'
  BY <1>1, <1>3 DEF Exact
<1>5. Applying(p)'
  <2>1. failed[p] => ~Journals(used)'
    BY <1>1, <1>3 DEF Journals
  <2> QED
    BY <1>1, <1>3, <1>4, <2>1 DEF Applying, Overwriting, Written, Uncommitted, RollingBack
<1> QED
  BY <1>0, <1>1, <1>3, <1>5, QuietApply, OneApplier, CalmFaults
     DEF Holding, ApplyPlaces, Overwriting, Written, RollingBack

(* Copying one path, or putting one back.                                  *)
LEMMA PutPuts ==
  ASSUME TypeInv, NEW p \in Proc, NEW contents \in [File -> Contents], Put(p, contents),
         hand[p] # NoFile => hand[p] \in left[p]
  PROVE  /\ UNCHANGED <<goal, status, queued, lock, dir, log, backup, pc, snap, read, failed>>
         /\ left'[p] \in SUBSET left[p]
         /\ \A g \in File \ left'[p] :
               file'[g] = IF g \in left[p] THEN contents[g] ELSE file[g]
         /\ hand'[p] # NoFile => hand'[p] \in left'[p]
         /\ left[p] # {}
<1>1. /\ file \in [File -> Contents] /\ left[p] \in SUBSET File /\ hand[p] \in File \cup {NoFile}
      /\ NoFile \notin File
  BY JournalAssumption DEF TypeInv, Typed, JournalAssumption
<1>2. UNCHANGED <<goal, status, queued, lock, dir, log, backup, pc, snap, read, failed>>
  BY DEF Put, journalVars
<1>3. CASE EndWrite(p, contents)
  <2>1. hand[p] \in left[p] /\ hand[p] \in File
    BY <1>1, <1>3 DEF EndWrite
  <2>2. /\ left'[p] = left[p] \ {hand[p]} /\ hand'[p] = NoFile
        /\ file' = [file EXCEPT ![hand[p]] = contents[hand[p]]]
    BY <1>3 DEF EndWrite, TypeInv, Typed
  <2> QED
    BY <1>1, <1>2, <2>1, <2>2
<1>4. CASE \E f \in left[p] : contents[f] = "absent" /\ Remove(p, f)
  <2>1. PICK f \in left[p] : contents[f] = "absent" /\ Remove(p, f)
    BY <1>4
  <2>2. /\ left'[p] = left[p] \ {f} /\ hand'[p] = NoFile
        /\ file' = [file EXCEPT ![f] = "absent"]
    BY <2>1 DEF Remove, TypeInv, Typed
  <2> QED
    BY <1>1, <1>2, <2>1, <2>2
<1>5. CASE \E f \in left[p] : BeginWrite(p, f)
  <2>1. PICK f \in left[p] : BeginWrite(p, f)
    BY <1>5
  <2>2. left'[p] = left[p] /\ hand'[p] = f /\ file' = [file EXCEPT ![f] = "torn"]
    BY <2>1 DEF BeginWrite, TypeInv, Typed
  <2> QED
    BY <1>1, <1>2, <2>1, <2>2
<1> QED
  BY <1>3, <1>4, <1>5 DEF Put

LEMMA CopyKeeps ==
  ASSUME OneApplier, CalmFaults, NEW p \in Applier, CalmMove(p), Copy(p)
  PROVE  ApplyInv'
<1> USE DEF CalmMove
<1>1. /\ pc[p] = "copy" /\ Put(p, After) /\ UNCHANGED used /\ p \in Proc /\ goal = "ready"
      /\ log.begun /\ log.priors = File /\ Exact /\ snap[p] = Before /\ status = "approved"
      /\ \A g \in File \ left[p] : file[g] = After[g]
      /\ hand[p] # NoFile => hand[p] \in left[p]
  BY DEF Copy, At, ApplyInv, Applying, Uncommitted, Proc, Overwriting
<1>2. /\ UNCHANGED <<goal, status, queued, lock, dir, log, backup, pc, snap, read>>
      /\ \A g \in File \ left'[p] : file'[g] = After[g]
      /\ hand'[p] # NoFile => hand'[p] \in left'[p]
  <2>1. TypeInv /\ After \in [File -> Contents]
    BY BeforeType DEF ApplyInv
  <2>2. /\ UNCHANGED <<goal, status, queued, lock, dir, log, backup, pc, snap, read, failed>>
        /\ \A g \in File \ left'[p] :
              file'[g] = IF g \in left[p] THEN After[g] ELSE file[g]
        /\ hand'[p] # NoFile => hand'[p] \in left'[p]
    <3> HIDE DEF CalmMove
    <3> QED
      BY <1>1, <2>1, PutPuts
  <2> QED
    BY <1>1, <2>2
<1>3. ApplyMove(p) /\ LockRight'
  BY <1>1, <1>2 DEF ApplyMove, RecoveryPlaces, LockRight, ApplyInv
<1>4. GoodLog' /\ Exact'
  BY <1>1, <1>2, LogKept DEF ApplyInv
<1>5. StatusRight'
  BY <1>1, <1>2, <1>4 DEF StatusRight, Saved, ApplyInv
<1>6. LeftForCause'
  BY <1>1, <1>2, Sole, OneApplier DEF LeftForCause, Overwriting
<1>7. Applying(p)'
  BY <1>1, <1>2, <1>4 DEF Applying, Overwriting, Written, Uncommitted, RollingBack
<1> QED
  BY <1>3, <1>4, <1>5, <1>6, <1>7, ApplyDone, OneApplier, CalmFaults

(* Putting back a snapshot, or failing to: the journal has it too.         *)
LEMMA UndoKeeps ==
  ASSUME OneApplier, CalmFaults, NEW p \in Applier, CalmMove(p), Undo(p)
  PROVE  ApplyInv'
<1> USE DEF CalmMove
<1>1. /\ pc[p] = "undo" /\ p \in Proc /\ goal = "ready" /\ log.begun /\ Exact
      /\ status = "approved" /\ (Journals(used) => log.priors = File)
      /\ \A g \in left[p] : snap[p][g] = Before[g]
      /\ RollsBack(used) => \A g \in File \ left[p] : file[g] = Before[g]
      /\ hand[p] # NoFile => hand[p] \in left[p]
      /\ snap[p] \in [File -> Contents] /\ left[p] \in SUBSET File
  BY DEF Undo, At, ApplyInv, Applying, Uncommitted, RollingBack, Proc, TypeInv, Typed
<1>2. /\ RollsBack(used)' => RollsBack(used)
      /\ Journals(used)' => Journals(used)
  BY <1>1, BystandersStand, CalmFaults
<1>3. /\ UNCHANGED <<goal, status, queued, lock, dir, log, backup, pc, snap>>
      /\ left'[p] \in SUBSET left[p]
      /\ hand'[p] # NoFile => hand'[p] \in left'[p]
      /\ RollsBack(used)' => \A g \in File \ left'[p] : file'[g] = Before[g]
  <2>1. CASE Put(p, snap[p]) /\ UNCHANGED used
    <3>1. /\ UNCHANGED <<goal, status, queued, lock, dir, log, backup, pc, snap>>
          /\ left'[p] \in SUBSET left[p]
          /\ \A g \in File \ left'[p] :
                file'[g] = IF g \in left[p] THEN snap[p][g] ELSE file[g]
          /\ hand'[p] # NoFile => hand'[p] \in left'[p]
      BY <1>1, <2>1, PutPuts DEF ApplyInv
    <3> QED
      BY <1>1, <1>2, <3>1
  <2>2. CASE Fault("undo") /\ ~Put(p, snap[p])
    <3>1. ~RollsBack(used)'
      BY <2>2 DEF Fault, RollsBack, ApplyInv, TypeInv, Typed, FaultKinds
    <3>2. /\ UNCHANGED <<goal, status, queued, lock, dir, log, backup, pc, snap>>
          /\ left'[p] \in SUBSET left[p] /\ hand'[p] = NoFile
      BY <1>1, <2>2 DEF Undo, projectVars, journalVars, ApplyInv, TypeInv, Typed
    <3> QED
      BY <3>1, <3>2
  <2>3. CASE Fault("undo") /\ Put(p, snap[p])
    <3>1. ~RollsBack(used)'
      BY <2>3 DEF Fault, RollsBack, ApplyInv, TypeInv, Typed, FaultKinds
    <3> QED
      BY <1>1, <2>3, <3>1, PutPuts DEF ApplyInv
  <2> QED
    BY <2>1, <2>2, <2>3 DEF Undo
<1>4. ApplyMove(p) /\ LockRight' /\ Undoing'
  BY <1>1, <1>3 DEF ApplyMove, RecoveryPlaces, LockRight, Undoing, ApplyInv
<1>5. GoodLog' /\ Exact'
  BY <1>1, <1>3, LogKept DEF ApplyInv
<1>6. StatusRight'
  BY <1>1, <1>3, <1>4 DEF StatusRight, ApplyInv
<1>7. LeftForCause'
  BY <1>1, <1>3, Sole, OneApplier DEF LeftForCause, RollingBack
<1>8. Applying(p)'
  BY <1>1, <1>2, <1>3, <1>5 DEF Applying, Overwriting, Written, Uncommitted, RollingBack
<1> QED
  BY <1>4, <1>5, <1>6, <1>7, <1>8, ApplyDone, OneApplier, CalmFaults

LEMMA UndoneKeeps ==
  ASSUME OneApplier, CalmFaults, NEW p \in Applier, CalmMove(p), Undone(p)
  PROVE  ApplyInv'
<1> USE DEF projectVars, journalVars, CalmMove
<1>1. /\ pc[p] = "undo" /\ p \in Proc /\ goal = "ready" /\ log.begun /\ Exact
      /\ status = "approved" /\ (Journals(used) => log.priors = File)
      /\ RollsBack(used) => \A g \in File : file[g] = Before[g]
      /\ hand[p] = NoFile /\ lock = p
  <2>1. pc[p] = "undo" /\ left[p] = {} /\ p \in Proc /\ Applying(p) /\ LockRight
    BY DEF Undone, At, ApplyInv, Proc
  <2> QED
    BY <2>1 DEF Applying, Uncommitted, RollingBack, LockRight, Holding, ApplyPlaces
<1>2. RollsBack(used) => file = Before
  BY <1>1, BeforeType, SameFiles DEF ApplyInv, TypeInv, Typed
<1>3. RollsBack(used) => Strays = {}
  BY <1>1, <1>2, NoStrays, OneApplier DEF Uncommitted
<1>4. /\ UNCHANGED <<file, goal, status, queued, lock, dir, log, backup, used>>
      /\ pc'[p] = "checkout" /\ left'[p] = Strays /\ hand'[p] = NoFile
  BY <1>1 DEF Undone, Loop, Go, ApplyInv, TypeInv, Typed
<1>5. ApplyMove(p) /\ LockRight'
  BY <1>1, <1>4, Sole, OneApplier DEF ApplyMove, RecoveryPlaces, Holding, ApplyPlaces
<1>6. GoodLog' /\ Exact'
  BY <1>1, <1>4, LogKept DEF ApplyInv
<1>7. Saved'
  BY <1>1, <1>2, <1>4, <1>6 DEF Saved, ApplyInv, Calm
<1>8. StatusRight'
  BY <1>1, <1>4, <1>7 DEF StatusRight, ApplyInv
<1>9. LeftForCause'
  BY <1>4, Sole, OneApplier DEF LeftForCause, RollingBack
<1>10. Applying(p)'
  BY <1>1, <1>2, <1>3, <1>4, <1>6
     DEF Applying, Overwriting, Written, Uncommitted, RollingBack
<1> QED
  BY <1>5, <1>6, <1>8, <1>9, <1>10, ApplyDone, OneApplier, CalmFaults

(* What git checks out over the restored files, the journal restores.      *)
LEMMA CheckoutKeeps ==
  ASSUME OneApplier, CalmFaults, NEW p \in Applier, CalmMove(p), Checkout(p)
  PROVE  ApplyInv'
<1> USE DEF CalmMove
<1>1. /\ pc[p] \in {"checkout", "discard"} /\ p \in Proc /\ Applying(p)
      /\ Put(p, AtHead) /\ UNCHANGED used
      /\ hand[p] # NoFile => hand[p] \in left[p]
  BY DEF Checkout, ApplyInv, Applying, Proc
<1>2. /\ UNCHANGED <<goal, status, queued, lock, dir, log, backup, pc, snap, read>>
      /\ hand'[p] # NoFile => hand'[p] \in left'[p]
      /\ left[p] # {}
  BY <1>1, HeadType, PutPuts DEF ApplyInv
<1>3. /\ pc[p] = "checkout" /\ goal = "ready" /\ log.begun /\ Exact /\ status = "approved"
      /\ ~RollsBack(used) /\ log.priors = File
  BY <1>1, <1>2 DEF ApplyInv, Applying, Calm, Uncommitted, RollingBack
<1>4. ApplyMove(p) /\ LockRight'
  BY <1>1, <1>2, <1>3 DEF ApplyMove, RecoveryPlaces, LockRight, ApplyInv
<1>5. GoodLog' /\ Exact'
  BY <1>2, <1>3, LogKept DEF ApplyInv
<1>6. StatusRight'
  BY <1>2, <1>3, <1>5 DEF StatusRight, Saved, ApplyInv
<1>7. LeftForCause'
  BY <1>2, <1>3, Sole, OneApplier DEF LeftForCause, RollingBack
<1>8. Applying(p)'
  <2>1. ~RollsBack(used)'
    BY <1>1, <1>3 DEF RollsBack
  <2> QED
    BY <1>2, <1>3, <1>5, <2>1 DEF Applying, Overwriting, Written, Uncommitted, RollingBack
<1> QED
  BY <1>4, <1>5, <1>6, <1>7, <1>8, ApplyDone, OneApplier, CalmFaults

LEMMA DiscardedKeeps ==
  ASSUME OneApplier, CalmFaults, NEW p \in Applier, CalmMove(p), Discarded(p)
  PROVE  ApplyInv'
<1> USE DEF projectVars, journalVars, CalmMove
<1>1. /\ UNCHANGED <<file, goal, status, queued, dir, log, backup>> /\ Quit(p)
      /\ status = "approved" /\ file = Before
  BY DEF Discarded, At, ApplyInv, Applying
<1>2. GoodLog' /\ StatusRight' /\ LeftForCause'
  BY <1>1, LogKept DEF StatusRight, Saved, LeftForCause, ApplyInv
<1> QED
  BY <1>1, <1>2, QuitKeeps, OneApplier, CalmFaults

(* The steps that only move on between copying and committing.             *)
LEMMA WrittenKeeps ==
  ASSUME OneApplier, CalmFaults, NEW p \in Applier, CalmMove(p),
         Copied(p) \/ Verified(p) \/ Commit(p)
  PROVE  ApplyInv'
<1> USE DEF projectVars, journalVars, localVars, CalmMove
<1>1. /\ Applying(p) /\ p \in Proc /\ LockRight
      /\ pc[p] \in {"copy", "verify", "commit"} /\ goal = "ready"
      /\ pc'[p] \in {"verify", "commit", "goal", "resave"}
      /\ UNCHANGED <<file, goal, status, queued, lock, dir, log, backup, used>>
      /\ UNCHANGED <<left, hand, snap, read, failed>>
      /\ pc[p] = "copy" => left[p] = {}
  BY DEF Copied, Verified, Commit, At, Go, ApplyInv, Applying, Uncommitted, TypeInv, Typed, Proc
<1>2. /\ log.begun /\ log.priors = File /\ Exact /\ snap[p] = Before /\ status = "approved"
      /\ lock = p
  BY <1>1 DEF Applying, LockRight, Overwriting, Written, Holding, ApplyPlaces
<1>3. file = After
  <2>1. CASE pc[p] = "copy"
    <3>1. \A g \in File : file[g] = After[g]
      BY <1>1, <2>1 DEF Applying
    <3> QED
      BY <3>1, BeforeType, SameFiles DEF ApplyInv, TypeInv, Typed
  <2>2. CASE pc[p] \in {"verify", "commit"}
    BY <1>1, <2>2 DEF Applying, Written
  <2> QED
    BY <1>1, <2>1, <2>2
<1>4. hand[p] = NoFile
  BY <1>1 DEF Applying
<1>5. Exact'
  BY <1>1, <1>2 DEF Exact
<1>6. Applying(p)'
  BY <1>1, <1>2, <1>3, <1>4, <1>5 DEF Applying, Overwriting, Written, Uncommitted, RollingBack
<1> QED
  BY <1>1, <1>2, <1>6, QuietApply, OneApplier, CalmFaults
     DEF Holding, ApplyPlaces, Overwriting, Written, RollingBack

LEMMA FailKeeps ==
  ASSUME OneApplier, CalmFaults, NEW p \in Applier, CalmMove(p), Fail(p)
  PROVE  ApplyInv'
<1> USE DEF projectVars, journalVars, CalmMove
<1>1. /\ Applying(p) /\ p \in Proc /\ LockRight
      /\ pc[p] \in {"copy", "verify", "commit"} /\ pc'[p] = "undo" /\ goal = "ready"
      /\ UNCHANGED <<file, goal, status, queued, lock, dir, log, backup, used, snap>>
      /\ left'[p] = File /\ hand'[p] = NoFile
  BY DEF Fail, Loop, Go, ApplyInv, Applying, Uncommitted, TypeInv, Typed, Proc
<1>2. /\ log.begun /\ log.priors = File /\ Exact /\ snap[p] = Before /\ status = "approved"
      /\ lock = p
  BY <1>1 DEF Applying, LockRight, Overwriting, Written, Holding, ApplyPlaces
<1>3. Exact'
  BY <1>1, <1>2 DEF Exact
<1>4. Applying(p)'
  BY <1>1, <1>2, <1>3 DEF Applying, Overwriting, Written, Uncommitted, RollingBack
<1> QED
  BY <1>1, <1>2, <1>4, QuietApply, OneApplier, CalmFaults
     DEF Holding, ApplyPlaces, Overwriting, Written, RollingBack

LEMMA AbandonKeeps ==
  ASSUME OneApplier, CalmFaults, NEW p \in Applier, CalmMove(p), Abandon(p)
  PROVE  ApplyInv'
<1> USE DEF projectVars, journalVars, CalmMove
<1>1. /\ Applying(p) /\ p \in Proc /\ LockRight /\ pc[p] = "checkout" /\ hand[p] = NoFile
      /\ UNCHANGED <<file, goal, status, queued, lock, dir, log, backup, hand>>
  BY DEF Abandon, At, ApplyInv, Proc
<1>2. /\ log.begun /\ status = "approved" /\ lock = p /\ Exact
      /\ Journals(used) => log.priors = File
      /\ RollsBack(used) => file = Before
  BY <1>1 DEF Applying, LockRight, Holding, ApplyPlaces, RollingBack
<1>3. GoodLog' /\ Exact'
  BY <1>1, <1>2, LogKept DEF ApplyInv
<1>4. Saved'
  BY <1>1, <1>2, <1>3 DEF Saved, ApplyInv, Calm
<1>5. StatusRight'
  BY <1>1, <1>2, <1>4 DEF StatusRight, ApplyInv
<1>6. CASE /\ Loop(p, "abandon", log.priors) /\ UNCHANGED used
           /\ read' = [read EXCEPT ![p] = log]
  <2>1. /\ pc'[p] = "abandon" /\ hand'[p] = NoFile /\ left'[p] = log.priors
        /\ read'[p] = log /\ failed'[p] = FALSE
    BY <1>1, <1>6 DEF Loop, Go, ApplyInv, TypeInv, Typed
  <2>2. ApplyMove(p) /\ LockRight'
    BY <1>1, <1>2, <2>1, Sole, OneApplier DEF ApplyMove, RecoveryPlaces, Holding, ApplyPlaces
  <2>3. LeftForCause'
    BY <2>1, Sole, OneApplier DEF LeftForCause, RollingBack
  <2>4. Applying(p)'
    BY <1>1, <1>2, <1>3, <1>6, <2>1
       DEF Applying, Overwriting, Written, Uncommitted, RollingBack
  <2> QED
    BY <1>3, <1>5, <2>2, <2>3, <2>4, ApplyDone, OneApplier, CalmFaults
<1>7. CASE Fault("restore") /\ Loop(p, "close", {})
  <2>1. ~Journals(used)'
    BY <1>7 DEF Fault, Journals, ApplyInv, TypeInv, Typed, FaultKinds
  <2>2. file = Before
    BY <1>1, <1>2, <2>1, BystandersStand, CalmFaults DEF Calm
  <2>3. pc'[p] = "close" /\ hand'[p] = NoFile
    BY <1>1, <1>7 DEF Loop, Go, ApplyInv, TypeInv, Typed
  <2>4. ApplyMove(p) /\ LockRight'
    BY <1>1, <1>2, <2>3, Sole, OneApplier DEF ApplyMove, RecoveryPlaces, Holding, ApplyPlaces
  <2>5. LeftForCause'
    BY <1>1, <2>2 DEF LeftForCause
  <2>6. Applying(p)'
    BY <1>1, <1>2, <2>2, <2>3
       DEF Applying, Settled, Overwriting, Written, Uncommitted, RollingBack
  <2> QED
    BY <1>3, <1>5, <2>4, <2>5, <2>6, ApplyDone, OneApplier, CalmFaults
<1> QED
  BY <1>6, <1>7 DEF Abandon

(* From the commit to the commit point: everything is in place and the     *)
(* journal can still undo all of it.                                       *)
LEMMA SealKnows ==
  ASSUME ApplyInv, NEW p \in Applier, pc[p] \in Written
  PROVE  /\ file = After /\ log.begun /\ dir /\ log.priors = File /\ Exact /\ snap[p] = Before
         /\ status = IF pc[p] = "resaved" THEN "torn" ELSE "approved"
         /\ hand[p] = NoFile /\ lock = p /\ ~queued
<1>1. Applying(p) /\ LockRight /\ GoodLog /\ StatusRight
  BY DEF ApplyInv
<1>2. /\ file = After /\ log.begun /\ log.priors = File /\ Exact /\ snap[p] = Before
      /\ status = IF pc[p] = "resaved" THEN "torn" ELSE "approved"
  BY <1>1 DEF Applying, Overwriting
<1>3. hand[p] = NoFile
  BY <1>1 DEF Applying, Written
<1>4. lock = p
  BY <1>1 DEF LockRight, Holding, ApplyPlaces, Written
<1> QED
  BY <1>1, <1>2, <1>3, <1>4 DEF GoodLog, StatusRight

LEMMA SealKeeps ==
  ASSUME OneApplier, CalmFaults, NEW p \in Applier, CalmMove(p), pc[p] \in Written,
         pc'[p] \in Written, UNCHANGED <<file, queued, lock, dir, backup, snap, hand>>,
         log'.begun, log'.priors = File, log'.existed = log.existed,
         status' = IF pc'[p] = "resaved" THEN "torn" ELSE "approved",
         pc'[p] = "status" => goal' = "applied" \/ used'["status"] > 0,
         pc'[p] \in Committed
  PROVE  ApplyInv'
<1>1. /\ file = After /\ log.begun /\ dir /\ log.priors = File /\ Exact /\ snap[p] = Before
      /\ hand[p] = NoFile /\ lock = p /\ ~queued
  BY SealKnows DEF CalmMove
<1>2. ApplyMove(p) /\ LockRight'
  BY <1>1, Sole, OneApplier DEF ApplyMove, RecoveryPlaces, Holding, ApplyPlaces, Written
<1>3. GoodLog' /\ Exact'
  BY <1>1 DEF GoodLog, Exact, CalmMove, ApplyInv
<1>4. StatusRight' /\ LeftForCause'
  BY <1>1, <1>3, Sole, OneApplier DEF StatusRight, Saved, LeftForCause, Overwriting
<1>5. Applying(p)'
  BY <1>1, <1>3 DEF Applying, Overwriting, Written, Committed, Uncommitted, RollingBack
<1> QED
  BY <1>2, <1>3, <1>4, <1>5, ApplyDone, OneApplier, CalmFaults

LEMMA SealSteps ==
  ASSUME OneApplier, CalmFaults, NEW p \in Applier, CalmMove(p),
         Resave(p) \/ LogCommit(p) \/ MarkGoal(p)
  PROVE  ApplyInv'
<1> USE DEF projectVars, journalVars, localVars, CalmMove
<1>1. pc[p] \in {"resave", "resaved", "logcommit", "goal"} /\ p \in Proc
  BY DEF Resave, LogCommit, MarkGoal, At, Proc
<1>2. /\ log.begun /\ log.priors = File /\ log \in Logs
      /\ status = IF pc[p] = "resaved" THEN "torn" ELSE "approved"
  BY <1>1, SealKnows DEF Written, ApplyInv, TypeInv, Typed
<1>3. CASE Resave(p)
  <2>1. /\ pc'[p] = IF pc[p] = "resave" THEN "resaved" ELSE "logcommit"
        /\ status' = IF pc[p] = "resave" THEN "torn" ELSE "approved"
        /\ UNCHANGED <<file, queued, lock, dir, log, backup, snap, hand>>
    BY <1>1, <1>3 DEF Resave, At, Go, ApplyInv, TypeInv, Typed
  <2> QED
    BY <1>1, <1>2, <2>1, SealKeeps, OneApplier, CalmFaults DEF Written, Committed
<1>4. CASE LogCommit(p)
  <2>1. /\ pc[p] = "logcommit" /\ pc'[p] = "goal"
        /\ UNCHANGED <<file, status, queued, lock, dir, backup, snap, hand>>
    BY <1>1, <1>4 DEF LogCommit, At, Go, ApplyInv, TypeInv, Typed
  <2>2. log'.begun /\ log'.priors = File /\ log'.existed = log.existed
    BY <1>2, <1>4 DEF LogCommit, Logs
  <2> QED
    BY <1>1, <1>2, <2>1, <2>2, SealKeeps, OneApplier, CalmFaults DEF Written, Committed
<1>5. CASE MarkGoal(p)
  <2>1. /\ pc[p] = "goal" /\ pc'[p] = "status"
        /\ UNCHANGED <<file, status, queued, lock, dir, log, backup, snap, hand>>
    BY <1>1, <1>5 DEF MarkGoal, At, Go, ApplyInv, TypeInv, Typed
  <2>2. Fault("status") => used'["status"] > 0
    BY DEF Fault, ApplyInv, TypeInv, Typed, FaultKinds
  <2> QED
    BY <1>1, <1>2, <1>5, <2>1, <2>2, SealKeeps, OneApplier, CalmFaults
       DEF Written, Committed, MarkGoal
<1> QED
  BY <1>3, <1>4, <1>5

LEMMA MarkAppliedKeeps ==
  ASSUME OneApplier, CalmFaults, NEW p \in Applier, CalmMove(p), MarkApplied(p)
  PROVE  ApplyInv'
<1> USE DEF projectVars, journalVars, localVars, CalmMove
<1>1. /\ pc[p] = "status" /\ p \in Proc
      /\ UNCHANGED <<file, goal, queued, dir, log, backup>>
  BY DEF MarkApplied, At, Proc
<1>2. /\ file = After /\ log.begun /\ Exact /\ log.priors = File /\ status = "approved"
      /\ hand[p] = NoFile /\ lock = p /\ ~queued
      /\ goal = "applied" \/ used["status"] > 0
  BY <1>1, SealKnows DEF Written, ApplyInv, Applying
<1>3. GoodLog' /\ Exact'
  BY <1>1, <1>2, LogKept DEF ApplyInv
<1>4. CASE status' = "applied" /\ Go(p, "enqueue") /\ UNCHANGED <<lock, localVars, used>>
  <2>1. pc'[p] = "enqueue" /\ hand'[p] = NoFile
    BY <1>1, <1>2, <1>4 DEF Go, ApplyInv, TypeInv, Typed
  <2>2. ApplyMove(p) /\ LockRight'
    BY <1>2, <1>4, <2>1, Sole, OneApplier DEF ApplyMove, RecoveryPlaces, Holding, ApplyPlaces
  <2>3. StatusRight' /\ LeftForCause'
    BY <1>1, <1>2, <1>4 DEF StatusRight, LeftForCause
  <2>4. Applying(p)'
    BY <1>1, <1>2, <1>4, <2>1 DEF Applying, Overwriting, Written, Uncommitted, RollingBack
  <2> QED
    BY <1>3, <2>2, <2>3, <2>4, ApplyDone, OneApplier, CalmFaults
<1>5. CASE Fault("status") /\ Quit(p) /\ UNCHANGED status
  <2>1. used["status"] \in Nat /\ used'["status"] = used["status"] + 1
    BY <1>5 DEF Fault, ApplyInv, TypeInv, Typed, FaultKinds
  <2>2. goal' = "applied" \/ used'["status"] > 1
    BY <1>1, <1>2, <2>1
  <2>3. StatusRight' /\ LeftForCause'
    BY <1>1, <1>2, <1>3, <1>5, <2>2 DEF StatusRight, Saved, LeftForCause
  <2> QED
    BY <1>3, <1>5, <2>3, QuitKeeps, OneApplier, CalmFaults
<1> QED
  BY <1>4, <1>5 DEF MarkApplied

LEMMA EnqueueKeeps ==
  ASSUME OneApplier, CalmFaults, NEW p \in Applier, CalmMove(p), Enqueue(p)
  PROVE  ApplyInv'
<1> USE DEF journalVars, localVars, CalmMove
<1>1. /\ pc[p] = "enqueue" /\ p \in Proc /\ Applying(p) /\ LockRight /\ GoodLog
      /\ UNCHANGED <<file, goal, status, dir, log, backup>>
  BY DEF Enqueue, At, ApplyInv, Proc
<1>2. status = "applied" /\ log.begun /\ dir /\ lock = p /\ hand[p] = NoFile /\ file = After
  BY <1>1 DEF Applying, LockRight, Holding, ApplyPlaces, GoodLog, ApplyInv, StatusRight
<1>3. GoodLog' /\ StatusRight' /\ LeftForCause'
  BY <1>1, <1>2, LogKept DEF StatusRight, LeftForCause
<1>4. CASE queued' = TRUE /\ Go(p, "close") /\ UNCHANGED <<lock, localVars>>
  <2>1. pc'[p] = "close" /\ hand'[p] = NoFile
    BY <1>1, <1>2, <1>4 DEF Go, ApplyInv, TypeInv, Typed
  <2>2. ApplyMove(p) /\ LockRight'
    BY <1>2, <1>4, <2>1, Sole, OneApplier DEF ApplyMove, RecoveryPlaces, Holding, ApplyPlaces
  <2>3. Applying(p)'
    BY <1>1, <1>2, <1>4, <2>1 DEF Applying, Settled, Overwriting, Written, Uncommitted, RollingBack
  <2> QED
    BY <1>3, <2>2, <2>3, ApplyDone, OneApplier, CalmFaults
<1>5. CASE Quit(p)
  BY <1>3, <1>5, QuitKeeps, OneApplier, CalmFaults
<1> QED
  BY <1>2, <1>4, <1>5 DEF Enqueue

(* abandon_after_rollback: the journal restores what is already restored,  *)
(* or what the rollback could not restore or git has overwritten.          *)
LEMMA AbandonKnows ==
  ASSUME ApplyInv, NEW p \in Applier, pc[p] = "abandon"
  PROVE  /\ log.begun /\ status = "approved" /\ Exact /\ read[p] = log
         /\ left[p] \in SUBSET log.priors /\ hand[p] = NoFile /\ lock = p /\ ~queued
         /\ RollsBack(used) => file = Before
         /\ Journals(used) =>
               log.priors = File /\ ~failed[p] /\ \A f \in File \ left[p] : file[f] = Before[f]
  BY DEF ApplyInv, Applying, RollingBack, LockRight, StatusRight, Holding, ApplyPlaces

LEMMA AbandonRestores ==
  ASSUME OneApplier, CalmFaults, NEW p \in Applier, CalmMove(p), NEW f \in File,
         Restore(p, f), pc[p] = "abandon"
  PROVE  ApplyInv'
<1> USE DEF journalVars, CalmMove
<1>1. /\ log.begun /\ status = "approved" /\ Exact /\ read[p] = log /\ f \in left[p]
      /\ left[p] \in SUBSET log.priors /\ hand[p] = NoFile /\ lock = p /\ ~queued /\ p \in Proc
      /\ RollsBack(used) => file = Before
      /\ Journals(used) =>
            log.priors = File /\ ~failed[p] /\ \A g \in File \ left[p] : file[g] = Before[g]
  BY AbandonKnows DEF Restore, Proc
<1>2. /\ UNCHANGED <<goal, status, queued, lock, dir, log, backup, pc, hand, read>>
      /\ left'[p] = left[p] \ {f}
  BY <1>1 DEF Restore, ApplyInv, TypeInv, Typed
<1>3. /\ \/ file'[f] = Before[f] /\ failed'[p] = failed[p]
         \/ file' = file /\ failed'[p] /\ (backup[f] # Before[f] \/ used'["restore"] > 0)
      /\ \A g \in File \ {f} : file'[g] = file[g]
      /\ file' \in [File -> Contents]
  BY <1>1, RestoreRestores DEF ApplyInv, TypeInv, Typed
<1>4. /\ RollsBack(used)' => RollsBack(used)
      /\ Journals(used)' => Journals(used)
  BY <1>1, BystandersStand, CalmFaults
<1>5. RollsBack(used)' => file' = Before
  BY <1>1, <1>3, <1>4, BeforeType, SameFiles
<1>6. Journals(used)' => ~failed'[p] /\ \A g \in File \ left'[p] : file'[g] = Before[g]
  <2> SUFFICES ASSUME Journals(used)'
               PROVE  ~failed'[p] /\ \A g \in File \ left'[p] : file'[g] = Before[g]
    OBVIOUS
  <2>1. backup[f] = Before[f] /\ ~(used'["restore"] > 0)
    BY <1>1 DEF Exact, Journals
  <2>2. file'[f] = Before[f] /\ ~failed'[p]
    BY <1>1, <1>3, <1>4, <2>1
  <2> QED
    BY <1>1, <1>2, <1>3, <1>4, <2>2
<1>7. ApplyMove(p) /\ LockRight'
  BY <1>1, <1>2, Sole, OneApplier DEF ApplyMove, RecoveryPlaces, Holding, ApplyPlaces
<1>8. GoodLog' /\ Exact'
  BY <1>1, <1>2, LogKept DEF ApplyInv
<1>9. Saved'
  <2>1. Calm(used)'
    BY <1>1, BystandersStand, CalmFaults
  <2> QED
    BY <1>1, <1>2, <1>4, <1>5, <1>8, <2>1 DEF Saved, Calm
<1>10. StatusRight'
  BY <1>1, <1>2, <1>9 DEF StatusRight
<1>11. LeftForCause'
  BY <1>1, <1>2, Sole, OneApplier DEF LeftForCause, RollingBack
<1>12. Applying(p)'
  BY <1>1, <1>2, <1>4, <1>5, <1>6, <1>8
     DEF Applying, Overwriting, Written, Uncommitted, RollingBack
<1> QED
  BY <1>7, <1>8, <1>10, <1>11, <1>12, ApplyDone, OneApplier, CalmFaults

LEMMA AbandonEnds ==
  ASSUME OneApplier, CalmFaults, NEW p \in Applier, CalmMove(p), Restored(p), pc[p] = "abandon"
  PROVE  ApplyInv'
<1> USE DEF journalVars, projectVars, localVars, CalmMove
<1>1. /\ log.begun /\ status = "approved" /\ hand[p] = NoFile /\ lock = p /\ left[p] = {}
      /\ ~queued /\ p \in Proc /\ UNCHANGED <<file, goal, status, queued, dir, log, backup>>
      /\ RollsBack(used) => file = Before
      /\ Journals(used) => \A f \in File : file[f] = Before[f]
  <2>1. left[p] = {} /\ UNCHANGED <<file, goal, status, queued, dir, log, backup>>
    BY DEF Restored
  <2> QED
    BY <2>1, AbandonKnows DEF Proc
<1>2. file = Before
  BY <1>1, BeforeType, SameFiles DEF ApplyInv, Calm, TypeInv, Typed
<1>3. GoodLog' /\ StatusRight' /\ LeftForCause'
  BY <1>1, <1>2, LogKept DEF StatusRight, Saved, LeftForCause, ApplyInv
<1>4. CASE Quit(p)
  BY <1>3, <1>4, QuitKeeps, OneApplier, CalmFaults
<1>5. CASE Go(p, "close") /\ UNCHANGED <<lock, localVars>>
  <2>1. pc'[p] = "close" /\ hand'[p] = NoFile
    BY <1>1, <1>5 DEF Go, ApplyInv, TypeInv, Typed
  <2>2. ApplyMove(p) /\ LockRight'
    BY <1>1, <1>5, <2>1, Sole, OneApplier DEF ApplyMove, RecoveryPlaces, Holding, ApplyPlaces
  <2>3. Applying(p)'
    BY <1>1, <1>2, <2>1 DEF Applying, Settled, Overwriting, Written, Uncommitted, RollingBack
  <2> QED
    BY <1>3, <2>2, <2>3, ApplyDone, OneApplier, CalmFaults
<1> QED
  BY <1>4, <1>5 DEF Restored, At

LEMMA CloseKeeps ==
  ASSUME OneApplier, CalmFaults, NEW p \in Applier, CalmMove(p), Sweep(p), pc[p] = "close"
  PROVE  ApplyInv'
<1> USE DEF CalmMove
<1>1. Settled /\ hand[p] = NoFile /\ p \in Proc /\ lock = p
  BY DEF ApplyInv, Applying, LockRight, Holding, ApplyPlaces, Proc
<1>2. /\ UNCHANGED <<file, head, goal, status, queued, used>>
      /\ GoodLog' /\ StatusRight' /\ (log'.begun => log.begun)
  BY <1>1, SweepClears
<1>3. Settled' /\ LeftForCause'
  BY <1>1, <1>2 DEF Settled, LeftForCause
<1>4. CASE UNCHANGED <<lock, pc, localVars>>
  <2>1. ApplyMove(p) /\ LockRight'
    BY <1>1, <1>4 DEF ApplyMove, RecoveryPlaces, LockRight, ApplyInv
  <2>2. Applying(p)'
    BY <1>1, <1>3, <1>4 DEF Applying, Overwriting, Written, Uncommitted, RollingBack, localVars
  <2> QED
    BY <1>2, <1>3, <2>1, <2>2, ApplyDone, OneApplier, CalmFaults
<1>5. CASE Quit(p)
  BY <1>2, <1>3, <1>5, QuitKeeps, OneApplier, CalmFaults
<1> QED
  BY <1>4, <1>5 DEF Sweep, At
-----------------------------------------------------------------------------
LEMMA ApplyInit == CalmFaults /\ Init => ApplyInv
<1> SUFFICES ASSUME CalmFaults, Init PROVE ApplyInv
  OBVIOUS
<1>1. TypeInv
  BY TypeInit
<1>2. Calm(used)
  <2>1. PICK b \in Budgets : used["edits"] <= b["edits"]
    BY DEF Init
  <2> QED
    BY DEF Init, Calm, Journals, FaultKinds
<1>3. /\ file = Before /\ status = "approved" /\ queued = FALSE /\ lock = "none"
      /\ log = NoLog /\ \A q \in Proc : pc[q] = "down" /\ hand[q] = NoFile
  BY DEF Init
<1>4. LockRight /\ Alone
  BY <1>3, JournalAssumption
     DEF LockRight, Alone, Holding, ApplyPlaces, RecoveryPlaces, JournalAssumption, Proc
<1>5. GoodLog /\ StatusRight /\ LeftForCause /\ CommitForCause /\ EditsCounted
  BY <1>3 DEF Init, GoodLog, StatusRight, Saved, LeftForCause, NoLog, CommitForCause,
              EditsCounted, FaultKinds
<1>6. \A q \in Proc : Recovering(q)
  BY <1>3 DEF Recovering, Reading, Restoring
<1>7. \A p \in Applier : Applying(p)
  BY <1>3 DEF Applying, Overwriting, Written, Uncommitted, RollingBack, Proc
<1> QED
  BY <1>1, <1>2, <1>4, <1>5, <1>6, <1>7 DEF ApplyInv

LEMMA OnlyApplierApplies ==
  ASSUME TypeInv, NEW p \in Proc, ApplyStep(p) \/ pc[p] \in {"abandon", "close"}
  PROVE  p \in Applier
  BY DEF ApplyStep, CheckLock, WriteLock, Load, MakeDir, Begin, RecordPrior, StopEarly,
         PriorsDone, Copy, Copied, Fail, Undo, Undone, Checkout, Discarded, Abandon, Verified,
         Commit, Resave, LogCommit, MarkGoal, MarkApplied, Enqueue, At, TypeInv,
         DaemonsRecover, RecoveryPlaces

LEMMA MoveKeeps ==
  ASSUME OneApplier, CalmFaults, NEW p \in Proc, CalmMove(p)
  PROVE  ApplyInv'
<1>1. CASE Start(p) \/ Crash(p)
  BY <1>1, StartKeeps, CrashKeeps, OneApplier, CalmFaults
<1>2. CASE RecoveryStep(p)
  <2>1. CASE Scan(p) \/ Check(p) \/ Decide(p) \/ Forward(p) \/ Uncommit(p)
    BY <2>1, ScanKeeps, CheckKeeps, DecideKeeps, ForwardKeeps, UncommitKeeps,
       OneApplier, CalmFaults
  <2>2. ASSUME NEW f \in File, Restore(p, f) PROVE ApplyInv'
    <3>1. CASE pc[p] = "restore"
      BY <2>2, <3>1, RestoreKeeps, OneApplier, CalmFaults
    <3>2. CASE pc[p] = "abandon"
      BY <2>2, <3>2, OnlyApplierApplies, AbandonRestores, OneApplier, CalmFaults
         DEF CalmMove, ApplyInv
    <3> QED
      BY <2>2, <3>1, <3>2 DEF Restore
  <2>3. CASE Restored(p)
    <3>1. CASE pc[p] = "restore"
      BY <2>3, <3>1, RestoredKeeps, OneApplier, CalmFaults
    <3>2. CASE pc[p] = "abandon"
      BY <2>3, <3>2, OnlyApplierApplies, AbandonEnds, OneApplier, CalmFaults
         DEF CalmMove, ApplyInv
    <3> QED
      BY <2>3, <3>1, <3>2 DEF Restored, At
  <2>4. CASE Sweep(p)
    <3>1. CASE pc[p] = "sweep"
      BY <2>4, <3>1, SweepKeeps, OneApplier, CalmFaults
    <3>2. CASE pc[p] = "close"
      BY <2>4, <3>2, OnlyApplierApplies, CloseKeeps, OneApplier, CalmFaults
         DEF CalmMove, ApplyInv
    <3> QED
      BY <2>4, <3>1, <3>2 DEF Sweep
  <2> QED
    BY <1>2, <2>1, <2>2, <2>3, <2>4 DEF RecoveryStep
<1>3. CASE ApplyStep(p)
  <2>1. p \in Applier
    BY <1>3, OnlyApplierApplies DEF CalmMove, ApplyInv
  <2>2. CASE CheckLock(p) \/ WriteLock(p) \/ Load(p) \/ MakeDir(p)
    BY <2>1, <2>2, LockSteps, OneApplier, CalmFaults
  <2>3. CASE Begin(p) \/ (\E f \in File : RecordPrior(p, f)) \/ StopEarly(p) \/ PriorsDone(p)
    BY <2>1, <2>3, BeginKeeps, PriorKeeps, StopEarlyKeeps, PriorsDoneKeeps,
       OneApplier, CalmFaults
  <2>4. CASE \/ Copy(p) \/ Fail(p) \/ Undo(p) \/ Undone(p)
             \/ Checkout(p) \/ Discarded(p) \/ Abandon(p)
    BY <2>1, <2>4, CopyKeeps, FailKeeps, UndoKeeps, UndoneKeeps, CheckoutKeeps,
       DiscardedKeeps, AbandonKeeps, OneApplier, CalmFaults
  <2>5. CASE \/ Copied(p) \/ Verified(p) \/ Commit(p)
             \/ Resave(p) \/ LogCommit(p) \/ MarkGoal(p)
    BY <2>1, <2>5, WrittenKeeps, SealSteps, OneApplier, CalmFaults
  <2>6. CASE MarkApplied(p) \/ Enqueue(p)
    BY <2>1, <2>6, MarkAppliedKeeps, EnqueueKeeps, OneApplier, CalmFaults
  <2> QED
    BY <1>3, <2>2, <2>3, <2>4, <2>5, <2>6 DEF ApplyStep
<1> QED
  BY <1>1, <1>2, <1>3 DEF CalmMove, Step

LEMMA StandStill == ApplyInv /\ UNCHANGED vars => ApplyInv'
<1> SUFFICES ASSUME ApplyInv, UNCHANGED vars PROVE ApplyInv'
  OBVIOUS
<1> USE DEF vars
<1>1. TypeInv' /\ Calm(used)'
  BY DEF ApplyInv, TypeInv, Typed, DaemonsRecover, Calm, RollsBack, Journals
<1>2. LockRight' /\ Alone'
  BY DEF ApplyInv, LockRight, Alone
<1>3. GoodLog'
  BY DEF ApplyInv, GoodLog
<1>4. StatusRight' /\ LeftForCause' /\ CommitForCause' /\ EditsCounted'
  BY DEF ApplyInv, StatusRight, Saved, Exact, Undoing, LeftForCause, NobodyWrites,
         CommitForCause, EditsCounted, RollsBack
<1>5. \A q \in Proc : Recovering(q)'
  BY DEF ApplyInv, Recovering, Settled
<1>6. \A p \in Applier : Applying(p)'
  BY DEF ApplyInv, Applying, NoRestart, Exact, Settled, Unseen, RollsBack, Journals
<1> QED
  BY <1>1, <1>2, <1>3, <1>4, <1>5, <1>6 DEF ApplyInv

LEMMA ApplyStepKeeps ==
  ASSUME OneApplier, CalmRecovery, CalmFaults
  PROVE  ApplyInv /\ [Next]_vars => ApplyInv'
<1> SUFFICES ASSUME ApplyInv, [Next]_vars PROVE ApplyInv'
  OBVIOUS
<1>1. CASE Next
  <2>1. PICK p \in Proc : MayMove(p) /\ (Step(p) \/ Crash(p))
    BY <1>1 DEF Next
  <2>2. TypeInv'
    BY TypeStep DEF ApplyInv
  <2>3. CalmMove(p)
    BY <2>1, <2>2, CalmRecovery DEF CalmMove, MayMove
  <2> QED
    BY <2>3, MoveKeeps, OneApplier, CalmFaults
<1> QED
  BY <1>1, StandStill

LEMMA ApplyInvHolds ==
  ASSUME OneApplier, CalmRecovery, CalmFaults
  PROVE  Spec => []ApplyInv
<1>1. Init => ApplyInv
  BY ApplyInit, CalmFaults
<1>2. ApplyInv /\ [Next]_vars => ApplyInv'
  BY ApplyStepKeeps, OneApplier, CalmRecovery, CalmFaults
<1> QED
  BY <1>1, <1>2, PTL DEF Spec

(* Whatever step of `ta draft apply' or of recover_one a crash or a failing *)
(* write comes after, the draft is fully applied or fully rolled back once *)
(* no journal is left to recover from, within CalmFaults.                  *)
THEOREM AllOrNothingHolds ==
  ASSUME OneApplier, CalmRecovery, CalmFaults
  PROVE  Spec => []AllOrNothing
<1>1. ApplyInv => AllOrNothing
  <2> SUFFICES ASSUME ApplyInv, AtRest PROVE Finished \/ Untouched
    BY DEF AllOrNothing
  <2>1. Settled
    BY NothingBegun DEF AtRest
  <2> QED
    BY <2>1 DEF Settled, Finished, Untouched, ApplyInv, StatusRight, TypeInv, Typed
<1> QED
  BY <1>1, ApplyInvHolds, OneApplier, CalmRecovery, CalmFaults, PTL

(* What overlay copies overwrite can be had back for as long as the draft  *)
(* is not Applied: neither a later apply's record_prior nor a rollback     *)
(* takes what an earlier apply wrote for the original, within CalmFaults.  *)
THEOREM OriginalsAreKept ==
  ASSUME OneApplier, CalmRecovery, CalmFaults
  PROVE  Spec => []OriginalsKept
<1>1. ApplyInv => OriginalsKept
  <2> SUFFICES ASSUME ApplyInv, status # "applied", NEW f \in File
               PROVE  \/ file[f] = Before[f]
                      \/ \E p \in Applier : At(p, "undo") /\ snap[p][f] = Before[f]
                      \/ /\ f \in log.priors
                         /\ (f \in log.existed) = (f \in Existed)
                         /\ f \in Existed => backup[f] = "old"
    BY DEF OriginalsKept
  <2>1. CASE Undoing
    <3>1. PICK p \in Applier : pc[p] = "undo"
      BY <2>1 DEF Undoing
    <3>2. /\ Exact /\ \A g \in left[p] : snap[p][g] = Before[g]
          /\ RollsBack(used) => \A g \in File \ left[p] : file[g] = Before[g]
          /\ Journals(used) => log.priors = File
      BY <3>1 DEF ApplyInv, Applying, RollingBack
    <3>3. CASE RollsBack(used)
      BY <3>1, <3>2, <3>3 DEF At
    <3>4. CASE Journals(used)
      BY <3>2, <3>4, BeforeValues DEF Exact, ApplyInv, GoodLog
    <3> QED
      BY <3>3, <3>4 DEF ApplyInv, Calm
  <2>2. CASE Saved
    <3>1. file[f] = Before[f] \/ (Exact /\ f \in log.priors)
      BY <2>2 DEF Saved
    <3>2. f \in log.priors => ((f \in log.existed) = (f \in Existed))
      BY DEF ApplyInv, GoodLog
    <3> QED
      BY <3>1, <3>2, BeforeValues DEF Exact
  <2> QED
    BY <2>1, <2>2 DEF ApplyInv, StatusRight
<1> QED
  BY <1>1, ApplyInvHolds, OneApplier, CalmRecovery, CalmFaults, PTL

-----------------------------------------------------------------------------
(* What holds whatever fails, however often: the status is the decision    *)
(* point.  CalmFaults is not assumed from here on.                         *)
Undecided == {"mkdir", "begin", "prior", "undo", "checkout", "discard", "abandon"} \cup Overwriting

Decided ==
    /\ status = "applied" => file = After /\ (queued \/ log.begun)
    /\ status # "applied" => ~queued

Stage(q) ==
    /\ pc[q] \in Reading \ {"check"} => lock \notin Proc
    /\ pc[q] = "sweep" => (log.begun => lock \notin Proc)
    /\ pc[q] \in {"sweep", "close"} => (status = "applied" => queued)
    /\ pc[q] \in {"forward", "enqueue"} => status = "applied"
    /\ pc[q] \in Restoring \cup Undecided => status # "applied"
    /\ pc[q] \in {"prior", "enqueue"} \cup Overwriting => log.begun
    /\ pc[q] = "copy" => \A f \in File \ left[q] : file[f] = After[f]
    /\ pc[q] \in Written => file = After
    /\ hand[q] # NoFile => pc[q] \in {"copy", "undo", "checkout", "discard"} /\ hand[q] \in left[q]

SteadyInv == TypeInv /\ LockRight /\ Alone /\ Decided /\ \A q \in Proc : Stage(q)
SteadyMove(p) ==
    /\ SteadyInv /\ TypeInv'
    /\ Step(p) \/ Crash(p)
    /\ \A q \in Proc \ {p} : pc[q] \notin RecoveryPlaces

LEMMA SteadyOthers ==
  ASSUME NEW p \in Proc, SteadyMove(p)
  PROVE  Alone' /\ \A q \in Proc \ {p} : Same(q)
<1>1. \A q \in Proc \ {p} : Same(q) /\ pc'[q] \notin RecoveryPlaces
  BY OthersStand DEF SteadyMove, SteadyInv, Same
<1> QED
  BY <1>1 DEF Alone

(* A daemon's recovery stays away from an apply that holds the lock.       *)
LEMMA RecovererSpares ==
  ASSUME SteadyInv, NEW p \in Proc \ Applier, Step(p) \/ Crash(p), lock \in Proc
  PROVE  /\ UNCHANGED <<file, status, queued, lock>>
         /\ log' = log \/ ~log.begun
         /\ log.begun => UNCHANGED <<head, dir, log, backup>>
<1> USE DEF projectVars, journalVars
<1>1. pc[p] \in {"down", "scan", "check", "sweep"} /\ (pc[p] = "sweep" => ~log.begun)
  BY DEF SteadyInv, TypeInv, DaemonsRecover, Stage, RecoveryPlaces, Reading, Restoring
<1>2. ~ApplyStep(p)
  BY OnlyApplierApplies DEF SteadyInv
<1>3. CASE Start(p) \/ Scan(p) \/ Check(p)
  BY <1>3 DEF Start, Scan, Check
<1>4. CASE Sweep(p)
  BY <1>1, <1>4 DEF Sweep, At, Recovered, Quit
<1>5. CASE Crash(p)
  BY <1>5, JournalAssumption DEF Crash, SteadyInv, TypeInv, Typed, Proc, JournalAssumption
<1>6. CASE RecoveryStep(p)
  BY <1>1, <1>3, <1>4, <1>6 DEF RecoveryStep, Decide, Forward, Uncommit, Restore, Restored, At
<1> QED
  BY <1>2, <1>3, <1>5, <1>6 DEF Step

LEMMA BystanderStage ==
  ASSUME OneApplier, NEW p \in Proc, SteadyMove(p), NEW q \in Proc, q # p
  PROVE  Stage(q)'
<1>1. Same(q) /\ Stage(q) /\ pc[q] \notin RecoveryPlaces /\ pc[q] \in Places
  BY SteadyOthers DEF SteadyMove, SteadyInv, TypeInv, Typed
<1>2. CASE pc[q] \notin Holding
  BY <1>1, <1>2 DEF Stage, Same, Places, Holding, ApplyPlaces, RecoveryPlaces, Reading,
                    Restoring, Undecided, Overwriting, Written
<1>3. CASE pc[q] \in Holding
  <2>1. q \in Applier /\ lock = q
    BY <1>1, <1>3 DEF SteadyMove, SteadyInv, LockRight, TypeInv, DaemonsRecover, Holding,
                      ApplyPlaces, RecoveryPlaces
  <2>2. p \in Proc \ Applier
    BY <2>1, OneApplier DEF OneApplier
  <2>3. /\ UNCHANGED <<file, status, queued, lock>>
        /\ log' = log \/ ~log.begun
    BY <2>1, <2>2, RecovererSpares DEF SteadyMove
  <2> QED
    BY <1>1, <1>3, <2>3 DEF Stage, Same, RecoveryPlaces, Reading, Restoring, Holding, ApplyPlaces
<1> QED
  BY <1>2, <1>3

(* What the process itself keeps by its step.                              *)
SteadyAt(p) ==
    /\ Decided' /\ Stage(p)'
    /\ \/ UNCHANGED lock /\ (pc'[p] \in Holding <=> pc[p] \in Holding)
       \/ p \in Applier /\ (lock' = p <=> pc'[p] \in Holding)

Free == {"down", "scan", "lock", "write"}

LEMMA FreeStage ==
  ASSUME NEW q, pc'[q] \in Free \cup {"check", "load"}, hand'[q] = NoFile
  PROVE  Stage(q)'
  BY DEF Free, Stage, Reading, Restoring, Undecided, Overwriting, Written

LEMMA RecovererSteady ==
  ASSUME NEW p \in Proc, SteadyMove(p), Start(p) \/ RecoveryStep(p),
         pc[p] \in {"down", "scan"} \cup RecoveryPlaces
  PROVE  SteadyAt(p)
<1> USE DEF projectVars, journalVars, localVars
<1>1. /\ Stage(p) /\ Decided /\ TypeInv /\ hand[p] = NoFile
      /\ pc[p] \notin Holding
  BY DEF SteadyMove, SteadyInv, Stage, RecoveryPlaces, Holding, ApplyPlaces
<1>2. /\ \A place : Go(p, place) => pc'[p] = place
      /\ Recovered(p) => pc'[p] \in {"lock", "down"} /\ hand'[p] = NoFile
      /\ UNCHANGED hand => hand'[p] = hand[p]
  BY <1>1, PlaceAfter
<1>3. ASSUME Decided', UNCHANGED lock, Recovered(p) PROVE SteadyAt(p)
  <2>1. Stage(p)' /\ pc'[p] \notin Holding
    BY <1>2, <1>3, FreeStage DEF Free, Holding, ApplyPlaces
  <2> QED
    BY <1>1, <1>3, <2>1 DEF SteadyAt
<1>4. CASE Start(p)
  <2>1. pc'[p] = "scan" /\ hand'[p] = NoFile /\ UNCHANGED <<file, status, queued, log, lock>>
    BY <1>1, <1>2, <1>4 DEF Start
  <2>2. Stage(p)' /\ pc'[p] \notin Holding
    BY <2>1, FreeStage DEF Free, Holding, ApplyPlaces
  <2> QED
    BY <1>1, <2>1, <2>2 DEF SteadyAt, Decided
<1>5. CASE Scan(p)
  <2>1. Decided' /\ UNCHANGED <<file, status, queued, log, lock>>
    BY <1>1, <1>5 DEF Scan, Decided
  <2>2. CASE ~log.begun /\ Go(p, "sweep") /\ UNCHANGED localVars
    <3>1. pc'[p] = "sweep" /\ hand'[p] = NoFile
      BY <1>1, <1>2, <2>2
    <3>2. Stage(p)'
      BY <1>1, <2>1, <2>2, <3>1 DEF Stage, Decided, Reading, Restoring, Undecided,
                                    Overwriting, Written
    <3> QED
      BY <1>1, <2>1, <3>1, <3>2 DEF SteadyAt, Holding, ApplyPlaces
  <2>3. CASE Go(p, "check") /\ UNCHANGED hand
    <3>1. pc'[p] = "check" /\ hand'[p] = NoFile
      BY <1>1, <1>2, <2>3
    <3> QED
      BY <1>1, <2>1, <3>1, FreeStage DEF SteadyAt, Holding, ApplyPlaces
  <2> QED
    BY <1>3, <1>5, <2>1, <2>2, <2>3 DEF Scan
<1>6. CASE Check(p)
  <2>1. Decided' /\ UNCHANGED <<file, status, queued, log, lock>>
    BY <1>1, <1>6 DEF Check, Decided
  <2>2. CASE lock \notin Proc /\ Go(p, "decide") /\ UNCHANGED localVars
    <3>1. pc'[p] = "decide" /\ hand'[p] = NoFile
      BY <1>1, <1>2, <2>2
    <3>2. Stage(p)'
      BY <2>1, <2>2, <3>1 DEF Stage, Reading, Restoring, Undecided, Overwriting, Written
    <3> QED
      BY <1>1, <2>1, <3>1, <3>2 DEF SteadyAt, Holding, ApplyPlaces
  <2> QED
    BY <1>3, <1>6, <2>1, <2>2 DEF Check
<1>7. CASE Decide(p)
  <2>1. /\ Decided' /\ UNCHANGED <<file, status, queued, log, lock>>
        /\ pc[p] = "decide"
    BY <1>1, <1>7 DEF Decide, Decided, At
  <2>2. CASE /\ Loop(p, IF status = "applied" THEN "forward" ELSE "uncommit", read[p].priors)
             /\ UNCHANGED hand
    <3>1. /\ pc'[p] = (IF status = "applied" THEN "forward" ELSE "uncommit")
          /\ hand'[p] = NoFile /\ lock \notin Proc
      BY <1>1, <1>2, <2>1, <2>2 DEF Loop, Stage, Reading
    <3>2. Stage(p)'
      BY <2>1, <3>1 DEF Stage, Reading, Restoring, Undecided, Overwriting, Written
    <3> QED
      BY <1>1, <2>1, <3>1, <3>2 DEF SteadyAt, Holding, ApplyPlaces
  <2> QED
    BY <1>3, <1>7, <2>1, <2>2 DEF Decide
<1>8. CASE Forward(p)
  <2>1. /\ UNCHANGED <<file, status, log, lock>> /\ status = "applied" /\ lock \notin Proc
        /\ queued' = TRUE \/ UNCHANGED queued
    BY <1>1, <1>8 DEF Forward, At, Stage, Reading
  <2>2. Decided'
    BY <1>1, <2>1 DEF Decided
  <2>3. CASE queued' = TRUE /\ Go(p, "sweep") /\ UNCHANGED localVars
    <3>1. pc'[p] = "sweep" /\ hand'[p] = NoFile
      BY <1>1, <1>2, <2>3
    <3>2. Stage(p)'
      BY <2>1, <2>3, <3>1 DEF Stage, Reading, Restoring, Undecided, Overwriting, Written
    <3> QED
      BY <1>1, <2>1, <2>2, <3>1, <3>2 DEF SteadyAt, Holding, ApplyPlaces
  <2> QED
    BY <1>3, <1>8, <2>1, <2>2, <2>3 DEF Forward
<1>9. CASE Uncommit(p)
  <2>1. /\ UNCHANGED <<file, status, queued, log, lock>> /\ status # "applied" /\ lock \notin Proc
    BY <1>1, <1>9 DEF Uncommit, At, Stage, Reading, Restoring
  <2>2. Decided'
    BY <1>1, <2>1 DEF Decided
  <2>3. CASE Go(p, "restore") /\ UNCHANGED localVars
    <3>1. pc'[p] = "restore" /\ hand'[p] = NoFile
      BY <1>1, <1>2, <2>3
    <3>2. Stage(p)'
      BY <2>1, <3>1 DEF Stage, Reading, Restoring, Undecided, Overwriting, Written
    <3> QED
      BY <1>1, <2>1, <2>2, <3>1, <3>2 DEF SteadyAt, Holding, ApplyPlaces
  <2> QED
    BY <1>3, <1>9, <2>1, <2>2, <2>3 DEF Uncommit
<1>10. CASE \E f \in File : Restore(p, f)
  <2>1. /\ UNCHANGED <<status, queued, log, lock, pc, hand>> /\ pc[p] = "restore"
        /\ status # "applied" /\ lock \notin Proc
    BY <1>1, <1>10 DEF Restore, Stage, Reading, Restoring, RecoveryPlaces
  <2>2. Decided' /\ Stage(p)'
    BY <1>1, <2>1 DEF Decided, Stage, Reading, Restoring, Undecided, Overwriting, Written
  <2> QED
    BY <2>1, <2>2 DEF SteadyAt
<1>11. CASE Restored(p)
  <2>1. /\ UNCHANGED <<file, status, queued, log, lock>> /\ pc[p] = "restore"
        /\ status # "applied" /\ lock \notin Proc
    BY <1>1, <1>11 DEF Restored, At, Stage, Reading, Restoring, RecoveryPlaces
  <2>2. Decided'
    BY <1>1, <2>1 DEF Decided
  <2>3. CASE Go(p, "sweep") /\ UNCHANGED localVars
    <3>1. pc'[p] = "sweep" /\ hand'[p] = NoFile
      BY <1>1, <1>2, <2>3
    <3>2. Stage(p)'
      BY <2>1, <3>1 DEF Stage, Reading, Restoring, Undecided, Overwriting, Written
    <3> QED
      BY <1>1, <2>1, <2>2, <3>1, <3>2 DEF SteadyAt, Holding, ApplyPlaces
  <2> QED
    BY <1>3, <1>11, <2>1, <2>2, <2>3 DEF Restored, At
<1>12. CASE Sweep(p)
  <2>1. /\ UNCHANGED <<file, status, queued, lock>> /\ pc[p] = "sweep"
        /\ log' = log \/ log' = NoLog
    BY <1>12 DEF Sweep, At, Recovered, RecoveryPlaces
  <2>2. log'.begun => log.begun
    BY <2>1 DEF NoLog
  <2>3. Decided'
    BY <1>1, <2>1, <2>2 DEF Decided, Stage
  <2>4. CASE UNCHANGED <<pc, localVars>>
    <3>1. Stage(p)'
      BY <1>1, <2>1, <2>2, <2>4 DEF Stage, Reading, Restoring, Undecided, Overwriting, Written
    <3> QED
      BY <2>1, <2>3, <2>4, <3>1 DEF SteadyAt
  <2> QED
    BY <1>3, <1>12, <2>1, <2>3, <2>4 DEF Sweep, At
<1> QED
  BY <1>4, <1>5, <1>6, <1>7, <1>8, <1>9, <1>10, <1>11, <1>12 DEF RecoveryStep

LEMMA ApplierSteady ==
  ASSUME NEW p \in Applier, SteadyMove(p), Step(p), pc[p] \in ApplyPlaces
  PROVE  SteadyAt(p)
<1> USE DEF projectVars, journalVars, localVars
<1>1. /\ Stage(p) /\ Decided /\ TypeInv /\ p \in Proc /\ "none" # p
      /\ lock = p <=> pc[p] \in Holding
  BY JournalAssumption DEF SteadyMove, SteadyInv, LockRight, Proc, JournalAssumption
<1>2. /\ \A place : Go(p, place) => pc'[p] = place
      /\ Quit(p) => pc'[p] = "down" /\ hand'[p] = NoFile /\ lock' # p
      /\ UNCHANGED hand => hand'[p] = hand[p]
      /\ UNCHANGED left => left'[p] = left[p]
  BY <1>1, PlaceAfter, AfterQuit
<1>3. pc[p] \notin {"copy", "undo", "checkout", "discard"} => hand[p] = NoFile
  BY <1>1 DEF Stage
<1>4. ASSUME Decided', Quit(p) PROVE SteadyAt(p)
  <2>1. Stage(p)' /\ pc'[p] \notin Holding
    BY <1>2, <1>4, FreeStage DEF Free, Holding, ApplyPlaces
  <2> QED
    BY <1>2, <1>4, <2>1 DEF SteadyAt
<1>5. CASE CheckLock(p) \/ WriteLock(p)
  <2>1. /\ UNCHANGED <<file, status, queued, log, hand>> /\ hand[p] = NoFile
        /\ pc[p] \in {"lock", "write"} /\ pc'[p] \in {"down", "write", "load"}
        /\ lock' = p <=> pc'[p] = "load"
    BY <1>1, <1>2, <1>3, <1>5 DEF CheckLock, WriteLock, At, Holding
  <2>2. Decided' /\ Stage(p)'
    BY <1>1, <2>1, FreeStage DEF Decided, Free
  <2> QED
    BY <2>1, <2>2 DEF SteadyAt, Holding, ApplyPlaces
<1>6. CASE Load(p)
  <2>1. UNCHANGED <<file, status, queued, log>> /\ pc[p] = "load" /\ Decided'
    BY <1>1, <1>6 DEF Load, At, Decided
  <2>2. CASE status = "approved" /\ Go(p, "mkdir") /\ UNCHANGED <<lock, localVars>>
    <3>1. pc'[p] = "mkdir" /\ hand'[p] = NoFile
      BY <1>2, <1>3, <2>1, <2>2
    <3>2. Stage(p)'
      BY <2>1, <2>2, <3>1 DEF Stage, Reading, Restoring, Undecided, Overwriting, Written
    <3> QED
      BY <2>1, <2>2, <3>1, <3>2 DEF SteadyAt, Holding, ApplyPlaces
  <2> QED
    BY <1>4, <1>6, <2>1, <2>2 DEF Load
<1>7. CASE MakeDir(p)
  <2>1. /\ UNCHANGED <<file, status, queued, log, lock>> /\ pc[p] = "mkdir" /\ pc'[p] = "begin"
        /\ hand'[p] = NoFile
    BY <1>2, <1>3, <1>7 DEF MakeDir, At
  <2>2. Decided' /\ Stage(p)'
    BY <1>1, <2>1 DEF Decided, Stage, Reading, Restoring, Undecided, Overwriting, Written
  <2> QED
    BY <2>1, <2>2 DEF SteadyAt, Holding, ApplyPlaces
<1>8. CASE Begin(p)
  <2>1. /\ UNCHANGED <<file, status, queued, lock, hand>> /\ pc[p] = "begin" /\ status # "applied"
        /\ hand'[p] = NoFile
    BY <1>1, <1>2, <1>3, <1>8 DEF Begin, At, Stage, Undecided
  <2>2. Decided'
    BY <1>1, <2>1 DEF Decided
  <2>3. pc'[p] = "discard" \/ (pc'[p] = "prior" /\ log'.begun)
    BY <1>2, <1>8 DEF Begin, Loop, NoLog
  <2>4. Stage(p)'
    BY <2>1, <2>3 DEF Stage, Reading, Restoring, Undecided, Overwriting, Written
  <2> QED
    BY <2>1, <2>2, <2>3, <2>4 DEF SteadyAt, Holding, ApplyPlaces
<1>9. CASE \E f \in File : RecordPrior(p, f)
  <2>1. /\ UNCHANGED <<file, status, queued, lock, pc, hand>> /\ pc[p] = "prior"
        /\ status # "applied" /\ log.begun
    BY <1>1, <1>9 DEF RecordPrior, At, Stage, Undecided
  <2>2. log'.begun
    BY <1>1, <1>9, <2>1 DEF RecordPrior, TypeInv, Typed, Logs
  <2>3. Decided' /\ Stage(p)'
    BY <1>1, <1>3, <2>1, <2>2
       DEF Decided, Stage, Reading, Restoring, Undecided, Overwriting, Written
  <2> QED
    BY <2>1, <2>3 DEF SteadyAt
<1>10. CASE PriorsDone(p) \/ Fail(p) \/ StopEarly(p) \/ Undone(p) \/ Abandon(p)
  <2>1. /\ UNCHANGED <<file, status, queued, log, lock>>
        /\ pc[p] \in {"mkdir", "begin", "prior", "copy", "verify", "commit", "undo", "checkout"}
        /\ pc'[p] \in {"copy", "discard", "undo", "checkout", "abandon", "close"}
        /\ pc'[p] = "copy" => left'[p] = File /\ pc[p] = "prior"
    BY <1>1, <1>2, <1>3, <1>10
       DEF PriorsDone, Fail, StopEarly, Undone, Abandon, Loop, At, TypeInv, Typed
  <2>4. hand'[p] = NoFile
    <3>1. CASE Undone(p)
      BY <1>1, <1>2, <3>1 DEF Undone, Stage
    <3>2. CASE PriorsDone(p) \/ Fail(p) \/ StopEarly(p) \/ Abandon(p)
      BY <1>1, <1>2, <1>3, <3>2 DEF PriorsDone, Fail, StopEarly, Abandon, At, TypeInv, Typed
    <3> QED
      BY <1>10, <3>1, <3>2
  <2>2. status # "applied" /\ (pc'[p] = "copy" => log.begun)
    BY <1>1, <2>1 DEF Stage, Undecided, Overwriting, Written
  <2>3. Decided' /\ Stage(p)'
    BY <1>1, <2>1, <2>2, <2>4
       DEF Decided, Stage, Reading, Restoring, Undecided, Overwriting, Written
  <2> QED
    BY <2>1, <2>3 DEF SteadyAt, Holding, ApplyPlaces
<1>11. CASE Copy(p) \/ Undo(p) \/ Checkout(p)
  <2>1. /\ pc[p] \in {"copy", "undo", "checkout", "discard"} /\ status # "applied"
        /\ pc[p] = "copy" => log.begun
        /\ hand[p] # NoFile => hand[p] \in left[p]
    BY <1>1, <1>11 DEF Copy, Undo, Checkout, At, Stage, Undecided, Overwriting
  <2>2. CASE Copy(p)
    <3>1. /\ UNCHANGED <<status, queued, lock, log, pc>> /\ pc[p] = "copy"
          /\ \A g \in File \ left'[p] : file'[g] = After[g]
          /\ hand'[p] # NoFile => hand'[p] \in left'[p]
      <4>1. /\ pc[p] = "copy" /\ Put(p, After) /\ After \in [File -> Contents]
            /\ \A g \in File \ left[p] : file[g] = After[g]
        BY <1>1, <2>2, BeforeType DEF Copy, At, Stage
      <4> QED
        BY <1>1, <2>1, <4>1, PutPuts
    <3>2. Decided' /\ Stage(p)'
      BY <1>1, <2>1, <3>1
         DEF Decided, Stage, Reading, Restoring, Undecided, Overwriting, Written
    <3> QED
      BY <3>1, <3>2 DEF SteadyAt
  <2>3. CASE Undo(p) \/ Checkout(p)
    <3>1. /\ UNCHANGED <<status, queued, lock, log, pc>>
          /\ pc[p] \in {"undo", "checkout", "discard"}
      BY <2>3 DEF Undo, Checkout, At, Put, projectVars, journalVars
    <3>2. hand'[p] # NoFile => hand'[p] \in left'[p]
      <4>1. ASSUME NEW contents, Put(p, contents)
            PROVE  hand'[p] # NoFile => hand'[p] \in left'[p]
        BY <1>1, <4>1 DEF Put, EndWrite, Remove, BeginWrite, TypeInv, Typed
      <4>2. hand' = [hand EXCEPT ![p] = NoFile] => hand'[p] = NoFile
        BY <1>1 DEF TypeInv, Typed
      <4> QED
        BY <2>3, <4>1, <4>2 DEF Undo, Checkout
    <3>3. Decided' /\ Stage(p)'
      BY <1>1, <2>1, <3>1, <3>2
         DEF Decided, Stage, Reading, Restoring, Undecided, Overwriting, Written
    <3> QED
      BY <3>1, <3>3 DEF SteadyAt
  <2> QED
    BY <1>11, <2>2, <2>3
<1>12. CASE Discarded(p)
  <2>1. Decided' /\ Quit(p)
    BY <1>1, <1>12 DEF Discarded, Decided
  <2> QED
    BY <1>4, <2>1
<1>13. CASE Copied(p) \/ Verified(p) \/ Commit(p) \/ Resave(p) \/ LogCommit(p) \/ MarkGoal(p)
  <2>1. /\ pc[p] \in {"copy"} \cup (Written \ {"status"}) /\ pc'[p] \in Written
        /\ UNCHANGED <<file, queued, lock, hand>>
        /\ status' = status \/ status' \in {"torn", "approved"}
        /\ log' = log \/ log' = [log EXCEPT !.commit = TRUE]
        /\ pc[p] = "copy" => left[p] = {}
    BY <1>1, <1>2, <1>13
       DEF Copied, Verified, Commit, Resave, LogCommit, MarkGoal, At, Written
  <2>2. status # "applied" /\ log.begun
    BY <1>1, <2>1 DEF Stage, Undecided, Overwriting
  <2>3. log'.begun /\ status' # "applied"
    BY <1>1, <2>1, <2>2 DEF TypeInv, Typed, Logs
  <2>4. file = After /\ hand'[p] = NoFile
    <3>1. CASE pc[p] = "copy"
      <4>1. hand[p] = NoFile /\ \A g \in File : file[g] = After[g]
        BY <1>1, <2>1, <3>1 DEF Stage
      <4> QED
        BY <1>1, <1>2, <2>1, <4>1, BeforeType, SameFiles DEF TypeInv, Typed
    <3>2. CASE pc[p] \in Written
      BY <1>1, <1>2, <1>3, <2>1, <3>2 DEF Stage, Written
    <3> QED
      BY <2>1, <3>1, <3>2
  <2>5. Decided' /\ Stage(p)'
    BY <1>1, <2>1, <2>2, <2>3, <2>4
       DEF Decided, Stage, Reading, Restoring, Undecided, Overwriting, Written
  <2> QED
    BY <2>1, <2>5 DEF SteadyAt, Holding, ApplyPlaces, Written
<1>14. CASE MarkApplied(p)
  <2>1. /\ pc[p] = "status" /\ file = After /\ log.begun /\ status # "applied"
        /\ UNCHANGED <<file, queued, log>>
    BY <1>1, <1>14 DEF MarkApplied, At, Stage, Undecided, Overwriting, Written
  <2>2. Decided'
    BY <1>1, <1>14, <2>1 DEF MarkApplied, Decided
  <2>3. CASE status' = "applied" /\ Go(p, "enqueue") /\ UNCHANGED <<lock, localVars>>
    <3>1. pc'[p] = "enqueue" /\ hand'[p] = NoFile
      BY <1>2, <1>3, <2>1, <2>3
    <3>2. Stage(p)'
      BY <2>1, <2>3, <3>1 DEF Stage, Reading, Restoring, Undecided, Overwriting, Written
    <3> QED
      BY <2>1, <2>2, <2>3, <3>1, <3>2 DEF SteadyAt, Holding, ApplyPlaces
  <2> QED
    BY <1>4, <1>14, <2>2, <2>3 DEF MarkApplied
<1>15. CASE Enqueue(p)
  <2>1. /\ pc[p] = "enqueue" /\ log.begun /\ status = "applied"
        /\ UNCHANGED <<file, status, log>>
    BY <1>1, <1>15 DEF Enqueue, At, Stage
  <2>2. Decided'
    BY <1>1, <1>15, <2>1 DEF Enqueue, Decided
  <2>3. CASE queued' = TRUE /\ Go(p, "close") /\ UNCHANGED <<lock, localVars>>
    <3>1. pc'[p] = "close" /\ hand'[p] = NoFile
      BY <1>2, <1>3, <2>1, <2>3
    <3>2. Stage(p)'
      BY <2>1, <2>3, <3>1 DEF Stage, Reading, Restoring, Undecided, Overwriting, Written
    <3> QED
      BY <2>1, <2>2, <2>3, <3>1, <3>2 DEF SteadyAt, Holding, ApplyPlaces
  <2> QED
    BY <1>4, <1>15, <2>1, <2>2, <2>3 DEF Enqueue
<1>16. CASE \E f \in File : Restore(p, f)
  <2>1. /\ UNCHANGED <<status, queued, log, lock, pc, hand>> /\ pc[p] = "abandon"
        /\ status # "applied"
    BY <1>1, <1>16 DEF Restore, Stage, Undecided, ApplyPlaces
  <2>2. Decided' /\ Stage(p)'
    BY <1>1, <1>3, <2>1 DEF Decided, Stage, Reading, Restoring, Undecided, Overwriting, Written
  <2> QED
    BY <2>1, <2>2 DEF SteadyAt
<1>17. CASE Restored(p)
  <2>1. /\ UNCHANGED <<file, status, queued, log>> /\ pc[p] = "abandon" /\ status # "applied"
    BY <1>1, <1>17 DEF Restored, At, Stage, Undecided, ApplyPlaces
  <2>2. Decided'
    BY <1>1, <2>1 DEF Decided
  <2>3. CASE Go(p, "close") /\ UNCHANGED <<lock, localVars>>
    <3>1. pc'[p] = "close" /\ hand'[p] = NoFile
      BY <1>2, <1>3, <2>1, <2>3
    <3>2. Stage(p)'
      BY <2>1, <3>1 DEF Stage, Reading, Restoring, Undecided, Overwriting, Written
    <3> QED
      BY <2>1, <2>2, <2>3, <3>1, <3>2 DEF SteadyAt, Holding, ApplyPlaces
  <2> QED
    BY <1>4, <1>17, <2>1, <2>2, <2>3 DEF Restored, At
<1>18. CASE Sweep(p)
  <2>1. /\ UNCHANGED <<file, status, queued>> /\ pc[p] = "close"
        /\ status = "applied" => queued
    BY <1>1, <1>18 DEF Sweep, At, Stage, ApplyPlaces
  <2>2. Decided'
    BY <1>1, <2>1 DEF Decided
  <2>3. CASE UNCHANGED <<lock, pc, localVars>>
    <3>1. Stage(p)'
      BY <1>3, <2>1, <2>3 DEF Stage, Reading, Restoring, Undecided, Overwriting, Written
    <3> QED
      BY <2>2, <2>3, <3>1 DEF SteadyAt
  <2> QED
    BY <1>4, <1>18, <2>1, <2>2, <2>3 DEF Sweep, At
<1>19. CASE Start(p) \/ Scan(p) \/ Check(p) \/ Decide(p) \/ Forward(p) \/ Uncommit(p)
  BY <1>19 DEF Start, Scan, Check, Decide, Forward, Uncommit, At, ApplyPlaces
<1> QED
  BY <1>5, <1>6, <1>7, <1>8, <1>9, <1>10, <1>11, <1>12, <1>13, <1>14, <1>15, <1>16, <1>17,
     <1>18, <1>19 DEF Step, RecoveryStep, ApplyStep

LEMMA SteadyKeeps ==
  ASSUME OneApplier, NEW p \in Proc, SteadyMove(p)
  PROVE  SteadyInv'
<1>1. Alone' /\ \A q \in Proc \ {p} : Same(q) /\ Stage(q)'
  BY SteadyOthers, BystanderStage, OneApplier
<1>2. SteadyAt(p)
  <2>1. pc[p] \in {"down", "scan"} \cup RecoveryPlaces \cup ApplyPlaces
    BY DEF SteadyMove, SteadyInv, TypeInv, Typed, Places
  <2>2. CASE Step(p) /\ pc[p] \in ApplyPlaces
    <3>1. p \in Applier
      BY <2>2 DEF SteadyMove, SteadyInv, TypeInv, DaemonsRecover, RecoveryPlaces, ApplyPlaces
    <3> QED
      BY <2>2, <3>1, ApplierSteady
  <2>3. CASE Step(p) /\ pc[p] \in {"down", "scan"} \cup RecoveryPlaces
    <3>1. ~ApplyStep(p)
      BY <2>3 DEF ApplyStep, CheckLock, WriteLock, Load, MakeDir, Begin, RecordPrior, StopEarly,
         PriorsDone, Copy, Copied, Fail, Undo, Undone, Checkout, Discarded, Abandon, Verified,
         Commit, Resave, LogCommit, MarkGoal, MarkApplied, Enqueue, At, RecoveryPlaces
    <3> QED
      BY <2>3, <3>1, RecovererSteady DEF Step
  <2>4. CASE Crash(p)
    <3>1. /\ pc'[p] = "down" /\ hand'[p] = NoFile
          /\ lock' = IF lock = p THEN "dead" ELSE lock
          /\ UNCHANGED <<file, status, queued, log>>
      BY <2>4 DEF Crash, Go, ClearLocals, projectVars, journalVars, SteadyMove, SteadyInv,
                  TypeInv, Typed
    <3>2. Decided' /\ Stage(p)' /\ pc'[p] \notin Holding
      BY <3>1, FreeStage DEF SteadyMove, SteadyInv, Decided, Free, Holding, ApplyPlaces
    <3>3. CASE p \in Applier
      <4>1. "dead" # p
        BY JournalAssumption DEF JournalAssumption
      <4> QED
        BY <3>1, <3>2, <3>3, <4>1 DEF SteadyAt
    <3>4. CASE p \notin Applier
      <4>1. lock # p /\ pc[p] \notin Holding
        BY <3>4, JournalAssumption
           DEF SteadyMove, SteadyInv, TypeInv, Typed, DaemonsRecover, JournalAssumption,
               Holding, ApplyPlaces, RecoveryPlaces
      <4> QED
        BY <3>1, <3>2, <4>1 DEF SteadyAt
    <3> QED
      BY <3>3, <3>4
  <2> QED
    BY <2>1, <2>2, <2>3, <2>4 DEF SteadyMove
<1>3. LockRight'
  <2>1. CASE p \in Applier /\ (lock' = p <=> pc'[p] \in Holding)
    BY <2>1, Sole, OneApplier
  <2>2. CASE UNCHANGED lock /\ (pc'[p] \in Holding <=> pc[p] \in Holding)
    BY <1>1, <2>2 DEF LockRight, Same, SteadyMove, SteadyInv, Proc
  <2> QED
    BY <1>2, <2>1, <2>2 DEF SteadyAt
<1> QED
  BY <1>1, <1>2, <1>3 DEF SteadyInv, SteadyMove, SteadyAt

LEMMA SteadyStep ==
  ASSUME OneApplier, CalmRecovery
  PROVE  SteadyInv /\ [Next]_vars => SteadyInv'
<1> SUFFICES ASSUME SteadyInv, [Next]_vars PROVE SteadyInv'
  OBVIOUS
<1>1. TypeInv'
  BY TypeStep DEF SteadyInv
<1>2. CASE Next
  <2>1. PICK p \in Proc : MayMove(p) /\ (Step(p) \/ Crash(p))
    BY <1>2 DEF Next
  <2>2. SteadyMove(p)
    BY <1>1, <2>1, CalmRecovery DEF SteadyMove, MayMove
  <2> QED
    BY <2>2, SteadyKeeps, OneApplier
<1>3. CASE UNCHANGED vars
  <2>1. LockRight' /\ Alone' /\ Decided'
    BY <1>3 DEF vars, SteadyInv, LockRight, Alone, Decided
  <2>2. \A q \in Proc : Stage(q)'
    BY <1>3 DEF vars, SteadyInv, Stage
  <2> QED
    BY <1>1, <2>1, <2>2 DEF SteadyInv
<1> QED
  BY <1>2, <1>3

LEMMA SteadyHolds ==
  ASSUME OneApplier, CalmRecovery
  PROVE  Spec => []SteadyInv
<1>1. Init => SteadyInv
  <2> SUFFICES ASSUME Init PROVE SteadyInv
    OBVIOUS
  <2>1. /\ status = "approved" /\ queued = FALSE /\ lock = "none"
        /\ \A q \in Proc : pc[q] = "down" /\ hand[q] = NoFile
    BY DEF Init
  <2>2. LockRight /\ Alone /\ Decided
    BY <2>1, JournalAssumption DEF LockRight, Alone, Decided, Holding, ApplyPlaces,
                                   RecoveryPlaces, JournalAssumption, Proc
  <2>3. \A q \in Proc : Stage(q)
    BY <2>1 DEF Stage, Reading, Restoring, Undecided, Overwriting, Written
  <2> QED
    BY <2>2, <2>3, TypeInit DEF SteadyInv
<1>2. SteadyInv /\ [Next]_vars => SteadyInv'
  BY SteadyStep, OneApplier, CalmRecovery
<1> QED
  BY <1>1, <1>2, PTL DEF Spec

(* MarkApplied is the commit point: before it every file is in place, and  *)
(* no rollback or recovery undoes a file of an Applied draft, whatever     *)
(* fails and however often processes die.                                  *)
THEOREM AppliedStaysWhole ==
  ASSUME OneApplier, CalmRecovery
  PROVE  Spec => []AppliedIsWhole
<1>1. SteadyInv => AppliedIsWhole
  BY DEF SteadyInv, Decided, AppliedIsWhole
<1> QED
  BY <1>1, SteadyHolds, OneApplier, CalmRecovery, PTL

(* enqueue_and_complete and the recovery queue the outside actions of an   *)
(* Applied draft before the journal goes, and of no other draft, whatever  *)
(* fails and however often processes die.                                  *)
THEOREM ActionsGoWithStatus ==
  ASSUME OneApplier, CalmRecovery
  PROVE  Spec => []ActionsFollowStatus
<1>1. SteadyInv => ActionsFollowStatus
  BY DEF SteadyInv, Decided, ActionsFollowStatus
<1> QED
  BY <1>1, SteadyHolds, OneApplier, CalmRecovery, PTL

(* recover_all of a daemon that starts leaves the files, the lock and the  *)
(* journal of a live apply alone; the apply itself moves on with each of   *)
(* its own writes.                                                         *)
THEOREM LiveApplyIsUndisturbed ==
  ASSUME OneApplier, CalmRecovery
  PROVE  Spec => LiveApplyUndisturbed
<1> DEFINE Undisturbed ==
      \A p \in Applier :
         (lock = p /\ log.begun /\ ~At(p, "close") /\ Stands(p))
            => UNCHANGED <<file, head, status, lock, dir, log, backup>>
<1>1. ASSUME SteadyInv, Next PROVE Undisturbed
  <2> SUFFICES ASSUME NEW p \in Applier, lock = p, log.begun, pc[p] # "close", Stands(p)
               PROVE  UNCHANGED <<file, head, status, lock, dir, log, backup>>
    BY DEF At
  <2> USE DEF projectVars, journalVars
  <2>1. PICK q \in Proc : Step(q) \/ Crash(q)
    BY <1>1 DEF Next
  <2>2. p \in Proc /\ pc[p] \in Holding \ {"close"} /\ TypeInv
    BY <1>1 DEF SteadyInv, LockRight, Proc
  <2>3. CASE q = p
    <3>0. pc'[p] = pc[p] /\ left'[p] = left[p] /\ hand'[p] = hand[p]
      BY DEF Stands
    <3>a. \A place : pc[p] # place => ~Go(p, place)
      BY <2>2, <3>0, PlaceAfter
    <3>b. ~Quit(p) /\ ~Recovered(p)
      BY <2>2, <3>a DEF Quit, Recovered, Holding, ApplyPlaces
    <3>c. \A place, paths : pc[p] # place => ~Loop(p, place, paths)
      BY <3>a DEF Loop
    <3>1. ~Crash(p) /\ ~Start(p)
      BY <2>2, <3>a DEF Crash, Start, At, Holding, ApplyPlaces
    <3>2. ~RecoveryStep(p)
      <4>1. \A f \in File : ~Restore(p, f)
        BY <2>2, <3>0 DEF Restore, TypeInv, Typed
      <4>2. ~Restored(p)
        BY <2>2, <3>a, <3>b DEF Restored, At, Holding, ApplyPlaces
      <4>3. ~Scan(p) /\ ~Check(p) /\ ~Decide(p) /\ ~Forward(p) /\ ~Uncommit(p) /\ ~Sweep(p)
        BY <2>2 DEF Scan, Check, Decide, Forward, Uncommit, Sweep, At, Holding, ApplyPlaces
      <4> QED
        BY <4>1, <4>2, <4>3 DEF RecoveryStep
    <3>3. ~ApplyStep(p)
      <4>1. ~CheckLock(p) /\ ~WriteLock(p) /\ ~Load(p) /\ ~MakeDir(p) /\ ~Begin(p)
        BY <2>2, <3>a, <3>b, <3>c
           DEF CheckLock, WriteLock, Load, MakeDir, Begin, At, Holding, ApplyPlaces
      <4>2. \A f \in File : ~RecordPrior(p, f)
        BY <2>2, <3>0 DEF RecordPrior, TypeInv, Typed
      <4>3. /\ ~PriorsDone(p) /\ ~Fail(p) /\ ~StopEarly(p) /\ ~Undone(p) /\ ~Abandon(p)
            /\ ~Discarded(p)
        BY <3>b, <3>c DEF PriorsDone, Fail, StopEarly, Undone, Abandon, Discarded, At
      <4>4. ~Copied(p) /\ ~Verified(p) /\ ~Commit(p) /\ ~Resave(p) /\ ~LogCommit(p)
            /\ ~MarkGoal(p) /\ ~MarkApplied(p) /\ ~Enqueue(p)
        BY <3>a, <3>b DEF Copied, Verified, Commit, Resave, LogCommit, MarkGoal, MarkApplied,
                          Enqueue, At
      <4>5. \A contents : ~Put(p, contents)
        BY <2>2, <3>0, JournalAssumption
           DEF Put, EndWrite, Remove, BeginWrite, TypeInv, Typed, JournalAssumption
      <4>6. ~Undo(p)
        BY <2>2, <3>0, <4>5 DEF Undo, TypeInv, Typed
      <4> QED
        BY <4>1, <4>2, <4>3, <4>4, <4>5, <4>6 DEF ApplyStep, Copy, Checkout
    <3> QED
      BY <2>1, <2>3, <3>1, <3>2, <3>3 DEF Step
  <2>4. CASE q # p
    <3>1. q \notin Applier
      BY <2>4, OneApplier DEF OneApplier
    <3> QED
      BY <1>1, <2>1, <2>2, <3>1, RecovererSpares
  <2> QED
    BY <2>3, <2>4
<1>2. SteadyInv /\ [Next]_vars => [Undisturbed]_vars
  BY <1>1
<1>3. Spec => [][Undisturbed]_vars
  BY <1>2, SteadyHolds, OneApplier, CalmRecovery, PTL DEF Spec
<1> QED
  BY <1>3 DEF LiveApplyUndisturbed
===============================================================================
