----------------------------- MODULE ApplyJournal -----------------------------
(***************************************************************************)
(* `ta draft apply' of one draft, and the recovery of an apply that died.  *)
(*                                                                         *)
(* crates/ta-actions/src/apply_journal.rs keeps a journal of what an apply *)
(* is about to overwrite; apps/ta-cli/src/commands/draft.rs drives it;     *)
(* `recover_all' runs in every `ta draft apply' before it takes the apply  *)
(* lock and in every daemon as it starts, and decides by the draft's       *)
(* durable status (crates/ta-actions/src/package_effects.rs) whether to    *)
(* finish the apply or to undo it.                                         *)
(*                                                                         *)
(* The process may die between any two writes.  A plain copy or write is   *)
(* two steps with a torn file between them; a staged copy and rename is    *)
(* one.  The journal file is represented by what read_state makes of it.   *)
(***************************************************************************)
EXTENDS Naturals, FiniteSets

CONSTANTS
    File,         \* the paths of the draft's artifacts
    Existed,      \* those that are in the project before the apply
    Deleted,      \* those that the draft deletes
    Tracked,      \* those that git tracks, if the project is a repository
    Applier,      \* processes that run `ta draft apply'
    Daemon,       \* processes that only recover, as they start
    LocalCommit,  \* is a local git commit part of the apply?
    CalmRecovery, \* does nobody else move while a process is recovering?
    Budgets,      \* bound: the combinations of faults explored
    NoFile        \* no file half written

FaultKinds == {"crash", "tear", "journal", "restore", "status", "enqueue", "early", "undo", "edits"}
Proc == Applier \cup Daemon

ASSUME JournalAssumption ==
    /\ IsFiniteSet(File) /\ NoFile \notin File
    /\ Existed \subseteq File /\ Deleted \subseteq Existed /\ Tracked \subseteq Existed
    /\ LocalCommit \in BOOLEAN /\ CalmRecovery \in BOOLEAN
    /\ Budgets \subseteq [FaultKinds -> Nat]
    /\ {"none", "dead"} \cap Proc = {}

VARIABLES
    dirty,   \* the tracked paths with edits that were never committed
    file,    \* contents of each path in the project
    head,    \* git HEAD: before the apply, or at the commit it made
    goal,    \* the goal run of the draft, in the goal store
    status,  \* the draft package file: the decision point
    queued,  \* are the draft's outside actions in the queue?
    lock,    \* .ta/apply.lock: "none", a live process, or a dead one
    dir,     \* does the journal directory of the draft exist?
    log,     \* what its journal.jsonl replays to
    backup,  \* its backups, "absent" where there is none
    pc,      \* where a process is
    left,    \* the paths its current loop has still to visit
    hand,    \* the path it has half written
    snap,    \* ApplyRollbackGuard.snapshots, in memory
    read,    \* the journal as the process read it
    failed,  \* has a step of the current loop failed?
    used     \* faults so far, of each kind; "edits" is 1 if there are any

projectVars == <<dirty, file, head, goal, status, queued>>
journalVars == <<dir, log, backup>>
localVars == <<left, hand, snap, read, failed>>
vars == <<dirty, file, head, goal, status, queued, lock, dir, log, backup, pc, left,
          hand, snap, read, failed, used>>

Contents == {"absent", "base", "old", "new", "torn"}
Logs == [begun : BOOLEAN, priors : SUBSET File, existed : SUBSET File, commit : BOOLEAN]
NoLog == [begun |-> FALSE, priors |-> {}, existed |-> {}, commit |-> FALSE]

RecoveryPlaces == {"check", "decide", "forward", "uncommit", "restore", "sweep"}
ApplyPlaces == {"lock", "write", "load", "mkdir", "begin", "prior", "copy", "verify",
                "commit", "resave", "resaved", "logcommit", "goal", "status", "enqueue",
                "undo", "checkout", "discard", "abandon", "close"}
Places == {"down", "scan"} \cup RecoveryPlaces \cup ApplyPlaces

Before == [f \in File |-> IF f \in Existed THEN "old" ELSE "absent"]
After == [f \in File |-> IF f \in Deleted THEN "absent" ELSE "new"]

(* The version of each path that git has in HEAD, "absent" if it has none. *)
AtHead ==
    IF head = "commit" THEN After
    ELSE [f \in File |-> IF f \in dirty THEN "base"
                         ELSE IF f \in Tracked THEN "old" ELSE "absent"]

(* What `git diff --name-only HEAD' lists.                                 *)
Strays == {f \in File : AtHead[f] # "absent" /\ file[f] # AtHead[f]}

Typed ==
    /\ dirty \subseteq Tracked
    /\ file \in [File -> Contents]
    /\ head \in {"prior", "commit"}
    /\ goal \in {"ready", "applied"}
    /\ status \in {"approved", "torn", "applied"}
    /\ queued \in BOOLEAN
    /\ lock \in {"none", "dead"} \cup Applier
    /\ dir \in BOOLEAN
    /\ log \in Logs
    /\ backup \in [File -> Contents]
    /\ pc \in [Proc -> Places]
    /\ left \in [Proc -> SUBSET File]
    /\ hand \in [Proc -> File \cup {NoFile}]
    /\ snap \in [Proc -> [File -> Contents]]
    /\ read \in [Proc -> Logs]
    /\ failed \in [Proc -> BOOLEAN]
    /\ used \in [FaultKinds -> Nat]

(* What is half written is being written: it belongs to a loop that writes *)
(* and has still to visit it.                                              *)
InHand ==
    \A p \in Proc : hand[p] # NoFile =>
       hand[p] \in left[p] /\ pc[p] \in {"copy", "undo", "checkout", "discard"}

(* The state is well formed, half-written files included: a process leaves *)
(* no loop, and no command, with one of its own writes still open.         *)
TypeOK == Typed /\ InHand

Init ==
    /\ dirty \in SUBSET Tracked
    /\ file = Before
    /\ head = "prior" /\ goal = "ready" /\ status = "approved"
    /\ queued = FALSE /\ lock = "none"
    /\ dir = FALSE /\ log = NoLog /\ backup = [f \in File |-> "absent"]
    /\ pc = [p \in Proc |-> "down"]
    /\ left = [p \in Proc |-> {}]
    /\ hand = [p \in Proc |-> NoFile]
    /\ snap = [p \in Proc |-> [f \in File |-> "absent"]]
    /\ read = [p \in Proc |-> NoLog]
    /\ failed = [p \in Proc |-> FALSE]
    /\ used = [k \in FaultKinds |-> IF k = "edits" /\ dirty # {} THEN 1 ELSE 0]
    /\ \E b \in Budgets : used["edits"] <= b["edits"]

-----------------------------------------------------------------------------
At(p, place) == pc[p] = place
Go(p, place) == pc' = [pc EXCEPT ![p] = place]

(* The process moves on and starts a loop over the given paths.            *)
Loop(p, place, paths) ==
    /\ Go(p, place)
    /\ left' = [left EXCEPT ![p] = paths]
    /\ failed' = [failed EXCEPT ![p] = FALSE]

Fault(kind) ==
    /\ used' = [used EXCEPT ![kind] = @ + 1]
    /\ \E b \in Budgets : \A k \in FaultKinds : used'[k] <= b[k]

ClearLocals(p) ==
    /\ left' = [left EXCEPT ![p] = {}]
    /\ hand' = [hand EXCEPT ![p] = NoFile]
    /\ snap' = [snap EXCEPT ![p] = [f \in File |-> "absent"]]
    /\ read' = [read EXCEPT ![p] = NoLog]
    /\ failed' = [failed EXCEPT ![p] = FALSE]

(* Recovery is over: a daemon runs on, an apply goes for the lock.         *)
Recovered(p) ==
    /\ Go(p, IF p \in Applier THEN "lock" ELSE "down")
    /\ ClearLocals(p)

(* The command ends, well or not; ApplyLock is dropped.                    *)
Quit(p) ==
    /\ Go(p, "down")
    /\ lock' = "none"
    /\ ClearLocals(p)

-----------------------------------------------------------------------------
(* Recovery: recover_all and recover_one.                                  *)

Start(p) ==
    /\ At(p, "down")
    /\ Go(p, "scan")
    /\ UNCHANGED <<projectVars, lock, journalVars, localVars, used>>

(* A directory without a Begin record is discarded; otherwise the journal  *)
(* is read, and only then is the lock looked at.                           *)
Scan(p) ==
    /\ At(p, "scan")
    /\ \/ ~dir /\ Recovered(p)
       \/ dir /\ ~log.begun /\ Go(p, "sweep") /\ UNCHANGED localVars
       \/ /\ dir /\ log.begun /\ Go(p, "check")
          /\ read' = [read EXCEPT ![p] = log]
          /\ UNCHANGED <<left, hand, snap, failed>>
    /\ UNCHANGED <<projectVars, lock, journalVars, used>>

(* Mutation: the apply lock is not looked at.                              *)
CheckIgnoresLock(p) ==
    /\ At(p, "check")
    /\ Go(p, "decide") /\ UNCHANGED localVars
    /\ UNCHANGED <<projectVars, lock, journalVars, used>>

(* apply_in_progress: the journal of a live apply is left alone.           *)
Check(p) ==
    /\ At(p, "check")
    /\ \/ lock \in Proc /\ Recovered(p)
       \/ lock \notin Proc /\ Go(p, "decide") /\ UNCHANGED localVars
    /\ UNCHANGED <<projectVars, lock, journalVars, used>>

(* Mutation: recovery decides by the goal store.                           *)
DecideByGoal(p) ==
    /\ At(p, "decide")
    /\ Loop(p, IF goal = "applied" THEN "forward" ELSE "uncommit", read[p].priors)
    /\ UNCHANGED <<projectVars, lock, journalVars, hand, snap, read, used>>

(* is_applied: the draft's durable status decides, if it can be read.      *)
Decide(p) ==
    /\ At(p, "decide")
    /\ \/ /\ status # "torn"
          /\ Loop(p, IF status = "applied" THEN "forward" ELSE "uncommit", read[p].priors)
          /\ UNCHANGED <<hand, snap, read, used>>
       \/ ((status = "torn" /\ UNCHANGED used) \/ Fault("restore")) /\ Recovered(p)
    /\ UNCHANGED <<projectVars, lock, journalVars>>

Forward(p) ==
    /\ At(p, "forward")
    /\ \/ queued' = TRUE /\ Go(p, "sweep") /\ UNCHANGED <<localVars, used>>
       \/ Fault("enqueue") /\ Recovered(p) /\ UNCHANGED queued
    /\ UNCHANGED <<dirty, file, head, goal, status, lock, journalVars>>

(* undo_local_commit: only a journaled commit, only while HEAD is still it. *)
Uncommit(p) ==
    /\ At(p, "uncommit")
    /\ \/ /\ head' = IF read[p].commit THEN "prior" ELSE head
          /\ Go(p, "restore") /\ UNCHANGED <<localVars, used>>
       \/ read[p].commit /\ Fault("restore") /\ Recovered(p) /\ UNCHANGED head
    /\ UNCHANGED <<dirty, file, goal, status, queued, lock, journalVars>>

(* restore_priors, for one path.  The paths are distinct, so the order in  *)
(* which they are restored tells nothing apart.                            *)
Restore(p, f) ==
    /\ pc[p] \in {"restore", "abandon"} /\ f \in left[p]
    /\ left' = [left EXCEPT ![p] = @ \ {f}]
    /\ \/ /\ f \in read[p].existed => backup[f] # "absent"
          /\ file' = [file EXCEPT ![f] = IF f \in read[p].existed THEN backup[f] ELSE "absent"]
          /\ UNCHANGED <<failed, used>>
       \/ /\ f \in read[p].existed /\ backup[f] = "absent"
          /\ failed' = [failed EXCEPT ![p] = TRUE]
          /\ UNCHANGED <<file, used>>
       \/ /\ Fault("restore")
          /\ failed' = [failed EXCEPT ![p] = TRUE]
          /\ UNCHANGED file
    /\ UNCHANGED <<dirty, head, goal, status, queued, lock, journalVars, pc, hand, snap, read>>

(* Mutation: the journal goes although a path could not be restored.       *)
RestoredAnyhow(p) ==
    /\ left[p] = {}
    /\ \/ At(p, "restore") /\ Go(p, "sweep")
       \/ At(p, "abandon") /\ Go(p, "close")
    /\ UNCHANGED <<projectVars, lock, journalVars, localVars, used>>

(* All restored: the journal goes.  Otherwise it is kept.                  *)
Restored(p) ==
    /\ left[p] = {}
    /\ \/ /\ At(p, "restore") /\ UNCHANGED lock
          /\ \/ failed[p] /\ Recovered(p)
             \/ ~failed[p] /\ Go(p, "sweep") /\ UNCHANGED localVars
       \/ /\ At(p, "abandon")
          /\ \/ failed[p] /\ Quit(p)
             \/ ~failed[p] /\ Go(p, "close") /\ UNCHANGED <<lock, localVars>>
    /\ UNCHANGED <<projectVars, journalVars, used>>

(* cleanup_dir: the directory is emptied in no particular order.           *)
Sweep(p) ==
    /\ pc[p] \in {"sweep", "close"}
    /\ \/ \E f \in File :
             /\ backup[f] # "absent"
             /\ backup' = [backup EXCEPT ![f] = "absent"]
             /\ UNCHANGED <<lock, dir, log, pc, localVars>>
       \/ /\ log # NoLog /\ log' = NoLog
          /\ UNCHANGED <<lock, dir, backup, pc, localVars>>
       \/ /\ log = NoLog /\ \A f \in File : backup[f] = "absent"
          /\ dir' = FALSE
          /\ \/ At(p, "sweep") /\ Recovered(p) /\ UNCHANGED lock
             \/ At(p, "close") /\ Quit(p)
          /\ UNCHANGED <<log, backup>>
    /\ UNCHANGED <<projectVars, used>>

-----------------------------------------------------------------------------
(* The apply.                                                              *)

(* ApplyLock::acquire looks first, removing a stale lock, ...              *)
CheckLock(p) ==
    /\ At(p, "lock")
    /\ \/ lock \in Proc /\ Go(p, "down") /\ UNCHANGED lock
       \/ lock \notin Proc /\ lock' = "none" /\ Go(p, "write")
    /\ UNCHANGED <<projectVars, journalVars, localVars, used>>

(* ... and writes its own afterwards.                                      *)
WriteLock(p) ==
    /\ At(p, "write")
    /\ lock' = p
    /\ Go(p, "load")
    /\ UNCHANGED <<projectVars, journalVars, localVars, used>>

(* A draft that cannot be read or is Applied, or whose goal cannot become  *)
(* Applied, is refused before anything is touched.                         *)
Load(p) ==
    /\ At(p, "load")
    /\ IF status # "approved" \/ goal = "applied"
         THEN Quit(p)
         ELSE Go(p, "mkdir") /\ UNCHANGED <<lock, localVars>>
    /\ UNCHANGED <<projectVars, journalVars, used>>

(* ApplyJournal::begin makes the directory, ...                            *)
MakeDir(p) ==
    /\ At(p, "mkdir")
    /\ dir' = TRUE
    /\ Go(p, "begin")
    /\ UNCHANGED <<projectVars, lock, log, backup, localVars, used>>

(* ... removes a journal that is still there and starts its own.           *)
Begin(p) ==
    /\ At(p, "begin")
    /\ \/ /\ dir
          /\ log' = [NoLog EXCEPT !.begun = TRUE]
          /\ Loop(p, "prior", File)
          /\ UNCHANGED <<lock, hand, snap, read, used>>
       \/ /\ (~dir /\ UNCHANGED used) \/ Fault("journal")
          /\ Loop(p, "discard", Strays)
          /\ UNCHANGED <<lock, hand, snap, read, log>>
    /\ UNCHANGED <<projectVars, dir, backup>>

(* The rules gate, the state directory or the staging is not there: the    *)
(* command stops, and the guard rolls back, with the journal if it is one  *)
(* that the guard has been given.                                          *)
StopEarly(p) ==
    /\ Fault("early")
    /\ \/ pc[p] \in {"mkdir", "begin"} /\ Loop(p, "discard", Strays)
       \/ At(p, "prior") /\ Loop(p, "undo", File \ left[p])
    /\ UNCHANGED <<projectVars, lock, journalVars, hand, snap, read>>

(* snapshot_file and record_prior: a copy in memory, one in the journal.   *)
RecordPrior(p, f) ==
    /\ At(p, "prior") /\ f \in left[p]
    /\ left' = [left EXCEPT ![p] = @ \ {f}]
    /\ snap' = [snap EXCEPT ![p][f] = file[f]]
    /\ \/ /\ dir
          /\ backup' = [backup EXCEPT ![f] = file[f]]
          /\ log' = [log EXCEPT !.priors = @ \cup {f},
                                !.existed = IF file[f] = "absent" THEN @ ELSE @ \cup {f}]
          /\ UNCHANGED <<failed, used>>
       \/ /\ (~dir /\ UNCHANGED used) \/ Fault("journal")
          /\ failed' = [failed EXCEPT ![p] = TRUE]
          /\ UNCHANGED <<backup, log>>
    /\ UNCHANGED <<projectVars, lock, dir, pc, hand, read>>

(* Mutation: files are overwritten while priors are still to be saved.     *)
PriorsDoneEarly(p) ==
    /\ At(p, "prior") /\ Cardinality(left[p]) <= 1
    /\ Loop(p, IF failed[p] THEN "undo" ELSE "copy", File)
    /\ UNCHANGED <<projectVars, lock, journalVars, hand, snap, read, used>>

(* ensure_journal_ok: nothing is overwritten unless all priors are saved.  *)
PriorsDone(p) ==
    /\ At(p, "prior") /\ left[p] = {}
    /\ Loop(p, IF failed[p] THEN "undo" ELSE "copy", File)
    /\ UNCHANGED <<projectVars, lock, journalVars, hand, snap, read, used>>

(* A write that is not atomic: the file is torn until it ends.             *)
BeginWrite(p, f) ==
    /\ hand[p] = NoFile
    /\ hand' = [hand EXCEPT ![p] = f]
    /\ file' = [file EXCEPT ![f] = "torn"]
    /\ UNCHANGED left

EndWrite(p, contents) ==
    /\ hand[p] # NoFile
    /\ file' = [file EXCEPT ![hand[p]] = contents[hand[p]]]
    /\ left' = [left EXCEPT ![p] = @ \ {hand[p]}]
    /\ hand' = [hand EXCEPT ![p] = NoFile]

Remove(p, f) ==
    /\ hand[p] = NoFile
    /\ file' = [file EXCEPT ![f] = "absent"]
    /\ left' = [left EXCEPT ![p] = @ \ {f}]
    /\ UNCHANGED hand

(* Puts one path into the given state: the overlay's copies and deletions, *)
(* and the rollback guard's, are plain ones.                               *)
Put(p, contents) ==
    /\ \/ EndWrite(p, contents)
       \/ \E f \in left[p] :
             IF contents[f] = "absent" THEN Remove(p, f) ELSE BeginWrite(p, f)
    /\ UNCHANGED <<dirty, head, goal, status, queued, lock, journalVars, pc, snap, read, failed>>

Copy(p) == At(p, "copy") /\ Put(p, After) /\ UNCHANGED used

(* Mutations: the loop over the artifacts stops one short, or it does not  *)
(* wait for the last of its writes.                                        *)
CopiedEarly(p) ==
    /\ At(p, "copy") /\ Cardinality(left[p]) <= 1 /\ hand[p] = NoFile
    /\ Go(p, "verify")
    /\ UNCHANGED <<projectVars, lock, journalVars, localVars, used>>

CopiedInFlight(p) ==
    /\ At(p, "copy") /\ left[p] \subseteq {hand[p]}
    /\ Go(p, "verify")
    /\ UNCHANGED <<projectVars, lock, journalVars, localVars, used>>

Copied(p) ==
    /\ At(p, "copy") /\ left[p] = {}
    /\ Go(p, "verify")
    /\ UNCHANGED <<projectVars, lock, journalVars, localVars, used>>

(* A copy, the verification or the commit fails: the guard rolls back.     *)
Fail(p) ==
    /\ pc[p] \in {"copy", "verify", "commit"}
    /\ Loop(p, "undo", File)
    /\ hand' = [hand EXCEPT ![p] = NoFile]
    /\ UNCHANGED <<projectVars, lock, journalVars, snap, read, used>>

(* The snapshots are written back, one that cannot be is warned of; ...    *)
Undo(p) ==
    /\ At(p, "undo")
    /\ \/ Put(p, snap[p]) /\ UNCHANGED used
       \/ /\ Fault("undo")
          /\ \E f \in left[p] :
                /\ hand[p] \in {f, NoFile}
                /\ left' = [left EXCEPT ![p] = @ \ {f}]
          /\ hand' = [hand EXCEPT ![p] = NoFile]
          /\ UNCHANGED <<projectVars, lock, journalVars, pc, snap, read, failed>>

Undone(p) ==
    /\ At(p, "undo") /\ left[p] = {}
    /\ Loop(p, "checkout", Strays)
    /\ UNCHANGED <<projectVars, lock, journalVars, hand, snap, read, used>>

(* ... `git checkout HEAD' then follows for whatever differs from HEAD,    *)
(* with no regard to who made it differ; where git fails that is warned of *)
(* (or the project is no repository), and the rest is left as it is.       *)
Checkout(p) == pc[p] \in {"checkout", "discard"} /\ Put(p, AtHead) /\ UNCHANGED used

(* No journal was attached to the guard, so there is nothing else to do.   *)
Discarded(p) ==
    /\ At(p, "discard") /\ hand[p] = NoFile
    /\ Quit(p)
    /\ UNCHANGED <<projectVars, journalVars, used>>

(* abandon_after_rollback restores once more, from the journal; one that   *)
(* cannot be read is closed all the same.                                  *)
Abandon(p) ==
    /\ At(p, "checkout") /\ hand[p] = NoFile
    /\ \/ /\ Loop(p, "abandon", log.priors) /\ UNCHANGED used
          /\ read' = [read EXCEPT ![p] = log]
       \/ Fault("restore") /\ Loop(p, "close", {}) /\ UNCHANGED read
    /\ UNCHANGED <<projectVars, lock, journalVars, hand, snap>>

Verified(p) ==
    /\ At(p, "verify")
    /\ Go(p, IF LocalCommit THEN "commit" ELSE "goal")
    /\ UNCHANGED <<projectVars, lock, journalVars, localVars, used>>

Commit(p) ==
    /\ At(p, "commit")
    /\ head' = "commit"
    /\ Go(p, "resave")
    /\ UNCHANGED <<dirty, file, goal, status, queued, lock, journalVars, localVars, used>>

(* The package is saved again, with the commit in it, by a plain write.    *)
Resave(p) ==
    /\ \/ At(p, "resave") /\ status' = "torn" /\ Go(p, "resaved")
       \/ At(p, "resaved") /\ status' = "approved" /\ Go(p, "logcommit")
    /\ UNCHANGED <<dirty, file, head, goal, queued, lock, journalVars, localVars, used>>

(* journal_local_commit follows the commit; if it fails that is logged.    *)
LogCommit(p) ==
    /\ At(p, "logcommit")
    /\ Go(p, "goal")
    /\ \/ log' = (IF dir THEN [log EXCEPT !.commit = TRUE] ELSE log) /\ UNCHANGED used
       \/ Fault("journal") /\ UNCHANGED log
    /\ UNCHANGED <<projectVars, lock, dir, backup, localVars>>

(* The guard is committed, and the goal is persisted as Applied (a failure *)
(* is a warning) ...                                                       *)
MarkGoal(p) ==
    /\ At(p, "goal")
    /\ \/ goal' = "applied" /\ UNCHANGED used
       \/ Fault("status") /\ UNCHANGED goal
    /\ Go(p, "status")
    /\ UNCHANGED <<dirty, file, head, status, queued, lock, journalVars, localVars>>

(* ... before the draft is: one atomic replace, the commit point.          *)
MarkApplied(p) ==
    /\ At(p, "status")
    /\ \/ status' = "applied" /\ Go(p, "enqueue") /\ UNCHANGED <<lock, localVars, used>>
       \/ Fault("status") /\ Quit(p) /\ UNCHANGED status
    /\ UNCHANGED <<dirty, file, head, goal, queued, journalVars>>

(* Mutation: the journal is closed although the actions are not queued.    *)
EnqueueThenClose(p) ==
    /\ At(p, "enqueue")
    /\ \/ queued' = (log.begun \/ queued) /\ UNCHANGED used
       \/ Fault("enqueue") /\ UNCHANGED queued
    /\ Go(p, "close")
    /\ UNCHANGED <<dirty, file, head, goal, status, lock, journalVars, localVars>>

(* enqueue_and_complete: the actions come from the journal; when they      *)
(* cannot be queued the journal is kept.                                   *)
Enqueue(p) ==
    /\ At(p, "enqueue")
    /\ \/ /\ queued' = (log.begun \/ queued) /\ UNCHANGED used
          /\ \/ dir /\ Go(p, "close") /\ UNCHANGED <<lock, localVars>>
             \/ ~dir /\ Quit(p)
       \/ Fault("enqueue") /\ Quit(p) /\ UNCHANGED queued
    /\ UNCHANGED <<dirty, file, head, goal, status, journalVars>>

(* The process dies.  Its lock file stays, naming a dead process.  A death *)
(* in the middle of the plain write of the package is counted apart.       *)
Crash(p) ==
    /\ Fault(IF At(p, "resaved") THEN "tear" ELSE "crash")
    /\ pc[p] # "down"
    /\ Go(p, "down")
    /\ lock' = IF lock = p THEN "dead" ELSE lock
    /\ ClearLocals(p)
    /\ UNCHANGED <<projectVars, journalVars>>

-----------------------------------------------------------------------------
RecoveryStep(p) ==
    \/ Scan(p) \/ Check(p) \/ Decide(p) \/ Forward(p) \/ Uncommit(p)
    \/ \E f \in File : Restore(p, f)
    \/ Restored(p) \/ Sweep(p)

ApplyStep(p) ==
    \/ CheckLock(p) \/ WriteLock(p) \/ Load(p) \/ MakeDir(p) \/ Begin(p)
    \/ \E f \in File : RecordPrior(p, f)
    \/ StopEarly(p) \/ PriorsDone(p) \/ Copy(p) \/ Copied(p) \/ Fail(p)
    \/ Undo(p) \/ Undone(p) \/ Checkout(p) \/ Discarded(p) \/ Abandon(p)
    \/ Verified(p) \/ Commit(p) \/ Resave(p) \/ LogCommit(p) \/ MarkGoal(p) \/ MarkApplied(p)
    \/ Enqueue(p)

Step(p) == Start(p) \/ RecoveryStep(p) \/ ApplyStep(p)

(* `concurrently with nothing else applying' (apply_journal.rs:581), which *)
(* no code enforces: the apply recovers before it takes the lock.  Nor, in *)
(* calm, does a recovery come upon a directory whose Begin record is being *)
(* written, which it would discard whoever holds the lock.                 *)
MayMove(p) ==
    CalmRecovery =>
       \A q \in Proc \ {p} :
          pc[q] \notin RecoveryPlaces /\ ~(At(p, "scan") /\ At(q, "begin"))

Next == \E p \in Proc : MayMove(p) /\ (Step(p) \/ Crash(p))

Spec == Init /\ [][Next]_vars

(* A process that runs keeps running until it dies, and TA is used again.  *)
Fairness == \A p \in Proc : WF_vars(Step(p))

FairSpec == Spec /\ Fairness

-----------------------------------------------------------------------------
(* What the journal promises.                                              *)

Finished == status = "applied" /\ file = After /\ queued
Untouched == status = "approved" /\ file = Before /\ ~queued
AtRest == ~log.begun /\ \A p \in Proc : At(p, "down")

(* A crash at ANY step leaves either the fully applied state or the fully  *)
(* rolled back state, never a mix (apply_journal.rs:30): when no journal   *)
(* is left to recover from, files, status and queue agree.                 *)
AllOrNothing == AtRest => Finished \/ Untouched

(* Until the draft is Applied the contents every path had before the apply *)
(* can still be had: they are in place, or in a backup that the journal    *)
(* names, or with the guard that is putting them back.  No second apply    *)
(* takes what a first one left for the original, and nothing that was      *)
(* never committed is lost to the git checkout of a rollback.              *)
OriginalsKept ==
    status # "applied" =>
       \A f \in File :
          \/ file[f] = Before[f]
          \/ \E p \in Applier : At(p, "undo") /\ snap[p][f] = Before[f]
          \/ /\ f \in log.priors
             /\ (f \in log.existed) = (f \in Existed)
             /\ f \in Existed => backup[f] = "old"

(* The status is the single decision point: whatever dies or is recovered  *)
(* afterwards, an Applied draft keeps all its files.                       *)
AppliedIsWhole == status = "applied" => file = After

(* The outside actions go with the status: none is queued for a draft that *)
(* is not Applied, and none is lost for one that is, since the journal     *)
(* stays until they are queued.                                            *)
ActionsFollowStatus ==
    IF status = "applied" THEN queued \/ log.begun ELSE ~queued

(* Recovery must never touch a journal that is still in use, nor the files *)
(* of the apply that uses it (apply_journal.rs:543).                       *)
Stands(p) == pc'[p] = pc[p] /\ left'[p] = left[p] /\ hand'[p] = hand[p]

LiveApplyUndisturbed ==
    [][\A p \in Applier :
         (lock = p /\ log.begun /\ ~At(p, "close") /\ Stands(p))
            => UNCHANGED <<file, head, status, lock, dir, log, backup>>]_vars

(* If TA, the machine or the terminal dies partway, the next apply or      *)
(* daemon start finishes or undoes the apply (docs/USAGE.md:8536): the     *)
(* project never stays mixed.                                              *)
Converges == []<>(Finished \/ Untouched)

(* The file changes, the local commit and the Applied status land together *)
(* (docs/USAGE.md:8536).                                                   *)
CommitLandsWithStatus == AtRest => (head = "commit") = (status = "applied")

(* Re-running `ta draft apply <id>' is the resume (docs/USAGE.md:8955): a  *)
(* draft that was rolled back is one that the next apply takes.            *)
RerunIsTheResume == AtRest /\ status = "approved" => goal = "ready"

(* If the journal cannot be written the apply stops, with nothing changed  *)
(* (draft.rs:7819).                                                        *)
NothingChanged == \A p \in Applier : At(p, "discard") => file = Before

(* The draft's file is replaced atomically, never torn (draft.rs:11651):   *)
(* recovery can always tell whether to finish the apply or to undo it.     *)
RecoveryCanDecide == \A p \in Proc : At(p, "decide") => status # "torn"
===============================================================================
