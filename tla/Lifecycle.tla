------------------------------ MODULE Lifecycle ------------------------------
(***************************************************************************)
(* The daemon that updates itself when idle: the periodic check            *)
(* (ta-daemon/src/self_update.rs over ta-lifecycle), the restart guard it  *)
(* keeps on disk, the detached `ta daemon restart` that it hands over to,  *)
(* and the work the daemon must not be restarted under.                    *)
(*                                                                         *)
(* A person who runs `ta daemon restart` runs the same helper, without the *)
(* check and its guard.  A build is what compare_builds tells apart.  Time *)
(* is the order in which waits end: `cooled` says the backoff is over.     *)
(*                                                                         *)
(* Two look-ups meet here.  The check compares the running build with the  *)
(* `ta-daemon' beside the daemon's own file (self_update.rs:264); a helper *)
(* starts the one beside its `ta', which may be a `ta' of the PATH         *)
(* (web.rs:1023, version_guard.rs:122).  So what is started need not be    *)
(* what the check calls installed, and the daemon may, after any number of *)
(* restarts, still report another build: what the guard is for             *)
(* (guard.rs:3).                                                           *)
(***************************************************************************)
EXTENDS Naturals

CONSTANTS
    Builds,
    Broken,       \* builds that exit as soon as they are started
    Mode,         \* [daemon] auto_update, as it applies to this platform
    MaxAttempts,  \* DEFAULT_MAX_ATTEMPTS
    Launch,       \* wake launches: counted by every snapshot, run in the daemon
    Session,      \* agent sessions in recent use: counted by the check alone
    Outside,      \* goals and applies: counted, and run in processes of their own
    Helper,       \* bound: `ta daemon restart` processes at a time
    MaxInstalls,  \* bound: builds installed
    MaxManual,    \* bound: restarts a person asks for
    MaxFaults,    \* bound: calls and processes that fail
    Faults,       \* bound: what may fail
    NoBuild

FaultKinds == {"read", "record", "torn", "spawn", "poll", "die", "crash"}

Work == Launch \cup Session \cup Outside

ASSUME LifecycleAssumption ==
    /\ NoBuild \notin Builds /\ Broken \subseteq Builds /\ Builds \ Broken # {}
    /\ Mode \in {"when_idle", "ask", "never"}
    /\ MaxAttempts \in Nat \ {0}
    /\ Launch \cap (Session \cup Outside) = {} /\ Session \cap Outside = {}
    /\ MaxInstalls \in Nat /\ MaxManual \in Nat /\ MaxFaults \in Nat
    /\ Faults \subseteq FaultKinds

VARIABLES
    daemon,    \* the process: up, dying (asked by a signal to end) or down
    running,   \* the build it runs, or ran last
    installed, \* the build `ta-daemon --version' reports to the check
    found,     \* the build a helper finds and starts
    target, attempts, \* the guard file
    cooled,    \* its backoff is over
    check,     \* where the check is
    work,      \* the work under way
    helper,    \* where each helper is
    began,     \* history: launches begun since each helper was started or last looked
    row,       \* history: restarts handed over for the installed build since a check
               \* last found it running
    excused,   \* history: something that ends the daemon for good went wrong
    installs, manual, faults

guard == <<target, attempts, cooled>>
bounds == <<installs, manual, faults>>
vars == <<daemon, running, installed, found, target, attempts, cooled, check, work,
          helper, began, row, excused, installs, manual, faults>>

TypeOK ==
    /\ daemon \in {"up", "dying", "down"}
    /\ running \in Builds /\ installed \in Builds /\ found \in Builds
    /\ target \in Builds \cup {NoBuild} /\ attempts \in 0..MaxAttempts
    /\ cooled \in BOOLEAN
    /\ check \in {"wait", "busy", "idle", "spawn"}
    /\ work \subseteq Work
    /\ helper \in [Helper -> {"none", "drain", "stop", "exit", "start"}]
    /\ began \in [Helper -> SUBSET Launch]
    /\ row \in Nat
    /\ excused \in BOOLEAN
    /\ installs \in 0..MaxInstalls /\ manual \in 0..MaxManual /\ faults \in 0..MaxFaults

Init ==
    /\ daemon = "up"
    /\ running \in Builds \ Broken /\ installed = running /\ found \in Builds
    /\ target = NoBuild /\ attempts = 0 /\ cooled = TRUE
    /\ check = "wait" /\ work = {}
    /\ helper = [h \in Helper |-> "none"] /\ began = [h \in Helper |-> {}]
    /\ row = 0 /\ excused = FALSE
    /\ installs = 0 /\ manual = 0 /\ faults = 0

-----------------------------------------------------------------------------
Breaks(kind) == kind \in Faults /\ faults < MaxFaults /\ faults' = faults + 1

Stale == running # installed

(* evaluate: the attempt that would be next, if there is one.  The count   *)
(* is of the build last tried for.                                         *)
Untried == target # installed \/ attempts = 0
(* Mutation: one attempt more than the cap.                                *)
MayTryOnceMore == Untried \/ (attempts <= MaxAttempts /\ cooled)

MayTry == Untried \/ (attempts < MaxAttempts /\ cooled)
NextAttempt == IF Untried THEN 1 ELSE attempts + 1

-----------------------------------------------------------------------------
(* What goes on around the daemon.                                         *)

(* Where the helper looks is the same place, or another one.               *)
Install(b) ==
    /\ b # installed /\ installs < MaxInstalls
    /\ installed' = b /\ found' \in {found, b} /\ installs' = installs + 1
    /\ row' = 0
    /\ UNCHANGED <<daemon, running, guard, check, work, helper, began, excused, manual, faults>>

Begin(w) ==
    /\ w \notin work
    /\ w \in Launch \cup Session => daemon = "up"
    /\ work' = work \cup {w}
    /\ began' = [h \in Helper |-> began[h] \cup ({w} \cap Launch)]
    /\ UNCHANGED <<daemon, running, installed, found, guard, check, helper, row, excused, bounds>>

End(w) ==
    /\ w \in work
    /\ work' = work \ {w}
    /\ UNCHANGED <<daemon, running, installed, found, guard, check, helper, began, row, excused, bounds>>

Cool ==
    /\ ~cooled
    /\ cooled' = TRUE
    /\ UNCHANGED <<daemon, running, installed, found, target, attempts, check, work,
                   helper, began, row, excused, bounds>>

-----------------------------------------------------------------------------
(* check_once: the snapshot is taken first, ...                            *)
Look ==
    /\ daemon = "up" /\ Mode # "never"
    /\ check = "wait"
    /\ check' = IF work = {} THEN "idle" ELSE "busy"
    /\ UNCHANGED <<daemon, running, installed, found, guard, work, helper, began, row, excused, bounds>>

NotNow == check' = "wait" /\ UNCHANGED guard

(* ... then run_update_check works with it, on a blocking thread.          *)
UpToDate ==
    /\ ~Stale
    /\ target' = NoBuild /\ attempts' = 0 /\ cooled' = TRUE /\ check' = "wait"
    /\ row' = 0 /\ UNCHANGED faults

(* Mutation: what was seen once is not looked at again.                    *)
WaitsOnOldSnapshot ==
    /\ Stale
    /\ Mode # "when_idle" \/ check = "busy" \/ ~MayTry
    /\ check' = check /\ UNCHANGED guard /\ UNCHANGED faults

Waits ==
    /\ Stale
    /\ Mode # "when_idle" \/ check = "busy" \/ ~MayTry
    /\ NotNow /\ UNCHANGED faults

(* The attempt is on disk before anything is restarted; when it cannot be  *)
(* written nothing is.  A write that fails half way leaves no attempts.    *)
Records ==
    /\ Stale /\ Mode = "when_idle" /\ check = "idle" /\ MayTry
    /\ \/ /\ target' = installed /\ attempts' = NextAttempt
          /\ cooled' = FALSE /\ check' = "spawn" /\ UNCHANGED faults
       \/ NotNow /\ Breaks("record")
       \/ /\ Breaks("torn")
          /\ target' = NoBuild /\ attempts' = 0 /\ cooled' = TRUE /\ check' = "wait"

Decide ==
    /\ daemon = "up" /\ check \in {"busy", "idle"}
    /\ \/ UpToDate
       \/ Waits /\ UNCHANGED row
       \/ Records /\ UNCHANGED row
       \/ NotNow /\ Breaks("read") /\ UNCHANGED row
    /\ UNCHANGED <<daemon, running, installed, found, work, helper, began, excused, installs, manual>>

Spawn ==
    /\ daemon = "up" /\ check = "spawn"
    /\ check' = "wait"
    /\ \/ /\ \E h \in Helper :
                /\ helper[h] = "none" /\ helper' = [helper EXCEPT ![h] = "drain"]
                /\ began' = [began EXCEPT ![h] = {}]
          /\ row' = IF target = installed THEN row + 1 ELSE row
          /\ UNCHANGED faults
       \/ Breaks("spawn") /\ UNCHANGED <<helper, began, row>>
    /\ UNCHANGED <<daemon, running, installed, found, guard, work, excused, installs, manual>>

-----------------------------------------------------------------------------
(* `ta daemon restart`.                                                    *)

Goto(h, step) == helper' = [helper EXCEPT ![h] = step]

Manual(h) ==
    /\ helper[h] = "none" /\ manual < MaxManual
    /\ manual' = manual + 1
    /\ Goto(h, "drain") /\ began' = [began EXCEPT ![h] = {}]
    /\ UNCHANGED <<daemon, running, installed, found, guard, check, work, row, excused, installs, faults>>

(* Mutation: after 30 seconds the daemon is stopped anyhow.                *)
DrainThenForce(h) ==
    /\ helper[h] = "drain"
    /\ Goto(h, "stop")
    /\ began' = IF work \cap (Launch \cup Outside) = {} THEN [began EXCEPT ![h] = {}] ELSE began
    /\ UNCHANGED faults
    /\ UNCHANGED <<daemon, running, installed, found, guard, check, work, row, excused, installs, manual>>

(* drain_and_poll: on until a poll finds no work, or finds nobody to ask;  *)
(* after 30 seconds of work the restart is given up.                       *)
Drain(h) ==
    /\ helper[h] = "drain"
    /\ \/ /\ daemon # "up" \/ work \cap (Launch \cup Outside) = {}
          /\ Goto(h, "stop") /\ began' = [began EXCEPT ![h] = {}]
          /\ UNCHANGED faults
       \/ /\ daemon = "up" /\ work \cap (Launch \cup Outside) # {}
          /\ Goto(h, "none") /\ UNCHANGED <<began, faults>>
       \/ /\ Breaks("poll")
          /\ Goto(h, "stop") /\ began' = [began EXCEPT ![h] = {}]
    /\ UNCHANGED <<daemon, running, installed, found, guard, check, work, row, excused, installs, manual>>

(* stop_with: the shutdown request makes the process exit at once, under   *)
(* whatever it runs.  Refused (no credential, or the second one within a   *)
(* minute) or unanswered, it is followed by a signal, and a daemon that    *)
(* gets it waits for its launches and its open requests.                   *)
Stop(h) ==
    /\ helper[h] = "stop"
    /\ \/ /\ daemon = "up"
          /\ daemon' = "down" /\ work' = work \cap Outside /\ check' = "wait"
          /\ Goto(h, "start")
       \/ /\ daemon # "down"
          /\ daemon' = "dying" /\ check' = "wait" /\ UNCHANGED work
          /\ Goto(h, "exit")
       \/ /\ daemon = "down"
          /\ Goto(h, "start") /\ UNCHANGED <<daemon, work, check>>
    /\ UNCHANGED <<running, installed, found, guard, began, row, excused, bounds>>

DaemonExits ==
    /\ daemon = "dying" /\ work \cap Launch = {}
    /\ daemon' = "down" /\ work' = work \cap Outside
    /\ UNCHANGED <<running, installed, found, guard, check, helper, began, row, excused, bounds>>

(* Mutation: after five seconds it starts without a last look.             *)
AwaitExitBlindly(h) ==
    /\ helper[h] = "exit"
    /\ Goto(h, "start")
    /\ UNCHANGED <<daemon, running, installed, found, guard, check, work, began, row, excused, bounds>>

(* Five seconds for the process to go; if it does not the restart ends in  *)
(* an error, and the daemon still goes.                                    *)
AwaitExit(h) ==
    /\ helper[h] = "exit"
    /\ \/ daemon # "dying" /\ Goto(h, "start") /\ UNCHANGED excused
       \/ daemon = "dying" /\ Goto(h, "none") /\ excused' = TRUE
    /\ UNCHANGED <<daemon, running, installed, found, guard, check, work, began, row, bounds>>

(* Mutation: the guard is kept in memory and goes with the process.        *)
RunsForgetful(b) ==
    /\ daemon' = "up" /\ running' = b /\ excused' = FALSE
    /\ installed' \in {installed, b}
    /\ row' = IF installed' = installed THEN row ELSE 0
    /\ target' = NoBuild /\ attempts' = 0 /\ cooled' = TRUE

(* A daemon of build b comes up.  Its check looks where the last one did   *)
(* (beside a file that was reached by a link or a script), or beside b.    *)
(* The guard file is as it was.                                            *)
Runs(b) ==
    /\ daemon' = "up" /\ running' = b /\ excused' = FALSE
    /\ installed' \in {installed, b}
    /\ row' = IF installed' = installed THEN row ELSE 0
    /\ UNCHANGED guard

(* start_with_binary: refused while a daemon lives; the binary the helper  *)
(* finds, installed or not, which may exit at once.                        *)
Start(h) ==
    /\ helper[h] = "start"
    /\ Goto(h, "none")
    /\ \/ daemon # "down" /\ UNCHANGED <<daemon, running, installed, guard, row, excused>>
       \/ /\ daemon = "down" /\ found \in Broken
          /\ excused' = TRUE /\ UNCHANGED <<daemon, running, installed, guard, row>>
       \/ daemon = "down" /\ found \notin Broken /\ Runs(found)
    /\ UNCHANGED <<found, check, work, began, bounds>>

(* A daemon that is down is started again: `ta daemon start', `ta shell',  *)
(* or the launch unit of `ta daemon install' (KeepAlive, Restart).         *)
Revive(b) ==
    /\ daemon = "down" /\ b \in {installed, found} \ Broken
    /\ Runs(b)
    /\ UNCHANGED <<found, check, work, helper, began, bounds>>

Die(h) ==
    /\ helper[h] # "none" /\ Breaks("die")
    /\ Goto(h, "none")
    /\ excused' = (daemon # "up")
    /\ UNCHANGED <<daemon, running, installed, found, guard, check, work, began, row, installs, manual>>

Crash ==
    /\ daemon # "down" /\ Breaks("crash")
    /\ daemon' = "down" /\ work' = work \cap Outside /\ check' = "wait"
    /\ excused' = TRUE
    /\ UNCHANGED <<running, installed, found, guard, helper, began, row, installs, manual>>

-----------------------------------------------------------------------------
Next ==
    \/ \E b \in Builds : Install(b)
    \/ \E w \in Work : Begin(w) \/ End(w)
    \/ Cool \/ Look \/ Decide \/ Spawn
    \/ \E h \in Helper :
          Manual(h) \/ Drain(h) \/ Stop(h) \/ AwaitExit(h) \/ Start(h) \/ Die(h)
    \/ DaemonExits
    \/ \E b \in Builds : Revive(b)
    \/ Crash

Helps(h) == Drain(h) \/ Stop(h) \/ AwaitExit(h) \/ Start(h)

(* Timers fire and processes that can go on do.  Work may last for ever.   *)
Fairness ==
    /\ WF_vars(Look \/ Decide \/ Spawn) /\ WF_vars(Cool)
    /\ \A h \in Helper : WF_vars(Helps(h))

Spec == Init /\ [][Next]_vars
FairSpec == Spec /\ Fairness

-----------------------------------------------------------------------------
(* For an installed build at most MaxAttempts restarts are handed over     *)
(* until a check finds it running (record_attempt before restart,          *)
(* update.rs:299): through restarts that do not converge, builds that exit *)
(* at once and daemons that are started again, crashes, dying helpers and  *)
(* restarts by hand, as long as no write of the guard is torn.             *)
RestartCap == row <= MaxAttempts

(* A launch that a restart cuts short began after the helper's last look   *)
(* (drain_then_restart, drain.rs:321; WAKE_LAUNCHES, wake_listener.rs:553),*)
(* as long as every poll is answered.                                      *)
CutsOnlyTheUnseen ==
    [][\A h \in Helper :
          (helper[h] = "stop" /\ helper'[h] # "stop" /\ daemon = "up" /\ daemon' # "up")
              => work \cap Launch \subseteq began[h]]_vars

(* No restart, and no two that meet, leave the project without a daemon,   *)
(* unless a build was broken, an exit was slow or a process died           *)
(* (restart_with, daemon.rs:877).                                          *)
DownForCause ==
    daemon # "up" => (excused \/ \E h \in Helper : helper[h] \in {"exit", "start"})

(* Once work has ended and nothing more is installed, the daemon runs what *)
(* its check calls installed, or every attempt was used, or something      *)
(* ended the daemon (run_update_check, update.rs:235); provided that, in   *)
(* the end, a backoff of five minutes or more outlives the helper before   *)
(* it, which gives up after half a minute.                                 *)
GaveUp == target = installed /\ attempts = MaxAttempts
HelpersEndFirst ==
    <>[][Cool => check # "spawn" /\ \A h \in Helper : helper[h] = "none"]_vars
Settles ==
    (Mode = "when_idle" /\ <>[](work = {}) /\ HelpersEndFirst)
        => <>[](~Stale \/ GaveUp \/ excused)
===============================================================================
