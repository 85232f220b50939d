------------------------------ MODULE TeamSession ------------------------------
(***************************************************************************)
(* One team session of the daemon: the supervisor that rotates through its *)
(* stages (ta-daemon/src/team_session.rs), its wake-on-demand listeners as *)
(* far as they touch the session's state (wake_listener.rs), and the       *)
(* commands that write signals (ta-cli team_session.rs).                   *)
(*                                                                         *)
(* All of them share one file, state.json, without a lock: each reads it   *)
(* whole, keeps it in memory across a launch, and writes it back whole.    *)
(* A write opens the file, which empties it, and then fills it.            *)
(*                                                                         *)
(* Time is the order in which sleeps and launches end.                     *)
(***************************************************************************)
EXTENDS Naturals, FiniteSets

CONSTANTS
    Listener,
    NumStages,    \* stages of the rotation
    NumKeys,      \* the streams each listener reads in a round
    MaxFails,     \* SUSPEND_FAILURE_COUNT
    MaxCommands,  \* bound: signals sent
    MaxCrashes,   \* bound: how often the daemon dies
    MaxFaults,    \* bound: calls that fail
    Faults,       \* bound: the calls that may fail
    Absent, Empty, Mixed

FaultKinds == {"consume", "save", "context", "report"}

ASSUME SessionAssumption ==
    /\ IsFiniteSet(Listener)
    /\ NumStages \in Nat /\ NumKeys \in Nat \ {0} /\ MaxFails \in Nat \ {0}
    /\ MaxCommands \in Nat /\ MaxCrashes \in Nat /\ MaxFaults \in Nat
    /\ Faults \subseteq FaultKinds

Statuses == {"Active", "Paused", "Suspended", "Stopped"}
Signals == {"pause", "resume", "stop", "restart"}

States == [status : Statuses, stage : 0..NumStages]
State(status, stage) == [status |-> status, stage |-> stage]
Fresh == State("Active", 0)

(* Not there; opened and not yet filled; the rest of a longer write under  *)
(* a shorter one.  None of the three can be read.                          *)
Unreadable == {Absent, Empty, Mixed}
ASSUME UnreadableAssumption ==
    /\ Unreadable \cap States = {}
    /\ Absent # Empty /\ Absent # Mixed /\ Empty # Mixed

VARIABLES
    file,     \* state.json
    starting, \* the start command has opened the file and not filled it
    signals,  \* the signal files
    known,    \* the discovery loop has seen the session
    at,       \* where the supervisor is
    mem,      \* the state its cycle works on
    then,     \* where it goes after a save
    fails,    \* the FailureTracker it keeps between cycles
    tally,    \* the tracker of the running cycle
    lat,      \* where each listener is
    lmem,     \* the state its launch loaded
    left,     \* the streams it is still to read in this round
    stopped,  \* history: Stopped was written
    undone,   \* history: a listener wrote another status over Stopped
    streak,   \* history: goal-runs that failed in a row, up to MaxFails
    late,     \* history: launches of each listener since the session became inactive
    commands, crashes, faults

fileVars == <<file, starting, signals>>
supVars == <<at, mem, then, fails, tally>>
lisVars == <<lat, lmem, left>>
history == <<stopped, undone, streak, late>>
bounds == <<commands, crashes, faults>>
vars == <<file, starting, signals, known, at, mem, then, fails, tally, lat, lmem, left,
          stopped, undone, streak, late, commands, crashes, faults>>

Cycle == {"stop", "stopped", "suspended", "pause", "paused", "stage", "run", "won", "lost", "done"}
AfterSave == {"stopped", "pause", "paused", "stage", "won", "lost", "done"}
Saving == {"save", "write"}
Places == Cycle \cup Saving \cup {"none", "sleep", "gone"}
ListenerPlaces == {"none", "gate", "armed", "run", "save", "write", "gone"}

TypeOK ==
    /\ file \in States \cup Unreadable
    /\ starting \in BOOLEAN
    /\ signals \subseteq Signals
    /\ known \in BOOLEAN
    /\ at \in Places
    /\ mem \in States
    /\ then \in AfterSave
    /\ fails \in 0..MaxFails /\ tally \in 0..MaxFails
    /\ lat \in [Listener -> ListenerPlaces]
    /\ lmem \in [Listener -> States] /\ left \in [Listener -> 0..NumKeys]
    /\ stopped \in BOOLEAN /\ undone \in BOOLEAN
    /\ streak \in 0..MaxFails
    /\ late \in [Listener -> Nat]
    /\ commands \in 0..MaxCommands /\ crashes \in 0..MaxCrashes /\ faults \in 0..MaxFaults

Init ==
    /\ file = Absent /\ starting = FALSE /\ signals = {} /\ known = FALSE
    /\ at = "none" /\ mem = Fresh /\ then = "done" /\ fails = 0 /\ tally = 0
    /\ lat = [l \in Listener |-> "none"] /\ lmem = [l \in Listener |-> Fresh]
    /\ left = [l \in Listener |-> 0]
    /\ stopped = FALSE /\ undone = FALSE /\ streak = 0
    /\ late = [l \in Listener |-> 0]
    /\ commands = 0 /\ crashes = 0 /\ faults = 0

-----------------------------------------------------------------------------
Readable == file \in States
Is(status) == Readable /\ file.status = status

(* A call succeeds, or fails as often as the bounds allow.                 *)
Breaks(kind) == kind \in Faults /\ faults < MaxFaults /\ faults' = faults + 1

(* fs::write once the file is open: s is what the file holds, unless       *)
(* another task filled the file meanwhile and s is shorter than that.      *)
Filled(s) == IF file \in {Empty, s} THEN {s} ELSE {s, Mixed}

(* The file now holds f: a listener is late from the moment the session is *)
(* no longer active until it is active again.                              *)
Holds(f) ==
    /\ file' = f
    /\ late' = IF f \in States /\ f.status = "Active" THEN [l \in Listener |-> 0] ELSE late

-----------------------------------------------------------------------------
(* The commands: start writes the first state, the others leave a file for *)
(* the supervisor to find.                                                 *)
StartOpens ==
    /\ file = Absent
    /\ file' = Empty /\ starting' = TRUE
    /\ UNCHANGED <<signals, known, supVars, lisVars, history, bounds>>

StartFills ==
    /\ starting
    /\ starting' = FALSE /\ Holds(Fresh)
    /\ UNCHANGED <<signals, known, supVars, lisVars, stopped, undone, streak, bounds>>

Signal(s) ==
    /\ file # Absent
    /\ commands < MaxCommands /\ commands' = commands + 1
    /\ signals' = signals \cup {s}
    /\ UNCHANGED <<file, starting, known, supVars, lisVars, history, crashes, faults>>

-----------------------------------------------------------------------------
(* The supervisor.                                                         *)

(* The discovery loop looks at a session once: known before it is read.    *)
Discover ==
    /\ ~known /\ file # Absent
    /\ known' = TRUE
    /\ at' = IF Readable /\ ~Is("Stopped") THEN "sleep" ELSE "gone"
    /\ UNCHANGED <<fileVars, mem, then, fails, tally, lisVars, history, bounds>>

(* The cycle ends and its tracker is kept, or fails and its tracker is     *)
(* dropped with it.                                                        *)
Sleep ==
    /\ at' = "sleep" /\ mem' = Fresh /\ then' = "done" /\ tally' = 0
EndsWell == Sleep /\ fails' = tally /\ UNCHANGED faults
Fails(kind) == Sleep /\ Breaks(kind) /\ UNCHANGED fails

Goto(step) == at' = step /\ UNCHANGED <<then, fails, faults>>
SaveThen(s, step) ==
    /\ mem' = s /\ at' = "save" /\ then' = step
    /\ UNCHANGED <<fails, faults>>

(* A file that cannot be read ends the cycle where it began.               *)
Load ==
    /\ at = "sleep" /\ Readable
    /\ mem' = file /\ tally' = fails
    /\ Goto("stop")
    /\ UNCHANGED <<fileVars, known, lisVars, history, commands, crashes>>

(* The signal is removed before the state that follows from it is written. *)
Consume(s) == s \in signals /\ signals' = signals \ {s}
ConsumeFails(s) == s \in signals /\ Fails("consume") /\ UNCHANGED <<signals, streak>>

(* Mutation: a session that is not rotating returns before it looks.       *)
SeeStopOnceActive ==
    /\ at = "stop"
    /\ \/ /\ mem.status = "Active" /\ Consume("stop")
          /\ SaveThen(State("Stopped", mem.stage), "stopped") /\ UNCHANGED tally
       \/ /\ mem.status # "Active" \/ "stop" \notin signals
          /\ Goto("suspended") /\ UNCHANGED <<mem, tally, signals>>
    /\ UNCHANGED <<file, starting, known, lisVars, history, commands, crashes>>

SeeStop ==
    /\ at = "stop"
    /\ \/ /\ Consume("stop")
          /\ SaveThen(State("Stopped", mem.stage), "stopped") /\ UNCHANGED tally
       \/ ConsumeFails("stop")
       \/ /\ "stop" \notin signals
          /\ Goto("suspended") /\ UNCHANGED <<mem, tally, signals>>
    /\ UNCHANGED <<file, starting, known, lisVars, history, commands, crashes>>

(* Mutation: the loop goes on after it has stopped.                        *)
StopsAndPolls ==
    /\ at = "stopped"
    /\ EndsWell
    /\ UNCHANGED <<fileVars, known, lisVars, history, commands, crashes>>

Stops ==
    /\ at = "stopped"
    /\ \/ Goto("gone") /\ UNCHANGED <<mem, tally>>
       \/ Fails("report")
    /\ UNCHANGED <<fileVars, known, lisVars, history, commands, crashes>>

(* Mutation: suspension is cleared by the signal that ends a pause.        *)
SeeRestartAsResume ==
    /\ at = "suspended"
    /\ \/ /\ mem.status = "Suspended" /\ Consume("resume")
          /\ tally' = 0 /\ streak' = 0
          /\ SaveThen(State("Active", mem.stage), "pause")
       \/ /\ mem.status = "Suspended" /\ "resume" \notin signals
          /\ EndsWell /\ UNCHANGED <<signals, streak>>
       \/ /\ mem.status # "Suspended"
          /\ Goto("pause") /\ UNCHANGED <<mem, tally, signals, streak>>
    /\ UNCHANGED <<file, starting, known, lisVars, stopped, undone, late, commands, crashes>>

SeeRestart ==
    /\ at = "suspended"
    /\ \/ /\ mem.status = "Suspended" /\ Consume("restart")
          /\ tally' = 0 /\ streak' = 0
          /\ SaveThen(State("Active", mem.stage), "pause")
       \/ mem.status = "Suspended" /\ ConsumeFails("restart")
       \/ /\ mem.status = "Suspended" /\ "restart" \notin signals
          /\ EndsWell /\ UNCHANGED <<signals, streak>>
       \/ /\ mem.status # "Suspended"
          /\ Goto("pause") /\ UNCHANGED <<mem, tally, signals, streak>>
    /\ UNCHANGED <<file, starting, known, lisVars, stopped, undone, late, commands, crashes>>

SeePause ==
    /\ at = "pause"
    /\ \/ /\ Consume("pause")
          /\ SaveThen(State("Paused", mem.stage), "paused") /\ UNCHANGED tally
       \/ ConsumeFails("pause")
       \/ /\ "pause" \notin signals
          /\ Goto("paused") /\ UNCHANGED <<mem, tally, signals>>
    /\ UNCHANGED <<file, starting, known, lisVars, history, commands, crashes>>

SeeResume ==
    /\ at = "paused"
    /\ \/ /\ mem.status = "Paused" /\ Consume("resume")
          /\ SaveThen(State("Active", mem.stage), "stage") /\ UNCHANGED tally
       \/ mem.status = "Paused" /\ ConsumeFails("resume")
       \/ /\ mem.status = "Paused" /\ "resume" \notin signals
          /\ Goto("done") /\ UNCHANGED <<mem, tally, signals>>
       \/ /\ mem.status # "Paused"
          /\ Goto("stage") /\ UNCHANGED <<mem, tally, signals>>
    /\ UNCHANGED <<file, starting, known, lisVars, history, commands, crashes>>

(* The next stage's goal-run, if there is a rotation and the run's context *)
(* can be written.  Nothing bounds how long the cycle waits for it.        *)
Rotate ==
    /\ at = "stage"
    /\ \/ /\ Goto(IF NumStages = 0 THEN "done" ELSE "run")
          /\ UNCHANGED <<mem, tally>>
       \/ NumStages # 0 /\ Fails("context")
    /\ UNCHANGED <<fileVars, known, lisVars, history, commands, crashes>>

(* Mutation: the index is stored without being wrapped.                    *)
RunSucceedsUnwrapped ==
    /\ at = "run"
    /\ streak' = 0
    /\ SaveThen(State("Active", mem.stage + 1), "won")
    /\ UNCHANGED <<fileVars, known, tally, lisVars, stopped, undone, late, commands, crashes>>

RunSucceeds ==
    /\ at = "run"
    /\ streak' = 0
    /\ SaveThen(State("Active", (mem.stage % NumStages) + 1), "won")
    /\ UNCHANGED <<fileVars, known, tally, lisVars, stopped, undone, late, commands, crashes>>

RunFails ==
    /\ at = "run"
    /\ streak' = IF streak < MaxFails THEN streak + 1 ELSE streak
    /\ SaveThen(mem, "lost")
    /\ UNCHANGED <<fileVars, known, tally, lisVars, stopped, undone, late, commands, crashes>>

(* Mutation: a success leaves earlier failures on the tracker.             *)
WonKeepsTally ==
    /\ at = "won"
    /\ Goto("done")
    /\ UNCHANGED <<fileVars, known, mem, tally, lisVars, history, commands, crashes>>

Won ==
    /\ at = "won"
    /\ tally' = 0 /\ Goto("done")
    /\ UNCHANGED <<fileVars, known, mem, lisVars, history, commands, crashes>>

(* record_failure: the failures of the last minutes and this one.          *)
Lost ==
    /\ at = "lost"
    /\ \E recent \in 0..tally :
          /\ tally' = IF recent < MaxFails THEN recent + 1 ELSE recent
          /\ IF tally' = MaxFails THEN SaveThen(State("Suspended", mem.stage), "done")
             ELSE Goto("done") /\ UNCHANGED mem
    /\ UNCHANGED <<fileVars, known, lisVars, history, commands, crashes>>

(* The supervisor's status file.                                           *)
Report ==
    /\ at = "done"
    /\ EndsWell \/ Fails("report")
    /\ UNCHANGED <<fileVars, known, lisVars, history, commands, crashes>>

SaveOpens ==
    /\ at = "save"
    /\ \/ file' = Empty /\ at' = "write" /\ UNCHANGED <<mem, then, fails, tally, faults>>
       \/ file' \in {file, Empty} /\ Fails("save")
    /\ UNCHANGED <<starting, signals, known, lisVars, history, commands, crashes>>

SaveFills ==
    /\ at = "write"
    /\ \E f \in Filled(mem) : Holds(f)
    /\ stopped' = (stopped \/ mem.status = "Stopped")
    /\ Goto(then)
    /\ UNCHANGED <<starting, signals, known, mem, tally, lisVars, undone, streak, commands, crashes>>

-----------------------------------------------------------------------------
(* A listener, from its session's point of view.                           *)

Move(l, step) == lat' = [lat EXCEPT ![l] = step]

(* On to the next stream of the round, or to a new round after the last.   *)
GoOn(l) == Move(l, IF left[l] = 0 THEN "gate" ELSE "armed")

(* Spawned by the discovery loop of the listeners, once it can read the    *)
(* session and it is not stopped.                                          *)
Spawn(l) ==
    /\ lat[l] = "none"
    /\ Readable /\ ~Is("Stopped")
    /\ Move(l, "gate")
    /\ UNCHANGED <<fileVars, known, supVars, lmem, left, history, bounds>>

(* Mutation: only a stopped session closes the gate.                       *)
GateUnlessStopped(l) ==
    /\ lat[l] = "gate"
    /\ \/ /\ Readable /\ ~Is("Stopped")
          /\ Move(l, "armed") /\ left' = [left EXCEPT ![l] = NumKeys]
       \/ Is("Stopped") /\ Move(l, "gone") /\ UNCHANGED left
    /\ UNCHANGED <<fileVars, known, supVars, lmem, history, bounds>>

(* The top of each round: what cannot be read is asked again.              *)
Gate(l) ==
    /\ lat[l] = "gate"
    /\ \/ Is("Active") /\ Move(l, "armed") /\ left' = [left EXCEPT ![l] = NumKeys]
       \/ Is("Stopped") /\ Move(l, "gone") /\ UNCHANGED left
    /\ UNCHANGED <<fileVars, known, supVars, lmem, history, bounds>>

(* A stream without a message, or with one that is not launched; or the    *)
(* link is down, and the round is begun anew.                              *)
Quiet(l) ==
    /\ lat[l] = "armed"
    /\ \E n \in {0, left[l] - 1} :
          /\ left' = [left EXCEPT ![l] = n]
          /\ Move(l, IF n = 0 THEN "gate" ELSE "armed")
    /\ UNCHANGED <<fileVars, known, supVars, lmem, history, bounds>>

(* The launch reads the session again, whatever its status is by now, and  *)
(* fails if it cannot.                                                     *)
Wake(l) ==
    /\ lat[l] = "armed" /\ Readable
    /\ Move(l, "run") /\ left' = [left EXCEPT ![l] = @ - 1]
    /\ lmem' = [lmem EXCEPT ![l] = file]
    /\ late' = IF Is("Active") THEN late ELSE [late EXCEPT ![l] = @ + 1]
    /\ UNCHANGED <<fileVars, known, supVars, stopped, undone, streak, bounds>>

(* A launch that succeeds adds its finding to the state it loaded.         *)
WakeEnds(l) ==
    /\ lat[l] = "run"
    /\ Move(l, "save") \/ GoOn(l)
    /\ UNCHANGED <<fileVars, known, supVars, lmem, left, history, bounds>>

WakeOpens(l) ==
    /\ lat[l] = "save"
    /\ \/ file' = Empty /\ Move(l, "write") /\ UNCHANGED faults
       \/ file' \in {file, Empty} /\ GoOn(l) /\ Breaks("save")
    /\ UNCHANGED <<starting, signals, known, supVars, lmem, left, history, commands, crashes>>

WakeFills(l) ==
    /\ lat[l] = "write"
    /\ \E f \in Filled(lmem[l]) : Holds(f)
    /\ undone' = (undone \/ (stopped /\ lmem[l].status # "Stopped"))
    /\ GoOn(l)
    /\ UNCHANGED <<starting, signals, known, supVars, lmem, left, stopped, streak, bounds>>

-----------------------------------------------------------------------------
(* The daemon dies; a launch that outlives it has nobody left to save for. *)
Crash ==
    /\ crashes < MaxCrashes /\ crashes' = crashes + 1
    /\ known' = FALSE
    /\ at' = "none" /\ mem' = Fresh /\ then' = "done" /\ fails' = 0 /\ tally' = 0
    /\ lat' = [l \in Listener |-> "none"] /\ lmem' = [l \in Listener |-> Fresh]
    /\ left' = [l \in Listener |-> 0]
    /\ streak' = 0
    /\ UNCHANGED <<fileVars, stopped, undone, late, commands, faults>>

Supervisor ==
    \/ Load \/ SeeStop \/ Stops \/ SeeRestart \/ SeePause \/ SeeResume
    \/ Rotate \/ RunSucceeds \/ RunFails \/ Won \/ Lost \/ Report
    \/ SaveOpens \/ SaveFills

Next ==
    \/ StartOpens \/ StartFills
    \/ \E s \in Signals : Signal(s)
    \/ Discover
    \/ Load \/ SeeStop \/ Stops \/ SeeRestart \/ SeePause \/ SeeResume
    \/ Rotate \/ RunSucceeds \/ RunFails \/ Won \/ Lost \/ Report
    \/ SaveOpens \/ SaveFills
    \/ \E l \in Listener :
          Spawn(l) \/ Gate(l) \/ Quiet(l) \/ Wake(l) \/ WakeEnds(l) \/ WakeOpens(l) \/ WakeFills(l)
    \/ Crash

(* A blocking thread that runs a cycle goes on; the poll of a sleeping     *)
(* supervisor does not meet another task's write every time; a goal-run    *)
(* ends.                                                                   *)
Fairness ==
    /\ WF_vars(Supervisor) /\ SF_vars(Load)
    /\ \A l \in Listener : WF_vars(WakeOpens(l) \/ WakeFills(l))

Spec == Init /\ [][Next]_vars
FairSpec == Spec /\ Fairness

-----------------------------------------------------------------------------
Supervised == at \notin {"none", "gone"}

(* A listener that was past the gate when the session was paused,          *)
(* suspended or stopped may still launch, once for each stream: it asks    *)
(* again before the next round, not before the next message                *)
(* (gate_on_session_status, wake_listener.rs:261, called at :365).         *)
PauseBites == \A l \in Listener : late[l] <= NumKeys

(* The session is suspended only for MaxFails goal-runs that failed with   *)
(* no success and no restart between them, in one life of the daemon       *)
(* (record_failure and reset, team_session.rs:390), as long as no call of  *)
(* the supervisor fails: a cycle that fails drops its tracker.             *)
SuspendsForCause ==
    [][(at = "lost" /\ mem'.status = "Suspended") => (streak = MaxFails \/ faults > 0)]_vars

(* Once Stopped was written, no goal-run of the rotation starts, in this   *)
(* life of the daemon or a later one (sleep_after_cycle,                   *)
(* team_session.rs:720; spawn_if_not_stopped, :1086), unless a listener    *)
(* wrote the state it had loaded before over it; as long as the cycle that *)
(* stops can write its report.  With the fault "report", which the run and *)
(* the theorem leave out, that cycle fails, and the supervisor loads the   *)
(* stopped session again and rotates on.                                   *)
StopEndsRotation ==
    [][(at = "stage" /\ at' = "run") => (~stopped \/ undone)]_vars

(* A stop that a supervised session is sent takes effect, whatever the     *)
(* session is doing (run_one_cycle looks for it first,                     *)
(* team_session.rs:749), if the daemon lives on, the calls that fail have  *)
(* failed and the file stays readable.                                     *)
StopIsHeeded ==
    []<>Readable =>
        ("stop" \in signals /\ Supervised /\ faults = MaxFaults) ~> ~Supervised

(* A restart takes a suspended session out of suspension                   *)
(* (team_session.rs:769), under the same conditions.                       *)
RestartIsHeeded ==
    []<>Readable =>
        ("restart" \in signals /\ Is("Suspended") /\ Supervised /\ faults = MaxFaults)
            ~> ((Readable /\ ~Is("Suspended")) \/ ~Supervised)

(* "Stop a session permanently" (ta-cli team_session.rs:187).              *)
StopIsFinal == stopped /\ Readable => Is("Stopped")
===============================================================================
