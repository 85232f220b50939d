--------------------------- MODULE TeamSessionProofs ---------------------------
(***************************************************************************)
(* Theorems about TeamSession, for any listeners, stages, limits, crashes  *)
(* and failing calls, but for the report of a stopped session in           *)
(* StopEndsTheRotation.                                                    *)
(***************************************************************************)
EXTENDS TeamSession, TLAPS

USE SessionAssumption, UnreadableAssumption DEF SessionAssumption, UnreadableAssumption

LEMMA StatesAre ==
    /\ \A s \in Statuses, n \in 0..NumStages :
          State(s, n) \in States /\ State(s, n).status = s /\ State(s, n).stage = n
    /\ \A x \in States : x.status \in Statuses /\ x.stage \in 0..NumStages
    /\ Fresh \in States /\ Fresh.status = "Active"
    /\ Absent \notin States /\ Empty \notin States /\ Mixed \notin States
  BY DEF States, State, Statuses, Fresh, Unreadable

SupType ==
    /\ at \in Places /\ mem \in States /\ then \in AfterSave
    /\ fails \in 0..MaxFails /\ tally \in 0..MaxFails

LEMMA SleepType ==
    ASSUME TypeOK
    PROVE  /\ EndsWell => SupType' /\ faults' \in 0..MaxFaults
           /\ \A k : Fails(k) => SupType' /\ faults' \in 0..MaxFaults
  BY StatesAre DEF TypeOK, SupType, EndsWell, Fails, Breaks, Sleep, Places, AfterSave

LEMMA SaveThenType ==
    ASSUME TypeOK, NEW s \in States, NEW step \in AfterSave, SaveThen(s, step), tally' \in 0..MaxFails
    PROVE  SupType' /\ faults' \in 0..MaxFaults
  BY DEF TypeOK, SupType, SaveThen, Places, Saving

LEMMA GotoType ==
    ASSUME TypeOK, NEW step \in Places, Goto(step), mem' \in States, tally' \in 0..MaxFails
    PROVE  SupType' /\ faults' \in 0..MaxFaults
  BY DEF TypeOK, SupType, Goto

LEMMA HoldsType ==
    ASSUME TypeOK, NEW f \in States \cup Unreadable, Holds(f)
    PROVE  file' \in States \cup Unreadable /\ late' \in [Listener -> Nat]
<1>1. CASE f \in States /\ f.status = "Active"
  BY <1>1 DEF TypeOK, Holds
<1>2. CASE ~(f \in States /\ f.status = "Active")
  <2>1. file' = f /\ late' = late
    BY <1>2 DEF Holds
  <2> QED
    BY <2>1 DEF TypeOK
<1> QED
  BY <1>1, <1>2

LEMMA FilledType ==
    ASSUME NEW s \in States PROVE Filled(s) \subseteq {s, Mixed} /\ Filled(s) \subseteq States \cup Unreadable
  BY DEF Filled, Unreadable

LEMMA TypeInit == Init => TypeOK
<1> SUFFICES ASSUME Init PROVE TypeOK
  OBVIOUS
<1>1. lmem \in [Listener -> States] /\ mem \in States
  BY StatesAre DEF Init
<1>2. /\ lat \in [Listener -> ListenerPlaces] /\ late \in [Listener -> Nat]
      /\ left \in [Listener -> 0..NumKeys]
  BY SessionAssumption DEF Init, ListenerPlaces
<1>3. at \in Places /\ then \in AfterSave /\ file \in Unreadable
  BY DEF Init, Places, AfterSave, Unreadable
<1>4. 0 \in 0..MaxFails /\ 0 \in 0..MaxCommands /\ 0 \in 0..MaxCrashes /\ 0 \in 0..MaxFaults
  OBVIOUS
<1>5. signals \subseteq Signals /\ starting \in BOOLEAN /\ known \in BOOLEAN
      /\ stopped \in BOOLEAN /\ undone \in BOOLEAN
  BY DEF Init
<1> QED
  BY <1>1, <1>2, <1>3, <1>4, <1>5 DEF Init, TypeOK

LEMMA TypeCommand ==
    ASSUME TypeOK, StartOpens \/ StartFills \/ (\E s \in Signals : Signal(s)) \/ Discover
    PROVE  TypeOK'
<1>1. CASE StartOpens
  BY <1>1 DEF StartOpens, TypeOK, supVars, lisVars, history, bounds, Unreadable
<1>2. CASE StartFills
  BY <1>2, HoldsType, StatesAre DEF StartFills, TypeOK, supVars, lisVars, bounds
<1>3. ASSUME NEW s \in Signals, Signal(s) PROVE TypeOK'
  BY <1>3 DEF Signal, TypeOK, supVars, lisVars, history
<1>4. CASE Discover
  BY <1>4 DEF Discover, TypeOK, fileVars, lisVars, history, bounds, Places
<1> QED
  BY <1>1, <1>2, <1>3, <1>4

(* The rest of the state after a step of the supervisor.                   *)
LEMMA SupStep ==
    ASSUME TypeOK, SupType', faults' \in 0..MaxFaults,
           UNCHANGED <<starting, known, lisVars, undone, commands, crashes>>,
           file' \in States \cup Unreadable, late' \in [Listener -> Nat],
           signals' \subseteq Signals, stopped' \in BOOLEAN, streak' \in 0..MaxFails
    PROVE  TypeOK'
  BY DEF TypeOK, SupType, lisVars

(* A goal-run runs only where there are stages.                            *)
Rotating == at = "run" => NumStages # 0

LEMMA TypeSupervisor ==
    ASSUME TypeOK, Rotating, Supervisor
    PROVE  TypeOK'
<1>1. CASE Load
  <2>1. mem' \in States /\ tally' \in 0..MaxFails /\ Goto("stop") /\ "stop" \in Places
    BY <1>1 DEF Load, Readable, TypeOK, Places, Cycle
  <2> QED
    BY <1>1, <2>1, GotoType, SupStep DEF Load, TypeOK, fileVars, history
<1>2. CASE SeeStop
  <2>1. SupType' /\ faults' \in 0..MaxFaults
    BY <1>2, StatesAre, SleepType, SaveThenType, GotoType
       DEF SeeStop, ConsumeFails, TypeOK, Statuses, Cycle, AfterSave, Places
  <2> QED
    BY <1>2, <2>1, SupStep DEF SeeStop, Consume, ConsumeFails, TypeOK, history
<1>3. CASE Stops
  <2>1. SupType' /\ faults' \in 0..MaxFaults
    BY <1>3, SleepType, GotoType DEF Stops, TypeOK, Places
  <2> QED
    BY <1>3, <2>1, SupStep DEF Stops, TypeOK, fileVars, history
<1>4. CASE SeeRestart
  <2>1. SupType' /\ faults' \in 0..MaxFaults
    BY <1>4, StatesAre, SleepType, SaveThenType, GotoType
       DEF SeeRestart, ConsumeFails, TypeOK, Statuses, Cycle, AfterSave, Places
  <2> QED
    BY <1>4, <2>1, SupStep DEF SeeRestart, Consume, ConsumeFails, TypeOK
<1>5. CASE SeePause
  <2>1. SupType' /\ faults' \in 0..MaxFaults
    BY <1>5, StatesAre, SleepType, SaveThenType, GotoType
       DEF SeePause, ConsumeFails, TypeOK, Statuses, Cycle, AfterSave, Places
  <2> QED
    BY <1>5, <2>1, SupStep DEF SeePause, Consume, ConsumeFails, TypeOK, history
<1>6. CASE SeeResume
  <2>1. SupType' /\ faults' \in 0..MaxFaults
    BY <1>6, StatesAre, SleepType, SaveThenType, GotoType
       DEF SeeResume, ConsumeFails, TypeOK, Statuses, Cycle, AfterSave, Places
  <2> QED
    BY <1>6, <2>1, SupStep DEF SeeResume, Consume, ConsumeFails, TypeOK, history
<1>7. CASE Rotate
  <2>1. SupType' /\ faults' \in 0..MaxFaults
    BY <1>7, GotoType, SleepType DEF Rotate, TypeOK, Cycle, Places
  <2> QED
    BY <1>7, <2>1, SupStep DEF Rotate, TypeOK, fileVars, history
<1>8. CASE RunSucceeds
  <2>1. (mem.stage % NumStages) + 1 \in 0..NumStages
    <3>1. mem.stage \in Nat /\ NumStages \in Nat \ {0}
      BY <1>8, StatesAre DEF RunSucceeds, TypeOK, Rotating
    <3>2. mem.stage % NumStages \in 0..(NumStages - 1)
      BY <3>1
    <3> QED
      BY <3>1, <3>2
  <2>2. SupType' /\ faults' \in 0..MaxFaults
    BY <1>8, <2>1, StatesAre, SaveThenType DEF RunSucceeds, TypeOK, Statuses, AfterSave
  <2> QED
    BY <1>8, <2>2, SupStep DEF RunSucceeds, TypeOK, fileVars
<1>9. CASE RunFails
  <2>1. SupType' /\ faults' \in 0..MaxFaults
    BY <1>9, SaveThenType DEF RunFails, TypeOK, AfterSave
  <2> QED
    BY <1>9, <2>1, SupStep DEF RunFails, TypeOK, fileVars
<1>10. CASE Won
  <2>1. SupType' /\ faults' \in 0..MaxFaults
    BY <1>10, GotoType DEF Won, TypeOK, Cycle, Places
  <2> QED
    BY <1>10, <2>1, SupStep DEF Won, TypeOK, fileVars, history
<1>11. CASE Lost
  <2>1. tally' \in 0..MaxFails
    BY <1>11 DEF Lost, TypeOK
  <2>2. SupType' /\ faults' \in 0..MaxFaults
    BY <1>11, <2>1, StatesAre, SaveThenType, GotoType DEF Lost, TypeOK, Statuses, Cycle, AfterSave, Places
  <2> QED
    BY <1>11, <2>2, SupStep DEF Lost, TypeOK, fileVars, history
<1>12. CASE Report
  <2>1. SupType' /\ faults' \in 0..MaxFaults
    BY <1>12, SleepType DEF Report
  <2> QED
    BY <1>12, <2>1, SupStep DEF Report, TypeOK, fileVars, history
<1>13. CASE SaveOpens
  <2>1. SupType' /\ faults' \in 0..MaxFaults
    BY <1>13, SleepType DEF SaveOpens, TypeOK, SupType, Places, Saving
  <2>2. file' \in States \cup Unreadable
    BY <1>13 DEF SaveOpens, TypeOK, Unreadable
  <2> QED
    BY <1>13, <2>1, <2>2, SupStep DEF SaveOpens, TypeOK, history
<1>14. CASE SaveFills
  <2>1. SupType' /\ faults' \in 0..MaxFaults
    BY <1>14, GotoType DEF SaveFills, TypeOK, Places, Cycle, AfterSave
  <2>2. file' \in States \cup Unreadable /\ late' \in [Listener -> Nat]
    BY <1>14, FilledType, HoldsType DEF SaveFills, TypeOK
  <2> QED
    BY <1>14, <2>1, <2>2, SupStep DEF SaveFills, TypeOK
<1> QED
  BY <1>1, <1>2, <1>3, <1>4, <1>5, <1>6, <1>7, <1>8, <1>9, <1>10, <1>11, <1>12, <1>13, <1>14
     DEF Supervisor

ListenerStep(l) ==
    Spawn(l) \/ Gate(l) \/ Quiet(l) \/ Wake(l) \/ WakeEnds(l) \/ WakeOpens(l) \/ WakeFills(l)

(* A listener that is past the gate has a stream to read.                  *)
Armed == \A l \in Listener : lat[l] = "armed" => left[l] # 0

LEMMA TypeListener ==
    ASSUME TypeOK, Armed, NEW l \in Listener, ListenerStep(l)
    PROVE  TypeOK'
<1>1. CASE Spawn(l) \/ Gate(l) \/ Quiet(l) \/ WakeEnds(l)
  <2>1. left' \in [Listener -> 0..NumKeys]
    BY <1>1, SessionAssumption DEF Spawn, Gate, Quiet, WakeEnds, TypeOK, Armed
  <2> QED
    BY <1>1, <2>1 DEF Spawn, Gate, Quiet, WakeEnds, Move, GoOn, TypeOK, fileVars, supVars,
       history, bounds, ListenerPlaces
<1>2. CASE Wake(l)
  <2>1. late' \in [Listener -> Nat]
    BY <1>2 DEF Wake, TypeOK
  <2>2. left' \in [Listener -> 0..NumKeys]
    BY <1>2, SessionAssumption DEF Wake, TypeOK, Armed
  <2> QED
    BY <1>2, <2>1, <2>2 DEF Wake, Move, Readable, TypeOK, fileVars, supVars, bounds,
       ListenerPlaces
<1>3. CASE WakeOpens(l)
  <2>1. file' \in States \cup Unreadable
    BY <1>3 DEF WakeOpens, TypeOK, Unreadable
  <2>2. faults' \in 0..MaxFaults
    BY <1>3 DEF WakeOpens, Breaks, TypeOK
  <2> QED
    BY <1>3, <2>1, <2>2 DEF WakeOpens, Move, GoOn, TypeOK, supVars, history, ListenerPlaces
<1>4. CASE WakeFills(l)
  <2>1. file' \in States \cup Unreadable /\ late' \in [Listener -> Nat]
    BY <1>4, FilledType, HoldsType DEF WakeFills, TypeOK
  <2> QED
    BY <1>4, <2>1 DEF WakeFills, Move, GoOn, TypeOK, supVars, bounds, ListenerPlaces
<1> QED
  BY <1>1, <1>2, <1>3, <1>4 DEF ListenerStep

LEMMA ArmedStep == TypeOK /\ Armed /\ [Next]_vars => Armed'
<1> SUFFICES ASSUME TypeOK, Armed, [Next]_vars PROVE Armed'
  OBVIOUS
<1>1. ASSUME NEW l \in Listener, ListenerStep(l) PROVE Armed'
  <2>1. \A k \in Listener \ {l} : lat'[k] = lat[k] /\ left'[k] = left[k]
    BY <1>1 DEF ListenerStep, Spawn, Gate, Quiet, Wake, WakeEnds, WakeOpens, WakeFills, Move,
       GoOn, TypeOK
  <2>2. lat'[l] = "armed" => left'[l] # 0
    BY <1>1, SessionAssumption DEF ListenerStep, Spawn, Gate, Quiet, Wake, WakeEnds, WakeOpens,
       WakeFills, Move, GoOn, TypeOK
  <2> QED
    BY <2>1, <2>2 DEF Armed
<1>2. CASE Crash
  BY <1>2 DEF Crash, Armed
<1>3. CASE UNCHANGED lisVars
  BY <1>3 DEF lisVars, Armed
<1> QED
  BY <1>1, <1>2, <1>3 DEF Next, ListenerStep, StartOpens, StartFills, Signal, Discover, Load,
     SeeStop, Stops, SeeRestart, SeePause, SeeResume, Rotate, RunSucceeds, RunFails, Won, Lost,
     Report, SaveOpens, SaveFills, vars, lisVars

LEMMA TypeCrash == ASSUME TypeOK, Crash PROVE TypeOK'
<1>1. lmem' \in [Listener -> States] /\ mem' \in States
  BY StatesAre DEF Crash
<1>2. lat' \in [Listener -> ListenerPlaces] /\ left' \in [Listener -> 0..NumKeys]
  BY SessionAssumption DEF Crash, ListenerPlaces
<1>3. at' \in Places /\ then' \in AfterSave
  BY DEF Crash, Places, AfterSave
<1>4. 0 \in 0..MaxFails /\ crashes' \in 0..MaxCrashes
  BY DEF Crash, TypeOK
<1> QED
  BY <1>1, <1>2, <1>3, <1>4 DEF Crash, TypeOK, fileVars

LEMMA RotatingStep == TypeOK /\ Rotating /\ [Next]_vars => Rotating'
<1> SUFFICES ASSUME TypeOK, Rotating, [Next]_vars, at' = "run", at # "run" PROVE NumStages # 0
  BY DEF Rotating
<1>1. CASE Rotate
  BY <1>1 DEF Rotate, Goto
<1>2. CASE SeeStop \/ Stops \/ SeeRestart \/ SeePause \/ SeeResume \/ Report
  BY <1>2 DEF SeeStop, Stops, SeeRestart, SeePause, SeeResume, Report, ConsumeFails, EndsWell,
     Fails, Sleep, Goto, SaveThen
<1>3. CASE Load \/ RunSucceeds \/ RunFails \/ Won \/ Lost \/ SaveOpens \/ SaveFills
  BY <1>3 DEF Load, RunSucceeds, RunFails, Won, Lost, SaveOpens, SaveFills, Fails, Sleep, Goto,
     SaveThen, TypeOK, AfterSave
<1>4. CASE StartOpens \/ StartFills \/ (\E s \in Signals : Signal(s)) \/ Discover \/ Crash
           \/ UNCHANGED vars
  BY <1>4 DEF StartOpens, StartFills, Signal, Discover, Crash, supVars, vars
<1>5. CASE \E l \in Listener : ListenerStep(l)
  BY <1>5 DEF ListenerStep, Spawn, Gate, Quiet, Wake, WakeEnds, WakeOpens, WakeFills, supVars
<1> QED
  BY <1>1, <1>2, <1>3, <1>4, <1>5 DEF Next, ListenerStep

LEMMA TypeStep == TypeOK /\ Rotating /\ Armed /\ [Next]_vars => TypeOK'
<1> SUFFICES ASSUME TypeOK, Rotating, Armed, [Next]_vars PROVE TypeOK'
  OBVIOUS
<1>1. CASE UNCHANGED vars
  BY <1>1 DEF TypeOK, vars
<1>2. CASE StartOpens \/ StartFills \/ (\E s \in Signals : Signal(s)) \/ Discover
  BY <1>2, TypeCommand
<1>3. CASE Supervisor
  BY <1>3, TypeSupervisor
<1>4. CASE \E l \in Listener : ListenerStep(l)
  BY <1>4, TypeListener
<1>5. CASE Crash
  BY <1>5, TypeCrash
<1> QED
  BY <1>1, <1>2, <1>3, <1>4, <1>5 DEF Next, Supervisor, ListenerStep

(* Every variable keeps its type: above all the stage stays within the     *)
(* rotation (team_session.rs:850, :905).                                   *)
THEOREM TypeCorrect == Spec => []TypeOK
<1>1. Init => TypeOK /\ Rotating /\ Armed
  BY TypeInit DEF Init, Rotating, Armed
<1> QED
  BY <1>1, TypeStep, RotatingStep, ArmedStep, PTL DEF Spec

-----------------------------------------------------------------------------
(* What a listener may still start.                                        *)

(* A listener is late at most once for each stream it has read in this     *)
(* round, and nobody is late while the session is active.                  *)
Lateness ==
    \A l \in Listener : late[l] + left[l] <= NumKeys /\ (Is("Active") => late[l] = 0)

(* Steps that read no more streams than a round has.                       *)
LEMMA HoldsLate ==
    ASSUME TypeOK, Lateness, NEW f, Holds(f), UNCHANGED left
    PROVE  Lateness'
<1>1. CASE f \in States /\ f.status = "Active"
  BY <1>1 DEF Holds, Lateness, TypeOK
<1>2. CASE ~(f \in States /\ f.status = "Active")
  BY <1>2 DEF Holds, Lateness, Is, Readable
<1> QED
  BY <1>1, <1>2

(* Steps that write nothing, or leave the file empty.                      *)
LEMMA QuietLate ==
    ASSUME TypeOK, TypeOK', Lateness, UNCHANGED late, file' \in {file, Empty},
           \A k \in Listener : left'[k] <= left[k] \/ Is("Active")
    PROVE  Lateness'
  BY StatesAre DEF Lateness, Is, Readable, TypeOK

LEMMA LatenessStep == TypeOK /\ TypeOK' /\ Armed /\ Lateness /\ [Next]_vars => Lateness'
<1> SUFFICES ASSUME TypeOK, TypeOK', Armed, Lateness, [Next]_vars PROVE Lateness'
  OBVIOUS
<1>0. left \in [Listener -> Nat] /\ NumKeys \in Nat
  BY SessionAssumption DEF TypeOK
<1>1. CASE StartOpens \/ (\E s \in Signals : Signal(s)) \/ Discover \/ UNCHANGED vars
  BY <1>0, <1>1, QuietLate DEF StartOpens, Signal, Discover, lisVars, history, fileVars, vars
<1>2. CASE StartFills
  BY <1>2, HoldsLate DEF StartFills, lisVars
<1>3. CASE SaveFills
  BY <1>3, HoldsLate DEF SaveFills, lisVars
<1>4. CASE Load \/ SeeStop \/ Stops \/ SeeRestart \/ SeePause \/ SeeResume \/ Rotate
           \/ RunSucceeds \/ RunFails \/ Won \/ Lost \/ Report \/ SaveOpens
  <2>1. UNCHANGED <<late, left>> /\ file' \in {file, Empty}
    BY <1>4 DEF Load, SeeStop, Stops, SeeRestart, SeePause, SeeResume, Rotate,
       RunSucceeds, RunFails, Won, Lost, Report, SaveOpens, lisVars, history, fileVars
  <2> QED
    BY <1>0, <2>1, QuietLate
<1>5. CASE Crash
  BY <1>0, <1>5, QuietLate DEF Crash, fileVars
<1>6. ASSUME NEW l \in Listener, Spawn(l) \/ Gate(l) \/ Quiet(l) \/ WakeEnds(l) \/ WakeOpens(l)
      PROVE  Lateness'
  <2>1. \A k \in Listener : left'[k] <= left[k] \/ Is("Active")
    BY <1>0, <1>6 DEF Spawn, Gate, Quiet, WakeEnds, WakeOpens, Armed
  <2>2. UNCHANGED late /\ file' \in {file, Empty}
    BY <1>6 DEF Spawn, Gate, Quiet, WakeEnds, WakeOpens, fileVars, history
  <2> QED
    BY <2>1, <2>2, QuietLate
<1>7. ASSUME NEW l \in Listener, Wake(l) PROVE Lateness'
  <2>1. /\ left[l] # 0 /\ left'[l] = left[l] - 1 /\ UNCHANGED file
        /\ \A k \in Listener \ {l} : left'[k] = left[k] /\ late'[k] = late[k]
    BY <1>0, <1>7 DEF Wake, Armed, TypeOK, fileVars
  <2>2. late'[l] = IF Is("Active") THEN late[l] ELSE late[l] + 1
    BY <1>7 DEF Wake, TypeOK
  <2>3. late[l] \in Nat /\ left[l] \in Nat
    BY <1>0 DEF TypeOK
  <2> QED
    BY <1>0, <2>1, <2>2, <2>3 DEF Lateness, Is, Readable
<1>8. ASSUME NEW l \in Listener, WakeFills(l) PROVE Lateness'
  BY <1>8, HoldsLate DEF WakeFills
<1> QED
  BY <1>1, <1>2, <1>3, <1>4, <1>5, <1>6, <1>7, <1>8 DEF Next

(* After a pause, a suspension or a stop reached the file, every listener  *)
(* starts at most one launch for each of its streams, those of the round   *)
(* it had passed the gate for (gate_on_session_status, wake_listener.rs:261).*)
THEOREM PauseHolds == Spec => []PauseBites
<1>1. Init => TypeOK /\ Rotating /\ Armed /\ Lateness
  BY TypeInit, StatesAre, SessionAssumption DEF Init, Rotating, Armed, Lateness, Is, Readable
<1>2. TypeOK /\ Lateness => PauseBites
  <2> SUFFICES ASSUME TypeOK, Lateness, NEW l \in Listener PROVE late[l] <= NumKeys
    BY DEF PauseBites
  <2>1. late[l] \in Nat /\ left[l] \in Nat /\ NumKeys \in Nat
    BY SessionAssumption DEF TypeOK
  <2> QED
    BY <2>1 DEF Lateness
<1> QED
  BY <1>1, <1>2, TypeStep, RotatingStep, ArmedStep, LatenessStep, PTL DEF Spec

(* The supervisor runs only in a session that was discovered.              *)
Known == at # "none" => known

LEMMA KnownStep == Known /\ [Next]_vars => Known'
<1> SUFFICES ASSUME Known, [Next]_vars PROVE Known'
  OBVIOUS
<1>1. CASE Discover \/ Crash
  BY <1>1 DEF Discover, Crash, Known
<1>2. CASE StartOpens \/ StartFills \/ (\E s \in Signals : Signal(s)) \/ UNCHANGED vars
  BY <1>2 DEF StartOpens, StartFills, Signal, Known, supVars, vars
<1>3. CASE Supervisor
  <2>1. UNCHANGED known /\ at # "none"
    BY <1>3 DEF Supervisor, Load, SeeStop, Stops, SeeRestart, SeePause, SeeResume, Rotate,
       RunSucceeds, RunFails, Won, Lost, Report, SaveOpens, SaveFills
  <2> QED
    BY <2>1 DEF Known
<1>4. CASE \E l \in Listener : ListenerStep(l)
  BY <1>4 DEF ListenerStep, Spawn, Gate, Quiet, Wake, WakeEnds, WakeOpens, WakeFills, supVars, Known
<1> QED
  BY <1>1, <1>2, <1>3, <1>4 DEF Next, Supervisor, ListenerStep

-----------------------------------------------------------------------------
(* What suspends a session.                                                *)

(* Where the cycle is, a save counting as the step after it.               *)
Step == IF at \in Saving THEN then ELSE at

Rotation == {"pause", "paused", "stage", "run", "won", "lost"}

(* The tracker never counts more than the failures in a row, though it may *)
(* have forgotten some, and while a success or a failure is on its way to  *)
(* the file it is one call behind.                                         *)
Honest ==
    /\ Step \in Rotation => mem.status # "Suspended"
    /\ faults = 0 =>
          /\ at \in {"none", "sleep"} => fails <= streak
          /\ at \notin {"none", "sleep", "gone"} /\ Step # "won" => tally <= streak
          /\ Step = "lost" => tally < streak \/ streak = MaxFails

LEMMA FaultsCount ==
    ASSUME TypeOK, NEW k, Breaks(k) PROVE faults' # 0
  BY DEF TypeOK, Breaks

LEMMA HonestSleep ==
    ASSUME TypeOK, Honest, UNCHANGED streak
    PROVE  /\ \A k : Fails(k) => Honest'
           /\ EndsWell /\ at \in Cycle \ {"won"} => Honest'
<1>1. Sleep => Step' = "sleep"
  BY DEF Sleep, Step, Saving
<1>2. ASSUME NEW k, Fails(k) PROVE Honest'
  BY <1>1, <1>2, FaultsCount DEF Fails, Sleep, Honest, Rotation
<1>3. ASSUME EndsWell, at \in Cycle \ {"won"} PROVE Honest'
  <2>1. Step = at
    BY <1>3 DEF Step, Saving, Cycle
  <2> QED
    BY <1>1, <1>3, <2>1 DEF EndsWell, Sleep, Honest, Rotation, Cycle
<1> QED
  BY <1>2, <1>3

(* Steps within the cycle that leave the tracker and the history alone.    *)
LEMMA HonestGoto ==
    ASSUME TypeOK, Honest, UNCHANGED <<streak, tally, fails, faults>>,
           at \in Cycle \ {"won", "lost"}, Step' \in Cycle \ {"won", "lost"},
           at' \in Cycle \cup Saving,
           Step' \in Rotation => mem'.status # "Suspended"
    PROVE  Honest'
<1>1. Step = at
  BY DEF Step, Saving, Cycle
<1> QED
  BY <1>1 DEF Honest, Cycle, Saving

LEMMA StepAfter ==
    /\ \A s, x : SaveThen(s, x) => Step' = x /\ at' = "save" /\ mem' = s
    /\ \A x \in Cycle : Goto(x) => Step' = x /\ at' = x
  BY DEF SaveThen, Goto, Step, Saving, Cycle

LEMMA HonestCycle ==
    ASSUME TypeOK, Honest,
           SeeStop \/ Stops \/ SeeRestart \/ SeePause \/ SeeResume \/ Rotate \/ Report
    PROVE  Honest'
<1>1. CASE SeeStop
  <2>1. at = "stop" /\ UNCHANGED streak
    BY <1>1 DEF SeeStop, history
  <2>2. CASE ConsumeFails("stop")
    BY <2>1, <2>2, HonestSleep DEF ConsumeFails
  <2>3. CASE SaveThen(State("Stopped", mem.stage), "stopped") /\ UNCHANGED tally
    BY <2>1, <2>3, StepAfter, HonestGoto DEF SaveThen, Cycle, Saving, Rotation
  <2>4. CASE Goto("suspended") /\ UNCHANGED <<mem, tally>>
    BY <2>1, <2>4, StepAfter, HonestGoto DEF Goto, Cycle, Rotation
  <2> QED
    BY <1>1, <2>2, <2>3, <2>4 DEF SeeStop
<1>2. CASE Stops
  <2>1. at = "stopped" /\ UNCHANGED streak
    BY <1>2 DEF Stops, history
  <2>2. CASE Goto("gone")
    BY <2>1, <2>2 DEF Goto, Honest, Step, Saving, Rotation
  <2>3. CASE Fails("report")
    BY <2>1, <2>3, HonestSleep
  <2> QED
    BY <1>2, <2>2, <2>3 DEF Stops
<1>3. CASE SeeRestart
  <2>1. at = "suspended" /\ Step = "suspended"
    BY <1>3 DEF SeeRestart, Step, Saving
  <2>2. CASE tally' = 0 /\ streak' = 0 /\ SaveThen(State("Active", mem.stage), "pause")
    <3>1. mem'.status = "Active"
      BY <2>2, StatesAre DEF SaveThen, TypeOK, Statuses
    <3> QED
      BY <2>2, <3>1, StepAfter DEF Honest, Rotation, Saving
  <2>3. CASE ConsumeFails("restart")
    BY <2>1, <2>3, HonestSleep DEF ConsumeFails
  <2>4. CASE EndsWell /\ UNCHANGED streak
    BY <2>1, <2>4, HonestSleep DEF Cycle
  <2>5. CASE mem.status # "Suspended" /\ Goto("pause") /\ UNCHANGED <<mem, tally, streak>>
    BY <2>1, <2>5, StepAfter, HonestGoto DEF Goto, Cycle, Rotation
  <2> QED
    BY <1>3, <2>2, <2>3, <2>4, <2>5 DEF SeeRestart
<1>4. CASE SeePause
  <2>1. at = "pause" /\ UNCHANGED streak /\ mem.status # "Suspended"
    BY <1>4 DEF SeePause, history, Honest, Step, Saving, Rotation
  <2>2. CASE ConsumeFails("pause")
    BY <2>1, <2>2, HonestSleep DEF ConsumeFails
  <2>3. CASE SaveThen(State("Paused", mem.stage), "paused") /\ UNCHANGED tally
    <3>1. mem'.status = "Paused"
      BY <2>3, StatesAre DEF SaveThen, TypeOK, Statuses
    <3> QED
      BY <2>1, <2>3, <3>1, StepAfter, HonestGoto DEF SaveThen, Cycle, Saving
  <2>4. CASE Goto("paused") /\ UNCHANGED <<mem, tally>>
    BY <2>1, <2>4, StepAfter, HonestGoto DEF Goto, Cycle
  <2> QED
    BY <1>4, <2>2, <2>3, <2>4 DEF SeePause
<1>5. CASE SeeResume
  <2>1. at = "paused" /\ UNCHANGED streak /\ mem.status # "Suspended"
    BY <1>5 DEF SeeResume, history, Honest, Step, Saving, Rotation
  <2>2. CASE ConsumeFails("resume")
    BY <2>1, <2>2, HonestSleep DEF ConsumeFails
  <2>3. CASE SaveThen(State("Active", mem.stage), "stage") /\ UNCHANGED tally
    <3>1. mem'.status = "Active"
      BY <2>3, StatesAre DEF SaveThen, TypeOK, Statuses
    <3> QED
      BY <2>1, <2>3, <3>1, StepAfter, HonestGoto DEF SaveThen, Cycle, Saving
  <2>4. CASE (Goto("done") \/ Goto("stage")) /\ UNCHANGED <<mem, tally>>
    BY <2>1, <2>4, StepAfter, HonestGoto DEF Goto, Cycle, Rotation
  <2> QED
    BY <1>5, <2>2, <2>3, <2>4 DEF SeeResume
<1>6. CASE Rotate
  <2>1. at = "stage" /\ UNCHANGED streak /\ mem.status # "Suspended"
    BY <1>6 DEF Rotate, history, Honest, Step, Saving, Rotation
  <2>2. CASE (Goto("done") \/ Goto("run")) /\ UNCHANGED <<mem, tally>>
    BY <2>1, <2>2, StepAfter, HonestGoto DEF Goto, Cycle, Rotation
  <2>3. CASE Fails("context")
    BY <2>1, <2>3, HonestSleep DEF Cycle
  <2> QED
    BY <1>6, <2>2, <2>3 DEF Rotate
<1>7. CASE Report
  <2>1. at = "done" /\ UNCHANGED streak
    BY <1>7 DEF Report, history
  <2> QED
    BY <1>7, <2>1, HonestSleep DEF Report, Cycle
<1> QED
  BY <1>1, <1>2, <1>3, <1>4, <1>5, <1>6, <1>7

(* A failure is on the tracker only after it was one in the row.           *)
LEMMA LostCounts ==
    ASSUME TypeOK, Honest, Lost, faults = 0
    PROVE  tally' <= streak /\ (tally' = MaxFails => streak = MaxFails)
<1>1. tally < streak \/ streak = MaxFails
  BY DEF Lost, Honest, Step, Saving
<1> QED
  BY <1>1 DEF Lost, TypeOK

LEMMA HonestRun ==
    ASSUME TypeOK, Honest, RunSucceeds \/ RunFails \/ Won \/ Lost \/ SaveOpens \/ SaveFills \/ Load
    PROVE  Honest'
<1>1. CASE RunSucceeds
  <2>1. mem'.status = "Active" /\ at' = "save" /\ Step' = "won"
    BY <1>1, StepAfter DEF RunSucceeds, State
  <2> QED
    BY <2>1 DEF Honest
<1>2. CASE RunFails
  <2>1. /\ mem.status # "Suspended"
        /\ faults = 0 => tally <= streak
    BY <1>2 DEF RunFails, Honest, Step, Saving, Rotation
  <2>2. Step' = "lost" /\ at' = "save" /\ UNCHANGED <<mem, tally, faults>>
    BY <1>2, StepAfter DEF RunFails, SaveThen
  <2>3. streak' = IF streak < MaxFails THEN streak + 1 ELSE streak
    BY <1>2 DEF RunFails
  <2> QED
    BY <2>1, <2>2, <2>3 DEF Honest, TypeOK
<1>3. CASE Won
  <2>1. Step' = "done" /\ at' = "done" /\ tally' = 0 /\ streak' \in Nat
    BY <1>3, StepAfter DEF Won, Cycle, history, TypeOK
  <2> QED
    BY <2>1 DEF Honest, Rotation
<1>4. CASE Lost
  <2>1. Step' = "done" /\ at' \in {"save", "done"}
    BY <1>4, StepAfter DEF Lost, Cycle
  <2>2. UNCHANGED <<streak, faults>>
    BY <1>4 DEF Lost, Goto, SaveThen, history
  <2> QED
    BY <1>4, <2>1, <2>2, LostCounts DEF Honest, Rotation
<1>5. CASE SaveOpens
  <2>1. CASE at' = "write" /\ UNCHANGED <<mem, then, fails, tally, faults, streak>>
    <3>1. Step' = Step /\ at = "save"
      BY <1>5, <2>1 DEF SaveOpens, Step, Saving
    <3> QED
      BY <2>1, <3>1 DEF Honest
  <2>2. CASE Fails("save") /\ UNCHANGED streak
    BY <2>2, HonestSleep
  <2> QED
    BY <1>5, <2>1, <2>2 DEF SaveOpens, history
<1>6. CASE SaveFills
  <2>1. /\ at = "write" /\ at' = then /\ UNCHANGED <<mem, then, fails, tally, faults, streak>>
        /\ then \in AfterSave
    BY <1>6 DEF SaveFills, Goto, TypeOK
  <2>2. Step' = Step /\ at' \notin {"none", "sleep", "gone"}
    BY <2>1 DEF Step, Saving, AfterSave
  <2> QED
    BY <2>1, <2>2 DEF Honest
<1>7. CASE Load
  <2>1. /\ at = "sleep" /\ at' = "stop" /\ Step' = "stop" /\ tally' = fails
        /\ UNCHANGED <<streak, faults>>
    BY <1>7, StepAfter DEF Load, Goto, Cycle, history
  <2> QED
    BY <2>1 DEF Honest, Rotation
<1> QED
  BY <1>1, <1>2, <1>3, <1>4, <1>5, <1>6, <1>7

LEMMA HonestStep == TypeOK /\ Known /\ Honest /\ [Next]_vars => Honest'
<1> SUFFICES ASSUME TypeOK, Known, Honest, [Next]_vars PROVE Honest'
  OBVIOUS
<1>1. CASE UNCHANGED <<supVars, streak, faults>>
  BY <1>1 DEF Honest, Step, supVars
<1>2. CASE StartOpens \/ StartFills \/ (\E s \in Signals : Signal(s)) \/ UNCHANGED vars
  BY <1>1, <1>2 DEF StartOpens, StartFills, Signal, history, bounds, vars, supVars
<1>3. CASE Discover
  <2>1. at' \in {"sleep", "gone"} /\ UNCHANGED <<mem, then, fails, tally, streak, faults>>
    BY <1>3 DEF Discover, history, bounds
  <2>2. at = "none"
    BY <1>3 DEF Discover, Known
  <2> QED
    BY <2>1, <2>2 DEF Honest, Step, Saving, Rotation
<1>4. ASSUME NEW l \in Listener,
             Spawn(l) \/ Gate(l) \/ Quiet(l) \/ Wake(l) \/ WakeEnds(l) \/ WakeFills(l)
      PROVE  Honest'
  BY <1>1, <1>4 DEF Spawn, Gate, Quiet, Wake, WakeEnds, WakeFills, history, bounds
<1>5. ASSUME NEW l \in Listener, WakeOpens(l) PROVE Honest'
  <2>1. UNCHANGED <<supVars, streak>> /\ (faults' = faults \/ faults' # 0)
    BY <1>5, FaultsCount DEF WakeOpens, history
  <2> QED
    BY <1>1, <2>1 DEF Honest, Step, supVars
<1>6. CASE Crash
  BY <1>6 DEF Crash, Honest, Step, Saving, Rotation
<1>7. CASE Supervisor
  BY <1>7, HonestCycle, HonestRun DEF Supervisor
<1> QED
  BY <1>2, <1>3, <1>4, <1>5, <1>6, <1>7 DEF Next, Supervisor

(* A session is suspended only after MaxFails goal-runs of the rotation    *)
(* failed in a row (record_failure, team_session.rs:390), unless a call of *)
(* the supervisor failed.                                                  *)
THEOREM SuspensionHasCause == Spec => SuspendsForCause
<1>1. Init => TypeOK /\ Rotating /\ Armed /\ Known /\ Honest
  BY TypeInit DEF Init, Rotating, Armed, Known, Honest, Step, Saving, Rotation
<1>2. ASSUME TypeOK, Honest, [Next]_vars, at = "lost", mem'.status = "Suspended", ~UNCHANGED vars
      PROVE  streak = MaxFails \/ faults > 0
  <2>1. Step = "lost" /\ mem.status # "Suspended"
    BY <1>2 DEF Honest, Step, Saving, Rotation
  <2>2. CASE Lost
    <3>1. tally' = MaxFails
      BY <1>2, <2>1, <2>2 DEF Lost
    <3> QED
      BY <1>2, <2>2, <3>1, LostCounts DEF TypeOK
  <2>3. CASE Crash
    BY <1>2, <2>3, StatesAre DEF Crash
  <2>4. CASE ~Lost /\ ~Crash
    <3>1. CASE UNCHANGED supVars
      BY <1>2, <2>1, <3>1 DEF supVars
    <3>2. CASE Supervisor
      <4>1. \/ Load \/ SeeStop \/ Stops \/ SeeRestart \/ SeePause \/ SeeResume \/ Rotate
            \/ RunSucceeds \/ RunFails \/ Won \/ Report \/ SaveOpens \/ SaveFills
        BY <2>4, <3>2 DEF Supervisor
      <4>2. at # "lost"
        BY <4>1 DEF Load, SeeStop, Stops, SeeRestart, SeePause, SeeResume, Rotate, RunSucceeds,
           RunFails, Won, Report, SaveOpens, SaveFills
      <4> QED
        BY <1>2, <4>2
    <3>3. CASE Discover
      BY <1>2, <2>1, <3>3 DEF Discover
    <3>4. CASE \E l \in Listener : ListenerStep(l)
      BY <3>1, <3>4 DEF ListenerStep, Spawn, Gate, Quiet, Wake, WakeEnds, WakeOpens, WakeFills
    <3>5. CASE StartOpens \/ StartFills \/ (\E s \in Signals : Signal(s)) \/ UNCHANGED vars
      BY <3>1, <3>5 DEF StartOpens, StartFills, Signal, vars, supVars
    <3> QED
      BY <1>2, <2>4, <3>2, <3>3, <3>4, <3>5 DEF Next, Supervisor, ListenerStep
  <2> QED
    BY <2>2, <2>3, <2>4
<1>3. TypeOK /\ Honest /\ [Next]_vars =>
        [(at = "lost" /\ mem'.status = "Suspended") => (streak = MaxFails \/ faults > 0)]_vars
  BY <1>2
<1> QED
  BY <1>1, <1>3, TypeStep, RotatingStep, ArmedStep, KnownStep, HonestStep, PTL DEF Spec, SuspendsForCause

-----------------------------------------------------------------------------
(* What starts after a stop.                                               *)

(* The supervisor writes its status file.                                  *)
ReportsLand == "report" \notin Faults

(* Nothing of the session runs before its first state is written.          *)
Born ==
    starting \/ file = Absent =>
        file \in Unreadable /\ at \in {"none", "gone"} /\ \A l \in Listener : lat[l] = "none"

LEMMA BornStep == TypeOK /\ Known /\ Born /\ [Next]_vars => Born'
<1> SUFFICES ASSUME TypeOK, Known, Born, [Next]_vars PROVE Born'
  OBVIOUS
<1>1. CASE UNCHANGED vars \/ (\E s \in Signals : Signal(s))
  BY <1>1 DEF vars, Signal, supVars, lisVars, Born
<1>2. CASE StartOpens \/ StartFills
  BY <1>2, StatesAre DEF StartOpens, StartFills, Holds, Born, supVars, lisVars, Unreadable
<1>3. CASE Discover
  BY <1>3 DEF Discover, Born, fileVars, lisVars, Readable, Unreadable
<1>4. CASE Crash
  BY <1>4 DEF Crash, Born, fileVars
<1>5. CASE Supervisor
  <2>1. at \notin {"none", "gone"} /\ UNCHANGED starting
    BY <1>5 DEF Supervisor, Load, SeeStop, Stops, SeeRestart, SeePause, SeeResume, Rotate,
       RunSucceeds, RunFails, Won, Lost, Report, SaveOpens, SaveFills, fileVars
  <2>2. ~starting /\ file # Absent
    BY <2>1 DEF Born
  <2>3. CASE SaveFills
    <3>1. PICK f \in Filled(mem) : file' = f
      BY <2>3 DEF SaveFills, Holds
    <3> QED
      BY <2>1, <2>2, <3>1, FilledType, StatesAre DEF Born, TypeOK
  <2>4. CASE SaveOpens
    BY <2>1, <2>2, <2>4 DEF SaveOpens, Born
  <2>5. CASE UNCHANGED file
    BY <2>1, <2>2, <2>5 DEF Born
  <2> QED
    BY <1>5, <2>3, <2>4, <2>5 DEF Supervisor, Load, SeeStop, Stops, SeeRestart, SeePause,
       SeeResume, Rotate, RunSucceeds, RunFails, Won, Lost, Report, fileVars
<1>6. ASSUME NEW l \in Listener, ListenerStep(l) PROVE Born'
  <2>1. ~starting /\ file # Absent
    BY <1>6 DEF Born, ListenerStep, Spawn, Gate, Quiet, Wake, WakeEnds, WakeOpens, WakeFills,
       Readable, Unreadable
  <2>2. UNCHANGED starting
    BY <1>6 DEF ListenerStep, Spawn, Gate, Quiet, Wake, WakeEnds, WakeOpens, WakeFills, fileVars
  <2>3. CASE WakeFills(l)
    <3>1. PICK f \in Filled(lmem[l]) : file' = f
      BY <2>3 DEF WakeFills, Holds
    <3> QED
      BY <2>1, <2>2, <3>1, FilledType, StatesAre DEF Born, TypeOK
  <2>4. CASE WakeOpens(l)
    BY <2>1, <2>2, <2>4 DEF WakeOpens, Born
  <2>5. CASE UNCHANGED file
    BY <2>1, <2>2, <2>5 DEF Born
  <2> QED
    BY <1>6, <2>3, <2>4, <2>5 DEF ListenerStep, Spawn, Gate, Quiet, Wake, WakeEnds, fileVars
<1> QED
  BY <1>1, <1>2, <1>3, <1>4, <1>5, <1>6 DEF Next, Supervisor, ListenerStep

(* Who holds a stopped state in memory, and what is on file once one was   *)
(* written.                                                                *)
Held ==
    /\ Is("Stopped") => stopped
    /\ \A l \in Listener : lmem[l].status = "Stopped" => stopped
    /\ stopped => ~starting /\ file # Absent
    /\ mem.status = "Stopped" => undone \/ Step \in {"stopped", "gone"}
    /\ stopped =>
          \/ undone
          \/ at \in {"none", "gone", "stopped"} /\ (Readable => file.status = "Stopped")

(* Steps that change neither the file nor the history.                     *)
LEMMA HeldQuiet ==
    ASSUME TypeOK, Held, UNCHANGED <<file, starting, stopped, undone, lmem>>,
           mem'.status = "Stopped" => undone \/ Step' \in {"stopped", "gone"},
           at' \in {"none", "gone", "stopped"} \/ at \notin {"none", "gone", "stopped"}
    PROVE  Held'
  BY DEF Held, Is, Readable

LEMMA HeldCycle ==
    ASSUME TypeOK, Born, Held, ReportsLand,
           Load \/ SeeStop \/ Stops \/ SeeRestart \/ SeePause \/ SeeResume \/ Rotate
           \/ RunSucceeds \/ RunFails \/ Won \/ Lost \/ Report
    PROVE  Held'
<1>1. UNCHANGED <<file, starting, stopped, undone, lmem>> /\ at \in Cycle \cup {"sleep"}
  BY DEF Load, SeeStop, Stops, SeeRestart, SeePause, SeeResume, Rotate, RunSucceeds, RunFails,
     Won, Lost, Report, fileVars, lisVars, history, Cycle
<1>2. mem'.status = "Stopped" => undone \/ Step' \in {"stopped", "gone"}
  <2>1. at # "stopped" /\ mem.status = "Stopped" => undone
    BY <1>1 DEF Held, Step, Saving, Cycle
  <2>2. \A s \in {"Active", "Paused", "Suspended"} :
           \A x : SaveThen(State(s, mem.stage), x) => mem'.status = s
    BY StatesAre DEF SaveThen, Statuses, TypeOK
  <2>3. EndsWell \/ (\E k : Fails(k)) => mem'.status = "Active"
    BY StatesAre DEF EndsWell, Fails, Sleep
  <2>4. CASE Load
    BY <2>4 DEF Load, Held, Is, Readable
  <2>5. CASE SeeStop
    BY <2>1, <2>3, <2>5, StepAfter DEF SeeStop, ConsumeFails
  <2>6. CASE Stops
    BY <2>3, <2>6 DEF Stops, Goto, Step, Saving
  <2>7. CASE SeeRestart
    BY <2>1, <2>2, <2>3, <2>7 DEF SeeRestart, ConsumeFails
  <2>8. CASE SeePause
    BY <2>1, <2>2, <2>3, <2>8 DEF SeePause, ConsumeFails
  <2>9. CASE SeeResume
    BY <2>1, <2>2, <2>3, <2>9 DEF SeeResume, ConsumeFails
  <2>10. CASE Rotate \/ RunFails \/ Won
    BY <2>1, <2>3, <2>10 DEF Rotate, RunFails, Won, SaveThen
  <2>11. CASE RunSucceeds
    <3>1. mem'.status = "Active"
      BY <2>11 DEF RunSucceeds, SaveThen, State
    <3> QED
      BY <3>1
  <2>12. CASE Lost
    BY <2>1, <2>2, <2>12 DEF Lost
  <2>13. CASE Report
    BY <2>3, <2>13 DEF Report
  <2> QED
    BY <2>4, <2>5, <2>6, <2>7, <2>8, <2>9, <2>10, <2>11, <2>12, <2>13
<1>3. at = "stopped" => at' = "gone"
  BY DEF Load, SeeStop, Stops, SeeRestart, SeePause, SeeResume, Rotate, RunSucceeds, RunFails,
     Won, Lost, Report, Goto, Fails, Breaks, ReportsLand
<1> QED
  BY <1>1, <1>2, <1>3, HeldQuiet DEF Cycle

LEMMA HeldSave ==
    ASSUME TypeOK, Born, Held, ReportsLand, SaveOpens \/ SaveFills
    PROVE  Held'
<1>1. at \in Saving /\ ~starting /\ file # Absent /\ UNCHANGED <<starting, undone, lmem>>
  BY DEF SaveOpens, SaveFills, Born, Saving, lisVars, history
<1>2. stopped => undone
  BY <1>1 DEF Held, Saving
<1>3. CASE SaveOpens
  <2>1. file' \in {file, Empty} /\ UNCHANGED stopped
    BY <1>3 DEF SaveOpens, history
  <2>2. mem'.status = "Stopped" => undone \/ Step' \in {"stopped", "gone"}
    <3>1. CASE at' = "write" /\ UNCHANGED <<mem, then>>
      BY <1>1, <3>1 DEF Held, Step, Saving
    <3>2. CASE Fails("save")
      BY <3>2, StatesAre DEF Fails, Sleep
    <3> QED
      BY <1>3, <3>1, <3>2 DEF SaveOpens
  <2>3. file' # Absent /\ (Is("Stopped")' => Is("Stopped"))
    BY <1>1, <2>1, StatesAre DEF Is, Readable
  <2> QED
    BY <1>1, <1>2, <2>1, <2>2, <2>3 DEF Held
<1>4. CASE SaveFills
  <2>1. PICK f \in Filled(mem) : file' = f
    BY <1>4 DEF SaveFills, Holds
  <2>2. /\ file' \in {mem, Mixed} /\ file' # Absent
        /\ Readable' => file' = mem
    BY <1>4, <2>1, FilledType, StatesAre DEF TypeOK, Readable
  <2>3. UNCHANGED mem /\ at' = then /\ Step = then /\ Step' = then
    BY <1>4 DEF SaveFills, Goto, Step, Saving, TypeOK, AfterSave
  <2>4. mem.status = "Stopped" => undone \/ then = "stopped"
    BY <2>3 DEF Held, TypeOK, AfterSave
  <2>5. stopped' <=> (stopped \/ mem.status = "Stopped")
    BY <1>4 DEF SaveFills
  <2>6. Is("Stopped")' => stopped'
    BY <2>2, <2>5 DEF Is
  <2>7. stopped' => undone \/ (at' = "stopped" /\ (Readable' => file'.status = "Stopped"))
    BY <1>2, <2>2, <2>3, <2>4, <2>5
  <2>8. \A l \in Listener : lmem'[l].status = "Stopped" => stopped'
    BY <1>1, <2>5 DEF Held
  <2> QED
    BY <1>1, <2>2, <2>3, <2>4, <2>6, <2>7, <2>8 DEF Held
<1> QED
  BY <1>3, <1>4

LEMMA HeldListener ==
    ASSUME TypeOK, Born, Held, NEW l \in Listener, ListenerStep(l)
    PROVE  Held'
<1>1. UNCHANGED <<starting, at, mem, then, stopped>> /\ Step' = Step
  BY DEF ListenerStep, Spawn, Gate, Quiet, Wake, WakeEnds, WakeOpens, WakeFills, fileVars, supVars,
     history, Step
<1>2. CASE Spawn(l) \/ Gate(l) \/ Quiet(l) \/ WakeEnds(l)
  BY <1>1, <1>2 DEF Spawn, Gate, Quiet, WakeEnds, fileVars, history, Held, Is, Readable
<1>3. CASE Wake(l)
  <2>1. /\ UNCHANGED <<file, undone>> /\ Readable
        /\ \A k \in Listener : lmem'[k] \in {lmem[k], file}
    BY <1>3 DEF Wake, fileVars, TypeOK
  <2>2. \A k \in Listener : lmem'[k].status = "Stopped" => stopped
    BY <2>1 DEF Held, Is
  <2> QED
    BY <1>1, <2>1, <2>2 DEF Held, Is, Readable
<1>4. CASE WakeOpens(l)
  <2>1. file' \in {file, Empty} /\ UNCHANGED <<lmem, undone>>
    BY <1>4 DEF WakeOpens, history
  <2> QED
    BY <1>1, <2>1, StatesAre DEF Held, Is, Readable
<1>5. CASE WakeFills(l)
  <2>1. PICK f \in Filled(lmem[l]) : file' = f
    BY <1>5 DEF WakeFills, Holds
  <2>2. /\ file' # Absent
        /\ Readable' => file' = lmem[l]
    BY <2>1, FilledType, StatesAre DEF TypeOK, Readable
  <2>3. UNCHANGED lmem /\ (undone' <=> (undone \/ (stopped /\ lmem[l].status # "Stopped")))
    BY <1>5 DEF WakeFills
  <2>4. Is("Stopped")' => stopped'
    BY <1>1, <2>2 DEF Held, Is
  <2>5. stopped => undone' \/ (at \in {"none", "gone", "stopped"} /\ (Readable' => file'.status = "Stopped"))
    BY <2>2, <2>3 DEF Held
  <2> QED
    BY <1>1, <2>2, <2>3, <2>4, <2>5 DEF Held
<1> QED
  BY <1>2, <1>3, <1>4, <1>5 DEF ListenerStep

LEMMA HeldStep == ReportsLand /\ TypeOK /\ Known /\ Born /\ Held /\ [Next]_vars => Held'
<1> SUFFICES ASSUME ReportsLand, TypeOK, Known, Born, Held, [Next]_vars PROVE Held'
  OBVIOUS
<1>1. CASE UNCHANGED vars \/ (\E s \in Signals : Signal(s))
  BY <1>1 DEF vars, Signal, supVars, lisVars, history, Held, Is, Readable, Step
<1>2. CASE StartOpens \/ StartFills
  <2>1. /\ ~stopped /\ UNCHANGED <<stopped, undone, lmem, mem, at, then>>
        /\ file' \in {Empty, Fresh}
    BY <1>2 DEF StartOpens, StartFills, Holds, Held, supVars, lisVars, history
  <2>2. ~Is("Stopped")'
    BY <2>1, StatesAre DEF Is, Readable
  <2> QED
    BY <2>1, <2>2 DEF Held, Step
<1>3. CASE Discover
  <2>1. /\ UNCHANGED <<file, starting, stopped, undone, lmem, mem>> /\ at = "none"
        /\ at' = IF Readable /\ ~Is("Stopped") THEN "sleep" ELSE "gone"
    BY <1>3 DEF Discover, fileVars, lisVars, history, Known
  <2>2. mem.status = "Stopped" => undone
    BY <2>1 DEF Held, Step, Saving
  <2>3. stopped => undone \/ at' = "gone"
    BY <2>1 DEF Held, Is
  <2> QED
    BY <2>1, <2>2, <2>3 DEF Held, Is, Readable
<1>4. CASE Crash
  BY <1>4, StatesAre DEF Crash, fileVars, Held, Is, Readable
<1>5. CASE Supervisor
  BY <1>5, HeldCycle, HeldSave DEF Supervisor
<1>6. CASE \E l \in Listener : ListenerStep(l)
  BY <1>6, HeldListener
<1> QED
  BY <1>1, <1>2, <1>3, <1>4, <1>5, <1>6 DEF Next, Supervisor, ListenerStep

(* After Stopped was written the rotation starts no goal-run, in this life *)
(* of the daemon or a later one, unless a listener wrote over it; provided *)
(* the supervisor can report its status, for a failed report makes it go   *)
(* on (run_one_cycle, team_session.rs:753).                          *)
THEOREM StopEndsTheRotation ==
    ASSUME ReportsLand
    PROVE  Spec => StopEndsRotation
<1>1. Init => TypeOK /\ Rotating /\ Armed /\ Known /\ Born /\ Held
  BY TypeInit, StatesAre DEF Init, Rotating, Armed, Known, Born, Held, Is, Readable, Unreadable, Step
<1>2. TypeOK /\ Held /\ [Next]_vars =>
        [(at = "stage" /\ at' = "run") => (~stopped \/ undone)]_vars
  BY DEF Held
<1>3. TypeOK /\ Known /\ Born /\ Held /\ [Next]_vars => Held'
  BY HeldStep, ReportsLand
<1> QED
  BY <1>1, <1>2, <1>3, TypeStep, RotatingStep, ArmedStep, KnownStep, BornStep, PTL DEF Spec, StopEndsRotation
===============================================================================
