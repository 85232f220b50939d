--------------------------- MODULE LifecycleProofs ---------------------------
(***************************************************************************)
(* Theorems about Lifecycle, for any builds, work and number of helpers,   *)
(* crashes and failing calls, but for the two kinds of failure the         *)
(* theorems name.                                                          *)
(***************************************************************************)
EXTENDS Lifecycle, TLAPS

USE LifecycleAssumption DEF LifecycleAssumption

Places == {"none", "drain", "stop", "exit", "start"}

LEMMA GotoType ==
    ASSUME TypeOK, NEW h \in Helper, NEW step \in Places, Goto(h, step)
    PROVE  /\ helper' \in [Helper -> Places]
           /\ helper'[h] = step
           /\ \A k \in Helper : k # h => helper'[k] = helper[k]
<1>1. helper \in [Helper -> Places] /\ helper' = [helper EXCEPT ![h] = step]
  BY DEF TypeOK, Places, Goto
<1> QED
  BY <1>1

LEMMA BeganType ==
    ASSUME TypeOK, NEW h \in Helper, began' = [began EXCEPT ![h] = {}]
    PROVE  /\ began' \in [Helper -> SUBSET Launch]
           /\ began'[h] = {}
           /\ \A k \in Helper : k # h => began'[k] = began[k]
  BY DEF TypeOK

LEMMA TypeInit == Init => TypeOK
<1> SUFFICES ASSUME Init PROVE TypeOK
  OBVIOUS
<1>1. helper \in [Helper -> Places] /\ began \in [Helper -> SUBSET Launch]
  BY DEF Init, Places
<1>2. /\ 0 \in 0..MaxAttempts /\ 0 \in 0..MaxInstalls /\ 0 \in 0..MaxManual
      /\ 0 \in 0..MaxFaults
  OBVIOUS
<1> QED
  BY <1>1, <1>2 DEF Init, TypeOK, Work, Places

LEMMA TypeAround ==
    ASSUME TypeOK, (\E b \in Builds : Install(b)) \/ (\E w \in Work : Begin(w) \/ End(w)) \/ Cool
    PROVE  TypeOK'
<1>1. CASE \E b \in Builds : Install(b)
  BY <1>1 DEF Install, TypeOK, guard
<1>2. ASSUME NEW w \in Work, Begin(w) PROVE TypeOK'
  <2>1. began' \in [Helper -> SUBSET Launch]
    BY <1>2 DEF Begin, TypeOK
  <2>2. work' \subseteq Work
    BY <1>2 DEF Begin, TypeOK
  <2> QED
    BY <1>2, <2>1, <2>2 DEF Begin, TypeOK, guard, bounds
<1>3. CASE (\E w \in Work : End(w)) \/ Cool
  BY <1>3 DEF End, Cool, TypeOK, guard, bounds
<1> QED
  BY <1>1, <1>2, <1>3

LEMMA TypeCheck ==
    ASSUME TypeOK, Look \/ Decide \/ Spawn
    PROVE  TypeOK'
<1>1. CASE Look
  BY <1>1 DEF Look, TypeOK, guard, bounds
<1>2. CASE Decide
  <2>1. CASE UpToDate \/ (Waits /\ UNCHANGED row)
             \/ (NotNow /\ Breaks("read") /\ UNCHANGED row)
    <3>1. faults' \in 0..MaxFaults /\ row' \in {row, 0}
      BY <2>1 DEF UpToDate, Waits, Breaks, TypeOK
    <3>2. \/ target' = NoBuild /\ attempts' = 0 /\ cooled' = TRUE /\ check' = "wait"
          \/ UNCHANGED <<target, attempts, cooled>> /\ check' = "wait"
      BY <2>1 DEF UpToDate, Waits, NotNow, guard
    <3>3. target' \in Builds \cup {NoBuild} /\ attempts' \in 0..MaxAttempts
      BY <3>2 DEF TypeOK
    <3>4. cooled' \in BOOLEAN /\ check' \in {"wait", "busy", "idle", "spawn"}
      BY <3>2 DEF TypeOK
    <3> QED
      BY <1>2, <3>1, <3>3, <3>4 DEF Decide, TypeOK
  <2>2. CASE Records /\ UNCHANGED row
    <3>1. MayTry => NextAttempt \in 0..MaxAttempts
      BY DEF TypeOK, MayTry, Untried, NextAttempt
    <3>2. faults' \in 0..MaxFaults
      BY <2>2 DEF Records, Breaks, TypeOK
    <3>3. \/ /\ target' = installed /\ attempts' = NextAttempt /\ MayTry
             /\ cooled' = FALSE /\ check' = "spawn"
          \/ target' = NoBuild /\ attempts' = 0 /\ cooled' = TRUE /\ check' = "wait"
          \/ UNCHANGED <<target, attempts, cooled>> /\ check' = "wait"
      BY <2>2 DEF Records, NotNow, guard
    <3>4. target' \in Builds \cup {NoBuild} /\ attempts' \in 0..MaxAttempts
      BY <3>1, <3>3 DEF TypeOK
    <3>5. cooled' \in BOOLEAN /\ check' \in {"wait", "busy", "idle", "spawn"}
      BY <3>3 DEF TypeOK
    <3> QED
      BY <1>2, <2>2, <3>2, <3>4, <3>5 DEF Decide, TypeOK
  <2> QED
    BY <1>2, <2>1, <2>2 DEF Decide
<1>3. CASE Spawn
  <2>1. CASE Breaks("spawn") /\ UNCHANGED <<helper, began, row>>
    BY <1>3, <2>1 DEF Spawn, Breaks, TypeOK, guard
  <2>2. ASSUME NEW h \in Helper, Goto(h, "drain"), began' = [began EXCEPT ![h] = {}],
               row' = (IF target = installed THEN row + 1 ELSE row), UNCHANGED faults
        PROVE  TypeOK'
    <3>1. helper' \in [Helper -> Places] /\ began' \in [Helper -> SUBSET Launch]
      BY <2>2, GotoType, BeganType DEF Places
    <3> QED
      BY <1>3, <2>2, <3>1 DEF Spawn, TypeOK, guard, Places
  <2> QED
    BY <1>3, <2>1, <2>2 DEF Spawn, Goto
<1> QED
  BY <1>1, <1>2, <1>3

HelperStep(h) ==
    Manual(h) \/ Drain(h) \/ Stop(h) \/ AwaitExit(h) \/ Start(h) \/ Die(h)

LEMMA RunsType ==
    ASSUME TypeOK, NEW b \in Builds, Runs(b)
    PROVE  /\ daemon' = "up" /\ running' \in Builds /\ installed' \in Builds
           /\ row' \in Nat /\ excused' \in BOOLEAN /\ UNCHANGED guard
  BY DEF TypeOK, Runs

LEMMA TypeHelper ==
    ASSUME TypeOK, NEW h \in Helper, HelperStep(h)
    PROVE  TypeOK'
<1>1. helper' \in [Helper -> Places]
  BY GotoType DEF HelperStep, Manual, Drain, Stop, AwaitExit, Start, Die, Places
<1>2. began' \in [Helper -> SUBSET Launch]
  <2>1. began' = began \/ began' = [began EXCEPT ![h] = {}]
    BY DEF HelperStep, Manual, Drain, Stop, AwaitExit, Start, Die
  <2> QED
    BY <2>1, BeganType DEF TypeOK
<1>3. CASE Manual(h) \/ Drain(h)
  BY <1>1, <1>2, <1>3 DEF Manual, Drain, Breaks, TypeOK, guard, Places
<1>4. CASE Stop(h)
  <2>1. /\ daemon' \in {"up", "dying", "down"} /\ check' \in {"wait", check}
        /\ work' \in {work, work \cap Outside}
    BY <1>4 DEF Stop
  <2> QED
    BY <1>1, <1>2, <1>4, <2>1 DEF Stop, TypeOK, guard, Places, bounds
<1>5. CASE AwaitExit(h)
  BY <1>1, <1>2, <1>5 DEF AwaitExit, TypeOK, guard, Places, bounds
<1>7. CASE Start(h)
  <2>1. CASE daemon # "down" /\ UNCHANGED <<daemon, running, installed, guard, row, excused>>
    BY <1>1, <1>2, <1>7, <2>1 DEF Start, TypeOK, guard, Places, bounds
  <2>2. CASE excused' = TRUE /\ UNCHANGED <<daemon, running, installed, guard, row>>
    BY <1>1, <1>2, <1>7, <2>2 DEF Start, TypeOK, guard, Places, bounds
  <2>3. CASE Runs(found)
    <3>1. /\ daemon' = "up" /\ running' \in Builds /\ installed' \in Builds
          /\ row' \in Nat /\ excused' \in BOOLEAN /\ UNCHANGED guard
      BY <2>3, RunsType DEF TypeOK
    <3> QED
      BY <1>1, <1>2, <1>7, <3>1 DEF Start, TypeOK, guard, Places, bounds
  <2> QED
    BY <1>7, <2>1, <2>2, <2>3 DEF Start
<1>6. CASE Die(h)
  BY <1>1, <1>2, <1>6 DEF Die, Breaks, TypeOK, guard, Places
<1> QED
  BY <1>3, <1>4, <1>5, <1>6, <1>7 DEF HelperStep

LEMMA TypeEnd ==
    ASSUME TypeOK, DaemonExits \/ Crash \/ \E b \in Builds : Revive(b)
    PROVE  TypeOK'
<1>4. CASE \E b \in Builds : Revive(b)
  BY <1>4, RunsType DEF Revive, TypeOK, guard, bounds
<1>1. DaemonExits \/ Crash => work' \subseteq Work
  BY DEF DaemonExits, Crash, TypeOK
<1>2. CASE DaemonExits
  BY <1>1, <1>2 DEF DaemonExits, TypeOK, guard, bounds
<1>3. CASE Crash
  BY <1>1, <1>3 DEF Crash, Breaks, TypeOK, guard
<1> QED
  BY <1>2, <1>3, <1>4

LEMMA TypeStep == TypeOK /\ [Next]_vars => TypeOK'
<1> SUFFICES ASSUME TypeOK, [Next]_vars PROVE TypeOK'
  OBVIOUS
<1>1. CASE UNCHANGED vars
  BY <1>1 DEF vars, TypeOK
<1> QED
  BY <1>1, TypeAround, TypeCheck, TypeHelper, TypeEnd DEF Next, HelperStep

(* The state keeps its shape: in particular the guard file never counts    *)
(* more than MaxAttempts attempts (evaluate, guard.rs:73).                 *)
THEOREM TypeCorrect == Spec => []TypeOK
  BY TypeInit, TypeStep, PTL DEF Spec

-----------------------------------------------------------------------------
(* The guard file is never behind the restarts handed over for the build   *)
(* that is installed, and while one is being handed over it is ahead.  The *)
(* file outlives the daemons: what is started, and whether it runs the     *)
(* installed build, makes no difference to it.                             *)
Counted ==
    /\ daemon # "up" => check = "wait"
    /\ target = installed => row <= attempts
    /\ target # installed => row = 0
    /\ check = "spawn" => attempts >= 1
    /\ check = "spawn" /\ target = installed => row < attempts

WritesWhole == "torn" \notin Faults

(* Whatever build comes up, the count goes on, unless the check now looks  *)
(* at another build.                                                       *)
LEMMA CountedRuns ==
    ASSUME TypeOK, Counted, daemon = "down", NEW b \in Builds, Runs(b), UNCHANGED check
    PROVE  Counted'
<1>1. check = "wait" /\ UNCHANGED <<target, attempts>>
  BY DEF Counted, Runs, guard
<1>2. CASE installed' = installed
  BY <1>1, <1>2 DEF Runs, Counted
<1>3. CASE installed' # installed
  BY <1>1, <1>3 DEF Runs, Counted, TypeOK
<1> QED
  BY <1>2, <1>3

LEMMA CountedStep == WritesWhole /\ TypeOK /\ Counted /\ [Next]_vars => Counted'
<1> SUFFICES ASSUME WritesWhole, TypeOK, Counted, [Next]_vars PROVE Counted'
  OBVIOUS
<1> USE DEF Counted
<1>1. CASE UNCHANGED vars
  BY <1>1 DEF vars
<1>2. CASE \E b \in Builds : Install(b)
  BY <1>2 DEF Install, guard, TypeOK
<1>3. CASE (\E w \in Work : Begin(w) \/ End(w)) \/ Cool
  BY <1>3 DEF Begin, End, Cool, guard
<1>4. CASE Look
  BY <1>4 DEF Look, guard
<1>5. CASE Decide
  <2>1. CASE UpToDate
    BY <1>5, <2>1 DEF Decide, UpToDate, TypeOK
  <2>2. CASE UNCHANGED row /\ (Waits \/ (NotNow /\ Breaks("read")))
    BY <1>5, <2>2 DEF Decide, Waits, NotNow, guard
  <2>3. CASE Records /\ UNCHANGED row
    <3>1. ~Breaks("torn")
      BY DEF WritesWhole, Breaks
    <3>2. CASE NotNow
      BY <1>5, <2>3, <3>2 DEF Decide, NotNow, guard
    <3>3. CASE target' = installed /\ attempts' = NextAttempt /\ check' = "spawn"
      <4>1. row < NextAttempt
        BY <1>5 DEF NextAttempt, Untried, TypeOK
      <4> QED
        BY <1>5, <2>3, <3>3, <4>1 DEF Decide, Records, NextAttempt, Untried, TypeOK
    <3> QED
      BY <2>3, <3>1, <3>2, <3>3 DEF Records
  <2> QED
    BY <1>5, <2>1, <2>2, <2>3 DEF Decide
<1>6. CASE Spawn
  BY <1>6 DEF Spawn, guard, TypeOK
<1>7. ASSUME NEW h \in Helper, HelperStep(h) PROVE Counted'
  <2>1. CASE Manual(h) \/ Drain(h) \/ AwaitExit(h) \/ Die(h)
    BY <2>1 DEF Manual, Drain, AwaitExit, Die, guard
  <2>2. CASE Stop(h)
    BY <2>2 DEF Stop, guard
  <2>3. CASE Start(h)
    <3>1. CASE UNCHANGED <<daemon, installed, guard, row>>
      BY <2>3, <3>1 DEF Start, guard
    <3>2. CASE daemon = "down" /\ Runs(found)
      BY <2>3, <3>2, CountedRuns DEF Start, TypeOK
    <3> QED
      BY <2>3, <3>1, <3>2 DEF Start
  <2> QED
    BY <1>7, <2>1, <2>2, <2>3 DEF HelperStep
<1>8. CASE DaemonExits \/ Crash
  BY <1>8 DEF DaemonExits, Crash, guard
<1>9. CASE \E b \in Builds : Revive(b)
  BY <1>9, CountedRuns DEF Revive
<1> QED
  BY <1>1, <1>2, <1>3, <1>4, <1>5, <1>6, <1>7, <1>8, <1>9 DEF Next, HelperStep

(* For an installed build at most MaxAttempts restarts are handed over     *)
(* until a check finds it running (record_attempt, guard.rs:102), through  *)
(* restarts that do not converge, builds that exit at once and daemons     *)
(* that are started again, crashes, dying helpers and restarts by hand,    *)
(* provided no write of the guard file is torn: what cannot be read counts *)
(* as no attempts (load, guard.rs:66).                                     *)
THEOREM RestartsCapped ==
    ASSUME WritesWhole
    PROVE  Spec => []RestartCap
<1>1. Init => TypeOK /\ Counted
  BY TypeInit DEF Init, Counted
<1>2. TypeOK /\ Counted /\ [Next]_vars => Counted'
  BY CountedStep, WritesWhole
<1>3. TypeOK /\ Counted => RestartCap
  BY DEF TypeOK, Counted, RestartCap
<1> QED
  BY <1>1, <1>2, <1>3, TypeStep, PTL DEF Spec

-----------------------------------------------------------------------------
(* A helper that is about to stop the daemon knows of every launch that    *)
(* did not begin since, and a new daemon has none.                         *)
Unseen ==
    /\ daemon = "down" => work \cap Launch = {}
    /\ \A h \in Helper :
          helper[h] = "stop" /\ daemon = "up" => work \cap Launch \subseteq began[h]

PollsAnswered == "poll" \notin Faults

LEMMA UnseenAround ==
    ASSUME TypeOK, Unseen, NEW w \in Work, Begin(w) \/ End(w)
    PROVE  Unseen'
<1>1. UNCHANGED <<daemon, helper>>
  BY DEF Begin, End
<1>2. CASE Begin(w)
  <2>1. \A h \in Helper : began'[h] = began[h] \cup ({w} \cap Launch)
    BY <1>2 DEF Begin
  <2>2. work' = work \cup {w} /\ (w \in Launch => daemon = "up")
    BY <1>2 DEF Begin
  <2> QED
    BY <1>1, <2>1, <2>2 DEF Unseen
<1>3. CASE End(w)
  BY <1>1, <1>3 DEF End, Unseen
<1> QED
  BY <1>2, <1>3

LEMMA UnseenHelper ==
    ASSUME PollsAnswered, TypeOK, Unseen, NEW h \in Helper, HelperStep(h)
    PROVE  Unseen'
<1>1. CASE Manual(h)
  <2>1. UNCHANGED <<daemon, work>> /\ Goto(h, "drain")
        /\ began' = [began EXCEPT ![h] = {}]
    BY <1>1 DEF Manual
  <2> QED
    BY <2>1, GotoType, BeganType DEF Unseen, Places
<1>2. CASE Drain(h)
  <2>1. UNCHANGED <<daemon, work>> /\ ~Breaks("poll")
    BY <1>2 DEF Drain, PollsAnswered, Breaks
  <2>2. CASE Goto(h, "none") /\ UNCHANGED began
    BY <2>1, <2>2, GotoType DEF Unseen, Places
  <2>3. CASE /\ daemon # "up" \/ work \cap (Launch \cup Outside) = {}
             /\ Goto(h, "stop") /\ began' = [began EXCEPT ![h] = {}]
    <3>1. daemon = "up" => work \cap Launch = {}
      BY <2>3
    <3> QED
      BY <2>1, <2>3, <3>1, GotoType, BeganType DEF Unseen, Places
  <2> QED
    BY <1>2, <2>1, <2>2, <2>3 DEF Drain
<1>3. CASE Stop(h)
  <2>1. /\ daemon' = "down" => (work' \cap Launch = {})
        /\ daemon' # "up"
    BY <1>3 DEF Stop, Unseen, TypeOK
  <2> QED
    BY <2>1 DEF Unseen
<1>4. CASE AwaitExit(h)
  <2>1. UNCHANGED <<daemon, work, began>> /\ (Goto(h, "start") \/ Goto(h, "none"))
    BY <1>4 DEF AwaitExit
  <2> QED
    BY <2>1, GotoType DEF Unseen, Places
<1>5. CASE Start(h)
  <2>1. /\ UNCHANGED <<work, began>> /\ Goto(h, "none")
        /\ daemon' = daemon \/ (daemon = "down" /\ daemon' = "up")
    BY <1>5 DEF Start, Runs
  <2> QED
    BY <2>1, GotoType DEF Unseen, Places
<1>6. CASE Die(h)
  <2>1. UNCHANGED <<daemon, work, began>> /\ Goto(h, "none")
    BY <1>6 DEF Die
  <2> QED
    BY <2>1, GotoType DEF Unseen, Places
<1> QED
  BY <1>1, <1>2, <1>3, <1>4, <1>5, <1>6 DEF HelperStep

LEMMA UnseenStep == PollsAnswered /\ TypeOK /\ Unseen /\ [Next]_vars => Unseen'
<1> SUFFICES ASSUME PollsAnswered, TypeOK, Unseen, [Next]_vars PROVE Unseen'
  OBVIOUS
<1>1. CASE UNCHANGED vars \/ (\E b \in Builds : Install(b)) \/ Cool \/ Look \/ Decide
  BY <1>1 DEF vars, Install, Cool, Look, Decide, Unseen
<1>2. CASE Spawn
  <2>1. CASE UNCHANGED <<helper, began>>
    BY <1>2, <2>1 DEF Spawn, Unseen
  <2>2. ASSUME NEW h \in Helper, Goto(h, "drain"), began' = [began EXCEPT ![h] = {}]
        PROVE  Unseen'
    BY <1>2, <2>2, GotoType, BeganType DEF Spawn, Unseen, Places
  <2> QED
    BY <1>2, <2>1, <2>2 DEF Spawn, Goto
<1>3. CASE DaemonExits \/ Crash \/ \E b \in Builds : Revive(b)
  BY <1>3 DEF DaemonExits, Crash, Revive, Runs, Unseen
<1> QED
  BY <1>1, <1>2, <1>3, UnseenAround, UnseenHelper DEF Next, HelperStep

(* A wake launch that a restart cuts short began after the helper's last   *)
(* look (wait_for_idle, drain.rs:291), provided every poll is answered: a  *)
(* poll that fails counts as nothing to wait for.                          *)
THEOREM CutsAreUnseen ==
    ASSUME PollsAnswered
    PROVE  Spec => CutsOnlyTheUnseen
<1>1. Init => TypeOK /\ Unseen
  BY TypeInit DEF Init, Unseen
<1>2. TypeOK /\ Unseen /\ [Next]_vars => Unseen'
  BY UnseenStep, PollsAnswered
<1>3. Unseen => [\A h \in Helper :
          (helper[h] = "stop" /\ helper'[h] # "stop" /\ daemon = "up" /\ daemon' # "up")
              => work \cap Launch \subseteq began[h]]_vars
  BY DEF Unseen
<1> QED
  BY <1>1, <1>2, <1>3, TypeStep, PTL DEF Spec, CutsOnlyTheUnseen

-----------------------------------------------------------------------------
(* A dying daemon has a helper that waits for its end, and one that has    *)
(* ended a helper that is about to start the next.                         *)
Awaited ==
    /\ daemon = "dying" => excused \/ \E h \in Helper : helper[h] = "exit"
    /\ daemon = "down" => excused \/ \E h \in Helper : helper[h] \in {"exit", "start"}

LEMMA AwaitedHelper ==
    ASSUME TypeOK, Awaited, NEW h \in Helper, HelperStep(h)
    PROVE  Awaited'
<1>1. CASE Manual(h) \/ Drain(h)
  <2>1. /\ UNCHANGED <<daemon, excused>> /\ helper[h] \notin {"exit", "start"}
        /\ \A k \in Helper : k # h => helper'[k] = helper[k]
    BY <1>1, GotoType DEF Manual, Drain, Places
  <2> QED
    BY <2>1 DEF Awaited
<1>2. CASE Stop(h)
  <2>1. CASE daemon' = "down" /\ Goto(h, "start")
    BY <2>1, GotoType DEF Awaited, Places
  <2>2. CASE daemon' = "dying" /\ Goto(h, "exit")
    BY <2>2, GotoType DEF Awaited, Places
  <2> QED
    BY <1>2, <2>1, <2>2 DEF Stop
<1>3. CASE AwaitExit(h)
  <2>1. CASE daemon # "dying" /\ Goto(h, "start")
    BY <1>3, <2>1, GotoType DEF AwaitExit, Awaited, Places
  <2>2. CASE excused'
    BY <2>2 DEF Awaited
  <2> QED
    BY <1>3, <2>1, <2>2 DEF AwaitExit
<1>4. CASE Start(h)
  <2>1. CASE daemon # "down" /\ UNCHANGED <<daemon, excused>>
    <3>1. helper[h] = "start" /\ (\A k \in Helper : k # h => helper'[k] = helper[k])
      BY <1>4, GotoType DEF Start, Places
    <3> QED
      BY <2>1, <3>1 DEF Awaited
  <2>2. CASE excused' \/ daemon' = "up"
    BY <2>2 DEF Awaited
  <2> QED
    BY <1>4, <2>1, <2>2 DEF Start, Runs
<1>5. CASE Die(h)
  BY <1>5 DEF Die, Awaited
<1> QED
  BY <1>1, <1>2, <1>3, <1>4, <1>5 DEF HelperStep

LEMMA AwaitedStep == TypeOK /\ Awaited /\ [Next]_vars => Awaited'
<1> SUFFICES ASSUME TypeOK, Awaited, [Next]_vars PROVE Awaited'
  OBVIOUS
<1>1. CASE \/ UNCHANGED vars \/ Cool \/ Look \/ Decide
           \/ (\E b \in Builds : Install(b)) \/ (\E w \in Work : Begin(w) \/ End(w))
  BY <1>1 DEF vars, Install, Begin, End, Cool, Look, Decide, Awaited
<1>2. CASE Spawn
  BY <1>2 DEF Spawn, Awaited
<1>3. CASE DaemonExits \/ Crash \/ \E b \in Builds : Revive(b)
  BY <1>3 DEF DaemonExits, Crash, Revive, Runs, Awaited
<1> QED
  BY <1>1, <1>2, <1>3, AwaitedHelper DEF Next, HelperStep

(* A project is left without a daemon only by a broken build, a slow exit  *)
(* or a death, however many restarts meet (restart_with, daemon.rs:877).   *)
THEOREM DownHasCause == Spec => []DownForCause
<1>1. Init => TypeOK /\ Awaited
  BY TypeInit DEF Init, Awaited
<1>2. TypeOK /\ Awaited => DownForCause
  BY DEF TypeOK, Awaited, DownForCause
<1> QED
  BY <1>1, <1>2, TypeStep, AwaitedStep, PTL DEF Spec
===============================================================================
