---------------------------- MODULE WakeRetryProofs ----------------------------
(***************************************************************************)
(* Theorems about WakeRetry, for any listeners, streams, messages, limits, *)
(* crashes and failing calls, but for the record of a finished message:    *)
(* when that write fails the code only logs it and acks all the same.      *)
(***************************************************************************)
EXTENDS WakeRetry, TLAPS

(* The record of a finished message reaches the disk.                      *)
RecordsLand == "finish" \notin Faults

(* A listener has a message exactly while it processes one.                *)
Jobs == \A l \in Listener : pc[l] \in {"start", "sweep", "idle"} \/ job[l] \in Msg

(* The attempt that runs is the one on record, and its lease holds.        *)
Leased ==
    \A l \in Listener : pc[l] \in Working /\ fin[job[l]] = "none" =>
        att[job[l]].is # "due" /\ held[l] = att[job[l]].tries

Exclusive ==
    \A l, k \in Listener :
        pc[l] \in Working /\ pc[k] \in Working /\ job[l] = job[k] => l = k

(* Every launch of an unfinished message is on record.                     *)
Counted == \A m \in Msg : fin[m] = "none" => launches[m] = att[m].tries

(* What is about to be acked is finished.                                  *)
DoneFirst == \A l \in Listener : pc[l] \in {"ack", "remove"} => fin[job[l]] # "none"

WakeInv == TypeOK /\ Jobs /\ Leased /\ Exclusive /\ Counted /\ DoneFirst /\ LaunchCap

USE WakeAssumption DEF WakeAssumption

LEMMA WakeInit == Init => WakeInv
  BY DEF Init, WakeInv, TypeOK, Jobs, Leased, Exclusive, Counted, DoneFirst, LaunchCap,
     NoRecord, Tried, Records, Steps, Working, Places

(* Steps that leave the two files and the launches alone, and take a       *)
(* listener neither into a launch nor to an ack.                           *)
LEMMA WakeQuiet ==
    ASSUME WakeInv, TypeOK', UNCHANGED <<att, fin, launches>>,
           \A l \in Listener :
              \/ pc'[l] = pc[l] /\ job'[l] = job[l] /\ held'[l] = held[l]
              \/ pc'[l] \in {"start", "sweep", "idle"}
              \/ pc'[l] \in Steps \ (Working \cup {"ack", "remove"}) /\ job'[l] \in Msg
    PROVE  WakeInv'
<1>1. Jobs'
  BY DEF WakeInv, Jobs
<1>2. Leased'
  BY DEF WakeInv, Leased, Working
<1>3. Exclusive'
  BY DEF WakeInv, Exclusive, Working
<1>4. Counted' /\ LaunchCap'
  BY DEF WakeInv, Counted, LaunchCap
<1>5. DoneFirst'
  BY DEF WakeInv, DoneFirst
<1> QED
  BY <1>1, <1>2, <1>3, <1>4, <1>5 DEF WakeInv

LEMMA WakePoll ==
    ASSUME WakeInv, NEW l \in Listener, Poll(l) \/ \E m \in Msg : Read(l, m)
    PROVE  WakeInv'
<1>1. CASE Start(l)
  <2>1. TypeOK'
    BY <1>1 DEF Start, WakeInv, TypeOK, Goto, fileVars, history, bounds, Steps
  <2> QED
    BY <1>1, <2>1, WakeQuiet DEF Start, WakeInv, TypeOK, Goto, fileVars, history
<1>2. ASSUME NEW k \in Key, Sweep(l, k) PROVE WakeInv'
  <2>1. server' \in [Msg -> Places]
    BY <1>2 DEF Sweep, ResetConsumer, WakeInv, TypeOK, Places
  <2>2. TypeOK'
    BY <1>2, <2>1 DEF Sweep, Works, Breaks, WakeInv, TypeOK, Goto, fileVars, history, Steps
  <2> QED
    BY <1>2, <2>2, WakeQuiet DEF Sweep, WakeInv, TypeOK, Goto, fileVars, history
<1>3. ASSUME NEW m \in Msg, Flush(l, m) PROVE WakeInv'
  <2>1. TypeOK'
    BY <1>3 DEF Flush, WakeInv, TypeOK, taskVars, bounds
  <2> QED
    BY <1>3, <2>1, WakeQuiet DEF Flush, taskVars
<1>4. ASSUME NEW m \in Msg, Read(l, m) PROVE WakeInv'
  <2>1. TypeOK'
    BY <1>4 DEF Read, WakeInv, TypeOK, Goto, fileVars, history, bounds, Steps, Places, Seqs
  <2> QED
    BY <1>4, <2>1, WakeQuiet DEF Read, WakeInv, TypeOK, Goto, fileVars, history, Steps, Working
<1> QED
  BY <1>1, <1>2, <1>3, <1>4 DEF Poll

LEMMA TriedIsRecord ==
    ASSUME NEW n \in 0..MaxAttempts, NEW is \in {"wait", "due", "dead"}
    PROVE  Tried(n, is) \in Records /\ Tried(n, is).tries = n /\ Tried(n, is).is = is
  BY DEF Tried, Records

LEMMA RecordsAre ==
    ASSUME TypeOK, NEW m \in Msg
    PROVE  att[m].tries \in 0..MaxAttempts /\ att[m].is \in {"wait", "due", "dead"}
  BY DEF TypeOK, Records

LEMMA WakeDecide ==
    ASSUME WakeInv, NEW l \in Listener, Decide(l)
    PROVE  WakeInv'
<1>1. job[l] \in Msg /\ pc[l] = "decide"
  BY DEF WakeInv, Jobs, Decide, SkipFinished, DecideDead, DecideBackoff, HoldLaunch,
     BeginLaunch, At
<1>2. CASE SkipFinished(l)
  <2>1. TypeOK'
    BY <1>2 DEF SkipFinished, WakeInv, TypeOK, Goto, fileVars, history, bounds, Steps
  <2>2. pc' = [pc EXCEPT ![l] = "ack"] /\ fin[job[l]] # "none"
    BY <1>2 DEF SkipFinished, Goto, Open
  <2> QED
    BY <1>1, <1>2, <2>1, <2>2 DEF SkipFinished, WakeInv, TypeOK, Jobs, Leased, Exclusive,
       Counted, DoneFirst, LaunchCap, fileVars, history, Working
<1>3. CASE DecideDead(l)
  <2>1. pc'[l] \in {"dlrecord", "dlline"} /\ pc' = [pc EXCEPT ![l] = pc'[l]]
    BY <1>3 DEF DecideDead, Goto, WakeInv, TypeOK
  <2>2. /\ att' \in [Msg -> Records]
        /\ \A m \in Msg : att'[m].tries = att[m].tries
        /\ \A m \in Msg : att'[m].is = "due" => att[m].is = "due"
    <3>1. Tried(att[job[l]].tries, "dead") \in Records
          /\ Tried(att[job[l]].tries, "dead").tries = att[job[l]].tries
          /\ Tried(att[job[l]].tries, "dead").is = "dead"
      BY <1>1, RecordsAre, TriedIsRecord DEF WakeInv
    <3>2. \/ att' = att
          \/ att' = [att EXCEPT ![job[l]] = Tried(att[job[l]].tries, "dead")]
      BY <1>3 DEF DecideDead
    <3> QED
      BY <1>1, <3>1, <3>2 DEF WakeInv, TypeOK
  <2>3. TypeOK'
    BY <1>1, <1>3, <2>1, <2>2 DEF DecideDead, Works, Breaks, WakeInv, TypeOK, history, Steps
  <2>4. UNCHANGED <<job, held, fin, launches>>
    BY <1>3 DEF DecideDead, history
  <2>5. Jobs' /\ Exclusive' /\ DoneFirst'
    BY <1>1, <2>1, <2>4 DEF WakeInv, TypeOK, Jobs, Exclusive, DoneFirst, Working
  <2>6. Leased'
    BY <1>1, <2>1, <2>2, <2>4 DEF WakeInv, TypeOK, Jobs, Leased, Working
  <2>7. Counted' /\ LaunchCap'
    BY <2>2, <2>4 DEF WakeInv, Counted, LaunchCap
  <2> QED
    BY <2>3, <2>5, <2>6, <2>7 DEF WakeInv
<1>4. CASE DecideBackoff(l) \/ HoldLaunch(l)
  <2>1. TypeOK'
    BY <1>4 DEF DecideBackoff, HoldLaunch, WakeInv, TypeOK, Goto, fileVars, history, bounds,
       Steps
  <2> QED
    BY <1>1, <1>4, <2>1, WakeQuiet DEF DecideBackoff, HoldLaunch, WakeInv, TypeOK, Goto,
       fileVars, history, Steps, Working
<1>5. CASE BeginLaunch(l)
  <2> DEFINE m == job[l]
  <2>1. att[m].is = "due" /\ fin[m] = "none" /\ att[m].tries < MaxAttempts
    BY <1>1, <1>5, RecordsAre DEF BeginLaunch, Launchable, Open, Spent, WakeInv
  <2>2. att' = [att EXCEPT ![m] = Tried(att[m].tries + 1, "wait")]
        /\ Tried(att[m].tries + 1, "wait") \in Records
        /\ Tried(att[m].tries + 1, "wait").tries = att[m].tries + 1
        /\ Tried(att[m].tries + 1, "wait").is = "wait"
    <3>1. att[m].tries + 1 \in 0..MaxAttempts
      BY <1>1, <2>1, RecordsAre DEF WakeInv
    <3> QED
      BY <1>5, <3>1, TriedIsRecord DEF BeginLaunch, AttemptRecord
  <2>3. held' = [held EXCEPT ![l] = att[m].tries + 1]
    BY <1>1, <1>5, <2>2 DEF BeginLaunch, WakeInv, TypeOK
  <2>4. \A k \in Listener : pc[k] \in Working => job[k] # m
    BY <2>1 DEF WakeInv, Leased
  <2>5. TypeOK'
    <3>1. att[m].tries + 1 \in 0..MaxAttempts
      BY <1>1, <2>1, RecordsAre DEF WakeInv
    <3>2. att' \in [Msg -> Records]
      BY <1>1, <2>2 DEF WakeInv, TypeOK
    <3>3. held' \in [Listener -> 0..MaxAttempts]
      BY <2>3, <3>1 DEF WakeInv, TypeOK
    <3> QED
      BY <1>1, <1>5, <3>2, <3>3 DEF BeginLaunch, Goto, WakeInv, TypeOK, bounds, Steps, Working
  <2>6. pc' = [pc EXCEPT ![l] = "launching"] /\ UNCHANGED <<job, fin>>
        /\ launches' = [launches EXCEPT ![m] = @ + 1]
    BY <1>5 DEF BeginLaunch, Goto
  <2>7. Leased' /\ Exclusive' /\ Jobs' /\ DoneFirst'
    <3>1. att'[m].tries = att[m].tries + 1 /\ att'[m].is = "wait"
          /\ \A n \in Msg \ {m} : att'[n] = att[n]
      BY <1>1, <2>2 DEF WakeInv, TypeOK
    <3>2. Leased'
      BY <1>1, <2>3, <2>4, <2>6, <3>1 DEF WakeInv, TypeOK, Jobs, Leased, Working
    <3> QED
      BY <1>1, <2>4, <2>6, <3>2 DEF WakeInv, TypeOK, Jobs, Exclusive, DoneFirst, Working
  <2>8. Counted' /\ LaunchCap'
    BY <1>1, <2>1, <2>2, <2>6, RecordsAre DEF WakeInv, TypeOK, Counted, LaunchCap
  <2> QED
    BY <2>5, <2>7, <2>8 DEF WakeInv
<1> QED
  BY <1>2, <1>3, <1>4, <1>5 DEF Decide

LEMMA WakeLaunchEnds ==
    ASSUME WakeInv, NEW l \in Listener, LaunchDone(l) \/ LaunchFails(l) \/ FailPut(l)
    PROVE  WakeInv'
<1>1. job[l] \in Msg /\ pc[l] \in {"launching", "failput"}
  BY DEF WakeInv, Jobs, LaunchDone, LaunchFails, FailPut, At
<1>2. CASE LaunchDone(l) \/ LaunchFails(l)
  <2>1. /\ pc' = [pc EXCEPT ![l] = pc'[l]]
        /\ pc'[l] \in Working \/ (pc'[l] = "ack" /\ fin[job[l]] # "none")
    BY <1>2 DEF LaunchDone, LaunchFails, Goto, Open, WakeInv, TypeOK, Working
  <2>2. TypeOK'
    BY <1>2, <2>1 DEF LaunchDone, LaunchFails, WakeInv, TypeOK, fileVars, history, bounds, Steps
  <2> QED
    BY <1>1, <1>2, <2>1, <2>2 DEF LaunchDone, LaunchFails, WakeInv, TypeOK, Jobs, Leased,
       Exclusive, Counted, DoneFirst, LaunchCap, fileVars, history, Working
<1>3. CASE FailPut(l)
  <2>1. pc'[l] \in {"dlline", "nak"} /\ pc' = [pc EXCEPT ![l] = pc'[l]]
    BY <1>3 DEF FailPut, Goto, WakeInv, TypeOK
  <2>2. /\ att' \in [Msg -> Records]
        /\ \A m \in Msg \ {job[l]} : att'[m] = att[m]
        /\ att' = att \/ att'[job[l]].tries = held[l]
    <3>1. PICK is \in {"wait", "dead"} :
             att' = att \/ att' = [att EXCEPT ![job[l]] = Tried(held[l], is)]
      BY <1>3 DEF FailPut
    <3>2. Tried(held[l], is) \in Records /\ Tried(held[l], is).tries = held[l]
      BY TriedIsRecord DEF WakeInv, TypeOK
    <3> QED
      BY <1>1, <3>1, <3>2 DEF WakeInv, TypeOK
  <2>3. TypeOK'
    BY <1>1, <1>3, <2>1, <2>2 DEF FailPut, Works, Breaks, WakeInv, TypeOK, history, Steps
  <2>4. \A k \in Listener : pc[k] \in Working /\ k # l => job[k] # job[l]
    BY <1>1 DEF WakeInv, Exclusive, Working
  <2>5. fin[job[l]] = "none" => att[job[l]].tries = held[l]
    BY <1>1 DEF WakeInv, Leased, Working
  <2>6. UNCHANGED <<job, held, fin, launches>>
    BY <1>3 DEF FailPut, history
  <2>7. Counted' /\ LaunchCap'
    BY <1>1, <2>2, <2>5, <2>6 DEF WakeInv, TypeOK, Counted, LaunchCap
  <2>8. Exclusive' /\ Jobs' /\ DoneFirst'
    BY <1>1, <2>1, <2>6 DEF WakeInv, TypeOK, Jobs, Exclusive, DoneFirst, Working
  <2>9. Leased'
    <3> SUFFICES ASSUME NEW k \in Listener, pc'[k] \in Working, fin'[job'[k]] = "none"
                 PROVE  att'[job'[k]].is # "due" /\ held'[k] = att'[job'[k]].tries
      BY DEF Leased
    <3>1. k # l /\ pc[k] \in Working /\ job[k] \in Msg \ {job[l]}
      BY <1>1, <2>1, <2>4 DEF WakeInv, TypeOK, Jobs, Working
    <3> QED
      BY <2>2, <2>6, <3>1 DEF WakeInv, Leased
  <2> QED
    BY <2>3, <2>7, <2>8, <2>9 DEF WakeInv
<1> QED
  BY <1>2, <1>3

LEMMA WakeFinished ==
    ASSUME WakeInv, RecordsLand, NEW l \in Listener, Record(l) \/ DeadRecord(l)
    PROVE  WakeInv'
<1>1. job[l] \in Msg /\ pc[l] \in {"record", "dlrecord"}
  BY DEF WakeInv, Jobs, Record, DeadRecord, At
<1>2. /\ pc' = [pc EXCEPT ![l] = "ack"]
      /\ UNCHANGED <<job, held, att, launches>>
  BY DEF Record, DeadRecord, Goto, history
<1>3. PICK how \in {"completed", "dead"} : fin' = [fin EXCEPT ![job[l]] = how]
  BY <1>1 DEF Record, DeadRecord, Breaks, RecordsLand, WakeInv, TypeOK
<1>4. TypeOK'
  BY <1>1, <1>2, <1>3 DEF Record, DeadRecord, Works, Breaks, WakeInv, TypeOK, history, Steps
<1> QED
  BY <1>1, <1>2, <1>3, <1>4 DEF WakeInv, TypeOK, Jobs, Leased, Exclusive, Counted, DoneFirst,
     LaunchCap, Working

LEMMA WakeGiveUp ==
    ASSUME WakeInv, NEW l \in Listener, DeadLine(l) \/ DeadReport(l)
    PROVE  WakeInv'
<1>1. job[l] \in Msg /\ pc[l] \in {"dlline", "dlreport"}
  BY DEF WakeInv, Jobs, DeadLine, DeadReport, At
<1>2. TypeOK'
  <2>1. CASE DeadLine(l)
    BY <1>1, <2>1 DEF DeadLine, Goto, WakeInv, TypeOK, fileVars, bounds, Steps
  <2>2. CASE DeadReport(l)
    BY <1>1, <2>2 DEF DeadReport, Works, Breaks, Goto, WakeInv, TypeOK, Steps
  <2> QED
    BY <2>1, <2>2
<1> QED
  BY <1>1, <1>2, WakeQuiet DEF DeadLine, DeadReport, WakeInv, TypeOK, Goto, fileVars, Steps,
     Working

LEMMA WakeHandBack ==
    ASSUME WakeInv, NEW l \in Listener, Ack(l) \/ AckFails(l) \/ Nak(l)
    PROVE  WakeInv'
<1>1. job[l] \in Msg /\ pc[l] \in {"ack", "nak"}
  BY DEF WakeInv, Jobs, Ack, AckFails, Nak, At
<1>2. server' \in [Msg -> Places] /\ handle' \in [Seqs -> Msg \cup {NoMsg}]
  BY DEF Ack, AckFails, Nak, Spend, WakeInv, TypeOK, Places
<1>3. CASE Ack(l)
  <2>1. TypeOK'
    BY <1>2, <1>3 DEF Ack, Works, Goto, WakeInv, TypeOK, fileVars, history, Steps
  <2>2. pc' = [pc EXCEPT ![l] = "remove"] /\ pc[l] = "ack"
    BY <1>3 DEF Ack, Goto, At
  <2> QED
    BY <1>1, <1>3, <2>1, <2>2 DEF Ack, WakeInv, TypeOK, Jobs, Leased, Exclusive, Counted,
       DoneFirst, LaunchCap, fileVars, history, Working
<1>4. CASE AckFails(l) \/ Nak(l)
  <2>1. TypeOK'
    BY <1>2, <1>4 DEF AckFails, Nak, Finish, Works, Breaks, Goto, WakeInv, TypeOK, fileVars,
       history, Steps
  <2> QED
    BY <1>1, <1>4, <2>1, WakeQuiet DEF AckFails, Nak, Finish, Goto, WakeInv, TypeOK, fileVars,
       history
<1> QED
  BY <1>3, <1>4

LEMMA WakeRemove ==
    ASSUME WakeInv, NEW l \in Listener, Remove(l)
    PROVE  WakeInv'
<1>1. job[l] \in Msg /\ fin[job[l]] # "none"
  BY DEF WakeInv, Jobs, DoneFirst, Remove, At
<1>2. /\ pc' = [pc EXCEPT ![l] = "idle"]
      /\ job' = [job EXCEPT ![l] = NoMsg] /\ held' = [held EXCEPT ![l] = 0]
      /\ UNCHANGED <<fin, launches>>
  BY DEF Remove, Finish, Goto, history
<1>3. \A m \in Msg : fin[m] = "none" => att'[m] = att[m]
  BY <1>1 DEF Remove, WakeInv, TypeOK
<1>4. TypeOK'
  <2>1. NoRecord \in Records
    BY DEF NoRecord, Tried, Records
  <2>2. att' \in [Msg -> Records]
    BY <1>1, <2>1 DEF Remove, WakeInv, TypeOK
  <2> QED
    BY <1>2, <2>2 DEF Remove, Works, Breaks, WakeInv, TypeOK, history, Steps
<1>5. Jobs' /\ Exclusive' /\ DoneFirst'
  BY <1>2 DEF WakeInv, TypeOK, Jobs, Exclusive, DoneFirst, Working
<1>6. Leased' /\ Counted' /\ LaunchCap'
  BY <1>2, <1>3 DEF WakeInv, TypeOK, Jobs, Leased, Counted, LaunchCap, Working
<1> QED
  BY <1>4, <1>5, <1>6 DEF WakeInv

LEMMA WakeTime ==
    ASSUME WakeInv, Crash \/ UNCHANGED vars \/ \E m \in Msg : Send(m) \/ Clock(m)
    PROVE  WakeInv'
<1>1. ASSUME NEW m \in Msg, Due(m) PROVE WakeInv'
  <2>1. /\ att' = [att EXCEPT ![m] = Tried(att[m].tries, "due")]
        /\ UNCHANGED <<fin, pc, job, held, launches>>
    BY <1>1 DEF Due, taskVars, history
  <2>2. \A l \in Listener : pc[l] \in Working => job[l] # m
    BY <1>1 DEF Due, Launching
  <2>3. Tried(att[m].tries, "due") \in Records
        /\ Tried(att[m].tries, "due").tries = att[m].tries
    BY RecordsAre, TriedIsRecord DEF WakeInv
  <2>4. TypeOK'
    BY <1>1, <2>1, <2>3 DEF Due, WakeInv, TypeOK, taskVars, history, bounds
  <2>5. \A n \in Msg : att'[n].tries = att[n].tries /\ (n # m => att'[n] = att[n])
    BY <2>1, <2>3 DEF WakeInv, TypeOK
  <2> QED
    BY <2>1, <2>2, <2>4, <2>5 DEF WakeInv, TypeOK, Jobs, Leased, Exclusive, Counted,
       DoneFirst, LaunchCap, Working
<1>2. ASSUME NEW m \in Msg, Send(m) \/ DelayEnds(m) \/ AckWaitEnds(m) PROVE WakeInv'
  <2>1. TypeOK'
    BY <1>2 DEF Send, DelayEnds, AckWaitEnds, Works, Breaks, WakeInv, TypeOK, Places, fileVars,
       taskVars, history, bounds
  <2> QED
    BY <1>2, <2>1, WakeQuiet DEF Send, DelayEnds, AckWaitEnds, fileVars, taskVars, history
<1>3. CASE Crash
  <2>1. TypeOK'
    BY <1>3 DEF Crash, WakeInv, TypeOK, Steps, fileVars, history
  <2> QED
    BY <1>3, <2>1, WakeQuiet DEF Crash, fileVars, history
<1>4. CASE UNCHANGED vars
  BY <1>4 DEF vars, WakeInv, TypeOK, Jobs, Leased, Exclusive, Counted, DoneFirst, LaunchCap
<1> QED
  BY <1>1, <1>2, <1>3, <1>4 DEF Clock

LEMMA WakeStep == RecordsLand /\ WakeInv /\ [Next]_vars => WakeInv'
<1> SUFFICES ASSUME RecordsLand, WakeInv, [Next]_vars PROVE WakeInv'
  OBVIOUS
<1> QED
  BY WakePoll, WakeDecide, WakeLaunchEnds, WakeFinished, WakeGiveUp, WakeHandBack, WakeRemove,
     WakeTime DEF Next, Process

(* The wake-on-demand state is well typed; in particular no record on disk *)
(* counts more attempts than the policy allows (process_message).          *)
THEOREM TypeCorrect == ASSUME RecordsLand PROVE Spec => []TypeOK
<1>1. WakeInv /\ [Next]_vars => WakeInv'
  BY WakeStep
<1>2. WakeInv => TypeOK
  BY DEF WakeInv
<1> QED
  BY <1>1, <1>2, WakeInit, PTL DEF Spec

(* However listeners interleave and the daemon dies, no message is         *)
(* launched more often than max_attempts (wake_retry.rs:857, the attempt   *)
(* is counted before the launch).                                          *)
THEOREM LaunchesCapped == ASSUME RecordsLand PROVE Spec => []LaunchCap
<1>1. WakeInv /\ [Next]_vars => WakeInv'
  BY WakeStep
<1>2. WakeInv => LaunchCap
  BY DEF WakeInv
<1> QED
  BY <1>1, <1>2, WakeInit, PTL DEF Spec

(* Listeners that share a role never launch one message side by side       *)
(* (IN_FLIGHT_LEASE, wake_retry.rs:421).                                   *)
THEOREM LaunchesExclude == ASSUME RecordsLand PROVE Spec => []OneLaunchAtATime
<1>1. WakeInv /\ [Next]_vars => WakeInv'
  BY WakeStep
<1>2. WakeInv => OneLaunchAtATime
  BY DEF WakeInv, Exclusive, OneLaunchAtATime, At, Working
<1> QED
  BY <1>1, <1>2, WakeInit, PTL DEF Spec

(* A finished message stays finished and costs no further launch, whatever *)
(* a reset consumer delivers again (skip_completed).                       *)
THEOREM FinishedIsFinal == ASSUME RecordsLand PROVE Spec => FinishedStaysQuiet
<1> DEFINE Quiet == \A m \in Msg : fin[m] # "none" =>
                       launches'[m] = launches[m] /\ fin'[m] # "none"
<1>1. WakeInv /\ [Next]_vars => Quiet
  <2> SUFFICES ASSUME WakeInv, [Next]_vars, NEW m \in Msg, fin[m] # "none"
               PROVE  launches'[m] = launches[m] /\ fin'[m] # "none"
    OBVIOUS
  <2>1. fin'[m] # "none"
    <3>1. CASE UNCHANGED fin
      BY <3>1
    <3>2. CASE \E l \in Listener : Record(l) \/ DeadRecord(l)
      BY <3>2 DEF Record, DeadRecord, WakeInv, TypeOK
    <3> QED
      BY <3>1, <3>2 DEF Next, Poll, Decide, Process, Clock, Crash, Send, Due, DelayEnds,
         AckWaitEnds, Start, Sweep, Flush, Read, SkipFinished, DecideDead, DecideBackoff,
         HoldLaunch, BeginLaunch, LaunchDone, LaunchFails, FailPut, DeadLine, DeadReport, Ack,
         AckFails, Remove, Nak, fileVars, vars
  <2>2. launches'[m] = launches[m]
    <3>1. CASE UNCHANGED launches
      BY <3>1
    <3>2. CASE \E l \in Listener : BeginLaunch(l)
      <4>1. PICK l \in Listener : BeginLaunch(l)
        BY <3>2
      <4>2. job[l] # m /\ launches' = [launches EXCEPT ![job[l]] = @ + 1]
        BY <4>1 DEF BeginLaunch, Launchable, Open
      <4> QED
        BY <4>2 DEF WakeInv, TypeOK
    <3> QED
      BY <3>1, <3>2 DEF Next, Poll, Decide, Process, Clock, Crash, Send, Due, DelayEnds,
         AckWaitEnds, Start, Sweep, Flush, Read, SkipFinished, DecideDead, DecideBackoff,
         HoldLaunch, LaunchDone, LaunchFails, FailPut, Record, DeadLine, DeadReport, DeadRecord,
         Ack, AckFails, Remove, Nak, history, vars
  <2> QED
    BY <2>1, <2>2
<1>2. WakeInv /\ [Next]_vars => WakeInv'
  BY WakeStep
<1> QED
  BY <1>1, <1>2, WakeInit, PTL DEF Spec, FinishedStaysQuiet

-----------------------------------------------------------------------------
(* A delivery is kept under its own number.                                *)
HandlesMatch == \A q \in Seqs : handle[q] # NoMsg => SeqOf[handle[q]] = q

(* What the server was told is done with is recorded as finished, or a     *)
(* message of another stream with the same number is, whose ack spent the  *)
(* delivery (stream_ack looks it up by the number alone): a record always  *)
(* comes first, though it need not be that of the message.                 *)
AckedForARecord ==
    \A m \in Msg : server[m] = "acked" =>
       \/ fin[m] # "none"
       \/ \E n \in Msg : KeyOf[n] # KeyOf[m] /\ SeqOf[n] = SeqOf[m] /\ fin[n] # "none"

AckInv == HandlesMatch /\ AckedForARecord

LEMMA AckStep ==
    ASSUME RecordsLand, WakeInv, AckInv, [Next]_vars
    PROVE  AckInv'
<1>1. HandlesMatch'
  <2>1. CASE UNCHANGED handle
    BY <2>1 DEF AckInv, HandlesMatch
  <2>2. CASE handle' = [q \in Seqs |-> NoMsg]
    BY <2>2 DEF HandlesMatch
  <2>3. CASE \E l \in Listener : Spend(l)
    BY <2>3 DEF Spend, AckInv, HandlesMatch, WakeInv, TypeOK
  <2>4. CASE \E l \in Listener, m \in Msg : Read(l, m)
    BY <2>4 DEF Read, AckInv, HandlesMatch, WakeInv, TypeOK, Seqs
  <2> QED
    BY <2>1, <2>2, <2>3, <2>4 DEF Next, Poll, Decide, Process, Clock, Crash, Send, Due,
       DelayEnds, AckWaitEnds, Start, Sweep, Flush, SkipFinished, DecideDead, DecideBackoff,
       HoldLaunch, BeginLaunch, LaunchDone, LaunchFails, FailPut, Record, DeadLine, DeadReport,
       DeadRecord, Ack, AckFails, Remove, Nak, vars
<1>2. AckedForARecord'
  <2>1. \A m \in Msg : fin[m] # "none" => fin'[m] # "none"
    BY DEF Next, Poll, Decide, Process, Clock, Crash, Send, Due, DelayEnds, AckWaitEnds, Start,
       Sweep, Flush, Read, SkipFinished, DecideDead, DecideBackoff, HoldLaunch, BeginLaunch,
       LaunchDone, LaunchFails, FailPut, Record, DeadLine, DeadReport, DeadRecord, Ack,
       AckFails, Remove, Nak, fileVars, vars, WakeInv, TypeOK
  <2>2. ASSUME NEW m \in Msg, server[m] # "acked", server'[m] = "acked"
        PROVE  \/ fin[m] # "none"
               \/ \E n \in Msg : KeyOf[n] # KeyOf[m] /\ SeqOf[n] = SeqOf[m] /\ fin[n] # "none"
    <3>1. PICK l \in Listener : Ack(l)
      BY <2>2 DEF Next, Poll, Decide, Process, Clock, Crash, Send, Due, DelayEnds, AckWaitEnds,
         Start, Sweep, ResetConsumer, Flush, Read, SkipFinished, DecideDead, DecideBackoff,
         HoldLaunch, BeginLaunch, LaunchDone, LaunchFails, FailPut, Record, DeadLine, DeadReport,
         DeadRecord, AckFails, Remove, Nak, vars, WakeInv, TypeOK
    <3>2. job[l] \in Msg /\ fin[job[l]] # "none"
      BY <3>1 DEF Ack, At, WakeInv, Jobs, DoneFirst
    <3>3. handle[SeqOf[job[l]]] = m /\ SeqOf[job[l]] \in Seqs
      BY <2>2, <3>1, <3>2 DEF Ack, Delivery, WakeInv, TypeOK, Seqs
    <3>4. SeqOf[m] = SeqOf[job[l]]
      BY <3>3 DEF AckInv, HandlesMatch
    <3> QED
      BY <3>2, <3>4, WakeAssumption DEF WakeAssumption
  <2>3. \A m \in Msg : server'[m] = "acked" =>
           \/ fin[m] # "none"
           \/ \E n \in Msg : KeyOf[n] # KeyOf[m] /\ SeqOf[n] = SeqOf[m] /\ fin[n] # "none"
    BY <2>2 DEF AckInv, AckedForARecord
  <2> QED
    BY <2>1, <2>3 DEF AckedForARecord
<1> QED
  BY <1>1, <1>2 DEF AckInv

(* Whatever streams the listeners watch, an ack follows the record of a    *)
(* finished message (process_message: "Record BEFORE acking"), so neither  *)
(* a crash nor a lost ack costs a message; the one way to lose one is that *)
(* ack_pending takes the delivery of another stream for it.                *)
THEOREM AckFollowsRecord ==
    ASSUME RecordsLand PROVE Spec => []AckedForARecord
<1>1. Init => AckInv
  BY DEF Init, AckInv, HandlesMatch, AckedForARecord
<1>2. WakeInv /\ [Next]_vars => WakeInv'
  BY WakeStep
<1>3. WakeInv /\ AckInv /\ [Next]_vars => AckInv'
  BY AckStep
<1>4. AckInv => AckedForARecord
  BY DEF AckInv
<1> QED
  BY <1>1, <1>2, <1>3, <1>4, WakeInit, PTL DEF Spec

(* For listeners of a single stream that is the property of the run: what  *)
(* is acked is finished (process_message).                                 *)
COROLLARY OneStreamDropsNothing ==
    ASSUME RecordsLand, \A m, n \in Msg : KeyOf[m] = KeyOf[n]
    PROVE  Spec => []NothingDropped
<1>1. AckedForARecord => NothingDropped
  BY DEF AckedForARecord, NothingDropped
<1> QED
  BY <1>1, AckFollowsRecord, PTL

-----------------------------------------------------------------------------
(* The refinement: what each step is to the promise.                       *)
Phased == [m \in Msg |-> Phase(m)]

(* A step that finishes nothing and starts or ends no launch is none.      *)
LEMMA PhasesStay ==
    ASSUME UNCHANGED <<fin, launches>>,
           \A l \in Listener :
              \/ pc'[l] = pc[l] /\ job'[l] = job[l]
              \/ pc[l] \notin Working /\ pc'[l] \notin Working
              \/ pc[l] \in Working /\ pc'[l] \in Working /\ job'[l] = job[l]
              \/ pc[l] \in Working /\ pc'[l] \notin Working /\ fin[job[l]] # "none"
    PROVE  UNCHANGED <<Phased, launches>>
<1>1. ASSUME NEW m \in Msg, fin[m] = "none" PROVE Launching(m)' <=> Launching(m)
  BY <1>1 DEF Launching
<1>2. \A m \in Msg : Phase(m)' = Phase(m)
  BY <1>1 DEF Phase
<1> QED
  BY <1>2 DEF Phased

(* A step that finishes the message of l, or takes l in or out of a        *)
(* launch of it, changes no other message.                                 *)
LEMMA PhasesElsewhere ==
    ASSUME WakeInv, NEW l \in Listener, job[l] \in Msg, UNCHANGED job,
           \A k \in Listener \ {l} : pc'[k] = pc[k],
           \A m \in Msg \ {job[l]} : fin'[m] = fin[m]
    PROVE  Phased' = [Phased EXCEPT ![job[l]] = Phase(job[l])']
<1>1. ASSUME NEW m \in Msg \ {job[l]} PROVE Phase(m)' = Phase(m)
  <2>1. Launching(m)' <=> Launching(m)
    BY <1>1 DEF Launching
  <2> QED
    BY <1>1, <2>1 DEF Phase
<1> QED
  BY <1>1 DEF Phased

LEMMA PromiseLaunch ==
    ASSUME WakeInv, NEW l \in Listener, BeginLaunch(l)
    PROVE  Promise!Launch(job[l])
<1> DEFINE m == job[l]
<1>1. m \in Msg /\ pc[l] = "decide"
  BY DEF WakeInv, Jobs, BeginLaunch, At
<1>2. fin[m] = "none" /\ att[m].is = "due" /\ att[m].tries < MaxAttempts
  BY <1>1, RecordsAre DEF BeginLaunch, Launchable, Open, Spent, WakeInv
<1>3. Phase(m) = "open"
  BY <1>2 DEF WakeInv, Leased, Phase, Launching
<1>4. launches[m] < MaxAttempts /\ launches' = [launches EXCEPT ![m] = @ + 1]
  BY <1>1, <1>2 DEF WakeInv, Counted, BeginLaunch
<1>5. /\ pc' = [pc EXCEPT ![l] = "launching"]
      /\ UNCHANGED <<job, fin>>
  BY DEF BeginLaunch, Goto
<1>6. Phase(m)' = "running"
  BY <1>1, <1>2, <1>5 DEF WakeInv, TypeOK, Phase, Launching, Working
<1>7. Phased' = [Phased EXCEPT ![m] = "running"]
  BY <1>1, <1>5, <1>6, PhasesElsewhere DEF WakeInv, TypeOK
<1> QED
  BY <1>1, <1>3, <1>4, <1>7 DEF Promise!Launch, Promise!Moves, Phased

LEMMA PromiseEnd ==
    ASSUME WakeInv, NEW l \in Listener, FailPut(l)
    PROVE  Promise!End(job[l]) \/ UNCHANGED <<Phased, launches>>
<1> DEFINE m == job[l]
<1>1. m \in Msg /\ pc[l] = "failput" /\ pc[l] \in Working
  BY DEF WakeInv, Jobs, FailPut, At, Working
<1>2. /\ pc'[l] \in {"dlline", "nak"} /\ pc' = [pc EXCEPT ![l] = pc'[l]]
      /\ UNCHANGED <<job, fin, launches>>
  BY DEF FailPut, Goto, WakeInv, TypeOK, history
<1>3. CASE fin[m] # "none"
  BY <1>1, <1>2, <1>3, PhasesStay DEF WakeInv, TypeOK, Working
<1>4. CASE fin[m] = "none"
  <2>1. Phase(m) = "running"
    BY <1>1, <1>4 DEF Phase, Launching
  <2>2. Phase(m)' = "open"
    BY <1>1, <1>2, <1>4 DEF WakeInv, TypeOK, Exclusive, Phase, Launching, Working
  <2>3. Phased' = [Phased EXCEPT ![m] = "open"]
    BY <1>1, <1>2, <2>2, PhasesElsewhere DEF WakeInv, TypeOK
  <2> QED
    BY <1>1, <1>2, <2>1, <2>3 DEF Promise!End, Promise!Moves, Phased
<1> QED
  BY <1>3, <1>4

LEMMA PromiseClose ==
    ASSUME WakeInv, RecordsLand, NEW l \in Listener, Record(l) \/ DeadRecord(l)
    PROVE  Promise!Close(job[l]) \/ UNCHANGED <<Phased, launches>>
<1> DEFINE m == job[l]
<1>1. m \in Msg /\ pc[l] \in {"record", "dlrecord"}
  BY DEF WakeInv, Jobs, Record, DeadRecord, At
<1>2. /\ pc' = [pc EXCEPT ![l] = "ack"] /\ UNCHANGED <<job, launches>>
      /\ fin'[m] # "none" /\ \A n \in Msg \ {m} : fin'[n] = fin[n]
  BY <1>1 DEF Record, DeadRecord, Breaks, RecordsLand, Goto, WakeInv, TypeOK, history
<1>3. Phase(m)' = "closed"
  BY <1>2 DEF Phase
<1>4. Phased' = [Phased EXCEPT ![m] = "closed"]
  BY <1>1, <1>2, <1>3, PhasesElsewhere DEF WakeInv, TypeOK
<1>5. CASE fin[m] = "none"
  <2>1. Phase(m) \in {"open", "running"}
    BY <1>5 DEF Phase
  <2> QED
    BY <1>1, <1>2, <1>4, <2>1 DEF Promise!Close, Promise!Moves, Phased
<1>6. CASE fin[m] # "none"
  <2>1. Phase(m) = "closed"
    BY <1>6 DEF Phase
  <2> QED
    BY <1>1, <1>2, <1>4, <2>1 DEF Phased
<1> QED
  BY <1>5, <1>6

LEMMA PromiseCrash == ASSUME WakeInv, Crash PROVE Promise!Interrupt
<1>1. UNCHANGED <<fin, launches>> /\ \A l \in Listener : pc'[l] = "start"
  BY DEF Crash, fileVars, history
<1>2. \A m \in Msg : Phase(m)' = IF Phase(m) = "running" THEN "open" ELSE Phase(m)
  BY <1>1 DEF Phase, Launching, Working
<1> QED
  BY <1>1, <1>2 DEF Promise!Interrupt, Phased

LEMMA PromiseQuiet ==
    ASSUME WakeInv, NEW l \in Listener,
           \/ Poll(l) \/ LaunchDone(l) \/ LaunchFails(l) \/ DeadLine(l) \/ DeadReport(l)
           \/ Ack(l) \/ AckFails(l) \/ Remove(l) \/ Nak(l)
           \/ SkipFinished(l) \/ DecideDead(l) \/ DecideBackoff(l) \/ HoldLaunch(l)
           \/ \E m \in Msg : Read(l, m)
    PROVE  UNCHANGED <<Phased, launches>>
<1>1. UNCHANGED <<fin, launches>>
  BY DEF Poll, LaunchDone, LaunchFails, DeadLine, DeadReport, Ack, AckFails, Remove, Nak,
     SkipFinished, DecideDead, DecideBackoff, HoldLaunch, Read, Start, Sweep, Flush,
     fileVars, history
<1>2. \A k \in Listener \ {l} : pc'[k] = pc[k] /\ job'[k] = job[k]
  BY DEF Poll, LaunchDone, LaunchFails, DeadLine, DeadReport, Ack, AckFails, Remove, Nak,
     SkipFinished, DecideDead, DecideBackoff, HoldLaunch, Read, Start, Sweep, Flush,
     Goto, Finish, taskVars, WakeInv, TypeOK
<1>3. CASE LaunchDone(l) \/ LaunchFails(l)
  <2>1. /\ pc[l] = "launching" /\ job'[l] = job[l]
        /\ pc'[l] \in {"record", "failput"} \/ (pc'[l] = "ack" /\ fin[job[l]] # "none")
    BY <1>3 DEF LaunchDone, LaunchFails, At, Goto, Open, WakeInv, TypeOK
  <2> QED
    BY <1>1, <1>2, <2>1, PhasesStay DEF Working
<1>4. CASE ~(LaunchDone(l) \/ LaunchFails(l))
  <2>1. (pc'[l] = pc[l] /\ job'[l] = job[l]) \/ (pc[l] \notin Working /\ pc'[l] \notin Working)
    BY <1>4 DEF Poll, DeadLine, DeadReport, Ack, AckFails, Remove, Nak,
       SkipFinished, DecideDead, DecideBackoff, HoldLaunch, Read, Start, Sweep, Flush,
       Goto, Finish, At, Working, taskVars, WakeInv, TypeOK
  <2> QED
    BY <1>1, <1>2, <2>1, PhasesStay
<1> QED
  BY <1>3, <1>4

LEMMA PromiseStep ==
    ASSUME RecordsLand, WakeInv, [Next]_vars
    PROVE  Promise!Next \/ UNCHANGED <<Phased, launches>>
<1>1. CASE Crash
  BY <1>1, PromiseCrash DEF Promise!Next
<1>2. ASSUME NEW m \in Msg, Send(m) \/ Clock(m) PROVE UNCHANGED <<Phased, launches>>
  BY <1>2, PhasesStay DEF Send, Clock, Due, DelayEnds, AckWaitEnds, fileVars, taskVars, history
<1>3. CASE UNCHANGED vars
  BY <1>3, PhasesStay DEF vars
<1>4. ASSUME NEW l \in Listener, BeginLaunch(l) \/ FailPut(l) \/ Record(l) \/ DeadRecord(l)
      PROVE  Promise!Next \/ UNCHANGED <<Phased, launches>>
  <2>1. job[l] \in Msg
    BY <1>4 DEF WakeInv, Jobs, BeginLaunch, FailPut, Record, DeadRecord, At
  <2> QED
    BY <1>4, <2>1, PromiseLaunch, PromiseEnd, PromiseClose DEF Promise!Next
<1> QED
  BY <1>1, <1>2, <1>3, <1>4, PromiseQuiet DEF Next, Decide, Process

(* The listeners keep the promise of wake_retry.rs: a message costs at     *)
(* most max_attempts launches, one at a time, and none once it is          *)
(* finished, through any crash, redelivery or sibling.                     *)
THEOREM KeepsThePromise == ASSUME RecordsLand PROVE Spec => KeepsPromise
<1>1. Init => Promise!Init
  BY DEF Init, Promise!Init, Phase, Launching, Working
<1>2. WakeInv /\ [Next]_vars => WakeInv'
  BY WakeStep
<1>3. WakeInv /\ [Next]_vars => [Promise!Next]_<<Phased, launches>>
  BY PromiseStep
<1> QED
  BY <1>1, <1>2, <1>3, WakeInit, PTL DEF Spec, KeepsPromise, Promise!Spec, Phased
===============================================================================
