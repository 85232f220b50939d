------------------------------- MODULE WakeRetry -------------------------------
(***************************************************************************)
(* Wake-on-demand listeners of the daemon (ta-daemon/src/wake_listener.rs, *)
(* wake_retry.rs, launch_failed.rs) over a JetStream transport             *)
(* (ta-agent-whiteboard/src/nats_transport.rs).                            *)
(*                                                                         *)
(* The listeners of one team session that share a role: they share the     *)
(* durable consumer of each stream key, one file of attempts and one of    *)
(* finished messages.  A listener is a task; other listeners move between  *)
(* any two of its writes, and the daemon may die between any two, losing   *)
(* all its memory.                                                         *)
(*                                                                         *)
(* Time is the order in which waits end: a backoff, a delayed nak and an   *)
(* ack wait may end at any moment, but neither the ack wait nor the lease  *)
(* of an attempt ends while the launch it covers runs                      *)
(* (validate_timings, IN_FLIGHT_LEASE).                                    *)
(***************************************************************************)
EXTENDS Naturals, FiniteSets

CONSTANTS
    Listener,
    Key,          \* streams
    KeysOf,       \* the keys each listener watches
    Msg,
    KeyOf,        \* the stream of each message
    SeqOf,        \* its sequence number in that stream
    MaxAttempts,  \* WakeRetryPolicy.max_attempts
    MaxCrashes,   \* bound: how often the daemon dies
    MaxFaults,    \* bound: calls that fail
    Faults,       \* bound: the calls that may fail
    NoMsg

FaultKinds == {"flag", "finish", "ack", "remove", "publish", "sweep", "beat"}

ASSUME WakeAssumption ==
    /\ IsFiniteSet(Listener) /\ IsFiniteSet(Msg)
    /\ KeysOf \in [Listener -> SUBSET Key]
    /\ KeyOf \in [Msg -> Key]
    /\ SeqOf \in [Msg -> Nat]
    /\ \A m, n \in Msg : KeyOf[m] = KeyOf[n] /\ SeqOf[m] = SeqOf[n] => m = n
    /\ MaxAttempts \in Nat \ {0} /\ MaxCrashes \in Nat /\ MaxFaults \in Nat
    /\ Faults \subseteq FaultKinds
    /\ NoMsg \notin Msg

VARIABLES
    server,   \* the consumer's view of each message
    handle,   \* NatsTransport.ack_pending: a delivery for each sequence number
    att,      \* the attempts file
    fin,      \* the file of finished messages
    outbox,   \* .ta/launch-failed-outbox
    pc,       \* where each listener is
    job,      \* the message it works on
    held,     \* rec.attempts of the attempt it made
    todo,     \* the recorded messages its startup sweep is still to release
    swept,    \* SWEPT: the keys that some listener has claimed
    launches, \* history: how often each message was launched
    lines,    \* history: its dead-letter lines
    told,     \* history: the messages whose launch_failed was published
    crashes, faults

fileVars == <<att, fin, outbox>>
taskVars == <<pc, job, held, todo>>
history == <<launches, lines, told>>
bounds == <<crashes, faults>>
vars == <<server, handle, att, fin, outbox, pc, job, held, todo, swept,
          launches, lines, told, crashes, faults>>

(* new and again: to be delivered, for the first time or once more;        *)
(* waiting: delivered, its ack wait runs; delayed: handed back with a      *)
(* delay; passed: below the start of the consumer.                         *)
Places == {"absent", "new", "again", "waiting", "delayed", "acked", "passed"}

(* next_eligible_at lies ahead, or has come, or the message is dead-       *)
(* lettered; no record is as good as one without attempts.                 *)
Records == [tries : 0..MaxAttempts, is : {"wait", "due", "dead"}]
Tried(n, is) == [tries |-> n, is |-> is]
NoRecord == Tried(0, "due")

Working == {"launching", "record", "failput"}
Steps == Working \cup {"start", "sweep", "idle", "decide", "nak", "dlline",
                       "dlreport", "dlrecord", "ack", "remove"}
Seqs == {SeqOf[m] : m \in Msg}

TypeOK ==
    /\ server \in [Msg -> Places]
    /\ handle \in [Seqs -> Msg \cup {NoMsg}]
    /\ att \in [Msg -> Records]
    /\ fin \in [Msg -> {"none", "completed", "dead"}]
    /\ outbox \subseteq Msg
    /\ pc \in [Listener -> Steps]
    /\ job \in [Listener -> Msg \cup {NoMsg}]
    /\ held \in [Listener -> 0..MaxAttempts]
    /\ todo \in [Listener -> SUBSET Msg]
    /\ swept \subseteq Key
    /\ launches \in [Msg -> Nat] /\ lines \in [Msg -> Nat]
    /\ told \subseteq Msg
    /\ crashes \in 0..MaxCrashes /\ faults \in 0..MaxFaults

Init ==
    /\ server = [m \in Msg |-> "absent"]
    /\ handle = [q \in Seqs |-> NoMsg]
    /\ att = [m \in Msg |-> NoRecord]
    /\ fin = [m \in Msg |-> "none"]
    /\ outbox = {}
    /\ pc = [l \in Listener |-> "start"]
    /\ job = [l \in Listener |-> NoMsg]
    /\ held = [l \in Listener |-> 0]
    /\ todo = [l \in Listener |-> {}]
    /\ swept = {}
    /\ launches = [m \in Msg |-> 0] /\ lines = [m \in Msg |-> 0]
    /\ told = {} /\ crashes = 0 /\ faults = 0

-----------------------------------------------------------------------------
(* A call succeeds, or fails as often as the bounds allow.                 *)
Works == UNCHANGED faults
Breaks(kind) == kind \in Faults /\ faults < MaxFaults /\ faults' = faults + 1

Goto(l, step) == pc' = [pc EXCEPT ![l] = step]
At(l, step) == pc[l] = step

(* The listener is through with its message.                               *)
Finish(l) ==
    /\ Goto(l, "idle")
    /\ job' = [job EXCEPT ![l] = NoMsg] /\ held' = [held EXCEPT ![l] = 0]

Worked(m) == \E l \in Listener : job[l] = m
Launching(m) == \E l \in Listener : job[l] = m /\ pc[l] \in Working

-----------------------------------------------------------------------------
(* A message is appended to its stream.                                    *)
Send(m) ==
    /\ server[m] = "absent"
    /\ \A n \in Msg : KeyOf[n] = KeyOf[m] /\ SeqOf[n] < SeqOf[m] => server[n] # "absent"
    /\ server' = [server EXCEPT ![m] = "new"]
    /\ UNCHANGED <<handle, fileVars, taskVars, swept, history, bounds>>

(* The listener claims the startup sweep of the keys nobody has claimed    *)
(* (claim_recovery) and reads the attempts file: a message with a record   *)
(* was left pending, and a key without records needs nothing.              *)
Start(l) ==
    /\ At(l, "start")
    /\ todo' = [todo EXCEPT ![l] =
          {m \in Msg : KeyOf[m] \in KeysOf[l] \ swept /\ att[m].tries > 0}]
    /\ swept' = swept \cup KeysOf[l]
    /\ Goto(l, IF todo'[l] = {} THEN "idle" ELSE "sweep")
    /\ UNCHANGED <<server, handle, fileVars, job, held, history, bounds>>

(* The durable consumer of k is made anew, at the oldest of the messages:  *)
(* whatever follows comes back, acked or not.                              *)
ResetConsumer(k, pending) ==
    server' = [m \in Msg |->
        IF KeyOf[m] # k \/ server[m] = "absent" THEN server[m]
        ELSE IF \E r \in pending : SeqOf[r] <= SeqOf[m] THEN "new"
        ELSE IF server[m] = "acked" THEN "acked" ELSE "passed"]

(* recover_pending for one key; all deliveries in memory are forgotten.    *)
Sweep(l, k) ==
    LET pending == {m \in todo[l] : KeyOf[m] = k}
    IN  /\ At(l, "sweep") /\ pending # {}
        /\ handle' = [q \in Seqs |-> NoMsg]
        /\ \/ Works /\ ResetConsumer(k, pending)
           \/ Breaks("sweep") /\ UNCHANGED server
        /\ todo' = [todo EXCEPT ![l] = @ \ pending]
        /\ Goto(l, IF todo'[l] = {} THEN "idle" ELSE "sweep")
        /\ UNCHANGED <<fileVars, job, held, swept, history, crashes>>

(* Mutation: an outcome leaves the outbox whether it was sent or not.      *)
FlushUnsent(l, m) ==
    /\ At(l, "idle") /\ m \in outbox
    /\ outbox' = outbox \ {m}
    /\ UNCHANGED <<server, handle, att, fin, taskVars, swept, history, bounds>>

(* flush_outbox, at the top of every poll.                                 *)
Flush(l, m) ==
    /\ At(l, "idle") /\ m \in outbox
    /\ told' = told \cup {m} /\ outbox' = outbox \ {m}
    /\ UNCHANGED <<server, handle, att, fin, taskVars, swept, launches, lines, bounds>>

(* What is new is delivered in order, after what comes back.               *)
NothingBefore(m) ==
    \A n \in Msg \ {m} : KeyOf[n] = KeyOf[m] =>
        server[n] # "again" /\ (server[n] = "new" => SeqOf[m] < SeqOf[n])
Deliverable(m) == server[m] = "again" \/ (server[m] = "new" /\ NothingBefore(m))

(* stream_read_next: the delivery is kept under the sequence number.       *)
Read(l, m) ==
    /\ At(l, "idle") /\ KeyOf[m] \in KeysOf[l] /\ Deliverable(m)
    /\ server' = [server EXCEPT ![m] = "waiting"]
    /\ handle' = [handle EXCEPT ![SeqOf[m]] = m]
    /\ job' = [job EXCEPT ![l] = m]
    /\ Goto(l, "decide")
    /\ UNCHANGED <<fileVars, held, todo, swept, history, bounds>>

-----------------------------------------------------------------------------
(* process_message: one decision, under the lock of the attempts file.     *)
Open(m) == fin[m] = "none"

(* Mutation: one launch too many.                                          *)
SpentLate(m) == att[m].is = "dead" \/ att[m].tries > MaxAttempts
Spent(m) == att[m].is = "dead" \/ att[m].tries >= MaxAttempts

(* Mutation: a redelivery of what is finished is dropped, not acked.       *)
SkipUnacked(l) ==
    /\ At(l, "decide") /\ ~Open(job[l])
    /\ Finish(l)
    /\ UNCHANGED <<server, handle, fileVars, todo, swept, history, bounds>>

SkipFinished(l) ==
    /\ At(l, "decide") /\ ~Open(job[l])
    /\ Goto(l, "ack")
    /\ UNCHANGED <<server, handle, fileVars, job, held, todo, swept, history, bounds>>

(* Decision::DeadLetter: the first to find it so writes the line.          *)
DecideDead(l) ==
    /\ At(l, "decide") /\ Open(job[l]) /\ Spent(job[l])
    /\ IF att[job[l]].is = "dead" THEN Goto(l, "dlrecord") /\ Works /\ UNCHANGED att
       ELSE /\ Goto(l, "dlline")
            /\ \/ Works /\ att' = [att EXCEPT ![job[l]] = Tried(@.tries, "dead")]
               \/ Breaks("flag") /\ UNCHANGED att
    /\ UNCHANGED <<server, handle, fin, outbox, job, held, todo, swept, history, crashes>>

DecideBackoff(l) ==
    /\ At(l, "decide") /\ Open(job[l]) /\ ~Spent(job[l]) /\ att[job[l]].is = "wait"
    /\ Goto(l, "nak")
    /\ UNCHANGED <<server, handle, fileVars, job, held, todo, swept, history, bounds>>

Launchable(m) == Open(m) /\ ~Spent(m) /\ att[m].is = "due"

(* Decision::Launch, but the launches of the last hour, or a disk that     *)
(* takes no record, make it wait.                                          *)
HoldLaunch(l) ==
    /\ At(l, "decide") /\ Launchable(job[l])
    /\ Goto(l, "nak")
    /\ UNCHANGED <<server, handle, fileVars, job, held, todo, swept, history, bounds>>

(* Mutation: the attempt is recorded without the lease.                    *)
AttemptRecordNoLease(m) == Tried(att[m].tries + 1, "due")
(* Mutation: the attempt is not counted before its launch.                 *)
AttemptRecordUncounted(m) == Tried(att[m].tries, "wait")
AttemptRecord(m) == Tried(att[m].tries + 1, "wait")

(* The attempt is on disk before the launch starts.                        *)
BeginLaunch(l) ==
    /\ At(l, "decide") /\ Launchable(job[l])
    /\ att' = [att EXCEPT ![job[l]] = AttemptRecord(job[l])]
    /\ held' = [held EXCEPT ![l] = att'[job[l]].tries]
    /\ launches' = [launches EXCEPT ![job[l]] = @ + 1]
    /\ Goto(l, "launching")
    /\ UNCHANGED <<server, handle, fin, outbox, job, todo, swept, lines, told, bounds>>

-----------------------------------------------------------------------------
(* Mutation: the ack comes before the record of the finished message.      *)
LaunchDoneUnrecorded(l) ==
    /\ At(l, "launching")
    /\ Goto(l, "ack")
    /\ UNCHANGED <<server, handle, fileVars, job, held, todo, swept, history, bounds>>

(* The launch ends: `ta run' succeeds, or reports that its phase is done   *)
(* already, which counts as done unless the message is finished by now.    *)
LaunchDone(l) ==
    /\ At(l, "launching")
    /\ Goto(l, "record") \/ (~Open(job[l]) /\ Goto(l, "ack"))
    /\ UNCHANGED <<server, handle, fileVars, job, held, todo, swept, history, bounds>>

(* It fails, or is killed at its time limit.                               *)
LaunchFails(l) ==
    /\ At(l, "launching")
    /\ Goto(l, IF Open(job[l]) THEN "failput" ELSE "ack")
    /\ UNCHANGED <<server, handle, fileVars, job, held, todo, swept, history, bounds>>

(* The failure goes into the record: with a backoff, or for good when a    *)
(* retry is pointless or was the last.                                     *)
FailPut(l) ==
    /\ At(l, "failput")
    /\ \E permanent \in BOOLEAN :
          LET over == permanent \/ held[l] >= MaxAttempts
          IN  /\ Goto(l, IF over THEN "dlline" ELSE "nak")
              /\ \/ /\ Works
                    /\ att' = [att EXCEPT ![job[l]] = Tried(held[l], IF over THEN "dead" ELSE "wait")]
                 \/ Breaks("flag") /\ UNCHANGED att
    /\ UNCHANGED <<server, handle, fin, outbox, job, held, todo, swept, history, crashes>>

(* record_finished(Completed), before the ack.                             *)
Record(l) ==
    /\ At(l, "record")
    /\ \/ Works /\ fin' = [fin EXCEPT ![job[l]] = "completed"]
       \/ Breaks("finish") /\ UNCHANGED fin
    /\ Goto(l, "ack")
    /\ UNCHANGED <<server, handle, att, outbox, job, held, todo, swept, history, crashes>>

(* dead_letter: the line, the report, the record of finished messages.     *)
DeadLine(l) ==
    /\ At(l, "dlline")
    /\ lines' = [lines EXCEPT ![job[l]] = @ + 1]
    /\ Goto(l, "dlreport")
    /\ UNCHANGED <<server, handle, fileVars, job, held, todo, swept, launches, told, bounds>>

(* publish_or_queue.                                                       *)
DeadReport(l) ==
    /\ At(l, "dlreport")
    /\ \/ Works /\ told' = told \cup {job[l]} /\ UNCHANGED outbox
       \/ Breaks("publish") /\ outbox' = outbox \cup {job[l]} /\ UNCHANGED told
    /\ Goto(l, "dlrecord")
    /\ UNCHANGED <<server, handle, att, fin, job, held, todo, swept, launches, lines, crashes>>

(* Mutation: what was given up is not recorded as finished.                *)
DeadRecordSkipped(l) ==
    /\ At(l, "dlrecord")
    /\ Goto(l, "ack")
    /\ UNCHANGED <<server, handle, fileVars, job, held, todo, swept, history, bounds>>

DeadRecord(l) ==
    /\ At(l, "dlrecord")
    /\ \/ Works /\ fin' = [fin EXCEPT ![job[l]] = IF @ = "none" THEN "dead" ELSE @]
       \/ Breaks("finish") /\ UNCHANGED fin
    /\ Goto(l, "ack")
    /\ UNCHANGED <<server, handle, att, outbox, job, held, todo, swept, history, crashes>>

-----------------------------------------------------------------------------
(* stream_ack spends the delivery kept under the sequence number, if any;  *)
(* without one it succeeds and does nothing.                               *)
Delivery(l) == handle[SeqOf[job[l]]]
Spend(l) == handle' = [handle EXCEPT ![SeqOf[job[l]]] = NoMsg]

Ack(l) ==
    /\ At(l, "ack") /\ Works
    /\ Spend(l)
    /\ server' = [m \in Msg |-> IF m = Delivery(l) THEN "acked" ELSE server[m]]
    /\ Goto(l, "remove")
    /\ UNCHANGED <<fileVars, job, held, todo, swept, history, crashes>>

(* The delivery is gone from memory even when the ack does not get out.    *)
AckFails(l) ==
    /\ At(l, "ack") /\ Breaks("ack")
    /\ Spend(l) /\ Finish(l)
    /\ UNCHANGED <<server, fileVars, todo, swept, history, crashes>>

(* The attempts record is dropped once the message is acked.               *)
Remove(l) ==
    /\ At(l, "remove")
    /\ \/ Works /\ att' = [att EXCEPT ![job[l]] = NoRecord]
       \/ Breaks("remove") /\ UNCHANGED att
    /\ Finish(l)
    /\ UNCHANGED <<server, handle, fin, outbox, todo, swept, history, crashes>>

(* nak_until; a nak that does not get out leaves the ack wait running.     *)
Nak(l) ==
    /\ At(l, "nak")
    /\ Spend(l) /\ Finish(l)
    /\ \/ Works /\ server' = [m \in Msg |-> IF m = Delivery(l) THEN "delayed" ELSE server[m]]
       \/ Breaks("ack") /\ UNCHANGED server
    /\ UNCHANGED <<fileVars, todo, swept, history, crashes>>

-----------------------------------------------------------------------------
(* The end of a backoff, or of the lease an interrupted attempt left.      *)
Due(m) ==
    /\ att[m].is = "wait" /\ ~Launching(m)
    /\ att' = [att EXCEPT ![m] = Tried(@.tries, "due")]
    /\ UNCHANGED <<server, handle, fin, outbox, taskVars, swept, history, bounds>>

DelayEnds(m) ==
    /\ server[m] = "delayed"
    /\ server' = [server EXCEPT ![m] = "again"]
    /\ UNCHANGED <<handle, fileVars, taskVars, swept, history, bounds>>

(* The ack wait outlasts the work on a message, unless it could not be set *)
(* and the heartbeats are lost.                                            *)
AckWaitEnds(m) ==
    /\ server[m] = "waiting"
    /\ IF Worked(m) THEN Breaks("beat") ELSE Works
    /\ server' = [server EXCEPT ![m] = "again"]
    /\ UNCHANGED <<handle, fileVars, taskVars, swept, history, crashes>>

(* The daemon dies and is started again.                                   *)
Crash ==
    /\ crashes < MaxCrashes /\ crashes' = crashes + 1
    /\ handle' = [q \in Seqs |-> NoMsg]
    /\ pc' = [l \in Listener |-> "start"]
    /\ job' = [l \in Listener |-> NoMsg]
    /\ held' = [l \in Listener |-> 0]
    /\ todo' = [l \in Listener |-> {}]
    /\ swept' = {}
    /\ UNCHANGED <<server, fileVars, history, faults>>

-----------------------------------------------------------------------------
Decide(l) ==
    \/ SkipFinished(l) \/ DecideDead(l) \/ DecideBackoff(l)
    \/ HoldLaunch(l) \/ BeginLaunch(l)

Process(l) ==
    \/ LaunchDone(l) \/ LaunchFails(l) \/ FailPut(l) \/ Record(l)
    \/ DeadLine(l) \/ DeadReport(l) \/ DeadRecord(l)
    \/ Ack(l) \/ AckFails(l) \/ Remove(l) \/ Nak(l)

Poll(l) ==
    \/ Start(l)
    \/ \E k \in Key : Sweep(l, k)
    \/ \E m \in Msg : Flush(l, m)

Clock(m) == Due(m) \/ DelayEnds(m) \/ AckWaitEnds(m)

Next ==
    \/ Crash
    \/ \E m \in Msg : Send(m) \/ Clock(m)
    \/ \E l \in Listener :
          Poll(l) \/ Decide(l) \/ Process(l) \/ \E m \in Msg : Read(l, m)

Spec == Init /\ [][Next]_vars

(* A task of the daemon goes on, launches end (they are killed at their    *)
(* time limit), waits end.  A listener comes to every key again and again, *)
(* and the launches of an hour do not hold a message for ever.             *)
Fairness ==
    /\ \A l \in Listener :
          /\ WF_vars(Poll(l)) /\ WF_vars(Decide(l)) /\ WF_vars(Process(l))
          /\ SF_vars(BeginLaunch(l))
          /\ \A m \in Msg : SF_vars(Read(l, m))
    /\ \A m \in Msg : WF_vars(Due(m)) /\ WF_vars(DelayEnds(m)) /\ WF_vars(AckWaitEnds(m))

FairSpec == Spec /\ Fairness
-----------------------------------------------------------------------------
(* No message is launched more often than its policy allows, however the   *)
(* daemon dies between the attempt it writes down and the launch it starts *)
(* and however many listeners share the role (process_message).            *)
LaunchCap == \A m \in Msg : launches[m] <= MaxAttempts

(* Two listeners never run a launch for the same message: the lease an     *)
(* attempt takes outlives redeliveries and sweeps (IN_FLIGHT_LEASE).       *)
OneLaunchAtATime ==
    \A l, k \in Listener :
        At(l, "launching") /\ At(k, "launching") /\ job[l] = job[k] => l = k

(* The server is told that a message is done with only once it is          *)
(* recorded as completed or given up (record_finished before stream_ack).  *)
NothingDropped == \A m \in Msg : server[m] = "acked" => fin[m] # "none"

(* A finished message is never launched again, though the consumer of its  *)
(* stream may be set back behind it, and how it ended stays on record.     *)
FinishedStaysQuiet ==
    [][\A m \in Msg : fin[m] # "none" =>
          launches'[m] = launches[m] /\ fin'[m] # "none"]_vars

(* Every message that the consumer still covers ends acked, and stays so.  *)
Settles ==
    \A m \in Msg : <>[](server[m] \in {"absent", "acked", "passed"})

(* What was put aside for the poller is sent (flush_outbox).               *)
OutboxDrains == \A m \in Msg : m \in outbox ~> m \in told

(* The listeners keep the promise of the opening comment of wake_retry.rs. *)
Phase(m) == IF fin[m] # "none" THEN "closed"
            ELSE IF Launching(m) THEN "running" ELSE "open"
Promise == INSTANCE WakePromise WITH phase <- [m \in Msg |-> Phase(m)], runs <- launches
KeepsPromise == Promise!Spec

(* "releases messages an earlier run left pending, so none is stranded     *)
(* across a restart" (wake_retry.rs).                                      *)
NoneStranded == \A m \in Msg : server[m] # "passed"

(* "`write_record` is true for exactly one caller per message"             *)
(* (dead_letter).                                                          *)
OneDeadLetter == \A m \in Msg : lines[m] <= 1
===============================================================================
