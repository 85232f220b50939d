---------------------------- MODULE OneDaemonProofs ----------------------------
(***************************************************************************)
(* Theorems about ActionQueue when a project has one daemon.  If a person  *)
(* looks at the destination before answering, nothing is sent twice, what  *)
(* a person is told is true, and each action lives the life that           *)
(* OutsideActions promises.  If no append of a batch is cut, the actions   *)
(* of an ordered draft go out in order whatever a person answers, and what *)
(* cannot be undone goes out last.                                         *)
(***************************************************************************)
EXTENDS ActionQueueProofs

OneDaemon == \A v, w \in Worker : v = w

(* What a sending worker knows about the entry it sends, given the outcome *)
(* it holds.  `done' says it went out, a failure that it did not.          *)
SendsOnce ==
    \A w \in Worker :
       /\ pc[w] \in {"call", "record"} => state[hand[w]] = "sending"
       /\ pc[w] = "call" => delivered[hand[w]] = 0
       /\ pc[w] = "record" =>
             /\ outcome[w] = "done" => delivered[hand[w]] = 1
             /\ outcome[w] \in {"retryable", "rejected"} => delivered[hand[w]] = 0

(* What waits did not go out, and only an unknown outcome leaves it open.  *)
WaitsUnsent ==
    \A k \in Key :
       /\ state[k] \in {"absent", "queued", "retrying"} => delivered[k] = 0
       /\ state[k] = "attention" /\ note[k] # "unknown" => delivered[k] = 0
       /\ delivered[k] <= 1

OnceInv == TypeInv /\ SendsOnce /\ WaitsUnsent

(* At first nothing was sent and nobody sends.                             *)
LEMMA OnceInit == Init => OnceInv
  BY TypeInit DEF Init, OnceInv, SendsOnce, WaitsUnsent

(* Leaving a candidate leaves nothing to know.                             *)
LEMMA PutDownOnce ==
  ASSUME OneDaemon, TypeInv, NEW w \in Worker,
         pc' = [pc EXCEPT ![w] = "pass"] \/ pc' = [pc EXCEPT ![w] = "down"]
  PROVE  SendsOnce'
  BY DEF OneDaemon, TypeInv, Typed, SendsOnce

LEMMA OnceEnqueue ==
  ASSUME OnceInv, TypeInv',
         \/ \E d \in Draft : Enqueue(d) \/ EnqueueTorn(d)
         \/ \E a \in HasUndo : RequestUndo(a)
  PROVE  OnceInv'
<1>1. PICK S \in SUBSET Key :
         /\ AddEntries(S) /\ \A k \in S : state[k] = "absent"
         /\ UNCHANGED <<note, workerVars, historyVars>>
  <2>1. CASE \E d \in Draft : Enqueue(d)
    <3>1. PICK d \in Draft : Enqueue(d)
      BY <2>1
    <3>2. Members(d) \ Known \in SUBSET Key /\ \A k \in Members(d) \ Known : state[k] = "absent"
      BY DEF Members, Known, Key
    <3> QED
      BY <3>1, <3>2 DEF Enqueue
  <2>2. CASE \E d \in Draft : EnqueueTorn(d)
    <3>1. PICK d \in Draft : EnqueueTorn(d)
      BY <2>2
    <3>2. PICK a \in Members(d) \ Known :
             AddEntries({b \in Members(d) \ Known : Place[b] < Place[a]})
      BY <3>1 DEF EnqueueTorn
    <3> DEFINE S == {b \in Members(d) \ Known : Place[b] < Place[a]}
    <3>3. S \in SUBSET Key /\ \A k \in S : state[k] = "absent"
      BY DEF Members, Known, Key
    <3> QED
      BY <3>1, <3>2, <3>3 DEF EnqueueTorn
  <2>3. CASE \E a \in HasUndo : RequestUndo(a)
    <3>1. PICK a \in HasUndo : RequestUndo(a)
      BY <2>3
    <3>2. {Undo(a)} \in SUBSET Key /\ \A k \in {Undo(a)} : state[k] = "absent"
      BY <3>1, UndoIsKey DEF RequestUndo
    <3> QED
      BY <3>1, <3>2 DEF RequestUndo
  <2> QED
    BY <2>1, <2>2, <2>3
<1>2. \A k \in Key : state'[k] = state[k] \/ (state[k] = "absent" /\ state'[k] = "queued")
  BY <1>1 DEF AddEntries
<1>3. \A k \in Key : state[k] = "sending" => state'[k] = "sending"
  BY <1>2
<1>4. SendsOnce'
  BY <1>1, <1>3 DEF OnceInv, SendsOnce, TypeInv, HandHeld, workerVars, historyVars
<1>5. WaitsUnsent'
  BY <1>1, <1>2 DEF OnceInv, WaitsUnsent, historyVars
<1> QED
  BY <1>4, <1>5 DEF OnceInv

LEMMA OnceStep ==
  ASSUME OneDaemon, CarefulPerson
  PROVE  OnceInv /\ [Next]_vars => OnceInv'
<1> SUFFICES ASSUME OnceInv, [Next]_vars, TypeInv, TypeInv' PROVE SendsOnce' /\ WaitsUnsent'
  BY TypeStep DEF OnceInv
<1>1. CASE \/ \E d \in Draft : Enqueue(d) \/ EnqueueTorn(d)
           \/ \E a \in HasUndo : RequestUndo(a)
  BY <1>1, OnceEnqueue DEF OnceInv
<1> USE DEF OnceInv, TypeInv, Typed, HandHeld
<1>2. ASSUME NEW w \in Worker, Start(w) PROVE SendsOnce' /\ WaitsUnsent'
  BY <1>2 DEF Start, OneDaemon, SendsOnce, WaitsUnsent, historyVars
<1>3. ASSUME NEW w \in Worker, StartUnrecovered(w) \/ BeginPass(w) \/ EndPass(w)
                                 \/ \E k \in Key : Consider(w, k)
      PROVE  SendsOnce' /\ WaitsUnsent'
  BY <1>3 DEF StartUnrecovered, BeginPass, EndPass, Consider, OneDaemon, SendsOnce,
              WaitsUnsent, queueVars, historyVars
<1>4. ASSUME NEW w \in Worker,
             ClaimSkips(w) \/ ClaimBlocked(w) \/ ClaimFails(w) \/ RecordFails(w) \/ Crash(w)
      PROVE  SendsOnce' /\ WaitsUnsent'
  <2>1. SendsOnce'
    BY <1>4, PutDownOnce DEF ClaimSkips, ClaimBlocked, ClaimFails, RecordFails, Crash, PutDown
  <2>2. WaitsUnsent'
    BY <1>4 DEF ClaimSkips, ClaimBlocked, NeedsAttention, ClaimFails, MarkSending, Due,
                RecordFails, Crash, WaitsUnsent, queueVars, historyVars
  <2> QED
    BY <2>1, <2>2
<1>5. ASSUME NEW w \in Worker, Claim(w) PROVE SendsOnce' /\ WaitsUnsent'
  BY <1>5 DEF Claim, MarkSending, Due, OneDaemon, SendsOnce, WaitsUnsent, historyVars
<1>6. ASSUME NEW w \in Worker, NEW out \in Outcomes, NEW arrived \in BOOLEAN,
             Execute(w, out, arrived)
      PROVE  SendsOnce' /\ WaitsUnsent'
  BY <1>6 DEF Execute, OneDaemon, SendsOnce, WaitsUnsent, queueVars
<1>7. ASSUME NEW w \in Worker, Record(w) PROVE SendsOnce' /\ WaitsUnsent'
  <2>1. SendsOnce'
    BY <1>7, PutDownOnce DEF Record, PutDown
  <2>2. WaitsUnsent'
    BY <1>7 DEF Record, RecordOutcome, RecordDone, RecordRetry, RecordAttention,
                NeedsAttention, SendsOnce, WaitsUnsent, historyVars
  <2> QED
    BY <2>1, <2>2
<1>8. CASE \E k \in Key : BackoffElapses(k)
  BY <1>8 DEF BackoffElapses, SendsOnce, WaitsUnsent, workerVars, historyVars
<1>9. ASSUME NEW k \in Key, Resolve(k) PROVE SendsOnce' /\ WaitsUnsent'
  BY <1>9, CarefulPerson DEF Resolve, Close, Requeue, SendsOnce, WaitsUnsent, workerVars
<1>10. CASE UNCHANGED vars
  BY <1>10 DEF vars, SendsOnce, WaitsUnsent
<1> QED
  BY <1>1, <1>2, <1>3, <1>4, <1>5, <1>6, <1>7, <1>8, <1>9, <1>10 DEF Next, WorkerStep

(* An outside action never runs twice (docs/USAGE.md:8537), across crashes,*)
(* retries, lost records, cut batches and repeated enqueueing, if there is *)
(* one daemon and the person who answers has looked.                       *)
THEOREM RunsOnce ==
  ASSUME OneDaemon, CarefulPerson
  PROVE  Spec => []NeverTwice
<1>1. OnceInv => NeverTwice
  BY DEF OnceInv, WaitsUnsent, NeverTwice
<1>2. OnceInv /\ [Next]_vars => OnceInv'
  BY OnceStep, OneDaemon, CarefulPerson
<1> QED
  BY <1>1, <1>2, OnceInit, PTL DEF Spec

(* The reason shown to the person is true: only `unknown' leaves open      *)
(* whether the action went out (AttentionReason::explain).                 *)
THEOREM ReasonsHold ==
  ASSUME OneDaemon, CarefulPerson
  PROVE  Spec => []ReasonHonest
<1>1. OnceInv => ReasonHonest
  BY DEF OnceInv, WaitsUnsent, ReasonHonest
<1>2. OnceInv /\ [Next]_vars => OnceInv'
  BY OnceStep, OneDaemon, CarefulPerson
<1> QED
  BY <1>1, <1>2, OnceInit, PTL DEF Spec

-----------------------------------------------------------------------------
(* THE LIFE OF AN ACTION.  Along each key a step of the queue is one of    *)
(* these, and each is a step of OutsideActions.                            *)
Along(k, from, to) == state[k] \in from /\ state'[k] \in to /\ delivered'[k] = delivered[k]
Waiting == {"queued", "retrying"}

Walks(k) ==
    \/ state'[k] = state[k] /\ delivered'[k] = delivered[k]
    \/ Along(k, {"absent"}, {"queued"})
    \/ Along(k, Waiting, {"sending"}) /\ delivered[k] = 0
    \/ state[k] = "sending" /\ state'[k] = "sending" /\ delivered[k] = 0 /\ delivered'[k] = 1
    \/ Along(k, {"sending"}, {"retrying"}) /\ delivered[k] = 0
    \/ Along(k, {"sending"}, {"done"}) /\ delivered[k] = 1
    \/ Along(k, {"sending"}, {"attention"})
    \/ Along(k, Waiting, {"attention"}) /\ delivered[k] = 0
    \/ Along(k, {"attention"}, {"done"})
    \/ Along(k, {"attention"}, {"queued"}) /\ delivered[k] = 0

LEMMA EveryKeyWalks ==
  ASSUME OneDaemon, CarefulPerson, OnceInv, Next, NEW k \in Key
  PROVE  Walks(k)
<1> USE DEF OnceInv, TypeInv, Typed, HandHeld, Walks, Along, Waiting
<1>1. CASE \E d \in Draft : Enqueue(d) \/ EnqueueTorn(d)
  BY <1>1 DEF Enqueue, EnqueueTorn, AddEntries, Known, historyVars
<1>2. CASE \E w \in Worker : Start(w)
  BY <1>2 DEF Start, historyVars
<1>3. CASE \E w \in Worker : \/ StartUnrecovered(w) \/ BeginPass(w) \/ EndPass(w)
                             \/ (\E j \in Key : Consider(w, j)) \/ ClaimSkips(w)
                             \/ RecordFails(w) \/ Crash(w)
  BY <1>3 DEF StartUnrecovered, BeginPass, EndPass, Consider, ClaimSkips, RecordFails,
              Crash, queueVars, historyVars
<1>4. CASE \E w \in Worker : ClaimBlocked(w) \/ Claim(w) \/ ClaimFails(w)
  BY <1>4 DEF ClaimBlocked, NeedsAttention, Claim, ClaimFails, MarkSending, Due,
              WaitsUnsent, historyVars
<1>5. CASE \E w \in Worker, out \in Outcomes, arrived \in BOOLEAN : Execute(w, out, arrived)
  BY <1>5 DEF Execute, SendsOnce, queueVars
<1>6. CASE \E w \in Worker : Record(w)
  BY <1>6 DEF Record, RecordOutcome, RecordDone, RecordRetry, RecordAttention,
              NeedsAttention, SendsOnce, historyVars
<1>7. CASE \E j \in Key : BackoffElapses(j)
  BY <1>7 DEF BackoffElapses, historyVars
<1>8. CASE \E j \in Key : Resolve(j)
  BY <1>8, CarefulPerson DEF Resolve, Close, Requeue
<1>9. CASE \E a \in HasUndo : RequestUndo(a)
  BY <1>9 DEF RequestUndo, AddEntries, historyVars
<1> QED
  BY <1>1, <1>2, <1>3, <1>4, <1>5, <1>6, <1>7, <1>8, <1>9 DEF Next, WorkerStep

(* The phase of an entry is a function of its state.                       *)
PhaseOfState(s) ==
    CASE s = "absent" -> "none"
      [] s \in {"queued", "retrying"} -> "waiting"
      [] s = "sending" -> "inflight"
      [] s = "attention" -> "attention"
      [] s = "done" -> "closed"

LEMMA PhaseValues ==
  /\ PhaseOfState("absent") = "none"
  /\ PhaseOfState("queued") = "waiting" /\ PhaseOfState("retrying") = "waiting"
  /\ PhaseOfState("sending") = "inflight"
  /\ PhaseOfState("attention") = "attention"
  /\ PhaseOfState("done") = "closed"
  BY DEF PhaseOfState

LEMMA WalkLives ==
  ASSUME TypeInv, TypeInv', NEW k \in Key, Walks(k)
  PROVE  Promise!Live(k)
<1> DEFINE p == PhaseOfState(state[k])
           q == PhaseOfState(state'[k])
           o == delivered[k] > 0
           n == delivered'[k] > 0
<1>1. /\ [j \in Key |-> PhaseOf(j)][k] = p /\ [j \in Key |-> PhaseOf(j)]'[k] = q
      /\ [j \in Key |-> delivered[j] > 0][k] = o /\ [j \in Key |-> delivered[j] > 0]'[k] = n
  BY DEF PhaseOf, PhaseOfState
<1>2. \/ p = q /\ n = o
      \/ p = "none" /\ q = "waiting" /\ n = o
      \/ p = "waiting" /\ q = "inflight" /\ ~o /\ n = o
      \/ p = "inflight" /\ q = "inflight" /\ ~o /\ n
      \/ p = "inflight" /\ q = "waiting" /\ ~o /\ n = o
      \/ p = "inflight" /\ q = "closed" /\ o /\ n = o
      \/ p = "inflight" /\ q = "attention" /\ n = o
      \/ p = "waiting" /\ q = "attention" /\ ~o /\ n = o
      \/ p = "attention" /\ q = "closed" /\ n = o
      \/ p = "attention" /\ q = "waiting" /\ ~o /\ n = o
  BY PhaseValues DEF Walks, Along, Waiting, TypeInv, Typed
<1> HIDE DEF p, q, o, n
<1> QED
  BY <1>1, <1>2
     DEF Promise!Live, Promise!Accept, Promise!Launch, Promise!Land, Promise!Bounce,
         Promise!Confirm, Promise!Doubt, Promise!Refuse, Promise!Answer,
         Promise!SendAgain, Promise!Moves, Promise!Quiet

PhasesTyped ==
    /\ [k \in Key |-> PhaseOf(k)] \in [Key -> Promise!Phases]
    /\ [k \in Key |-> delivered[k] > 0] \in [Key -> BOOLEAN]

LEMMA PhaseTypes == TypeInv => PhasesTyped
<1> SUFFICES ASSUME TypeInv PROVE PhasesTyped
  OBVIOUS
<1>1. ASSUME NEW k \in Key PROVE PhaseOf(k) \in Promise!Phases
  <2>1. PhaseOf(k) = PhaseOfState(state[k]) /\ state[k] \in States
    BY DEF PhaseOf, PhaseOfState, TypeInv, Typed
  <2> QED
    BY <2>1, PhaseValues DEF States, Promise!Phases
<1> QED
  BY <1>1 DEF PhasesTyped

(* Seen from outside, each action lives as the design says: at most one    *)
(* arrival, no failure recorded of what went out, no outcome guessed, and  *)
(* what is closed stays closed (atomic-apply-and-action-queue-design.md).  *)
THEOREM LivesAsPromised ==
  ASSUME OneDaemon, CarefulPerson
  PROVE  Spec => KeepsItsPromise
<1>1. Init => Promise!Init
  <2> SUFFICES ASSUME Init PROVE Promise!Init
    OBVIOUS
  <2>1. \A k \in Key : PhaseOf(k) = "none" /\ (delivered[k] > 0) = FALSE
    BY DEF Init, PhaseOf
  <2> QED
    BY <2>1 DEF Promise!Init
<1>2. OnceInv /\ [Next]_vars => [Promise!Next]_<<[k \in Key |-> PhaseOf(k)],
                                                 [k \in Key |-> delivered[k] > 0]>>
  <2> SUFFICES ASSUME OnceInv, [Next]_vars
               PROVE  [Promise!Next]_<<[k \in Key |-> PhaseOf(k)],
                                       [k \in Key |-> delivered[k] > 0]>>
    OBVIOUS
  <2>1. CASE UNCHANGED vars
    BY <2>1 DEF vars, PhaseOf
  <2>2. CASE Next
    <3>1. TypeInv /\ TypeInv'
      BY TypeStep DEF OnceInv
    <3>2. \A k \in Key : Promise!Live(k)
      BY <2>2, <3>1, EveryKeyWalks, WalkLives, OneDaemon, CarefulPerson
    <3>3. PhasesTyped'
      BY <3>1, PhaseTypes, PTL
    <3> QED
      BY <3>2, <3>3 DEF Promise!Next, PhasesTyped
  <2> QED
    BY <2>1, <2>2
<1>3. OnceInv /\ [Next]_vars => OnceInv'
  BY OnceStep, OneDaemon, CarefulPerson
<1> QED
  BY <1>1, <1>2, <1>3, OnceInit, PTL DEF Spec, KeepsItsPromise, Promise!Spec

-----------------------------------------------------------------------------
(* THE ORDER OF A DRAFT.  Whatever a person answers, one daemon keeps the  *)
(* order as long as no append of a batch is cut: then the actions of a     *)
(* draft enter the journal together, and what the daemon looked up when it *)
(* took a candidate still holds when the connector runs, because an entry  *)
(* that is done stays done.                                                *)
WholeBatches == "torn" \notin Faults
PlacesDiffer ==
    \A a, b \in Action : DraftOf[a] = DraftOf[b] /\ Place[a] = Place[b] => a = b

Busy(w) == pc[w] \in {"claim", "call", "record"}

Owns == \A w \in Worker : pc[w] \in {"call", "record"} => state[hand[w]] = "sending"

Together ==
    \A a, b \in Action :
       DraftOf[a] = DraftOf[b] =>
          arrival[a] = arrival[b] /\ (state[a] = "absent" <=> state[b] = "absent")

TakenAreKnown ==
    \A w \in Worker : todo[w] \in SUBSET Known /\ (Busy(w) => hand[w] \in Known)

EarlierDone(a) ==
    \A o \in Action : DraftOf[o] = DraftOf[a] /\ Place[o] < Place[a] => state[o] = "done"
OthersDone(a) ==
    \A o \in Action :
       DraftOf[o] = DraftOf[a] /\ Class[o] # "irrecoverable" => state[o] = "done"

InOrder ==
    /\ \A a \in Action : IsOrdered(a) /\ attempts[a] > 0 => EarlierDone(a)
    /\ \A w \in Worker : \A a \in Action :
          Busy(w) /\ hand[w] = a =>
             /\ IsOrdered(a) => EarlierDone(a)
             /\ ~IsOrdered(a) /\ Class[a] = "irrecoverable" => OthersDone(a)

DraftInv == TypeInv /\ Owns /\ Together /\ TakenAreKnown /\ InOrder

LEMMA ActionsAreNotUndos == \A a \in Action : a \in Key /\ ~IsUndo(a)
  BY QueueAssumption DEF QueueAssumption, IsUndo, Key

LEMMA OwnsStep ==
  ASSUME OneDaemon, TypeInv, Owns, Next
  PROVE  Owns'
<1> USE DEF TypeInv, Typed, HandHeld, OneDaemon, Owns
<1>1. CASE \E d \in Draft : Enqueue(d) \/ EnqueueTorn(d)
  BY <1>1 DEF Enqueue, EnqueueTorn, AddEntries, Known, workerVars
<1>2. CASE \E w \in Worker : \/ Start(w) \/ StartUnrecovered(w) \/ BeginPass(w) \/ EndPass(w)
                             \/ \E k \in Key : Consider(w, k)
  BY <1>2 DEF Start, StartUnrecovered, BeginPass, EndPass, Consider, queueVars
<1>3. CASE \E w \in Worker : \/ ClaimSkips(w) \/ ClaimBlocked(w) \/ ClaimFails(w)
                             \/ Record(w) \/ RecordFails(w) \/ Crash(w)
  BY <1>3 DEF ClaimSkips, ClaimBlocked, ClaimFails, Record, RecordFails, Crash, PutDown
<1>4. CASE \E w \in Worker : Claim(w)
  BY <1>4 DEF Claim, MarkSending
<1>5. CASE \E w \in Worker, out \in Outcomes, arrived \in BOOLEAN : Execute(w, out, arrived)
  BY <1>5 DEF Execute, queueVars
<1>6. CASE \E k \in Key : BackoffElapses(k) \/ Resolve(k)
  BY <1>6 DEF BackoffElapses, Resolve, Close, Requeue, workerVars
<1>7. CASE \E a \in HasUndo : RequestUndo(a)
  BY <1>7 DEF RequestUndo, AddEntries, workerVars
<1> QED
  BY <1>1, <1>2, <1>3, <1>4, <1>5, <1>6, <1>7 DEF Next, WorkerStep

(* What is done stays done, and what is known stays known.                 *)
LEMMA DoneStays ==
  ASSUME TypeInv, Owns, Next, NEW k \in Key
  PROVE  /\ state[k] = "done" => state'[k] = "done"
         /\ state[k] # "absent" => state'[k] # "absent"
<1> USE DEF TypeInv, Typed, HandHeld
<1>1. CASE \E d \in Draft : Enqueue(d) \/ EnqueueTorn(d)
  BY <1>1 DEF Enqueue, EnqueueTorn, AddEntries, Known
<1>2. CASE \E w \in Worker : \/ Start(w) \/ StartUnrecovered(w) \/ BeginPass(w) \/ EndPass(w)
                             \/ (\E j \in Key : Consider(w, j)) \/ RecordFails(w) \/ Crash(w)
  BY <1>2 DEF Start, StartUnrecovered, BeginPass, EndPass, Consider, RecordFails, Crash,
              queueVars
<1>3. CASE \E w \in Worker : ClaimSkips(w) \/ ClaimBlocked(w) \/ ClaimFails(w) \/ Claim(w)
  BY <1>3 DEF ClaimSkips, ClaimBlocked, NeedsAttention, ClaimFails, Claim, MarkSending,
              Due, queueVars
<1>4. CASE \E w \in Worker, out \in Outcomes, arrived \in BOOLEAN : Execute(w, out, arrived)
  BY <1>4 DEF Execute, queueVars
<1>5. CASE \E w \in Worker : Record(w)
  BY <1>5 DEF Record, RecordOutcome, RecordDone, RecordRetry, RecordAttention,
              NeedsAttention, Owns
<1>6. CASE \E j \in Key : BackoffElapses(j) \/ Resolve(j)
  BY <1>6 DEF BackoffElapses, Resolve, Close, Requeue
<1>7. CASE \E a \in HasUndo : RequestUndo(a)
  BY <1>7, UndoIsKey DEF RequestUndo, AddEntries
<1> QED
  BY <1>1, <1>2, <1>3, <1>4, <1>5, <1>6, <1>7 DEF Next, WorkerStep

LEMMA SagaStays == Next => saga' = saga
  BY DEF Next, WorkerStep, Enqueue, EnqueueTorn, Start, StartUnrecovered, BeginPass, EndPass,
         Consider, ClaimSkips, ClaimBlocked, Claim, ClaimFails, Execute, Record, RecordFails,
         Crash, BackoffElapses, Resolve, RequestUndo, queueVars

(* The actions of a draft enter the journal in one append.                 *)
LEMMA TogetherStep ==
  ASSUME WholeBatches, TypeInv, Owns, Together, Next
  PROVE  Together'
<1> USE DEF TypeInv, Typed, HandHeld
<1>1. ASSUME NEW d \in Draft, Enqueue(d) PROVE Together'
  <2> DEFINE S == Members(d) \ Known
  <2>1. AddEntries(S)
    BY <1>1 DEF Enqueue
  <2>2. \A a \in Action : a \in S <=> DraftOf[a] = d /\ state[a] = "absent"
    BY DEF Members, Known, Key
  <2> HIDE DEF S
  <2> QED
    BY <2>1, <2>2 DEF AddEntries, Together, Key
<1>2. ASSUME NEW d \in Draft, EnqueueTorn(d) PROVE Together'
  BY <1>2 DEF EnqueueTorn, Fault, WholeBatches
<1>3. ASSUME NEW a \in HasUndo, RequestUndo(a) PROVE Together'
  <2>1. \A b \in Action : state'[b] = state[b] /\ arrival'[b] = arrival[b]
    BY <1>3, ActionsAreNotUndos DEF RequestUndo, AddEntries, IsUndo, UndoKey
  <2> QED
    BY <2>1 DEF Together
<1>4. ASSUME arrival' = arrival,
             \A k \in Key : state[k] = "absent" <=> state'[k] = "absent"
      PROVE  Together'
  BY <1>4 DEF Together, Key
<1>5. CASE \E w \in Worker : \/ Start(w) \/ StartUnrecovered(w) \/ WorkerStep(w)
                             \/ ClaimFails(w) \/ RecordFails(w) \/ Crash(w)
  <2>1. arrival' = arrival
    BY <1>5 DEF Start, StartUnrecovered, WorkerStep, BeginPass, EndPass, Consider, ClaimSkips,
                ClaimBlocked, Claim, ClaimFails, Execute, Record, RecordFails, Crash, queueVars
  <2>2. \A k \in Key : state[k] = "absent" => state'[k] = "absent"
    <3>1. CASE \E w \in Worker : \/ Start(w) \/ StartUnrecovered(w) \/ BeginPass(w)
                                 \/ EndPass(w) \/ (\E j \in Key : Consider(w, j))
                                 \/ ClaimSkips(w) \/ RecordFails(w) \/ Crash(w)
                                 \/ \E out \in Outcomes, b \in BOOLEAN : Execute(w, out, b)
      BY <3>1 DEF Start, StartUnrecovered, BeginPass, EndPass, Consider, ClaimSkips,
                  RecordFails, Crash, Execute, queueVars
    <3>2. CASE \E w \in Worker : ClaimBlocked(w) \/ Claim(w) \/ ClaimFails(w)
      BY <3>2 DEF ClaimBlocked, NeedsAttention, Claim, ClaimFails, MarkSending, Due
    <3>3. CASE \E w \in Worker : Record(w)
      BY <3>3 DEF Record, RecordOutcome, RecordDone, RecordRetry, RecordAttention,
                  NeedsAttention, Owns
    <3> QED
      BY <1>5, <3>1, <3>2, <3>3 DEF WorkerStep
  <2> QED
    BY <1>4, <2>1, <2>2, DoneStays
<1>6. CASE \E k \in Key : BackoffElapses(k) \/ Resolve(k)
  BY <1>6, <1>4 DEF BackoffElapses, Resolve, Close, Requeue
<1> QED
  BY <1>1, <1>2, <1>3, <1>5, <1>6 DEF Next

(* A worker gets busy with a candidate only by taking one that is not held *)
(* back, and its candidates were due when the pass began.                  *)
LEMMA Taking ==
  ASSUME TypeInv, Next, NEW w \in Worker
  PROVE  /\ todo'[w] \in SUBSET (Known \cup todo[w])
         /\ Busy(w)' => \/ Busy(w) /\ hand'[w] = hand[w]
                        \/ hand'[w] \in todo[w] /\ ~Held(hand'[w]) /\ UNCHANGED queueVars
<1> USE DEF TypeInv, Typed, Busy
<1>1. CASE \E v \in Worker, k \in Key : Consider(v, k)
  BY <1>1 DEF Consider
<1>2. CASE \E v \in Worker : BeginPass(v)
  BY <1>2 DEF BeginPass, Due, Known
<1>3. CASE \E v \in Worker : Start(v) \/ StartUnrecovered(v) \/ EndPass(v) \/ Claim(v)
                             \/ \E out \in Outcomes, b \in BOOLEAN : Execute(v, out, b)
  BY <1>3 DEF Start, StartUnrecovered, EndPass, Claim, Execute
<1>4. CASE \E v \in Worker : ClaimSkips(v) \/ ClaimBlocked(v) \/ ClaimFails(v) \/ Record(v)
                             \/ RecordFails(v) \/ Crash(v)
  BY <1>4 DEF ClaimSkips, ClaimBlocked, ClaimFails, Record, RecordFails, Crash, PutDown, Forget
<1>5. CASE UNCHANGED workerVars
  BY <1>5 DEF workerVars
<1> QED
  BY <1>1, <1>2, <1>3, <1>4, <1>5 DEF Next, WorkerStep, Enqueue, EnqueueTorn, BackoffElapses,
     Resolve, RequestUndo

(* A worker takes only what the journal holds.                             *)
LEMMA TakenStep ==
  ASSUME TypeInv, TypeInv', Owns, TakenAreKnown, Next
  PROVE  TakenAreKnown'
<1>1. Known \in SUBSET Known'
  BY DoneStays DEF Known
<1> QED
  BY <1>1, Taking DEF TakenAreKnown

LEMMA DoneKept ==
  ASSUME TypeInv, Owns, Next, NEW a \in Action
  PROVE  /\ EarlierDone(a) => EarlierDone(a)'
         /\ OthersDone(a) => OthersDone(a)'
         /\ IsOrdered(a)' <=> IsOrdered(a)
<1>1. \A o \in Action : state[o] = "done" => state'[o] = "done"
  BY DoneStays, ActionsAreNotUndos
<1>2. saga' = saga
  BY SagaStays
<1> QED
  BY <1>1, <1>2 DEF EarlierDone, OthersDone, IsOrdered, IsUndo

(* What is not held back has its predecessors, or all the rest, done.      *)
LEMMA NotHeld ==
  ASSUME TypeInv, Together, NEW a \in Action, a \in Known, ~Held(a)
  PROVE  /\ IsOrdered(a) => EarlierDone(a)
         /\ ~IsOrdered(a) /\ Class[a] = "irrecoverable" => OthersDone(a)
<1>1. \A o \in Action : DraftOf[o] = DraftOf[a] => o \in Known \ UndoKey /\ arrival[o] = arrival[a]
  BY ActionsAreNotUndos DEF Together, Known, IsUndo
<1>2. \A o \in Action : PlaceOf(o) = Place[o]
  BY ActionsAreNotUndos DEF PlaceOf
<1>3. IsOrdered(a) => EarlierDone(a)
  BY <1>1, <1>2 DEF Held, WaitsForOrder, Earlier, EarlierDone
<1>4. ~IsOrdered(a) /\ Class[a] = "irrecoverable" => OthersDone(a)
  BY <1>1, ActionsAreNotUndos DEF Held, WaitsToBeLast, OthersDone
<1> QED
  BY <1>3, <1>4

(* Only the entry a worker is busy with is attempted.                      *)
LEMMA Attempting ==
  ASSUME TypeInv, Next, NEW a \in Action, attempts[a] = 0, attempts'[a] > 0
  PROVE  \E w \in Worker : Busy(w) /\ hand[w] = a
<1> USE DEF TypeInv, Typed, HandHeld, Busy
<1>1. CASE UNCHANGED attempts
  BY <1>1
<1>2. ASSUME NEW w \in Worker, Claim(w) \/ ClaimFails(w) PROVE Busy(w) /\ hand[w] = a
  BY <1>2, ActionsAreNotUndos DEF Claim, ClaimFails, MarkSending
<1>3. ASSUME NEW w \in Worker, Record(w) PROVE Busy(w) /\ hand[w] = a
  BY <1>3, ActionsAreNotUndos
     DEF Record, RecordOutcome, RecordDone, RecordRetry, RecordAttention, NeedsAttention
<1> QED
  BY <1>1, <1>2, <1>3
     DEF Next, WorkerStep, Enqueue, EnqueueTorn, Start, StartUnrecovered, BeginPass, EndPass,
         Consider, ClaimSkips, ClaimBlocked, Execute, RecordFails, Crash, BackoffElapses,
         Resolve, RequestUndo, queueVars

LEMMA InOrderStep ==
  ASSUME TypeInv, Owns, Together, TakenAreKnown, InOrder, Next
  PROVE  InOrder'
<1>1. ASSUME NEW a \in Action, IsOrdered(a)', attempts'[a] > 0 PROVE EarlierDone(a)'
  <2>1. attempts[a] > 0 \/ \E w \in Worker : Busy(w) /\ hand[w] = a
    BY <1>1, Attempting, ActionsAreNotUndos DEF TypeInv, Typed
  <2> QED
    BY <1>1, <2>1, DoneKept DEF InOrder
<1>2. ASSUME NEW w \in Worker, NEW a \in Action, Busy(w)', hand'[w] = a
      PROVE  /\ IsOrdered(a)' => EarlierDone(a)'
             /\ ~IsOrdered(a)' /\ Class[a] = "irrecoverable" => OthersDone(a)'
  <2>1. CASE Busy(w) /\ hand[w] = a
    BY <2>1, DoneKept DEF InOrder
  <2>2. CASE a \in todo[w] /\ ~Held(a)
    BY <2>2, NotHeld, DoneKept DEF TakenAreKnown
  <2> QED
    BY <1>2, <2>1, <2>2, Taking
<1> QED
  BY <1>1, <1>2 DEF InOrder

LEMMA DraftInit == Init => DraftInv
<1> SUFFICES ASSUME Init PROVE DraftInv
  OBVIOUS
<1>1. Owns /\ TakenAreKnown
  BY DEF Init, Owns, TakenAreKnown, Busy
<1>2. Together /\ InOrder
  BY ActionsAreNotUndos DEF Init, Together, InOrder, Busy
<1> QED
  BY <1>1, <1>2, TypeInit DEF DraftInv

LEMMA DraftStep ==
  ASSUME OneDaemon, WholeBatches
  PROVE  DraftInv /\ [Next]_vars => DraftInv'
<1> SUFFICES ASSUME DraftInv, [Next]_vars PROVE DraftInv'
  OBVIOUS
<1>1. TypeInv /\ TypeInv'
  BY TypeStep DEF DraftInv
<1>2. CASE Next
  BY <1>1, <1>2, OneDaemon, WholeBatches, OwnsStep, TogetherStep, TakenStep, InOrderStep
     DEF DraftInv
<1>3. CASE UNCHANGED vars
  <2>1. /\ Owns' /\ Together' /\ TakenAreKnown'
    BY <1>3 DEF vars, DraftInv, Owns, Together, TakenAreKnown, Busy, Known
  <2>2. InOrder'
    BY <1>3 DEF vars, DraftInv, InOrder, Busy, IsOrdered, IsUndo, EarlierDone, OthersDone
  <2> QED
    BY <1>1, <2>1, <2>2 DEF DraftInv
<1> QED
  BY <1>2, <1>3

(* Saga order: a step of an ordered draft is with its connector only when  *)
(* the steps declared before it are done and those after it were never     *)
(* tried, through crashes, lost records, retries and any answer a person   *)
(* gives (order_blockers and run_once).                                    *)
THEOREM StepsInOrder ==
  ASSUME OneDaemon, WholeBatches, PlacesDiffer
  PROVE  Spec => []SagaOrder
<1>1. DraftInv => SagaOrder
  <2> SUFFICES ASSUME DraftInv, NEW w \in Worker, pc[w] = "call", IsOrdered(hand[w]),
                      NEW o \in Members(DraftOf[hand[w]]) \ {hand[w]}
               PROVE  IF Place[o] < Place[hand[w]] THEN state[o] = "done"
                                                   ELSE attempts[o] = 0
    BY DEF SagaOrder
  <2> DEFINE a == hand[w]
  <2>1. a \in Action /\ o \in Action /\ DraftOf[o] = DraftOf[a] /\ o # a /\ Busy(w)
    BY DEF DraftInv, TypeInv, HandHeld, IsOrdered, IsUndo, Key, Members, Busy
  <2>2. EarlierDone(a) /\ state[a] = "sending"
    BY <2>1 DEF DraftInv, InOrder, Owns
  <2>3. CASE Place[o] < Place[a]
    BY <2>1, <2>2, <2>3 DEF EarlierDone
  <2>4. CASE ~(Place[o] < Place[a])
    <3>1. Place[a] < Place[o]
      BY <2>1, <2>4, PlacesDiffer, QueueAssumption DEF PlacesDiffer, QueueAssumption
    <3>2. IsOrdered(o) /\ ~EarlierDone(o)
      BY <2>1, <2>2, <3>1, ActionsAreNotUndos DEF IsOrdered, EarlierDone
    <3>3. attempts[o] \in Nat /\ ~(attempts[o] > 0)
      BY <2>1, <3>2, ActionsAreNotUndos DEF DraftInv, InOrder, TypeInv, Typed
    <3> QED
      BY <2>4, <3>3
  <2> QED
    BY <2>3, <2>4
<1>2. DraftInv /\ [Next]_vars => DraftInv'
  BY DraftStep, OneDaemon, WholeBatches
<1> QED
  BY <1>1, <1>2, DraftInit, PTL DEF Spec

(* What is done went out, unless a person dropped it.                      *)
DoneForReal == \A k \in Key : WentOut(k) \/ LetGo(k) \/ state[k] # "done"
LastInv == DraftInv /\ OnceInv /\ DoneForReal

(* Nothing takes back what was sent, and a note is rewritten only with the *)
(* state.                                                                  *)
LEMMA DoneForRealStep ==
  ASSUME CarefulPerson, TypeInv, OnceInv, Owns, DoneForReal, Next
  PROVE  DoneForReal'
<1> USE DEF TypeInv, Typed, HandHeld, DoneForReal, WentOut, LetGo
<1>1. CASE \E d \in Draft : Enqueue(d) \/ EnqueueTorn(d)
  BY <1>1 DEF Enqueue, EnqueueTorn, AddEntries, Known, historyVars
<1>2. CASE \E w \in Worker : Start(w)
  BY <1>2 DEF Start, historyVars
<1>3. CASE \E w \in Worker : \/ StartUnrecovered(w) \/ BeginPass(w) \/ EndPass(w)
                             \/ (\E k \in Key : Consider(w, k)) \/ ClaimSkips(w)
                             \/ RecordFails(w) \/ Crash(w)
  BY <1>3 DEF StartUnrecovered, BeginPass, EndPass, Consider, ClaimSkips, RecordFails,
              Crash, queueVars, historyVars
<1>4. CASE \E w \in Worker : ClaimBlocked(w) \/ Claim(w) \/ ClaimFails(w)
  BY <1>4 DEF ClaimBlocked, NeedsAttention, Claim, ClaimFails, MarkSending, Due, historyVars
<1>5. CASE \E w \in Worker, out \in Outcomes, arrived \in BOOLEAN : Execute(w, out, arrived)
  BY <1>5 DEF Execute, queueVars
<1>6. CASE \E w \in Worker : Record(w)
  BY <1>6 DEF Record, RecordOutcome, RecordDone, RecordRetry, RecordAttention,
              NeedsAttention, OnceInv, SendsOnce, historyVars
<1>7. CASE \E k \in Key : BackoffElapses(k)
  BY <1>7 DEF BackoffElapses, historyVars
<1>8. CASE \E k \in Key : Resolve(k)
  BY <1>8, CarefulPerson DEF Resolve, Close, Requeue
<1>9. CASE \E a \in HasUndo : RequestUndo(a)
  BY <1>9 DEF RequestUndo, AddEntries, historyVars
<1> QED
  BY <1>1, <1>2, <1>3, <1>4, <1>5, <1>6, <1>7, <1>8, <1>9 DEF Next, WorkerStep

(* IRRECOVERABLE LAST (queue.rs:20, docs/USAGE.md:8538): while an          *)
(* irrecoverable action of an unordered draft is with its connector, every *)
(* action of the draft that is not irrecoverable itself is done, and was   *)
(* really sent unless a person dropped it.  aq_torn_batch shows that a     *)
(* batch cut short breaks it, which is why WholeBatches is assumed;        *)
(* CarefulPerson is what keeps an unsent action from being confirmed sent. *)
THEOREM IrrecoverableGoesLast ==
  ASSUME OneDaemon, WholeBatches, CarefulPerson
  PROVE  Spec => []IrrecoverableLast
<1>1. LastInv => IrrecoverableLast
  <2> SUFFICES ASSUME LastInv, NEW w \in Worker, AtItsConnector(w),
                      NEW o \in ReversibleMates(hand[w])
               PROVE  WentOut(o) \/ LetGo(o)
    BY DEF IrrecoverableLast
  <2>1. /\ hand[w] \in Action /\ Busy(w)
        /\ o \in Action /\ DraftOf[o] = DraftOf[hand[w]] /\ Class[o] # "irrecoverable"
    BY DEF LastInv, DraftInv, TypeInv, HandHeld, AtItsConnector, ReversibleMates, IsUndo, Key,
           Members, Busy
  <2>2. OthersDone(hand[w])
    BY <2>1 DEF LastInv, DraftInv, InOrder, AtItsConnector
  <2>3. state[o] = "done"
    BY <2>1, <2>2 DEF OthersDone
  <2> QED
    BY <2>1, <2>3, ActionsAreNotUndos DEF LastInv, DoneForReal
<1>2. Init => LastInv
  BY DraftInit, OnceInit DEF Init, LastInv, DoneForReal, WentOut, LetGo
<1>3. LastInv /\ [Next]_vars => LastInv'
  <2> SUFFICES ASSUME LastInv, [Next]_vars PROVE LastInv'
    OBVIOUS
  <2>1. DraftInv' /\ OnceInv'
    BY DraftStep, OnceStep, OneDaemon, WholeBatches, CarefulPerson DEF LastInv
  <2>2. DoneForReal'
    <3>1. CASE Next
      BY <3>1, CarefulPerson, DoneForRealStep DEF LastInv, DraftInv
    <3>2. CASE UNCHANGED vars
      BY <3>2 DEF vars, LastInv, DoneForReal, WentOut, LetGo
    <3> QED
      BY <3>1, <3>2
  <2> QED
    BY <2>1, <2>2 DEF LastInv
<1> QED
  BY <1>1, <1>2, <1>3, PTL DEF Spec
===============================================================================
