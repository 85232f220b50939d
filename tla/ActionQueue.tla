------------------------------ MODULE ActionQueue ------------------------------
(***************************************************************************)
(* The durable queue of outside actions (crates/ta-actions/src/queue.rs)   *)
(* and the workers that drain it (crates/ta-daemon/src/action_worker.rs).  *)
(*                                                                         *)
(* `ta draft apply` appends the batch of a draft; every daemon of the      *)
(* project runs a worker that makes passes over the due entries; a person  *)
(* resolves what needs attention and may ask for an undo.  The append-only *)
(* journal is represented by what replaying it yields for each key.  Every *)
(* read-modify-append below happens under the queue lock; reading a        *)
(* snapshot does not take it.                                              *)
(*                                                                         *)
(* `delivered' and `resends' are history variables: how often the          *)
(* destination really received the action, and how often a person answered *)
(* --resend.  No guard of the code reads them; a careful person does, by   *)
(* looking at the destination.                                             *)
(***************************************************************************)
EXTENDS Naturals, FiniteSets

CONSTANTS
    Draft,          \* drafts that were applied
    Action,         \* the outside actions they bundle
    DraftOf,        \* the draft of an action
    Place,          \* position of an action in the batch of its draft
    Class,          \* reversibility its connector declared
    HasUndo,        \* the actions whose connector declares an undo verb
    Worker,         \* one per running daemon, API mode or MCP mode
    MaxAttempts,    \* RetryPolicy.max_attempts
    MaxResends,     \* bound: --resend answers per action
    MaxFaults,      \* bound: faults in one behaviour
    Faults,         \* the kinds of fault that may happen
    CarefulPerson,  \* does the person check the destination before answering?
    NoKey           \* no action in hand

Classes == {"reversible", "compensable", "irrecoverable"}
FaultKinds == {"crash", "torn", "record", "recover"}

Undo(a) == <<"undo", a>>
UndoKey == {Undo(a) : a \in HasUndo}
Key == Action \cup UndoKey

ASSUME QueueAssumption ==
    /\ IsFiniteSet(Action) /\ IsFiniteSet(Worker)
    /\ DraftOf \in [Action -> Draft]
    /\ Place \in [Action -> Nat]
    /\ Class \in [Action -> Classes]
    /\ HasUndo \subseteq Action
    /\ MaxAttempts \in Nat \ {0}
    /\ MaxResends \in Nat /\ MaxFaults \in Nat
    /\ Faults \subseteq FaultKinds
    /\ CarefulPerson \in BOOLEAN
    /\ Action \cap UndoKey = {} /\ NoKey \notin Key

VARIABLES
    state,      \* QueueEntry.state, or "absent"
    note,       \* AttentionReason, or how the entry came to be done
    attempts,   \* QueueEntry.attempts
    arrival,    \* entries in the journal before the append that added this one
    saga,       \* the drafts applied under the strict posture: NewAction.ordered
    ripe,       \* has next_attempt_at of a retrying entry passed?
    pc,         \* where the worker is
    todo,       \* candidates left in the worker's pass
    hand,       \* the key the worker is about to claim or is sending
    try,        \* the attempt number the worker claimed with
    outcome,    \* ExecOutcome the connector returned to the worker
    faults,     \* faults so far
    delivered,  \* history: times the destination received the action
    resends     \* history: --resend answers

queueVars == <<state, note, attempts, arrival, saga, ripe>>
workerVars == <<pc, todo, hand, try, outcome>>
historyVars == <<delivered, resends>>
vars == <<state, note, attempts, arrival, saga, ripe, pc, todo, hand, try,
          outcome, faults, delivered, resends>>

States == {"absent", "queued", "sending", "done", "retrying", "attention"}
Reasons == {"unknown", "blocked", "exhausted", "rejected"}
Notes == Reasons \cup {"none", "sent", "confirmed", "dropped"}
Outcomes == {"done", "retryable", "rejected", "unknown"}
Places == {"down", "idle", "pass", "claim", "call", "record"}

Typed ==
    /\ state \in [Key -> States]
    /\ note \in [Key -> Notes]
    /\ attempts \in [Key -> Nat]
    /\ arrival \in [Key -> Nat]
    /\ saga \in SUBSET Draft
    /\ ripe \in [Key -> BOOLEAN]
    /\ pc \in [Worker -> Places]
    /\ todo \in [Worker -> SUBSET Key]
    /\ hand \in [Worker -> Key \cup {NoKey}]
    /\ try \in [Worker -> Nat]
    /\ outcome \in [Worker -> Outcomes]
    /\ faults \in 0..MaxFaults
    /\ delivered \in [Key -> Nat]
    /\ resends \in [Key -> 0..MaxResends]

(* The types, and the range of the one number the retry limit is compared  *)
(* with (QueueEntry.attempts, queue.rs:1041): no entry is ever attempted   *)
(* more often than the limit and the answers of a person allow together.   *)
TypeOK ==
    /\ Typed
    /\ \A k \in Key : attempts[k] <= MaxAttempts + MaxResends

-----------------------------------------------------------------------------
IsUndo(k) == k \in UndoKey
IsOrdered(k) == ~IsUndo(k) /\ DraftOf[k] \in saga
ClassOf(k) == IF IsUndo(k) THEN "irrecoverable" ELSE Class[k]
PlaceOf(k) == IF IsUndo(k) THEN 0 ELSE Place[k]

Known == {k \in Key : state[k] # "absent"}
Members(d) == {a \in Action : DraftOf[a] = d}

(* Mutation: an entry that is retrying is never due again.                 *)
DueOnlyWhenQueued(k) == state[k] = "queued"

Due(k) == state[k] = "queued" \/ (state[k] = "retrying" /\ ripe[k])

(* Enqueue order: QueueEntry.seq.                                          *)
Earlier(j, k) ==
    \/ arrival[j] < arrival[k]
    \/ arrival[j] = arrival[k] /\ PlaceOf(j) < PlaceOf(k)

Rank(k) ==
    IF IsOrdered(k) \/ ClassOf(k) = "reversible" THEN 0
    ELSE IF ClassOf(k) = "compensable" THEN 1 ELSE 2

(* The order in which a pass takes its candidates.                         *)
Before(j, k) == Rank(j) < Rank(k) \/ (Rank(j) = Rank(k) /\ Earlier(j, k))

(* Mutation: only a step that is being sent holds back the next one.       *)
WaitsForTheStepBeingSent(k) ==
    /\ IsOrdered(k)
    /\ \E o \in Known \ UndoKey :
          DraftOf[o] = DraftOf[k] /\ Earlier(o, k) /\ state[o] = "sending"

(* Mutation: a mate between two attempts is not waited for.                *)
WaitsExceptForRetries(k) ==
    /\ ~IsUndo(k) /\ ~IsOrdered(k) /\ Class[k] = "irrecoverable"
    /\ \E o \in Known \ UndoKey :
          /\ DraftOf[o] = DraftOf[k] /\ o # k
          /\ Class[o] # "irrecoverable" /\ state[o] \notin {"done", "retrying"}

WaitsForOrder(k) ==
    /\ IsOrdered(k)
    /\ \E o \in Known \ UndoKey :
          DraftOf[o] = DraftOf[k] /\ Earlier(o, k) /\ state[o] # "done"

WaitsToBeLast(k) ==
    /\ ~IsUndo(k) /\ ~IsOrdered(k) /\ Class[k] = "irrecoverable"
    /\ \E o \in Known \ UndoKey :
          /\ DraftOf[o] = DraftOf[k] /\ o # k
          /\ Class[o] # "irrecoverable" /\ state[o] # "done"

Held(k) == WaitsForOrder(k) \/ WaitsToBeLast(k)

Fault(kind) == kind \in Faults /\ faults < MaxFaults /\ faults' = faults + 1

-----------------------------------------------------------------------------
Init ==
    /\ state = [k \in Key |-> "absent"]
    /\ note = [k \in Key |-> "none"]
    /\ attempts = [k \in Key |-> 0]
    /\ arrival = [k \in Key |-> 0]
    /\ saga \in SUBSET Draft
    /\ ripe = [k \in Key |-> FALSE]
    /\ pc = [w \in Worker |-> "down"]
    /\ todo = [w \in Worker |-> {}]
    /\ hand = [w \in Worker |-> NoKey]
    /\ try = [w \in Worker |-> 0]
    /\ outcome = [w \in Worker |-> "unknown"]
    /\ faults = 0
    /\ delivered = [k \in Key |-> 0]
    /\ resends = [k \in Key |-> 0]

AddEntries(S) ==
    /\ state' = [k \in Key |-> IF k \in S THEN "queued" ELSE state[k]]
    /\ arrival' = [k \in Key |-> IF k \in S THEN Cardinality(Known) ELSE arrival[k]]

(* enqueue_batch: one append of the actions whose key the journal does not *)
(* hold yet, so a second call (recovery makes one) adds only what is       *)
(* missing.                                                                *)
Enqueue(d) ==
    /\ AddEntries(Members(d) \ Known)
    /\ UNCHANGED <<note, attempts, saga, ripe, workerVars, faults, historyVars>>

(* append_locked fails part way: the whole lines that reached the disk     *)
(* stay, in batch order, and the torn one is skipped by every replay.      *)
EnqueueTorn(d) ==
    /\ Fault("torn")
    /\ \E a \in Members(d) \ Known :
          AddEntries({b \in Members(d) \ Known : Place[b] < Place[a]})
    /\ UNCHANGED <<note, attempts, saga, ripe, workerVars, historyVars>>

-----------------------------------------------------------------------------
(* Mutation: what was being sent when the daemon died is sent again.       *)
StartResends(w) ==
    /\ pc[w] = "down"
    /\ pc' = [pc EXCEPT ![w] = "idle"]
    /\ state' = [k \in Key |-> IF state[k] = "sending" THEN "queued" ELSE state[k]]
    /\ UNCHANGED <<note, attempts, arrival, saga, ripe, todo, hand, try, outcome,
                   faults, historyVars>>

(* A daemon starts.  recover_in_flight moves what is `sending' to `needs   *)
(* attention' and never resends it.                                        *)
Start(w) ==
    /\ pc[w] = "down"
    /\ pc' = [pc EXCEPT ![w] = "idle"]
    /\ state' = [k \in Key |-> IF state[k] = "sending" THEN "attention" ELSE state[k]]
    /\ note' = [k \in Key |-> IF state[k] = "sending" THEN "unknown" ELSE note[k]]
    /\ UNCHANGED <<attempts, arrival, saga, ripe, todo, hand, try, outcome, faults, historyVars>>

(* recover_in_flight fails: startup logs the error and the worker runs.    *)
StartUnrecovered(w) ==
    /\ Fault("recover")
    /\ pc[w] = "down"
    /\ pc' = [pc EXCEPT ![w] = "idle"]
    /\ UNCHANGED <<queueVars, todo, hand, try, outcome, historyVars>>

(* run_once takes the due entries of a snapshot.                           *)
BeginPass(w) ==
    /\ pc[w] = "idle"
    /\ pc' = [pc EXCEPT ![w] = "pass"]
    /\ todo' = [todo EXCEPT ![w] = {k \in Key : Due(k)}]
    /\ UNCHANGED <<queueVars, hand, try, outcome, faults, historyVars>>

EndPass(w) ==
    /\ pc[w] = "pass" /\ todo[w] = {}
    /\ pc' = [pc EXCEPT ![w] = "idle"]
    /\ UNCHANGED <<queueVars, todo, hand, try, outcome, faults, historyVars>>

(* The next candidate is looked up in a fresh snapshot, without the lock,  *)
(* and either held back for a later pass or taken to be claimed.           *)
Consider(w, k) ==
    /\ pc[w] = "pass" /\ k \in todo[w]
    /\ \A j \in todo[w] \ {k} : Before(k, j)
    /\ todo' = [todo EXCEPT ![w] = @ \ {k}]
    /\ IF Held(k)
         THEN UNCHANGED <<pc, hand>>
         ELSE /\ pc' = [pc EXCEPT ![w] = "claim"]
              /\ hand' = [hand EXCEPT ![w] = k]
    /\ UNCHANGED <<queueVars, try, outcome, faults, historyVars>>

(* The worker leaves a candidate, and its locals for it.                   *)
Forget(w) ==
    /\ hand' = [hand EXCEPT ![w] = NoKey]
    /\ try' = [try EXCEPT ![w] = 0]
    /\ outcome' = [outcome EXCEPT ![w] = "unknown"]

PutDown(w) == pc' = [pc EXCEPT ![w] = "pass"] /\ Forget(w) /\ UNCHANGED todo

(* claim, under the lock: the entry must still be due.                     *)
ClaimSkips(w) ==
    /\ pc[w] = "claim" /\ ~Due(hand[w])
    /\ PutDown(w)
    /\ UNCHANGED <<queueVars, faults, historyVars>>

NeedsAttention(k, why) ==
    /\ state' = [state EXCEPT ![k] = "attention"]
    /\ note' = [note EXCEPT ![k] = why]
    /\ ripe' = [ripe EXCEPT ![k] = FALSE]

(* The send policy is read again on every attempt.                         *)
ClaimBlocked(w) ==
    /\ pc[w] = "claim" /\ Due(hand[w])
    /\ NeedsAttention(hand[w], "blocked")
    /\ PutDown(w)
    /\ UNCHANGED <<attempts, arrival, saga, faults, historyVars>>

MarkSending(k) ==
    /\ state' = [state EXCEPT ![k] = "sending"]
    /\ attempts' = [attempts EXCEPT ![k] = @ + 1]
    /\ ripe' = [ripe EXCEPT ![k] = FALSE]

(* Mutation: claim trusts the snapshot of the pass.                        *)
ClaimUnchecked(w) ==
    /\ pc[w] = "claim"
    /\ MarkSending(hand[w])
    /\ try' = [try EXCEPT ![w] = attempts[hand[w]] + 1]
    /\ pc' = [pc EXCEPT ![w] = "call"]
    /\ UNCHANGED <<note, arrival, saga, todo, hand, outcome, faults, historyVars>>

(* The intent is on disk before the connector is called.                   *)
Claim(w) ==
    /\ pc[w] = "claim" /\ Due(hand[w])
    /\ MarkSending(hand[w])
    /\ try' = [try EXCEPT ![w] = attempts[hand[w]] + 1]
    /\ pc' = [pc EXCEPT ![w] = "call"]
    /\ UNCHANGED <<note, arrival, saga, todo, hand, outcome, faults, historyVars>>

(* The lock is not had in time or the append fails: nothing is sent, but   *)
(* when only the fsync failed the `sending' line is there to be read.      *)
ClaimFails(w) ==
    /\ Fault("record")
    /\ pc[w] = "claim" /\ Due(hand[w])
    /\ \/ MarkSending(hand[w])
       \/ UNCHANGED <<state, attempts, ripe>>
    /\ PutDown(w)
    /\ UNCHANGED <<note, arrival, saga, historyVars>>

(* The connector runs.  `retryable' and `rejected' say that nothing went   *)
(* out; a timeout or a panic is `unknown' whichever way it went.           *)
Execute(w, out, arrived) ==
    /\ pc[w] = "call"
    /\ out = "done" => arrived
    /\ out \in {"retryable", "rejected"} => ~arrived
    /\ delivered' = [delivered EXCEPT ![hand[w]] = IF arrived THEN @ + 1 ELSE @]
    /\ outcome' = [outcome EXCEPT ![w] = out]
    /\ pc' = [pc EXCEPT ![w] = "record"]
    /\ UNCHANGED <<queueVars, todo, hand, try, faults, resends>>

(* Each outcome has its record.  None of them looks at the state the       *)
(* journal gives the key by then.                                          *)
RecordDone(k) ==
    /\ state' = [state EXCEPT ![k] = "done"]
    /\ note' = [note EXCEPT ![k] = "sent"]
    /\ UNCHANGED <<attempts, ripe>>

RecordRetry(k, n) ==
    /\ state' = [state EXCEPT ![k] = "retrying"]
    /\ attempts' = [attempts EXCEPT ![k] = n]
    /\ ripe' = [ripe EXCEPT ![k] = FALSE]
    /\ UNCHANGED note

RecordAttention(k, why) ==
    /\ NeedsAttention(k, why)
    /\ UNCHANGED attempts

(* Mutations: no clear answer is taken for a rejection, or for a failure   *)
(* worth retrying; the retry limit is off by one.                          *)
RecordUnknownAsRejected(k, n, out) ==
    \/ out = "done" /\ RecordDone(k)
    \/ out = "retryable" /\ n < MaxAttempts /\ RecordRetry(k, n)
    \/ out \in {"rejected", "unknown"} /\ RecordAttention(k, "rejected")

RecordUnknownAsRetry(k, n, out) ==
    \/ out = "done" /\ RecordDone(k)
    \/ out \in {"retryable", "unknown"} /\ RecordRetry(k, n)
    \/ out = "rejected" /\ RecordAttention(k, "rejected")

RecordOneRetryTooMany(k, n, out) ==
    \/ out = "done" /\ RecordDone(k)
    \/ out = "retryable" /\ n <= MaxAttempts /\ RecordRetry(k, n)
    \/ out # "retryable" /\ out # "done" /\ RecordAttention(k, "rejected")

RecordOutcome(k, n, out) ==
    \/ out = "done" /\ RecordDone(k)
    \/ out = "retryable" /\ n >= MaxAttempts /\ RecordAttention(k, "exhausted")
    \/ out = "retryable" /\ n < MaxAttempts /\ RecordRetry(k, n)
    \/ out = "rejected" /\ RecordAttention(k, "rejected")
    \/ out = "unknown" /\ RecordAttention(k, "unknown")

Record(w) ==
    /\ pc[w] = "record"
    /\ RecordOutcome(hand[w], try[w], outcome[w])
    /\ PutDown(w)
    /\ UNCHANGED <<arrival, saga, faults, historyVars>>

(* The record cannot be written: run_once logs it and goes on, and the     *)
(* entry stays `sending' until a daemon starts.                            *)
RecordFails(w) ==
    /\ Fault("record")
    /\ pc[w] = "record"
    /\ PutDown(w)
    /\ UNCHANGED <<queueVars, historyVars>>

(* The daemon dies at any point, between the call and its record included. *)
Crash(w) ==
    /\ Fault("crash")
    /\ pc[w] # "down"
    /\ pc' = [pc EXCEPT ![w] = "down"]
    /\ todo' = [todo EXCEPT ![w] = {}]
    /\ Forget(w)
    /\ UNCHANGED <<queueVars, historyVars>>

-----------------------------------------------------------------------------
(* The delay computed by delay_after has passed.                           *)
BackoffElapses(k) ==
    /\ state[k] = "retrying" /\ ~ripe[k]
    /\ ripe' = [ripe EXCEPT ![k] = TRUE]
    /\ UNCHANGED <<state, note, attempts, arrival, saga, workerVars, faults, historyVars>>

Close(k, how) ==
    /\ state' = [state EXCEPT ![k] = "done"]
    /\ note' = [note EXCEPT ![k] = how]
    /\ UNCHANGED resends

Requeue(k) ==
    /\ resends[k] < MaxResends
    /\ state' = [state EXCEPT ![k] = "queued"]
    /\ note' = [note EXCEPT ![k] = "none"]
    /\ resends' = [resends EXCEPT ![k] = @ + 1]

(* resolve: only an entry in `needs attention' takes a decision.           *)
Resolve(k) ==
    /\ state[k] = "attention"
    /\ \/ (CarefulPerson => delivered[k] > 0) /\ Close(k, "confirmed")
       \/ (CarefulPerson => delivered[k] = 0) /\ Requeue(k)
       \/ Close(k, "dropped")
    /\ UNCHANGED <<attempts, arrival, saga, ripe, workerVars, faults, delivered>>

(* request_undo: a new entry, once per action.                             *)
RequestUndo(a) ==
    /\ state[a] = "done" /\ Class[a] = "compensable"
    /\ state[Undo(a)] = "absent"
    /\ AddEntries({Undo(a)})
    /\ UNCHANGED <<note, attempts, saga, ripe, workerVars, faults, historyVars>>

-----------------------------------------------------------------------------
WorkerStep(w) ==
    \/ BeginPass(w) \/ EndPass(w)
    \/ \E k \in Key : Consider(w, k)
    \/ ClaimSkips(w) \/ ClaimBlocked(w) \/ Claim(w)
    \/ \E out \in Outcomes, arrived \in BOOLEAN : Execute(w, out, arrived)
    \/ Record(w)

Next ==
    \/ \E d \in Draft : Enqueue(d) \/ EnqueueTorn(d)
    \/ \E w \in Worker :
          \/ Start(w) \/ StartUnrecovered(w) \/ WorkerStep(w)
          \/ ClaimFails(w) \/ RecordFails(w) \/ Crash(w)
    \/ \E k \in Key : BackoffElapses(k) \/ Resolve(k)
    \/ \E a \in HasUndo : RequestUndo(a)

Spec == Init /\ [][Next]_vars

(* The daemon is restarted and its loop runs: a pass every five seconds,   *)
(* each candidate taken in turn; time passes.  Nothing is assumed of the   *)
(* person, of the policy or of the connectors.                             *)
Fairness ==
    /\ \A w \in Worker : WF_vars(Start(w)) /\ WF_vars(WorkerStep(w))
    /\ \A k \in Key : WF_vars(BackoffElapses(k))

FairSpec == Spec /\ Fairness

-----------------------------------------------------------------------------
(* What the queue promises.                                                *)

(* An outside action never runs twice (docs/USAGE.md:8537).  With one      *)
(* daemon and a person who checks the destination, this holds across       *)
(* crashes, retries, lost records and repeated enqueueing.                 *)
NeverTwice == \A k \in Key : delivered[k] <= 1

(* Whatever the number of daemons and whatever a person answers, the queue *)
(* itself never spends more sends than it was given: one by the apply and  *)
(* one by each --resend.                                                   *)
AtMostOncePerLicence == \A k \in Key : delivered[k] <= 1 + resends[k]

(* The attempt number is the one number the retry limit is compared with;  *)
(* late records of two daemons do not let it run away.                     *)
AttemptsBounded == \A k \in Key : attempts[k] <= MaxAttempts + resends[k]

(* IRRECOVERABLE LAST (queue.rs:20, docs/USAGE.md:8538).  While an         *)
(* irrecoverable action of an unordered draft is with its connector, every *)
(* action of the draft that is not irrecoverable itself -- of the draft,   *)
(* not of what the journal happens to hold -- is done, and has really gone *)
(* out unless a person dropped it.  The code exempts irrecoverable mates,  *)
(* which go in declared order among themselves, and a dropped mate counts  *)
(* as done for it; IrrecoverableAfterSuccess is what the manual says.      *)
WentOut(o) == state[o] = "done" /\ delivered[o] > 0
LetGo(o) == state[o] = "done" /\ note[o] = "dropped"

AtItsConnector(w) ==
    /\ pc[w] = "call" /\ ~IsUndo(hand[w]) /\ ~IsOrdered(hand[w])
    /\ Class[hand[w]] = "irrecoverable"

ReversibleMates(a) == {o \in Members(DraftOf[a]) : Class[o] # "irrecoverable"}

IrrecoverableLast ==
    \A w \in Worker :
       AtItsConnector(w) => \A o \in ReversibleMates(hand[w]) : WentOut(o) \/ LetGo(o)

(* The manual's words (docs/USAGE.md:8538): irrecoverable actions run only *)
(* after every other action of the same draft has succeeded.               *)
IrrecoverableAfterSuccess ==
    \A w \in Worker :
       AtItsConnector(w) => \A o \in ReversibleMates(hand[w]) : WentOut(o)

(* Saga order: a step of an ordered draft is sent only when the steps      *)
(* declared before it are done and those after it have never been tried.   *)
SagaOrder ==
    \A w \in Worker :
       (pc[w] = "call" /\ IsOrdered(hand[w]))
       => \A o \in Members(DraftOf[hand[w]]) \ {hand[w]} :
             IF Place[o] < Place[hand[w]] THEN state[o] = "done" ELSE attempts[o] = 0

(* The sentence shown to the person is right: only `unknown' leaves open   *)
(* whether the action went out (AttentionReason::explain).                 *)
ReasonHonest ==
    \A k \in Key : (state[k] = "attention" /\ note[k] # "unknown") => delivered[k] = 0

(* An entry whose record could not be written is `sending' with nobody     *)
(* sending it, until a daemon starts (queue.rs:998).                      *)
Stranded(k) == state[k] = "sending" /\ \A w \in Worker : hand[w] # k

Settled(k) == state[k] \in {"done", "attention"} \/ Stranded(k)

Mates(k) == IF IsUndo(k) THEN {} ELSE Members(DraftOf[k]) \ {k}

(* ISOLATED (queue.rs:22), and no holding pattern is a deadlock: whatever  *)
(* fails, an entry that is queued or retrying ends up done or before a     *)
(* person, unless an action of its own draft is before a person.           *)
Progress ==
    \A k \in Key :
       state[k] \in {"queued", "retrying"}
          ~> \/ Settled(k)
             \/ \E o \in Mates(k) : state[o] = "attention" \/ Stranded(o)

(* Each action, seen from outside, behaves as the design says.             *)
PhaseOf(k) ==
    CASE state[k] = "absent" -> "none"
      [] state[k] \in {"queued", "retrying"} -> "waiting"
      [] state[k] = "sending" -> "inflight"
      [] state[k] = "attention" -> "attention"
      [] state[k] = "done" -> "closed"

Promise ==
    INSTANCE OutsideActions WITH
        phase <- [k \in Key |-> PhaseOf(k)],
        out <- [k \in Key |-> delivered[k] > 0]

KeepsItsPromise == Promise!Spec
===============================================================================
