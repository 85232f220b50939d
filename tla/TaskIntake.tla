------------------------------ MODULE TaskIntake ------------------------------
(***************************************************************************)
(* The store of the task intake funnel (crates/ta-task-intake).            *)
(*                                                                         *)
(* Goals ask for tasks through the gateway; consumers drain the requests   *)
(* in batches under a lease and acknowledge what became of them, by the    *)
(* ids alone: the store cannot tell one consumer from another.  State      *)
(* lives in an append-only ledger; request bodies live in a queue file     *)
(* that a drain renames to a batch file.  One flock serialises every       *)
(* operation, so one operation at a time is in progress; it appends line   *)
(* by line and may stop after any of them, because its process dies or     *)
(* because an append fails.                                                *)
(*                                                                         *)
(* The ledger is represented by what folding it yields for each request.   *)
(* An operation reads the clock once: time does not pass while one runs.   *)
(***************************************************************************)
EXTENDS Naturals, FiniteSets

CONSTANTS
    Request,      \* request ids
    Twin,         \* the dedupe key of the body that a request carries
    Goal,         \* goals that ask
    MaxClaims,    \* settings.max_claim_attempts; 0 has the effect of 1
    MaxRecords,   \* DrainRequest.max_records
    PerGoal,      \* settings.caps.per_goal
    Outstanding,  \* settings.caps.per_project_outstanding
    Answers,      \* bound: the outcomes that consumers report
    MaxFaults,    \* bound: operations cut short
    Nobody

ASSUME IntakeAssumption ==
    /\ IsFiniteSet(Request) /\ IsFiniteSet(Goal)
    /\ MaxClaims \in Nat \ {0} /\ MaxRecords \in Nat \ {0}
    /\ PerGoal \in Nat /\ Outstanding \in Nat /\ MaxFaults \in Nat
    /\ Answers \subseteq {"drafted", "applied", "rejected", "expired"}
    /\ Nobody \notin Goal

VARIABLES
    state,    \* RequestState in the ledger, "none" where it has no event
    claims,   \* Tracked.claim_count
    asked,    \* the goals the ledger lists: origin and folded duplicates
    maker,    \* the goal in the body of the record
    born,     \* its created_at
    inQueue,  \* the records in queue.jsonl
    inBatch,  \* the records in some batch file
    overdue,  \* requests created longer than the TTL ago
    lapsed,   \* claims whose lease has run out
    op,       \* the operation that holds the lock
    told,     \* history: the goals that were given the id of a request
    faults    \* faults so far

diskVars == <<state, claims, asked, maker, born, inQueue, inBatch>>
clockVars == <<overdue, lapsed>>
vars == <<state, claims, asked, maker, born, inQueue, inBatch, overdue, lapsed,
          op, told, faults>>

Terminal == {"applied", "rejected", "expired"}
States == {"none", "queued", "claimed", "drafted"} \cup Terminal
Kinds == {"idle", "enqueue", "recover", "claim", "ack"}

Idle == [kind |-> "idle", who |-> Nobody, todo |-> {}, rest |-> {},
         drain |-> FALSE, to |-> "none"]

TypeOK ==
    /\ state \in [Request -> States]
    /\ claims \in [Request -> 0..MaxClaims]
    /\ asked \in [Request -> SUBSET Goal]
    /\ maker \in [Request -> Goal \cup {Nobody}]
    /\ born \in [Request -> Nat]
    /\ inQueue \subseteq Request /\ inBatch \subseteq Request
    /\ overdue \subseteq Request /\ lapsed \subseteq Request
    /\ op \in [kind : Kinds, who : Goal \cup {Nobody}, todo : SUBSET Request,
               rest : SUBSET Request, drain : BOOLEAN, to : States]
    /\ told \in [Request -> SUBSET Goal]
    /\ faults \in 0..MaxFaults

Init ==
    /\ state = [r \in Request |-> "none"]
    /\ claims = [r \in Request |-> 0]
    /\ asked = [r \in Request |-> {}]
    /\ maker = [r \in Request |-> Nobody]
    /\ born = [r \in Request |-> 0]
    /\ inQueue = {} /\ inBatch = {} /\ overdue = {} /\ lapsed = {}
    /\ op = Idle
    /\ told = [r \in Request |-> {}]
    /\ faults = 0

-----------------------------------------------------------------------------
(* Snapshot::load: a record the ledger does not know counts as queued.     *)
Tracked == inQueue \cup inBatch \cup {r \in Request : state[r] # "none"}
Waiting(r) == r \in Tracked /\ state[r] \in {"none", "queued"}

(* effective_state and is_live: a queued request past the TTL is as good   *)
(* as expired.                                                             *)
Live(r) == r \in Tracked /\ state[r] \notin Terminal /\ ~(Waiting(r) /\ r \in overdue)

(* Mutation: what was claimed may be applied without a draft.              *)
CanBecomeApplied(from, to) ==
    \/ from = "queued" /\ to \in {"claimed", "expired"}
    \/ from = "claimed" /\ to \in {"queued", "drafted"} \cup Terminal
    \/ from = "drafted" /\ to \in Terminal

(* RequestState::can_become.                                               *)
CanBecome(from, to) ==
    \/ from = "queued" /\ to \in {"claimed", "expired"}
    \/ from = "claimed" /\ to \in {"queued", "drafted", "rejected", "expired"}
    \/ from = "drafted" /\ to \in Terminal

RequestedBy(r, g) == g \in asked[r] \/ (state[r] = "none" /\ g = maker[r])

Oldest(s) == {r \in s : \A o \in s : born[r] <= born[o]}
Ledger(r, to) == state' = [state EXCEPT ![r] = to]
Tell(r, g) == told' = [told EXCEPT ![r] = @ \cup {g}]
Done(r) == op' = [op EXCEPT !.todo = @ \ {r}]

-----------------------------------------------------------------------------
(* enqueue.  An identical live request absorbs this one; the ledger notes  *)
(* the goal.  Folding the ledger passes over a duplicate whose request it  *)
(* does not know at that point, also when its own event comes later.       *)
FoldIn(g, r) ==
    /\ op = Idle
    /\ Live(r)
    /\ asked' = IF state[r] = "none" \/ RequestedBy(r, g)
                  THEN asked ELSE [asked EXCEPT ![r] = @ \cup {g}]
    /\ Tell(r, g)
    /\ UNCHANGED <<state, claims, maker, born, inQueue, inBatch, clockVars, op, faults>>

(* Mutation: the duplicate is looked for among the requests of the ledger. *)
AdmitTwin(g, r) ==
    /\ op = Idle /\ r \notin Tracked
    /\ \A o \in Request : Twin[o] = Twin[r] => ~(Live(o) /\ state[o] # "none")
    /\ Cardinality({o \in Tracked : maker[o] = g}) < PerGoal
    /\ Cardinality({o \in Tracked : Live(o)}) < Outstanding
    /\ maker' = [maker EXCEPT ![r] = g]
    /\ born' = [born EXCEPT ![r] = Cardinality(Tracked) + 1]
    /\ inQueue' = inQueue \cup {r}
    /\ op' = [Idle EXCEPT !.kind = "enqueue", !.who = g, !.todo = {r}]
    /\ UNCHANGED <<state, claims, asked, inBatch, clockVars, told, faults>>

(* Otherwise, within the caps: the queue line first, ...                   *)
Admit(g, r) ==
    /\ op = Idle /\ r \notin Tracked
    /\ \A o \in Request : Twin[o] = Twin[r] => ~Live(o)
    /\ Cardinality({o \in Tracked : maker[o] = g}) < PerGoal
    /\ Cardinality({o \in Tracked : Live(o)}) < Outstanding
    /\ maker' = [maker EXCEPT ![r] = g]
    /\ born' = [born EXCEPT ![r] = Cardinality(Tracked) + 1]
    /\ inQueue' = inQueue \cup {r}
    /\ op' = [Idle EXCEPT !.kind = "enqueue", !.who = g, !.todo = {r}]
    /\ UNCHANGED <<state, claims, asked, inBatch, clockVars, told, faults>>

(* ... the ledger event second.                                            *)
Enter(r) ==
    /\ op.kind = "enqueue" /\ r \in op.todo
    /\ Ledger(r, "queued")
    /\ asked' = [asked EXCEPT ![r] = {op.who}]
    /\ Tell(r, op.who)
    /\ op' = Idle
    /\ UNCHANGED <<claims, maker, born, inQueue, inBatch, clockVars, faults>>

-----------------------------------------------------------------------------
(* recover and the first half of drain.  The requests are independent, so  *)
(* only those that recovery has work on are listed, in any order.          *)
Stray(r) == r \notin inQueue

(* Mutations: a request that only a batch file holds is not looked for; a  *)
(* claim is taken back whether or not its lease has run out.               *)
NeedsRecoveryInQueue(r) ==
    \/ state[r] = "none"
    \/ state[r] = "queued" /\ r \in overdue
    \/ state[r] = "claimed" /\ r \in lapsed

NeedsRecoveryAtOnce(r) ==
    \/ state[r] = "none"
    \/ state[r] = "queued" /\ (r \in overdue \/ Stray(r))
    \/ state[r] = "claimed"

NeedsRecovery(r) ==
    \/ state[r] = "none"
    \/ state[r] = "queued" /\ (r \in overdue \/ Stray(r))
    \/ state[r] = "claimed" /\ r \in lapsed

StartRecovery(drain) ==
    /\ op = Idle
    /\ op' = [Idle EXCEPT !.kind = "recover", !.drain = drain,
                          !.todo = {r \in Tracked : NeedsRecovery(r)}]
    /\ UNCHANGED <<diskVars, clockVars, told, faults>>

Recovering(r) == op.kind = "recover" /\ r \in op.todo

(* A record whose ledger event never landed gets it now.                   *)
Heal(r) ==
    /\ Recovering(r)
    /\ state[r] = "none"
    /\ Ledger(r, "queued")
    /\ asked' = [asked EXCEPT ![r] = {maker[r]}]
    /\ IF r \in overdue \/ Stray(r) THEN UNCHANGED op ELSE Done(r)
    /\ UNCHANGED <<claims, maker, born, inQueue, inBatch, clockVars, told, faults>>

(* Queued for too long, or claimed once more than is allowed.              *)
Expire(r) ==
    /\ Recovering(r)
    /\ \/ state[r] = "queued" /\ r \in overdue
       \/ state[r] = "claimed" /\ claims[r] >= MaxClaims
    /\ Ledger(r, "expired")
    /\ Done(r)
    /\ UNCHANGED <<claims, asked, maker, born, inQueue, inBatch, clockVars, told, faults>>

(* Queued but only in a batch file: copied back.                           *)
CopyBack(r) ==
    /\ Recovering(r)
    /\ state[r] = "queued" /\ r \notin overdue /\ Stray(r)
    /\ inQueue' = inQueue \cup {r}
    /\ Done(r)
    /\ UNCHANGED <<state, claims, asked, maker, born, inBatch, clockVars, told, faults>>

(* Mutation: given back once too often.                                    *)
RequeueOnceMore(r) ==
    /\ Recovering(r)
    /\ state[r] = "claimed" /\ claims[r] <= MaxClaims
    /\ IF Stray(r)
         THEN inQueue' = inQueue \cup {r} /\ UNCHANGED <<state, op>>
         ELSE Ledger(r, "queued") /\ Done(r) /\ UNCHANGED inQueue
    /\ UNCHANGED <<claims, asked, maker, born, inBatch, clockVars, told, faults>>

(* A claim whose lease has run out: queue line first, ledger event second. *)
Requeue(r) ==
    /\ Recovering(r)
    /\ state[r] = "claimed" /\ claims[r] < MaxClaims
    /\ IF Stray(r)
         THEN inQueue' = inQueue \cup {r} /\ UNCHANGED <<state, op>>
         ELSE Ledger(r, "queued") /\ Done(r) /\ UNCHANGED inQueue
    /\ UNCHANGED <<claims, asked, maker, born, inBatch, clockVars, told, faults>>

-----------------------------------------------------------------------------
(* The second half of drain.                                               *)
Pending == {r \in inQueue : state[r] = "queued"}
Recovered == op.kind = "recover" /\ op.todo = {}

EndRecovery ==
    /\ Recovered
    /\ ~op.drain \/ Pending = {}
    /\ op' = Idle
    /\ UNCHANGED <<diskVars, clockVars, told, faults>>

(* The oldest requests, as many as the drain asks for.                     *)
Batch == {t \in SUBSET Pending :
            /\ Cardinality(t) = IF Cardinality(Pending) < MaxRecords
                                  THEN Cardinality(Pending) ELSE MaxRecords
            /\ \A r \in t, o \in Pending \ t : born[r] <= born[o]}

(* Mutation: only the requests taken are written to the batch file.        *)
RenameOnlyTaken ==
    /\ Recovered /\ op.drain /\ Pending # {}
    /\ \E take \in Batch :
          /\ op' = [op EXCEPT !.kind = "claim", !.todo = take, !.rest = Pending \ take]
          /\ inBatch' = inBatch \cup take
    /\ inQueue' = {}
    /\ UNCHANGED <<state, claims, asked, maker, born, clockVars, told, faults>>

(* The commit point: the queue file becomes the batch file.                *)
Rename ==
    /\ Recovered /\ op.drain /\ Pending # {}
    /\ \E take \in Batch :
          op' = [op EXCEPT !.kind = "claim", !.todo = take, !.rest = Pending \ take]
    /\ inBatch' = inBatch \cup inQueue
    /\ inQueue' = {}
    /\ UNCHANGED <<state, claims, asked, maker, born, clockVars, told, faults>>

Claim(r) ==
    /\ op.kind = "claim" /\ r \in Oldest(op.todo)
    /\ Ledger(r, "claimed")
    /\ claims' = [claims EXCEPT ![r] = @ + 1]
    /\ lapsed' = lapsed \ {r}
    /\ Done(r)
    /\ UNCHANGED <<asked, maker, born, inQueue, inBatch, overdue, told, faults>>

(* Requests beyond max_records go back into a fresh queue file.            *)
PutBack(r) ==
    /\ op.kind = "claim" /\ op.todo = {} /\ r \in Oldest(op.rest)
    /\ inQueue' = inQueue \cup {r}
    /\ op' = [op EXCEPT !.rest = @ \ {r}]
    /\ UNCHANGED <<state, claims, asked, maker, born, inBatch, clockVars, told, faults>>

HandOver ==
    /\ op.kind = "claim" /\ op.todo = {} /\ op.rest = {}
    /\ op' = Idle
    /\ UNCHANGED <<diskVars, clockVars, told, faults>>

-----------------------------------------------------------------------------
(* acknowledge: everything is validated first, then written line by line.  *)
Acknowledge(ids, to) ==
    /\ op = Idle
    /\ \A r \in ids : CanBecome(state[r], to)
    /\ op' = [Idle EXCEPT !.kind = "ack", !.todo = ids, !.to = to]
    /\ UNCHANGED <<diskVars, clockVars, told, faults>>

Note(r) ==
    /\ op.kind = "ack" /\ r \in op.todo
    /\ Ledger(r, op.to)
    /\ op' = IF op.todo = {r} THEN Idle ELSE [op EXCEPT !.todo = @ \ {r}]
    /\ UNCHANGED <<claims, asked, maker, born, inQueue, inBatch, clockVars, told, faults>>

-----------------------------------------------------------------------------
(* An append fails, or the process dies and the flock goes with it: what   *)
(* was written stays.                                                      *)
Abort ==
    /\ op # Idle
    /\ faults < MaxFaults /\ faults' = faults + 1
    /\ op' = Idle
    /\ UNCHANGED <<diskVars, clockVars, told>>

(* Time passes between operations.  Age means nothing once a request is    *)
(* drafted or closed.                                                      *)
Age(r) ==
    /\ op = Idle
    /\ r \in Tracked \ overdue /\ state[r] \in {"none", "queued", "claimed"}
    /\ overdue' = overdue \cup {r}
    /\ UNCHANGED <<diskVars, lapsed, op, told, faults>>

LeaseLapses(r) ==
    /\ op = Idle
    /\ state[r] = "claimed" /\ r \notin lapsed
    /\ lapsed' = lapsed \cup {r}
    /\ UNCHANGED <<diskVars, overdue, op, told, faults>>

-----------------------------------------------------------------------------
(* The steps of the operation that holds the lock.                         *)
Work ==
    \/ \E r \in Request :
          \/ Enter(r) \/ Heal(r) \/ Expire(r) \/ CopyBack(r) \/ Requeue(r)
          \/ Claim(r) \/ PutBack(r) \/ Note(r)
    \/ EndRecovery \/ Rename \/ HandOver

Next ==
    \/ \E g \in Goal, r \in Request : FoldIn(g, r) \/ Admit(g, r)
    \/ \E drain \in BOOLEAN : StartRecovery(drain)
    \/ \E ids \in (SUBSET Request) \ {{}}, to \in Answers : Acknowledge(ids, to)
    \/ Work \/ Abort
    \/ \E r \in Request : Age(r) \/ LeaseLapses(r)

Spec == Init /\ [][Next]_vars

(* An operation goes on until it ends or is cut short; leases run out,     *)
(* however often operations come in between; and draining is tried again   *)
(* and again and now and then gets the lock, which it waits up to ten      *)
(* seconds for (fs.rs:15).  Nothing makes a consumer acknowledge, and      *)
(* nothing makes a request grow old.                                       *)
Fairness ==
    /\ WF_vars(Work)
    /\ SF_vars(StartRecovery(TRUE))
    /\ \A r \in Request : SF_vars(LeaseLapses(r))

FairSpec == Spec /\ Fairness

-----------------------------------------------------------------------------
(* What the store promises.                                                *)

(* A request may be late in the ledger but is never lost (store.rs:20): as *)
(* long as it is open, a file that survives every rename has its body, and *)
(* a claimed one can be given back.                                        *)
NeverLost ==
    \A r \in Request :
       (maker[r] # Nobody /\ state[r] \notin Terminal) =>
          /\ r \in inQueue \cup inBatch
          /\ state[r] \in {"claimed", "drafted"} => r \in inBatch

(* The same task is open at most once (store.rs:674): not even a crash     *)
(* between the two appends, an expiry that nobody has recorded or a claim  *)
(* that was given back lets a twin in.                                     *)
OneOpenTwin ==
    \A r, o \in Request : (r # o /\ Twin[r] = Twin[o]) => ~(Live(r) /\ Live(o))

(* A request under a lease that has not run out is moved by nothing but an *)
(* acknowledgement: it is not given to a second consumer meanwhile.        *)
LeaseRespected ==
    [][\A r \in Request :
         (state[r] = "claimed" /\ r \notin lapsed /\ state'[r] # "claimed")
            => op.kind = "ack"]_vars

(* Whatever happens to consumers, every request that was admitted ends up  *)
(* drafted or closed: nobody waits for ever.                               *)
Settles ==
    <>[](\A r \in Request : maker[r] # Nobody => state[r] \in {"drafted"} \cup Terminal)

(* Each request lives the life that the design gives it.                   *)
LifeOf(r) ==
    CASE maker[r] = Nobody -> "none"
      [] maker[r] # Nobody /\ state[r] \in {"none", "queued"} -> "waiting"
      [] state[r] = "claimed" -> "held"
      [] state[r] \in {"drafted"} \cup Terminal -> state[r]

Life == INSTANCE RequestLife WITH
    life <- [r \in Request |-> LifeOf(r)],
    times <- claims

LivesItsLife == Life!Spec

(* A goal that was told a request's id can read its status                 *)
(* (docs/design/task-intake-store.md:34).                                  *)
TheToldCanAsk ==
    \A r \in Request : state[r] # "none" => \A g \in told[r] : RequestedBy(r, g)
===============================================================================
