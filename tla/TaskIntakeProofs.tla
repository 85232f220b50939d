--------------------------- MODULE TaskIntakeProofs ---------------------------
(***************************************************************************)
(* Theorems about TaskIntake, for any requests, goals, keys, limits and    *)
(* number of operations cut short.                                         *)
(***************************************************************************)
EXTENDS TaskIntake, FiniteSetTheorems, TLAPS

(* What the operation in progress may rely on: nobody else moves what it   *)
(* has on its list.                                                        *)
OpInv ==
    /\ \A r \in op.todo \cup op.rest : maker[r] # Nobody
    /\ op.kind = "recover" => \A r \in op.todo : state[r] = "claimed" => r \in lapsed
    /\ op.kind = "enqueue" =>
          op.who \in Goal /\ \A r \in op.todo : state[r] = "none" /\ r \in inQueue
    /\ op.kind = "claim" =>
          /\ \A r \in op.todo : state[r] = "queued" /\ r \in inBatch
          /\ \A r \in op.rest : r \in inBatch
    /\ op.kind = "ack" => op.to \in Answers /\ \A r \in op.todo : CanBecome(state[r], op.to)

(* A request that waits has a claim left.                                  *)
ClaimLeft == \A r \in Request : state[r] \in {"none", "queued"} => claims[r] < MaxClaims

(* Whatever has left a trace was asked for by somebody.                    *)
Made ==
    \A r \in Request :
       (r \in inQueue \cup inBatch \/ state[r] # "none") => maker[r] # Nobody

StoreInv == TypeOK /\ OpInv /\ ClaimLeft /\ Made /\ NeverLost

USE IntakeAssumption DEF IntakeAssumption

LEMMA StoreInit == Init => StoreInv
  BY DEF Init, StoreInv, TypeOK, OpInv, ClaimLeft, Made, NeverLost, Idle, States, Kinds, Terminal

LEMMA BornIsNat == ASSUME TypeOK PROVE Cardinality(Tracked) + 1 \in Nat
<1>1. Tracked \subseteq Request
  BY DEF TypeOK, Tracked
<1> QED
  BY <1>1, FS_Subset, FS_CardinalityType

LEMMA StoreAdmit ==
    ASSUME StoreInv, NEW g \in Goal, NEW r \in Request, Admit(g, r)
    PROVE  StoreInv'
<1>1. TypeOK'
  BY BornIsNat DEF StoreInv, TypeOK, Admit, Idle, States, Kinds, Terminal, clockVars
<1>2. OpInv'
  BY DEF StoreInv, TypeOK, OpInv, Admit, Idle, Tracked
<1>3. r \notin inQueue /\ r \notin inBatch /\ state[r] = "none"
  BY DEF Admit, Tracked
<1>4. ClaimLeft'
  BY DEF StoreInv, ClaimLeft, Admit
<1>5. Made' /\ NeverLost'
  BY <1>3 DEF StoreInv, TypeOK, Made, NeverLost, Admit
<1> QED
  BY <1>1, <1>2, <1>4, <1>5 DEF StoreInv

LEMMA StoreFoldIn ==
    ASSUME StoreInv, NEW g \in Goal, NEW r \in Request, FoldIn(g, r)
    PROVE  StoreInv'
  BY DEF StoreInv, TypeOK, OpInv, ClaimLeft, Made, NeverLost, FoldIn, Tell, Idle, clockVars

LEMMA StoreEnter ==
    ASSUME StoreInv, NEW r \in Request, Enter(r)
    PROVE  StoreInv'
<1>1. TypeOK'
  BY DEF StoreInv, TypeOK, OpInv, Enter, Ledger, Tell, Idle, States, Kinds, Terminal, clockVars
<1>2. OpInv'
  BY DEF StoreInv, OpInv, Enter, Idle
<1>3. ClaimLeft' /\ Made' /\ NeverLost'
  BY DEF StoreInv, TypeOK, OpInv, ClaimLeft, Made, NeverLost, Enter, Ledger, Terminal
<1> QED
  BY <1>1, <1>2, <1>3 DEF StoreInv

LEMMA StoreRecover ==
    ASSUME StoreInv, NEW r \in Request,
           Heal(r) \/ Expire(r) \/ CopyBack(r) \/ Requeue(r)
    PROVE  StoreInv'
<1>1. TypeOK'
  <2>1. CASE Heal(r)
    BY <2>1 DEF StoreInv, TypeOK, OpInv, Recovering, Heal, Ledger, Done, States, clockVars
  <2>2. CASE Expire(r)
    BY <2>2 DEF StoreInv, TypeOK, Expire, Ledger, Done, States, Terminal, clockVars
  <2>3. CASE CopyBack(r)
    BY <2>3 DEF StoreInv, TypeOK, CopyBack, Done, clockVars
  <2>4. CASE Requeue(r)
    BY <2>4 DEF StoreInv, TypeOK, Requeue, Ledger, Done, States, clockVars
  <2> QED
    BY <2>1, <2>2, <2>3, <2>4
<1>2. OpInv'
  <2>1. op.kind = "recover" /\ op'.kind = op.kind /\ op'.to = op.to
        /\ op'.todo \subseteq op.todo /\ op'.rest = op.rest
    BY DEF StoreInv, TypeOK, Recovering, Heal, Expire, CopyBack, Requeue, Done
  <2>2. maker' = maker /\ lapsed' = lapsed
    BY DEF Heal, Expire, CopyBack, Requeue, clockVars
  <2>3. \A x \in op.todo : state'[x] = "claimed" => state[x] = "claimed"
    BY DEF StoreInv, TypeOK, Heal, Expire, CopyBack, Requeue, Ledger
  <2> QED
    BY <2>1, <2>2, <2>3 DEF StoreInv, OpInv
<1>3. maker[r] # Nobody /\ maker' = maker
  BY DEF StoreInv, OpInv, Recovering, Heal, Expire, CopyBack, Requeue
<1>4. Made'
  BY <1>3 DEF StoreInv, TypeOK, Made, Heal, Expire, CopyBack, Requeue, Ledger
<1>5. ClaimLeft' /\ NeverLost'
  BY DEF StoreInv, TypeOK, ClaimLeft, NeverLost, Heal, Expire, CopyBack, Requeue, Ledger,
         Terminal
<1> QED
  BY <1>1, <1>2, <1>4, <1>5 DEF StoreInv

LEMMA StoreRename == ASSUME StoreInv, Rename PROVE StoreInv'
<1>1. PICK take \in Batch : op' = [op EXCEPT !.kind = "claim", !.todo = take, !.rest = Pending \ take]
  BY DEF Rename
<1>2. take \subseteq Pending /\ Pending \subseteq inQueue
  BY <1>1 DEF Batch, Pending
<1>3. TypeOK'
  BY <1>1, <1>2 DEF StoreInv, TypeOK, Rename, Kinds, clockVars
<1>4. op'.kind = "claim" /\ op'.todo = take /\ op'.rest = Pending \ take
  BY <1>1 DEF StoreInv, TypeOK
<1>5. OpInv'
  BY <1>2, <1>4 DEF StoreInv, TypeOK, Made, OpInv, Rename, Pending
<1>6. ClaimLeft' /\ Made' /\ NeverLost'
  BY DEF StoreInv, ClaimLeft, Made, NeverLost, Rename
<1> QED
  BY <1>3, <1>5, <1>6 DEF StoreInv

LEMMA StoreClaim ==
    ASSUME StoreInv, NEW r \in Request, Claim(r)
    PROVE  StoreInv'
<1>1. r \in op.todo /\ state[r] = "queued" /\ r \in inBatch
      /\ claims[r] < MaxClaims /\ maker[r] # Nobody
  BY DEF StoreInv, OpInv, ClaimLeft, Claim, Oldest
<1>2. TypeOK'
  BY <1>1 DEF StoreInv, TypeOK, Claim, Ledger, Done, States, Kinds, Terminal
<1>3. OpInv'
  BY <1>1 DEF StoreInv, TypeOK, OpInv, Claim, Ledger, Done
<1>4. state' = [state EXCEPT ![r] = "claimed"] /\ claims' = [claims EXCEPT ![r] = @ + 1]
  BY DEF Claim, Ledger
<1>5. ClaimLeft'
  BY <1>4 DEF StoreInv, TypeOK, ClaimLeft
<1>6. Made' /\ NeverLost'
  BY <1>1, <1>4 DEF StoreInv, TypeOK, Made, NeverLost, Claim, Terminal
<1> QED
  BY <1>2, <1>3, <1>5, <1>6 DEF StoreInv

LEMMA StorePutBack ==
    ASSUME StoreInv, NEW r \in Request, PutBack(r)
    PROVE  StoreInv'
<1>1. r \in op.rest /\ op'.kind = op.kind /\ op'.todo = op.todo /\ op'.rest = op.rest \ {r}
  BY DEF StoreInv, TypeOK, PutBack, Oldest
<1>2. TypeOK'
  BY DEF StoreInv, TypeOK, PutBack, clockVars
<1>3. OpInv'
  BY <1>1 DEF StoreInv, OpInv, PutBack
<1>4. ClaimLeft' /\ Made' /\ NeverLost'
  BY <1>1 DEF StoreInv, OpInv, ClaimLeft, Made, NeverLost, PutBack
<1> QED
  BY <1>2, <1>3, <1>4 DEF StoreInv

LEMMA StoreNote ==
    ASSUME StoreInv, NEW r \in Request, Note(r)
    PROVE  StoreInv'
<1>1. r \in op.todo /\ op.to \in Answers /\ CanBecome(state[r], op.to)
  BY DEF StoreInv, OpInv, Note
<1>2. TypeOK'
  BY <1>1 DEF StoreInv, TypeOK, Note, Ledger, Idle, States, Kinds, Terminal, clockVars
<1>3. OpInv'
  BY <1>1 DEF StoreInv, TypeOK, OpInv, Note, Ledger, Idle
<1>4. ClaimLeft' /\ Made' /\ NeverLost'
  BY <1>1 DEF StoreInv, TypeOK, ClaimLeft, Made, NeverLost, Note, Ledger, CanBecome, Terminal
<1> QED
  BY <1>2, <1>3, <1>4 DEF StoreInv

(* Steps that write nothing to disk.                                       *)
LEMMA StoreQuiet ==
    ASSUME StoreInv,
           \/ \E drain \in BOOLEAN : StartRecovery(drain)
           \/ EndRecovery \/ HandOver \/ Abort
           \/ \E ids \in (SUBSET Request) \ {{}}, to \in Answers : Acknowledge(ids, to)
           \/ \E r \in Request : Age(r) \/ LeaseLapses(r)
           \/ UNCHANGED vars
    PROVE  StoreInv'
<1>1. ASSUME NEW drain \in BOOLEAN, StartRecovery(drain) PROVE StoreInv'
  <2>1. TypeOK'
    BY <1>1 DEF StoreInv, TypeOK, StartRecovery, Idle, Kinds, States, Tracked, diskVars,
       clockVars
  <2>2. OpInv'
    BY <1>1 DEF StoreInv, TypeOK, OpInv, Made, StartRecovery, NeedsRecovery, Idle, Tracked,
       diskVars, clockVars
  <2>3. ClaimLeft' /\ Made' /\ NeverLost'
    BY <1>1 DEF StoreInv, ClaimLeft, Made, NeverLost, StartRecovery, diskVars
  <2> QED
    BY <2>1, <2>2, <2>3 DEF StoreInv
<1>2. CASE EndRecovery \/ HandOver \/ Abort
  <2>1. op' = Idle /\ UNCHANGED <<diskVars, clockVars, told>> /\ faults' \in 0..MaxFaults
    BY <1>2 DEF StoreInv, TypeOK, EndRecovery, HandOver, Abort
  <2>2. TypeOK'
    BY <2>1 DEF StoreInv, TypeOK, Idle, Kinds, States, diskVars, clockVars
  <2>3. OpInv'
    BY <2>1 DEF OpInv, Idle
  <2>4. ClaimLeft' /\ Made' /\ NeverLost'
    BY <2>1 DEF StoreInv, ClaimLeft, Made, NeverLost, diskVars
  <2> QED
    BY <2>2, <2>3, <2>4 DEF StoreInv
<1>3. ASSUME NEW ids \in SUBSET Request, NEW to \in Answers, Acknowledge(ids, to)
      PROVE  StoreInv'
  BY <1>3 DEF StoreInv, TypeOK, OpInv, ClaimLeft, Made, NeverLost, Acknowledge, CanBecome,
     Idle, Kinds, States, Terminal, diskVars, clockVars
<1>4. ASSUME NEW r \in Request, Age(r) \/ LeaseLapses(r) PROVE StoreInv'
  BY <1>4 DEF StoreInv, TypeOK, OpInv, ClaimLeft, Made, NeverLost, Age, LeaseLapses, CanBecome,
     diskVars
<1>5. CASE UNCHANGED vars
  BY <1>5 DEF StoreInv, TypeOK, OpInv, ClaimLeft, Made, NeverLost, CanBecome, vars
<1> QED
  BY <1>1, <1>2, <1>3, <1>4, <1>5

LEMMA StoreStep == StoreInv /\ [Next]_vars => StoreInv'
<1> SUFFICES ASSUME StoreInv, [Next]_vars PROVE StoreInv'
  OBVIOUS
<1> QED
  BY StoreAdmit, StoreFoldIn, StoreEnter, StoreRecover, StoreRename, StoreClaim,
     StorePutBack, StoreNote, StoreQuiet DEF Next, Work

(* The store is well typed; in particular no request is claimed more often *)
(* than max_claim_attempts (recover_locked, store.rs:1135).                *)
THEOREM TypeCorrect == Spec => []TypeOK
<1>1. StoreInv => TypeOK
  BY DEF StoreInv
<1> QED
  BY <1>1, StoreInit, StoreStep, PTL DEF Spec

(* A request is never lost (store.rs:20), wherever drains, recoveries and  *)
(* acknowledgements are cut short.                                         *)
THEOREM NothingLost == Spec => []NeverLost
<1>1. StoreInv => NeverLost
  BY DEF StoreInv
<1> QED
  BY <1>1, StoreInit, StoreStep, PTL DEF Spec

(* A claim is left alone until its lease runs out or its consumer answers  *)
(* (recover_locked, store.rs:1126).                                        *)
THEOREM LeasesHold == Spec => LeaseRespected
<1> DEFINE Taken == \A r \in Request :
             (state[r] = "claimed" /\ r \notin lapsed /\ state'[r] # "claimed")
                => op.kind = "ack"
<1>1. StoreInv /\ [Next]_vars => Taken
  <2> SUFFICES ASSUME StoreInv, [Next]_vars, NEW r \in Request, state[r] = "claimed",
                      r \notin lapsed, state'[r] # "claimed"
               PROVE  op.kind = "ack"
    OBVIOUS
  <2>1. state' # state
    OBVIOUS
  <2>2. PICK a \in Request : Enter(a) \/ Heal(a) \/ Expire(a) \/ Requeue(a) \/ Claim(a) \/ Note(a)
    BY <2>1 DEF Next, Work, FoldIn, Admit, StartRecovery, Acknowledge, CopyBack, PutBack,
       EndRecovery, Rename, HandOver, Abort, Age, LeaseLapses, diskVars, vars
  <2>3. \E to : Ledger(a, to)
    BY <2>1, <2>2 DEF Enter, Heal, Expire, Requeue, Claim, Note
  <2>4. a = r
    BY <2>3 DEF StoreInv, TypeOK, Ledger
  <2> QED
    BY <2>2, <2>4 DEF StoreInv, OpInv, Recovering, Enter, Heal, Expire, Requeue, Claim,
       Oldest, Note
<1> QED
  BY <1>1, StoreInit, StoreStep, PTL DEF Spec, LeaseRespected

-----------------------------------------------------------------------------
(* What counts as open to the operation in progress, and does not while    *)
(* the store is idle: a request past its TTL whose claim this recovery has *)
(* given back, and the same one on its way to the next claim.              *)
Active(r) ==
    /\ r \in Tracked /\ state[r] \notin Terminal
    /\ \/ Live(r)
       \/ op.kind = "recover" /\ state[r] = "queued" /\ r \notin op.todo
       \/ op.kind = "claim" /\ r \in op.todo

OneActiveTwin ==
    \A r, o \in Request : (r # o /\ Twin[r] = Twin[o]) => ~(Active(r) /\ Active(o))

(* Only admission makes a request active.                                  *)
LEMMA ActiveAdmit ==
    ASSUME StoreInv, NEW g \in Goal, NEW a \in Request, Admit(g, a), NEW r \in Request,
           Active(r)'
    PROVE  /\ r # a => Active(r)
           /\ Active(r) => Live(r)
  BY DEF StoreInv, TypeOK, Admit, Active, Live, Waiting, Tracked, Idle, clockVars

LEMMA ActiveEnter ==
    ASSUME StoreInv, NEW a \in Request, Enter(a), NEW r \in Request, Active(r)'
    PROVE  Active(r)
  BY DEF StoreInv, TypeOK, OpInv, Enter, Ledger, Active, Live, Waiting, Tracked, Idle,
     Terminal, clockVars

LEMMA ActiveRecover ==
    ASSUME StoreInv, NEW a \in Request,
           Heal(a) \/ Expire(a) \/ CopyBack(a) \/ Requeue(a),
           NEW r \in Request, Active(r)'
    PROVE  Active(r)
<1>1. CASE Heal(a)
  <2>1. maker[a] # Nobody
    BY <1>1 DEF StoreInv, OpInv, Heal, Recovering
  <2>2. a \in Tracked /\ state[a] = "none" /\ a \in op.todo /\ op.kind = "recover"
    BY <1>1, <2>1 DEF StoreInv, NeverLost, Heal, Recovering, Tracked, Terminal
  <2>3. op'.kind = "recover" /\ op.todo \ {a} \subseteq op'.todo
        /\ (a \in overdue => a \in op'.todo)
    BY <1>1, <2>2 DEF StoreInv, TypeOK, Heal, Done
  <2> QED
    BY <1>1, <2>2, <2>3 DEF StoreInv, TypeOK, Heal, Ledger, Active, Live, Waiting, Tracked,
       Terminal, clockVars
<1>2. CASE Expire(a)
  BY <1>2 DEF StoreInv, TypeOK, Recovering, Expire, Ledger, Done, Active, Live, Waiting,
     Tracked, Terminal, clockVars
<1>3. CASE CopyBack(a)
  BY <1>3 DEF StoreInv, TypeOK, Recovering, CopyBack, Done, Active, Live, Waiting,
     Tracked, Terminal, clockVars
<1>4. CASE Requeue(a)
  BY <1>4 DEF StoreInv, TypeOK, Recovering, Requeue, Ledger, Done, Active, Live, Waiting,
     Tracked, Terminal, clockVars
<1> QED
  BY <1>1, <1>2, <1>3, <1>4

LEMMA ActiveDrain ==
    ASSUME StoreInv, Rename \/ \E a \in Request : Claim(a) \/ PutBack(a),
           NEW r \in Request, Active(r)'
    PROVE  Active(r)
<1>1. ASSUME Rename PROVE Active(r)
  <2>1. op'.kind = "claim" /\ op'.todo \subseteq Pending
    BY <1>1 DEF StoreInv, TypeOK, Rename, Batch
  <2>2. op.kind = "recover" /\ op.todo = {}
    BY <1>1 DEF Rename, Recovered
  <2> QED
    BY <1>1, <2>1, <2>2 DEF Rename, Pending, Active, Live, Waiting, Tracked, clockVars
<1>2. ASSUME NEW a \in Request, Claim(a) PROVE Active(r)
  BY <1>2 DEF StoreInv, TypeOK, OpInv, Claim, Ledger, Done, Oldest, Active, Live, Waiting,
     Tracked, Terminal
<1>3. ASSUME NEW a \in Request, PutBack(a) PROVE Active(r)
  BY <1>3 DEF StoreInv, TypeOK, OpInv, PutBack, Oldest, Active, Live, Waiting, Tracked,
     clockVars
<1> QED
  BY <1>1, <1>2, <1>3

LEMMA ActiveNote ==
    ASSUME StoreInv, NEW a \in Request, Note(a), NEW r \in Request, Active(r)'
    PROVE  Active(r)
<1>1. a \in op.todo /\ op.kind = "ack" /\ CanBecome(state[a], op.to) /\ op.to \in Answers
  BY DEF StoreInv, OpInv, Note
<1>2. op'.kind \notin {"recover", "claim"}
  BY <1>1 DEF StoreInv, TypeOK, Note, Idle
<1>3. state' = [state EXCEPT ![a] = op.to]
  BY DEF Note, Ledger
<1>4. r \in Tracked' /\ state'[r] \notin Terminal /\ Live(r)'
  BY <1>2 DEF Active
<1>5. CASE r = a
  <2>1. state[a] = "claimed" /\ op.to = "drafted"
    BY <1>1, <1>3, <1>4, <1>5 DEF StoreInv, TypeOK, CanBecome, Terminal
  <2> QED
    BY <1>5, <2>1 DEF Active, Live, Waiting, Tracked, Terminal
<1>6. CASE r # a
  BY <1>3, <1>4, <1>6 DEF StoreInv, TypeOK, Note, Active, Live, Waiting, Tracked, clockVars
<1> QED
  BY <1>5, <1>6

LEMMA ActiveQuiet ==
    ASSUME StoreInv,
           \/ \E drain \in BOOLEAN : StartRecovery(drain)
           \/ \E g \in Goal, a \in Request : FoldIn(g, a)
           \/ EndRecovery \/ HandOver \/ Abort
           \/ \E ids \in (SUBSET Request) \ {{}}, to \in Answers : Acknowledge(ids, to)
           \/ \E a \in Request : Age(a) \/ LeaseLapses(a)
           \/ UNCHANGED vars,
           NEW r \in Request, Active(r)'
    PROVE  Active(r)
<1>1. ASSUME NEW drain \in BOOLEAN, StartRecovery(drain) PROVE Active(r)
  BY <1>1 DEF StartRecovery, NeedsRecovery, Active, Live, Waiting, Tracked, Idle,
     diskVars, clockVars
<1>2. CASE \E g \in Goal, a \in Request : FoldIn(g, a)
  BY <1>2 DEF FoldIn, Active, Live, Waiting, Tracked, clockVars
<1>3. CASE EndRecovery \/ HandOver \/ Abort
  BY <1>3 DEF EndRecovery, HandOver, Abort, Active, Live, Waiting, Tracked, Idle,
     diskVars, clockVars
<1>4. ASSUME NEW ids \in SUBSET Request, NEW to \in Answers, Acknowledge(ids, to)
      PROVE  Active(r)
  BY <1>4 DEF Acknowledge, Active, Live, Waiting, Tracked, Idle, diskVars, clockVars
<1>5. ASSUME NEW a \in Request, Age(a) \/ LeaseLapses(a) PROVE Active(r)
  BY <1>5 DEF Age, LeaseLapses, Active, Live, Waiting, Tracked, diskVars
<1>6. CASE UNCHANGED vars
  BY <1>6 DEF vars, Active, Live, Waiting, Tracked
<1> QED
  BY <1>1, <1>2, <1>3, <1>4, <1>5, <1>6

LEMMA ActiveStep ==
    ASSUME StoreInv, [Next]_vars, NEW r \in Request, Active(r)',
           \A g \in Goal, a \in Request : ~Admit(g, a)
    PROVE  Active(r)
  BY ActiveEnter, ActiveRecover, ActiveDrain, ActiveNote, ActiveQuiet DEF Next, Work

LEMMA TwinStep == StoreInv /\ OneActiveTwin /\ [Next]_vars => OneActiveTwin'
<1> SUFFICES ASSUME StoreInv, OneActiveTwin, [Next]_vars,
                    NEW r \in Request, NEW o \in Request, r # o, Twin[r] = Twin[o],
                    Active(r)', Active(o)'
             PROVE  FALSE
  BY DEF OneActiveTwin
<1>1. ASSUME NEW g \in Goal, NEW a \in Request, Admit(g, a) PROVE FALSE
  <2>1. \A x \in Request : Twin[x] = Twin[a] => ~Live(x)
    BY <1>1 DEF Admit
  <2> QED
    BY <1>1, <2>1, ActiveAdmit DEF OneActiveTwin
<1>2. CASE \A g \in Goal, a \in Request : ~Admit(g, a)
  BY <1>2, ActiveStep DEF OneActiveTwin
<1> QED
  BY <1>1, <1>2

(* The same task is open at most once (enqueue, store.rs:674), whatever    *)
(* stops half way and however long requests and claims lie about.          *)
THEOREM TwinsExclude == Spec => []OneOpenTwin
<1>1. Init => OneActiveTwin
  BY DEF Init, OneActiveTwin, Active, Tracked
<1>2. OneActiveTwin => OneOpenTwin
  BY DEF OneActiveTwin, OneOpenTwin, Active, Live
<1> QED
  BY <1>1, <1>2, StoreInit, StoreStep, TwinStep, PTL DEF Spec

-----------------------------------------------------------------------------
Actives == {r \in Request : Active(r)}

(* The backlog that the cap bounds.                                        *)
BacklogWithinCap == Cardinality({r \in Request : Live(r)}) <= Outstanding

LEMMA BacklogStep ==
    StoreInv /\ Cardinality(Actives) <= Outstanding /\ [Next]_vars
       => (Cardinality(Actives) <= Outstanding)'
<1> SUFFICES ASSUME StoreInv, Cardinality(Actives) <= Outstanding, [Next]_vars
             PROVE  Cardinality(Actives') <= Outstanding
  OBVIOUS
<1>1. /\ IsFiniteSet(Actives) /\ IsFiniteSet(Actives')
      /\ Cardinality(Actives) \in Nat /\ Cardinality(Actives') \in Nat
  BY FS_Subset, FS_CardinalityType DEF Actives
<1>2. ASSUME NEW g \in Goal, NEW a \in Request, Admit(g, a)
      PROVE  Cardinality(Actives') <= Outstanding
  <2> DEFINE Lives == {r \in Tracked : Live(r)}
  <2>1. Lives \subseteq Request /\ Cardinality(Lives) < Outstanding
    BY <1>2 DEF StoreInv, TypeOK, Admit, Tracked
  <2>2. IsFiniteSet(Lives) /\ Cardinality(Lives) \in Nat
    BY <2>1, FS_Subset, FS_CardinalityType
  <2>3. Actives' \subseteq Lives \cup {a}
    BY <1>2, ActiveAdmit DEF Actives, Active
  <2> HIDE DEF Lives
  <2>4. /\ IsFiniteSet(Lives \cup {a})
        /\ Cardinality(Lives \cup {a})
             = IF a \in Lives THEN Cardinality(Lives) ELSE Cardinality(Lives) + 1
    BY <2>2, FS_AddElement
  <2>5. Cardinality(Actives') <= Cardinality(Lives \cup {a})
    BY <2>3, <2>4, FS_Subset
  <2>6. Cardinality(Lives \cup {a}) \in Nat
    BY <2>4, FS_CardinalityType
  <2> QED
    BY <1>1, <2>1, <2>2, <2>4, <2>5, <2>6
<1>3. CASE \A g \in Goal, a \in Request : ~Admit(g, a)
  <2>1. Actives' \subseteq Actives
    BY <1>3, ActiveStep DEF Actives
  <2>2. Cardinality(Actives') <= Cardinality(Actives)
    BY <1>1, <2>1, FS_Subset
  <2> QED
    BY <1>1, <2>2
<1> QED
  BY <1>2, <1>3

(* A project never has more requests open than caps.per_project_outstanding *)
(* (enqueue, store.rs:724): none that was given back, healed or copied     *)
(* comes on top of what was let in meanwhile.                              *)
THEOREM CapHolds == Spec => []BacklogWithinCap
<1>1. Init => Cardinality(Actives) <= Outstanding
  <2>1. Init => Actives = {}
    BY DEF Init, Actives, Active, Tracked
  <2> QED
    BY <2>1, FS_EmptySet
<1>2. StoreInv /\ Cardinality(Actives) <= Outstanding => BacklogWithinCap
  <2> SUFFICES ASSUME StoreInv, Cardinality(Actives) <= Outstanding
               PROVE  Cardinality({r \in Request : Live(r)}) <= Outstanding
    BY DEF BacklogWithinCap
  <2>1. {r \in Request : Live(r)} \subseteq Actives
    BY DEF Actives, Active, Live
  <2>2. IsFiniteSet(Actives)
    BY FS_Subset DEF Actives
  <2>3. /\ Cardinality({r \in Request : Live(r)}) <= Cardinality(Actives)
        /\ IsFiniteSet({r \in Request : Live(r)})
    BY <2>1, <2>2, FS_Subset
  <2> QED
    BY <2>2, <2>3, FS_CardinalityType
<1> QED
  BY <1>1, <1>2, StoreInit, StoreStep, BacklogStep, PTL DEF Spec
-----------------------------------------------------------------------------
(* The refinement.  Where a request is in its life, as a function of what  *)
(* the ledger says and whether anybody asked for it.                       *)
Lived == [r \in Request |-> LifeOf(r)]

LEMMA LifeValues ==
    ASSUME StoreInv, NEW r \in Request
    PROVE  /\ maker[r] = Nobody => LifeOf(r) = "none"
           /\ maker[r] # Nobody =>
                 /\ state[r] \in {"none", "queued"} => LifeOf(r) = "waiting"
                 /\ state[r] = "claimed" => LifeOf(r) = "held"
                 /\ state[r] \in {"drafted"} \cup Terminal => LifeOf(r) = state[r]
<1>1. CASE maker[r] = Nobody
  BY <1>1 DEF LifeOf, StoreInv, Made, Terminal
<1>2. CASE maker[r] # Nobody
  BY <1>2 DEF LifeOf, Terminal
<1> QED
  BY <1>1, <1>2

(* One request changes its life and no other does.                         *)
LEMMA LifeMoves ==
    ASSUME StoreInv, StoreInv', NEW a \in Request,
           \A r \in Request \ {a} : state'[r] = state[r] /\ maker'[r] = maker[r]
    PROVE  Lived' = [Lived EXCEPT ![a] = LifeOf(a)'] /\ Lived[a] = LifeOf(a)
<1>1. \A r \in Request \ {a} : LifeOf(r)' = LifeOf(r)
  BY DEF LifeOf
<1> QED
  BY <1>1 DEF Lived

LEMMA LifeStands ==
    ASSUME UNCHANGED <<state, maker>>
    PROVE  UNCHANGED Lived
  BY DEF Lived, LifeOf

(* Admission is the only way into the life.                                *)
LEMMA LifeBegins ==
    ASSUME StoreInv, StoreInv', NEW g \in Goal, NEW a \in Request, Admit(g, a)
    PROVE  Life!Submit(a)
<1>1. maker[a] = Nobody /\ state[a] = "none"
  BY DEF Admit, Tracked, StoreInv, NeverLost, Terminal
<1>2. maker' = [maker EXCEPT ![a] = g] /\ g # Nobody /\ UNCHANGED <<state, claims>>
  BY DEF Admit
<1>3. maker'[a] # Nobody /\ state'[a] = "none"
  BY <1>1, <1>2 DEF StoreInv, TypeOK
<1>4. LifeOf(a) = "none" /\ LifeOf(a)' = "waiting"
  BY <1>1, <1>3, LifeValues DEF LifeOf, Terminal
<1>5. Lived' = [Lived EXCEPT ![a] = "waiting"] /\ Lived[a] = "none"
  BY <1>2, <1>4, LifeMoves DEF StoreInv, TypeOK
<1> QED
  BY <1>2, <1>5 DEF Life!Submit, Life!Moves, Lived

(* What the operation that holds the lock does to a request's life: each   *)
(* ledger line is one step of it.                                          *)
Lines(a) ==
    \/ state[a] = "none" /\ state'[a] = "queued" /\ UNCHANGED claims
    \/ state[a] = "claimed" /\ state'[a] = "queued" /\ UNCHANGED claims
    \/ /\ state[a] = "queued" /\ state'[a] = "claimed" /\ claims[a] < MaxClaims
       /\ claims' = [claims EXCEPT ![a] = @ + 1]
    \/ state[a] = "claimed" /\ state'[a] = "drafted" /\ UNCHANGED claims
    \/ state[a] \in {"claimed", "drafted"} /\ state'[a] = "rejected" /\ UNCHANGED claims
    \/ state[a] = "drafted" /\ state'[a] = "applied" /\ UNCHANGED claims
    \/ state[a] \in {"queued", "claimed", "drafted"} /\ state'[a] = "expired" /\ UNCHANGED claims

LEMMA LineLives ==
    ASSUME StoreInv, StoreInv', NEW a \in Request, maker[a] # Nobody, UNCHANGED maker,
           \A r \in Request \ {a} : state'[r] = state[r], Lines(a)
    PROVE  Life!Next \/ UNCHANGED <<Lived, claims>>
<1>1. Lived' = [Lived EXCEPT ![a] = LifeOf(a)'] /\ Lived[a] = LifeOf(a)
  BY LifeMoves
<1>2. /\ state[a] \in {"none", "queued"} => LifeOf(a) = "waiting"
      /\ state[a] = "claimed" => LifeOf(a) = "held"
      /\ state[a] = "drafted" => LifeOf(a) = "drafted"
  BY LifeValues DEF StoreInv, Terminal
<1>3. /\ state'[a] = "queued" => LifeOf(a)' = "waiting"
      /\ state'[a] = "claimed" => LifeOf(a)' = "held"
      /\ state'[a] \in {"drafted", "applied", "rejected", "expired"} => LifeOf(a)' = state'[a]
  BY DEF LifeOf, Terminal
<1>4. CASE state[a] = "none" /\ state'[a] = "queued" /\ UNCHANGED claims
  <2>1. LifeOf(a)' = LifeOf(a)
    BY <1>2, <1>3, <1>4
  <2>2. UNCHANGED Lived
    BY <1>1, <2>1 DEF Lived
  <2> QED
    BY <1>4, <2>2
<1>5. CASE state[a] = "claimed" /\ state'[a] = "queued" /\ UNCHANGED claims
  <2>1. Life!TakeBack(a)
    BY <1>1, <1>2, <1>3, <1>5 DEF Life!TakeBack, Life!Moves, Lived
  <2> QED
    BY <2>1 DEF Life!Next
<1>6. CASE /\ state[a] = "queued" /\ state'[a] = "claimed" /\ claims[a] < MaxClaims
           /\ claims' = [claims EXCEPT ![a] = @ + 1]
  <2>1. Life!HandOut(a)
    BY <1>1, <1>2, <1>3, <1>6 DEF Life!HandOut, Life!Moves, Lived
  <2> QED
    BY <2>1 DEF Life!Next
<1>7. CASE state[a] = "claimed" /\ state'[a] = "drafted" /\ UNCHANGED claims
  <2>1. Life!Draft(a)
    BY <1>1, <1>2, <1>3, <1>7 DEF Life!Draft, Life!Moves, Lived
  <2> QED
    BY <2>1 DEF Life!Next
<1>8. CASE state[a] \in {"claimed", "drafted"} /\ state'[a] = "rejected" /\ UNCHANGED claims
  <2>1. Life!Reject(a)
    BY <1>1, <1>2, <1>3, <1>8 DEF Life!Reject, Life!Moves, Lived
  <2> QED
    BY <2>1 DEF Life!Next
<1>9. CASE state[a] = "drafted" /\ state'[a] = "applied" /\ UNCHANGED claims
  <2>1. Life!Apply(a)
    BY <1>1, <1>2, <1>3, <1>9 DEF Life!Apply, Life!Moves, Lived
  <2> QED
    BY <2>1 DEF Life!Next
<1>10. CASE /\ state[a] \in {"queued", "claimed", "drafted"} /\ state'[a] = "expired"
            /\ UNCHANGED claims
  <2>1. Life!Expire(a)
    BY <1>1, <1>2, <1>3, <1>10 DEF Life!Expire, Life!Moves, Lived
  <2> QED
    BY <2>1 DEF Life!Next
<1> QED
  BY <1>4, <1>5, <1>6, <1>7, <1>8, <1>9, <1>10 DEF Lines

LEMMA WorkLines ==
    ASSUME StoreInv, StoreInv', NEW a \in Request,
           Enter(a) \/ Heal(a) \/ Expire(a) \/ Requeue(a) \/ Claim(a) \/ Note(a)
    PROVE  \/ UNCHANGED <<state, maker, claims>>
           \/ /\ maker[a] # Nobody /\ UNCHANGED maker
              /\ \A r \in Request \ {a} : state'[r] = state[r]
              /\ Lines(a)
<1>1. a \in op.todo /\ maker[a] # Nobody /\ UNCHANGED maker
  BY DEF StoreInv, OpInv, Enter, Heal, Expire, Requeue, Recovering, Claim, Oldest, Note
<1>2. \A to : Ledger(a, to) => /\ state'[a] = to
                               /\ \A r \in Request \ {a} : state'[r] = state[r]
  BY DEF Ledger, StoreInv, TypeOK
<1>3. CASE Enter(a)
  BY <1>1, <1>2, <1>3 DEF Enter, Lines, StoreInv, OpInv
<1>4. CASE Heal(a)
  BY <1>1, <1>2, <1>4 DEF Heal, Lines
<1>5. CASE Expire(a)
  BY <1>1, <1>2, <1>5 DEF Expire, Lines
<1>6. CASE Requeue(a)
  BY <1>1, <1>2, <1>6 DEF Requeue, Lines
<1>7. CASE Claim(a)
  <2>1. state[a] = "queued" /\ claims[a] < MaxClaims
    BY <1>1, <1>7 DEF Claim, StoreInv, OpInv, ClaimLeft
  <2> QED
    BY <1>1, <1>2, <1>7, <2>1 DEF Claim, Lines
<1>8. CASE Note(a)
  <2>1. op.to \in Answers /\ CanBecome(state[a], op.to)
    BY <1>1, <1>8 DEF Note, StoreInv, OpInv
  <2> QED
    BY <1>1, <1>2, <1>8, <2>1 DEF Note, Lines, CanBecome, Terminal
<1> QED
  BY <1>3, <1>4, <1>5, <1>6, <1>7, <1>8

LEMMA LifeStep ==
    ASSUME StoreInv, [Next]_vars
    PROVE  Life!Next \/ UNCHANGED <<Lived, claims>>
<1>1. StoreInv'
  BY StoreStep
<1>2. ASSUME NEW g \in Goal, NEW a \in Request, Admit(g, a) PROVE Life!Next
  BY <1>1, <1>2, LifeBegins DEF Life!Next
<1>3. ASSUME NEW a \in Request,
             Enter(a) \/ Heal(a) \/ Expire(a) \/ Requeue(a) \/ Claim(a) \/ Note(a)
      PROVE  Life!Next \/ UNCHANGED <<Lived, claims>>
  BY <1>1, <1>3, WorkLines, LineLives, LifeStands
<1>4. CASE UNCHANGED <<state, maker, claims>>
  BY <1>4, LifeStands
<1>5. \/ \E g \in Goal, a \in Request : Admit(g, a)
      \/ \E a \in Request :
            Enter(a) \/ Heal(a) \/ Expire(a) \/ Requeue(a) \/ Claim(a) \/ Note(a)
      \/ UNCHANGED <<state, maker, claims>>
  BY DEF Next, Work, FoldIn, StartRecovery, Acknowledge, CopyBack, PutBack, EndRecovery,
         Rename, HandOver, Abort, Age, LeaseLapses, diskVars, vars
<1> QED
  BY <1>2, <1>3, <1>4, <1>5

(* The store implements the life of a request that the design describes    *)
(* (docs/design/task-intake-store.md): whatever drains, recoveries and     *)
(* acknowledgements are cut short, each ledger line is one step of it.     *)
THEOREM LivesAsDesigned == Spec => LivesItsLife
<1>1. Init => Life!Init
  BY DEF Init, Life!Init, LifeOf
<1>2. StoreInv /\ [Next]_vars => [Life!Next]_<<Lived, claims>>
  BY LifeStep
<1> QED
  BY <1>1, <1>2, StoreInit, StoreStep, PTL DEF Spec, LivesItsLife, Life!Spec, Lived
===============================================================================
