--------------------------- MODULE ActionQueueProofs ---------------------------
(***************************************************************************)
(* Theorems about ActionQueue for every set of drafts, actions and daemons *)
(* and every bound.                                                        *)
(***************************************************************************)
EXTENDS ActionQueue, FiniteSetTheorems, TLAPS

(* A worker past the look-up of a candidate has that candidate in hand.    *)
HandHeld == \A w \in Worker : pc[w] \in {"claim", "call", "record"} => hand[w] \in Key

TypeInv == Typed /\ HandHeld

(* The journal holds finitely many keys.                                   *)
LEMMA KeyFinite == IsFiniteSet(Key)
<1>1. IsFiniteSet(HasUndo)
  BY QueueAssumption, FS_Subset DEF QueueAssumption
<1>2. [a \in HasUndo |-> Undo(a)] \in Surjection(HasUndo, UndoKey)
  BY DEF Surjection, UndoKey
<1>3. IsFiniteSet(UndoKey)
  BY <1>1, <1>2, FS_Surjection
<1> QED
  BY <1>3, QueueAssumption, FS_Union DEF QueueAssumption, Key

(* The arrival stamp of an append is a number.                             *)
LEMMA KnownCount == Cardinality(Known) \in Nat
<1>1. Known \in SUBSET Key
  BY DEF Known
<1> QED
  BY <1>1, KeyFinite, FS_Subset, FS_CardinalityType

LEMMA UndoIsKey == \A a \in HasUndo : Undo(a) \in Key
  BY DEF UndoKey, Key

(* Leaving a candidate keeps the types of the worker's variables.          *)
WorkerTypes ==
    /\ pc \in [Worker -> Places]
    /\ todo \in [Worker -> SUBSET Key]
    /\ hand \in [Worker -> Key \cup {NoKey}]
    /\ try \in [Worker -> Nat]
    /\ outcome \in [Worker -> Outcomes]

QueueTypes ==
    /\ state \in [Key -> States]
    /\ note \in [Key -> Notes]
    /\ attempts \in [Key -> Nat]
    /\ arrival \in [Key -> Nat]
    /\ saga \in SUBSET Draft
    /\ ripe \in [Key -> BOOLEAN]

OtherTypes ==
    /\ faults \in 0..MaxFaults
    /\ delivered \in [Key -> Nat]
    /\ resends \in [Key -> 0..MaxResends]

LEMMA PutDownTypes ==
  ASSUME WorkerTypes, HandHeld, NEW w \in Worker, PutDown(w)
  PROVE  WorkerTypes' /\ HandHeld'
<1>1. WorkerTypes'
  BY DEF WorkerTypes, PutDown, Forget, Places, Outcomes
<1>2. ASSUME NEW v \in Worker, pc'[v] \in {"claim", "call", "record"}
      PROVE  hand'[v] \in Key
  <2>1. v # w /\ pc'[v] = pc[v] /\ hand'[v] = hand[v]
    BY <1>2 DEF WorkerTypes, PutDown, Forget
  <2> QED
    BY <1>2, <2>1 DEF HandHeld
<1> QED
  BY <1>1, <1>2 DEF HandHeld

LEMMA NeedsAttentionTypes ==
  ASSUME QueueTypes, NEW k \in Key, NEW why \in Notes, NeedsAttention(k, why),
         UNCHANGED <<attempts, arrival, saga>>
  PROVE  QueueTypes'
<1>1. state' \in [Key -> States] /\ ripe' \in [Key -> BOOLEAN]
  BY DEF NeedsAttention, QueueTypes, States
<1>2. note' \in [Key -> Notes]
  BY DEF NeedsAttention, QueueTypes
<1> QED
  BY <1>1, <1>2 DEF QueueTypes

LEMMA MarkSendingTypes ==
  ASSUME QueueTypes, NEW k \in Key, MarkSending(k), UNCHANGED <<note, arrival, saga>>
  PROVE  QueueTypes'
<1>1. state' \in [Key -> States] /\ ripe' \in [Key -> BOOLEAN]
  BY DEF MarkSending, QueueTypes, States
<1>2. attempts' \in [Key -> Nat]
  BY DEF MarkSending, QueueTypes
<1> QED
  BY <1>1, <1>2 DEF QueueTypes

LEMMA RecordTypes ==
  ASSUME QueueTypes, NEW k \in Key, NEW n \in Nat, NEW out \in Outcomes,
         RecordOutcome(k, n, out), UNCHANGED <<arrival, saga>>
  PROVE  QueueTypes'
<1>1. ASSUME NEW why \in Reasons, RecordAttention(k, why) PROVE QueueTypes'
  BY <1>1, NeedsAttentionTypes DEF RecordAttention, Notes
<1>2. CASE RecordDone(k)
  <2>1. state' \in [Key -> States]
    BY <1>2 DEF RecordDone, QueueTypes, States
  <2>2. note' \in [Key -> Notes]
    BY <1>2 DEF RecordDone, QueueTypes, Notes
  <2> QED
    BY <1>2, <2>1, <2>2 DEF RecordDone, QueueTypes
<1>3. CASE RecordRetry(k, n)
  <2>1. state' \in [Key -> States] /\ ripe' \in [Key -> BOOLEAN]
    BY <1>3 DEF RecordRetry, QueueTypes, States
  <2>2. attempts' \in [Key -> Nat]
    BY <1>3 DEF RecordRetry, QueueTypes
  <2> QED
    BY <1>3, <2>1, <2>2 DEF RecordRetry, QueueTypes
<1> QED
  BY <1>1, <1>2, <1>3 DEF RecordOutcome, Reasons

(* Every step keeps the types and keeps a candidate in hand.               *)
LEMMA TypeStep == TypeInv /\ [Next]_vars => TypeInv'
<1> SUFFICES ASSUME TypeInv, [Next]_vars
             PROVE  TypeInv'
  OBVIOUS
<1> USE QueueAssumption DEF QueueAssumption, TypeInv, Typed, HandHeld, States, Notes,
        Reasons, Outcomes, Places, queueVars, workerVars, historyVars
<1>1. ASSUME NEW d \in Draft, Enqueue(d) PROVE TypeInv'
  BY <1>1, KnownCount DEF Enqueue, AddEntries
<1>2. ASSUME NEW d \in Draft, EnqueueTorn(d) PROVE TypeInv'
  BY <1>2, KnownCount DEF EnqueueTorn, AddEntries, Fault
<1>3. ASSUME NEW w \in Worker, Start(w) \/ StartUnrecovered(w) PROVE TypeInv'
  BY <1>3 DEF Start, StartUnrecovered, Fault
<1>4. ASSUME NEW w \in Worker, BeginPass(w) \/ EndPass(w) PROVE TypeInv'
  BY <1>4 DEF BeginPass, EndPass
<1>5. ASSUME NEW w \in Worker, NEW k \in Key, Consider(w, k) PROVE TypeInv'
  BY <1>5 DEF Consider
<1>6. ASSUME NEW w \in Worker, ClaimSkips(w) \/ ClaimBlocked(w) PROVE TypeInv'
  <2>1. WorkerTypes' /\ HandHeld'
    BY <1>6, PutDownTypes DEF ClaimSkips, ClaimBlocked, WorkerTypes
  <2>2. QueueTypes'
    <3>1. QueueTypes /\ hand[w] \in Key /\ "blocked" \in Notes
      BY <1>6 DEF ClaimSkips, ClaimBlocked, QueueTypes
    <3>2. CASE ClaimSkips(w)
      BY <3>1, <3>2 DEF ClaimSkips, QueueTypes
    <3>3. CASE ClaimBlocked(w)
      BY <3>1, <3>3, NeedsAttentionTypes DEF ClaimBlocked
    <3> QED
      BY <1>6, <3>2, <3>3
  <2>3. OtherTypes'
    BY <1>6 DEF ClaimSkips, ClaimBlocked, OtherTypes
  <2> QED
    BY <2>1, <2>2, <2>3 DEF WorkerTypes, QueueTypes, OtherTypes
<1>7. ASSUME NEW w \in Worker, Claim(w) PROVE TypeInv'
  BY <1>7 DEF Claim, MarkSending
<1>8. ASSUME NEW w \in Worker, ClaimFails(w) PROVE TypeInv'
  <2>1. WorkerTypes' /\ HandHeld'
    BY <1>8, PutDownTypes DEF ClaimFails, WorkerTypes
  <2>2. QueueTypes'
    <3>1. QueueTypes /\ hand[w] \in Key
      BY <1>8 DEF ClaimFails, QueueTypes
    <3>2. CASE MarkSending(hand[w])
      BY <1>8, <3>1, <3>2, MarkSendingTypes DEF ClaimFails
    <3>3. CASE UNCHANGED <<state, attempts, ripe>>
      BY <1>8, <3>1, <3>3 DEF ClaimFails, QueueTypes
    <3> QED
      BY <1>8, <3>2, <3>3 DEF ClaimFails
  <2>3. OtherTypes'
    BY <1>8 DEF ClaimFails, Fault, OtherTypes
  <2> QED
    BY <2>1, <2>2, <2>3 DEF WorkerTypes, QueueTypes, OtherTypes
<1>9. ASSUME NEW w \in Worker, NEW out \in Outcomes, NEW arrived \in BOOLEAN,
             Execute(w, out, arrived)
      PROVE TypeInv'
  BY <1>9 DEF Execute
<1>10. ASSUME NEW w \in Worker, Record(w) PROVE TypeInv'
  <2>1. WorkerTypes' /\ HandHeld'
    BY <1>10, PutDownTypes DEF Record, WorkerTypes
  <2>2. QueueTypes'
    <3>1. /\ QueueTypes /\ hand[w] \in Key /\ try[w] \in Nat /\ outcome[w] \in Outcomes
          /\ RecordOutcome(hand[w], try[w], outcome[w]) /\ UNCHANGED <<arrival, saga>>
      BY <1>10 DEF Record, QueueTypes
    <3> QED
      BY <3>1, RecordTypes
  <2>3. OtherTypes'
    BY <1>10 DEF Record, OtherTypes
  <2> QED
    BY <2>1, <2>2, <2>3 DEF WorkerTypes, QueueTypes, OtherTypes
<1>11. ASSUME NEW w \in Worker, RecordFails(w) \/ Crash(w) PROVE TypeInv'
  BY <1>11 DEF RecordFails, Crash, PutDown, Forget, Fault
<1>12. ASSUME NEW k \in Key, BackoffElapses(k) PROVE TypeInv'
  BY <1>12 DEF BackoffElapses
<1>13. ASSUME NEW k \in Key, Resolve(k) PROVE TypeInv'
  BY <1>13 DEF Resolve, Close, Requeue
<1>14. ASSUME NEW a \in HasUndo, RequestUndo(a) PROVE TypeInv'
  BY <1>14, KnownCount, UndoIsKey DEF RequestUndo, AddEntries
<1>15. CASE UNCHANGED vars
  BY <1>15 DEF vars
<1> QED
  BY <1>1, <1>2, <1>3, <1>4, <1>5, <1>6, <1>7, <1>8, <1>9, <1>10, <1>11, <1>12,
     <1>13, <1>14, <1>15 DEF Next, WorkerStep

LEMMA TypeInit == Init => TypeInv
  BY QueueAssumption DEF QueueAssumption, Init, TypeInv, Typed, HandHeld, States, Notes,
     Reasons, Outcomes, Places

-----------------------------------------------------------------------------
(* AT MOST ONCE.  A send is licensed once by the apply and once by every   *)
(* --resend.  A licence is unspent while the entry waits, carried while a  *)
(* worker may still deliver with it (or knows it delivered nothing and is  *)
(* about to put the entry back), and spent once the destination has it.    *)
Carrying(w) == pc[w] = "call" \/ (pc[w] = "record" /\ outcome[w] = "retryable")
Carriers(k) == {w \in Worker : hand[w] = k /\ Carrying(w)}
Unspent(k) == IF state[k] \in {"absent", "queued", "retrying"} THEN 1 ELSE 0
Covered(k) == delivered[k] + Cardinality(Carriers(k)) + Unspent(k) <= 1 + resends[k]
LicenceInv == TypeInv /\ \A k \in Key : Covered(k)

LEMMA WorkersCount ==
  \A S \in SUBSET Worker : IsFiniteSet(S) /\ Cardinality(S) \in Nat
  BY QueueAssumption, FS_Subset, FS_CardinalityType DEF QueueAssumption

LEMMA CarriersCount ==
  ASSUME NEW k \in Key
  PROVE  /\ IsFiniteSet(Carriers(k)) /\ Cardinality(Carriers(k)) \in Nat
         /\ IsFiniteSet(Carriers(k)') /\ Cardinality(Carriers(k)') \in Nat
<1>1. Carriers(k) \in SUBSET Worker /\ Carriers(k)' \in SUBSET Worker
  BY DEF Carriers
<1> QED
  BY <1>1, WorkersCount

(* A step that takes no licence and adds no carrier keeps k covered.       *)
LEMMA QuietStep ==
  ASSUME TypeInv, TypeInv', NEW k \in Key, Covered(k),
         Carriers(k)' \in SUBSET Carriers(k),
         delivered'[k] = delivered[k], resends'[k] = resends[k],
         Unspent(k)' <= Unspent(k)
  PROVE  Covered(k)'
<1>1. Cardinality(Carriers(k)') <= Cardinality(Carriers(k))
  BY CarriersCount, FS_Subset
<1>2. /\ Cardinality(Carriers(k)) \in Nat /\ Cardinality(Carriers(k)') \in Nat
      /\ delivered[k] \in Nat /\ resends[k] \in Nat
  BY CarriersCount DEF TypeInv, Typed
<1>3. Unspent(k) \in {0, 1} /\ Unspent(k)' \in {0, 1}
  BY DEF Unspent
<1> QED
  BY <1>1, <1>2, <1>3 DEF Covered

(* Putting a candidate down, or dying with it, never adds a carrier.       *)
LEMMA ForgetCarriers ==
  ASSUME TypeInv, NEW w \in Worker, NEW k \in Key, Forget(w),
         pc' = [pc EXCEPT ![w] = "pass"] \/ pc' = [pc EXCEPT ![w] = "down"]
  PROVE  Carriers(k)' \in SUBSET Carriers(k) /\ w \notin Carriers(k)'
  BY DEF Carriers, Carrying, Forget, TypeInv, Typed

LEMMA LicenceClaim ==
  ASSUME TypeInv, TypeInv', NEW k \in Key, Covered(k), NEW w \in Worker, Claim(w)
  PROVE  Covered(k)'
<1>1. CASE hand[w] # k
  <2>1. Carriers(k)' \in SUBSET Carriers(k)
    BY <1>1 DEF Claim, Carriers, Carrying, TypeInv, Typed
  <2>2. state'[k] = state[k]
    BY <1>1 DEF Claim, MarkSending, TypeInv, Typed
  <2>3. Unspent(k)' = Unspent(k) /\ Unspent(k) \in {0, 1}
    BY <2>2 DEF Unspent
  <2>4. delivered'[k] = delivered[k] /\ resends'[k] = resends[k]
    BY DEF Claim, historyVars
  <2> QED
    BY <2>1, <2>3, <2>4, QuietStep
<1>2. CASE hand[w] = k
  <2>1. Carriers(k)' = Carriers(k) \cup {w} /\ w \notin Carriers(k)
    BY <1>2 DEF Claim, Carriers, Carrying, TypeInv, Typed
  <2>2. Cardinality(Carriers(k)') = Cardinality(Carriers(k)) + 1
    BY <2>1, CarriersCount, FS_AddElement
  <2>3. Unspent(k) = 1 /\ Unspent(k)' = 0
    BY <1>2 DEF Claim, Due, MarkSending, Unspent, TypeInv, Typed
  <2>4. delivered'[k] = delivered[k] /\ resends'[k] = resends[k]
    BY DEF Claim, historyVars
  <2> QED
    BY <2>1, <2>2, <2>3, <2>4, CarriersCount DEF Covered, TypeInv, Typed
<1> QED
  BY <1>1, <1>2

LEMMA LicenceExecute ==
  ASSUME TypeInv, TypeInv', NEW k \in Key, Covered(k), NEW w \in Worker,
         NEW out \in Outcomes, NEW arrived \in BOOLEAN, Execute(w, out, arrived)
  PROVE  Covered(k)'
<1>1. Carriers(k)' \in SUBSET Carriers(k)
  BY DEF Execute, Carriers, Carrying, TypeInv, Typed
<1>2. /\ Unspent(k)' = Unspent(k) /\ Unspent(k) \in {0, 1} /\ resends'[k] = resends[k]
  BY DEF Execute, Unspent, queueVars
<1>3. CASE hand[w] # k \/ ~arrived
  <2>1. delivered'[k] = delivered[k]
    BY <1>3 DEF Execute, TypeInv, Typed
  <2> QED
    BY <1>1, <1>2, <2>1, QuietStep
<1>4. CASE hand[w] = k /\ arrived
  <2>1. w \in Carriers(k) /\ Carriers(k)' \in SUBSET (Carriers(k) \ {w})
    BY <1>4 DEF Execute, Carriers, Carrying, TypeInv, Typed
  <2>2. Cardinality(Carriers(k) \ {w}) = Cardinality(Carriers(k)) - 1
    BY <2>1, CarriersCount, FS_RemoveElement
  <2>3. Cardinality(Carriers(k)') <= Cardinality(Carriers(k)) - 1
    BY <2>1, <2>2, CarriersCount, FS_RemoveElement, FS_Subset
  <2>4. delivered'[k] = delivered[k] + 1
    BY <1>4 DEF Execute, TypeInv, Typed
  <2> QED
    BY <1>2, <2>3, <2>4, CarriersCount DEF Covered, TypeInv, Typed
<1> QED
  BY <1>3, <1>4

LEMMA LicenceRecord ==
  ASSUME TypeInv, TypeInv', NEW k \in Key, Covered(k), NEW w \in Worker, Record(w)
  PROVE  Covered(k)'
<1>1. Carriers(k)' \in SUBSET Carriers(k) /\ w \notin Carriers(k)'
  BY ForgetCarriers DEF Record, PutDown
<1>2. delivered'[k] = delivered[k] /\ resends'[k] = resends[k]
  BY DEF Record, historyVars
<1>3. CASE hand[w] # k
  <2>1. Unspent(k)' = Unspent(k) /\ Unspent(k) \in {0, 1}
    BY <1>3 DEF Record, RecordOutcome, RecordDone, RecordRetry, RecordAttention,
                NeedsAttention, Unspent, TypeInv, Typed
  <2> QED
    BY <1>1, <1>2, <2>1, QuietStep
<1>4. CASE hand[w] = k /\ outcome[w] = "retryable"
  <2>1. w \in Carriers(k) /\ Carriers(k)' \in SUBSET (Carriers(k) \ {w})
    BY <1>1, <1>4 DEF Record, Carriers, Carrying, TypeInv, Typed
  <2>2. Cardinality(Carriers(k) \ {w}) = Cardinality(Carriers(k)) - 1
    BY <2>1, CarriersCount, FS_RemoveElement
  <2>3. Cardinality(Carriers(k)') <= Cardinality(Carriers(k)) - 1
    BY <2>1, <2>2, CarriersCount, FS_RemoveElement, FS_Subset
  <2>4. Unspent(k)' <= Unspent(k) + 1 /\ Unspent(k)' \in {0, 1} /\ Unspent(k) \in {0, 1}
    BY DEF Unspent
  <2> QED
    BY <1>2, <2>3, <2>4, CarriersCount DEF Covered, TypeInv, Typed
<1>5. CASE hand[w] = k /\ outcome[w] # "retryable"
  <2>1. state'[k] \in {"done", "attention"}
    BY <1>5 DEF Record, RecordOutcome, RecordDone, RecordAttention, NeedsAttention,
                TypeInv, Typed
  <2>2. Unspent(k)' = 0 /\ Unspent(k) \in {0, 1}
    BY <2>1 DEF Unspent
  <2> QED
    BY <1>1, <1>2, <2>2, QuietStep
<1> QED
  BY <1>3, <1>4, <1>5

LEMMA LicenceResolve ==
  ASSUME TypeInv, TypeInv', NEW k \in Key, Covered(k), NEW j \in Key, Resolve(j)
  PROVE  Covered(k)'
<1>1. Carriers(k)' = Carriers(k) /\ delivered'[k] = delivered[k]
  BY DEF Resolve, workerVars, Carriers, Carrying
<1>2. CASE j # k
  <2>1. state'[k] = state[k] /\ resends'[k] = resends[k]
    BY <1>2 DEF Resolve, Close, Requeue, TypeInv, Typed
  <2>2. Unspent(k)' = Unspent(k) /\ Unspent(k) \in {0, 1}
    BY <2>1 DEF Unspent
  <2> QED
    BY <1>1, <2>1, <2>2, QuietStep
<1>3. CASE j = k
  <2>1. Unspent(k) = 0
    BY <1>3 DEF Resolve, Unspent
  <2>2. CASE resends'[k] = resends[k] /\ state'[k] = "done"
    BY <1>1, <2>1, <2>2, QuietStep DEF Unspent
  <2>3. CASE resends'[k] = resends[k] + 1 /\ state'[k] = "queued"
    BY <1>1, <2>1, <2>3, CarriersCount DEF Covered, Unspent, TypeInv, Typed
  <2> QED
    BY <1>3, <2>2, <2>3 DEF Resolve, Close, Requeue, TypeInv, Typed
<1> QED
  BY <1>2, <1>3

(* The steps that deliver nothing, license nothing and put nothing back.   *)
LEMMA LicenceQuiet ==
  ASSUME TypeInv, TypeInv', NEW k \in Key, Covered(k),
         \/ \E d \in Draft : Enqueue(d) \/ EnqueueTorn(d)
         \/ \E w \in Worker :
               \/ Start(w) \/ StartUnrecovered(w) \/ BeginPass(w) \/ EndPass(w)
               \/ \E j \in Key : Consider(w, j)
               \/ ClaimSkips(w) \/ ClaimBlocked(w) \/ ClaimFails(w)
               \/ RecordFails(w) \/ Crash(w)
         \/ \E j \in Key : BackoffElapses(j)
         \/ \E a \in HasUndo : RequestUndo(a)
         \/ UNCHANGED vars
  PROVE  Covered(k)'
<1>1. delivered'[k] = delivered[k] /\ resends'[k] = resends[k]
  BY DEF Enqueue, EnqueueTorn, Start, StartUnrecovered, BeginPass, EndPass, Consider,
         ClaimSkips, ClaimBlocked, ClaimFails, RecordFails, Crash, BackoffElapses,
         RequestUndo, vars, historyVars
<1>2. Unspent(k)' <= Unspent(k)
  <2>1. \/ state'[k] = state[k]
        \/ state[k] = "absent" /\ state'[k] = "queued"
        \/ state'[k] \in {"sending", "attention"}
    BY DEF Enqueue, EnqueueTorn, AddEntries, Known, Start, StartUnrecovered, BeginPass,
           EndPass, Consider, ClaimSkips, ClaimBlocked, NeedsAttention, ClaimFails,
           MarkSending, RecordFails, Crash, BackoffElapses, RequestUndo, vars, queueVars,
           TypeInv, Typed
  <2> QED
    BY <2>1 DEF Unspent
<1>3. Carriers(k)' \in SUBSET Carriers(k)
  <2>1. CASE \E w \in Worker : ClaimSkips(w) \/ ClaimBlocked(w) \/ ClaimFails(w)
                                 \/ RecordFails(w) \/ Crash(w)
    BY <2>1, ForgetCarriers
       DEF ClaimSkips, ClaimBlocked, ClaimFails, RecordFails, Crash, PutDown
  <2>2. CASE \E w \in Worker : Start(w) \/ StartUnrecovered(w) \/ BeginPass(w)
                                 \/ EndPass(w) \/ \E j \in Key : Consider(w, j)
    BY <2>2 DEF Start, StartUnrecovered, BeginPass, EndPass, Consider, Carriers,
                Carrying, TypeInv, Typed
  <2>3. CASE UNCHANGED workerVars
    BY <2>3 DEF workerVars, Carriers, Carrying
  <2> QED
    BY <2>1, <2>2, <2>3 DEF Enqueue, EnqueueTorn, BackoffElapses, RequestUndo, vars,
                            workerVars
<1> QED
  BY <1>1, <1>2, <1>3, QuietStep

LEMMA LicenceInit == Init => LicenceInv
<1> SUFFICES ASSUME Init, NEW k \in Key PROVE TypeInv /\ Covered(k)
  BY TypeInit DEF LicenceInv
<1>1. Carriers(k) = {}
  BY DEF Init, Carriers, Carrying
<1> QED
  BY <1>1, TypeInit, FS_EmptySet DEF Init, Covered, Unspent

LEMMA LicenceStep == LicenceInv /\ [Next]_vars => LicenceInv'
<1> SUFFICES ASSUME LicenceInv, [Next]_vars, TypeInv, TypeInv', NEW k \in Key, Covered(k)
             PROVE  Covered(k)'
  BY TypeStep DEF LicenceInv
<1>1. CASE \E w \in Worker : Claim(w)
  BY <1>1, LicenceClaim
<1>2. CASE \E w \in Worker, out \in Outcomes, arrived \in BOOLEAN : Execute(w, out, arrived)
  BY <1>2, LicenceExecute
<1>3. CASE \E w \in Worker : Record(w)
  BY <1>3, LicenceRecord
<1>4. CASE \E j \in Key : Resolve(j)
  BY <1>4, LicenceResolve
<1> QED
  BY <1>1, <1>2, <1>3, <1>4, LicenceQuiet DEF Next, WorkerStep

(* No number of daemons, crashes, lost records, torn batches or answers    *)
(* makes the queue send an action more often than it was licensed to: once *)
(* by the apply, once by each --resend.                                    *)
THEOREM AtMostOnce == Spec => []AtMostOncePerLicence
<1>1. LicenceInv => AtMostOncePerLicence
  <2> SUFFICES ASSUME TypeInv, NEW k \in Key, Covered(k)
               PROVE  delivered[k] <= 1 + resends[k]
    BY DEF LicenceInv, AtMostOncePerLicence
  <2>1. Unspent(k) \in {0, 1}
    BY DEF Unspent
  <2> QED
    BY <2>1, CarriersCount DEF Covered, TypeInv, Typed
<1> QED
  BY <1>1, LicenceInit, LicenceStep, PTL DEF Spec

-----------------------------------------------------------------------------
(* THE RETRY LIMIT.  An entry that may still be claimed has an attempt to  *)
(* spare; a --resend gives it one more, and a late `retrying' record only  *)
(* ever writes an attempt number below the limit.                          *)
Spare(k) ==
    /\ attempts[k] <= MaxAttempts + resends[k]
    /\ state[k] \in {"absent", "queued", "retrying"} => attempts[k] < MaxAttempts + resends[k]
AttemptsInv == TypeInv /\ \A k \in Key : Spare(k)

LEMMA AttemptsStep == AttemptsInv /\ [Next]_vars => AttemptsInv'
<1> SUFFICES ASSUME AttemptsInv, [Next]_vars, TypeInv, TypeInv', NEW k \in Key, Spare(k)
             PROVE  Spare(k)'
  BY TypeStep DEF AttemptsInv
<1> USE DEF Spare, TypeInv, Typed
<1>1. CASE \E d \in Draft : Enqueue(d) \/ EnqueueTorn(d)
  BY <1>1 DEF Enqueue, EnqueueTorn, AddEntries, Known, historyVars
<1>2. CASE \E w \in Worker : Start(w) \/ StartUnrecovered(w) \/ BeginPass(w) \/ EndPass(w)
                               \/ \E j \in Key : Consider(w, j)
  BY <1>2 DEF Start, StartUnrecovered, BeginPass, EndPass, Consider, queueVars, historyVars
<1>3. CASE \E w \in Worker : ClaimSkips(w) \/ ClaimBlocked(w) \/ RecordFails(w) \/ Crash(w)
  BY <1>3 DEF ClaimSkips, ClaimBlocked, NeedsAttention, RecordFails, Crash, queueVars,
              historyVars
<1>4. ASSUME NEW w \in Worker, Claim(w) \/ ClaimFails(w) PROVE Spare(k)'
  <2>1. hand[w] \in Key /\ Due(hand[w]) /\ resends' = resends
    BY <1>4 DEF Claim, ClaimFails, HandHeld, historyVars
  <2>2. CASE MarkSending(hand[w])
    BY <2>1, <2>2, QueueAssumption DEF MarkSending, Due, AttemptsInv, QueueAssumption
  <2>3. CASE UNCHANGED <<state, attempts>>
    BY <2>1, <2>3
  <2> QED
    BY <1>4, <2>2, <2>3 DEF Claim, ClaimFails
<1>5. CASE \E w \in Worker, out \in Outcomes, arrived \in BOOLEAN : Execute(w, out, arrived)
  BY <1>5 DEF Execute, queueVars
<1>6. ASSUME NEW w \in Worker, Record(w) PROVE Spare(k)'
  <2>1. hand[w] \in Key /\ resends' = resends /\ try[w] \in Nat
    BY <1>6 DEF Record, HandHeld, historyVars
  <2> QED
    BY <1>6, <2>1, QueueAssumption
       DEF Record, RecordOutcome, RecordDone, RecordRetry, RecordAttention, NeedsAttention,
           QueueAssumption
<1>7. CASE \E j \in Key : BackoffElapses(j)
  BY <1>7 DEF BackoffElapses, historyVars
<1>8. ASSUME NEW j \in Key, Resolve(j) PROVE Spare(k)'
  BY <1>8, QueueAssumption DEF Resolve, Close, Requeue, QueueAssumption
<1>9. CASE \E a \in HasUndo : RequestUndo(a)
  BY <1>9, UndoIsKey DEF RequestUndo, AddEntries, historyVars
<1>10. CASE UNCHANGED vars
  BY <1>10 DEF vars
<1> QED
  BY <1>1, <1>2, <1>3, <1>4, <1>5, <1>6, <1>7, <1>8, <1>9, <1>10 DEF Next, WorkerStep

LEMMA AttemptsInit == Init => AttemptsInv
  BY TypeInit, QueueAssumption DEF AttemptsInv, Spare, Init, QueueAssumption

(* An action is attempted at most MaxAttempts times, and once more for     *)
(* each --resend (RetryPolicy.max_attempts, queue.rs:843-1043).            *)
THEOREM RetryLimit == Spec => []AttemptsBounded
<1>1. AttemptsInv => AttemptsBounded
  BY DEF AttemptsInv, Spare, AttemptsBounded
<1> QED
  BY <1>1, AttemptsInit, AttemptsStep, PTL DEF Spec

(* The model is well typed and no attempt number leaves its range.  That   *)
(* is not inductive alone: that a worker past the look-up of a candidate   *)
(* has one in hand (HandHeld) is, and an entry that waits has an attempt   *)
(* to spare.                                                               *)
THEOREM TypeCorrect == Spec => []TypeOK
<1>1. AttemptsInv => TypeOK
  <2> SUFFICES ASSUME AttemptsInv, NEW k \in Key
               PROVE  attempts[k] <= MaxAttempts + MaxResends
    BY DEF AttemptsInv, TypeInv, TypeOK
  <2> QED
    BY QueueAssumption DEF AttemptsInv, Spare, TypeInv, Typed, QueueAssumption
<1> QED
  BY <1>1, AttemptsInit, AttemptsStep, PTL DEF Spec
===============================================================================
