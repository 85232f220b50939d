------------------------------ MODULE RequestLife ------------------------------
(***************************************************************************)
(* What a project is promised about each task request                      *)
(* (docs/design/task-intake-store.md): it waits, is held by one consumer   *)
(* for a while, may come back, and ends drafted or closed.  It is handed   *)
(* out a limited number of times, never while it is held, and what is      *)
(* drafted is never handed out again.                                      *)
(***************************************************************************)
EXTENDS Naturals

CONSTANTS
    Request,
    MaxClaims  \* how often a request is handed out

VARIABLES
    life,   \* where each request is
    times   \* how often it was handed out

Lives == {"none", "waiting", "held", "drafted", "applied", "rejected", "expired"}

Init ==
    /\ life = [r \in Request |-> "none"]
    /\ times = [r \in Request |-> 0]

Moves(r, from, to) ==
    /\ life[r] \in from
    /\ \E l \in to : life' = [life EXCEPT ![r] = l]

Submit(r) == Moves(r, {"none"}, {"waiting"}) /\ UNCHANGED times

HandOut(r) ==
    /\ Moves(r, {"waiting"}, {"held"})
    /\ times[r] < MaxClaims
    /\ times' = [times EXCEPT ![r] = @ + 1]

TakeBack(r) == Moves(r, {"held"}, {"waiting"}) /\ UNCHANGED times
Draft(r) == Moves(r, {"held"}, {"drafted"}) /\ UNCHANGED times
Apply(r) == Moves(r, {"drafted"}, {"applied"}) /\ UNCHANGED times
Reject(r) == Moves(r, {"held", "drafted"}, {"rejected"}) /\ UNCHANGED times
Expire(r) == Moves(r, {"waiting", "held", "drafted"}, {"expired"}) /\ UNCHANGED times

Next ==
    \E r \in Request :
       \/ Submit(r) \/ HandOut(r) \/ TakeBack(r) \/ Draft(r)
       \/ Apply(r) \/ Reject(r) \/ Expire(r)

Spec == Init /\ [][Next]_<<life, times>>
===============================================================================
