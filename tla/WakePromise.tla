------------------------------ MODULE WakePromise ------------------------------
(***************************************************************************)
(* What a team session is promised about each message that wakes a role    *)
(* (the opening comment of ta-daemon/src/wake_retry.rs): a launch costs a  *)
(* paid model run, so a message is launched a limited number of times, by  *)
(* one launch at a time, and never again once it is finished.              *)
(***************************************************************************)
EXTENDS Naturals

CONSTANTS
    Msg,
    MaxAttempts  \* launches that one message may cost

VARIABLES
    phase,  \* where each message stands
    runs    \* how many launches it has cost

Phases == {"open", "running", "closed"}

Init ==
    /\ phase = [m \in Msg |-> "open"]
    /\ runs = [m \in Msg |-> 0]

Moves(m, from, to) == phase[m] \in from /\ phase' = [phase EXCEPT ![m] = to]

Launch(m) ==
    /\ Moves(m, {"open"}, "running")
    /\ runs[m] < MaxAttempts
    /\ runs' = [runs EXCEPT ![m] = @ + 1]

End(m) == Moves(m, {"running"}, "open") /\ UNCHANGED runs

(* Done, or given up; a sibling may give up while the last launch runs.    *)
Close(m) == Moves(m, {"open", "running"}, "closed") /\ UNCHANGED runs

(* The daemon dies with all its launches.                                  *)
Interrupt ==
    /\ phase' = [m \in Msg |-> IF phase[m] = "running" THEN "open" ELSE phase[m]]
    /\ UNCHANGED runs

Next == Interrupt \/ \E m \in Msg : Launch(m) \/ End(m) \/ Close(m)

Spec == Init /\ [][Next]_<<phase, runs>>
===============================================================================
