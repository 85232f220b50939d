---------------------------- MODULE OutsideActions ----------------------------
(***************************************************************************)
(* What the queue promises about each outside action, in the words of the  *)
(* design (atomic-apply-and-action-queue-design.md, section 2) and of      *)
(* docs/USAGE.md: it goes out at most once; an outcome nobody can tell is  *)
(* never guessed but put before a person; and what is closed stays closed. *)
(* One step may move several actions (a batch is accepted whole, a restart *)
(* puts every doubtful one before a person), each along its own life.      *)
(***************************************************************************)
CONSTANT Key

VARIABLES
    phase,  \* where each action stands
    out     \* has its destination received it?

Phases == {"none", "waiting", "inflight", "attention", "closed"}

Init ==
    /\ phase = [k \in Key |-> "none"]
    /\ out = [k \in Key |-> FALSE]

Moves(k, from, to) == phase[k] = from /\ phase'[k] = to
Quiet(k) == out'[k] = out[k]

Accept(k) == Moves(k, "none", "waiting") /\ Quiet(k)
Launch(k) == Moves(k, "waiting", "inflight") /\ ~out[k] /\ Quiet(k)
Land(k) == Moves(k, "inflight", "inflight") /\ ~out[k] /\ out'[k]
(* A failure is taken for one only when nothing went out.                  *)
Bounce(k) == Moves(k, "inflight", "waiting") /\ ~out[k] /\ Quiet(k)
Confirm(k) == Moves(k, "inflight", "closed") /\ out[k] /\ Quiet(k)
Doubt(k) == Moves(k, "inflight", "attention") /\ Quiet(k)
Refuse(k) == Moves(k, "waiting", "attention") /\ ~out[k] /\ Quiet(k)
(* A person answers: closed either way, or sent again if it is not out.    *)
Answer(k) == Moves(k, "attention", "closed") /\ Quiet(k)
SendAgain(k) == Moves(k, "attention", "waiting") /\ ~out[k] /\ Quiet(k)

Live(k) ==
    \/ Accept(k) \/ Launch(k) \/ Land(k) \/ Bounce(k) \/ Confirm(k)
    \/ Doubt(k) \/ Refuse(k) \/ Answer(k) \/ SendAgain(k)
    \/ phase'[k] = phase[k] /\ Quiet(k)

Next ==
    /\ phase' \in [Key -> Phases] /\ out' \in [Key -> BOOLEAN]
    /\ \A k \in Key : Live(k)

Spec == Init /\ [][Next]_<<phase, out>>
===============================================================================
