------------------------- MODULE InterviewLifecycle -------------------------
(***************************************************************************)
(* What the rest of the system may rely on about one `interviews` row,     *)
(* whoever writes it and however requests interleave: it moves along the   *)
(* edges of the table only, an ending is stamped with the state that is    *)
(* one, and the reason it ended for is written once, together with the     *)
(* move that ended it.                                                     *)
(***************************************************************************)
EXTENDS InterviewMachine

VARIABLES state, reason, ended

row == <<state, reason, ended>>

Init == state = "created" /\ reason = NoReason /\ ended = FALSE

(* Only a move that ends the candidate's part of an interview carries a    *)
(* reason, and only a first one.                                           *)
MayCarry(to, why) ==
    \/ why = reason
    \/ reason = NoReason /\ to \in {"evaluating", "abandoned"} /\ why \in EndedReasons

Move(to, why) ==
    /\ CanTransition(state, to)
    /\ MayCarry(to, why)
    /\ to = "abandoned" => why = "abandoned"
    /\ state' = to
    /\ reason' = why
    /\ ended' = (ended \/ to \in TERMINAL)

Next == \E to \in InterviewStates, why \in EndedReasons \cup {NoReason} : Move(to, why)

Spec == Init /\ [][Next]_row
=============================================================================
