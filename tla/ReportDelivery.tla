--------------------------- MODULE ReportDelivery ---------------------------
(***************************************************************************)
(* What the rest of the system may rely on about the report of one         *)
(* interview that went to `evaluating`, whoever runs its job and however   *)
(* often: a report is stored once and stays, an interview is completed     *)
(* only with its report stored, and a completed interview is left alone.   *)
(* A failed one may be taken up again.                                     *)
(***************************************************************************)
EXTENDS Naturals

VARIABLES state,      \* interviews.state
          delivered,  \* the reports row is ready
          written     \* times a payload was stored

delivery == <<state, delivered, written>>

Init == state = "evaluating" /\ delivered = FALSE /\ written = 0

Deliver ==
    /\ ~delivered /\ delivered' = TRUE
    /\ written' = written + 1
    /\ UNCHANGED state

Complete ==
    /\ state = "evaluating" /\ delivered
    /\ state' = "completed"
    /\ UNCHANGED <<delivered, written>>

GiveUp ==
    /\ state = "evaluating" /\ state' = "failed"
    /\ UNCHANGED <<delivered, written>>

TakeUpAgain ==
    /\ state = "failed" /\ state' = "evaluating"
    /\ UNCHANGED <<delivered, written>>

Next == Deliver \/ Complete \/ GiveUp \/ TakeUpAgain

Spec == Init /\ [][Next]_delivery
=============================================================================
