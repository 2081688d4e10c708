------------------------------ MODULE TurnLease ------------------------------
(***************************************************************************)
(* What a TURN allocation promises to the one who sends through it         *)
(* (send_with_duplicate, send_data_batch): it opens, is usable for a       *)
(* while, and is over; it never comes back.                                *)
(***************************************************************************)
VARIABLE phase

Init == phase = "opening"

Opens == phase = "opening" /\ phase' = "usable"

Ends == phase \in {"opening", "usable"} /\ phase' = "over"

Next == Opens \/ Ends

Spec == Init /\ [][Next]_phase
=============================================================================
