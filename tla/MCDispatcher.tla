---------------------------- MODULE MCDispatcher ----------------------------
(* Two packet classes with short chunks, for TLC. *)
EXTENDS Dispatcher

MCStreamChunk == [c \in Classes |-> IF c = "Small" THEN 1 ELSE 2]
=============================================================================
