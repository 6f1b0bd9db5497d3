------------------------ MODULE MCSerialDispatcher ------------------------
(* SerialDispatcher for TLC. *)
EXTENDS SerialDispatcher
============================================================================
