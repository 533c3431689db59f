--------------------------- MODULE MCDurableQueue ---------------------------
(* Small instances of DurableQueue for TLC. *)
EXTENDS DurableQueue, MCReliableQueue

============================================================================
