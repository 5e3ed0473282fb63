---------------------------- MODULE MCEventIndexer ----------------------------
(***************************************************************************)
(* Two contracts, chunks of two blocks and a chain of up to four.          *)
(***************************************************************************)
EXTENDS EventIndexer

CONSTANTS c1, c2

MCContracts == <<c1, c2>>
=============================================================================
