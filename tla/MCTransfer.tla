----------------------------- MODULE MCTransfer -----------------------------
(***************************************************************************)
(* A counter of three bits, every delay, a timeout of three ticks and a    *)
(* transfer with no retry or one.                                          *)
(***************************************************************************)
EXTENDS Transfer

MCDelays == 0..Max
=============================================================================
