------------------------------ MODULE MCFuses ------------------------------
(***************************************************************************)
(* Two keys of three words of two bits, one with a word of zeros first.    *)
(***************************************************************************)
EXTENDS Fuses

MCKeys == {<<{1, 2}, {1}, {2}>>, <<{}, {1, 2}, {1}>>}
=============================================================================
