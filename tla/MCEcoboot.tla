----------------------------- MODULE MCEcoboot ------------------------------
(***************************************************************************)
(* Transfers of two sectors to a boot partition of six, images of every    *)
(* length around a transfer and around the end of the partition, and       *)
(* images of two releases for the run that follows.                        *)
(***************************************************************************)
EXTENDS Ecoboot

Image(n, first) == [s \in 1..n |-> first + s]

MCImages == {Image(n, 10) : n \in {1, 4, 5, 7}} \cup {Image(3, 20)}
=============================================================================
