----------------------------- MODULE MCArchive -----------------------------
(* Two boot files and a file of the user, contents of one to three blocks,  *)
(* a buffer of two, and a block that reads as a null record.                *)
EXTENDS Archive, TLC

CONSTANTS b1, b2, u1, c1, c2, c3

MCSize == c1 :> 1 @@ c2 :> 2 @@ c3 :> 3
MCLists == <<<<b1, b2>>, <<u1>>>>
MCImages == {b1 :> c3 @@ b2 :> c1 @@ u1 :> c2, b1 :> None @@ b2 :> c2 @@ u1 :> c3}
MCArchives == {<<>>, <<<<b1, c1>>, <<b1, c3>>, <<u1, c2>>>>}
MCZeros == {<<c3, 2>>}
=============================================================================
