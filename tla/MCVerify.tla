------------------------------ MODULE MCVerify ------------------------------
(***************************************************************************)
(* Two files, two contents, and versions that differ in every field.       *)
(***************************************************************************)
EXTENDS Verify

CONSTANTS updater, boot

MCVerifySeq == <<updater, boot>>

V(a, b, c) == [major |-> a, minor |-> b, patch |-> c]
MCReleases == {V(1, 0, 5), V(1, 2, 3), V(2, 0, 0)}

MCRecords ==
    {[md5 |-> "m1", version |-> v] : v \in MCReleases}
      \cup {[md5 |-> "m2", version |-> V(1, 2, 3)], [md5 |-> "m1", version |-> Bad]}
      \cup {Missing, Bad}
=============================================================================
