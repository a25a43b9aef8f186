----------------------------- MODULE MCUpdater -----------------------------
(***************************************************************************)
(* Small instances of Updater for TLC: a handful of files, two versions,   *)
(* one or two starts of the updater.                                       *)
(***************************************************************************)
EXTENDS UpdaterInv

CONSTANTS upd, ver, eco, key, asset, db, log, stray

MCVerifySeq == <<upd, eco>>
MCArchiveSeq == <<upd, ver, eco, key, db>>
MCBackupSeq == <<upd, ver, db>>

\* Every file of s has content v; the others are absent.
All(s, v) == [f \in Files |-> IF f \in s THEN v ELSE Missing]

FullSet == Files \ {key}

\* The installed release has no boot loader left to install.
MCImages == {All(FullSet \ {eco}, 1)}

\* An upgrade, and a release with a new user file that is older than the upgrade.
MCPackages == {All({upd, ver, eco}, 2), [All({upd, ver}, 1) EXCEPT ![db] = 2]}
MCBackups == {All({upd, ver}, 1)}

\* Every file in the root of its catalog, under a name that unpack() leaves there.
FlatDirOf == [f \in Files |-> <<>>]
FlatEntryAt == [f \in Files |-> f]

(***************************************************************************)
(* A file two directories down in /os, one in a sub-directory of /user,    *)
(* and /user/updater.log, which goes into the backup but comes back as     *)
(* /os/current/updater.log (stray): the name sorts before "user".          *)
(***************************************************************************)
TreeDirOf ==
    [f \in Files |-> CASE f = asset -> <<"assets", "fonts">>
                      [] f = db -> <<"voice">>
                      [] OTHER -> <<>>]
TreeEntryAt == [f \in Files |-> CASE f = stray -> log [] f = log -> None [] OTHER -> f]
TreeArchiveSeq == <<upd, ver, eco, key, asset, stray, db, log>>
TreeBackupSeq == <<upd, ver, log>>

\* An upgrade with its keys, and the installed release again with keys that do
\* not match their checksum.
TreePackages ==
    {All({upd, ver, asset, db, key}, 2),
     [All({upd, ver, eco, asset, key}, 1) EXCEPT ![key] = Torn]}
TreeBackups == {All({upd, ver, log}, 1)}
TreeImages == {All(FullSet \ {eco, stray}, 1), All(Files \ {eco, stray}, 1)}
MoveImages == {All(FullSet \ {eco, stray}, 1)}
=============================================================================
