----------------------------- MODULE UpdaterInv -----------------------------
(***************************************************************************)
(* What makes the properties of Updater inductive: where a run is, which   *)
(* archive it works from, and what is known of every file at that point.   *)
(***************************************************************************)
EXTENDS Updater

Installing == reason \in {"update", "recovery"}

\* The operation that brings a run to its step.
Phase ==
    /\ pc = "backup" => reason = "update"
    /\ pc \in {"tmp", "unpack", "verify", "fuse", "mvos", "mvuser", "eco", "flash", "flashed"}
         => Installing
    /\ pc = "keys" => reason = "pgm_keys"
    /\ pc = "burn" => reason \in {"update", "recovery", "pgm_keys"}
    /\ pc = "factory" => reason = "factory"
    /\ pc \in {"off", "halted", "mount", "status", "backup"} => result = "success"
    /\ pc \in {"off", "halted", "mount", "status"} => idx = 1
    /\ result = "failure" => pc \in {"save", "leave"}
    /\ pc \in {"off", "halted", "mount", "status"} => missed = {}

\* src is what this run's archive has for every place; that of a recovery is whole
\* by the time its files are verified.
Archive ==
    /\ pc \in Staged \cup {"unpack"} /\ Installing =>
         src = Routed(IF reason = "update" THEN pkg ELSE bak)
    /\ pc \in Staged /\ reason = "recovery" => bakEnd = "null"

\* Nothing is staged that src does not have; all of it is when unpack() is over.
Unpacked ==
    Installing =>
        /\ pc \in Staged \cup {"unpack"} =>
             \A f \in Files : tmp[f] = Missing \/ (src[f] # Missing /\ tmp[f] \in {src[f], Torn})
        /\ pc = "verify" => \A f \in Files : src[f] # Missing => tmp[f] # Missing

\* The walk of its catalog did not find f.
Lost(f) == <<"staged", f>> \in missed

\* A file that was moved is in its place; one that was not is still staged.
InPlace(f) == cur[f] \in {src[f], Torn} \/ Lost(f)

\* The boot loader has content c, or the run did not see that there was one.
Flashed(c) == flash \in c \/ <<"eco", EcoFile>> \in missed

Moved ==
    Installing =>
        \A f \in Files \ {KeyFile} : src[f] # Missing =>
            /\ pc \in {"fuse", "burn"} => tmp[f] # Missing
            /\ pc = "mvos" => tmp[f] # Missing \/ InPlace(f)
            /\ pc = "mvuser" => InPlace(f) \/ (f \in UserFiles /\ tmp[f] # Missing)
            /\ pc \in {"eco", "flash", "flashed"} => InPlace(f)
            /\ pc = "flashed" /\ f = EcoFile => flash \in {src[f], Torn} \/ Lost(f)
            /\ pc = "save" /\ result = "success" =>
                 IF f = EcoFile THEN Flashed({src[f], Torn}) \/ Lost(f) ELSE InPlace(f)

\* The same for the files whose checksum was compared, whose content is known.
Intact(f) == src[f] \in Versions

Verified ==
    Installing =>
        \A f \in Reached("checksum", src, missed) :
            /\ pc \in {"fuse", "burn"} => Intact(f) /\ tmp[f] = src[f]
            /\ pc = "mvos" => Intact(f) /\ (tmp[f] = src[f] \/ (tmp[f] = Missing /\ cur[f] = src[f]))
            /\ pc \in {"mvuser", "eco", "flash", "flashed"} =>
                 Intact(f) /\ (cur[f] = src[f] \/ Lost(f))
            /\ pc = "flashed" /\ f = EcoFile => flash = src[f] \/ Lost(f)
            /\ pc = "save" /\ result = "success" =>
                 (IF f = EcoFile THEN Flashed({src[f]}) ELSE cur[f] = src[f]) \/ Lost(f)

\* A status file is there only between two runs, unless it outlived its removal.
Reported ==
    /\ status \in Status /\ age = "fresh" => pc \in {"off", "halted", "mount", "status", "leave"}
    /\ pc = "save" /\ reason = "factory" /\ result = "success" =>
         \A f \in DbFiles : cur[f] = Missing \/ <<"installed", f>> \in missed

\* What an update will unlink has a copy that can be unpacked.
BackedUp ==
    reason = "update" /\ bakEnd = "eof" =>
        \A j \in {k \in DOMAIN BackupSeq : <<"installed", BackupSeq[k]>> \notin missed} :
            LET f == BackupSeq[j] IN
            /\ pc = "backup" /\ j < idx => cur[f] \in {Missing, bak[f]}
            /\ pc \in {"tmp", "unpack", "verify", "fuse", "burn"} => cur[f] \in {Missing, bak[f]}
            /\ pc \in {"mvos", "mvuser"} /\ tmp[f] # Missing => cur[f] \in {Missing, bak[f]}

\* Until version.json is moved, the two of them are as the version loop left them.
NotOlder ==
    /\ pc \in {"fuse", "burn"} /\ Installing => ChecksumOk(tmp)
    /\ pc \in {"fuse", "burn"} /\ reason = "update" => VersionOk(tmp, cur)
    /\ pc = "burn" /\ Installing => tmp[KeyFile] \in Versions
    /\ pc \in {"fuse", "burn", "mvos"} /\ reason = "update"
         /\ Reached("version", src, missed) # {} /\ <<"record", VersionFile>> \notin missed
         /\ tmp[VersionFile] # Missing =>
            /\ tmp[VersionFile] \in Versions
            /\ cur[VersionFile] \in Versions => tmp[VersionFile] >= cur[VersionFile]

(***************************************************************************)
(* The inductive invariant of Updater: all of the above at once.           *)
(***************************************************************************)
IInv == /\ TypeOK
        /\ Phase /\ Archive /\ Unpacked /\ Moved /\ Verified
        /\ Reported /\ BackedUp /\ NotOlder
        /\ TruthfulStatus /\ NothingSkipped
=============================================================================
