------------------------------ MODULE Updater ------------------------------
(***************************************************************************)
(* One power-on of the updater after another: main() in updater.c and the  *)
(* package pipeline it runs, update_firmware() in update.c, over the files *)
(* of the two partitions it writes, /os and /user.  Every step that makes  *)
(* a change survive a power cut is an action of its own; Crash may happen  *)
(* between any two of them and inside the ones that are not atomic.        *)
(*                                                                         *)
(* A file's content is a version number, Torn (cut short or unreadable) or *)
(* Missing.  The content v of VersionFile is a version.json that names     *)
(* version v and the checksums of the v files: another file matches its    *)
(* checksum exactly when its content equals that of the version.json.      *)
(***************************************************************************)
EXTENDS Integers, SequencesExt

CONSTANTS
    OsFiles,      \* what lives in /os/current, staged in /os/tmp
    UserFiles,    \* what lives in /user, staged in /user/tmp
    Names,        \* names of directories
    DirOf,        \* the directory of a file: the path that leads to it from its root
    VersionFile,  \* version.json
    EcoFile,      \* ecoboot.bin
    KeyFile,      \* SRK_fuses.bin with its .md5; Torn when they do not match
    VerifySeq,    \* verify_files: checked in this order
    ArchiveSeq,   \* the order of the entries of an archive
    EntryAt,      \* which entry of an archive unpack() puts in a place, if any
    BackupSeq,    \* backup_boot_files, then the *.db and *.log of /user
    DbFiles,      \* the user files a factory reset removes
    Versions,     \* contents a released file can have
    Missing, Torn, None,
    Packages,     \* contents /user/update.tar can have
    OsImages,     \* contents of the two partitions when the model starts
    Backups,      \* contents of a backup.tar put on /backup from outside
    MaxBoots,     \* bound: how many times the updater is started
    MaxMissed     \* bound: how often a run fails to see a file that is there

Files == OsFiles \cup UserFiles
Content == Versions \cup {Missing, Torn}
VerifyFiles == {VerifySeq[i] : i \in DOMAIN VerifySeq}
Reasons == {"update", "recovery", "factory", "pgm_keys", "unknown"}
Status == [op : Reasons, result : {"success", "failure"}]

ASSUME FilesAssumption ==
    /\ {VersionFile, EcoFile, KeyFile} \subseteq OsFiles
    /\ VersionFile # EcoFile /\ VersionFile # KeyFile /\ EcoFile # KeyFile
    /\ OsFiles \cap UserFiles = {}
    /\ DbFiles \subseteq UserFiles
    /\ None \notin Files
    /\ ArchiveSeq \in Seq(Files) /\ Files = {ArchiveSeq[i] : i \in DOMAIN ArchiveSeq}
    /\ EntryAt \in [Files -> Files \cup {None}]
    /\ VerifySeq \in Seq(OsFiles) /\ BackupSeq \in Seq(Files)
    /\ VersionFile \notin VerifyFiles /\ KeyFile \notin VerifyFiles

ASSUME PathAssumption == "tmp" \in Names /\ \A f \in Files : DirOf[f] \in Seq(Names)

ASSUME ContentAssumption ==
    /\ Versions \subseteq Nat
    /\ Missing \notin Versions /\ Torn \notin Versions /\ Missing # Torn
    /\ Missing \notin Status /\ Torn \notin Status
    /\ Packages \cup OsImages \cup Backups \subseteq [Files -> Content]
    /\ MaxBoots \in Nat /\ MaxMissed \in Nat

VARIABLES
    \* persistent
    cur,      \* content of every file in /os/current and /user
    tmp,      \* content of every file staged in /os/tmp and /user/tmp
    pkg,      \* content of /user/update.tar
    bak,      \* what unpacking /backup/backup.tar from its start yields ...
    bakEnd,   \* ... and what stops it: "eof", "null" records or a "torn" entry
    status,   \* /user/updater_status.json
    flash,    \* the boot loader in the eMMC boot partition
    otp,      \* the SRK fuses: "blank", "partial" or "locked"
    lpgpr,    \* the SNVS register that carries the boot reason
    \* of the running updater
    pc, reason, idx, moving, walk, result, vfs,
    missed,   \* the files this run failed to see, each with what failed to see it
    \* bookkeeping
    exitc,    \* what main returned, None before it does
    boots,    \* number of starts so far
    src,      \* history: the archive the last unpack() read, by places
    age,      \* history: "stale" when the status file outlived its removal
    unseen    \* history: what the run that wrote the status file had missed

media  == <<cur, tmp, bak, bakEnd, flash, otp>>
ram    == <<reason, idx, moving, walk, result, vfs, missed>>
rest   == <<pkg, status, age, unseen, lpgpr, exitc, boots, src>>  \* what the pipeline leaves alone
vars   == <<media, rest, pc, ram>>

(***************************************************************************)
(* What can fail to see a file: the listing of the installed or of the     *)
(* staged files, the stat() by which the checksum loop, the version loop   *)
(* or ecoboot_in_package asks whether it is there, the read of the record  *)
(* of the installed release.                                               *)
(***************************************************************************)
Sights == {"installed", "staged", "checksum", "version", "eco", "record"}

Off == pc \in {"off", "halted"}

-----------------------------------------------------------------------------
Init ==
    /\ cur \in OsImages
    /\ tmp = [f \in Files |-> Missing]
    /\ pkg \in Packages
    /\ \/ bak \in Backups /\ bakEnd = "null"
       \/ bak = [f \in Files |-> Missing] /\ bakEnd = "eof"
    /\ status = Missing /\ age = "fresh" /\ unseen = {}
    /\ flash = cur[VersionFile]   \* the loader came with the installed release
    /\ otp = "blank" /\ lpgpr = "unknown"
    /\ pc = "off" /\ reason = "unknown" /\ idx = 1 /\ moving = None
    /\ walk = {} /\ result = "success" /\ vfs = "unmounted" /\ missed = {}
    /\ exitc = None /\ boots = 0
    /\ src = [f \in Files |-> Missing]

(***************************************************************************)
(* The phone starts the updater.  MuditaOS, which ran before, may have put *)
(* another package on /user and another request in the register; after a   *)
(* power cut both are as they were left.                                   *)
(***************************************************************************)
PowerOn(r, p) ==
    /\ Off /\ boots < MaxBoots
    /\ lpgpr' = r /\ pkg' = p
    /\ pc' = "mount" /\ boots' = boots + 1 /\ exitc' = None
    /\ UNCHANGED <<media, status, age, unseen, ram, src>>

\* vfs_mount_init, and the first system_boot_reason(), which clears the register.
Mount ==
    /\ pc = "mount"
    /\ pc' = "status" /\ vfs' = "mounted"
    /\ reason' = lpgpr /\ lpgpr' = "unknown"
    /\ UNCHANGED <<media, pkg, status, age, unseen, exitc, boots, src,
                   idx, moving, walk, result, missed>>

MountFail ==
    /\ pc = "mount"
    /\ pc' = "leave"
    /\ UNCHANGED <<media, rest, ram>>

\* Where the switch in main() goes.
FirstStep(r) ==
    CASE r = "update"   -> "backup"
      [] r = "recovery" -> "tmp"
      [] r = "factory"  -> "factory"
      [] r = "pgm_keys" -> "keys"
      [] OTHER          -> "leave"

\* status_json_delete; main() goes on when the unlink fails.
DeleteStatus ==
    /\ pc = "status"
    /\ \/ status' = Missing /\ age' = "fresh" /\ unseen' = {}
       \/ status # Missing /\ age' = "stale" /\ UNCHANGED <<status, unseen>>
    /\ pc' = FirstStep(reason)
    /\ UNCHANGED <<media, pkg, lpgpr, ram, exitc, boots, src>>

\* success = false; goto exit.
Fail ==
    /\ pc' = "save" /\ result' = "failure"
    /\ walk' = {} /\ moving' = None
    /\ UNCHANGED <<reason, idx, vfs, missed>>

(***************************************************************************)
(* readdir returns NULL at the end of a directory and for an I/O error     *)
(* (direntsyscalls.c), and dir_walker.c takes both for the end: the files  *)
(* that the listing of a directory had still to yield, and those of its    *)
(* sub-directories, are missed and no error is kept.  In the same way      *)
(* whoever asks stat() whether a file is there takes any error it returns  *)
(* for a no.                                                               *)
(***************************************************************************)
Miss(sight, f) ==
    /\ <<sight, f>> \notin missed /\ Cardinality(missed) < MaxMissed
    /\ missed' = missed \cup {<<sight, f>>}
    /\ UNCHANGED <<reason, moving, walk, result, vfs>>

Goto(step) == pc' = step /\ UNCHANGED ram

-----------------------------------------------------------------------------
(***************************************************************************)
(* backup_previous_firmware.  Each file is appended to backup.tar, which   *)
(* nothing ever truncates and which tar_deinit leaves without the null     *)
(* records that end an archive: an entry is reachable when all before it   *)
(* are whole and no null record precedes it.                               *)
(***************************************************************************)
BackupFile ==
    /\ pc = "backup" /\ idx <= Len(BackupSeq)
    /\ bak' = IF bakEnd = "eof" /\ cur[BackupSeq[idx]] # Missing
              THEN [bak EXCEPT ![BackupSeq[idx]] = cur[BackupSeq[idx]]]
              ELSE bak
    /\ idx' = idx + 1
    /\ UNCHANGED <<cur, tmp, bakEnd, flash, otp, rest, pc,
                   reason, moving, walk, result, vfs, missed>>

\* A file that get_files_flat did not find in /user.
BackupMiss ==
    /\ pc = "backup" /\ idx <= Len(BackupSeq)
    /\ BackupSeq[idx] \in UserFiles
    /\ Miss("installed", BackupSeq[idx])
    /\ idx' = idx + 1
    /\ UNCHANGED <<media, rest, pc>>

\* An append cut short, by an I/O error or a power cut.
TearBackup ==
    /\ bakEnd' \in (IF bakEnd = "eof" THEN {"eof", "torn"} ELSE {bakEnd})
    /\ UNCHANGED <<cur, tmp, bak, flash, otp>>

BackupFail ==
    /\ pc = "backup"
    /\ TearBackup /\ Fail
    /\ UNCHANGED <<rest>>

\* Mutant: the last file of the list is left out.
MutBackupDone ==
    /\ pc = "backup" /\ idx >= Len(BackupSeq)
    /\ Goto("tmp")
    /\ UNCHANGED <<media, rest>>

BackupDone ==
    /\ pc = "backup" /\ idx > Len(BackupSeq)
    /\ Goto("tmp")
    /\ UNCHANGED <<media, rest>>

(***************************************************************************)
(* tmp_create_catalog: what a previous run left in /os/tmp, then in        *)
(* /user/tmp, is removed file by file and both are made again.             *)
(***************************************************************************)
TmpRemove(f) ==
    /\ pc = "tmp" /\ tmp[f] # Missing
    /\ f \in UserFiles => \A g \in OsFiles : tmp[g] = Missing
    /\ tmp' = [tmp EXCEPT ![f] = Missing]
    /\ UNCHANGED <<cur, bak, bakEnd, flash, otp, rest, pc, ram>>

TmpFail ==
    /\ pc = "tmp"
    /\ Fail
    /\ UNCHANGED <<media, rest>>

(***************************************************************************)
(* Where unpack() puts the entries of an archive.  An entry whose name     *)
(* ends in that of a boot file goes to /os/tmp; so does every other whose  *)
(* name has four letters or more and sorts before "user", which is all     *)
(* that string_match_partial looks at: of the *.db and *.log that a backup *)
(* took from /user, calllog.db or updater.log for one, few go back there.  *)
(***************************************************************************)
Routed(archive) ==
    [f \in Files |-> IF EntryAt[f] = None THEN Missing ELSE archive[EntryAt[f]]]

\* Mutant: catalogs that exist already are taken as they are.
MutTmpReady ==
    /\ pc = "tmp"
    /\ src' = Routed(IF reason = "update" THEN pkg ELSE bak)
    /\ Goto("unpack")
    /\ UNCHANGED <<media, pkg, status, age, unseen, lpgpr, exitc, boots>>

TmpReady ==
    /\ pc = "tmp" /\ \A f \in Files : tmp[f] = Missing
    /\ src' = Routed(IF reason = "update" THEN pkg ELSE bak)
    /\ Goto("unpack")
    /\ UNCHANGED <<media, pkg, status, age, unseen, lpgpr, exitc, boots>>

(***************************************************************************)
(* unpack.  un_tar_file takes a short write (a full disk) for a success.   *)
(* The end of the archive is recognised only by its null records.  That a  *)
(* torn record can lead the reading to a false end (Archive) is left out.  *)
(* Entries are named by the place they go to, in src as in tmp.            *)
(***************************************************************************)
ToUnpack(f) == src[f] # Missing /\ tmp[f] = Missing

UnpackFile(i) ==
    /\ pc = "unpack" /\ ToUnpack(ArchiveSeq[i])
    /\ \A j \in 1..(i - 1) : ~ToUnpack(ArchiveSeq[j])
    /\ \E c \in {src[ArchiveSeq[i]], Torn} : tmp' = [tmp EXCEPT ![ArchiveSeq[i]] = c]
    /\ UNCHANGED <<cur, bak, bakEnd, flash, otp, rest, pc, ram>>

UnpackFail ==
    /\ pc = "unpack"
    /\ Fail
    /\ UNCHANGED <<media, rest>>

UnpackDone ==
    /\ pc = "unpack"
    /\ \A f \in Files : ~ToUnpack(f)
    /\ reason = "recovery" => bakEnd = "null"
    /\ Goto("verify")
    /\ UNCHANGED <<media, rest>>

(***************************************************************************)
(* checksum_verify_all and version_check_all leave their loop, satisfied,  *)
(* at the first of verify_files for which stat() does not return 0: one    *)
(* that is not there, or one that an I/O error keeps them from seeing.     *)
(* A staged version.json that is absent or unreadable leaves the fields    *)
(* they compare uninitialised: the build then refuses the package or       *)
(* faults (Crash).  Of a current one that is unreadable, or that cannot be *)
(* read (RecordMiss), what the staged one left may be compared (Verify).   *)
(* The fallback for one that is absent, or that stat() does not see, is    *)
(* not valid, so the version loop refuses (VerifyFail).  The cleanup that  *)
(* frees the strings of both is in Verify; what it frees without owning    *)
(* it, it survives or it faults (Crash).                                   *)
(***************************************************************************)
Reached(loop, staged, m) ==
    {VerifySeq[i] : i \in {j \in DOMAIN VerifySeq :
        \A k \in 1..j : staged[VerifySeq[k]] # Missing /\ <<loop, VerifySeq[k]>> \notin m}}

ChecksumOk(staged) ==
    \A f \in Reached("checksum", staged, missed) :
        staged[VersionFile] \in Versions /\ staged[f] = staged[VersionFile]

\* Mutant: an update is run with allow_downgrade = true.
MutVersionOk(staged, installed) ==
    Reached("version", staged, missed) # {} =>
        staged[VersionFile] \in Versions /\ installed[VersionFile] # Missing

VersionOk(staged, installed) ==
    Reached("version", staged, missed) # {} =>
        /\ staged[VersionFile] \in Versions /\ installed[VersionFile] # Missing
        /\ installed[VersionFile] \in Versions /\ <<"record", VersionFile>> \notin missed =>
             staged[VersionFile] >= installed[VersionFile]

\* The stat() of a file that a loop has come to fails.
ChecksumMiss(f) ==
    /\ pc = "verify" /\ f \in Reached("checksum", tmp, missed)
    /\ Miss("checksum", f)
    /\ UNCHANGED <<media, rest, pc, idx>>

VersionMiss(f) ==
    /\ pc = "verify" /\ reason = "update" /\ f \in Reached("version", tmp, missed)
    /\ Miss("version", f)
    /\ UNCHANGED <<media, rest, pc, idx>>

\* json_get fails on the version.json of the installed release.
RecordMiss ==
    /\ pc = "verify" /\ reason = "update" /\ cur[VersionFile] \in Versions
    /\ Miss("record", VersionFile)
    /\ UNCHANGED <<media, rest, pc, idx>>

\* Mutant: a recovery is run with check_checksum = false.
MutVerifyPass ==
    /\ pc = "verify"
    /\ reason = "update" => ChecksumOk(tmp) /\ VersionOk(tmp, cur)
    /\ Goto("fuse")
    /\ UNCHANGED <<media, rest>>

VerifyPass ==
    /\ pc = "verify"
    /\ ChecksumOk(tmp)
    /\ reason = "update" => VersionOk(tmp, cur)
    /\ Goto("fuse")
    /\ UNCHANGED <<media, rest>>

VerifyFail ==
    /\ pc = "verify"
    /\ Fail
    /\ UNCHANGED <<media, rest>>

(***************************************************************************)
(* program_secure_fuses and program_keys.  Nothing the fuses do can fail   *)
(* an update.  SRK words that are not all zero count as programmed, so a   *)
(* burn that was cut short is never taken up again (see Fuses).  The key   *)
(* files go, whatever came of it, unless the unlink fails.                 *)
(***************************************************************************)
KeyFileIsIn(dir) == dir[KeyFile] \in Versions

DropKeyFile(dir) ==
    \E c \in {Missing, dir[KeyFile]} : dir' = [dir EXCEPT ![KeyFile] = c]

KeysHandled ==
    IF reason = "pgm_keys"
    THEN DropKeyFile(cur) /\ UNCHANGED tmp
    ELSE DropKeyFile(tmp) /\ UNCHANGED cur

\* The fuses are locked, or stat() does not return 0 for the key file, there or not.
FuseSkip ==
    /\ pc = "fuse"
    /\ Goto("mvos")
    /\ UNCHANGED <<media, rest>>

\* Mutant: the fuses are programmed before the files are verified.
MutFuseBurn ==
    /\ pc \in {"verify", "fuse", "keys"} /\ otp = "blank"
    /\ KeyFileIsIn(IF pc = "keys" THEN cur ELSE tmp)
    /\ Goto("burn")
    /\ UNCHANGED <<media, rest>>

FuseBurn ==
    /\ pc \in {"fuse", "keys"} /\ otp = "blank"
    /\ KeyFileIsIn(IF pc = "keys" THEN cur ELSE tmp)
    /\ Goto("burn")
    /\ UNCHANGED <<media, rest>>

\* Word after word, from the first bit on.
FuseBit ==
    /\ pc = "burn" /\ otp = "blank"
    /\ otp' = "partial"
    /\ UNCHANGED <<cur, tmp, bak, bakEnd, flash, rest, pc, ram>>

FuseLock ==
    /\ pc = "burn" /\ otp = "partial"
    /\ otp' = "locked"
    /\ KeysHandled
    /\ Goto(IF reason = "pgm_keys" THEN "save" ELSE "mvos")
    /\ UNCHANGED <<bak, bakEnd, flash, rest>>

\* Mutant: keys that cannot be programmed are waited for.
MutFuseRefuse ==
    /\ pc = "fuse" /\ otp # "locked" /\ tmp[KeyFile] # Missing /\ Goto("mvos")
    /\ KeysHandled
    /\ UNCHANGED <<bak, bakEnd, flash, otp, rest>>

FuseRefuse ==
    /\ \/ pc = "fuse" /\ otp # "locked" /\ tmp[KeyFile] # Missing /\ Goto("mvos")
       \/ pc = "keys" /\ Fail
    /\ KeysHandled
    /\ UNCHANGED <<bak, bakEnd, flash, otp, rest>>

-----------------------------------------------------------------------------
(***************************************************************************)
(* tmp_files_move: the staged files of /os, then those of /user, are moved *)
(* one at a time: mv_callback unlinks the old file, then renames the new   *)
(* one.  An error ends the walk of the directory it is met in, and no      *)
(* other is entered after it; the walk of the enclosing directories goes   *)
(* on to their last entry (DirWalker).  walk holds the directory of the    *)
(* last error, if there was one.                                           *)
(***************************************************************************)
Visited(dir) == \A d \in walk : IsStrictPrefix(dir, d)

ToMove(f) ==
    /\ \/ pc = "mvos" /\ f \in OsFiles
       \/ pc = "mvuser" /\ f \in UserFiles
    /\ tmp[f] # Missing /\ Visited(DirOf[f]) /\ <<"staged", f>> \notin missed

MoveUnlink(f) ==
    /\ ToMove(f) /\ moving = None /\ cur[f] # Missing
    /\ cur' = [cur EXCEPT ![f] = Missing]
    /\ moving' = f
    /\ UNCHANGED <<tmp, bak, bakEnd, flash, otp, rest, pc,
                   reason, idx, walk, result, vfs, missed>>

\* A file that stat() did not see is not unlinked: the rename of littlefs, which may
\* be on /user, replaces it; that of FAT unlinks it first; that of ext4 fails.
MoveRename(f) ==
    /\ ToMove(f) /\ moving \in {None, f}
    /\ cur[f] = Missing \/ f \in UserFiles
    /\ cur' = [cur EXCEPT ![f] = tmp[f]]
    /\ tmp' = [tmp EXCEPT ![f] = Missing]
    /\ moving' = None
    /\ UNCHANGED <<bak, bakEnd, flash, otp, rest, pc,
                   reason, idx, walk, result, vfs, missed>>

\* The walk meets an error in dir: at a file, or at a directory it does not enter.
ErrorIn(dir) ==
    /\ walk' = {dir} /\ moving' = None
    /\ UNCHANGED <<pc, reason, idx, result, vfs, missed>>

MoveMiss(f) ==
    /\ ToMove(f) /\ moving = None
    /\ Miss("staged", f)
    /\ UNCHANGED <<media, rest, pc, idx>>

MoveError(f, dir) ==
    /\ ToMove(f) /\ dir \in Prefixes(DirOf[f])
    /\ moving \in {None, f} /\ (moving = f => dir = DirOf[f])
    /\ ErrorIn(dir)
    /\ UNCHANGED <<media, rest>>

Catalog == IF pc = "mvos" THEN OsFiles ELSE UserFiles

\* recursive_unlink of the catalog, which may fail or miss a file itself.
DropCatalog ==
    \E gone \in SUBSET {f \in Catalog : tmp[f] # Missing} :
        tmp' = [f \in Files |-> IF f \in gone THEN Missing ELSE tmp[f]]

\* Mutant: the error of the walk is not looked at when it ends.
MutMoveDone ==
    /\ pc \in {"mvos", "mvuser"} /\ moving = None
    /\ \A f \in Files : ~ToMove(f)
    /\ DropCatalog
    /\ Goto(IF pc = "mvos" THEN "mvuser" ELSE "eco") \/ Fail
    /\ UNCHANGED <<cur, bak, bakEnd, flash, otp, rest>>

\* The walk is over; what it missed goes with the catalog it was staged in.
MoveDone ==
    /\ pc \in {"mvos", "mvuser"} /\ moving = None
    /\ \A f \in Files : ~ToMove(f)
    /\ \/ walk = {} /\ DropCatalog /\ Goto(IF pc = "mvos" THEN "mvuser" ELSE "eco")
       \/ walk = {} /\ DropCatalog /\ Fail
       \/ walk # {} /\ UNCHANGED tmp /\ Fail
    /\ UNCHANGED <<cur, bak, bakEnd, flash, otp, rest>>

-----------------------------------------------------------------------------
(***************************************************************************)
(* ecoboot_in_package says 1 when stat() sees the file; whatever else it   *)
(* returns, the error of a stat() that failed too, is a success without a  *)
(* boot loader.  Then ecoboot_update: flash_ecoboot, verify_ecoboot,       *)
(* unlink.  Only an unlink that fails (error_eco_vfs) is forgiven: the     *)
(* errno the caller also looks at was set last by the log write of the     *)
(* function that failed, which leaves ENOSYS in it.  That write can spoil  *)
(* what was flashed (Ecoboot).                                             *)
(***************************************************************************)
EcoNone ==
    /\ pc = "eco" /\ cur[EcoFile] = Missing
    /\ Goto("save")
    /\ UNCHANGED <<media, rest>>

EcoMiss ==
    /\ pc = "eco" /\ cur[EcoFile] # Missing
    /\ Miss("eco", EcoFile)
    /\ pc' = "save"
    /\ UNCHANGED <<media, rest, idx>>

EcoFlash ==
    /\ pc = "eco" /\ cur[EcoFile] # Missing
    /\ flash' = Torn
    /\ Goto("flash")
    /\ UNCHANGED <<cur, tmp, bak, bakEnd, otp, rest>>

EcoWritten ==
    /\ pc = "flash"
    /\ flash' = cur[EcoFile]
    /\ Goto("flashed")
    /\ UNCHANGED <<cur, tmp, bak, bakEnd, otp, rest>>

\* Mutant: an ecoboot.bin that could not be flashed is forgiven.
MutEcoFail ==
    /\ pc \in {"flash", "flashed"}
    /\ Goto("save")
    /\ UNCHANGED <<media, rest>>

EcoFail ==
    /\ \/ pc = "eco" /\ cur[EcoFile] # Missing /\ UNCHANGED flash
       \/ pc \in {"flash", "flashed"} /\ flash' \in {flash, Torn}
    /\ Fail
    /\ UNCHANGED <<cur, tmp, bak, bakEnd, otp, rest>>

EcoDone ==
    /\ pc = "flashed"
    /\ \E c \in {Missing, cur[EcoFile]} : cur' = [cur EXCEPT ![EcoFile] = c]
    /\ Goto("save")
    /\ UNCHANGED <<tmp, bak, bakEnd, flash, otp, rest>>

-----------------------------------------------------------------------------
(***************************************************************************)
(* factory_reset: recursive_unlink over all of /user, its tmp included,    *)
(* with the list of extensions that a reset removes.                       *)
(***************************************************************************)
ToReset(f) ==
    /\ pc = "factory" /\ f \in DbFiles /\ cur[f] # Missing
    /\ Visited(DirOf[f]) /\ <<"installed", f>> \notin missed

StagedIn(f) == <<"tmp">> \o DirOf[f]

StagedToReset(f) ==
    /\ pc = "factory" /\ f \in DbFiles /\ tmp[f] # Missing
    /\ Visited(StagedIn(f)) /\ <<"staged", f>> \notin missed

FactoryRemove(f) ==
    /\ \/ ToReset(f) /\ cur' = [cur EXCEPT ![f] = Missing] /\ UNCHANGED tmp
       \/ StagedToReset(f) /\ tmp' = [tmp EXCEPT ![f] = Missing] /\ UNCHANGED cur
    /\ UNCHANGED <<bak, bakEnd, flash, otp, rest, pc, ram>>

FactoryError(f, dir) ==
    /\ \/ ToReset(f) /\ dir \in Prefixes(DirOf[f])
       \/ StagedToReset(f) /\ dir \in Prefixes(StagedIn(f))
    /\ ErrorIn(dir)
    /\ UNCHANGED <<media, rest>>

FactoryMiss(f) ==
    /\ \/ ToReset(f) /\ Miss("installed", f)
       \/ StagedToReset(f) /\ Miss("staged", f)
    /\ UNCHANGED <<media, rest, pc, idx>>

FactoryDone ==
    /\ pc = "factory"
    /\ \A f \in Files : ~ToReset(f) /\ ~StagedToReset(f)
    /\ \/ walk = {} /\ Goto("save")
       \/ Fail
    /\ UNCHANGED <<media, rest>>

-----------------------------------------------------------------------------
\* status_json_save: fopen truncates the file before fprintf fills it.
SaveStatus ==
    /\ pc = "save"
    /\ \/ /\ status' = [op |-> reason, result |-> result]
          /\ age' = "fresh" /\ unseen' = missed
       \/ status' = Torn /\ age' = "fresh" /\ unseen' = {}
       \/ UNCHANGED <<status, age, unseen>>
    /\ Goto("leave")
    /\ UNCHANGED <<media, pkg, lpgpr, exitc, boots, src>>

PowerDown ==
    /\ reason' = "unknown" /\ idx' = 1 /\ moving' = None
    /\ walk' = {} /\ result' = "success" /\ vfs' = "unmounted" /\ missed' = {}
    /\ UNCHANGED <<pkg, lpgpr, boots, src>>

(***************************************************************************)
(* vfs_unmount_deinit, whose result main returns, and _exit, which resets  *)
(* the system for zero and halts it for a negative code.  Unmounting what  *)
(* was not mounted is an error.                                            *)
(***************************************************************************)
Leave ==
    /\ pc = "leave"
    /\ exitc' \in (IF vfs = "mounted" THEN {0, -1} ELSE {-1})
    /\ pc' = IF exitc' >= 0 THEN "off" ELSE "halted"
    /\ PowerDown
    /\ UNCHANGED <<media, status, age, unseen>>

\* The power goes, or the processor faults.
Crash ==
    /\ ~Off
    /\ pc' = "off" /\ exitc' = None
    /\ PowerDown
    /\ IF pc = "backup" THEN TearBackup ELSE UNCHANGED media
    /\ UNCHANGED <<status, age, unseen>>

-----------------------------------------------------------------------------
Start   == Mount \/ MountFail \/ DeleteStatus
Backup  == BackupFile \/ BackupMiss \/ BackupFail \/ BackupDone
Stage   == \/ TmpFail \/ TmpReady \/ UnpackFail \/ UnpackDone
           \/ \E f \in Files : TmpRemove(f)
           \/ \E i \in DOMAIN ArchiveSeq : UnpackFile(i)
Verify  == \/ VerifyPass \/ VerifyFail \/ RecordMiss
           \/ \E f \in VerifyFiles : ChecksumMiss(f) \/ VersionMiss(f)
Fuse    == FuseSkip \/ FuseBurn \/ FuseBit \/ FuseLock \/ FuseRefuse
Move    == \/ MoveDone
           \/ \E f \in Files : MoveUnlink(f) \/ MoveRename(f) \/ MoveMiss(f)
           \/ \E f \in Files : \E dir \in Prefixes(DirOf[f]) : MoveError(f, dir)
Eco     == EcoNone \/ EcoMiss \/ EcoFlash \/ EcoWritten \/ EcoFail \/ EcoDone
Factory == \/ FactoryDone
           \/ \E f \in Files : FactoryRemove(f) \/ FactoryMiss(f)
           \/ \E f \in Files :
                 \E dir \in Prefixes(DirOf[f]) \cup Prefixes(StagedIn(f)) : FactoryError(f, dir)
Finish  == SaveStatus \/ Leave

Step == Start \/ Backup \/ Stage \/ Verify \/ Fuse \/ Move \/ Eco \/ Factory \/ Finish

Next ==
    \/ Step
    \/ Crash
    \/ \E r \in Reasons, p \in Packages : PowerOn(r, p)

Spec == Init /\ [][Next]_vars

\* The one thread of the updater keeps running while the power is on, except that
\* burn_efuse_word waits for good when the fuse controller reports an error.
FairSpec == Spec /\ WF_vars(pc # "burn" /\ Step)
-----------------------------------------------------------------------------
TypeOK ==
    /\ cur \in [Files -> Content] /\ tmp \in [Files -> Content]
    /\ pkg \in Packages /\ src \in [Files -> Content]
    /\ bak \in [Files -> Content] /\ bakEnd \in {"eof", "null", "torn"}
    /\ status \in Status \cup {Missing, Torn} /\ age \in {"fresh", "stale"}
    /\ flash \in Content /\ otp \in {"blank", "partial", "locked"}
    /\ lpgpr \in Reasons /\ reason \in Reasons
    /\ pc \in {"off", "halted", "mount", "status", "backup", "tmp", "unpack", "verify",
               "fuse", "keys", "burn", "mvos", "mvuser", "eco", "flash", "flashed",
               "factory", "save", "leave"}
    /\ idx \in 1..(Len(BackupSeq) + 1) /\ moving \in Files \cup {None}
    /\ walk \subseteq Seq(Names) /\ result \in {"success", "failure"}
    /\ vfs \in {"mounted", "unmounted"}
    /\ missed \subseteq Sights \X Files /\ unseen \subseteq Sights \X Files
    /\ exitc \in {None, 0, -1} /\ boots \in 0..MaxBoots

\* Staging goes on after unpack() and before the move of f is over.
Staged == {"verify", "fuse", "burn", "mvos", "mvuser"}

(***************************************************************************)
(* Whatever is staged once unpacking began comes from this run's archive:  *)
(* nothing a run that was cut short left in a tmp catalog is ever verified *)
(* or installed in its place.  priv_tmp.c, tmp_create_catalog.             *)
(***************************************************************************)
StagedFromThisArchive ==
    reason \in {"update", "recovery"} /\ pc \in Staged \cup {"unpack"} =>
        \A f \in Files : tmp[f] \in {src[f], Torn, Missing}

(***************************************************************************)
(* The status file tells the truth after any sequence of runs, failures    *)
(* and power cuts: when it reports a successful update or recovery, every  *)
(* file that the checksum loop reached is installed as the archive had it, *)
(* and so is the boot loader.  updater.c saves it, and removes it first so *)
(* that it cannot outlive the run it speaks of; it does when that unlink   *)
(* failed (stale).  A file is excepted when that run failed to see it: the *)
(* listing of the staged files left it out, or the stat() for the boot     *)
(* loader failed.  In these two cases the code reports what is not so.     *)
(***************************************************************************)
TruthfulStatus ==
    /\ status \in Status /\ status.result = "success" /\ age = "fresh"
    /\ status.op \in {"update", "recovery"}
    =>
        \A f \in Reached("checksum", src, unseen) : <<"staged", f>> \notin unseen =>
            IF f = EcoFile THEN flash = src[f] \/ <<"eco", f>> \in unseen ELSE cur[f] = src[f]

(***************************************************************************)
(* A success is reported only when the walk of the catalogs left nothing   *)
(* out: after an update or a recovery every file of the archive is in the  *)
(* place unpack() chose for it and the boot loader is flashed (at worst    *)
(* cut short, for what no checksum covers); after a factory reset no file  *)
(* it removes is left.  An error met below the root does not end the walk  *)
(* (dir_walker.c), so a later step could hide it.  The keys, which an      *)
(* update consumes, are apart, and so is a file that the run failed to see *)
(* (a listing, or the stat() for the boot loader).                         *)
(***************************************************************************)
NothingSkipped ==
    status \in Status /\ status.result = "success" /\ age = "fresh" =>
        /\ status.op \in {"update", "recovery"} =>
              \A f \in Files \ {KeyFile} : src[f] # Missing /\ <<"staged", f>> \notin unseen =>
                 IF f = EcoFile
                 THEN flash \in {src[f], Torn} \/ <<"eco", f>> \in unseen
                 ELSE cur[f] \in {src[f], Torn}
        /\ status.op = "factory" =>
              \A f \in DbFiles : cur[f] = Missing \/ <<"installed", f>> \in unseen

(***************************************************************************)
(* No power cut, I/O error or full disk ever puts a cut-short boot file    *)
(* into /os/current: a file that the checksum loop reached is moved only   *)
(* as the archive had it.  The loop does not reach what comes after a file *)
(* that is absent or that stat() failed to see: those are installed        *)
(* unchecked.                                                              *)
(***************************************************************************)
NoTornBootFile ==
    [][\A f \in VerifyFiles : cur[f] # Torn /\ cur'[f] = Torn =>
          f \notin Reached("checksum", src, missed)]_vars

(***************************************************************************)
(* An update replaces version.json only by one that is as new (update.c is *)
(* given allow_downgrade = false), also after runs that were cut short     *)
(* between the unlink and the rename of mv_callback: provided the version  *)
(* loop compared at least one file, and could read the installed record.   *)
(* When the archive lacks the first of verify_files, or its stat() fails,  *)
(* nothing is compared and an older release is installed.                  *)
(***************************************************************************)
NoDowngrade ==
    [][ /\ pc = "mvos" /\ reason = "update"
        /\ Reached("version", src, missed) # {} /\ <<"record", VersionFile>> \notin missed
        /\ cur[VersionFile] \in Versions /\ cur'[VersionFile] # cur[VersionFile]
        => tmp[VersionFile] \in Versions /\ tmp[VersionFile] >= cur[VersionFile] ]_vars

(***************************************************************************)
(* An update unlinks or replaces an installed file of the boot list only   *)
(* while the very content it had can be unpacked from backup.tar, unless   *)
(* that archive was already cut short or closed when the run began or the  *)
(* listing of /user, with its *.db files, was cut short unnoticed.         *)
(***************************************************************************)
BackupBeforeReplace ==
    [][\A f \in {BackupSeq[i] : i \in DOMAIN BackupSeq} :
          /\ pc \in {"mvos", "mvuser"} /\ bakEnd = "eof" /\ <<"installed", f>> \notin missed
          /\ cur[f] # Missing /\ cur'[f] # cur[f]
          => bak[f] = cur[f]]_vars

(***************************************************************************)
(* Fuses cannot be undone: an update or a recovery starts to burn them     *)
(* only with the key file of this run's archive, when every staged file    *)
(* that the checksum loop reached has the content its version.json names,  *)
(* and, for an update, when the version loop found no file older than the  *)
(* installed one.  What the loops did not reach, after an absent file or a *)
(* stat() that failed, was not looked at, and what fails after the burn    *)
(* does not undo it.  update.c:126-150.                                    *)
(***************************************************************************)
BurnOnlyVerified ==
    [][otp = "blank" /\ otp' # "blank" /\ reason # "pgm_keys" =>
          /\ tmp[KeyFile] = src[KeyFile] /\ ChecksumOk(tmp)
          /\ reason = "update" => VersionOk(tmp, cur)]_vars

(***************************************************************************)
(* What priv_tmp.h says of tmp_files_move, "recursive: from                *)
(* {catalog}/{handle_os} move to {handle os}", for one that succeeds: what *)
(* was staged is in its place when the run goes on to the boot loader.     *)
(***************************************************************************)
MovesEverything ==
    pc = "eco" => \A f \in Files \ {EcoFile, KeyFile} :
        src[f] # Missing => cur[f] \in {src[f], Torn}

(***************************************************************************)
(* A run that keeps its power ends, whatever fails in it: no error path    *)
(* of the pipeline leaves main() waiting, only the fuse controller can.    *)
(***************************************************************************)
RunEnds == ~Off ~> Off \/ pc = "burn"
=============================================================================
