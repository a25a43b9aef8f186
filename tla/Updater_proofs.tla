--------------------------- MODULE Updater_proofs ---------------------------
(***************************************************************************)
(* Proofs about Updater, for any files, contents, archives and number of   *)
(* starts that its assumptions allow.  One lemma per conjunct of IInv says *)
(* that every step preserves it, with one case per group of actions; the   *)
(* theorems at the end follow from the invariant.                          *)
(***************************************************************************)
EXTENDS UpdaterInv, SequenceTheorems, TLAPS

-----------------------------------------------------------------------------
\* What program_keys leaves of the key file is still a content.
LEMMA KeysTypes ==
    ASSUME TypeOK, KeysHandled
    PROVE  cur' \in [Files -> Content] /\ tmp' \in [Files -> Content]
BY FilesAssumption DEF TypeOK, KeysHandled, DropKeyFile, Files, Content

\* An enclosing directory of a path is a path.
LEMMA PrefixTypes ==
    ASSUME NEW s \in Seq(Names), NEW dir \in Prefixes(s)
    PROVE  dir \in Seq(Names)
<1> PICK n \in 0..Len(s) : dir = SubSeq(s, 1, n)
  BY DEF Prefixes
<1> QED
  BY SubSeqProperties

\* What unpack() finds for a place is a content.
LEMMA RoutedTypes ==
    ASSUME NEW a \in [Files -> Content] PROVE Routed(a) \in [Files -> Content]
BY FilesAssumption DEF Routed, Content

\* Every action keeps every variable in its type.
LEMMA TypeStep ==
    ASSUME TypeOK, [Next]_vars PROVE TypeOK'
<1> USE DEF TypeOK, Reasons
<1>1. CASE UNCHANGED vars
  BY <1>1 DEF vars, media, ram, rest
<1>2. ASSUME NEW r \in Reasons, NEW p \in Packages, PowerOn(r, p) PROVE TypeOK'
  BY <1>2, ContentAssumption DEF PowerOn, media, ram
<1>3. CASE Mount
  BY <1>3 DEF Mount, media, ram, rest
<1>4. CASE MountFail
  BY <1>4 DEF MountFail, media, ram, rest
<1>5. CASE DeleteStatus
  BY <1>5 DEF DeleteStatus, FirstStep, media, ram, rest
<1>6. CASE BackupFile
  BY <1>6, FilesAssumption DEF BackupFile, rest
<1>37. CASE BackupMiss
  BY <1>37, FilesAssumption DEF BackupMiss, Miss, Sights, media, rest, Files
<1>7. CASE BackupFail
  BY <1>7 DEF BackupFail, TearBackup, Fail, rest
<1>8. CASE BackupDone
  BY <1>8 DEF BackupDone, Goto, media, ram, rest
<1>9. CASE TmpFail
  BY <1>9 DEF TmpFail, Fail, media, rest
<1>10. CASE TmpReady
  <2>1. pkg \in [Files -> Content] /\ bak \in [Files -> Content]
    BY ContentAssumption
  <2>2. src' \in [Files -> Content]
    BY <1>10, <2>1, RoutedTypes DEF TmpReady
  <2> QED
    BY <1>10, <2>2 DEF TmpReady, Goto, media, ram, rest
<1>11. CASE UnpackFail
  BY <1>11 DEF UnpackFail, Fail, media, rest
<1>12. CASE UnpackDone
  BY <1>12 DEF UnpackDone, Goto, media, ram, rest
<1>13. CASE VerifyPass
  BY <1>13 DEF VerifyPass, Goto, media, ram, rest
<1>14. CASE VerifyFail
  BY <1>14 DEF VerifyFail, Fail, media, rest
<1>15. CASE FuseSkip
  BY <1>15 DEF FuseSkip, Goto, media, ram, rest
<1>16. CASE FuseBurn
  BY <1>16 DEF FuseBurn, Goto, media, ram, rest
<1>36. CASE FuseBit
  BY <1>36 DEF FuseBit, ram, rest
<1>17. CASE FuseLock
  BY <1>17, KeysTypes DEF FuseLock, Goto, ram, rest
<1>18. CASE FuseRefuse
  <2>1. CASE pc = "keys" /\ Fail
    BY <1>18, <2>1, KeysTypes DEF FuseRefuse, Fail, rest
  <2>2. CASE Goto("mvos")
    BY <1>18, <2>2, KeysTypes DEF FuseRefuse, Goto, ram, rest
  <2> QED
    BY <1>18, <2>1, <2>2 DEF FuseRefuse
<1>19. CASE MoveDone
  <2>1. tmp' \in [Files -> Content]
    BY <1>19 DEF MoveDone, DropCatalog, Content
  <2> QED
    BY <1>19, <2>1 DEF MoveDone, Fail, Goto, ram, rest
<1>20. CASE EcoNone
  BY <1>20 DEF EcoNone, Goto, media, ram, rest
<1>21. CASE EcoFlash
  BY <1>21 DEF EcoFlash, Goto, ram, rest, Content
<1>22. CASE EcoWritten
  BY <1>22, FilesAssumption DEF EcoWritten, Goto, ram, rest, Files
<1>23. CASE EcoFail
  BY <1>23 DEF EcoFail, Fail, Content, rest
<1>24. CASE EcoDone
  BY <1>24, FilesAssumption DEF EcoDone, Goto, ram, rest, Files, Content
<1>25. CASE FactoryDone
  BY <1>25 DEF FactoryDone, Fail, Goto, media, ram, rest
<1>26. CASE SaveStatus
  BY <1>26 DEF SaveStatus, Goto, Status, media, ram, rest
<1>27. CASE Leave
  BY <1>27 DEF Leave, PowerDown, media, rest
<1>28. CASE Crash
  BY <1>28 DEF Crash, PowerDown, TearBackup, media, rest
<1>29. ASSUME NEW f \in Files, TmpRemove(f) PROVE TypeOK'
  BY <1>29 DEF TmpRemove, ram, rest, Content
<1>30. ASSUME NEW f \in Files, MoveUnlink(f) PROVE TypeOK'
  BY <1>30 DEF MoveUnlink, rest, ToMove, Content
<1>31. ASSUME NEW f \in Files, MoveRename(f) PROVE TypeOK'
  <2>1. cur' \in [Files -> Content] /\ tmp' \in [Files -> Content]
    BY <1>31 DEF MoveRename, Content
  <2> QED
    BY <1>31, <2>1 DEF MoveRename, rest
<1>32. ASSUME NEW f \in Files, NEW dir \in Prefixes(DirOf[f]), MoveError(f, dir)
      PROVE  TypeOK'
  <2> dir \in Seq(Names)
    BY PrefixTypes, PathAssumption
  <2> QED
    BY <1>32 DEF MoveError, ErrorIn, media, rest
<1>38. ASSUME NEW f \in Files, MoveMiss(f) \/ FactoryMiss(f) PROVE TypeOK'
  <2>1. missed' \subseteq Sights \X Files
    BY <1>38 DEF MoveMiss, FactoryMiss, Miss, Sights
  <2>2. UNCHANGED <<media, rest, pc, idx, reason, moving, walk, result, vfs>>
    BY <1>38 DEF MoveMiss, FactoryMiss, Miss
  <2> QED
    BY <2>1, <2>2 DEF media, rest
<1>39. ASSUME NEW f \in VerifyFiles, ChecksumMiss(f) \/ VersionMiss(f) PROVE TypeOK'
  <2>1. f \in Files
    BY FilesAssumption DEF VerifyFiles, Files
  <2>2. missed' \subseteq Sights \X Files
    BY <1>39, <2>1 DEF ChecksumMiss, VersionMiss, Miss, Sights
  <2>3. UNCHANGED <<media, rest, pc, idx, reason, moving, walk, result, vfs>>
    BY <1>39 DEF ChecksumMiss, VersionMiss, Miss
  <2> QED
    BY <2>2, <2>3 DEF media, rest
<1>40. CASE RecordMiss
  BY <1>40, FilesAssumption DEF RecordMiss, Miss, Sights, media, rest, Files
<1>41. CASE EcoMiss
  BY <1>41, FilesAssumption DEF EcoMiss, Miss, Sights, media, rest, Files
<1>33. ASSUME NEW f \in Files, FactoryRemove(f) PROVE TypeOK'
  BY <1>33 DEF FactoryRemove, ram, rest, Content
<1>34. ASSUME NEW f \in Files, NEW dir \in Prefixes(DirOf[f]) \cup Prefixes(StagedIn(f)),
             FactoryError(f, dir)
      PROVE  TypeOK'
  <2>1. DirOf[f] \in Seq(Names) /\ StagedIn(f) \in Seq(Names)
    <3>1. <<"tmp">> \in Seq(Names)
      BY PathAssumption
    <3> QED
      BY <3>1, PathAssumption, ConcatProperties DEF StagedIn
  <2>2. dir \in Seq(Names)
    BY <2>1, PrefixTypes
  <2> QED
    BY <1>34, <2>2 DEF FactoryError, ErrorIn, media, rest
<1>35. ASSUME NEW i \in DOMAIN ArchiveSeq, UnpackFile(i) PROVE TypeOK'
  BY <1>35, FilesAssumption DEF UnpackFile, ToUnpack, ram, rest, Content
<1> QED
  BY <1>1, <1>2, <1>3, <1>4, <1>5, <1>6, <1>7, <1>8, <1>9, <1>10, <1>11, <1>12, <1>13,
     <1>14, <1>15, <1>16, <1>17, <1>18, <1>19, <1>20, <1>21, <1>22, <1>23, <1>24, <1>25,
     <1>26, <1>27, <1>28, <1>29, <1>30, <1>31, <1>32, <1>33, <1>34, <1>35, <1>36,
     <1>37, <1>38, <1>39, <1>40, <1>41
  DEF Next, Step, Start, Backup, Stage, Verify, Fuse, Move, Eco, Factory, Finish

-----------------------------------------------------------------------------
\* The files that a loop of the verification reaches are staged ones of verify_files.
LEMMA ReachedTypes ==
    ASSUME NEW loop, NEW a, NEW m
    PROVE  /\ Reached(loop, a, m) \subseteq VerifyFiles
           /\ VerifyFiles \subseteq OsFiles
           /\ VersionFile \notin VerifyFiles /\ KeyFile \notin VerifyFiles
           /\ VersionFile \in OsFiles /\ KeyFile \in OsFiles /\ EcoFile \in OsFiles
           /\ OsFiles \cap UserFiles = {} /\ Files = OsFiles \cup UserFiles
           /\ Missing \notin Versions /\ Torn \notin Versions /\ Missing # Torn
           /\ \A f \in Reached(loop, a, m) : a[f] # Missing
<1>1. \A j \in DOMAIN VerifySeq : VerifySeq[j] \in OsFiles /\ j \in 1..j
  BY FilesAssumption
<1>2. Reached(loop, a, m) \subseteq VerifyFiles /\ VerifyFiles \subseteq OsFiles
  BY <1>1 DEF Reached, VerifyFiles
<1>3. \A f \in Reached(loop, a, m) : a[f] # Missing
  BY <1>1 DEF Reached
<1> QED
  BY <1>2, <1>3, FilesAssumption, ContentAssumption DEF Files

\* Which files a loop reaches depends only on which are there and which it sees.
LEMMA SameReached ==
    ASSUME NEW loop, NEW a, NEW b, NEW m, NEW n,
           \A f \in Files : a[f] = Missing <=> b[f] = Missing,
           \A f \in Files : <<loop, f>> \in m <=> <<loop, f>> \in n
    PROVE  Reached(loop, a, m) = Reached(loop, b, n)
<1> DEFINE Past(f, staged, missing) == staged[f] # Missing /\ <<loop, f>> \notin missing
<1>1. ASSUME NEW j \in DOMAIN VerifySeq, NEW k \in 1..j
      PROVE  Past(VerifySeq[k], a, m) <=> Past(VerifySeq[k], b, n)
  <2>1. VerifySeq[k] \in Files
    BY FilesAssumption DEF Files
  <2> QED
    BY <2>1
<1> HIDE DEF Past
<1>2. {j \in DOMAIN VerifySeq : \A k \in 1..j : Past(VerifySeq[k], a, m)}
      = {j \in DOMAIN VerifySeq : \A k \in 1..j : Past(VerifySeq[k], b, n)}
  BY <1>1
<1> QED
  BY <1>2 DEF Reached, Past

\* A listing or the boot loader's stat() that misses a file changes nothing for the loops.
LEMMA OtherMiss ==
    ASSUME NEW sight \in {"installed", "staged", "eco"}, NEW f \in Files, Miss(sight, f)
    PROVE  /\ \A loop \in {"checksum", "version"} :
                  Reached(loop, src, missed') = Reached(loop, src, missed)
           /\ <<"record", VersionFile>> \in missed' <=> <<"record", VersionFile>> \in missed
<1>1. missed' = missed \cup {<<sight, f>>}
  BY DEF Miss
<1>2. ASSUME NEW loop \in {"checksum", "version"} PROVE
        Reached(loop, src, missed') = Reached(loop, src, missed)
  <2>1. \A g \in Files : <<loop, g>> \in missed' <=> <<loop, g>> \in missed
    BY <1>1
  <2> QED
    BY <2>1, SameReached
<1> QED
  BY <1>1, <1>2

\* How the walk of a catalog ends: well only if it left nothing but what it missed.
LEMMA MoveDoneEffect ==
    ASSUME TypeOK, MoveDone
    PROVE  /\ \A f \in Files : tmp'[f] \in {tmp[f], Missing}
           /\ \A f \in Files \ Catalog : tmp'[f] = tmp[f]
           /\ UNCHANGED <<cur, bak, bakEnd, flash, otp, rest, reason, idx, missed>>
           /\ \/ pc = "mvos" /\ pc' = "mvuser" /\ result' = result
              \/ pc = "mvuser" /\ pc' = "eco" /\ result' = result
              \/ pc' = "save" /\ result' = "failure"
           /\ pc' # "save" => \A f \in Catalog : tmp[f] = Missing \/ Lost(f)
<1> USE FilesAssumption DEF TypeOK, MoveDone, Fail, Goto, ram
<1>1. \A f \in Files :
        tmp'[f] \in {tmp[f], Missing} /\ (f \notin Catalog => tmp'[f] = tmp[f])
  BY DEF DropCatalog
<1>2. ASSUME pc' # "save", NEW f \in Catalog PROVE tmp[f] = Missing \/ Lost(f)
  <2>1. walk = {} /\ f \in Files /\ ~ToMove(f)
    BY <1>2 DEF Catalog, Files
  <2> QED
    BY <1>2, <2>1 DEF ToMove, Visited, Catalog, Lost
<1> QED
  BY <1>1, <1>2

\* Every action moves pc only along the pipeline of its operation.
LEMMA PhaseStep ==
    ASSUME TypeOK, Phase, [Next]_vars PROVE Phase'
<1> USE DEF TypeOK, Phase, Installing, Reasons, media, ram, rest
<1>1. CASE UNCHANGED vars
  BY <1>1 DEF vars
<1>2. ASSUME NEW r \in Reasons, NEW p \in Packages, PowerOn(r, p) PROVE Phase'
  BY <1>2 DEF PowerOn, Off
<1>3. CASE Crash
  BY <1>3 DEF Crash, PowerDown, TearBackup, Off
<1>4. CASE Start
  BY <1>4 DEF Start, Mount, MountFail, DeleteStatus, FirstStep, Reasons
<1>5. CASE Backup
  BY <1>5 DEF Backup, BackupFile, BackupMiss, Miss, BackupFail, BackupDone, TearBackup,
     Fail, Goto
<1>6. CASE Stage
   BY <1>6 DEF Stage, TmpFail, TmpReady, UnpackFail, UnpackDone, TmpRemove,
     UnpackFile, ToUnpack, Fail, Goto
<1>7. CASE Verify
  BY <1>7 DEF Verify, VerifyPass, VerifyFail, RecordMiss, ChecksumMiss, VersionMiss, Miss, Fail, Goto
<1>8. CASE Fuse
   BY <1>8 DEF Fuse, FuseSkip, FuseBurn, FuseBit, FuseLock, FuseRefuse, KeysHandled,
     DropKeyFile, KeyFileIsIn, Fail, Goto
<1>9. CASE Move
   BY ZenonT(40), <1>9 DEF Move, MoveDone, DropCatalog, Catalog, MoveMiss, Miss,
     MoveUnlink, MoveRename, MoveError, ToMove, Visited, ErrorIn, Fail, Goto
<1>10. CASE Eco
  BY <1>10 DEF Eco, EcoNone, EcoMiss, Miss, EcoFlash, EcoWritten, EcoFail,
     EcoDone, Fail, Goto
<1>11. CASE Factory
   BY ZenonT(40), <1>11 DEF Factory, FactoryDone, FactoryMiss, Miss, FactoryRemove, FactoryError,
     ToReset, StagedToReset, Visited, ErrorIn, Fail, Goto
<1>12. CASE Finish
  BY <1>12 DEF Finish, SaveStatus, Leave, PowerDown, Goto, Status
<1> QED
  BY <1>1, <1>2, <1>3, <1>4, <1>5, <1>6, <1>7, <1>8, <1>9, <1>10, <1>11, <1>12
  DEF Next, Step

\* src stays the archive that this run unpacks.
LEMMA ArchiveStep ==
    ASSUME TypeOK, Phase, Archive, [Next]_vars PROVE Archive'
<1> USE DEF TypeOK, Phase, Archive, Installing, Staged, Reasons, media, ram, rest
<1>1. CASE UNCHANGED vars
  BY <1>1 DEF vars
<1>2. ASSUME NEW r \in Reasons, NEW p \in Packages, PowerOn(r, p) PROVE Archive'
  BY <1>2 DEF PowerOn, Off
<1>3. CASE Crash
  BY <1>3 DEF Crash, PowerDown, TearBackup, Off
<1>4. CASE Start
  BY <1>4 DEF Start, Mount, MountFail, DeleteStatus, FirstStep, Reasons
<1>5. CASE Backup
  BY <1>5 DEF Backup, BackupFile, BackupMiss, Miss, BackupFail, BackupDone, TearBackup,
     Fail, Goto
<1>6. CASE Stage
   BY <1>6 DEF Stage, TmpFail, TmpReady, UnpackFail, UnpackDone, TmpRemove,
     UnpackFile, ToUnpack, Fail, Goto
<1>7. CASE Verify
  BY <1>7 DEF Verify, VerifyPass, VerifyFail, RecordMiss, ChecksumMiss, VersionMiss, Miss, Fail, Goto
<1>8. CASE Fuse
   BY <1>8 DEF Fuse, FuseSkip, FuseBurn, FuseBit, FuseLock, FuseRefuse, KeysHandled,
     DropKeyFile, KeyFileIsIn, Fail, Goto
<1>9. CASE Move
   BY ZenonT(40), <1>9 DEF Move, MoveDone, DropCatalog, Catalog, MoveMiss, Miss,
     MoveUnlink, MoveRename, MoveError, ToMove, Visited, ErrorIn, Fail, Goto
<1>10. CASE Eco
  BY <1>10 DEF Eco, EcoNone, EcoMiss, Miss, EcoFlash, EcoWritten, EcoFail,
     EcoDone, Fail, Goto
<1>11. CASE Factory
   BY ZenonT(40), <1>11 DEF Factory, FactoryDone, FactoryMiss, Miss, FactoryRemove, FactoryError,
     ToReset, StagedToReset, Visited, ErrorIn, Fail, Goto
<1>12. CASE Finish
  BY <1>12 DEF Finish, SaveStatus, Leave, PowerDown, Goto, Status
<1> QED
  BY <1>1, <1>2, <1>3, <1>4, <1>5, <1>6, <1>7, <1>8, <1>9, <1>10, <1>11, <1>12
  DEF Next, Step

\* What is staged stays a part of src, and is all of it once unpack() is over.
LEMMA UnpackedStep ==
    ASSUME TypeOK, Phase, Unpacked, [Next]_vars PROVE Unpacked'
<1> USE ContentAssumption, FilesAssumption DEF TypeOK, Phase, Unpacked,
   Installing, Staged, media, ram, rest
<1>1. CASE UNCHANGED vars
  BY <1>1 DEF vars
<1>2. ASSUME NEW r \in Reasons, NEW p \in Packages, PowerOn(r, p) PROVE Unpacked'
  BY <1>2 DEF PowerOn, Off
<1>3. CASE Crash
  BY <1>3 DEF Crash, PowerDown, TearBackup, Off
<1>4. CASE Start
  BY <1>4 DEF Start, Mount, MountFail, DeleteStatus, FirstStep, Reasons
<1>5. CASE Backup
  BY <1>5 DEF Backup, BackupFile, BackupMiss, Miss, BackupFail, BackupDone, TearBackup,
     Fail, Goto
<1>6. CASE Stage
   BY ZenonT(40), <1>6 DEF Stage, TmpFail, TmpReady, UnpackFail, UnpackDone, TmpRemove,
     UnpackFile, ToUnpack, Fail, Goto
<1>7. CASE Verify
  BY <1>7 DEF Verify, VerifyPass, VerifyFail, RecordMiss, ChecksumMiss, VersionMiss, Miss, Fail, Goto
<1>8. CASE Fuse
   BY ZenonT(40), <1>8 DEF Fuse, FuseSkip, FuseBurn, FuseBit, FuseLock, FuseRefuse, KeysHandled,
     DropKeyFile, KeyFileIsIn, Fail, Goto
<1>9. CASE Move
  <2>1. CASE MoveDone
    BY <2>1, MoveDoneEffect DEF Catalog, Lost
  <2>2. CASE ~MoveDone
    BY ZenonT(40), <1>9, <2>2 DEF Move, MoveMiss, Miss, MoveUnlink, MoveRename, MoveError, ToMove,
       Visited, ErrorIn, Lost
  <2> QED
    BY <2>1, <2>2
<1>10. CASE Eco
  BY <1>10 DEF Eco, EcoNone, EcoMiss, Miss, EcoFlash, EcoWritten, EcoFail,
     EcoDone, Fail, Goto
<1>11. CASE Factory
   BY <1>11 DEF Factory, FactoryDone, FactoryMiss, Miss, FactoryRemove, FactoryError,
     ToReset, StagedToReset, Visited, ErrorIn, Fail, Goto
<1>12. CASE Finish
  BY <1>12 DEF Finish, SaveStatus, Leave, PowerDown, Goto, Status
<1> QED
  BY <1>1, <1>2, <1>3, <1>4, <1>5, <1>6, <1>7, <1>8, <1>9, <1>10, <1>11, <1>12
  DEF Next, Step

\* The steps of tmp_files_move take each staged file to its place.
LEMMA MovedByMove ==
    ASSUME TypeOK, Phase, Unpacked, Moved, Move PROVE Moved'
<1> USE FilesAssumption, ContentAssumption
    DEF TypeOK, Phase, Moved, InPlace, Flashed, Lost, Installing, media, ram, rest
<1>1. CASE MoveDone
  BY <1>1, MoveDoneEffect DEF Catalog, Files
<1>2. ASSUME NEW f \in Files, MoveUnlink(f) PROVE Moved'
  BY <1>2 DEF MoveUnlink, ToMove
<1>3. ASSUME NEW f \in Files, MoveRename(f) PROVE Moved'
  BY <1>3 DEF MoveRename, ToMove, Unpacked, Staged
<1>4. ASSUME NEW f \in Files, NEW dir \in Prefixes(DirOf[f]), MoveError(f, dir)
      PROVE  Moved'
  BY <1>4 DEF MoveError, ToMove, ErrorIn, Fail
<1>5. ASSUME NEW f \in Files, MoveMiss(f) PROVE Moved'
  BY <1>5 DEF MoveMiss, Miss
<1> QED
  BY <1>1, <1>2, <1>3, <1>4, <1>5 DEF Move

\* No other step takes a file out of the place it was moved to.
LEMMA MovedStep ==
    ASSUME TypeOK, Phase, Unpacked, Moved, [Next]_vars PROVE Moved'
<1> USE ContentAssumption, FilesAssumption DEF TypeOK, Phase, Unpacked, Moved,
   InPlace, Flashed, Lost, Installing, Staged, media, ram, rest
<1>1. CASE UNCHANGED vars
  BY <1>1 DEF vars
<1>2. ASSUME NEW r \in Reasons, NEW p \in Packages, PowerOn(r, p) PROVE Moved'
  BY <1>2 DEF PowerOn, Off
<1>3. CASE Crash
  BY <1>3 DEF Crash, PowerDown, TearBackup, Off
<1>4. CASE Start
  BY <1>4 DEF Start, Mount, MountFail, DeleteStatus, FirstStep, Reasons
<1>5. CASE Backup
  BY <1>5 DEF Backup, BackupFile, BackupMiss, Miss, BackupFail, BackupDone, TearBackup,
     Fail, Goto
<1>6. CASE Stage
   BY <1>6 DEF Stage, TmpFail, TmpReady, UnpackFail, UnpackDone, TmpRemove,
     UnpackFile, ToUnpack, Fail, Goto
<1>7. CASE Verify
  BY <1>7 DEF Verify, VerifyPass, VerifyFail, RecordMiss, ChecksumMiss, VersionMiss, Miss, Fail, Goto
<1>8. CASE Fuse
   BY ZenonT(40), <1>8 DEF Fuse, FuseSkip, FuseBurn, FuseBit, FuseLock, FuseRefuse, KeysHandled,
     DropKeyFile, KeyFileIsIn, Fail, Goto
<1>9. CASE Move
  BY <1>9, MovedByMove
<1>10. CASE Eco
  BY <1>10 DEF Eco, EcoNone, EcoMiss, Miss, EcoFlash, EcoWritten, EcoFail,
     EcoDone, Fail, Goto
<1>11. CASE Factory
   BY <1>11 DEF Factory, FactoryDone, FactoryMiss, Miss, FactoryRemove, FactoryError,
     ToReset, StagedToReset, Visited, ErrorIn, Fail, Goto
<1>12. CASE Finish
  BY <1>12 DEF Finish, SaveStatus, Leave, PowerDown, Goto, Status
<1> QED
  BY <1>1, <1>2, <1>3, <1>4, <1>5, <1>6, <1>7, <1>8, <1>9, <1>10, <1>11, <1>12
  DEF Next, Step

\* A file that passed checksum_verify has the content the archive has.
LEMMA VerifiedByVerify ==
    ASSUME TypeOK, Phase, Unpacked, Verified, Verify PROVE Verified'
<1> USE ContentAssumption DEF TypeOK, Phase, media, ram, rest
<1>1. CASE VerifyPass
  <2>1. /\ Installing /\ Installing' /\ pc' = "fuse"
        /\ UNCHANGED <<tmp, src, cur, flash, missed>>
    BY <1>1 DEF VerifyPass, Goto, Installing
  <2>2. \A f \in Files : src[f] = Missing <=> tmp[f] = Missing
    BY <1>1, <2>1 DEF VerifyPass, Unpacked, Staged
  <2>3. ASSUME NEW f \in Reached("checksum", src, missed) PROVE Intact(f) /\ tmp[f] = src[f]
    <3>1. f \in Reached("checksum", tmp, missed) /\ f \in Files
      BY <2>2, <2>3, SameReached, ReachedTypes
    <3>2. tmp[f] \in Versions
      BY <1>1, <3>1 DEF VerifyPass, ChecksumOk
    <3> QED
      BY <1>1, <2>1, <3>1, <3>2 DEF VerifyPass, Unpacked, Staged, Intact
  <2> QED
    BY <2>1, <2>3 DEF Verified, Intact
<1>2. CASE VerifyFail
  BY <1>2 DEF VerifyFail, Fail, Verified, Installing
<1>3. CASE RecordMiss \/ \E f \in VerifyFiles : ChecksumMiss(f) \/ VersionMiss(f)
  BY <1>3 DEF RecordMiss, ChecksumMiss, VersionMiss, Verified
<1> QED
  BY <1>1, <1>2, <1>3 DEF Verify

\* A move changes nothing of what the loops of the verification reached.
LEMMA ReachedByMove ==
    ASSUME Move
    PROVE  /\ \A loop \in {"checksum", "version"} :
                  Reached(loop, src, missed)' = Reached(loop, src, missed)
           /\ <<"record", VersionFile>> \in missed' <=> <<"record", VersionFile>> \in missed
<1>1. src' = src
  BY DEF Move, MoveDone, MoveMiss, MoveUnlink, MoveRename, MoveError, rest
<1>2. CASE missed' = missed
  BY <1>1, <1>2
<1>3. CASE \E f \in Files : Miss("staged", f)
  BY <1>1, <1>3, OtherMiss
<1> QED
  BY <1>2, <1>3 DEF Move, MoveDone, MoveMiss, MoveUnlink, MoveRename, MoveError, ErrorIn, Fail,
     Goto, ram

\* A move takes a file that was verified to its place as it is.
LEMMA VerifiedByMove ==
    ASSUME TypeOK, Phase, Verified, Move PROVE Verified'
<1> USE DEF TypeOK, media, ram, rest
<1>1. /\ src' = src /\ flash' = flash /\ reason' = reason
      /\ pc \in {"mvos", "mvuser"} /\ Installing
      /\ pc' \in {"mvos", "mvuser", "eco", "save"}
  BY DEF Move, MoveDone, MoveMiss, Miss, MoveUnlink, MoveRename, MoveError, ToMove,
     ErrorIn, Fail, Goto, Phase
<1>8. Reached("checksum", src, missed)' = Reached("checksum", src, missed)
  BY <1>1, ReachedByMove
<1> SUFFICES ASSUME NEW f \in Reached("checksum", src, missed),
                    Intact(f), f \in OsFiles, f \in Files,
                    pc = "mvos" => tmp[f] = src[f] \/ (tmp[f] = Missing /\ cur[f] = src[f]),
                    pc = "mvuser" => cur[f] = src[f] \/ Lost(f)
             PROVE  /\ pc' = "mvos" =>
                         tmp'[f] = src[f] \/ (tmp'[f] = Missing /\ cur'[f] = src[f])
                    /\ pc' \in {"mvuser", "eco"} => cur'[f] = src[f] \/ Lost(f)'
                    /\ ~(pc' = "save" /\ result' = "success")
  BY <1>1, <1>8, ReachedTypes DEF Verified, Intact
<1>2. src[f] # Missing /\ f \notin UserFiles
  BY ReachedTypes DEF Intact
<1>3. CASE MoveDone
  BY <1>1, <1>2, <1>3, MoveDoneEffect DEF Catalog, Lost
<1>4. CASE \E g \in Files : MoveUnlink(g)
  BY <1>1, <1>2, <1>4 DEF MoveUnlink, ToMove, Lost, Phase
<1>5. CASE \E g \in Files : MoveRename(g)
  BY <1>1, <1>2, <1>5 DEF MoveRename, ToMove, Lost, Phase
<1>6. CASE \E g \in Files : MoveMiss(g)
  BY <1>1, <1>2, <1>6 DEF MoveMiss, ToMove, Miss, Lost, Phase
<1>7. CASE \E g \in Files : \E dir \in Prefixes(DirOf[g]) : MoveError(g, dir)
  BY <1>1, <1>2, <1>7 DEF MoveError, ErrorIn, ToMove, Lost, Phase
<1> QED
  BY <1>3, <1>4, <1>5, <1>6, <1>7 DEF Move

\* Flashing the boot loader, or not seeing it, leaves what was verified.
LEMMA VerifiedByEco ==
    ASSUME TypeOK, Phase, Verified, Eco PROVE Verified'
<1> USE ContentAssumption DEF TypeOK, Phase, media, ram, rest
<1>1. src' = src /\ reason' = reason /\ tmp' = tmp /\ Installing /\ pc \in {"eco", "flash", "flashed"}
  BY DEF Eco, EcoNone, EcoMiss, Miss, EcoFlash, EcoWritten, EcoFail, EcoDone, Fail, Goto
<1>2. Reached("checksum", src, missed)' = Reached("checksum", src, missed)
  <2>1. missed' = missed \/ (Miss("eco", EcoFile) /\ EcoFile \in Files)
    BY FilesAssumption DEF Eco, EcoNone, EcoMiss, EcoFlash, EcoWritten, EcoFail, EcoDone, Fail,
       Goto, Files
  <2> QED
    BY <1>1, <2>1, OtherMiss
<1>3. pc' \in {"flash", "flashed", "save"}
  BY DEF Eco, EcoNone, EcoMiss, Miss, EcoFlash, EcoWritten, EcoFail, EcoDone, Fail, Goto
<1> SUFFICES ASSUME NEW f \in Reached("checksum", src, missed), Intact(f), f \in Files,
                    cur[f] = src[f] \/ Lost(f),
                    pc = "flashed" /\ f = EcoFile => flash = src[f] \/ Lost(f)
             PROVE  /\ pc' # "save" => cur'[f] = src[f] \/ Lost(f)'
                    /\ pc' = "flashed" /\ f = EcoFile => flash' = src[f] \/ Lost(f)'
                    /\ pc' = "save" /\ result' = "success" =>
                         (IF f = EcoFile THEN Flashed({src[f]})' ELSE cur'[f] = src[f]) \/ Lost(f)'
  BY <1>1, <1>2, <1>3, ReachedTypes DEF Verified, Intact
<1> USE DEF Intact, Lost, Flashed
<1>4. CASE EcoNone
  BY <1>4 DEF EcoNone, Goto
<1>5. CASE EcoMiss
  BY <1>5 DEF EcoMiss, Miss
<1>6. CASE EcoFlash \/ EcoWritten
  BY <1>6 DEF EcoFlash, EcoWritten, Goto
<1>7. CASE EcoFail
  BY <1>7 DEF EcoFail, Fail
<1>8. CASE EcoDone
  BY <1>8 DEF EcoDone, Goto
<1> QED
  BY <1>4, <1>5, <1>6, <1>7, <1>8 DEF Eco

\* What was verified keeps that content until the status is saved.
LEMMA VerifiedStep ==
    ASSUME TypeOK, Phase, Unpacked, Verified, [Next]_vars PROVE Verified'
<1> DEFINE R == Reached("checksum", src, missed)
<1>13. \A f \in R : f \in Files /\ f # KeyFile
  BY ReachedTypes
<1> USE <1>13, ContentAssumption DEF TypeOK, Phase, Unpacked, Verified, Intact, Flashed, Lost, Installing,
   Staged, Content, media, ram, rest
<1>1. CASE UNCHANGED vars
  BY <1>1 DEF vars
<1>2. ASSUME NEW r \in Reasons, NEW p \in Packages, PowerOn(r, p) PROVE Verified'
  BY <1>2 DEF PowerOn, Off
<1>3. CASE Crash
  BY <1>3 DEF Crash, PowerDown, TearBackup, Off
<1>4. CASE Start
  BY <1>4 DEF Start, Mount, MountFail, DeleteStatus, FirstStep, Reasons
<1>5. CASE Backup
  BY <1>5 DEF Backup, BackupFile, BackupMiss, Miss, BackupFail, BackupDone, TearBackup,
     Fail, Goto
<1>6. CASE Stage
   BY <1>6 DEF Stage, TmpFail, TmpReady, UnpackFail, UnpackDone, TmpRemove,
     UnpackFile, ToUnpack, Fail, Goto
<1>7. CASE Verify
  BY <1>7, VerifiedByVerify
<1>8. CASE Fuse
  <2>1. /\ UNCHANGED <<src, missed, reason, flash>> /\ pc' # "verify"
        /\ \A f \in Files \ {KeyFile} : tmp'[f] = tmp[f] /\ cur'[f] = cur[f]
    BY <1>8 DEF Fuse, FuseSkip, FuseBurn, FuseBit, FuseLock, FuseRefuse, KeysHandled,
       DropKeyFile, KeyFileIsIn, Fail, Goto
  <2>2. Installing => pc \in {"fuse", "burn"} /\ pc' \in {"burn", "mvos"}
    BY <1>8 DEF Fuse, FuseSkip, FuseBurn, FuseBit, FuseLock, FuseRefuse, Fail, Goto
  <2> QED
    BY <2>1, <2>2
<1>9. CASE Move
  BY <1>9, VerifiedByMove
<1>10. CASE Eco
  BY <1>10, VerifiedByEco
<1>11. CASE Factory
   BY <1>11 DEF Factory, FactoryDone, FactoryMiss, Miss, FactoryRemove, FactoryError,
     ToReset, StagedToReset, Visited, ErrorIn, Fail, Goto
<1>12. CASE Finish
  BY <1>12 DEF Finish, SaveStatus, Leave, PowerDown, Goto, Status
<1> QED
  BY <1>1, <1>2, <1>3, <1>4, <1>5, <1>6, <1>7, <1>8, <1>9, <1>10, <1>11, <1>12
  DEF Next, Step

\* The append of one file makes a copy of it that can be unpacked.
LEMMA BackedUpByBackupFile ==
    ASSUME TypeOK, Phase, BackedUp, BackupFile PROVE BackedUp'
<1> DEFINE g == BackupSeq[idx]
<1> USE DEF TypeOK, Phase, BackedUp
<1>1. /\ pc = "backup" /\ idx \in DOMAIN BackupSeq /\ idx' = idx + 1 /\ g \in Files
      /\ UNCHANGED <<pc, cur, tmp, reason, bakEnd, missed>>
  BY FilesAssumption DEF BackupFile
<1>2. ASSUME reason = "update", bakEnd = "eof", NEW j \in DOMAIN BackupSeq, j < idx + 1,
             <<"installed", BackupSeq[j]>> \notin missed
      PROVE  cur[BackupSeq[j]] \in {Missing, bak'[BackupSeq[j]]}
  <2>1. BackupSeq[j] \in Files /\ (BackupSeq[j] = g \/ j < idx)
    BY SMTT(30), <1>1, <1>2, FilesAssumption
  <2>2. CASE cur[g] = Missing
    BY <1>1, <1>2, <2>1, <2>2 DEF BackupFile
  <2>3. CASE cur[g] # Missing
    <3>1. bak' = [bak EXCEPT ![g] = cur[g]]
      BY <1>2, <2>3 DEF BackupFile
    <3>2. CASE BackupSeq[j] = g
      BY <3>1, <3>2, <2>1
    <3>3. CASE BackupSeq[j] # g
      BY <1>1, <1>2, <2>1, <3>1, <3>3
    <3> QED
      BY <3>2, <3>3
  <2> QED
    BY <2>2, <2>3
<1> QED
  BY <1>1, <1>2

\* The copies made so far survive the rest of the backup.
LEMMA BackedUpByBackup ==
    ASSUME TypeOK, Phase, BackedUp, Backup PROVE BackedUp'
<1> USE FilesAssumption DEF TypeOK, Phase, BackedUp, media, ram, rest
<1>1. CASE BackupFail
  BY <1>1 DEF BackupFail, TearBackup, Fail
<1>2. CASE BackupDone
  BY <1>2 DEF BackupDone, Goto
<1>3. CASE BackupMiss
  <2>1. /\ pc = "backup" /\ idx \in DOMAIN BackupSeq /\ idx' = idx + 1
        /\ missed' = missed \cup {<<"installed", BackupSeq[idx]>>}
        /\ UNCHANGED <<pc, cur, tmp, bak, bakEnd, reason>>
    BY <1>3 DEF BackupMiss, Miss
  <2>2. ASSUME NEW j \in DOMAIN BackupSeq, j < idx + 1,
               <<"installed", BackupSeq[j]>> \notin missed'
        PROVE  j < idx /\ <<"installed", BackupSeq[j]>> \notin missed
    BY <2>1, <2>2
  <2> QED
    BY <2>1, <2>2
<1> QED
  BY <1>1, <1>2, <1>3, BackedUpByBackupFile DEF Backup

\* A move replaces only the file it moves.
LEMMA BackedUpByMove ==
    ASSUME TypeOK, Phase, Archive, BackedUp, Move PROVE BackedUp'
<1> USE ContentAssumption, FilesAssumption
    DEF TypeOK, Phase, Archive, BackedUp, media, ram, rest
<1>1. CASE MoveDone
  <2>1. \A j \in DOMAIN BackupSeq : BackupSeq[j] \in Files
    OBVIOUS
  <2> QED
    BY <1>1, <2>1, MoveDoneEffect
<1>2. ASSUME NEW f \in Files, MoveUnlink(f) PROVE BackedUp'
  BY <1>2 DEF MoveUnlink, ToMove
<1>3. ASSUME NEW f \in Files, MoveRename(f) PROVE BackedUp'
  BY <1>3 DEF MoveRename, ToMove
<1>4. ASSUME NEW f \in Files, NEW dir \in Prefixes(DirOf[f]), MoveError(f, dir)
      PROVE  BackedUp'
  BY <1>4 DEF MoveError, ToMove, ErrorIn, Fail
<1>5. ASSUME NEW f \in Files, MoveMiss(f) PROVE BackedUp'
  BY <1>5 DEF MoveMiss, Miss
<1> QED
  BY <1>1, <1>2, <1>3, <1>4, <1>5 DEF Move

\* The copies stay equal to what is installed until it is replaced.
LEMMA BackedUpStep ==
    ASSUME TypeOK, Phase, Archive, BackedUp, [Next]_vars PROVE BackedUp'
<1> USE ContentAssumption, FilesAssumption DEF TypeOK, Phase, Archive, BackedUp,
   Staged, media, ram, rest
<1>1. CASE UNCHANGED vars
  BY <1>1 DEF vars
<1>2. ASSUME NEW r \in Reasons, NEW p \in Packages, PowerOn(r, p) PROVE BackedUp'
  BY <1>2 DEF PowerOn, Off
<1>3. CASE Crash
  BY <1>3 DEF Crash, PowerDown, TearBackup, Off
<1>4. CASE Start
  BY SMTT(30), <1>4 DEF Start, Mount, MountFail, DeleteStatus, FirstStep, Reasons
<1>5. CASE Backup
  BY <1>5, BackedUpByBackup
<1>6. CASE Stage
   BY <1>6 DEF Stage, TmpFail, TmpReady, UnpackFail, UnpackDone, TmpRemove,
     UnpackFile, ToUnpack, Fail, Goto
<1>7. CASE Verify
  BY <1>7 DEF Verify, VerifyPass, VerifyFail, RecordMiss, ChecksumMiss, VersionMiss, Miss, Fail, Goto
<1>8. CASE Fuse
   BY <1>8 DEF Fuse, FuseSkip, FuseBurn, FuseBit, FuseLock, FuseRefuse, KeysHandled,
     DropKeyFile, KeyFileIsIn, Fail, Goto
<1>9. CASE Move
  BY <1>9, BackedUpByMove
<1>10. CASE Eco
  BY <1>10 DEF Eco, EcoNone, EcoMiss, Miss, EcoFlash, EcoWritten, EcoFail,
     EcoDone, Fail, Goto
<1>11. CASE Factory
   BY <1>11 DEF Factory, FactoryDone, FactoryMiss, Miss, FactoryRemove, FactoryError,
     ToReset, StagedToReset, Visited, ErrorIn, Fail, Goto
<1>12. CASE Finish
  BY <1>12 DEF Finish, SaveStatus, Leave, PowerDown, Goto, Status
<1> QED
  BY <1>1, <1>2, <1>3, <1>4, <1>5, <1>6, <1>7, <1>8, <1>9, <1>10, <1>11, <1>12
  DEF Next, Step

\* factory_reset ends without an error only when nothing to remove is left.
LEMMA ReportedByFactory ==
    ASSUME TypeOK, Phase, Reported, Factory PROVE Reported'
<1> USE ContentAssumption, FilesAssumption DEF TypeOK, Phase, Reported, media,
   ram, rest
<1>1. CASE FactoryDone
  BY <1>1 DEF FactoryDone, ToReset, Visited, Fail, Goto, Files
<1>2. ASSUME NEW f \in Files, FactoryRemove(f) PROVE Reported'
  BY <1>2 DEF FactoryRemove, ToReset, StagedToReset
<1>3. ASSUME NEW f \in Files, NEW dir \in Prefixes(DirOf[f]) \cup Prefixes(StagedIn(f)),
             FactoryError(f, dir)
      PROVE  Reported'
  BY <1>3 DEF FactoryError, ToReset, StagedToReset, ErrorIn, Fail
<1>4. ASSUME NEW f \in Files, FactoryMiss(f) PROVE Reported'
  BY <1>4 DEF FactoryMiss, ToReset, StagedToReset, Miss
<1> QED
  BY <1>1, <1>2, <1>3, <1>4 DEF Factory

\* A status file of this run is there only after the run saved it.
LEMMA ReportedStep ==
    ASSUME TypeOK, Phase, Reported, [Next]_vars PROVE Reported'
<1> USE ContentAssumption DEF TypeOK, Phase, Reported, Reasons, Installing,
   media, ram, rest
<1>1. CASE UNCHANGED vars
  BY <1>1 DEF vars
<1>2. ASSUME NEW r \in Reasons, NEW p \in Packages, PowerOn(r, p) PROVE Reported'
  BY <1>2 DEF PowerOn, Off
<1>3. CASE Crash
  BY <1>3 DEF Crash, PowerDown, TearBackup, Off
<1>4. CASE Start
  BY <1>4 DEF Start, Mount, MountFail, DeleteStatus, FirstStep, Reasons
<1>5. CASE Backup
  BY <1>5 DEF Backup, BackupFile, BackupMiss, Miss, BackupFail, BackupDone, TearBackup,
     Fail, Goto
<1>6. CASE Stage
   BY <1>6 DEF Stage, TmpFail, TmpReady, UnpackFail, UnpackDone, TmpRemove,
     UnpackFile, ToUnpack, Fail, Goto
<1>7. CASE Verify
  BY <1>7 DEF Verify, VerifyPass, VerifyFail, RecordMiss, ChecksumMiss, VersionMiss, Miss, Fail, Goto
<1>8. CASE Fuse
   BY <1>8 DEF Fuse, FuseSkip, FuseBurn, FuseBit, FuseLock, FuseRefuse, KeysHandled,
     DropKeyFile, KeyFileIsIn, Fail, Goto
<1>9. CASE Move
   BY ZenonT(40), <1>9 DEF Move, MoveDone, DropCatalog, Catalog, MoveMiss, Miss,
     MoveUnlink, MoveRename, MoveError, ToMove, Visited, ErrorIn, Fail, Goto
<1>10. CASE Eco
  BY <1>10 DEF Eco, EcoNone, EcoMiss, Miss, EcoFlash, EcoWritten, EcoFail,
     EcoDone, Fail, Goto
<1>11. CASE Factory
  BY <1>11, ReportedByFactory
<1>12. CASE Finish
  BY <1>12 DEF Finish, SaveStatus, Leave, PowerDown, Goto, Status
<1> QED
  BY <1>1, <1>2, <1>3, <1>4, <1>5, <1>6, <1>7, <1>8, <1>9, <1>10, <1>11, <1>12
  DEF Next, Step

\* version_check lets pass only a version.json that is as new as the installed one.
LEMMA NotOlderByVerify ==
    ASSUME TypeOK, Phase, Unpacked, NotOlder, Verify PROVE NotOlder'
<1> USE ContentAssumption DEF TypeOK, Phase, media, ram, rest
<1>1. CASE VerifyPass
  <2>1. /\ Installing /\ Installing' /\ pc' = "fuse"
        /\ UNCHANGED <<tmp, src, cur, reason, missed>>
    BY <1>1 DEF VerifyPass, Goto, Installing
  <2>2. Reached("version", src, missed) = Reached("version", tmp, missed)
    BY <1>1, <2>1, SameReached DEF VerifyPass, Unpacked, Staged
  <2>3. ChecksumOk(tmp)'
    BY <1>1, <2>1 DEF VerifyPass, ChecksumOk
  <2>4. reason = "update" => VersionOk(tmp, cur)
    BY <1>1 DEF VerifyPass
  <2>5. reason = "update" => VersionOk(tmp, cur)'
    BY <2>1, <2>4 DEF VersionOk
  <2> QED
    BY <2>1, <2>2, <2>3, <2>4, <2>5 DEF NotOlder, VersionOk
<1>2. CASE VerifyFail
  BY <1>2 DEF VerifyFail, Fail, NotOlder
<1>3. CASE RecordMiss \/ \E f \in VerifyFiles : ChecksumMiss(f) \/ VersionMiss(f)
  BY <1>3 DEF RecordMiss, ChecksumMiss, VersionMiss, NotOlder
<1> QED
  BY <1>1, <1>2, <1>3 DEF Verify

\* Programming the fuses changes neither of the two version.json files.
LEMMA NotOlderByFuse ==
    ASSUME TypeOK, Phase, NotOlder, Fuse PROVE NotOlder'
<1>1. /\ src' = src /\ reason' = reason /\ missed' = missed /\ pc' # "fuse"
      /\ cur'[VersionFile] = cur[VersionFile] /\ tmp'[VersionFile] = tmp[VersionFile]
   BY FilesAssumption DEF TypeOK, Fuse, FuseSkip, FuseBurn, FuseBit, FuseLock,
     FuseRefuse, KeysHandled,
     DropKeyFile, Fail, Goto, Files, media, ram, rest
<1>2. Reached("version", src, missed)' = Reached("version", src, missed)
  BY <1>1
<1>3. pc' \in {"burn", "mvos"} /\ reason \in {"update", "recovery"} => pc \in {"fuse", "burn"}
  BY DEF Fuse, FuseSkip, FuseBurn, FuseBit, FuseLock, FuseRefuse, Fail, Goto, Phase, ram, Installing
<1>4. pc' = "burn" /\ Installing =>
        tmp' = tmp /\ cur' = cur /\ tmp[KeyFile] \in Versions /\ pc \in {"fuse", "burn"}
  BY <1>3 DEF Fuse, FuseSkip, FuseBurn, FuseBit, FuseLock, FuseRefuse, KeyFileIsIn, Fail, Goto,
     Phase, media, ram, Installing, NotOlder
<1>5. pc' = "burn" /\ Installing => ChecksumOk(tmp)'
  BY <1>1, <1>4 DEF NotOlder, ChecksumOk
<1>6. pc' = "burn" /\ reason = "update" => VersionOk(tmp, cur)'
  BY <1>1, <1>4 DEF NotOlder, VersionOk, Installing
<1> QED
  BY <1>1, <1>2, <1>3, <1>4, <1>5, <1>6 DEF NotOlder, Installing

\* Neither does a move, before that of version.json itself.
LEMMA NotOlderByMove ==
    ASSUME TypeOK, NotOlder, Move PROVE NotOlder'
<1> USE ContentAssumption, FilesAssumption DEF TypeOK, NotOlder, media, ram, rest
<1>1. /\ Reached("version", src, missed)' = Reached("version", src, missed)
      /\ <<"record", VersionFile>> \in missed' <=> <<"record", VersionFile>> \in missed
  BY ReachedByMove
<1>7. pc' \notin {"fuse", "burn"} /\ pc # "fuse" /\ pc # "burn"
   BY ZenonT(40) DEF Move, MoveDone, MoveMiss, Miss,
     DropCatalog, Catalog, MoveUnlink, MoveRename, MoveError, ToMove,
     ErrorIn,
     Fail, Goto
<1>2. CASE MoveDone
  BY <1>1, <1>7, <1>2, MoveDoneEffect
<1>3. ASSUME NEW f \in Files, MoveUnlink(f) PROVE NotOlder'
  BY <1>1, <1>7, <1>3 DEF MoveUnlink, ToMove
<1>4. ASSUME NEW f \in Files, MoveRename(f) PROVE NotOlder'
  BY <1>1, <1>7, <1>4 DEF MoveRename, ToMove
<1>5. ASSUME NEW f \in Files, NEW dir \in Prefixes(DirOf[f]), MoveError(f, dir)
      PROVE  NotOlder'
  BY <1>1, <1>7, <1>5 DEF MoveError, ToMove, ErrorIn, Fail
<1>6. ASSUME NEW f \in Files, MoveMiss(f) PROVE NotOlder'
  BY <1>1, <1>7, <1>6 DEF MoveMiss, Miss, ToMove
<1> QED
  BY <1>2, <1>3, <1>4, <1>5, <1>6 DEF Move

\* The result of version_check holds until version.json is moved.
LEMMA NotOlderStep ==
    ASSUME TypeOK, Phase, Unpacked, NotOlder, [Next]_vars PROVE NotOlder'
<1> USE ContentAssumption, FilesAssumption DEF TypeOK, Phase, Unpacked,
   NotOlder, Installing, Staged, Content, media, ram, rest
<1>1. CASE UNCHANGED vars
  BY <1>1 DEF vars, ChecksumOk, VersionOk
<1>2. ASSUME NEW r \in Reasons, NEW p \in Packages, PowerOn(r, p) PROVE NotOlder'
  BY <1>2 DEF PowerOn, Off
<1>3. CASE Crash
  BY <1>3 DEF Crash, PowerDown, TearBackup, Off
<1>4. CASE Start
  BY <1>4 DEF Start, Mount, MountFail, DeleteStatus, FirstStep, Reasons
<1>5. CASE Backup
  BY <1>5 DEF Backup, BackupFile, BackupMiss, Miss, BackupFail, BackupDone, TearBackup,
     Fail, Goto
<1>6. CASE Stage
   BY <1>6 DEF Stage, TmpFail, TmpReady, UnpackFail, UnpackDone, TmpRemove,
     UnpackFile, ToUnpack, Fail, Goto
<1>7. CASE Verify
  BY <1>7, NotOlderByVerify
<1>8. CASE Fuse
  BY <1>8, NotOlderByFuse
<1>9. CASE Move
  BY <1>9, NotOlderByMove
<1>10. CASE Eco
  BY <1>10 DEF Eco, EcoNone, EcoMiss, Miss, EcoFlash, EcoWritten, EcoFail,
     EcoDone, Fail, Goto
<1>11. CASE Factory
   BY ZenonT(40), <1>11 DEF Factory, FactoryDone, FactoryMiss, Miss, FactoryRemove, FactoryError,
     ToReset, StagedToReset, Visited, ErrorIn, Fail, Goto
<1>12. CASE Finish
  BY <1>12 DEF Finish, SaveStatus, Leave, PowerDown, Goto, Status
<1> QED
  BY <1>1, <1>2, <1>3, <1>4, <1>5, <1>6, <1>7, <1>8, <1>9, <1>10, <1>11, <1>12
  DEF Next, Step

\* Every action keeps the status file true of what was verified.
LEMMA TruthfulStep ==
    ASSUME TypeOK, Phase, Reported, Verified, TruthfulStatus, [Next]_vars PROVE TruthfulStatus'
<1> USE ContentAssumption DEF TypeOK, Phase, Reported, TruthfulStatus, Verified,
   Installing, Reasons, media, ram, rest
<1>1. CASE UNCHANGED vars
  BY <1>1 DEF vars
<1>2. ASSUME NEW r \in Reasons, NEW p \in Packages, PowerOn(r, p) PROVE TruthfulStatus'
  BY <1>2 DEF PowerOn, Off
<1>3. CASE Crash
  BY <1>3 DEF Crash, PowerDown, TearBackup, Off
<1>4. CASE Start
  BY <1>4 DEF Start, Mount, MountFail, DeleteStatus, FirstStep, Reasons
<1>5. CASE Backup
  BY <1>5 DEF Backup, BackupFile, BackupMiss, Miss, BackupFail, BackupDone, TearBackup,
     Fail, Goto
<1>6. CASE Stage
   BY <1>6 DEF Stage, TmpFail, TmpReady, UnpackFail, UnpackDone, TmpRemove,
     UnpackFile, ToUnpack, Fail, Goto
<1>7. CASE Verify
  BY <1>7 DEF Verify, VerifyPass, VerifyFail, RecordMiss, ChecksumMiss, VersionMiss, Miss, Fail, Goto
<1>8. CASE Fuse
   BY <1>8 DEF Fuse, FuseSkip, FuseBurn, FuseBit, FuseLock, FuseRefuse, KeysHandled,
     DropKeyFile, KeyFileIsIn, Fail, Goto
<1>9. CASE Move
   BY ZenonT(40), <1>9 DEF Move, MoveDone, DropCatalog, Catalog, MoveMiss, Miss,
     MoveUnlink, MoveRename, MoveError, ToMove, Visited, ErrorIn, Fail, Goto
<1>10. CASE Eco
  BY <1>10 DEF Eco, EcoNone, EcoMiss, Miss, EcoFlash, EcoWritten, EcoFail,
     EcoDone, Fail, Goto
<1>11. CASE Factory
   BY <1>11 DEF Factory, FactoryDone, FactoryMiss, Miss, FactoryRemove, FactoryError,
     ToReset, StagedToReset, Visited, ErrorIn, Fail, Goto
<1>12. CASE SaveStatus
  <2>1. CASE /\ status' = [op |-> reason, result |-> result]
             /\ age' = "fresh" /\ unseen' = missed
    BY <1>12, <2>1 DEF SaveStatus, Goto, Lost, Flashed, Status
  <2>2. CASE status' = Torn \/ UNCHANGED <<status, age, unseen>>
    BY <1>12, <2>2 DEF SaveStatus, Goto, Status
  <2> QED
    BY <1>12, <2>1, <2>2 DEF SaveStatus
<1>13. CASE Leave
  BY <1>13 DEF Leave, PowerDown
<1> QED
  BY <1>1, <1>2, <1>3, <1>4, <1>5, <1>6, <1>7, <1>8, <1>9, <1>10, <1>11, <1>12, <1>13
  DEF Next, Step, Finish

\* Every action keeps the status file true of what was not looked at.
LEMMA SkippedStep ==
    ASSUME TypeOK, Phase, Reported, Moved, NothingSkipped, [Next]_vars PROVE NothingSkipped'
<1> USE ContentAssumption DEF TypeOK, Phase, Reported, NothingSkipped, Moved,
   InPlace, Flashed, Lost, Installing, Reasons, media, ram, rest
<1>1. CASE UNCHANGED vars
  BY <1>1 DEF vars
<1>2. ASSUME NEW r \in Reasons, NEW p \in Packages, PowerOn(r, p) PROVE NothingSkipped'
  BY <1>2 DEF PowerOn, Off
<1>3. CASE Crash
  BY <1>3 DEF Crash, PowerDown, TearBackup, Off
<1>4. CASE Start
  BY <1>4 DEF Start, Mount, MountFail, DeleteStatus, FirstStep, Reasons
<1>5. CASE Backup
  BY <1>5 DEF Backup, BackupFile, BackupMiss, Miss, BackupFail, BackupDone, TearBackup,
     Fail, Goto
<1>6. CASE Stage
   BY <1>6 DEF Stage, TmpFail, TmpReady, UnpackFail, UnpackDone, TmpRemove,
     UnpackFile, ToUnpack, Fail, Goto
<1>7. CASE Verify
  BY <1>7 DEF Verify, VerifyPass, VerifyFail, RecordMiss, ChecksumMiss, VersionMiss, Miss, Fail, Goto
<1>8. CASE Fuse
   BY <1>8 DEF Fuse, FuseSkip, FuseBurn, FuseBit, FuseLock, FuseRefuse, KeysHandled,
     DropKeyFile, KeyFileIsIn, Fail, Goto
<1>9. CASE Move
   BY ZenonT(40), <1>9 DEF Move, MoveDone, DropCatalog, Catalog, MoveMiss, Miss,
     MoveUnlink, MoveRename, MoveError, ToMove, Visited, ErrorIn, Fail, Goto
<1>10. CASE Eco
  BY <1>10 DEF Eco, EcoNone, EcoMiss, Miss, EcoFlash, EcoWritten, EcoFail,
     EcoDone, Fail, Goto
<1>11. CASE Factory
   BY <1>11 DEF Factory, FactoryDone, FactoryMiss, Miss, FactoryRemove, FactoryError,
     ToReset, StagedToReset, Visited, ErrorIn, Fail, Goto
<1>12. CASE SaveStatus
  <2>1. CASE /\ status' = [op |-> reason, result |-> result]
             /\ age' = "fresh" /\ unseen' = missed
    BY <1>12, <2>1 DEF SaveStatus, Goto, Lost, Flashed, Status
  <2>2. CASE status' = Torn \/ UNCHANGED <<status, age, unseen>>
    BY <1>12, <2>2 DEF SaveStatus, Goto, Status
  <2> QED
    BY <1>12, <2>1, <2>2 DEF SaveStatus
<1>13. CASE Leave
  BY <1>13 DEF Leave, PowerDown
<1> QED
  BY <1>1, <1>2, <1>3, <1>4, <1>5, <1>6, <1>7, <1>8, <1>9, <1>10, <1>11, <1>12, <1>13
  DEF Next, Step, Finish

-----------------------------------------------------------------------------
\* The only steps that change an installed file: a move, or one that is removed or kept.
LEMMA CurSteps ==
    ASSUME TypeOK, [Next]_vars
    PROVE  \/ UNCHANGED cur
           \/ \E g \in Files : MoveRename(g)
           \/ \E g \in Files : \E c \in {Missing, cur[g]} : cur' = [cur EXCEPT ![g] = c]
<1> USE DEF media
<1>1. CASE UNCHANGED vars
  BY <1>1 DEF vars
<1>2. ASSUME NEW r \in Reasons, NEW p \in Packages, PowerOn(r, p) PROVE UNCHANGED cur
  BY <1>2 DEF PowerOn
<1>3. CASE Crash \/ Start \/ Backup
   BY <1>3 DEF Crash, TearBackup, Start, Mount, MountFail, DeleteStatus, Backup,
     BackupFile, BackupMiss, Miss,
     BackupFail, BackupDone
<1>4. CASE Stage \/ Verify \/ Finish
   BY <1>4 DEF Stage, TmpFail, TmpReady, UnpackFail, UnpackDone, TmpRemove,
     UnpackFile,
     Verify, VerifyPass, VerifyFail, RecordMiss, ChecksumMiss, VersionMiss, Finish, SaveStatus, Leave
<1>5. CASE Fuse
   BY <1>5, FilesAssumption DEF Fuse, FuseSkip, FuseBurn, FuseBit, FuseLock, FuseRefuse,
     KeysHandled,
     DropKeyFile, Files
<1>6. CASE Move
  BY <1>6 DEF Move, MoveDone, MoveMiss, Miss, DropCatalog, Catalog, MoveUnlink, MoveError
<1>7. CASE Eco
   BY <1>7, FilesAssumption DEF Eco, EcoNone, EcoMiss, EcoFlash, EcoWritten, EcoFail,
     EcoDone, Files
<1>8. CASE Factory
  BY <1>8 DEF Factory, FactoryDone, FactoryMiss, Miss, FactoryRemove, FactoryError
<1> QED
  BY <1>1, <1>2, <1>3, <1>4, <1>5, <1>6, <1>7, <1>8 DEF Next, Step

\* While files are moved, nothing but a move changes an installed file.
LEMMA OnlyMovesReplace ==
    ASSUME TypeOK, [Next]_vars, pc \in {"mvos", "mvuser"}, cur' # cur
    PROVE  \E f \in Files : MoveUnlink(f) \/ MoveRename(f)
<1>1. ~(UNCHANGED vars) /\ ~Crash /\ ~Start /\ ~Backup /\ ~Stage /\ ~Verify /\ ~Fuse /\ ~Eco
  BY DEF vars, media, Crash, TearBackup, Start, Mount, MountFail, DeleteStatus,
     Backup, BackupFile, BackupMiss, Miss, BackupFail, BackupDone,
     Stage, TmpFail, TmpReady, UnpackFail, UnpackDone, TmpRemove, UnpackFile,
     Verify, VerifyPass, VerifyFail, RecordMiss, ChecksumMiss, VersionMiss, Fuse, FuseSkip, FuseBurn, FuseBit, FuseLock, FuseRefuse,
     Eco, EcoNone, EcoMiss, EcoFlash, EcoWritten, EcoFail, EcoDone
<1>2. ~Factory /\ ~Finish
  BY DEF Factory, FactoryDone, FactoryMiss, Miss, FactoryRemove, FactoryError, ToReset, StagedToReset,
     Finish, SaveStatus, Leave
<1>3. \A r \in Reasons, p \in Packages : ~PowerOn(r, p)
  BY DEF PowerOn, Off
<1> QED
  BY <1>1, <1>2, <1>3 DEF Next, Step, Move, MoveDone, MoveMiss, MoveError, media

\* Only FuseBit takes the fuses out of their blank state.
LEMMA OnlyFusesBurn ==
    ASSUME TypeOK, Phase, [Next]_vars, otp = "blank", otp' # "blank", reason # "pgm_keys"
    PROVE  FuseBit
<1>1. ~(UNCHANGED vars) /\ ~Crash /\ ~Start /\ ~Backup /\ ~Stage /\ ~Verify
  BY DEF vars, media, Crash, TearBackup, Start, Mount, MountFail, DeleteStatus,
     Backup, BackupFile, BackupMiss, Miss, BackupFail, BackupDone,
     Stage, TmpFail, TmpReady, UnpackFail, UnpackDone, TmpRemove, UnpackFile,
     Verify, VerifyPass, VerifyFail, RecordMiss, ChecksumMiss, VersionMiss
<1>2. ~Move /\ ~Eco /\ ~Factory /\ ~Finish
  BY DEF media, Move, MoveDone, MoveMiss, Miss, DropCatalog, Catalog, MoveUnlink, MoveRename, MoveError,
     Eco, EcoNone, EcoMiss, EcoFlash, EcoWritten, EcoFail, EcoDone,
     Factory, FactoryDone, FactoryMiss, Miss, FactoryRemove, FactoryError, Finish, SaveStatus, Leave
<1>3. ~FuseSkip /\ ~FuseBurn /\ ~FuseLock /\ ~FuseRefuse
  BY DEF FuseSkip, FuseBurn, FuseLock, FuseRefuse, Phase, media
<1>4. \A r \in Reasons, p \in Packages : ~PowerOn(r, p)
  BY DEF PowerOn, media
<1> QED
  BY <1>1, <1>2, <1>3, <1>4 DEF Next, Step, Fuse

-----------------------------------------------------------------------------
\* A phone as it is before the first start satisfies the invariant.
LEMMA InitIInv == Init => IInv
<1> SUFFICES ASSUME Init PROVE IInv
  OBVIOUS
<1>1. TypeOK
  <2>1. \A p \in Packages \cup OsImages \cup Backups : p \in [Files -> Content]
    BY ContentAssumption
  <2>2. [f \in Files |-> Missing] \in [Files -> Content]
    BY DEF Content
  <2>3. cur \in [Files -> Content] /\ pkg \in [Files -> Content]
    BY <2>1 DEF Init
  <2>4. tmp \in [Files -> Content] /\ src \in [Files -> Content]
    BY <2>2 DEF Init
  <2>5. bak \in [Files -> Content] /\ bakEnd \in {"eof", "null", "torn"}
    BY <2>1, <2>2 DEF Init
  <2>6. flash \in Content
    BY <2>3, FilesAssumption DEF Init, Files
  <2>7. idx \in 1..(Len(BackupSeq) + 1) /\ boots \in 0..MaxBoots
    BY FilesAssumption, ContentAssumption DEF Init
  <2> QED
    BY <2>3, <2>4, <2>5, <2>6, <2>7 DEF Init, TypeOK, Reasons
<1>2. Phase /\ Archive /\ Unpacked /\ Moved /\ Verified
  BY DEF Init, Phase, Archive, Unpacked, Moved, Verified, Installing, Staged
<1>3. Reported /\ BackedUp /\ NotOlder /\ TruthfulStatus /\ NothingSkipped
   BY ContentAssumption DEF Init, Reported, BackedUp, NotOlder, TruthfulStatus,
     NothingSkipped
<1> QED
  BY <1>1, <1>2, <1>3 DEF IInv

\* The conjuncts of the invariant are preserved together.
LEMMA StepIInv == IInv /\ [Next]_vars => IInv'
BY TypeStep, PhaseStep, ArchiveStep, UnpackedStep, MovedStep, VerifiedStep, ReportedStep,
   BackedUpStep, NotOlderStep, TruthfulStep, SkippedStep DEF IInv

(***************************************************************************)
(* The inductive invariant holds in every reachable state of the updater,  *)
(* through any sequence of starts, errors and power cuts.                  *)
(***************************************************************************)
THEOREM Invariant == Spec => []IInv
BY InitIInv, StepIInv, PTL DEF Spec

(***************************************************************************)
(* The variables keep their types in every run of the updater.             *)
(***************************************************************************)
THEOREM TypeCorrect == Spec => []TypeOK
<1>1. IInv => TypeOK
  BY DEF IInv
<1> QED
  BY <1>1, Invariant, PTL

(***************************************************************************)
(* Nothing that an earlier run left in a tmp catalog is verified or        *)
(* installed as part of a later archive.                                   *)
(***************************************************************************)
THEOREM StagedCorrect == Spec => []StagedFromThisArchive
<1>1. IInv => StagedFromThisArchive
  BY DEF IInv, Unpacked, Installing, StagedFromThisArchive
<1> QED
  BY <1>1, Invariant, PTL

(***************************************************************************)
(* A status file that reports success, and did not outlive its removal, is *)
(* true of every file whose checksum was compared, however many runs were  *)
(* cut short before; it is not of a file that the run failed to see.       *)
(***************************************************************************)
THEOREM StatusIsTruthful == Spec => []TruthfulStatus
<1>1. IInv => TruthfulStatus
  BY DEF IInv
<1> QED
  BY <1>1, Invariant, PTL

(***************************************************************************)
(* A success is never reported after a walk that left out a file of the    *)
(* archive, or a file to reset, that it had seen, nor without the boot     *)
(* loader that the run saw.                                                *)
(***************************************************************************)
THEOREM NothingIsSkipped == Spec => []NothingSkipped
<1>1. IInv => NothingSkipped
  BY DEF IInv
<1> QED
  BY <1>1, Invariant, PTL

(***************************************************************************)
(* No sequence of power cuts, I/O errors and full disks puts a boot file   *)
(* that the checksum loop reached into its place cut short.                *)
(***************************************************************************)
THEOREM BootFilesWhole == Spec => NoTornBootFile
<1>1. IInv /\ [Next]_vars =>
        [\A f \in VerifyFiles : cur[f] # Torn /\ cur'[f] = Torn =>
            f \notin Reached("checksum", src, missed)]_vars
  <2> SUFFICES ASSUME IInv, [Next]_vars, NEW f \in VerifyFiles, cur[f] # Torn, cur'[f] = Torn,
                      f \in Reached("checksum", src, missed)
               PROVE  FALSE
    OBVIOUS
  <2> USE DEF IInv
  <2>1. f \in OsFiles /\ f \in Files /\ f \notin UserFiles /\ cur \in [Files -> Content]
    BY FilesAssumption DEF VerifyFiles, Files, TypeOK
  <2>2. PICK g \in Files : MoveRename(g)
    <3>1. ASSUME NEW g \in Files, NEW c \in {Missing, cur[g]}, cur' = [cur EXCEPT ![g] = c]
          PROVE  cur'[f] # Torn
      BY <2>1, <3>1, ContentAssumption
    <3> QED
      BY <3>1, CurSteps
  <2>3. g = f /\ pc = "mvos" /\ tmp[f] = Torn
    BY <2>1, <2>2 DEF MoveRename, ToMove
  <2>4. Intact(f) /\ (tmp[f] = src[f] \/ tmp[f] = Missing)
    BY <2>3 DEF Verified, Phase
  <2> QED
    BY <2>3, <2>4, ContentAssumption DEF Intact
<1> QED
  BY <1>1, Invariant, PTL DEF Spec, NoTornBootFile

(***************************************************************************)
(* An update that compared the version of a file, and could read that of   *)
(* the installed release, never replaces version.json by an older one.     *)
(***************************************************************************)
THEOREM NeverDowngrades == Spec => NoDowngrade
<1>1. IInv /\ [Next]_vars =>
        [ /\ pc = "mvos" /\ reason = "update"
          /\ Reached("version", src, missed) # {} /\ <<"record", VersionFile>> \notin missed
          /\ cur[VersionFile] \in Versions /\ cur'[VersionFile] # cur[VersionFile]
          => tmp[VersionFile] \in Versions /\ tmp[VersionFile] >= cur[VersionFile] ]_vars
  <2> SUFFICES ASSUME IInv, [Next]_vars, pc = "mvos", reason = "update",
                      Reached("version", src, missed) # {},
                      <<"record", VersionFile>> \notin missed,
                      cur[VersionFile] \in Versions, cur'[VersionFile] # cur[VersionFile]
               PROVE  tmp[VersionFile] \in Versions /\ tmp[VersionFile] >= cur[VersionFile]
    OBVIOUS
  <2>1. PICK f \in Files : MoveUnlink(f) \/ MoveRename(f)
    BY OnlyMovesReplace DEF IInv
  <2>2. f = VersionFile /\ tmp[f] # Missing
    BY <2>1, FilesAssumption, ContentAssumption
       DEF MoveUnlink, MoveRename, ToMove, IInv, TypeOK, Files
  <2> QED
    BY <2>2 DEF IInv, NotOlder
<1> QED
  BY <1>1, Invariant, PTL DEF Spec, NoDowngrade

(***************************************************************************)
(* No installed file of the boot list that the listing of /user gave is    *)
(* unlinked or replaced before the very content it has can be unpacked     *)
(* from the backup, provided that archive was open and whole to begin with *)
(* (bakEnd).                                                               *)
(***************************************************************************)
THEOREM BackedUpFirst == Spec => BackupBeforeReplace
<1>1. IInv /\ [Next]_vars =>
        [\A f \in {BackupSeq[i] : i \in DOMAIN BackupSeq} :
            /\ pc \in {"mvos", "mvuser"} /\ bakEnd = "eof" /\ <<"installed", f>> \notin missed
            /\ cur[f] # Missing /\ cur'[f] # cur[f]
            => bak[f] = cur[f]]_vars
  <2> SUFFICES ASSUME IInv, [Next]_vars, NEW i \in DOMAIN BackupSeq,
                      pc \in {"mvos", "mvuser"}, bakEnd = "eof",
                      <<"installed", BackupSeq[i]>> \notin missed,
                      cur[BackupSeq[i]] # Missing, cur'[BackupSeq[i]] # cur[BackupSeq[i]]
               PROVE  bak[BackupSeq[i]] = cur[BackupSeq[i]]
    OBVIOUS
  <2>1. PICK f \in Files : MoveUnlink(f) \/ MoveRename(f)
    BY OnlyMovesReplace DEF IInv
  <2>2. f = BackupSeq[i] /\ tmp[f] # Missing
    BY <2>1, FilesAssumption DEF MoveUnlink, MoveRename, ToMove, IInv, TypeOK
  <2>3. reason = "update"
    BY DEF IInv, Phase, Installing, Archive, Staged
  <2> QED
    BY <2>2, <2>3 DEF IInv, BackedUp
<1> QED
  BY <1>1, Invariant, PTL DEF Spec, BackupBeforeReplace

(***************************************************************************)
(* During an update or a recovery the fuses are burned only with its own   *)
(* keys and only after the checksum loop, and for an update the version    *)
(* loop, found nothing wrong with the files they reached.                  *)
(***************************************************************************)
THEOREM BurnsOnlyVerified == Spec => BurnOnlyVerified
<1>1. IInv /\ [Next]_vars =>
        [otp = "blank" /\ otp' # "blank" /\ reason # "pgm_keys" =>
           /\ tmp[KeyFile] = src[KeyFile] /\ ChecksumOk(tmp)
           /\ reason = "update" => VersionOk(tmp, cur)]_vars
  <2> SUFFICES ASSUME IInv, [Next]_vars, otp = "blank", otp' # "blank", reason # "pgm_keys"
               PROVE  /\ tmp[KeyFile] = src[KeyFile] /\ ChecksumOk(tmp)
                      /\ reason = "update" => VersionOk(tmp, cur)
    OBVIOUS
  <2>1. FuseBit
    BY OnlyFusesBurn DEF IInv
  <2>2. pc = "burn" /\ Installing
    BY <2>1 DEF FuseBit, IInv, Phase, Installing
  <2> QED
    BY <2>2, FilesAssumption, ContentAssumption DEF IInv, NotOlder, Unpacked, Staged, Files
<1> QED
  BY <1>1, Invariant, PTL DEF Spec, BurnOnlyVerified
=============================================================================
