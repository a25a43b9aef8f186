--------------------------- MODULE Verify_proofs ---------------------------
(***************************************************************************)
(* Proofs about Verify: an accepted package was checked, and the order of  *)
(* versions is a total one, so a chain of accepted updates never goes down.*)
(***************************************************************************)
EXTENDS Verify, TLAPS

\* version_is_lhs_newer compares versions as the numbers they stand for.
THEOREM NewerIsOrder ==
    \A l, r \in Versions : IsLhsNewer(l, r) <=> Ordinal(l) >= Ordinal(r)
<1>1. SUFFICES ASSUME NEW l \in Versions, NEW r \in Versions
               PROVE  IsLhsNewer(l, r) <=> Ordinal(l) >= Ordinal(r)
      OBVIOUS
<1>2. PICK a \in 0..99, b \in 0..99, c \in 0..99 : l.major = a /\ l.minor = b /\ l.patch = c
      BY DEF Versions
<1>3. PICK x \in 0..99, y \in 0..99, z \in 0..99 : r.major = x /\ r.minor = y /\ r.patch = z
      BY DEF Versions
<1>4. IsLhsNewer(l, r) <=> (a > x \/ (a = x /\ b > y) \/ (a = x /\ b = y /\ c >= z))
      BY <1>2, <1>3 DEF IsLhsNewer
<1>5. Ordinal(l) = a * 10000 + b * 100 + c /\ Ordinal(r) = x * 10000 + y * 100 + z
      BY <1>2, <1>3 DEF Ordinal
<1>6. (a > x \/ (a = x /\ b > y) \/ (a = x /\ b = y /\ c >= z))
        <=> a * 10000 + b * 100 + c >= x * 10000 + y * 100 + z
      <2>1. CASE a > x
            BY <1>2, <1>3, <2>1
      <2>2. CASE a = x
            BY <1>2, <1>3, <2>2
      <2>3. CASE a < x
            BY <1>2, <1>3, <2>3
      <2>. QED
           BY <1>2, <1>3, <2>1, <2>2, <2>3
<1>. QED
     BY <1>4, <1>5, <1>6

-----------------------------------------------------------------------------
\* The sequence of files, and the place of one in it.
LEMMA SeqFacts ==
    /\ VerifySeq \in Seq(VerifyFiles) /\ Len(VerifySeq) \in Nat
    /\ \A k \in 1..Len(VerifySeq) : VerifySeq[k] \in VerifyFiles
BY VerifyAssumption DEF VerifyFiles, ToSet

\* What has been passed is what the loop comes to, and the next file with it
\* when that one is there.
LEMMA PassedIsChecked ==
    ASSUME TypeOK, \A f \in Passed : staged[f] # Missing /\ <<pc, f>> \notin unseen
    PROVE  /\ Passed \subseteq Checked(pc)
           /\ ~Left => Checked(pc) = Passed
           /\ Left => File \in Checked(pc) /\ File \in VerifyFiles /\ i \in 1..Len(VerifySeq)
<1>1. i \in 1..(Len(VerifySeq) + 1) /\ Len(VerifySeq) \in Nat
      BY SeqFacts DEF TypeOK
<1>2. DOMAIN VerifySeq = 1..Len(VerifySeq)
      BY SeqFacts
<1>3. \A j \in 1..(i - 1) : staged[VerifySeq[j]] # Missing /\ <<pc, VerifySeq[j]>> \notin unseen
      BY DEF Passed
<1>4. Passed \subseteq Checked(pc)
      BY <1>1, <1>2, <1>3 DEF Passed, Checked
<1>5. ASSUME ~Left PROVE Checked(pc) \subseteq Passed
      <2>1. ASSUME NEW k \in 1..Len(VerifySeq),
                   \A j \in 1..k : staged[VerifySeq[j]] # Missing /\ <<pc, VerifySeq[j]>> \notin unseen
            PROVE  k \in 1..(i - 1)
            <3>1. CASE i = Len(VerifySeq) + 1
                  BY <3>1, <1>1
            <3>2. CASE i <= Len(VerifySeq)
                  <4>1. staged[VerifySeq[i]] = Missing \/ <<pc, VerifySeq[i]>> \in unseen
                        BY <3>2, <1>5 DEF Left, File
                  <4>2. ~(i \in 1..k)
                        BY <4>1, <2>1
                  <4>. QED
                       BY <4>2, <1>1
            <3>. QED
                 BY <3>1, <3>2, <1>1
      <2>. QED
           BY <2>1, <1>2 DEF Checked, Passed
<1>6. ASSUME Left PROVE File \in Checked(pc) /\ File \in VerifyFiles /\ i \in 1..Len(VerifySeq)
      <2>1. i \in 1..Len(VerifySeq)
            BY <1>6, <1>1 DEF Left
      <2>2. \A j \in 1..i : staged[VerifySeq[j]] # Missing /\ <<pc, VerifySeq[j]>> \notin unseen
            BY <1>1, <1>3, <1>6 DEF Left, File
      <2>. QED
           BY <2>1, <2>2, <1>2, SeqFacts DEF Checked, File
<1>. QED
     BY <1>4, <1>5, <1>6

\* What a loaded version.json holds for a file.
LEMMA LoadedEntry ==
    ASSUME NEW file, NEW seen, NEW json \in VersionStructs(file, seen), NEW f \in VerifyFiles
    PROVE  json.valid /\ json.file[f] \in Entries(file, seen, f)
BY DEF VersionStructs

LEMMA WellFormedStruct ==
    ASSUME NEW record \in WellFormed
    PROVE  /\ record # Missing /\ record # Bad
           /\ FileStruct(record).valid
           /\ FileStruct(record).md5 = record.md5
           /\ FileStruct(record).version = record.version
           /\ FileStruct(record) # Garbage
<1>1. record # Missing /\ record # Bad
      BY VerifyAssumption
<1>2. FileStruct(record) = [valid |-> TRUE, md5 |-> record.md5, version |-> record.version]
      BY <1>1 DEF FileStruct
<1>3. FileStruct(record) \in [valid : BOOLEAN, md5 : Contents, version : Releases \cup {Bad}]
      BY <1>2 DEF WellFormed
<1>4. FileStruct(record) # Garbage
      BY <1>3, VerifyAssumption
<1>. QED
     BY <1>1, <1>2, <1>4

LEMMA BadStruct ==
    /\ FileStruct(Bad).valid = FALSE
    /\ FileStruct(Bad).md5 = "NULL"
    /\ FileStruct(Bad).version = Bad
BY DEF FileStruct

\* A file whose entry matches is listed in the staged version.json.
LEMMA MatchIsListed ==
    ASSUME TypeOK, newJson \in NewJson, NEW f \in VerifyFiles, staged[f] # Missing,
           newJson.file[f] # Garbage, newJson.file[f].valid, newJson.file[f].md5 = staged[f]
    PROVE  Listed(f)
<1>1. newJson.file[f] \in Entries(newFile, {newFile}, f)
      BY LoadedEntry DEF NewJson
<1>2. staged[f] \in Contents /\ staged[f] # "NULL"
      BY VerifyAssumption DEF TypeOK
<1>3. newFile # Missing => \A g \in VerifyFiles : newFile[g] \in WellFormed \cup {Missing, Bad}
      BY VerifyAssumption DEF TypeOK, OnDisk
<1>4. CASE newFile = Missing
      BY <1>1, <1>4 DEF Entries, Leftovers, Held
<1>5. CASE newFile # Missing /\ newFile[f] = Missing
      <2>1. PICK g \in VerifyFiles :
               /\ newFile[g] # Missing
               /\ newJson.file[f] = [FileStruct(newFile[g]) EXCEPT !.valid = TRUE]
            <3>1. newJson.file[f] \in Leftovers({newFile})
                  BY <1>1, <1>5 DEF Entries
            <3>2. PICK record \in Held({newFile}) :
                     newJson.file[f] = [FileStruct(record) EXCEPT !.valid = TRUE]
                  BY <3>1 DEF Leftovers
            <3>3. PICK g \in VerifyFiles : newFile[g] = record /\ record # Missing
                  BY <1>5, <3>2 DEF Held
            <3>. QED
                 BY <3>2, <3>3
      <2>2. CASE newFile[g] = Bad
            <3>1. newJson.file[f].md5 = "NULL"
                  BY <2>1, <2>2 DEF FileStruct
            <3>. QED
                 BY <3>1, <1>2
      <2>3. CASE newFile[g] \in WellFormed
            <3>1. newFile[g] # Bad
                  BY <2>3, WellFormedStruct
            <3>2. newJson.file[f].md5 = newFile[g].md5
                  BY <2>1, <3>1 DEF FileStruct
            <3>. QED
                 BY <2>3, <3>2, <1>5 DEF Listed
      <2>. QED
           BY <2>1, <2>2, <2>3, <1>3, <1>5
<1>6. CASE newFile # Missing /\ newFile[f] # Missing
      <2>1. newJson.file[f] = FileStruct(newFile[f])
            BY <1>1, <1>6 DEF Entries
      <2>2. newFile[f] # Bad
            BY <2>1, BadStruct
      <2>3. newFile[f] \in WellFormed
            BY <2>2, <1>3, <1>6
      <2>. QED
           BY <2>1, <2>3, <1>6, WellFormedStruct DEF Listed, ChecksumRight
<1>. QED
     BY <1>4, <1>5, <1>6

\* A file whose record is right is not refused.
LEMMA RightMatches ==
    ASSUME newJson \in NewJson, NEW f \in VerifyFiles, ChecksumRight(f)
    PROVE  newJson.file[f] # Garbage /\ newJson.file[f].valid /\ newJson.file[f].md5 = staged[f]
<1>1. newFile # Missing /\ newFile[f] \in WellFormed /\ newFile[f].md5 = staged[f]
      BY DEF ChecksumRight
<1>2. newFile[f] # Missing
      BY <1>1, WellFormedStruct
<1>3. newJson.file[f] \in Entries(newFile, {newFile}, f)
      BY LoadedEntry DEF NewJson
<1>4. newJson.file[f] = FileStruct(newFile[f])
      BY <1>1, <1>2, <1>3 DEF Entries
<1>. QED
     BY <1>1, <1>4, WellFormedStruct

\* What version_check compares, of a file whose entry was read.
LEMMA NewerIsNotBelow ==
    ASSUME TypeOK, newJson \in NewJson, curJson \in CurJson, NEW f \in VerifyFiles,
           newJson.file[f] # Garbage, newJson.file[f].version # Bad,
           curJson.valid, curJson.file[f].version # Bad,
           IsLhsNewer(newJson.file[f].version, curJson.file[f].version)
    PROVE  NotBelow(f)
<1>1. curFile # Missing
      <2>1. ASSUME curFile = Missing PROVE curJson.valid = FALSE
            <3>1. curJson = Fallback
                  BY <2>1 DEF CurJson
            <3>. QED
                 BY <3>1 DEF Fallback
      <2>. QED
           BY <2>1
<1>2. newJson.file[f] \in Entries(newFile, {newFile}, f)
      BY LoadedEntry DEF NewJson
<1>3. newFile # Missing
      BY <1>2 DEF Entries, Leftovers, Held
<1>4. ASSUME newFile[f] # Missing, curFile[f] # Missing
      PROVE  /\ newFile[f] \in WellFormed /\ curFile[f] \in WellFormed
             /\ curFile[f].version # Bad /\ newFile[f].version # Bad
             /\ Ordinal(newFile[f].version) >= Ordinal(curFile[f].version)
      <2>1. newJson.file[f] = FileStruct(newFile[f])
            BY <1>4, <1>2, <1>3 DEF Entries
      <2>2. newFile[f] \in WellFormed
            <3>1. newFile[f] \in WellFormed \cup {Missing, Bad}
                  BY <1>3, VerifyAssumption DEF TypeOK, OnDisk
            <3>. QED
                 BY <3>1, <1>4, <2>1, BadStruct
      <2>3. curJson.file[f] = FileStruct(curFile[f])
            <3>1. curJson \in VersionStructs(curFile, {newFile, curFile})
                  BY <1>1 DEF CurJson
            <3>2. curJson.file[f] \in Entries(curFile, {newFile, curFile}, f)
                  BY <3>1, LoadedEntry
            <3>. QED
                 BY <3>2, <1>1, <1>4 DEF Entries
      <2>4. curFile[f] \in WellFormed \cup {Missing, Bad}
            BY <1>1, VerifyAssumption DEF TypeOK, OnDisk
      <2>5. curFile[f] \in WellFormed
            BY <1>4, <2>3, <2>4, BadStruct
      <2>6. /\ newJson.file[f].version = newFile[f].version
            /\ curJson.file[f].version = curFile[f].version
            BY <2>2, <2>1, <2>3, <2>5, WellFormedStruct
      <2>7. newFile[f].version \in Versions /\ curFile[f].version \in Versions
            BY <2>2, <2>5, <2>6, VerifyAssumption DEF WellFormed
      <2>. QED
           BY <2>2, <2>5, <2>6, <2>7, NewerIsOrder
<1>. QED
     BY <1>1, <1>4, <1>3 DEF NotBelow

-----------------------------------------------------------------------------
\* VInv is inductive.
LEMMA InitInv == Init => VInv
<1>1. ASSUME Init PROVE VInv
      <2>1. TypeOK
            BY <1>1, SeqFacts DEF Init, TypeOK
      <2>. QED
           BY <1>1, <2>1 DEF Init, VInv, Loops, Loaded, LoopsPassed, Passed, AcceptedIsChecked,
              Concluded, Recoverable
<1>. QED
     BY <1>1

\* The inputs of a comparison do not change, so what is said of them stays.
LEMMA SameInputs ==
    ASSUME UNCHANGED inputs
    PROVE  /\ NewJson' = NewJson /\ CurJson' = CurJson
           /\ \A f : /\ ChecksumRight(f)' = ChecksumRight(f)
                    /\ Listed(f)' = Listed(f)
                    /\ NotBelow(f)' = NotBelow(f)
           /\ OwnBoot(newFile)' = OwnBoot(newFile) /\ OwnBoot(curFile)' = OwnBoot(curFile)
BY DEF inputs, ChecksumRight, Listed, NotBelow, NewJson, CurJson,
       VersionStructs, Entries, Leftovers, Held, OwnBoot

LEMMA SameChecked ==
    ASSUME UNCHANGED inputs, UNCHANGED unseen
    PROVE  \A loop : Checked(loop)' = Checked(loop)
BY DEF inputs, Checked

\* A loop that refuses, or that faults, ends with a verdict to no one's harm.
LEMMA RefusalInv ==
    ASSUME VInv, pc \in Loops, Refuse \/ Fault,
           operation = "recovery" => \E f \in Checked("checksum") : ~ChecksumRight(f)
    PROVE  VInv'
<1>1. /\ pc' \in {"cleanup", "done"} /\ verdict' \in {"refuse", "fault"}
      /\ UNCHANGED <<inputs, newJson, curJson, i, unseen>>
      BY DEF Refuse, Fault, Conclude
<1>2. TypeOK'
      BY <1>1 DEF VInv, TypeOK, inputs
<1>3. Recoverable' /\ Concluded'
      BY <1>1, SameInputs, SameChecked DEF Recoverable, Concluded, inputs
<1>. QED
     BY <1>1, <1>2, <1>3 DEF VInv, Loaded, LoopsPassed, AcceptedIsChecked, Loops

\* A stat() that fails ends its loop; what was passed before is another file.
LEMMA StatFailsInv == ASSUME VInv, StatFails PROVE VInv'
<1>. USE DEF VInv
<1>1. /\ pc \in Loops /\ Left /\ unseen' = unseen \cup {<<pc, File>>}
      /\ UNCHANGED <<inputs, newJson, curJson, pc, i, verdict>>
      BY DEF StatFails
<1>2. TypeOK /\ i \in 1..Len(VerifySeq) /\ Len(VerifySeq) \in Nat /\ File \in VerifyFiles
      <2>1. i \in 1..Len(VerifySeq)
            BY <1>1, SeqFacts DEF TypeOK, Left
      <2>. QED
           BY <2>1, SeqFacts DEF File
<1>3. TypeOK'
      BY <1>1, <1>2 DEF TypeOK, inputs, Loops
<1>4. File \notin Passed
      <2>1. \A k \in 1..(i - 1) : k \in DOMAIN VerifySeq /\ i \in DOMAIN VerifySeq /\ k # i
            BY <1>2, SeqFacts
      <2>2. \A k \in 1..(i - 1) : VerifySeq[k] # VerifySeq[i]
            BY <2>1, VerifyAssumption DEF IsInjective
      <2>. QED
           BY <2>2 DEF Passed, File
<1>5. Passed' = Passed
      BY <1>1 DEF Passed
<1>6. pc = "version" => Checked("checksum")' = Checked("checksum")
      BY <1>1 DEF Checked, inputs
<1>7. LoopsPassed'
      BY <1>1, <1>4, <1>5, <1>6, SameInputs DEF LoopsPassed, inputs, Loops
<1>8. Loaded'
      BY <1>1, SameInputs DEF Loaded
<1>. QED
     BY <1>1, <1>3, <1>7, <1>8 DEF Loops, TypeOK, Concluded, AcceptedIsChecked, Recoverable

\* The cleanup keeps the verdict, or faults over what it does not own.
LEMMA CleanupInv == ASSUME VInv, Cleanup PROVE VInv'
<1>. USE DEF VInv
<1>1. /\ pc = "cleanup" /\ pc' = "done" /\ UNCHANGED <<inputs, newJson, curJson, i, unseen>>
      /\ verdict' = verdict \/ (verdict' = "fault" /\ ~(OwnBoot(newFile) /\ OwnBoot(curFile)))
      BY DEF Cleanup
<1>2. TypeOK'
      BY <1>1 DEF TypeOK, inputs
<1>3. AcceptedIsChecked'
      BY <1>1, SameInputs, SameChecked DEF AcceptedIsChecked, inputs
<1>4. Recoverable'
      BY <1>1, SameInputs, SameChecked DEF Recoverable, Concluded, inputs
<1>. QED
     BY <1>1, <1>2, <1>3, <1>4 DEF Loops, Loaded, LoopsPassed, Concluded

\* Every step keeps it.
LEMMA StepInv == VInv /\ [Next]_vars => VInv'
<1>. SUFFICES ASSUME VInv, [Next]_vars PROVE VInv'
     OBVIOUS
<1>. USE DEF VInv, Loops
<1>0. TypeOK /\ i \in 1..(Len(VerifySeq) + 1) /\ Len(VerifySeq) \in Nat
      BY SeqFacts DEF TypeOK
<1>1. CASE Load
      <2>1. TypeOK'
            BY <1>1 DEF Load, TypeOK, inputs
      <2>2. i = 1 /\ Passed' = {}
            BY <1>1 DEF Load, LoopsPassed, Passed
      <2>3. Loaded'
            BY <1>1, SameInputs DEF Load, Loaded, inputs
      <2>. QED
           BY <1>1, <2>1, <2>2, <2>3
           DEF Load, LoopsPassed, AcceptedIsChecked, Concluded, Recoverable, TypeOK
<1>2. CASE ChecksumVerify
      <2>1. pc = "checksum" /\ Left /\ newJson \in NewJson
            BY <1>2 DEF ChecksumVerify, Loaded
      <2>2. \A f \in Passed : staged[f] # Missing /\ <<pc, f>> \notin unseen /\ Listed(f)
            BY <2>1 DEF LoopsPassed
      <2>3. File \in Checked("checksum") /\ File \in VerifyFiles /\ i \in 1..Len(VerifySeq)
            BY <2>1, <2>2, <1>0, PassedIsChecked
      <2>4. CASE Go
            <3>1. /\ newJson.file[File] # Garbage /\ newJson.file[File].valid
                  /\ newJson.file[File].md5 = staged[File]
                  BY <1>2, <2>1, <2>4 DEF ChecksumVerify, Go, Refuse, Fault, Conclude
            <3>2. Listed(File)
                  BY <3>1, <2>1, <2>3, <1>0, MatchIsListed DEF Left
            <3>3. Passed' = Passed \cup {File} /\ TypeOK'
                  BY <2>4, <2>3, <1>0 DEF Go, Passed, File, TypeOK, inputs
            <3>4. LoopsPassed'
                  BY <2>4, <3>2, <3>3, <2>1, <2>2, SameInputs DEF Go, LoopsPassed, Left, inputs
            <3>. QED
                 BY <2>4, <3>3, <3>4, <2>1, SameInputs
                 DEF Go, Loaded, AcceptedIsChecked, Concluded, Recoverable, TypeOK, inputs
      <2>5. CASE Refuse \/ Fault
            <3>1. ~ChecksumRight(File)
                  BY <1>2, <2>1, <2>3, <2>5, RightMatches
                  DEF ChecksumVerify, Go, Refuse, Fault, Conclude
            <3>. QED
                 BY <3>1, <2>1, <2>3, <2>5, RefusalInv
      <2>. QED
           BY <1>2, <2>4, <2>5 DEF ChecksumVerify
<1>3. CASE ChecksumDone
      <2>1. /\ pc = "checksum" /\ ~Left /\ i' = 1
            /\ UNCHANGED <<inputs, newJson, curJson, unseen>>
            BY <1>3 DEF ChecksumDone
      <2>2. \A f \in Passed : staged[f] # Missing /\ <<pc, f>> \notin unseen /\ Listed(f)
            BY <2>1 DEF LoopsPassed
      <2>3. \A f \in Checked("checksum")' : Listed(f)'
            BY <2>1, <2>2, <1>0, PassedIsChecked, SameInputs, SameChecked
      <2>4. Passed' = {}
            BY <2>1 DEF Passed
      <2>5. CASE operation = "update"
            <3>1. pc' = "version" /\ UNCHANGED verdict /\ operation' = "update"
                  BY <1>3, <2>1, <2>5 DEF ChecksumDone, inputs
            <3>2. TypeOK'
                  BY <3>1, <2>1, <1>0 DEF TypeOK, inputs
            <3>. QED
                 BY <3>1, <3>2, <2>1, <2>3, <2>4, SameInputs
                 DEF Loaded, LoopsPassed, AcceptedIsChecked, Concluded, Recoverable, TypeOK, inputs
      <2>6. CASE operation # "update"
            <3>1. pc' = "cleanup" /\ verdict' = "accept" /\ operation' # "update"
                  BY <1>3, <2>1, <2>6 DEF ChecksumDone, inputs
            <3>2. TypeOK'
                  BY <3>1, <2>1, <1>0 DEF TypeOK, inputs
            <3>. QED
                 BY <3>1, <3>2, <2>1, <2>3
                 DEF Loaded, LoopsPassed, AcceptedIsChecked, Concluded, Recoverable
      <2>. QED
           BY <2>5, <2>6
<1>4. CASE VersionCheck
      <2>1. /\ pc = "version" /\ Left /\ newJson \in NewJson /\ operation = "update"
            /\ curJson \in CurJson
            BY <1>4 DEF VersionCheck, Loaded, LoopsPassed
      <2>2. /\ \A f \in Passed : staged[f] # Missing /\ <<pc, f>> \notin unseen /\ NotBelow(f)
            /\ \A f \in Checked("checksum") : Listed(f)
            BY <2>1 DEF LoopsPassed
      <2>3. File \in VerifyFiles /\ i \in 1..Len(VerifySeq)
            BY <2>1, <2>2, <1>0, PassedIsChecked
      <2>4. CASE Go
            <3>1. \/ Refuse \/ Fault
                  \/ /\ newJson.file[File] # Garbage /\ newJson.file[File].version # Bad
                     /\ curJson.valid
                     /\ curJson.file[File] # Garbage /\ curJson.file[File].version # Bad
                     /\ IsLhsNewer(newJson.file[File].version, curJson.file[File].version)
                  BY <1>4 DEF VersionCheck
            <3>2. ~(Refuse \/ Fault)
                  BY <2>4, <2>1 DEF Go, Refuse, Fault, Conclude
            <3>3. NotBelow(File)
                  BY <3>1, <3>2, <2>1, <2>3, <1>0, NewerIsNotBelow
            <3>4. Passed' = Passed \cup {File} /\ TypeOK'
                  BY <2>4, <2>3, <1>0 DEF Go, Passed, File, TypeOK, inputs
            <3>5. \A f \in Checked("checksum")' : Listed(f)'
                  BY <2>2, <2>4, SameInputs, SameChecked DEF Go
            <3>6. LoopsPassed'
                  BY <2>4, <3>3, <3>4, <3>5, <2>1, <2>2, SameInputs
                  DEF Go, LoopsPassed, Left, inputs
            <3>. QED
                 BY <2>4, <3>4, <3>6, <2>1, SameInputs
                 DEF Go, Loaded, AcceptedIsChecked, Concluded, Recoverable, TypeOK, inputs
      <2>5. CASE Refuse \/ Fault
            BY <2>5, <2>1, RefusalInv
      <2>. QED
           BY <1>4, <2>4, <2>5 DEF VersionCheck
<1>5. CASE VersionDone
      <2>1. /\ pc = "version" /\ ~Left /\ pc' = "cleanup" /\ verdict' = "accept"
            /\ UNCHANGED <<inputs, newJson, curJson, i, unseen>>
            BY <1>5 DEF VersionDone, Conclude
      <2>2. Checked("version")' = Passed
            BY <2>1, <1>0, PassedIsChecked, SameChecked DEF LoopsPassed
      <2>3. AcceptedIsChecked'
            BY <2>1, <2>2, SameInputs, SameChecked DEF AcceptedIsChecked, LoopsPassed
      <2>. QED
           BY <2>1, <2>3, <1>0 DEF Loaded, LoopsPassed, Concluded, Recoverable, TypeOK, inputs
<1>6. CASE StatFails
      BY <1>6, StatFailsInv
<1>7. CASE Cleanup
      BY <1>7, CleanupInv
<1>8. CASE UNCHANGED vars
      BY <1>8, SameInputs, SameChecked
      DEF vars, inputs, TypeOK, Loaded, LoopsPassed, AcceptedIsChecked, Concluded, Recoverable,
          Passed
<1>. QED
     BY <1>1, <1>2, <1>3, <1>4, <1>5, <1>6, <1>7, <1>8 DEF Next

\* The invariant of the run, for every sequence of files and every set of records.
THEOREM VerifyInvariant == Spec => []VInv
BY InitInv, StepInv, PTL DEF Spec

\* checksum_verify_all lets no file through that it has come to and whose record is
\* broken or of other contents, unless the file has no record and passes for another;
\* version_check_all none that it has come to and whose record is of an older version.
THEOREM AcceptsOnlyChecked == Spec => []AcceptedIsChecked
BY VerifyInvariant, PTL DEF VInv

\* A recovery whose checked files are right is never refused, whatever is installed;
\* it is accepted, or lost to a cleanup that frees strings it does not own.
THEOREM RecoversAlways == Spec => []Recoverable
BY VerifyInvariant, PTL DEF VInv
=============================================================================
