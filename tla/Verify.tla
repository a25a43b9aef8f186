------------------------------- MODULE Verify -------------------------------
(***************************************************************************)
(* What update_firmware asks before it touches an installed file: the      *)
(* loops of checksum_verify_all and version_check_all over verify_files,   *)
(* on what json_get_verify_files made of the staged version.json and of    *)
(* the installed one.  Updater takes the outcome as ChecksumOk and         *)
(* VersionOk, with one release number for all the versions of a file.      *)
(*                                                                         *)
(* json_get_file_struct leaves the strings of an absent record as they     *)
(* were.  Whoever compares them finds what an earlier call left there, or  *)
(* Garbage: then a fault, or no match.  Whoever frees them frees what it   *)
(* does not own: then a fault, or nothing that shows.                      *)
(***************************************************************************)
EXTENDS Integers, SequencesExt

CONSTANTS
    VerifySeq,   \* verify_files: checked in this order
    Contents,    \* what a staged file can be, as its md5
    Releases,    \* the versions that version.json files name
    BootFile,    \* boot.bin, whose record is freed at the end
    Missing, Garbage, Bad,
    Records      \* what a version.json on disk can have for a file

VerifyFiles == ToSet(VerifySeq)

\* version_validate: what version_parse_str takes for a version.
Versions == [major : 0..99, minor : 0..99, patch : 0..99]

\* A record with a string in each of its three fields; Missing stands for no
\* such object and Bad for one that lacks a field.
WellFormed == [md5 : Contents, version : Releases \cup {Bad}]

ASSUME VerifyAssumption ==
    /\ VerifySeq \in Seq(VerifyFiles) /\ IsInjective(VerifySeq)
    /\ BootFile \in VerifyFiles
    /\ Contents \cap {Missing, "NULL"} = {}
    /\ {Missing, Bad} \cap WellFormed = {} /\ Missing # Bad
    /\ Garbage \notin [valid : BOOLEAN, md5 : Contents, version : Releases \cup {Bad}]
    /\ Releases \subseteq Versions /\ Bad \notin Releases
    /\ Records \subseteq WellFormed \cup {Missing, Bad}

VARIABLES
    staged,     \* the files of verify_files in tmp_os
    newFile, curFile,     \* the two version.json files: a record per file, or Missing:
                          \* newFile can then not be read, curFile not be seen by stat()
    operation,  \* "update", or "recovery", which does not look at versions
    newJson, curJson,     \* struct verify_file_handle_s
    pc, i, verdict,
    unseen      \* the files a loop came to and whose stat() failed, with the loop

inputs == <<staged, newFile, curFile, operation>>
vars == <<inputs, newJson, curJson, pc, i, verdict, unseen>>

Loops == {"checksum", "version"}

OnDisk == [VerifyFiles -> Records] \cup {Missing}
NotLoaded == [valid |-> FALSE, file |-> [f \in VerifyFiles |-> Garbage]]

Init ==
    /\ staged \in [VerifyFiles -> Contents \cup {Missing}]
    /\ newFile \in OnDisk /\ curFile \in OnDisk
    /\ operation \in {"update", "recovery"}
    /\ newJson = NotLoaded /\ curJson = NotLoaded
    /\ pc = "load" /\ i = 1 /\ verdict = "none" /\ unseen = {}

-----------------------------------------------------------------------------
\* json_get_file_struct, of a record that is there.
FileStruct(record) ==
    IF record = Bad THEN [valid |-> FALSE, md5 |-> "NULL", version |-> Bad]
    ELSE [valid |-> TRUE, md5 |-> record.md5, version |-> record.version]

\* One that is absent is valid, with the strings of any of those seen so far.
Held(seen) ==
    (UNION {{file[f] : f \in VerifyFiles} : file \in seen \ {Missing}}) \ {Missing}
Leftovers(seen) ==
    {Garbage} \cup {[FileStruct(record) EXCEPT !.valid = TRUE] : record \in Held(seen)}

Entries(file, seen, f) ==
    IF file = Missing \/ file[f] = Missing THEN Leftovers(seen) ELSE {FileStruct(file[f])}

\* json_get_version_struct: a version.json that cannot be read is valid, with
\* no field set.
VersionStructs(file, seen) ==
    {[valid |-> TRUE, file |-> entries] : entries \in
        {e \in [VerifyFiles -> UNION {Entries(file, seen, f) : f \in VerifyFiles}] :
            \A f \in VerifyFiles : e[f] \in Entries(file, seen, f)}}

\* json_get_fallback: the files are valid, but what holds them is not.
Zero == [major |-> 0, minor |-> 0, patch |-> 0]
Fallback ==
    [valid |-> FALSE,
     file |-> [f \in VerifyFiles |-> [valid |-> TRUE, md5 |-> "", version |-> Zero]]]

\* json_get_verify_files.  An installed version.json that is there but cannot be
\* read is one with every record missing.
NewJson == VersionStructs(newFile, {newFile})
CurJson ==
    IF curFile = Missing THEN {Fallback} ELSE VersionStructs(curFile, {newFile, curFile})

Load ==
    /\ pc = "load"
    /\ newJson' \in NewJson /\ curJson' \in CurJson
    /\ pc' = "checksum"
    /\ UNCHANGED <<inputs, i, verdict, unseen>>

\* Mutant: patch levels are compared whatever the minor versions are.
MutIsLhsNewer(l, r) ==
    \/ l.major > r.major
    \/ l.major = r.major /\ l.minor > r.minor
    \/ l.major = r.major /\ l.patch >= r.patch

\* version_is_lhs_newer, which also takes an equal version.
IsLhsNewer(l, r) ==
    \/ l.major > r.major
    \/ l.major = r.major /\ l.minor > r.minor
    \/ l.major = r.major /\ l.minor = r.minor /\ l.patch >= r.patch

\* Both loops end at the first file for which stat() does not return 0.
File == VerifySeq[i]
Left == i <= Len(VerifySeq) /\ staged[File] # Missing /\ <<pc, File>> \notin unseen

\* path_check_if_exists takes any error of stat() for a file that is not there.
StatFails ==
    /\ pc \in Loops /\ Left
    /\ unseen' = unseen \cup {<<pc, File>>}
    /\ UNCHANGED <<inputs, newJson, curJson, pc, i, verdict>>

\* The loop goes on, or its function returns, or there is no coming back from it.
Go == i' = i + 1 /\ UNCHANGED <<inputs, newJson, curJson, pc, verdict, unseen>>
Conclude(v) ==
    pc' = "cleanup" /\ verdict' = v /\ UNCHANGED <<inputs, newJson, curJson, i, unseen>>
Refuse == Conclude("refuse")
Fault ==
    pc' = "done" /\ verdict' = "fault" /\ UNCHANGED <<inputs, newJson, curJson, i, unseen>>

\* Mutant: a file without a record in version.json is taken as it is.
MutChecksumVerify ==
    /\ pc = "checksum" /\ Left
    /\ LET entry == newJson.file[File] IN
       IF entry = Garbage THEN Go
       ELSE IF entry.valid /\ entry.md5 = staged[File] THEN Go ELSE Refuse

ChecksumVerify ==
    /\ pc = "checksum" /\ Left
    /\ LET entry == newJson.file[File] IN
       IF entry = Garbage THEN Refuse \/ Fault
       ELSE IF entry.valid /\ entry.md5 = staged[File] THEN Go ELSE Refuse

\* Mutant: a recovery compares versions as an update does.
MutChecksumDone ==
    /\ pc = "checksum" /\ ~Left
    /\ i' = 1 /\ pc' = "version"
    /\ UNCHANGED <<inputs, newJson, curJson, verdict, unseen>>

ChecksumDone ==
    /\ pc = "checksum" /\ ~Left
    /\ i' = 1
    /\ IF operation = "update" THEN pc' = "version" /\ UNCHANGED verdict
                               ELSE pc' = "cleanup" /\ verdict' = "accept"
    /\ UNCHANGED <<inputs, newJson, curJson, unseen>>

\* version_get of both sides; it does not ask whether the file's entry is valid, but
\* the string that json_get_file_struct then left is not a version.  A refusal before
\* the second call jumps to where the version_s that it fills is cleaned up.
VersionCheck ==
    /\ pc = "version" /\ Left
    /\ LET new == newJson.file[File]
           cur == curJson.file[File]
       IN  IF ~newJson.valid \/ new = Garbage THEN Refuse \/ Fault
           ELSE IF new.version = Bad THEN Refuse \/ Fault
           ELSE IF ~curJson.valid THEN Refuse
           ELSE IF cur = Garbage THEN Refuse \/ Fault
           ELSE IF cur.version # Bad /\ IsLhsNewer(new.version, cur.version) THEN Go
           ELSE Refuse

VersionDone ==
    /\ pc = "version" /\ ~Left
    /\ Conclude("accept")

(***************************************************************************)
(* verify_file_handle_cleanup frees the three strings of boot.bin on both  *)
(* sides.  They are its own where a version.json was read that has such a  *)
(* record, broken or not; else literals of json_get_fallback, the strings  *)
(* of the other side, or whatever the stack held.                          *)
(***************************************************************************)
OwnBoot(file) == file # Missing /\ file[BootFile] # Missing

Cleanup ==
    /\ pc = "cleanup" /\ pc' = "done"
    /\ \/ UNCHANGED verdict
       \/ ~(OwnBoot(newFile) /\ OwnBoot(curFile)) /\ verdict' = "fault"
    /\ UNCHANGED <<inputs, newJson, curJson, i, unseen>>

Next ==
    \/ Load \/ StatFails \/ ChecksumVerify \/ ChecksumDone
    \/ VersionCheck \/ VersionDone \/ Cleanup

Spec == Init /\ [][Next]_vars
-----------------------------------------------------------------------------
\* The files that a loop comes to.
Checked(loop) ==
    {VerifySeq[k] : k \in {m \in DOMAIN VerifySeq : \A j \in 1..m :
        staged[VerifySeq[j]] # Missing /\ <<loop, VerifySeq[j]>> \notin unseen}}

\* A version as a number; the three fields are below 100.
Ordinal(v) == v.major * 10000 + v.minor * 100 + v.patch

ChecksumRight(f) ==
    newFile # Missing /\ newFile[f] \in WellFormed /\ newFile[f].md5 = staged[f]

\* A staged file without a record can only pass for another one that has it.
Listed(f) ==
    /\ newFile # Missing
    /\ IF newFile[f] = Missing
       THEN \E g \in VerifyFiles : newFile[g] \in WellFormed /\ newFile[g].md5 = staged[f]
       ELSE ChecksumRight(f)

NotBelow(f) ==
    /\ newFile # Missing /\ curFile # Missing
    /\ newFile[f] # Missing /\ curFile[f] # Missing =>
         /\ newFile[f] \in WellFormed /\ curFile[f] \in WellFormed
         /\ curFile[f].version # Bad /\ newFile[f].version # Bad
         /\ Ordinal(newFile[f].version) >= Ordinal(curFile[f].version)

(***************************************************************************)
(* An accepted package, on any mixture of absent and broken records: every *)
(* file that the checksum loop comes to has the contents of one that the   *)
(* staged version.json lists, itself if it has a record; and for an update *)
(* of which the version loop comes to a file there is an installed         *)
(* version.json, whose version of the file, if both name one, is not above *)
(* the new one.  Neither loop comes to what lies behind a file that is     *)
(* absent or whose stat() fails.  checksum_verify and version_check.       *)
(***************************************************************************)
AcceptedIsChecked ==
    verdict = "accept" =>
        /\ \A f \in Checked("checksum") : Listed(f)
        /\ operation = "update" => \A f \in Checked("version") : NotBelow(f)

(***************************************************************************)
(* A recovery asks nothing of the installed release: whatever is left of   *)
(* it, files that match their staged version.json are not refused.  They   *)
(* are accepted, unless the cleanup faults: it can when the installed      *)
(* version.json is absent, cannot be read or has no record of boot.bin,    *)
(* just what a recovery is there to mend, or when the staged one has none. *)
(***************************************************************************)
Recoverable ==
    operation = "recovery" /\ pc = "done" /\ newFile # Missing
      /\ (\A f \in Checked("checksum") : ChecksumRight(f))
    => \/ verdict = "accept"
       \/ verdict = "fault" /\ ~(OwnBoot(newFile) /\ OwnBoot(curFile))

(***************************************************************************)
(* What version_json.h says of json_get_verify_files: if any of the values *)
(* of the returned struct is set valid = false, the user should fail the   *)
(* procedure; here only for a file that is in the package.                 *)
(***************************************************************************)
InvalidFails ==
    verdict = "accept" =>
        /\ newJson.valid
        /\ \A f \in VerifyFiles :
             staged[f] # Missing /\ newJson.file[f] # Garbage => newJson.file[f].valid
-----------------------------------------------------------------------------
\* The inductive invariant: what each loop has found of the files it has passed.
TypeOK ==
    /\ staged \in [VerifyFiles -> Contents \cup {Missing}]
    /\ newFile \in OnDisk /\ curFile \in OnDisk
    /\ operation \in {"update", "recovery"}
    /\ pc \in {"load", "checksum", "version", "cleanup", "done"}
    /\ i \in 1..(Len(VerifySeq) + 1)
    /\ verdict \in {"none", "accept", "refuse", "fault"}
    /\ verdict # "none" => pc \in {"cleanup", "done"}
    /\ unseen \subseteq Loops \X VerifyFiles

Loaded == pc \in Loops => newJson \in NewJson /\ curJson \in CurJson

Passed == {VerifySeq[k] : k \in 1..(i - 1)}

LoopsPassed ==
    /\ pc = "load" => i = 1
    /\ pc \in Loops => \A f \in Passed : staged[f] # Missing /\ <<pc, f>> \notin unseen
    /\ pc = "checksum" => \A f \in Passed : Listed(f)
    /\ pc = "version" =>
         /\ operation = "update"
         /\ \A f \in Checked("checksum") : Listed(f)
         /\ \A f \in Passed : NotBelow(f)

\* The verdict on a recovery, before the cleanup.
Concluded ==
    operation = "recovery" /\ pc = "cleanup" /\ newFile # Missing
      /\ (\A f \in Checked("checksum") : ChecksumRight(f))
    => verdict = "accept"

VInv == TypeOK /\ Loaded /\ LoopsPassed /\ Concluded /\ AcceptedIsChecked /\ Recoverable
=============================================================================
