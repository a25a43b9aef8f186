------------------------------ MODULE Archive ------------------------------
(***************************************************************************)
(* The tar archives: backups appended to backup.tar, two lists of files    *)
(* one after the other, and the unpacking of an archive into an empty      *)
(* staging area, block by block and in chunks of the buffer of a tar_ctx.  *)
(* The archive may be there already, from another program, and then ends   *)
(* with a null record; the updater never writes one.  Records of catalogs  *)
(* are left out.                                                           *)
(***************************************************************************)
EXTENDS Integers, Sequences

CONSTANTS
    Files, Contents, None,
    Size,     \* of a content, in blocks
    Chunk,    \* ctx->size, in blocks
    Lists,    \* backup_boot_files, and the files get_files_flat finds
    Images,   \* what may be installed when a run starts: contents, None for no file
    Archives, \* the records of an archive another program left, or none
    Zeros,    \* blocks of contents that read as a null record
    MaxRuns   \* bound of the backups and unpacks

ASSUME ArchiveAssumption ==
    /\ None \notin Contents /\ None \notin Files
    /\ Size \in [Contents -> Nat] /\ Chunk \in Nat \ {0} /\ MaxRuns \in Nat
    /\ Lists \in [1..2 -> Seq(Files)]
    /\ Images \subseteq [Files -> Contents \cup {None}]
    /\ Archives \subseteq Seq(Files \X Contents)
    /\ Zeros \subseteq Contents \X Nat

Header(f, c) == [kind |-> "header", file |-> f, content |-> c, nth |-> 0]
Data(c, k) == [kind |-> "data", file |-> None, content |-> c, nth |-> k]
NullRecord == [kind |-> "null", file |-> None, content |-> None, nth |-> 0]
Part == [kind |-> "part", file |-> None, content |-> None, nth |-> 0]  \* less than a block

Block ==
    [kind : {"header"}, file : Files, content : Contents, nth : {0}]
      \cup [kind : {"data"}, file : {None}, content : Contents, nth : Nat]
      \cup {NullRecord, Part}

Body(c, from, to) == [j \in 1..(to - from + 1) |-> Data(c, from + j - 1)]

\* The blocks of records, one after the other.
Flat(recs) ==
    LET flat[r \in 0..Len(recs)] ==
          IF r = 0 THEN <<>>
          ELSE flat[r - 1] \o <<Header(recs[r][1], recs[r][2])>>
                 \o Body(recs[r][2], 1, Size[recs[r][2]])
    IN flat[Len(recs)]

\* The blocks at which records begin that stand one after the other, and the one
\* behind the last.
Place(recs) ==
    LET at[r \in 1..(Len(recs) + 1)] ==
          IF r = 1 THEN 1 ELSE at[r - 1] + 1 + Size[recs[r - 1][2]]
    IN at

VARIABLES
    disk,    \* installed files
    old,     \* the records of the other program
    tar,     \* the archive, in blocks
    step,    \* "idle"; "append", "body" of a backup; "header", "extract" of an unpack;
             \* the results "backed", "unpacked" and "failed"; "fault"
    lst, nth,  \* place in Lists
    k,       \* blocks of the file that are done
    base,    \* length of the archive before the backup
    pos,     \* block of the header
    put,     \* offset of the output file
    out,     \* staged files
    cut,     \* a write was "short", or all were "whole"
    torn,    \* a backup was "torn", or "none" was
    runs

vars == <<disk, old, tar, step, lst, nth, k, base, pos, put, out, cut, torn, runs>>
unpackvars == <<pos, put, out, cut>>
backupvars == <<lst, nth, base, tar, torn>>

Min2(a, b) == IF a < b THEN a ELSE b

Init ==
    /\ disk \in Images /\ old \in Archives
    /\ tar = IF old = <<>> THEN <<>> ELSE Flat(old) \o <<NullRecord>>
    /\ step = "idle" /\ lst = 1 /\ nth = 1 /\ k = 0 /\ base = 0
    /\ pos = 1 /\ put = 0 /\ out = [f \in Files |-> <<>>]
    /\ cut = "whole" /\ torn = "none" /\ runs = 0

\* A run of the updater: MuditaOS has changed what is installed.
Start(first) ==
    /\ step \in {"idle", "backed", "unpacked", "failed"} /\ runs < MaxRuns
    /\ runs' = runs + 1 /\ disk' \in Images /\ step' = first
    /\ UNCHANGED old

-----------------------------------------------------------------------------
StartBackup ==
    /\ Start("append")
    /\ lst' = 1 /\ nth' = 1 /\ k' = 0 /\ base' = Len(tar)
    /\ UNCHANGED <<tar, torn>> /\ UNCHANGED unpackvars

Listed == nth <= Len(Lists[lst])
File == Lists[lst][nth]

\* A file that does not exist is no error.
Skip ==
    /\ step = "append" /\ Listed /\ disk[File] = None
    /\ nth' = nth + 1
    /\ UNCHANGED <<disk, old, tar, step, lst, k, base, torn, runs>> /\ UNCHANGED unpackvars

WriteHeader ==
    /\ step = "append" /\ Listed /\ disk[File] # None
    /\ tar' = Append(tar, Header(File, disk[File]))
    /\ k' = 0 /\ step' = "body"
    /\ UNCHANGED <<disk, old, lst, nth, base, torn, runs>> /\ UNCHANGED unpackvars

\* The blocks up to done of the file are put behind the archive.
Write(done) ==
    LET c == disk[File] IN
    /\ step = "body"
    /\ tar' = tar \o Body(c, k + 1, done) /\ k' = done
    /\ IF done >= Size[c] THEN step' = "append" /\ nth' = nth + 1 ELSE UNCHANGED <<step, nth>>
    /\ UNCHANGED <<disk, old, lst, base, torn, runs>> /\ UNCHANGED unpackvars

\* Mutant: the last chunk is as long as the buffer.
MutWriteChunk == Write(k + Chunk)

\* One turn of the loop of tar_file.
WriteChunk == Write(Min2(k + Chunk, Size[disk[File]]))

\* The archive with a tail of what this backup wrote lost, and perhaps a piece of a
\* block left of it or, when a file cannot be read, of the memory after the buffer.
Remains ==
    {SubSeq(tar, 1, j) : j \in base..Len(tar)}
      \cup {Append(SubSeq(tar, 1, j), Part) : j \in base..Len(tar)}

\* Anything that fails ends the backup; the archive is closed as it is.  Undefined: one
\* that fails to close is closed, and its buffer freed, twice.
AppendFail ==
    /\ step \in {"append", "body"}
    /\ tar' \in Remains
    /\ torn' = IF step = "append" /\ tar' = tar THEN torn ELSE "torn"
    /\ step' \in {"failed", "fault"}
    /\ UNCHANGED <<disk, old, lst, nth, k, base, runs>> /\ UNCHANGED unpackvars

ListDone ==
    /\ step = "append" /\ ~Listed
    /\ IF lst = 1 THEN lst' = 2 /\ nth' = 1 /\ UNCHANGED step
                  ELSE step' = "backed" /\ UNCHANGED <<lst, nth>>
    /\ UNCHANGED <<disk, old, tar, k, base, torn, runs>> /\ UNCHANGED unpackvars

-----------------------------------------------------------------------------
StartUnpack ==
    /\ Start("header")
    /\ pos' = 1 /\ k' = 0 /\ put' = 0 /\ cut' = "whole" /\ out' = [f \in Files |-> <<>>]
    /\ UNCHANGED backupvars

\* Behind a piece of a block the reading is out of step and may find anything.
ReadsNull(p) ==
    \/ tar[p].kind = "null"
    \/ tar[p].kind = "data" /\ <<tar[p].content, tar[p].nth>> \in Zeros
    \/ \E q \in 1..(p - 1) : tar[q].kind = "part"

\* The header is read twice; the second answer counts.
ReadHeader ==
    /\ step = "header" /\ pos <= Len(tar) /\ tar[pos].kind = "header"
    /\ k' = 0 /\ put' = 0 /\ step' = "extract"
    /\ UNCHANGED <<disk, old, pos, out, cut, runs>> /\ UNCHANGED backupvars

ReadEnd ==
    /\ step = "header" /\ pos <= Len(tar) /\ ReadsNull(pos)
    /\ step' = "unpacked"
    /\ UNCHANGED <<disk, old, k, pos, put, out, cut, runs>> /\ UNCHANGED backupvars

\* Blocks put at an offset of a file that is not truncated.
Over(file, at, blocks) ==
    [j \in 1..(IF at + Len(blocks) > Len(file) THEN at + Len(blocks) ELSE Len(file)) |->
       IF j > at /\ j <= at + Len(blocks) THEN blocks[j - at] ELSE file[j]]

\* Blocks k + 1 to done are read and written, or some of them: a write that stores less
\* than it was given is a success.  After the last one the next record is at next.
Extract(done, next) ==
    LET h == tar[pos]
        read == SubSeq(tar, pos + k + 1, pos + done) IN
    /\ step = "extract" /\ pos + done <= Len(tar)
    /\ \E wrote \in 0..Len(read) :
         /\ out' = [out EXCEPT ![h.file] = Over(@, put, SubSeq(read, 1, wrote))]
         /\ put' = put + wrote
         /\ cut' = IF wrote < Len(read) THEN "short" ELSE cut
    /\ k' = done
    /\ IF done = Size[h.content] THEN step' = "header" /\ pos' = next
                                 ELSE UNCHANGED <<step, pos>>
    /\ UNCHANGED <<disk, old, runs>> /\ UNCHANGED backupvars

Done == Min2(k + Chunk, Size[tar[pos].content])

\* Mutant: the next record is looked for behind what the last chunk read.
MutExtractChunk == Extract(Done, pos + 1 + Done - k)

\* One turn of the loop of un_tar_file, and tar_next after the last one.
ExtractChunk == Extract(Done, pos + 1 + Done)

\* The end of the file, which is what an archive of the updater ends with, a block
\* that is no header, and whatever fails.
UnpackFail ==
    /\ step \in {"header", "extract"}
    /\ step' = "failed"
    /\ UNCHANGED <<disk, old, k, pos, put, out, cut, runs>> /\ UNCHANGED backupvars

-----------------------------------------------------------------------------
PowerCut ==
    /\ step \in {"append", "body", "header", "extract"}
    /\ \/ step \in {"append", "body"} /\ tar' \in Remains /\ torn' = "torn"
       \/ step \in {"header", "extract"} /\ UNCHANGED <<tar, torn>>
    /\ step' = "idle"
    /\ UNCHANGED <<disk, old, lst, nth, k, base, runs>> /\ UNCHANGED unpackvars

Next ==
    \/ StartBackup \/ Skip \/ WriteHeader \/ WriteChunk \/ AppendFail \/ ListDone
    \/ StartUnpack \/ ReadHeader \/ ReadEnd \/ ExtractChunk \/ UnpackFail
    \/ PowerCut

Spec == Init /\ [][Next]_vars
-----------------------------------------------------------------------------
\* A whole record at block p.
Holds(p, f, c) ==
    /\ p + Size[c] <= Len(tar) /\ tar[p] = Header(f, c)
    /\ \A j \in 1..Size[c] : tar[p + j] = Data(c, j)

\* Where the record begins that a backup is writing, or the next one.
Begin == IF step = "body" THEN Len(tar) - k ELSE Len(tar) + 1

\* The place l, i of Lists comes before the one that a backup is at.
Passed(l, i) ==
    /\ i \in 1..Len(Lists[l])
    /\ step = "backed" \/ l < lst \/ (l = lst /\ i < nth)

\* Block p is one of a whole record that stands between block b and block e.
InRecord(b, p, e) == \E q \in (b + 1)..p :
    /\ tar[q].kind = "header" /\ Holds(q, tar[q].file, tar[q].content)
    /\ p <= q + Size[tar[q].content] /\ q + Size[tar[q].content] < e

\* Behind block b there are only whole records.
Whole(b) == \A p \in (b + 1)..(Begin - 1) : InRecord(b, p, Begin)

\* File f of what is installed, if there is one, is in a record before block e.
Copied(f, e) == disk[f] # None => \E p \in (base + 1)..(e - 1) : Holds(p, f, disk[f])

\* What a backup has appended is whole records, one after the other, and they hold
\* every file of the lists so far that is installed.
Appended == step \in {"append", "body", "backed"} =>
    /\ base < Begin /\ Whole(base)
    /\ \A l \in 1..2 : \A i \in 1..Len(Lists[l]) : Passed(l, i) => Copied(Lists[l][i], Begin)
    /\ step = "body" =>
         /\ Listed /\ disk[File] # None /\ k <= Size[disk[File]]
         /\ tar[Len(tar) - k] = Header(File, disk[File])
         /\ \A j \in 1..k : tar[Len(tar) - k + j] = Data(disk[File], j)

TypeOK ==
    /\ disk \in [Files -> Contents \cup {None}] /\ old \in Seq(Files \X Contents)
    /\ tar \in Seq(Block) /\ out \in [Files -> Seq(Block)]
    /\ step \in {"idle", "append", "body", "header", "extract", "backed", "unpacked",
                 "failed", "fault"}
    /\ lst \in 1..2 /\ nth \in 1..(Len(Lists[lst]) + 1) /\ k \in Nat
    /\ base \in 0..Len(tar) /\ pos \in Nat \ {0} /\ put \in Nat
    /\ cut \in {"whole", "short"} /\ torn \in {"none", "torn"} /\ runs \in 0..MaxRuns

\* A file that is unpacked has a header, and what was written of it has no gap.
Unpacking == step = "extract" =>
    /\ pos <= Len(tar) /\ tar[pos].kind = "header"
    /\ k <= Size[tar[pos].content] /\ put <= Len(out[tar[pos].file])

BackupInv == TypeOK /\ Unpacking /\ Appended

\* The records of the other program, and the null record behind them, stay where they are.
Laid == old # <<>> =>
    LET at == Place(old)  end == at[Len(old) + 1] IN
    /\ end <= Len(tar) /\ tar[end] = NullRecord
    /\ \A p \in 1..end : tar[p].kind # "part"
    /\ \A r \in 1..Len(old) : Holds(at[r], old[r][1], old[r][2])
    /\ step \in {"append", "body", "backed"} => end <= base

\* An archive that the updater wrote from nothing is whole records, and an unpack of it
\* goes from header to header.
Clean == old = <<>> /\ torn = "none" =>
    /\ Whole(0)
    /\ step \in {"header", "extract"} => pos > Len(tar) \/ tar[pos].kind = "header"

Copies(f) == {r \in 1..Len(old) : old[r][1] = f}
Before(f, r) == {q \in Copies(f) : q < r}

\* File f begins with m blocks of record r.
Staged(f, r, m) == m <= Len(out[f]) /\ \A j \in 1..m : out[f][j] = Data(old[r][2], j)

\* File f has been unpacked as the records before r have it.
Unpacked(f, r) ==
    /\ Before(f, r) = {} => out[f] = <<>>
    /\ Before(f, r) # {} => \E q \in Before(f, r) : Len(out[f]) <= Size[old[q][2]]
    /\ \A q \in Before(f, r) :
         (\A s \in Before(f, r) : s <= q) => Staged(f, q, Size[old[q][2]])

\* File f is being unpacked over what it was.
Halfway(f, r) ==
    /\ put = k /\ Staged(f, r, k)
    /\ \E q \in Copies(f) : q <= r /\ Len(out[f]) <= Size[old[q][2]]

\* An unpack goes through the records of the other program and no further, and has
\* restored those before.
Through == step \in {"header", "extract"} /\ old # <<>> =>
    \E r \in 1..(Len(old) + 1) :
      /\ pos = Place(old)[r]
      /\ step = "extract" => r <= Len(old)
      /\ cut = "whole" => \A f \in Files :
           IF step = "extract" /\ f = old[r][1] THEN Halfway(f, r) ELSE Unpacked(f, r)

\* A backup that succeeds has put every installed file it names behind what the archive
\* held, each as one whole record and nothing between them (tar_file, and the two that
\* call it; a buffer at a time, of files of any length); what was there stays, and an
\* unpack finds its records one by one (un_tar_file, tar_next).
AInv == BackupInv /\ Laid /\ Clean /\ Through

\* What an unpack that succeeds has restored: of an archive that the updater wrote from
\* nothing, nothing is, for it has no end, unless the record of a backup that was cut
\* off leads the reading astray; of one that was there before, its files and none of
\* what backups put behind its end, each file as its last copy has it when no copy
\* before it is longer.  A short write may leave less (unpack, un_tar_file, tar_deinit).
Restored == step = "unpacked" =>
    /\ old = <<>> => torn = "torn"
    /\ old # <<>> /\ cut = "whole" => \A f \in Files :
         /\ Copies(f) = {} => out[f] = <<>>
         /\ \A r \in Copies(f) :
              (\A q \in Copies(f) : q <= r /\ Size[old[q][2]] <= Size[old[r][2]])
                => out[f] = Body(old[r][2], 1, Size[old[r][2]])
=============================================================================
