------------------------------ MODULE Ecoboot -------------------------------
(***************************************************************************)
(* ecoboot_update (flash_ecoboot, verify_ecoboot, unlink) over blk_read    *)
(* and blk_write of disks.c.  The eMMC has one partition selected at a     *)
(* time; a transfer to the boot partition selects it and, if all goes      *)
(* well, selects the user area again.  The file that is flashed, the log,  *)
(* the status file and everything else live in the user area.              *)
(***************************************************************************)
EXTENDS Integers, Sequences, FiniteSets

CONSTANTS
    Chunk,        \* SECTORS_PER_TRANSFER, 32
    MinSectors,   \* minimal_size, 64 KiB: 128 sectors
    BootSectors,  \* size of the boot partition; its sectors are 1..BootSectors
    Images,       \* ecoboot.bin files: sequences of sectors
    Old, Junk, Foreign,  \* other contents of a sector: as delivered, of memory
                         \* that was never written, of a file in the user area
    MaxRuns,      \* bound: how many runs install a boot loader
    MaxForeign    \* bound: sectors of the boot partition with contents of the user area

Sectors == 1..BootSectors
ImageData == UNION {{img[s] : s \in DOMAIN img} : img \in Images}
Data == ImageData \cup {Old, Junk, Foreign}

ASSUME EcobootAssumption ==
    /\ Chunk \in Nat \ {0} /\ MinSectors \in Nat /\ MinSectors > Chunk
    /\ BootSectors \in Nat /\ MaxRuns \in Nat
    /\ \A img \in Images : img \in Seq(ImageData) /\ Len(img) > 0
    /\ {Old, Junk, Foreign} \cap ImageData = {}

VARIABLES
    boot,      \* the boot partition
    selected,  \* the partition the eMMC transfers to: "user" or "boot1"
    file,      \* ecoboot.bin of this run ...
    there,     \* ... and whether it is in /os/current
    func,      \* "flash", "verify" or "update": the function that runs
    pc,        \* its step
    sz, lba,   \* its locals: what is left of the file, the next sector less one
    buf, buf1, \* its buffers: what was read of the file, of the boot partition
    ferror,    \* the error flag of its FILE
    ret,       \* of ecoboot_update: "none", "ok", "vfs" or "error"
    runs,      \* number of runs so far
    fault,     \* history: some call failed in this run, or the power went
    before     \* history: the boot partition when this run began

locals == <<sz, lba, buf, buf1, ferror>>
vars == <<boot, selected, file, there, func, pc, locals, ret, runs, fault, before>>

Empty == [i \in 1..Chunk |-> Junk]

Init ==
    /\ boot = [s \in Sectors |-> Old] /\ selected = "user"
    /\ file \in Images /\ there = FALSE
    /\ func = "update" /\ pc = "off" /\ ret = "none"
    /\ sz = 0 /\ lba = 0 /\ buf = Empty /\ buf1 = Empty /\ ferror = FALSE
    /\ runs = 0 /\ fault = FALSE /\ before = boot

\* update_firmware has moved an ecoboot.bin into /os/current and calls ecoboot_update.
PowerOn(img) ==
    /\ pc = "off" /\ runs < MaxRuns
    /\ file' = img /\ there' = TRUE
    /\ func' = "flash" /\ pc' = "open" /\ ret' = "none"
    /\ runs' = runs + 1 /\ fault' = FALSE /\ before' = boot
    /\ UNCHANGED <<boot, selected, locals>>

Return(result) == pc' = "done" /\ func' = "update" /\ ret' = result
FailsWith(flt) == Return("error") /\ fault' = flt
Fails == FailsWith(TRUE)
world == <<boot, selected, file, there, runs, before>>

-----------------------------------------------------------------------------
\* Mutant: the size of the file is not looked at.
MutOpen ==
    /\ pc = "open"
    /\ sz' = Len(file) /\ lba' = 0 /\ ferror' = FALSE
    /\ buf' = Empty /\ buf1' = Empty
    /\ pc' = IF func = "flash" THEN "read" ELSE "select"
    /\ UNCHANGED <<world, func, ret, fault>>

\* blk_info, malloc, and open_ecoboot_file, which refuses a small file.
Open ==
    /\ pc = "open" /\ Len(file) >= MinSectors
    /\ sz' = Len(file) /\ lba' = 0 /\ ferror' = FALSE
    /\ buf' = Empty /\ buf1' = Empty
    /\ pc' = IF func = "flash" THEN "read" ELSE "select"
    /\ UNCHANGED <<world, func, ret, fault>>

OpenFails ==
    /\ pc = "open"
    /\ FailsWith(fault \/ Len(file) >= MinSectors)
    /\ UNCHANGED <<world, locals>>

-----------------------------------------------------------------------------
\* fread.  The buffer keeps what it had beyond what was read; what is read while
\* the boot partition is selected is not the file.
Pos == Len(file) - sz
Filled(n) ==
    [i \in 1..Chunk |-> IF i > n THEN buf[i]
                        ELSE IF selected = "user" THEN file[Pos + i] ELSE Junk]
Wanted == IF sz < Chunk THEN sz ELSE Chunk
AfterRead == IF func = "flash" THEN "select" ELSE "compare"

ReadChunk ==
    /\ pc = "read" /\ sz > 0
    /\ buf' = Filled(Wanted) /\ sz' = sz - Wanted
    /\ pc' = AfterRead
    /\ UNCHANGED <<world, func, lba, buf1, ferror, ret, fault>>

\* An error after n whole sectors; the loop goes on with them once more.
ReadShort(n) ==
    /\ pc = "read" /\ sz >= Chunk /\ n \in 1..(Chunk - 1)
    /\ buf' = Filled(n) /\ sz' = sz - n /\ ferror' = TRUE
    /\ pc' = AfterRead /\ fault' = TRUE
    /\ UNCHANGED <<world, func, lba, buf1, ret>>

ReadFails ==
    /\ pc = "read" /\ sz > 0
    /\ Fails /\ ferror' = TRUE
    /\ UNCHANGED <<world, sz, lba, buf, buf1>>

\* Mutant: the loop tries once more.
MutReadEnd ==
    /\ pc = "read" /\ sz = 0
    /\ UNCHANGED vars

\* Nothing is left: an fread of size zero returns zero, and the loop is left.
ReadEnd ==
    /\ pc = "read" /\ sz = 0
    /\ IF func = "flash" THEN func' = "verify" /\ pc' = "open"
                         ELSE func' = "update" /\ pc' = "unlink"
    /\ UNCHANGED <<world, locals, ret, fault>>

-----------------------------------------------------------------------------
\* blk_write and blk_read of Chunk sectors from lba on.
Select ==
    /\ pc = "select"
    /\ selected' = "boot1" /\ pc' = "transfer"
    /\ UNCHANGED <<boot, file, there, func, locals, ret, runs, fault, before>>

\* Mutant: the last sector is out of range.
MutInRange == lba + Chunk < BootSectors

\* part_lba_to_disc_lba
InRange == lba + Chunk <= BootSectors
Target == (lba + 1)..(lba + Chunk)

OutOfRange ==
    /\ pc = "transfer" /\ ~InRange
    /\ FailsWith(fault)
    /\ UNCHANGED <<world, locals>>

\* Some of the sectors of the transfer, or all of them, are written.
Written(part) == [s \in Sectors |-> IF s \in part THEN buf[s - lba] ELSE boot[s]]

\* A card that reports a success it did not have is what verify_ecoboot is for.
WriteBlocks ==
    /\ pc = "transfer" /\ func = "flash" /\ InRange
    /\ \E part \in SUBSET Target :
         boot' = Written(part) /\ fault' = (fault \/ part # Target)
    /\ pc' = "deselect"
    /\ UNCHANGED <<selected, file, there, func, locals, ret, runs, before>>

ReadBlocks ==
    /\ pc = "transfer" /\ func = "verify" /\ InRange
    /\ buf1' = [i \in 1..Chunk |-> boot[lba + i]] /\ pc' = "deselect"
    /\ UNCHANGED <<world, func, sz, lba, buf, ferror, ret, fault>>

TransferFails ==
    /\ pc = "transfer" /\ InRange
    /\ Fails
    /\ IF func = "flash" THEN \E part \in SUBSET Target : boot' = Written(part)
                         ELSE UNCHANGED boot
    /\ UNCHANGED <<selected, file, there, locals, runs, before>>

\* Mutant: the boot partition stays selected.
MutDeselect ==
    /\ pc = "deselect"
    /\ lba' = lba + Chunk
    /\ IF func = "flash" /\ ferror THEN Fails
       ELSE pc' = "read" /\ UNCHANGED <<func, ret, fault>>
    /\ UNCHANGED <<boot, selected, file, there, sz, buf, buf1, ferror, runs, before>>

Deselect ==
    /\ pc = "deselect"
    /\ selected' = "user" /\ lba' = lba + Chunk
    /\ IF func = "flash" /\ ferror THEN Fails
       ELSE pc' = "read" /\ UNCHANGED <<func, ret, fault>>
    /\ UNCHANGED <<boot, file, there, sz, buf, buf1, ferror, runs, before>>

\* MMC_SelectPartition fails, with either partition selected after it.
SelectFails ==
    /\ pc \in {"select", "deselect"}
    /\ selected' \in {"user", "boot1"}
    /\ Fails
    /\ UNCHANGED <<boot, file, there, locals, runs, before>>

-----------------------------------------------------------------------------
\* Mutant: the last sector of a transfer is not compared.
MutCompare ==
    /\ pc = "compare"
    /\ IF (\E i \in 1..(Chunk - 1) : buf[i] # buf1[i]) \/ ferror THEN FailsWith(fault)
       ELSE pc' = "select" /\ UNCHANGED <<func, ret, fault>>
    /\ UNCHANGED <<world, locals>>

\* memcmp of the whole buffers, then the test of the loop.
Compare ==
    /\ pc = "compare"
    /\ IF buf # buf1 \/ ferror THEN FailsWith(fault)
       ELSE pc' = "select" /\ UNCHANGED <<func, ret, fault>>
    /\ UNCHANGED <<world, locals>>

Unlink ==
    /\ pc = "unlink"
    /\ \/ Return("ok") /\ there' = FALSE /\ UNCHANGED fault
       \/ Return("vfs") /\ fault' = TRUE /\ UNCHANGED there
    /\ UNCHANGED <<boot, selected, file, locals, runs, before>>

\* The log, the status file and the unmount write to the user area, that is, to
\* the partition that is selected.
UserWrite ==
    /\ pc = "done" /\ selected = "boot1"
    /\ Cardinality({s \in Sectors : boot[s] = Foreign}) < MaxForeign
    /\ \E s \in Sectors : boot' = [boot EXCEPT ![s] = Foreign]
    /\ UNCHANGED <<selected, file, there, func, pc, locals, ret, runs, fault, before>>

\* The updater resets the system, or the power goes, perhaps in a transfer.
Off ==
    /\ pc # "off"
    /\ IF pc = "transfer" /\ func = "flash" /\ InRange
       THEN \E part \in SUBSET Target : boot' = Written(part)
       ELSE UNCHANGED boot
    /\ selected' = "user" /\ pc' = "off" /\ func' = "update" /\ ret' = "none"
    /\ sz' = 0 /\ lba' = 0 /\ buf' = Empty /\ buf1' = Empty /\ ferror' = FALSE
    /\ UNCHANGED <<file, there, runs, fault, before>>

-----------------------------------------------------------------------------
Read == ReadChunk \/ (\E n \in 1..(Chunk - 1) : ReadShort(n)) \/ ReadFails \/ ReadEnd
Transfer ==
    Select \/ OutOfRange \/ WriteBlocks \/ ReadBlocks \/ TransferFails \/ Deselect \/ SelectFails

Program == Open \/ OpenFails \/ Read \/ Transfer \/ Compare \/ Unlink

Next == Program \/ UserWrite \/ Off \/ \E img \in Images : PowerOn(img)

Spec == Init /\ [][Next]_vars

\* Nothing here waits while the power is on.
FairSpec == Spec /\ WF_vars(Program)
-----------------------------------------------------------------------------
TypeOK ==
    /\ boot \in [Sectors -> Data] /\ before \in [Sectors -> Data]
    /\ selected \in {"user", "boot1"} /\ file \in Images
    /\ there \in BOOLEAN /\ ferror \in BOOLEAN /\ fault \in BOOLEAN
    /\ func \in {"flash", "verify", "update"}
    /\ pc \in {"off", "open", "read", "select", "transfer", "deselect", "compare",
               "unlink", "done"}
    /\ sz \in Nat /\ lba \in Nat
    /\ buf \in [1..Chunk -> Data] /\ buf1 \in [1..Chunk -> Data]
    /\ ret \in {"none", "ok", "vfs", "error"} /\ runs \in 0..MaxRuns

Flashed == \A s \in DOMAIN file : s \in Sectors /\ boot[s] = file[s]

Outcome ==
    IF pc = "off" THEN "off"
    ELSE IF ret = "none" THEN "running"
    ELSE IF ret = "error" THEN "failed" ELSE "ok"

Promise == INSTANCE BootLoader WITH flashed <- Flashed, outcome <- Outcome

(***************************************************************************)
(* ecoboot_update keeps the promise that Updater relies on, whatever       *)
(* transfer, read, or selection of a partition fails, silently or not.     *)
(***************************************************************************)
BootSpec == Promise!Spec

(***************************************************************************)
(* ecoboot.bin is removed only when the boot partition was read back and   *)
(* compared with it: without the file, the boot loader is the one it held, *)
(* also after power cuts.                                                  *)
(***************************************************************************)
FileKept == runs > 0 /\ ~there => Flashed

(***************************************************************************)
(* Until a call fails, every sector is as this run found it or holds data  *)
(* of the image.  Transfers are longer than the end of the image; what     *)
(* they write beyond it is what the buffer had before, image data too,     *)
(* since no image is shorter than a transfer.  And no write meant for the  *)
(* user area is made while the boot partition is selected.                 *)
(***************************************************************************)
OnlyTheImage ==
    pc # "off" /\ ret # "error" /\ ~ferror =>
        \A s \in Sectors : boot[s] = before[s] \/ \E t \in DOMAIN file : boot[s] = file[t]

(***************************************************************************)
(* Without an error of the card or of the file system an image is refused  *)
(* only for its size: it is too small, or it reaches the last transfer of  *)
(* the boot partition, which verify_ecoboot needs for the block that it    *)
(* reads after the last one.                                               *)
(***************************************************************************)
Blocks == (Len(file) + Chunk - 1) \div Chunk
RefusedForSize ==
    ret = "error" /\ ~fault =>
        Len(file) < MinSectors \/ (Blocks + 1) * Chunk > BootSectors

(***************************************************************************)
(* The loops over the file, whose only way out is a read of no sectors or  *)
(* an error, end.                                                          *)
(***************************************************************************)
LoopsEnd == pc = "open" ~> pc \in {"done", "off"}
-----------------------------------------------------------------------------
\* Which partition is selected, and what is known of the result, at every step.
Discipline ==
    /\ pc \in {"off", "open", "read", "select", "compare", "unlink"} => selected = "user"
    /\ pc \in {"transfer", "deselect"} => selected = "boot1"
    /\ pc \in {"open", "read", "select", "transfer", "deselect"} => func \in {"flash", "verify"}
    /\ pc = "compare" => func = "verify"
    /\ pc \in {"off", "unlink", "done"} => func = "update"
    /\ ret # "none" <=> pc = "done"
    /\ ret \in {"ok", "vfs"} => selected = "user" /\ Flashed
    /\ ~there => pc = "off" \/ ret = "ok"
    /\ pc = "unlink" => Flashed

\* The loop of verify_ecoboot: what it passed is the same in the boot partition.
Same(n) == \A s \in 1..n : s <= BootSectors /\ boot[s] = file[s]
BlockRead == lba <= BootSectors /\ \A i \in 1..Chunk : buf1[i] = boot[lba - Chunk + i]

Compared ==
    func = "verify" /\ pc # "open" =>
        /\ sz <= Len(file)
        /\ pc \in {"select", "transfer", "deselect"} =>
             Same(Pos) /\ Pos <= lba /\ (sz > 0 => lba = Pos)
        /\ pc = "deselect" =>
             lba + Chunk <= BootSectors /\ \A i \in 1..Chunk : buf1[i] = boot[lba + i]
        /\ pc = "read" =>
             BlockRead /\ lba >= Chunk /\ Same(Pos) /\ (sz > 0 => lba = Pos + Chunk)
        /\ pc = "compare" /\ ~ferror =>
             /\ BlockRead /\ lba >= Chunk /\ Same(lba - Chunk)
             /\ Pos <= lba /\ (sz > 0 => lba = Pos)
             /\ \A i \in 1..Chunk :
                  lba - Chunk + i <= Pos => buf[i] = file[lba - Chunk + i]

\* What flash_ecoboot has in its buffer is the image, from the first transfer on.
Buffered ==
    /\ pc \in {"off", "open"} => ~ferror
    /\ func = "flash" /\ pc # "open" => sz <= Len(file) /\ (pc = "read" => ~ferror)
    /\ func = "flash" /\ pc \in {"read", "select", "transfer", "deselect"} /\ ~ferror =>
         \/ pc = "read" /\ sz >= Chunk
         \/ \A i \in 1..Chunk : \E t \in DOMAIN file : buf[i] = file[t]
    /\ pc = "open" /\ func = "flash" => boot = before

\* While no call fails: the boot partition and the buffers hold the image, and behind
\* its end, up to that of the last transfer, once more what is a transfer before.
Tile(s) == IF s <= Len(file) THEN file[s] ELSE file[s - Chunk]
Held(n) == \A s \in 1..n : s <= BootSectors /\ boot[s] = Tile(s)
Tiled(n) == n >= 0 => \A i \in 1..Chunk : buf[i] = Tile(n + i)
Aligned == \E b \in 0..lba : lba = b * Chunk

Flashing ==
    pc \in {"read", "select", "transfer", "deselect"} =>
        /\ sz <= Len(file) /\ Aligned /\ Held(lba)
        /\ pc = "read" => Pos <= lba /\ (sz > 0 => lba = Pos) /\ Tiled(lba - Chunk)
        /\ pc # "read" =>
             lba < Len(file) /\ Pos <= lba + Chunk /\ (sz > 0 => Pos = lba + Chunk) /\ Tiled(lba)
        /\ pc = "deselect" => Held(lba + Chunk)

Verifying ==
    /\ Held(Blocks * Chunk)
    /\ pc # "open" => Aligned
    /\ pc \in {"select", "transfer", "deselect"} => lba < Len(file) + Chunk /\ Tiled(lba - Chunk)
    /\ pc = "read" => Tiled(lba - 2 * Chunk)
    /\ pc = "compare" => lba < Len(file) + Chunk /\ Tiled(lba - Chunk)

Faultless ==
    ~fault /\ pc \notin {"off", "done"} =>
        /\ ~ferror
        /\ Len(file) < MinSectors => func = "flash" /\ pc = "open"
        /\ func = "flash" => Flashing
        /\ func = "verify" => Verifying

EInv ==
    /\ TypeOK /\ Discipline /\ Compared /\ Buffered /\ FileKept /\ OnlyTheImage
    /\ Faultless /\ RefusedForSize
=============================================================================
