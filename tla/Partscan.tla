------------------------------ MODULE Partscan ------------------------------
(***************************************************************************)
(* blk_priv_scan_partitions: the table of the partitions of the eMMC user  *)
(* area, from the four records of the master boot record and the chains of *)
(* boot records behind the extended ones.  A record that is empty or does  *)
(* not fit the disk is left out of the table, and those after it move up:  *)
(* the number of a partition is its place in the table.  The loops take a  *)
(* record or a sector a step; a read of a sector may fail.                 *)
(***************************************************************************)
EXTENDS Integers, Sequences

CONSTANTS
    Disks,       \* contents of the user area
    NumSectors,  \* its size
    SectorSize,
    Word,        \* 2^32: lba_t, blk_size_t and the products of parse_extended
    ExtMax       \* EXT_MAX_NUM_PARTS

Types == {"vfat", "ext4", "lfs", "other", "extended"}
Record == [type : Types, start : 0..(Word - 1), count : 0..(Word - 1)]

\* A sector that is not in ebr has no boot signature.
ASSUME PartscanAssumption ==
    /\ NumSectors \in Nat /\ SectorSize \in Nat /\ Word \in Nat \ {0} /\ ExtMax \in Nat \ {0}
    /\ \A d \in Disks :
         /\ d.signature \in {"whole", "half", "none"}
         /\ d.mbr \in [1..4 -> Record]
         /\ DOMAIN d.ebr \subseteq 0..(NumSectors - 1)
         /\ \A s \in DOMAIN d.ebr : d.ebr[s] \in [1..4 -> Record]

VARIABLES
    disk,
    scan,   \* "none", "mbr", "primary", "extended", "read", "records";
            \* "done", "error" or "overrun": the table is too short
    nth,    \* the record of the master boot record
    table,  \* outparts, without the whole disk at 0
    area,   \* the extended partition: lba and count
    cur,    \* current_sector
    size,   \* this_size
    tries,  \* try_count
    rec,    \* partition_num
    next,   \* extended_part_num, 0 for none
    buffered  \* sector_in_buf

scanvars == <<disk, scan, nth, table, area, cur, size, tries, rec, next, buffered>>

PInit ==
    /\ disk \in Disks
    /\ scan = "none" /\ nth = 1 /\ table = <<>>
    /\ area = [start |-> 0, count |-> 0] /\ cur = 0 /\ size = 0
    /\ tries = 0 /\ rec = 1 /\ next = 0 /\ buffered = Word - 1

Entry(r, mbr) == [mbr |-> mbr, type |-> r.type, start |-> r.start, count |-> r.count]

\* check_partition computes in 64 bits.
Accepted(r) == r.type # "extended" /\ r.start + r.count <= NumSectors /\ r.count # 0

\* Either byte of the signature is enough.
ScanMbr ==
    /\ scan = "mbr" /\ disk.signature # "none"
    /\ scan' = "primary" /\ nth' = 1 /\ table' = <<>>
    /\ UNCHANGED <<disk, area, cur, size, tries, rec, next, buffered>>

\* A sector that the buffer holds is not read again.
ScanFail ==
    /\ scan = "mbr" \/ (scan = "read" /\ tries > 0 /\ cur # buffered)
    /\ scan' = "error"
    /\ UNCHANGED <<disk, nth, table, area, cur, size, tries, rec, next, buffered>>

\* Mutant: each record goes to the front of the table.
MutPrimary ==
    /\ scan = "primary" /\ nth <= 4
    /\ table' = IF Accepted(disk.mbr[nth])
                THEN <<Entry(disk.mbr[nth], nth)>> \o table ELSE table
    /\ nth' = nth + 1
    /\ UNCHANGED <<disk, scan, area, cur, size, tries, rec, next, buffered>>

Primary ==
    /\ scan = "primary" /\ nth <= 4
    /\ table' = IF Accepted(disk.mbr[nth])
                THEN Append(table, Entry(disk.mbr[nth], nth)) ELSE table
    /\ nth' = nth + 1
    /\ UNCHANGED <<disk, scan, area, cur, size, tries, rec, next, buffered>>

PrimaryEnd ==
    /\ scan = "primary" /\ nth > 4
    /\ scan' = "extended" /\ nth' = 1
    /\ UNCHANGED <<disk, table, area, cur, size, tries, rec, next, buffered>>

\* A product of parse_extended, in 32 bits.
Bytes(sectors) == (sectors * SectorSize) % Word

Extended ==
    /\ scan = "extended" /\ nth <= 4
    /\ LET r == disk.mbr[nth] IN
       \/ /\ r.type = "extended"
          /\ area' = [start |-> r.start, count |-> r.count]
          /\ cur' = r.start /\ size' = Bytes(r.count) /\ tries' = ExtMax
          /\ buffered' = Word - 1
          /\ scan' = "read" /\ UNCHANGED nth
       \/ /\ r.type # "extended"
          /\ nth' = nth + 1
          /\ UNCHANGED <<scan, area, cur, size, tries, buffered>>
    /\ UNCHANGED <<disk, table, rec, next>>

ScanDone ==
    /\ scan = "extended" /\ nth > 4
    /\ scan' = "done"
    /\ UNCHANGED <<disk, nth, table, area, cur, size, tries, rec, next, buffered>>

ChainEnd == scan' = "extended" /\ nth' = nth + 1

\* Mutant: a boot record without a partition does not count as a try.
MutReadLink ==
    /\ scan = "read" /\ tries > 0 /\ cur \in DOMAIN disk.ebr
    /\ scan' = "records" /\ rec' = 1 /\ next' = 0 /\ buffered' = cur
    /\ UNCHANGED <<disk, nth, table, area, cur, size, tries>>

\* blk_read refuses a sector past the end of the disk (ScanFail).
ReadLink ==
    /\ scan = "read" /\ tries > 0 /\ cur \in DOMAIN disk.ebr
    /\ tries' = tries - 1
    /\ scan' = "records" /\ rec' = 1 /\ next' = 0 /\ buffered' = cur
    /\ UNCHANGED <<disk, nth, table, area, cur, size>>

ReadEnd ==
    /\ scan = "read"
    /\ tries = 0 \/ (cur < NumSectors /\ cur \notin DOMAIN disk.ebr)
    /\ ChainEnd
    /\ UNCHANGED <<disk, table, area, cur, size, tries, rec, next, buffered>>

\* The sanity checks of a record in a chain; its own offset is dropped.
Sane(r) ==
    /\ Bytes(r.start) + Bytes(r.count) <= size
    /\ Bytes(cur) + Bytes(r.start) >= Bytes(area.start)
    /\ Bytes(cur) + Bytes(r.start) <= Bytes(area.start + area.count)

Skip ==
    /\ rec' = rec + 1
    /\ UNCHANGED <<disk, nth, table, area, cur, size, tries, scan, buffered>>

\* try_count starts anew with every partition: it does not limit the table.
LinkRecord ==
    /\ scan = "records" /\ rec <= 4
    /\ LET r == disk.ebr[cur][rec] IN
       \/ r.count = 0 /\ Skip /\ UNCHANGED next
       \/ /\ r.count # 0 /\ r.type = "extended" /\ Skip
          /\ next' = IF next = 0 THEN rec ELSE next
       \/ r.count # 0 /\ r.type # "extended" /\ ~Sane(r) /\ Skip /\ UNCHANGED next
       \/ /\ r.count # 0 /\ r.type # "extended" /\ Sane(r)
          /\ \/ /\ Len(table) < ExtMax + 3
                /\ table' = Append(table, [Entry(r, 0) EXCEPT !.start = cur])
                /\ tries' = ExtMax /\ rec' = rec + 1 /\ UNCHANGED scan
             \/ /\ Len(table) >= ExtMax + 3
                /\ scan' = "overrun" /\ UNCHANGED <<table, tries, rec>>
          /\ UNCHANGED <<disk, nth, area, cur, size, next, buffered>>

NextLink ==
    /\ scan = "records" /\ rec > 4
    /\ \/ next = 0 /\ ChainEnd /\ UNCHANGED <<cur, size>>
       \/ /\ next # 0
          /\ cur' = (area.start + disk.ebr[cur][next].start) % Word
          /\ size' = Bytes(disk.ebr[cur][next].count)
          /\ scan' = "read" /\ UNCHANGED nth
    /\ UNCHANGED <<disk, table, area, tries, rec, next, buffered>>

ScanStep ==
    \/ ScanMbr \/ ScanFail \/ Primary \/ PrimaryEnd \/ Extended \/ ScanDone
    \/ ReadLink \/ ReadEnd \/ LinkRecord \/ NextLink

Scanning == scan \notin {"none", "done", "error", "overrun"}
-----------------------------------------------------------------------------
PTypeOK ==
    /\ disk \in Disks
    /\ scan \in {"none", "mbr", "primary", "extended", "read", "records",
                "done", "error", "overrun"}
    /\ nth \in 1..5 /\ rec \in 1..5 /\ next \in 0..4 /\ tries \in 0..ExtMax
    /\ table \in Seq([mbr : 0..4, type : Types \ {"extended"},
                      start : 0..(Word - 1), count : 0..(Word - 1)])
    /\ area \in [start : 0..(Word - 1), count : 0..(Word - 1)]
    /\ cur \in 0..(Word - 1) /\ size \in 0..(Word - 1) /\ buffered \in 0..(Word - 1)

AllAccepted(n) == \A k \in 1..n : Accepted(disk.mbr[k])

\* The first n records are all in the table, at their own numbers.
InPlace(n) ==
    n <= Len(table) /\ \A k \in 1..n : table[k] = Entry(disk.mbr[k], k)

\* A record keeps its number when no record before it was left out, whatever
\* the chains add; the table never outgrows its memory.
PInv ==
    /\ PTypeOK
    /\ Len(table) <= ExtMax + 3
    /\ scan = "primary" =>
         /\ Len(table) < nth
         /\ \A n \in 0..(nth - 1) : AllAccepted(n) => InPlace(n)
    /\ scan \in {"extended", "read", "records", "done"} =>
         \A n \in 0..4 : AllAccepted(n) => InPlace(n)
    /\ scan \in {"read", "records"} => nth <= 4
    /\ scan = "records" => cur \in DOMAIN disk.ebr
=============================================================================
