--------------------------- MODULE Storage_proofs ---------------------------
(***************************************************************************)
(* Proofs about the storage stack, for every disk, fstab and number of     *)
(* open files.                                                             *)
(***************************************************************************)
EXTENDS Descriptors, FiniteSetTheorems, TLAPS

Sectors == 0..(Word - 1)
Entries == [mbr : 0..4, type : Types \ {"extended"}, start : Sectors, count : Sectors]

\* The arithmetic of 32 bits stays in 32 bits.
LEMMA Wraps == \A x \in Nat : x % Word \in Sectors
  BY PartscanAssumption DEF Sectors

LEMMA Records ==
    ASSUME disk \in Disks
    PROVE  /\ \A k \in 1..4 : disk.mbr[k] \in Record
           /\ \A s \in DOMAIN disk.ebr : s \in Nat /\ \A k \in 1..4 : disk.ebr[s][k] \in Record
  BY PartscanAssumption

\* A record of a disk is an entry of the table, unless it is extended.
LEMMA EntryType ==
    ASSUME NEW r \in Record, r.type # "extended", NEW k \in 0..4
    PROVE  Entry(r, k) \in Entries
  BY DEF Record, Entry, Entries, Sectors

LEMMA BytesType == ASSUME NEW r \in Record PROVE Bytes(r.count) \in Sectors
<1>1. r.count * SectorSize \in Nat
  BY PartscanAssumption DEF Record
<1> QED BY <1>1, Wraps DEF Bytes

\* The scan is started again.
LEMMA ScanStarts ==
    ASSUME PInv, scan' \in {"mbr", "none"},
           UNCHANGED <<disk, nth, table, area, cur, size, tries, rec, next, buffered>>
    PROVE  PInv'
  BY DEF PInv, PTypeOK, AllAccepted, InPlace

\* The records of the master boot record.
LEMMA PrimaryKeeps == ASSUME PInv, Primary PROVE PInv'
<1> DEFINE r == disk.mbr[nth]
<1>1. /\ disk \in Disks /\ nth \in 1..4 /\ table \in Seq(Entries) /\ Len(table) < nth
      /\ r \in Record /\ \A m \in 0..(nth - 1) : AllAccepted(m) => InPlace(m)
  BY Records DEF PInv, PTypeOK, Primary, Entries, Sectors
<1>2. CASE Accepted(r)
  <2>1. /\ table' = Append(table, Entry(r, nth)) /\ nth' = nth + 1
        /\ UNCHANGED <<disk, scan, area, cur, size, tries, rec, next, buffered>>
    BY <1>2 DEF Primary
  <2>2. Entry(r, nth) \in Entries
    BY <1>1, <1>2, EntryType DEF Accepted
  <2>3. table' \in Seq(Entries) /\ Len(table') = Len(table) + 1
    BY <1>1, <2>1, <2>2
  <2>4. ASSUME NEW m \in 0..(nth' - 1), AllAccepted(m)'
        PROVE  InPlace(m)'
    <3>1. AllAccepted(m) BY <2>1, <2>4 DEF AllAccepted, Accepted
    <3>2. CASE m < nth
      <4>1. InPlace(m) BY <1>1, <2>1, <3>1, <3>2
      <4> QED BY <1>1, <2>1, <4>1, <2>2 DEF InPlace, Entry
    <3>3. CASE m = nth
      <4>1. AllAccepted(nth - 1) BY <1>1, <3>1, <3>3 DEF AllAccepted
      <4>2. InPlace(nth - 1) BY <1>1, <4>1
      <4>3. Len(table) = nth - 1 BY <1>1, <4>2 DEF InPlace
      <4> QED BY <1>1, <2>1, <2>2, <3>3, <4>2, <4>3 DEF InPlace, Entry
    <3> QED BY <1>1, <2>1, <3>2, <3>3
  <2>5. Len(table') < nth' /\ Len(table') <= ExtMax + 3 /\ nth' \in 1..5
    BY <1>1, <2>1, <2>3, PartscanAssumption
  <2>6. PTypeOK'
    BY <1>1, <2>1, <2>3, <2>5 DEF PInv, PTypeOK, Entries, Sectors
  <2> QED BY <1>1, <2>1, <2>4, <2>5, <2>6 DEF PInv, Primary
<1>3. CASE ~Accepted(r)
  <2>1. /\ nth' = nth + 1
        /\ UNCHANGED <<table, disk, scan, area, cur, size, tries, rec, next, buffered>>
    BY <1>3 DEF Primary
  <2>2. ASSUME NEW m \in 0..(nth' - 1), AllAccepted(m)'
        PROVE  InPlace(m)'
    <3>1. AllAccepted(m) BY <2>1, <2>2 DEF AllAccepted, Accepted
    <3>2. m # nth BY <1>1, <1>3, <3>1 DEF AllAccepted
    <3>3. InPlace(m) BY <1>1, <2>1, <3>1, <3>2
    <3> QED BY <2>1, <3>3 DEF InPlace, Entry
  <2> QED BY <1>1, <2>1, <2>2 DEF PInv, PTypeOK, Primary
<1> QED BY <1>2, <1>3

\* What a step that leaves the front of the table keeps of PInv.
LEMMA InPlaceKept ==
    ASSUME PInv, UNCHANGED disk, table' \in Seq(Entries), Len(table) <= Len(table'),
           \A k \in 1..Len(table) : table'[k] = table[k],
           scan \in {"extended", "read", "records", "done"}
    PROVE  \A m \in 0..4 : AllAccepted(m)' => InPlace(m)'
<1> SUFFICES ASSUME NEW m \in 0..4, AllAccepted(m)' PROVE InPlace(m)'
  OBVIOUS
<1>1. AllAccepted(m) BY DEF AllAccepted, Accepted
<1>2. InPlace(m) BY <1>1 DEF PInv
<1>3. table \in Seq(Entries) BY DEF PInv, PTypeOK, Entries, Sectors
<1> QED BY <1>2, <1>3 DEF InPlace, Entry

LEMMA LinkRecordKeeps == ASSUME PInv, LinkRecord PROVE PInv'
<1> DEFINE r == disk.ebr[cur][rec]
<1>0. /\ disk \in Disks /\ rec \in 1..4 /\ table \in Seq(Entries) /\ cur \in Sectors
      /\ cur \in DOMAIN disk.ebr
  BY DEF PInv, PTypeOK, LinkRecord, Entries, Sectors
<1>1. /\ disk \in Disks /\ rec \in 1..4 /\ table \in Seq(Entries) /\ cur \in Sectors
      /\ cur \in DOMAIN disk.ebr /\ r \in Record
  BY <1>0, Records
<1>2. CASE Skip /\ next' \in 0..4
  <2>1. UNCHANGED <<disk, table>> /\ scan' = "records" /\ scan = "records"
    BY <1>2 DEF Skip, LinkRecord
  <2>2. \A m \in 0..4 : AllAccepted(m)' => InPlace(m)'
    BY <1>1, <2>1, InPlaceKept
  <2> QED BY <1>1, <1>2, <2>1, <2>2 DEF Skip, PInv, PTypeOK
<1>3. CASE /\ r.type # "extended" /\ Len(table) < ExtMax + 3 /\ scan = "records"
           /\ table' = Append(table, [Entry(r, 0) EXCEPT !.start = cur])
           /\ tries' = ExtMax /\ rec' = rec + 1 /\ UNCHANGED scan
           /\ UNCHANGED <<disk, nth, area, cur, size, next, buffered>>
  <2>1. [Entry(r, 0) EXCEPT !.start = cur] \in Entries
    <3>1. Entry(r, 0) \in Entries BY <1>1, <1>3, EntryType
    <3>2. \A e \in Entries : [e EXCEPT !.start = cur] \in Entries BY <1>1 DEF Entries
    <3> QED BY <3>1, <3>2
  <2>2. /\ table' \in Seq(Entries) /\ Len(table') = Len(table) + 1
        /\ \A k \in 1..Len(table) : table'[k] = table[k]
    <3>1. PICK x \in Entries : table' = Append(table, x)
      BY <1>3, <2>1
    <3> QED BY <1>1, <3>1
  <2>3. \A m \in 0..4 : AllAccepted(m)' => InPlace(m)'
    BY <1>1, <1>3, <2>2, InPlaceKept
  <2> QED BY <1>1, <1>3, <2>2, <2>3, PartscanAssumption DEF PInv, PTypeOK, Entries, Sectors
<1>4. CASE /\ scan' = "overrun" /\ UNCHANGED <<table, tries, rec>>
           /\ UNCHANGED <<disk, nth, area, cur, size, next, buffered>>
  BY <1>1, <1>4 DEF PInv, PTypeOK
<1>5. scan = "records" /\ next \in 0..4
  BY DEF LinkRecord, PInv, PTypeOK
<1> QED BY <1>1, <1>2, <1>3, <1>4, <1>5 DEF LinkRecord

LEMMA NextLinkKeeps == ASSUME PInv, NextLink PROVE PInv'
<1>1. /\ disk \in Disks /\ area.start \in Nat /\ scan = "records" /\ table \in Seq(Entries)
      /\ cur \in DOMAIN disk.ebr /\ UNCHANGED <<disk, table, area, tries, rec, next, buffered>>
  BY DEF PInv, PTypeOK, NextLink, Entries, Sectors
<1>2. \A m \in 0..4 : AllAccepted(m)' => InPlace(m)'
  BY <1>1, InPlaceKept
<1>3. CASE ChainEnd /\ UNCHANGED <<cur, size>>
  <2>1. nth \in 1..4
    BY <1>1 DEF PInv, PTypeOK
  <2> QED BY <1>1, <1>2, <1>3, <2>1 DEF ChainEnd, PInv, PTypeOK
<1>4. CASE /\ next # 0
           /\ cur' = (area.start + disk.ebr[cur][next].start) % Word
           /\ size' = Bytes(disk.ebr[cur][next].count)
           /\ scan' = "read" /\ UNCHANGED nth
  <2>1. disk.ebr[cur][next] \in Record
    BY <1>1, <1>4, Records DEF PInv, PTypeOK
  <2>2. cur' \in Sectors
    BY <1>1, <1>4, <2>1, Wraps DEF Record
  <2>3. size' \in Sectors
    BY <1>4, <2>1, BytesType
  <2> QED BY <1>1, <1>2, <1>4, <2>2, <2>3 DEF PInv, PTypeOK, Sectors
<1> QED BY <1>3, <1>4 DEF NextLink

\* The steps of the scan that do not add to the table.
LEMMA LoopKeeps ==
    ASSUME PInv, ScanFail \/ PrimaryEnd \/ Extended \/ ScanDone \/ ReadLink \/ ReadEnd
    PROVE  PInv'
<1>1. disk \in Disks /\ table \in Seq(Entries) /\ UNCHANGED <<disk, table>>
  BY DEF PInv, PTypeOK, Entries, Sectors, ScanFail, PrimaryEnd, Extended, ScanDone,
         ReadLink, ReadEnd
<1>2. CASE ScanFail
  BY <1>2 DEF ScanFail, PInv, PTypeOK
<1>3. CASE PrimaryEnd
  <2>1. nth = 5 BY <1>3 DEF PrimaryEnd, PInv, PTypeOK
  <2>2. \A m \in 0..4 : AllAccepted(m)' => InPlace(m)'
    BY <1>1, <1>3, <2>1 DEF PrimaryEnd, PInv, AllAccepted, Accepted, InPlace, Entry
  <2> QED BY <1>3, <2>2 DEF PrimaryEnd, PInv, PTypeOK
<1>4. CASE Extended
  <2>1. \A m \in 0..4 : AllAccepted(m)' => InPlace(m)'
    BY <1>1, <1>4, InPlaceKept DEF Extended
  <2>2. nth \in 1..4 /\ disk.mbr[nth] \in Record
    BY <1>1, <1>4, Records DEF Extended, PInv, PTypeOK
  <2>3. Bytes(disk.mbr[nth].count) \in Sectors
    BY <2>2, BytesType
  <2>4. CASE disk.mbr[nth].type = "extended"
    <3>1. /\ area' = [start |-> disk.mbr[nth].start, count |-> disk.mbr[nth].count]
          /\ cur' = disk.mbr[nth].start /\ size' = Bytes(disk.mbr[nth].count)
          /\ tries' = ExtMax /\ buffered' = Word - 1 /\ scan' = "read"
          /\ UNCHANGED <<nth, disk, table, rec, next>>
      BY <1>4, <2>4 DEF Extended
    <3>2. /\ area' \in [start : Sectors, count : Sectors] /\ cur' \in Sectors
          /\ size' \in Sectors /\ buffered' \in Sectors /\ tries' \in 0..ExtMax
      BY <2>2, <2>3, <3>1, PartscanAssumption DEF Record, Sectors
    <3>3. PTypeOK'
      BY <3>1, <3>2 DEF PInv, PTypeOK, Sectors
    <3> QED BY <2>1, <2>2, <3>1, <3>3 DEF PInv
  <2>5. CASE disk.mbr[nth].type # "extended"
    BY <1>4, <2>1, <2>2, <2>5 DEF Extended, PInv, PTypeOK
  <2> QED BY <2>4, <2>5
<1>5. CASE ScanDone
  <2>1. \A m \in 0..4 : AllAccepted(m)' => InPlace(m)'
    BY <1>1, <1>5, InPlaceKept DEF ScanDone
  <2>2. PTypeOK'
    BY <1>5 DEF ScanDone, PInv, PTypeOK
  <2> QED BY <1>5, <2>1, <2>2 DEF ScanDone, PInv
<1>6. CASE ReadLink
  <2>1. \A m \in 0..4 : AllAccepted(m)' => InPlace(m)'
    BY <1>1, <1>6, InPlaceKept DEF ReadLink
  <2>2. tries' \in 0..ExtMax
    BY <1>6, PartscanAssumption DEF ReadLink, PInv, PTypeOK
  <2>3. PTypeOK'
    BY <1>6, <2>2 DEF ReadLink, PInv, PTypeOK
  <2> QED BY <1>6, <2>1, <2>3 DEF ReadLink, PInv
<1>7. CASE ReadEnd
  <2>1. \A m \in 0..4 : AllAccepted(m)' => InPlace(m)'
    BY <1>1, <1>7, InPlaceKept DEF ReadEnd
  <2> QED BY <1>1, <1>7, <2>1 DEF ReadEnd, ChainEnd, PInv, PTypeOK
<1> QED BY <1>2, <1>3, <1>4, <1>5, <1>6, <1>7

LEMMA ScanKeeps == ASSUME PInv, ScanStep PROVE PInv'
<1>1. CASE ScanMbr
  <2>1. table' = <<>> /\ nth' = 1 /\ scan' = "primary"
        /\ UNCHANGED <<disk, area, cur, size, tries, rec, next, buffered>>
    BY <1>1 DEF ScanMbr
  <2>2. \A m \in 0..(nth' - 1) : InPlace(m)'
    BY <2>1 DEF InPlace
  <2> QED BY <2>1, <2>2, PartscanAssumption DEF PInv, PTypeOK
<1> QED BY <1>1, PrimaryKeeps, LoopKeeps, LinkRecordKeeps, NextLinkKeeps DEF ScanStep
-----------------------------------------------------------------------------
\* The bounds of fstab.
LEMMA FstabBounds == Len(Fstab) \in Nat \ {0} /\ MaxInits \in Nat
  BY VolumesAssumption

\* A span is a sequence; a mount appends the next one and an unmount takes the first.
LEMMA SpanSeq ==
    ASSUME NEW a \in Nat, NEW b \in Nat, a <= b + 1
    PROVE  Span(a, b) \in Seq(Nat) /\ Len(Span(a, b)) = b - a + 1
<1>1. b - a + 1 \in Nat
  OBVIOUS
<1>2. \A i \in 1..(b - a + 1) : a + i - 1 \in Nat
  OBVIOUS
<1> QED BY <1>1, <1>2 DEF Span

LEMMA SpanAppend ==
    ASSUME NEW a \in Nat, NEW b \in Nat, a <= b + 1
    PROVE  Append(Span(a, b), b + 1) = Span(a, b + 1)
  BY SpanSeq DEF Span

LEMMA SpanRemove ==
    ASSUME NEW a \in Nat, NEW b \in Nat, a <= b
    PROVE  Remove(Span(a, b), a) = Span(a + 1, b)
<1>1. Span(a, b) \in Seq(Nat) /\ Len(Span(a, b)) = b - a + 1 /\ Span(a, b) # <<>>
  BY SpanSeq
<1>2. Head(Span(a, b)) = a
  BY <1>1 DEF Span
<1>3. Remove(Span(a, b), a) = Tail(Span(a, b))
  BY <1>1, <1>2 DEF Remove
<1>4. Tail(Span(a, b)) = Span(a + 1, b)
  BY <1>1, SMTT(30) DEF Span
<1> QED BY <1>3, <1>4

\* A mount point that is listed is one of the span.
LEMMA SpanEmpty ==
    ASSUME NEW a \in Nat, NEW b \in Nat, a <= b + 1
    PROVE  (Span(a, b) = <<>>) <=> (a = b + 1)
  BY SpanSeq DEF Span

LEMMA InitStartVolInv == ASSUME VolInv, InitStart PROVE VolInv'
  BY FstabBounds DEF VolInv, InitStart, Lost

LEMMA ScanVolInv == ASSUME VolInv, Scan PROVE VolInv'
  BY DEF VolInv, Scan, volvars, Lost

LEMMA ScanFailedVolInv == ASSUME VolInv, ScanFailed PROVE VolInv'
  BY DEF VolInv, ScanFailed, scanvars, Lost

LEMMA RegisterVolInv == ASSUME VolInv, Register PROVE VolInv'
<1>1. CASE types = "none"
  <2>1. /\ types' = "registered" /\ num' = Len(Fstab) /\ fs' = {} /\ n' = 1
        /\ step' = "mounting" /\ UNCHANGED <<list, mounted, inits>> /\ scan' = "done"
    BY <1>1 DEF Register, scanvars
  <2>2. list' = Span(1, 0) /\ mounted' = 1..0
    BY <1>1, <2>1, SpanEmpty DEF VolInv
  <2>3. Known'
    BY <2>1, <2>2, FstabBounds DEF Known
  <2> QED BY <2>1, <2>3, FstabBounds DEF VolInv, Mounts
<1>2. CASE types # "none"
  BY <1>2 DEF VolInv, Register, scanvars, Lost
<1> QED BY <1>1, <1>2

LEMMA UndetectedVolInv == ASSUME VolInv, Undetected PROVE VolInv'
<1>1. num # 0 /\ step = "mounting" /\ step' = "failed" /\ n <= num
      /\ UNCHANGED <<n, num, fs, list, mounted, types, inits, scan>>
  BY FstabBounds DEF VolInv, Undetected, scanvars
<1>2. Known'
  BY <1>1 DEF VolInv, Known
<1> QED BY <1>1, <1>2 DEF VolInv

LEMMA MountVolInv == ASSUME VolInv, Mount PROVE VolInv'
<1>1. /\ num = Len(Fstab) /\ step = "mounting" /\ n \in 1..Len(Fstab)
      /\ mounted' = mounted \cup {n} /\ fs' = fs \cup {n} /\ list' = Append(list, n)
      /\ n' = n + 1 /\ UNCHANGED <<step, num, types, inits, scan>>
  BY FstabBounds DEF VolInv, Mount, scanvars
<1>2. fs = 1..(n - 1) /\ mounted = fs /\ list = Span(1, n - 1)
  BY <1>1, FstabBounds DEF VolInv, Known
<1>3. list' = Span(1, n)
  <2>1. n - 1 \in Nat /\ 1 <= (n - 1) + 1 /\ (n - 1) + 1 = n
    BY <1>1, FstabBounds
  <2>2. Append(Span(1, n - 1), (n - 1) + 1) = Span(1, (n - 1) + 1)
    BY <2>1, SpanAppend
  <2> QED BY <1>1, <1>2, <2>1, <2>2
<1>4. fs' = 1..n /\ mounted' = fs'
  BY <1>1, <1>2
<1>5. Known'
  BY <1>1, <1>3, <1>4, FstabBounds DEF Known
<1> QED BY <1>1, <1>5, FstabBounds DEF VolInv

LEMMA MountFailVolInv == ASSUME VolInv, MountFail PROVE VolInv'
<1>1. /\ num = Len(Fstab) /\ step = "mounting" /\ n \in 1..Len(Fstab)
      /\ mounted' \in {mounted, mounted \cup {n}}
      /\ fs' = {} /\ num' = 0 /\ step' = "failed" /\ UNCHANGED <<n, list, types, inits, scan>>
      /\ types = "registered"
  BY FstabBounds DEF VolInv, MountFail, scanvars
<1>2. mounted = 1..(n - 1) /\ list = Span(1, n - 1)
  BY <1>1, FstabBounds DEF VolInv, Known
<1>3. Lost'
  BY <1>1, <1>2, FstabBounds DEF Lost
<1> QED BY <1>1, <1>3, FstabBounds DEF VolInv

LEMMA InitEndVolInv == ASSUME VolInv, InitEnd PROVE VolInv'
<1>1. /\ num = Len(Fstab) /\ step = "mounting" /\ n = Len(Fstab) + 1 /\ step' = "up"
      /\ UNCHANGED <<n, num, fs, list, mounted, types, inits, scan>>
  BY FstabBounds DEF VolInv, InitEnd, scanvars
<1>2. Known'
  BY <1>1, FstabBounds DEF VolInv, Known
<1> QED BY <1>1, <1>2, FstabBounds DEF VolInv

LEMMA DeinitStartVolInv == ASSUME VolInv, DeinitStart PROVE VolInv'
<1>1. CASE num = 0
  BY <1>1 DEF VolInv, DeinitStart, scanvars, Lost
<1>2. CASE num # 0
  <2>1. /\ step \in {"up", "failed"} \/ (step = "stuck" /\ n = 1)
        /\ step' = "unmounting" /\ n' = 1
        /\ UNCHANGED <<num, fs, list, mounted, types, inits, scan>>
    BY <1>2 DEF DeinitStart, scanvars
  <2>2. Known'
    <3>1. Known BY <1>2 DEF VolInv
    <3>2. CASE step = "stuck" /\ n = 1
      BY <2>1, <3>1, <3>2 DEF Known
    <3>3. CASE step \in {"up", "failed"}
      BY <2>1, <3>1, <3>3 DEF Known
    <3> QED BY <2>1, <3>2, <3>3
  <2> QED BY <1>2, <2>1, <2>2, FstabBounds DEF VolInv
<1> QED BY <1>1, <1>2

LEMMA UnmountVolInv == ASSUME VolInv, Unmount PROVE VolInv'
<1>1. /\ num = Len(Fstab) /\ num # 0 /\ step = "unmounting" /\ n \in 1..Len(Fstab) /\ n \in fs
      /\ fs' = fs \ {n} /\ list' = Remove(list, n) /\ mounted' = mounted \ {n}
      /\ n' = n + 1 /\ UNCHANGED <<step, num, types, inits, scan>>
  BY FstabBounds DEF VolInv, Unmount, scanvars
<1>2. PICK last \in (n - 1)..Len(Fstab) :
        fs = n..last /\ mounted = fs /\ list = Span(n, last)
  BY <1>1 DEF VolInv, Known
<1>3. n <= last /\ last \in Nat
  BY <1>1, <1>2, FstabBounds
<1>4. list' = Span(n + 1, last)
  BY <1>1, <1>2, <1>3, SpanRemove
<1>5. fs' = (n + 1)..last /\ mounted' = fs'
  BY <1>1, <1>2, <1>3
<1>6. Known'
  BY <1>1, <1>2, <1>3, <1>4, <1>5, FstabBounds DEF Known
<1> QED BY <1>1, <1>5, <1>6, FstabBounds DEF VolInv

LEMMA UnmountFailVolInv == ASSUME VolInv, UnmountFail PROVE VolInv'
<1>1. /\ num # 0 /\ step = "unmounting" /\ step' = "stuck"
      /\ UNCHANGED <<n, num, fs, list, mounted, types, inits, scan>>
  BY FstabBounds DEF VolInv, UnmountFail, scanvars
<1>2. Known'
  BY <1>1 DEF VolInv, Known
<1> QED BY <1>1, <1>2 DEF VolInv

LEMMA DeinitEndVolInv == ASSUME VolInv, DeinitEnd PROVE VolInv'
<1>1. /\ num = Len(Fstab) /\ num # 0 /\ step = "unmounting" /\ n = Len(Fstab) + 1
      /\ num' = 0 /\ types' = "none" /\ step' = "down"
      /\ UNCHANGED <<n, fs, list, mounted, inits, scan>>
  BY FstabBounds DEF VolInv, DeinitEnd, scanvars
<1>2. PICK last \in (n - 1)..Len(Fstab) :
        fs = n..last /\ mounted = fs /\ list = Span(n, last)
  BY <1>1 DEF VolInv, Known
<1>3. last = Len(Fstab) /\ fs = {} /\ mounted = {}
  BY <1>1, <1>2, FstabBounds
<1>4. list = <<>> /\ list = Span(1, 0)
  BY <1>1, <1>2, <1>3, SpanEmpty, FstabBounds
<1>5. Lost'
  BY <1>1, <1>3, <1>4, FstabBounds DEF Lost
<1> QED BY <1>1, <1>3, <1>4, <1>5, FstabBounds DEF VolInv
-----------------------------------------------------------------------------
LEMMA InitStInv == Init => StInv
<1> SUFFICES ASSUME Init PROVE StInv
  OBVIOUS
<1>1. PInv
  BY PartscanAssumption DEF Init, PInit, PInv, PTypeOK
<1>2. list = Span(1, 0) /\ 1..0 = {}
  BY SpanEmpty DEF Init, VInit
<1>3. Lost
  BY <1>2, FstabBounds DEF Init, VInit, Lost
<1>4. VolInv
  BY <1>2, <1>3, FstabBounds DEF Init, VInit, VolInv
<1>5. {s \in Slots : handles[s] = Freed} = {}
  BY DEF Init, DInit, Null, Freed
<1>6. SlotInv
  BY <1>5, FS_EmptySet, FstabBounds DEF Init, DInit, SlotInv, Open, Null, Freed, Mounts
<1> QED BY <1>1, <1>4, <1>6 DEF StInv

\* The table of open files is left alone, and the volumes go down only without files.
LEMMA IdleSlotInv ==
    ASSUME SlotInv, UNCHANGED fdvars, step = "up" => step' = "up" \/ Open = {}
    PROVE  SlotInv'
  BY DEF SlotInv, fdvars, Open

LEMMA OpenFileSlotInv == ASSUME SlotInv, OpenFile, UNCHANGED volvars PROVE SlotInv'
<1>1. PICK s \in Slots, k \in Mounts :
        handles[s] = Null /\ handles' = [handles EXCEPT ![s] = k]
  BY DEF OpenFile, Lowest, Free
<1>2. step' = "up" /\ UNCHANGED fails
  BY DEF OpenFile, volvars
<1>3. {t \in Slots : handles'[t] = Freed} = {t \in Slots : handles[t] = Freed}
  BY <1>1, FstabBounds DEF SlotInv, Null, Freed, Mounts
<1> QED BY <1>1, <1>2, <1>3 DEF SlotInv

LEMMA OpenFailSlotInv == ASSUME SlotInv, OpenFail, UNCHANGED volvars PROVE SlotInv'
<1>1. PICK s \in Slots : handles[s] = Null /\ handles' = [handles EXCEPT ![s] = Freed]
  BY DEF OpenFail, Lowest, Free
<1>2. fails' = fails + 1 /\ step' = step
  BY DEF OpenFail, volvars
<1> DEFINE F == {t \in Slots : handles[t] = Freed}
<1>3. IsFiniteSet(F) /\ s \notin F
  <2>1. IsFiniteSet(Slots)
    BY DescriptorsAssumption, FS_Interval DEF Slots
  <2> QED BY <1>1, <2>1, FS_Subset DEF Null, Freed
<1>4. F' = F \cup {s}
  BY <1>1 DEF SlotInv
<1>5. Cardinality(F') = Cardinality(F) + 1
  BY <1>3, <1>4, FS_AddElement
<1>6. Open' \subseteq Open
  BY <1>1, FstabBounds DEF SlotInv, Open, Freed, Mounts
<1>7. handles' \in [Slots -> Mounts \cup {Null, Freed}]
  BY <1>1 DEF SlotInv
<1> QED BY <1>2, <1>5, <1>6, <1>7 DEF SlotInv

LEMMA CloseSlotInv == ASSUME SlotInv, Close, UNCHANGED volvars PROVE SlotInv'
<1>1. PICK s \in Slots :
        handles[s] \in Mounts /\ handles' = [handles EXCEPT ![s] = Null]
  BY DEF Close, Open
<1>2. UNCHANGED fails /\ step' = step
  BY DEF Close, volvars
<1>3. {t \in Slots : handles'[t] = Freed} = {t \in Slots : handles[t] = Freed}
  BY <1>1, FstabBounds DEF SlotInv, Null, Freed, Mounts
<1>4. Open' \subseteq Open
  BY <1>1, FstabBounds DEF SlotInv, Open, Null, Mounts
<1>5. handles' \in [Slots -> Mounts \cup {Null, Freed}]
  BY <1>1 DEF SlotInv
<1> QED BY <1>2, <1>3, <1>4, <1>5 DEF SlotInv

\* The steps of an init and a deinit.
LEMMA VStepKeeps == ASSUME StInv, VStep, UNCHANGED fdvars PROVE StInv'
<1>1. PInv'
  <2>1. CASE Scan BY <2>1, ScanKeeps DEF Scan, StInv
  <2>2. CASE UNCHANGED scanvars
    BY <2>2 DEF scanvars, StInv, PInv, PTypeOK, AllAccepted, Accepted, InPlace, Entry
  <2> QED BY <2>1, <2>2 DEF VStep, ScanFailed, Register, Undetected, Mount, MountFail,
                            InitEnd, Unmount, UnmountFail, DeinitEnd
<1>2. VolInv'
  BY ScanVolInv, ScanFailedVolInv, RegisterVolInv, UndetectedVolInv, MountVolInv,
     MountFailVolInv, InitEndVolInv, UnmountVolInv, UnmountFailVolInv, DeinitEndVolInv
     DEF VStep, StInv
<1>3. step # "up"
  BY DEF VStep, Scan, ScanFailed, Register, Undetected, Mount, MountFail, InitEnd,
         Unmount, UnmountFail, DeinitEnd
<1>4. SlotInv'
  BY <1>3, IdleSlotInv DEF StInv
<1> QED BY <1>1, <1>2, <1>4 DEF StInv

LEMMA UnchangedKeeps ==
    ASSUME PInv, VolInv, UNCHANGED scanvars, UNCHANGED volvars
    PROVE  PInv' /\ VolInv'
<1>1. PInv'
  BY DEF scanvars, PInv, PTypeOK, AllAccepted, Accepted, InPlace, Entry
<1>2. VolInv'
  BY DEF scanvars, volvars, VolInv, Known, Lost
<1> QED BY <1>1, <1>2

LEMMA NextStInv == StInv /\ [Next]_vars => StInv'
<1> SUFFICES ASSUME StInv, [Next]_vars PROVE StInv'
  OBVIOUS
<1>1. CASE InitStart /\ UNCHANGED fdvars
  <2>1. PInv' BY <1>1, ScanStarts DEF InitStart, StInv
  <2>2. VolInv' BY <1>1, InitStartVolInv DEF StInv
  <2>3. SlotInv' BY <1>1, IdleSlotInv DEF InitStart, StInv
  <2> QED BY <2>1, <2>2, <2>3 DEF StInv
<1>2. CASE Deinit /\ UNCHANGED fdvars
  <2>1. PInv'
    BY <1>2 DEF Deinit, DeinitStart, scanvars, StInv, PInv, PTypeOK, AllAccepted, Accepted,
                InPlace, Entry
  <2>2. VolInv' BY <1>2, DeinitStartVolInv DEF Deinit, StInv
  <2>3. SlotInv' BY <1>2, IdleSlotInv DEF Deinit, StInv
  <2> QED BY <2>1, <2>2, <2>3 DEF StInv
<1>3. CASE VStep /\ UNCHANGED fdvars
  BY <1>3, VStepKeeps
<1>4. CASE (OpenFile \/ OpenFail \/ Close) /\ UNCHANGED scanvars /\ UNCHANGED volvars
  BY <1>4, OpenFileSlotInv, OpenFailSlotInv, CloseSlotInv, UnchangedKeeps DEF StInv
<1>5. CASE StaleLookup /\ UNCHANGED scanvars /\ UNCHANGED fdvars
           /\ UNCHANGED <<n, num, fs, list, mounted, types, inits>>
  <2>1. PInv'
    BY <1>5 DEF scanvars, StInv, PInv, PTypeOK, AllAccepted, Accepted, InPlace, Entry
  <2>2. VolInv'
    BY <1>5 DEF StaleLookup, Stale, scanvars, StInv, VolInv, Lost
  <2>3. SlotInv'
    BY <1>5, IdleSlotInv DEF StaleLookup, StInv
  <2> QED BY <2>1, <2>2, <2>3 DEF StInv
<1>6. CASE UNCHANGED vars
  BY <1>6, UnchangedKeeps, IdleSlotInv DEF vars, volvars, StInv
<1> QED BY <1>1, <1>2, <1>3, <1>4, <1>5, <1>6 DEF Next

\* The scan numbers the records and keeps to its table, the mounts and unmounts keep
\* the list of mount points, and the slots of the open files are accounted for
\* (partscan.c:209, tinyvfs_mount.c:23 and :110, fdsycalls.c:12).
THEOREM StorageInvariant == Spec => []StInv
<1>1. Init => StInv BY InitStInv
<1>2. StInv /\ [Next]_vars => StInv' BY NextStInv
<1> QED BY <1>1, <1>2, PTL DEF Spec
-----------------------------------------------------------------------------
\* Each volume is mounted as what its record says.
TypesHold ==
    \A k \in fs :
      Fstab[k].part <= Len(table) => table[Fstab[k].part].type \in MountType(k)

LEMMA MountTypesHold == ASSUME StInv, TypesHold, Mount PROVE TypesHold'
<1>1. fs' = fs \cup {n} /\ UNCHANGED table /\ n \in 1..Len(Fstab) /\ table \in Seq(Entries)
  BY FstabBounds DEF StInv, PInv, PTypeOK, VolInv, Mount, scanvars, Entries, Sectors
<1>2. \A k : MountType(k)' = MountType(k)
  BY <1>1 DEF MountType, TypesAt
<1>3. Fstab[n].part <= Len(table) => table[Fstab[n].part].type \in MountType(n)
  BY DEF Mount, TypesAt
<1> QED BY <1>1, <1>2, <1>3 DEF TypesHold

LEMMA NextTypesHold == ASSUME StInv, TypesHold, [Next]_vars PROVE TypesHold'
<1>1. ASSUME UNCHANGED table, fs' \subseteq fs
      PROVE  TypesHold'
  BY <1>1 DEF TypesHold, MountType, TypesAt
<1>2. ASSUME fs' = {}
      PROVE  TypesHold'
  BY <1>2 DEF TypesHold
<1>3. CASE Scan
  <2>1. fs' = {}
    BY <1>3 DEF Scan, volvars, StInv, VolInv, Lost
  <2> QED BY <1>2, <2>1
<1>4. CASE Mount
  BY <1>4, MountTypesHold
<1>5. CASE \/ InitStart \/ Deinit \/ ScanFailed \/ Register \/ Undetected \/ MountFail
           \/ InitEnd \/ Unmount \/ UnmountFail \/ DeinitEnd
  <2>1. UNCHANGED table /\ (fs' \subseteq fs \/ fs' = {})
    BY <1>5 DEF InitStart, Deinit, DeinitStart, ScanFailed, Register, Undetected, MountFail,
                InitEnd, Unmount, UnmountFail, DeinitEnd, scanvars
  <2> QED BY <1>1, <1>2, <2>1
<1>6. CASE UNCHANGED <<table, fs>>
  BY <1>1, <1>6
<1> QED BY <1>3, <1>4, <1>5, <1>6 DEF Next, VStep, vars, volvars, scanvars, StaleLookup

LEMMA RightFromInv == StInv /\ TypesHold => RightVolume
<1> SUFFICES ASSUME StInv, TypesHold, step = "up", NEW k \in Mounts
             PROVE  LET p == Fstab[k].part IN
                    /\ p <= 4 /\ AllAccepted(p) => table[p] = Entry(disk.mbr[p], p)
                    /\ p <= Len(table) => table[p].type \in MountType(k)
  BY DEF RightVolume
<1>1. scan = "done" /\ fs = Mounts
  <2>1. scan = "done" /\ Known
    BY FstabBounds DEF StInv, VolInv
  <2>2. PICK last \in 0..Len(Fstab) : fs = 1..last /\ last = Len(Fstab)
    BY <2>1 DEF Known
  <2> QED BY <2>1, <2>2 DEF Mounts
<1>2. Fstab[k].part \in Nat \ {0}
  <2>1. k \in 1..Len(Fstab) BY DEF Mounts
  <2> DEFINE S == [part : Nat \ {0}, auto : {"yes", "no"}]
  <2>2. Fstab \in Seq(S) BY VolumesAssumption
  <2>3. Fstab[k] \in S
    <3> HIDE DEF S
    <3> QED BY <2>1, <2>2
  <2> QED BY <2>3
<1>3. \A m \in 0..4 : AllAccepted(m) => InPlace(m)
  BY <1>1 DEF StInv, PInv
<1> QED BY <1>1, <1>2, <1>3 DEF InPlace, TypesHold

\* main finds its volumes on the records of the master boot record with their
\* numbers, if none before them is left out, and mounts each as its type.
THEOREM VolumesAreRight == Spec => []RightVolume
<1>1. Init => StInv /\ TypesHold
  BY InitStInv DEF Init, VInit, TypesHold
<1>2. StInv /\ TypesHold /\ [Next]_vars => (StInv /\ TypesHold)'
  BY NextStInv, NextTypesHold
<1>3. StInv /\ TypesHold => RightVolume
  BY RightFromInv
<1> QED BY <1>1, <1>2, <1>3, PTL DEF Spec

LEMMA BrokenStays == ASSUME StInv, Broken, [Next]_vars PROVE Broken'
<1> USE FstabBounds
<1>0. VolInv
  BY DEF StInv
<1>1. VolInv /\ types = "registered" /\ step \notin {"mounting", "up", "down"}
  BY <1>0 DEF Broken, VolInv
<1>2. CASE \/ InitStart \/ Scan \/ ScanFailed \/ Register \/ UnmountFail
           \/ StaleLookup /\ UNCHANGED types
  BY <1>1, <1>2 DEF Broken, InitStart, Scan, ScanFailed, Register, UnmountFail, StaleLookup,
                    volvars, Mounts
<1>3. CASE Deinit
  <2>1. CASE num = 0
    <3>1. fs = {} BY <1>1, <2>1 DEF VolInv, Lost
    <3>2. 1 \in Mounts BY DEF Mounts
    <3>3. UNCHANGED <<fs, types>> /\ step' = "stuck"
      BY <1>3, <2>1 DEF Deinit, DeinitStart
    <3> QED BY <1>1, <3>1, <3>2, <3>3 DEF Broken
  <2>2. CASE num # 0
    <3>1. /\ step = "failed" \/ (step = "stuck" /\ n = 1)
          /\ num = Len(Fstab) /\ n' = 1 /\ step' = "unmounting"
          /\ UNCHANGED <<fs, types>>
      BY <1>1, <1>3, <2>2 DEF Deinit, DeinitStart, VolInv, Broken
    <3>2. CASE step = "failed"
      <4>1. Len(Fstab) \notin fs
        BY <1>1, <2>2, <3>2 DEF VolInv, Known
      <4> QED BY <1>1, <3>1, <4>1 DEF Broken
    <3>3. CASE step = "stuck" /\ n = 1
      BY <1>1, <3>1, <3>3 DEF Broken, Mounts
    <3> QED BY <3>1, <3>2, <3>3
  <2> QED BY <2>1, <2>2
<1>4. CASE Unmount
  <2>1. /\ step = "unmounting" /\ n \in 1..Len(Fstab) /\ num # 0 /\ n \in fs /\ n' = n + 1
        /\ fs' = fs \ {n} /\ UNCHANGED <<step, types>>
    BY <1>1, <1>4 DEF Unmount, VolInv
  <2>2. PICK last \in (n - 1)..Len(Fstab) : fs = n..last
    <3>1. Known BY <1>1, <2>1 DEF VolInv
    <3> QED BY <2>1, <3>1 DEF Known
  <2>3. last # Len(Fstab)
    BY <1>1, <2>1, <2>2 DEF Broken
  <2>4. Len(Fstab) \notin fs' /\ n' <= Len(Fstab)
    BY <2>1, <2>2, <2>3
  <2> QED BY <1>1, <2>1, <2>4 DEF Broken
<1>5. CASE DeinitEnd
  <2>1. step = "unmounting" /\ num # 0 /\ n = Len(Fstab) + 1
    BY <1>1, <1>5 DEF DeinitEnd, VolInv
  <2>2. fs = n..Len(Fstab)
    BY <1>1, <2>1 DEF VolInv, Known
  <2> QED BY <1>1, <2>1, <2>2 DEF Broken
<1>6. CASE Undetected \/ Mount \/ MountFail \/ InitEnd
  BY <1>1, <1>6 DEF Undetected, Mount, MountFail, InitEnd
<1>7. CASE UNCHANGED volvars
  BY <1>7 DEF Broken, volvars
<1> QED BY <1>2, <1>3, <1>4, <1>5, <1>6, <1>7 DEF Next, VStep, vars

\* No call mends a mount that failed half way or an unmount that stopped.
THEOREM NothingMends == Spec => OnceBroken
<1>1. StInv /\ [Next]_vars => [Broken => Broken']_vars
  BY BrokenStays
<1> QED BY <1>1, StorageInvariant, PTL DEF Spec, OnceBroken

=============================================================================
