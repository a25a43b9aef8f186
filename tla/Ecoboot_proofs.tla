--------------------------- MODULE Ecoboot_proofs ---------------------------
(***************************************************************************)
(* Proofs about Ecoboot, for every length of a transfer, every size of the *)
(* boot partition and every set of images.                                 *)
(***************************************************************************)
EXTENDS Ecoboot, TLAPS

\* What the assumption says of the file that is flashed.
LEMMA FileFacts ==
    ASSUME file \in Images
    PROVE  /\ file \in Seq(ImageData) /\ Len(file) \in Nat
           /\ DOMAIN file = 1..Len(file)
           /\ \A t \in 1..Len(file) : file[t] \in Data
  BY EcobootAssumption DEF Data

\* A buffer that was filled holds data.
LEMMA FilledType ==
    ASSUME TypeOK, NEW n \in Nat, n <= sz, sz <= Len(file)
    PROVE  Filled(n) \in [1..Chunk -> Data]
<1>1. file \in Images /\ sz \in Nat /\ buf \in [1..Chunk -> Data]
  BY DEF TypeOK
<1>2. Chunk \in Nat /\ Junk \in Data
  BY EcobootAssumption DEF Data
<1>3. \A i \in 1..Chunk : i <= n => Pos + i \in 1..Len(file)
  BY <1>1, <1>2, FileFacts DEF Pos
<1> QED
  BY <1>1, <1>2, <1>3, FileFacts DEF Filled

\* The boot partition after a transfer, or a part of one.
LEMMA WrittenType ==
    ASSUME TypeOK, InRange, NEW part \in SUBSET Target
    PROVE  Written(part) \in [Sectors -> Data]
<1>1. \A s \in part : s - lba \in 1..Chunk
  BY EcobootAssumption DEF Target, TypeOK
<1> QED
  BY <1>1 DEF Written, TypeOK

-----------------------------------------------------------------------------
\* The type invariant and the size that is left of the file.
LEMMA TypeStep ==
    ASSUME TypeOK, Buffered, Compared, Discipline, [Next]_vars
    PROVE  TypeOK'
<1>1. CASE Open
  BY <1>1, FileFacts, EcobootAssumption DEF Open, TypeOK, world, Empty, Data
<1>2. CASE OpenFails
  BY <1>2 DEF OpenFails, FailsWith, Return, TypeOK, world, locals
<1>3. CASE ReadChunk
  <2>1. sz <= Len(file) /\ Wanted \in Nat /\ Wanted <= sz
    BY <1>3, EcobootAssumption
    DEF ReadChunk, Buffered, Compared, Discipline, TypeOK, Wanted
  <2>2. buf' \in [1..Chunk -> Data]
    BY <1>3, <2>1, FilledType DEF ReadChunk
  <2>3. sz' \in Nat
    BY <1>3, <2>1 DEF ReadChunk, TypeOK
  <2> QED
    BY <1>3, <2>2, <2>3 DEF ReadChunk, AfterRead, TypeOK, world
<1>4. ASSUME NEW n \in 1..(Chunk - 1), ReadShort(n)
      PROVE  TypeOK'
  <2>1. sz <= Len(file) /\ n \in Nat /\ n <= sz
    BY <1>4, EcobootAssumption DEF ReadShort, Buffered, Compared, Discipline, TypeOK
  <2>2. buf' \in [1..Chunk -> Data]
    BY <1>4, <2>1, FilledType DEF ReadShort
  <2>3. sz' \in Nat
    BY <1>4, <2>1 DEF ReadShort, TypeOK
  <2> QED
    BY <1>4, <2>2, <2>3 DEF ReadShort, AfterRead, TypeOK, world
<1>5. CASE ReadFails
  BY <1>5 DEF ReadFails, Fails, FailsWith, Return, TypeOK, world
<1>6. CASE ReadEnd
  BY <1>6 DEF ReadEnd, TypeOK, world, locals
<1>7. CASE Select
  BY <1>7 DEF Select, TypeOK, locals
<1>8. CASE OutOfRange
  BY <1>8 DEF OutOfRange, FailsWith, Return, TypeOK, world, locals
<1>9. CASE WriteBlocks
  <2>1. boot' \in [Sectors -> Data]
    BY <1>9, WrittenType DEF WriteBlocks
  <2> QED
    BY <1>9, <2>1 DEF WriteBlocks, TypeOK, locals
<1>10. CASE ReadBlocks
  <2>1. \A i \in 1..Chunk : lba + i \in Sectors
    BY <1>10, EcobootAssumption DEF ReadBlocks, InRange, Sectors, TypeOK
  <2>2. buf1' \in [1..Chunk -> Data]
    BY <1>10, <2>1 DEF ReadBlocks, TypeOK
  <2> QED
    BY <1>10, <2>2 DEF ReadBlocks, TypeOK, world
<1>11. CASE TransferFails
  <2>1. boot' \in [Sectors -> Data]
    BY <1>11, WrittenType DEF TransferFails, TypeOK
  <2> QED
    BY <1>11, <2>1 DEF TransferFails, Fails, FailsWith, Return, TypeOK, locals
<1>12. CASE Deselect
  <2>1. lba' \in Nat
    BY <1>12, EcobootAssumption DEF Deselect, TypeOK
  <2>2. CASE func = "flash" /\ ferror
    BY <1>12, <2>1, <2>2 DEF Deselect, Fails, FailsWith, Return, TypeOK
  <2>3. CASE ~(func = "flash" /\ ferror)
    BY <1>12, <2>1, <2>3 DEF Deselect, TypeOK
  <2> QED
    BY <2>2, <2>3
<1>13. CASE SelectFails
  BY <1>13 DEF SelectFails, Fails, FailsWith, Return, TypeOK, locals
<1>14. CASE Compare
  BY <1>14 DEF Compare, FailsWith, Return, TypeOK, world, locals
<1>15. CASE Unlink
  BY <1>15 DEF Unlink, Return, TypeOK, locals
<1>16. CASE UserWrite
  BY <1>16 DEF UserWrite, TypeOK, locals, Data
<1>17. CASE Off
  <2>1. boot' \in [Sectors -> Data]
    BY <1>17, WrittenType DEF Off, TypeOK
  <2> QED
    BY <1>17, <2>1 DEF Off, TypeOK, Empty, Data
<1>18. ASSUME NEW img \in Images, PowerOn(img)
       PROVE  TypeOK'
  <2>1. runs' \in 0..MaxRuns
    BY <1>18, EcobootAssumption DEF PowerOn, TypeOK
  <2> QED
    BY <1>18, <2>1 DEF PowerOn, TypeOK, locals
<1>19. CASE UNCHANGED vars
  BY <1>19 DEF vars, locals, TypeOK
<1> QED
  BY <1>1, <1>2, <1>3, <1>4, <1>5, <1>6, <1>7, <1>8, <1>9, <1>10, <1>11, <1>12, <1>13,
     <1>14, <1>15, <1>16, <1>17, <1>18, <1>19
  DEF Next, Program, Read, Transfer

-----------------------------------------------------------------------------
\* Flashed speaks of the boot partition and of the file only.
LEMMA FlashedSame ==
    ASSUME UNCHANGED <<boot, file>>
    PROVE  Flashed' <=> Flashed
  BY DEF Flashed

\* Which partition is selected, and when the file can be gone.
LEMMA DisciplineStep ==
    ASSUME TypeOK, Discipline, Compared, [Next]_vars
    PROVE  Discipline'
<1>1. CASE Open
  BY <1>1, FlashedSame DEF Open, Discipline, world
<1>2. CASE OpenFails
  BY <1>2, FlashedSame DEF OpenFails, FailsWith, Return, Discipline, world, locals
<1>3. CASE ReadChunk
  BY <1>3, FlashedSame DEF ReadChunk, AfterRead, Discipline, world
<1>4. ASSUME NEW n \in 1..(Chunk - 1), ReadShort(n)
      PROVE  Discipline'
  BY <1>4, FlashedSame DEF ReadShort, AfterRead, Discipline, world
<1>5. CASE ReadFails
  BY <1>5, FlashedSame DEF ReadFails, Fails, FailsWith, Return, Discipline, world
<1>6. CASE ReadEnd
  <2>1. func = "verify" => Flashed
    <3>1. SUFFICES ASSUME func = "verify"
                   PROVE  Flashed
      OBVIOUS
    <3>2. Pos = Len(file)
      BY <1>6, FileFacts DEF ReadEnd, Pos, TypeOK
    <3>3. Same(Pos)
      BY <1>6, <3>1 DEF ReadEnd, Compared
    <3> QED
      BY <3>2, <3>3, FileFacts, EcobootAssumption DEF Same, Flashed, Sectors, TypeOK
  <2> QED
    BY <1>6, <2>1, FlashedSame DEF ReadEnd, Discipline, world, locals
<1>7. CASE Select
  BY <1>7, FlashedSame DEF Select, Discipline, locals
<1>8. CASE OutOfRange
  BY <1>8, FlashedSame DEF OutOfRange, FailsWith, Return, Discipline, world, locals
<1>9. CASE WriteBlocks
  BY <1>9 DEF WriteBlocks, Discipline, locals
<1>10. CASE ReadBlocks
  BY <1>10, FlashedSame DEF ReadBlocks, Discipline, world
<1>11. CASE TransferFails
  BY <1>11 DEF TransferFails, Fails, FailsWith, Return, Discipline, locals
<1>12. CASE Deselect
  BY <1>12, FlashedSame DEF Deselect, Fails, FailsWith, Return, Discipline
<1>13. CASE SelectFails
  BY <1>13, FlashedSame DEF SelectFails, Fails, FailsWith, Return, Discipline, locals
<1>14. CASE Compare
  BY <1>14, FlashedSame DEF Compare, FailsWith, Return, Discipline, world, locals
<1>15. CASE Unlink
  BY <1>15, FlashedSame DEF Unlink, Return, Discipline, locals
<1>16. CASE UserWrite
  BY <1>16 DEF UserWrite, Discipline, locals
<1>17. CASE Off
  BY <1>17 DEF Off, Discipline
<1>18. ASSUME NEW img \in Images, PowerOn(img)
       PROVE  Discipline'
  BY <1>18 DEF PowerOn, Discipline, locals
<1>19. CASE UNCHANGED vars
  BY <1>19, FlashedSame DEF vars, locals, Discipline
<1> QED
  BY <1>1, <1>2, <1>3, <1>4, <1>5, <1>6, <1>7, <1>8, <1>9, <1>10, <1>11, <1>12, <1>13,
     <1>14, <1>15, <1>16, <1>17, <1>18, <1>19
  DEF Next, Program, Read, Transfer

-----------------------------------------------------------------------------
\* The loop of verify_ecoboot passes only what is the same in the boot partition.
LEMMA ComparedStep ==
    ASSUME TypeOK, Discipline, Compared, [Next]_vars
    PROVE  Compared'
<1> USE DEF TypeOK
<1>1. CASE Open
  <2>1. Pos' = 0
    BY <1>1, FileFacts DEF Open, Pos, world
  <2> QED
    BY <1>1, <2>1, FileFacts DEF Open, Discipline, Compared, Same, world
<1>2. CASE ReadChunk
  <2>1. SUFFICES ASSUME func = "verify"
                 PROVE  Compared'
    BY <1>2 DEF ReadChunk, Compared, world
  <2>2. /\ sz <= Len(file) /\ BlockRead /\ lba >= Chunk /\ Same(Pos)
        /\ lba = Pos + Chunk /\ selected = "user"
    BY <1>2, <2>1 DEF ReadChunk, Compared, Discipline
  <2>3. /\ Chunk \in Nat \ {0} /\ Len(file) \in Nat /\ Pos \in Nat /\ lba - Chunk = Pos
        /\ Wanted \in Nat /\ Wanted <= sz /\ Wanted <= Chunk
        /\ sz > Wanted => Wanted = Chunk
    BY <2>2, EcobootAssumption, FileFacts DEF Pos, Wanted
  <2>4. Pos' = Pos + Wanted
    BY <1>2, <2>3 DEF ReadChunk, Pos, world
  <2>5. /\ sz' \in Nat /\ sz' <= Len(file) /\ Pos' <= lba /\ (sz' > 0 => lba = Pos')
    BY <1>2, <2>2, <2>3, <2>4 DEF ReadChunk
  <2>6. \A i \in 1..Chunk : lba - Chunk + i <= Pos' => buf'[i] = file[lba - Chunk + i]
    BY <1>2, <2>2, <2>3, <2>4 DEF ReadChunk, Filled
  <2>7. BlockRead' /\ Same(lba - Chunk)'
    BY <1>2, <2>2, <2>3 DEF ReadChunk, BlockRead, Same, world
  <2> QED
    BY <1>2, <2>1, <2>2, <2>5, <2>6, <2>7 DEF ReadChunk, AfterRead, Compared, world
<1>3. ASSUME NEW n \in 1..(Chunk - 1), ReadShort(n)
      PROVE  Compared'
  BY <1>3, EcobootAssumption, FileFacts DEF ReadShort, AfterRead, Compared, world
<1>4. CASE Select
  BY <1>4 DEF Select, Compared, Pos, Same, locals
<1>5. CASE ReadBlocks
  BY <1>5, EcobootAssumption DEF ReadBlocks, InRange, Compared, Pos, Same, world
<1>6. CASE Deselect
  <2>1. SUFFICES ASSUME func = "verify"
                 PROVE  Compared'
    BY <1>6 DEF Deselect, Fails, FailsWith, Return, Compared
  <2>2. lba' - Chunk = lba /\ lba' \in Nat /\ lba' >= Chunk
    BY <1>6, EcobootAssumption DEF Deselect
  <2>3. /\ lba + Chunk <= BootSectors /\ Same(Pos) /\ sz <= Len(file)
        /\ sz > 0 => lba = Pos
        /\ \A i \in 1..Chunk : buf1[i] = boot[lba + i]
    BY <1>6, <2>1 DEF Deselect, Compared
  <2>4. BlockRead'
    BY <1>6, <2>2, <2>3, EcobootAssumption DEF Deselect, BlockRead
  <2>5. Same(Pos)' /\ Pos' = Pos
    BY <1>6, <2>3 DEF Deselect, Same, Pos
  <2> QED
    BY <1>6, <2>1, <2>2, <2>3, <2>4, <2>5, EcobootAssumption DEF Deselect, Compared
<1>7. CASE Compare
  <2>1. SUFFICES ASSUME buf = buf1, ~ferror
                 PROVE  Compared'
    BY <1>7 DEF Compare, FailsWith, Return, Compared
  <2>2. /\ sz <= Len(file) /\ BlockRead /\ lba >= Chunk /\ Same(lba - Chunk)
        /\ Pos <= lba /\ (sz > 0 => lba = Pos)
        /\ \A i \in 1..Chunk : lba - Chunk + i <= Pos => buf[i] = file[lba - Chunk + i]
    BY <1>7, <2>1 DEF Compare, Compared, Discipline
  <2>3. Pos \in Nat /\ Chunk \in Nat /\ BootSectors \in Nat
    <3>1. Len(file) \in Nat
      BY FileFacts
    <3> QED
      BY <2>2, <3>1, EcobootAssumption DEF Pos
  <2>4. ASSUME NEW s \in 1..Pos
        PROVE  s <= BootSectors /\ boot[s] = file[s]
    <3>1. CASE s <= lba - Chunk
      BY <2>2, <2>3, <3>1 DEF Same
    <3>2. CASE s > lba - Chunk
      <4>1. PICK i \in 1..Chunk : s = lba - Chunk + i
        BY <2>2, <2>3, <3>2
      <4>2. buf1[i] = boot[s] /\ lba <= BootSectors
        BY <2>2, <4>1 DEF BlockRead
      <4>3. s <= Pos
        BY <2>3
      <4>4. buf[i] = file[s]
        BY <2>2, <4>1, <4>3
      <4> QED
        BY <2>1, <2>2, <2>3, <4>2, <4>3, <4>4
    <3> QED
      BY <2>2, <2>3, <3>1, <3>2
  <2>5. Same(Pos)' /\ Pos' = Pos
    BY <1>7, <2>4 DEF Compare, Same, Pos, world, locals
  <2> QED
    BY <1>7, <2>1, <2>2, <2>5 DEF Compare, Compared, world, locals
<1>8. CASE OpenFails \/ ReadFails \/ OutOfRange \/ TransferFails \/ SelectFails
  BY <1>8 DEF OpenFails, ReadFails, OutOfRange, TransferFails, SelectFails, Fails, FailsWith,
              Return, Compared
<1>9. CASE ReadEnd
  BY <1>9 DEF ReadEnd, Compared, world, locals
<1>10. CASE WriteBlocks
  BY <1>10 DEF WriteBlocks, Compared
<1>11. CASE Unlink
  BY <1>11 DEF Unlink, Return, Compared
<1>12. CASE UserWrite
  BY <1>12 DEF UserWrite, Compared, Discipline
<1>13. CASE Off
  BY <1>13 DEF Off, Compared
<1>14. ASSUME NEW img \in Images, PowerOn(img)
       PROVE  Compared'
  BY <1>14 DEF PowerOn, Compared
<1>15. CASE UNCHANGED vars
  BY <1>15 DEF vars, locals, Compared, BlockRead, Same, Pos
<1> QED
  BY <1>1, <1>2, <1>3, <1>4, <1>5, <1>6, <1>7, <1>8, <1>9, <1>10, <1>11, <1>12, <1>13,
     <1>14, <1>15
  DEF Next, Program, Read, Transfer

-----------------------------------------------------------------------------
\* What flash_ecoboot writes is the image.
LEMMA BufferedStep ==
    ASSUME TypeOK, Discipline, Buffered, [Next]_vars
    PROVE  Buffered'
<1> USE DEF TypeOK
<1>1. CASE Open
  <2>1. Len(file) \in Nat /\ Chunk \in Nat /\ Len(file) >= Chunk
    BY <1>1, FileFacts, EcobootAssumption DEF Open
  <2> QED
    BY <1>1, <2>1 DEF Open, Buffered, world
<1>2. CASE ReadChunk
  <2>1. SUFFICES ASSUME func = "flash"
                 PROVE  Buffered'
    BY <1>2 DEF ReadChunk, AfterRead, Buffered, Discipline, world
  <2>2. /\ sz <= Len(file) /\ ~ferror /\ selected = "user" /\ Len(file) \in Nat
        /\ Chunk \in Nat \ {0}
    BY <1>2, <2>1, FileFacts, EcobootAssumption DEF ReadChunk, Buffered, Discipline
  <2>3. /\ Wanted \in Nat /\ Wanted <= sz /\ Pos \in Nat /\ Pos + sz = Len(file)
        /\ sz >= Chunk => Wanted = Chunk
    BY <2>2 DEF Wanted, Pos
  <2>4. ASSUME NEW i \in 1..Chunk
        PROVE  \E t \in DOMAIN file : buf'[i] = file[t]
    <3>1. CASE i <= Wanted
      <4>1. Pos + i \in DOMAIN file
        BY <2>2, <2>3, <3>1, FileFacts
      <4> QED
        <5>1. ~(i > Wanted)
          BY <2>3, <3>1
        <5>2. buf'[i] = file[Pos + i]
          BY <1>2, <2>2, <5>1 DEF ReadChunk, Filled
        <5> QED
          BY <4>1, <5>2
    <3>2. CASE i > Wanted
      <4>1. buf'[i] = buf[i]
        BY <1>2, <2>3, <3>2 DEF ReadChunk, Filled
      <4>2. sz < Chunk
        BY <2>2, <2>3, <3>2
      <4>3. \E t \in DOMAIN file : buf[i] = file[t]
        BY <1>2, <2>1, <2>2, <4>2 DEF ReadChunk, Buffered
      <4> QED
        BY <4>1, <4>3
    <3> QED
      BY <2>3, <3>1, <3>2
  <2>5. sz' <= Len(file)
    BY <1>2, <2>2, <2>3 DEF ReadChunk
  <2> QED
    BY <1>2, <2>1, <2>2, <2>4, <2>5 DEF ReadChunk, AfterRead, Buffered, world
<1>3. ASSUME NEW n \in 1..(Chunk - 1), ReadShort(n)
      PROVE  Buffered'
  <2>1. func = "flash" => sz' <= Len(file)
    BY <1>3, FileFacts, EcobootAssumption DEF ReadShort, Buffered
  <2> QED
    BY <1>3, <2>1 DEF ReadShort, AfterRead, Buffered, world
<1>4. CASE Select
  BY <1>4 DEF Select, Buffered, locals
<1>5. CASE WriteBlocks
  BY <1>5 DEF WriteBlocks, Buffered, locals
<1>6. CASE ReadBlocks
  BY <1>6 DEF ReadBlocks, Buffered, world
<1>7. CASE Deselect
  BY <1>7 DEF Deselect, Fails, FailsWith, Return, Buffered
<1>8. CASE OpenFails \/ ReadFails \/ OutOfRange \/ TransferFails \/ SelectFails
  BY <1>8 DEF OpenFails, ReadFails, OutOfRange, TransferFails, SelectFails, Fails, FailsWith,
              Return, Buffered
<1>9. CASE ReadEnd
  BY <1>9 DEF ReadEnd, Buffered, Discipline, world, locals
<1>10. CASE Compare
  BY <1>10 DEF Compare, FailsWith, Return, Buffered, Discipline, world, locals
<1>11. CASE Unlink
  BY <1>11 DEF Unlink, Return, Buffered
<1>12. CASE UserWrite
  BY <1>12 DEF UserWrite, Buffered, Discipline
<1>13. CASE Off
  BY <1>13 DEF Off, Buffered
<1>14. ASSUME NEW img \in Images, PowerOn(img)
       PROVE  Buffered'
  BY <1>14 DEF PowerOn, Buffered, locals
<1>15. CASE UNCHANGED vars
  BY <1>15 DEF vars, locals, Buffered
<1> QED
  BY <1>1, <1>2, <1>3, <1>4, <1>5, <1>6, <1>7, <1>8, <1>9, <1>10, <1>11, <1>12, <1>13,
     <1>14, <1>15
  DEF Next, Program, Read, Transfer

-----------------------------------------------------------------------------
\* What a step of the program that transfers nothing leaves alone.
LEMMA BootKept ==
    ASSUME Program, ~WriteBlocks, ~TransferFails
    PROVE  UNCHANGED <<boot, file, runs, before>>
  BY DEF Program, Read, Transfer, Open, OpenFails, ReadChunk, ReadShort, ReadFails, ReadEnd,
         Select, OutOfRange, ReadBlocks, Deselect, SelectFails, Compare, Unlink, world

\* Every sector is as it was found or holds data of the image.
LEMMA ImageStep ==
    ASSUME TypeOK, Discipline, Buffered, OnlyTheImage, [Next]_vars
    PROVE  OnlyTheImage'
<1>1. CASE WriteBlocks
  <2>1. SUFFICES ASSUME ~ferror
                 PROVE  OnlyTheImage'
    BY <1>1 DEF WriteBlocks, OnlyTheImage, locals
  <2>2. \A i \in 1..Chunk : \E t \in DOMAIN file : buf[i] = file[t]
    BY <1>1, <2>1 DEF WriteBlocks, Buffered
  <2>3. PICK part \in SUBSET Target : boot' = Written(part)
    BY <1>1 DEF WriteBlocks
  <2>4. \A s \in part : s - lba \in 1..Chunk
    BY EcobootAssumption DEF Target, TypeOK
  <2>5. \A s \in Sectors :
          boot[s] = before[s] \/ \E t \in DOMAIN file : boot[s] = file[t]
    BY <1>1, <2>1 DEF WriteBlocks, OnlyTheImage, Discipline
  <2>6. ASSUME NEW s \in Sectors
        PROVE  boot'[s] = before[s] \/ \E t \in DOMAIN file : boot'[s] = file[t]
    <3>1. CASE s \in part
      BY <2>2, <2>3, <2>4, <3>1 DEF Written
    <3>2. CASE s \notin part
      BY <2>3, <2>5, <3>2 DEF Written
    <3> QED
      BY <3>1, <3>2
  <2> QED
    BY <1>1, <2>6 DEF WriteBlocks, OnlyTheImage, locals
<1>2. CASE TransferFails
  BY <1>2 DEF TransferFails, Fails, FailsWith, Return, OnlyTheImage
<1>3. CASE Program /\ ~WriteBlocks /\ ~TransferFails
  <2>1. UNCHANGED <<boot, file, runs, before>>
    BY <1>3, BootKept
  <2>2. pc # "off" /\ ret = "none"
    BY <1>3 DEF Program, Read, Transfer, Open, OpenFails, ReadChunk, ReadShort, ReadFails,
                ReadEnd, Select, OutOfRange, ReadBlocks, Deselect, SelectFails, Compare,
                Unlink, Discipline
  <2>3. ferror => ferror' \/ pc = "open"
    BY <1>3 DEF Program, Read, Transfer, Open, OpenFails, ReadChunk, ReadShort, ReadFails,
                ReadEnd, Select, OutOfRange, ReadBlocks, Deselect, SelectFails, Compare,
                Unlink, world, locals
  <2> QED
    BY <2>1, <2>2, <2>3 DEF OnlyTheImage, Buffered
<1>4. CASE UserWrite
  BY <1>4 DEF UserWrite, OnlyTheImage, Discipline, TypeOK
<1>5. CASE Off
  BY <1>5 DEF Off, OnlyTheImage
<1>6. ASSUME NEW img \in Images, PowerOn(img)
      PROVE  OnlyTheImage'
  BY <1>6 DEF PowerOn, OnlyTheImage
<1>7. CASE UNCHANGED vars
  BY <1>7 DEF vars, locals, OnlyTheImage
<1> QED
  BY <1>1, <1>2, <1>3, <1>4, <1>5, <1>6, <1>7 DEF Next

\* The file goes only when it was compared.
LEMMA KeptStep ==
    ASSUME TypeOK, Discipline, FileKept, [Next]_vars
    PROVE  FileKept'
<1>1. CASE WriteBlocks \/ TransferFails
  BY <1>1 DEF WriteBlocks, TransferFails, FileKept, Discipline
<1>2. CASE Program /\ ~WriteBlocks /\ ~TransferFails
  <2>1. UNCHANGED <<boot, file, runs, before>>
    BY <1>2, BootKept
  <2>2. CASE Unlink
    BY <2>1, <2>2, FlashedSame DEF Unlink, FileKept, Discipline
  <2>3. CASE ~Unlink
    <3>1. UNCHANGED there
      BY <1>2, <2>3
      DEF Program, Read, Transfer, Open, OpenFails, ReadChunk, ReadShort, ReadFails,
          ReadEnd, Select, OutOfRange, ReadBlocks, Deselect, SelectFails, Compare, world
    <3> QED
      BY <2>1, <3>1, FlashedSame DEF FileKept
  <2> QED
    BY <2>2, <2>3
<1>3. CASE UserWrite
  BY <1>3 DEF UserWrite, FileKept, Discipline, TypeOK
<1>4. CASE Off
  <2>1. CASE pc = "transfer"
    BY <1>4, <2>1 DEF Off, FileKept, Discipline
  <2>2. CASE pc # "transfer"
    BY <1>4, <2>2, FlashedSame DEF Off, FileKept
  <2> QED
    BY <2>1, <2>2
<1>5. ASSUME NEW img \in Images, PowerOn(img)
      PROVE  FileKept'
  BY <1>5 DEF PowerOn, FileKept
<1>6. CASE UNCHANGED vars
  BY <1>6, FlashedSame DEF vars, FileKept
<1> QED
  BY <1>1, <1>2, <1>3, <1>4, <1>5, <1>6 DEF Next

-----------------------------------------------------------------------------
\* The number of transfers that the image takes.
LEMMA BlocksFacts ==
    ASSUME file \in Images
    PROVE  /\ Blocks \in Nat /\ Blocks * Chunk \in Nat
           /\ Blocks * Chunk >= Len(file) /\ Blocks * Chunk < Len(file) + Chunk
           /\ (Blocks + 1) * Chunk = Blocks * Chunk + Chunk
<1>1. \A l \in Nat, c \in Nat \ {0} :
        LET b == (l + c - 1) \div c IN
        b \in Nat /\ b * c \in Nat /\ b * c >= l /\ b * c < l + c /\ (b + 1) * c = b * c + c
  OBVIOUS
<1> QED
  BY <1>1, FileFacts, EcobootAssumption DEF Blocks

\* A multiple of the transfer that is less than one transfer behind another one.
LEMMA Multiples ==
    ASSUME NEW x \in Nat, NEW y \in Nat, NEW c \in Nat \ {0}, x * c < y * c + c
    PROVE  x * c <= y * c
  OBVIOUS

\* The transfer that ends the image ends where the last block does.
LEMMA LastBlock ==
    ASSUME TypeOK, Aligned
    PROVE  /\ lba < Len(file) + Chunk => lba <= Blocks * Chunk
           /\ lba >= Len(file) => Blocks * Chunk <= lba
<1>1. PICK b \in Nat : lba = b * Chunk
  BY DEF Aligned, TypeOK
<1>2. /\ Blocks \in Nat /\ Blocks * Chunk \in Nat /\ Chunk \in Nat \ {0}
      /\ Len(file) \in Nat /\ lba \in Nat
      /\ Blocks * Chunk >= Len(file) /\ Blocks * Chunk < Len(file) + Chunk
  BY BlocksFacts, FileFacts, EcobootAssumption DEF TypeOK
<1>3. lba < Len(file) + Chunk => b * Chunk < Blocks * Chunk + Chunk
  BY <1>1, <1>2
<1>4. lba >= Len(file) => Blocks * Chunk < b * Chunk + Chunk
  BY <1>1, <1>2
<1> QED
  BY <1>1, <1>2, <1>3, <1>4, Multiples

\* The next transfer begins at a multiple too.
LEMMA AlignedNext ==
    ASSUME TypeOK, Aligned, lba' = lba + Chunk
    PROVE  Aligned'
<1>1. PICK b \in Nat : lba = b * Chunk
  BY DEF Aligned, TypeOK
<1>2. Chunk \in Nat \ {0} /\ lba \in Nat
  BY EcobootAssumption DEF TypeOK
<1>3. \A c \in Nat \ {0} : (b + 1) * c = b * c + c /\ b + 1 \in 0..(b * c + c)
  OBVIOUS
<1> QED
  BY <1>1, <1>2, <1>3 DEF Aligned

\* No transfer begins within the first one, or within the second.
LEMMA AlignedGap ==
    ASSUME TypeOK, Aligned
    PROVE  (lba > 0 => lba >= Chunk) /\ (lba > Chunk => lba >= 2 * Chunk)
<1>1. PICK b \in Nat : lba = b * Chunk
  BY DEF Aligned, TypeOK
<1>2. \A c \in Nat \ {0} : (b * c > 0 => b * c >= c) /\ (b * c > c => b * c >= 2 * c)
  <2>1. CASE b = 0
    BY <2>1
  <2>2. CASE b = 1
    BY <2>2
  <2>3. CASE b >= 2
    BY <2>3
  <2> QED
    BY <2>1, <2>2, <2>3
<1> QED
  BY <1>1, <1>2, EcobootAssumption

\* What a read leaves in the buffer: the file, and behind its end the transfer before.
LEMMA FilledIsTiled ==
    ASSUME TypeOK, sz > 0, sz <= Len(file), selected = "user", Len(file) >= MinSectors,
           Tiled(Pos - Chunk), Pos > 0 => Pos >= Chunk
    PROVE  \A i \in 1..Chunk : Filled(Wanted)[i] = Tile(Pos + i)
<1>1. /\ Chunk \in Nat \ {0} /\ Len(file) \in Nat /\ Len(file) > Chunk /\ sz \in Nat
      /\ Pos \in Nat /\ Pos + sz = Len(file)
  BY FileFacts, EcobootAssumption DEF TypeOK, Pos
<1> SUFFICES ASSUME NEW i \in 1..Chunk
             PROVE  Filled(Wanted)[i] = Tile(Pos + i)
  OBVIOUS
<1>2. CASE i <= sz
  <2>1. ~(i > Wanted) /\ Pos + i <= Len(file)
    BY <1>1, <1>2 DEF Wanted
  <2> QED
    BY <2>1 DEF Filled, Tile
<1>3. CASE i > sz
  <2>1. Wanted = sz /\ sz < Chunk /\ ~(Pos + i <= Len(file))
    BY <1>1, <1>3 DEF Wanted
  <2>2. /\ Pos - Chunk + i <= Len(file) /\ Pos + i - Chunk = Pos - Chunk + i
        /\ i > Wanted
    BY <1>1, <1>3, <2>1
  <2>3. Pos - Chunk >= 0
    BY <1>1, <1>3, <2>1
  <2>4. buf[i] = Tile(Pos - Chunk + i)
    BY <2>3 DEF Tiled
  <2>5. Tile(Pos + i) = file[Pos - Chunk + i] /\ Tile(Pos - Chunk + i) = file[Pos - Chunk + i]
    BY <1>1, <2>1, <2>2 DEF Tile
  <2> QED
    BY <2>2, <2>4, <2>5 DEF Filled
<1> QED
  BY <1>1, <1>2, <1>3

\* What a read does to the position and to the buffer, while no call fails.
LEMMA ReadTiled ==
    ASSUME TypeOK, ReadChunk, sz <= Len(file), selected = "user", Len(file) >= MinSectors,
           Tiled(Pos - Chunk), Pos > 0 => Pos >= Chunk
    PROVE  /\ sz' \in Nat /\ sz' <= Len(file) /\ Pos \in Nat /\ Pos < Len(file)
           /\ Pos' <= Pos + Chunk /\ (sz' > 0 => Pos' = Pos + Chunk)
           /\ \A i \in 1..Chunk : buf'[i] = Tile(Pos + i)
           /\ UNCHANGED <<boot, file, lba, ferror, fault, func>>
<1>1. /\ Chunk \in Nat \ {0} /\ Len(file) \in Nat /\ sz \in Nat /\ sz > 0
      /\ sz' = sz - Wanted /\ UNCHANGED <<boot, file, lba, ferror, fault, func>>
  BY FileFacts, EcobootAssumption DEF TypeOK, ReadChunk, world
<1>2. buf' = Filled(Wanted)
  BY DEF ReadChunk
<1>3. /\ sz' \in Nat /\ sz' <= Len(file) /\ Pos \in Nat /\ Pos < Len(file)
      /\ Pos' <= Pos + Chunk /\ (sz' > 0 => Pos' = Pos + Chunk)
  BY <1>1 DEF Pos, Wanted
<1> QED
  BY <1>1, <1>2, <1>3, FilledIsTiled

\* A failure is not forgotten while the program runs.
LEMMA FaultStays ==
    ASSUME TypeOK, Program, ~fault'
    PROVE  ~fault
<1>1. CASE Open \/ OpenFails \/ ReadChunk \/ ReadEnd \/ Select \/ OutOfRange \/ ReadBlocks \/ Compare
  BY <1>1 DEF Open, OpenFails, ReadChunk, ReadEnd, Select, OutOfRange, ReadBlocks, Compare,
              FailsWith, TypeOK
<1>2. CASE (\E n \in 1..(Chunk - 1) : ReadShort(n)) \/ ReadFails \/ TransferFails \/ SelectFails
  BY <1>2 DEF ReadShort, ReadFails, TransferFails, SelectFails, Fails, FailsWith
<1>3. CASE WriteBlocks
  BY <1>3 DEF WriteBlocks, TypeOK
<1>4. CASE Deselect \/ Unlink
  BY <1>4 DEF Deselect, Fails, FailsWith, Unlink
<1> QED
  BY <1>1, <1>2, <1>3, <1>4 DEF Program, Read, Transfer

\* Where Program can be.
LEMMA Running ==
    ASSUME Program
    PROVE  pc \in {"open", "read", "select", "transfer", "deselect", "compare", "unlink"}
  BY DEF Program, Read, Transfer, Open, OpenFails, ReadChunk, ReadShort, ReadFails, ReadEnd, Select,
         OutOfRange, WriteBlocks, ReadBlocks, TransferFails, Deselect, SelectFails, Compare, Unlink

\* The first loop of a run in which no call fails.
LEMMA FlashingStep ==
    ASSUME TypeOK, Discipline, Faultless, Program, ~fault', func = "flash", func' = "flash",
           pc # "open", pc' # "done"
    PROVE  Flashing'
<1> USE DEF TypeOK
<1>0. Flashing /\ ~fault /\ ~ferror /\ Len(file) >= MinSectors
  BY FaultStays, Running, FileFacts, EcobootAssumption DEF Faultless
<1>01. /\ Chunk \in Nat \ {0} /\ Len(file) \in Nat /\ lba \in Nat /\ BootSectors \in Nat
       /\ Len(file) > Chunk
  BY <1>0, FileFacts, EcobootAssumption
<1>1. CASE ReadChunk
  <2>1. /\ sz > 0 /\ sz <= Len(file) /\ lba = Pos /\ Tiled(Pos - Chunk) /\ Aligned /\ Held(lba)
        /\ selected = "user"
    BY <1>0, <1>1 DEF Flashing, ReadChunk, Discipline
  <2>2. Pos > 0 => Pos >= Chunk
    BY <2>1, AlignedGap
  <2>3. /\ sz' \in Nat /\ sz' <= Len(file) /\ Pos \in Nat /\ Pos < Len(file)
        /\ Pos' <= Pos + Chunk /\ (sz' > 0 => Pos' = Pos + Chunk)
        /\ \A i \in 1..Chunk : buf'[i] = Tile(Pos + i)
        /\ UNCHANGED <<boot, file, lba, ferror, fault, func>>
    BY <1>0, <1>1, <2>1, <2>2, ReadTiled
  <2>4. pc' = "select"
    BY <1>1 DEF ReadChunk, AfterRead
  <2>5. Aligned' /\ Held(lba)'
    BY <2>1, <2>3 DEF Aligned, Held, Tile
  <2>6. Tiled(lba)'
    BY <2>1, <2>3 DEF Tiled, Tile
  <2>7. lba' < Len(file') /\ Pos' <= lba' + Chunk /\ (sz' > 0 => Pos' = lba' + Chunk)
    BY <2>1, <2>3
  <2> QED
    BY <2>3, <2>4, <2>5, <2>6, <2>7 DEF Flashing
<1>2. CASE Select
  BY <1>0, <1>2 DEF Select, locals, Flashing, Aligned, Held, Tiled, Tile, Pos
<1>3. CASE WriteBlocks
  <2>1. /\ pc = "transfer" /\ InRange /\ boot' = Written(Target) /\ pc' = "deselect"
        /\ UNCHANGED <<file, sz, lba, buf>>
    BY <1>3 DEF WriteBlocks, locals
  <2>2. /\ sz <= Len(file) /\ Aligned /\ Held(lba) /\ lba < Len(file) /\ Pos <= lba + Chunk
        /\ (sz > 0 => Pos = lba + Chunk) /\ Tiled(lba)
    BY <1>0, <2>1 DEF Flashing
  <2>3. ASSUME NEW s \in 1..(lba + Chunk)
        PROVE  s <= BootSectors /\ boot'[s] = Tile(s)
    <3>1. s \in Sectors
      BY <1>01, <2>1 DEF InRange, Sectors
    <3>2. CASE s <= lba
      <4>1. s \notin Target /\ s \in 1..lba
        BY <1>01, <3>2 DEF Target
      <4> QED
        BY <2>1, <2>2, <3>1, <4>1 DEF Written, Held
    <3>3. CASE s > lba
      <4>1. PICK i \in 1..Chunk : i = s - lba
        BY <1>01, <3>3
      <4>2. s \in Target /\ s = lba + i
        BY <1>01, <3>3, <4>1 DEF Target
      <4>3. buf[i] = Tile(s)
        BY <1>01, <2>2, <4>2 DEF Tiled
      <4> QED
        BY <2>1, <3>1, <4>1, <4>2, <4>3 DEF Written, Sectors
    <3> QED
      BY <1>01, <3>2, <3>3
  <2>4. Held(lba)' /\ Held(lba + Chunk)'
    BY <1>01, <2>1, <2>3 DEF Held, Tile
  <2> QED
    BY <2>1, <2>2, <2>4 DEF Flashing, Aligned, Tiled, Tile, Pos
<1>4. CASE Deselect
  <2>1. /\ pc = "deselect" /\ pc' = "read" /\ lba' = lba + Chunk
        /\ UNCHANGED <<boot, file, sz, buf>>
    BY <1>0, <1>4 DEF Deselect
  <2>2. /\ sz <= Len(file) /\ Aligned /\ Held(lba + Chunk) /\ Pos <= lba + Chunk
        /\ (sz > 0 => Pos = lba + Chunk) /\ Tiled(lba)
    BY <1>0, <2>1 DEF Flashing
  <2>3. Aligned'
    BY <2>1, <2>2, AlignedNext
  <2>4. Held(lba)' /\ Tiled(lba - Chunk)'
    BY <1>01, <2>1, <2>2 DEF Held, Tiled, Tile
  <2> QED
    BY <2>1, <2>2, <2>3, <2>4 DEF Flashing, Pos
<1> QED
  BY <1>0, <1>1, <1>2, <1>3, <1>4
  DEF Program, Read, Transfer, ReadShort, ReadFails, ReadEnd, OutOfRange, ReadBlocks,
      TransferFails, SelectFails, Open, OpenFails, Compare, Unlink, Discipline, Fails, FailsWith, Return

\* The second loop, which reads one block more than the image has.
LEMMA VerifyingStep ==
    ASSUME TypeOK, Discipline, Compared, Faultless, Program, ~fault', func' = "verify",
           pc' # "done"
    PROVE  Verifying'
<1> USE DEF TypeOK
<1>0. ~fault /\ ~ferror /\ func \in {"flash", "verify"}
  <2>1. ~fault /\ ~ferror
    BY FaultStays, Running DEF Faultless
  <2>2. pc = "unlink" => Unlink
    BY DEF Program, Read, Transfer, Open, OpenFails, ReadChunk, ReadShort, ReadFails, ReadEnd,
           Select, OutOfRange, WriteBlocks, ReadBlocks, TransferFails, Deselect, SelectFails,
           Compare
  <2>3. pc # "unlink"
    BY <2>2 DEF Unlink, Return
  <2> QED
    BY <2>1, <2>3, Running DEF Discipline
<1>1. /\ Chunk \in Nat \ {0} /\ Len(file) \in Nat /\ lba \in Nat /\ BootSectors \in Nat
      /\ Blocks * Chunk \in Nat
  BY FileFacts, EcobootAssumption, BlocksFacts
<1>2. CASE func = "flash"
  <2>1. ReadEnd
    BY <1>0, <1>2
    DEF Program, Read, Transfer, ReadChunk, ReadShort, ReadFails, Select, OutOfRange, WriteBlocks,
        ReadBlocks, TransferFails, Deselect, SelectFails, Open, OpenFails, Compare, Unlink,
        Discipline, Fails, FailsWith, Return, world, locals
  <2>2. pc = "read" /\ sz = 0 /\ pc' = "open" /\ UNCHANGED <<boot, file>>
    BY <1>2, <2>1 DEF ReadEnd, world
  <2>3. Pos = Len(file) /\ Pos <= lba /\ Aligned /\ Held(lba)
    BY <1>0, <1>1, <1>2, <2>2 DEF Faultless, Flashing, Pos
  <2>4. Blocks * Chunk <= lba
    BY <2>3, LastBlock
  <2>5. Held(Blocks * Chunk)'
    BY <1>1, <2>2, <2>3, <2>4 DEF Held, Tile, Blocks
  <2> QED
    BY <2>2, <2>5 DEF Verifying
<1>3. CASE func = "verify"
  <2>1. Verifying /\ Len(file) >= MinSectors
    BY <1>0, <1>1, <1>3, Running, EcobootAssumption DEF Faultless
  <2>2. UNCHANGED <<boot, file>>
    BY <1>0, <1>3, Running
    DEF Program, Read, Transfer, ReadChunk, ReadShort, ReadFails, ReadEnd, Select, OutOfRange,
        WriteBlocks, ReadBlocks, TransferFails, Deselect, SelectFails, Open, OpenFails, Compare,
        Unlink, world
  <2>3. Held(Blocks * Chunk)'
    BY <2>1, <2>2 DEF Verifying, Held, Tile, Blocks
  <2>4. CASE Open
    <3>1. lba' = 0 /\ pc' = "select"
      BY <1>3, <2>4 DEF Open
    <3>2. Aligned' /\ lba' < Len(file') + Chunk /\ Tiled(lba - Chunk)'
      BY <1>1, <2>2, <3>1 DEF Aligned, Tiled
    <3> QED
      BY <2>3, <3>1, <3>2 DEF Verifying
  <2>5. CASE ReadChunk
    <3>1. /\ pc = "read" /\ sz > 0 /\ sz <= Len(file) /\ lba = Pos + Chunk /\ Aligned
          /\ selected = "user" /\ pc' = "compare"
      BY <1>3, <2>1, <2>5 DEF ReadChunk, AfterRead, Compared, Discipline, Verifying
    <3>2. Pos \in Int /\ lba - 2 * Chunk = Pos - Chunk
      BY <1>1, <3>1 DEF Pos
    <3>3. Tiled(Pos - Chunk)
      BY <2>1, <3>1, <3>2 DEF Verifying
    <3>4. Pos > 0 => Pos >= Chunk
      BY <1>1, <3>1, <3>2, AlignedGap
    <3>5. /\ Pos \in Nat /\ Pos < Len(file)
          /\ \A i \in 1..Chunk : buf'[i] = Tile(Pos + i)
          /\ UNCHANGED <<boot, file, lba, ferror, fault, func>>
      BY <2>1, <2>5, <3>1, <3>3, <3>4, ReadTiled
    <3>6. Aligned'
      BY <3>1, <3>5 DEF Aligned
    <3>9. lba' < Len(file') + Chunk
      BY <1>1, <3>1, <3>5
    <3>7. lba' - Chunk = Pos
      BY <1>1, <3>1, <3>5
    <3>8. Tiled(lba - Chunk)'
      BY <3>5, <3>7 DEF Tiled, Tile
    <3> QED
      BY <2>3, <3>1, <3>6, <3>8, <3>9 DEF Verifying
  <2>6. CASE Select
    BY <2>1, <2>3, <2>6 DEF Select, locals, Verifying, Aligned, Tiled, Tile
  <2>7. CASE ReadBlocks
    BY <2>1, <2>3, <2>7 DEF ReadBlocks, world, Verifying, Aligned, Tiled, Tile
  <2>8. CASE Deselect
    <3>1. /\ pc = "deselect" /\ pc' = "read" /\ lba' = lba + Chunk /\ UNCHANGED <<buf, file>>
      BY <1>3, <2>8 DEF Deselect
    <3>2. Aligned /\ Tiled(lba - Chunk)
      BY <2>1, <3>1 DEF Verifying
    <3>3. Aligned'
      BY <3>1, <3>2, AlignedNext
    <3>4. lba' - 2 * Chunk = lba - Chunk
      BY <1>1, <3>1
    <3>5. Tiled(lba - 2 * Chunk)'
      BY <3>1, <3>2, <3>4 DEF Tiled, Tile
    <3> QED
      BY <2>3, <3>1, <3>3, <3>5 DEF Verifying
  <2>9. CASE Compare
    <3>1. /\ pc = "compare" /\ pc' = "select" /\ UNCHANGED <<buf, file, lba>>
      BY <1>3, <2>9 DEF Compare, FailsWith, Return, world, locals
    <3> QED
      BY <2>1, <2>3, <3>1 DEF Verifying, Aligned, Tiled, Tile
  <2> QED
    BY <1>3, <2>4, <2>5, <2>6, <2>7, <2>8, <2>9
    DEF Program, Read, Transfer, ReadShort, ReadFails, ReadEnd, OutOfRange, WriteBlocks,
        TransferFails, SelectFails, OpenFails, Unlink, Fails, FailsWith, Return
<1> QED
  BY <1>0, <1>2, <1>3

\* A run in which no call fails.
LEMMA FaultlessStep ==
    ASSUME TypeOK, Discipline, Compared, Buffered, Faultless, [Next]_vars
    PROVE  Faultless'
<1> USE DEF TypeOK
<1>1. CASE Program
  <2>1. SUFFICES ASSUME ~fault', pc' # "done"
                 PROVE  Faultless'
    BY DEF Faultless
  <2>2. ~fault /\ ~ferror
    BY <1>1, <2>1, FaultStays, Running, FileFacts, EcobootAssumption DEF Faultless
  <2>3. ~ferror'
    BY <1>1, <2>1, <2>2
    DEF Program, Read, Transfer, ReadChunk, ReadShort, ReadFails, ReadEnd, Select, OutOfRange,
        WriteBlocks, ReadBlocks, TransferFails, Deselect, SelectFails, Open, OpenFails, Compare,
        Unlink, world, locals, Fails, FailsWith, Return
  <2>4. /\ UNCHANGED file
        /\ pc # "open" \/ Open
        /\ pc' = "open" => func' = "verify" /\ pc = "read"
    BY <1>1, <2>1, <2>2
    DEF Program, Read, Transfer, ReadChunk, AfterRead, ReadShort, ReadFails, ReadEnd, Select,
        OutOfRange, WriteBlocks, ReadBlocks, TransferFails, Deselect, SelectFails, Open,
        OpenFails, Compare, Unlink, world, locals, Fails, FailsWith, Return
  <2>5. Len(file) >= MinSectors
    <3>1. CASE Open
      BY <3>1 DEF Open
    <3>2. CASE pc # "open"
      BY <1>1, <2>2, <3>2, Running, FileFacts, EcobootAssumption DEF Faultless
    <3> QED
      BY <2>4, <3>1, <3>2
  <2>6. Len(file') \in Nat /\ ~(Len(file') < MinSectors)
    BY <2>4, <2>5, FileFacts, EcobootAssumption
  <2>7. func' = "verify" => Verifying'
    BY <1>1, <2>1, VerifyingStep
  <2>8. func' = "flash" => Flashing'
    <3>1. SUFFICES ASSUME func' = "flash"
                   PROVE  Flashing'
      OBVIOUS
    <3>2. CASE Open
      <4>1. /\ lba' = 0 /\ pc' = "read" /\ sz' = Len(file) /\ file' = file /\ Chunk \in Nat \ {0}
            /\ Len(file) \in Nat
        BY <3>1, <3>2, FileFacts, EcobootAssumption DEF Open, world
      <4>2. Aligned' /\ Held(lba)' /\ Tiled(lba - Chunk)'
        BY <4>1 DEF Aligned, Held, Tiled
      <4>3. Pos' = 0
        BY <4>1 DEF Pos
      <4> QED
        BY <4>1, <4>2, <4>3 DEF Flashing
    <3>3. CASE pc # "open"
      <4>1. func = "flash"
        BY <1>1, <3>1, <2>1
        DEF Program, Read, Transfer, ReadChunk, ReadShort, ReadFails, ReadEnd, Select,
            OutOfRange, WriteBlocks, ReadBlocks, TransferFails, Deselect, SelectFails, Open,
            OpenFails, Compare, Unlink, world, locals, Fails, FailsWith, Return
      <4> QED
        BY <1>1, <2>1, <3>1, <3>3, <4>1, FlashingStep
    <3> QED
      BY <2>4, <3>2, <3>3
  <2> QED
    BY <2>3, <2>6, <2>7, <2>8 DEF Faultless
<1>2. CASE UserWrite
  BY <1>2 DEF UserWrite, Faultless
<1>3. CASE Off
  BY <1>3 DEF Off, Faultless
<1>4. ASSUME NEW img \in Images, PowerOn(img)
      PROVE  Faultless'
  BY <1>4 DEF PowerOn, Faultless, Buffered, locals, Flashing
<1>5. CASE UNCHANGED vars
  BY <1>5 DEF vars, locals, Faultless, Flashing, Verifying, Held, Tile, Tiled, Aligned, Pos, Blocks
<1> QED
  BY <1>1, <1>2, <1>3, <1>4, <1>5 DEF Next

\* What the comparison finds while no call fails.
LEMMA ComparesEqual ==
    ASSUME TypeOK, Discipline, Compared, Faultless, pc = "compare", ~fault
    PROVE  buf = buf1
<1> USE DEF TypeOK
<1>1. func = "verify" /\ ~ferror /\ Verifying
  BY DEF Discipline, Faultless
<1>2. /\ Chunk \in Nat \ {0} /\ Len(file) \in Nat /\ lba \in Nat /\ Blocks * Chunk \in Nat
      /\ lba >= Chunk /\ BlockRead /\ Aligned /\ lba < Len(file) + Chunk
      /\ Tiled(lba - Chunk) /\ Held(Blocks * Chunk)
  BY <1>1, FileFacts, BlocksFacts, EcobootAssumption DEF Compared, Verifying
<1>3. lba <= Blocks * Chunk
  BY <1>2, LastBlock
<1>4. ASSUME NEW i \in 1..Chunk
      PROVE  buf[i] = buf1[i]
  <2>1. lba - Chunk + i \in 1..(Blocks * Chunk)
    BY <1>2, <1>3
  <2>2. boot[lba - Chunk + i] = Tile(lba - Chunk + i)
    BY <1>2, <2>1 DEF Held
  <2>3. buf[i] = Tile(lba - Chunk + i)
    BY <1>2 DEF Tiled
  <2> QED
    BY <1>2, <2>2, <2>3 DEF BlockRead
<1>5. buf = [i \in 1..Chunk |-> buf[i]] /\ buf1 = [i \in 1..Chunk |-> buf1[i]]
  OBVIOUS
<1>6. [i \in 1..Chunk |-> buf[i]] = [i \in 1..Chunk |-> buf1[i]]
  BY <1>4
<1> QED
  BY <1>5, <1>6

\* A refusal of an image is one of its size.
LEMMA RefusedStep ==
    ASSUME TypeOK, Discipline, Compared, Faultless, RefusedForSize, [Next]_vars
    PROVE  RefusedForSize'
<1> USE DEF TypeOK
<1>1. CASE Program
  <2>1. SUFFICES ASSUME ret' = "error", ~fault'
                 PROVE  RefusedForSize'
    BY DEF RefusedForSize
  <2>2. ~fault /\ ret = "none" /\ ~ferror /\ file' = file
    <3>1. ~fault /\ ~ferror
      BY <1>1, <2>1, FaultStays, Running, FileFacts, EcobootAssumption DEF Faultless
    <3>2. ret = "none"
      BY <1>1, Running DEF Discipline
    <3> QED
      BY <1>1, <3>1, <3>2, BootKept DEF WriteBlocks, TransferFails
  <2>3. OpenFails \/ OutOfRange \/ Compare
    BY <1>1, <2>1, <2>2
    DEF Program, Read, Transfer, ReadChunk, ReadShort, ReadFails, ReadEnd, Select, WriteBlocks,
        ReadBlocks, TransferFails, Deselect, SelectFails, Open, Unlink, Return, Fails, FailsWith
  <2>4. ~Compare
    <3>1. SUFFICES ASSUME Compare
                   PROVE  FALSE
      OBVIOUS
    <3>2. buf = buf1
      BY <2>2, <3>1, ComparesEqual DEF Compare
    <3> QED
      BY <2>1, <2>2, <3>1, <3>2 DEF Compare
  <2>5. CASE OpenFails
    <3>1. Len(file) < MinSectors
      <4>1. fault' = (fault \/ Len(file) >= MinSectors)
        BY <2>5 DEF OpenFails, FailsWith
      <4>2. ~(Len(file) >= MinSectors)
        BY <2>1, <4>1
      <4> QED
        BY <4>2, FileFacts, EcobootAssumption
    <3> QED
      BY <2>2, <3>1 DEF RefusedForSize
  <2>6. CASE OutOfRange
    <3>1. /\ Chunk \in Nat \ {0} /\ Len(file) \in Nat /\ lba \in Nat /\ BootSectors \in Nat
          /\ Blocks * Chunk \in Nat /\ (Blocks + 1) * Chunk = Blocks * Chunk + Chunk
          /\ lba + Chunk > BootSectors
      BY <2>6, FileFacts, BlocksFacts, EcobootAssumption DEF OutOfRange, InRange
    <3>2. Aligned /\ lba < Len(file) + Chunk
      BY <2>2, <2>6, <3>1 DEF OutOfRange, Discipline, Faultless, Flashing, Verifying
    <3>3. lba <= Blocks * Chunk
      BY <3>2, LastBlock
    <3>4. (Blocks + 1) * Chunk > BootSectors
      BY <3>1, <3>3
    <3> QED
      BY <2>2, <3>4 DEF RefusedForSize, Blocks
  <2> QED
    BY <2>3, <2>4, <2>5, <2>6
<1>2. CASE UserWrite
  BY <1>2 DEF UserWrite, RefusedForSize, Blocks
<1>3. CASE Off
  BY <1>3 DEF Off, RefusedForSize
<1>4. ASSUME NEW img \in Images, PowerOn(img)
      PROVE  RefusedForSize'
  BY <1>4 DEF PowerOn, RefusedForSize
<1>5. CASE UNCHANGED vars
  BY <1>5 DEF vars, RefusedForSize, Blocks
<1> QED
  BY <1>1, <1>2, <1>3, <1>4, <1>5 DEF Next

-----------------------------------------------------------------------------
LEMMA InitInv == Init => EInv
<1> SUFFICES ASSUME Init
             PROVE  EInv
  OBVIOUS
<1>1. TypeOK
  <2>1. Old \in Data /\ Junk \in Data /\ 0 \in 0..MaxRuns
    BY EcobootAssumption DEF Data
  <2>2. /\ boot \in [Sectors -> Data] /\ before \in [Sectors -> Data]
        /\ buf \in [1..Chunk -> Data] /\ buf1 \in [1..Chunk -> Data]
    BY <2>1 DEF Init, Empty
  <2> QED
    BY <2>1, <2>2 DEF Init, TypeOK
<1>2. /\ Discipline /\ Compared /\ Buffered /\ FileKept /\ OnlyTheImage
      /\ Faultless /\ RefusedForSize
  BY DEF Init, Discipline, Compared, Buffered, FileKept, OnlyTheImage, Faultless, RefusedForSize
<1> QED
  BY <1>1, <1>2 DEF EInv

LEMMA NextInv == EInv /\ [Next]_vars => EInv'
  BY TypeStep, DisciplineStep, ComparedStep, BufferedStep, ImageStep, KeptStep, FaultlessStep,
     RefusedStep
  DEF EInv

(***************************************************************************)
(* The invariant that ties the loops of flash_ecoboot and verify_ecoboot,  *)
(* the selected partition and the result to the boot partition.            *)
(***************************************************************************)
THEOREM EcobootInvariant == Spec => []EInv
  BY InitInv, NextInv, PTL DEF Spec

(***************************************************************************)
(* ecoboot.bin is removed only when the boot partition holds its contents, *)
(* whatever the card does and whenever the power goes.                     *)
(***************************************************************************)
THEOREM FileIsKept == Spec => []FileKept
<1>1. EInv => FileKept
  BY DEF EInv
<1> QED
  BY <1>1, EcobootInvariant, PTL

(***************************************************************************)
(* Until a call fails the boot partition gets nothing but the image.       *)
(***************************************************************************)
THEOREM WritesOnlyTheImage == Spec => []OnlyTheImage
<1>1. EInv => OnlyTheImage
  BY DEF EInv
<1> QED
  BY <1>1, EcobootInvariant, PTL

(***************************************************************************)
(* While no call fails the transfers and the comparison agree block by     *)
(* block, also about what they carry behind the end of the image: an image *)
(* is then refused only for its size.                                      *)
(***************************************************************************)
THEOREM RefusesOnlyForSize == Spec => []RefusedForSize
<1>1. EInv => RefusedForSize
  BY DEF EInv
<1> QED
  BY <1>1, EcobootInvariant, PTL

-----------------------------------------------------------------------------
\* The initial states keep the promise of BootLoader.
LEMMA InitPromise == Init => Promise!Init
<1> SUFFICES ASSUME Init
             PROVE  Promise!Init
  OBVIOUS
<1>1. 1 \in DOMAIN file /\ file[1] \in ImageData
  BY EcobootAssumption, FileFacts DEF Init, ImageData
<1>2. file[1] # Old
  BY <1>1, EcobootAssumption
<1>3. ~Flashed
  BY <1>1, <1>2 DEF Init, Flashed
<1> QED
  BY <1>3 DEF Init, Promise!Init, Outcome

\* So does every step.
LEMMA StepPromise ==
    ASSUME EInv, EInv', [Next]_vars
    PROVE  [Promise!Next]_(Promise!bootvars)
<1> USE DEF EInv
<1>0. Flashed \in BOOLEAN /\ Flashed' \in BOOLEAN /\ there \in BOOLEAN
  BY DEF Flashed, TypeOK
<1>1. CASE WriteBlocks
  <2>1. Outcome = "running" /\ Outcome' = "running" /\ UNCHANGED there
    BY <1>1 DEF WriteBlocks, Outcome, Discipline
  <2> QED
    BY <1>0, <2>1 DEF Promise!Next, Promise!Write
<1>2. CASE OpenFails \/ ReadFails \/ OutOfRange \/ TransferFails \/ SelectFails
  <2>1. Outcome = "running" /\ Outcome' = "failed" /\ UNCHANGED there
    BY <1>2
    DEF OpenFails, ReadFails, OutOfRange, TransferFails, SelectFails, Fails, FailsWith,
        Return, Outcome, Discipline, world
  <2> QED
    BY <1>0, <2>1 DEF Promise!Next, Promise!Fail
<1>3. CASE Unlink
  <2>1. Outcome = "running" /\ Flashed /\ Outcome' = "ok" /\ there' \in {there, FALSE}
    BY <1>3 DEF Unlink, Return, Outcome, Discipline
  <2>2. Flashed' = Flashed
    BY <1>0, <1>3, FlashedSame DEF Unlink
  <2> QED
    BY <2>1, <2>2 DEF Promise!Next, Promise!Succeed
<1>4. CASE Deselect \/ Compare
  <2>1. Flashed' = Flashed /\ UNCHANGED there
    BY <1>0, <1>4, FlashedSame DEF Deselect, Compare, world
  <2>2. Outcome = "running" /\ Outcome' \in {"running", "failed"}
    BY <1>4 DEF Deselect, Compare, Fails, FailsWith, Return, Outcome, Discipline
  <2> QED
    BY <1>0, <2>1, <2>2 DEF Promise!Next, Promise!Fail, Promise!bootvars
<1>5. CASE Open \/ ReadChunk \/ (\E n \in 1..(Chunk - 1) : ReadShort(n)) \/ ReadEnd
           \/ Select \/ ReadBlocks
  <2>1. UNCHANGED <<boot, file, there>>
    BY <1>5 DEF Open, ReadChunk, ReadShort, ReadEnd, Select, ReadBlocks, world
  <2>2. Flashed' = Flashed
    BY <1>0, <2>1, FlashedSame
  <2>3. Outcome = "running" /\ Outcome' = "running"
    BY <1>5 DEF Open, ReadChunk, ReadShort, ReadEnd, Select, ReadBlocks, AfterRead, Outcome,
                Discipline
  <2> QED
    BY <2>1, <2>2, <2>3 DEF Promise!bootvars
<1>6. CASE UserWrite
  <2>1. Outcome = "failed" /\ Outcome' = "failed" /\ UNCHANGED <<there, file>>
    BY <1>6 DEF UserWrite, Outcome, Discipline, TypeOK
  <2>2. Flashed' => Flashed
    <3>1. SUFFICES ASSUME Flashed', NEW s \in DOMAIN file
                   PROVE  s \in Sectors /\ boot[s] = file[s]
      BY DEF Flashed
    <3>2. s \in Sectors /\ boot'[s] = file[s]
      BY <2>1, <3>1 DEF Flashed
    <3>3. PICK r \in Sectors : boot' = [boot EXCEPT ![r] = Foreign]
      BY <1>6 DEF UserWrite
    <3>4. file[s] \in ImageData
      BY FileFacts DEF TypeOK, ImageData
    <3>5. s # r
      BY <3>2, <3>3, <3>4, EcobootAssumption DEF TypeOK
    <3> QED
      BY <3>2, <3>3, <3>5 DEF TypeOK
  <2> QED
    BY <1>0, <2>1, <2>2 DEF Promise!Next, Promise!Spoil, Promise!bootvars
<1>7. CASE Off
  <2>1. Outcome # "off" /\ Outcome' = "off" /\ UNCHANGED <<there, file>>
    BY <1>7 DEF Off, Outcome
  <2>2. CASE pc = "transfer"
    <3>1. Outcome = "running"
      BY <2>2 DEF Outcome, Discipline
    <3> QED
      BY <1>0, <2>1, <3>1 DEF Promise!Next, Promise!PowerOff
  <2>3. CASE pc # "transfer"
    <3>1. Flashed' = Flashed
      BY <1>0, <1>7, <2>3, FlashedSame DEF Off
    <3> QED
      BY <1>0, <2>1, <3>1 DEF Promise!Next, Promise!PowerOff
  <2> QED
    BY <2>2, <2>3
<1>8. ASSUME NEW img \in Images, PowerOn(img)
      PROVE  Promise!Next
  <2>1. Outcome = "off" /\ Outcome' = "running" /\ there' = TRUE
    BY <1>8 DEF PowerOn, Outcome
  <2> QED
    BY <1>0, <2>1 DEF Promise!Next, Promise!Start
<1>9. CASE UNCHANGED vars
  <2>1. Flashed' = Flashed
    BY <1>0, <1>9, FlashedSame DEF vars
  <2> QED
    BY <1>9, <2>1 DEF vars, Outcome, Promise!bootvars
<1> QED
  BY <1>1, <1>2, <1>3, <1>4, <1>5, <1>6, <1>7, <1>8, <1>9 DEF Next, Program, Read, Transfer

(***************************************************************************)
(* ecoboot_update implements the steps that Updater takes for it: after a  *)
(* success the boot partition holds the boot loader of the package.        *)
(***************************************************************************)
THEOREM KeepsPromise == Spec => BootSpec
<1>1. Spec => []EInv
  BY EcobootInvariant
<1>2. EInv /\ EInv' /\ [Next]_vars => [Promise!Next]_(Promise!bootvars)
  BY StepPromise
<1> QED
  BY <1>1, <1>2, InitPromise, PTL DEF Spec, BootSpec, Promise!Spec
=============================================================================
