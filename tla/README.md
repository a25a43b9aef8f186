# Verification of the PureUpdater

The updater is the program a Mudita phone boots into when MuditaOS asks for an
update, a recovery, a factory reset or the burning of secure boot keys. It runs
alone on the processor, in one thread, does one operation chosen by a register,
and resets the system. Everything that can go wrong with it does so *across*
runs: the power goes, the card is full, a file cannot be renamed, and the next
run starts from what the last one left.

This directory holds TLA+ models of it, the TLC runs that check them, and
proofs of their main properties that hold for every value of the constants.

Run, in this directory: `tlc -config Updater.cfg MCUpdater.tla` (one per run in
`PROJECT.json`), `tlapm Updater_proofs.tla` (one per `*_proofs.tla`).

## Inventory

| part | source | state it keeps | operations |
|---|---|---|---|
| main | `src/updater/updater.c`, `src/platform/syscalls/exit.c` | boot reason (SNVS register), `/user/updater_status.json` | mount, delete status, dispatch on the reason, save status, unmount, exit |
| update pipeline | `src/updater/procedure/package_update/update.c`, `priv_update.c` | the files of `/os/current` and `/user`, `backup.tar` | backup, unpack, checksum, version, fuses, move, boot loader |
| staging area | `.../package_update/priv_tmp.c` | `/os/tmp`, `/user/tmp` | create (after removing old files), move into place |
| directory walk | `src/updater/procedure/backup/dir_walker.c` | `struct dir_handler_s`: error, user break, shared recursion budget | recursive walk with callbacks |
| archive | `src/updater/common/common/tar.c`, `microtar` | `backup.tar`, `update.tar` | append, unpack until null records |
| checksum / version | `.../checksum`, `.../version`, `src/updater/common/common/version_json*.c` | two parsed `version.json` | compare every file of `verify_files` |
| boot loader update | `.../package_update/update_ecoboot.c` | eMMC boot partition 1 | flash, read back, remove file |
| block devices | `src/hal/src/blkdev/disks.c`, `partscan.c` | the selected hardware partition, the partition table | scan, read, write, erase, info |
| fuses | `src/updater/procedure/security/pgmkeys.c`, `src/hal/src/security.c` | OTP words, their shadow registers, controller flags | check, burn, lock |
| factory reset | `src/updater/procedure/factory_reset` | `/user` | recursive unlink by extension |
| file systems | `src/hal/src/tinyvfs` | mounted volumes | mount all, unmount all |
| C library calls | `src/platform/syscalls` | table of descriptors, of directories, `errno` | open, close, read, write, readdir |
| tick, delay | `src/hal/src/delay.c` | a 32-bit counter | interrupt, wait |
| eMMC host port | `src/platform/drivers/sdmmc/src/port` | a count of completions, two flags | transfer, wait, notify |
| signature, hash | `src/hal/src/hwcrypt` | none | sha256, RSA verify |
| display, keyboard, logging | `src/hal/src/display`, `keyboard`, ... | none that decides anything | output |

**How they interact.** Calls go one way: `main` → pipeline → walk, archive,
checks, fuses, boot loader → C library calls → file systems → block devices.
What couples the parts is shared *persistent* state: the staging area left by an
earlier run, the backup nobody truncates, the status file, the fuses, the boot
partition. And some shared state in RAM: `errno`, which every call may set, the
error of a `dir_handler_s`, which all nested calls share, the eMMC's one
*selected partition*, and the stack, whose leftovers are compared when a record
of `version.json` is absent. What runs beside the program is
the fuse controller, which works after the write that started it, the timer
interrupt that counts milliseconds, and the interrupt of the eMMC host.

**What is hard.** A power cut between (or inside) any two writes; errors that end
one loop and not the one around it; errors reported through the wrong channel;
a listing that an I/O error cuts short without anybody noticing, a `stat()` whose error is
taken for "there is no such file";
an operation retried after it was half done; limits (the recursion budget, path
buffers, 32-sector transfers).

**What makes each part correct.**

* pipeline: what the checks looked at is installed as they saw it, an update is never older
  than what it was compared with, a backup exists before anything is unlinked, the status
  file is true of what the run saw, no run hangs;
* staging area: nothing of an earlier run is installed with this run's archive;
* walk: a success means every entry was handled, and errors are never lost;
* checks: an accepted file matches its record, versions compare as an order, a
  recovery is not refused for the broken release it replaces;
* fuses: whatever is interrupted, the words burnt are the beginning of one key,
  and the configuration is closed over a whole key only;
* delays: a wait is neither cut short nor lost;
* archives: a backup that succeeds has every file it names in it, whole; an unpack that
  succeeds has restored what the archive says;
* volumes: each mount point is on its own partition, and the list of mount points never leads
  to what was freed;
* transfers: nothing of one attempt completes the next, and every one returns;
* boot loader and block devices: what is reported as flashed was read back, and
  nothing but the boot loader is ever written to the boot partition.

## Modules

### Updater — the runs of the updater over the files

`Updater.tla` models `main()` and the pipeline over both partitions. A file's
content is a release number, `Torn` or `Missing`; version.json of release *v*
names the checksums of the files of release *v*. Each action is the smallest
step that survives a power cut: one appended backup entry, one removed staged
file, one unpacked file, the unlink of `mv_callback` and its rename (two
actions), the erasing and the completion of the boot loader, and so on. `Crash`
may fire between any two. `PowerOn(r, p)` is MuditaOS: it leaves a request and a
package, and the model goes on for `MaxBoots` starts.

| variable | code |
|---|---|
| `cur` | files in `/os/current` and `/user` |
| `tmp` | files in `/os/tmp` and `/user/tmp` |
| `pkg`, `bak`, `bakEnd` | `/user/update.tar`; what can be unpacked of `/backup/backup.tar`, and what ends it |
| `status` | `/user/updater_status.json` |
| `flash`, `otp`, `lpgpr` | boot partition, SRK fuses, boot reason register |
| `pc`, `reason`, `idx`, `moving`, `walk`, `result`, `vfs` | where `main` and the pipeline are and their locals |
| `missed` | what this run failed to see: pairs of a file and the call (`Sights`) that did not see it |
| `exitc`, `boots` | return code, number of starts |
| `src` | history: the archive last unpacked, each entry at the place `unpack` chose for it |
| `age`, `unseen` | history: whether the status file outlived its removal in this run ("stale"); what the run that wrote it had missed |

Two system calls hide an error, and nobody looks at `errno`. `readdir` returns the same for an I/O error as
for the end of a directory: the walks of the backup (`BackupMiss`), the move (`MoveMiss`) and the factory
reset (`FactoryMiss`) leave files out, and what was missed in the staging area is deleted with its catalog
(`DropCatalog`) in an update that succeeds, which is what `updater_move` shows. And every question
whether a file exists is a `stat()` of which only 0 means yes: an error ends the checksum loop (`ChecksumMiss`) or
the version loop (`VersionMiss`), both satisfied, makes a package one without a boot loader (`EcoMiss`), a
key file one that is not there (`FuseSkip`). `RecordMiss` is the
installed version.json that cannot be read. At most `MaxMissed` of them happen in a run.

`Reached(loop, staged, missed)` is the set of files that a loop came to: those of `verify_files` before the first that is
absent or was not seen. No check is made of the others, and the code does not know it. So
the properties say what holds of the files that were reached, or seen:

* `NoTornBootFile` and `TruthfulStatus` of the files the checksum loop reached, `NoDowngrade` of updates
  where the version loop reached at least one file and the installed record could be read: a package without the
  first of `verify_files` (`updater.bin`), or whose `stat()` fails, is installed though it be older;
* `TruthfulStatus` and `NothingSkipped` except a boot loader, and a staged file, that the run did not see: there the
  code does report a success that is not one;
* `BurnOnlyVerified` is about the loops' own verdicts, `ChecksumOk` and `VersionOk`, on what they reached; it does not
  say that nothing fails after the burn;
* `BackupBeforeReplace` except files of `/user` that the listing left out, and backups already cut short.

`StagedFromThisArchive` holds whatever is missed.

**Where an entry goes.** `unpack` sends an entry to `/os/tmp` when its name ends in that of a boot file, or when
`string_match_partial` says so, which is true of every name of four letters or more that sorts before "user". A file of
`/user` that a backup took, `updater.log` for one, is therefore restored under `/os/current`. The constant `EntryAt` gives
for every place the entry that `unpack` puts there, or `None`; `Routed(archive)` is the archive by places. In
`updater_live` the place `stray` (in `/os`) receives the entry of `log` (in `/user`), and `log` receives none.

The checks (`Verify`), the walk (`DirWalker`), the fuses (`Fuses`) and the transfer
to the boot partition have modules of their own; `Updater` takes what they promise:
`ChecksumOk`/`VersionOk`, the rule of `Walk`, `otp` going blank → partial →
locked, `flash` going `Torn` → the file.

`UpdaterInv.tla` holds the inductive invariant, `MCUpdater.tla` the instances.

### Walk and DirWalker — the directory walk

`DirWalker.tla` follows `recursive_dir_walker` call by call, with an explicit
stack of frames, the budget all calls share, the one error field, the break the
callback can ask for, and the three callers (`recursive_mv`, `recursive_unlink`,
`get_files_flat`). `Walk.tla` is the abstract promise, also the one `Updater`'s
`MoveUnlink`/`MoveError`/`FactoryError` use: after an error in a directory
only entries of the directories *above* it are still handled, and the outcome is
"ok" only if nothing was left but what a failed `readdir` hid (`Miss` in Walk, `ReadFails` in
DirWalker). `WalkSpec` says that DirWalker implements it.

### Fuses

`Fuses.tla` is `program_keys`, `sec_burn_srk_keys`, `burn_efuse_word` and
`sec_lock_bootloader` beside the controller, which burns some or all bits of what
it was given when the power goes or it fails. The shadow registers are loaded at power on,
not when a fuse is burnt.

### Verify

`Verify.tla` is `json_get_verify_files` with the loops of `checksum_verify_all`
and `version_check_all`. The inputs are all combinations of staged files,
records of the staged and of the installed version.json: whole, without a field,
absent, an unreadable file. A field nobody initialised is any string that an
earlier record left on the stack (within one call of `json_get_verify_files`) or
`Garbage`, which matches nothing and may fault.

`StatFails` is a `stat()` that fails for the file a loop is at, which the loop takes for its end (`unseen`).
Every way out of the loops but a fault goes through `Cleanup`, which is `verify_file_handle_cleanup`: it frees the three
strings of the `boot.bin` record (`BootFile`) on both sides. They are its own only where a version.json was read that has
such a record (`OwnBoot`); otherwise they are literals of `json_get_fallback`, the other side's strings, or what the
stack held, and the free either faults or shows nothing.

### Ecoboot and BootLoader

`Ecoboot.tla` is `ecoboot_update` with the transfers of `disks.c` under it: the loops
over the file, the buffers with what earlier reads left in them, the selection
of the eMMC's boot partition before a transfer and of the user area after it, the range check.
Any call may fail, the card may report a write that it did not do, and the
power may go in the middle of a transfer. After a failure the boot partition may stay
selected, and what the updater writes next, to its log first, ends up there (`UserWrite`, in at most `MaxForeign` sectors at a time).
`BootLoader.tla` is what `update_firmware` relies on, that is, the steps of
`flash` in `Updater`: after a success the boot partition holds the boot loader of
the package and the file is gone or left, after a failure nothing is known of the partition.

A remainder shorter than a sector is taken as a sector: what is written behind it is
old buffer contents in either case. A failed update of the boot loader is forgiven by
`update_firmware` when `errno` is ENOENT; what sets `errno` last is the log line written after
the failure, which opens its file for appending and creates it if need be, and whose
buffer allocation calls the `_fstat` stub that fails with ENOSYS. It is taken not to leave ENOENT.

### Delay and Transfer

`Delay.tla` is `msleep` with the interrupt it waits for, step by step: the comparison, the `wfi`
of a release build, the interrupt before, between or after them. The counter is a word of
`Max + 1` values.

`Transfer.tla` EXTENDS it with the eMMC driver, which waits for the same counter: `MMC_Transfer` with its
retries, `SDMMCHOST_TransferFunction`, `SDMMCEVENT_Wait` read by read (the time, `event_sync`,
the decrement that is a read and a write), `SDMMCHOST_ErrorRecovery`, and the interrupt of the host, whose two
lines (`cmd`, `dat`) are in flight until the card has answered or the line is reset. The card may answer,
answer with an error, answer as the wait ends, or never. The program is in a delay or in a transfer
(`Sleep`, `Move`); the timer ticks in both (`TTick`). `own` is a history variable: by which line
and how an attempt was completed.

### Partscan, Volumes and Descriptors — the storage

Three modules, each EXTENDing the one before, for the calls that `main` makes before and after
everything else.

* `Partscan.tla` is `blk_priv_scan_partitions` and `parse_extended`: primary records, then the chains of extended
  ones, record by record, with the sizes that wrap in a word, the count of tries that every partition found sets
  again, and `overrun` for the write past the table of partitions that this allows. A disk is a
  constant record: signature, primary records, and the extended records by sector.
* `Volumes.tla` is `vfs_mount_init` and `vfs_unmount_deinit`: registration of the file systems, detection of the
  types, one mount or unmount at a time. `list` is the list that paths are looked up in and `num` says whether
  the table it points into is there.
* `Descriptors.tla` adds the table of open files of `_open` and `_close`, and the lookups: a lookup in a list that
  leads into the freed table is `fault`, whatever comes after it.

| variable | code |
|---|---|
| `disk`, `scan`, `nth`, `table` | what is on the card, where the scan is, `struct partitions` |
| `area`, `cur`, `size`, `tries`, `rec`, `next`, `buffered` | the arguments and locals of `parse_extended` |
| `step`, `n`, `num`, `fs`, `list`, `types` | where an init or deinit is, `ctx.num_mps`, `mp->fs`, `ctx.fopsl`, `ctx.fste` |
| `mounted` | volumes that their file system holds open (outside `src/hal`) |
| `handles`, `fails` | `file_handles`; opens that failed (history) |

### Archive

`Archive.tla` is the backup (`backup_boot_partition`, `backup_user_data`, `tar_file`) and the unpacking
(`unpack`, `un_tar_file`) over `backup.tar` as a sequence of blocks: headers, data, null records and, where an
append was cut off, a piece of a block. A chunk is what fits the buffer of a `tar_ctx`. The archive may
have been left by another program, with its null record; what backups append comes after that and is never
reached. `Updater` takes from it that a backup entry is appended whole or torn, and that an archive of the updater
ends without a null record (`bakEnd` = "eof"). One thing it does not take: behind a torn record the reading is
out of step and may take file data for a null record, in which case the recovery succeeds with what was before it
(`Restored` allows that only when a backup was torn).

## What the runs check

| run | instance | what it shows |
|---|---|---|
| `updater` | 5 files, an upgrade and an older release with a new user file, 2 starts, one fault nobody sees in a run | the safety and action properties over all interleavings of failures, crashes and requests; the inductive invariant |
| `updater_live` | 8 files, some in sub-directories, one that `unpack` puts elsewhere, key files good, bad and absent, 1 start | a success means nothing that was seen was skipped, fuses are burnt only for packages that the loops passed, every run that keeps its power ends |
| `updater_move` | violated | `priv_tmp.h` says that all that was staged is moved; what a failed `readdir` hid is deleted |
| `dir_walker` | 4 directories three deep in two orders, budgets 0..5, all callers | refinement of `Walk`, budget, rmdir, errors never lost, termination, the inductive invariant |
| `dir_walker_exit` | violated | the header's "exits on first error" is not what the code does |
| `fuses` | 3 words of 2 bits, 2 keys, 3 starts | one key, closed over a key, a burn cut short stays open, termination |
| `ecoboot` | 6 sectors, transfers of 2, images of 1 to 7 sectors, 2 updates | the file is removed only after it was verified, nothing but the image is written, images are refused only for their size, refinement of `BootLoader`, termination, the inductive invariant |
| `verify` | 2 files, 3 releases, every mixture of records, `stat()` failing in either loop | accepted files that the loops came to match, a recovery is not refused (and faults only for strings the cleanup does not own), the inductive invariant |
| `verify_invalid` | violated | an invalid record does not always fail the procedure, as the header demands |
| `transfer` | a counter of 3 bits, a timeout of 3 ticks, no retry or one, every delay | nothing of one attempt completes the next, a completion in time is seen, every transfer returns, delays that end before the wrap are on time and return, the inductive invariants |
| `storage` | 14 disks of 16 sectors, `main`'s three mount points, 2 inits, 3 descriptors | mount points are on their own partitions, the list, the volumes and the table of files agree, what a failed init leaves is never mended, every call ends unless the scan overruns its table |
| `archive` | 3 files, contents of 1 to 3 blocks, a buffer of 2, an archive of another program or none, 3 runs | a backup that succeeds is whole, an unpack that succeeds restored what the archive says, the inductive invariant |

**Bounds.** Two starts are the least in which a run meets what another left
(status, staging area, backup, half-moved files); three are used where a burn is
retried with a third file. Two versions give an upgrade, an equal version and a
downgrade. Two verified files show both orders around the loop's early end, and one unseen file in a run shows what
each call that hides an error leads to. Five directories
of budget around a tree of four directories show both sides of the limit. The proofs below do
not depend on any of these bounds. A counter of eight values wraps in a delay and in the wait of a transfer,
and one retry is what it takes to mix up two attempts. The disks of `storage` are one per case of the scan:
tables that are whole, short, shifted by a record that is left out, without a signature; chains that end, link past the
disk, come back to their start with and without a partition, and sizes that wrap. Contents of one to three
blocks with a buffer of two are less than a chunk, a chunk, and a chunk and a rest; three runs are two backups into one
archive and the unpacking of it.

**Fairness.** The updater is one thread without blocking calls, so weak fairness of
its steps is what the processor gives, as long as the power stays. It is not
assumed of a step that waits for the fuse controller in `Updater` (`burn_efuse_word`
waits for good after an error); in `Fuses` the controller itself ends what it
began, by success or error. `Delay` assumes that the timer
ticks and that the processor executes, at least a step between two ticks. `Transfer` assumes the same, with at
least a turn of the loop between two ticks, and nothing of the card: a transfer ends because its wait times
out. `Descriptors` assumes that an init or a deinit, once called, runs on; nothing is assumed of the calls.
`Archive` states safety only.
No fairness is assumed of power cuts or starts.

**Deadlock** checking is off where the program really stops (`halted`, `done`,
the bound on starts).

## What is proved

Proofs are in the eight modules `*_proofs.tla`; they assume only what the modules' named `ASSUME`s say of the
constants, all of which are about types and bounds. Every safety invariant and every action property that a passing run
checks is the subject of a theorem. The few inductions over data (the place of a record in the archive) go through the least
element of a set of numbers, which the library's `WFMin` gives without an operator for a parameter.

* **Updater.** `IInv` (UpdaterInv) is inductive. The properties are not inductive by
  themselves: that the status file is right needs to know, at every step from the
  checksum loop on, where each file is (`Verified`, `Moved`), which needs to know
  that the staged files are those of the archive (`Unpacked`), which is true only as the
  staging area was emptied first (`StagedFromThisArchive`). From it follow type correctness and
  `StagedFromThisArchive`, `TruthfulStatus`, `NothingSkipped`, `NoTornBootFile`, `NoDowngrade`, `BackupBeforeReplace`,
  `BurnOnlyVerified`, each with the exceptions named above and for any number of unseen files. What the loops reached
  does not change once they have passed (`ReachedByMove`), so that it stays true of what is moved.
* **Fuses.** `FInv` relates the loop's counter to the controller's flags (`Burning`): the
  words before the one in the controller's hands are complete, those after it blank. This is what
  makes `OneKey` and `ClosedOverKey` hold for any number of words. A burn that was cut short leaves a word that is
  neither blank nor complete, which no later run mends (`Stuck`): `StaysOpen`.
* **Ecoboot.** `EInv`: which partition is selected at every step (`Discipline`), what `verify_ecoboot`
  has passed is the same in the boot partition (`Compared`), and what `flash_ecoboot` has in its
  buffer is the image (`Buffered`). From `Compared` alone, without trusting the flash loop, it follows that
  the file is removed only after the boot partition held it, and that every step is one of
  `BootLoader` (`KeepsPromise`). As long as nothing failed or lied every step succeeds (`Faultless`), which leaves the
  size as the only reason for a refusal (`RefusedForSize`).
* **Verify.** `VInv` says what each loop has found of the files it passed. It gives
  `AcceptedIsChecked` and `Recoverable` for any list of files, whatever `stat()` fails (`StatFailsInv`) and whatever the
  cleanup frees (`CleanupInv`); `NewerIsOrder` shows that
  `version_is_lhs_newer` is the order of the numbers that versions stand for.
* **DirWalker.** `WInv`: the frames of the recursion are the directories above the innermost one, each at the entry that the
  next call was made for (`Chain`); the walk comes to nothing twice and not to what a cut listing hides (`Past`); every path
  is handled, ahead, or left out for an error or a cut listing (`Cover`, `Handled`); every directory that was come
  to has cost one of the budget (`Counted`). It holds for any tree, order and budget, and gives `BudgetIsForTheTree`,
  `ErrorStays` and the refinement: every step is one of `Walk` or a stutter (`WalkSpec`).
* **Delay** (in `Transfer_proofs`). `DInv` counts the ticks of a call against the counter: the loop stops the processor only while a
  tick is still to come, and a tick that comes before the `wfi` is the one too many. It gives `InTime` for a
  counter of any width.
* **Transfer.** `HostInv`: between two attempts no line is in flight and no completion is counted (`NothingLeft`), an
  attempt is completed at most as often as `event_sync` has room for (`Flight`), and what the driver has taken is the
  attempt's own (`Taken`). `OwnCompletion` and `NotMissed` follow for any width of the counter, any timeout of two ticks or
  more and any number of retries. Every step of a transfer is a step of Delay or a stutter, so that `InTime` carries over.
* **Storage.** `StInv`, for any disk, any fstab and any size of the table of files: the scan keeps its table within
  bounds until it overruns (`PInv`); the list of mount points, `mp->fs` and the mounted volumes are the same interval at every
  step (`Known`), or the list is stale (`Lost`); `SlotInv` counts the slots that failed opens have taken. `RightVolume`
  and `OnceBroken` follow.
* **Archive.** `AInv`: at every step of a backup what it has appended is whole records and nothing between them, with a
  record for every installed file that the lists have passed (`BackupInv`); the records of another program and the null
  record behind them stay where they are (`Laid`). An unpack is always at a record of that program or at its end, has
  restored what the records before say, and has put into the file of this one what it has read of it (`Through`).
  `Restored` follows, for any contents and any size of the buffer. An archive that the updater alone wrote is whole records to
  its end, so that its unpack never comes to a null record (`Clean`).

**Only model-checked:** the liveness properties (`RunEnds`, `WalkEnds`, `BurnEnds`, `LoopsEnd`, `Returns`,
`TransferEnds`, `Settles`): proofs about fairness are outside the prover.

## What the code and its comments disagree about

Three runs show such a disagreement (`updater_move`, `dir_walker_exit`, `verify_invalid`). Others were met while
modelling and have no run:

* the comment above the last line of `main` (`updater.c:174`) says that zero halts the system; `_exit` resets it for
  zero (`exit.c:52-69`), which is what `main` returns after every normal run. `Updater` has the reset;
* `msleep` over the wrap of the counter, every 49 days, ends early: its second loop starts while the counter
  still has its last value (`delay.c:39-59`). `InTime` is about the other delays;
* `tar.h` says that `un_tar_file` overwrites a file that exists; it opens without `O_TRUNC` (`tar.c:155`), so a copy that is
  shorter than the one before leaves the end of that. `Restored` says of which copies it is true;
* "There is no boot loader in the package" is what any error of `stat()` says (`update_ecoboot.c:227-233`,
  `update.c:160-177`), and the end of the list is what it says to the loops (`checksum.c:28-31`, `version.c:22-25`);
* files of `/user` come back under `/os` (`match.c:16-25`, `priv_update.c:54-57`), where `unittest/test_update.cpp:29-30`
  looks for an entry below `assets/` in the directory of the user;
* `version_json.h:18` promises fallback values when there is no installed version.json; `verify_file_handle_cleanup` frees
  them, and they are literals (`version_json.c:45-50`, `update.c:23-38`). `Recoverable` names the cases;
* `disk_initialize` and `blk_get_partition` let a partition number one past the table through (`disks.c:124`).

## What the properties except

Some hazards are in the code as it is: no property that holds can exclude them, and the properties say where they stop.

* A status file whose removal failed outlives a run that is cut short (`updater.c:57`): `age` "stale".
* What a run did not see (above): `missed`, `unseen`.
* Keys are burnt before the files are moved, and a move that fails does not give them back (`update.c:150`).
* A cleanup that frees what it does not own (`Verify`): `Recoverable` allows the fault, in those cases only.
* A record of the partition table that is left out shifts the partitions after it: `RightVolume` is for tables without.
* A scan that overruns its table: `Settles` and `StInv` stop there, with `overrun`.
* A failed init leaves a list into freed memory, and a failed open takes its slot for good: `StInv` describes both,
  `OnceBroken` says that nothing mends the first.
* An interrupt for the data that overwrites the failure of the response: `own` is "spoilt", which `OwnCompletion` allows.

## Not modelled

* `errno` after a failed update of the boot loader, as described under Ecoboot.
* The heap after a free that did not fault.

* Drivers, the start-up code and third-party libraries (FatFs, lwext4, littlefs,
  microtar, mbedTLS): what they promise is an assumption. In particular each unlink and rename is
  taken to be atomic and durable at once.
* Nine lines in ten of the repository: the pictures of two products' screens (two fifths of it) and what `src/platform` has from
  the chip's vendor (half of it). `src/updater` and `src/hal/src` have about ten thousand lines of C between them,
  and the definitions here stand for the control of the updater and of the part of its HAL that keeps state.
* MD5 is injective; `sha256` and the signature are left out, since no decision depends on them.
* Display, keyboard, console and logging, for the same reason.
* The composition of `Transfer` with `Ecoboot` and `Archive`, which take a transfer, or a file system call, as one step that
  succeeds, fails or, in Ecoboot, lies; of `Descriptors` with what the open files hold.
* In `Transfer`: the set-up of the host and of the card, and the tuning of the bus in `MMC_Transfer`, which is only for
  timings that the updater does not choose (`src/hal/src/emmc.c:29`); a reset of a line is taken to complete.
* In `Volumes`: memory that cannot be allocated; a cache of ext4 that fails to switch back at the
  unmount, which the code ignores (`vfs_ext4.c:113-117`); a second scan with a file still open, since `main` has closed its
  files; a first extended record at the last sector number, 2^32 - 1, which `sector_in_buf` cannot tell from none.
* In `Descriptors`: the streams of directories, which have no table.
* In `Archive`: records of catalogs, which have no data; what an unpack reads behind a torn record other than a
  false end: it is taken to fail.

## Plan

1. An abstract installation (old, mixed or new release, and what the status says of it) that
   Updater implements.
2. `Archive` as the archive of `Updater`: the false end of a torn archive, and the entries as records.
3. `Transfer` under the transfers of `Ecoboot`, so that a card that answers late is one that lies.
