---------------------------- MODULE Descriptors ----------------------------
(***************************************************************************)
(* The table of open files of the system calls over the mounted volumes.   *)
(* main and debug_log open, use and close; a call that opens walks the     *)
(* list of mount points.  An open that fails frees its file and leaves the *)
(* pointer in the table.  Reads, writes and seeks do not change the table. *)
(***************************************************************************)
EXTENDS Volumes, FiniteSets

CONSTANT MaxOpenFiles  \* MAX_OPEN_FILES

ASSUME DescriptorsAssumption == MaxOpenFiles \in Nat

Slots == 1..MaxOpenFiles

VARIABLES
    handles,  \* file_handles: Null, Freed or the mount point of an open file
    fails     \* opens that failed

fdvars == <<handles, fails>>
vars == <<scanvars, volvars, fdvars>>

Null == 0
Freed == -1

DInit == handles = [s \in Slots |-> Null] /\ fails = 0

Free == {s \in Slots : handles[s] = Null}
Open == {s \in Slots : handles[s] \in Mounts}

Lowest(s) == s \in Free /\ \A t \in Free : s <= t

\* Every file is under one of the mount points.
OpenFile ==
    /\ step = "up"
    /\ \E s \in Slots, k \in Mounts :
         /\ Lowest(s) /\ \E i \in DOMAIN list : list[i] = k
         /\ handles' = [handles EXCEPT ![s] = k]
    /\ UNCHANGED fails

\* A file that is not there or, before the log is on its volume, every file; a
\* line of the log is written between the failure of an init and the deinit.
OpenFail ==
    /\ step \in {"up", "failed"}
    /\ \E s \in Slots : Lowest(s) /\ handles' = [handles EXCEPT ![s] = Freed]
    /\ fails' = fails + 1

\* Undefined: the list of an init that failed leads into freed memory.
StaleLookup ==
    /\ step = "failed" /\ Stale /\ Free # {}
    /\ step' = "fault"

\* Mutant: the pointer of a closed file stays in the table.
MutClose ==
    /\ \E s \in Open : handles' = [handles EXCEPT ![s] = Freed]
    /\ UNCHANGED fails

\* Whatever the close of the file returns.
Close ==
    /\ \E s \in Open : handles' = [handles EXCEPT ![s] = Null]
    /\ UNCHANGED fails

\* main, or the teardown of a test, has closed its files.
Deinit == DeinitStart /\ Open = {}

Init == PInit /\ VInit /\ DInit

Next ==
    \/ (InitStart \/ Deinit \/ VStep) /\ UNCHANGED fdvars
    \/ (OpenFile \/ OpenFail \/ Close) /\ UNCHANGED scanvars /\ UNCHANGED volvars
    \/ StaleLookup /\ UNCHANGED scanvars /\ UNCHANGED fdvars
       /\ UNCHANGED <<n, num, fs, list, mounted, types, inits>>

\* An init or a deinit, once called, runs.
Fairness == WF_vars(VStep /\ UNCHANGED fdvars)

Spec == Init /\ [][Next]_vars /\ Fairness
-----------------------------------------------------------------------------
\* The list of the mount points from one to another.
Span(from, to) == [i \in 1..(to - from + 1) |-> from + i - 1]

\* While the mount points are known the list holds the volumes that are mounted,
\* in order and linked: an init has mounted those before n, a deinit has still to
\* unmount those from n on.
Known ==
    LET first == IF step \in {"unmounting", "stuck"} THEN n ELSE 1 IN
    \E last \in (first - 1)..Len(Fstab) :
        /\ fs = first..last /\ mounted = fs /\ list = Span(first, last)
        /\ step \in {"mounting", "failed"} => last = n - 1
        /\ step = "failed" => n <= num
        /\ step = "up" => last = Len(Fstab)

\* They are not known: the list is stale, and the volume that failed to mount may
\* be mounted as well as those before it.
Lost ==
    /\ fs = {}
    /\ \E last \in 0..(Len(Fstab) - 1) :
         list = Span(1, last) /\ 1..last \subseteq mounted /\ mounted \subseteq 1..(last + 1)

VolInv ==
    /\ step \in {"down", "blk", "mounting", "up", "failed", "unmounting", "stuck", "fault"}
    /\ types \in {"none", "registered"} /\ inits \in 0..MaxInits
    /\ n \in 1..(Len(Fstab) + 1) /\ num \in {0, Len(Fstab)}
    /\ step \in {"mounting", "up", "unmounting"} => num # 0
    /\ step \in {"down", "blk", "fault"} => num = 0
    /\ num # 0 => types = "registered" /\ scan = "done" /\ Known
    /\ num = 0 => Lost
    /\ types = "none" => mounted = {} /\ list = <<>>
    /\ step = "down" => types = "none"

\* A slot that is not empty is an open file's, of a volume that is up, or was
\* taken by an open that failed.
SlotInv ==
    /\ handles \in [Slots -> Mounts \cup {Null, Freed}] /\ fails \in Nat
    /\ Open # {} => step = "up"
    /\ Cardinality({s \in Slots : handles[s] = Freed}) = fails

\* The types of the variables, and what the scan, the list of mount points, the
\* volumes and the table of open files owe each other: nothing that runs
\* (tinyvfs_mount.c:23, tinyvfs_mount.c:110, fdsycalls.c:12) walks a node or an
\* entry that was freed, but for the lookup after a mount that failed.
StInv == PInv /\ VolInv /\ SlotInv

\* A mount point is on the record of the master boot record with its number, when
\* the records up to it fit the disk and are not empty, and its type is one that
\* the file system it is mounted as accepts (updater.c:22, partscan.c:209).
RightVolume ==
    step = "up" =>
      \A k \in Mounts :
        LET p == Fstab[k].part IN
        /\ p <= 4 /\ AllAccepted(p) => table[p] = Entry(disk.mbr[p], p)
        /\ p <= Len(table) => table[p].type \in MountType(k)

Broken ==
    /\ types = "registered" /\ step \notin {"mounting", "up"}
    /\ ~(step = "unmounting" /\ fs = n..Len(Fstab))
    /\ ~(step = "stuck" /\ n = 1 /\ fs = Mounts)

\* After an init that failed with its file systems registered, or a deinit that
\* stopped past the first volume, no call brings the volumes up and no deinit
\* succeeds (tinyvfs_mount.c:37, :74, :97, :121).
OnceBroken == [][Broken => Broken']_vars

\* An init and a deinit end, whatever is on the disk, unless the chain of boot
\* records has more partitions than the table holds (partscan.c:113).
Settles == Busy ~> (~Busy \/ scan = "overrun")
=============================================================================
