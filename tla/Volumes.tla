------------------------------ MODULE Volumes ------------------------------
(***************************************************************************)
(* vfs_mount_init and vfs_unmount_deinit over the block device and the     *)
(* list of mount points: the volumes of fstab are mounted one after the    *)
(* other on the partitions a scan of the disk numbered, and unmounted in   *)
(* the same order.  Either stops at its first error and undoes nothing.    *)
(* Memory is never short.                                                  *)
(***************************************************************************)
EXTENDS Partscan

CONSTANTS
    Fstab,    \* for each mount point, the partition, and whether its type is detected
    MaxInits  \* bound of the calls of vfs_mount_init

ASSUME VolumesAssumption ==
    /\ Fstab \in Seq([part : Nat \ {0}, auto : {"yes", "no"}]) /\ Fstab # <<>>
    /\ MaxInits \in Nat

Mounts == 1..Len(Fstab)

VARIABLES
    step,     \* "down", "blk", "mounting", "up", "failed", "unmounting", "stuck",
              \* "fault"
    n,        \* the mount point an init or a deinit is at
    num,      \* ctx.num_mps
    fs,       \* mount points whose mp->fs is set
    list,     \* ctx.fopsl, by mount point; Unlinked for a node that was freed
    mounted,  \* volumes their file system holds open, written data in their caches
    types,    \* file systems are "registered", or "none" is
    inits

volvars == <<step, n, num, fs, list, mounted, types, inits>>

Unlinked == 0

VInit ==
    /\ step = "down" /\ n = 1 /\ num = 0 /\ fs = {} /\ list = <<>>
    /\ mounted = {} /\ types = "none" /\ inits = 0

\* The list is in use, and its entries point into ctx.mps, which is gone.
Stale == num = 0 /\ list # <<>>

\* While num_mps is set a call only returns -EEXIST.
InitStart ==
    /\ step \in {"down", "failed", "stuck"} /\ num = 0 /\ inits < MaxInits
    /\ inits' = inits + 1
    /\ \/ step' = "blk" /\ scan' = "mbr"
       \/ step' = "failed" /\ scan' = "none"  \* no card
    /\ UNCHANGED <<n, num, fs, list, mounted, types>>
    /\ UNCHANGED <<disk, nth, table, area, cur, size, tries, rec, next, buffered>>

Scan == step = "blk" /\ ScanStep /\ UNCHANGED volvars

ScanFailed ==
    /\ step = "blk" /\ scan = "error"
    /\ step' = "failed"
    /\ UNCHANGED <<n, num, fs, list, mounted, types, inits>>
    /\ UNCHANGED scanvars

\* Mutant: a file system that is registered already is no error.
MutRegister ==
    /\ step = "blk" /\ scan = "done"
    /\ types' = "registered" /\ num' = Len(Fstab) /\ fs' = {} /\ n' = 1
    /\ step' = "mounting"
    /\ UNCHANGED <<list, mounted, inits>>
    /\ UNCHANGED scanvars

\* An init that failed leaves its file systems registered.
Register ==
    /\ step = "blk" /\ scan = "done"
    /\ \/ /\ types = "none"
          /\ types' = "registered" /\ num' = Len(Fstab) /\ fs' = {} /\ n' = 1
          /\ step' = "mounting"
       \/ /\ types = "registered"
          /\ step' = "failed" /\ UNCHANGED <<types, num, fs, n>>
    /\ UNCHANGED <<list, mounted, inits>>
    /\ UNCHANGED scanvars

\* blk_get_partition and disk_initialize let one number past the table through
\* (the whole disk at 0 counts in n_parts): what is there is read as a partition.
TypesAt(p) ==
    IF p <= Len(table) THEN {table[p].type}
    ELSE IF p = Len(table) + 1 THEN Types ELSE {}

Detectable == {"vfat", "ext4", "lfs"}

\* mps and num_mps are kept, though the rest is not mounted.
Undetected ==
    /\ step = "mounting" /\ n <= num /\ Fstab[n].auto = "yes"
    /\ TypesAt(Fstab[n].part) \ Detectable # {} \/ TypesAt(Fstab[n].part) = {}
    /\ step' = "failed"
    /\ UNCHANGED <<n, num, fs, list, mounted, types, inits>>
    /\ UNCHANGED scanvars

\* The type a mount point is mounted as; "/os" is a FAT whatever its record says.
MountType(k) ==
    IF Fstab[k].auto = "yes" THEN TypesAt(Fstab[k].part) \cap Detectable ELSE {"vfat"}

\* FAT volumes are drives 1 to 9, and check the type of their partition.
Mount ==
    /\ step = "mounting" /\ n <= num
    /\ \E t \in MountType(n) :
         t \in TypesAt(Fstab[n].part) /\ (t = "vfat" => Fstab[n].part <= 9)
    /\ \A i \in DOMAIN list : list[i] # n
    /\ mounted' = mounted \cup {n} /\ fs' = fs \cup {n} /\ list' = Append(list, n)
    /\ n' = n + 1
    /\ UNCHANGED <<step, num, types, inits>>
    /\ UNCHANGED scanvars

\* ctx.mps is freed under the list.  ext_mount also fails on a mounted volume
\* when the cache does not switch to writing back.
MountFail ==
    /\ step = "mounting" /\ n <= num /\ MountType(n) # {}
    /\ \/ UNCHANGED mounted
       \/ "ext4" \in MountType(n) /\ mounted' = mounted \cup {n}
    /\ num' = 0 /\ fs' = {} /\ step' = "failed"
    /\ UNCHANGED <<n, list, types, inits>>
    /\ UNCHANGED scanvars

InitEnd ==
    /\ step = "mounting" /\ n > num
    /\ step' = "up"
    /\ UNCHANGED <<n, num, fs, list, mounted, types, inits>>
    /\ UNCHANGED scanvars
-----------------------------------------------------------------------------
\* -EINVAL when no volumes are known: those a failed init mounted stay so.  After
\* one that stopped half way it starts over, and fails at once at a volume that
\* is unmounted already.
DeinitStart ==
    /\ step \in {"up", "failed"} \/ (step = "stuck" /\ num # 0 /\ n = 1)
    /\ \/ num = 0 /\ step' = "stuck" /\ UNCHANGED n
       \/ num # 0 /\ step' = "unmounting" /\ n' = 1
    /\ UNCHANGED <<num, fs, list, mounted, types, inits>>
    /\ UNCHANGED scanvars

\* A node that is not the first one is freed, and still linked.
Remove(l, k) ==
    IF l # <<>> /\ Head(l) = k THEN Tail(l)
    ELSE [i \in DOMAIN l |-> IF l[i] = k THEN Unlinked ELSE l[i]]

Unmount ==
    /\ step = "unmounting" /\ n <= num /\ n \in fs
    /\ fs' = fs \ {n} /\ list' = Remove(list, n)
    /\ mounted' = mounted \ {n}
    /\ n' = n + 1
    /\ UNCHANGED <<step, num, types, inits>>
    /\ UNCHANGED scanvars

\* The volume is not mounted, or its file system fails; those after it are not
\* tried.
UnmountFail ==
    /\ step = "unmounting" /\ n <= num
    /\ step' = "stuck"
    /\ UNCHANGED <<n, num, fs, list, mounted, types, inits>>
    /\ UNCHANGED scanvars

DeinitEnd ==
    /\ step = "unmounting" /\ n > num
    /\ num' = 0 /\ types' = "none" /\ step' = "down"
    /\ UNCHANGED <<n, fs, list, mounted, inits>>
    /\ UNCHANGED scanvars

VStep ==
    \/ Scan \/ ScanFailed \/ Register \/ Undetected \/ Mount \/ MountFail \/ InitEnd
    \/ Unmount \/ UnmountFail \/ DeinitEnd

Busy == step \in {"blk", "mounting", "unmounting"}
=============================================================================
