----------------------------- MODULE MCStorage -----------------------------
(* Disks of 16 sectors, each a case of the scan, under main's fstab. *)
EXTENDS Descriptors

R(t, s, c) == [type |-> t, start |-> s, count |-> c]
No == R("other", 0, 0)
Os == R("vfat", 1, 4)
Backup == R("ext4", 5, 4)
User == R("lfs", 9, 4)
Link(s, c) == R("extended", s, c)
D(sig, mbr, ebr) == [signature |-> sig, mbr |-> mbr, ebr |-> ebr]
NoChain == [s \in {} |-> <<No, No, No, No>>]
Chain(r1, r2) == [s \in {9} |-> <<r1, r2, No, No>>]

MCDisks == {
    D("whole", <<Os, Backup, User, No>>, NoChain),
    D("whole", <<Os, Backup, User, R("vfat", 13, 3)>>, NoChain),
    D("none", <<Os, Backup, User, No>>, NoChain),
    \* records left out: the numbers after them shift
    D("half", <<Os, No, Backup, User>>, NoChain),
    D("whole", <<R("vfat", 1, 16), Os, Backup, User>>, NoChain),
    \* a type that is not detected; one or two partitions too few
    D("whole", <<Os, R("other", 5, 4), User, No>>, NoChain),
    D("whole", <<Os, No, No, No>>, NoChain),
    D("whole", <<Os, Backup, No, No>>, NoChain),
    \* two chained records, with a partition each
    D("whole", <<Os, Backup, Link(9, 7), No>>,
      [s \in {9, 12} |-> IF s = 9 THEN <<User, Link(3, 3), No, No>>
                                  ELSE <<R("lfs", 1, 2), No, No, No>>]),
    \* a chained partition larger than its part of the area
    D("whole", <<Os, Link(9, 7), Backup, User>>, Chain(R("lfs", 1, 8), No)),
    \* chains that come back to their start, without and with a partition
    D("whole", <<Os, Backup, User, Link(9, 7)>>, Chain(Link(0, 7), No)),
    D("whole", <<Os, Backup, User, Link(9, 7)>>, Chain(R("lfs", 1, 2), Link(0, 7))),
    \* a link past the disk; a size that wraps
    D("whole", <<Os, Backup, User, Link(9, 7)>>, Chain(Link(20, 2), No)),
    D("whole", <<Os, Backup, User, Link(9, 40)>>, Chain(R("lfs", 30, 6), Link(60, 2))) }

MCFstab == << [part |-> 1, auto |-> "no"], [part |-> 2, auto |-> "yes"],
              [part |-> 3, auto |-> "yes"] >>
=============================================================================
