-------------------------------- MODULE Walk --------------------------------
(***************************************************************************)
(* What the walk of a directory tree promises to those that run it         *)
(* (recursive_mv, recursive_unlink, get_files_flat): which files are still *)
(* reached once it has met an error, what its outcome then says, and which *)
(* it may lose without one.  The moves of Updater are steps of this kind;  *)
(* DirWalker, which follows the code of recursive_dir_walker, implements   *)
(* it.                                                                     *)
(***************************************************************************)
EXTENDS Integers, SequencesExt

CONSTANTS
    Files, Dirs   \* paths: sequences of names

VARIABLES
    left,    \* the files that the walk has not handled
    lost,    \* those it never will, without an error to tell
    last,    \* the directory of the last error, in a set that is empty before
    outcome  \* "running", then "ok" or "error"

walkvars == <<left, lost, last, outcome>>

\* An error ends the walk of its directory; only those above it go on.
Visited(dir) == \A d \in last : IsStrictPrefix(dir, d)

Init == left \subseteq Files /\ lost = {} /\ last = {} /\ outcome = "running"

Handle(f) ==
    /\ outcome = "running" /\ Visited(Front(f))
    /\ left' = left \ {f}
    /\ UNCHANGED <<lost, last, outcome>>

\* The listing of dir ends before it yielded the files of gone.
Miss(dir, gone) ==
    /\ outcome = "running" /\ Visited(dir)
    /\ \A f \in gone : IsPrefix(dir, Front(f))
    /\ left' = left \ gone /\ lost' = lost \cup gone
    /\ UNCHANGED <<last, outcome>>

Meet(dir) ==
    /\ outcome = "running" /\ Visited(dir)
    /\ last' = {dir}
    /\ UNCHANGED <<left, lost, outcome>>

End ==
    /\ outcome = "running"
    /\ \A f \in left : ~Visited(Front(f))
    /\ outcome' = IF last = {} THEN "ok" ELSE "error"
    /\ UNCHANGED <<left, lost, last>>

Next ==
    \/ \E f \in left : Handle(f)
    \/ \E dir \in Dirs, gone \in SUBSET left : Miss(dir, gone)
    \/ \E dir \in Dirs : Meet(dir)
    \/ End

Spec == Init /\ [][Next]_walkvars
=============================================================================
