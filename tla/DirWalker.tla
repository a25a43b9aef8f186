----------------------------- MODULE DirWalker -----------------------------
(***************************************************************************)
(* recursive_dir_walker of dir_walker.c, with a frame for every call that  *)
(* is not over, and the three callers that give it their callbacks:        *)
(* recursive_mv ("mv"), recursive_unlink ("unlink"), which also has a      *)
(* callback for the directories it leaves, and get_files_flat ("flat"),    *)
(* which asks it to stop at the first directory.                           *)
(***************************************************************************)
EXTENDS Integers, SequencesExt

CONSTANTS
    Files, Dirs,  \* paths: sequences of names; <<>> is the root of the walk
    Trees,        \* what readdir yields, "." and ".." left out: the names
                  \* of the entries of every directory, in some order
    Limits        \* values of *recursion_limit that a walk can start with

Callers == {"mv", "unlink", "flat"}
Errors == {"ok", "fs", "limit", "path", "callback"}

Paths == Files \cup Dirs
Entries == UNION {ToSet(p) : p \in Paths}

ASSUME TreeAssumption ==
    /\ Paths \subseteq Seq(Entries) /\ Limits \subseteq Nat
    /\ <<>> \in Dirs /\ Files \cap Dirs = {}
    /\ \A p \in Paths : \A n \in 0..(Len(p) - 1) : SubSeq(p, 1, n) \in Dirs
    /\ \A t \in Trees : \A d \in Dirs :
          /\ t[d] \in Seq(Entries) /\ IsInjective(t[d])
          /\ ToSet(t[d]) = {Last(p) : p \in {q \in Paths \ {<<>>} : Front(q) = d}}

VARIABLES
    tree, caller, limit,  \* inputs of this walk
    stack,      \* the open calls, the innermost last: directory and next entry
    entering,   \* the directory a call is made for
    budget,     \* *recursion_limit, one counter for the whole walk
    error,      \* h->error
    userBreak,  \* h->user_break
    pc,         \* "enter", "read", "return" or "end"
    calls,      \* history: the entries whose callback succeeded, in order
    unread,     \* history: the directories whose listing was cut short
    closed,     \* history: the directories given to callback_dir_closed
    last        \* history: the directory of the last error, as in Walk

inputs == <<tree, caller, limit>>
vars == <<inputs, stack, entering, budget, error, userBreak, pc, calls, unread, closed, last>>

Init ==
    /\ tree \in Trees /\ caller \in Callers /\ limit \in Limits
    /\ stack = <<>> /\ entering = <<>> /\ budget = limit
    /\ error = "ok" /\ userBreak = FALSE /\ pc = "enter"
    /\ calls = <<>> /\ unread = {} /\ closed = {} /\ last = {}

-----------------------------------------------------------------------------
\* The checks at the start of a call.
Back == pc' = "return" /\ UNCHANGED <<inputs, stack, entering, userBreak, calls, unread, closed>>

BreakAsked ==
    /\ pc = "enter" /\ userBreak
    /\ error' = "ok"
    /\ Back /\ UNCHANGED <<budget, last>>

OutOfBudget ==
    /\ pc = "enter" /\ ~userBreak /\ budget = 0
    /\ error' = "limit"
    /\ last' = IF error = "ok" THEN {entering} ELSE last
    /\ Back /\ UNCHANGED budget

AfterError ==
    /\ pc = "enter" /\ ~userBreak /\ budget > 0 /\ error # "ok"
    /\ budget' = budget - 1
    /\ Back /\ UNCHANGED <<error, last>>

OpenFails ==
    /\ pc = "enter" /\ ~userBreak /\ budget > 0 /\ error = "ok"
    /\ budget' = budget - 1
    /\ error' = "fs" /\ last' = {entering}
    /\ Back

\* Mutant: the error of an earlier call is not looked at.
MutOpen ==
    /\ pc = "enter" /\ ~userBreak /\ budget > 0
    /\ budget' = budget - 1
    /\ stack' = Append(stack, [dir |-> entering, next |-> 1])
    /\ pc' = "read"
    /\ UNCHANGED <<inputs, entering, error, userBreak, calls, unread, closed, last>>

Open ==
    /\ pc = "enter" /\ ~userBreak /\ budget > 0 /\ error = "ok"
    /\ budget' = budget - 1
    /\ stack' = Append(stack, [dir |-> entering, next |-> 1])
    /\ pc' = "read"
    /\ UNCHANGED <<inputs, entering, error, userBreak, calls, unread, closed, last>>

-----------------------------------------------------------------------------
\* The loop over the entries of the innermost directory.
Top == Last(stack)
Names == tree[Top.dir]
Path == Append(Top.dir, Names[Top.next])
Reading == pc = "read" /\ Top.next <= Len(Names)
Advanced == [stack EXCEPT ![Len(stack)].next = @ + 1]

VisitFile ==
    /\ Reading /\ Path \in Files
    /\ calls' = Append(calls, Path)
    /\ stack' = Advanced
    /\ UNCHANGED <<inputs, entering, budget, error, userBreak, pc, unread, closed, last>>

VisitDir ==
    /\ Reading /\ Path \in Dirs
    /\ calls' = Append(calls, Path)
    /\ userBreak' = (userBreak \/ caller = "flat")
    /\ stack' = Advanced
    /\ entering' = Path /\ pc' = "enter"
    /\ UNCHANGED <<inputs, budget, error, unread, closed, last>>

\* closedir, callback_dir_closed (whose result is dropped), and the return.
Close ==
    /\ stack' = Front(stack) /\ pc' = "return"
    /\ closed' = IF caller = "unlink" /\ Top.dir # <<>> THEN closed \cup {Top.dir} ELSE closed
    /\ UNCHANGED <<inputs, entering, budget, userBreak, calls>>

\* The path is too long, or the callback returns an error: the loop is left.
EntryFails ==
    /\ Reading
    /\ error' \in {"path", "callback"} /\ last' = {Top.dir}
    /\ Close /\ UNCHANGED unread

\* readdir fails: its NULL is taken for the end of the directory.
ReadFails ==
    /\ Reading
    /\ unread' = unread \cup {Top.dir}
    /\ Close /\ UNCHANGED <<error, last>>

\* Mutant: the last entry of every directory is left out.
MutLeaveDir ==
    /\ pc = "read" /\ Top.next >= Len(Names)
    /\ Close
    /\ UNCHANGED <<error, unread, last>>

\* Mutant: the empty name that ends a directory is taken for an entry.
MutLeaveDirEnd ==
    /\ pc = "read" /\ Top.next > Len(Names)
    /\ UNCHANGED vars

\* Mutant: the result of callback_dir_closed is kept in h->error.
MutLeaveDirResult ==
    /\ pc = "read" /\ Top.next > Len(Names)
    /\ error' = IF caller = "unlink" /\ Top.dir # <<>> THEN "ok" ELSE error
    /\ Close
    /\ UNCHANGED <<unread, last>>

LeaveDir ==
    /\ pc = "read" /\ Top.next > Len(Names)
    /\ Close
    /\ UNCHANGED <<error, unread, last>>

\* Mutant: the limit is one on the depth, given back on the way out.
MutReturn ==
    /\ pc = "return"
    /\ pc' = IF stack = <<>> THEN "end" ELSE "read"
    /\ budget' = budget + 1
    /\ UNCHANGED <<inputs, stack, entering, error, userBreak, calls, unread, closed, last>>

Return ==
    /\ pc = "return"
    /\ pc' = IF stack = <<>> THEN "end" ELSE "read"
    /\ UNCHANGED <<inputs, stack, entering, budget, error, userBreak, calls, unread, closed, last>>

-----------------------------------------------------------------------------
Enter == BreakAsked \/ OutOfBudget \/ AfterError \/ OpenFails \/ Open
Read == VisitFile \/ VisitDir \/ EntryFails \/ ReadFails \/ LeaveDir

Next == Enter \/ Read \/ Return

Spec == Init /\ [][Next]_vars /\ WF_vars(Next)
-----------------------------------------------------------------------------
Frames == [dir : Dirs, next : Nat \ {0}]

TypeOK ==
    /\ tree \in Trees /\ caller \in Callers /\ limit \in Limits
    /\ stack \in Seq(Frames)
    /\ \A i \in DOMAIN stack : stack[i].next <= Len(tree[stack[i].dir]) + 1
    /\ entering \in Dirs /\ budget \in 0..limit
    /\ error \in Errors /\ userBreak \in BOOLEAN
    /\ pc \in {"enter", "read", "return", "end"}
    /\ calls \in Seq(Paths)
    /\ unread \subseteq Dirs /\ closed \subseteq Dirs /\ last \subseteq Dirs

\* The files a caller wants to see: get_files_flat only those of the root.
Scope == {f \in Files : caller = "flat" => Front(f) = <<>>}

\* Those that the listing of a directory above them never led to.
Unseen == {f \in Scope \ ToSet(calls) : \E d \in unread : IsPrefix(d, Front(f))}

Implements == INSTANCE Walk WITH
    left <- (Scope \ ToSet(calls)) \ Unseen,
    lost <- Unseen,
    outcome <- IF pc # "end" THEN "running" ELSE IF error = "ok" THEN "ok" ELSE "error"

(***************************************************************************)
(* The walk is one of those that Walk allows, whatever the tree, the       *)
(* budget and the failures: after an error it reaches only the entries of  *)
(* enclosing directories, and it ends well only if no file was left out    *)
(* but those of a directory that could not be read to its end.             *)
(***************************************************************************)
WalkSpec == Implements!Spec

\* Entry j of the directory of the open call i.
Entry(i, j) == Append(stack[i].dir, tree[stack[i].dir][j])

\* The open calls are those of the directories above the innermost one, each of them
\* at the entry that the next call was made for.
Through(i, p) == stack[i].next > 1 /\ IsPrefix(Entry(i, stack[i].next - 1), p)

Chain ==
    /\ pc = "read" => stack # <<>>
    /\ pc = "end" => stack = <<>>
    /\ \A i \in DOMAIN stack : Len(stack[i].dir) = i - 1
    /\ \A i, j \in DOMAIN stack : i < j => Through(i, stack[j].dir)
    /\ pc = "enter" =>
         Len(entering) = Len(stack) /\ \A i \in DOMAIN stack : Through(i, entering)

\* What the walk can still come to, were there no failures.
Ahead(p) ==
    \/ \E i \in DOMAIN stack : \E j \in stack[i].next..Len(tree[stack[i].dir]) :
         IsPrefix(Entry(i, j), p)
    \/ pc = "enter" /\ IsStrictPrefix(entering, p)

\* It comes to nothing twice, and not to what is below a listing that was cut short;
\* the directories that are open are all above the one of the last error.
Past ==
    /\ \A p \in ToSet(calls) \cup unread \cup last : ~Ahead(p)
    /\ \A u \in unread :
         /\ \A i \in DOMAIN stack : ~IsPrefix(u, stack[i].dir)
         /\ pc = "enter" => ~IsPrefix(u, entering)
    /\ \A d \in last : \A i \in DOMAIN stack : IsStrictPrefix(stack[i].dir, d)
    /\ error = "ok" <=> last = {}

\* get_files_flat is in the root until it fails, and asks for a break before any
\* other directory; the other callers never ask.
Flat ==
    /\ userBreak => caller = "flat"
    /\ userBreak /\ pc = "enter" => stack # <<>>
    /\ caller = "flat" =>
         /\ stack # <<>> => Len(stack) = 1 /\ error = "ok" /\ (pc = "enter" => userBreak)
         /\ pc = "enter" => error = "ok"

\* A path is handled, or ahead, or left out for one of two reasons.
Cover ==
    \A p \in Paths \ {<<>>} : (caller = "flat" => Len(p) = 1) =>
        \/ p \in ToSet(calls)
        \/ Ahead(p)
        \/ \E u \in unread : IsPrefix(u, Front(p))
        \/ \E d \in last : ~IsStrictPrefix(Front(p), d)

\* The entries that an open call has passed are handled, and, without an error, the
\* directories among them are closed, but for the one it is in.
Handled ==
    /\ \A i \in DOMAIN stack : \A j \in 1..(stack[i].next - 1) : Entry(i, j) \in ToSet(calls)
    /\ caller # "unlink" => closed = {}
    /\ caller = "unlink" /\ error = "ok" =>
         \A i \in DOMAIN stack : \A j \in 1..(stack[i].next - 1) :
             \/ Entry(i, j) \in closed \cup Files
             \/ j = stack[i].next - 1 /\ (i < Len(stack) \/ pc = "enter")

\* Every directory that was come to has cost one of the budget.
Seen == {<<>>} \cup {d \in Dirs : d \in ToSet(calls)}

Counted ==
    /\ IsFiniteSet(Seen)
    /\ caller # "flat" /\ error = "ok" =>
         Cardinality(Seen) + budget <= limit + (IF pc = "enter" THEN 1 ELSE 0)

ClosedWhenEmpty ==
    error = "ok" =>
        \A d \in closed : (\A u \in unread : ~IsPrefix(d, u)) =>
            \A p \in Paths : IsStrictPrefix(d, p) =>
                p \in ToSet(calls) /\ (p \in Dirs => p \in closed)

(***************************************************************************)
(* rmdir is tried only for a directory whose every entry, at any depth,    *)
(* was handed to the callback, unless the walk has already failed or could *)
(* not read a directory below it to the end; with what that rests on, and  *)
(* the types.                                                              *)
(***************************************************************************)
WInv ==
    TypeOK /\ Chain /\ Past /\ Flat /\ Cover /\ Handled /\ Counted /\ ClosedWhenEmpty

(***************************************************************************)
(* recursion_limit, 100 for every caller, is a budget for the directories  *)
(* of the whole tree: one with more of them is never taken for done.       *)
(***************************************************************************)
BudgetIsForTheTree ==
    pc = "end" /\ error = "ok" /\ unread = {} /\ caller # "flat" => Cardinality(Dirs) <= limit

(***************************************************************************)
(* An error that was met is still there when the caller looks at it, also  *)
(* when the callback asked for a break, which sets h->error to success.    *)
(***************************************************************************)
ErrorStays == [][error # "ok" => error' # "ok"]_vars

\* Every walk ends.
WalkEnds == <>(pc = "end")

(***************************************************************************)
(* What dir_walker.h says of the walk: it "exits on first error".          *)
(***************************************************************************)
ExitsOnFirstError == [][error # "ok" => calls' = calls]_vars
=============================================================================
