-------------------------- MODULE DirWalker_proofs --------------------------
(***************************************************************************)
(* Proofs about DirWalker, for every tree, every budget and every caller:  *)
(* its invariant, and that it implements Walk, the walk that Updater       *)
(* relies on.  They rest on the facts about paths and their prefixes that  *)
(* come first.                                                             *)
(***************************************************************************)
EXTENDS DirWalker, FiniteSetTheorems, TLAPS

Strings == Seq(Entries)
Child(d, x) == Append(d, x)

-----------------------------------------------------------------------------
\* A prefix has the same entries as far as it goes.
LEMMA PrefixAt ==
    ASSUME NEW s \in Strings, NEW t \in Strings
    PROVE  IsPrefix(s, t) <=> Len(s) <= Len(t) /\ \A i \in 1..Len(s) : s[i] = t[i]
<1>1. SubSeq(s, 1, Len(s)) = s
  BY DEF Strings
<1>2. ASSUME Len(s) <= Len(t)
      PROVE  /\ SubSeq(t, 1, Len(s)) \in Strings /\ Len(SubSeq(t, 1, Len(s))) = Len(s)
             /\ \A i \in 1..Len(s) : SubSeq(t, 1, Len(s))[i] = t[i]
  BY <1>2 DEF Strings
<1>3. ASSUME NEW u \in Strings, NEW v \in Strings, Len(u) = Len(v),
             \A i \in 1..Len(u) : u[i] = v[i]
      PROVE  u = v
  BY <1>3 DEF Strings
<1> QED
  BY <1>1, <1>2, <1>3 DEF IsPrefix

\* Equal lengths and entries make equal paths.
LEMMA SamePath ==
    ASSUME NEW s \in Strings, NEW t \in Strings, IsPrefix(s, t), Len(s) >= Len(t)
    PROVE  s = t
<1>1. Len(s) = Len(t) /\ \A i \in 1..Len(s) : s[i] = t[i]
  BY PrefixAt DEF Strings
<1> QED
  BY <1>1 DEF Strings

LEMMA PrefixTransitive ==
    ASSUME NEW s \in Strings, NEW t \in Strings, NEW u \in Strings, IsPrefix(s, t), IsPrefix(t, u)
    PROVE  IsPrefix(s, u)
  BY PrefixAt DEF Strings

\* Of two prefixes of one path the shorter is one of the longer.
LEMMA PrefixesNested ==
    ASSUME NEW s \in Strings, NEW t \in Strings, NEW u \in Strings,
           IsPrefix(s, u), IsPrefix(t, u), Len(s) <= Len(t)
    PROVE  IsPrefix(s, t)
  BY PrefixAt DEF Strings

\* A path is strictly below its prefixes that are shorter.
LEMMA StrictIsShorter ==
    ASSUME NEW s \in Strings, NEW t \in Strings
    PROVE  IsStrictPrefix(s, t) <=> IsPrefix(s, t) /\ Len(s) < Len(t)
<1>1. IsStrictPrefix(s, t) => Len(s) < Len(t)
  BY PrefixAt, SamePath DEF IsStrictPrefix, Strings
<1> QED
  BY <1>1 DEF IsStrictPrefix

\* A path and one more name.
LEMMA ChildFacts ==
    ASSUME NEW d \in Strings, NEW x \in Entries
    PROVE  /\ Child(d, x) \in Strings /\ Len(Child(d, x)) = Len(d) + 1 /\ Len(d) \in Nat
           /\ Child(d, x)[Len(d) + 1] = x /\ \A i \in 1..Len(d) : Child(d, x)[i] = d[i]
           /\ IsPrefix(d, Child(d, x)) /\ Front(Child(d, x)) = d /\ Last(Child(d, x)) = x
<1>1. /\ Append(d, x) \in Strings /\ Len(Append(d, x)) = Len(d) + 1
      /\ Append(d, x)[Len(d) + 1] = x /\ \A i \in 1..Len(d) : Append(d, x)[i] = d[i]
      /\ Len(d) \in Nat
  BY DEF Strings
<1>2. /\ Child(d, x) \in Strings /\ Len(Child(d, x)) = Len(d) + 1
      /\ Child(d, x)[Len(d) + 1] = x /\ \A i \in 1..Len(d) : Child(d, x)[i] = d[i]
  BY <1>1 DEF Child
<1>3. IsPrefix(d, Child(d, x))
  BY <1>1, <1>2, PrefixAt
<1>4. SubSeq(Append(d, x), 1, Len(d)) = d
  BY DEF Strings
<1>5. Front(Child(d, x)) = d
  BY <1>1, <1>4 DEF Front, Child
<1> QED
  BY <1>1, <1>2, <1>3, <1>5 DEF Last

\* A path that is not the root is the one above it and its last name.
LEMMA FrontFacts ==
    ASSUME NEW p \in Strings, p # <<>>
    PROVE  /\ Front(p) \in Strings /\ Len(Front(p)) = Len(p) - 1 /\ Last(p) \in Entries
           /\ p = Child(Front(p), Last(p)) /\ Len(p) \in Nat /\ Len(p) >= 1
<1>1. Len(p) \in Nat /\ Len(p) >= 1
  BY DEF Strings
<1>2. /\ Front(p) \in Strings /\ Len(Front(p)) = Len(p) - 1 /\ Last(p) \in Entries
      /\ \A i \in 1..(Len(p) - 1) : Front(p)[i] = p[i]
  BY <1>1 DEF Strings, Front, Last
<1>3. p = Append(Front(p), Last(p))
  BY <1>1, <1>2 DEF Strings, Last
<1> QED
  BY <1>1, <1>2, <1>3 DEF Child

\* What is strictly below a path is below one of the entries of that.
LEMMA NextName ==
    ASSUME NEW d \in Strings, NEW p \in Strings, IsStrictPrefix(d, p)
    PROVE  \E x \in Entries : p[Len(d) + 1] = x /\ IsPrefix(Child(d, x), p)
<1>1. /\ Len(d) \in Nat /\ Len(p) \in Nat /\ Len(d) < Len(p)
      /\ \A i \in 1..Len(d) : d[i] = p[i]
  BY StrictIsShorter, PrefixAt DEF Strings
<1>2. PICK x \in Entries : x = p[Len(d) + 1]
  BY <1>1 DEF Strings
<1>3. PICK c \in Strings :
        /\ c = Child(d, x) /\ Len(c) = Len(d) + 1 /\ c[Len(d) + 1] = x
        /\ \A i \in 1..Len(d) : c[i] = d[i]
  BY ChildFacts
<1>4. \A i \in 1..Len(c) : c[i] = p[i]
  BY <1>1, <1>2, <1>3
<1>5. IsPrefix(c, p)
  BY <1>1, <1>3, <1>4, PrefixAt
<1> QED
  BY <1>2, <1>3, <1>5

\* Two entries of one path that a path is below are the same.
LEMMA SameName ==
    ASSUME NEW d \in Strings, NEW x \in Entries, NEW y \in Entries, NEW p \in Strings,
           IsPrefix(Child(d, x), p), IsPrefix(Child(d, y), p)
    PROVE  x = y
<1>1. p[Len(d) + 1] = x
  <2>1. PICK c \in Strings :
          c = Child(d, x) /\ Len(c) = Len(d) + 1 /\ c[Len(d) + 1] = x /\ Len(d) \in Nat
    BY ChildFacts
  <2>2. IsPrefix(c, p) /\ Len(d) + 1 \in 1..Len(c)
    BY <2>1
  <2> QED
    BY <2>1, <2>2, PrefixAt
<1>2. p[Len(d) + 1] = y
  <2>1. PICK c \in Strings :
          c = Child(d, y) /\ Len(c) = Len(d) + 1 /\ c[Len(d) + 1] = y /\ Len(d) \in Nat
    BY ChildFacts
  <2>2. IsPrefix(c, p) /\ Len(d) + 1 \in 1..Len(c)
    BY <2>1
  <2> QED
    BY <2>1, <2>2, PrefixAt
<1> QED
  BY <1>1, <1>2

\* A prefix of an entry is the entry or a prefix of the path that it is in.
LEMMA PrefixOfChild ==
    ASSUME NEW d \in Strings, NEW x \in Entries, NEW u \in Strings, IsPrefix(u, Child(d, x))
    PROVE  u = Child(d, x) \/ IsPrefix(u, d)
<1>1. Len(d) \in Nat /\ Len(u) \in Nat
  BY DEF Strings
<1>2. CASE Len(u) <= Len(d)
  BY <1>2, ChildFacts, PrefixesNested
<1>3. CASE Len(u) > Len(d)
  BY <1>1, <1>3, ChildFacts, SamePath
<1> QED
  BY <1>1, <1>2, <1>3

\* Strictly below a path is all that is in a path below it.
LEMMA BelowFront ==
    ASSUME NEW d \in Strings, NEW p \in Strings, p # <<>>
    PROVE  IsStrictPrefix(d, p) <=> IsPrefix(d, Front(p))
<1>1. PICK e \in Strings, x \in Entries : e = Front(p) /\ p = Child(e, x) /\ Len(p) = Len(e) + 1
  BY FrontFacts, ChildFacts
<1>2. IsPrefix(e, p) /\ Len(d) \in Nat /\ Len(e) \in Nat
  BY <1>1, ChildFacts DEF Strings
<1>3. ASSUME IsStrictPrefix(d, p)
      PROVE  IsPrefix(d, e)
  BY <1>1, <1>2, <1>3, StrictIsShorter, PrefixesNested
<1>4. ASSUME IsPrefix(d, e)
      PROVE  IsStrictPrefix(d, p)
  <2>1. IsPrefix(d, p)
    BY <1>2, <1>4, PrefixTransitive
  <2>2. Len(d) <= Len(e)
    BY <1>4, PrefixAt
  <2> QED
    BY <1>1, <1>2, <2>1, <2>2, StrictIsShorter
<1> QED
  BY <1>1, <1>3, <1>4

-----------------------------------------------------------------------------
\* What the tree assumption says of the paths, and of the listing of a directory.
LEMMA PathFacts ==
    ASSUME NEW p \in Paths
    PROVE  p \in Strings /\ Len(p) \in Nat /\ (p # <<>> => Front(p) \in Dirs)
<1>1. p \in Strings /\ Len(p) \in Nat
  BY TreeAssumption DEF Strings
<1>2. ASSUME p # <<>>
      PROVE  Front(p) \in Dirs
  BY <1>1, <1>2, FrontFacts, TreeAssumption DEF Front
<1> QED
  BY <1>1, <1>2

LEMMA DirFacts ==
    ASSUME NEW d \in Dirs
    PROVE  d \in Paths /\ d \in Strings /\ d \notin Files
  BY PathFacts, TreeAssumption DEF Paths

LEMMA ListingFacts ==
    ASSUME NEW t \in Trees, NEW d \in Dirs
    PROVE  /\ Len(t[d]) \in Nat
           /\ \A j \in 1..Len(t[d]) :
                /\ t[d][j] \in Entries /\ Child(d, t[d][j]) \in Paths
                /\ Child(d, t[d][j]) # <<>> /\ Front(Child(d, t[d][j])) = d
                /\ Child(d, t[d][j]) \in Strings /\ Len(Child(d, t[d][j])) = Len(d) + 1
           /\ \A i, j \in 1..Len(t[d]) : t[d][i] = t[d][j] => i = j
<1>1. /\ t[d] \in Seq(Entries) /\ IsInjective(t[d])
      /\ ToSet(t[d]) = {Last(p) : p \in {q \in Paths \ {<<>>} : Front(q) = d}}
  BY TreeAssumption
<1>2. Len(t[d]) \in Nat /\ DOMAIN t[d] = 1..Len(t[d])
  BY <1>1
<1>3. ASSUME NEW j \in 1..Len(t[d])
      PROVE  /\ t[d][j] \in Entries /\ Child(d, t[d][j]) \in Paths
             /\ Child(d, t[d][j]) # <<>> /\ Front(Child(d, t[d][j])) = d
             /\ Child(d, t[d][j]) \in Strings /\ Len(Child(d, t[d][j])) = Len(d) + 1
  <2>1. PICK x \in Entries : x = t[d][j]
    BY <1>1, <1>2
  <2>2. x \in ToSet(t[d])
    BY <1>2, <2>1 DEF ToSet
  <2>3. PICK p \in Paths \ {<<>>} : Front(p) = d /\ Last(p) = x
    BY <1>1, <2>2
  <2>4. p = Child(d, x) /\ p \in Strings
    BY <2>3, PathFacts, FrontFacts
  <2>5. Len(p) = Len(d) + 1
    BY <2>3, <2>4, FrontFacts
  <2> QED
    BY <2>1, <2>3, <2>4, <2>5
<1> QED
  BY <1>1, <1>2, <1>3 DEF IsInjective

\* Every path is listed in the directory it is in.
LEMMA Listed ==
    ASSUME NEW t \in Trees, NEW p \in Paths, p # <<>>
    PROVE  \E j \in 1..Len(t[Front(p)]) : p = Child(Front(p), t[Front(p)][j])
<1>1. PICK d \in Dirs : d = Front(p)
  BY PathFacts
<1>2. /\ t[d] \in Seq(Entries)
      /\ ToSet(t[d]) = {Last(r) : r \in {q \in Paths \ {<<>>} : Front(q) = d}}
  BY TreeAssumption
<1>3. Last(p) \in ToSet(t[d])
  BY <1>1, <1>2
<1>4. PICK j \in DOMAIN t[d] : t[d][j] = Last(p)
  BY <1>3 DEF ToSet
<1>5. j \in 1..Len(t[d])
  BY <1>2, <1>4
<1>6. p = Child(d, t[d][j])
  BY <1>1, <1>4, PathFacts, FrontFacts
<1> QED
  BY <1>1, <1>5, <1>6

\* A prefix of a path is the path or a directory.
LEMMA PrefixIsDir ==
    ASSUME NEW p \in Paths, NEW s \in Strings, IsPrefix(s, p), s # p
    PROVE  s \in Dirs
<1>1. /\ p \in Strings /\ Len(s) \in Nat /\ Len(p) \in Nat
      /\ Len(s) <= Len(p) /\ \A i \in 1..Len(s) : s[i] = p[i]
  BY PathFacts, PrefixAt DEF Strings
<1>2. Len(s) < Len(p)
  BY <1>1, SamePath
<1>3. SubSeq(p, 1, Len(s)) \in Dirs
  BY <1>1, <1>2, TreeAssumption
<1>4. SubSeq(p, 1, Len(s)) = s
  BY <1>1, <1>2 DEF Strings
<1> QED
  BY <1>3, <1>4

\* A path below a directory is below one of the entries of its listing.
LEMMA Descend ==
    ASSUME NEW t \in Trees, NEW d \in Dirs, NEW p \in Paths, IsStrictPrefix(d, p)
    PROVE  \E j \in 1..Len(t[d]) : IsPrefix(Child(d, t[d][j]), p)
<1>1. PICK x \in Entries : IsPrefix(Child(d, x), p)
  BY NextName, PathFacts, DirFacts
<1>2. PICK c \in Strings : c = Child(d, x) /\ Len(c) = Len(d) + 1 /\ Front(c) = d /\ Len(d) \in Nat
  BY ChildFacts, DirFacts
<1>3. c \in Paths
  BY <1>1, <1>2, PrefixIsDir, DirFacts
<1>4. c # <<>>
  BY <1>2
<1> QED
  BY <1>1, <1>2, <1>3, <1>4, Listed

-----------------------------------------------------------------------------
\* The open calls, and the entries of their directories.
LEMMA FrameFacts ==
    ASSUME TypeOK
    PROVE  /\ Len(stack) \in Nat /\ DOMAIN stack = 1..Len(stack)
           /\ stack = <<>> <=> Len(stack) = 0
           /\ \A i \in 1..Len(stack) :
                /\ stack[i].dir \in Dirs /\ stack[i].dir \in Strings /\ Len(stack[i].dir) \in Nat
                /\ stack[i].next \in Nat /\ stack[i].next >= 1
                /\ stack[i].next <= Len(tree[stack[i].dir]) + 1
                /\ Len(tree[stack[i].dir]) \in Nat
<1>1. /\ Len(stack) \in Nat /\ DOMAIN stack = 1..Len(stack)
      /\ stack = <<>> <=> Len(stack) = 0
  BY DEF TypeOK
<1>2. ASSUME NEW i \in 1..Len(stack)
      PROVE  /\ stack[i].dir \in Dirs /\ stack[i].next \in Nat /\ stack[i].next >= 1
             /\ stack[i].next <= Len(tree[stack[i].dir]) + 1
  <2>1. stack[i] \in Frames
    BY DEF TypeOK
  <2>2. stack[i].next <= Len(tree[stack[i].dir]) + 1
    BY <1>1 DEF TypeOK
  <2> QED
    BY <2>1, <2>2 DEF Frames
<1>3. tree \in Trees
  BY DEF TypeOK
<1> QED
  BY <1>1, <1>2, <1>3, DirFacts, PathFacts, ListingFacts

LEMMA EntryFacts ==
    ASSUME TypeOK, NEW i \in 1..Len(stack), NEW j \in 1..Len(tree[stack[i].dir])
    PROVE  /\ Entry(i, j) = Child(stack[i].dir, tree[stack[i].dir][j])
           /\ Entry(i, j) \in Paths /\ Entry(i, j) # <<>> /\ Entry(i, j) \in Strings
           /\ Front(Entry(i, j)) = stack[i].dir
           /\ Len(Entry(i, j)) = Len(stack[i].dir) + 1
           /\ tree[stack[i].dir][j] \in Entries
<1>1. tree \in Trees /\ stack[i].dir \in Dirs
  BY FrameFacts DEF TypeOK
<1>2. Entry(i, j) = Child(stack[i].dir, tree[stack[i].dir][j])
  BY DEF Entry, Child
<1> QED
  BY <1>1, <1>2, ListingFacts

\* Two entries of one directory that a path is below are the same one.
LEMMA SameEntry ==
    ASSUME TypeOK, NEW i \in 1..Len(stack), NEW p \in Strings,
           NEW j \in 1..Len(tree[stack[i].dir]), NEW k \in 1..Len(tree[stack[i].dir]),
           IsPrefix(Entry(i, j), p), IsPrefix(Entry(i, k), p)
    PROVE  j = k
<1>1. tree \in Trees /\ stack[i].dir \in Dirs /\ stack[i].dir \in Strings
  BY FrameFacts DEF TypeOK
<1>2. tree[stack[i].dir][j] = tree[stack[i].dir][k]
  BY <1>1, EntryFacts, SameName
<1> QED
  BY <1>1, <1>2, ListingFacts

\* The entry that an open call has gone into.
LEMMA ThroughEntry ==
    ASSUME TypeOK, NEW i \in 1..Len(stack), NEW p
    PROVE  Through(i, p) <=> \E k \in 1..Len(tree[stack[i].dir]) :
                               stack[i].next = k + 1 /\ IsPrefix(Entry(i, k), p)
<1>1. PICK m : m = Len(tree[stack[i].dir])
  OBVIOUS
<1>2. stack[i].next \in Nat /\ stack[i].next >= 1 /\ stack[i].next <= m + 1 /\ m \in Nat
  BY <1>1, FrameFacts
<1>3. ASSUME Through(i, p)
      PROVE  \E k \in 1..m : stack[i].next = k + 1 /\ IsPrefix(Entry(i, k), p)
  <2>1. PICK k : k = stack[i].next - 1
    OBVIOUS
  <2>2. IsPrefix(Entry(i, k), p) /\ stack[i].next > 1
    BY <1>3, <2>1 DEF Through
  <2> QED
    BY <1>2, <2>1, <2>2
<1>4. ASSUME NEW k \in 1..m, stack[i].next = k + 1, IsPrefix(Entry(i, k), p)
      PROVE  Through(i, p)
  <2>1. k = stack[i].next - 1 /\ stack[i].next > 1
    BY <1>2, <1>4
  <2> QED
    BY <1>4, <2>1 DEF Through
<1> QED
  BY <1>1, <1>3, <1>4

\* What it has gone into for a path, it has for all that is below that.
LEMMA ThroughDeeper ==
    ASSUME TypeOK, NEW i \in 1..Len(stack), NEW p \in Strings, NEW q \in Strings,
           Through(i, p), IsPrefix(p, q)
    PROVE  Through(i, q)
<1>1. PICK k \in 1..Len(tree[stack[i].dir]) : stack[i].next = k + 1 /\ IsPrefix(Entry(i, k), p)
  BY ThroughEntry
<1>2. Entry(i, k) \in Strings
  BY EntryFacts
<1>3. IsPrefix(Entry(i, k), q)
  BY <1>1, <1>2, PrefixTransitive
<1> QED
  BY <1>1, <1>3, ThroughEntry

\* A path that an open call has gone into is not ahead of that call.
LEMMA NotAheadThrough ==
    ASSUME TypeOK, NEW i \in 1..Len(stack), NEW p \in Strings, Through(i, p),
           NEW j \in stack[i].next..Len(tree[stack[i].dir])
    PROVE  ~IsPrefix(Entry(i, j), p)
<1>1. /\ stack[i].next \in Nat /\ stack[i].next > 1
      /\ stack[i].next <= Len(tree[stack[i].dir]) + 1 /\ Len(tree[stack[i].dir]) \in Nat
      /\ IsPrefix(Entry(i, stack[i].next - 1), p)
  BY FrameFacts DEF Through
<1>2. /\ stack[i].next - 1 \in 1..Len(tree[stack[i].dir])
      /\ j \in 1..Len(tree[stack[i].dir]) /\ j # stack[i].next - 1
  BY <1>1
<1> QED
  BY <1>1, <1>2, SameEntry

\* The innermost open call.
LEMMA TopFacts ==
    ASSUME TypeOK, Chain, pc = "read"
    PROVE  /\ Len(stack) \in Nat /\ Len(stack) >= 1 /\ Top = stack[Len(stack)]
           /\ Len(stack) \in 1..Len(stack)
           /\ Top.dir \in Dirs /\ Top.dir \in Strings /\ Len(Top.dir) = Len(stack) - 1
           /\ Top.next \in Nat /\ Top.next >= 1
           /\ Names = tree[Top.dir] /\ Len(Names) \in Nat
<1>1. /\ Len(stack) \in Nat /\ Len(stack) >= 1 /\ Top = stack[Len(stack)]
      /\ Len(stack) \in 1..Len(stack) /\ Len(stack) \in DOMAIN stack
  BY FrameFacts DEF Chain, Top, Last
<1> QED
  BY <1>1, FrameFacts DEF Chain, Names

LEMMA PathIsEntry ==
    ASSUME TypeOK, Chain, Reading
    PROVE  /\ Top.next \in 1..Len(tree[Top.dir]) /\ Path = Entry(Len(stack), Top.next)
           /\ Path \in Paths /\ Path # <<>> /\ Path \in Strings
           /\ Front(Path) = Top.dir /\ Len(Path) = Len(stack) /\ IsStrictPrefix(Top.dir, Path)
           /\ Path = Child(Top.dir, tree[Top.dir][Top.next]) /\ tree[Top.dir][Top.next] \in Entries
<1>1. Top.next \in 1..Len(tree[Top.dir])
  BY TopFacts DEF Reading
<1>2. Path = Entry(Len(stack), Top.next)
  BY TopFacts DEF Reading, Path, Entry, Names
<1>3. /\ Path \in Paths /\ Path # <<>> /\ Path \in Strings
      /\ Front(Path) = Top.dir /\ Len(Path) = Len(stack)
      /\ Path = Child(Top.dir, tree[Top.dir][Top.next]) /\ tree[Top.dir][Top.next] \in Entries
  BY <1>1, <1>2, TopFacts, EntryFacts DEF Reading
<1>4. IsPrefix(Top.dir, Path)
  BY <1>3, TopFacts, ChildFacts DEF Reading
<1>5. IsStrictPrefix(Top.dir, Path)
  BY <1>3, <1>4, TopFacts, StrictIsShorter DEF Reading
<1> QED
  BY <1>1, <1>2, <1>3, <1>5

-----------------------------------------------------------------------------
\* The three ways the open calls change.
LEMMA Advances ==
    ASSUME TypeOK, Chain, Reading, stack' = Advanced, tree' = tree
    PROVE  /\ stack' \in Seq(Frames)
           /\ Len(stack') = Len(stack) /\ DOMAIN stack' = 1..Len(stack)
           /\ \A i \in 1..Len(stack) :
                /\ stack'[i].dir = stack[i].dir
                /\ i # Len(stack) => stack'[i].next = stack[i].next
                /\ i = Len(stack) => stack'[i].next = stack[i].next + 1
                /\ \A j : Entry(i, j)' = Entry(i, j)
           /\ stack' # <<>>
<1>1. pc = "read" /\ stack \in Seq(Frames)
  BY DEF Reading, TypeOK
<1>2. PICK n \in 1..Len(stack) : n = Len(stack)
  BY <1>1, TopFacts
<1>3. PICK f \in Frames :
        /\ f = [stack[n] EXCEPT !.next = @ + 1]
        /\ f.dir = stack[n].dir /\ f.next = stack[n].next + 1
  <2>1. PICK g \in Frames : g = stack[n]
    BY <1>1
  <2>2. g = [dir |-> g.dir, next |-> g.next] /\ g.dir \in Dirs /\ g.next \in Nat \ {0}
    BY DEF Frames
  <2>3. [g EXCEPT !.next = @ + 1] = [dir |-> g.dir, next |-> g.next + 1]
    BY <2>2
  <2>4. [dir |-> g.dir, next |-> g.next + 1] \in Frames
    BY <2>2 DEF Frames
  <2> QED
    BY <2>1, <2>3, <2>4
<1>4. Advanced = [stack EXCEPT ![n] = f]
  BY <1>2, <1>3 DEF Advanced
<1>5. /\ stack' \in Seq(Frames) /\ Len(stack') = Len(stack) /\ DOMAIN stack' = 1..Len(stack)
      /\ \A i \in 1..Len(stack) : stack'[i] = IF i = n THEN f ELSE stack[i]
  BY <1>1, <1>4
<1>6. \A i \in 1..Len(stack) :
        /\ stack'[i].dir = stack[i].dir
        /\ i # Len(stack) => stack'[i].next = stack[i].next
        /\ i = Len(stack) => stack'[i].next = stack[i].next + 1
  BY <1>2, <1>3, <1>5
<1>7. stack' # <<>>
  <2>1. Len(stack') # 0
    BY <1>1, <1>2, <1>5, TopFacts
  <2> QED
    BY <2>1
<1> QED
  BY <1>5, <1>6, <1>7 DEF Entry

LEMMA Pushes ==
    ASSUME TypeOK, tree' = tree, stack' = Append(stack, [dir |-> entering, next |-> 1]),
           NEW n \in Nat, n = Len(stack) + 1
    PROVE  /\ stack' \in Seq(Frames)
           /\ Len(stack') = n /\ DOMAIN stack' = 1..n
           /\ \A i \in 1..Len(stack) : stack'[i] = stack[i] /\ \A j : Entry(i, j)' = Entry(i, j)
           /\ stack'[n].dir = entering /\ stack'[n].next = 1
           /\ \A j : Entry(n, j)' = Child(entering, tree[entering][j])
           /\ stack' # <<>>
<1>1. stack \in Seq(Frames) /\ entering \in Dirs /\ Len(stack) \in Nat
  BY DEF TypeOK
<1>2. PICK f \in Frames : f = [dir |-> entering, next |-> 1] /\ f.dir = entering /\ f.next = 1
  BY <1>1 DEF Frames
<1>3. stack' = Append(stack, f)
  BY <1>2
<1>4. /\ stack' \in Seq(Frames) /\ Len(stack') = n /\ DOMAIN stack' = 1..n
      /\ \A i \in 1..Len(stack) : stack'[i] = stack[i]
      /\ stack'[n] = f
  BY <1>1, <1>3
<1>5. stack' # <<>>
  BY <1>1, <1>4
<1> QED
  BY <1>2, <1>4, <1>5 DEF Entry, Child

LEMMA FrontOfFrames ==
    ASSUME NEW s \in Seq(Frames), Len(s) >= 1
    PROVE  /\ Front(s) \in Seq(Frames) /\ Len(Front(s)) = Len(s) - 1
           /\ \A i \in 1..(Len(s) - 1) : Front(s)[i] = s[i]
<1>0. Len(s) - 1 \in Nat /\ Len(s) - 1 <= Len(s)
  OBVIOUS
<1>1. PICK n \in Nat : n = Len(s) - 1 /\ n <= Len(s)
  BY <1>0
<1>2. /\ SubSeq(s, 1, n) \in Seq(Frames) /\ Len(SubSeq(s, 1, n)) = n
      /\ \A i \in 1..n : SubSeq(s, 1, n)[i] = s[i]
  BY <1>1
<1>3. Front(s) = SubSeq(s, 1, n)
  BY <1>1 DEF Front
<1> QED
  BY <1>1, <1>2, <1>3

LEMMA Pops ==
    ASSUME TypeOK, Chain, pc = "read", stack' = Front(stack), tree' = tree
    PROVE  /\ stack' \in Seq(Frames)
           /\ Len(stack') = Len(stack) - 1 /\ DOMAIN stack' = 1..(Len(stack) - 1)
           /\ \A i \in 1..(Len(stack) - 1) :
                i \in 1..Len(stack) /\ stack'[i] = stack[i] /\ \A j : Entry(i, j)' = Entry(i, j)
<1>1. stack \in Seq(Frames) /\ Len(stack) \in Nat /\ Len(stack) >= 1
  BY TopFacts DEF TypeOK
<1>2. /\ stack' \in Seq(Frames)
      /\ Len(stack') = Len(stack) - 1 /\ DOMAIN stack' = 1..(Len(stack) - 1)
      /\ \A i \in 1..(Len(stack) - 1) : stack'[i] = stack[i]
  <2>2. /\ stack' \in Seq(Frames) /\ Len(stack') = Len(stack) - 1
        /\ \A i \in 1..(Len(stack) - 1) : stack'[i] = stack[i]
    BY <1>1, FrontOfFrames
  <2> QED
    BY <2>2
<1>3. \A i \in 1..(Len(stack) - 1) : i \in 1..Len(stack)
  BY <1>1
<1> QED
  BY <1>2, <1>3 DEF Entry

-----------------------------------------------------------------------------
\* What is ahead while a call ends before it has opened its directory.
LEMMA AheadEnds ==
    ASSUME pc = "enter", pc' = "return", UNCHANGED <<tree, stack>>, NEW p
    PROVE  (Ahead(p)' => Ahead(p)) /\ (Ahead(p) => Ahead(p)' \/ IsStrictPrefix(entering, p))
  BY DEF Ahead, Entry

LEMMA AheadReturns ==
    ASSUME pc = "return", pc' # "enter", UNCHANGED <<tree, stack>>, NEW p
    PROVE  Ahead(p)' <=> Ahead(p)
  BY DEF Ahead, Entry

\* While a call opens its directory.
LEMMA AheadOpen ==
    ASSUME TypeOK, Open, NEW p \in Paths
    PROVE  Ahead(p)' <=> Ahead(p)
<1>1. /\ pc = "enter" /\ pc' = "read" /\ tree' = tree /\ entering \in Dirs /\ tree \in Trees
      /\ stack' = Append(stack, [dir |-> entering, next |-> 1])
      /\ entering \in Strings /\ p \in Strings
  BY DirFacts, PathFacts DEF Open, inputs, TypeOK
<1>2. PICK n \in Nat : n = Len(stack) + 1 /\ Len(stack) \in Nat
  BY FrameFacts
<1>3. /\ DOMAIN stack' = 1..n
      /\ \A i \in 1..Len(stack) : stack'[i] = stack[i] /\ \A j : Entry(i, j)' = Entry(i, j)
      /\ stack'[n].dir = entering /\ stack'[n].next = 1
      /\ \A j : Entry(n, j)' = Child(entering, tree[entering][j])
  BY <1>1, <1>2, Pushes
<1>4. DOMAIN stack = 1..Len(stack) /\ \A i \in 1..Len(stack) : i \in 1..n
  BY <1>2, FrameFacts
<1>5. ASSUME Ahead(p)'
      PROVE  Ahead(p)
  <2>1. PICK i \in 1..n : \E j \in stack'[i].next..Len(tree[stack'[i].dir]) :
           IsPrefix(Entry(i, j)', p)
    BY <1>1, <1>3, <1>5 DEF Ahead
  <2>2. PICK j \in stack'[i].next..Len(tree[stack'[i].dir]) : IsPrefix(Entry(i, j)', p)
    BY <2>1
  <2>3. CASE i \in 1..Len(stack)
    BY <1>3, <1>4, <2>2, <2>3 DEF Ahead
  <2>4. CASE i = n
    <3>1. PICK c \in Strings :
            /\ c = Child(entering, tree[entering][j])
            /\ Len(c) = Len(entering) + 1 /\ IsPrefix(entering, c) /\ Len(entering) \in Nat
      BY <1>1, <1>3, <2>2, <2>4, ListingFacts, ChildFacts
    <3>2. IsPrefix(c, p)
      BY <1>3, <2>2, <2>4, <3>1
    <3>3. IsPrefix(entering, p)
      BY <1>1, <3>1, <3>2, PrefixTransitive
    <3>4. Len(c) <= Len(p)
      BY <1>1, <3>2, PrefixAt
    <3>5. IsStrictPrefix(entering, p)
      BY <1>1, <3>1, <3>3, <3>4, StrictIsShorter, PathFacts
    <3> QED
      BY <1>1, <3>5 DEF Ahead
  <2> QED
    BY <1>2, <2>3, <2>4
<1>6. ASSUME Ahead(p)
      PROVE  Ahead(p)'
  <2>1. CASE \E i \in DOMAIN stack : \E j \in stack[i].next..Len(tree[stack[i].dir]) :
                IsPrefix(Entry(i, j), p)
    <3>1. PICK i \in 1..Len(stack) : \E j \in stack[i].next..Len(tree[stack[i].dir]) :
                IsPrefix(Entry(i, j), p)
      BY <1>4, <2>1
    <3> QED
      BY <1>1, <1>3, <1>4, <3>1 DEF Ahead
  <2>2. CASE IsStrictPrefix(entering, p)
    <3>1. PICK j \in 1..Len(tree[entering]) : IsPrefix(Child(entering, tree[entering][j]), p)
      BY <1>1, <2>2, Descend
    <3>2. n \in DOMAIN stack' /\ stack'[n].next = 1 /\ tree'[stack'[n].dir] = tree[entering]
      BY <1>1, <1>2, <1>3
    <3>3. IsPrefix(Entry(n, j)', p)
      BY <1>3, <3>1
    <3> QED
      BY <3>1, <3>2, <3>3 DEF Ahead
  <2> QED
    BY <1>6, <2>1, <2>2 DEF Ahead
<1> QED
  BY <1>5, <1>6

\* While the loop comes to an entry.
LEMMA AheadVisit ==
    ASSUME TypeOK, Chain, VisitFile \/ VisitDir, NEW c, c = Path
    PROVE  /\ Ahead(c) /\ ~Ahead(c)'
           /\ \A p \in Strings : Ahead(p)' => Ahead(p)
           /\ \A p \in Paths : Ahead(p) => Ahead(p)' \/ p = c
<1>1. /\ Reading /\ pc = "read" /\ tree' = tree /\ stack' = Advanced
      /\ pc' = "read" \/ (pc' = "enter" /\ entering' = c)
      /\ c \in Files \/ (pc' = "enter" /\ entering' = c)
  BY DEF VisitFile, VisitDir, inputs, Reading
<1>2. PICK n \in Nat : n = Len(stack) /\ n \in 1..Len(stack) /\ stack[n] = Top
  BY <1>1, TopFacts
<1>3. PICK k \in Nat : k = Top.next /\ k \in 1..Len(tree[Top.dir])
  BY <1>1, TopFacts, PathIsEntry
<1>4. /\ c = Entry(n, k) /\ c \in Paths /\ c \in Strings /\ Len(c) = n
  BY <1>1, <1>2, <1>3, PathIsEntry
<1>5. DOMAIN stack = 1..n /\ DOMAIN stack' = 1..n
  BY <1>1, <1>2, FrameFacts, Advances
<1>6. ASSUME NEW i \in 1..n
      PROVE  /\ stack'[i].dir = stack[i].dir /\ i \in 1..Len(stack)
             /\ i # n => stack'[i].next = stack[i].next
             /\ i = n => stack[i].next = k /\ stack'[i].next = k + 1
             /\ stack[i].next \in Nat /\ stack[i].next >= 1 /\ Len(tree[stack[i].dir]) \in Nat
             /\ \A j : Entry(i, j)' = Entry(i, j)
  BY <1>1, <1>2, <1>3, Advances, FrameFacts
<1>7. Ahead(c)
  <2>1. IsPrefix(Entry(n, k), c)
    BY <1>4, PrefixAt
  <2>2. k \in stack[n].next..Len(tree[stack[n].dir])
    BY <1>2, <1>3
  <2> QED
    BY <1>2, <1>5, <2>1, <2>2 DEF Ahead
<1>8. ~Ahead(c)'
  <2>1. SUFFICES ASSUME NEW i \in 1..n,
                        NEW j \in stack'[i].next..Len(tree[stack'[i].dir]),
                        IsPrefix(Entry(i, j)', c)
                 PROVE  FALSE
    BY <1>1, <1>5 DEF Ahead, IsStrictPrefix
  <2>2. IsPrefix(Entry(i, j), c)
    BY <1>6, <2>1
  <2>3. CASE i = n
    <3>1. j \in 1..Len(tree[stack[n].dir]) /\ j # k /\ k \in 1..Len(tree[stack[n].dir])
      BY <1>2, <1>3, <1>6, <2>1, <2>3
    <3>2. IsPrefix(Entry(n, k), c)
      BY <1>4, PrefixAt
    <3> QED
      BY <1>2, <1>4, <2>2, <2>3, <3>1, <3>2, SameEntry
  <2>4. CASE i # n
    <3>1. i \in DOMAIN stack /\ n \in DOMAIN stack /\ i < n
      BY <1>2, <1>5, <2>4
    <3>2. Through(i, stack[n].dir)
      BY <3>1 DEF Chain
    <3>3. IsPrefix(stack[n].dir, c) /\ stack[n].dir \in Strings
      BY <1>1, <1>2, <1>4, PathIsEntry, TopFacts DEF IsStrictPrefix
    <3>7. Through(i, c)
      BY <1>4, <1>6, <3>2, <3>3, ThroughDeeper
    <3>8. j \in stack[i].next..Len(tree[stack[i].dir])
      BY <1>6, <2>1, <2>4
    <3> QED
      BY <1>4, <1>6, <2>2, <3>7, <3>8, NotAheadThrough
  <2> QED
    BY <2>3, <2>4
<1>9. ASSUME NEW p \in Strings, Ahead(p)'
      PROVE  Ahead(p)
  <2>1. CASE \E i \in DOMAIN stack' : \E j \in stack'[i].next..Len(tree'[stack'[i].dir]) :
               IsPrefix(Entry(i, j)', p)
    <3>0. PICK i \in 1..n : \E j \in stack'[i].next..Len(tree[stack'[i].dir]) :
               IsPrefix(Entry(i, j)', p)
      BY <1>1, <1>5, <2>1
    <3>1. PICK j \in stack'[i].next..Len(tree[stack'[i].dir]) : IsPrefix(Entry(i, j)', p)
      BY <3>0
    <3>2. j \in stack[i].next..Len(tree[stack[i].dir]) /\ IsPrefix(Entry(i, j), p)
      BY <1>6, <3>1
    <3> QED
      BY <1>5, <3>2 DEF Ahead
  <2>2. CASE pc' = "enter" /\ IsStrictPrefix(c, p)
    <3>1. IsPrefix(Entry(n, k), p)
      BY <1>4, <2>2 DEF IsStrictPrefix
    <3>2. k \in stack[n].next..Len(tree[stack[n].dir])
      BY <1>2, <1>3
    <3> QED
      BY <1>2, <1>5, <3>1, <3>2 DEF Ahead
  <2> QED
    BY <1>1, <1>9, <2>1, <2>2 DEF Ahead
<1>10. ASSUME NEW p \in Paths, Ahead(p), p # c
       PROVE  Ahead(p)'
  <2>0. PICK i \in 1..n : \E j \in stack[i].next..Len(tree[stack[i].dir]) : IsPrefix(Entry(i, j), p)
    BY <1>1, <1>5, <1>10 DEF Ahead
  <2>1. PICK j \in stack[i].next..Len(tree[stack[i].dir]) : IsPrefix(Entry(i, j), p)
    BY <2>0
  <2>2. CASE j \in stack'[i].next..Len(tree[stack'[i].dir])
    BY <1>1, <1>5, <1>6, <2>1, <2>2 DEF Ahead
  <2>3. CASE j \notin stack'[i].next..Len(tree[stack'[i].dir])
    <3>1. i = n /\ j = k
      BY <1>6, <2>1, <2>3
    <3>2. IsPrefix(c, p) /\ c # p
      BY <1>4, <1>10, <2>1, <3>1
    <3>3. c \in Dirs
      BY <1>4, <3>2, PrefixIsDir
    <3>4. pc' = "enter" /\ entering' = c
      BY <1>1, <3>3, DirFacts
    <3> QED
      BY <3>2, <3>4 DEF Ahead, IsStrictPrefix
  <2> QED
    BY <2>2, <2>3
<1> QED
  BY <1>7, <1>8, <1>9, <1>10

\* While a call leaves its loop.
LEMMA AheadClose ==
    ASSUME TypeOK, Chain, pc = "read", Close, NEW d, d = Top.dir
    PROVE  /\ ~Ahead(d)'
           /\ \A p \in Strings : Ahead(p)' => Ahead(p)
           /\ \A p \in Paths : Ahead(p) => Ahead(p)' \/ (Reading /\ IsStrictPrefix(d, p))
<1>1. tree' = tree /\ stack' = Front(stack) /\ pc' = "return"
  BY DEF Close, inputs
<1>2. PICK n \in Nat :
        n = Len(stack) /\ n \in 1..Len(stack) /\ stack[n] = Top /\ d \in Dirs /\ d \in Strings
  BY TopFacts
<1>3. /\ DOMAIN stack = 1..n /\ DOMAIN stack' = 1..(n - 1)
      /\ \A i \in 1..(n - 1) : /\ i \in 1..n /\ stack'[i] = stack[i]
                               /\ \A j : Entry(i, j)' = Entry(i, j)
  BY <1>1, <1>2, FrameFacts, Pops
<1>4. ~Ahead(d)'
  <2>1. SUFFICES ASSUME NEW i \in 1..(n - 1),
                        NEW j \in stack'[i].next..Len(tree[stack'[i].dir]),
                        IsPrefix(Entry(i, j)', d)
                 PROVE  FALSE
    BY <1>1, <1>3 DEF Ahead
  <2>2. i \in DOMAIN stack /\ n \in DOMAIN stack /\ i < n
    BY <1>2, <1>3
  <2>3. Through(i, d)
    BY <1>2, <2>2 DEF Chain
  <2>4. j \in stack[i].next..Len(tree[stack[i].dir]) /\ IsPrefix(Entry(i, j), d)
    BY <1>3, <2>1
  <2> QED
    BY <1>2, <1>3, <2>3, <2>4, NotAheadThrough
<1>5. ASSUME NEW p \in Strings, Ahead(p)'
      PROVE  Ahead(p)
  <2>0. PICK i \in 1..(n - 1) : \E j \in stack'[i].next..Len(tree[stack'[i].dir]) :
             IsPrefix(Entry(i, j)', p)
    BY <1>1, <1>3, <1>5 DEF Ahead
  <2>1. PICK j \in stack'[i].next..Len(tree[stack'[i].dir]) : IsPrefix(Entry(i, j)', p)
    BY <2>0
  <2>2. /\ i \in DOMAIN stack /\ j \in stack[i].next..Len(tree[stack[i].dir])
        /\ IsPrefix(Entry(i, j), p)
    BY <1>3, <2>1
  <2> QED
    BY <2>2 DEF Ahead
<1>6. ASSUME NEW p \in Paths, Ahead(p)
      PROVE  Ahead(p)' \/ (Reading /\ IsStrictPrefix(d, p))
  <2>0. PICK i \in 1..n : \E j \in stack[i].next..Len(tree[stack[i].dir]) : IsPrefix(Entry(i, j), p)
    BY <1>3, <1>6 DEF Ahead
  <2>1. PICK j \in stack[i].next..Len(tree[stack[i].dir]) : IsPrefix(Entry(i, j), p)
    BY <2>0
  <2>2. CASE i # n
    <3>1. i \in 1..(n - 1)
      BY <1>2, <2>2
    <3> QED
      BY <1>1, <1>3, <2>1, <3>1 DEF Ahead
  <2>3. CASE i = n
    <3>1. /\ Top.next \in Nat /\ Top.next >= 1 /\ Len(Names) \in Nat
          /\ j \in Top.next..Len(Names) /\ Names = tree[d]
      BY <1>2, <2>1, <2>3, TopFacts
    <3>2. Reading
      BY <3>1 DEF Reading
    <3>3. PICK c \in Strings : /\ c = Child(d, tree[d][j]) /\ IsPrefix(d, c)
                               /\ Len(c) = Len(d) + 1 /\ Len(d) \in Nat
      <4>1. j \in 1..Len(tree[d]) /\ tree \in Trees
        BY <3>1 DEF TypeOK
      <4>2. tree[d][j] \in Entries
        BY <1>2, <4>1, ListingFacts
      <4> QED
        BY <1>2, <4>2, ChildFacts
    <3>4. IsPrefix(c, p)
      BY <1>2, <2>1, <2>3, <3>3 DEF Entry, Child
    <3>5. p \in Strings /\ Len(p) \in Nat
      BY PathFacts
    <3>6. IsPrefix(d, p) /\ Len(c) <= Len(p)
      BY <1>2, <3>3, <3>4, <3>5, PrefixTransitive, PrefixAt
    <3> QED
      BY <1>2, <3>2, <3>3, <3>5, <3>6, StrictIsShorter
  <2> QED
    BY <2>2, <2>3
<1> QED
  BY <1>4, <1>5, <1>6

-----------------------------------------------------------------------------
\* The history of the callbacks with one more.
LEMMA CallsGrow ==
    ASSUME TypeOK, NEW c \in Paths, calls' = Append(calls, c)
    PROVE  calls' \in Seq(Paths) /\ ToSet(calls') = ToSet(calls) \cup {c}
<1>1. calls \in Seq(Paths)
  BY DEF TypeOK
<1>2. /\ calls' \in Seq(Paths) /\ DOMAIN calls' = 1..(Len(calls) + 1) /\ DOMAIN calls = 1..Len(calls)
      /\ \A i \in 1..Len(calls) : calls'[i] = calls[i]
      /\ calls'[Len(calls) + 1] = c /\ Len(calls) \in Nat
  BY <1>1
<1> QED
  BY <1>2 DEF ToSet

LEMMA CallsArePaths ==
    ASSUME TypeOK
    PROVE  ToSet(calls) \subseteq Paths
  BY DEF TypeOK, ToSet

\* The types.
LEMMA TypeStep ==
    ASSUME TypeOK, Chain, [Next]_vars
    PROVE  TypeOK'
<1>1. CASE BreakAsked \/ OutOfBudget \/ AfterError \/ OpenFails
  <2>1. UNCHANGED <<tree, caller, limit, stack, entering, userBreak, calls, unread, closed>>
        /\ pc' = "return"
    BY <1>1 DEF BreakAsked, OutOfBudget, AfterError, OpenFails, Back, inputs
  <2>2. error' \in Errors /\ last' \subseteq Dirs
    BY <1>1 DEF BreakAsked, OutOfBudget, AfterError, OpenFails, Errors, TypeOK
  <2>3. budget' \in 0..limit
    BY <1>1, TreeAssumption DEF BreakAsked, OutOfBudget, AfterError, OpenFails, TypeOK
  <2> QED
    BY <2>1, <2>2, <2>3 DEF TypeOK
<1>2. CASE Open
  <2>1. PICK n \in Nat : n = Len(stack) + 1 /\ Len(stack) \in Nat
    BY FrameFacts
  <2>2. /\ stack' \in Seq(Frames) /\ DOMAIN stack' = 1..n
        /\ \A i \in 1..Len(stack) : stack'[i] = stack[i]
        /\ stack'[n].dir = entering /\ stack'[n].next = 1 /\ tree' = tree
    BY <1>2, <2>1, Pushes DEF Open, inputs
  <2>3. Len(tree[entering]) \in Nat
    BY ListingFacts DEF TypeOK
  <2>4. ASSUME NEW i \in 1..n
        PROVE  stack'[i].next <= Len(tree[stack'[i].dir]) + 1
    <3>1. CASE i = n
      BY <2>2, <2>3, <3>1
    <3>2. CASE i # n
      <4>1. i \in 1..Len(stack)
        BY <2>1, <3>2
      <4> QED
        BY <2>2, <4>1, FrameFacts
    <3> QED
      BY <3>1, <3>2
  <2>5. budget' \in 0..limit
    BY <1>2, TreeAssumption DEF Open, TypeOK
  <2> QED
    BY <1>2, <2>2, <2>4, <2>5 DEF Open, inputs, TypeOK
<1>3. CASE VisitFile \/ VisitDir
  <2>1. /\ Reading /\ stack' = Advanced /\ calls' = Append(calls, Path) /\ pc = "read"
        /\ UNCHANGED <<tree, caller, limit, budget, error, unread, closed, last>>
    BY <1>3 DEF VisitFile, VisitDir, inputs, Reading
  <2>2. /\ stack' \in Seq(Frames) /\ DOMAIN stack' = 1..Len(stack)
        /\ \A i \in 1..Len(stack) :
             /\ stack'[i].dir = stack[i].dir
             /\ i # Len(stack) => stack'[i].next = stack[i].next
             /\ i = Len(stack) => stack'[i].next = stack[i].next + 1
    BY <2>1, Advances
  <2>3. Len(stack) \in Nat /\ Top = stack[Len(stack)] /\ Top.next \in 1..Len(tree[Top.dir])
    BY <2>1, TopFacts, PathIsEntry
  <2>4. ASSUME NEW i \in 1..Len(stack)
        PROVE  stack'[i].next <= Len(tree[stack'[i].dir]) + 1
    <3>1. CASE i # Len(stack)
      BY <2>2, <3>1, FrameFacts
    <3>2. CASE i = Len(stack)
      <4>1. PICK m : m = Len(tree[stack[i].dir])
        OBVIOUS
      <4>2. stack[i].next \in 1..m /\ m \in Nat
        BY <2>3, <3>2, <4>1, FrameFacts
      <4> QED
        BY <2>2, <3>2, <4>1, <4>2
    <3> QED
      BY <3>1, <3>2
  <2>5. calls' \in Seq(Paths)
    BY <2>1, PathIsEntry, CallsGrow
  <2>6. entering' \in Dirs /\ userBreak' \in BOOLEAN /\ pc' \in {"enter", "read"}
    BY <1>3 DEF VisitFile, VisitDir, Reading, TypeOK
  <2> QED
    BY <2>1, <2>2, <2>4, <2>5, <2>6 DEF TypeOK
<1>4. CASE EntryFails \/ ReadFails \/ LeaveDir
  <2>1. /\ pc = "read" /\ stack' = Front(stack) /\ pc' = "return"
        /\ UNCHANGED <<tree, caller, limit, entering, budget, userBreak, calls>>
    BY <1>4 DEF EntryFails, ReadFails, LeaveDir, Close, Reading, inputs
  <2>2. /\ stack' \in Seq(Frames) /\ DOMAIN stack' = 1..(Len(stack) - 1)
        /\ \A i \in 1..(Len(stack) - 1) : i \in 1..Len(stack) /\ stack'[i] = stack[i]
    BY <2>1, Pops
  <2>3. \A i \in 1..(Len(stack) - 1) : stack'[i].next <= Len(tree[stack'[i].dir]) + 1
    BY <2>2, FrameFacts
  <2>4. Top.dir \in Dirs
    BY <2>1, TopFacts
  <2>5. error' \in Errors /\ last' \subseteq Dirs /\ unread' \subseteq Dirs /\ closed' \subseteq Dirs
    BY <1>4, <2>4 DEF EntryFails, ReadFails, LeaveDir, Close, Errors, TypeOK
  <2> QED
    BY <2>1, <2>2, <2>3, <2>5 DEF TypeOK
<1>5. CASE Return
  BY <1>5 DEF Return, inputs, TypeOK
<1>6. CASE UNCHANGED vars
  BY <1>6 DEF vars, inputs, TypeOK
<1> QED
  BY <1>1, <1>2, <1>3, <1>4, <1>5, <1>6 DEF Next, Enter, Read

-----------------------------------------------------------------------------
\* An open call that has not gone on is where it was.
LEMMA ThroughKept ==
    ASSUME NEW i, NEW p, Through(i, p), tree' = tree,
           stack'[i].dir = stack[i].dir, stack'[i].next = stack[i].next
    PROVE  Through(i, p)'
  BY DEF Through, Entry

\* A path that an open call has gone into is strictly below its directory.
LEMMA ThroughStrict ==
    ASSUME TypeOK, NEW i \in 1..Len(stack), NEW p \in Strings, Through(i, p)
    PROVE  IsStrictPrefix(stack[i].dir, p)
<1>1. PICK k \in 1..Len(tree[stack[i].dir]) : IsPrefix(Entry(i, k), p)
  BY ThroughEntry
<1>2. PICK c \in Strings : /\ c = Entry(i, k) /\ IsPrefix(stack[i].dir, c)
                           /\ Len(c) = Len(stack[i].dir) + 1 /\ stack[i].dir \in Strings
                           /\ Len(stack[i].dir) \in Nat
  <2>1. PICK x \in Entries : Entry(i, k) = Child(stack[i].dir, x)
    BY EntryFacts
  <2>2. stack[i].dir \in Strings /\ Len(stack[i].dir) \in Nat
    BY FrameFacts
  <2> QED
    BY <2>1, <2>2, ChildFacts
<1>3. IsPrefix(stack[i].dir, p) /\ Len(c) <= Len(p) /\ Len(p) \in Nat
  BY <1>1, <1>2, PrefixTransitive, PrefixAt DEF Strings
<1> QED
  BY <1>1, <1>2, <1>3, StrictIsShorter

\* What the open calls have gone through for the innermost one, they have for its entries.
LEMMA ThroughPath ==
    ASSUME TypeOK, Chain, Reading, NEW i \in 1..Len(stack), i # Len(stack)
    PROVE  Through(i, Path)
<1>1. /\ pc = "read" /\ i < Len(stack) /\ Len(stack) \in 1..Len(stack)
      /\ Top = stack[Len(stack)] /\ Top.dir \in Strings
      /\ Path \in Strings /\ IsPrefix(Top.dir, Path)
  BY TopFacts, PathIsEntry DEF Reading, IsStrictPrefix
<1>2. i \in DOMAIN stack /\ Len(stack) \in DOMAIN stack
  BY <1>1, FrameFacts
<1>3. Through(i, Top.dir)
  BY <1>1, <1>2 DEF Chain
<1> QED
  BY <1>1, <1>3, ThroughDeeper

\* The open calls are those of the directories above the innermost one.
LEMMA ChainStep ==
    ASSUME TypeOK, Chain, [Next]_vars
    PROVE  Chain'
<1>0. Len(stack) \in Nat /\ DOMAIN stack = 1..Len(stack) /\ (stack = <<>> <=> Len(stack) = 0)
  BY FrameFacts
<1>1. CASE BreakAsked \/ OutOfBudget \/ AfterError \/ OpenFails \/ Return \/ UNCHANGED vars
  <2>1. UNCHANGED <<tree, stack, entering>> /\ (pc' = "read" => stack # <<>>)
        /\ (pc' = "enter" => pc = "enter") /\ (pc' = "end" => stack = <<>>)
    BY <1>1 DEF BreakAsked, OutOfBudget, AfterError, OpenFails, Back, Return, inputs, vars, Chain
  <2> QED
    BY <2>1 DEF Chain, Through, Entry
<1>2. CASE Open
  <2>1. PICK n \in Nat : n = Len(stack) + 1
    BY <1>0
  <2>2. /\ Len(stack') = n /\ DOMAIN stack' = 1..n /\ stack' # <<>> /\ tree' = tree
        /\ \A i \in 1..Len(stack) : stack'[i] = stack[i]
        /\ stack'[n].dir = entering /\ stack'[n].next = 1 /\ pc' = "read" /\ pc = "enter"
    BY <1>2, <2>1, Pushes DEF Open, inputs
  <2>3. \A i \in 1..n : Len(stack'[i].dir) = i - 1
    BY <1>0, <2>1, <2>2 DEF Chain
  <2>4. ASSUME NEW i \in 1..n, NEW j \in 1..n, i < j, NEW d, d = stack'[j].dir
        PROVE  Through(i, d)'
    <3>1. i \in 1..Len(stack) /\ stack'[i] = stack[i] /\ (j \in 1..Len(stack) \/ j = n)
      BY <1>0, <2>1, <2>2, <2>4
    <3>2. CASE j = n
      BY <1>0, <2>2, <2>4, <3>1, <3>2, ThroughKept DEF Chain
    <3>3. CASE j \in 1..Len(stack)
      BY <1>0, <2>2, <2>4, <3>1, <3>3, ThroughKept DEF Chain
    <3> QED
      BY <3>1, <3>2, <3>3
  <2>5. \A i, j \in 1..n : i < j => Through(i, stack[j].dir)'
    <3>1. SUFFICES ASSUME NEW i \in 1..n, NEW j \in 1..n, i < j
                   PROVE  Through(i, stack[j].dir)'
      OBVIOUS
    <3>2. PICK d : d = stack'[j].dir
      OBVIOUS
    <3>3. Through(i, d)'
      BY <2>4, <3>1, <3>2
    <3> QED
      BY <3>2, <3>3 DEF Through
  <2> QED
    BY <2>2, <2>3, <2>5 DEF Chain
<1>3. CASE VisitFile \/ VisitDir
  <2>1. /\ Reading /\ pc = "read" /\ pc' # "end" /\ stack' = Advanced /\ tree' = tree
        /\ pc' = "enter" => entering' = Path
    BY <1>3 DEF VisitFile, VisitDir, inputs, Reading
  <2>2. PICK n \in Nat : n = Len(stack) /\ n \in 1..n /\ stack[n] = Top
    BY <2>1, TopFacts
  <2>3. /\ Len(stack') = n /\ DOMAIN stack' = 1..n /\ stack' # <<>>
        /\ \A i \in 1..n : /\ stack'[i].dir = stack[i].dir
                           /\ i # n => stack'[i].next = stack[i].next
                           /\ i = n => stack'[i].next = stack[i].next + 1
    BY <2>1, <2>2, Advances
  <2>4. \A i \in 1..n : Len(stack'[i].dir) = i - 1
    BY <1>0, <2>2, <2>3 DEF Chain
  <2>6. \A i, j \in 1..n : i < j => Through(i, stack[j].dir)'
    <3>1. SUFFICES ASSUME NEW i \in 1..n, NEW j \in 1..n, i < j
                   PROVE  Through(i, stack[j].dir)'
      OBVIOUS
    <3>2. PICK d : d = stack'[j].dir
      OBVIOUS
    <3>3. Through(i, d) /\ i # n
      <4>1. d = stack[j].dir /\ i \in DOMAIN stack /\ j \in DOMAIN stack
        BY <1>0, <2>2, <2>3, <3>1, <3>2
      <4>2. Through(i, stack[j].dir)
        BY <3>1, <4>1 DEF Chain
      <4> QED
        BY <2>2, <3>1, <4>1, <4>2
    <3>4. Through(i, d)'
      BY <2>1, <2>3, <3>3, ThroughKept
    <3> QED
      BY <3>2, <3>4 DEF Through
  <2>7. ASSUME pc' = "enter", NEW c, c = Path
        PROVE  entering' = c /\ Len(c) = n /\ \A i \in 1..n : Through(i, c)'
    <3>1. PICK k \in Nat : k = Top.next /\ k >= 1
      BY <2>1, TopFacts
    <3>2. entering' = c /\ Len(c) = n /\ c = Entry(n, k) /\ c \in Strings
      BY <2>1, <2>2, <2>7, <3>1, PathIsEntry
    <3>3. ASSUME NEW i \in 1..n, i # n
          PROVE  Through(i, c)'
      <4>1. Through(i, c)
        BY <2>1, <2>2, <2>7, <3>3, ThroughPath DEF Through
      <4> QED
        BY <2>1, <2>3, <3>3, <4>1, ThroughKept
    <3>4. Through(n, c)'
      <4>1. stack'[n].next = k + 1 /\ stack'[n].dir = stack[n].dir
        BY <2>2, <2>3, <3>1
      <4>2. stack'[n].next > 1 /\ stack'[n].next - 1 = k
        BY <3>1, <4>1
      <4>3. IsPrefix(c, c)
        BY <3>2, PrefixAt
      <4>4. c = Append(stack'[n].dir, tree'[stack'[n].dir][k])
        BY <2>1, <3>2, <4>1 DEF Entry
      <4> QED
        BY <4>2, <4>3, <4>4 DEF Through, Entry
    <3> QED
      BY <3>2, <3>3, <3>4
  <2>8. pc' = "enter" => Len(entering') = n /\ \A i \in 1..n : Through(i, entering)'
    <3>1. SUFFICES ASSUME pc' = "enter"
                   PROVE  Len(entering') = n /\ \A i \in 1..n : Through(i, entering)'
      OBVIOUS
    <3>2. PICK c : c = Path
      OBVIOUS
    <3>3. entering' = c /\ Len(c) = n /\ \A i \in 1..n : Through(i, c)'
      BY <2>7, <3>1, <3>2
    <3> QED
      BY <3>3 DEF Through
  <2> QED
    BY <2>1, <2>3, <2>4, <2>6, <2>8 DEF Chain
<1>4. CASE EntryFails \/ ReadFails \/ LeaveDir
  <2>1. pc = "read" /\ stack' = Front(stack) /\ pc' = "return" /\ tree' = tree
    BY <1>4 DEF EntryFails, ReadFails, LeaveDir, Close, Reading, inputs
  <2>2. /\ DOMAIN stack' = 1..(Len(stack) - 1)
        /\ \A i \in 1..(Len(stack) - 1) : i \in 1..Len(stack) /\ stack'[i] = stack[i]
    BY <2>1, Pops
  <2>3. \A i, j \in 1..(Len(stack) - 1) : i < j => Through(i, stack[j].dir)'
    <3>1. SUFFICES ASSUME NEW i \in 1..(Len(stack) - 1), NEW j \in 1..(Len(stack) - 1), i < j
                   PROVE  Through(i, stack[j].dir)'
      OBVIOUS
    <3>2. PICK d : d = stack'[j].dir
      OBVIOUS
    <3>3. Through(i, d)
      BY <1>0, <2>2, <3>1, <3>2 DEF Chain
    <3>4. Through(i, d)'
      BY <2>1, <2>2, <3>3, ThroughKept
    <3> QED
      BY <3>2, <3>4 DEF Through
  <2> QED
    BY <1>0, <2>1, <2>2, <2>3 DEF Chain
<1> QED
  BY <1>1, <1>2, <1>3, <1>4 DEF Next, Enter, Read

-----------------------------------------------------------------------------
\* The directory that a call is made for is not ahead, and below all that are open.
LEMMA EnteringFacts ==
    ASSUME TypeOK, Chain, pc = "enter"
    PROVE  /\ entering \in Dirs /\ entering \in Strings /\ Len(entering) = Len(stack)
           /\ ~Ahead(entering)
           /\ \A i \in DOMAIN stack : IsStrictPrefix(stack[i].dir, entering)
<1>1. entering \in Dirs /\ entering \in Strings /\ Len(entering) = Len(stack)
      /\ DOMAIN stack = 1..Len(stack) /\ \A i \in 1..Len(stack) : Through(i, entering)
  BY FrameFacts, DirFacts DEF TypeOK, Chain
<1>2. ~IsStrictPrefix(entering, entering)
  BY DEF IsStrictPrefix
<1>3. ASSUME NEW i \in 1..Len(stack), NEW j \in stack[i].next..Len(tree[stack[i].dir])
      PROVE  ~IsPrefix(Entry(i, j), entering)
  BY <1>1, NotAheadThrough
<1>4. ~Ahead(entering)
  BY <1>1, <1>2, <1>3 DEF Ahead
<1> QED
  BY <1>1, <1>4, ThroughStrict

\* What a call that ends at once does.
LEMMA EndsAtOnce ==
    ASSUME TypeOK, Flat, Past, BreakAsked \/ OutOfBudget \/ AfterError \/ OpenFails
    PROVE  /\ pc = "enter" /\ pc' = "return"
           /\ UNCHANGED <<tree, caller, limit, stack, entering, userBreak, calls, unread, closed>>
           /\ \/ error' = error /\ last' = last
              \/ error = "ok" /\ error' # "ok" /\ last = {} /\ last' = {entering}
              \/ error # "ok" /\ error' # "ok" /\ last' = last
           /\ userBreak => error = "ok" /\ error' = "ok"
           /\ error = "ok" /\ ~userBreak => last' = {entering}
<1>1. /\ pc = "enter" /\ pc' = "return"
      /\ UNCHANGED <<tree, caller, limit, stack, entering, userBreak, calls, unread, closed>>
  BY DEF BreakAsked, OutOfBudget, AfterError, OpenFails, Back, inputs
<1>2. error = "ok" <=> last = {}
  BY DEF Past
<1>3. CASE BreakAsked
  BY <1>1, <1>3 DEF BreakAsked, Flat
<1>4. CASE OutOfBudget \/ AfterError \/ OpenFails
  BY <1>1, <1>2, <1>4 DEF OutOfBudget, AfterError, OpenFails
<1> QED
  BY <1>3, <1>4

\* What leaving the loop of a directory does.
LEMMA Closes ==
    ASSUME TypeOK, Chain, EntryFails \/ ReadFails \/ LeaveDir
    PROVE  /\ pc = "read" /\ Close /\ pc' = "return" /\ stack' = Front(stack)
           /\ UNCHANGED <<tree, caller, limit, entering, budget, userBreak, calls>>
           /\ \/ EntryFails /\ error' # "ok" /\ last' = {Top.dir} /\ unread' = unread
              \/ ReadFails /\ error' = error /\ last' = last /\ unread' = unread \cup {Top.dir}
              \/ LeaveDir /\ ~Reading /\ error' = error /\ last' = last /\ unread' = unread
<1>1. pc = "read" /\ Close
  BY DEF EntryFails, ReadFails, LeaveDir, Reading
<1>2. Top.next \in Nat /\ Len(Names) \in Nat
  BY <1>1, TopFacts
<1>3. LeaveDir => ~Reading
  BY <1>2 DEF LeaveDir, Reading
<1> QED
  BY <1>1, <1>3 DEF EntryFails, ReadFails, LeaveDir, Close, inputs

\* What coming to an entry does.
LEMMA Visits ==
    ASSUME TypeOK, Chain, VisitFile \/ VisitDir, NEW c, c = Path
    PROVE  /\ Reading /\ pc = "read" /\ stack' = Advanced /\ calls' = Append(calls, c)
           /\ c \in Paths /\ c \in Strings
           /\ calls' \in Seq(Paths) /\ ToSet(calls') = ToSet(calls) \cup {c}
           /\ UNCHANGED <<tree, caller, limit, budget, error, unread, closed, last>>
           /\ \/ c \in Files /\ pc' = "read" /\ entering' = entering /\ userBreak' = userBreak
              \/ /\ c \in Dirs /\ pc' = "enter" /\ entering' = c
                 /\ userBreak' = (userBreak \/ caller = "flat")
<1>1. /\ Reading /\ pc = "read" /\ stack' = Advanced /\ calls' = Append(calls, c)
      /\ UNCHANGED <<tree, caller, limit, budget, error, unread, closed, last>>
      /\ \/ c \in Files /\ pc' = "read" /\ entering' = entering /\ userBreak' = userBreak
         \/ /\ c \in Dirs /\ pc' = "enter" /\ entering' = c
            /\ userBreak' = (userBreak \/ caller = "flat")
  BY DEF VisitFile, VisitDir, Reading, inputs
<1>2. c \in Paths /\ c \in Strings
  BY <1>1, PathIsEntry
<1>3. calls' \in Seq(Paths) /\ ToSet(calls') = ToSet(calls) \cup {c}
  BY <1>1, <1>2, CallsGrow
<1> QED
  BY <1>1, <1>2, <1>3

-----------------------------------------------------------------------------
\* What the walk has come to is not ahead of it.
LEMMA PastStep ==
    ASSUME TypeOK, Chain, Past, Flat, [Next]_vars
    PROVE  Past'
<1>0. /\ Len(stack) \in Nat /\ DOMAIN stack = 1..Len(stack)
      /\ ToSet(calls) \subseteq Paths /\ unread \subseteq Dirs /\ last \subseteq Dirs
      /\ ToSet(calls) \cup unread \cup last \subseteq Paths /\ Paths \subseteq Strings
      /\ Dirs \subseteq Strings
  BY FrameFacts, CallsArePaths, PathFacts DEF TypeOK, Paths
<1>1. CASE BreakAsked \/ OutOfBudget \/ AfterError \/ OpenFails
  <2>1. /\ pc = "enter" /\ pc' = "return"
        /\ UNCHANGED <<tree, stack, entering, calls, unread>>
        /\ \/ error' = error /\ last' = last
           \/ error = "ok" /\ error' # "ok" /\ last = {} /\ last' = {entering}
           \/ error # "ok" /\ error' # "ok" /\ last' = last
    BY <1>1, EndsAtOnce
  <2>2. ~Ahead(entering) /\ \A i \in DOMAIN stack : IsStrictPrefix(stack[i].dir, entering)
    BY <2>1, EnteringFacts
  <2>3. \A p : Ahead(p)' => Ahead(p)
    BY <2>1, AheadEnds
  <2>4. \A p \in ToSet(calls') \cup unread' \cup last' : ~Ahead(p)'
    BY <2>1, <2>2, <2>3 DEF Past
  <2>5. \A d \in last' : \A i \in DOMAIN stack' : IsStrictPrefix(stack'[i].dir, d)
    BY <2>1, <2>2 DEF Past
  <2>6. error' = "ok" <=> last' = {}
    BY <2>1 DEF Past
  <2>7. \A u \in unread' : \A i \in DOMAIN stack' : ~IsPrefix(u, stack'[i].dir)
    BY <2>1 DEF Past
  <2> QED
    BY <2>1, <2>4, <2>5, <2>6, <2>7 DEF Past
<1>2. CASE Open
  <2>1. /\ pc = "enter" /\ pc' = "read" /\ error = "ok" /\ last = {}
        /\ UNCHANGED <<tree, entering, calls, unread, error, last>>
        /\ stack' = Append(stack, [dir |-> entering, next |-> 1])
    BY <1>2 DEF Open, inputs, Past
  <2>2. PICK n \in Nat : n = Len(stack) + 1
    BY <1>0
  <2>3. /\ DOMAIN stack' = 1..n /\ stack'[n].dir = entering
        /\ \A i \in 1..Len(stack) : stack'[i] = stack[i]
    BY <2>1, <2>2, Pushes
  <2>4. \A p \in ToSet(calls') \cup unread' \cup last' : ~Ahead(p)'
    BY <1>0, <1>2, <2>1, AheadOpen DEF Past
  <2>5. ASSUME NEW u \in unread, NEW i \in 1..n
        PROVE  ~IsPrefix(u, stack'[i].dir)
    <3>1. CASE i = n
      BY <2>1, <2>3, <3>1 DEF Past
    <3>2. CASE i \in 1..Len(stack)
      BY <1>0, <2>3, <3>2 DEF Past
    <3> QED
      BY <1>0, <2>2, <3>1, <3>2
  <2> QED
    BY <2>1, <2>3, <2>4, <2>5 DEF Past
<1>3. CASE VisitFile \/ VisitDir
  <2>1. PICK c : c = Path
    OBVIOUS
  <2>2. /\ Reading /\ pc = "read" /\ stack' = Advanced /\ c \in Paths /\ c \in Strings
        /\ ToSet(calls') = ToSet(calls) \cup {c} /\ UNCHANGED <<tree, error, unread, last>>
        /\ pc' = "enter" => entering' = c
    BY <1>3, <2>1, Visits
  <2>3. /\ DOMAIN stack' = 1..Len(stack)
        /\ \A i \in 1..Len(stack) : stack'[i].dir = stack[i].dir
    BY <2>2, Advances
  <2>4. Ahead(c) /\ ~Ahead(c)' /\ \A p \in Strings : Ahead(p)' => Ahead(p)
    BY <1>3, <2>1, AheadVisit
  <2>5. \A p \in ToSet(calls') \cup unread' \cup last' : ~Ahead(p)'
    BY <1>0, <2>2, <2>4 DEF Past
  <2>6. \A u \in unread : \A i \in 1..Len(stack) : ~IsPrefix(u, stack'[i].dir)
    BY <1>0, <2>3 DEF Past
  <2>7. ASSUME NEW u \in unread
        PROVE  ~IsPrefix(u, c)
    <3>1. /\ Len(stack) \in DOMAIN stack /\ stack[Len(stack)].dir = Top.dir /\ Top.dir \in Strings
          /\ u \in Strings
      BY <1>0, <2>2, TopFacts
    <3>2. ~IsPrefix(u, Top.dir) /\ u # c
      BY <2>4, <3>1 DEF Past
    <3>3. PICK x \in Entries : c = Child(Top.dir, x)
      BY <2>1, <2>2, PathIsEntry
    <3> QED
      BY <3>1, <3>2, <3>3, PrefixOfChild
  <2>8. \A d \in last : \A i \in 1..Len(stack) : IsStrictPrefix(stack'[i].dir, d)
    BY <1>0, <2>3 DEF Past
  <2>9. error = "ok" <=> last = {}
    BY DEF Past
  <2> QED
    BY <2>2, <2>3, <2>5, <2>6, <2>7, <2>8, <2>9 DEF Past
<1>4. CASE EntryFails \/ ReadFails \/ LeaveDir
  <2>1. PICK d : d = Top.dir
    OBVIOUS
  <2>2. /\ pc = "read" /\ Close /\ pc' = "return" /\ stack' = Front(stack)
        /\ UNCHANGED <<tree, calls>>
        /\ unread' \subseteq unread \cup {d}
        /\ \/ error' # "ok" /\ last' = {d}
           \/ error' = error /\ last' = last
    BY <1>4, <2>1, Closes
  <2>3. PICK n \in Nat : n = Len(stack) /\ n \in 1..n /\ stack[n] = Top
    BY <2>2, TopFacts
  <2>4. /\ DOMAIN stack' = 1..(n - 1)
        /\ \A i \in 1..(n - 1) : i \in 1..n /\ i < n /\ stack'[i] = stack[i]
    BY <2>2, <2>3, Pops
  <2>5. d \in Dirs /\ d \in Strings /\ Len(d) = n - 1
    BY <2>1, <2>2, <2>3, TopFacts
  <2>6. ~Ahead(d)' /\ \A p \in Strings : Ahead(p)' => Ahead(p)
    BY <2>1, <2>2, AheadClose
  <2>7. \A p \in ToSet(calls') \cup unread' \cup last' : ~Ahead(p)'
    BY <1>0, <2>2, <2>6 DEF Past
  <2>8. ASSUME NEW i \in 1..(n - 1)
        PROVE  IsStrictPrefix(stack'[i].dir, d) /\ ~IsPrefix(d, stack'[i].dir)
    <3>1. /\ i \in DOMAIN stack /\ n \in DOMAIN stack /\ i < n /\ stack'[i] = stack[i]
          /\ stack[i].dir \in Strings /\ Len(stack[i].dir) = i - 1
      BY <1>0, <2>3, <2>4, FrameFacts DEF Chain
    <3>2. Through(i, d)
      BY <2>1, <2>3, <3>1 DEF Chain
    <3>3. IsStrictPrefix(stack[i].dir, d)
      BY <2>3, <2>5, <3>1, <3>2, ThroughStrict
    <3>4. ~IsPrefix(d, stack[i].dir)
      <4>1. i - 1 < n - 1
        BY <2>3, <3>1
      <4> QED
        BY <2>5, <3>1, <4>1, PrefixAt
    <3> QED
      BY <3>1, <3>3, <3>4
  <2>9. \A u \in unread' : \A i \in 1..(n - 1) : ~IsPrefix(u, stack'[i].dir)
    BY <1>0, <2>2, <2>3, <2>4, <2>8 DEF Past
  <2>10. \A e \in last' : \A i \in 1..(n - 1) : IsStrictPrefix(stack'[i].dir, e)
    BY <1>0, <2>2, <2>3, <2>4, <2>8 DEF Past
  <2>11. error' = "ok" <=> last' = {}
    BY <2>2 DEF Past
  <2> QED
    BY <2>2, <2>4, <2>7, <2>9, <2>10, <2>11 DEF Past
<1>5. CASE Return
  <2>1. /\ pc = "return" /\ pc' # "enter"
        /\ UNCHANGED <<tree, stack, calls, unread, error, last>>
    BY <1>5 DEF Return, inputs
  <2>2. \A p : Ahead(p)' <=> Ahead(p)
    BY <2>1, AheadReturns
  <2> QED
    BY <2>1, <2>2 DEF Past
<1>6. CASE UNCHANGED vars
  BY <1>6 DEF vars, inputs, Past, Ahead, Entry
<1> QED
  BY <1>1, <1>2, <1>3, <1>4, <1>5, <1>6 DEF Next, Enter, Read

\* get_files_flat does not leave the root.
LEMMA FlatStep ==
    ASSUME TypeOK, Chain, Past, Flat, [Next]_vars
    PROVE  Flat'
<1>0. Len(stack) \in Nat /\ (stack = <<>> <=> Len(stack) = 0)
  BY FrameFacts
<1>1. CASE BreakAsked \/ OutOfBudget \/ AfterError \/ OpenFails
  <2>1. /\ pc = "enter" /\ pc' = "return" /\ UNCHANGED <<caller, stack, userBreak>>
        /\ userBreak => error' = "ok"
    BY <1>1, EndsAtOnce
  <2> QED
    BY <2>1 DEF Flat
<1>2. CASE Open
  <2>1. /\ pc = "enter" /\ pc' = "read" /\ error' = "ok" /\ ~userBreak
        /\ UNCHANGED <<caller, userBreak>>
        /\ stack' = Append(stack, [dir |-> entering, next |-> 1])
        /\ tree' = tree
    BY <1>2 DEF Open, inputs
  <2>2. caller = "flat" => stack = <<>>
    BY <2>1 DEF Flat
  <2>3. PICK n \in Nat : n = Len(stack) + 1
    BY <1>0
  <2>4. Len(stack') = n
    BY <2>1, <2>3, Pushes
  <2>5. caller = "flat" => Len(stack') = 1
    BY <1>0, <2>2, <2>3, <2>4
  <2> QED
    BY <2>1, <2>5 DEF Flat
<1>3. CASE VisitFile \/ VisitDir
  <2>1. PICK c : c = Path
    OBVIOUS
  <2>2. /\ Reading /\ pc = "read" /\ stack' = Advanced
        /\ UNCHANGED <<tree, caller, error>>
        /\ \/ pc' = "read" /\ userBreak' = userBreak
           \/ pc' = "enter" /\ userBreak' = (userBreak \/ caller = "flat")
    BY <1>3, <2>1, Visits
  <2>3. stack # <<>> /\ stack' # <<>> /\ Len(stack') = Len(stack)
    <3>1. Len(stack) >= 1
      BY <2>2, TopFacts
    <3>2. stack' # <<>> /\ Len(stack') = Len(stack)
      BY <2>2, Advances
    <3> QED
      BY <1>0, <3>1, <3>2
  <2>4. userBreak' => caller = "flat"
    BY <2>2 DEF Flat
  <2>5. pc' = "enter" /\ caller = "flat" => userBreak'
    BY <2>2
  <2>6. caller = "flat" => Len(stack) = 1 /\ error = "ok"
    BY <2>3 DEF Flat
  <2> QED
    BY <2>2, <2>3, <2>4, <2>5, <2>6 DEF Flat
<1>4. CASE EntryFails \/ ReadFails \/ LeaveDir
  <2>1. /\ pc = "read" /\ pc' = "return" /\ stack' = Front(stack)
        /\ UNCHANGED <<tree, caller, userBreak>>
    BY <1>4, Closes
  <2>2. /\ Len(stack') = Len(stack) - 1 /\ stack # <<>> /\ stack' \in Seq(Frames)
    BY <1>0, <2>1, TopFacts, Pops
  <2>3. caller = "flat" => stack' = <<>>
    BY <1>0, <2>2 DEF Flat
  <2> QED
    BY <2>1, <2>3 DEF Flat
<1>5. CASE Return \/ UNCHANGED vars
  <2>1. UNCHANGED <<caller, stack, error, userBreak>> /\ (pc' = "enter" => pc = "enter")
    BY <1>5 DEF Return, inputs, vars
  <2> QED
    BY <2>1 DEF Flat
<1> QED
  BY <1>1, <1>2, <1>3, <1>4, <1>5 DEF Next, Enter, Read

-----------------------------------------------------------------------------
\* A path is not strictly above one that is above it, nor above what is above that.
LEMMA NotAbove ==
    ASSUME NEW d \in Strings, NEW q \in Strings, IsPrefix(d, q)
    PROVE  ~IsStrictPrefix(q, d)
  BY PrefixAt, StrictIsShorter DEF Strings

LEMMA AboveBelow ==
    ASSUME NEW d \in Strings, NEW q \in Strings, NEW e \in Strings,
           \/ IsPrefix(d, q) /\ IsStrictPrefix(q, e)
           \/ IsStrictPrefix(d, q) /\ IsStrictPrefix(q, e)
    PROVE  IsStrictPrefix(d, e)
<1>1. IsPrefix(d, q) /\ IsPrefix(q, e) /\ Len(q) < Len(e)
  BY StrictIsShorter DEF IsStrictPrefix
<1>2. IsPrefix(d, e) /\ Len(d) <= Len(q)
  BY <1>1, PrefixTransitive, PrefixAt
<1>3. Len(d) < Len(e)
  BY <1>1, <1>2 DEF Strings
<1> QED
  BY <1>2, <1>3, StrictIsShorter

Covered(p) ==
    \/ p \in ToSet(calls)
    \/ Ahead(p)
    \/ \E u \in unread : IsPrefix(u, Front(p))
    \/ \E d \in last : ~IsStrictPrefix(Front(p), d)

\* No path is left out for another reason than those of Cover.
LEMMA CoverStep ==
    ASSUME TypeOK, Chain, Past, Flat, Cover, [Next]_vars
    PROVE  Cover'
<1>0. ASSUME NEW p \in Paths \ {<<>>}, caller = "flat" => Len(p) = 1
      PROVE  Covered(p)
  BY <1>0 DEF Cover, Covered
<1>1. caller' = caller
  BY DEF Next, Enter, Read, BreakAsked, OutOfBudget, AfterError, OpenFails, Open, Back, VisitFile,
         VisitDir, EntryFails, ReadFails, LeaveDir, Close, Return, vars, inputs
<1>2. ASSUME NEW p \in Paths \ {<<>>}, caller = "flat" => Len(p) = 1
      PROVE  Covered(p)'
  <2>1. PICK f \in Strings : f = Front(p)
    BY PathFacts, FrontFacts
  <2>2. /\ p \in Paths /\ p \in Strings /\ Len(p) \in Nat /\ Covered(p)
        /\ \A d \in Strings : IsStrictPrefix(d, p) <=> IsPrefix(d, f)
    BY <1>0, <1>2, <2>1, PathFacts, BelowFront
  <2>3. CASE BreakAsked \/ OutOfBudget \/ AfterError \/ OpenFails
    <3>1. /\ pc = "enter" /\ pc' = "return"
          /\ UNCHANGED <<tree, stack, entering, calls, unread>>
          /\ last' = last \/ (last = {} /\ last' = {entering})
          /\ error = "ok" /\ ~userBreak => last' = {entering}
          /\ error = "ok" <=> last = {}
      BY <2>3, EndsAtOnce DEF Past
    <3>2. (Ahead(p)' => Ahead(p)) /\ (Ahead(p) => Ahead(p)' \/ IsStrictPrefix(entering, p))
      BY <3>1, AheadEnds
    <3>3. entering \in Strings /\ Len(entering) = Len(stack)
      BY <3>1, EnteringFacts
    <3>4. ASSUME IsStrictPrefix(entering, p)
          PROVE  \E d \in last' : ~IsStrictPrefix(f, d)
      <4>1. IsPrefix(entering, f)
        BY <2>2, <3>3, <3>4
      <4>2. CASE error = "ok" /\ userBreak
        <5>1. caller = "flat" /\ Len(stack) = 1
          BY <3>1, <4>2 DEF Flat
        <5>2. Len(p) = 1 /\ Len(entering) = 1
          BY <1>2, <3>3, <5>1
        <5> QED
          BY <2>2, <3>3, <3>4, <5>2, StrictIsShorter
      <4>3. CASE error = "ok" /\ ~userBreak
        BY <3>1, <3>3, <4>1, <4>3, NotAbove
      <4>4. CASE error # "ok"
        <5>1. PICK d \in last : d \in last'
          BY <3>1, <4>4
        <5>2. d \in Strings /\ ~IsStrictPrefix(entering, d)
          BY <3>1, <5>1, DirFacts DEF Past, TypeOK, Ahead
        <5>3. ~IsStrictPrefix(f, d)
          BY <3>3, <4>1, <5>2, AboveBelow
        <5> QED
          BY <5>1, <5>3
      <4> QED
        BY <4>2, <4>3, <4>4
    <3>5. (\E d \in last : ~IsStrictPrefix(f, d)) => \E d \in last' : ~IsStrictPrefix(f, d)
      BY <3>1
    <3> QED
      BY <2>1, <2>2, <3>1, <3>2, <3>4, <3>5 DEF Covered
  <2>4. CASE Open
    BY <2>2, <2>4, AheadOpen DEF Covered, Open
  <2>5. CASE VisitFile \/ VisitDir
    <3>1. PICK c : c = Path
      OBVIOUS
    <3>2. ToSet(calls') = ToSet(calls) \cup {c} /\ UNCHANGED <<unread, last>>
      BY <2>5, <3>1, Visits
    <3>3. Ahead(p) => Ahead(p)' \/ p = c
      BY <2>2, <2>5, <3>1, AheadVisit
    <3> QED
      BY <2>2, <3>2, <3>3 DEF Covered
  <2>6. CASE EntryFails \/ ReadFails \/ LeaveDir
    <3>1. PICK d : d = Top.dir
      OBVIOUS
    <3>2. /\ pc = "read" /\ Close /\ calls' = calls
          /\ \/ last' = {d} /\ unread' = unread
             \/ last' = last /\ unread' = unread \cup {d}
             \/ ~Reading /\ last' = last /\ unread' = unread
      BY <2>6, <3>1, Closes
    <3>3. d \in Strings /\ \A e \in last : IsStrictPrefix(d, e) /\ e \in Strings
      <4>1. Len(stack) \in DOMAIN stack /\ stack[Len(stack)].dir = d /\ d \in Strings
        BY <3>1, <3>2, TopFacts, FrameFacts
      <4> QED
        BY <4>1, DirFacts DEF Past, TypeOK
    <3>4. Ahead(p) => Ahead(p)' \/ (Reading /\ IsPrefix(d, f))
      BY <2>2, <3>1, <3>2, <3>3, AheadClose
    <3>5. IsPrefix(d, f) => ~IsStrictPrefix(f, d)
      BY <3>3, NotAbove
    <3>6. \A e \in last : IsStrictPrefix(f, d) => IsStrictPrefix(f, e)
      BY <3>3, AboveBelow
    <3>7. (\E u \in unread : IsPrefix(u, f)) => \E u \in unread' : IsPrefix(u, f)
      BY <3>2
    <3>8. (\E e \in last : ~IsStrictPrefix(f, e)) => \E e \in last' : ~IsStrictPrefix(f, e)
      BY <3>2, <3>6
    <3>9. Reading /\ IsPrefix(d, f) =>
            (\E u \in unread' : IsPrefix(u, f)) \/ \E e \in last' : ~IsStrictPrefix(f, e)
      BY <3>2, <3>5
    <3> QED
      BY <2>1, <2>2, <3>2, <3>4, <3>7, <3>8, <3>9 DEF Covered
  <2>7. CASE Return
    <3>1. Ahead(p)' <=> Ahead(p)
      BY <2>7, AheadReturns DEF Return, inputs
    <3> QED
      BY <2>2, <2>7, <3>1 DEF Covered, Return
  <2>8. CASE UNCHANGED vars
    BY <2>2, <2>8 DEF Covered, vars, inputs, Ahead, Entry
  <2> QED
    BY <2>3, <2>4, <2>5, <2>6, <2>7, <2>8 DEF Next, Enter, Read
<1> QED
  BY <1>1, <1>2 DEF Cover, Covered

-----------------------------------------------------------------------------
\* Only get_files_flat has no error after a call that ended at once.
LEMMA EndsWell ==
    ASSUME TypeOK, Flat, Past, BreakAsked \/ OutOfBudget \/ AfterError \/ OpenFails, error' = "ok"
    PROVE  caller = "flat" /\ error = "ok"
<1>1. /\ \/ error' = error /\ last' = last
         \/ error = "ok" /\ error' # "ok" /\ last = {} /\ last' = {entering}
         \/ error # "ok" /\ error' # "ok" /\ last' = last
      /\ error = "ok" /\ ~userBreak => last' = {entering}
  BY EndsAtOnce
<1>2. error = "ok" /\ last' = last
  BY <1>1
<1>3. last = {} /\ userBreak
  BY <1>1, <1>2 DEF Past
<1> QED
  BY <1>2, <1>3 DEF Flat

Done(i, j) ==
    \/ Entry(i, j) \in closed \cup Files
    \/ j = stack[i].next - 1 /\ (i < Len(stack) \/ pc = "enter")

\* The entries that were passed are handled, and closed.
LEMMA HandledStep ==
    ASSUME TypeOK, Chain, Past, Flat, Handled, [Next]_vars
    PROVE  Handled'
<1>0. /\ Len(stack) \in Nat /\ DOMAIN stack = 1..Len(stack)
      /\ \A i \in 1..Len(stack) : stack[i].next \in Nat
      /\ \A i \in 1..Len(stack) : \A j \in 1..(stack[i].next - 1) : Entry(i, j) \in ToSet(calls)
      /\ caller = "unlink" /\ error = "ok" =>
           \A i \in 1..Len(stack) : \A j \in 1..(stack[i].next - 1) : Done(i, j)
      /\ caller # "unlink" => closed = {}
  BY FrameFacts DEF Handled, Done
<1>1. CASE BreakAsked \/ OutOfBudget \/ AfterError \/ OpenFails
  <2>1. UNCHANGED <<tree, caller, stack, calls, closed>>
    BY <1>1, EndsAtOnce
  <2>2. error' = "ok" => caller # "unlink"
    BY <1>1, EndsWell
  <2> QED
    BY <2>1, <2>2 DEF Handled, Entry
<1>2. CASE Open
  <2>1. /\ UNCHANGED <<tree, caller, calls, closed, error>> /\ pc' = "read" /\ pc = "enter"
        /\ stack' = Append(stack, [dir |-> entering, next |-> 1])
    BY <1>2 DEF Open, inputs
  <2>2. PICK n \in Nat : n = Len(stack) + 1
    BY <1>0
  <2>3. /\ DOMAIN stack' = 1..n /\ Len(stack') = n /\ stack'[n].next = 1
        /\ \A i \in 1..Len(stack) : stack'[i] = stack[i] /\ \A j : Entry(i, j)' = Entry(i, j)
    BY <2>1, <2>2, Pushes
  <2>4. ASSUME NEW i \in 1..n, NEW j \in 1..(stack'[i].next - 1)
        PROVE  /\ Entry(i, j)' \in ToSet(calls)
               /\ caller = "unlink" /\ error = "ok" => Done(i, j)'
    <3>1. i \in 1..Len(stack) /\ stack'[i] = stack[i] /\ Entry(i, j)' = Entry(i, j)
      BY <1>0, <2>2, <2>3, <2>4
    <3>2. j \in 1..(stack[i].next - 1) /\ i < n
      BY <1>0, <2>2, <2>4, <3>1
    <3>3. Entry(i, j) \in ToSet(calls)
      BY <1>0, <3>1, <3>2
    <3>4. caller = "unlink" /\ error = "ok" => Done(i, j)
      BY <1>0, <3>1, <3>2
    <3> QED
      BY <2>1, <2>3, <3>1, <3>2, <3>3, <3>4 DEF Done
  <2> QED
    BY <1>0, <2>1, <2>3, <2>4 DEF Handled, Done
<1>3. CASE VisitFile \/ VisitDir
  <2>1. PICK c : c = Path
    OBVIOUS
  <2>2. /\ Reading /\ pc = "read" /\ stack' = Advanced /\ ToSet(calls') = ToSet(calls) \cup {c}
        /\ UNCHANGED <<tree, caller, error, closed>>
        /\ c \in Files \/ pc' = "enter"
    BY <1>3, <2>1, Visits
  <2>3. PICK n \in Nat : n = Len(stack) /\ n \in 1..n /\ stack[n] = Top
    BY <2>2, TopFacts
  <2>4. PICK k \in Nat : k = Top.next /\ c = Entry(n, k)
    BY <2>1, <2>2, <2>3, TopFacts, PathIsEntry
  <2>5. /\ DOMAIN stack' = 1..n /\ Len(stack') = n
        /\ \A i \in 1..n : /\ i # n => stack'[i].next = stack[i].next
                           /\ i = n => stack[i].next = k /\ stack'[i].next = k + 1
                           /\ \A j : Entry(i, j)' = Entry(i, j)
    BY <2>2, <2>3, <2>4, Advances
  <2>6. ASSUME NEW i \in 1..n, NEW j \in 1..(stack'[i].next - 1)
        PROVE  /\ Entry(i, j)' \in ToSet(calls')
               /\ caller = "unlink" /\ error = "ok" => Done(i, j)'
    <3>1. CASE i = n /\ j = k
      BY <2>2, <2>4, <2>5, <2>6, <3>1 DEF Done
    <3>2. CASE i = n /\ j # k
      <4>1. j \in 1..(stack[i].next - 1) /\ i \in 1..Len(stack) /\ ~(i < Len(stack))
        BY <2>3, <2>4, <2>5, <2>6, <3>2
      <4>2. Entry(i, j) \in ToSet(calls)
        BY <1>0, <4>1
      <4>3. caller = "unlink" /\ error = "ok" => Entry(i, j) \in closed \cup Files
        BY <1>0, <2>2, <4>1 DEF Done
      <4> QED
        BY <2>2, <2>5, <4>2, <4>3 DEF Done
    <3>3. CASE i # n
      <4>1. /\ j \in 1..(stack[i].next - 1) /\ i \in 1..Len(stack) /\ i < Len(stack')
            /\ stack'[i].next = stack[i].next /\ Entry(i, j)' = Entry(i, j)
        BY <2>3, <2>5, <2>6, <3>3
      <4>2. Entry(i, j) \in ToSet(calls)
        BY <1>0, <4>1
      <4>3. caller = "unlink" /\ error = "ok" => Done(i, j)
        BY <1>0, <4>1
      <4> QED
        BY <2>2, <4>1, <4>2, <4>3 DEF Done
    <3> QED
      BY <3>1, <3>2, <3>3
  <2> QED
    BY <1>0, <2>2, <2>5, <2>6 DEF Handled, Done
<1>4. CASE EntryFails \/ ReadFails \/ LeaveDir
  <2>1. PICK d : d = Top.dir
    OBVIOUS
  <2>2. /\ pc = "read" /\ Close /\ pc' = "return" /\ stack' = Front(stack)
        /\ UNCHANGED <<tree, caller, calls>> /\ (error' = "ok" => error = "ok")
        /\ closed' = IF caller = "unlink" /\ d # <<>> THEN closed \cup {d} ELSE closed
    BY <1>4, <2>1, Closes DEF Close
  <2>3. PICK n \in Nat : n = Len(stack) /\ n \in 1..n /\ stack[n] = Top
    BY <2>2, TopFacts
  <2>4. /\ DOMAIN stack' = 1..(n - 1) /\ Len(stack') = n - 1
        /\ \A i \in 1..(n - 1) :
             i \in 1..n /\ i < n /\ stack'[i] = stack[i] /\ \A j : Entry(i, j)' = Entry(i, j)
    BY <2>2, <2>3, Pops
  <2>5. d \in Strings /\ Len(d) = n - 1
    BY <2>1, <2>2, <2>3, TopFacts
  <2>6. ASSUME NEW i \in 1..(n - 1), NEW j \in 1..(stack'[i].next - 1)
        PROVE  /\ Entry(i, j)' \in ToSet(calls)
               /\ caller = "unlink" /\ error' = "ok" => Done(i, j)'
    <3>1. /\ i \in 1..Len(stack) /\ i < n /\ stack'[i] = stack[i] /\ Entry(i, j)' = Entry(i, j)
          /\ j \in 1..(stack[i].next - 1)
      BY <2>3, <2>4, <2>6
    <3>2. Entry(i, j) \in ToSet(calls)
      BY <1>0, <3>1
    <3>3. caller = "unlink" /\ error' = "ok" => Done(i, j)
      BY <1>0, <2>2, <3>1
    <3>4. CASE Entry(i, j) \in closed \cup Files
      BY <2>2, <3>1, <3>2, <3>4 DEF Done
    <3>5. CASE j = stack[i].next - 1 /\ i < n - 1
      BY <2>4, <3>1, <3>2, <3>5 DEF Done
    <3>6. CASE j = stack[i].next - 1 /\ i = n - 1 /\ caller = "unlink"
      <4>1. i \in DOMAIN stack /\ n \in DOMAIN stack /\ i < n /\ Len(stack[i].dir) = i - 1
        BY <1>0, <2>3, <3>1 DEF Chain
      <4>2. Through(i, d)
        BY <2>1, <2>3, <4>1 DEF Chain
      <4>3. PICK k \in 1..Len(tree[stack[i].dir]) :
              stack[i].next = k + 1 /\ IsPrefix(Entry(i, k), d)
        BY <3>1, <4>2, ThroughEntry
      <4>4. PICK e \in Strings : e = Entry(i, k) /\ Len(e) = i
        BY <3>1, <4>1, EntryFacts
      <4>5. e = d /\ k = j
        BY <2>5, <3>6, <4>3, <4>4, SamePath
      <4>6. d # <<>>
        BY <4>4, <4>5
      <4>7. d \in closed'
        BY <2>2, <3>6, <4>6
      <4> QED
        BY <3>1, <3>2, <4>4, <4>5, <4>7 DEF Done
    <3>7. CASE ~(caller = "unlink" /\ error' = "ok")
      BY <3>1, <3>2, <3>7
    <3> QED
      BY <2>2, <2>3, <3>1, <3>3, <3>4, <3>5, <3>6, <3>7 DEF Done
  <2> QED
    BY <1>0, <2>2, <2>4, <2>6 DEF Handled, Done
<1>5. CASE Return \/ UNCHANGED vars
  <2>1. UNCHANGED <<tree, caller, stack, calls, closed, error>> /\ (pc = "enter" => pc' = "enter")
    BY <1>5 DEF Return, inputs, vars
  <2>2. \A i, j : Entry(i, j)' = Entry(i, j)
    BY <2>1 DEF Entry
  <2> QED
    BY <2>1, <2>2 DEF Handled
<1> QED
  BY <1>1, <1>2, <1>3, <1>4, <1>5 DEF Next, Enter, Read

\* The directories that were come to are counted.
LEMMA CountedStep ==
    ASSUME TypeOK, Chain, Past, Flat, Counted, [Next]_vars
    PROVE  Counted'
<1>0. /\ IsFiniteSet(Seen) /\ Cardinality(Seen) \in Nat
      /\ budget \in Nat /\ limit \in Nat
  BY FS_CardinalityType, TreeAssumption DEF Counted, TypeOK
<1>1. CASE BreakAsked \/ OutOfBudget \/ AfterError \/ OpenFails
  <2>1. UNCHANGED <<caller, limit, calls>> /\ (error' = "ok" => caller = "flat")
    BY <1>1, EndsAtOnce, EndsWell
  <2> QED
    BY <2>1 DEF Counted, Seen
<1>2. CASE Open
  <2>1. /\ pc = "enter" /\ pc' = "read" /\ budget' = budget - 1 /\ error' = error
        /\ UNCHANGED <<caller, limit, calls>>
    BY <1>2 DEF Open, inputs
  <2>2. Seen' = Seen
    BY <2>1 DEF Seen
  <2> QED
    BY <1>0, <2>1, <2>2 DEF Counted
<1>3. CASE VisitFile \/ VisitDir
  <2>1. PICK c : c = Path
    OBVIOUS
  <2>2. /\ pc = "read" /\ ToSet(calls') = ToSet(calls) \cup {c}
        /\ UNCHANGED <<caller, limit, budget, error>>
        /\ \/ c \in Files /\ pc' = "read"
           \/ c \in Dirs /\ pc' = "enter"
    <3>1. VisitFile \/ VisitDir
      BY <1>3
    <3> QED
      BY <2>1, <3>1, Visits
  <2>3. CASE c \in Files /\ pc' = "read"
    <3>1. Seen' = Seen
      BY <2>2, <2>3, DirFacts DEF Seen
    <3> QED
      BY <2>2, <2>3, <3>1 DEF Counted
  <2>4. CASE c \in Dirs /\ pc' = "enter"
    <3>1. Seen' = Seen \cup {c}
      BY <2>2, <2>4 DEF Seen
    <3>2. IsFiniteSet(Seen') /\ Cardinality(Seen') \in Nat
          /\ Cardinality(Seen') <= Cardinality(Seen) + 1
      BY <1>0, <3>1, FS_AddElement
    <3> QED
      BY <1>0, <2>2, <2>4, <3>2 DEF Counted
  <2> QED
    BY <2>2, <2>3, <2>4
<1>4. CASE EntryFails \/ ReadFails \/ LeaveDir
  <2>1. /\ pc = "read" /\ pc' = "return" /\ UNCHANGED <<caller, limit, budget, calls>>
        /\ (error' = "ok" => error = "ok")
    BY <1>4, Closes
  <2>2. Seen' = Seen
    BY <2>1 DEF Seen
  <2> QED
    BY <2>1, <2>2 DEF Counted
<1>5. CASE Return \/ UNCHANGED vars
  <2>1. /\ UNCHANGED <<caller, limit, budget, calls, error>>
        /\ pc = "enter" <=> pc' = "enter"
    BY <1>5 DEF Return, inputs, vars
  <2>2. Seen' = Seen
    BY <2>1 DEF Seen
  <2> QED
    BY <2>1, <2>2 DEF Counted
<1> QED
  BY <1>1, <1>2, <1>3, <1>4, <1>5 DEF Next, Enter, Read

\* A directory is closed after all that is below it.
LEMMA ClosedStep ==
    ASSUME TypeOK, Chain, Past, Flat, Handled, ClosedWhenEmpty, [Next]_vars
    PROVE  ClosedWhenEmpty'
<1>1. CASE BreakAsked \/ OutOfBudget \/ AfterError \/ OpenFails
  <2>1. closed' = closed /\ (error' = "ok" => closed = {})
    BY <1>1, EndsAtOnce, EndsWell DEF Handled
  <2> QED
    BY <2>1 DEF ClosedWhenEmpty
<1>2. CASE Open \/ Return \/ UNCHANGED vars
  <2>1. UNCHANGED <<closed, unread, calls, error>>
    BY <1>2 DEF Open, Return, vars
  <2> QED
    BY <2>1 DEF ClosedWhenEmpty
<1>3. CASE VisitFile \/ VisitDir
  <2>1. PICK c : c = Path
    OBVIOUS
  <2>2. ToSet(calls') = ToSet(calls) \cup {c} /\ UNCHANGED <<closed, unread, error>>
    BY <1>3, <2>1, Visits
  <2> QED
    BY <2>2 DEF ClosedWhenEmpty
<1>4. CASE EntryFails \/ ReadFails \/ LeaveDir
  <2>1. PICK d : d = Top.dir
    OBVIOUS
  <2>2. /\ pc = "read" /\ calls' = calls /\ tree \in Trees
        /\ closed' = IF caller = "unlink" /\ d # <<>> THEN closed \cup {d} ELSE closed
        /\ \/ error' # "ok"
           \/ error' = error /\ unread' = unread \cup {d}
           \/ LeaveDir /\ error' = error /\ unread' = unread
    BY <1>4, <2>1, Closes DEF Close, TypeOK
  <2>3. PICK n \in Nat : n = Len(stack) /\ n \in 1..n /\ stack[n] = Top
    BY <2>2, TopFacts
  <2>4. d \in Dirs /\ d \in Strings /\ Len(d) = n - 1
    BY <2>1, <2>2, <2>3, TopFacts
  <2>5. ASSUME error' = "ok", NEW e \in closed, \A u \in unread' : ~IsPrefix(e, u),
               NEW p \in Paths, IsStrictPrefix(e, p)
        PROVE  p \in ToSet(calls) /\ (p \in Dirs => p \in closed')
    <3>1. error = "ok" /\ \A u \in unread : ~IsPrefix(e, u)
      BY <2>2, <2>5
    <3> QED
      BY <2>2, <2>5, <3>1 DEF ClosedWhenEmpty
  <2>6. ASSUME error' = "ok", caller = "unlink", \A u \in unread' : ~IsPrefix(d, u),
               NEW p \in Paths, IsStrictPrefix(d, p)
        PROVE  p \in ToSet(calls) /\ (p \in Dirs => p \in closed)
    <3>1. LeaveDir /\ error = "ok" /\ unread' = unread
      <4>1. IsPrefix(d, d)
        BY <2>4, PrefixAt
      <4> QED
        BY <2>2, <2>6, <4>1
    <3>2. PICK j \in 1..Len(tree[d]) : IsPrefix(Child(d, tree[d][j]), p)
      BY <2>2, <2>4, <2>6, Descend
    <3>3. j \in 1..(stack[n].next - 1) /\ n \in DOMAIN stack /\ j \in 1..Len(tree[stack[n].dir])
      <4>1. /\ Top.next > Len(Names) /\ Names = tree[d] /\ Len(Names) \in Nat
            /\ Top.next \in Nat
        BY <2>1, <2>2, <3>1, TopFacts DEF LeaveDir
      <4> QED
        BY <2>1, <2>3, <4>1, FrameFacts
    <3>4. PICK e \in Paths : e = Entry(n, j) /\ e = Child(d, tree[d][j]) /\ e \in Strings
                             /\ IsPrefix(d, e) /\ e # d
      <4>1. /\ Entry(n, j) = Child(d, tree[d][j]) /\ Entry(n, j) \in Paths
            /\ Entry(n, j) \in Strings /\ Len(Entry(n, j)) = Len(d) + 1 /\ tree[d][j] \in Entries
        BY <2>1, <2>3, <3>3, EntryFacts
      <4>2. IsPrefix(d, Child(d, tree[d][j]))
        BY <2>4, <4>1, ChildFacts
      <4>3. Len(d) \in Nat
        BY <2>3, <2>4
      <4> QED
        BY <4>1, <4>2, <4>3
    <3>5. e \in ToSet(calls)
      BY <3>3, <3>4 DEF Handled
    <3>6. e \in closed \cup Files
      <4>1. \/ Entry(n, j) \in closed \cup Files
            \/ j = stack[n].next - 1 /\ (n < Len(stack) \/ pc = "enter")
        BY <2>6, <3>1, <3>3 DEF Handled
      <4> QED
        BY <2>2, <2>3, <3>4, <4>1
    <3>7. CASE e = p
      BY <3>5, <3>6, <3>7, DirFacts
    <3>8. CASE e # p
      <4>1. IsPrefix(e, p) /\ e \in Dirs /\ IsStrictPrefix(e, p)
        BY <3>2, <3>4, <3>8, PrefixIsDir DEF IsStrictPrefix
      <4>2. e \in closed
        BY <3>6, <4>1, DirFacts
      <4>3. \A u \in unread : ~IsPrefix(e, u)
        BY <2>4, <2>6, <3>1, <3>4, DirFacts, PrefixTransitive DEF TypeOK
      <4> QED
        BY <3>1, <4>1, <4>2, <4>3 DEF ClosedWhenEmpty
    <3> QED
      BY <3>7, <3>8
  <2>7. closed \subseteq closed'
    BY <2>2
  <2> QED
    BY <2>2, <2>5, <2>6, <2>7 DEF ClosedWhenEmpty
<1> QED
  BY <1>1, <1>2, <1>3, <1>4 DEF Next, Enter, Read

-----------------------------------------------------------------------------
LEMMA InitWInv == Init => WInv
<1> SUFFICES ASSUME Init
             PROVE  WInv
  OBVIOUS
<1>1. /\ stack = <<>> /\ DOMAIN stack = {} /\ entering = <<>> /\ pc = "enter" /\ error = "ok"
      /\ ToSet(calls) = {} /\ unread = {} /\ closed = {} /\ last = {} /\ userBreak = FALSE
      /\ budget = limit /\ limit \in Nat /\ Len(entering) = 0 /\ Len(stack) = 0
  BY TreeAssumption DEF Init, ToSet
<1>2. TypeOK
  <2>1. stack \in Seq(Frames) /\ calls \in Seq(Paths)
    BY DEF Init
  <2>2. entering \in Dirs /\ budget \in 0..limit
    BY <1>1, TreeAssumption
  <2>3. /\ tree \in Trees /\ caller \in Callers /\ limit \in Limits
        /\ error \in Errors /\ userBreak \in BOOLEAN
        /\ pc \in {"enter", "read", "return", "end"}
    BY DEF Init, Errors
  <2> QED
    BY <1>1, <2>1, <2>2, <2>3 DEF TypeOK
<1>3. Chain /\ Past /\ Flat /\ Handled /\ ClosedWhenEmpty
  BY <1>1 DEF Chain, Past, Flat, Handled, ClosedWhenEmpty
<1>4. Cover
  <2>1. ASSUME NEW p \in Paths \ {<<>>}
        PROVE  IsStrictPrefix(<<>>, p)
    <3>1. /\ p \in Strings /\ Len(p) \in Nat /\ Len(p) >= 1 /\ <<>> \in Strings
          /\ Len(<<>>) = 0
      BY <2>1, PathFacts, FrontFacts DEF Strings
    <3>2. IsPrefix(<<>>, p)
      BY <3>1, PrefixAt
    <3> QED
      BY <3>1, <3>2, StrictIsShorter
  <2> QED
    BY <1>1, <2>1 DEF Cover, Ahead
<1>5. Counted
  <2>1. Seen = {<<>>}
    BY <1>1 DEF Seen
  <2>2. IsFiniteSet({<<>>}) /\ Cardinality({<<>>}) = 1
    BY FS_Singleton
  <2> QED
    BY <1>1, <2>1, <2>2 DEF Counted
<1> QED
  BY <1>2, <1>3, <1>4, <1>5 DEF WInv

LEMMA NextWInv == WInv /\ [Next]_vars => WInv'
  BY TypeStep, ChainStep, PastStep, FlatStep, CoverStep, HandledStep, CountedStep, ClosedStep
     DEF WInv

\* The walk goes down through the open calls and never comes to anything twice; without an
\* error it hands over every entry of a directory, at any depth, before the directory is
\* given to callback_dir_closed, unless a listing below it was cut short.
THEOREM WalkInvariant == Spec => []WInv
  BY InitWInv, NextWInv, PTL DEF Spec

-----------------------------------------------------------------------------
LEMMA BudgetAtEnd == WInv => BudgetIsForTheTree
<1> SUFFICES ASSUME WInv, pc = "end", error = "ok", unread = {}, caller # "flat"
             PROVE  Cardinality(Dirs) <= limit
  BY DEF BudgetIsForTheTree
<1>1. stack = <<>> /\ last = {} /\ DOMAIN stack = {}
  BY DEF WInv, Chain, Past
<1>2. \A p \in Paths \ {<<>>} : p \in ToSet(calls)
  BY <1>1 DEF WInv, Cover, Ahead
<1>3. Seen = Dirs
  BY <1>2, TreeAssumption DEF Seen, Paths
<1>4. /\ IsFiniteSet(Seen) /\ Cardinality(Seen) + budget <= limit
      /\ Cardinality(Seen) \in Nat /\ budget \in Nat /\ limit \in Nat
  BY FS_CardinalityType, TreeAssumption DEF WInv, Counted, TypeOK
<1> QED
  BY <1>3, <1>4

\* recursion_limit is a budget for all the directories of a tree: a walk that ends well has
\* had at least one of it for each.
THEOREM BudgetForTheTree == Spec => []BudgetIsForTheTree
  BY WalkInvariant, BudgetAtEnd, PTL

LEMMA ErrorStaysStep == WInv /\ [Next]_vars => [error # "ok" => error' # "ok"]_vars
<1> SUFFICES ASSUME WInv, Next, error # "ok"
             PROVE  error' # "ok"
  BY DEF vars, inputs
<1>1. CASE BreakAsked \/ OutOfBudget \/ AfterError \/ OpenFails
  BY <1>1, EndsWell DEF WInv
<1>2. CASE EntryFails \/ ReadFails \/ LeaveDir
  BY <1>2, Closes DEF WInv
<1>3. CASE Open \/ VisitFile \/ VisitDir \/ Return
  BY <1>3 DEF Open, VisitFile, VisitDir, Return
<1> QED
  BY <1>1, <1>2, <1>3 DEF Next, Enter, Read

\* An error that was met is not lost, for the break of get_files_flat, which sets h->error
\* to success, is only asked for while there is none.
THEOREM ErrorIsKept == Spec => ErrorStays
  BY WalkInvariant, ErrorStaysStep, PTL DEF Spec, ErrorStays

-----------------------------------------------------------------------------
(***************************************************************************)
(* The walk implements Walk.  Left and Outcome are what the refinement     *)
(* puts for left and outcome.                                              *)
(***************************************************************************)
Left == (Scope \ ToSet(calls)) \ Unseen
Outcome == IF pc # "end" THEN "running" ELSE IF error = "ok" THEN "ok" ELSE "error"

\* What Walk says with the operators on sequences that it has of its own.
LEMMA SameOperators ==
    ASSUME NEW s, NEW t
    PROVE  /\ Implements!IsPrefix(s, t) <=> IsPrefix(s, t)
           /\ Implements!IsStrictPrefix(s, t) <=> IsStrictPrefix(s, t)
           /\ Implements!Front(s) = Front(s)
  BY DEF Implements!IsPrefix, Implements!IsStrictPrefix, Implements!Front,
         IsPrefix, IsStrictPrefix, Front

LEMMA VisitedMeans ==
    ASSUME NEW d
    PROVE  Implements!Visited(d) <=> \A e \in last : IsStrictPrefix(d, e)
  BY SameOperators DEF Implements!Visited

\* A step that handles no file, cuts no listing short and meets no error is none of Walk.
LEMMA Stutters ==
    ASSUME UNCHANGED <<caller, unread, last>>, pc # "end", pc' # "end",
           ToSet(calls') \cap Files = ToSet(calls) \cap Files
    PROVE  UNCHANGED Implements!walkvars
<1>1. Scope' = Scope
  BY DEF Scope
<1>2. Unseen' = Unseen
  BY <1>1 DEF Unseen, Scope
<1>3. Left' = Left
  BY <1>1, <1>2 DEF Left, Scope
<1>4. Outcome' = Outcome
  BY DEF Outcome
<1> QED
  BY <1>2, <1>3, <1>4 DEF Implements!walkvars, Left, Outcome

\* The one of an error, in a directory that no error has been in or below.
LEMMA Meets ==
    ASSUME NEW d \in Dirs, \A e \in last : IsStrictPrefix(d, e), last' = {d},
           UNCHANGED <<caller, unread, calls>>, pc # "end", pc' # "end"
    PROVE  Implements!Meet(d)
<1>1. Scope' = Scope /\ Unseen' = Unseen
  BY DEF Scope, Unseen
<1>2. Left' = Left /\ Outcome = "running" /\ Outcome' = "running"
  BY <1>1 DEF Left, Outcome
<1> QED
  BY <1>1, <1>2, VisitedMeans DEF Implements!Meet, Left, Outcome

LEMMA InitWalk == Init => Implements!Init
<1> SUFFICES ASSUME Init
             PROVE  Implements!Init
  OBVIOUS
<1>1. unread = {} /\ last = {} /\ pc = "enter" /\ Scope \subseteq Files
  BY DEF Init, Scope
<1>2. Unseen = {}
  BY <1>1 DEF Unseen
<1> QED
  BY <1>1, <1>2 DEF Implements!Init

LEMMA StepWalk ==
    ASSUME WInv, [Next]_vars
    PROVE  [Implements!Next]_(Implements!walkvars)
<1>0. TypeOK /\ Chain /\ Past /\ Flat /\ Cover
  BY DEF WInv
<1>1. CASE BreakAsked \/ OutOfBudget \/ AfterError \/ OpenFails
  <2>1. /\ pc = "enter" /\ pc' = "return" /\ UNCHANGED <<caller, calls, unread>>
        /\ last' = last \/ (last = {} /\ last' = {entering})
    BY <1>0, <1>1, EndsAtOnce
  <2>2. CASE last' = last
    BY <2>1, <2>2, Stutters
  <2>3. CASE last = {} /\ last' = {entering}
    <3>1. Implements!Meet(entering) /\ entering \in Dirs
      BY <1>0, <2>1, <2>3, Meets DEF TypeOK
    <3> QED
      BY <3>1 DEF Implements!Next
  <2> QED
    BY <2>1, <2>2, <2>3
<1>2. CASE Open
  BY <1>2, Stutters DEF Open, inputs
<1>3. CASE VisitFile \/ VisitDir
  <2>1. PICK c : c = Path
    OBVIOUS
  <2>2. /\ Reading /\ pc = "read" /\ pc' # "end" /\ ToSet(calls') = ToSet(calls) \cup {c}
        /\ c \in Paths /\ UNCHANGED <<caller, unread, last>>
        /\ c \in Files \/ c \in Dirs
    BY <1>0, <1>3, <2>1, Visits
  <2>3. CASE c \notin Files
    BY <2>2, <2>3, Stutters
  <2>4. CASE c \in Files
    <3>1. /\ Front(c) = Top.dir /\ Len(Top.dir) = Len(stack) - 1 /\ Top.dir \in Strings
          /\ Len(stack) \in DOMAIN stack /\ stack[Len(stack)].dir = Top.dir
          /\ stack # <<>>
      BY <1>0, <2>1, <2>2, PathIsEntry, TopFacts, FrameFacts
    <3>2. c \in Scope
      <4>1. caller = "flat" => Len(Top.dir) = 0
        BY <1>0, <3>1 DEF Flat
      <4>2. Len(Top.dir) = 0 => Top.dir = <<>>
        BY <3>1 DEF Strings
      <4> QED
        BY <2>4, <3>1, <4>1, <4>2 DEF Scope
    <3>3. c \notin ToSet(calls)
      <4>1. Ahead(c)
        BY <1>0, <1>3, <2>1, AheadVisit
      <4> QED
        BY <1>0, <4>1 DEF Past
    <3>4. c \notin Unseen
      BY <1>0, <3>1 DEF Past, Unseen
    <3>5. Implements!Visited(Front(c))
      BY <1>0, <3>1, VisitedMeans DEF Past
    <3>6. Scope' = Scope
      BY <2>2 DEF Scope
    <3>7. Unseen' = Unseen
      <4>1. \A f : f \in Unseen' <=> f \in Unseen
        BY <2>2, <3>4, <3>6 DEF Unseen
      <4> QED
        BY <4>1
    <3>8. c \in Left /\ Left' = Left \ {c}
      <4>1. Left' = (Scope' \ ToSet(calls')) \ Unseen'
        BY DEF Left
      <4> QED
        BY <2>2, <3>2, <3>3, <3>4, <3>6, <3>7, <4>1 DEF Left
    <3>9. Outcome = "running" /\ Outcome' = "running"
      BY <2>2 DEF Outcome
    <3>10. Implements!Handle(c)
      BY <2>2, <3>5, <3>7, <3>8, <3>9, SameOperators DEF Implements!Handle, Left, Outcome
    <3> QED
      BY <3>8, <3>10 DEF Implements!Next, Left
  <2> QED
    BY <2>3, <2>4
<1>4. CASE EntryFails \/ ReadFails \/ LeaveDir
  <2>1. PICK d : d = Top.dir
    OBVIOUS
  <2>2. /\ pc = "read" /\ pc' = "return" /\ UNCHANGED <<caller, calls>>
        /\ \/ last' = {d} /\ unread' = unread
           \/ last' = last /\ unread' = unread \cup {d}
           \/ last' = last /\ unread' = unread
    BY <1>0, <1>4, <2>1, Closes
  <2>3. d \in Dirs /\ \A e \in last : IsStrictPrefix(d, e)
    <3>1. /\ Len(stack) \in DOMAIN stack /\ stack[Len(stack)].dir = Top.dir
          /\ Top.dir \in Dirs
      BY <1>0, <2>2, TopFacts, FrameFacts
    <3> QED
      BY <1>0, <2>1, <3>1 DEF Past
  <2>4. CASE last' = {d} /\ unread' = unread
    <3>1. Implements!Meet(d)
      BY <2>2, <2>3, <2>4, Meets
    <3> QED
      BY <2>3, <3>1 DEF Implements!Next
  <2>5. CASE last' = last /\ unread' = unread
    BY <2>2, <2>5, Stutters
  <2>6. CASE last' = last /\ unread' = unread \cup {d}
    <3>1. PICK gone : gone = {f \in Left : IsPrefix(d, Front(f))}
      OBVIOUS
    <3>2. Scope' = Scope
      BY <2>2 DEF Scope
    <3>3. Unseen' = Unseen \cup gone
      <4>1. \A f : f \in Unseen' <=> f \in Unseen \cup gone
        BY <2>2, <2>6, <3>1, <3>2 DEF Unseen, Left
      <4> QED
        BY <4>1
    <3>4. Left' = Left \ gone
      <4>1. Left' = (Scope' \ ToSet(calls')) \ Unseen'
        BY DEF Left
      <4>2. ToSet(calls') = ToSet(calls)
        BY <2>2
      <4> QED
        BY <3>2, <3>3, <4>1, <4>2 DEF Left
    <3>5. Outcome = "running" /\ Outcome' = "running"
      BY <2>2 DEF Outcome
    <3>6. Implements!Visited(d) /\ gone \in SUBSET Left /\ \A f \in gone : IsPrefix(d, Front(f))
      BY <2>3, <3>1, VisitedMeans
    <3>7. Implements!Miss(d, gone)
      BY <2>6, <3>3, <3>4, <3>5, <3>6, SameOperators DEF Implements!Miss, Left, Outcome
    <3> QED
      BY <2>3, <3>6, <3>7 DEF Implements!Next, Left
  <2> QED
    BY <2>2, <2>4, <2>5, <2>6
<1>5. CASE Return
  <2>1. /\ pc = "return" /\ pc' = (IF stack = <<>> THEN "end" ELSE "read")
        /\ UNCHANGED <<caller, stack, calls, unread, error, last>>
    BY <1>5 DEF Return, inputs
  <2>2. CASE stack # <<>>
    BY <2>1, <2>2, Stutters
  <2>3. CASE stack = <<>>
    <3>1. Scope' = Scope /\ Unseen' = Unseen
      BY <2>1 DEF Scope, Unseen
    <3>2. Left' = Left
      BY <2>1, <3>1 DEF Left
    <3>3. Outcome = "running" /\ Outcome' = IF last = {} THEN "ok" ELSE "error"
      BY <1>0, <2>1, <2>3 DEF Outcome, Past
    <3>4. ASSUME NEW f \in Left
          PROVE  ~Implements!Visited(Front(f))
      <4>1. /\ f \in Files /\ f \notin ToSet(calls) /\ f \notin Unseen /\ f \in Scope
            /\ caller = "flat" => Front(f) = <<>>
        BY DEF Left, Scope
      <4>2. f \in Paths \ {<<>>}
        BY <4>1, TreeAssumption DEF Paths
      <4>3. caller = "flat" => Len(f) = 1
        <5>1. Len(f) \in Nat /\ Len(Front(f)) = Len(f) - 1
          BY <4>2, PathFacts, FrontFacts
        <5> QED
          BY <4>1, <5>1
      <4>4. ~Ahead(f)
        BY <2>1, <2>3 DEF Ahead
      <4>5. \A u \in unread : ~IsPrefix(u, Front(f))
        BY <4>1 DEF Unseen
      <4>6. \E d \in last : ~IsStrictPrefix(Front(f), d)
        BY <1>0, <4>1, <4>2, <4>3, <4>4, <4>5 DEF Cover
      <4> QED
        BY <4>6, VisitedMeans
    <3>5. Implements!End
      BY <2>1, <3>1, <3>2, <3>3, <3>4, SameOperators DEF Implements!End, Left, Outcome
    <3> QED
      BY <3>5 DEF Implements!Next
  <2> QED
    BY <2>2, <2>3
<1>6. CASE UNCHANGED vars
  BY <1>6 DEF vars, inputs, Implements!walkvars, Scope, Unseen
<1> QED
  BY <1>1, <1>2, <1>3, <1>4, <1>5, <1>6 DEF Next, Enter, Read

\* Every walk of recursive_dir_walker is one that Walk allows: after an error it only hands
\* over files of enclosing directories, and it ends well only if none was left out but
\* below a listing that was cut short.
THEOREM ImplementsWalk == Spec => WalkSpec
  BY InitWalk, StepWalk, WalkInvariant, PTL DEF Spec, WalkSpec, Implements!Spec
=============================================================================
