--------------------------- MODULE Archive_proofs ---------------------------
(***************************************************************************)
(* Proofs about Archive, for any files, any contents and any buffer: its   *)
(* invariant, and what an unpack restores.  What Flat and Place are of a   *)
(* sequence of records is proved by induction over it, from the least      *)
(* element that a set of natural numbers has.                              *)
(***************************************************************************)
EXTENDS Archive, WellFoundedInduction, TLAPS

\* A set of natural numbers has a least element, and a set that holds zero and with each
\* number the next one holds them all.
LEMMA Least ==
    ASSUME NEW T \in SUBSET Nat, T # {}
    PROVE  \E m \in T : \A x \in T : m <= x
<1>1. PICK R : R = OpToRel(<, Nat)
  OBVIOUS
<1>2. IsWellFoundedOn(R, Nat)
  BY <1>1, NatLessThanWellFounded
<1>3. PICK m \in T : \A y \in T : ~(<<y, m>> \in R)
  BY <1>2, WFMin
<1>4. ASSUME NEW y \in T PROVE m <= y
  <2>1. y < m => <<y, m>> \in R
    BY <1>1 DEF OpToRel
  <2>2. ~(y < m) /\ y \in Nat /\ m \in Nat
    BY <1>3, <2>1
  <2> QED
    BY <2>2
<1> QED
  BY <1>3, <1>4

LEMMA Upwards ==
    ASSUME NEW n \in Nat, NEW S, 0 \in S, \A m \in 0..(n - 1) : m \in S => m + 1 \in S
    PROVE  0..n \subseteq S
<1> SUFFICES ASSUME ~(0..n \subseteq S) PROVE FALSE
  OBVIOUS
<1> DEFINE T == (0..n) \ S
<1>1. T \in SUBSET Nat /\ T # {}
  OBVIOUS
<1>2. PICK m \in T : \A x \in T : m <= x
  BY <1>1, Least
<1>3. m # 0 /\ m - 1 \in 0..(n - 1) /\ m - 1 \notin T
  BY <1>2
<1> QED
  BY <1>2, <1>3

\* Place and Flat are defined: what their equations say of them.
LEMMA PlaceEquation ==
    ASSUME NEW recs, Len(recs) \in Nat
    PROVE  Place(recs) = [r \in 1..(Len(recs) + 1) |->
                            IF r = 1 THEN 1 ELSE Place(recs)[r - 1] + 1 + Size[recs[r - 1][2]]]
<1> DEFINE succ(v, r) == v + 1 + Size[recs[r - 1][2]]
           Is(f, m) == f = [r \in 1..(m + 1) |-> IF r = 1 THEN 1 ELSE succ(f[r - 1], r)]
           S == {m \in 0..Len(recs) : \E f : Is(f, m)}
<1> HIDE DEF succ
<1>1. 0 \in S
  <2>1. PICK f : f = [r \in 1..1 |-> 1]
    OBVIOUS
  <2>2. Is(f, 0)
    BY <2>1
  <2> QED
    BY <2>2
<1>2. ASSUME NEW m \in 0..(Len(recs) - 1), m \in S PROVE m + 1 \in S
  <2>1. PICK f : Is(f, m)
    BY <1>2
  <2>2. PICK g : g = [r \in 1..(m + 2) |-> IF r <= m + 1 THEN f[r] ELSE succ(f[m + 1], m + 2)]
    OBVIOUS
  <2>3. ASSUME NEW r \in 1..(m + 2) PROVE g[r] = IF r = 1 THEN 1 ELSE succ(g[r - 1], r)
    <3>1. CASE r <= m + 1
      BY <2>1, <2>2, <3>1
    <3>2. CASE r = m + 2
      BY <2>2, <3>2
    <3> QED
      BY <3>1, <3>2
  <2>4. Is(g, m + 1)
    BY <2>2, <2>3
  <2> QED
    BY <2>4
<1> HIDE DEF S
<1>3. Len(recs) \in S
  <2>1. PICK n \in Nat : n = Len(recs)
    OBVIOUS
  <2>2. 0..n \subseteq S
    BY <1>1, <1>2, <2>1, Upwards
  <2> QED
    BY <2>1, <2>2
<1>4. PICK f : f = [r \in 1..(Len(recs) + 1) |->
                      IF r = 1 THEN 1 ELSE f[r - 1] + 1 + Size[recs[r - 1][2]]]
  BY <1>3 DEF succ, S
<1> QED
  BY <1>4 DEF Place

LEMMA FlatEquation ==
    ASSUME NEW recs, Len(recs) \in Nat
    PROVE  \E f : /\ Flat(recs) = f[Len(recs)]
                  /\ f[0] = <<>>
                  /\ \A r \in 1..Len(recs) :
                       f[r] = f[r - 1] \o <<Header(recs[r][1], recs[r][2])>>
                                \o Body(recs[r][2], 1, Size[recs[r][2]])
<1> DEFINE succ(s, r) == s \o <<Header(recs[r][1], recs[r][2])>>
                                \o Body(recs[r][2], 1, Size[recs[r][2]])
           Is(f, m) == f = [r \in 0..m |-> IF r = 0 THEN <<>> ELSE succ(f[r - 1], r)]
           S == {m \in 0..Len(recs) : \E f : Is(f, m)}
<1> HIDE DEF succ
<1>1. 0 \in S
  <2>1. PICK f : f = [r \in 0..0 |-> <<>>]
    OBVIOUS
  <2>2. Is(f, 0)
    BY <2>1
  <2> QED
    BY <2>2
<1>2. ASSUME NEW m \in 0..(Len(recs) - 1), m \in S PROVE m + 1 \in S
  <2>1. PICK f : Is(f, m)
    BY <1>2
  <2>2. PICK g : g = [r \in 0..(m + 1) |-> IF r <= m THEN f[r] ELSE succ(f[m], m + 1)]
    OBVIOUS
  <2>3. ASSUME NEW r \in 0..(m + 1) PROVE g[r] = IF r = 0 THEN <<>> ELSE succ(g[r - 1], r)
    <3>1. CASE r <= m
      BY <2>1, <2>2, <3>1
    <3>2. CASE r = m + 1
      BY <2>2, <3>2
    <3> QED
      BY <3>1, <3>2
  <2>4. Is(g, m + 1)
    BY <2>2, <2>3
  <2> QED
    BY <2>4
<1> HIDE DEF S
<1>3. Len(recs) \in S
  <2>1. PICK n \in Nat : n = Len(recs)
    OBVIOUS
  <2>2. 0..n \subseteq S
    BY <1>1, <1>2, <2>1, Upwards
  <2> QED
    BY <2>1, <2>2
<1>4. PICK f : f = [r \in 0..Len(recs) |->
                      IF r = 0 THEN <<>>
                      ELSE f[r - 1] \o <<Header(recs[r][1], recs[r][2])>>
                             \o Body(recs[r][2], 1, Size[recs[r][2]])]
  BY <1>3 DEF succ, S
<1>5. PICK flat : /\ Flat(recs) = flat[Len(recs)]
                  /\ flat = [r \in 0..Len(recs) |->
                      IF r = 0 THEN <<>>
                      ELSE flat[r - 1] \o <<Header(recs[r][1], recs[r][2])>>
                             \o Body(recs[r][2], 1, Size[recs[r][2]])]
  BY <1>4 DEF Flat
<1>6. flat[0] = <<>> /\ \A r \in 1..Len(recs) : r # 0 /\ r \in 0..Len(recs)
  BY <1>5
<1>7. \A r \in 1..Len(recs) :
        flat[r] = flat[r - 1] \o <<Header(recs[r][1], recs[r][2])>>
                                \o Body(recs[r][2], 1, Size[recs[r][2]])
  BY <1>5, <1>6
<1> QED
  BY <1>5, <1>6, <1>7

\* Records that stand one after the other begin at ascending places.
LEMMA PlaceRises ==
    ASSUME NEW recs \in Seq(Files \X Contents)
    PROVE  /\ Place(recs)[1] = 1
           /\ \A r \in 1..(Len(recs) + 1) : Place(recs)[r] \in Nat \ {0}
           /\ \A r \in 1..Len(recs) :
                /\ recs[r][1] \in Files /\ recs[r][2] \in Contents
                /\ Place(recs)[r + 1] = Place(recs)[r] + 1 + Size[recs[r][2]]
           /\ \A q, r \in 1..(Len(recs) + 1) : q <= r => Place(recs)[q] <= Place(recs)[r]
<1> DEFINE n == Len(recs)  at == Place(recs)
<1>1. n \in Nat /\ \A r \in 1..n : /\ recs[r][1] \in Files /\ recs[r][2] \in Contents
                                   /\ Size[recs[r][2]] \in Nat
  BY ArchiveAssumption
<1>2. at[1] = 1 /\ \A r \in 1..n : at[r + 1] = at[r] + 1 + Size[recs[r][2]]
  <2>1. at = [r \in 1..(n + 1) |-> IF r = 1 THEN 1 ELSE at[r - 1] + 1 + Size[recs[r - 1][2]]]
    BY <1>1, PlaceEquation
  <2> HIDE DEF at
  <2>2. \A r \in 1..n : r + 1 \in 1..(n + 1) /\ r + 1 # 1 /\ (r + 1) - 1 = r
    BY <1>1
  <2>3. 1 \in 1..(n + 1)
    BY <1>1
  <2> QED
    BY <2>1, <2>2, <2>3
<1> HIDE DEF n, at
<1> DEFINE S == {m \in 0..n : /\ at[m + 1] \in Nat \ {0}
                              /\ \A q \in 1..(m + 1) : at[q] \in Nat /\ at[q] <= at[m + 1]}
<1>3. 0 \in S
  BY <1>1, <1>2
<1>4. ASSUME NEW m \in 0..(n - 1), m \in S PROVE m + 1 \in S
  <2>1. at[m + 2] = at[m + 1] + 1 + Size[recs[m + 1][2]] /\ Size[recs[m + 1][2]] \in Nat
    BY <1>1, <1>2
  <2>2. PICK v \in Nat, z \in Nat : /\ v = at[m + 1] /\ z = Size[recs[m + 1][2]]
                                  /\ \A q \in 1..(m + 1) : at[q] \in Nat /\ at[q] <= v
    BY <1>4, <2>1
  <2>3. m + 1 \in 0..n
    BY <1>1
  <2> HIDE DEF S
  <2>4. at[m + 2] = v + 1 + z
    BY <2>1, <2>2
  <2>5. PICK w \in Nat \ {0} : w = at[m + 2] /\ v <= w
    BY <2>4
  <2>6. \A q \in 1..(m + 2) : at[q] \in Nat /\ at[q] <= w
    <3> TAKE q \in 1..(m + 2)
    <3>1. CASE q = m + 2
      BY <2>5, <3>1
    <3>2. CASE q # m + 2
      <4>1. q \in 1..(m + 1)
        BY <3>2
      <4>2. PICK x \in Nat : x = at[q] /\ x <= v
        BY <2>2, <4>1
      <4> QED
        BY <2>5, <4>2
    <3> QED
      BY <3>1, <3>2
  <2> QED
    BY <2>3, <2>5, <2>6 DEF S
<1>5. 0..n \subseteq S
  BY <1>1, <1>3, <1>4, Upwards
<1>6. ASSUME NEW r \in 1..(n + 1)
      PROVE  at[r] \in Nat \ {0} /\ \A q \in 1..(n + 1) : q <= r => at[q] <= at[r]
  <2>1. r - 1 \in 0..n /\ (r - 1) + 1 = r
    BY <1>1
  <2>2. r - 1 \in S
    BY <1>5, <2>1
  <2> QED
    BY <2>1, <2>2
<1> QED
  BY <1>1, <1>2, <1>6 DEF n, at

\* The blocks of a content, and what a file of blocks is after a write.
LEMMA BodyIsBlocks ==
    ASSUME NEW c \in Contents, NEW from \in Nat \ {0}, NEW to \in Nat, from <= to + 1
    PROVE  /\ Body(c, from, to) \in Seq(Block) /\ Len(Body(c, from, to)) = to - from + 1
           /\ \A j \in 1..(to - from + 1) : Body(c, from, to)[j] = Data(c, from + j - 1)
<1>1. \A j \in 1..(to - from + 1) : Data(c, from + j - 1) \in Block
  BY DEF Data, Block
<1>2. to - from + 1 \in Nat
  OBVIOUS
<1> QED
  BY <1>1, <1>2 DEF Body

LEMMA WholeBody ==
    ASSUME NEW c \in Contents, NEW m \in Nat
    PROVE  /\ Body(c, 1, m) \in Seq(Block) /\ Len(Body(c, 1, m)) = m
           /\ \A j \in 1..m : Body(c, 1, m)[j] = Data(c, j)
<1>1. PICK one \in Nat \ {0} : one = 1 /\ one <= m + 1 /\ m - one + 1 = m
  OBVIOUS
<1>2. /\ Body(c, one, m) \in Seq(Block) /\ Len(Body(c, one, m)) = m - one + 1
      /\ \A j \in 1..(m - one + 1) : Body(c, one, m)[j] = Data(c, one + j - 1)
  BY <1>1, BodyIsBlocks
<1>3. \A j \in 1..m : one + j - 1 = j
  BY <1>1
<1> QED
  BY <1>1, <1>2, <1>3

\* A whole record in blocks s at p.
StandsIn(s, p, f, c) ==
    /\ p + Size[c] <= Len(s) /\ s[p] = Header(f, c)
    /\ \A j \in 1..Size[c] : s[p + j] = Data(c, j)

LEMMA Concat ==
    ASSUME NEW s \in Seq(Block), NEW t \in Seq(Block)
    PROVE  /\ s \o t \in Seq(Block) /\ Len(s \o t) = Len(s) + Len(t)
           /\ \A p \in 1..Len(s) : (s \o t)[p] = s[p]
           /\ \A j \in 1..Len(t) : (s \o t)[Len(s) + j] = t[j]
<1>1. s \o t \in Seq(Block) /\ Len(s \o t) = Len(s) + Len(t)
  OBVIOUS
<1>2. \A p \in 1..Len(s) : (s \o t)[p] = s[p]
  OBVIOUS
<1>3. \A j \in 1..Len(t) : (s \o t)[Len(s) + j] = t[j]
  OBVIOUS
<1> QED
  BY <1>1, <1>2, <1>3

LEMMA RecordBehind ==
    ASSUME NEW s \in Seq(Block), NEW f \in Files, NEW c \in Contents
    PROVE  LET u == s \o <<Header(f, c)>> \o Body(c, 1, Size[c]) IN
           /\ u \in Seq(Block) /\ Len(u) = Len(s) + 1 + Size[c]
           /\ \A p \in 1..Len(s) : u[p] = s[p]
           /\ StandsIn(u, Len(s) + 1, f, c)
<1>1. Size[c] \in Nat /\ Header(f, c) \in Block
  BY ArchiveAssumption DEF Header, Block
<1>2. PICK t \in Seq(Block) : /\ t = s \o <<Header(f, c)>> /\ Len(t) = Len(s) + 1
                              /\ t[Len(s) + 1] = Header(f, c) /\ \A p \in 1..Len(s) : t[p] = s[p]
  <2>1. PICK h \in Block : h = Header(f, c)
    BY <1>1
  <2>2. <<h>> \in Seq(Block) /\ Len(<<h>>) = 1 /\ <<h>>[1] = h /\ 1 \in 1..Len(<<h>>)
    OBVIOUS
  <2>3. /\ s \o <<h>> \in Seq(Block) /\ Len(s \o <<h>>) = Len(s) + 1
        /\ (s \o <<h>>)[Len(s) + 1] = h /\ \A p \in 1..Len(s) : (s \o <<h>>)[p] = s[p]
    BY <2>2, Concat
  <2> QED
    BY <2>1, <2>3
<1>3. PICK body \in Seq(Block) : /\ body = Body(c, 1, Size[c]) /\ Len(body) = Size[c]
                                 /\ \A j \in 1..Size[c] : body[j] = Data(c, j)
  BY <1>1, WholeBody
<1> DEFINE u == t \o body
<1>4. /\ u \in Seq(Block) /\ Len(u) = Len(t) + Len(body)
      /\ \A p \in 1..Len(t) : u[p] = t[p]
      /\ \A j \in 1..Len(body) : u[Len(t) + j] = body[j]
  BY Concat
<1> HIDE DEF u
<1>5. /\ Len(u) = Len(s) + 1 + Size[c] /\ \A p \in 1..Len(s) : u[p] = s[p]
      /\ u[Len(s) + 1] = Header(f, c) /\ \A j \in 1..Size[c] : u[Len(s) + 1 + j] = Data(c, j)
  <2>1. Len(u) = Len(s) + 1 + Size[c] /\ Len(s) \in Nat
    BY <1>1, <1>2, <1>3, <1>4
  <2>2. \A p \in 1..Len(s) : p \in 1..Len(t)
    BY <1>2
  <2>3. Len(s) + 1 \in 1..Len(t)
    BY <1>2
  <2>4. \A j \in 1..Size[c] : u[Len(s) + 1 + j] = Data(c, j)
    BY <1>2, <1>3, <1>4
  <2> QED
    BY <1>2, <1>4, <2>1, <2>2, <2>3, <2>4
<1>6. StandsIn(u, Len(s) + 1, f, c)
  BY <1>1, <1>5 DEF StandsIn
<1> QED
  BY <1>2, <1>3, <1>4, <1>5, <1>6 DEF u

LEMMA StandsStill ==
    ASSUME NEW s \in Seq(Block), NEW u \in Seq(Block), NEW n \in Nat, n <= Len(s), n <= Len(u),
           \A p \in 1..n : u[p] = s[p],
           NEW p \in Nat \ {0}, NEW f, NEW c \in Contents, StandsIn(s, p, f, c), p + Size[c] <= n
    PROVE  StandsIn(u, p, f, c)
<1>1. Size[c] \in Nat /\ p \in 1..n /\ \A j \in 1..Size[c] : p + j \in 1..n
  BY ArchiveAssumption
<1>2. u[p] = s[p] /\ \A j \in 1..Size[c] : u[p + j] = s[p + j]
  BY <1>1
<1>3. p + Size[c] <= Len(u)
  BY <1>1
<1> QED
  BY <1>2, <1>3 DEF StandsIn

\* The blocks of an archive are those of its records, each at its place.
LEMMA FlatStands ==
    ASSUME NEW recs \in Seq(Files \X Contents)
    PROVE  /\ Flat(recs) \in Seq(Block) /\ Len(Flat(recs)) = Place(recs)[Len(recs) + 1] - 1
           /\ \A p \in 1..Len(Flat(recs)) : Flat(recs)[p].kind # "part"
           /\ \A r \in 1..Len(recs) : StandsIn(Flat(recs), Place(recs)[r], recs[r][1], recs[r][2])
<1>1. PICK n \in Nat : n = Len(recs)
  OBVIOUS
<1>2. PICK at : /\ at = Place(recs) /\ at[1] = 1
                /\ \A r \in 1..(n + 1) : at[r] \in Nat \ {0}
                /\ \A r \in 1..n : /\ recs[r][1] \in Files /\ recs[r][2] \in Contents
                                   /\ at[r + 1] = at[r] + 1 + Size[recs[r][2]]
                /\ \A q, r \in 1..(n + 1) : q <= r => at[q] <= at[r]
  BY <1>1, PlaceRises
<1>3. PICK flat : /\ Flat(recs) = flat[n] /\ flat[0] = <<>>
                  /\ \A r \in 1..n : flat[r] = flat[r - 1] \o <<Header(recs[r][1], recs[r][2])>>
                                                 \o Body(recs[r][2], 1, Size[recs[r][2]])
  BY <1>1, FlatEquation
<1> DEFINE Good(s, m) == /\ s \in Seq(Block) /\ Len(s) = at[m + 1] - 1
                         /\ \A p \in 1..Len(s) : s[p].kind # "part"
                         /\ \A r \in 1..m : StandsIn(s, at[r], recs[r][1], recs[r][2])
           S == {m \in 0..n : Good(flat[m], m)}
<1>4. Good(flat[0], 0)
  <2>1. <<>> \in Seq(Block) /\ Len(<<>>) = 0 /\ at[0 + 1] - 1 = 0
    BY <1>2
  <2> QED
    BY <1>3, <2>1
<1>5. ASSUME NEW m \in 0..(n - 1), Good(flat[m], m) PROVE Good(flat[m + 1], m + 1)
  <2>1. PICK s \in Seq(Block) : s = flat[m] /\ Good(s, m)
    <3>1. flat[m] \in Seq(Block)
      BY <1>5
    <3> QED
      BY <1>5, <3>1
  <2> HIDE DEF Good
  <2>2. PICK f \in Files, c \in Contents : f = recs[m + 1][1] /\ c = recs[m + 1][2]
    <3>1. m + 1 \in 1..n
      OBVIOUS
    <3>2. recs[m + 1][1] \in Files /\ recs[m + 1][2] \in Contents
      BY <1>2, <3>1
    <3> QED
      BY <3>2
  <2>3. flat[m + 1] = s \o <<Header(f, c)>> \o Body(c, 1, Size[c])
    <3>1. m + 1 \in 1..n /\ (m + 1) - 1 = m
      OBVIOUS
    <3> QED
      BY <1>3, <2>1, <2>2, <3>1
  <2>4. PICK u \in Seq(Block) : /\ u = flat[m + 1] /\ Len(u) = Len(s) + 1 + Size[c]
                                /\ \A p \in 1..Len(s) : u[p] = s[p]
                                /\ StandsIn(u, Len(s) + 1, f, c)
    BY <2>3, RecordBehind
  <2>5. /\ Size[c] \in Nat /\ at[m + 1] = Len(s) + 1 /\ at[m + 2] = Len(u) + 1
        /\ Len(s) \in Nat
    <3>2. Len(s) = at[m + 1] - 1 /\ Len(s) \in Nat
      BY <2>1 DEF Good
    <3>1. at[m + 2] = at[m + 1] + 1 + Size[c] /\ at[m + 1] \in Nat /\ Size[c] \in Nat
      <4>1. m + 1 \in 1..n /\ m + 1 \in 1..(n + 1) /\ (m + 1) + 1 = m + 2
        OBVIOUS
      <4>2. at[(m + 1) + 1] = at[m + 1] + 1 + Size[recs[m + 1][2]] /\ at[m + 1] \in Nat
        BY <1>2, <4>1
      <4> QED
        BY <2>2, <4>1, <4>2, ArchiveAssumption
    <3> QED
      <4>1. Len(u) = Len(s) + 1 + Size[c]
        BY <2>4
      <4>2. at[m + 1] = Len(s) + 1
        BY <3>1, <3>2
      <4>3. at[m + 2] = Len(u) + 1
        <5>1. PICK x \in Nat, y \in Nat : x = Len(s) /\ y = Size[c]
          BY <3>1, <3>2
        <5>2. at[m + 2] = x + 1 + 1 + y
          BY <3>1, <4>2, <5>1
        <5>3. Len(u) = x + 1 + y
          BY <4>1, <5>1
        <5> QED
          BY <5>2, <5>3
      <4> QED
        BY <3>1, <3>2, <4>2, <4>3
  <2>6. ASSUME NEW p \in 1..Len(u) PROVE u[p].kind # "part"
    <3>1. CASE p <= Len(s)
      <4>1. p \in 1..Len(s)
        BY <2>5, <3>1
      <4> QED
        BY <2>1, <2>4, <4>1 DEF Good
    <3>2. CASE p = Len(s) + 1
      BY <2>4, <3>2 DEF StandsIn, Header
    <3>3. CASE p > Len(s) + 1
      <4>1. p - (Len(s) + 1) \in 1..Size[c] /\ (Len(s) + 1) + (p - (Len(s) + 1)) = p
        <5>1. PICK l \in Nat, z \in Nat : l = Len(s) /\ z = Size[c] /\ Len(u) = l + 1 + z
          BY <2>4, <2>5
        <5> QED
          BY <3>3, <5>1
      <4>2. u[p] = Data(c, p - (Len(s) + 1))
        BY <2>4, <4>1 DEF StandsIn
      <4> QED
        BY <4>2 DEF Data
    <3> QED
      BY <2>5, <3>1, <3>2, <3>3
  <2>7. ASSUME NEW r \in 1..(m + 1) PROVE StandsIn(u, at[r], recs[r][1], recs[r][2])
    <3>1. CASE r = m + 1
      BY <2>2, <2>4, <2>5, <3>1
    <3>2. CASE r # m + 1
      <4>1. r \in 1..m /\ r \in 1..n /\ r + 1 \in 1..(n + 1) /\ m + 1 \in 1..(n + 1) /\ r + 1 <= m + 1
        BY <3>2
      <4>2. /\ recs[r][2] \in Contents /\ at[r] \in Nat \ {0} /\ Size[recs[r][2]] \in Nat
            /\ at[r + 1] = at[r] + 1 + Size[recs[r][2]] /\ at[r + 1] <= at[m + 1]
        <5>1. recs[r][2] \in Contents /\ at[r + 1] = at[r] + 1 + Size[recs[r][2]]
          BY <1>2, <4>1
        <5>2. at[r] \in Nat \ {0} /\ at[r + 1] <= at[m + 1]
          BY <1>2, <4>1
        <5> QED
          BY <5>1, <5>2, ArchiveAssumption
      <4>3. at[r] + Size[recs[r][2]] <= Len(s)
        <5>3. at[r] \in Nat /\ Size[recs[r][2]] \in Nat /\ Len(s) \in Nat
          BY <2>5, <4>2
        <5>1. PICK a \in Nat, z \in Nat, b \in Nat : a = at[r] /\ z = Size[recs[r][2]] /\ b = Len(s)
          BY <5>3
        <5>4. at[r + 1] = a + 1 + z /\ at[m + 1] = b + 1
          BY <2>5, <4>2, <5>1
        <5>2. a + 1 + z <= b + 1
          BY <4>2, <5>4
        <5>5. a + z <= b
          BY <5>2
        <5> QED
          BY <5>1, <5>5
      <4>4. StandsIn(s, at[r], recs[r][1], recs[r][2])
        BY <2>1, <4>1 DEF Good
      <4>5. Len(s) <= Len(u) /\ Len(s) \in Nat
        BY <2>4, <2>5
      <4>6. PICK a \in Nat \ {0}, c2 \in Contents : a = at[r] /\ c2 = recs[r][2]
        BY <4>2
      <4>7. StandsIn(s, a, recs[r][1], c2) /\ a + Size[c2] <= Len(s)
        BY <4>3, <4>4, <4>6
      <4>9. PICK l \in Nat : l = Len(s) /\ l <= Len(s) /\ l <= Len(u) /\ \A p \in 1..l : u[p] = s[p]
        BY <2>4, <4>5
      <4>8. StandsIn(u, a, recs[r][1], c2)
        BY <4>7, <4>9, StandsStill, SMTT(20)
      <4> QED
        BY <4>6, <4>8
    <3> QED
      BY <3>1, <3>2
  <2>8. Good(u, m + 1)
    <3>1. Len(u) = at[m + 1 + 1] - 1
      BY <2>5
    <3> QED
      BY <2>6, <2>7, <3>1 DEF Good
  <2> QED
    BY <2>4, <2>8
<1>6. n \in S
  <2> HIDE DEF Good
  <2>1. 0 \in S /\ \A m \in 0..(n - 1) : m \in S => m + 1 \in S
    BY <1>4, <1>5
  <2> HIDE DEF S
  <2>2. 0..n \subseteq S
    BY <2>1, Upwards
  <2> QED
    BY <2>2
<1>7. Good(Flat(recs), n)
  BY <1>3, <1>6
<1> QED
  BY <1>1, <1>2, <1>7

LEMMA OverIsBlocks ==
    ASSUME NEW file \in Seq(Block), NEW at \in Nat, at <= Len(file), NEW blocks \in Seq(Block)
    PROVE  /\ Over(file, at, blocks) \in Seq(Block)
           /\ at + Len(blocks) <= Len(Over(file, at, blocks))
           /\ Len(Over(file, at, blocks)) \in {at + Len(blocks), Len(file)}
           /\ \A j \in 1..at : Over(file, at, blocks)[j] = file[j]
           /\ \A j \in 1..Len(blocks) : Over(file, at, blocks)[at + j] = blocks[j]
<1> DEFINE n == IF at + Len(blocks) > Len(file) THEN at + Len(blocks) ELSE Len(file)
           b(j) == IF j > at /\ j <= at + Len(blocks) THEN blocks[j - at] ELSE file[j]
<1>1. n \in Nat /\ at + Len(blocks) <= n
  OBVIOUS
<1>2. \A j \in 1..n : b(j) \in Block
  <2> SUFFICES ASSUME NEW j \in 1..n PROVE b(j) \in Block
    OBVIOUS
  <2>1. CASE j > at /\ j <= at + Len(blocks)
    <3>1. j - at \in 1..Len(blocks)
      BY <2>1
    <3> QED
      BY <2>1, <3>1
  <2>2. CASE ~(j > at /\ j <= at + Len(blocks))
    <3>1. j \in 1..Len(file)
      BY <2>2
    <3> QED
      BY <2>2, <3>1
  <2> QED
    BY <2>1, <2>2
<1>3. Over(file, at, blocks) = [j \in 1..n |-> b(j)]
  BY DEF Over
<1>4. \A j \in 1..at : j \in 1..n /\ b(j) = file[j]
  BY <1>1
<1>5. \A j \in 1..Len(blocks) : at + j \in 1..n /\ b(at + j) = blocks[j]
  <2>1. \A j \in 1..Len(blocks) : (at + j) - at = j
    OBVIOUS
  <2> QED
    BY <1>1, <2>1
<1>6. n \in {at + Len(blocks), Len(file)}
  OBVIOUS
<1> HIDE DEF n, b
<1> QED
  BY <1>1, <1>2, <1>3, <1>4, <1>5, <1>6

LEMMA PartIsBlocks ==
    ASSUME NEW s \in Seq(Block), NEW from \in Nat \ {0}, NEW to \in Nat, to <= Len(s)
    PROVE  /\ SubSeq(s, from, to) \in Seq(Block)
           /\ from <= to + 1 => Len(SubSeq(s, from, to)) = to - from + 1
<1>1. CASE from <= to
  BY <1>1
<1>2. CASE ~(from <= to)
  BY <1>2
<1> QED
  BY <1>1, <1>2

\* What is left of the archive after a failure.
LEMMA RemainsAreBlocks ==
    ASSUME tar \in Seq(Block), base \in 0..Len(tar), NEW t \in Remains
    PROVE  t \in Seq(Block) /\ base <= Len(t) /\ \A p \in 1..base : t[p] = tar[p]
<1>1. Part \in Block
  BY DEF Block
<1>2. PICK j \in base..Len(tar) : t = SubSeq(tar, 1, j) \/ t = Append(SubSeq(tar, 1, j), Part)
  BY DEF Remains
<1>3. SubSeq(tar, 1, j) \in Seq(Block) /\ Len(SubSeq(tar, 1, j)) = j
  BY <1>2
<1>8. \A p \in 1..base : SubSeq(tar, 1, j)[p] = tar[p] /\ p \in 1..j
  BY <1>2
<1>9. \A p \in 1..base : Append(SubSeq(tar, 1, j), Part)[p] = tar[p]
  <2>1. PICK s \in Seq(Block) : s = SubSeq(tar, 1, j) /\ Len(s) = j /\ \A p \in 1..base : s[p] = tar[p]
    BY <1>3, <1>8
  <2>2. \A p \in 1..j : Append(s, Part)[p] = s[p]
    BY <1>1, <2>1
  <2> QED
    BY <1>8, <2>1, <2>2
<1>4. /\ Append(SubSeq(tar, 1, j), Part) \in Seq(Block)
      /\ Len(Append(SubSeq(tar, 1, j), Part)) = j + 1
  BY <1>1, <1>3
<1>5. base <= j /\ base <= j + 1
  BY <1>2
<1>6. CASE t = SubSeq(tar, 1, j)
  BY <1>3, <1>5, <1>6, <1>8
<1>7. CASE t = Append(SubSeq(tar, 1, j), Part)
  BY <1>4, <1>5, <1>7, <1>9
<1> QED
  BY <1>2, <1>6, <1>7

\* A block of kind "header" names a file and a content.
LEMMA HeaderHolds ==
    ASSUME tar \in Seq(Block), NEW q \in 1..Len(tar), tar[q].kind = "header"
    PROVE  tar[q].file \in Files /\ tar[q].content \in Contents
<1>1. tar[q] \in Block
  OBVIOUS
<1> QED
  BY <1>1 DEF Block, NullRecord, Part

LEMMA InitBackup == Init => BackupInv
<1> SUFFICES ASSUME Init PROVE BackupInv
  OBVIOUS
<1>1. tar \in Seq(Block)
  <2>1. NullRecord \in Block
    BY DEF Block
  <2>2. <<NullRecord>> \in Seq(Block) /\ <<>> \in Seq(Block) /\ Flat(old) \in Seq(Block)
    <3>1. old \in Seq(Files \X Contents)
      BY ArchiveAssumption DEF Init
    <3>2. <<NullRecord>> \in Seq(Block)
      BY <2>1
    <3> QED
      BY <3>1, <3>2, FlatStands
  <2> QED
    BY <2>2 DEF Init
<1>2. lst \in 1..2 /\ nth \in 1..(Len(Lists[lst]) + 1)
  BY ArchiveAssumption DEF Init
<1>3. out \in [Files -> Seq(Block)]
  BY DEF Init
<1> QED
  BY <1>1, <1>2, <1>3, ArchiveAssumption DEF Init, BackupInv, TypeOK, Unpacking, Appended
-----------------------------------------------------------------------------
(***************************************************************************)
(* A backup.                                                               *)
(***************************************************************************)
LEMMA StartBackupStep == BackupInv /\ StartBackup => BackupInv'
<1> SUFFICES ASSUME BackupInv, StartBackup PROVE BackupInv'
  OBVIOUS
<1>1. TypeOK'
  <2>1. nth' \in 1..(Len(Lists[lst']) + 1) /\ lst' \in 1..2
    BY ArchiveAssumption DEF StartBackup
  <2>2. disk' \in [Files -> Contents \cup {None}] /\ runs' \in 0..MaxRuns
    BY ArchiveAssumption DEF StartBackup, Start, BackupInv, TypeOK
  <2>3. tar' \in Seq(Block) /\ base' \in 0..Len(tar') /\ out' \in [Files -> Seq(Block)]
    BY DEF StartBackup, BackupInv, TypeOK, unpackvars
  <2> QED
    BY <2>1, <2>2, <2>3 DEF StartBackup, Start, unpackvars, BackupInv, TypeOK
<1>2. Unpacking'
  BY DEF StartBackup, Start, Unpacking
<1>3. Appended'
  <2>1. /\ step' = "append" /\ lst' = 1 /\ nth' = 1 /\ tar' = tar /\ base' = Len(tar)
        /\ Len(tar) \in Nat
    BY DEF StartBackup, Start, BackupInv, TypeOK
  <2>2. Begin' = Len(tar) + 1
    BY <2>1 DEF Begin
  <2>3. \A l \in 1..2 : \A i \in 1..Len(Lists[l]) : ~Passed(l, i)'
    BY <2>1 DEF Passed
  <2> QED
    BY <2>1, <2>2, <2>3 DEF Appended, Whole
<1> QED
  BY <1>1, <1>2, <1>3 DEF BackupInv

LEMMA SkipStep == BackupInv /\ Skip => BackupInv'
<1> SUFFICES ASSUME BackupInv, Skip PROVE BackupInv'
  OBVIOUS
<1>1. TypeOK'
  <2>1. nth' \in 1..(Len(Lists[lst]) + 1)
    BY ArchiveAssumption DEF Skip, Listed, BackupInv, TypeOK
  <2> QED
    BY <2>1 DEF Skip, unpackvars, BackupInv, TypeOK
<1>2. Unpacking'
  BY DEF Skip, Unpacking
<1>3. Appended'
  <2>1. /\ step = "append" /\ step' = "append" /\ lst' = lst /\ nth' = nth + 1 /\ tar' = tar
        /\ base' = base /\ disk' = disk /\ disk[Lists[lst][nth]] = None /\ nth \in Nat
        /\ lst \in 1..2
    BY ArchiveAssumption DEF Skip, File, BackupInv, TypeOK
  <2>2. Begin' = Begin /\ Whole(base)' = Whole(base)
    BY <2>1 DEF Begin, Holds, InRecord, Whole
  <2>3. ASSUME NEW l \in 1..2, NEW i \in 1..Len(Lists[l]), Passed(l, i)'
        PROVE  Passed(l, i) \/ (l = lst /\ i = nth)
    BY <2>1, <2>3 DEF Passed
  <2>4. \A f, e : Copied(f, e)' <=> Copied(f, e)
    BY <2>1 DEF Copied, Holds
  <2>5. Appended /\ Copied(Lists[lst][nth], Begin)
    BY <2>1 DEF BackupInv, Copied
  <2> QED
    BY <2>1, <2>2, <2>3, <2>4, <2>5 DEF Appended
<1> QED
  BY <1>1, <1>2, <1>3 DEF BackupInv

\* What the archive holds stays when blocks are put behind it.
LEMMA Extended ==
    ASSUME tar \in Seq(Block), tar' \in Seq(Block), Len(tar) <= Len(tar'),
           \A p \in 1..Len(tar) : tar'[p] = tar[p],
           base \in Nat, UNCHANGED <<base, disk>>, disk \in [Files -> Contents \cup {None}],
           NEW e \in 1..(Len(tar) + 1), NEW e2 \in Nat, e <= e2
    PROVE  /\ \A b \in 0..base : \A p \in (b + 1)..(e - 1) : InRecord(b, p, e) => InRecord(b, p, e2)'
           /\ \A f \in Files : Copied(f, e) => Copied(f, e2)'
<1>1. ASSUME NEW p \in 1..(e - 1), NEW f, NEW c \in Contents, Holds(p, f, c)
      PROVE  Holds(p, f, c)'
  <2>1. Size[c] \in Nat /\ p + Size[c] <= Len(tar) /\ p \in Nat \ {0}
    BY <1>1, ArchiveAssumption DEF Holds
  <2>2. tar'[p] = tar[p]
    <3>1. Len(tar) \in Nat /\ p \in 1..Len(tar)
      BY <2>1
    <3> QED
      BY <3>1
  <2>4. ASSUME NEW j \in 1..Size[c] PROVE tar'[p + j] = tar[p + j]
    <3>1. p + j \in 1..Len(tar)
      BY <2>1, <2>4
    <3> QED
      BY <3>1
  <2>3. p + Size[c] <= Len(tar')
    BY <2>1
  <2> QED
    BY <1>1, <2>2, <2>3, <2>4 DEF Holds
<1>2. ASSUME NEW b \in 0..base, NEW p \in (b + 1)..(e - 1), InRecord(b, p, e)
      PROVE  InRecord(b, p, e2)'
  <2>1. PICK q \in (b + 1)..p :
          /\ tar[q].kind = "header" /\ Holds(q, tar[q].file, tar[q].content)
          /\ p <= q + Size[tar[q].content] /\ q + Size[tar[q].content] < e
    BY <1>2 DEF InRecord
  <2>2. q \in 1..Len(tar) /\ q \in 1..(e - 1) /\ tar'[q] = tar[q]
    OBVIOUS
  <2>3. tar[q].content \in Contents /\ Size[tar[q].content] \in Nat
    BY <2>1, <2>2, HeaderHolds, ArchiveAssumption
  <2>4. Holds(q, tar[q].file, tar[q].content)'
    <3>1. PICK f \in Files, c \in Contents : f = tar[q].file /\ c = tar[q].content
      BY <2>1, <2>2, HeaderHolds
    <3>2. Holds(q, f, c)'
      BY <1>1, <2>1, <2>2, <3>1
    <3> QED
      BY <2>2, <3>1, <3>2
  <2>5. tar'[q].kind = "header" /\ p <= q + Size[tar'[q].content] /\ q + Size[tar'[q].content] < e2
    BY <2>1, <2>2, <2>3
  <2> QED
    BY <2>4, <2>5 DEF InRecord
<1>3. ASSUME NEW f \in Files, Copied(f, e) PROVE Copied(f, e2)'
  BY <1>1, <1>3 DEF Copied
<1> QED
  BY <1>2, <1>3

LEMMA WholeAfter ==
    ASSUME NEW b, NEW e, Begin' = e
    PROVE  Whole(b)' <=> \A p \in (b + 1)..(e - 1) : InRecord(b, p, e)'
BY DEF Whole, InRecord

\* What was whole before a step of a backup is whole after it.
Kept == \A b \in 0..base : Whole(b) => Whole(b)'
Grown == Len(tar) <= Len(tar') /\ \A p \in 1..Len(tar) : tar'[p] = tar[p]

LEMMA WriteHeaderStep == BackupInv /\ WriteHeader => BackupInv' /\ Kept /\ Grown
<1> SUFFICES ASSUME BackupInv, WriteHeader PROVE BackupInv' /\ Kept /\ Grown
  OBVIOUS
<1>1. /\ tar \in Seq(Block) /\ lst \in 1..2 /\ nth \in 1..Len(Lists[lst]) /\ File \in Files
      /\ disk[File] \in Contents /\ base \in 0..Len(tar) /\ Size[disk[File]] \in Nat
      /\ disk \in [Files -> Contents \cup {None}]
  BY ArchiveAssumption DEF BackupInv, TypeOK, WriteHeader, Listed, File
<1>2. Header(File, disk[File]) \in Block
  BY <1>1 DEF Header, Block
<1>3. /\ tar' = Append(tar, Header(File, disk[File])) /\ tar' \in Seq(Block)
      /\ Len(tar') = Len(tar) + 1 /\ tar'[Len(tar) + 1] = Header(File, disk[File])
      /\ \A p \in 1..Len(tar) : tar'[p] = tar[p]
  BY <1>1, <1>2 DEF WriteHeader
<1>4. TypeOK'
  BY <1>1, <1>3 DEF WriteHeader, unpackvars, BackupInv, TypeOK
<1>5. Unpacking'
  BY DEF WriteHeader, Unpacking
<1>6. Appended' /\ Kept
  <2>1. /\ step = "append" /\ step' = "body" /\ lst' = lst /\ nth' = nth /\ base' = base
        /\ disk' = disk /\ k' = 0 /\ Listed
    BY DEF WriteHeader
  <2>2. Begin = Len(tar) + 1 /\ Begin' = Len(tar) + 1
    BY <1>1, <1>3, <2>1 DEF Begin
  <2>3. Appended /\ \A l, i : Passed(l, i)' <=> Passed(l, i)
    BY <2>1 DEF BackupInv, Passed
  <2>9. PICK e \in 1..(Len(tar) + 1) : e = Begin /\ e = Begin' /\ e \in Nat
    BY <1>1, <2>2
  <2>10. /\ \A b \in 0..base : \A p \in (b + 1)..(e - 1) : InRecord(b, p, e) => InRecord(b, p, e)'
         /\ \A f \in Files : Copied(f, e) => Copied(f, e)'
    <3>1. /\ tar \in Seq(Block) /\ tar' \in Seq(Block) /\ Len(tar) <= Len(tar')
          /\ base \in Nat /\ UNCHANGED <<base, disk>> /\ e <= e
      BY <1>1, <1>3, <2>1, <2>9
    <3> QED
      BY <1>1, <1>3, <2>9, <3>1, Extended
  <2>11. /\ base < e /\ Whole(base)
         /\ \A l \in 1..2 : \A i \in 1..Len(Lists[l]) : Passed(l, i) => Copied(Lists[l][i], e)
    BY <2>1, <2>3, <2>9 DEF Appended
  <2>4. Kept
    <3> SUFFICES ASSUME NEW b \in 0..base, Whole(b) PROVE Whole(b)'
      BY DEF Kept
    <3>1. \A p \in (b + 1)..(e - 1) : InRecord(b, p, e)
      BY <2>9 DEF Whole
    <3> QED
      BY <2>9, <2>10, <3>1, WholeAfter
  <2>5. \A l \in 1..2 : \A i \in 1..Len(Lists[l]) : Passed(l, i) => Copied(Lists[l][i], Begin)'
    <3>1. \A l \in 1..2 : \A i \in 1..Len(Lists[l]) : Lists[l][i] \in Files
      BY ArchiveAssumption
    <3> QED
      BY <2>9, <2>10, <2>11, <3>1
  <2>6. Listed' /\ File' = File
    BY <2>1 DEF Listed, File
  <2>7. /\ disk'[File'] # None /\ k' <= Size[disk'[File']]
        /\ tar'[Len(tar') - k'] = Header(File', disk'[File'])
        /\ \A j \in 1..k' : tar'[Len(tar') - k' + j] = Data(disk'[File'], j)
    BY <1>1, <1>3, <2>1, <2>6, ArchiveAssumption
  <2>8. base' < Begin' /\ Whole(base)'
    <3>1. base \in 0..base
      BY <1>1
    <3> QED
      BY <2>1, <2>4, <2>9, <2>11, <3>1 DEF Kept
  <2> QED
    BY <1>1, <2>1, <2>2, <2>3, <2>4, <2>5, <2>6, <2>7, <2>8 DEF Appended, Whole
<1>7. Grown
  <2>1. Len(tar) <= Len(tar')
    BY <1>1, <1>3
  <2> QED
    BY <1>3, <2>1 DEF Grown
<1> QED
  BY <1>4, <1>5, <1>6, <1>7 DEF BackupInv

LEMMA WriteChunkStep == BackupInv /\ WriteChunk => BackupInv' /\ Kept /\ Grown
<1> SUFFICES ASSUME BackupInv, WriteChunk PROVE BackupInv' /\ Kept /\ Grown
  OBVIOUS
<1>1. /\ step = "body" /\ Begin = Len(tar) - k /\ Listed
      /\ UNCHANGED <<disk, old, lst, base, torn, runs>> /\ UNCHANGED unpackvars
  BY DEF WriteChunk, Write, BackupInv, Appended, Begin
<1>2. /\ tar \in Seq(Block) /\ lst \in 1..2 /\ nth \in 1..Len(Lists[lst]) /\ k \in Nat
      /\ disk \in [Files -> Contents \cup {None}] /\ base \in 0..Len(tar)
  BY <1>1, ArchiveAssumption DEF BackupInv, TypeOK, Listed
<1>3. File \in Files
  BY <1>2, ArchiveAssumption DEF File
<1>4. /\ disk[File] \in Contents /\ Size[disk[File]] \in Nat /\ k <= Size[disk[File]]
      /\ base < Begin /\ tar[Begin] = Header(File, disk[File])
      /\ \A j \in 1..k : tar[Begin + j] = Data(disk[File], j)
  BY <1>1, <1>2, <1>3, ArchiveAssumption DEF BackupInv, Appended
<1>5. PICK f \in Files, c \in Contents, begin \in Nat, done \in Nat :
          /\ f = File /\ c = disk[File] /\ begin = Begin /\ done = Min2(k + Chunk, Size[disk[File]])
          /\ k <= done /\ done <= Size[c]
  <2>1. Begin \in Nat
    BY <1>1, <1>2, <1>4
  <2> DEFINE last == Min2(k + Chunk, Size[disk[File]])
  <2>2. last \in Nat /\ k <= last /\ last <= Size[disk[File]]
    <3>1. PICK z \in Nat, next \in Nat : z = Size[disk[File]] /\ next = k + Chunk /\ k <= next /\ k <= z
      <4>1. k + Chunk \in Nat /\ k <= k + Chunk
        BY <1>2, ArchiveAssumption
      <4> QED
        BY <1>4, <4>1
    <3> QED
      BY <1>2, <3>1 DEF Min2
  <2> QED
    BY <1>3, <1>4, <2>1, <2>2
<1>6. /\ Body(c, k + 1, done) \in Seq(Block) /\ Len(Body(c, k + 1, done)) = done - k
      /\ \A j \in 1..(done - k) : Body(c, k + 1, done)[j] = Data(c, k + j)
  <2>4. k \in Nat /\ k <= done
    BY <1>2, <1>5
  <2>1. k + 1 \in Nat \ {0} /\ k + 1 <= done + 1 /\ done - (k + 1) + 1 = done - k
    BY <2>4
  <2>2. /\ Body(c, k + 1, done) \in Seq(Block) /\ Len(Body(c, k + 1, done)) = done - k
        /\ \A j \in 1..(done - k) : Body(c, k + 1, done)[j] = Data(c, k + 1 + j - 1)
    BY <2>1, BodyIsBlocks
  <2>3. \A j \in 1..(done - k) : k + 1 + j - 1 = k + j
    BY <1>2, <1>5
  <2> QED
    BY <2>2, <2>3
<1>7. /\ tar' = tar \o Body(c, k + 1, done) /\ k' = done
      /\ done < Size[c] => step' = "body" /\ nth' = nth
      /\ done = Size[c] => step' = "append" /\ nth' = nth + 1
  <2>1. Write(done)
    BY <1>5 DEF WriteChunk
  <2>2. /\ tar' = tar \o Body(c, k + 1, done) /\ k' = done
        /\ IF done >= Size[c] THEN step' = "append" /\ nth' = nth + 1 ELSE UNCHANGED <<step, nth>>
    BY <1>5, <2>1 DEF Write
  <2>3. Size[c] \in Nat
    BY <1>4, <1>5
  <2>4. CASE done < Size[c]
    BY <1>1, <2>2, <2>3, <2>4
  <2>5. CASE done = Size[c]
    BY <2>2, <2>3, <2>5
  <2> QED
    BY <1>5, <2>2, <2>3, <2>4, <2>5
<1>8. tar' \in Seq(Block) /\ Len(tar') = begin + done /\ \A p \in 1..Len(tar) : tar'[p] = tar[p]
  <2>1. PICK body \in Seq(Block) : body = Body(c, k + 1, done) /\ Len(body) = done - k
    BY <1>6
  <2>2. tar' = tar \o body /\ Len(tar) = begin + k
    BY <1>1, <1>2, <1>5, <1>7, <2>1
  <2>3. tar \o body \in Seq(Block) /\ Len(tar \o body) = Len(tar) + Len(body)
    BY <1>2, <2>1
  <2>4. \A p \in 1..Len(tar) : (tar \o body)[p] = tar[p]
    BY <1>2, <2>1
  <2>5. Len(tar) + Len(body) = begin + done
    BY <1>2, <1>5, <2>1, <2>2
  <2> QED
    BY <2>2, <2>3, <2>4, <2>5
<1>9. tar'[begin] = Header(f, c) /\ begin \in (base + 1)..Len(tar)
  <2>1. begin \in (base + 1)..Len(tar)
    BY <1>1, <1>2, <1>4, <1>5
  <2>2. begin \in 1..Len(tar)
    BY <1>2, <2>1
  <2> QED
    BY <1>4, <1>5, <1>8, <2>1, <2>2
<1>10. ASSUME NEW j \in 1..done PROVE tar'[begin + j] = Data(c, j)
  <2>1. CASE j <= k
    <3>1. begin + j \in 1..Len(tar) /\ j \in 1..k
      BY <2>1, <1>1, <1>2, <1>5
    <3> QED
      BY <3>1, <1>4, <1>5, <1>8
  <2>2. CASE ~(j <= k)
    <3>1. j - k \in 1..(done - k) /\ begin + j = Len(tar) + (j - k) /\ k + (j - k) = j
      BY <2>2, <1>1, <1>2, <1>5
    <3>2. tar'[begin + j] = Body(c, k + 1, done)[j - k]
      <4>1. PICK body \in Seq(Block) : body = Body(c, k + 1, done) /\ Len(body) = done - k
        BY <1>6
      <4>2. (tar \o body)[Len(tar) + (j - k)] = body[j - k]
        <5>1. j - k \in 1..Len(body) /\ Len(tar) \in Nat
          BY <1>2, <3>1, <4>1
        <5> QED
          BY <1>2, <4>1, <5>1
      <4> QED
        BY <1>7, <3>1, <4>1, <4>2
    <3> QED
      BY <3>1, <3>2, <1>6
  <2> QED
    BY <2>1, <2>2
<1>11. TypeOK'
  <2>1. base' \in 0..Len(tar')
    BY <1>1, <1>2, <1>5, <1>8, <1>9
  <2>2. nth' \in 1..(Len(Lists[lst']) + 1)
    <3>1. lst' = lst /\ (nth' = nth \/ nth' = nth + 1)
      BY <1>1, <1>4, <1>5, <1>7
    <3>2. Len(Lists[lst]) \in Nat
      BY <1>2, ArchiveAssumption
    <3> QED
      BY <1>2, <3>1, <3>2
  <2>3. step' \in {"body", "append"}
    BY <1>4, <1>5, <1>7
  <2> QED
    BY <1>1, <1>5, <1>7, <1>8, <2>1, <2>2, <2>3 DEF BackupInv, TypeOK, unpackvars
<1>12. Unpacking'
  BY <1>4, <1>5, <1>7 DEF Unpacking
<1>13. Appended /\ begin \in 1..(Len(tar) + 1) /\ Len(tar) <= Len(tar') /\ base \in Nat
  BY <1>1, <1>2, <1>5, <1>8, <1>9 DEF BackupInv
<1>17. Grown
  BY <1>8, <1>13 DEF Grown
<1>14. ASSUME NEW e \in Nat, begin <= e
       PROVE  /\ \A b \in 0..base : Whole(b) => \A p \in (b + 1)..(begin - 1) : InRecord(b, p, e)'
              /\ \A l \in 1..2 : \A i \in 1..Len(Lists[l]) : Passed(l, i) => Copied(Lists[l][i], e)'
  <2>1. /\ \A b \in 0..base : Whole(b) => \A p \in (b + 1)..(begin - 1) : InRecord(b, p, begin)
        /\ \A l \in 1..2 : \A i \in 1..Len(Lists[l]) : Passed(l, i) => Copied(Lists[l][i], begin)
    BY <1>1, <1>5, <1>13 DEF Appended, Whole
  <2>2. \A l \in 1..2 : \A i \in 1..Len(Lists[l]) : Lists[l][i] \in Files
    BY ArchiveAssumption
  <2>3. /\ \A b \in 0..base : \A p \in (b + 1)..(begin - 1) :
             InRecord(b, p, begin) => InRecord(b, p, e)'
        /\ \A g \in Files : Copied(g, begin) => Copied(g, e)'
    BY <1>1, <1>2, <1>8, <1>13, <1>14, Extended
  <2> QED
    BY <2>1, <2>2, <2>3
<1>15. CASE done < Size[c]
  <2>1. step' = "body" /\ nth' = nth /\ Begin' = begin
    BY <1>5, <1>7, <1>8, <1>15 DEF Begin
  <2>2. \A l, i : Passed(l, i)' <=> Passed(l, i)
    BY <1>1, <2>1 DEF Passed
  <2>3. Listed' /\ File' = f /\ disk'[f] = c
    BY <1>1, <1>5, <2>1 DEF Listed, File
  <2>4. /\ disk'[File'] # None /\ k' <= Size[disk'[File']]
        /\ tar'[Len(tar') - k'] = Header(File', disk'[File'])
        /\ \A j \in 1..k' : tar'[Len(tar') - k' + j] = Data(disk'[File'], j)
    <3>1. Len(tar') - k' = begin
      BY <1>5, <1>7, <1>8
    <3> QED
      BY <3>1, <2>3, <1>5, <1>7, <1>9, <1>10, ArchiveAssumption
  <2>8. Kept
    <3> SUFFICES ASSUME NEW b \in 0..base, Whole(b) PROVE Whole(b)'
      BY DEF Kept
    <3>1. begin <= begin
      BY <1>5
    <3>2. \A p \in (b + 1)..(begin - 1) : InRecord(b, p, begin)'
      BY <1>14, <3>1
    <3> QED
      BY <2>1, <3>2, WholeAfter
  <2>5. base' < Begin' /\ Whole(base)'
    <3>1. base \in 0..base /\ Whole(base)
      BY <1>1, <1>2, <1>13 DEF Appended
    <3> QED
      BY <1>1, <1>2, <1>9, <2>1, <2>8, <3>1 DEF Kept
  <2>6. \A l \in 1..2 : \A i \in 1..Len(Lists[l]) : Passed(l, i)' => Copied(Lists[l][i], begin)'
    BY <1>5, <1>14, <2>2
  <2>7. Appended'
    BY <2>1, <2>3, <2>4, <2>5, <2>6 DEF Appended, Copied
  <2> QED
    BY <1>11, <1>12, <1>17, <2>7, <2>8 DEF BackupInv
<1>16. CASE done = Size[c]
  <2>1. step' = "append" /\ nth' = nth + 1 /\ Begin' = begin + done + 1
    BY <1>7, <1>8, <1>16 DEF Begin
  <2>2. PICK e \in Nat : e = begin + done + 1 /\ begin <= e /\ Begin' = e
    BY <1>5, <2>1
  <2>3. Holds(begin, f, c)'
    <3>1. begin + Size[c] <= Len(tar')
      BY <1>5, <1>8, <1>16
    <3> QED
      BY <1>9, <1>10, <1>16, <3>1 DEF Holds
  <2>4. ASSUME NEW b \in 0..base, NEW p \in begin..(begin + done) PROVE InRecord(b, p, e)'
    <3>1. tar'[begin].kind = "header" /\ tar'[begin].file = f /\ tar'[begin].content = c
      BY <1>9 DEF Header
    <3>2. begin \in (b + 1)..p /\ p <= begin + Size[c] /\ begin + Size[c] < e
      <4>1. begin \in (b + 1)..p
        BY <1>2, <1>5, <1>9, <2>4
      <4>2. p <= begin + Size[c] /\ begin + Size[c] < e
        BY <1>5, <1>16, <2>2, <2>4
      <4> QED
        BY <4>1, <4>2
    <3> QED
      BY <2>3, <3>1, <3>2 DEF InRecord, Holds
  <2>8. Kept
    <3> SUFFICES ASSUME NEW b \in 0..base, Whole(b) PROVE Whole(b)'
      BY DEF Kept
    <3>1. \A p \in (b + 1)..(begin - 1) : InRecord(b, p, e)'
      BY <1>14, <2>2
    <3>2. \A p \in begin..(e - 1) : InRecord(b, p, e)'
      BY <2>2, <2>4
    <3>3. \A p \in (b + 1)..(e - 1) : p \in (b + 1)..(begin - 1) \/ p \in begin..(e - 1)
      BY <1>2, <1>5, <2>2
    <3> QED
      BY <2>2, <3>1, <3>2, <3>3, WholeAfter
  <2>5. base' < Begin' /\ Whole(base)'
    <3>1. base \in 0..base /\ Whole(base)
      BY <1>1, <1>2, <1>13 DEF Appended
    <3> QED
      BY <1>1, <1>2, <1>5, <1>9, <2>2, <2>8, <3>1 DEF Kept
  <2>6. ASSUME NEW l \in 1..2, NEW i \in 1..Len(Lists[l]), Passed(l, i)'
        PROVE  Copied(Lists[l][i], e)'
    <3>1. CASE Passed(l, i)
      BY <1>14, <2>2, <3>1
    <3>2. CASE ~Passed(l, i)
      <4>1. l = lst /\ i = nth
        BY <1>1, <1>2, <2>1, <2>6, <3>2 DEF Passed
      <4>2. Lists[l][i] = f /\ disk'[f] = c
        BY <1>1, <1>5, <4>1 DEF File
      <4>3. begin \in (base' + 1)..(e - 1)
        BY <1>1, <1>2, <1>5, <1>9, <2>2
      <4> QED
        BY <2>3, <4>2, <4>3 DEF Copied, Holds
    <3> QED
      BY <3>1, <3>2
  <2>7. Appended'
    BY <2>1, <2>2, <2>5, <2>6 DEF Appended, Copied
  <2> QED
    BY <1>11, <1>12, <1>17, <2>7, <2>8 DEF BackupInv
<1> QED
  BY <1>4, <1>5, <1>15, <1>16

\* Steps that leave a backup behind, and the archive with all that was there before it.
LEMMA Left ==
    ASSUME BackupInv, tar' \in Seq(Block), base \in 0..Len(tar'), step' \in {"idle", "failed", "fault"},
           UNCHANGED <<disk, old, lst, nth, k, base, pos, put, out, cut>>,
           torn' \in {"none", "torn"}, runs' \in 0..MaxRuns
    PROVE  BackupInv'
<1>1. TypeOK'
  BY DEF BackupInv, TypeOK
<1> QED
  BY <1>1 DEF BackupInv, Unpacking, Appended

LEMMA AppendFailStep == BackupInv /\ AppendFail => BackupInv'
<1> SUFFICES ASSUME BackupInv, AppendFail PROVE BackupInv'
  OBVIOUS
<1>1. tar \in Seq(Block) /\ base \in 0..Len(tar) /\ runs \in 0..MaxRuns /\ torn \in {"none", "torn"}
  BY DEF BackupInv, TypeOK
<1>2. tar' \in Seq(Block) /\ base \in 0..Len(tar')
  BY <1>1, RemainsAreBlocks DEF AppendFail
<1> QED
  BY <1>1, <1>2, Left DEF AppendFail, unpackvars

LEMMA PowerCutStep == BackupInv /\ PowerCut => BackupInv'
<1> SUFFICES ASSUME BackupInv, PowerCut PROVE BackupInv'
  OBVIOUS
<1>1. tar \in Seq(Block) /\ base \in 0..Len(tar) /\ runs \in 0..MaxRuns /\ torn \in {"none", "torn"}
  BY DEF BackupInv, TypeOK
<1>2. tar' \in Seq(Block) /\ base \in 0..Len(tar')
  BY <1>1, RemainsAreBlocks DEF PowerCut
<1> QED
  BY <1>1, <1>2, Left DEF PowerCut, unpackvars

LEMMA ListDoneStep == BackupInv /\ ListDone => BackupInv'
<1> SUFFICES ASSUME BackupInv, ListDone PROVE BackupInv'
  OBVIOUS
<1>1. /\ step = "append" /\ ~Listed /\ UNCHANGED <<disk, old, tar, k, base, torn, runs>>
      /\ UNCHANGED unpackvars /\ tar \in Seq(Block)
      /\ \/ lst = 1 /\ lst' = 2 /\ nth' = 1 /\ step' = "append"
         \/ lst # 1 /\ step' = "backed" /\ lst' = lst /\ nth' = nth
  BY DEF ListDone, BackupInv, TypeOK
<1>2. lst \in 1..2 /\ nth \in 1..(Len(Lists[lst]) + 1) /\ \A l \in 1..2 : Len(Lists[l]) \in Nat
  BY ArchiveAssumption DEF BackupInv, TypeOK
<1>3. TypeOK'
  BY <1>1, <1>2 DEF BackupInv, TypeOK, unpackvars
<1>4. Unpacking'
  BY <1>1 DEF Unpacking
<1>5. Begin' = Begin /\ Whole(base)' = Whole(base)
  BY <1>1 DEF Begin, InRecord, Holds, Whole
<1>6. \A f, e : Copied(f, e)' <=> Copied(f, e)
  BY <1>1 DEF Copied, Holds
<1>7. ASSUME NEW l \in 1..2, NEW i \in 1..Len(Lists[l]), Passed(l, i)' PROVE Passed(l, i)
  <2>1. l < lst \/ l = lst
    BY <1>1, <1>2, <1>7 DEF Passed
  <2>2. l = lst => i < nth
    BY <1>1, <1>2, <1>7 DEF Listed
  <2> QED
    BY <2>1, <2>2 DEF Passed
<1>8. Appended'
  BY <1>1, <1>5, <1>6, <1>7 DEF Appended, BackupInv
<1> QED
  BY <1>3, <1>4, <1>8 DEF BackupInv

-----------------------------------------------------------------------------
(***************************************************************************)
(* An unpack.                                                              *)
(***************************************************************************)
LEMMA StartUnpackStep == BackupInv /\ StartUnpack => BackupInv'
<1> SUFFICES ASSUME BackupInv, StartUnpack PROVE BackupInv'
  OBVIOUS
<1>1. disk' \in [Files -> Contents \cup {None}] /\ runs' \in 0..MaxRuns
  BY ArchiveAssumption DEF StartUnpack, Start, BackupInv, TypeOK
<1>2. out' \in [Files -> Seq(Block)]
  BY DEF StartUnpack
<1>3. TypeOK'
  BY <1>1, <1>2 DEF StartUnpack, Start, backupvars, BackupInv, TypeOK
<1> QED
  BY <1>3 DEF StartUnpack, Start, BackupInv, Unpacking, Appended

LEMMA ReadStep == BackupInv /\ (ReadHeader \/ ReadEnd \/ UnpackFail) => BackupInv'
<1> SUFFICES ASSUME BackupInv, ReadHeader \/ ReadEnd \/ UnpackFail PROVE BackupInv'
  OBVIOUS
<1>1. TypeOK'
  <2>1. CASE ReadHeader
    BY <2>1 DEF ReadHeader, backupvars, BackupInv, TypeOK
  <2>2. CASE ReadEnd
    BY <2>2 DEF ReadEnd, backupvars, BackupInv, TypeOK
  <2>3. CASE UnpackFail
    BY <2>3 DEF UnpackFail, backupvars, BackupInv, TypeOK
  <2> QED
    BY <2>1, <2>2, <2>3
<1>2. Appended'
  BY DEF ReadHeader, ReadEnd, UnpackFail, Appended
<1>3. CASE ReadHeader
  <2>1. /\ tar \in Seq(Block) /\ pos \in 1..Len(tar) /\ tar[pos].kind = "header"
        /\ UNCHANGED <<tar, pos, out>> /\ k' = 0 /\ put' = 0
    BY <1>3 DEF ReadHeader, backupvars, BackupInv, TypeOK
  <2>2. tar[pos].file \in Files /\ tar[pos].content \in Contents
    BY <2>1, HeaderHolds
  <2>3. Size[tar[pos].content] \in Nat /\ Len(out[tar[pos].file]) \in Nat
    <3>1. Size[tar[pos].content] \in Nat
      BY <2>2, ArchiveAssumption
    <3>2. out[tar[pos].file] \in Seq(Block)
      BY <2>2 DEF BackupInv, TypeOK
    <3> QED
      BY <3>1, <3>2
  <2> QED
    BY <1>1, <1>2, <2>1, <2>3 DEF BackupInv, Unpacking
<1>4. CASE ReadEnd \/ UnpackFail
  BY <1>1, <1>2, <1>4 DEF BackupInv, Unpacking, ReadEnd, UnpackFail
<1> QED
  BY <1>3, <1>4

\* A turn of the loop of an unpack, with f, c, done and read for the names of Extract.
Turn(f, c, done, read) ==
    /\ f = tar[pos].file /\ c = tar[pos].content /\ Size[c] \in Nat
    /\ k <= done /\ done <= Size[c] /\ pos + done <= Len(tar)
    /\ read = SubSeq(tar, pos + k + 1, pos + done)
    /\ \E wrote \in 0..Len(read) :
         /\ out' = [out EXCEPT ![f] = Over(@, put, SubSeq(read, 1, wrote))]
         /\ put' = put + wrote
         /\ cut' = IF wrote < Len(read) THEN "short" ELSE cut
    /\ k' = done /\ UNCHANGED <<disk, old, runs>> /\ UNCHANGED backupvars
    /\ \/ done = Size[c] /\ step' = "header" /\ pos' = pos + 1 + done
       \/ step' = step /\ pos' = pos

LEMMA Extracted ==
    ASSUME BackupInv, ExtractChunk
    PROVE  \E f \in Files, c \in Contents, done \in Nat, read \in Seq(Block) : Turn(f, c, done, read)
<1>1. /\ step = "extract" /\ tar \in Seq(Block) /\ pos \in 1..Len(tar) /\ k \in Nat /\ put \in Nat
      /\ tar[pos].kind = "header" /\ k <= Size[tar[pos].content]
      /\ put <= Len(out[tar[pos].file]) /\ out \in [Files -> Seq(Block)]
  BY DEF ExtractChunk, Extract, BackupInv, TypeOK, Unpacking
<1>2. PICK f \in Files, c \in Contents : f = tar[pos].file /\ c = tar[pos].content
  BY <1>1, HeaderHolds
<1>3. PICK done \in Nat : done = Done /\ k <= done /\ done <= Size[c] /\ Size[c] \in Nat
  <2>1. Size[c] \in Nat /\ k <= Size[c] /\ k + Chunk \in Nat /\ k <= k + Chunk
    BY <1>1, <1>2, ArchiveAssumption
  <2>2. Done = IF k + Chunk < Size[c] THEN k + Chunk ELSE Size[c]
    BY <1>2 DEF Done, Min2
  <2> QED
    BY <1>1, <2>1, <2>2
<1>4. PICK read \in Seq(Block) : read = SubSeq(tar, pos + k + 1, pos + done)
  <2>1. pos + done <= Len(tar)
    BY <1>3 DEF ExtractChunk, Extract
  <2> DEFINE from == pos + k + 1  to == pos + done
  <2>2. from \in Nat \ {0} /\ to \in Nat /\ to <= Len(tar)
    BY <1>1, <1>3, <2>1
  <2> HIDE DEF from, to
  <2>3. SubSeq(tar, from, to) \in Seq(Block)
    BY <1>1, <2>2, PartIsBlocks
  <2> QED
    BY <2>3 DEF from, to
<1>5. Extract(done, pos + 1 + done)
  BY <1>3 DEF ExtractChunk
<1>6. \E wrote \in 0..Len(read) :
        /\ out' = [out EXCEPT ![f] = Over(@, put, SubSeq(read, 1, wrote))]
        /\ put' = put + wrote
        /\ cut' = IF wrote < Len(read) THEN "short" ELSE cut
  BY <1>2, <1>4, <1>5 DEF Extract
<1>7. /\ k' = done /\ UNCHANGED <<disk, old, runs>> /\ UNCHANGED backupvars
      /\ \/ done = Size[c] /\ step' = "header" /\ pos' = pos + 1 + done
         \/ step' = step /\ pos' = pos
  BY <1>2, <1>5 DEF Extract
<1>8. pos + done <= Len(tar)
  BY <1>5 DEF Extract
<1>9. Turn(f, c, done, read)
  BY <1>2, <1>3, <1>4, <1>6, <1>7, <1>8 DEF Turn
<1> QED
  BY <1>9

LEMMA ExtractChunkStep == BackupInv /\ ExtractChunk => BackupInv'
<1> SUFFICES ASSUME BackupInv, ExtractChunk PROVE BackupInv'
  OBVIOUS
<1>1. /\ step = "extract" /\ tar \in Seq(Block) /\ pos \in 1..Len(tar) /\ k \in Nat /\ put \in Nat
      /\ tar[pos].kind = "header" /\ put <= Len(out[tar[pos].file]) /\ out \in [Files -> Seq(Block)]
  <2>1. step = "extract"
    BY DEF ExtractChunk, Extract
  <2>2. /\ tar \in Seq(Block) /\ k \in Nat /\ put \in Nat /\ pos \in Nat \ {0}
        /\ out \in [Files -> Seq(Block)]
    BY DEF BackupInv, TypeOK
  <2>3. pos <= Len(tar) /\ tar[pos].kind = "header" /\ put <= Len(out[tar[pos].file])
    BY <2>1 DEF BackupInv, Unpacking
  <2> QED
    BY <2>1, <2>2, <2>3
<1>2. PICK f \in Files, c \in Contents, done \in Nat, read \in Seq(Block) : Turn(f, c, done, read)
  BY Extracted
<1>3. PICK wrote \in 0..Len(read) :
        /\ out' = [out EXCEPT ![f] = Over(@, put, SubSeq(read, 1, wrote))]
        /\ put' = put + wrote
        /\ cut' = IF wrote < Len(read) THEN "short" ELSE cut
  BY <1>2 DEF Turn
<1>4. PICK blocks \in Seq(Block) : blocks = SubSeq(read, 1, wrote) /\ Len(blocks) = wrote
  <2>1. SubSeq(read, 1, wrote) \in Seq(Block) /\ Len(SubSeq(read, 1, wrote)) = wrote
    BY <1>3, PartIsBlocks
  <2> QED
    BY <2>1
<1>5. /\ Over(out[f], put, blocks) \in Seq(Block)
      /\ put + wrote <= Len(Over(out[f], put, blocks))
  BY <1>1, <1>2, <1>4, OverIsBlocks DEF Turn
<1>6. out' \in [Files -> Seq(Block)] /\ put' \in Nat /\ put' <= Len(out'[f])
  BY <1>1, <1>3, <1>4, <1>5
<1>7. TypeOK'
  <2>1. cut' \in {"whole", "short"}
    BY <1>3 DEF BackupInv, TypeOK
  <2>2. pos' \in Nat \ {0} /\ step' \in {"header", "extract"}
    BY <1>1, <1>2 DEF Turn
  <2> QED
    BY <1>2, <1>6, <2>1, <2>2 DEF Turn, BackupInv, TypeOK, backupvars
<1>8. Unpacking'
  <2>1. CASE step' = "header"
    BY <2>1 DEF Unpacking
  <2>2. CASE step' = step /\ pos' = pos
    BY <1>1, <1>2, <1>6, <2>2 DEF Turn, Unpacking, backupvars
  <2> QED
    BY <1>2, <2>1, <2>2 DEF Turn
<1>9. Appended'
  BY <1>1, <1>2 DEF Turn, Appended
<1> QED
  BY <1>7, <1>8, <1>9 DEF BackupInv

-----------------------------------------------------------------------------
(***************************************************************************)
(* What was in the archive stays.                                          *)
(***************************************************************************)
LEMMA Grows ==
    ASSUME BackupInv, Next
    PROVE  /\ old' = old
           /\ \/ /\ tar' = tar
                 /\ step' \in {"append", "body", "backed"} =>
                      (step \in {"append", "body"} /\ base' = base) \/ base' = Len(tar)
              \/ /\ step \in {"append", "body"} /\ base' = base /\ base <= Len(tar')
                 /\ \A p \in 1..base : tar'[p] = tar[p]
<1>1. tar \in Seq(Block) /\ base \in 0..Len(tar) /\ \A p \in 1..base : p \in 1..Len(tar)
  BY DEF BackupInv, TypeOK
<1>2. CASE StartBackup
  BY <1>2 DEF StartBackup, Start
<1>3. CASE Skip \/ ListDone
  BY <1>3 DEF Skip, ListDone
<1>4. CASE WriteHeader \/ WriteChunk
  <2>1. Grown
    BY <1>4, WriteHeaderStep, WriteChunkStep
  <2>2. old' = old /\ step \in {"append", "body"} /\ base' = base
    BY <1>4 DEF WriteHeader, WriteChunk, Write
  <2>3. base <= Len(tar')
    <3>1. Len(tar') \in Nat
      BY <1>4, WriteHeaderStep, WriteChunkStep DEF BackupInv, TypeOK
    <3> QED
      BY <1>1, <2>1, <3>1 DEF Grown
  <2> QED
    BY <1>1, <2>1, <2>2, <2>3 DEF Grown
<1>5. CASE AppendFail
  BY <1>1, <1>5, RemainsAreBlocks DEF AppendFail
<1>6. CASE PowerCut
  BY <1>1, <1>6, RemainsAreBlocks DEF PowerCut
<1>7. CASE StartUnpack \/ ReadHeader \/ ReadEnd \/ ExtractChunk \/ UnpackFail
  BY <1>7 DEF StartUnpack, Start, ReadHeader, ReadEnd, ExtractChunk, Extract, UnpackFail, backupvars
<1> QED
  BY <1>2, <1>3, <1>4, <1>5, <1>6, <1>7 DEF Next

\* Blocks s begin with records, one after the other, and a null record.
End(recs) == Place(recs)[Len(recs) + 1]
StandAll(s, recs) ==
    /\ End(recs) <= Len(s) /\ s[End(recs)] = NullRecord
    /\ \A p \in 1..End(recs) : s[p].kind # "part"
    /\ \A r \in 1..Len(recs) : StandsIn(s, Place(recs)[r], recs[r][1], recs[r][2])

LEMMA StandAllStill ==
    ASSUME NEW recs \in Seq(Files \X Contents), NEW s \in Seq(Block), NEW u \in Seq(Block),
           StandAll(s, recs), End(recs) <= Len(u), \A p \in 1..End(recs) : u[p] = s[p]
    PROVE  StandAll(u, recs)
<1>1. /\ \A r \in 1..(Len(recs) + 1) : Place(recs)[r] \in Nat \ {0}
      /\ \A r \in 1..Len(recs) : recs[r][1] \in Files /\ recs[r][2] \in Contents
      /\ \A r \in 1..Len(recs) : Place(recs)[r + 1] = Place(recs)[r] + 1 + Size[recs[r][2]]
      /\ \A q, r \in 1..(Len(recs) + 1) : q <= r => Place(recs)[q] <= Place(recs)[r]
  BY PlaceRises
<1>2. PICK end \in Nat \ {0} : /\ end = End(recs) /\ end <= Len(s) /\ end <= Len(u)
                               /\ \A p \in 1..end : u[p] = s[p]
  <2>1. Len(recs) + 1 \in 1..(Len(recs) + 1)
    OBVIOUS
  <2> QED
    BY <1>1, <2>1 DEF StandAll, End
<1>3. ASSUME NEW r \in 1..Len(recs) PROVE StandsIn(u, Place(recs)[r], recs[r][1], recs[r][2])
  <2>1. r \in 1..(Len(recs) + 1) /\ r + 1 \in 1..(Len(recs) + 1) /\ Len(recs) + 1 \in 1..(Len(recs) + 1)
        /\ r + 1 <= Len(recs) + 1
    OBVIOUS
  <2>2. PICK a \in Nat \ {0}, f \in Files, c \in Contents :
          a = Place(recs)[r] /\ f = recs[r][1] /\ c = recs[r][2]
    BY <1>1, <2>1
  <2>3. a + Size[c] <= end
    <3>1. Place(recs)[r + 1] = a + 1 + Size[c]
      BY <1>1, <2>2
    <3>2. Place(recs)[r + 1] <= end
      BY <1>1, <1>2, <2>1 DEF End
    <3>3. Size[c] \in Nat
      BY ArchiveAssumption
    <3> QED
      BY <3>1, <3>2, <3>3
  <2>4. StandsIn(s, a, f, c)
    BY <2>2 DEF StandAll
  <2>5. StandsIn(u, a, f, c)
    BY <1>2, <2>3, <2>4, StandsStill
  <2> QED
    BY <2>2, <2>5
<1>4. u[end] = NullRecord /\ \A p \in 1..end : u[p].kind # "part"
  BY <1>2 DEF StandAll
<1> QED
  BY <1>2, <1>3, <1>4 DEF StandAll

\* What Laid says of an archive that was there.
LEMMA LaidIs ==
    ASSUME old # <<>>
    PROVE  Laid <=> /\ StandAll(tar, old)
                    /\ step \in {"append", "body", "backed"} => End(old) <= base
BY DEF Laid, StandAll, StandsIn, Holds, End

LEMMA LaidAfter ==
    ASSUME old' # <<>>, StandAll(tar', old'),
           step' \in {"append", "body", "backed"} => End(old') <= base'
    PROVE  Laid'
BY DEF Laid, StandAll, StandsIn, Holds, End

LEMMA InitLaid == Init => Laid
<1> SUFFICES ASSUME Init, old # <<>> PROVE Laid
  BY DEF Laid
<1>1. old \in Seq(Files \X Contents) /\ tar = Flat(old) \o <<NullRecord>> /\ step = "idle"
  BY ArchiveAssumption DEF Init
<1>2. PICK flat \in Seq(Block) :
        /\ flat = Flat(old) /\ Len(flat) = End(old) - 1
        /\ \A p \in 1..Len(flat) : flat[p].kind # "part"
        /\ \A r \in 1..Len(old) : StandsIn(flat, Place(old)[r], old[r][1], old[r][2])
  BY <1>1, FlatStands DEF End
<1>3. PICK null \in Seq(Block) : null = <<NullRecord>> /\ Len(null) = 1 /\ null[1] = NullRecord
  <2>1. PICK b \in Block : b = NullRecord
    BY DEF Block
  <2>2. <<b>> \in Seq(Block) /\ Len(<<b>>) = 1 /\ <<b>>[1] = b
    OBVIOUS
  <2> QED
    BY <2>1, <2>2
<1>4. /\ tar \in Seq(Block) /\ Len(tar) = Len(flat) + 1 /\ tar[Len(flat) + 1] = NullRecord
      /\ \A p \in 1..Len(flat) : tar[p] = flat[p]
  <2>1. 1 \in 1..Len(null) /\ tar = flat \o null
    BY <1>1, <1>2, <1>3
  <2> QED
    BY <1>3, <2>1, Concat
<1>5. PICK n \in Nat : n = Len(flat) /\ n <= Len(flat) /\ n <= Len(tar) /\ End(old) = n + 1
  <2>1. End(old) \in Nat
    <3>1. Len(old) + 1 \in 1..(Len(old) + 1)
      BY <1>1
    <3> QED
      BY <1>1, <3>1, PlaceRises DEF End
  <2> QED
    BY <1>2, <1>4, <2>1
<1>6. \A p \in 1..(n + 1) : tar[p].kind # "part"
  <2>1. \A p \in 1..n : tar[p].kind # "part"
    BY <1>2, <1>4, <1>5
  <2>2. tar[n + 1].kind # "part"
    BY <1>4, <1>5 DEF NullRecord
  <2> QED
    BY <2>1, <2>2
<1>7. ASSUME NEW r \in 1..Len(old) PROVE StandsIn(tar, Place(old)[r], old[r][1], old[r][2])
  <2>1. r \in 1..(Len(old) + 1)
    BY <1>1
  <2>2. PICK a \in Nat \ {0}, f \in Files, c \in Contents :
          a = Place(old)[r] /\ f = old[r][1] /\ c = old[r][2]
    BY <1>1, <2>1, PlaceRises
  <2>3. StandsIn(flat, a, f, c)
    BY <1>2, <2>2
  <2>4. a + Size[c] <= n
    BY <1>5, <2>3 DEF StandsIn
  <2>5. StandsIn(tar, a, f, c)
    BY <1>4, <1>5, <2>3, <2>4, StandsStill
  <2> QED
    BY <2>2, <2>5
<1>8. StandAll(tar, old)
  BY <1>4, <1>5, <1>6, <1>7 DEF StandAll
<1> QED
  BY <1>1, <1>8, LaidIs

LEMMA LaidStep == BackupInv /\ Laid /\ Next /\ BackupInv' => Laid'
<1> SUFFICES ASSUME BackupInv, Laid, Next, BackupInv', old' # <<>> PROVE Laid'
  BY DEF Laid
<1>1. old' = old /\ old # <<>> /\ old \in Seq(Files \X Contents)
  BY Grows DEF BackupInv, TypeOK
<1>2. /\ StandAll(tar, old)
      /\ step \in {"append", "body", "backed"} => End(old) <= base
  BY <1>1, LaidIs
<1>3. CASE /\ tar' = tar
           /\ step' \in {"append", "body", "backed"} =>
                (step \in {"append", "body"} /\ base' = base) \/ base' = Len(tar)
  <2>1. StandAll(tar', old')
    BY <1>1, <1>2, <1>3
  <2>2. ASSUME step' \in {"append", "body", "backed"} PROVE End(old') <= base'
    <3>1. CASE step \in {"append", "body"} /\ base' = base
      BY <1>1, <1>2, <3>1
    <3>2. CASE base' = Len(tar)
      BY <1>1, <1>2, <3>2 DEF StandAll
    <3> QED
      BY <1>3, <2>2, <3>1, <3>2
  <2> QED
    BY <1>1, <2>1, <2>2, LaidAfter
<1>4. CASE /\ step \in {"append", "body"} /\ base' = base /\ base <= Len(tar')
           /\ \A p \in 1..base : tar'[p] = tar[p]
  <2>1. End(old) <= base
    BY <1>2, <1>4
  <2>2. PICK recs, s, u, end : recs = old /\ s = tar /\ u = tar' /\ end = End(old)
    OBVIOUS
  <2>3. end \in Nat
    <3>1. Len(old) + 1 \in 1..(Len(old) + 1)
      BY <1>1
    <3> QED
      BY <1>1, <2>2, <3>1, PlaceRises DEF End
  <2>4. /\ recs \in Seq(Files \X Contents) /\ s \in Seq(Block) /\ u \in Seq(Block)
        /\ StandAll(s, recs)
    BY <1>1, <1>2, <2>2 DEF BackupInv, TypeOK
  <2>5. base \in Nat /\ Len(u) \in Nat
    BY <2>4 DEF BackupInv, TypeOK
  <2>6. end <= Len(u) /\ \A p \in 1..end : u[p] = s[p]
    BY <1>4, <2>1, <2>2, <2>3, <2>5
  <2>7. StandAll(u, recs)
    BY <2>2, <2>4, <2>6, StandAllStill
  <2> QED
    BY <1>1, <1>4, <2>1, <2>2, <2>7, LaidAfter
<1> QED
  BY <1>3, <1>4, Grows

-----------------------------------------------------------------------------
(***************************************************************************)
(* An archive that the updater wrote from nothing.                         *)
(***************************************************************************)
LEMMA WholeSame ==
    ASSUME Begin' = Begin, tar' = tar
    PROVE  Whole(0)' <=> Whole(0)
BY DEF Whole, InRecord, Holds

LEMMA WholeStep ==
    ASSUME BackupInv, Next, torn' = "none", torn = "none" => Whole(0)
    PROVE  Whole(0)'
<1>1. CASE WriteHeader \/ WriteChunk
  <2>1. Kept
    BY <1>1, WriteHeaderStep, WriteChunkStep
  <2>2. torn' = torn /\ 0 \in 0..base
    BY <1>1 DEF WriteHeader, WriteChunk, Write, BackupInv, TypeOK
  <2> QED
    BY <2>1, <2>2 DEF Kept
<1>2. CASE ~(WriteHeader \/ WriteChunk)
  <2>1. CASE AppendFail
    BY <2>1, WholeSame DEF AppendFail, Begin
  <2>2. CASE PowerCut
    BY <2>2, WholeSame DEF PowerCut, Begin
  <2>3. CASE StartBackup \/ Skip \/ ListDone
    BY <2>3, WholeSame DEF StartBackup, Start, Skip, ListDone, Begin
  <2>4. CASE StartUnpack \/ ReadHeader \/ ReadEnd \/ ExtractChunk \/ UnpackFail
    BY <2>4, WholeSame DEF StartUnpack, Start, ReadHeader, ReadEnd, ExtractChunk, Extract,
                           UnpackFail, backupvars, Begin
  <2> QED
    BY <1>2, <2>1, <2>2, <2>3, <2>4 DEF Next
<1> QED
  BY <1>1, <1>2

\* A block of an archive of whole records is of one of them.
LEMMA InOne ==
    ASSUME tar \in Seq(Block), Whole(0), Begin = Len(tar) + 1, NEW p \in 1..Len(tar)
    PROVE  \E q \in 1..p, f \in Files, c \in Contents :
             /\ tar[q] = Header(f, c) /\ p <= q + Size[c]
             /\ \A j \in 1..Size[c] : tar[q + j] = Data(c, j)
<1>1. PICK q \in 1..p : /\ tar[q].kind = "header" /\ Holds(q, tar[q].file, tar[q].content)
                        /\ p <= q + Size[tar[q].content]
  BY DEF Whole, InRecord
<1>2. q \in 1..Len(tar)
  OBVIOUS
<1>3. PICK f \in Files, c \in Contents : f = tar[q].file /\ c = tar[q].content
  BY <1>1, <1>2, HeaderHolds
<1> QED
  BY <1>1, <1>3 DEF Holds

\* It is a header or data, and what a record is read from is a header again.
LEMMA Kinds ==
    ASSUME tar \in Seq(Block), Whole(0), Begin = Len(tar) + 1, NEW p \in 1..Len(tar)
    PROVE  tar[p].kind \in {"header", "data"}
<1>1. PICK q \in 1..p, f \in Files, c \in Contents :
        /\ tar[q] = Header(f, c) /\ p <= q + Size[c]
        /\ \A j \in 1..Size[c] : tar[q + j] = Data(c, j)
  BY InOne
<1>2. CASE p = q
  BY <1>1, <1>2 DEF Header
<1>3. CASE p # q
  <2>1. p - q \in 1..Size[c] /\ q + (p - q) = p
    BY <1>1, <1>3, ArchiveAssumption
  <2>2. tar[p] = Data(c, p - q)
    BY <1>1, <2>1
  <2> QED
    BY <2>2 DEF Data
<1> QED
  BY <1>2, <1>3

LEMMA HeaderOwns ==
    ASSUME tar \in Seq(Block), Whole(0), Begin = Len(tar) + 1, NEW p \in 1..Len(tar),
           tar[p].kind = "header"
    PROVE  \A j \in 1..Size[tar[p].content] : tar[p + j] = Data(tar[p].content, j)
<1>1. PICK q \in 1..p, f \in Files, c \in Contents :
        /\ tar[q] = Header(f, c) /\ p <= q + Size[c]
        /\ \A j \in 1..Size[c] : tar[q + j] = Data(c, j)
  BY InOne
<1>2. CASE p = q
  BY <1>1, <1>2 DEF Header
<1>3. CASE p # q
  <2>1. p - q \in 1..Size[c] /\ q + (p - q) = p
    BY <1>1, <1>3, ArchiveAssumption
  <2>2. tar[p] = Data(c, p - q)
    BY <1>1, <2>1
  <2> QED
    BY <2>2 DEF Data
<1> QED
  BY <1>2, <1>3

LEMMA HeaderBehind ==
    ASSUME tar \in Seq(Block), Whole(0), Begin = Len(tar) + 1, NEW p \in 1..Len(tar),
           tar[p].kind = "header", NEW next \in 1..Len(tar), next = p + 1 + Size[tar[p].content]
    PROVE  tar[next].kind = "header"
<1>1. PICK q \in 1..next, f \in Files, c \in Contents :
        /\ tar[q] = Header(f, c) /\ next <= q + Size[c]
        /\ \A j \in 1..Size[c] : tar[q + j] = Data(c, j)
  BY InOne
<1>2. Size[c] \in Nat /\ Size[tar[p].content] \in Nat
  <2>1. tar[p].content \in Contents
    BY HeaderHolds
  <2> QED
    BY <2>1, ArchiveAssumption
<1>3. CASE q = next
  BY <1>1, <1>3 DEF Header
<1>4. CASE q = p
  <2>1. tar[p].content = c
    BY <1>1, <1>4 DEF Header
  <2> QED
    BY <1>1, <1>2, <1>4, <2>1
\* One that begins before the record holds its header as data.
<1>5. CASE q < p
  <2>3. p < next /\ p \in Nat /\ q \in Nat
    BY <1>2
  <2>1. p - q \in 1..Size[c] /\ q + (p - q) = p
    BY <1>1, <1>2, <1>5, <2>3
  <2>2. tar[p] = Data(c, p - q)
    BY <1>1, <2>1
  <2> QED
    BY <2>2 DEF Data
\* And one that begins in the record has data for a header: it is of the record there.
<1>6. CASE p < q /\ q < next
  <2>1. PICK d \in Contents : d = tar[p].content
    BY HeaderHolds
  <2>2. \A j \in 1..Size[d] : tar[p + j] = Data(d, j)
    BY <2>1, HeaderOwns
  <2>3. q - p \in 1..Size[d] /\ p + (q - p) = q
    BY <1>2, <1>6, <2>1
  <2>4. tar[q] = Data(d, q - p)
    BY <2>2, <2>3
  <2> QED
    BY <1>1, <2>4 DEF Header, Data
<1> QED
  BY <1>3, <1>4, <1>5, <1>6

\* The end of a record is where the next one is looked for.
LEMMA NextRecord ==
    ASSUME BackupInv, ExtractChunk, step' = "header"
    PROVE  /\ pos \in 1..Len(tar) /\ tar[pos].kind = "header" /\ Done = Size[tar[pos].content]
           /\ pos' = pos + 1 + Size[tar[pos].content]
<1>1. Extract(Done, pos + 1 + Done) /\ step = "extract"
  BY DEF ExtractChunk, Extract
<1>2. pos \in 1..Len(tar) /\ tar[pos].kind = "header"
  BY <1>1 DEF BackupInv, TypeOK, Unpacking
<1>3. Done = Size[tar[pos].content] /\ pos' = pos + 1 + Done
  BY <1>1 DEF Extract
<1> QED
  BY <1>2, <1>3

LEMMA InitClean == Init => Clean
BY DEF Init, Clean, Whole, Begin

LEMMA CleanStep == BackupInv /\ Clean /\ Next /\ BackupInv' => Clean'
<1> SUFFICES ASSUME BackupInv, Clean, Next, BackupInv', old' = <<>>, torn' = "none" PROVE Clean'
  BY DEF Clean
<1>1. old = <<>> /\ tar \in Seq(Block) /\ pos \in Nat \ {0}
  BY Grows DEF BackupInv, TypeOK
<1>2. Whole(0)'
  BY <1>1, WholeStep DEF Clean
<1>3. ASSUME step' \in {"header", "extract"}
      PROVE  pos' > Len(tar') \/ tar'[pos'].kind = "header"
  <2>1. /\ StartUnpack \/ ReadHeader \/ ExtractChunk
        /\ tar' = tar /\ torn = "none"
    BY <1>3 DEF Next, StartBackup, Start, Skip, WriteHeader, WriteChunk, Write, AppendFail, ListDone,
                StartUnpack, ReadHeader, ReadEnd, ExtractChunk, Extract, UnpackFail, PowerCut,
                backupvars
  <2>2. Whole(0) /\ Begin = Len(tar) + 1
    BY <1>1, <2>1 DEF Clean, Begin, StartUnpack, Start, ReadHeader, ExtractChunk, Extract
  <2>3. CASE StartUnpack
    <3>1. pos' = 1
      BY <2>3 DEF StartUnpack
    <3>2. CASE Len(tar) = 0
      BY <2>1, <3>1, <3>2
    <3>3. CASE Len(tar) # 0
      <4>1. 1 \in 1..Len(tar)
        BY <1>1, <3>3
      <4>2. PICK q \in 1..1, f \in Files, c \in Contents : tar[q] = Header(f, c)
        BY <1>1, <2>2, <4>1, InOne
      <4> QED
        BY <2>1, <3>1, <4>2 DEF Header
    <3> QED
      BY <3>2, <3>3
  <2>4. CASE ReadHeader
    BY <2>1, <2>4 DEF ReadHeader
  <2>5. CASE ExtractChunk
    <3>1. CASE step' = "header"
      <4>1. /\ pos \in 1..Len(tar) /\ tar[pos].kind = "header"
            /\ pos' = pos + 1 + Size[tar[pos].content]
        BY <2>5, <3>1, NextRecord
      <4>2. CASE pos' > Len(tar)
        BY <2>1, <4>2
      <4>3. CASE ~(pos' > Len(tar))
        <5>1. PICK next \in 1..Len(tar) : next = pos'
          BY <1>1, <4>3 DEF BackupInv, TypeOK
        <5>2. tar[next].kind = "header"
          BY <1>1, <2>2, <4>1, <5>1, HeaderBehind
        <5> QED
          BY <2>1, <5>1, <5>2
      <4> QED
        BY <4>2, <4>3
    <3>2. CASE step' # "header"
      <4>1. pos' = pos /\ step = "extract"
        BY <2>5, <3>2 DEF ExtractChunk, Extract
      <4> QED
        BY <2>1, <4>1 DEF BackupInv, Unpacking
    <3> QED
      BY <3>1, <3>2
  <2> QED
    BY <2>1, <2>3, <2>4, <2>5
<1> QED
  BY <1>2, <1>3 DEF Clean

-----------------------------------------------------------------------------
(***************************************************************************)
(* An unpack of an archive that was there.                                 *)
(***************************************************************************)
\* Record r of the archive, f and c, is at block p.
Record(r, p, f, c) ==
    /\ f = old[r][1] /\ c = old[r][2] /\ p = Place(old)[r] /\ Size[c] \in Nat
    /\ p + Size[c] <= Len(tar) /\ tar[p] = Header(f, c)
    /\ \A j \in 1..Size[c] : tar[p + j] = Data(c, j)
    /\ Place(old)[r + 1] = p + 1 + Size[c]

LEMMA AtRecord ==
    ASSUME BackupInv, Laid, NEW r \in 1..Len(old)
    PROVE  \E p \in Nat \ {0}, f \in Files, c \in Contents : Record(r, p, f, c)
<1>1. old # <<>> /\ old \in Seq(Files \X Contents) /\ Len(old) \in Nat
  BY DEF BackupInv, TypeOK
<1>2. StandsIn(tar, Place(old)[r], old[r][1], old[r][2])
  BY <1>1, LaidIs DEF StandAll
<1>3. r \in 1..(Len(old) + 1)
  BY <1>1
<1>4. PICK p \in Nat \ {0}, f \in Files, c \in Contents :
        /\ p = Place(old)[r] /\ f = old[r][1] /\ c = old[r][2]
        /\ Place(old)[r + 1] = p + 1 + Size[c]
  BY <1>1, <1>3, PlaceRises
<1>5. Record(r, p, f, c)
  BY <1>2, <1>4, ArchiveAssumption DEF StandsIn, Record
<1> QED
  BY <1>5

\* The place behind the last record has the null record, and there is no piece before it.
LEMMA AtEnd ==
    ASSUME BackupInv, Laid, old # <<>>
    PROVE  /\ tar[Place(old)[Len(old) + 1]] = NullRecord
           /\ \A r \in 1..(Len(old) + 1) : \A q \in 1..Place(old)[r] : tar[q].kind # "part"
<1>1. old \in Seq(Files \X Contents) /\ Len(old) \in Nat
  BY DEF BackupInv, TypeOK
<1>2. StandAll(tar, old)
  BY LaidIs
<1>3. ASSUME NEW r \in 1..(Len(old) + 1), NEW q \in 1..Place(old)[r] PROVE tar[q].kind # "part"
  <2>1. Len(old) + 1 \in 1..(Len(old) + 1) /\ r <= Len(old) + 1
    BY <1>1
  <2>2. PICK a \in Nat, e \in Nat : a = Place(old)[r] /\ e = End(old) /\ a <= e
    BY <1>1, <2>1, PlaceRises DEF End
  <2>3. q \in 1..e
    BY <2>2
  <2> QED
    BY <1>2, <2>2, <2>3 DEF StandAll
<1> QED
  BY <1>2, <1>3 DEF StandAll, End

\* Which copies come before a record does not change.
LEMMA CopiesStay ==
    ASSUME old' = old
    PROVE  \A f, r : Before(f, r)' = Before(f, r) /\ Copies(f)' = Copies(f)
BY DEF Before, Copies

\* What is unpacked of a file stays while another one is unpacked.
LEMMA UnpackedStays ==
    ASSUME old' = old, NEW f, NEW r, out'[f] = out[f], Unpacked(f, r)
    PROVE  Unpacked(f, r)'
<1>1. PICK b : b = Before(f, r) /\ Before(f, r)' = b
  BY CopiesStay
<1>2. \A q, m : Staged(f, q, m)' <=> Staged(f, q, m)
  BY DEF Staged
<1> QED
  BY <1>1, <1>2 DEF Unpacked

LEMMA BeforeNext ==
    ASSUME NEW r \in 1..Len(old), NEW g
    PROVE  /\ old[r][1] # g => Before(g, r + 1) = Before(g, r)
           /\ old[r][1] = g => Before(g, r + 1) = Before(g, r) \cup {r}
<1>1. \A q \in Copies(g) : q < r + 1 <=> q < r \/ q = r
  BY DEF Copies
<1> QED
  BY <1>1 DEF Before, Copies

LEMMA InitThrough == Init => Through
BY DEF Init, Through

LEMMA StartThrough == BackupInv /\ StartUnpack => Through'
<1> SUFFICES ASSUME BackupInv, StartUnpack, old' # <<>> PROVE Through'
  BY DEF Through
<1>1. /\ old' = old /\ pos' = 1 /\ step' = "header" /\ out' = [f \in Files |-> <<>>]
      /\ old \in Seq(Files \X Contents)
  BY DEF StartUnpack, Start, BackupInv, TypeOK
<1>2. 1 \in 1..(Len(old') + 1) /\ Place(old')[1] = 1
  BY <1>1, PlaceRises
<1>3. ASSUME NEW f \in Files PROVE Unpacked(f, 1)'
  <2>1. Before(f, 1)' = {}
    BY <1>1 DEF Before, Copies
  <2> QED
    BY <1>1, <2>1 DEF Unpacked
<1> QED
  BY <1>1, <1>2, <1>3 DEF Through

LEMMA HeaderThrough == BackupInv /\ Laid /\ Through /\ ReadHeader => Through'
<1> SUFFICES ASSUME BackupInv, Laid, Through, ReadHeader, old' # <<>> PROVE Through'
  BY DEF Through
<1>1. /\ UNCHANGED <<old, pos, out, cut, tar>> /\ k' = 0 /\ put' = 0 /\ step' = "extract"
      /\ step = "header" /\ tar[pos].kind = "header" /\ old \in Seq(Files \X Contents)
      /\ out \in [Files -> Seq(Block)]
  BY DEF ReadHeader, backupvars, BackupInv, TypeOK
<1>2. PICK r \in 1..(Len(old) + 1) :
        /\ pos = Place(old)[r]
        /\ cut = "whole" => \A f \in Files : Unpacked(f, r)
  BY <1>1 DEF Through
<1>3. r \in 1..Len(old)
  <2>1. r # Len(old) + 1
    BY <1>1, <1>2, AtEnd DEF NullRecord
  <2> QED
    BY <1>1, <2>1
<1>4. ASSUME cut = "whole", NEW f \in Files, f = old[r][1] PROVE Halfway(f, r)'
  <2>1. PICK p \in Nat \ {0}, g \in Files, c \in Contents : Record(r, p, g, c)
    BY <1>3, AtRecord
  <2>2. r \in Copies(f) /\ Size[old[r][2]] \in Nat
    BY <1>3, <1>4, <2>1 DEF Copies, Record
  <2>3. \E q \in Copies(f) : q <= r /\ Len(out[f]) <= Size[old[q][2]]
    <3>1. CASE Before(f, r) = {}
      <4>1. Len(out[f]) = 0
        BY <1>2, <1>4, <3>1 DEF Unpacked
      <4> QED
        BY <2>2, <4>1
    <3>2. CASE Before(f, r) # {}
      <4>1. PICK q \in Before(f, r) : Len(out[f]) <= Size[old[q][2]]
        BY <1>2, <1>4, <3>2 DEF Unpacked
      <4>2. q \in Copies(f) /\ q <= r
        BY DEF Before, Copies
      <4> QED
        BY <4>1, <4>2
    <3> QED
      BY <3>1, <3>2
  <2>4. Len(out[f]) \in Nat
    BY <1>1
  <2>5. Staged(f, r, 0)'
    BY <1>1, <2>4 DEF Staged
  <2> QED
    BY <1>1, <2>3, <2>5, CopiesStay DEF Halfway, Staged
<1>5. ASSUME cut = "whole", NEW f \in Files PROVE Unpacked(f, r)'
  BY <1>1, <1>2, <1>5, UnpackedStays
<1> QED
  BY <1>1, <1>2, <1>3, <1>4, <1>5 DEF Through

\* A whole turn of the loop: the file begins with what has been read of the record.
LEMMA TurnUnpacks ==
    ASSUME BackupInv, step = "extract", NEW r \in 1..Len(old), NEW f \in Files, NEW c \in Contents,
           Record(r, pos, f, c), Halfway(f, r), cut' = "whole",
           NEW done \in Nat, NEW read \in Seq(Block), Turn(f, c, done, read)
    PROVE  /\ cut = "whole" /\ put' = done /\ k' = done
           /\ done <= Len(out'[f]) /\ \A j \in 1..done : out'[f][j] = Data(c, j)
           /\ \E q \in Copies(f) : q <= r /\ Len(out'[f]) <= Size[old[q][2]]
           /\ \A g \in Files : g # f => out'[g] = out[g]
<1>1. /\ tar \in Seq(Block) /\ k \in Nat /\ out \in [Files -> Seq(Block)] /\ pos \in Nat \ {0}
      /\ put = k /\ k <= Len(out[f]) /\ k <= done /\ done <= Size[c] /\ k' = done
      /\ pos + done <= Len(tar) /\ read = SubSeq(tar, pos + k + 1, pos + done)
      /\ \A j \in 1..k : out[f][j] = Data(c, j)
  BY DEF BackupInv, TypeOK, Halfway, Staged, Turn, Record
<1>2. PICK wrote \in 0..Len(read) :
        /\ out' = [out EXCEPT ![f] = Over(@, put, SubSeq(read, 1, wrote))]
        /\ put' = put + wrote
        /\ cut' = IF wrote < Len(read) THEN "short" ELSE cut
  BY DEF Turn
<1>3. wrote = Len(read) /\ cut = "whole"
  BY <1>2
<1>4. Len(read) = done - k /\ \A j \in 1..(done - k) : read[j] = Data(c, k + j)
  <2>1. PICK from \in Nat \ {0}, to \in Nat : /\ from = pos + k + 1 /\ to = pos + done
                                             /\ to <= Len(tar) /\ from <= to + 1
    BY <1>1
  <2>2. Len(read) = to - from + 1
    BY <1>1, <2>1, PartIsBlocks
  <2>3. \A j \in 1..(to - from + 1) : read[j] = tar[from + j - 1]
    BY <1>1, <2>1
  <2>4. \A j \in 1..(done - k) : /\ j \in 1..(to - from + 1) /\ from + j - 1 = pos + (k + j)
                                 /\ k + j \in 1..Size[c]
    <3>1. Size[c] \in Nat
      BY DEF Record
    <3> TAKE j \in 1..(done - k)
    <3>2. j \in 1..(to - from + 1)
      BY <1>1, <2>1
    <3>3. from + j - 1 = pos + (k + j)
      BY <1>1, <2>1
    <3>4. k + j \in 1..Size[c]
      BY <1>1, <3>1
    <3> QED
      BY <3>2, <3>3, <3>4
  <2>5. to - from + 1 = done - k
    BY <1>1, <2>1
  <2> QED
    BY <2>2, <2>3, <2>4, <2>5 DEF Record
<1>5. PICK blocks \in Seq(Block) : /\ blocks = SubSeq(read, 1, wrote) /\ Len(blocks) = done - k
                                   /\ \A j \in 1..(done - k) : blocks[j] = Data(c, k + j)
  <2>4. Len(read) \in Nat
    OBVIOUS
  <2>1. PICK n \in Nat : n = Len(read) /\ n = done - k /\ wrote = n /\ n <= Len(read)
    BY <1>3, <1>4, <2>4
  <2>2. SubSeq(read, 1, n) \in Seq(Block) /\ Len(SubSeq(read, 1, n)) = n
    <3>1. 1 \in Nat \ {0} /\ 1 <= n + 1 /\ n - 1 + 1 = n
      BY <2>1
    <3> QED
      BY <2>1, <3>1, PartIsBlocks
  <2>3. \A j \in 1..n : SubSeq(read, 1, n)[j] = read[j]
    BY <2>1
  <2> QED
    BY <1>4, <2>1, <2>2, <2>3
<1>6. PICK file \in Seq(Block), over \in Seq(Block) :
        /\ file = out[f] /\ over = Over(file, k, blocks) /\ out'[f] = over
        /\ k + Len(blocks) <= Len(over) /\ Len(over) \in {k + Len(blocks), Len(file)}
        /\ \A j \in 1..k : over[j] = file[j]
        /\ \A j \in 1..Len(blocks) : over[k + j] = blocks[j]
  <2>1. PICK file \in Seq(Block) : file = out[f] /\ k <= Len(file)
    BY <1>1
  <2>2. /\ Over(file, k, blocks) \in Seq(Block)
        /\ k + Len(blocks) <= Len(Over(file, k, blocks))
        /\ Len(Over(file, k, blocks)) \in {k + Len(blocks), Len(file)}
        /\ \A j \in 1..k : Over(file, k, blocks)[j] = file[j]
        /\ \A j \in 1..Len(blocks) : Over(file, k, blocks)[k + j] = blocks[j]
    <3>1. k \in Nat
      BY <1>1
    <3> QED
      BY <2>1, <3>1, OverIsBlocks
  <2>3. out'[f] = Over(file, k, blocks)
    BY <1>1, <1>2, <1>5, <2>1
  <2> QED
    BY <2>1, <2>2, <2>3
<1>7. done <= Len(over) /\ Len(over) \in {done, Len(file)}
  <2>1. k + Len(blocks) = done
    <3>1. PICK n \in Int : n = Len(blocks) /\ n = done - k
      BY <1>1, <1>5
    <3> QED
      BY <1>1, <3>1
  <2> QED
    BY <1>6, <2>1
<1>8. ASSUME NEW j \in 1..done PROVE over[j] = Data(c, j)
  <2>1. CASE j <= k
    <3>1. j \in 1..k
      BY <2>1, <1>1
    <3> QED
      BY <1>1, <1>6, <3>1
  <2>2. CASE ~(j <= k)
    <3>1. j - k \in 1..(done - k) /\ k + (j - k) = j
      BY <1>1, <2>2
    <3>2. over[k + (j - k)] = Data(c, k + (j - k))
      BY <1>5, <1>6, <3>1
    <3> QED
      BY <3>1, <3>2
  <2> QED
    BY <2>1, <2>2
<1>9. \E q \in Copies(f) : q <= r /\ Len(over) <= Size[old[q][2]]
  <2>1. CASE Len(over) = done
    <3>1. r \in Copies(f) /\ r <= r /\ done <= Size[old[r][2]]
      BY <1>1 DEF Copies, Record
    <3> QED
      BY <2>1, <3>1
  <2>2. CASE Len(over) = Len(file)
    BY <1>6, <2>2 DEF Halfway
  <2> QED
    BY <1>7, <2>1, <2>2
<1>10. put' = done
  BY <1>1, <1>2, <1>3, <1>4
<1>11. \A g \in Files : g # f => out'[g] = out[g]
  BY <1>1, <1>2
<1> QED
  BY <1>1, <1>3, <1>6, <1>7, <1>8, <1>9, <1>10, <1>11

LEMMA ExtractThrough == BackupInv /\ Laid /\ Through /\ ExtractChunk => Through'
<1> SUFFICES ASSUME BackupInv, Laid, Through, ExtractChunk, old' # <<>> PROVE Through'
  BY DEF Through
<1>1. PICK f \in Files, c \in Contents, done \in Nat, read \in Seq(Block) : Turn(f, c, done, read)
  BY Extracted
<1>2. /\ old' = old /\ step = "extract" /\ old \in Seq(Files \X Contents) /\ Len(old) \in Nat
      /\ cut \in {"whole", "short"} /\ cut' \in {"whole", "short"}
  <2>1. cut' \in {"whole", "short"}
    BY ExtractChunkStep DEF BackupInv, TypeOK
  <2> QED
    BY <1>1, <2>1 DEF Turn, ExtractChunk, Extract, BackupInv, TypeOK
<1>3. PICK r \in 1..Len(old) :
        /\ pos = Place(old)[r]
        /\ cut = "whole" => \A g \in Files :
             IF g = old[r][1] THEN Halfway(g, r) ELSE Unpacked(g, r)
  BY <1>2 DEF Through
<1>4. Record(r, pos, f, c)
  <2>1. PICK p \in Nat \ {0}, g \in Files, d \in Contents : Record(r, p, g, d)
    BY AtRecord
  <2>2. p = pos /\ g = f /\ d = c
    BY <1>1, <1>3, <2>1 DEF Record, Turn, Header
  <2> QED
    BY <2>1, <2>2
<1>5. ASSUME cut' = "whole"
      PROVE  /\ put' = done /\ k' = done
             /\ done <= Len(out'[f]) /\ \A j \in 1..done : out'[f][j] = Data(c, j)
             /\ \E q \in Copies(f) : q <= r /\ Len(out'[f]) <= Size[old[q][2]]
             /\ \A g \in Files : g # f => Unpacked(g, r) /\ out'[g] = out[g]
  <2>1. cut = "whole"
    BY <1>1, <1>2, <1>5 DEF Turn
  <2>2. Halfway(f, r) /\ \A g \in Files : g # f => Unpacked(g, r)
    BY <1>3, <1>4, <2>1 DEF Record
  <2> QED
    BY <1>1, <1>2, <1>4, <1>5, <2>2, TurnUnpacks
<1>6. old'[r][2] = c /\ old'[r][1] = f /\ r \in Copies(f) /\ r < r + 1
  BY <1>2, <1>4 DEF Record, Copies
<1>7. CASE step' = step /\ pos' = pos
  <2>1. r \in 1..(Len(old') + 1) /\ r <= Len(old') /\ pos' = Place(old')[r]
    <3>1. r \in 1..(Len(old) + 1) /\ r <= Len(old)
      BY <1>2
    <3> QED
      BY <1>2, <1>3, <1>7, <3>1
  <2>2. ASSUME cut' = "whole" PROVE Halfway(f, r)'
    <3>1. Staged(f, r, k)'
      BY <1>5, <1>6, <2>2 DEF Staged
    <3>2. \E q \in Copies(f)' : q <= r /\ Len(out'[f]) <= Size[old'[q][2]]
      <4>1. PICK q \in Copies(f) : q <= r /\ Len(out'[f]) <= Size[old[q][2]]
        BY <1>5, <2>2
      <4>2. q \in Copies(f)'
        BY <1>2, <4>1, CopiesStay
      <4> QED
        BY <1>2, <4>1, <4>2
    <3> QED
      BY <1>5, <2>2, <3>1, <3>2 DEF Halfway
  <2>3. ASSUME cut' = "whole", NEW g \in Files, g # f PROVE Unpacked(g, r)'
    BY <1>2, <1>5, <2>3, UnpackedStays
  <2> QED
    BY <1>2, <1>6, <1>7, <2>1, <2>2, <2>3 DEF Through
<1>8. CASE done = Size[c] /\ step' = "header" /\ pos' = pos + 1 + done
  <2>1. r + 1 \in 1..(Len(old') + 1) /\ pos' = Place(old')[r + 1]
    BY <1>2, <1>4, <1>8 DEF Record
  <2>2. ASSUME cut' = "whole" PROVE Unpacked(f, r + 1)'
    <3>1. PICK b : /\ b = Before(f, r + 1)' /\ r \in b /\ \A q \in b : q < r + 1 /\ q \in Nat
                   /\ \A q \in Copies(f) : q <= r => q \in b
      <4>1. \A q \in Copies(f) : q \in Nat /\ q <= r => q < r + 1
        BY <1>2 DEF Copies
      <4>2. \A q \in Before(f, r + 1) : q < r + 1 /\ q \in Nat
        BY <1>2 DEF Before, Copies
      <4>3. r \in Before(f, r + 1) /\ \A q \in Copies(f) : q <= r => q \in Before(f, r + 1)
        BY <1>6, <4>1 DEF Before
      <4>4. Before(f, r + 1)' = Before(f, r + 1)
        BY <1>2, CopiesStay
      <4> QED
        BY <4>2, <4>3, <4>4
    <3>2. \E q \in b : Len(out'[f]) <= Size[old'[q][2]]
      BY <1>2, <1>5, <2>2, <3>1
    <3>3. Staged(f, r, Size[c])'
      BY <1>5, <1>6, <1>8, <2>2 DEF Staged
    <3>4. ASSUME NEW q \in b, \A s \in b : s <= q PROVE Staged(f, q, Size[old[q][2]])'
      <4>1. q = r
        BY <3>1, <3>4
      <4> QED
        BY <1>2, <1>6, <3>3, <4>1 DEF Staged
    <3> QED
      BY <1>2, <3>1, <3>2, <3>4 DEF Unpacked
  <2>3. ASSUME cut' = "whole", NEW g \in Files, g # f PROVE Unpacked(g, r + 1)'
    <3>1. Unpacked(g, r + 1)
      <4>1. Before(g, r + 1) = Before(g, r)
        BY <1>2, <1>6, <2>3, BeforeNext
      <4> QED
        BY <1>5, <2>3, <4>1 DEF Unpacked
    <3> QED
      BY <1>2, <1>5, <2>3, <3>1, UnpackedStays
  <2>4. \A g \in Files : cut' = "whole" => Unpacked(g, r + 1)'
    BY <2>2, <2>3
  <2> QED
    BY <1>8, <2>1, <2>4 DEF Through
<1> QED
  BY <1>1, <1>7, <1>8 DEF Turn

LEMMA ThroughStep == BackupInv /\ Laid /\ Through /\ Next /\ BackupInv' => Through'
<1> SUFFICES ASSUME BackupInv, Laid, Through, Next PROVE Through'
  OBVIOUS
<1>1. CASE StartUnpack \/ ReadHeader \/ ExtractChunk
  BY <1>1, StartThrough, HeaderThrough, ExtractThrough
<1>2. CASE ~(StartUnpack \/ ReadHeader \/ ExtractChunk)
  <2>1. ~(step' \in {"header", "extract"})
    BY <1>2 DEF Next, StartBackup, Start, Skip, WriteHeader, WriteChunk, Write, AppendFail,
                ListDone, ReadEnd, UnpackFail, PowerCut
  <2> QED
    BY <2>1 DEF Through
<1> QED
  BY <1>1, <1>2

-----------------------------------------------------------------------------
(***************************************************************************)
(* What an unpack that succeeds has restored.                              *)
(***************************************************************************)
LEMMA EndRestores ==
    ASSUME BackupInv, Laid, Clean, Through, ReadEnd
    PROVE  Restored'
<1>1. /\ step = "header" /\ pos \in 1..Len(tar) /\ ReadsNull(pos) /\ UNCHANGED <<old, out, cut, torn>>
      /\ tar \in Seq(Block) /\ old \in Seq(Files \X Contents) /\ torn \in {"none", "torn"}
      /\ out \in [Files -> Seq(Block)]
  BY DEF ReadEnd, backupvars, BackupInv, TypeOK
<1>2. ASSUME old = <<>> PROVE torn = "torn"
  <2> SUFFICES ASSUME torn = "none" PROVE FALSE
    BY <1>1
  <2>1. Whole(0) /\ Begin = Len(tar) + 1 /\ tar[pos].kind = "header"
    BY <1>1, <1>2 DEF Clean, Begin
  <2>2. \A q \in 1..(pos - 1) : tar[q].kind # "part"
    <3> TAKE q \in 1..(pos - 1)
    <3>1. q \in 1..Len(tar)
      BY <1>1
    <3> QED
      BY <1>1, <2>1, <3>1, Kinds
  <2> QED
    BY <1>1, <2>1, <2>2 DEF ReadsNull
<1>3. ASSUME old # <<>>, cut = "whole", NEW f \in Files
      PROVE  /\ Copies(f) = {} => out[f] = <<>>
             /\ \A r \in Copies(f) :
                  (\A q \in Copies(f) : q <= r /\ Size[old[q][2]] <= Size[old[r][2]])
                    => out[f] = Body(old[r][2], 1, Size[old[r][2]])
  <2>1. PICK n \in 1..(Len(old) + 1) : pos = Place(old)[n] /\ Unpacked(f, n)
    BY <1>1, <1>3 DEF Through
  <2>2. n = Len(old) + 1
    <3> SUFFICES ASSUME n \in 1..Len(old) PROVE FALSE
      BY <1>1
    <3>1. PICK p \in Nat \ {0}, g \in Files, c \in Contents : Record(n, p, g, c)
      BY AtRecord
    <3>2. tar[pos].kind = "header"
      BY <2>1, <3>1 DEF Record, Header
    <3>3. \A q \in 1..(pos - 1) : tar[q].kind # "part"
      <4>1. \A q \in 1..(pos - 1) : q \in 1..pos
        BY <1>1
      <4> QED
        BY <1>3, <2>1, <4>1, AtEnd
    <3> QED
      BY <1>1, <3>2, <3>3 DEF ReadsNull
  <2>3. Before(f, n) = Copies(f)
    BY <1>1, <2>2 DEF Before, Copies
  <2>4. ASSUME NEW r \in Copies(f),
               \A q \in Copies(f) : q <= r /\ Size[old[q][2]] <= Size[old[r][2]]
        PROVE  out[f] = Body(old[r][2], 1, Size[old[r][2]])
    <3>1. PICK c \in Contents, m \in Nat : c = old[r][2] /\ m = Size[c]
      <4>1. r \in 1..Len(old)
        BY DEF Copies
      <4> QED
        BY <1>1, <4>1, PlaceRises, ArchiveAssumption
    <3>2. m <= Len(out[f]) /\ \A j \in 1..m : out[f][j] = Data(c, j)
      BY <2>1, <2>3, <2>4, <3>1 DEF Unpacked, Staged
    <3>3. PICK q \in Copies(f) : Len(out[f]) <= Size[old[q][2]]
      BY <2>1, <2>3, <2>4 DEF Unpacked
    <3>4. PICK file \in Seq(Block) : file = out[f]
      BY <1>1
    <3>5. Len(file) = m
      <4>1. PICK z \in Nat : z = Size[old[q][2]] /\ z <= m
        <5>1. q \in 1..Len(old)
          BY DEF Copies
        <5>2. old[q][2] \in Contents
          BY <1>1, <5>1, PlaceRises
        <5> QED
          BY <2>4, <3>1, <5>2, ArchiveAssumption
      <4> QED
        BY <3>2, <3>3, <3>4, <4>1
    <3>6. /\ Body(c, 1, m) \in Seq(Block) /\ Len(Body(c, 1, m)) = m
          /\ \A j \in 1..m : Body(c, 1, m)[j] = Data(c, j)
      BY WholeBody
    <3>7. PICK body \in Seq(Block) : /\ body = Body(c, 1, m) /\ Len(body) = m
                                     /\ \A j \in 1..m : body[j] = file[j]
      BY <3>2, <3>4, <3>6
    <3>8. file = body
      BY <3>5, <3>7
    <3> QED
      BY <3>1, <3>4, <3>7, <3>8
  <2> QED
    BY <2>1, <2>3, <2>4 DEF Unpacked
<1> QED
  BY <1>1, <1>2, <1>3 DEF Restored, Copies

LEMMA RestoredStep == AInv /\ Restored /\ [Next]_vars => Restored'
<1> SUFFICES ASSUME AInv, Restored, [Next]_vars PROVE Restored'
  OBVIOUS
<1>1. CASE UNCHANGED vars
  BY <1>1 DEF vars, Restored, Copies
<1>2. CASE ReadEnd
  BY <1>2, EndRestores DEF AInv
<1>3. CASE Next /\ ~ReadEnd
  <2>1. step' # "unpacked"
    <3>1. step \in {"idle", "append", "body", "header", "extract", "backed", "unpacked",
                    "failed", "fault"}
      BY DEF AInv, BackupInv, TypeOK
    <3> QED
      BY <1>3, <3>1 DEF Next, StartBackup, Start, Skip, WriteHeader, WriteChunk, Write, AppendFail,
                  ListDone, StartUnpack, ReadHeader, ExtractChunk, Extract, UnpackFail, PowerCut
  <2> QED
    BY <2>1 DEF Restored
<1> QED
  BY <1>1, <1>2, <1>3

-----------------------------------------------------------------------------
LEMMA BackupStep == BackupInv /\ Next => BackupInv'
BY StartBackupStep, SkipStep, WriteHeaderStep, WriteChunkStep, AppendFailStep, ListDoneStep,
   StartUnpackStep, ReadStep, ExtractChunkStep, PowerCutStep DEF Next

LEMMA UnchangedAInv == AInv /\ UNCHANGED vars => AInv'
<1> SUFFICES ASSUME AInv, UNCHANGED vars PROVE AInv'
  OBVIOUS
<1>1. TypeOK' /\ Unpacking'
  BY DEF AInv, BackupInv, TypeOK, Unpacking, vars
<1>2. Appended'
  <2>1. Begin' = Begin /\ (Whole(base)' <=> Whole(base))
    BY DEF Whole, InRecord, Holds, Begin, vars
  <2>2. /\ \A l, i : Passed(l, i)' <=> Passed(l, i)
        /\ \A f, e : Copied(f, e)' <=> Copied(f, e)
    BY DEF Passed, Copied, Holds, vars
  <2>3. Appended /\ (Listed' <=> Listed) /\ File' = File
    BY DEF AInv, BackupInv, Listed, File, vars
  <2> QED
    BY <2>1, <2>2, <2>3 DEF Appended, vars
<1>3. Laid' /\ Clean'
  BY DEF AInv, Laid, Clean, Whole, InRecord, Holds, Begin, vars
<1>4. Through'
  BY DEF AInv, Through, Halfway, Unpacked, Staged, Before, Copies, vars
<1> QED
  BY <1>1, <1>2, <1>3, <1>4 DEF AInv, BackupInv

(***************************************************************************)
(* Whatever backups and unpacks come before and are cut short, a backup    *)
(* that succeeds has put a whole record of every installed file it names   *)
(* behind what the archive held, and nothing between them; what was there  *)
(* stays in its place, and an unpack goes through it record by record.     *)
(***************************************************************************)
THEOREM ArchiveInvariant == Spec => []AInv
<1>1. Init => AInv
  BY InitBackup, InitLaid, InitClean, InitThrough DEF AInv
<1>2. AInv /\ [Next]_vars => AInv'
  BY UnchangedAInv, BackupStep, LaidStep, CleanStep, ThroughStep DEF AInv
<1> QED
  BY <1>1, <1>2, PTL DEF Spec

(***************************************************************************)
(* What an unpack that succeeds has restored: never anything of an archive *)
(* that the updater wrote from nothing and was not torn; of another one,   *)
(* each file as the last of its longest copies before the null record has  *)
(* it, and nothing that a backup put behind that record.                   *)
(***************************************************************************)
THEOREM RestoresWhatWasThere == Spec => []Restored
<1>1. Init => Restored
  BY DEF Init, Restored
<1>2. AInv /\ Restored /\ [Next]_vars => Restored'
  BY RestoredStep
<1> QED
  BY <1>1, <1>2, ArchiveInvariant, PTL DEF Spec

=============================================================================
