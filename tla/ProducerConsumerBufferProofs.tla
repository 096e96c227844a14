-------------------- MODULE ProducerConsumerBufferProofs --------------------
(***************************************************************************)
(* Proofs about the producer-consumer buffer, for any sizes, any number of  *)
(* characters and blocks and any number of outstanding requests: nothing    *)
(* written is lost, repeated or reordered on its way to the reads.          *)
(*                                                                         *)
(* The sections go from what the operators on blocks compute (FlattenSeq,   *)
(* Taken, Purged), over what a read, a write and fulfill_outstanding do to  *)
(* a buffer, to the invariant IInv and one lemma for each action.           *)
(***************************************************************************)
EXTENDS ProducerConsumerBuffer, FiniteSetTheorems, SequenceTheorems, TLAPS

\* Induction, over a set instead of a predicate: a least counterexample would be
\* the number of those before it.
LEMMA NaturalInduction ==
  ASSUME NEW S, 0 \in S, \A n \in Nat : n \in S => n + 1 \in S
  PROVE  \A n \in Nat : n \in S
<1> SUFFICES ASSUME NEW n \in Nat, n \notin S
             PROVE  FALSE
  OBVIOUS
<1> DEFINE reached == {i \in 0..n : \A j \in 0..i : j \in S}
           k == Cardinality(reached)
<1>1. /\ IsFiniteSet(0..n)
      /\ reached \in SUBSET (0..n)
  BY FS_Interval
<1>2. IsFiniteSet(reached) /\ k \in Nat
  BY <1>1, FS_Subset, FS_CardinalityType
<1>a. /\ 0 \in reached
      /\ \A i \in reached : i \in 0..n /\ \A j \in 0..i : j \in reached /\ j \in S
      /\ \A i \in reached : i + 1 \in reached
  <2>1. 0 \in reached
    OBVIOUS
  <2>2. \A i \in reached : i \in 0..n /\ \A j \in 0..i : j \in reached /\ j \in S
    OBVIOUS
  <2>3. ASSUME NEW i \in reached
        PROVE  i + 1 \in reached
    <3>1. i \in Nat /\ i \in S /\ i # n /\ i <= n
      BY <2>2
    <3>2. i + 1 \in S /\ i + 1 \in 0..n
      BY <3>1
    <3>3. \A j \in 0..(i + 1) : j \in S
      BY <2>2, <3>1, <3>2
    <3> QED
      BY <3>2, <3>3
  <2> QED
    BY <2>1, <2>2, <2>3
<1>b. k # 0
  BY <1>2, <1>a, FS_EmptySet
<1> HIDE DEF reached, k
<1>3. CASE k - 1 \in reached
  <2>1. k \in reached
    BY <1>2, <1>3, <1>a
  <2>2. 0..k \in SUBSET reached
    BY <2>1, <1>a
  <2>3. Cardinality(0..k) = k + 1
    BY <1>2, FS_Interval
  <2>4. Cardinality(0..k) <= Cardinality(reached)
    BY <1>2, <2>2, FS_Subset
  <2> QED
    BY <1>2, <2>3, <2>4 DEF k
<1>4. CASE k - 1 \notin reached
  <2>1. \A i \in reached : i < k - 1
    BY <1>2, <1>4, <1>a, <1>b
  <2>2. reached \in SUBSET (0..(k - 2))
    BY <2>1, <1>2, <1>a
  <2>3. IsFiniteSet(0..(k - 2)) /\ Cardinality(0..(k - 2)) = k - 1
    <3>1. k - 2 \in Int /\ 0 \in Int
      BY <1>2
    <3>2. /\ IsFiniteSet(0..(k - 2))
          /\ Cardinality(0..(k - 2)) = IF 0 > k - 2 THEN 0 ELSE (k - 2) - 0 + 1
      BY <3>1, FS_Interval
    <3> QED
      BY <1>2, <1>b, <3>2
  <2>4. Cardinality(reached) <= Cardinality(0..(k - 2))
    BY <2>2, <2>3, FS_Subset
  <2> QED
    BY <1>2, <2>3, <2>4 DEF k
<1> QED
  BY <1>3, <1>4

----------------------------------------------------------------------------
(* Flattening                                                              *)

\* f[i] is the concatenation of the first i sequences of ds, i up to n.
IsFlat(f, ds, n) ==
  f = [i \in 1..n |-> IF i = 1 THEN ds[i] ELSE f[i - 1] \o ds[i]]

\* Each part is the one before with one more sequence behind it.
LEMMA FlatAt ==
  ASSUME NEW f, NEW ds, NEW n \in Nat, IsFlat(f, ds, n)
  PROVE  \A i \in 1..n : f[i] = IF i = 1 THEN ds[i] ELSE f[i - 1] \o ds[i]
  BY DEF IsFlat

\* It can be built for any number of sequences ...
LEMMA FlatExists ==
  ASSUME NEW ds
  PROVE  \A n \in Nat : \E f : IsFlat(f, ds, n)
<1> DEFINE S == {n \in Nat : \E f : IsFlat(f, ds, n)}
<1>1. 0 \in S
  <2> DEFINE f == [i \in 1..0 |-> ds]
  <2>1. f = [i \in 1..0 |-> IF i = 1 THEN ds[i] ELSE f[i - 1] \o ds[i]]
    OBVIOUS
  <2> QED
    BY <2>1 DEF IsFlat
<1>2. ASSUME NEW n \in Nat, n \in S
      PROVE  n + 1 \in S
  <2>1. PICK f : IsFlat(f, ds, n)
    BY <1>2
  <2> DEFINE g == [i \in 1..(n + 1) |-> IF i = 1 THEN ds[i]
                                        ELSE IF i = n + 1 THEN f[n] \o ds[i] ELSE f[i]]
  <2>b. \A i \in 1..n : f[i] = IF i = 1 THEN ds[i] ELSE f[i - 1] \o ds[i]
    BY <2>1, FlatAt
  <2>c. /\ g = [i \in 1..(n + 1) |-> g[i]]
        /\ \A i \in 1..(n + 1) : g[i] = IF i = 1 THEN ds[i]
                                        ELSE IF i = n + 1 THEN f[n] \o ds[i] ELSE f[i]
    OBVIOUS
  <2> HIDE DEF g
  <2>a. ASSUME NEW k \in 1..n
        PROVE  g[k] = f[k]
    <3>1. k \in 1..(n + 1) /\ k # n + 1
      OBVIOUS
    <3>2. k = 1 => f[k] = ds[k]
      BY <2>b
    <3> QED
      BY <3>1, <3>2, <2>c
  <2>2. ASSUME NEW i \in 1..(n + 1)
        PROVE  g[i] = IF i = 1 THEN ds[i] ELSE g[i - 1] \o ds[i]
    <3>1. CASE i = 1
      BY <3>1, <2>c
    <3>2. CASE i # 1
      <4>1. i - 1 \in 1..n /\ i - 1 \in 1..(n + 1) /\ i - 1 # n + 1
        BY <3>2
      <4>2. g[i - 1] = f[i - 1]
        BY <4>1, <2>a
      <4>3. CASE i = n + 1
        <5>1. i - 1 = n
          BY <4>3
        <5>2. g[i] = f[n] \o ds[i]
          BY <3>2, <4>3, <2>c
        <5>3. g[i - 1] = f[n]
          BY <4>2, <5>1
        <5> QED
          BY <3>2, <5>2, <5>3
      <4>4. CASE i # n + 1
        <5>1. i \in 1..n
          BY <4>4
        <5>2. f[i] = f[i - 1] \o ds[i]
          BY <5>1, <3>2, <2>b
        <5> QED
          BY <3>2, <4>2, <4>4, <5>2, <2>c
      <4> QED
        BY <4>3, <4>4
    <3> QED
      BY <3>1, <3>2
  <2>3. g = [i \in 1..(n + 1) |-> IF i = 1 THEN ds[i] ELSE g[i - 1] \o ds[i]]
    BY <2>c, <2>2
  <2>4. IsFlat(g, ds, n + 1)
    BY <2>3 DEF IsFlat
  <2> QED
    BY <2>4
<1> HIDE DEF S
<1>3. \A n \in Nat : n \in S
  BY <1>1, <1>2, NaturalInduction
<1> QED
  BY <1>3 DEF S

\* What is built on the way does not depend on what comes behind.
LEMMA FlatUnique ==
  ASSUME NEW n \in Nat, NEW m \in Nat, n <= m
  PROVE  \A ds, es, f, g :
           IsFlat(f, ds, n) /\ IsFlat(g, es, m) /\ (\A i \in 1..n : ds[i] = es[i]) =>
             \A i \in 1..n : f[i] = g[i]
<1> SUFFICES ASSUME NEW ds, NEW es, NEW f, NEW g, IsFlat(f, ds, n), IsFlat(g, es, m),
                    \A i \in 1..n : ds[i] = es[i]
             PROVE  \A i \in 1..n : f[i] = g[i]
  OBVIOUS
<1>a. \A i \in 1..n : f[i] = IF i = 1 THEN ds[i] ELSE f[i - 1] \o ds[i]
  BY FlatAt
<1>b. \A i \in 1..m : g[i] = IF i = 1 THEN es[i] ELSE g[i - 1] \o es[i]
  BY FlatAt
<1> DEFINE S == {i \in Nat : i \in 1..n => f[i] = g[i]}
<1>1. 0 \in S
  OBVIOUS
<1>2. ASSUME NEW i \in Nat, i \in S
      PROVE  i + 1 \in S
  <2> SUFFICES ASSUME i + 1 \in 1..n
               PROVE  f[i + 1] = g[i + 1]
    OBVIOUS
  <2>1. i + 1 \in 1..m /\ ds[i + 1] = es[i + 1]
    OBVIOUS
  <2>2. CASE i = 0
    BY <2>1, <2>2, <1>a, <1>b
  <2>3. CASE i # 0
    <3>1. f[i] = g[i]
      BY <1>2, <2>3
    <3>2. i + 1 # 1 /\ (i + 1) - 1 = i
      BY <2>3
    <3>3. f[i + 1] = f[(i + 1) - 1] \o ds[i + 1]
      BY <3>2, <1>a
    <3>4. g[i + 1] = g[(i + 1) - 1] \o es[i + 1]
      BY <2>1, <3>2, <1>b
    <3> QED
      BY <2>1, <3>1, <3>2, <3>3, <3>4
  <2> QED
    BY <2>2, <2>3
<1> HIDE DEF S
<1>3. \A i \in Nat : i \in S
  BY <1>1, <1>2, NaturalInduction
<1> QED
  BY <1>3 DEF S

\* What the recursion of FlattenSeq computes.
LEMMA FlattenIs ==
  ASSUME NEW ds, NEW n \in Nat \ {0}, Len(ds) = n
  PROVE  \E f : IsFlat(f, ds, n) /\ FlattenSeq(ds) = f[n]
<1>1. FlattenSeq(ds) = (CHOOSE f : IsFlat(f, ds, n))[n]
  BY DEF FlattenSeq, IsFlat
<1>2. IsFlat((CHOOSE f : IsFlat(f, ds, n)), ds, n)
  BY FlatExists
<1> QED
  BY <1>1, <1>2

\* What is left of a sequence when its last element is cut off.
LEMMA SubSeqAppend ==
  ASSUME NEW T, NEW s \in Seq(T), NEW n \in Nat, n < Len(s), NEW m \in 1..(n + 1)
  PROVE  /\ SubSeq(s, m, n) \in Seq(T) /\ s[n + 1] \in T
         /\ SubSeq(s, m, n + 1) = Append(SubSeq(s, m, n), s[n + 1])
<1>1. n + 1 \in m..Len(s) /\ m \in 1..Len(s) /\ (n + 1) - 1 = n /\ n + 1 \in 1..Len(s)
  BY LenProperties
<1>2. SubSeq(s, m, n + 1) = SubSeq(s, m, (n + 1) - 1) \o <<s[n + 1]>>
  BY <1>1, SubSeqRecursiveSecond
<1>3. s[n + 1] \in T
  BY <1>1, ElementOfSeq
<1>4. \A i \in m..n : s[i] \in T
  BY <1>1, ElementOfSeq
<1>5. SubSeq(s, m, n) \in Seq(T)
  BY <1>4, SubSeqProperties
<1> QED
  BY <1>1, <1>2, <1>3, <1>5, AppendIsConcat

\* No block holds no character.
LEMMA UnreadEmpty == Unread(<<>>) = <<>>
<1>1. [i \in DOMAIN <<>> |-> <<>>[i].data] = <<>>
  OBVIOUS
<1> QED
  BY <1>1 DEF Unread, FlattenSeq

\* The characters of one more block come behind those of the others.
LEMMA UnreadAppend ==
  ASSUME NEW bs \in Seq(Block), NEW x \in Block
  PROVE  Unread(Append(bs, x)) = Unread(bs) \o x.data
<1> DEFINE n == Len(bs)
           cs == Append(bs, x)
           ds == [i \in DOMAIN bs |-> bs[i].data]
           es == [i \in DOMAIN cs |-> cs[i].data]
<1>1. n \in Nat /\ DOMAIN bs = 1..n
  BY LenProperties
<1>2. /\ cs \in Seq(Block) /\ Len(cs) = n + 1
      /\ \A i \in 1..n : cs[i] = bs[i]
      /\ cs[n + 1] = x
  BY AppendProperties
<1>3. DOMAIN cs = 1..(n + 1)
  BY <1>2, LenProperties
<1>4. /\ ds = [i \in 1..n |-> bs[i].data] /\ es = [i \in 1..(n + 1) |-> cs[i].data]
  BY <1>1, <1>3
<1> HIDE DEF n, cs, ds, es
<1>5. /\ Len(ds) = n /\ Len(es) = n + 1
      /\ \A i \in 1..n : ds[i] = es[i]
      /\ es[n + 1] = x.data
  BY <1>1, <1>2, <1>4
<1>6. Unread(bs) = FlattenSeq(ds) /\ Unread(cs) = FlattenSeq(es)
  BY DEF Unread, ds, es
<1>7. PICK g : IsFlat(g, es, n + 1) /\ FlattenSeq(es) = g[n + 1]
  BY <1>1, <1>5, FlattenIs
<1>8. CASE n = 0
  <2>1. bs = <<>>
    BY <1>8, EmptySeq DEF n
  <2>2. Unread(bs) = <<>>
    BY <2>1, UnreadEmpty
  <2>3. g[1] = es[1]
    BY <1>7, <1>8, FlatAt
  <2>4. x.data \in Seq(1..MaxWritten)
    BY DEF Block
  <2>5. <<>> \o x.data = x.data
    BY <2>4, ConcatEmptySeq
  <2> QED
    BY <1>5, <1>6, <1>7, <1>8, <2>2, <2>3, <2>5 DEF cs
<1>9. CASE n # 0
  <2>1. PICK f : IsFlat(f, ds, n) /\ FlattenSeq(ds) = f[n]
    BY <1>1, <1>5, <1>9, FlattenIs
  <2>2. f[n] = g[n]
    <3>1. n \in 1..n /\ n + 1 \in Nat /\ n <= n + 1
      BY <1>1, <1>9
    <3>2. \A i \in 1..n : f[i] = g[i]
      <4>1. /\ n \in Nat /\ n + 1 \in Nat /\ n <= n + 1
            /\ IsFlat(f, ds, n) /\ IsFlat(g, es, n + 1)
            /\ \A i \in 1..n : ds[i] = es[i]
        BY <1>1, <1>5, <1>7, <2>1, <3>1
      <4>2. \A us, vs, v, w :
               IsFlat(v, us, n) /\ IsFlat(w, vs, n + 1) /\ (\A i \in 1..n : us[i] = vs[i]) =>
                 \A i \in 1..n : v[i] = w[i]
        BY <4>1, FlatUnique
      <4> QED
        BY <4>1, <4>2
    <3> QED
      BY <3>1, <3>2
  <2>3. \A i \in 1..(n + 1) : g[i] = IF i = 1 THEN es[i] ELSE g[i - 1] \o es[i]
    BY <1>1, <1>7, FlatAt
  <2>4. g[n + 1] = g[n] \o es[n + 1]
    <3>1. n + 1 \in 1..(n + 1) /\ n + 1 # 1 /\ (n + 1) - 1 = n
      BY <1>1, <1>9
    <3> QED
      BY <2>3, <3>1
  <2> QED
    BY <1>5, <1>6, <1>7, <2>1, <2>2, <2>4 DEF cs
<1> QED
  BY <1>8, <1>9

\* The characters of a prefix of the blocks, one block at a time.
LEMMA UnreadPrefix ==
  ASSUME NEW bs \in Seq(Block), NEW n \in Nat, n < Len(bs), NEW m \in 1..(n + 1)
  PROVE  /\ SubSeq(bs, m, n) \in Seq(Block) /\ bs[n + 1] \in Block
         /\ Unread(SubSeq(bs, m, n + 1)) = Unread(SubSeq(bs, m, n)) \o bs[n + 1].data
  BY SubSeqAppend, UnreadAppend

\* The characters of a prefix of the blocks, and of all.
LEMMA UnreadType ==
  ASSUME NEW bs \in Seq(Block)
  PROVE  /\ \A n \in 0..Len(bs) : Unread(SubSeq(bs, 1, n)) \in Seq(1..MaxWritten)
         /\ Unread(bs) \in Seq(1..MaxWritten)
<1> DEFINE S == {n \in Nat : n <= Len(bs) =>
                               Unread(SubSeq(bs, 1, n)) \in Seq(1..MaxWritten)}
<1>1. Len(bs) \in Nat /\ SubSeq(bs, 1, Len(bs)) = bs
  BY LenProperties, SubSeqFull
<1>2. 0 \in S
  <2>1. SubSeq(bs, 1, 0) = <<>>
    BY SubSeqEmpty
  <2> QED
    BY <2>1, UnreadEmpty, EmptySeq
<1>3. ASSUME NEW n \in Nat, n \in S
      PROVE  n + 1 \in S
  <2> SUFFICES ASSUME n + 1 <= Len(bs)
               PROVE  Unread(SubSeq(bs, 1, n + 1)) \in Seq(1..MaxWritten)
    OBVIOUS
  <2>1. n < Len(bs) /\ 1 \in 1..(n + 1)
    BY <1>1
  <2>2. /\ bs[n + 1] \in Block
        /\ Unread(SubSeq(bs, 1, n + 1)) = Unread(SubSeq(bs, 1, n)) \o bs[n + 1].data
    BY <2>1, UnreadPrefix
  <2>3. Unread(SubSeq(bs, 1, n)) \in Seq(1..MaxWritten)
    BY <1>1, <1>3, <2>1
  <2>4. bs[n + 1].data \in Seq(1..MaxWritten)
    BY <2>2 DEF Block
  <2> QED
    BY <2>2, <2>3, <2>4, ConcatProperties
<1> HIDE DEF S
<1>4. \A n \in Nat : n \in S
  BY <1>2, <1>3, NaturalInduction
<1>5. \A n \in 0..Len(bs) : Unread(SubSeq(bs, 1, n)) \in Seq(1..MaxWritten)
  BY <1>1, <1>4 DEF S
<1>6. Unread(SubSeq(bs, 1, Len(bs))) \in Seq(1..MaxWritten)
  BY <1>1, <1>5
<1> QED
  BY <1>1, <1>5, <1>6, Zenon

----------------------------------------------------------------------------
(* Taking characters out                                                   *)

\* How many of the first n characters are in d, which comes behind m others.
InBlock(n, m, d) == AtMost(AtLeast(n - m, 0), Len(d))

\* Without its first n characters, u \o d is what is left of u, and of d.
LEMMA CutConcat ==
  ASSUME NEW T, NEW u \in Seq(T), NEW d \in Seq(T), NEW n \in Nat
  PROVE  /\ InBlock(n, Len(u), d) \in 0..Len(d)
         /\ SubSeq(u \o d, n + 1, Len(u \o d)) =
              SubSeq(u, n + 1, Len(u)) \o SubSeq(d, InBlock(n, Len(u), d) + 1, Len(d))
<1> DEFINE a == Len(u)
           b == Len(d)
           k == InBlock(n, a, d)
           w == u \o d
           left == SubSeq(w, n + 1, a + b)
           uleft == SubSeq(u, n + 1, a)
           dleft == SubSeq(d, k + 1, b)
           both == uleft \o dleft
<1>1. a \in Nat /\ b \in Nat
  BY LenProperties
<1>2. /\ w \in Seq(T) /\ Len(w) = a + b
      /\ \A i \in 1..(a + b) : w[i] = IF i <= a THEN u[i] ELSE d[i - a]
  BY ConcatProperties
<1>3. k \in 0..b /\ (n <= a => k = 0) /\ (n > a => k = AtMost(n - a, b))
  BY <1>1 DEF InBlock, AtMost, AtLeast
<1>4. /\ left \in Seq(T)
      /\ Len(left) = IF n + 1 <= a + b THEN (a + b) - (n + 1) + 1 ELSE 0
      /\ \A i \in 1..((a + b) - (n + 1) + 1) : left[i] = w[(n + 1) + i - 1]
  <2>1. \A i \in (n + 1)..(a + b) : w[i] \in T
    BY <1>1, <1>2, ElementOfSeq
  <2> HIDE DEF a, b, w
  <2> QED
    BY <1>1, <2>1, SubSeqProperties
<1>5. /\ uleft \in Seq(T)
      /\ Len(uleft) = IF n + 1 <= a THEN a - (n + 1) + 1 ELSE 0
      /\ \A i \in 1..(a - (n + 1) + 1) : uleft[i] = u[(n + 1) + i - 1]
  <2>1. \A i \in (n + 1)..a : u[i] \in T
    BY <1>1, ElementOfSeq
  <2> HIDE DEF a
  <2> QED
    BY <1>1, <2>1, SubSeqProperties
<1>6. /\ dleft \in Seq(T)
      /\ Len(dleft) = IF k + 1 <= b THEN b - (k + 1) + 1 ELSE 0
      /\ \A i \in 1..(b - (k + 1) + 1) : dleft[i] = d[(k + 1) + i - 1]
  <2>1. \A i \in (k + 1)..b : d[i] \in T
    BY <1>1, <1>3, ElementOfSeq
  <2> HIDE DEF b, k
  <2> QED
    BY <1>1, <1>3, <2>1, SubSeqProperties
<1>7. /\ both \in Seq(T)
      /\ Len(both) = Len(uleft) + Len(dleft)
      /\ \A i \in 1..(Len(uleft) + Len(dleft)) :
           both[i] = IF i <= Len(uleft) THEN uleft[i] ELSE dleft[i - Len(uleft)]
  BY <1>5, <1>6, ConcatProperties
<1> HIDE DEF a, b, k, w, left, uleft, dleft, both
<1>8. left = both
  <2>1. CASE n <= a
    <3>1. k = 0 /\ Len(uleft) = a - n /\ Len(dleft) = b /\ Len(left) = a + b - n
      BY <1>1, <1>3, <1>4, <1>5, <1>6, <2>1
    <3>2. ASSUME NEW i \in 1..(a + b - n)
          PROVE  left[i] = both[i]
      <4>1. left[i] = w[n + i] /\ n + i \in 1..(a + b)
        BY <1>1, <1>4, <2>1
      <4>2. CASE i <= a - n
        <5>1. w[n + i] = u[n + i] /\ uleft[i] = u[n + i] /\ both[i] = uleft[i]
          BY <1>1, <1>2, <1>5, <1>7, <3>1, <4>1, <4>2
        <5> QED
          BY <4>1, <5>1
      <4>3. CASE i > a - n
        <5>1. i - (a - n) \in 1..b /\ (n + i) - a = i - (a - n)
          BY <1>1, <2>1, <4>3
        <5>2. w[n + i] = d[(n + i) - a]
          BY <1>1, <1>2, <4>1, <4>3
        <5>3. dleft[i - (a - n)] = d[i - (a - n)]
          BY <1>1, <1>6, <3>1, <5>1
        <5>4. both[i] = dleft[i - (a - n)]
          BY <1>1, <1>7, <3>1, <4>3
        <5> QED
          BY <1>1, <4>1, <5>1, <5>2, <5>3, <5>4
      <4>4. i <= a - n \/ i > a - n
        BY <1>1
      <4> QED
        BY <4>2, <4>3, <4>4
    <3>3. Len(both) = Len(left)
      <4>1. Len(both) = (a - n) + b
        BY <1>7, <3>1
      <4>2. (a - n) + b = a + b - n
        BY <1>1
      <4> QED
        BY <3>1, <4>1, <4>2
    <3> QED
      BY <1>4, <1>7, <3>1, <3>2, <3>3, SeqEqual
  <2>2. CASE n > a
    <3>a. k = IF n - a < b THEN n - a ELSE b
      BY <1>3, <2>2 DEF AtMost
    <3>1. /\ Len(uleft) = 0
          /\ Len(left) = IF n <= a + b THEN a + b - n ELSE 0
          /\ Len(dleft) = Len(left)
      <4>1. Len(uleft) = 0 /\ Len(left) = IF n <= a + b THEN a + b - n ELSE 0
        BY <1>1, <1>4, <1>5, <2>2
      <4>2. Len(dleft) = IF n - a < b THEN b - (n - a) ELSE 0
        BY <1>1, <1>6, <3>a, <2>2
      <4> QED
        BY <1>1, <2>2, <4>1, <4>2
    <3>2. ASSUME NEW i \in 1..Len(left)
          PROVE  left[i] = both[i]
      <4>1. n <= a + b /\ k = n - a /\ i \in 1..(a + b - n)
        <5>1. n <= a + b /\ Len(left) = a + b - n
          BY <1>1, <3>1
        <5>2. n - a < b
          BY <1>1, <5>1
        <5>3. k = n - a
          BY <3>a, <5>2
        <5>4. i \in 1..(a + b - n)
          BY <5>1, Zenon
        <5> QED
          BY <5>1, <5>3, <5>4
      <4>2. left[i] = w[n + i] /\ n + i \in 1..(a + b) /\ ~(n + i <= a)
        <5>1. i \in 1..((a + b) - (n + 1) + 1) /\ (n + 1) + i - 1 = n + i
          BY <1>1, <4>1
        <5>2. left[i] = w[(n + 1) + i - 1]
          BY <1>4, <5>1, Zenon
        <5>3. n + i \in 1..(a + b) /\ ~(n + i <= a)
          BY <1>1, <2>2, <4>1
        <5> QED
          BY <5>1, <5>2, <5>3
      <4>3. w[n + i] = d[(n + i) - a]
        BY <1>1, <1>2, <4>2
      <4>4. i \in 1..(b - (k + 1) + 1) /\ (k + 1) + i - 1 = (n + i) - a
        BY <1>1, <4>1
      <4>5. dleft[i] = d[(k + 1) + i - 1]
        BY <1>6, <4>4
      <4>6. both[i] = dleft[i - 0] /\ i - 0 = i
        BY <1>7, <3>1, <4>1
      <4> QED
        BY <4>2, <4>3, <4>4, <4>5, <4>6
    <3>3. Len(both) = Len(left)
      BY <1>1, <1>7, <3>1
    <3> QED
      BY <1>4, <1>7, <3>2, <3>3, SeqEqual
  <2> QED
    BY <1>1, <2>1, <2>2
<1>9. SubSeq(w, n + 1, Len(w)) = left
  BY <1>2 DEF left
<1> QED
  BY <1>3, <1>8, <1>9 DEF w, both, uleft, dleft, k, a, b

\* The blocks without the first n characters of theirs.
LEMMA TakenBlocks ==
  ASSUME NEW bs \in Seq(Block), NEW n \in Nat
  PROVE  /\ Taken(bs, n) \in Seq(Block)
         /\ Len(Taken(bs, n)) = Len(bs)
         /\ \A i \in 1..Len(bs) :
              Taken(bs, n)[i].data =
                SubSeq(bs[i].data,
                       InBlock(n, Len(Unread(SubSeq(bs, 1, i - 1))), bs[i].data) + 1,
                       Len(bs[i].data))
<1> DEFINE left(i) == SubSeq(bs[i].data,
                             InBlock(n, Len(Unread(SubSeq(bs, 1, i - 1))), bs[i].data) + 1,
                             Len(bs[i].data))
           cs == [i \in 1..Len(bs) |-> [bs[i] EXCEPT !.data = left(i)]]
<1>1. Len(bs) \in Nat /\ DOMAIN bs = 1..Len(bs)
  BY LenProperties
<1>2. Taken(bs, n) = cs
  BY <1>1, Zenon DEF Taken, InBlock
<1>3. \A i \in 1..Len(bs) : left(i) \in Seq(1..MaxWritten) /\ bs[i] \in Block
  <2> SUFFICES ASSUME NEW i \in 1..Len(bs)
               PROVE  left(i) \in Seq(1..MaxWritten) /\ bs[i] \in Block
    OBVIOUS
  <2>1. i - 1 \in 0..Len(bs)
    BY <1>1
  <2>2. Unread(SubSeq(bs, 1, i - 1)) \in Seq(1..MaxWritten)
    BY <2>1, UnreadType
  <2>3. bs[i] \in Block
    BY ElementOfSeq
  <2>4. bs[i].data \in Seq(1..MaxWritten)
    BY <2>3 DEF Block
  <2> DEFINE d == bs[i].data
             u == Unread(SubSeq(bs, 1, i - 1))
             k == InBlock(n, Len(u), d)
  <2> HIDE DEF d, u, k
  <2>5. d \in Seq(1..MaxWritten) /\ u \in Seq(1..MaxWritten)
    BY <2>2, <2>4 DEF d, u
  <2>6. k \in 0..Len(d)
    <3>1. Len(u) \in Nat /\ Len(d) \in Nat
      BY <2>5, LenProperties
    <3> QED
      BY <3>1 DEF k, InBlock, AtMost, AtLeast
  <2>7. \A j \in (k + 1)..Len(d) : d[j] \in 1..MaxWritten
    <3> SUFFICES ASSUME NEW j \in (k + 1)..Len(d)
                 PROVE  d[j] \in 1..MaxWritten
      OBVIOUS
    <3>1. Len(d) \in Nat
      BY <2>5, LenProperties
    <3>2. j \in 1..Len(d)
      BY <2>6, <3>1
    <3> QED
      BY <2>5, <3>2, ElementOfSeq
  <2>8. SubSeq(d, k + 1, Len(d)) \in Seq(1..MaxWritten)
    BY <2>5, <2>6, <2>7, LenProperties, SubSeqProperties
  <2>9. left(i) = SubSeq(d, k + 1, Len(d))
    BY DEF d, u, k
  <2> QED
    BY <2>3, <2>8, <2>9
<1> HIDE DEF left
<1>4. \A i \in 1..Len(bs) : cs[i] \in Block /\ cs[i].data = left(i)
  BY <1>3 DEF Block
<1>5. cs \in [1..Len(bs) -> Block]
  <2>1. DOMAIN cs = 1..Len(bs) /\ cs = [i \in 1..Len(bs) |-> cs[i]]
    OBVIOUS
  <2> HIDE DEF cs
  <2> QED
    BY <1>4, <2>1
<1> HIDE DEF cs
<1>6. cs \in Seq(Block) /\ Len(cs) = Len(bs)
  BY <1>1, <1>5
<1> QED
  BY <1>2, <1>4, <1>6 DEF left

\* Taking n characters from their blocks takes the first n of all.
LEMMA TakenUnread ==
  ASSUME NEW bs \in Seq(Block), NEW n \in Nat
  PROVE  Unread(Taken(bs, n)) = SubSeq(Unread(bs), n + 1, Len(Unread(bs)))
<1> DEFINE cs == Taken(bs, n)
           U(k) == Unread(SubSeq(bs, 1, k))
           V(k) == Unread(SubSeq(cs, 1, k))
           S == {k \in Nat : k <= Len(bs) => V(k) = SubSeq(U(k), n + 1, Len(U(k)))}
<1>1. /\ Len(bs) \in Nat /\ SubSeq(bs, 1, Len(bs)) = bs
      /\ cs \in Seq(Block) /\ Len(cs) = Len(bs)
      /\ SubSeq(cs, 1, Len(cs)) = cs
  BY LenProperties, SubSeqFull, TakenBlocks
<1>a. \A i \in 1..Len(bs) :
        cs[i].data = SubSeq(bs[i].data, InBlock(n, Len(U(i - 1)), bs[i].data) + 1,
                            Len(bs[i].data))
  BY TakenBlocks
<1>2. 0 \in S
  <2>1. SubSeq(bs, 1, 0) = <<>> /\ SubSeq(cs, 1, 0) = <<>>
    <3> HIDE DEF cs
    <3> QED
      BY SubSeqEmpty
  <2>a. U(0) = <<>> /\ V(0) = <<>>
    BY <2>1, UnreadEmpty
  <2>2. SubSeq(<<>>, n + 1, Len(<<>>)) = <<>>
    BY SubSeqEmpty, EmptySeq
  <2> HIDE DEF U, V
  <2> QED
    BY <2>a, <2>2
<1>3. ASSUME NEW k \in Nat, k \in S
      PROVE  k + 1 \in S
  <2> SUFFICES ASSUME k + 1 <= Len(bs)
               PROVE  V(k + 1) = SubSeq(U(k + 1), n + 1, Len(U(k + 1)))
    OBVIOUS
  <2> DEFINE d == bs[k + 1].data
             e == cs[k + 1].data
  <2>1. /\ k < Len(bs) /\ 1 \in 1..(k + 1) /\ k \in 0..Len(bs) /\ k + 1 \in 1..Len(bs)
        /\ (k + 1) - 1 = k
    BY <1>1
  <2>2. U(k + 1) = U(k) \o d /\ bs[k + 1] \in Block
    BY <2>1, UnreadPrefix
  <2>3. V(k + 1) = V(k) \o e
    BY <1>1, <2>1, UnreadPrefix
  <2>4. U(k) \in Seq(1..MaxWritten) /\ d \in Seq(1..MaxWritten)
    BY <2>1, <2>2, UnreadType DEF Block
  <2>5. e = SubSeq(d, InBlock(n, Len(U(k)), d) + 1, Len(d))
    <3> HIDE DEF U, cs
    <3> QED
      BY <2>1, <1>a
  <2>6. V(k) = SubSeq(U(k), n + 1, Len(U(k)))
    BY <1>3, <2>1
  <2> HIDE DEF U, V, d, e
  <2>7. SubSeq(U(k) \o d, n + 1, Len(U(k) \o d)) = V(k) \o e
    <3>1. SubSeq(U(k) \o d, n + 1, Len(U(k) \o d)) =
            SubSeq(U(k), n + 1, Len(U(k))) \o SubSeq(d, InBlock(n, Len(U(k)), d) + 1, Len(d))
      <4>1. \A s, t \in Seq(1..MaxWritten) :
              SubSeq(s \o t, n + 1, Len(s \o t)) =
                SubSeq(s, n + 1, Len(s)) \o SubSeq(t, InBlock(n, Len(s), t) + 1, Len(t))
        BY CutConcat, ZenonT(30)
      <4> QED
        BY <2>4, <4>1, Zenon
    <3> QED
      BY <2>5, <2>6, <3>1, Zenon
  <2> QED
    BY <2>2, <2>3, <2>7
<1> HIDE DEF S
<1>4. Len(bs) \in S
  BY <1>1, <1>2, <1>3, NaturalInduction
<1>5. V(Len(bs)) = SubSeq(U(Len(bs)), n + 1, Len(U(Len(bs))))
  BY <1>1, <1>4 DEF S
<1> QED
  BY <1>1, <1>5, Zenon

\* What purging leaves: nothing if every block is empty, or else the blocks from
\* the first that is not.
LEMMA PurgedIs ==
  ASSUME NEW bs \in Seq(Block)
  PROVE  \/ /\ Purged(bs) = <<>>
            /\ \A i \in 1..Len(bs) : bs[i].data = <<>>
         \/ \E k \in 1..Len(bs) :
              /\ Purged(bs) = SubSeq(bs, k, Len(bs))
              /\ bs[k].data # <<>>
              /\ \A i \in 1..(k - 1) : bs[i].data = <<>>
<1> DEFINE I == {i \in 1..Len(bs) : bs[i].data # <<>>}
<1>1. Len(bs) \in Nat /\ I \subseteq Nat /\ \A i \in I : i # 0
  BY LenProperties
<1>2. Purged(bs) = LET front == IF I # {} THEN Min(I) ELSE 0
                   IN IF front = 0 THEN <<>> ELSE SubSeq(bs, front, Len(bs))
  BY DEF Purged, SelectInSeq
<1>3. CASE I = {}
  BY <1>2, <1>3
<1>4. CASE I # {}
  <2> DEFINE S == {n \in Nat : \A i \in 0..n : i \notin I}
  <2>1. \E k \in I : \A i \in I : k <= i
    <3> SUFFICES ASSUME \A k \in I : \E i \in I : ~(k <= i)
                 PROVE  FALSE
      OBVIOUS
    <3>1. 0 \in S
      BY <1>1
    <3>2. ASSUME NEW n \in Nat, n \in S
          PROVE  n + 1 \in S
      <4>1. \A i \in 0..n : i \notin I
        BY <3>2
      <4>2. n + 1 \notin I
        <5> SUFFICES ASSUME n + 1 \in I
                     PROVE  FALSE
          OBVIOUS
        <5>1. PICK i \in I : ~(n + 1 <= i)
          OBVIOUS
        <5>2. i \in 0..n
          BY <1>1, <5>1
        <5> QED
          BY <4>1, <5>2
      <4> QED
        BY <4>1, <4>2
    <3> HIDE DEF S, I
    <3>3. \A n \in Nat : n \in S
      BY <3>1, <3>2, NaturalInduction
    <3>4. \A n \in Nat : n \notin I
      BY <3>3 DEF S
    <3> QED
      BY <1>1, <1>4, <3>4
  <2>2. PICK k \in I : \A i \in I : k <= i
    BY <2>1
  <2>3. Min(I) = k
    <3>1. \A x \in I : (\A i \in I : x <= i) => x = k
      BY <1>1, <2>2
    <3> HIDE DEF I
    <3> QED
      BY <2>2, <3>1 DEF Min
  <2>4. Purged(bs) = SubSeq(bs, k, Len(bs))
    BY <1>1, <1>2, <1>4, <2>3
  <2>5. \A i \in 1..(k - 1) : bs[i].data = <<>>
    BY <1>1, <2>2
  <2> QED
    BY <2>4, <2>5
<1> QED
  BY <1>3, <1>4

\* Empty blocks hold nothing.
LEMMA EmptyPrefix ==
  ASSUME NEW bs \in Seq(Block), NEW k \in 0..Len(bs), \A i \in 1..k : bs[i].data = <<>>
  PROVE  Unread(SubSeq(bs, 1, k)) = <<>>
<1> DEFINE S == {n \in Nat : n <= k => Unread(SubSeq(bs, 1, n)) = <<>>}
<1>1. Len(bs) \in Nat
  BY LenProperties
<1>2. 0 \in S
  <2>1. SubSeq(bs, 1, 0) = <<>>
    BY SubSeqEmpty
  <2> QED
    BY <2>1, UnreadEmpty
<1>3. ASSUME NEW n \in Nat, n \in S
      PROVE  n + 1 \in S
  <2> SUFFICES ASSUME n + 1 <= k
               PROVE  Unread(SubSeq(bs, 1, n + 1)) = <<>>
    OBVIOUS
  <2>1. n < Len(bs) /\ 1 \in 1..(n + 1) /\ n + 1 \in 1..k
    BY <1>1
  <2>2. Unread(SubSeq(bs, 1, n + 1)) = Unread(SubSeq(bs, 1, n)) \o bs[n + 1].data
    BY <2>1, UnreadPrefix
  <2>3. Unread(SubSeq(bs, 1, n)) = <<>> /\ bs[n + 1].data = <<>>
    BY <1>3, <2>1
  <2>4. <<>> \o <<>> = <<>>
    OBVIOUS
  <2> QED
    BY <2>2, <2>3, <2>4
<1> HIDE DEF S
<1>4. \A n \in Nat : n \in S
  BY <1>2, <1>3, NaturalInduction
<1>5. k \in Nat /\ k <= k
  BY <1>1
<1> QED
  BY <1>4, <1>5 DEF S

\* Purging loses no character.
LEMMA PurgedUnread ==
  ASSUME NEW bs \in Seq(Block)
  PROVE  Purged(bs) \in Seq(Block) /\ Unread(Purged(bs)) = Unread(bs)
<1>1. Len(bs) \in Nat /\ SubSeq(bs, 1, Len(bs)) = bs
  BY LenProperties, SubSeqFull
<1>2. CASE /\ Purged(bs) = <<>>
           /\ \A i \in 1..Len(bs) : bs[i].data = <<>>
  <2>1. Unread(SubSeq(bs, 1, Len(bs))) = <<>>
    BY <1>1, <1>2, EmptyPrefix
  <2> QED
    BY <1>1, <1>2, <2>1, UnreadEmpty, EmptySeq
<1>3. ASSUME NEW k \in 1..Len(bs), Purged(bs) = SubSeq(bs, k, Len(bs)),
             \A i \in 1..(k - 1) : bs[i].data = <<>>
      PROVE  Purged(bs) \in Seq(Block) /\ Unread(Purged(bs)) = Unread(bs)
  <2> DEFINE S == {n \in Nat : n + 1 >= k /\ n <= Len(bs) =>
                                 Unread(SubSeq(bs, k, n)) = Unread(SubSeq(bs, 1, n))}
  <2>1. \A i \in k..Len(bs) : bs[i] \in Block
    BY <1>1, ElementOfSeq
  <2>2. SubSeq(bs, k, Len(bs)) \in Seq(Block)
    BY <1>1, <2>1, SubSeqProperties
  <2>3. ASSUME NEW n \in Nat, n + 1 = k
        PROVE  Unread(SubSeq(bs, k, n)) = Unread(SubSeq(bs, 1, n))
    <3>1. n \in 0..Len(bs) /\ n < k /\ n = k - 1
      BY <1>1, <2>3
    <3>2. Unread(SubSeq(bs, 1, n)) = <<>>
      BY <1>3, <3>1, EmptyPrefix
    <3>3. SubSeq(bs, k, n) = <<>>
      BY <3>1, SubSeqEmpty
    <3> QED
      BY <3>2, <3>3, UnreadEmpty
  <2>4. 0 \in S
    BY <2>3
  <2>5. ASSUME NEW n \in Nat, n \in S
        PROVE  n + 1 \in S
    <3> SUFFICES ASSUME (n + 1) + 1 >= k, n + 1 <= Len(bs)
                 PROVE  Unread(SubSeq(bs, k, n + 1)) = Unread(SubSeq(bs, 1, n + 1))
      OBVIOUS
    <3>1. CASE (n + 1) + 1 = k
      BY <2>3, <3>1
    <3>2. CASE (n + 1) + 1 # k
      <4>1. n + 1 >= k /\ n <= Len(bs) /\ n < Len(bs) /\ k \in 1..(n + 1) /\ 1 \in 1..(n + 1)
        BY <1>1, <3>2
      <4>2. Unread(SubSeq(bs, k, n + 1)) = Unread(SubSeq(bs, k, n)) \o bs[n + 1].data
        BY <4>1, UnreadPrefix
      <4>3. Unread(SubSeq(bs, 1, n + 1)) = Unread(SubSeq(bs, 1, n)) \o bs[n + 1].data
        BY <4>1, UnreadPrefix
      <4>4. Unread(SubSeq(bs, k, n)) = Unread(SubSeq(bs, 1, n))
        BY <2>5, <4>1
      <4> QED
        BY <4>2, <4>3, <4>4, Zenon
    <3> QED
      BY <3>1, <3>2
  <2> HIDE DEF S
  <2>6. Len(bs) \in S
    BY <1>1, <2>4, <2>5, NaturalInduction
  <2>7. Unread(SubSeq(bs, k, Len(bs))) = Unread(SubSeq(bs, 1, Len(bs)))
    BY <1>1, <2>6 DEF S
  <2> QED
    BY <1>1, <1>3, <2>2, <2>7, Zenon
<1> QED
  BY <1>2, <1>3, PurgedIs

----------------------------------------------------------------------------
(* A buffer, and what reading does to it                                   *)

Buffer == [blocks : Seq(Block), total : Nat, read : Nat, written : 0..MaxWritten,
           synced : Nat]

\* The blocks of b hold what was written and not read, and the counters say so.
BufferShape(b) ==
  /\ b \in Buffer
  /\ Unread(b.blocks) = [i \in 1..b.total |-> b.read + i]
  /\ b.written = b.read + b.total
  /\ b.synced <= b.total

\* A request for at least one character, and an answer to it.
Asked == {r \in Request : r.size # 0}
Answer == [kind : Kind, size : Nat, chars : Seq(1..MaxWritten), before : Nat,
           after : Nat, ended : BOOLEAN]

\* What AnswersInOrder says of one answer, and NoFalseEof.
InOrder(a) ==
  /\ \A j \in DOMAIN a.chars :
       a.chars[j] = a.before + j + (IF a.kind = "nextc" THEN 1 ELSE 0)
  /\ Len(a.chars) <= a.size
  /\ CASE a.kind \in {"getn", "bumpc"} -> a.after = a.before + Len(a.chars)
       [] a.kind = "nextc"             -> a.after <= a.before + 1
       [] OTHER                        -> a.after = a.before

TrueEof(a) == a.chars = <<>> => a.ended \/ a.kind = "nextc"

\* A peek sees what is there, from the read head.
LEMMA PeekIs ==
  ASSUME NEW b, BufferShape(b), NEW n \in Nat
  PROVE  /\ Peek(b, n) \in Seq(1..MaxWritten)
         /\ Len(Peek(b, n)) = AtMost(n, b.total)
         /\ AtMost(n, b.total) \in 0..b.total
         /\ \A j \in DOMAIN Peek(b, n) : Peek(b, n)[j] = b.read + j
<1> DEFINE u == Unread(b.blocks)
           m == AtMost(n, b.total)
<1>1. b.total \in Nat /\ b.read \in Nat /\ b.blocks \in Seq(Block)
  BY DEF BufferShape, Buffer
<1>2. u \in Seq(1..MaxWritten)
  BY <1>1, UnreadType
<1>3. u = [i \in 1..b.total |-> b.read + i]
  BY DEF BufferShape
<1>4. Len(u) = b.total /\ \A i \in 1..b.total : u[i] = b.read + i
  <2> HIDE DEF u
  <2> QED
    BY <1>1, <1>2, <1>3, LenProperties
<1>5. Peek(b, n) = SubSeq(u, 1, m)
  BY <1>4 DEF Peek
<1> HIDE DEF u
<1>6. m \in 0..b.total
  BY <1>1 DEF AtMost
<1> HIDE DEF m
<1>7. \A i \in 1..m : u[i] \in 1..MaxWritten
  <2> SUFFICES ASSUME NEW i \in 1..m
               PROVE  u[i] \in 1..MaxWritten
    OBVIOUS
  <2>1. i \in 1..Len(u)
    BY <1>1, <1>4, <1>6
  <2> QED
    BY <1>2, <2>1, ElementOfSeq
<1>8. /\ SubSeq(u, 1, m) \in Seq(1..MaxWritten)
      /\ Len(SubSeq(u, 1, m)) = m
      /\ \A i \in 1..m : SubSeq(u, 1, m)[i] = u[i]
  <2>1. /\ SubSeq(u, 1, m) \in Seq(1..MaxWritten)
        /\ Len(SubSeq(u, 1, m)) = IF 1 <= m THEN m - 1 + 1 ELSE 0
        /\ \A i \in 1..(m - 1 + 1) : SubSeq(u, 1, m)[i] = u[1 + i - 1]
    BY <1>6, <1>7, SubSeqProperties
  <2>2. m - 1 + 1 = m /\ \A i \in 1..m : 1 + i - 1 = i
    BY <1>6
  <2> QED
    BY <1>6, <2>1, <2>2
<1>9. DOMAIN Peek(b, n) = 1..m
  BY <1>5, <1>8, LenProperties
<1>10. \A j \in 1..m : Peek(b, n)[j] = b.read + j
  BY <1>1, <1>4, <1>5, <1>6, <1>8
<1> QED
  BY <1>5, <1>6, <1>8, <1>9, <1>10 DEF m

\* update_read_head keeps the buffer and its counters together.
LEMMA AdvanceIs ==
  ASSUME NEW b, BufferShape(b), NEW n \in 0..b.total
  PROVE  /\ BufferShape(Advance(b, n))
         /\ Advance(b, n).read = b.read + n
         /\ Advance(b, n).total = b.total - n
         /\ Advance(b, n).written = b.written
         /\ b.synced = 0 => Advance(b, n).synced = 0
<1> DEFINE u == Unread(b.blocks)
           c == Advance(b, n)
           v == Unread(c.blocks)
           bs == Taken(b.blocks, n)
           total == b.total
           read == b.read
           synced == b.synced
<1>0. b \in Buffer
  BY DEF BufferShape
<1>1. /\ total \in Nat /\ read \in Nat /\ b.blocks \in Seq(Block) /\ synced \in Nat
      /\ b.written \in 0..MaxWritten /\ n \in Nat /\ n <= total
      /\ b.written = read + total /\ synced <= total
  BY DEF BufferShape, Buffer
<1>2. u \in Seq(1..MaxWritten)
  BY <1>1, UnreadType
<1>3. u = [i \in 1..total |-> read + i]
  BY DEF BufferShape
<1>5. /\ c.blocks = Purged(bs) /\ c.total = total - n /\ c.read = read + n
      /\ c.written = b.written /\ c.synced = SyncedAfter(synced, n)
  BY <1>0 DEF Advance, Buffer
<1> HIDE DEF u, bs, total, read, synced
<1>4. Len(u) = total /\ \A i \in 1..total : u[i] = read + i
  BY <1>1, <1>2, <1>3, LenProperties
<1>6. bs \in Seq(Block) /\ Unread(bs) = SubSeq(u, n + 1, Len(u))
  BY <1>1, TakenBlocks, TakenUnread DEF bs, u
<1>7. c.blocks \in Seq(Block) /\ v = SubSeq(u, n + 1, total)
  BY <1>4, <1>5, <1>6, PurgedUnread
<1>10. /\ c.synced \in Nat /\ c.synced <= total - n
       /\ synced = 0 => c.synced = 0
  <2> HIDE DEF c
  <2> QED
    BY <1>1, <1>5 DEF SyncedAfter
<1>11. c \in Buffer
  <2>1. total - n \in Nat /\ read + n \in Nat /\ SyncedAfter(synced, n) \in Nat
    BY <1>1, <1>5, <1>10
  <2>2. Purged(bs) \in Seq(Block)
    BY <1>5, <1>7
  <2> QED
    BY <1>0, <2>1, <2>2 DEF Advance, Buffer, total, read, synced, bs
<1> HIDE DEF c
<1>8. /\ v \in Seq(1..MaxWritten)
      /\ Len(v) = total - n
      /\ \A i \in 1..(total - n) : v[i] = u[n + i]
  <2>1. \A i \in (n + 1)..total : u[i] \in 1..MaxWritten
    <3> SUFFICES ASSUME NEW i \in (n + 1)..total
                 PROVE  u[i] \in 1..MaxWritten
      OBVIOUS
    <3>1. i \in 1..Len(u)
      BY <1>1, <1>4
    <3> QED
      BY <1>2, <3>1, ElementOfSeq
  <2> HIDE DEF v
  <2>2. /\ v \in Seq(1..MaxWritten)
        /\ Len(v) = IF n + 1 <= total THEN total - (n + 1) + 1 ELSE 0
        /\ \A i \in 1..(total - (n + 1) + 1) : v[i] = u[(n + 1) + i - 1]
    BY <1>1, <1>7, <2>1, SubSeqProperties
  <2>3. total - (n + 1) + 1 = total - n /\ \A i \in 1..(total - n) : (n + 1) + i - 1 = n + i
    BY <1>1
  <2>4. Len(v) = total - n
    BY <1>1, <2>2
  <2> QED
    BY <2>2, <2>3, <2>4
<1> HIDE DEF v
<1>9. v = [i \in 1..c.total |-> c.read + i]
  <2>1. DOMAIN v = 1..(total - n)
    BY <1>8, LenProperties
  <2>2. \A i \in 1..(total - n) : v[i] = (read + n) + i
    <3> SUFFICES ASSUME NEW i \in 1..(total - n)
                 PROVE  v[i] = (read + n) + i
      OBVIOUS
    <3>1. n + i \in 1..total
      BY <1>1
    <3>2. v[i] = read + (n + i)
      BY <1>4, <1>8, <3>1
    <3> QED
      BY <1>1, <3>2
  <2>3. v = [i \in 1..(total - n) |-> v[i]]
    BY <1>8, <2>1
  <2>4. v = [i \in 1..(total - n) |-> (read + n) + i]
    BY <2>2, <2>3
  <2> QED
    BY <1>5, <2>4
<1>12. c.written = c.read + c.total
  BY <1>1, <1>5
<1>13. BufferShape(c)
  <2>1. c.synced <= c.total
    BY <1>5, <1>10
  <2>2. Unread(c.blocks) = [i \in 1..c.total |-> c.read + i]
    BY <1>9 DEF v
  <2> QED
    BY <1>11, <1>12, <2>1, <2>2 DEF BufferShape
<1>14. c.read = b.read + n /\ c.total = b.total - n /\ c.written = b.written
  BY <1>5 DEF total, read
<1> QED
  BY <1>10, <1>13, <1>14 DEF c, synced

\* An answer is in order and, if the request could be satisfied, tells the truth
\* about the end of the stream.
LEMMA ServeIs ==
  ASSUME NEW b, BufferShape(b), NEW r \in Asked, CanSatisfy(b, r.size)
  PROVE  /\ BufferShape(Serve(b, r).buf)
         /\ Serve(b, r).buf.written = b.written
         /\ Serve(b, r).buf.total <= b.total
         /\ b.synced = 0 => Serve(b, r).buf.synced = 0
         /\ Serve(b, r).answer \in Answer
         /\ Serve(b, r).answer.kind = r.kind
         /\ Serve(b, r).answer.size = r.size
         /\ Serve(b, r).answer.before = b.read
         /\ Serve(b, r).answer.after = Serve(b, r).buf.read
         /\ InOrder(Serve(b, r).answer) /\ TrueEof(Serve(b, r).answer)
<1> DEFINE m == Len(Peek(b, Consumes(r)))
           after == Advance(b, m)
           chars == IF r.kind = "nextc" THEN Peek(after, 1) ELSE Peek(b, r.size)
           a == Serve(b, r).answer
           total == b.total
           read == b.read
<1>1. /\ r.kind \in Kind /\ r.size \in Nat /\ r.size # 0
      /\ b.total \in Nat /\ b.read \in Nat /\ b.synced \in Nat /\ b.synced <= b.total
      /\ b.written = b.read + b.total
  BY DEF BufferShape, Buffer, Asked, Request
<1>2. /\ r.kind \in {"getn", "bumpc"} => Consumes(r) = r.size
      /\ r.kind = "nextc" => Consumes(r) = 1
      /\ r.kind \in {"getc", "copy"} => Consumes(r) = 0
      /\ Consumes(r) \in Nat
  BY <1>1 DEF Consumes, Kind
<1>3. m = AtMost(Consumes(r), b.total) /\ m \in 0..b.total
  BY <1>2, PeekIs
<1> HIDE DEF m
<1>4. /\ BufferShape(after) /\ after.read = b.read + m /\ after.total = b.total - m
      /\ after.written = b.written /\ (b.synced = 0 => after.synced = 0)
  BY <1>3, AdvanceIs
<1>5. /\ Serve(b, r).buf = after
      /\ a = [kind |-> r.kind, size |-> r.size, chars |-> chars, before |-> b.read,
              after |-> after.read, ended |-> ~canWrite /\ b.read = b.written]
  BY DEF Serve, m
<1> HIDE DEF after, chars, a
<1>6. /\ a.kind = r.kind /\ a.size = r.size /\ a.chars = chars /\ a.before = b.read
      /\ a.after = after.read /\ a.ended = (~canWrite /\ b.read = b.written)
  BY <1>5
<1>7. /\ chars \in Seq(1..MaxWritten)
      /\ r.kind = "nextc" =>
           /\ chars = Peek(after, 1)
           /\ Len(chars) = AtMost(1, after.total)
           /\ \A j \in DOMAIN chars : chars[j] = after.read + j
      /\ r.kind # "nextc" =>
           /\ Len(chars) = AtMost(r.size, b.total)
           /\ \A j \in DOMAIN chars : chars[j] = b.read + j
  <2>1. CASE r.kind = "nextc"
    <3>1. chars = Peek(after, 1)
      BY <2>1 DEF chars
    <3> QED
      BY <1>4, <2>1, <3>1, PeekIs
  <2>2. CASE r.kind # "nextc"
    <3>1. chars = Peek(b, r.size)
      BY <2>2 DEF chars
    <3> QED
      BY <1>1, <2>2, <3>1, PeekIs
  <2> QED
    BY <2>1, <2>2
<1>8. a \in Answer
  <2>1. after.read \in Nat /\ (~canWrite /\ b.read = b.written) \in BOOLEAN
    BY <1>1, <1>3, <1>4
  <2> QED
    BY <1>1, <1>5, <1>7, <2>1 DEF Answer
<1>9. DOMAIN chars = 1..Len(chars) /\ Len(chars) \in Nat
  BY <1>7, LenProperties
<1> HIDE DEF total, read
<1>a. total \in Nat /\ read \in Nat /\ b.total = total /\ b.read = read
  BY <1>1 DEF total, read
<1>10. InOrder(a)
  <2>1. CASE r.kind = "nextc"
    <3>1. m = AtMost(1, total) /\ Len(chars) = AtMost(1, total - m)
      BY <1>2, <1>3, <1>4, <1>7, <1>a, <2>1
    <3>2. m <= 1 /\ Len(chars) <= 1 /\ (Len(chars) # 0 => m = 1)
      BY <1>3, <1>a, <3>1 DEF AtMost
    <3>3. \A j \in DOMAIN chars : chars[j] = read + j + 1
      <4> SUFFICES ASSUME NEW j \in DOMAIN chars
                   PROVE  chars[j] = read + j + 1
        OBVIOUS
      <4>1. j \in Nat /\ m = 1
        BY <1>9, <3>2
      <4>2. chars[j] = (read + m) + j
        BY <1>4, <1>7, <1>a, <2>1
      <4> QED
        BY <1>a, <4>1, <4>2
    <3>4. a.after <= a.before + 1
      BY <1>3, <1>4, <1>6, <1>a, <3>2
    <3>5. Len(a.chars) <= a.size
      BY <1>1, <1>6, <1>9, <3>2
    <3> QED
      BY <1>6, <1>a, <2>1, <3>3, <3>4, <3>5 DEF InOrder
  <2>2. CASE r.kind # "nextc"
    <3>1. Len(chars) = AtMost(r.size, total) /\ Len(chars) <= r.size
      BY <1>1, <1>7, <1>a, <2>2 DEF AtMost
    <3>2. \A j \in DOMAIN chars : chars[j] = read + j + 0
      <4> SUFFICES ASSUME NEW j \in DOMAIN chars
                   PROVE  chars[j] = read + j + 0
        OBVIOUS
      <4>1. chars[j] = read + j /\ j \in Nat
        BY <1>7, <1>9, <1>a, <2>2
      <4> QED
        BY <1>a, <4>1
    <3>3. r.kind \in {"getn", "bumpc"} => a.after = a.before + Len(a.chars)
      BY <1>2, <1>3, <1>4, <1>6, <1>a, <3>1
    <3>4. r.kind \in {"getc", "copy"} => a.after = a.before
      <4> SUFFICES ASSUME r.kind \in {"getc", "copy"}
                   PROVE  a.after = a.before
        OBVIOUS
      <4>1. m = 0
        BY <1>2, <1>3, <1>a DEF AtMost
      <4> QED
        BY <1>4, <1>6, <1>a, <4>1
    <3>5. /\ a.kind # "nextc"
          /\ \A j \in DOMAIN a.chars : a.chars[j] = a.before + j + 0
          /\ Len(a.chars) <= a.size
      BY <1>6, <1>a, <2>2, <3>1, <3>2
    <3>6. /\ a.kind \in {"getn", "bumpc"} => a.after = a.before + Len(a.chars)
          /\ a.kind \notin {"getn", "bumpc"} => a.after = a.before
      BY <1>1, <1>6, <2>2, <3>3, <3>4 DEF Kind
    <3> QED
      BY <3>5, <3>6 DEF InOrder
  <2> QED
    BY <2>1, <2>2
<1>11. TrueEof(a)
  <2> SUFFICES ASSUME chars = <<>>, r.kind # "nextc"
               PROVE  ~canWrite /\ b.read = b.written
    BY <1>6 DEF TrueEof
  <2>1. AtMost(r.size, total) = 0
    BY <1>7, <1>a, EmptySeq
  <2>2. total = 0
    BY <1>1, <1>a, <2>1 DEF AtMost
  <2> QED
    BY <1>1, <1>a, <2>2 DEF CanSatisfy
<1>12. after.total <= b.total
  BY <1>3, <1>4, <1>a
<1> QED
  BY <1>4, <1>5, <1>6, <1>8, <1>10, <1>11, <1>12 DEF a

----------------------------------------------------------------------------
(* Serving the requests that wait                                          *)

\* f[n] is where fulfill_outstanding is with the first n requests.
IsRun(f, b, rs, n) ==
  f = [k \in 0..n |-> IF k = 0 THEN [buf |-> b, left |-> <<>>, answers |-> <<>>]
                               ELSE FulfillNext(f[k - 1], rs[k])]

\* fulfill_outstanding goes on for any number of requests.
LEMMA RunExists ==
  ASSUME NEW b, NEW rs
  PROVE  \A n \in Nat : \E f : IsRun(f, b, rs, n)
<1> DEFINE S == {n \in Nat : \E f : IsRun(f, b, rs, n)}
           start == [buf |-> b, left |-> <<>>, answers |-> <<>>]
<1> HIDE DEF start
<1>1. 0 \in S
  <2> DEFINE f == [k \in 0..0 |-> start]
  <2>1. f = [k \in 0..0 |-> IF k = 0 THEN start ELSE FulfillNext(f[k - 1], rs[k])]
    OBVIOUS
  <2> QED
    BY <2>1 DEF IsRun, start
<1>2. ASSUME NEW n \in Nat, n \in S
      PROVE  n + 1 \in S
  <2>1. PICK f : IsRun(f, b, rs, n)
    BY <1>2
  <2> DEFINE g == [k \in 0..(n + 1) |-> IF k = n + 1 THEN FulfillNext(f[n], rs[k]) ELSE f[k]]
  <2>2. \A k \in 0..n : f[k] = IF k = 0 THEN start ELSE FulfillNext(f[k - 1], rs[k])
    BY <2>1 DEF IsRun, start
  <2>3. /\ g = [k \in 0..(n + 1) |-> g[k]]
        /\ \A k \in 0..n : g[k] = f[k]
        /\ g[n + 1] = FulfillNext(f[n], rs[n + 1])
    <3>1. \A k \in 0..n : k \in 0..(n + 1) /\ k # n + 1
      OBVIOUS
    <3>2. n + 1 \in 0..(n + 1)
      OBVIOUS
    <3> QED
      BY <3>1, <3>2
  <2> HIDE DEF g
  <2>4. ASSUME NEW k \in 0..(n + 1)
        PROVE  g[k] = IF k = 0 THEN start ELSE FulfillNext(g[k - 1], rs[k])
    <3>1. CASE k = n + 1
      <4>1. n \in 0..n /\ k - 1 = n /\ k # 0
        BY <3>1
      <4>2. g[k - 1] = f[n]
        BY <2>3, <4>1
      <4>3. g[k] = FulfillNext(f[n], rs[k])
        BY <2>3, <3>1
      <4> QED
        BY <4>1, <4>2, <4>3
    <3>2. CASE k # n + 1
      <4>1. k \in 0..n
        BY <3>2
      <4>2. CASE k = 0
        BY <2>2, <2>3, <4>1, <4>2
      <4>3. CASE k # 0
        <5>1. k - 1 \in 0..n
          BY <4>1, <4>3
        <5>2. g[k - 1] = f[k - 1]
          BY <2>3, <5>1
        <5>3. g[k] = FulfillNext(f[k - 1], rs[k])
          BY <2>2, <2>3, <4>1, <4>3
        <5> QED
          BY <4>3, <5>2, <5>3
      <4> QED
        BY <4>2, <4>3
    <3> QED
      BY <3>1, <3>2
  <2>5. g = [k \in 0..(n + 1) |-> IF k = 0 THEN start ELSE FulfillNext(g[k - 1], rs[k])]
    BY <2>3, <2>4
  <2>6. IsRun(g, b, rs, n + 1)
    BY <2>5 DEF IsRun, start
  <2> QED
    BY <2>6
<1> HIDE DEF S
<1>3. \A n \in Nat : n \in S
  BY <1>1, <1>2, NaturalInduction
<1> QED
  BY <1>3 DEF S

\* What the recursion of Fulfill computes.
LEMMA FulfillIs ==
  ASSUME NEW b, NEW rs, Len(rs) \in Nat
  PROVE  \E f : IsRun(f, b, rs, Len(rs)) /\ Fulfill(b, rs) = f[Len(rs)]
<1>1. Fulfill(b, rs) = (CHOOSE f : IsRun(f, b, rs, Len(rs)))[Len(rs)]
  BY DEF Fulfill, IsRun
<1>2. IsRun((CHOOSE f : IsRun(f, b, rs, Len(rs))), b, rs, Len(rs))
  BY RunExists
<1> QED
  BY <1>1, <1>2

\* The answers as lead from position `from` to position `to`, leaving no gap.
Chain(from, as, to) ==
  /\ as = <<>> => to = from
  /\ as # <<>> => as[1].before = from /\ as[Len(as)].after = to
  /\ \A i \in 1..(Len(as) - 1) : as[i + 1].before = as[i].after

\* What is known once the first n of the requests rs have been looked at.
RunShape(st, b, rs, n) ==
  /\ st \in [buf : Buffer, left : Seq(Asked), answers : Seq(Answer)]
  /\ BufferShape(st.buf) /\ st.buf.written = b.written
  /\ Len(st.answers) <= n
  /\ st.left = SubSeq(rs, Len(st.answers) + 1, n)
  /\ st.left # <<>> => ~CanSatisfy(st.buf, rs[Len(st.answers) + 1].size)
  /\ Chain(b.read, st.answers, st.buf.read)
  /\ \A i \in 1..Len(st.answers) :
       /\ st.answers[i].kind = rs[i].kind /\ st.answers[i].size = rs[i].size
       /\ InOrder(st.answers[i]) /\ TrueEof(st.answers[i])

\* One more request is served, or it waits behind the others.
LEMMA FulfillNextShape ==
  ASSUME NEW b, NEW rs \in Seq(Asked), NEW n \in Nat, n < Len(rs),
         NEW st, RunShape(st, b, rs, n)
  PROVE  RunShape(FulfillNext(st, rs[n + 1]), b, rs, n + 1)
<1> DEFINE r == rs[n + 1]
           as == st.answers
           k == Len(as)
           new == FulfillNext(st, r)
<1>1. /\ st \in [buf : Buffer, left : Seq(Asked), answers : Seq(Answer)]
      /\ BufferShape(st.buf) /\ st.buf.written = b.written
      /\ k <= n
      /\ st.left = SubSeq(rs, k + 1, n)
      /\ st.left # <<>> => ~CanSatisfy(st.buf, rs[k + 1].size)
      /\ Chain(b.read, as, st.buf.read)
      /\ \A i \in 1..k : /\ as[i].kind = rs[i].kind /\ as[i].size = rs[i].size
                         /\ InOrder(as[i]) /\ TrueEof(as[i])
  BY DEF RunShape
<1>2. as \in Seq(Answer) /\ st.left \in Seq(Asked) /\ k \in Nat
  BY <1>1, LenProperties
<1>3. r \in Asked
  <2>1. n + 1 \in 1..Len(rs)
    BY LenProperties
  <2> QED
    BY <2>1, ElementOfSeq
<1>4. st.left = <<>> => k = n
  <2> SUFFICES ASSUME st.left = <<>>, k # n
               PROVE  FALSE
    OBVIOUS
  <2>1. \A i \in (k + 1)..n : rs[i] \in Asked
    BY <1>2, LenProperties, ElementOfSeq
  <2>2. Len(st.left) = IF k + 1 <= n THEN n - (k + 1) + 1 ELSE 0
    <3> HIDE DEF k
    <3> QED
      BY <1>1, <1>2, <2>1, SubSeqProperties
  <2> QED
    BY <1>1, <1>2, <2>2, EmptySeq
<1>a. k \in Nat
  BY <1>2
<1>c. k = Len(as)
  OBVIOUS
<1>d. as \in Seq(Answer)
  BY <1>2
<1>b. as = <<>> <=> k = 0
  BY <1>2, EmptySeq
<1> HIDE DEF r, as, k
<1>5. ASSUME st.left # <<>> \/ ~CanSatisfy(st.buf, r.size)
      PROVE  RunShape(new, b, rs, n + 1)
  <2>1. new = [st EXCEPT !.left = Append(st.left, r)]
    BY <1>5 DEF FulfillNext
  <2>2. Append(st.left, r) \in Seq(Asked) /\ Append(st.left, r) # <<>>
    BY <1>2, <1>3, AppendProperties
  <2>3. /\ new \in [buf : Buffer, left : Seq(Asked), answers : Seq(Answer)]
        /\ new.buf = st.buf /\ new.answers = as /\ new.left = Append(st.left, r)
    BY <1>1, <2>1, <2>2 DEF as
  <2> HIDE DEF new
  <2>4. Append(st.left, r) = SubSeq(rs, k + 1, n + 1)
    <3>1. k + 1 \in 1..(n + 1)
      BY <1>1, <1>2
    <3> QED
      BY <1>1, <3>1, SubSeqAppend DEF r
  <2>5. ~CanSatisfy(st.buf, rs[k + 1].size)
    <3>1. CASE st.left # <<>>
      BY <1>1, <3>1
    <3>2. CASE st.left = <<>>
      BY <1>4, <1>5, <3>2 DEF r
    <3> QED
      BY <3>1, <3>2
  <2>6. k <= n + 1
    BY <1>1, <1>2
  <2> QED
    BY <1>1, <1>a, <1>c, <2>3, <2>4, <2>5, <2>6 DEF RunShape
<1>6. ASSUME st.left = <<>>, CanSatisfy(st.buf, r.size)
      PROVE  RunShape(new, b, rs, n + 1)
  <2> DEFINE s == Serve(st.buf, r)
             a == s.answer
             more == Append(as, a)
  <2>1. new = [st EXCEPT !.buf = s.buf, !.answers = more]
    BY <1>6 DEF FulfillNext, as
  <2>2. /\ BufferShape(s.buf) /\ s.buf.written = st.buf.written
        /\ a \in Answer /\ a.kind = r.kind /\ a.size = r.size
        /\ a.before = st.buf.read /\ a.after = s.buf.read
        /\ InOrder(a) /\ TrueEof(a)
    BY <1>1, <1>3, <1>6, ServeIs
  <2> HIDE DEF s, a, more
  <2>3. /\ more \in Seq(Answer) /\ more # <<>> /\ Len(more) = k + 1
        /\ \A i \in 1..k : more[i] = as[i]
        /\ more[k + 1] = a
    <3>1. /\ more \in Seq(Answer) /\ more # <<>> /\ Len(more) = Len(as) + 1
          /\ \A i \in 1..Len(as) : more[i] = as[i]
          /\ more[Len(as) + 1] = a
      <4>1. a \in Answer
        BY <2>2
      <4>2. \A s1 \in Seq(Answer), e1 \in Answer :
              /\ Append(s1, e1) \in Seq(Answer) /\ Append(s1, e1) # <<>>
              /\ Len(Append(s1, e1)) = Len(s1) + 1
              /\ \A i \in 1..Len(s1) : Append(s1, e1)[i] = s1[i]
              /\ Append(s1, e1)[Len(s1) + 1] = e1
        BY AppendProperties
      <4> QED
        BY <1>d, <4>1, <4>2, Zenon DEF more
    <3> QED
      BY <1>c, <3>1
  <2> HIDE DEF more
  <2>4. s.buf \in Buffer
    BY <2>2 DEF BufferShape
  <2>5. /\ new \in [buf : Buffer, left : Seq(Asked), answers : Seq(Answer)]
        /\ new.buf = s.buf /\ new.answers = more /\ new.left = <<>>
    BY <1>1, <1>6, <2>1, <2>3, <2>4
  <2> HIDE DEF new
  <2>6. k = n
    BY <1>4, <1>6
  <2>7. SubSeq(rs, Len(more) + 1, n + 1) = <<>> /\ Len(more) <= n + 1
    BY <2>3, <2>6, SubSeqEmpty
  <2>8. Chain(b.read, more, s.buf.read)
    <3>1. more[1].before = b.read
      <4>1. CASE k = 0
        <5>1. as = <<>>
          BY <1>b, <4>1
        <5> QED
          BY <1>1, <2>2, <2>3, <4>1, <5>1 DEF Chain
      <4>2. CASE k # 0
        <5>1. as # <<>> /\ 1 \in 1..k
          <6>1. 1 \in 1..k
            BY <1>a, <4>2
          <6> QED
            BY <1>b, <4>2, <6>1, Zenon
        <5> QED
          BY <1>1, <2>3, <5>1 DEF Chain
      <4> QED
        BY <4>1, <4>2
    <3>2. more[Len(more)].after = s.buf.read
      BY <2>2, <2>3
    <3>3. ASSUME NEW i \in 1..(Len(more) - 1)
          PROVE  more[i + 1].before = more[i].after
      <4>1. i \in 1..k
        BY <1>2, <2>3
      <4>2. CASE i = k
        <5>1. as # <<>>
          <6>1. k # 0
            BY <1>a, <4>1
          <6> QED
            BY <1>b, <6>1, Zenon
        <5>2. as[k].after = st.buf.read
          BY <1>1, <5>1 DEF Chain, k
        <5> QED
          BY <2>2, <2>3, <4>1, <4>2, <5>2
      <4>3. CASE i # k
        <5>1. i \in 1..(k - 1) /\ i + 1 \in 1..k
          BY <1>2, <4>1, <4>3
        <5>2. as[i + 1].before = as[i].after
          BY <1>1, <5>1 DEF Chain, k
        <5> QED
          BY <2>3, <4>1, <5>1, <5>2
      <4> QED
        BY <4>2, <4>3
    <3> QED
      BY <2>3, <3>1, <3>2, <3>3 DEF Chain
  <2>9. ASSUME NEW i \in 1..Len(more)
        PROVE  /\ more[i].kind = rs[i].kind /\ more[i].size = rs[i].size
               /\ InOrder(more[i]) /\ TrueEof(more[i])
    <3>1. CASE i = k + 1
      BY <2>2, <2>3, <2>6, <3>1 DEF r
    <3>2. CASE i # k + 1
      <4>1. i \in 1..k
        BY <1>2, <2>3, <3>2
      <4> QED
        BY <1>1, <2>3, <4>1
    <3> QED
      BY <3>1, <3>2
  <2> QED
    BY <1>1, <2>2, <2>5, <2>7, <2>8, <2>9 DEF RunShape
<1> QED
  BY <1>5, <1>6 DEF r

\* fulfill_outstanding answers the first of the requests, in their order and
\* leaving no gap, and stops at one that has to wait.
LEMMA FulfillShape ==
  ASSUME NEW b, BufferShape(b), NEW rs \in Seq(Asked)
  PROVE  RunShape(Fulfill(b, rs), b, rs, Len(rs))
<1>1. Len(rs) \in Nat
  BY LenProperties
<1>2. PICK f : IsRun(f, b, rs, Len(rs)) /\ Fulfill(b, rs) = f[Len(rs)]
  BY <1>1, FulfillIs
<1>3. \A k \in 0..Len(rs) :
        f[k] = IF k = 0 THEN [buf |-> b, left |-> <<>>, answers |-> <<>>]
                        ELSE FulfillNext(f[k - 1], rs[k])
  BY <1>2 DEF IsRun
<1> DEFINE S == {n \in Nat : n <= Len(rs) => RunShape(f[n], b, rs, n)}
<1>4. 0 \in S
  <2> DEFINE st == [buf |-> b, left |-> <<>>, answers |-> <<>>]
  <2>1. f[0] = st
    BY <1>1, <1>3
  <2>2. st \in [buf : Buffer, left : Seq(Asked), answers : Seq(Answer)]
    BY EmptySeq DEF BufferShape
  <2>3. st.buf = b /\ st.left = <<>> /\ st.answers = <<>> /\ Len(st.answers) = 0
    BY EmptySeq
  <2> HIDE DEF st
  <2>4. SubSeq(rs, 0 + 1, 0) = <<>>
    BY SubSeqEmpty
  <2>5. Chain(b.read, <<>>, b.read)
    BY EmptySeq DEF Chain
  <2>6. RunShape(st, b, rs, 0)
    BY <2>2, <2>3, <2>4, <2>5 DEF RunShape
  <2> QED
    BY <2>1, <2>6
<1>5. ASSUME NEW n \in Nat, n \in S
      PROVE  n + 1 \in S
  <2> SUFFICES ASSUME n + 1 <= Len(rs)
               PROVE  RunShape(f[n + 1], b, rs, n + 1)
    OBVIOUS
  <2>1. n < Len(rs) /\ n + 1 \in 0..Len(rs) /\ n + 1 # 0 /\ (n + 1) - 1 = n
    BY <1>1
  <2>2. RunShape(f[n], b, rs, n)
    BY <1>1, <1>5, <2>1
  <2>3. f[n + 1] = FulfillNext(f[n], rs[n + 1])
    BY <1>3, <2>1
  <2> QED
    BY <2>1, <2>2, <2>3, FulfillNextShape
<1> HIDE DEF S
<1>6. Len(rs) \in S
  BY <1>1, <1>4, <1>5, NaturalInduction
<1> QED
  BY <1>1, <1>2, <1>6 DEF S

----------------------------------------------------------------------------
(* What writing does to a buffer                                           *)

\* What is written continues what was written.
LEMMA NextCharsIs ==
  ASSUME NEW n \in Nat, buf.written \in Nat, buf.written + n <= MaxWritten
  PROVE  /\ NextChars(n) \in Seq(1..MaxWritten)
         /\ Len(NextChars(n)) = n
         /\ \A i \in 1..n : NextChars(n)[i] = buf.written + i
<1> DEFINE w == buf.written
           s == [i \in 1..n |-> w + i]
<1>1. w \in Nat /\ w + n <= MaxWritten /\ MaxWritten \in Nat
  BY BufferAssumption
<1>2. NextChars(n) = s
  BY DEF NextChars
<1> HIDE DEF w
<1>3. \A i \in 1..n : w + i \in 1..MaxWritten
  BY <1>1
<1>4. s \in [1..n -> 1..MaxWritten]
  BY <1>3
<1>5. s \in Seq(1..MaxWritten) /\ Len(s) = n
  BY <1>4
<1>6. \A i \in 1..n : s[i] = w + i
  OBVIOUS
<1> QED
  BY <1>2, <1>5, <1>6 DEF w

\* Characters written into the last block come behind all others.
LEMMA ExtendLast ==
  ASSUME NEW cs \in Seq(Block), cs # <<>>, NEW n \in Nat, cs[Len(cs)].room >= n,
         NEW new \in Seq(1..MaxWritten)
  PROVE  LET ds == [cs EXCEPT ![Len(cs)] = [data |-> @.data \o new, room |-> @.room - n]]
         IN ds \in Seq(Block) /\ Unread(ds) = Unread(cs) \o new
<1> DEFINE k == Len(cs) - 1
           front == SubSeq(cs, 1, k)
           x == cs[Len(cs)]
           y == [data |-> x.data \o new, room |-> x.room - n]
           ds == [cs EXCEPT ![Len(cs)] = y]
<1>1. k \in Nat /\ k < Len(cs) /\ k + 1 = Len(cs) /\ Len(cs) \in 1..Len(cs) /\ 1 \in 1..(k + 1)
  BY EmptySeq, LenProperties
<1>2. SubSeq(cs, 1, Len(cs)) = cs
  BY SubSeqFull
<1>3. front \in Seq(Block) /\ x \in Block /\ Unread(cs) = Unread(front) \o x.data
  <2>1. /\ SubSeq(cs, 1, k) \in Seq(Block) /\ cs[k + 1] \in Block
        /\ Unread(SubSeq(cs, 1, k + 1)) = Unread(SubSeq(cs, 1, k)) \o cs[k + 1].data
    BY <1>1, UnreadPrefix
  <2> QED
    BY <1>1, <1>2, <2>1, Zenon
<1>4. x.data \in Seq(1..MaxWritten) /\ x.room \in Nat /\ x.room >= n
  BY <1>3 DEF Block
<1>5. y \in Block /\ y.data = x.data \o new
  <2>1. x.data \o new \in Seq(1..MaxWritten)
    BY <1>4, ConcatProperties
  <2>2. x.room - n \in Nat
    BY <1>4
  <2> HIDE DEF x
  <2> QED
    BY <2>1, <2>2 DEF Block
<1> HIDE DEF x, y
<1>6. /\ ds \in Seq(Block) /\ Len(ds) = Len(cs)
      /\ \A j \in 1..Len(cs) : ds[j] = IF j = Len(cs) THEN y ELSE cs[j]
  BY <1>1, <1>5, ExceptSeq
<1>7. ds = Append(front, y)
  <2>1. /\ Len(front) = k
        /\ \A i \in 1..k : front[i] = cs[i]
    <3>1. \A i \in 1..k : cs[i] \in Block
      BY <1>1, ElementOfSeq
    <3>2. /\ Len(front) = IF 1 <= k THEN k - 1 + 1 ELSE 0
          /\ \A i \in 1..(k - 1 + 1) : front[i] = cs[1 + i - 1]
      <4> HIDE DEF k
      <4> QED
        BY <1>1, <3>1, SubSeqProperties
    <3>3. k - 1 + 1 = k /\ \A i \in 1..k : 1 + i - 1 = i
      BY <1>1
    <3> HIDE DEF k, front
    <3> QED
      BY <1>1, <3>2, <3>3
  <2>2. /\ Append(front, y) \in Seq(Block)
        /\ Len(Append(front, y)) = Len(front) + 1
        /\ \A i \in 1..Len(front) : Append(front, y)[i] = front[i]
        /\ Append(front, y)[Len(front) + 1] = y
    <3> HIDE DEF front
    <3> QED
      BY <1>3, <1>5, AppendProperties
  <2> DEFINE es == Append(front, y)
  <2>3. /\ es \in Seq(Block) /\ Len(es) = k + 1
        /\ \A i \in 1..k : es[i] = cs[i]
        /\ es[k + 1] = y
    <3> HIDE DEF front, k
    <3> QED
      BY <2>1, <2>2
  <2> HIDE DEF es, ds, front, k
  <2>4. ASSUME NEW i \in 1..Len(cs)
        PROVE  ds[i] = es[i]
    <3>1. i = k + 1 \/ (i \in 1..k /\ i # Len(cs))
      <4>1. k \in Nat /\ Len(cs) = k + 1 /\ i \in 1..(k + 1)
        BY <1>1
      <4>2. i = k + 1 \/ (i \in 1..k /\ i # k + 1)
        BY <4>1
      <4> QED
        BY <4>1, <4>2, Zenon
    <3>2. ASSUME i = k + 1
          PROVE  ds[i] = es[i]
      BY <1>1, <1>6, <2>3, <3>2, Zenon
    <3>3. ASSUME i \in 1..k, i # Len(cs)
          PROVE  ds[i] = es[i]
      BY <1>6, <2>3, <3>3, Zenon
    <3> QED
      BY <3>1, <3>2, <3>3
  <2>5. Len(es) = Len(cs)
    BY <1>1, <2>3
  <2>6. ds = es
    BY <1>6, <2>3, <2>4, <2>5, SeqEqual
  <2> QED
    BY <2>6 DEF es
<1>8. Unread(ds) = Unread(front) \o y.data
  <2> HIDE DEF front, ds
  <2> QED
    BY <1>3, <1>5, <1>7, UnreadAppend
<1>9. Unread(front) \in Seq(1..MaxWritten)
  BY <1>3, UnreadType
<1>10. (Unread(front) \o x.data) \o new = Unread(front) \o (x.data \o new)
  <2> DEFINE T == 1..MaxWritten
  <2> HIDE DEF T
  <2>1. ASSUME NEW s \in Seq(T), NEW t \in Seq(T), NEW v \in Seq(T)
        PROVE  (s \o t) \o v = s \o (t \o v)
    BY ConcatAssociative, SMTT(60)
  <2> HIDE DEF front
  <2> QED
    BY <1>4, <1>9, <2>1, Zenon DEF T
<1>11. Unread(ds) = Unread(cs) \o new
  BY <1>3, <1>5, <1>8, <1>10
<1> QED
  BY <1>6, <1>11 DEF x, y

\* write() puts what it is given behind what is there.
LEMMA StoreIs ==
  ASSUME NEW bs \in Seq(Block), NEW n \in Nat, buf.written \in Nat,
         buf.written + n <= MaxWritten
  PROVE  Store(bs, n) \in Seq(Block) /\ Unread(Store(bs, n)) = Unread(bs) \o NextChars(n)
<1> DEFINE fits == bs # <<>> /\ Last(bs).room >= n
           empty == [data |-> <<>>, room |-> AtLeast(AllocSize, n)]
           all == IF fits THEN bs ELSE Append(bs, empty)
           stored == [all EXCEPT ![Len(all)] = [data |-> @.data \o NextChars(n),
                                                room |-> @.room - n]]
<1>1. Store(bs, n) = stored
  BY DEF Store
<1>2. NextChars(n) \in Seq(1..MaxWritten)
  BY NextCharsIs
<1>3. /\ all \in Seq(Block) /\ all # <<>> /\ all[Len(all)].room >= n
      /\ Unread(all) = Unread(bs)
  <2>1. CASE fits
    BY <2>1 DEF Last
  <2>2. CASE ~fits
    <3>1. AtLeast(AllocSize, n) \in Nat /\ AtLeast(AllocSize, n) >= n
      BY BufferAssumption DEF AtLeast
    <3>2. empty \in Block /\ empty.data = <<>> /\ empty.room >= n
      BY <3>1, EmptySeq DEF Block
    <3> HIDE DEF empty, fits
    <3>3. /\ Append(bs, empty) \in Seq(Block) /\ Append(bs, empty) # <<>>
          /\ Len(Append(bs, empty)) = Len(bs) + 1
          /\ Append(bs, empty)[Len(bs) + 1] = empty
      BY <3>2, AppendProperties
    <3>4. Unread(Append(bs, empty)) = Unread(bs) \o <<>>
      BY <3>2, UnreadAppend
    <3>5. Unread(bs) \o <<>> = Unread(bs)
      BY UnreadType, ConcatEmptySeq
    <3>6. all = Append(bs, empty)
      BY <2>2
    <3>7. all[Len(all)] = empty
      BY <3>3, <3>6
    <3> QED
      BY <3>2, <3>3, <3>4, <3>5, <3>6, <3>7
  <2> QED
    BY <2>1, <2>2
<1> HIDE DEF all
<1>4. stored \in Seq(Block) /\ Unread(stored) = Unread(all) \o NextChars(n)
  BY <1>2, <1>3, ExtendLast
<1> QED
  BY <1>1, <1>3, <1>4

\* update_write_head keeps the buffer and its counters together.
LEMMA WrittenIs ==
  ASSUME BufferShape(buf), NEW n \in Nat, buf.written + n <= MaxWritten,
         NEW bs \in Seq(Block), Unread(bs) = Unread(buf.blocks) \o NextChars(n)
  PROVE  /\ BufferShape(Written(bs, n))
         /\ Written(bs, n).read = buf.read
         /\ Written(bs, n).total = buf.total + n
<1> DEFINE u == Unread(buf.blocks)
           v == Unread(bs)
           new == NextChars(n)
           c == Written(bs, n)
           total == buf.total
           read == buf.read
           written == buf.written
<1>0. buf \in Buffer
  BY DEF BufferShape
<1>1. /\ total \in Nat /\ read \in Nat /\ buf.synced \in Nat /\ written \in Nat
      /\ buf.blocks \in Seq(Block) /\ written = read + total /\ buf.synced <= total
      /\ written + n <= MaxWritten
  BY BufferAssumption DEF BufferShape, Buffer
<1>2. u \in Seq(1..MaxWritten)
  BY <1>1, UnreadType
<1>3. u = [i \in 1..total |-> read + i]
  BY DEF BufferShape
<1>4. /\ new \in Seq(1..MaxWritten) /\ Len(new) = n
      /\ \A i \in 1..n : new[i] = written + i
  BY <1>1, NextCharsIs
<1>5. /\ c.blocks = bs /\ c.total = total + n /\ c.read = read
      /\ c.written = written + n /\ c.synced = buf.synced
  BY <1>0 DEF Written, Buffer
<1>6. c \in Buffer
  <2>1. total + n \in Nat /\ written + n \in 0..MaxWritten
    <3>1. MaxWritten \in Nat
      BY BufferAssumption
    <3> HIDE DEF total, written, read
    <3>2. total \in Nat /\ written \in Nat /\ written + n <= MaxWritten
      BY <1>1
    <3>3. total + n \in Nat
      BY <3>2
    <3>4. written + n \in 0..MaxWritten
      BY <3>1, <3>2
    <3> QED
      BY <3>3, <3>4
  <2> QED
    BY <1>0, <2>1 DEF Written, Buffer, total, written
<1> HIDE DEF u, new, c, total, read, written
<1>7. Len(u) = total /\ \A i \in 1..total : u[i] = read + i
  BY <1>1, <1>2, <1>3, LenProperties
<1>8. /\ v \in Seq(1..MaxWritten) /\ Len(v) = total + n
      /\ \A i \in 1..(total + n) : v[i] = IF i <= total THEN u[i] ELSE new[i - total]
  <2>1. v = u \o new
    BY DEF u, new
  <2> HIDE DEF v
  <2>2. /\ v \in Seq(1..MaxWritten) /\ Len(v) = Len(u) + Len(new)
        /\ \A i \in 1..(Len(u) + Len(new)) : v[i] = IF i <= Len(u) THEN u[i] ELSE new[i - Len(u)]
    <3>1. \A s, t \in Seq(1..MaxWritten) :
            /\ s \o t \in Seq(1..MaxWritten) /\ Len(s \o t) = Len(s) + Len(t)
            /\ \A i \in 1..(Len(s) + Len(t)) :
                 (s \o t)[i] = IF i <= Len(s) THEN s[i] ELSE t[i - Len(s)]
      BY ConcatProperties, Zenon
    <3> QED
      BY <1>2, <1>4, <2>1, <3>1, Zenon
  <2> QED
    BY <1>4, <1>7, <2>2
<1> HIDE DEF v
<1>9. v = [i \in 1..c.total |-> c.read + i]
  <2>1. DOMAIN v = 1..(total + n)
    BY <1>8, LenProperties
  <2>2. \A i \in 1..(total + n) : v[i] = read + i
    <3> SUFFICES ASSUME NEW i \in 1..(total + n)
                 PROVE  v[i] = read + i
      OBVIOUS
    <3>1. CASE i <= total
      <4>1. i \in 1..total
        BY <1>1, <3>1
      <4> QED
        BY <1>7, <1>8, <3>1, <4>1
    <3>2. CASE i > total
      <4>1. i - total \in 1..n /\ ~(i <= total)
        BY <1>1, <3>2
      <4>2. v[i] = new[i - total]
        BY <1>8, <4>1
      <4>3. new[i - total] = written + (i - total)
        BY <1>4, <4>1
      <4> QED
        BY <1>1, <4>2, <4>3
    <3> QED
      BY <1>1, <3>1, <3>2
  <2>3. v = [i \in 1..(total + n) |-> v[i]]
    BY <1>8, <2>1
  <2>4. v = [i \in 1..(total + n) |-> read + i]
    BY <2>2, <2>3
  <2> QED
    BY <1>5, <2>4
<1>10. c.written = c.read + c.total /\ c.synced <= c.total
  BY <1>1, <1>5
<1>11. BufferShape(c)
  BY <1>5, <1>6, <1>9, <1>10 DEF BufferShape, v
<1> QED
  BY <1>5, <1>11 DEF c, total, read

----------------------------------------------------------------------------
(* The inductive invariant                                                 *)

\* The flags, and the block allocated for writing.
FlagShape ==
  /\ canRead \in BOOLEAN /\ canWrite \in BOOLEAN /\ closing \in BOOLEAN
  /\ allocBlock \in Nat

\* The consumer that holds a block reads nothing else, and what it was offered is
\* still there.
HeldShape ==
  /\ held \in -1..MaxWritten
  /\ held # -1 => requests = <<>> /\ held <= buf.total

\* The answers of the last step.
AnswerShape ==
  /\ answers \in Seq(Answer)
  /\ \A i \in 1..Len(answers) : InOrder(answers[i]) /\ TrueEof(answers[i])

\* All of it together; NoReaderStuck needs the counters, and the counters need
\* the blocks.
IInv ==
  /\ FlagShape
  /\ BufferShape(buf)
  /\ requests \in Seq(Asked)
  /\ HeldShape
  /\ AnswerShape
  /\ NoReaderStuck

----------------------------------------------------------------------------
(* The steps                                                               *)

\* The characters of a step's answers are those between the read head before the
\* step and after it.
Fluent(b) == Chain(b.read, answers', buf'.read)

\* The answers of a step are to the requests that waited longest, and the others
\* go on waiting.
InTurn ==
  /\ Len(answers') <= Len(requests)
  /\ requests' = SubSeq(requests, Len(answers') + 1, Len(requests))
  /\ \A i \in 1..Len(answers') :
       answers'[i].kind = requests[i].kind /\ answers'[i].size = requests[i].size

\* fulfill_outstanding on a buffer that is in order leaves no request that could
\* be satisfied at the head of the queue.
LEMMA Fulfilled ==
  ASSUME NEW b, BufferShape(b), requests \in Seq(Asked), canWrite' = canWrite,
         FulfillOutstanding(b)
  PROVE  /\ BufferShape(buf') /\ buf'.written = b.written
         /\ requests' \in Seq(Asked)
         /\ AnswerShape'
         /\ NoReaderStuck'
         /\ Fluent(b) /\ InTurn
         /\ requests = <<>> => /\ requests' = <<>> /\ answers' = <<>>
                               /\ buf'.read = b.read /\ buf'.total = b.total
<1> DEFINE st == Fulfill(b, requests)
           k == Len(answers')
<1>1. RunShape(st, b, requests, Len(requests))
  BY FulfillShape
<1>2. buf' = st.buf /\ requests' = st.left /\ answers' = st.answers
  BY DEF FulfillOutstanding
<1> HIDE DEF st
<1>3. /\ BufferShape(buf') /\ buf'.written = b.written
      /\ requests' \in Seq(Asked) /\ answers' \in Seq(Answer)
      /\ k <= Len(requests)
      /\ requests' = SubSeq(requests, k + 1, Len(requests))
      /\ requests' # <<>> => ~CanSatisfy(buf', requests[k + 1].size)
      /\ Chain(b.read, answers', buf'.read)
      /\ \A i \in 1..k : /\ answers'[i].kind = requests[i].kind
                         /\ answers'[i].size = requests[i].size
                         /\ InOrder(answers'[i]) /\ TrueEof(answers'[i])
  BY <1>1, <1>2 DEF RunShape
<1>4. AnswerShape'
  BY <1>3 DEF AnswerShape
<1>5. Fluent(b) /\ InTurn
  BY <1>3 DEF Fluent, InTurn
<1>6. k \in Nat /\ Len(requests) \in Nat
  BY <1>3, LenProperties
<1>7. NoReaderStuck'
  <2> SUFFICES ASSUME requests' # <<>>
               PROVE  canWrite /\ buf'.synced = 0 /\ buf'.total < Head(requests').size
    BY DEF NoReaderStuck
  <2> DEFINE size == requests[k + 1].size
  <2>1. ~CanSatisfy(buf', size)
    BY <1>3
  <2>2. k + 1 \in 1..Len(requests) /\ Head(requests') = requests[k + 1]
    <3> HIDE DEF k
    <3> DEFINE m == Len(requests)
    <3>1. m \in Nat
      BY <1>6
    <3>2. \A i \in (k + 1)..m : requests[i] \in Asked
      <4>1. \A i \in (k + 1)..m : i \in 1..m
        BY <1>6
      <4> QED
        BY <4>1, ElementOfSeq
    <3> HIDE DEF m
    <3>3. /\ Len(requests') = IF k + 1 <= m THEN m - (k + 1) + 1 ELSE 0
          /\ \A i \in 1..(m - (k + 1) + 1) : requests'[i] = requests[k + 1 + i - 1]
      BY <1>3, <1>6, <3>1, <3>2, SubSeqProperties DEF m
    <3>4. Len(requests') # 0
      BY <1>3, EmptySeq
    <3>5. k + 1 <= m
      BY <3>3, <3>4
    <3>6. 1 \in 1..(m - (k + 1) + 1) /\ k + 1 + 1 - 1 = k + 1 /\ k + 1 \in 1..m
      BY <1>6, <3>1, <3>5
    <3>7. requests'[1] = requests[k + 1]
      BY <3>3, <3>6
    <3>8. Head(requests') = requests'[1]
      BY <1>3
    <3> QED
      BY <3>6, <3>7, <3>8 DEF m
  <2> HIDE DEF size
  <2>3. ~(buf'.synced > 0 \/ buf'.total >= size \/ ~canWrite)
    BY <2>1 DEF CanSatisfy
  <2>4. size \in Nat /\ buf'.total \in Nat /\ buf'.synced \in Nat
    <3>1. requests[k + 1] \in Request
      BY <2>2, ElementOfSeq DEF Asked
    <3>2. size \in Nat
      BY <3>1 DEF Request, size
    <3> QED
      BY <1>3, <3>2 DEF BufferShape, Buffer
  <2>5. canWrite /\ buf'.synced = 0 /\ buf'.total < size
    BY <2>3, <2>4
  <2> QED
    BY <2>2, <2>5 DEF size
<1>8. ASSUME requests = <<>>
      PROVE  /\ requests' = <<>> /\ answers' = <<>>
             /\ buf'.read = b.read /\ buf'.total = b.total
  <2>1. Len(requests) = 0
    BY <1>8, EmptySeq
  <2>2. k = 0
    BY <1>3, <1>6, <2>1
  <2>3. answers' = <<>>
    BY <1>3, <2>2, EmptySeq
  <2>4. SubSeq(requests, 0 + 1, 0) = <<>>
    BY SubSeqEmpty
  <2>5. requests' = <<>>
    BY <1>3, <2>1, <2>2, <2>4
  <2>6. buf'.read = b.read
    BY <1>3, <2>3 DEF Chain
  <2>7. buf'.total = b.total
    <3>1. /\ b.written = b.read + b.total /\ buf'.written = buf'.read + buf'.total
          /\ b.read \in Nat /\ b.total \in Nat /\ buf'.total \in Nat
      BY <1>3 DEF BufferShape, Buffer
    <3> QED
      BY <1>3, <2>6, <3>1
  <2> QED
    BY <2>3, <2>5, <2>6, <2>7
<1> QED
  BY <1>3, <1>4, <1>5, <1>7, <1>8

\* A request is put behind those that wait.
Joins == answers' = <<>> /\ \E r \in Asked : requests' = Append(requests, r)

\* A request that can be satisfied at once does not wait.
AtOnce == Len(answers') = 1 /\ requests' = requests

TakesTurns == InTurn \/ Joins \/ AtOnce

\* Between acquire and release the head moves by release alone, and by no more
\* than was offered.
NoGap ==
  IF held # -1 /\ held' = -1
    THEN answers' = <<>> /\ buf'.read \in buf.read..(buf.read + held)
    ELSE Fluent(buf)

Kept == IInv' /\ NoGap /\ TakesTurns

\* A step without answers.
LEMMA NobodyServed ==
  ASSUME IInv, answers' = <<>>
  PROVE  /\ AnswerShape'
         /\ buf' = buf => Fluent(buf)
         /\ requests' = requests => InTurn
<1>1. <<>> \in Seq(Answer) /\ Len(<<>>) = 0
  BY EmptySeq
<1>2. AnswerShape'
  <2> DEFINE none == <<>>
  <2>1. none \in Seq(Answer) /\ \A i \in 1..Len(none) : FALSE
    BY <1>1
  <2> HIDE DEF none
  <2>2. answers' = none
    BY DEF none
  <2> QED
    BY <2>1, <2>2 DEF AnswerShape
<1>3. ASSUME buf' = buf
      PROVE  Fluent(buf)
  <2>1. \A i \in 1..(Len(answers') - 1) : FALSE
    BY <1>1
  <2> QED
    BY <1>3, <2>1 DEF Fluent, Chain
<1>4. ASSUME requests' = requests
      PROVE  InTurn
  <2>1. requests \in Seq(Asked)
    BY DEF IInv
  <2>2. Len(requests) \in Nat /\ SubSeq(requests, 1, Len(requests)) = requests
    BY <2>1, LenProperties, SubSeqFull
  <2>3. Len(answers') = 0 /\ 0 + 1 = 1 /\ \A i \in 1..0 : FALSE
    BY <1>1
  <2>4. Len(answers') <= Len(requests)
    BY <2>2, <2>3
  <2>5. SubSeq(requests, Len(answers') + 1, Len(requests)) = requests'
    BY <1>4, <2>2, <2>3
  <2>6. \A i \in 1..Len(answers') : FALSE
    BY <2>3
  <2> QED
    BY <2>4, <2>5, <2>6 DEF InTurn
<1> QED
  BY <1>2, <1>3, <1>4

\* A step that leaves the buffer and the requests alone.
LEMMA QuietKeeps ==
  ASSUME IInv, buf' = buf, requests' = requests, answers' = <<>>,
         FlagShape', HeldShape',
         closing' \/ (canWrite' = canWrite /\ closing' = closing),
         held # -1 => held' = held
  PROVE  Kept
<1>1. AnswerShape' /\ Fluent(buf) /\ InTurn
  BY NobodyServed
<1>2. NoReaderStuck'
  BY DEF IInv, NoReaderStuck
<1>3. BufferShape(buf') /\ requests' \in Seq(Asked)
  BY DEF IInv
<1>4. IInv'
  BY <1>1, <1>2, <1>3 DEF IInv
<1>5. NoGap
  BY <1>1 DEF NoGap
<1> QED
  BY <1>1, <1>4, <1>5 DEF Kept, TakesTurns

\* A step that serves those it can.
LEMMA FulfillKeeps ==
  ASSUME IInv, NEW b, BufferShape(b), b.read = buf.read, b.total >= buf.total,
         FlagShape', canWrite' = canWrite, held' = held, FulfillOutstanding(b)
  PROVE  Kept
<1>1. requests \in Seq(Asked) /\ HeldShape /\ BufferShape(buf)
  BY DEF IInv
<1>2. /\ BufferShape(buf') /\ buf'.written = b.written
      /\ requests' \in Seq(Asked)
      /\ AnswerShape'
      /\ NoReaderStuck'
      /\ Fluent(b) /\ InTurn
      /\ requests = <<>> => /\ requests' = <<>> /\ answers' = <<>>
                            /\ buf'.read = b.read /\ buf'.total = b.total
  BY <1>1, Fulfilled
<1>3. HeldShape'
  <2>1. held' \in -1..MaxWritten
    BY <1>1 DEF HeldShape
  <2>2. ASSUME held' # -1
        PROVE  requests' = <<>> /\ held' <= buf'.total
    <3>1. requests = <<>> /\ held <= buf.total
      BY <1>1, <2>2 DEF HeldShape
    <3>2. requests' = <<>> /\ buf'.total = b.total
      BY <1>2, <3>1
    <3>3. /\ buf.total \in Nat /\ b.total \in Nat /\ held \in Int
      BY <1>1, <2>1 DEF BufferShape, Buffer
    <3> QED
      BY <3>1, <3>2, <3>3
  <2> QED
    BY <2>1, <2>2 DEF HeldShape
<1>4. IInv'
  BY <1>2, <1>3 DEF IInv
<1>5. NoGap
  BY <1>2 DEF NoGap, Fluent
<1> QED
  BY <1>2, <1>4, <1>5 DEF Kept, TakesTurns

\* A read served at once.
LEMMA ServeKeeps ==
  ASSUME IInv, NEW r \in Asked, CanSatisfy(buf, r.size), held = -1,
         UNCHANGED <<canRead, canWrite, allocBlock, closing, held, requests>>,
         buf' = Serve(buf, r).buf, answers' = <<Serve(buf, r).answer>>
  PROVE  Kept
<1> DEFINE a == Serve(buf, r).answer
<1>1. BufferShape(buf) /\ requests \in Seq(Asked) /\ FlagShape /\ NoReaderStuck
  BY DEF IInv
<1>2. /\ BufferShape(buf') /\ buf'.total <= buf.total
      /\ buf.synced = 0 => buf'.synced = 0
      /\ a \in Answer /\ a.before = buf.read /\ a.after = buf'.read
      /\ InOrder(a) /\ TrueEof(a)
  BY <1>1, ServeIs
<1> HIDE DEF a
<1>3. /\ answers' = <<a>> /\ answers' \in Seq(Answer) /\ Len(answers') = 1
      /\ answers'[1] = a /\ answers' # <<>>
  BY <1>2 DEF a
<1>4. AnswerShape'
  BY <1>2, <1>3 DEF AnswerShape
<1>5. NoReaderStuck'
  <2> SUFFICES ASSUME requests # <<>>, ~closing
               PROVE  canWrite /\ buf'.synced = 0 /\ buf'.total < Head(requests).size
    BY DEF NoReaderStuck
  <2>1. canWrite /\ buf.synced = 0 /\ buf.total < Head(requests).size
    BY <1>1 DEF NoReaderStuck
  <2>2. Head(requests).size \in Nat
    <3>1. Head(requests) \in Asked
      BY <1>1, HeadTailProperties
    <3> QED
      BY <3>1 DEF Asked, Request
  <2>3. buf.total \in Nat /\ buf'.total \in Nat
    BY <1>1, <1>2 DEF BufferShape, Buffer
  <2> QED
    BY <1>2, <2>1, <2>2, <2>3
<1>6. FlagShape' /\ HeldShape'
  BY <1>1 DEF IInv, FlagShape, HeldShape
<1>7. IInv'
  BY <1>1, <1>2, <1>4, <1>5, <1>6 DEF IInv
<1>8. Fluent(buf)
  <2>1. \A i \in 1..(Len(answers') - 1) : FALSE
    BY <1>3
  <2> QED
    BY <1>2, <1>3, <2>1 DEF Fluent, Chain
<1> QED
  BY <1>3, <1>7, <1>8 DEF Kept, NoGap, TakesTurns, AtOnce

\* A read that waits.
LEMMA WaitKeeps ==
  ASSUME IInv, NEW r \in Asked, ~CanSatisfy(buf, r.size), held = -1,
         UNCHANGED <<canRead, canWrite, allocBlock, closing, held, buf>>,
         requests' = Append(requests, r), answers' = <<>>
  PROVE  Kept
<1>1. BufferShape(buf) /\ requests \in Seq(Asked) /\ FlagShape /\ NoReaderStuck
  BY DEF IInv
<1>2. AnswerShape' /\ Fluent(buf)
  BY NobodyServed
<1>3. requests' \in Seq(Asked)
  BY <1>1
<1>4. NoReaderStuck'
  <2> SUFFICES ASSUME ~closing
               PROVE  canWrite /\ buf.synced = 0 /\ buf.total < Head(requests').size
    BY DEF NoReaderStuck
  <2>1. CASE requests = <<>>
    <3>1. Head(requests') = r
      BY <2>1
    <3>2. r.size \in Nat
      BY DEF Asked, Request
    <3>3. buf.total \in Nat /\ buf.synced \in Nat
      BY <1>1 DEF BufferShape, Buffer
    <3>4. ~(buf.synced > 0 \/ buf.total >= r.size \/ ~canWrite)
      BY DEF CanSatisfy
    <3> QED
      BY <3>1, <3>2, <3>3, <3>4
  <2>2. CASE requests # <<>>
    <3>1. canWrite /\ buf.synced = 0 /\ buf.total < Head(requests).size
      BY <1>1, <2>2 DEF NoReaderStuck
    <3>2. Head(requests') = Head(requests)
      BY <1>1, <2>2
    <3> QED
      BY <3>1, <3>2
  <2> QED
    BY <2>1, <2>2
<1>5. FlagShape' /\ HeldShape'
  BY <1>1 DEF IInv, FlagShape, HeldShape
<1>6. IInv'
  BY <1>1, <1>2, <1>3, <1>4, <1>5 DEF IInv
<1>7. Joins
  BY DEF Joins
<1> QED
  BY <1>2, <1>6, <1>7 DEF Kept, NoGap, TakesTurns

\* putc and putn.
LEMMA WriteKeeps ==
  ASSUME IInv, NEW n \in Sizes, Write(n)
  PROVE  Kept
<1>1. BufferShape(buf) /\ FlagShape /\ HeldShape /\ n \in Nat
  BY BufferAssumption DEF IInv
<1>2. /\ buf.blocks \in Seq(Block) /\ buf.written \in Nat /\ buf.total \in Nat
      /\ buf.written + n <= MaxWritten
  BY <1>1 DEF BufferShape, Buffer, Write
<1>3. /\ UNCHANGED <<canRead, canWrite, allocBlock, closing, held>>
      /\ FlagShape'
  BY <1>1 DEF Write, FlagShape
<1>4. CASE canRead
  <2> DEFINE bs == Store(buf.blocks, n)
             b == Written(bs, n)
  <2>1. bs \in Seq(Block) /\ Unread(bs) = Unread(buf.blocks) \o NextChars(n)
    BY <1>1, <1>2, StoreIs
  <2>2. FulfillOutstanding(b)
    BY <1>4 DEF Write
  <2> HIDE DEF bs
  <2>3. BufferShape(b) /\ b.read = buf.read /\ b.total = buf.total + n
    BY <1>1, <1>2, <2>1, WrittenIs
  <2> HIDE DEF b
  <2>4. b.total >= buf.total
    BY <1>1, <1>2, <2>3
  <2> QED
    BY <1>3, <2>2, <2>3, <2>4, FulfillKeeps
<1>5. CASE ~canRead
  <2>1. answers' = <<>> /\ buf' = buf /\ requests' = requests
    BY <1>5 DEF Write
  <2>2. HeldShape'
    BY <1>1, <1>3, <2>1 DEF HeldShape
  <2> QED
    BY <1>3, <2>1, <2>2, QuietKeeps
<1> QED
  BY <1>4, <1>5

\* commit, of no character too.
LEMMA CommitKeeps ==
  ASSUME IInv, NEW n \in Sizes \cup {0}, Commit(n)
  PROVE  Kept
<1> DEFINE x == [data |-> NextChars(n), room |-> allocBlock - n]
           bs == Append(buf.blocks, x)
           b == Written(bs, n)
<1>1. BufferShape(buf) /\ FlagShape /\ n \in Nat /\ n <= allocBlock /\ allocBlock \in Nat
  BY BufferAssumption DEF IInv, FlagShape, Commit
<1>2. /\ buf.blocks \in Seq(Block) /\ buf.written \in Nat /\ buf.total \in Nat
      /\ buf.written + n <= MaxWritten
  BY <1>1 DEF BufferShape, Buffer, Commit
<1>3. /\ UNCHANGED <<canRead, canWrite, closing, held>> /\ allocBlock' = 0
      /\ FulfillOutstanding(b)
  BY DEF Commit
<1>4. FlagShape'
  BY <1>1, <1>3 DEF FlagShape
<1>5. x \in Block /\ x.data = NextChars(n)
  <2>1. NextChars(n) \in Seq(1..MaxWritten) /\ allocBlock - n \in Nat
    BY <1>1, <1>2, NextCharsIs
  <2> QED
    BY <2>1 DEF Block
<1> HIDE DEF x
<1>6. bs \in Seq(Block) /\ Unread(bs) = Unread(buf.blocks) \o NextChars(n)
  <2>1. bs \in Seq(Block)
    BY <1>2, <1>5, AppendProperties
  <2>2. Unread(bs) = Unread(buf.blocks) \o x.data
    BY <1>2, <1>5, UnreadAppend
  <2> QED
    BY <1>5, <2>1, <2>2
<1> HIDE DEF bs
<1>7. BufferShape(b) /\ b.read = buf.read /\ b.total = buf.total + n
  BY <1>1, <1>2, <1>6, WrittenIs
<1> HIDE DEF b
<1>8. b.total >= buf.total
  BY <1>1, <1>2, <1>7
<1> QED
  BY <1>3, <1>4, <1>7, <1>8, FulfillKeeps

\* sync.
LEMMA SyncKeeps ==
  ASSUME IInv, Sync
  PROVE  Kept
<1> DEFINE b == [buf EXCEPT !.synced = buf.total]
<1>1. BufferShape(buf) /\ FlagShape
  BY DEF IInv
<1>2. buf \in Buffer /\ buf.total \in Nat
  BY <1>1 DEF BufferShape, Buffer
<1>3. /\ b \in Buffer /\ b.blocks = buf.blocks /\ b.total = buf.total
      /\ b.read = buf.read /\ b.written = buf.written /\ b.synced = buf.total
  BY <1>2 DEF Buffer
<1>4. /\ UNCHANGED <<canRead, canWrite, allocBlock, closing, held>>
      /\ FulfillOutstanding(b)
  BY DEF Sync
<1> HIDE DEF b
<1>5. BufferShape(b) /\ b.total >= buf.total
  BY <1>1, <1>2, <1>3 DEF BufferShape
<1>6. FlagShape'
  BY <1>1, <1>4 DEF FlagShape
<1> QED
  BY <1>3, <1>4, <1>5, <1>6, FulfillKeeps

\* _close_write, under the lock ...
LEMMA CloseFulfillKeeps ==
  ASSUME IInv, CloseFulfill
  PROVE  Kept
<1>1. BufferShape(buf) /\ FlagShape
  BY DEF IInv
<1>2. buf.total \in Nat
  BY <1>1 DEF BufferShape, Buffer
<1>3. /\ UNCHANGED <<canRead, canWrite, allocBlock, held>> /\ closing' = FALSE
      /\ FulfillOutstanding(buf)
  BY DEF CloseFulfill
<1>4. buf.total >= buf.total
  BY <1>2
<1>5. FlagShape'
  BY <1>1, <1>3 DEF FlagShape
<1> QED
  BY <1>1, <1>3, <1>4, <1>5, FulfillKeeps

\* alloc.
LEMMA AllocKeeps ==
  ASSUME IInv, NEW n \in Sizes, Alloc(n)
  PROVE  Kept
<1>1. FlagShape /\ HeldShape /\ n \in Nat
  BY BufferAssumption DEF IInv
<1>2. /\ UNCHANGED <<canRead, canWrite, buf, requests, closing, held>>
      /\ allocBlock' = n /\ answers' = <<>>
  BY DEF Alloc
<1>3. FlagShape' /\ HeldShape'
  BY <1>1, <1>2 DEF FlagShape, HeldShape
<1> QED
  BY <1>2, <1>3, QuietKeeps

\* ... and before it.
LEMMA CloseWriteKeeps ==
  ASSUME IInv, CloseWrite
  PROVE  Kept
<1>1. FlagShape /\ HeldShape
  BY DEF IInv
<1>2. /\ UNCHANGED <<canRead, buf, allocBlock, requests, held>>
      /\ canWrite' = FALSE /\ closing' = TRUE /\ answers' = <<>>
  BY DEF CloseWrite
<1>3. FlagShape' /\ HeldShape'
  BY <1>1, <1>2 DEF FlagShape, HeldShape
<1> QED
  BY <1>2, <1>3, QuietKeeps

\* _close_read.
LEMMA CloseReadKeeps ==
  ASSUME IInv, CloseRead
  PROVE  Kept
<1>1. FlagShape /\ HeldShape
  BY DEF IInv
<1>2. /\ UNCHANGED <<canWrite, buf, allocBlock, requests, closing, held>>
      /\ canRead' = FALSE /\ answers' = <<>>
  BY DEF CloseRead
<1>3. FlagShape' /\ HeldShape'
  BY <1>1, <1>2 DEF FlagShape, HeldShape
<1> QED
  BY <1>2, <1>3, QuietKeeps

\* enqueue_request.
LEMMA ReadKeeps ==
  ASSUME IInv, NEW r \in Asked, Read(r)
  PROVE  Kept
<1>1. CASE CanSatisfy(buf, r.size)
  BY <1>1, ServeKeeps DEF Read
<1>2. CASE ~CanSatisfy(buf, r.size)
  BY <1>2, WaitKeeps DEF Read
<1> QED
  BY <1>1, <1>2

\* The synchronous reads.
LEMMA ReadNowKeeps ==
  ASSUME IInv, NEW r \in Asked, ReadNow(r)
  PROVE  Kept
  BY ServeKeeps DEF ReadNow

\* The first block holds no more than all of them.
LEMMA FrontIs ==
  ASSUME NEW bs \in Seq(Block), bs # <<>>
  PROVE  Len(Head(bs).data) \in 0..Len(Unread(bs))
<1> DEFINE front == Len(Head(bs).data)
           upto(n) == Len(Unread(SubSeq(bs, 1, n)))
           size(n) == Len(bs[n].data)
           S == {n \in Nat : n < Len(bs) => front <= upto(n + 1)}
<1>1. /\ Len(bs) \in Nat /\ Len(bs) # 0 /\ SubSeq(bs, 1, Len(bs)) = bs
      /\ Head(bs) = bs[1] /\ Head(bs) \in Block
  BY LenProperties, SubSeqFull, HeadTailProperties, EmptySeq
<1>2. Head(bs).data \in Seq(1..MaxWritten) /\ front \in Nat
  <2>1. Head(bs).data \in Seq(1..MaxWritten)
    BY <1>1 DEF Block
  <2> QED
    BY <2>1, LenProperties
<1>3. \A n \in Nat : n < Len(bs) =>
        /\ Unread(SubSeq(bs, 1, n)) \in Seq(1..MaxWritten)
        /\ bs[n + 1].data \in Seq(1..MaxWritten)
        /\ Unread(SubSeq(bs, 1, n + 1)) = Unread(SubSeq(bs, 1, n)) \o bs[n + 1].data
  <2> SUFFICES ASSUME NEW n \in Nat, n < Len(bs)
               PROVE  /\ Unread(SubSeq(bs, 1, n)) \in Seq(1..MaxWritten)
                      /\ bs[n + 1].data \in Seq(1..MaxWritten)
                      /\ Unread(SubSeq(bs, 1, n + 1))
                           = Unread(SubSeq(bs, 1, n)) \o bs[n + 1].data
    OBVIOUS
  <2>1. 1 \in 1..(n + 1) /\ n \in 0..Len(bs)
    BY <1>1
  <2>2. /\ bs[n + 1] \in Block
        /\ Unread(SubSeq(bs, 1, n + 1)) = Unread(SubSeq(bs, 1, n)) \o bs[n + 1].data
    BY <2>1, UnreadPrefix
  <2>3. Unread(SubSeq(bs, 1, n)) \in Seq(1..MaxWritten)
    BY <2>1, UnreadType
  <2> QED
    BY <2>2, <2>3 DEF Block
<1> HIDE DEF front
<1>4. \A n \in Nat : n < Len(bs) => /\ upto(n + 1) = upto(n) + size(n + 1)
                                    /\ upto(n) \in Nat /\ size(n + 1) \in Nat
  BY <1>3, ConcatProperties, LenProperties
<1> HIDE DEF upto, size
<1>5. 0 \in S
  <2>1. 0 < Len(bs) /\ 0 + 1 = 1 /\ 0 \in Nat
    BY <1>1
  <2>2. front = size(1)
    BY <1>1 DEF front, size
  <2>3. upto(0 + 1) = upto(0) + size(0 + 1) /\ upto(0) \in Nat /\ size(0 + 1) \in Nat
    BY <1>4, <2>1, Zenon
  <2>4. front <= upto(0 + 1)
    BY <2>1, <2>2, <2>3
  <2> QED
    BY <2>4
<1>6. ASSUME NEW n \in Nat, n \in S
      PROVE  n + 1 \in S
  <2> SUFFICES ASSUME n + 1 < Len(bs)
               PROVE  front <= upto((n + 1) + 1)
    OBVIOUS
  <2>1. n < Len(bs) /\ n + 1 \in Nat
    BY <1>1
  <2>2. front <= upto(n + 1)
    BY <1>6, <2>1
  <2>3. /\ upto((n + 1) + 1) = upto(n + 1) + size((n + 1) + 1)
        /\ upto(n + 1) \in Nat /\ size((n + 1) + 1) \in Nat
    BY <1>4, <2>1, Zenon
  <2> QED
    BY <1>2, <2>2, <2>3
<1> HIDE DEF S
<1>7. \A n \in Nat : n \in S
  BY <1>5, <1>6, NaturalInduction
<1>8. Len(bs) - 1 \in Nat /\ Len(bs) - 1 < Len(bs) /\ (Len(bs) - 1) + 1 = Len(bs)
  BY <1>1
<1>9. front <= Len(Unread(bs))
  <2>1. front <= upto((Len(bs) - 1) + 1)
    BY <1>7, <1>8 DEF S
  <2> QED
    BY <1>1, <1>8, <2>1 DEF upto
<1>10. Len(Unread(bs)) \in Nat
  <2>1. Unread(bs) \in Seq(1..MaxWritten)
    BY UnreadType
  <2> QED
    BY <2>1, LenProperties
<1> QED
  BY <1>2, <1>9, <1>10 DEF front

\* acquire offers no more than is there.
LEMMA AcquireKeeps ==
  ASSUME IInv, Acquire
  PROVE  Kept
<1> DEFINE front == Len(Head(buf.blocks).data)
<1>1. FlagShape /\ BufferShape(buf)
  BY DEF IInv
<1>2. /\ UNCHANGED <<canRead, canWrite, buf, allocBlock, requests, closing>>
      /\ requests = <<>> /\ buf.blocks # <<>> /\ held = -1
      /\ held' = front /\ answers' = <<>>
  BY DEF Acquire
<1>3. /\ buf.blocks \in Seq(Block) /\ buf.total \in Nat /\ buf.read \in Nat
      /\ buf.written = buf.read + buf.total /\ buf.written \in 0..MaxWritten
  BY <1>1 DEF BufferShape, Buffer
<1>4. front \in 0..Len(Unread(buf.blocks))
  BY <1>2, <1>3, FrontIs
<1>5. Len(Unread(buf.blocks)) = buf.total
  <2>1. Unread(buf.blocks) = [i \in 1..buf.total |-> buf.read + i]
    BY <1>1 DEF BufferShape
  <2>2. Unread(buf.blocks) \in Seq(1..MaxWritten)
    BY <1>3, UnreadType
  <2>3. DOMAIN Unread(buf.blocks) = 1..buf.total
    BY <2>1
  <2> HIDE DEF Unread
  <2> QED
    BY <1>3, <2>2, <2>3, LenProperties
<1> HIDE DEF front
<1>6. front \in Nat /\ front <= buf.total /\ front <= MaxWritten /\ MaxWritten \in Nat
  <2>1. MaxWritten \in Nat
    BY BufferAssumption
  <2> QED
    BY <1>3, <1>4, <1>5, <2>1
<1>7. HeldShape'
  <2>1. held' \in -1..MaxWritten
    BY <1>2, <1>6
  <2> QED
    BY <1>2, <1>6, <2>1 DEF HeldShape
<1>8. FlagShape'
  BY <1>1, <1>2 DEF FlagShape
<1> QED
  BY <1>2, <1>7, <1>8, QuietKeeps

\* release takes no more than was offered.
LEMMA ReleaseKeeps ==
  ASSUME IInv, NEW n \in 0..MaxWritten, Release(n)
  PROVE  Kept
<1>1. BufferShape(buf) /\ FlagShape /\ HeldShape /\ requests \in Seq(Asked)
  BY DEF IInv
<1>2. /\ UNCHANGED <<canRead, canWrite, allocBlock, requests, closing>>
      /\ n <= held /\ held' = -1 /\ buf' = Advance(buf, n) /\ answers' = <<>>
  BY DEF Release
<1>3. n \in Nat /\ MaxWritten \in Nat
  BY BufferAssumption
<1>4. held \in -1..MaxWritten /\ held # -1
  BY <1>1, <1>2, <1>3 DEF HeldShape
<1>5. requests = <<>> /\ held <= buf.total
  BY <1>1, <1>4 DEF HeldShape
<1>6. buf.total \in Nat /\ buf.read \in Nat
  BY <1>1 DEF BufferShape, Buffer
<1>7. n \in 0..buf.total
  BY <1>2, <1>3, <1>4, <1>5, <1>6
<1>8. BufferShape(buf') /\ buf'.read = buf.read + n
  BY <1>1, <1>2, <1>7, AdvanceIs
<1>9. buf'.read \in buf.read..(buf.read + held)
  BY <1>2, <1>3, <1>4, <1>6, <1>8
<1>10. AnswerShape' /\ InTurn
  BY <1>2, NobodyServed
<1>11. NoReaderStuck' /\ HeldShape' /\ FlagShape'
  <2>1. -1 \in -1..MaxWritten
    BY <1>3
  <2> QED
    BY <1>1, <1>2, <1>5, <2>1 DEF NoReaderStuck, HeldShape, FlagShape
<1>12. IInv'
  BY <1>1, <1>2, <1>8, <1>10, <1>11 DEF IInv
<1> QED
  BY <1>2, <1>4, <1>9, <1>10, <1>12 DEF Kept, NoGap, TakesTurns

----------------------------------------------------------------------------
(* Results                                                                 *)

\* An empty buffer.
LEMMA InitIInv == Init => IInv
<1> SUFFICES ASSUME Init
             PROVE  IInv
  OBVIOUS
<1>0. MaxWritten \in Nat
  BY BufferAssumption
<1>1. FlagShape
  BY DEF Init, FlagShape
<1>2. BufferShape(buf)
  <2>1. /\ buf.blocks = <<>> /\ buf.total = 0 /\ buf.read = 0
        /\ buf.written = 0 /\ buf.synced = 0
    BY DEF Init
  <2>2. buf \in Buffer
    <3>1. <<>> \in Seq(Block) /\ 0 \in 0..MaxWritten
      BY <1>0, EmptySeq
    <3> QED
      BY <3>1 DEF Init, Buffer
  <2>3. [i \in 1..0 |-> 0 + i] = <<>>
    OBVIOUS
  <2>4. Unread(buf.blocks) = [i \in 1..buf.total |-> buf.read + i]
    BY <2>1, <2>3, UnreadEmpty
  <2> QED
    BY <2>1, <2>2, <2>4 DEF BufferShape
<1>3. requests = <<>> /\ answers = <<>> /\ held = -1
  BY DEF Init
<1>4. requests \in Seq(Asked) /\ answers \in Seq(Answer) /\ Len(answers) = 0
  BY <1>3, EmptySeq
<1>5. HeldShape
  BY <1>0, <1>3 DEF HeldShape
<1>6. AnswerShape
  <2>1. \A i \in 1..Len(answers) : FALSE
    BY <1>4
  <2> QED
    BY <1>4, <2>1 DEF AnswerShape
<1>7. NoReaderStuck
  BY <1>3 DEF NoReaderStuck
<1> QED
  BY <1>1, <1>2, <1>4, <1>5, <1>6, <1>7 DEF IInv

\* Every step of the producer and of the consumer.
LEMMA NextKeeps ==
  ASSUME IInv, Next
  PROVE  Kept
<1>1. \A n \in Sizes : [kind |-> "getn", size |-> n] \in Asked
  BY BufferAssumption DEF Asked, Request, Kind
<1>2. \A k \in {"bumpc", "getc", "nextc"} : [kind |-> k, size |-> 1] \in Asked
  BY DEF Asked, Request, Kind
<1>3. \A n \in Sizes, k \in {"getn", "copy"} : [kind |-> k, size |-> n] \in Asked
  BY BufferAssumption DEF Asked, Request, Kind
<1>4. CASE Producer
  <2>1. ASSUME NEW n \in Sizes, Write(n)
        PROVE  Kept
    BY <2>1, WriteKeeps
  <2>2. ASSUME NEW n \in Sizes, Alloc(n)
        PROVE  Kept
    BY <2>2, AllocKeeps
  <2>3. ASSUME NEW n \in Sizes \cup {0}, Commit(n)
        PROVE  Kept
    BY <2>3, CommitKeeps
  <2> QED
    BY <1>4, <2>1, <2>2, <2>3, SyncKeeps, CloseWriteKeeps, CloseFulfillKeeps DEF Producer
<1>5. CASE Consumer
  <2>1. ASSUME NEW n \in Sizes, Read([kind |-> "getn", size |-> n])
        PROVE  Kept
    BY <1>1, <2>1, ReadKeeps
  <2>2. ASSUME NEW k \in {"bumpc", "getc", "nextc"}, Read([kind |-> k, size |-> 1])
        PROVE  Kept
    BY <1>2, <2>2, ReadKeeps
  <2>3. ASSUME NEW k \in {"bumpc", "getc"}, ReadNow([kind |-> k, size |-> 1])
        PROVE  Kept
    BY <1>2, <2>3, ReadNowKeeps
  <2>4. ASSUME NEW n \in Sizes, NEW k \in {"getn", "copy"},
               ReadNow([kind |-> k, size |-> n])
        PROVE  Kept
    BY <1>3, <2>4, ReadNowKeeps
  <2>5. ASSUME NEW n \in 0..MaxWritten, Release(n)
        PROVE  Kept
    BY <2>5, ReleaseKeeps
  <2> QED
    BY <1>5, <2>1, <2>2, <2>3, <2>4, <2>5, AcquireKeeps, CloseReadKeeps DEF Consumer
<1> QED
  BY <1>4, <1>5 DEF Next

\* The invariant behind the other results: whatever the producer and the consumer
\* do under m_lock, the blocks, the counters, the queue m_requests and the block
\* acquired fit together.
THEOREM BufferInvariant == Spec => []IInv
<1>1. ASSUME IInv, [Next]_vars
      PROVE  IInv'
  <2>1. CASE Next
    BY <1>1, <2>1, NextKeeps DEF Kept
  <2>2. CASE UNCHANGED vars
    BY <1>1, <2>2 DEF vars, IInv, FlagShape, HeldShape, AnswerShape, NoReaderStuck
  <2> QED
    BY <1>1, <2>1, <2>2
<1> QED
  BY <1>1, InitIInv, PTL DEF Spec

\* The counters m_total, m_total_read, m_total_written and m_synced never go below
\* zero, and every block and request has its type.
THEOREM TypeCorrect == Spec => []TypeOK
<1>1. IInv => TypeOK
  <2> SUFFICES ASSUME IInv
               PROVE  TypeOK
    OBVIOUS
  <2>1. FlagShape /\ buf \in Buffer /\ HeldShape /\ requests \in Seq(Asked)
    BY DEF IInv, BufferShape
  <2>2. Asked \subseteq Request
    BY DEF Asked
  <2>3. requests \in Seq(Request)
    BY <2>1, <2>2
  <2>4. MaxWritten \in Nat
    BY BufferAssumption
  <2> QED
    BY <2>1, <2>3, <2>4 DEF TypeOK, FlagShape, Buffer, HeldShape
<1> QED
  BY <1>1, BufferInvariant, PTL

\* However the characters are spread over the blocks, and wherever a read, a release
\* or a commit left the heads, the blocks hold exactly what was written and not
\* read, in order, and m_total, m_total_read and m_total_written agree with them.
THEOREM ContentsKept == Spec => []Contents
<1>1. IInv => Contents
  BY DEF IInv, BufferShape, Contents
<1> QED
  BY <1>1, BufferInvariant, PTL

\* Every answer of _request::complete holds consecutive characters from the read
\* head on and moves the head past what it consumed, even when one
\* fulfill_outstanding serves several reads.
THEOREM AnswersKeepOrder == Spec => []AnswersInOrder
<1>1. IInv => AnswersInOrder
  <2> SUFFICES ASSUME IInv
               PROVE  AnswersInOrder
    OBVIOUS
  <2>1. DOMAIN answers = 1..Len(answers) /\ \A i \in 1..Len(answers) : InOrder(answers[i])
    BY LenProperties DEF IInv, AnswerShape
  <2>2. \A i \in DOMAIN answers : InOrder(answers[i])
    BY <2>1
  <2> QED
    BY <2>2 DEF AnswersInOrder, InOrder
<1> QED
  BY <1>1, BufferInvariant, PTL

\* A read that returns no characters has seen the end: the buffer was closed for
\* writing and everything written had been read.
THEOREM EofIsTrue == Spec => []NoFalseEof
<1>1. IInv => NoFalseEof
  <2> SUFFICES ASSUME IInv
               PROVE  NoFalseEof
    OBVIOUS
  <2>1. DOMAIN answers = 1..Len(answers) /\ \A i \in 1..Len(answers) : TrueEof(answers[i])
    BY LenProperties DEF IInv, AnswerShape
  <2>2. \A i \in DOMAIN answers : TrueEof(answers[i])
    BY <2>1
  <2> QED
    BY <2>2 DEF NoFalseEof, TrueEof
<1> QED
  BY <1>1, BufferInvariant, PTL

\* A read waits only for what is not there: every step that brings characters, a
\* flush or the end of the stream fulfills the requests it can.
THEOREM ReadersAreServed == Spec => []NoReaderStuck
<1>1. IInv => NoReaderStuck
  BY DEF IInv
<1> QED
  BY <1>1, BufferInvariant, PTL

\* From one step to the next the answers continue one another: nothing is skipped
\* and nothing is returned twice, except what the client itself lets go with
\* release(), which is never more than acquire() offered.  With AnswersInOrder:
\* all reads together return the stream.
THEOREM ReadsLeaveNoGap == Spec => [][NoGap]_vars
<1>1. IInv /\ [Next]_vars => [NoGap]_vars
  BY NextKeeps DEF Kept
<1> QED
  BY <1>1, BufferInvariant, PTL DEF Spec

\* A request leaves m_requests only when it is answered, from the front, and joins
\* it only at the back; the answers of fulfill_outstanding are those of the first
\* requests.
THEOREM RequestsTakeTurns == Spec => [][TakesTurns]_vars
<1>1. IInv /\ [Next]_vars => [TakesTurns]_vars
  BY NextKeeps DEF Kept
<1> QED
  BY <1>1, BufferInvariant, PTL DEF Spec

=============================================================================
