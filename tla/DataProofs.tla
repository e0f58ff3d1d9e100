----------------------------- MODULE DataProofs -----------------------------
(* The chunks of pkg/chunk, content-defined and of a fixed size, and the    *)
(* patches of pkg/diff: for every input, every Params a caller may ask for, *)
(* every wrap of the rolling hash, since none of what is proved here depends*)
(* on where the hash cuts, and every number of patches.                     *)
EXTENDS Chunker, DiffChain, Induction, SequenceTheorems

(* A leaf is for Zenon to prove unless it cites SMT, for arithmetic,        *)
(* sequences and records, or PTL, for temporal logic.                       *)
USE Zenon

-----------------------------------------------------------------------------
(* Sequences.                                                               *)

(* What makes a function a sequence, and two sequences equal.               *)
LEMMA IsSequence ==
  ASSUME NEW S, NEW n \in Nat, NEW f \in [1..n -> S]
  PROVE  f \in Seq(S) /\ Len(f) = n
BY SMT

(* Two sequences of the same elements are the same.                         *)
LEMMA SameSequence ==
  ASSUME NEW S, NEW s \in Seq(S), NEW t \in Seq(S), Len(s) = Len(t),
         \A i \in 1..Len(s) : s[i] = t[i]
  PROVE  s = t
BY SMT

(* Two neighbouring pieces of a sequence make one.                          *)
LEMMA PiecesJoin ==
  ASSUME NEW S, NEW d \in Seq(S), NEW a \in 0..Len(d), NEW b \in a..Len(d)
  PROVE  /\ SubSeq(d, 1, a) \o SubSeq(d, a + 1, b) = SubSeq(d, 1, b)
         /\ SubSeq(d, a + 1, b) \in Seq(S) /\ Len(SubSeq(d, a + 1, b)) = b - a
<1>1. /\ SubSeq(d, 1, a) \in Seq(S) /\ Len(SubSeq(d, 1, a)) = a
      /\ SubSeq(d, a + 1, b) \in Seq(S) /\ Len(SubSeq(d, a + 1, b)) = b - a
      /\ SubSeq(d, 1, b) \in Seq(S) /\ Len(SubSeq(d, 1, b)) = b
  BY SMT
<1> DEFINE u == SubSeq(d, 1, a) \o SubSeq(d, a + 1, b)
           v == SubSeq(d, 1, b)
<1>2. u \in Seq(S) /\ Len(u) = b /\ \A i \in 1..b : u[i] = v[i]
  <2>1. u \in Seq(S) /\ Len(u) = b
    BY <1>1, SMT
  <2>2. ASSUME NEW i \in 1..b, i <= a PROVE u[i] = v[i]
    <3>1. u[i] = SubSeq(d, 1, a)[i]
      BY <1>1, <2>2, SMT
    <3> QED
      BY <2>2, <3>1, SMT
  <2>3. ASSUME NEW i \in 1..b, i > a PROVE u[i] = v[i]
    <3>1. u[i] = SubSeq(d, a + 1, b)[i - a]
      BY <1>1, <2>3, SMT
    <3>2. SubSeq(d, a + 1, b)[i - a] = d[i]
      BY <2>3, SMT
    <3> QED
      BY <2>3, <3>1, <3>2, SMT
  <2> QED
    BY <2>1, <2>2, <2>3, SMT
<1>3. v \in Seq(S) /\ Len(v) = b
  BY <1>1
<1> HIDE DEF u, v
<1>4. u = v
  BY <1>2, <1>3, SameSequence
<1> QED
  BY <1>1, <1>4 DEF u, v

-----------------------------------------------------------------------------
(* Reassembling chunks.                                                     *)

(* The function that FlattenSeq is defined by exists.                       *)
LEMMA FlattenIsDefined ==
  ASSUME NEW s, NEW n \in Nat
  PROVE  \E g : g = [i \in 1..n |-> IF i = 1 THEN s[i] ELSE g[i - 1] \o s[i]]
<1> DEFINE Cat(u, v) == u \o v
           T == {k \in Nat : \E g : g = [i \in 1..k |-> IF i = 1 THEN s[i] ELSE Cat(g[i - 1], s[i])]}
<1> HIDE DEF Cat
<1>1. 0 \in T
  <2> DEFINE g == [i \in 1..0 |-> i]
  <2>1. g = [i \in 1..0 |-> IF i = 1 THEN s[i] ELSE Cat(g[i - 1], s[i])]
    BY SMT
  <2> QED
    BY <2>1
<1>2. ASSUME NEW k \in Nat, k \in T PROVE k + 1 \in T
  <2>1. PICK g : g = [i \in 1..k |-> IF i = 1 THEN s[i] ELSE Cat(g[i - 1], s[i])]
    BY <1>2
  <2> DEFINE h == [i \in 1..(k + 1) |-> IF i = 1 THEN s[i] ELSE Cat(g[i - 1], s[i])]
  <2>2. \A i \in 1..k : g[i] = IF i = 1 THEN s[i] ELSE Cat(g[i - 1], s[i])
    BY <2>1
  <2>3. \A i \in 1..k : h[i] = g[i]
    BY <2>2, SMT
  <2>4. \A i \in 1..(k + 1) : i # 1 => h[i - 1] = g[i - 1]
    BY <2>3, SMT
  <2>5. h = [i \in 1..(k + 1) |-> IF i = 1 THEN s[i] ELSE Cat(h[i - 1], s[i])]
    BY <2>4
  <2> HIDE DEF h
  <2> QED
    BY <2>5, SMT
<1>3. Nat \subseteq T
  <2> HIDE DEF T
  <2> QED
    BY <1>1, <1>2, NatSetInduction
<1> QED
  BY <1>3 DEF Cat

(* What the first chunks make, for each number of them.                     *)
Flatten(s, n) ==
  CHOOSE g : g = [i \in 1..n |-> IF i = 1 THEN s[i] ELSE g[i - 1] \o s[i]]

(* Each turn of the reassembling adds one chunk.                            *)
LEMMA FlattenEquation ==
  ASSUME NEW s, NEW n \in Nat, NEW k \in 1..n
  PROVE  /\ k = 1 => Flatten(s, n)[k] = s[k]
         /\ k # 1 => Flatten(s, n)[k] = Flatten(s, n)[k - 1] \o s[k]
<1> DEFINE Cat(u, v) == u \o v
           f == Flatten(s, n)
<1>1. f = [i \in 1..n |-> IF i = 1 THEN s[i] ELSE Cat(f[i - 1], s[i])]
  BY FlattenIsDefined DEF Flatten
<1> HIDE DEF Cat, f
<1>2. f[k] = IF k = 1 THEN s[k] ELSE Cat(f[k - 1], s[k])
  BY <1>1
<1> QED
  BY <1>2 DEF Cat, f

(* Reassembling one more chunk adds its bytes at the end.                   *)
LEMMA FlattenAppend ==
  ASSUME NEW S, NEW s \in Seq(Seq(S)), NEW e \in Seq(S)
  PROVE  /\ FlattenSeq(s) \in Seq(S)
         /\ FlattenSeq(Append(s, e)) = FlattenSeq(s) \o e
<1> DEFINE n == Len(s)
           t == Append(s, e)
           f == Flatten(s, n)
           h == Flatten(t, n + 1)
<1>0. n \in Nat /\ Len(t) = n + 1 /\ t[n + 1] = e /\ \A i \in 1..n : t[i] = s[i] /\ s[i] \in Seq(S)
  BY SMT
<1>1. n # 0 => FlattenSeq(s) = f[n]
  BY <1>0 DEF FlattenSeq, Flatten
<1>2. FlattenSeq(t) = h[n + 1]
  <2>1. Len(t) # 0
    BY <1>0, SMT
  <2>2. FlattenSeq(t) = Flatten(t, Len(t))[Len(t)]
    BY <2>1 DEF FlattenSeq, Flatten
  <2> QED
    BY <1>0, <2>2
<1>3. n = 0 => s = <<>> /\ FlattenSeq(s) = <<>>
  BY SMT DEF FlattenSeq
<1> HIDE DEF f, h, t, n
<1>4. n \in Nat /\ n + 1 \in Nat /\ n + 1 \in 1..(n + 1) /\ (n + 1) - 1 = n
  <2>1. n \in Nat
    BY <1>0
  <2> QED
    BY <2>1, SMT
<1>5. /\ 1 \in 1..n => f[1] = s[1]
      /\ \A k \in 1..n : k # 1 => f[k] = f[k - 1] \o s[k]
  BY <1>0, FlattenEquation DEF f
<1>6. /\ 1 \in 1..(n + 1) => h[1] = t[1]
      /\ \A k \in 1..(n + 1) : k # 1 => h[k] = h[k - 1] \o t[k]
  BY <1>4, FlattenEquation DEF h
<1> DEFINE T == {k \in 0..n : k # 0 => f[k] \in Seq(S) /\ h[k] = f[k]}
<1>7. 0..n \subseteq T
  <2>1. 0 \in T
    BY <1>0, SMT
  <2>2. ASSUME NEW k \in 0..(n - 1), k \in T PROVE k + 1 \in T
    <3>1. k + 1 \in 1..n /\ k + 1 \in 1..(n + 1) /\ (k + 1) - 1 = k /\ k + 1 \in 0..n
      BY <1>0, SMT
    <3>2. t[k + 1] = s[k + 1] /\ s[k + 1] \in Seq(S)
      BY <1>0, <3>1
    <3>3. CASE k = 0
      <4>1. k + 1 = 1
        BY <3>3, SMT
      <4>2. f[k + 1] = s[k + 1] /\ h[k + 1] = t[k + 1]
        BY <1>5, <1>6, <3>1, <4>1
      <4> QED
        BY <3>1, <3>2, <4>2
    <3>4. CASE k # 0
      <4>1. k + 1 # 1
        BY <3>4, SMT
      <4>2. /\ f[k + 1] = f[(k + 1) - 1] \o s[k + 1]
            /\ h[k + 1] = h[(k + 1) - 1] \o t[k + 1]
        BY <1>5, <1>6, <3>1, <4>1
      <4>3. f[k] \in Seq(S) /\ h[k] = f[k]
        BY <2>2, <3>4
      <4>4. f[k + 1] \in Seq(S) /\ h[k + 1] = f[k + 1]
        <5>1. f[k + 1] = f[k] \o s[k + 1] /\ h[k + 1] = f[k] \o s[k + 1]
          BY <3>1, <3>2, <4>2, <4>3
        <5>2. f[k] \o s[k + 1] \in Seq(S)
          BY <3>2, <4>3, SMT
        <5> QED
          BY <5>1, <5>2
      <4> QED
        BY <3>1, <4>4
    <3> QED
      BY <3>3, <3>4
  <2> HIDE DEF T
  <2> QED
    BY <1>0, <2>1, <2>2, IntervalInduction
<1>9. CASE n = 0
  <2>0. n + 1 = 1
    BY <1>9, SMT
  <2>1. h[n + 1] = e
    BY <1>0, <1>4, <1>6, <2>0
  <2>2. <<>> \in Seq(S) /\ <<>> \o e = e
    BY SMT
  <2> QED
    BY <1>2, <1>3, <1>9, <2>1, <2>2 DEF t
<1>10. CASE n # 0
  <2>1. f[n] \in Seq(S) /\ h[n] = f[n]
    BY <1>0, <1>7, <1>10, SMT
  <2>2. n + 1 # 1
    BY <1>4, <1>10, SMT
  <2>3. h[n + 1] = h[(n + 1) - 1] \o e
    BY <1>0, <1>4, <1>6, <2>2
  <2> QED
    BY <1>1, <1>2, <1>4, <1>10, <2>1, <2>3 DEF t
<1> QED
  BY <1>9, <1>10

-----------------------------------------------------------------------------
(* The content-defined chunker.                                             *)

(* normalize makes any Params a positive, ordered one, and leaves one that  *)
(* Validate accepts as it is.                                               *)
LEMMA NormalizeFacts ==
  ASSUME NEW p \in CkRequests
  PROVE  LET n == Normalize(p)
         IN  /\ n.min \in Nat \ {0} /\ n.max \in Nat /\ n.min <= n.max
             /\ ValidChunking(p) => n.min = p.min /\ n.max = p.max
<1> DEFINE given == [k \in DOMAIN p |-> IF p[k] <= 0 THEN CkDefaults[k] ELSE p[k]]
           avg == IF given.min > given.avg THEN given.min ELSE given.avg
           max == IF avg > given.max THEN avg ELSE given.max
<1>1. /\ DOMAIN p = {"min", "avg", "max", "window"}
      /\ p.min \in Int /\ p.avg \in Int /\ p.max \in Int
      /\ CkDefaults.min \in Nat \ {0} /\ CkDefaults.avg \in Nat \ {0} /\ CkDefaults.max \in Nat \ {0}
  BY CkAssumption DEF ParamsOf
<1>2. /\ given.min = IF p.min <= 0 THEN CkDefaults.min ELSE p.min
      /\ given.avg = IF p.avg <= 0 THEN CkDefaults.avg ELSE p.avg
      /\ given.max = IF p.max <= 0 THEN CkDefaults.max ELSE p.max
  BY <1>1
<1>3. /\ Normalize(p).min = given.min
      /\ Normalize(p).max = max
  <2>1. Normalize(p) = [given EXCEPT !.avg = avg, !.max = max]
    BY DEF Normalize
  <2>2. DOMAIN given = {"min", "avg", "max", "window"}
    BY <1>1
  <2> HIDE DEF given, avg, max
  <2> QED
    BY <2>1, <2>2
<1>4. ValidChunking(p) => /\ p.min > 0 /\ p.avg > 0 /\ p.max > 0
                          /\ p.min <= p.avg /\ p.avg <= p.max
  BY <1>1 DEF ValidChunking
<1> HIDE DEF given
<1> QED
  BY <1>1, <1>2, <1>3, <1>4, SMT

(* The chunks so far, as ReassembleChunks takes them.                       *)
Datas == [i \in DOMAIN ckChunks |-> ckChunks[i].data]

(* The chunks' bytes, chunk by chunk.                                       *)
LEMMA DatasType ==
  ASSUME CkTypeOK
  PROVE  /\ Len(ckChunks) \in Nat /\ DOMAIN ckChunks = 1..Len(ckChunks)
         /\ Datas \in Seq(Seq(CkBytes)) /\ Len(Datas) = Len(ckChunks)
         /\ \A i \in 1..Len(ckChunks) : /\ Datas[i] = ckChunks[i].data
                                       /\ ckChunks[i].data \in Seq(CkBytes)
                                       /\ ckChunks[i].offset \in Nat
                                       /\ ckChunks[i].lost \in Nat
<1> DEFINE n == Len(ckChunks)
           B == Seq(CkBytes)
           C == [offset : Nat, data : B, lost : Nat]
<1>0. ckChunks \in Seq(C)
  BY DEF CkTypeOK, ChunkRecords
<1> HIDE DEF B, C
<1>1. n \in Nat /\ DOMAIN ckChunks = 1..n /\ \A i \in 1..n : ckChunks[i] \in C
  BY <1>0, SMT
<1> HIDE DEF n
<1>2. \A i \in 1..n : ckChunks[i].data \in B /\ ckChunks[i].offset \in Nat /\ ckChunks[i].lost \in Nat
  BY <1>1 DEF C
<1>3. Datas \in [1..n -> B] /\ \A i \in 1..n : Datas[i] = ckChunks[i].data
  BY <1>1, <1>2 DEF Datas
<1>4. Datas \in Seq(B) /\ Len(Datas) = n
  BY <1>1, <1>3, IsSequence
<1> QED
  BY <1>1, <1>2, <1>3, <1>4 DEF n, B

(* EmitChunk returns what was collected as one more chunk, at the end of the     *)
(* others.                                                                  *)
LEMMA EmitFacts ==
  ASSUME CkTypeOK, NEW data \in Seq(CkBytes), EmitChunk(data), ckOffset \in Nat
  PROVE  /\ ckChunks' \in Seq(ChunkRecords)
         /\ Len(ckChunks') = Len(ckChunks) + 1
         /\ \A i \in DOMAIN ckChunks : ckChunks'[i] = ckChunks[i]
         /\ ckChunks'[Len(ckChunks) + 1] = [offset |-> ckOffset, data |-> data, lost |-> ckLost]
         /\ Datas' = Append(Datas, data)
<1> DEFINE c == [offset |-> ckOffset, data |-> data, lost |-> ckLost]
           C == ChunkRecords
<1>1. c \in C /\ c.data = data
  BY DEF CkTypeOK, ChunkRecords
<1>2. ckChunks' = Append(ckChunks, c) /\ ckChunks \in Seq(C)
  BY DEF EmitChunk, CkTypeOK
<1> HIDE DEF c, C
<1>3. /\ ckChunks' \in Seq(C)
      /\ Len(ckChunks') = Len(ckChunks) + 1
      /\ \A i \in DOMAIN ckChunks : ckChunks'[i] = ckChunks[i]
      /\ ckChunks'[Len(ckChunks) + 1] = c
  BY <1>1, <1>2, SMT
<1>4. DOMAIN ckChunks = 1..Len(ckChunks) /\ DOMAIN ckChunks' = 1..(Len(ckChunks) + 1)
  BY <1>2, <1>3, SMT
<1>5. Datas' = Append(Datas, data)
  <2> DEFINE n == Len(ckChunks)
             B == Seq(CkBytes)
  <2>1. n \in Nat /\ n + 1 \in Nat
    BY <1>2, SMT
  <2> HIDE DEF B
  <2>2. Datas \in Seq(B) /\ Len(Datas) = n /\ \A i \in 1..n : Datas[i] = ckChunks[i].data
    BY DatasType DEF B
  <2>3. /\ DOMAIN Datas' = 1..(n + 1) /\ Datas' = [i \in 1..(n + 1) |-> ckChunks'[i].data]
        /\ \A i \in 1..(n + 1) : Datas'[i] = ckChunks'[i].data
    BY <1>4 DEF Datas
  <2>4. data \in B
    BY DEF B
  <2>5. \A i \in 1..n : Datas'[i] = Datas[i]
    <3>1. \A i \in 1..n : ckChunks'[i] = ckChunks[i] /\ i \in 1..(n + 1)
      BY <1>3, <1>4, <2>1, SMT
    <3> QED
      BY <2>2, <2>3, <3>1
  <2>6. Datas'[n + 1] = data
    BY <1>1, <1>3, <2>1, <2>3, SMT
  <2> HIDE DEF n
  <2>7. \A i \in 1..(n + 1) : Datas'[i] = IF i = n + 1 THEN data ELSE Datas[i]
    BY <2>1, <2>5, <2>6, SMT
  <2>8. \A i \in 1..(n + 1) : Datas'[i] \in B
    BY <2>1, <2>2, <2>4, <2>7, SMT
  <2>9. Datas' \in [1..(n + 1) -> B]
    BY <2>3, <2>8
  <2>10. Datas' \in Seq(B) /\ Len(Datas') = n + 1
    BY <2>1, <2>9, IsSequence
  <2>11. /\ Append(Datas, data) \in Seq(B) /\ Len(Append(Datas, data)) = n + 1
         /\ \A i \in 1..(n + 1) : Append(Datas, data)[i] = IF i = n + 1 THEN data ELSE Datas[i]
    BY <2>1, <2>2, <2>4, SMT
  <2> QED
    BY <2>1, <2>7, <2>10, <2>11, SameSequence
<1> QED
  BY <1>3, <1>5 DEF c, C

Whole == FlattenSeq(Datas)

(* What the chunks emitted so far reassemble to is a string of bytes.       *)
LEMMA WholeType ==
  ASSUME CkTypeOK
  PROVE  Whole \in Seq(CkBytes)
<1>1. <<>> \in Seq(CkBytes)
  BY SMT
<1> QED
  BY <1>1, DatasType, FlattenAppend DEF Whole

(* ChunksAreTheInput, by Whole.                                             *)
AtTheirPlaces ==
  /\ \A i \in DOMAIN ckChunks :
       LET c == ckChunks[i]
       IN  /\ SubSeq(ckInput, PlaceOf(c) + 1, PlaceOf(c) + Len(c.data)) = c.data
           /\ c.lost <= ckLost
  /\ Len(ckInput) = Len(Whole) + ckLost + Len(ckBuf)
  /\ ckOffset = Len(Whole)

NothingLost == ckErrors = 0 => Whole \o ckBuf = ckInput /\ ckLost = 0

(* The property of the chunks, by what they reassemble to.                  *)
LEMMA ChunksByWhole == ChunksAreTheInput <=> NothingLost /\ AtTheirPlaces
BY DEF ChunksAreTheInput, NothingLost, AtTheirPlaces, Whole, Datas, ReassembleChunks

(* A part of a sequence that starts inside it and is as long as asked for   *)
(* lies inside it, and stays where it is when the sequence grows.           *)
LEMMA PartStays ==
  ASSUME NEW S, NEW s \in Seq(S), NEW e \in Seq(S), NEW d \in Seq(S), NEW o \in Nat,
         SubSeq(s, o + 1, o + Len(d)) = d, o + Len(d) <= Len(s)
  PROVE  SubSeq(s \o e, o + 1, o + Len(d)) = d
BY SMT

(* d is what s holds after its first o elements.                            *)
IsAfter(s, o, d) == Len(s) = o + Len(d) /\ SubSeq(s, o + 1, o + Len(d)) = d

(* Sequences can be joined in either order.                                 *)
Associate(s, t, u) == (s \o t) \o u = s \o (t \o u)

LEMMA JoinsAssociate ==
  ASSUME NEW S, NEW s \in Seq(S), NEW t \in Seq(S), NEW u \in Seq(S)
  PROVE  Associate(s, t, u)
BY ConcatAssociative, SMT DEF Associate

(* The end of a sequence grows with it.                                     *)
LEMMA EndGrows ==
  ASSUME NEW S, NEW s \in Seq(S), NEW e \in Seq(S), NEW d \in Seq(S), NEW o \in Nat,
         IsAfter(s, o, d)
  PROVE  d \o e \in Seq(S) /\ IsAfter(s \o e, o, d \o e)
<1> DEFINE n == Len(d)
           m == Len(e)
           t == s \o e
           w == d \o e
<1>1. n \in Nat /\ m \in Nat /\ Len(s) = o + n
  BY SMT DEF IsAfter
<1>2. /\ w \in Seq(S) /\ Len(w) = n + m
      /\ \A i \in 1..(n + m) : w[i] = IF i <= n THEN d[i] ELSE e[i - n]
  BY SMT
<1>3. /\ t \in Seq(S) /\ Len(t) = (o + n) + m
      /\ \A i \in 1..((o + n) + m) : t[i] = IF i <= o + n THEN s[i] ELSE e[i - (o + n)]
  BY <1>1, SMT
<1>4. \A i \in 1..n : s[o + i] = d[i]
  <2>1. \A i \in 1..n : SubSeq(s, o + 1, o + n)[i] = s[o + i]
    BY <1>1, SMT
  <2> QED
    BY <2>1 DEF IsAfter
<1> HIDE DEF n, m, t, w
<1> DEFINE v == SubSeq(t, o + 1, o + (n + m))
<1>5. v \in Seq(S) /\ Len(v) = n + m /\ \A i \in 1..(n + m) : v[i] = t[o + i]
  <2> DEFINE j == o + 1
             k == o + (n + m)
  <2>1. /\ j \in Int /\ k \in Int /\ k - j + 1 = n + m /\ (IF j <= k THEN k - j + 1 ELSE 0) = n + m
        /\ \A i \in j..k : i \in 1..Len(t)
        /\ \A i \in 1..(n + m) : j + i - 1 = o + i
    BY <1>1, <1>3, SMT
  <2>2. v = SubSeq(t, j, k)
    OBVIOUS
  <2> HIDE DEF j, k, v
  <2>3. \A i \in j..k : t[i] \in S
    BY <1>3, <2>1, ElementOfSeq, SMT
  <2>4. SubSeq(t, j, k) \in Seq(S)
    BY <2>1, <2>3, SubSeqProperties
  <2>5. Len(SubSeq(t, j, k)) = n + m
    BY <1>1, <1>3, <2>1, SMT
  <2>6. \A i \in 1..(k - j + 1) : SubSeq(t, j, k)[i] = t[j + i - 1]
    BY <1>1, <1>3, <2>1, SMT
  <2> QED
    BY <2>1, <2>2, <2>4, <2>5, <2>6
<1> HIDE DEF v
<1>6. ASSUME NEW i \in 1..(n + m) PROVE v[i] = w[i]
  <2>1. o + i \in 1..((o + n) + m) /\ i \in Nat
    BY <1>1, SMT
  <2>2. CASE i <= n
    <3>1. o + i <= o + n /\ i \in 1..n
      BY <1>1, <2>1, <2>2, SMT
    <3> QED
      BY <1>2, <1>3, <1>4, <1>5, <2>1, <2>2, <3>1
  <2>3. CASE ~(i <= n)
    <3>1. ~(o + i <= o + n) /\ (o + i) - (o + n) = i - n
      BY <1>1, <2>1, <2>3, SMT
    <3> QED
      BY <1>2, <1>3, <1>5, <2>1, <2>3, <3>1
  <2> QED
    BY <2>2, <2>3
<1>7. v = w
  BY <1>2, <1>5, <1>6, SameSequence
<1>8. (o + n) + m = o + (n + m)
  BY <1>1, SMT
<1> QED
  BY <1>2, <1>3, <1>7, <1>8 DEF v, w, t, IsAfter

(* What is read is put after what was, so every chunk stays in its place.   *)
LEMMA InputGrows ==
  ASSUME CkTypeOK, CkPlacesOK, AtTheirPlaces, NEW e \in Seq(CkBytes), ckInput' = ckInput \o e
  PROVE  LET p == ckOffset + ckLost
             buf == ckBuf \o e
         IN  /\ p \in Nat /\ buf \in Seq(CkBytes)
             /\ Len(ckInput') = p + Len(buf)
             /\ SubSeq(ckInput', p + 1, p + Len(buf)) = buf
             /\ \A i \in 1..Len(ckChunks) :
                  LET c == ckChunks[i]
                  IN  /\ PlaceOf(c) \in Nat /\ Len(c.data) \in Nat
                      /\ SubSeq(ckInput', PlaceOf(c) + 1, PlaceOf(c) + Len(c.data)) = c.data
                      /\ c.lost <= ckLost
                      /\ PlaceOf(c) + Len(c.data) <= p
<1> DEFINE p == ckOffset + ckLost
           buf == ckBuf \o e
<1>1. /\ ckOffset \in Nat /\ ckLost \in Nat /\ ckBuf \in Seq(CkBytes) /\ ckInput \in Seq(CkBytes)
      /\ ckOffset = Len(Whole) /\ Len(ckInput) = Len(Whole) + ckLost + Len(ckBuf)
  BY DEF CkTypeOK, CkPlacesOK, AtTheirPlaces
<1>2. p \in Nat /\ Len(ckInput) = p + Len(ckBuf)
  BY <1>1, SMT
<1>3. SubSeq(ckInput, p + 1, p + Len(ckBuf)) = ckBuf
  BY DEF CkPlacesOK
<1>4. Len(ckChunks) \in Nat /\ DOMAIN ckChunks = 1..Len(ckChunks)
  BY DatasType
<1>5. ASSUME NEW i \in 1..Len(ckChunks)
      PROVE  LET c == ckChunks[i]
             IN  /\ PlaceOf(c) \in Nat /\ Len(c.data) \in Nat
                 /\ SubSeq(ckInput', PlaceOf(c) + 1, PlaceOf(c) + Len(c.data)) = c.data
                 /\ c.lost <= ckLost
                 /\ PlaceOf(c) + Len(c.data) <= p
  <2> DEFINE o == PlaceOf(ckChunks[i])
             d == ckChunks[i].data
  <2>1. o \in Nat /\ d \in Seq(CkBytes)
    BY DatasType, SMT DEF PlaceOf
  <2>2. /\ SubSeq(ckInput, o + 1, o + Len(d)) = d
        /\ ckChunks[i].lost <= ckLost
        /\ o + Len(d) <= p
    BY <1>4 DEF AtTheirPlaces, CkPlacesOK
  <2> HIDE DEF o, d, p
  <2>3. Len(d) \in Nat /\ o + Len(d) <= Len(ckInput)
    BY <1>1, <1>2, <2>1, <2>2, SMT
  <2>4. SubSeq(ckInput \o e, o + 1, o + Len(d)) = d
    BY <1>1, <2>1, <2>2, <2>3, PartStays
  <2> QED
    BY <2>1, <2>2, <2>3, <2>4 DEF o, d
<1> HIDE DEF p
<1>6. /\ buf \in Seq(CkBytes) /\ Len(ckInput \o e) = p + Len(buf)
      /\ SubSeq(ckInput \o e, p + 1, p + Len(buf)) = buf
  <2>2. ckBuf \in Seq(CkBytes) /\ ckInput \in Seq(CkBytes) /\ p \in Nat
    BY <1>1, <1>2
  <2>1. IsAfter(ckInput, p, ckBuf)
    BY <1>2, <1>3 DEF IsAfter
  <2>3. buf \in Seq(CkBytes) /\ IsAfter(ckInput \o e, p, buf)
    BY <2>1, <2>2, EndGrows
  <2> QED
    BY <2>3 DEF IsAfter
<1> QED
  BY <1>2, <1>5, <1>6 DEF p

(* EmitChunk keeps every chunk in its place and puts the new one at the     *)
(* end.                                                                     *)
LEMMA EmitKeepsPlaces ==
  ASSUME CkTypeOK, CkPlacesOK, AtTheirPlaces, NEW e \in Seq(CkBytes),
         ckInput' = ckInput \o e, ckLost' = ckLost, EmitChunk(ckBuf \o e)
  PROVE  Whole' = Whole \o (ckBuf \o e) /\ AtTheirPlaces' /\ CkPlacesOK'
<1> DEFINE n == Len(ckChunks)
           data == ckBuf \o e
           p == ckOffset + ckLost
<1>0. /\ p \in Nat /\ data \in Seq(CkBytes) /\ Len(ckInput') = p + Len(data)
      /\ SubSeq(ckInput', p + 1, p + Len(data)) = data
  BY InputGrows
<1>1. ASSUME NEW i \in 1..n
      PROVE  LET c == ckChunks[i]
             IN  /\ PlaceOf(c) \in Nat /\ Len(c.data) \in Nat
                 /\ SubSeq(ckInput', PlaceOf(c) + 1, PlaceOf(c) + Len(c.data)) = c.data
                 /\ c.lost <= ckLost
                 /\ PlaceOf(c) + Len(c.data) <= p
  BY InputGrows
<1> HIDE DEF data
<1>2. EmitChunk(data) /\ ckOffset \in Nat /\ ckLost \in Nat
  BY DEF data, CkPlacesOK, CkTypeOK
<1>3. /\ Len(ckChunks') = n + 1
      /\ \A i \in DOMAIN ckChunks : ckChunks'[i] = ckChunks[i]
      /\ ckChunks'[n + 1] = [offset |-> ckOffset, data |-> data, lost |-> ckLost]
      /\ Datas' = Append(Datas, data)
      /\ ckChunks' \in Seq(ChunkRecords)
  BY <1>0, <1>2, EmitFacts
<1>4. DOMAIN ckChunks' = 1..(n + 1)
  BY <1>3, SMT
<1>5. n \in Nat /\ DOMAIN ckChunks = 1..n /\ Datas \in Seq(Seq(CkBytes))
  BY DatasType
<1>6. Whole' = Whole \o data
  BY <1>0, <1>3, <1>5, FlattenAppend DEF Whole
<1>7. /\ Whole \in Seq(CkBytes) /\ ckOffset = Len(Whole) /\ ckOffset' = ckOffset + Len(data)
      /\ ckBuf' = <<>>
  BY <1>2, WholeType DEF AtTheirPlaces, EmitChunk
<1>8. ckOffset' = Len(Whole') /\ Len(data) \in Nat /\ ckOffset' \in Nat
  BY <1>0, <1>6, <1>7, SMT
<1>9. ckOffset' + ckLost' = p + Len(data) /\ Len(ckBuf') = 0
  BY <1>2, <1>7, <1>8, SMT
<1>10. Len(ckInput') = Len(Whole') + ckLost' + Len(ckBuf')
  BY <1>0, <1>2, <1>8, <1>9, SMT
<1>11. SubSeq(ckInput', ckOffset' + ckLost' + 1, ckOffset' + ckLost' + Len(ckBuf')) = ckBuf'
  <2> DEFINE m == ckOffset' + ckLost'
  <2>1. m \in Nat
    BY <1>2, <1>8, SMT
  <2> HIDE DEF m
  <2>2. SubSeq(ckInput', m + 1, m + 0) = <<>>
    BY <2>1, SMT
  <2> QED
    BY <1>7, <1>9, <2>2 DEF m
<1>12. ASSUME NEW i \in 1..(n + 1)
       PROVE  LET c == ckChunks'[i]
              IN  /\ SubSeq(ckInput', PlaceOf(c) + 1, PlaceOf(c) + Len(c.data)) = c.data
                  /\ c.lost <= ckLost'
                  /\ PlaceOf(c) + Len(c.data) <= ckOffset' + ckLost'
  <2>1. CASE i \in 1..n
    <3> DEFINE c == ckChunks[i]
    <3>1. ckChunks'[i] = c
      BY <1>3, <1>5, <2>1
    <3>2. /\ PlaceOf(c) \in Nat /\ Len(c.data) \in Nat
          /\ SubSeq(ckInput', PlaceOf(c) + 1, PlaceOf(c) + Len(c.data)) = c.data
          /\ c.lost <= ckLost
          /\ PlaceOf(c) + Len(c.data) <= p
      BY <1>1, <2>1
    <3> HIDE DEF c, p
    <3>3. PlaceOf(c) + Len(c.data) <= p + Len(data)
      BY <1>0, <1>8, <3>2, SMT
    <3> QED
      BY <1>9, <3>1, <3>2, <3>3
  <2>2. CASE i = n + 1
    <3>1. /\ ckChunks'[i].offset = ckOffset /\ ckChunks'[i].data = data
          /\ ckChunks'[i].lost = ckLost
      BY <1>3, <2>2, SMT
    <3>2. PlaceOf(ckChunks'[i]) = p
      BY <3>1 DEF PlaceOf
    <3>3. ckLost <= ckLost /\ p + Len(data) <= p + Len(data)
      BY <1>0, <1>2, <1>8, SMT
    <3> HIDE DEF p
    <3> QED
      BY <1>0, <1>9, <3>1, <3>2, <3>3
  <2>3. i \in 1..n \/ i = n + 1
    BY <1>5, SMT
  <2> QED
    BY <2>1, <2>2, <2>3
<1> QED
  BY <1>4, <1>6, <1>8, <1>10, <1>11, <1>12 DEF AtTheirPlaces, CkPlacesOK, data

(* Every step of the chunker keeps the types of its variables.              *)
LEMMA CkTypeStep ==
  ASSUME CkTypeOK, CkPlacesOK, [CkNext]_ckVars
  PROVE  CkTypeOK'
<1>1. ASSUME NEW p \in CkRequests, NewRabinChunker(p) PROVE CkTypeOK'
  <2>1. p # CkNil
    BY CkAssumption
  <2> QED
    BY <1>1, <2>1 DEF NewRabinChunker, CkTypeOK
<1>2. ASSUME NEW b \in CkBytes, NextByte(b) PROVE CkTypeOK'
  <2> DEFINE buf == Append(ckBuf, b)
  <2>1. ckRequest # CkNil /\ UNCHANGED <<ckRequest, ckParams, ckErrors, ckLost, ckEof>>
    BY <1>2 DEF NextByte, Reading, CkTypeOK
  <2>2. buf \in Seq(CkBytes) /\ ckInput' \in Seq(CkBytes)
    BY <1>2, SMT DEF NextByte, CkTypeOK
  <2>3. ckBuf' \in Seq(CkBytes) /\ ckChunks' \in Seq(ChunkRecords)
    <3>1. CASE EmitChunk(buf)
      <4>1. ckBuf' \in Seq(CkBytes)
        BY <3>1, SMT DEF EmitChunk
      <4> HIDE DEF buf
      <4>2. ckChunks' \in Seq(ChunkRecords)
        BY <2>2, <3>1, EmitFacts DEF CkPlacesOK
      <4> QED
        BY <4>1, <4>2
    <3>2. CASE ckBuf' = buf /\ UNCHANGED ckChunks
      BY <2>2, <3>2 DEF CkTypeOK
    <3> QED
      BY <1>2, <3>1, <3>2 DEF NextByte
  <2> QED
    BY <2>1, <2>2, <2>3 DEF CkTypeOK
<1>3. CASE NextEof
  <2>1. /\ ckRequest # CkNil /\ UNCHANGED <<ckRequest, ckParams, ckErrors, ckLost, ckInput>>
        /\ ckEof' \in BOOLEAN
    BY <1>3 DEF NextEof, Reading, CkTypeOK
  <2>2. ckBuf' \in Seq(CkBytes) /\ ckChunks' \in Seq(ChunkRecords)
    <3>1. CASE EmitChunk(ckBuf)
      <4>1. ckBuf' \in Seq(CkBytes) /\ ckBuf \in Seq(CkBytes)
        BY <3>1, SMT DEF EmitChunk, CkTypeOK
      <4>2. ckChunks' \in Seq(ChunkRecords)
        BY <3>1, <4>1, EmitFacts DEF CkPlacesOK
      <4> QED
        BY <4>1, <4>2
    <3>2. CASE UNCHANGED <<ckBuf, ckChunks>>
      BY <3>2 DEF CkTypeOK
    <3> QED
      BY <1>3, <3>1, <3>2 DEF NextEof
  <2> QED
    BY <2>1, <2>2 DEF CkTypeOK
<1>4. CASE NextReadError
  BY <1>4, SMT DEF NextReadError, CkTypeOK
<1>5. CASE UNCHANGED ckVars
  BY <1>5 DEF ckVars, CkTypeOK
<1> QED
  BY <1>1, <1>2, <1>3, <1>4, <1>5 DEF CkNext

(* A byte read goes to the buffer, and the buffer to the next chunk: no step *)
(* loses or moves one, and a failed read alone drops some.                  *)
LEMMA InputStep ==
  ASSUME CkTypeOK, CkPlacesOK, ChunksAreTheInput, [CkNext]_ckVars
  PROVE  CkPlacesOK' /\ ChunksAreTheInput'
<1> DEFINE Fine == CkPlacesOK /\ NothingLost /\ AtTheirPlaces
<1>0. NothingLost /\ AtTheirPlaces
  BY ChunksByWhole
<1>a. SUFFICES Fine'
  BY ChunksByWhole, PTL
<1>b. /\ Whole \in Seq(CkBytes) /\ ckBuf \in Seq(CkBytes) /\ ckInput \in Seq(CkBytes)
      /\ ckLost \in Nat /\ ckOffset \in Nat /\ Len(ckBuf) \in Nat /\ ckErrors \in Nat
  BY WholeType, SMT DEF CkTypeOK, CkPlacesOK
<1>c. DOMAIN ckChunks = 1..Len(ckChunks)
  BY DatasType
<1>d. ASSUME NEW e \in Seq(CkBytes) PROVE Whole \o (ckBuf \o e) = (Whole \o ckBuf) \o e
  <2>1. Whole \in Seq(CkBytes) /\ ckBuf \in Seq(CkBytes)
    BY <1>b
  <2>2. Associate(Whole, ckBuf, e)
    BY <2>1, JoinsAssociate
  <2> QED
    BY <2>2 DEF Associate
<1>1. ASSUME UNCHANGED <<ckInput, ckBuf, ckOffset, ckChunks, ckErrors, ckLost>> PROVE Fine'
  BY <1>0, <1>1 DEF Whole, Datas, AtTheirPlaces, NothingLost, CkPlacesOK, PlaceOf
<1>2. ASSUME NEW e \in Seq(CkBytes), ckInput' = ckInput \o e, EmitChunk(ckBuf \o e),
             UNCHANGED <<ckErrors, ckLost>>
      PROVE  Fine'
  <2>1. Whole' = Whole \o (ckBuf \o e) /\ AtTheirPlaces' /\ CkPlacesOK'
    BY <1>0, <1>2, EmitKeepsPlaces
  <2>2. Whole \o (ckBuf \o e) = (Whole \o ckBuf) \o e
    BY <1>d
  <2>3. ckBuf' = <<>> /\ Whole' \o <<>> = Whole'
    <3>1. ckBuf \o e \in Seq(CkBytes)
      BY <1>2, <1>b, SMT
    <3> DEFINE d == ckBuf \o e
    <3> HIDE DEF d
    <3>2. d \in Seq(CkBytes)
      BY <3>1 DEF d
    <3>3. Whole \o d \in Seq(CkBytes)
      BY <1>b, <3>2, SMT
    <3>4. Whole' \in Seq(CkBytes)
      BY <2>1, <3>3 DEF d
    <3> QED
      BY <1>2, <3>4, SMT DEF EmitChunk
  <2> QED
    BY <1>0, <1>2, <2>1, <2>2, <2>3 DEF NothingLost
<1>3. ASSUME NEW e \in Seq(CkBytes), ckInput' = ckInput \o e, ckBuf' = ckBuf \o e,
             UNCHANGED <<ckOffset, ckChunks, ckErrors, ckLost>>
      PROVE  Fine'
  <2> DEFINE p == ckOffset + ckLost
  <2>1. /\ p \in Nat /\ Len(ckInput') = p + Len(ckBuf')
        /\ SubSeq(ckInput', p + 1, p + Len(ckBuf')) = ckBuf'
    BY <1>0, <1>3, InputGrows
  <2>2. \A i \in 1..Len(ckChunks) :
          LET c == ckChunks[i]
          IN  /\ SubSeq(ckInput', PlaceOf(c) + 1, PlaceOf(c) + Len(c.data)) = c.data
              /\ c.lost <= ckLost
              /\ PlaceOf(c) + Len(c.data) <= p
    BY <1>0, <1>3, InputGrows
  <2>3. Whole' = Whole /\ ckOffset = Len(Whole)
    BY <1>0, <1>3 DEF Whole, Datas, AtTheirPlaces
  <2>4. CkPlacesOK'
    BY <1>3, <1>b, <1>c, <2>1, <2>2 DEF CkPlacesOK, PlaceOf
  <2>5. AtTheirPlaces'
    BY <1>3, <1>c, <2>1, <2>2, <2>3 DEF AtTheirPlaces, PlaceOf
  <2>6. Whole \o (ckBuf \o e) = (Whole \o ckBuf) \o e
    BY <1>d
  <2>7. NothingLost'
    BY <1>0, <1>3, <2>3, <2>6 DEF NothingLost
  <2> QED
    BY <2>4, <2>5, <2>7
<1>4. ASSUME NEW p \in CkRequests, NewRabinChunker(p) PROVE Fine'
  BY <1>1, <1>4 DEF NewRabinChunker
<1>5. ASSUME NEW b \in CkBytes, NextByte(b) PROVE Fine'
  <2> DEFINE e == <<b>>
  <2>1. e \in Seq(CkBytes) /\ Append(ckInput, b) = ckInput \o e /\ Append(ckBuf, b) = ckBuf \o e
    BY <1>b, AppendIsConcat, SMT
  <2>2. /\ ckInput' = Append(ckInput, b) /\ UNCHANGED <<ckErrors, ckLost>>
        /\ \/ EmitChunk(Append(ckBuf, b))
           \/ ckBuf' = Append(ckBuf, b) /\ UNCHANGED <<ckChunks, ckOffset>>
    BY <1>5 DEF NextByte
  <2> HIDE DEF e
  <2> QED
    BY <1>2, <1>3, <2>1, <2>2
<1>6. CASE NextEof
  <2>1. <<>> \in Seq(CkBytes) /\ ckInput = ckInput \o <<>> /\ ckBuf = ckBuf \o <<>>
    BY <1>b, SMT
  <2>2. /\ UNCHANGED <<ckInput, ckErrors, ckLost>>
        /\ EmitChunk(ckBuf) \/ UNCHANGED <<ckBuf, ckChunks, ckOffset>>
    BY <1>6 DEF NextEof
  <2> QED
    BY <1>1, <1>2, <2>1, <2>2
<1>7. CASE NextReadError
  <2>1. /\ ckErrors' # 0 /\ ckBuf' = <<>> /\ ckLost' = ckLost + Len(ckBuf)
        /\ UNCHANGED <<ckInput, ckChunks, ckOffset>>
    BY <1>7, <1>b, SMT DEF NextReadError
  <2>2. Whole' = Whole /\ ckOffset = Len(Whole) /\ Len(ckInput) = Len(Whole) + ckLost + Len(ckBuf)
    BY <1>0, <2>1 DEF Whole, Datas, AtTheirPlaces
  <2>3. Len(ckBuf') = 0
    BY <2>1, SMT
  <2>4. Len(ckInput') = Len(Whole') + ckLost' + Len(ckBuf')
    BY <1>b, <2>1, <2>2, <2>3, SMT
  <2>5. SubSeq(ckInput', ckOffset' + ckLost' + 1, ckOffset' + ckLost' + Len(ckBuf')) = ckBuf'
    <3> DEFINE m == ckOffset' + ckLost'
    <3>1. m \in Nat
      BY <1>b, <2>1, SMT
    <3> HIDE DEF m
    <3>2. SubSeq(ckInput', m + 1, m + 0) = <<>>
      BY <3>1, SMT
    <3> QED
      BY <2>1, <2>3, <3>2 DEF m
  <2>6. ASSUME NEW i \in 1..Len(ckChunks)
        PROVE  LET c == ckChunks[i]
               IN  /\ SubSeq(ckInput, PlaceOf(c) + 1, PlaceOf(c) + Len(c.data)) = c.data
                   /\ c.lost <= ckLost'
                   /\ PlaceOf(c) + Len(c.data) <= ckOffset + ckLost'
    <3> DEFINE c == ckChunks[i]
               q == PlaceOf(c) + Len(c.data)
    <3>1. c.offset \in Nat /\ c.lost \in Nat /\ c.data \in Seq(CkBytes)
      BY DatasType
    <3>2. /\ SubSeq(ckInput, PlaceOf(c) + 1, PlaceOf(c) + Len(c.data)) = c.data
          /\ c.lost <= ckLost /\ q <= ckOffset + ckLost
      BY <1>0, <1>c DEF AtTheirPlaces, CkPlacesOK
    <3> HIDE DEF c
    <3>3. q \in Nat
      BY <3>1, SMT DEF PlaceOf
    <3> HIDE DEF q
    <3>4. c.lost <= ckLost' /\ q <= ckOffset + ckLost'
      BY <1>b, <2>1, <3>1, <3>2, <3>3, SMT
    <3> QED
      BY <3>2, <3>4 DEF c, q
  <2>7. CkPlacesOK'
    BY <1>b, <1>c, <2>1, <2>5, <2>6 DEF CkPlacesOK, PlaceOf
  <2>8. AtTheirPlaces'
    BY <1>c, <2>1, <2>2, <2>4, <2>6 DEF AtTheirPlaces, PlaceOf
  <2> QED
    BY <2>1, <2>7, <2>8 DEF NothingLost
<1>8. CASE UNCHANGED ckVars
  BY <1>1, <1>8 DEF ckVars
<1> QED
  BY <1>4, <1>5, <1>6, <1>7, <1>8 DEF CkNext

(* A chunk is cut once it has MinSize bytes and at MaxSize at the latest.   *)
LEMMA SizesStep ==
  ASSUME CkTypeOK, CkPlacesOK, CkSizesOK, [CkNext]_ckVars
  PROVE  CkSizesOK'
<1> DEFINE n == Len(ckChunks)
           Fits(c, last) ==
             /\ Len(c.data) <= ckParams.max
             /\ Len(c.data) >= ckParams.min \/ last
<1>0. n \in Nat /\ DOMAIN ckChunks = 1..n /\ ckBuf \in Seq(CkBytes) /\ Len(ckBuf) \in Nat
  BY DatasType, SMT DEF CkTypeOK
<1>1. ASSUME NEW p \in CkRequests, NewRabinChunker(p) PROVE CkSizesOK'
  <2>1. Normalize(p).max \in Nat \ {0}
    BY NormalizeFacts, SMT
  <2>2. ckBuf' = <<>> /\ ckChunks' = <<>> /\ ckParams' = Normalize(p)
    BY <1>1 DEF NewRabinChunker, CkTypeOK
  <2> QED
    BY <2>1, <2>2, SMT DEF CkSizesOK
<1>2. ASSUME Reading
      PROVE  /\ ckRequest # CkNil /\ ~ckEof
             /\ ckParams.max \in Nat \ {0} /\ ckParams.min \in Nat \ {0}
             /\ ckParams.min <= ckParams.max
             /\ Len(ckBuf) < ckParams.max
             /\ \A i \in 1..n : /\ Len(ckChunks[i].data) <= ckParams.max
                               /\ Len(ckChunks[i].data) >= ckParams.min
  <2>1. ckRequest # CkNil /\ ~ckEof
    BY <1>2 DEF Reading, CkTypeOK
  <2>2. ckRequest \in CkRequests /\ ckParams = Normalize(ckRequest)
    BY <2>1 DEF CkTypeOK
  <2>3. /\ ckParams.max \in Nat \ {0} /\ ckParams.min \in Nat \ {0}
        /\ ckParams.min <= ckParams.max
    BY <2>2, NormalizeFacts, SMT
  <2> QED
    BY <1>0, <2>1, <2>3 DEF CkSizesOK
<1>3. ASSUME NEW data \in Seq(CkBytes), EmitChunk(data), Reading, UNCHANGED ckParams,
             Len(data) <= ckParams.max, Len(data) >= ckParams.min \/ ckEof'
      PROVE  CkSizesOK'
  <2>1. /\ Len(ckChunks') = n + 1 /\ DOMAIN ckChunks' = 1..(n + 1)
        /\ \A i \in 1..n : ckChunks'[i] = ckChunks[i]
        /\ ckChunks'[n + 1] = [offset |-> ckOffset, data |-> data, lost |-> ckLost]
    <3>1. ckOffset \in Nat
      BY DEF CkPlacesOK
    <3>2. /\ ckChunks' \in Seq(ChunkRecords)
          /\ Len(ckChunks') = n + 1
          /\ \A i \in DOMAIN ckChunks : ckChunks'[i] = ckChunks[i]
          /\ ckChunks'[n + 1] = [offset |-> ckOffset, data |-> data, lost |-> ckLost]
      BY <1>3, <3>1, EmitFacts
    <3>3. DOMAIN ckChunks' = 1..(n + 1)
      BY <3>2, SMT
    <3> QED
      BY <1>0, <3>2, <3>3
  <2>2. ckBuf' = <<>> /\ Len(ckBuf') = 0
    BY <1>3 DEF EmitChunk
  <2>3. ckChunks'[n + 1].data = data
    BY <2>1, SMT
  <2>4. \A i \in 1..(n + 1) : i \in 1..n \/ i = n + 1
    BY <1>0, SMT
  <2>5. ASSUME NEW i \in 1..(n + 1)
        PROVE  /\ Len(ckChunks'[i].data) <= ckParams.max
               /\ Len(ckChunks'[i].data) >= ckParams.min \/ (ckEof' /\ i = n + 1)
    BY <1>2, <1>3, <2>1, <2>3, <2>4
  <2>6. 0 < ckParams.max
    BY <1>2, <1>3, SMT
  <2> QED
    BY <1>3, <2>1, <2>2, <2>5, <2>6 DEF CkSizesOK
<1>4. ASSUME NEW b \in CkBytes, NextByte(b) PROVE CkSizesOK'
  <2> DEFINE buf == Append(ckBuf, b)
  <2>1. Reading /\ UNCHANGED <<ckRequest, ckParams, ckEof>>
    BY <1>4 DEF NextByte
  <2>2. buf \in Seq(CkBytes) /\ Len(buf) = Len(ckBuf) + 1
    BY <1>0, SMT
  <2> HIDE DEF buf
  <2>3. CASE Cuts(buf, ckHash')
    <3>1. EmitChunk(buf) /\ Len(buf) >= ckParams.min
      BY <1>4, <2>3 DEF NextByte, Cuts, buf
    <3>2. Len(buf) <= ckParams.max
      BY <1>0, <1>2, <2>1, <2>2, SMT
    <3> QED
      BY <1>3, <2>1, <2>2, <3>1, <3>2
  <2>4. CASE ~Cuts(buf, ckHash')
    <3>1. ckBuf' = buf /\ UNCHANGED ckChunks
      BY <1>4, <2>4 DEF NextByte, buf
    <3>2. Len(buf) < ckParams.max
      BY <1>0, <1>2, <2>1, <2>2, <2>4, SMT DEF Cuts
    <3> QED
      BY <1>0, <1>2, <2>1, <3>1, <3>2 DEF CkSizesOK
  <2> QED
    BY <2>3, <2>4
<1>5. CASE NextEof
  <2>1. Reading /\ UNCHANGED <<ckRequest, ckParams>> /\ ckEof' = TRUE
    BY <1>5 DEF NextEof
  <2>2. CASE EmitChunk(ckBuf)
    BY <1>0, <1>2, <1>3, <2>1, <2>2, SMT
  <2>3. CASE UNCHANGED <<ckBuf, ckChunks>>
    BY <1>0, <1>2, <2>1, <2>3 DEF CkSizesOK
  <2> QED
    BY <1>5, <2>2, <2>3 DEF NextEof
<1>6. CASE NextReadError
  <2>1. Reading /\ UNCHANGED <<ckRequest, ckParams, ckChunks, ckEof>> /\ Len(ckBuf') = 0
    BY <1>6 DEF NextReadError
  <2> QED
    BY <1>0, <1>2, <2>1, SMT DEF CkSizesOK
<1>7. CASE UNCHANGED ckVars
  BY <1>7 DEF ckVars, CkSizesOK
<1> QED
  BY <1>1, <1>4, <1>5, <1>6, <1>7 DEF CkNext

(* The inductive invariant of the chunker: the types, the places and sizes  *)
(* of the chunks returned so far, and that they and what is collected are   *)
(* the bytes that were read.                                                *)
THEOREM ChunkerInvariant == CkSpec => []CkIndInv
<1>1. CkInit => CkIndInv
  <2> SUFFICES ASSUME CkInit PROVE CkIndInv
    OBVIOUS
  <2>1. CkTypeOK
    <3>1. /\ ckRequest = CkNil /\ ckParams = CkNil /\ ckErrors \in Nat /\ ckLost \in Nat /\ ckEof \in BOOLEAN
          /\ ckBuf = <<>> /\ ckChunks = <<>> /\ ckInput = <<>>
      BY DEF CkInit
    <3>2. \A S : <<>> \in Seq(S)
      BY SMT
    <3> QED
      BY <3>1, <3>2 DEF CkTypeOK
  <2>a. CkPlacesOK /\ CkSizesOK
    BY SMT DEF CkInit, CkPlacesOK, CkSizesOK
  <2>2. Datas = <<>> /\ Whole = <<>>
    BY SMT DEF CkInit, Datas, Whole, FlattenSeq
  <2>3. AtTheirPlaces /\ NothingLost
    BY <2>2, SMT DEF CkInit, AtTheirPlaces, NothingLost
  <2> QED
    BY <2>1, <2>a, <2>3, ChunksByWhole DEF CkIndInv
<1>2. CkIndInv /\ [CkNext]_ckVars => CkIndInv'
  BY CkTypeStep, InputStep, SizesStep DEF CkIndInv
<1> QED
  BY <1>1, <1>2, PTL DEF CkSpec

(* Whatever the reader delivers and wherever the rolling hash cuts, the     *)
(* chunks Next returns and the one it collects are the input, each at its   *)
(* Offset, as long as no read failed; and after any number of failed reads  *)
(* each chunk is the piece of the input that lies the dropped bytes after   *)
(* its Offset.                                                              *)
THEOREM ChunksCoverTheInput == CkSpec => []ChunksAreTheInput
<1>1. CkIndInv => ChunksAreTheInput
  BY DEF CkIndInv
<1> QED
  BY <1>1, ChunkerInvariant, PTL

(* No chunk of Next is longer than MaxSize, and none but the last shorter   *)
(* than MinSize, for every request: as asked for if Validate accepts it, as *)
(* normalize makes it otherwise.                                            *)
THEOREM ChunkSizesStayBounded == CkSpec => []ChunkSizesBounded
<1>1. CkIndInv => ChunkSizesBounded
  <2> SUFFICES ASSUME CkIndInv, ckRequest # CkNil PROVE ChunkSizesBounded
    BY DEF ChunkSizesBounded
  <2>1. ckRequest \in CkRequests /\ ckParams = Normalize(ckRequest)
    BY DEF CkIndInv, CkTypeOK
  <2>2. ckParams.min <= ckParams.max
    BY <2>1, NormalizeFacts
  <2>3. ValidChunking(ckRequest) =>
          ckParams.min = ckRequest.min /\ ckParams.max = ckRequest.max
    BY <2>1, NormalizeFacts
  <2> QED
    BY <2>2, <2>3 DEF CkIndInv, CkSizesOK, ChunkSizesBounded
<1> QED
  BY <1>1, ChunkerInvariant, PTL

-----------------------------------------------------------------------------
(* SplitFile.                                                               *)

(* How many chunks SplitFile makes, and where the last one begins and ends. *)
LEMMA CountOfChunks ==
  ASSUME NEW len \in Nat, len # 0, NEW size \in Nat, size # 0
  PROVE  LET m == (len + size - 1) \div size
         IN  /\ m \in Nat /\ m # 0
             /\ m * size >= len
             /\ \A i \in 1..m : (i - 1) * size < len
<1> DEFINE m == (len + size - 1) \div size
           r == (len + size - 1) % size
<1>1. m \in Int /\ r \in 0..(size - 1) /\ len + size - 1 = size * m + r
  BY SMT
<1> HIDE DEF m, r
<1>2. size * m >= len
  BY <1>1, SMT
<1>3. m > 0
  BY <1>1, <1>2, SMT
<1>4. \A i \in 1..m : size * i <= size * m /\ (i - 1) * size = size * i - size
  BY <1>1, SMT
<1>5. \A i \in 1..m : (i - 1) * size < len
  BY <1>1, <1>4, SMT
<1> QED
  BY <1>1, <1>2, <1>3, <1>5, SMT DEF m

(* SplitFile cuts a file into pieces no longer than the size, and putting   *)
(* them together gives the file.                                            *)
LEMMA SplitIsInverse ==
  ASSUME NEW S, NEW d \in Seq(S), NEW size \in Nat
  PROVE  LET chunks == SplitFile(d, size)
         IN  /\ chunks \in Seq(Seq(S))
             /\ FlattenSeq(chunks) = d
             /\ size > 0 => \A i \in DOMAIN chunks : Len(chunks[i]) \in 1..size
<1> DEFINE chunks == SplitFile(d, size)
           len == Len(d)
<1>1. CASE d = <<>>
  BY <1>1, SMT DEF SplitFile, FlattenSeq
<1>2. CASE d # <<>> /\ size = 0
  <2>1. chunks = <<d>> /\ Len(chunks) = 1 /\ chunks[1] = d
    BY <1>2, SMT DEF SplitFile
  <2>2. FlattenSeq(chunks) = Flatten(chunks, 1)[1]
    BY <2>1, SMT DEF FlattenSeq, Flatten
  <2>3. Flatten(chunks, 1)[1] = d
    <3>1. 1 \in Nat /\ 1 \in 1..1
      BY SMT
    <3>2. Flatten(chunks, 1)[1] = chunks[1]
      BY <3>1, FlattenEquation
    <3> QED
      BY <2>1, <3>2
  <2>4. chunks \in Seq(Seq(S))
    <3> DEFINE B == Seq(S)
    <3>1. d \in B
      OBVIOUS
    <3> HIDE DEF B
    <3>2. <<d>> \in Seq(B)
      BY <3>1, SMT
    <3> QED
      BY <2>1, <3>2 DEF B
  <2>5. FlattenSeq(chunks) = d
    BY <2>2, <2>3
  <2> HIDE DEF chunks
  <2> QED
    BY <1>2, <2>4, <2>5, SMT DEF chunks
<1>3. CASE d # <<>> /\ size # 0
  <2> DEFINE m == (len + size - 1) \div size
             End(i) == IF i * size > len THEN len ELSE i * size
             Piece(i) == SubSeq(d, (i - 1) * size + 1, End(i))
             f == Flatten(chunks, m)
  <2>1. len \in Nat /\ len # 0
    BY <1>3, SMT
  <2>2. /\ m \in Nat /\ m # 0 /\ m * size >= len
        /\ \A i \in 1..m : (i - 1) * size < len
    BY <1>3, <2>1, CountOfChunks
  <2>3. chunks = [i \in 1..m |-> Piece(i)]
    BY <1>3, SMT DEF SplitFile
  <2> HIDE DEF m, chunks
  <2>4. ASSUME NEW i \in 1..m
        PROVE  /\ (i - 1) * size \in 0..len /\ End(i) \in ((i - 1) * size)..len
               /\ End(i) - (i - 1) * size \in 1..size
               /\ i # 1 => End(i - 1) = (i - 1) * size
    <3>1. i \in Nat /\ i - 1 \in Nat /\ i * size = (i - 1) * size + size
      BY <2>2, SMT
    <3>2. (i - 1) * size \in Nat /\ (i - 1) * size < len
      BY <2>2, <3>1, SMT
    <3> QED
      BY <1>3, <2>1, <3>1, <3>2, SMT
  <2> HIDE DEF len
  <2>5. ASSUME NEW i \in 1..m
        PROVE  /\ Piece(i) \in Seq(S) /\ Len(Piece(i)) \in 1..size
               /\ SubSeq(d, 1, (i - 1) * size) \o Piece(i) = SubSeq(d, 1, End(i))
    <3> DEFINE a == (i - 1) * size
               b == End(i)
    <3>1. a \in 0..Len(d) /\ b \in a..Len(d) /\ b - a \in 1..size
      BY <2>4 DEF len
    <3> HIDE DEF a, b
    <3>2. /\ SubSeq(d, 1, a) \o SubSeq(d, a + 1, b) = SubSeq(d, 1, b)
          /\ SubSeq(d, a + 1, b) \in Seq(S) /\ Len(SubSeq(d, a + 1, b)) = b - a
      BY <3>1, PiecesJoin
    <3> QED
      BY <3>1, <3>2 DEF a, b
  <2> HIDE DEF End, Piece
  <2>6. /\ chunks \in Seq(Seq(S)) /\ Len(chunks) = m /\ DOMAIN chunks = 1..m
        /\ \A i \in 1..m : chunks[i] = Piece(i)
    <3>1. chunks \in [1..m -> Seq(S)] /\ \A i \in 1..m : chunks[i] = Piece(i)
      BY <2>3, <2>5
    <3> QED
      BY <2>2, <3>1, IsSequence
  <2>7. FlattenSeq(chunks) = f[m]
    BY <2>2, <2>6 DEF FlattenSeq, Flatten
  <2>8. /\ 1 \in 1..m => f[1] = chunks[1]
        /\ \A k \in 1..m : k # 1 => f[k] = f[k - 1] \o chunks[k]
    BY <2>2, FlattenEquation DEF f
  <2> HIDE DEF f
  <2> DEFINE T == {k \in 0..m : k # 0 => f[k] = SubSeq(d, 1, End(k))}
  <2>9. 0..m \subseteq T
    <3>1. 0 \in T
      BY <2>2, SMT
    <3>2. ASSUME NEW k \in 0..(m - 1), k \in T PROVE k + 1 \in T
      <4>1. k + 1 \in 1..m /\ (k + 1) - 1 = k /\ k + 1 \in 0..m /\ k \in Nat
        BY <2>2, SMT
      <4>2. /\ chunks[k + 1] = Piece(k + 1)
            /\ SubSeq(d, 1, k * size) \o Piece(k + 1) = SubSeq(d, 1, End(k + 1))
        BY <2>5, <2>6, <4>1
      <4>3. CASE k = 0
        <5>1. k * size = 0 /\ k + 1 = 1
          BY <4>3, SMT
        <5>2. SubSeq(d, 1, 0) = <<>> /\ Piece(k + 1) \in Seq(S)
          BY <2>5, <4>1, SMT
        <5>3. <<>> \o Piece(k + 1) = Piece(k + 1)
          BY <5>2, SMT
        <5>4. f[k + 1] = chunks[k + 1]
          BY <2>8, <4>1, <5>1
        <5>5. f[k + 1] = SubSeq(d, 1, End(k + 1))
          BY <4>2, <5>1, <5>2, <5>3, <5>4
        <5> QED
          BY <4>1, <5>5
      <4>4. CASE k # 0
        <5>1. k + 1 # 1
          BY <4>1, <4>4, SMT
        <5>2. f[k + 1] = f[k] \o chunks[k + 1]
          BY <2>8, <4>1, <5>1
        <5>3. End(k) = k * size
          BY <2>4, <4>1, <5>1
        <5>4. f[k] = SubSeq(d, 1, k * size)
          BY <3>2, <4>4, <5>3
        <5>5. f[k + 1] = SubSeq(d, 1, End(k + 1))
          BY <4>2, <5>2, <5>4
        <5> QED
          BY <4>1, <5>5
      <4> QED
        BY <4>3, <4>4
    <3> HIDE DEF T
    <3> QED
      BY <2>2, <3>1, <3>2, IntervalInduction
  <2>10. f[m] = SubSeq(d, 1, End(m))
    BY <2>2, <2>9, SMT
  <2>11. End(m) = Len(d) /\ SubSeq(d, 1, Len(d)) = d
    BY <2>1, <2>2, SMT DEF End, len
  <2>12. \A i \in DOMAIN chunks : Len(chunks[i]) \in 1..size
    BY <2>5, <2>6
  <2> QED
    BY <2>6, <2>7, <2>10, <2>11, <2>12 DEF chunks
<1> QED
  BY <1>1, <1>2, <1>3

(* For every input and every chunk size, ReassembleChunks undoes SplitFile, *)
(* and VerifyChunkIntegrity of every chunk tells whether two chunks that    *)
(* differ have changed places, which VerifyChunks then need not find out.   *)
THEOREM SplitAndReassemble == CkSpec => []SplitRoundTrips
<1>1. ASSUME CkIndInv PROVE SplitRoundTrips
  <2> SUFFICES ASSUME NEW size \in 0..(CkMaxInput + 1)
               PROVE  LET chunks == SplitFile(ckInput, size)
                          meta == CreateMetadata(ckInput, chunks)
                          Swap(i, j) == [chunks EXCEPT ![i] = chunks[j], ![j] = chunks[i]]
                      IN  /\ ReassembleChunks(chunks) = ckInput
                          /\ size > 0 => \A i \in DOMAIN chunks : Len(chunks[i]) \in 1..size
                          /\ \A i, j \in DOMAIN chunks :
                               LET whole == VerifyChunks(Swap(i, j), meta[1].fileHash)
                                   each == \A k \in DOMAIN chunks :
                                             VerifyChunkIntegrity(Swap(i, j)[k], meta[k])
                               IN  (each => whole) /\ (each <=> chunks[i] = chunks[j])
    BY DEF SplitRoundTrips
  <2> DEFINE chunks == SplitFile(ckInput, size)
             meta == CreateMetadata(ckInput, chunks)
             Swap(i, j) == [chunks EXCEPT ![i] = chunks[j], ![j] = chunks[i]]
  <2>1. size \in Nat /\ ckInput \in Seq(CkBytes)
    BY <1>1, CkAssumption, SMT DEF CkIndInv, CkTypeOK
  <2>2. /\ chunks \in Seq(Seq(CkBytes)) /\ ReassembleChunks(chunks) = ckInput
        /\ size > 0 => \A i \in DOMAIN chunks : Len(chunks[i]) \in 1..size
    BY <2>1, SplitIsInverse DEF ReassembleChunks
  <2> HIDE DEF chunks
  <2>3. ASSUME NEW i \in DOMAIN chunks, NEW j \in DOMAIN chunks
        PROVE  LET whole == VerifyChunks(Swap(i, j), meta[1].fileHash)
                   each == \A k \in DOMAIN chunks : VerifyChunkIntegrity(Swap(i, j)[k], meta[k])
               IN  (each => whole) /\ (each <=> chunks[i] = chunks[j])
    <3>1. 1 \in DOMAIN chunks
      BY <2>2, SMT
    <3>2. \A k \in DOMAIN chunks :
            meta[k] = [fileHash |-> ckInput, size |-> Len(chunks[k]), hash |-> chunks[k]]
      BY DEF CreateMetadata
    <3> HIDE DEF meta
    <3>3. ASSUME NEW k \in DOMAIN chunks
          PROVE  /\ meta[k].fileHash = ckInput
                 /\ meta[k].hash = chunks[k] /\ meta[k].size = Len(chunks[k])
      <4> DEFINE c == chunks[k]
                 l == Len(chunks[k])
      <4>1. meta[k] = [fileHash |-> ckInput, size |-> l, hash |-> c]
        BY <3>2
      <4> HIDE DEF c, l
      <4>2. meta[k].fileHash = ckInput /\ meta[k].size = l /\ meta[k].hash = c
        BY <4>1, SMT
      <4> QED
        BY <4>2 DEF c, l
    <3>4. meta[1].fileHash = ckInput
      BY <3>1, <3>3
    <3> DEFINE B == Seq(CkBytes)
               D == DOMAIN chunks
    <3>a. chunks \in [D -> B] /\ i \in D /\ j \in D
      BY <2>2, SMT
    <3>b. ASSUME NEW DD, NEW BB, chunks \in [DD -> BB], i \in DD, j \in DD
          PROVE  Swap(i, j)[i] = chunks[j] /\ (chunks[i] = chunks[j] => Swap(i, j) = chunks)
      BY <3>b
    <3> HIDE DEF B, D, Swap
    <3>5. Swap(i, j)[i] = chunks[j] /\ (chunks[i] = chunks[j] => Swap(i, j) = chunks)
      BY <3>a, <3>b
    <3>7. (\A k \in DOMAIN chunks : VerifyChunkIntegrity(Swap(i, j)[k], meta[k]))
             => chunks[i] = chunks[j]
      BY <3>3, <3>5 DEF VerifyChunkIntegrity
    <3>8. ASSUME chunks[i] = chunks[j]
          PROVE  /\ VerifyChunks(Swap(i, j), meta[1].fileHash)
                 /\ \A k \in DOMAIN chunks : VerifyChunkIntegrity(Swap(i, j)[k], meta[k])
      <4>1. Swap(i, j) = chunks
        BY <3>5, <3>8
      <4> QED
        BY <2>2, <3>3, <3>4, <4>1 DEF VerifyChunkIntegrity, VerifyChunks
    <3> QED
      BY <3>7, <3>8 DEF Swap
  <2> QED
    BY <2>2, <2>3 DEF chunks
<1> QED
  BY <1>1, ChunkerInvariant, PTL

-----------------------------------------------------------------------------
(* The chain of patches.                                                    *)

(* The largest of some numbers from 1 to n is one of them.                  *)
LEMMA MaxOfSome ==
  ASSUME NEW n \in Nat, NEW t \in SUBSET (1..n), t # {}
  PROVE  Max(t) \in t /\ \A y \in t : Max(t) >= y
<1> DEFINE below == {n - y : y \in t}
<1>1. below \subseteq Nat /\ below # {}
  <2>1. \A y \in t : n - y \in Nat
    BY SMT
  <2>2. PICK y \in t : TRUE
    OBVIOUS
  <2>3. n - y \in below
    BY <2>2
  <2> QED
    BY <2>1, <2>3
<1>2. PICK d \in below : \A e \in below : d <= e
  BY <1>1, LeastNatural
<1>3. PICK x \in t : d = n - x
  OBVIOUS
<1>4. \A y \in t : n - x <= n - y
  BY <1>2, <1>3
<1>5. \A y \in t : x >= y
  BY <1>4, SMT
<1> QED
  BY <1>5 DEF Max

(* One step of the loop that applies the first patches of a chain.          *)
PatchStep(s, n, g) ==
  [t \in SUBSET (1..n) |-> IF t = {} THEN Empty ELSE ApplyPatch(g[t \ {Max(t)}], s[Max(t)])]

(* What the patches with some indices give, for each set of them.           *)
Patched(s, n) == CHOOSE g : g = PatchStep(s, n, g)

(* The function that FoldLeft is defined by, here, exists.                  *)
LEMMA PatchedIsDefined ==
  ASSUME NEW s, NEW n \in Nat
  PROVE  Patched(s, n) = PatchStep(s, n, Patched(s, n))
<1> DEFINE T == {k \in Nat : \E g : g = PatchStep(s, k, g)}
<1>1. 0 \in T
  <2> DEFINE g == [t \in SUBSET (1..0) |-> Empty]
  <2>1. \A t \in SUBSET (1..0) : t = {}
    BY SMT
  <2>2. g = PatchStep(s, 0, g)
    BY <2>1 DEF PatchStep
  <2> QED
    BY <2>2
<1>2. ASSUME NEW k \in Nat, k \in T PROVE k + 1 \in T
  <2>1. PICK g : g = PatchStep(s, k, g)
    BY <1>2
  <2> DEFINE h == PatchStep(s, k + 1, g)
  <2>2. ASSUME NEW t \in SUBSET (1..k) PROVE h[t] = g[t]
    <3>1. t \in SUBSET (1..(k + 1))
      BY SMT
    <3>2. g[t] = PatchStep(s, k, g)[t]
      BY <2>1
    <3> DEFINE v == IF t = {} THEN Empty ELSE ApplyPatch(g[t \ {Max(t)}], s[Max(t)])
    <3>3. PatchStep(s, k, g)[t] = v
      BY DEF PatchStep
    <3>4. PatchStep(s, k + 1, g)[t] = v
      BY <3>1 DEF PatchStep
    <3> HIDE DEF v
    <3> QED
      BY <3>2, <3>3, <3>4
  <2>3. ASSUME NEW t \in SUBSET (1..(k + 1)), t # {} PROVE t \ {Max(t)} \in SUBSET (1..k)
    <3>1. Max(t) \in t /\ \A y \in t : Max(t) >= y
      <4>1. k + 1 \in Nat
        BY SMT
      <4> QED
        BY <2>3, <4>1, MaxOfSome
    <3> DEFINE x == Max(t)
    <3> HIDE DEF x
    <3>2. x \in t /\ \A y \in t : x >= y
      BY <3>1 DEF x
    <3>3. \A y \in t : y # x => y \in 1..k
      BY <3>2, SMT
    <3> QED
      BY <3>3 DEF x
  <2>4. h = PatchStep(s, k + 1, h)
    <3>1. \A t \in SUBSET (1..(k + 1)) : t # {} => h[t \ {Max(t)}] = g[t \ {Max(t)}]
      BY <2>2, <2>3
    <3> HIDE DEF h
    <3>2. h = PatchStep(s, k + 1, g)
      BY DEF h
    <3> QED
      BY <3>1, <3>2 DEF PatchStep
  <2> HIDE DEF h
  <2> QED
    BY <2>4, SMT
<1>3. Nat \subseteq T
  <2> HIDE DEF T
  <2> QED
    BY <1>1, <1>2, NatSetInduction
<1>4. \E g : g = PatchStep(s, n, g)
  BY <1>3
<1> QED
  BY <1>4 DEF Patched

(* Each turn of the loop applies one patch.                                 *)
LEMMA PatchedEquation ==
  ASSUME NEW s, NEW n \in Nat, NEW k \in 0..n
  PROVE  /\ k = 0 => Patched(s, n)[1..k] = Empty
         /\ k # 0 => Patched(s, n)[1..k] = ApplyPatch(Patched(s, n)[1..(k - 1)], s[k])
<1> DEFINE f == Patched(s, n)
           t == 1..k
<1>1. f[t] = PatchStep(s, n, f)[t]
  BY PatchedIsDefined
<1>2. t \in SUBSET (1..n) /\ (k = 0 <=> t = {})
  BY SMT
<1>3. k # 0 => Max(t) = k
  <2>1. k # 0 => Max(t) \in t /\ \A y \in t : Max(t) >= y
    BY <1>2, MaxOfSome
  <2> QED
    BY <2>1, SMT
<1>4. k # 0 => t \ {k} = 1..(k - 1)
  BY SMT
<1> HIDE DEF f, t
<1>5. f[t] = IF t = {} THEN Empty ELSE ApplyPatch(f[t \ {Max(t)}], s[Max(t)])
  BY <1>1, <1>2 DEF PatchStep
<1> QED
  BY <1>2, <1>3, <1>4, <1>5 DEF f, t

(* The loop over a chain with one more patch applies that one last.         *)
LEMMA OneMorePatch ==
  ASSUME NEW S, NEW s \in Seq(S), NEW e \in S
  PROVE  FoldLeft(ApplyPatch, Empty, Append(s, e))
           = ApplyPatch(FoldLeft(ApplyPatch, Empty, s), e)
<1> DEFINE n == Len(s)
           u == Append(s, e)
           f == Patched(s, n)
           h == Patched(u, n + 1)
<1>1. n \in Nat /\ DOMAIN s = 1..n /\ DOMAIN u = 1..(n + 1)
      /\ u[n + 1] = e /\ \A i \in 1..n : u[i] = s[i]
  BY SMT
<1>2. FoldLeft(ApplyPatch, Empty, s) = f[1..n]
  BY <1>1 DEF FoldLeft, MapThenFoldSet, Patched, PatchStep
<1>3. FoldLeft(ApplyPatch, Empty, u) = h[1..(n + 1)]
  BY <1>1 DEF FoldLeft, MapThenFoldSet, Patched, PatchStep
<1> HIDE DEF n, u, f, h
<1>4. /\ f[1..0] = Empty /\ h[1..0] = Empty
      /\ \A k \in 1..n : f[1..k] = ApplyPatch(f[1..(k - 1)], s[k])
      /\ \A k \in 1..(n + 1) : h[1..k] = ApplyPatch(h[1..(k - 1)], u[k])
  <2>1. n + 1 \in Nat
    BY <1>1, SMT
  <2>a. ASSUME NEW v, NEW m \in Nat PROVE Patched(v, m)[1..0] = Empty
    <3>1. 0 \in 0..m
      BY SMT
    <3> QED
      BY <3>1, PatchedEquation
  <2>2. f[1..0] = Empty /\ h[1..0] = Empty
    BY <1>1, <2>1, <2>a DEF f, h
  <2>3. ASSUME NEW k \in 1..n PROVE f[1..k] = ApplyPatch(f[1..(k - 1)], s[k])
    <3>1. k \in 0..n /\ k # 0
      BY <1>1, SMT
    <3> QED
      BY <1>1, <3>1, PatchedEquation DEF f
  <2>4. ASSUME NEW k \in 1..(n + 1) PROVE h[1..k] = ApplyPatch(h[1..(k - 1)], u[k])
    <3>1. k \in 0..(n + 1) /\ k # 0
      BY <1>1, SMT
    <3> QED
      BY <2>1, <3>1, PatchedEquation DEF h
  <2> QED
    BY <2>2, <2>3, <2>4
<1> DEFINE T == {k \in 0..n : h[1..k] = f[1..k]}
<1>5. 0..n \subseteq T
  <2>1. 0 \in T
    BY <1>1, <1>4, SMT
  <2>2. ASSUME NEW k \in 0..(n - 1), k \in T PROVE k + 1 \in T
    <3>1. k + 1 \in 1..n /\ k + 1 \in 1..(n + 1) /\ (k + 1) - 1 = k /\ k + 1 \in 0..n
      BY <1>1, SMT
    <3>2. h[1..(k + 1)] = f[1..(k + 1)]
      BY <1>1, <1>4, <2>2, <3>1
    <3> QED
      BY <3>1, <3>2
  <2> HIDE DEF T
  <2> QED
    BY <1>1, <2>1, <2>2, IntervalInduction
<1>6. h[1..n] = f[1..n] /\ n + 1 \in 1..(n + 1) /\ (n + 1) - 1 = n
  BY <1>1, <1>5, SMT
<1>7. h[1..(n + 1)] = ApplyPatch(f[1..n], e)
  BY <1>1, <1>4, <1>6
<1> QED
  BY <1>2, <1>3, <1>7 DEF u

(* A patch of ComputeDiff takes the old version to the new one, also when   *)
(* one of them is empty.                                                    *)
LEMMA PatchTakesOver ==
  ASSUME NEW old \in DcVersions, NEW new \in DcVersions
  PROVE  ApplyPatch(old, ComputeDiff(old, new)) = new
<1>1. [from |-> old, to |-> new] # Empty
  BY DcAssumption DEF DcVersions
<1> QED
  BY <1>1 DEF ApplyPatch, ComputeDiff, BsdiffBytes, BspatchBytes

(* A chain of patches of any length, through versions that may be empty,    *)
(* gives the last version when its patches are applied in order.            *)
THEOREM ChainsReconstruct == DcSpec => []ChainReconstructs
<1> DEFINE P == DcVersions \cup [from : DcVersions, to : DcVersions]
<1>1. DcInit => DcIndInv
  <2> SUFFICES ASSUME DcInit PROVE DcIndInv
    OBVIOUS
  <2>1. dcVersion \in DcVersions /\ dcVersion = Empty /\ dcPatches = <<>> /\ dcPatches \in Seq(P)
    BY SMT DEF DcInit, DcVersions
  <2>2. FoldLeft(ApplyPatch, Empty, <<>>) = Patched(<<>>, 0)[1..0]
    <3>1. DOMAIN <<>> = 1..0
      BY SMT
    <3> QED
      BY <3>1 DEF FoldLeft, MapThenFoldSet, Patched, PatchStep
  <2>3. Patched(<<>>, 0)[1..0] = Empty
    BY PatchedEquation, SMT
  <2> QED
    BY <2>1, <2>2, <2>3 DEF DcIndInv, ChainReconstructs
<1>2. ASSUME DcIndInv, [DcNext]_dcVars PROVE DcIndInv'
  <2>1. ASSUME NEW data \in DcVersions, NewVersion(data) PROVE DcIndInv'
    <3> DEFINE patch == ComputeDiff(dcVersion, data)
    <3>1. patch \in P
      BY <1>2 DEF DcIndInv, ComputeDiff, BsdiffBytes
    <3>2. ApplyPatch(dcVersion, patch) = data
      BY <1>2, <2>1, PatchTakesOver DEF DcIndInv
    <3>3. /\ dcPatches' = Append(dcPatches, patch) /\ dcVersion' = data
          /\ dcPatches \in Seq(P) /\ FoldLeft(ApplyPatch, Empty, dcPatches) = dcVersion
      BY <1>2, <2>1 DEF DcIndInv, NewVersion, ChainReconstructs
    <3> HIDE DEF patch, P
    <3>4. FoldLeft(ApplyPatch, Empty, dcPatches') = dcVersion'
      BY <3>1, <3>2, <3>3, OneMorePatch
    <3>5. dcPatches' \in Seq(P)
      BY <3>1, <3>3, SMT
    <3> QED
      BY <2>1, <3>3, <3>4, <3>5 DEF DcIndInv, ChainReconstructs, P
  <2>2. CASE UNCHANGED dcVars
    BY <1>2, <2>2 DEF DcIndInv, ChainReconstructs, dcVars
  <2> QED
    BY <1>2, <2>1, <2>2 DEF DcNext, DcVersions
<1>3. DcIndInv => ChainReconstructs
  BY DEF DcIndInv
<1> QED
  BY <1>1, <1>2, <1>3, PTL DEF DcSpec

=============================================================================
