---------------------------- MODULE ExportProofs ----------------------------
(* Proofs about export, for every set of paths, contents and moments.       *)
EXTENDS Export, Induction

(* A leaf is for Zenon to prove unless it cites SMT, for arithmetic,        *)
(* sequences and records, or PTL, for temporal logic.                       *)
USE Zenon

(* The newest record of each path of a set: what loadMetadataAt is after.   *)
NewestIn(S) == {r \in S : \A q \in S : q.path = r.path => q.ts <= r.ts}

(* Records as the store holds them: one per path and moment.                *)
OnePerMoment(S) ==
  /\ \A r \in S : r.ts \in Int
  /\ \A r, q \in S : r.path = q.path /\ r.ts = q.ts => r = q

(* A path with records has a newest one.                                    *)
LEMMA NewestExists ==
  ASSUME NEW S, IsFiniteSet(S), OnePerMoment(S), NEW x \in S
  PROVE  \E r \in NewestIn(S) : r.path = x.path /\ x.ts <= r.ts
<1> DEFINE F == {T \in SUBSET S : \A q \in T : \E r \in NewestIn(T) :
                                     r.path = q.path /\ q.ts <= r.ts}
<1>1. {} \in F
  OBVIOUS
<1>2. ASSUME NEW T \in SUBSET S, NEW y \in T, T \ {y} \in F
      PROVE  T \in F
  <2> SUFFICES ASSUME NEW q \in T
               PROVE  \E r \in NewestIn(T) : r.path = q.path /\ q.ts <= r.ts
    OBVIOUS
  <2>1. CASE \E r \in T : r.path = q.path /\ r.path = y.path /\ r # y /\ y.ts <= r.ts
    <3>1. PICK p \in T : p.path = q.path /\ p.path = y.path /\ p # y /\ y.ts <= p.ts
      BY <2>1
    <3>2. PICK r \in NewestIn(T \ {y}) : r.path = p.path /\ p.ts <= r.ts
      BY <1>2, <3>1
    <3>3. \A u \in T \ {y} : u.path = r.path => u.ts <= r.ts
      BY <3>2 DEF NewestIn
    <3>4. r \in T /\ y.ts <= r.ts
      BY <3>1, <3>2, SMT DEF NewestIn, OnePerMoment
    <3>5. q.ts <= r.ts
      BY <3>1, <3>2, <3>3, <3>4
    <3> QED
      BY <3>1, <3>2, <3>3, <3>4, <3>5 DEF NewestIn
  <2>2. CASE q.path = y.path /\ \A r \in T : r.path = y.path /\ r # y => r.ts < y.ts
    BY <2>2, SMT DEF NewestIn, OnePerMoment
  <2>3. CASE q.path # y.path
    <3>1. PICK r \in NewestIn(T \ {y}) : r.path = q.path /\ q.ts <= r.ts
      BY <1>2, <2>3
    <3> QED
      BY <2>3, <3>1 DEF NewestIn
  <2> QED
    BY <2>1, <2>2, <2>3, SMT DEF OnePerMoment
<1>3. SUBSET S \subseteq F
  <2> HIDE DEF F
  <2>1. \A T \in SUBSET S : T # {} => \E y \in T : T \ {y} \in F => T \in F
    BY <1>2
  <2> QED
    BY <1>1, <2>1, FiniteSetInduction
<1> QED
  BY <1>3

(* One turn of the loop of loadMetadataAt keeps the newest of what it has   *)
(* seen.                                                                    *)
LEMMA KeepNewestKeeps ==
  ASSUME NEW S, IsFiniteSet(S), OnePerMoment(S), NEW x \in S
  PROVE  KeepNewest(x, NewestIn(S \ {x})) = NewestIn(S)
<1>1. IsFiniteSet(S \ {x}) /\ OnePerMoment(S \ {x})
  BY FS_Subset DEF OnePerMoment
<1>2. CASE \E prev \in NewestIn(S \ {x}) : prev.path = x.path /\ prev.ts >= x.ts
  <2>1. PICK p \in NewestIn(S \ {x}) : p.path = x.path /\ p.ts >= x.ts
    BY <1>2
  <2>2. p \in S /\ p # x /\ x.ts < p.ts
    BY <2>1, SMT DEF NewestIn, OnePerMoment
  <2>3. NewestIn(S \ {x}) = NewestIn(S)
    <3>1. ASSUME NEW r \in NewestIn(S \ {x}) PROVE r \in NewestIn(S)
      <4>1. r.path = x.path => p.ts <= r.ts
        BY <2>1, <2>2, <3>1 DEF NewestIn
      <4>2. r.path = x.path => x.ts <= r.ts
        BY <4>1, <2>2, <3>1, SMT DEF NewestIn, OnePerMoment
      <4> QED
        BY <4>2, <3>1 DEF NewestIn
    <3>2. ASSUME NEW r \in NewestIn(S) PROVE r \in NewestIn(S \ {x})
      <4>1. r # x
        BY <2>1, <2>2, SMT DEF NewestIn, OnePerMoment
      <4> QED
        BY <4>1 DEF NewestIn
    <3> QED
      BY <3>1, <3>2
  <2> QED
    BY <1>2, <2>3 DEF KeepNewest
<1>3. CASE ~\E prev \in NewestIn(S \ {x}) : prev.path = x.path /\ prev.ts >= x.ts
  <2>1. \A q \in S : q.path = x.path /\ q # x => q.ts < x.ts
    <3> SUFFICES ASSUME NEW q \in S \ {x}, q.path = x.path PROVE q.ts < x.ts
      OBVIOUS
    <3>1. PICK r \in NewestIn(S \ {x}) : r.path = q.path /\ q.ts <= r.ts
      BY <1>1, NewestExists
    <3>2. r \in S /\ ~(r.ts >= x.ts)
      BY <1>3, <3>1 DEF NewestIn
    <3> QED
      BY <3>1, <3>2, SMT DEF OnePerMoment
  <2>2. NewestIn(S) = {r \in NewestIn(S \ {x}) : r.path # x.path} \cup {x}
    BY <2>1, SMT DEF NewestIn, OnePerMoment
  <2> QED
    BY <1>3, <2>2 DEF KeepNewest
<1> QED
  BY <1>2, <1>3

(* The whole loop of loadMetadataAt, in whatever order the iterator yields  *)
(* the records, leaves the newest record of each path.                      *)
LEMMA FoldIsNewest ==
  ASSUME NEW S, IsFiniteSet(S), OnePerMoment(S)
  PROVE  FoldSet(KeepNewest, {}, S) = NewestIn(S)
<1> DEFINE Iter(g) == [s \in SUBSET S |->
                        IF s = {} THEN {}
                        ELSE KeepNewest(CHOOSE x \in s : TRUE, g[s \ {CHOOSE x \in s : TRUE}])]
           g0 == [s \in SUBSET S |-> NewestIn(s)]
<1>1. \A s \in SUBSET S : IsFiniteSet(s) /\ OnePerMoment(s)
  BY FS_Subset DEF OnePerMoment
<1>2. g0 = Iter(g0)
  <2>1. ASSUME NEW s \in SUBSET S, s # {}
        PROVE  NewestIn(s) = KeepNewest(CHOOSE x \in s : TRUE, NewestIn(s \ {CHOOSE x \in s : TRUE}))
    BY <1>1, <2>1, KeepNewestKeeps
  <2>2. NewestIn({}) = {}
    BY DEF NewestIn
  <2> QED
    BY <2>1, <2>2
<1> DEFINE it == CHOOSE g : g = Iter(g)
<1>3. it = Iter(it)
  BY <1>2
<1>4. FoldSet(KeepNewest, {}, S) = it[S]
  BY DEF FoldSet, MapThenFoldSet
<1> HIDE DEF it
<1>5. SUBSET S \subseteq {s \in SUBSET S : it[s] = NewestIn(s)}
  <2> DEFINE F == {s \in SUBSET S : it[s] = NewestIn(s)}
  <2>1. {} \in F
    BY <1>3 DEF NewestIn
  <2>2. ASSUME NEW s \in SUBSET S, s # {}
        PROVE  \E x \in s : s \ {x} \in F => s \in F
    <3> DEFINE c == CHOOSE x \in s : TRUE
    <3>1. c \in s
      BY <2>2
    <3>2. it[s] = KeepNewest(c, it[s \ {c}])
      BY <1>3, <2>2
    <3>3. KeepNewest(c, NewestIn(s \ {c})) = NewestIn(s)
      BY <1>1, <3>1, KeepNewestKeeps
    <3> QED
      BY <3>1, <3>2, <3>3
  <2> HIDE DEF F
  <2>3. SUBSET S \subseteq F
    BY <2>1, <2>2, FiniteSetInduction
  <2> QED
    BY <2>3 DEF F
<1> QED
  BY <1>4, <1>5

(* What export restores for a moment is what each path held then.           *)
LEMMA LoadIsHeld ==
  ASSUME NEW t, ExStoreOK
  PROVE  LoadMetadataAt(t) = HeldAt(t)
<1> DEFINE S == {r \in exRecords : r.ts <= t}
<1>1. IsFiniteSet(S)
  BY FS_Subset DEF ExStoreOK
<1>2. OnePerMoment(S)
  BY DEF ExStoreOK, OnePerMoment
<1>3. FoldSet(KeepNewest, {}, S) = NewestIn(S)
  BY <1>1, <1>2, FoldIsNewest
<1>4. NewestIn(S) = HeldAt(t)
  BY DEF NewestIn, HeldAt
<1> QED
  BY <1>3, <1>4 DEF LoadMetadataAt

-----------------------------------------------------------------------------
(* Where a recorded path goes.                                              *)

(* A drop of a sequence, by length and elements.                            *)
LEMMA DropFacts ==
  ASSUME NEW s \in Seq(Chars), NEW n \in 0..Len(s)
  PROVE  /\ Drop(s, n) \in Seq(Chars)
         /\ Len(Drop(s, n)) = Len(s) - n
         /\ \A i \in 1..(Len(s) - n) : Drop(s, n)[i] = s[i + n]
BY SMT DEF Drop

(* Dropping twice is dropping the sum.                                      *)
LEMMA DropDrop ==
  ASSUME NEW s \in Seq(Chars), NEW n \in 0..Len(s), NEW m \in 0..(Len(s) - n)
  PROVE  Drop(Drop(s, n), m) = Drop(s, n + m)
BY SMT DEF Drop

(* A single character is a non-empty string.                                *)
LEMMA OneName ==
  ASSUME NEW x \in Chars
  PROVE  <<x>> \in Seq(Chars) /\ Len(<<x>>) = 1 /\ <<x>> # <<>>
BY SMT

(* A path followed by the separator keeps its characters.                   *)
LEMMA AddSeparator ==
  ASSUME NEW s \in Seq(Chars)
  PROVE  /\ s \o <<"/">> \in Seq(Chars)
         /\ Len(s \o <<"/">>) = Len(s) + 1
         /\ \A i \in 1..Len(s) : (s \o <<"/">>)[i] = s[i]
<1> DEFINE slash == "/"
<1>1. slash \in Chars
  BY DEF Chars
<1> HIDE DEF slash
<1>2. <<slash>> \in Seq(Chars) /\ Len(<<slash>>) = 1
  BY <1>1, OneName
<1>3. /\ s \o <<slash>> \in Seq(Chars)
      /\ Len(s \o <<slash>>) = Len(s) + 1
      /\ \A i \in 1..Len(s) : (s \o <<slash>>)[i] = s[i]
  BY <1>2, SMT
<1> QED
  BY <1>3 DEF slash

(* The prefixes cleanPath looks for, by elements.                           *)
LEMMA PrefixFacts ==
  ASSUME NEW s \in Seq(Chars)
  PROVE  /\ IsPrefix(<<"/">>, s) <=> Len(s) >= 1 /\ s[1] = "/"
         /\ IsPrefix(<<".", ".">>, s) <=> Len(s) >= 2 /\ s[1] = "." /\ s[2] = "."
         /\ IsPrefix(<<".", "/">>, s) <=> Len(s) >= 2 /\ s[1] = "." /\ s[2] = "/"
         /\ IsPrefix(<<".", ".", "/">>, s)
              <=> Len(s) >= 3 /\ s[1] = "." /\ s[2] = "." /\ s[3] = "/"
<1>1. IsPrefix(<<"/">>, s) <=> Len(s) >= 1 /\ s[1] = "/"
  BY SMT DEF IsPrefix
<1>2. IsPrefix(<<".", ".">>, s) <=> Len(s) >= 2 /\ s[1] = "." /\ s[2] = "."
  BY SMT DEF IsPrefix
<1>3. IsPrefix(<<".", "/">>, s) <=> Len(s) >= 2 /\ s[1] = "." /\ s[2] = "/"
  BY SMT DEF IsPrefix
<1>4. IsPrefix(<<".", ".", "/">>, s) 
        <=> Len(s) >= 3 /\ s[1] = "." /\ s[2] = "." /\ s[3] = "/"
  BY SMT DEF IsPrefix
<1> QED
  BY <1>1, <1>2, <1>3, <1>4

(* The suffixes of a path are its drops.                                    *)
LEMMA SuffixesAreDrops ==
  ASSUME NEW s \in Seq(Chars)
  PROVE  Suffixes(s) = {Drop(s, n) : n \in 0..Len(s)}
<1>1. ASSUME NEW l \in 1..Len(s)
      PROVE  \E n \in 0..Len(s) : SubSeq(s, l, Len(s)) = Drop(s, n)
  <2>1. l - 1 \in 0..Len(s) /\ (l - 1) + 1 = l
    BY SMT
  <2> QED
    BY <2>1 DEF Drop
<1>2. <<>> = Drop(s, Len(s))
  BY SMT DEF Drop
<1>3. ASSUME NEW n \in 0..Len(s), n # Len(s)
      PROVE  \E l \in 1..Len(s) : Drop(s, n) = SubSeq(s, l, Len(s))
  <2>1. n + 1 \in 1..Len(s)
    BY <1>3, SMT
  <2> QED
    BY <2>1 DEF Drop
<1>4. ASSUME NEW t \in Suffixes(s) PROVE t \in {Drop(s, n) : n \in 0..Len(s)}
  <2>1. t = <<>> \/ \E l \in 1..Len(s) : t = SubSeq(s, l, Len(s))
    BY <1>4 DEF Suffixes
  <2>2. Len(s) \in 0..Len(s)
    BY SMT
  <2> QED
    BY <1>1, <1>2, <2>1, <2>2
<1>5. ASSUME NEW n \in 0..Len(s) PROVE Drop(s, n) \in Suffixes(s)
  BY <1>2, <1>3 DEF Suffixes
<1> QED
  BY <1>4, <1>5

(* What is left of a path of the tree is as well formed as the path.        *)
LEMMA DropInTree ==
  ASSUME NEW s, InTree(s), NEW n \in 0..Len(s)
  PROVE  InTree(Drop(s, n))
<1>1. s \in Seq(Chars) /\ Drop(s, n) \in Seq(Chars) /\ Len(Drop(s, n)) = Len(s) - n
  BY DropFacts DEF InTree
<1>2. ASSUME NEW i \in DOMAIN Drop(s, n), Drop(s, n)[i] = "/"
      PROVE  LET rest == Drop(Drop(s, n), i) \o <<"/">>
             IN  ~IsPrefix(<<"/">>, rest) /\ ~IsPrefix(<<".", ".", "/">>, rest)
  <2>1. i \in 1..(Len(s) - n) /\ n + i \in DOMAIN s /\ n + i = i + n
    BY <1>1, SMT
  <2>2. s[n + i] = "/"
    BY <1>1, <1>2, <2>1, DropFacts
  <2>3. Drop(Drop(s, n), i) = Drop(s, n + i)
    BY <1>1, <2>1, DropDrop, SMT
  <2> QED
    BY <2>1, <2>2, <2>3 DEF InTree
<1> QED
  BY <1>1, <1>2 DEF InTree

(* Removing a separator leaves something that does not begin with one.      *)
LEMMA TrimSeparator ==
  ASSUME NEW s, InTree(s)
  PROVE  \E k \in 0..Len(s) :
           /\ TrimPrefix(s, <<"/">>) = Drop(s, k)
           /\ ~IsPrefix(<<"/">>, Drop(s, k))
<1>1. s \in Seq(Chars)
  BY DEF InTree
<1>2. CASE IsPrefix(<<"/">>, s)
  <2>1. 1 \in DOMAIN s /\ s[1] = "/" /\ Len(s) >= 1
    BY <1>1, <1>2, PrefixFacts, SMT
  <2>2. ~IsPrefix(<<"/">>, Drop(s, 1) \o <<"/">>)
    BY <2>1 DEF InTree
  <2>3. Drop(s, 1) \in Seq(Chars) /\ Drop(s, 1) \o <<"/">> \in Seq(Chars)
    BY <1>1, <2>1, DropFacts, SMT
  <2>4. ~IsPrefix(<<"/">>, Drop(s, 1))
    <3> DEFINE d == Drop(s, 1)
    <3> HIDE DEF d
    <3>1. Len(d \o <<"/">>) = Len(d) + 1 /\ (Len(d) >= 1 => (d \o <<"/">>)[1] = d[1])
      BY <2>3, SMT DEF d
    <3>2. d \in Seq(Chars) /\ Len(d) \in Nat
      BY <2>3, SMT DEF d
    <3>3. ~(Len(d \o <<"/">>) >= 1 /\ (d \o <<"/">>)[1] = "/")
      BY <2>2, <2>3, PrefixFacts DEF d
    <3>4. ~IsPrefix(<<"/">>, d)
      BY <3>1, <3>2, <3>3, PrefixFacts, SMT
    <3> QED
      BY <3>4 DEF d
  <2>5. TrimPrefix(s, <<"/">>) = Drop(s, 1)
    BY <1>2 DEF TrimPrefix
  <2> QED
    BY <1>1, <2>1, <2>4, <2>5, SMT
<1>3. CASE ~IsPrefix(<<"/">>, s)
  <2>1. Drop(s, 0) = s
    BY <1>1, SMT DEF Drop
  <2> QED
    BY <1>1, <1>3, <2>1, SMT DEF TrimPrefix
<1> QED
  BY <1>2, <1>3

(* One turn of the loop of cleanPath shortens the path and leaves it well   *)
(* formed and without a leading separator.                                  *)
LEMMA StripTurn ==
  ASSUME NEW s, InTree(s), IsPrefix(<<".", ".">>, s)
  PROVE  \E k \in 2..Len(s) :
           /\ TrimPrefix(Drop(s, 2), <<"/">>) = Drop(s, k)
           /\ InTree(Drop(s, k)) /\ ~IsPrefix(<<"/">>, Drop(s, k))
<1>1. s \in Seq(Chars) /\ Len(s) >= 2
  BY PrefixFacts DEF InTree
<1>2. InTree(Drop(s, 2)) /\ Len(Drop(s, 2)) = Len(s) - 2
  BY <1>1, DropInTree, DropFacts, SMT
<1>3. PICK k \in 0..(Len(s) - 2) :
        /\ TrimPrefix(Drop(s, 2), <<"/">>) = Drop(Drop(s, 2), k)
        /\ ~IsPrefix(<<"/">>, Drop(Drop(s, 2), k))
  BY <1>2, TrimSeparator
<1>4. Drop(Drop(s, 2), k) = Drop(s, 2 + k)
  BY <1>1, DropDrop, SMT
<1>5. 2 + k \in 2..Len(s) /\ 2 + k \in 0..Len(s)
  BY <1>1, SMT
<1>6. InTree(Drop(s, 2 + k))
  BY <1>5, DropInTree
<1> QED
  BY <1>3, <1>4, <1>5, <1>6

(* One turn of the loop stays among the suffixes of the path.               *)
LEMMA SuffixTurn ==
  ASSUME NEW p, InTree(p), NEW s \in Suffixes(p)
  PROVE  /\ InTree(s) /\ Len(s) \in 0..Len(p)
         /\ IsPrefix(<<".", ".">>, s) =>
              LET t == TrimPrefix(Drop(s, 2), <<"/">>)
              IN  t \in Suffixes(p) /\ Len(t) < Len(s) /\ ~IsPrefix(<<"/">>, t)
<1> DEFINE t == TrimPrefix(Drop(s, 2), <<"/">>)
<1>0. p \in Seq(Chars) /\ Len(p) \in Nat
  BY SMT DEF InTree
<1>1. PICK n \in 0..Len(p) : s = Drop(p, n)
  BY <1>0, SuffixesAreDrops
<1>2. InTree(s) /\ s \in Seq(Chars) /\ Len(s) = Len(p) - n
  BY <1>0, <1>1, DropInTree, DropFacts
<1>3. ASSUME IsPrefix(<<".", ".">>, s)
      PROVE  t \in Suffixes(p) /\ Len(t) < Len(s) /\ ~IsPrefix(<<"/">>, t)
  <2>1. PICK k \in 2..Len(s) : t = Drop(s, k) /\ ~IsPrefix(<<"/">>, t)
    BY <1>2, <1>3, StripTurn
  <2>2. t = Drop(p, n + k) /\ n + k \in 0..Len(p)
    BY <1>0, <1>1, <1>2, <2>1, DropDrop, SMT
  <2>3. Len(t) = Len(p) - (n + k)
    BY <1>0, <2>2, DropFacts
  <2>4. t \in Suffixes(p)
    BY <1>0, <2>2, SuffixesAreDrops
  <2> QED
    BY <1>0, <1>2, <2>1, <2>3, <2>4, SMT
<1> QED
  BY <1>0, <1>2, <1>3, SMT

(* The loop of cleanPath ends: the function that models it is defined on    *)
(* every suffix of the path.                                                *)
LEMMA StripUpIsDefined ==
  ASSUME NEW p, InTree(p)
  PROVE  \E g : g = [s \in Suffixes(p) |->
                     IF IsPrefix(<<".", ".">>, s)
                     THEN g[TrimPrefix(Drop(s, 2), <<"/">>)] ELSE s]
<1> DEFINE Up(s) == IsPrefix(<<".", ".">>, s)
           Turn(s) == TrimPrefix(Drop(s, 2), <<"/">>)
           D(n) == {s \in Suffixes(p) : Len(s) <= n}
           T == {n \in 0..Len(p) : \E g : g = [s \in D(n) |-> IF Up(s) THEN g[Turn(s)] ELSE s]}
<1>0. p \in Seq(Chars) /\ Len(p) \in Nat
  BY SMT DEF InTree
<1>1. \A s \in Suffixes(p) : Len(s) \in 0..Len(p)
  BY SuffixTurn
<1>2. \A s \in Suffixes(p) : Up(s) => Turn(s) \in Suffixes(p) /\ Len(Turn(s)) < Len(s)
  BY SuffixTurn
<1>3. 0 \in T
  <2>1. \A s \in D(0) : ~Up(s)
    BY <1>1, <1>2, SMT
  <2> DEFINE g == [s \in D(0) |-> s]
  <2>2. g = [s \in D(0) |-> IF Up(s) THEN g[Turn(s)] ELSE s]
    BY <2>1
  <2>3. 0 \in 0..Len(p)
    BY <1>0, SMT
  <2> HIDE DEF D, Up, Turn, g
  <2> QED
    BY <2>2, <2>3
<1>4. ASSUME NEW n \in 0..(Len(p) - 1), n \in T PROVE n + 1 \in T
  <2>1. PICK g : g = [s \in D(n) |-> IF Up(s) THEN g[Turn(s)] ELSE s]
    BY <1>4
  <2> DEFINE h == [s \in D(n + 1) |-> IF Up(s) THEN g[Turn(s)] ELSE s]
  <2>2. \A s \in D(n + 1) : Up(s) => Turn(s) \in D(n) /\ Turn(s) \in D(n + 1)
    BY <1>1, <1>2, SMT
  <2>3. \A s \in D(n) : s \in D(n + 1)
    BY <1>1, SMT
  <2> HIDE DEF D, Up, Turn
  <2>4. \A s \in D(n) : h[s] = g[s]
    BY <2>1, <2>3
  <2>5. h = [s \in D(n + 1) |-> IF Up(s) THEN h[Turn(s)] ELSE s]
    BY <2>2, <2>4
  <2>6. n + 1 \in 0..Len(p)
    BY <1>0, SMT
  <2> QED
    BY <2>5, <2>6
<1>5. Len(p) \in T
  <2> HIDE DEF T
  <2>1. 0..Len(p) \subseteq T
    BY <1>0, <1>3, <1>4, IntervalInduction
  <2> QED
    BY <1>0, <2>1, SMT
<1>6. D(Len(p)) = Suffixes(p)
  BY <1>0, <1>1, SMT
<1> QED
  BY <1>5, <1>6

(* The loop of cleanPath leaves a path of the tree that begins neither with *)
(* ".." nor with a separator.                                               *)
LEMMA StripUpFacts ==
  ASSUME NEW p, InTree(p), ~IsPrefix(<<"/">>, p)
  PROVE  /\ InTree(StripUp(p))
         /\ ~IsPrefix(<<"/">>, StripUp(p)) /\ ~IsPrefix(<<".", ".">>, StripUp(p))
<1> DEFINE Up(s) == IsPrefix(<<".", ".">>, s)
           Turn(s) == TrimPrefix(Drop(s, 2), <<"/">>)
           strip == CHOOSE g : g = [s \in Suffixes(p) |-> IF Up(s) THEN g[Turn(s)] ELSE s]
           Ok(r) == InTree(r) /\ ~IsPrefix(<<"/">>, r) /\ ~Up(r)
           T == {n \in 0..Len(p) : \A s \in Suffixes(p) :
                   Len(s) <= n /\ ~IsPrefix(<<"/">>, s) => Ok(strip[s])}
<1>0. p \in Seq(Chars) /\ Len(p) \in Nat
  BY SMT DEF InTree
<1>1. strip = [s \in Suffixes(p) |-> IF Up(s) THEN strip[Turn(s)] ELSE s]
  BY StripUpIsDefined
<1>2. StripUp(p) = strip[p]
  BY DEF StripUp
<1> HIDE DEF strip
<1>3. ASSUME NEW s \in Suffixes(p)
      PROVE  /\ InTree(s) /\ Len(s) \in 0..Len(p)
             /\ Up(s) => /\ Turn(s) \in Suffixes(p) /\ Len(Turn(s)) < Len(s)
                         /\ ~IsPrefix(<<"/">>, Turn(s)) /\ Len(Turn(s)) \in 0..Len(p)
  BY SuffixTurn
<1>4. \A s \in Suffixes(p) : IF Up(s) THEN strip[s] = strip[Turn(s)] ELSE strip[s] = s
  BY <1>1
<1> HIDE DEF Turn
<1>5. 0 \in T
  BY <1>0, <1>3, <1>4, SMT
<1>6. ASSUME NEW n \in 0..(Len(p) - 1), n \in T PROVE n + 1 \in T
  <2>1. n + 1 \in 0..Len(p)
    BY <1>0, SMT
  <2> SUFFICES ASSUME NEW s \in Suffixes(p), Len(s) <= n + 1, ~IsPrefix(<<"/">>, s)
               PROVE  Ok(strip[s])
    BY <2>1
  <2>2. CASE Up(s)
    <3>1. Len(Turn(s)) <= n /\ Turn(s) \in Suffixes(p) /\ ~IsPrefix(<<"/">>, Turn(s))
      BY <1>3, <2>2, SMT
    <3>2. Ok(strip[Turn(s)])
      BY <1>6, <3>1
    <3> QED
      BY <1>4, <2>2, <3>2
  <2>3. CASE ~Up(s)
    BY <1>3, <1>4, <2>3
  <2> QED
    BY <2>2, <2>3
<1>7. Len(p) \in T
  <2> HIDE DEF T
  <2>1. 0..Len(p) \subseteq T
    BY <1>0, <1>5, <1>6, IntervalInduction
  <2> QED
    BY <1>0, <2>1, SMT
<1>8. p \in Suffixes(p)
  <2>1. p = Drop(p, 0) /\ 0 \in 0..Len(p)
    BY <1>0, SMT DEF Drop
  <2> QED
    BY <1>0, <2>1, SuffixesAreDrops
<1>9. Ok(strip[p])
  BY <1>0, <1>7, <1>8, SMT
<1> QED
  BY <1>2, <1>9

(* Wherever export puts a recorded path, it is a proper path below the      *)
(* output directory, if it is not the directory itself.                     *)
LEMMA DestInside ==
  ASSUME NEW path, InTree(path), Dest(path) # <<>>
  PROVE  LET d == Dest(path)
         IN  d[1] # "/" /\ ~IsPrefix(<<".", ".", "/">>, d \o <<"/">>)
<1> DEFINE p == TrimPrefix(path, <<"/">>)
           c == StripUp(p)
           Inside(d) == d[1] # "/" /\ ~IsPrefix(<<".", ".", "/">>, d \o <<"/">>)
<1>1. InTree(p) /\ ~IsPrefix(<<"/">>, p)
  BY TrimSeparator, DropInTree
<1>2. InTree(c) /\ ~IsPrefix(<<"/">>, c) /\ ~IsPrefix(<<".", ".">>, c)
  BY <1>1, StripUpFacts
<1>3. Dest(path) = TrimPrefix(IF c = <<".">> THEN <<"root">> ELSE c, <<".", "/">>)
  BY DEF Dest, CleanPath
<1> HIDE DEF c
<1>4. c \in Seq(Chars)
  BY <1>2 DEF InTree
<1>5. ASSUME NEW d \in Seq(Chars), d # <<>>, ~IsPrefix(<<"/">>, d), ~IsPrefix(<<".", ".">>, d)
      PROVE  Inside(d)
  <2>1. Len(d) >= 1 /\ d[1] # "/" /\ ~(Len(d) >= 2 /\ d[1] = "." /\ d[2] = ".")
    BY <1>5, PrefixFacts, SMT
  <2> DEFINE e == d \o <<"/">>
  <2>2. /\ e \in Seq(Chars) /\ Len(e) = Len(d) + 1
        /\ e[1] = d[1] /\ (Len(d) >= 2 => e[2] = d[2])
    BY <2>1, AddSeparator, SMT
  <2> HIDE DEF e
  <2>3. ~IsPrefix(<<".", ".", "/">>, e)
    BY <2>1, <2>2, PrefixFacts, SMT
  <2> QED
    BY <2>1, <2>3 DEF e
<1>6. CASE c = <<".">>
  <2>1. ~IsPrefix(<<".", "/">>, <<"root">>)
    BY SMT DEF IsPrefix
  <2>2. Dest(path) = <<"root">>
    BY <1>3, <1>6, <2>1 DEF TrimPrefix
  <2>3. Inside(<<"root">>)
    <3>1. ~IsPrefix(<<"/">>, <<"root">>) /\ ~IsPrefix(<<".", ".">>, <<"root">>)
      BY SMT DEF IsPrefix
    <3>2. "root" \in Chars
      BY DEF Chars
    <3>3. <<"root">> \in Seq(Chars) /\ <<"root">> # <<>>
      BY <3>2, OneName
    <3> HIDE DEF Inside
    <3> QED
      BY <1>5, <3>1, <3>3
  <2> QED
    BY <2>2, <2>3
<1>7. CASE c # <<".">> /\ ~IsPrefix(<<".", "/">>, c)
  <2>1. Dest(path) = c
    BY <1>3, <1>7 DEF TrimPrefix
  <2> QED
    BY <1>2, <1>4, <1>5, <2>1
<1>8. CASE c # <<".">> /\ IsPrefix(<<".", "/">>, c)
  <2>1. Len(c) >= 2 /\ c[2] = "/"
    BY <1>4, <1>8, PrefixFacts
  <2>2. Dest(path) = Drop(c, 2)
    BY <1>3, <1>8 DEF TrimPrefix
  <2> DEFINE d == Drop(c, 2)
  <2>3. ~IsPrefix(<<"/">>, d \o <<"/">>) /\ ~IsPrefix(<<".", ".", "/">>, d \o <<"/">>)
    BY <1>2, <1>4, <2>1, SMT DEF InTree
  <2>4. d \in Seq(Chars) /\ d # <<>>
    BY <1>4, <2>1, <2>2, DropFacts, SMT
  <2> HIDE DEF d
  <2>5. d \o <<"/">> \in Seq(Chars) /\ Len(d \o <<"/">>) >= 1 /\ (d \o <<"/">>)[1] = d[1]
    <3>1. Len(d) \in Nat /\ Len(d) >= 1
      BY <2>4, SMT
    <3> QED
      BY <2>4, <3>1, AddSeparator, SMT
  <2>6. d[1] # "/"
    BY <2>3, <2>5, PrefixFacts
  <2> QED
    BY <2>2, <2>3, <2>6 DEF d
<1> QED
  BY <1>6, <1>7, <1>8

-----------------------------------------------------------------------------
(* The inductive invariant.                                                 *)

(* Before anything is recorded the invariant holds.                         *)
LEMMA InitExport == ExInit => ExIndInv
<1> SUFFICES ASSUME ExInit PROVE ExIndInv
  OBVIOUS
<1>1. ExStoreOK
  BY FS_EmptySet, SMT DEF ExInit, ExStoreOK
<1>2. ExFilesOK
  BY SMT DEF ExInit, ExFilesOK
<1>3. ExProgress /\ FailsOnlyOnClash
  BY DEF ExInit, ExProgress, FailsOnlyOnClash
<1> QED
  BY <1>1, <1>2, <1>3 DEF ExIndInv

(* Every step keeps the records in the order of the recorder's clock.       *)
LEMMA StoreStep == ExStoreOK /\ [ExNext]_exVars => ExStoreOK'
<1> SUFFICES ASSUME ExStoreOK, [ExNext]_exVars PROVE ExStoreOK'
  OBVIOUS
<1>1. ASSUME NEW u \in 1..ExMaxTick, ExRecordSession(u) PROVE ExStoreOK'
  BY <1>1, SMT DEF ExStoreOK, ExRecordSession, ExRecorded
<1>2. ASSUME NEW p \in ExPaths, NEW d \in ExContents, NEW t \in 1..ExMaxTick,
             ExRecordVersion(p, d, t)
      PROVE  ExStoreOK'
  <2> DEFINE new == [path |-> p, ts |-> t, data |-> d]
  <2>1. exRecords' = exRecords \cup {new} /\ exClock' = t /\ t > exClock /\ exPc' = "stopped"
    BY <1>2 DEF ExRecordVersion, ExRecorded
  <2>2. IsFiniteSet(exRecords')
    BY <2>1, FS_AddElement DEF ExStoreOK
  <2>3. new \in [path : ExPaths, ts : Int, data : ExContents] /\ new.ts = t
    BY SMT
  <2> HIDE DEF new
  <2>4. exRecords' \subseteq [path : ExPaths, ts : Int, data : ExContents]
    BY <2>1, <2>3 DEF ExStoreOK
  <2>5. \A r \in exRecords : r.ts \in Int /\ r.ts < t
    BY <2>1, SMT DEF ExStoreOK
  <2>6. \A r \in exRecords' : r.ts <= exClock'
    BY <2>1, <2>3, <2>5, SMT
  <2>7. \A r, s \in exRecords' : r.ts = s.ts => r = s
    BY <2>1, <2>3, <2>5, SMT DEF ExStoreOK
  <2>8. exStart' = exStart
    BY <1>2 DEF ExRecordVersion, ExRecorded
  <2> QED
    BY <2>1, <2>2, <2>4, <2>6, <2>7, <2>8, SMT DEF ExStoreOK
<1>3. ASSUME UNCHANGED exStore, exPc' # "none" PROVE ExStoreOK'
  BY <1>3 DEF ExStoreOK, exStore
<1>4. ASSUME NEW arg \in TimeArgs, ExBegin(arg) PROVE ExStoreOK'
  BY <1>3, <1>4 DEF ExBegin, Fail
<1>5. ASSUME NEW r \in exTodo, ExWriteFile(r) \/ ExBlocked(r) \/ ExWriteFails(r)
      PROVE  ExStoreOK'
  BY <1>3, <1>5 DEF ExWriteFile, ExBlocked, ExWriteFails, Fail
<1>6. CASE ExFinish
  BY <1>3, <1>6 DEF ExFinish
<1>7. CASE UNCHANGED exVars
  BY <1>7 DEF ExStoreOK, exVars
<1> QED
  BY <1>1, <1>2, <1>4, <1>5, <1>6, <1>7 DEF ExNext

(* os.WriteFile changes one file.                                           *)
LEMMA SetFileFacts ==
  ASSUME NEW dest, NEW data, SetFile(dest, data)
  PROVE  /\ DOMAIN exOut' = DOMAIN exOut \cup {dest}
         /\ exOut'[dest] = data
         /\ \A d \in DOMAIN exOut : d # dest => exOut'[d] = exOut[d]
BY DEF SetFile

(* A file written for a record keeps the output directory's account.        *)
LEMMA WriteKeepsFiles ==
  ASSUME ExFilesOK, NEW r \in exTodo, NEW data \in {Cut, r.data},
         ~IsDirectory(Dest(r.path)), SetFile(Dest(r.path), data),
         exDirs' = exDirs \cup MadeBy(Dest(r.path)),
         exTodo' \subseteq exTodo, exCount > 0,
         UNCHANGED <<exRecords, exCount>>
  PROVE  ExFilesOK'
<1> DEFINE dest == Dest(r.path)
<1>1. r \in exRecords /\ dest # <<>>
  BY DEF ExFilesOK, IsDirectory
<1>2. /\ DOMAIN exOut' = DOMAIN exOut \cup {dest}
      /\ exOut'[dest] = data
      /\ \A d \in DOMAIN exOut : d # dest => exOut'[d] = exOut[d]
  BY SetFileFacts
<1>3. MadeBy(dest) \subseteq Parents(dest)
  BY DEF MadeBy
<1> HIDE DEF dest
<1>4. \A d \in DOMAIN exOut' :
        /\ d # <<>>
        /\ \E q \in exRecords : Dest(q.path) = d
        /\ exOut'[d] = Cut \/ \E q \in exRecords : Dest(q.path) = d /\ q.data = exOut'[d]
  BY <1>1, <1>2 DEF ExFilesOK, dest
<1>5. \A p \in exDirs' : \E q \in exRecords : p \in Parents(Dest(q.path))
  BY <1>1, <1>3 DEF ExFilesOK, dest
<1> QED
  BY <1>4, <1>5, SMT DEF ExFilesOK

(* Whatever exportState puts in the output directory is of some record.     *)
LEMMA FilesStep ==
  ExIndInv /\ [ExNext]_exVars => ExFilesOK'
<1> SUFFICES ASSUME ExIndInv, [ExNext]_exVars PROVE ExFilesOK'
  OBVIOUS
<1> USE DEF ExIndInv
<1>1. ASSUME NEW u \in 1..ExMaxTick, ExRecordSession(u) PROVE ExFilesOK'
  BY <1>1 DEF ExFilesOK, ExRecordSession, ExRecorded
<1>2. ASSUME NEW p \in ExPaths, NEW d \in ExContents, NEW t \in 1..ExMaxTick,
             ExRecordVersion(p, d, t)
      PROVE  ExFilesOK'
  <2>1. exRecords \subseteq exRecords' /\ UNCHANGED <<exOut, exDirs, exTodo, exCount>>
    BY <1>2 DEF ExRecordVersion, ExRecorded
  <2> QED
    BY <2>1 DEF ExFilesOK
<1>3. ASSUME NEW arg \in TimeArgs, ExBegin(arg) PROVE ExFilesOK'
  <2>1. /\ exRecords' = exRecords /\ exCount' = exCount + 1
        /\ UNCHANGED <<exOut, exDirs>>
        /\ exTodo' = {} \/ exTodo' = LoadMetadataAt(exTarget')
    BY <1>3 DEF ExBegin, Fail, exStore
  <2>2. exTodo' \subseteq exRecords
    BY <2>1, LoadIsHeld, SMT DEF HeldAt
  <2>3. exCount' \in Nat /\ exCount' # 0
    BY <2>1, SMT DEF ExFilesOK
  <2> QED
    BY <2>1, <2>2, <2>3 DEF ExFilesOK
<1>4. ASSUME NEW r \in exTodo, ExWriteFile(r) PROVE ExFilesOK'
  <2>1. exCount > 0
    BY <1>4 DEF ExWriteFile, ExProgress
  <2>2. exTodo' \subseteq exTodo
    BY <1>4 DEF ExWriteFile
  <2> QED
    BY <1>4, <2>1, <2>2, WriteKeepsFiles DEF ExWriteFile, exStore
<1>5. ASSUME NEW r \in exTodo, ExBlocked(r) PROVE ExFilesOK'
  <2>1. MadeBy(Dest(r.path)) \subseteq Parents(Dest(r.path))
    BY DEF MadeBy
  <2>2. /\ exDirs' = exDirs \cup MadeBy(Dest(r.path)) /\ exTodo' = {}
        /\ UNCHANGED <<exRecords, exOut, exCount>>
    BY <1>5 DEF ExBlocked, Fail, exStore
  <2> QED
    BY <2>1, <2>2 DEF ExFilesOK
<1>6. ASSUME NEW r \in exTodo, ExWriteFails(r) PROVE ExFilesOK'
  <2>1. exCount > 0 /\ exTodo' = {} /\ UNCHANGED <<exRecords, exCount>>
    BY <1>6 DEF ExWriteFails, ExProgress, Fail, exStore
  <2>2. CASE UNCHANGED <<exOut, exDirs>>
    BY <2>1, <2>2 DEF ExFilesOK
  <2>3. CASE /\ ~IsDirectory(Dest(r.path)) /\ SetFile(Dest(r.path), Cut)
             /\ exDirs' = exDirs \cup MadeBy(Dest(r.path))
    BY <2>1, <2>3, WriteKeepsFiles
  <2> QED
    BY <1>6, <2>2, <2>3 DEF ExWriteFails
<1>7. CASE ExFinish \/ UNCHANGED exVars
  BY <1>7 DEF ExFilesOK, exVars, ExFinish, exStore
<1> QED
  BY <1>1, <1>2, <1>3, <1>4, <1>5, <1>6, <1>7 DEF ExNext

(* exportState gives up only where a file and a directory share a name.     *)
LEMMA ClashStep ==
  ExIndInv /\ [ExNext]_exVars => FailsOnlyOnClash'
<1> SUFFICES ASSUME ExIndInv, [ExNext]_exVars PROVE FailsOnlyOnClash'
  OBVIOUS
<1> USE DEF ExIndInv
<1>1. ASSUME exPc' # "error" \/ exFaulted' \/ exTarget' = ExNil PROVE FailsOnlyOnClash'
  BY <1>1 DEF FailsOnlyOnClash
<1>2. ASSUME NEW u \in 1..ExMaxTick, ExRecordSession(u) PROVE FailsOnlyOnClash'
  BY <1>1, <1>2 DEF ExRecordSession, ExRecorded
<1>3. ASSUME NEW p \in ExPaths, NEW d \in ExContents, NEW t \in 1..ExMaxTick,
             ExRecordVersion(p, d, t)
      PROVE  FailsOnlyOnClash'
  BY <1>1, <1>3 DEF ExRecordVersion, ExRecorded
<1>4. ASSUME NEW arg \in TimeArgs, ExBegin(arg) PROVE FailsOnlyOnClash'
  BY <1>1, <1>4 DEF ExBegin, Fail
<1>5. ASSUME NEW r \in exTodo, ExBlocked(r) PROVE FailsOnlyOnClash'
  <2>1. r \in exRecords /\ exRecords' = exRecords
    BY <1>5 DEF ExBlocked, ExFilesOK, exStore
  <2>2. CASE ParentIsFile(Dest(r.path))
    <3>1. PICK p \in Parents(Dest(r.path)) : p \in DOMAIN exOut
      BY <2>2 DEF ParentIsFile
    <3>2. PICK q \in exRecords : Dest(q.path) = p
      BY <3>1 DEF ExFilesOK
    <3> QED
      BY <2>1, <3>1, <3>2 DEF FailsOnlyOnClash
  <2>3. CASE IsDirectory(Dest(r.path))
    BY <2>1, <2>3 DEF FailsOnlyOnClash, IsDirectory, ExFilesOK
  <2> QED
    BY <1>5, <2>2, <2>3 DEF ExBlocked
<1>6. ASSUME NEW r \in exTodo, ExWriteFile(r) PROVE FailsOnlyOnClash'
  BY <1>1, <1>6 DEF ExWriteFile
<1>7. ASSUME NEW r \in exTodo, ExWriteFails(r) PROVE FailsOnlyOnClash'
  BY <1>1, <1>7 DEF ExWriteFails, Fail
<1>8. CASE ExFinish
  BY <1>1, <1>8 DEF ExFinish
<1>9. CASE UNCHANGED exVars
  BY <1>9 DEF FailsOnlyOnClash, exVars
<1> QED
  BY <1>2, <1>3, <1>4, <1>5, <1>6, <1>7, <1>8, <1>9 DEF ExNext

(* What exportState has written of the moment stays written.                *)
LEMMA ProgressStep ==
  ExIndInv /\ [ExNext]_exVars => ExProgress'
<1> SUFFICES ASSUME ExIndInv, [ExNext]_exVars PROVE ExProgress'
  OBVIOUS
<1> USE DEF ExIndInv
<1>1. ASSUME exPc' \notin {"write", "ok"} PROVE ExProgress'
  BY <1>1 DEF ExProgress
<1>2. ASSUME NEW u \in 1..ExMaxTick, ExRecordSession(u) PROVE ExProgress'
  BY <1>1, <1>2 DEF ExRecordSession, ExRecorded
<1>3. ASSUME NEW p \in ExPaths, NEW d \in ExContents, NEW t \in 1..ExMaxTick,
             ExRecordVersion(p, d, t)
      PROVE  ExProgress'
  BY <1>1, <1>3 DEF ExRecordVersion, ExRecorded
<1>4. ASSUME NEW arg \in TimeArgs, ExBegin(arg) PROVE ExProgress'
  <2>1. CASE exPc' = "error"
    BY <1>1, <2>1
  <2>2. CASE exPc' = "write" /\ exTodo' = LoadMetadataAt(exTarget')
    <3>1. exTodo' = HeldAt(exTarget')
      BY <2>2, LoadIsHeld
    <3>2. exRecords' = exRecords /\ exOut' = exOut /\ exCount' = exCount + 1
      BY <1>4 DEF ExBegin, exStore
    <3>3. HeldAt(exTarget)' = exTodo'
      BY <3>1, <3>2 DEF HeldAt
    <3>4. exCount' > 0 /\ (exCount' = 1 => DOMAIN exOut' = {})
      BY <3>2, SMT DEF ExFilesOK
    <3> QED
      BY <2>2, <3>3, <3>4 DEF ExProgress
  <2> QED
    BY <1>4, <2>1, <2>2 DEF ExBegin, Fail
<1>5. ASSUME NEW r \in exTodo, ExWriteFile(r) PROVE ExProgress'
  <2> DEFINE held == HeldAt(exTarget)
             dest == Dest(r.path)
  <2>1. /\ exPc = "write" /\ exPc' = "write" /\ exCount' = exCount
        /\ exTodo' = exTodo \ {r} /\ SetFile(dest, r.data)
        /\ UNCHANGED <<exRecords, exTarget>>
    BY <1>5 DEF ExWriteFile, exStore
  <2>2. held' = held
    BY <2>1 DEF HeldAt
  <2>3. /\ DOMAIN exOut' = DOMAIN exOut \cup {dest}
        /\ exOut'[dest] = r.data
        /\ \A d \in DOMAIN exOut : d # dest => exOut'[d] = exOut[d]
    BY <2>1, SetFileFacts
  <2> HIDE DEF held, dest
  <2>4. /\ exTodo \subseteq held /\ exCount > 0
        /\ \A q \in held \ exTodo :
             /\ Dest(q.path) \in DOMAIN exOut
             /\ (\A s \in held : Dest(s.path) = Dest(q.path) => s = q)
                  => exOut[Dest(q.path)] = q.data
        /\ exCount = 1 => \A d \in DOMAIN exOut : \E q \in held \ exTodo : Dest(q.path) = d
    BY <2>1 DEF ExProgress, held
  <2>5. exTodo' \subseteq held /\ held \ exTodo' = (held \ exTodo) \cup {r}
    BY <2>1, <2>4
  <2>6. \A q \in held \ exTodo' :
          /\ Dest(q.path) \in DOMAIN exOut'
          /\ (\A s \in held : Dest(s.path) = Dest(q.path) => s = q)
               => exOut'[Dest(q.path)] = q.data
    <3> SUFFICES ASSUME NEW q \in held \ exTodo'
                 PROVE  /\ Dest(q.path) \in DOMAIN exOut'
                        /\ (\A s \in held : Dest(s.path) = Dest(q.path) => s = q)
                             => exOut'[Dest(q.path)] = q.data
      OBVIOUS
    <3>1. CASE q = r
      BY <2>3, <3>1 DEF dest
    <3>2. CASE q # r
      <4>1. q \in held \ exTodo /\ r \in held
        BY <2>4, <2>5, <3>2
      <4> QED
        BY <2>3, <2>4, <3>2, <4>1 DEF dest
    <3> QED
      BY <3>1, <3>2
  <2>7. exCount = 1 => \A d \in DOMAIN exOut' : \E q \in held \ exTodo' : Dest(q.path) = d
    BY <2>3, <2>4, <2>5 DEF dest
  <2>8. HeldAt(exTarget)' = held
    BY <2>2 DEF held
  <2>9. exPc' # "ok" /\ exCount' > 0
    BY <2>1, <2>4
  <2> QED
    BY <2>1, <2>5, <2>6, <2>7, <2>8, <2>9 DEF ExProgress
<1>6. ASSUME NEW r \in exTodo, ExBlocked(r) \/ ExWriteFails(r) PROVE ExProgress'
  BY <1>1, <1>6 DEF ExBlocked, ExWriteFails, Fail
<1>7. CASE ExFinish \/ UNCHANGED exVars
  <2>1. /\ UNCHANGED <<exRecords, exTarget, exTodo, exOut, exCount>>
        /\ exPc' = exPc \/ (exPc = "write" /\ exTodo = {})
    BY <1>7 DEF ExFinish, exVars, exStore
  <2>2. exPc' \in {"write", "ok"} => exPc \in {"write", "ok"}
    BY <1>7, <2>1
  <2>3. HeldAt(exTarget)' = HeldAt(exTarget)
    BY <2>1 DEF HeldAt
  <2> QED
    BY <2>1, <2>2, <2>3, SMT DEF ExProgress
<1> QED
  BY <1>2, <1>3, <1>4, <1>5, <1>6, <1>7 DEF ExNext

(* However the recorder and the exports of one directory alternate, and     *)
(* whatever fails, the store, the output directory and the export agree.    *)
THEOREM ExportInvariant == ExSpec => []ExIndInv
<1>1. ExIndInv /\ [ExNext]_exVars => ExIndInv'
  BY StoreStep, FilesStep, ProgressStep, ClashStep DEF ExIndInv
<1> QED
  BY InitExport, <1>1, PTL DEF ExSpec

(* Every export that succeeds restores the moment it was asked for: what    *)
(* loadMetadataAt chose, written by the loop of runExport in any order.     *)
THEOREM ExportRestoresTheMoment == ExSpec => []ExportIsTheMoment
<1>1. ExIndInv => ExportIsTheMoment
  <2> SUFFICES ASSUME ExIndInv, exPc = "ok" PROVE ExportIsTheMoment
    BY DEF ExportIsTheMoment
  <2> DEFINE held == HeldAt(exTarget)
             Dests == {Dest(r.path) : r \in held}
  <2>1. /\ exTodo = {}
        /\ \A r \in held :
             /\ Dest(r.path) \in DOMAIN exOut
             /\ (\A s \in held : Dest(s.path) = Dest(r.path) => s = r)
                  => exOut[Dest(r.path)] = r.data
        /\ exCount = 1 => \A d \in DOMAIN exOut : \E r \in held : Dest(r.path) = d
    BY DEF ExIndInv, ExProgress
  <2> HIDE DEF held
  <2>2. Dests \subseteq DOMAIN exOut /\ (exCount = 1 => DOMAIN exOut = Dests)
    BY <2>1
  <2> QED
    BY <2>1, <2>2 DEF ExportIsTheMoment, held
<1> QED
  BY <1>1, ExportInvariant, PTL

(* An export that no I/O error stopped fails only on a time it cannot use   *)
(* or on records that clash as a file and a directory.                      *)
THEOREM ExportFailsOnlyOnClash == ExSpec => []FailsOnlyOnClash
<1>1. ExIndInv => FailsOnlyOnClash
  BY DEF ExIndInv
<1> QED
  BY <1>1, ExportInvariant, PTL

(* A file that any number of exports left in the directory, failed ones     *)
(* included, is a whole version of its path or the rest of a failed write,  *)
(* and lies inside the directory.                                           *)
THEOREM ExportedFilesAreVersions == ExSpec => []EveryFileIsAVersion
<1>1. ExIndInv => EveryFileIsAVersion
  <2> SUFFICES ASSUME ExIndInv, NEW d \in DOMAIN exOut
               PROVE  /\ exOut[d] = Cut \/ \E r \in exRecords : Dest(r.path) = d /\ r.data = exOut[d]
                      /\ d # <<>> /\ d[1] # "/" /\ ~IsPrefix(<<".", ".", "/">>, d \o <<"/">>)
    BY DEF EveryFileIsAVersion
  <2>1. /\ d # <<>>
        /\ exOut[d] = Cut \/ \E r \in exRecords : Dest(r.path) = d /\ r.data = exOut[d]
    BY DEF ExIndInv, ExFilesOK
  <2>2. PICK r \in exRecords : Dest(r.path) = d
    BY DEF ExIndInv, ExFilesOK
  <2>3. InTree(r.path)
    BY PathAssumption DEF ExIndInv, ExStoreOK
  <2>4. d[1] # "/" /\ ~IsPrefix(<<".", ".", "/">>, d \o <<"/">>)
    BY <2>1, <2>2, <2>3, DestInside
  <2> QED
    BY <2>1, <2>4
<1> QED
  BY <1>1, ExportInvariant, PTL

-----------------------------------------------------------------------------
(* What timeline prints, in whole seconds, is less than one second short.   *)
LEMMA WholeSeconds ==
  ASSUME NEW duration \in Nat
  PROVE  (duration \div Second) * Second \in Nat
         /\ duration < (duration \div Second) * Second + Second
<1>1. Second \in Nat \ {0}
  BY SecondAssumption
<1>2. duration \div Second \in Nat
  BY <1>1, SMT
<1>3. duration = Second * (duration \div Second) + (duration % Second)
      /\ duration % Second \in 0..(Second - 1)
  BY <1>1, SMT
<1> DEFINE q == duration \div Second
           m == duration % Second
<1> HIDE DEF q, m
<1>4. q \in Nat /\ m \in 0..(Second - 1) /\ duration = Second * q + m
  BY <1>2, <1>3 DEF q, m
<1>5. q * Second \in Nat /\ duration < q * Second + Second
  BY <1>1, <1>4, SMT
<1> QED
  BY <1>5 DEF q

(* An export one second after the offset that timeline prints for a write   *)
(* restores that write or a later one of its path.                          *)
THEOREM TimelineIsGoodToASecond == ExSpec => []NextSecondRestores
<1>1. ExIndInv => NextSecondRestores
  <2> SUFFICES ASSUME ExIndInv, NEW line \in Timeline,
                      exTarget = exStart + line.offset + Second
               PROVE  \E r \in HeldAt(exTarget) :
                        r.path = line.rec.path /\ r.ts >= line.rec.ts
    BY DEF NextSecondRestores
  <2>1. exStart \in Int
    BY DEF Timeline, ExIndInv, ExStoreOK
  <2> DEFINE duration(r) == IF r.ts < exStart THEN 0 ELSE r.ts - exStart
  <2>2. PICK x \in exRecords :
          line = [rec |-> x, offset |-> (duration(x) \div Second) * Second]
    BY DEF Timeline
  <2>3. line.rec = x /\ line.offset = (duration(x) \div Second) * Second
    BY <2>2
  <2>4. \A r \in exRecords : r.ts \in Int
    BY SMT DEF ExIndInv, ExStoreOK
  <2>5. duration(x) \in Nat /\ x.ts <= exStart + duration(x)
    BY <2>1, <2>4, SMT
  <2>6. line.offset \in Nat /\ duration(x) < line.offset + Second
    BY <2>3, <2>5, WholeSeconds
  <2>7. exTarget \in Int /\ x.ts <= exTarget
    <3> HIDE DEF duration
    <3> QED
      BY <2>1, <2>4, <2>5, <2>6, SecondAssumption, SMT
  <2> DEFINE S == {r \in exRecords : r.ts <= exTarget}
  <2>8. IsFiniteSet(S)
    BY FS_Subset DEF ExIndInv, ExStoreOK
  <2>9. OnePerMoment(S)
    BY <2>4 DEF OnePerMoment, ExIndInv, ExStoreOK
  <2>10. PICK r \in NewestIn(S) : r.path = x.path /\ x.ts <= r.ts
    <3> HIDE DEF S
    <3>1. x \in S
      BY <2>7 DEF S
    <3> QED
      BY <2>8, <2>9, <3>1, NewestExists
  <2>11. r \in HeldAt(exTarget)
    BY <2>10 DEF NewestIn, HeldAt
  <2> QED
    BY <2>3, <2>4, <2>10, <2>11, SMT DEF HeldAt
<1> QED
  BY <1>1, ExportInvariant, PTL

(* What each path held at a moment that is past is fixed: an export of it   *)
(* restores the same, now and after any number of further sessions.         *)
THEOREM PastHeldForGood == ExSpec => PastMomentsFixed
<1>1. ExIndInv /\ [ExNext]_exVars => [\A t \in 0..exClock : HeldAt(t)' = HeldAt(t)]_exVars
  <2> SUFFICES ASSUME ExIndInv, ExNext, NEW t \in 0..exClock PROVE HeldAt(t)' = HeldAt(t)
    OBVIOUS
  <2>1. CASE exRecords' = exRecords
    BY <2>1 DEF HeldAt
  <2>2. ASSUME NEW p \in ExPaths, NEW d \in ExContents, NEW u \in 1..ExMaxTick,
               ExRecordVersion(p, d, u)
        PROVE  HeldAt(t)' = HeldAt(t)
    <3> DEFINE new == [path |-> p, ts |-> u, data |-> d]
    <3>1. exRecords' = exRecords \cup {new} /\ u > exClock /\ exClock \in Int /\ new.ts = u
      BY <2>2 DEF ExRecordVersion, ExRecorded, ExIndInv, ExStoreOK
    <3>2. ~(new.ts <= t)
      BY <3>1, SMT
    <3> HIDE DEF new
    <3> QED
      BY <3>1, <3>2 DEF HeldAt
  <2> QED
    BY <2>1, <2>2 DEF ExNext, ExRecordSession, ExRecorded, ExBegin, ExWriteFile, ExBlocked, ExWriteFails,
       ExFinish, exStore
<1> QED
  BY <1>1, ExportInvariant, PTL DEF ExSpec, PastMomentsFixed

=============================================================================
