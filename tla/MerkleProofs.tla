---------------------------- MODULE MerkleProofs ----------------------------
(* What hangs on content addresses: the references of pkg/cas, for any      *)
(* objects, files and order of the store's operations, and the trees of     *)
(* pkg/merkle, for every list of CIDs.                                      *)
EXTENDS CASStore, Merkle, Induction

(* A leaf is for Zenon to prove unless it cites SMT, for arithmetic,        *)
(* sequences and records, or PTL, for temporal logic.                       *)
USE Zenon

-----------------------------------------------------------------------------
(* The store and its references.                                            *)

(* The inductive invariant: CountIsNumberOfFiles, and the file lists are    *)
(* finite, so that adding or removing a file changes their size by one.     *)
CountInv ==
  /\ CsTypeOK
  /\ CountIsNumberOfFiles
  /\ \A c \in CIDs : refs[c] # CsNil => IsFiniteSet(refs[c].files)

(* Every content has a name, by either way the code computes one.           *)
LEMMA CIDsNamed == \A d \in Contents : ComputeCID(d) \in CIDs /\ ChunkCID(d) \in CIDs
BY DEF CIDs

(* What zstd makes of a content is one of the blobs a value can be.         *)
LEMMA CompressedIsBlob == \A d \in Contents : Compress(d) \in {Compress(e) : e \in Contents}
OBVIOUS

(* Every stored value decodes, whatever the calls.                          *)
LEMMA CsTypeStep == CsTypeOK /\ [CsNext]_csVars => CsTypeOK'
<1> SUFFICES ASSUME CsTypeOK, [CsNext]_csVars PROVE CsTypeOK'
  OBVIOUS
<1>1. CASE \E d \in Contents : Put(d) \/ PutChunk(d)
  BY <1>1, CIDsNamed, CompressedIsBlob DEF CsTypeOK, Put, PutChunk, StoreUnder, Call
<1>2. CASE \E c \in CIDs : Delete(c) \/ Collect(c)
  BY <1>2 DEF CsTypeOK, Delete, Collect, Call
<1>3. ASSUME NEW c \in CIDs, NEW f \in Files, AddReference(c, f) PROVE CsTypeOK'
  <2>1. RefRecord(c) \in CASRefCount
    BY DEF CsTypeOK, RefRecord, CASRefCount
  <2>2. [n |-> RefRecord(c).n + 1, files |-> RefRecord(c).files \cup {f}] \in CASRefCount
    BY <2>1, SMT DEF CASRefCount
  <2> QED
    BY <1>3, <2>2 DEF CsTypeOK, AddReference, Call
<1>4. ASSUME NEW c \in CIDs, NEW f \in Files, RemoveReference(c, f) PROVE CsTypeOK'
  <2> DEFINE left == [n |-> refs[c].n - 1, files |-> refs[c].files \ {f}]
  <2>1. refs[c] \in CASRefCount
    BY <1>4 DEF RemoveReference, CsTypeOK
  <2>2. left.n > 0 => left \in CASRefCount
    BY <2>1, SMT DEF CASRefCount
  <2>3. left.n \in Int
    BY <2>1, SMT DEF CASRefCount
  <2>4. (IF left.n <= 0 THEN CsNil ELSE left) \in CASRefCount \cup {CsNil}
    BY <2>2, <2>3, SMT
  <2>5. refs' = [refs EXCEPT ![c] = IF left.n <= 0 THEN CsNil ELSE left]
        /\ UNCHANGED objects /\ Call
    BY <1>4 DEF RemoveReference
  <2> HIDE DEF left
  <2> QED
    BY <2>4, <2>5 DEF CsTypeOK, Call
<1>5. CASE BeginGC \/ EndGC \/ FailGC \/ UNCHANGED csVars
  BY <1>5 DEF CsTypeOK, BeginGC, EndGC, FailGC, UnreferencedObjs, gcVars, csVars
<1> QED
  BY <1>1, <1>2, <1>3, <1>4, <1>5 DEF CsNext

(* The counter moves with the file list, in every call.                     *)
LEMMA CountStep == CountInv /\ [CsNext]_csVars => CountInv'
<1> SUFFICES ASSUME CountInv, [CsNext]_csVars PROVE CountInv'
  OBVIOUS
<1>0. CsTypeOK'
  BY CsTypeStep DEF CountInv
<1>1. CASE UNCHANGED refs
  BY <1>0, <1>1 DEF CountInv, CountIsNumberOfFiles
<1>2. ASSUME NEW c \in CIDs, NEW f \in Files, AddReference(c, f) PROVE CountInv'
  <2> DEFINE old == RefRecord(c)
             new == [n |-> old.n + 1, files |-> old.files \cup {f}]
  <2>1. old.n = Cardinality(old.files) /\ IsFiniteSet(old.files) /\ old.n \in Nat
    BY FS_EmptySet DEF CountInv, CsTypeOK, CountIsNumberOfFiles, RefRecord, CASRefCount
  <2>2. f \notin old.files /\ refs' = [refs EXCEPT ![c] = new]
    BY <1>2 DEF AddReference
  <2>3. IsFiniteSet(new.files) /\ Cardinality(new.files) = Cardinality(old.files) + 1
    BY <2>1, <2>2, FS_AddElement
  <2>4. new.n = Cardinality(new.files) /\ new.n > 0
    BY <2>1, <2>3, SMT
  <2>5. \A b \in CIDs : refs'[b] = IF b = c THEN new ELSE refs[b]
    BY <2>2 DEF CountInv, CsTypeOK
  <2> HIDE DEF new
  <2> QED
    BY <1>0, <2>3, <2>4, <2>5 DEF CountInv, CountIsNumberOfFiles
<1>3. ASSUME NEW c \in CIDs, NEW f \in Files, RemoveReference(c, f) PROVE CountInv'
  <2> DEFINE old == refs[c]
             left == [n |-> old.n - 1, files |-> old.files \ {f}]
  <2>1. /\ f \in old.files /\ old # CsNil
        /\ refs' = [refs EXCEPT ![c] = IF left.n <= 0 THEN CsNil ELSE left]
    BY <1>3 DEF RemoveReference
  <2>2. old.n = Cardinality(old.files) /\ IsFiniteSet(old.files) /\ old.n \in Nat
    BY <2>1 DEF CountInv, CsTypeOK, CountIsNumberOfFiles, CASRefCount
  <2>3. IsFiniteSet(left.files) /\ Cardinality(left.files) = Cardinality(old.files) - 1
    BY <2>1, <2>2, FS_RemoveElement
  <2>4. left.n = Cardinality(left.files) /\ left.n \in Int
    BY <2>2, <2>3, SMT
  <2>5. \A b \in CIDs : refs'[b] = IF b = c THEN (IF left.n <= 0 THEN CsNil ELSE left) ELSE refs[b]
    BY <2>1 DEF CountInv, CsTypeOK
  <2> HIDE DEF left
  <2>6. \A b \in CIDs : refs'[b] # CsNil =>
          \/ refs'[b] = left /\ left.n > 0
          \/ refs'[b] = refs[b]
    BY <2>4, <2>5, SMT
  <2> QED
    BY <1>0, <2>3, <2>4, <2>6 DEF CountInv, CountIsNumberOfFiles
<1>4. \/ UNCHANGED refs
      \/ \E c \in CIDs, f \in Files : AddReference(c, f) \/ RemoveReference(c, f)
  BY DEF CsNext, Put, PutChunk, Delete, Collect, BeginGC, EndGC, FailGC, csVars
<1> QED
  BY <1>1, <1>2, <1>3, <1>4

(* CountInv holds of every execution.                                       *)
LEMMA CountInvHolds == CsSpec => []CountInv
<1>1. CsInit => CountInv
  BY DEF CsInit, CountInv, CsTypeOK, CountIsNumberOfFiles
<1> QED
  BY <1>1, CountStep, PTL DEF CsSpec

(* The counter of every reference record is the number of files it lists,   *)
(* whatever AddReference and RemoveReference are called with.               *)
THEOREM CountsAreRight == CsSpec => []CountIsNumberOfFiles
<1>1. CountInv => CountIsNumberOfFiles
  BY DEF CountInv
<1> QED
  BY <1>1, CountInvHolds, PTL

(* GarbageCollect and every other call spare an object some file refers to. *)
THEOREM CollectorSparesReferenced == CsSpec => ReferencedSurvives
<1> DEFINE Spared == \A c \in CIDs : refs[c] # CsNil /\ refs[c].files # {} /\ objects[c] # CsNil
                                       => objects'[c] = objects[c]
<1>1. CountInv /\ [CsNext]_csVars => [Spared]_csVars
  <2> SUFFICES ASSUME CountInv, CsNext, NEW c \in CIDs, refs[c] # CsNil, objects[c] # CsNil
               PROVE  objects'[c] = objects[c]
    BY DEF csVars
  <2>1. GetRefCount(c) > 0
    BY DEF CountInv, CountIsNumberOfFiles, GetRefCount
  <2>2. GetRefCount(c) \in Nat
    BY DEF CountInv, CsTypeOK, GetRefCount, CASRefCount
  <2>3. CASE \E d \in Contents : Put(d) \/ PutChunk(d)
    BY <2>3, CIDsNamed DEF Put, PutChunk, StoreUnder, Has, CountInv, CsTypeOK
  <2>4. CASE \E b \in CIDs : Delete(b) \/ Collect(b)
    BY <2>1, <2>2, <2>4, SMT DEF Delete, Collect, CountInv, CsTypeOK
  <2> QED
    BY <2>3, <2>4 DEF CsNext, AddReference, RemoveReference, BeginGC, EndGC, FailGC
<1> QED
  BY <1>1, CountInvHolds, PTL DEF CsSpec, ReferencedSurvives

(* While a collection runs and until the next call, what it deleted and     *)
(* what is unreferenced now make up what was unreferenced when it began,    *)
(* what it has still to visit is stored, and what it has passed by without  *)
(* deleting is referenced.                                                  *)
CollectInv ==
  /\ CsTypeOK
  /\ CollectsWhatStatsReport
  /\ gc = "running" => UnreferencedObjs \subseteq iter /\ \A c \in iter : Has(c)

(* GetStats, which decodes every record, and GarbageCollect, which asks     *)
(* GetRefCount, call the same objects unreferenced.                         *)
LEMMA CountTellsReferenced ==
  CsTypeOK => \A c \in CIDs : c \in Referenced <=> ~(GetRefCount(c) <= 0)
BY SMT DEF CsTypeOK, CASRefCount, Referenced, GetRefCount

(* Every call and every turn of the collector's loop keeps CollectInv.      *)
LEMMA CollectStep == CollectInv /\ [CsNext]_csVars => CollectInv'
<1> SUFFICES ASSUME CollectInv, [CsNext]_csVars PROVE CollectInv'
  OBVIOUS
<1>0. CsTypeOK'
  BY CsTypeStep DEF CollectInv
<1> USE DEF CollectInv, CollectsWhatStatsReport
<1>1. CASE Call
  BY <1>0, <1>1 DEF Call
<1>2. ASSUME NEW c \in CIDs, Collect(c) PROVE CollectInv'
  <2>1. Referenced' = Referenced
    BY <1>2 DEF Collect, Referenced
  <2>2. CASE GetRefCount(c) <= 0
    <3>1. c \notin Referenced
      BY <2>2, CountTellsReferenced
    <3>2. \A b \in CIDs : objects'[b] = IF b = c THEN CsNil ELSE objects[b]
      BY <1>2, <2>2 DEF Collect, CsTypeOK
    <3>3. UnreferencedObjs' = UnreferencedObjs \ {c}
      BY <2>1, <3>2 DEF UnreferencedObjs, Has
    <3>4. c \in UnreferencedObjs
      BY <1>2, <3>1 DEF Collect, UnreferencedObjs
    <3>5. iter' = iter \ {c} /\ deleted' = deleted \cup {c} /\ UNCHANGED <<gc, foretold>>
      BY <1>2, <2>2 DEF Collect
    <3>6. \A b \in iter' : Has(b)'
      BY <1>2, <3>2, <3>5 DEF Collect, CsTypeOK, Has
    <3> QED
      BY <1>0, <1>2, <3>3, <3>4, <3>5, <3>6 DEF Collect
  <2>3. CASE ~(GetRefCount(c) <= 0)
    <3>1. c \in Referenced
      BY <2>3, CountTellsReferenced
    <3>2. UnreferencedObjs' = UnreferencedObjs
      BY <1>2, <2>1, <2>3 DEF Collect, UnreferencedObjs, Has
    <3>3. \A b \in iter' : Has(b)'
      BY <1>2, <2>3 DEF Collect, Has
    <3> QED
      BY <1>0, <1>2, <2>3, <3>1, <3>2, <3>3 DEF Collect, UnreferencedObjs
  <2> QED
    BY <2>2, <2>3
<1>3. CASE BeginGC
  <2>1. UnreferencedObjs' = UnreferencedObjs
    BY <1>3 DEF BeginGC, UnreferencedObjs, Has, Referenced
  <2> QED
    BY <1>0, <1>3, <2>1 DEF BeginGC, UnreferencedObjs, Has
<1>4. CASE EndGC \/ FailGC \/ UNCHANGED csVars
  <2>1. UnreferencedObjs' = UnreferencedObjs
    BY <1>4 DEF EndGC, FailGC, csVars, UnreferencedObjs, Has, Referenced
  <2> QED
    BY <1>0, <1>4, <2>1 DEF EndGC, FailGC, csVars, gcVars, Has
<1> QED
  BY <1>1, <1>2, <1>3, <1>4 DEF CsNext, Put, PutChunk, Delete, AddReference, RemoveReference

(* GarbageCollect deletes and counts what GetStats reported before it, all  *)
(* of it if it returns without an error, whatever calls came before.        *)
THEOREM CollectorFollowsStats == CsSpec => []CollectsWhatStatsReport
<1>1. CsInit => CollectInv
  BY DEF CsInit, CollectInv, CollectsWhatStatsReport, CsTypeOK
<1>2. CollectInv => CollectsWhatStatsReport
  BY DEF CollectInv
<1> QED
  BY <1>1, <1>2, CollectStep, PTL DEF CsSpec

-----------------------------------------------------------------------------
(* The levels of a Merkle tree.                                             *)

(* A level of a tree: a sequence of n hashes, of whatever kind.             *)
Row(l, n) == n \in Nat \ {0} /\ Len(l) = n /\ l = [i \in 1..n |-> l[i]]

(* A function on 1..n is a row of n.                                        *)
LEMMA RowOf ==
  ASSUME NEW n \in Nat \ {0}, NEW l, l = [i \in 1..n |-> l[i]]
  PROVE  Row(l, n)
<1> DEFINE S == {l[i] : i \in 1..n}
<1>1. l \in [1..n -> S]
  OBVIOUS
<1> HIDE DEF S
<1>2. l \in Seq(S) /\ Len(l) = n
  BY <1>1, SMT
<1> QED
  BY <1>2 DEF Row

(* What the level above a level is.                                         *)
LEMMA PairUpFacts ==
  ASSUME NEW l, NEW n, Row(l, n)
  PROVE  LET m == (n + 1) \div 2
         IN  /\ Row(PairUp(l), m) /\ m <= n /\ (n # 1 => m < n)
             /\ \A i \in 1..m :
                  /\ 2 * i - 1 \in 1..n
                  /\ PairUp(l)[i] = Node(l[2 * i - 1], IF 2 * i > n THEN l[n] ELSE l[2 * i])
<1> DEFINE m == (n + 1) \div 2
           Pair(i) == Node(l[2 * i - 1], IF 2 * i > n THEN l[n] ELSE l[2 * i])
<1>1. n \in Nat \ {0} /\ Len(l) = n
  BY DEF Row
<1>2. m \in Nat \ {0} /\ m <= n /\ (n # 1 => m < n) /\ \A i \in 1..m : 2 * i - 1 \in 1..n
  BY <1>1, SMT
<1>3. PairUp(l) = [i \in 1..m |-> Pair(i)]
  BY <1>1 DEF PairUp
<1> HIDE DEF m, Pair
<1>4. \A i \in 1..m : PairUp(l)[i] = Pair(i)
  BY <1>3
<1>5. PairUp(l) = [i \in 1..m |-> PairUp(l)[i]]
  BY <1>3, <1>4
<1>6. Row(PairUp(l), m)
  BY <1>2, <1>5, RowOf
<1> QED
  BY <1>2, <1>4, <1>6 DEF m, Pair

(* The levels and widths are defined.                                       *)
LEMMA LevelsDefined ==
  ASSUME NEW cids, NEW n \in Nat, Len(cids) = n
  PROVE  /\ Levels(cids)[0] = [i \in DOMAIN cids |-> Leaf(cids[i])]
         /\ \A k \in 1..n : Levels(cids)[k] = PairUp(Levels(cids)[k - 1])
<1> DEFINE base == [i \in DOMAIN cids |-> Leaf(cids[i])]
<1> HIDE DEF base
<1> DEFINE T == {k \in Nat : \E g : g = [i \in 0..k |-> IF i = 0 THEN base ELSE PairUp(g[i - 1])]}
<1>1. 0 \in T
  <2> DEFINE g == [i \in 0..0 |-> base]
  <2>1. g = [i \in 0..0 |-> IF i = 0 THEN base ELSE PairUp(g[i - 1])]
    BY SMT
  <2> QED
    BY <2>1
<1>2. ASSUME NEW k \in Nat, k \in T PROVE k + 1 \in T
  <2>1. PICK g : g = [i \in 0..k |-> IF i = 0 THEN base ELSE PairUp(g[i - 1])]
    BY <1>2
  <2> DEFINE h == [i \in 0..(k + 1) |-> IF i = 0 THEN base ELSE PairUp(g[i - 1])]
  <2>2. \A i \in 0..k : g[i] = IF i = 0 THEN base ELSE PairUp(g[i - 1])
    BY <2>1
  <2>3. \A i \in 0..k : h[i] = g[i]
    BY <2>2, SMT
  <2>4. ASSUME NEW i \in 0..(k + 1), i # 0 PROVE h[i - 1] = g[i - 1]
    <3>1. i - 1 \in 0..k
      BY <2>4, SMT
    <3> QED
      BY <2>3, <3>1
  <2>5. h = [i \in 0..(k + 1) |-> IF i = 0 THEN base ELSE PairUp(h[i - 1])]
    BY <2>4
  <2> HIDE DEF h
  <2> QED
    BY <2>5, SMT
<1>3. Nat \subseteq T
  <2> HIDE DEF T
  <2> QED
    BY <1>1, <1>2, NatSetInduction
<1> DEFINE f == Levels(cids)
<1>4. f = CHOOSE g : g = [i \in 0..n |-> IF i = 0 THEN base ELSE PairUp(g[i - 1])]
  BY DEF Levels, base
<1>5. f = [i \in 0..n |-> IF i = 0 THEN base ELSE PairUp(f[i - 1])]
  <2>1. \E g : g = [i \in 0..n |-> IF i = 0 THEN base ELSE PairUp(g[i - 1])]
    BY <1>3
  <2> HIDE DEF f
  <2> QED
    BY <1>4, <2>1
<1> HIDE DEF f
<1>6. f[0] = base /\ \A k \in 1..n : f[k] = PairUp(f[k - 1])
  BY <1>5, SMT
<1> QED
  BY <1>6 DEF f, base

(* The widths of the levels, each half of the one below, rounded up.        *)
LEMMA WidthsDefined ==
  ASSUME NEW cids, NEW n \in Nat, Len(cids) = n
  PROVE  /\ Widths(cids)[0] = n
         /\ \A k \in 1..n : Widths(cids)[k] = (Widths(cids)[k - 1] + 1) \div 2
<1> DEFINE Half(w) == (w + 1) \div 2
<1> HIDE DEF Half
<1> DEFINE T == {k \in Nat : \E g : g = [i \in 0..k |-> IF i = 0 THEN n ELSE Half(g[i - 1])]}
<1>1. 0 \in T
  <2> DEFINE g == [i \in 0..0 |-> n]
  <2>1. g = [i \in 0..0 |-> IF i = 0 THEN n ELSE Half(g[i - 1])]
    BY SMT
  <2> QED
    BY <2>1
<1>2. ASSUME NEW k \in Nat, k \in T PROVE k + 1 \in T
  <2>1. PICK g : g = [i \in 0..k |-> IF i = 0 THEN n ELSE Half(g[i - 1])]
    BY <1>2
  <2> DEFINE h == [i \in 0..(k + 1) |-> IF i = 0 THEN n ELSE Half(g[i - 1])]
  <2>2. \A i \in 0..k : g[i] = IF i = 0 THEN n ELSE Half(g[i - 1])
    BY <2>1
  <2>3. \A i \in 0..k : h[i] = g[i]
    BY <2>2, SMT
  <2>4. ASSUME NEW i \in 0..(k + 1), i # 0 PROVE h[i - 1] = g[i - 1]
    <3>1. i - 1 \in 0..k
      BY <2>4, SMT
    <3> QED
      BY <2>3, <3>1
  <2>5. h = [i \in 0..(k + 1) |-> IF i = 0 THEN n ELSE Half(h[i - 1])]
    BY <2>4
  <2> HIDE DEF h
  <2> QED
    BY <2>5, SMT
<1>3. Nat \subseteq T
  <2> HIDE DEF T
  <2> QED
    BY <1>1, <1>2, NatSetInduction
<1> DEFINE f == Widths(cids)
<1>4. f = CHOOSE g : g = [i \in 0..n |-> IF i = 0 THEN n ELSE Half(g[i - 1])]
  BY DEF Widths, Half
<1>5. f = [i \in 0..n |-> IF i = 0 THEN n ELSE Half(f[i - 1])]
  <2>1. \E g : g = [i \in 0..n |-> IF i = 0 THEN n ELSE Half(g[i - 1])]
    BY <1>3
  <2> HIDE DEF f
  <2> QED
    BY <1>4, <2>1
<1> HIDE DEF f
<1>6. f[0] = n /\ \A k \in 1..n : f[k] = Half(f[k - 1])
  BY <1>5, SMT
<1> QED
  BY <1>6 DEF f, Half

(* A list of CIDs, as BuildTree takes it.                                   *)
LEMMA ListFacts ==
  ASSUME NEW s \in Lists
  PROVE  /\ s \in Seq(MkCids) /\ Len(s) \in Nat \ {0} /\ DOMAIN s = 1..Len(s)
         /\ \A i \in 1..Len(s) : s[i] \in MkCids
<1>1. PICK n \in 1..MkMaxLen : s \in [1..n -> MkCids]
  BY DEF Lists
<1>2. n \in Nat \ {0}
  BY <1>1, MkAssumption, SMT
<1> QED
  BY <1>1, <1>2, SMT

(* Every level is a row of its width, and the widths shrink to one.         *)
LEMMA LevelRows ==
  ASSUME NEW s \in Lists
  PROVE  \A k \in 0..Len(s) :
           /\ Row(Levels(s)[k], Widths(s)[k])
           /\ Widths(s)[k] = 1 \/ Widths(s)[k] <= Len(s) - k
<1> DEFINE n == Len(s)
           level == Levels(s)
           width == Widths(s)
<1>1. n \in Nat \ {0} /\ DOMAIN s = 1..n
  BY ListFacts
<1>2. level[0] = [i \in 1..n |-> Leaf(s[i])] /\ \A k \in 1..n : level[k] = PairUp(level[k - 1])
  BY <1>1, LevelsDefined
<1>3. width[0] = n /\ \A k \in 1..n : width[k] = (width[k - 1] + 1) \div 2
  BY <1>1, WidthsDefined
<1> HIDE DEF n, level, width
<1> DEFINE T == {k \in 0..n : Row(level[k], width[k]) /\ (width[k] = 1 \/ width[k] <= n - k)}
<1>4. 0 \in T
  <2>1. level[0] = [i \in 1..n |-> level[0][i]]
    BY <1>2
  <2>2. Row(level[0], n)
    BY <1>1, <2>1, RowOf
  <2> QED
    BY <1>1, <1>3, <2>2, SMT
<1>5. ASSUME NEW k \in 0..(n - 1), k \in T PROVE k + 1 \in T
  <2>1. k + 1 \in 1..n /\ (k + 1) - 1 = k /\ k \in Nat /\ k + 1 \in 0..n
    BY <1>1, SMT
  <2>2. level[k + 1] = PairUp(level[k]) /\ width[k + 1] = (width[k] + 1) \div 2
    BY <1>2, <1>3, <2>1
  <2>3. Row(level[k], width[k]) /\ (width[k] = 1 \/ width[k] <= n - k)
    BY <1>5
  <2>4. /\ Row(level[k + 1], width[k + 1]) /\ width[k + 1] <= width[k]
        /\ width[k] # 1 => width[k + 1] < width[k]
    BY <2>2, <2>3, PairUpFacts, SMT
  <2>5. width[k] \in Nat \ {0} /\ width[k + 1] \in Nat \ {0}
    BY <2>3, <2>4 DEF Row
  <2>6. width[k + 1] = 1 \/ width[k + 1] <= n - (k + 1)
    BY <1>1, <2>1, <2>3, <2>4, <2>5, SMT
  <2> QED
    BY <2>1, <2>4, <2>6
<1>6. 0..n \subseteq T
  <2> HIDE DEF T
  <2> QED
    BY <1>1, <1>4, <1>5, IntervalInduction
<1> QED
  BY <1>6 DEF n, level, width

(* The root is the only node of the last level.                             *)
LEMMA HeightFacts ==
  ASSUME NEW s \in Lists
  PROVE  Height(s) \in 1..Len(s) /\ Widths(s)[Height(s)] = 1
<1> DEFINE n == Len(s)
           width == Widths(s)
           tops == {k \in 1..n : width[k] = 1}
<1>1. n \in Nat \ {0}
  BY ListFacts
<1>2. width[0] = n /\ \A k \in 1..n : width[k] = (width[k - 1] + 1) \div 2
  BY <1>1, WidthsDefined
<1>3. \A k \in 0..n : width[k] \in Nat \ {0} /\ (width[k] = 1 \/ width[k] <= n - k)
  BY LevelRows DEF Row
<1> HIDE DEF n, width
<1>4. n \in tops
  <2>1. n \in 0..n /\ n \in 1..n
    BY <1>1, SMT
  <2>2. width[n] = 1
    BY <1>1, <1>3, <2>1, SMT
  <2> QED
    BY <2>1, <2>2
<1>5. PICK k \in tops : \A j \in tops : k <= j
  <2>1. tops \subseteq Nat /\ tops # {}
    BY <1>1, <1>4, SMT
  <2> HIDE DEF tops
  <2> QED
    BY <2>1, LeastNatural
<1>6. k \in 1..n /\ width[k] = 1 /\ (k = 1 \/ width[k - 1] # 1)
  BY <1>1, <1>5, SMT
<1>7. Height(s) = CHOOSE j \in 1..n : width[j] = 1 /\ (j = 1 \/ width[j - 1] # 1)
  BY DEF Height, n, width
<1>8. Height(s) \in 1..n /\ width[Height(s)] = 1
  BY <1>6, <1>7
<1> QED
  BY <1>8 DEF n, width

-----------------------------------------------------------------------------
(* What a root says of the list.                                            *)

(* Equal hashes were computed from equal things.                            *)
LEMMA HashesTell ==
  /\ \A a, b, c, d : Node(a, b) = Node(c, d) => a = c /\ b = d
  /\ \A a, b, c : Leaf(c) # Node(a, b)
  /\ \A c, d : Leaf(c) = Leaf(d) => c = d
  /\ \A a, b : Node(a, b).left = a /\ Node(a, b).right = b
<1>1. ASSUME NEW a, NEW b PROVE Node(a, b).left = a /\ Node(a, b).right = b
  BY DEF Node
<1>2. ASSUME NEW a, NEW b, NEW c PROVE Leaf(c) # Node(a, b)
  <2>1. DOMAIN Leaf(c) = {"leaf"} /\ DOMAIN Node(a, b) = {"left", "right"}
    BY DEF Leaf, Node
  <2> QED
    BY <2>1
<1>3. ASSUME NEW c, NEW d, Leaf(c) = Leaf(d) PROVE c = d
  <2>1. Leaf(c).leaf = c /\ Leaf(d).leaf = d
    BY DEF Leaf
  <2> QED
    BY <1>3, <2>1
<1>4. ASSUME NEW a, NEW b, NEW c, NEW d, Node(a, b) = Node(c, d) PROVE a = c /\ b = d
  BY <1>1, <1>4, SMT
<1> QED
  BY <1>1, <1>2, <1>3, <1>4

(* A hash at the same place of two levels is the same if the nodes above    *)
(* are.                                                                     *)
LEMMA BelowSameNode ==
  ASSUME NEW a, NEW n, Row(a, n), NEW b, NEW m, Row(b, m), NEW i \in 1..n, i \in 1..m,
         PairUp(a)[(i + 1) \div 2] = PairUp(b)[(i + 1) \div 2]
  PROVE  a[i] = b[i]
<1> DEFINE j == (i + 1) \div 2
           Right(l, k) == IF 2 * j > k THEN l[k] ELSE l[2 * j]
<1>1. n \in Nat \ {0} /\ m \in Nat \ {0} /\ i \in Nat \ {0}
  BY SMT DEF Row
<1>2. /\ j \in 1..((n + 1) \div 2) /\ j \in 1..((m + 1) \div 2)
      /\ i = 2 * j - 1 \/ (i = 2 * j /\ ~(2 * j > n) /\ ~(2 * j > m))
  BY <1>1, SMT
<1> HIDE DEF j
<1>3. PairUp(a)[j] = Node(a[2 * j - 1], Right(a, n)) /\ PairUp(b)[j] = Node(b[2 * j - 1], Right(b, m))
  <2>1. j \in 1..((n + 1) \div 2) /\ j \in 1..((m + 1) \div 2)
    BY <1>2
  <2>2. PairUp(a)[j] = Node(a[2 * j - 1], Right(a, n))
    BY <2>1, PairUpFacts
  <2>3. PairUp(b)[j] = Node(b[2 * j - 1], Right(b, m))
    BY <2>1, PairUpFacts
  <2> QED
    BY <2>2, <2>3
<1>4. PairUp(a)[j] = PairUp(b)[j]
  BY DEF j
<1> HIDE DEF Right
<1>5. a[2 * j - 1] = b[2 * j - 1] /\ Right(a, n) = Right(b, m)
  <2>1. Node(a[2 * j - 1], Right(a, n)) = Node(b[2 * j - 1], Right(b, m))
    BY <1>3, <1>4
  <2> QED
    BY <2>1, HashesTell, SMT
<1> QED
  BY <1>2, <1>5 DEF Right

(* The hashes of a level.                                                   *)
Hashes(l, n) == {l[i] : i \in 1..n}

(* A level has no hash the other lacks if the levels above are so.          *)
LEMMA BelowHashes ==
  ASSUME NEW a, NEW n, Row(a, n), NEW b, NEW m, Row(b, m),
         Hashes(PairUp(a), (n + 1) \div 2) \subseteq Hashes(PairUp(b), (m + 1) \div 2)
  PROVE  Hashes(a, n) \subseteq Hashes(b, m)
<1> SUFFICES ASSUME NEW i \in 1..n PROVE a[i] \in Hashes(b, m)
  BY DEF Hashes
<1> DEFINE j == (i + 1) \div 2
           Right(l, k, h) == IF 2 * h > k THEN l[k] ELSE l[2 * h]
<1>1. n \in Nat \ {0} /\ m \in Nat \ {0} /\ i \in Nat \ {0}
  BY SMT DEF Row
<1>2. j \in 1..((n + 1) \div 2) /\ (i = 2 * j - 1 \/ (i = 2 * j /\ ~(2 * j > n)))
  BY <1>1, SMT
<1> HIDE DEF j
<1>3. PICK h \in 1..((m + 1) \div 2) : PairUp(a)[j] = PairUp(b)[h]
  BY <1>2 DEF Hashes
<1>4. /\ PairUp(a)[j] = Node(a[2 * j - 1], Right(a, n, j))
      /\ PairUp(b)[h] = Node(b[2 * h - 1], Right(b, m, h))
      /\ 2 * h - 1 \in 1..m
  BY <1>2, PairUpFacts
<1> HIDE DEF Right
<1>5. a[2 * j - 1] = b[2 * h - 1] /\ Right(a, n, j) = Right(b, m, h)
  <2>1. Node(a[2 * j - 1], Right(a, n, j)) = Node(b[2 * h - 1], Right(b, m, h))
    BY <1>3, <1>4
  <2> QED
    BY <2>1, HashesTell, SMT
<1>6. b[2 * h - 1] \in Hashes(b, m)
  BY <1>4 DEF Hashes
<1>7. Right(b, m, h) \in Hashes(b, m)
  <2>1. m \in 1..m /\ (~(2 * h > m) => 2 * h \in 1..m)
    BY <1>1, <1>3, SMT
  <2> QED
    BY <2>1 DEF Right, Hashes
<1> QED
  BY <1>2, <1>5, <1>6, <1>7 DEF Right

(* Two levels of which one begins like the other and neither has a hash the *)
(* other lacks.                                                             *)
Alike(a, n, b, m) ==
  /\ \A i \in 1..n : i \in 1..m => a[i] = b[i]
  /\ Hashes(a, n) = Hashes(b, m)

(* Levels alike come of levels alike.                                       *)
LEMMA BelowAlike ==
  ASSUME NEW a, NEW n, Row(a, n), NEW b, NEW m, Row(b, m),
         Alike(PairUp(a), (n + 1) \div 2, PairUp(b), (m + 1) \div 2)
  PROVE  Alike(a, n, b, m)
<1>1. Hashes(a, n) = Hashes(b, m)
  <2>1. Hashes(PairUp(a), (n + 1) \div 2) = Hashes(PairUp(b), (m + 1) \div 2)
    BY DEF Alike
  <2>2. Hashes(a, n) \subseteq Hashes(b, m)
    BY <2>1, BelowHashes
  <2>3. Hashes(b, m) \subseteq Hashes(a, n)
    BY <2>1, BelowHashes
  <2> QED
    BY <2>2, <2>3
<1>2. ASSUME NEW i \in 1..n, i \in 1..m PROVE a[i] = b[i]
  <2>1. (i + 1) \div 2 \in 1..((n + 1) \div 2) /\ (i + 1) \div 2 \in 1..((m + 1) \div 2)
    BY <1>2, SMT DEF Row
  <2>2. PairUp(a)[(i + 1) \div 2] = PairUp(b)[(i + 1) \div 2]
    BY <2>1 DEF Alike
  <2> QED
    BY <1>2, <2>2, BelowSameNode, SMT
<1> QED
  BY <1>1, <1>2 DEF Alike

(* A level above the leaves has nodes only.                                 *)
LEMMA NodesAboveLeaves ==
  ASSUME NEW s \in Lists, NEW k \in 1..Len(s), NEW i \in 1..Widths(s)[k]
  PROVE  \E l, r : Levels(s)[k][i] = Node(l, r)
<1>1. k - 1 \in 0..Len(s) /\ Len(s) \in Nat
  BY ListFacts, SMT
<1>2. Levels(s)[k] = PairUp(Levels(s)[k - 1]) /\ Widths(s)[k] = (Widths(s)[k - 1] + 1) \div 2
  BY <1>1, LevelsDefined, WidthsDefined
<1>3. Row(Levels(s)[k - 1], Widths(s)[k - 1])
  BY <1>1, LevelRows
<1> DEFINE l == Levels(s)[k - 1]
           n == Widths(s)[k - 1]
<1>a. Row(l, n) /\ i \in 1..((n + 1) \div 2)
  BY <1>2, <1>3
<1> HIDE DEF l, n
<1>4. PairUp(l)[i] = Node(l[2 * i - 1], IF 2 * i > n THEN l[n] ELSE l[2 * i])
  BY <1>a, PairUpFacts
<1> QED
  BY <1>2, <1>4 DEF l

(* Trees with one root have the same levels from the top down, so their     *)
(* leaves differ by a repeated tail at most.                                *)
LEMMA OneRootAlike ==
  ASSUME NEW s \in Lists, NEW t \in Lists, BuildTree(s) = BuildTree(t),
         Height(s) <= Height(t)
  PROVE  Alike(s, Len(s), t, Len(t))
<1> DEFINE hs == Height(s)
           ht == Height(t)
           a == Levels(s)
           b == Levels(t)
           v == Widths(s)
           w == Widths(t)
           n == Len(s)
           m == Len(t)
<1>1. /\ n \in Nat \ {0} /\ m \in Nat \ {0} /\ DOMAIN s = 1..n /\ DOMAIN t = 1..m
      /\ hs \in 1..n /\ ht \in 1..m /\ v[hs] = 1 /\ w[ht] = 1 /\ hs <= ht
      /\ a[hs][1] = b[ht][1]
  BY ListFacts, HeightFacts DEF BuildTree
<1>2. /\ a[0] = [i \in 1..n |-> Leaf(s[i])] /\ v[0] = n
      /\ b[0] = [i \in 1..m |-> Leaf(t[i])] /\ w[0] = m
  BY <1>1, LevelsDefined, WidthsDefined
<1>3. /\ \A k \in 1..n : a[k] = PairUp(a[k - 1]) /\ v[k] = (v[k - 1] + 1) \div 2
      /\ \A k \in 1..m : b[k] = PairUp(b[k - 1]) /\ w[k] = (w[k - 1] + 1) \div 2
  <2>1. /\ \A k \in 1..n : a[k] = PairUp(a[k - 1])
        /\ \A k \in 1..m : b[k] = PairUp(b[k - 1])
    BY <1>1, LevelsDefined
  <2>2. /\ \A k \in 1..n : v[k] = (v[k - 1] + 1) \div 2
        /\ \A k \in 1..m : w[k] = (w[k - 1] + 1) \div 2
    BY <1>1, WidthsDefined
  <2> HIDE DEF a, b, v, w, n, m
  <2> QED
    BY <2>1, <2>2
<1>4. (\A k \in 0..n : Row(a[k], v[k])) /\ (\A k \in 0..m : Row(b[k], w[k]))
  BY LevelRows
<1>5. \A k \in 1..m : \A i \in 1..w[k] : \E l, r : b[k][i] = Node(l, r)
  BY NodesAboveLeaves
<1> HIDE DEF hs, ht, a, b, v, w, n, m
<1> DEFINE T == {j \in 0..hs : Alike(a[hs - j], v[hs - j], b[ht - j], w[ht - j])}
<1>6. 0 \in T
  <2>1. hs - 0 = hs /\ ht - 0 = ht /\ 0 \in 0..hs /\ \A i \in 1..1 : i = 1
    BY <1>1, SMT
  <2>2. Alike(a[hs], 1, b[ht], 1)
    BY <1>1, <2>1 DEF Alike, Hashes
  <2> QED
    BY <1>1, <2>1, <2>2
<1>7. ASSUME NEW j \in 0..(hs - 1), j \in T PROVE j + 1 \in T
  <2> DEFINE p == hs - (j + 1)
             q == ht - (j + 1)
  <2>1. /\ hs - j \in 1..n /\ ht - j \in 1..m /\ (hs - j) - 1 = p /\ (ht - j) - 1 = q
        /\ p \in 0..n /\ q \in 0..m /\ j + 1 \in 0..hs
    <3>1. hs \in 1..n /\ ht \in 1..m /\ hs <= ht /\ n \in Nat /\ m \in Nat
      BY <1>1
    <3> QED
      BY <3>1, SMT
  <2> HIDE DEF p, q
  <2>2. /\ a[hs - j] = PairUp(a[p]) /\ v[hs - j] = (v[p] + 1) \div 2
        /\ b[ht - j] = PairUp(b[q]) /\ w[ht - j] = (w[q] + 1) \div 2
    BY <1>3, <2>1
  <2>3. Alike(PairUp(a[p]), (v[p] + 1) \div 2, PairUp(b[q]), (w[q] + 1) \div 2)
    BY <1>7, <2>2
  <2>4. Alike(a[p], v[p], b[q], w[q])
    BY <1>4, <2>1, <2>3, BelowAlike
  <2> QED
    BY <2>1, <2>4 DEF p, q
<1>8. hs \in T
  <2>1. 0..hs \subseteq T
    <3>1. hs \in Nat
      BY <1>1, SMT
    <3> HIDE DEF T
    <3> QED
      BY <1>6, <1>7, <3>1, IntervalInduction
  <2> QED
    BY <1>1, <2>1, SMT
<1>9. Alike(a[0], n, b[ht - hs], w[ht - hs])
  <2>1. hs - hs = 0
    BY <1>1, SMT
  <2> QED
    BY <1>2, <1>8, <2>1
<1>10. ht = hs
  <2> SUFFICES ASSUME ht # hs PROVE FALSE
    OBVIOUS
  <2> DEFINE q == ht - hs
  <2>1. q \in 1..m /\ q \in 0..m
    BY <1>1, SMT
  <2> HIDE DEF q
  <2>2. 1 \in 1..w[q] /\ 1 \in 1..n
    <3>1. Row(b[q], w[q])
      BY <1>4, <2>1
    <3>2. w[q] \in Nat \ {0}
      BY <3>1 DEF Row
    <3> QED
      BY <1>1, <3>2, SMT
  <2>3. a[0][1] = b[q][1]
    BY <1>9, <2>2 DEF Alike, q
  <2>4. a[0][1] = Leaf(s[1])
    BY <1>2, <2>2
  <2>5. PICK l, r : b[q][1] = Node(l, r)
    BY <1>5, <2>1, <2>2
  <2>6. Leaf(s[1]) = Node(l, r)
    BY <2>3, <2>4, <2>5
  <2> QED
    BY <2>6, HashesTell
<1>11. Alike(a[0], n, b[0], m)
  <2>1. ht - hs = 0
    BY <1>1, <1>10, SMT
  <2> QED
    BY <1>2, <1>9, <2>1
<1>12. (\A i \in 1..n : a[0][i] = Leaf(s[i])) /\ (\A i \in 1..m : b[0][i] = Leaf(t[i]))
  BY <1>2
<1>13. \A i \in 1..n : i \in 1..m => s[i] = t[i]
  BY <1>11, <1>12, HashesTell, SMT DEF Alike
<1>14. (\A i \in 1..n : \E k \in 1..m : s[i] = t[k]) /\ (\A k \in 1..m : \E i \in 1..n : t[k] = s[i])
  <2>1. ASSUME NEW i \in 1..n PROVE \E k \in 1..m : s[i] = t[k]
    <3>1. PICK k \in 1..m : a[0][i] = b[0][k]
      BY <1>11 DEF Alike, Hashes
    <3> QED
      BY <1>12, <3>1, HashesTell, SMT
  <2>2. ASSUME NEW k \in 1..m PROVE \E i \in 1..n : t[k] = s[i]
    <3>1. PICK i \in 1..n : a[0][i] = b[0][k]
      BY <1>11 DEF Alike, Hashes
    <3> QED
      BY <1>12, <3>1, HashesTell, SMT
  <2> QED
    BY <2>1, <2>2
<1>15. Hashes(s, n) = Hashes(t, m)
  BY <1>14, SMT DEF Hashes
<1> QED
  BY <1>13, <1>15 DEF Alike, n, m

(* So VerifyFileIntegrity accepts lists that differ by a repeated tail only. *)
LEMMA SameRoot ==
  ASSUME NEW s \in Lists, NEW t \in Lists, BuildTree(s) = BuildTree(t)
  PROVE  /\ Len(s) = Len(t) => s = t
         /\ ToSet(s) = ToSet(t) /\ (IsPrefix(s, t) \/ IsPrefix(t, s))
<1>1. Alike(s, Len(s), t, Len(t))
  <2>1. Height(s) \in Int /\ Height(t) \in Int
    BY HeightFacts, ListFacts, SMT
  <2>2. CASE Height(s) <= Height(t)
    BY <2>2, OneRootAlike
  <2>3. CASE Height(t) <= Height(s)
    <3>1. Alike(t, Len(t), s, Len(s))
      BY <2>3, OneRootAlike
    <3> QED
      BY <3>1 DEF Alike
  <2> QED
    BY <2>1, <2>2, <2>3, SMT
<1>2. /\ s \in Seq(MkCids) /\ Len(s) \in Nat \ {0} /\ DOMAIN s = 1..Len(s)
      /\ t \in Seq(MkCids) /\ Len(t) \in Nat \ {0} /\ DOMAIN t = 1..Len(t)
  BY ListFacts
<1>3. ToSet(s) = ToSet(t)
  BY <1>1, <1>2 DEF Alike, Hashes, ToSet
<1>4. Len(s) = Len(t) => s = t
  BY <1>1, <1>2, SMT DEF Alike
<1>5. IsPrefix(s, t) \/ IsPrefix(t, s)
  <2>1. Len(s) <= Len(t) => SubSeq(s, 1, Len(s)) = SubSeq(t, 1, Len(s))
    BY <1>1, <1>2, SMT DEF Alike
  <2>2. Len(t) <= Len(s) => SubSeq(t, 1, Len(t)) = SubSeq(s, 1, Len(t))
    BY <1>1, <1>2, SMT DEF Alike
  <2> QED
    BY <1>2, <2>1, <2>2, SMT DEF IsPrefix
<1> QED
  BY <1>3, <1>4, <1>5

-----------------------------------------------------------------------------
(* Inclusion proofs.                                                        *)

(* The loop of VerifyProof, turn by turn.                                   *)
LEMMA ReplayTurns ==
  ASSUME NEW cid, NEW path, NEW n \in Nat, Len(path) = n
  PROVE  \E h : /\ Replay(cid, path) = h[n] /\ h[0] = Leaf(cid)
                /\ \A k \in 1..n : h[k] = Node(h[k - 1], path[k])
<1> DEFINE base == Leaf(cid)
           T == {k \in Nat : \E g : g = [i \in 0..k |-> IF i = 0 THEN base ELSE Node(g[i - 1], path[i])]}
<1> HIDE DEF base
<1>1. 0 \in T
  <2> DEFINE g == [i \in 0..0 |-> base]
  <2>1. g = [i \in 0..0 |-> IF i = 0 THEN base ELSE Node(g[i - 1], path[i])]
    BY SMT
  <2> QED
    BY <2>1
<1>2. ASSUME NEW k \in Nat, k \in T PROVE k + 1 \in T
  <2>1. PICK g : g = [i \in 0..k |-> IF i = 0 THEN base ELSE Node(g[i - 1], path[i])]
    BY <1>2
  <2> DEFINE h == [i \in 0..(k + 1) |-> IF i = 0 THEN base ELSE Node(g[i - 1], path[i])]
  <2>2. \A i \in 0..k : g[i] = IF i = 0 THEN base ELSE Node(g[i - 1], path[i])
    BY <2>1
  <2>3. \A i \in 0..k : h[i] = g[i]
    BY <2>2, SMT
  <2>4. ASSUME NEW i \in 0..(k + 1), i # 0 PROVE h[i - 1] = g[i - 1]
    <3>1. i - 1 \in 0..k
      BY <2>4, SMT
    <3> QED
      BY <2>3, <3>1
  <2>5. h = [i \in 0..(k + 1) |-> IF i = 0 THEN base ELSE Node(h[i - 1], path[i])]
    BY <2>4
  <2> HIDE DEF h
  <2> QED
    BY <2>5, SMT
<1>3. Nat \subseteq T
  <2> HIDE DEF T
  <2> QED
    BY <1>1, <1>2, NatSetInduction
<1> DEFINE f == CHOOSE g : g = [i \in 0..n |-> IF i = 0 THEN base ELSE Node(g[i - 1], path[i])]
<1>4. Replay(cid, path) = f[n]
  BY DEF Replay, base
<1>5. f = [i \in 0..n |-> IF i = 0 THEN base ELSE Node(f[i - 1], path[i])]
  <2>1. \E g : g = [i \in 0..n |-> IF i = 0 THEN base ELSE Node(g[i - 1], path[i])]
    BY <1>3
  <2> QED
    BY <2>1
<1> HIDE DEF f
<1>6. f[0] = base /\ \A k \in 1..n : f[k] = Node(f[k - 1], path[k])
  BY <1>5, SMT
<1> QED
  BY <1>4, <1>6 DEF base

(* The left end of every level, up to the root.                             *)
LEMMA LeftEnd ==
  ASSUME NEW s \in Lists
  PROVE  /\ Levels(s)[0][1] = Leaf(s[1])
         /\ \A k \in 1..Len(s) :
              \E r : Levels(s)[k][1] = Node(Levels(s)[k - 1][1], r)
<1>1. Len(s) \in Nat \ {0} /\ DOMAIN s = 1..Len(s)
  BY ListFacts
<1>2. Levels(s)[0][1] = Leaf(s[1])
  <2>1. Levels(s)[0] = [i \in 1..Len(s) |-> Leaf(s[i])]
    BY <1>1, LevelsDefined
  <2>2. 1 \in 1..Len(s)
    BY <1>1, SMT
  <2> QED
    BY <2>1, <2>2
<1>3. ASSUME NEW k \in 1..Len(s) PROVE \E r : Levels(s)[k][1] = Node(Levels(s)[k - 1][1], r)
  <2> DEFINE l == Levels(s)[k - 1]
             n == Widths(s)[k - 1]
  <2>1. k - 1 \in 0..Len(s)
    BY <1>1, SMT
  <2>2. Row(l, n) /\ Levels(s)[k] = PairUp(l)
    BY <1>1, <2>1, LevelRows, LevelsDefined
  <2> HIDE DEF l, n
  <2>3. 1 \in 1..((n + 1) \div 2)
    BY <2>2, SMT DEF Row
  <2>4. PairUp(l)[1] = Node(l[2 * 1 - 1], IF 2 * 1 > n THEN l[n] ELSE l[2 * 1])
    <3>1. \A i \in 1..((n + 1) \div 2) :
            PairUp(l)[i] = Node(l[2 * i - 1], IF 2 * i > n THEN l[n] ELSE l[2 * i])
      BY <2>2, PairUpFacts
    <3> QED
      BY <2>3, <3>1
  <2>5. 2 * 1 - 1 = 1
    BY SMT
  <2> QED
    BY <2>2, <2>4, <2>5 DEF l
<1> QED
  BY <1>2, <1>3

(* VerifyProof puts every sibling on the right, so whatever the path it     *)
(* accepts the CID of the leftmost leaf and no other.                       *)
LEMMA AcceptsOnlyFirst ==
  ASSUME NEW s \in Lists, NEW cid, NEW path, Len(path) \in Nat,
         Replay(cid, path) = BuildTree(s)
  PROVE  cid = s[1]
<1> DEFINE n == Len(path)
           top == Height(s)
           a == Levels(s)
<1>1. PICK h : /\ Replay(cid, path) = h[n] /\ h[0] = Leaf(cid)
               /\ \A k \in 1..n : h[k] = Node(h[k - 1], path[k])
  BY ReplayTurns, SMT
<1>2. top \in 1..Len(s) /\ Len(s) \in Nat \ {0} /\ n \in Nat
  BY HeightFacts, ListFacts
<1>3. h[n] = a[top][1]
  BY <1>1 DEF BuildTree
<1>4. a[0][1] = Leaf(s[1]) /\ \A k \in 1..Len(s) : \E r : a[k][1] = Node(a[k - 1][1], r)
  BY LeftEnd
<1> HIDE DEF n, top, a
<1> DEFINE small == IF n < top THEN n ELSE top
           T == {j \in 0..small : h[n - j] = a[top - j][1]}
<1>5. 0 \in T
  <2>1. n - 0 = n /\ top - 0 = top /\ 0 \in 0..small
    BY <1>2, SMT
  <2> QED
    BY <1>3, <2>1
<1>6. ASSUME NEW j \in 0..(small - 1), j \in T PROVE j + 1 \in T
  <2>1. /\ n - j \in 1..n /\ top - j \in 1..Len(s) /\ j + 1 \in 0..small
        /\ (n - j) - 1 = n - (j + 1) /\ (top - j) - 1 = top - (j + 1)
    BY <1>2, SMT
  <2>2. h[n - j] = Node(h[n - (j + 1)], path[n - j])
    BY <1>1, <2>1
  <2>3. PICK r : a[top - j][1] = Node(a[top - (j + 1)][1], r)
    BY <1>4, <2>1
  <2>4. h[n - j] = a[top - j][1]
    BY <1>6
  <2>5. Node(h[n - (j + 1)], path[n - j]) = Node(a[top - (j + 1)][1], r)
    BY <2>2, <2>3, <2>4
  <2>6. h[n - (j + 1)] = a[top - (j + 1)][1]
    BY <2>5, HashesTell, SMT
  <2> QED
    BY <2>1, <2>6
<1>7. h[n - small] = a[top - small][1]
  <2>1. small \in Nat
    BY <1>2, SMT
  <2>2. 0..small \subseteq T
    <3> HIDE DEF T, small
    <3> QED
      BY <1>5, <1>6, <2>1, IntervalInduction
  <2> QED
    BY <2>1, <2>2, SMT
<1>8. CASE n = top
  <2>1. n - small = 0 /\ top - small = 0
    BY <1>2, <1>8, SMT
  <2>2. Leaf(cid) = Leaf(s[1])
    BY <1>1, <1>4, <1>7, <2>1
  <2> QED
    BY <2>2, HashesTell
<1>9. CASE n < top
  <2>1. n - small = 0 /\ top - small \in 1..Len(s)
    BY <1>2, <1>9, SMT
  <2>2. PICK r : a[top - small][1] = Node(a[(top - small) - 1][1], r)
    BY <1>4, <2>1
  <2> HIDE DEF small
  <2>3. Leaf(cid) = Node(a[(top - small) - 1][1], r)
    BY <1>1, <1>7, <2>1, <2>2
  <2> QED
    BY <2>3, HashesTell, SMT
<1>10. CASE n > top
  <2>1. top - small = 0 /\ n - small \in 1..n
    BY <1>2, <1>10, SMT
  <2>2. h[n - small] = Node(h[(n - small) - 1], path[n - small])
    BY <1>1, <2>1
  <2> HIDE DEF small
  <2>3. Leaf(s[1]) = Node(h[(n - small) - 1], path[n - small])
    BY <1>4, <1>7, <2>1, <2>2
  <2> QED
    BY <2>3, HashesTell, SMT
<1> QED
  BY <1>2, <1>8, <1>9, <1>10, SMT

(* A path is as long as the tree is high, or empty.                         *)
LEMMA PathLength ==
  ASSUME NEW s \in Lists, NEW cid
  PROVE  Len(MerklePath(s, cid)) \in Nat
<1>1. CASE cid \notin ToSet(s)
  BY <1>1 DEF MerklePath
<1>2. CASE cid \in ToSet(s)
  <2> DEFINE i == CHOOSE i \in DOMAIN s : s[i] = cid /\ \A j \in 1..(i - 1) : s[j] # cid
  <2>1. MerklePath(s, cid) = SiblingsFrom(s, i)
    BY <1>2 DEF MerklePath
  <2>2. Height(s) \in Nat \ {0}
    BY HeightFacts, ListFacts, SMT
  <2> HIDE DEF i
  <2> DEFINE pos == CHOOSE g : g = [n \in 0..Height(s) |-> IF n = 0 THEN i ELSE (g[n - 1] + 1) \div 2]
             Other(n) == LET up == Levels(s)[n][pos[n]]
                         IN  IF up.left = Levels(s)[n - 1][pos[n - 1]] THEN up.right ELSE up.left
             p == [n \in 1..Height(s) |-> Other(n)]
  <2>3. SiblingsFrom(s, i) = p
    BY DEF SiblingsFrom
  <2>4. Row(SiblingsFrom(s, i), Height(s))
    <3> HIDE DEF Other
    <3>1. p = [n \in 1..Height(s) |-> p[n]]
      OBVIOUS
    <3> HIDE DEF p
    <3> QED
      BY <2>2, <2>3, <3>1, RowOf
  <2> QED
    BY <2>1, <2>2, <2>4 DEF Row
<1> QED
  BY <1>1, <1>2

(* The path of the leftmost leaf is all right-hand siblings.                *)
LEMMA PathOfFirst ==
  ASSUME NEW s \in Lists
  PROVE  LET p == MerklePath(s, s[1])
         IN  /\ Len(p) = Height(s)
             /\ \A n \in 1..Height(s) : Levels(s)[n][1] = Node(Levels(s)[n - 1][1], p[n])
<1> DEFINE top == Height(s)
           level == Levels(s)
           i == CHOOSE i \in DOMAIN s : s[i] = s[1] /\ \A j \in 1..(i - 1) : s[j] # s[1]
           pos == CHOOSE g : g = [n \in 0..top |-> IF n = 0 THEN 1 ELSE (g[n - 1] + 1) \div 2]
           Other(n) == LET up == level[n][pos[n]]
                       IN  IF up.left = level[n - 1][pos[n - 1]] THEN up.right ELSE up.left
           p == [n \in 1..top |-> Other(n)]
<1>1. /\ Len(s) \in Nat \ {0} /\ DOMAIN s = 1..Len(s) /\ top \in 1..Len(s) /\ top \in Nat \ {0}
      /\ s \in Seq(MkCids)
  BY HeightFacts, ListFacts, SMT
<1>2. s[1] \in ToSet(s)
  BY <1>1, SMT DEF ToSet
<1>3. i = 1
  <2>1. 1 \in DOMAIN s /\ \A j \in 1..(1 - 1) : s[j] # s[1]
    BY <1>1, SMT
  <2>2. i \in DOMAIN s /\ \A j \in 1..(i - 1) : s[j] # s[1]
    BY <2>1
  <2> HIDE DEF i
  <2>3. i > 1 => 1 \in 1..(i - 1)
    BY <1>1, <2>2, SMT
  <2> QED
    BY <1>1, <2>2, <2>3, SMT
<1>4. MerklePath(s, s[1]) = p
  <2>1. MerklePath(s, s[1]) = SiblingsFrom(s, i)
    BY <1>2 DEF MerklePath
  <2>2. SiblingsFrom(s, 1) = p
    BY DEF SiblingsFrom
  <2> HIDE DEF i
  <2> QED
    BY <1>3, <2>1, <2>2
<1>5. \A n \in 0..top : pos[n] = 1
  <2>1. pos = [n \in 0..top |-> IF n = 0 THEN 1 ELSE (pos[n - 1] + 1) \div 2]
    <3> DEFINE g == [n \in 0..top |-> 1]
    <3> HIDE DEF top
    <3>1. ASSUME NEW n \in 0..top, n # 0 PROVE (g[n - 1] + 1) \div 2 = 1
      <4>1. n - 1 \in 0..top
        BY <1>1, <3>1, SMT
      <4>2. g[n - 1] = 1
        BY <4>1
      <4> QED
        BY <4>2, SMT
    <3>2. g = [n \in 0..top |-> IF n = 0 THEN 1 ELSE (g[n - 1] + 1) \div 2]
      BY <3>1
    <3>3. \E h : h = [n \in 0..top |-> IF n = 0 THEN 1 ELSE (h[n - 1] + 1) \div 2]
      BY <3>2
    <3> QED
      BY <3>3
  <2> HIDE DEF pos, top
  <2> DEFINE T == {n \in 0..top : pos[n] = 1}
  <2>2. 0 \in T
    BY <1>1, <2>1, SMT
  <2>3. ASSUME NEW n \in 0..(top - 1), n \in T PROVE n + 1 \in T
    <3>1. n + 1 \in 0..top /\ n + 1 # 0 /\ (n + 1) - 1 = n
      BY <1>1, SMT
    <3>2. pos[n + 1] = (pos[(n + 1) - 1] + 1) \div 2
      BY <2>1, <3>1
    <3>3. pos[n + 1] = 1
      BY <2>3, <3>1, <3>2, SMT
    <3> QED
      BY <3>1, <3>3
  <2>4. 0..top \subseteq T
    <3> HIDE DEF T
    <3> QED
      BY <1>1, <2>2, <2>3, IntervalInduction
  <2> QED
    BY <2>4
<1>6. ASSUME NEW n \in 1..top PROVE level[n][1] = Node(level[n - 1][1], p[n])
  <2>1. PICK r : level[n][1] = Node(level[n - 1][1], r)
    BY <1>1, LeftEnd, SMT
  <2>2. pos[n] = 1 /\ pos[n - 1] = 1
    BY <1>1, <1>5, SMT
  <2>3. p[n] = Other(n)
    OBVIOUS
  <2> HIDE DEF pos, p, level
  <2>4. level[n][1].left = level[n - 1][1] /\ level[n][1].right = r
    <3>1. Node(level[n - 1][1], r).left = level[n - 1][1] /\ Node(level[n - 1][1], r).right = r
      BY HashesTell
    <3> QED
      BY <2>1, <3>1
  <2>5. p[n] = r
    BY <2>2, <2>3, <2>4
  <2> QED
    BY <2>1, <2>5
<1>7. Len(p) = top
  <2> HIDE DEF Other
  <2>1. p = [n \in 1..top |-> p[n]]
    OBVIOUS
  <2> HIDE DEF p, top
  <2> QED
    BY <1>1, <2>1, RowOf DEF Row
<1> HIDE DEF p, level, top
<1>8. Len(MerklePath(s, s[1])) = top
  BY <1>4, <1>7
<1>9. \A n \in 1..top : level[n][1] = Node(level[n - 1][1], MerklePath(s, s[1])[n])
  BY <1>4, <1>6
<1> QED
  BY <1>8, <1>9 DEF level, top

(* The proof of the leftmost leaf is accepted.                              *)
LEMMA FirstIsAccepted ==
  ASSUME NEW s \in Lists
  PROVE  Replay(s[1], MerklePath(s, s[1])) = BuildTree(s)
<1> DEFINE p == MerklePath(s, s[1])
           top == Height(s)
           a == Levels(s)
<1>1. top \in Nat /\ top \in 1..Len(s) /\ Len(s) \in Nat
  BY HeightFacts, ListFacts, SMT
<1>2. Len(p) = top /\ \A n \in 1..top : a[n][1] = Node(a[n - 1][1], p[n])
  BY PathOfFirst
<1>3. a[0][1] = Leaf(s[1])
  BY LeftEnd
<1>4. BuildTree(s) = a[top][1]
  BY DEF BuildTree
<1> HIDE DEF p, top, a
<1>5. PICK h : /\ Replay(s[1], p) = h[top] /\ h[0] = Leaf(s[1])
               /\ \A k \in 1..top : h[k] = Node(h[k - 1], p[k])
  <2> DEFINE n == Len(p)
  <2>1. n = top /\ n \in Nat
    BY <1>1, <1>2
  <2>2. PICK h : /\ Replay(s[1], p) = h[n] /\ h[0] = Leaf(s[1])
                 /\ \A k \in 1..n : h[k] = Node(h[k - 1], p[k])
    BY <2>1, ReplayTurns, SMT
  <2> HIDE DEF n
  <2> QED
    BY <2>1, <2>2
<1> DEFINE T == {k \in 0..top : h[k] = a[k][1]}
<1>6. 0 \in T
  BY <1>1, <1>3, <1>5, SMT
<1>7. ASSUME NEW k \in 0..(top - 1), k \in T PROVE k + 1 \in T
  <2>1. k + 1 \in 1..top /\ k + 1 \in 0..top /\ (k + 1) - 1 = k
    BY <1>1, SMT
  <2>2. h[k + 1] = Node(h[k], p[k + 1]) /\ a[k + 1][1] = Node(a[k][1], p[k + 1])
    BY <1>2, <1>5, <2>1
  <2>3. h[k] = a[k][1]
    BY <1>7
  <2> QED
    BY <2>1, <2>2, <2>3
<1>8. 0..top \subseteq T
  <2> HIDE DEF T
  <2> QED
    BY <1>1, <1>6, <1>7, IntervalInduction
<1>9. h[top] = a[top][1]
  BY <1>1, <1>8, SMT
<1> QED
  BY <1>4, <1>5, <1>9 DEF p

(* Nothing is cached, proved or judged at first.                            *)
LEMMA MkInitially == MkInit => MkIndInv
BY DEF MkInit, MkIndInv

(* Each operation of the manager keeps the invariant.                       *)
LEMMA MkStep ==
  ASSUME MkIndInv, [MkNext]_mkVars
  PROVE  MkIndInv'
<1>1. ASSUME NEW k \in MkKeys, NEW s \in Lists, BuildAndCache(k, s) PROVE MkIndInv'
  BY <1>1 DEF MkIndInv, BuildAndCache
<1>2. ASSUME NEW k \in MkKeys, NEW s \in Lists, VerifyFileIntegrity(k, s) PROVE MkIndInv'
  <2> DEFINE ok == RootMatches(s, BuildTree(mkCache[k]))
  <2>1. /\ mkVerdict' = [op |-> "integrity", cids |-> s, tree |-> mkCache[k], ok |-> ok]
        /\ mkCache' = mkCache /\ mkProof' = mkProof
    BY <1>2 DEF VerifyFileIntegrity
  <2>2. mkCache[k] \in Lists
    BY <1>2 DEF VerifyFileIntegrity, MkIndInv
  <2>3. mkVerdict'.ok <=> RootMatches(mkVerdict'.cids, BuildTree(mkVerdict'.tree))
    <3> HIDE DEF ok
    <3>1. mkVerdict'.ok = ok /\ mkVerdict'.cids = s /\ mkVerdict'.tree = mkCache[k]
      BY <2>1
    <3> QED
      BY <3>1 DEF ok
  <2> HIDE DEF ok
  <2>4. mkVerdict'.op = "integrity" /\ mkVerdict'.cids \in Lists /\ mkVerdict'.tree \in Lists
    BY <2>1, <2>2
  <2>5. mkVerdict'.op # "proof"
    BY <2>4
  <2> QED
    BY <2>1, <2>3, <2>4, <2>5 DEF MkIndInv
<1>3. ASSUME NEW k \in MkKeys, NEW c \in MkCids, GenerateProof(k, c) PROVE MkIndInv'
  <2> DEFINE path == MerklePath(mkCache[k], c)
  <2>1. /\ mkProof' = [cid |-> c, path |-> path, tree |-> mkCache[k]]
        /\ mkCache' = mkCache /\ mkVerdict' = MkNil
    BY <1>3 DEF GenerateProof, Ready
  <2>2. mkCache[k] \in Lists
    BY <1>3 DEF GenerateProof, MkIndInv
  <2>3. mkProof'.cid = c /\ mkProof'.path = path /\ mkProof'.tree = mkCache[k]
    <3> HIDE DEF path
    <3> QED
      BY <2>1
  <2>4. mkProof'.path = MerklePath(mkProof'.tree, mkProof'.cid)
    BY <2>3
  <2> HIDE DEF path
  <2> QED
    BY <2>1, <2>2, <2>3, <2>4 DEF MkIndInv
<1>4. ASSUME NEW k \in MkKeys, NEW c \in MkCids, VerifyProof(k, c) PROVE MkIndInv'
  <2> DEFINE ok == Replay(c, mkProof.path) = BuildTree(mkCache[k])
  <2>1. /\ mkVerdict' = [op |-> "proof", cid |-> c, tree |-> mkCache[k], ok |-> ok]
        /\ mkCache' = mkCache /\ mkProof' = mkProof /\ mkProof # MkNil
    BY <1>4 DEF VerifyProof
  <2>2. mkCache[k] \in Lists
    BY <1>4 DEF VerifyProof, MkIndInv
  <2>3. mkVerdict'.ok <=> Replay(mkVerdict'.cid, mkProof'.path) = BuildTree(mkVerdict'.tree)
    <3> HIDE DEF ok
    <3>1. mkVerdict'.ok = ok /\ mkVerdict'.cid = c /\ mkVerdict'.tree = mkCache[k]
      BY <2>1
    <3> QED
      BY <2>1, <3>1 DEF ok
  <2> HIDE DEF ok
  <2>4. mkVerdict'.op = "proof" /\ mkVerdict'.cid \in MkCids /\ mkVerdict'.tree \in Lists
    BY <2>1, <2>2
  <2>5. mkVerdict'.op # "integrity"
    BY <2>4
  <2> QED
    BY <2>1, <2>3, <2>4, <2>5 DEF MkIndInv
<1>5. ASSUME NEW k \in MkKeys, RemoveFromCache(k) PROVE MkIndInv'
  BY <1>5 DEF MkIndInv, RemoveFromCache
<1>6. CASE ClearCache
  BY <1>6 DEF MkIndInv, ClearCache
<1>7. CASE MkReturn
  BY <1>7 DEF MkIndInv, MkReturn
<1>8. CASE UNCHANGED mkVars
  BY <1>8 DEF MkIndInv, mkVars
<1> QED
  BY <1>1, <1>2, <1>3, <1>4, <1>5, <1>6, <1>7, <1>8 DEF MkNext

(* The proof kept is a path of its tree, and every verdict is about the     *)
(* tree that was cached when it was asked for and about the proof kept.     *)
THEOREM MerkleInvariant == MkSpec => []MkIndInv
BY MkInitially, MkStep, PTL DEF MkSpec

(* VerifyProof accepts no CID outside the tree it is given, whatever tree   *)
(* and CID the proof was generated for, and it accepts the proof of the     *)
(* tree's first CID.  For lists of every length.                            *)
THEOREM AcceptedProofsAreSound == MkSpec => []ProofVerdict
<1>1. MkIndInv => ProofVerdict
  <2> SUFFICES ASSUME MkIndInv, mkVerdict # MkNil, mkVerdict.op = "proof" PROVE ProofVerdict
    BY DEF ProofVerdict
  <2> DEFINE t == mkVerdict.tree
             c == mkVerdict.cid
             p == mkProof.path
  <2>1. t \in Lists /\ mkProof.tree \in Lists /\ p = MerklePath(mkProof.tree, mkProof.cid)
    BY DEF MkIndInv
  <2>2. mkVerdict.ok <=> Replay(c, p) = BuildTree(t)
    BY DEF MkIndInv
  <2>3. Len(p) \in Nat
    BY <2>1, PathLength
  <2>4. mkVerdict.ok => c = t[1]
    <3> HIDE DEF t, c, p
    <3> QED
      BY <2>1, <2>2, <2>3, AcceptsOnlyFirst
  <2>5. t[1] \in ToSet(t)
    <3> HIDE DEF t
    <3> QED
      BY <2>1, ListFacts, SMT DEF ToSet
  <2>6. ASSUME mkProof.tree = t, mkProof.cid = c, c = t[1] PROVE mkVerdict.ok
    <3> HIDE DEF t, c, p
    <3>1. Replay(t[1], MerklePath(t, t[1])) = BuildTree(t)
      BY <2>1, FirstIsAccepted
    <3>2. p = MerklePath(t, t[1])
      BY <2>1, <2>6
    <3> QED
      BY <2>2, <2>6, <3>1, <3>2
  <2> QED
    BY <2>4, <2>5, <2>6 DEF ProofVerdict, OnOwnProof
<1> QED
  BY <1>1, MerkleInvariant, PTL

(* VerifyFileIntegrity accepts a list of the length of the tree's only if   *)
(* it is the tree's, and another only if it holds the same CIDs.  For lists *)
(* of every length.                                                         *)
THEOREM RootsIdentifyFiles == MkSpec => []RootIdentifiesFile
<1>1. MkIndInv => RootIdentifiesFile
  <2> SUFFICES ASSUME MkIndInv, mkVerdict # MkNil, mkVerdict.op = "integrity"
               PROVE  RootIdentifiesFile
    BY DEF RootIdentifiesFile
  <2> DEFINE s == mkVerdict.cids
             t == mkVerdict.tree
  <2>1. s \in Lists /\ t \in Lists /\ (mkVerdict.ok <=> BuildTree(s) = BuildTree(t))
    BY DEF MkIndInv, RootMatches
  <2>2. mkVerdict.ok => /\ Len(s) = Len(t) => s = t
                        /\ ToSet(s) = ToSet(t)
    <3> HIDE DEF s, t
    <3> QED
      BY <2>1, SameRoot
  <2>3. s = t => mkVerdict.ok
    <3> HIDE DEF s, t
    <3> QED
      BY <2>1
  <2> QED
    BY <2>2, <2>3 DEF RootIdentifiesFile
<1> QED
  BY <1>1, MerkleInvariant, PTL

=============================================================================
