------------------------------- MODULE Merkle -------------------------------
(* pkg/merkle: trees over lists of CIDs, cached under a key, their roots    *)
(* and inclusion proofs.  A hash is the term it is computed from, so equal  *)
(* hashes mean equal inputs.  The tree itself is cbergoon/merkletree.       *)
EXTENDS Integers, SequencesExt

CONSTANTS MkKeys, MkCids, MkMaxLen, MkNil

ASSUME MkAssumption == MkMaxLen \in Nat

VARIABLES
  mkCache,    \* treeCache: key -> the list its tree was built from, or MkNil
  mkProof,    \* the last proof generated: its CID, path and tree, or MkNil
  mkVerdict   \* the outcome a verification is about to return, or MkNil

mkVars == <<mkCache, mkProof, mkVerdict>>

MkInit == mkCache = [k \in MkKeys |-> MkNil] /\ mkProof = MkNil /\ mkVerdict = MkNil

Lists == UNION {[1..n -> MkCids] : n \in 1..MkMaxLen}

Leaf(cid) == [leaf |-> cid]
Node(l, r) == [left |-> l, right |-> r]

(* The library's next level up: an odd node is paired with itself.          *)
PairUp(level) ==
  [i \in 1..((Len(level) + 1) \div 2) |->
     Node(level[2 * i - 1], IF 2 * i > Len(level) THEN level[Len(level)] ELSE level[2 * i])]

(* The library's levels, the leaves first.  It builds one level of nodes at *)
(* least and stops at the first with a single node, the root.               *)
Levels(cids) ==
  LET level[n \in 0..Len(cids)] ==
        IF n = 0 THEN [i \in DOMAIN cids |-> Leaf(cids[i])] ELSE PairUp(level[n - 1])
  IN  level

Widths(cids) ==
  LET width[n \in 0..Len(cids)] == IF n = 0 THEN Len(cids) ELSE (width[n - 1] + 1) \div 2
  IN  width

Height(cids) ==
  LET width == Widths(cids)
  IN  CHOOSE n \in 1..Len(cids) : width[n] = 1 /\ (n = 1 \/ width[n - 1] # 1)

(* BuildTree over a non-empty list, and GetRoot of it.                      *)
BuildTree(cids) == Levels(cids)[Height(cids)][1]

(* The library's path from the i-th leaf: the sibling at every level,       *)
(* without the side it is on.                                               *)
SiblingsFrom(cids, i) ==
  LET level == Levels(cids)
      pos[n \in 0..Height(cids)] == IF n = 0 THEN i ELSE (pos[n - 1] + 1) \div 2
  IN  [n \in 1..Height(cids) |->
         LET up == level[n][pos[n]]
         IN  IF up.left = level[n - 1][pos[n - 1]] THEN up.right ELSE up.left]

(* GetMerklePath: of the first leaf with the CID, or empty if there is none.*)
MerklePath(cids, cid) ==
  IF cid \notin ToSet(cids) THEN <<>>
  ELSE SiblingsFrom(cids, CHOOSE i \in DOMAIN cids :
                            cids[i] = cid /\ \A j \in 1..(i - 1) : cids[j] # cid)

-----------------------------------------------------------------------------
(* One caller at a time: the cache has no lock.                             *)
Ready == mkVerdict = MkNil

BuildAndCache(k, cids) ==
  /\ Ready
  /\ mkCache' = [mkCache EXCEPT ![k] = cids]
  /\ UNCHANGED <<mkProof, mkVerdict>>

ClearCache ==
  /\ Ready
  /\ mkCache' = [k \in MkKeys |-> MkNil]
  /\ UNCHANGED <<mkProof, mkVerdict>>

RemoveFromCache(k) ==
  /\ Ready
  /\ mkCache' = [mkCache EXCEPT ![k] = MkNil]
  /\ UNCHANGED <<mkProof, mkVerdict>>

GenerateProof(k, cid) ==
  /\ Ready /\ mkCache[k] # MkNil
  /\ mkProof' = [cid |-> cid, path |-> MerklePath(mkCache[k], cid), tree |-> mkCache[k]]
  /\ UNCHANGED <<mkCache, mkVerdict>>

(* A recomputation that starts from the proof's elements alone.             *)
ReplayPathOnly(cid, path) ==
  IF path = <<>> THEN Leaf(cid) ELSE FoldLeft(Node, path[1], Tail(path))

(* VerifyProof recomputes the root with the current hash always on the left.*)
Replay(cid, path) ==
  LET hash[n \in 0..Len(path)] == IF n = 0 THEN Leaf(cid) ELSE Node(hash[n - 1], path[n])
  IN  hash[Len(path)]

(* The tree verified against may have been replaced since the proof.        *)
VerifyProof(k, cid) ==
  /\ Ready /\ mkCache[k] # MkNil /\ mkProof # MkNil
  /\ mkVerdict' = [op |-> "proof", cid |-> cid, tree |-> mkCache[k],
                   ok |-> Replay(cid, mkProof.path) = BuildTree(mkCache[k])]
  /\ UNCHANGED <<mkCache, mkProof>>

(* An integrity check that compares the root with its own tree's.           *)
AnyRootMatches(cids, expectedRoot) == BuildTree(cids) = BuildTree(cids)

RootMatches(cids, expectedRoot) == BuildTree(cids) = expectedRoot

(* A file's current CIDs against the root kept from an earlier tree.        *)
VerifyFileIntegrity(k, cids) ==
  /\ Ready /\ mkCache[k] # MkNil
  /\ mkVerdict' = [op |-> "integrity", cids |-> cids, tree |-> mkCache[k],
                   ok |-> RootMatches(cids, BuildTree(mkCache[k]))]
  /\ UNCHANGED <<mkCache, mkProof>>

MkReturn ==
  /\ ~Ready /\ mkVerdict' = MkNil
  /\ UNCHANGED <<mkCache, mkProof>>

MkNext ==
  \/ \E k \in MkKeys, s \in Lists : BuildAndCache(k, s) \/ VerifyFileIntegrity(k, s)
  \/ \E k \in MkKeys, c \in MkCids : GenerateProof(k, c) \/ VerifyProof(k, c)
  \/ \E k \in MkKeys : RemoveFromCache(k)
  \/ ClearCache \/ MkReturn

MkSpec == MkInit /\ [][MkNext]_mkVars

-----------------------------------------------------------------------------
(* The verdict is on the proof generated for this CID from this very tree.  *)
OnOwnProof == mkProof.tree = mkVerdict.tree /\ mkProof.cid = mkVerdict.cid

(* VerifyProof never accepts a CID that is not in the tree it is asked      *)
(* about, with a stale proof and another CID's proof included, although it  *)
(* forgets on which side each sibling was; and it accepts the proof of the  *)
(* tree's first CID.                                                        *)
ProofVerdict ==
  mkVerdict # MkNil /\ mkVerdict.op = "proof" =>
    /\ mkVerdict.ok => mkVerdict.cid \in ToSet(mkVerdict.tree)
    /\ OnOwnProof /\ mkVerdict.cid = mkVerdict.tree[1] => mkVerdict.ok

(* tree.go: GenerateProof makes "a Merkle proof for a specific CID in the   *)
(* tree", VerifyProof "verifies a Merkle proof for a specific content": the *)
(* proof of every CID in a tree is accepted for that CID and that tree.     *)
GeneratedProofsVerify ==
  mkVerdict # MkNil /\ mkVerdict.op = "proof" =>
    (OnOwnProof /\ mkVerdict.cid \in ToSet(mkVerdict.tree) => mkVerdict.ok)

(* VerifyFileIntegrity accepts the file it has the root of, no other list   *)
(* of as many CIDs, and no list in which a CID is foreign or missing.       *)
RootIdentifiesFile ==
  mkVerdict # MkNil /\ mkVerdict.op = "integrity" =>
    LET s == mkVerdict.cids
        t == mkVerdict.tree
    IN  /\ Len(s) = Len(t) => (mkVerdict.ok <=> s = t)
        /\ mkVerdict.ok => ToSet(s) = ToSet(t)

(* tree_test.go: VerifyFileIntegrity "should fail with different CIDs".     *)
DifferentCIDsRefused ==
  mkVerdict # MkNil /\ mkVerdict.op = "integrity" =>
    (mkVerdict.ok => mkVerdict.cids = mkVerdict.tree)

-----------------------------------------------------------------------------
(* The inductive invariant: what is cached was built, the last proof is the *)
(* path of its tree, and a verdict is of the cached tree and that proof.    *)
MkIndInv ==
  /\ mkCache \in [MkKeys -> Lists \cup {MkNil}]
  /\ mkProof # MkNil =>
       /\ mkProof.cid \in MkCids /\ mkProof.tree \in Lists
       /\ mkProof.path = MerklePath(mkProof.tree, mkProof.cid)
  /\ mkVerdict # MkNil =>
       /\ mkVerdict.tree \in Lists
       /\ mkVerdict.op = "proof" =>
            /\ mkProof # MkNil /\ mkVerdict.cid \in MkCids
            /\ mkVerdict.ok <=> Replay(mkVerdict.cid, mkProof.path) = BuildTree(mkVerdict.tree)
       /\ mkVerdict.op = "integrity" =>
            /\ mkVerdict.cids \in Lists
            /\ mkVerdict.ok <=> RootMatches(mkVerdict.cids, BuildTree(mkVerdict.tree))
=============================================================================
