----------------------------- MODULE DiffChain ------------------------------
(* pkg/diff: the bsdiff engine with its special cases for empty data, over  *)
(* a file that goes through any versions, empty ones included.  The bsdiff  *)
(* library is a patch that names the two contents it was made from.         *)
EXTENDS Integers, SequencesExt

CONSTANTS
  DcContents,     \* non-empty contents
  Empty,          \* no bytes
  Corrupt,        \* bspatch reports an error
  DcMaxVersions   \* bound

(* No content is empty, and no patch of the library is.                     *)
ASSUME DcAssumption ==
  /\ Empty \notin DcContents
  /\ \A old, new \in DcContents \cup {Empty} : [from |-> old, to |-> new] # Empty

VARIABLES dcVersion, dcPatches

dcVars == <<dcVersion, dcPatches>>

DcInit == dcVersion = Empty /\ dcPatches = <<>>

BsdiffBytes(old, new) == [from |-> old, to |-> new]

BspatchBytes(base, patch) ==
  IF patch.from = base THEN patch.to ELSE Corrupt

(* Without the case of an empty old version.                                *)
DiffAlways(old, new) ==
  IF old = Empty /\ new = Empty THEN Empty ELSE BsdiffBytes(old, new)

(* The patch of a file that was empty is the new content itself.            *)
ComputeDiff(old, new) == IF old = Empty THEN new ELSE BsdiffBytes(old, new)

ApplyPatch(base, patch) ==
  IF patch = Empty THEN base
  ELSE IF base = Empty THEN patch
  ELSE BspatchBytes(base, patch)

NewVersion(data) ==
  /\ Len(dcPatches) < DcMaxVersions
  /\ dcPatches' = Append(dcPatches, ComputeDiff(dcVersion, data))
  /\ dcVersion' = data

DcNext == \E data \in DcContents \cup {Empty} : NewVersion(data)

DcSpec == DcInit /\ [][DcNext]_dcVars

-----------------------------------------------------------------------------
(* Applying the patches of a file in order to no bytes gives its last       *)
(* version, also when it was emptied and written again on the way: the two  *)
(* special cases for empty data agree with each other.                      *)
ChainReconstructs == FoldLeft(ApplyPatch, Empty, dcPatches) = dcVersion

-----------------------------------------------------------------------------
(* The inductive invariant.                                                 *)
DcVersions == DcContents \cup {Empty}

DcIndInv ==
  /\ dcVersion \in DcVersions
  /\ dcPatches \in Seq(DcVersions \cup [from : DcVersions, to : DcVersions])
  /\ ChainReconstructs
=============================================================================
