------------------------------ MODULE CASStore ------------------------------
(***************************************************************************)
(* The content-addressed store as a component of its own: objects under     *)
(* "c:<cid>", reference counts under "m:ref:<cid>", the garbage collector   *)
(* and the statistics.  One caller uses it, in any order of calls; it may   *)
(* be stopped in the middle of a collection.  Every write is synced.        *)
(***************************************************************************)
EXTENDS Integers, FiniteSets

CONSTANTS
  Contents,  \* data that is stored
  Files,     \* file paths that refer to objects
  HashAlgo,  \* the algorithm of computeCID
  CsNil      \* "no such key"

(* computeCID names data by the multihash of HashAlgo, PutChunkWithHash by  *)
(* the hexadecimal SHA-256: one store may hold the same data under both.    *)
Supported == {"sha256", "blake3"}
ComputeCID(d) == <<HashAlgo, d>>
ChunkCID(d) == <<"hex", d>>
CIDs == {ComputeCID(d) : d \in Contents} \cup {ChunkCID(d) : d \in Contents}

Compress(d) == <<"DKZ1", d>>

CASRefCount == [n : Nat, files : SUBSET Files]

ASSUME CsNilAssumption == CsNil \notin CASRefCount \cup {Compress(d) : d \in Contents}

VARIABLES
  objects,  \* the value under "c:<cid>"
  refs,     \* the CASRefCount under "m:ref:<cid>"
  gc,       \* GarbageCollect: "idle" | "running", or how it ended just now, "ok" | "error"
  iter,     \* the CIDs it has still to visit
  deleted,  \* those it has deleted: it returns their number
  foretold  \* history: those GetStats would have called unreferenced when it began

gcVars == <<iter, deleted, foretold>>
csVars == <<objects, refs, gc, gcVars>>

CsInit ==
  /\ objects = [c \in CIDs |-> CsNil]
  /\ refs = [c \in CIDs |-> CsNil]
  /\ gc = "idle" /\ iter = {} /\ deleted = {} /\ foretold = {}

-----------------------------------------------------------------------------
(* A call other than GarbageCollect.                                        *)
Call == gc # "running" /\ gc' = "idle" /\ iter' = {} /\ deleted' = {} /\ foretold' = {}

Has(cid) == objects[cid] # CsNil

(* The value is compressed, behind a magic that decompressFromStorage looks *)
(* for.                                                                     *)
StoreUnder(cid, d) ==
  objects' = IF Has(cid) THEN objects ELSE [objects EXCEPT ![cid] = Compress(d)]

(* Put and PutWithSize.                                                     *)
Put(d) ==
  /\ Call /\ HashAlgo \in Supported
  /\ StoreUnder(ComputeCID(d), d)
  /\ UNCHANGED refs

(* PutChunk and PutChunkWithHash.                                           *)
PutChunk(d) ==
  /\ Call
  /\ StoreUnder(ChunkCID(d), d)
  /\ UNCHANGED refs

(* Delete, "only called after verifying no references exist".               *)
Delete(cid) ==
  /\ Call /\ refs[cid] = CsNil
  /\ objects' = [objects EXCEPT ![cid] = CsNil]
  /\ UNCHANGED refs

(* The record under refKey(cid), or the fresh one AddReference starts from. *)
RefRecord(cid) == IF refs[cid] = CsNil THEN [n |-> 0, files |-> {}] ELSE refs[cid]

(* AddReference: a file counts once.  Its slip counts every call.           *)
CountEveryCall(cid, f) ==
  /\ Call
  /\ RefRecord(cid).n < 2 * Cardinality(Files)
  /\ refs' = [refs EXCEPT ![cid] = [n |-> RefRecord(cid).n + 1,
                                    files |-> RefRecord(cid).files \cup {f}]]
  /\ UNCHANGED objects

AddReference(cid, f) ==
  /\ Call
  /\ f \notin RefRecord(cid).files
  /\ refs' = [refs EXCEPT ![cid] = [n |-> RefRecord(cid).n + 1,
                                    files |-> RefRecord(cid).files \cup {f}]]
  /\ UNCHANGED objects

(* RemoveReference: nothing happens for a file that is not listed; the last *)
(* reference takes the record with it.                                      *)
RemoveReference(cid, f) ==
  /\ Call /\ refs[cid] # CsNil
  /\ f \in refs[cid].files
  /\ LET left == [n |-> refs[cid].n - 1, files |-> refs[cid].files \ {f}]
     IN  refs' = [refs EXCEPT ![cid] = IF left.n <= 0 THEN CsNil ELSE left]
  /\ UNCHANGED objects

GetRefCount(cid) == IF refs[cid] = CsNil THEN 0 ELSE refs[cid].n

-----------------------------------------------------------------------------
(* GetStats finds the unreferenced objects from the decoded records, not    *)
(* from GetRefCount: a record may name an object that is not stored.        *)
Referenced == {c \in CIDs : refs[c] # CsNil /\ refs[c].n > 0}
UnreferencedObjs == {c \in CIDs : Has(c)} \ Referenced

-----------------------------------------------------------------------------
(* GarbageCollect: an iterator over the objects there are, one lookup and   *)
(* at most one delete per object.                                           *)
BeginGC ==
  /\ gc # "running" /\ gc' = "running"
  /\ iter' = {c \in CIDs : Has(c)} /\ deleted' = {}
  /\ foretold' = UnreferencedObjs
  /\ UNCHANGED <<objects, refs>>

(* Its slip takes the last reference for none.                              *)
CollectLastReferenced(cid) ==
  /\ gc = "running" /\ cid \in iter
  /\ iter' = iter \ {cid}
  /\ IF GetRefCount(cid) <= 1
     THEN objects' = [objects EXCEPT ![cid] = CsNil] /\ deleted' = deleted \cup {cid}
     ELSE UNCHANGED <<objects, deleted>>
  /\ UNCHANGED <<refs, gc, foretold>>

Collect(cid) ==
  /\ gc = "running" /\ cid \in iter
  /\ iter' = iter \ {cid}
  /\ IF GetRefCount(cid) <= 0
     THEN objects' = [objects EXCEPT ![cid] = CsNil] /\ deleted' = deleted \cup {cid}
     ELSE UNCHANGED <<objects, deleted>>
  /\ UNCHANGED <<refs, gc, foretold>>

(* A loop that leaves at the first object it has to keep.                   *)
EndAtFirstKept ==
  /\ gc = "running" /\ gc' = "ok"
  /\ iter = {} \/ \E c \in Referenced \ iter : Has(c)
  /\ UNCHANGED <<objects, refs, gcVars>>

(* The loop has visited every object.                                       *)
EndGC ==
  /\ gc = "running" /\ iter = {} /\ gc' = "ok"
  /\ UNCHANGED <<objects, refs, gcVars>>

(* A lookup, a delete or the iterator fails and ends it; or a crash does.   *)
FailGC ==
  /\ gc = "running" /\ gc' = "error"
  /\ UNCHANGED <<objects, refs, gcVars>>

CsNext ==
  \/ \E d \in Contents : Put(d) \/ PutChunk(d)
  \/ \E c \in CIDs : Delete(c) \/ Collect(c)
  \/ \E c \in CIDs, f \in Files : AddReference(c, f) \/ RemoveReference(c, f)
  \/ BeginGC \/ EndGC \/ FailGC

CsSpec == CsInit /\ [][CsNext]_csVars

-----------------------------------------------------------------------------
(* Types: every stored value decodes.                                       *)
CsTypeOK ==
  /\ objects \in [CIDs -> {Compress(d) : d \in Contents} \cup {CsNil}]
  /\ refs \in [CIDs -> CASRefCount \cup {CsNil}]
  /\ gc \in {"idle", "running", "ok", "error"}
  /\ iter \subseteq CIDs /\ deleted \subseteq CIDs /\ foretold \subseteq CIDs

(* The counter of a reference record is the number of files it lists and    *)
(* never zero, after any sequence of AddReference and RemoveReference, with *)
(* repeated and unmatched calls: the two fields are updated separately.     *)
CountIsNumberOfFiles ==
  \A c \in CIDs : refs[c] # CsNil =>
    refs[c].n = Cardinality(refs[c].files) /\ refs[c].n > 0

(* An object that some file still refers to is never removed, by a          *)
(* collection that runs to its end or one that stops half way: the          *)
(* collector looks at the counter, the file list says who needs the object. *)
ReferencedSurvives ==
  [][\A c \in CIDs : refs[c] # CsNil /\ refs[c].files # {} /\ objects[c] # CsNil
                       => objects'[c] = objects[c]]_csVars

(* The number of unreferenced objects that GetStats reports before a        *)
(* collection is the number that GarbageCollect then deletes and returns.   *)
(* A collection that fails half way has deleted and counted some of them,   *)
(* and the statistics then report the others; one that returns without an   *)
(* error leaves none.                                                       *)
CollectsWhatStatsReport ==
  gc # "idle" =>
    /\ deleted \cup UnreferencedObjs = foretold
    /\ deleted \cap UnreferencedObjs = {}
    /\ gc = "ok" => deleted = foretold

=============================================================================
