--------------------------- MODULE RecorderProofs ---------------------------
(***************************************************************************)
(* Proofs about Recorder, for any paths, contents, timestamps and bounds.   *)
(***************************************************************************)
EXTENDS Recorder, Induction, TLAPS

(* A leaf is for Zenon to prove unless it cites SMT, for arithmetic,        *)
(* sequences and records, or PTL, for temporal logic.                       *)
USE Zenon

(* Content addresses are injective: two contents share an object in the     *)
(* store (computed by sha256.Sum256) only if they are equal.                *)
LEMMA HashInjective ==
  ASSUME NEW c \in Contents, NEW d \in Contents, Hash(c) = Hash(d)
  PROVE  c = d
BY DEF Hash

(* A content address and a stored value are never "no such key".            *)
LEMMA HashType ==
  ASSUME NEW d \in Contents
  PROVE  Hash(d) \in CIDs /\ Compress(d) \in Blobs /\ Hash(d) # Nil /\ Compress(d) # Nil
BY NilAssumption DEF CIDs, Blobs

(* What CASStore.Get decompresses is what PutChunkWithHash compressed.      *)
LEMMA CompressRoundTrip ==
  ASSUME NEW d PROVE Decompress(Compress(d)) = d
BY DEF Compress, Decompress

(* Nothing waiting for a sync, as after a pebble.Sync commit, is well typed. *)
LEMMA EmptySeq == <<>> \in Seq(JournalEntry)
BY SMT

-----------------------------------------------------------------------------
(* Types are preserved by every step of runRecord, of the processor and of  *)
(* the journal, and by a crash.                                             *)
LEMMA TypeStep == TypeOK /\ [Next]_vars => TypeOK'
<1> SUFFICES ASSUME TypeOK, [Next]_vars PROVE TypeOK'
  OBVIOUS
<1> USE DEF TypeOK, Phases, Working, storeVars, procVars, historyVars, SyncWAL
<1>1. CASE \E p \in Paths, d \in Contents : LogEvent(p, d)
  <2>1. PICK p \in Paths, d \in Contents : LogEvent(p, d)
    BY <1>1
  <2>2. PICK now \in Timestamps, s \in Suffixes :
          /\ journal' = journal \cup {[ts |-> now, sfx |-> s, path |-> p, data |-> d]}
          /\ unsynced' = Append(unsynced, [ts |-> now, sfx |-> s, path |-> p, data |-> d])
          /\ logged' = logged \cup {[ts |-> now, sfx |-> s, path |-> p, data |-> d]}
          /\ clock' = now
    BY <2>1 DEF LogEvent
  <2> DEFINE e == [ts |-> now, sfx |-> s, path |-> p, data |-> d]
  <2>3. e \in JournalEntry
    BY DEF JournalEntry
  <2>4. unsynced' \in Seq(JournalEntry)
    BY <2>2, <2>3, SMT
  <2> QED
    BY <2>1, <2>2, <2>3, <2>4, SMT DEF LogEvent
<1>2. CASE OpenStore
  BY <1>2 DEF OpenStore
<1>3. CASE RecordSessionStart
  <2>1. sessionStart' \in Timestamps \cup {Nil} /\ clock' \in Timestamps \cup {0}
    BY <1>3 DEF RecordSessionStart
  <2>2. unsynced' \in Seq(JournalEntry)
    BY <1>3, EmptySeq DEF RecordSessionStart
  <2>3. startFailed' \in BOOLEAN
    BY <1>3 DEF RecordSessionStart
  <2> QED
    BY <1>3, <2>1, <2>2, <2>3 DEF RecordSessionStart
<1>4. CASE CommandExits
  BY <1>4 DEF CommandExits
<1>5. CASE FlushDB
  BY <1>5, SMT DEF FlushDB
<1>6. CASE StopProcessor
  BY <1>6 DEF StopProcessor
<1>7. CASE CloseDB
  BY <1>7, SMT DEF CloseDB
<1>8. CASE ExitProcess
  BY <1>8 DEF ExitProcess
<1>9. CASE Crash
  <2>1. PICK n \in 0..Len(unsynced) :
          /\ journal' = journal \ {unsynced[i] : i \in (n+1)..Len(unsynced)}
          /\ lost' = lost \cup {unsynced[i] : i \in (n+1)..Len(unsynced)}
    BY <1>9 DEF Crash
  <2>2. {unsynced[i] : i \in (n+1)..Len(unsynced)} \subseteq JournalEntry
    BY SMT
  <2>3. journal' \subseteq JournalEntry /\ lost' \subseteq JournalEntry
    BY <2>1, <2>2
  <2>4. unsynced' \in Seq(JournalEntry)
    BY <1>9, SMT DEF Crash
  <2> QED
    BY <1>9, <2>3, <2>4 DEF Crash
<1>10. CASE BeginPass
  BY <1>10 DEF BeginPass
<1>11. CASE NextEntry
  BY <1>11, NilAssumption DEF NextEntry
<1>12. CASE EndPass
  BY <1>12 DEF EndPass
<1>13. CASE Idle
  BY <1>13 DEF Idle
<1>14. CASE PutChunkWithHash
  <2>1. cur \in JournalEntry
    BY <1>14 DEF PutChunkWithHash
  <2>2. cur.data \in Contents
    BY <2>1 DEF JournalEntry
  <2>3. cas' \in [CIDs -> Blobs \cup {Nil}]
    BY <1>14, <2>2, HashType DEF PutChunkWithHash
  <2>4. unsynced' \in Seq(JournalEntry)
    BY <1>14, EmptySeq DEF PutChunkWithHash
  <2> QED
    BY <1>14, <2>1, <2>3, <2>4 DEF PutChunkWithHash
<1>15. CASE SetMetadata
  <2>1. cur \in JournalEntry
    BY <1>15 DEF SetMetadata
  <2>2. Hash(cur.data) \in CIDs /\ MetaKey(cur) \in MetaKeys
    BY <2>1, HashType DEF JournalEntry, MetaKey, MetaKeys
  <2> QED
    BY <1>15, <2>1, <2>2, SMT DEF SetMetadata
<1>16. CASE DeleteJournalKey
  BY <1>16, NilAssumption, SMT DEF DeleteJournalKey
<1>17. CASE ProcessError
  BY <1>17, NilAssumption, ModeAssumption, SMT DEF ProcessError
<1>18. CASE LogEventFails
  BY <1>18, SMT DEF LogEventFails
<1>19. CASE UNCHANGED vars
  BY <1>19 DEF vars
<1> QED
  BY <1>1, <1>2, <1>3, <1>4, <1>5, <1>6, <1>7, <1>8, <1>9, <1>10, <1>11,
     <1>12, <1>13, <1>14, <1>15, <1>16, <1>17, <1>18, <1>19 DEF Next, RunRecord, Processor

(* The type invariant: in particular the processor has an entry in hand     *)
(* exactly while processJournalEntry runs.                                  *)
THEOREM TypeCorrect == Spec => []TypeOK
<1>1. Init => TypeOK
  <2> SUFFICES ASSUME Init PROVE TypeOK
    OBVIOUS
  <2>1. cas \in [CIDs -> Blobs \cup {Nil}] /\ meta \in [MetaKeys -> CIDs \cup {Nil}]
    BY DEF Init
  <2> QED
    BY <2>1, EmptySeq DEF Init, TypeOK, Phases, Working
<1> QED
  BY <1>1, TypeStep, PTL DEF Spec

-----------------------------------------------------------------------------
(* The sets of entries behind sequences: appending adds one entry, syncing  *)
(* leaves none.                                                             *)
LEMMA RngFacts ==
  /\ Rng(<<>>) = {}
  /\ \A u \in Seq(JournalEntry), e \in JournalEntry : Rng(Append(u, e)) = Rng(u) \cup {e}
<1>1. Rng(<<>>) = {}
  BY SMT DEF Rng
<1>2. ASSUME NEW u \in Seq(JournalEntry), NEW e \in JournalEntry
      PROVE  Rng(Append(u, e)) = Rng(u) \cup {e}
  <2>1. DOMAIN u = 1..Len(u) /\ DOMAIN Append(u, e) = 1..(Len(u) + 1) /\ Len(u) \in Nat
    BY SMT
  <2>2. \A i \in 1..Len(u) : Append(u, e)[i] = u[i]
    BY SMT
  <2>3. Append(u, e)[Len(u) + 1] = e
    BY SMT
  <2>4. 1..(Len(u) + 1) = 1..Len(u) \cup {Len(u) + 1}
    BY <2>1, SMT
  <2> QED
    BY <2>1, <2>2, <2>3, <2>4 DEF Rng
<1> QED
  BY <1>1, <1>2

(* LogEvent commits one entry, which was never logged before.               *)
LEMMA LogEventAddsFresh ==
  ASSUME TypeOK, NEW p \in Paths, NEW d \in Contents, LogEvent(p, d)
  PROVE  \E e \in JournalEntry \ logged :
           /\ journal' = journal \cup {e} /\ logged' = logged \cup {e}
           /\ unsynced' = Append(unsynced, e) /\ Rng(unsynced)' = Rng(unsynced) \cup {e}
           /\ ClockReads(e.ts) /\ clock' = e.ts
           /\ \A f \in logged : f.ts # e.ts \/ f.sfx # e.sfx
<1>1. PICK now \in Timestamps, s \in Suffixes :
        LET e == [ts |-> now, sfx |-> s, path |-> p, data |-> d]
        IN  /\ ClockReads(now)
            /\ \A f \in logged : f.ts # now \/ f.sfx # s
            /\ journal' = journal \cup {e}
            /\ unsynced' = Append(unsynced, e)
            /\ logged' = logged \cup {e}
            /\ clock' = now
  BY DEF LogEvent
<1> DEFINE e == [ts |-> now, sfx |-> s, path |-> p, data |-> d]
<1>2. e \in JournalEntry \ logged
  BY <1>1 DEF JournalEntry
<1>3. Rng(unsynced') = Rng(unsynced) \cup {e}
  BY <1>1, <1>2, RngFacts DEF TypeOK
<1> QED
  BY <1>1, <1>2, <1>3

(* A crash takes some of the unsynced entries, and nothing else.            *)
LEMMA CrashTakesUnsynced ==
  ASSUME TypeOK, Crash
  PROVE  \E gone \in SUBSET Rng(unsynced) : journal' = journal \ gone /\ lost' = lost \cup gone
<1>1. PICK n \in 0..Len(unsynced) :
        /\ journal' = journal \ {unsynced[i] : i \in (n+1)..Len(unsynced)}
        /\ lost' = lost \cup {unsynced[i] : i \in (n+1)..Len(unsynced)}
  BY DEF Crash
<1>2. {unsynced[i] : i \in (n+1)..Len(unsynced)} \subseteq Rng(unsynced)
  BY SMT DEF Rng, TypeOK
<1> QED
  BY <1>1, <1>2

-----------------------------------------------------------------------------
(* Every step keeps track of which entries are unsynced, to be visited and  *)
(* in hand.                                                                 *)
LEMMA BookkeepingStep == TypeOK /\ Bookkeeping /\ [Next]_vars => Bookkeeping'
<1> SUFFICES ASSUME TypeOK, Bookkeeping, [Next]_vars PROVE Bookkeeping'
  OBVIOUS
<1> USE DEF Bookkeeping, Working, storeVars, procVars, historyVars, SyncWAL
<1>1. CASE \E p \in Paths, d \in Contents : LogEvent(p, d)
  <2>1. PICK p \in Paths, d \in Contents : LogEvent(p, d)
    BY <1>1
  <2>2. PICK e \in JournalEntry \ logged :
          /\ journal' = journal \cup {e} /\ logged' = logged \cup {e}
          /\ Rng(unsynced)' = Rng(unsynced) \cup {e}
    BY <2>1, LogEventAddsFresh
  <2> QED
    BY <2>1, <2>2 DEF LogEvent
<1>2. CASE UNCHANGED <<journal, logged, lost, iter, cur>> /\ (pc' \in Working => pc \in Working)
           /\ (unsynced' = unsynced \/ unsynced' = <<>>)
  BY <1>2, RngFacts
<1>3. CASE OpenStore \/ ExitProcess
  BY <1>3 DEF OpenStore, ExitProcess
<1>4. CASE Crash
  <2>1. PICK gone \in SUBSET Rng(unsynced) : journal' = journal \ gone /\ lost' = lost \cup gone
    BY <1>4, CrashTakesUnsynced
  <2> QED
    BY <1>4, <2>1, RngFacts DEF Crash
<1>5. CASE BeginPass
  BY <1>5 DEF BeginPass
<1>6. CASE NextEntry
  BY <1>6 DEF NextEntry
<1>7. CASE DeleteJournalKey
  BY <1>7, RngFacts DEF DeleteJournalKey
<1>8. CASE ProcessError
  BY <1>8 DEF ProcessError
<1>9. CASE RecordSessionStart
  BY <1>2, <1>9 DEF RecordSessionStart
<1>10. CASE CommandExits \/ FlushDB \/ StopProcessor \/ CloseDB
  BY <1>2, <1>10 DEF CommandExits, FlushDB, StopProcessor, CloseDB
<1>11. CASE EndPass \/ Idle
  <2>1. pc' \notin Working
    BY <1>11 DEF EndPass, Idle
  <2> QED
    BY <1>2, <1>11, <2>1 DEF EndPass, Idle
<1>12. CASE PutChunkWithHash \/ SetMetadata
  <2>1. pc \in Working
    BY <1>12 DEF PutChunkWithHash, SetMetadata
  <2> QED
    BY <1>2, <1>12, <2>1 DEF PutChunkWithHash, SetMetadata
<1>13. CASE LogEventFails \/ UNCHANGED vars
  BY <1>2, <1>13 DEF LogEventFails, vars
<1> QED
  BY <1>1, <1>3, <1>4, <1>5, <1>6, <1>7, <1>8, <1>9, <1>10, <1>11, <1>12, <1>13
  DEF Next, RunRecord, Processor

(* Only PutChunkWithHash writes objects, and it writes what the CID hashes. *)
LEMMA ObjectsStep == TypeOK /\ ObjectsIntact /\ [Next]_vars => ObjectsIntact'
<1> SUFFICES ASSUME TypeOK, ObjectsIntact, [Next]_vars PROVE ObjectsIntact'
  OBVIOUS
<1>1. CASE PutChunkWithHash
  <2>1. cur.data \in Contents
    BY <1>1 DEF PutChunkWithHash, TypeOK, Working, JournalEntry
  <2>2. cas' = cas \/ cas' = [cas EXCEPT ![Hash(cur.data)] = Compress(cur.data)]
    BY <1>1 DEF PutChunkWithHash
  <2>3. ASSUME NEW d \in Contents PROVE cas'[Hash(d)] \in {Nil, Compress(d)}
    BY <2>1, <2>2, HashInjective, HashType DEF ObjectsIntact, TypeOK
  <2> QED
    BY <2>3 DEF ObjectsIntact
<1>2. CASE cas' = cas
  BY <1>2 DEF ObjectsIntact
<1> QED
  BY <1>1, <1>2
  DEF Next, LogEventFails, RunRecord, Processor, vars, storeVars, LogEvent, OpenStore, RecordSessionStart,
      CommandExits, FlushDB, StopProcessor, CloseDB, ExitProcess, Crash, BeginPass,
      NextEntry, EndPass, Idle, SetMetadata, DeleteJournalKey, ProcessError

(* A record is written only after its object, from an entry in the journal, *)
(* and the sync of that write puts the entry out of a crash's reach.        *)
LEMMA ObjectBeforeRecordStep ==
  TypeOK /\ Bookkeeping /\ ObjectBeforeRecord /\ [Next]_vars => ObjectBeforeRecord'
<1> SUFFICES ASSUME TypeOK, Bookkeeping, ObjectBeforeRecord, [Next]_vars
             PROVE  ObjectBeforeRecord'
  OBVIOUS
<1> DEFINE Backs(k, e) == MetaKey(e) = k /\ meta[k] = Hash(e.data) /\ Has(meta[k])
<1> DEFINE Safe == (logged \ lost) \ Rng(unsynced)
<1> USE DEF storeVars, procVars, historyVars, SyncWAL
<1>1. ASSUME UNCHANGED <<cas, meta>>, Safe \subseteq Safe',
             pc' \in {"meta", "delete"} => pc' = pc /\ cur' = cur
      PROVE  ObjectBeforeRecord'
  BY <1>1 DEF ObjectBeforeRecord, Has
<1>2. ASSUME unsynced' = unsynced \/ unsynced' = <<>>, UNCHANGED <<logged, lost>>
      PROVE  Safe \subseteq Safe'
  BY <1>2, RngFacts
<1>3. CASE \E p \in Paths, d \in Contents : LogEvent(p, d)
  <2>1. PICK p \in Paths, d \in Contents : LogEvent(p, d)
    BY <1>3
  <2>2. PICK e \in JournalEntry \ logged :
          logged' = logged \cup {e} /\ Rng(unsynced)' = Rng(unsynced) \cup {e}
    BY <2>1, LogEventAddsFresh
  <2>3. Safe \subseteq Safe'
    BY <2>1, <2>2 DEF LogEvent
  <2> QED
    BY <1>1, <2>1, <2>3 DEF LogEvent
<1>4. CASE Crash
  <2>1. PICK gone \in SUBSET Rng(unsynced) : lost' = lost \cup gone
    BY <1>4, CrashTakesUnsynced
  <2>2. Safe \subseteq Safe'
    BY <1>4, <2>1, RngFacts DEF Crash
  <2> QED
    BY <1>1, <1>4, <2>2 DEF Crash
<1>5. CASE PutChunkWithHash
  <2>1. cur.data \in Contents
    BY <1>5 DEF PutChunkWithHash, TypeOK, Working, JournalEntry
  <2>2. Safe \subseteq Safe'
    <3>1. unsynced' = unsynced \/ unsynced' = <<>>
      BY <1>5 DEF PutChunkWithHash
    <3> QED
      BY <1>2, <1>5, <3>1 DEF PutChunkWithHash
  <2>3. \/ cas' = cas /\ Has(Hash(cur.data))
        \/ cas' = [cas EXCEPT ![Hash(cur.data)] = Compress(cur.data)]
    BY <1>5 DEF PutChunkWithHash
  <2>4. Has(Hash(cur.data))' /\ \A c \in CIDs : Has(c) => Has(c)'
    BY <1>5, <2>1, <2>3, HashType DEF Has, TypeOK, PutChunkWithHash
  <2>5. ASSUME NEW k \in MetaKeys, meta'[k] # Nil
        PROVE  \E e \in Safe' : Backs(k, e)'
    <3>1. meta' = meta
      BY <1>5 DEF PutChunkWithHash
    <3>2. PICK e \in Safe : Backs(k, e)
      BY <2>5, <3>1 DEF ObjectBeforeRecord
    <3>3. meta[k] \in CIDs
      BY <2>5, <3>1 DEF TypeOK
    <3> QED
      BY <2>2, <2>4, <3>1, <3>2, <3>3
  <2> QED
    BY <1>5, <2>4, <2>5 DEF ObjectBeforeRecord, PutChunkWithHash
<1>6. CASE SetMetadata
  <2>1. cur \in JournalEntry /\ cur \in journal /\ Has(Hash(cur.data))
    BY <1>6 DEF SetMetadata, TypeOK, Working, Bookkeeping, ObjectBeforeRecord
  <2>2. Safe' = logged \ lost /\ Safe \subseteq Safe' /\ cas' = cas
    BY <1>6, RngFacts DEF SetMetadata
  <2>3. MetaKey(cur) \in MetaKeys
    BY <2>1 DEF JournalEntry, MetaKey, MetaKeys
  <2>4. meta' = [meta EXCEPT ![MetaKey(cur)] = Hash(cur.data)]
    BY <1>6 DEF SetMetadata
  <2>5. ASSUME NEW k \in MetaKeys, meta'[k] # Nil
        PROVE  \E e \in Safe' : Backs(k, e)'
    <3>1. CASE k = MetaKey(cur)
      <4>1. cur \in Safe'
        BY <2>1, <2>2 DEF Bookkeeping
      <4>2. meta'[k] = Hash(cur.data)
        BY <2>3, <2>4, <3>1 DEF TypeOK
      <4> QED
        BY <2>1, <2>2, <3>1, <4>1, <4>2 DEF Has
    <3>2. CASE k # MetaKey(cur)
      <4>1. meta'[k] = meta[k]
        BY <2>4, <3>2 DEF TypeOK
      <4>2. PICK e \in Safe : Backs(k, e)
        BY <2>5, <4>1 DEF ObjectBeforeRecord
      <4> QED
        BY <2>2, <4>1, <4>2 DEF Has
    <3> QED
      BY <3>1, <3>2
  <2> QED
    BY <1>6, <2>1, <2>2, <2>5 DEF ObjectBeforeRecord, SetMetadata, Has
<1>7. CASE RecordSessionStart
  <2>1. unsynced' = unsynced \/ unsynced' = <<>>
    BY <1>7 DEF RecordSessionStart
  <2> QED
    BY <1>1, <1>2, <1>7, <2>1 DEF RecordSessionStart
<1>8. CASE OpenStore \/ CommandExits \/ StopProcessor \/ ExitProcess
  BY <1>1, <1>2, <1>8 DEF OpenStore, CommandExits, StopProcessor, ExitProcess
<1>9. CASE FlushDB \/ CloseDB \/ DeleteJournalKey
  BY <1>1, <1>2, <1>9 DEF FlushDB, CloseDB, DeleteJournalKey
<1>10. CASE BeginPass \/ NextEntry \/ EndPass \/ Idle \/ ProcessError
  BY <1>1, <1>2, <1>10 DEF BeginPass, NextEntry, EndPass, Idle, ProcessError
<1>11. CASE LogEventFails \/ UNCHANGED vars
  BY <1>1, <1>2, <1>11 DEF LogEventFails, vars
<1> QED
  BY <1>3, <1>4, <1>5, <1>6, <1>7, <1>8, <1>9, <1>10, <1>11 DEF Next, RunRecord, Processor

(* The part of the inductive invariant that needs nothing of the clock      *)
(* holds when no session has run yet.                                       *)
LEMMA InitStoreInv == Init => StoreInv
<1> SUFFICES ASSUME Init PROVE StoreInv
  OBVIOUS
<1>1. cas \in [CIDs -> Blobs \cup {Nil}] /\ meta \in [MetaKeys -> CIDs \cup {Nil}]
  BY DEF Init
<1>2. TypeOK
  BY <1>1, EmptySeq DEF Init, TypeOK, Phases, Working
<1>3. Bookkeeping
  BY RngFacts DEF Init, Bookkeeping, Working
<1>4. ObjectsIntact
  BY HashType DEF Init, ObjectsIntact
<1>5. ObjectBeforeRecord
  BY DEF Init, ObjectBeforeRecord
<1> QED
  BY <1>2, <1>3, <1>4, <1>5 DEF StoreInv

(* That part holds of every execution, whatever the clock does.             *)
THEOREM StoreCorrect == Spec => []StoreInv
<1>1. Init => StoreInv
  BY InitStoreInv
<1>2. StoreInv /\ [Next]_vars => StoreInv'
  BY TypeStep, BookkeepingStep, ObjectsStep, ObjectBeforeRecordStep DEF StoreInv
<1> QED
  BY <1>1, <1>2, PTL DEF Spec

(* Export never meets a dangling or wrong CID, for any clock and whatever   *)
(* crashes, errors and restarts happen.                                     *)
THEOREM MetadataAlwaysBacked == Spec => []MetadataBacked
<1>1. StoreInv => MetadataBacked
  <2> SUFFICES ASSUME StoreInv, NEW k \in MetaKeys, meta[k] # Nil
               PROVE  \E e \in logged \ lost :
                        MetaKey(e) = k /\ meta[k] = Hash(e.data) /\ Get(meta[k]) = e.data
    BY DEF MetadataBacked
  <2>1. PICK e \in logged \ lost : MetaKey(e) = k /\ meta[k] = Hash(e.data) /\ Has(meta[k])
    BY DEF StoreInv, ObjectBeforeRecord
  <2>2. e.data \in Contents
    BY <2>1 DEF StoreInv, TypeOK, JournalEntry
  <2>3. cas[Hash(e.data)] = Compress(e.data)
    BY <2>1, <2>2 DEF StoreInv, ObjectsIntact, Has
  <2> QED
    BY <2>1, <2>3, CompressRoundTrip DEF Get, Has
<1> QED
  BY <1>1, StoreCorrect, PTL

-----------------------------------------------------------------------------
(* Every step, whatever the clock does, leaves a record under the key of an *)
(* entry it takes from the journal, keeps journal keys unique, and syncs    *)
(* the WAL before the watcher's process is gone.                            *)
LEMMA AnyClockStep == StoreInv /\ AnyClockInv /\ [Next]_vars => AnyClockInv'
<1> SUFFICES ASSUME StoreInv, AnyClockInv, [Next]_vars PROVE AnyClockInv'
  OBVIOUS
<1> USE DEF storeVars, procVars, historyVars, SyncWAL
<1>1. CASE \E p \in Paths, d \in Contents : LogEvent(p, d)
  <2>1. PICK p \in Paths, d \in Contents : LogEvent(p, d)
    BY <1>1
  <2>2. PICK e \in JournalEntry \ logged :
          /\ journal' = journal \cup {e} /\ logged' = logged \cup {e}
          /\ \A f \in logged : f.ts # e.ts \/ f.sfx # e.sfx
    BY <2>1, LogEventAddsFresh DEF StoreInv
  <2>3. UNCHANGED <<meta, pc, cur, lost, phase>>
        /\ phase \in {"recording", "sleeping", "flushed", "stopped"}
    BY <2>1 DEF LogEvent
  <2> QED
    BY <2>2, <2>3 DEF AnyClockInv
<1>2. CASE Crash
  <2>1. PICK gone \in SUBSET Rng(unsynced) : journal' = journal \ gone /\ lost' = lost \cup gone
    BY <1>2, CrashTakesUnsynced DEF StoreInv
  <2> QED
    BY <1>2, <2>1 DEF Crash, AnyClockInv
<1>3. CASE SetMetadata
  <2>1. cur.data \in Contents /\ MetaKey(cur) \in MetaKeys
    BY <1>3 DEF SetMetadata, StoreInv, TypeOK, Working, JournalEntry, MetaKey, MetaKeys
  <2>2. meta' = [meta EXCEPT ![MetaKey(cur)] = Hash(cur.data)]
    BY <1>3 DEF SetMetadata
  <2>3. meta'[MetaKey(cur)] # Nil
    BY <2>1, <2>2, HashType DEF StoreInv, TypeOK
  <2>4. \A k \in MetaKeys : meta[k] # Nil => meta'[k] # Nil
    BY <2>2, <2>3 DEF StoreInv, TypeOK
  <2>5. \A e \in logged : MetaKey(e) \in MetaKeys
    BY DEF StoreInv, TypeOK, JournalEntry, MetaKey, MetaKeys
  <2>6. UNCHANGED <<journal, logged, lost, cur, phase>> /\ unsynced' = <<>>
    BY <1>3 DEF SetMetadata
  <2> QED
    BY <2>3, <2>4, <2>5, <2>6 DEF AnyClockInv
<1>4. CASE DeleteJournalKey
  BY <1>4 DEF DeleteJournalKey, AnyClockInv
<1>5. CASE /\ UNCHANGED <<journal, meta, logged, lost>>
           /\ pc' = "delete" => pc = "delete" /\ cur' = cur
           /\ phase' \in {"down", "opened", "closed"} =>
                \/ unsynced' = <<>>
                \/ unsynced' = unsynced /\ phase \in {"down", "opened", "closed"}
  BY <1>5 DEF AnyClockInv
<1>6. CASE OpenStore \/ CommandExits \/ FlushDB \/ StopProcessor \/ CloseDB \/ ExitProcess
           \/ RecordSessionStart
  BY <1>5, <1>6 DEF OpenStore, CommandExits, FlushDB, StopProcessor, CloseDB, ExitProcess,
     RecordSessionStart
<1>7. CASE BeginPass \/ NextEntry \/ EndPass \/ Idle \/ PutChunkWithHash \/ ProcessError
  BY <1>5, <1>7 DEF BeginPass, NextEntry, EndPass, Idle, PutChunkWithHash, ProcessError
<1>8. CASE LogEventFails \/ UNCHANGED vars
  BY <1>5, <1>8 DEF LogEventFails, vars
<1> QED
  BY <1>1, <1>2, <1>3, <1>4, <1>6, <1>7, <1>8 DEF Next, RunRecord, Processor

(* It holds of every execution, whatever the clock does.                    *)
LEMMA AnyClockInvHolds == Spec => [](StoreInv /\ AnyClockInv)
<1>1. Init => AnyClockInv
  BY DEF Init, AnyClockInv
<1> QED
  BY <1>1, StoreCorrect, AnyClockStep, PTL DEF Spec

(* For any clock: an event no crash took is in the journal, or export finds *)
(* a version under its path and time, with its content; if not the event's  *)
(* own then that of another event stamped in the same nanosecond.           *)
THEOREM LostToTwinsOnly == Spec => []LostOnlyToTwin
<1>1. StoreInv /\ AnyClockInv => LostOnlyToTwin
  <2> SUFFICES ASSUME StoreInv, AnyClockInv, NEW e \in logged \ lost, e \notin journal
               PROVE  \E f \in logged \ lost :
                        MetaKey(f) = MetaKey(e) /\ Recorded(f) /\ Get(Hash(f.data)) = f.data
    BY DEF LostOnlyToTwin
  <2>1. MetaKey(e) \in MetaKeys /\ meta[MetaKey(e)] # Nil
    BY DEF AnyClockInv, StoreInv, TypeOK, JournalEntry, MetaKey, MetaKeys
  <2>2. PICK f \in logged \ lost : MetaKey(f) = MetaKey(e) /\ meta[MetaKey(e)] = Hash(f.data)
                                   /\ Has(meta[MetaKey(e)])
    BY <2>1 DEF StoreInv, ObjectBeforeRecord
  <2>3. f.data \in Contents
    BY <2>2 DEF StoreInv, TypeOK, JournalEntry
  <2>4. cas[Hash(f.data)] = Compress(f.data) /\ Has(Hash(f.data))
    BY <2>2, <2>3 DEF StoreInv, ObjectsIntact, Has
  <2> QED
    BY <2>2, <2>4, CompressRoundTrip DEF Get, Has, Recorded
<1> QED
  BY <1>1, AnyClockInvHolds, PTL

(* For any clock: only the end of a process between the start of its        *)
(* watcher and db.Close takes events.                                       *)
THEOREM CleanCloseKeepsEvents == Spec => CloseKeepsEvents
<1>1. StoreInv /\ AnyClockInv /\ [Next]_vars
      => [lost' # lost => phase \notin {"down", "opened", "closed"}]_vars
  <2> SUFFICES ASSUME StoreInv, AnyClockInv, Next, lost' # lost
               PROVE  phase \notin {"down", "opened", "closed"}
    BY DEF vars, historyVars
  <2>1. Crash
    BY DEF Next, LogEventFails, RunRecord, Processor, historyVars, LogEvent, OpenStore,
       RecordSessionStart, CommandExits, FlushDB, StopProcessor, CloseDB, ExitProcess, BeginPass,
       NextEntry, EndPass, Idle, PutChunkWithHash, SetMetadata, DeleteJournalKey, ProcessError
  <2>2. PICK gone \in SUBSET Rng(unsynced) : lost' = lost \cup gone
    BY <2>1, CrashTakesUnsynced DEF StoreInv
  <2>3. unsynced # <<>>
    BY <2>2, RngFacts
  <2> QED
    BY <2>3 DEF AnyClockInv
<1> QED
  BY <1>1, AnyClockInvHolds, PTL DEF Spec, CloseKeepsEvents

(* For any clock: a pass that is not over has exactly one entry to go on    *)
(* with, the least key its iterator has not visited.                        *)
THEOREM PassHasNextEntry == Spec => []NextEntryDetermined
<1>1. StoreInv /\ AnyClockInv => NextEntryDetermined
  <2> SUFFICES ASSUME StoreInv, AnyClockInv, iter # {}
               PROVE  \E e \in iter : \A f \in iter : KeyLeq(e, f) /\ (KeyLeq(f, e) => f = e)
    BY DEF NextEntryDetermined
  <2>1. iter \subseteq logged /\ \A e \in iter : e.ts \in Nat /\ e.sfx \in Nat
    BY TimeAssumption DEF StoreInv, Bookkeeping, TypeOK, JournalEntry
  <2> DEFINE T == {e.ts : e \in iter}
  <2>2. PICK t \in T : \A u \in T : t <= u
    BY <2>1, LeastNatural
  <2> DEFINE S == {e.sfx : e \in {f \in iter : f.ts = t}}
  <2>3. S \subseteq Nat /\ S # {}
    BY <2>1, <2>2
  <2>4. PICK s \in S : \A u \in S : s <= u
    BY <2>3, LeastNatural
  <2>5. PICK e \in iter : e.ts = t /\ e.sfx = s
    BY <2>4
  <2>6. ASSUME NEW f \in iter PROVE KeyLeq(e, f) /\ (KeyLeq(f, e) => f = e)
    <3>1. f.ts \in Nat /\ f.sfx \in Nat /\ e.ts \in Nat /\ e.sfx \in Nat
      BY <2>1
    <3>2. e.ts <= f.ts /\ (f.ts = e.ts => e.sfx <= f.sfx)
      BY <2>2, <2>4, <2>5
    <3>3. f.ts = e.ts /\ f.sfx = e.sfx => f = e
      BY <2>1 DEF AnyClockInv
    <3> QED
      BY <3>1, <3>2, <3>3, SMT DEF KeyLeq
  <2> QED
    BY <2>6
<1> QED
  BY <1>1, AnyClockInvHolds, PTL

-----------------------------------------------------------------------------
(* Clock readings and the timestamps of entries are natural numbers.        *)
LEMMA TimesAreNumbers ==
  ASSUME TypeOK
  PROVE  clock \in Nat /\ \A e \in JournalEntry : e.ts \in Timestamps /\ e.ts \in Nat
<1>1. clock \in Timestamps \cup {0}
  BY DEF TypeOK
<1>2. \A e \in JournalEntry : e.ts \in Timestamps
  BY DEF JournalEntry
<1>3. \A t \in Timestamps : t \in Nat
  BY TimeAssumption
<1>4. clock \in Nat
  BY <1>1, <1>3, SMT
<1> QED
  BY <1>2, <1>3, <1>4

(* Timestamps identify entries as long as every clock reading advances.     *)
LEMMA TimesStep ==
  ASSUME MonotonicClock, TypeOK, TimesIdentify, [Next]_vars PROVE TimesIdentify'
<1> USE DEF storeVars, procVars, historyVars
<1>0. clock \in Nat /\ \A e \in JournalEntry : e.ts \in Timestamps /\ e.ts \in Nat
  BY TimesAreNumbers
<1>1. CASE \E p \in Paths, d \in Contents : LogEvent(p, d)
  <2>1. PICK p \in Paths, d \in Contents : LogEvent(p, d)
    BY <1>1
  <2>2. PICK e \in JournalEntry \ logged :
          logged' = logged \cup {e} /\ ClockReads(e.ts) /\ clock' = e.ts
    BY <2>1, LogEventAddsFresh
  <2>3. e.ts > clock
    BY <2>2 DEF ClockReads
  <2> QED
    BY <1>0, <2>2, <2>3, SMT DEF TimesIdentify, TypeOK
<1>2. CASE RecordSessionStart
  <2>1. logged' = logged /\ (clock' = clock \/ \E now \in Timestamps : ClockReads(now) /\ clock' = now)
    BY <1>2 DEF RecordSessionStart
  <2>2. clock' \in Nat /\ clock' >= clock
    BY <1>0, <2>1, TimeAssumption, SMT DEF ClockReads
  <2> QED
    BY <1>0, <2>1, <2>2, SMT DEF TimesIdentify, TypeOK
<1>3. CASE UNCHANGED <<clock, logged>>
  BY <1>3 DEF TimesIdentify
<1> QED
  BY <1>1, <1>2, <1>3
  DEF Next, LogEventFails, RunRecord, Processor, vars, OpenStore, CommandExits, FlushDB, StopProcessor,
      CloseDB, ExitProcess, Crash, BeginPass, NextEntry, EndPass, Idle, PutChunkWithHash,
      SetMetadata, DeleteJournalKey, ProcessError

(* No step loses an entry: its record is written before its key is deleted. *)
LEMMA RecordBeforeDeleteStep ==
  ASSUME TypeOK, Bookkeeping, TimesIdentify, RecordBeforeDelete, [Next]_vars
  PROVE  RecordBeforeDelete'
<1> USE DEF storeVars, procVars, historyVars
<1>1. CASE \E p \in Paths, d \in Contents : LogEvent(p, d)
  <2>1. PICK p \in Paths, d \in Contents : LogEvent(p, d)
    BY <1>1
  <2>2. PICK e \in JournalEntry \ logged : journal' = journal \cup {e} /\ logged' = logged \cup {e}
    BY <2>1, LogEventAddsFresh
  <2> QED
    BY <2>1, <2>2 DEF LogEvent, RecordBeforeDelete, Recorded
<1>2. CASE Crash
  <2>1. PICK gone \in SUBSET Rng(unsynced) : journal' = journal \ gone /\ lost' = lost \cup gone
    BY <1>2, CrashTakesUnsynced
  <2> QED
    BY <1>2, <2>1 DEF Crash, RecordBeforeDelete, Recorded
<1>3. CASE SetMetadata
  <2>1. cur \in JournalEntry /\ cur \in journal /\ MetaKey(cur) \in MetaKeys
    BY <1>3 DEF SetMetadata, TypeOK, Working, Bookkeeping, JournalEntry, MetaKey, MetaKeys
  <2>2. meta' = [meta EXCEPT ![MetaKey(cur)] = Hash(cur.data)] /\ journal' = journal
        /\ logged' = logged /\ lost' = lost /\ cur' = cur
    BY <1>3 DEF SetMetadata
  <2>3. Recorded(cur)'
    BY <2>1, <2>2 DEF Recorded, TypeOK
  <2>4. ASSUME NEW e \in logged, Recorded(e) PROVE Recorded(e)'
    <3>1. CASE e = cur
      BY <2>2, <2>3, <3>1 DEF Recorded
    <3>2. CASE e # cur
      <4>1. MetaKey(e) # MetaKey(cur)
        BY <2>1, <3>2 DEF MetaKey, TimesIdentify, Bookkeeping
      <4>2. MetaKey(e) \in MetaKeys
        BY DEF TypeOK, JournalEntry, MetaKey, MetaKeys
      <4> QED
        BY <2>2, <2>4, <4>1, <4>2 DEF Recorded, TypeOK
    <3> QED
      BY <3>1, <3>2
  <2> QED
    BY <2>2, <2>3, <2>4 DEF RecordBeforeDelete
<1>4. CASE DeleteJournalKey
  BY <1>4 DEF DeleteJournalKey, RecordBeforeDelete, Recorded
<1>5. CASE UNCHANGED <<journal, meta, logged, lost>> /\ (pc' = "delete" => pc = "delete" /\ cur' = cur)
  BY <1>5 DEF RecordBeforeDelete, Recorded
<1>6. CASE OpenStore \/ CommandExits \/ FlushDB \/ StopProcessor \/ CloseDB \/ ExitProcess
           \/ RecordSessionStart
  BY <1>5, <1>6 DEF OpenStore, CommandExits, FlushDB, StopProcessor, CloseDB, ExitProcess,
     RecordSessionStart
<1>7. CASE BeginPass \/ NextEntry \/ EndPass \/ Idle \/ PutChunkWithHash \/ ProcessError
  BY <1>5, <1>7 DEF BeginPass, NextEntry, EndPass, Idle, PutChunkWithHash, ProcessError
<1>8. CASE LogEventFails \/ UNCHANGED vars
  BY <1>5, <1>8 DEF LogEventFails, vars
<1> QED
  BY <1>1, <1>2, <1>3, <1>4, <1>6, <1>7, <1>8 DEF Next, RunRecord, Processor

(* What is unsynced stays the tail of what was logged.                      *)
LEMMA UnsyncedStep ==
  ASSUME MonotonicClock, TypeOK, Bookkeeping, TimesIdentify, UnsyncedIsTail, [Next]_vars
  PROVE  UnsyncedIsTail'
<1> USE DEF storeVars, procVars, historyVars, SyncWAL
<1>1. CASE \E p \in Paths, d \in Contents : LogEvent(p, d)
  <2>1. PICK p \in Paths, d \in Contents : LogEvent(p, d)
    BY <1>1
  <2>2. PICK e \in JournalEntry \ logged :
          /\ logged' = logged \cup {e} /\ unsynced' = Append(unsynced, e)
          /\ ClockReads(e.ts)
    BY <2>1, LogEventAddsFresh
  <2>3. e.ts > clock /\ clock \in Nat /\ e.ts \in Nat
    BY <2>2, TimesAreNumbers DEF ClockReads
  <2>4. /\ unsynced \in Seq(JournalEntry) /\ Len(unsynced) \in Nat
        /\ DOMAIN unsynced = 1..Len(unsynced)
        /\ DOMAIN unsynced' = 1..(Len(unsynced) + 1)
        /\ unsynced'[Len(unsynced) + 1] = e
        /\ \A i \in 1..Len(unsynced) : unsynced'[i] = unsynced[i]
    BY <2>2, SMT DEF TypeOK
  <2>5. ASSUME NEW i \in DOMAIN unsynced', NEW f \in logged', f.ts > unsynced'[i].ts
        PROVE  \E j \in DOMAIN unsynced' : i < j /\ f = unsynced'[j]
    <3>1. CASE i \in 1..Len(unsynced) /\ f = e
      BY <2>4, <3>1, SMT
    <3>2. CASE i \in 1..Len(unsynced) /\ f \in logged
      <4>1. PICK j \in DOMAIN unsynced : i < j /\ f = unsynced[j]
        BY <2>4, <2>5, <3>2 DEF UnsyncedIsTail
      <4> QED
        BY <2>4, <4>1, SMT
    <3>3. CASE i = Len(unsynced) + 1
      <4>1. \A g \in logged : g.ts <= clock /\ g.ts \in Nat
        BY TimesAreNumbers DEF TimesIdentify, TypeOK
      <4> QED
        BY <2>2, <2>3, <2>4, <2>5, <3>3, <4>1, SMT
    <3> QED
      BY <2>2, <2>4, <3>1, <3>2, <3>3, SMT
  <2>6. ASSUME NEW i \in DOMAIN unsynced', NEW j \in DOMAIN unsynced', i < j
        PROVE  unsynced'[i].ts < unsynced'[j].ts
    <3>1. CASE j \in 1..Len(unsynced)
      BY <2>4, <2>6, <3>1, SMT DEF UnsyncedIsTail
    <3>2. CASE j = Len(unsynced) + 1
      <4>1. i \in DOMAIN unsynced /\ unsynced'[i] = unsynced[i] /\ unsynced[i] \in Rng(unsynced)
        BY <2>4, <2>6, <3>2, SMT DEF Rng
      <4>2. unsynced[i] \in logged /\ unsynced[i].ts <= clock /\ unsynced[i].ts \in Nat
        BY <4>1, TimesAreNumbers DEF Bookkeeping, TimesIdentify, TypeOK
      <4> QED
        BY <2>3, <2>4, <3>2, <4>1, <4>2, SMT
    <3> QED
      BY <2>4, <3>1, <3>2, SMT
  <2> QED
    BY <2>5, <2>6 DEF UnsyncedIsTail
<1>2. CASE unsynced' = <<>>
  BY <1>2, SMT DEF UnsyncedIsTail
<1>3. CASE UNCHANGED <<unsynced, logged>>
  BY <1>3, SMT DEF UnsyncedIsTail
<1>4. CASE RecordSessionStart
  BY <1>2, <1>3, <1>4 DEF RecordSessionStart
<1>5. CASE PutChunkWithHash
  BY <1>2, <1>3, <1>5 DEF PutChunkWithHash
<1> QED
  BY <1>1, <1>2, <1>3, <1>4, <1>5
  DEF Next, LogEventFails, RunRecord, Processor, vars, OpenStore, CommandExits, FlushDB, StopProcessor,
      CloseDB, ExitProcess, Crash, BeginPass, NextEntry, EndPass, Idle,
      SetMetadata, DeleteJournalKey, ProcessError

(* The session start is written before anything can be logged, and kept.    *)
LEMMA StartStep ==
  ASSUME MonotonicClock, TypeOK, StartBeforeWatcher, [Next]_vars
  PROVE  StartBeforeWatcher'
<1> USE DEF storeVars, procVars, historyVars
<1>0. /\ clock \in Nat /\ \A e \in JournalEntry : e.ts \in Nat
      /\ logged \subseteq JournalEntry
      /\ StartKnown => sessionStart \in Nat
      /\ \A t \in Timestamps : t \in Nat /\ t # Nil
  <2>1. sessionStart \in Timestamps \cup {Nil} /\ logged \subseteq JournalEntry
    BY DEF TypeOK
  <2>2. \A t \in Timestamps : t \in Nat /\ t # Nil
    BY TimeAssumption, NilAssumption
  <2> QED
    BY <2>1, <2>2, TimesAreNumbers DEF StartKnown
<1>1. CASE \E p \in Paths, d \in Contents : LogEvent(p, d)
  <2>1. PICK p \in Paths, d \in Contents : LogEvent(p, d)
    BY <1>1
  <2>2. PICK e \in JournalEntry \ logged :
          logged' = logged \cup {e} /\ ClockReads(e.ts) /\ clock' = e.ts
    BY <2>1, LogEventAddsFresh
  <2>3. e.ts > clock /\ sessionStart' = sessionStart /\ startFailed' = startFailed /\ phase' = phase
        /\ phase \in {"recording", "sleeping", "flushed", "stopped"}
    BY <2>1, <2>2 DEF ClockReads, LogEvent
  <2> QED
    BY <1>0, <2>2, <2>3, SMT DEF StartBeforeWatcher, StartKnown
<1>2. CASE RecordSessionStart
  <2>1. CASE StartKnown /\ UNCHANGED <<sessionStart, clock, startFailed>>
    BY <1>2, <2>1 DEF RecordSessionStart, StartBeforeWatcher, StartKnown
  <2>2. CASE startFailed' = TRUE /\ UNCHANGED <<sessionStart, clock>>
    BY <2>2 DEF StartBeforeWatcher, StartKnown
  <2>3. CASE /\ startFailed' = (startFailed \/ StartKnown)
             /\ sessionStart' = clock' /\ clock' \in Timestamps
    <3>1. logged' = logged
      BY <1>2 DEF RecordSessionStart
    <3>2. ~startFailed' => ~startFailed /\ ~StartKnown
      BY <2>3
    <3> QED
      BY <1>0, <2>3, <3>1, <3>2, SMT DEF StartBeforeWatcher, StartKnown
  <2> QED
    BY <1>2, <2>1, <2>2, <2>3 DEF RecordSessionStart
<1>3. CASE /\ UNCHANGED <<sessionStart, clock, startFailed, logged>>
           /\ \/ phase' \notin {"recording", "sleeping", "flushed", "stopped"}
              \/ phase \in {"recording", "sleeping", "flushed", "stopped"}
  BY <1>3 DEF StartBeforeWatcher, StartKnown
<1>4. CASE RunRecord /\ ~RecordSessionStart
  BY <1>3, <1>4 DEF RunRecord, OpenStore, CommandExits, FlushDB, StopProcessor, CloseDB, ExitProcess
<1>5. CASE Crash
  BY <1>3, <1>5 DEF Crash
<1>6. CASE UNCHANGED <<sessionStart, clock, startFailed, logged, phase>>
  BY <1>6 DEF StartBeforeWatcher, StartKnown
<1> QED
  BY <1>1, <1>2, <1>4, <1>5, <1>6
  DEF Next, LogEventFails, Processor, vars, BeginPass, NextEntry, EndPass, Idle, PutChunkWithHash,
      SetMetadata, DeleteJournalKey, ProcessError

(* The inductive invariant holds in an empty state directory.               *)
LEMMA InitIndInv == Init => IndInv
<1> SUFFICES ASSUME Init PROVE (MonotonicClock => ClockInv) /\ StoreInv
  BY DEF IndInv
<1>1. StoreInv
  BY InitStoreInv
<1>2. TimesIdentify /\ RecordBeforeDelete /\ UnsyncedIsTail /\ StartBeforeWatcher
  BY SMT DEF Init, TimesIdentify, RecordBeforeDelete, UnsyncedIsTail, StartBeforeWatcher, StartKnown
<1> QED
  BY <1>1, <1>2 DEF ClockInv

(* Every step of the recorder, a crash included, preserves it.              *)
LEMMA IndInvStep == IndInv /\ [Next]_vars => IndInv'
<1> SUFFICES ASSUME IndInv, [Next]_vars PROVE IndInv'
  OBVIOUS
<1>1. StoreInv'
  BY TypeStep, BookkeepingStep, ObjectsStep, ObjectBeforeRecordStep DEF IndInv, StoreInv
<1>2. ASSUME MonotonicClock PROVE ClockInv'
  BY <1>2, TimesStep, RecordBeforeDeleteStep, UnsyncedStep, StartStep
  DEF IndInv, StoreInv, ClockInv
<1> QED
  BY <1>1, <1>2 DEF IndInv

(* The inductive invariant holds of every execution.                        *)
THEOREM IndInvHolds == Spec => []IndInv
BY InitIndInv, IndInvStep, PTL DEF Spec

(* An entry that is neither lost nor in the journal has its record, and its *)
(* content in the store.                                                    *)
LEMMA NoVersionLostFollows ==
  ASSUME MonotonicClock, IndInv PROVE NoVersionLost
<1> SUFFICES ASSUME NEW e \in logged \ lost, e \notin journal
             PROVE  Recorded(e) /\ Get(Hash(e.data)) = e.data
  BY DEF NoVersionLost
<1>1. Recorded(e)
  BY DEF IndInv, ClockInv, RecordBeforeDelete
<1>2. e \in JournalEntry /\ e.data \in Contents /\ MetaKey(e) \in MetaKeys
  BY DEF IndInv, StoreInv, TypeOK, JournalEntry, MetaKey, MetaKeys
<1>3. Has(Hash(e.data))
  BY <1>1, <1>2, HashType DEF IndInv, StoreInv, ObjectBeforeRecord, Recorded
<1>4. cas[Hash(e.data)] = Compress(e.data)
  BY <1>2, <1>3 DEF IndInv, StoreInv, ObjectsIntact, Has
<1> QED
  BY <1>1, <1>3, <1>4, CompressRoundTrip DEF Get, Has

(* No event that was committed and not taken by a crash is ever lost, if    *)
(* the clock always advances.                                               *)
THEOREM NeverLost ==
  ASSUME MonotonicClock PROVE Spec => []NoVersionLost
<1>1. IndInv => NoVersionLost
  BY NoVersionLostFollows
<1> QED
  BY <1>1, IndInvHolds, PTL

(* Offsets in the timeline are never clamped: the session start precedes    *)
(* every event of every session, unless reading or writing it failed.       *)
THEOREM StartAlwaysPrecedes ==
  ASSUME MonotonicClock PROVE Spec => []StartPrecedesEvents
<1>1. IndInv => StartPrecedesEvents
  BY DEF IndInv, ClockInv, StartBeforeWatcher, StartPrecedesEvents, StartKnown
<1> QED
  BY <1>1, IndInvHolds, PTL

-----------------------------------------------------------------------------
(* A step that is not an error of LogEvent or of processJournalEntry keeps  *)
(* the order in which the journal is drained.                               *)
LEMMA DrainOrderStep ==
  ASSUME MonotonicClock, IndInv, DrainOrder, [Next]_vars, ~ProcessError, ~LogEventFails
  PROVE  DrainOrder'
<1> USE DEF storeVars, procVars, historyVars
<1>0. /\ logged \subseteq JournalEntry /\ journal \subseteq logged /\ iter \subseteq journal
      /\ \A e \in logged : e.ts \in Nat /\ e.ts <= clock
      /\ clock \in Nat
      /\ \A e, f \in logged : e.ts = f.ts => e = f
      /\ pc \in Working => cur \in journal
      /\ pc \notin Working => cur \notin journal
  <2>1. TypeOK /\ Bookkeeping /\ TimesIdentify
    BY DEF IndInv, StoreInv, ClockInv
  <2>2. pc \notin Working => cur \notin journal
    BY <2>1, NilAssumption DEF TypeOK
  <2> QED
    BY <2>1, <2>2, TimesAreNumbers DEF TypeOK, Bookkeeping, TimesIdentify
<1>1. CASE \E p \in Paths, d \in Contents : LogEvent(p, d)
  <2>1. PICK p \in Paths, d \in Contents : LogEvent(p, d)
    BY <1>1
  <2>2. PICK n \in JournalEntry \ logged :
          journal' = journal \cup {n} /\ logged' = logged \cup {n} /\ ClockReads(n.ts)
    BY <2>1, LogEventAddsFresh DEF IndInv, StoreInv
  <2>3. UNCHANGED <<lost, meta, pc, iter, cur>>
    BY <2>1 DEF LogEvent
  <2>4. \A f \in logged : f.ts < n.ts /\ f.ts <= n.ts
    <3>1. n.ts \in Nat /\ n.ts > clock
      BY <2>2, TimesAreNumbers DEF ClockReads, IndInv, StoreInv
    <3> QED
      BY <1>0, <3>1, SMT
  <2>5. ~Recorded(n)
    <3>1. MetaKey(n) \in MetaKeys /\ n.data \in Contents
      BY <2>2 DEF JournalEntry, MetaKey, MetaKeys
    <3>2. ASSUME Recorded(n) PROVE \E f \in logged : MetaKey(f) = MetaKey(n)
      BY <3>1, <3>2, HashType DEF Recorded, IndInv, StoreInv, ObjectBeforeRecord
    <3>3. \A f \in logged : f.ts # n.ts
      BY <1>0, <2>2, <2>4, TimesAreNumbers, SMT DEF IndInv, StoreInv
    <3> QED
      BY <3>2, <3>3 DEF MetaKey
  <2>6. \A e \in journal' : \A f \in (logged' \ lost') \ journal' : f.ts < e.ts
    BY <2>2, <2>3, <2>4 DEF DrainOrder
  <2>7. \A e \in journal' : Recorded(e)' => \A f \in journal' : e.ts <= f.ts
    BY <1>0, <2>2, <2>3, <2>4, <2>5 DEF DrainOrder, Recorded
  <2>8. pc' \in Working => \A f \in journal' : cur'.ts <= f.ts
    BY <1>0, <2>2, <2>3, <2>4 DEF DrainOrder
  <2>9. \A e \in journal' \ iter' : \A f \in iter' : e = cur' \/ f.ts < e.ts
    BY <1>0, <2>2, <2>3, <2>4 DEF DrainOrder
  <2> QED
    BY <2>6, <2>7, <2>8, <2>9 DEF DrainOrder
<1>2. CASE Crash
  <2>1. PICK gone \in SUBSET Rng(unsynced) : journal' = journal \ gone /\ lost' = lost \cup gone
    BY <1>2, CrashTakesUnsynced DEF IndInv, StoreInv
  <2> QED
    BY <1>2, <2>1 DEF Crash, DrainOrder, Recorded, Working
<1>3. CASE BeginPass
  BY <1>3 DEF BeginPass, DrainOrder, Recorded, Working
<1>4. CASE NextEntry
  <2>1. PICK e \in iter : cur' = e /\ iter' = iter \ {e} /\ \A f \in iter : KeyLeq(e, f)
    BY <1>4 DEF NextEntry
  <2>2. pc = "next" /\ UNCHANGED <<journal, logged, lost, meta>>
    BY <1>4 DEF NextEntry
  <2>3. \A f \in journal \ iter : \A g \in iter : g.ts < f.ts
    BY <1>0, <2>2 DEF DrainOrder, Working
  <2>4. \A f \in iter : e.ts <= f.ts
    BY <1>0, <2>1, SMT DEF KeyLeq
  <2>5. \A f \in journal \ iter : e.ts <= f.ts
    BY <1>0, <2>1, <2>3, SMT
  <2> QED
    BY <2>1, <2>2, <2>3, <2>4, <2>5 DEF DrainOrder, Recorded
<1>5. CASE SetMetadata
  <2>1. /\ UNCHANGED <<journal, logged, lost, iter, cur>> /\ pc \in Working
        /\ meta' = [meta EXCEPT ![MetaKey(cur)] = Hash(cur.data)]
    BY <1>5 DEF SetMetadata, Working
  <2>2. ASSUME NEW e \in journal, e # cur, Recorded(e)' PROVE Recorded(e)
    <3>1. MetaKey(e) # MetaKey(cur) /\ MetaKey(e) \in MetaKeys
      BY <1>0, <2>1, <2>2 DEF MetaKey, MetaKeys, JournalEntry
    <3> QED
      BY <2>1, <2>2, <3>1 DEF Recorded, IndInv, StoreInv, TypeOK
  <2> QED
    BY <2>1, <2>2 DEF DrainOrder
<1>6. CASE DeleteJournalKey
  <2>1. /\ journal' = journal \ {cur} /\ pc \in Working /\ pc' \notin Working
        /\ UNCHANGED <<logged, lost, meta, iter>>
    BY <1>6 DEF DeleteJournalKey, Working
  <2>2. \A e \in journal' : cur.ts < e.ts
    <3>1. \A e \in journal' : e \in logged /\ cur \in logged /\ e # cur /\ cur.ts <= e.ts
      BY <1>0, <2>1 DEF DrainOrder
    <3> QED
      BY <1>0, <3>1, SMT
  <2>3. \A e \in journal' \ iter' : \A f \in iter' : f.ts < e.ts
    BY <2>1 DEF DrainOrder
  <2> QED
    BY <2>1, <2>2, <2>3 DEF DrainOrder, Recorded
<1>7. CASE OpenStore \/ ExitProcess
  BY <1>7 DEF OpenStore, ExitProcess, DrainOrder, Recorded, Working
<1>8. CASE UNCHANGED <<journal, logged, lost, meta, iter, cur>> /\ (pc' \in Working => pc \in Working)
  BY <1>8 DEF DrainOrder, Recorded
<1>9. CASE CommandExits \/ FlushDB \/ StopProcessor \/ CloseDB \/ RecordSessionStart
  BY <1>8, <1>9 DEF CommandExits, FlushDB, StopProcessor, CloseDB, RecordSessionStart
<1>10. CASE EndPass \/ Idle \/ PutChunkWithHash
  <2>1. pc' \in Working => pc \in Working
    BY <1>10 DEF EndPass, Idle, PutChunkWithHash, Working
  <2> QED
    BY <1>8, <1>10, <2>1 DEF EndPass, Idle, PutChunkWithHash
<1>11. CASE UNCHANGED vars
  BY <1>8, <1>11 DEF vars
<1> QED
  BY <1>1, <1>2, <1>3, <1>4, <1>5, <1>6, <1>7, <1>9, <1>10, <1>11 DEF Next, RunRecord, Processor

(* An error counts: after one, "no error so far" is false for good.         *)
LEMMA ErrorsCount ==
  ASSUME TypeOK, [Next]_vars, faults' = 0, Unstorable = {}
  PROVE  faults = 0 /\ ~ProcessError /\ ~LogEventFails
<1> USE DEF storeVars, procVars, historyVars
<1>1. faults \in Nat
  BY DEF TypeOK
<1>2. ~LogEventFails
  BY <1>1, SMT DEF LogEventFails
<1>3. ~ProcessError
  BY <1>1, SMT DEF ProcessError
<1>4. faults' = faults
  BY <1>2, <1>3
  DEF Next, RunRecord, Processor, vars, LogEvent, OpenStore, RecordSessionStart,
      CommandExits, FlushDB, StopProcessor, CloseDB, ExitProcess, Crash, BeginPass,
      NextEntry, EndPass, Idle, PutChunkWithHash, SetMetadata, DeleteJournalKey
<1> QED
  BY <1>2, <1>3, <1>4

(* As long as nothing has failed, what export can show has no hole: with a  *)
(* version it has every version logged before it, of whatever path, in the  *)
(* middle of a pass and after crashes, if the clock always advances.        *)
THEOREM NoHoles ==
  ASSUME MonotonicClock PROVE Spec => []NoHoleWithoutErrors
<1>1. Init => OldestFirst
  BY DEF Init, OldestFirst, DrainOrder, Working
<1>2. IndInv /\ OldestFirst /\ [Next]_vars => OldestFirst'
  BY ErrorsCount, DrainOrderStep DEF OldestFirst, IndInv, StoreInv
<1>3. IndInv /\ OldestFirst => NoHoleWithoutErrors
  <2> SUFFICES ASSUME IndInv, DrainOrder, NEW e \in logged \ lost, NEW f \in logged \ lost,
                      e.ts < f.ts, Recorded(f), e \in journal
               PROVE  FALSE
    BY DEF OldestFirst, NoHoleWithoutErrors, IndInv, ClockInv, RecordBeforeDelete
  <2>1. e.ts \in Nat /\ f.ts \in Nat
    BY TimesAreNumbers DEF IndInv, StoreInv, TypeOK
  <2>2. f.ts < e.ts \/ f.ts <= e.ts
    BY DEF DrainOrder
  <2> QED
    BY <2>1, <2>2, SMT
<1> QED
  BY <1>1, <1>2, <1>3, IndInvHolds, PTL DEF Spec

-----------------------------------------------------------------------------
(* No record is ever rewritten with other content.                          *)
THEOREM HistoryIsAppendOnly ==
  ASSUME MonotonicClock PROVE Spec => AppendOnly
<1>1. IndInv /\ [Next]_vars => [\A k \in MetaKeys : meta[k] # Nil => meta'[k] = meta[k]]_vars
  <2> SUFFICES ASSUME IndInv, [Next]_vars, NEW k \in MetaKeys, meta[k] # Nil
               PROVE  meta'[k] = meta[k]
    OBVIOUS
  <2>1. CASE SetMetadata
    <3>1. cur \in journal /\ cur \in logged /\ MetaKey(cur) \in MetaKeys
      BY <2>1 DEF SetMetadata, IndInv, StoreInv, Bookkeeping, TypeOK, Working, JournalEntry, MetaKey, MetaKeys
    <3>2. PICK e \in logged : MetaKey(e) = k /\ meta[k] = Hash(e.data)
      BY DEF IndInv, StoreInv, ObjectBeforeRecord
    <3>3. meta' = [meta EXCEPT ![MetaKey(cur)] = Hash(cur.data)] /\ meta \in [MetaKeys -> CIDs \cup {Nil}]
      BY <2>1 DEF SetMetadata, IndInv, StoreInv, TypeOK
    <3>4. k = MetaKey(cur) => e = cur
      BY <3>1, <3>2 DEF MetaKey, IndInv, ClockInv, TimesIdentify
    <3> QED
      BY <3>1, <3>2, <3>3, <3>4
  <2>2. CASE meta' = meta
    BY <2>2
  <2> QED
    BY <2>1, <2>2
    DEF Next, LogEventFails, RunRecord, Processor, vars, storeVars, LogEvent, OpenStore, RecordSessionStart,
        CommandExits, FlushDB, StopProcessor, CloseDB, ExitProcess, Crash, BeginPass,
        NextEntry, EndPass, Idle, PutChunkWithHash, DeleteJournalKey, ProcessError
<1> QED
  BY <1>1, IndInvHolds, PTL DEF Spec, AppendOnly

(* An entry that a crash could take has no record yet.                      *)
LEMMA UnsyncedUnrecorded ==
  ASSUME MonotonicClock, IndInv, NEW e \in Rng(unsynced) PROVE ~Recorded(e)
<1> SUFFICES ASSUME Recorded(e) PROVE FALSE
  OBVIOUS
<1>1. e \in logged /\ e.data \in Contents /\ MetaKey(e) \in MetaKeys
  BY DEF IndInv, StoreInv, Bookkeeping, TypeOK, JournalEntry, MetaKey, MetaKeys
<1>2. meta[MetaKey(e)] # Nil
  BY <1>1, HashType DEF Recorded
<1>3. PICK f \in (logged \ lost) \ Rng(unsynced) : MetaKey(f) = MetaKey(e)
  BY <1>1, <1>2 DEF IndInv, StoreInv, ObjectBeforeRecord
<1>4. f = e
  BY <1>1, <1>3 DEF IndInv, ClockInv, TimesIdentify, MetaKey
<1> QED
  BY <1>3, <1>4

(* A crash loses a tail: with an unsynced event all later ones, and only    *)
(* events that have no record.                                              *)
THEOREM CrashLosesTail ==
  ASSUME MonotonicClock PROVE Spec => CrashTakesOnlyTail
<1>1. ASSUME IndInv, [Next]_vars, NEW e \in lost' \ lost
      PROVE  ~Recorded(e) /\ \A f \in logged : f.ts > e.ts => f \in lost'
  <2> USE DEF storeVars, procVars, historyVars
  <2>1. CASE Crash
    <3>1. PICK n \in 0..Len(unsynced) :
            lost' = lost \cup {unsynced[i] : i \in (n+1)..Len(unsynced)}
      BY <2>1 DEF Crash
    <3>2. DOMAIN unsynced = 1..Len(unsynced) /\ Len(unsynced) \in Nat
      BY <1>1, SMT DEF IndInv, StoreInv, TypeOK
    <3>3. PICK i \in (n+1)..Len(unsynced) : e = unsynced[i]
      BY <1>1, <3>1
    <3>4. i \in DOMAIN unsynced /\ e \in Rng(unsynced)
      BY <3>2, <3>3, SMT DEF Rng
    <3>6. ~Recorded(e)
      BY <1>1, <3>4, UnsyncedUnrecorded
    <3>7. ASSUME NEW f \in logged, f.ts > e.ts PROVE f \in lost'
      <4>1. PICK j \in DOMAIN unsynced : i < j /\ f = unsynced[j]
        BY <1>1, <3>3, <3>4, <3>7 DEF IndInv, ClockInv, UnsyncedIsTail
      <4> QED
        BY <3>1, <3>2, <4>1, SMT
    <3> QED
      BY <3>6, <3>7
  <2>2. CASE lost' = lost
    BY <1>1, <2>2
  <2> QED
    BY <1>1, <2>1, <2>2
    DEF Next, LogEventFails, RunRecord, Processor, vars, LogEvent, OpenStore, RecordSessionStart,
        CommandExits, FlushDB, StopProcessor, CloseDB, ExitProcess, BeginPass,
        NextEntry, EndPass, Idle, PutChunkWithHash, SetMetadata, DeleteJournalKey, ProcessError
<1>2. IndInv /\ [Next]_vars =>
        [\A e \in lost' \ lost :
           /\ ~Recorded(e)
           /\ \A f \in logged : f.ts > e.ts => f \in lost']_vars
  BY <1>1
<1> QED
  BY <1>2, IndInvHolds, PTL DEF Spec, CrashTakesOnlyTail

(* Export of a moment depends only on the records up to it.                 *)
LEMMA LoadDependsOnPast ==
  ASSUME NEW t \in Timestamps,
         \A k \in MetaKeys : k[2] <= t => meta'[k] = meta[k]
  PROVE  LoadMetadataAt(t)' = LoadMetadataAt(t)
<1> DEFINE Visible == {k \in MetaKeys : meta[k] # Nil /\ UpTo(k[2], t)}
<1> DEFINE Newest == {k \in Visible : \A j \in Visible : j[1] = k[1] => j[2] <= k[2]}
<1>1. Visible' = Visible
  BY DEF UpTo
<1>2. Newest' = Newest
  BY <1>1
<1>3. \A k \in Newest : meta'[k] = meta[k]
  BY DEF UpTo
<1>4. [k \in Newest |-> meta[k]]' = [k \in Newest |-> meta[k]]
  BY <1>2, <1>3
<1> QED
  BY <1>4 DEF LoadMetadataAt

(* The past is frozen: once nothing that old is in the journal, export of   *)
(* that moment never changes again.                                         *)
THEOREM ExportOfPastFrozen ==
  ASSUME MonotonicClock PROVE Spec => PastIsFrozen
<1>1. ASSUME IndInv, [Next]_vars, NEW t \in Timestamps, Settled(t)
      PROVE  Settled(t)' /\ LoadMetadataAt(t)' = LoadMetadataAt(t)
  <2> USE DEF storeVars, procVars, historyVars
  <2>0. /\ TypeOK /\ t \in Nat /\ clock \in Nat /\ \A u \in Timestamps : u \in Nat
        /\ \A e \in JournalEntry : e.ts \in Nat
    BY <1>1, TimesAreNumbers, TimeAssumption DEF IndInv, StoreInv
  <2>1. Settled(t)'
    <3>1. clock' \in Nat /\ clock' >= clock
      <4>1. CASE \E p \in Paths, d \in Contents : LogEvent(p, d)
        BY <2>0, <4>1, SMT DEF LogEvent, ClockReads
      <4>2. CASE RecordSessionStart
        <5>1. clock' = clock \/ \E now \in Timestamps : ClockReads(now) /\ clock' = now
          BY <4>2 DEF RecordSessionStart
        <5> QED
          BY <2>0, <5>1, SMT DEF ClockReads
      <4>3. CASE clock' = clock
        BY <2>0, <4>3, SMT
      <4> QED
        BY <1>1, <4>1, <4>2, <4>3
        DEF Next, LogEventFails, RunRecord, Processor, vars, OpenStore, CommandExits, FlushDB, StopProcessor,
            CloseDB, ExitProcess, Crash, BeginPass, NextEntry, EndPass, Idle, PutChunkWithHash,
            SetMetadata, DeleteJournalKey, ProcessError
    <3>2. \A e \in journal' : e.ts > t
      <4>1. CASE \E p \in Paths, d \in Contents : LogEvent(p, d)
        <5>1. PICK e \in JournalEntry \ logged : journal' = journal \cup {e} /\ ClockReads(e.ts)
          BY <2>0, <4>1, LogEventAddsFresh
        <5> QED
          BY <1>1, <2>0, <5>1, SMT DEF ClockReads, Settled
      <4>2. CASE journal' \subseteq journal
        BY <1>1, <4>2 DEF Settled
      <4> QED
        BY <1>1, <4>1, <4>2
        DEF Next, LogEventFails, RunRecord, Processor, vars, OpenStore, RecordSessionStart, CommandExits,
            FlushDB, StopProcessor, CloseDB, ExitProcess, Crash, BeginPass, NextEntry,
            EndPass, Idle, PutChunkWithHash, SetMetadata, DeleteJournalKey, ProcessError
    <3> QED
      BY <1>1, <2>0, <3>1, <3>2, SMT DEF Settled
  <2>2. \A k \in MetaKeys : k[2] <= t => meta'[k] = meta[k]
    <3>1. CASE SetMetadata
      <4>1. cur \in journal /\ cur \in JournalEntry /\ meta \in [MetaKeys -> CIDs \cup {Nil}]
        BY <1>1, <3>1 DEF SetMetadata, IndInv, StoreInv, Bookkeeping, TypeOK, Working
      <4>2. MetaKey(cur)[2] > t /\ MetaKey(cur)[2] \in Nat
        BY <1>1, <2>0, <4>1 DEF MetaKey, Settled
      <4>3. meta' = [meta EXCEPT ![MetaKey(cur)] = Hash(cur.data)]
        BY <3>1 DEF SetMetadata
      <4> QED
        BY <2>0, <4>1, <4>2, <4>3, SMT
    <3>2. CASE meta' = meta
      BY <3>2
    <3> QED
      BY <1>1, <3>1, <3>2
      DEF Next, LogEventFails, RunRecord, Processor, vars, LogEvent, OpenStore, RecordSessionStart,
          CommandExits, FlushDB, StopProcessor, CloseDB, ExitProcess, Crash, BeginPass,
          NextEntry, EndPass, Idle, PutChunkWithHash, DeleteJournalKey, ProcessError
  <2> QED
    BY <2>1, <2>2, LoadDependsOnPast
<1>2. IndInv /\ [Next]_vars =>
        [\A t \in Timestamps :
           Settled(t) => Settled(t)' /\ LoadMetadataAt(t)' = LoadMetadataAt(t)]_vars
  BY <1>1
<1> QED
  BY <1>2, IndInvHolds, PTL DEF Spec, PastIsFrozen

-----------------------------------------------------------------------------
(* If a crash keeps n of m unsynced entries and not all, it takes the next. *)
LEMMA NextIndex ==
  ASSUME NEW m \in Nat, NEW n \in 0..m, n # m
  PROVE  n + 1 \in (n+1)..m /\ n + 1 \in 1..m
BY SMT

(* The pipeline implements the abstract version history, step by step:      *)
(* LogEvent accepts, SetMetadata publishes or stutters, a crash loses a     *)
(* tail, and everything else stutters.                                      *)
THEOREM Refinement ==
  ASSUME MonotonicClock PROVE Spec => ImplementsHistory
<1> DEFINE Pending == {e \in journal : ~Recorded(e)}
<1> DEFINE Published == {e \in logged : Recorded(e)}
<1>1. Init => History!Init
  BY DEF Init, History!Init
<1>2. IndInv /\ [Next]_vars => [History!Next]_<<Pending, Published, lost>>
  <2> SUFFICES ASSUME IndInv, [Next]_vars
               PROVE  History!Next \/ UNCHANGED <<Pending, Published, lost>>
    OBVIOUS
  <2> USE DEF storeVars, procVars, historyVars
  <2>0. /\ TypeOK /\ Bookkeeping /\ TimesIdentify
        /\ \A e \in logged : e \in JournalEntry /\ MetaKey(e) \in MetaKeys /\ e.ts \in Nat
    BY TimesAreNumbers
    DEF IndInv, StoreInv, ClockInv, TypeOK, JournalEntry, MetaKey, MetaKeys
  <2>1. CASE \E p \in Paths, d \in Contents : LogEvent(p, d)
    <3>1. PICK p \in Paths, d \in Contents : LogEvent(p, d)
      BY <2>1
    <3>2. PICK e \in JournalEntry \ logged :
            /\ journal' = journal \cup {e} /\ logged' = logged \cup {e}
            /\ ClockReads(e.ts)
      BY <2>0, <3>1, LogEventAddsFresh
    <3>3. meta' = meta /\ lost' = lost
      BY <3>1 DEF LogEvent
    <3>4. ~Recorded(e) /\ ~Recorded(e)'
      <4> SUFFICES ASSUME Recorded(e) PROVE FALSE
        BY <3>3 DEF Recorded
      <4>1. MetaKey(e) \in MetaKeys /\ e.data \in Contents /\ e.ts \in Nat
        BY <2>0, <3>2, TimesAreNumbers DEF JournalEntry, MetaKey, MetaKeys
      <4>2. PICK f \in logged : MetaKey(f) = MetaKey(e)
        BY <4>1, HashType DEF IndInv, StoreInv, ObjectBeforeRecord, Recorded
      <4>3. f.ts = e.ts /\ f.ts <= clock /\ e.ts > clock /\ clock \in Nat
        BY <2>0, <3>2, <4>2, TimesAreNumbers DEF MetaKey, TimesIdentify, ClockReads
      <4> QED
        BY <4>1, <4>3, SMT
    <3>5. \A f \in logged : Recorded(f)' <=> Recorded(f)
      BY <3>3 DEF Recorded
    <3>6. Pending' = Pending \cup {e} /\ Published' = Published
      BY <2>0, <3>2, <3>4, <3>5 DEF Bookkeeping
    <3>7. e \notin Pending \cup Published \cup lost
      BY <2>0, <3>2 DEF Bookkeeping
    <3>8. History!Accept(e)
      BY <3>3, <3>6, <3>7 DEF History!Accept
    <3> QED
      BY <3>2, <3>8 DEF History!Next
  <2>2. CASE SetMetadata
    <3>1. /\ cur \in journal /\ cur \in logged /\ journal' = journal /\ logged' = logged
          /\ lost' = lost /\ meta' = [meta EXCEPT ![MetaKey(cur)] = Hash(cur.data)]
          /\ meta \in [MetaKeys -> CIDs \cup {Nil}]
      BY <2>0, <2>2 DEF SetMetadata, Bookkeeping, Working, TypeOK
    <3>2. Recorded(cur)'
      <4>1. MetaKey(cur) \in MetaKeys
        BY <2>0, <3>1
      <4>2. meta'[MetaKey(cur)] = Hash(cur.data) /\ cur' = cur
        BY <2>2, <3>1, <4>1 DEF SetMetadata
      <4> QED
        BY <4>2 DEF Recorded
    <3>3. \A e \in logged : e # cur => (Recorded(e)' <=> Recorded(e))
      <4> SUFFICES ASSUME NEW e \in logged, e # cur PROVE meta'[MetaKey(e)] = meta[MetaKey(e)]
        BY DEF Recorded
      <4>1. MetaKey(e) # MetaKey(cur)
        BY <2>0, <3>1 DEF MetaKey, TimesIdentify
      <4> QED
        BY <2>0, <3>1, <4>1
    <3>4. CASE Recorded(cur)
      BY <2>0, <2>2, <3>1, <3>2, <3>3, <3>4 DEF SetMetadata, Bookkeeping
    <3>5. CASE ~Recorded(cur)
      <4>1. cur \in Pending /\ Pending' = Pending \ {cur} /\ Published' = Published \cup {cur}
        BY <2>0, <2>2, <3>1, <3>2, <3>3, <3>5 DEF SetMetadata, Bookkeeping
      <4>2. History!Publish(cur)
        BY <3>1, <4>1 DEF History!Publish
      <4> QED
        BY <2>0, <3>1, <4>2 DEF History!Next
    <3> QED
      BY <3>4, <3>5
  <2>3. CASE Crash
    <3>1. PICK n \in 0..Len(unsynced) :
            /\ journal' = journal \ {unsynced[i] : i \in (n+1)..Len(unsynced)}
            /\ lost' = lost \cup {unsynced[i] : i \in (n+1)..Len(unsynced)}
      BY <2>3 DEF Crash
    <3> DEFINE gone == {unsynced[i] : i \in (n+1)..Len(unsynced)}
    <3>2. meta' = meta /\ logged' = logged /\ \A e \in logged : Recorded(e)' <=> Recorded(e)
      BY <2>3 DEF Crash, Recorded
    <3>3. DOMAIN unsynced = 1..Len(unsynced) /\ Len(unsynced) \in Nat
      BY <2>0, SMT DEF TypeOK
    <3>4. gone \subseteq Rng(unsynced) /\ Rng(unsynced) \subseteq journal /\ journal \subseteq logged
      BY <2>0, <3>3, SMT DEF Rng, Bookkeeping
    <3>5. Pending' = Pending \ gone /\ Published' = Published
      BY <3>1, <3>2, <3>4
    <3>6. CASE n = Len(unsynced)
      <4>1. gone = {}
        BY <3>3, <3>6, SMT
      <4> QED
        BY <3>1, <3>5, <4>1
    <3>7. CASE n # Len(unsynced)
      <4> DEFINE first == unsynced[n + 1]
      <4>0. n + 1 \in (n+1)..Len(unsynced) /\ n + 1 \in 1..Len(unsynced)
        BY <3>3, <3>7, NextIndex
      <4>1. n + 1 \in DOMAIN unsynced /\ first \in gone /\ first \in logged
        BY <3>3, <3>4, <4>0
      <4>2. ASSUME NEW v \in logged, v.ts >= first.ts PROVE v \in gone
        <5>1. CASE v = first
          BY <4>1, <5>1
        <5>2. CASE v # first
          <6>1. v.ts > first.ts
            BY <2>0, <4>1, <4>2, <5>2, SMT DEF TimesIdentify
          <6>2. PICK j \in DOMAIN unsynced : n + 1 < j /\ v = unsynced[j]
            BY <4>1, <6>1 DEF IndInv, ClockInv, UnsyncedIsTail
          <6> QED
            BY <3>3, <6>2, SMT
        <5> QED
          BY <5>1, <5>2
      <4>3. ASSUME NEW v \in gone PROVE v.ts >= first.ts /\ v \in Pending
        <5>1. PICK i \in (n+1)..Len(unsynced) : v = unsynced[i]
          OBVIOUS
        <5>2. i = n + 1 \/ first.ts < v.ts
          BY <3>3, <4>1, <5>1, SMT DEF IndInv, ClockInv, UnsyncedIsTail
        <5>3. v \in logged /\ v \in journal /\ ~Recorded(v)
          BY <3>4, UnsyncedUnrecorded
        <5> QED
          BY <2>0, <4>1, <5>1, <5>2, <5>3, SMT
      <4>4. \A v \in logged : v.ts \in Nat /\ first.ts \in Nat
        BY <2>0, <4>1
      <4>5. \A v \in Published : v.ts < first.ts
        BY <3>4, <4>2, <4>4, UnsyncedUnrecorded, SMT
      <4>6. Pending' = {v \in Pending : v.ts < first.ts}
        BY <3>4, <3>5, <4>2, <4>3, <4>4, SMT
      <4>7. lost' = lost \cup {v \in Pending : v.ts >= first.ts}
        BY <3>1, <3>4, <4>2, <4>3
      <4>8. History!LoseFrom(first.ts)
        BY <3>5, <4>5, <4>6, <4>7 DEF History!LoseFrom
      <4> QED
        BY <4>1, <4>3, <4>8 DEF History!Next
    <3> QED
      BY <3>6, <3>7
  <2>4. CASE DeleteJournalKey
    <3>1. Recorded(cur) /\ journal' = journal \ {cur} /\ meta' = meta /\ logged' = logged /\ lost' = lost
      BY <2>4 DEF DeleteJournalKey, IndInv, ClockInv, RecordBeforeDelete
    <3>2. \A e \in logged : Recorded(e)' <=> Recorded(e)
      BY <3>1 DEF Recorded
    <3> QED
      BY <2>0, <3>1, <3>2 DEF Bookkeeping
  <2>5. CASE UNCHANGED <<journal, meta, logged, lost>>
    BY <2>5 DEF Recorded
  <2> QED
    BY <2>1, <2>2, <2>3, <2>4, <2>5
    DEF Next, LogEventFails, RunRecord, Processor, vars, OpenStore, RecordSessionStart, CommandExits,
        FlushDB, StopProcessor, CloseDB, ExitProcess, BeginPass, NextEntry, EndPass, Idle,
        PutChunkWithHash, ProcessError
<1> QED
  BY <1>1, <1>2, IndInvHolds, PTL DEF Spec, ImplementsHistory, History!Spec, History!vars

=============================================================================
