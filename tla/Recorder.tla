------------------------------ MODULE Recorder ------------------------------
(***************************************************************************)
(* The recording pipeline of `diffkeeper record`.  The watcher appends      *)
(* events to a journal in Pebble without syncing it; a background           *)
(* processor drains the journal into the content-addressed store and the    *)
(* version metadata, syncing every write; runRecord opens and closes the    *)
(* database around the two.  The process may be killed at any point and     *)
(* `record` run again on the same state directory.                          *)
(***************************************************************************)
EXTENDS Integers, Sequences, FiniteSets

CONSTANTS
  Paths,          \* relative file paths
  Contents,       \* file contents
  Timestamps,     \* readings of time.Now().UnixNano()
  Suffixes,       \* the random part of a journal key
  Unstorable,     \* contents whose processing fails however often it is tried
  MonotonicClock, \* does every reading of the wall clock exceed the last one?
  MaxFaults,      \* bound on the transient errors of the pipeline
  Nil             \* "no such key"

(* The sha256 content address of d (PutChunkWithHash) and the value stored  *)
(* under it (compressForStorage).                                           *)
Hash(d) == <<"sha256", d>>
Compress(d) == <<"DKZ1", d>>
Decompress(b) == IF b[1] = "DKZ1" THEN b[2] ELSE b

CIDs == {Hash(d) : d \in Contents}
Blobs == {Compress(d) : d \in Contents}
JournalEntry == [ts : Timestamps, sfx : Suffixes, path : Paths, data : Contents]
MetaKeys == Paths \X Timestamps

ASSUME TimeAssumption == /\ Timestamps \subseteq Nat \ {0}
                         /\ Suffixes \subseteq Nat
ASSUME NilAssumption == Nil \notin CIDs \cup Blobs \cup JournalEntry \cup Timestamps
ASSUME ModeAssumption == /\ MonotonicClock \in BOOLEAN
                         /\ MaxFaults \in Nat
                         /\ Unstorable \subseteq Contents

VARIABLES
  journal,      \* the entries under "l:"
  unsynced,     \* those committed since the WAL was last synced, in order
  cas,          \* the objects under "c:"
  meta,         \* the CID recorded under "m:<path>:<timestamp>"
  sessionStart, \* the time under "m:session:start"
  clock,        \* the last reading of the wall clock
  phase,        \* how far runRecord is
  pc,           \* where processorLoop is
  iter,         \* the entries its iterator has still to visit
  cur,          \* the entry processJournalEntry works on
  processed,    \* did this pass visit an entry?
  faults,       \* transient errors so far
  logged,       \* history: every entry ever committed to the journal
  lost,         \* history: the entries a crash took from the journal
  startFailed,  \* history: did reading or writing the session start ever fail?
  slept         \* history: has this session slept and flushed after its command?

storeVars == <<journal, unsynced, cas, meta, sessionStart>>
procVars == <<pc, iter, cur, processed, faults>>
historyVars == <<logged, lost, startFailed, slept>>
vars == <<storeVars, procVars, historyVars, clock, phase>>

-----------------------------------------------------------------------------

(* Variants of definitions, each with a slip the code could have, stand     *)
(* before the definition they vary and are used by no specification.        *)

(* Metadata keyed by path alone, as before versions were kept.              *)
LatestKey(e) == <<e.path, CHOOSE t \in Timestamps : TRUE>>
MetaKey(e) == <<e.path, e.ts>>
Rng(s) == {s[i] : i \in DOMAIN s}

(* Journal keys are "l:%020d:<suffix>": the iterator visits them by time,   *)
(* and by the random suffix within one nanosecond.                          *)
KeyLeq(e, f) == e.ts < f.ts \/ (e.ts = f.ts /\ e.sfx <= f.sfx)

(* A pebble.Sync commit, db.Flush and db.Close sync the WAL up to and       *)
(* including the last commit, so nothing committed before stays unsynced.   *)
SyncWAL == unsynced' = <<>>

(* CASStore.Has, before the first write of an object.                       *)
AlwaysHas(cid) == TRUE
Has(cid) == cas[cid] # Nil

StartNeverKnown == FALSE
StartKnown == sessionStart # Nil

ClockReads(now) == MonotonicClock => now > clock

(* The database is usable from pebble.Open until db.Close.                  *)
DBOpen == phase \notin {"down", "closed"}

Init ==
  /\ journal = {} /\ unsynced = <<>>
  /\ cas = [c \in CIDs |-> Nil] /\ meta = [k \in MetaKeys |-> Nil]
  /\ sessionStart = Nil /\ clock = 0 /\ phase = "down"
  /\ pc = "exited" /\ iter = {} /\ cur = Nil /\ processed = FALSE /\ faults = 0
  /\ logged = {} /\ lost = {} /\ startFailed = FALSE /\ slept = FALSE

-----------------------------------------------------------------------------
(* runRecord.                                                               *)

(* pebble.Open, NewCASStore and StartProcessor.                             *)
OpenStore ==
  /\ phase = "down"
  /\ phase' = "opened"
  /\ pc' = "top" /\ iter' = {} /\ cur' = Nil /\ processed' = FALSE
  /\ UNCHANGED <<storeVars, historyVars, clock, faults>>

(* recordSessionStart keeps the start of the first session.  Any error of   *)
(* db.Get counts as "no start yet", so that a failed read overwrites it; an *)
(* error of db.Set is only logged.  startFSRecorder then starts the watcher. *)
RecordSessionStart ==
  /\ phase = "opened"
  /\ phase' = "recording"
  /\ \/ StartKnown /\ UNCHANGED <<sessionStart, unsynced, clock, startFailed>>
     \/ /\ \E now \in Timestamps :
             ClockReads(now) /\ sessionStart' = now /\ clock' = now
        /\ SyncWAL /\ startFailed' = (startFailed \/ StartKnown)
     \/ startFailed' = TRUE /\ UNCHANGED <<sessionStart, unsynced, clock>>
  /\ UNCHANGED <<journal, cas, meta, procVars, logged, lost, slept>>

(* cmd.Wait returns; runRecord sleeps 200ms, during which everything else   *)
(* goes on, or not: the sleep waits for nothing.                            *)
CommandExits ==
  /\ phase = "recording"
  /\ phase' = "sleeping"
  /\ UNCHANGED <<storeVars, procVars, historyVars, clock>>

(* db.Flush after the sleep.                                                *)
FlushDB ==
  /\ phase = "sleeping"
  /\ phase' = "flushed" /\ slept' = TRUE
  /\ SyncWAL
  /\ UNCHANGED <<journal, cas, meta, sessionStart, procVars, logged, lost, startFailed, clock>>

(* The deferred mgr.Close, cancel and stopProcessor, after the flush or     *)
(* after an early return (no watcher, no eBPF manager, no command).  They   *)
(* wait neither for the watcher nor for the processor.                      *)
StopProcessor ==
  /\ phase \in {"recording", "flushed"}
  /\ phase' = "stopped"
  /\ UNCHANGED <<storeVars, procVars, historyVars, clock>>

(* The deferred db.Close, which closes the WAL.                             *)
CloseDB ==
  /\ phase = "stopped"
  /\ phase' = "closed"
  /\ SyncWAL
  /\ UNCHANGED <<journal, cas, meta, sessionStart, procVars, historyVars, clock>>

(* The process ends, by returning from main or because a goroutine that is  *)
(* still running touches the closed database.                               *)
ExitProcess ==
  /\ phase = "closed"
  /\ phase' = "down" /\ slept' = FALSE
  /\ pc' = "exited" /\ iter' = {} /\ cur' = Nil /\ processed' = FALSE
  /\ UNCHANGED <<storeVars, logged, lost, startFailed, clock, faults>>

(* The process is killed or the machine stops: of the unsynced commits some *)
(* prefix is on disk.                                                       *)
Crash ==
  /\ phase # "down"
  /\ phase' = "down" /\ slept' = FALSE
  /\ \E n \in 0..Len(unsynced) :
       LET gone == {unsynced[i] : i \in (n+1)..Len(unsynced)}
       IN  journal' = journal \ gone /\ lost' = lost \cup gone
  /\ unsynced' = <<>>
  /\ pc' = "exited" /\ iter' = {} /\ cur' = Nil /\ processed' = FALSE
  /\ UNCHANGED <<cas, meta, sessionStart, faults, clock, logged, startFailed>>

-----------------------------------------------------------------------------
(* Journal.LogEvent, called by the watcher goroutine: a batch committed     *)
(* with pebble.NoSync under a key that no earlier entry has.                *)
LogEvent(p, d) ==
  /\ phase \in {"recording", "sleeping", "flushed", "stopped"}
  /\ \E now \in Timestamps, s \in Suffixes :
       LET e == [ts |-> now, sfx |-> s, path |-> p, data |-> d]
       IN  /\ ClockReads(now)
           /\ \A f \in logged : f.ts # now \/ f.sfx # s
           /\ journal' = journal \cup {e}
           /\ unsynced' = Append(unsynced, e)
           /\ logged' = logged \cup {e}
           /\ clock' = now
  /\ UNCHANGED <<cas, meta, sessionStart, procVars, lost, startFailed, slept, phase>>

(* LogEvent returns an error, which the watcher ignores.                    *)
LogEventFails ==
  /\ phase \in {"recording", "sleeping", "flushed", "stopped"}
  /\ faults < MaxFaults /\ faults' = faults + 1
  /\ UNCHANGED <<storeVars, historyVars, clock, phase, pc, iter, cur, processed>>

-----------------------------------------------------------------------------
(* processorLoop.                                                           *)

(* The head of the loop: return if the context is cancelled, otherwise      *)
(* open an iterator, which sees the journal as it is now.                   *)
BeginPass ==
  /\ DBOpen /\ pc = "top"
  /\ IF phase = "stopped"
     THEN pc' = "exited" /\ UNCHANGED <<iter, processed>>
     ELSE pc' = "next" /\ iter' = journal /\ processed' = FALSE
  /\ UNCHANGED <<storeVars, historyVars, clock, phase, cur, faults>>

(* iter.First or iter.Next finds an entry.                                  *)
NextEntry ==
  /\ DBOpen /\ pc = "next"
  /\ \E e \in iter :
       /\ \A f \in iter : KeyLeq(e, f)
       /\ cur' = e
       /\ iter' = iter \ {e}
  /\ processed' = TRUE
  /\ pc' = "put"
  /\ UNCHANGED <<storeVars, historyVars, clock, phase, faults>>

(* The iterator is exhausted: sleep only if this pass visited nothing.      *)
EndPass ==
  /\ DBOpen /\ pc = "next" /\ iter = {}
  /\ pc' = IF processed THEN "top" ELSE "idle"
  /\ UNCHANGED <<storeVars, historyVars, clock, phase, iter, cur, processed, faults>>

(* The idle select: the timer, or the cancelled context.                    *)
Idle ==
  /\ DBOpen /\ pc = "idle"
  /\ \/ pc' = "top"
     \/ phase = "stopped" /\ pc' = "exited"
  /\ UNCHANGED <<storeVars, historyVars, clock, phase, iter, cur, processed, faults>>

(* processJournalEntry: PutChunkWithHash writes the object unless it is     *)
(* already there.                                                           *)
PutChunkWithHash ==
  /\ DBOpen /\ pc = "put" /\ cur.data \notin Unstorable
  /\ \/ Has(Hash(cur.data)) /\ UNCHANGED <<cas, unsynced>>
     \/ /\ ~Has(Hash(cur.data))
        /\ cas' = [cas EXCEPT ![Hash(cur.data)] = Compress(cur.data)]
        /\ SyncWAL
  /\ pc' = "meta"
  /\ UNCHANGED <<journal, meta, sessionStart, historyVars, clock, phase, iter, cur, processed, faults>>

(* processJournalEntry: write the metadata record.                          *)
SetMetadataNoSync ==
  /\ DBOpen /\ pc = "meta"
  /\ meta' = [meta EXCEPT ![MetaKey(cur)] = Hash(cur.data)]
  /\ pc' = "delete"
  /\ UNCHANGED <<journal, unsynced, cas, sessionStart, historyVars, clock, phase, iter, cur, processed, faults>>

SetMetadata ==
  /\ DBOpen /\ pc = "meta"
  /\ meta' = [meta EXCEPT ![MetaKey(cur)] = Hash(cur.data)]
  /\ SyncWAL
  /\ pc' = "delete"
  /\ UNCHANGED <<journal, cas, sessionStart, historyVars, clock, phase, iter, cur, processed, faults>>

(* processJournalEntry: delete the journal key.                             *)
DeleteJournalKey ==
  /\ DBOpen /\ pc = "delete"
  /\ journal' = journal \ {cur}
  /\ SyncWAL
  /\ pc' = "next" /\ cur' = Nil
  /\ UNCHANGED <<cas, meta, sessionStart, historyVars, clock, phase, iter, processed, faults>>

(* processJournalEntry returns an error from any of its steps: processorLoop *)
(* logs it and goes on with the next entry, leaving this one in the journal. *)
DropOnError ==
  /\ DBOpen /\ pc \in {"put", "meta", "delete"} /\ faults < MaxFaults
  /\ journal' = journal \ {cur} /\ SyncWAL
  /\ pc' = "next" /\ cur' = Nil /\ faults' = faults + 1
  /\ UNCHANGED <<cas, meta, sessionStart, historyVars, clock, phase, iter, processed>>

AbortPass ==
  /\ DBOpen /\ pc = "put" /\ cur.data \in Unstorable
  /\ pc' = "top" /\ cur' = Nil
  /\ UNCHANGED <<storeVars, historyVars, clock, phase, iter, processed, faults>>

ProcessError ==
  /\ DBOpen /\ pc \in {"put", "meta", "delete"}
  /\ \/ pc = "put" /\ cur.data \in Unstorable /\ UNCHANGED faults
     \/ faults < MaxFaults /\ faults' = faults + 1
  /\ pc' = "next" /\ cur' = Nil
  /\ UNCHANGED <<storeVars, historyVars, clock, phase, iter, processed>>

Processor ==
  \/ BeginPass \/ NextEntry \/ EndPass \/ Idle
  \/ PutChunkWithHash \/ SetMetadata \/ DeleteJournalKey \/ ProcessError

RunRecord ==
  \/ OpenStore \/ RecordSessionStart \/ CommandExits \/ FlushDB
  \/ StopProcessor \/ CloseDB \/ ExitProcess

Next ==
  \/ \E p \in Paths, d \in Contents : LogEvent(p, d)
  \/ LogEventFails
  \/ RunRecord
  \/ Processor
  \/ Crash

Spec == Init /\ [][Next]_vars

(* The Go scheduler runs the processor goroutine.                           *)
FairSpec == Spec /\ WF_vars(Processor)

-----------------------------------------------------------------------------
(* What the read side sees.                                                 *)

(* CASStore.Get.                                                            *)
Get(cid) == IF cas[cid] = Nil THEN Nil ELSE Decompress(cas[cid])

(* loadMetadataAt: for every path the last record that is not after cutoff. *)
NoCutoff(t, cutoff) == TRUE
UpTo(t, cutoff) == t <= cutoff

LoadMetadataAt(cutoff) ==
  LET Visible == {k \in MetaKeys : meta[k] # Nil /\ UpTo(k[2], cutoff)}
      Newest == {k \in Visible : \A j \in Visible : j[1] = k[1] => j[2] <= k[2]}
  IN  [k \in Newest |-> meta[k]]

Recorded(e) == meta[MetaKey(e)] = Hash(e.data)

-----------------------------------------------------------------------------
Phases == {"down", "opened", "recording", "sleeping", "flushed", "stopped", "closed"}
Working == {"put", "meta", "delete"}

(* Every variable holds a value the code can store there, and the processor *)
(* has an entry in hand exactly while processJournalEntry runs.             *)
TypeOK ==
  /\ journal \subseteq JournalEntry
  /\ unsynced \in Seq(JournalEntry)
  /\ cas \in [CIDs -> Blobs \cup {Nil}]
  /\ meta \in [MetaKeys -> CIDs \cup {Nil}]
  /\ sessionStart \in Timestamps \cup {Nil}
  /\ clock \in Timestamps \cup {0}
  /\ phase \in Phases
  /\ pc \in {"exited", "top", "next", "idle"} \cup Working
  /\ iter \subseteq JournalEntry
  /\ cur \in JournalEntry \cup {Nil}
  /\ (cur # Nil) <=> (pc \in Working)
  /\ processed \in BOOLEAN
  /\ faults \in Nat
  /\ logged \subseteq JournalEntry
  /\ lost \subseteq JournalEntry
  /\ startFailed \in BOOLEAN
  /\ slept \in BOOLEAN

(* Whatever crash came when, a metadata record names an object that is in   *)
(* the store and decompresses to the content that was logged under that     *)
(* path and time: export never meets a dangling CID.  Rests on              *)
(* processJournalEntry writing the object before the record.                *)
MetadataBacked ==
  \A k \in MetaKeys : meta[k] # Nil =>
    \E e \in logged \ lost :
      MetaKey(e) = k /\ meta[k] = Hash(e.data) /\ Get(meta[k]) = e.data

(* An event that LogEvent committed and no crash took is still in the       *)
(* journal or has its own record, with its content in the store: neither    *)
(* errors, retries nor restarts lose it.  "Adding {timestamp} to the        *)
(* metadata key allows us to store every version of a file."                *)
NoVersionLost ==
  \A e \in logged \ lost :
    e \in journal \/ (Recorded(e) /\ Get(Hash(e.data)) = e.data)

(* The same for any clock: an event that LogEvent committed and no crash    *)
(* took is in the journal, or there is a record under its path and time,    *)
(* with its content in the store, which is the event's own or that of       *)
(* another event of the file, stamped in the same nanosecond.               *)
LostOnlyToTwin ==
  \A e \in logged \ lost :
    e \in journal \/ \E f \in logged \ lost :
      MetaKey(f) = MetaKey(e) /\ Recorded(f) /\ Get(Hash(f.data)) = f.data

(* As long as nothing has failed, export never shows a version without all  *)
(* those logged before it, of whatever path: in the middle of a pass, after *)
(* a crash and between sessions, what is visible has no hole.  Rests on the *)
(* keys' order, in which every pass visits the journal from its oldest      *)
(* entry, and on the clock.                                                 *)
NoHoleWithoutErrors ==
  faults = 0 /\ Unstorable = {} =>
    \A e, f \in logged \ lost : e.ts < f.ts /\ Recorded(f) => Recorded(e)

(* The iterator of a pass has exactly one next entry until it is exhausted, *)
(* whatever the clock does: keys are ordered and no two are equal.          *)
NextEntryDetermined ==
  pc = "next" /\ iter # {} =>
    \E e \in iter : \A f \in iter : KeyLeq(e, f) /\ (KeyLeq(f, e) => f = e)

(* Only the end of a process between the start of its watcher and db.Close  *)
(* takes events: a session that closes the database, drained or not, leaves *)
(* every one to the next.                                                   *)
CloseKeepsEvents ==
  [][lost' # lost => phase \notin {"down", "opened", "closed"}]_vars

(* A crash takes only events that were never visible to export, and with    *)
(* one event every later one: what survives has no hole.                    *)
CrashTakesOnlyTail ==
  [][\A e \in lost' \ lost :
       /\ ~Recorded(e)
       /\ \A f \in logged : f.ts > e.ts => f \in lost']_vars

(* A record, once written, is never rewritten with other content, also when *)
(* a retry or a restart processes its journal entry again.                  *)
AppendOnly ==
  [][\A k \in MetaKeys : meta[k] # Nil => meta'[k] = meta[k]]_vars

Settled(t) == t <= clock /\ \A e \in journal : e.ts > t

(* What export restores for a past moment is settled for good once the      *)
(* journal holds nothing that old: no later write, retry, session or crash  *)
(* changes it.                                                              *)
PastIsFrozen ==
  [][\A t \in Timestamps :
       Settled(t) => Settled(t)' /\ LoadMetadataAt(t)' = LoadMetadataAt(t)]_vars

(* The session start that timeline and export --time=<duration> count from  *)
(* is known whenever there is an event, precedes every event, and so never  *)
(* makes timeline clamp an offset; over all sessions of a state directory.  *)
StartPrecedesEvents ==
  ~startFailed =>
    \A e \in logged : sessionStart # Nil /\ sessionStart < e.ts

(* The journal is drained of every event that can be stored if recording    *)
(* goes on, even behind events that can never be processed.  The number of  *)
(* Timestamps bounds what is logged, so that there is a last event.         *)
DrainedWhileRecording ==
  LET Waiting == \E e \in journal : e.data \notin Unstorable
  IN  (phase = "recording" /\ Waiting) ~> (phase # "recording" \/ ~Waiting)

(* README: the timeline lists "every write in order".  The timeline reads   *)
(* only metadata, so this needs the journal to be drained when record ends  *)
(* after its command, the sleep and the flush.                              *)
TimelineCompleteAtExit ==
  phase = "closed" /\ slept => \A e \in logged \ lost : Recorded(e)

(* The pipeline implements the abstract history: export sees an event when  *)
(* SetMetadata writes its record, exactly once; a crash loses a tail.       *)
History == INSTANCE VersionHistory
  WITH Versions <- JournalEntry,
       pending <- {e \in journal : ~Recorded(e)},
       history <- {e \in logged : Recorded(e)}

ImplementsHistory == History!Spec

-----------------------------------------------------------------------------
(* The inductive invariant, in parts.                                       *)

(* Which entries are where: what is unsynced, still to be visited or in     *)
(* hand is in the journal, and what is in the journal was logged and not    *)
(* lost.  Only the entry in hand is deleted, so the iterator's view never   *)
(* holds a deleted key.                                                     *)
Bookkeeping ==
  /\ journal \subseteq logged \ lost
  /\ lost \subseteq logged
  /\ Rng(unsynced) \subseteq journal
  /\ iter \subseteq journal
  /\ pc \in Working => cur \in journal \ iter

(* An object, once stored, is the compressed content its CID hashes.        *)
ObjectsIntact == \A d \in Contents : cas[Hash(d)] \in {Nil, Compress(d)}

(* Every record, written or about to be, has its object in the store, and   *)
(* every record written comes from an entry that no crash can take.         *)
ObjectBeforeRecord ==
  /\ pc \in {"meta", "delete"} => Has(Hash(cur.data))
  /\ \A k \in MetaKeys : meta[k] # Nil =>
       \E e \in (logged \ lost) \ Rng(unsynced) :
         MetaKey(e) = k /\ meta[k] = Hash(e.data) /\ Has(meta[k])

StoreInv == TypeOK /\ Bookkeeping /\ ObjectsIntact /\ ObjectBeforeRecord

(* With a clock that always advances, timestamps identify entries.          *)
TimesIdentify ==
  /\ \A e \in logged : e.ts <= clock
  /\ \A e, f \in logged : e.ts = f.ts => e = f

(* A journal key is deleted only when its record is written.                *)
RecordBeforeDelete ==
  /\ pc = "delete" => Recorded(cur)
  /\ \A e \in logged \ lost : e \in journal \/ Recorded(e)

(* The unsynced entries are the last ones logged, in order.                 *)
UnsyncedIsTail ==
  /\ \A i, j \in DOMAIN unsynced : i < j => unsynced[i].ts < unsynced[j].ts
  /\ \A i \in DOMAIN unsynced : \A f \in logged :
       f.ts > unsynced[i].ts => \E j \in DOMAIN unsynced : i < j /\ f = unsynced[j]

(* The session start is on record before the watcher starts.                *)
StartBeforeWatcher ==
  /\ StartKnown => sessionStart <= clock
  /\ ~startFailed =>
       /\ phase \in {"recording", "sleeping", "flushed", "stopped"} => StartKnown
       /\ \A e \in logged : StartKnown /\ sessionStart < e.ts

ClockInv == TimesIdentify /\ RecordBeforeDelete /\ UnsyncedIsTail /\ StartBeforeWatcher

IndInv == StoreInv /\ (MonotonicClock => ClockInv)

(* What else holds for any clock: an entry that left the journal has left a *)
(* record under its key, keys are unique, and the WAL is synced unless a    *)
(* watcher runs.                                                            *)
AnyClockInv ==
  /\ pc = "delete" => meta[MetaKey(cur)] # Nil
  /\ \A e \in logged \ lost : e \in journal \/ meta[MetaKey(e)] # Nil
  /\ \A e, f \in logged : e.ts = f.ts /\ e.sfx = f.sfx => e = f
  /\ phase \in {"down", "opened", "closed"} => unsynced = <<>>

(* Without errors the journal is drained from its oldest entry: what has    *)
(* left it is older than what is in it, only its oldest entry can have a    *)
(* record already, the one in hand is the oldest, and what a pass does not  *)
(* see is newer than all it has still to visit.                             *)
DrainOrder ==
  /\ \A e \in journal : \A f \in (logged \ lost) \ journal : f.ts < e.ts
  /\ \A e \in journal : Recorded(e) => \A f \in journal : e.ts <= f.ts
  /\ pc \in Working => \A f \in journal : cur.ts <= f.ts
  /\ \A e \in journal \ iter : \A f \in iter : e = cur \/ f.ts < e.ts

OldestFirst == faults = 0 /\ Unstorable = {} => DrainOrder

=============================================================================
