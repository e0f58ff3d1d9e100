--------------------------- MODULE FlightRecorder ---------------------------
(***************************************************************************)
(* The recorder with its environment: a directory tree that programs write  *)
(* to, the kernel's queue of file events, and the goroutine of              *)
(* startFSRecorder, which reads a changed file and logs it to the journal   *)
(* of module Recorder.                                                      *)
(***************************************************************************)
EXTENDS Recorder

CONSTANTS
  Dirs,      \* directories of the watched tree
  Root,      \* the watched directory itself
  DirOf,     \* the directory of each path
  QueueMax,  \* bound on the kernel's event queue
  MaxOps     \* bound on the changes of the tree and the failed calls on it

Events == [name : Paths \cup Dirs, op : {"create", "write", "remove"}]

ASSUME TreeAssumption ==
  /\ Root \in Dirs /\ DirOf \in [Paths -> Dirs] /\ Paths \cap Dirs = {}
  /\ QueueMax \in Nat /\ MaxOps \in Nat
  /\ Nil \notin Contents \cup Events

VARIABLES
  fs,       \* the content of every file, Nil if there is none
  dirs,     \* the directories that exist
  watched,  \* the directories with an inotify watch
  queue,    \* file events not yet received
  wpc,      \* where the watcher goroutine is
  evt,      \* the event it handles
  data,     \* the content it has read
  ops,      \* changes and failed calls so far
  unseen    \* history: files whose last change raised no event or was dropped,
            \* with no event left that makes the watcher read them again

treeVars == <<fs, dirs, ops>>
watcherVars == <<watched, queue, wpc, evt, data>>
allVars == <<vars, treeVars, watcherVars, unseen>>

FRInit ==
  /\ Init
  /\ fs \in [Paths -> Contents \cup {Nil}]
  /\ \A p \in Paths : DirOf[p] # Root => fs[p] = Nil
  /\ dirs = {Root} /\ ops = 0
  /\ watched = {} /\ queue = <<>> /\ wpc = "off" /\ evt = Nil /\ data = Nil
  /\ unseen = {p \in Paths : fs[p] # Nil}

-----------------------------------------------------------------------------
(* The tree.  A change in a watched directory is queued as an event, unless *)
(* the kernel's queue is full.                                              *)
Noticed(d) == d \in watched /\ Len(queue) < QueueMax

(* The events that startFSRecorder handles, and the files it has still to   *)
(* read for one: any event of a file shows it whatever has changed by then. *)
CreatesOnly(op) == op = "create"
Handles(op) == op \in {"create", "write"}

Coming(p) == \E i \in DOMAIN queue : queue[i].name = p /\ Handles(queue[i].op)
InHand(p) == evt # Nil /\ evt.name = p
WillRead(p) == Coming(p) \/ (InHand(p) /\ wpc = "stat")

Notify(d, name, op) ==
  queue' = IF Noticed(d) THEN Append(queue, [name |-> name, op |-> op]) ELSE queue

WriteFile(p, d) ==
  /\ DirOf[p] \in dirs /\ ops < MaxOps
  /\ fs' = [fs EXCEPT ![p] = d] /\ ops' = ops + 1
  /\ Notify(DirOf[p], p, IF fs[p] = Nil THEN "create" ELSE "write")
  /\ unseen' = IF Noticed(DirOf[p]) \/ WillRead(p) THEN unseen \ {p} ELSE unseen \cup {p}
  /\ UNCHANGED <<vars, dirs, watched, wpc, evt, data>>

RemoveFile(p) ==
  /\ fs[p] # Nil /\ ops < MaxOps
  /\ fs' = [fs EXCEPT ![p] = Nil] /\ ops' = ops + 1
  /\ Notify(DirOf[p], p, "remove")
  /\ unseen' = IF Noticed(DirOf[p]) THEN unseen \ {p} ELSE unseen \cup {p}
  /\ UNCHANGED <<vars, dirs, watched, wpc, evt, data>>

MakeDir(d) ==
  /\ d \notin dirs /\ ops < MaxOps
  /\ dirs' = dirs \cup {d} /\ ops' = ops + 1
  /\ Notify(Root, d, "create")
  /\ UNCHANGED <<vars, fs, watched, wpc, evt, data, unseen>>

-----------------------------------------------------------------------------
(* The goroutine of startFSRecorder.                                        *)

(* <-watcher.Events; only creations and writes are handled.                 *)
ReceiveEvent ==
  /\ wpc = "select" /\ queue # <<>>
  /\ queue' = Tail(queue)
  /\ IF Handles(Head(queue).op)
     THEN evt' = Head(queue) /\ wpc' = "stat"
     ELSE UNCHANGED <<evt, wpc>>
  /\ UNCHANGED <<vars, treeVars, watched, data, unseen>>

(* os.Stat: a created directory is watched, itself only, and not read.  An  *)
(* error of watcher.Add, or of os.Stat and then of os.ReadFile, is ignored. *)
AddWatchAndReturn ==
  /\ wpc = "stat" /\ evt.name \in Dirs
  /\ watched' = watched \cup {evt.name}
  /\ wpc' = "off" /\ evt' = Nil
  /\ UNCHANGED <<vars, treeVars, queue, data, unseen>>

AddWatch ==
  /\ wpc = "stat" /\ evt.name \in Dirs
  /\ \/ watched' = watched \cup {evt.name} /\ UNCHANGED ops
     \/ ops < MaxOps /\ ops' = ops + 1 /\ UNCHANGED watched
  /\ wpc' = "select" /\ evt' = Nil
  /\ UNCHANGED <<vars, fs, dirs, queue, data, unseen>>

(* The event of p was dropped: no later read shows the change, unless       *)
(* another event of p is queued.                                            *)
Miss(p) == unseen' = IF Coming(p) THEN unseen ELSE unseen \cup {p}

(* os.ReadFile: the file may be gone, and a file that is there may not be   *)
(* readable.  Any error drops the event.                                    *)
ReadUnchecked ==
  /\ wpc = "stat" /\ evt.name \in Paths
  /\ wpc' = "log" /\ data' = fs[evt.name]
  /\ UNCHANGED <<vars, treeVars, watched, queue, evt, unseen>>

ReadFile ==
  /\ wpc = "stat" /\ evt.name \in Paths
  /\ \/ /\ fs[evt.name] # Nil
        /\ wpc' = "log" /\ data' = fs[evt.name]
        /\ UNCHANGED <<evt, ops, unseen>>
     \/ /\ fs[evt.name] = Nil
        /\ wpc' = "select" /\ evt' = Nil
        /\ UNCHANGED <<data, ops, unseen>>
     \/ /\ fs[evt.name] # Nil /\ ops < MaxOps /\ ops' = ops + 1
        /\ wpc' = "select" /\ evt' = Nil /\ Miss(evt.name)
        /\ UNCHANGED data
  /\ UNCHANGED <<vars, fs, dirs, watched, queue>>

(* A watcher that drops the events of the file it has just logged.          *)
LogAndDebounce ==
  /\ wpc = "log" /\ LogEvent(evt.name, data)
  /\ queue' = SelectSeq(queue, LAMBDA e : e.name # evt.name)
  /\ wpc' = "select" /\ evt' = Nil /\ data' = Nil
  /\ UNCHANGED <<treeVars, watched, unseen>>

(* journal.LogEvent, whose error is ignored.                                *)
LogCaptured ==
  /\ wpc = "log"
  /\ \/ LogEvent(evt.name, data) /\ UNCHANGED unseen
     \/ LogEventFails /\ Miss(evt.name)
  /\ wpc' = "select" /\ evt' = Nil /\ data' = Nil
  /\ UNCHANGED <<treeVars, watched, queue>>

(* <-ctx.Done(); the deferred watcher.Close drops what is queued.           *)
StopWatching ==
  /\ wpc = "select" /\ phase \in {"stopped", "closed"}
  /\ wpc' = "off" /\ watched' = {} /\ queue' = <<>>
  /\ unseen' = unseen \cup {p \in Paths : \E i \in DOMAIN queue : queue[i].name = p}
  /\ UNCHANGED <<vars, treeVars, evt, data>>

Watcher == ReceiveEvent \/ AddWatch \/ ReadFile \/ LogCaptured \/ StopWatching

-----------------------------------------------------------------------------
(* startFSRecorder, after recordSessionStart: addWatchRecursive watches the *)
(* directories there are; the files in them are not read.                   *)
StartWatching ==
  /\ RecordSessionStart
  /\ watched' = dirs /\ wpc' = "select"
  /\ UNCHANGED <<treeVars, queue, evt, data, unseen>>

(* The process ends and takes the watcher with it: events it has not logged *)
(* are dropped, and a crash drops unsynced entries as well.                 *)
EndProcess ==
  /\ ExitProcess \/ Crash
  /\ watched' = {} /\ queue' = <<>> /\ wpc' = "off" /\ evt' = Nil /\ data' = Nil
  /\ unseen' = unseen \cup {e.path : e \in lost' \ lost}
                      \cup {p \in Paths : \/ \E i \in DOMAIN queue : queue[i].name = p
                                          \/ evt # Nil /\ evt.name = p}
  /\ UNCHANGED treeVars

FRNext ==
  \/ \E p \in Paths, d \in Contents : WriteFile(p, d)
  \/ \E p \in Paths : RemoveFile(p)
  \/ \E d \in Dirs : MakeDir(d)
  \/ Watcher \/ StartWatching \/ EndProcess
  \/ (Processor \/ OpenStore \/ CommandExits \/ FlushDB \/ StopProcessor \/ CloseDB)
       /\ UNCHANGED <<treeVars, watcherVars, unseen>>

FRSpec == FRInit /\ [][FRNext]_allVars

(* The Go scheduler runs both goroutines of a running session.              *)
FRFairness ==
  /\ WF_allVars(Watcher)
  /\ WF_allVars(Processor /\ UNCHANGED <<treeVars, watcherVars, unseen>>)

FRFairSpec == FRSpec /\ FRFairness

-----------------------------------------------------------------------------
(* Types, and the watcher holds an event exactly while it handles it.       *)
FRTypeOK ==
  /\ TypeOK
  /\ fs \in [Paths -> Contents \cup {Nil}]
  /\ Root \in dirs /\ dirs \subseteq Dirs /\ watched \subseteq dirs
  /\ queue \in Seq(Events) /\ Len(queue) <= QueueMax
  /\ wpc \in {"off", "select", "stat", "log"}
  /\ (evt # Nil) <=> (wpc \in {"stat", "log"})
  /\ evt \in Events \cup {Nil}
  /\ (data # Nil) <=> (wpc = "log")
  /\ data \in Contents \cup {Nil}
  /\ ops \in Nat
  /\ unseen \subseteq Paths

(* Nothing is on its way into the history.                                  *)
Quiet == queue = <<>> /\ evt = Nil /\ journal = {}

Exported(p) == {k \in DOMAIN LoadMetadataAt(clock) : k[1] = p}

Current(p) == \E k \in Exported(p) : Get(LoadMetadataAt(clock)[k]) = fs[p]

(* When the pipeline is quiet, export --time=latest restores for every      *)
(* existing file exactly its present content, although contents are read    *)
(* after the event and coalesced: excepted are files whose last change      *)
(* raised no event, could not be read or logged, or was dropped with the    *)
(* process, and that no later event made the watcher read again.            *)
LatestIsCurrent ==
  Quiet => \A p \in Paths : (fs[p] # Nil /\ p \notin unseen) => Current(p)

(* The event, the read and the timestamp of a version are three moments,    *)
(* and the file may change in between.  At every moment, the present        *)
(* content of a file is the newest logged, or is in the watcher's hands, or *)
(* an event is there that will make the watcher read it, unless its last    *)
(* change raised none or its reading failed: a version that was stale when  *)
(* it was stamped is always followed by another.                            *)
StaleReadIsFollowed ==
  \A p \in Paths : fs[p] # Nil /\ p \notin unseen =>
    \/ WillRead(p)
    \/ InHand(p) /\ data = fs[p]
    \/ \E e \in logged : /\ e.path = p /\ e.data = fs[p]
                         /\ \A o \in logged : o.path = p => o.ts <= e.ts

(* The watcher needs a reading of the clock and the model has none left.    *)
ClockAtBound == wpc = "log" /\ \A t \in Timestamps : ~ClockReads(t)

(* A change that raised an event becomes visible to export, even behind     *)
(* changes that can never be stored, unless the recording ends, reading or  *)
(* logging it fails, or the file comes to hold what can never be stored,    *)
(* before.  The changes that MaxOps allows come to an end: the one that     *)
(* becomes visible is then the last.                                        *)
ChangeBecomesVisible ==
  \A p \in Paths :
    LET Awaiting == phase = "recording" /\ fs[p] \in Contents \ Unstorable /\ p \notin unseen
    IN  Awaiting ~> (~Awaiting \/ Current(p) \/ ClockAtBound)

(* README: the agent "watches your application's filesystem in real-time    *)
(* and records every change": a change made while the command runs raises   *)
(* an event for the watcher.                                                *)
EveryChangeNoticed ==
  [][phase = "recording" /\ fs' # fs => queue' # queue]_allVars

(* README: "inspect files exactly as they existed at that moment": a file   *)
(* that is gone is not restored.                                            *)
RemovedFilesNotExported ==
  Quiet => \A p \in Paths : (fs[p] = Nil /\ p \notin unseen) => Exported(p) = {}

-----------------------------------------------------------------------------
(* The inductive invariant, in parts.                                       *)

(* The watcher goroutine runs only once the session has started, events are *)
(* queued only while it runs, what it is about to log is a file, and a      *)
(* directory that an event names exists.                                    *)
WatcherInSession ==
  /\ wpc # "off" => phase \notin {"down", "opened"}
  /\ wpc = "off" => watched = {} /\ queue = <<>>
  /\ wpc = "log" => evt.name \in Paths
  /\ \A i \in DOMAIN queue : queue[i].name \in Dirs => queue[i].name \in dirs
  /\ evt # Nil /\ evt.name \in Dirs => evt.name \in dirs

NewestOf(e) == \A o \in logged : o.path = e.path => o.ts <= e.ts

(* StaleReadIsFollowed, and more: while the watcher holds a stale content,  *)
(* another event is queued (a newest logged version that is current would   *)
(* not be enough: the stale one is logged after it), and the newest logged  *)
(* version is not one that a crash took.                                    *)
Caught(p) ==
  \/ Coming(p)
  \/ InHand(p) /\ (wpc = "stat" \/ data = fs[p])
  \/ ~InHand(p) /\ \E e \in logged \ lost : e.path = p /\ e.data = fs[p] /\ NewestOf(e)

Followed == \A p \in Paths : fs[p] # Nil /\ p \notin unseen => Caught(p)

FRIndInv ==
  FRTypeOK /\ IndInv /\ WatcherInSession /\ (MonotonicClock => Followed)

=============================================================================
