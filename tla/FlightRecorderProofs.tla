------------------------ MODULE FlightRecorderProofs ------------------------
(***************************************************************************)
(* Proofs about FlightRecorder, for any tree, contents, timestamps, queue   *)
(* length and number of changes: what the recorder alone keeps, it keeps    *)
(* with the watcher and a changing tree around it, and the watcher's late   *)
(* reads lose no content.                                                   *)
(***************************************************************************)
EXTENDS FlightRecorder, RecorderProofs

(* A leaf is for Zenon to prove unless it cites SMT, for arithmetic,        *)
(* sequences and records, or PTL, for temporal logic.                       *)
USE Zenon

(* An event at the head of the queue is taken, the others move up by one.   *)
LEMMA TailFacts ==
  ASSUME NEW q \in Seq(Events), q # <<>>
  PROVE  /\ Head(q) \in Events /\ Head(q) = q[1] /\ 1 \in DOMAIN q
         /\ Tail(q) \in Seq(Events) /\ Len(Tail(q)) <= Len(q)
         /\ \A i \in DOMAIN Tail(q) : i + 1 \in DOMAIN q /\ Tail(q)[i] = q[i + 1]
         /\ \A i \in DOMAIN q : i # 1 => i - 1 \in DOMAIN Tail(q) /\ Tail(q)[i - 1] = q[i]
<1>1. DOMAIN q = 1..Len(q) /\ Len(q) \in Nat /\ Len(q) # 0
  BY SMT
<1>2. Tail(q) \in Seq(Events) /\ Len(Tail(q)) = Len(q) - 1 /\ DOMAIN Tail(q) = 1..(Len(q) - 1)
  BY <1>1, SMT
<1>3. \A i \in 1..(Len(q) - 1) : Tail(q)[i] = q[i + 1]
  BY <1>1, SMT
<1> QED
  BY <1>1, <1>2, <1>3, SMT

(* The kernel appends an event for a change in a watched directory, unless  *)
(* its queue is full, and never disturbs the events before it.              *)
LEMMA NotifyFacts ==
  ASSUME queue \in Seq(Events), Len(queue) <= QueueMax, NEW d, NEW e \in Events,
         Notify(d, e.name, e.op)
  PROVE  /\ queue' \in Seq(Events) /\ Len(queue') <= QueueMax
         /\ \A i \in DOMAIN queue : i \in DOMAIN queue' /\ queue'[i] = queue[i]
         /\ \A i \in DOMAIN queue' : \/ i \in DOMAIN queue /\ queue'[i] = queue[i]
                                     \/ queue'[i] = e /\ d \in watched
         /\ Noticed(d) => \E i \in DOMAIN queue' : queue'[i] = e
         /\ ~Noticed(d) => queue' = queue
<1>1. QueueMax \in Nat /\ Len(queue) \in Nat /\ DOMAIN queue = 1..Len(queue)
  BY TreeAssumption, SMT
<1>2. e = [name |-> e.name, op |-> e.op]
  BY DEF Events
<1>3. CASE ~Noticed(d)
  BY <1>3 DEF Notify
<1>4. CASE Noticed(d)
  <2>1. queue' = Append(queue, e) /\ d \in watched /\ Len(queue) < QueueMax
    BY <1>2, <1>4 DEF Notify, Noticed
  <2>2. queue' \in Seq(Events) /\ Len(queue') = Len(queue) + 1 /\ DOMAIN queue' = 1..(Len(queue) + 1)
    BY <2>1, SMT
  <2>3. /\ \A i \in 1..Len(queue) : queue'[i] = queue[i]
        /\ queue'[Len(queue) + 1] = e
    BY <2>1, SMT
  <2> QED
    BY <1>1, <1>4, <2>1, <2>2, <2>3, SMT
<1> QED
  BY <1>3, <1>4

-----------------------------------------------------------------------------
(* With the tree and the watcher around it, the recorder does nothing it    *)
(* would not do alone: what the watcher logs is the content of a file.      *)
LEMMA RecorderStep ==
  ASSUME FRTypeOK, WatcherInSession, [FRNext]_allVars PROVE [Next]_vars
<1>1. CASE LogCaptured
  <2>1. evt.name \in Paths /\ data \in Contents
    BY <1>1 DEF LogCaptured, FRTypeOK, WatcherInSession
  <2>2. LogEvent(evt.name, data) \/ LogEventFails
    BY <1>1 DEF LogCaptured
  <2> QED
    BY <2>1, <2>2 DEF Next
<1>2. CASE \/ \E p \in Paths, d \in Contents : WriteFile(p, d)
           \/ \E p \in Paths : RemoveFile(p)
           \/ \E d \in Dirs : MakeDir(d)
           \/ ReceiveEvent \/ AddWatch \/ ReadFile \/ StopWatching
           \/ UNCHANGED allVars
  <2>1. UNCHANGED vars
    BY <1>2 DEF WriteFile, RemoveFile, MakeDir, ReceiveEvent, AddWatch, ReadFile,
                       StopWatching, allVars
  <2> QED
    BY <2>1
<1>3. CASE StartWatching \/ EndProcess
  BY <1>3 DEF StartWatching, EndProcess, Next, RunRecord
<1>4. CASE Processor \/ OpenStore \/ CommandExits \/ FlushDB \/ StopProcessor \/ CloseDB
  BY <1>4 DEF Next, RunRecord
<1> QED
  BY <1>1, <1>2, <1>3, <1>4 DEF FRNext, Watcher

-----------------------------------------------------------------------------
(* Types, and where the watcher may be.                                     *)

(* A change of the tree keeps the types and the watcher where it is.        *)
LEMMA TreeStepKeepsTypes ==
  ASSUME FRTypeOK, WatcherInSession, UNCHANGED <<vars, watched, wpc, evt, data>>,
         NEW d, NEW e \in Events, Notify(d, e.name, e.op),
         e.name \in Dirs => e.name \in dirs',
         fs' \in [Paths -> Contents \cup {Nil}], ops' \in Nat,
         dirs \subseteq dirs', dirs' \subseteq Dirs, unseen' \subseteq Paths
  PROVE  FRTypeOK' /\ WatcherInSession'
<1>1. /\ queue' \in Seq(Events) /\ Len(queue') <= QueueMax
      /\ \A i \in DOMAIN queue' : \/ i \in DOMAIN queue /\ queue'[i] = queue[i]
                                  \/ queue'[i] = e /\ d \in watched
      /\ ~Noticed(d) => queue' = queue
  BY NotifyFacts DEF FRTypeOK
<1>2. TypeOK'
  BY DEF FRTypeOK, TypeOK, vars, storeVars, procVars, historyVars
<1>3. FRTypeOK'
  BY <1>1, <1>2 DEF FRTypeOK
<1>4. \A i \in DOMAIN queue' : queue'[i].name \in Dirs => queue'[i].name \in dirs'
  BY <1>1 DEF WatcherInSession
<1>5. wpc' = "off" => watched' = {} /\ queue' = <<>>
  BY <1>1 DEF WatcherInSession, Noticed
<1>6. wpc' # "off" => phase' \notin {"down", "opened"}
  BY DEF WatcherInSession, vars
<1>7. wpc' = "log" => evt'.name \in Paths
  BY DEF WatcherInSession
<1>8. evt' # Nil /\ evt'.name \in Dirs => evt'.name \in dirs'
  BY DEF WatcherInSession
<1> QED
  BY <1>3, <1>4, <1>5, <1>6, <1>7, <1>8 DEF WatcherInSession

(* Types and the watcher's place are preserved by every step.               *)
LEMMA FRTypeStep ==
  ASSUME FRTypeOK, WatcherInSession, [FRNext]_allVars
  PROVE  FRTypeOK' /\ WatcherInSession'
<1>0. TypeOK'
  BY RecorderStep, TypeStep DEF FRTypeOK
<1>1. ASSUME NEW p \in Paths, NEW d \in Contents, WriteFile(p, d) PROVE FRTypeOK' /\ WatcherInSession'
  <2> DEFINE e == [name |-> p, op |-> IF fs[p] = Nil THEN "create" ELSE "write"]
  <2>1. e \in Events /\ e.name \notin Dirs
    BY TreeAssumption DEF Events
  <2>2. Notify(DirOf[p], e.name, e.op)
    BY <1>1 DEF WriteFile
  <2>3. /\ UNCHANGED <<vars, watched, wpc, evt, data, dirs>> /\ ops' \in Nat
        /\ fs' \in [Paths -> Contents \cup {Nil}] /\ unseen' \subseteq Paths
    BY <1>1, SMT DEF WriteFile, FRTypeOK
  <2> QED
    BY <2>1, <2>2, <2>3, TreeStepKeepsTypes DEF FRTypeOK
<1>2. ASSUME NEW p \in Paths, RemoveFile(p) PROVE FRTypeOK' /\ WatcherInSession'
  <2> DEFINE e == [name |-> p, op |-> "remove"]
  <2>1. e \in Events /\ e.name \notin Dirs
    BY TreeAssumption DEF Events
  <2>2. Notify(DirOf[p], e.name, e.op)
    BY <1>2 DEF RemoveFile
  <2>3. /\ UNCHANGED <<vars, watched, wpc, evt, data, dirs>> /\ ops' \in Nat
        /\ fs' \in [Paths -> Contents \cup {Nil}] /\ unseen' \subseteq Paths
    BY <1>2, SMT DEF RemoveFile, FRTypeOK
  <2> QED
    BY <2>1, <2>2, <2>3, TreeStepKeepsTypes DEF FRTypeOK
<1>3. ASSUME NEW d \in Dirs, MakeDir(d) PROVE FRTypeOK' /\ WatcherInSession'
  <2> DEFINE e == [name |-> d, op |-> "create"]
  <2>1. e \in Events /\ Notify(Root, e.name, e.op)
    BY <1>3 DEF Events, MakeDir
  <2>2. /\ UNCHANGED <<vars, watched, wpc, evt, data, fs, unseen>> /\ ops' \in Nat
        /\ dirs' = dirs \cup {d}
    BY <1>3, SMT DEF MakeDir, FRTypeOK
  <2> QED
    BY <2>1, <2>2, TreeStepKeepsTypes DEF FRTypeOK
<1>4. CASE ReceiveEvent
  <2>1. /\ Head(queue) \in Events /\ Head(queue) = queue[1] /\ 1 \in DOMAIN queue
        /\ Tail(queue) \in Seq(Events) /\ Len(Tail(queue)) <= Len(queue)
        /\ \A i \in DOMAIN Tail(queue) : i + 1 \in DOMAIN queue /\ Tail(queue)[i] = queue[i + 1]
    BY <1>4, TailFacts DEF ReceiveEvent, FRTypeOK
  <2>2. /\ wpc = "select" /\ queue' = Tail(queue)
        /\ UNCHANGED <<fs, dirs, ops, watched, data, unseen, phase>>
    BY <1>4 DEF ReceiveEvent, treeVars, vars
  <2>3. \/ evt' = Head(queue) /\ wpc' = "stat"
        \/ evt' = evt /\ wpc' = wpc
    BY <1>4 DEF ReceiveEvent
  <2>4. Head(queue) # Nil
    BY <2>1, TreeAssumption
  <2>5. Len(queue') <= QueueMax
    BY <2>1, <2>2, TreeAssumption, SMT DEF FRTypeOK
  <2>6. FRTypeOK'
    BY <1>0, <2>1, <2>2, <2>3, <2>4, <2>5 DEF FRTypeOK
  <2>7. /\ wpc' # "off" /\ wpc' # "log" /\ phase' \notin {"down", "opened"}
        /\ \A i \in DOMAIN queue' : queue'[i].name \in Dirs => queue'[i].name \in dirs'
        /\ evt' # Nil /\ evt'.name \in Dirs => evt'.name \in dirs'
    BY <2>1, <2>2, <2>3 DEF WatcherInSession, FRTypeOK
  <2> QED
    BY <2>6, <2>7 DEF WatcherInSession
<1>5. CASE AddWatch
  <2>1. ops' \in Nat
    BY <1>5, SMT DEF AddWatch, FRTypeOK
  <2> QED
    BY <1>0, <1>5, <2>1 DEF AddWatch, FRTypeOK, WatcherInSession, vars
<1>6. CASE ReadFile
  <2>1. fs[evt.name] \in Contents \cup {Nil}
    BY <1>6 DEF ReadFile, FRTypeOK
  <2>2. ops' \in Nat
    BY <1>6, SMT DEF ReadFile, FRTypeOK
  <2>3. unseen' \subseteq Paths
    BY <1>6 DEF ReadFile, Miss, FRTypeOK
  <2> QED
    BY <1>0, <1>6, <2>1, <2>2, <2>3, TreeAssumption DEF ReadFile, FRTypeOK, WatcherInSession, vars
<1>7. CASE LogCaptured
  <2>1. /\ wpc = "log" /\ wpc' = "select" /\ evt' = Nil /\ data' = Nil
        /\ UNCHANGED <<fs, dirs, ops, watched, queue>>
    BY <1>7 DEF LogCaptured, treeVars
  <2>2. unseen' \subseteq Paths /\ phase' = phase
    BY <1>7 DEF LogCaptured, LogEvent, LogEventFails, Miss, FRTypeOK, WatcherInSession
  <2> QED
    BY <1>0, <2>1, <2>2 DEF FRTypeOK, WatcherInSession
<1>8. CASE StopWatching
  <2>1. /\ wpc = "select" /\ wpc' = "off" /\ watched' = {} /\ queue' = <<>>
        /\ UNCHANGED <<fs, dirs, ops, evt, data>>
    BY <1>8 DEF StopWatching, treeVars
  <2>2. unseen' \subseteq Paths
    BY <1>8 DEF StopWatching, FRTypeOK
  <2> QED
    BY <1>0, <2>1, <2>2, TreeAssumption, SMT DEF FRTypeOK, WatcherInSession
<1>9. CASE StartWatching
  <2>1. /\ phase = "opened" /\ phase' = "recording" /\ wpc' = "select" /\ watched' = dirs
        /\ UNCHANGED <<fs, dirs, ops, queue, evt, data, unseen>>
    BY <1>9 DEF StartWatching, RecordSessionStart, treeVars
  <2>2. wpc = "off" /\ queue = <<>> /\ evt = Nil /\ data = Nil
    BY <2>1 DEF WatcherInSession, FRTypeOK
  <2> QED
    BY <1>0, <2>1, <2>2 DEF FRTypeOK, WatcherInSession
<1>10. CASE EndProcess
  <2>1. /\ wpc' = "off" /\ watched' = {} /\ queue' = <<>> /\ evt' = Nil /\ data' = Nil
        /\ UNCHANGED <<fs, dirs, ops>>
    BY <1>10 DEF EndProcess, treeVars
  <2>2. lost' \subseteq JournalEntry
    BY <1>0 DEF TypeOK
  <2>3. unseen' \subseteq Paths
    BY <1>10, <2>2 DEF EndProcess, FRTypeOK, JournalEntry
  <2> QED
    BY <1>0, <2>1, <2>3, TreeAssumption, SMT DEF FRTypeOK, WatcherInSession
<1>11. CASE /\ Processor \/ OpenStore \/ CommandExits \/ FlushDB \/ StopProcessor \/ CloseDB
            /\ UNCHANGED <<treeVars, watcherVars, unseen>>
  <2>1. UNCHANGED <<fs, dirs, ops, watched, queue, wpc, evt, data, unseen>>
    BY <1>11 DEF treeVars, watcherVars
  <2>2. phase' \in {"down", "opened"} => phase \in {"down", "opened"}
    BY <1>11 DEF Processor, OpenStore, CommandExits, FlushDB, StopProcessor, CloseDB, BeginPass,
       NextEntry, EndPass, Idle, PutChunkWithHash, SetMetadata, DeleteJournalKey, ProcessError
  <2> QED
    BY <1>0, <2>1, <2>2 DEF FRTypeOK, WatcherInSession
<1>12. CASE UNCHANGED allVars
  BY <1>0, <1>12 DEF allVars, vars, treeVars, watcherVars, FRTypeOK, WatcherInSession
<1> QED
  BY <1>1, <1>2, <1>3, <1>4, <1>5, <1>6, <1>7, <1>8, <1>9, <1>10, <1>11, <1>12
  DEF FRNext, Watcher

-----------------------------------------------------------------------------
(* A content whose change raised an event is not lost on the way.           *)

(* A step that neither takes an event of p nor touches the watcher's hands, *)
(* the file or the journal's history leaves p caught.                       *)
LEMMA CaughtKept ==
  ASSUME NEW p, Caught(p), Coming(p) => Coming(p)', fs'[p] = fs[p],
         UNCHANGED <<wpc, evt, data, logged, lost>>
  PROVE  Caught(p)'
BY DEF Caught, InHand, NewestOf

(* A change of the tree raises an event for the file it changes, or finds   *)
(* the watcher about to read it, or makes it unseen; the others are not     *)
(* affected.                                                                *)
LEMMA TreeStepKeepsFollowed ==
  ASSUME FRTypeOK, Followed, UNCHANGED <<vars, wpc, evt, data>>,
         NEW d, NEW e \in Events, Notify(d, e.name, e.op),
         \A p \in Paths : p # e.name => fs'[p] = fs[p],
         \A p \in Paths : p # e.name /\ p \notin unseen' => p \notin unseen,
         e.name \in Paths /\ fs'[e.name] # Nil /\ e.name \notin unseen' =>
           (Noticed(d) /\ Handles(e.op)) \/ WillRead(e.name)
  PROVE  Followed'
<1>1. SUFFICES ASSUME NEW p \in Paths, fs'[p] # Nil, p \notin unseen' PROVE Caught(p)'
  BY DEF Followed
<1>2. /\ \A i \in DOMAIN queue : i \in DOMAIN queue' /\ queue'[i] = queue[i]
      /\ Noticed(d) => \E i \in DOMAIN queue' : queue'[i] = e
  BY NotifyFacts DEF FRTypeOK
<1>3. CASE p = e.name
  <2>1. Coming(p)' \/ (InHand(p)' /\ wpc' = "stat")
    BY <1>1, <1>2, <1>3 DEF Coming, InHand, WillRead
  <2> QED
    BY <2>1 DEF Caught
<1>4. CASE p # e.name
  <2>1. Coming(p) => Coming(p)'
    BY <1>2 DEF Coming
  <2>2. fs'[p] = fs[p] /\ Caught(p)
    BY <1>1, <1>4 DEF Followed
  <2>3. UNCHANGED <<wpc, evt, data, logged, lost>>
    BY DEF vars, historyVars
  <2> QED
    BY <2>1, <2>2, <2>3, CaughtKept
<1> QED
  BY <1>3, <1>4

(* What LogEvent commits is the newest version of its file, if the clock    *)
(* always advances.                                                         *)
LEMMA LoggedIsNewest ==
  ASSUME MonotonicClock, IndInv, NEW p \in Paths, NEW d \in Contents, LogEvent(p, d)
  PROVE  \E e \in JournalEntry :
           /\ e.path = p /\ e.data = d /\ logged' = logged \cup {e} /\ lost' = lost
           /\ e \notin lost /\ NewestOf(e)'
<1>1. PICK now \in Timestamps, s \in Suffixes :
        LET e == [ts |-> now, sfx |-> s, path |-> p, data |-> d]
        IN  ClockReads(now) /\ logged' = logged \cup {e} /\ lost' = lost
  BY DEF LogEvent
<1> DEFINE e == [ts |-> now, sfx |-> s, path |-> p, data |-> d]
<1>2. e \in JournalEntry /\ now \in Nat
  BY TimeAssumption DEF JournalEntry
<1>3. clock \in Nat /\ now > clock /\ \A o \in JournalEntry : o.ts \in Nat
  BY <1>1, TimesAreNumbers DEF IndInv, StoreInv, ClockReads
<1>4. \A o \in logged : o.ts \in Nat /\ o.ts <= clock
  BY <1>3 DEF IndInv, StoreInv, TypeOK, ClockInv, TimesIdentify
<1>5. \A o \in logged : o.ts < now
  BY <1>2, <1>3, <1>4, SMT
<1>6. e \notin lost
  BY <1>5, <1>2, SMT DEF IndInv, StoreInv, Bookkeeping
<1>7. NewestOf(e)'
  BY <1>1, <1>2, <1>4, <1>5, SMT DEF NewestOf
<1> QED
  BY <1>1, <1>2, <1>6, <1>7

(* Every step of the tree, the kernel, the watcher and the recorder keeps   *)
(* the present content of a file caught, unless the file becomes unseen.    *)
LEMMA FollowedStep ==
  ASSUME MonotonicClock, FRTypeOK, IndInv, WatcherInSession, Followed, [FRNext]_allVars
  PROVE  Followed'
<1>1. ASSUME NEW p \in Paths, NEW d \in Contents, WriteFile(p, d) PROVE Followed'
  <2> DEFINE e == [name |-> p, op |-> IF fs[p] = Nil THEN "create" ELSE "write"]
  <2>1. e \in Events /\ Handles(e.op)
    BY DEF Events, Handles
  <2>2. Notify(DirOf[p], e.name, e.op) /\ UNCHANGED <<vars, wpc, evt, data>>
    BY <1>1 DEF WriteFile
  <2>3. /\ \A q \in Paths : q # p => fs'[q] = fs[q]
        /\ \A q \in Paths : q # p /\ q \notin unseen' => q \notin unseen
        /\ p \notin unseen' => Noticed(DirOf[p]) \/ WillRead(p)
    BY <1>1 DEF WriteFile, FRTypeOK
  <2> HIDE DEF e
  <2>4. e.name = p
    BY DEF e
  <2> QED
    BY <2>1, <2>2, <2>3, <2>4, TreeStepKeepsFollowed
<1>2. ASSUME NEW p \in Paths, RemoveFile(p) PROVE Followed'
  <2> DEFINE e == [name |-> p, op |-> "remove"]
  <2>1. e \in Events
    BY DEF Events
  <2>2. Notify(DirOf[p], e.name, e.op) /\ UNCHANGED <<vars, wpc, evt, data>>
    BY <1>2 DEF RemoveFile
  <2>3. /\ \A q \in Paths : q # p => fs'[q] = fs[q]
        /\ fs'[p] = Nil
        /\ \A q \in Paths : q # p /\ q \notin unseen' => q \notin unseen
    BY <1>2 DEF RemoveFile, FRTypeOK
  <2> HIDE DEF e
  <2>4. e.name = p
    BY DEF e
  <2> QED
    BY <2>1, <2>2, <2>3, <2>4, TreeStepKeepsFollowed
<1>3. ASSUME NEW d \in Dirs, MakeDir(d) PROVE Followed'
  <2> DEFINE e == [name |-> d, op |-> "create"]
  <2>1. e \in Events /\ Notify(Root, e.name, e.op) /\ e.name \notin Paths
    BY <1>3, TreeAssumption DEF Events, MakeDir
  <2>2. UNCHANGED <<vars, wpc, evt, data>> /\ fs' = fs /\ unseen' = unseen
    BY <1>3 DEF MakeDir
  <2> HIDE DEF e
  <2> QED
    BY <2>1, <2>2, TreeStepKeepsFollowed
<1>4. SUFFICES ASSUME NEW p \in Paths, fs'[p] # Nil, p \notin unseen',
                      \/ Watcher \/ StartWatching \/ EndProcess
                      \/ /\ Processor \/ OpenStore \/ CommandExits \/ FlushDB \/ StopProcessor \/ CloseDB
                         /\ UNCHANGED <<treeVars, watcherVars, unseen>>
                      \/ UNCHANGED allVars
               PROVE  Caught(p)'
  BY <1>1, <1>2, <1>3 DEF FRNext, Followed
<1>5. fs' = fs
  BY <1>4 DEF Watcher, ReceiveEvent, AddWatch, ReadFile, LogCaptured, StopWatching, StartWatching,
                     EndProcess, treeVars, allVars
<1>6. p \notin unseen
  BY <1>4 DEF Watcher, ReceiveEvent, AddWatch, ReadFile, LogCaptured, Miss, StopWatching,
                     StartWatching, EndProcess, allVars
<1>7. Caught(p)
  BY <1>4, <1>5, <1>6 DEF Followed
<1>8. p \notin Dirs /\ queue \in Seq(Events)
  BY TreeAssumption DEF FRTypeOK
<1>9. CASE ReceiveEvent
  <2>1. queue # <<>> /\ queue' = Tail(queue) /\ UNCHANGED <<data, logged, lost>> /\ wpc = "select"
    BY <1>9 DEF ReceiveEvent, vars, historyVars
  <2>2. /\ Head(queue) = queue[1] /\ Head(queue) \in Events
        /\ \A i \in DOMAIN queue : i # 1 => i - 1 \in DOMAIN queue' /\ queue'[i - 1] = queue[i]
    BY <1>8, <2>1, TailFacts
  <2>3. evt = Nil /\ ~InHand(p)
    BY <2>1 DEF FRTypeOK, InHand
  <2>4. CASE Head(queue).name = p /\ Handles(Head(queue).op)
    <3>1. evt' = Head(queue) /\ wpc' = "stat" /\ evt' # Nil
      BY <1>9, <2>2, <2>4, TreeAssumption DEF ReceiveEvent
    <3> QED
      BY <2>4, <3>1 DEF Caught, InHand
  <2>5. CASE ~(Head(queue).name = p /\ Handles(Head(queue).op))
    <3>1. Coming(p) => Coming(p)'
      BY <2>2, <2>5 DEF Coming
    <3>2. ~InHand(p)'
      BY <1>9, <2>3, <2>5 DEF ReceiveEvent, InHand
    <3> QED
      BY <1>5, <1>7, <2>1, <2>3, <3>1, <3>2 DEF Caught, NewestOf
  <2> QED
    BY <2>4, <2>5
<1>10. CASE AddWatch
  <2>1. evt.name # p /\ evt' = Nil /\ UNCHANGED <<queue, logged, lost>>
    BY <1>8, <1>10 DEF AddWatch, vars, historyVars
  <2> QED
    BY <1>5, <1>7, <2>1 DEF Caught, InHand, NewestOf, Coming
<1>11. CASE ReadFile
  <2>1. UNCHANGED <<queue, logged, lost>> /\ wpc = "stat" /\ evt # Nil
    BY <1>11 DEF ReadFile, vars, historyVars, FRTypeOK
  <2>2. CASE InHand(p)
    <3>1. \/ evt' = evt /\ data' = fs[p]
          \/ Coming(p)
      BY <1>4, <1>5, <1>11, <2>2 DEF ReadFile, Miss, InHand
    <3> QED
      BY <1>5, <2>1, <2>2, <3>1 DEF Caught, InHand, Coming
  <2>3. CASE ~InHand(p)
    <3>1. ~InHand(p)'
      BY <1>11, <2>3 DEF ReadFile, InHand
    <3> QED
      BY <1>5, <1>7, <2>1, <2>3, <3>1 DEF Caught, NewestOf, Coming
  <2> QED
    BY <2>2, <2>3
<1>12. CASE LogCaptured
  <2>1. /\ wpc = "log" /\ evt # Nil /\ evt.name \in Paths /\ data \in Contents
        /\ evt' = Nil /\ queue' = queue
    BY <1>12 DEF LogCaptured, FRTypeOK, WatcherInSession
  <2>2. Coming(p) => Coming(p)'
    BY <2>1 DEF Coming
  <2>3. CASE LogEvent(evt.name, data)
    <3>1. PICK e \in JournalEntry :
            /\ e.path = evt.name /\ e.data = data /\ logged' = logged \cup {e} /\ lost' = lost
            /\ e \notin lost /\ NewestOf(e)'
      BY <2>1, <2>3, LoggedIsNewest
    <3>2. CASE InHand(p)
      BY <1>5, <1>7, <2>1, <2>2, <3>1, <3>2 DEF Caught, InHand
    <3>3. CASE ~InHand(p)
      BY <1>5, <1>7, <2>1, <2>2, <3>1, <3>3 DEF Caught, InHand, NewestOf
    <3> QED
      BY <3>2, <3>3
  <2>4. CASE Miss(evt.name) /\ UNCHANGED historyVars
    <3>1. Coming(p) \/ ~InHand(p)
      BY <1>4, <2>4 DEF InHand, Miss
    <3> QED
      BY <1>5, <1>7, <2>1, <2>2, <2>4, <3>1 DEF Caught, InHand, NewestOf, historyVars
  <2> QED
    BY <1>12, <2>3, <2>4 DEF LogCaptured, LogEventFails
<1>13. CASE StopWatching
  <2>1. ~Coming(p) /\ UNCHANGED <<logged, lost>> /\ wpc = "select" /\ evt' = evt
    BY <1>4, <1>13 DEF StopWatching, Coming, vars, historyVars
  <2>2. evt = Nil
    BY <2>1 DEF FRTypeOK
  <2> QED
    BY <1>5, <1>7, <2>1, <2>2 DEF Caught, InHand, NewestOf
<1>14. CASE EndProcess
  <2>1. ~Coming(p) /\ ~InHand(p) /\ evt' = Nil /\ ~InHand(p)'
    BY <1>4, <1>14 DEF EndProcess, Coming, InHand
  <2>2. logged' = logged /\ \A e \in lost' \ lost : e.path # p
    BY <1>4, <1>14 DEF EndProcess, ExitProcess, Crash, historyVars
  <2> QED
    BY <1>5, <1>7, <2>1, <2>2 DEF Caught, NewestOf
<1>15. CASE StartWatching
  <2>1. phase = "opened" /\ UNCHANGED <<queue, evt, data, logged, lost>>
    BY <1>15 DEF StartWatching, RecordSessionStart
  <2>2. evt = Nil
    BY <2>1 DEF FRTypeOK, WatcherInSession
  <2> QED
    BY <1>5, <1>7, <2>1, <2>2 DEF Caught, Coming, InHand, NewestOf
<1>16. CASE \/ /\ Processor \/ OpenStore \/ CommandExits \/ FlushDB \/ StopProcessor \/ CloseDB
               /\ UNCHANGED <<treeVars, watcherVars, unseen>>
            \/ UNCHANGED allVars
  <2>1. UNCHANGED <<queue, wpc, evt, data>>
    BY <1>16 DEF watcherVars, allVars
  <2>2. UNCHANGED <<logged, lost>>
    BY <1>16 DEF Processor, OpenStore, CommandExits, FlushDB, StopProcessor, CloseDB, BeginPass,
       NextEntry, EndPass, Idle, PutChunkWithHash, SetMetadata, DeleteJournalKey, ProcessError,
       historyVars, vars, allVars
  <2>3. Coming(p) => Coming(p)'
    BY <2>1 DEF Coming
  <2> QED
    BY <1>5, <1>7, <2>1, <2>2, <2>3, CaughtKept
<1> QED
  BY <1>4, <1>9, <1>10, <1>11, <1>12, <1>13, <1>14, <1>15, <1>16 DEF Watcher

-----------------------------------------------------------------------------
(* The inductive invariant of the whole recorder holds of every execution.  *)
THEOREM FRIndInvHolds == FRSpec => []FRIndInv
<1>1. FRInit => FRIndInv
  <2> SUFFICES ASSUME FRInit PROVE FRIndInv
    OBVIOUS
  <2>1. IndInv /\ TypeOK
    BY InitIndInv DEF FRInit, IndInv, StoreInv
  <2>2. queue = <<>> /\ queue \in Seq(Events) /\ Len(queue) <= QueueMax
    BY TreeAssumption, SMT DEF FRInit
  <2>3. FRTypeOK
    BY <2>1, <2>2, TreeAssumption DEF FRInit, FRTypeOK
  <2>4. WatcherInSession
    BY <2>2, SMT DEF FRInit, WatcherInSession
  <2>5. Followed
    BY DEF FRInit, Followed
  <2> QED
    BY <2>1, <2>3, <2>4, <2>5 DEF FRIndInv
<1>2. FRIndInv /\ [FRNext]_allVars => FRIndInv'
  BY RecorderStep, IndInvStep, FRTypeStep, FollowedStep DEF FRIndInv
<1> QED
  BY <1>1, <1>2, PTL DEF FRSpec

(* Every variable of the tree, the kernel's queue and the watcher holds a   *)
(* value the code can store there, and the watcher an event exactly while   *)
(* it handles it, whatever ends the process when.                           *)
THEOREM FRTypeCorrect == FRSpec => []FRTypeOK
<1>1. FRIndInv => FRTypeOK
  BY DEF FRIndInv
<1> QED
  BY <1>1, FRIndInvHolds, PTL

(* A version that was stale when startFSRecorder stamped it is always       *)
(* followed by another, unless reading or logging the file failed, for any  *)
(* tree, queue length and number of changes and of failed calls, if the     *)
(* clock always advances.                                                   *)
THEOREM StaleReadsFollowed ==
  ASSUME MonotonicClock PROVE FRSpec => []StaleReadIsFollowed
<1>1. FRIndInv => StaleReadIsFollowed
  BY SMT DEF FRIndInv, Followed, Caught, Coming, InHand, WillRead, NewestOf, StaleReadIsFollowed
<1> QED
  BY <1>1, FRIndInvHolds, PTL

(* When nothing is on its way, export --time=latest restores the present    *)
(* content of every file whose last change raised an event that was not     *)
(* dropped, read and logged without an error or followed by another event   *)
(* that was, if the clock always advances.                                  *)
THEOREM LatestExportCurrent ==
  ASSUME MonotonicClock PROVE FRSpec => []LatestIsCurrent
<1>1. ASSUME FRIndInv, Quiet, NEW p \in Paths, fs[p] # Nil, p \notin unseen
      PROVE  Current(p)
  <2>1. PICK e \in logged \ lost : e.path = p /\ e.data = fs[p] /\ NewestOf(e)
    BY <1>1, SMT DEF FRIndInv, Followed, Caught, Coming, InHand, Quiet
  <2>2. /\ IndInv /\ TypeOK /\ e \in JournalEntry /\ logged \subseteq JournalEntry
        /\ MetaKey(e) = <<p, e.ts>> /\ MetaKey(e) \in MetaKeys /\ e.data \in Contents
    BY <1>1, <2>1 DEF FRIndInv, IndInv, StoreInv, TypeOK, JournalEntry, MetaKey, MetaKeys
  <2>3. Recorded(e) /\ Get(Hash(e.data)) = e.data
    BY <1>1, <2>1, <2>2, NoVersionLostFollows DEF NoVersionLost, Quiet
  <2>4. meta[MetaKey(e)] = Hash(e.data) /\ meta[MetaKey(e)] # Nil
    BY <2>2, <2>3, HashType DEF Recorded
  <2>5. UpTo(MetaKey(e)[2], clock)
    BY <2>1, <2>2, SMT DEF IndInv, ClockInv, TimesIdentify, UpTo
  <2>6. ASSUME NEW j \in MetaKeys, meta[j] # Nil, j[1] = p PROVE j[2] <= e.ts
    <3>1. PICK f \in logged : MetaKey(f) = j
      BY <2>2, <2>6 DEF IndInv, StoreInv, ObjectBeforeRecord
    <3> QED
      BY <2>1, <2>6, <3>1 DEF NewestOf, MetaKey
  <2> DEFINE Visible == {k \in MetaKeys : meta[k] # Nil /\ UpTo(k[2], clock)}
             Newest == {k \in Visible : \A j \in Visible : j[1] = k[1] => j[2] <= k[2]}
  <2>7. MetaKey(e) \in Newest
    BY <2>2, <2>4, <2>5, <2>6, SMT
  <2>8. LoadMetadataAt(clock) = [k \in Newest |-> meta[k]]
    BY DEF LoadMetadataAt
  <2>9. MetaKey(e) \in Exported(p) /\ LoadMetadataAt(clock)[MetaKey(e)] = Hash(e.data)
    BY <2>2, <2>4, <2>7, <2>8, SMT DEF Exported
  <2> QED
    BY <2>1, <2>3, <2>9 DEF Current
<1>2. FRIndInv => LatestIsCurrent
  BY <1>1 DEF LatestIsCurrent
<1> QED
  BY <1>2, FRIndInvHolds, PTL

-----------------------------------------------------------------------------
(* The watched recorder implements the recorder: whatever startFSRecorder   *)
(* does with a changing tree, the pipeline behind it sees only calls of     *)
(* LogEvent that it allows.                                                 *)
THEOREM WatchedRecorderIsRecorder == FRSpec => Spec
<1>1. FRInit => Init
  BY DEF FRInit
<1>2. FRIndInv /\ [FRNext]_allVars => [Next]_vars
  BY RecorderStep DEF FRIndInv
<1> QED
  BY <1>1, <1>2, FRIndInvHolds, PTL DEF FRSpec, Spec

(* So every version of a watched file that LogEvent committed is published  *)
(* exactly once or lost with the tail a crash takes: the whole program      *)
(* implements the abstract version history.                                 *)
THEOREM WatchedHistory ==
  ASSUME MonotonicClock PROVE FRSpec => ImplementsHistory
BY WatchedRecorderIsRecorder, Refinement, PTL

=============================================================================
