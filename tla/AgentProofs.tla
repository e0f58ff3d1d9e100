---------------------------- MODULE AgentProofs -----------------------------
(***************************************************************************)
(* Proofs about what runs beside the recording itself: the eBPF manager,    *)
(* the cache of the BTF loader, the write profiler, a session that records  *)
(* its own state directory, and the metrics that concurrent callers share.  *)
(***************************************************************************)
EXTENDS EbpfManager, BTFLoader, Profiler, Metrics, SelfCapture,
        FiniteSetTheorems, TLAPS

(* A leaf is for Zenon to prove unless it cites SMT, for arithmetic,        *)
(* sequences and records, or PTL, for temporal logic.                       *)
USE Zenon

-----------------------------------------------------------------------------
(* The eBPF manager's channels and resources, for every buffer size and     *)
(* number of records, with and without lifecycle tracing.                   *)

(* Why no channel is closed twice or sent on when closed.  Consumers run    *)
(* only once Start has run.  The syscall channel is closed by its consumer  *)
(* alone, as it exits; the lifecycle channel by whoever finds the manager's *)
(* field set, which the closing clears.                                     *)
ChannelInv ==
  /\ chan \in [Streams -> BOOLEAN] /\ closes \in [Streams -> Nat]
  /\ pc \in [Streams -> {"off", "read", "send", "exited"}]
  /\ main = "start" => starter = "none" /\ \A s \in Streams : closes[s] = 0
  /\ starter # "done" => \A s \in Streams : pc[s] = "off"
  /\ \A s \in Streams : closes[s] <= 1
  /\ pc["syscall"] # "exited" => closes["syscall"] = 0
  /\ chan["lifecycle"] => closes["lifecycle"] = 0
  /\ pc["lifecycle"] \in {"read", "send"} => chan["lifecycle"]

(* A manager that runRecord did not get holds nothing.                      *)
LeakInv ==
  /\ NothingLeaked
  /\ mgr # "ok" => links = {} /\ \A s \in Streams : reader[s] # "open"
  /\ main = "start" => mgr = "none"

(* What a consumer can count on at the end.  Only Start sets running, so it *)
(* launches the consumers; a manager that runRecord got has a reader for    *)
(* each channel that was made, and holds that channel until it is closed.   *)
StopInv ==
  /\ running => starter = "done"
  /\ starter # "none" => mgr = "ok"
  /\ main = "start" => mgr = "none"
  /\ main = "done" => ctxDone
  /\ chan["lifecycle"] => Lifecycle
  /\ mgr = "ok" =>
       /\ \A s \in Streams : Made[s] => reader[s] # "nil"
       /\ Lifecycle => chan["lifecycle"] \/ closes["lifecycle"] = 1
  /\ starter = "done" =>
       /\ pc["syscall"] # "off"
       /\ pc["syscall"] = "exited" => closes["syscall"] = 1
       /\ Lifecycle /\ pc["lifecycle"] \in {"off", "exited"} => ~chan["lifecycle"]

(* The two ring buffers, and so the two readers, are distinct.              *)
LEMMA StreamNames == Streams = {"syscall", "lifecycle"} /\ "syscall" # "lifecycle"
  BY DEF Streams

(* Exit, from a failed Read or from a send given up, keeps ChannelInv.      *)
LEMMA ExitStep ==
  ASSUME ChannelInv, NEW s \in Streams, pc[s] \in {"read", "send"}, Exit(s)
  PROVE  ChannelInv'
<1>1. starter = "done" /\ main # "start" /\ closes[s] = 0
  BY StreamNames DEF ChannelInv
<1>2. main' = main /\ starter' = starter /\ pc' = [pc EXCEPT ![s] = "exited"]
  BY DEF Exit
<1>3. CASE s = "syscall"
  <2>1. closes' = [closes EXCEPT ![s] = @ + 1] /\ chan' = chan
    BY <1>3 DEF Exit
  <2> QED BY <1>1, <1>2, <1>3, <2>1, StreamNames, SMT DEF ChannelInv
<1>4. CASE s = "lifecycle"
  <2>1. /\ chan' = [chan EXCEPT ![s] = FALSE]
        /\ closes' = IF chan[s] THEN [closes EXCEPT ![s] = @ + 1] ELSE closes
    BY <1>4, StreamNames DEF Exit, CloseLifecycleChan
  <2>2. closes' = [closes EXCEPT ![s] = @ + 1]
    BY <1>4, <2>1 DEF ChannelInv
  <2> QED BY <1>1, <1>2, <1>4, <2>1, <2>2, StreamNames, SMT DEF ChannelInv
<1> QED BY <1>3, <1>4, StreamNames

(* init closes the lifecycle channel if its probe does not attach.          *)
LEMMA NewManagerStep ==
  ASSUME ChannelInv, NewManagerSucceeds
  PROVE  ChannelInv'
<1>1. /\ main' = "running" /\ starter' = "pending" /\ pc' = pc
      /\ starter = "none" /\ \A s \in Streams : closes[s] = 0 /\ pc[s] = "off"
  BY DEF NewManagerSucceeds, ChannelInv
<1>2. Made \in [Streams -> BOOLEAN]
  BY DEF Made
<1>3. CASE chan' = Made /\ closes' = closes
  BY <1>1, <1>2, <1>3, StreamNames DEF ChannelInv
<1>4. CASE CloseLifecycleChan("lifecycle", Made)
  <2>1. chan' \in [Streams -> BOOLEAN] /\ ~chan'["lifecycle"]
    BY <1>2, <1>4, StreamNames DEF CloseLifecycleChan
  <2>2. /\ closes' \in [Streams -> Nat] /\ closes'["syscall"] = 0
        /\ \A s \in Streams : closes'[s] <= 1
    BY <1>1, <1>4, StreamNames, SMT DEF CloseLifecycleChan, ChannelInv
  <2> QED BY <1>1, <2>1, <2>2, StreamNames DEF ChannelInv
<1> QED BY <1>3, <1>4 DEF NewManagerSucceeds

(* ChannelInv is inductive.                                                 *)
LEMMA ChannelStep == ChannelInv /\ [Next]_vars => ChannelInv'
<1> SUFFICES ASSUME ChannelInv, [Next]_vars PROVE ChannelInv'
  OBVIOUS
<1>1. CASE NewManagerFails
  BY <1>1 DEF NewManagerFails, ChannelInv, consumerVars
<1>2. CASE NewManagerSucceeds
  BY <1>2, NewManagerStep
<1>3. CASE NewManagerUnsupported
  BY <1>3 DEF NewManagerUnsupported, ChannelInv, consumerVars
<1>4. CASE Start
  <2>1. /\ main' = main /\ main # "start" /\ starter' = "done"
        /\ chan' = chan /\ closes' = closes /\ \A s \in Streams : pc[s] = "off"
    BY <1>4 DEF Start, ChannelInv
  <2>2. \/ pc' = pc
        \/ pc' = [s \in Streams |-> IF s = "syscall" \/ (reader[s] # "nil" /\ chan[s])
                                    THEN "read" ELSE "off"]
    BY <1>4 DEF Start
  <2>3. /\ pc' \in [Streams -> {"off", "read", "send", "exited"}]
        /\ pc'["syscall"] # "exited"
        /\ pc'["lifecycle"] \in {"read", "send"} => chan["lifecycle"]
    BY <2>1, <2>2, StreamNames DEF ChannelInv
  <2>4. pc["syscall"] = "off"
    BY <2>1, StreamNames
  <2> QED BY <2>1, <2>3, <2>4 DEF ChannelInv
<1>5. CASE CloseManager
  BY <1>5 DEF CloseManager, ChannelInv, consumerVars
<1>6. CASE CancelContext
  BY <1>6 DEF CancelContext, ChannelInv, consumerVars, mgrVars
<1>7. ASSUME NEW s \in Streams, Consumer(s) PROVE ChannelInv'
  <2>1. CASE ReadClosed(s) \/ GiveUp(s)
    BY <2>1, ExitStep DEF ReadClosed, GiveUp
  <2>2. CASE ReadRecord(s)
    <3>1. /\ main' = main /\ starter' = starter /\ chan' = chan /\ closes' = closes
          /\ pc[s] = "read" /\ (pc' = pc \/ pc' = [pc EXCEPT ![s] = "send"])
      BY <2>2 DEF ReadRecord, mgrVars
    <3> QED BY <3>1, StreamNames DEF ChannelInv
  <2>3. CASE Send(s)
    <3>1. /\ main' = main /\ starter' = starter /\ chan' = chan /\ closes' = closes
          /\ pc[s] = "send" /\ pc' = [pc EXCEPT ![s] = "read"]
      BY <2>3 DEF Send, mgrVars
    <3> QED BY <3>1, StreamNames DEF ChannelInv
  <2> QED BY <1>7, <2>1, <2>2, <2>3 DEF Consumer
<1>8. ASSUME NEW s \in Streams, Emit(s) PROVE ChannelInv'
  BY <1>8 DEF Emit, ChannelInv, consumerVars, mgrVars
<1>9. CASE UNCHANGED vars
  BY <1>9 DEF vars, ChannelInv, consumerVars, mgrVars
<1> QED BY <1>1, <1>2, <1>3, <1>4, <1>5, <1>6, <1>7, <1>8, <1>9 DEF Next

(* Wherever NewManager fails and whenever Close runs, the probes and the    *)
(* readers go.                                                              *)
LEMMA LeakStep == LeakInv /\ [Next]_vars => LeakInv'
<1> SUFFICES ASSUME LeakInv, [Next]_vars PROVE LeakInv'
  OBVIOUS
<1> USE DEF LeakInv, NothingLeaked
<1>r. ASSUME NEW attached, NEW readers, Release(attached, readers)
      PROVE  links' = {} /\ \A s \in Streams : reader'[s] # "open"
  BY <1>r DEF Release
<1>1. CASE NewManagerFails
  <2>1. links' = {} /\ \A s \in Streams : reader'[s] # "open"
    BY <1>1, <1>r DEF NewManagerFails
  <2>2. main' # "start"
    BY <1>1 DEF NewManagerFails
  <2> QED BY <2>1, <2>2
<1>2. CASE NewManagerSucceeds
  <2>1. mgr' = "ok" /\ main' = "running"
    BY <1>2 DEF NewManagerSucceeds
  <2> QED BY <2>1
<1>3. CASE NewManagerUnsupported
  <2>1. main = "start" /\ main' = "running" /\ links' = links /\ reader' = reader
    BY <1>3 DEF NewManagerUnsupported
  <2> QED BY <2>1
<1>5. CASE CloseManager
  <2>0. main' # "start"
    BY <1>5 DEF CloseManager
  <2>1. CASE mgr = "ok"
    <3>1. links' = {} /\ \A s \in Streams : reader'[s] # "open"
      BY <1>5, <1>r, <2>1 DEF CloseManager
    <3> QED BY <2>0, <3>1
  <2>2. CASE mgr # "ok"
    <3>1. links' = links /\ reader' = reader /\ mgr' = mgr
      BY <1>5, <2>2 DEF CloseManager
    <3> QED BY <2>0, <2>2, <3>1
  <2> QED BY <2>1, <2>2
<1>6. CASE CancelContext
  BY <1>6 DEF CancelContext, mgrVars
<1>7. CASE UNCHANGED <<main, mgr, links, reader>>
  BY <1>7
<1> QED
  BY <1>1, <1>2, <1>3, <1>5, <1>6, <1>7
     DEF Next, Start, Consumer, ReadClosed, ReadRecord, Send, GiveUp, Exit, Emit, mgrVars, vars

(* No channel of the manager is closed twice or sent on once closed.        *)
THEOREM ChannelsNeverPanic == Spec => []NoChannelPanic
<1>1. Init => ChannelInv
  BY StreamNames, SMT DEF Init, ChannelInv
<1>2. ChannelInv => NoChannelPanic
  <2> SUFFICES ASSUME ChannelInv, NEW s \in Streams
               PROVE  closes[s] <= 1 /\ (pc[s] \in {"read", "send"} => closes[s] = 0)
    BY DEF NoChannelPanic
  <2> QED BY StreamNames DEF ChannelInv
<1> QED BY <1>1, <1>2, ChannelStep, PTL DEF Spec

(* runRecord's deferred Close leaves no probe attached and no reader open.  *)
THEOREM CloseReleasesAll == Spec => []NothingLeaked
<1>1. Init => LeakInv
  BY DEF Init, LeakInv, NothingLeaked
<1>2. LeakInv => NothingLeaked
  BY DEF LeakInv
<1> QED BY <1>1, <1>2, LeakStep, PTL DEF Spec

-----------------------------------------------------------------------------
(* A record moves from the head of a ring, or to the end of a ring or a     *)
(* channel that has room.                                                   *)
LEMMA RecordQueues ==
  ASSUME NEW q \in Seq(Records)
  PROVE  /\ Len(q) \in Nat
         /\ q # <<>> => /\ Head(q) \in Records /\ Tail(q) \in Seq(Records)
                        /\ Len(Tail(q)) <= Len(q)
         /\ \A r \in Records : /\ Append(q, r) \in Seq(Records)
                                   /\ Len(Append(q, r)) = Len(q) + 1
<1>1. Len(q) \in Nat
  BY SMT
<1>2. ASSUME q # <<>> PROVE /\ Head(q) \in Records /\ Tail(q) \in Seq(Records)
                            /\ Len(Tail(q)) <= Len(q)
  <2>1. Len(q) # 0 /\ Head(q) = q[1] /\ 1 \in DOMAIN q
    BY <1>1, <1>2, SMT
  <2>2. Tail(q) \in Seq(Records) /\ Len(Tail(q)) = Len(q) - 1
    BY <1>2, SMT
  <2> QED
    BY <1>1, <2>1, <2>2, SMT
<1>3. ASSUME NEW r \in Records
      PROVE  Append(q, r) \in Seq(Records) /\ Len(Append(q, r)) = Len(q) + 1
  BY SMT
<1> QED
  BY <1>1, <1>2, <1>3

(* What NewManager, Start and Close set is well typed.                      *)
LEMMA ManagerTypes ==
  ASSUME TypeOK, ChannelInv, [Next]_vars
  PROVE  /\ main' \in {"start", "running", "cancel", "done"}
         /\ mgr' \in {"none", "ok", "error", "unsupported"}
         /\ starter' \in {"none", "pending", "done"}
         /\ running' \in BOOLEAN /\ cancel' \in BOOLEAN /\ ctxDone' \in BOOLEAN
         /\ links' \subseteq UNION {ProbesOf(s) : s \in Streams}
         /\ reader' \in [Streams -> {"nil", "open", "closed"}]
<1> USE DEF TypeOK, mgrVars
<1>0. UNION {ProbesOf(s) : s \in Streams} = WriteProbes \cup {"sched_exec"}
  <2>1. ProbesOf("syscall") = WriteProbes /\ ProbesOf("lifecycle") = {"sched_exec"}
    BY DEF ProbesOf
  <2> QED
    BY <2>1, StreamNames, SMT
<1>1. ASSUME NEW attached, NEW readers \in [Streams -> {"nil", "open", "closed"}],
             Release(attached, readers)
      PROVE  links' = {} /\ running' = FALSE /\ reader' \in [Streams -> {"nil", "open", "closed"}]
  BY <1>1 DEF Release
<1>2. CASE NewManagerFails
  <2>1. PICK attached \in SUBSET WriteProbes, opened \in BOOLEAN :
          Release(attached, [s \in Streams |-> IF s = "syscall" /\ opened THEN "open" ELSE "nil"])
    BY <1>2 DEF NewManagerFails
  <2>2. links' = {} /\ running' = FALSE /\ reader' \in [Streams -> {"nil", "open", "closed"}]
    BY <1>1, <2>1
  <2> QED
    BY <1>2, <2>2 DEF NewManagerFails
<1>3. CASE NewManagerSucceeds
  <2>1. links' \subseteq WriteProbes \cup {"sched_exec"}
    BY <1>3 DEF NewManagerSucceeds, ProbesOf
  <2>2. reader' \in [Streams -> {"nil", "open", "closed"}]
    BY <1>3 DEF NewManagerSucceeds
  <2> QED
    BY <1>0, <1>3, <2>1, <2>2 DEF NewManagerSucceeds
<1>4. CASE NewManagerUnsupported
  BY <1>4 DEF NewManagerUnsupported
<1>5. CASE Start
  BY <1>5 DEF Start
<1>6. CASE CloseManager
  <2>1. \/ Release(links, reader)
        \/ UNCHANGED <<links, reader, running>>
    BY <1>6 DEF CloseManager
  <2>2. /\ links' \subseteq UNION {ProbesOf(s) : s \in Streams} /\ running' \in BOOLEAN
        /\ reader' \in [Streams -> {"nil", "open", "closed"}]
    BY <1>1, <2>1
  <2> QED
    BY <1>6, <2>2 DEF CloseManager
<1>7. CASE CancelContext
  BY <1>7 DEF CancelContext
<1>8. CASE \E s \in Streams : Consumer(s) \/ Emit(s)
  <2>1. UNCHANGED <<main, mgr, starter, running, cancel, ctxDone, links, reader>>
    BY <1>8 DEF Consumer, ReadClosed, ReadRecord, Send, GiveUp, Exit, Emit
  <2> QED
    BY <2>1
<1>9. CASE UNCHANGED vars
  BY <1>9 DEF vars
<1> QED
  BY <1>2, <1>3, <1>4, <1>5, <1>6, <1>7, <1>8, <1>9 DEF Next

(* The parts of TypeOK about the records on their way: in the rings and     *)
(* channels, and in the consumers' hands.                                   *)
QueuesOK ==
  /\ emitted \in [Streams -> 0..MaxEmits]
  /\ buf \in [Streams -> Seq(Records)] /\ \A s \in Streams : Len(buf[s]) <= ChanMax
  /\ ring \in [Streams -> Seq(Records)] /\ \A s \in Streams : Len(ring[s]) <= RingMax

HandsOK ==
  /\ pc \in [Streams -> {"off", "read", "send", "exited"}]
  /\ rec \in [Streams -> Records \cup {Nil}]
  /\ \A s \in Streams : (rec[s] # Nil) <=> (pc[s] = "send")

(* Replacing the queue of one stream by one that is not too long.           *)
LEMMA QueueUpdate ==
  ASSUME NEW q \in [Streams -> Seq(Records)], NEW n \in Nat, \A t \in Streams : Len(q[t]) <= n,
         NEW s \in Streams, NEW r \in Seq(Records), Len(r) <= n
  PROVE  LET u == [q EXCEPT ![s] = r]
         IN  u \in [Streams -> Seq(Records)] /\ \A t \in Streams : Len(u[t]) <= n
<1> DEFINE u == [q EXCEPT ![s] = r]
<1>1. u \in [Streams -> Seq(Records)]
  OBVIOUS
<1>2. \A t \in Streams : u[t] = q[t] \/ u[t] = r
  OBVIOUS
<1> HIDE DEF u
<1>3. \A t \in Streams : Len(u[t]) <= n
  BY <1>2
<1> QED
  BY <1>1, <1>3 DEF u

(* What the kernel and the consumers move around is well typed, and neither *)
(* a ring buffer nor a channel holds more than it has room for.             *)
LEMMA QueueStep ==
  ASSUME QueuesOK, HandsOK, ChannelInv, [Next]_vars PROVE QueuesOK' /\ HandsOK'
<1>0. ChanMax \in Nat /\ RingMax \in Nat /\ MaxEmits \in Nat /\ Nil \notin Records
  BY BoundAssumption
<1>1. ASSUME UNCHANGED <<emitted, buf, ring>> PROVE QueuesOK'
  BY <1>1 DEF QueuesOK
<1>2. ASSUME UNCHANGED <<pc, rec>> PROVE HandsOK'
  BY <1>2 DEF HandsOK
<1>3. CASE NewManagerFails \/ NewManagerSucceeds \/ NewManagerUnsupported
           \/ CloseManager \/ CancelContext \/ UNCHANGED vars
  <2>1. UNCHANGED <<emitted, buf, ring, rec, pc>>
    BY <1>3 DEF NewManagerFails, NewManagerSucceeds, NewManagerUnsupported, CloseManager,
                       CancelContext, vars, kernelVars, consumerVars
  <2> QED
    BY <1>1, <1>2, <2>1
<1>4. CASE Start
  <2>1. UNCHANGED <<emitted, buf, ring, rec>> /\ \A s \in Streams : pc[s] = "off"
    BY <1>4 DEF Start, kernelVars, ChannelInv
  <2>2. pc' \in [Streams -> {"off", "read", "send", "exited"}] /\ \A s \in Streams : pc'[s] # "send"
    BY <1>4, <2>1 DEF Start, ChannelInv
  <2>3. HandsOK'
    BY <2>1, <2>2 DEF HandsOK
  <2> QED
    BY <1>1, <2>1, <2>3
<1>5. ASSUME NEW s \in Streams, Exit(s) PROVE QueuesOK' /\ HandsOK'
  <2>1. /\ UNCHANGED <<emitted, buf, ring>> /\ pc' = [pc EXCEPT ![s] = "exited"]
        /\ rec' = [rec EXCEPT ![s] = Nil]
    BY <1>5 DEF Exit, kernelVars
  <2>2. HandsOK'
    BY <2>1 DEF HandsOK
  <2> QED
    BY <1>1, <2>1, <2>2
<1>6. ASSUME NEW s \in Streams, ReadRecord(s) PROVE QueuesOK' /\ HandsOK'
  <2>1. /\ UNCHANGED <<emitted, buf>> /\ ring' = [ring EXCEPT ![s] = Tail(ring[s])]
        /\ pc[s] = "read" /\ ring[s] # <<>>
        /\ \/ pc' = [pc EXCEPT ![s] = "send"] /\ rec' = [rec EXCEPT ![s] = Head(ring[s])]
           \/ UNCHANGED <<pc, rec>>
    BY <1>6 DEF ReadRecord
  <2>2. ring[s] \in Seq(Records) /\ Len(ring[s]) <= RingMax
    BY DEF QueuesOK
  <2>3. /\ Head(ring[s]) \in Records /\ Tail(ring[s]) \in Seq(Records)
        /\ Len(Tail(ring[s])) <= RingMax
    BY <1>0, <2>1, <2>2, RecordQueues, SMT
  <2>4. QueuesOK'
    BY <1>0, <2>1, <2>3, QueueUpdate DEF QueuesOK
  <2> DEFINE r == Head(ring[s])
  <2>5. r \in Records /\ (rec' = [rec EXCEPT ![s] = r] \/ rec' = rec)
    BY <2>1, <2>3
  <2> HIDE DEF r
  <2>6. HandsOK'
    BY <1>0, <2>1, <2>5 DEF HandsOK, r
  <2> QED
    BY <2>4, <2>6
<1>7. ASSUME NEW s \in Streams, Send(s) PROVE QueuesOK' /\ HandsOK'
  <2>1. /\ UNCHANGED <<emitted, ring>> /\ buf' = [buf EXCEPT ![s] = Append(buf[s], rec[s])]
        /\ pc[s] = "send" /\ Len(buf[s]) < ChanMax
        /\ pc' = [pc EXCEPT ![s] = "read"] /\ rec' = [rec EXCEPT ![s] = Nil]
    BY <1>7 DEF Send, kernelVars
  <2>2. rec[s] \in Records
    BY <2>1 DEF HandsOK
  <2>3. buf[s] \in Seq(Records)
    BY DEF QueuesOK
  <2>4. Append(buf[s], rec[s]) \in Seq(Records) /\ Len(Append(buf[s], rec[s])) <= ChanMax
    BY <1>0, <2>1, <2>2, <2>3, RecordQueues, SMT
  <2>5. QueuesOK'
    BY <1>0, <2>1, <2>4, QueueUpdate DEF QueuesOK
  <2>6. HandsOK'
    BY <2>1 DEF HandsOK
  <2> QED
    BY <2>5, <2>6
<1>8. ASSUME NEW s \in Streams, Emit(s) PROVE QueuesOK' /\ HandsOK'
  <2>1. /\ UNCHANGED <<buf, pc, rec>> /\ emitted[s] < MaxEmits
        /\ emitted' = [emitted EXCEPT ![s] = emitted[s] + 1]
        /\ \/ ring' = ring
           \/ Len(ring[s]) < RingMax /\ ring' = [ring EXCEPT ![s] = Append(ring[s], emitted[s] + 1)]
    BY <1>8 DEF Emit, consumerVars
  <2>2. emitted \in [Streams -> 0..MaxEmits] /\ ring[s] \in Seq(Records)
    BY DEF QueuesOK
  <2>3. emitted[s] + 1 \in Records /\ emitted' \in [Streams -> 0..MaxEmits]
    BY <1>0, <2>1, <2>2, SMT DEF Records
  <2>4. Len(ring[s]) < RingMax => /\ Append(ring[s], emitted[s] + 1) \in Seq(Records)
                                  /\ Len(Append(ring[s], emitted[s] + 1)) <= RingMax
    BY <1>0, <2>2, <2>3, RecordQueues, SMT
  <2>5. ring' \in [Streams -> Seq(Records)] /\ \A t \in Streams : Len(ring'[t]) <= RingMax
    <3>1. CASE ring' = ring
      BY <3>1 DEF QueuesOK
    <3>2. CASE Len(ring[s]) < RingMax /\ ring' = [ring EXCEPT ![s] = Append(ring[s], emitted[s] + 1)]
      BY <1>0, <2>4, <3>2, QueueUpdate DEF QueuesOK
    <3> QED
      BY <2>1, <3>1, <3>2
  <2>6. QueuesOK'
    BY <2>1, <2>3, <2>5 DEF QueuesOK
  <2> QED
    BY <1>2, <2>1, <2>6
<1>9. ASSUME NEW s \in Streams, Consumer(s) PROVE QueuesOK' /\ HandsOK'
  BY <1>5, <1>6, <1>7, <1>9 DEF Consumer, ReadClosed, GiveUp
<1> QED
  BY <1>3, <1>4, <1>8, <1>9 DEF Next

(* Every variable holds a value the code can store there, no ring buffer or *)
(* channel ever holds more records than it has room for, and a consumer has *)
(* a record in hand exactly while it waits to send it, although Start can   *)
(* come after Close.                                                        *)
THEOREM TypeCorrect == Spec => []TypeOK
<1>1. Init => TypeOK /\ ChannelInv
  <2> SUFFICES ASSUME Init PROVE TypeOK /\ ChannelInv
    OBVIOUS
  <2>1. ChannelInv
    BY StreamNames, SMT DEF Init, ChannelInv
  <2>2. buf \in [Streams -> Seq(Records)] /\ ring \in [Streams -> Seq(Records)]
    BY SMT DEF Init
  <2>3. emitted \in [Streams -> 0..MaxEmits] /\ rec \in [Streams -> Records \cup {Nil}]
    BY BoundAssumption, SMT DEF Init
  <2>4. \A s \in Streams : Len(buf[s]) <= ChanMax /\ Len(ring[s]) <= RingMax
    BY BoundAssumption, SMT DEF Init
  <2> QED
    BY <2>1, <2>2, <2>3, <2>4 DEF Init, TypeOK
<1>2. TypeOK /\ ChannelInv /\ [Next]_vars => (TypeOK /\ ChannelInv)'
  <2> SUFFICES ASSUME TypeOK, ChannelInv, [Next]_vars PROVE TypeOK' /\ ChannelInv'
    OBVIOUS
  <2>1. ChannelInv'
    BY ChannelStep
  <2>2. QueuesOK' /\ HandsOK'
    <3>1. QueuesOK /\ HandsOK
      BY DEF TypeOK, QueuesOK, HandsOK
    <3> QED
      BY <3>1, QueueStep
  <2> QED
    BY <2>1, <2>2, ManagerTypes DEF TypeOK, ChannelInv, QueuesOK, HandsOK
<1> QED
  BY <1>1, <1>2, PTL DEF Spec

(* A queue with one record more at its end, or without its first.           *)
LEMMA QueueItems ==
  ASSUME NEW q \in Seq(Records), NEW r \in Records
  PROVE  /\ DOMAIN q = 1..Len(q) /\ Len(q) \in Nat /\ \A i \in DOMAIN q : q[i] \in Records
         /\ DOMAIN Append(q, r) = 1..(Len(q) + 1)
         /\ Append(q, r)[Len(q) + 1] = r /\ \A i \in 1..Len(q) : Append(q, r)[i] = q[i]
         /\ q # <<>> => /\ Len(q) > 0 /\ Head(q) = q[1] /\ DOMAIN Tail(q) = 1..(Len(q) - 1)
                        /\ \A i \in 1..(Len(q) - 1) : Tail(q)[i] = q[i + 1]
<1>1. DOMAIN q = 1..Len(q) /\ Len(q) \in Nat /\ \A i \in DOMAIN q : q[i] \in Records
  BY SMT
<1>2. /\ DOMAIN Append(q, r) = 1..(Len(q) + 1)
      /\ Append(q, r)[Len(q) + 1] = r /\ \A i \in 1..Len(q) : Append(q, r)[i] = q[i]
  BY SMT
<1>3. ASSUME q # <<>>
      PROVE  /\ Len(q) > 0 /\ Head(q) = q[1] /\ DOMAIN Tail(q) = 1..(Len(q) - 1)
             /\ \A i \in 1..(Len(q) - 1) : Tail(q)[i] = q[i + 1]
  BY <1>1, <1>3, SMT
<1> QED BY <1>1, <1>2, <1>3

(* What the probes and a consumer do to the records of a stream keeps their *)
(* order: a record given up, one that did not fit, one emitted, one read,   *)
(* one dropped by the decoder, one sent.                                    *)
LEMMA OrderKept ==
  ASSUME NEW sent \in Seq(Records), NEW waiting \in Seq(Records), NEW hand \in Records \cup {Nil},
         NEW n \in Nat, n + 1 \in Records \/ n = MaxEmits, InOrder(sent, hand, waiting, n)
  PROVE  /\ InOrder(sent, Nil, waiting, n)
         /\ InOrder(sent, hand, waiting, n + 1)
         /\ n + 1 \in Records => InOrder(sent, hand, Append(waiting, n + 1), n + 1)
         /\ waiting # <<>> /\ hand = Nil => /\ InOrder(sent, Head(waiting), Tail(waiting), n)
                                            /\ InOrder(sent, Nil, Tail(waiting), n)
         /\ hand # Nil => InOrder(Append(sent, hand), Nil, waiting, n)
<1>0. Records \subseteq Nat /\ Nil \notin Records
  BY BoundAssumption, SMT DEF Records
<1>1. /\ DOMAIN sent = 1..Len(sent) /\ DOMAIN waiting = 1..Len(waiting)
      /\ Len(sent) \in Nat /\ Len(waiting) \in Nat
      /\ \A i \in DOMAIN sent : sent[i] \in Nat
      /\ \A i \in DOMAIN waiting : waiting[i] \in Nat
  <2>1. /\ DOMAIN sent = 1..Len(sent) /\ DOMAIN waiting = 1..Len(waiting)
        /\ Len(sent) \in Nat /\ Len(waiting) \in Nat
    BY SMT
  <2>2. /\ \A i \in DOMAIN sent : sent[i] \in Records
        /\ \A i \in DOMAIN waiting : waiting[i] \in Records
    BY SMT
  <2> QED BY <1>0, <2>1, <2>2
<1>2. InOrder(sent, Nil, waiting, n)
  BY DEF InOrder
<1>3. InOrder(sent, hand, waiting, n + 1)
  BY <1>0, <1>1, SMT DEF InOrder
<1>4. ASSUME n + 1 \in Records PROVE InOrder(sent, hand, Append(waiting, n + 1), n + 1)
  <2> DEFINE q == Append(waiting, n + 1)
  <2>1. DOMAIN q = 1..(Len(waiting) + 1) /\ q[Len(waiting) + 1] = n + 1
        /\ \A i \in 1..Len(waiting) : q[i] = waiting[i]
    BY <1>4, QueueItems
  <2> HIDE DEF q
  <2>2. \A j \in DOMAIN q : q[j] <= n + 1 /\ q[j] \in Nat
    BY <1>1, <2>1, SMT DEF InOrder
  <2>3. \A i, j \in DOMAIN q : i < j => q[i] < q[j]
    BY <1>1, <2>1, SMT DEF InOrder
  <2>4. \A i \in DOMAIN sent : \A j \in DOMAIN q : sent[i] < q[j]
    BY <1>1, <2>1, SMT DEF InOrder
  <2>5. hand # Nil => \A j \in DOMAIN q : hand < q[j]
    BY <1>0, <1>1, <2>1, SMT DEF InOrder
  <2>6. InOrder(sent, hand, q, n + 1)
    BY <1>3, <2>2, <2>3, <2>4, <2>5 DEF InOrder
  <2> QED BY <2>6 DEF q
<1>5. ASSUME waiting # <<>>, hand = Nil
      PROVE  InOrder(sent, Head(waiting), Tail(waiting), n) /\ InOrder(sent, Nil, Tail(waiting), n)
  <2> DEFINE q == Tail(waiting)
  <2>1. /\ Len(waiting) > 0 /\ Head(waiting) = waiting[1] /\ DOMAIN q = 1..(Len(waiting) - 1)
        /\ \A i \in 1..(Len(waiting) - 1) : q[i] = waiting[i + 1]
    <3>1. waiting[1] \in Records
      BY <1>1, <1>5, SMT
    <3> QED BY <1>5, <3>1, QueueItems
  <2> HIDE DEF q
  <2>2. 1 \in DOMAIN waiting /\ \A i \in DOMAIN q : i + 1 \in DOMAIN waiting /\ 1 < i + 1 /\ i \in Nat
    BY <1>1, <2>1, SMT
  <2>3. \A i, j \in DOMAIN q : i < j => q[i] < q[j]
    <3>1. \A i, j \in DOMAIN q : i < j => i + 1 < j + 1
      BY <2>2, SMT
    <3> QED BY <2>1, <2>2, <3>1 DEF InOrder
  <2>4. \A j \in DOMAIN q : q[j] <= n /\ waiting[1] < q[j] /\ \A i \in DOMAIN sent : sent[i] < q[j]
    BY <2>1, <2>2 DEF InOrder
  <2>5. waiting[1] <= n /\ \A i \in DOMAIN sent : sent[i] < waiting[1] /\ sent[i] <= n
    BY <2>2 DEF InOrder
  <2>6. InOrder(sent, waiting[1], q, n) /\ InOrder(sent, Nil, q, n)
    BY <2>3, <2>4, <2>5 DEF InOrder
  <2> QED BY <2>1, <2>6 DEF q
<1>6. ASSUME hand # Nil PROVE InOrder(Append(sent, hand), Nil, waiting, n)
  <2> DEFINE q == Append(sent, hand)
  <2>0. hand \in Records /\ hand \in Nat
    BY <1>0, <1>6
  <2>1. DOMAIN q = 1..(Len(sent) + 1) /\ q[Len(sent) + 1] = hand
        /\ \A i \in 1..Len(sent) : q[i] = sent[i]
    BY <2>0, QueueItems
  <2> HIDE DEF q
  <2>2. \A i, j \in DOMAIN q : i < j => q[i] < q[j]
    BY <1>1, <1>6, <2>0, <2>1, SMT DEF InOrder
  <2>3. \A i \in DOMAIN q : i \in DOMAIN sent \/ i = Len(sent) + 1
    BY <1>1, <2>1, SMT
  <2>4. \A i \in DOMAIN q : q[i] <= n /\ \A j \in DOMAIN waiting : q[i] < waiting[j]
    BY <1>1, <1>6, <2>1, <2>3 DEF InOrder
  <2>5. InOrder(q, Nil, waiting, n)
    BY <2>2, <2>4 DEF InOrder
  <2> QED BY <2>5 DEF q
<1> QED BY <1>2, <1>3, <1>4, <1>5, <1>6

(* For every size of the rings and channels, no record is repeated or       *)
(* overtaken on its way from a probe to the channel.                        *)
THEOREM RecordsStayInOrder == Spec => []RecordsInOrder
<1>1. Init => RecordsInOrder
  BY SMT DEF Init, RecordsInOrder, InOrder
<1>2. TypeOK /\ RecordsInOrder /\ [Next]_vars => RecordsInOrder'
  <2> SUFFICES ASSUME TypeOK, RecordsInOrder, [Next]_vars, NEW t \in Streams
               PROVE  InOrder(buf'[t], rec'[t], ring'[t], emitted'[t])
    BY DEF RecordsInOrder
  <2>0. /\ buf \in [Streams -> Seq(Records)] /\ ring \in [Streams -> Seq(Records)]
        /\ rec \in [Streams -> Records \cup {Nil}] /\ emitted \in [Streams -> 0..MaxEmits]
        /\ \A s \in Streams : rec[s] # Nil <=> pc[s] = "send"
    BY DEF TypeOK
  <2>1. /\ buf[t] \in Seq(Records) /\ ring[t] \in Seq(Records) /\ rec[t] \in Records \cup {Nil}
        /\ emitted[t] \in Nat /\ (emitted[t] + 1 \in Records \/ emitted[t] = MaxEmits)
        /\ emitted[t] < MaxEmits => emitted[t] + 1 \in Records
        /\ InOrder(buf[t], rec[t], ring[t], emitted[t])
    <3>1. buf[t] \in Seq(Records) /\ ring[t] \in Seq(Records) /\ rec[t] \in Records \cup {Nil}
          /\ emitted[t] \in 0..MaxEmits
      BY <2>0
    <3>2. emitted[t] \in Nat /\ (emitted[t] + 1 \in Records \/ emitted[t] = MaxEmits)
          /\ (emitted[t] < MaxEmits => emitted[t] + 1 \in Records)
      BY <3>1, BoundAssumption, SMT DEF Records
    <3> QED BY <3>1, <3>2 DEF RecordsInOrder
  <2>2. CASE buf'[t] = buf[t] /\ rec'[t] = rec[t] /\ ring'[t] = ring[t] /\ emitted'[t] = emitted[t]
    BY <2>1, <2>2
  <2>3. ASSUME NEW s \in Streams, Exit(s) PROVE InOrder(buf'[t], rec'[t], ring'[t], emitted'[t])
    <3>1. UNCHANGED <<emitted, buf, ring>> /\ rec' = [rec EXCEPT ![s] = Nil]
      BY <2>3 DEF Exit, kernelVars
    <3>2. CASE t = s
      BY <2>0, <2>1, <3>1, <3>2, OrderKept
    <3>3. CASE t # s
      BY <2>0, <2>2, <3>1, <3>3
    <3> QED BY <3>2, <3>3
  <2>4. ASSUME NEW s \in Streams, ReadRecord(s)
        PROVE  InOrder(buf'[t], rec'[t], ring'[t], emitted'[t])
    <3>1. /\ UNCHANGED <<emitted, buf>> /\ ring' = [ring EXCEPT ![s] = Tail(ring[s])]
          /\ pc[s] = "read" /\ ring[s] # <<>>
          /\ rec' = [rec EXCEPT ![s] = Head(ring[s])] \/ rec' = rec
      BY <2>4 DEF ReadRecord
    <3>2. CASE t = s
      <4>1. /\ rec[t] = Nil /\ ring'[t] = Tail(ring[t])
            /\ rec'[t] = Head(ring[t]) \/ rec'[t] = Nil
        BY <2>0, <3>1, <3>2
      <4>2. /\ InOrder(buf[t], Head(ring[t]), Tail(ring[t]), emitted[t])
            /\ InOrder(buf[t], Nil, Tail(ring[t]), emitted[t])
        BY <2>1, <3>1, <3>2, <4>1, OrderKept
      <4> QED BY <3>1, <4>1, <4>2
    <3>3. CASE t # s
      BY <2>0, <2>2, <3>1, <3>3
    <3> QED BY <3>2, <3>3
  <2>5. ASSUME NEW s \in Streams, Send(s) PROVE InOrder(buf'[t], rec'[t], ring'[t], emitted'[t])
    <3>1. /\ UNCHANGED <<emitted, ring>> /\ buf' = [buf EXCEPT ![s] = Append(buf[s], rec[s])]
          /\ pc[s] = "send" /\ rec' = [rec EXCEPT ![s] = Nil]
      BY <2>5 DEF Send, kernelVars
    <3>2. CASE t = s
      <4>1. rec[t] # Nil /\ buf'[t] = Append(buf[t], rec[t]) /\ rec'[t] = Nil
        BY <2>0, <3>1, <3>2
      <4>2. InOrder(Append(buf[t], rec[t]), Nil, ring[t], emitted[t])
        BY <2>1, <4>1, OrderKept
      <4> QED BY <3>1, <4>1, <4>2
    <3>3. CASE t # s
      BY <2>0, <2>2, <3>1, <3>3
    <3> QED BY <3>2, <3>3
  <2>6. ASSUME NEW s \in Streams, Emit(s) PROVE InOrder(buf'[t], rec'[t], ring'[t], emitted'[t])
    <3>1. /\ UNCHANGED <<buf, rec>> /\ emitted[s] < MaxEmits
          /\ emitted' = [emitted EXCEPT ![s] = emitted[s] + 1]
          /\ ring' = ring \/ ring' = [ring EXCEPT ![s] = Append(ring[s], emitted[s] + 1)]
      BY <2>6 DEF Emit, consumerVars
    <3>2. CASE t = s
      <4>1. /\ emitted'[t] = emitted[t] + 1
            /\ ring'[t] = ring[t] \/ ring'[t] = Append(ring[t], emitted[t] + 1)
        BY <2>0, <3>1, <3>2
      <4>2. emitted[t] + 1 \in Records
        BY <2>1, <3>1, <3>2
      <4>3. /\ InOrder(buf[t], rec[t], ring[t], emitted[t] + 1)
            /\ InOrder(buf[t], rec[t], Append(ring[t], emitted[t] + 1), emitted[t] + 1)
        BY <2>1, <4>2, OrderKept
      <4> QED BY <3>1, <4>1, <4>3
    <3>3. CASE t # s
      BY <2>0, <2>2, <3>1, <3>3
    <3> QED BY <3>2, <3>3
  <2>7. CASE UNCHANGED <<buf, rec, ring, emitted>>
    BY <2>2, <2>7
  <2> QED
    BY <2>3, <2>4, <2>5, <2>6, <2>7
    DEF Next, Consumer, ReadClosed, GiveUp, NewManagerFails, NewManagerSucceeds,
        NewManagerUnsupported, Start, CloseManager, CancelContext, vars, kernelVars, consumerVars
<1> QED BY <1>1, <1>2, TypeCorrect, PTL DEF Spec

(* StopInv is inductive next to ChannelInv.                                 *)
LEMMA StopStep == ChannelInv /\ StopInv /\ [Next]_vars => StopInv'
<1> SUFFICES ASSUME ChannelInv, StopInv, [Next]_vars PROVE StopInv'
  OBVIOUS
<1>0. Streams = {"syscall", "lifecycle"} /\ Made["lifecycle"] = Lifecycle
  BY StreamNames, BoundAssumption DEF Made
<1>1. CASE NewManagerFails
  <2>1. /\ main = "start" /\ main' = "cancel" /\ mgr' = "error" /\ ~running'
        /\ starter' = starter /\ chan' = chan
    BY <1>1 DEF NewManagerFails, Release
  <2> QED BY <2>1 DEF StopInv
<1>2. CASE NewManagerSucceeds
  <2>1. /\ main = "start" /\ main' = "running" /\ mgr' = "ok" /\ running' = running
        /\ starter' = "pending"
    BY <1>2 DEF NewManagerSucceeds
  <2>2. ~running
    BY <2>1 DEF StopInv
  <2>3. \A s \in Streams : Made[s] => reader'[s] # "nil"
    BY <1>2 DEF NewManagerSucceeds
  <2>4. /\ chan'["lifecycle"] => Lifecycle
        /\ Lifecycle => chan'["lifecycle"] \/ closes'["lifecycle"] = 1
    <3>1. closes \in [Streams -> Nat] /\ closes["lifecycle"] = 0
      BY <1>0, <2>1 DEF ChannelInv
    <3>2. CASE chan' = Made
      BY <1>0, <3>2
    <3>3. CASE CloseLifecycleChan("lifecycle", Made)
      <4>1. ~chan'["lifecycle"]
        BY <1>0, <3>3 DEF CloseLifecycleChan, Made
      <4>2. ASSUME Lifecycle PROVE closes' = [closes EXCEPT !["lifecycle"] = @ + 1]
        BY <1>0, <3>3, <4>2 DEF CloseLifecycleChan
      <4>3. Lifecycle => closes'["lifecycle"] = 1
        BY <1>0, <3>1, <4>2, SMT
      <4> QED BY <4>1, <4>3
    <3> QED BY <1>2, <3>2, <3>3 DEF NewManagerSucceeds
  <2> QED BY <2>1, <2>2, <2>3, <2>4 DEF StopInv
<1>3. CASE NewManagerUnsupported
  BY <1>3 DEF NewManagerUnsupported, StopInv
<1>4. CASE Start
  <2>1. /\ starter = "pending" /\ starter' = "done" /\ ~running /\ mgr = "ok"
        /\ UNCHANGED <<main, mgr, ctxDone, reader, chan, closes>>
    BY <1>4 DEF Start, StopInv
  <2>2. pc' = [s \in Streams |-> IF s = "syscall" \/ (reader[s] # "nil" /\ chan[s])
                                 THEN "read" ELSE "off"]
    BY <1>4, <2>1 DEF Start
  <2>3. pc'["syscall"] = "read"
    BY <1>0, <2>2
  <2>4. Lifecycle /\ chan["lifecycle"] => pc'["lifecycle"] = "read"
    BY <1>0, <2>1, <2>2 DEF StopInv
  <2> QED BY <2>1, <2>3, <2>4 DEF StopInv
<1>5. CASE CloseManager
  <2>1. /\ main = "running" /\ main' = "cancel"
        /\ UNCHANGED <<mgr, starter, chan, pc, closes>> /\ (running' => running)
    BY <1>5 DEF CloseManager, Release, consumerVars
  <2>2. \A s \in Streams : reader[s] # "nil" => reader'[s] # "nil"
    BY <1>5 DEF CloseManager, Release
  <2> QED BY <2>1, <2>2 DEF StopInv
<1>6. CASE CancelContext
  BY <1>6 DEF CancelContext, mgrVars, consumerVars, StopInv
<1>7. ASSUME NEW s \in Streams, pc[s] \in {"read", "send"}, Exit(s) PROVE StopInv'
  <2>1. UNCHANGED <<main, mgr, starter, running, ctxDone, reader>> /\ starter = "done"
        /\ pc \in [Streams -> {"off", "read", "send", "exited"}] /\ pc' = [pc EXCEPT ![s] = "exited"]
        /\ closes \in [Streams -> Nat] /\ chan \in [Streams -> BOOLEAN]
    BY <1>7 DEF Exit, ChannelInv
  <2>2. CASE s = "syscall"
    <3>1. closes' = [closes EXCEPT !["syscall"] = @ + 1] /\ chan' = chan /\ closes["syscall"] = 0
      BY <1>7, <2>2 DEF Exit, ChannelInv
    <3>2. closes'["syscall"] = 1 /\ closes'["lifecycle"] = closes["lifecycle"]
      BY <1>0, <2>1, <3>1, SMT
    <3>3. pc'["syscall"] = "exited" /\ pc'["lifecycle"] = pc["lifecycle"]
      BY <1>0, <2>1, <2>2
    <3> QED BY <2>1, <3>1, <3>2, <3>3 DEF StopInv
  <2>3. CASE s = "lifecycle"
    <3>1. chan["lifecycle"] /\ closes["lifecycle"] = 0
      BY <1>7, <2>3 DEF ChannelInv
    <3>2. /\ closes' = [closes EXCEPT !["lifecycle"] = @ + 1]
          /\ chan' = [chan EXCEPT !["lifecycle"] = FALSE]
      BY <1>7, <2>3, <3>1 DEF Exit, CloseLifecycleChan
    <3>3. closes'["lifecycle"] = 1 /\ closes'["syscall"] = closes["syscall"] /\ ~chan'["lifecycle"]
      BY <1>0, <2>1, <3>1, <3>2, SMT
    <3>4. pc'["syscall"] = pc["syscall"]
      BY <1>0, <2>1, <2>3
    <3> QED BY <2>1, <3>3, <3>4 DEF StopInv
  <2> QED BY <1>0, <2>2, <2>3
<1>8. ASSUME NEW s \in Streams, pc[s] \in {"read", "send"}, UNCHANGED <<main, starter, ctxDone, mgrVars, closes>>,
             pc' = pc \/ pc' = [pc EXCEPT ![s] = "read"] \/ pc' = [pc EXCEPT ![s] = "send"]
      PROVE  StopInv'
  <2>0. /\ pc \in [Streams -> {"off", "read", "send", "exited"}]
        /\ \E v \in {"read", "send"} : pc' = pc \/ pc' = [pc EXCEPT ![s] = v]
    BY <1>8 DEF ChannelInv
  <2>1. \A t \in Streams : pc'[t] = pc[t] \/ (pc[t] # "exited" /\ pc'[t] \in {"read", "send"})
    <3>1. PICK v \in {"read", "send"} : pc' = pc \/ pc' = [pc EXCEPT ![s] = v]
      BY <2>0
    <3>2. \A t \in Streams : t # s => pc'[t] = pc[t]
      BY <2>0, <3>1
    <3>3. pc'[s] = pc[s] \/ pc'[s] = v
      BY <2>0, <3>1
    <3>4. pc[s] # "exited"
      BY <1>8
    <3> QED BY <3>1, <3>2, <3>3, <3>4
  <2>2. pc'["syscall"] = "exited" => pc["syscall"] = "exited"
    BY <1>0, <2>1
  <2>3. pc'["lifecycle"] \in {"off", "exited"} => pc["lifecycle"] \in {"off", "exited"}
    BY <1>0, <2>1
  <2>4. pc'["syscall"] = "off" => pc["syscall"] = "off"
    BY <1>0, <2>1
  <2> QED BY <1>8, <2>2, <2>3, <2>4 DEF StopInv, mgrVars
<1>9. ASSUME NEW s \in Streams, Consumer(s) PROVE StopInv'
  <2>1. CASE ReadClosed(s) \/ GiveUp(s)
    BY <1>7, <2>1 DEF ReadClosed, GiveUp
  <2>2. CASE ReadRecord(s)
    BY <1>8, <2>2 DEF ReadRecord
  <2>3. CASE Send(s)
    BY <1>8, <2>3 DEF Send
  <2> QED BY <1>9, <2>1, <2>2, <2>3 DEF Consumer
<1>10. CASE UNCHANGED <<main, starter, ctxDone, mgrVars, consumerVars>>
  BY <1>10 DEF mgrVars, consumerVars, StopInv
<1> QED
  BY <1>1, <1>2, <1>3, <1>4, <1>5, <1>6, <1>9, <1>10 DEF Next, Emit, vars

(* When runRecord has returned, every consumer can end: none is left in a   *)
(* Read or a send that nothing will answer, and those that have ended left  *)
(* their channel closed.                                                    *)
THEOREM ConsumersCanStop == Spec => []NoConsumerStuck
<1>1. Init => ChannelInv /\ StopInv /\ LeakInv
  <2>1. Init => ChannelInv
    BY StreamNames, SMT DEF Init, ChannelInv
  <2>2. Init => StopInv
    BY StreamNames DEF Init, StopInv
  <2>3. Init => LeakInv
    BY DEF Init, LeakInv, NothingLeaked
  <2> QED BY <2>1, <2>2, <2>3
<1>2. TypeOK /\ ChannelInv /\ StopInv /\ LeakInv => NoConsumerStuck
  <2> SUFFICES ASSUME TypeOK, ChannelInv, StopInv, LeakInv, mgr = "ok", main = "done", NEW s \in Streams
               PROVE  /\ pc[s] = "read" => reader[s] = "closed"
                      /\ pc[s] = "send" => ctxDone
                      /\ starter = "done" /\ Made[s] /\ pc[s] \in {"off", "exited"} => closes[s] = 1
    BY DEF NoConsumerStuck
  <2>1. pc[s] = "read" => Made[s]
    BY StreamNames DEF ChannelInv, StopInv, Made
  <2>2. reader[s] \in {"nil", "open", "closed"} /\ reader[s] # "open"
    BY DEF TypeOK, LeakInv, NothingLeaked
  <2>3. starter = "done" /\ Made[s] /\ pc[s] \in {"off", "exited"} => closes[s] = 1
    <3>1. CASE s = "syscall"
      BY <3>1 DEF StopInv
    <3>2. CASE s = "lifecycle"
      BY <3>2, StreamNames DEF StopInv, Made
    <3> QED BY <3>1, <3>2, StreamNames
  <2> QED BY <2>1, <2>2, <2>3 DEF StopInv
<1> QED BY <1>1, <1>2, TypeCorrect, ChannelStep, LeakStep, StopStep, PTL DEF Spec

-----------------------------------------------------------------------------
(* The BTF cache, for any number of processes and loads.                    *)

(* A count that moves by one at most stays an integer.                      *)
LEMMA IntStep ==
  ASSUME NEW t \in Int, NEW u, u = t \/ u = t + 1 \/ u = t - 1
  PROVE  u \in Int
<1>1. t + 1 \in Int /\ t - 1 \in Int
  BY SMT
<1> QED BY <1>1

(* A count of events stays a natural.                                       *)
LEMMA NatStep ==
  ASSUME NEW t \in Nat, NEW b
  PROVE  t + (IF b THEN 1 ELSE 0) \in Nat
  BY SMT

(* Every step of the loader keeps the types of its variables.               *)
LEMMA BtTypeStep == BtTypeOK /\ [BtNext]_btVars => BtTypeOK'
<1> SUFFICES ASSUME BtTypeOK, [BtNext]_btVars PROVE BtTypeOK'
  OBVIOUS
<1> DEFINE PCs == {"idle", "request", "fetch", "extract", "copy", "parse"}
<1> USE DEF BtTypeOK, Results, BtReturn, BtGo, btHistory
<1>1. ASSUME NEW h \in Hosts, BtBoot(h) PROVE BtTypeOK'
  BY <1>1 DEF BtBoot
<1>2. ASSUME NEW p \in BtProcs, LoadSpec(p) PROVE BtTypeOK'
  BY <1>2 DEF LoadSpec, Lookup, Parse
<1>3. ASSUME NEW p \in BtProcs, Request(p) PROVE BtTypeOK'
  <2>1. /\ btPc' \in [BtProcs -> PCs] /\ btResult' \in [BtProcs -> Results]
        /\ btCache' \in {"absent", "part", "whole"}
    BY <1>3 DEF Request
  <2>2. \/ btTempFiles' = btTempFiles \/ btTempFiles' = btTempFiles + 1
        \/ btTempFiles' = btTempFiles - 1
    BY <1>3 DEF Request
  <2>3. btKilled' = btKilled
    BY <1>3 DEF Request
  <2>4. btTempFiles' \in Int
    BY <2>2, IntStep
  <2>5. btKilled' \in Nat
    BY <2>3
  <2> QED BY <2>1, <2>4, <2>5
<1>4. ASSUME NEW p \in BtProcs, Fetch(p) PROVE BtTypeOK'
  <2>1. /\ btPc' \in [BtProcs -> PCs] /\ btResult' \in [BtProcs -> Results]
        /\ btCache' \in {"absent", "part", "whole"}
    BY <1>4 DEF Fetch
  <2>2. \/ btTempFiles' = btTempFiles \/ btTempFiles' = btTempFiles + 1
        \/ btTempFiles' = btTempFiles - 1
    BY <1>4 DEF Fetch, DeferredRemove
  <2>3. btKilled' = btKilled
    BY <1>4 DEF Fetch, DeferredRemove
  <2>4. btTempFiles' \in Int
    BY <2>2, IntStep
  <2>5. btKilled' \in Nat
    BY <2>3
  <2> QED BY <2>1, <2>4, <2>5
<1>5. ASSUME NEW p \in BtProcs, Extract(p) PROVE BtTypeOK'
  <2>1. /\ btPc' \in [BtProcs -> PCs] /\ btResult' \in [BtProcs -> Results]
        /\ btCache' \in {"absent", "part", "whole"}
    BY <1>5 DEF Extract
  <2>2. \/ btTempFiles' = btTempFiles \/ btTempFiles' = btTempFiles + 1
        \/ btTempFiles' = btTempFiles - 1
    BY <1>5 DEF Extract, DeferredRemove
  <2>3. btKilled' = btKilled
    BY <1>5 DEF Extract, DeferredRemove
  <2>4. btTempFiles' \in Int
    BY <2>2, IntStep
  <2>5. btKilled' \in Nat
    BY <2>3
  <2> QED BY <2>1, <2>4, <2>5
<1>6. ASSUME NEW p \in BtProcs, CopyFromTar(p) PROVE BtTypeOK'
  <2>1. /\ btPc' \in [BtProcs -> PCs] /\ btResult' \in [BtProcs -> Results]
        /\ btCache' \in {"absent", "part", "whole"}
    BY <1>6 DEF CopyFromTar, Copied
  <2>2. \/ btTempFiles' = btTempFiles \/ btTempFiles' = btTempFiles + 1
        \/ btTempFiles' = btTempFiles - 1
    BY <1>6 DEF CopyFromTar, DeferredRemove
  <2>3. btKilled' = btKilled
    BY <1>6 DEF CopyFromTar, DeferredRemove
  <2>4. btTempFiles' \in Int
    BY <2>2, IntStep
  <2>5. btKilled' \in Nat
    BY <2>3
  <2> QED BY <2>1, <2>4, <2>5
<1>7. ASSUME NEW p \in BtProcs, LoadCached(p) PROVE BtTypeOK'
  <2>1. /\ btPc' \in [BtProcs -> PCs] /\ btResult' \in [BtProcs -> Results]
        /\ btCache' \in {"absent", "part", "whole"}
    BY <1>7 DEF LoadCached, Parse
  <2>2. \/ btTempFiles' = btTempFiles \/ btTempFiles' = btTempFiles + 1
        \/ btTempFiles' = btTempFiles - 1
    BY <1>7 DEF LoadCached
  <2>3. btKilled' = btKilled
    BY <1>7 DEF LoadCached
  <2>4. btTempFiles' \in Int
    BY <2>2, IntStep
  <2>5. btKilled' \in Nat
    BY <2>3
  <2> QED BY <2>1, <2>4, <2>5
<1>8. ASSUME NEW p \in BtProcs, Kill(p) PROVE BtTypeOK'
  <2>1. /\ btPc' \in [BtProcs -> PCs] /\ btResult' \in [BtProcs -> Results]
        /\ btCache' \in {"absent", "part", "whole"}
    BY <1>8 DEF Kill
  <2>2. \/ btTempFiles' = btTempFiles \/ btTempFiles' = btTempFiles + 1
        \/ btTempFiles' = btTempFiles - 1
    BY <1>8 DEF Kill
  <2>3. btKilled' = btKilled + (IF HasTemp(p) THEN 1 ELSE 0)
    BY <1>8 DEF Kill
  <2>4. btTempFiles' \in Int
    BY <2>2, IntStep
  <2>5. btKilled' \in Nat
    BY <2>3, NatStep
  <2> QED BY <2>1, <2>4, <2>5
<1>9. CASE UNCHANGED btVars
  BY <1>9 DEF btVars
<1> QED BY <1>1, <1>2, <1>3, <1>4, <1>5, <1>6, <1>7, <1>8, <1>9 DEF BtNext

(* As long as loads do not overlap, LoneLoader survives every step.         *)
LEMMA LoneStep == BtTypeOK /\ LoneLoader /\ [BtNext]_btVars => LoneLoader'
<1> SUFFICES ASSUME BtTypeOK, LoneLoader, [BtNext]_btVars PROVE LoneLoader'
  OBVIOUS
<1> USE DEF BtTypeOK, LoneLoader, BtReturn, BtGo, btHistory
<1>1. ASSUME NEW h \in Hosts, BtBoot(h) PROVE LoneLoader'
  BY <1>1 DEF BtBoot
<1>2. ASSUME NEW p \in BtProcs, LoadSpec(p) PROVE LoneLoader'
  <2> SUFFICES ASSUME ~btOverlap' PROVE LoneLoader'
    OBVIOUS
  <2>1. ~btOverlap /\ \A q \in BtProcs : btPc[q] = "idle"
    BY <1>2 DEF LoadSpec
  <2>2. btCache' = btCache /\ btOwner' = btOwner
    BY <1>2 DEF LoadSpec
  <2>3. \/ btPc' = [btPc EXCEPT ![p] = "idle"]
        \/ btPc' = [btPc EXCEPT ![p] = "request"] /\ btCache = "absent"
    BY <1>2 DEF LoadSpec, Lookup, Parse
  <2> QED BY <2>1, <2>2, <2>3, SMT
<1>3. ASSUME NEW p \in BtProcs, Request(p) PROVE LoneLoader'
  <2>1. /\ btPc[p] = "request" /\ btOverlap' = btOverlap
        /\ btCache' = btCache /\ btOwner' = btOwner
    BY <1>3 DEF Request
  <2>2. \/ btPc' = [btPc EXCEPT ![p] = "idle"]
        \/ btPc' = [btPc EXCEPT ![p] = "fetch"]
    BY <1>3 DEF Request
  <2>3. ~btOverlap =>
          btCache = "absent" /\ \A q \in BtProcs \ {p} : btPc[q] = "idle"
    BY <2>1
  <2> QED BY <2>1, <2>2, <2>3, SMT
<1>4. ASSUME NEW p \in BtProcs, Fetch(p) PROVE LoneLoader'
  <2>1. /\ btPc[p] = "fetch" /\ btOverlap' = btOverlap
        /\ btCache' = btCache /\ btOwner' = btOwner
    BY <1>4 DEF Fetch
  <2>2. \/ btPc' = [btPc EXCEPT ![p] = "idle"]
        \/ btPc' = [btPc EXCEPT ![p] = "extract"]
    BY <1>4 DEF Fetch
  <2>3. ~btOverlap =>
          btCache = "absent" /\ \A q \in BtProcs \ {p} : btPc[q] = "idle"
    BY <2>1
  <2> QED BY <2>1, <2>2, <2>3, SMT
<1>5. ASSUME NEW p \in BtProcs, Extract(p) PROVE LoneLoader'
  <2>1. btPc[p] = "extract" /\ btOverlap' = btOverlap
    BY <1>5 DEF Extract
  <2>2. \/ /\ btPc' = [btPc EXCEPT ![p] = "idle"]
           /\ btCache' = btCache /\ btOwner' = btOwner
        \/ btPc' = [btPc EXCEPT ![p] = "copy"] /\ btOwner' = p
    BY <1>5 DEF Extract
  <2>3. ~btOverlap => \A q \in BtProcs \ {p} : btPc[q] = "idle"
    BY <2>1
  <2> QED BY <2>1, <2>2, <2>3, SMT
<1>6. ASSUME NEW p \in BtProcs, CopyFromTar(p) PROVE LoneLoader'
  <2>1. btPc[p] = "copy" /\ btOverlap' = btOverlap /\ btOwner' = btOwner
    BY <1>6 DEF CopyFromTar
  <2>2. \/ btPc' = [btPc EXCEPT ![p] = "idle"]
        \/ btPc' = [btPc EXCEPT ![p] = "parse"] /\ btCache' = Copied(p)
    BY <1>6 DEF CopyFromTar
  <2>3. ~btOverlap => Copied(p) = "whole" /\ \A q \in BtProcs \ {p} : btPc[q] = "idle"
    BY <2>1 DEF Copied
  <2> QED BY <2>1, <2>2, <2>3, SMT
<1>7. ASSUME NEW p \in BtProcs, LoadCached(p) PROVE LoneLoader'
  BY <1>7 DEF LoadCached, Parse
<1>8. ASSUME NEW p \in BtProcs, Kill(p) PROVE LoneLoader'
  BY <1>8 DEF Kill
<1>9. CASE UNCHANGED btVars
  BY <1>9 DEF btVars
<1> QED BY <1>1, <1>2, <1>3, <1>4, <1>5, <1>6, <1>7, <1>8, <1>9 DEF BtNext

(* Only a failed or killed extraction leaves a partial file.                *)
LEMMA PartStep ==
  BtTypeOK /\ LoneLoader /\ PartIsBroken /\ [BtNext]_btVars => PartIsBroken'
<1> SUFFICES ASSUME BtTypeOK, LoneLoader, PartIsBroken, [BtNext]_btVars
             PROVE  PartIsBroken'
  OBVIOUS
<1> USE DEF BtTypeOK, PartIsBroken, BtReturn, BtGo, btHistory
<1>1. ASSUME NEW h \in Hosts, BtBoot(h) PROVE PartIsBroken'
  BY <1>1 DEF BtBoot
<1>2. ASSUME NEW p \in BtProcs, LoadSpec(p) PROVE PartIsBroken'
  BY <1>2 DEF LoadSpec
<1>3. ASSUME NEW p \in BtProcs, Request(p) PROVE PartIsBroken'
  BY <1>3 DEF Request
<1>4. ASSUME NEW p \in BtProcs, Fetch(p) PROVE PartIsBroken'
  BY <1>4 DEF Fetch
<1>5. ASSUME NEW p \in BtProcs, Extract(p) PROVE PartIsBroken'
  BY <1>5 DEF Extract
<1>6. ASSUME NEW p \in BtProcs, CopyFromTar(p) PROVE PartIsBroken'
  BY <1>6 DEF CopyFromTar, Copied, LoneLoader
<1>7. ASSUME NEW p \in BtProcs, LoadCached(p) PROVE PartIsBroken'
  BY <1>7 DEF LoadCached, Parse
<1>8. ASSUME NEW p \in BtProcs, Kill(p) PROVE PartIsBroken'
  BY <1>8 DEF Kill
<1>9. CASE UNCHANGED btVars
  BY <1>9 DEF btVars
<1> QED BY <1>1, <1>2, <1>3, <1>4, <1>5, <1>6, <1>7, <1>8, <1>9 DEF BtNext

(* A lone process is told of a damaged file only after a broken extraction. *)
LEMMA DamagedStep ==
  /\ BtTypeOK /\ LoneLoader /\ PartIsBroken /\ DamagedOnlyIfBroken
  /\ [BtNext]_btVars
  => DamagedOnlyIfBroken'
<1> SUFFICES ASSUME BtTypeOK, LoneLoader, PartIsBroken, DamagedOnlyIfBroken,
                    [BtNext]_btVars
             PROVE  DamagedOnlyIfBroken'
  OBVIOUS
<1> USE DEF BtTypeOK, DamagedOnlyIfBroken, BtReturn, BtGo, btHistory
<1>1. ASSUME NEW h \in Hosts, BtBoot(h) PROVE DamagedOnlyIfBroken'
  BY <1>1 DEF BtBoot
<1>2. ASSUME NEW p \in BtProcs, LoadSpec(p) PROVE DamagedOnlyIfBroken'
  <2>1. btBroken' = btBroken /\ (btOverlap => btOverlap')
    BY <1>2 DEF LoadSpec
  <2>2. CASE UNCHANGED btResult
    BY <2>1, <2>2
  <2>3. ASSUME NEW r, btResult' = [btResult EXCEPT ![p] = r], r # "damaged"
        PROVE  DamagedOnlyIfBroken'
    BY <2>1, <2>3
  <2>4. CASE btCache # "absent" /\ Parse(p)
    <3>1. CASE btCache = "whole"
      BY <2>3, <2>4, <3>1 DEF Parse
    <3>2. CASE btCache = "part"
      <4>1. btOverlap' \/ (~btOverlap /\ \A q \in BtProcs : btPc[q] = "idle")
        BY <1>2 DEF LoadSpec
      <4>2. btOverlap' \/ btBroken'
        BY <2>1, <3>2, <4>1 DEF PartIsBroken
      <4> QED BY <4>2
    <3>3. btCache \in {"absent", "part", "whole"}
      BY DEF BtTypeOK
    <3> QED BY <2>4, <3>1, <3>2, <3>3
  <2> QED BY <1>2, <2>2, <2>3, <2>4 DEF LoadSpec, Lookup
<1>3. ASSUME NEW p \in BtProcs, Request(p) PROVE DamagedOnlyIfBroken'
  BY <1>3 DEF Request
<1>4. ASSUME NEW p \in BtProcs, Fetch(p) PROVE DamagedOnlyIfBroken'
  BY <1>4 DEF Fetch
<1>5. ASSUME NEW p \in BtProcs, Extract(p) PROVE DamagedOnlyIfBroken'
  BY <1>5 DEF Extract
<1>6. ASSUME NEW p \in BtProcs, CopyFromTar(p) PROVE DamagedOnlyIfBroken'
  <2>1. btOverlap' = btOverlap /\ (btBroken' = TRUE \/ btBroken' = btBroken)
    BY <1>6 DEF CopyFromTar
  <2>2. btResult' = btResult \/ btResult' = [btResult EXCEPT ![p] = "I/O error"]
    BY <1>6 DEF CopyFromTar
  <2>3. \A q \in BtProcs : btResult'[q] = "damaged" => btResult[q] = "damaged"
    BY <2>2
  <2>4. btBroken => btBroken'
    BY <2>1
  <2> QED BY <2>1, <2>3, <2>4
<1>7. ASSUME NEW p \in BtProcs, LoadCached(p) PROVE DamagedOnlyIfBroken'
  BY <1>7 DEF LoadCached, Parse, LoneLoader
<1>8. ASSUME NEW p \in BtProcs, Kill(p) PROVE DamagedOnlyIfBroken'
  BY <1>8 DEF Kill
<1>9. CASE UNCHANGED btVars
  BY <1>9 DEF btVars
<1> QED BY <1>1, <1>2, <1>3, <1>4, <1>5, <1>6, <1>7, <1>8, <1>9 DEF BtNext

(* Nothing but an extraction that overlaps another load truncates a whole   *)
(* file.                                                                    *)
LEMMA WholeStep ==
  BtTypeOK /\ LoneLoader /\ [BtNext]_btVars
  => [btCache = "whole" /\ btCache' # "whole" => btOverlap]_btVars
<1> SUFFICES ASSUME LoneLoader, BtNext, btCache = "whole", btCache' # "whole"
             PROVE  btOverlap
  OBVIOUS
<1>1. PICK p \in BtProcs : Extract(p) \/ CopyFromTar(p)
  BY DEF BtNext, BtBoot, LoadSpec, Request, Fetch, LoadCached, Kill
<1>2. CASE Extract(p)
  BY <1>2 DEF Extract, LoneLoader
<1>3. CASE CopyFromTar(p)
  BY <1>3 DEF CopyFromTar, Copied
<1> QED BY <1>1, <1>2, <1>3

BtInv == BtTypeOK /\ LoneLoader /\ PartIsBroken /\ DamagedOnlyIfBroken

(* Initially nobody is loading and the cache is empty.                      *)
LEMMA BtInitially == BtInit => BtInv
  BY SMT DEF BtInit, BtInv, BtTypeOK, Results, LoneLoader, PartIsBroken, DamagedOnlyIfBroken

(* BtInv is inductive.                                                      *)
LEMMA BtInductive == BtInv /\ [BtNext]_btVars => BtInv'
  BY BtTypeStep, LoneStep, PartStep, DamagedStep DEF BtInv

(* LoadSpec of a process that has the cache to itself reports a damaged     *)
(* file only if writeFileFromTar failed or was killed before.               *)
THEOREM DamageHasACause == BtSpec => []DamagedOnlyIfBroken
<1>1. BtInv => DamagedOnlyIfBroken
  BY DEF BtInv
<1> QED BY <1>1, BtInitially, BtInductive, PTL DEF BtSpec

(* No load truncates a whole cached file unless two loads overlapped.       *)
THEOREM WholeFileKept == BtSpec => WholeStaysWhole
<1>1. BtInv /\ [BtNext]_btVars
      => [btCache = "whole" /\ btCache' # "whole" => btOverlap]_btVars
  BY WholeStep DEF BtInv
<1> QED BY <1>1, BtInitially, BtInductive, PTL DEF BtSpec, WholeStaysWhole

-----------------------------------------------------------------------------
(* Temporary files.                                                         *)

Holders == {p \in BtProcs : HasTemp(p)}

(* The number of holders after one process has moved.                       *)
LEMMA HoldersMove ==
  ASSUME BtTypeOK, NEW p \in BtProcs, NEW at, btPc' = [btPc EXCEPT ![p] = at]
  PROVE  LET holds == at \in {"fetch", "extract", "copy"}
         IN  /\ Cardinality(Holders) \in Nat
             /\ HasTemp(p) /\ holds => Cardinality(Holders') = Cardinality(Holders)
             /\ ~HasTemp(p) /\ ~holds => Cardinality(Holders') = Cardinality(Holders)
             /\ ~HasTemp(p) /\ holds => Cardinality(Holders') = Cardinality(Holders) + 1
             /\ HasTemp(p) /\ ~holds => Cardinality(Holders') = Cardinality(Holders) - 1
<1> DEFINE holds == at \in {"fetch", "extract", "copy"}
<1>1. IsFiniteSet(Holders)
  BY BtConstants, FS_Subset DEF Holders
<1>2. holds => Holders' = Holders \cup {p}
  BY DEF Holders, HasTemp, BtTypeOK
<1>3. ~holds => Holders' = Holders \ {p}
  BY DEF Holders, HasTemp, BtTypeOK
<1>4. HasTemp(p) <=> p \in Holders
  BY DEF Holders
<1>5. Cardinality(Holders) \in Nat
  BY <1>1, FS_CardinalityType
<1>6. p \in Holders => Holders \cup {p} = Holders
  OBVIOUS
<1>7. p \notin Holders => Holders \ {p} = Holders
  OBVIOUS
<1>8. p \notin Holders => Cardinality(Holders \cup {p}) = Cardinality(Holders) + 1
  BY <1>1, FS_AddElement
<1>9. p \in Holders => Cardinality(Holders \ {p}) = Cardinality(Holders) - 1
  BY <1>1, FS_RemoveElement
<1> HIDE DEF holds
<1> QED BY <1>2, <1>3, <1>4, <1>5, <1>6, <1>7, <1>8, <1>9 DEF holds

(* Every temporary file is removed by the process that made it, unless that *)
(* process is killed.                                                       *)
LEMMA TempStep ==
  BtTypeOK /\ TempFilesRemoved /\ [BtNext]_btVars => TempFilesRemoved'
<1> SUFFICES ASSUME BtTypeOK, TempFilesRemoved, [BtNext]_btVars PROVE TempFilesRemoved'
  OBVIOUS
<1> DEFINE n == Cardinality(Holders)
<1>0. btTempFiles = btKilled + n /\ btKilled \in Nat /\ btTempFiles \in Int
  BY DEF TempFilesRemoved, Holders, BtTypeOK
<1>i. ASSUME btTempFiles' = btKilled' + n' PROVE TempFilesRemoved'
  BY <1>i DEF TempFilesRemoved, Holders
<1>s. ASSUME btPc' = btPc, btTempFiles' = btTempFiles, btKilled' = btKilled
      PROVE  TempFilesRemoved'
  BY <1>s DEF TempFilesRemoved, HasTemp
<1>m. ASSUME NEW p \in BtProcs, btPc' = [btPc EXCEPT ![p] = "idle"]
      PROVE  n \in Nat /\ (HasTemp(p) => n' = n - 1) /\ (~HasTemp(p) => n' = n)
  <2>1. "idle" \notin {"fetch", "extract", "copy"}
    OBVIOUS
  <2> QED BY <1>m, <2>1, HoldersMove
<1>1. ASSUME NEW h \in Hosts, BtBoot(h) PROVE TempFilesRemoved'
  BY <1>1, <1>s DEF BtBoot, btHistory
<1>2. ASSUME NEW p \in BtProcs, LoadSpec(p) PROVE TempFilesRemoved'
  <2>1. /\ ~HasTemp(p) /\ btTempFiles' = btTempFiles /\ btKilled' = btKilled
        /\ btPc' = [btPc EXCEPT ![p] = "idle"] \/ btPc' = [btPc EXCEPT ![p] = "request"]
    BY <1>2 DEF LoadSpec, Lookup, Parse, BtReturn, BtGo, HasTemp
  <2>2. n' = n
    BY <2>1, HoldersMove
  <2> QED BY <1>0, <1>i, <2>1, <2>2
<1>3. ASSUME NEW p \in BtProcs, Request(p) PROVE TempFilesRemoved'
  <2>1. ~HasTemp(p) /\ btKilled' = btKilled
    BY <1>3 DEF Request, HasTemp, btHistory
  <2>2. CASE btPc' = [btPc EXCEPT ![p] = "idle"] /\ btTempFiles' = btTempFiles
    <3>1. n' = n
      BY <1>m, <2>1, <2>2
    <3> QED BY <1>0, <1>i, <2>1, <2>2, <3>1
  <2>3. CASE btPc' = [btPc EXCEPT ![p] = "fetch"] /\ btTempFiles' = btTempFiles + 1
    <3>1. n' = n + 1 /\ n \in Nat
      BY <2>1, <2>3, HoldersMove
    <3> HIDE DEF n
    <3> QED BY <1>0, <1>i, <2>1, <2>3, <3>1, SMT
  <2> QED BY <1>3, <2>2, <2>3 DEF Request, BtReturn, BtGo
<1>4. ASSUME NEW p \in BtProcs, HasTemp(p), btKilled' = btKilled,
             \/ /\ btPc' = [btPc EXCEPT ![p] = "idle"] \/ btPc' = [btPc EXCEPT ![p] = "parse"]
                /\ btTempFiles' = btTempFiles - 1
             \/ /\ btPc' = [btPc EXCEPT ![p] = "extract"] \/ btPc' = [btPc EXCEPT ![p] = "copy"]
                /\ btTempFiles' = btTempFiles
      PROVE  TempFilesRemoved'
  <2>1. n \in Nat /\ (\/ n' = n - 1 /\ btTempFiles' = btTempFiles - 1
                      \/ n' = n /\ btTempFiles' = btTempFiles)
    BY <1>4, HoldersMove
  <2> HIDE DEF n
  <2>2. btTempFiles' = btKilled' + n'
    BY <1>0, <1>4, <2>1, SMT
  <2> QED BY <1>i, <2>2
<1>5. ASSUME NEW p \in BtProcs, Fetch(p) PROVE TempFilesRemoved'
  <2>1. HasTemp(p) /\ btKilled' = btKilled
    BY <1>5 DEF Fetch, HasTemp, btHistory
  <2> QED BY <1>4, <1>5, <2>1 DEF Fetch, BtReturn, BtGo, DeferredRemove
<1>6. ASSUME NEW p \in BtProcs, Extract(p) PROVE TempFilesRemoved'
  <2>1. HasTemp(p) /\ btKilled' = btKilled
    BY <1>6 DEF Extract, HasTemp, btHistory
  <2> QED BY <1>4, <1>6, <2>1 DEF Extract, BtReturn, BtGo, DeferredRemove
<1>7. ASSUME NEW p \in BtProcs, CopyFromTar(p) PROVE TempFilesRemoved'
  <2>1. HasTemp(p) /\ btKilled' = btKilled
    BY <1>7 DEF CopyFromTar, HasTemp
  <2> QED BY <1>4, <1>7, <2>1 DEF CopyFromTar, BtReturn, BtGo, DeferredRemove
<1>8. ASSUME NEW p \in BtProcs, LoadCached(p) PROVE TempFilesRemoved'
  <2>1. /\ ~HasTemp(p) /\ btTempFiles' = btTempFiles /\ btKilled' = btKilled
        /\ btPc' = [btPc EXCEPT ![p] = "idle"]
    BY <1>8 DEF LoadCached, Parse, BtReturn, BtGo, HasTemp, btHistory
  <2>2. n' = n
    BY <1>m, <2>1
  <2> QED BY <1>0, <1>i, <2>1, <2>2
<1>9. ASSUME NEW p \in BtProcs, Kill(p) PROVE TempFilesRemoved'
  <2>1. /\ btTempFiles' = btTempFiles /\ btKilled' = btKilled + (IF HasTemp(p) THEN 1 ELSE 0)
        /\ btPc' = [btPc EXCEPT ![p] = "idle"]
    BY <1>9 DEF Kill, BtReturn, BtGo
  <2>2. n \in Nat /\ (HasTemp(p) => n' = n - 1) /\ (~HasTemp(p) => n' = n)
    BY <1>m, <2>1
  <2> HIDE DEF n
  <2>3. btTempFiles' = btKilled' + n'
    BY <1>0, <2>1, <2>2, SMT
  <2> QED BY <1>i, <2>3
<1>10. CASE UNCHANGED btVars
  BY <1>10, <1>s DEF btVars
<1> QED BY <1>1, <1>2, <1>3, <1>5, <1>6, <1>7, <1>8, <1>9, <1>10 DEF BtNext

(* However a download ends, its temporary file is gone, except after a kill.*)
THEOREM NoTempFileLeaks == BtSpec => []TempFilesRemoved
<1>1. BtInit => BtTypeOK /\ TempFilesRemoved
  <2>1. ASSUME BtInit PROVE {p \in BtProcs : HasTemp(p)} = {}
    BY <2>1 DEF BtInit, HasTemp
  <2>2. Cardinality({}) = 0
    BY FS_EmptySet
  <2>3. BtInit => btTempFiles = 0 /\ btKilled = 0
    BY DEF BtInit
  <2>4. BtInit => TempFilesRemoved
    BY <2>1, <2>2, <2>3, SMT DEF TempFilesRemoved
  <2> QED BY <2>4, BtInitially DEF BtInv
<1>2. BtTypeOK /\ TempFilesRemoved /\ [BtNext]_btVars => (BtTypeOK /\ TempFilesRemoved)'
  BY BtTypeStep, TempStep
<1> QED BY <1>1, <1>2, PTL DEF BtSpec

-----------------------------------------------------------------------------
(* The profiler, for all paths, thresholds and rates.                       *)

(* The moving average of two naturals that the rate weighs is a natural.    *)
LEMMA FoldNat ==
  ASSUME PrTypeOK, NEW p \in PrPaths
  PROVE  Prev(p) \in Nat /\ Fold(p) \in Nat
<1>1. Prev(p) \in Nat
  BY DEF Prev, PrTypeOK
<1>2. prSamples[p] \in Nat
  BY DEF PrTypeOK
<1> DEFINE s == AlphaNum * prSamples[p] * PrScale
           r == (AlphaDen - AlphaNum) * Prev(p)
<1>3. s \in Nat /\ r \in Nat
  BY <1>1, <1>2, PrConstants, SMT
<1>4. AlphaDen \in Nat \ {0}
  BY PrConstants, SMT
<1>5. Fold(p) = (s + r) \div AlphaDen
  BY DEF Fold
<1> HIDE DEF s, r
<1>6. (s + r) \div AlphaDen \in Nat
  BY <1>3, <1>4, SMT
<1> QED BY <1>1, <1>5, <1>6

(* A weighted mean is at most the larger of what it is the mean of.         *)
LEMMA MeanBounded ==
  ASSUME NEW a \in Nat, NEW d \in Nat, a < d, NEW u \in Nat, NEW v \in Nat,
         NEW m \in Nat, u <= m, v <= m
  PROVE  (a * u + (d - a) * v) \div d <= m
<1>1. a * u <= a * m
  BY SMT
<1>2. (d - a) * v <= (d - a) * m
  BY SMT
<1>3. a * m + (d - a) * m = d * m
  BY SMT
<1> DEFINE n == a * u + (d - a) * v
<1>4. n \in Nat /\ n <= d * m
  BY <1>1, <1>2, <1>3, SMT
<1> HIDE DEF n
<1>5. d \in Nat \ {0}
  BY SMT
<1>6. d * (n \div d) <= n
  BY <1>4, <1>5, SMT
<1>7. n \div d \in Nat
  BY <1>4, <1>5, SMT
<1>8. d * (n \div d) <= d * m
  BY <1>4, <1>6, <1>7, SMT
<1> DEFINE q == n \div d
<1>9. q \in Nat /\ d * q <= d * m
  BY <1>7, <1>8
<1> HIDE DEF q
<1>10. q <= m
  BY <1>5, <1>9, SMT
<1> QED BY <1>10 DEF n, q

(* Flush and Record keep the types of the profiler's maps.                  *)
LEMMA PrTypeStep == PrTypeOK /\ [PrNext]_prVars => PrTypeOK'
<1> SUFFICES ASSUME PrTypeOK, [PrNext]_prVars PROVE PrTypeOK'
  OBVIOUS
<1>1. CASE Flush
  <2>1. \A p \in PrPaths : Fold(p) \in Nat
    BY FoldNat
  <2>2. prEstimates' \in [PrPaths -> Nat \cup {PrNil}]
    BY <1>1, <2>1 DEF Flush, PrTypeOK
  <2>3. prHot' \in [PrPaths -> Nat \cup {PrNil}]
    BY <1>1, <2>1 DEF Flush, ApplyHotPathHints, PrTypeOK
  <2>4. prPeak' \in [PrPaths -> Nat] /\ prSamples' \in [PrPaths -> Nat] /\ prFlushes' \in Nat
    BY <1>1, SMT DEF Flush, PrTypeOK
  <2> QED BY <2>2, <2>3, <2>4 DEF PrTypeOK
<1>2. CASE \E p \in PrPaths : Record(p)
  BY <1>2, SMT DEF Record, PrTypeOK
<1>3. CASE UNCHANGED prVars
  BY <1>3 DEF prVars, PrTypeOK
<1> QED BY <1>1, <1>2, <1>3 DEF PrNext

(* A flush hands the manager what it makes of every sampled path's average, *)
(* and leaves the other paths alone.                                        *)
LEMMA FlushEffect ==
  ASSUME PrTypeOK, Flush, NEW p \in PrPaths
  PROVE  /\ prSamples[p] > 0 => prEstimates'[p] = Fold(p)
         /\ prSamples[p] > 0 /\ IsHot(Fold(p)) => prHot'[p] = Fold(p)
         /\ prSamples[p] > 0 /\ ~IsHot(Fold(p)) => prHot'[p] = prHot[p]
         /\ ~(prSamples[p] > 0) => prEstimates'[p] = prEstimates[p] /\ prHot'[p] = prHot[p]
         /\ prPeak'[p] >= prPeak[p] /\ prPeak'[p] >= prSamples[p]
<1>1. Fold(p) \in Nat
  BY FoldNat
<1>2. Fold(p) # PrNil
  BY <1>1, PrConstants
<1>3. prPeak'[p] >= prPeak[p] /\ prPeak'[p] >= prSamples[p]
  BY SMT DEF Flush, PrTypeOK
<1>4. prEstimates'[p] = IF prSamples[p] > 0 THEN Fold(p) ELSE prEstimates[p]
  BY DEF Flush
<1>5. prHot'[p] = IF prSamples[p] > 0 /\ IsHot(Fold(p)) THEN Fold(p) ELSE prHot[p]
  BY <1>2 DEF Flush, ApplyHotPathHints
<1> QED BY <1>3, <1>4, <1>5

(* The manager's scores follow the estimates (HintsFollowEstimates) in      *)
(* every step.                                                              *)
LEMMA HintsStep ==
  PrTypeOK /\ HintsFollowEstimates /\ [PrNext]_prVars => HintsFollowEstimates'
<1> SUFFICES ASSUME PrTypeOK, HintsFollowEstimates, [PrNext]_prVars
             PROVE  HintsFollowEstimates'
  OBVIOUS
<1>1. CASE Flush
  <2> SUFFICES ASSUME NEW p \in PrPaths
               PROVE  /\ prEstimates'[p] # PrNil /\ IsHot(prEstimates'[p])
                           => prHot'[p] = prEstimates'[p]
                      /\ prHot'[p] # PrNil => IsHot(prHot'[p]) /\ prEstimates'[p] # PrNil
    BY DEF HintsFollowEstimates, IsHot
  <2>1. Fold(p) # PrNil
    BY FoldNat, PrConstants
  <2>2. /\ prEstimates[p] # PrNil /\ IsHot(prEstimates[p]) => prHot[p] = prEstimates[p]
        /\ prHot[p] # PrNil => IsHot(prHot[p]) /\ prEstimates[p] # PrNil
    BY DEF HintsFollowEstimates
  <2>3. /\ prSamples[p] > 0 => prEstimates'[p] = Fold(p)
        /\ prSamples[p] > 0 /\ IsHot(Fold(p)) => prHot'[p] = Fold(p)
        /\ prSamples[p] > 0 /\ ~IsHot(Fold(p)) => prHot'[p] = prHot[p]
        /\ ~(prSamples[p] > 0) => prEstimates'[p] = prEstimates[p] /\ prHot'[p] = prHot[p]
    BY <1>1, FlushEffect
  <2> QED BY <2>1, <2>2, <2>3
<1>2. CASE \E p \in PrPaths : Record(p)
  BY <1>2 DEF Record, HintsFollowEstimates, IsHot
<1>3. CASE UNCHANGED prVars
  BY <1>3 DEF prVars, HintsFollowEstimates, IsHot
<1> QED BY <1>1, <1>2, <1>3 DEF PrNext

(* A flush keeps every estimate within its path's busiest window, and a     *)
(* score is an estimate that reached the threshold.                         *)
LEMMA BusyStep ==
  PrTypeOK /\ HotOnlyIfBusy /\ [PrNext]_prVars => HotOnlyIfBusy'
<1> SUFFICES ASSUME PrTypeOK, HotOnlyIfBusy, [PrNext]_prVars
             PROVE  HotOnlyIfBusy'
  OBVIOUS
<1>1. CASE Flush
  <2> SUFFICES ASSUME NEW p \in PrPaths
               PROVE  /\ prEstimates'[p] # PrNil => prEstimates'[p] <= prPeak'[p] * PrScale
                      /\ prHot'[p] # PrNil => prPeak'[p] >= PrThreshold
    BY DEF HotOnlyIfBusy
  <2>1. /\ prPeak'[p] \in Nat /\ prPeak[p] \in Nat /\ prSamples[p] \in Nat
        /\ prPeak'[p] >= prPeak[p] /\ prPeak'[p] >= prSamples[p]
    BY <1>1, FlushEffect, PrTypeStep DEF PrTypeOK
  <2>2. /\ prEstimates[p] # PrNil => prEstimates[p] <= prPeak[p] * PrScale
        /\ prHot[p] # PrNil => prPeak[p] >= PrThreshold
    BY DEF HotOnlyIfBusy
  <2>3. prPeak[p] * PrScale <= prPeak'[p] * PrScale
    BY <2>1, PrConstants, SMT
  <2>4. prSamples[p] * PrScale <= prPeak'[p] * PrScale
    BY <2>1, PrConstants, SMT
  <2>5. /\ Prev(p) \in Nat /\ Fold(p) \in Nat
        /\ prEstimates[p] # PrNil => prEstimates[p] \in Nat
    BY FoldNat DEF PrTypeOK
  <2>6. Prev(p) <= prPeak'[p] * PrScale
    BY <2>1, <2>2, <2>3, <2>5, PrConstants, SMT DEF Prev
  <2>7. Fold(p) <= prPeak'[p] * PrScale
    <3> DEFINE u == prSamples[p] * PrScale
               m == prPeak'[p] * PrScale
               v == Prev(p)
    <3>1. u \in Nat /\ m \in Nat /\ v \in Nat /\ u <= m /\ v <= m
      BY <2>1, <2>4, <2>5, <2>6, PrConstants, SMT
    <3>2. Fold(p) = (AlphaNum * u + (AlphaDen - AlphaNum) * v) \div AlphaDen
      BY <2>1, PrConstants, SMT DEF Fold
    <3> HIDE DEF u, m, v
    <3>3. (AlphaNum * u + (AlphaDen - AlphaNum) * v) \div AlphaDen <= m
      BY <3>1, MeanBounded, PrConstants
    <3> QED BY <3>2, <3>3 DEF m
  <2>8. IsHot(Fold(p)) => prPeak'[p] >= PrThreshold
    BY <2>1, <2>5, <2>7, PrConstants, SMT DEF IsHot
  <2>9. prEstimates'[p] = Fold(p) \/ prEstimates'[p] = prEstimates[p]
    BY <1>1, FlushEffect
  <2>10. prHot'[p] = prHot[p] \/ (IsHot(Fold(p)) /\ prHot'[p] = Fold(p))
    BY <1>1, FlushEffect
  <2>11. prEstimates'[p] # PrNil => prEstimates'[p] <= prPeak'[p] * PrScale
    BY <2>1, <2>2, <2>3, <2>5, <2>7, <2>9, PrConstants, SMT
  <2>12. prHot'[p] # PrNil => prPeak'[p] >= PrThreshold
    BY <2>1, <2>2, <2>8, <2>10, PrConstants, SMT
  <2> QED BY <2>11, <2>12
<1>2. CASE \E p \in PrPaths : Record(p)
  BY <1>2 DEF Record, HotOnlyIfBusy
<1>3. CASE UNCHANGED prVars
  BY <1>3 DEF prVars, HotOnlyIfBusy
<1> QED BY <1>1, <1>2, <1>3 DEF PrNext

(* Initially nothing is folded and nothing is hot.                          *)
LEMMA PrInitially == PrInit => PrTypeOK /\ HotOnlyIfBusy /\ HintsFollowEstimates
  BY PrConstants, SMT DEF PrInit, PrTypeOK, HotOnlyIfBusy, HintsFollowEstimates

(* Flush never lets an estimate exceed the busiest window of its path, so a *)
(* path is hot only if it was written as often as the threshold asks.       *)
THEOREM HotPathsWereBusy == PrSpec => []HotOnlyIfBusy
<1>1. PrInit => PrTypeOK /\ HotOnlyIfBusy
  BY PrInitially
<1>2. PrTypeOK /\ HotOnlyIfBusy /\ [PrNext]_prVars => (PrTypeOK /\ HotOnlyIfBusy)'
  BY PrTypeStep, BusyStep
<1> QED BY <1>1, <1>2, PTL DEF PrSpec

(* ApplyHotPathHints leaves the manager with the current estimate of every  *)
(* path at the threshold, and with no score below it.                       *)
THEOREM HintsAreCurrent == PrSpec => []HintsFollowEstimates
<1>1. PrInit => PrTypeOK /\ HintsFollowEstimates
  BY PrInitially
<1>2. PrTypeOK /\ HintsFollowEstimates /\ [PrNext]_prVars => (PrTypeOK /\ HintsFollowEstimates)'
  BY PrTypeStep, HintsStep
<1> QED BY <1>1, <1>2, PTL DEF PrSpec

-----------------------------------------------------------------------------
(* The session inside its own tree, for any number of writes.               *)

(* Every commit of the journal raises the event that the next one answers.  *)
LEMMA ScStep == ScIndInv /\ [ScNext]_scVars => ScIndInv'
<1> SUFFICES ASSUME ScIndInv, [ScNext]_scVars PROVE ScIndInv'
  OBVIOUS
<1> USE ScNilAssumption DEF ScFiles, AtRest, NeverRestsInside
<1>1. CASE ScCommandWrites
  <2>1. /\ scEvents' = scEvents \cup {"command"} /\ scWrote' = TRUE
        /\ UNCHANGED <<scInside, scHand, scJournal, scDropped>>
    BY <1>1 DEF ScCommandWrites, ScNotify, Watched, scSetting
  <2> QED
    BY <2>1 DEF ScIndInv
<1>7. CASE ScCommandEnds
  BY <1>7 DEF ScIndInv, ScCommandEnds, scSetting
<1>2. ASSUME NEW f \in scEvents, ScReceive(f) PROVE ScIndInv'
  BY <1>2 DEF ScIndInv, ScReceive, scSetting
<1>3. CASE ScDrop
  BY <1>3 DEF ScIndInv, ScDrop, scSetting
<1>4. CASE ScLogEvent
  BY <1>4, SMT DEF ScIndInv, ScLogEvent, ScNotify, Watched, scSetting
<1>5. CASE ScProcess \/ ScProcessFails
  <2>1. scJournal' \in Seq(ScFiles)
    <3>1. PICK i \in DOMAIN scJournal : scJournal' \in {scJournal, RemoveAt(scJournal, i)}
      BY <1>5 DEF ScProcess, ScProcessFails
    <3>2. scJournal \in Seq(ScFiles) /\ i \in 1..Len(scJournal)
      BY SMT DEF ScIndInv
    <3> HIDE DEF ScFiles
    <3>3. /\ SubSeq(scJournal, 1, i - 1) \in Seq(ScFiles)
          /\ SubSeq(scJournal, i + 1, Len(scJournal)) \in Seq(ScFiles)
      BY <3>2, SMT
    <3>4. RemoveAt(scJournal, i) \in Seq(ScFiles)
      BY <3>3, SMT DEF RemoveAt
    <3> QED
      BY <3>1, <3>2, <3>4
  <2>2. scJournal # <<>>
    BY <1>5, SMT DEF ScProcess, ScProcessFails, ScIndInv
  <2>3. /\ scEvents' = IF Watched("database") THEN scEvents \cup {"database"} ELSE scEvents
        /\ UNCHANGED <<scInside, scWrote, scHand, scDropped>>
    BY <1>5 DEF ScProcess, ScProcessFails, ScProcessed, ScNotify, scSetting
  <2> QED
    BY <2>1, <2>2, <2>3 DEF ScIndInv, Watched
<1>6. CASE UNCHANGED scVars
  BY <1>6 DEF ScIndInv, scVars, scSetting
<1> QED
  BY <1>1, <1>2, <1>3, <1>4, <1>5, <1>6, <1>7 DEF ScNext, ScWatcher

(* With the state directory below the watched one, watcher and processor    *)
(* never come to rest after the command's first write, however long it      *)
(* runs and whatever the processor fails to store, as long as the watcher   *)
(* can read and log: the commits raise the events that fill the journal.    *)
THEOREM RecorderFeedsItself == ScSpec => []NeverRestsInside
<1>1. ScInit => ScIndInv
  <2> SUFFICES ASSUME ScInit PROVE ScIndInv
    OBVIOUS
  <2>1. scWrote = FALSE /\ scJournal = <<>> /\ scEvents = {} /\ scHand = ScNil /\ scDropped = FALSE
    BY DEF ScInit
  <2>2. scJournal \in Seq(ScFiles)
    BY <2>1, SMT
  <2> QED
    BY <2>1, <2>2 DEF ScIndInv, NeverRestsInside
<1>2. ScIndInv => NeverRestsInside
  BY DEF ScIndInv
<1> QED
  BY <1>1, <1>2, ScStep, PTL DEF ScSpec

-----------------------------------------------------------------------------
(* The metrics, for any number of callers and sizes.                        *)

(* Listening, scraping and shutting down touch no counter and no caller.    *)
LEMMA EndpointApart ==
  ASSUME MeEndpoint \/ UNCHANGED meVars PROVE UNCHANGED meObservers
BY DEF MeEndpoint, MeCancel, MeServeStep, Listen, ListenReturns, ServeReturns, MeCloserStep,
       Shutdown, ShutdownReturns, MeAnswer, Answer, Scrape, Stall, GoOn, meVars

(* Every step of the observers and the endpoint keeps the types.            *)
LEMMA MeTypeStep == MeTypeOK /\ [MeNext]_meVars => MeTypeOK'
<1> SUFFICES ASSUME MeTypeOK, [MeNext]_meVars PROVE MeTypeOK'
  OBVIOUS
<1> USE DEF MeTypeOK, MeGo, MeSet
<1>1. ASSUME NEW c \in MeCallers, NEW o \in MeSizes, NEW z \in MeSizes,
             ObserveStorageSavings(c, o, z)
      PROVE  MeTypeOK'
  <2>1. o \in Int /\ z \in Int
    BY MeAssumption
  <2>2. /\ UNCHANGED <<meWritten, meSaved, meTotal, meReused, meExported, meChunkTotal>>
        /\ meOverlapped' \in BOOLEAN
    BY <1>1 DEF ObserveStorageSavings, MeStart, meCounters
  <2>3. CASE o <= 0 \/ z < 0
    BY <1>1, <2>2, <2>3 DEF ObserveStorageSavings
  <2>4. CASE ~(o <= 0 \/ z < 0)
    <3>1. /\ mePc' = [mePc EXCEPT ![c] = "add"]
          /\ meCall' = [meCall EXCEPT ![c] = [original |-> o, saved |-> o - z]]
      BY <1>1, <2>4 DEF ObserveStorageSavings
    <3>2. o \in Nat /\ o - z \in Int /\ o - z <= o
      BY <2>1, <2>4, SMT
    <3> QED
      BY <2>2, <3>1, <3>2
  <2> QED
    BY <2>3, <2>4
<1>2. ASSUME NEW c \in MeCallers, AddWritten(c) PROVE MeTypeOK'
  BY <1>2, SMT DEF AddWritten, MeRest
<1>3. ASSUME NEW c \in MeCallers, AddSaved(c) PROVE MeTypeOK'
  BY <1>3, SMT DEF AddSaved, MeRest
<1>4. ASSUME NEW c \in MeCallers, ExportSaved(c) PROVE MeTypeOK'
  BY <1>4, SMT DEF ExportSaved, MeRest
<1>5. ASSUME NEW c \in MeCallers, SetRatio(c) PROVE MeTypeOK'
  BY <1>5 DEF SetRatio, MeRest
<1>6. ASSUME NEW c \in MeCallers, NEW r \in Outcomes, ObserveChunk(c, r) PROVE MeTypeOK'
  <2>1. /\ UNCHANGED <<meWritten, meSaved, meTotal, meReused, meExported, meChunkTotal>>
        /\ meOverlapped' \in BOOLEAN
    BY <1>6 DEF ObserveChunk, MeStart, meCounters
  <2>2. /\ mePc' = [mePc EXCEPT ![c] = "total"]
        /\ meCall' = [meCall EXCEPT ![c] = [outcome |-> r]]
    BY <1>6 DEF ObserveChunk
  <2> QED
    BY <2>1, <2>2
<1>7. ASSUME NEW c \in MeCallers, AddTotal(c) PROVE MeTypeOK'
  BY <1>7, SMT DEF AddTotal, MeRest
<1>8. ASSUME NEW c \in MeCallers, AddReused(c) PROVE MeTypeOK'
  <2>1. meCall[c].outcome \in Outcomes /\ meReused' \in Nat
    BY <1>8, SMT DEF AddReused, Outcomes
  <2> QED
    BY <1>8, <2>1 DEF AddReused, MeRest
<1>9. ASSUME NEW c \in MeCallers, CountChunk(c) PROVE MeTypeOK'
  BY <1>9, SMT DEF CountChunk, MeRest
<1>10. CASE MeEndpoint \/ UNCHANGED meVars
  BY <1>10, EndpointApart DEF meObservers, meCounters
<1> QED
  BY <1>1, <1>2, <1>3, <1>4, <1>5, <1>6, <1>7, <1>8, <1>9, <1>10 DEF MeNext, MeObserve

(* A call's savings as a set of bytes.                                      *)
LEMMA BytesOf ==
  ASSUME NEW c, NEW n \in Int
  PROVE  /\ IsFiniteSet({c} \X (1..n))
         /\ Cardinality({c} \X (1..n)) = IF n > 0 THEN n ELSE 0
<1>1. IsFiniteSet(1..n) /\ Cardinality(1..n) = IF n > 0 THEN n ELSE 0
  BY FS_Interval, SMT
<1>2. IsFiniteSet({c}) /\ Cardinality({c}) = 1
  BY FS_Singleton
<1> QED
  BY <1>1, <1>2, FS_Product, SMT

(* The size of a union of two finite sets that share nothing.               *)
LEMMA DisjointUnion ==
  ASSUME NEW S, IsFiniteSet(S), NEW T, IsFiniteSet(T), S \cap T = {}
  PROVE  IsFiniteSet(S \cup T) /\ Cardinality(S \cup T) = Cardinality(S) + Cardinality(T)
<1>1. Cardinality(S) \in Nat /\ Cardinality(T) \in Nat /\ Cardinality(S \cap T) = 0
  BY FS_CardinalityType, FS_EmptySet
<1>2. /\ IsFiniteSet(S \cup T)
      /\ Cardinality(S \cup T) = Cardinality(S) + Cardinality(T) - Cardinality(S \cap T)
  BY FS_Union
<1> QED
  BY <1>1, <1>2, SMT

(* A caller that comes to an operation, or leaves it, takes its bytes there *)
(* or away.                                                                 *)
LEMMA BytesCome ==
  ASSUME MeTypeOK, NEW at, NEW c \in MeCallers, meCall[c].saved \in Int, mePc[c] # at,
         IsFiniteSet(BytesAt(at)),
         \A d \in MeCallers : mePc'[d] = at <=> d = c \/ mePc[d] = at,
         \A d \in MeCallers : d = c \/ mePc[d] = at => meCall'[d].saved = meCall[d].saved
  PROVE  /\ IsFiniteSet(BytesAt(at)')
         /\ Cardinality(BytesAt(at)') =
              Cardinality(BytesAt(at)) + (IF meCall[c].saved > 0 THEN meCall[c].saved ELSE 0)
<1> DEFINE n == meCall[c].saved
           Bytes == {c} \X (1..n)
<1>1. BytesAt(at)' = BytesAt(at) \cup Bytes
  BY SMT DEF BytesAt
<1>2. BytesAt(at) \cap Bytes = {}
  BY SMT DEF BytesAt
<1>3. IsFiniteSet(Bytes) /\ Cardinality(Bytes) = IF n > 0 THEN n ELSE 0
  BY BytesOf
<1> HIDE DEF n, Bytes
<1> QED
  BY <1>1, <1>2, <1>3, DisjointUnion DEF n

LEMMA BytesGo ==
  ASSUME MeTypeOK, NEW at, NEW c \in MeCallers, meCall[c].saved \in Int, mePc[c] = at,
         IsFiniteSet(BytesAt(at)),
         \A d \in MeCallers : mePc'[d] = at <=> d # c /\ mePc[d] = at,
         \A d \in MeCallers : d # c /\ mePc[d] = at => meCall'[d].saved = meCall[d].saved
  PROVE  /\ IsFiniteSet(BytesAt(at)')
         /\ Cardinality(BytesAt(at)) =
              Cardinality(BytesAt(at)') + (IF meCall[c].saved > 0 THEN meCall[c].saved ELSE 0)
<1> DEFINE n == meCall[c].saved
           Bytes == {c} \X (1..n)
<1>1. BytesAt(at)' \cup Bytes = BytesAt(at) /\ BytesAt(at)' \cap Bytes = {}
  BY SMT DEF BytesAt
<1>2. IsFiniteSet(Bytes) /\ Cardinality(Bytes) = IF n > 0 THEN n ELSE 0
  BY BytesOf
<1> HIDE DEF n, Bytes
<1>3. IsFiniteSet(BytesAt(at)')
  BY <1>1, FS_Subset, SMT
<1> QED
  BY <1>1, <1>2, <1>3, DisjointUnion DEF n

(* What calls have still to add to the saved bytes is what keeps them below *)
(* the written bytes, and what they have still to export is all that the    *)
(* exported counter lacks.                                                  *)
LEMMA SavingsStep ==
  ASSUME MeTypeOK, BytesAccount, [MeNext]_meVars
  PROVE  BytesAccount'
<1>0. /\ IsFiniteSet(Uncounted) /\ Cardinality(Uncounted) \in Nat
      /\ IsFiniteSet(Unexported) /\ Cardinality(Unexported) \in Nat
  BY FS_CardinalityType DEF BytesAccount
<1>1. ASSUME NEW at, \A c \in MeCallers :
               /\ mePc'[c] = at <=> mePc[c] = at
               /\ mePc[c] = at => meCall'[c].saved = meCall[c].saved
      PROVE  BytesAt(at)' = BytesAt(at)
  BY <1>1 DEF BytesAt
<1>2. ASSUME \A c \in MeCallers :
               /\ mePc'[c] \in {"saved", "export"} \/ mePc[c] \in {"saved", "export"}
                    => mePc'[c] = mePc[c]
               /\ mePc[c] \in {"saved", "export"} => meCall'[c].saved = meCall[c].saved,
             UNCHANGED <<meWritten, meSaved, meExported>>
      PROVE  BytesAccount'
  <2>1. Uncounted' = Uncounted /\ Unexported' = Unexported
    BY <1>1, <1>2 DEF Uncounted, Unexported
  <2> QED
    BY <1>2, <2>1 DEF BytesAccount
<1>3. ASSUME NEW c \in MeCallers, AddWritten(c) PROVE BytesAccount'
  <2>1. /\ mePc[c] = "add" /\ mePc' = [mePc EXCEPT ![c] = "saved"]
        /\ meWritten' = meWritten + meCall[c].original /\ UNCHANGED <<meSaved, meExported>>
        /\ meCall' = [meCall EXCEPT ![c] = [saved |-> meCall[c].saved, written |-> meWritten']]
    BY <1>3 DEF AddWritten, MeGo, MeSet
  <2>2. /\ meCall[c].saved \in Int /\ meCall[c].original \in Nat
        /\ meCall[c].saved <= meCall[c].original
    BY <2>1 DEF MeTypeOK
  <2>3. meCall'[c].saved = meCall[c].saved /\ \A d \in MeCallers \ {c} : meCall'[d] = meCall[d]
    BY <2>1 DEF MeTypeOK
  <2>4. /\ \A d \in MeCallers : mePc'[d] = "saved" <=> d = c \/ mePc[d] = "saved"
        /\ \A d \in MeCallers : mePc'[d] = "export" <=> mePc[d] = "export"
    BY <2>1 DEF MeTypeOK
  <2>5. Unexported' = Unexported
    BY <1>1, <2>3, <2>4 DEF Unexported
  <2>6. /\ IsFiniteSet(Uncounted')
        /\ Cardinality(Uncounted') =
             Cardinality(Uncounted) + (IF meCall[c].saved > 0 THEN meCall[c].saved ELSE 0)
    <3>1. \A d \in MeCallers : d = c \/ mePc[d] = "saved" => meCall'[d].saved = meCall[d].saved
      BY <2>3
    <3>2. mePc[c] # "saved" /\ IsFiniteSet(BytesAt("saved"))
      BY <1>0, <2>1 DEF Uncounted
    <3> QED
      BY <2>2, <2>4, <3>1, <3>2, BytesCome DEF Uncounted
  <2> QED
    BY <1>0, <2>1, <2>2, <2>5, <2>6, SMT DEF BytesAccount, MeTypeOK
<1>4. ASSUME NEW c \in MeCallers, AddSaved(c) PROVE BytesAccount'
  <2>1. mePc[c] = "saved" /\ UNCHANGED <<meCall, meWritten, meExported>>
    BY <1>4 DEF AddSaved
  <2>2. meCall[c].saved \in Int
    BY <2>1 DEF MeTypeOK
  <2>3. \/ /\ meCall[c].saved > 0 /\ mePc' = [mePc EXCEPT ![c] = "export"]
           /\ meSaved' = meSaved + meCall[c].saved
        \/ /\ ~(meCall[c].saved > 0) /\ mePc' = [mePc EXCEPT ![c] = "ratio"]
           /\ meSaved' = meSaved
    BY <1>4 DEF AddSaved, MeGo
  <2>4. \A d \in MeCallers : mePc'[d] = "saved" <=> d # c /\ mePc[d] = "saved"
    BY <2>3 DEF MeTypeOK
  <2>5. /\ IsFiniteSet(Uncounted')
        /\ Cardinality(Uncounted) =
             Cardinality(Uncounted') + (IF meCall[c].saved > 0 THEN meCall[c].saved ELSE 0)
    BY <1>0, <2>1, <2>2, <2>4, BytesGo DEF Uncounted
  <2>6. Cardinality(Uncounted') \in Nat
    BY <2>5, FS_CardinalityType
  <2>7. CASE meCall[c].saved > 0
    <3>1. \A d \in MeCallers : mePc'[d] = "export" <=> d = c \/ mePc[d] = "export"
      BY <2>1, <2>3, <2>7 DEF MeTypeOK
    <3>2. /\ IsFiniteSet(Unexported')
          /\ Cardinality(Unexported') =
               Cardinality(Unexported) + (IF meCall[c].saved > 0 THEN meCall[c].saved ELSE 0)
      BY <1>0, <2>1, <2>2, <3>1, BytesCome DEF Unexported
    <3> QED
      BY <1>0, <2>1, <2>2, <2>3, <2>5, <2>6, <2>7, <3>2, SMT DEF BytesAccount, MeTypeOK
  <2>8. CASE ~(meCall[c].saved > 0)
    <3>1. \A d \in MeCallers : mePc'[d] = "export" <=> mePc[d] = "export"
      BY <2>1, <2>3, <2>8 DEF MeTypeOK
    <3>2. Unexported' = Unexported
      BY <1>1, <2>1, <3>1 DEF Unexported
    <3> QED
      BY <1>0, <2>1, <2>2, <2>3, <2>5, <2>6, <2>8, <3>2, SMT DEF BytesAccount, MeTypeOK
  <2> QED
    BY <2>7, <2>8
<1>5. ASSUME NEW c \in MeCallers, ExportSaved(c) PROVE BytesAccount'
  <2>1. /\ mePc[c] = "export" /\ mePc' = [mePc EXCEPT ![c] = "ratio"]
        /\ meExported' = meExported + meCall[c].saved /\ UNCHANGED <<meCall, meWritten, meSaved>>
    BY <1>5 DEF ExportSaved, MeGo
  <2>2. meCall[c].saved \in Nat \ {0}
    BY <2>1 DEF MeTypeOK
  <2>3. meCall[c].saved \in Int
    BY <2>2, SMT
  <2>4. /\ \A d \in MeCallers : mePc'[d] = "export" <=> d # c /\ mePc[d] = "export"
        /\ \A d \in MeCallers : mePc'[d] = "saved" <=> mePc[d] = "saved"
    BY <2>1 DEF MeTypeOK
  <2>5. /\ IsFiniteSet(Unexported')
        /\ Cardinality(Unexported) =
             Cardinality(Unexported') + (IF meCall[c].saved > 0 THEN meCall[c].saved ELSE 0)
    BY <1>0, <2>1, <2>3, <2>4, BytesGo DEF Unexported
  <2>6. Cardinality(Unexported') \in Nat
    BY <2>5, FS_CardinalityType
  <2>7. Uncounted' = Uncounted
    BY <1>1, <2>1, <2>4 DEF Uncounted
  <2> QED
    BY <1>0, <2>1, <2>2, <2>5, <2>6, <2>7, SMT DEF BytesAccount, MeTypeOK
<1>6. ASSUME NEW c \in MeCallers, mePc[c] \notin {"saved", "export"},
             UNCHANGED <<meWritten, meSaved, meExported>>,
             UNCHANGED mePc \/ \E at \in {"idle", "add", "total", "reused", "count"} : MeGo(c, at),
             UNCHANGED meCall \/ \E v : MeSet(c, v)
      PROVE  BytesAccount'
  BY <1>2, <1>6 DEF MeGo, MeSet, MeTypeOK
<1>7. ASSUME NEW c \in MeCallers, NEW o \in MeSizes, NEW z \in MeSizes,
             ObserveStorageSavings(c, o, z)
      PROVE  BytesAccount'
  BY <1>6, <1>7 DEF ObserveStorageSavings, MeStart, meCounters
<1>8. ASSUME NEW c \in MeCallers, NEW r \in Outcomes, ObserveChunk(c, r) PROVE BytesAccount'
  BY <1>6, <1>8 DEF ObserveChunk, MeStart, meCounters
<1>9. ASSUME NEW c \in MeCallers, SetRatio(c) PROVE BytesAccount'
  BY <1>6, <1>9 DEF SetRatio
<1>10. ASSUME NEW c \in MeCallers, AddTotal(c) \/ AddReused(c) \/ CountChunk(c)
       PROVE  BytesAccount'
  <2>1. mePc[c] \notin {"saved", "export"} /\ UNCHANGED <<meWritten, meSaved, meExported>>
    BY <1>10 DEF AddTotal, AddReused, CountChunk
  <2>2. /\ \E at \in {"idle", "reused", "count"} : MeGo(c, at)
        /\ UNCHANGED meCall \/ \E v : MeSet(c, v)
    BY <1>10 DEF AddTotal, AddReused, CountChunk
  <2> QED
    BY <1>6, <2>1, <2>2
<1>11. CASE MeEndpoint \/ UNCHANGED meVars
  BY <1>2, <1>11, EndpointApart DEF meObservers, meCounters
<1> QED
  BY <1>3, <1>4, <1>5, <1>7, <1>8, <1>9, <1>10, <1>11 DEF MeNext, MeObserve

(* The same for the chunks: those whose reuse or outcome has still to be    *)
(* counted are all that the later counters lack of the earlier ones.        *)
LEMMA ChunksStep ==
  ASSUME MeTypeOK, ChunksAccount, [MeNext]_meVars
  PROVE  ChunksAccount'
<1> USE DEF Outcomes
<1>0. /\ IsFiniteSet(Reusing) /\ Cardinality(Reusing) \in Nat
      /\ IsFiniteSet(CountingReuse) /\ Cardinality(CountingReuse) \in Nat
      /\ IsFiniteSet(CountingNew) /\ Cardinality(CountingNew) \in Nat
  BY FS_CardinalityType DEF ChunksAccount
<1>1. ASSUME \A c \in MeCallers :
               /\ mePc'[c] \in {"reused", "count"} \/ mePc[c] \in {"reused", "count"}
                    => mePc'[c] = mePc[c]
               /\ mePc[c] = "count" => meCall'[c] = meCall[c],
             UNCHANGED <<meReused, meTotal, meChunkTotal>>
      PROVE  ChunksAccount'
  <2>1. Reusing' = Reusing /\ CountingReuse' = CountingReuse /\ CountingNew' = CountingNew
    BY <1>1 DEF Reusing, CountingReuse, CountingNew
  <2> QED
    BY <1>1, <2>1 DEF ChunksAccount
<1>2. ASSUME NEW c \in MeCallers, AddTotal(c) PROVE ChunksAccount'
  <2>1. mePc[c] = "total" /\ meTotal' = meTotal + 1 /\ UNCHANGED <<meReused, meChunkTotal>>
    BY <1>2 DEF AddTotal
  <2>2. CASE meCall[c].outcome = "reuse"
    <3>1. /\ mePc' = [mePc EXCEPT ![c] = "reused"]
          /\ \E v : meCall' = [meCall EXCEPT ![c] = v]
      BY <1>2, <2>2 DEF AddTotal, MeGo, MeSet
    <3>2. Reusing' = Reusing \cup {c} /\ c \notin Reusing
      BY <2>1, <3>1 DEF Reusing, MeTypeOK
    <3>3. CountingReuse' = CountingReuse /\ CountingNew' = CountingNew
      BY <2>1, <3>1 DEF CountingReuse, CountingNew, MeTypeOK
    <3>4. IsFiniteSet(Reusing') /\ Cardinality(Reusing') = Cardinality(Reusing) + 1
      BY <1>0, <3>2, FS_AddElement
    <3>5. meTotal \in Nat /\ meReused \in Nat /\ meChunkTotal["new"] \in Nat
      BY DEF MeTypeOK, Outcomes
    <3> QED
      BY <1>0, <2>1, <3>3, <3>4, <3>5, SMT DEF ChunksAccount
  <2>3. CASE meCall[c].outcome # "reuse"
    <3>1. mePc' = [mePc EXCEPT ![c] = "count"] /\ meCall' = meCall /\ meCall[c].outcome = "new"
      BY <1>2, <2>1, <2>3 DEF AddTotal, MeGo, MeTypeOK
    <3>2. Reusing' = Reusing /\ CountingReuse' = CountingReuse
      BY <2>1, <3>1 DEF Reusing, CountingReuse, CountingNew, MeTypeOK
    <3>3. CountingNew' = CountingNew \cup {c} /\ c \notin CountingNew
      BY <2>1, <3>1 DEF CountingReuse, CountingNew, MeTypeOK
    <3>4. /\ IsFiniteSet(CountingNew')
          /\ Cardinality(CountingNew') = Cardinality(CountingNew) + 1
      BY <1>0, <3>3, FS_AddElement
    <3>5. meTotal \in Nat /\ meReused \in Nat /\ meChunkTotal["new"] \in Nat
      BY DEF MeTypeOK
    <3> QED
      BY <1>0, <2>1, <3>2, <3>4, <3>5, SMT DEF ChunksAccount
  <2> QED
    BY <2>2, <2>3
<1>3. ASSUME NEW c \in MeCallers, AddReused(c) PROVE ChunksAccount'
  <2>1. /\ mePc[c] = "reused" /\ mePc' = [mePc EXCEPT ![c] = "count"]
        /\ meReused' = meReused + 1 /\ UNCHANGED <<meCall, meTotal, meChunkTotal>>
    BY <1>3 DEF AddReused, MeGo
  <2>2. meCall[c].outcome = "reuse"
    BY <2>1 DEF MeTypeOK
  <2>3. Reusing' = Reusing \ {c} /\ c \in Reusing
    BY <2>1 DEF Reusing, MeTypeOK
  <2>4. CountingReuse' = CountingReuse \cup {c} /\ c \notin CountingReuse
    BY <2>1, <2>2 DEF CountingReuse, CountingNew, MeTypeOK
  <2>5. CountingNew' = CountingNew
    BY <2>1, <2>2 DEF CountingReuse, CountingNew, MeTypeOK
  <2>6. IsFiniteSet(Reusing') /\ Cardinality(Reusing') = Cardinality(Reusing) - 1
    BY <1>0, <2>3, FS_RemoveElement
  <2>7. /\ IsFiniteSet(CountingReuse')
        /\ Cardinality(CountingReuse') = Cardinality(CountingReuse) + 1
    BY <1>0, <2>4, FS_AddElement
  <2>8. /\ meTotal \in Nat /\ meReused \in Nat
        /\ meChunkTotal["new"] \in Nat /\ meChunkTotal["reuse"] \in Nat
    BY DEF MeTypeOK
  <2> QED
    BY <1>0, <2>1, <2>5, <2>6, <2>7, <2>8, SMT DEF ChunksAccount
<1>4. ASSUME NEW c \in MeCallers, CountChunk(c) PROVE ChunksAccount'
  <2> DEFINE b == meCall[c].outcome
  <2>1. /\ mePc[c] = "count" /\ mePc' = [mePc EXCEPT ![c] = "idle"]
        /\ meCall' = [meCall EXCEPT ![c] = MeNil]
        /\ meChunkTotal' = [meChunkTotal EXCEPT ![b] = @ + 1] /\ UNCHANGED <<meTotal, meReused>>
    BY <1>4 DEF CountChunk, MeGo, MeSet
  <2>2. b \in Outcomes
    BY <2>1 DEF MeTypeOK
  <2>3. Reusing' = Reusing
    BY <2>1 DEF Reusing, MeTypeOK
  <2>5. CASE b = "reuse"
    <3>1. CountingReuse' = CountingReuse \ {c} /\ c \in CountingReuse
      BY <2>1, <2>5 DEF CountingReuse, CountingNew, MeTypeOK
    <3>2. CountingNew' = CountingNew
      BY <2>1, <2>5 DEF CountingReuse, CountingNew, MeTypeOK
    <3>3. /\ IsFiniteSet(CountingReuse')
          /\ Cardinality(CountingReuse') = Cardinality(CountingReuse) - 1
      BY <1>0, <3>1, FS_RemoveElement
    <3>4. meChunkTotal'["reuse"] = meChunkTotal["reuse"] + 1 /\ meChunkTotal'["new"] = meChunkTotal["new"]
      BY <2>1, <2>5 DEF MeTypeOK
    <3>5. meChunkTotal["new"] \in Nat /\ meChunkTotal["reuse"] \in Nat
      BY DEF MeTypeOK
    <3> QED
      BY <1>0, <2>1, <2>3, <3>2, <3>3, <3>4, <3>5, SMT DEF ChunksAccount
  <2>6. CASE b = "new"
    <3>1. CountingNew' = CountingNew \ {c} /\ c \in CountingNew
      BY <2>1, <2>6 DEF CountingReuse, CountingNew, MeTypeOK
    <3>2. CountingReuse' = CountingReuse
      BY <2>1, <2>6 DEF CountingReuse, CountingNew, MeTypeOK
    <3>3. /\ IsFiniteSet(CountingNew')
          /\ Cardinality(CountingNew') = Cardinality(CountingNew) - 1
      BY <1>0, <3>1, FS_RemoveElement
    <3>4. meChunkTotal'["new"] = meChunkTotal["new"] + 1 /\ meChunkTotal'["reuse"] = meChunkTotal["reuse"]
      BY <2>1, <2>6 DEF MeTypeOK
    <3>5. meChunkTotal["new"] \in Nat /\ meChunkTotal["reuse"] \in Nat
      BY DEF MeTypeOK
    <3> QED
      BY <1>0, <2>1, <2>3, <3>2, <3>3, <3>4, <3>5, SMT DEF ChunksAccount
  <2> QED
    BY <2>2, <2>5, <2>6
<1>5. ASSUME NEW c \in MeCallers, mePc[c] \notin {"reused", "count"},
             UNCHANGED <<meReused, meTotal, meChunkTotal>>,
             \/ UNCHANGED mePc
             \/ \E at \in {"idle", "add", "saved", "export", "ratio", "total"} : MeGo(c, at),
             UNCHANGED meCall \/ \E v : MeSet(c, v)
      PROVE  ChunksAccount'
  BY <1>1, <1>5 DEF MeGo, MeSet, MeTypeOK
<1>6. ASSUME NEW c \in MeCallers, NEW o \in MeSizes, NEW z \in MeSizes,
             ObserveStorageSavings(c, o, z)
      PROVE  ChunksAccount'
  BY <1>5, <1>6 DEF ObserveStorageSavings, MeStart, meCounters
<1>7. ASSUME NEW c \in MeCallers, NEW r \in Outcomes, ObserveChunk(c, r) PROVE ChunksAccount'
  BY <1>5, <1>7 DEF ObserveChunk, MeStart, meCounters
<1>8. ASSUME NEW c \in MeCallers, AddWritten(c) \/ AddSaved(c) \/ ExportSaved(c) \/ SetRatio(c)
      PROVE  ChunksAccount'
  <2>1. mePc[c] \notin {"reused", "count"} /\ UNCHANGED <<meReused, meTotal, meChunkTotal>>
    BY <1>8 DEF AddWritten, AddSaved, ExportSaved, SetRatio
  <2>2. /\ \E at \in {"saved", "export", "ratio", "idle"} : MeGo(c, at)
        /\ UNCHANGED meCall \/ \E v : MeSet(c, v)
    BY <1>8 DEF AddWritten, AddSaved, ExportSaved, SetRatio
  <2> QED
    BY <1>5, <2>1, <2>2
<1>9. CASE MeEndpoint \/ UNCHANGED meVars
  BY <1>1, <1>9, EndpointApart DEF meObservers, meCounters
<1> QED
  BY <1>2, <1>3, <1>4, <1>6, <1>7, <1>8, <1>9 DEF MeNext, MeObserve

(* As long as no calls overlapped, a gauge is set from the counters its     *)
(* call has just read.                                                      *)
LEMMA AloneStep ==
  ASSUME MeTypeOK, MeAccounts, MeAlone, [MeNext]_meVars
  PROVE  MeAlone'
<1> SUFFICES ASSUME ~meOverlapped' PROVE MeAlone'
  BY DEF MeAlone
<1>0. /\ meSaved <= meWritten
      /\ \A c \in MeCallers : mePc[c] = "reused" => meReused + 1 <= meTotal
  <2>1. Cardinality(Uncounted) \in Nat /\ Cardinality(CountingNew) \in Nat
    BY FS_CardinalityType DEF MeAccounts, BytesAccount, ChunksAccount
  <2>2. \A c \in MeCallers : mePc[c] = "reused" => Cardinality(Reusing) \in Nat \ {0}
    BY FS_CardinalityType, FS_EmptySet, SMT DEF MeAccounts, ChunksAccount, Reusing
  <2>3. meChunkTotal["new"] \in Nat
    BY DEF MeTypeOK, Outcomes
  <2> QED
    BY <2>1, <2>2, <2>3, SMT DEF MeAccounts, BytesAccount, ChunksAccount, MeTypeOK
<1>1. ASSUME NEW c \in MeCallers, MeStart(c),
             \/ UNCHANGED <<mePc, meCall>>
             \/ \E at \in {"add", "total"} : \E v : MeGo(c, at) /\ MeSet(c, v)
      PROVE  MeAlone'
  <2>1. /\ ~meOverlapped /\ \A d \in MeCallers : mePc[d] = "idle"
        /\ UNCHANGED <<meWritten, meSaved, meTotal, meRatio, meDedup>>
    BY <1>1 DEF MeStart, meCounters, MeTypeOK
  <2>2. \A d \in MeCallers : mePc'[d] = "idle" \/ (d = c /\ mePc'[d] \in {"add", "total"})
    BY <1>1, <2>1 DEF MeGo, MeTypeOK
  <2> QED
    BY <2>1, <2>2 DEF MeAlone
<1>2. ASSUME NEW c \in MeCallers, NEW o \in MeSizes, NEW z \in MeSizes,
             ObserveStorageSavings(c, o, z)
      PROVE  MeAlone'
  BY <1>1, <1>2 DEF ObserveStorageSavings
<1>3. ASSUME NEW c \in MeCallers, NEW r \in Outcomes, ObserveChunk(c, r) PROVE MeAlone'
  BY <1>1, <1>3 DEF ObserveChunk
<1>4. ASSUME NEW c \in MeCallers, mePc[c] # "idle", UNCHANGED meOverlapped
      PROVE  /\ MeAlone /\ ~meOverlapped
             /\ \A d \in MeCallers \ {c} : mePc[d] = "idle"
  BY <1>4 DEF MeAlone
<1>5. ASSUME NEW c \in MeCallers, AddWritten(c) PROVE MeAlone'
  <2>1. /\ mePc[c] = "add" /\ mePc' = [mePc EXCEPT ![c] = "saved"]
        /\ meCall' = [meCall EXCEPT ![c] = [saved |-> meCall[c].saved, written |-> meWritten']]
        /\ UNCHANGED <<meSaved, meTotal, meRatio, meDedup, meOverlapped>>
    BY <1>5 DEF AddWritten, MeGo, MeSet, MeRest
  <2>2. \A d \in MeCallers \ {c} : mePc'[d] = "idle"
    BY <1>4, <2>1 DEF MeTypeOK
  <2>3. mePc'[c] = "saved" /\ meCall'[c].written = meWritten'
    BY <2>1 DEF MeTypeOK
  <2> QED
    BY <1>4, <2>1, <2>2, <2>3 DEF MeAlone
<1>6. ASSUME NEW c \in MeCallers, AddSaved(c) PROVE MeAlone'
  <2>1. /\ mePc[c] = "saved"
        /\ \E at \in {"export", "ratio"} : mePc' = [mePc EXCEPT ![c] = at]
        /\ UNCHANGED <<meCall, meWritten, meTotal, meRatio, meDedup, meOverlapped>>
    BY <1>6 DEF AddSaved, MeGo, MeRest
  <2>2. \A d \in MeCallers \ {c} : mePc'[d] = "idle"
    BY <1>4, <2>1 DEF MeTypeOK
  <2>3. mePc'[c] \in {"export", "ratio"}
    BY <2>1 DEF MeTypeOK
  <2> QED
    BY <1>4, <2>1, <2>2, <2>3 DEF MeAlone
<1>11. ASSUME NEW c \in MeCallers, ExportSaved(c) PROVE MeAlone'
  <2>1. /\ mePc[c] = "export" /\ mePc' = [mePc EXCEPT ![c] = "ratio"]
        /\ UNCHANGED <<meCall, meWritten, meSaved, meTotal, meRatio, meDedup, meOverlapped>>
    BY <1>11 DEF ExportSaved, MeGo, MeRest
  <2>2. \A d \in MeCallers \ {c} : mePc'[d] = "idle"
    BY <1>4, <2>1 DEF MeTypeOK
  <2>3. mePc'[c] = "ratio"
    BY <2>1 DEF MeTypeOK
  <2> QED
    BY <1>4, <2>1, <2>2, <2>3 DEF MeAlone
<1>7. ASSUME NEW c \in MeCallers, SetRatio(c) PROVE MeAlone'
  <2>1. /\ mePc[c] = "ratio" /\ mePc' = [mePc EXCEPT ![c] = "idle"]
        /\ meRatio' = <<meSaved, meCall[c].written>>
        /\ UNCHANGED <<meWritten, meSaved, meTotal, meDedup, meOverlapped>>
    BY <1>7 DEF SetRatio, MeGo, MeRest
  <2>2. \A d \in MeCallers : mePc'[d] = "idle"
    BY <1>4, <2>1 DEF MeTypeOK
  <2>3. meRatio' = <<meSaved, meWritten>> /\ meDedup[1] <= meDedup[2]
    BY <1>4, <2>1 DEF MeAlone
  <2> QED
    BY <1>0, <2>1, <2>2, <2>3, SMT DEF MeAlone
<1>8. ASSUME NEW c \in MeCallers, AddTotal(c) PROVE MeAlone'
  <2>1. /\ mePc[c] = "total" /\ meTotal' = meTotal + 1
        /\ UNCHANGED <<meWritten, meSaved, meRatio, meDedup, meOverlapped>>
    BY <1>8 DEF AddTotal, MeRest
  <2>2. \/ mePc' = [mePc EXCEPT ![c] = "count"]
        \/ /\ mePc' = [mePc EXCEPT ![c] = "reused"]
           /\ meCall' = [meCall EXCEPT ![c] = [outcome |-> "reuse", count |-> meTotal']]
    BY <1>8 DEF AddTotal, MeGo, MeSet
  <2>3. \A d \in MeCallers \ {c} : mePc'[d] = "idle"
    BY <1>4, <2>1, <2>2 DEF MeTypeOK
  <2>4. mePc'[c] = "count" \/ (mePc'[c] = "reused" /\ meCall'[c].count = meTotal')
    BY <2>2, SMT DEF MeTypeOK
  <2>5. \A d \in MeCallers : mePc[d] \notin {"saved", "export", "ratio"}
    BY <1>4, <2>1
  <2> QED
    BY <1>4, <2>1, <2>3, <2>4, <2>5 DEF MeAlone
<1>9. ASSUME NEW c \in MeCallers, AddReused(c) PROVE MeAlone'
  <2>1. /\ mePc[c] = "reused" /\ mePc' = [mePc EXCEPT ![c] = "count"]
        /\ meDedup' = <<meReused + 1, meCall[c].count>>
        /\ UNCHANGED <<meWritten, meSaved, meTotal, meRatio, meOverlapped>>
    BY <1>9 DEF AddReused, MeGo, MeRest
  <2>2. mePc'[c] = "count" /\ \A d \in MeCallers \ {c} : mePc'[d] = "idle"
    BY <1>4, <2>1 DEF MeTypeOK
  <2>3. meCall[c].count = meTotal /\ \A d \in MeCallers : mePc[d] \notin {"saved", "export", "ratio"}
    BY <1>4, <2>1 DEF MeAlone
  <2>4. meDedup'[1] <= meDedup'[2]
    BY <1>0, <2>1, <2>3
  <2> QED
    BY <1>4, <2>1, <2>2, <2>3, <2>4 DEF MeAlone
<1>12. ASSUME NEW c \in MeCallers, CountChunk(c) PROVE MeAlone'
  <2>1. /\ mePc[c] = "count" /\ mePc' = [mePc EXCEPT ![c] = "idle"]
        /\ UNCHANGED <<meWritten, meSaved, meTotal, meRatio, meDedup, meOverlapped>>
    BY <1>12 DEF CountChunk, MeGo, MeRest
  <2>2. \A d \in MeCallers : mePc'[d] = "idle"
    BY <1>4, <2>1 DEF MeTypeOK
  <2>3. \A d \in MeCallers : mePc[d] \notin {"saved", "export", "ratio"}
    BY <1>4, <2>1
  <2> QED
    BY <1>4, <2>1, <2>2, <2>3 DEF MeAlone
<1>10. CASE MeEndpoint \/ UNCHANGED meVars
  <2>1. UNCHANGED <<mePc, meCall, meWritten, meSaved, meTotal, meRatio, meDedup, meOverlapped>>
    BY <1>10, EndpointApart DEF meObservers, meCounters
  <2> QED
    BY <2>1 DEF MeAlone
<1> QED
  BY <1>2, <1>3, <1>5, <1>6, <1>7, <1>8, <1>9, <1>10, <1>11, <1>12 DEF MeNext, MeObserve

(* The inductive invariant of the metrics.                                  *)
LEMMA MeInvariant == MeSpec => []MeIndInv
<1>1. MeInit => MeIndInv
  <2> SUFFICES ASSUME MeInit PROVE MeIndInv
    OBVIOUS
  <2>0. \A c \in MeCallers : mePc[c] = "idle"
    BY DEF MeInit
  <2>1. MeTypeOK /\ MeAlone
    <3>1. MeTypeOK
      BY DEF MeInit, MeTypeOK
    <3>2. MeAlone
      BY <2>0, SMT DEF MeInit, MeAlone
    <3> QED
      BY <3>1, <3>2
  <2>2. Uncounted = {} /\ Unexported = {} /\ Reusing = {} /\ CountingReuse = {} /\ CountingNew = {}
    BY <2>0 DEF Uncounted, Unexported, BytesAt, Reusing, CountingReuse, CountingNew
  <2>3. meChunkTotal["reuse"] = 0 /\ meChunkTotal["new"] = 0
    BY <2>2 DEF MeInit, Outcomes
  <2>4. BytesAccount
    BY <2>2, FS_EmptySet, SMT DEF MeInit, BytesAccount
  <2>5. ChunksAccount
    BY <2>2, <2>3, FS_EmptySet, SMT DEF MeInit, ChunksAccount
  <2> QED
    BY <2>1, <2>4, <2>5 DEF MeIndInv, MeAccounts
<1>2. MeIndInv /\ [MeNext]_meVars => MeIndInv'
  BY MeTypeStep, SavingsStep, ChunksStep, AloneStep DEF MeIndInv, MeAccounts
<1> QED
  BY <1>1, <1>2, PTL DEF MeSpec

(* However the callers of ObserveStorageSavings and ObserveChunk interleave *)
(* between their atomic additions, no more is counted as saved than as      *)
(* written or as reused than as seen, and when all are done the exported    *)
(* counters agree with the totals.                                          *)
THEOREM CountersStayConsistent == MeSpec => []CountersConsistent
<1>1. MeIndInv => CountersConsistent
  <2> SUFFICES ASSUME MeIndInv PROVE CountersConsistent
    OBVIOUS
  <2>1. /\ Cardinality(Uncounted) \in Nat /\ Cardinality(Unexported) \in Nat
        /\ Cardinality(Reusing) \in Nat
        /\ Cardinality(CountingReuse) \in Nat /\ Cardinality(CountingNew) \in Nat
    BY FS_CardinalityType DEF MeIndInv, MeAccounts, BytesAccount, ChunksAccount
  <2>2. /\ meWritten \in Nat /\ meSaved \in Nat /\ meTotal \in Nat /\ meReused \in Nat
        /\ meExported \in Nat /\ meChunkTotal["reuse"] \in Nat /\ meChunkTotal["new"] \in Nat
    BY DEF MeIndInv, MeTypeOK, Outcomes
  <2>3. /\ meExported <= meSaved /\ meSaved <= meWritten
        /\ meChunkTotal["reuse"] <= meReused /\ meReused <= meTotal
    BY <2>1, <2>2, SMT DEF MeIndInv, MeAccounts, BytesAccount, ChunksAccount
  <2>4. ASSUME \A c \in MeCallers : MeIdle(c)
        PROVE  /\ meExported = meSaved /\ meChunkTotal["reuse"] = meReused
               /\ meChunkTotal["new"] = meTotal - meReused
    <3>1. /\ Unexported = {} /\ Reusing = {}
          /\ CountingReuse = {} /\ CountingNew = {}
      BY <2>4 DEF MeIdle, Unexported, BytesAt, Reusing, CountingReuse, CountingNew
    <3> QED
      BY <2>2, <3>1, FS_EmptySet, SMT DEF MeIndInv, MeAccounts, BytesAccount, ChunksAccount
  <2> QED
    BY <2>3, <2>4 DEF CountersConsistent
<1> QED
  BY <1>1, MeInvariant, PTL

(* As long as no two calls overlap, both gauges are ratios of at most one   *)
(* and the savings gauge is exact when no call runs.                        *)
THEOREM RatiosExactForOneCaller == MeSpec => []RatiosExactAlone
<1>1. MeIndInv => RatiosExactAlone
  BY DEF MeIndInv, MeAlone, RatiosExactAlone, MeIdle
<1> QED
  BY <1>1, MeInvariant, PTL

(* When Serve returns nil, no request is being answered and none will be,   *)
(* for any clients, however they come, stall and go.                        *)
THEOREM ServeCutsNothingOff == MeSpec => []NoScrapeCutOff
<1>1. MeInit => MeServeInv
  BY DEF MeInit, MeServeInv
<1>2. MeServeInv /\ [MeNext]_meVars => MeServeInv'
  <2> SUFFICES ASSUME MeServeInv, [MeNext]_meVars PROVE MeServeInv'
    OBVIOUS
  <2> USE DEF MeServeInv
  <2>1. CASE MeObserve \/ UNCHANGED meVars
    <3>1. UNCHANGED meServer
      BY <2>1 DEF MeObserve, ObserveStorageSavings, ObserveChunk, MeStart, AddWritten, AddSaved,
                  ExportSaved, SetRatio, AddTotal, AddReused, CountChunk, MeRest, meVars
    <3> QED
      BY <3>1 DEF meServer, meClients
  <2>2. CASE MeCancel \/ MeServeStep \/ MeCloserStep
    BY <2>2 DEF MeCancel, MeServeStep, Listen, ListenReturns, ServeReturns, MeCloserStep,
                Shutdown, ShutdownReturns, meClients
  <2>3. ASSUME NEW k \in MeClients, Answer(k) \/ Scrape(k) \/ Stall(k) \/ GoOn(k)
        PROVE  MeServeInv'
    BY <2>3 DEF Answer, Scrape, Stall, GoOn
  <2> QED
    BY <2>1, <2>2, <2>3 DEF MeNext, MeEndpoint, MeAnswer
<1>3. MeServeInv => NoScrapeCutOff
  BY DEF MeServeInv, NoScrapeCutOff
<1> QED
  BY <1>1, <1>2, <1>3, PTL DEF MeSpec

=============================================================================
