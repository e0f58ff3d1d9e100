---------------------------- MODULE EbpfManager ----------------------------
(***************************************************************************)
(* The kernel-side capture as runRecord drives it: NewManager attaches the  *)
(* probes and opens the ring buffers, a goroutine calls Start, each stream  *)
(* gets a consumer goroutine that moves records from its ring buffer to a   *)
(* channel, and the deferred calls close the manager and cancel the context *)
(* when runRecord returns.                                                  *)
(***************************************************************************)
EXTENDS Integers, Sequences

CONSTANTS
  Lifecycle,  \* cfg.LifecycleTracing && cfg.CollectLifecycle
  RingMax,    \* capacity of a kernel ring buffer, in records
  ChanMax,    \* capacity of a Go channel
  MaxEmits,   \* bound on the records a stream produces
  Nil

Streams == {"syscall", "lifecycle"}
Records == 1..MaxEmits
WriteProbes == {"vfs_write", "vfs_writev"}
ProbesOf(s) == IF s = "syscall" THEN WriteProbes ELSE {"sched_exec"}

ASSUME BoundAssumption == /\ Lifecycle \in BOOLEAN
                          /\ RingMax \in Nat \ {0} /\ ChanMax \in Nat \ {0}
                          /\ MaxEmits \in Nat /\ Nil \notin Records

VARIABLES
  main,     \* where runRecord is
  mgr,      \* what NewManager returned: "none", "ok", "error" or "unsupported"
  starter,  \* the goroutine that calls Start: "none", "pending", "done"
  running,  \* m.running
  cancel,   \* m.cancel is set
  ctxDone,  \* the context the consumers watch is cancelled
  links,    \* the attached probes
  reader,   \* the ring buffer reader of each stream: "nil", "open", "closed"
  chan,     \* does the manager hold the channel of each stream?
  buf,      \* the records in it
  closes,   \* how often it was closed
  ring,     \* the records in the kernel's ring buffer
  emitted,  \* how many records the probes produced
  pc,       \* the consumer goroutine of each stream
  rec       \* the record it has in hand

mgrVars == <<mgr, running, cancel, links, reader, chan>>
kernelVars == <<ring, emitted>>
consumerVars == <<pc, rec, buf, closes>>
vars == <<main, starter, ctxDone, mgrVars, kernelVars, consumerVars>>

Init ==
  /\ main = "start" /\ mgr = "none" /\ starter = "none"
  /\ running = FALSE /\ cancel = FALSE /\ ctxDone = FALSE /\ links = {}
  /\ reader = [s \in Streams |-> "nil"] /\ chan = [s \in Streams |-> FALSE]
  /\ buf = [s \in Streams |-> <<>>] /\ closes = [s \in Streams |-> 0]
  /\ ring = [s \in Streams |-> <<>>] /\ emitted = [s \in Streams |-> 0]
  /\ pc = [s \in Streams |-> "off"] /\ rec = [s \in Streams |-> Nil]

-----------------------------------------------------------------------------
(* NewManager.                                                              *)

(* closeLifecycleChan closes the channel and forgets it.  Its slip keeps    *)
(* the field.                                                               *)
CloseKeepsField(s, open) ==
  /\ chan' = open
  /\ closes' = IF open[s] THEN [closes EXCEPT ![s] = @ + 1] ELSE closes

CloseLifecycleChan(s, open) ==
  /\ chan' = [open EXCEPT ![s] = FALSE]
  /\ closes' = IF open[s] THEN [closes EXCEPT ![s] = @ + 1] ELSE closes

(* Close: cancel, close the readers, detach the probes.  Its slip leaves    *)
(* the probes attached.                                                     *)
ReleaseReaders(attached, readers) ==
  /\ links' = attached
  /\ reader' = [s \in Streams |-> IF readers[s] = "open" THEN "closed" ELSE readers[s]]
  /\ running' = FALSE

Release(attached, readers) ==
  /\ links' = {}
  /\ reader' = [s \in Streams |-> IF readers[s] = "open" THEN "closed" ELSE readers[s]]
  /\ running' = FALSE

(* The channels NewManager makes and the readers setupReaders opens.        *)
Made == [s \in Streams |-> s = "syscall" \/ Lifecycle]

(* init fails: in the BTF loader, in loadObjects, because no write probe    *)
(* attaches, or in setupReaders, where the syscall reader may be open       *)
(* already.  NewManager closes what there is and runRecord returns the      *)
(* error: its deferred calls start.                                         *)
NewManagerFails ==
  /\ main = "start"
  /\ \E attached \in SUBSET WriteProbes, opened \in BOOLEAN :
       /\ opened => attached # {} /\ Lifecycle
       /\ Release(attached, [s \in Streams |->
                               IF s = "syscall" /\ opened THEN "open" ELSE "nil"])
  /\ mgr' = "error" /\ main' = "cancel"
  /\ UNCHANGED <<starter, ctxDone, cancel, chan, kernelVars, consumerVars>>

(* At least one write probe attached; a lifecycle probe that does not       *)
(* attach only closes the lifecycle channel.                                *)
NewManagerSucceeds ==
  /\ main = "start"
  /\ \E attached \in (SUBSET WriteProbes) \ {{}}, lifeProbe \in BOOLEAN :
       /\ links' = attached \cup (IF Lifecycle /\ lifeProbe THEN ProbesOf("lifecycle") ELSE {})
       /\ IF Lifecycle /\ ~lifeProbe
          THEN CloseLifecycleChan("lifecycle", Made)
          ELSE chan' = Made /\ UNCHANGED closes
  /\ reader' = [s \in Streams |-> IF Made[s] THEN "open" ELSE "nil"]
  /\ mgr' = "ok" /\ main' = "running" /\ starter' = "pending"
  /\ UNCHANGED <<ctxDone, running, cancel, kernelVars, pc, rec, buf>>

(* Elsewhere than on Linux NewManager reports ErrUnsupported.               *)
NewManagerUnsupported ==
  /\ main = "start"
  /\ mgr' = "unsupported" /\ main' = "running"
  /\ UNCHANGED <<starter, ctxDone, running, cancel, links, reader, chan, kernelVars, consumerVars>>

-----------------------------------------------------------------------------
(* Start, in a goroutine of its own: it may come after Close.               *)
Start ==
  /\ starter = "pending"
  /\ starter' = "done"
  /\ IF running
     THEN UNCHANGED <<running, cancel, pc>>
     ELSE /\ running' = TRUE /\ cancel' = TRUE
          /\ pc' = [s \in Streams |-> IF s = "syscall" \/ (reader[s] # "nil" /\ chan[s])
                                      THEN "read" ELSE "off"]
  /\ UNCHANGED <<main, mgr, ctxDone, links, reader, chan, kernelVars, rec, buf, closes>>

(* The command ends; the deferred mgr.Close runs.                           *)
CloseManager ==
  /\ main = "running"
  /\ main' = "cancel"
  /\ IF mgr = "ok" THEN Release(links, reader) ELSE UNCHANGED <<links, reader, running>>
  /\ ctxDone' = cancel
  /\ UNCHANGED <<mgr, cancel, starter, chan, kernelVars, consumerVars>>

(* The deferred cancel of runRecord's context, parent of the consumers'.    *)
CancelContext ==
  /\ main = "cancel"
  /\ main' = "done" /\ ctxDone' = TRUE
  /\ UNCHANGED <<starter, mgrVars, kernelVars, consumerVars>>

-----------------------------------------------------------------------------
(* consumeSyscallEvents and consumeLifecycleEvents, which differ in how     *)
(* they close their channel.                                                *)
Exit(s) ==
  /\ pc' = [pc EXCEPT ![s] = "exited"]
  /\ rec' = [rec EXCEPT ![s] = Nil]
  /\ IF s = "syscall"
     THEN closes' = [closes EXCEPT ![s] = @ + 1] /\ UNCHANGED chan
     ELSE CloseLifecycleChan(s, chan)
  /\ UNCHANGED <<main, mgr, starter, running, cancel, ctxDone, links, reader, kernelVars, buf>>

(* Read on a closed reader fails whatever the ring holds.                   *)
ReadClosed(s) ==
  /\ pc[s] = "read" /\ reader[s] = "closed"
  /\ Exit(s)

(* A record that does not decode is dropped.                                *)
ReadRecord(s) ==
  /\ pc[s] = "read" /\ reader[s] = "open" /\ ring[s] # <<>>
  /\ ring' = [ring EXCEPT ![s] = Tail(@)]
  /\ \/ pc' = [pc EXCEPT ![s] = "send"] /\ rec' = [rec EXCEPT ![s] = Head(ring[s])]
     \/ UNCHANGED <<pc, rec>>
  /\ UNCHANGED <<main, starter, ctxDone, mgrVars, emitted, buf, closes>>

Send(s) ==
  /\ pc[s] = "send" /\ chan[s] /\ Len(buf[s]) < ChanMax
  /\ buf' = [buf EXCEPT ![s] = Append(@, rec[s])]
  /\ pc' = [pc EXCEPT ![s] = "read"] /\ rec' = [rec EXCEPT ![s] = Nil]
  /\ UNCHANGED <<main, starter, ctxDone, mgrVars, kernelVars, closes>>

(* The other case of the select, ready together with Send or alone.  Its    *)
(* slip is a bare send.                                                     *)
NeverGivesUp(s) == pc[s] = "send" /\ FALSE /\ Exit(s)

GiveUp(s) == pc[s] = "send" /\ ctxDone /\ Exit(s)

Consumer(s) == ReadClosed(s) \/ ReadRecord(s) \/ Send(s) \/ GiveUp(s)

-----------------------------------------------------------------------------
(* The BPF programs: bpf_ringbuf_reserve fails when the ring is full, and   *)
(* the record is dropped.                                                   *)
EmitUnchecked(s) ==
  /\ links \cap ProbesOf(s) # {} /\ emitted[s] < MaxEmits
  /\ emitted' = [emitted EXCEPT ![s] = @ + 1]
  /\ ring' = [ring EXCEPT ![s] = Append(@, emitted[s] + 1)]
  /\ UNCHANGED <<main, starter, ctxDone, mgrVars, consumerVars>>

Emit(s) ==
  /\ links \cap ProbesOf(s) # {} /\ emitted[s] < MaxEmits
  /\ emitted' = [emitted EXCEPT ![s] = @ + 1]
  /\ ring' = IF Len(ring[s]) < RingMax
             THEN [ring EXCEPT ![s] = Append(@, emitted[s] + 1)] ELSE ring
  /\ UNCHANGED <<main, starter, ctxDone, mgrVars, consumerVars>>

Next ==
  \/ NewManagerFails \/ NewManagerSucceeds \/ NewManagerUnsupported
  \/ Start \/ CloseManager \/ CancelContext
  \/ \E s \in Streams : Consumer(s) \/ Emit(s)

Spec == Init /\ [][Next]_vars

(* The Go scheduler runs the goroutines; runRecord's deferred calls do not  *)
(* block.  The command may run for ever and the kernel need not emit.       *)
FairSpec ==
  /\ Spec
  /\ WF_vars(Start) /\ WF_vars(CancelContext)
  /\ \A s \in Streams : WF_vars(Consumer(s))

-----------------------------------------------------------------------------
(* Types and capacities; a consumer has a record in hand only to send it.   *)
TypeOK ==
  /\ main \in {"start", "running", "cancel", "done"}
  /\ mgr \in {"none", "ok", "error", "unsupported"}
  /\ starter \in {"none", "pending", "done"}
  /\ running \in BOOLEAN /\ cancel \in BOOLEAN /\ ctxDone \in BOOLEAN
  /\ links \subseteq UNION {ProbesOf(s) : s \in Streams}
  /\ reader \in [Streams -> {"nil", "open", "closed"}]
  /\ chan \in [Streams -> BOOLEAN]
  /\ closes \in [Streams -> Nat] /\ emitted \in [Streams -> 0..MaxEmits]
  /\ buf \in [Streams -> Seq(Records)] /\ \A s \in Streams : Len(buf[s]) <= ChanMax
  /\ ring \in [Streams -> Seq(Records)] /\ \A s \in Streams : Len(ring[s]) <= RingMax
  /\ pc \in [Streams -> {"off", "read", "send", "exited"}]
  /\ rec \in [Streams -> Records \cup {Nil}]
  /\ \A s \in Streams : (rec[s] # Nil) <=> (pc[s] = "send")

(* The process never panics on a channel: neither is closed twice, and no   *)
(* consumer sends on one that is closed, although the lifecycle channel can *)
(* be closed by init and by its consumer, and Start can come after Close.   *)
NoChannelPanic ==
  \A s \in Streams : closes[s] <= 1 /\ (pc[s] \in {"read", "send"} => closes[s] = 0)

(* Once runRecord's deferred calls have run, no probe is attached and no    *)
(* ring buffer reader is open, wherever NewManager failed.                  *)
NothingLeaked ==
  main \in {"cancel", "done"} => links = {} /\ \A s \in Streams : reader[s] # "open"

(* Records of a channel, in the consumer's hand and in the ring: each later *)
(* than all before it, and none that the probes have not produced.          *)
InOrder(sent, hand, waiting, produced) ==
  LET Increasing(q) == \A i, j \in DOMAIN q : i < j => q[i] < q[j]
  IN  /\ Increasing(sent) /\ Increasing(waiting)
      /\ \A i \in DOMAIN sent : sent[i] <= produced /\ \A j \in DOMAIN waiting : sent[i] < waiting[j]
      /\ \A j \in DOMAIN waiting : waiting[j] <= produced
      /\ hand # Nil =>
           /\ \A i \in DOMAIN sent : sent[i] < hand
           /\ \A j \in DOMAIN waiting : hand < waiting[j]
           /\ hand <= produced

(* A stream may lose records, to a full ring, a decoder or a cancelled      *)
(* send, but it never repeats or reorders one on the way to its channel.    *)
RecordsInOrder ==
  \A s \in Streams : InOrder(buf[s], rec[s], ring[s], emitted[s])

(* When runRecord has returned, both consumers end and close their          *)
(* channels, also one that is blocked on a full channel, and also when      *)
(* Start comes only after Close.                                            *)
ConsumersStop ==
  (mgr = "ok" /\ main = "done") ~>
    \A s \in Streams : pc[s] \in {"off", "exited"} /\ (Made[s] => closes[s] = 1)

(* Why they can: when runRecord has returned no consumer waits for what     *)
(* does not come.  One in Read finds its reader closed, one blocked on a    *)
(* send finds the context cancelled, and one that has ended, or that Start  *)
(* did not launch, leaves a closed channel to whoever ranges over it.       *)
NoConsumerStuck ==
  mgr = "ok" /\ main = "done" =>
    \A s \in Streams :
      /\ pc[s] = "read" => reader[s] = "closed"
      /\ pc[s] = "send" => ctxDone
      /\ starter = "done" /\ Made[s] /\ pc[s] \in {"off", "exited"} => closes[s] = 1

(* eBPF guide: "Events flow from ring buffers -> Go pkg/ebpf manager ->     *)
(* recorder pipeline": while recording goes on, records do not stay in the  *)
(* ring.                                                                    *)
RingIsDrained ==
  (main = "running" /\ ring["syscall"] # <<>>) ~>
    (main # "running" \/ ring["syscall"] = <<>>)

=============================================================================
