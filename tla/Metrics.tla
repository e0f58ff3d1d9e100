------------------------------ MODULE Metrics -------------------------------
(* internal/metrics: the storage savings and chunk counters, updated by     *)
(* concurrent callers one atomic operation at a time, and the life of the   *)
(* /metrics endpoint.  No command calls the package.                        *)
EXTENDS Integers, FiniteSets

CONSTANTS
  MeCallers,
  MeSizes,        \* the byte counts callers report
  MeMaxCalls,     \* bound on the calls of Observe*
  MeClients,      \* those who scrape the endpoint
  MeNil

ASSUME MeAssumption == MeSizes \subseteq Int

Outcomes == {"new", "reuse"}

VARIABLES
  mePc,           \* caller -> the next operation of its call, or "idle"
  meCall,         \* caller -> the arguments, and what its adds returned
  meWritten, meSaved,         \* totalWrittenBytes, totalSavedBytes
  meTotal, meReused,          \* chunkTotalCount, chunkReuseCount
  meExported,                 \* StorageSavedBytesTotal
  meChunkTotal,               \* ChunkTotal: the chunks of each outcome
  meRatio, meDedup,           \* the gauges: <<numerator, denominator>>
  meCalls,
  meOverlapped,               \* history: two calls have run at once
  meCtx,          \* the context given to Serve is "live" or "done"
  meSrv,          \* http.Server: "new" | "listening" | "shutdown"
  meServe,        \* Serve: "listen" | "wait" | "nil" | "err"
  meCloser,       \* its goroutine: "waiting" | "draining" | "closed"
  meActive,       \* the clients whose request is being answered
  meStalled       \* those of them that do not read their answer

meCounters ==
  <<meWritten, meSaved, meTotal, meReused, meExported, meChunkTotal, meRatio, meDedup>>
meObservers == <<mePc, meCall, meCounters, meCalls, meOverlapped>>
meClients == <<meActive, meStalled>>
meServer == <<meCtx, meSrv, meServe, meCloser, meClients>>
meVars == <<meObservers, meServer>>

MeInit ==
  /\ mePc = [c \in MeCallers |-> "idle"] /\ meCall = [c \in MeCallers |-> MeNil]
  /\ meWritten = 0 /\ meSaved = 0 /\ meTotal = 0 /\ meReused = 0
  /\ meExported = 0 /\ meChunkTotal = [o \in Outcomes |-> 0]
  /\ meRatio = <<0, 1>> /\ meDedup = <<0, 1>>
  /\ meCalls = 0 /\ meOverlapped = FALSE
  /\ meCtx = "live" /\ meSrv = "new" /\ meServe = "listen" /\ meCloser = "waiting"
  /\ meActive = {} /\ meStalled = {}

-----------------------------------------------------------------------------
(* Observers.                                                               *)

MeGo(c, pc) == mePc' = [mePc EXCEPT ![c] = pc]
MeSet(c, v) == meCall' = [meCall EXCEPT ![c] = v]

MeStart(c) ==
  /\ mePc[c] = "idle" /\ meCalls < MeMaxCalls /\ meCalls' = meCalls + 1
  /\ meOverlapped' = (meOverlapped \/ \E d \in MeCallers : mePc[d] # "idle")
  /\ UNCHANGED <<meCounters, meServer>>

MeRest == UNCHANGED <<meCalls, meOverlapped, meServer>>

(* ObserveStorageSavings; it ignores sizes that make no sense.              *)
ObserveStorageSavings(c, original, compressed) ==
  /\ MeStart(c)
  /\ IF original <= 0 \/ compressed < 0 THEN UNCHANGED <<mePc, meCall>>
     ELSE MeGo(c, "add") /\ MeSet(c, [original |-> original, saved |-> original - compressed])

(* A total of what was stored instead of what was written.                  *)
AddStored(c) ==
  /\ mePc[c] = "add" /\ MeGo(c, "saved")
  /\ meWritten' = meWritten + meCall[c].original - meCall[c].saved
  /\ MeSet(c, [saved |-> meCall[c].saved, written |-> meWritten'])
  /\ UNCHANGED <<meSaved, meTotal, meReused, meExported, meChunkTotal, meRatio, meDedup>>
  /\ MeRest

AddWritten(c) ==
  /\ mePc[c] = "add" /\ MeGo(c, "saved")
  /\ meWritten' = meWritten + meCall[c].original
  /\ MeSet(c, [saved |-> meCall[c].saved, written |-> meWritten'])
  /\ UNCHANGED <<meSaved, meTotal, meReused, meExported, meChunkTotal, meRatio, meDedup>>
  /\ MeRest

(* Savings are added to the total and then to the exported counter; a call  *)
(* that saved nothing adds to neither.                                      *)
AddSaved(c) ==
  /\ mePc[c] = "saved"
  /\ IF meCall[c].saved > 0
     THEN MeGo(c, "export") /\ meSaved' = meSaved + meCall[c].saved
     ELSE MeGo(c, "ratio") /\ UNCHANGED meSaved
  /\ UNCHANGED <<meCall, meWritten, meTotal, meReused, meExported, meChunkTotal, meRatio, meDedup>>
  /\ MeRest

ExportSaved(c) ==
  /\ mePc[c] = "export" /\ MeGo(c, "ratio")
  /\ meExported' = meExported + meCall[c].saved
  /\ UNCHANGED <<meCall, meWritten, meSaved, meTotal, meReused, meChunkTotal, meRatio, meDedup>>
  /\ MeRest

(* A gauge computed from the call's own savings, not from their total.      *)
SetRatioOfCall(c) ==
  /\ mePc[c] = "ratio" /\ MeGo(c, "idle") /\ MeSet(c, MeNil)
  /\ meRatio' = <<meCall[c].saved, meCall[c].written>>
  /\ UNCHANGED <<meWritten, meSaved, meTotal, meReused, meExported, meChunkTotal, meDedup>>
  /\ MeRest

(* The gauge is the savings now over the bytes written as of AddWritten.    *)
SetRatio(c) ==
  /\ mePc[c] = "ratio" /\ MeGo(c, "idle") /\ MeSet(c, MeNil)
  /\ meRatio' = <<meSaved, meCall[c].written>>
  /\ UNCHANGED <<meWritten, meSaved, meTotal, meReused, meExported, meChunkTotal, meDedup>>
  /\ MeRest

(* ObserveChunk.                                                            *)
ObserveChunk(c, outcome) ==
  /\ MeStart(c) /\ MeGo(c, "total") /\ MeSet(c, [outcome |-> outcome])

AddTotal(c) ==
  /\ mePc[c] = "total" /\ meTotal' = meTotal + 1
  /\ IF meCall[c].outcome = "reuse"
     THEN MeGo(c, "reused") /\ MeSet(c, [outcome |-> "reuse", count |-> meTotal'])
     ELSE MeGo(c, "count") /\ UNCHANGED meCall
  /\ UNCHANGED <<meWritten, meSaved, meReused, meExported, meChunkTotal, meRatio, meDedup>>
  /\ MeRest

AddReused(c) ==
  /\ mePc[c] = "reused" /\ MeGo(c, "count")
  /\ meReused' = meReused + 1 /\ meDedup' = <<meReused', meCall[c].count>>
  /\ UNCHANGED <<meCall, meWritten, meSaved, meTotal, meExported, meChunkTotal, meRatio>>
  /\ MeRest

CountChunk(c) ==
  /\ mePc[c] = "count" /\ MeGo(c, "idle") /\ MeSet(c, MeNil)
  /\ meChunkTotal' = [meChunkTotal EXCEPT ![meCall[c].outcome] = @ + 1]
  /\ UNCHANGED <<meWritten, meSaved, meTotal, meReused, meExported, meRatio, meDedup>>
  /\ MeRest

-----------------------------------------------------------------------------
(* Serve.                                                                   *)

MeCancel ==
  /\ meCtx = "live" /\ meCtx' = "done"
  /\ UNCHANGED <<meSrv, meServe, meCloser, meClients, meObservers>>

(* ListenAndServe starts to listen, cannot, or finds the server shut down.  *)
Listen ==
  /\ meServe = "listen" /\ meSrv = "new"
  /\ \/ meSrv' = "listening" /\ UNCHANGED meServe
     \/ meServe' = "err" /\ UNCHANGED meSrv
  /\ UNCHANGED <<meCtx, meCloser, meClients, meObservers>>

(* A Serve that does not wait for its goroutine.                            *)
ListenReturnsNil ==
  /\ meServe = "listen" /\ meSrv = "shutdown"
  /\ meServe' = "nil"
  /\ UNCHANGED <<meCtx, meSrv, meCloser, meClients, meObservers>>

(* ListenAndServe returns ErrServerClosed as soon as Shutdown has begun.    *)
ListenReturns ==
  /\ meServe = "listen" /\ meSrv = "shutdown"
  /\ meServe' = "wait"
  /\ UNCHANGED <<meCtx, meSrv, meCloser, meClients, meObservers>>

(* A goroutine that shuts down a server only if it is listening by then.    *)
ShutdownIfListening ==
  /\ meCloser = "waiting" /\ meCtx = "done" /\ meCloser' = "draining"
  /\ meSrv' = IF meSrv = "listening" THEN "shutdown" ELSE meSrv
  /\ UNCHANGED <<meCtx, meServe, meClients, meObservers>>

(* The goroutine: once the context is done, Shutdown, which takes no new    *)
(* request and waits without limit for the ones being answered.  A Shutdown *)
(* that comes before ListenAndServe still makes that return.                *)
Shutdown ==
  /\ meCloser = "waiting" /\ meCtx = "done"
  /\ meSrv' = "shutdown" /\ meCloser' = "draining"
  /\ UNCHANGED <<meCtx, meServe, meClients, meObservers>>

(* Shutdown returns, and the deferred close(idleClosed).                    *)
ShutdownReturns ==
  /\ meCloser = "draining" /\ meActive = {}
  /\ meCloser' = "closed"
  /\ UNCHANGED <<meCtx, meSrv, meServe, meClients, meObservers>>

ServeReturns ==
  /\ meServe = "wait" /\ meCloser = "closed"
  /\ meServe' = "nil"
  /\ UNCHANGED <<meCtx, meSrv, meCloser, meClients, meObservers>>

(* Clients, and net/http's goroutine for each request: a request is         *)
(* answered at once unless its client stalls, and then whenever the client  *)
(* goes on or away; the server sets no timeout.                             *)
Scrape(k) ==
  /\ meSrv = "listening" /\ k \notin meActive
  /\ meActive' = meActive \cup {k}
  /\ UNCHANGED <<meCtx, meSrv, meServe, meCloser, meStalled, meObservers>>

Stall(k) ==
  /\ k \in meActive \ meStalled
  /\ meStalled' = meStalled \cup {k}
  /\ UNCHANGED <<meCtx, meSrv, meServe, meCloser, meActive, meObservers>>

GoOn(k) ==
  /\ k \in meStalled
  /\ meStalled' = meStalled \ {k}
  /\ UNCHANGED <<meCtx, meSrv, meServe, meCloser, meActive, meObservers>>

Answer(k) ==
  /\ k \in meActive \ meStalled
  /\ meActive' = meActive \ {k}
  /\ UNCHANGED <<meCtx, meSrv, meServe, meCloser, meStalled, meObservers>>

MeServeStep == Listen \/ ListenReturns \/ ServeReturns
MeCloserStep == Shutdown \/ ShutdownReturns
MeAnswer == \E k \in MeClients : Answer(k)

MeObserve ==
  \E c \in MeCallers :
    \/ \E o, z \in MeSizes : ObserveStorageSavings(c, o, z)
    \/ AddWritten(c) \/ AddSaved(c) \/ ExportSaved(c) \/ SetRatio(c)
    \/ \E o \in Outcomes : ObserveChunk(c, o)
    \/ AddTotal(c) \/ AddReused(c) \/ CountChunk(c)

MeEndpoint ==
  \/ MeCancel \/ MeServeStep \/ MeCloserStep \/ MeAnswer
  \/ \E k \in MeClients : Scrape(k) \/ Stall(k) \/ GoOn(k)

MeNext == MeObserve \/ MeEndpoint

(* Serve, its goroutine and those that answer requests are scheduled; no    *)
(* client has to do anything.                                               *)
MeFairness == WF_meVars(MeServeStep) /\ WF_meVars(MeCloserStep) /\ WF_meVars(MeAnswer)

MeSpec == MeInit /\ [][MeNext]_meVars /\ MeFairness

-----------------------------------------------------------------------------
MeIdle(c) == mePc[c] = "idle"

(* At any moment, between any two operations of any callers, no more bytes  *)
(* are counted as saved than as written and no more chunks as reused than   *)
(* as seen, and the exported counters are behind the totals; when no call   *)
(* runs they have caught up: no addition is lost or made twice, however     *)
(* calls overlap.                                                           *)
CountersConsistent ==
  /\ meExported <= meSaved /\ meSaved <= meWritten
  /\ meChunkTotal["reuse"] <= meReused /\ meReused <= meTotal
  /\ (\A c \in MeCallers : MeIdle(c)) =>
       /\ meExported = meSaved
       /\ meChunkTotal["reuse"] = meReused /\ meChunkTotal["new"] = meTotal - meReused

(* "the current savings ratio (0.0 - 1.0)": true of both gauges, and exact  *)
(* of the savings when all callers are idle, as long as no two calls have   *)
(* overlapped; a call that others overtake divides their savings by its     *)
(* older total.  The dedup gauge moves only when a chunk is reused.         *)
RatiosExactAlone ==
  ~meOverlapped =>
    /\ meRatio[1] <= meRatio[2] /\ meDedup[1] <= meDedup[2]
    /\ (\A c \in MeCallers : MeIdle(c)) /\ meWritten > 0 =>
          meRatio = <<meSaved, meWritten>>

(* Once its context is done, Serve returns and its goroutine ends, also     *)
(* when the context was done before the server began to listen, unless some *)
(* client stalls again and again or for good: Shutdown waits for it.        *)
ServeEnds ==
  <>[](meStalled = {}) =>
    (meCtx = "done" ~> (meServe \in {"nil", "err"} /\ meCloser = "closed"))

(* Serve returns nil only when every request it took has been answered, and *)
(* takes none after: a scrape is never cut off by the end of the process    *)
(* that follows.  Rests on waiting for idleClosed.                          *)
NoScrapeCutOff == meServe = "nil" => meActive = {} /\ meSrv = "shutdown"

-----------------------------------------------------------------------------
(* The inductive invariant, in parts.                                       *)

MeTypeOK ==
  /\ mePc \in [MeCallers ->
               {"idle", "add", "saved", "export", "ratio", "total", "reused", "count"}]
  /\ DOMAIN meCall = MeCallers
  /\ \A c \in MeCallers :
       /\ mePc[c] = "add" => /\ meCall[c].original \in Nat /\ meCall[c].saved \in Int
                             /\ meCall[c].saved <= meCall[c].original
       /\ mePc[c] = "saved" => meCall[c].saved \in Int
       /\ mePc[c] = "export" => meCall[c].saved \in Nat \ {0}
       /\ mePc[c] \in {"total", "count"} => meCall[c].outcome \in Outcomes
       /\ mePc[c] = "reused" => meCall[c].outcome = "reuse"
  /\ meWritten \in Nat /\ meSaved \in Nat /\ meTotal \in Nat /\ meReused \in Nat
  /\ meExported \in Nat /\ meChunkTotal \in [Outcomes -> Nat]
  /\ meOverlapped \in BOOLEAN

(* What calls under way have still to add: the bytes saved by those that    *)
(* have added what they wrote but not yet what they saved, and by those     *)
(* that have not yet exported it; the chunks whose reuse, or whose outcome, *)
(* is not yet counted.                                                      *)
BytesAt(pc) == UNION {{c} \X (1..meCall[c].saved) : c \in {d \in MeCallers : mePc[d] = pc}}
Uncounted == BytesAt("saved")
Unexported == BytesAt("export")
Reusing == {c \in MeCallers : mePc[c] = "reused"}
CountingReuse == {c \in MeCallers : mePc[c] = "count" /\ meCall[c].outcome = "reuse"}
CountingNew == {c \in MeCallers : mePc[c] = "count" /\ meCall[c].outcome = "new"}

BytesAccount ==
  /\ IsFiniteSet(Uncounted) /\ meSaved + Cardinality(Uncounted) <= meWritten
  /\ IsFiniteSet(Unexported) /\ meExported + Cardinality(Unexported) = meSaved

ChunksAccount ==
  /\ IsFiniteSet(Reusing) /\ IsFiniteSet(CountingReuse) /\ IsFiniteSet(CountingNew)
  /\ meChunkTotal["reuse"] + Cardinality(CountingReuse) = meReused
  /\ meChunkTotal["new"] + Cardinality(CountingNew) + Cardinality(Reusing)
       = meTotal - meReused

MeAccounts == BytesAccount /\ ChunksAccount

(* While no two calls have overlapped, one call at most runs, and the       *)
(* totals it has read are still the totals.                                 *)
MeAlone ==
  ~meOverlapped =>
    /\ \A c, d \in MeCallers : mePc[c] # "idle" /\ mePc[d] # "idle" => c = d
    /\ \A c \in MeCallers :
         /\ mePc[c] \in {"saved", "export", "ratio"} => meCall[c].written = meWritten
         /\ mePc[c] = "reused" => meCall[c].count = meTotal
    /\ meRatio[1] <= meRatio[2] /\ meDedup[1] <= meDedup[2]
    /\ (\A c \in MeCallers : mePc[c] \notin {"saved", "export", "ratio"}) /\ meWritten > 0 =>
          meRatio = <<meSaved, meWritten>>

MeIndInv == MeTypeOK /\ MeAccounts /\ MeAlone

(* A request is under way only if Serve listened, and the goroutine closes  *)
(* idleClosed only when none is left.                                       *)
MeServeInv ==
  /\ meCloser # "waiting" => meSrv = "shutdown"
  /\ meCloser = "closed" => meActive = {}
  /\ meServe = "nil" => meCloser = "closed"
=============================================================================
