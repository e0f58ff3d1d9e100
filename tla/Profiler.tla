------------------------------ MODULE Profiler ------------------------------
(* pkg/ebpf/profiler.go: writes are counted per path, and every interval    *)
(* the counts are folded into an exponential moving average whose high      *)
(* values are handed to the eBPF manager as hot paths.  Record, Flush and   *)
(* the ticker of Run all hold the profiler's mutex, the call of the sink    *)
(* included, so each is one step.  Floating point is exact here: estimates  *)
(* are kept in units of 1/PrScale.  No command starts a profiler.           *)
EXTENDS Integers

CONSTANTS
  PrPaths,
  AlphaNum, AlphaDen,     \* alpha = AlphaNum / AlphaDen
  PrThreshold,
  PrScale,                \* AlphaDen^PrMaxFlushes, so that division is exact
  PrMaxCount, PrMaxFlushes,   \* bounds: writes in one window, windows
  PrNil

(* EBPFConfig.Validate: alpha lies between 0 and 1, the threshold is not    *)
(* negative.                                                                *)
ASSUME PrConstants ==
  /\ AlphaNum \in Nat \ {0} /\ AlphaDen \in Nat /\ AlphaNum < AlphaDen
  /\ PrThreshold \in Nat /\ PrScale \in Nat \ {0}
  /\ PrMaxCount \in Nat /\ PrMaxFlushes \in Nat
  /\ PrNil \notin Nat

VARIABLES
  prSamples,      \* path -> writes in this window
  prEstimates,    \* path -> average, or PrNil if never folded
  prHot,          \* the manager's hotPaths: path -> score, or PrNil
  prPeak,         \* history: the most writes of a path in one folded window
  prFlushes

prVars == <<prSamples, prEstimates, prHot, prPeak, prFlushes>>

PrInit ==
  /\ prSamples = [p \in PrPaths |-> 0]
  /\ prEstimates = [p \in PrPaths |-> PrNil]
  /\ prHot = [p \in PrPaths |-> PrNil]
  /\ prPeak = [p \in PrPaths |-> 0]
  /\ prFlushes = 0

Record(p) ==
  /\ prSamples[p] < PrMaxCount
  /\ prSamples' = [prSamples EXCEPT ![p] = @ + 1]
  /\ UNCHANGED <<prEstimates, prHot, prPeak, prFlushes>>

Prev(p) == IF prEstimates[p] = PrNil THEN 0 ELSE prEstimates[p]

(* A moving average that adds to the previous value without damping it.     *)
FoldUndamped(p) ==
  (AlphaNum * prSamples[p] * PrScale + AlphaDen * Prev(p)) \div AlphaDen

(* current = alpha*count + (1-alpha)*prev                                   *)
Fold(p) ==
  (AlphaNum * prSamples[p] * PrScale + (AlphaDen - AlphaNum) * Prev(p)) \div AlphaDen

IsHot(score) == score >= PrThreshold * PrScale

(* A sink that keeps the first score it was given for a path.               *)
ApplyOnce(scores) ==
  prHot' = [p \in PrPaths |->
              IF scores[p] # PrNil /\ prHot[p] = PrNil THEN scores[p] ELSE prHot[p]]

ApplyHotPathHints(scores) ==
  prHot' = [p \in PrPaths |-> IF scores[p] # PrNil THEN scores[p] ELSE prHot[p]]

(* Only the paths with samples in this window are touched: the estimate of  *)
(* a path that is no longer written stays as it is, and so does its score.  *)
Flush ==
  LET sampled(p) == prSamples[p] > 0
      hint(p) == sampled(p) /\ IsHot(Fold(p))
  IN  /\ prFlushes < PrMaxFlushes /\ prFlushes' = prFlushes + 1
      /\ prEstimates' = [p \in PrPaths |-> IF sampled(p) THEN Fold(p) ELSE prEstimates[p]]
      /\ ApplyHotPathHints([p \in PrPaths |-> IF hint(p) THEN Fold(p) ELSE PrNil])
      /\ prPeak' = [p \in PrPaths |->
                      IF prSamples[p] > prPeak[p] THEN prSamples[p] ELSE prPeak[p]]
      /\ prSamples' = [p \in PrPaths |-> 0]

PrNext == Flush \/ \E p \in PrPaths : Record(p)

PrSpec == PrInit /\ [][PrNext]_prVars

-----------------------------------------------------------------------------
PrTypeOK ==
  /\ prSamples \in [PrPaths -> Nat]
  /\ prEstimates \in [PrPaths -> Nat \cup {PrNil}]
  /\ prHot \in [PrPaths -> Nat \cup {PrNil}]
  /\ prPeak \in [PrPaths -> Nat]
  /\ prFlushes \in Nat

(* A path's estimate never exceeds its busiest window, so a path is hot     *)
(* only if some window really had the threshold's number of writes.         *)
HotOnlyIfBusy ==
  \A p \in PrPaths :
    /\ prEstimates[p] # PrNil => prEstimates[p] <= prPeak[p] * PrScale
    /\ prHot[p] # PrNil => prPeak[p] >= PrThreshold

(* The manager's score of a path is its current estimate whenever that is   *)
(* at the threshold, and never a value below the threshold; a path that has *)
(* cooled down keeps the last score it was hot with.                        *)
HintsFollowEstimates ==
  \A p \in PrPaths :
    /\ prEstimates[p] # PrNil /\ IsHot(prEstimates[p]) => prHot[p] = prEstimates[p]
    /\ prHot[p] # PrNil => IsHot(prHot[p]) /\ prEstimates[p] # PrNil
=============================================================================
