--------------------------- MODULE VersionHistory ---------------------------
(***************************************************************************)
(* What the recording pipeline promises, with no database, no processor and *)
(* no session in sight: a version that was accepted is published exactly    *)
(* once and stays published, or a crash takes it before it is published,    *)
(* and then every version accepted after it as well.                        *)
(***************************************************************************)
EXTENDS Integers

CONSTANT Versions  \* versions of files, each with a timestamp ts

VARIABLES
  pending,  \* accepted and not yet visible to export and timeline
  history,  \* visible to export and timeline
  lost      \* taken by a crash

vars == <<pending, history, lost>>

Init == pending = {} /\ history = {} /\ lost = {}

Accept(v) ==
  /\ v \notin pending \cup history \cup lost
  /\ pending' = pending \cup {v}
  /\ UNCHANGED <<history, lost>>

Publish(v) ==
  /\ v \in pending
  /\ pending' = pending \ {v}
  /\ history' = history \cup {v}
  /\ UNCHANGED lost

(* A crash loses the versions accepted from time t on, none of which is     *)
(* published.                                                               *)
LoseFrom(t) ==
  /\ \A v \in history : v.ts < t
  /\ pending' = {v \in pending : v.ts < t}
  /\ lost' = lost \cup {v \in pending : v.ts >= t}
  /\ UNCHANGED history

Next ==
  \/ \E v \in Versions : Accept(v) \/ Publish(v)
  \/ \E v \in pending : LoseFrom(v.ts)

Spec == Init /\ [][Next]_vars

=============================================================================
