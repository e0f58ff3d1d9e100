------------------------------- MODULE Export -------------------------------
(* The read side of main.go: timeline lists the metadata records of a state *)
(* directory, export restores the newest version of every recorded path up  *)
(* to a moment into an output directory, one file at a time, and stops at   *)
(* its first error.  Sessions may record more between two exports; Pebble's *)
(* lock keeps them out of a running one.                                    *)
EXTENDS Integers, FiniteSets, SequencesExt

CONSTANTS
  ExNames,      \* names without dots and separators
  ExPaths,      \* recorded paths: sequences of ".", "/" and those names
  ExContents,
  Second,       \* clock readings in one second
  ExMaxTick, ExMaxRecords, ExMaxExports,   \* bounds
  Cut,          \* what a write that failed half way leaves in a file
  ExNil

ASSUME SecondAssumption == Second \in Nat \ {0}

VARIABLES
  exRecords,    \* the m: records, each with the content of its c: object
  exStart,      \* the session start record, or ExNil
  exClock,
  exOut,        \* files of the output directory: path -> content
  exDirs,       \* its subdirectories
  exPc,         \* "none" | "stopped" | "write" | "ok" | "error"
  exTarget,     \* the moment asked for, or ExNil when it is an error
  exTodo,       \* records the export has still to write
  exFaulted,    \* an I/O error ended the last export
  exCount       \* exports run so far

exVars ==
  <<exRecords, exStart, exClock, exOut, exDirs, exPc, exTarget, exTodo,
    exFaulted, exCount>>
exStore == <<exRecords, exStart, exClock>>

ExInit ==
  /\ exRecords = {} /\ exStart = ExNil /\ exClock = 0
  /\ exOut = <<>> /\ exDirs = {}
  /\ exPc = "none" /\ exTarget = ExNil /\ exTodo = {}
  /\ exFaulted = FALSE /\ exCount = 0

-----------------------------------------------------------------------------
(* Where a recorded path goes.                                              *)

Drop(s, n) == SubSeq(s, n + 1, Len(s))

TrimPrefix(s, prefix) ==
  IF IsPrefix(prefix, s) THEN Drop(s, Len(prefix)) ELSE s

(* A cleanPath that removes one leading ".." only.                          *)
StripOneUp(path) == TrimPrefix(TrimPrefix(path, <<".", ".">>), <<"/">>)

(* The loop of cleanPath: while the path starts with "..", remove it and a  *)
(* separator after it.                                                      *)
StripUp(path) ==
  LET strip[s \in Suffixes(path)] ==
        IF IsPrefix(<<".", ".">>, s)
        THEN strip[TrimPrefix(Drop(s, 2), <<"/">>)]
        ELSE s
  IN  strip[path]

(* Recorded paths come from filepath.Rel, so filepath.Clean leaves them.    *)
CleanPath(path) ==
  LET clean == StripUp(TrimPrefix(path, <<"/">>))
  IN  IF clean = <<".">> THEN <<"root">> ELSE clean

(* filepath.Join(outDir, relPath), relative to outDir: it cleans again.     *)
Dest(path) == TrimPrefix(CleanPath(path), <<".", "/">>)

Chars == ExNames \cup {".", "/", "root"}

(* What filepath.Rel gives for a file below the watched root: no empty      *)
(* component after a separator, no separator at the end, and no ".." after  *)
(* one.                                                                     *)
InTree(path) ==
  /\ path \in Seq(Chars)
  /\ \A i \in DOMAIN path : path[i] = "/" =>
       LET rest == Drop(path, i) \o <<"/">>
       IN  ~IsPrefix(<<"/">>, rest) /\ ~IsPrefix(<<".", ".", "/">>, rest)

ASSUME PathAssumption == \A path \in ExPaths : InTree(path)

Parents(dest) == {SubSeq(dest, 1, i - 1) : i \in {j \in DOMAIN dest : dest[j] = "/"}}

-----------------------------------------------------------------------------
(* Which version of a path is restored.                                     *)

(* The command line's --time: latest, an offset, a moment, or not a time.   *)
TimeArgs ==
  {[kind |-> "latest"], [kind |-> "invalid"]}
    \cup [kind : {"offset", "moment"}, at : 0..ExMaxTick]

ParseTargetTime(arg) ==
  CASE arg.kind = "latest" -> exClock
    [] arg.kind = "offset" -> IF exStart = ExNil THEN ExNil ELSE exStart + arg.at
    [] arg.kind = "moment" -> arg.at
    [] arg.kind = "invalid" -> ExNil

(* The comparison of loadMetadataAt the wrong way round.                    *)
KeepOldest(meta, records) ==
  IF \E prev \in records : prev.path = meta.path /\ prev.ts <= meta.ts
  THEN records
  ELSE {r \in records : r.path # meta.path} \cup {meta}

(* One record of the loop of loadMetadataAt that is not after the cutoff.   *)
KeepNewest(meta, records) ==
  IF \E prev \in records : prev.path = meta.path /\ prev.ts >= meta.ts
  THEN records
  ELSE {r \in records : r.path # meta.path} \cup {meta}

LoadMetadataAt(target) ==
  FoldSet(KeepNewest, {}, {r \in exRecords : r.ts <= target})

(* A line of timeline: the record and the offset printed for it, in whole   *)
(* minutes and seconds.                                                     *)
Timeline ==
  IF exStart = ExNil THEN {}
  ELSE {[rec |-> r,
         offset |-> LET duration == IF r.ts < exStart THEN 0 ELSE r.ts - exStart
                    IN  (duration \div Second) * Second] : r \in exRecords}

-----------------------------------------------------------------------------
(* What the recorder leaves in the state directory: a session start and     *)
(* records with increasing timestamps.                                      *)

Resting == exPc \in {"stopped", "ok", "error"}

ExRecorded(ts) ==
  /\ ts > exClock /\ exClock' = ts
  /\ exPc' = "stopped" /\ exTarget' = ExNil /\ exFaulted' = FALSE
  /\ UNCHANGED <<exOut, exDirs, exTodo, exCount>>

(* A session begins: recordSessionStart keeps the start on record if it can *)
(* read one, and writes its own otherwise, if that write succeeds.  So the  *)
(* start on record may be later than records of earlier sessions.           *)
ExRecordSession(ts) ==
  /\ exPc = "none" \/ Resting
  /\ ExRecorded(ts)
  /\ exStart' \in {exStart, ts}
  /\ UNCHANGED exRecords

ExRecordVersion(path, data, ts) ==
  /\ Resting /\ Cardinality(exRecords) < ExMaxRecords
  /\ ExRecorded(ts)
  /\ exRecords' = exRecords \cup {[path |-> path, ts |-> ts, data |-> data]}
  /\ UNCHANGED exStart

-----------------------------------------------------------------------------
(* runExport.                                                               *)

Fail(fault) ==
  /\ exPc' = "error" /\ exTodo' = {} /\ exFaulted' = fault

(* Create the output directory, open the store, choose the records.         *)
ExBegin(arg) ==
  /\ Resting /\ exCount < ExMaxExports /\ exCount' = exCount + 1
  /\ exTarget' = ParseTargetTime(arg)
  /\ \/ Fail(TRUE)
     \/ exTarget' = ExNil /\ Fail(FALSE)
     \/ /\ exTarget' # ExNil
        /\ exPc' = "write" /\ exTodo' = LoadMetadataAt(exTarget')
        /\ exFaulted' = FALSE
  /\ UNCHANGED <<exStore, exOut, exDirs>>

(* An os.Mkdir in place of os.MkdirAll: it fails on a directory too.        *)
ParentExists(dest) == \E p \in Parents(dest) : p \in DOMAIN exOut \cup exDirs

(* os.MkdirAll meets a file.                                                *)
ParentIsFile(dest) == \E p \in Parents(dest) : p \in DOMAIN exOut

(* os.WriteFile is asked to write a directory.                              *)
IsDirectory(dest) == dest = <<>> \/ dest \in exDirs

(* The directories that os.MkdirAll makes before it stops or is done.       *)
MadeBy(dest) == {p \in Parents(dest) : ~ParentIsFile(p) /\ p \notin DOMAIN exOut}

SetFile(dest, data) ==
  exOut' = [d \in DOMAIN exOut \cup {dest} |-> IF d = dest THEN data ELSE exOut[d]]

(* The output directory's contents do not let this path be written.         *)
ExBlocked(r) ==
  LET dest == Dest(r.path)
  IN  /\ exPc = "write" /\ r \in exTodo
      /\ ParentIsFile(dest) \/ IsDirectory(dest)
      /\ Fail(FALSE) /\ exDirs' = exDirs \cup MadeBy(dest)
      /\ UNCHANGED <<exStore, exOut, exTarget, exCount>>

(* One turn of the loop over the chosen records, in any order (a Go map).   *)
ExWriteFile(r) ==
  LET dest == Dest(r.path)
  IN  /\ exPc = "write" /\ r \in exTodo
      /\ ~ParentIsFile(dest) /\ ~IsDirectory(dest)
      /\ exDirs' = exDirs \cup MadeBy(dest)
      /\ SetFile(dest, r.data)
      /\ exTodo' = exTodo \ {r}
      /\ UNCHANGED <<exStore, exPc, exTarget, exFaulted, exCount>>

(* Reading the object fails, or writing the file does after truncating it.  *)
ExWriteFails(r) ==
  LET dest == Dest(r.path)
  IN  /\ exPc = "write" /\ r \in exTodo
      /\ Fail(TRUE)
      /\ \/ UNCHANGED <<exOut, exDirs>>
         \/ /\ ~ParentIsFile(dest) /\ ~IsDirectory(dest)
            /\ exDirs' = exDirs \cup MadeBy(dest) /\ SetFile(dest, Cut)
      /\ UNCHANGED <<exStore, exTarget, exCount>>

ExFinish ==
  /\ exPc = "write" /\ exTodo = {}
  /\ exPc' = "ok"
  /\ UNCHANGED <<exStore, exOut, exDirs, exTarget, exTodo, exFaulted, exCount>>

ExNext ==
  \/ \E t \in 1..ExMaxTick : ExRecordSession(t)
  \/ \E p \in ExPaths, d \in ExContents, t \in 1..ExMaxTick : ExRecordVersion(p, d, t)
  \/ \E arg \in TimeArgs : ExBegin(arg)
  \/ \E r \in exTodo : ExWriteFile(r) \/ ExBlocked(r) \/ ExWriteFails(r)
  \/ ExFinish

ExSpec == ExInit /\ [][ExNext]_exVars

-----------------------------------------------------------------------------
(* What each recorded path held at a moment.                                *)
HeldAt(t) ==
  {r \in exRecords : r.ts <= t /\ \A s \in exRecords :
                       s.path = r.path /\ s.ts <= t => s.ts <= r.ts}

(* README: "inspect files exactly as they existed at that moment".  When    *)
(* export succeeds, every recorded path that shares its destination with no *)
(* other holds its version of the moment asked for, whatever the directory  *)
(* held before, and an output directory that was empty holds nothing else.  *)
ExportIsTheMoment ==
  exPc = "ok" =>
    LET held == HeldAt(exTarget)
        Dests == {Dest(r.path) : r \in held}
        Alone(r) == \A s \in held : Dest(s.path) = Dest(r.path) => s = r
    IN  /\ Dests \subseteq DOMAIN exOut
        /\ \A r \in held : Alone(r) => exOut[Dest(r.path)] = r.data
        /\ exCount = 1 => DOMAIN exOut = Dests

(* Whatever fails and however often export is run into one directory, a     *)
(* file in it is a version some record holds for its path, whole, unless a  *)
(* write of it failed half way; and no file lies outside the directory.     *)
EveryFileIsAVersion ==
  \A d \in DOMAIN exOut :
    /\ exOut[d] = Cut \/ \E r \in exRecords : Dest(r.path) = d /\ r.data = exOut[d]
    /\ d # <<>> /\ d[1] # "/" /\ ~IsPrefix(<<".", ".", "/">>, d \o <<"/">>)

(* With no I/O error, export fails only on a time it cannot use or because  *)
(* the records themselves clash: one path's file is another's directory (a  *)
(* file that was replaced by a directory; removals are not recorded) or its *)
(* name is nothing but dots.                                                *)
FailsOnlyOnClash ==
  exPc = "error" /\ ~exFaulted /\ exTarget # ExNil =>
    \E r, s \in exRecords : Dest(r.path) \in Parents(Dest(s.path)) \cup {<<>>}

(* README: timeline lists the writes "to pick the exact second to rewind":  *)
(* an export at the offset that timeline prints for a write restores that   *)
(* write or a later one of the same path.                                   *)
TimelinePickRestores ==
  \A line \in Timeline :
    exPc = "ok" /\ exTarget = exStart + line.offset =>
      \E r \in HeldAt(exTarget) : r.path = line.rec.path /\ r.ts >= line.rec.ts

(* What timeline is good for all the same: an export one second after the   *)
(* offset that it prints for a write restores that write or a later one of  *)
(* the same path, also for a write from before the session start on record. *)
NextSecondRestores ==
  \A line \in Timeline :
    exPc = "ok" /\ exTarget = exStart + line.offset + Second =>
      \E r \in HeldAt(exTarget) : r.path = line.rec.path /\ r.ts >= line.rec.ts

(* What export restores for a moment that is past never changes again, with *)
(* any number of sessions and exports after it.                             *)
PastMomentsFixed ==
  [][\A t \in 0..exClock : HeldAt(t)' = HeldAt(t)]_exVars

-----------------------------------------------------------------------------
(* The inductive invariant, in parts.                                       *)

(* The store: the records come from the recorder, in the order of its clock. *)
ExStoreOK ==
  /\ IsFiniteSet(exRecords)
  /\ exRecords \subseteq [path : ExPaths, ts : Int, data : ExContents]
  /\ exClock \in Int /\ exStart \in Int \cup {ExNil}
  /\ exPc = "none" => exRecords = {}
  /\ \A r \in exRecords : r.ts <= exClock
  /\ \A r, s \in exRecords : r.ts = s.ts => r = s

(* The output directory: what is in it was put there for some record.       *)
ExFilesOK ==
  /\ exTodo \subseteq exRecords
  /\ \A d \in DOMAIN exOut :
       /\ d # <<>>
       /\ \E r \in exRecords : Dest(r.path) = d
       /\ exOut[d] = Cut \/ \E r \in exRecords : Dest(r.path) = d /\ r.data = exOut[d]
  /\ \A p \in exDirs : \E r \in exRecords : p \in Parents(Dest(r.path))
  /\ exCount \in Nat
  /\ exCount = 0 => DOMAIN exOut = {}

(* A running or finished export: the records it has written of those that   *)
(* are to be restored.                                                      *)
ExProgress ==
  exPc \in {"write", "ok"} =>
    LET held == HeldAt(exTarget)
        done == held \ exTodo
    IN  /\ exTodo \subseteq held
        /\ exPc = "ok" => exTodo = {}
        /\ exCount > 0
        /\ \A r \in done :
             /\ Dest(r.path) \in DOMAIN exOut
             /\ (\A s \in held : Dest(s.path) = Dest(r.path) => s = r)
                  => exOut[Dest(r.path)] = r.data
        /\ exCount = 1 => \A d \in DOMAIN exOut : \E r \in done : Dest(r.path) = d

ExIndInv == ExStoreOK /\ ExFilesOK /\ ExProgress /\ FailsOnlyOnClash
=============================================================================
