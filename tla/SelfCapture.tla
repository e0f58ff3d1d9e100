----------------------------- MODULE SelfCapture ----------------------------
(* record with a state directory that may lie below the watched one, as in  *)
(* the repository's demo: a commit to the database then changes a watched   *)
(* file.  Of a file the model keeps whether the command or the database     *)
(* writes it; module Recorder has the steps inside a commit.                *)
EXTENDS Integers, Sequences, SequencesExt

CONSTANTS ScMaxJournal, ScNil    \* bound on the journal's entries, and "nothing"

ScFiles == {"command", "database"}

ASSUME ScNilAssumption == ScNil \notin ScFiles

VARIABLES
  scInside,     \* the state directory is below the watched directory
  scBad,        \* the files whose content the processor can never store
  scRunning,    \* the command runs
  scWrote,      \* it has written to a watched file
  scEvents,     \* files with an event the watcher has not received
  scHand,       \* the file the watcher handles, or ScNil
  scJournal,    \* the files of the journal's entries, oldest first
  scListed,     \* the files timeline lists
  scDropped     \* history: a file with an event could not be read or logged

scSetting == <<scInside, scBad>>
scVars == <<scSetting, scRunning, scWrote, scEvents, scHand, scJournal, scListed, scDropped>>

ScInit ==
  /\ scInside \in BOOLEAN /\ scBad \in SUBSET ScFiles
  /\ scRunning = TRUE /\ scWrote = FALSE /\ scEvents = {} /\ scHand = ScNil
  /\ scJournal = <<>> /\ scListed = {} /\ scDropped = FALSE

(* A walk that leaves out the state directory.                              *)
SkipStateDir(file) == file = "command"

(* runRecord opens the database before addWatchRecursive walks the watched  *)
(* directory, so the state directory is there and is watched if it is below.*)
Watched(file) == file = "command" \/ scInside

(* A write to a file raises an event if its directory is watched.           *)
ScNotify(file) == scEvents' = IF Watched(file) THEN scEvents \cup {file} ELSE scEvents

ScCommandWrites ==
  /\ scRunning /\ scWrote' = TRUE
  /\ ScNotify("command")
  /\ UNCHANGED <<scSetting, scRunning, scHand, scJournal, scListed, scDropped>>

ScCommandEnds ==
  /\ scRunning /\ scRunning' = FALSE
  /\ UNCHANGED <<scSetting, scWrote, scEvents, scHand, scJournal, scListed, scDropped>>

-----------------------------------------------------------------------------
(* The watcher's goroutine.                                                 *)

ScReceive(file) ==
  /\ scHand = ScNil /\ file \in scEvents
  /\ scHand' = file /\ scEvents' = scEvents \ {file}
  /\ UNCHANGED <<scSetting, scRunning, scWrote, scJournal, scListed, scDropped>>

(* os.ReadFile or journal.LogEvent fails; either error is ignored.          *)
ScDrop ==
  /\ scHand # ScNil /\ scHand' = ScNil /\ scDropped' = TRUE
  /\ UNCHANGED <<scSetting, scRunning, scWrote, scEvents, scJournal, scListed>>

(* journal.LogEvent commits the content it read.                            *)
ScLogEvent ==
  /\ scHand # ScNil /\ Len(scJournal) < ScMaxJournal
  /\ scJournal' = Append(scJournal, scHand) /\ scHand' = ScNil
  /\ ScNotify("database")
  /\ UNCHANGED <<scSetting, scRunning, scWrote, scListed, scDropped>>

ScWatcher == ScDrop \/ ScLogEvent \/ \E f \in scEvents : ScReceive(f)

-----------------------------------------------------------------------------
(* The processor.                                                           *)

ScProcessed(i) ==
  /\ scJournal[i] \notin scBad
  /\ scListed' = scListed \cup {scJournal[i]}
  /\ ScNotify("database")
  /\ UNCHANGED <<scSetting, scRunning, scWrote, scHand, scDropped>>

(* A processor that leaves the entry in the journal.                        *)
ProcessKeepsEntry ==
  \E i \in DOMAIN scJournal : ScProcessed(i) /\ UNCHANGED scJournal

(* processJournalEntry commits the object, the record and the deletion; the *)
(* entries before it have failed and stay in the journal.                   *)
ScProcess ==
  \E i \in DOMAIN scJournal : ScProcessed(i) /\ scJournal' = RemoveAt(scJournal, i)

(* processJournalEntry fails after it has committed the object, or also the *)
(* record: the entry stays for the next pass.  A failure before the first   *)
(* commit, as every one of a bad entry is, changes nothing.                 *)
ScProcessFails ==
  /\ \E i \in DOMAIN scJournal :
       /\ scJournal[i] \notin scBad
       /\ scListed' \in {scListed, scListed \cup {scJournal[i]}}
  /\ ScNotify("database")
  /\ UNCHANGED <<scSetting, scRunning, scWrote, scHand, scJournal, scDropped>>

ScNext == ScCommandWrites \/ ScCommandEnds \/ ScWatcher \/ ScProcess \/ ScProcessFails

(* The scheduler runs both goroutines, and what can be stored is stored in  *)
(* some pass, since each tries again what is left; the command need not     *)
(* write or end.                                                            *)
ScSpec == ScInit /\ [][ScNext]_scVars /\ WF_scVars(ScWatcher) /\ WF_scVars(ScProcess)

-----------------------------------------------------------------------------
AtRest == scEvents = {} /\ scHand = ScNil /\ scJournal = <<>>

(* Only entries are left that can never be stored, and nothing else to do,  *)
(* or the model's journal is full of such entries.                          *)
BadOnly == \A i \in DOMAIN scJournal : scJournal[i] \in scBad
Settles == BadOnly /\ ((scEvents = {} /\ scHand = ScNil) \/ Len(scJournal) = ScMaxJournal)

(* With the state directory elsewhere, watcher and processor come to rest   *)
(* once the command has ended, however long it wrote: their own commits     *)
(* give them no new work, and an entry that fails for ever holds up none of *)
(* the others.                                                              *)
CatchesUp == ~scRunning ~> (scInside \/ Settles)

(* With the state directory below the watched one they never do: after the  *)
(* command's first write there is always an event, an entry or a commit     *)
(* left that follows from an earlier commit, even if the command sleeps or  *)
(* has ended, unless reading or logging a changed file fails.               *)
NeverRestsInside == scInside /\ scWrote /\ ~scDropped => ~AtRest

(* quickstart.md: with "record --state-dir=./trace", below the watched      *)
(* directory, timeline lists the command's three writes and no others.      *)
TimelineIsTheCommands == scListed \subseteq {"command"}

ScIndInv ==
  /\ scEvents \subseteq ScFiles /\ scHand \in ScFiles \cup {ScNil}
  /\ scJournal \in Seq(ScFiles) /\ scWrote \in BOOLEAN /\ scDropped \in BOOLEAN
  /\ NeverRestsInside
=============================================================================
