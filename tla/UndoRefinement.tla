--------------------------- MODULE UndoRefinement ---------------------------
(* The linked log of Undo implements the command stack of UndoStack.       *)
EXTENDS Undo

\* The events of the command that the delimiter d ends.
CommandOf(d) == {e \in Events : e < d /\ \A c \in Delims : c < d => c < e}
Commands(ds) == {CommandOf(d) : d \in ds}

\* Once undoFreeHead runs, all but the LOWCOMMANDS newest are as good as gone.
Newer(d) == {c \in Delims : d < c}
Kept ==
  IF pc \in {"freeHead", "freeDelim"}
  THEN {d \in Delims : Cardinality(Newer(d)) < LOWCOMMANDS}
  ELSE {d \in Delims : d <= undoLogCur}
\* Once PlowRandomTest has taken back part of a command nothing is promised
\* until the log is flushed: for the stack, everything is forgotten then.
Promised == ~tested /\ pc # "flush"
doneBar == IF Promised THEN Commands(Kept) ELSE {}

\* UndoNewEvent counts from its start, before it has truncated and linked.
Recorded ==
  {e \in Events : e <= undoLogCur /\ \A d \in Delims : d <= undoLogCur => d < e}
Arriving == IF pc \in {"truncate", "link"} THEN {iup} ELSE {}
openBar == IF Promised THEN Recorded \cup Arriving ELSE {}

undoneBar ==
  IF Promised /\ pc \notin {"truncate", "link"}
  THEN Commands({d \in Delims : undoLogCur < d}) ELSE {}

Stack == INSTANCE UndoStack WITH
  done <- doneBar, open <- openBar, undone <- undoneBar,
  EventId <- 1..MaxNode

(* Undo implements UndoStack: a routine's many steps amount to one change of *)
(* the command stack, at the moment UndoNewEvent and UndoNext are called and  *)
(* at the return of UndoBackward and UndoForward.  An undo in the middle of a *)
(* command, which only PlowRandomTest makes, ends the promise until the next  *)
(* flush.                                                                     *)
ImplementsStack == Stack!StackSpec

-----------------------------------------------------------------------------
\* What the proof adds to the invariant of the log: how far a playing routine
\* has come, and what its count means in the middle of a command.
PlayBounds ==
  /\ pc \in {"backTest", "back"} => iup <= undoLogCur
  /\ pc \in {"forwTest", "forw"} => undoLogCur < iup
TakenBack == {d \in Delims : iup < d /\ d <= undoLogCur}
Replayed == {d \in Delims : undoLogCur < d /\ d <= iup}
PlayCounts ==
  /\ pc = "backTest" => count = Cardinality(TakenBack)
  /\ (pc = "back" /\ iup \in Delims) => count = Cardinality(TakenBack)
  /\ (pc = "back" /\ iup \notin Delims) => count + 1 = Cardinality(TakenBack)
  /\ pc \in {"forwTest", "forw"} => count = Cardinality(Replayed)
  /\ pc = "forwBreak" => count = Cardinality({d \in Delims : undoLogCur < d})
LowWaterMark == pc = "freeDelim" => undoNumCommands = LOWCOMMANDS
CommandInv == ~tested => PlayBounds /\ PlayCounts /\ LowWaterMark

=============================================================================
