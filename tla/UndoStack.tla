----------------------------- MODULE UndoStack ------------------------------
(***************************************************************************)
(* What Magic's undo package promises its clients and its users            *)
(* (src/sw/magic/utils/undo.c): edits are grouped into commands, `undo k'  *)
(* takes back the k newest commands that are done, `redo k' replays the k  *)
(* oldest that are undone, a new edit gives up what could be redone, and   *)
(* only the oldest commands are ever forgotten.                            *)
(*                                                                         *)
(* An event is a number, larger than that of every earlier event; a        *)
(* command is the set of its events.                                       *)
(***************************************************************************)
EXTENDS Integers, FiniteSets

CONSTANTS MAXCOMMANDS, LOWCOMMANDS, EventId, MaxCount
VARIABLES
  done,    \* the commands the layout shows
  open,    \* the events of the command being run
  undone   \* the commands taken back, which can still be redone

stackVars == <<done, open, undone>>

Older(c, d) == \A e \in c : \A f \in d : e < f
\* The k newest and the k oldest of a set of commands (all of it, if smaller).
Newest(S, k) == {c \in S : Cardinality({d \in S : d # c /\ Older(c, d)}) < k}
Oldest(S, k) == {c \in S : Cardinality({d \in S : d # c /\ Older(d, c)}) < k}

StackInit == done = {} /\ open = {} /\ undone = {}

Fresh(e) == \A f \in (UNION (done \cup undone)) \cup open : f < e

RecordEvent(e) ==
  /\ Fresh(e)
  /\ open' = open \cup {e} /\ undone' = {} /\ done' = done

CloseCommand ==
  /\ open # {}
  /\ LET all == done \cup {open}
     IN done' = IF Cardinality(all) >= MAXCOMMANDS
                THEN Newest(all, LOWCOMMANDS) ELSE all
  /\ open' = {} /\ undone' = undone

UndoCommands(k) ==
  /\ open = {}
  /\ done' = done \ Newest(done, k)
  /\ undone' = undone \cup Newest(done, k)
  /\ open' = open

RedoCommands(k) ==
  /\ open = {}
  /\ done' = done \cup Oldest(undone, k)
  /\ undone' = undone \ Oldest(undone, k)
  /\ open' = open

ForgetAll == done' = {} /\ open' = {} /\ undone' = {}

StackNext ==
  \/ \E e \in EventId : RecordEvent(e)
  \/ CloseCommand \/ ForgetAll
  \/ \E k \in 1..MaxCount : UndoCommands(k) \/ RedoCommands(k)

StackSpec == StackInit /\ [][StackNext]_stackVars

-----------------------------------------------------------------------------
\* The commands shown are older than those undone and than the open one, an
\* open command leaves nothing to redo, and the stack is bounded.
StackOrdered ==
  /\ \A c \in done : \A d \in undone \cup {open} : Older(c, d)
  /\ open # {} => undone = {}
  /\ {} \notin done \cup undone
  /\ Cardinality(done \cup undone) <= MAXCOMMANDS

=============================================================================
