-------------------------------- MODULE Undo --------------------------------
(***************************************************************************)
(* Magic's undo package, src/sw/magic/utils/undo.c, in the Tcl build       *)
(* (MAGIC_WRAPPER): a doubly linked log of events cut into commands by     *)
(* UT_DELIM nodes, a cursor that `undo' and `redo' move, and the nodes'    *)
(* life in the allocator of src/sw/magic/utils/malloc.c, whose freeMagic   *)
(* really releases a block only at the next call.                          *)
(*                                                                         *)
(* Addresses are positive integers, handed out in increasing order and     *)
(* never twice; NULL is 0.  Every loop of the code runs one iteration per  *)
(* step, so that what it reads of a node it has just freed is visible.     *)
(***************************************************************************)
EXTENDS Integers, FiniteSets

CONSTANTS
  MAXCOMMANDS,  \* undo.c: start freeing the oldest commands at this many
  LOWCOMMANDS,  \* undo.c: and stop when this many are left
  MaxNode,      \* bound: addresses the allocator may hand out
  MaxCount,     \* bound: the count given to `undo' and `redo'
  MaxDisable    \* bound: nesting of UndoDisable by the clients

\* "LOWCOMMANDS must be > 0" is what undo.c asks beside its definition.
ASSUME LimitsAssumption ==
  /\ MAXCOMMANDS \in Nat /\ LOWCOMMANDS \in Nat
  /\ LOWCOMMANDS > 0 /\ MAXCOMMANDS >= LOWCOMMANDS
ASSUME BoundsAssumption ==
  MaxNode \in Nat /\ MaxCount \in Nat \ {0} /\ MaxDisable \in Nat

VARIABLES
  node,                 \* allocated block |-> its internalUndoEvent
  freeDelayedItem,      \* malloc.c: freed, not yet returned to the system
  lastNode,             \* highest address handed out so far
  undoLogHead, undoLogTail, undoLogCur,
  undoNumRecentEvents, undoNumCommands, UndoDisableCount,
  pc,                   \* where the one running routine is; "idle" if none
  iup, up,              \* the routine's node pointers
  n, count,             \* commands asked for and played so far
  world,                \* events whose effect the layout currently shows
  tested                \* ghost: PlowRandomTest took back part of a command
                        \* since the log was last flushed

heapVars == <<node, freeDelayedItem, lastNode>>
countVars == <<undoNumRecentEvents, undoNumCommands, UndoDisableCount>>
playVars == <<n, count>>
vars == <<node, freeDelayedItem, lastNode, undoLogHead, undoLogTail,
          undoLogCur, undoNumRecentEvents, undoNumCommands, UndoDisableCount,
          pc, iup, up, n, count, world, tested>>

NULL == 0
\* What reading a pointer out of memory returned to the system gives.
WILD == -1
Addr == Nat \ {0}
Pointer == Nat \cup {WILD}
UT_DELIM == "UT_DELIM"
\* The event types of all clients (UndoAddClient) behave alike here.
CLIENT == "client"
Event == [type : {UT_DELIM, CLIENT}, back : Pointer, forw : Pointer]

Heap == DOMAIN node
IsDelim(heap, p) == p \in DOMAIN heap /\ heap[p].type = UT_DELIM
Forw(heap, p) == IF p \in DOMAIN heap THEN heap[p].forw ELSE WILD
Back(heap, p) == IF p \in DOMAIN heap THEN heap[p].back ELSE WILD

\* The heap once the block freed last is really returned to the system.
Reclaimed(heap, item) == [p \in DOMAIN heap \ {item} |-> heap[p]]
\* mallocMagic: releases the delayed block, then hands out a new one, e.
mallocMagic(e) ==
  [p \in (Heap \ {freeDelayedItem}) \cup {lastNode + 1} |->
     IF p = lastNode + 1 THEN e ELSE node[p]]
\* freeMagic(p): the heap after it; p itself is only remembered as delayed.
freeMagic_AtOnce(p) == Reclaimed(Reclaimed(node, freeDelayedItem), p)
freeMagic(p) == Reclaimed(node, freeDelayedItem)

\* undoGetForw, undoGetBack: the neighbours in the log; NULL is before its head.
undoGetForw(p) == IF p = NULL THEN undoLogHead ELSE Forw(node, p)
undoGetBack_HeadAgain(p) ==
  IF p \in {NULL, undoLogHead} THEN undoLogHead ELSE Back(node, p)
undoGetBack(p) == IF p = NULL THEN NULL ELSE Back(node, p)

Init ==
  /\ node = [p \in {} |-> [type |-> CLIENT, back |-> NULL, forw |-> NULL]]
  /\ freeDelayedItem = NULL /\ lastNode = 0
  /\ undoLogHead = NULL /\ undoLogTail = NULL /\ undoLogCur = NULL
  /\ undoNumRecentEvents = 0 /\ undoNumCommands = 0 /\ UndoDisableCount = 0
  /\ pc = "idle" /\ iup = NULL /\ up = NULL /\ n = 0 /\ count = 0
  /\ world = {} /\ tested = FALSE

-----------------------------------------------------------------------------
(* UndoNewEvent: a client records an edit it makes to the layout.  While    *)
(* undo is disabled it returns NULL and nothing changes.                    *)
UndoNewEvent ==
  /\ pc = "idle" /\ UndoDisableCount = 0 /\ lastNode < MaxNode
  /\ node' = mallocMagic([type |-> CLIENT, back |-> undoLogCur, forw |-> NULL])
  /\ freeDelayedItem' = NULL /\ lastNode' = lastNode + 1 /\ iup' = lastNode + 1
  /\ up' = undoGetForw(undoLogCur)
  /\ pc' = IF up' = NULL THEN "link" ELSE "truncate"
  /\ UNCHANGED <<undoLogHead, undoLogTail, undoLogCur, countVars, playVars, world, tested>>

\* With the cursor at NULL undoMemTruncate sets the count to 0 at the end.
CommandsFreedWith_None(p) == 0
CommandsFreedWith(p) == IF undoLogCur # NULL /\ IsDelim(node, p) THEN 1 ELSE 0

\* undoMemTruncate, one turn of its loop: free a node past the cursor.
undoMemTruncateLoop ==
  /\ pc = "truncate" /\ up # NULL
  /\ undoNumCommands' = undoNumCommands - CommandsFreedWith(up)
  /\ node' = freeMagic(up) /\ freeDelayedItem' = up
  /\ up' = Forw(node', up)
  /\ UNCHANGED <<lastNode, undoLogHead, undoLogTail, undoLogCur, pc, iup,
                 undoNumRecentEvents, UndoDisableCount, playVars, world, tested>>

undoMemTruncateEnd ==
  /\ pc = "truncate" /\ up = NULL
  /\ \/ /\ undoLogCur = NULL
        /\ undoLogHead' = NULL /\ undoLogTail' = NULL /\ undoNumCommands' = 0
        /\ node' = node
     \/ /\ undoLogCur # NULL
        /\ node' = [node EXCEPT ![undoLogCur].forw = NULL]
        /\ undoLogTail' = undoLogCur
        /\ UNCHANGED <<undoLogHead, undoNumCommands>>
  /\ pc' = "link"
  /\ UNCHANGED <<freeDelayedItem, lastNode, undoLogCur, undoNumRecentEvents,
                 UndoDisableCount, iup, up, playVars, world, tested>>

\* The rest of UndoNewEvent: the new node becomes the tail and the cursor.
UndoNewEventLink ==
  /\ pc = "link"
  /\ IF undoLogCur = NULL
       THEN undoLogHead' = iup /\ node' = node
       ELSE /\ node' = [node EXCEPT ![undoLogCur].forw = iup]
            /\ undoLogHead' = undoLogHead
  /\ undoLogCur' = iup /\ undoLogTail' = iup
  /\ undoNumRecentEvents' = undoNumRecentEvents + 1
  /\ world' = world \cup {iup}
  /\ pc' = "idle" /\ iup' = NULL /\ up' = NULL
  /\ UNCHANGED <<freeDelayedItem, lastNode, undoNumCommands, UndoDisableCount,
                 playVars, tested>>

NothingRecent_Kept == UNCHANGED undoNumRecentEvents
NothingRecent == undoNumRecentEvents' = 0

SomethingRecent == undoNumRecentEvents # 0

(* UndoNext: the command interpreter closes a command with a delimiter; a   *)
(* no-op when undo is disabled or the command recorded nothing.             *)
UndoNext ==
  /\ pc = "idle" /\ UndoDisableCount = 0 /\ SomethingRecent
  /\ lastNode < MaxNode
  /\ NothingRecent
  /\ undoNumCommands' = undoNumCommands + 1
  /\ LET heap == mallocMagic([type |-> UT_DELIM, back |-> undoLogTail,
                              forw |-> NULL])
     IN node' = IF undoLogTail # NULL
                THEN [heap EXCEPT ![undoLogTail].forw = lastNode + 1]
                ELSE heap
  /\ freeDelayedItem' = NULL /\ lastNode' = lastNode + 1
  /\ undoLogCur' = lastNode + 1 /\ undoLogTail' = lastNode + 1
  /\ pc' = IF undoNumCommands' >= MAXCOMMANDS /\ undoNumCommands' > LOWCOMMANDS
           THEN "freeHead" ELSE "idle"
  /\ UNCHANGED <<undoLogHead, UndoDisableCount, iup, up, playVars, world, tested>>

EnoughFreed_TooLate(commands) == commands < LOWCOMMANDS
EnoughFreed(commands) == commands <= LOWCOMMANDS

\* undoFreeHead, one turn of its inner loop: forget the oldest node.
undoFreeHeadLoop ==
  /\ pc = "freeHead"
  /\ node' = freeMagic(undoLogHead) /\ freeDelayedItem' = undoLogHead
  /\ undoLogHead' = Forw(node', undoLogHead)
  /\ IF IsDelim(node', undoLogHead')
       THEN /\ undoNumCommands' = undoNumCommands - 1
            /\ pc' = IF EnoughFreed(undoNumCommands') THEN "freeDelim"
                                                      ELSE "freeHead"
       ELSE UNCHANGED <<undoNumCommands, pc>>
  /\ UNCHANGED <<lastNode, undoLogTail, undoLogCur, undoNumRecentEvents,
                 UndoDisableCount, iup, up, playVars, world, tested>>

\* The heap with p made the first node of the log.
FirstInLog_BackKept(heap, p) == heap
FirstInLog(heap, p) ==
  IF p \in DOMAIN heap THEN [heap EXCEPT ![p].back = NULL] ELSE heap

\* undoFreeHead after its loops: the delimiter now at the head goes too.
undoFreeHeadEnd ==
  /\ pc = "freeDelim"
  /\ LET heap == freeMagic(undoLogHead)
     IN /\ undoLogHead' = Forw(heap, undoLogHead)
        /\ node' = FirstInLog(heap, undoLogHead')
  /\ freeDelayedItem' = undoLogHead
  /\ pc' = "idle"
  /\ UNCHANGED <<lastNode, undoLogTail, undoLogCur, countVars, iup, up,
                 playVars, world, tested>>

-----------------------------------------------------------------------------
(* UndoBackward(k): with undo disabled it returns 0 and changes nothing.    *)
UndoBackward(k) ==
  /\ pc = "idle" /\ UndoDisableCount = 0
  /\ iup' = undoLogCur /\ n' = k /\ count' = 0
  /\ NothingRecent /\ UndoDisableCount' = UndoDisableCount + 1
  /\ pc' = "backTest"
  /\ UNCHANGED <<heapVars, undoLogHead, undoLogTail, undoLogCur,
                 undoNumCommands, up, world>>

\* `undo' is a command of its own and the one before it was closed by
\* UndoNext; PlowRandomTest takes its edits back in the middle of a command.
windUndoCmd ==
  /\ undoNumRecentEvents = 0 /\ \E k \in 1..MaxCount : UndoBackward(k)
  /\ UNCHANGED tested
PlowRandomTest == undoNumRecentEvents # 0 /\ UndoBackward(1) /\ tested' = TRUE

\* The test of UndoBackward's for loop.
MoreToUndo == count < n /\ iup # NULL

\* The for loop's test succeeds: one more command is to be played backward.
UndoBackwardTest ==
  /\ pc = "backTest" /\ MoreToUndo
  /\ pc' = "back"
  /\ UNCHANGED <<heapVars, undoLogHead, undoLogTail, undoLogCur, countVars,
                 iup, up, playVars, world, tested>>

PlayedBack_NotFirst(p) ==
  IF IsDelim(node, p) \/ IsDelim(node, Back(node, p)) THEN world ELSE world \ {p}
PlayedBack(p) == IF IsDelim(node, p) THEN world ELSE world \ {p}

\* One turn of the do-while: the client takes back what the event did.
UndoBackwardPlay ==
  /\ pc = "back"
  /\ world' = PlayedBack(iup)
  /\ iup' = undoGetBack(iup)
  /\ IF iup' # NULL /\ ~IsDelim(node, iup')
       THEN UNCHANGED <<pc, count>>
       ELSE pc' = "backTest" /\ count' = count + 1
  /\ UNCHANGED <<heapVars, undoLogHead, undoLogTail, undoLogCur, countVars,
                 up, n, tested>>

\* UndoBackward returns: the commands played back are what `redo' will play.
UndoBackwardEnd ==
  /\ pc = "backTest" /\ ~MoreToUndo
  /\ UndoDisableCount' = UndoDisableCount - 1
  /\ undoLogCur' = iup
  /\ pc' = "idle" /\ iup' = NULL
  /\ UNCHANGED <<heapVars, undoLogHead, undoLogTail, undoNumRecentEvents,
                 undoNumCommands, up, playVars, world, tested>>

(* UndoForward(k), also when undo is disabled: with nothing past the cursor *)
(* it returns 0 and changes nothing.                                        *)
UndoForward(k) ==
  /\ pc = "idle"
  /\ iup' = undoGetForw(undoLogCur)
  /\ iup' # NULL
  /\ n' = k /\ count' = 0
  /\ NothingRecent /\ UndoDisableCount' = UndoDisableCount + 1
  /\ pc' = "forwTest"
  /\ UNCHANGED <<heapVars, undoLogHead, undoLogTail, undoLogCur,
                 undoNumCommands, up, world, tested>>

windRedoCmd == \E k \in 1..MaxCount : UndoForward(k)

UndoForwardTest ==
  /\ pc = "forwTest" /\ count < n
  /\ pc' = "forw"
  /\ UNCHANGED <<heapVars, undoLogHead, undoLogTail, undoLogCur, countVars,
                 iup, up, playVars, world, tested>>

\* Having run off the log UndoForward ends at its tail, in no new command.
RunOffLog_AtNull == iup' = NULL /\ UNCHANGED count
RunOffLog_Counted == iup' = undoLogTail /\ count' = count + 1
RunOffLog == iup' = undoLogTail /\ UNCHANGED count

\* One turn of the do-while; running off the log leaves the for loop.
UndoForwardPlay ==
  /\ pc = "forw"
  /\ world' = IF IsDelim(node, iup) THEN world ELSE world \cup {iup}
  /\ LET next == undoGetForw(iup)
     IN \/ /\ next # NULL /\ ~IsDelim(node, next)
           /\ iup' = next /\ UNCHANGED <<pc, count>>
        \/ /\ next # NULL /\ IsDelim(node, next)
           /\ iup' = next /\ pc' = "forwTest" /\ count' = count + 1
        \/ next = NULL /\ RunOffLog /\ pc' = "forwBreak"
  /\ UNCHANGED <<heapVars, undoLogHead, undoLogTail, undoLogCur, countVars,
                 up, n, tested>>

UndoForwardEnd ==
  /\ pc = "forwBreak" \/ (pc = "forwTest" /\ count >= n)
  /\ UndoDisableCount' = UndoDisableCount - 1
  /\ undoLogCur' = iup
  /\ pc' = "idle" /\ iup' = NULL
  /\ UNCHANGED <<heapVars, undoLogHead, undoLogTail, undoNumRecentEvents,
                 undoNumCommands, up, playVars, world, tested>>

-----------------------------------------------------------------------------
UndoDisable ==
  /\ pc = "idle" /\ UndoDisableCount < MaxDisable
  /\ UndoDisableCount' = UndoDisableCount + 1
  /\ UNCHANGED <<heapVars, undoLogHead, undoLogTail, undoLogCur,
                 undoNumRecentEvents, undoNumCommands, pc, iup, up, playVars,
                 world, tested>>

UndoEnable ==
  /\ pc = "idle" /\ UndoDisableCount > 0
  /\ UndoDisableCount' = UndoDisableCount - 1
  /\ UNCHANGED <<heapVars, undoLogHead, undoLogTail, undoLogCur,
                 undoNumRecentEvents, undoNumCommands, pc, iup, up, playVars,
                 world, tested>>

(* UndoFlush, which clients call when the log no longer matches the layout: *)
(* an empty log is left alone, else its nodes are freed from the tail.      *)
UndoFlush ==
  /\ pc = "idle" /\ undoLogHead # NULL
  /\ pc' = "flush"
  /\ UNCHANGED <<heapVars, undoLogHead, undoLogTail, undoLogCur, countVars,
                 iup, up, playVars, world, tested>>

UndoFlushLoop ==
  /\ pc = "flush" /\ undoLogTail # undoLogHead
  /\ node' = freeMagic(undoLogTail) /\ freeDelayedItem' = undoLogTail
  /\ undoLogTail' = Back(node', undoLogTail)
  /\ UNCHANGED <<lastNode, undoLogHead, undoLogCur, countVars, pc, iup, up,
                 playVars, world, tested>>

UndoFlushEnd ==
  /\ pc = "flush" /\ undoLogTail = undoLogHead
  /\ node' = freeMagic(undoLogHead) /\ freeDelayedItem' = undoLogHead
  /\ undoLogHead' = NULL /\ undoLogTail' = NULL /\ undoLogCur' = NULL
  /\ undoNumCommands' = 0 /\ undoNumRecentEvents' = 0
  /\ pc' = "idle" /\ tested' = FALSE
  /\ UNCHANGED <<lastNode, UndoDisableCount, iup, up, playVars, world>>

-----------------------------------------------------------------------------
Record == UndoNewEvent \/ UndoNext
Truncate == undoMemTruncateLoop \/ undoMemTruncateEnd \/ UndoNewEventLink
FreeHead == undoFreeHeadLoop \/ undoFreeHeadEnd
PlayBackward == UndoBackwardTest \/ UndoBackwardPlay \/ UndoBackwardEnd
PlayForward == UndoForwardTest \/ UndoForwardPlay \/ UndoForwardEnd
Flush == UndoFlushLoop \/ UndoFlushEnd

\* What the routine that is running does next; the rest is the callers' move.
Continue == Truncate \/ FreeHead \/ PlayBackward \/ PlayForward \/ Flush
Next ==
  \/ Record \/ windUndoCmd \/ windRedoCmd \/ PlowRandomTest
  \/ UndoDisable \/ UndoEnable \/ UndoFlush
  \/ Continue

\* One thread runs the package, so a routine once entered keeps running;
\* nothing obliges a user to call another.
Spec == Init /\ [][Next]_vars
FairSpec == Spec /\ WF_vars(Continue)

-----------------------------------------------------------------------------
Alive == Heap \ {freeDelayedItem}
\* UndoNewEvent's new node is not in the log until it is linked.
LogNodes == Alive \ (IF pc \in {"truncate", "link"} THEN {iup} ELSE {})
Delims == {p \in LogNodes : node[p].type = UT_DELIM}
Events == LogNodes \ Delims
Rewiring == pc \in {"truncate", "link", "freeHead", "freeDelim", "flush"}
Playing == pc \in {"backTest", "back", "forwTest", "forw", "forwBreak"}

TypeOK ==
  /\ lastNode \in 0..MaxNode
  /\ Heap \subseteq 1..lastNode /\ node \in [Heap -> Event]
  /\ freeDelayedItem \in Heap \cup {NULL}
  /\ {undoLogHead, undoLogTail, undoLogCur, iup, up} \subseteq Pointer
  /\ undoNumRecentEvents \in Nat /\ undoNumCommands \in Nat
  /\ UndoDisableCount \in Nat
  /\ n \in 0..MaxCount /\ count \in 0..n
  /\ world \subseteq 1..lastNode /\ tested \in BOOLEAN
  /\ pc \in {"idle", "truncate", "link", "freeHead", "freeDelim", "backTest",
             "back", "forwTest", "forw", "forwBreak", "flush"}

(* The blocks allocated and not freed are exactly one doubly linked list,   *)
(* oldest first, from undoLogHead to undoLogTail: the truncation, the        *)
(* freeing of old commands and the flush leak nothing and leave no link to   *)
(* a freed node.                                                             *)
LogWellLinked == ~Rewiring =>
  /\ undoLogHead = NULL <=> LogNodes = {}
  /\ LogNodes # {} =>
       /\ {undoLogHead, undoLogTail} \subseteq LogNodes
       /\ node[undoLogHead].back = NULL /\ node[undoLogTail].forw = NULL
  /\ \A p \in LogNodes :
       /\ p # undoLogTail => /\ node[p].forw \in LogNodes
                             /\ p < node[p].forw
                             /\ node[node[p].forw].back = p
       /\ p # undoLogHead => /\ node[p].back \in LogNodes
                             /\ node[node[p].back].forw = p
  /\ undoLogCur \in LogNodes \cup {NULL}

(* The pointer each loop is about to follow or free is an allocated node,    *)
(* and the ASSERTs in the loops hold: the reads of `iue_forw' and `iue_back' *)
(* right after freeMagic are safe only because freeMagic is one call late,   *)
(* and undoFreeHead never reaches the cursor or runs off the log because     *)
(* LOWCOMMANDS > 0.                                                          *)
LoopsStayInLog ==
  /\ pc = "truncate" => /\ up # NULL => up \in LogNodes
                        /\ undoLogCur # NULL => IsDelim(node, undoLogCur)
  /\ pc \in {"freeHead", "freeDelim"} =>
       undoLogHead \in LogNodes /\ undoLogHead # undoLogCur
  /\ pc = "freeDelim" => node[undoLogHead].forw \in LogNodes
  /\ pc = "flush" => undoLogTail \in LogNodes /\ undoLogHead \in LogNodes
  /\ pc = "link" => iup \in Alive /\ undoLogCur \in LogNodes \cup {NULL}
  /\ pc \in {"back", "forw", "forwBreak"} => iup \in LogNodes
  /\ pc \in {"backTest", "forwTest"} => iup \in LogNodes \cup {NULL}

(* What undo.c's comment says of its pointers: the head is the first event   *)
(* of a command, and the tail and the cursor are delimiters exactly when no  *)
(* command is open.  After PlowRandomTest, which undoes within a command,    *)
(* that is so again when the log has been flushed.                           *)
CursorDiscipline == pc = "idle" /\ ~tested =>
  /\ undoLogHead # NULL => ~IsDelim(node, undoLogHead)
  /\ undoLogHead # NULL =>
       (IsDelim(node, undoLogTail) <=> undoNumRecentEvents = 0)
  /\ undoLogCur # NULL =>
       (IsDelim(node, undoLogCur) <=> undoNumRecentEvents = 0)
  /\ undoNumRecentEvents # 0 => undoLogCur = undoLogTail /\ undoLogCur # NULL

(* undoNumCommands is the number of complete commands in the log, which      *)
(* never outgrows MAXCOMMANDS, and no command in it is empty.                *)
CommandCount == ~Rewiring =>
  /\ undoNumCommands = Cardinality(Delims) /\ undoNumCommands <= MAXCOMMANDS
  /\ \A d \in Delims : Back(node, d) \in Events

\* The events the cursor has passed; while one plays, the routine's position.
Shown(e) ==
  \/ pc \in {"backTest", "back"} /\ e <= iup
  \/ pc \in {"forwTest", "forw"} /\ e < iup
  \/ pc = "forwBreak"
  \/ ~Playing /\ e <= undoLogCur

(* The layout shows exactly the logged events up to the cursor (up to the    *)
(* playing routine's own position while one plays): an undone event is gone, *)
(* a redone one is back, none is played twice or skipped.                    *)
LayoutMatchesLog == \A e \in Events : e \in world <=> Shown(e)

(* An event is taken back only when it is the newest one the layout shows,   *)
(* and replayed only after all older ones: the clients' callbacks, which are *)
(* plain inverses, meet the layout they were recorded in.                    *)
PlayedInOrder ==
  [][/\ \A e \in world \ world' : \A f \in world : f <= e
     /\ \A e \in world' \ world : \A f \in Events : f < e => f \in world
     /\ \A e \in world' \ world : \A f \in world : f < e]_vars

(* What UndoBackward and UndoForward return is the number of whole commands  *)
(* they moved the cursor over, with the same exception.                      *)
CountIsCommandsPlayed == ~tested =>
  /\ pc = "backTest" =>
       count = Cardinality({d \in Delims : iup < d /\ d <= undoLogCur})
  /\ pc = "forwTest" =>
       count = Cardinality({d \in Delims : undoLogCur < d /\ d <= iup})
  /\ pc = "forwBreak" =>
       count = Cardinality({d \in Delims : undoLogCur < d})

(* Every routine that walks the log returns.                                 *)
RoutinesReturn == pc # "idle" ~> pc = "idle"

=============================================================================
