----------------------------- MODULE UndoCells ------------------------------
(***************************************************************************)
(* The layout database as a client of undo (src/sw/magic/database/         *)
(* DBundo.c).  Paint events do not name the cell they change: the log is    *)
(* "differentially encoded" by events that close one cell and open another, *)
(* and playing it in either direction must keep dbUndoLastCell on the cell  *)
(* each event was recorded in.  The events name cells by their names, which *)
(* cells lose when they are renamed or deleted (DBcellname.c): from then    *)
(* until the log is flushed the ghost lostName is TRUE.                     *)
(*                                                                         *)
(* The log is the command stack UndoStack that the undo package implements. *)
(***************************************************************************)
EXTENDS UndoStack, Sequences

CONSTANTS
  Def,          \* cell definitions
  Name,         \* cell names
  NoDef,        \* the null CellDef pointer
  MaxEvent      \* bound: events ever recorded

ASSUME NoDefAssumption == NoDef \notin Def
ASSUME CountsAssumption == {MAXCOMMANDS, LOWCOMMANDS, MaxCount} \subseteq Nat

VARIABLES
  event,            \* event |-> what it records (def: the cell meant, a ghost)
  lastEvent,
  dbCellDefTable,   \* name |-> definition
  dbUndoLastCell,
  dbUndoUndid,      \* events played since bounding boxes were last recomputed
  mode, todo, k,    \* the routine playing events, those left, commands asked
  staleBbox,        \* definitions that this playing painted since their bounding
                    \* box was recomputed, a ghost
  lostName          \* an event of the log may name a cell by a name it lost

cellVars == <<event, lastEvent, dbCellDefTable, dbUndoLastCell, dbUndoUndid,
              mode, todo, k, staleBbox, lostName>>
cellsVars == <<stackVars, cellVars>>

Live == {dbCellDefTable[x] : x \in Name} \ {NoDef}
cd_name(d) == CHOOSE x \in Name : dbCellDefTable[x] = d
Paint(d) == [type |-> "paint", def |-> d]
OpenCell(x, d) == [type |-> "open", name |-> x, def |-> d]
CloseCell(x, d) == [type |-> "close", name |-> x, def |-> d]

CellsInit ==
  /\ StackInit
  /\ event = [e \in {} |-> Paint(NoDef)] /\ lastEvent = 0
  /\ \E f \in [Def -> Name] :
       /\ \A c, d \in Def : f[c] = f[d] => c = d
       /\ dbCellDefTable = [x \in Name |->
            IF \E d \in Def : f[d] = x THEN CHOOSE d \in Def : f[d] = x ELSE NoDef]
  /\ dbUndoLastCell = NoDef /\ dbUndoUndid = FALSE
  /\ mode = "idle" /\ todo = {} /\ k = 0 /\ staleBbox = {} /\ lostName = FALSE

dbUndoEdit_OpenOnly(d) ==
  IF d = dbUndoLastCell THEN <<>> ELSE <<OpenCell(cd_name(d), d)>>

\* dbUndoEdit: what is recorded when the cell being changed is a new one.
dbUndoEdit(d) ==
  IF d = dbUndoLastCell THEN <<>>
  ELSE IF dbUndoLastCell = NoDef THEN <<OpenCell(cd_name(d), d)>>
  ELSE <<CloseCell(cd_name(dbUndoLastCell), dbUndoLastCell), OpenCell(cd_name(d), d)>>

\* A paint operation on d: the events DBPAINTUNDO records, one UndoNewEvent
\* (UndoStack's RecordEvent) each.
DBPaint(d) ==
  /\ mode = "idle" /\ d \in Live
  /\ LET new == Append(dbUndoEdit(d), Paint(d))
         ids == lastEvent + 1 .. lastEvent + Len(new)
     IN /\ lastEvent + Len(new) <= MaxEvent
        /\ lastEvent' = lastEvent + Len(new)
        /\ event' = [e \in ((DOMAIN event) \ UNION undone) \cup ids |->
                       IF e \in ids THEN new[e - lastEvent] ELSE event[e]]
        /\ open' = open \cup ids /\ undone' = {} /\ done' = done
  /\ dbUndoLastCell' = d
  /\ UNCHANGED <<dbCellDefTable, dbUndoUndid, mode, todo, k, staleBbox, lostName>>

EndCommand ==
  /\ mode = "idle" /\ CloseCommand
  /\ event' = [e \in UNION (done' \cup undone') |-> event[e]]
  /\ UNCHANGED <<lastEvent, dbCellDefTable, dbUndoLastCell, dbUndoUndid, mode,
                 todo, k, staleBbox, lostName>>

-----------------------------------------------------------------------------
\* The clients' init procedures run, then the events of j commands are played.
Play(direction, events, j) ==
  /\ mode = "idle" /\ open = {} /\ events # {}
  /\ mode' = direction /\ todo' = events /\ k' = j
  /\ dbUndoUndid' = FALSE /\ staleBbox' = {}
  /\ UNCHANGED <<stackVars, event, lastEvent, dbCellDefTable, dbUndoLastCell,
                 lostName>>

UndoBackward(j) == Play("back", UNION Newest(done, j), j)
UndoForward(j) == Play("forw", UNION Oldest(undone, j), j)

NextEvent == IF mode = "back" THEN CHOOSE e \in todo : \A f \in todo : f <= e
                              ELSE CHOOSE e \in todo : \A f \in todo : e <= f
\* Played backward, a close event opens the cell, and the other way round.
Opens(e) == event[e].type = IF mode = "back" THEN "close" ELSE "open"
Closes(e) == event[e].type = IF mode = "back" THEN "open" ELSE "close"

dbUndoPaint ==
  /\ mode # "idle" /\ todo # {} /\ event[NextEvent].type = "paint"
  /\ todo' = todo \ {NextEvent}
  /\ IF dbUndoLastCell = NoDef THEN UNCHANGED <<dbUndoUndid, staleBbox>>
     ELSE dbUndoUndid' = TRUE /\ staleBbox' = staleBbox \cup {dbUndoLastCell}
  /\ UNCHANGED <<stackVars, event, lastEvent, dbCellDefTable, dbUndoLastCell,
                 mode, k, lostName>>

\* The ASSERT that the name is known is compiled out (-DNDEBUG).
dbUndoOpenCell ==
  /\ mode # "idle" /\ todo # {} /\ Opens(NextEvent)
  /\ dbUndoLastCell' = dbCellDefTable[event[NextEvent].name]
  /\ todo' = todo \ {NextEvent}
  /\ UNCHANGED <<stackVars, event, lastEvent, dbCellDefTable, dbUndoUndid, mode,
                 k, staleBbox, lostName>>

\* What dbUndoCloseCell does to the cell that was being changed.
RecomputeBbox ==
  IF dbUndoUndid /\ dbUndoLastCell # NoDef
    THEN staleBbox' = staleBbox \ {dbUndoLastCell} /\ dbUndoUndid' = FALSE
    ELSE UNCHANGED <<staleBbox, dbUndoUndid>>

dbUndoCloseCell_BboxKept ==
  /\ mode # "idle" /\ todo # {} /\ Closes(NextEvent)
  /\ todo' = todo \ {NextEvent}
  /\ UNCHANGED <<stackVars, event, lastEvent, dbCellDefTable, dbUndoLastCell,
                 dbUndoUndid, mode, k, staleBbox, lostName>>

dbUndoCloseCell ==
  /\ mode # "idle" /\ todo # {} /\ Closes(NextEvent)
  /\ RecomputeBbox
  /\ todo' = todo \ {NextEvent}
  /\ UNCHANGED <<stackVars, event, lastEvent, dbCellDefTable, dbUndoLastCell,
                 mode, k, lostName>>

\* The clients' done procedures, dbUndoCloseCell again, end the playing.
PlayEnd ==
  /\ mode # "idle" /\ todo = {}
  /\ IF mode = "back" THEN UndoCommands(k) ELSE RedoCommands(k)
  /\ RecomputeBbox
  /\ mode' = "idle" /\ k' = 0
  /\ UNCHANGED <<event, lastEvent, dbCellDefTable, dbUndoLastCell, todo, lostName>>

-----------------------------------------------------------------------------
\* UndoFlush, called by clients that changed the layout behind undo's back.
FlushLog ==
  /\ ForgetAll /\ event' = [e \in {} |-> Paint(NoDef)] /\ lostName' = FALSE

CmdFlush ==
  /\ mode = "idle" /\ FlushLog
  /\ UNCHANGED <<lastEvent, dbCellDefTable, dbUndoLastCell, dbUndoUndid, mode,
                 todo, k, staleBbox>>

\* A new definition is none that an event of the log is about.
DBCellNewDef(x, d) ==
  /\ mode = "idle" /\ dbCellDefTable[x] = NoDef
  /\ d \notin Live /\ \A e \in DOMAIN event : event[e].def # d
  /\ dbCellDefTable' = [dbCellDefTable EXCEPT ![x] = d]
  /\ UNCHANGED <<stackVars, event, lastEvent, dbUndoLastCell, dbUndoUndid, mode,
                 todo, k, staleBbox, lostName>>

NamedInLog(x) == \E e \in DOMAIN event : event[e].type # "paint" /\ event[e].name = x

\* The log is left alone, whatever it names.
DBCellRename(x, y) ==
  /\ mode = "idle" /\ dbCellDefTable[x] # NoDef /\ dbCellDefTable[y] = NoDef
  /\ dbCellDefTable' = [dbCellDefTable EXCEPT ![x] = NoDef, ![y] = dbCellDefTable[x]]
  /\ lostName' = (lostName \/ NamedInLog(x))
  /\ UNCHANGED <<stackVars, event, lastEvent, dbUndoLastCell, dbUndoUndid, mode,
                 todo, k, staleBbox>>

\* DBUndoReset: the log is flushed when the cell x is the one it was last about,
\* and not when earlier events name it.
DBUndoReset(x) ==
  IF dbCellDefTable[x] = dbUndoLastCell
    THEN FlushLog /\ dbUndoLastCell' = NoDef
    ELSE /\ lostName' = (lostName \/ NamedInLog(x))
         /\ UNCHANGED <<stackVars, event, dbUndoLastCell>>

\* DBCellDelete of a cell that no other cell uses.
DBCellDelete(x) ==
  /\ mode = "idle" /\ dbCellDefTable[x] # NoDef
  /\ DBUndoReset(x)
  /\ dbCellDefTable' = [dbCellDefTable EXCEPT ![x] = NoDef]
  /\ UNCHANGED <<lastEvent, dbUndoUndid, mode, todo, k, staleBbox>>

-----------------------------------------------------------------------------
PlayStep == dbUndoPaint \/ dbUndoOpenCell \/ dbUndoCloseCell \/ PlayEnd
CellsNext ==
  \/ \E d \in Def : DBPaint(d)
  \/ EndCommand
  \/ \E j \in 1..MaxCount : UndoBackward(j) \/ UndoForward(j)
  \/ PlayStep
  \/ CmdFlush
  \/ \E x \in Name : DBCellDelete(x) \/ \E d \in Def : DBCellNewDef(x, d)
  \/ \E x, y \in Name : DBCellRename(x, y)

CellsSpec == CellsInit /\ [][CellsNext]_cellsVars

-----------------------------------------------------------------------------
(* A paint event is undone or redone in the cell it was recorded in, whatever *)
(* was undone, redone, forgotten, flushed or deleted since: the differential  *)
(* encoding around dbUndoLastCell loses no change of cell.  Except after a    *)
(* cell that the log names was renamed or deleted, until the log is flushed.  *)
PlaysOnRecordedCell ==
  mode # "idle" /\ todo # {} /\ ~lostName =>
    (event[NextEvent].type = "paint" => dbUndoLastCell = event[NextEvent].def)

(* What DBundo.c asserts: the cell an event opens can be found by its name,   *)
(* whatever was renamed or deleted since.                                     *)
OpenedCellIsKnown ==
  mode # "idle" /\ todo # {} =>
    (Opens(NextEvent) => dbCellDefTable[event[NextEvent].name] # NoDef)

(* When undo or redo returns, it has recomputed the bounding box of every     *)
(* cell it painted in, also when the events crossed several cells, except     *)
(* after a cell that the log names was renamed or deleted.                    *)
BboxesRecomputed ==
  [][mode # "idle" /\ mode' = "idle" /\ ~lostName => staleBbox' = {}]_cellsVars

=============================================================================
