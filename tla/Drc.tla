-------------------------------- MODULE Drc ---------------------------------
(***************************************************************************)
(* Magic's background design rule checker (drc/DRCcontin.c) and the command *)
(* dispatcher (textio/txCommands.c) in the Tcl build.  There is one thread: *)
(* after every square it checks, the checker lets Tcl handle its events,    *)
(* and in one of them a command may edit the layout, turn the checker off,  *)
(* or run the checker again, all on top of the check in progress.           *)
(***************************************************************************)
EXTENDS Integers, SequencesExt

CONSTANTS
  Def,          \* editable cell definitions
  Square,       \* squares of the checkerboard that a cell is divided into
  Ancestry,     \* a cell and all cells it is used in, in DRCCheckThis' order
  Commands,     \* the kinds of commands the user gives
  MaxCommands   \* bound: commands given, and components read, in all

ASSUME AncestryAssumption ==
  \A c \in Def : /\ Ancestry[c] \in Seq(Def) /\ Ancestry[c] # <<>>
                 /\ Head(Ancestry[c]) = c
ASSUME MaxCommandsAssumption == MaxCommands \in Nat

VARIABLES
  live,               \* the cells that are loaded
  check,              \* cell |-> its squares with check tiles
  DRCPending,         \* the cells waiting for the checker
  DRCBackGround, DRCStatus,
  UndoDisableCount,
  userDisables,       \* (ghost) of these, the user's own
  SigInterruptPending,
  idle,               \* calls of DRCContinuous that Tcl is to make when idle
  stack,              \* the routines that wait for Tcl or for one another
  refused,            \* (ghost) the command ended last was refused
  commands            \* commands and components still to come

layout == <<live, check, DRCPending>>
undo == <<UndoDisableCount, userDisables>>
vars == <<layout, DRCBackGround, DRCStatus, undo, SigInterruptPending, idle,
          stack, refused, commands>>

\* A check is looking for squares, letting Tcl handle events, or looking at
\* the status after one.  Of the commands only those that take time stay here.
Setting == {"off", "on", "not set"}
Frame ==
  [proc : {"DRCContinuous"}, at : {"check", "events", "test"}]
  \cup [proc : {"def read"}, at : {"events"}, lastdrc : Setting]
  \cup [proc : {"drc catchup"}, at : {"check"}, lastdrc : Setting, background : Setting]

Top == Last(stack)
AtTop(proc, at) == stack # <<>> /\ Top.proc = proc /\ Top.at = at
Goto(at) == [stack EXCEPT ![Len(stack)].at = at]

\* With a setting, is there something for the checker to do?
DRCHasWork(background, pending) == pending # <<>> /\ background = "on"
Enabled(count) == IF count > 0 THEN count - 1 ELSE 0

\* magic.tcl ends the initialization with `drc on'.
Init ==
  /\ live = Def /\ check = [d \in Def |-> {}] /\ DRCPending = <<>>
  /\ DRCBackGround = "on" /\ DRCStatus = "not running"
  /\ UndoDisableCount = 0 /\ userDisables = 0
  /\ SigInterruptPending = FALSE /\ idle = 1 /\ stack = <<>> /\ refused = FALSE
  /\ commands = MaxCommands

-----------------------------------------------------------------------------
(* The list of pending cells.  A cell is taken off where it is first found.   *)
ToFront_Again(c, list) == <<c>> \o list       \* not looked for in the list
ToFront(c, list) == <<c>> \o RemoveFirst(list, c)
DRCRemovePending(c) == RemoveFirst(DRCPending, c)

\* DRCCheckThis calls itself for every cell that uses this one.
Reached(c) == {i \in DOMAIN Ancestry[c] : Ancestry[c][i] \in live}
AllReached(c) == {Ancestry[c][i] : i \in Reached(c)}

\* Each call moves its cell to the front.
Pending(c) ==
  LET moved[i \in 0..Len(Ancestry[c])] ==
        IF i = 0 THEN DRCPending
        ELSE IF i \in Reached(c) THEN ToFront(Ancestry[c][i], moved[i - 1])
                                 ELSE moved[i - 1]
  IN moved[Len(Ancestry[c])]
DRCCheckThis(c, s) ==
  /\ DRCPending' = Pending(c)
  /\ check' = [d \in Def |-> IF d \in AllReached(c) THEN check[d] \cup {s} ELSE check[d]]
  /\ UNCHANGED live

-----------------------------------------------------------------------------
(* DRCContinuous, called by whoever s is the stack of.                       *)
DRCContinuous(s, background) ==
  IF ~DRCHasWork(background, DRCPending)
    THEN DRCStatus' = "not running" /\ stack' = s /\ UNCHANGED UndoDisableCount
  ELSE IF DRCStatus # "not running"
    THEN stack' = s /\ UNCHANGED <<DRCStatus, UndoDisableCount>>
  ELSE /\ DRCStatus' = "in progress"
       /\ UndoDisableCount' = UndoDisableCount + 1
       /\ stack' = Append(s, [proc |-> "DRCContinuous", at |-> "check"])

Checked_TilesKept(c) == {check[c]}
Checked(c) == {check[c] \ {s} : s \in check[c]}
\* A square is found; an interrupt leaves it unchecked.
drcCheckTile ==
  /\ AtTop("DRCContinuous", "check")
  /\ DRCPending # <<>> /\ check[Head(DRCPending)] # {}
  /\ IF SigInterruptPending THEN UNCHANGED check
     ELSE \E left \in Checked(Head(DRCPending)) :
            check' = [check EXCEPT ![Head(DRCPending)] = left]
  /\ UndoDisableCount' = Enabled(UndoDisableCount)
  /\ stack' = Goto("events")
  /\ UNCHANGED <<live, DRCPending, DRCBackGround, DRCStatus, userDisables,
                 SigInterruptPending, idle, refused, commands>>

\* No events are left.
CheckGoesOn ==
  /\ AtTop("DRCContinuous", "events") /\ idle = 0
  /\ UndoDisableCount' = UndoDisableCount + 1
  /\ stack' = Goto("check")
  /\ UNCHANGED <<layout, DRCBackGround, DRCStatus, userDisables,
                 SigInterruptPending, idle, refused, commands>>

TestBreak ==
  /\ AtTop("DRCContinuous", "test")
  /\ IF DRCStatus = "break pending"
       THEN DRCStatus' = "not running" /\ stack' = Front(stack)
       ELSE DRCStatus' = DRCStatus /\ stack' = Goto("events")
  /\ UNCHANGED <<layout, DRCBackGround, undo, SigInterruptPending, idle, refused, commands>>

\* The front cell has no check tiles left: knock it off the list.
KnockOff ==
  /\ AtTop("DRCContinuous", "check")
  /\ DRCPending # <<>> /\ check[Head(DRCPending)] = {}
  /\ DRCPending' = Tail(DRCPending)
  /\ UNCHANGED <<live, check, DRCBackGround, DRCStatus, undo,
                 SigInterruptPending, idle, stack, refused, commands>>

UndoAfterCheck_Off(count) == count
UndoAfterCheck(count) == Enabled(count)
CheckDone ==
  /\ AtTop("DRCContinuous", "check") /\ DRCPending = <<>>
  /\ DRCStatus' = "not running" /\ stack' = Front(stack)
  /\ UndoDisableCount' = UndoAfterCheck(UndoDisableCount)
  /\ UNCHANGED <<layout, DRCBackGround, userDisables, SigInterruptPending,
                 idle, refused, commands>>

-----------------------------------------------------------------------------
(* Tcl handles an event: in its main loop, in a check or in a long command.  *)
InEvents == stack # <<>> => Top.at = "events"
\* The checker looks at its status when the event has been handled.
Waiting == IF AtTop("DRCContinuous", "events") THEN Goto("test") ELSE stack

IdleCall ==
  /\ InEvents /\ idle > 0
  /\ idle' = idle - 1
  /\ DRCContinuous(Waiting, DRCBackGround)
  /\ UNCHANGED <<layout, DRCBackGround, userDisables, SigInterruptPending,
                 refused, commands>>

\* TxTclDispatch, up to the command: the checker must not start inside it.
Dispatch(kind) ==
  /\ kind \in Commands /\ InEvents /\ commands > 0
  /\ commands' = commands - 1
  /\ SigInterruptPending' = FALSE
During == IF DRCBackGround = "off" THEN "off" ELSE "not set"

DRCBreak(background, count) ==
  IF DRCHasWork(background, DRCPending') /\ DRCStatus = "in progress"
    THEN DRCStatus' = "break pending" /\ UndoDisableCount' = Enabled(count)
    ELSE UndoDisableCount' = count /\ UNCHANGED DRCStatus

\* TxTclDispatch after a command that left these: the checker is broken and a
\* new call of it left to Tcl.
IdleAfterCommand_None == idle
IdleAfterCommand == idle + 1
Dispatched(background, lastdrc, count) ==
  LET after == IF background = "not set" THEN lastdrc ELSE background
  IN /\ DRCBackGround' = after /\ DRCBreak(after, count)
     /\ idle' = IdleAfterCommand /\ refused' = FALSE
Short(background, count) ==
  Dispatched(background, DRCBackGround, count) /\ stack' = Waiting

\* Commands that edit the layout, also `undo' and `redo'.
Edit(c, s) ==
  /\ Dispatch("edit") /\ c \in live
  /\ DRCCheckThis(c, s)
  /\ Short(During, UndoDisableCount) /\ UNCHANGED userDisables

\* `cellname delete': the cell must not be in use.
DeleteCell(c) ==
  /\ Dispatch("delete") /\ c \in live /\ Reached(c) = {1}
  /\ live' = live \ {c} /\ check' = [check EXCEPT ![c] = {}]
  /\ DRCPending' = DRCRemovePending(c)
  /\ Short(During, UndoDisableCount) /\ UNCHANGED userDisables

\* A cell is read, with the areas that were unchecked when it was saved.
DBCellRead(c) ==
  /\ live' = live \cup {c}
  /\ \E left \in SUBSET Square : check' = [check EXCEPT ![c] = left]
  /\ DRCPending' = ToFront(c, DRCPending)
LoadCell(c) ==
  /\ Dispatch("load") /\ c \notin live
  /\ DBCellRead(c)
  /\ Short(During, UndoDisableCount) /\ UNCHANGED userDisables

DrcOff ==
  /\ Dispatch("drc off")
  /\ UNCHANGED <<layout, userDisables>>
  /\ Short("off", UndoDisableCount)
DrcOn ==
  /\ Dispatch("drc on")
  /\ UNCHANGED <<layout, userDisables>>
  /\ Short(IF During = "off" THEN "on" ELSE During, UndoDisableCount)

UndoDisable ==
  /\ Dispatch("undo disable")
  /\ userDisables' = userDisables + 1 /\ UNCHANGED layout
  /\ Short(During, UndoDisableCount + 1)
UndoEnable ==
  /\ Dispatch("undo enable")
  /\ userDisables' = Enabled(userDisables) /\ UNCHANGED layout
  /\ Short(During, Enabled(UndoDisableCount))

\* `*bypass': a dispatch within a dispatch, neither of which breaks the check.
\* drcstate gives such commands whenever a check begins or ends.
Bypass ==
  /\ Dispatch("bypass")
  /\ idle' = idle + 2 /\ stack' = Waiting /\ refused' = FALSE
  /\ UNCHANGED <<layout, DRCBackGround, DRCStatus, undo>>

\* No client takes the command: nothing is left to Tcl.
Refused ==
  /\ Dispatch("refused")
  /\ refused' = TRUE /\ UNCHANGED <<layout, DRCBackGround, idle, userDisables>>
  /\ DRCBreak(DRCBackGround, UndoDisableCount) /\ stack' = Waiting

-----------------------------------------------------------------------------
(* Two commands that let Tcl handle events.                                  *)
DefRead ==
  /\ Dispatch("def read")
  /\ DRCBackGround' = During /\ UndoDisableCount' = UndoDisableCount + 1
  /\ stack' = Append(Waiting, [proc |-> "def read", at |-> "events",
                               lastdrc |-> DRCBackGround])
  /\ UNCHANGED <<layout, DRCStatus, userDisables, idle, refused>>

\* A component's cell is read from its own file.
DefComponent(c) ==
  /\ AtTop("def read", "events") /\ commands > 0 /\ c \notin live
  /\ commands' = commands - 1
  /\ DBCellRead(c)
  /\ UNCHANGED <<DRCBackGround, DRCStatus, undo, SigInterruptPending, idle, stack,
                 refused>>

DefReadEnd ==
  /\ AtTop("def read", "events")
  /\ UNCHANGED layout
  /\ SigInterruptPending' = FALSE
  /\ Dispatched(DRCBackGround, Top.lastdrc, Enabled(UndoDisableCount))
  /\ stack' = Front(stack) /\ UNCHANGED <<userDisables, commands>>

CatchUp ==
  /\ Dispatch("drc catchup")
  /\ DRCBackGround' = "on"
  /\ DRCContinuous(Append(Waiting, [proc |-> "drc catchup", at |-> "check",
                             lastdrc |-> DRCBackGround, background |-> During]), "on")
  /\ UNCHANGED <<layout, userDisables, idle, refused>>

CatchUpEnd ==
  /\ AtTop("drc catchup", "check")
  /\ SigInterruptPending' = FALSE /\ UNCHANGED <<layout, userDisables, commands>>
  /\ Dispatched(Top.background, Top.lastdrc, UndoDisableCount)
  /\ stack' = Front(stack)

\* The user presses the interrupt key.
Interrupt ==
  /\ "interrupt" \in Commands /\ commands > 0
  /\ commands' = commands - 1 /\ SigInterruptPending' = TRUE
  /\ UNCHANGED <<layout, DRCBackGround, DRCStatus, undo, idle, stack, refused>>

Check == drcCheckTile \/ CheckGoesOn \/ TestBreak \/ KnockOff \/ CheckDone
Magic == Check \/ IdleCall \/ CatchUpEnd \/ DefReadEnd
User ==
  \/ \E c \in Def : DeleteCell(c) \/ LoadCell(c) \/ DefComponent(c)
  \/ \E c \in Def, s \in Square : Edit(c, s)
  \/ DrcOff \/ DrcOn \/ UndoDisable \/ UndoEnable \/ Bypass \/ Refused
  \/ DefRead \/ CatchUp \/ Interrupt
Next == Magic \/ User

Spec == Init /\ [][Next]_vars
\* Magic goes on with what it does, and Tcl makes idle calls when it has
\* nothing else to do.  The user need not give a command.
FairSpec == Spec /\ WF_vars(Magic)

-----------------------------------------------------------------------------
Status == {"not running", "in progress", "break pending"}

TypeOK ==
  /\ live \subseteq Def /\ check \in [Def -> SUBSET Square]
  /\ DRCPending \in Seq(Def)
  /\ DRCBackGround \in Setting /\ DRCStatus \in Status
  /\ UndoDisableCount \in Nat /\ userDisables \in Nat
  /\ SigInterruptPending \in BOOLEAN /\ idle \in Nat
  /\ refused \in BOOLEAN
  /\ stack \in Seq(Frame) /\ commands \in 0..MaxCommands

(* Every area marked for checking is in a cell that exists and waits in the  *)
(* list, once: whatever is edited, loaded or deleted in the middle of a       *)
(* check, no marked area is forgotten and no freed cell is checked.          *)
MarkedIsPending ==
  /\ \A d \in Def : check[d] # {} => d \in live /\ d \in ToSet(DRCPending)
  /\ ToSet(DRCPending) \subseteq live
  /\ \A i, j \in DOMAIN DRCPending : i # j => DRCPending[i] # DRCPending[j]

(* The checker, however it is broken or nested, never leaves undo disabled: *)
(* when it lets events be handled undo is off only for the user and for the  *)
(* DEF reads that wait below.                                                *)
Reads == {i \in DOMAIN stack : stack[i].proc = "def read"}
UndoNotLeftOff ==
  UndoDisableCount <= userDisables + Cardinality(Reads)
                      + (IF AtTop("DRCContinuous", "check") THEN 1 ELSE 0)

(* "It starts whenever a layout change has been made or after any command    *)
(* has been executed if areas of the layout still need to be checked": when  *)
(* nothing runs, a call of the checker has been left to Tcl.                  *)
WorkIsScheduled ==
  (stack = <<>> /\ DRCHasWork(DRCBackGround, DRCPending) /\ ~refused) => idle > 0

(* Once the user pauses, all marked areas get checked, unless the checker is *)
(* off, an interrupt is still pending, or a refused command has broken the   *)
(* check without leaving a new call to Tcl.                                  *)
DrcCatchesUp ==
  DRCPending # <<>> ~>
    (DRCPending = <<>> \/ DRCBackGround = "off" \/ SigInterruptPending \/ refused)

=============================================================================
