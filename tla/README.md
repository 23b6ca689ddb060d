# Verification of the qflow 1.2 example tree

The repository (`src/`) holds a digital ASIC flow as it is installed from source: the qflow driver
scripts and their netlist tools, the Magic layout editor (8.0, Tcl build), the graywolf placement
programs, vendored yosys and verilator, and install scripts. This directory holds TLA+ models of the
parts whose correctness depends on the order of events, TLC configurations that check them on small
instances, and proofs checked by TLAPS.

`PROJECT.json` has the machine-readable side: components, runs, the source lines each definition
models, findings, hazards and theorems.

## 1. The system: inventory

| Component | State it keeps | Operations | What makes it correct |
|---|---|---|---|
| **Magic undo package** `magic/utils/undo.c` (+ `malloc.c`) | one doubly linked log with delimiters, head, tail, cursor, two counts, a disable count; the delayed block of the allocator | record, close a command, undo, redo, flush, disable, enable | the log stays one list, no loop touches a freed node, undo and redo are inverses in the right order, memory stays bounded |
| **Database client of undo** `magic/database/DBundo.c` | `dbUndoLastCell`, `dbUndoUndid`; cells by name | record paint/open/close, play them, reset on deletion | each event is played in the cell it was recorded in; bounding boxes are recomputed |
| **Background design rule checker** `magic/drc/DRCcontin.c`, `DRCmain.c` | list of pending cells, check tiles, on/off setting, status | mark, check in the background, break, restart, catch up | no marked area is forgotten, undo is not left off, the work is resumed and ends |
| **Command dispatch and windows** `textio/txCommands.c`, `windows/`, `dbwind/` | command stack, windows, redisplay areas | dispatch, give a command to a client, redisplay | a command finds the checker out of its way and restarts it |
| **Signals** `magic/utils/signals.c` | interrupt flags, nesting of disabled sections, timers | interrupt, disable, enable, timer, terminate | no interrupt is lost; nothing is cut in the middle |
| **Cell files and crash backup** `magic/database/DBio.c`, `commands/CmdRS.c`, `CmdTZ.c`, `utils/main.c` | cell files, temporary files, backup files; the flags of cells in memory | read, save, append, rename, back up, recover, quit | a whole copy survives any failure; no edit is lost without a question |
| **Timestamps and incremental extraction** `database/DBtimestmp.c`, `extract/ExtMain.c` | a stamp per cell and per use, a list of mismatches, the stamps of `.ext` files | read, fix mismatches, stamp, save, extract | a parent that was not checked against its child is found; no `.ext` file of another layout is kept |
| **Tile planes and paint** `magic/tiles/`, `database/DBpaint.c` | corner-stitched planes with a hint; marks of a painting | split, join, find a point, search an area, paint | the tiles partition the plane and the stitches fit; searches are exact; painting is exact and leaves maximal strips |
| **Plow, router, extraction, CIF, LEF/DEF** `magic/plow`, `extract`, `cif`, `lef` ... | read the planes, write new ones or files | one command each | geometric |
| **Qflow driver and stage scripts** `qflow-1.2/scripts/{qflow.sh.in,placement,router,vesta,cleanup,display}.sh` | files and their time stamps; `synth.log` | one script per stage | no stale or failed result is used for a current one |
| **Synthesis script** `scripts/synthesize.sh` | list of source files, netlist files, the log | find the hierarchy, synthesize, buffer, convert | no netlist lost, every exit is honest, the loops end |
| **blifFanout** `qflow-1.2/src/blifFanout.c` | a netlist | size gates, insert buffers | nothing is disconnected, repeated passes converge |
| **Timing analysis** `qflow-1.2/src/vesta.c` | the netlist; marks and metrics on connections, shared backtraces, lists of paths | follow all paths from clock pins and inputs | the worst path to each end is found, memory of paths is counted right, loops end |
| **Netlist tools** `blif2Verilog.c`, `blif2BSpice.c`, ... | none across runs | convert | output equivalent to the input |
| **Graywolf flow driver** `graywolf/src/twflow` | graph of programs, file ages | run what is out of date | nothing out of date is skipped |
| **Graywolf placement programs, library** `twsc`, `twmc`, `Ylib` | placements; sets, queues, heaps | anneal; data structures | legal placement; structural |
| **Qrouter** | (only its packaging is here) | | |
| **Yosys, Verilator** | (vendored) | | |
| **Install scripts, examples** | | | |

How they interact:

* `qflow.sh` writes `qflow_exec.sh`, one line per stage. The stages communicate **only through
  files**: a later script looks at whether a file exists and at its modification time (one-second
  resolution), at the last line of `synth.log` for an error condition, and the driver at exit codes.
* `synthesize.sh` runs yosys repeatedly and parses its error messages, then `blifFanout` repeatedly
  and takes its exit status as a count of changes.
* In Magic one thread runs everything. The dispatcher gives a command to a client; clients edit the
  database; each edit marks areas for the checker (`DRCCheckThis`) and records events (`UndoNewEvent`);
  the dispatcher closes the command (`UndoNext`), breaks a check in progress (`DRCBreak`) and leaves a
  call of the checker to Tcl for when it is idle. The checker disables undo while it works, and
  **lets Tcl handle events between two squares**, so that a whole command may run inside it.
* A save or a crash backup runs with interrupts disabled (`signals.c`), but SIGTERM writes all modified
  cells from its handler, wherever the program is. Reading a cell compares the stamps its parents
  recorded for it; mismatches are fixed after commands and within the checker.
* Painting a rectangle is the one place where all of tile splitting, joining, searching, undo recording
  and interrupts meet.
* Undo plays events by calling back the clients, which change the database without recording; the
  memory of a dropped event goes through `freeMagic`, which really frees it one call later.

The hard behaviours are therefore: re-entrancy through the Tcl event loop, a log that is rewired
while loops walk it, callbacks that depend on state left by earlier callbacks, files of earlier runs
that survive failures, saves that fail half way, signals in the middle of them, stamps that do not show
every change, pointers into structures that are cut and joined while they are searched, byte-wide exit
statuses, and loops whose end depends on other programs. `PROJECT.json` lists them as hazards at their
source lines, with the properties that cover them.

## 2. Modules

| Module | Models | Role |
|---|---|---|
| `Undo` | `utils/undo.c`, `utils/malloc.c` | the package, one loop iteration per step |
| `UndoStack` | | what the package promises: a stack of commands |
| `UndoRefinement` | | the mapping under which `Undo` implements `UndoStack` |
| `UndoInductive`, `UndoProofs` | | inductive invariant, theorems, the proof of that implementation |
| `UndoCells`, `UndoCellsProofs` | `database/DBundo.c`, `DBcellname.c` | paint events of several cells, over `UndoStack`; inductive invariant, theorems |
| `Drc`, `DrcProofs` | `drc/DRCcontin.c`, `DRCmain.c`, `textio/txCommands.c` | the checker within the event loop; inductive invariants, theorems |
| `Qflow`, `QflowProofs` | the driver and all stage scripts | files, ages, exit codes; inductive invariant, theorems |
| `Fanout` | `blifFanout.c` | pure operators: how a pass splits nets |
| `Synthesize`, `SynthesizeProofs` | `synthesize.sh` with `Fanout` | the script and theorems |
| `CellFile` | `database/DBio.c`, `CmdRS.c`, `CmdTZ.c`, `CmdSubrs.c`, `utils/signals.c`, `main.c` | saving, backup, recovery, crashes, SIGTERM |
| `CellFileInductive`, `CellFileProofs` | | inductive invariant, theorems |
| `Stamps` | `database/DBtimestmp.c`, `DBio.c`, `extract/ExtMain.c` | stamps of a hierarchy over sessions |
| `StampsProofs` | | inductive invariant, theorems |
| `Tiles` | `tiles/tile.c`, `tile.h` | operators: splits, joins, point search on a plane |
| `TilePlane` | the same, `tiles/search.c`, `search2.c` | any sequence of splits and joins |
| `Painting` | | what painting a rectangle promises, square by square |
| `PaintPlane` | `database/DBpaint.c` with `Tiles` | painting tile by tile; implements `Painting` |
| `Vesta` | `qflow-1.2/src/vesta.c` | the recursive path search, one call per step |
| `VestaProofs` | | inductive invariants of the counts, the paths and the worst paths; theorems |
| `MC*` | | constants for TLC |

### Undo

Addresses are positive integers in increasing order, `NULL` is 0 and `WILD` is what a read from
released memory gives. `node` is the heap (block ↦ event record), `freeDelayedItem` the static variable
of `malloc.c`; `undoLogHead`, `undoLogTail`, `undoLogCur`, `undoNumRecentEvents`, `undoNumCommands` and
`UndoDisableCount` are the variables of `undo.c`, and `iup`, `up`, `n`, `count` the locals of its
routines. `pc` says which loop the running routine is in. An entry point (`UndoNewEvent`, `UndoNext`,
`UndoBackward`, `UndoForward`, `UndoFlush`, ...) can be called only when none runs; the `...Loop`,
`...Test`, `...Play` and `...End` actions are its turns. Loops are stepped because they read a node's link right
*after* freeing it: with `freeMagic` as it is this is safe, with a `free` that works at once it is not
(a mutant shows it). `world` is the layout: the events whose effect it shows. `PlowRandomTest` is the
one caller that undoes in the middle of an open command; the ghost `tested` is set by it and cleared by the
next flush.

`UndoStack` knows only sets of events: done, open, undone. `UndoRefinement` computes them from the
log, at the moment a call takes effect, and holds what the proof adds to the log's invariant.

### UndoCells

Stands on `UndoStack` (which `Undo` implements) and adds what the events contain. Paint events name no
cell: `dbUndoEdit` puts close/open events around changes of cell, and `dbUndoLastCell` must follow them
in both directions. `def` in an event is a ghost: the cell that was meant. Cells are renamed and deleted
at any time between commands, whatever the log names. `DBUndoReset` flushes the log only when the cell
deleted is that of the last event; in all other cases an event may be left that names a cell by a name it
no longer has. The ghost `lostName` says so, until the log is flushed (section 4).

### Drc

There is one thread, so the model keeps a **stack of frames**: a call of `DRCContinuous` (about to look
for a square, letting Tcl handle events, or about to look at the status), a `def read` (which lets Tcl handle events
too), or a `drc catchup`. An event can be handled when the stack is empty or its top lets events be
handled; a command is an action that pushes nothing (it is over within the event), or a frame. `idle`
counts the calls of the checker left to Tcl. `DRCPending` is the list with the cell marked last in
front, `check` the squares of each cell that still have check tiles. `TxTclDispatch` sets the checker
to a neutral value during the command (`During`), restores it unless the command changed it
(`Dispatched`) and breaks the check. `userDisables` and `refused` are ghosts: the user's own part of
`UndoDisableCount`, and that the last command was taken by no client.

### CellFile

A layout is a version number, a `.mag` file the sequence of the copies written to it; reading a file
gives its first copy, a copy that was cut short reads as a layout nobody made. `DBCellWrite` runs one
file operation per step: open (a temporary file, the file itself to append to, or a new file), write,
rename or write again, test of the size, cleanup. Each may fail (`MaxFaults`), the user may interrupt
between any two, the process may be killed, and SIGTERM may run its handler, which is one step that
writes every modified cell. `numDisables`, `pending` and `received` are the variables of `signals.c`.
`warned` and `recovered` are ghosts for the two cases in which the code itself leaves the matter to the
user: a message told him to look after a copy by hand, and a cell that came from a crash backup.

### Stamps

A cell on disk has a stamp, a version, and what it expects of each child; in memory it is unknown, a
dummy that only has an expected stamp, or read. `mismatch` is the list of `DBFixMismatch`, whose loop
makes one turn per step and may find more mismatches. `seen` (the child's version the last check saw),
`old` (the layout is newer than its stamp), `blind` (children changed without a mismatch) and `passed`
(children whose mismatch the loop passed over, section 4) are ghosts; an `.ext` file has an `old` too.
The user loads cells in any order, edits, saves, extracts, or ends the session with or without saving.

### Tiles, TilePlane and PaintPlane

A plane is a function from tile names to records with the lower left corner, the four stitches, the type
and the mark; the four border tiles have fixed names. Right and top edges are read through the stitches,
as in the code. The y-variants of the split and join operators are the x-variants seen with the axes
exchanged, which the code has as mirrored text. Names are normalised after each step: a tile is named by
the place of its corner, so that planes that differ only in allocation are one state; a dangling stitch
keeps a name no tile has. Searches are functions that follow the code's loops.

`TilePlane` makes any split or join, and so reaches every plane of the grid. `PaintPlane` visits one tile
per step as `DBPaintPlane0` does: clipping in four directions, merging what was cut off, the cheap and the
full merge (`dbPaintMerge`), the undo event, the mark, and the move to the next tile. Before each the
user may interrupt. `undo` and `before` are the events and the colours since the painting began.
`Painting` knows only squares and colours; `PaintsTheArea` says that `PaintPlane` implements it.
A plane is painted again after an interrupt, in whatever strips it was left, and a painting that marks may
come upon marks that an earlier one left over: `op.leftover` says that there was one in its area when it
began, `untidy` that either has happened to this plane. If a visit then splits a tile at a place outside
it, against the assertion of `TiSplitY`, the code (built with -DNDEBUG) goes on with stitches that no longer
fit; the model stops there, with `pc = "broken"`.

### Vesta

`stack` holds the calls of `find_path_delay` in progress, each with its backtrace node and the recursive
calls it has left; a step is one call up to its first recursive call, or the end of one. `bt` are the
allocated nodes with their reference counts, `tag` the field that says whether a connection is on the
present path or which record it ends, `metric` the worst delay seen. `analysis` counts the four analyses
of `main()`; after the last search of one `Report` stands for the report, `FreePath` frees one path per
step and `AnalysisEnds` readies the inputs for the next. `ckt.receivers` are the arrays that `createLinks`
makes. A gate has one delay for a rising and one for a falling output, and each pin a sense; `icDelay`
is the delay of the wire to a connection, which a delay file gives (option `-d`).

### Qflow

`file` maps each of the project's files to its time stamp (0: missing) and to what the properties tell
apart of its content: made from the current source, spread, routed. `line` is the line of
`qflow_exec.sh`, `pc` the step in that line's script; each step is one tool with the spot check after
it. A tool works or leaves its output untouched. `Tick` may happen between any two steps, so that files
written in one run may have equal or different ages. tcsh's `-M` of a missing file counts as time 0.

### Synthesize and Fanout

The source tree is a record (which files can be read, which modules each defines, which it uses, which
are used with a wrong port); `uniquedeplist` is the script's list. Netlist files are none, empty, old
or new. `Fanout` models one pass of `blifFanout` as a function on bags of net sizes; its rounded root
(`pow` in floating point) is an integer root. How many gates need another strength after a pass is
nondeterministic (`weak`). The exit status is `% 256`.

## 3. Runs

| Run | Question | Bounds |
|---|---|---|
| `undo` | Under every sequence of calls, also `PlowRandomTest`'s: is the log one list (`LogWellLinked`), do the loops stay in it (`LoopsStayInLog`), do count and layout agree with it (`CommandCount`, `LayoutMatchesLog`), are events played in order (`PlayedInOrder`), does each routine return (`RoutinesReturn`)? And, except from `PlowRandomTest` taking back part of a command to the next flush: does the log implement the command stack (`ImplementsStack`), with the cursor rules of the comments (`CursorDiscipline`) and the counts it returns (`CountIsCommandsPlayed`)? | 3 commands kept, freed down to 1, 9 nodes, undo/redo of 1 or 2, 1 disable |
| `undo_cells` | With cells renamed and deleted at any time: until the log names a cell by a name it lost, are events played in their own cell (`PlaysOnRecordedCell`) and bounding boxes recomputed (`BboxesRecomputed`)? | 2 cells, 3 names, 8 events |
| `undo_cells_names` | Is the cell an event opens found by its name (`OpenedCellIsKnown`)? **violation**, section 4 | as `undo_cells` |
| `drc` | Is no marked area forgotten (`MarkedIsPending`), undo not left off (`UndoNotLeftOff`), work left scheduled (`WorkIsScheduled`) and finally done (`DrcCatchesUp`)? | a cell and its parent, 2 squares, 5 commands of 12 kinds |
| `cellfile` | Does a file never stop being whole (`ReadsOldOrNew`), is what differs from the disk flagged (`UnsavedIsFlagged`), does SIGTERM lose no layout (`TermLosesNothing`)? | 2 cells, one with a file; 3 versions, 2 copies in a file, one fault, one interrupt, one crash or SIGTERM |
| `stamps` | Is a parent that was not checked against its child found (`StaleIsKnown`), is a child with a later stamp noticed (`LaterChildIsNoticed`), does the extractor leave no file of another layout (`OwnLayoutExtracted`)? | a chain of 3 cells, one edit in all sessions, 3 seconds |
| `tiles` | Do the tiles partition the plane and the stitches fit (`PlaneSound`), do searches for points and areas give what is there, once (`SearchesExact`)? | all 25,505 planes of 3 by 4 |
| `paint` | Is each square of the area painted exactly once and no other, unless a mark was left over (`PaintsTheArea`), is the plane sound, with no tile split outside itself unless the plane is untidy (`PlaneSound`), and in maximal strips unless it is (`MaximalStrips`), do the undo events give back what was (`UndoRestores`)? | a plane of 4 by 4 used in one of four ways, see below |
| `qflow` | Over several runs with failing tools and edits: is the result current (`SuccessIsCurrent`), is nothing done after an error (`ErrorBlocks`), does the backup stay unrouted (`BackupStaysUnrouted`), does the display show the DEF file (`MagShowsDef`)? | 3 seconds, hence 3 runs or one run with 3 ages |
| `synthesize` | Are inputs and netlists kept (`SinksKept`, `NetlistNeverLost`), are exits honest (`CleanLogMeansCurrent`), does the script end (`ScriptEnds`) with buffers converged, unless a pass made a multiple of 256 changes (`FanoutConverged`)? | 3 modules, all their source trees; fanout limit 3, nets of up to 40 inputs, one netlist with 115 of them, 2 weak gates, 4 files found |
| `vesta` | Is no backtrace node freed while in use, or left over (`BacktraceCounted`), is the worst path to each end without a wire delay listed (`WorstPathsListed`), do the analyses end (`AnalysesEnd`)? | 2 gates, one of them with 2 inputs, a flop, an input and an output, connected in every way; 2 sets of delays, with and without wire delays |
| `vesta_edges` | Is each edge timed with its own table (`EdgesTimed`)? **violation**, section 4 | as `vesta` |

Why the bounds are enough to meet the interesting cases: with 3 commands kept and 1 left, `undoFreeHead`
frees two commands at once, and nodes remain to record, undo and truncate on what is left, while
the cursor can be before the first, on, or at the last node; what happens on longer logs is covered by the
proofs. In `drc` five commands suffice for a check nested in a check:
edit, off and on in the middle, and a second edit, with one left to break it; two squares are needed
for a break between squares, and the parent for marks that travel upwards. In `qflow` three seconds let
a file be older than, as old as, and newer than the one it is compared with, and let results of two
earlier runs be left. In `cellfile` two cells let a fault hit the second of a `writeall` or a backup after
the first, and three versions let disk, backup and memory all differ. In `stamps` a chain of three is
the least in which a change has to travel past a cell that did not change, and three seconds make a child
older than, as old as and newer than its parent. The grid of 3 by 4 has tiles with two neighbours on
each of their sides and joins next to the border. In `paint` a plane is used in one of four ways: every
rectangle in its middle that is not a whole row or column is painted and erased over what others left; four
rectangles are, with interrupts and paintings after them, which is enough to reach "broken"; the rectangles
of the lower left are painted with a table that counts how often; and six rectangles that overlap are painted
with two tables that mark, with interrupts, which leaves marks over and comes upon them. In `vesta` the
netlists include loops of one and of two gates, paths that rejoin, and clocks that come out of a gate; three
of the wires have a delay in half of them; each circuit is an initial state. In `synthesize` nets of 3, 5, 12
and 40 inputs need no, one, two and three levels of buffers and pairs of 4 and 11 leave remainders; the
netlist with two nets of 40 and 113 of 4 inputs makes exactly 256 changes in its first pass when no gate is
weak, and the loop ends with nets left that are too large; four files allow each used module to be found and
two more to be added that are of no help.

Deadlock is not checked where the system really stops: in `drc` the user stops after `MaxCommands`; in
`cellfile` and `stamps` the versions, the edits or the seconds are used up; in `paint` a
plane may be "broken"; `vesta` ends. All other runs check it.

Every property of a passing run has a mutant in `PROJECT.json`: a plausible error in one definition
under which that property fails.

### Fairness

* `Undo!FairSpec` has weak fairness of `Continue`: the package is entered by one thread, which keeps
  running until the routine returns. No user is obliged to call anything.
* `Drc!FairSpec` has weak fairness of `Magic`: a running check or command goes on, and Tcl runs idle
  calls when it has nothing else to do. No command is ever obliged to come, and the only thing that can
  postpone the checker is a bounded number of commands.
* `Synthesize!FairSpec` has weak fairness of the script (a shell goes on), and strong fairness of a
  pass of `blifFanout` that leaves no gate to resize: with the finite list of strengths of a library
  resizing settles. That the *buffering* converges is not assumed; it is checked.
* `Vesta!FairSpec` has weak fairness of `Next`: a sequential program that is not stopped goes on.

## 4. Findings

**Cells that the log names by a name they lost** (`undo_cells_names`). `dbUndoOpenCell` asserts that the cell
an event opens is found by its name (`DBundo.c:968`). A rename flushes nothing (`DBcellname.c:89-122`), and
a deletion flushes the log only when the cell is that of the last event (`DBcellname.c:237`, `DBundo.c:200`).
Paint in one cell, then in another, rename or delete the first, undo: the name is not in the table. The
assertion is compiled out (`-DNDEBUG`), so `dbUndoLastCell` becomes NULL and the events of the first cell are
dropped; a new cell of the old name would be painted in their place. `PlaysOnRecordedCell` and
`BboxesRecomputed` except the time from there to the next flush.

**Edges timed with the wrong table** (`vesta_edges`). `find_path_delay` passes `RISING` (1) or `FALLING`
(2) as the sense that `calc_prop_delay` compares with `SENSE_POSITIVE` (2) and `SENSE_NEGATIVE` (3). A
falling output is timed with the table for rising ones (a maximum path can come out too fast), a rising
output with the worse of the two.

### Seen while modelling

The following is what the code does and the models reproduce or assume away, at the place named. No run
claims the opposite.

*Undo and cells.* Cell use events keep pointers to definitions that a deletion frees (`DBundo.c:665`).

*Checker.* `undo disable` given during a check is taken back by `DRCBreak` (`DRCcontin.c:412`); `drc off`
given during a catch-up is lost (`DRCmain.c:801`); `drc catchup` given in an event that a background check
handles returns at once, and a command handled during it breaks it, although its comment promises to wait
(`DRCmain.c:800`); `drc off` and `drc on` during a check start a second one on top of it; a refused command
breaks the check and leaves nobody to resume it (`txCommands.c:1205`). `DrcCatchesUp` and
`WorkIsScheduled` except the time after a refused command and a pending interrupt.

*Cell files.* On the path of a new cell `DBCellWrite` enables interrupts it has not disabled
(`DBio.c:2657`): the count goes to −1, and disabled sections no longer hold interrupts back, which is why
`TermLosesNothing` excepts a pending interrupt while the count is not 0. Between clearing and restoring
the flags of a cell in `dbWriteBackupFunc` (3033-3036) a SIGTERM leaves that cell out. `CDMODIFIED` is
cleared before the rename or the second copy may fail, and only a message tells (2311, 2551). The backup is
opened with "w", which cuts the last good one (2986); a cell that cannot be written ends the backup early,
but the routine returns TRUE (2993). Recovered cells are not flagged (578, 765). The file is read again
after a save only to lock it, but a cell that is available is not read (2566).

*Stamps.* Stamps are seconds (`DBtimestmp.c:228`), and the model keeps sessions a second apart. A cell
that a loop of `DBFixMismatch` has processed is passed over when it is listed again (138), although another
cell read in the same loop may have listed it on behalf of a parent that had not been read before. Four cells
show it: `top` uses `middle` and `leaf`, `side` uses `leaf` and `middle`, `middle` uses `leaf`, and `leaf` was
edited elsewhere. That parent is not checked against the child, although "if the actual child timestamp is
ever found to be different, we must re-check interactions between that child and other pieces of the parent"
(51-54); and of a cell listed twice only the first area is looked at. `StaleIsKnown` and
`LaterChildIsNoticed` except those children (`passed`); it was the proof that came upon it, the chain of
three cells of the run has no such uses. When a cell is edited in the very second of its stamp, extracted,
and the session thrown away, its `.ext` file has the stamp of the file on disk and another layout:
`OwnLayoutExtracted` excepts a file made of a layout newer than its stamp. An extraction before the checker has
looked at a changed child leaves the parents with current stamps and old results (`ExtMain.c:531`); an
interrupted extraction leaves a cut file with the stamp of the cell (`ExtCell.c:228`).

*Painting.* An interrupt leaves a plane that is not in maximal strips. If it is painted again,
`dbPaintMerge`, which "depends on the maximum horizontal stripes rule" (`DBpaint.c:1873`), can lead the
search back to a tile above the area, and clipping it calls `TiSplitY` at the bottom of the tile itself
(contrary to the assertion of `tile.c:321`), which breaks the stitches. The run reaches it; `PlaneSound`
says that it happens in no plane but an untidy one. A tile that was marked as painted and sticks out of the
area is cut by a later merge of the same painting; the part outside keeps its mark (`DBpaint.c:1964`, against
`tile.h:65`), and the next painting that marks takes it for done. The run reaches this too; `PaintsTheArea`
excepts a painting that comes upon such a mark, and `MaximalStrips` the plane after it.

*Flow scripts.* After a `place2def` that wrote nothing, an existing routed `.def` passes the test and
becomes the unrouted backup (`placement.sh:258`). With `-f` the `.cel` file is rewritten before the `.acel`
annotation is compared with it (`placement.sh:200`), so that the script ends with status 2, and
`|| exit 1` ends the run (`qflow.sh.in:335`). A pass of `blifFanout` with exactly 256 changes has status 0
and ends the loop (in the run; `FanoutConverged` excepts it); one that fails has −1, that is 255, and the loop goes on (`synthesize.sh:482-497`). The
last spot check of `synthesize.sh` (544-568) cannot fail because the redirection creates its file. A
source file that defines no module is added for ever (133). With `-F 1` blifFanout does not end, and with
`-F 2` nets of three inputs are buffered again in every pass (`blifFanout.c:605`).

*Vesta.* `icDelay` is never set when no delay file is read (2735, `malloc`); the model has it as a constant
of the connection, 0 in half of the circuits. When one is read (option `-d`), the delay of a wire is recorded at the node
it ends at (1141), but neither handed on to the calls made from there (1160, 1164) nor part of what a new
path is compared with (1191, 1195): the comparison is between a delay without and one with the last wire.
In a maximum analysis a path that is longer by less than that wire's delay does not replace the recorded
one, and in a minimum analysis one that is longer by less than it does. The proof came upon it;
`WorstPathsListed` and the theorems on the worst paths except the ends whose last wire has a delay.
Without `-e` the search prunes on the delay of a connection whatever its edge, so it is complete only when
both edges of a gate take the same time, as the comment at 1111-1117 admits for transition times;
`WorstPathsListed` claims the worst path then, and with `-e` always. `~minmax` never equals
`MAXIMUM_TIME` and the delays it chooses among start at 0, so that clock skew comes out as 0.
`orderedpaths[0]` is read also when there is no path (3476). `find_clock_delay` and `find_clock_source`
have no test for loops.

## 5. Proofs

### Undo (`UndoInductive`, `UndoProofs`)

Assumed: only `LimitsAssumption` and the types of the bounds; `LOWCOMMANDS > 0` is what `undo.c` asks
for and is needed, since otherwise the freeing of old commands reaches the cursor.

None of the checked invariants is inductive: they say nothing about the log in the middle of a
rewiring, and "following `forw` from the head reaches the tail" is not a first-order statement. The
strengthening `IInv` rests on one observation: **addresses grow along the log**. `mallocMagic` hands out
new addresses in increasing order and every new node goes to the end, so "the node after p" is the least
log node above p (`Adjacent`), and reachability becomes a statement about a finite set of numbers.
(Real addresses need not grow; a node's number stands for its age.) Around it, `TruncatePlace`,
`FreeHeadPlace` and `PlayPlace` say where the pointers of each loop are and which links are being cut,
`CountPlace` what the command count is off by in the middle of a loop, `NoEmptyCommand` that undoing
whole commands always lands on a delimiter, and `ForgottenIsOlder` relates the layout to nodes that are
gone. `UndoProofs` has one lemma per action (`...IInv`), `StepIInv` puts them together, and

| Theorem | States |
|---|---|
| `Invariance` | `Spec => []IInv` |
| `TypeCorrect`, `WellLinked`, `LoopsAreSafe`, `CommandsCounted`, `LayoutMatches` | the invariants of run `undo`, for all limits and any number of nodes |
| `CursorIsDisciplined` | `CursorDiscipline`, which excepts the time from `PlowRandomTest` to the next flush |
| `PlayIsOrdered` | the action property `PlayedInOrder` |

### Undo implements UndoStack (`UndoProofs`)

`UndoCells` and every client stand on the promise that `undo k` takes back the k newest commands; this
proves that the linked log keeps it. A caller that undoes within a command breaks the stack's guards: from
`PlowRandomTest` to the next flush (`tested`) the log promises nothing (`Promised`), which for the stack is
that everything is forgotten; the flush empties the log, and from there on the promise is kept again.

* `CommandInv` (in `UndoRefinement`) is what `IInv` lacks: `count` is the number of delimiters between the
  cursor and the routine's position, one less while `UndoBackward` is among a command's events
  (`PlayCounts`), the position is on the proper side of the cursor (`PlayBounds`), and `undoFreeHead` leaves
  its loop with exactly `LOWCOMMANDS` delimiters past the head (`LowWaterMark`).
* `UndoStack` orders commands as sets of events and counts the newer ones; the code counts delimiters. The
  constant lemmas bridge that: commands that are not empty and follow one another can be told by their
  delimiters (`OrderIsExact`, `OrderCounts`), so the k newest commands are those whose delimiters have fewer
  than k delimiters above (`NewestCommands`, `OldestCommands`, `NewestNumbers`, `OldestNumbers`).
  `NoEmptyCommand` of `IInv` is what makes it true.
* One lemma per action: `UndoNewEvent` is `RecordEvent`, `UndoNext` is `CloseCommand`, the returns of
  `UndoBackward` and `UndoForward` are `UndoCommands(n)` and `RedoCommands(n)`, `UndoFlush` is `ForgetAll`;
  all other steps, those of truncation and of `undoFreeHead` among them, leave the stack as it is.

| Theorem | States |
|---|---|
| `UndoImplementsStack` | `Spec => ImplementsStack` |
| `CountsCommandsPlayed` | `CountIsCommandsPlayed` |

### UndoCells (`UndoCellsProofs`)

That undo and redo paint in the right cell is a statement about the next event only. The strengthening is
about the whole log: the cell an event is about is the one that the event before it left open (`ChainInv`),
a cell is closed only to open another within the same command (`WholeInv`), the names in the log are those
of its cells (`LogInv`), and `dbUndoLastCell` is the cell of the events on either side of the cut between what the layout
shows and what it does not (`CutInv`), which moves by one event at a time (`PlayInv`). Between the two events
that change the cell nothing is said of `dbUndoLastCell`, and nothing need be: that is why a command may not
end there, and why `DBUndoReset` must flush the log when it forgets the last cell. `BboxInv` adds that only
the cell being played in can need its bounding box. `EndCommand` forgets the oldest commands, so the log may
begin anywhere in a command's chain; the proof uses that the commands taken by `Newest` are the last ones.
All of this but the types and the shape of the log is asked for only while `lostName` is FALSE: a flush leaves no
event to be wrong about, and what is recorded after it forms a chain again whatever `dbUndoLastCell` is by then.

| Theorem | States |
|---|---|
| `Invariance` | `CellsSpec => []IInv` |
| `PlaysInTheRightCell`, `BboxesAreRight` | `PlaysOnRecordedCell`, `BboxesRecomputed` |

for any number of cells, names, commands and events, assuming that the null pointer is no cell
(`NoDefAssumption`) and the limits are natural numbers (`CountsAssumption`).

### Synthesize (`SynthesizeProofs`)

`FilesInv` says, for each step of the script, which netlist files may be missing or old; it is
inductive together with the range of `pc`. From it follow `NetlistKept` (no netlist is lost, wherever
the script fails or is interrupted) and `LogIsHonest` (each end leaves an error line or a current
netlist, if no unchecked tool failed), for every source tree, library and fanout limit of at least 2.

`InputsAreKept` states `SinksKept`, for any netlists that are bags of finitely many nets
(`NetlistsAssumption`) and any limit of at least 2. Three groups of lemmas carry it:

* sums: `SumFunction` adds up a function in an order given by CHOOSE. Its sum exists for every finite set
  (`AddingExists`), no order matters (`SumFacts`), sums add, scale and drop zeros (`SumPlus`, `SumTimes`,
  `SumOfPart`), and a sum over pairs is the same by rows and by columns (`SumsOfSums`). They go by induction
  on the set (`GrowingSets`);
* arithmetic: powers grow (`PowerGrows`), so the loop that counts stages ends (`StagesFacts`) and the root
  exists, between 1 and N (`NumBufFacts`);
* the split: a net of N inputs becomes n buffers on one net and n nets that share the N inputs, so that each
  buffer's input is one input too many (`SplitKeepsSinks`). That holds for any n in 1..N: how `pow` rounds
  can change how balanced the groups are, but cannot disconnect an input. Summed over the nets by size it
  says that a pass keeps `Sinks` (`BufferingKeepsSinks`), and that is the step of the invariant (`NetsInv`).

`TypeCorrect` is the type invariant; that what blifFanout writes is again a netlist and what the shell
reads is a byte rests on the same lemmas. `FanoutConverges` states `FanoutConverged`: whatever the netlist,
the loop ends converged or after a pass whose changes are a positive multiple of 256.

### Drc (`DrcProofs`)

Three invariants, each with its own strengthening:

* `UndoNotLeftOff` bounds `UndoDisableCount` by the user's own disables, the DEF reads on the stack, and one
  for a check that is about to look for a square. It is inductive together with the types of the count, of
  the setting and of the frames (`CountTypes`); each lemma says what a step does to the bound when a frame is
  pushed, replaced or taken off (`Bound`).
* `MarkInv` adds the types of the marks to `MarkedIsPending`. What needs a proof is the list: marking a cell
  moves it and all the cells above it to the front (`AllMovedToFront`, over the recursion that walks the
  ancestors) and a checked cell is taken out wherever it is by then (`KnockedOff`); neither may drop or double
  another cell.
* `SchedInv` says who will go on. A check in progress is one of the frames (`HasCheck`), frames stay nested
  (only a check, a DEF read or a catch-up that lets events be handled has a frame above it, `Nested`), and
  when a check has been told to break, the frame on top is about to see it and a call has been left to Tcl,
  unless the command that broke it was refused. `WorkIsScheduled` alone does not survive the end of the
  broken check.

| Theorem | States |
|---|---|
| `UndoComesBack` | `UndoNotLeftOff` |
| `NothingForgotten` | `MarkedIsPending` |
| `CheckerIsCalled` | `WorkIsScheduled` |

for any number of cells, squares and commands and any nesting of checks, commands and DEF reads.

### Stamps (`StampsProofs`)

The properties speak of two cells that are both in memory; whether their stamps tell the truth was decided
in earlier sessions, on disk, by cells that were not in memory together. The invariant `Inv` therefore ranges
over the files, the extracted files and the memory at once, and takes for `Current(c)` the cell in memory, or
else in its file:

* stamps are of the past (`StampsPast`), and a stamp of this very second is still the cell's own (`Fresh`):
  a file, an `.ext` file or an expectation with this second's stamp belongs to a cell that has it now.
  Sessions are a second apart, so a new session starts without any;
* two copies of a cell with one stamp are one layout, unless one of them is newer than its stamp
  (`CopiesAgree`). `OwnLayoutExtracted` follows from this part;
* a parent's file that expects the stamp a copy of the child has, was checked against that copy, or says why
  not (`DiskStale`); in memory likewise for children that are dummies (`DummyStale`) and that are read
  (`MemStale`, which is `StaleIsKnown`), with the mismatches found so far;
* a file older than it expects its child to be has marks or a passed mismatch (`DiskLater`); in memory
  `MemLater` is `LaterChildIsNoticed`. Files need no clause for `getnew`, because a save stamps first.

The proof has one lemma per effect on the memory - reading a cell (`Reading`), more mismatches or marks
(`Widening`), a check (`Rechecking`), an edit with its marks upwards (`Editing`), the stamps (`Stamping`), a
save (`Saving`), an extraction (`Extracting`) - and one per action. `Tree`, `Above` and `Found` are recursive
functions: that they exist and what they contain is proved first (`TreeFacts`, `AboveFacts`, `FoundFacts`) by
the lemmas on induction, the first two by induction on how deep a cell is used. That reading a
tree reads all cells below and no more, in any order of uses, is `TreeRead`.

| Theorem | States |
|---|---|
| `TypeCorrect` | `Spec => []TypeOK` |
| `StaleParentsAreKnown` | `StaleIsKnown` |
| `LaterChildrenAreNoticed` | `LaterChildIsNoticed` |
| `ExtractedLayoutIsOwn` | the action property `OwnLayoutExtracted` |

for every hierarchy of cells and any seconds and edits, assuming that cells are finitely many and use
cells (`UsesAssumption`), that none uses itself through others (`NotCircular`: circular uses are ignored by
`DBCellRead`, `DBio.c:1280`), and the types of the bounds. The proof attempt corrected the model twice: the
exceptions for `passed` and for `.ext` files of layouts newer than their stamp are section 4's.

### Vesta (`VestaProofs`)

`BacktraceCounted` counts uses of nodes, but whether the count stays right depends on who may use what: a
replaced path gives its nodes back, which only works if the connection's tag leads to the record of a path
that ends there, and a path is counted twice on a node if a call is on the stack twice. The invariant `Inv`
therefore says of the recursion: each call passes another connection with another node, and those
connections are marked (`Following`, the loop test's reason); each record of the present search is the one
its end is tagged with, and every tag that is no mark leads to the record that ends there (`Tagged`);
inputs never carry a record's tag (`InputsUntagged`, which is why they need not be reset with the
receivers); the recorded paths are distinct lists of distinct nodes (`Listed`). `find_path_delay` is proved
once for any caller, and then used by `StartSearch` and `Recurse`. The lemmas below it say what taking and
giving back a list of nodes does to the counts (`PathHeld`, `PathReleased`, `CallReleased`) and to a list
of records (`OneMore`, `OneReplaced`, `OneFewer`).

That is half of what vesta promises: nothing is said yet of what the paths are, or of what is missing. Four
more invariants, each resting on the ones before, lead to `WorstPathsListed`:

* `RealInv`: the nodes of the calls in progress are calls that follow from one another, back to the first
  call of the search (`Leads`), and the same is true of each recorded path (`Real`). What makes it last is
  that a node that is in use never changes but for its count (`Agree`), which is what `Inv` is needed for.
  Paths of one search have one start and different ends, and searches have different starts (`OneEach`).
* `EndsInv`: nothing is out of reach. While a call is in progress, what its net drives has been seen or is
  still to be called; a connection has been seen if its metric is no longer the one it began with or, for
  an end, if its tag leads to a record (`Seen`, `Reaching`, `GoingOn`). This needs the inputs to be readied
  before the analyses that start at them (`Fresh`), and no call to be cut short for the first time by a
  metric: that is the hypothesis `InRange`. When the search is over, induction along a way shows that its
  end was seen (`SearchReaches`).
* `ExhaustiveInv`, with `-e`: of each way either some call in progress is on it with its next call still to
  be made (`Pending`), or a path as bad is recorded (`Covered`).
* `PrunedInv`, without `-e`: a metric is a promise (`Promised`), that every route to an end that leaves its
  connection so late or earlier has been matched by a record as bad; and of the routes from a call in
  progress each is matched, still to be called, or what the call above is after (`Explored`). A call may
  be cut short because of that promise, and makes it when it returns. Without loops it is never cut short
  by a mark (`NeverLooped`); with edges alike it makes no difference which edge a route leaves with.

The ways of `WorstPathsListed` are given by a recursive function over sets of records. `StepsExist` shows that
there is one, and `WaysAreWalks` that its values are the walks of the proofs, in both directions.

| Theorem | States |
|---|---|
| `Invariance`, `TypeCorrect` | `Spec => []Inv`, `Spec => []TypeOK` |
| `BacktracesAreCounted` | `BacktraceCounted` |
| `RealInvariance`, `EndsInvariance`, `WaysInvariance` | `RealInv`; `EndsInv`; `ExhaustiveInv` and `PrunedInv` with them |
| `ReportedPathsAreReal`, `PathsAreKeptOnce` | each listed path is one a signal can take, from a starting point to an end; one for each start and end |
| `NoBadEndpointTag`, `RecursionIsBounded`, `AllNodesAreFreed` | the error message is never printed; no more calls than connections; nothing is left over |
| `EveryEndIsReported` | if `InRange`: every end that a signal can reach is listed, with and without `-e`, with and without loops |
| `WorstPathsAreReported` | with `-e`, or with `InRange`, `EdgesAlike` and no loops: each end without a wire delay by a path as bad as any |
| `WorstPathsAreListed` | if `InRange`: `WorstPathsListed` |

for every netlist and library with and without `-e`, any order of the connections and any number of nodes.
Assumed: `ConnectionsAssumption` (the lists name each connection once, inputs are not driven, the inputs of
registers are inputs of instances) and `CircuitsAssumption` (the receivers of a net are connections that
nets drive). Neither excludes loops, nets without receivers, or pins driven by two nets. Two hypotheses
are about the delays. `InRange`: the delay of each call lies between 0 and the metric that the minimum
analyses begin with (1E50 in the code); a call earlier than 0 would be cut short in a maximum analysis by
metrics that begin at −1. `EdgesAlike` and no loops are asked for where `WorstPathsListed` itself asks for
them (`Complete`). For an end with a wire delay (`Wired`) nothing is claimed but that it is listed (section
4); the delays of the other wires play no part in the promises of the metrics. The circuits of the run are
`InRange`, and some are without loops and alike, some not. The proof attempt made two changes to the model: `calc_dir` and `calc_prop_delay` had CASEs that
overlapped for connections without a pin, and freeing the paths was one step for all of them.

### Induction

The library states induction with operators as parameters, which the provers cannot instantiate.
`DrcProofs`, `StampsProofs`, `SynthesizeProofs` and the second half of `VestaProofs` each begin by stating what they need of it with sets
instead: a non-empty set of numbers has a least one (`LeastNumber`, from the well-foundedness of `<`), what
a step hands on holds up to n, a function defined from its value at the number before exists
(`IterationExists`), and one defined from its values at elements of lower rank exists. Recursive
definitions over a CHOOSE are then reasoned about by their equation.

### CellFile (`CellFileInductive`, `CellFileProofs`)

`UnsavedIsFlagged` only speaks of the moments between commands. The strengthening says what holds in the
middle: the temporary file exists during a save that uses one and is whole when it is renamed (`TempInv`);
a file that is appended to ends with the torn copy, and what was there before it is untouched (`FileInv`);
until the new copy is whole its cell is flagged, came from a backup, or is empty (`FlagInv`); and every cell
that is neither flagged nor recovered is kept: what its file reads as, or warned about and in some file
(`KeptInv`, with the cell of the current save in between). `FlagInv` is why the handler of SIGTERM finds
what it needs, and why clearing `CDMODIFIED` before the copy is whole would lose work. From it follow

| Theorem | States |
|---|---|
| `Invariance` | `Spec => []IInv` |
| `QuitIsSafe` | `UnsavedIsFlagged` |
| `FilesStayWhole` | the action property `ReadsOldOrNew` |
| `TermIsSafe` | the action property `TermLosesNothing` |

for any number of cells, copies, failures, interrupts and crashes (the run has one of each), with
`CellFileAssumption` alone. The proof attempt corrected `TermLosesNothing`: after two crashes a cell whose
file was torn is in memory as what the torn file reads as, which is in no file as a copy; the property now
says so. The run was repeated once with two crashes and one interrupt (3.4 million states).

### Qflow (`QflowProofs`)

The four theorems speak of one step or of the end of a run; why they hold is spread over the steps before.
`LineInv` says where the shell is: scripts run in the order of the driver's lines, and each step belongs to
the script of its line. `ErrorInv` is the gate: with an error in `synth.log` nobody gets past the first step
of placement or routing. `RouteInv` says that the routed DEF file exists only inside `router.sh`, so that
`BackupInv` can say that placement backs up a DEF file that has not been routed. `MagInv` justifies
`display.sh`'s test of ages: a layout more recent than the DEF file was read from it. `FreshInv` lists, step
by step, which files come from the source as it is; its first part, that an annotated `.acel` file is of an
earlier second until this run routes, is what makes the choice between `.cel` and `.acel` by age sound.

| Theorem | States |
|---|---|
| `Invariance`, `TypeCorrect` | `Spec => []IInv`, `Spec => []TypeOK` |
| `ErrorsBlock` | `ErrorBlocks` |
| `BackupIsUnrouted` | `BackupStaysUnrouted` |
| `RunsAreCurrent` | `SuccessIsCurrent` |
| `DisplayShowsDef` | `MagShowsDef` |

for any number of runs and edits and every combination of failing tools, with `MaxTimeAssumption` alone. That
two runs are a second apart is built into the model (section 6) and used by `FreshInv`.

### Model-checked only

* liveness: `RoutinesReturn`, `ScriptEnds`, `DrcCatchesUp`, `AnalysesEnd` (temporal logic with fairness);
* `SearchesExact`, `PaintsTheArea`, `PlaneSound`, `MaximalStrips` and `UndoRestores`: searches and paintings
  are chains of stitches through a plane of any size, with splits and joins in the middle;
* `EdgesTimed` of `Vesta` and `OpenedCellIsKnown` of `UndoCells` are violated (section 4).

## 6. Assumptions and what is left out

* **Undo**: clients behave alike, their callbacks are exact inverses and do not call undo routines other
  than those modelled; events are never too large for memory.
* **UndoCells**: label and cell use events; cell definitions are not freed and reused under a pointer.
* **Drc**: the rules and the error tiles; cells that a check itself reads on demand and time stamps that
  do not match (`DBFixMismatch`); read-only and internal cells; several windows. A DEF read is an
  operation that lets Tcl handle events and marks no areas of its own except those of the cells it loads.
* **Qflow**: at least a second passes between two runs (otherwise ages of different runs cannot be told
  apart at all); the scripts' arguments and the technology files are right.
* **Synthesize**: the text edits of `ypostproc.tcl` and `sed`; yosys writes a whole netlist or none;
  module names have more than one character. `ScriptEnds` is claimed for trees in which each file
  defines some module, and for libraries that have gates and buffers. Failures of the tools that no test
  looks after are recorded in `unnoticed`.
* **CellFile**: the syntax of the files, file locks, read-only cells, saving under another name; the
  handler of SIGTERM is one step, and no two faults hit one run.
* **Stamps**: areas of mismatches, `CDSTAMPSCHANGED`, what is extracted; an extraction is one step.
* **Tiles, PaintPlane**: tiles split by a diagonal, `DBPaintPlaneVert`, `DBPaintPlaneActive`, `DBPaintType`,
  searches whose client changes the plane. What the code does to a plane after it has split a tile outside
  itself, with stitches that no longer fit, is not followed.
* **Vesta**: transition times, clock skew, setup and hold, gates with several outputs (the search follows
  only the first), the readers and the report.
* **Not modelled at all**: yosys and verilator (vendored), qrouter (absent), graywolf's annealing and
  Magic's geometric algorithms (numeric, sequential, their correctness is about coordinates), the
  netlist converters (sequential text processing), install scripts.

## 7. Plan

Done, in the order of importance chosen: `Undo` with its abstract specification and proofs, `UndoCells`,
`Qflow`, `Synthesize` with `Fanout` and proofs, `Drc`, `CellFile` with signals, `Stamps`, `Tiles` with
`TilePlane`, `PaintPlane` and its abstract specification `Painting`, `Vesta`; proofs about
`UndoCells`, `Drc`, `CellFile`, `Qflow`, `Synthesize`, `Stamps` and `Vesta`, and the proof that `Undo` implements `UndoStack`.

Next:

1. Tile planes: the lemmas that a split keeps a plane sound.
2. Graywolf's flow driver: the graph of placement programs and its test of ages, with the same clock as
   `Qflow`; `UndoCells`: cell use and label events.
