------------------------------ MODULE CellFile ------------------------------
(***************************************************************************)
(* Magic's cell files: how DBio.c writes a cell through a temporary file,  *)
(* the crash backup that holds every modified cell, what a new session     *)
(* finds after a crash or a SIGTERM, and the disabling of interrupts       *)
(* (signals.c) around it all.                                              *)
(*                                                                         *)
(* A layout is a version number: every edit makes a new one.  A file is    *)
(* the sequence of the copies written to it, and reading it yields the     *)
(* first one.  The user, the disk and the signals are the environment.     *)
(***************************************************************************)
EXTENDS Integers, Sequences, SequencesExt

CONSTANTS Cells,         \* the cells of the session
          OldCells,      \* those that have a file when the first session starts
          MaxVersion,    \* bound: versions the edits may produce
          MaxCopies,     \* bound: copies in a file that is saved by appending to it
          MaxFaults,     \* bound: operations of the file system that fail
          MaxInterrupts, \* bound: interrupts from the user
          MaxCrashes     \* bound: sessions that end in a crash or a SIGTERM

ASSUME CellFileAssumption ==
    /\ OldCells \subseteq Cells
    /\ MaxVersion \in Nat \ {0}
    /\ {MaxCopies, MaxFaults, MaxInterrupts, MaxCrashes} \subseteq Nat

VARIABLES
    file,        \* cell -> copies in its .mag file, for the files that exist
    temp,        \* cell -> copies in the temporary file of the current save
    strays,      \* whole copies left under temporary names, <<cell, version>>
    backups,     \* the crash backup files, the most recent first
    mem,         \* cell -> version in memory, for the cells read in
    modified,    \* cells flagged CDMODIFIED
    backupName,  \* DBbackupFile is set: the first backup is this session's
    version,     \* the last version an edit made
    numDisables, pending, received,  \* sigNumDisables, SigInterruptPending, sigInterruptReceived
    pc, cell, kind, todo,  \* where the save or backup is, its cell, how it writes, cells left
    warned,      \* cells whose user was told to look after a copy by hand
    recovered,   \* cells read from a backup and neither edited nor saved since
    budget       \* what is left of MaxFaults, MaxInterrupts and MaxCrashes

disk == <<file, temp, strays, backups>>
session == <<mem, modified, backupName, version>>
signals == <<numDisables, pending, received>>
save == <<pc, cell, kind, todo>>
history == <<warned, recovered>>
vars == <<disk, session, signals, save, history, budget>>

Empty == 0       \* the layout of a cell nothing was painted in
Torn == -1       \* a copy in a file that is not complete
Garbled == -2    \* a layout no edit made: what a torn copy reads as, or two versions
                 \* painted over each other
Nobody == CHOOSE c \in Cells : TRUE

Without(f, S) == [x \in DOMAIN f \ S |-> f[x]]
With(f, x, e) == [y \in DOMAIN f \union {x} |-> IF y = x THEN e ELSE f[y]]

\* A file that starts with a complete copy reads as that copy.
Whole(c) == c \in DOMAIN file /\ file[c] # <<>> /\ Head(file[c]) # Torn

\* What reading a cell's file puts in memory.
Reads(c) == IF c \notin DOMAIN file THEN Empty
            ELSE IF Whole(c) THEN Head(file[c]) ELSE Garbled

\* Some file a user can find holds this version of the cell.
OnDisk(c, v) ==
    \/ c \in DOMAIN file /\ v \in ToSet(file[c])
    \/ <<c, v>> \in strays
    \/ \E b \in ToSet(backups) : c \in DOMAIN b.copies /\ b.copies[c] = v

Fault == /\ budget.faults > 0
         /\ budget' = [budget EXCEPT !.faults = @ - 1]

NoFault == UNCHANGED budget

\* The locals of a save or a backup that is over.
NoCell == cell' = Nobody /\ kind' = "none"

-----------------------------------------------------------------------------
(* Interrupts *)

SigDisableInterrupts ==
    /\ numDisables' = numDisables + 1
    /\ IF numDisables = 0 THEN received' = pending /\ pending' = FALSE
                          ELSE UNCHANGED <<received, pending>>

SigEnableInterrupts ==
    /\ numDisables' = numDisables - 1
    /\ IF numDisables = 1 THEN pending' = received /\ received' = FALSE
                          ELSE UNCHANGED <<received, pending>>

sigOnInterrupt ==
    /\ pc # "dead" /\ budget.interrupts > 0
    /\ budget' = [budget EXCEPT !.interrupts = @ - 1]
    /\ IF numDisables # 0 THEN received' = TRUE /\ UNCHANGED pending
                          ELSE pending' = TRUE /\ UNCHANGED received
    /\ UNCHANGED <<numDisables, disk, session, save, history>>

\* The dispatch of a command forgets an interrupt nobody looked at.
Dispatch == /\ pc = "idle"
            /\ pending' = FALSE
            /\ UNCHANGED <<numDisables, received>>

-----------------------------------------------------------------------------
(* Commands on cells in memory *)

\* Reads a cell in.
DBCellRead(c) ==
    /\ Dispatch /\ c \notin DOMAIN mem
    /\ mem' = With(mem, c, Reads(c))
    /\ UNCHANGED <<disk, modified, backupName, version, save, history, budget>>

Edit(c) ==
    /\ Dispatch /\ c \in DOMAIN mem /\ version < MaxVersion
    /\ version' = version + 1
    /\ mem' = [mem EXCEPT ![c] = version + 1]
    /\ modified' = modified \union {c}
    /\ recovered' = recovered \ {c}
    /\ UNCHANGED <<disk, backupName, save, warned, budget>>

\* "flush": throws the edits away and reads the file again.
cmdFlushCell(c) ==
    /\ Dispatch /\ c \in DOMAIN mem
    /\ mem' = [mem EXCEPT ![c] = Reads(c)]
    /\ modified' = modified \ {c}
    /\ recovered' = recovered \ {c}
    /\ UNCHANGED <<disk, backupName, version, save, warned, budget>>

-----------------------------------------------------------------------------
(* Saving a cell *)

\* "save" writes one cell, "writeall" those modified cells the user accepts.
\* As a bound, an unmodified cell is only saved when it has no file.
CmdSave(c) ==
    /\ Dispatch /\ c \in DOMAIN mem
    /\ c \in modified \/ c \notin DOMAIN file
    /\ cell' = c /\ todo' = {} /\ pc' = "open"
    /\ UNCHANGED <<kind, disk, session, history, budget>>

CmdWriteall ==
    /\ Dispatch
    /\ \E S \in SUBSET modified : todo' = S /\ S # {}
    /\ pc' = "next"
    /\ UNCHANGED <<cell, kind, disk, session, history, budget>>

cmdWriteallFunc ==
    /\ pc = "next"
    /\ IF pending
       THEN pc' = "idle" /\ todo' = {} /\ UNCHANGED cell
       ELSE \E c \in todo : cell' = c /\ todo' = todo \ {c} /\ pc' = "open"
    /\ UNCHANGED <<kind, disk, session, signals, history, budget>>

\* DBCellWrite with a file to replace: the copy goes to a temporary file or,
\* when the directory admits none, to the end of the file itself.
OpenExisting ==
    /\ pc = "open" /\ cell \in DOMAIN file
    /\ SigDisableInterrupts
    /\ \/ /\ temp' = With(temp, cell, <<>>)
          /\ kind' = "temp" /\ pc' = "begin"
          /\ NoFault
       \/ /\ kind' = "append" /\ pc' = "begin"
          /\ Len(file[cell]) < MaxCopies
          /\ NoFault /\ UNCHANGED temp
       \/ /\ pc' = "cleanup"
          /\ Fault /\ UNCHANGED <<temp, kind>>
    /\ UNCHANGED <<file, strays, backups, session, cell, todo, history>>

\* DBCellWrite of a cell without a file: no temporary file, and interrupts
\* are left as they are.
OpenNew ==
    /\ pc = "open" /\ cell \notin DOMAIN file
    /\ \/ /\ file' = With(file, cell, <<>>)
          /\ kind' = "new" /\ pc' = "begin"
          /\ NoFault /\ UNCHANGED modified
       \/ /\ modified' = modified \union {cell}
          /\ pc' = "cleanup"
          /\ Fault /\ UNCHANGED <<file, kind>>
    /\ UNCHANGED <<temp, strays, backups, mem, backupName, version,
                   signals, cell, todo, history>>

\* The file being written, with its last copy replaced by what \E put there.
Put(copies) ==
    IF kind = "temp" THEN temp' = [temp EXCEPT ![cell] = copies] /\ UNCHANGED file
                     ELSE file' = [file EXCEPT ![cell] = copies] /\ UNCHANGED temp

Target == IF kind = "temp" THEN temp[cell] ELSE file[cell]

\* The flag of a cell stays set until the whole copy is written.
FlagsDuringWrite_Cleared == modified \ {cell}
FlagsDuringWrite == modified

\* DBCellWriteFile starts: until it is done the copy it writes is torn.
WriteBegins ==
    /\ pc = "begin"
    /\ SigDisableInterrupts
    /\ Put(Append(Target, Torn))
    /\ modified' = FlagsDuringWrite
    /\ pc' = "write"
    /\ UNCHANGED <<strays, backups, mem, backupName, version, cell, kind, todo, history, budget>>

\* DBCellWriteFile returns TRUE.  A copy appended to a file that was not empty
\* is written a second time: the stream was rewound, but appends all the same.
WriteEnds ==
    /\ pc = "write"
    /\ Put(Append(Front(Target), mem[cell]))
    /\ modified' = modified \ {cell}
    /\ recovered' = recovered \ {cell}
    /\ SigEnableInterrupts
    /\ IF kind = "append" /\ Len(Target) > 1
       THEN kind' = "rewrite" /\ pc' = "begin"
       ELSE /\ pc' = IF kind = "temp" THEN "rename" ELSE "check"
            /\ UNCHANGED kind
    /\ UNCHANGED <<strays, backups, mem, backupName, version, cell, todo, warned, budget>>

\* A temporary file that could not be written is removed.
UnlinkTemp_RealToo == temp' = Without(temp, {cell}) /\ file' = Without(file, {cell})
UnlinkTemp == temp' = Without(temp, {cell}) /\ UNCHANGED file

\* DBCellWriteFile returns FALSE: the disk is full, or the search of the paint
\* stopped at a pending interrupt.
WriteFails ==
    /\ pc = "write"
    /\ \/ Fault
       \/ pending /\ NoFault
    /\ \/ /\ kind = "temp"
          /\ UnlinkTemp /\ UNCHANGED warned
       \/ /\ kind = "new"
          /\ file' = Without(file, {cell}) /\ UNCHANGED <<temp, warned>>
       \/ /\ kind = "append"
          /\ Put(Front(Target)) /\ UNCHANGED warned
       \/ /\ kind = "rewrite"
          /\ warned' = warned \union {cell} /\ UNCHANGED <<file, temp>>
    /\ SigEnableInterrupts
    /\ pc' = "cleanup"
    /\ UNCHANGED <<strays, backups, session, cell, kind, todo, recovered>>

\* The rename that puts the new copy in place.
Rename ==
    /\ pc = "rename"
    /\ temp' = Without(temp, {cell})
    /\ \/ /\ file' = [file EXCEPT ![cell] = temp[cell]]
          /\ pc' = "check"
          /\ NoFault /\ UNCHANGED <<strays, warned>>
       \/ /\ strays' = strays \union {<<cell, Head(temp[cell])>>}
          /\ warned' = warned \union {cell}
          /\ pc' = "cleanup"
          /\ Fault /\ UNCHANGED file
    /\ UNCHANGED <<backups, session, signals, cell, kind, todo, recovered>>

\* The file must now have the size of one copy.
SizeWrong_Unchecked == FALSE
SizeWrong == Len(file[cell]) # 1

CheckSize ==
    /\ pc = "check"
    /\ modified' = IF SizeWrong THEN modified \union {cell} ELSE modified
    /\ pc' = "cleanup"
    /\ UNCHANGED <<disk, mem, backupName, version, signals, cell, kind, todo, history, budget>>

Cleanup ==
    /\ pc = "cleanup"
    /\ SigEnableInterrupts
    /\ pc' = IF todo = {} THEN "idle" ELSE "next"
    /\ NoCell
    /\ UNCHANGED <<disk, session, todo, history, budget>>

-----------------------------------------------------------------------------
(* The crash backup *)

\* "crash save", also run every ten minutes: the file is truncated first.
DBWriteBackup ==
    /\ Dispatch /\ modified # {}
    /\ backups' = <<[copies |-> <<>>, whole |-> FALSE]>> \o
                  (IF backupName THEN Tail(backups) ELSE backups)
    /\ backupName' = TRUE
    /\ todo' = modified /\ pc' = "backup"
    /\ UNCHANGED <<file, temp, strays, mem, modified, version, cell, kind, history, budget>>

\* dbWriteBackupFunc writes a cell with DBCellWriteFile; one that could not be
\* written ends the enumeration.
BackupBegins ==
    /\ pc = "backup"
    /\ \E c \in todo : /\ cell' = c /\ todo' = todo \ {c}
                       /\ backups' = [backups EXCEPT ![1].copies = With(@, c, Torn)]
    /\ SigDisableInterrupts
    /\ pc' = "copy"
    /\ UNCHANGED <<file, temp, strays, session, kind, history, budget>>

BackupEnds ==
    /\ pc = "copy"
    /\ SigEnableInterrupts
    /\ \/ /\ backups' = [backups EXCEPT ![1].copies[cell] = mem[cell]]
          /\ modified' = modified \ {cell}
          /\ pc' = "restore" /\ UNCHANGED todo
          /\ NoFault
       \/ /\ todo' = {} /\ pc' = "backup"
          /\ UNCHANGED <<backups, modified>>
          /\ Fault \/ (pending /\ NoFault)
    /\ UNCHANGED <<file, temp, strays, mem, backupName, version, cell, kind, history>>

\* DBCellWriteFile cleared the flags of the cell: they are put back.
RestoreFlags ==
    /\ pc = "restore"
    /\ modified' = modified \union {cell}
    /\ pc' = "backup"
    /\ UNCHANGED <<disk, mem, backupName, version, signals, cell, kind, todo, history, budget>>

EndBackup ==
    /\ pc = "backup" /\ todo = {}
    /\ backups' = [backups EXCEPT ![1].whole = TRUE]
    /\ pc' = "idle" /\ NoCell
    /\ UNCHANGED <<file, temp, strays, session, signals, todo, history, budget>>

\* "crash recover": paints the copies into the cells, new or already read in,
\* and clears their flags.  Only a backup that could be read to its end goes.
DBFileRecovery ==
    /\ Dispatch /\ ~backupName /\ backups # <<>>
    /\ LET copies == Head(backups).copies
           Read(c) == IF \/ copies[c] = Torn
                         \/ c \in DOMAIN mem /\ mem[c] \notin {Empty, copies[c]}
                      THEN Garbled ELSE copies[c]
           torn == \E c \in DOMAIN copies : copies[c] = Torn
       IN /\ mem' = [c \in DOMAIN copies \union DOMAIN mem |->
                       IF c \in DOMAIN copies THEN Read(c) ELSE mem[c]]
          /\ modified' = modified \ DOMAIN copies
          /\ recovered' = recovered \union DOMAIN copies
          /\ backups' = IF Head(backups).whole /\ ~torn THEN Tail(backups) ELSE backups
    /\ UNCHANGED <<file, temp, strays, backupName, version, save, warned, budget>>

-----------------------------------------------------------------------------
(* The end of a session, and the next one *)

\* What a session leaves behind: the temporary file it was writing, if whole.
EndSession ==
    /\ strays' = strays \union
                 {<<c, temp[c][1]>> : c \in {d \in DOMAIN temp : temp[d] \notin {<<>>, <<Torn>>}}}
    /\ temp' = <<>> /\ mem' = <<>>
    /\ modified' = {} /\ backupName' = FALSE
    /\ warned' = {} /\ recovered' = {}
    /\ numDisables' = 0 /\ pending' = FALSE /\ received' = FALSE
    /\ pc' = "dead" /\ NoCell /\ todo' = {}
    /\ UNCHANGED <<file, version>>

\* "quit" asks before it drops modified cells; here the user saves them first.
MainExit ==
    /\ pc = "idle" /\ modified = {}
    /\ backups' = IF backupName THEN Tail(backups) ELSE backups
    /\ EndSession
    /\ UNCHANGED budget

EndsBadly == /\ pc # "dead" /\ budget.crashes > 0
             /\ budget' = [budget EXCEPT !.crashes = @ - 1]

Crash ==
    /\ EndsBadly /\ EndSession
    /\ UNCHANGED backups

\* SIGTERM: the handler writes the backup, wherever the program was, and exits.
\* A pending interrupt that disabling does not take away stops it at a cell.
sigOnTerm ==
    /\ EndsBadly /\ EndSession
    /\ LET others == IF backupName THEN Tail(backups) ELSE backups
           copies == IF numDisables # 0 /\ pending
                     THEN {[d \in {c} |-> Torn] : c \in modified}
                     ELSE {[c \in modified |-> mem[c]]}
       IN IF modified = {} THEN UNCHANGED backups
          ELSE \E f \in copies : backups' = <<[copies |-> f, whole |-> TRUE]>> \o others

Restart ==
    /\ pc = "dead"
    /\ pc' = "idle"
    /\ UNCHANGED <<cell, kind, todo, disk, session, signals, history, budget>>

-----------------------------------------------------------------------------
Init ==
    /\ file = [c \in OldCells |-> <<1>>]
    /\ temp = <<>> /\ strays = {} /\ backups = <<>>
    /\ mem = <<>> /\ modified = {} /\ backupName = FALSE /\ version = 1
    /\ numDisables = 0 /\ pending = FALSE /\ received = FALSE
    /\ pc = "idle" /\ cell = Nobody /\ kind = "none" /\ todo = {}
    /\ warned = {} /\ recovered = {}
    /\ budget = [faults |-> MaxFaults, interrupts |-> MaxInterrupts, crashes |-> MaxCrashes]

Next ==
    \/ \E c \in Cells : DBCellRead(c) \/ Edit(c) \/ cmdFlushCell(c) \/ CmdSave(c)
    \/ CmdWriteall \/ cmdWriteallFunc
    \/ OpenExisting \/ OpenNew \/ WriteBegins \/ WriteEnds \/ WriteFails
    \/ Rename \/ CheckSize \/ Cleanup
    \/ DBWriteBackup \/ BackupBegins \/ BackupEnds \/ RestoreFlags \/ EndBackup \/ DBFileRecovery
    \/ MainExit \/ Crash \/ sigOnTerm \/ Restart
    \/ sigOnInterrupt

Spec == Init /\ [][Next]_vars

-----------------------------------------------------------------------------
(* Properties *)

Versions == Empty .. MaxVersion
Layouts == Versions \union {Garbled}
Copies == Layouts \union {Torn}

\* Every variable keeps its type.
TypeOK ==
    /\ DOMAIN file \subseteq Cells /\ \A c \in DOMAIN file : file[c] \in Seq(Copies)
    /\ DOMAIN temp \subseteq {cell} /\ \A c \in DOMAIN temp : temp[c] \in Seq(Copies)
    /\ strays \subseteq Cells \X Layouts
    /\ \A b \in ToSet(backups) :
          /\ DOMAIN b.copies \subseteq Cells /\ b.whole \in BOOLEAN
          /\ \A c \in DOMAIN b.copies : b.copies[c] \in Copies
    /\ DOMAIN mem \subseteq Cells /\ \A c \in DOMAIN mem : mem[c] \in Layouts
    /\ modified \subseteq DOMAIN mem
    /\ todo \subseteq Cells /\ cell \in Cells
    /\ backupName \in BOOLEAN /\ (backupName => backups # <<>>)
    /\ version \in Nat
    /\ numDisables \in Int /\ {pending, received} \subseteq BOOLEAN
    /\ pc \in {"idle", "next", "open", "begin", "write", "rename", "check", "cleanup",
               "backup", "copy", "restore", "dead"}
    /\ kind \in {"none", "temp", "new", "append", "rewrite"}
    /\ warned \subseteq Cells /\ recovered \subseteq Cells

\* A file that reads as a whole layout never stops doing so, at any step, even
\* when the disk fills up, the directory is read-only or the program dies in
\* the middle of a save; and what it reads as only changes to the layout that
\* is being saved.  DBCellWrite's temporary file and rename are there for this.
ReadsOldOrNew ==
    [][\A c \in Cells : Whole(c) =>
          /\ Whole(c)'
          /\ Reads(c)' # Reads(c) => c \in DOMAIN mem /\ Reads(c)' = mem[c]]_vars

\* Between commands, a cell that is not flagged as modified is what its file
\* reads as, so leaving Magic loses nothing without a question; the two
\* exceptions are a save that told its user to look after a copy by hand, and
\* a cell that came from a crash backup.
UnsavedIsFlagged ==
    \A c \in DOMAIN mem \ (modified \union warned \union recovered) :
        pc = "idle" => mem[c] = Reads(c)

\* A SIGTERM loses no work, in the middle of a save or of a backup: the layout
\* in memory of every cell is what its file reads as (be it garbled since an
\* earlier crash) or afterwards in some file.  Excepted are cells
\* recovered and left alone since, and the moment in which dbWriteBackupFunc
\* has not yet put the flag of its cell back; and nothing is promised while an
\* interrupt is pending that disabling interrupts cannot hold back.
TermLosesNothing ==
    [][sigOnTerm /\ ~(pending /\ numDisables # 0) =>
          \A c \in DOMAIN mem \ recovered :
              \/ pc = "restore" /\ c = cell
              \/ mem[c] \in {Empty, Reads(c)}
              \/ \E v \in {mem[c]} : OnDisk(c, v)']_vars
=============================================================================
