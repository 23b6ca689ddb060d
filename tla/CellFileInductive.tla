------------------------- MODULE CellFileInductive --------------------------
(* The inductive invariant of CellFile: what the files and the memory hold   *)
(* at each place of a save or a backup.                                      *)
EXTENDS CellFile

\* A crash backup.
Backup == [copies : UNION {[D -> Copies] : D \in SUBSET Cells}, whole : BOOLEAN]

(* Nothing in memory is torn, and files are sequences of copies.             *)
TypeInv ==
    /\ \A c \in DOMAIN file : file[c] \in Seq(Copies)
    /\ DOMAIN mem \subseteq Cells
    /\ \A c \in DOMAIN mem : mem[c] \in Layouts
    /\ modified \subseteq DOMAIN mem /\ todo \subseteq DOMAIN mem
    /\ backups \in Seq(Backup) /\ (backupName => backups # <<>>)
    /\ version \in Versions \ {Empty}
    /\ warned \subseteq DOMAIN file

InSave == pc \in {"open", "begin", "write", "rename", "check", "cleanup"}
InBackup == pc \in {"backup", "copy", "restore"}
Writing == pc \in {"begin", "write"}

(* The cell of a save or a backup is in memory and is not written again; what *)
(* a "writeall" still has to write is still flagged.                         *)
CellInv ==
    /\ InSave \/ pc \in {"copy", "restore"} => cell \in DOMAIN mem \ todo
    /\ InSave \/ pc = "next" => todo \subseteq modified
    /\ InBackup => backupName
    /\ pc = "open" => cell \in modified \/ cell \notin DOMAIN file

(* The temporary file exists during a save that uses one, and is whole when  *)
(* it is renamed.                                                            *)
TempInv ==
    /\ DOMAIN temp = IF pc = "rename" \/ (Writing /\ kind = "temp") THEN {cell} ELSE {}
    /\ pc = "begin" /\ kind = "temp" => temp[cell] = <<>>
    /\ pc = "write" /\ kind = "temp" => temp[cell] = <<Torn>>
    /\ pc = "rename" => temp[cell] = <<mem[cell]>>

(* The file that is written: a new one has nothing before the copy being     *)
(* written, one that is appended to ends with it.                            *)
FileInv ==
    /\ Writing \/ pc \in {"rename", "check"} => cell \in DOMAIN file
    /\ Writing => kind \in {"temp", "new", "append", "rewrite"}
    /\ pc = "begin" /\ kind = "new" => file[cell] = <<>>
    /\ pc = "write" /\ kind = "new" => file[cell] = <<Torn>>
    /\ pc = "write" /\ kind \in {"append", "rewrite"} =>
          file[cell] # <<>> /\ Last(file[cell]) = Torn
    /\ pc = "begin" /\ kind = "rewrite" => Len(file[cell]) >= 2
    /\ pc = "write" /\ kind = "rewrite" => Len(file[cell]) >= 3
    /\ pc = "check" /\ Len(file[cell]) = 1 => file[cell] = <<mem[cell]>>

(* Until it is whole, a copy is written of a flagged cell, or of an empty one. *)
FlagInv ==
    /\ Writing /\ kind \in {"temp", "append"} => cell \in modified
    /\ Writing /\ kind = "new" =>
          /\ cell \in modified \union recovered \/ mem[cell] = Empty
          /\ cell \notin warned

(* The layout of an unflagged cell is what its file reads as, or the user has *)
(* been warned and it is in some file; a save and a backup are in between.   *)
InFile(c) == c \in DOMAIN file /\ \E i \in DOMAIN file[c] : file[c][i] = mem[c]
Kept(c) == mem[c] = Reads(c) \/ (c \in warned /\ (<<c, mem[c]>> \in strays \/ InFile(c)))
Between(c) == c = cell /\ (Writing \/ pc \in {"rename", "check", "restore"})
KeptInv ==
    /\ \A c \in DOMAIN mem \ (modified \union recovered) : Kept(c) \/ Between(c)
    /\ Writing /\ kind = "rewrite" => InFile(cell)
    /\ pc = "check" => InFile(cell)

IInv == TypeInv /\ CellInv /\ TempInv /\ FileInv /\ FlagInv /\ KeptInv
=============================================================================
