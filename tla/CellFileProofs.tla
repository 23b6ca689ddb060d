--------------------------- MODULE CellFileProofs ---------------------------
(* Proofs that saving a cell and its crash backup lose nothing.              *)
EXTENDS CellFileInductive, SequenceTheorems, TLAPS

LEMMA LayoutFacts ==
  /\ Layouts \subseteq Copies /\ Torn \in Copies /\ Torn \notin Layouts
  /\ Empty \in Layouts /\ Garbled \in Layouts
  /\ \A x \in Copies : x # Torn => x \in Layouts
BY CellFileAssumption DEF Layouts, Copies, Versions, Torn, Empty, Garbled

LEMMA VersionFacts ==
  ASSUME version \in Versions \ {Empty}, version < MaxVersion
  PROVE  version + 1 \in Versions \ {Empty} /\ version + 1 \in Layouts
BY CellFileAssumption DEF Versions, Layouts, Empty

\* A copy is appended, the last copy is replaced, the last copy is taken away.
LEMMA Appended ==
  ASSUME NEW S, NEW s \in Seq(S), NEW x \in S
  PROVE  /\ Append(s, x) \in Seq(S) /\ Append(s, x) # <<>> /\ Last(Append(s, x)) = x
         /\ Len(Append(s, x)) = Len(s) + 1 /\ Len(s) \in Nat
         /\ s # <<>> => Head(Append(s, x)) = Head(s)
         /\ \A i \in DOMAIN s : i \in DOMAIN Append(s, x) /\ Append(s, x)[i] = s[i]
         /\ Len(s) + 1 \in DOMAIN Append(s, x) /\ Append(s, x)[Len(s) + 1] = x
<1>1. /\ Append(s, x) \in Seq(S) /\ Len(Append(s, x)) = Len(s) + 1 /\ Len(s) \in Nat
      /\ DOMAIN s = 1..Len(s) /\ DOMAIN Append(s, x) = 1..(Len(s) + 1)
      /\ \A i \in 1..Len(s) : Append(s, x)[i] = s[i]
      /\ Append(s, x)[Len(s) + 1] = x
  BY LenProperties, AppendProperties
<1>2. Append(s, x) # <<>> /\ Last(Append(s, x)) = x
  BY <1>1, EmptySeq DEF Last
<1>3. s # <<>> => Head(Append(s, x)) = Head(s)
  BY <1>1, <1>2, EmptySeq, HeadTailProperties
<1>. QED  BY <1>1, <1>2, <1>3

LEMMA Cut ==
  ASSUME NEW S, NEW s \in Seq(S), s # <<>>
  PROVE  /\ Front(s) \in Seq(S) /\ Len(Front(s)) = Len(s) - 1
         /\ Len(s) \in Nat \ {0}
         /\ Len(s) > 1 => Front(s) # <<>> /\ Head(Front(s)) = Head(s)
         /\ \A i \in DOMAIN s : i # Len(s) => i \in DOMAIN Front(s) /\ Front(s)[i] = s[i]
         /\ Last(s) = s[Len(s)]
<1>0. Len(s) \in Nat \ {0} /\ DOMAIN s = 1..Len(s)
  BY LenProperties, EmptySeq
<1>1. /\ Front(s) \in Seq(S) /\ Len(Front(s)) = Len(s) - 1
      /\ \A i \in 1..(Len(s) - 1) : Front(s)[i] = s[i]
  BY <1>0, SubSeqProperties, ElementOfSeq, LenProperties DEF Front
<1>2. DOMAIN Front(s) = 1..(Len(s) - 1)
  BY <1>0, <1>1, LenProperties
<1>3. Len(s) > 1 => Front(s) # <<>> /\ Head(Front(s)) = Head(s)
  BY <1>0, <1>1, <1>2, EmptySeq, HeadTailProperties
<1>. QED  BY <1>0, <1>1, <1>2, <1>3 DEF Last

LEMMA Replaced ==
  ASSUME NEW S, NEW s \in Seq(S), s # <<>>, NEW x \in S
  PROVE  /\ Append(Front(s), x) \in Seq(S) /\ Len(Append(Front(s), x)) = Len(s)
         /\ Append(Front(s), x) # <<>>
         /\ Len(s) > 1 => Head(Append(Front(s), x)) = Head(s)
         /\ Len(s) \in DOMAIN Append(Front(s), x) /\ Append(Front(s), x)[Len(s)] = x
<1>1. Front(s) \in Seq(S) /\ Len(Front(s)) = Len(s) - 1 /\ Len(s) \in Nat \ {0}
      /\ (Len(s) > 1 => Front(s) # <<>> /\ Head(Front(s)) = Head(s))
  BY Cut
<1>. QED  BY <1>1, Appended

LEMMA FirstCopy == ASSUME NEW x PROVE Append(<<>>, x) = <<x>>
OBVIOUS

LEMMA OneCopy ==
  ASSUME NEW x
  PROVE  /\ <<x>> # <<>> /\ Len(<<x>>) = 1 /\ Head(<<x>>) = x /\ Front(<<x>>) = <<>>
         /\ 1 \in DOMAIN <<x>> /\ <<x>>[1] = x
BY DEF Front

-----------------------------------------------------------------------------
(* What a cell reads as depends on its own file only.                        *)
LEMMA ReadsLayout ==
  ASSUME TypeInv, NEW c
  PROVE  Reads(c) \in Layouts
<1>1. CASE Whole(c)
  <2>1. file[c] \in Seq(Copies) /\ file[c] # <<>> /\ Head(file[c]) # Torn
    BY <1>1 DEF Whole, TypeInv
  <2>2. Head(file[c]) \in Copies
    BY <2>1, HeadTailProperties
  <2>. QED  BY <1>1, <2>1, <2>2, LayoutFacts DEF Reads, Whole
<1>2. CASE ~Whole(c)
  BY <1>2, LayoutFacts DEF Reads
<1>. QED  BY <1>1, <1>2

SameFile(c) == /\ c \in DOMAIN file' <=> c \in DOMAIN file
               /\ c \in DOMAIN file => file'[c] = file[c]

LEMMA SameReads ==
  ASSUME NEW c, SameFile(c)
  PROVE  (Whole(c)' <=> Whole(c)) /\ Reads(c)' = Reads(c)
BY DEF SameFile, Whole, Reads

\* A copy that is kept stays kept when its cell is not touched.
LEMMA StaysKept ==
  ASSUME NEW c, Kept(c), SameFile(c), mem'[c] = mem[c],
         warned \subseteq warned', strays \subseteq strays'
  PROVE  Kept(c)'
<1>1. Reads(c)' = Reads(c)
  BY SameReads
<1>2. InFile(c) => InFile(c)'
  BY DEF InFile, SameFile
<1>. QED  BY <1>1, <1>2 DEF Kept

\* Nothing but the memory changes, and no save is going on.
LEMMA MemoryStep ==
  ASSUME IInv, pc = "idle", file' = file, temp' = temp, strays' = strays,
         warned' = warned,
         TypeInv',
         \A c \in DOMAIN mem' \ (modified' \cup recovered') : Kept(c)',
         pc' \in {"idle", "next"} \/
           (pc' = "open" /\ cell' \in DOMAIN mem' \ todo'
            /\ (cell' \in modified' \/ cell' \notin DOMAIN file)),
         pc' # "idle" => todo' \subseteq modified'
  PROVE  IInv'
<1>. ~Writing' /\ ~Writing
  BY DEF Writing
<1>1. CellInv'
  BY DEF CellInv, InSave, InBackup
<1>2. TempInv'
  BY DEF IInv, TempInv
<1>3. FileInv' /\ FlagInv'
  BY DEF FileInv, FlagInv
<1>4. KeptInv'
  BY DEF KeptInv
<1>. QED  BY <1>1, <1>2, <1>3, <1>4 DEF IInv

LEMMA DBCellReadIInv ==
  ASSUME IInv, NEW c \in Cells, DBCellRead(c)
  PROVE  IInv'
<1>. /\ pc = "idle" /\ c \notin DOMAIN mem /\ pc' = pc /\ todo' = todo
     /\ file' = file /\ temp' = temp /\ strays' = strays /\ backups' = backups
     /\ modified' = modified /\ backupName' = backupName /\ version' = version
     /\ warned' = warned /\ recovered' = recovered
  BY DEF DBCellRead, Dispatch, disk, save, history
<1>1. /\ DOMAIN mem' = DOMAIN mem \cup {c} /\ mem'[c] = Reads(c)
      /\ \A d \in DOMAIN mem : mem'[d] = mem[d]
  BY DEF DBCellRead, With
<1>2. TypeInv'
  BY <1>1, ReadsLayout DEF IInv, TypeInv
<1>3. ASSUME NEW d \in DOMAIN mem' \ (modified' \cup recovered') PROVE Kept(d)'
  <2>1. CASE d = c
    BY <1>1, <2>1, SameReads DEF Kept, SameFile
  <2>2. CASE d # c
    <3>1. Kept(d)
      BY <1>1, <1>3, <2>2 DEF IInv, KeptInv, Between, Writing
    <3>. QED  BY <1>1, <1>3, <2>2, <3>1, StaysKept DEF SameFile
  <2>. QED  BY <2>1, <2>2
<1>. QED  BY <1>2, <1>3, MemoryStep

LEMMA EditIInv ==
  ASSUME IInv, NEW c \in Cells, Edit(c)
  PROVE  IInv'
<1>. /\ pc = "idle" /\ c \in DOMAIN mem /\ pc' = pc /\ todo' = todo
     /\ file' = file /\ temp' = temp /\ strays' = strays /\ backups' = backups
     /\ modified' = modified \cup {c} /\ backupName' = backupName
     /\ version' = version + 1 /\ version < MaxVersion
     /\ warned' = warned /\ recovered' = recovered \ {c}
  BY DEF Edit, Dispatch, disk, save
<1>1. /\ DOMAIN mem' = DOMAIN mem /\ mem'[c] = version + 1
      /\ \A d \in DOMAIN mem : d # c => mem'[d] = mem[d]
  BY DEF Edit
<1>2. TypeInv'
  BY <1>1, VersionFacts DEF IInv, TypeInv
<1>3. ASSUME NEW d \in DOMAIN mem' \ (modified' \cup recovered') PROVE Kept(d)'
  <2>1. d # c /\ d \in DOMAIN mem \ (modified \cup recovered)
    BY <1>1, <1>3
  <2>2. Kept(d)
    BY <2>1 DEF IInv, KeptInv, Between, Writing
  <2>. QED  BY <1>1, <2>1, <2>2, StaysKept DEF SameFile
<1>. QED  BY <1>2, <1>3, MemoryStep

LEMMA cmdFlushCellIInv ==
  ASSUME IInv, NEW c \in Cells, cmdFlushCell(c)
  PROVE  IInv'
<1>. /\ pc = "idle" /\ c \in DOMAIN mem /\ pc' = pc /\ todo' = todo
     /\ file' = file /\ temp' = temp /\ strays' = strays /\ backups' = backups
     /\ modified' = modified \ {c} /\ backupName' = backupName /\ version' = version
     /\ warned' = warned /\ recovered' = recovered \ {c}
  BY DEF cmdFlushCell, Dispatch, disk, save
<1>1. /\ DOMAIN mem' = DOMAIN mem /\ mem'[c] = Reads(c)
      /\ \A d \in DOMAIN mem : d # c => mem'[d] = mem[d]
  BY DEF cmdFlushCell
<1>2. TypeInv'
  BY <1>1, ReadsLayout DEF IInv, TypeInv
<1>3. ASSUME NEW d \in DOMAIN mem' \ (modified' \cup recovered') PROVE Kept(d)'
  <2>1. CASE d = c
    BY <1>1, <2>1, SameReads DEF Kept, SameFile
  <2>2. CASE d # c
    <3>1. Kept(d)
      BY <1>1, <1>3, <2>2 DEF IInv, KeptInv, Between, Writing
    <3>. QED  BY <1>1, <1>3, <2>2, <3>1, StaysKept DEF SameFile
  <2>. QED  BY <2>1, <2>2
<1>. QED  BY <1>2, <1>3, MemoryStep

LEMMA CommandIInv ==
  ASSUME IInv, CmdWriteall \/ \E c \in Cells : CmdSave(c)
  PROVE  IInv'
<1>1. /\ pc = "idle" /\ pc' \in {"next", "open"} /\ mem' = mem
      /\ file' = file /\ temp' = temp /\ strays' = strays /\ backups' = backups
      /\ modified' = modified /\ backupName' = backupName /\ version' = version
      /\ warned' = warned /\ recovered' = recovered
  BY DEF CmdSave, CmdWriteall, Dispatch, disk, session, history
<1>2. /\ todo' \subseteq modified
      /\ pc' = "open" => cell' \in DOMAIN mem \ todo'
                         /\ (cell' \in modified \/ cell' \notin DOMAIN file)
  BY DEF CmdSave, CmdWriteall
<1>3. TypeInv'
  BY <1>1, <1>2 DEF IInv, TypeInv
<1>4. ASSUME NEW d \in DOMAIN mem' \ (modified' \cup recovered') PROVE Kept(d)'
  <2>1. Kept(d)
    BY <1>1, <1>4 DEF IInv, KeptInv, Between, Writing
  <2>. QED  BY <1>1, <2>1, StaysKept DEF SameFile
<1>. QED  BY <1>1, <1>2, <1>3, <1>4, MemoryStep

LEMMA DBFileRecoveryIInv ==
  ASSUME IInv, DBFileRecovery
  PROVE  IInv'
<1>. DEFINE copies == Head(backups).copies
<1>1. /\ pc = "idle" /\ pc' = pc /\ todo' = todo /\ ~backupName /\ backups # <<>>
      /\ file' = file /\ temp' = temp /\ strays' = strays
      /\ modified' = modified \ DOMAIN copies /\ backupName' = backupName
      /\ version' = version /\ warned' = warned
      /\ recovered' = recovered \cup DOMAIN copies
      /\ backups' \in {Tail(backups), backups}
  BY DEF DBFileRecovery, Dispatch, save
<1>2. /\ DOMAIN mem' = DOMAIN copies \cup DOMAIN mem
      /\ \A d \in DOMAIN mem \ DOMAIN copies : mem'[d] = mem[d]
      /\ \A d \in DOMAIN copies :
           mem'[d] = Garbled \/ (copies[d] # Torn /\ mem'[d] = copies[d])
  BY DEF DBFileRecovery
<1>3. /\ Head(backups) \in Backup /\ Tail(backups) \in Seq(Backup)
      /\ backups \in Seq(Backup)
  BY <1>1, HeadTailProperties DEF IInv, TypeInv
<1>4. DOMAIN copies \subseteq Cells /\ \A d \in DOMAIN copies : copies[d] \in Copies
  BY <1>3 DEF Backup
<1>. HIDE DEF copies
<1>5. \A d \in DOMAIN copies : mem'[d] \in Layouts
  BY <1>2, <1>4, LayoutFacts
<1>6. TypeInv'
  <2>1. DOMAIN mem' \subseteq Cells /\ \A d \in DOMAIN mem' : mem'[d] \in Layouts
    BY <1>2, <1>4, <1>5 DEF IInv, TypeInv
  <2>2. modified' \subseteq DOMAIN mem' /\ todo' \subseteq DOMAIN mem'
    BY <1>1, <1>2 DEF IInv, TypeInv
  <2>3. backups' \in Seq(Backup) /\ ~backupName'
    BY <1>1, <1>3
  <2>. QED  BY <1>1, <2>1, <2>2, <2>3 DEF IInv, TypeInv
<1>7. ASSUME NEW d \in DOMAIN mem' \ (modified' \cup recovered') PROVE Kept(d)'
  <2>1. d \in DOMAIN mem \ (modified \cup recovered) /\ d \notin DOMAIN copies
    BY <1>1, <1>2, <1>7
  <2>2. Kept(d)
    BY <1>1, <2>1 DEF IInv, KeptInv, Between, Writing
  <2>. QED  BY <1>1, <1>2, <2>1, <2>2, StaysKept DEF SameFile
<1>. QED  BY <1>1, <1>6, <1>7, MemoryStep

LEMMA cmdWriteallFuncIInv ==
  ASSUME IInv, cmdWriteallFunc
  PROVE  IInv'
<1>1. /\ pc = "next" /\ mem' = mem /\ file' = file /\ temp' = temp
      /\ strays' = strays /\ backups' = backups /\ modified' = modified
      /\ backupName' = backupName /\ version' = version
      /\ warned' = warned /\ recovered' = recovered
  BY DEF cmdWriteallFunc, disk, session, history
<1>2. \/ pc' = "idle" /\ todo' = {}
      \/ pc' = "open" /\ cell' \in todo /\ todo' = todo \ {cell'}
  BY DEF cmdWriteallFunc
<1>. ~Writing' /\ ~Writing
  BY <1>1, <1>2 DEF Writing
<1>3. TypeInv'
  BY <1>1, <1>2 DEF IInv, TypeInv
<1>4. CellInv'
  BY <1>1, <1>2 DEF IInv, TypeInv, CellInv, InSave, InBackup
<1>5. TempInv'
  BY <1>1, <1>2 DEF IInv, TempInv
<1>6. FileInv' /\ FlagInv'
  BY <1>1, <1>2 DEF FileInv, FlagInv
<1>7. KeptInv'
  <2>1. ASSUME NEW d \in DOMAIN mem' \ (modified' \cup recovered') PROVE Kept(d)'
    <3>1. Kept(d)
      BY <1>1, <2>1 DEF IInv, KeptInv, Between
    <3>. QED  BY <1>1, <3>1, StaysKept DEF SameFile
  <2>. QED  BY <1>1, <1>2, <2>1 DEF KeptInv
<1>. QED  BY <1>3, <1>4, <1>5, <1>6, <1>7 DEF IInv

-----------------------------------------------------------------------------
(* Saving.                                                                   *)

\* In a save, all cells but the one being saved are left alone.
LEMMA OthersKept ==
  ASSUME KeptInv, mem' = mem, warned \subseteq warned', strays \subseteq strays',
         \A c \in DOMAIN mem : c # cell => SameFile(c),
         modified \ {cell} \subseteq modified', recovered \ {cell} \subseteq recovered'
  PROVE  \A c \in DOMAIN mem' \ (modified' \cup recovered') : c # cell => Kept(c)'
<1>. TAKE c \in DOMAIN mem' \ (modified' \cup recovered')
<1>. HAVE c # cell
<1>1. Kept(c)
  BY DEF KeptInv, Between
<1>. QED  BY <1>1, StaysKept

LEMMA OpenExistingIInv ==
  ASSUME IInv, OpenExisting
  PROVE  IInv'
<1>1. /\ pc = "open" /\ cell \in DOMAIN file /\ file' = file /\ mem' = mem
      /\ strays' = strays /\ backups' = backups /\ modified' = modified
      /\ backupName' = backupName /\ version' = version /\ cell' = cell /\ todo' = todo
      /\ warned' = warned /\ recovered' = recovered
  BY DEF OpenExisting, session, history
<1>2. \/ pc' = "begin" /\ kind' = "temp" /\ temp' = With(temp, cell, <<>>)
      \/ pc' = "begin" /\ kind' = "append" /\ temp' = temp
      \/ pc' = "cleanup" /\ temp' = temp
  BY DEF OpenExisting
<1>3. cell \in modified /\ cell \in DOMAIN mem \ todo /\ DOMAIN temp = {}
  BY <1>1 DEF IInv, CellInv, TempInv, InSave, Writing
<1>4. TypeInv'
  BY <1>1 DEF IInv, TypeInv
<1>5. CellInv'
  BY <1>1, <1>2, <1>3 DEF IInv, CellInv, InSave, InBackup
<1>6. TempInv'
  BY <1>1, <1>2, <1>3 DEF TempInv, With, Writing
<1>7. FileInv' /\ FlagInv'
  BY <1>1, <1>2, <1>3 DEF FileInv, FlagInv, Writing
<1>8. KeptInv'
  <2>1. \A c \in DOMAIN mem' \ (modified' \cup recovered') : c # cell => Kept(c)'
    BY <1>1, OthersKept DEF IInv, SameFile
  <2>. QED  BY <1>1, <1>2, <1>3, <2>1 DEF KeptInv, Writing
<1>. QED  BY <1>4, <1>5, <1>6, <1>7, <1>8 DEF IInv

LEMMA OpenNewIInv ==
  ASSUME IInv, OpenNew
  PROVE  IInv'
<1>1. /\ pc = "open" /\ cell \notin DOMAIN file /\ temp' = temp /\ mem' = mem
      /\ strays' = strays /\ backups' = backups
      /\ backupName' = backupName /\ version' = version /\ cell' = cell /\ todo' = todo
      /\ warned' = warned /\ recovered' = recovered
  BY DEF OpenNew, history
<1>2. \/ /\ pc' = "begin" /\ kind' = "new" /\ file' = With(file, cell, <<>>)
         /\ modified' = modified
      \/ pc' = "cleanup" /\ file' = file /\ modified' = modified \cup {cell}
  BY DEF OpenNew
<1>3. cell \in DOMAIN mem \ todo /\ DOMAIN temp = {} /\ ~Writing
  BY <1>1 DEF IInv, CellInv, TempInv, InSave, Writing
<1>4. /\ DOMAIN file \subseteq DOMAIN file' /\ DOMAIN file' \subseteq DOMAIN file \cup {cell}
      /\ \A c \in DOMAIN file : file'[c] = file[c]
      /\ cell \in DOMAIN file' => file'[cell] = <<>>
  BY <1>1, <1>2 DEF With
<1>5. TypeInv'
  <2>1. <<>> \in Seq(Copies)
    BY EmptySeq
  <2>2. \A c \in DOMAIN file' : file'[c] \in Seq(Copies)
    BY <1>4, <2>1 DEF IInv, TypeInv
  <2>. QED  BY <1>1, <1>2, <1>3, <1>4, <2>2 DEF IInv, TypeInv
<1>6. CellInv'
  BY <1>1, <1>2, <1>3 DEF IInv, CellInv, InSave, InBackup
<1>7. TempInv'
  BY <1>1, <1>2, <1>3 DEF TempInv, Writing
<1>8. (cell \in modified \cup recovered \/ mem[cell] = Empty) /\ cell \notin warned
  <2>1. cell \notin modified \cup recovered => Kept(cell)
    BY <1>1, <1>3 DEF IInv, KeptInv, Between
  <2>2. cell \notin warned
    BY <1>1 DEF IInv, TypeInv
  <2>. QED  BY <1>1, <2>1, <2>2 DEF Kept, Reads
<1>9. FileInv' /\ FlagInv'
  BY <1>1, <1>2, <1>4, <1>8 DEF FileInv, FlagInv, Writing, With
<1>10. KeptInv'
  <2>1. \A c \in DOMAIN mem' \ (modified' \cup recovered') : c # cell => Kept(c)'
    BY <1>1, <1>2, <1>4, OthersKept DEF IInv, SameFile
  <2>. QED  BY <1>1, <1>2, <1>3, <2>1 DEF KeptInv, Writing, Between
<1>. QED  BY <1>5, <1>6, <1>7, <1>9, <1>10 DEF IInv

LEMMA WriteBeginsIInv ==
  ASSUME IInv, WriteBegins
  PROVE  IInv'
<1>1. /\ pc = "begin" /\ pc' = "write" /\ mem' = mem
      /\ strays' = strays /\ backups' = backups /\ modified' = modified
      /\ backupName' = backupName /\ version' = version
      /\ cell' = cell /\ todo' = todo /\ kind' = kind
      /\ warned' = warned /\ recovered' = recovered
  BY DEF WriteBegins, FlagsDuringWrite, history
<1>2. IF kind = "temp"
      THEN temp' = [temp EXCEPT ![cell] = Append(temp[cell], Torn)] /\ file' = file
      ELSE file' = [file EXCEPT ![cell] = Append(file[cell], Torn)] /\ temp' = temp
  BY DEF WriteBegins, Put, Target
<1>3. /\ cell \in DOMAIN mem \ todo /\ cell \in DOMAIN file /\ file[cell] \in Seq(Copies)
      /\ kind \in {"temp", "new", "append", "rewrite"} /\ todo \subseteq modified
      /\ DOMAIN temp = IF kind = "temp" THEN {cell} ELSE {}
      /\ kind = "temp" => temp[cell] = <<>>
      /\ kind = "new" => file[cell] = <<>>
      /\ kind = "rewrite" => Len(file[cell]) >= 2 /\ InFile(cell)
  BY <1>1 DEF IInv, TypeInv, CellInv, TempInv, FileInv, KeptInv, Writing, InSave
<1>. DEFINE longer == Append(file[cell], Torn)
<1>4. /\ longer \in Seq(Copies) /\ longer # <<>> /\ Last(longer) = Torn
      /\ Len(longer) = Len(file[cell]) + 1 /\ Len(file[cell]) \in Nat
      /\ \A i \in DOMAIN file[cell] : i \in DOMAIN longer /\ longer[i] = file[cell][i]
  BY <1>3, Appended, LayoutFacts
<1>5. Append(<<>>, Torn) = <<Torn>>
  BY FirstCopy
<1>6. /\ DOMAIN file' = DOMAIN file
      /\ \A c \in DOMAIN file : c # cell => file'[c] = file[c]
      /\ file'[cell] = IF kind = "temp" THEN file[cell] ELSE longer
  BY <1>2, <1>3
<1>7. /\ DOMAIN temp' = DOMAIN temp
      /\ kind = "temp" => temp'[cell] = <<Torn>>
  BY <1>2, <1>3, <1>5
<1>8. kind = "new" => longer = <<Torn>>
  BY <1>3, <1>5
<1>9. InFile(cell) => InFile(cell)'
  BY <1>1, <1>3, <1>4, <1>6 DEF InFile
<1>. HIDE DEF longer
<1>10. TypeInv'
  <2>1. \A c \in DOMAIN file' : file'[c] \in Seq(Copies)
    BY <1>3, <1>4, <1>6 DEF IInv, TypeInv
  <2>. QED  BY <1>1, <1>6, <2>1 DEF IInv, TypeInv
<1>11. CellInv'
  BY <1>1, <1>3 DEF IInv, CellInv, InSave, InBackup
<1>12. TempInv'
  BY <1>1, <1>3, <1>7 DEF TempInv, Writing
<1>13. FileInv'
  <2>1. kind = "rewrite" => Len(longer) >= 3
    BY <1>3, <1>4
  <2>. QED  BY <1>1, <1>3, <1>4, <1>6, <1>8, <2>1 DEF FileInv, Writing
<1>14. FlagInv'
  BY <1>1 DEF IInv, FlagInv, Writing
<1>15. KeptInv'
  <2>1. \A c \in DOMAIN mem' \ (modified' \cup recovered') : c # cell => Kept(c)'
    BY <1>1, <1>6, OthersKept DEF IInv, SameFile
  <2>. QED  BY <1>1, <1>3, <1>9, <2>1 DEF KeptInv, Writing, Between
<1>. QED  BY <1>10, <1>11, <1>12, <1>13, <1>14, <1>15 DEF IInv

LEMMA WriteEndsIInv ==
  ASSUME IInv, WriteEnds
  PROVE  IInv'
<1>1. /\ pc = "write" /\ mem' = mem /\ strays' = strays /\ backups' = backups
      /\ modified' = modified \ {cell} /\ recovered' = recovered \ {cell}
      /\ backupName' = backupName /\ version' = version
      /\ cell' = cell /\ todo' = todo /\ warned' = warned
  BY DEF WriteEnds
<1>2. IF kind = "temp"
      THEN temp' = [temp EXCEPT ![cell] = Append(Front(temp[cell]), mem[cell])] /\ file' = file
      ELSE file' = [file EXCEPT ![cell] = Append(Front(file[cell]), mem[cell])] /\ temp' = temp
  BY DEF WriteEnds, Put, Target
<1>3. IF kind = "append" /\ Len(file[cell]) > 1
      THEN kind' = "rewrite" /\ pc' = "begin"
      ELSE pc' = (IF kind = "temp" THEN "rename" ELSE "check") /\ kind' = kind
  BY DEF WriteEnds, Target
<1>4. /\ cell \in DOMAIN mem \ todo /\ cell \in DOMAIN file /\ file[cell] \in Seq(Copies)
      /\ kind \in {"temp", "new", "append", "rewrite"} /\ todo \subseteq modified
      /\ DOMAIN temp = IF kind = "temp" THEN {cell} ELSE {}
      /\ kind = "temp" => temp[cell] = <<Torn>>
      /\ kind = "new" => file[cell] = <<Torn>>
      /\ kind \in {"append", "rewrite"} => file[cell] # <<>>
      /\ kind = "rewrite" => Len(file[cell]) >= 3
      /\ mem[cell] \in Layouts
  BY <1>1 DEF IInv, TypeInv, CellInv, TempInv, FileInv, Writing, InSave
<1>. DEFINE replaced == Append(Front(file[cell]), mem[cell])
<1>5. ASSUME kind # "temp"
      PROVE  /\ replaced \in Seq(Copies) /\ Len(replaced) = Len(file[cell])
             /\ \E i \in DOMAIN replaced : replaced[i] = mem[cell]
             /\ Len(file[cell]) = 1 => replaced = <<mem[cell]>>
  <2>1. file[cell] # <<>> /\ mem[cell] \in Copies
    BY <1>4, <1>5, OneCopy, LayoutFacts
  <2>2. /\ replaced \in Seq(Copies) /\ Len(replaced) = Len(file[cell])
        /\ Len(file[cell]) \in DOMAIN replaced /\ replaced[Len(file[cell])] = mem[cell]
    BY <1>4, <2>1, Replaced
  <2>3. Len(file[cell]) = 1 => replaced = <<mem[cell]>>
    <3>1. /\ Front(file[cell]) \in Seq(Copies) /\ Len(file[cell]) \in Nat
          /\ Len(Front(file[cell])) = Len(file[cell]) - 1
      BY <1>4, <2>1, Cut
    <3>2. Len(file[cell]) = 1 => Front(file[cell]) = <<>>
      BY <3>1, EmptySeq
    <3>. QED  BY <3>2, FirstCopy
  <2>. QED  BY <2>2, <2>3
<1>6. Append(Front(<<Torn>>), mem[cell]) = <<mem[cell]>>
  BY OneCopy, FirstCopy
<1>7. /\ DOMAIN file' = DOMAIN file
      /\ \A c \in DOMAIN file : c # cell => file'[c] = file[c]
      /\ file'[cell] = IF kind = "temp" THEN file[cell] ELSE replaced
  BY <1>2, <1>4
<1>8. /\ DOMAIN temp' = DOMAIN temp
      /\ kind = "temp" => temp'[cell] = <<mem[cell]>>
  BY <1>2, <1>4, <1>6
<1>. HIDE DEF replaced
<1>9. kind # "temp" => InFile(cell)'
  BY <1>1, <1>4, <1>5, <1>7 DEF InFile
<1>10. TypeInv'
  <2>1. \A c \in DOMAIN file' : file'[c] \in Seq(Copies)
    BY <1>4, <1>5, <1>7 DEF IInv, TypeInv
  <2>. QED  BY <1>1, <1>7, <2>1 DEF IInv, TypeInv
<1>11. CellInv'
  BY <1>1, <1>3, <1>4 DEF IInv, CellInv, InSave, InBackup
<1>12. TempInv'
  BY <1>1, <1>3, <1>4, <1>8 DEF TempInv, Writing
<1>13. FileInv'
  <2>1. pc' = "begin" => kind' = "rewrite" /\ Len(replaced) >= 2
    BY <1>3, <1>4, <1>5
  <2>2. pc' = "check" => (Len(file'[cell]) = 1 => file'[cell] = <<mem[cell]>>)
    BY <1>3, <1>5, <1>7
  <2>3. pc' # "write" /\ cell \in DOMAIN file' /\ kind' \in {"temp", "new", "append", "rewrite"}
    BY <1>3, <1>4, <1>7
  <2>4. pc' = "begin" => Len(file'[cell]) >= 2
    BY <1>3, <1>7, <2>1
  <2>. QED  BY <1>1, <2>1, <2>2, <2>3, <2>4 DEF FileInv, Writing
<1>14. FlagInv'
  BY <1>3 DEF FlagInv, Writing
<1>15. KeptInv'
  <2>1. \A c \in DOMAIN mem' \ (modified' \cup recovered') : c # cell => Kept(c)'
    BY <1>1, <1>7, OthersKept DEF IInv, SameFile
  <2>2. pc' \in {"begin", "rename", "check"} /\ (pc' # "rename" => kind # "temp")
    BY <1>3
  <2>. QED  BY <1>1, <1>3, <1>9, <2>1, <2>2 DEF KeptInv, Writing, Between
<1>. QED  BY <1>10, <1>11, <1>12, <1>13, <1>14, <1>15 DEF IInv

LEMMA WriteFailsIInv ==
  ASSUME IInv, WriteFails
  PROVE  IInv'
<1>1. /\ pc = "write" /\ pc' = "cleanup" /\ mem' = mem /\ strays' = strays
      /\ backups' = backups /\ modified' = modified /\ recovered' = recovered
      /\ backupName' = backupName /\ version' = version
      /\ cell' = cell /\ todo' = todo /\ warned \subseteq warned'
  BY DEF WriteFails, session
<1>2. \/ kind = "temp" /\ temp' = Without(temp, {cell}) /\ file' = file /\ warned' = warned
      \/ kind = "new" /\ file' = Without(file, {cell}) /\ temp' = temp /\ warned' = warned
      \/ /\ kind = "append" /\ file' = [file EXCEPT ![cell] = Front(file[cell])]
         /\ temp' = temp /\ warned' = warned
      \/ /\ kind = "rewrite" /\ file' = file /\ temp' = temp
         /\ warned' = warned \cup {cell}
  BY DEF WriteFails, UnlinkTemp, Put, Target
<1>3. /\ cell \in DOMAIN mem \ todo /\ cell \in DOMAIN file /\ file[cell] \in Seq(Copies)
      /\ todo \subseteq modified
      /\ DOMAIN temp = IF kind = "temp" THEN {cell} ELSE {}
      /\ kind \in {"temp", "append"} => cell \in modified
      /\ kind = "new" => cell \notin warned
                         /\ (cell \in modified \cup recovered \/ mem[cell] = Empty)
      /\ kind = "append" => file[cell] # <<>>
      /\ kind = "rewrite" => InFile(cell)
  BY <1>1 DEF IInv, TypeInv, CellInv, TempInv, FileInv, FlagInv, KeptInv, Writing, InSave
<1>4. /\ DOMAIN file \ {cell} \subseteq DOMAIN file'
      /\ DOMAIN file' \subseteq DOMAIN file
      /\ \A c \in DOMAIN file : c # cell => file'[c] = file[c]
      /\ kind = "new" => cell \notin DOMAIN file'
      /\ kind # "new" => cell \in DOMAIN file'
  BY <1>2, <1>3 DEF Without
<1>5. cell \in DOMAIN file' => file'[cell] \in Seq(Copies)
  <2>1. CASE kind = "append"
    <3>1. Front(file[cell]) \in Seq(Copies)
      BY <1>3, <2>1, Cut
    <3>. QED  BY <1>2, <1>3, <2>1, <3>1
  <2>2. CASE kind # "append"
    BY <1>2, <1>3, <1>4, <2>2
  <2>. QED  BY <2>1, <2>2
<1>6. TypeInv'
  <2>1. \A c \in DOMAIN file' : file'[c] \in Seq(Copies)
    BY <1>4, <1>5 DEF IInv, TypeInv
  <2>2. warned' \subseteq DOMAIN file'
    BY <1>2, <1>3, <1>4 DEF IInv, TypeInv
  <2>. QED  BY <1>1, <2>1, <2>2 DEF IInv, TypeInv
<1>7. CellInv'
  BY <1>1, <1>3 DEF CellInv, InSave, InBackup
<1>8. TempInv'
  BY <1>1, <1>2, <1>3 DEF TempInv, Writing, Without
<1>9. FileInv' /\ FlagInv'
  BY <1>1 DEF FileInv, FlagInv, Writing
<1>10. KeptInv'
  <2>1. \A c \in DOMAIN mem' \ (modified' \cup recovered') : c # cell => Kept(c)'
    BY <1>1, <1>4, OthersKept DEF IInv, SameFile
  <2>2. cell \notin modified \cup recovered => Kept(cell)'
    <3>1. CASE kind = "new"
      BY <1>1, <1>3, <1>4, <3>1 DEF Kept, Reads
    <3>2. CASE kind = "rewrite"
      BY <1>1, <1>2, <1>3, <3>2 DEF Kept, InFile
    <3>. QED  BY <1>2, <1>3, <3>1, <3>2
  <2>. QED  BY <1>1, <2>1, <2>2 DEF KeptInv, Writing
<1>. QED  BY <1>6, <1>7, <1>8, <1>9, <1>10 DEF IInv

LEMMA RenameIInv ==
  ASSUME IInv, Rename
  PROVE  IInv'
<1>1. /\ pc = "rename" /\ mem' = mem /\ strays \subseteq strays'
      /\ backups' = backups /\ modified' = modified /\ recovered' = recovered
      /\ backupName' = backupName /\ version' = version
      /\ cell' = cell /\ todo' = todo /\ warned \subseteq warned'
      /\ temp' = Without(temp, {cell})
  BY DEF Rename, session
<1>2. \/ /\ file' = [file EXCEPT ![cell] = temp[cell]]
         /\ pc' = "check" /\ warned' = warned
      \/ /\ strays' = strays \cup {<<cell, Head(temp[cell])>>}
         /\ pc' = "cleanup" /\ warned' = warned \cup {cell} /\ file' = file
  BY DEF Rename
<1>3. /\ cell \in DOMAIN mem \ todo /\ cell \in DOMAIN file /\ todo \subseteq modified
      /\ DOMAIN temp = {cell} /\ temp[cell] = <<mem[cell]>> /\ mem[cell] \in Layouts
  BY <1>1 DEF IInv, TypeInv, CellInv, TempInv, FileInv, InSave
<1>4. /\ <<mem[cell]>> \in Seq(Copies) /\ Head(<<mem[cell]>>) = mem[cell]
      /\ 1 \in DOMAIN <<mem[cell]>> /\ <<mem[cell]>>[1] = mem[cell]
  BY <1>3, LayoutFacts
<1>5. /\ DOMAIN file' = DOMAIN file
      /\ \A c \in DOMAIN file : c # cell => file'[c] = file[c]
      /\ pc' = "check" => file'[cell] = <<mem[cell]>>
  BY <1>2, <1>3
<1>6. TypeInv'
  <2>1. \A c \in DOMAIN file' : file'[c] \in Seq(Copies)
    BY <1>2, <1>3, <1>4 DEF IInv, TypeInv
  <2>. QED  BY <1>1, <1>2, <1>3, <1>5, <2>1 DEF IInv, TypeInv
<1>7. CellInv'
  BY <1>1, <1>2, <1>3 DEF CellInv, InSave, InBackup
<1>8. TempInv'
  BY <1>1, <1>2, <1>3 DEF TempInv, Writing, Without
<1>9. FileInv' /\ FlagInv'
  BY <1>1, <1>2, <1>3, <1>5 DEF FileInv, FlagInv, Writing
<1>10. KeptInv'
  <2>1. \A c \in DOMAIN mem' \ (modified' \cup recovered') : c # cell => Kept(c)'
    BY <1>1, <1>5, OthersKept DEF IInv, SameFile
  <2>2. pc' = "check" => InFile(cell)'
    BY <1>1, <1>3, <1>4, <1>5 DEF InFile
  <2>3. pc' = "cleanup" => Kept(cell)'
    BY <1>1, <1>2, <1>3, <1>4 DEF Kept
  <2>. QED  BY <1>1, <1>2, <2>1, <2>2, <2>3 DEF KeptInv, Writing, Between
<1>. QED  BY <1>6, <1>7, <1>8, <1>9, <1>10 DEF IInv

LEMMA CheckSizeIInv ==
  ASSUME IInv, CheckSize
  PROVE  IInv'
<1>1. /\ pc = "check" /\ pc' = "cleanup" /\ mem' = mem /\ strays' = strays
      /\ file' = file /\ temp' = temp /\ backups' = backups
      /\ backupName' = backupName /\ version' = version
      /\ cell' = cell /\ todo' = todo /\ warned' = warned /\ recovered' = recovered
      /\ modified' = IF Len(file[cell]) # 1 THEN modified \cup {cell} ELSE modified
  BY DEF CheckSize, SizeWrong, disk, history
<1>2. /\ cell \in DOMAIN mem \ todo /\ cell \in DOMAIN file /\ todo \subseteq modified
      /\ DOMAIN temp = {} /\ mem[cell] \in Layouts
      /\ Len(file[cell]) = 1 => file[cell] = <<mem[cell]>>
  BY <1>1 DEF IInv, TypeInv, CellInv, TempInv, FileInv, InSave, Writing
<1>3. TypeInv'
  BY <1>1, <1>2 DEF IInv, TypeInv
<1>4. CellInv'
  BY <1>1, <1>2 DEF CellInv, InSave, InBackup
<1>5. TempInv' /\ FileInv' /\ FlagInv'
  BY <1>1, <1>2 DEF TempInv, FileInv, FlagInv, Writing
<1>6. KeptInv'
  <2>1. \A c \in DOMAIN mem' \ (modified' \cup recovered') : c # cell => Kept(c)'
    BY <1>1, OthersKept DEF IInv, SameFile
  <2>2. Len(file[cell]) = 1 => Reads(cell)' = mem[cell]
    <3>1. <<mem[cell]>> # <<>> /\ Head(<<mem[cell]>>) = mem[cell] /\ mem[cell] # Torn
      BY <1>2, LayoutFacts, OneCopy
    <3>. QED  BY <1>1, <1>2, <3>1 DEF Reads, Whole
  <2>3. cell \notin modified' => Kept(cell)'
    BY <1>1, <2>2 DEF Kept
  <2>. QED  BY <1>1, <2>1, <2>3 DEF KeptInv, Writing
<1>. QED  BY <1>3, <1>4, <1>5, <1>6 DEF IInv

LEMMA CleanupIInv ==
  ASSUME IInv, Cleanup
  PROVE  IInv'
<1>1. /\ pc = "cleanup" /\ pc' \in {"idle", "next"} /\ mem' = mem /\ strays' = strays
      /\ file' = file /\ temp' = temp /\ backups' = backups
      /\ backupName' = backupName /\ version' = version /\ modified' = modified
      /\ todo' = todo /\ warned' = warned /\ recovered' = recovered
  BY DEF Cleanup, disk, session, history
<1>2. todo \subseteq modified /\ DOMAIN temp = {}
  BY <1>1 DEF IInv, CellInv, TempInv, InSave, Writing
<1>3. TypeInv'
  BY <1>1 DEF IInv, TypeInv
<1>4. CellInv'
  BY <1>1, <1>2 DEF CellInv, InSave, InBackup
<1>5. TempInv' /\ FileInv' /\ FlagInv'
  BY <1>1, <1>2 DEF TempInv, FileInv, FlagInv, Writing
<1>6. KeptInv'
  <2>1. ASSUME NEW c \in DOMAIN mem' \ (modified' \cup recovered') PROVE Kept(c)'
    <3>1. Kept(c)
      BY <1>1, <2>1 DEF IInv, KeptInv, Between, Writing
    <3>. QED  BY <1>1, <3>1, StaysKept DEF SameFile
  <2>. QED  BY <1>1, <2>1 DEF KeptInv, Writing
<1>. QED  BY <1>3, <1>4, <1>5, <1>6 DEF IInv

-----------------------------------------------------------------------------
(* The crash backup.                                                         *)

LEMMA EmptyBackup == [copies |-> <<>>, whole |-> FALSE] \in Backup
<1>1. <<>> \in [{} -> Copies]
  OBVIOUS
<1>. QED  BY <1>1 DEF Backup

LEMMA BackupAdded ==
  ASSUME NEW b \in Backup, NEW s \in Seq(Backup)
  PROVE  <<b>> \o s \in Seq(Backup) /\ <<b>> \o s # <<>>
<1>1. <<b>> \in Seq(Backup) /\ Len(<<b>>) = 1
  OBVIOUS
<1>. QED  BY <1>1, ConcatProperties, LenProperties, EmptySeq

LEMMA BackupReplaced ==
  ASSUME NEW s \in Seq(Backup), s # <<>>, NEW b \in Backup
  PROVE  [s EXCEPT ![1] = b] \in Seq(Backup) /\ [s EXCEPT ![1] = b] # <<>>
         /\ s[1] \in Backup
<1>1. Len(s) \in Nat \ {0} /\ DOMAIN s = 1..Len(s)
  BY LenProperties, EmptySeq
<1>2. [s EXCEPT ![1] = b] \in Seq(Backup) /\ Len([s EXCEPT ![1] = b]) = Len(s)
  BY <1>1, ExceptSeq
<1>3. s[1] \in Backup
  BY <1>1, ElementOfSeq
<1>. QED  BY <1>1, <1>2, <1>3, EmptySeq

\* The backups that are left when this session's own is taken away.
LEMMA OtherBackups ==
  ASSUME TypeInv
  PROVE  (IF backupName THEN Tail(backups) ELSE backups) \in Seq(Backup)
BY HeadTailProperties DEF TypeInv

\* A step of the backup touches no file and nothing in memory but flags.
LEMMA BackupStep ==
  ASSUME IInv, file' = file, temp' = temp, strays' = strays, mem' = mem,
         version' = version, warned' = warned, recovered' = recovered,
         pc \in {"idle", "backup", "copy", "restore"},
         pc' \in {"idle", "backup", "copy", "restore"},
         backups' \in Seq(Backup) /\ backups' # <<>>, InBackup' => backupName',
         todo' \subseteq DOMAIN mem, modified' \subseteq DOMAIN mem,
         pc' \in {"copy", "restore"} => cell' \in DOMAIN mem \ todo',
         \A c \in DOMAIN mem \ (modified' \cup recovered) :
            (c \notin modified /\ ~Between(c)) \/ (c = cell' /\ pc' = "restore")
  PROVE  IInv'
<1>. ~Writing' /\ ~Writing
  BY DEF Writing
<1>1. TypeInv'
  BY DEF IInv, TypeInv
<1>2. CellInv'
  BY DEF CellInv, InSave, InBackup
<1>3. TempInv' /\ FileInv' /\ FlagInv'
  BY DEF IInv, TempInv, FileInv, FlagInv
<1>4. KeptInv'
  <2>1. ASSUME NEW c \in DOMAIN mem' \ (modified' \cup recovered')
        PROVE  Kept(c)' \/ Between(c)'
    <3>1. CASE c = cell' /\ pc' = "restore"
      BY <3>1 DEF Between
    <3>2. CASE c \notin modified /\ ~Between(c)
      <4>1. Kept(c)
        BY <2>1, <3>2 DEF IInv, KeptInv
      <4>. QED  BY <4>1, StaysKept DEF SameFile
    <3>. QED  BY <2>1, <3>1, <3>2
  <2>. QED  BY <2>1 DEF KeptInv
<1>. QED  BY <1>1, <1>2, <1>3, <1>4 DEF IInv

LEMMA DBWriteBackupIInv ==
  ASSUME IInv, DBWriteBackup
  PROVE  IInv'
<1>1. /\ pc = "idle" /\ pc' = "backup" /\ file' = file /\ temp' = temp /\ strays' = strays
      /\ mem' = mem /\ modified' = modified /\ version' = version /\ todo' = modified
      /\ warned' = warned /\ recovered' = recovered /\ backupName' = TRUE
      /\ backups' = <<[copies |-> <<>>, whole |-> FALSE]>> \o
                    (IF backupName THEN Tail(backups) ELSE backups)
  BY DEF DBWriteBackup, Dispatch, history
<1>2. backups' \in Seq(Backup) /\ backups' # <<>>
  BY <1>1, EmptyBackup, OtherBackups, BackupAdded DEF IInv
<1>3. modified \subseteq DOMAIN mem
  BY DEF IInv, TypeInv
<1>4. \A c \in DOMAIN mem : ~Between(c)
  BY <1>1 DEF Between, Writing
<1>. QED  BY <1>1, <1>2, <1>3, <1>4, BackupStep DEF InBackup

LEMMA BackupBeginsIInv ==
  ASSUME IInv, BackupBegins
  PROVE  IInv'
<1>1. /\ pc = "backup" /\ pc' = "copy" /\ file' = file /\ temp' = temp /\ strays' = strays
      /\ mem' = mem /\ modified' = modified /\ version' = version
      /\ warned' = warned /\ recovered' = recovered /\ backupName' = backupName
  BY DEF BackupBegins, session, history
<1>2. /\ cell' \in todo /\ todo' = todo \ {cell'}
      /\ backups' = [backups EXCEPT ![1] =
                       [backups[1] EXCEPT !.copies = With(backups[1].copies, cell', Torn)]]
  BY DEF BackupBegins
<1>3. /\ backups \in Seq(Backup) /\ backups # <<>> /\ backupName
      /\ modified \subseteq DOMAIN mem /\ todo \subseteq DOMAIN mem /\ DOMAIN mem \subseteq Cells
  BY <1>1 DEF IInv, TypeInv, CellInv, InBackup
<1>4. backups[1] \in Backup
  BY <1>3, BackupReplaced, EmptyBackup
<1>5. [backups[1] EXCEPT !.copies = With(backups[1].copies, cell', Torn)] \in Backup
  <2>1. DOMAIN backups[1].copies \subseteq Cells
        /\ \A c \in DOMAIN backups[1].copies : backups[1].copies[c] \in Copies
    BY <1>4 DEF Backup
  <2>2. With(backups[1].copies, cell', Torn)
          \in [DOMAIN backups[1].copies \cup {cell'} -> Copies]
    BY <2>1, LayoutFacts DEF With
  <2>3. DOMAIN backups[1].copies \cup {cell'} \in SUBSET Cells
    BY <1>2, <1>3, <2>1
  <2>. QED  BY <1>4, <2>2, <2>3 DEF Backup
<1>6. backups' \in Seq(Backup) /\ backups' # <<>>
  BY <1>2, <1>3, <1>5, BackupReplaced
<1>7. \A c \in DOMAIN mem : ~Between(c)
  BY <1>1 DEF Between, Writing
<1>. QED  BY <1>1, <1>2, <1>3, <1>6, <1>7, BackupStep

LEMMA BackupEndsIInv ==
  ASSUME IInv, BackupEnds
  PROVE  IInv'
<1>1. /\ pc = "copy" /\ file' = file /\ temp' = temp /\ strays' = strays
      /\ mem' = mem /\ version' = version /\ cell' = cell
      /\ warned' = warned /\ recovered' = recovered /\ backupName' = backupName
  BY DEF BackupEnds, history
<1>2. \/ /\ pc' = "restore" /\ modified' = modified \ {cell} /\ todo' = todo
         /\ backups' = [backups EXCEPT ![1] =
                          [backups[1] EXCEPT !.copies =
                             [backups[1].copies EXCEPT ![cell] = mem[cell]]]]
      \/ pc' = "backup" /\ modified' = modified /\ todo' = {} /\ backups' = backups
  BY DEF BackupEnds
<1>3. /\ backups \in Seq(Backup) /\ backups # <<>> /\ backupName
      /\ modified \subseteq DOMAIN mem /\ todo \subseteq DOMAIN mem
      /\ cell \in DOMAIN mem \ todo /\ mem[cell] \in Layouts
  BY <1>1 DEF IInv, TypeInv, CellInv, InBackup
<1>4. backups[1] \in Backup
  BY <1>3, BackupReplaced, EmptyBackup
<1>5. [backups[1] EXCEPT !.copies = [backups[1].copies EXCEPT ![cell] = mem[cell]]] \in Backup
  <2>1. PICK D \in SUBSET Cells : backups[1].copies \in [D -> Copies]
    BY <1>4 DEF Backup
  <2>2. [backups[1].copies EXCEPT ![cell] = mem[cell]] \in [D -> Copies]
    BY <1>3, <2>1, LayoutFacts
  <2>. QED  BY <1>4, <2>2 DEF Backup
<1>6. backups' \in Seq(Backup) /\ backups' # <<>>
  BY <1>2, <1>3, <1>5, BackupReplaced
<1>7. \A c \in DOMAIN mem : ~Between(c)
  BY <1>1 DEF Between, Writing
<1>. QED  BY <1>1, <1>2, <1>3, <1>6, <1>7, BackupStep

LEMMA RestoreFlagsIInv ==
  ASSUME IInv, RestoreFlags
  PROVE  IInv'
<1>1. /\ pc = "restore" /\ pc' = "backup" /\ file' = file /\ temp' = temp
      /\ strays' = strays /\ backups' = backups /\ todo' = todo
      /\ mem' = mem /\ modified' = modified \cup {cell} /\ version' = version
      /\ warned' = warned /\ recovered' = recovered /\ backupName' = backupName
  BY DEF RestoreFlags, disk, history
<1>2. /\ backups \in Seq(Backup) /\ backups # <<>> /\ backupName
      /\ modified \subseteq DOMAIN mem /\ todo \subseteq DOMAIN mem /\ cell \in DOMAIN mem
  BY <1>1 DEF IInv, TypeInv, CellInv, InBackup
<1>3. \A c \in DOMAIN mem \ modified' : ~Between(c)
  BY <1>1 DEF Between, Writing
<1>. QED  BY <1>1, <1>2, <1>3, BackupStep

LEMMA EndBackupIInv ==
  ASSUME IInv, EndBackup
  PROVE  IInv'
<1>1. /\ pc = "backup" /\ pc' = "idle" /\ file' = file /\ temp' = temp
      /\ strays' = strays /\ todo' = todo
      /\ mem' = mem /\ modified' = modified /\ version' = version
      /\ warned' = warned /\ recovered' = recovered /\ backupName' = backupName
      /\ backups' = [backups EXCEPT ![1] = [backups[1] EXCEPT !.whole = TRUE]]
  BY DEF EndBackup, session, history
<1>2. /\ backups \in Seq(Backup) /\ backups # <<>> /\ backupName
      /\ modified \subseteq DOMAIN mem /\ todo \subseteq DOMAIN mem
  BY <1>1 DEF IInv, TypeInv, CellInv, InBackup
<1>3. backups[1] \in Backup
  BY <1>2, BackupReplaced, EmptyBackup
<1>4. [backups[1] EXCEPT !.whole = TRUE] \in Backup
  BY <1>3 DEF Backup
<1>5. backups' \in Seq(Backup) /\ backups' # <<>>
  BY <1>1, <1>2, <1>4, BackupReplaced
<1>6. \A c \in DOMAIN mem : ~Between(c)
  BY <1>1 DEF Between, Writing
<1>. QED  BY <1>1, <1>2, <1>5, <1>6, BackupStep DEF InBackup

-----------------------------------------------------------------------------
(* The end of a session.                                                     *)

LEMMA EndSessionIInv ==
  ASSUME IInv, EndSession, backups' \in Seq(Backup)
  PROVE  IInv'
<1>1. /\ temp' = <<>> /\ mem' = <<>> /\ modified' = {} /\ backupName' = FALSE
      /\ warned' = {} /\ recovered' = {} /\ pc' = "dead" /\ todo' = {}
      /\ file' = file /\ version' = version
  BY DEF EndSession
<1>2. DOMAIN temp' = {} /\ DOMAIN mem' = {}
  BY <1>1
<1>. ~Writing'
  BY <1>1 DEF Writing
<1>3. TypeInv'
  BY <1>1, <1>2 DEF IInv, TypeInv
<1>4. CellInv'
  BY <1>1 DEF CellInv, InSave, InBackup
<1>5. TempInv' /\ FileInv' /\ FlagInv'
  BY <1>1, <1>2 DEF TempInv, FileInv, FlagInv
<1>6. KeptInv'
  BY <1>1, <1>2 DEF KeptInv
<1>. QED  BY <1>3, <1>4, <1>5, <1>6 DEF IInv

\* What the handler of SIGTERM has written when it exits.
Killed(copies) == [copies |-> copies, whole |-> TRUE]

LEMMA sigOnTermBackups ==
  ASSUME IInv, sigOnTerm
  PROVE  backups' \in Seq(Backup)
<1>. DEFINE others == IF backupName THEN Tail(backups) ELSE backups
<1>1. others \in Seq(Backup) /\ backups \in Seq(Backup)
  BY OtherBackups DEF IInv, TypeInv
<1>2. modified \subseteq Cells /\ \A c \in modified : mem[c] \in Copies
  BY LayoutFacts DEF IInv, TypeInv
<1>. HIDE DEF others
<1>3. \/ backups' = backups
      \/ \E c \in modified : backups' = <<Killed([d \in {c} |-> Torn])>> \o others
      \/ backups' = <<Killed([c \in modified |-> mem[c]])>> \o others
  BY DEF sigOnTerm, Killed, others
<1>4. \A c \in modified : Killed([d \in {c} |-> Torn]) \in Backup
  <2>1. TAKE c \in modified
  <2>2. [d \in {c} |-> Torn] \in [{c} -> Copies] /\ {c} \in SUBSET Cells
    BY <1>2, LayoutFacts
  <2>. QED  BY <2>2 DEF Killed, Backup
<1>5. Killed([c \in modified |-> mem[c]]) \in Backup
  <2>1. [c \in modified |-> mem[c]] \in [modified -> Copies] /\ modified \in SUBSET Cells
    BY <1>2
  <2>. QED  BY <2>1 DEF Killed, Backup
<1>6. CASE backups' = backups
  BY <1>1, <1>6
<1>7. CASE \E c \in modified : backups' = <<Killed([d \in {c} |-> Torn])>> \o others
  BY <1>1, <1>4, <1>7, BackupAdded
<1>8. CASE backups' = <<Killed([c \in modified |-> mem[c]])>> \o others
  BY <1>1, <1>5, <1>8, BackupAdded
<1>. QED  BY <1>3, <1>6, <1>7, <1>8

LEMMA EndsIInv ==
  ASSUME IInv, MainExit \/ Crash \/ sigOnTerm
  PROVE  IInv'
<1>1. CASE MainExit
  BY <1>1, EndSessionIInv, OtherBackups DEF MainExit, IInv
<1>2. CASE Crash
  BY <1>2, EndSessionIInv DEF Crash, IInv, TypeInv
<1>3. CASE sigOnTerm
  BY <1>3, EndSessionIInv, sigOnTermBackups DEF sigOnTerm
<1>. QED  BY <1>1, <1>2, <1>3

LEMMA RestartIInv ==
  ASSUME IInv, Restart
  PROVE  IInv'
<1>1. /\ pc = "dead" /\ pc' = "idle" /\ todo' = todo
      /\ file' = file /\ temp' = temp /\ strays' = strays /\ backups' = backups
      /\ mem' = mem /\ modified' = modified /\ backupName' = backupName /\ version' = version
      /\ warned' = warned /\ recovered' = recovered
  BY DEF Restart, disk, session, history
<1>2. TypeInv'
  BY <1>1 DEF IInv, TypeInv
<1>3. ASSUME NEW c \in DOMAIN mem' \ (modified' \cup recovered') PROVE Kept(c)'
  <2>1. Kept(c)
    BY <1>1, <1>3 DEF IInv, KeptInv, Between, Writing
  <2>. QED  BY <1>1, <2>1, StaysKept DEF SameFile
<1>4. CellInv' /\ TempInv' /\ FileInv' /\ FlagInv'
  BY <1>1 DEF IInv, CellInv, TempInv, FileInv, FlagInv, InSave, InBackup, Writing
<1>5. KeptInv'
  BY <1>1, <1>3 DEF KeptInv, Writing
<1>. QED  BY <1>2, <1>4, <1>5 DEF IInv

LEMMA StutterIInv ==
  ASSUME IInv, UNCHANGED <<disk, session, save, history>>
  PROVE  IInv'
BY DEF disk, session, save, history, IInv, TypeInv, CellInv, TempInv, FileInv, FlagInv,
       KeptInv, Kept, InFile, Between, Writing, InSave, InBackup, Reads, Whole

LEMMA InitIInv ==
  ASSUME Init
  PROVE  IInv
<1>1. /\ file = [c \in OldCells |-> <<1>>] /\ temp = <<>> /\ backups = <<>>
      /\ mem = <<>> /\ modified = {} /\ backupName = FALSE /\ version = 1
      /\ pc = "idle" /\ todo = {} /\ warned = {}
  BY DEF Init
<1>2. 1 \in Copies /\ 1 \in Versions \ {Empty}
  BY CellFileAssumption DEF Copies, Layouts, Versions, Empty
<1>3. DOMAIN mem = {} /\ DOMAIN temp = {} /\ backups \in Seq(Backup)
  BY <1>1, EmptySeq
<1>4. \A c \in DOMAIN file : file[c] \in Seq(Copies)
  BY <1>1, <1>2
<1>5. TypeInv
  BY <1>1, <1>2, <1>3, <1>4 DEF TypeInv
<1>6. CellInv /\ TempInv /\ FileInv /\ FlagInv /\ KeptInv
  BY <1>1, <1>3 DEF CellInv, TempInv, FileInv, FlagInv, KeptInv, InSave, InBackup, Writing
<1>. QED  BY <1>5, <1>6 DEF IInv

-----------------------------------------------------------------------------
LEMMA NextIInv ==
  ASSUME IInv, [Next]_vars
  PROVE  IInv'
<1>1. CASE \E c \in Cells : DBCellRead(c) \/ Edit(c) \/ cmdFlushCell(c) \/ CmdSave(c)
  BY <1>1, DBCellReadIInv, EditIInv, cmdFlushCellIInv, CommandIInv
<1>2. CASE CmdWriteall \/ cmdWriteallFunc
  BY <1>2, CommandIInv, cmdWriteallFuncIInv
<1>3. CASE OpenExisting \/ OpenNew \/ WriteBegins \/ WriteEnds \/ WriteFails
  BY <1>3, OpenExistingIInv, OpenNewIInv, WriteBeginsIInv, WriteEndsIInv, WriteFailsIInv
<1>4. CASE Rename \/ CheckSize \/ Cleanup
  BY <1>4, RenameIInv, CheckSizeIInv, CleanupIInv
<1>5. CASE DBWriteBackup \/ BackupBegins \/ BackupEnds \/ RestoreFlags \/ EndBackup
  BY <1>5, DBWriteBackupIInv, BackupBeginsIInv, BackupEndsIInv, RestoreFlagsIInv, EndBackupIInv
<1>6. CASE DBFileRecovery \/ MainExit \/ Crash \/ sigOnTerm \/ Restart
  BY <1>6, DBFileRecoveryIInv, EndsIInv, RestartIInv
<1>7. CASE sigOnInterrupt
  BY <1>7, StutterIInv DEF sigOnInterrupt
<1>8. CASE UNCHANGED vars
  BY <1>8, StutterIInv DEF vars
<1>. QED  BY <1>1, <1>2, <1>3, <1>4, <1>5, <1>6, <1>7, <1>8 DEF Next

(* The inductive invariant holds of every session and of what it leaves.     *)
THEOREM Invariance == Spec => []IInv
BY InitIInv, NextIInv, PTL DEF Spec

(* Between commands a cell that is not flagged as modified is what its file  *)
(* reads as, or its user was warned, or it came from a crash backup.         *)
THEOREM QuitIsSafe == Spec => []UnsavedIsFlagged
<1>1. ASSUME IInv PROVE UnsavedIsFlagged
  <2>. SUFFICES ASSUME NEW c \in DOMAIN mem \ (modified \cup warned \cup recovered), pc = "idle"
                PROVE  mem[c] = Reads(c)
    BY DEF UnsavedIsFlagged
  <2>1. Kept(c)
    BY <1>1 DEF IInv, KeptInv, Between, Writing
  <2>. QED  BY <2>1 DEF Kept
<1>. QED  BY Invariance, <1>1, PTL

-----------------------------------------------------------------------------
(* A whole file stays whole.                                                 *)

\* What a step does to the file of one cell.
OldOrNew(c) == Whole(c) =>
                  /\ Whole(c)'
                  /\ Reads(c)' # Reads(c) => c \in DOMAIN mem /\ Reads(c)' = mem[c]

LEMMA SameFileOldOrNew ==
  ASSUME NEW c, SameFile(c)
  PROVE  OldOrNew(c)
BY SameReads DEF OldOrNew

\* A file that starts as it did reads as it did.
LEMMA SameHeadOldOrNew ==
  ASSUME NEW c, Whole(c) => c \in DOMAIN file' /\ file'[c] # <<>>
                            /\ Head(file'[c]) = Head(file[c])
  PROVE  OldOrNew(c)
BY DEF OldOrNew, Whole, Reads

\* When the last copy of a whole file is torn, it is not the first one.
LEMMA TornIsNotFirst ==
  ASSUME NEW c, Whole(c), file[c] \in Seq(Copies), Last(file[c]) = Torn
  PROVE  Len(file[c]) > 1
<1>1. file[c] # <<>> /\ Head(file[c]) # Torn
  BY DEF Whole
<1>2. Len(file[c]) \in Nat \ {0} /\ Head(file[c]) = file[c][1]
  BY <1>1, LenProperties, EmptySeq, HeadTailProperties
<1>. QED  BY <1>1, <1>2 DEF Last

LEMMA SaveOldOrNew ==
  ASSUME IInv, OpenNew \/ WriteBegins \/ WriteEnds \/ WriteFails \/ Rename, NEW c \in Cells
  PROVE  OldOrNew(c)
<1>0. c \in DOMAIN file => file[c] \in Seq(Copies)
  BY DEF IInv, TypeInv
<1>1. CASE OpenNew
  <2>1. SameFile(c) \/ c \notin DOMAIN file
    BY <1>1 DEF OpenNew, SameFile, With
  <2>. QED  BY <2>1, SameFileOldOrNew DEF OldOrNew, Whole
<1>2. CASE WriteBegins
  <2>1. SameFile(c) \/ (c \in DOMAIN file => c \in DOMAIN file'
                                             /\ file'[c] = Append(file[c], Torn))
    BY <1>2 DEF WriteBegins, Put, Target, SameFile
  <2>2. Whole(c) => Append(file[c], Torn) # <<>> /\ Head(Append(file[c], Torn)) = Head(file[c])
    BY <1>0, Appended, LayoutFacts DEF Whole
  <2>. QED  BY <2>1, <2>2, SameFileOldOrNew, SameHeadOldOrNew DEF Whole
<1>3. CASE WriteEnds
  <2>0. pc = "write" /\ (c = cell /\ c \in DOMAIN file => cell \in DOMAIN mem)
    BY <1>3 DEF WriteEnds, IInv, CellInv, InSave
  <2>1. \/ SameFile(c)
        \/ /\ c = cell /\ kind # "temp"
           /\ c \in DOMAIN file => c \in DOMAIN file'
                                   /\ file'[c] = Append(Front(file[c]), mem[c])
    BY <1>3 DEF WriteEnds, Put, Target, SameFile
  <2>2. CASE c = cell /\ kind # "temp" /\ Whole(c)
    <3>1. Last(file[c]) = Torn /\ file[c] # <<>> /\ c \in DOMAIN file
      <4>1. kind = "new" => file[c] = <<Torn>>
        BY <2>0, <2>2 DEF IInv, FileInv
      <4>2. file[c] # <<>> /\ Head(file[c]) # Torn /\ c \in DOMAIN file
        BY <2>2 DEF Whole
      <4>3. kind # "new"
        BY <4>1, <4>2, OneCopy
      <4>. QED  BY <2>0, <2>2, <4>2, <4>3 DEF IInv, FileInv, Writing
    <3>2. Len(file[c]) > 1
      BY <1>0, <2>2, <3>1, TornIsNotFirst
    <3>3. mem[c] \in Copies
      BY <2>0, <2>2, <3>1, LayoutFacts DEF IInv, TypeInv
    <3>4. Append(Front(file[c]), mem[c]) # <<>>
          /\ Head(Append(Front(file[c]), mem[c])) = Head(file[c])
      BY <1>0, <3>1, <3>2, <3>3, Replaced
    <3>. QED  BY <2>1, <3>1, <3>4, SameFileOldOrNew, SameHeadOldOrNew
  <2>. QED  BY <2>1, <2>2, SameFileOldOrNew DEF OldOrNew
<1>4. CASE WriteFails
  <2>0. pc = "write"
    BY <1>4 DEF WriteFails
  <2>1. \/ SameFile(c)
        \/ c = cell /\ kind = "new"
        \/ /\ c = cell /\ kind = "append"
           /\ c \in DOMAIN file => c \in DOMAIN file' /\ file'[c] = Front(file[c])
    BY <1>4 DEF WriteFails, UnlinkTemp, Put, Target, SameFile, Without
  <2>2. CASE c = cell /\ kind = "new"
    <3>1. file[c] = <<Torn>>
      BY <2>0, <2>2 DEF IInv, FileInv
    <3>. QED  BY <3>1, OneCopy DEF OldOrNew, Whole
  <2>3. CASE c = cell /\ kind = "append" /\ Whole(c)
    <3>1. Last(file[c]) = Torn /\ file[c] # <<>> /\ c \in DOMAIN file
      BY <2>0, <2>3 DEF IInv, FileInv, Whole
    <3>2. Len(file[c]) > 1
      BY <1>0, <2>3, <3>1, TornIsNotFirst
    <3>3. Front(file[c]) # <<>> /\ Head(Front(file[c])) = Head(file[c])
      BY <1>0, <3>1, <3>2, Cut
    <3>. QED  BY <2>1, <2>3, <3>1, <3>3, SameFileOldOrNew, SameHeadOldOrNew
  <2>. QED  BY <2>1, <2>2, <2>3, SameFileOldOrNew DEF OldOrNew
<1>5. CASE Rename
  <2>1. pc = "rename"
    BY <1>5 DEF Rename
  <2>2. cell \in DOMAIN mem /\ temp[cell] = <<mem[cell]>> /\ mem[cell] \in Layouts
    BY <2>1 DEF IInv, TypeInv, CellInv, TempInv, InSave
  <2>3. \/ SameFile(c)
        \/ c = cell /\ (c \in DOMAIN file => c \in DOMAIN file' /\ file'[c] = <<mem[c]>>)
    BY <1>5, <2>2 DEF Rename, SameFile
  <2>4. <<mem[cell]>> # <<>> /\ Head(<<mem[cell]>>) = mem[cell] /\ mem[cell] # Torn
    BY <2>2, OneCopy, LayoutFacts
  <2>5. CASE c = cell /\ (c \in DOMAIN file => c \in DOMAIN file' /\ file'[c] = <<mem[c]>>)
    BY <2>2, <2>4, <2>5, SameReads DEF OldOrNew, Whole, Reads
  <2>. QED  BY <2>3, <2>5, SameFileOldOrNew
<1>. QED  BY <1>1, <1>2, <1>3, <1>4, <1>5

LEMMA NextOldOrNew ==
  ASSUME IInv, [Next]_vars, NEW c \in Cells
  PROVE  OldOrNew(c)
<1>1. CASE OpenNew \/ WriteBegins \/ WriteEnds \/ WriteFails \/ Rename
  BY <1>1, SaveOldOrNew
<1>2. CASE file' = file
  BY <1>2, SameFileOldOrNew DEF SameFile
<1>3. \/ OpenNew \/ WriteBegins \/ WriteEnds \/ WriteFails \/ Rename
      \/ file' = file
  BY DEF Next, DBCellRead, Edit, cmdFlushCell, CmdSave, CmdWriteall, cmdWriteallFunc,
         OpenExisting, CheckSize, Cleanup, DBWriteBackup, BackupBegins, BackupEnds,
         RestoreFlags, EndBackup, DBFileRecovery, MainExit, Crash, sigOnTerm, EndSession,
         Restart, sigOnInterrupt, vars, disk
<1>. QED  BY <1>1, <1>2, <1>3

(* A file that reads as a whole layout goes on doing so, at every step.      *)
THEOREM FilesStayWhole == Spec => ReadsOldOrNew
<1>1. IInv /\ [Next]_vars => [\A c \in Cells : OldOrNew(c)]_vars
  BY NextOldOrNew
<1>2. Spec => [][\A c \in Cells : OldOrNew(c)]_vars
  BY Invariance, <1>1, PTL DEF Spec
<1>. QED  BY <1>2 DEF ReadsOldOrNew, OldOrNew

-----------------------------------------------------------------------------
(* A SIGTERM loses no work.                                                  *)

\* The layout in memory of a cell is in some file after the step, or need not be.
Survives(c) == \/ pc = "restore" /\ c = cell
               \/ mem[c] \in {Empty, Reads(c)}
               \/ \E v \in {mem[c]} : OnDisk(c, v)'

LEMMA StrayOrInFileSurvives ==
  ASSUME NEW c, file' = file, <<c, mem[c]>> \in strays' \/ InFile(c)
  PROVE  Survives(c)
<1>1. CASE <<c, mem[c]>> \in strays'
  BY <1>1 DEF Survives, OnDisk
<1>2. CASE InFile(c)
  <2>1. c \in DOMAIN file' /\ mem[c] \in ToSet(file'[c])
    BY <1>2 DEF InFile, ToSet
  <2>. QED  BY <2>1 DEF Survives, OnDisk
<1>. QED  BY <1>1, <1>2

LEMMA BackedUpSurvives ==
  ASSUME IInv, sigOnTerm, ~(pending /\ numDisables # 0), NEW c \in modified
  PROVE  Survives(c)
<1>. DEFINE others == IF backupName THEN Tail(backups) ELSE backups
            b == Killed([d \in modified |-> mem[d]])
<1>1. others \in Seq(Backup)
  BY OtherBackups DEF IInv
<1>. HIDE DEF others
<1>2. backups' = <<b>> \o others
  BY DEF sigOnTerm, Killed, others
<1>3. b \in Backup
  <2>1. [d \in modified |-> mem[d]] \in [modified -> Copies] /\ modified \in SUBSET Cells
    BY LayoutFacts DEF IInv, TypeInv
  <2>. QED  BY <2>1 DEF Killed, Backup
<1>4. b.copies = [d \in modified |-> mem[d]]
  BY DEF Killed
<1>. HIDE DEF b
<1>5. 1 \in DOMAIN backups' /\ backups'[1] = b
  <2>1. <<b>> \in Seq(Backup) /\ Len(<<b>>) = 1 /\ <<b>>[1] = b
    BY <1>3
  <2>2. backups' \in Seq(Backup) /\ backups' # <<>>
    BY <1>1, <1>2, <1>3, BackupAdded
  <2>3. Len(backups') \in Nat \ {0} /\ DOMAIN backups' = 1..Len(backups')
    BY <2>2, LenProperties, EmptySeq
  <2>4. backups'[1] = b
    BY <1>1, <1>2, <2>1, <2>3, ConcatProperties, LenProperties
  <2>. QED  BY <2>3, <2>4
<1>6. b \in ToSet(backups') /\ c \in DOMAIN b.copies /\ b.copies[c] = mem[c]
  BY <1>4, <1>5 DEF ToSet
<1>. QED  BY <1>6 DEF Survives, OnDisk

LEMMA sigOnTermSurvives ==
  ASSUME IInv, sigOnTerm, ~(pending /\ numDisables # 0), NEW c \in DOMAIN mem \ recovered
  PROVE  Survives(c)
<1>1. file' = file
      /\ strays' = strays \cup {<<d, temp[d][1]>> :
                                  d \in {e \in DOMAIN temp : temp[e] \notin {<<>>, <<Torn>>}}}
  BY DEF sigOnTerm, EndSession
<1>2. CASE c \in modified
  BY <1>2, BackedUpSurvives
<1>3. CASE c \notin modified /\ Kept(c)
  BY <1>1, <1>3, StrayOrInFileSurvives DEF Kept, Survives
<1>4. CASE c \notin modified /\ Between(c)
  <2>1. CASE Writing
    BY <1>1, <1>4, <2>1, StrayOrInFileSurvives
       DEF IInv, FileInv, FlagInv, KeptInv, Between, Survives
  <2>2. CASE pc = "rename"
    <3>1. c = cell /\ DOMAIN temp = {c} /\ temp[c] = <<mem[c]>> /\ mem[c] \in Layouts
      BY <1>4, <2>2 DEF IInv, TypeInv, TempInv, Between
    <3>2. /\ <<mem[c]>> # <<>> /\ <<mem[c]>>[1] = mem[c] /\ <<Torn>>[1] = Torn
          /\ mem[c] # Torn
      BY <3>1, OneCopy, LayoutFacts
    <3>3. temp[c] \notin {<<>>, <<Torn>>} /\ temp[c][1] = mem[c]
      BY <3>1, <3>2
    <3>4. <<c, mem[c]>> \in strays'
      BY <1>1, <3>1, <3>3
    <3>. QED  BY <1>1, <3>4, StrayOrInFileSurvives
  <2>3. CASE pc = "check"
    BY <1>1, <1>4, <2>3, StrayOrInFileSurvives DEF IInv, KeptInv, Between
  <2>4. CASE pc = "restore"
    BY <1>4, <2>4 DEF Between, Survives
  <2>. QED  BY <1>4, <2>1, <2>2, <2>3, <2>4 DEF Between
<1>. QED  BY <1>2, <1>3, <1>4 DEF IInv, KeptInv

(* A SIGTERM in the middle of a save or a backup leaves the layout of every  *)
(* cell in its file, in a temporary file or in the crash backup.             *)
THEOREM TermIsSafe == Spec => TermLosesNothing
<1>. DEFINE Step == sigOnTerm /\ ~(pending /\ numDisables # 0) =>
                       \A c \in DOMAIN mem \ recovered : Survives(c)
<1>1. IInv /\ [Next]_vars => [Step]_vars
  BY sigOnTermSurvives
<1>. HIDE DEF Step
<1>2. Spec => [][Step]_vars
  BY Invariance, <1>1, PTL DEF Spec
<1>. QED  BY <1>2 DEF TermLosesNothing, Survives, Step
=============================================================================
