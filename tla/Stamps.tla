------------------------------- MODULE Stamps -------------------------------
(***************************************************************************)
(* Timestamps of Magic's cells (database/DBtimestmp.c).  A cell can be      *)
(* edited in a session that has not loaded the cells that use it.  Each     *)
(* parent therefore records the stamp it expects of every child; a mismatch *)
(* found on reading makes the design rule checker look at the parent again, *)
(* and the circuit extractor decides by the stamps which cells to extract.  *)
(***************************************************************************)
EXTENDS Naturals, Sequences, FiniteSets, Functions

CONSTANTS
  Cell,         \* names of cells, all of which have a file
  Uses,         \* cell |-> the cells that it uses, as its file lists them
  Edited,       \* bound: the cells that the user edits
  Roots,        \* bound: the cells whose trees the user extracts
  MaxTime,      \* bound: the last second at which something happens
  MaxEdits      \* bound: edits, in all sessions

ASSUME UsesAssumption == IsFiniteSet(Cell) /\ Uses \in [Cell -> Seq(Cell)]
\* Subcells are not used circularly: such uses are ignored.
ASSUME NotCircular ==
  \E depth \in [Cell -> 0..Cardinality(Cell)] :
    \A c \in Cell : \A k \in Range(Uses[c]) : depth[k] < depth[c]
ASSUME UserAssumption == Edited \subseteq Cell /\ Roots \subseteq Cell
ASSUME BoundsAssumption == MaxTime \in Nat \ {0} /\ MaxEdits \in Nat

VARIABLES
  disk,         \* cell |-> what its file holds
  def,          \* cell |-> its definition in memory
  mismatch,     \* cells whose stamp was found to be wrong, newest first
  processed,    \* cells with CDPROCESSED
  fixing,       \* DBFixMismatch is running
  ext,          \* cell |-> its .ext file
  now,          \* time() in seconds, when it was last asked for
  edits         \* (ghost) edits so far, which number the versions of layout

Kids == [c \in Cell |-> Range(Uses[c])]
\* A cell and all that is used below it, in the order of a tree search.
Tree[c \in Cell] ==
  LET \* the trees of the first i uses
      trees[i \in 0..Len(Uses[c])] ==
        IF i = 0 THEN <<>> ELSE trees[i - 1] \o Tree[Uses[c][i]]
  IN <<c>> \o trees[Len(Uses[c])]
Below == [c \in Cell |-> Range(Tree[c])]
vars == <<disk, def, mismatch, processed, fixing, ext, now, edits>>

\* Ghosts: `seen' is the version of each child that the last check of the cell
\* saw, `old' says that the layout is newer than the stamp, `blind' are the
\* children that have changed without a mismatch, and `passed' those whose
\* mismatch was passed over.
Unknown == [state |-> "unknown"]
Dummy(stamp) == [state |-> "dummy", stamp |-> stamp]
File(c) == [stamp : 0..MaxTime, ver : 0..MaxEdits, exp : [Kids[c] -> 0..MaxTime],
            seen : [Kids[c] -> 0..MaxEdits], check : BOOLEAN, old : BOOLEAN,
            blind : SUBSET Kids[c], passed : SUBSET Kids[c]]
Read(c) == [state : {"read"}, stamp : 0..MaxTime, ver : 0..MaxEdits,
            seen : [Kids[c] -> 0..MaxEdits], check : BOOLEAN, old : BOOLEAN,
            blind : SUBSET Kids[c], passed : SUBSET Kids[c], getnew : BOOLEAN]

IsRead(c, d) == d[c].state = "read"
Users(c, d) == {p \in Cell : IsRead(p, d) /\ c \in Kids[p]}
\* The cells above c, on ways up that lead through these cells.
Above(c, d, cells) ==
  LET up[x \in Cell] == LET ps == Users(x, d) \cap cells
                        IN ps \cup UNION {up[p] : p \in ps}
  IN up[c]

\* All cells have been checked, saved and extracted.
Init ==
  /\ disk = [c \in Cell |->
               [stamp |-> 1, ver |-> 0, exp |-> [k \in Kids[c] |-> 1],
                seen |-> [k \in Kids[c] |-> 0], check |-> FALSE, old |-> FALSE,
                blind |-> {}, passed |-> {}]]
  /\ def = [c \in Cell |-> Unknown]
  /\ mismatch = <<>> /\ processed = {} /\ fixing = FALSE
  /\ ext = [c \in Cell |->
              [stamp |-> 1, ver |-> 0, old |-> FALSE]]
  /\ now = 1 /\ edits = 0

-----------------------------------------------------------------------------
(* Reading a cell, which finds mismatches.                                  *)

\* A stamp of zero mismatches for ever, until the cell is read.
Mismatched(expected, stamp) == expected # stamp \/ expected = 0

\* The `use' line for k in p's file: the definition of k, known or not, and
\* whether its stamp is the expected one.  m is the memory.
dbReadUse(m, p, k) ==
  LET expected == disk[p].exp[k]
      kid == IF m.def[k] = Unknown THEN Dummy(expected) ELSE m.def[k]
      wrong == Mismatched(expected, kid.stamp)
  IN [wrong |-> wrong,
      def |-> IF wrong /\ kid.state = "dummy" THEN Dummy(0) ELSE kid,
      blind |-> ~wrong /\ kid.state = "read" /\ kid.old /\ disk[p].seen[k] # kid.ver]

\* The uses in the order of the file, each mismatch in front of those before.
Found(c, use, list) ==
  LET found[i \in 0..Len(Uses[c])] ==
        IF i = 0 THEN list
        ELSE IF use[Uses[c][i]].wrong THEN <<Uses[c][i]>> \o found[i - 1]
                                      ELSE found[i - 1]
  IN found[Len(Uses[c])]

\* c is read unless it has been; its uses first, its stamp at the end.
DBCellRead(m, c) ==
  IF IsRead(c, m.def) THEN m ELSE
  LET f == disk[c]
      use == [k \in Kids[c] |-> dbReadUse(m, c, k)]
      users == Users(c, m.def)
      wrong == users # {} /\ Mismatched(f.stamp, m.def[c].stamp)
      missed == IF wrong \/ ~f.old THEN {}
                ELSE {p \in users : m.def[p].seen[c] # f.ver}
  IN [def |-> [x \in Cell |->
                 IF x = c THEN
                   [state |-> "read", stamp |-> f.stamp, ver |-> f.ver, seen |-> f.seen,
                    check |-> f.check, old |-> f.old, getnew |-> f.stamp = 0,
                    blind |-> f.blind \cup {k \in Kids[c] : use[k].blind},
                    passed |-> f.passed]
                 ELSE IF x \in Kids[c] THEN use[x].def
                 ELSE IF x \in missed THEN [m.def[x] EXCEPT !.blind = @ \cup {c}]
                 ELSE m.def[x]],
      mismatch |-> (IF wrong THEN <<c>> ELSE <<>>) \o Found(c, use, m.mismatch)]

Memory == [def |-> def, mismatch |-> mismatch]
ReadTree(m, root) ==
  LET after[i \in 0..Len(Tree[root])] ==
        IF i = 0 THEN m ELSE DBCellRead(after[i - 1], Tree[root][i])
  IN after[Len(Tree[root])]

-----------------------------------------------------------------------------
(* DBFixMismatch: after each command, and after each cell that is checked.   *)

\* DRCCheckThis marks all the cells above, too.
Marked(c, d) == Above(c, d, Cell)
DRCCheckThis(cells, d) ==
  [p \in Cell |-> IF p \in cells THEN [d[p] EXCEPT !.check = TRUE] ELSE d[p]]

\* A command ends that leaves this memory.
FixMismatch(m) ==
  /\ def' = m.def /\ mismatch' = m.mismatch
  /\ fixing' = (m.mismatch # <<>>)
  /\ processed' = processed \ Range(m.mismatch)

\* Its loop goes on while there are mismatches.
MismatchesLeft(m) == m # <<>>

\* The users that a mismatch of c has been found for, and that are not marked.
PassedOver(c) ==
  {p \in Users(c, def) : /\ ~def[p].check
                         /\ def[p].seen[c] # def[c].ver \/ def[p].stamp < def[c].stamp}

\* One turn of the loop.  Reading the cell may find further mismatches, but
\* those of cells that have been processed before are passed over.
DBFixMismatch ==
  /\ fixing
  /\ LET c == Head(mismatch)
         m == DBCellRead([def |-> def, mismatch |-> Tail(mismatch)], c)
     IN IF c \in processed
          THEN /\ mismatch' = Tail(mismatch)
               /\ def' = [p \in Cell |-> IF p \in PassedOver(c)
                                           THEN [def[p] EXCEPT !.passed = @ \cup {c}]
                                           ELSE def[p]]
               /\ UNCHANGED processed
          ELSE /\ mismatch' = m.mismatch
               /\ def' = DRCCheckThis(Marked(c, m.def), m.def)
               /\ processed' = processed \cup {c}
  /\ fixing' = MismatchesLeft(mismatch')
  /\ UNCHANGED <<disk, ext, now, edits>>

-----------------------------------------------------------------------------
(* Stamps are brought up to date before anything is written.                *)
Stampable(t) == {c \in Cell : IsRead(c, def) /\ def[c].getnew /\ def[c].stamp # t}
Stamped_SelfOnly(t) == Stampable(t)
\* The cells above get the stamp as well.
Stamped(t) == LET behind == {p \in Cell : IsRead(p, def) /\ def[p].stamp # t}
              IN UNION {{c} \cup Above(c, def, behind) : c \in Stampable(t)}
DBUpdateStamps(t) ==
  LET cells == Stamped(t)
  IN [c \in Cell |-> IF c \in cells
                       THEN [def[c] EXCEPT !.stamp = t, !.getnew = FALSE, !.old = FALSE]
                       ELSE def[c]]
\* Time may have gone on since.
Time == {t \in now..MaxTime : t <= now + 1}

Expected_Kept(c, d) == disk[c].exp
Expected(c, d) == [k \in Kids[c] |-> d[k].stamp]
\* `save', which warns of a stamp that is out of date.
Save(c) ==
  /\ ~fixing /\ IsRead(c, def)
  /\ now' \in Time
  /\ LET d == DBUpdateStamps(now')
     IN /\ def' = d
        /\ disk' = [disk EXCEPT ![c] =
             [stamp |-> d[c].stamp, ver |-> d[c].ver, exp |-> Expected(c, d),
              seen |-> d[c].seen, check |-> d[c].check, old |-> d[c].old,
              blind |-> d[c].blind \cup {k \in Kids[c] : IsRead(k, d) /\ d[k].old},
              passed |-> d[c].passed]]
  /\ UNCHANGED <<mismatch, processed, fixing, ext, edits>>

\* `extract': the whole tree is read, its mismatches are fixed (a step of
\* DBFixMismatch each, before this one), then stamps are compared.
ExtReadTree(root) ==
  /\ ~fixing /\ IsRead(root, def)
  /\ \E c \in Below[root] : ~IsRead(c, def)
  /\ FixMismatch(ReadTree(Memory, root))
  /\ UNCHANGED <<disk, ext, now, edits>>

extTimestampMisMatch_Older(c, d) == ext[c].stamp < d[c].stamp
extTimestampMisMatch(c, d) == ext[c].stamp # d[c].stamp
ExtIncremental(root) ==
  /\ ~fixing /\ \A c \in Below[root] : IsRead(c, def)
  /\ now' \in Time
  /\ LET d == DBUpdateStamps(now')
     IN /\ def' = d
        /\ ext' = [c \in Cell |->
             IF c \in Below[root] /\ extTimestampMisMatch(c, d)
               THEN [stamp |-> d[c].stamp, ver |-> d[c].ver, old |-> d[c].old]
               ELSE ext[c]]
  /\ UNCHANGED <<disk, mismatch, processed, fixing, edits>>

-----------------------------------------------------------------------------
(* The other commands, and the checker.                                     *)
Load(c) ==
  /\ ~fixing /\ ~IsRead(c, def)
  /\ FixMismatch(DBCellRead(Memory, c))
  /\ UNCHANGED <<disk, ext, now, edits>>

\* A change of the layout; the cells above that are in memory are marked.
Edit(c) ==
  /\ ~fixing /\ IsRead(c, def) /\ edits < MaxEdits
  /\ edits' = edits + 1
  /\ def' = DRCCheckThis({c} \cup Marked(c, def),
              [def EXCEPT ![c].ver = edits', ![c].getnew = TRUE, ![c].old = TRUE])
  /\ UNCHANGED <<disk, mismatch, processed, fixing, ext, now>>

\* The marked areas of a cell are checked, which reads all there is below.
\* The result counts as a change of the cell.
Rechecked(d, saw) == [d EXCEPT !.check = FALSE, !.getnew = TRUE, !.seen = saw,
                                !.blind = {}, !.passed = {}]
DRCContinuous(c) ==
  /\ ~fixing /\ IsRead(c, def) /\ def[c].check
  /\ LET m == ReadTree(Memory, c)
         saw == [k \in Kids[c] |-> m.def[k].ver]
     IN FixMismatch([def |-> [m.def EXCEPT ![c] = Rechecked(m.def[c], saw)],
                     mismatch |-> m.mismatch])
  /\ UNCHANGED <<disk, ext, now, edits>>

\* The user leaves and starts Magic anew, not within the same second.
Restart ==
  /\ ~fixing /\ now < MaxTime /\ now' = now + 1
  /\ def' = [c \in Cell |-> Unknown]
  /\ mismatch' = <<>> /\ processed' = {} /\ fixing' = FALSE
  /\ UNCHANGED <<disk, ext, edits>>

User == \/ \E c \in Cell : Load(c) \/ Save(c)
        \/ \E c \in Edited : Edit(c)
        \/ \E root \in Roots : ExtReadTree(root) \/ ExtIncremental(root)
        \/ Restart
Check == \E c \in Cell : DRCContinuous(c)
Next == User \/ DBFixMismatch \/ Check

Spec == Init /\ [][Next]_vars
-----------------------------------------------------------------------------
TypeOK ==
  /\ \A c \in Cell : /\ disk[c] \in File(c)
                     /\ def[c] \in {Unknown} \cup {Dummy(t) : t \in 0..MaxTime} \cup Read(c)
                     /\ ext[c] \in [stamp : 0..MaxTime, ver : 0..MaxEdits,
                                    old : BOOLEAN]
  /\ mismatch \in Seq(Cell) /\ processed \subseteq Cell
  /\ fixing \in BOOLEAN /\ (mismatch # <<>>) = fixing
  /\ now \in 1..MaxTime /\ edits \in 0..MaxEdits

Pairs == {u \in Cell \X Cell : /\ u[2] \in Kids[u[1]]
                              /\ IsRead(u[1], def) /\ IsRead(u[2], def)}
Stale(p, k) == def[p].seen[k] # def[k].ver
Noticed(p, k) == def[p].check \/ k \in Range(mismatch)

(* When a parent and a child are in memory and the parent was not checked    *)
(* against the child as it is now, the parent is marked or the mismatch is   *)
(* about to be fixed - but for a child whose layout was newer than its stamp  *)
(* when the two met in memory, which the stamps could not show, and for one   *)
(* whose mismatch DBFixMismatch passed over.                                 *)
StaleIsKnown ==
  \A u \in Pairs : Stale(u[1], u[2]) =>
    Noticed(u[1], u[2]) \/ u[2] \in def[u[1]].blind \cup def[u[1]].passed

(* "The timestamp for a cell should always be at least as large as the latest *)
(* timestamp for any of that cell's descendants": where a child edited out of *)
(* context violates this, it is noticed, or the parent waits for a new stamp, *)
(* or DBFixMismatch passed over it.                                          *)
LaterChildIsNoticed ==
  \A u \in Pairs : def[u[1]].stamp < def[u[2]].stamp =>
    Noticed(u[1], u[2]) \/ def[u[1]].getnew \/ u[2] \in def[u[1]].passed

(* The incremental extractor leaves every cell of the tree with a file of the *)
(* cell's own layout, however edits, saves, extractions and discarded         *)
(* sessions follow one another - unless the layout is newer than its stamp,   *)
(* or the file was made when it was.                                         *)
OwnLayoutExtracted ==
  [][\A r \in Roots : ExtIncremental(r) =>
       \A c \in Below[r] : ext'[c].ver = def'[c].ver \/ def'[c].old \/ ext'[c].old]_vars
=============================================================================
