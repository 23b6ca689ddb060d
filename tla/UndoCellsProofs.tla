-------------------------- MODULE UndoCellsProofs ---------------------------
(* Proofs that undo and redo play every event in the cell it was recorded in, *)
(* though the log only tells where the cell changes, until a name it uses is  *)
(* lost.                                                                     *)
EXTENDS UndoCells, FiniteSetTheorems, WellFoundedInduction, TLAPS

Log == DOMAIN event
Commands == done \cup undone \cup {open}

\* What the routine that is playing events plays, and what the layout shows.
Played == IF mode = "back" THEN UNION Newest(done, k)
          ELSE IF mode = "forw" THEN UNION Oldest(undone, k) ELSE {}
Shown == IF mode = "back" THEN (UNION done) \ (Played \ todo)
                          ELSE (UNION done) \cup open \cup (Played \ todo)
Hidden == Log \ Shown

IsNext(e) == \A f \in todo : IF mode = "back" THEN f <= e ELSE e <= f
Adjacent(e, f) == e < f /\ \A g \in Log : ~(e < g /\ g < f)

CellsTypes ==
  /\ lastEvent \in Nat /\ k \in Nat /\ mode \in {"idle", "back", "forw"}
  /\ dbUndoUndid \in BOOLEAN /\ lostName \in BOOLEAN
  /\ dbCellDefTable \in [Name -> Def \cup {NoDef}]

\* Commands are sets of events, one after the other.
StackInv ==
  /\ IsFiniteSet(done) /\ IsFiniteSet(undone) /\ {} \notin done \cup undone
  /\ \A c \in Commands : c \subseteq 1..lastEvent
  /\ \A c, d \in done \cup undone : c = d \/ Older(c, d) \/ Older(d, c)
  /\ \A c \in done : \A d \in undone \cup {open} : Older(c, d)
  /\ open # {} => undone = {}

\* The events, and the names they know cells by, until one is lost.
LogInv ==
  /\ Log = UNION Commands
  /\ \A e \in Log : /\ event[e].type \in {"paint", "open", "close"}
                    /\ event[e].def \in Def
                    /\ event[e].type # "paint" =>
                         /\ event[e].name \in Name
                         /\ ~lostName => dbCellDefTable[event[e].name] = event[e].def

\* A cell is closed only to open another, in the same command.
WholeInv ==
  \A c \in Commands : \A e \in c :
    event[e].type = "close" => e + 1 \in c /\ event[e + 1].type = "open"

\* The cell an event is about is the one that the event before it left open.
ChainInv ==
  ~lostName => \A e, f \in Log : Adjacent(e, f) =>
    /\ event[f].type # "open" => event[e].type # "close" /\ event[e].def = event[f].def
    /\ event[f].type = "open" => event[e].type = "close"

\* What is left to play is next to the cut between what is shown and not.
PlayInv ==
  /\ mode = "idle" => todo = {}
  /\ mode # "idle" => open = {}
  /\ todo \subseteq Played
  /\ \A e \in Shown, f \in Hidden : e < f
  /\ mode = "back" => \A e \in Shown \ todo, f \in todo : e < f
  /\ mode = "forw" => \A e \in Hidden \ todo, f \in todo : f < e

\* dbUndoLastCell is the cell on either side of the cut, but between the two
\* events that change it.
CutInv ==
  /\ dbUndoLastCell \in Live \cup {NoDef}
  /\ ~lostName =>
       /\ \A e \in Shown : (\A f \in Shown : f <= e) /\ event[e].type # "close" =>
            dbUndoLastCell = event[e].def
       /\ \A e \in Hidden : (\A f \in Hidden : e <= f) /\ event[e].type # "open" =>
            dbUndoLastCell = event[e].def

\* Only the cell being played in can need its bounding box.
BboxInv == ~lostName /\ mode # "idle" =>
  /\ staleBbox \subseteq {dbUndoLastCell} \ {NoDef}
  /\ staleBbox # {} => dbUndoUndid
  /\ \A e \in todo : IsNext(e) /\ Opens(e) => staleBbox = {}

IInv == /\ CellsTypes /\ StackInv /\ LogInv /\ WholeInv /\ ChainInv /\ PlayInv
        /\ CutInv /\ BboxInv

-----------------------------------------------------------------------------
(* Sets of numbers and of commands.                                          *)

LEMMA LeastNat ==
  ASSUME NEW S \in SUBSET Nat, S # {}
  PROVE  \E e \in S : \A f \in S : e <= f
<1>1. \E e \in S : \A f \in S : <<f, e>> \notin OpToRel(<, Nat)
  BY WFMin, NatLessThanWellFounded
<1>2. \A e, f \in Nat : f < e => <<f, e>> \in OpToRel(<, Nat)
  BY DEF OpToRel
<1>3. \E e \in S : \A f \in S : ~(f < e)
  BY <1>1, <1>2, Zenon
<1>. QED  BY <1>3

LEMMA GreatestNat ==
  ASSUME NEW n \in Nat, NEW S \in SUBSET (0..n), S # {}
  PROVE  \E e \in S : \A f \in S : f <= e
<1>. DEFINE T == {n - e : e \in S}
<1>1. T \in SUBSET Nat /\ T # {}
  OBVIOUS
<1>2. PICK t \in T : \A u \in T : t <= u
  BY <1>1, LeastNat
<1>3. PICK e \in S : t = n - e
  OBVIOUS
<1>4. ASSUME NEW f \in S
      PROVE  f <= e
  <2>1. t <= n - f
    BY <1>2
  <2>. QED  BY <2>1, <1>3
<1>. QED  BY <1>4

\* Commands as the stack keeps them.
Ordered(S) == /\ IsFiniteSet(S) /\ {} \notin S
              /\ \A c \in S : c \subseteq Nat
              /\ \A c, d \in S : c = d \/ Older(c, d) \/ Older(d, c)

LEMMA OlderIsOrder ==
  ASSUME NEW S, Ordered(S), NEW b \in S, NEW c \in S, NEW d \in S, Older(b, c)
  PROVE  /\ b # c /\ ~Older(c, b)
         /\ Older(c, d) => Older(b, d) /\ b # d
<1>1. b \subseteq Nat /\ c \subseteq Nat /\ d \subseteq Nat /\ b # {} /\ c # {} /\ d # {}
  BY DEF Ordered
<1>2. PICK x \in b, y \in c, z \in d : TRUE
  BY <1>1
<1>3. x < y /\ ~(y < x)
  BY <1>1 DEF Older
<1>4. b # c /\ ~Older(c, b)
  BY <1>3 DEF Older
<1>5. ASSUME Older(c, d)
      PROVE  Older(b, d) /\ b # d
  <2>1. \A e \in b, f \in d : e < f
    BY <1>1, <1>2, <1>5 DEF Older
  <2>2. b # d
    BY <1>4, <1>5
  <2>. QED  BY <2>1, <2>2 DEF Older
<1>. QED  BY <1>4, <1>5

LEMMA NewestFromBelow ==
  ASSUME NEW S, Ordered(S), NEW j \in Nat, NEW c \in Newest(S, j), NEW d \in S, Older(c, d)
  PROVE  d \in Newest(S, j)
<1>. DEFINE C == {x \in S : x # c /\ Older(c, x)}
            D == {x \in S : x # d /\ Older(d, x)}
<1>1. c \in S /\ Cardinality(C) < j
  BY DEF Newest
<1>2. D \subseteq C
  BY <1>1, OlderIsOrder
<1>3. IsFiniteSet(C)
  BY FS_Subset DEF Ordered
<1>4. Cardinality(D) <= Cardinality(C) /\ Cardinality(D) \in Nat /\ Cardinality(C) \in Nat
  BY <1>2, <1>3, FS_Subset, FS_CardinalityType
<1>. QED  BY <1>1, <1>4 DEF Newest

LEMMA OldestFromAbove ==
  ASSUME NEW S, Ordered(S), NEW j \in Nat, NEW c \in Oldest(S, j), NEW d \in S, Older(d, c)
  PROVE  d \in Oldest(S, j)
<1>. DEFINE C == {x \in S : x # c /\ Older(x, c)}
            D == {x \in S : x # d /\ Older(x, d)}
<1>1. c \in S /\ Cardinality(C) < j
  BY DEF Oldest
<1>2. D \subseteq C
  BY <1>1, OlderIsOrder
<1>3. IsFiniteSet(C)
  BY FS_Subset DEF Ordered
<1>4. Cardinality(D) <= Cardinality(C) /\ Cardinality(D) \in Nat /\ Cardinality(C) \in Nat
  BY <1>2, <1>3, FS_Subset, FS_CardinalityType
<1>. QED  BY <1>1, <1>4 DEF Oldest

\* A command taken is taken with all that is newer, or older.
LEMMA NewestAreLast ==
  ASSUME NEW S, Ordered(S), NEW j \in Nat
  PROVE  /\ UNION Newest(S, j) \subseteq UNION S
         /\ \A e \in (UNION S) \ UNION Newest(S, j), f \in UNION Newest(S, j) : e < f
         /\ UNION (S \ Newest(S, j)) = (UNION S) \ UNION Newest(S, j)
<1>1. Newest(S, j) \subseteq S
  BY DEF Newest
<1>2. ASSUME NEW c \in S \ Newest(S, j), NEW d \in Newest(S, j)
      PROVE  Older(c, d)
  BY <1>1, <1>2, NewestFromBelow DEF Ordered
<1>3. \A c \in S : c \subseteq Nat
  BY DEF Ordered
<1>4. \A c \in S \ Newest(S, j), d \in Newest(S, j) : \A e \in c, f \in d : e < f /\ e # f
  BY <1>1, <1>2, <1>3 DEF Older
<1>5. \A e \in UNION (S \ Newest(S, j)), f \in UNION Newest(S, j) : e < f /\ e # f
  BY <1>4
<1>6. ASSUME NEW e \in (UNION S) \ UNION Newest(S, j)
      PROVE  e \in UNION (S \ Newest(S, j))
  <2>1. PICK c \in S : e \in c
    OBVIOUS
  <2>2. c \notin Newest(S, j)
    BY <1>6, <2>1
  <2>. QED  BY <2>1, <2>2
<1>7. ASSUME NEW e \in UNION (S \ Newest(S, j))
      PROVE  e \in (UNION S) \ UNION Newest(S, j)
  <2>1. e \in UNION S
    OBVIOUS
  <2>2. e \notin UNION Newest(S, j)
    BY <1>5, <1>7
  <2>. QED  BY <2>1, <2>2
<1>. QED  BY <1>1, <1>5, <1>6, <1>7

LEMMA OldestAreFirst ==
  ASSUME NEW S, Ordered(S), NEW j \in Nat
  PROVE  /\ UNION Oldest(S, j) \subseteq UNION S
         /\ \A e \in (UNION S) \ UNION Oldest(S, j), f \in UNION Oldest(S, j) : f < e
         /\ UNION (S \ Oldest(S, j)) = (UNION S) \ UNION Oldest(S, j)
<1>1. Oldest(S, j) \subseteq S
  BY DEF Oldest
<1>2. ASSUME NEW c \in S \ Oldest(S, j), NEW d \in Oldest(S, j)
      PROVE  Older(d, c)
  BY <1>1, <1>2, OldestFromAbove DEF Ordered
<1>3. \A c \in S : c \subseteq Nat
  BY DEF Ordered
<1>4. \A c \in S \ Oldest(S, j), d \in Oldest(S, j) : \A e \in c, f \in d : f < e /\ e # f
  BY <1>1, <1>2, <1>3 DEF Older
<1>5. \A e \in UNION (S \ Oldest(S, j)), f \in UNION Oldest(S, j) : f < e /\ e # f
  BY <1>4
<1>6. ASSUME NEW e \in (UNION S) \ UNION Oldest(S, j)
      PROVE  e \in UNION (S \ Oldest(S, j))
  <2>1. PICK c \in S : e \in c
    OBVIOUS
  <2>2. c \notin Oldest(S, j)
    BY <1>6, <2>1
  <2>. QED  BY <2>1, <2>2
<1>7. ASSUME NEW e \in UNION (S \ Oldest(S, j))
      PROVE  e \in (UNION S) \ UNION Oldest(S, j)
  <2>1. e \in UNION S
    OBVIOUS
  <2>2. e \notin UNION Oldest(S, j)
    BY <1>5, <1>7
  <2>. QED  BY <2>1, <2>2
<1>. QED  BY <1>1, <1>5, <1>6, <1>7

-----------------------------------------------------------------------------
(* The events and the cut between what is shown and what is not.             *)

LEMMA LogFacts ==
  ASSUME IInv
  PROVE  /\ Ordered(done) /\ Ordered(undone)
         /\ Log = (UNION done) \cup (UNION undone) \cup open /\ Log \subseteq 1..lastEvent
         /\ Shown \subseteq Log /\ Played \subseteq Log
         /\ mode = "back" => todo \subseteq Shown
         /\ mode = "forw" => todo \subseteq Hidden
<1>1. Ordered(done) /\ Ordered(undone)
  BY DEF IInv, CellsTypes, StackInv, Ordered, Commands
<1>2. Log = (UNION done) \cup (UNION undone) \cup open
  BY DEF IInv, LogInv, Commands
<1>3. Log \subseteq 1..lastEvent
  BY DEF IInv, LogInv, StackInv
<1>4. /\ UNION Newest(done, k) \subseteq UNION done
      /\ UNION Oldest(undone, k) \subseteq UNION undone
  BY <1>1, NewestAreLast, OldestAreFirst DEF IInv, CellsTypes
<1>5. Shown \subseteq Log /\ Played \subseteq Log
  BY <1>2, <1>4 DEF Shown, Played
<1>6. mode = "back" => todo \subseteq Shown
  BY <1>4 DEF IInv, PlayInv, Shown, Played
<1>7. ASSUME mode = "forw", NEW e \in todo
      PROVE  e \in Hidden
  <2>1. e \in UNION undone /\ open = {}
    BY <1>4, <1>7 DEF IInv, PlayInv, Played
  <2>2. \A f \in UNION done : f < e
    BY <2>1 DEF IInv, StackInv, Older
  <2>3. e \notin UNION done
    BY <2>1, <2>2, <1>2, <1>3
  <2>. QED  BY <2>1, <2>3, <1>2, <1>7 DEF Hidden, Shown
<1>. QED  BY <1>1, <1>2, <1>3, <1>5, <1>6, <1>7

LEMMA NextIs ==
  ASSUME IInv, mode # "idle", todo # {}
  PROVE  /\ NextEvent \in todo /\ IsNext(NextEvent) /\ NextEvent \in Log
         /\ mode \in {"back", "forw"}
<1>1. todo \subseteq Log /\ todo \subseteq 1..lastEvent /\ lastEvent \in Nat
  BY LogFacts DEF IInv, PlayInv, CellsTypes
<1>2. mode \in {"back", "forw"}
  BY DEF IInv, CellsTypes
<1>3. todo \in SUBSET Nat /\ todo \in SUBSET (0..lastEvent)
  BY <1>1
<1>4. CASE mode = "back"
  <2>1. \E e \in todo : \A f \in todo : f <= e
    BY <1>1, <1>3, GreatestNat
  <2>. QED  BY <1>1, <1>4, <2>1 DEF NextEvent, IsNext
<1>5. CASE mode = "forw"
  <2>1. \E e \in todo : \A f \in todo : e <= f
    BY <1>3, LeastNat
  <2>. QED  BY <1>1, <1>5, <2>1 DEF NextEvent, IsNext
<1>. QED  BY <1>2, <1>4, <1>5

\* The next event is the one before, or after, the cut.
LEMMA NextIsAtCut ==
  ASSUME IInv, mode # "idle", todo # {}
  PROVE  /\ mode = "back" => NextEvent \in Shown /\ \A f \in Shown : f <= NextEvent
         /\ mode = "forw" => NextEvent \in Hidden /\ \A f \in Hidden : NextEvent <= f
<1>1. /\ NextEvent \in todo /\ IsNext(NextEvent)
      /\ Log \subseteq Nat /\ Shown \subseteq Log /\ todo \subseteq Log /\ Hidden \subseteq Log
      /\ mode = "back" => todo \subseteq Shown
      /\ mode = "forw" => todo \subseteq Hidden
  BY NextIs, LogFacts DEF IInv, PlayInv, CellsTypes, Hidden
<1>2. ASSUME mode = "back", NEW f \in Shown
      PROVE  f <= NextEvent
  <2>1. CASE f \in todo
    BY <1>1, <1>2, <2>1 DEF IsNext
  <2>2. CASE f \notin todo
    BY <1>1, <1>2, <2>2 DEF IInv, PlayInv
  <2>. QED  BY <2>1, <2>2
<1>3. ASSUME mode = "forw", NEW f \in Hidden
      PROVE  NextEvent <= f
  <2>1. CASE f \in todo
    BY <1>1, <1>3, <2>1 DEF IsNext
  <2>2. CASE f \notin todo
    BY <1>1, <1>3, <2>2 DEF IInv, PlayInv
  <2>. QED  BY <2>1, <2>2
<1>. QED  BY <1>1, <1>2, <1>3

\* Playing an event moves the cut over it.
LEMMA CutMoves ==
  ASSUME IInv, mode # "idle", todo # {}, todo' = todo \ {NextEvent},
         done' = done, undone' = undone, open' = open, event' = event, mode' = mode, k' = k
  PROVE  /\ Log' = Log /\ Played' = Played
         /\ mode = "back" => Shown' = Shown \ {NextEvent} /\ Hidden' = Hidden \cup {NextEvent}
         /\ mode = "forw" => Shown' = Shown \cup {NextEvent} /\ Hidden' = Hidden \ {NextEvent}
<1>1. Log' = Log /\ Played' = Played
  BY DEF Log, Played
<1>2. NextEvent \in todo /\ NextEvent \in Log /\ NextEvent \in Played
  BY NextIs DEF IInv, PlayInv
<1>3. CASE mode = "back"
  <2>1. Shown' = (UNION done) \ (Played \ (todo \ {NextEvent}))
    BY <1>1, <1>3 DEF Shown
  <2>2. NextEvent \in Shown
    BY <1>3, NextIsAtCut
  <2>. QED  BY <1>1, <1>2, <1>3, <2>1, <2>2 DEF Shown, Hidden
<1>4. CASE mode = "forw"
  <2>1. Shown' = (UNION done) \cup open \cup (Played \ (todo \ {NextEvent}))
    BY <1>1, <1>4 DEF Shown
  <2>. QED  BY <1>1, <1>2, <1>4, <2>1 DEF Shown, Hidden
<1>. QED  BY <1>1, <1>3, <1>4, NextIs

\* The events on the two sides of the next one.
LEMMA Neighbours ==
  ASSUME IInv, mode # "idle", todo # {}
  PROVE  /\ mode = "back" =>
              \A e \in Shown \ {NextEvent} :
                (\A f \in Shown \ {NextEvent} : f <= e) => Adjacent(e, NextEvent)
         /\ mode = "forw" =>
              \A e \in Hidden \ {NextEvent} :
                (\A f \in Hidden \ {NextEvent} : e <= f) => Adjacent(NextEvent, e)
<1>1. /\ Log \subseteq Nat /\ Shown \subseteq Log /\ Hidden = Log \ Shown
      /\ \A e \in Shown, f \in Hidden : e < f
      /\ NextEvent \in Log
  BY NextIs, LogFacts DEF IInv, PlayInv, CellsTypes, Hidden
<1>2. ASSUME mode = "back", NEW e \in Shown \ {NextEvent},
             \A f \in Shown \ {NextEvent} : f <= e
      PROVE  Adjacent(e, NextEvent)
  <2>1. NextEvent \in Shown /\ e < NextEvent
    BY <1>1, <1>2, NextIsAtCut
  <2>2. \A g \in Log : ~(e < g /\ g < NextEvent)
    BY <1>1, <1>2, <2>1
  <2>. QED  BY <2>1, <2>2 DEF Adjacent
<1>3. ASSUME mode = "forw", NEW e \in Hidden \ {NextEvent},
             \A f \in Hidden \ {NextEvent} : e <= f
      PROVE  Adjacent(NextEvent, e)
  <2>1. NextEvent \in Hidden /\ NextEvent < e
    BY <1>1, <1>3, NextIsAtCut
  <2>2. \A g \in Log : ~(NextEvent < g /\ g < e)
    BY <1>1, <1>3, <2>1
  <2>. QED  BY <2>1, <2>2 DEF Adjacent
<1>. QED  BY <1>2, <1>3

-----------------------------------------------------------------------------
(* Playing an event.                                                         *)

\* What the three procedures that play an event have in common.
PlaysNext ==
  /\ mode # "idle" /\ todo # {} /\ todo' = todo \ {NextEvent}
  /\ UNCHANGED <<stackVars, event, lastEvent, dbCellDefTable, mode, k, lostName>>

LEMMA PlaysNextLog ==
  ASSUME IInv, PlaysNext, dbUndoUndid' \in BOOLEAN
  PROVE  CellsTypes' /\ StackInv' /\ LogInv' /\ WholeInv' /\ ChainInv' /\ PlayInv'
<1>1. /\ Log' = Log /\ Commands' = Commands /\ done' = done /\ undone' = undone /\ open' = open
      /\ event' = event /\ lastEvent' = lastEvent /\ dbCellDefTable' = dbCellDefTable
      /\ mode' = mode /\ k' = k /\ lostName' = lostName
  BY DEF PlaysNext, stackVars, Log, Commands
<1>2. CellsTypes' /\ StackInv' /\ LogInv'
  BY <1>1 DEF IInv, CellsTypes, StackInv, LogInv
<1>3. WholeInv' /\ ChainInv'
  BY <1>1 DEF IInv, WholeInv, ChainInv, Adjacent
<1>4. PlayInv'
  <2>1. /\ mode # "idle" /\ todo # {} /\ todo' = todo \ {NextEvent} /\ Played' = Played
        /\ mode = "back" => Shown' = Shown \ {NextEvent} /\ Hidden' = Hidden \cup {NextEvent}
        /\ mode = "forw" => Shown' = Shown \cup {NextEvent} /\ Hidden' = Hidden \ {NextEvent}
    BY <1>1, CutMoves DEF PlaysNext
  <2>2. /\ Log \subseteq Nat /\ Shown \subseteq Log /\ Hidden \subseteq Log
        /\ NextEvent \in Log /\ NextEvent \in todo /\ mode \in {"back", "forw"}
        /\ \A e \in Shown, f \in Hidden : e < f
    BY <2>1, NextIs, LogFacts DEF IInv, CellsTypes, Hidden, PlayInv
  <2>3. CASE mode = "back"
    <3>1. NextEvent \in Shown /\ \A f \in Shown : f <= NextEvent
      BY <2>1, <2>3, NextIsAtCut
    <3>2. ASSUME NEW e \in Shown', NEW f \in Hidden'
          PROVE  e < f
      <4>1. e \in Shown /\ e # NextEvent /\ f \in Hidden \cup {NextEvent}
        BY <2>1, <2>3
      <4>. QED  BY <2>2, <3>1, <4>1
    <3>. QED  BY <1>1, <2>1, <2>2, <2>3, <3>2 DEF IInv, PlayInv
  <2>4. CASE mode = "forw"
    <3>1. NextEvent \in Hidden /\ \A f \in Hidden : NextEvent <= f
      BY <2>1, <2>4, NextIsAtCut
    <3>2. ASSUME NEW e \in Shown', NEW f \in Hidden'
          PROVE  e < f
      <4>1. f \in Hidden /\ f # NextEvent /\ e \in Shown \cup {NextEvent}
        BY <2>1, <2>4
      <4>. QED  BY <2>2, <3>1, <4>1
    <3>. QED  BY <1>1, <2>1, <2>2, <2>4, <3>2 DEF IInv, PlayInv
  <2>. QED  BY <2>2, <2>3, <2>4
<1>. QED  BY <1>2, <1>3, <1>4

\* The cell stays the one of the events at the cut, if it follows what is played.
LEMMA PlaysNextCut ==
  ASSUME IInv, PlaysNext, dbUndoLastCell' \in Live \cup {NoDef},
         ~lostName => \/ event[NextEvent].type # "paint" /\ ~Opens(NextEvent)
                      \/ dbUndoLastCell' = event[NextEvent].def
  PROVE  CutInv'
<1>. SUFFICES ASSUME ~lostName, \/ event[NextEvent].type # "paint" /\ ~Opens(NextEvent)
                                \/ dbUndoLastCell' = event[NextEvent].def
              PROVE  CutInv'
  <2>1. Live' = Live /\ lostName' = lostName
    BY DEF PlaysNext, Live
  <2>. QED  BY <2>1, Zenon DEF CutInv
<1>0. event[NextEvent].type = "paint" \/ Opens(NextEvent) =>
        dbUndoLastCell' = event[NextEvent].def
  OBVIOUS
<1>1. /\ mode # "idle" /\ todo # {} /\ event' = event /\ Live' = Live /\ mode \in {"back", "forw"}
      /\ mode = "back" => Shown' = Shown \ {NextEvent} /\ Hidden' = Hidden \cup {NextEvent}
      /\ mode = "forw" => Shown' = Shown \cup {NextEvent} /\ Hidden' = Hidden \ {NextEvent}
  BY CutMoves DEF PlaysNext, stackVars, Live, IInv, CellsTypes
<1>2. /\ Log \subseteq Nat /\ Shown \subseteq Log /\ Hidden \subseteq Log /\ NextEvent \in Log
      /\ \A e \in Log : event[e].type \in {"paint", "open", "close"}
      /\ \A e \in Shown, f \in Hidden : e < f
  BY <1>1, NextIs, LogFacts DEF IInv, CellsTypes, Hidden, LogInv, PlayInv
<1>3. CASE mode = "back"
  <2>1. ASSUME NEW e \in Shown \ {NextEvent}, event[e].type # "close",
               \A f \in Shown \ {NextEvent} : f <= e
        PROVE  dbUndoLastCell' = event[e].def
    <3>1. Adjacent(e, NextEvent)
      BY <1>1, <1>3, <2>1, Neighbours
    <3>2. event[NextEvent].type # "open" /\ event[e].def = event[NextEvent].def
      BY <1>2, <2>1, <3>1 DEF IInv, ChainInv
    <3>. QED  BY <1>0, <1>2, <1>3, <3>2 DEF Opens
  <2>2. ASSUME NEW e \in Hidden \cup {NextEvent}, event[e].type # "open",
               \A f \in Hidden \cup {NextEvent} : e <= f
        PROVE  dbUndoLastCell' = event[e].def
    <3>1. e = NextEvent
      <4>1. NextEvent \in Shown /\ e <= NextEvent
        BY <1>1, <1>3, <2>2, NextIsAtCut
      <4>. QED  BY <1>2, <2>2, <4>1
    <3>. QED  BY <1>0, <1>2, <1>3, <2>2, <3>1 DEF Opens
  <2>. QED  BY <1>1, <1>3, <2>1, <2>2 DEF CutInv
<1>4. CASE mode = "forw"
  <2>1. ASSUME NEW e \in Hidden \ {NextEvent}, event[e].type # "open",
               \A f \in Hidden \ {NextEvent} : e <= f
        PROVE  dbUndoLastCell' = event[e].def
    <3>1. Adjacent(NextEvent, e)
      BY <1>1, <1>4, <2>1, Neighbours
    <3>2. event[NextEvent].type # "close" /\ event[e].def = event[NextEvent].def
      BY <1>2, <2>1, <3>1 DEF IInv, ChainInv
    <3>. QED  BY <1>0, <1>2, <1>4, <3>2 DEF Opens
  <2>2. ASSUME NEW e \in Shown \cup {NextEvent}, event[e].type # "close",
               \A f \in Shown \cup {NextEvent} : f <= e
        PROVE  dbUndoLastCell' = event[e].def
    <3>1. e = NextEvent
      <4>1. NextEvent \in Hidden /\ NextEvent <= e
        BY <1>1, <1>4, <2>2, NextIsAtCut
      <4>. QED  BY <1>2, <2>2, <4>1
    <3>. QED  BY <1>0, <1>2, <1>4, <2>2, <3>1 DEF Opens
  <2>. QED  BY <1>1, <1>4, <2>1, <2>2 DEF CutInv
<1>. QED  BY <1>1, <1>3, <1>4

\* Only after an event that closes a cell comes one that opens a cell.
LEMMA OpensAfterCloses ==
  ASSUME IInv, PlaysNext, ~lostName, NEW e \in todo', IsNext(e)', Opens(e)'
  PROVE  Closes(NextEvent)
<1>1. /\ mode # "idle" /\ todo # {} /\ event' = event /\ mode' = mode /\ mode \in {"back", "forw"}
      /\ todo' = todo \ {NextEvent}
  BY DEF PlaysNext, stackVars, IInv, CellsTypes
<1>2. /\ Log \subseteq Nat /\ Shown \subseteq Log /\ Hidden \subseteq Log /\ NextEvent \in Log
      /\ todo \subseteq Log /\ e \in todo \ {NextEvent}
      /\ mode = "back" => todo \subseteq Shown
      /\ mode = "forw" => todo \subseteq Hidden
      /\ \A x \in Log : event[x].type \in {"paint", "open", "close"}
  <2>1. \A x \in Log : event[x].type \in {"paint", "open", "close"}
    BY DEF IInv, LogInv
  <2>2. Log \subseteq Nat /\ Shown \subseteq Log /\ Hidden \subseteq Log
    BY LogFacts DEF IInv, CellsTypes, Hidden
  <2>3. /\ todo \subseteq Log /\ NextEvent \in Log /\ e \in todo \ {NextEvent}
        /\ mode = "back" => todo \subseteq Shown
        /\ mode = "forw" => todo \subseteq Hidden
    BY <1>1, NextIs, LogFacts DEF IInv, PlayInv
  <2>. QED  BY <2>1, <2>2, <2>3
<1>3. CASE mode = "back"
  <2>4. \A f \in todo \ {NextEvent} : f <= e
    BY <1>1, <1>3 DEF IsNext
  <2>5. \A f \in Shown \ todo : f < e
    BY <1>2, <1>3 DEF IInv, PlayInv
  <2>1. \A f \in Shown \ {NextEvent} : f <= e
    BY <1>2, <2>4, <2>5
  <2>2. Adjacent(e, NextEvent)
    BY <1>1, <1>2, <1>3, <2>1, Neighbours
  <2>3. event[e].type = "close"
    BY <1>1, <1>3 DEF Opens
  <2>. QED  BY <1>2, <1>3, <2>2, <2>3 DEF IInv, ChainInv, Closes
<1>4. CASE mode = "forw"
  <2>4. \A f \in todo \ {NextEvent} : e <= f
    BY <1>1, <1>4 DEF IsNext
  <2>5. \A f \in Hidden \ todo : e < f
    BY <1>2, <1>4 DEF IInv, PlayInv
  <2>1. \A f \in Hidden \ {NextEvent} : e <= f
    BY <1>2, <2>4, <2>5
  <2>2. Adjacent(NextEvent, e)
    BY <1>1, <1>2, <1>4, <2>1, Neighbours
  <2>3. event[e].type = "open"
    BY <1>1, <1>4 DEF Opens
  <2>. QED  BY <1>2, <1>4, <2>2, <2>3 DEF IInv, ChainInv, Closes
<1>. QED  BY <1>1, <1>3, <1>4

LEMMA NextFacts ==
  ASSUME IInv, mode # "idle", todo # {}
  PROVE  /\ event[NextEvent].type \in {"paint", "open", "close"}
         /\ event[NextEvent].def \in Def /\ event[NextEvent].def # NoDef
         /\ event[NextEvent].type # "paint" =>
              /\ event[NextEvent].name \in Name
              /\ ~lostName => /\ dbCellDefTable[event[NextEvent].name] = event[NextEvent].def
                              /\ event[NextEvent].def \in Live
         /\ ~lostName /\ event[NextEvent].type = "paint" =>
              dbUndoLastCell = event[NextEvent].def
<1>1. NextEvent \in Log /\ mode \in {"back", "forw"}
  BY NextIs
<1>2. /\ event[NextEvent].type \in {"paint", "open", "close"} /\ event[NextEvent].def \in Def
      /\ event[NextEvent].type # "paint" =>
           /\ event[NextEvent].name \in Name
           /\ ~lostName => dbCellDefTable[event[NextEvent].name] = event[NextEvent].def
  BY <1>1 DEF IInv, LogInv
<1>3. ~lostName /\ event[NextEvent].type = "paint" => dbUndoLastCell = event[NextEvent].def
  BY <1>1, NextIsAtCut DEF IInv, CutInv
<1>. QED  BY <1>2, <1>3, NoDefAssumption DEF Live

LEMMA dbUndoPaintIInv ==
  ASSUME IInv, dbUndoPaint
  PROVE  IInv'
<1>1. /\ PlaysNext /\ dbUndoLastCell' = dbUndoLastCell /\ event[NextEvent].type = "paint"
      /\ Live' = Live /\ dbUndoUndid' \in BOOLEAN
  BY DEF dbUndoPaint, PlaysNext, Live, IInv, CellsTypes
<1>2. CellsTypes' /\ StackInv' /\ LogInv' /\ WholeInv' /\ ChainInv' /\ PlayInv'
  BY <1>1, PlaysNextLog
<1>3. /\ mode # "idle" /\ mode' = mode /\ lostName' = lostName
      /\ ~lostName => dbUndoLastCell = event[NextEvent].def /\ dbUndoLastCell # NoDef
  BY <1>1, NextFacts DEF PlaysNext
<1>4. CutInv'
  <2>1. dbUndoLastCell \in Live \cup {NoDef}
    BY DEF IInv, CutInv
  <2>. QED  BY <1>1, <1>3, <2>1, PlaysNextCut
<1>5. BboxInv'
  <2>. SUFFICES ASSUME ~lostName PROVE BboxInv'
    BY <1>3 DEF BboxInv
  <2>1. staleBbox' = staleBbox \cup {dbUndoLastCell} /\ dbUndoUndid'
    BY <1>3 DEF dbUndoPaint
  <2>2. \A e \in todo' : ~(IsNext(e)' /\ Opens(e)')
    <3>1. ~Closes(NextEvent)
      BY <1>1 DEF Closes
    <3>. QED  BY <1>1, <3>1, OpensAfterCloses
  <2>3. staleBbox' \subseteq {dbUndoLastCell'} \ {NoDef}
    BY <1>1, <1>3, <2>1 DEF IInv, BboxInv
  <2>. QED  BY <1>3, <2>1, <2>2, <2>3 DEF BboxInv
<1>. QED  BY <1>2, <1>4, <1>5 DEF IInv

LEMMA dbUndoOpenCellIInv ==
  ASSUME IInv, dbUndoOpenCell
  PROVE  IInv'
<1>1. /\ PlaysNext /\ dbUndoUndid' = dbUndoUndid /\ staleBbox' = staleBbox /\ Opens(NextEvent)
      /\ dbUndoLastCell' = dbCellDefTable[event[NextEvent].name]
      /\ Live' = Live /\ dbUndoUndid' \in BOOLEAN
  BY DEF dbUndoOpenCell, PlaysNext, Live, IInv, CellsTypes
<1>2. CellsTypes' /\ StackInv' /\ LogInv' /\ WholeInv' /\ ChainInv' /\ PlayInv'
  BY <1>1, PlaysNextLog
<1>3. /\ event[NextEvent].type # "paint" /\ dbUndoLastCell' \in Live \cup {NoDef}
      /\ ~lostName => dbUndoLastCell' = event[NextEvent].def
  BY <1>1, NextFacts DEF PlaysNext, Opens, Live
<1>4. CutInv'
  BY <1>1, <1>3, PlaysNextCut
<1>5. BboxInv'
  <2>1. ~lostName => staleBbox = {}
    BY <1>1, NextIs DEF PlaysNext, IInv, BboxInv
  <2>. QED  BY <1>1, <2>1 DEF BboxInv, PlaysNext
<1>. QED  BY <1>2, <1>4, <1>5 DEF IInv

\* The only cell that can need its bounding box gets it.
LEMMA BboxRecomputed ==
  ASSUME IInv, RecomputeBbox, mode # "idle"
  PROVE  (~lostName => staleBbox' = {}) /\ dbUndoUndid' \in BOOLEAN
<1>1. /\ dbUndoUndid \in BOOLEAN
      /\ ~lostName => /\ staleBbox \subseteq {dbUndoLastCell} \ {NoDef}
                      /\ staleBbox # {} => dbUndoUndid
  BY DEF IInv, BboxInv, CellsTypes
<1>. QED  BY <1>1 DEF RecomputeBbox

LEMMA dbUndoCloseCellIInv ==
  ASSUME IInv, dbUndoCloseCell
  PROVE  IInv'
<1>1. /\ PlaysNext /\ RecomputeBbox /\ Closes(NextEvent) /\ dbUndoLastCell' = dbUndoLastCell
      /\ Live' = Live
  BY DEF dbUndoCloseCell, PlaysNext, Live
<1>2. (~lostName => staleBbox' = {}) /\ dbUndoUndid' \in BOOLEAN
  BY <1>1, BboxRecomputed DEF PlaysNext
<1>3. CellsTypes' /\ StackInv' /\ LogInv' /\ WholeInv' /\ ChainInv' /\ PlayInv'
  BY <1>1, <1>2, PlaysNextLog
<1>4. CutInv'
  <2>1. dbUndoLastCell \in Live \cup {NoDef}
    BY DEF IInv, CutInv
  <2>2. event[NextEvent].type # "paint" /\ ~Opens(NextEvent)
    BY <1>1 DEF Closes, Opens
  <2>. QED  BY <1>1, <2>1, <2>2, PlaysNextCut
<1>5. BboxInv'
  BY <1>1, <1>2 DEF BboxInv, PlaysNext
<1>. QED  BY <1>3, <1>4, <1>5 DEF IInv

\* Undo and redo have played their commands: those move on the stack.
LEMMA PlayEndIInv ==
  ASSUME IInv, PlayEnd
  PROVE  IInv'
<1>1. /\ mode # "idle" /\ todo = {} /\ todo' = {} /\ mode' = "idle" /\ k' = 0 /\ event' = event
      /\ lastEvent' = lastEvent /\ dbCellDefTable' = dbCellDefTable
      /\ dbUndoLastCell' = dbUndoLastCell /\ open = {} /\ open' = {} /\ RecomputeBbox
      /\ Live' = Live /\ Log' = Log /\ mode \in {"back", "forw"} /\ k \in Nat
      /\ lostName' = lostName
  BY DEF PlayEnd, UndoCommands, RedoCommands, Live, Log, IInv, PlayInv, CellsTypes
<1>2. dbUndoUndid' \in BOOLEAN
  BY <1>1, BboxRecomputed
<1>3. /\ mode = "back" => /\ done' = done \ Newest(done, k)
                          /\ undone' = undone \cup Newest(done, k)
      /\ mode = "forw" => /\ done' = done \cup Oldest(undone, k)
                          /\ undone' = undone \ Oldest(undone, k)
  BY DEF PlayEnd, UndoCommands, RedoCommands
<1>4. Newest(done, k) \subseteq done /\ Oldest(undone, k) \subseteq undone
  BY DEF Newest, Oldest
<1>5. done' \cup undone' = done \cup undone /\ Commands' = Commands
  BY <1>1, <1>3, <1>4 DEF Commands
<1>6. IsFiniteSet(done') /\ IsFiniteSet(undone')
  <2>1. IsFiniteSet(Newest(done, k)) /\ IsFiniteSet(Oldest(undone, k))
        /\ IsFiniteSet(done) /\ IsFiniteSet(undone)
    BY <1>4, FS_Subset DEF IInv, StackInv
  <2>. QED  BY <1>1, <1>3, <2>1, FS_Union, FS_Subset
<1>7. Shown' = Shown
  <2>1. Shown' = UNION done'
    BY <1>1 DEF Shown, Played
  <2>2. CASE mode = "back"
    <3>1. UNION done' = (UNION done) \ UNION Newest(done, k)
      BY <1>1, <1>3, <2>2, LogFacts, NewestAreLast
    <3>. QED  BY <1>1, <2>1, <2>2, <3>1 DEF Shown, Played
  <2>3. CASE mode = "forw"
    <3>1. UNION done' = (UNION done) \cup UNION Oldest(undone, k)
      BY <1>3, <2>3
    <3>. QED  BY <1>1, <2>1, <2>3, <3>1 DEF Shown, Played
  <2>. QED  BY <1>1, <2>2, <2>3
<1>8. \A c \in done', d \in undone' : Older(c, d)
  <2>1. CASE mode = "back"
    <3>1. ASSUME NEW c \in done \ Newest(done, k), NEW d \in Newest(done, k)
          PROVE  Older(c, d)
      BY <1>1, <1>4, <3>1, LogFacts, NewestFromBelow DEF Ordered
    <3>. QED  BY <1>3, <2>1, <3>1 DEF IInv, StackInv
  <2>2. CASE mode = "forw"
    <3>1. ASSUME NEW c \in Oldest(undone, k), NEW d \in undone \ Oldest(undone, k)
          PROVE  Older(c, d)
      BY <1>1, <1>4, <3>1, LogFacts, OldestFromAbove DEF Ordered
    <3>. QED  BY <1>3, <2>2, <3>1 DEF IInv, StackInv
  <2>. QED  BY <1>1, <2>1, <2>2
<1>9. StackInv'
  <2>1. \A c \in done' : Older(c, {})
    BY DEF Older
  <2>. QED  BY <1>1, <1>5, <1>6, <1>8, <2>1 DEF IInv, StackInv
<1>10. LogInv' /\ WholeInv' /\ ChainInv'
  BY <1>1, <1>5 DEF IInv, LogInv, WholeInv, ChainInv, Adjacent
<1>11. CellsTypes' /\ PlayInv' /\ CutInv' /\ BboxInv'
  <2>1. Hidden' = Hidden
    BY <1>1, <1>7 DEF Hidden
  <2>. QED  BY <1>1, <1>2, <1>7, <2>1 DEF IInv, CellsTypes, PlayInv, CutInv, BboxInv
<1>. QED  BY <1>9, <1>10, <1>11 DEF IInv

\* Undo and redo begin.
LEMMA PlayIInv ==
  ASSUME IInv, NEW j \in 1..MaxCount, UndoBackward(j) \/ UndoForward(j)
  PROVE  IInv'
<1>1. /\ mode = "idle" /\ open = {} /\ k' = j /\ dbUndoUndid' = FALSE /\ staleBbox' = {}
      /\ done' = done /\ undone' = undone /\ open' = open /\ event' = event /\ j \in Nat
      /\ lastEvent' = lastEvent /\ dbCellDefTable' = dbCellDefTable
      /\ dbUndoLastCell' = dbUndoLastCell /\ Live' = Live /\ Log' = Log /\ Commands' = Commands
      /\ lostName' = lostName
  BY CountsAssumption DEF UndoBackward, UndoForward, Play, stackVars, Live, Log, Commands
<1>2. \/ mode' = "back" /\ todo' = UNION Newest(done, j)
      \/ mode' = "forw" /\ todo' = UNION Oldest(undone, j)
  BY DEF UndoBackward, UndoForward, Play
<1>3. todo' = Played'
  BY <1>1, <1>2 DEF Played
<1>4. Shown = UNION done /\ Shown' = Shown /\ Hidden' = Hidden /\ Hidden \subseteq UNION undone
  <2>1. Shown = UNION done
    BY <1>1 DEF Shown, Played
  <2>2. Shown' = UNION done
    BY <1>1, <1>2, <1>3 DEF Shown
  <2>. QED  BY <1>1, <2>1, <2>2, LogFacts DEF Hidden
<1>6. CellsTypes' /\ StackInv' /\ LogInv' /\ WholeInv' /\ ChainInv'
  <2>1. CellsTypes' /\ StackInv'
    BY <1>1, <1>2 DEF IInv, CellsTypes, StackInv
  <2>2. LogInv' /\ WholeInv'
    BY <1>1 DEF IInv, LogInv, WholeInv
  <2>3. ChainInv'
    BY <1>1 DEF IInv, ChainInv, Adjacent
  <2>. QED  BY <2>1, <2>2, <2>3
<1>7. PlayInv'
  <2>1. \A e \in Shown', f \in Hidden' : e < f
    BY <1>4 DEF IInv, PlayInv
  <2>2. mode' = "back" => \A e \in Shown' \ todo', f \in todo' : e < f
    BY <1>1, <1>2, <1>4, LogFacts, NewestAreLast
  <2>3. mode' = "forw" => \A e \in Hidden' \ todo', f \in todo' : f < e
    BY <1>1, <1>2, <1>4, LogFacts, OldestAreFirst
  <2>. QED  BY <1>1, <1>2, <1>3, <2>1, <2>2, <2>3 DEF PlayInv
<1>8. CutInv' /\ BboxInv'
  BY <1>1, <1>4 DEF IInv, CutInv, BboxInv
<1>. QED  BY <1>6, <1>7, <1>8 DEF IInv

-----------------------------------------------------------------------------
(* The commands that do not play events.                                     *)

\* While nothing is played the layout shows the done and the open commands.
LEMMA IdleCut ==
  ASSUME IInv, mode = "idle"
  PROVE  /\ todo = {}
         /\ Shown = (UNION done) \cup open /\ Hidden \subseteq UNION undone
         /\ \A e \in Shown : event[e].type = "close" => e + 1 \in Shown
<1>1. todo = {}
  BY DEF IInv, PlayInv
<1>2. Shown = (UNION done) \cup open
  BY DEF Shown, Played
<1>3. Hidden \subseteq UNION undone
  BY <1>2, LogFacts DEF Hidden
<1>4. \A e \in Shown : event[e].type = "close" => e + 1 \in Shown
  BY <1>2 DEF IInv, WholeInv, Commands
<1>. QED  BY <1>1, <1>2, <1>3, <1>4

\* With nothing on the stack, any cell may be the last.
LEMMA EmptyLogIInv ==
  ASSUME IInv, mode = "idle", FlushLog, dbCellDefTable' \in [Name -> Def \cup {NoDef}],
         dbUndoLastCell' \in Live' \cup {NoDef},
         UNCHANGED <<lastEvent, dbUndoUndid, mode, todo, k, staleBbox>>
  PROVE  IInv'
<1>1. /\ done' = {} /\ open' = {} /\ undone' = {} /\ Log' = {} /\ mode' = "idle" /\ mode = "idle"
      /\ lastEvent' = lastEvent /\ dbUndoUndid' = dbUndoUndid /\ todo' = {} /\ k' = k
      /\ lostName' = FALSE
  BY IdleCut DEF FlushLog, ForgetAll, Log
<1>2. Shown' = {} /\ Hidden' = {} /\ Commands' = {{}}
  BY <1>1 DEF Shown, Hidden, Played, Commands
<1>3. CellsTypes' /\ StackInv'
  BY <1>1, <1>2, FS_EmptySet DEF IInv, CellsTypes, StackInv
<1>4. LogInv' /\ WholeInv' /\ ChainInv'
  BY <1>1, <1>2 DEF LogInv, WholeInv, ChainInv
<1>5. PlayInv' /\ CutInv' /\ BboxInv'
  BY <1>1, <1>2 DEF PlayInv, CutInv, BboxInv
<1>. QED  BY <1>3, <1>4, <1>5 DEF IInv

LEMMA CmdFlushIInv ==
  ASSUME IInv, CmdFlush
  PROVE  IInv'
<1>1. /\ mode = "idle" /\ FlushLog /\ Live' = Live /\ dbUndoLastCell' = dbUndoLastCell
      /\ dbCellDefTable' = dbCellDefTable
      /\ UNCHANGED <<lastEvent, dbUndoUndid, mode, todo, k, staleBbox>>
  BY DEF CmdFlush, Live
<1>2. dbCellDefTable \in [Name -> Def \cup {NoDef}] /\ dbUndoLastCell \in Live \cup {NoDef}
  BY DEF IInv, CellsTypes, CutInv
<1>. QED  BY <1>1, <1>2, EmptyLogIInv

\* Names in the log keep their cells, or one is now lost; the last cell stays.
LEMMA TableIInv ==
  ASSUME IInv, dbCellDefTable' \in [Name -> Def \cup {NoDef}],
         lostName' \in BOOLEAN, mode = "idle", lostName => lostName',
         \A x \in Name : \/ dbCellDefTable'[x] = dbCellDefTable[x]
                         \/ lostName' \/ ~NamedInLog(x),
         dbUndoLastCell \in Live' \cup {NoDef},
         UNCHANGED <<stackVars, event, lastEvent, dbUndoLastCell, dbUndoUndid, mode, todo, k,
                     staleBbox>>
  PROVE  IInv'
<1>1. /\ done' = done /\ undone' = undone /\ open' = open /\ event' = event
      /\ lastEvent' = lastEvent /\ dbUndoLastCell' = dbUndoLastCell
      /\ dbUndoUndid' = dbUndoUndid /\ mode' = mode /\ todo' = todo /\ k' = k
      /\ staleBbox' = staleBbox
      /\ Log' = Log /\ Commands' = Commands
  BY DEF stackVars, Log, Commands
<1>2. Shown' = Shown /\ Played' = Played /\ Hidden' = Hidden
  BY <1>1 DEF Shown, Played, Hidden
<1>3. CellsTypes' /\ StackInv'
  BY <1>1 DEF IInv, CellsTypes, StackInv
<1>4. LogInv'
  <2>1. ASSUME NEW e \in Log, event[e].type # "paint"
        PROVE  /\ event[e].name \in Name
               /\ ~lostName' => dbCellDefTable'[event[e].name] = event[e].def
    BY <2>1 DEF IInv, LogInv, NamedInLog, Log
  <2>. QED  BY <1>1, <2>1 DEF IInv, LogInv
<1>5. WholeInv' /\ ChainInv'
  BY <1>1 DEF IInv, WholeInv, ChainInv, Adjacent
<1>6. PlayInv' /\ CutInv'
  BY <1>1, <1>2 DEF IInv, PlayInv, CutInv
<1>7. BboxInv'
  BY <1>1 DEF BboxInv
<1>. QED  BY <1>3, <1>4, <1>5, <1>6, <1>7 DEF IInv

\* A name that no cell has is not in the log, unless one was lost.
LEMMA FreeNameNotInLog ==
  ASSUME IInv, ~lostName, NEW x \in Name, dbCellDefTable[x] = NoDef
  PROVE  ~NamedInLog(x)
BY NoDefAssumption DEF IInv, LogInv, NamedInLog, Log

LEMMA DBCellNewDefIInv ==
  ASSUME IInv, NEW x \in Name, NEW d \in Def, DBCellNewDef(x, d)
  PROVE  IInv'
<1>1. /\ dbCellDefTable \in [Name -> Def \cup {NoDef}] /\ dbUndoLastCell \in Live \cup {NoDef}
      /\ dbCellDefTable' = [dbCellDefTable EXCEPT ![x] = d] /\ dbCellDefTable[x] = NoDef
      /\ mode = "idle" /\ lostName \in BOOLEAN /\ lostName' = lostName
      /\ UNCHANGED <<stackVars, event, lastEvent, dbUndoLastCell, dbUndoUndid, mode, todo, k,
                     staleBbox>>
  BY DEF DBCellNewDef, IInv, CellsTypes, CutInv
<1>2. dbUndoLastCell \in Live' \cup {NoDef}
  BY <1>1 DEF Live
<1>3. lostName \/ ~NamedInLog(x)
  BY <1>1, FreeNameNotInLog
<1>4. dbCellDefTable' \in [Name -> Def \cup {NoDef}]
  BY <1>1
<1>5. \A y \in Name : dbCellDefTable'[y] = dbCellDefTable[y] \/ lostName' \/ ~NamedInLog(y)
  BY <1>1, <1>3
<1>. QED  BY <1>1, <1>2, <1>4, <1>5, TableIInv

LEMMA DBCellRenameIInv ==
  ASSUME IInv, NEW x \in Name, NEW y \in Name, DBCellRename(x, y)
  PROVE  IInv'
<1>1. /\ dbCellDefTable \in [Name -> Def \cup {NoDef}] /\ dbUndoLastCell \in Live \cup {NoDef}
      /\ dbCellDefTable' = [dbCellDefTable EXCEPT ![x] = NoDef, ![y] = dbCellDefTable[x]]
      /\ dbCellDefTable[x] # NoDef /\ dbCellDefTable[y] = NoDef
      /\ mode = "idle" /\ lostName \in BOOLEAN /\ lostName' = (lostName \/ NamedInLog(x))
      /\ UNCHANGED <<stackVars, event, lastEvent, dbUndoLastCell, dbUndoUndid, mode, todo, k,
                     staleBbox>>
  BY DEF DBCellRename, IInv, CellsTypes, CutInv
<1>2. /\ dbCellDefTable'[y] = dbCellDefTable[x]
      /\ \A z \in Name \ {x, y} : dbCellDefTable'[z] = dbCellDefTable[z]
  BY <1>1
<1>3. dbUndoLastCell \in Live' \cup {NoDef}
  <2>1. ASSUME NEW z \in Name, dbCellDefTable[z] # NoDef
        PROVE  \E u \in Name : dbCellDefTable'[u] = dbCellDefTable[z]
    BY <1>1, <1>2, <2>1
  <2>. QED  BY <1>1, <2>1 DEF Live
<1>4. lostName \/ ~NamedInLog(y)
  BY <1>1, FreeNameNotInLog
<1>5. dbCellDefTable' \in [Name -> Def \cup {NoDef}]
  BY <1>1
<1>6. \A z \in Name : dbCellDefTable'[z] = dbCellDefTable[z] \/ lostName' \/ ~NamedInLog(z)
  BY <1>1, <1>2, <1>4
<1>7. lostName' \in BOOLEAN /\ (lostName => lostName')
  BY <1>1 DEF NamedInLog
<1>. QED  BY <1>1, <1>3, <1>5, <1>6, <1>7, TableIInv

LEMMA DBCellDeleteIInv ==
  ASSUME IInv, NEW x \in Name, DBCellDelete(x)
  PROVE  IInv'
<1>1. /\ dbCellDefTable \in [Name -> Def \cup {NoDef}] /\ dbUndoLastCell \in Live \cup {NoDef}
      /\ dbCellDefTable' = [dbCellDefTable EXCEPT ![x] = NoDef] /\ mode = "idle"
      /\ lostName \in BOOLEAN
      /\ UNCHANGED <<lastEvent, dbUndoUndid, mode, todo, k, staleBbox>>
  BY DEF DBCellDelete, IInv, CellsTypes, CutInv
<1>2. dbCellDefTable' \in [Name -> Def \cup {NoDef}]
  BY <1>1
<1>3. CASE dbCellDefTable[x] = dbUndoLastCell
  <2>1. FlushLog /\ dbUndoLastCell' = NoDef
    BY <1>3 DEF DBCellDelete, DBUndoReset
  <2>. QED  BY <1>1, <1>2, <2>1, EmptyLogIInv
<1>4. CASE dbCellDefTable[x] # dbUndoLastCell
  <2>1. /\ UNCHANGED <<stackVars, event, dbUndoLastCell>>
        /\ lostName' = (lostName \/ NamedInLog(x))
    BY <1>4 DEF DBCellDelete, DBUndoReset
  <2>2. dbUndoLastCell \in Live' \cup {NoDef}
    BY <1>1, <1>4 DEF Live
  <2>3. \A z \in Name : dbCellDefTable'[z] = dbCellDefTable[z] \/ lostName' \/ ~NamedInLog(z)
    BY <1>1, <2>1
  <2>4. lostName' \in BOOLEAN /\ (lostName => lostName')
    BY <1>1, <2>1 DEF NamedInLog
  <2>. QED  BY <1>1, <1>2, <2>1, <2>2, <2>3, <2>4, TableIInv
<1>. QED  BY <1>3, <1>4

\* The end of a command, which may forget the oldest.
LEMMA EndCommandIInv ==
  ASSUME IInv, EndCommand
  PROVE  IInv'
<1>. DEFINE all == done \cup {open}
<1>1. /\ mode = "idle" /\ open # {} /\ open' = {} /\ undone = {} /\ undone' = {}
      /\ done' = all \/ done' = Newest(all, LOWCOMMANDS)
      /\ event' = [e \in UNION (done' \cup undone') |-> event[e]]
      /\ UNCHANGED <<lastEvent, dbCellDefTable, dbUndoLastCell, dbUndoUndid, mode, todo, k,
                     staleBbox, lostName>>
  BY DEF EndCommand, CloseCommand, IInv, StackInv
<1>2. Ordered(all)
  <2>1. IsFiniteSet(all) /\ {} \notin all
    BY <1>1, FS_AddElement DEF IInv, StackInv
  <2>2. \A c \in all : c \subseteq Nat
    BY DEF IInv, CellsTypes, StackInv, Commands
  <2>3. \A c, d \in all : c = d \/ Older(c, d) \/ Older(d, c)
    BY DEF IInv, StackInv
  <2>. QED  BY <2>1, <2>2, <2>3 DEF Ordered
<1>3. /\ done' \subseteq all /\ IsFiniteSet(done')
      /\ \A e \in (UNION all) \ UNION done', f \in UNION done' : e < f
  <2>1. CASE done' = all
    BY <1>2, <2>1 DEF Ordered
  <2>2. CASE done' = Newest(all, LOWCOMMANDS)
    <3>1. done' \subseteq all
      BY <2>2 DEF Newest
    <3>2. IsFiniteSet(done')
      BY <1>2, <3>1, FS_Subset DEF Ordered
    <3>3. LOWCOMMANDS \in Nat
      BY CountsAssumption
    <3>. HIDE DEF all
    <3>4. \A e \in (UNION all) \ UNION Newest(all, LOWCOMMANDS),
             f \in UNION Newest(all, LOWCOMMANDS) : e < f
      BY <1>2, <3>3, NewestAreLast
    <3>. QED  BY <2>2, <3>1, <3>2, <3>4
  <2>. QED  BY <1>1, <2>1, <2>2
<1>4. /\ Log = UNION all /\ Log' = UNION done' /\ Log' \subseteq Log /\ Log \subseteq Nat
      /\ \A e \in Log' : event'[e] = event[e]
      /\ Commands' = done' \cup {{}}
      /\ \A e \in Log \ Log', f \in Log' : e < f
  <2>1. Log = UNION all /\ Log \subseteq Nat
    BY <1>1, LogFacts DEF IInv, CellsTypes
  <2>2. Log' = UNION done' /\ \A e \in Log' : event'[e] = event[e]
    BY <1>1 DEF Log
  <2>. QED  BY <1>1, <1>3, <2>1, <2>2 DEF Commands
<1>. HIDE DEF all
<1>5. todo' = {} /\ todo = {} /\ Shown = Log
  BY <1>1, <1>4, IdleCut DEF all
<1>6. Shown' = Log' /\ Hidden' = {}
  BY <1>1, <1>4, <1>5 DEF Shown, Hidden, Played
<1>7. CellsTypes'
  BY <1>1 DEF IInv, CellsTypes
<1>8. StackInv'
  <2>1. \A c \in Commands' : c \subseteq 1..lastEvent'
    BY <1>1, <1>3, <1>4 DEF all, IInv, StackInv, Commands
  <2>2. \A c, d \in done' \cup undone' : c = d \/ Older(c, d) \/ Older(d, c)
    BY <1>1, <1>2, <1>3 DEF Ordered
  <2>3. \A c \in done' : \A d \in undone' \cup {open'} : Older(c, d)
    BY <1>1 DEF Older
  <2>4. {} \notin done' \cup undone' /\ IsFiniteSet(undone')
    BY <1>1, <1>2, <1>3, FS_EmptySet DEF Ordered
  <2>. QED  BY <1>1, <1>3, <2>1, <2>2, <2>3, <2>4 DEF StackInv
<1>9. LogInv'
  BY <1>1, <1>4 DEF IInv, LogInv
<1>10. WholeInv'
  <2>. SUFFICES ASSUME NEW c \in done', NEW e \in c, event'[e].type = "close"
                PROVE  e + 1 \in c /\ event'[e + 1].type = "open"
    BY <1>4 DEF WholeInv
  <2>1. c \in Commands /\ e \in Log'
    BY <1>3, <1>4 DEF all, Commands
  <2>2. e + 1 \in c /\ event[e + 1].type = "open"
    BY <1>4, <2>1 DEF IInv, WholeInv
  <2>. QED  BY <1>4, <2>2
<1>11. ChainInv'
  <2>. SUFFICES ASSUME ~lostName, NEW e \in Log', NEW f \in Log', e < f,
                       \A g \in Log' : ~(e < g /\ g < f)
                PROVE  /\ event'[f].type # "open" =>
                            event'[e].type # "close" /\ event'[e].def = event'[f].def
                       /\ event'[f].type = "open" => event'[e].type = "close"
    BY <1>1 DEF ChainInv, Adjacent
  <2>1. ASSUME NEW g \in Log
        PROVE  ~(e < g /\ g < f)
    <3>1. CASE g \in Log'
      BY <3>1
    <3>2. CASE g \notin Log'
      <4>1. g < e /\ g \in Nat /\ e \in Nat
        BY <1>4, <3>2
      <4>. QED  BY <4>1
    <3>. QED  BY <3>1, <3>2
  <2>2. Adjacent(e, f) /\ e \in Log /\ f \in Log
    BY <1>4, <2>1 DEF Adjacent
  <2>. QED  BY <1>4, <2>2 DEF IInv, ChainInv
<1>12. PlayInv'
  BY <1>1, <1>5, <1>6 DEF PlayInv
<1>13. CutInv'
  <2>1. Live' = Live
    BY <1>1 DEF Live
  <2>2. ASSUME ~lostName, NEW e \in Log', \A f \in Log' : f <= e, event'[e].type # "close"
        PROVE  dbUndoLastCell = event'[e].def
    <3>1. \A f \in Shown : f <= e
      <4>1. Shown = Log /\ Log \subseteq Nat /\ \A f \in Log' : f <= e
        BY <1>4, <1>5, <2>2
      <4>2. \A f \in Log \ Log' : f < e
        BY <1>4
      <4>3. e \in Nat
        BY <1>4
      <4>. QED  BY <4>1, <4>2, <4>3
    <3>. QED  BY <1>4, <1>5, <2>2, <3>1 DEF IInv, CutInv
  <2>. QED  BY <1>1, <1>6, <2>1, <2>2 DEF IInv, CutInv
<1>14. BboxInv'
  BY <1>1 DEF BboxInv
<1>. QED  BY <1>7, <1>8, <1>9, <1>10, <1>11, <1>12, <1>13, <1>14 DEF IInv

-----------------------------------------------------------------------------
(* A paint operation.                                                        *)

LEMMA CellNames ==
  ASSUME NEW d \in Live
  PROVE  cd_name(d) \in Name /\ dbCellDefTable[cd_name(d)] = d /\ d # NoDef
BY DEF Live, cd_name

LEMMA Appended ==
  ASSUME NEW R, NEW s \in Seq(R), NEW x \in R
  PROVE  /\ Len(Append(s, x)) = Len(s) + 1
         /\ \A i \in 1..Len(s) : Append(s, x)[i] = s[i]
         /\ Append(s, x)[Len(s) + 1] = x
OBVIOUS

\* What the operation adds to the log, event by event.
Records(d, n) ==
  /\ lastEvent' = lastEvent + n
  /\ open' = open \cup (lastEvent + 1 .. lastEvent + n)
  /\ Log' = (Log \ UNION undone) \cup (lastEvent + 1 .. lastEvent + n)
  /\ \A e \in Log \ UNION undone : e <= lastEvent => event'[e] = event[e]
  /\ event'[lastEvent + n] = Paint(d)
  /\ n > 1 => event'[lastEvent + n - 1] = OpenCell(cd_name(d), d)
  /\ n > 2 => event'[lastEvent + 1] = CloseCell(cd_name(dbUndoLastCell), dbUndoLastCell)

LEMMA PaintRecords ==
  ASSUME IInv, NEW d \in Def, DBPaint(d)
  PROVE  \/ d = dbUndoLastCell /\ Records(d, 1)
         \/ d # dbUndoLastCell /\ dbUndoLastCell = NoDef /\ Records(d, 2)
         \/ d # dbUndoLastCell /\ dbUndoLastCell # NoDef /\ Records(d, 3)
<1>. DEFINE new == Append(dbUndoEdit(d), Paint(d))
            ids == lastEvent + 1 .. lastEvent + Len(new)
<1>1. /\ lastEvent' = lastEvent + Len(new) /\ open' = open \cup ids
      /\ event' = [e \in ((DOMAIN event) \ UNION undone) \cup ids |->
                     IF e \in ids THEN new[e - lastEvent] ELSE event[e]]
  BY DEF DBPaint
<1>2. lastEvent \in Nat /\ Log \subseteq Nat
  BY LogFacts DEF IInv, CellsTypes
<1>3. CASE d = dbUndoLastCell
  <2>. DEFINE R == {Paint(d)}
  <2>1. dbUndoEdit(d) = <<>>
    BY <1>3 DEF dbUndoEdit
  <2>2. dbUndoEdit(d) \in Seq(R) /\ Paint(d) \in R /\ Len(dbUndoEdit(d)) = 0
    BY <2>1
  <2>3. /\ Len(new) = 1
        /\ new[1] = Paint(d)
    BY <2>1, <2>2, Appended
  <2>. HIDE DEF new
  <2>. QED  BY <1>1, <1>2, <1>3, <2>3 DEF Records, Log
<1>4. CASE d # dbUndoLastCell /\ dbUndoLastCell = NoDef
  <2>. DEFINE R == {OpenCell(cd_name(d), d), Paint(d)}
  <2>1. dbUndoEdit(d) = <<OpenCell(cd_name(d), d)>>
    BY <1>4 DEF dbUndoEdit
  <2>2. dbUndoEdit(d) \in Seq(R) /\ Paint(d) \in R /\ Len(dbUndoEdit(d)) = 1
    BY <2>1
  <2>3. /\ Len(new) = 2
        /\ new[1] = OpenCell(cd_name(d), d)
        /\ new[2] = Paint(d)
    BY <2>1, <2>2, Appended
  <2>. HIDE DEF new
  <2>. QED  BY <1>1, <1>2, <1>4, <2>3 DEF Records, Log
<1>5. CASE d # dbUndoLastCell /\ dbUndoLastCell # NoDef
  <2>. DEFINE R == {CloseCell(cd_name(dbUndoLastCell), dbUndoLastCell), OpenCell(cd_name(d), d), Paint(d)}
  <2>1. dbUndoEdit(d) = <<CloseCell(cd_name(dbUndoLastCell), dbUndoLastCell), OpenCell(cd_name(d), d)>>
    BY <1>5 DEF dbUndoEdit
  <2>2. dbUndoEdit(d) \in Seq(R) /\ Paint(d) \in R /\ Len(dbUndoEdit(d)) = 2
    BY <2>1
  <2>3. /\ Len(new) = 3
        /\ new[1] = CloseCell(cd_name(dbUndoLastCell), dbUndoLastCell)
        /\ new[2] = OpenCell(cd_name(d), d)
        /\ new[3] = Paint(d)
    BY <2>1, <2>2, Appended
  <2>. HIDE DEF new
  <2>. QED  BY <1>1, <1>2, <1>5, <2>3 DEF Records, Log
<1>. QED  BY <1>3, <1>4, <1>5

\* The new events fit together and to the cell that was the last before.
LEMMA NewEvents ==
  ASSUME IInv, NEW d \in Def, DBPaint(d)
  PROVE  \E n \in 1..3 :
           /\ Records(d, n) /\ event'[lastEvent + n].type = "paint" /\ event'[lastEvent + n].def = d
           /\ event'[lastEvent + 1].type # "open" => event'[lastEvent + 1].def = dbUndoLastCell
           /\ event'[lastEvent + 1].type = "open" => dbUndoLastCell = NoDef
           /\ \A e \in lastEvent + 1 .. lastEvent + n :
                /\ event'[e].type \in {"paint", "open", "close"} /\ event'[e].def \in Def
                /\ event'[e].type # "paint" =>
                     /\ event'[e].name \in Name
                     /\ dbCellDefTable[event'[e].name] = event'[e].def
                /\ event'[e].type = "close" =>
                     e + 1 <= lastEvent + n /\ event'[e + 1].type = "open"
                /\ e + 1 <= lastEvent + n =>
                     /\ event'[e + 1].type # "open" =>
                          event'[e].type # "close" /\ event'[e].def = event'[e + 1].def
                     /\ event'[e + 1].type = "open" => event'[e].type = "close"
<1>1. /\ lastEvent \in Nat /\ d \in Live /\ d \in Def
      /\ dbUndoLastCell # NoDef => dbUndoLastCell \in Live /\ dbUndoLastCell \in Def
  BY DEF DBPaint, IInv, CellsTypes, CutInv, Live
<1>2. /\ d # NoDef /\ cd_name(d) \in Name /\ dbCellDefTable[cd_name(d)] = d
      /\ dbUndoLastCell # NoDef =>
           /\ cd_name(dbUndoLastCell) \in Name
           /\ dbCellDefTable[cd_name(dbUndoLastCell)] = dbUndoLastCell
  BY <1>1, CellNames
<1>3. CASE d = dbUndoLastCell /\ Records(d, 1)
  <2>1. /\ event'[lastEvent + 1].type = "paint" /\ event'[lastEvent + 1].def = d
    BY <1>3 DEF Records, Paint
  <2>. WITNESS 1 \in 1..3
  <2>2. \A e \in lastEvent + 1 .. lastEvent + 1 : e = lastEvent + 1 /\ ~(e + 1 <= lastEvent + 1)
    BY <1>1
  <2>. QED  BY <1>1, <1>3, <2>1, <2>2
<1>4. CASE d # dbUndoLastCell /\ dbUndoLastCell = NoDef /\ Records(d, 2)
  <2>1. lastEvent + 2 - 1 = lastEvent + 1
    BY <1>1
  <2>2. /\ event'[lastEvent + 1].type = "open" /\ event'[lastEvent + 1].def = d
        /\ event'[lastEvent + 1].name = cd_name(d)
        /\ event'[lastEvent + 2].type = "paint" /\ event'[lastEvent + 2].def = d
    BY <1>4, <2>1 DEF Records, Paint, OpenCell
  <2>. WITNESS 2 \in 1..3
  <2>3. \A e \in lastEvent + 1 .. lastEvent + 2 :
          \/ e = lastEvent + 1 /\ e + 1 = lastEvent + 2
          \/ e = lastEvent + 2 /\ ~(e + 1 <= lastEvent + 2)
    BY <1>1
  <2>. QED  BY <1>1, <1>2, <1>4, <2>2, <2>3
<1>5. CASE d # dbUndoLastCell /\ dbUndoLastCell # NoDef /\ Records(d, 3)
  <2>1. lastEvent + 3 - 1 = lastEvent + 2
    BY <1>1
  <2>2. /\ event'[lastEvent + 1].type = "close" /\ event'[lastEvent + 1].def = dbUndoLastCell
        /\ event'[lastEvent + 1].name = cd_name(dbUndoLastCell)
        /\ event'[lastEvent + 2].type = "open" /\ event'[lastEvent + 2].def = d
        /\ event'[lastEvent + 2].name = cd_name(d)
        /\ event'[lastEvent + 3].type = "paint" /\ event'[lastEvent + 3].def = d
    BY <1>5, <2>1 DEF Records, Paint, OpenCell, CloseCell
  <2>. WITNESS 3 \in 1..3
  <2>3. \A e \in lastEvent + 1 .. lastEvent + 3 :
          \/ e = lastEvent + 1 /\ e + 1 = lastEvent + 2 /\ e + 1 <= lastEvent + 3
          \/ e = lastEvent + 2 /\ e + 1 = lastEvent + 3
          \/ e = lastEvent + 3 /\ ~(e + 1 <= lastEvent + 3)
    BY <1>1
  <2>. QED  BY <1>1, <1>2, <1>5, <2>2, <2>3
<1>. QED  BY <1>3, <1>4, <1>5, PaintRecords

LEMMA DBPaintIInv ==
  ASSUME IInv, NEW d \in Def, DBPaint(d)
  PROVE  IInv'
<1>. PICK n \in 1..3 :
           /\ Records(d, n) /\ event'[lastEvent + n].type = "paint" /\ event'[lastEvent + n].def = d
           /\ event'[lastEvent + 1].type # "open" => event'[lastEvent + 1].def = dbUndoLastCell
           /\ event'[lastEvent + 1].type = "open" => dbUndoLastCell = NoDef
           /\ \A e \in lastEvent + 1 .. lastEvent + n :
                /\ event'[e].type \in {"paint", "open", "close"} /\ event'[e].def \in Def
                /\ event'[e].type # "paint" =>
                     /\ event'[e].name \in Name
                     /\ dbCellDefTable[event'[e].name] = event'[e].def
                /\ event'[e].type = "close" =>
                     e + 1 <= lastEvent + n /\ event'[e + 1].type = "open"
                /\ e + 1 <= lastEvent + n =>
                     /\ event'[e + 1].type # "open" =>
                          event'[e].type # "close" /\ event'[e].def = event'[e + 1].def
                     /\ event'[e + 1].type = "open" => event'[e].type = "close"
  BY NewEvents
<1>. DEFINE ids == lastEvent + 1 .. lastEvent + n
<1>1. /\ mode = "idle" /\ mode' = "idle" /\ todo' = todo /\ k' = k /\ lostName' = lostName
      /\ dbUndoUndid' = dbUndoUndid /\ dbCellDefTable' = dbCellDefTable /\ dbUndoLastCell' = d
      /\ done' = done /\ undone' = {} /\ d \in Live /\ Live' = Live
      /\ lastEvent \in Nat /\ lastEvent' = lastEvent + n /\ open' = open \cup ids
  BY DEF DBPaint, Live, Records, IInv, CellsTypes
<1>2. /\ todo = {} /\ Shown = (UNION done) \cup open /\ Shown \subseteq Log
      /\ Log \subseteq 1..lastEvent /\ Hidden \subseteq UNION undone
      /\ \A e \in Shown : event[e].type = "close" => e + 1 \in Shown
  BY <1>1, IdleCut, LogFacts
<1>3. Log \ UNION undone = Shown
  <2>1. \A e \in Shown, f \in UNION undone : e # f
    <3>1. ASSUME NEW e \in UNION done, NEW f \in UNION undone
          PROVE  e # f
      <4>1. e < f /\ e \in Nat
        BY <1>1, <1>2, <3>1 DEF IInv, StackInv, Older
      <4>. QED  BY <4>1
    <3>2. open # {} => UNION undone = {}
      BY DEF IInv, StackInv
    <3>. QED  BY <1>2, <3>1, <3>2
  <2>. QED  BY <1>2, <2>1 DEF Hidden
<1>4. /\ Log' = Shown \cup ids
      /\ \A e \in Shown : event'[e] = event[e] /\ e <= lastEvent /\ e \in Nat
  BY <1>1, <1>2, <1>3 DEF Records
<1>5. Commands' = done \cup {open \cup ids} /\ Log' = UNION Commands'
  <2>1. Commands' = done \cup {open \cup ids}
    BY <1>1 DEF Commands
  <2>2. \A x : x \in UNION (done \cup {open \cup ids}) <=> x \in UNION done \/ x \in open \cup ids
    OBVIOUS
  <2>. HIDE DEF ids
  <2>3. \A x : x \in Log' <=> x \in UNION Commands'
    BY <1>2, <1>4, <2>1, <2>2
  <2>. QED  BY <2>1, <2>3
<1>6. Shown' = Log' /\ Hidden' = {}
  <2>1. Shown' = (UNION done) \cup open'
    BY <1>1, <1>2 DEF Shown, Played
  <2>. QED  BY <1>1, <1>2, <1>4, <2>1 DEF Hidden
<1>7. CellsTypes'
  BY <1>1 DEF IInv, CellsTypes
<1>8. StackInv'
  <2>1. \A c \in Commands' : c \subseteq 1..lastEvent'
    <3>1. \A c \in done \cup {open} : c \subseteq 1..lastEvent
      BY DEF IInv, StackInv, Commands
    <3>. QED  BY <1>1, <1>5, <3>1
  <2>2. \A c \in done : Older(c, open \cup ids)
    <3>1. \A c \in done : c \subseteq 1..lastEvent /\ Older(c, open)
      BY DEF IInv, StackInv, Commands
    <3>. QED  BY <1>1, <3>1 DEF Older
  <2>. QED  BY <1>1, <2>1, <2>2, FS_EmptySet DEF IInv, StackInv
<1>9. LogInv'
  <2>1. ASSUME NEW e \in Log'
        PROVE  /\ event'[e].type \in {"paint", "open", "close"}
               /\ event'[e].def \in Def
               /\ event'[e].type # "paint" =>
                    /\ event'[e].name \in Name
                    /\ ~lostName => dbCellDefTable'[event'[e].name] = event'[e].def
    <3>1. CASE e \in ids
      BY <1>1, <3>1
    <3>2. CASE e \in Shown
      BY <1>1, <1>2, <1>4, <3>2 DEF IInv, LogInv
    <3>. QED  BY <1>4, <3>1, <3>2
  <2>. QED  BY <1>1, <1>5, <2>1 DEF LogInv
<1>10. WholeInv'
  <2>. SUFFICES ASSUME NEW c \in done \cup {open \cup ids}, NEW e \in c, event'[e].type = "close"
                PROVE  e + 1 \in c /\ event'[e + 1].type = "open"
    BY <1>5 DEF WholeInv
  <2>1. CASE c \in done
    <3>1. c \in Commands /\ e \in Shown /\ c \subseteq Shown
      BY <1>2, <2>1 DEF Commands
    <3>2. e + 1 \in c /\ event[e + 1].type = "open"
      BY <1>4, <3>1 DEF IInv, WholeInv
    <3>. QED  BY <1>4, <3>1, <3>2
  <2>2. CASE c = open \cup ids /\ e \in open
    <3>1. open \in Commands /\ e \in Shown /\ open \subseteq Shown
      BY <1>2, <2>2 DEF Commands
    <3>2. e + 1 \in open /\ event[e + 1].type = "open"
      BY <1>4, <2>2, <3>1 DEF IInv, WholeInv
    <3>. QED  BY <1>4, <2>2, <3>1, <3>2
  <2>3. CASE c = open \cup ids /\ e \in ids
    BY <1>1, <2>3
  <2>. QED  BY <2>1, <2>2, <2>3
<1>11. ChainInv'
  <2>. SUFFICES ASSUME ~lostName, NEW e \in Log', NEW f \in Log', e < f,
                       \A g \in Log' : ~(e < g /\ g < f)
                PROVE  /\ event'[f].type # "open" =>
                            event'[e].type # "close" /\ event'[e].def = event'[f].def
                       /\ event'[f].type = "open" => event'[e].type = "close"
    BY <1>1 DEF ChainInv, Adjacent
  <2>1. CASE e \in Shown /\ f \in Shown
    <3>1. \A g \in Hidden : f < g
      BY <2>1 DEF IInv, PlayInv
    <3>2. ASSUME NEW g \in Log
          PROVE  ~(e < g /\ g < f)
      <4>1. CASE g \in Shown
        BY <1>4, <4>1
      <4>2. CASE g \in Hidden
        <5>1. f < g /\ g \in Nat /\ f \in Nat
          BY <1>2, <1>4, <2>1, <3>1, <4>2
        <5>. QED  BY <5>1
      <4>. QED  BY <4>1, <4>2 DEF Hidden
    <3>3. Adjacent(e, f) /\ e \in Log /\ f \in Log
      BY <1>2, <2>1, <3>2 DEF Adjacent
    <3>. QED  BY <1>4, <2>1, <3>3 DEF IInv, ChainInv
  <2>2. CASE e \in Shown /\ f \in ids
    <3>1. f = lastEvent + 1
      BY <1>1, <1>4, <2>2
    <3>2. \A g \in Shown : g <= e
      BY <1>1, <1>4, <2>2, <3>1
    <3>3. event[e].type # "close"
      BY <1>2, <1>4, <2>2, <3>2
    <3>4. dbUndoLastCell = event[e].def
      BY <2>2, <3>2, <3>3 DEF IInv, CutInv
    <3>5. event[e].def # NoDef
      BY <1>2, <2>2, NoDefAssumption DEF IInv, LogInv
    <3>. QED  BY <1>4, <2>2, <3>1, <3>3, <3>4, <3>5
  <2>3. CASE e \in ids /\ f \in ids
    <3>1. f = e + 1
      BY <1>1, <1>4, <2>3
    <3>. QED  BY <1>1, <2>3, <3>1
  <2>4. CASE e \in ids /\ f \in Shown
    BY <1>1, <1>4, <2>4
  <2>. QED  BY <1>4, <2>1, <2>2, <2>3, <2>4
<1>12. PlayInv'
  BY <1>1, <1>2, <1>6 DEF PlayInv
<1>13. CutInv'
  <2>1. ASSUME NEW e \in Log', \A f \in Log' : f <= e
        PROVE  event'[e].def = d
    <3>1. lastEvent + n \in Log' /\ e <= lastEvent + n
      BY <1>1, <1>4
    <3>2. e = lastEvent + n
      BY <1>1, <1>4, <2>1, <3>1
    <3>. QED  BY <3>2
  <2>. QED  BY <1>1, <1>6, <2>1 DEF CutInv
<1>14. BboxInv'
  BY <1>1 DEF BboxInv
<1>. QED  BY <1>7, <1>8, <1>9, <1>10, <1>11, <1>12, <1>13, <1>14 DEF IInv

-----------------------------------------------------------------------------
LEMMA InitIInv == CellsInit => IInv
<1>. SUFFICES ASSUME CellsInit PROVE IInv
  OBVIOUS
<1>1. /\ done = {} /\ open = {} /\ undone = {} /\ Log = {} /\ lastEvent = 0 /\ mode = "idle"
      /\ todo = {} /\ k = 0 /\ lostName = FALSE /\ dbUndoLastCell = NoDef /\ dbUndoUndid = FALSE
  BY DEF CellsInit, StackInit, Log
<1>2. dbCellDefTable \in [Name -> Def \cup {NoDef}]
  <2>1. PICK f \in [Def -> Name] : dbCellDefTable = [x \in Name |->
            IF \E d \in Def : f[d] = x THEN CHOOSE d \in Def : f[d] = x ELSE NoDef]
    BY DEF CellsInit
  <2>2. \A x \in Name : (IF \E d \in Def : f[d] = x THEN CHOOSE d \in Def : f[d] = x ELSE NoDef)
                          \in Def \cup {NoDef}
    OBVIOUS
  <2>. QED  BY <2>1, <2>2
<1>3. Shown = {} /\ Hidden = {} /\ Commands = {{}}
  BY <1>1 DEF Shown, Hidden, Played, Commands
<1>4. CellsTypes /\ StackInv
  BY <1>1, <1>2, <1>3, FS_EmptySet DEF CellsTypes, StackInv
<1>5. LogInv /\ WholeInv /\ ChainInv
  BY <1>1, <1>3 DEF LogInv, WholeInv, ChainInv
<1>6. PlayInv /\ CutInv /\ BboxInv
  BY <1>1, <1>3 DEF PlayInv, CutInv, BboxInv
<1>. QED  BY <1>4, <1>5, <1>6 DEF IInv

LEMMA NextIInv ==
  ASSUME IInv, [CellsNext]_cellsVars
  PROVE  IInv'
<1>1. CASE UNCHANGED cellsVars
  <2>1. /\ Log' = Log /\ Commands' = Commands /\ Shown' = Shown /\ Hidden' = Hidden
        /\ Played' = Played /\ Live' = Live
    BY <1>1 DEF cellsVars, cellVars, stackVars, Log, Commands, Shown, Hidden, Played, Live
  <2>2. CellsTypes' /\ StackInv' /\ LogInv' /\ WholeInv' /\ ChainInv'
    BY <1>1, <2>1 DEF cellsVars, cellVars, stackVars, IInv, CellsTypes, StackInv, LogInv,
       WholeInv, ChainInv, Adjacent
  <2>3. PlayInv' /\ CutInv' /\ BboxInv'
    BY <1>1, <2>1 DEF cellsVars, cellVars, stackVars, IInv, PlayInv, CutInv, BboxInv,
       IsNext, Opens
  <2>. QED  BY <2>2, <2>3 DEF IInv
<1>2. CASE CellsNext
  BY <1>2, DBPaintIInv, EndCommandIInv, PlayIInv, dbUndoPaintIInv, dbUndoOpenCellIInv,
     dbUndoCloseCellIInv, PlayEndIInv, CmdFlushIInv, DBCellDeleteIInv, DBCellNewDefIInv,
     DBCellRenameIInv
     DEF CellsNext, PlayStep
<1>. QED  BY <1>1, <1>2

(* The strengthening is inductive, for any number of cells, names, commands  *)
(* and events.                                                               *)
THEOREM Invariance == CellsSpec => []IInv
<1>1. IInv /\ [CellsNext]_cellsVars => IInv'
  BY NextIInv
<1>. QED  BY <1>1, InitIInv, PTL DEF CellsSpec

(* Undo and redo play every paint event in the cell it was recorded in, until *)
(* a cell that the log names is renamed or deleted.                          *)
THEOREM PlaysInTheRightCell == CellsSpec => []PlaysOnRecordedCell
<1>1. IInv => PlaysOnRecordedCell
  BY NextFacts DEF PlaysOnRecordedCell
<1>. QED  BY <1>1, Invariance, PTL

(* Undo and redo return with the bounding boxes of all the cells they painted *)
(* in recomputed.                                                            *)
THEOREM BboxesAreRight == CellsSpec => BboxesRecomputed
<1>1. IInv /\ [CellsNext]_cellsVars
        => [mode # "idle" /\ mode' = "idle" /\ ~lostName => staleBbox' = {}]_cellsVars
  <2>. SUFFICES ASSUME IInv, CellsNext, mode # "idle", mode' = "idle", ~lostName
                PROVE  staleBbox' = {}
    OBVIOUS
  <2>1. PlayEnd
    BY DEF CellsNext, PlayStep, DBPaint, EndCommand, UndoBackward, UndoForward, Play,
       dbUndoPaint, dbUndoOpenCell, dbUndoCloseCell, CmdFlush, DBCellDelete, DBCellNewDef,
       DBCellRename
  <2>. QED  BY <2>1, BboxRecomputed DEF PlayEnd
<1>. QED  BY <1>1, Invariance, PTL DEF CellsSpec, BboxesRecomputed
=============================================================================
