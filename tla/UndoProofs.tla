----------------------------- MODULE UndoProofs -----------------------------
(***************************************************************************)
(* What holds of undo.c for all limits and lengths of the log: first that    *)
(* the strengthening of UndoInductive is inductive and the safety            *)
(* invariants that follow from it, then that the log is a command stack.     *)
(***************************************************************************)
EXTENDS UndoInductive, UndoRefinement, FiniteSetTheorems, FunctionTheorems, TLAPS

LEMMA InitIInv == Init => IInv
<1> SUFFICES ASSUME Init PROVE IInv
  OBVIOUS
<1>1. LogNodes = {} /\ Delims = {} /\ Events = {} /\ Heap = {}
  BY DEF Init, LogNodes, Delims, Events, Alive, Heap
<1>2. TypeOK
  <2>1. tested \in BOOLEAN
    BY DEF Init
  <2> QED
    BY <1>1, <2>1, BoundsAssumption DEF Init, TypeOK, Pointer, NULL, WILD, Event
<1>3. CountPlace
  BY <1>1, FS_EmptySet, LimitsAssumption DEF CountPlace, Init
<1> QED
  BY <1>1, <1>2, <1>3 DEF IInv, ForwLinks, BackLinks, TailIsLast, HeadIsFirst,
     EmptyLog, CursorPlace, TruncatePlace, FreeHeadPlace, PlayPlace,
     NoEmptyCommand, LayoutMatchesLog, ForgottenIsOlder, Init, Playing, NULL

USE DEF heapVars, countVars, playVars, NULL

\* Away from the loops that rewire it, the log's links are exact.
LEMMA ForwStep ==
  ASSUME TypeOK, ForwLinks, TailIsLast, ~Rewiring, NEW p \in LogNodes
  PROVE  \/ node[p].forw = NULL /\ p = undoLogTail /\ \A r \in LogNodes : r <= p
         \/ Adjacent(p, node[p].forw)
BY DEF ForwLinks, TailIsLast, Rewiring

LEMMA BackStep ==
  ASSUME TypeOK, BackLinks, HeadIsFirst, ~Rewiring, NEW p \in LogNodes
  PROVE  \/ node[p].back = NULL /\ \A r \in LogNodes : p <= r
         \/ Adjacent(node[p].back, p)
BY DEF BackLinks, HeadIsFirst, Rewiring

LEMMA LogPositive ==
  ASSUME TypeOK
  PROVE  /\ LogNodes \subseteq Heap /\ Heap \subseteq 1..lastNode
         /\ \A p \in LogNodes : p \in Nat /\ p > 0 /\ p # NULL /\ p <= lastNode
         /\ \A p \in Heap : node[p] \in Event
BY BoundsAssumption DEF TypeOK, LogNodes, Alive, Heap, NULL

LEMMA DisableIInv == IInv /\ UndoDisable => IInv'
<1> SUFFICES ASSUME IInv, UndoDisable PROVE IInv'
  OBVIOUS
<1>1. LogNodes' = LogNodes /\ Delims' = Delims /\ Events' = Events
  BY DEF IInv, UndoDisable, LogNodes, Delims, Events, Alive, Heap
<1>2. TypeOK'
  BY BoundsAssumption DEF IInv, TypeOK, UndoDisable, Heap
<1>3. (ForwLinks /\ BackLinks /\ TailIsLast /\ HeadIsFirst /\ EmptyLog)'
  BY <1>1 DEF IInv, ForwLinks, BackLinks, TailIsLast, HeadIsFirst, EmptyLog,
     Adjacent, UndoDisable
<1>4. (CursorPlace /\ TruncatePlace /\ FreeHeadPlace)'
  BY <1>1 DEF IInv, CursorPlace, TruncatePlace, FreeHeadPlace, UndoDisable
<1>5. PlayPlace'
  BY <1>1 DEF IInv, TypeOK, CursorPlace, PlayPlace, Playing, UndoDisable
<1>6. (CountPlace /\ NoEmptyCommand)'
  BY <1>1 DEF IInv, CountPlace, NoEmptyCommand, UndoDisable
<1>7. (LayoutMatchesLog /\ ForgottenIsOlder)'
  BY <1>1 DEF IInv, TypeOK, LayoutMatchesLog, ForgottenIsOlder, Shown,
     Playing, UndoDisable
<1> QED
  BY <1>2, <1>3, <1>4, <1>5, <1>6, <1>7 DEF IInv

LEMMA EnableIInv == IInv /\ UndoEnable => IInv'
<1> SUFFICES ASSUME IInv, UndoEnable PROVE IInv'
  OBVIOUS
<1>1. LogNodes' = LogNodes /\ Delims' = Delims /\ Events' = Events
  BY DEF IInv, UndoEnable, LogNodes, Delims, Events, Alive, Heap
<1>2. TypeOK'
  BY BoundsAssumption DEF IInv, TypeOK, UndoEnable, Heap
<1>3. (ForwLinks /\ BackLinks /\ TailIsLast /\ HeadIsFirst /\ EmptyLog)'
  BY <1>1 DEF IInv, ForwLinks, BackLinks, TailIsLast, HeadIsFirst, EmptyLog,
     Adjacent, UndoEnable
<1>4. (CursorPlace /\ TruncatePlace /\ FreeHeadPlace)'
  BY <1>1 DEF IInv, CursorPlace, TruncatePlace, FreeHeadPlace, UndoEnable
<1>5. PlayPlace'
  BY <1>1 DEF IInv, TypeOK, CursorPlace, PlayPlace, Playing, UndoEnable
<1>6. (CountPlace /\ NoEmptyCommand)'
  BY <1>1 DEF IInv, CountPlace, NoEmptyCommand, UndoEnable
<1>7. (LayoutMatchesLog /\ ForgottenIsOlder)'
  BY <1>1 DEF IInv, TypeOK, LayoutMatchesLog, ForgottenIsOlder, Shown,
     Playing, UndoEnable
<1> QED
  BY <1>2, <1>3, <1>4, <1>5, <1>6, <1>7 DEF IInv

LEMMA FlushIInv == IInv /\ UndoFlush => IInv'
<1> SUFFICES ASSUME IInv, UndoFlush PROVE IInv'
  OBVIOUS
<1>1. LogNodes' = LogNodes /\ Delims' = Delims /\ Events' = Events
  BY DEF IInv, UndoFlush, LogNodes, Delims, Events, Alive, Heap
<1>2. TypeOK'
  BY BoundsAssumption DEF IInv, TypeOK, UndoFlush, Heap
<1>3. (ForwLinks /\ BackLinks /\ TailIsLast /\ HeadIsFirst /\ EmptyLog)'
  BY <1>1 DEF IInv, ForwLinks, BackLinks, TailIsLast, HeadIsFirst, EmptyLog,
     Adjacent, UndoFlush
<1>4. (CursorPlace /\ TruncatePlace /\ FreeHeadPlace)'
  BY <1>1 DEF IInv, CursorPlace, TruncatePlace, FreeHeadPlace, UndoFlush
<1>5. PlayPlace'
  BY <1>1 DEF IInv, TypeOK, CursorPlace, PlayPlace, Playing, UndoFlush
<1>6. (CountPlace /\ NoEmptyCommand)'
  BY <1>1 DEF IInv, CountPlace, NoEmptyCommand, UndoFlush
<1>7. (LayoutMatchesLog /\ ForgottenIsOlder)'
  BY <1>1 DEF IInv, TypeOK, LayoutMatchesLog, ForgottenIsOlder, Shown,
     Playing, UndoFlush
<1> QED
  BY <1>2, <1>3, <1>4, <1>5, <1>6, <1>7 DEF IInv

LEMMA BackwardIInv ==
  ASSUME IInv, NEW k \in 1..MaxCount, UndoBackward(k),
         (undoNumRecentEvents = 0 /\ tested' = tested) \/ tested' = TRUE
  PROVE  IInv'
<1>1. LogNodes' = LogNodes /\ Delims' = Delims /\ Events' = Events
  BY DEF IInv, UndoBackward, LogNodes, Delims, Events, Alive, Heap
<1>2. TypeOK'
  <2>1. tested' \in BOOLEAN
    BY DEF IInv, TypeOK
  <2> QED
    BY <2>1, BoundsAssumption DEF IInv, TypeOK, UndoBackward, Heap, NothingRecent
<1>3. (ForwLinks /\ BackLinks /\ TailIsLast /\ HeadIsFirst /\ EmptyLog)'
  BY <1>1 DEF IInv, ForwLinks, BackLinks, TailIsLast, HeadIsFirst, EmptyLog,
     Adjacent, UndoBackward, NothingRecent
<1>4. (CursorPlace /\ TruncatePlace /\ FreeHeadPlace)'
  BY <1>1 DEF IInv, CursorPlace, TruncatePlace, FreeHeadPlace, UndoBackward, NothingRecent
<1>5. PlayPlace'
  BY <1>1 DEF IInv, TypeOK, CursorPlace, PlayPlace, Playing, UndoBackward, NothingRecent
<1>6. (CountPlace /\ NoEmptyCommand)'
  BY <1>1 DEF IInv, CountPlace, NoEmptyCommand, UndoBackward, NothingRecent
<1>7. (LayoutMatchesLog /\ ForgottenIsOlder)'
  BY <1>1 DEF IInv, TypeOK, LayoutMatchesLog, ForgottenIsOlder, Shown,
     Playing, UndoBackward, NothingRecent
<1> QED
  BY <1>2, <1>3, <1>4, <1>5, <1>6, <1>7 DEF IInv

LEMMA BackwardTestIInv == IInv /\ UndoBackwardTest => IInv'
<1> SUFFICES ASSUME IInv, UndoBackwardTest PROVE IInv'
  OBVIOUS
<1>1. LogNodes' = LogNodes /\ Delims' = Delims /\ Events' = Events
  BY DEF IInv, UndoBackwardTest, LogNodes, Delims, Events, Alive, Heap
<1>2. TypeOK'
  BY BoundsAssumption DEF IInv, TypeOK, UndoBackwardTest, Heap, MoreToUndo, PlayPlace
<1>3. (ForwLinks /\ BackLinks /\ TailIsLast /\ HeadIsFirst /\ EmptyLog)'
  BY <1>1 DEF IInv, ForwLinks, BackLinks, TailIsLast, HeadIsFirst, EmptyLog,
     Adjacent, UndoBackwardTest, MoreToUndo, PlayPlace
<1>4. (CursorPlace /\ TruncatePlace /\ FreeHeadPlace)'
  BY <1>1 DEF IInv, CursorPlace, TruncatePlace, FreeHeadPlace, UndoBackwardTest, MoreToUndo, PlayPlace
<1>5. PlayPlace'
  BY <1>1 DEF IInv, TypeOK, CursorPlace, PlayPlace, Playing, UndoBackwardTest, MoreToUndo, PlayPlace
<1>6. (CountPlace /\ NoEmptyCommand)'
  BY <1>1 DEF IInv, CountPlace, NoEmptyCommand, UndoBackwardTest, MoreToUndo, PlayPlace
<1>7. (LayoutMatchesLog /\ ForgottenIsOlder)'
  BY <1>1 DEF IInv, TypeOK, LayoutMatchesLog, ForgottenIsOlder, Shown,
     Playing, UndoBackwardTest, MoreToUndo, PlayPlace
<1> QED
  BY <1>2, <1>3, <1>4, <1>5, <1>6, <1>7 DEF IInv

LEMMA BackwardPlayIInv == IInv /\ UndoBackwardPlay => IInv'
<1> SUFFICES ASSUME IInv, UndoBackwardPlay PROVE IInv'
  OBVIOUS
<1>a. /\ iup \in LogNodes /\ iup \in Heap /\ iup # NULL /\ count < n
      /\ \/ iup' = NULL /\ \A r \in LogNodes : iup <= r
         \/ Adjacent(iup', iup)
  BY BackStep, LogPositive DEF IInv, PlayPlace, Rewiring, UndoBackwardPlay, undoGetBack,
     Back, Heap
<1>b. IsDelim(node, iup) <=> iup \in Delims
  BY <1>a DEF IsDelim, Delims, Heap
<1>c. iup' # NULL => iup' \in LogNodes /\ (IsDelim(node, iup') <=> iup' \in Delims)
  BY <1>a, LogPositive DEF IInv, IsDelim, Delims, Heap, Adjacent
<1>1. LogNodes' = LogNodes /\ Delims' = Delims /\ Events' = Events
  BY DEF IInv, UndoBackwardPlay, LogNodes, Delims, Events, Alive, Heap
<1>2. TypeOK'
  <2>1. iup' \in Pointer
    BY <1>a, LogPositive DEF IInv, Adjacent, Pointer
  <2>2. world' \subseteq 1..lastNode /\ count' \in 0..n /\ pc' \in {"back", "backTest"}
    <3>1. world' \subseteq 1..lastNode
      BY DEF IInv, TypeOK, UndoBackwardPlay, PlayedBack
    <3>2. count' \in 0..n /\ pc' \in {"back", "backTest"}
      BY <1>a, BoundsAssumption DEF IInv, TypeOK, UndoBackwardPlay
    <3> QED
      BY <3>1, <3>2
  <2> QED
    BY <2>1, <2>2 DEF IInv, TypeOK, UndoBackwardPlay, Heap
<1>3. (ForwLinks /\ BackLinks /\ TailIsLast /\ HeadIsFirst /\ EmptyLog)'
  BY <1>1 DEF IInv, ForwLinks, BackLinks, TailIsLast, HeadIsFirst, EmptyLog,
     Adjacent, UndoBackwardPlay, PlayedBack, undoGetBack, Back, IsDelim
<1>4. (CursorPlace /\ TruncatePlace /\ FreeHeadPlace)'
  BY <1>1 DEF IInv, CursorPlace, TruncatePlace, FreeHeadPlace, UndoBackwardPlay, PlayedBack, undoGetBack, Back, IsDelim
<1>5. PlayPlace'
  BY <1>1, <1>a, <1>c DEF IInv, TypeOK, PlayPlace, Playing, UndoBackwardPlay, Adjacent
<1>6. (CountPlace /\ NoEmptyCommand)'
  BY <1>1 DEF IInv, CountPlace, NoEmptyCommand, UndoBackwardPlay, PlayedBack, undoGetBack, Back, IsDelim
<1>7. (LayoutMatchesLog /\ ForgottenIsOlder)'
  <2>1. \A e \in Events : e \in Nat /\ (e <= iup' <=> e <= iup /\ e # iup)
    BY <1>a, LogPositive DEF IInv, Adjacent, Events
  <2>2. world' = world \ {iup} \/ (world' = world /\ iup \notin Events)
    BY <1>b DEF UndoBackwardPlay, PlayedBack, Events
  <2> QED
    BY <1>1, <2>1, <2>2 DEF IInv, LayoutMatchesLog, ForgottenIsOlder, Shown, Playing,
       UndoBackwardPlay
<1> QED
  BY <1>2, <1>3, <1>4, <1>5, <1>6, <1>7 DEF IInv

LEMMA BackwardEndIInv == IInv /\ UndoBackwardEnd => IInv'
<1> SUFFICES ASSUME IInv, UndoBackwardEnd PROVE IInv'
  OBVIOUS
<1>a. iup \in LogNodes \cup {NULL} /\ (iup # NULL /\ iup # undoLogTail => iup \in Delims)
      /\ pc = "backTest" /\ UndoDisableCount > 0
  BY DEF IInv, PlayPlace, Playing, UndoBackwardEnd
<1>1. LogNodes' = LogNodes /\ Delims' = Delims /\ Events' = Events
  BY DEF IInv, UndoBackwardEnd, LogNodes, Delims, Events, Alive, Heap
<1>2. TypeOK'
  BY <1>a, BoundsAssumption DEF IInv, TypeOK, UndoBackwardEnd, Heap, Pointer
<1>3. (ForwLinks /\ BackLinks /\ TailIsLast /\ HeadIsFirst /\ EmptyLog)'
  BY <1>1, <1>a, LogPositive DEF IInv, ForwLinks, BackLinks, TailIsLast, HeadIsFirst,
     EmptyLog, Adjacent, UndoBackwardEnd
<1>4. (CursorPlace /\ TruncatePlace /\ FreeHeadPlace)'
  BY <1>1, <1>a DEF IInv, CursorPlace, TruncatePlace, FreeHeadPlace, UndoBackwardEnd
<1>5. PlayPlace'
  BY <1>1 DEF IInv, TypeOK, CursorPlace, PlayPlace, Playing, UndoBackwardEnd, MoreToUndo
<1>6. (CountPlace /\ NoEmptyCommand)'
  BY <1>1 DEF IInv, CountPlace, NoEmptyCommand, UndoBackwardEnd, MoreToUndo
<1>7. (LayoutMatchesLog /\ ForgottenIsOlder)'
  BY <1>1 DEF IInv, TypeOK, LayoutMatchesLog, ForgottenIsOlder, Shown,
     Playing, UndoBackwardEnd, MoreToUndo
<1> QED
  BY <1>2, <1>3, <1>4, <1>5, <1>6, <1>7 DEF IInv

LEMMA ForwardIInv ==
  ASSUME IInv, NEW k \in 1..MaxCount, UndoForward(k)
  PROVE  IInv'
<1>a. /\ iup' \in LogNodes /\ undoNumRecentEvents = 0 /\ pc = "idle"
      /\ \A r \in LogNodes : r <= undoLogCur <=> r < iup'
  <2>1. CASE undoLogCur = NULL
    BY <2>1, LogPositive DEF IInv, UndoForward, undoGetForw, HeadIsFirst, EmptyLog, CursorPlace
  <2>2. CASE undoLogCur # NULL
    <3>1. undoLogCur \in LogNodes /\ iup' = node[undoLogCur].forw
      BY <2>2, LogPositive DEF IInv, UndoForward, undoGetForw, Forw, CursorPlace, Heap
    <3>2. Adjacent(undoLogCur, iup')
      BY <3>1, ForwStep DEF IInv, UndoForward, Rewiring
    <3>3. undoLogCur # undoLogTail
      BY <3>1, <3>2, LogPositive DEF IInv, Adjacent, TailIsLast, UndoForward
    <3> QED
      BY <2>2, <3>1, <3>2, <3>3, LogPositive DEF IInv, Adjacent, CursorPlace, UndoForward
  <2> QED
    BY <2>1, <2>2
<1>1. LogNodes' = LogNodes /\ Delims' = Delims /\ Events' = Events
  BY DEF IInv, UndoForward, LogNodes, Delims, Events, Alive, Heap
<1>2. TypeOK'
  BY <1>a, LogPositive, BoundsAssumption DEF IInv, TypeOK, UndoForward, NothingRecent, Heap, Pointer
<1>3. (ForwLinks /\ BackLinks /\ TailIsLast /\ HeadIsFirst /\ EmptyLog)'
  BY <1>1, <1>a DEF IInv, ForwLinks, BackLinks, TailIsLast, HeadIsFirst,
     EmptyLog, Adjacent, UndoForward
<1>4. (CursorPlace /\ TruncatePlace /\ FreeHeadPlace)'
  BY <1>1, <1>a DEF IInv, CursorPlace, TruncatePlace, FreeHeadPlace, UndoForward, NothingRecent
<1>5. PlayPlace'
  BY <1>1, <1>a DEF IInv, TypeOK, PlayPlace, Playing, UndoForward
<1>6. (CountPlace /\ NoEmptyCommand)'
  BY <1>1 DEF IInv, CountPlace, NoEmptyCommand, UndoForward, NothingRecent
<1>7. (LayoutMatchesLog /\ ForgottenIsOlder)'
  BY <1>1, <1>a DEF IInv, LayoutMatchesLog, ForgottenIsOlder, Shown, Playing, UndoForward, Events
<1> QED
  BY <1>2, <1>3, <1>4, <1>5, <1>6, <1>7 DEF IInv

LEMMA ForwardTestIInv == IInv /\ UndoForwardTest => IInv'
<1> SUFFICES ASSUME IInv, UndoForwardTest PROVE IInv'
  OBVIOUS
<1>1. LogNodes' = LogNodes /\ Delims' = Delims /\ Events' = Events
  BY DEF IInv, UndoForwardTest, LogNodes, Delims, Events, Alive, Heap
<1>2. TypeOK'
  BY BoundsAssumption DEF IInv, TypeOK, UndoForwardTest, Heap
<1>3. (ForwLinks /\ BackLinks /\ TailIsLast /\ HeadIsFirst /\ EmptyLog)'
  BY <1>1 DEF IInv, ForwLinks, BackLinks, TailIsLast, HeadIsFirst, EmptyLog,
     Adjacent, UndoForwardTest
<1>4. (CursorPlace /\ TruncatePlace /\ FreeHeadPlace)'
  BY <1>1 DEF IInv, CursorPlace, TruncatePlace, FreeHeadPlace, UndoForwardTest
<1>5. PlayPlace'
  BY <1>1 DEF IInv, TypeOK, CursorPlace, PlayPlace, Playing, UndoForwardTest
<1>6. (CountPlace /\ NoEmptyCommand)'
  BY <1>1 DEF IInv, CountPlace, NoEmptyCommand, UndoForwardTest
<1>7. (LayoutMatchesLog /\ ForgottenIsOlder)'
  BY <1>1 DEF IInv, TypeOK, LayoutMatchesLog, ForgottenIsOlder, Shown,
     Playing, UndoForwardTest
<1> QED
  BY <1>2, <1>3, <1>4, <1>5, <1>6, <1>7 DEF IInv

LEMMA ForwardPlayIInv == IInv /\ UndoForwardPlay => IInv'
<1> SUFFICES ASSUME IInv, UndoForwardPlay PROVE IInv'
  OBVIOUS
<1>a. /\ iup \in LogNodes /\ iup \in Heap /\ iup # NULL /\ count < n
  BY LogPositive DEF IInv, PlayPlace, UndoForwardPlay
<1>b. IsDelim(node, iup) <=> iup \in Delims
  BY <1>a DEF IsDelim, Delims, Heap
<1>c. \/ /\ Adjacent(iup, iup') /\ pc' = "forw" /\ count' = count
      \/ /\ Adjacent(iup, iup') /\ pc' = "forwTest" /\ count' = count + 1
         /\ iup' \in Delims
      \/ /\ iup = undoLogTail /\ iup' = iup /\ pc' = "forwBreak" /\ count' = count
         /\ \A r \in LogNodes : r <= iup
  BY <1>a, ForwStep, LogPositive DEF IInv, UndoForwardPlay, undoGetForw, Forw, RunOffLog,
     IsDelim, Delims, Adjacent, Rewiring, Heap
<1>1. LogNodes' = LogNodes /\ Delims' = Delims /\ Events' = Events
  BY DEF IInv, UndoForwardPlay, LogNodes, Delims, Events, Alive, Heap
<1>2. TypeOK'
  BY <1>a, <1>c, LogPositive, BoundsAssumption DEF IInv, TypeOK, UndoForwardPlay, Heap,
     Adjacent, Pointer
<1>3. (ForwLinks /\ BackLinks /\ TailIsLast /\ HeadIsFirst /\ EmptyLog)'
  BY <1>1 DEF IInv, ForwLinks, BackLinks, TailIsLast, HeadIsFirst, EmptyLog,
     Adjacent, UndoForwardPlay, undoGetForw, Forw, RunOffLog, IsDelim
<1>4. (CursorPlace /\ TruncatePlace /\ FreeHeadPlace)'
  BY <1>1 DEF IInv, CursorPlace, TruncatePlace, FreeHeadPlace, UndoForwardPlay, undoGetForw, Forw, RunOffLog, IsDelim
<1>5. PlayPlace'
  BY <1>1, <1>a, <1>c DEF IInv, TypeOK, PlayPlace, Playing, UndoForwardPlay, Adjacent
<1>6. (CountPlace /\ NoEmptyCommand)'
  BY <1>1 DEF IInv, CountPlace, NoEmptyCommand, UndoForwardPlay, undoGetForw, Forw, RunOffLog, IsDelim
<1>7. (LayoutMatchesLog /\ ForgottenIsOlder)'
  <2>1. \A e \in Events : e \in Nat /\ (pc' # "forwBreak" => (e < iup' <=> e < iup \/ e = iup))
    BY <1>a, <1>c, LogPositive DEF IInv, Adjacent, Events
  <2>2. world' = world \cup {iup} \/ (world' = world /\ iup \notin Events)
    BY <1>b DEF UndoForwardPlay, Events
  <2>3. iup \notin Events => world' = world
    BY <1>a, <1>b DEF UndoForwardPlay, Events
  <2>4. LayoutMatchesLog'
    BY <1>1, <1>a, <1>c, <2>1, <2>2, LogPositive DEF IInv, LayoutMatchesLog, Shown, Playing,
       UndoForwardPlay, Events
  <2>5. ForgottenIsOlder'
    BY <1>1, <1>c, <2>2, <2>3 DEF IInv, ForgottenIsOlder, UndoForwardPlay
  <2> QED
    BY <2>4, <2>5
<1> QED
  BY <1>2, <1>3, <1>4, <1>5, <1>6, <1>7 DEF IInv

LEMMA ForwardEndIInv == IInv /\ UndoForwardEnd => IInv'
<1> SUFFICES ASSUME IInv, UndoForwardEnd PROVE IInv'
  OBVIOUS
<1>a. /\ iup \in LogNodes /\ (iup # undoLogTail => iup \in Delims) /\ UndoDisableCount > 0
      /\ pc = "forwBreak" => iup = undoLogTail /\ \A r \in LogNodes : r <= iup
      /\ pc = "forwTest" => iup \in Delims
  BY DEF IInv, TypeOK, PlayPlace, Playing, UndoForwardEnd, TailIsLast
<1>1. LogNodes' = LogNodes /\ Delims' = Delims /\ Events' = Events
  BY DEF IInv, UndoForwardEnd, LogNodes, Delims, Events, Alive, Heap
<1>2. TypeOK'
  BY <1>a, LogPositive, BoundsAssumption DEF IInv, TypeOK, UndoForwardEnd, Heap, Pointer
<1>3. (ForwLinks /\ BackLinks /\ TailIsLast /\ HeadIsFirst /\ EmptyLog)'
  BY <1>1, <1>a DEF IInv, ForwLinks, BackLinks, TailIsLast, HeadIsFirst,
     EmptyLog, Adjacent, UndoForwardEnd
<1>4. (CursorPlace /\ TruncatePlace /\ FreeHeadPlace)'
  BY <1>1, <1>a, LogPositive DEF IInv, CursorPlace, TruncatePlace, FreeHeadPlace, UndoForwardEnd
<1>5. PlayPlace'
  BY <1>1 DEF IInv, TypeOK, CursorPlace, PlayPlace, Playing, UndoForwardEnd
<1>6. (CountPlace /\ NoEmptyCommand)'
  BY <1>1 DEF IInv, CountPlace, NoEmptyCommand, UndoForwardEnd
<1>7. (LayoutMatchesLog /\ ForgottenIsOlder)'
  BY <1>1, <1>a, LogPositive DEF IInv, LayoutMatchesLog, ForgottenIsOlder, Shown, Playing,
     UndoForwardEnd, Events
<1> QED
  BY <1>2, <1>3, <1>4, <1>5, <1>6, <1>7 DEF IInv

\* Allocating a block leaves every other block of the log as it was.
LEMMA NewEventIInv == IInv /\ UndoNewEvent => IInv'
<1> SUFFICES ASSUME IInv, UndoNewEvent PROVE IInv'
  OBVIOUS
<1> DEFINE new == lastNode + 1
<1>a. /\ new \in Nat /\ new > 0 /\ pc = "idle" /\ pc' \in {"truncate", "link"}
      /\ iup' = new /\ new \notin Heap /\ \A p \in LogNodes : p < new
      /\ LogNodes = Heap \ {freeDelayedItem}
  BY LogPositive, BoundsAssumption DEF IInv, TypeOK, UndoNewEvent, LogNodes, Alive
<1>b. Heap' = LogNodes \cup {new} /\ Alive' = LogNodes \cup {new}
  BY <1>a, LogPositive DEF IInv, UndoNewEvent, mallocMagic, Alive, Heap
<1>c. /\ \A p \in LogNodes : node'[p] = node[p]
      /\ node'[new] = [type |-> CLIENT, back |-> undoLogCur, forw |-> NULL]
  BY <1>a DEF UndoNewEvent, mallocMagic
<1>1. LogNodes' = LogNodes /\ Delims' = Delims /\ Events' = Events
  <2>1. LogNodes' = LogNodes
    BY <1>a, <1>b DEF LogNodes
  <2> QED
    BY <1>c, <2>1 DEF Delims, Events
<1>d. /\ up' \in LogNodes \cup {NULL}
      /\ up' # NULL => /\ undoNumRecentEvents = 0 /\ undoLogCur < up'
                       /\ \A p \in LogNodes : p <= undoLogCur \/ up' <= p
                       /\ undoLogCur # NULL => undoLogCur \in Delims
      /\ up' = NULL => IF undoLogCur = NULL THEN LogNodes = {} ELSE undoLogCur = undoLogTail
  <2>1. CASE undoLogCur = NULL
    BY <1>a, <2>1, LogPositive DEF IInv, UndoNewEvent, undoGetForw, HeadIsFirst, EmptyLog,
       CursorPlace
  <2>2. CASE undoLogCur # NULL
    <3>1. undoLogCur \in LogNodes /\ up' = node[undoLogCur].forw
      BY <1>a, <2>2, LogPositive DEF IInv, UndoNewEvent, undoGetForw, Forw, CursorPlace, Heap
    <3>2. \/ up' = NULL /\ undoLogCur = undoLogTail
          \/ Adjacent(undoLogCur, up')
      BY <1>a, <3>1, ForwStep DEF IInv, Rewiring
    <3>3. up' # NULL => undoLogCur # undoLogTail
      BY <1>a, <3>1, <3>2, LogPositive DEF IInv, Adjacent, TailIsLast
    <3> QED
      BY <1>a, <2>2, <3>1, <3>2, <3>3, LogPositive DEF IInv, Adjacent, CursorPlace
  <2> QED
    BY <2>1, <2>2
<1>2. TypeOK'
  <2>1. node' \in [Heap' -> Event]
    <3>1. node'[new] \in Event
      BY <1>c, LogPositive DEF IInv, TypeOK, Event, Pointer
    <3>2. \A p \in Heap' : node'[p] \in Event
      BY <1>b, <1>c, <3>1, LogPositive DEF IInv
    <3> QED
      BY <3>2 DEF UndoNewEvent, mallocMagic, Heap
  <2>2. Heap' \subseteq 1..lastNode' /\ lastNode' \in 0..MaxNode /\ world' \subseteq 1..lastNode'
    BY <1>a, <1>b, LogPositive, BoundsAssumption DEF IInv, TypeOK, UndoNewEvent
  <2>3. {undoLogHead, undoLogTail, undoLogCur, iup, up}' \subseteq Pointer
    BY <1>a, <1>d, LogPositive DEF IInv, TypeOK, UndoNewEvent, Pointer
  <2> QED
    BY <1>a, <2>1, <2>2, <2>3 DEF IInv, TypeOK, UndoNewEvent
<1>3. (ForwLinks /\ BackLinks /\ TailIsLast /\ HeadIsFirst /\ EmptyLog)'
  BY <1>1, <1>a, <1>c, <1>d DEF IInv, ForwLinks, BackLinks, TailIsLast, HeadIsFirst, EmptyLog,
     Adjacent, UndoNewEvent
<1>4. (CursorPlace /\ TruncatePlace /\ FreeHeadPlace)'
  <2>1. CursorPlace'
    BY <1>1, <1>a, <1>d DEF IInv, CursorPlace, UndoNewEvent
  <2>2. TruncatePlace'
    BY <1>1, <1>a, <1>b, <1>c, <1>d DEF IInv, TypeOK, TruncatePlace, UndoNewEvent
  <2> QED
    BY <1>a, <2>1, <2>2 DEF FreeHeadPlace
<1>5. PlayPlace'
  BY <1>a DEF PlayPlace, Playing
<1>6. (CountPlace /\ NoEmptyCommand)'
  BY <1>1, <1>a, <1>c DEF IInv, CountPlace, NoEmptyCommand, UndoNewEvent, Delims
<1>7. (LayoutMatchesLog /\ ForgottenIsOlder)'
  BY <1>1, <1>a DEF IInv, LayoutMatchesLog, ForgottenIsOlder, Shown, Playing, UndoNewEvent
<1> QED
  BY <1>2, <1>3, <1>4, <1>5, <1>6, <1>7 DEF IInv

LEMMA LogIsFinite ==
  ASSUME TypeOK
  PROVE  IsFiniteSet(LogNodes) /\ IsFiniteSet(Delims)
<1>1. IsFiniteSet(1..lastNode)
  BY FS_Interval, BoundsAssumption DEF TypeOK
<1>2. LogNodes \subseteq 1..lastNode /\ Delims \subseteq 1..lastNode
  BY LogPositive DEF Delims
<1> QED
  BY <1>1, <1>2, FS_Subset

\* freeMagic one call late: the node freed now is still there to be read.
LEMMA FreeMagicStep ==
  ASSUME TypeOK, NEW q \in Alive, node' = freeMagic(q), freeDelayedItem' = q
  PROVE  /\ Heap' = Alive /\ Alive' = Alive \ {q}
         /\ node' \in [Heap' -> Event] /\ \A p \in Alive : node'[p] = node[p]
<1>1. Heap' = Alive /\ \A p \in Alive : node'[p] = node[p]
  BY DEF freeMagic, Reclaimed, Alive, Heap
<1>2. node' \in [Heap' -> Event]
  BY <1>1, LogPositive DEF freeMagic, Reclaimed, Alive, Heap
<1> QED
  BY <1>1, <1>2 DEF Alive

LEMMA TruncateLoopIInv == IInv /\ undoMemTruncateLoop => IInv'
<1> SUFFICES ASSUME IInv, undoMemTruncateLoop PROVE IInv'
  OBVIOUS
<1>a. /\ pc = "truncate" /\ pc' = "truncate" /\ up \in LogNodes /\ up # iup
      /\ undoLogCur < up /\ undoLogCur \in LogNodes \cup {NULL}
      /\ \A p \in LogNodes : p <= undoLogCur \/ up <= p
      /\ up \in Alive /\ iup \in Alive
  BY LogPositive DEF IInv, TruncatePlace, CursorPlace, undoMemTruncateLoop, LogNodes
<1>b. /\ Heap' = Alive /\ Alive' = Alive \ {up}
      /\ node' \in [Heap' -> Event] /\ \A p \in Alive : node'[p] = node[p]
  BY <1>a, FreeMagicStep DEF IInv, undoMemTruncateLoop
<1>1. /\ LogNodes' = LogNodes \ {up} /\ Delims' = Delims \ {up} /\ Events' = Events \ {up}
  <2>1. LogNodes' = LogNodes \ {up}
    BY <1>a, <1>b DEF LogNodes, undoMemTruncateLoop
  <2> QED
    BY <1>b, <2>1 DEF Delims, Events, LogNodes
<1>c. \/ up' = NULL /\ up = undoLogTail /\ \A r \in LogNodes : r <= up
      \/ Adjacent(up, up') /\ up # undoLogTail
  <2>1. up' = node[up].forw
    BY <1>a, <1>b DEF undoMemTruncateLoop, Forw, Heap
  <2> QED
    BY <1>a, <2>1, LogPositive DEF IInv, TailIsLast, ForwLinks, Adjacent
<1>d. CommandsFreedWith(up) = IF undoLogCur # NULL /\ up \in Delims THEN 1 ELSE 0
  BY <1>a, LogPositive DEF IInv, CommandsFreedWith, IsDelim, Delims, Heap
<1>e. /\ undoNumCommands' \in Nat /\ undoNumCommands' <= MAXCOMMANDS
      /\ undoLogCur # NULL => undoNumCommands' = Cardinality(Delims')
  <2>1. CASE undoLogCur # NULL /\ up \in Delims
    <3>1. undoNumCommands = Cardinality(Delims) /\ undoNumCommands' = undoNumCommands - 1
      BY <1>a, <1>d, <2>1 DEF IInv, CountPlace, undoMemTruncateLoop
    <3>2. Cardinality(Delims') = Cardinality(Delims) - 1 /\ Cardinality(Delims') \in Nat
      <4>1. IsFiniteSet(Delims) /\ IsFiniteSet(Delims \ {up})
        BY LogIsFinite, FS_RemoveElement DEF IInv
      <4> QED
        BY <1>1, <2>1, <4>1, FS_RemoveElement, FS_CardinalityType
    <3> QED
      BY <1>a, <3>1, <3>2, LimitsAssumption DEF IInv, TypeOK, CountPlace, undoMemTruncateLoop
  <2>2. CASE ~(undoLogCur # NULL /\ up \in Delims)
    <3>1. undoNumCommands' = undoNumCommands
      BY <1>d, <2>2 DEF IInv, TypeOK, undoMemTruncateLoop
    <3>2. undoLogCur # NULL => Delims' = Delims
      BY <1>1, <2>2
    <3> QED
      BY <1>a, <3>1, <3>2 DEF IInv, TypeOK, CountPlace
  <2> QED
    BY <2>1, <2>2
<1>2. TypeOK'
  <2>1. up' \in Pointer
    BY <1>c, LogPositive DEF IInv, Adjacent, Pointer
  <2> QED
    BY <1>a, <1>b, <1>e, <2>1, LogPositive DEF IInv, TypeOK, undoMemTruncateLoop, Alive
<1>3. (ForwLinks /\ BackLinks /\ TailIsLast /\ HeadIsFirst /\ EmptyLog)'
  <2>1. ForwLinks'
    BY <1>1, <1>a, <1>b, LogPositive DEF IInv, ForwLinks, Adjacent, undoMemTruncateLoop, LogNodes
  <2>2. BackLinks'
    BY <1>1, <1>a, <1>b, <1>c, LogPositive DEF IInv, BackLinks, Adjacent, undoMemTruncateLoop,
       LogNodes
  <2>3. TailIsLast' /\ HeadIsFirst' /\ EmptyLog'
    BY <1>1, <1>a, <1>b, <1>c, LogPositive DEF IInv, TailIsLast, HeadIsFirst, EmptyLog,
       undoMemTruncateLoop, LogNodes, Adjacent
  <2> QED
    BY <2>1, <2>2, <2>3
<1>4. (CursorPlace /\ TruncatePlace /\ FreeHeadPlace)'
  <2>1. CursorPlace'
    BY <1>1, <1>a, <1>c, LogPositive DEF IInv, CursorPlace, TruncatePlace, undoMemTruncateLoop,
       Adjacent
  <2>2. TruncatePlace'
    BY <1>1, <1>a, <1>b, <1>c, LogPositive DEF IInv, TruncatePlace, undoMemTruncateLoop, Adjacent
  <2> QED
    BY <1>a, <2>1, <2>2 DEF FreeHeadPlace
<1>5. PlayPlace'
  BY <1>a DEF PlayPlace, Playing
<1>6. (CountPlace /\ NoEmptyCommand)'
  <2>1. NoEmptyCommand'
    BY <1>1, <1>a, <1>b, LogPositive DEF IInv, NoEmptyCommand, undoMemTruncateLoop, Delims,
       LogNodes
  <2> QED
    BY <1>a, <1>e, <2>1 DEF IInv, CountPlace, undoMemTruncateLoop
<1>7. (LayoutMatchesLog /\ ForgottenIsOlder)'
  <2>1. up \notin world
    BY <1>a, LogPositive DEF IInv, LayoutMatchesLog, ForgottenIsOlder, Shown, Playing, Events
  <2> QED
    BY <1>1, <1>a, <2>1 DEF IInv, LayoutMatchesLog, ForgottenIsOlder, Shown, Playing,
       undoMemTruncateLoop
<1> QED
  BY <1>2, <1>3, <1>4, <1>5, <1>6, <1>7 DEF IInv

LEMMA TruncateEndIInv == IInv /\ undoMemTruncateEnd => IInv'
<1> SUFFICES ASSUME IInv, undoMemTruncateEnd PROVE IInv'
  OBVIOUS
<1>a. /\ pc = "truncate" /\ pc' = "link" /\ up = NULL
      /\ undoLogCur \in LogNodes \cup {NULL} /\ undoLogCur' = undoLogCur
      /\ undoLogCur \in Heap \cup {NULL}
      /\ \A p \in LogNodes : p <= undoLogCur
      /\ undoLogCur = NULL => LogNodes = {}
      /\ iup \in Alive /\ iup \notin LogNodes /\ iup' = iup
  BY LogPositive DEF IInv, TruncatePlace, CursorPlace, undoMemTruncateEnd, LogNodes
<1>b. /\ Heap' = Heap /\ Alive' = Alive /\ node' \in [Heap -> Event]
      /\ \A p \in Heap : /\ p # undoLogCur => node'[p] = node[p]
                         /\ node'[p].type = node[p].type /\ node'[p].back = node[p].back
      /\ undoLogCur # NULL => node'[undoLogCur].forw = NULL
  <2>1. CASE undoLogCur = NULL
    <3>1. node' = node /\ freeDelayedItem' = freeDelayedItem
      BY <2>1 DEF undoMemTruncateEnd
    <3> QED
      BY <2>1, <3>1 DEF IInv, TypeOK, Heap, Alive
  <2>2. CASE undoLogCur # NULL
    <3>1. /\ node' = [node EXCEPT ![undoLogCur].forw = NULL]
          /\ freeDelayedItem' = freeDelayedItem /\ undoLogCur \in Heap
      BY <1>a, <2>2 DEF undoMemTruncateEnd
    <3> QED
      BY <3>1 DEF IInv, TypeOK, Heap, Alive, Event, Pointer
  <2> QED
    BY <2>1, <2>2
<1>1. LogNodes' = LogNodes /\ Delims' = Delims /\ Events' = Events
  BY <1>a, <1>b DEF LogNodes, Delims, Events, Alive
<1>c. /\ undoLogCur # NULL => undoLogTail' = undoLogCur /\ undoLogHead' = undoLogHead
                              /\ undoNumCommands' = undoNumCommands
      /\ undoLogCur = NULL => undoLogTail' = NULL /\ undoLogHead' = NULL /\ undoNumCommands' = 0
      /\ freeDelayedItem' = freeDelayedItem /\ lastNode' = lastNode
  BY DEF undoMemTruncateEnd
<1>2. TypeOK'
  BY <1>a, <1>b, <1>c, LogPositive DEF IInv, TypeOK, undoMemTruncateEnd, Pointer
<1>3. (ForwLinks /\ BackLinks /\ TailIsLast /\ HeadIsFirst /\ EmptyLog)'
  <2>1. ForwLinks'
    BY <1>1, <1>a, <1>b, <1>c, LogPositive DEF IInv, ForwLinks, TruncatePlace, Adjacent
  <2>2. BackLinks'
    BY <1>1, <1>a, <1>b, <1>c, LogPositive DEF IInv, BackLinks, Adjacent
  <2>3. (TailIsLast /\ HeadIsFirst /\ EmptyLog)'
    BY <1>1, <1>a, <1>b, <1>c, LogPositive DEF IInv, TailIsLast, HeadIsFirst, EmptyLog
  <2> QED
    BY <2>1, <2>2, <2>3
<1>4. (CursorPlace /\ TruncatePlace /\ FreeHeadPlace)'
  <2>1. CursorPlace'
    BY <1>1, <1>a, <1>c DEF IInv, CursorPlace, TruncatePlace, undoMemTruncateEnd
  <2>2. TruncatePlace'
    <3>1. iup # undoLogCur /\ node'[iup] = node[iup]
      BY <1>a, <1>b, LogPositive DEF IInv, Alive
    <3> QED
      BY <1>1, <1>a, <1>b, <1>c, <3>1 DEF IInv, TruncatePlace, undoMemTruncateEnd
  <2> QED
    BY <1>a, <2>1, <2>2 DEF FreeHeadPlace
<1>5. PlayPlace'
  BY <1>a DEF PlayPlace, Playing
<1>6. (CountPlace /\ NoEmptyCommand)'
  <2>1. undoLogCur = NULL => Delims = {} /\ Cardinality(Delims) = 0
    BY <1>a, FS_EmptySet DEF Delims
  <2>2. CountPlace'
    BY <1>1, <1>a, <1>c, <2>1, LimitsAssumption DEF IInv, CountPlace
  <2>3. NoEmptyCommand'
    BY <1>1, <1>a, <1>b, <1>c, <2>1, LogPositive DEF IInv, NoEmptyCommand, Delims
  <2> QED
    BY <2>2, <2>3
<1>7. (LayoutMatchesLog /\ ForgottenIsOlder)'
  BY <1>1, <1>a, <1>c DEF IInv, LayoutMatchesLog, ForgottenIsOlder, Shown, Playing,
     undoMemTruncateEnd
<1> QED
  BY <1>2, <1>3, <1>4, <1>5, <1>6, <1>7 DEF IInv

LEMMA LinkIInv == IInv /\ UndoNewEventLink => IInv'
<1> SUFFICES ASSUME IInv, UndoNewEventLink PROVE IInv'
  OBVIOUS
<1>a. /\ pc = "link" /\ pc' = "idle" /\ iup \in Alive /\ iup \notin LogNodes /\ iup = lastNode
      /\ node[iup] = [type |-> CLIENT, back |-> undoLogCur, forw |-> NULL]
      /\ iup \in Heap /\ iup \in Nat /\ iup > 0 /\ iup \notin world
      /\ \A p \in LogNodes : p < iup
      /\ undoLogCur # NULL => undoLogCur \in LogNodes /\ undoLogCur = undoLogTail
      /\ undoLogCur = NULL => LogNodes = {}
      /\ undoLogCur' = iup /\ undoLogTail' = iup /\ world' = world \cup {iup}
      /\ undoNumRecentEvents' > 0 /\ undoNumRecentEvents' \in Nat
  BY LogPositive DEF IInv, TypeOK, TruncatePlace, CursorPlace, UndoNewEventLink, LogNodes, Alive
<1>b. /\ Heap' = Heap /\ Alive' = Alive /\ node' \in [Heap -> Event]
      /\ \A p \in Heap : /\ p # undoLogCur => node'[p] = node[p]
                         /\ node'[p].type = node[p].type /\ node'[p].back = node[p].back
      /\ undoLogCur # NULL => node'[undoLogCur].forw = iup /\ undoLogHead' = undoLogHead
      /\ undoLogCur = NULL => undoLogHead' = iup
  <2>1. CASE undoLogCur = NULL
    <3>1. node' = node /\ freeDelayedItem' = freeDelayedItem /\ undoLogHead' = iup
      BY <2>1 DEF UndoNewEventLink
    <3> QED
      BY <2>1, <3>1 DEF IInv, TypeOK, Heap, Alive
  <2>2. CASE undoLogCur # NULL
    <3>1. /\ node' = [node EXCEPT ![undoLogCur].forw = iup] /\ undoLogHead' = undoLogHead
          /\ freeDelayedItem' = freeDelayedItem /\ undoLogCur \in Heap
      BY <1>a, <2>2, LogPositive DEF IInv, UndoNewEventLink
    <3> QED
      BY <1>a, <2>2, <3>1 DEF IInv, TypeOK, Heap, Alive, Event, Pointer
  <2> QED
    BY <2>1, <2>2
<1>1. LogNodes' = LogNodes \cup {iup} /\ Delims' = Delims /\ Events' = Events \cup {iup}
  <2>1. LogNodes' = LogNodes \cup {iup}
    BY <1>a, <1>b DEF LogNodes
  <2>2. node'[iup].type = CLIENT
    BY <1>a, <1>b
  <2>3. Delims' = Delims
    BY <1>b, <2>1, <2>2, LogPositive DEF IInv, Delims, CLIENT, UT_DELIM
  <2> QED
    BY <1>a, <2>1, <2>3 DEF Events, Delims
<1>2. TypeOK'
  BY <1>a, <1>b, LogPositive DEF IInv, TypeOK, UndoNewEventLink, Pointer
<1>3. (ForwLinks /\ BackLinks /\ TailIsLast /\ HeadIsFirst /\ EmptyLog)'
  <2>1. ForwLinks'
    BY <1>1, <1>a, <1>b, LogPositive DEF IInv, ForwLinks, TailIsLast, Adjacent
  <2>2. BackLinks'
    BY <1>1, <1>a, <1>b, LogPositive DEF IInv, BackLinks, TailIsLast, Adjacent
  <2>3. (TailIsLast /\ HeadIsFirst /\ EmptyLog)'
    BY <1>1, <1>a, <1>b, LogPositive DEF IInv, TailIsLast, HeadIsFirst, EmptyLog
  <2> QED
    BY <2>1, <2>2, <2>3
<1>4. (CursorPlace /\ TruncatePlace /\ FreeHeadPlace /\ PlayPlace)'
  BY <1>1, <1>a DEF CursorPlace, TruncatePlace, FreeHeadPlace, PlayPlace, Playing
<1>6. (CountPlace /\ NoEmptyCommand)'
  <2>1. CountPlace'
    BY <1>1, <1>a DEF IInv, CountPlace, UndoNewEventLink
  <2>2. NoEmptyCommand'
    BY <1>1, <1>a, <1>b, LogPositive DEF IInv, NoEmptyCommand, Delims
  <2> QED
    BY <2>1, <2>2
<1>7. (LayoutMatchesLog /\ ForgottenIsOlder)'
  <2>1. \A e \in Events : e \in world /\ e \in Nat /\ e <= iup
    BY <1>a, LogPositive DEF IInv, LayoutMatchesLog, Shown, Playing, TailIsLast, Events
  <2>2. LayoutMatchesLog'
    BY <1>1, <1>a, <2>1 DEF LayoutMatchesLog, Shown, Playing
  <2>3. ForgottenIsOlder'
    BY <1>1, <1>a, <2>1 DEF IInv, TypeOK, ForgottenIsOlder
  <2> QED
    BY <2>2, <2>3
<1> QED
  BY <1>2, <1>3, <1>4, <1>6, <1>7 DEF IInv

\* The delimiter is counted when it is linked; the head is no delimiter, so
\* leaving it out of the count while old commands are freed changes nothing.
LEMMA NextIInv == IInv /\ UndoNext => IInv'
<1> SUFFICES ASSUME IInv, UndoNext PROVE IInv'
  OBVIOUS
<1> DEFINE new == lastNode + 1
<1>a. /\ pc = "idle" /\ pc' \in {"idle", "freeHead"}
      /\ new \in Nat /\ new > 0 /\ new \notin Heap /\ \A p \in LogNodes : p < new
      /\ LogNodes = Heap \ {freeDelayedItem}
      /\ undoLogTail \in Events /\ undoLogTail \in LogNodes /\ undoLogCur = undoLogTail
      /\ undoLogCur' = new /\ undoLogTail' = new /\ undoLogHead' = undoLogHead
      /\ undoNumRecentEvents' = 0 /\ world' = world /\ undoLogTail # NULL
      /\ undoLogHead \in LogNodes /\ undoLogHead \notin Delims /\ lastNode' = new
  <2>1. undoLogTail \in Events /\ undoLogTail \in LogNodes /\ undoLogCur = undoLogTail
    BY DEF IInv, UndoNext, SomethingRecent, CursorPlace, Events
  <2> QED
    BY <2>1, LogPositive, BoundsAssumption DEF IInv, TypeOK, UndoNext, NothingRecent, LogNodes,
       Alive, HeadIsFirst, NoEmptyCommand
<1>b. /\ Heap' = LogNodes \cup {new} /\ Alive' = Heap' /\ node' \in [Heap' -> Event]
      /\ \A p \in LogNodes : /\ p # undoLogTail => node'[p] = node[p]
                             /\ node'[p].type = node[p].type /\ node'[p].back = node[p].back
      /\ node'[undoLogTail].forw = new
      /\ node'[new] = [type |-> UT_DELIM, back |-> undoLogTail, forw |-> NULL]
  <2> DEFINE e == [type |-> UT_DELIM, back |-> undoLogTail, forw |-> NULL]
             heap == mallocMagic(e)
  <2>1. /\ DOMAIN heap = LogNodes \cup {new} /\ \A p \in LogNodes : heap[p] = node[p]
        /\ heap[new] = e
    BY <1>a DEF mallocMagic
  <2>2. e \in Event
    BY <1>a, LogPositive DEF IInv, Event, Pointer
  <2>3. heap \in [LogNodes \cup {new} -> Event]
    BY <2>1, <2>2, LogPositive DEF IInv, mallocMagic
  <2> HIDE DEF heap
  <2>4. node' = [heap EXCEPT ![undoLogTail].forw = new] /\ freeDelayedItem' = NULL
    BY <1>a DEF UndoNext, heap
  <2>5. /\ DOMAIN node' = LogNodes \cup {new}
        /\ \A p \in LogNodes : /\ p # undoLogTail => node'[p] = node[p]
                               /\ node'[p].type = node[p].type /\ node'[p].back = node[p].back
        /\ node'[undoLogTail].forw = new /\ node'[new] = e
        /\ node' \in [LogNodes \cup {new} -> Event]
    BY <1>a, <2>1, <2>3, <2>4 DEF Event, Pointer
  <2> QED
    BY <1>a, <2>4, <2>5, LogPositive DEF IInv, Heap, Alive
<1>1. LogNodes' = LogNodes \cup {new} /\ Delims' = Delims \cup {new} /\ Events' = Events
  <2>1. LogNodes' = LogNodes \cup {new}
    BY <1>a, <1>b DEF LogNodes
  <2>2. Delims' = Delims \cup {new}
    BY <1>b, <2>1 DEF Delims
  <2> QED
    BY <1>a, <2>1, <2>2 DEF Events, Delims
<1>c. /\ undoNumCommands' = Cardinality(Delims') /\ undoNumCommands' \in Nat
      /\ undoNumCommands' = Cardinality(Delims' \ {undoLogHead})
      /\ pc' # "freeHead" => undoNumCommands' <= MAXCOMMANDS
      /\ pc' = "freeHead" => undoNumCommands' > LOWCOMMANDS
  <2>1. Cardinality(Delims \cup {new}) = Cardinality(Delims) + 1
    BY <1>a, LogIsFinite, FS_AddElement DEF IInv, Delims
  <2>2. undoNumCommands = Cardinality(Delims) /\ undoNumCommands \in Nat
        /\ undoNumCommands' = undoNumCommands + 1
    BY <1>a DEF IInv, TypeOK, CountPlace, UndoNext
  <2>3. Delims' \ {undoLogHead} = Delims'
    BY <1>a, <1>1
  <2>4. IF undoNumCommands' >= MAXCOMMANDS /\ undoNumCommands' > LOWCOMMANDS
          THEN pc' = "freeHead" ELSE pc' = "idle"
    BY DEF UndoNext
  <2> QED
    BY <1>1, <2>1, <2>2, <2>3, <2>4, LimitsAssumption
<1>2. TypeOK'
  BY <1>a, <1>b, <1>c, LogPositive, BoundsAssumption DEF IInv, TypeOK, UndoNext, Pointer
<1>3. (ForwLinks /\ BackLinks /\ TailIsLast /\ HeadIsFirst /\ EmptyLog)'
  <2>1. ForwLinks'
    BY <1>1, <1>a, <1>b, LogPositive DEF IInv, ForwLinks, TailIsLast, Adjacent
  <2>2. BackLinks'
    BY <1>1, <1>a, <1>b, LogPositive DEF IInv, BackLinks, TailIsLast, Adjacent
  <2>3. (TailIsLast /\ HeadIsFirst /\ EmptyLog)'
    BY <1>1, <1>a, <1>b, LogPositive DEF IInv, TailIsLast, HeadIsFirst, EmptyLog
  <2> QED
    BY <2>1, <2>2, <2>3
<1>4. (CursorPlace /\ TruncatePlace /\ FreeHeadPlace /\ PlayPlace)'
  BY <1>1, <1>a, <1>c, LimitsAssumption DEF CursorPlace, TruncatePlace, FreeHeadPlace, PlayPlace,
     Playing
<1>6. (CountPlace /\ NoEmptyCommand)'
  <2>1. NoEmptyCommand'
    BY <1>1, <1>a, <1>b, LogPositive DEF IInv, NoEmptyCommand, Delims, Events,
       BackLinks, Adjacent
  <2> QED
    BY <1>a, <1>c, <2>1 DEF CountPlace
<1>7. (LayoutMatchesLog /\ ForgottenIsOlder)'
  <2>1. \A e \in Events : e <= undoLogTail /\ e < new
    BY <1>a DEF IInv, TailIsLast, Events
  <2>2. LayoutMatchesLog'
    BY <1>1, <1>a, <2>1, LogPositive DEF IInv, LayoutMatchesLog, Shown, Playing, Events
  <2>3. ForgottenIsOlder'
    BY <1>1, <1>a DEF IInv, TypeOK, ForgottenIsOlder
  <2> QED
    BY <2>2, <2>3
<1> QED
  BY <1>2, <1>3, <1>4, <1>6, <1>7 DEF IInv

\* LOWCOMMANDS > 0 at work: a delimiter other than the head is still counted
\* in, so the head is not the tail and has a successor.
LEMMA HeadHasSuccessor ==
  ASSUME IInv, pc \in {"freeHead", "freeDelim"}
  PROVE  /\ undoLogHead \in LogNodes /\ undoLogHead \in Alive /\ undoLogHead # undoLogTail
         /\ Adjacent(undoLogHead, node[undoLogHead].forw)
         /\ undoLogTail \in Delims /\ undoLogCur = undoLogTail
         /\ IsFiniteSet(Delims \ {undoLogHead})
         /\ undoNumCommands = Cardinality(Delims \ {undoLogHead})
<1>1. /\ undoLogHead \in LogNodes /\ undoLogTail \in Delims /\ undoLogCur = undoLogTail
      /\ \A p \in LogNodes : undoLogHead <= p /\ p <= undoLogTail
      /\ undoNumCommands = Cardinality(Delims \ {undoLogHead})
      /\ undoNumCommands >= LOWCOMMANDS
  BY DEF IInv, EmptyLog, HeadIsFirst, TailIsLast, FreeHeadPlace, CountPlace
<1>2. undoLogHead # undoLogTail
  <2> SUFFICES ASSUME undoLogHead = undoLogTail PROVE FALSE
    OBVIOUS
  <2>1. Delims \ {undoLogHead} = {}
    BY <1>1, LogPositive DEF IInv, Delims
  <2> QED
    BY <1>1, <2>1, FS_EmptySet, LimitsAssumption
<1>3. Adjacent(undoLogHead, node[undoLogHead].forw)
  BY <1>1, <1>2 DEF IInv, ForwLinks
<1>4. IsFiniteSet(Delims \ {undoLogHead})
  BY LogIsFinite, FS_RemoveElement DEF IInv
<1> QED
  BY <1>1, <1>2, <1>3, <1>4 DEF LogNodes

LEMMA FreeHeadLoopIInv == IInv /\ undoFreeHeadLoop => IInv'
<1> SUFFICES ASSUME IInv, undoFreeHeadLoop PROVE IInv'
  OBVIOUS
<1> DEFINE h == undoLogHead
<1>a. /\ pc = "freeHead" /\ pc' \in {"freeHead", "freeDelim"}
      /\ h \in LogNodes /\ h \in Alive /\ h # undoLogTail /\ Adjacent(h, node[h].forw)
      /\ undoLogTail \in Delims /\ undoLogCur = undoLogTail /\ undoNumCommands > LOWCOMMANDS
      /\ undoNumCommands = Cardinality(Delims \ {h}) /\ IsFiniteSet(Delims \ {h})
      /\ undoLogTail' = undoLogTail /\ undoLogCur' = undoLogCur /\ world' = world
      /\ undoNumRecentEvents = 0 /\ undoNumRecentEvents' = 0
  BY HeadHasSuccessor DEF IInv, FreeHeadPlace, undoFreeHeadLoop, CursorPlace
<1>b. /\ Heap' = Alive /\ Alive' = Alive \ {h}
      /\ node' \in [Heap' -> Event] /\ \A p \in Alive : node'[p] = node[p]
  BY <1>a, FreeMagicStep DEF IInv, undoFreeHeadLoop
<1>1. LogNodes' = LogNodes \ {h} /\ Delims' = Delims \ {h} /\ Events' = Events \ {h}
  <2>1. LogNodes' = LogNodes \ {h}
    BY <1>a, <1>b DEF LogNodes
  <2> QED
    BY <1>b, <2>1 DEF Delims, Events, LogNodes
<1>c. Adjacent(h, undoLogHead')
  BY <1>a, <1>b DEF undoFreeHeadLoop, Forw, Heap
<1>d. /\ undoNumCommands' \in Nat /\ undoNumCommands' >= LOWCOMMANDS
      /\ undoNumCommands' = Cardinality(Delims' \ {undoLogHead'})
      /\ pc' = "freeHead" => undoNumCommands' > LOWCOMMANDS
      /\ pc' = "freeDelim" => undoLogHead' \in Delims' /\ undoNumCommands' = LOWCOMMANDS
  <2>1. IsDelim(node', undoLogHead') <=> undoLogHead' \in Delims'
    <3>1. undoLogHead' \in LogNodes' /\ undoLogHead' \in DOMAIN node'
      BY <1>1, <1>b, <1>c, LogPositive DEF IInv, Adjacent, LogNodes, Heap
    <3> QED
      BY <3>1 DEF IsDelim, Delims
  <2>2. CASE undoLogHead' \in Delims'
    <3>1. undoNumCommands' = undoNumCommands - 1
          /\ pc' = IF undoNumCommands' <= LOWCOMMANDS THEN "freeDelim" ELSE "freeHead"
      BY <2>1, <2>2 DEF undoFreeHeadLoop, EnoughFreed
    <3>2. Cardinality(Delims' \ {undoLogHead'}) = Cardinality(Delims') - 1
      BY <1>1, <1>a, <2>2, FS_RemoveElement
    <3> QED
      BY <1>1, <1>a, <2>2, <3>1, <3>2, LimitsAssumption DEF IInv, TypeOK
  <2>3. CASE undoLogHead' \notin Delims'
    <3>1. undoNumCommands' = undoNumCommands /\ pc' = pc
      BY <2>1, <2>3 DEF undoFreeHeadLoop
    <3>2. Delims' \ {undoLogHead'} = Delims \ {h}
      BY <1>1, <2>3
    <3> QED
      BY <1>a, <3>1, <3>2, LimitsAssumption DEF IInv, TypeOK
  <2> QED
    BY <2>2, <2>3
<1>2. TypeOK'
  BY <1>a, <1>b, <1>c, <1>d, LogPositive DEF IInv, TypeOK, undoFreeHeadLoop, Pointer, Alive,
     Adjacent
<1>3. (ForwLinks /\ BackLinks /\ TailIsLast /\ HeadIsFirst /\ EmptyLog)'
  <2>0. \A p \in LogNodes' : p \in LogNodes /\ p # h /\ p \in Alive /\ p \in Nat
    BY <1>1, LogPositive DEF IInv, LogNodes
  <2>1. ForwLinks'
    <3> SUFFICES ASSUME NEW p \in LogNodes', p # undoLogTail'
                 PROVE  Adjacent(p, node[p].forw)'
      BY DEF ForwLinks
    <3>1. node'[p].forw = node[p].forw /\ Adjacent(p, node[p].forw)
      BY <1>a, <1>b, <1>c, <2>0, LogPositive DEF IInv, ForwLinks, Adjacent
    <3>2. node[p].forw # h
      BY <1>a, <1>b, <1>c, <2>0, <3>1, LogPositive DEF IInv, Adjacent, HeadIsFirst
    <3> QED
      BY <1>1, <2>0, <3>1, <3>2 DEF Adjacent
  <2>2. BackLinks'
    <3> SUFFICES ASSUME NEW p \in LogNodes', p # undoLogHead'
                 PROVE  Adjacent(node[p].back, p)'
      BY DEF BackLinks
    <3>1. node'[p].back = node[p].back /\ Adjacent(node[p].back, p)
      BY <1>a, <1>b, <1>c, <2>0, LogPositive DEF IInv, BackLinks, Adjacent
    <3>2. node[p].back # h
      BY <1>a, <1>b, <1>c, <2>0, <3>1, LogPositive DEF IInv, Adjacent, HeadIsFirst
    <3> QED
      BY <1>1, <2>0, <3>1, <3>2 DEF Adjacent
  <2>3. (TailIsLast /\ HeadIsFirst /\ EmptyLog)'
    BY <1>1, <1>a, <1>b, <1>c, LogPositive DEF IInv, TailIsLast, HeadIsFirst, EmptyLog,
       Adjacent, LogNodes
  <2> QED
    BY <2>1, <2>2, <2>3
<1>4. (CursorPlace /\ TruncatePlace /\ FreeHeadPlace /\ PlayPlace)'
  BY <1>1, <1>a, <1>d DEF IInv, CursorPlace, TruncatePlace, FreeHeadPlace, PlayPlace, Playing,
     Delims
<1>6. (CountPlace /\ NoEmptyCommand)'
  <2>1. NoEmptyCommand'
    BY <1>1, <1>a, <1>b, LogPositive DEF IInv, NoEmptyCommand, Delims, LogNodes
  <2> QED
    BY <1>a, <1>d, <2>1, LimitsAssumption DEF CountPlace
<1>7. (LayoutMatchesLog /\ ForgottenIsOlder)'
  BY <1>1, <1>a, <1>c, LogPositive DEF IInv, HeadIsFirst, LayoutMatchesLog, ForgottenIsOlder,
     Shown, Playing, Adjacent
<1> QED
  BY <1>2, <1>3, <1>4, <1>6, <1>7 DEF IInv

LEMMA FreeHeadEndIInv == IInv /\ undoFreeHeadEnd => IInv'
<1> SUFFICES ASSUME IInv, undoFreeHeadEnd PROVE IInv'
  OBVIOUS
<1> DEFINE h == undoLogHead
           heap == freeMagic(h)
<1>a. /\ pc = "freeDelim" /\ pc' = "idle" /\ h \in Delims
      /\ h \in LogNodes /\ h \in Alive /\ h # undoLogTail /\ Adjacent(h, node[h].forw)
      /\ undoLogTail \in Delims /\ undoLogCur = undoLogTail
      /\ undoNumCommands = Cardinality(Delims \ {h}) /\ undoNumCommands <= MAXCOMMANDS
      /\ undoNumCommands' = undoNumCommands
      /\ undoLogTail' = undoLogTail /\ undoLogCur' = undoLogCur /\ world' = world
      /\ undoNumRecentEvents = 0 /\ undoNumRecentEvents' = 0
  BY HeadHasSuccessor DEF IInv, FreeHeadPlace, undoFreeHeadEnd, CursorPlace, CountPlace
<1>b. /\ DOMAIN heap = Alive /\ \A p \in Alive : heap[p] = node[p]
      /\ heap \in [Alive -> Event]
  BY LogPositive DEF IInv, freeMagic, Reclaimed, Alive, Heap
<1> HIDE DEF heap
<1>c. /\ undoLogHead' = node[h].forw /\ Adjacent(h, undoLogHead')
      /\ node' = [heap EXCEPT ![undoLogHead'].back = NULL] /\ freeDelayedItem' = h
      /\ undoLogHead' \in Alive
  BY <1>a, <1>b DEF undoFreeHeadEnd, Forw, FirstInLog, heap, Adjacent, LogNodes
<1>d. /\ Heap' = Alive /\ Alive' = Alive \ {h} /\ node' \in [Heap' -> Event]
      /\ \A p \in Alive : /\ p # undoLogHead' => node'[p] = node[p]
                          /\ node'[p].type = node[p].type /\ node'[p].forw = node[p].forw
      /\ node'[undoLogHead'].back = NULL
  BY <1>a, <1>b, <1>c DEF Heap, Alive, Event, Pointer
<1>1. LogNodes' = LogNodes \ {h} /\ Delims' = Delims \ {h} /\ Events' = Events \ {h}
  <2>1. LogNodes' = LogNodes \ {h}
    BY <1>a, <1>d DEF LogNodes
  <2> QED
    BY <1>d, <2>1 DEF Delims, Events, LogNodes
<1>2. TypeOK'
  BY <1>a, <1>d, <1>c, LogPositive DEF IInv, TypeOK, undoFreeHeadEnd, Pointer, Alive, Adjacent
<1>3. (ForwLinks /\ BackLinks /\ TailIsLast /\ HeadIsFirst /\ EmptyLog)'
  <2>0. \A p \in LogNodes' : p \in LogNodes /\ p # h /\ p \in Alive /\ p \in Nat
    BY <1>1, LogPositive DEF IInv, LogNodes
  <2>1. ForwLinks'
    <3> SUFFICES ASSUME NEW p \in LogNodes', p # undoLogTail'
                 PROVE  Adjacent(p, node[p].forw)'
      BY DEF ForwLinks
    <3>1. node'[p].forw = node[p].forw /\ Adjacent(p, node[p].forw)
      BY <1>a, <1>c, <1>d, <2>0, LogPositive DEF IInv, ForwLinks, Adjacent
    <3>2. node[p].forw # h
      BY <1>a, <1>c, <1>d, <2>0, <3>1, LogPositive DEF IInv, Adjacent, HeadIsFirst
    <3> QED
      BY <1>1, <2>0, <3>1, <3>2 DEF Adjacent
  <2>2. BackLinks'
    <3> SUFFICES ASSUME NEW p \in LogNodes', p # undoLogHead'
                 PROVE  Adjacent(node[p].back, p)'
      BY DEF BackLinks
    <3>1. node'[p].back = node[p].back /\ Adjacent(node[p].back, p)
      BY <1>a, <1>c, <1>d, <2>0, LogPositive DEF IInv, BackLinks, Adjacent
    <3>2. node[p].back # h
      BY <1>a, <1>c, <1>d, <2>0, <3>1, LogPositive DEF IInv, Adjacent, HeadIsFirst
    <3> QED
      BY <1>1, <2>0, <3>1, <3>2 DEF Adjacent
  <2>3. (TailIsLast /\ HeadIsFirst /\ EmptyLog)'
    BY <1>1, <1>a, <1>c, <1>d, LogPositive DEF IInv, TailIsLast, HeadIsFirst, EmptyLog,
       Adjacent, LogNodes
  <2> QED
    BY <2>1, <2>2, <2>3
<1>4. (CursorPlace /\ TruncatePlace /\ FreeHeadPlace /\ PlayPlace)'
  BY <1>1, <1>a DEF IInv, CursorPlace, TruncatePlace, FreeHeadPlace, PlayPlace, Playing, Delims
<1>6. (CountPlace /\ NoEmptyCommand)'
  <2>1. undoLogHead' \notin Delims
    <3>1. Adjacent(node[undoLogHead'].back, undoLogHead')
      BY <1>a, <1>c, LogPositive DEF IInv, BackLinks, Adjacent
    <3>2. node[undoLogHead'].back = h
      BY <1>c, <3>1, LogPositive DEF IInv, Adjacent
    <3> QED
      BY <1>a, <1>c, <3>2, LogPositive DEF IInv, NoEmptyCommand, Adjacent
  <2>2. NoEmptyCommand'
    BY <1>1, <1>a, <1>d, <2>1, LogPositive DEF IInv, NoEmptyCommand, Delims, LogNodes
  <2> QED
    BY <1>1, <1>a, <2>2 DEF CountPlace
<1>7. (LayoutMatchesLog /\ ForgottenIsOlder)'
  BY <1>1, <1>a, <1>c, LogPositive DEF IInv, HeadIsFirst, LayoutMatchesLog, ForgottenIsOlder,
     Shown, Playing, Adjacent
<1> QED
  BY <1>2, <1>3, <1>4, <1>6, <1>7 DEF IInv

LEMMA FlushLoopIInv == IInv /\ UndoFlushLoop => IInv'
<1> SUFFICES ASSUME IInv, UndoFlushLoop PROVE IInv'
  OBVIOUS
<1> DEFINE t == undoLogTail
<1>a. /\ pc = "flush" /\ pc' = "flush" /\ t \in LogNodes /\ t \in Alive /\ t # undoLogHead
      /\ \A p \in LogNodes : p <= t
      /\ undoLogHead \in LogNodes /\ Adjacent(node[t].back, t)
  BY DEF IInv, UndoFlushLoop, EmptyLog, TailIsLast, HeadIsFirst, BackLinks, LogNodes
<1>b. /\ Heap' = Alive /\ Alive' = Alive \ {t}
      /\ node' \in [Heap' -> Event] /\ \A p \in Alive : node'[p] = node[p]
  BY <1>a, FreeMagicStep DEF IInv, UndoFlushLoop
<1>1. LogNodes' = LogNodes \ {t} /\ Delims' = Delims \ {t} /\ Events' = Events \ {t}
  <2>1. LogNodes' = LogNodes \ {t}
    BY <1>a, <1>b DEF LogNodes
  <2> QED
    BY <1>b, <2>1 DEF Delims, Events, LogNodes
<1>c. undoLogTail' = node[t].back
  BY <1>a, <1>b DEF UndoFlushLoop, Back, Heap
<1>2. TypeOK'
  BY <1>a, <1>b, <1>c, LogPositive DEF IInv, TypeOK, UndoFlushLoop, Pointer, Alive, Adjacent
<1>3. (ForwLinks /\ BackLinks /\ TailIsLast /\ HeadIsFirst /\ EmptyLog)'
  <2>0. \A p \in LogNodes' : p \in LogNodes /\ p # t /\ p \in Alive /\ p \in Nat
    BY <1>1, LogPositive DEF IInv, LogNodes
  <2>1. ForwLinks'
    <3> SUFFICES ASSUME NEW p \in LogNodes', p # undoLogTail'
                 PROVE  Adjacent(p, node[p].forw)'
      BY DEF ForwLinks
    <3>1. node'[p].forw = node[p].forw /\ Adjacent(p, node[p].forw)
      BY <1>a, <1>b, <1>c, <2>0, LogPositive DEF IInv, ForwLinks, Adjacent, UndoFlushLoop
    <3>2. node[p].forw # t
      BY <1>a, <1>b, <1>c, <2>0, <3>1, LogPositive DEF IInv, Adjacent
    <3> QED
      BY <1>1, <2>0, <3>1, <3>2 DEF Adjacent
  <2>2. BackLinks'
    <3> SUFFICES ASSUME NEW p \in LogNodes', p # undoLogHead'
                 PROVE  Adjacent(node[p].back, p)'
      BY DEF BackLinks
    <3>1. node'[p].back = node[p].back /\ Adjacent(node[p].back, p)
      BY <1>a, <1>b, <1>c, <2>0, LogPositive DEF IInv, BackLinks, Adjacent, UndoFlushLoop
    <3>2. node[p].back # t
      BY <1>a, <1>b, <1>c, <2>0, <3>1, LogPositive DEF IInv, Adjacent
    <3> QED
      BY <1>1, <2>0, <3>1, <3>2 DEF Adjacent
  <2>3. (TailIsLast /\ HeadIsFirst /\ EmptyLog)'
    BY <1>1, <1>a, <1>b, <1>c, LogPositive DEF IInv, TailIsLast, HeadIsFirst, EmptyLog,
       Adjacent, LogNodes, UndoFlushLoop
  <2> QED
    BY <2>1, <2>2, <2>3
<1>4. (CursorPlace /\ TruncatePlace /\ FreeHeadPlace /\ PlayPlace)'
  BY <1>a DEF CursorPlace, TruncatePlace, FreeHeadPlace, PlayPlace, Playing
<1>6. (CountPlace /\ NoEmptyCommand)'
  BY <1>1, <1>a, <1>b DEF IInv, CountPlace, NoEmptyCommand, UndoFlushLoop, Delims, LogNodes
<1>7. (LayoutMatchesLog /\ ForgottenIsOlder)'
  BY <1>1, <1>a DEF IInv, LayoutMatchesLog, ForgottenIsOlder, Shown, Playing, UndoFlushLoop
<1> QED
  BY <1>2, <1>3, <1>4, <1>6, <1>7 DEF IInv

LEMMA FlushEndIInv == IInv /\ UndoFlushEnd => IInv'
<1> SUFFICES ASSUME IInv, UndoFlushEnd PROVE IInv'
  OBVIOUS
<1>a. /\ undoLogHead \in Alive /\ LogNodes = {undoLogHead} /\ Alive = LogNodes /\ pc' = "idle"
  BY LogPositive DEF IInv, UndoFlushEnd, EmptyLog, TailIsLast, HeadIsFirst, LogNodes
<1>b. Heap' = Alive /\ Alive' = {} /\ node' \in [Heap' -> Event]
  BY <1>a, FreeMagicStep DEF IInv, UndoFlushEnd
<1>1. LogNodes' = {} /\ Delims' = {} /\ Events' = {}
  BY <1>b DEF LogNodes, Delims, Events
<1>2. TypeOK'
  <2>1. tested' \in BOOLEAN
    BY DEF UndoFlushEnd
  <2> QED
    BY <1>a, <1>b, <2>1, LogPositive DEF IInv, TypeOK, UndoFlushEnd, Pointer, Alive
<1>3. (ForwLinks /\ BackLinks /\ TailIsLast /\ HeadIsFirst /\ EmptyLog)'
  BY <1>1, <1>a DEF ForwLinks, BackLinks, TailIsLast, HeadIsFirst, EmptyLog, UndoFlushEnd
<1>4. (CursorPlace /\ TruncatePlace /\ FreeHeadPlace /\ PlayPlace)'
  BY <1>1, <1>a DEF CursorPlace, TruncatePlace, FreeHeadPlace, PlayPlace, Playing, UndoFlushEnd
<1>6. (CountPlace /\ NoEmptyCommand)'
  BY <1>1, <1>a, FS_EmptySet, LimitsAssumption DEF CountPlace, NoEmptyCommand, UndoFlushEnd
<1>7. (LayoutMatchesLog /\ ForgottenIsOlder)'
  BY <1>1 DEF LayoutMatchesLog, ForgottenIsOlder
<1> QED
  BY <1>2, <1>3, <1>4, <1>6, <1>7 DEF IInv

-----------------------------------------------------------------------------
LEMMA StepIInv == IInv /\ [Next]_vars => IInv'
<1> SUFFICES ASSUME IInv, [Next]_vars PROVE IInv'
  OBVIOUS
<1>1. CASE Record
  BY <1>1, NewEventIInv, NextIInv DEF Record
<1>2. CASE windUndoCmd
  BY <1>2, BackwardIInv DEF windUndoCmd
<1>3. CASE windRedoCmd
  BY <1>3, ForwardIInv DEF windRedoCmd
<1>4. CASE PlowRandomTest
  BY <1>4, BackwardIInv, BoundsAssumption DEF PlowRandomTest
<1>5. CASE UndoDisable \/ UndoEnable \/ UndoFlush
  BY <1>5, DisableIInv, EnableIInv, FlushIInv
<1>6. CASE Truncate
  BY <1>6, TruncateLoopIInv, TruncateEndIInv, LinkIInv DEF Truncate
<1>7. CASE FreeHead
  BY <1>7, FreeHeadLoopIInv, FreeHeadEndIInv DEF FreeHead
<1>8. CASE PlayBackward
  BY <1>8, BackwardTestIInv, BackwardPlayIInv, BackwardEndIInv DEF PlayBackward
<1>9. CASE PlayForward
  BY <1>9, ForwardTestIInv, ForwardPlayIInv, ForwardEndIInv DEF PlayForward
<1>10. CASE Flush
  BY <1>10, FlushLoopIInv, FlushEndIInv DEF Flush
<1>11. CASE UNCHANGED vars
  BY <1>11 DEF vars, IInv, TypeOK, ForwLinks, BackLinks, TailIsLast, HeadIsFirst, EmptyLog,
     CursorPlace, TruncatePlace, FreeHeadPlace, PlayPlace, CountPlace, NoEmptyCommand,
     LayoutMatchesLog, ForgottenIsOlder, Adjacent, Shown, Playing, LogNodes, Delims, Events,
     Alive, Heap
<1> QED
  BY <1>1, <1>2, <1>3, <1>4, <1>5, <1>6, <1>7, <1>8, <1>9, <1>10, <1>11 DEF Next, Continue

\* The strengthening holds in every reachable state, whatever the limits.
THEOREM Invariance == Spec => []IInv
BY InitIInv, StepIInv, PTL DEF Spec

\* Every variable of the package has its type; the command count and the
\* count of disables never go below zero.
THEOREM TypeCorrect == Spec => []TypeOK
<1>1. IInv => TypeOK
  BY DEF IInv
<1> QED
  BY <1>1, Invariance, PTL

\* Truncation, freeing of old commands and flush leave one well linked list
\* of exactly the allocated blocks (undo.c: UndoNewEvent, UndoNext, UndoFlush).
THEOREM WellLinked == Spec => []LogWellLinked
<1>1. IInv => LogWellLinked
  <2> SUFFICES ASSUME IInv, ~Rewiring PROVE LogWellLinked
    BY DEF LogWellLinked
  <2>1. /\ undoLogHead = NULL <=> LogNodes = {}
        /\ LogNodes # {} =>
             /\ {undoLogHead, undoLogTail} \subseteq LogNodes
             /\ node[undoLogHead].back = NULL /\ node[undoLogTail].forw = NULL
        /\ undoLogCur \in LogNodes \cup {NULL}
    BY LogPositive DEF IInv, HeadIsFirst, TailIsLast, EmptyLog, CursorPlace, Rewiring
  <2>2. ASSUME NEW p \in LogNodes, p # undoLogTail
        PROVE  Adjacent(p, node[p].forw) /\ node[node[p].forw].back = p
    <3>1. Adjacent(p, node[p].forw)
      BY <2>2 DEF IInv, ForwLinks, Rewiring
    <3>2. node[p].forw # undoLogHead
      BY <3>1, LogPositive DEF IInv, HeadIsFirst, Adjacent, Rewiring
    <3>3. Adjacent(node[node[p].forw].back, node[p].forw)
      BY <3>1, <3>2 DEF IInv, BackLinks, Rewiring, Adjacent
    <3> QED
      BY <3>1, <3>3, LogPositive DEF IInv, Adjacent
  <2>3. ASSUME NEW p \in LogNodes, p # undoLogHead
        PROVE  node[p].back \in LogNodes /\ node[node[p].back].forw = p
    <3>1. Adjacent(node[p].back, p)
      BY <2>3 DEF IInv, BackLinks, Rewiring
    <3>2. node[p].back # undoLogTail
      BY <3>1, LogPositive DEF IInv, TailIsLast, Adjacent, Rewiring
    <3>3. Adjacent(node[p].back, node[node[p].back].forw)
      BY <3>1, <3>2 DEF IInv, ForwLinks, Rewiring, Adjacent
    <3> QED
      BY <3>1, <3>3, LogPositive DEF IInv, Adjacent
  <2> QED
    BY <2>1, <2>2, <2>3 DEF LogWellLinked, Adjacent
<1> QED
  BY <1>1, Invariance, PTL

\* No loop of the package follows or frees a pointer to a released node, and
\* undoFreeHead never reaches the cursor, for all limits with LOWCOMMANDS > 0.
THEOREM LoopsAreSafe == Spec => []LoopsStayInLog
<1>1. IInv => LoopsStayInLog
  <2> SUFFICES ASSUME IInv PROVE LoopsStayInLog
    OBVIOUS
  <2>1. pc = "truncate" => /\ up # NULL => up \in LogNodes
                           /\ undoLogCur # NULL => IsDelim(node, undoLogCur)
    BY LogPositive DEF IInv, TruncatePlace, IsDelim, Delims, Heap
  <2>2. /\ pc \in {"freeHead", "freeDelim"} =>
             undoLogHead \in LogNodes /\ undoLogHead # undoLogCur
        /\ pc = "freeDelim" => node[undoLogHead].forw \in LogNodes
    BY HeadHasSuccessor DEF Adjacent
  <2>3. /\ pc = "flush" => undoLogTail \in LogNodes /\ undoLogHead \in LogNodes
        /\ pc = "link" => iup \in Alive /\ undoLogCur \in LogNodes \cup {NULL}
    BY DEF IInv, TailIsLast, HeadIsFirst, EmptyLog, TruncatePlace, CursorPlace
  <2>4. /\ pc \in {"back", "forw", "forwBreak"} => iup \in LogNodes
        /\ pc \in {"backTest", "forwTest"} => iup \in LogNodes \cup {NULL}
    BY DEF IInv, PlayPlace
  <2> QED
    BY <2>1, <2>2, <2>3, <2>4 DEF LoopsStayInLog
<1> QED
  BY <1>1, Invariance, PTL

\* undoNumCommands counts the delimiters of the log, never more than
\* MAXCOMMANDS between two calls, and no command of it is empty.
THEOREM CommandsCounted == Spec => []CommandCount
<1>1. IInv => CommandCount
  <2> SUFFICES ASSUME IInv, ~Rewiring PROVE CommandCount
    BY DEF CommandCount
  <2>1. undoNumCommands = Cardinality(Delims) /\ undoNumCommands <= MAXCOMMANDS
    BY DEF IInv, CountPlace, Rewiring
  <2>2. ASSUME NEW d \in Delims PROVE Back(node, d) \in Events
    <3>1. d # undoLogHead /\ node[d].back \notin Delims
      BY DEF IInv, NoEmptyCommand, Rewiring
    <3>2. Adjacent(node[d].back, d) /\ d \in DOMAIN node
      BY <3>1, LogPositive DEF IInv, BackLinks, Rewiring, Delims, Heap
    <3> QED
      BY <3>1, <3>2 DEF Back, Adjacent, Events
  <2> QED
    BY <2>1, <2>2 DEF CommandCount
<1> QED
  BY <1>1, Invariance, PTL

\* The layout shows exactly the logged events up to the cursor, at every step
\* of an undo or redo.
THEOREM LayoutMatches == Spec => []LayoutMatchesLog
<1>1. IInv => LayoutMatchesLog
  BY DEF IInv
<1> QED
  BY <1>1, Invariance, PTL

\* undo.c's comment on its head, tail and cursor pointers holds between calls,
\* but after PlowRandomTest, and again from the next flush on.
THEOREM CursorIsDisciplined == Spec => []CursorDiscipline
<1>1. IInv => CursorDiscipline
  <2> SUFFICES ASSUME IInv, pc = "idle", ~tested PROVE CursorDiscipline
    BY DEF CursorDiscipline
  <2>1. \A p \in LogNodes : IsDelim(node, p) <=> p \in Delims
    BY LogPositive DEF IInv, IsDelim, Delims, Heap
  <2>2. undoLogHead # NULL => /\ LogNodes # {} /\ undoLogHead \in LogNodes
                              /\ undoLogTail \in LogNodes /\ undoLogHead \notin Delims
    BY DEF IInv, HeadIsFirst, TailIsLast, EmptyLog, NoEmptyCommand
  <2>3. undoLogCur \in LogNodes \cup {NULL}
    BY DEF IInv, CursorPlace
  <2>4. undoNumRecentEvents # 0 =>
          undoLogCur = undoLogTail /\ undoLogCur # NULL /\ undoLogCur \in Events
    BY DEF IInv, CursorPlace
  <2>5. (undoNumRecentEvents = 0 /\ LogNodes # {}) =>
          undoLogTail \in Delims /\ (undoLogCur # NULL => undoLogCur \in Delims)
    BY DEF IInv, CursorPlace
  <2> QED
    BY <2>1, <2>2, <2>3, <2>4, <2>5 DEF CursorDiscipline, Events
<1> QED
  BY <1>1, Invariance, PTL

\* Clients' callbacks are plain inverses: an event is taken back only as the
\* newest one shown and replayed only after all older ones.
THEOREM PlayIsOrdered == Spec => PlayedInOrder
<1> DEFINE InOrder ==
      /\ \A e \in world \ world' : \A f \in world : f <= e
      /\ \A e \in world' \ world : \A f \in Events : f < e => f \in world
      /\ \A e \in world' \ world : \A f \in world : f < e
<1>1. IInv /\ [Next]_vars => [InOrder]_vars
  <2> SUFFICES ASSUME IInv, Next PROVE InOrder
    OBVIOUS
  <2>0. \A f \in world : f \in Nat
    BY DEF IInv, TypeOK
  <2>1. CASE world' = world
    BY <2>1
  <2>2. CASE UndoNewEventLink
    <3>1. pc = "link" /\ iup = lastNode /\ iup \notin world /\ world' = world \cup {iup}
      BY <2>2 DEF IInv, TruncatePlace, UndoNewEventLink
    <3>2. \A f \in world : f < iup
      BY <2>0, <3>1, BoundsAssumption DEF IInv, TypeOK
    <3>3. \A f \in Events : f \in world
      BY <3>1, LogPositive DEF IInv, TruncatePlace, LayoutMatchesLog, Shown, Playing,
         TailIsLast, Events
    <3> QED
      BY <3>1, <3>2, <3>3
  <2>3. CASE UndoBackwardPlay
    <3>1. pc = "back" /\ iup \in LogNodes /\ world \ world' \subseteq {iup}
          /\ world' \subseteq world
      BY <2>3 DEF IInv, PlayPlace, UndoBackwardPlay, PlayedBack
    <3>2. \A f \in world : f <= iup
      BY <2>0, <3>1, LogPositive DEF IInv, LayoutMatchesLog, ForgottenIsOlder, Shown, Playing
    <3> QED
      BY <3>1, <3>2
  <2>4. CASE UndoForwardPlay
    <3>1. pc = "forw" /\ iup \in LogNodes /\ world' \subseteq world \cup {iup}
          /\ world \subseteq world'
      BY <2>4 DEF IInv, PlayPlace, UndoForwardPlay
    <3>2. \A f \in world : f < iup
      BY <2>0, <3>1, LogPositive DEF IInv, LayoutMatchesLog, ForgottenIsOlder, Shown, Playing
    <3>3. \A f \in Events : f < iup => f \in world
      BY <3>1 DEF IInv, LayoutMatchesLog, Shown, Playing
    <3> QED
      BY <3>1, <3>2, <3>3
  <2>5. Next => \/ UndoNewEventLink \/ UndoBackwardPlay \/ UndoForwardPlay \/ world' = world
    BY DEF Next, Continue, Record, Truncate, FreeHead, PlayBackward, PlayForward, Flush,
       UndoNewEvent, UndoNext, undoMemTruncateLoop, undoMemTruncateEnd, undoFreeHeadLoop,
       undoFreeHeadEnd, windUndoCmd, windRedoCmd, PlowRandomTest, UndoBackward, UndoForward,
       UndoBackwardTest, UndoBackwardEnd, UndoForwardTest, UndoForwardEnd, UndoDisable,
       UndoEnable, UndoFlush, UndoFlushLoop, UndoFlushEnd
  <2> QED
    BY <2>1, <2>2, <2>3, <2>4, <2>5
<1> QED
  BY <1>1, Invariance, PTL DEF Spec, PlayedInOrder

-----------------------------------------------------------------------------
(***************************************************************************)
(* That the log of undo.c implements the command stack: on top of the       *)
(* inductive invariant come the counts of the playing routines; then each    *)
(* routine's last or first step is a step of the stack.                      *)
(***************************************************************************)
\* Facts about finite sets of numbers and about the commands of a stack.

\* The Cardinality that UndoStack counts with is the one of this module.
LEMMA SameCardinality == \A S : Stack!Cardinality(S) = Cardinality(S)
BY Zenon DEF Stack!Cardinality, Cardinality

LEMMA SmallerCard ==
  ASSUME NEW D, IsFiniteSet(D), NEW T \in SUBSET D
  PROVE  /\ IsFiniteSet(T) /\ Cardinality(T) \in Nat /\ Cardinality(D) \in Nat
         /\ Cardinality(T) <= Cardinality(D)
         /\ T # D => Cardinality(T) < Cardinality(D)
<1>1. /\ IsFiniteSet(T) /\ Cardinality(T) <= Cardinality(D)
      /\ Cardinality(D) = Cardinality(T) => D = T
  BY FS_Subset
<1>2. Cardinality(T) \in Nat /\ Cardinality(D) \in Nat
  BY <1>1, FS_CardinalityType
<1> QED
  BY <1>1, <1>2

\* Which delimiters lie past i, by how many lie past each of them.
LEMMA NewestNumbers ==
  ASSUME NEW D \in SUBSET Nat, IsFiniteSet(D), NEW i \in Nat, NEW k \in Nat,
         Cardinality({d \in D : i < d}) <= k,
         Cardinality({d \in D : i < d}) = k \/ \A d \in D : i < d,
         NEW d \in D
  PROVE  Cardinality({y \in D : d < y}) < k <=> i < d
<1> DEFINE T == {y \in D : i < y}
           N == {y \in D : d < y}
<1>0. \A y \in D : y \in Nat
  OBVIOUS
<1>1. IsFiniteSet(T) /\ IsFiniteSet(N) /\ Cardinality(T) \in Nat /\ Cardinality(N) \in Nat
  BY SmallerCard
<1>2. CASE i < d
  <2>0. \A y \in D : d < y => i < y
    BY <1>0, <1>2
  <2>1. N \subseteq T
    BY <2>0
  <2>2. d \in T /\ d \notin N
    BY <1>0, <1>2
  <2>3. Cardinality(N) < Cardinality(T)
    BY <1>1, <2>1, <2>2, SmallerCard
  <2> QED
    BY <1>1, <1>2, <2>3
<1>3. CASE ~(i < d)
  <2>0. \A y \in D : i < y => d < y
    BY <1>0, <1>3
  <2>1. T \subseteq N
    BY <2>0
  <2>2. Cardinality(T) <= Cardinality(N)
    BY <1>1, <2>1, SmallerCard
  <2> QED
    BY <1>1, <1>3, <2>2
<1> QED
  BY <1>2, <1>3

LEMMA OldestNumbers ==
  ASSUME NEW D \in SUBSET Nat, IsFiniteSet(D), NEW i \in Nat, NEW k \in Nat,
         Cardinality({d \in D : d <= i}) <= k,
         Cardinality({d \in D : d <= i}) = k \/ \A d \in D : d <= i,
         NEW d \in D
  PROVE  Cardinality({y \in D : y < d}) < k <=> d <= i
<1> DEFINE T == {y \in D : y <= i}
           N == {y \in D : y < d}
<1>0. \A y \in D : y \in Nat
  OBVIOUS
<1>1. IsFiniteSet(T) /\ IsFiniteSet(N) /\ Cardinality(T) \in Nat /\ Cardinality(N) \in Nat
  BY SmallerCard
<1>2. CASE d <= i
  <2>0. \A y \in D : y < d => y <= i
    BY <1>0, <1>2
  <2>1. N \subseteq T
    BY <2>0
  <2>2. d \in T /\ d \notin N
    BY <1>0, <1>2
  <2>3. Cardinality(N) < Cardinality(T)
    BY <1>1, <2>1, <2>2, SmallerCard
  <2> QED
    BY <1>1, <1>2, <2>3
<1>3. CASE ~(d <= i)
  <2>0. \A y \in D : y <= i => y < d
    BY <1>0, <1>3
  <2>1. T \subseteq N
    BY <2>0
  <2>2. Cardinality(T) <= Cardinality(N)
    BY <1>1, <2>1, SmallerCard
  <2> QED
    BY <1>1, <1>3, <2>2
<1> QED
  BY <1>2, <1>3

\* Commands in the order of the delimiters that end them.
InOrder(F, D) ==
  /\ \A d \in D : F[d] \in SUBSET Nat /\ F[d] # {}
  /\ \A c \in D : \A d \in D : c < d => Stack!Older(F[c], F[d])

LEMMA OrderIsExact ==
  ASSUME NEW D \in SUBSET Nat, NEW F, InOrder(F, D), NEW c \in D, NEW d \in D
  PROVE  /\ F[c] = F[d] => c = d
         /\ Stack!Older(F[c], F[d]) <=> c < d
<1>1. PICK e \in F[c] : e \in Nat
  BY DEF InOrder
<1>2. PICK f \in F[d] : f \in Nat
  BY DEF InOrder
<1>3. c < d => Stack!Older(F[c], F[d]) /\ e < f
  BY <1>1, <1>2 DEF InOrder, Stack!Older
<1>4. d < c => Stack!Older(F[d], F[c]) /\ f < e
  BY <1>1, <1>2 DEF InOrder, Stack!Older
<1>5. ~Stack!Older(F[c], F[c]) /\ ~Stack!Older(F[d], F[d])
  BY <1>1, <1>2 DEF Stack!Older
<1>6. Stack!Older(F[c], F[d]) => e < f
  BY <1>1, <1>2 DEF Stack!Older
<1>7. c \in Nat /\ d \in Nat
  OBVIOUS
<1>8. c = d \/ c < d \/ d < c
  BY <1>7
<1> QED
  BY <1>1, <1>2, <1>3, <1>4, <1>5, <1>6, <1>7, <1>8

LEMMA OrderCounts ==
  ASSUME NEW D \in SUBSET Nat, IsFiniteSet(D), NEW F, InOrder(F, D), NEW E \in SUBSET D
  PROVE  Cardinality({F[d] : d \in E}) = Cardinality(E)
<1> DEFINE S == {F[d] : d \in E}
           f == [d \in E |-> F[d]]
<1>1. f \in Surjection(E, S)
  BY DEF Surjection
<1>2. f \in Injection(E, S)
  <2>1. \A c, d \in E : F[c] = F[d] => c = d
    BY OrderIsExact
  <2> QED
    BY <2>1, Zenon DEF Injection, IsInjective
<1>3. IsFiniteSet(E)
  BY FS_Subset
<1> QED
  BY <1>1, <1>2, <1>3, FS_Surjection

\* The newest and oldest commands, told by their delimiters.
LEMMA NewestCommands ==
  ASSUME NEW D \in SUBSET Nat, IsFiniteSet(D), NEW F, InOrder(F, D), NEW k,
         NEW S, S = {F[d] : d \in D}, NEW E \in SUBSET D,
         \A c \in D : Cardinality({y \in D : c < y}) < k <=> c \in E
  PROVE  Stack!Newest(S, k) = {F[d] : d \in E}
<1>1. ASSUME NEW c \in D
      PROVE  Cardinality({x \in S : x # F[c] /\ Stack!Older(F[c], x)})
               = Cardinality({y \in D : c < y})
  <2>1. {x \in S : x # F[c] /\ Stack!Older(F[c], x)} = {F[y] : y \in {z \in D : c < z}}
    <3>1. ASSUME NEW y \in D
          PROVE  (F[y] # F[c] /\ Stack!Older(F[c], F[y])) <=> c < y
      <4>1. (F[y] = F[c] => y = c) /\ (Stack!Older(F[c], F[y]) <=> c < y)
        BY OrderIsExact
      <4>2. c \in Nat
        OBVIOUS
      <4> QED
        BY <4>1, <4>2
    <3> QED
      BY <3>1
  <2>2. {z \in D : c < z} \in SUBSET D
    OBVIOUS
  <2> QED
    BY <2>1, <2>2, OrderCounts
<1> DEFINE M(x) == Cardinality({d \in S : d # x /\ Stack!Older(x, d)}) < k
<1>2. Stack!Newest(S, k) = {x \in S : M(x)}
  BY SameCardinality DEF Stack!Newest
<1>3. \A c \in D : M(F[c]) <=> c \in E
  BY <1>1
<1> HIDE DEF M
<1> QED
  BY <1>2, <1>3

\* The members of E are the k least of D.
AreLeast(E, D, k) ==
  /\ E \in SUBSET D
  /\ \A c \in D : Cardinality({y \in D : y < c}) < k <=> c \in E

LEMMA OldestCommands ==
  ASSUME NEW D \in SUBSET Nat, IsFiniteSet(D), NEW F, InOrder(F, D), NEW k,
         NEW S, S = {F[d] : d \in D}, NEW E, AreLeast(E, D, k)
  PROVE  Stack!Oldest(S, k) = {F[d] : d \in E}
<1>1. ASSUME NEW c \in D
      PROVE  Cardinality({x \in S : x # F[c] /\ Stack!Older(x, F[c])})
               = Cardinality({y \in D : y < c})
  <2>1. {x \in S : x # F[c] /\ Stack!Older(x, F[c])} = {F[y] : y \in {z \in D : z < c}}
    <3>1. ASSUME NEW y \in D
          PROVE  (F[y] # F[c] /\ Stack!Older(F[y], F[c])) <=> y < c
      <4>1. (F[y] = F[c] => y = c) /\ (Stack!Older(F[y], F[c]) <=> y < c)
        BY OrderIsExact
      <4>2. c \in Nat
        OBVIOUS
      <4> QED
        BY <4>1, <4>2
    <3> QED
      BY <3>1
  <2>2. {z \in D : z < c} \in SUBSET D
    OBVIOUS
  <2> QED
    BY <2>1, <2>2, OrderCounts
<1> DEFINE M(x) == Cardinality({d \in S : d # x /\ Stack!Older(d, x)}) < k
<1>2. Stack!Oldest(S, k) = {x \in S : M(x)}
  BY SameCardinality DEF Stack!Oldest
<1>3. E \in SUBSET D /\ \A c \in D : M(F[c]) <=> c \in E
  BY <1>1 DEF AreLeast
<1> HIDE DEF M
<1> QED
  BY <1>2, <1>3

-----------------------------------------------------------------------------
\* The invariant of the counts.


LEMMA InitCommandInv == Init => CommandInv
BY DEF Init, CommandInv, PlayBounds, PlayCounts, LowWaterMark

LEMMA QuietLog ==
  ASSUME UNCHANGED heapVars, pc \notin {"truncate", "link"}, pc' \notin {"truncate", "link"}
  PROVE  LogNodes' = LogNodes /\ Delims' = Delims /\ Events' = Events
BY DEF heapVars, LogNodes, Delims, Events, Alive, Heap

\* Between commands the cursor is at a delimiter or before the head.
LEMMA CursorAtDelim ==
  ASSUME IInv, ~tested, undoNumRecentEvents = 0,
         pc \notin {"flush", "truncate"}
  PROVE  /\ undoLogCur \in Delims \cup {NULL}
         /\ LogNodes # {} => undoLogTail \in Delims
BY DEF IInv, CursorPlace, EmptyLog

LEMMA DelimsAreNumbers ==
  ASSUME TypeOK
  PROVE  /\ Delims \in SUBSET Nat /\ IsFiniteSet(Delims)
         /\ \A d \in Delims : d \in Nat /\ d > 0 /\ d \in LogNodes
         /\ \A e \in Events : e \in Nat /\ e > 0 /\ e \in LogNodes /\ e \notin Delims
         /\ \A T \in SUBSET Delims : IsFiniteSet(T) /\ Cardinality(T) \in Nat
BY LogPositive, LogIsFinite, SmallerCard DEF Delims, Events

LEMMA BackwardCounts ==
  ASSUME IInv, ~tested, NEW k \in 1..MaxCount, UndoBackward(k)
  PROVE  CommandInv'
<1>1. Delims' = Delims
  BY QuietLog DEF UndoBackward
<1>2. TakenBack' = {}
  BY <1>1, DelimsAreNumbers, LogPositive DEF IInv, TakenBack, UndoBackward, TypeOK, CursorPlace
<1>3. PlayBounds'
  BY LogPositive DEF IInv, PlayBounds, UndoBackward, CursorPlace
<1> QED
  BY <1>2, <1>3, FS_EmptySet DEF CommandInv, PlayCounts, LowWaterMark, UndoBackward

LEMMA BackwardTestCounts == IInv /\ CommandInv /\ ~tested /\ UndoBackwardTest => CommandInv'
<1> SUFFICES ASSUME IInv, CommandInv, ~tested, UndoBackwardTest PROVE CommandInv'
  OBVIOUS
<1>1. Delims' = Delims /\ TakenBack' = TakenBack
  BY QuietLog DEF UndoBackwardTest, TakenBack
<1>2. iup \in Delims
  <2>1. iup \in LogNodes /\ (iup # undoLogTail => iup \in Delims) /\ undoNumRecentEvents = 0
    BY DEF IInv, PlayPlace, UndoBackwardTest, MoreToUndo, CursorPlace
  <2> QED
    BY <2>1, CursorAtDelim DEF UndoBackwardTest
<1> QED
  BY <1>1, <1>2 DEF CommandInv, PlayBounds, PlayCounts, LowWaterMark, UndoBackwardTest

LEMMA BackwardPlayCounts == IInv /\ CommandInv /\ ~tested /\ UndoBackwardPlay => CommandInv'
<1> SUFFICES ASSUME IInv, CommandInv, ~tested, UndoBackwardPlay PROVE CommandInv'
  OBVIOUS
<1>1. Delims' = Delims /\ LogNodes' = LogNodes
  <2>1. pc' \in {"back", "backTest"}
    BY DEF UndoBackwardPlay
  <2> QED
    BY <2>1, QuietLog DEF UndoBackwardPlay
<1>2. /\ iup \in LogNodes /\ iup \in Nat /\ iup > 0 /\ iup <= undoLogCur /\ undoLogCur \in Nat
      /\ undoLogCur' = undoLogCur /\ pc = "back" /\ count \in Nat
  BY LogPositive, BoundsAssumption DEF IInv, TypeOK, PlayPlace, CursorPlace, CommandInv,
     PlayBounds, UndoBackwardPlay
<1>3. \/ iup' = NULL /\ \A r \in LogNodes : iup <= r
      \/ Adjacent(iup', iup)
  BY <1>2, BackStep, LogPositive DEF IInv, Rewiring, UndoBackwardPlay, undoGetBack, Back, Heap
<1>4. iup' \in Nat /\ iup' < iup /\ (iup' # NULL => iup' \in LogNodes)
  <2>1. CASE iup' = NULL
    BY <1>2, <2>1
  <2>2. CASE Adjacent(iup', iup)
    <3>1. iup' \in LogNodes /\ iup' < iup
      BY <2>2 DEF Adjacent
    <3> QED
      BY <3>1, LogPositive DEF IInv
  <2> QED
    BY <1>3, <2>1, <2>2
<1>5. iup \in Delims => iup' # NULL /\ iup' \notin Delims
  <2> SUFFICES ASSUME iup \in Delims PROVE iup' # NULL /\ iup' \notin Delims
    OBVIOUS
  <2>1. iup # undoLogHead /\ node[iup].back \notin Delims
    BY <1>2 DEF IInv, NoEmptyCommand
  <2>2. Adjacent(node[iup].back, iup)
    BY <1>2, <2>1 DEF IInv, BackLinks
  <2>3. iup' = node[iup].back
    BY <1>2, LogPositive DEF IInv, UndoBackwardPlay, undoGetBack, Back, Heap
  <2> QED
    BY <2>1, <2>2, <2>3, LogPositive DEF IInv, Adjacent
<1>6. IF iup' # NULL /\ iup' \notin Delims
      THEN pc' = "back" /\ count' = count ELSE pc' = "backTest" /\ count' = count + 1
  <2>1. iup' # NULL => (IsDelim(node, iup') <=> iup' \in Delims)
    BY <1>4, LogPositive DEF IInv, IsDelim, Delims, Heap
  <2> QED
    BY <1>2, <2>1 DEF UndoBackwardPlay
<1>7. TakenBack' = IF iup \in Delims THEN TakenBack \cup {iup} ELSE TakenBack
  <2>1. \A d \in Delims : d \in Nat /\ (iup' < d <=> iup < d \/ d = iup)
    BY <1>2, <1>3, <1>4, DelimsAreNumbers DEF IInv, Adjacent
  <2> QED
    BY <1>1, <1>2, <2>1 DEF TakenBack
<1>8. Cardinality(TakenBack') = IF iup \in Delims THEN Cardinality(TakenBack) + 1
                                                  ELSE Cardinality(TakenBack)
  <2>1. IsFiniteSet(TakenBack)
    BY DelimsAreNumbers DEF IInv, TakenBack
  <2>2. iup \notin TakenBack
    BY <1>2 DEF TakenBack
  <2> QED
    BY <1>7, <2>1, <2>2, FS_AddElement
<1>9. PlayCounts'
  <2>1. CASE iup \in Delims
    <3>1. count = Cardinality(TakenBack) /\ iup' # NULL /\ iup' \notin Delims
      BY <1>2, <1>5, <2>1 DEF CommandInv, PlayCounts
    <3> QED
      BY <1>1, <1>6, <1>8, <2>1, <3>1 DEF PlayCounts
  <2>2. CASE iup \notin Delims
    <3>1. count + 1 = Cardinality(TakenBack)
      BY <1>2, <2>2 DEF CommandInv, PlayCounts
    <3> QED
      BY <1>1, <1>6, <1>8, <2>2, <3>1 DEF PlayCounts
  <2> QED
    BY <2>1, <2>2
<1>10. PlayBounds'
  BY <1>2, <1>4, <1>6 DEF PlayBounds
<1> QED
  BY <1>6, <1>9, <1>10 DEF CommandInv, LowWaterMark

\* What UndoForward starts at is the first event past the cursor.
LEMMA ForwardCounts ==
  ASSUME IInv, ~tested, NEW k \in 1..MaxCount, UndoForward(k)
  PROVE  CommandInv'
<1>1. Delims' = Delims
  BY QuietLog DEF UndoForward
<1>2. /\ undoLogCur \in LogNodes \cup {NULL} /\ undoLogCur \in Nat
      /\ pc = "idle" /\ undoLogCur' = undoLogCur
  BY LogPositive DEF IInv, CursorPlace, UndoForward
<1>3. /\ iup' \in LogNodes /\ undoLogCur < iup'
      /\ \A r \in LogNodes : r <= undoLogCur \/ iup' <= r
      /\ iup' = undoLogHead \/ (iup' # undoLogHead /\ Adjacent(undoLogCur, iup'))
  <2>1. CASE undoLogCur = NULL
    BY <2>1, LogPositive DEF IInv, UndoForward, undoGetForw, HeadIsFirst, EmptyLog, CursorPlace
  <2>2. CASE undoLogCur # NULL
    <3>1. undoLogCur \in LogNodes /\ iup' = node[undoLogCur].forw
      BY <1>2, <2>2, LogPositive DEF IInv, UndoForward, undoGetForw, Forw, Heap
    <3> QED
      BY <1>2, <3>1, ForwStep, LogPositive DEF IInv, UndoForward, Rewiring, Adjacent
  <2> QED
    BY <2>1, <2>2
<1>4. iup' \notin Delims
  <2>1. CASE iup' = undoLogHead
    BY <1>2, <2>1 DEF IInv, NoEmptyCommand
  <2>2. CASE iup' # undoLogHead /\ Adjacent(undoLogCur, iup')
    <3>1. Adjacent(node[iup'].back, iup')
      BY <1>2, <1>3, <2>2 DEF IInv, BackLinks
    <3>2. node[iup'].back = undoLogCur
      BY <2>2, <3>1, LogPositive DEF IInv, Adjacent
    <3>3. undoLogCur # undoLogTail /\ undoLogCur # NULL
      BY <1>2, <2>2, LogPositive DEF IInv, Adjacent, TailIsLast
    <3>4. undoLogCur \in Delims
      BY <1>2, <3>3 DEF IInv, CursorPlace
    <3> QED
      BY <1>2, <2>2, <3>2, <3>4 DEF IInv, NoEmptyCommand
  <2> QED
    BY <1>3, <2>1, <2>2
<1>5. Replayed' = {}
  <2>1. \A d \in Delims : d \in LogNodes /\ d \in Nat /\ d # iup'
    BY <1>4, DelimsAreNumbers DEF IInv
  <2>2. \A d \in Delims : ~(undoLogCur < d /\ d <= iup')
    BY <1>2, <1>3, <2>1, LogPositive DEF IInv
  <2> QED
    BY <1>1, <1>2, <2>2 DEF Replayed
<1> QED
  BY <1>2, <1>3, <1>5, FS_EmptySet DEF CommandInv, PlayBounds, PlayCounts, LowWaterMark,
     UndoForward

LEMMA ForwardTestCounts == IInv /\ CommandInv /\ ~tested /\ UndoForwardTest => CommandInv'
<1> SUFFICES ASSUME IInv, CommandInv, ~tested, UndoForwardTest PROVE CommandInv'
  OBVIOUS
<1>1. Delims' = Delims /\ Replayed' = Replayed
  BY QuietLog DEF UndoForwardTest, Replayed
<1> QED
  BY <1>1 DEF CommandInv, PlayBounds, PlayCounts, LowWaterMark, UndoForwardTest

LEMMA ForwardPlayCounts == IInv /\ CommandInv /\ ~tested /\ UndoForwardPlay => CommandInv'
<1> SUFFICES ASSUME IInv, CommandInv, ~tested, UndoForwardPlay PROVE CommandInv'
  OBVIOUS
<1>a. /\ iup \in LogNodes /\ iup \in Nat /\ iup > 0 /\ undoLogCur < iup /\ undoLogCur \in Nat
      /\ undoLogCur' = undoLogCur /\ pc = "forw" /\ count \in Nat
      /\ count = Cardinality(Replayed)
  BY LogPositive, BoundsAssumption DEF IInv, TypeOK, PlayPlace, CursorPlace, CommandInv,
     PlayBounds, PlayCounts, UndoForwardPlay
<1>b. \/ /\ Adjacent(iup, iup') /\ pc' = "forw" /\ count' = count
         /\ iup' \notin Delims
      \/ /\ Adjacent(iup, iup') /\ pc' = "forwTest" /\ count' = count + 1
         /\ iup' \in Delims
      \/ /\ iup' = iup /\ pc' = "forwBreak" /\ count' = count
         /\ \A r \in LogNodes : r <= iup
  BY <1>a, ForwStep, LogPositive DEF IInv, UndoForwardPlay, undoGetForw, Forw, RunOffLog,
     IsDelim, Delims, Adjacent, Rewiring, Heap
<1>1. Delims' = Delims /\ LogNodes' = LogNodes
  <2>1. pc' \in {"forw", "forwTest", "forwBreak"}
    BY <1>b
  <2> QED
    BY <1>a, <2>1, QuietLog DEF UndoForwardPlay
<1>2. IsFiniteSet(Replayed) /\ \A d \in Delims : d \in Nat /\ d \in LogNodes
  BY DelimsAreNumbers DEF IInv, Replayed
<1>3. CASE Adjacent(iup, iup')
  <2>1. \A d \in Delims : d <= iup' <=> d <= iup \/ d = iup'
    BY <1>a, <1>2, <1>3, LogPositive DEF IInv, Adjacent
  <2>2. undoLogCur < iup' /\ iup' \notin Replayed
    BY <1>a, <1>3, LogPositive DEF IInv, Adjacent, Replayed
  <2>3. Replayed' = IF iup' \in Delims THEN Replayed \cup {iup'} ELSE Replayed
    BY <1>1, <1>a, <2>1, <2>2 DEF Replayed
  <2>4. Cardinality(Replayed') = count'
    <3>1. Cardinality(Replayed') = IF iup' \in Delims THEN count + 1 ELSE count
      BY <1>a, <1>2, <2>2, <2>3, FS_AddElement
    <3>2. count' = IF iup' \in Delims THEN count + 1 ELSE count
      BY <1>a, <1>b, <1>3, LogPositive DEF IInv, Adjacent
    <3> QED
      BY <3>1, <3>2
  <2>5. pc' \in {"forw", "forwTest"}
    BY <1>a, <1>b, <1>3, LogPositive DEF IInv, Adjacent
  <2> QED
    BY <1>a, <2>2, <2>4, <2>5 DEF CommandInv, PlayBounds, PlayCounts, LowWaterMark
<1>4. CASE iup' = iup /\ pc' = "forwBreak" /\ count' = count /\ \A r \in LogNodes : r <= iup
  <2>1. {d \in Delims : undoLogCur < d}' = Replayed
    BY <1>1, <1>2, <1>4, <1>a DEF Replayed
  <2> QED
    BY <1>4, <1>a, <2>1 DEF CommandInv, PlayBounds, PlayCounts, LowWaterMark
<1> QED
  BY <1>b, <1>3, <1>4

LEMMA FreeHeadLoopCounts == IInv /\ undoFreeHeadLoop => CommandInv'
<1> SUFFICES ASSUME IInv, undoFreeHeadLoop PROVE CommandInv'
  OBVIOUS
<1>1. /\ pc = "freeHead" /\ undoNumCommands > LOWCOMMANDS /\ undoNumCommands \in Nat
      /\ pc' \in {"freeHead", "freeDelim"}
  BY DEF IInv, TypeOK, FreeHeadPlace, undoFreeHeadLoop
<1>2. pc' = "freeDelim" =>
        undoNumCommands' = undoNumCommands - 1 /\ undoNumCommands' <= LOWCOMMANDS
  BY <1>1 DEF undoFreeHeadLoop, EnoughFreed
<1> QED
  BY <1>1, <1>2, LimitsAssumption DEF CommandInv, PlayBounds, PlayCounts, LowWaterMark

\* Only a flush, or a step that tests again, ends the exception.
LEMMA TestedUntilFlush ==
  ASSUME [Next]_vars, ~tested'
  PROVE  UndoFlushEnd \/ ~tested
BY DEF Next, Continue, vars, Record, Truncate, FreeHead, PlayBackward, PlayForward, Flush,
   UndoNewEvent, UndoNext, undoMemTruncateLoop, undoMemTruncateEnd, UndoNewEventLink,
   undoFreeHeadLoop, undoFreeHeadEnd, windUndoCmd, windRedoCmd, PlowRandomTest, UndoForward,
   UndoBackwardTest, UndoBackwardPlay, UndoBackwardEnd, UndoForwardTest, UndoForwardPlay,
   UndoForwardEnd, UndoDisable, UndoEnable, UndoFlush, UndoFlushLoop, UndoFlushEnd

LEMMA StepCommandInv == IInv /\ CommandInv /\ [Next]_vars => CommandInv'
<1> SUFFICES ASSUME IInv, CommandInv, [Next]_vars, ~tested' PROVE CommandInv'
  BY DEF CommandInv
<1> DEFINE Calm == pc' \in {"idle", "truncate", "link", "freeHead", "flush"}
<1>1. Calm => CommandInv'
  BY DEF CommandInv, PlayBounds, PlayCounts, LowWaterMark
<1>t. CASE UndoFlushEnd
  BY <1>1, <1>t DEF UndoFlushEnd
<1>u. ~UndoFlushEnd => ~tested
  BY TestedUntilFlush
<1>2. CASE Record
  <2>1. Calm
    BY <1>2 DEF Record, UndoNewEvent, UndoNext
  <2> QED
    BY <1>1, <2>1
<1>3. CASE windUndoCmd
  BY <1>3, <1>u, <1>t, BackwardCounts DEF windUndoCmd
<1>4. CASE windRedoCmd
  BY <1>4, <1>u, <1>t, ForwardCounts DEF windRedoCmd
<1>5. CASE PlowRandomTest
  BY <1>5 DEF PlowRandomTest
<1>6. CASE UndoDisable \/ UndoEnable \/ UndoFlush \/ Truncate \/ Flush
  <2>1. Calm
    BY <1>6 DEF UndoDisable, UndoEnable, UndoFlush, Truncate, Flush, undoMemTruncateLoop,
       undoMemTruncateEnd, UndoNewEventLink, UndoFlushLoop, UndoFlushEnd
  <2> QED
    BY <1>1, <2>1
<1>7. CASE FreeHead
  <2>1. undoFreeHeadEnd => Calm
    BY DEF undoFreeHeadEnd
  <2> QED
    BY <1>1, <1>7, <2>1, FreeHeadLoopCounts DEF FreeHead
<1>8. CASE PlayBackward
  <2>1. UndoBackwardEnd => Calm
    BY DEF UndoBackwardEnd
  <2> QED
    BY <1>1, <1>8, <2>1, <1>u, <1>t, BackwardTestCounts, BackwardPlayCounts DEF PlayBackward
<1>9. CASE PlayForward
  <2>1. UndoForwardEnd => Calm
    BY DEF UndoForwardEnd
  <2> QED
    BY <1>1, <1>9, <2>1, <1>u, <1>t, ForwardTestCounts, ForwardPlayCounts DEF PlayForward
<1>10. CASE UNCHANGED vars
  BY <1>10 DEF vars, CommandInv, PlayBounds, PlayCounts, LowWaterMark, TakenBack, Replayed,
     Delims, LogNodes, Alive, Heap
<1> QED
  BY <1>2, <1>3, <1>4, <1>5, <1>6, <1>7, <1>8, <1>9, <1>10 DEF Next, Continue

-----------------------------------------------------------------------------
\* The steps of the log as steps of the command stack.

LEMMA InitStack == Init => Stack!StackInit
<1> SUFFICES ASSUME Init PROVE Stack!StackInit
  OBVIOUS
<1>1. LogNodes = {} /\ Delims = {} /\ Events = {}
  BY DEF Init, LogNodes, Delims, Events, Alive, Heap
<1>2. doneBar = {} /\ openBar = {} /\ undoneBar = {}
  BY <1>1 DEF Init, Promised, doneBar, openBar, undoneBar, Commands, Kept, Recorded, Arriving
<1> QED
  BY <1>2 DEF Stack!StackInit

\* Every delimiter of the log at rest ends a command with an event in it, and
\* the commands follow one another.
LEMMA CommandsInOrder ==
  ASSUME IInv, ~Rewiring
  PROVE  InOrder([d \in Delims |-> CommandOf(d)], Delims)
<1> DEFINE F == [d \in Delims |-> CommandOf(d)]
<1>1. ASSUME NEW d \in Delims
      PROVE  F[d] \in SUBSET Nat /\ F[d] # {}
  <2>1. F[d] \in SUBSET Nat
    BY DelimsAreNumbers DEF IInv, CommandOf
  <2>2. d # undoLogHead /\ node[d].back \notin Delims
    BY DEF IInv, NoEmptyCommand, Rewiring
  <2>3. Adjacent(node[d].back, d)
    BY <2>2, DelimsAreNumbers DEF IInv, BackLinks, Rewiring
  <2>4. node[d].back \in Events /\ node[d].back < d
    BY <2>2, <2>3 DEF Adjacent, Events
  <2>5. \A c \in Delims : c < d => c < node[d].back
    BY <2>2, <2>3, <2>4, DelimsAreNumbers DEF IInv, Adjacent
  <2>6. node[d].back \in CommandOf(d)
    BY <2>4, <2>5 DEF CommandOf
  <2> QED
    BY <2>1, <2>6
<1>2. ASSUME NEW c \in Delims, NEW d \in Delims, c < d
      PROVE  Stack!Older(F[c], F[d])
  <2>1. \A e \in F[c] : e \in Nat /\ e < c
    BY DelimsAreNumbers DEF IInv, CommandOf
  <2>2. \A f \in F[d] : f \in Nat /\ c < f
    BY <1>2, DelimsAreNumbers DEF IInv, CommandOf
  <2>3. c \in Nat
    BY DelimsAreNumbers DEF IInv
  <2> QED
    BY <2>1, <2>2, <2>3 DEF Stack!Older
<1> QED
  BY <1>1, <1>2 DEF InOrder

LEMMA OrderOfPart ==
  ASSUME NEW F, NEW D, InOrder(F, D), NEW E \in SUBSET D
  PROVE  InOrder(F, E)
BY DEF InOrder

\* With the cursor at a delimiter, no event is recorded and not yet closed.
LEMMA NothingOpen ==
  ASSUME IInv, undoLogCur \in Delims \cup {NULL}
  PROVE  Recorded = {}
BY DelimsAreNumbers DEF IInv, Recorded

\* Nothing but the cursor moves the commands while the log is at rest.
LEMMA AtRest ==
  ASSUME UNCHANGED heapVars, undoLogCur' = undoLogCur, ~Rewiring, ~Rewiring',
         ~tested, ~tested'
  PROVE  UNCHANGED Stack!stackVars
<1>1. LogNodes' = LogNodes /\ Delims' = Delims /\ Events' = Events
  BY QuietLog DEF Rewiring
<1>2. \A d : CommandOf(d)' = CommandOf(d)
  BY <1>1 DEF CommandOf
<1>3. Kept' = Kept /\ Recorded' = Recorded /\ Arriving' = Arriving
  BY <1>1 DEF Kept, Recorded, Arriving, Rewiring
<1>4. doneBar' = doneBar /\ openBar' = openBar /\ undoneBar' = undoneBar
  BY <1>1, <1>2, <1>3 DEF Promised, doneBar, openBar, undoneBar, Commands, Rewiring
<1> QED
  BY <1>4 DEF Stack!stackVars

LEMMA BackwardEndUndoes ==
  ASSUME IInv, CommandInv, ~tested, ~tested', UndoBackwardEnd
  PROVE  n \in 1..MaxCount /\ Stack!UndoCommands(n)
<1> DEFINE F == [d \in Delims |-> CommandOf(d)]
           D == {d \in Delims : d <= undoLogCur}
           T == {d \in D : iup < d}
<1>1. /\ pc = "backTest" /\ pc' = "idle" /\ undoLogCur' = iup /\ undoNumRecentEvents = 0
      /\ n \in 1..MaxCount /\ count \in 0..n /\ (count >= n \/ iup = NULL)
      /\ iup \in LogNodes \cup {NULL} /\ (iup # NULL /\ iup # undoLogTail => iup \in Delims)
      /\ iup <= undoLogCur
  BY BoundsAssumption DEF IInv, TypeOK, PlayPlace, Playing, CursorPlace, CommandInv,
     PlayBounds, UndoBackwardEnd, MoreToUndo
<1>2. undoLogCur \in Delims \cup {NULL} /\ iup \in Delims \cup {NULL}
      /\ undoLogCur \in Nat /\ iup \in Nat
  <2>1. undoLogCur \in Delims \cup {NULL} /\ iup \in Delims \cup {NULL}
    BY <1>1, CursorAtDelim
  <2> QED
    BY <2>1, DelimsAreNumbers DEF IInv
<1>3. LogNodes' = LogNodes /\ Delims' = Delims /\ Events' = Events
  BY <1>1, QuietLog DEF UndoBackwardEnd
<1>4. \A d : CommandOf(d)' = CommandOf(d)
  BY <1>3 DEF CommandOf
<1>5. InOrder(F, D) /\ D \in SUBSET Nat /\ IsFiniteSet(D)
  BY <1>1, CommandsInOrder, OrderOfPart, DelimsAreNumbers DEF IInv, Rewiring
<1>6. /\ doneBar = {F[d] : d \in D} /\ openBar = {}
      /\ undoneBar = {F[d] : d \in {c \in Delims : undoLogCur < c}}
  <2>1. Kept = D /\ Arriving = {} /\ Recorded = {}
    BY <1>1, <1>2, NothingOpen DEF Kept, Arriving
  <2> QED
    BY <1>1, <2>1 DEF Promised, doneBar, openBar, undoneBar, Commands
<1>7. /\ doneBar' = {F[d] : d \in {c \in Delims : c <= iup}} /\ openBar' = {}
      /\ undoneBar' = {F[d] : d \in {c \in Delims : iup < c}}
  <2>1. Kept' = {c \in Delims : c <= iup} /\ Arriving' = {}
    BY <1>1, <1>3 DEF Kept, Arriving
  <2>2. Recorded' = {}
    BY <1>1, <1>2, <1>3, DelimsAreNumbers DEF IInv, Recorded
  <2> QED
    BY <1>1, <1>3, <1>4, <2>1, <2>2 DEF Promised, doneBar, openBar, undoneBar, Commands
<1>8. \A d \in D : Cardinality({y \in D : d < y}) < n <=> iup < d
  <2>1. T = TakenBack
    BY DEF TakenBack
  <2>2. count = Cardinality(T)
    BY <1>1, <2>1 DEF CommandInv, PlayCounts
  <2>3. count = n \/ \A d \in D : iup < d
    BY <1>1, DelimsAreNumbers DEF IInv
  <2>4. Cardinality(T) <= n /\ n \in Nat
    BY <1>1, <2>2, BoundsAssumption
  <2> QED
    BY <1>2, <1>5, <2>2, <2>3, <2>4, NewestNumbers
<1>9. Stack!Newest(doneBar, n) = {F[d] : d \in T}
  <2>1. T \in SUBSET D /\ \A c \in D : Cardinality({y \in D : c < y}) < n <=> c \in T
    BY <1>8
  <2> HIDE DEF F, D, T
  <2> QED
    BY <1>5, <1>6, <2>1, NewestCommands
<1>10. \A c, d \in D : F[c] = F[d] => c = d
  BY <1>5, OrderIsExact
<1>11. \A d \in Delims : /\ d <= iup <=> d \in D /\ d \notin T
                         /\ iup < d <=> undoLogCur < d \/ d \in T
  BY <1>1, <1>2, DelimsAreNumbers DEF IInv
<1>12. doneBar' = doneBar \ Stack!Newest(doneBar, n)
  BY <1>6, <1>7, <1>9, <1>10, <1>11
<1>13. undoneBar' = undoneBar \cup Stack!Newest(doneBar, n)
  BY <1>6, <1>7, <1>9, <1>11
<1> QED
  BY <1>1, <1>6, <1>7, <1>12, <1>13 DEF Stack!UndoCommands

LEMMA ForwardEndRedoes ==
  ASSUME IInv, CommandInv, ~tested, ~tested', UndoForwardEnd
  PROVE  n \in 1..MaxCount /\ Stack!RedoCommands(n)
<1> DEFINE F == [d \in Delims |-> CommandOf(d)]
           D == {d \in Delims : undoLogCur < d}
           T == {d \in D : d <= iup}
<1>1. /\ pc \in {"forwTest", "forwBreak"} /\ pc' = "idle" /\ undoLogCur' = iup
      /\ undoNumRecentEvents = 0 /\ n \in 1..MaxCount /\ count \in 0..n
      /\ pc = "forwTest" => count >= n
      /\ iup \in LogNodes /\ (iup # undoLogTail => iup \in Delims)
      /\ pc = "forwBreak" => \A r \in LogNodes : r <= iup
      /\ undoLogCur \in LogNodes \cup {NULL}
  BY BoundsAssumption DEF IInv, TypeOK, PlayPlace, Playing, CursorPlace, TailIsLast,
     UndoForwardEnd
<1>2. undoLogCur \in Delims \cup {NULL} /\ iup \in Delims
      /\ undoLogCur \in Nat /\ iup \in Nat /\ undoLogCur <= iup
  <2>1. undoLogCur \in Delims \cup {NULL} /\ iup \in Delims
    BY <1>1, CursorAtDelim
  <2>2. undoLogCur <= iup
    BY <1>1, LogPositive DEF IInv, CommandInv, PlayBounds
  <2> QED
    BY <2>1, <2>2, DelimsAreNumbers DEF IInv
<1>3. LogNodes' = LogNodes /\ Delims' = Delims /\ Events' = Events
  BY <1>1, QuietLog DEF UndoForwardEnd
<1>4. \A d : CommandOf(d)' = CommandOf(d)
  BY <1>3 DEF CommandOf
<1>5. InOrder(F, D) /\ D \in SUBSET Nat /\ IsFiniteSet(D)
  BY <1>1, CommandsInOrder, OrderOfPart, DelimsAreNumbers DEF IInv, Rewiring
<1>6. /\ doneBar = {F[d] : d \in {c \in Delims : c <= undoLogCur}} /\ openBar = {}
      /\ undoneBar = {F[d] : d \in D}
  <2>1. Kept = {c \in Delims : c <= undoLogCur} /\ Arriving = {} /\ Recorded = {}
    BY <1>1, <1>2, NothingOpen DEF Kept, Arriving
  <2> QED
    BY <1>1, <2>1 DEF Promised, doneBar, openBar, undoneBar, Commands
<1>7. /\ doneBar' = {F[d] : d \in {c \in Delims : c <= iup}} /\ openBar' = {}
      /\ undoneBar' = {F[d] : d \in {c \in Delims : iup < c}}
  <2>1. Kept' = {c \in Delims : c <= iup} /\ Arriving' = {}
    BY <1>1, <1>3 DEF Kept, Arriving
  <2>2. Recorded' = {}
    BY <1>1, <1>2, <1>3, DelimsAreNumbers DEF IInv, Recorded
  <2> QED
    BY <1>1, <1>3, <1>4, <2>1, <2>2 DEF Promised, doneBar, openBar, undoneBar, Commands
<1>8. \A d \in D : Cardinality({y \in D : y < d}) < n <=> d <= iup
  <2>1. pc = "forwTest" => T = Replayed
    BY DEF Replayed
  <2>2. pc = "forwBreak" => T = D /\ \A d \in D : d <= iup
    BY <1>1, DelimsAreNumbers DEF IInv
  <2>3. count = Cardinality(T)
    BY <1>1, <2>1, <2>2 DEF CommandInv, PlayCounts
  <2>4. Cardinality(T) <= n /\ n \in Nat /\ (Cardinality(T) = n \/ \A d \in D : d <= iup)
    BY <1>1, <2>2, <2>3, BoundsAssumption
  <2> QED
    BY <1>2, <1>5, <2>4, OldestNumbers
<1>9. Stack!Oldest(undoneBar, n) = {F[d] : d \in T}
  <2>1. T \in SUBSET D /\ \A c \in D : Cardinality({y \in D : y < c}) < n <=> c \in T
    BY <1>8
  <2> HIDE DEF F, D, T
  <2>2. AreLeast(T, D, n)
    BY <2>1 DEF AreLeast
  <2> QED
    BY <1>5, <1>6, <2>2, OldestCommands
<1>10. \A c, d \in D : F[c] = F[d] => c = d
  BY <1>5, OrderIsExact
<1>11. \A d \in Delims : /\ iup < d <=> d \in D /\ d \notin T
                         /\ d <= iup <=> d <= undoLogCur \/ d \in T
  BY <1>1, <1>2, DelimsAreNumbers DEF IInv
<1>12. undoneBar' = undoneBar \ Stack!Oldest(undoneBar, n)
  BY <1>6, <1>7, <1>9, <1>10, <1>11
<1>13. doneBar' = doneBar \cup Stack!Oldest(undoneBar, n)
  BY <1>6, <1>7, <1>9, <1>11
<1> QED
  BY <1>1, <1>6, <1>7, <1>12, <1>13 DEF Stack!RedoCommands

LEMMA NewEventRecords ==
  ASSUME IInv, ~tested, ~tested', UndoNewEvent
  PROVE  Stack!RecordEvent(lastNode + 1) /\ lastNode + 1 \in 1..MaxNode
<1> DEFINE new == lastNode + 1
<1>1. /\ new \in 1..MaxNode /\ pc = "idle" /\ pc' \in {"truncate", "link"}
      /\ iup' = new /\ new \notin Heap /\ \A p \in LogNodes : p < new
      /\ LogNodes = Heap \ {freeDelayedItem} /\ new # NULL /\ undoLogCur' = undoLogCur
  BY LogPositive, BoundsAssumption DEF IInv, TypeOK, UndoNewEvent, LogNodes, Alive
<1>2. Heap' = LogNodes \cup {new} /\ Alive' = LogNodes \cup {new}
  BY <1>1, LogPositive DEF IInv, UndoNewEvent, mallocMagic, Alive, Heap
<1>3. \A p \in LogNodes : node'[p] = node[p]
  BY <1>1 DEF UndoNewEvent, mallocMagic
<1>4. LogNodes' = LogNodes /\ Delims' = Delims /\ Events' = Events
  <2>1. LogNodes' = LogNodes
    BY <1>1, <1>2 DEF LogNodes
  <2> QED
    BY <1>3, <2>1 DEF Delims, Events
<1>5. /\ doneBar' = doneBar /\ openBar' = openBar \cup {new} /\ undoneBar' = {}
      /\ openBar = Recorded
  <2>1. \A d : CommandOf(d)' = CommandOf(d)
    BY <1>4 DEF CommandOf
  <2>2. Kept' = Kept /\ Recorded' = Recorded /\ Arriving' = {new} /\ Arriving = {}
    BY <1>1, <1>4 DEF Kept, Recorded, Arriving
  <2> QED
    BY <1>1, <2>1, <2>2 DEF Promised, doneBar, openBar, undoneBar, Commands
<1>6. Stack!Fresh(new)
  <2>1. \A c \in doneBar \cup undoneBar : c \subseteq Events
    BY <1>1 DEF Promised, doneBar, undoneBar, Commands, CommandOf
  <2>2. openBar \subseteq Events
    BY <1>5 DEF Recorded
  <2>3. \A e \in Events : e < new
    BY <1>1, DelimsAreNumbers DEF IInv
  <2> QED
    BY <2>1, <2>2, <2>3 DEF Stack!Fresh
<1> QED
  BY <1>1, <1>5, <1>6 DEF Stack!RecordEvent

\* The delimiter turns the open command into the newest one that is done; when
\* there are too many, the oldest are given up from here on.
LEMMA NextCloses ==
  ASSUME IInv, ~tested, ~tested', UndoNext
  PROVE  Stack!CloseCommand
<1> DEFINE new == lastNode + 1
           F == [d \in Delims |-> CommandOf(d)]
           D == Delims \cup {new}
           G == [d \in D |-> IF d = new THEN openBar ELSE CommandOf(d)]
           all == doneBar \cup {openBar}
<1>1. /\ pc = "idle" /\ pc' \in {"idle", "freeHead"}
      /\ new \in Nat /\ new > 0 /\ new \notin Heap /\ \A p \in LogNodes : p < new
      /\ LogNodes = Heap \ {freeDelayedItem}
      /\ undoLogTail \in Events /\ undoLogTail \in LogNodes /\ undoLogCur = undoLogTail
      /\ \A p \in LogNodes : p <= undoLogTail
      /\ undoLogCur' = new
  <2>1. undoLogTail \in Events /\ undoLogTail \in LogNodes /\ undoLogCur = undoLogTail
    BY DEF IInv, UndoNext, SomethingRecent, CursorPlace, Events
  <2> QED
    BY <2>1, LogPositive, BoundsAssumption DEF IInv, TypeOK, UndoNext, LogNodes,
       Alive, TailIsLast
<1>2. LogNodes' = LogNodes \cup {new} /\ Delims' = D /\ Events' = Events
  <2> DEFINE e == [type |-> UT_DELIM, back |-> undoLogTail, forw |-> NULL]
             heap == mallocMagic(e)
  <2>1. /\ DOMAIN heap = LogNodes \cup {new} /\ \A p \in LogNodes : heap[p] = node[p]
        /\ heap[new] = e
    BY <1>1 DEF mallocMagic
  <2>2. \A p \in LogNodes : node[p] \in Event
    BY LogPositive DEF IInv
  <2> HIDE DEF heap
  <2>3. node' = [heap EXCEPT ![undoLogTail].forw = new] /\ freeDelayedItem' = NULL
    BY <1>1, LogPositive DEF IInv, UndoNext, heap
  <2>4. /\ DOMAIN node' = LogNodes \cup {new} /\ node'[new].type = UT_DELIM
        /\ \A p \in LogNodes : node'[p].type = node[p].type
    BY <1>1, <2>1, <2>2, <2>3 DEF Event
  <2>5. LogNodes' = LogNodes \cup {new}
    BY <1>1, <2>3, <2>4, LogPositive DEF IInv, LogNodes, Alive, Heap
  <2>6. Delims' = D
    BY <2>4, <2>5 DEF Delims
  <2> QED
    BY <1>1, <2>5, <2>6 DEF Events, Delims
<1>3. /\ new \notin Delims /\ new \in Nat /\ D \in SUBSET Nat /\ IsFiniteSet(D)
      /\ \A d \in Delims : d \in Nat /\ d < new /\ d <= undoLogCur
      /\ \A e \in Events : e \in Nat /\ e < new /\ e <= undoLogCur
      /\ undoLogCur \in Nat
  BY <1>1, DelimsAreNumbers, FS_AddElement DEF IInv
<1>4. /\ openBar = {e \in Events : \A d \in Delims : d < e} /\ undoLogCur \in openBar
      /\ undoneBar = {} /\ doneBar = {F[d] : d \in Delims}
  <2>1. Recorded = {e \in Events : \A d \in Delims : d < e}
    BY <1>3 DEF Recorded
  <2>3. Kept = Delims
    BY <1>1, <1>3 DEF Kept
  <2>4. \A d \in Delims : ~(undoLogCur < d)
    BY <1>3
  <2>2. \A d \in Delims : d < undoLogCur
    BY <1>1, <1>3, DelimsAreNumbers DEF IInv
  <2> QED
    BY <1>1, <2>1, <2>2, <2>3, <2>4 DEF Promised, openBar, Arriving, undoneBar, doneBar, Commands
<1>5. InOrder(F, Delims)
  BY <1>1, CommandsInOrder DEF Rewiring
<1>6. InOrder(G, D)
  <2>1. ASSUME NEW d \in D PROVE G[d] \in SUBSET Nat /\ G[d] # {}
    <3>1. CASE d = new
      BY <1>3, <1>4, <3>1
    <3>2. CASE d # new
      BY <1>5, <3>2 DEF InOrder
    <3> QED
      BY <3>1, <3>2
  <2>2. ASSUME NEW c \in D, NEW d \in D, c < d PROVE Stack!Older(G[c], G[d])
    <3>1. c \in Delims
      BY <1>3, <2>2
    <3>2. CASE d = new
      <4>1. \A e \in CommandOf(c) : e \in Nat /\ e < c
        BY <1>3 DEF CommandOf
      <4> QED
        BY <1>3, <1>4, <3>1, <3>2, <4>1 DEF Stack!Older
    <3>3. CASE d # new
      BY <1>3, <1>5, <2>2, <3>1, <3>3 DEF InOrder
    <3> QED
      BY <3>2, <3>3
  <2> QED
    BY <2>1, <2>2 DEF InOrder
<1>7. all = {G[d] : d \in D}
  BY <1>3, <1>4
<1>8. \A d \in D : CommandOf(d)' = G[d]
  <2>1. ASSUME NEW d, d = new PROVE CommandOf(d)' = openBar
    <3>1. CommandOf(d)' = {e \in Events : e < d /\ \A c \in D : c < d => c < e}
      BY <1>2 DEF CommandOf
    <3>2. \A e \in Events : (\A c \in D : c < d => c < e) <=> \A c \in Delims : c < e
      BY <1>3, <2>1
    <3>3. \A e \in Events : e < d
      BY <1>3, <2>1
    <3> QED
      BY <1>4, <3>1, <3>2, <3>3
  <2>2. \A d \in Delims : CommandOf(d)' = CommandOf(d)
    BY <1>2, <1>3 DEF CommandOf
  <2> QED
    BY <1>3, <2>1, <2>2
<1>9. /\ doneBar' = {G[d] : d \in Kept'} /\ openBar' = {} /\ undoneBar' = {}
  <2>1. Kept' \subseteq D
    BY <1>2 DEF Kept
  <2>2. Recorded' = {}
    <3>1. \A e \in Events : ~(new < e)
      BY <1>3
    <3>2. new \in D /\ new <= undoLogCur'
      BY <1>1
    <3>3. Recorded' = {e \in Events : e <= undoLogCur' /\
                          \A d \in D : d <= undoLogCur' => d < e}
      BY <1>2 DEF Recorded
    <3> QED
      BY <3>1, <3>2, <3>3
  <2>3. {d \in Delims : undoLogCur < d}' = {}
    BY <1>1, <1>2, <1>3
  <2> QED
    BY <1>1, <1>8, <2>1, <2>2, <2>3 DEF Promised, doneBar, openBar, undoneBar, Arriving, Commands
<1>10. Cardinality(all) = Cardinality(D) /\ Cardinality(D) = undoNumCommands'
       /\ Cardinality(D) \in Nat
  <2>1. Cardinality(all) = Cardinality(D)
    <3>1. D \in SUBSET D
      OBVIOUS
    <3> HIDE DEF G, D, all
    <3> QED
      BY <1>3, <1>6, <1>7, <3>1, OrderCounts
  <2>2. Cardinality(D) = Cardinality(Delims) + 1 /\ Cardinality(Delims) \in Nat
    BY <1>3, DelimsAreNumbers, FS_AddElement DEF IInv
  <2>3. undoNumCommands' = undoNumCommands + 1 /\ undoNumCommands = Cardinality(Delims)
    BY <1>1 DEF IInv, CountPlace, UndoNext
  <2> QED
    BY <2>1, <2>2, <2>3
<1>11. doneBar' = IF Cardinality(all) >= MAXCOMMANDS THEN Stack!Newest(all, LOWCOMMANDS) ELSE all
  <2> DEFINE E == {c \in D : Cardinality({y \in D : c < y}) < LOWCOMMANDS}
  <2>1. Stack!Newest(all, LOWCOMMANDS) = {G[d] : d \in E}
    <3>1. E \in SUBSET D
          /\ \A c \in D : Cardinality({y \in D : c < y}) < LOWCOMMANDS <=> c \in E
      OBVIOUS
    <3>2. D \in SUBSET Nat /\ IsFiniteSet(D)
      BY <1>3
    <3> HIDE DEF G, D, all, E
    <3> QED
      BY <1>6, <1>7, <3>1, <3>2, NewestCommands
  <2>2. CASE Cardinality(all) >= MAXCOMMANDS /\ Cardinality(all) > LOWCOMMANDS
    <3>1. pc' = "freeHead"
      BY <1>10, <2>2 DEF UndoNext
    <3>2. Kept' = E
      BY <1>2, <3>1 DEF Kept, Newer
    <3> QED
      BY <1>9, <2>1, <2>2, <3>2
  <2>3. CASE Cardinality(all) >= MAXCOMMANDS /\ ~(Cardinality(all) > LOWCOMMANDS)
    <3>1. Kept' = D
      BY <1>1, <1>2, <1>3, <1>10, <2>3 DEF Kept, UndoNext
    <3>2. E = D
      <4>1. ASSUME NEW c \in D PROVE Cardinality({y \in D : c < y}) < LOWCOMMANDS
        <5>1. {y \in D : c < y} \in SUBSET D /\ {y \in D : c < y} # D
          BY <1>3
        <5>2. Cardinality({y \in D : c < y}) < Cardinality(D)
              /\ Cardinality({y \in D : c < y}) \in Nat
          BY <1>3, <5>1, SmallerCard
        <5> QED
          BY <1>10, <2>3, <5>2, LimitsAssumption
      <4> QED
        BY <4>1
    <3> QED
      BY <1>7, <1>9, <2>1, <2>3, <3>1, <3>2
  <2>4. CASE ~(Cardinality(all) >= MAXCOMMANDS)
    <3>1. Kept' = D
      BY <1>1, <1>2, <1>3, <1>10, <2>4 DEF Kept, UndoNext
    <3> QED
      BY <1>7, <1>9, <2>4, <3>1
  <2> QED
    BY <2>2, <2>3, <2>4
<1> QED
  BY <1>4, <1>9, <1>11, SameCardinality DEF Stack!CloseCommand

\* Freeing a node of the log takes it out and leaves the others as they were.
LEMMA FreedFromLog ==
  ASSUME TypeOK, NEW q \in LogNodes, node' = freeMagic(q), freeDelayedItem' = q,
         iup' = iup, pc \in {"truncate", "link"} <=> pc' \in {"truncate", "link"}
  PROVE  LogNodes' = LogNodes \ {q} /\ Delims' = Delims \ {q} /\ Events' = Events \ {q}
<1>1. /\ Alive' = Alive \ {q} /\ \A p \in Alive : node'[p] = node[p]
      /\ LogNodes \subseteq Alive
  BY FreeMagicStep DEF LogNodes
<1>2. LogNodes' = LogNodes \ {q}
  BY <1>1 DEF LogNodes
<1> QED
  BY <1>1, <1>2 DEF Delims, Events

\* UndoNewEvent has told the stack already what its truncation will do.
LEMMA TruncateLoopStutters ==
  ASSUME IInv, ~tested, ~tested', undoMemTruncateLoop
  PROVE  UNCHANGED Stack!stackVars
<1>1. /\ pc = "truncate" /\ pc' = "truncate" /\ up \in LogNodes /\ up \in Nat
      /\ undoLogCur < up /\ undoLogCur \in Nat /\ undoLogCur' = undoLogCur /\ iup' = iup
  BY LogPositive DEF IInv, TruncatePlace, CursorPlace, undoMemTruncateLoop
<1>2. Delims' = Delims \ {up} /\ Events' = Events \ {up}
  BY <1>1, FreedFromLog DEF IInv, undoMemTruncateLoop
<1>3. \A p \in Delims \cup Events : p \in Nat
  BY DelimsAreNumbers DEF IInv
<1>4. \A d \in Delims : d <= undoLogCur => CommandOf(d)' = CommandOf(d)
  BY <1>1, <1>2, <1>3 DEF CommandOf
<1>5. Kept' = Kept /\ Kept = {d \in Delims : d <= undoLogCur}
  BY <1>1, <1>2, <1>3 DEF Kept
<1>6. Recorded' = Recorded /\ Arriving' = Arriving
  BY <1>1, <1>2, <1>3 DEF Recorded, Arriving
<1>7. doneBar' = doneBar /\ openBar' = openBar /\ undoneBar' = undoneBar
  BY <1>1, <1>4, <1>5, <1>6 DEF Promised, doneBar, openBar, undoneBar, Commands
<1> QED
  BY <1>7 DEF Stack!stackVars

LEMMA TruncateEndStutters ==
  ASSUME IInv, ~tested, ~tested', undoMemTruncateEnd
  PROVE  UNCHANGED Stack!stackVars
<1>1. /\ pc = "truncate" /\ pc' = "link" /\ undoLogCur' = undoLogCur /\ iup' = iup
      /\ undoLogCur \in LogNodes \cup {NULL} /\ freeDelayedItem' = freeDelayedItem
  BY DEF IInv, CursorPlace, undoMemTruncateEnd
<1>2. DOMAIN node' = DOMAIN node /\ \A p \in Heap : node'[p].type = node[p].type
  <2>1. CASE undoLogCur = NULL
    BY <2>1 DEF undoMemTruncateEnd
  <2>2. CASE undoLogCur # NULL
    BY <1>1, <2>2 DEF IInv, TypeOK, undoMemTruncateEnd, Heap, Event
  <2> QED
    BY <2>1, <2>2
<1>3. LogNodes' = LogNodes /\ Delims' = Delims /\ Events' = Events
  BY <1>1, <1>2 DEF LogNodes, Delims, Events, Alive, Heap
<1>4. \A d : CommandOf(d)' = CommandOf(d)
  BY <1>3 DEF CommandOf
<1>5. Kept' = Kept /\ Recorded' = Recorded /\ Arriving' = Arriving
  BY <1>1, <1>3 DEF Kept, Recorded, Arriving
<1>6. doneBar' = doneBar /\ openBar' = openBar /\ undoneBar' = undoneBar
  BY <1>1, <1>3, <1>4, <1>5 DEF Promised, doneBar, openBar, undoneBar, Commands
<1> QED
  BY <1>6 DEF Stack!stackVars

LEMMA LinkStutters ==
  ASSUME IInv, ~tested, ~tested', UndoNewEventLink
  PROVE  UNCHANGED Stack!stackVars
<1>1. /\ pc = "link" /\ pc' = "idle" /\ iup \in Alive /\ iup \notin LogNodes
      /\ node[iup].type = CLIENT /\ iup \in Nat /\ iup > 0 /\ undoLogCur' = iup
      /\ \A p \in LogNodes : p < iup /\ p <= undoLogCur
      /\ undoLogCur \in LogNodes \cup {NULL} /\ freeDelayedItem' = freeDelayedItem
  BY LogPositive DEF IInv, TypeOK, TruncatePlace, CursorPlace, TailIsLast, UndoNewEventLink,
     LogNodes, Alive
<1>2. DOMAIN node' = DOMAIN node /\ \A p \in Heap : node'[p].type = node[p].type
  <2>1. CASE undoLogCur = NULL
    BY <2>1 DEF UndoNewEventLink
  <2>2. CASE undoLogCur # NULL
    BY <1>1, <2>2 DEF IInv, TypeOK, UndoNewEventLink, Heap, Event
  <2> QED
    BY <2>1, <2>2
<1>3. LogNodes' = LogNodes \cup {iup} /\ Delims' = Delims /\ Events' = Events \cup {iup}
  <2>1. LogNodes' = LogNodes \cup {iup}
    BY <1>1, <1>2 DEF LogNodes, Alive, Heap
  <2>2. Delims' = Delims
    BY <1>1, <1>2, <2>1 DEF Delims, LogNodes, Alive, CLIENT, UT_DELIM
  <2> QED
    BY <1>1, <2>1, <2>2 DEF Events, Delims
<1>4. \A d \in Delims : CommandOf(d)' = CommandOf(d) /\ d <= undoLogCur /\ d <= iup /\ d < iup
                        /\ d \in Nat
  BY <1>1, <1>3, DelimsAreNumbers DEF IInv, CommandOf
<1>5. Kept = Delims /\ Kept' = Delims
  BY <1>1, <1>3, <1>4 DEF Kept
<1>6. Recorded' = Recorded \cup {iup} /\ Arriving = {iup} /\ Arriving' = {}
  <2>1. \A e \in Events : e <= undoLogCur /\ e <= iup
    BY <1>1, DelimsAreNumbers DEF IInv
  <2> QED
    BY <1>1, <1>3, <1>4, <2>1 DEF Recorded, Arriving
<1>7. doneBar' = doneBar /\ openBar' = openBar
  BY <1>1, <1>4, <1>5, <1>6 DEF Promised, doneBar, openBar, Commands
<1>8. undoneBar = {} /\ undoneBar' = {}
  <2>1. \A d \in Delims : ~(iup < d)
    BY <1>1, <1>4
  <2> QED
    BY <1>1, <1>3, <2>1 DEF Promised, undoneBar, Commands
<1> QED
  BY <1>7, <1>8 DEF Stack!stackVars

\* Nothing of the commands that are kept is freed: an older one still stands
\* between the head and them.
LEMMA FreeHeadLoopStutters ==
  ASSUME IInv, ~tested, ~tested', undoFreeHeadLoop
  PROVE  UNCHANGED Stack!stackVars
<1> DEFINE h == undoLogHead
<1>1. /\ pc = "freeHead" /\ pc' \in {"freeHead", "freeDelim"} /\ iup' = iup
      /\ h \in LogNodes /\ h \in Nat /\ \A p \in LogNodes : h <= p
      /\ undoLogCur \in Delims /\ undoLogCur' = undoLogCur
      /\ \A p \in LogNodes : p <= undoLogCur
      /\ undoNumCommands = Cardinality(Delims \ {h}) /\ undoNumCommands > LOWCOMMANDS
  BY HeadHasSuccessor, LogPositive DEF IInv, FreeHeadPlace, undoFreeHeadLoop, HeadIsFirst,
     TailIsLast
<1>2. Delims' = Delims \ {h} /\ Events' = Events \ {h}
  BY <1>1, FreedFromLog DEF IInv, undoFreeHeadLoop
<1>3. /\ \A p \in Delims \cup Events : p \in Nat /\ h <= p /\ p <= undoLogCur
      /\ IsFiniteSet(Delims)
      /\ \A d : IsFiniteSet(Newer(d)) /\ Cardinality(Newer(d)) \in Nat
  BY <1>1, DelimsAreNumbers DEF IInv, Newer
<1>4. \A d \in Delims : Newer(d)' = Newer(d)
  BY <1>1, <1>2, <1>3 DEF Newer
<1>5. ASSUME NEW d \in Kept
      PROVE  d \in Delims /\ d # h /\ \E c \in Delims : c < d /\ c # d
  <2>1. d \in Delims /\ Cardinality(Newer(d)) < LOWCOMMANDS
    BY <1>1 DEF Kept
  <2>2. PICK c \in Delims \ {h} : c \notin Newer(d) \cup {d}
    <3>1. IsFiniteSet(Newer(d) \cup {d}) /\ Cardinality(Newer(d) \cup {d}) <= LOWCOMMANDS
      <4>1. Cardinality(Newer(d) \cup {d}) = Cardinality(Newer(d)) + 1
            /\ IsFiniteSet(Newer(d) \cup {d})
        <5>1. d \notin Newer(d)
          BY <1>3, <2>1 DEF Newer
        <5> QED
          BY <1>3, <5>1, FS_AddElement
      <4> QED
        BY <1>3, <2>1, <4>1, LimitsAssumption
    <3>2. Cardinality(Newer(d) \cup {d}) \in Nat /\ Cardinality(Delims \ {h}) \in Nat
      BY <1>3, <3>1, FS_CardinalityType, FS_RemoveElement
    <3>3. ~(Delims \ {h} \subseteq Newer(d) \cup {d})
      BY <1>1, <3>1, <3>2, SmallerCard, LimitsAssumption
    <3> QED
      BY <3>3
  <2>3. c \in Nat /\ d \in Nat /\ h <= c /\ c # h
    BY <1>3, <2>1, <2>2
  <2>4. c < d
    BY <2>1, <2>2, <2>3 DEF Newer
  <2> QED
    BY <1>1, <2>1, <2>2, <2>3, <2>4
<1>6. \A d \in Kept : CommandOf(d)' = CommandOf(d)
  <2> SUFFICES ASSUME NEW d \in Kept PROVE CommandOf(d)' = CommandOf(d)
    OBVIOUS
  <2>1. h \notin CommandOf(d)
    <3>1. PICK c \in Delims : c < d
      BY <1>5
    <3>2. ~(c < h)
      BY <1>1, <1>3
    <3> QED
      BY <3>1, <3>2 DEF CommandOf
  <2>2. \A e \in Events : (\A c \in Delims \ {h} : c < d => c < e)
                            /\ (e # h) => (\A c \in Delims : c < d => c < e)
    <3>1. \A e \in Events : e # h => h < e
      BY <1>1, <1>3
    <3> QED
      BY <3>1
  <2> QED
    BY <1>2, <2>1, <2>2 DEF CommandOf
<1>7. Kept' = Kept
  <2>1. Kept = {d \in Delims : Cardinality(Newer(d)) < LOWCOMMANDS}
    BY <1>1 DEF Kept
  <2>2. Kept' = {d \in Delims \ {h} : Cardinality(Newer(d)) < LOWCOMMANDS}
    BY <1>1, <1>2, <1>4 DEF Kept
  <2>3. h \notin Kept
    BY <1>5
  <2> QED
    BY <2>1, <2>2, <2>3
<1>8. Recorded = {} /\ Recorded' = {} /\ Arriving' = Arriving
  <2>1. \A e \in Events : ~(undoLogCur < e)
    BY <1>1, <1>3
  <2>2. undoLogCur \in Delims' /\ undoLogCur <= undoLogCur
    BY <1>1, <1>2, <1>3, HeadHasSuccessor
  <2>3. Recorded = {}
    BY <1>1, <2>1, <2>2 DEF Recorded
  <2>4. Recorded' = {}
    BY <1>1, <1>2, <2>1, <2>2 DEF Recorded
  <2> QED
    BY <1>1, <2>3, <2>4 DEF Arriving
<1>9. \A d \in Delims : ~(undoLogCur < d)
  BY <1>1, <1>3
<1>10. doneBar' = doneBar /\ openBar' = openBar /\ undoneBar = {} /\ undoneBar' = {}
  BY <1>1, <1>2, <1>6, <1>7, <1>8, <1>9 DEF Promised, doneBar, openBar, undoneBar, Commands
<1> QED
  BY <1>10 DEF Stack!stackVars

LEMMA FreeHeadEndStutters ==
  ASSUME IInv, CommandInv, ~tested, ~tested', undoFreeHeadEnd
  PROVE  UNCHANGED Stack!stackVars
<1> DEFINE h == undoLogHead
           heap == freeMagic(h)
<1>1. /\ pc = "freeDelim" /\ pc' = "idle" /\ h \in Delims /\ h \in Alive
      /\ h \in Nat /\ \A p \in LogNodes : h <= p
      /\ undoLogCur \in Delims /\ undoLogCur # h /\ undoLogCur' = undoLogCur
      /\ \A p \in LogNodes : p <= undoLogCur
      /\ Cardinality(Delims \ {h}) = LOWCOMMANDS
  BY HeadHasSuccessor, LogPositive DEF IInv, FreeHeadPlace, undoFreeHeadEnd, HeadIsFirst,
     TailIsLast, CommandInv, LowWaterMark
<1>2. Delims' = Delims \ {h} /\ Events' = Events
  <2>1. DOMAIN heap = Alive /\ \A p \in Alive : heap[p] = node[p] /\ node[p] \in Event
    BY LogPositive DEF IInv, freeMagic, Reclaimed, Alive, Heap
  <2> HIDE DEF heap
  <2>2. node' = FirstInLog(heap, undoLogHead') /\ freeDelayedItem' = h
    BY DEF undoFreeHeadEnd, heap
  <2>3. DOMAIN node' = Alive /\ \A p \in Alive : node'[p].type = node[p].type
    BY <2>1, <2>2 DEF FirstInLog, Event
  <2>4. LogNodes' = LogNodes \ {h}
    BY <1>1, <2>2, <2>3 DEF LogNodes, Alive, Heap
  <2>5. Delims' = Delims \ {h}
    BY <1>1, <2>3, <2>4 DEF Delims, LogNodes
  <2> QED
    BY <1>1, <2>4, <2>5 DEF Events, Delims
<1>3. /\ \A d \in Delims : d \in Nat /\ h <= d /\ d <= undoLogCur
      /\ \A e \in Events : e \in Nat /\ h < e /\ e <= undoLogCur
      /\ IsFiniteSet(Delims \ {h}) /\ undoLogCur \in Nat
  <2>1. \A p \in Delims \cup Events : p \in Nat /\ p \in LogNodes
    BY DelimsAreNumbers DEF IInv
  <2>2. \A e \in Events : e # h
    BY <1>1, DelimsAreNumbers DEF IInv
  <2>3. IsFiniteSet(Delims \ {h})
    BY DelimsAreNumbers DEF IInv
  <2>4. undoLogCur \in Nat /\ \A d \in Delims : d \in Nat /\ h <= d /\ d <= undoLogCur
    BY <1>1, <2>1
  <2>5. \A e \in Events : e \in Nat /\ h <= e /\ e <= undoLogCur
    BY <1>1, <2>1
  <2>6. \A e \in Events : h < e
    BY <1>1, <2>2, <2>5
  <2> QED
    BY <2>3, <2>4, <2>5, <2>6
<1>4. Kept = Delims \ {h}
  <2>1. ASSUME NEW d \in Delims, d # h PROVE Cardinality(Newer(d)) < LOWCOMMANDS
    <3>1. Newer(d) \in SUBSET (Delims \ {h}) /\ d \notin Newer(d)
      BY <1>3 DEF Newer
    <3> QED
      BY <1>1, <1>3, <2>1, <3>1, SmallerCard
  <2>2. Newer(h) = Delims \ {h}
    <3>1. \A c \in Delims : h < c <=> c # h
      BY <1>1, <1>3
    <3> QED
      BY <3>1 DEF Newer
  <2>3. ~(Cardinality(Newer(h)) < LOWCOMMANDS)
    BY <1>1, <2>2, LimitsAssumption
  <2> QED
    BY <1>1, <2>1, <2>3 DEF Kept
<1>5. Kept' = Delims \ {h}
  BY <1>1, <1>2, <1>3 DEF Kept
<1>6. \A d \in Delims : CommandOf(d)' = CommandOf(d)
  <2>1. \A e \in Events : h < e
    BY <1>3
  <2> QED
    BY <1>2, <2>1 DEF CommandOf
<1>7. Recorded = {} /\ Recorded' = {} /\ Arriving = {} /\ Arriving' = {}
  <2>1. \A e \in Events : ~(undoLogCur < e)
    BY <1>3
  <2>2. undoLogCur \in Delims' /\ undoLogCur <= undoLogCur
    BY <1>1, <1>2, <1>3
  <2>3. Recorded = {}
    BY <1>1, <2>1, <2>2 DEF Recorded
  <2>4. Recorded' = {}
    BY <1>1, <1>2, <2>1, <2>2 DEF Recorded
  <2> QED
    BY <1>1, <2>3, <2>4 DEF Arriving
<1>8. \A d \in Delims : ~(undoLogCur < d)
  BY <1>1, <1>3
<1>9. doneBar' = doneBar /\ openBar' = openBar /\ undoneBar = {} /\ undoneBar' = {}
  BY <1>1, <1>2, <1>4, <1>5, <1>6, <1>7, <1>8 DEF Promised, doneBar, openBar, undoneBar, Commands
<1> QED
  BY <1>9 DEF Stack!stackVars

LEMMA FlushForgets == UndoFlush => Stack!ForgetAll
BY DEF UndoFlush, Stack!ForgetAll, Promised, doneBar, openBar, undoneBar

LEMMA FlushLoopStutters == UndoFlushLoop => UNCHANGED Stack!stackVars
BY DEF UndoFlushLoop, Stack!stackVars, Promised, doneBar, openBar, undoneBar

LEMMA FlushEndStutters ==
  ASSUME IInv, UndoFlushEnd
  PROVE  UNCHANGED Stack!stackVars
<1>1. undoLogHead \in LogNodes /\ LogNodes = {undoLogHead} /\ pc = "flush" /\ pc' = "idle"
  BY LogPositive DEF IInv, UndoFlushEnd, EmptyLog, TailIsLast, HeadIsFirst
<1>2. LogNodes' = {} /\ Delims' = {} /\ Events' = {}
  <2>1. LogNodes' = {}
    BY <1>1, FreedFromLog DEF IInv, UndoFlushEnd
  <2> QED
    BY <2>1 DEF Delims, Events
<1>3. doneBar' = {} /\ openBar' = {} /\ undoneBar' = {}
  BY <1>1, <1>2 DEF Promised, doneBar, openBar, undoneBar, Commands, Kept, Recorded, Arriving
<1>4. doneBar = {} /\ openBar = {} /\ undoneBar = {}
  BY <1>1 DEF Promised, doneBar, openBar, undoneBar
<1> QED
  BY <1>3, <1>4 DEF Stack!stackVars

LEMMA StepRefines ==
  IInv /\ CommandInv /\ [Next]_vars => [Stack!StackNext]_(Stack!stackVars)
<1> SUFFICES ASSUME IInv, CommandInv, [Next]_vars
             PROVE  Stack!StackNext \/ UNCHANGED Stack!stackVars
  OBVIOUS
<1>t. CASE tested'
  <2>1. doneBar' = {} /\ openBar' = {} /\ undoneBar' = {}
    BY <1>t DEF Promised, doneBar, openBar, undoneBar
  <2> QED
    BY <2>1 DEF Stack!StackNext, Stack!ForgetAll
<1>u. CASE UndoFlushEnd
  BY <1>u, FlushEndStutters
<1>k. CASE ~tested' /\ ~UndoFlushEnd
  <2>k. ~tested /\ ~tested'
    BY <1>k, TestedUntilFlush
  <2>1. CASE Record
    BY <2>1, <2>k, NewEventRecords, NextCloses DEF Record, Stack!StackNext
  <2>2. CASE windUndoCmd \/ windRedoCmd
    BY <2>2, <2>k, AtRest DEF windUndoCmd, windRedoCmd, UndoBackward, UndoForward, Rewiring
  <2>3. CASE PlowRandomTest
    BY <2>3, <1>k DEF PlowRandomTest
  <2>4. CASE UndoDisable \/ UndoEnable
    BY <2>4, <2>k, AtRest DEF UndoDisable, UndoEnable, Rewiring
  <2>5. CASE UndoFlush \/ Flush
    BY <2>5, FlushForgets, FlushLoopStutters, FlushEndStutters DEF Flush, Stack!StackNext
  <2>6. CASE Truncate
    BY <2>6, <2>k, TruncateLoopStutters, TruncateEndStutters, LinkStutters DEF Truncate
  <2>7. CASE FreeHead
    BY <2>7, <2>k, FreeHeadLoopStutters, FreeHeadEndStutters DEF FreeHead
  <2>8. CASE PlayBackward
    <3>1. UndoBackwardTest \/ UndoBackwardPlay => UNCHANGED Stack!stackVars
      BY <2>k, AtRest DEF UndoBackwardTest, UndoBackwardPlay, Rewiring
    <3> QED
      BY <2>8, <2>k, <3>1, BackwardEndUndoes DEF PlayBackward, Stack!StackNext
  <2>9. CASE PlayForward
    <3>1. UndoForwardTest \/ UndoForwardPlay => UNCHANGED Stack!stackVars
      BY <2>k, AtRest DEF UndoForwardTest, UndoForwardPlay, Rewiring
    <3> QED
      BY <2>9, <2>k, <3>1, ForwardEndRedoes DEF PlayForward, Stack!StackNext
  <2>10. CASE UNCHANGED vars
    <3>1. Delims' = Delims /\ Events' = Events /\ pc' = pc /\ undoLogCur' = undoLogCur /\ iup' = iup
      BY <2>10 DEF vars, Delims, Events, LogNodes, Alive, Heap
    <3>2. \A d : CommandOf(d)' = CommandOf(d) /\ Newer(d)' = Newer(d)
      BY <3>1 DEF CommandOf, Newer
    <3> QED
      BY <2>k, <3>1, <3>2 DEF Stack!stackVars, Promised, doneBar, openBar, undoneBar, Kept, Recorded, Arriving,
         Commands
  <2> QED
    BY <2>1, <2>k, <2>2, <2>3, <2>4, <2>5, <2>6, <2>7, <2>8, <2>9, <2>10 DEF Next, Continue
<1> QED
  BY <1>t, <1>u, <1>k

-----------------------------------------------------------------------------
\* The log and its cursor do what the command stack promises, for all limits
\* and all counts: every step of undo.c is one step of UndoStack or none, and
\* PlowRandomTest only forgets the stack until the next flush.
THEOREM UndoImplementsStack == Spec => ImplementsStack
<1>1. Spec => [](IInv /\ CommandInv)
  <2>1. IInv /\ CommandInv /\ [Next]_vars => CommandInv'
    BY StepCommandInv
  <2> QED
    BY <2>1, InitIInv, StepIInv, InitCommandInv, PTL DEF Spec
<1>2. IInv /\ CommandInv /\ [Next]_vars => [Stack!StackNext]_(Stack!stackVars)
  BY StepRefines
<1> QED
  BY <1>1, <1>2, InitStack, PTL DEF Spec, ImplementsStack, Stack!StackSpec

\* What UndoBackward and UndoForward return to their callers is the number of
\* whole commands the cursor moves over, but between PlowRandomTest and a flush.
THEOREM CountsCommandsPlayed == Spec => []CountIsCommandsPlayed
<1>1. IInv /\ CommandInv /\ [Next]_vars => CommandInv'
  BY StepCommandInv
<1>2. CommandInv => CountIsCommandsPlayed
  BY DEF CommandInv, PlayCounts, TakenBack, Replayed, CountIsCommandsPlayed
<1> QED
  BY <1>1, <1>2, InitIInv, StepIInv, InitCommandInv, PTL DEF Spec

=============================================================================
