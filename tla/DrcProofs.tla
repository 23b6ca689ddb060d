----------------------------- MODULE DrcProofs ------------------------------
(* Proofs that the background checker never leaves undo disabled, forgets no *)
(* marked area, and is called again as long as there is work for it.        *)
EXTENDS Drc, SequenceTheorems, FiniteSetTheorems, WellFoundedInduction, TLAPS

\* The types that the count of disabled sections depends on.
CountTypes ==
  /\ UndoDisableCount \in Nat /\ userDisables \in Nat
  /\ DRCBackGround \in Setting /\ stack \in Seq(Frame)

Inv == CountTypes /\ UndoNotLeftOff

IsRead(f) == f.proc = "def read"
ReadsOf(s) == {i \in DOMAIN s : IsRead(s[i])}
ChecksNow(s) == s # <<>> /\ Last(s).proc = "DRCContinuous" /\ Last(s).at = "check"
Bound(s, u) == u + Cardinality(ReadsOf(s)) + (IF ChecksNow(s) THEN 1 ELSE 0)

LEMMA EnabledType ==
  ASSUME NEW n \in Nat
  PROVE  Enabled(n) \in Nat /\ Enabled(n) <= n /\ (n > 0 => Enabled(n) = n - 1)
BY DEF Enabled

LEMMA InvByBound ==
  Inv <=> CountTypes /\ UndoDisableCount <= Bound(stack, userDisables)
BY DEF Inv, UndoNotLeftOff, Bound, Reads, ReadsOf, IsRead, ChecksNow, AtTop, Top

LEMMA ReadsMember ==
  ASSUME NEW s
  PROVE  \A i : i \in ReadsOf(s) <=> i \in DOMAIN s /\ IsRead(s[i])
BY DEF ReadsOf

LEMMA ReadsAreCounted ==
  ASSUME NEW s \in Seq(Frame)
  PROVE  Cardinality(ReadsOf(s)) \in Nat /\ IsFiniteSet(ReadsOf(s))
<1>1. IsFiniteSet(1..Len(s))
  BY FS_Interval
<1>2. ReadsOf(s) \subseteq 1..Len(s)
  BY LenProperties, ReadsMember
<1>. QED  BY <1>1, <1>2, FS_Subset, FS_CardinalityType

\* A frame put on top: only a DEF read adds to the reads below it.
LEMMA Pushed ==
  ASSUME NEW s \in Seq(Frame), NEW f \in Frame
  PROVE  /\ Append(s, f) \in Seq(Frame)
         /\ Cardinality(ReadsOf(Append(s, f))) =
              Cardinality(ReadsOf(s)) + (IF IsRead(f) THEN 1 ELSE 0)
         /\ Append(s, f) # <<>> /\ Last(Append(s, f)) = f
<1>. DEFINE t == Append(s, f)
<1>1. /\ t \in Seq(Frame) /\ t # <<>> /\ Last(t) = f
      /\ DOMAIN s = 1..Len(s) /\ DOMAIN t = 1..(Len(s) + 1) /\ Len(s) \in Nat
      /\ \A i \in 1..Len(s) : t[i] = s[i]
      /\ t[Len(s) + 1] = f
  BY LenProperties, AppendProperties DEF Last
<1>. HIDE DEF t
<1>2. CASE IsRead(f)
  <2>1. ReadsOf(t) = ReadsOf(s) \cup {Len(s) + 1}
    BY <1>1, <1>2, ReadsMember
  <2>2. Len(s) + 1 \notin ReadsOf(s)
    BY <1>1, ReadsMember
  <2>. QED  BY <1>1, <1>2, <2>1, <2>2, ReadsAreCounted, FS_AddElement DEF t
<1>3. CASE ~IsRead(f)
  <2>1. ReadsOf(t) = ReadsOf(s)
    <3>1. \A i : i \in ReadsOf(t) <=> i \in ReadsOf(s)
      BY <1>1, <1>3, ReadsMember
    <3>. QED  BY <3>1, Zenon
  <2>. QED  BY <1>1, <1>3, <2>1, ReadsAreCounted DEF t
<1>. QED  BY <1>2, <1>3

LEMMA Popped ==
  ASSUME NEW s \in Seq(Frame), s # <<>>
  PROVE  /\ Front(s) \in Seq(Frame)
         /\ Cardinality(ReadsOf(Front(s))) =
              Cardinality(ReadsOf(s)) - (IF IsRead(Last(s)) THEN 1 ELSE 0)
<1>0. Len(s) \in Nat \ {0} /\ DOMAIN s = 1..Len(s)
  BY LenProperties, EmptySeq
<1>1. /\ Front(s) \in Seq(Frame) /\ DOMAIN Front(s) = 1..(Len(s) - 1)
      /\ \A i \in 1..(Len(s) - 1) : Front(s)[i] = s[i]
      /\ Len(s) \in Nat \ {0} /\ DOMAIN s = 1..Len(s)
  BY <1>0, SubSeqProperties, ElementOfSeq, LenProperties DEF Front
<1>2. CASE IsRead(Last(s))
  <2>1. ReadsOf(Front(s)) = ReadsOf(s) \ {Len(s)}
    BY <1>1, ReadsMember
  <2>2. Len(s) \in ReadsOf(s)
    BY <1>1, <1>2, ReadsMember DEF Last
  <2>. QED  BY <1>1, <1>2, <2>1, <2>2, ReadsAreCounted, FS_RemoveElement
<1>3. CASE ~IsRead(Last(s))
  <2>1. ReadsOf(Front(s)) = ReadsOf(s)
    <3>1. \A i : i \in ReadsOf(Front(s)) <=> i \in ReadsOf(s)
      BY <1>1, <1>3, ReadsMember DEF Last
    <3>. QED  BY <3>1, Zenon
  <2>. QED  BY <1>1, <1>3, <2>1, ReadsAreCounted
<1>. QED  BY <1>2, <1>3

\* The top of the stack goes on to another place.
LEMMA Moved ==
  ASSUME NEW s \in Seq(Frame), s # <<>>, Last(s).proc = "DRCContinuous",
         NEW at \in {"check", "events", "test"}
  PROVE  /\ [s EXCEPT ![Len(s)].at = at] \in Seq(Frame)
         /\ ReadsOf([s EXCEPT ![Len(s)].at = at]) = ReadsOf(s)
         /\ [s EXCEPT ![Len(s)].at = at] # <<>>
         /\ Last([s EXCEPT ![Len(s)].at = at]).at = at
         /\ Last([s EXCEPT ![Len(s)].at = at]).proc = "DRCContinuous"
<1>. DEFINE f == [s[Len(s)] EXCEPT !.at = at]
            t == [s EXCEPT ![Len(s)] = f]
<1>1. Len(s) \in Nat \ {0} /\ Len(s) \in DOMAIN s /\ s[Len(s)] = Last(s) /\ Last(s) \in Frame
      /\ DOMAIN s = 1..Len(s)
  BY LenProperties, EmptySeq, ElementOfSeq DEF Last
<1>2. f \in Frame /\ f.at = at /\ f.proc = s[Len(s)].proc /\ (IsRead(f) <=> IsRead(s[Len(s)]))
  BY <1>1 DEF Frame, IsRead
<1>3. t \in Seq(Frame) /\ Len(t) = Len(s) /\ DOMAIN t = DOMAIN s /\ t[Len(s)] = f
      /\ \A i \in DOMAIN s : i # Len(s) => t[i] = s[i]
  BY <1>1, <1>2, ExceptSeq, LenProperties
<1>4. ReadsOf(t) = ReadsOf(s)
  <2>1. \A i : i \in ReadsOf(t) <=> i \in ReadsOf(s)
    BY <1>1, <1>2, <1>3, ReadsMember
  <2>. QED  BY <2>1, Zenon
<1>5. t # <<>> /\ Last(t) = f
  BY <1>1, <1>3 DEF Last
<1>. QED  BY <1>1, <1>2, <1>3, <1>4, <1>5

-----------------------------------------------------------------------------
LEMMA WaitingType ==
  ASSUME CountTypes, InEvents
  PROVE  /\ Waiting \in Seq(Frame)
         /\ Cardinality(ReadsOf(Waiting)) = Cardinality(ReadsOf(stack))
         /\ ~ChecksNow(stack)
<1>1. ~ChecksNow(stack)
  BY DEF InEvents, ChecksNow, Top
<1>2. CASE AtTop("DRCContinuous", "events")
  BY <1>1, <1>2, Moved DEF CountTypes, Waiting, AtTop, Top, Goto
<1>3. CASE ~AtTop("DRCContinuous", "events")
  BY <1>1, <1>3 DEF CountTypes, Waiting
<1>. QED  BY <1>2, <1>3

\* The bound for a stack that does not check at the moment.
LEMMA BoundsBelow ==
  ASSUME NEW s \in Seq(Frame), NEW u \in Nat
  PROVE  /\ Bound(s, u) \in Nat /\ u + Cardinality(ReadsOf(s)) <= Bound(s, u)
         /\ Bound(s, u) <= u + Cardinality(ReadsOf(s)) + 1
         /\ ~ChecksNow(s) => Bound(s, u) = u + Cardinality(ReadsOf(s))
         /\ ChecksNow(s) => Bound(s, u) = u + Cardinality(ReadsOf(s)) + 1
BY ReadsAreCounted DEF Bound

LEMMA DispatchedCount ==
  ASSUME NEW b \in Setting, NEW l \in Setting, NEW c \in Nat, Dispatched(b, l, c)
  PROVE  UndoDisableCount' \in Nat /\ UndoDisableCount' <= c /\ DRCBackGround' \in Setting
<1>1. UndoDisableCount' = Enabled(c) \/ UndoDisableCount' = c
  BY DEF Dispatched, DRCBreak
<1>2. DRCBackGround' = b \/ DRCBackGround' = l
  BY DEF Dispatched
<1>. QED  BY <1>1, <1>2, EnabledType

LEMMA ShortCount ==
  ASSUME Inv, InEvents, NEW b \in Setting, NEW c \in Nat, Short(b, c),
         userDisables' \in Nat,
         c <= userDisables' + Cardinality(ReadsOf(stack)) \/ c = 0
  PROVE  Inv'
<1>1. /\ UndoDisableCount' \in Nat /\ UndoDisableCount' <= c /\ DRCBackGround' \in Setting
  BY DispatchedCount DEF Short, Inv, CountTypes
<1>2. stack' = Waiting
  BY DEF Short
<1>3. /\ stack' \in Seq(Frame)
      /\ Cardinality(ReadsOf(stack')) = Cardinality(ReadsOf(stack))
  BY <1>2, WaitingType DEF Inv
<1>4. UndoDisableCount' <= Bound(stack', userDisables')
  <2>1. Cardinality(ReadsOf(stack')) \in Nat
    BY <1>3, ReadsAreCounted
  <2>2. UndoDisableCount' <= userDisables' + Cardinality(ReadsOf(stack'))
    BY <1>1, <1>3, <2>1
  <2>3. Bound(stack', userDisables') \in Nat
        /\ userDisables' + Cardinality(ReadsOf(stack')) <= Bound(stack', userDisables')
    BY <1>3, BoundsBelow
  <2>. QED  BY <1>1, <2>1, <2>2, <2>3
<1>. QED  BY <1>1, <1>3, <1>4 DEF Inv, CountTypes, UndoNotLeftOff, Bound, Reads, ReadsOf, IsRead,
            ChecksNow, AtTop, Top

LEMMA ContinuousCount ==
  ASSUME NEW s \in Seq(Frame), NEW b, DRCContinuous(s, b), UndoDisableCount \in Nat,
         NEW u \in Nat, UndoDisableCount <= u + Cardinality(ReadsOf(s))
  PROVE  /\ UndoDisableCount' \in Nat /\ stack' \in Seq(Frame)
         /\ UndoDisableCount' <= Bound(stack', u)
<1>. DEFINE f == [proc |-> "DRCContinuous", at |-> "check"]
<1>1. CASE stack' = s /\ UndoDisableCount' = UndoDisableCount
  BY <1>1, BoundsBelow, ReadsAreCounted
<1>2. CASE stack' = Append(s, f) /\ UndoDisableCount' = UndoDisableCount + 1
  <2>1. f \in Frame /\ ~IsRead(f)
    BY DEF Frame, IsRead
  <2>2. stack' \in Seq(Frame) /\ ChecksNow(stack')
        /\ Cardinality(ReadsOf(stack')) = Cardinality(ReadsOf(s))
    BY <1>2, <2>1, Pushed, ReadsAreCounted DEF ChecksNow
  <2>3. Bound(stack', u) = u + Cardinality(ReadsOf(s)) + 1
    BY <2>2, BoundsBelow
  <2>4. Cardinality(ReadsOf(s)) \in Nat
    BY ReadsAreCounted
  <2>. QED  BY <1>2, <2>2, <2>3, <2>4
<1>. QED  BY <1>1, <1>2 DEF DRCContinuous

LEMMA InvFromBound ==
  ASSUME UndoDisableCount' \in Nat, userDisables' \in Nat, DRCBackGround' \in Setting,
         stack' \in Seq(Frame), UndoDisableCount' <= Bound(stack', userDisables')
  PROVE  Inv'
BY DEF Inv, CountTypes, UndoNotLeftOff, Bound, Reads, ReadsOf, IsRead, ChecksNow, AtTop, Top

\* What the invariant says of the count, below the top of the stack and with it.
LEMMA CountFacts ==
  ASSUME Inv
  PROVE  /\ UndoDisableCount \in Nat /\ userDisables \in Nat
         /\ DRCBackGround \in Setting /\ stack \in Seq(Frame)
         /\ Cardinality(ReadsOf(stack)) \in Nat
         /\ UndoDisableCount <= Bound(stack, userDisables)
         /\ UndoDisableCount <= userDisables + Cardinality(ReadsOf(stack)) + 1
         /\ ~ChecksNow(stack) =>
              UndoDisableCount <= userDisables + Cardinality(ReadsOf(stack))
<1>1. CountTypes /\ UndoDisableCount <= Bound(stack, userDisables)
  BY InvByBound
<1>2. /\ UndoDisableCount \in Nat /\ userDisables \in Nat
      /\ DRCBackGround \in Setting /\ stack \in Seq(Frame)
  BY <1>1 DEF CountTypes
<1>3. Cardinality(ReadsOf(stack)) \in Nat
  BY <1>2, ReadsAreCounted
<1>4. /\ Bound(stack, userDisables) \in Nat
      /\ Bound(stack, userDisables) <= userDisables + Cardinality(ReadsOf(stack)) + 1
      /\ ~ChecksNow(stack) =>
           Bound(stack, userDisables) = userDisables + Cardinality(ReadsOf(stack))
  BY <1>2, BoundsBelow
<1>5. UndoDisableCount <= userDisables + Cardinality(ReadsOf(stack)) + 1
  BY <1>1, <1>2, <1>3, <1>4
<1>6. ~ChecksNow(stack) => UndoDisableCount <= userDisables + Cardinality(ReadsOf(stack))
  BY <1>1, <1>4
<1>. QED  BY <1>1, <1>2, <1>3, <1>5, <1>6

\* How the invariant is shown for a step: the count against the reads alone,
\* or, when the checker starts on the next square, against one more.
LEMMA InvBelow ==
  ASSUME NEW u \in Nat, UndoDisableCount' \in Nat, DRCBackGround' \in Setting,
         stack' \in Seq(Frame), userDisables' = u,
         UndoDisableCount' <= u + Cardinality(ReadsOf(stack'))
  PROVE  Inv'
<1>1. /\ Bound(stack', userDisables') \in Nat
      /\ u + Cardinality(ReadsOf(stack')) <= Bound(stack', userDisables')
  BY BoundsBelow
<1>2. Cardinality(ReadsOf(stack')) \in Nat
  BY ReadsAreCounted
<1>3. UndoDisableCount' <= Bound(stack', userDisables')
  BY <1>1, <1>2
<1>. QED  BY <1>3, InvFromBound

LEMMA InvChecking ==
  ASSUME NEW u \in Nat, UndoDisableCount' \in Nat, DRCBackGround' \in Setting,
         stack' \in Seq(Frame), userDisables' = u, ChecksNow(stack'),
         UndoDisableCount' <= u + Cardinality(ReadsOf(stack')) + 1
  PROVE  Inv'
<1>1. Bound(stack', userDisables') = u + Cardinality(ReadsOf(stack')) + 1
  BY BoundsBelow
<1>2. UndoDisableCount' <= Bound(stack', userDisables')
  BY <1>1
<1>. QED  BY <1>2, InvFromBound

LEMMA TopIsFrame == stack \in Seq(Frame) /\ stack # <<>> => Last(stack) \in Frame
<1>. SUFFICES ASSUME stack \in Seq(Frame), stack # <<>> PROVE Last(stack) \in Frame
  OBVIOUS
<1>1. Len(stack) \in Nat \ {0} /\ DOMAIN stack = 1..Len(stack)
  BY LenProperties, EmptySeq
<1>2. Len(stack) \in 1..Len(stack)
  BY <1>1
<1>. QED  BY <1>1, <1>2, ElementOfSeq DEF Last

\* What is left on the stack when the top of it is done.
LEMMA Done ==
  ASSUME Inv, stack # <<>>, stack' = Front(stack)
  PROVE  /\ stack' \in Seq(Frame) /\ Cardinality(ReadsOf(stack')) \in Nat
         /\ ~IsRead(Last(stack)) =>
              Cardinality(ReadsOf(stack')) = Cardinality(ReadsOf(stack))
         /\ IsRead(Last(stack)) =>
              Cardinality(ReadsOf(stack')) = Cardinality(ReadsOf(stack)) - 1
<1>1. stack \in Seq(Frame) /\ Cardinality(ReadsOf(stack)) \in Nat
  BY CountFacts
<1>2. /\ Front(stack) \in Seq(Frame)
      /\ Cardinality(ReadsOf(Front(stack))) =
           Cardinality(ReadsOf(stack)) - (IF IsRead(Last(stack)) THEN 1 ELSE 0)
  BY <1>1, Popped
<1>3. Cardinality(ReadsOf(Front(stack))) \in Nat
  BY <1>2, ReadsAreCounted
<1>. QED  BY <1>1, <1>2, <1>3

LEMMA DuringType == DRCBackGround \in Setting => During \in Setting
BY DEF During, Setting

LEMMA CommandInv ==
  ASSUME Inv, InEvents, NEW b \in Setting, Short(b, UndoDisableCount), UNCHANGED userDisables
  PROVE  Inv'
<1>1. UndoDisableCount <= userDisables + Cardinality(ReadsOf(stack))
  BY CountFacts, WaitingType DEF Inv
<1>2. UndoDisableCount \in Nat /\ userDisables' \in Nat
  BY CountFacts
<1>. QED  BY <1>1, <1>2, ShortCount

LEMMA DispatchInEvents == ASSUME NEW k, Dispatch(k) PROVE InEvents
BY DEF Dispatch

-----------------------------------------------------------------------------
LEMMA CheckInv ==
  ASSUME Inv, Check
  PROVE  Inv'
<1>. DEFINE reads == Cardinality(ReadsOf(stack))
<1>0. /\ UndoDisableCount \in Nat /\ userDisables \in Nat /\ DRCBackGround \in Setting
      /\ stack \in Seq(Frame) /\ reads \in Nat
      /\ UndoDisableCount <= userDisables + reads + 1
      /\ ~ChecksNow(stack) => UndoDisableCount <= userDisables + reads
  BY CountFacts
<1>. HIDE DEF reads
<1>1. CASE drcCheckTile
  <2>1. stack # <<>> /\ Last(stack).proc = "DRCContinuous"
    BY <1>1 DEF drcCheckTile, AtTop, Top
  <2>2. stack' \in Seq(Frame) /\ Cardinality(ReadsOf(stack')) = reads
    BY <1>0, <1>1, <2>1, Moved DEF drcCheckTile, Goto, reads
  <2>3. /\ UndoDisableCount' = Enabled(UndoDisableCount)
        /\ userDisables' = userDisables /\ DRCBackGround' = DRCBackGround
    BY <1>1 DEF drcCheckTile
  <2>4. UndoDisableCount' \in Nat /\ UndoDisableCount' <= userDisables + reads
    BY <1>0, <2>3 DEF Enabled
  <2>. QED  BY <1>0, <2>2, <2>3, <2>4, InvBelow
<1>2. CASE CheckGoesOn
  <2>1. stack # <<>> /\ Last(stack).proc = "DRCContinuous" /\ ~ChecksNow(stack)
    BY <1>2 DEF CheckGoesOn, AtTop, Top, ChecksNow
  <2>2. /\ stack' \in Seq(Frame) /\ ChecksNow(stack')
        /\ Cardinality(ReadsOf(stack')) = reads
    BY <1>0, <1>2, <2>1, Moved DEF CheckGoesOn, Goto, ChecksNow, reads
  <2>3. /\ UndoDisableCount' = UndoDisableCount + 1
        /\ userDisables' = userDisables /\ DRCBackGround' = DRCBackGround
    BY <1>2 DEF CheckGoesOn
  <2>4. UndoDisableCount' \in Nat /\ UndoDisableCount' <= userDisables + reads + 1
    BY <1>0, <2>1, <2>3
  <2>. QED  BY <1>0, <2>2, <2>3, <2>4, InvChecking
<1>3. CASE TestBreak
  <2>1. stack # <<>> /\ Last(stack).proc = "DRCContinuous" /\ ~ChecksNow(stack)
        /\ ~IsRead(Last(stack))
    BY <1>3 DEF TestBreak, AtTop, Top, ChecksNow, IsRead
  <2>2. stack' = Front(stack) \/ stack' = Goto("events")
    BY <1>3 DEF TestBreak
  <2>3. stack' \in Seq(Frame) /\ Cardinality(ReadsOf(stack')) = reads
    <3>1. CASE stack' = Front(stack)
      BY <3>1, <2>1, Done DEF reads
    <3>2. CASE stack' = Goto("events")
      BY <1>0, <3>2, <2>1, Moved DEF Goto, reads
    <3>. QED  BY <2>2, <3>1, <3>2
  <2>4. UndoDisableCount' = UndoDisableCount /\ userDisables' = userDisables
        /\ DRCBackGround' = DRCBackGround
    BY <1>3 DEF TestBreak, undo
  <2>5. UndoDisableCount' \in Nat /\ UndoDisableCount' <= userDisables + reads
    BY <1>0, <2>1, <2>4
  <2>. QED  BY <1>0, <2>3, <2>4, <2>5, InvBelow
<1>4. CASE KnockOff
  BY <1>4, CountFacts, InvFromBound DEF KnockOff, undo
<1>5. CASE CheckDone
  <2>1. stack # <<>> /\ ~IsRead(Last(stack)) /\ stack' = Front(stack)
    BY <1>5 DEF CheckDone, AtTop, Top, IsRead
  <2>2. stack' \in Seq(Frame) /\ Cardinality(ReadsOf(stack')) = reads
    BY <2>1, Done DEF reads
  <2>3. /\ UndoDisableCount' = Enabled(UndoDisableCount)
        /\ userDisables' = userDisables /\ DRCBackGround' = DRCBackGround
    BY <1>5 DEF CheckDone, UndoAfterCheck
  <2>4. UndoDisableCount' \in Nat /\ UndoDisableCount' <= userDisables + reads
    BY <1>0, <2>3 DEF Enabled
  <2>. QED  BY <1>0, <2>2, <2>3, <2>4, InvBelow
<1>. QED  BY <1>1, <1>2, <1>3, <1>4, <1>5 DEF Check

\* Idle calls and the ends of the two commands that take time.
LEMMA EventInv ==
  ASSUME Inv, IdleCall \/ CatchUpEnd \/ DefReadEnd
  PROVE  Inv'
<1>. DEFINE reads == Cardinality(ReadsOf(stack))
<1>0. /\ UndoDisableCount \in Nat /\ userDisables \in Nat /\ DRCBackGround \in Setting
      /\ stack \in Seq(Frame) /\ reads \in Nat
      /\ ~ChecksNow(stack) => UndoDisableCount <= userDisables + reads
  BY CountFacts
<1>. HIDE DEF reads
<1>1. CASE IdleCall
  <2>1. InEvents /\ DRCContinuous(Waiting, DRCBackGround)
        /\ userDisables' = userDisables /\ DRCBackGround' = DRCBackGround
    BY <1>1 DEF IdleCall
  <2>2. /\ Waiting \in Seq(Frame) /\ ~ChecksNow(stack)
        /\ Cardinality(ReadsOf(Waiting)) = reads
    BY <2>1, WaitingType DEF Inv, reads
  <2>3. UndoDisableCount <= userDisables + Cardinality(ReadsOf(Waiting))
    BY <1>0, <2>2
  <2>4. /\ UndoDisableCount' \in Nat /\ stack' \in Seq(Frame)
        /\ UndoDisableCount' <= Bound(stack', userDisables)
    BY <1>0, <2>1, <2>2, <2>3, ContinuousCount
  <2>. QED  BY <1>0, <2>1, <2>4, InvFromBound
<1>2. CASE CatchUpEnd
  <2>1. /\ stack # <<>> /\ Last(stack).proc = "drc catchup" /\ ~ChecksNow(stack)
        /\ ~IsRead(Last(stack)) /\ stack' = Front(stack) /\ userDisables' = userDisables
    BY <1>2 DEF CatchUpEnd, AtTop, Top, ChecksNow, IsRead
  <2>2. Last(stack) \in Frame
    BY <1>0, <2>1, TopIsFrame
  <2>3. Last(stack).background \in Setting /\ Last(stack).lastdrc \in Setting
    BY <2>1, <2>2 DEF Frame
  <2>4. Dispatched(Last(stack).background, Last(stack).lastdrc, UndoDisableCount)
    BY <1>2 DEF CatchUpEnd, Top
  <2>5. UndoDisableCount' \in Nat /\ UndoDisableCount' <= UndoDisableCount
        /\ DRCBackGround' \in Setting
    BY <1>0, <2>3, <2>4, DispatchedCount
  <2>6. stack' \in Seq(Frame) /\ Cardinality(ReadsOf(stack')) = reads
    BY <2>1, Done DEF reads
  <2>7. UndoDisableCount <= userDisables + reads
    BY <1>0, <2>1
  <2>8. UndoDisableCount' <= userDisables + reads
    BY <1>0, <2>5, <2>7
  <2>. QED  BY <1>0, <2>1, <2>5, <2>6, <2>8, InvBelow
<1>3. CASE DefReadEnd
  <2>1. /\ stack # <<>> /\ Last(stack).proc = "def read" /\ ~ChecksNow(stack)
        /\ IsRead(Last(stack)) /\ stack' = Front(stack) /\ userDisables' = userDisables
    BY <1>3 DEF DefReadEnd, AtTop, Top, ChecksNow, IsRead
  <2>2. Last(stack) \in Frame
    BY <1>0, <2>1, TopIsFrame
  <2>3. Last(stack).lastdrc \in Setting
    BY <2>1, <2>2 DEF Frame
  <2>4. Enabled(UndoDisableCount) \in Nat
        /\ Dispatched(DRCBackGround, Last(stack).lastdrc, Enabled(UndoDisableCount))
    BY <1>0, <1>3, EnabledType DEF DefReadEnd, Top
  <2>5. UndoDisableCount' \in Nat /\ UndoDisableCount' <= Enabled(UndoDisableCount)
        /\ DRCBackGround' \in Setting
    BY <1>0, <2>3, <2>4, DispatchedCount
  <2>6. /\ stack' \in Seq(Frame) /\ Cardinality(ReadsOf(stack')) = reads - 1
        /\ Cardinality(ReadsOf(stack')) \in Nat
    BY <2>1, Done DEF reads
  <2>7. UndoDisableCount <= userDisables + reads
    BY <1>0, <2>1
  <2>8. Enabled(UndoDisableCount) <= userDisables + (reads - 1)
    BY <1>0, <2>6, <2>7 DEF Enabled
  <2>9. UndoDisableCount' <= userDisables + Cardinality(ReadsOf(stack'))
    BY <1>0, <2>4, <2>5, <2>6, <2>8
  <2>. QED  BY <1>0, <2>1, <2>5, <2>6, <2>9, InvBelow
<1>. QED  BY <1>1, <1>2, <1>3

LEMMA UserInv ==
  ASSUME Inv, User
  PROVE  Inv'
<1>. DEFINE reads == Cardinality(ReadsOf(stack))
<1>0. /\ UndoDisableCount \in Nat /\ userDisables \in Nat /\ DRCBackGround \in Setting
      /\ stack \in Seq(Frame) /\ reads \in Nat /\ CountTypes /\ During \in Setting
      /\ ~ChecksNow(stack) => UndoDisableCount <= userDisables + reads
  BY CountFacts, DuringType DEF Inv
<1>. HIDE DEF reads
<1>1. ASSUME NEW c \in Def, DeleteCell(c) PROVE Inv'
  BY <1>0, <1>1, CommandInv, DispatchInEvents DEF DeleteCell
<1>2. ASSUME NEW c \in Def, LoadCell(c) PROVE Inv'
  BY <1>0, <1>2, CommandInv, DispatchInEvents DEF LoadCell
<1>3. ASSUME NEW c \in Def, DefComponent(c) PROVE Inv'
  BY <1>3, CountFacts, InvFromBound DEF DefComponent, undo
<1>4. ASSUME NEW c \in Def, NEW s \in Square, Edit(c, s) PROVE Inv'
  BY <1>0, <1>4, CommandInv, DispatchInEvents DEF Edit
<1>5. CASE DrcOff
  <2>1. "off" \in Setting
    BY DEF Setting
  <2>. QED  BY <1>5, <2>1, CommandInv, DispatchInEvents DEF DrcOff
<1>6. CASE DrcOn
  <2>1. (IF During = "off" THEN "on" ELSE During) \in Setting
    BY <1>0 DEF Setting
  <2>. QED  BY <1>6, <2>1, CommandInv, DispatchInEvents DEF DrcOn
<1>7. CASE UndoDisable
  <2>1. InEvents /\ Short(During, UndoDisableCount + 1) /\ userDisables' = userDisables + 1
    BY <1>7, DispatchInEvents DEF UndoDisable
  <2>2. ~ChecksNow(stack)
    BY <1>0, <2>1, WaitingType
  <2>3. UndoDisableCount + 1 <= userDisables' + reads
    BY <1>0, <2>1, <2>2
  <2>. QED  BY <1>0, <2>1, <2>3, ShortCount DEF reads
<1>8. CASE UndoEnable
  <2>1. InEvents /\ Short(During, Enabled(UndoDisableCount))
        /\ userDisables' = Enabled(userDisables)
    BY <1>8, DispatchInEvents DEF UndoEnable
  <2>2. ~ChecksNow(stack)
    BY <1>0, <2>1, WaitingType
  <2>3. /\ Enabled(UndoDisableCount) \in Nat /\ userDisables' \in Nat
        /\ Enabled(UndoDisableCount) <= userDisables' + reads
    BY <1>0, <2>1, <2>2 DEF Enabled
  <2>. QED  BY <1>0, <2>1, <2>3, ShortCount DEF reads
<1>9. CASE Bypass
  <2>1. stack' = Waiting /\ InEvents
    BY <1>9, DispatchInEvents DEF Bypass
  <2>2. /\ UndoDisableCount' = UndoDisableCount /\ userDisables' = userDisables
        /\ DRCBackGround' = DRCBackGround
    BY <1>9 DEF Bypass, undo
  <2>3. stack' \in Seq(Frame) /\ Cardinality(ReadsOf(stack')) = reads
        /\ ~ChecksNow(stack)
    BY <1>0, <2>1, WaitingType DEF reads
  <2>. QED  BY <1>0, <2>2, <2>3, InvBelow
<1>10. CASE Refused
  <2>1. stack' = Waiting /\ InEvents
    BY <1>10, DispatchInEvents DEF Refused
  <2>2. /\ UndoDisableCount' = Enabled(UndoDisableCount) \/ UndoDisableCount' = UndoDisableCount
        /\ userDisables' = userDisables /\ DRCBackGround' = DRCBackGround
    BY <1>10 DEF Refused, DRCBreak
  <2>3. stack' \in Seq(Frame) /\ Cardinality(ReadsOf(stack')) = reads
        /\ ~ChecksNow(stack)
    BY <1>0, <2>1, WaitingType DEF reads
  <2>4. UndoDisableCount' \in Nat /\ UndoDisableCount' <= userDisables + reads
    BY <1>0, <2>2, <2>3 DEF Enabled
  <2>. QED  BY <1>0, <2>2, <2>3, <2>4, InvBelow
<1>11. CASE DefRead
  <2>. DEFINE f == [proc |-> "def read", at |-> "events", lastdrc |-> DRCBackGround]
  <2>1. InEvents /\ stack' = Append(Waiting, f)
    BY <1>11, DispatchInEvents DEF DefRead
  <2>2. f \in Frame /\ IsRead(f)
    BY <1>0 DEF Frame, IsRead
  <2>. HIDE DEF f
  <2>3. /\ Waiting \in Seq(Frame) /\ ~ChecksNow(stack)
        /\ Cardinality(ReadsOf(Waiting)) = reads
    BY <1>0, <2>1, WaitingType DEF reads
  <2>4. stack' \in Seq(Frame) /\ Cardinality(ReadsOf(stack')) = reads + 1
    BY <2>1, <2>2, <2>3, Pushed
  <2>5. /\ UndoDisableCount' = UndoDisableCount + 1 /\ userDisables' = userDisables
        /\ DRCBackGround' \in Setting
    BY <1>0, <1>11 DEF DefRead
  <2>6. UndoDisableCount' \in Nat
        /\ UndoDisableCount' <= userDisables + Cardinality(ReadsOf(stack'))
    BY <1>0, <2>3, <2>4, <2>5
  <2>. QED  BY <1>0, <2>4, <2>5, <2>6, InvBelow
<1>12. CASE CatchUp
  <2>. DEFINE f == [proc |-> "drc catchup", at |-> "check", lastdrc |-> DRCBackGround,
                    background |-> During]
  <2>1. InEvents /\ DRCContinuous(Append(Waiting, f), "on")
        /\ userDisables' = userDisables /\ DRCBackGround' = "on"
    BY <1>12, DispatchInEvents DEF CatchUp
  <2>2. f \in Frame /\ ~IsRead(f)
    BY <1>0 DEF Frame, IsRead
  <2>. HIDE DEF f
  <2>3. /\ Waiting \in Seq(Frame) /\ ~ChecksNow(stack)
        /\ Cardinality(ReadsOf(Waiting)) = reads
    BY <1>0, <2>1, WaitingType DEF reads
  <2>4. /\ Append(Waiting, f) \in Seq(Frame)
        /\ Cardinality(ReadsOf(Append(Waiting, f))) = reads
    BY <1>0, <2>2, <2>3, Pushed
  <2>5. UndoDisableCount <= userDisables + Cardinality(ReadsOf(Append(Waiting, f)))
    BY <1>0, <2>3, <2>4
  <2>6. /\ UndoDisableCount' \in Nat /\ stack' \in Seq(Frame)
        /\ UndoDisableCount' <= Bound(stack', userDisables)
    BY <1>0, <2>1, <2>4, <2>5, ContinuousCount
  <2>7. DRCBackGround' \in Setting
    BY <2>1 DEF Setting
  <2>. QED  BY <1>0, <2>1, <2>6, <2>7, InvFromBound
<1>13. CASE Interrupt
  BY <1>13, CountFacts, InvFromBound DEF Interrupt, undo
<1>. QED  BY <1>1, <1>2, <1>3, <1>4, <1>5, <1>6, <1>7, <1>8, <1>9, <1>10, <1>11, <1>12, <1>13
          DEF User

LEMMA InitInv == Init => Inv
<1>. SUFFICES ASSUME Init PROVE Inv
  OBVIOUS
<1>1. CountTypes
  BY EmptySeq DEF Init, CountTypes, Setting
<1>2. UndoDisableCount = 0
  BY DEF Init
<1>3. Bound(stack, userDisables) \in Nat
  BY <1>1, BoundsBelow DEF CountTypes
<1>4. UndoDisableCount <= Bound(stack, userDisables)
  BY <1>2, <1>3
<1>. QED  BY <1>1, <1>4, InvByBound

LEMMA StepInv ==
  ASSUME Inv, [Next]_vars
  PROVE  Inv'
<1>1. CASE Next
  BY <1>1, CheckInv, EventInv, UserInv DEF Next, Magic
<1>2. CASE UNCHANGED vars
  BY <1>2, CountFacts, InvFromBound DEF vars, undo
<1>. QED  BY <1>1, <1>2

(* However checks, commands and DEF reads are nested, whichever checks are   *)
(* broken and whatever the user does with undo in between, the checker never  *)
(* leaves undo disabled - for any cells, squares and number of commands.     *)
THEOREM UndoComesBack == Spec => []UndoNotLeftOff
<1>1. Inv => UndoNotLeftOff
  BY DEF Inv
<1>. QED  BY <1>1, InitInv, StepInv, PTL DEF Spec

-----------------------------------------------------------------------------
(* Induction, stated with sets: the library states it with operators.       *)
LEMMA LeastNumber ==
  ASSUME NEW T, T \subseteq Nat, T # {}
  PROVE  \E x \in T : \A y \in T : x <= y
<1>1. PICK x \in T : \A y \in T : <<y, x>> \notin OpToRel(<, Nat)
  BY NatLessThanWellFounded, WFMin
<1>2. \A y \in T : <<y, x>> \in Nat \X Nat
  OBVIOUS
<1>3. \A y \in T : ~(y < x)
  BY <1>1, <1>2 DEF OpToRel
<1>4. \A y \in T : x <= y
  BY <1>3
<1>. QED  BY <1>4

LEMMA Induction ==
  ASSUME NEW n \in Nat, NEW T, 0 \in T,
         \A i \in 1..n : i - 1 \in T => i \in T
  PROVE  \A i \in 0..n : i \in T
<1>. DEFINE U == {i \in 0..n : i \notin T}
<1>. SUFFICES ASSUME U # {} PROVE FALSE
  OBVIOUS
<1>0. U \subseteq Nat
  OBVIOUS
<1>1. PICK x \in U : \A y \in U : x <= y
  <2>. HIDE DEF U
  <2>. QED  BY <1>0, LeastNumber
<1>2. x \in 1..n /\ x - 1 \in 0..n
  BY <1>1
<1>3. x - 1 \notin U
  BY <1>1, <1>2
<1>. QED  BY <1>1, <1>2, <1>3

\* step: for each number and value before it, the value there.
Iterates(g, n, first, step) ==
  g[0] = first /\ \A i \in 1..n : g[i] = step[<<i, g[i - 1]>>]

LEMMA IterationExists ==
  ASSUME NEW n \in Nat, NEW S, NEW first \in S, NEW step \in [(1..n) \X S -> S]
  PROVE  \E g \in [0..n -> S] : Iterates(g, n, first, step)
<1>. DEFINE T == {m \in 0..n : \E g \in [0..m -> S] : Iterates(g, m, first, step)}
<1>1. 0 \in T
  <2>1. [i \in 0..0 |-> first] \in [0..0 -> S]
    OBVIOUS
  <2>2. Iterates([i \in 0..0 |-> first], 0, first, step)
    BY DEF Iterates
  <2>. QED  BY <2>1, <2>2
<1>2. ASSUME NEW m \in 1..n, m - 1 \in T PROVE m \in T
  <2>1. PICK g \in [0..(m - 1) -> S] : Iterates(g, m - 1, first, step)
    BY <1>2
  <2>. DEFINE h == [i \in 0..m |-> IF i = m THEN step[<<m, g[m - 1]>>] ELSE g[i]]
  <2>2. m - 1 \in 0..(m - 1) /\ g[m - 1] \in S
    BY <2>1
  <2>3. <<m, g[m - 1]>> \in (1..n) \X S
    BY <2>2
  <2>4. h \in [0..m -> S]
    BY <2>1, <2>3
  <2>5. \A i \in 1..m : h[i] = step[<<i, h[i - 1]>>]
    <3>. SUFFICES ASSUME NEW i \in 1..m PROVE h[i] = step[<<i, h[i - 1]>>]
      OBVIOUS
    <3>1. h[i - 1] = g[i - 1]
      OBVIOUS
    <3>2. CASE i = m
      <4>1. h[m] = step[<<m, g[m - 1]>>]
        OBVIOUS
      <4>2. h[m - 1] = g[m - 1]
        BY <3>1, <3>2
      <4>. QED  BY <3>2, <4>1, <4>2, Zenon
    <3>3. CASE i # m
      <4>1. i \in 1..(m - 1) /\ h[i] = g[i]
        BY <3>3
      <4>. QED  BY <2>1, <3>1, <4>1 DEF Iterates
    <3>. QED  BY <3>2, <3>3
  <2>6. h[0] = first
    BY <2>1 DEF Iterates
  <2>7. Iterates(h, m, first, step)
    BY <2>5, <2>6 DEF Iterates
  <2>. QED  BY <2>4, <2>7
<1>. HIDE DEF T
<1>3. n \in T
  BY <1>1, <1>2, Induction
<1>. QED  BY <1>3 DEF T

-----------------------------------------------------------------------------
(* An element is taken out of a sequence where it is first found.           *)
LEMMA FoundFirst ==
  ASSUME NEW S, NEW s \in Seq(S), NEW e, e \in ToSet(s)
  PROVE  \E i \in 1..Len(s) :
           /\ s[i] = e /\ \A j \in 1..(i - 1) : s[j] # e
           /\ RemoveFirst(s, e) = SubSeq(s, 1, i - 1) \o SubSeq(s, i + 1, Len(s))
<1>. DEFINE I == {i \in 1..Len(s) : s[i] = e}
<1>1. I \subseteq Nat /\ I # {} /\ Len(s) \in Nat
  BY LenProperties DEF ToSet
<1>2. \E x \in I : \A y \in I : x <= y
  BY <1>1, LeastNumber
<1>3. Min(I) \in I /\ \A y \in I : Min(I) <= y
  BY <1>2 DEF Min
<1>4. RemoveFirst(s, e) = RemoveAt(s, Min(I))
  BY <1>1 DEF RemoveFirst, SelectInSeq
<1>. DEFINE i == Min(I)
<1>5. i \in 1..Len(s) /\ s[i] = e
  BY <1>3
<1>6. \A j \in 1..(i - 1) : s[j] # e
  <2>. SUFFICES ASSUME NEW j \in 1..(i - 1), s[j] = e PROVE FALSE
    OBVIOUS
  <2>1. i \in Int /\ Len(s) \in Int /\ i <= Len(s)
    BY <1>1, <1>5
  <2>. HIDE DEF i
  <2>2. j \in 1..Len(s) /\ j < i
    BY <2>1
  <2>. QED  BY <1>3, <2>1, <2>2 DEF i
<1>7. RemoveFirst(s, e) = SubSeq(s, 1, i - 1) \o SubSeq(s, i + 1, Len(s))
  BY <1>4 DEF RemoveAt
<1>. HIDE DEF i
<1>. QED  BY <1>5, <1>6, <1>7

NoTwice(s) == \A i, j \in DOMAIN s : i # j => s[i] # s[j]

\* Where the elements come from that are left.
LEMMA LeftOver ==
  ASSUME NEW S, NEW s \in Seq(S), NEW i \in 1..Len(s)
  PROVE  LET t == SubSeq(s, 1, i - 1) \o SubSeq(s, i + 1, Len(s))
         IN /\ t \in Seq(S) /\ Len(t) = Len(s) - 1
            /\ \A j \in 1..(i - 1) : t[j] = s[j]
            /\ \A j \in i..(Len(s) - 1) : t[j] = s[j + 1]
<1>1. Len(s) \in Nat /\ i \in Nat /\ 1 <= i /\ i <= Len(s)
  BY LenProperties
<1>. DEFINE a == SubSeq(s, 1, i - 1)
            b == SubSeq(s, i + 1, Len(s))
<1>2. a \in Seq(S) /\ Len(a) = i - 1 /\ \A j \in 1..(i - 1) : a[j] = s[j]
  <2>1. \A j \in 1..(i - 1) : s[j] \in S
    BY <1>1, ElementOfSeq
  <2>. QED  BY <1>1, <2>1, SubSeqProperties
<1>3. b \in Seq(S) /\ Len(b) = Len(s) - i /\ \A j \in 1..(Len(s) - i) : b[j] = s[i + j]
  <2>1. \A j \in (i + 1)..Len(s) : s[j] \in S
    BY <1>1, ElementOfSeq
  <2>2. /\ b \in Seq(S)
        /\ Len(b) = IF i + 1 <= Len(s) THEN Len(s) - (i + 1) + 1 ELSE 0
        /\ \A j \in 1..(Len(s) - (i + 1) + 1) : b[j] = s[(i + 1) + j - 1]
    <3>1. i + 1 \in Int /\ Len(s) \in Int
      BY <1>1
    <3>. QED  BY <3>1, <2>1, SubSeqProperties
  <2>. HIDE DEF b
  <2>3. Len(b) = Len(s) - i
    <3>1. \A l, j \in Int : j <= l =>
             (IF j + 1 <= l THEN l - (j + 1) + 1 ELSE 0) = l - j
      OBVIOUS
    <3>2. Len(s) \in Int /\ i \in Int /\ i <= Len(s)
      BY <1>1
    <3>. QED  BY <2>2, <3>1, <3>2, Zenon
  <2>4. ASSUME NEW j \in 1..(Len(s) - i) PROVE b[j] = s[i + j]
    <3>1. j \in 1..(Len(s) - (i + 1) + 1) /\ (i + 1) + j - 1 = i + j
      BY <1>1
    <3>2. b[j] = s[(i + 1) + j - 1]
      BY <2>2, <3>1
    <3>. QED  BY <3>1, <3>2
  <2>. QED  BY <2>2, <2>3, <2>4
<1>. HIDE DEF a, b
<1>4. /\ a \o b \in Seq(S) /\ Len(a \o b) = Len(s) - 1
      /\ \A j \in 1..(Len(a) + Len(b)) :
           (a \o b)[j] = IF j <= Len(a) THEN a[j] ELSE b[j - Len(a)]
  <2>1. /\ a \o b \in Seq(S) /\ Len(a \o b) = Len(a) + Len(b)
        /\ \A j \in 1..(Len(a) + Len(b)) :
             (a \o b)[j] = IF j <= Len(a) THEN a[j] ELSE b[j - Len(a)]
    BY <1>2, <1>3, ConcatProperties
  <2>2. Len(a) + Len(b) = Len(s) - 1
    BY <1>1, <1>2, <1>3
  <2>. QED  BY <2>1, <2>2
<1>5. \A j \in 1..(i - 1) : (a \o b)[j] = s[j]
  BY <1>1, <1>2, <1>3, <1>4
<1>6. \A j \in i..(Len(s) - 1) : (a \o b)[j] = s[j + 1]
  <2>. SUFFICES ASSUME NEW j \in i..(Len(s) - 1) PROVE (a \o b)[j] = s[j + 1]
    OBVIOUS
  <2>1. (a \o b)[j] = b[j - (i - 1)]
    BY <1>1, <1>2, <1>3, <1>4
  <2>2. j - (i - 1) \in 1..(Len(s) - i) /\ i + (j - (i - 1)) = j + 1
    BY <1>1
  <2>. QED  BY <1>3, <2>1, <2>2
<1>. QED  BY <1>4, <1>5, <1>6 DEF a, b

LEMMA Removed ==
  ASSUME NEW S, NEW s \in Seq(S), NEW e, NoTwice(s)
  PROVE  /\ RemoveFirst(s, e) \in Seq(S) /\ NoTwice(RemoveFirst(s, e))
         /\ ToSet(RemoveFirst(s, e)) = ToSet(s) \ {e}
<1>1. CASE e \notin ToSet(s)
  <2>1. ~ \E i \in 1..Len(s) : s[i] = e
    BY <1>1, LenProperties DEF ToSet
  <2>2. RemoveFirst(s, e) = s
    BY <2>1 DEF RemoveFirst
  <2>. QED  BY <1>1, <2>2
<1>2. CASE e \in ToSet(s)
  <2>1. PICK i \in 1..Len(s) :
          /\ s[i] = e
          /\ RemoveFirst(s, e) = SubSeq(s, 1, i - 1) \o SubSeq(s, i + 1, Len(s))
    BY <1>2, FoundFirst
  <2>. DEFINE t == RemoveFirst(s, e)
              from(j) == IF j < i THEN j ELSE j + 1
  <2>2. /\ t \in Seq(S) /\ Len(t) = Len(s) - 1
        /\ \A j \in 1..(i - 1) : t[j] = s[j]
        /\ \A j \in i..(Len(s) - 1) : t[j] = s[j + 1]
    BY <2>1, LeftOver
  <2>. HIDE DEF t
  <2>3. Len(s) \in Nat /\ DOMAIN s = 1..Len(s) /\ DOMAIN t = 1..(Len(s) - 1)
    BY <2>2, LenProperties
  <2>4. \A j \in DOMAIN t : t[j] = s[from(j)] /\ from(j) \in DOMAIN s /\ from(j) # i
    BY <2>2, <2>3
  <2>5. \A j, k \in DOMAIN t : j # k => from(j) # from(k)
    BY <2>3
  <2>6. \A k \in DOMAIN s : k # i => \E j \in DOMAIN t : from(j) = k
    <3>. SUFFICES ASSUME NEW k \in DOMAIN s, k # i PROVE \E j \in DOMAIN t : from(j) = k
      OBVIOUS
    <3>1. CASE k < i
      <4>1. k \in DOMAIN t /\ from(k) = k
        BY <2>3, <3>1
      <4>. QED  BY <4>1
    <3>2. CASE k > i
      <4>1. k - 1 \in DOMAIN t /\ from(k - 1) = k
        BY <2>3, <3>2
      <4>. QED  BY <4>1
    <3>. QED  BY <2>3, <3>1, <3>2
  <2>. HIDE DEF from
  <2>7. NoTwice(t)
    BY <2>4, <2>5 DEF NoTwice
  <2>8. \A x : x \in ToSet(t) <=> x \in ToSet(s) \ {e}
    BY <2>1, <2>3, <2>4, <2>6 DEF ToSet, NoTwice
  <2>9. ToSet(t) = ToSet(s) \ {e}
    BY <2>8, Zenon
  <2>. QED  BY <2>2, <2>7, <2>9 DEF t
<1>. QED  BY <1>1, <1>2

LEMMA InFront ==
  ASSUME NEW S, NEW s \in Seq(S), NEW e \in S, NoTwice(s), e \notin ToSet(s)
  PROVE  /\ <<e>> \o s \in Seq(S) /\ NoTwice(<<e>> \o s)
         /\ ToSet(<<e>> \o s) = ToSet(s) \cup {e}
<1>. DEFINE t == <<e>> \o s
<1>1. /\ t \in Seq(S) /\ Len(t) = Len(s) + 1 /\ Len(s) \in Nat
      /\ DOMAIN t = 1..(Len(s) + 1) /\ DOMAIN s = 1..Len(s)
      /\ \A j \in DOMAIN t : t[j] = IF j = 1 THEN e ELSE s[j - 1]
  <2>1. <<e>> \in Seq(S) /\ Len(<<e>>) = 1 /\ <<e>>[1] = e
    OBVIOUS
  <2>2. /\ t \in Seq(S) /\ Len(t) = Len(s) + 1 /\ Len(s) \in Nat
        /\ \A j \in 1..(1 + Len(s)) : t[j] = IF j <= 1 THEN <<e>>[j] ELSE s[j - 1]
    BY <2>1, LenProperties, ConcatProperties
  <2>. QED  BY <2>1, <2>2, LenProperties
<1>. HIDE DEF t
<1>2. NoTwice(t)
  BY <1>1 DEF NoTwice, ToSet
<1>3. \A x : x \in ToSet(t) <=> x \in ToSet(s) \cup {e}
  <2>1. \A k \in DOMAIN s : k + 1 \in DOMAIN t /\ t[k + 1] = s[k]
    BY <1>1
  <2>2. 1 \in DOMAIN t /\ t[1] = e
    BY <1>1
  <2>3. \A j \in DOMAIN t : t[j] = e \/ (j - 1 \in DOMAIN s /\ t[j] = s[j - 1])
    BY <1>1
  <2>. QED  BY <2>1, <2>2, <2>3 DEF ToSet
<1>4. ToSet(t) = ToSet(s) \cup {e}
  BY <1>3, Zenon
<1>. QED  BY <1>1, <1>2, <1>4 DEF t
-----------------------------------------------------------------------------
(* The list of pending cells, and what DRCCheckThis does to it.             *)
Lists == {l \in Seq(Def) : NoTwice(l)}

LEMMA MovedToFront ==
  ASSUME NEW l \in Lists, NEW c \in Def
  PROVE  /\ ToFront(c, l) \in Lists
         /\ ToSet(ToFront(c, l)) = ToSet(l) \cup {c}
<1>. DEFINE r == RemoveFirst(l, c)
<1>1. r \in Seq(Def) /\ NoTwice(r) /\ ToSet(r) = ToSet(l) \ {c}
  BY Removed DEF Lists
<1>. HIDE DEF r
<1>2. /\ <<c>> \o r \in Seq(Def) /\ NoTwice(<<c>> \o r)
      /\ ToSet(<<c>> \o r) = ToSet(r) \cup {c}
  BY <1>1, InFront
<1>. QED  BY <1>1, <1>2 DEF ToFront, Lists, r

LEMMA AncestorIsCell ==
  ASSUME NEW c \in Def
  PROVE  /\ Len(Ancestry[c]) \in Nat /\ DOMAIN Ancestry[c] = 1..Len(Ancestry[c])
         /\ \A i \in 1..Len(Ancestry[c]) : Ancestry[c][i] \in Def
BY AncestryAssumption, LenProperties, ElementOfSeq

ReachedBy(c, i) == {Ancestry[c][j] : j \in {k \in Reached(c) : k <= i}}

LEMMA AllMovedToFront ==
  ASSUME NEW c \in Def, DRCPending \in Lists
  PROVE  /\ Pending(c) \in Lists
         /\ ToSet(Pending(c)) = ToSet(DRCPending) \cup AllReached(c)
<1>. DEFINE n == Len(Ancestry[c])
            next(i, l) == IF i \in Reached(c) THEN ToFront(Ancestry[c][i], l) ELSE l
            step == [p \in (1..n) \X Lists |-> next(p[1], p[2])]
            Moves(m) == m = [i \in 0..n |-> IF i = 0 THEN DRCPending
                                             ELSE next(i, m[i - 1])]
            moved == CHOOSE m : Moves(m)
<1>1. n \in Nat /\ \A i \in 1..n : Ancestry[c][i] \in Def
  BY AncestorIsCell
<1>2. \A i \in 1..n, l \in Lists : next(i, l) \in Lists
  BY <1>1, MovedToFront
<1>. HIDE DEF n, next
<1>3. step \in [(1..n) \X Lists -> Lists]
  BY <1>2
<1>4. \E m : Moves(m)
  <2>1. PICK g \in [0..n -> Lists] : Iterates(g, n, DRCPending, step)
    <3>. HIDE DEF step
    <3>. QED  BY <1>1, <1>3, IterationExists
  <2>2. \A i \in 1..n : i - 1 \in 0..n /\ <<i, g[i - 1]>> \in (1..n) \X Lists
    BY <1>1
  <2>3. \A i \in 1..n : g[i] = next(i, g[i - 1])
    BY <2>1, <2>2 DEF Iterates
  <2>4. \A i \in 0..n : g[i] = IF i = 0 THEN DRCPending ELSE next(i, g[i - 1])
    BY <1>1, <2>1, <2>3 DEF Iterates
  <2>5. Moves(g)
    BY <2>4
  <2>. QED  BY <2>5
<1>5. Moves(moved)
  BY <1>4
<1>6. Pending(c) = moved[n]
  BY DEF Pending, n, next
<1>. HIDE DEF moved
<1>7. moved[0] = DRCPending /\ \A i \in 1..n : moved[i] = next(i, moved[i - 1])
  BY <1>1, <1>5
<1>. DEFINE T == {i \in 0..n : /\ moved[i] \in Lists
                              /\ ToSet(moved[i]) = ToSet(DRCPending) \cup ReachedBy(c, i)}
<1>8. 0 \in T
  <2>1. ReachedBy(c, 0) = {}
    BY <1>1, AncestorIsCell DEF ReachedBy, Reached
  <2>. QED  BY <1>1, <1>7, <2>1
<1>9. ASSUME NEW i \in 1..n, i - 1 \in T PROVE i \in T
  <2>1. /\ moved[i - 1] \in Lists
        /\ ToSet(moved[i - 1]) = ToSet(DRCPending) \cup ReachedBy(c, i - 1)
    BY <1>9
  <2>2. \A k \in Reached(c) : k \in Int
    BY AncestorIsCell DEF Reached
  <2>3. CASE i \in Reached(c)
    <3>1. ReachedBy(c, i) = ReachedBy(c, i - 1) \cup {Ancestry[c][i]}
      BY <1>1, <2>2, <2>3 DEF ReachedBy
    <3>2. moved[i] = ToFront(Ancestry[c][i], moved[i - 1])
      BY <1>7, <2>3 DEF next
    <3>3. /\ moved[i] \in Lists
          /\ ToSet(moved[i]) = ToSet(moved[i - 1]) \cup {Ancestry[c][i]}
      BY <1>1, <2>1, <3>2, MovedToFront
    <3>. QED  BY <2>1, <3>1, <3>3
  <2>4. CASE i \notin Reached(c)
    <3>1. ReachedBy(c, i) = ReachedBy(c, i - 1)
      BY <1>1, <2>2, <2>4 DEF ReachedBy
    <3>2. moved[i] = moved[i - 1]
      BY <1>7, <2>4 DEF next
    <3>. QED  BY <2>1, <3>1, <3>2
  <2>. QED  BY <2>3, <2>4
<1>. HIDE DEF T
<1>10. n \in T
  BY <1>1, <1>8, <1>9, Induction
<1>11. ReachedBy(c, n) = AllReached(c)
  BY <1>1, AncestorIsCell DEF ReachedBy, Reached, AllReached, n
<1>. QED  BY <1>6, <1>10, <1>11 DEF T

LEMMA KnockedOff ==
  ASSUME NEW l \in Lists, l # <<>>
  PROVE  /\ Head(l) \in Def /\ Tail(l) \in Lists
         /\ ToSet(Tail(l)) = ToSet(l) \ {Head(l)}
<1>1. /\ Head(l) \in Def /\ Tail(l) \in Seq(Def) /\ Len(Tail(l)) = Len(l) - 1
      /\ \A i \in 1..Len(Tail(l)) : Tail(l)[i] = l[i + 1]
      /\ Head(l) = l[1] /\ Len(l) \in Nat \ {0}
  BY HeadTailProperties, EmptySeq DEF Lists
<1>2. DOMAIN l = 1..Len(l) /\ DOMAIN Tail(l) = 1..Len(Tail(l)) /\ NoTwice(l)
  BY <1>1, LenProperties DEF Lists
<1>3. \A i \in DOMAIN Tail(l) : i + 1 \in DOMAIN l /\ i + 1 # 1 /\ Tail(l)[i] = l[i + 1]
  BY <1>1, <1>2
<1>4. NoTwice(Tail(l))
  BY <1>2, <1>3 DEF NoTwice
<1>5. \A i \in DOMAIN l : i = 1 \/ (i - 1 \in DOMAIN Tail(l) /\ Tail(l)[i - 1] = l[i])
  BY <1>1, <1>2
<1>6. 1 \in DOMAIN l
  BY <1>1, <1>2
<1>7. \A x : x \in ToSet(Tail(l)) <=> x \in ToSet(l) \ {Head(l)}
  <2>1. ASSUME NEW i \in DOMAIN Tail(l) PROVE Tail(l)[i] \in ToSet(l) \ {Head(l)}
    <3>1. i + 1 \in DOMAIN l /\ i + 1 # 1 /\ Tail(l)[i] = l[i + 1]
      BY <1>3
    <3>2. l[i + 1] # l[1]
      BY <1>2, <1>6, <3>1 DEF NoTwice
    <3>. QED  BY <1>1, <3>1, <3>2 DEF ToSet
  <2>2. ASSUME NEW i \in DOMAIN l, l[i] # Head(l) PROVE l[i] \in ToSet(Tail(l))
    <3>1. i - 1 \in DOMAIN Tail(l) /\ Tail(l)[i - 1] = l[i]
      BY <1>1, <1>5, <2>2
    <3>. QED  BY <3>1, Zenon DEF ToSet
  <2>. QED  BY <2>1, <2>2, Zenon DEF ToSet
<1>8. ToSet(Tail(l)) = ToSet(l) \ {Head(l)}
  BY <1>7, Zenon
<1>. QED  BY <1>1, <1>4, <1>8 DEF Lists

\* MarkedIsPending, with what it rests on.
MarkInv ==
  /\ live \subseteq Def /\ check \in [Def -> SUBSET Square] /\ DRCPending \in Lists
  /\ \A d \in Def : check[d] # {} => d \in live /\ d \in ToSet(DRCPending)
  /\ ToSet(DRCPending) \subseteq live

LEMMA CheckKeepsMarks ==
  ASSUME MarkInv, Check
  PROVE  MarkInv'
<1>1. CASE drcCheckTile
  <2>. DEFINE c == Head(DRCPending)
  <2>1. DRCPending # <<>> /\ UNCHANGED <<live, DRCPending>>
    BY <1>1 DEF drcCheckTile
  <2>2. c \in Def
    BY <2>1, KnockedOff DEF MarkInv
  <2>3. UNCHANGED check \/ \E left \in Checked(c) : check' = [check EXCEPT ![c] = left]
    BY <1>1 DEF drcCheckTile
  <2>. HIDE DEF c
  <2>4. /\ check' \in [Def -> SUBSET Square]
        /\ \A d \in Def : check'[d] \subseteq check[d]
    BY <2>2, <2>3 DEF MarkInv, Checked
  <2>. QED  BY <2>1, <2>4 DEF MarkInv
<1>2. CASE KnockOff
  <2>1. /\ DRCPending # <<>> /\ check[Head(DRCPending)] = {}
        /\ DRCPending' = Tail(DRCPending) /\ UNCHANGED <<live, check>>
    BY <1>2 DEF KnockOff
  <2>2. /\ Tail(DRCPending) \in Lists
        /\ ToSet(Tail(DRCPending)) = ToSet(DRCPending) \ {Head(DRCPending)}
    BY <2>1, KnockedOff DEF MarkInv
  <2>. QED  BY <2>1, <2>2 DEF MarkInv
<1>3. CASE CheckGoesOn \/ TestBreak \/ CheckDone
  BY <1>3 DEF CheckGoesOn, TestBreak, CheckDone, layout, MarkInv
<1>. QED  BY <1>1, <1>2, <1>3 DEF Check

LEMMA ReadKeepsMarks ==
  ASSUME MarkInv, NEW c \in Def, DBCellRead(c)
  PROVE  MarkInv'
<1>1. /\ ToFront(c, DRCPending) \in Lists
      /\ ToSet(ToFront(c, DRCPending)) = ToSet(DRCPending) \cup {c}
  BY MovedToFront DEF MarkInv
<1>2. PICK left \in SUBSET Square : check' = [check EXCEPT ![c] = left]
  BY DEF DBCellRead
<1>3. live' = live \cup {c} /\ DRCPending' = ToFront(c, DRCPending)
  BY DEF DBCellRead
<1>. QED  BY <1>1, <1>2, <1>3 DEF MarkInv

LEMMA EditKeepsMarks ==
  ASSUME MarkInv, NEW c \in Def, NEW s \in Square, DRCCheckThis(c, s)
  PROVE  MarkInv'
<1>1. /\ Pending(c) \in Lists
      /\ ToSet(Pending(c)) = ToSet(DRCPending) \cup AllReached(c)
  BY AllMovedToFront DEF MarkInv
<1>2. AllReached(c) \subseteq live
  BY DEF AllReached, Reached
<1>3. /\ DRCPending' = Pending(c) /\ live' = live
      /\ check' = [d \in Def |-> IF d \in AllReached(c) THEN check[d] \cup {s} ELSE check[d]]
  BY DEF DRCCheckThis
<1>4. check' \in [Def -> SUBSET Square]
  BY <1>3 DEF MarkInv
<1>5. \A d \in Def : check'[d] # {} => d \in AllReached(c) \/ check[d] # {}
  BY <1>3
<1>. QED  BY <1>1, <1>2, <1>3, <1>4, <1>5 DEF MarkInv

LEMMA DeleteKeepsMarks ==
  ASSUME MarkInv, NEW c \in Def, DeleteCell(c)
  PROVE  MarkInv'
<1>1. /\ live' = live \ {c} /\ check' = [check EXCEPT ![c] = {}]
      /\ DRCPending' = RemoveFirst(DRCPending, c)
  BY DEF DeleteCell, DRCRemovePending
<1>2. DRCPending \in Seq(Def) /\ NoTwice(DRCPending)
  BY DEF MarkInv, Lists
<1>3. DRCPending' \in Lists /\ ToSet(DRCPending') = ToSet(DRCPending) \ {c}
  BY <1>1, <1>2, Removed DEF Lists
<1>. QED  BY <1>1, <1>3 DEF MarkInv

LEMMA StepKeepsMarks ==
  ASSUME MarkInv, [Next]_vars
  PROVE  MarkInv'
<1>1. CASE Check
  BY <1>1, CheckKeepsMarks
<1>2. CASE IdleCall \/ CatchUpEnd \/ DefReadEnd
  BY <1>2 DEF IdleCall, CatchUpEnd, DefReadEnd, layout, MarkInv
<1>3. ASSUME NEW c \in Def, DeleteCell(c) PROVE MarkInv'
  BY <1>3, DeleteKeepsMarks
<1>4. ASSUME NEW c \in Def, LoadCell(c) \/ DefComponent(c) PROVE MarkInv'
  BY <1>4, ReadKeepsMarks DEF LoadCell, DefComponent
<1>5. ASSUME NEW c \in Def, NEW s \in Square, Edit(c, s) PROVE MarkInv'
  BY <1>5, EditKeepsMarks DEF Edit
<1>6. CASE DrcOff \/ DrcOn \/ UndoDisable \/ UndoEnable \/ Bypass \/ Refused
  BY <1>6 DEF DrcOff, DrcOn, UndoDisable, UndoEnable, Bypass, Refused, layout, MarkInv
<1>7. CASE DefRead \/ CatchUp \/ Interrupt
  BY <1>7 DEF DefRead, CatchUp, Interrupt, layout, MarkInv
<1>8. CASE UNCHANGED vars
  BY <1>8 DEF vars, layout, MarkInv
<1>. QED  BY <1>1, <1>2, <1>3, <1>4, <1>5, <1>6, <1>7, <1>8 DEF Next, Magic, User

(* However edits, reads and deletions of cells fall into a check in progress, *)
(* the areas they mark stay in cells that exist and wait in the list once -   *)
(* for any cells, and for any way in which they use one another.             *)
THEOREM NothingForgotten == Spec => []MarkedIsPending
<1>1. Init => MarkInv
  <2>1. <<>> \in Lists /\ ToSet(<<>>) = {}
    BY EmptySeq DEF Lists, NoTwice, ToSet
  <2>. QED  BY <2>1 DEF Init, MarkInv
<1>2. MarkInv => MarkedIsPending
  BY DEF MarkInv, MarkedIsPending, Lists, NoTwice
<1>. QED  BY <1>1, <1>2, StepKeepsMarks, PTL DEF Spec

-----------------------------------------------------------------------------
(* The calls that are left to Tcl.                                          *)
HasCheck(s) == \E i \in DOMAIN s : s[i].proc = "DRCContinuous"
\* A check that waits for something above it will look at its status first.
Nested(s) ==
  \A i \in DOMAIN s : i # Len(s) /\ s[i].proc = "DRCContinuous" => s[i].at = "test"
Resting(s) == s # <<>> /\ Last(s).proc = "DRCContinuous" => Last(s).at = "test"

(* A check is broken only where it looks at its status next, and then a call  *)
(* is left to Tcl or the command was refused.  The status says that a check   *)
(* runs only when there is one.                                              *)
SchedInv ==
  /\ idle \in Nat /\ Nested(stack)
  /\ DRCStatus # "not running" => HasCheck(stack)
  /\ DRCStatus = "break pending" => Resting(stack)
  /\ DRCStatus = "break pending" /\ AtTop("DRCContinuous", "test") /\ ~refused => idle > 0
  /\ WorkIsScheduled

LEMMA FrameBelow ==
  ASSUME NEW s \in Seq(Frame), s # <<>>
  PROVE  /\ Len(s) \in Nat /\ Len(s) > 0 /\ DOMAIN s = 1..Len(s) /\ Last(s) = s[Len(s)]
         /\ DOMAIN Front(s) = 1..(Len(s) - 1) /\ Len(Front(s)) = Len(s) - 1
         /\ \A i \in 1..(Len(s) - 1) : Front(s)[i] = s[i]
<1>1. Len(s) \in Nat \ {0} /\ DOMAIN s = 1..Len(s)
  BY LenProperties, EmptySeq
<1>2. \A i \in 1..(Len(s) - 1) : s[i] \in Frame
  BY <1>1, ElementOfSeq
<1>3. /\ Front(s) \in Seq(Frame)
      /\ Len(Front(s)) = IF 1 <= Len(s) - 1 THEN (Len(s) - 1) - 1 + 1 ELSE 0
      /\ \A i \in 1..((Len(s) - 1) - 1 + 1) : Front(s)[i] = s[1 + i - 1]
  <2>1. 1 \in Int /\ Len(s) - 1 \in Int
    BY <1>1
  <2>. QED  BY <1>2, <2>1, SubSeqProperties DEF Front
<1>4. Len(s) \in Nat /\ Len(s) > 0
  BY <1>1
<1>5. Len(Front(s)) = Len(s) - 1
  <2>1. \A l \in Nat : l > 0 => (IF 1 <= l - 1 THEN (l - 1) - 1 + 1 ELSE 0) = l - 1
    OBVIOUS
  <2>2. Len(Front(s)) = IF 1 <= Len(s) - 1 THEN (Len(s) - 1) - 1 + 1 ELSE 0
    BY <1>3
  <2>. QED  BY <1>4, <2>1, <2>2, Zenon
<1>6. ASSUME NEW i \in 1..(Len(s) - 1) PROVE Front(s)[i] = s[i]
  BY <1>3, <1>4
<1>. QED  BY <1>1, <1>3, <1>4, <1>5, <1>6, LenProperties DEF Last

LEMMA PushedOn ==
  ASSUME NEW s \in Seq(Frame), NEW f \in Frame, Nested(s), Resting(s)
  PROVE  /\ Nested(Append(s, f)) /\ Append(s, f) # <<>> /\ Last(Append(s, f)) = f
         /\ HasCheck(s) \/ f.proc = "DRCContinuous" => HasCheck(Append(s, f))
<1>. DEFINE t == Append(s, f)
<1>1. /\ t # <<>> /\ Last(t) = f /\ Len(t) = Len(s) + 1 /\ Len(s) \in Nat
      /\ \A i \in 1..Len(s) : t[i] = s[i]
      /\ t[Len(s) + 1] = f
  BY LenProperties, AppendProperties, Pushed DEF Last
<1>2. DOMAIN s = 1..Len(s) /\ DOMAIN t = 1..(Len(s) + 1)
  BY LenProperties, AppendProperties
<1>. HIDE DEF t
<1>3. \A i \in DOMAIN t : i # Len(t) => i \in DOMAIN s /\ t[i] = s[i]
  BY <1>1, <1>2
<1>4. \A i \in DOMAIN s : i # Len(s) \/ (s # <<>> /\ s[i] = Last(s))
  BY <1>1, <1>2 DEF Last
<1>5. Nested(t)
  BY <1>3, <1>4 DEF Nested, Resting
<1>6. HasCheck(s) => HasCheck(t)
  BY <1>1, <1>2 DEF HasCheck
<1>7. f.proc = "DRCContinuous" => HasCheck(t)
  BY <1>1, <1>2 DEF HasCheck
<1>. QED  BY <1>1, <1>5, <1>6, <1>7 DEF t

LEMMA PoppedOff ==
  ASSUME NEW s \in Seq(Frame), s # <<>>, Nested(s)
  PROVE  /\ Nested(Front(s)) /\ Resting(Front(s))
         /\ HasCheck(s) /\ Last(s).proc # "DRCContinuous" => HasCheck(Front(s))
<1>. DEFINE t == Front(s)
<1>1. /\ Len(s) \in Nat /\ Len(s) > 0 /\ Last(s) = s[Len(s)] /\ Len(t) = Len(s) - 1
      /\ \A i \in 1..(Len(s) - 1) : t[i] = s[i]
  BY FrameBelow
<1>2. DOMAIN s = 1..Len(s) /\ DOMAIN t = 1..(Len(s) - 1)
  BY FrameBelow
<1>. HIDE DEF t
<1>3. \A i \in DOMAIN t : i \in DOMAIN s /\ i # Len(s) /\ t[i] = s[i]
  BY <1>1, <1>2
<1>4. Nested(t)
  BY <1>3 DEF Nested
<1>5. t # <<>> => Len(t) \in DOMAIN t
  <2>1. t \in Seq(Frame)
    BY Popped DEF t
  <2>. QED  BY <1>1, <1>2, <2>1, EmptySeq
<1>6. Resting(t)
  BY <1>3, <1>5 DEF Nested, Resting, Last
<1>7. ASSUME HasCheck(s), Last(s).proc # "DRCContinuous" PROVE HasCheck(t)
  <2>1. PICK i \in DOMAIN s : s[i].proc = "DRCContinuous"
    BY <1>7 DEF HasCheck
  <2>2. i \in DOMAIN t
    BY <1>1, <1>2, <1>7, <2>1
  <2>. QED  BY <1>3, <2>1, <2>2 DEF HasCheck
<1>. QED  BY <1>4, <1>6, <1>7 DEF t

LEMMA MovedOn ==
  ASSUME NEW s \in Seq(Frame), s # <<>>, Last(s).proc = "DRCContinuous", Nested(s),
         NEW at \in {"check", "events", "test"}
  PROVE  /\ Nested([s EXCEPT ![Len(s)].at = at]) /\ HasCheck([s EXCEPT ![Len(s)].at = at])
         /\ [s EXCEPT ![Len(s)].at = at] # <<>>
         /\ Last([s EXCEPT ![Len(s)].at = at]).proc = "DRCContinuous"
         /\ Last([s EXCEPT ![Len(s)].at = at]).at = at
<1>. DEFINE t == [s EXCEPT ![Len(s)].at = at]
<1>1. /\ Len(s) \in Nat /\ Len(s) > 0 /\ Last(s) = s[Len(s)]
  BY FrameBelow
<1>2. DOMAIN s = 1..Len(s)
  BY FrameBelow
<1>3. /\ t \in Seq(Frame) /\ t # <<>> /\ Last(t).at = at /\ Last(t).proc = "DRCContinuous"
  BY Moved
<1>4. Len(s) \in DOMAIN s
  BY <1>1, <1>2
<1>5. DOMAIN t = DOMAIN s /\ \A i \in DOMAIN s : i # Len(s) => t[i] = s[i]
  OBVIOUS
<1>6. Len(t) = Len(s)
  BY <1>1, <1>2, <1>3, <1>5, LenProperties
<1>. HIDE DEF t
<1>7. Nested(t)
  BY <1>5, <1>6 DEF Nested
<1>8. HasCheck(t)
  BY <1>3, <1>4, <1>5, <1>6 DEF HasCheck, Last
<1>. QED  BY <1>3, <1>7, <1>8 DEF t

LEMMA WaitsBelow ==
  ASSUME Inv, SchedInv, InEvents
  PROVE  /\ Waiting \in Seq(Frame) /\ Nested(Waiting) /\ Resting(Waiting)
         /\ HasCheck(stack) => HasCheck(Waiting)
         /\ stack = <<>> => Waiting = <<>>
         /\ Waiting # <<>> /\ Last(Waiting).proc = "DRCContinuous"
              => AtTop("DRCContinuous", "events")
<1>1. stack \in Seq(Frame) /\ Nested(stack) /\ Waiting \in Seq(Frame)
  BY WaitingType, CountFacts DEF SchedInv, Inv
<1>2. CASE AtTop("DRCContinuous", "events")
  BY <1>1, <1>2, MovedOn DEF AtTop, Top, Waiting, Goto, Resting
<1>3. CASE ~AtTop("DRCContinuous", "events")
  BY <1>1, <1>3 DEF AtTop, Top, InEvents, Waiting, Resting
<1>. QED  BY <1>2, <1>3

LEMMA StackType == Inv => stack \in Seq(Frame)
BY CountFacts

\* A command that ends at once, or an idle call that starts no check.
LEMMA ShortSched ==
  ASSUME Inv, SchedInv, InEvents, stack' = Waiting, idle' \in Nat,
         DRCStatus' # "not running" => DRCStatus # "not running",
         idle' > 0 \/ refused'
  PROVE  SchedInv'
BY WaitsBelow DEF SchedInv, WorkIsScheduled, AtTop, Top, Nested, Resting, HasCheck

\* The end of a command that took its time.
LEMMA EndSched ==
  ASSUME Inv, SchedInv, stack # <<>>, Top.proc # "DRCContinuous", stack' = Front(stack),
         idle' \in Nat, DRCStatus' # "not running" => DRCStatus # "not running", idle' > 0
  PROVE  SchedInv'
BY StackType, PoppedOff DEF SchedInv, WorkIsScheduled, Top, Nested, Resting, HasCheck

\* The end of a check.
LEMMA DoneSched ==
  ASSUME Inv, SchedInv, stack # <<>>, stack' = Front(stack), idle' \in Nat,
         DRCStatus' = "not running",
         idle' > 0 \/ refused' \/ ~DRCHasWork(DRCBackGround', DRCPending')
  PROVE  SchedInv'
BY StackType, PoppedOff DEF SchedInv, WorkIsScheduled, Nested, Resting, HasCheck

\* Something starts on top of what waits.
LEMMA PushSched ==
  ASSUME NEW s \in Seq(Frame), NEW f \in Frame, Nested(s), Resting(s),
         stack' = Append(s, f), idle' \in Nat,
         DRCStatus' # "not running" => HasCheck(s) \/ f.proc = "DRCContinuous",
         DRCStatus' = "break pending" => f.proc # "DRCContinuous"
  PROVE  SchedInv'
<1>1. /\ Nested(stack') /\ stack' # <<>> /\ Last(stack') = f
      /\ DRCStatus' # "not running" => HasCheck(stack')
  BY PushedOn
<1>. QED  BY <1>1 DEF SchedInv, WorkIsScheduled, AtTop, Top, Nested, Resting, HasCheck

\* The check goes on elsewhere, not broken.
LEMMA GotoSched ==
  ASSUME Inv, SchedInv, stack # <<>>, Top.proc = "DRCContinuous",
         NEW at \in {"check", "events", "test"}, stack' = Goto(at),
         idle' \in Nat, DRCStatus' # "break pending"
  PROVE  SchedInv'
<1>1. Nested(stack') /\ HasCheck(stack') /\ stack' # <<>>
  BY StackType, MovedOn DEF SchedInv, Goto, Top
<1>2. HasCheck(stack)' /\ Nested(stack)'
  BY <1>1 DEF HasCheck, Nested
<1>3. WorkIsScheduled'
  BY <1>1 DEF WorkIsScheduled
<1>. QED  BY <1>2, <1>3 DEF SchedInv

LEMMA CheckSched ==
  ASSUME Inv, SchedInv, Check
  PROVE  SchedInv'
<1>. idle \in Nat
  BY DEF SchedInv
<1>1. CASE drcCheckTile
  BY <1>1, GotoSched DEF drcCheckTile, AtTop, Top, SchedInv, Resting
<1>2. CASE CheckGoesOn
  BY <1>2, GotoSched DEF CheckGoesOn, AtTop, Top, SchedInv, Resting
<1>3. CASE TestBreak
  <2>1. stack # <<>> /\ Top.proc = "DRCContinuous" /\ UNCHANGED <<idle, refused>>
    BY <1>3 DEF TestBreak, AtTop
  <2>2. CASE DRCStatus = "break pending"
    <3>1. DRCStatus' = "not running" /\ stack' = Front(stack)
      BY <1>3, <2>2 DEF TestBreak
    <3>2. idle' > 0 \/ refused'
      <4>1. AtTop("DRCContinuous", "test")
        BY <1>3 DEF TestBreak
      <4>2. idle > 0 \/ refused
        BY <2>2, <4>1 DEF SchedInv
      <4>. QED  BY <2>1, <4>2
    <3>. QED  BY <2>1, <3>1, <3>2, DoneSched
  <2>3. CASE DRCStatus # "break pending"
    <3>1. DRCStatus' # "break pending" /\ stack' = Goto("events")
      BY <1>3, <2>3 DEF TestBreak
    <3>. QED  BY <2>1, <3>1, GotoSched
  <2>. QED  BY <2>2, <2>3
<1>4. CASE KnockOff
  BY <1>4 DEF KnockOff, AtTop, Top, SchedInv, WorkIsScheduled, Nested, Resting, HasCheck
<1>5. CASE CheckDone
  <2>1. /\ stack # <<>> /\ stack' = Front(stack) /\ DRCStatus' = "not running"
        /\ DRCPending' = <<>> /\ UNCHANGED idle
    BY <1>5 DEF CheckDone, AtTop, layout
  <2>2. ~DRCHasWork(DRCBackGround', DRCPending')
    BY <2>1 DEF DRCHasWork
  <2>. QED  BY <2>1, <2>2, DoneSched
<1>. QED  BY <1>1, <1>2, <1>3, <1>4, <1>5 DEF Check

LEMMA IdleCallSched ==
  ASSUME Inv, SchedInv, IdleCall
  PROVE  SchedInv'
<1>. DEFINE f == [proc |-> "DRCContinuous", at |-> "check"]
<1>0. idle \in Nat /\ idle > 0 /\ idle' = idle - 1
  BY DEF IdleCall, SchedInv
<1>1. /\ InEvents /\ idle' \in Nat /\ UNCHANGED <<DRCPending, DRCBackGround, refused>>
      /\ DRCContinuous(Waiting, DRCBackGround)
  BY <1>0 DEF IdleCall, layout
<1>2. /\ Waiting \in Seq(Frame) /\ Nested(Waiting) /\ Resting(Waiting)
      /\ HasCheck(stack) => HasCheck(Waiting)
      /\ Waiting # <<>> /\ Last(Waiting).proc = "DRCContinuous"
           => AtTop("DRCContinuous", "events")
  BY <1>1, WaitsBelow
<1>3. CASE ~DRCHasWork(DRCBackGround, DRCPending)
  <2>1. DRCStatus' = "not running" /\ stack' = Waiting
    BY <1>1, <1>3 DEF DRCContinuous
  <2>2. ~DRCHasWork(DRCBackGround', DRCPending')
    BY <1>1, <1>3
  <2>. QED  BY <1>1, <1>2, <2>1, <2>2 DEF SchedInv, WorkIsScheduled, Nested
<1>4. CASE DRCHasWork(DRCBackGround, DRCPending) /\ DRCStatus # "not running"
  <2>1. DRCStatus' = DRCStatus /\ stack' = Waiting
    BY <1>1, <1>4 DEF DRCContinuous
  <2>2. HasCheck(Waiting)
    BY <1>2, <1>4 DEF SchedInv
  <2>3. Waiting # <<>>
    BY <2>2 DEF HasCheck
  <2>4. DRCStatus = "break pending" => ~AtTop("DRCContinuous", "events")
    BY DEF SchedInv, Resting, AtTop, Top
  <2>5. DRCStatus' = "break pending" => ~AtTop("DRCContinuous", "test")'
    BY <1>2, <2>1, <2>4 DEF AtTop, Top
  <2>. QED  BY <1>1, <1>2, <2>1, <2>2, <2>3, <2>5
            DEF SchedInv, WorkIsScheduled, Nested, Resting, HasCheck
<1>5. CASE DRCHasWork(DRCBackGround, DRCPending) /\ DRCStatus = "not running"
  <2>1. DRCStatus' = "in progress" /\ stack' = Append(Waiting, f)
    BY <1>1, <1>5 DEF DRCContinuous
  <2>2. f \in Frame /\ f.proc = "DRCContinuous"
    BY DEF Frame
  <2>. QED  BY <1>1, <1>2, <2>1, <2>2, PushSched
<1>. QED  BY <1>3, <1>4, <1>5

\* What every end of a command does.
LEMMA DispatchedSched ==
  ASSUME NEW b, NEW l, NEW c, Dispatched(b, l, c), SchedInv
  PROVE  /\ idle' \in Nat /\ idle' > 0
         /\ DRCStatus' # "not running" => DRCStatus # "not running"
<1>1. idle \in Nat /\ idle' = idle + 1
  BY DEF Dispatched, IdleAfterCommand, SchedInv
<1>2. idle' \in Nat /\ idle' > 0
  BY <1>1
<1>3. DRCStatus' # "not running" => DRCStatus # "not running"
  BY DEF Dispatched, DRCBreak
<1>. QED  BY <1>2, <1>3

LEMMA CommandSched ==
  ASSUME Inv, SchedInv, InEvents, NEW b, NEW c, Short(b, c)
  PROVE  SchedInv'
BY DispatchedSched, ShortSched DEF Short

LEMMA CatchUpSched ==
  ASSUME Inv, SchedInv, CatchUp
  PROVE  SchedInv'
<1>. DEFINE f == [proc |-> "DRCContinuous", at |-> "check"]
            g == [proc |-> "drc catchup", at |-> "check", lastdrc |-> DRCBackGround,
                  background |-> During]
<1>1. /\ InEvents /\ idle' \in Nat /\ DRCContinuous(Append(Waiting, g), "on")
  BY DEF CatchUp, Dispatch, SchedInv
<1>2. /\ Waiting \in Seq(Frame) /\ Nested(Waiting) /\ Resting(Waiting)
      /\ HasCheck(stack) => HasCheck(Waiting)
  BY <1>1, WaitsBelow
<1>3. f \in Frame /\ g \in Frame /\ f.proc = "DRCContinuous" /\ g.proc = "drc catchup"
  BY CountFacts, DuringType DEF Frame
<1>4. CASE DRCStatus' = "in progress" /\ stack' = Append(Append(Waiting, g), f)
  <2>. HIDE DEF f, g
  <2>1. /\ Append(Waiting, g) \in Seq(Frame) /\ Nested(Append(Waiting, g))
        /\ Resting(Append(Waiting, g))
    BY <1>2, <1>3, Pushed, PushedOn DEF Resting
  <2>. QED  BY <1>1, <1>3, <1>4, <2>1, PushSched
<1>5. CASE DRCStatus' = "not running" /\ stack' = Append(Waiting, g)
  <2>. HIDE DEF f, g
  <2>. QED  BY <1>1, <1>2, <1>3, <1>5, PushSched
<1>6. CASE DRCStatus # "not running" /\ DRCStatus' = DRCStatus /\ stack' = Append(Waiting, g)
  <2>. HIDE DEF f, g
  <2>1. HasCheck(Waiting)
    BY <1>2, <1>6 DEF SchedInv
  <2>. QED  BY <1>1, <1>2, <1>3, <1>6, <2>1, PushSched
<1>. QED  BY <1>1, <1>4, <1>5, <1>6 DEF DRCContinuous

LEMMA DefReadSched ==
  ASSUME Inv, SchedInv, DefRead
  PROVE  SchedInv'
<1>. DEFINE g == [proc |-> "def read", at |-> "events", lastdrc |-> DRCBackGround]
<1>1. /\ InEvents /\ idle' \in Nat /\ stack' = Append(Waiting, g)
      /\ DRCStatus' = DRCStatus
  BY DEF DefRead, Dispatch, SchedInv
<1>2. /\ Waiting \in Seq(Frame) /\ Nested(Waiting) /\ Resting(Waiting)
      /\ HasCheck(stack) => HasCheck(Waiting)
  BY <1>1, WaitsBelow
<1>3. g \in Frame /\ g.proc = "def read"
  BY CountFacts DEF Frame
<1>4. DRCStatus' # "not running" => HasCheck(Waiting)
  BY <1>1, <1>2 DEF SchedInv
<1>. HIDE DEF g
<1>. QED  BY <1>1, <1>2, <1>3, <1>4, PushSched

LEMMA StepSched ==
  ASSUME Inv, SchedInv, [Next]_vars
  PROVE  SchedInv'
<1>1. CASE Check
  BY <1>1, CheckSched
<1>2. CASE IdleCall
  BY <1>2, IdleCallSched
<1>3. CASE CatchUpEnd
  BY <1>3, DispatchedSched, EndSched DEF CatchUpEnd, AtTop
<1>4. CASE DefReadEnd
  BY <1>4, DispatchedSched, EndSched DEF DefReadEnd, AtTop
<1>5. ASSUME NEW c \in Def, DeleteCell(c) \/ LoadCell(c) PROVE SchedInv'
  BY <1>5, CommandSched DEF DeleteCell, LoadCell, Dispatch
<1>6. ASSUME NEW c \in Def, NEW s \in Square, Edit(c, s) PROVE SchedInv'
  BY <1>6, CommandSched DEF Edit, Dispatch
<1>7. ASSUME NEW c \in Def, DefComponent(c) PROVE SchedInv'
  BY <1>7 DEF DefComponent, AtTop, Top, SchedInv, WorkIsScheduled, Nested, Resting, HasCheck
<1>8. CASE DrcOff \/ DrcOn \/ UndoDisable \/ UndoEnable
  BY <1>8, CommandSched DEF DrcOff, DrcOn, UndoDisable, UndoEnable, Dispatch
<1>9. CASE Bypass
  <2>1. idle' \in Nat /\ idle' > 0
    <3>1. idle \in Nat /\ idle' = idle + 2
      BY <1>9 DEF Bypass, SchedInv
    <3>. QED  BY <3>1
  <2>. QED  BY <1>9, <2>1, ShortSched DEF Bypass, Dispatch
<1>10. CASE Refused
  <2>1. DRCStatus' # "not running" => DRCStatus # "not running"
    BY <1>10 DEF Refused, DRCBreak
  <2>2. idle' \in Nat
    BY <1>10 DEF Refused, SchedInv
  <2>. QED  BY <1>10, <2>1, <2>2, ShortSched DEF Refused, Dispatch
<1>11. CASE DefRead
  BY <1>11, DefReadSched
<1>12. CASE CatchUp
  BY <1>12, CatchUpSched
<1>13. CASE Interrupt
  BY <1>13 DEF Interrupt, layout, AtTop, Top, SchedInv, WorkIsScheduled, Nested, Resting,
               HasCheck
<1>14. CASE UNCHANGED vars
  BY <1>14 DEF vars, layout, AtTop, Top, SchedInv, WorkIsScheduled, Nested, Resting, HasCheck
<1>. QED  BY <1>1, <1>2, <1>3, <1>4, <1>5, <1>6, <1>7, <1>8, <1>9, <1>10, <1>11, <1>12,
             <1>13, <1>14 DEF Next, Magic, User

(* However checks, commands and DEF reads are nested and broken, once nothing *)
(* runs and areas wait to be checked, a call of the checker has been left to  *)
(* Tcl - but after a command that no client took.                            *)
THEOREM CheckerIsCalled == Spec => []WorkIsScheduled
<1>1. Init => Inv /\ SchedInv
  <2>1. Init => stack = <<>> /\ DRCStatus = "not running" /\ idle = 1
    BY DEF Init
  <2>2. 1 \in Nat /\ 1 > 0
    OBVIOUS
  <2>3. Nested(<<>>)
    <3>1. DOMAIN <<>> = {}
      OBVIOUS
    <3>. QED  BY <3>1, Zenon DEF Nested
  <2>4. Init => SchedInv
    BY <2>1, <2>2, <2>3, Zenon DEF SchedInv, WorkIsScheduled
  <2>. QED  BY <2>4, InitInv
<1>2. Inv /\ SchedInv /\ [Next]_vars => (Inv /\ SchedInv)'
  BY StepInv, StepSched
<1>3. SchedInv => WorkIsScheduled
  BY DEF SchedInv
<1>. QED  BY <1>1, <1>2, <1>3, PTL DEF Spec
=============================================================================
