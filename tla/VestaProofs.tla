----------------------------- MODULE VestaProofs -----------------------------
(* The path search of vesta, in every netlist: its backtraces are counted     *)
(* right (Inv), the paths it lists are real and one for each start and end    *)
(* (RealInv), it misses no end (EndsInv), and of the ways to each end it      *)
(* lists the worst (WaysInv).                                                 *)
EXTENDS Vesta, SequenceTheorems, FiniteSetTheorems, WellFoundedInduction, TLAPS

Number == 1..MaxNodes
Call == [receiver : ToSet(Receiver), dir : Dir, delay : Int]
Frame == [receiver : Conn, delay : Int, node : Number, calls : Seq(Call)]
Node == [receiver : Conn, dir : Dir, refcnt : Nat, delay : Int]

Table(b) == DOMAIN b \subseteq Number /\ b \in [DOMAIN b -> Node]

\* Each node counts the call it belongs to and the paths it is on.
Users(paths, n) == {path \in paths : n \in ToSet(path)}
Counted(b, nodes, paths) ==
  /\ nodes \subseteq DOMAIN b
  /\ \A path \in paths : ToSet(path) \subseteq DOMAIN b
  /\ \A n \in DOMAIN b :
       /\ b[n].refcnt > 0
       /\ b[n].refcnt = (IF n \in nodes THEN 1 ELSE 0) + Cardinality(Users(paths, n))

-----------------------------------------------------------------------------
(* Sets of paths, and what counting on them gives.                          *)
LEMMA UsersFinite ==
  ASSUME NEW paths, IsFiniteSet(paths), NEW n
  PROVE  IsFiniteSet(Users(paths, n)) /\ Cardinality(Users(paths, n)) \in Nat
<1>1. IsFiniteSet(Users(paths, n))
  BY FS_Subset DEF Users
<1>. QED  BY <1>1, FS_CardinalityType

LEMMA UsersOfFewer ==
  ASSUME NEW paths, IsFiniteSet(paths), NEW path \in paths, NEW n
  PROVE  IF n \in ToSet(path)
         THEN /\ Users(paths \ {path}, n) = Users(paths, n) \ {path}
              /\ Cardinality(Users(paths, n)) \in Nat \ {0}
              /\ Cardinality(Users(paths \ {path}, n)) = Cardinality(Users(paths, n)) - 1
         ELSE Users(paths \ {path}, n) = Users(paths, n)
<1>1. CASE n \in ToSet(path)
  <2>1. Users(paths \ {path}, n) = Users(paths, n) \ {path} /\ path \in Users(paths, n)
    BY <1>1 DEF Users
  <2>2. Cardinality(Users(paths, n)) \in Nat /\ Cardinality(Users(paths, n)) # 0
    BY <2>1, UsersFinite, FS_EmptySet
  <2>3. Cardinality(Users(paths, n) \ {path}) = Cardinality(Users(paths, n)) - 1
    BY <2>1, UsersFinite, FS_RemoveElement
  <2>. QED  BY <1>1, <2>1, <2>2, <2>3
<1>2. CASE n \notin ToSet(path)
  BY <1>2 DEF Users
<1>. QED  BY <1>1, <1>2

LEMMA UsersOfMore ==
  ASSUME NEW paths, IsFiniteSet(paths), NEW path, path \notin paths, NEW n
  PROVE  IF n \in ToSet(path)
         THEN Cardinality(Users(paths \cup {path}, n)) = Cardinality(Users(paths, n)) + 1
         ELSE Users(paths \cup {path}, n) = Users(paths, n)
<1>1. CASE n \in ToSet(path)
  <2>1. Users(paths \cup {path}, n) = Users(paths, n) \cup {path} /\ path \notin Users(paths, n)
    BY <1>1 DEF Users
  <2>. QED  BY <1>1, <2>1, UsersFinite, FS_AddElement
<1>2. CASE n \notin ToSet(path)
  BY <1>2 DEF Users
<1>. QED  BY <1>1, <1>2

-----------------------------------------------------------------------------
(* What each change of the table does to the counts.                        *)
LEMMA Allocated ==
  ASSUME NEW b, Table(b), NEW nodes, NEW paths, Counted(b, nodes, paths),
         NEW n, n \notin DOMAIN b, NEW t, DOMAIN t = DOMAIN b \cup {n},
         \A m \in DOMAIN b : t[m] = b[m], t[n].refcnt = 1
  PROVE  Counted(t, nodes \cup {n}, paths)
<1>1. Users(paths, n) = {}
  BY DEF Users, Counted
<1>2. Cardinality(Users(paths, n)) = 0
  BY <1>1, FS_EmptySet
<1>3. ASSUME NEW m \in DOMAIN t
      PROVE /\ t[m].refcnt > 0
            /\ t[m].refcnt = (IF m \in nodes \cup {n} THEN 1 ELSE 0) + Cardinality(Users(paths, m))
  <2>1. CASE m = n
    BY <1>2, <2>1
  <2>2. CASE m # n
    BY <1>3, <2>2 DEF Counted
  <2>. QED  BY <2>1, <2>2
<1>. QED  BY <1>3 DEF Counted

LEMMA PathReleased ==
  ASSUME NEW b, Table(b), NEW nodes, NEW paths, IsFiniteSet(paths),
         Counted(b, nodes, paths), NEW path \in paths
  PROVE  Counted(Release(b, path), nodes, paths \ {path})
<1>. DEFINE t == Release(b, path)
            Kept == {m \in DOMAIN b : m \in ToSet(path) => b[m].refcnt > 1}
<1>1. DOMAIN t = Kept
  BY DEF Release
<1>2. ASSUME NEW m \in DOMAIN b
      PROVE  b[m] \in Node /\ b[m].refcnt \in Nat
  BY DEF Table, Node
<1>3. ASSUME NEW m \in Kept
      PROVE  t[m].refcnt = IF m \in ToSet(path) THEN b[m].refcnt - 1 ELSE b[m].refcnt
  BY <1>2 DEF Release, Node
<1>4. ASSUME NEW m \in DOMAIN b, m \notin Kept
      PROVE  m \notin nodes /\ Users(paths, m) = {path}
  <2>1. m \in ToSet(path) /\ b[m].refcnt = 1
    BY <1>2, <1>4 DEF Counted
  <2>2. /\ Cardinality(Users(paths, m)) \in Nat \ {0}
        /\ Cardinality(Users(paths \ {path}, m)) = Cardinality(Users(paths, m)) - 1
        /\ Users(paths \ {path}, m) = Users(paths, m) \ {path}
    BY <2>1, UsersOfFewer
  <2>3. 1 = (IF m \in nodes THEN 1 ELSE 0) + Cardinality(Users(paths, m))
    BY <2>1 DEF Counted
  <2>4. m \notin nodes /\ Cardinality(Users(paths \ {path}, m)) = 0
    BY <2>2, <2>3
  <2>5. IsFiniteSet(Users(paths \ {path}, m))
    BY FS_Subset, UsersFinite
  <2>6. Users(paths \ {path}, m) = {}
    BY <2>4, <2>5, FS_EmptySet
  <2>7. path \in Users(paths, m)
    BY <2>1 DEF Users
  <2>. QED  BY <2>2, <2>4, <2>6, <2>7
<1>5. nodes \subseteq DOMAIN t
  BY <1>1, <1>4 DEF Counted
<1>6. ASSUME NEW p \in paths \ {path} PROVE ToSet(p) \subseteq DOMAIN t
  <2>. SUFFICES ASSUME NEW m \in ToSet(p), m \notin Kept PROVE FALSE
    BY <1>1
  <2>1. m \in DOMAIN b
    BY DEF Counted
  <2>2. p \in Users(paths, m)
    BY DEF Users
  <2>. QED  BY <1>4, <2>1, <2>2
<1>7. ASSUME NEW m \in DOMAIN t
      PROVE  /\ t[m].refcnt > 0
             /\ t[m].refcnt = (IF m \in nodes THEN 1 ELSE 0)
                              + Cardinality(Users(paths \ {path}, m))
  <2>1. m \in Kept /\ m \in DOMAIN b
    BY <1>1
  <2>2. /\ b[m].refcnt > 0 /\ b[m].refcnt \in Nat
        /\ b[m].refcnt = (IF m \in nodes THEN 1 ELSE 0) + Cardinality(Users(paths, m))
    BY <1>2, <2>1 DEF Counted
  <2>3. CASE m \in ToSet(path)
    <3>1. t[m].refcnt = b[m].refcnt - 1 /\ b[m].refcnt > 1
      BY <1>3, <2>1, <2>3
    <3>2. /\ Cardinality(Users(paths, m)) \in Nat
          /\ Cardinality(Users(paths \ {path}, m)) = Cardinality(Users(paths, m)) - 1
      BY <2>3, UsersOfFewer
    <3>. HIDE DEF t
    <3>. QED  BY <2>2, <3>1, <3>2
  <2>4. CASE m \notin ToSet(path)
    <3>1. t[m].refcnt = b[m].refcnt
      BY <1>3, <2>1, <2>4
    <3>2. Users(paths \ {path}, m) = Users(paths, m)
      BY <2>4, UsersOfFewer
    <3>. HIDE DEF t
    <3>. QED  BY <2>2, <3>1, <3>2
  <2>. QED  BY <2>3, <2>4
<1>. HIDE DEF t
<1>8. Counted(t, nodes, paths \ {path})
  BY <1>5, <1>6, <1>7 DEF Counted
<1>. QED  BY <1>8 DEF t

\* A call gives up its node when it ends.
LEMMA CallReleased ==
  ASSUME NEW b, Table(b), NEW nodes, NEW paths, IsFiniteSet(paths),
         Counted(b, nodes, paths), NEW n \in nodes
  PROVE  Counted(Release(b, <<n>>), nodes \ {n}, paths)
<1>. DEFINE t == Release(b, <<n>>)
            Kept == {m \in DOMAIN b : m = n => b[m].refcnt > 1}
<1>1. DOMAIN t = Kept
  BY DEF Release, ToSet
<1>2. ASSUME NEW m \in DOMAIN b
      PROVE  /\ b[m] \in Node /\ b[m].refcnt \in Nat /\ b[m].refcnt > 0
             /\ Cardinality(Users(paths, m)) \in Nat
             /\ b[m].refcnt = (IF m \in nodes THEN 1 ELSE 0) + Cardinality(Users(paths, m))
  BY UsersFinite DEF Table, Node, Counted
<1>3. ASSUME NEW m \in Kept
      PROVE  t[m].refcnt = IF m = n THEN b[m].refcnt - 1 ELSE b[m].refcnt
  BY <1>2 DEF Release, Node, ToSet
<1>4. n \in DOMAIN b
  BY DEF Counted
<1>5. n \notin Kept => Users(paths, n) = {}
  BY <1>2, <1>4, UsersFinite, FS_EmptySet
<1>6. nodes \ {n} \subseteq DOMAIN t
  BY <1>1 DEF Counted
<1>7. \A p \in paths : ToSet(p) \subseteq DOMAIN t
  BY <1>1, <1>5 DEF Counted, Users
<1>8. ASSUME NEW m \in DOMAIN t
      PROVE  /\ t[m].refcnt > 0
             /\ t[m].refcnt = (IF m \in nodes \ {n} THEN 1 ELSE 0) + Cardinality(Users(paths, m))
  <2>1. m \in Kept /\ m \in DOMAIN b
    BY <1>1
  <2>2. CASE m = n
    <3>1. t[m].refcnt = b[m].refcnt - 1 /\ b[m].refcnt > 1
      BY <1>3, <2>1, <2>2
    <3>2. b[m].refcnt = 1 + Cardinality(Users(paths, m)) /\ m \notin nodes \ {n}
      BY <1>2, <2>1, <2>2
    <3>. HIDE DEF t
    <3>. QED  BY <1>2, <2>1, <3>1, <3>2
  <2>3. CASE m # n
    <3>1. t[m].refcnt = b[m].refcnt
      BY <1>3, <2>1, <2>3
    <3>. HIDE DEF t
    <3>. QED  BY <1>2, <2>1, <2>3, <3>1
  <2>. QED  BY <2>2, <2>3
<1>. HIDE DEF t
<1>9. Counted(t, nodes \ {n}, paths)
  BY <1>6, <1>7, <1>8 DEF Counted
<1>. QED  BY <1>9 DEF t

\* The node of a call that ends becomes the first of a path, of which the rest
\* belongs to calls in progress.
LEMMA PathHeld ==
  ASSUME NEW b, Table(b), NEW nodes, NEW n, n \notin nodes,
         NEW paths, IsFiniteSet(paths), Counted(b, nodes \cup {n}, paths),
         NEW rest, ToSet(rest) \subseteq nodes,
         NEW path, path \notin paths, ToSet(path) = ToSet(rest) \cup {n}
  PROVE  Counted(Hold(b, rest), nodes, paths \cup {path})
<1>. DEFINE t == Hold(b, rest)
<1>1. DOMAIN t = DOMAIN b
  BY DEF Hold
<1>2. ASSUME NEW m \in DOMAIN b
      PROVE  /\ b[m] \in Node /\ b[m].refcnt \in Nat /\ b[m].refcnt > 0
             /\ Cardinality(Users(paths, m)) \in Nat
             /\ b[m].refcnt = (IF m \in nodes \cup {n} THEN 1 ELSE 0)
                              + Cardinality(Users(paths, m))
  BY UsersFinite DEF Table, Node, Counted
<1>3. ASSUME NEW m \in DOMAIN b
      PROVE  t[m].refcnt = IF m \in ToSet(rest) THEN b[m].refcnt + 1 ELSE b[m].refcnt
  BY <1>2 DEF Hold, Node
<1>4. nodes \subseteq DOMAIN t /\ \A p \in paths \cup {path} : ToSet(p) \subseteq DOMAIN t
  BY <1>1 DEF Counted
<1>5. ASSUME NEW m \in DOMAIN t
      PROVE  /\ t[m].refcnt > 0
             /\ t[m].refcnt = (IF m \in nodes THEN 1 ELSE 0)
                              + Cardinality(Users(paths \cup {path}, m))
  <2>1. m \in DOMAIN b
    BY <1>1
  <2>2. CASE m \in ToSet(rest)
    <3>1. Cardinality(Users(paths \cup {path}, m)) = Cardinality(Users(paths, m)) + 1
      BY <2>2, UsersOfMore
    <3>2. t[m].refcnt = b[m].refcnt + 1
      BY <1>3, <2>1, <2>2
    <3>. HIDE DEF t
    <3>. QED  BY <1>2, <2>1, <2>2, <3>1, <3>2
  <2>3. CASE m = n
    <3>1. Cardinality(Users(paths \cup {path}, m)) = Cardinality(Users(paths, m)) + 1
      BY <2>3, UsersOfMore
    <3>2. t[m].refcnt = b[m].refcnt
      BY <1>3, <2>1, <2>3
    <3>. HIDE DEF t
    <3>. QED  BY <1>2, <2>1, <2>3, <3>1, <3>2
  <2>4. CASE m \notin ToSet(path)
    <3>1. Cardinality(Users(paths \cup {path}, m)) = Cardinality(Users(paths, m))
      BY <2>4, UsersOfMore
    <3>2. t[m].refcnt = b[m].refcnt
      BY <1>3, <2>1, <2>4
    <3>. HIDE DEF t
    <3>. QED  BY <1>2, <2>1, <2>4, <3>1, <3>2
  <2>. QED  BY <2>2, <2>3, <2>4
<1>. HIDE DEF t
<1>6. Counted(t, nodes, paths \cup {path})
  BY <1>4, <1>5 DEF Counted
<1>. QED  BY <1>6 DEF t

\* Neither changes what else a node says.
LEMMA TableKept ==
  ASSUME NEW b, Table(b), NEW path
  PROVE  /\ Table(Hold(b, path)) /\ DOMAIN Hold(b, path) = DOMAIN b
         /\ \A n \in DOMAIN b : Hold(b, path)[n].receiver = b[n].receiver
         /\ Table(Release(b, path)) /\ DOMAIN Release(b, path) \subseteq DOMAIN b
         /\ \A n \in DOMAIN Release(b, path) : Release(b, path)[n].receiver = b[n].receiver
<1>1. ASSUME NEW n \in DOMAIN b, NEW k \in Nat
      PROVE  [b[n] EXCEPT !.refcnt = k] \in Node /\ [b[n] EXCEPT !.refcnt = k].receiver = b[n].receiver
  BY DEF Table, Node
<1>2. ASSUME NEW n \in DOMAIN b PROVE b[n] \in Node /\ b[n].refcnt \in Nat
  BY DEF Table, Node
<1>3. DOMAIN Hold(b, path) = DOMAIN b
  BY DEF Hold
<1>7. ASSUME NEW n \in DOMAIN b
      PROVE  Hold(b, path)[n] \in Node /\ Hold(b, path)[n].receiver = b[n].receiver
  <2>1. (IF n \in ToSet(path) THEN b[n].refcnt + 1 ELSE b[n].refcnt) \in Nat
    BY <1>2
  <2>. QED  BY <1>1, <2>1 DEF Hold
<1>8. Hold(b, path) \in [DOMAIN b -> Node]
  BY <1>7 DEF Hold
<1>4. DOMAIN Release(b, path) = {m \in DOMAIN b : m \in ToSet(path) => b[m].refcnt > 1}
  BY DEF Release
<1>5. ASSUME NEW n \in DOMAIN Release(b, path)
      PROVE  Release(b, path)[n] \in Node /\ Release(b, path)[n].receiver = b[n].receiver
  <2>1. (IF n \in ToSet(path) THEN b[n].refcnt - 1 ELSE b[n].refcnt) \in Nat
    BY <1>2, <1>4
  <2>. QED  BY <1>1, <1>4, <2>1 DEF Release
<1>6. Release(b, path) \in [DOMAIN Release(b, path) -> Node]
  BY <1>5 DEF Release
<1>. QED  BY <1>3, <1>4, <1>5, <1>6, <1>7, <1>8 DEF Table

-----------------------------------------------------------------------------
(* Lists of paths.                                                          *)
NoneTwice(s) == \A i, j \in DOMAIN s : s[i] = s[j] => i = j

LEMMA ListFinite ==
  ASSUME NEW S, NEW s \in Seq(S)
  PROVE  IsFiniteSet(ToSet(s))
<1>1. DOMAIN s = 1..Len(s) /\ Len(s) \in Nat
  BY LenProperties
<1>2. IsFiniteSet(DOMAIN s)
  BY <1>1, FS_Interval
<1>3. s \in Surjection(DOMAIN s, ToSet(s))
  <2>1. s \in [DOMAIN s -> ToSet(s)]
    BY LenProperties DEF ToSet
  <2>2. \A t \in ToSet(s) : \E x \in DOMAIN s : s[x] = t
    BY DEF ToSet
  <2>. QED  BY <2>1, <2>2 DEF Surjection
<1>. QED  BY <1>2, <1>3, FS_Surjection

LEMMA OneMore ==
  ASSUME NEW S, NEW s \in Seq(S), NEW e \in S, e \notin ToSet(s), NoneTwice(s)
  PROVE  LET t == Append(s, e)
         IN /\ t \in Seq(S) /\ DOMAIN t = DOMAIN s \cup {Len(s) + 1}
            /\ Len(s) + 1 \notin DOMAIN s
            /\ t[Len(s) + 1] = e /\ \A i \in DOMAIN s : t[i] = s[i]
            /\ ToSet(t) = ToSet(s) \cup {e} /\ NoneTwice(t)
<1>. DEFINE t == Append(s, e)
            l == Len(s) + 1
<1>1. /\ t \in Seq(S) /\ Len(t) = Len(s) + 1 /\ Len(s) \in Nat
      /\ t[l] = e /\ \A i \in 1..Len(s) : t[i] = s[i]
  BY AppendProperties, LenProperties
<1>2. DOMAIN s = 1..Len(s) /\ DOMAIN t = 1..Len(t)
  BY <1>1, LenProperties
<1>. HIDE DEF t
<1>3. DOMAIN t = DOMAIN s \cup {l} /\ l \notin DOMAIN s
  BY <1>1, <1>2
<1>4. \A i \in DOMAIN s : t[i] = s[i]
  BY <1>1, <1>2
<1>. HIDE DEF l
<1>5. ToSet(t) = ToSet(s) \cup {e} /\ NoneTwice(t)
  BY <1>1, <1>3, <1>4 DEF ToSet, NoneTwice
<1>. QED  BY <1>1, <1>3, <1>4, <1>5 DEF t, l

LEMMA OneReplaced ==
  ASSUME NEW S, NEW s \in Seq(S), NEW e \in S, e \notin ToSet(s), NoneTwice(s),
         NEW k \in DOMAIN s
  PROVE  LET t == [s EXCEPT ![k] = e]
         IN /\ t \in Seq(S) /\ DOMAIN t = DOMAIN s
            /\ t[k] = e /\ \A i \in DOMAIN s : i # k => t[i] = s[i]
            /\ ToSet(t) = (ToSet(s) \ {s[k]}) \cup {e} /\ NoneTwice(t)
<1>. DEFINE t == [s EXCEPT ![k] = e]
<1>1. DOMAIN s = 1..Len(s)
  BY LenProperties
<1>2. t \in Seq(S)
  BY <1>1, ExceptSeq
<1>3. DOMAIN t = DOMAIN s /\ t[k] = e /\ \A i \in DOMAIN s : i # k => t[i] = s[i]
  OBVIOUS
<1>. HIDE DEF t
<1>4. ToSet(t) = (ToSet(s) \ {s[k]}) \cup {e} /\ NoneTwice(t)
  BY <1>3 DEF ToSet, NoneTwice
<1>. QED  BY <1>2, <1>3, <1>4 DEF t

LEMMA OneFewer ==
  ASSUME NEW S, NEW s \in Seq(S), s # <<>>, NoneTwice(s)
  PROVE  /\ Tail(s) \in Seq(S) /\ NoneTwice(Tail(s))
         /\ Head(s) \in ToSet(s) /\ ToSet(Tail(s)) = ToSet(s) \ {Head(s)}
<1>. DEFINE t == Tail(s)
<1>1. /\ t \in Seq(S) /\ Len(t) = Len(s) - 1 /\ \A i \in 1..Len(t) : t[i] = s[i + 1]
      /\ Len(s) \in Nat \ {0}
  BY HeadTailProperties, EmptySeq
<1>2. DOMAIN s = 1..Len(s) /\ DOMAIN t = 1..Len(t) /\ Head(s) = s[1]
  BY <1>1, LenProperties
<1>. HIDE DEF t
<1>3. \A i \in DOMAIN t : i + 1 \in DOMAIN s /\ i + 1 # 1 /\ t[i] = s[i + 1]
  BY <1>1, <1>2
<1>4. \A i \in DOMAIN s : i # 1 => i - 1 \in DOMAIN t /\ t[i - 1] = s[i]
  BY <1>1, <1>2
<1>5. 1 \in DOMAIN s
  BY <1>1, <1>2
<1>6. NoneTwice(t)
  <2>. SUFFICES ASSUME NEW i \in DOMAIN t, NEW j \in DOMAIN t, t[i] = t[j] PROVE i = j
    BY DEF NoneTwice
  <2>1. i + 1 = j + 1
    BY <1>3 DEF NoneTwice
  <2>. QED  BY <1>1, <1>2, <2>1
<1>7. ToSet(t) = ToSet(s) \ {s[1]}
  BY <1>3, <1>4, <1>5 DEF ToSet, NoneTwice
<1>8. s[1] \in ToSet(s)
  BY <1>5 DEF ToSet
<1>. QED  BY <1>1, <1>2, <1>6, <1>7, <1>8 DEF t

LEMMA Linked ==
  ASSUME NEW S, NEW s \in Seq(S), NEW t \in Seq(S),
         NoneTwice(s), NoneTwice(t), ToSet(s) \cap ToSet(t) = {}
  PROVE  /\ s \o t \in Seq(S) /\ NoneTwice(s \o t)
         /\ ToSet(s \o t) = ToSet(s) \cup ToSet(t)
<1>. DEFINE u == s \o t
<1>1. /\ u \in Seq(S) /\ Len(u) = Len(s) + Len(t) /\ Len(s) \in Nat /\ Len(t) \in Nat
      /\ \A i \in 1..(Len(s) + Len(t)) : u[i] = IF i <= Len(s) THEN s[i] ELSE t[i - Len(s)]
  BY ConcatProperties, LenProperties
<1>2. DOMAIN s = 1..Len(s) /\ DOMAIN t = 1..Len(t) /\ DOMAIN u = 1..Len(u)
  BY <1>1, LenProperties
<1>. HIDE DEF u
<1>3. \A i \in DOMAIN s : i \in DOMAIN u /\ u[i] = s[i]
  BY <1>1, <1>2
<1>4. \A i \in DOMAIN t : i + Len(s) \in DOMAIN u /\ u[i + Len(s)] = t[i]
  BY <1>1, <1>2
<1>5. \A i \in DOMAIN u : \/ i \in DOMAIN s
                          \/ i \notin DOMAIN s /\ i - Len(s) \in DOMAIN t /\ u[i] = t[i - Len(s)]
  BY <1>1, <1>2
<1>6. ToSet(u) = ToSet(s) \cup ToSet(t)
  BY <1>3, <1>4, <1>5 DEF ToSet
<1>7. NoneTwice(u)
  <2>. SUFFICES ASSUME NEW i \in DOMAIN u, NEW j \in DOMAIN u, u[i] = u[j] PROVE i = j
    BY DEF NoneTwice
  <2>1. CASE i \in DOMAIN s /\ j \in DOMAIN s
    BY <1>3, <2>1 DEF NoneTwice
  <2>2. CASE i \in DOMAIN s <=> j \notin DOMAIN s
    BY <1>3, <1>5, <2>2 DEF ToSet
  <2>3. CASE i \notin DOMAIN s /\ j \notin DOMAIN s
    <3>1. i - Len(s) = j - Len(s)
      BY <1>5, <2>3 DEF NoneTwice
    <3>. QED  BY <1>1, <1>2, <3>1
  <2>. QED  BY <2>1, <2>2, <2>3
<1>. QED  BY <1>1, <1>6, <1>7 DEF u

\* The calls in progress and the path that they make.
NodesOf(s) == {s[i].node : i \in DOMAIN s}

LEMMA PathOfCalls ==
  ASSUME NEW s \in Seq(Frame), NEW n \in Number
  PROVE  /\ ToSet(PathOf(s)) = NodesOf(s)
         /\ <<n>> \o PathOf(s) \in Seq(Number) /\ <<n>> \o PathOf(s) # <<>>
         /\ (<<n>> \o PathOf(s))[1] = n
         /\ ToSet(<<n>> \o PathOf(s)) = ToSet(PathOf(s)) \cup {n}
         /\ Len(<<n>> \o PathOf(s)) = Len(s) + 1
         /\ \A i \in 1..Len(s) : (<<n>> \o PathOf(s))[i + 1] = s[(Len(s) - i) + 1].node
<1>. DEFINE f == [i \in 1..Len(s) |-> s[i].node]
            r == PathOf(s)
            p == <<n>> \o r
<1>1. Len(s) \in Nat /\ DOMAIN s = 1..Len(s)
  BY LenProperties
<1>2. \A i \in 1..Len(s) : s[i].node \in Number
  <2>1. \A i \in 1..Len(s) : s[i] \in Frame
    BY ElementOfSeq
  <2>. QED  BY <2>1 DEF Frame
<1>3. f \in Seq(Number) /\ Len(f) = Len(s)
  BY <1>1, <1>2
<1>4. r = [i \in 1..Len(s) |-> f[(Len(s) - i) + 1]]
  BY <1>3 DEF PathOf, Reverse
<1>5. \A i \in 1..Len(s) : (Len(s) - i) + 1 \in 1..Len(s) /\ (Len(s) - ((Len(s) - i) + 1)) + 1 = i
  BY <1>1
<1>6. \A i \in 1..Len(s) : r[i] = s[(Len(s) - i) + 1].node
  BY <1>4, <1>5
<1>. HIDE DEF f, r
<1>7. r \in Seq(Number) /\ Len(r) = Len(s) /\ DOMAIN r = 1..Len(s)
  <2>1. \A i \in 1..Len(s) : r[i] \in Number
    BY <1>2, <1>5, <1>6
  <2>. QED  BY <1>1, <1>4, <2>1
<1>8. ToSet(r) = NodesOf(s)
  <2>1. ToSet(r) \subseteq NodesOf(s)
    BY <1>1, <1>5, <1>6, <1>7 DEF ToSet, NodesOf
  <2>2. ASSUME NEW i \in DOMAIN s PROVE s[i].node \in ToSet(r)
    <3>1. r[(Len(s) - i) + 1] = s[i].node /\ (Len(s) - i) + 1 \in DOMAIN r
      BY <1>1, <1>5, <1>6, <1>7
    <3>. QED  BY <3>1 DEF ToSet
  <2>. QED  BY <2>1, <2>2 DEF NodesOf
<1>9. /\ p \in Seq(Number) /\ Len(p) = Len(r) + 1 /\ Len(r) \in Nat
      /\ p[1] = n /\ \A i \in 1..Len(r) : p[i + 1] = r[i]
  <2>1. <<n>> \in Seq(Number) /\ Len(<<n>>) = 1 /\ <<n>>[1] = n
    OBVIOUS
  <2>2. /\ p \in Seq(Number) /\ Len(p) = 1 + Len(r) /\ Len(r) \in Nat
        /\ \A i \in 1..(1 + Len(r)) : p[i] = IF i <= 1 THEN <<n>>[i] ELSE r[i - 1]
    BY <1>7, <2>1, ConcatProperties, LenProperties
  <2>. HIDE DEF p
  <2>3. p[1] = n
    BY <2>1, <2>2
  <2>4. ASSUME NEW i \in 1..Len(r) PROVE p[i + 1] = r[i]
    <3>1. i + 1 \in 1..(1 + Len(r)) /\ ~(i + 1 <= 1) /\ (i + 1) - 1 = i
      BY <2>2
    <3>. QED  BY <2>2, <3>1
  <2>. QED  BY <2>2, <2>3, <2>4
<1>. HIDE DEF p
<1>10. DOMAIN p = 1..(Len(r) + 1) /\ DOMAIN r = 1..Len(r)
  BY <1>7, <1>9, LenProperties
<1>11. ToSet(p) = ToSet(r) \cup {n}
  <2>1. \A i \in DOMAIN p : i = 1 \/ (i - 1 \in DOMAIN r /\ p[i] = r[i - 1])
    <3>. SUFFICES ASSUME NEW i \in DOMAIN p, i # 1
                  PROVE  i - 1 \in DOMAIN r /\ p[i] = r[i - 1]
      OBVIOUS
    <3>1. i - 1 \in 1..Len(r) /\ (i - 1) + 1 = i
      BY <1>9, <1>10
    <3>. QED  BY <1>9, <1>10, <3>1
  <2>2. \A i \in DOMAIN r : i + 1 \in DOMAIN p /\ p[i + 1] = r[i]
    BY <1>9, <1>10
  <2>3. 1 \in DOMAIN p /\ p[1] = n
    BY <1>9, <1>10
  <2>4. \A x : x \in ToSet(p) <=> x \in ToSet(r) \cup {n}
    BY <2>1, <2>2, <2>3 DEF ToSet
  <2>. QED  BY <2>4, Zenon
<1>12. p # <<>>
  BY <1>9, EmptySeq
<1>13. Len(p) = Len(s) + 1 /\ \A i \in 1..Len(s) : p[i + 1] = s[(Len(s) - i) + 1].node
  BY <1>6, <1>7, <1>9
<1>. QED  BY <1>8, <1>9, <1>11, <1>12, <1>13 DEF p, r

-----------------------------------------------------------------------------
(* The calls that a call makes.                                             *)
Start == ToSet(InputPin) \cup REGISTER_IN
EndPin == {c \in ToSet(Receiver) : ~HasPin(c) \/ c \in REGISTER_IN}

LEMMA Pins ==
  /\ Start \subseteq Conn /\ EndPin \subseteq Conn /\ EndPin \cap ToSet(InputPin) = {}
  /\ DOMAIN Inst \subseteq Conn /\ REGISTER_IN \subseteq DOMAIN Inst
  /\ \A c \in Conn : (c \in ToSet(InputPin) \/ HasPin(c)) => LoadNet(c) \in Net
BY ConnectionsAssumption DEF Start, EndPin, Conn, LoadNet, HasPin, Net

LEMMA CircuitType ==
  ASSUME ckt \in Circuits
  PROVE  /\ ckt.receivers \in [Net -> Seq(ToSet(Receiver))]
         /\ ckt.sense \in [DOMAIN Inst -> Int]
         /\ ckt.propdelr \in [DOMAIN Inst -> Int] /\ ckt.propdelf \in [DOMAIN Inst -> Int]
         /\ ckt.icDelay \in [Conn -> Int]
BY CircuitsAssumption

LEMMA DirType ==
  ASSUME NEW c \in Conn, NEW dir \in Dir
  PROVE  calc_dir(c, dir) \in Dir
<1>1. CASE HasPin(c) /\ dir # EITHER /\ ckt.sense[c] = SENSE_NEGATIVE
  BY <1>1 DEF calc_dir, Dir, RISING, FALLING, EITHER, SENSE_POSITIVE, SENSE_NEGATIVE
<1>2. CASE ~(HasPin(c) /\ dir # EITHER /\ ckt.sense[c] = SENSE_NEGATIVE)
  BY <1>2 DEF calc_dir, Dir
<1>. QED  BY <1>1, <1>2

LEMMA EdgesType ==
  ASSUME NEW dir \in Dir
  PROVE  /\ Edges(dir) \in Seq({RISING, FALLING}) /\ Len(Edges(dir)) \in {1, 2}
<1>1. CASE dir = EITHER
  <2>1. Edges(dir) = <<RISING, FALLING>>
    BY <1>1 DEF Edges
  <2>. QED  BY <2>1
<1>2. CASE dir \in {RISING, FALLING} /\ dir # EITHER
  <2>1. Edges(dir) = <<dir>>
    BY <1>2 DEF Edges
  <2>. QED  BY <1>2, <2>1
<1>. QED  BY <1>1, <1>2 DEF Dir

LEMMA DelayType ==
  ASSUME ckt \in Circuits, NEW c \in Conn, NEW sense
  PROVE  calc_prop_delay(c, sense) \in Int
<1>1. CASE HasPin(c)
  BY <1>1, CircuitType DEF calc_prop_delay, HasPin, Worst
<1>2. CASE ~HasPin(c)
  BY <1>2 DEF calc_prop_delay
<1>. QED  BY <1>1, <1>2

LEMMA OnwardType ==
  ASSUME ckt \in Circuits, NEW c \in Conn, c \in ToSet(InputPin) \/ HasPin(c),
         NEW dir \in Dir, NEW delay \in Int
  PROVE  Onward(c, dir, delay) \in Seq(Call)
<1>. DEFINE receivers == ckt.receivers[LoadNet(c)]
            edges == Edges(calc_dir(c, dir))
            n == Len(receivers)
            m == Len(edges)
            Made(k) == [receiver |-> receivers[((k - 1) \div m) + 1],
                        dir |-> edges[((k - 1) % m) + 1],
                        delay |-> delay + calc_prop_delay(c, edges[((k - 1) % m) + 1])]
<1>1. receivers \in Seq(ToSet(Receiver)) /\ n \in Nat
  BY Pins, CircuitType, LenProperties
<1>2. edges \in Seq({RISING, FALLING}) /\ m \in {1, 2}
  BY DirType, EdgesType
<1>3. Onward(c, dir, delay) = [k \in 1..(n * m) |-> Made(k)]
  BY DEF Onward
<1>. HIDE DEF receivers, edges
<1>4. n * m \in Nat
  BY <1>1, <1>2
<1>5. ASSUME NEW k \in 1..(n * m) PROVE Made(k) \in Call
  <2>1. ((k - 1) \div m) + 1 \in 1..n /\ ((k - 1) % m) + 1 \in 1..m
    <3>1. CASE m = 1
      BY <1>1, <3>1
    <3>2. CASE m = 2
      BY <1>1, <3>2
    <3>. QED  BY <1>2, <3>1, <3>2
  <2>2. receivers[((k - 1) \div m) + 1] \in ToSet(Receiver)
    BY <1>1, <2>1, ElementOfSeq
  <2>3. edges[((k - 1) % m) + 1] \in {RISING, FALLING}
    BY <1>2, <2>1, ElementOfSeq
  <2>4. delay + calc_prop_delay(c, edges[((k - 1) % m) + 1]) \in Int
    BY DelayType
  <2>. QED  BY <2>2, <2>3, <2>4 DEF Call, Dir
<1>. HIDE DEF Made, n, m
<1>6. [k \in 1..(n * m) |-> Made(k)] \in Seq(Call)
  BY <1>4, <1>5
<1>. QED  BY <1>3, <1>6

-----------------------------------------------------------------------------
(* The invariant.  b, tg, mt are the table, the tags and the metrics, s the  *)
(* calls in progress, dl and ml the lists of paths.                          *)
Typed(s, b, tg, mt, dl, ml) ==
  /\ s \in Seq(Frame) /\ Table(b)
  /\ tg \in [Conn -> Nat \cup {OnPath}] /\ mt \in [Conn -> Int]
  /\ dl \in Seq(Seq(Number)) /\ ml \in Seq(Seq(Number))

TypeOK ==
  /\ ckt \in Circuits /\ exhaustive \in BOOLEAN /\ analysis \in 1..5
  /\ todo \in Seq(Start) /\ pc \in {"start", "search", "free"}
  /\ Typed(stack, bt, tag, metric, delaylist, masterlist)

\* No path is listed twice.
Listed(dl, ml) == NoneTwice(dl) /\ NoneTwice(ml) /\ ToSet(dl) \cap ToSet(ml) = {}

InputsUntagged(tg) == \A c \in ToSet(InputPin) : tg[c] \in {None, OnPath}

\* What is true at any time.
Kept(s, b, tg, mt, dl, ml) ==
  /\ Typed(s, b, tg, mt, dl, ml)
  /\ Listed(dl, ml)
  /\ Counted(b, NodesOf(s), ToSet(dl) \cup ToSet(ml))
  /\ InputsUntagged(tg)

\* No connection is on the path twice, and the marks say which are.
Following(s, tg) ==
  /\ \A i, j \in DOMAIN s : i # j => /\ s[i].receiver # s[j].receiver
                                     /\ s[i].node # s[j].node
  /\ \A i \in DOMAIN s : tg[s[i].receiver] = OnPath

\* The tag of an end leads to the one record that ends there.
Tagged(tg, b, dl) ==
  /\ \A i \in DOMAIN dl : dl[i] # <<>> /\ tg[b[dl[i][1]].receiver] = i
  /\ \A c \in Conn : tg[c] \notin {None, OnPath} =>
       c \in EndPin /\ tg[c] \in DOMAIN dl /\ b[dl[tg[c]][1]].receiver = c

Inv ==
  /\ TypeOK
  /\ Kept(stack, bt, tag, metric, delaylist, masterlist)
  /\ IF pc = "search"
     THEN todo # <<>> /\ Following(stack, tag) /\ Tagged(tag, bt, delaylist)
     ELSE stack = <<>> /\ delaylist = <<>>
  /\ pc # "start" \/ todo # <<>> => analysis <= 4

-----------------------------------------------------------------------------
(* A call of find_path_delay keeps it.                                      *)
StartCall == [receiver : Start, dir : Dir, delay : Int]

\* What a call finds: it is the first, from a starting point, or goes on.
Calling(call, s, tg, mt) ==
  /\ ckt \in Circuits
  /\ Kept(s, bt, tg, mt, delaylist, masterlist)
  /\ Following(s, tg) /\ Tagged(tg, bt, delaylist)
  /\ IF s = <<>> THEN call \in StartCall /\ delaylist = <<>> ELSE call \in Call

LEMMA CallTypes ==
  ASSUME NEW call, NEW s, NEW tg, NEW mt, Calling(call, s, tg, mt)
  PROVE  /\ call.receiver \in Conn /\ call.dir \in Dir /\ call.delay \in Int
         /\ s = <<>> => call.receiver \in ToSet(InputPin) \/ HasPin(call.receiver)
         /\ s # <<>> => call.receiver \in ToSet(Receiver)
BY Pins DEF Calling, StartCall, Call, Start, HasPin, Conn

LEMMA NewNodeIsFree ==
  ASSUME FreeNodes # {}
  PROVE  NewNode \in Number /\ NewNode \notin DOMAIN bt
BY DEF FreeNodes, NewNode, Number

LEMMA Allocating ==
  ASSUME ckt \in Circuits, Table(bt), FreeNodes # {}, NEW call,
         call.receiver \in Conn, call.dir \in Dir, call.delay \in Int
  PROVE  LET b == WithNode(call)
         IN /\ Table(b) /\ DOMAIN b = DOMAIN bt \cup {NewNode}
            /\ \A n \in DOMAIN bt : b[n] = bt[n]
            /\ b[NewNode].receiver = call.receiver /\ b[NewNode].refcnt = 1
<1>. DEFINE b == WithNode(call)
            new == [receiver |-> call.receiver, dir |-> call.dir, refcnt |-> 1,
                    delay |-> call.delay + ckt.icDelay[call.receiver]]
<1>1. NewNode \in Number /\ NewNode \notin DOMAIN bt
  BY NewNodeIsFree
<1>2. new \in Node /\ new.receiver = call.receiver /\ new.refcnt = 1
  BY CircuitType DEF Node
<1>3. b = [n \in DOMAIN bt \cup {NewNode} |-> IF n = NewNode THEN new ELSE bt[n]]
  BY DEF WithNode
<1>. HIDE DEF new, b
<1>4. DOMAIN b = DOMAIN bt \cup {NewNode} /\ b[NewNode] = new /\ \A n \in DOMAIN bt : b[n] = bt[n]
  BY <1>1, <1>3
<1>5. b \in [DOMAIN b -> Node]
  BY <1>2, <1>3, <1>4 DEF Table
<1>. QED  BY <1>1, <1>2, <1>4, <1>5 DEF Table, b

LEMMA ListsFinite ==
  ASSUME NEW dl \in Seq(Seq(Number)), NEW ml \in Seq(Seq(Number))
  PROVE  IsFiniteSet(ToSet(dl) \cup ToSet(ml))
BY ListFinite, FS_Union

\* What the tags say of nodes whose connections did not change.
LEMMA FirstNodes ==
  ASSUME NEW b, NEW nodes, NEW dl, NEW ml, NEW tg, Tagged(tg, b, dl),
         dl \in Seq(Seq(Number)), Counted(b, nodes, ToSet(dl) \cup ToSet(ml)), NEW i \in DOMAIN dl
  PROVE  dl[i][1] \in DOMAIN b /\ dl[i][1] \in ToSet(dl[i])
<1>1. dl[i] \in Seq(Number) /\ dl[i] # <<>>
  BY LenProperties, ElementOfSeq DEF Tagged
<1>2. Len(dl[i]) \in Nat \ {0} /\ DOMAIN dl[i] = 1..Len(dl[i])
  BY <1>1, EmptySeq, LenProperties
<1>3. 1 \in DOMAIN dl[i]
  BY <1>2
<1>4. dl[i][1] \in ToSet(dl[i])
  BY <1>3 DEF ToSet
<1>5. dl[i] \in ToSet(dl)
  BY DEF ToSet
<1>. QED  BY <1>4, <1>5 DEF Counted

LEMMA Deeper ==
  ASSUME NEW s \in Seq(Frame), NEW f \in Frame
  PROVE  LET t == Append(s, f)
         IN /\ t \in Seq(Frame) /\ DOMAIN t = DOMAIN s \cup {Len(s) + 1}
            /\ t[Len(s) + 1] = f /\ \A i \in DOMAIN s : t[i] = s[i]
            /\ NodesOf(t) = NodesOf(s) \cup {f.node}
<1>. DEFINE t == Append(s, f)
            l == Len(s) + 1
<1>1. /\ t \in Seq(Frame) /\ Len(t) = Len(s) + 1 /\ Len(s) \in Nat
      /\ t[l] = f /\ \A i \in 1..Len(s) : t[i] = s[i]
  BY AppendProperties, LenProperties
<1>2. DOMAIN s = 1..Len(s) /\ DOMAIN t = 1..Len(t)
  BY <1>1, LenProperties
<1>. HIDE DEF t
<1>3. DOMAIN t = DOMAIN s \cup {l} /\ l \notin DOMAIN s
  BY <1>1, <1>2
<1>4. \A i \in DOMAIN s : t[i] = s[i]
  BY <1>1, <1>2
<1>. HIDE DEF l
<1>5. NodesOf(t) = NodesOf(s) \cup {f.node}
  BY <1>1, <1>3, <1>4 DEF NodesOf
<1>. QED  BY <1>1, <1>3, <1>4, <1>5 DEF t, l

LEMMA Passing ==
  ASSUME NEW call, NEW s, NEW tg, NEW mt, Calling(call, s, tg, mt), ~Looped(call, tg),
         PassThrough(call, s, tg, mt), UNCHANGED masterlist
  PROVE  /\ Kept(stack', bt', tag', metric', delaylist', masterlist')
         /\ Following(stack', tag') /\ Tagged(tag', bt', delaylist')
<1>. DEFINE c == call.receiver
            f == [receiver |-> c, delay |-> call.delay, node |-> NewNode,
                  calls |-> Onward(c, call.dir, call.delay)]
            P == ToSet(delaylist) \cup ToSet(masterlist)
            l == Len(s) + 1
<1>1. /\ c \in Conn /\ call.dir \in Dir /\ call.delay \in Int
      /\ c \in ToSet(InputPin) \/ HasPin(c)
      /\ tg[c] = None
  <2>1. /\ c \in Conn /\ call.dir \in Dir /\ call.delay \in Int
        /\ s = <<>> => c \in ToSet(InputPin) \/ HasPin(c)
        /\ s # <<>> => c \in ToSet(Receiver) /\ HasPin(c) /\ c \notin REGISTER_IN
    BY CallTypes DEF PassThrough, Ends
  <2>2. s = <<>> => DOMAIN delaylist = {}
    BY DEF Calling
  <2>3. s # <<>> => c \notin EndPin
    BY <2>1 DEF EndPin
  <2>4. tg[c] # OnPath
    BY DEF Looped
  <2>. HIDE DEF c
  <2>. QED  BY <2>1, <2>2, <2>3, <2>4 DEF Calling, Tagged
<1>2. /\ s \in Seq(Frame) /\ Table(bt) /\ tg \in [Conn -> Nat \cup {OnPath}]
      /\ mt \in [Conn -> Int] /\ delaylist \in Seq(Seq(Number))
      /\ masterlist \in Seq(Seq(Number)) /\ ckt \in Circuits
      /\ Counted(bt, NodesOf(s), P) /\ Listed(delaylist, masterlist)
      /\ Following(s, tg) /\ Tagged(tg, bt, delaylist) /\ InputsUntagged(tg)
  BY DEF Calling, Kept, Typed
<1>3. /\ NewNode \in Number /\ NewNode \notin DOMAIN bt /\ FreeNodes # {}
      /\ bt' = WithNode(call) /\ stack' = Append(s, f)
      /\ tag' = [tg EXCEPT ![c] = OnPath] /\ metric' = mt /\ delaylist' = delaylist
  BY NewNodeIsFree DEF PassThrough
<1>4. /\ Table(bt') /\ DOMAIN bt' = DOMAIN bt \cup {NewNode}
      /\ \A n \in DOMAIN bt : bt'[n] = bt[n]
      /\ bt'[NewNode].refcnt = 1
  BY <1>1, <1>2, <1>3, Allocating
<1>5. f \in Frame /\ f.node = NewNode /\ f.receiver = c
  BY <1>1, <1>2, <1>3, OnwardType DEF Frame
<1>. HIDE DEF f
<1>6. /\ stack' \in Seq(Frame) /\ DOMAIN stack' = DOMAIN s \cup {l}
      /\ stack'[l] = f /\ \A i \in DOMAIN s : stack'[i] = s[i]
      /\ NodesOf(stack') = NodesOf(s) \cup {NewNode}
  BY <1>2, <1>3, <1>5, Deeper
<1>. HIDE DEF l, c
<1>7. /\ tag' \in [Conn -> Nat \cup {OnPath}] /\ tag'[c] = OnPath
      /\ \A d \in Conn : d # c => tag'[d] = tg[d]
  BY <1>1, <1>2, <1>3
<1>8. Counted(bt', NodesOf(stack'), P)
  <2>. HIDE DEF P
  <2>1. Counted(bt', NodesOf(s) \cup {NewNode}, P)
    BY <1>2, <1>3, <1>4, Allocated
  <2>. QED  BY <1>6, <2>1
<1>9. InputsUntagged(tag')
  BY <1>2, <1>7 DEF InputsUntagged, Conn
<1>10. Following(stack', tag')
  <2>1. ASSUME NEW i \in DOMAIN s
        PROVE  /\ s[i].receiver \in Conn /\ s[i].receiver # c /\ s[i].node # NewNode
               /\ tag'[s[i].receiver] = OnPath
    <3>1. s[i] \in Frame
      BY <1>2, LenProperties, ElementOfSeq
    <3>2. s[i].node \in DOMAIN bt
      BY <1>2 DEF Counted, NodesOf
    <3>3. tg[s[i].receiver] = OnPath
      BY <1>2 DEF Following
    <3>4. s[i].receiver # c
      BY <1>1, <3>3 DEF OnPath, None
    <3>. QED  BY <1>3, <1>7, <3>1, <3>2, <3>3, <3>4 DEF Frame
  <2>. QED  BY <1>2, <1>5, <1>6, <1>7, <2>1 DEF Following
<1>11. Tagged(tag', bt', delaylist')
  <2>1. ASSUME NEW i \in DOMAIN delaylist
        PROVE  /\ delaylist[i] # <<>> /\ delaylist[i][1] \in DOMAIN bt
               /\ bt'[delaylist[i][1]].receiver = bt[delaylist[i][1]].receiver
               /\ tag'[bt'[delaylist[i][1]].receiver] = i
    <3>1. delaylist[i][1] \in DOMAIN bt
      BY <1>2, FirstNodes
    <3>2. bt'[delaylist[i][1]] = bt[delaylist[i][1]] /\ bt[delaylist[i][1]].receiver \in Conn
      BY <1>2, <1>4, <3>1 DEF Table, Node
    <3>3. tg[bt[delaylist[i][1]].receiver] = i /\ delaylist[i] # <<>>
      BY <1>2 DEF Tagged
    <3>4. i # None
      BY <1>2, LenProperties DEF None
    <3>5. bt[delaylist[i][1]].receiver # c
      BY <1>1, <3>3, <3>4
    <3>. QED  BY <1>7, <3>1, <3>2, <3>3, <3>5
  <2>2. ASSUME NEW d \in Conn, tag'[d] \notin {None, OnPath}
        PROVE  /\ d \in EndPin /\ tag'[d] \in DOMAIN delaylist
               /\ bt'[delaylist[tag'[d]][1]].receiver = d
    <3>1. tag'[d] = tg[d]
      BY <1>7, <2>2
    <3>2. /\ d \in EndPin /\ tg[d] \in DOMAIN delaylist
          /\ bt[delaylist[tg[d]][1]].receiver = d
      BY <1>2, <2>2, <3>1 DEF Tagged
    <3>. QED  BY <2>1, <3>1, <3>2
  <2>. QED  BY <1>3, <2>1, <2>2 DEF Tagged
<1>12. Kept(stack', bt', tag', metric', delaylist', masterlist')
  BY <1>2, <1>3, <1>4, <1>6, <1>7, <1>8, <1>9 DEF Kept, Typed
<1>. QED  BY <1>10, <1>11, <1>12

\* The path that a call at an end records is a new one.
LEMMA NewPath ==
  ASSUME NEW call, NEW s, NEW tg, NEW mt, Calling(call, s, tg, mt), FreeNodes # {}
  PROVE  LET path == <<NewNode>> \o PathOf(s)
         IN /\ path \in Seq(Number) /\ path # <<>> /\ path[1] = NewNode
            /\ ToSet(PathOf(s)) = NodesOf(s) /\ ToSet(path) = ToSet(PathOf(s)) \cup {NewNode}
            /\ path \notin ToSet(delaylist) \cup ToSet(masterlist)
            /\ NewNode \notin NodesOf(s)
<1>. DEFINE path == <<NewNode>> \o PathOf(s)
<1>1. s \in Seq(Frame) /\ Counted(bt, NodesOf(s), ToSet(delaylist) \cup ToSet(masterlist))
  BY DEF Calling, Kept, Typed
<1>2. NewNode \in Number /\ NewNode \notin DOMAIN bt
  BY NewNodeIsFree
<1>3. /\ path \in Seq(Number) /\ path # <<>> /\ path[1] = NewNode
      /\ ToSet(PathOf(s)) = NodesOf(s) /\ ToSet(path) = ToSet(PathOf(s)) \cup {NewNode}
  BY <1>1, <1>2, PathOfCalls
<1>. HIDE DEF path
<1>4. path \notin ToSet(delaylist) \cup ToSet(masterlist)
  BY <1>1, <1>2, <1>3 DEF Counted
<1>5. NewNode \notin NodesOf(s)
  BY <1>1, <1>2 DEF Counted
<1>. QED  BY <1>3, <1>4, <1>5 DEF path

LEMMA Recording ==
  ASSUME NEW call, NEW s, NEW tg, NEW mt, Calling(call, s, tg, mt), ~Looped(call, tg),
         Ends(call, s), FreeNodes # {}, RecordPath(call, s, tg), UNCHANGED masterlist,
         stack' = s, metric' = [mt EXCEPT ![call.receiver] = call.delay]
  PROVE  /\ Kept(stack', bt', tag', metric', delaylist', masterlist')
         /\ Following(stack', tag') /\ Tagged(tag', bt', delaylist')
<1>. DEFINE c == call.receiver
            path == <<NewNode>> \o PathOf(s)
            P == ToSet(delaylist) \cup ToSet(masterlist)
            l == Len(delaylist) + 1
            b == WithNode(call)
<1>1. /\ c \in Conn /\ call.dir \in Dir /\ call.delay \in Int /\ c \in EndPin /\ tg[c] = None
  BY CallTypes DEF Ends, EndPin, RecordPath, Looped
<1>2. /\ s \in Seq(Frame) /\ Table(bt) /\ tg \in [Conn -> Nat \cup {OnPath}]
      /\ mt \in [Conn -> Int] /\ delaylist \in Seq(Seq(Number))
      /\ masterlist \in Seq(Seq(Number)) /\ ckt \in Circuits
      /\ Counted(bt, NodesOf(s), P) /\ Listed(delaylist, masterlist)
      /\ Following(s, tg) /\ Tagged(tg, bt, delaylist) /\ InputsUntagged(tg)
  BY DEF Calling, Kept, Typed
<1>3. /\ NewNode \in Number /\ NewNode \notin DOMAIN bt
      /\ bt' = Hold(b, PathOf(s)) /\ delaylist' = Append(delaylist, path)
      /\ tag' = [tg EXCEPT ![c] = l] /\ metric' = [mt EXCEPT ![c] = call.delay]
  BY NewNodeIsFree DEF RecordPath
<1>4. /\ Table(b) /\ DOMAIN b = DOMAIN bt \cup {NewNode}
      /\ \A n \in DOMAIN bt : b[n] = bt[n]
      /\ b[NewNode].refcnt = 1 /\ b[NewNode].receiver = c
  BY <1>1, <1>2, Allocating
<1>5. /\ path \in Seq(Number) /\ path # <<>> /\ path[1] = NewNode
      /\ ToSet(PathOf(s)) = NodesOf(s) /\ ToSet(path) = ToSet(PathOf(s)) \cup {NewNode}
      /\ path \notin P /\ NewNode \notin NodesOf(s)
  BY NewPath
<1>6. IsFiniteSet(P)
  BY <1>2, ListsFinite
<1>. HIDE DEF b, path, c
<1>7. /\ delaylist' \in Seq(Seq(Number)) /\ DOMAIN delaylist' = DOMAIN delaylist \cup {l}
      /\ l \notin DOMAIN delaylist /\ l \in Nat \ {0}
      /\ delaylist'[l] = path /\ \A i \in DOMAIN delaylist : delaylist'[i] = delaylist[i]
      /\ ToSet(delaylist') = ToSet(delaylist) \cup {path} /\ NoneTwice(delaylist')
  BY <1>2, <1>3, <1>5, OneMore, LenProperties DEF Listed
<1>8. Table(bt') /\ DOMAIN bt' = DOMAIN b /\ \A n \in DOMAIN b : bt'[n].receiver = b[n].receiver
  BY <1>3, <1>4, TableKept
<1>9. ToSet(delaylist') \cup ToSet(masterlist') = P \cup {path} /\ Listed(delaylist', masterlist')
  BY <1>2, <1>5, <1>7 DEF Listed
<1>. HIDE DEF P, l
<1>10. Counted(bt', NodesOf(s), P \cup {path})
  <2>1. Counted(b, NodesOf(s) \cup {NewNode}, P)
    BY <1>2, <1>3, <1>4, Allocated
  <2>2. ToSet(PathOf(s)) \subseteq NodesOf(s)
    BY <1>5
  <2>3. Counted(Hold(b, PathOf(s)), NodesOf(s), P \cup {path})
    BY <1>4, <1>5, <1>6, <2>1, <2>2, PathHeld
  <2>. QED  BY <1>3, <2>3
<1>11. /\ tag' \in [Conn -> Nat \cup {OnPath}] /\ tag'[c] = l
       /\ \A d \in Conn : d # c => tag'[d] = tg[d]
  BY <1>1, <1>2, <1>3, <1>7
<1>12. InputsUntagged(tag')
  BY <1>1, <1>2, <1>11, Pins DEF InputsUntagged, Conn
<1>13. Following(stack', tag')
  <2>1. ASSUME NEW i \in DOMAIN s PROVE tag'[s[i].receiver] = OnPath
    <3>1. s[i] \in Frame
      BY <1>2, LenProperties, ElementOfSeq
    <3>2. tg[s[i].receiver] = OnPath /\ s[i].receiver # c
      BY <1>1, <1>2 DEF Following, OnPath, None
    <3>. QED  BY <1>11, <3>1, <3>2 DEF Frame
  <2>. QED  BY <1>2, <2>1 DEF Following
<1>14. Tagged(tag', bt', delaylist')
  <2>1. ASSUME NEW i \in DOMAIN delaylist
        PROVE  /\ delaylist[i] # <<>>
               /\ bt'[delaylist[i][1]].receiver = bt[delaylist[i][1]].receiver
               /\ tag'[bt'[delaylist[i][1]].receiver] = i
    <3>1. delaylist[i][1] \in DOMAIN bt
      BY <1>2, FirstNodes DEF P
    <3>2. /\ bt'[delaylist[i][1]].receiver = bt[delaylist[i][1]].receiver
          /\ bt[delaylist[i][1]].receiver \in Conn
      BY <1>2, <1>4, <1>8, <3>1 DEF Table, Node
    <3>3. tg[bt[delaylist[i][1]].receiver] = i /\ delaylist[i] # <<>>
      BY <1>2 DEF Tagged
    <3>4. i # None
      BY <1>2, LenProperties DEF None
    <3>5. bt[delaylist[i][1]].receiver # c
      BY <1>1, <3>3, <3>4
    <3>. QED  BY <1>11, <3>2, <3>3, <3>5
  <2>2. bt'[path[1]].receiver = c
    BY <1>4, <1>5, <1>8
  <2>3. ASSUME NEW d \in Conn, d # c, tag'[d] \notin {None, OnPath}
        PROVE  /\ d \in EndPin /\ tag'[d] \in DOMAIN delaylist
               /\ bt'[delaylist[tag'[d]][1]].receiver = d
    <3>1. tag'[d] = tg[d]
      BY <1>11, <2>3
    <3>2. /\ d \in EndPin /\ tg[d] \in DOMAIN delaylist
          /\ bt[delaylist[tg[d]][1]].receiver = d
      BY <1>2, <2>3, <3>1 DEF Tagged
    <3>. QED  BY <2>1, <3>1, <3>2
  <2>4. \A i \in DOMAIN delaylist' :
          delaylist'[i] # <<>> /\ tag'[bt'[delaylist'[i][1]].receiver] = i
    BY <1>5, <1>7, <1>11, <2>1, <2>2
  <2>5. \A d \in Conn : tag'[d] \notin {None, OnPath} =>
          /\ d \in EndPin /\ tag'[d] \in DOMAIN delaylist'
          /\ bt'[delaylist'[tag'[d]][1]].receiver = d
    BY <1>1, <1>7, <1>11, <2>2, <2>3
  <2>. QED  BY <2>4, <2>5 DEF Tagged
<1>15. metric' \in [Conn -> Int]
  BY <1>1, <1>2, <1>3
<1>16. Kept(stack', bt', tag', metric', delaylist', masterlist')
  BY <1>2, <1>7, <1>8, <1>9, <1>10, <1>11, <1>12, <1>15 DEF Kept, Typed
<1>. QED  BY <1>13, <1>14, <1>16

LEMMA Replacing ==
  ASSUME NEW call, NEW s, NEW tg, NEW mt, Calling(call, s, tg, mt),
         Ends(call, s), FreeNodes # {}, ReplacePath(call, s, tg), UNCHANGED masterlist,
         stack' = s, metric' = [mt EXCEPT ![call.receiver] = call.delay]
  PROVE  /\ Kept(stack', bt', tag', metric', delaylist', masterlist')
         /\ Following(stack', tag') /\ Tagged(tag', bt', delaylist')
<1>. DEFINE c == call.receiver
            path == <<NewNode>> \o PathOf(s)
            P == ToSet(delaylist) \cup ToSet(masterlist)
            k == tg[c]
            old == delaylist[k]
            b == WithNode(call)
            r == Release(b, old)
<1>1. /\ c \in Conn /\ call.dir \in Dir /\ call.delay \in Int /\ k \notin {None, OnPath}
  BY CallTypes DEF ReplacePath
<1>2. /\ s \in Seq(Frame) /\ Table(bt) /\ tg \in [Conn -> Nat \cup {OnPath}]
      /\ mt \in [Conn -> Int] /\ delaylist \in Seq(Seq(Number))
      /\ masterlist \in Seq(Seq(Number)) /\ ckt \in Circuits
      /\ Counted(bt, NodesOf(s), P) /\ Listed(delaylist, masterlist)
      /\ Following(s, tg) /\ Tagged(tg, bt, delaylist) /\ InputsUntagged(tg)
  BY DEF Calling, Kept, Typed
<1>3. /\ NewNode \in Number /\ NewNode \notin DOMAIN bt
      /\ bt' = Hold(r, PathOf(s)) /\ delaylist' = [delaylist EXCEPT ![k] = path]
      /\ tag' = tg /\ metric' = [mt EXCEPT ![c] = call.delay]
  BY NewNodeIsFree DEF ReplacePath, Recorded
<1>4. /\ Table(b) /\ DOMAIN b = DOMAIN bt \cup {NewNode}
      /\ \A n \in DOMAIN bt : b[n] = bt[n]
      /\ b[NewNode].refcnt = 1 /\ b[NewNode].receiver = c
  BY <1>1, <1>2, Allocating
<1>5. /\ path \in Seq(Number) /\ path # <<>> /\ path[1] = NewNode
      /\ ToSet(PathOf(s)) = NodesOf(s) /\ ToSet(path) = ToSet(PathOf(s)) \cup {NewNode}
      /\ path \notin P /\ NewNode \notin NodesOf(s)
  BY NewPath
<1>6. IsFiniteSet(P)
  BY <1>2, ListsFinite
<1>7. k \in DOMAIN delaylist /\ bt[old[1]].receiver = c /\ old \in ToSet(delaylist)
  BY <1>1, <1>2 DEF Tagged, ToSet
<1>. HIDE DEF b, path, c, k
<1>8. /\ delaylist' \in Seq(Seq(Number)) /\ DOMAIN delaylist' = DOMAIN delaylist
      /\ delaylist'[k] = path /\ \A i \in DOMAIN delaylist : i # k => delaylist'[i] = delaylist[i]
      /\ ToSet(delaylist') = (ToSet(delaylist) \ {old}) \cup {path} /\ NoneTwice(delaylist')
  BY <1>2, <1>3, <1>5, <1>7, OneReplaced DEF Listed
<1>9. /\ Table(r) /\ DOMAIN r \subseteq DOMAIN b
      /\ \A n \in DOMAIN r : r[n].receiver = b[n].receiver
  BY <1>4, TableKept
<1>10. Table(bt') /\ DOMAIN bt' = DOMAIN r /\ \A n \in DOMAIN r : bt'[n].receiver = r[n].receiver
  <2>. HIDE DEF r
  <2>. QED  BY <1>3, <1>9, TableKept
<1>11. /\ ToSet(delaylist') \cup ToSet(masterlist') = (P \ {old}) \cup {path}
       /\ Listed(delaylist', masterlist')
  BY <1>2, <1>5, <1>7, <1>8 DEF Listed
<1>12. old \in P
  BY <1>7
<1>. HIDE DEF P, old
<1>13. Counted(bt', NodesOf(s), (P \ {old}) \cup {path})
  <2>1. Counted(b, NodesOf(s) \cup {NewNode}, P)
    BY <1>2, <1>3, <1>4, Allocated
  <2>2. Counted(r, NodesOf(s) \cup {NewNode}, P \ {old})
    BY <1>4, <1>6, <1>12, <2>1, PathReleased
  <2>. HIDE DEF r
  <2>. DEFINE Q == P \ {old}
  <2>3. IsFiniteSet(Q) /\ path \notin Q /\ ToSet(PathOf(s)) \subseteq NodesOf(s)
    BY <1>5, <1>6, FS_Subset
  <2>4. Counted(r, NodesOf(s) \cup {NewNode}, Q)
    BY <2>2
  <2>. HIDE DEF Q
  <2>5. Counted(Hold(r, PathOf(s)), NodesOf(s), Q \cup {path})
    BY <1>5, <1>9, <2>3, <2>4, PathHeld
  <2>. QED  BY <1>3, <2>5 DEF Q
<1>14. Tagged(tag', bt', delaylist')
  <2>1. ASSUME NEW i \in DOMAIN delaylist', i # k
        PROVE  /\ i \in DOMAIN delaylist /\ delaylist'[i] = delaylist[i] /\ delaylist[i] # <<>>
               /\ bt'[delaylist[i][1]].receiver = bt[delaylist[i][1]].receiver
               /\ tag'[bt'[delaylist[i][1]].receiver] = i
    <3>1. delaylist[i][1] \in DOMAIN bt /\ delaylist[i][1] \in ToSet(delaylist[i])
      BY <1>2, <1>8, FirstNodes DEF P
    <3>2. delaylist'[i] \in ToSet(delaylist') /\ delaylist'[i] = delaylist[i] /\ i \in DOMAIN delaylist
      BY <1>8, <2>1 DEF ToSet
    <3>3. delaylist[i][1] \in DOMAIN bt'
      BY <1>11, <1>13, <3>1, <3>2 DEF Counted
    <3>4. bt'[delaylist[i][1]].receiver = bt[delaylist[i][1]].receiver
      BY <1>4, <1>9, <1>10, <3>1, <3>3
    <3>. QED  BY <1>2, <1>3, <3>2, <3>4 DEF Tagged
  <2>2. bt'[path[1]].receiver = c
    <3>1. NewNode \in DOMAIN bt'
      BY <1>5, <1>13 DEF Counted
    <3>. QED  BY <1>4, <1>5, <1>9, <1>10, <3>1
  <2>3. ASSUME NEW d \in Conn, tag'[d] \notin {None, OnPath}
        PROVE  /\ d \in EndPin /\ tag'[d] \in DOMAIN delaylist'
               /\ bt'[delaylist'[tag'[d]][1]].receiver = d
    <3>1. /\ d \in EndPin /\ tag'[d] \in DOMAIN delaylist'
          /\ bt[delaylist[tag'[d]][1]].receiver = d
      BY <1>2, <1>3, <1>8, <2>3 DEF Tagged
    <3>2. CASE tag'[d] = k
      BY <1>7, <1>8, <2>2, <3>1, <3>2 DEF old
    <3>3. CASE tag'[d] # k
      BY <2>1, <3>1, <3>3
    <3>. QED  BY <3>1, <3>2, <3>3
  <2>4. ASSUME NEW i \in DOMAIN delaylist'
        PROVE  delaylist'[i] # <<>> /\ tag'[bt'[delaylist'[i][1]].receiver] = i
    <3>1. CASE i = k
      BY <1>3, <1>5, <1>8, <2>2, <3>1 DEF k
    <3>2. CASE i # k
      BY <2>1, <3>2
    <3>. QED  BY <3>1, <3>2
  <2>. QED  BY <2>3, <2>4 DEF Tagged
<1>15. metric' \in [Conn -> Int]
  BY <1>1, <1>2, <1>3
<1>16. Kept(stack', bt', tag', metric', delaylist', masterlist')
  BY <1>2, <1>3, <1>8, <1>10, <1>11, <1>13, <1>15 DEF Kept, Typed
<1>. QED  BY <1>2, <1>3, <1>14, <1>16

LEMMA Called ==
  ASSUME NEW call, NEW s, NEW tg, NEW mt, Calling(call, s, tg, mt),
         find_path_delay(call, s, tg, mt), UNCHANGED masterlist
  PROVE  /\ Kept(stack', bt', tag', metric', delaylist', masterlist')
         /\ Following(stack', tag') /\ Tagged(tag', bt', delaylist')
<1>1. CASE CutShort(call, s, tg, mt)
  BY <1>1 DEF CutShort, Calling
<1>2. CASE ~Looped(call, tg) /\ PassThrough(call, s, tg, mt)
  BY <1>2, Passing
<1>3. CASE ~Looped(call, tg) /\ PathEnds(call, s, tg, mt)
  <2>1. /\ Ends(call, s) /\ FreeNodes # {} /\ stack' = s
        /\ metric' = [mt EXCEPT ![call.receiver] = call.delay]
    BY <1>3 DEF PathEnds
  <2>2. CASE RecordPath(call, s, tg)
    BY <1>3, <2>1, <2>2, Recording
  <2>3. CASE ReplacePath(call, s, tg)
    BY <2>1, <2>3, Replacing
  <2>4. CASE KeepPath(call, tg)
    <3>1. /\ tag' = tg /\ bt' = bt /\ delaylist' = delaylist
          /\ Kept(s, bt, tg, mt, delaylist, masterlist)
          /\ Following(s, tg) /\ Tagged(tg, bt, delaylist)
      BY <2>4 DEF KeepPath, Calling
    <3>2. call.receiver \in Conn /\ call.delay \in Int
      BY CallTypes
    <3>3. metric' \in [Conn -> Int]
      BY <2>1, <3>1, <3>2 DEF Kept, Typed
    <3>. QED  BY <2>1, <3>1, <3>3 DEF Kept, Typed
  <2>. QED  BY <1>3, <2>2, <2>3, <2>4 DEF PathEnds
<1>. QED  BY <1>1, <1>2, <1>3 DEF find_path_delay

-----------------------------------------------------------------------------
(* Each action keeps the invariant.                                         *)
LEMMA Initially == Init => Inv
<1>. SUFFICES ASSUME Init PROVE Inv
  OBVIOUS
<1>1. ClockPin \in Seq(Start)
  <2>1. ClockPin \in Seq(REGISTER_IN) /\ REGISTER_IN \subseteq Start
    BY ConnectionsAssumption DEF Start
  <2>. QED  BY <2>1, SeqMonotonic
<1>2. Typed(stack, bt, tag, metric, delaylist, masterlist)
  <2>1. <<>> \in Seq(Frame) /\ <<>> \in Seq(Seq(Number))
    BY EmptySeq
  <2>2. <<>> \in Seq(Node) /\ Len(<<>>) = 0
    BY EmptySeq
  <2>3. Table(<<>>)
    <3>1. DOMAIN <<>> = 1..Len(<<>>) /\ <<>> \in [1..Len(<<>>) -> Node]
      BY <2>2, LenProperties, Zenon
    <3>2. 1..Len(<<>>) = {}
      BY <2>2
    <3>3. {} \subseteq Number
      OBVIOUS
    <3>. QED  BY <3>1, <3>2, <3>3, Zenon DEF Table
  <2>4. tag \in [Conn -> Nat \cup {OnPath}]
    BY DEF Init, None
  <2>5. metric \in [Conn -> Int]
    BY DEF Init
  <2>. QED  BY <2>1, <2>3, <2>4, <2>5 DEF Init, Typed
<1>3. TypeOK
  BY <1>1, <1>2 DEF Init, TypeOK
<1>4. ToSet(<<>>) = {} /\ NodesOf(<<>>) = {} /\ NoneTwice(<<>>)
  BY DEF ToSet, NodesOf, NoneTwice
<1>5. Counted(bt, NodesOf(stack), ToSet(delaylist) \cup ToSet(masterlist))
  <2>1. DOMAIN bt = {}
    BY DEF Init
  <2>. QED  BY <1>4, <2>1 DEF Init, Counted
<1>6. InputsUntagged(tag)
  BY DEF Init, InputsUntagged, Conn
<1>7. Kept(stack, bt, tag, metric, delaylist, masterlist)
  BY <1>2, <1>4, <1>5, <1>6 DEF Init, Kept, Listed
<1>8. analysis = 1
  BY DEF Init
<1>. QED  BY <1>3, <1>7, <1>8 DEF Init, Inv

LEMMA NoFollowing == Following(<<>>, tag) /\ NodesOf(<<>>) = {}
BY DEF Following, NodesOf

\* The starting points of an analysis.
LEMMA Starts ==
  ASSUME NEW i \in 1..4
  PROVE  Analyses[i][1] \in Seq(Start)
<1>1. /\ ClockPin \in Seq(REGISTER_IN) /\ REGISTER_IN \subseteq Start
      /\ InputPin \in Seq(ToSet(InputPin)) /\ ToSet(InputPin) \subseteq Start
  BY ConnectionsAssumption DEF Start
<1>2. ClockPin \in Seq(Start) /\ InputPin \in Seq(Start)
  BY <1>1, SeqMonotonic
<1>3. Analyses[i][1] \in {ClockPin, InputPin}
  BY DEF Analyses
<1>. QED  BY <1>2, <1>3

\* The first call of a search, and the call that the one on top makes next.
StartTags == [c \in Conn |-> IF c \in ToSet(Receiver) THEN None ELSE tag[c]]
StartMetrics == [c \in Conn |-> IF c \in ToSet(Receiver) THEN NoMetric(minmax) ELSE metric[c]]
FirstCall(c) == [receiver |-> c, dir |-> SourceDir(c), delay |-> 0]

LEMMA StartCalls ==
  ASSUME Inv, StartSearch
  PROVE  /\ Calling(FirstCall(Head(todo)), <<>>, StartTags, StartMetrics)
         /\ find_path_delay(FirstCall(Head(todo)), <<>>, StartTags, StartMetrics)
<1>. DEFINE call == FirstCall(Head(todo))
            tg == StartTags
            mt == StartMetrics
<1>1. /\ pc = "start" /\ todo # <<>> /\ todo \in Seq(Start) /\ ckt \in Circuits
      /\ stack = <<>> /\ delaylist = <<>>
      /\ Typed(stack, bt, tag, metric, delaylist, masterlist)
      /\ Kept(stack, bt, tag, metric, delaylist, masterlist)
  BY DEF Inv, TypeOK, StartSearch
<1>2. Head(todo) \in Start
  BY <1>1, HeadTailProperties
<1>3. call \in StartCall
  BY <1>2 DEF StartCall, FirstCall, SourceDir, Dir
<1>4. tg \in [Conn -> Nat \cup {OnPath}] /\ InputsUntagged(tg)
  BY <1>1 DEF Typed, Kept, InputsUntagged, None, Conn, StartTags
<1>5. mt \in [Conn -> Int]
  <2>1. NoMetric(minmax) \in Int
    BY DEF NoMetric, Infinite
  <2>. QED  BY <1>1, <2>1 DEF Typed, StartMetrics
<1>6. \A c \in Conn : tg[c] \in {None, OnPath}
  BY <1>4 DEF InputsUntagged, Conn, StartTags
<1>7. find_path_delay(call, <<>>, tg, mt)
  BY DEF StartSearch, FirstCall, StartTags, StartMetrics
<1>. HIDE DEF call, tg, mt
<1>8. Kept(<<>>, bt, tg, mt, delaylist, masterlist)
  BY <1>1, <1>4, <1>5 DEF Kept, Typed
<1>9. DOMAIN <<>> = {}
  OBVIOUS
<1>10. Following(<<>>, tg) /\ Tagged(tg, bt, <<>>)
  BY <1>6, <1>9 DEF Following, Tagged
<1>11. Calling(call, <<>>, tg, mt)
  BY <1>1, <1>3, <1>8, <1>10 DEF Calling
<1>. QED  BY <1>7, <1>11 DEF call, tg, mt

LEMMA StartSearchKeeps ==
  ASSUME Inv, StartSearch
  PROVE  Inv'
<1>1. /\ UNCHANGED <<ckt, exhaustive, analysis, todo, masterlist>>
      /\ pc = "start" /\ pc' = "search" /\ todo # <<>>
  BY DEF StartSearch
<1>2. /\ Kept(stack', bt', tag', metric', delaylist', masterlist')
      /\ Following(stack', tag') /\ Tagged(tag', bt', delaylist')
  BY <1>1, StartCalls, Called
<1>3. analysis \in 1..4
  BY <1>1 DEF Inv, TypeOK
<1>. QED  BY <1>1, <1>2, <1>3 DEF Inv, TypeOK, Kept

LEMMA TopCall ==
  ASSUME stack \in Seq(Frame), stack # <<>>
  PROVE  /\ Len(stack) \in DOMAIN stack /\ Len(stack) \in 1..Len(stack)
         /\ Len(stack) \in Nat \ {0} /\ DOMAIN stack = 1..Len(stack)
         /\ Top \in Frame /\ Top = stack[Len(stack)]
<1>1. Len(stack) \in Nat \ {0} /\ DOMAIN stack = 1..Len(stack)
  BY EmptySeq, LenProperties
<1>2. Len(stack) \in 1..Len(stack)
  BY <1>1
<1>3. stack[Len(stack)] \in Frame
  BY <1>2, ElementOfSeq
<1>. QED  BY <1>1, <1>2, <1>3 DEF Top

Resumed == [stack EXCEPT ![Len(stack)].calls = Tail(@)]

LEMMA RecurseCalls ==
  ASSUME Inv, Recurse
  PROVE  /\ Calling(Head(Top.calls), Resumed, tag, metric)
         /\ find_path_delay(Head(Top.calls), Resumed, tag, metric)
         /\ Resumed # <<>> /\ Len(Resumed) = Len(stack) /\ DOMAIN Resumed = DOMAIN stack
         /\ \A i \in DOMAIN stack :
              /\ Resumed[i].receiver = stack[i].receiver /\ Resumed[i].node = stack[i].node
              /\ Resumed[i].delay = stack[i].delay
              /\ Resumed[i].calls = IF i = Len(stack) THEN Tail(stack[i].calls) ELSE stack[i].calls
<1>. DEFINE call == Head(Top.calls)
            s == Resumed
            n == Len(stack)
            f == [stack[n] EXCEPT !.calls = Tail(@)]
<1>1. /\ pc = "search" /\ stack # <<>> /\ Top.calls # <<>> /\ ckt \in Circuits
      /\ stack \in Seq(Frame) /\ todo # <<>>
      /\ Kept(stack, bt, tag, metric, delaylist, masterlist)
      /\ Following(stack, tag) /\ Tagged(tag, bt, delaylist)
  BY DEF Inv, TypeOK, Typed, Recurse
<1>2. /\ n \in DOMAIN stack /\ n \in 1..Len(stack) /\ DOMAIN stack = 1..Len(stack)
      /\ n \in Nat \ {0} /\ Top \in Frame /\ Top = stack[n]
  BY <1>1, TopCall
<1>3. Top.calls \in Seq(Call)
  BY <1>2 DEF Frame
<1>4. call \in Call /\ Tail(Top.calls) \in Seq(Call)
  BY <1>1, <1>3, HeadTailProperties
<1>5. /\ f \in Frame /\ f.receiver = stack[n].receiver /\ f.node = stack[n].node
      /\ f.delay = stack[n].delay
      /\ f.calls = Tail(stack[n].calls)
  <2>1. stack[n] \in Frame /\ Tail(stack[n].calls) \in Seq(Call)
    BY <1>2, <1>4
  <2>. QED  BY <2>1 DEF Frame
<1>6. s = [stack EXCEPT ![n] = f]
  BY DEF Resumed
<1>7. find_path_delay(call, s, tag, metric)
  BY DEF Recurse, Resumed
<1>. HIDE DEF f, s, call, n
<1>8. /\ s \in Seq(Frame) /\ Len(s) = Len(stack)
      /\ \A i \in 1..Len(stack) : s[i] = IF i = n THEN f ELSE stack[i]
  BY <1>1, <1>2, <1>5, <1>6, ExceptSeq
<1>9. DOMAIN s = DOMAIN stack
  BY <1>2, <1>6
<1>10. \A i \in DOMAIN stack :
         /\ s[i].receiver = stack[i].receiver /\ s[i].node = stack[i].node
         /\ s[i].delay = stack[i].delay
         /\ s[i].calls = IF i = n THEN Tail(stack[i].calls) ELSE stack[i].calls
  BY <1>2, <1>5, <1>8
<1>11. NodesOf(s) = NodesOf(stack)
  BY <1>9, <1>10 DEF NodesOf
<1>12. Following(s, tag)
  BY <1>1, <1>9, <1>10 DEF Following
<1>13. Kept(s, bt, tag, metric, delaylist, masterlist)
  BY <1>1, <1>8, <1>11 DEF Kept, Typed
<1>14. s # <<>>
  <2>1. Len(s) # 0
    BY <1>2, <1>8
  <2>. QED  BY <2>1, EmptySeq
<1>15. Calling(call, s, tag, metric)
  BY <1>1, <1>4, <1>12, <1>13, <1>14 DEF Calling
<1>. QED  BY <1>7, <1>8, <1>9, <1>10, <1>14, <1>15 DEF s, call, n

LEMMA RecurseKeeps ==
  ASSUME Inv, Recurse
  PROVE  Inv'
<1>1. UNCHANGED <<ckt, exhaustive, analysis, todo, pc, masterlist>> /\ pc = "search"
  BY DEF Recurse
<1>2. /\ Kept(stack', bt', tag', metric', delaylist', masterlist')
      /\ Following(stack', tag') /\ Tagged(tag', bt', delaylist')
  BY <1>1, RecurseCalls, Called
<1>. QED  BY <1>1, <1>2 DEF Inv, TypeOK, Kept

LEMMA Popped ==
  ASSUME stack \in Seq(Frame), stack # <<>>
  PROVE  LET t == Front(stack)
         IN /\ t \in Seq(Frame)
            /\ DOMAIN stack = DOMAIN t \cup {Len(stack)} /\ Len(stack) \notin DOMAIN t
            /\ \A i \in DOMAIN t : t[i] = stack[i] /\ (i # 1 => i - 1 \in DOMAIN t)
<1>. DEFINE l == Len(stack)
            t == Front(stack)
<1>1. l \in Nat \ {0} /\ DOMAIN stack = 1..l
  BY TopCall
<1>2. t \in Seq(Frame) /\ Len(t) = l - 1 /\ \A i \in 1..(l - 1) : t[i] = stack[i]
  <2>1. t = SubSeq(stack, 1, l - 1)
    BY DEF Front
  <2>2. \A i \in 1..(l - 1) : stack[i] \in Frame
    BY <1>1, ElementOfSeq
  <2>3. /\ SubSeq(stack, 1, l - 1) \in Seq(Frame)
        /\ Len(SubSeq(stack, 1, l - 1)) = IF 1 <= l - 1 THEN (l - 1) - 1 + 1 ELSE 0
        /\ \A i \in 1..((l - 1) - 1 + 1) : SubSeq(stack, 1, l - 1)[i] = stack[1 + i - 1]
    BY <1>1, <2>2, SubSeqProperties
  <2>. HIDE DEF l, t
  <2>4. (IF 1 <= l - 1 THEN (l - 1) - 1 + 1 ELSE 0) = l - 1 /\ (l - 1) - 1 + 1 = l - 1
    BY <1>1
  <2>5. \A i \in 1..(l - 1) : 1 + i - 1 = i
    BY <1>1
  <2>. QED  BY <2>1, <2>3, <2>4, <2>5, Zenon
<1>. HIDE DEF l, t
<1>3. DOMAIN t = 1..(l - 1)
  BY <1>2, LenProperties
<1>. QED  BY <1>1, <1>2, <1>3 DEF l, t

LEMMA ReturnKeeps ==
  ASSUME Inv, Return
  PROVE  Inv'
<1>. DEFINE c == Top.receiver
            n == Top.node
            l == Len(stack)
            P == ToSet(delaylist) \cup ToSet(masterlist)
<1>1. /\ pc = "search" /\ stack # <<>> /\ ckt \in Circuits
      /\ Typed(stack, bt, tag, metric, delaylist, masterlist) /\ todo # <<>>
      /\ Listed(delaylist, masterlist) /\ Counted(bt, NodesOf(stack), P)
      /\ InputsUntagged(tag) /\ Following(stack, tag) /\ Tagged(tag, bt, delaylist)
  BY DEF Inv, TypeOK, Kept, Return
<1>2. /\ stack \in Seq(Frame) /\ Table(bt) /\ tag \in [Conn -> Nat \cup {OnPath}]
      /\ metric \in [Conn -> Int] /\ delaylist \in Seq(Seq(Number))
      /\ masterlist \in Seq(Seq(Number))
  BY <1>1 DEF Typed
<1>3. /\ l \in DOMAIN stack /\ DOMAIN stack = 1..l /\ l \in Nat \ {0}
      /\ Top \in Frame /\ Top = stack[l]
  BY <1>1, <1>2, TopCall
<1>4. c \in Conn /\ n \in Number /\ Top.delay \in Int
  BY <1>3 DEF Frame
<1>5. /\ tag' = [tag EXCEPT ![c] = None] /\ metric' = [metric EXCEPT ![c] = Top.delay]
      /\ bt' = Release(bt, <<n>>) /\ stack' = Front(stack)
      /\ UNCHANGED <<ckt, exhaustive, analysis, todo, pc, delaylist, masterlist>>
  BY DEF Return
<1>6. stack' \in Seq(Frame)
  BY <1>1, <1>2, <1>5, Popped
<1>. HIDE DEF c, n
<1>8. /\ DOMAIN stack = DOMAIN stack' \cup {l} /\ l \notin DOMAIN stack'
      /\ \A i \in DOMAIN stack' : stack'[i] = stack[i]
  BY <1>1, <1>2, <1>5, Popped
<1>. HIDE DEF l
<1>9. NodesOf(stack') = NodesOf(stack) \ {n} /\ n \in NodesOf(stack)
  <2>1. \A i \in DOMAIN stack' : stack[i].node # stack[l].node
    BY <1>1, <1>8 DEF Following
  <2>2. n = stack[l].node
    BY <1>3 DEF n
  <2>3. \A x : x \in NodesOf(stack') <=> x \in NodesOf(stack) \ {n}
    BY <1>3, <1>8, <2>1, <2>2 DEF NodesOf
  <2>4. n \in NodesOf(stack)
    BY <1>3, <2>2 DEF NodesOf
  <2>. QED  BY <2>3, <2>4, Zenon
<1>10. Table(bt') /\ \A m \in DOMAIN bt' : bt'[m].receiver = bt[m].receiver
  BY <1>2, <1>5, TableKept
<1>11. Counted(bt', NodesOf(stack'), P)
  <2>1. IsFiniteSet(P)
    BY <1>2, ListsFinite
  <2>. HIDE DEF P
  <2>2. Counted(Release(bt, <<n>>), NodesOf(stack) \ {n}, P)
    BY <1>1, <1>2, <1>9, <2>1, CallReleased
  <2>. QED  BY <1>5, <1>9, <2>2
<1>12. /\ tag' \in [Conn -> Nat \cup {OnPath}] /\ tag'[c] = None
       /\ \A d \in Conn : d # c => tag'[d] = tag[d]
  BY <1>2, <1>4, <1>5 DEF None
<1>13. tag[c] = OnPath
  BY <1>1, <1>3 DEF Following, c
<1>14. InputsUntagged(tag')
  BY <1>1, <1>12 DEF InputsUntagged, Conn
<1>15. Following(stack', tag')
  <2>1. ASSUME NEW i \in DOMAIN stack' PROVE tag'[stack'[i].receiver] = OnPath
    <3>1. stack'[i] \in Frame
      BY <1>6, LenProperties, ElementOfSeq
    <3>2. stack[i].receiver # c /\ tag[stack[i].receiver] = OnPath
      BY <1>1, <1>3, <1>8 DEF Following, c
    <3>. QED  BY <1>8, <1>12, <3>1, <3>2 DEF Frame
  <2>. QED  BY <1>1, <1>8, <2>1 DEF Following
<1>16. Tagged(tag', bt', delaylist')
  <2>1. ASSUME NEW i \in DOMAIN delaylist
        PROVE  /\ delaylist[i] # <<>>
               /\ bt'[delaylist[i][1]].receiver = bt[delaylist[i][1]].receiver
               /\ tag'[bt'[delaylist[i][1]].receiver] = i
    <3>1. delaylist[i][1] \in DOMAIN bt /\ delaylist[i][1] \in ToSet(delaylist[i])
      BY <1>1, <1>2, FirstNodes
    <3>2. delaylist[i] \in P
      BY DEF ToSet
    <3>3. delaylist[i][1] \in DOMAIN bt'
      BY <1>11, <3>1, <3>2 DEF Counted
    <3>4. /\ bt'[delaylist[i][1]].receiver = bt[delaylist[i][1]].receiver
          /\ bt[delaylist[i][1]].receiver \in Conn
      BY <1>2, <1>10, <3>1, <3>3 DEF Table, Node
    <3>5. tag[bt[delaylist[i][1]].receiver] = i /\ delaylist[i] # <<>>
      BY <1>1 DEF Tagged
    <3>6. i # OnPath
      BY <1>2, LenProperties DEF OnPath
    <3>7. bt[delaylist[i][1]].receiver # c
      BY <1>13, <3>5, <3>6
    <3>. QED  BY <1>12, <3>4, <3>5, <3>7
  <2>2. ASSUME NEW d \in Conn, tag'[d] \notin {None, OnPath}
        PROVE  /\ d \in EndPin /\ tag'[d] \in DOMAIN delaylist
               /\ bt'[delaylist[tag'[d]][1]].receiver = d
    <3>1. tag'[d] = tag[d]
      BY <1>12, <2>2
    <3>2. /\ d \in EndPin /\ tag[d] \in DOMAIN delaylist
          /\ bt[delaylist[tag[d]][1]].receiver = d
      BY <1>1, <2>2, <3>1 DEF Tagged
    <3>. QED  BY <2>1, <3>1, <3>2
  <2>. QED  BY <1>5, <2>1, <2>2 DEF Tagged
<1>17. metric' \in [Conn -> Int]
  BY <1>2, <1>4, <1>5
<1>18. Typed(stack', bt', tag', metric', delaylist', masterlist')
  BY <1>2, <1>5, <1>6, <1>10, <1>12, <1>17 DEF Typed
<1>19. Kept(stack', bt', tag', metric', delaylist', masterlist')
  BY <1>1, <1>5, <1>11, <1>14, <1>18 DEF Kept
<1>20. pc = "search" /\ pc' = "search" /\ todo' = todo
  BY <1>1, <1>5
<1>21. TypeOK'
  BY <1>5, <1>18 DEF Inv, TypeOK
<1>22. analysis' <= 4
  BY <1>1, <1>5 DEF Inv
<1>. QED  BY <1>1, <1>15, <1>16, <1>19, <1>20, <1>21, <1>22 DEF Inv

LEMMA SearchEndsKeeps ==
  ASSUME Inv, SearchEnds
  PROVE  Inv'
<1>1. /\ pc = "search" /\ stack = <<>> /\ todo # <<>> /\ todo \in Seq(Start)
      /\ Typed(stack, bt, tag, metric, delaylist, masterlist)
      /\ Listed(delaylist, masterlist) /\ InputsUntagged(tag)
      /\ Counted(bt, NodesOf(stack), ToSet(delaylist) \cup ToSet(masterlist))
  BY DEF Inv, TypeOK, Kept, SearchEnds
<1>2. /\ masterlist' = delaylist \o masterlist /\ delaylist' = <<>> /\ todo' = Tail(todo)
      /\ pc' = "start" /\ UNCHANGED <<ckt, exhaustive, analysis, stack, bt, tag, metric>>
  BY DEF SearchEnds
<1>3. delaylist \in Seq(Seq(Number)) /\ masterlist \in Seq(Seq(Number))
  BY <1>1 DEF Typed
<1>4. /\ masterlist' \in Seq(Seq(Number)) /\ NoneTwice(masterlist')
      /\ ToSet(masterlist') = ToSet(delaylist) \cup ToSet(masterlist)
  BY <1>1, <1>2, <1>3, Linked DEF Listed
<1>5. /\ delaylist' \in Seq(Seq(Number)) /\ NoneTwice(delaylist') /\ ToSet(delaylist') = {}
  BY <1>2, EmptySeq DEF NoneTwice, ToSet
<1>6. Tail(todo) \in Seq(Start)
  BY <1>1, HeadTailProperties
<1>7. Typed(stack', bt', tag', metric', delaylist', masterlist')
  BY <1>1, <1>2, <1>4, <1>5 DEF Typed
<1>8. ToSet(delaylist') \cup ToSet(masterlist') = ToSet(delaylist) \cup ToSet(masterlist)
  BY <1>4, <1>5
<1>9. Kept(stack', bt', tag', metric', delaylist', masterlist')
  BY <1>1, <1>2, <1>4, <1>5, <1>7, <1>8 DEF Kept, Listed
<1>10. TypeOK' /\ analysis' <= 4
  BY <1>1, <1>2, <1>6, <1>7 DEF Inv, TypeOK
<1>. QED  BY <1>1, <1>2, <1>9, <1>10 DEF Inv

LEMMA ReportKeeps ==
  ASSUME Inv, Report
  PROVE  Inv'
<1>1. analysis <= 4
  <2>1. Len(Analyses) = 4 /\ analysis \in 1..5 /\ ~(analysis > Len(Analyses))
    BY DEF Inv, TypeOK, Report, Done, Analyses
  <2>. QED  BY <2>1
<1>. QED  BY <1>1 DEF Inv, TypeOK, Report, Typed, Kept, search

LEMMA FreePathKeeps ==
  ASSUME Inv, FreePath
  PROVE  Inv'
<1>. DEFINE path == Head(masterlist)
            P == ToSet(masterlist)
<1>1. /\ pc = "free" /\ masterlist # <<>> /\ stack = <<>> /\ delaylist = <<>>
      /\ Typed(stack, bt, tag, metric, delaylist, masterlist)
      /\ Listed(delaylist, masterlist) /\ InputsUntagged(tag)
      /\ Counted(bt, NodesOf(stack), ToSet(delaylist) \cup P)
  BY DEF Inv, TypeOK, Kept, FreePath
<1>2. /\ bt' = Release(bt, path) /\ masterlist' = Tail(masterlist)
      /\ UNCHANGED <<ckt, exhaustive, analysis, todo, pc, stack, tag, metric, delaylist>>
  BY DEF FreePath
<1>3. Table(bt) /\ delaylist \in Seq(Seq(Number)) /\ masterlist \in Seq(Seq(Number))
  BY <1>1 DEF Typed
<1>4. /\ masterlist' \in Seq(Seq(Number)) /\ NoneTwice(masterlist')
      /\ path \in P /\ ToSet(masterlist') = P \ {path}
  BY <1>1, <1>2, <1>3, OneFewer DEF Listed
<1>5. ToSet(delaylist) = {}
  BY <1>1 DEF ToSet
<1>6. Table(bt')
  BY <1>2, <1>3, TableKept
<1>7. Counted(bt', NodesOf(stack'), ToSet(delaylist') \cup ToSet(masterlist'))
  <2>1. IsFiniteSet(P)
    BY <1>3, ListFinite
  <2>2. Counted(bt, NodesOf(stack), P)
    BY <1>1, <1>5
  <2>. HIDE DEF P, path
  <2>3. Counted(Release(bt, path), NodesOf(stack), P \ {path})
    BY <1>3, <1>4, <2>1, <2>2, PathReleased
  <2>4. ToSet(delaylist') \cup ToSet(masterlist') = P \ {path}
    BY <1>2, <1>4, <1>5
  <2>. QED  BY <1>2, <2>3, <2>4
<1>8. Typed(stack', bt', tag', metric', delaylist', masterlist')
  BY <1>1, <1>2, <1>4, <1>6 DEF Typed
<1>9. Listed(delaylist', masterlist')
  BY <1>1, <1>2, <1>4, <1>5 DEF Listed
<1>10. Kept(stack', bt', tag', metric', delaylist', masterlist')
  BY <1>1, <1>2, <1>7, <1>8, <1>9 DEF Kept
<1>11. TypeOK' /\ analysis' <= 4
  BY <1>1, <1>2, <1>8 DEF Inv, TypeOK
<1>. QED  BY <1>1, <1>2, <1>10, <1>11 DEF Inv

LEMMA AnalysisEndsKeeps ==
  ASSUME Inv, AnalysisEnds
  PROVE  Inv'
<1>1. /\ pc = "free" /\ analysis \in 1..5 /\ analysis <= 4 /\ stack = <<>> /\ delaylist = <<>>
      /\ Typed(stack, bt, tag, metric, delaylist, masterlist)
      /\ Kept(stack, bt, tag, metric, delaylist, masterlist)
  BY DEF Inv, TypeOK, AnalysisEnds
<1>2. /\ analysis' = analysis + 1 /\ InputsReadied /\ pc' = "start"
      /\ todo' = (IF analysis < Len(Analyses) THEN Analyses[analysis + 1][1] ELSE <<>>)
      /\ UNCHANGED <<ckt, exhaustive, stack, bt, delaylist, masterlist>>
  BY DEF AnalysisEnds
<1>3. Len(Analyses) = 4
  BY DEF Analyses
<1>4. todo' \in Seq(Start) /\ (todo' # <<>> => analysis' <= 4) /\ analysis' \in 1..5
  <2>1. CASE analysis < 4
    <3>1. analysis + 1 \in 1..4
      BY <1>1, <2>1
    <3>2. todo' = Analyses[analysis + 1][1] /\ Analyses[analysis + 1][1] \in Seq(Start)
      BY <1>2, <1>3, <2>1, <3>1, Starts
    <3>. QED  BY <1>2, <3>1, <3>2
  <2>2. CASE analysis = 4
    <3>1. todo' = <<>> /\ analysis' = 5
      BY <1>2, <1>3, <2>2
    <3>. QED  BY <3>1, EmptySeq
  <2>. QED  BY <1>1, <2>1, <2>2
<1>5. /\ tag' \in [Conn -> Nat \cup {OnPath}] /\ metric' \in [Conn -> Int]
      /\ InputsUntagged(tag')
  <2>0. /\ tag \in [Conn -> Nat \cup {OnPath}] /\ metric \in [Conn -> Int]
        /\ InputsUntagged(tag)
    BY <1>1 DEF Typed, Kept
  <2>1. CASE analysis \in {2, 3}
    <3>1. /\ tag' = [c \in Conn |-> IF c \in ToSet(InputPin) THEN None ELSE tag[c]]
          /\ metric' = [c \in Conn |-> IF c \in ToSet(InputPin) THEN InputMetric ELSE metric[c]]
      BY <1>2, <2>1 DEF InputsReadied
    <3>2. InputMetric \in Int
      BY DEF InputMetric, Infinite
    <3>3. metric' \in [Conn -> Int]
      BY <2>0, <3>1, <3>2
    <3>4. tag' \in [Conn -> Nat \cup {OnPath}] /\ InputsUntagged(tag')
      BY <2>0, <3>1 DEF InputsUntagged, None, Conn
    <3>. QED  BY <3>3, <3>4
  <2>2. CASE analysis \notin {2, 3}
    BY <1>2, <2>0, <2>2 DEF InputsReadied
  <2>. QED  BY <2>1, <2>2
<1>6. Typed(stack', bt', tag', metric', delaylist', masterlist')
  BY <1>1, <1>2, <1>5 DEF Typed
<1>7. Kept(stack', bt', tag', metric', delaylist', masterlist')
  BY <1>1, <1>2, <1>5, <1>6 DEF Kept
<1>8. TypeOK'
  BY <1>2, <1>4, <1>6 DEF Inv, TypeOK
<1>. QED  BY <1>1, <1>2, <1>4, <1>7, <1>8 DEF Inv

-----------------------------------------------------------------------------
(* The invariant holds in every state the program reaches.                  *)
THEOREM Invariance == Spec => []Inv
<1>1. ASSUME Inv, [Next]_vars PROVE Inv'
  <2>1. CASE StartSearch
    BY <1>1, <2>1, StartSearchKeeps
  <2>2. CASE Recurse
    BY <1>1, <2>2, RecurseKeeps
  <2>3. CASE Return
    BY <1>1, <2>3, ReturnKeeps
  <2>4. CASE SearchEnds
    BY <1>1, <2>4, SearchEndsKeeps
  <2>5. CASE Report
    BY <1>1, <2>5, ReportKeeps
  <2>6. CASE FreePath
    BY <1>1, <2>6, FreePathKeeps
  <2>7. CASE AnalysisEnds
    BY <1>1, <2>7, AnalysisEndsKeeps
  <2>8. CASE UNCHANGED vars
    BY <1>1, <2>8 DEF Inv, TypeOK, Typed, Kept, vars, search
  <2>. QED  BY <1>1, <2>1, <2>2, <2>3, <2>4, <2>5, <2>6, <2>7, <2>8 DEF Next
<1>. QED  BY Initially, <1>1, PTL DEF Spec

(* Every variable of the search has its type: tags are marks or records, and  *)
(* each starting point and each call is at a connection of the netlist.       *)
THEOREM TypeCorrect == Spec => []TypeOK
<1>1. Inv => TypeOK
  BY DEF Inv
<1>. QED  BY <1>1, Invariance, PTL

(* A backtrace node counts the calls and the recorded paths that use it and   *)
(* is there as long as one does, in every netlist and in whichever order the   *)
(* search finds, replaces and frees the paths.                                 *)
THEOREM BacktracesAreCounted == Spec => []BacktraceCounted
<1>1. ASSUME Inv PROVE BacktraceCounted
  <2>1. /\ stack \in Seq(Frame) /\ Counted(bt, NodesOf(stack), Paths)
        /\ Table(bt) /\ IsFiniteSet(Paths)
    BY <1>1, ListsFinite DEF Inv, Kept, Typed, Paths
  <2>2. \A i, j \in DOMAIN stack : stack[i].node = stack[j].node => i = j
    BY <1>1 DEF Inv, Following
  <2>3. ASSUME NEW n \in DOMAIN bt
        PROVE  /\ bt[n].refcnt > 0
               /\ bt[n].refcnt = Cardinality({i \in DOMAIN stack : stack[i].node = n})
                                 + Cardinality({path \in Paths : n \in ToSet(path)})
    <3>. DEFINE I == {i \in DOMAIN stack : stack[i].node = n}
    <3>1. CASE n \in NodesOf(stack)
      <4>1. PICK i \in DOMAIN stack : stack[i].node = n
        BY <3>1 DEF NodesOf
      <4>2. I = {i}
        BY <2>2, <4>1
      <4>3. Cardinality(I) = 1
        BY <4>2, FS_Singleton
      <4>. QED  BY <2>1, <3>1, <4>3 DEF Counted, Users
    <3>2. CASE n \notin NodesOf(stack)
      <4>1. I = {}
        BY <3>2 DEF NodesOf
      <4>2. Cardinality(I) = 0
        BY <4>1, FS_EmptySet
      <4>. QED  BY <2>1, <3>2, <4>2 DEF Counted, Users
    <3>. QED  BY <3>1, <3>2
  <2>. QED  BY <2>1, <2>3 DEF Counted, NodesOf, BacktraceCounted
<1>. QED  BY <1>1, Invariance, PTL

-----------------------------------------------------------------------------
(* The paths are real: the call at each node of a path is one that the call   *)
(* at the node after it makes, back to the first call at a starting point.    *)
CallAt(b, ic, n) == [receiver |-> b[n].receiver, dir |-> b[n].dir,
                     delay |-> b[n].delay - ic[b[n].receiver]]
AnyCall == [receiver : Conn, dir : Dir, delay : Int]
Steps == {m \in AnyCall \X AnyCall :
            m[2] \in ToSet(Onward(m[1].receiver, m[1].dir, m[1].delay))}

\* Of the calls s, which follow a path from c, and of a path p.
Leads(s, b, ic, steps, c) ==
  /\ \A i \in DOMAIN s :
       /\ b[s[i].node].receiver = s[i].receiver
       /\ CallAt(b, ic, s[i].node).delay = s[i].delay
       /\ \A j \in DOMAIN s[i].calls : <<CallAt(b, ic, s[i].node), s[i].calls[j]>> \in steps
       /\ i # 1 => /\ <<CallAt(b, ic, s[i - 1].node), CallAt(b, ic, s[i].node)>> \in steps
                   /\ s[i].receiver \in ToSet(Receiver) \ EndPin
  /\ s # <<>> => CallAt(b, ic, s[1].node) = FirstCall(c)
Source(b, p) == b[p[Len(p)]].receiver
Sink(b, p) == b[p[1]].receiver
Real(p, b, ic, steps) ==
  /\ Len(p) > 1
  /\ \A i \in 1..(Len(p) - 1) : <<CallAt(b, ic, p[i + 1]), CallAt(b, ic, p[i])>> \in steps
  /\ CallAt(b, ic, p[Len(p)]) = FirstCall(Source(b, p))
  /\ \A i \in 2..(Len(p) - 1) : b[p[i]].receiver \notin EndPin
  /\ \A i, j \in DOMAIN p : i # j => b[p[i]].receiver # b[p[j]].receiver
  /\ Sink(b, p) \in EndPin

\* Two tables say the same of the nodes that are in both.
Agree(b, t) ==
  \A n \in DOMAIN b \cap DOMAIN t :
    t[n].receiver = b[n].receiver /\ t[n].dir = b[n].dir /\ t[n].delay = b[n].delay

LEMMA AgreeTransitive ==
  ASSUME NEW b, NEW t, NEW u, Agree(b, t), Agree(t, u), DOMAIN b \cap DOMAIN u \subseteq DOMAIN t
  PROVE  Agree(b, u)
BY DEF Agree

LEMMA CountsAgree ==
  ASSUME NEW b, Table(b), NEW path
  PROVE  Agree(b, Hold(b, path)) /\ Agree(b, Release(b, path))
<1>. DEFINE Same(r, n) == r.receiver = b[n].receiver /\ r.dir = b[n].dir /\ r.delay = b[n].delay
<1>1. ASSUME NEW n \in DOMAIN b, NEW k PROVE Same([b[n] EXCEPT !.refcnt = k], n)
  <2>1. b[n] \in Node
    BY DEF Table
  <2>. QED  BY <2>1 DEF Node
<1>. HIDE DEF Same
<1>2. ASSUME NEW n \in DOMAIN b PROVE Same(Hold(b, path)[n], n)
  <2>1. Same([b[n] EXCEPT !.refcnt = IF n \in ToSet(path) THEN b[n].refcnt + 1 ELSE b[n].refcnt], n)
    BY <1>1
  <2>. QED  BY <2>1 DEF Hold
<1>3. ASSUME NEW n \in DOMAIN b \cap DOMAIN Release(b, path) PROVE Same(Release(b, path)[n], n)
  <2>1. Same([b[n] EXCEPT !.refcnt = IF n \in ToSet(path) THEN b[n].refcnt - 1 ELSE b[n].refcnt], n)
    BY <1>1
  <2>2. DOMAIN Release(b, path) = {m \in DOMAIN b : m \in ToSet(path) => b[m].refcnt > 1}
    BY DEF Release
  <2>. QED  BY <2>1, <2>2 DEF Release
<1>. QED  BY <1>2, <1>3 DEF Agree, Same

LEMMA SameCall ==
  ASSUME NEW b, NEW t, Agree(b, t), NEW n \in DOMAIN b \cap DOMAIN t, NEW ic
  PROVE  CallAt(t, ic, n) = CallAt(b, ic, n) /\ t[n].receiver = b[n].receiver
BY DEF Agree, CallAt

LEMMA StaysReal ==
  ASSUME NEW b, NEW t, Agree(b, t), NEW ic, NEW steps, NEW p \in Seq(Number),
         ToSet(p) \subseteq DOMAIN b \cap DOMAIN t, Real(p, b, ic, steps)
  PROVE  Real(p, t, ic, steps) /\ Source(t, p) = Source(b, p) /\ Sink(t, p) = Sink(b, p)
<1>1. Len(p) \in Nat \ {0} /\ DOMAIN p = 1..Len(p)
  BY LenProperties DEF Real
<1>2. \A i \in 1..Len(p) : p[i] \in DOMAIN b \cap DOMAIN t
  BY <1>1 DEF ToSet
<1>3. \A i \in 1..Len(p) : /\ CallAt(t, ic, p[i]) = CallAt(b, ic, p[i])
                           /\ t[p[i]].receiver = b[p[i]].receiver
  BY <1>2, SameCall
<1>4. 1 \in 1..Len(p) /\ Len(p) \in 1..Len(p)
  BY <1>1
<1>5. Source(t, p) = Source(b, p) /\ Sink(t, p) = Sink(b, p)
  BY <1>3, <1>4 DEF Source, Sink
<1>6. \A i \in 1..(Len(p) - 1) : i \in 1..Len(p) /\ i + 1 \in 1..Len(p)
  BY <1>1
<1>7. \A i \in 1..(Len(p) - 1) :
        <<CallAt(t, ic, p[i + 1]), CallAt(t, ic, p[i])>> \in steps
  BY <1>3, <1>6 DEF Real
<1>8. CallAt(t, ic, p[Len(p)]) = FirstCall(Source(t, p))
  BY <1>3, <1>4, <1>5 DEF Real
<1>9. \A i, j \in DOMAIN p : i # j => t[p[i]].receiver # t[p[j]].receiver
  BY <1>1, <1>3 DEF Real
<1>10. ASSUME NEW i \in 2..(Len(p) - 1) PROVE t[p[i]].receiver \notin EndPin
  <2>1. i \in 1..Len(p)
    BY <1>1
  <2>. QED  BY <1>3, <2>1 DEF Real
<1>. QED  BY <1>5, <1>7, <1>8, <1>9, <1>10 DEF Real

LEMMA StillLeads ==
  ASSUME NEW b, NEW t, Agree(b, t), NEW ic, NEW steps, NEW c, NEW s \in Seq(Frame),
         NodesOf(s) \subseteq DOMAIN b \cap DOMAIN t, Leads(s, b, ic, steps, c)
  PROVE  Leads(s, t, ic, steps, c)
<1>1. DOMAIN s = 1..Len(s) /\ Len(s) \in Nat
  BY LenProperties
<1>2. \A i \in DOMAIN s : s[i].node \in DOMAIN b \cap DOMAIN t
  BY DEF NodesOf
<1>3. \A i \in DOMAIN s : /\ CallAt(t, ic, s[i].node) = CallAt(b, ic, s[i].node)
                          /\ t[s[i].node].receiver = b[s[i].node].receiver
  BY <1>2, SameCall
<1>4. \A i \in DOMAIN s : i # 1 => i - 1 \in DOMAIN s
  BY <1>1
<1>5. s # <<>> => 1 \in DOMAIN s
  BY <1>1, EmptySeq
<1>. QED  BY <1>3, <1>4, <1>5 DEF Leads

LEMMA OnwardSame ==
  ASSUME UNCHANGED <<ckt, analysis>>, NEW c, NEW dir, NEW delay
  PROVE  Onward(c, dir, delay)' = Onward(c, dir, delay)
<1>1. ckt' = ckt /\ minmax' = minmax
  BY DEF minmax
<1>2. ASSUME NEW e PROVE calc_prop_delay(c, e)' = calc_prop_delay(c, e)
  BY <1>1 DEF calc_prop_delay, Worst, Worse
<1>3. calc_dir(c, dir)' = calc_dir(c, dir)
  BY <1>1 DEF calc_dir
<1>. DEFINE receivers == ckt.receivers[LoadNet(c)]
            edges == Edges(calc_dir(c, dir))
            Made(k) == [receiver |-> receivers[((k - 1) \div Len(edges)) + 1],
                        dir |-> edges[((k - 1) % Len(edges)) + 1],
                        delay |-> delay + calc_prop_delay(c, edges[((k - 1) % Len(edges)) + 1])]
            m == Len(receivers) * Len(edges)
<1>4. edges' = edges /\ receivers' = receivers
  BY <1>1, <1>3
<1>5. Onward(c, dir, delay) = [k \in 1..m |-> Made(k)]
  BY DEF Onward
<1>6. Onward(c, dir, delay)' = [k \in 1..m' |-> Made(k)']
  BY DEF Onward
<1>7. m' = m
  BY <1>4
<1>8. ASSUME NEW k PROVE Made(k)' = Made(k)
  BY <1>2, <1>4
<1>. HIDE DEF m, Made
<1>. QED  BY <1>5, <1>6, <1>7, <1>8

LEMMA StepsSame ==
  ASSUME UNCHANGED <<ckt, analysis>>
  PROVE  Steps' = Steps
<1>1. ASSUME NEW m PROVE m \in Steps' <=> m \in Steps
  BY OnwardSame DEF Steps
<1>. QED  BY <1>1

\* How a call comes about: from the node on top, or as the first from c.
MadeFrom(call, s, steps, c) ==
  IF s = <<>> THEN call = FirstCall(c)
  ELSE <<CallAt(bt, ckt.icDelay, s[Len(s)].node), call>> \in steps

\* What a call adds to a table that agrees with the one before.
LEMMA NewNodeSays ==
  ASSUME ckt \in Circuits, Table(bt), FreeNodes # {}, NEW call,
         call.receiver \in Conn, call.dir \in Dir, call.delay \in Int,
         call = [receiver |-> call.receiver, dir |-> call.dir, delay |-> call.delay]
  PROVE  /\ Agree(bt, WithNode(call))
         /\ WithNode(call)[NewNode].receiver = call.receiver
         /\ CallAt(WithNode(call), ckt.icDelay, NewNode) = call
         /\ DOMAIN WithNode(call) = DOMAIN bt \cup {NewNode} /\ NewNode \notin DOMAIN bt
<1>. DEFINE new == [receiver |-> call.receiver, dir |-> call.dir, refcnt |-> 1,
                    delay |-> call.delay + ckt.icDelay[call.receiver]]
            b == WithNode(call)
<1>1. NewNode \notin DOMAIN bt
  BY NewNodeIsFree
<1>2. b[NewNode] = new /\ DOMAIN b = DOMAIN bt \cup {NewNode} /\ \A n \in DOMAIN bt : b[n] = bt[n]
  BY <1>1 DEF WithNode
<1>3. ckt.icDelay[call.receiver] \in Int
  BY CircuitType
<1>4. (call.delay + ckt.icDelay[call.receiver]) - ckt.icDelay[call.receiver] = call.delay
  BY <1>3
<1>. HIDE DEF b
<1>5. CallAt(b, ckt.icDelay, NewNode) = call
  BY <1>2, <1>4 DEF CallAt
<1>6. Agree(bt, b)
  BY <1>2 DEF Agree
<1>. QED  BY <1>1, <1>2, <1>5, <1>6 DEF b

\* A path that continues the calls s with an end n.
LEMMA NewPathReal ==
  ASSUME NEW b, NEW ic, NEW steps, NEW c, NEW s \in Seq(Frame), s # <<>>,
         Leads(s, b, ic, steps, c), NEW n \in Number, b[n].receiver \in EndPin,
         <<CallAt(b, ic, s[Len(s)].node), CallAt(b, ic, n)>> \in steps,
         \A i, j \in DOMAIN s : i # j => s[i].receiver # s[j].receiver,
         \A i \in DOMAIN s : s[i].receiver # b[n].receiver
  PROVE  LET p == <<n>> \o PathOf(s)
         IN Real(p, b, ic, steps) /\ Source(b, p) = c /\ Sink(b, p) = b[n].receiver
<1>. DEFINE p == <<n>> \o PathOf(s)
            L == Len(s)
            At(i) == (L - i) + 1
<1>1. /\ p # <<>> /\ p \in Seq(Number) /\ p[1] = n /\ Len(p) = L + 1
      /\ \A i \in 1..L : p[i + 1] = s[At(i)].node
  BY PathOfCalls
<1>2. L \in Nat \ {0} /\ DOMAIN s = 1..L
  BY EmptySeq, LenProperties
<1>. HIDE DEF p, L
<1>3. DOMAIN p = 1..(L + 1)
  BY <1>1, LenProperties
<1>4. \A i \in 1..L : At(i) \in 1..L
  BY <1>2
<1>5. ASSUME NEW i \in 1..(Len(p) - 1)
      PROVE  <<CallAt(b, ic, p[i + 1]), CallAt(b, ic, p[i])>> \in steps
  <2>0. i \in 1..L
    BY <1>1, <1>2
  <2>1. CASE i = 1
    <3>1. At(i) = L
      BY <1>2, <2>1
    <3>2. p[i + 1] = s[L].node /\ p[i] = n
      BY <1>1, <2>0, <2>1, <3>1
    <3>. QED  BY <3>2 DEF L
  <2>2. CASE i # 1
    <3>1. /\ i - 1 \in 1..L /\ (i - 1) + 1 = i /\ At(i - 1) - 1 = At(i)
          /\ At(i - 1) # 1 /\ At(i - 1) \in 1..L
      BY <1>2, <2>0, <2>2
    <3>2. p[i] = s[At(i - 1)].node /\ p[i + 1] = s[At(i - 1) - 1].node
      BY <1>1, <2>0, <3>1
    <3>. HIDE DEF At
    <3>. QED  BY <1>2, <3>1, <3>2 DEF Leads
  <2>. QED  BY <2>1, <2>2
<1>6. CallAt(b, ic, p[Len(p)]) = FirstCall(c) /\ b[p[Len(p)]].receiver = c
  <2>1. L \in 1..L /\ At(L) = 1
    BY <1>2
  <2>2. p[Len(p)] = s[1].node
    BY <1>1, <2>1
  <2>3. CallAt(b, ic, p[Len(p)]) = FirstCall(c)
    BY <2>2 DEF Leads
  <2>. QED  BY <2>3 DEF CallAt, FirstCall
<1>7. \A i \in 1..L : b[p[i + 1]].receiver = s[At(i)].receiver
  <2>. HIDE DEF At
  <2>. QED  BY <1>1, <1>2, <1>4 DEF Leads
<1>8. ASSUME NEW i \in DOMAIN p, NEW j \in DOMAIN p, i # j
      PROVE  b[p[i]].receiver # b[p[j]].receiver
  <2>1. ASSUME NEW k \in DOMAIN p, k # 1
        PROVE  k - 1 \in 1..L /\ b[p[k]].receiver = s[At(k - 1)].receiver
    <3>1. k - 1 \in 1..L /\ (k - 1) + 1 = k
      BY <1>2, <1>3, <2>1
    <3>. QED  BY <1>7, <3>1
  <2>2. ASSUME NEW k \in DOMAIN p, k # 1
        PROVE  b[p[k]].receiver # b[p[1]].receiver
    <3>1. At(k - 1) \in DOMAIN s
      BY <1>2, <1>4, <2>1, <2>2
    <3>. HIDE DEF At
    <3>. QED  BY <1>1, <2>1, <2>2, <3>1
  <2>3. CASE i # 1 /\ j # 1
    <3>1. i - 1 \in 1..L /\ j - 1 \in 1..L
      BY <2>1, <2>3
    <3>2. At(i - 1) # At(j - 1)
      BY <1>2, <1>3, <1>8
    <3>. HIDE DEF At
    <3>. QED  BY <1>2, <1>4, <2>1, <2>3, <3>1, <3>2
  <2>. QED  BY <1>8, <2>2, <2>3
<1>9. ASSUME NEW i \in 2..(Len(p) - 1) PROVE b[p[i]].receiver \notin EndPin
  <2>1. i - 1 \in 1..L /\ (i - 1) + 1 = i /\ At(i - 1) \in 1..L /\ At(i - 1) # 1
    BY <1>1, <1>2
  <2>. HIDE DEF At
  <2>2. s[At(i - 1)].receiver \notin EndPin
    BY <1>2, <2>1 DEF Leads
  <2>3. b[p[(i - 1) + 1]].receiver = s[At(i - 1)].receiver
    BY <1>7, <2>1
  <2>. QED  BY <2>1, <2>2, <2>3
<1>10. Real(p, b, ic, steps)
  <2>1. Len(p) > 1
    BY <1>1, <1>2
  <2>. QED  BY <1>1, <1>5, <1>6, <1>8, <1>9, <2>1 DEF Real, Source, Sink
<1>. QED  BY <1>1, <1>6, <1>10 DEF p, Source, Sink

\* Paths that are listed before and after a step of the search.
LEMMA PathStaysReal ==
  ASSUME NEW b, NEW t, Agree(b, t), NEW ic, NEW steps, NEW p \in Seq(Number),
         NEW P, NEW Q, p \in P \cap Q, NEW M, NEW N, Counted(b, M, P), Counted(t, N, Q),
         Real(p, b, ic, steps)
  PROVE  Real(p, t, ic, steps) /\ Source(t, p) = Source(b, p) /\ Sink(t, p) = Sink(b, p)
<1>1. ToSet(p) \subseteq DOMAIN b \cap DOMAIN t
  BY DEF Counted
<1>. QED  BY <1>1, StaysReal

\* What find_path_delay does for the calls s and the paths, c being where the
\* search started.
AllReal(b, paths) == \A p \in paths : Real(p, b, ckt.icDelay, Steps)
AllFrom(b, paths, c) == \A p \in paths : Source(b, p) = c
Going(s, b, dl, ml, c) ==
  /\ Leads(s, b, ckt.icDelay, Steps, c)
  /\ AllReal(b, ToSet(dl) \cup ToSet(ml)) /\ AllFrom(b, ToSet(dl), c)

LEMMA CallShape ==
  ASSUME NEW call, NEW s, NEW tg, NEW mt, Calling(call, s, tg, mt)
  PROVE  /\ call \in AnyCall
         /\ call = [receiver |-> call.receiver, dir |-> call.dir, delay |-> call.delay]
<1>1. call \in StartCall \/ call \in Call
  BY DEF Calling
<1>2. CASE call \in StartCall
  BY <1>2, Pins DEF StartCall, AnyCall
<1>3. CASE call \in Call
  BY <1>3 DEF Call, AnyCall, Conn
<1>. QED  BY <1>1, <1>2, <1>3

LEMMA PassingReal ==
  ASSUME NEW call, NEW s, NEW tg, NEW mt, Calling(call, s, tg, mt), ~Looped(call, tg),
         PassThrough(call, s, tg, mt), UNCHANGED masterlist,
         NEW c, MadeFrom(call, s, Steps, c), Going(s, bt, delaylist, masterlist, c)
  PROVE  Agree(bt, bt') /\ Leads(stack', bt', ckt.icDelay, Steps, c)
<1>. DEFINE f == [receiver |-> call.receiver, delay |-> call.delay, node |-> NewNode,
                  calls |-> Onward(call.receiver, call.dir, call.delay)]
            ic == ckt.icDelay
            l == Len(s) + 1
<1>1. /\ call.receiver \in Conn /\ call.dir \in Dir /\ call.delay \in Int
      /\ call.receiver \in ToSet(InputPin) \/ HasPin(call.receiver)
      /\ s \in Seq(Frame) /\ Table(bt) /\ ckt \in Circuits /\ NodesOf(s) \subseteq DOMAIN bt
  BY CallTypes DEF Calling, Kept, Typed, Counted, PassThrough, Ends
<1>2. /\ FreeNodes # {} /\ NewNode \in Number /\ bt' = WithNode(call) /\ stack' = Append(s, f)
  BY NewNodeIsFree DEF PassThrough
<1>3. call \in AnyCall /\ call = [receiver |-> call.receiver, dir |-> call.dir, delay |-> call.delay]
  BY CallShape
<1>4. /\ Agree(bt, bt') /\ bt'[NewNode].receiver = call.receiver /\ CallAt(bt', ic, NewNode) = call
      /\ DOMAIN bt' = DOMAIN bt \cup {NewNode} /\ NewNode \notin DOMAIN bt
  BY <1>1, <1>2, <1>3, NewNodeSays
<1>5. /\ f \in Frame /\ f.node = NewNode /\ f.receiver = call.receiver /\ f.delay = call.delay
      /\ f.calls = Onward(call.receiver, call.dir, call.delay) /\ f.calls \in Seq(Call)
  BY <1>1, <1>2, OnwardType DEF Frame
<1>6. ASSUME NEW j \in DOMAIN f.calls PROVE <<call, f.calls[j]>> \in Steps
  <2>1. f.calls[j] \in Call /\ f.calls[j] \in ToSet(f.calls)
    BY <1>5, LenProperties, ElementOfSeq DEF ToSet
  <2>2. f.calls[j] \in AnyCall
    BY <2>1 DEF Call, AnyCall, Conn
  <2>. HIDE DEF f
  <2>. QED  BY <1>3, <1>5, <2>1, <2>2 DEF Steps
<1>. HIDE DEF f, ic
<1>7. /\ DOMAIN stack' = DOMAIN s \cup {l} /\ stack'[l] = f
      /\ \A i \in DOMAIN s : stack'[i] = s[i]
  BY <1>1, <1>2, <1>5, Deeper
<1>8. DOMAIN s = 1..Len(s) /\ Len(s) \in Nat /\ (s = <<>> <=> Len(s) = 0)
  BY <1>1, EmptySeq, LenProperties
<1>9. Leads(s, bt', ic, Steps, c)
  BY <1>1, <1>4, StillLeads DEF Going, ic
<1>10. ASSUME NEW i \in DOMAIN stack'
       PROVE  /\ bt'[stack'[i].node].receiver = stack'[i].receiver
              /\ CallAt(bt', ic, stack'[i].node).delay = stack'[i].delay
              /\ \A j \in DOMAIN stack'[i].calls :
                   <<CallAt(bt', ic, stack'[i].node), stack'[i].calls[j]>> \in Steps
              /\ i # 1 => /\ <<CallAt(bt', ic, stack'[i - 1].node),
                               CallAt(bt', ic, stack'[i].node)>> \in Steps
                          /\ stack'[i].receiver \in ToSet(Receiver) \ EndPin
  <2>1. CASE i \in DOMAIN s
    <3>1. i # 1 => i - 1 \in DOMAIN s
      BY <1>8, <2>1
    <3>. QED  BY <1>7, <1>9, <2>1, <3>1 DEF Leads
  <2>2. CASE i = l
    <3>1. i # 1 => s # <<>> /\ i - 1 = Len(s) /\ Len(s) \in DOMAIN s
      BY <1>8, <2>2
    <3>2. ASSUME i # 1 PROVE CallAt(bt', ic, s[Len(s)].node) = CallAt(bt, ic, s[Len(s)].node)
      <4>1. s[Len(s)].node \in DOMAIN bt \cap DOMAIN bt'
        BY <1>1, <1>4, <3>1, <3>2 DEF NodesOf
      <4>. QED  BY <1>4, <4>1, SameCall
    <3>3. ASSUME i # 1 PROVE <<CallAt(bt, ic, s[Len(s)].node), call>> \in Steps
      BY <3>1, <3>3 DEF MadeFrom, ic
    <3>4. i # 1 => call.receiver \in ToSet(Receiver) \ EndPin
      BY <3>1, CallTypes DEF PassThrough, Ends, EndPin
    <3>. HIDE DEF l
    <3>. QED  BY <1>4, <1>5, <1>6, <1>7, <2>2, <3>1, <3>2, <3>3, <3>4
  <2>. QED  BY <1>7, <2>1, <2>2
<1>11. CallAt(bt', ic, stack'[1].node) = FirstCall(c)
  <2>1. CASE s = <<>>
    <3>1. stack'[1].node = NewNode
      BY <1>5, <1>7, <1>8, <2>1
    <3>. QED  BY <1>4, <2>1, <3>1 DEF MadeFrom
  <2>2. CASE s # <<>>
    <3>1. 1 \in DOMAIN s
      BY <1>8, <2>2
    <3>. QED  BY <1>7, <1>9, <2>2, <3>1 DEF Leads
  <2>. QED  BY <2>1, <2>2
<1>12. Leads(stack', bt', ic, Steps, c)
  BY <1>10, <1>11 DEF Leads
<1>. QED  BY <1>4, <1>12 DEF ic

\* The path that is recorded at an end is real, in the table as it is then.
LEMMA EndingReal ==
  ASSUME NEW call, NEW s, NEW tg, NEW mt, Calling(call, s, tg, mt), ~Looped(call, tg),
         Ends(call, s), FreeNodes # {},
         NEW c, MadeFrom(call, s, Steps, c), Going(s, bt, delaylist, masterlist, c),
         NEW t, Agree(WithNode(call), t), NodesOf(s) \cup {NewNode} \subseteq DOMAIN t
  PROVE  LET p == <<NewNode>> \o PathOf(s)
         IN /\ Agree(bt, WithNode(call))
            /\ Real(p, t, ckt.icDelay, Steps) /\ Source(t, p) = c /\ Sink(t, p) = call.receiver
            /\ Leads(s, t, ckt.icDelay, Steps, c)
<1>. DEFINE b == WithNode(call)
            p == <<NewNode>> \o PathOf(s)
            ic == ckt.icDelay
<1>1. /\ call.receiver \in Conn /\ call.dir \in Dir /\ call.delay \in Int
      /\ call.receiver \in EndPin /\ s # <<>>
      /\ s \in Seq(Frame) /\ Table(bt) /\ ckt \in Circuits /\ NodesOf(s) \subseteq DOMAIN bt
      /\ Following(s, tg) /\ tg[call.receiver] # OnPath
  BY CallTypes DEF Calling, Kept, Typed, Counted, Ends, EndPin, Looped
<1>2. NewNode \in Number
  BY NewNodeIsFree
<1>3. call = [receiver |-> call.receiver, dir |-> call.dir, delay |-> call.delay]
  BY CallShape
<1>4. /\ Agree(bt, b) /\ b[NewNode].receiver = call.receiver /\ CallAt(b, ic, NewNode) = call
      /\ DOMAIN b = DOMAIN bt \cup {NewNode} /\ NewNode \notin DOMAIN bt
  BY <1>1, <1>2, <1>3, NewNodeSays
<1>. HIDE DEF b, ic
<1>5. Leads(s, b, ic, Steps, c)
  BY <1>1, <1>4, StillLeads DEF Going, ic
<1>6. <<CallAt(b, ic, s[Len(s)].node), CallAt(b, ic, NewNode)>> \in Steps
  <2>1. Len(s) \in DOMAIN s
    BY <1>1, EmptySeq, LenProperties
  <2>2. s[Len(s)].node \in DOMAIN bt \cap DOMAIN b
    BY <1>1, <1>4, <2>1 DEF NodesOf
  <2>3. CallAt(b, ic, s[Len(s)].node) = CallAt(bt, ic, s[Len(s)].node)
    BY <1>4, <2>2, SameCall
  <2>. QED  BY <1>1, <1>4, <2>3 DEF MadeFrom, ic
<1>7. /\ \A i, j \in DOMAIN s : i # j => s[i].receiver # s[j].receiver
      /\ \A i \in DOMAIN s : s[i].receiver # b[NewNode].receiver
  BY <1>1, <1>4 DEF Following
<1>8. Real(p, b, ic, Steps) /\ Source(b, p) = c /\ Sink(b, p) = call.receiver
  BY <1>1, <1>2, <1>4, <1>5, <1>6, <1>7, NewPathReal
<1>9. p \in Seq(Number) /\ ToSet(p) = NodesOf(s) \cup {NewNode}
  BY <1>1, <1>2, PathOfCalls
<1>. HIDE DEF p
<1>10. Agree(b, t)
  BY DEF b
<1>11. ToSet(p) \subseteq DOMAIN b \cap DOMAIN t /\ NodesOf(s) \subseteq DOMAIN b \cap DOMAIN t
  BY <1>1, <1>4, <1>9
<1>12. Real(p, t, ic, Steps) /\ Source(t, p) = Source(b, p) /\ Sink(t, p) = Sink(b, p)
  BY <1>8, <1>9, <1>10, <1>11, StaysReal
<1>13. Leads(s, t, ic, Steps, c)
  BY <1>1, <1>5, <1>10, <1>11, StillLeads
<1>. QED  BY <1>4, <1>8, <1>12, <1>13 DEF b, p, ic

\* The lists and the table after a path has been recorded.
LEMMA PathRecorded ==
  ASSUME NEW call, NEW s, NEW tg, NEW mt, Calling(call, s, tg, mt),
         find_path_delay(call, s, tg, mt), UNCHANGED masterlist,
         ~Looped(call, tg), PathEnds(call, s, tg, mt),
         RecordPath(call, s, tg) \/ ReplacePath(call, s, tg)
  PROVE  LET path == <<NewNode>> \o PathOf(s)
         IN /\ path \in ToSet(delaylist') /\ path[1] = NewNode
            /\ \A q \in ToSet(delaylist') : q = path \/ q \in ToSet(delaylist)
            /\ \A q \in ToSet(delaylist) :
                    q \in ToSet(delaylist') \/ (ReplacePath(call, s, tg) /\ q = Recorded(call, tg))
            /\ Agree(WithNode(call), bt') /\ NodesOf(s) \cup {NewNode} \subseteq DOMAIN bt'
<1>. DEFINE path == <<NewNode>> \o PathOf(s)
            b == WithNode(call)
<1>1. /\ s \in Seq(Frame) /\ Table(bt) /\ ckt \in Circuits
      /\ delaylist \in Seq(Seq(Number)) /\ Tagged(tg, bt, delaylist)
  BY DEF Calling, Kept, Typed
<1>2. /\ Counted(bt', NodesOf(stack'), ToSet(delaylist') \cup ToSet(masterlist'))
      /\ delaylist' \in Seq(Seq(Number))
  BY Called DEF Kept, Typed
<1>3. Ends(call, s) /\ FreeNodes # {} /\ stack' = s
  BY DEF PathEnds
<1>4. call.receiver \in Conn /\ call.dir \in Dir /\ call.delay \in Int
  BY CallTypes
<1>5. Table(b) /\ DOMAIN b = DOMAIN bt \cup {NewNode}
  BY <1>1, <1>3, <1>4, Allocating
<1>6. NewNode \in ToSet(path) /\ path[1] = NewNode
  BY <1>1, <1>3, NewNodeIsFree, PathOfCalls
<1>. HIDE DEF path
<1>7. /\ path \in ToSet(delaylist')
      /\ \A q \in ToSet(delaylist') : q = path \/ q \in ToSet(delaylist)
      /\ \A q \in ToSet(delaylist) :
              q \in ToSet(delaylist') \/ (ReplacePath(call, s, tg) /\ q = Recorded(call, tg))
  <2>1. CASE RecordPath(call, s, tg)
    <3>1. delaylist' = Append(delaylist, path)
      BY <2>1 DEF RecordPath, path
    <3>2. path \in Seq(Number)
      BY <1>1, <1>3, NewNodeIsFree, PathOfCalls DEF path
    <3>3. /\ Len(delaylist') = Len(delaylist) + 1 /\ Len(delaylist) \in Nat
          /\ delaylist'[Len(delaylist) + 1] = path
          /\ \A i \in 1..Len(delaylist) : delaylist'[i] = delaylist[i]
      BY <1>1, <3>1, <3>2, AppendProperties, LenProperties
    <3>4. DOMAIN delaylist = 1..Len(delaylist) /\ DOMAIN delaylist' = 1..Len(delaylist')
      BY <1>1, <1>2, LenProperties
    <3>. QED  BY <3>3, <3>4 DEF ToSet
  <2>2. CASE ReplacePath(call, s, tg)
    <3>1. tg[call.receiver] \in DOMAIN delaylist
      BY <1>1, <1>4, <2>2 DEF ReplacePath, Tagged
    <3>2. delaylist' = [delaylist EXCEPT ![tg[call.receiver]] = path]
      BY <2>2 DEF ReplacePath, path
    <3>3. \A i \in DOMAIN delaylist : i = tg[call.receiver] \/ delaylist'[i] = delaylist[i]
      BY <3>2
    <3>. QED  BY <2>2, <3>1, <3>2, <3>3 DEF ToSet, Recorded
  <2>. QED  BY <2>1, <2>2
<1>8. NodesOf(s) \cup {NewNode} \subseteq DOMAIN bt'
  BY <1>2, <1>3, <1>6, <1>7 DEF Counted
<1>9. Agree(b, bt')
  <2>. HIDE DEF b
  <2>1. CASE bt' = Hold(b, PathOf(s))
    BY <1>5, <2>1, CountsAgree
  <2>2. CASE bt' = Hold(Release(b, Recorded(call, tg)), PathOf(s))
    <3>. DEFINE r == Release(b, Recorded(call, tg))
    <3>1. Table(r) /\ Agree(b, r)
      BY <1>5, CountsAgree, TableKept
    <3>. HIDE DEF r
    <3>2. Agree(r, bt') /\ DOMAIN bt' = DOMAIN r
      BY <2>2, <3>1, CountsAgree, TableKept DEF r
    <3>. QED  BY <3>1, <3>2, AgreeTransitive
  <2>. QED  BY <2>1, <2>2 DEF RecordPath, ReplacePath, b
<1>. QED  BY <1>6, <1>7, <1>8, <1>9 DEF path, b

LEMMA CalledReal ==
  ASSUME NEW call, NEW s, NEW tg, NEW mt, Calling(call, s, tg, mt),
         find_path_delay(call, s, tg, mt), UNCHANGED masterlist,
         NEW c, MadeFrom(call, s, Steps, c), Going(s, bt, delaylist, masterlist, c)
  PROVE  Agree(bt, bt') /\ Going(stack', bt', delaylist', masterlist', c)
<1>. DEFINE P == ToSet(delaylist) \cup ToSet(masterlist)
            Q == ToSet(delaylist') \cup ToSet(masterlist')
            path == <<NewNode>> \o PathOf(s)
<1>1. /\ s \in Seq(Frame) /\ Table(bt) /\ ckt \in Circuits /\ Counted(bt, NodesOf(s), P)
      /\ delaylist \in Seq(Seq(Number)) /\ masterlist \in Seq(Seq(Number))
      /\ Tagged(tg, bt, delaylist)
  BY DEF Calling, Kept, Typed
<1>2. /\ Counted(bt', NodesOf(stack'), Q) /\ delaylist' \in Seq(Seq(Number))
      /\ masterlist' \in Seq(Seq(Number))
  BY Called DEF Kept, Typed
<1>3. \A p \in P : p \in Seq(Number)
  <2>1. \A i \in DOMAIN delaylist : delaylist[i] \in Seq(Number)
    BY <1>1, LenProperties, ElementOfSeq
  <2>2. \A i \in DOMAIN masterlist : masterlist[i] \in Seq(Number)
    BY <1>1, LenProperties, ElementOfSeq
  <2>. QED  BY <2>1, <2>2 DEF ToSet
<1>4. ASSUME Agree(bt, bt'), NEW p \in P \cap Q
      PROVE  /\ Real(p, bt', ckt.icDelay, Steps)
             /\ p \in ToSet(delaylist) => Source(bt', p) = c
  <2>1. Real(p, bt, ckt.icDelay, Steps) /\ (p \in ToSet(delaylist) => Source(bt, p) = c)
    BY DEF Going, AllReal, AllFrom
  <2>. HIDE DEF P, Q
  <2>. QED  BY <1>1, <1>2, <1>3, <1>4, <2>1, PathStaysReal
<1>5. CASE CutShort(call, s, tg, mt) \/ (PathEnds(call, s, tg, mt) /\ KeepPath(call, tg))
  <2>1. stack' = s /\ bt' = bt /\ delaylist' = delaylist
    BY <1>5 DEF CutShort, PathEnds, KeepPath
  <2>. QED  BY <2>1 DEF Agree, Going
<1>6. CASE ~Looped(call, tg) /\ PassThrough(call, s, tg, mt)
  <2>1. delaylist' = delaylist
    BY <1>6 DEF PassThrough
  <2>2. Agree(bt, bt') /\ Leads(stack', bt', ckt.icDelay, Steps, c)
    BY <1>6, PassingReal
  <2>. QED  BY <1>4, <2>1, <2>2 DEF Going, AllReal, AllFrom
<1>7. CASE /\ ~Looped(call, tg) /\ PathEnds(call, s, tg, mt)
           /\ RecordPath(call, s, tg) \/ ReplacePath(call, s, tg)
  <2>. DEFINE b == WithNode(call)
  <2>1. Ends(call, s) /\ FreeNodes # {} /\ stack' = s
    BY <1>7 DEF PathEnds
  <2>2. call.receiver \in Conn /\ call.dir \in Dir /\ call.delay \in Int
    BY CallTypes
  <2>3. DOMAIN b = DOMAIN bt \cup {NewNode}
    BY <1>1, <2>1, <2>2, Allocating
  <2>4. /\ path \in ToSet(delaylist')
        /\ \A q \in ToSet(delaylist') : q = path \/ q \in ToSet(delaylist)
        /\ Agree(b, bt') /\ NodesOf(s) \cup {NewNode} \subseteq DOMAIN bt'
    BY <1>7, PathRecorded
  <2>. HIDE DEF b
  <2>5. /\ Agree(bt, b) /\ Real(path, bt', ckt.icDelay, Steps) /\ Source(bt', path) = c
        /\ Leads(s, bt', ckt.icDelay, Steps, c)
    BY <1>7, <2>1, <2>4, EndingReal DEF b
  <2>6. Agree(bt, bt')
    BY <2>3, <2>4, <2>5, AgreeTransitive
  <2>. HIDE DEF path
  <2>. QED  BY <1>4, <2>1, <2>4, <2>5, <2>6 DEF Going, AllReal, AllFrom
<1>8. PathEnds(call, s, tg, mt) =>
        RecordPath(call, s, tg) \/ ReplacePath(call, s, tg) \/ KeepPath(call, tg)
  BY DEF PathEnds
<1>. QED  BY <1>5, <1>6, <1>7, <1>8 DEF find_path_delay

-----------------------------------------------------------------------------
(* The second invariant: what the paths say, and that each start and end has *)
(* one.                                                                      *)
OneEach(b, paths) ==
  \A p, q \in paths : Source(b, p) = Source(b, q) /\ Sink(b, p) = Sink(b, q) => p = q
Points == Analyses[analysis][1]

RealInv ==
  /\ Inv
  /\ AllReal(bt, Paths)
  /\ pc = "search" => /\ Leads(stack, bt, ckt.icDelay, Steps, Head(todo))
                      /\ AllFrom(bt, ToSet(delaylist), Head(todo))
  /\ NoneTwice(todo) /\ (analysis <= 4 => ToSet(todo) \subseteq ToSet(Points))
  /\ \A p \in ToSet(masterlist) : Source(bt, p) \in ToSet(Points) \ ToSet(todo)
  /\ OneEach(bt, ToSet(masterlist))
  /\ analysis > 4 => masterlist = <<>>

LEMMA PathsListed ==
  ASSUME Inv, NEW p \in Paths
  PROVE  p \in Seq(Number)
<1>1. delaylist \in Seq(Seq(Number)) /\ masterlist \in Seq(Seq(Number))
  BY DEF Inv, TypeOK, Typed
<1>2. \A i \in DOMAIN delaylist : delaylist[i] \in Seq(Number)
  BY <1>1, LenProperties, ElementOfSeq
<1>3. \A i \in DOMAIN masterlist : masterlist[i] \in Seq(Number)
  BY <1>1, LenProperties, ElementOfSeq
<1>. QED  BY <1>2, <1>3 DEF Paths, ToSet

\* A step that only counts, adds or frees nodes leaves what the paths say.
LEMMA SayTheSame ==
  ASSUME RealInv, Inv', Agree(bt, bt'), UNCHANGED <<ckt, analysis>>, NEW p \in Paths \cap Paths'
  PROVE  /\ Real(p, bt', ckt'.icDelay, Steps')
         /\ Source(bt', p) = Source(bt, p) /\ Sink(bt', p) = Sink(bt, p)
<1>1. p \in Seq(Number) /\ Real(p, bt, ckt.icDelay, Steps)
  BY PathsListed DEF RealInv, AllReal
<1>2. Counted(bt, NodesOf(stack), Paths) /\ Counted(bt', NodesOf(stack'), Paths')
  BY DEF RealInv, Inv, Kept, Paths
<1>3. Steps' = Steps
  BY StepsSame
<1>. QED  BY <1>1, <1>2, <1>3, PathStaysReal

\* So what it leaves of the paths listed before stays as the invariant says.
LEMMA StaysListed ==
  ASSUME RealInv, Inv', Agree(bt, bt'), UNCHANGED <<ckt, analysis, todo>>,
         ToSet(masterlist') \subseteq ToSet(masterlist),
         analysis > 4 => masterlist' = <<>>
  PROVE  /\ NoneTwice(todo') /\ (analysis' <= 4 => ToSet(todo') \subseteq ToSet(Points'))
         /\ \A p \in ToSet(masterlist') : Source(bt', p) \in ToSet(Points') \ ToSet(todo')
         /\ OneEach(bt', ToSet(masterlist'))
         /\ analysis' > 4 => masterlist' = <<>>
<1>1. \A p \in ToSet(masterlist') : /\ p \in ToSet(masterlist)
                                    /\ Source(bt', p) = Source(bt, p) /\ Sink(bt', p) = Sink(bt, p)
  BY SayTheSame DEF Paths
<1>2. Points' = Points
  BY DEF Points
<1>3. OneEach(bt', ToSet(masterlist'))
  BY <1>1 DEF RealInv, OneEach
<1>. QED  BY <1>1, <1>2, <1>3 DEF RealInv

LEMMA InitiallyReal == Init => RealInv
<1>. SUFFICES ASSUME Init PROVE RealInv
  OBVIOUS
<1>1. Inv
  BY Initially
<1>2. Paths = {} /\ ToSet(masterlist) = {}
  BY DEF Init, Paths, ToSet
<1>3. todo = ClockPin /\ analysis = 1 /\ pc = "start" /\ masterlist = <<>>
  BY DEF Init
<1>4. Points = ClockPin
  BY <1>3 DEF Points, Analyses
<1>5. NoneTwice(ClockPin)
  BY ConnectionsAssumption DEF IsInjective, NoneTwice
<1>. QED  BY <1>1, <1>2, <1>3, <1>4, <1>5 DEF RealInv, AllReal, OneEach

\* A call of find_path_delay, from wherever it is made.
LEMMA CalledKeepsReal ==
  ASSUME RealInv, Inv', NEW call, NEW s, NEW tg, NEW mt, Calling(call, s, tg, mt),
         find_path_delay(call, s, tg, mt), pc' = "search",
         UNCHANGED <<ckt, exhaustive, analysis, todo, masterlist>>,
         MadeFrom(call, s, Steps, Head(todo)), Going(s, bt, delaylist, masterlist, Head(todo))
  PROVE  RealInv'
<1>1. Agree(bt, bt') /\ Going(stack', bt', delaylist', masterlist', Head(todo))
  BY CalledReal
<1>2. Steps' = Steps
  BY StepsSame
<1>3. AllReal(bt, Paths)'
  BY <1>1, <1>2 DEF Going, AllReal, Paths
<1>4. Leads(stack, bt, ckt.icDelay, Steps, Head(todo))'
  BY <1>1, <1>2 DEF Going
<1>5. AllFrom(bt, ToSet(delaylist), Head(todo))'
  BY <1>1 DEF Going
<1>6. analysis > 4 => masterlist' = <<>>
  BY DEF RealInv
<1>7. /\ NoneTwice(todo') /\ (analysis' <= 4 => ToSet(todo') \subseteq ToSet(Points'))
      /\ \A p \in ToSet(masterlist') : Source(bt', p) \in ToSet(Points') \ ToSet(todo')
      /\ OneEach(bt', ToSet(masterlist'))
      /\ analysis' > 4 => masterlist' = <<>>
  BY <1>1, <1>6, StaysListed
<1>. QED  BY <1>3, <1>4, <1>5, <1>7 DEF RealInv

\* How the calls that StartSearch and Recurse make come about.
LEMMA StartGoes ==
  ASSUME RealInv, StartSearch
  PROVE  /\ MadeFrom(FirstCall(Head(todo)), <<>>, Steps, Head(todo))
         /\ Going(<<>>, bt, delaylist, masterlist, Head(todo))
<1>1. MadeFrom(FirstCall(Head(todo)), <<>>, Steps, Head(todo))
  BY DEF MadeFrom
<1>2. Leads(<<>>, bt, ckt.icDelay, Steps, Head(todo))
  BY DEF Leads
<1>3. delaylist = <<>> /\ AllReal(bt, Paths)
  BY DEF StartSearch, RealInv, Inv
<1>4. AllFrom(bt, ToSet(delaylist), Head(todo))
  BY <1>3 DEF AllFrom, ToSet
<1>. QED  BY <1>1, <1>2, <1>3, <1>4 DEF Going, Paths

LEMMA RecurseGoes ==
  ASSUME RealInv, Recurse
  PROVE  /\ MadeFrom(Head(Top.calls), Resumed, Steps, Head(todo))
         /\ Going(Resumed, bt, delaylist, masterlist, Head(todo))
<1>. DEFINE l == Len(stack)
            call == Head(Top.calls)
            c == Head(todo)
<1>1. /\ pc = "search" /\ stack # <<>> /\ Top.calls # <<>>
      /\ Leads(stack, bt, ckt.icDelay, Steps, c) /\ AllFrom(bt, ToSet(delaylist), c)
      /\ stack \in Seq(Frame) /\ Inv
  BY DEF Recurse, RealInv, Inv, TypeOK, Typed
<1>2. /\ Resumed # <<>> /\ Len(Resumed) = l /\ DOMAIN Resumed = DOMAIN stack
      /\ \A i \in DOMAIN stack :
           /\ Resumed[i].receiver = stack[i].receiver /\ Resumed[i].node = stack[i].node
           /\ Resumed[i].delay = stack[i].delay
           /\ Resumed[i].calls = IF i = l THEN Tail(stack[i].calls) ELSE stack[i].calls
  BY <1>1, RecurseCalls
<1>3. l \in DOMAIN stack /\ DOMAIN stack = 1..l /\ l \in Nat \ {0} /\ Top = stack[l] /\ Top \in Frame
  BY <1>1, TopCall
<1>4. /\ Top.calls \in Seq(Call) /\ 1 \in DOMAIN Top.calls /\ call = Top.calls[1]
      /\ \A j \in DOMAIN Tail(Top.calls) :
           j + 1 \in DOMAIN Top.calls /\ Tail(Top.calls)[j] = Top.calls[j + 1]
  <2>. DEFINE k == Top.calls
              t == Tail(k)
  <2>1. k \in Seq(Call) /\ k # <<>>
    BY <1>1, <1>3 DEF Frame
  <2>. HIDE DEF k
  <2>2. /\ t \in Seq(Call) /\ Len(t) = Len(k) - 1 /\ \A j \in 1..Len(t) : t[j] = k[j + 1]
        /\ Len(k) \in Nat \ {0} /\ Head(k) = k[1]
    BY <2>1, HeadTailProperties, EmptySeq
  <2>. HIDE DEF t
  <2>3. DOMAIN k = 1..Len(k) /\ DOMAIN t = 1..Len(t)
    BY <2>1, <2>2, LenProperties
  <2>4. 1 \in DOMAIN k /\ \A j \in DOMAIN t : j + 1 \in DOMAIN k /\ t[j] = k[j + 1]
    BY <2>2, <2>3
  <2>. QED  BY <2>1, <2>2, <2>4 DEF k, t
<1>. HIDE DEF l, c, call
<1>5. MadeFrom(call, Resumed, Steps, c)
  <2>1. <<CallAt(bt, ckt.icDelay, stack[l].node), call>> \in Steps
    BY <1>1, <1>3, <1>4 DEF Leads
  <2>. QED  BY <1>2, <1>3, <2>1 DEF MadeFrom
<1>6. Leads(Resumed, bt, ckt.icDelay, Steps, c)
  <2>1. ASSUME NEW i \in DOMAIN stack, NEW j \in DOMAIN Resumed[i].calls
        PROVE  <<CallAt(bt, ckt.icDelay, stack[i].node), Resumed[i].calls[j]>> \in Steps
    <3>1. CASE i = l
      <4>1. Resumed[i].calls = Tail(Top.calls) /\ stack[i].calls = Top.calls
        BY <1>2, <1>3, <3>1
      <4>2. j + 1 \in DOMAIN stack[i].calls /\ Resumed[i].calls[j] = stack[i].calls[j + 1]
        BY <1>4, <2>1, <4>1
      <4>. QED  BY <1>1, <4>2 DEF Leads
    <3>2. CASE i # l
      BY <1>1, <1>2, <2>1, <3>2 DEF Leads
    <3>. QED  BY <3>1, <3>2
  <2>2. \A i \in DOMAIN stack : i # 1 => i - 1 \in DOMAIN stack
    BY <1>3
  <2>3. 1 \in DOMAIN stack
    BY <1>3
  <2>. QED  BY <1>1, <1>2, <2>1, <2>2, <2>3 DEF Leads
<1>. QED  BY <1>1, <1>5, <1>6 DEF RealInv, Going, Paths, c, call

LEMMA StartSearchKeepsReal ==
  ASSUME RealInv, Inv', StartSearch
  PROVE  RealInv'
<1>1. UNCHANGED <<ckt, exhaustive, analysis, todo, masterlist>> /\ pc' = "search"
  BY DEF StartSearch
<1>2. /\ Calling(FirstCall(Head(todo)), <<>>, StartTags, StartMetrics)
      /\ find_path_delay(FirstCall(Head(todo)), <<>>, StartTags, StartMetrics)
  BY StartCalls DEF RealInv
<1>. QED  BY <1>1, <1>2, StartGoes, CalledKeepsReal

LEMMA RecurseKeepsReal ==
  ASSUME RealInv, Inv', Recurse
  PROVE  RealInv'
<1>1. UNCHANGED <<ckt, exhaustive, analysis, todo, masterlist>> /\ pc' = "search"
  BY DEF Recurse
<1>2. /\ Calling(Head(Top.calls), Resumed, tag, metric)
      /\ find_path_delay(Head(Top.calls), Resumed, tag, metric)
  BY RecurseCalls DEF RealInv
<1>. QED  BY <1>1, <1>2, RecurseGoes, CalledKeepsReal

LEMMA ReturnKeepsReal ==
  ASSUME RealInv, Inv', Return
  PROVE  RealInv'
<1>. DEFINE c == Head(todo)
<1>1. /\ UNCHANGED <<ckt, exhaustive, analysis, todo, pc, delaylist, masterlist>>
      /\ bt' = Release(bt, <<Top.node>>) /\ stack' = Front(stack)
      /\ stack # <<>> /\ stack \in Seq(Frame) /\ Table(bt) /\ pc = "search"
      /\ Leads(stack, bt, ckt.icDelay, Steps, c) /\ AllFrom(bt, ToSet(delaylist), c)
      /\ NodesOf(stack) \subseteq DOMAIN bt /\ NodesOf(stack') \subseteq DOMAIN bt'
  BY DEF Return, RealInv, Inv, TypeOK, Typed, Kept, Counted
<1>2. Agree(bt, bt')
  BY <1>1, CountsAgree
<1>3. /\ stack' \in Seq(Frame) /\ DOMAIN stack' \subseteq DOMAIN stack
      /\ \A i \in DOMAIN stack' : stack'[i] = stack[i] /\ (i # 1 => i - 1 \in DOMAIN stack')
  BY <1>1, Popped
<1>4. stack' # <<>> => 1 \in DOMAIN stack'
  BY <1>3, EmptySeq, LenProperties
<1>5. Leads(stack', bt, ckt.icDelay, Steps, c)
  BY <1>1, <1>3, <1>4 DEF Leads
<1>6. NodesOf(stack') \subseteq DOMAIN bt \cap DOMAIN bt'
  BY <1>1, <1>3 DEF NodesOf
<1>7. Leads(stack', bt', ckt.icDelay, Steps, c)
  BY <1>2, <1>3, <1>5, <1>6, StillLeads
<1>8. Steps' = Steps
  BY <1>1, StepsSame
<1>9. Leads(stack, bt, ckt.icDelay, Steps, Head(todo))'
  BY <1>1, <1>7, <1>8
<1>10. Paths' = Paths
  BY <1>1 DEF Paths
<1>11. AllReal(bt, Paths)' /\ AllFrom(bt, ToSet(delaylist), Head(todo))'
  BY <1>1, <1>2, <1>10, SayTheSame DEF AllReal, AllFrom, Paths
<1>12. /\ NoneTwice(todo') /\ (analysis' <= 4 => ToSet(todo') \subseteq ToSet(Points'))
       /\ \A p \in ToSet(masterlist') : Source(bt', p) \in ToSet(Points') \ ToSet(todo')
       /\ OneEach(bt', ToSet(masterlist'))
       /\ analysis' > 4 => masterlist' = <<>>
  <2>1. analysis > 4 => masterlist' = <<>>
    BY <1>1 DEF RealInv
  <2>. QED  BY <1>1, <1>2, <2>1, StaysListed
<1>. QED  BY <1>9, <1>11, <1>12 DEF RealInv

LEMMA SearchEndsKeepsReal ==
  ASSUME RealInv, Inv', SearchEnds
  PROVE  RealInv'
<1>. DEFINE c == Head(todo)
            D == ToSet(delaylist)
            M == ToSet(masterlist)
<1>1. /\ masterlist' = delaylist \o masterlist /\ delaylist' = <<>> /\ todo' = Tail(todo)
      /\ pc = "search" /\ pc' = "start"
      /\ UNCHANGED <<ckt, exhaustive, analysis, stack, bt, tag, metric>>
  BY DEF SearchEnds
<1>2. /\ todo # <<>> /\ todo \in Seq(Start) /\ NoneTwice(todo)
      /\ delaylist \in Seq(Seq(Number)) /\ masterlist \in Seq(Seq(Number))
      /\ Listed(delaylist, masterlist) /\ Tagged(tag, bt, delaylist)
      /\ analysis <= 4 /\ ToSet(todo) \subseteq ToSet(Points)
      /\ AllReal(bt, Paths) /\ AllFrom(bt, D, c) /\ OneEach(bt, M)
      /\ \A p \in M : Source(bt, p) \in ToSet(Points) \ ToSet(todo)
  BY <1>1 DEF RealInv, Inv, TypeOK, Typed, Kept
<1>3. /\ NoneTwice(todo') /\ c \in ToSet(todo) /\ ToSet(todo') = ToSet(todo) \ {c}
  BY <1>1, <1>2, OneFewer
<1>4. ToSet(masterlist') = D \cup M /\ ToSet(delaylist') = {}
  <2>1. ToSet(delaylist') = {}
    BY <1>1 DEF ToSet
  <2>2. ToSet(delaylist \o masterlist) = D \cup M
    BY <1>2, Linked DEF Listed
  <2>. QED  BY <1>1, <2>1, <2>2
<1>5. Points' = Points /\ Steps' = Steps
  BY <1>1, StepsSame DEF Points
<1>6. AllReal(bt, Paths)'
  BY <1>1, <1>2, <1>4, <1>5 DEF AllReal, Paths
<1>. HIDE DEF c
<1>7. \A p \in D : Source(bt, p) = c
  BY <1>2 DEF AllFrom
<1>8. \A p \in D \cup M : Source(bt, p) \in ToSet(Points) \ ToSet(todo')
  BY <1>2, <1>3, <1>7
<1>9. \A p, q \in D : Sink(bt, p) = Sink(bt, q) => p = q
  <2>. SUFFICES ASSUME NEW i \in DOMAIN delaylist, NEW j \in DOMAIN delaylist,
                       Sink(bt, delaylist[i]) = Sink(bt, delaylist[j])
                PROVE  i = j
    BY DEF ToSet
  <2>1. tag[Sink(bt, delaylist[i])] = i
    BY <1>2 DEF Tagged, Sink
  <2>2. tag[Sink(bt, delaylist[j])] = j
    BY <1>2 DEF Tagged, Sink
  <2>. QED  BY <2>1, <2>2
<1>10. OneEach(bt, D \cup M)
  BY <1>2, <1>3, <1>7, <1>9 DEF OneEach
<1>11. analysis' <= 4 /\ ~(analysis' > 4) /\ pc' # "search"
  <2>1. analysis \in 1..5
    BY DEF RealInv, Inv, TypeOK
  <2>. QED  BY <1>1, <1>2, <2>1
<1>12. ToSet(todo') \subseteq ToSet(Points')
  BY <1>2, <1>3, <1>5
<1>13. \A p \in ToSet(masterlist') : Source(bt', p) \in ToSet(Points') \ ToSet(todo')
  BY <1>1, <1>4, <1>5, <1>8
<1>14. OneEach(bt, ToSet(masterlist))'
  BY <1>1, <1>4, <1>10 DEF OneEach
<1>. QED  BY <1>3, <1>6, <1>11, <1>12, <1>13, <1>14 DEF RealInv

LEMMA ReportKeepsReal ==
  ASSUME RealInv, Inv', Report
  PROVE  RealInv'
<1>1. /\ UNCHANGED <<ckt, exhaustive, analysis, todo, search, masterlist>>
      /\ pc' # "search"
  BY DEF Report
<1>2. Agree(bt, bt') /\ UNCHANGED <<ckt, analysis>> /\ Paths' = Paths
  BY <1>1 DEF Agree, Paths, search
<1>3. AllReal(bt, Paths)'
  BY <1>2, SayTheSame DEF AllReal
<1>4. analysis > 4 => masterlist' = <<>>
  BY <1>1 DEF RealInv
<1>5. /\ NoneTwice(todo') /\ (analysis' <= 4 => ToSet(todo') \subseteq ToSet(Points'))
      /\ \A p \in ToSet(masterlist') : Source(bt', p) \in ToSet(Points') \ ToSet(todo')
      /\ OneEach(bt', ToSet(masterlist'))
      /\ analysis' > 4 => masterlist' = <<>>
  BY <1>1, <1>2, <1>4, StaysListed
<1>. QED  BY <1>1, <1>3, <1>5 DEF RealInv

LEMMA FreePathKeepsReal ==
  ASSUME RealInv, Inv', FreePath
  PROVE  RealInv'
<1>1. /\ UNCHANGED <<ckt, exhaustive, analysis, todo, pc, stack, tag, metric, delaylist>>
      /\ bt' = Release(bt, Head(masterlist)) /\ masterlist' = Tail(masterlist)
      /\ masterlist # <<>> /\ pc' # "search"
  BY DEF FreePath
<1>2. masterlist \in Seq(Seq(Number)) /\ NoneTwice(masterlist) /\ Table(bt)
  BY DEF RealInv, Inv, TypeOK, Typed, Kept, Listed
<1>3. ToSet(masterlist') \subseteq ToSet(masterlist)
  BY <1>1, <1>2, OneFewer
<1>4. Agree(bt, bt')
  BY <1>1, <1>2, CountsAgree
<1>5. Paths' \subseteq Paths
  BY <1>1, <1>3 DEF Paths
<1>6. AllReal(bt, Paths)'
  BY <1>1, <1>4, <1>5, SayTheSame DEF AllReal
<1>7. analysis > 4 => masterlist' = <<>>
  BY <1>1 DEF RealInv
<1>8. /\ NoneTwice(todo') /\ (analysis' <= 4 => ToSet(todo') \subseteq ToSet(Points'))
      /\ \A p \in ToSet(masterlist') : Source(bt', p) \in ToSet(Points') \ ToSet(todo')
      /\ OneEach(bt', ToSet(masterlist'))
      /\ analysis' > 4 => masterlist' = <<>>
  BY <1>1, <1>3, <1>4, <1>7, StaysListed
<1>. QED  BY <1>1, <1>6, <1>8 DEF RealInv

LEMMA AnalysisEndsKeepsReal ==
  ASSUME RealInv, Inv', AnalysisEnds
  PROVE  RealInv'
<1>1. /\ pc = "free" /\ pc' # "search" /\ masterlist' = <<>> /\ delaylist' = delaylist
      /\ analysis' = analysis + 1
      /\ todo' = (IF analysis < Len(Analyses) THEN Analyses[analysis + 1][1] ELSE <<>>)
  BY DEF AnalysisEnds
<1>2. delaylist = <<>>
  BY <1>1 DEF RealInv, Inv
<1>3. Paths' = {} /\ ToSet(masterlist') = {}
  BY <1>1, <1>2 DEF Paths, ToSet
<1>4. analysis \in 1..5 /\ Len(Analyses) = 4
  BY DEF RealInv, Inv, TypeOK, Analyses
<1>5. NoneTwice(todo') /\ (analysis' <= 4 => ToSet(todo') \subseteq ToSet(Points'))
  <2>1. CASE analysis < 4
    <3>1. analysis + 1 \in 1..4
      BY <1>4, <2>1
    <3>2. todo' = Analyses[analysis + 1][1]
      BY <1>1, <1>4, <2>1
    <3>3. Analyses[analysis + 1][1] \in {ClockPin, InputPin}
      BY <3>1 DEF Analyses
    <3>4. NoneTwice(ClockPin) /\ NoneTwice(InputPin)
      BY ConnectionsAssumption DEF IsInjective, NoneTwice
    <3>5. Points' = todo'
      BY <1>1, <3>2 DEF Points
    <3>. QED  BY <3>2, <3>3, <3>4, <3>5
  <2>2. CASE ~(analysis < 4)
    <3>1. todo' = <<>> /\ ToSet(<<>>) = {}
      BY <1>1, <1>4, <2>2 DEF ToSet
    <3>. QED  BY <3>1 DEF NoneTwice
  <2>. QED  BY <2>1, <2>2
<1>. QED  BY <1>1, <1>3, <1>5 DEF RealInv, AllReal, OneEach

(* What the recorded paths say is kept by every step of the search, by their  *)
(* replacement and by the freeing of nodes that they share.                   *)
THEOREM RealInvariance == Spec => []RealInv
<1>1. ASSUME RealInv, Inv', [Next]_vars PROVE RealInv'
  <2>1. CASE StartSearch
    BY <1>1, <2>1, StartSearchKeepsReal
  <2>2. CASE Recurse
    BY <1>1, <2>2, RecurseKeepsReal
  <2>3. CASE Return
    BY <1>1, <2>3, ReturnKeepsReal
  <2>4. CASE SearchEnds
    BY <1>1, <2>4, SearchEndsKeepsReal
  <2>5. CASE Report
    BY <1>1, <2>5, ReportKeepsReal
  <2>6. CASE FreePath
    BY <1>1, <2>6, FreePathKeepsReal
  <2>7. CASE AnalysisEnds
    BY <1>1, <2>7, AnalysisEndsKeepsReal
  <2>8. CASE UNCHANGED vars
    <3>1. UNCHANGED <<ckt, analysis, todo, pc, stack, bt, delaylist, masterlist>>
      BY <2>8 DEF vars, search
    <3>2. Steps' = Steps /\ Points' = Points /\ Paths' = Paths
      BY <3>1, StepsSame DEF Points, Paths
    <3>. QED  BY <1>1, <3>1, <3>2 DEF RealInv, AllReal, AllFrom, OneEach
  <2>. QED  BY <1>1, <2>1, <2>2, <2>3, <2>4, <2>5, <2>6, <2>7, <2>8 DEF Next
<1>. QED  BY InitiallyReal, <1>1, Invariance, PTL DEF Spec

-----------------------------------------------------------------------------
(* What follows for the user and for the memory.                            *)

(* Every path that vesta lists is one that a signal can take: it begins at a  *)
(* starting point of the analysis, each of its steps is a call that           *)
(* find_path_delay makes for the delays of this netlist, no connection is on  *)
(* it twice, it ends at a register or an output and passes none before.       *)
(* Replacement of paths that share nodes might break this.                    *)
PathsAreReal ==
  \A p \in Paths : Real(p, bt, ckt.icDelay, Steps) /\ StartOf(p) \in ToSet(Points)
\* In every netlist, by what RealInv says of each record.
THEOREM ReportedPathsAreReal == Spec => []PathsAreReal
<1>1. ASSUME RealInv, NEW p \in Paths PROVE StartOf(p) \in ToSet(Points)
  <2>1. StartOf(p) = Source(bt, p)
    BY DEF StartOf, Source
  <2>2. CASE p \in ToSet(masterlist)
    BY <1>1, <2>1, <2>2 DEF RealInv
  <2>3. CASE p \in ToSet(delaylist)
    <3>1. delaylist # <<>>
      BY <2>3 DEF ToSet
    <3>2. pc = "search" /\ todo # <<>> /\ todo \in Seq(Start) /\ analysis <= 4
      BY <1>1, <3>1 DEF RealInv, Inv, TypeOK
    <3>3. Head(todo) \in ToSet(todo) /\ ToSet(todo) \subseteq ToSet(Points)
      BY <1>1, <3>2, OneFewer DEF RealInv
    <3>4. Source(bt, p) = Head(todo)
      BY <1>1, <2>3, <3>2 DEF RealInv, AllFrom
    <3>. QED  BY <2>1, <3>3, <3>4
  <2>. QED  BY <2>2, <2>3 DEF Paths
<1>2. RealInv => PathsAreReal
  BY <1>1 DEF RealInv, AllReal, PathsAreReal
<1>. QED  BY <1>2, RealInvariance, PTL

(* Of two connections "only the path with the longest delay is kept": no two  *)
(* listed paths have the same start and the same end, neither of one search    *)
(* nor of several.                                                             *)
OnePathEach ==
  \A p, q \in Paths : StartOf(p) = StartOf(q) /\ EndOf(p) = EndOf(q) => p = q
\* In every netlist: ends differ within a search, starts between searches.
THEOREM PathsAreKeptOnce == Spec => []OnePathEach
<1>1. ASSUME RealInv PROVE OnePathEach
  <2>. DEFINE D == ToSet(delaylist)
              M == ToSet(masterlist)
  <2>1. /\ Inv /\ OneEach(bt, M) /\ Paths = D \cup M
        /\ \A p \in M : Source(bt, p) \in ToSet(Points) \ ToSet(todo)
        /\ pc = "search" => AllFrom(bt, D, Head(todo)) /\ Tagged(tag, bt, delaylist)
        /\ pc # "search" => delaylist = <<>>
    BY <1>1 DEF RealInv, Inv, Paths
  <2>2. \A p : StartOf(p) = Source(bt, p) /\ EndOf(p) = Sink(bt, p)
    BY DEF StartOf, EndOf, Source, Sink
  <2>3. CASE pc # "search"
    <3>1. D = {}
      BY <2>1, <2>3 DEF ToSet
    <3>. QED  BY <2>1, <2>2, <2>3, <3>1 DEF OneEach, OnePathEach
  <2>4. CASE pc = "search"
    <3>1. Head(todo) \in ToSet(todo)
      <4>1. todo \in Seq(Start) /\ todo # <<>> /\ NoneTwice(todo)
        BY <1>1, <2>4 DEF RealInv, Inv, TypeOK
      <4>. QED  BY <4>1, OneFewer
    <3>2. \A i \in DOMAIN delaylist : tag[Sink(bt, delaylist[i])] = i
      BY <2>1, <2>4 DEF Tagged, Sink
    <3>3. \A p, q \in D : Sink(bt, p) = Sink(bt, q) => p = q
      BY <3>2 DEF ToSet
    <3>4. \A p \in D : Source(bt, p) = Head(todo)
      BY <2>1, <2>4 DEF AllFrom
    <3>. HIDE DEF D, M
    <3>5. \A p, q \in D \cup M : Source(bt, p) = Source(bt, q) /\ Sink(bt, p) = Sink(bt, q) => p = q
      BY <2>1, <3>1, <3>3, <3>4 DEF OneEach
    <3>. QED  BY <2>1, <2>2, <2>4, <3>5 DEF OnePathEach
  <2>. QED  BY <2>3, <2>4
<1>. QED  BY <1>1, RealInvariance, PTL

(* The message "Bad endpoint tag!" is never printed: what the tag of a        *)
(* connection leads to is a record of this search, and its path ends there.   *)
EndpointTagsLead ==
  pc = "search" => \A c \in Conn : tag[c] \notin {None, OnPath} =>
    tag[c] \in DOMAIN delaylist /\ EndOf(delaylist[tag[c]]) = c
\* In every netlist, as Tagged says.
THEOREM NoBadEndpointTag == Spec => []EndpointTagsLead
<1>1. Inv => EndpointTagsLead
  BY DEF Inv, Tagged, EndpointTagsLead, EndOf
<1>. QED  BY <1>1, Invariance, PTL

(* The recursion of find_path_delay is never deeper than there are            *)
(* connections, whatever combinational loops the netlist has.                 *)
DepthBounded == Len(stack) <= Cardinality(Conn)
\* In every netlist, as each call in progress is at another connection.
THEOREM RecursionIsBounded == Spec => []DepthBounded
<1>1. ASSUME Inv PROVE DepthBounded
  <2>. DEFINE f == [i \in 1..Len(stack) |-> stack[i].receiver]
  <2>1. stack \in Seq(Frame)
    BY <1>1 DEF Inv, TypeOK, Typed
  <2>2. Len(stack) \in Nat /\ DOMAIN stack = 1..Len(stack)
    BY <2>1, LenProperties
  <2>3. IsFiniteSet(Conn)
    BY ListFinite, ConnectionsAssumption, FS_Union DEF Conn
  <2>4. \A i, j \in DOMAIN stack : i # j => stack[i].receiver # stack[j].receiver
    <3>1. CASE pc = "search"
      BY <1>1, <3>1 DEF Inv, Following
    <3>2. CASE pc # "search"
      BY <1>1, <3>2 DEF Inv
    <3>. QED  BY <3>1, <3>2
  <2>5. \A i \in 1..Len(stack) : stack[i].receiver \in Conn
    <3>1. \A i \in 1..Len(stack) : stack[i] \in Frame
      BY <2>1, ElementOfSeq
    <3>. QED  BY <3>1 DEF Frame
  <2>6. f \in Injection(1..Len(stack), Conn)
    BY <2>2, <2>4, <2>5 DEF Injection, IsInjective
  <2>7. Cardinality(1..Len(stack)) <= Cardinality(Conn)
    BY <2>3, <2>6, FS_Injection
  <2>8. Cardinality(1..Len(stack)) = Len(stack)
    <3>1. Cardinality(1..Len(stack)) = IF 1 <= Len(stack) THEN (Len(stack) - 1) + 1 ELSE 0
      BY <2>2, FS_Interval
    <3>. QED  BY <2>2, <3>1
  <2>. QED  BY <2>7, <2>8 DEF DepthBounded
<1>. QED  BY <1>1, Invariance, PTL

(* When main() has made its four analyses, every backtrace node is free.      *)
NothingLeftOver == Done => DOMAIN bt = {}
\* In every netlist, as no call and no path is left to be counted.
THEOREM AllNodesAreFreed == Spec => []NothingLeftOver
<1>1. ASSUME RealInv, Done PROVE DOMAIN bt = {}
  <2>1. analysis > 4
    BY <1>1 DEF Done, Analyses
  <2>2. analysis \in 1..5 /\ masterlist = <<>> /\ pc # "search"
    BY <1>1, <2>1 DEF RealInv, Inv, TypeOK
  <2>3. stack = <<>> /\ delaylist = <<>> /\ Counted(bt, NodesOf(stack), Paths)
    BY <1>1, <2>2 DEF RealInv, Inv, Kept, Paths
  <2>4. NodesOf(stack) = {} /\ Paths = {}
    BY <2>2, <2>3 DEF NodesOf, Paths, ToSet
  <2>5. ASSUME NEW n \in DOMAIN bt PROVE FALSE
    <3>1. Users({}, n) = {} /\ Cardinality({}) = 0
      BY FS_EmptySet DEF Users
    <3>2. bt[n].refcnt > 0 /\ bt[n].refcnt = 0 + Cardinality(Users({}, n))
      BY <2>3, <2>4, <2>5 DEF Counted
    <3>. QED  BY <3>1, <3>2
  <2>. QED  BY <2>5
<1>2. RealInv => NothingLeftOver
  BY <1>1 DEF NothingLeftOver
<1>. QED  BY <1>2, RealInvariance, PTL

-----------------------------------------------------------------------------
(* Induction over numbers, with sets in the place of properties.             *)
LEMMA LeastNumber ==
  ASSUME NEW T, T \subseteq Nat, T # {}
  PROVE  \E x \in T : \A y \in T : x <= y
<1>1. PICK x \in T : \A y \in T : <<y, x>> \notin OpToRel(<, Nat)
  BY NatLessThanWellFounded, WFMin
<1>2. \A y \in T : <<y, x>> \in Nat \X Nat
  OBVIOUS
<1>3. \A y \in T : ~(y < x)
  BY <1>1, <1>2 DEF OpToRel
<1>4. \A y \in T : x <= y
  BY <1>3
<1>. QED  BY <1>4

LEMMA Induction ==
  ASSUME NEW n \in Nat, NEW T, 0 \in T,
         \A i \in 1..n : i - 1 \in T => i \in T
  PROVE  \A i \in 0..n : i \in T
<1>. DEFINE U == {i \in 0..n : i \notin T}
<1>. SUFFICES ASSUME U # {} PROVE FALSE
  OBVIOUS
<1>0. U \subseteq Nat
  OBVIOUS
<1>1. PICK x \in U : \A y \in U : x <= y
  <2>. HIDE DEF U
  <2>. QED  BY <1>0, LeastNumber
<1>2. x \in 1..n /\ x - 1 \in 0..n
  BY <1>1
<1>3. x - 1 \notin U
  BY <1>1, <1>2
<1>. QED  BY <1>1, <1>2, <1>3

-----------------------------------------------------------------------------
(* No way is missed.  A walk is what calls can follow one another from a      *)
(* starting point without passing a connection twice; a way is a walk to      *)
(* where paths are recorded.                                                  *)
Walk(c) ==
  {w \in Seq(AnyCall) :
     /\ w # <<>> /\ w[1] = FirstCall(c)
     /\ \A i \in 1..(Len(w) - 1) : <<w[i], w[i + 1]>> \in Steps
     /\ \A i \in 2..(Len(w) - 1) : w[i].receiver \notin EndPin
     /\ \A i, j \in DOMAIN w : i # j => w[i].receiver # w[j].receiver}
Way(c) == {w \in Walk(c) : Len(w) > 1 /\ w[Len(w)].receiver \in EndPin}

\* The marks are those of the calls in progress.
Marked(s, tg) == \A c \in Conn : tg[c] = OnPath => \E i \in DOMAIN s : s[i].receiver = c

\* The calls s follow w up to its i-th call, and the next is still to be made.
Along(w, s, b, i) ==
  i < Len(w) /\ \A j \in 1..i : w[j] = CallAt(b, ckt.icDelay, s[j].node)
Pending(w, s, b) ==
  \E i \in DOMAIN s : Along(w, s, b, i) /\ w[i + 1] \in ToSet(s[i].calls)
Now(w, s, b, call) == Along(w, s, b, Len(s)) /\ w[Len(s) + 1] = call

\* An end whose last wire has a delay (option -d), which is recorded with the
\* path but not compared: the worst path may be lost there.
Wired(e) == ckt.icDelay[e] # 0

\* A path from the start of w to its end, and as bad.
Covers(p, b, w) ==
  /\ Source(b, p) = w[1].receiver /\ Sink(b, p) = w[Len(w)].receiver
  /\ ~Worse(w[Len(w)].delay, b[p[1]].delay)
Covered(w, b, paths) == Wired(w[Len(w)].receiver) \/ \E p \in paths : Covers(p, b, w)

LEMMA Order ==
  ASSUME NEW x \in Int, NEW y \in Int, NEW z \in Int
  PROVE  /\ ~Worse(x, x) /\ (Worse(x, y) => ~Worse(y, x))
         /\ ~Worse(x, y) /\ ~Worse(y, z) => ~Worse(x, z)
BY DEF Worse

LEMMA CalledMarks ==
  ASSUME NEW call, NEW s, NEW tg, NEW mt, Calling(call, s, tg, mt),
         find_path_delay(call, s, tg, mt), Marked(s, tg)
  PROVE  Marked(stack', tag')
<1>1. /\ tg \in [Conn -> Nat \cup {OnPath}] /\ call.receiver \in Conn /\ s \in Seq(Frame)
      /\ delaylist \in Seq(Seq(Number))
  BY CallTypes DEF Calling, Kept, Typed
<1>2. CASE PassThrough(call, s, tg, mt)
  <2>. DEFINE f == [receiver |-> call.receiver, delay |-> call.delay, node |-> NewNode,
                    calls |-> Onward(call.receiver, call.dir, call.delay)]
  <2>1. stack' = Append(s, f) /\ tag' = [tg EXCEPT ![call.receiver] = OnPath]
    BY <1>2 DEF PassThrough
  <2>2. f \in Frame /\ f.receiver = call.receiver
    <3>1. call.dir \in Dir /\ call.delay \in Int /\ ckt \in Circuits
          /\ (call.receiver \in ToSet(InputPin) \/ HasPin(call.receiver))
      BY <1>2, CallTypes DEF Calling, PassThrough, Ends
    <3>2. NewNode \in Number
      BY <1>2, NewNodeIsFree DEF PassThrough
    <3>. QED  BY <1>1, <3>1, <3>2, OnwardType DEF Frame
  <2>. HIDE DEF f
  <2>3. /\ DOMAIN stack' = DOMAIN s \cup {Len(s) + 1} /\ stack'[Len(s) + 1] = f
        /\ \A i \in DOMAIN s : stack'[i] = s[i]
    BY <1>1, <2>1, <2>2, Deeper
  <2>. QED  BY <1>1, <2>1, <2>2, <2>3 DEF Marked
<1>3. CASE CutShort(call, s, tg, mt)
  BY <1>3 DEF CutShort
<1>4. CASE PathEnds(call, s, tg, mt)
  <2>1. stack' = s
    BY <1>4 DEF PathEnds
  <2>2. CASE RecordPath(call, s, tg)
    <3>1. tag' = [tg EXCEPT ![call.receiver] = Len(delaylist) + 1]
      BY <2>2 DEF RecordPath
    <3>2. Len(delaylist) + 1 # OnPath
      BY <1>1, LenProperties DEF OnPath
    <3>. QED  BY <1>1, <2>1, <3>1, <3>2 DEF Marked
  <2>3. CASE ReplacePath(call, s, tg) \/ KeepPath(call, tg)
    BY <2>1, <2>3 DEF ReplacePath, KeepPath
  <2>. QED  BY <1>4, <2>2, <2>3 DEF PathEnds
<1>. QED  BY <1>2, <1>3, <1>4 DEF find_path_delay

\* Where a way ends, and where it goes on.
LEMMA WayGoesOn ==
  ASSUME NEW c, NEW w \in Way(c), NEW n \in 1..Len(w)
  PROVE  /\ w \in Seq(AnyCall) /\ DOMAIN w = 1..Len(w) /\ Len(w) \in Nat /\ Len(w) > 1
         /\ n # 1 /\ w[n].receiver \in EndPin => n = Len(w)
         /\ n = 1 \/ w[n].receiver \notin EndPin => n < Len(w)
<1>1. w \in Seq(AnyCall) /\ DOMAIN w = 1..Len(w) /\ Len(w) \in Nat /\ Len(w) > 1
  BY LenProperties DEF Way, Walk
<1>2. w[Len(w)].receiver \in EndPin /\ \A i \in 2..(Len(w) - 1) : w[i].receiver \notin EndPin
  BY DEF Way, Walk
<1>. DEFINE l == Len(w)
<1>3. l \in Nat /\ l > 1 /\ n \in 1..l
  BY <1>1
<1>. HIDE DEF l
<1>4. n = 1 \/ n = l \/ n \in 2..(l - 1)
  BY <1>3
<1>5. n # l => n < l
  BY <1>3
<1>. QED  BY <1>1, <1>2, <1>3, <1>4, <1>5 DEF l

\* A path that takes the place of another, from one table to the next.
AsBad(p, t, q, b) ==
  /\ Source(t, p) = Source(b, q) /\ Sink(t, p) = Sink(b, q)
  /\ ~Worse(b[q[1]].delay, t[p[1]].delay)

\* What is recorded at an end.
LEMMA EndRecorded ==
  ASSUME NEW call, NEW s, NEW tg, NEW mt, Calling(call, s, tg, mt),
         find_path_delay(call, s, tg, mt), UNCHANGED masterlist,
         NEW c, MadeFrom(call, s, Steps, c), Going(s, bt, delaylist, masterlist, c),
         ~Looped(call, tg), PathEnds(call, s, tg, mt),
         RecordPath(call, s, tg) \/ ReplacePath(call, s, tg), ~Wired(call.receiver)
  PROVE  LET p == <<NewNode>> \o PathOf(s)
         IN /\ p \in ToSet(delaylist') /\ Source(bt', p) = c /\ Sink(bt', p) = call.receiver
            /\ bt'[p[1]].delay = call.delay
<1>. DEFINE p == <<NewNode>> \o PathOf(s)
            b == WithNode(call)
<1>1. p \in ToSet(delaylist') /\ p[1] = NewNode /\ Agree(b, bt') /\ NewNode \in DOMAIN bt'
  BY PathRecorded
<1>2. Source(bt', p) = c
  BY <1>1, CalledReal DEF Going, AllFrom
<1>3. /\ call.receiver \in Conn /\ call.dir \in Dir /\ call.delay \in Int
      /\ call = [receiver |-> call.receiver, dir |-> call.dir, delay |-> call.delay]
      /\ FreeNodes # {} /\ Table(bt) /\ ckt \in Circuits
  BY CallTypes, CallShape DEF PathEnds, Calling, Kept, Typed
<1>4. /\ b[NewNode].receiver = call.receiver /\ CallAt(b, ckt.icDelay, NewNode) = call
      /\ NewNode \in DOMAIN b /\ Table(b) /\ NewNode \in Number
  BY <1>3, NewNodeSays, Allocating, NewNodeIsFree
<1>5. b[NewNode].delay = call.delay
  <2>1. b[NewNode].delay - ckt.icDelay[call.receiver] = call.delay
    BY <1>4 DEF CallAt
  <2>2. b[NewNode].delay \in Int
    BY <1>4 DEF Table, Node
  <2>. QED  BY <1>3, <2>1, <2>2 DEF Wired
<1>6. bt'[NewNode].receiver = call.receiver /\ bt'[NewNode].delay = call.delay
  BY <1>1, <1>4, <1>5 DEF Agree
<1>. HIDE DEF p
<1>. QED  BY <1>1, <1>2, <1>6 DEF Sink, p

\* A table's delays are numbers.
LEMMA DelayAt ==
  ASSUME NEW b, Table(b), NEW n \in DOMAIN b
  PROVE  b[n].delay \in Int
BY DEF Table, Node

\* The record that a tag leads to.
LEMMA RecordAt ==
  ASSUME NEW call, NEW s, NEW tg, NEW mt, Calling(call, s, tg, mt),
         NEW c, Going(s, bt, delaylist, masterlist, c), tg[call.receiver] \notin {None, OnPath}
  PROVE  LET q == Recorded(call, tg)
         IN /\ q \in ToSet(delaylist) /\ Source(bt, q) = c /\ Sink(bt, q) = call.receiver
            /\ q[1] \in DOMAIN bt /\ bt[q[1]].delay \in Int
<1>. DEFINE i == tg[call.receiver]
<1>1. /\ Tagged(tg, bt, delaylist) /\ delaylist \in Seq(Seq(Number)) /\ Table(bt)
      /\ Counted(bt, NodesOf(s), ToSet(delaylist) \cup ToSet(masterlist))
      /\ call.receiver \in Conn
  BY CallTypes DEF Calling, Kept, Typed
<1>2. i \in DOMAIN delaylist /\ bt[delaylist[i][1]].receiver = call.receiver
  BY <1>1 DEF Tagged
<1>3. delaylist[i] \in ToSet(delaylist)
  BY <1>2 DEF ToSet
<1>4. delaylist[i][1] \in DOMAIN bt
  BY <1>1, <1>2, FirstNodes
<1>5. bt[delaylist[i][1]].delay \in Int
  BY <1>1, <1>4, DelayAt
<1>6. Source(bt, delaylist[i]) = c
  BY <1>3 DEF Going, AllFrom
<1>. QED  BY <1>2, <1>3, <1>4, <1>5, <1>6 DEF Recorded, Sink

\* No call makes the list better.
LEMMA PathsGetNoBetter ==
  ASSUME NEW call, NEW s, NEW tg, NEW mt, Calling(call, s, tg, mt),
         find_path_delay(call, s, tg, mt), UNCHANGED masterlist,
         NEW c, MadeFrom(call, s, Steps, c), Going(s, bt, delaylist, masterlist, c),
         NEW q \in ToSet(delaylist), ~Wired(Sink(bt, q))
  PROVE  \E p \in ToSet(delaylist') : AsBad(p, bt', q, bt)
<1>. DEFINE P == ToSet(delaylist) \cup ToSet(masterlist)
            Q == ToSet(delaylist') \cup ToSet(masterlist')
<1>1. /\ s \in Seq(Frame) /\ Table(bt) /\ ckt \in Circuits /\ Counted(bt, NodesOf(s), P)
      /\ delaylist \in Seq(Seq(Number)) /\ Tagged(tg, bt, delaylist)
  BY DEF Calling, Kept, Typed
<1>2. Counted(bt', NodesOf(stack'), Q)
  BY Called DEF Kept
<1>3. Agree(bt, bt') /\ Real(q, bt, ckt.icDelay, Steps)
  BY CalledReal DEF Going, AllReal
<1>4. PICK i \in DOMAIN delaylist : q = delaylist[i]
  BY DEF ToSet
<1>5. q \in Seq(Number)
  BY <1>1, <1>4, LenProperties, ElementOfSeq
<1>6. q[1] \in DOMAIN bt /\ q[1] \in ToSet(q)
  BY <1>1, <1>4, FirstNodes
<1>7. bt[q[1]].delay \in Int
  BY <1>1, <1>6, DelayAt
<1>8. CASE q \in ToSet(delaylist')
  <2>1. Source(bt', q) = Source(bt, q) /\ Sink(bt', q) = Sink(bt, q)
    <3>1. q \in P \cap Q
      BY <1>8
    <3>. HIDE DEF P, Q
    <3>. QED  BY <1>1, <1>2, <1>3, <1>5, <3>1, PathStaysReal
  <2>2. q[1] \in DOMAIN bt'
    BY <1>2, <1>6, <1>8 DEF Counted
  <2>3. bt'[q[1]].delay = bt[q[1]].delay
    BY <1>3, <1>6, <2>2 DEF Agree
  <2>4. ~Worse(bt[q[1]].delay, bt'[q[1]].delay)
    BY <1>7, <2>3, Order
  <2>. QED  BY <1>8, <2>1, <2>4 DEF AsBad
<1>9. CASE q \notin ToSet(delaylist')
  <2>. DEFINE p == <<NewNode>> \o PathOf(s)
  <2>1. /\ ~Looped(call, tg) /\ PathEnds(call, s, tg, mt)
        /\ RecordPath(call, s, tg) \/ ReplacePath(call, s, tg)
    BY <1>9 DEF find_path_delay, CutShort, PassThrough, PathEnds, KeepPath
  <2>2. ReplacePath(call, s, tg) /\ q = Recorded(call, tg)
    BY <1>9, <2>1, PathRecorded
  <2>3. Worse(call.delay, bt[q[1]].delay) /\ Source(bt, q) = c /\ Sink(bt, q) = call.receiver
    BY <2>2, RecordAt DEF ReplacePath, Replaces
  <2>4. /\ p \in ToSet(delaylist') /\ Source(bt', p) = c /\ Sink(bt', p) = call.receiver
        /\ bt'[p[1]].delay = call.delay
    <3>1. ~Wired(call.receiver)
      BY <2>3
    <3>. QED  BY <2>1, <3>1, EndRecorded
  <2>. HIDE DEF p
  <2>5. call.delay \in Int
    BY CallTypes
  <2>6. ~Worse(bt[q[1]].delay, call.delay)
    BY <1>7, <2>3, <2>5, Order
  <2>. QED  BY <2>3, <2>4, <2>6 DEF AsBad
<1>. QED  BY <1>8, <1>9

\* After a call that was neither pruned nor cut at a loop, its end is listed
\* with a path that is no better.
LEMMA EndIsListed ==
  ASSUME NEW call, NEW s, NEW tg, NEW mt, Calling(call, s, tg, mt),
         find_path_delay(call, s, tg, mt), UNCHANGED masterlist,
         NEW c, MadeFrom(call, s, Steps, c), Going(s, bt, delaylist, masterlist, c),
         ~Wired(call.receiver), ~Looped(call, tg), PathEnds(call, s, tg, mt)
  PROVE  \E p \in ToSet(delaylist') :
           /\ Source(bt', p) = c /\ Sink(bt', p) = call.receiver
           /\ ~Worse(call.delay, bt'[p[1]].delay)
<1>1. call.delay \in Int
  BY CallTypes
<1>2. CASE RecordPath(call, s, tg) \/ ReplacePath(call, s, tg)
  <2>. DEFINE p == <<NewNode>> \o PathOf(s)
  <2>1. /\ p \in ToSet(delaylist') /\ Source(bt', p) = c /\ Sink(bt', p) = call.receiver
        /\ bt'[p[1]].delay = call.delay
    BY <1>2, EndRecorded
  <2>. HIDE DEF p
  <2>. QED  BY <1>1, <2>1, Order
<1>3. CASE KeepPath(call, tg)
  <2>1. delaylist' = delaylist /\ bt' = bt /\ tg[call.receiver] \notin {None, OnPath}
        /\ ~Worse(call.delay, bt[Recorded(call, tg)[1]].delay)
    BY <1>3 DEF KeepPath, Replaces
  <2>. DEFINE q == Recorded(call, tg)
  <2>2. q \in ToSet(delaylist) /\ Source(bt, q) = c /\ Sink(bt, q) = call.receiver
    BY <2>1, RecordAt
  <2>. HIDE DEF q
  <2>. QED  BY <2>1, <2>2 DEF q
<1>. QED  BY <1>2, <1>3 DEF PathEnds

\* A call that goes on becomes the last of those in progress.
LEMMA CallPassed ==
  ASSUME NEW call, NEW s, NEW tg, NEW mt, Calling(call, s, tg, mt),
         PassThrough(call, s, tg, mt)
  PROVE  /\ DOMAIN stack' = DOMAIN s \cup {Len(s) + 1} /\ Len(stack') = Len(s) + 1
         /\ Len(s) + 1 \notin DOMAIN s
         /\ \A i \in DOMAIN s : stack'[i] = s[i]
         /\ stack'[Len(s) + 1].receiver = call.receiver
         /\ stack'[Len(s) + 1].delay = call.delay
         /\ stack'[Len(s) + 1].calls = Onward(call.receiver, call.dir, call.delay)
         /\ CallAt(bt', ckt.icDelay, stack'[Len(s) + 1].node) = call
<1>. DEFINE f == [receiver |-> call.receiver, delay |-> call.delay, node |-> NewNode,
                  calls |-> Onward(call.receiver, call.dir, call.delay)]
<1>1. /\ s \in Seq(Frame) /\ Table(bt) /\ ckt \in Circuits
      /\ call.receiver \in Conn /\ call.dir \in Dir /\ call.delay \in Int
      /\ (call.receiver \in ToSet(InputPin) \/ HasPin(call.receiver))
      /\ call = [receiver |-> call.receiver, dir |-> call.dir, delay |-> call.delay]
  BY CallTypes, CallShape DEF Calling, Kept, Typed, PassThrough, Ends
<1>2. FreeNodes # {} /\ NewNode \in Number /\ stack' = Append(s, f) /\ bt' = WithNode(call)
  BY NewNodeIsFree DEF PassThrough
<1>3. /\ f.receiver = call.receiver /\ f.delay = call.delay /\ f.node = NewNode
      /\ f.calls = Onward(call.receiver, call.dir, call.delay) /\ f \in Frame
  BY <1>1, <1>2, OnwardType DEF Frame
<1>4. CallAt(bt', ckt.icDelay, NewNode) = call
  BY <1>1, <1>2, NewNodeSays
<1>. HIDE DEF f
<1>5. /\ DOMAIN stack' = DOMAIN s \cup {Len(s) + 1} /\ stack'[Len(s) + 1] = f
      /\ \A i \in DOMAIN s : stack'[i] = s[i]
  BY <1>1, <1>2, <1>3, Deeper
<1>6. Len(stack') = Len(s) + 1
  BY <1>1, <1>2, <1>3, AppendProperties
<1>7. Len(s) + 1 \notin DOMAIN s
  BY <1>1, LenProperties
<1>. QED  BY <1>3, <1>4, <1>5, <1>6, <1>7

\* The calls in progress before a call are in progress after it.
LEMMA CallsStay ==
  ASSUME NEW call, NEW s, NEW tg, NEW mt, Calling(call, s, tg, mt),
         find_path_delay(call, s, tg, mt), UNCHANGED masterlist,
         NEW c, MadeFrom(call, s, Steps, c), Going(s, bt, delaylist, masterlist, c)
  PROVE  /\ DOMAIN s = 1..Len(s) /\ Len(s) \in Nat /\ DOMAIN s \subseteq DOMAIN stack'
         /\ \A i \in DOMAIN s : stack'[i] = s[i]
         /\ \A i \in DOMAIN s :
              CallAt(bt', ckt.icDelay, s[i].node) = CallAt(bt, ckt.icDelay, s[i].node)
<1>1. s \in Seq(Frame) /\ NodesOf(s) \subseteq DOMAIN bt
  BY DEF Calling, Kept, Typed, Counted
<1>2. NodesOf(stack') \subseteq DOMAIN bt'
  BY Called DEF Kept, Counted
<1>3. Agree(bt, bt')
  BY CalledReal
<1>4. ~PassThrough(call, s, tg, mt) => stack' = s
  BY DEF find_path_delay, CutShort, PathEnds
<1>5. DOMAIN s \subseteq DOMAIN stack' /\ \A i \in DOMAIN s : stack'[i] = s[i]
  BY <1>4, CallPassed
<1>6. ASSUME NEW i \in DOMAIN s
      PROVE  CallAt(bt', ckt.icDelay, s[i].node) = CallAt(bt, ckt.icDelay, s[i].node)
  <2>1. s[i].node \in NodesOf(s) /\ s[i].node \in NodesOf(stack')
    BY <1>5 DEF NodesOf
  <2>. QED  BY <1>1, <1>2, <1>3, <2>1, SameCall
<1>. QED  BY <1>1, <1>5, <1>6, LenProperties

\* With the option -e a call loses no way that goes through it.
LEMMA CalledFinds ==
  ASSUME NEW call, NEW s, NEW tg, NEW mt, Calling(call, s, tg, mt),
         find_path_delay(call, s, tg, mt), UNCHANGED masterlist,
         NEW c, MadeFrom(call, s, Steps, c), Going(s, bt, delaylist, masterlist, c),
         Marked(s, tg), exhaustive, NEW w \in Way(c),
         Now(w, s, bt, call) \/ Pending(w, s, bt) \/ Covered(w, bt, ToSet(delaylist))
  PROVE  Pending(w, stack', bt') \/ Covered(w, bt', ToSet(delaylist'))
<1>. SUFFICES ASSUME ~Wired(w[Len(w)].receiver)
              PROVE  Pending(w, stack', bt') \/ Covered(w, bt', ToSet(delaylist'))
  BY DEF Covered
<1>. DEFINE ic == ckt.icDelay
            l == Len(s) + 1
<1>1. /\ DOMAIN s = 1..Len(s) /\ Len(s) \in Nat /\ DOMAIN s \subseteq DOMAIN stack'
      /\ \A i \in DOMAIN s : stack'[i] = s[i]
      /\ \A i \in DOMAIN s : CallAt(bt', ic, s[i].node) = CallAt(bt, ic, s[i].node)
  BY CallsStay
<1>2. /\ w \in Seq(AnyCall) /\ DOMAIN w = 1..Len(w) /\ Len(w) \in Nat /\ Len(w) > 1
      /\ w[1] = FirstCall(c) /\ w[1].receiver = c
      /\ \A i, j \in DOMAIN w : i # j => w[i].receiver # w[j].receiver
      /\ \A i \in 1..(Len(w) - 1) : <<w[i], w[i + 1]>> \in Steps
  BY LenProperties DEF Way, Walk, FirstCall
<1>3. CASE Pending(w, s, bt)
  <2>1. PICK i \in DOMAIN s : Along(w, s, bt, i) /\ w[i + 1] \in ToSet(s[i].calls)
    BY <1>3 DEF Pending
  <2>2. \A j \in 1..i : j \in DOMAIN s
    BY <1>1
  <2>3. Along(w, stack', bt', i)
    BY <1>1, <2>1, <2>2 DEF Along
  <2>. QED  BY <1>1, <2>1, <2>3 DEF Pending
<1>4. CASE Covered(w, bt, ToSet(delaylist))
  <2>1. PICK q \in ToSet(delaylist) : Covers(q, bt, w)
    BY <1>4 DEF Covered
  <2>2. PICK p \in ToSet(delaylist') : AsBad(p, bt', q, bt)
    <3>1. ~Wired(Sink(bt, q))
      BY <2>1 DEF Covers
    <3>. QED  BY <3>1, PathsGetNoBetter
  <2>3. w[Len(w)].delay \in Int /\ bt[q[1]].delay \in Int /\ bt'[p[1]].delay \in Int
    <3>1. w[Len(w)] \in AnyCall
      BY <1>2, ElementOfSeq
    <3>2. /\ Table(bt) /\ Counted(bt, NodesOf(s), ToSet(delaylist) \cup ToSet(masterlist))
          /\ Tagged(tg, bt, delaylist) /\ delaylist \in Seq(Seq(Number))
      BY DEF Calling, Kept, Typed
    <3>3. /\ Table(bt') /\ Tagged(tag', bt', delaylist') /\ delaylist' \in Seq(Seq(Number))
          /\ Counted(bt', NodesOf(stack'), ToSet(delaylist') \cup ToSet(masterlist'))
      BY Called DEF Kept, Typed
    <3>4. PICK i \in DOMAIN delaylist : q = delaylist[i]
      BY DEF ToSet
    <3>5. PICK j \in DOMAIN delaylist' : p = delaylist'[j]
      BY DEF ToSet
    <3>6. q[1] \in DOMAIN bt
      BY <3>2, <3>4, FirstNodes
    <3>7. p[1] \in DOMAIN bt'
      BY <3>3, <3>5, FirstNodes
    <3>. QED  BY <3>1, <3>2, <3>3, <3>6, <3>7, DelayAt DEF AnyCall
  <2>4. ~Worse(w[Len(w)].delay, bt'[p[1]].delay)
    BY <2>1, <2>2, <2>3, Order DEF Covers, AsBad
  <2>. QED  BY <2>1, <2>2, <2>4 DEF Covered, Covers, AsBad
<1>5. CASE Now(w, s, bt, call)
  <2>1. l \in 1..Len(w) /\ w[l] = call /\ \A j \in 1..Len(s) : w[j] = CallAt(bt, ic, s[j].node)
    BY <1>1, <1>2, <1>5 DEF Now, Along
  <2>2. ~Looped(call, tg)
    <3>. SUFFICES ASSUME tg[call.receiver] = OnPath PROVE FALSE
      BY DEF Looped
    <3>1. PICK i \in DOMAIN s : s[i].receiver = call.receiver
      BY CallTypes DEF Marked
    <3>2. w[i] = CallAt(bt, ic, s[i].node) /\ bt[s[i].node].receiver = s[i].receiver
      BY <1>1, <2>1 DEF Going, Leads
    <3>3. w[i].receiver = s[i].receiver
      BY <3>2 DEF CallAt
    <3>. QED  BY <1>1, <1>2, <2>1, <3>1, <3>3
  <2>3. ~Pruned(call, mt)
    BY DEF Pruned
  <2>4. CASE PassThrough(call, s, tg, mt)
    <3>1. /\ Len(stack') = l /\ l \in DOMAIN stack'
          /\ stack'[l].calls = Onward(call.receiver, call.dir, call.delay)
          /\ CallAt(bt', ic, stack'[l].node) = call
      BY <2>4, CallPassed
    <3>2. l = 1 \/ w[l].receiver \notin EndPin
      <4>1. l = 1 \/ s # <<>>
        BY EmptySeq, <1>1
      <4>. QED  BY <2>1, <2>4, <4>1 DEF PassThrough, Ends, EndPin
    <3>3. l < Len(w)
      BY <2>1, <3>2, WayGoesOn
    <3>4. <<w[l], w[l + 1]>> \in Steps
      <4>1. l \in 1..(Len(w) - 1)
        BY <1>1, <1>2, <2>1, <3>3
      <4>. QED  BY <4>1 DEF Way, Walk
    <3>5. w[l + 1] \in ToSet(stack'[l].calls)
      BY <2>1, <3>1, <3>4 DEF Steps
    <3>6. \A j \in 1..l : w[j] = CallAt(bt', ic, stack'[j].node)
      BY <1>1, <2>1, <3>1
    <3>7. Along(w, stack', bt', l)
      BY <3>3, <3>6 DEF Along
    <3>. QED  BY <3>1, <3>5, <3>7 DEF Pending
  <2>5. CASE PathEnds(call, s, tg, mt)
    <3>1. s # <<>> /\ w[l].receiver \in EndPin
      BY <2>1, <2>5, CallTypes DEF PathEnds, Ends, EndPin
    <3>2. l # 1
      BY <1>1, <3>1, EmptySeq
    <3>3. l = Len(w)
      BY <2>1, <3>1, <3>2, WayGoesOn
    <3>4. PICK p \in ToSet(delaylist') :
            /\ Source(bt', p) = c /\ Sink(bt', p) = call.receiver
            /\ ~Worse(call.delay, bt'[p[1]].delay)
      <4>1. ~Wired(call.receiver)
        BY <2>1, <3>3
      <4>. QED  BY <2>2, <2>5, <4>1, EndIsListed
    <3>. HIDE DEF l
    <3>5. Covers(p, bt', w)
      BY <1>2, <2>1, <3>3, <3>4 DEF Covers
    <3>. QED  BY <3>5 DEF Covered
  <2>. QED  BY <2>2, <2>3, <2>4, <2>5 DEF find_path_delay, CutShort
<1>. QED  BY <1>3, <1>4, <1>5

-----------------------------------------------------------------------------
(* The marks, and the search with the option -e, through each action.        *)
LEMMA HeadAndTail ==
  ASSUME NEW S, NEW q \in Seq(S), q # <<>>
  PROVE  ToSet(q) = {Head(q)} \cup ToSet(Tail(q)) /\ Head(q) \in S /\ Tail(q) \in Seq(S)
<1>. DEFINE t == Tail(q)
<1>1. /\ t \in Seq(S) /\ Len(t) = Len(q) - 1 /\ \A j \in 1..Len(t) : t[j] = q[j + 1]
      /\ Len(q) \in Nat \ {0} /\ Head(q) = q[1] /\ Head(q) \in S
  BY HeadTailProperties, EmptySeq
<1>. HIDE DEF t
<1>2. DOMAIN q = 1..Len(q) /\ DOMAIN t = 1..Len(t)
  BY <1>1, LenProperties
<1>3. \A i \in DOMAIN q : i = 1 \/ (i - 1 \in DOMAIN t /\ t[i - 1] = q[i])
  <2>. SUFFICES ASSUME NEW i \in DOMAIN q, i # 1 PROVE i - 1 \in DOMAIN t /\ t[i - 1] = q[i]
    OBVIOUS
  <2>1. i - 1 \in 1..Len(t) /\ (i - 1) + 1 = i
    BY <1>1, <1>2
  <2>. QED  BY <1>1, <1>2, <2>1
<1>4. \A j \in DOMAIN t : j + 1 \in DOMAIN q /\ t[j] = q[j + 1]
  BY <1>1, <1>2
<1>5. 1 \in DOMAIN q
  BY <1>1, <1>2
<1>. QED  BY <1>1, <1>3, <1>4, <1>5 DEF ToSet, t

LEMMA MarksKept ==
  ASSUME Inv, Marked(stack, tag), [Next]_vars
  PROVE  Marked(stack, tag)'
<1>1. tag \in [Conn -> Nat \cup {OnPath}] /\ stack \in Seq(Frame)
  BY DEF Inv, TypeOK, Typed
<1>2. CASE StartSearch
  <2>1. stack = <<>> /\ DOMAIN <<>> = {}
    BY <1>2 DEF StartSearch, Inv
  <2>2. Marked(<<>>, StartTags)
    BY <1>1, <2>1 DEF Marked, StartTags, OnPath, None
  <2>. QED  BY <1>2, <2>2, StartCalls, CalledMarks DEF Marked
<1>3. CASE Recurse
  <2>1. Marked(Resumed, tag)
    BY <1>3, RecurseCalls DEF Marked
  <2>. QED  BY <1>3, <2>1, RecurseCalls, CalledMarks DEF Marked
<1>4. CASE Return
  <2>1. /\ stack # <<>> /\ stack' = Front(stack)
        /\ tag' = [tag EXCEPT ![Top.receiver] = None] /\ Top = stack[Len(stack)]
    BY <1>4 DEF Return, Top
  <2>2. /\ DOMAIN stack = DOMAIN stack' \cup {Len(stack)}
        /\ \A i \in DOMAIN stack' : stack'[i] = stack[i]
    BY <1>1, <2>1, Popped
  <2>3. ASSUME NEW c \in Conn, tag'[c] = OnPath PROVE \E i \in DOMAIN stack' : stack'[i].receiver = c
    <3>1. c # Top.receiver /\ tag[c] = OnPath
      BY <1>1, <2>1, <2>3 DEF None, OnPath
    <3>2. PICK i \in DOMAIN stack : stack[i].receiver = c
      BY <3>1 DEF Marked
    <3>3. i # Len(stack)
      BY <2>1, <3>1, <3>2
    <3>. QED  BY <2>2, <3>2, <3>3
  <2>. QED  BY <2>3 DEF Marked
<1>5. CASE SearchEnds \/ Report \/ FreePath \/ UNCHANGED vars
  <2>1. UNCHANGED <<stack, tag>>
    BY <1>5 DEF SearchEnds, Report, FreePath, vars, search
  <2>. QED  BY <2>1 DEF Marked
<1>6. CASE AnalysisEnds
  <2>1. UNCHANGED stack /\ InputsReadied
    BY <1>6 DEF AnalysisEnds
  <2>2. \A c \in Conn : tag'[c] = tag[c] \/ tag'[c] = None
    BY <2>1 DEF InputsReadied
  <2>. QED  BY <2>1, <2>2 DEF Marked, None, OnPath
<1>. QED  BY <1>2, <1>3, <1>4, <1>5, <1>6 DEF Next

LEMMA WaysSame ==
  ASSUME UNCHANGED <<ckt, analysis>>
  PROVE  /\ \A c : Walk(c)' = Walk(c) /\ Way(c)' = Way(c)
         /\ minmax' = minmax
<1>1. minmax' = minmax
  BY DEF minmax
<1>2. Steps' = Steps
  BY StepsSame
<1>3. \A c : Walk(c)' = Walk(c)
  BY <1>2 DEF Walk
<1>4. \A c : Way(c)' = Way(c)
  BY <1>3 DEF Way
<1>. QED  BY <1>1, <1>3, <1>4

LEMMA SamePrimed ==
  ASSUME UNCHANGED <<ckt, analysis>>, NEW w
  PROVE  /\ Pending(w, stack, bt)' <=> Pending(w, stack', bt')
         /\ Covered(w, bt, ToSet(delaylist))' <=> Covered(w, bt', ToSet(delaylist'))
         /\ Covered(w, bt, ToSet(masterlist))' <=> Covered(w, bt', ToSet(masterlist'))
<1>1. minmax' = minmax
  BY WaysSame
<1>2. Pending(w, stack, bt)' <=> Pending(w, stack', bt')
  BY DEF Pending, Along
<1>3. Covered(w, bt, ToSet(delaylist))' <=> Covered(w, bt', ToSet(delaylist'))
  BY <1>1 DEF Covered, Covers, Wired, Worse
<1>4. Covered(w, bt, ToSet(masterlist))' <=> Covered(w, bt', ToSet(masterlist'))
  BY <1>1 DEF Covered, Covers, Wired, Worse
<1>. QED  BY <1>2, <1>3, <1>4

\* Each way is still to be followed, or its end is listed with one as bad.
ExhaustiveInv ==
  exhaustive /\ pc = "search" =>
    \A w \in Way(Head(todo)) : Pending(w, stack, bt) \/ Covered(w, bt, ToSet(delaylist))

\* What a path that stays listed says stays.
LEMMA ListedSame ==
  ASSUME RealInv, Inv', Agree(bt, bt'), UNCHANGED <<ckt, analysis>>, NEW p \in Paths \cap Paths'
  PROVE  /\ Source(bt', p) = Source(bt, p) /\ Sink(bt', p) = Sink(bt, p)
         /\ bt'[p[1]].delay = bt[p[1]].delay
<1>1. Source(bt', p) = Source(bt, p) /\ Sink(bt', p) = Sink(bt, p)
  BY SayTheSame
<1>2. p \in Seq(Number) /\ Len(p) > 1
  BY PathsListed DEF RealInv, AllReal, Real
<1>3. 1 \in DOMAIN p
  BY <1>2, LenProperties
<1>4. p[1] \in ToSet(p)
  BY <1>3 DEF ToSet
<1>5. p[1] \in DOMAIN bt \cap DOMAIN bt'
  BY <1>4 DEF RealInv, Inv, Kept, Counted, Paths
<1>. QED  BY <1>1, <1>5 DEF Agree

LEMMA CalledKeepsExhaustive ==
  ASSUME NEW call, NEW s, NEW tg, NEW mt, Calling(call, s, tg, mt),
         find_path_delay(call, s, tg, mt),
         UNCHANGED <<ckt, exhaustive, analysis, todo, masterlist>>,
         MadeFrom(call, s, Steps, Head(todo)), Going(s, bt, delaylist, masterlist, Head(todo)),
         Marked(s, tg),
         exhaustive => \A w \in Way(Head(todo)) :
           Now(w, s, bt, call) \/ Pending(w, s, bt) \/ Covered(w, bt, ToSet(delaylist))
  PROVE  ExhaustiveInv'
<1>1. ASSUME exhaustive, NEW w \in Way(Head(todo))
      PROVE  Pending(w, stack, bt)' \/ Covered(w, bt, ToSet(delaylist))'
  <2>1. Pending(w, stack', bt') \/ Covered(w, bt', ToSet(delaylist'))
    BY <1>1, CalledFinds
  <2>. QED  BY <2>1, SamePrimed
<1>2. Way(Head(todo))' = Way(Head(todo))
  <2>1. \A c : Way(c)' = Way(c)
    BY WaysSame
  <2>. QED  BY <2>1
<1>. QED  BY <1>1, <1>2 DEF ExhaustiveInv

LEMMA ExhaustiveKept ==
  ASSUME RealInv, RealInv', Marked(stack, tag), ExhaustiveInv, [Next]_vars
  PROVE  ExhaustiveInv'
<1>1. Inv /\ stack \in Seq(Frame) /\ Inv'
  BY DEF RealInv, Inv, TypeOK, Typed
<1>2. CASE StartSearch
  <2>. DEFINE call == FirstCall(Head(todo))
  <2>1. /\ UNCHANGED <<ckt, exhaustive, analysis, todo, masterlist>>
        /\ stack = <<>> /\ DOMAIN <<>> = {} /\ Len(<<>>) = 0
    BY <1>1, <1>2 DEF StartSearch, Inv
  <2>2. Marked(<<>>, StartTags)
    <3>1. tag \in [Conn -> Nat \cup {OnPath}]
      BY <1>1 DEF Inv, TypeOK, Typed
    <3>. QED  BY <2>1, <3>1 DEF Marked, StartTags, OnPath, None
  <2>3. \A w \in Way(Head(todo)) : Now(w, <<>>, bt, call)
    <3>1. ASSUME NEW w \in Way(Head(todo)) PROVE 0 < Len(w) /\ w[1] = call
      BY LenProperties DEF Way, Walk
    <3>. QED  BY <2>1, <3>1 DEF Now, Along
  <2>. HIDE DEF call
  <2>. QED  BY <1>1, <1>2, <2>1, <2>2, <2>3, StartCalls, StartGoes, CalledKeepsExhaustive DEF call
<1>3. CASE Recurse
  <2>. DEFINE call == Head(Top.calls)
              l == Len(stack)
  <2>1. /\ UNCHANGED <<ckt, exhaustive, analysis, todo, masterlist>> /\ pc = "search"
        /\ stack # <<>> /\ Top.calls # <<>>
    BY <1>3 DEF Recurse
  <2>2. /\ Calling(call, Resumed, tag, metric) /\ find_path_delay(call, Resumed, tag, metric)
        /\ Len(Resumed) = l /\ DOMAIN Resumed = DOMAIN stack
        /\ \A i \in DOMAIN stack :
             /\ Resumed[i].receiver = stack[i].receiver /\ Resumed[i].node = stack[i].node
             /\ Resumed[i].calls = IF i = l THEN Tail(stack[i].calls) ELSE stack[i].calls
    BY <1>1, <1>3, RecurseCalls
  <2>3. Marked(Resumed, tag)
    BY <2>2 DEF Marked
  <2>4. l \in DOMAIN stack /\ DOMAIN stack = 1..l /\ l \in Nat /\ Top = stack[l] /\ Top \in Frame
    BY <1>1, <2>1, TopCall
  <2>5. ToSet(Top.calls) = {call} \cup ToSet(Tail(Top.calls))
    <3>1. Top.calls \in Seq(Call)
      BY <2>4 DEF Frame
    <3>. QED  BY <2>1, <3>1, HeadAndTail
  <2>. HIDE DEF call, l
  <2>6. ASSUME NEW w, Pending(w, stack, bt) PROVE Now(w, Resumed, bt, call) \/ Pending(w, Resumed, bt)
    <3>1. PICK i \in DOMAIN stack : Along(w, stack, bt, i) /\ w[i + 1] \in ToSet(stack[i].calls)
      BY <2>6 DEF Pending
    <3>2. \A j \in 1..i : j \in DOMAIN stack
      BY <2>4
    <3>3. Along(w, Resumed, bt, i)
      BY <2>2, <3>1, <3>2 DEF Along
    <3>4. CASE i = l /\ w[i + 1] = call
      BY <2>2, <3>3, <3>4 DEF Now
    <3>5. CASE i = l /\ w[i + 1] # call
      <4>1. w[i + 1] \in ToSet(Resumed[i].calls)
        BY <2>2, <2>4, <2>5, <3>1, <3>5
      <4>. QED  BY <2>2, <3>3, <4>1 DEF Pending
    <3>6. CASE i # l
      <4>1. Resumed[i].calls = stack[i].calls
        BY <2>2, <3>6
      <4>. QED  BY <2>2, <3>1, <3>3, <4>1 DEF Pending
    <3>. QED  BY <3>4, <3>5, <3>6
  <2>7. exhaustive => \A w \in Way(Head(todo)) :
          Now(w, Resumed, bt, call) \/ Pending(w, Resumed, bt) \/ Covered(w, bt, ToSet(delaylist))
    BY <2>1, <2>6 DEF ExhaustiveInv
  <2>. QED  BY <1>3, <2>1, <2>2, <2>3, <2>7, RecurseGoes, CalledKeepsExhaustive DEF call
<1>4. CASE Return
  <2>1. /\ UNCHANGED <<ckt, exhaustive, analysis, todo, pc, delaylist, masterlist>>
        /\ bt' = Release(bt, <<Top.node>>) /\ stack' = Front(stack)
        /\ stack # <<>> /\ Table(bt) /\ Top = stack[Len(stack)] /\ Top.calls = <<>>
        /\ NodesOf(stack) \subseteq DOMAIN bt /\ NodesOf(stack') \subseteq DOMAIN bt'
    BY <1>4 DEF Return, RealInv, Inv, TypeOK, Typed, Kept, Counted, Top
  <2>2. Agree(bt, bt')
    BY <2>1, CountsAgree
  <2>3. /\ DOMAIN stack = DOMAIN stack' \cup {Len(stack)}
        /\ \A i \in DOMAIN stack' : stack'[i] = stack[i]
    BY <1>1, <2>1, Popped
  <2>4. /\ DOMAIN stack' = 1..Len(stack') /\ Len(stack') \in Nat
    <3>1. stack' \in Seq(Frame)
      BY <1>1, <2>1, Popped
    <3>. QED  BY <3>1, LenProperties
  <2>5. ASSUME NEW w, Pending(w, stack, bt) PROVE Pending(w, stack', bt')
    <3>1. PICK i \in DOMAIN stack : Along(w, stack, bt, i) /\ w[i + 1] \in ToSet(stack[i].calls)
      BY <2>5 DEF Pending
    <3>2. i # Len(stack)
      BY <2>1, <3>1 DEF ToSet
    <3>3. i \in DOMAIN stack' /\ \A j \in 1..i : j \in DOMAIN stack'
      <4>1. i \in 1..Len(stack')
        BY <2>3, <2>4, <3>2
      <4>. QED  BY <2>4, <4>1
    <3>4. ASSUME NEW j \in DOMAIN stack'
          PROVE  CallAt(bt', ckt.icDelay, stack'[j].node) = CallAt(bt, ckt.icDelay, stack[j].node)
      <4>1. stack'[j].node \in DOMAIN bt \cap DOMAIN bt' /\ stack'[j] = stack[j]
        BY <2>1, <2>3 DEF NodesOf
      <4>. QED  BY <2>2, <4>1, SameCall
    <3>5. Along(w, stack', bt', i)
      BY <3>1, <3>3, <3>4 DEF Along
    <3>. QED  BY <2>3, <3>1, <3>3, <3>5 DEF Pending
  <2>6. ASSUME NEW w, Covered(w, bt, ToSet(delaylist)) PROVE Covered(w, bt', ToSet(delaylist'))
    <3>. SUFFICES ASSUME ~Wired(w[Len(w)].receiver) PROVE Covered(w, bt', ToSet(delaylist'))
      BY DEF Covered
    <3>1. PICK p \in ToSet(delaylist) : Covers(p, bt, w)
      BY <2>6 DEF Covered
    <3>2. /\ Source(bt', p) = Source(bt, p) /\ Sink(bt', p) = Sink(bt, p)
          /\ bt'[p[1]].delay = bt[p[1]].delay
      <4>1. p \in Paths \cap Paths'
        BY <2>1 DEF Paths
      <4>. QED  BY <1>1, <2>1, <2>2, <4>1, ListedSame
    <3>. QED  BY <2>1, <3>1, <3>2 DEF Covered, Covers
  <2>7. Way(Head(todo))' = Way(Head(todo))
    <3>1. \A c : Way(c)' = Way(c)
      BY <2>1, WaysSame
    <3>. QED  BY <2>1, <3>1
  <2>8. ASSUME exhaustive, pc = "search", NEW w \in Way(Head(todo))
        PROVE  Pending(w, stack, bt)' \/ Covered(w, bt, ToSet(delaylist))'
    <3>1. Pending(w, stack, bt) \/ Covered(w, bt, ToSet(delaylist))
      BY <2>8 DEF ExhaustiveInv
    <3>. QED  BY <2>1, <2>5, <2>6, <3>1, SamePrimed
  <2>. QED  BY <2>1, <2>7, <2>8 DEF ExhaustiveInv
<1>5. CASE SearchEnds \/ Report \/ FreePath \/ AnalysisEnds
  BY <1>5 DEF SearchEnds, Report, FreePath, AnalysisEnds, ExhaustiveInv
<1>6. CASE UNCHANGED vars
  <2>1. UNCHANGED <<ckt, exhaustive, analysis, todo, pc, stack, bt, delaylist>>
    BY <1>6 DEF vars, search
  <2>2. Way(Head(todo))' = Way(Head(todo))
    <3>1. \A c : Way(c)' = Way(c)
      BY <2>1, WaysSame
    <3>. QED  BY <2>1, <3>1
  <2>5. ASSUME exhaustive, pc = "search", NEW w \in Way(Head(todo))
        PROVE  Pending(w, stack, bt)' \/ Covered(w, bt, ToSet(delaylist))'
    <3>1. Pending(w, stack, bt) \/ Covered(w, bt, ToSet(delaylist))
      BY <2>5 DEF ExhaustiveInv
    <3>2. stack' = stack /\ bt' = bt /\ ToSet(delaylist') = ToSet(delaylist)
      BY <2>1
    <3>3. Pending(w, stack', bt') \/ Covered(w, bt', ToSet(delaylist'))
      BY <3>1, <3>2
    <3>. QED  BY <2>1, <3>3, SamePrimed
  <2>. QED  BY <2>1, <2>2, <2>5 DEF ExhaustiveInv
<1>. QED  BY <1>2, <1>3, <1>4, <1>5, <1>6 DEF Next

-----------------------------------------------------------------------------
(* Walks, as the calls in progress follow them.                              *)
WalkOf(s, b) == [i \in 1..Len(s) |-> CallAt(b, ckt.icDelay, s[i].node)]

LEMMA CallTyped ==
  ASSUME ckt \in Circuits, NEW b, Table(b), NEW n \in DOMAIN b
  PROVE  CallAt(b, ckt.icDelay, n) \in AnyCall
<1>1. b[n] \in Node
  BY DEF Table
<1>2. ckt.icDelay[b[n].receiver] \in Int
  BY <1>1, CircuitType DEF Node
<1>. QED  BY <1>1, <1>2 DEF CallAt, AnyCall, Node

\* The calls in progress are a walk that has not ended.
LEMMA CallsWalk ==
  ASSUME ckt \in Circuits, NEW s \in Seq(Frame), s # <<>>, NEW b, Table(b), NodesOf(s) \subseteq DOMAIN b,
         NEW c, Leads(s, b, ckt.icDelay, Steps, c),
         \A i, j \in DOMAIN s : i # j => s[i].receiver # s[j].receiver
  PROVE  /\ WalkOf(s, b) \in Walk(c) /\ Len(WalkOf(s, b)) = Len(s)
         /\ \A i \in 1..Len(s) : /\ WalkOf(s, b)[i] = CallAt(b, ckt.icDelay, s[i].node)
                                 /\ WalkOf(s, b)[i].receiver = s[i].receiver
                                 /\ WalkOf(s, b)[i].delay = s[i].delay
<1>. DEFINE w == WalkOf(s, b)
<1>1. DOMAIN s = 1..Len(s) /\ Len(s) \in Nat \ {0}
  BY EmptySeq, LenProperties
<1>2. \A i \in 1..Len(s) : w[i] = CallAt(b, ckt.icDelay, s[i].node)
  BY DEF WalkOf
<1>3. ASSUME NEW i \in 1..Len(s) PROVE CallAt(b, ckt.icDelay, s[i].node) \in AnyCall
  <2>1. s[i].node \in DOMAIN b
    BY <1>1 DEF NodesOf
  <2>. QED  BY <2>1, CallTyped
<1>4. w \in Seq(AnyCall) /\ Len(w) = Len(s) /\ DOMAIN w = 1..Len(s)
  BY <1>1, <1>3 DEF WalkOf
<1>. HIDE DEF w
<1>5. \A i \in 1..Len(s) : w[i].receiver = s[i].receiver /\ w[i].delay = s[i].delay
  <2>1. \A i \in 1..Len(s) : CallAt(b, ckt.icDelay, s[i].node).receiver = s[i].receiver
    BY <1>1 DEF Leads, CallAt
  <2>2. \A i \in 1..Len(s) : CallAt(b, ckt.icDelay, s[i].node).delay = s[i].delay
    BY <1>1 DEF Leads
  <2>. QED  BY <1>2, <2>1, <2>2
<1>6. w # <<>> /\ w[1] = FirstCall(c)
  <2>1. 1 \in 1..Len(s)
    BY <1>1
  <2>2. w # <<>>
    BY <1>1, <1>4, EmptySeq
  <2>. QED  BY <1>2, <2>1, <2>2 DEF Leads
<1>7. ASSUME NEW i \in 1..(Len(w) - 1) PROVE <<w[i], w[i + 1]>> \in Steps
  <2>1. i \in 1..Len(s) /\ i + 1 \in 1..Len(s) /\ i + 1 # 1 /\ (i + 1) - 1 = i
    BY <1>1, <1>4
  <2>2. <<CallAt(b, ckt.icDelay, s[(i + 1) - 1].node), CallAt(b, ckt.icDelay, s[i + 1].node)>> \in Steps
    BY <1>1, <2>1 DEF Leads
  <2>. QED  BY <1>2, <2>1, <2>2
<1>8. ASSUME NEW i \in 2..(Len(w) - 1) PROVE w[i].receiver \notin EndPin
  <2>1. i \in 1..Len(s) /\ i # 1
    BY <1>1, <1>4
  <2>. QED  BY <1>1, <1>5, <2>1 DEF Leads
<1>9. \A i, j \in DOMAIN w : i # j => w[i].receiver # w[j].receiver
  BY <1>1, <1>4, <1>5
<1>10. w \in Walk(c)
  BY <1>4, <1>6, <1>7, <1>8, <1>9 DEF Walk
<1>. QED  BY <1>2, <1>4, <1>5, <1>10 DEF w

\* A step that closes no loop makes a walk longer.
LEMMA WalkOn ==
  ASSUME NEW c, NEW w \in Walk(c), Len(w) = 1 \/ w[Len(w)].receiver \notin EndPin,
         NEW call, <<w[Len(w)], call>> \in Steps, \A i \in 1..Len(w) : w[i].receiver # call.receiver
  PROVE  Append(w, call) \in Walk(c)
<1>. DEFINE n == Len(w)
            v == Append(w, call)
<1>1. /\ w \in Seq(AnyCall) /\ w # <<>> /\ w[1] = FirstCall(c)
      /\ \A i \in 1..(n - 1) : <<w[i], w[i + 1]>> \in Steps
      /\ \A i \in 2..(n - 1) : w[i].receiver \notin EndPin
      /\ \A i, j \in DOMAIN w : i # j => w[i].receiver # w[j].receiver
  BY DEF Walk
<1>2. call \in AnyCall
  BY DEF Steps
<1>3. /\ v \in Seq(AnyCall) /\ Len(v) = n + 1 /\ v[n + 1] = call /\ \A i \in 1..n : v[i] = w[i]
      /\ n \in Nat \ {0}
  BY <1>1, <1>2, AppendProperties, EmptySeq, LenProperties
<1>4. DOMAIN v = 1..(n + 1) /\ DOMAIN w = 1..n
  BY <1>1, <1>3, LenProperties
<1>. HIDE DEF v
<1>5. <<w[n], call>> \in Steps /\ (n = 1 \/ w[n].receiver \notin EndPin)
      /\ \A i \in 1..n : w[i].receiver # call.receiver
  OBVIOUS
<1>. HIDE DEF n
<1>6. v # <<>> /\ v[1] = FirstCall(c)
  BY <1>1, <1>3, EmptySeq
<1>7. ASSUME NEW i \in 1..(Len(v) - 1) PROVE <<v[i], v[i + 1]>> \in Steps
  <2>1. i = n \/ (i \in 1..(n - 1) /\ i + 1 \in 1..n)
    BY <1>3
  <2>2. i \in 1..n
    BY <1>3
  <2>. QED  BY <1>1, <1>3, <1>5, <2>1, <2>2
<1>8. ASSUME NEW i \in 2..(Len(v) - 1) PROVE v[i].receiver \notin EndPin
  <2>1. i \in 1..n /\ ((i = n /\ n # 1) \/ i \in 2..(n - 1))
    BY <1>3
  <2>. QED  BY <1>1, <1>3, <1>5, <2>1
<1>9. ASSUME NEW i \in DOMAIN v, NEW j \in DOMAIN v, i # j PROVE v[i].receiver # v[j].receiver
  <2>1. (i \in 1..n \/ i = n + 1) /\ (j \in 1..n \/ j = n + 1)
    BY <1>3, <1>4
  <2>. QED  BY <1>1, <1>3, <1>4, <1>5, <1>9, <2>1
<1>. QED  BY <1>3, <1>6, <1>7, <1>8, <1>9 DEF Walk, v

LEMMA FirstWalk ==
  ASSUME NEW c, FirstCall(c) \in AnyCall
  PROVE  <<FirstCall(c)>> \in Walk(c)
<1>. DEFINE w == <<FirstCall(c)>>
<1>1. w \in Seq(AnyCall) /\ w # <<>> /\ Len(w) = 1 /\ DOMAIN w = {1} /\ w[1] = FirstCall(c)
  OBVIOUS
<1>. HIDE DEF w
<1>. QED  BY <1>1 DEF Walk, w

\* So a call that closes no loop is the last of a walk.
LEMMA CalledWalk ==
  ASSUME NEW call, NEW s, NEW tg, NEW mt, Calling(call, s, tg, mt), ~Looped(call, tg),
         NEW c, MadeFrom(call, s, Steps, c), Going(s, bt, delaylist, masterlist, c)
  PROVE  \E w \in Walk(c) : Len(w) = Len(s) + 1 /\ w[Len(w)] = call
<1>1. /\ ckt \in Circuits /\ s \in Seq(Frame) /\ Table(bt) /\ NodesOf(s) \subseteq DOMAIN bt
      /\ Leads(s, bt, ckt.icDelay, Steps, c) /\ call \in AnyCall
      /\ \A i, j \in DOMAIN s : i # j => s[i].receiver # s[j].receiver
      /\ \A i \in DOMAIN s : s[i].receiver # call.receiver
  BY CallShape DEF Calling, Kept, Typed, Counted, Going, Following, Looped
<1>2. CASE s = <<>>
  <2>1. call = FirstCall(c)
    BY <1>2 DEF MadeFrom
  <2>2. <<call>> \in Walk(c)
    BY <1>1, <2>1, FirstWalk
  <2>. QED  BY <1>2, <2>2
<1>3. CASE s # <<>>
  <2>. DEFINE w == WalkOf(s, bt)
              n == Len(s)
  <2>1. /\ w \in Walk(c) /\ Len(w) = n
        /\ \A i \in 1..n : w[i] = CallAt(bt, ckt.icDelay, s[i].node) /\ w[i].receiver = s[i].receiver
    BY <1>1, <1>3, CallsWalk
  <2>2. n \in Nat \ {0} /\ DOMAIN s = 1..n
    BY <1>1, <1>3, EmptySeq, LenProperties
  <2>3. <<CallAt(bt, ckt.icDelay, s[n].node), call>> \in Steps
    BY <1>3 DEF MadeFrom
  <2>. HIDE DEF w, n
  <2>4. n \in 1..n
    BY <2>2
  <2>5. n = 1 \/ s[n].receiver \notin EndPin
    BY <1>1, <2>2, <2>4 DEF Leads
  <2>6. Append(w, call) \in Walk(c)
    BY <1>1, <2>1, <2>2, <2>3, <2>4, <2>5, WalkOn
  <2>7. w \in Seq(AnyCall)
    BY <2>1 DEF Walk
  <2>8. Len(Append(w, call)) = n + 1 /\ Append(w, call)[n + 1] = call
    BY <1>1, <2>1, <2>7, AppendProperties
  <2>. QED  BY <2>6, <2>8 DEF n
<1>. QED  BY <1>2, <1>3

-----------------------------------------------------------------------------
(* Without -e, calls are pruned by the metrics.  No first call is, as long as *)
(* every delay is worse than the metrics that an analysis begins with.        *)
InRange == \A c \in ToSet(Points) : \A w \in Walk(c) : \A i \in 1..Len(w) :
             w[i].delay \in 0..(Infinite - 1)

Receives(x) == ToSet(ckt.receivers[LoadNet(x)])

\* The search from c has come to y, or is about to.
Seen(y, s, tg, mt, c) ==
  \/ y = c
  \/ \E i \in DOMAIN s : s[i].receiver = y
  \/ IF y \in EndPin THEN tg[y] \notin {None, OnPath} ELSE mt[y] # NoMetric(minmax)
ToBeCalled(y, calls) == \E k \in ToSet(calls) : k.receiver = y

\* The search goes everywhere from where it has been.
Reaching(s, tg, mt, c) ==
  /\ \A x \in ToSet(Receiver) \ EndPin : mt[x] # NoMetric(minmax) =>
       \A y \in Receives(x) : Seen(y, s, tg, mt, c)
  /\ \A x \in EndPin \ {c} : mt[x] # NoMetric(minmax) => tg[x] \notin {None, OnPath}
GoingOn(s, tg, mt, c) ==
  \A i \in DOMAIN s : \A y \in Receives(s[i].receiver) :
    Seen(y, s, tg, mt, c) \/ ToBeCalled(y, s[i].calls)

LEMMA InfiniteIsInt == Infinite \in Int /\ Infinite > 0
BY SMT DEF Infinite

LEMMA Unvisited ==
  ASSUME NEW d \in 0..(Infinite - 1)
  PROVE  Worse(d, NoMetric(minmax)) /\ d # NoMetric(minmax)
<1>1. d \in Int /\ d > -1 /\ d < Infinite /\ Infinite \in Int
  BY InfiniteIsInt
<1>2. d # -1 /\ d # Infinite
  BY <1>1
<1>. QED  BY <1>1, <1>2 DEF Worse, NoMetric

\* A call that closes no loop is within the range.
LEMMA CalledInRange ==
  ASSUME NEW call, NEW s, NEW tg, NEW mt, Calling(call, s, tg, mt), ~Looped(call, tg),
         NEW c \in ToSet(Points), MadeFrom(call, s, Steps, c), Going(s, bt, delaylist, masterlist, c),
         InRange
  PROVE  call.delay \in 0..(Infinite - 1)
<1>1. PICK w \in Walk(c) : Len(w) = Len(s) + 1 /\ w[Len(w)] = call
  BY CalledWalk
<1>2. Len(w) \in 1..Len(w)
  <2>1. w \in Seq(AnyCall) /\ w # <<>>
    BY DEF Walk
  <2>2. Len(w) \in Nat \ {0}
    BY <2>1, EmptySeq, LenProperties
  <2>. QED  BY <2>2
<1>. QED  BY <1>1, <1>2 DEF InRange

\* After a call, its connection has been seen.
LEMMA CalledSeen ==
  ASSUME NEW call, NEW s, NEW tg, NEW mt, Calling(call, s, tg, mt),
         find_path_delay(call, s, tg, mt), UNCHANGED masterlist,
         NEW c \in ToSet(Points), MadeFrom(call, s, Steps, c), Going(s, bt, delaylist, masterlist, c),
         Marked(s, tg), InRange, Reaching(s, tg, mt, c)
  PROVE  Seen(call.receiver, stack', tag', metric', c)
<1>. DEFINE x == call.receiver
<1>1. /\ x \in Conn /\ call.delay \in Int /\ tg \in [Conn -> Nat \cup {OnPath}]
      /\ delaylist \in Seq(Seq(Number))
  BY CallTypes DEF Calling, Kept, Typed
<1>. HIDE DEF x
<1>2. CASE Looped(call, tg)
  <2>1. PICK i \in DOMAIN s : s[i].receiver = x
    BY <1>1, <1>2 DEF Marked, Looped, x
  <2>2. i \in DOMAIN stack' /\ stack'[i] = s[i]
    BY <2>1, CallsStay
  <2>. QED  BY <2>1, <2>2 DEF Seen, x
<1>3. CASE ~Looped(call, tg) /\ Pruned(call, mt)
  <2>1. call.delay \in 0..(Infinite - 1)
    BY <1>3, CalledInRange
  <2>2. mt[x] # NoMetric(minmax)
    BY <1>3, <2>1, Unvisited DEF Pruned, x
  <2>3. tag' = tg /\ metric' = mt
    BY <1>3 DEF find_path_delay, CutShort
  <2>4. x \in EndPin => x = c \/ tg[x] \notin {None, OnPath}
    BY <2>2 DEF Reaching
  <2>. QED  BY <2>2, <2>3, <2>4 DEF Seen, x
<1>4. CASE ~Looped(call, tg) /\ PassThrough(call, s, tg, mt)
  <2>1. Len(s) + 1 \in DOMAIN stack' /\ stack'[Len(s) + 1].receiver = x
    BY <1>4, CallPassed DEF x
  <2>. QED  BY <2>1 DEF Seen, x
<1>5. CASE ~Looped(call, tg) /\ PathEnds(call, s, tg, mt)
  <2>1. x \in EndPin
    BY <1>5, CallTypes DEF PathEnds, Ends, EndPin, x
  <2>2. tag'[x] \notin {None, OnPath}
    <3>1. CASE RecordPath(call, s, tg)
      <4>1. tag'[x] = Len(delaylist) + 1
        BY <1>1, <3>1 DEF RecordPath, x
      <4>2. Len(delaylist) \in Nat
        BY <1>1, LenProperties
      <4>. QED  BY <4>1, <4>2 DEF None, OnPath
    <3>2. CASE ReplacePath(call, s, tg) \/ KeepPath(call, tg)
      BY <3>2 DEF ReplacePath, KeepPath, x
    <3>. QED  BY <1>5, <3>1, <3>2 DEF PathEnds
  <2>. QED  BY <2>1, <2>2 DEF Seen, x
<1>. QED  BY <1>2, <1>3, <1>4, <1>5 DEF find_path_delay, CutShort

\* What was seen stays seen, and what was visited before is what is after.
LEMMA SeenStays ==
  ASSUME NEW call, NEW s, NEW tg, NEW mt, Calling(call, s, tg, mt),
         find_path_delay(call, s, tg, mt), UNCHANGED masterlist,
         NEW c, MadeFrom(call, s, Steps, c), Going(s, bt, delaylist, masterlist, c)
  PROVE  /\ \A y \in Conn : Seen(y, s, tg, mt, c) => Seen(y, stack', tag', metric', c)
         /\ \A y \in ToSet(Receiver) \ EndPin : metric'[y] = mt[y]
         /\ \A y \in EndPin \ {c} : \/ metric'[y] = mt[y] /\ tag'[y] = tg[y]
                                    \/ tag'[y] \notin {None, OnPath}
         /\ \A y \in ToSet(InputPin) : metric'[y] = mt[y]
<1>. DEFINE x == call.receiver
<1>1. /\ x \in Conn /\ call.delay \in Int /\ tg \in [Conn -> Nat \cup {OnPath}]
      /\ mt \in [Conn -> Int] /\ delaylist \in Seq(Seq(Number))
  BY CallTypes DEF Calling, Kept, Typed
<1>2. \A i \in DOMAIN s : i \in DOMAIN stack' /\ stack'[i] = s[i]
  BY CallsStay
<1>. HIDE DEF x
<1>3. ASSUME \A y \in Conn \ {x} : tag'[y] = tg[y] /\ metric'[y] = mt[y],
             Seen(x, s, tg, mt, c) => Seen(x, stack', tag', metric', c),
             x \notin EndPin \/ x \in ToSet(InputPin) => metric'[x] = mt[x],
             x \in EndPin \ {c} => \/ metric'[x] = mt[x] /\ tag'[x] = tg[x]
                                   \/ tag'[x] \notin {None, OnPath}
      PROVE  /\ \A y \in Conn : Seen(y, s, tg, mt, c) => Seen(y, stack', tag', metric', c)
             /\ \A y \in ToSet(Receiver) \ EndPin : metric'[y] = mt[y]
             /\ \A y \in EndPin \ {c} : \/ metric'[y] = mt[y] /\ tag'[y] = tg[y]
                                        \/ tag'[y] \notin {None, OnPath}
             /\ \A y \in ToSet(InputPin) : metric'[y] = mt[y]
  <2>1. ToSet(Receiver) \subseteq Conn /\ EndPin \subseteq Conn /\ ToSet(InputPin) \subseteq Conn
    BY Pins DEF Conn
  <2>2. \A y \in Conn : Seen(y, s, tg, mt, c) => Seen(y, stack', tag', metric', c)
    BY <1>2, <1>3 DEF Seen
  <2>. QED  BY <1>3, <2>1, <2>2
<1>4. CASE CutShort(call, s, tg, mt)
  BY <1>4 DEF CutShort
<1>5. CASE PassThrough(call, s, tg, mt)
  <2>1. metric' = mt /\ tag' = [tg EXCEPT ![x] = OnPath]
    BY <1>5 DEF PassThrough, x
  <2>2. Len(s) + 1 \in DOMAIN stack' /\ stack'[Len(s) + 1].receiver = x
    BY <1>5, CallPassed DEF x
  <2>3. Seen(x, stack', tag', metric', c)
    BY <2>2 DEF Seen
  <2>4. x \notin EndPin \/ x = c
    <3>1. CASE s = <<>>
      BY <3>1 DEF MadeFrom, FirstCall, x
    <3>2. CASE s # <<>>
      BY <1>5, <3>2 DEF PassThrough, Ends, EndPin, x
    <3>. QED  BY <3>1, <3>2
  <2>. QED  BY <1>1, <1>3, <2>1, <2>3, <2>4
<1>6. CASE PathEnds(call, s, tg, mt)
  <2>1. x \in EndPin /\ metric' = [mt EXCEPT ![x] = call.delay]
    BY <1>6, CallTypes DEF PathEnds, Ends, EndPin, x
  <2>2. tag'[x] \notin {None, OnPath} /\ \A y \in Conn \ {x} : tag'[y] = tg[y]
    <3>1. CASE RecordPath(call, s, tg)
      <4>1. tag' = [tg EXCEPT ![x] = Len(delaylist) + 1]
        BY <3>1 DEF RecordPath, x
      <4>2. Len(delaylist) \in Nat
        BY <1>1, LenProperties
      <4>. QED  BY <1>1, <4>1, <4>2 DEF None, OnPath
    <3>2. CASE ReplacePath(call, s, tg) \/ KeepPath(call, tg)
      BY <3>2 DEF ReplacePath, KeepPath, x
    <3>. QED  BY <1>6, <3>1, <3>2 DEF PathEnds
  <2>3. Seen(x, stack', tag', metric', c)
    BY <2>1, <2>2 DEF Seen
  <2>. QED  BY <1>1, <1>3, <2>1, <2>2, <2>3, Pins
<1>. QED  BY <1>4, <1>5, <1>6 DEF find_path_delay

-----------------------------------------------------------------------------
\* A call goes on to every receiver of its net, and nowhere else.
LEMMA GoesEverywhere ==
  ASSUME ckt \in Circuits, NEW x \in Conn, x \in ToSet(InputPin) \/ HasPin(x),
         NEW dir \in Dir, NEW delay \in Int
  PROVE  /\ \A y \in Receives(x) : ToBeCalled(y, Onward(x, dir, delay))
         /\ \A k \in ToSet(Onward(x, dir, delay)) : k.receiver \in Receives(x)
<1>. DEFINE receivers == ckt.receivers[LoadNet(x)]
            edges == Edges(calc_dir(x, dir))
            n == Len(receivers)
            m == Len(edges)
            Made(k) == [receiver |-> receivers[((k - 1) \div m) + 1],
                        dir |-> edges[((k - 1) % m) + 1],
                        delay |-> delay + calc_prop_delay(x, edges[((k - 1) % m) + 1])]
<1>1. receivers \in Seq(ToSet(Receiver)) /\ n \in Nat /\ DOMAIN receivers = 1..n
  BY Pins, CircuitType, LenProperties
<1>2. m \in {1, 2}
  BY DirType, EdgesType
<1>3. Onward(x, dir, delay) = [k \in 1..(n * m) |-> Made(k)]
  BY DEF Onward
<1>4. Receives(x) = {receivers[i] : i \in 1..n}
  BY <1>1 DEF Receives, ToSet
<1>5. \A k : Made(k).receiver = receivers[((k - 1) \div m) + 1]
  OBVIOUS
<1>. HIDE DEF receivers, edges, Made, n, m
<1>6. ASSUME NEW i \in 1..n PROVE \E k \in 1..(n * m) : ((k - 1) \div m) + 1 = i
  <2>1. CASE m = 1
    <3>1. i \in 1..(n * m) /\ ((i - 1) \div m) + 1 = i
      BY <1>1, <2>1
    <3>. QED  BY <3>1
  <2>2. CASE m = 2
    <3>1. 2 * i \in 1..(n * m) /\ ((2 * i - 1) \div m) + 1 = i
      BY <1>1, <2>2
    <3>. QED  BY <3>1
  <2>. QED  BY <1>2, <2>1, <2>2
<1>7. ASSUME NEW k \in 1..(n * m) PROVE ((k - 1) \div m) + 1 \in 1..n
  <2>1. CASE m = 1
    BY <1>1, <2>1
  <2>2. CASE m = 2
    BY <1>1, <2>2
  <2>. QED  BY <1>2, <2>1, <2>2
<1>8. \A y \in Receives(x) : ToBeCalled(y, Onward(x, dir, delay))
  <2>1. ASSUME NEW i \in 1..n PROVE ToBeCalled(receivers[i], Onward(x, dir, delay))
    <3>1. PICK k \in 1..(n * m) : ((k - 1) \div m) + 1 = i
      BY <1>6
    <3>2. k \in DOMAIN Onward(x, dir, delay) /\ Onward(x, dir, delay)[k] = Made(k)
      BY <1>3
    <3>3. Made(k).receiver = receivers[i]
      BY <1>5, <3>1
    <3>. QED  BY <3>2, <3>3 DEF ToBeCalled, ToSet
  <2>. QED  BY <1>4, <2>1
<1>9. \A k \in ToSet(Onward(x, dir, delay)) : k.receiver \in Receives(x)
  <2>1. ASSUME NEW k \in 1..(n * m) PROVE Made(k).receiver \in Receives(x)
    BY <1>4, <1>5, <1>7
  <2>. QED  BY <1>3, <2>1 DEF ToSet
<1>. QED  BY <1>8, <1>9

LEMMA StepReceives ==
  ASSUME ckt \in Circuits, NEW k, NEW l, <<k, l>> \in Steps,
         k.receiver \in ToSet(InputPin) \/ HasPin(k.receiver)
  PROVE  l.receiver \in Receives(k.receiver) /\ l.receiver \in ToSet(Receiver)
<1>1. /\ k.receiver \in Conn /\ k.dir \in Dir /\ k.delay \in Int
      /\ l \in ToSet(Onward(k.receiver, k.dir, k.delay))
  BY DEF Steps, AnyCall
<1>2. Onward(k.receiver, k.dir, k.delay) \in Seq(Call)
  BY <1>1, OnwardType
<1>3. l \in Call
  BY <1>1, <1>2, ElementOfSeq, LenProperties DEF ToSet
<1>. QED  BY <1>1, <1>3, GoesEverywhere DEF Call

LEMMA GoesInside ==
  ASSUME ckt \in Circuits, NEW x \in Conn, x \in ToSet(InputPin) \/ HasPin(x)
  PROVE  Receives(x) \subseteq Conn
<1>1. ckt.receivers[LoadNet(x)] \in Seq(ToSet(Receiver))
  BY Pins, CircuitType
<1>. QED  BY <1>1, ElementOfSeq, LenProperties DEF Receives, ToSet, Conn

LEMMA FirstFrame ==
  ASSUME NEW s, NEW b, NEW ic, NEW c, Leads(s, b, ic, Steps, c), 1 \in DOMAIN s
  PROVE  s[1].receiver = c
<1>1. DOMAIN <<>> = {}
  OBVIOUS
<1>2. s # <<>>
  BY <1>1
<1>3. CallAt(b, ic, s[1].node) = FirstCall(c) /\ b[s[1].node].receiver = s[1].receiver
  BY <1>2 DEF Leads
<1>. QED  BY <1>3 DEF CallAt, FirstCall

\* A call, as far as what it makes the search reach.
LEMMA CalledReaches ==
  ASSUME NEW call, NEW s, NEW tg, NEW mt, Calling(call, s, tg, mt),
         find_path_delay(call, s, tg, mt), UNCHANGED masterlist,
         NEW c \in ToSet(Points), c \in Start,
         MadeFrom(call, s, Steps, c), Going(s, bt, delaylist, masterlist, c),
         Marked(s, tg), InRange, Reaching(s, tg, mt, c),
         \A i \in DOMAIN s : \A y \in Receives(s[i].receiver) :
           Seen(y, s, tg, mt, c) \/ ToBeCalled(y, s[i].calls) \/ y = call.receiver
  PROVE  Reaching(stack', tag', metric', c) /\ GoingOn(stack', tag', metric', c)
<1>1. /\ \A y \in Conn : Seen(y, s, tg, mt, c) => Seen(y, stack', tag', metric', c)
      /\ \A y \in ToSet(Receiver) \ EndPin : metric'[y] = mt[y]
      /\ \A y \in EndPin \ {c} : \/ metric'[y] = mt[y] /\ tag'[y] = tg[y]
                                 \/ tag'[y] \notin {None, OnPath}
  BY SeenStays
<1>2. Seen(call.receiver, stack', tag', metric', c)
  BY CalledSeen
<1>3. /\ ckt \in Circuits /\ s \in Seq(Frame)
      /\ \A x \in Conn : (x \in ToSet(InputPin) \/ HasPin(x)) => Receives(x) \subseteq Conn
  <2>1. ckt \in Circuits /\ s \in Seq(Frame)
    BY DEF Calling, Kept, Typed
  <2>. QED  BY <2>1, GoesInside
<1>4. \A x \in ToSet(Receiver) \ EndPin : x \in Conn /\ HasPin(x)
  BY DEF EndPin, Conn
<1>5. Reaching(stack', tag', metric', c)
  BY <1>1, <1>3, <1>4 DEF Reaching
<1>6. \A i \in DOMAIN s : /\ s[i].receiver \in Conn
                          /\ s[i].receiver \in ToSet(InputPin) \/ HasPin(s[i].receiver)
  <2>. SUFFICES ASSUME NEW i \in DOMAIN s
                PROVE  /\ s[i].receiver \in Conn
                       /\ s[i].receiver \in ToSet(InputPin) \/ HasPin(s[i].receiver)
    OBVIOUS
  <2>1. s[i] \in Frame
    BY <1>3, LenProperties, ElementOfSeq
  <2>2. i # 1 => s[i].receiver \in ToSet(Receiver) \ EndPin
    BY DEF Going, Leads
  <2>3. i = 1 => s[i].receiver = c
    BY FirstFrame DEF Going
  <2>. QED  BY <1>4, <2>1, <2>2, <2>3, Pins DEF Frame, Start, HasPin
<1>7. \A i \in DOMAIN s : Receives(s[i].receiver) \subseteq Conn
  BY <1>3, <1>6
<1>8. \A i \in DOMAIN s : i \in DOMAIN stack' /\ stack'[i] = s[i]
  BY CallsStay
<1>9. \A i \in DOMAIN s : \A y \in Receives(s[i].receiver) :
        Seen(y, stack', tag', metric', c) \/ ToBeCalled(y, stack'[i].calls)
  BY <1>1, <1>2, <1>7, <1>8
<1>10. CASE ~PassThrough(call, s, tg, mt)
  <2>1. stack' = s
    BY <1>10 DEF find_path_delay, CutShort, PathEnds
  <2>. QED  BY <1>5, <1>8, <1>9, <2>1 DEF GoingOn
<1>11. CASE PassThrough(call, s, tg, mt)
  <2>1. /\ DOMAIN stack' = DOMAIN s \cup {Len(s) + 1}
        /\ stack'[Len(s) + 1].receiver = call.receiver
        /\ stack'[Len(s) + 1].calls = Onward(call.receiver, call.dir, call.delay)
    BY <1>11, CallPassed
  <2>2. /\ call.receiver \in Conn /\ call.dir \in Dir /\ call.delay \in Int
        /\ call.receiver \in ToSet(InputPin) \/ HasPin(call.receiver)
    BY <1>11, CallTypes DEF PassThrough, Ends
  <2>3. \A y \in Receives(call.receiver) : ToBeCalled(y, stack'[Len(s) + 1].calls)
    BY <1>3, <2>1, <2>2, GoesEverywhere
  <2>. QED  BY <1>5, <1>8, <1>9, <2>1, <2>3 DEF GoingOn
<1>. QED  BY <1>10, <1>11

-----------------------------------------------------------------------------
(* What the search reaches, through each action.                             *)
ReachInv ==
  InRange /\ pc = "search" =>
    /\ Reaching(stack, tag, metric, Head(todo)) /\ GoingOn(stack, tag, metric, Head(todo))
    /\ stack = <<>> =>
         \A y \in Receives(Head(todo)) : Seen(y, stack, tag, metric, Head(todo))

\* No metric stops the first call of a search.
Fresh ==
  analysis <= 4 => \A c \in ToSet(todo) \cap ToSet(InputPin) :
    (pc = "search" => c # Head(todo)) => metric[c] = NoMetric(minmax)

\* From a starting point that is done, the end of each way is listed.
Reaches(c, w, b, paths) == \E p \in paths : Source(b, p) = c /\ Sink(b, p) = w[Len(w)].receiver
MasterReaches ==
  InRange /\ analysis <= 4 /\ pc # "free" =>
    \A c \in ToSet(Points) \ ToSet(todo) : \A w \in Way(c) : Reaches(c, w, bt, ToSet(masterlist))
EndsInv == RealInv /\ Marked(stack, tag) /\ ReachInv /\ Fresh /\ MasterReaches

LEMMA ReachSame ==
  ASSUME UNCHANGED <<ckt, analysis>>, NEW c
  PROVE  /\ Reaching(stack, tag, metric, c)' <=> Reaching(stack', tag', metric', c')
         /\ GoingOn(stack, tag, metric, c)' <=> GoingOn(stack', tag', metric', c')
         /\ \A y : Seen(y, stack, tag, metric, c)' <=> Seen(y, stack', tag', metric', c')
         /\ InRange' <=> InRange
         /\ \A y : Receives(y)' = Receives(y)
<1>1. minmax' = minmax /\ Points' = Points /\ \A d : Walk(d)' = Walk(d)
  BY WaysSame DEF Points
<1>2. \A y : Receives(y)' = Receives(y)
  BY DEF Receives, LoadNet
<1>3. \A y : Seen(y, stack, tag, metric, c)' <=> Seen(y, stack', tag', metric', c')
  BY <1>1 DEF Seen
<1>4. Reaching(stack, tag, metric, c)' <=> Reaching(stack', tag', metric', c')
  BY <1>1, <1>2, <1>3 DEF Reaching, Seen
<1>5. GoingOn(stack, tag, metric, c)' <=> GoingOn(stack', tag', metric', c')
  BY <1>1, <1>2, <1>3 DEF GoingOn, Seen
<1>6. InRange' <=> InRange
  BY <1>1 DEF InRange
<1>. QED  BY <1>2, <1>3, <1>4, <1>5, <1>6

\* The starting point of a search is one of the analysis.
LEMMA FromAPoint ==
  ASSUME RealInv, todo # <<>>
  PROVE  /\ Head(todo) \in ToSet(Points) /\ Head(todo) \in ToSet(todo) /\ Head(todo) \in Start
         /\ analysis \in 1..4 /\ Tail(todo) \in Seq(Start)
         /\ ToSet(Tail(todo)) = ToSet(todo) \ {Head(todo)}
<1>1. todo \in Seq(Start) /\ NoneTwice(todo) /\ analysis <= 4 /\ analysis \in 1..5
      /\ ToSet(todo) \subseteq ToSet(Points)
  BY DEF RealInv, Inv, TypeOK
<1>2. ToSet(Tail(todo)) = ToSet(todo) \ {Head(todo)} /\ Head(todo) \in ToSet(todo)
  BY <1>1, OneFewer
<1>3. Head(todo) \in Start /\ Tail(todo) \in Seq(Start)
  BY <1>1, HeadTailProperties
<1>. QED  BY <1>1, <1>2, <1>3

LEMMA FirstCallPasses ==
  ASSUME RealInv, Fresh, Marked(stack, tag), StartSearch
  PROVE  stack' # <<>>
<1>. DEFINE c == Head(todo)
            call == FirstCall(c)
<1>1. pc = "start" /\ todo # <<>> /\ c \in ToSet(todo) /\ c \in Start /\ analysis <= 4
      /\ metric \in [Conn -> Int] /\ tag \in [Conn -> Nat \cup {OnPath}]
      /\ stack = <<>>
  BY FromAPoint DEF StartSearch, RealInv, Inv, TypeOK, Typed
<1>2. Calling(call, <<>>, StartTags, StartMetrics)
      /\ find_path_delay(call, <<>>, StartTags, StartMetrics)
  BY StartCalls DEF RealInv
<1>3. c \in Conn /\ call.receiver = c /\ call.delay = 0
  BY <1>1, Pins DEF FirstCall
<1>4. StartMetrics[c] = NoMetric(minmax)
  <2>1. CASE c \in ToSet(Receiver)
    BY <1>3, <2>1 DEF StartMetrics
  <2>2. CASE c \notin ToSet(Receiver)
    <3>1. c \in ToSet(InputPin) /\ StartMetrics[c] = metric[c]
      BY <1>3, <2>2 DEF StartMetrics, Conn
    <3>. QED  BY <1>1, <3>1 DEF Fresh
  <2>. QED  BY <2>1, <2>2
<1>5. ~Pruned(call, StartMetrics)
  <2>1. 0 \in 0..(Infinite - 1)
    BY InfiniteIsInt
  <2>. QED  BY <1>3, <1>4, <2>1, Unvisited DEF Pruned
<1>. HIDE DEF call
<1>6. Len(stack') = 1 \/ CutShort(call, <<>>, StartTags, StartMetrics)
  <2>1. ~PathEnds(call, <<>>, StartTags, StartMetrics)
    BY DEF PathEnds, Ends
  <2>2. CASE PassThrough(call, <<>>, StartTags, StartMetrics)
    <3>1. Len(stack') = Len(<<>>) + 1
      BY <1>2, <2>2, CallPassed
    <3>. QED  BY <3>1
  <2>. QED  BY <1>2, <2>1, <2>2 DEF find_path_delay
<1>7. ~Looped(call, StartTags)
  <2>1. DOMAIN <<>> = {}
    OBVIOUS
  <2>2. StartTags[c] # OnPath
    BY <1>1, <1>3, <2>1 DEF StartTags, Marked, None, OnPath
  <2>. QED  BY <1>3, <2>2 DEF Looped
<1>8. Len(stack') = 1
  BY <1>5, <1>6, <1>7 DEF CutShort
<1>9. Len(<<>>) = 0
  OBVIOUS
<1>. QED  BY <1>8, <1>9

\* A call keeps the metrics of the inputs.
LEMMA CalledKeepsFresh ==
  ASSUME NEW call, NEW s, NEW tg, NEW mt, Calling(call, s, tg, mt),
         find_path_delay(call, s, tg, mt), UNCHANGED masterlist,
         NEW c, MadeFrom(call, s, Steps, c), Going(s, bt, delaylist, masterlist, c)
  PROVE  \A y \in ToSet(InputPin) : metric'[y] = mt[y]
BY SeenStays

LEMMA ClockPinsReceive == ToSet(ClockPin) \subseteq ToSet(Receiver)
<1>1. ToSet(ClockPin) \subseteq REGISTER_IN
  BY ConnectionsAssumption, LenProperties, ElementOfSeq DEF ToSet
<1>. QED  BY <1>1, ConnectionsAssumption

LEMMA FreshKept ==
  ASSUME RealInv, Fresh, [Next]_vars
  PROVE  Fresh'
<1>1. /\ Inv /\ metric \in [Conn -> Int] /\ ToSet(InputPin) \subseteq Conn
      /\ ToSet(InputPin) \cap ToSet(Receiver) = {}
  BY ConnectionsAssumption DEF RealInv, Inv, TypeOK, Typed, Conn
<1>2. CASE StartSearch
  <2>1. /\ UNCHANGED <<ckt, exhaustive, analysis, todo, masterlist>> /\ pc = "start"
    BY <1>2 DEF StartSearch
  <2>2. \A y \in ToSet(InputPin) : metric'[y] = StartMetrics[y]
    BY <1>1, <1>2, <2>1, StartCalls, StartGoes, CalledKeepsFresh
  <2>3. \A y \in ToSet(InputPin) : metric'[y] = metric[y]
    BY <1>1, <2>2 DEF StartMetrics
  <2>4. minmax' = minmax
    BY <2>1, WaysSame
  <2>. QED  BY <2>1, <2>3, <2>4 DEF Fresh
<1>3. CASE Recurse
  <2>1. UNCHANGED <<ckt, exhaustive, analysis, todo, masterlist, pc>>
    BY <1>3 DEF Recurse
  <2>2. /\ Calling(Head(Top.calls), Resumed, tag, metric)
        /\ find_path_delay(Head(Top.calls), Resumed, tag, metric)
    BY <1>1, <1>3, RecurseCalls
  <2>3. \A y \in ToSet(InputPin) : metric'[y] = metric[y]
    BY <1>3, <2>1, <2>2, RecurseGoes, CalledKeepsFresh
  <2>4. minmax' = minmax
    BY <2>1, WaysSame
  <2>. QED  BY <2>1, <2>3, <2>4 DEF Fresh
<1>4. CASE Return
  <2>1. /\ UNCHANGED <<ckt, exhaustive, analysis, todo, pc, masterlist>> /\ pc = "search"
        /\ metric' = [metric EXCEPT ![Top.receiver] = Top.delay]
        /\ stack # <<>> /\ stack \in Seq(Frame) /\ Leads(stack, bt, ckt.icDelay, Steps, Head(todo))
    BY <1>1, <1>4 DEF Return, RealInv, Inv, TypeOK, Typed
  <2>2. Top.receiver = Head(todo) \/ Top.receiver \in ToSet(Receiver)
    <3>1. Len(stack) \in DOMAIN stack /\ Top = stack[Len(stack)]
      BY <2>1, TopCall
    <3>2. CASE Len(stack) = 1
      BY <2>1, <3>1, <3>2, FirstFrame
    <3>3. CASE Len(stack) # 1
      BY <2>1, <3>1, <3>3 DEF Leads
    <3>. QED  BY <3>2, <3>3
  <2>3. \A y \in ToSet(InputPin) : y # Head(todo) => metric'[y] = metric[y]
    BY <1>1, <2>1, <2>2
  <2>4. minmax' = minmax
    BY <2>1, WaysSame
  <2>. QED  BY <2>1, <2>3, <2>4 DEF Fresh
<1>5. CASE SearchEnds
  <2>1. /\ UNCHANGED <<ckt, analysis, metric>> /\ todo' = Tail(todo) /\ pc = "search" /\ pc' = "start"
        /\ todo # <<>>
    BY <1>1, <1>5 DEF SearchEnds, Inv
  <2>2. ToSet(todo') = ToSet(todo) \ {Head(todo)}
    BY <2>1, FromAPoint
  <2>3. minmax' = minmax
    BY <2>1, WaysSame
  <2>. QED  BY <2>1, <2>2, <2>3 DEF Fresh
<1>6. CASE Report \/ FreePath
  <2>1. UNCHANGED <<ckt, analysis, todo, metric>> /\ pc' = "free" /\ pc # "search"
    BY <1>6 DEF Report, FreePath, search
  <2>2. minmax' = minmax
    BY <2>1, WaysSame
  <2>. QED  BY <2>1, <2>2 DEF Fresh
<1>7. CASE AnalysisEnds
  <2>1. /\ analysis' = analysis + 1 /\ pc' = "start" /\ InputsReadied
        /\ todo' = (IF analysis < Len(Analyses) THEN Analyses[analysis + 1][1] ELSE <<>>)
        /\ analysis \in 1..5 /\ Len(Analyses) = 4
    BY <1>1, <1>7 DEF AnalysisEnds, Inv, TypeOK, Analyses
  <2>2. CASE analysis = 1
    <3>1. todo' = ClockPin
      BY <2>1, <2>2 DEF Analyses
    <3>. QED  BY <1>1, <3>1, ClockPinsReceive DEF Fresh
  <2>3. CASE analysis = 2
    <3>1. minmax' = MAXIMUM_TIME
      BY <2>1, <2>3 DEF minmax, Analyses
    <3>2. \A c \in ToSet(InputPin) : metric'[c] = -1
      BY <1>1, <2>1, <2>3 DEF InputsReadied, InputMetric
    <3>. QED  BY <3>1, <3>2 DEF Fresh, NoMetric
  <2>4. CASE analysis = 3
    <3>1. minmax' = MINIMUM_TIME
      BY <2>1, <2>4 DEF minmax, Analyses
    <3>2. \A c \in ToSet(InputPin) : metric'[c] = Infinite
      BY <1>1, <2>1, <2>4 DEF InputsReadied, InputMetric
    <3>. QED  BY <3>1, <3>2 DEF Fresh, NoMetric, MINIMUM_TIME, MAXIMUM_TIME
  <2>5. CASE analysis \in {4, 5}
    <3>1. ~(analysis' <= 4)
      BY <2>1, <2>5
    <3>. QED  BY <3>1 DEF Fresh
  <2>. QED  BY <2>1, <2>2, <2>3, <2>4, <2>5
<1>8. CASE UNCHANGED vars
  <2>1. UNCHANGED <<ckt, analysis, todo, pc, metric>>
    BY <1>8 DEF vars, search
  <2>2. minmax' = minmax
    BY <2>1, WaysSame
  <2>. QED  BY <2>1, <2>2 DEF Fresh
<1>. QED  BY <1>2, <1>3, <1>4, <1>5, <1>6, <1>7, <1>8 DEF Next

LEMMA CalledKeepsReaching ==
  ASSUME NEW call, NEW s, NEW tg, NEW mt, Calling(call, s, tg, mt),
         find_path_delay(call, s, tg, mt), UNCHANGED <<ckt, analysis, todo, masterlist>>,
         Head(todo) \in ToSet(Points), Head(todo) \in Start,
         MadeFrom(call, s, Steps, Head(todo)), Going(s, bt, delaylist, masterlist, Head(todo)),
         Marked(s, tg), stack' # <<>>,
         InRange => /\ Reaching(s, tg, mt, Head(todo))
                    /\ \A i \in DOMAIN s : \A y \in Receives(s[i].receiver) :
                         \/ Seen(y, s, tg, mt, Head(todo)) \/ ToBeCalled(y, s[i].calls)
                         \/ y = call.receiver
  PROVE  ReachInv'
<1>. DEFINE c == Head(todo)
<1>1. c' = c /\ (InRange' <=> InRange)
  BY ReachSame
<1>2. InRange => Reaching(stack', tag', metric', c) /\ GoingOn(stack', tag', metric', c)
  BY CalledReaches
<1>. HIDE DEF c
<1>3. InRange => Reaching(stack, tag, metric, c)' /\ GoingOn(stack, tag, metric, c)'
  BY <1>1, <1>2, ReachSame
<1>. QED  BY <1>1, <1>3 DEF ReachInv, c

LEMMA ReachKept ==
  ASSUME RealInv, RealInv', Marked(stack, tag), Fresh, ReachInv, [Next]_vars
  PROVE  ReachInv'
<1>1. Inv /\ stack \in Seq(Frame) /\ Inv'
  BY DEF RealInv, Inv, TypeOK, Typed
<1>2. CASE StartSearch
  <2>. DEFINE c == Head(todo)
  <2>1. /\ UNCHANGED <<ckt, analysis, todo, masterlist>> /\ stack = <<>> /\ todo # <<>>
        /\ DOMAIN <<>> = {} /\ ToSet(Receiver) \subseteq Conn /\ EndPin \subseteq ToSet(Receiver)
    BY <1>1, <1>2 DEF StartSearch, Inv, Conn, EndPin
  <2>2. Marked(<<>>, StartTags)
    <3>1. tag \in [Conn -> Nat \cup {OnPath}]
      BY <1>1 DEF Inv, TypeOK, Typed
    <3>. QED  BY <2>1, <3>1 DEF Marked, StartTags, OnPath, None
  <2>3. stack' # <<>>
    BY <1>2, FirstCallPasses
  <2>4. c \in ToSet(Points) /\ c \in Start
    BY <2>1, FromAPoint
  <2>5. Reaching(<<>>, StartTags, StartMetrics, c)
    BY <2>1 DEF Reaching, StartMetrics
  <2>. QED  BY <1>1, <1>2, <2>1, <2>2, <2>3, <2>4, <2>5, StartCalls, StartGoes, CalledKeepsReaching
<1>3. CASE Recurse
  <2>. DEFINE call == Head(Top.calls)
              l == Len(stack)
              c == Head(todo)
  <2>1. /\ UNCHANGED <<ckt, exhaustive, analysis, todo, masterlist>> /\ pc = "search"
        /\ stack # <<>> /\ Top.calls # <<>> /\ todo # <<>>
    BY <1>1, <1>3 DEF Recurse, Inv
  <2>2. /\ Calling(call, Resumed, tag, metric) /\ find_path_delay(call, Resumed, tag, metric)
        /\ Resumed # <<>> /\ Len(Resumed) = l /\ DOMAIN Resumed = DOMAIN stack
        /\ \A i \in DOMAIN stack :
             /\ Resumed[i].receiver = stack[i].receiver /\ Resumed[i].node = stack[i].node
             /\ Resumed[i].calls = IF i = l THEN Tail(stack[i].calls) ELSE stack[i].calls
    BY <1>1, <1>3, RecurseCalls
  <2>3. Marked(Resumed, tag)
    BY <2>2 DEF Marked
  <2>4. l \in DOMAIN stack /\ Top = stack[l] /\ Top \in Frame
    BY <1>1, <2>1, TopCall
  <2>5. ToSet(Top.calls) = {call} \cup ToSet(Tail(Top.calls))
    <3>1. Top.calls \in Seq(Call)
      BY <2>4 DEF Frame
    <3>. QED  BY <2>1, <3>1, HeadAndTail
  <2>6. c \in ToSet(Points) /\ c \in Start
    BY <2>1, FromAPoint
  <2>7. MadeFrom(call, Resumed, Steps, c) /\ Going(Resumed, bt, delaylist, masterlist, c)
    BY <1>3, RecurseGoes
  <2>8. stack' # <<>>
    <3>1. DOMAIN Resumed \subseteq DOMAIN stack' /\ DOMAIN <<>> = {}
      BY <2>1, <2>2, <2>7, CallsStay
    <3>. QED  BY <2>2, <2>4, <3>1
  <2>. HIDE DEF call, l, c
  <2>9. \A y : Seen(y, stack, tag, metric, c) <=> Seen(y, Resumed, tag, metric, c)
    BY <2>2 DEF Seen
  <2>10. ASSUME InRange
         PROVE  /\ Reaching(Resumed, tag, metric, c)
                /\ \A i \in DOMAIN Resumed : \A y \in Receives(Resumed[i].receiver) :
                     \/ Seen(y, Resumed, tag, metric, c) \/ ToBeCalled(y, Resumed[i].calls)
                     \/ y = call.receiver
    <3>1. Reaching(stack, tag, metric, c) /\ GoingOn(stack, tag, metric, c)
      BY <2>1, <2>10 DEF ReachInv, c
    <3>2. Reaching(Resumed, tag, metric, c)
      BY <2>9, <3>1 DEF Reaching
    <3>3. ASSUME NEW i \in DOMAIN stack, NEW y, ToBeCalled(y, stack[i].calls)
          PROVE  ToBeCalled(y, Resumed[i].calls) \/ y = call.receiver
      BY <2>2, <2>4, <2>5, <3>3 DEF ToBeCalled
    <3>. QED  BY <2>2, <2>9, <3>1, <3>2, <3>3 DEF GoingOn
  <2>. QED  BY <2>1, <2>2, <2>3, <2>6, <2>7, <2>8, <2>10, CalledKeepsReaching DEF c
<1>4. CASE Return
  <2>. DEFINE c == Head(todo)
              l == Len(stack)
              r == Top.receiver
  <2>1. /\ UNCHANGED <<ckt, exhaustive, analysis, todo, pc>> /\ pc = "search"
        /\ stack' = Front(stack) /\ stack # <<>> /\ Top.calls = <<>> /\ todo # <<>>
        /\ tag' = [tag EXCEPT ![r] = None] /\ metric' = [metric EXCEPT ![r] = Top.delay]
        /\ tag \in [Conn -> Nat \cup {OnPath}] /\ metric \in [Conn -> Int]
        /\ ckt \in Circuits /\ Table(bt) /\ NodesOf(stack) \subseteq DOMAIN bt
        /\ Leads(stack, bt, ckt.icDelay, Steps, c)
        /\ \A i, j \in DOMAIN stack : i # j => stack[i].receiver # stack[j].receiver
    BY <1>1, <1>4 DEF Return, RealInv, Inv, TypeOK, Typed, Kept, Counted, Following
  <2>2. /\ l \in DOMAIN stack /\ l \in 1..l /\ Top = stack[l] /\ Top \in Frame /\ DOMAIN stack = 1..l
        /\ l \in Nat \ {0}
    BY <1>1, <2>1, TopCall
  <2>3. /\ stack' \in Seq(Frame) /\ DOMAIN stack = DOMAIN stack' \cup {l} /\ l \notin DOMAIN stack'
        /\ \A i \in DOMAIN stack' : stack'[i] = stack[i]
    BY <1>1, <2>1, Popped
  <2>4. r = c \/ r \in ToSet(Receiver) \ EndPin
    <3>1. CASE l = 1
      BY <2>1, <2>2, <3>1, FirstFrame
    <3>2. CASE l # 1
      BY <2>1, <2>2, <3>2 DEF Leads
    <3>. QED  BY <3>1, <3>2
  <2>5. r \in Conn /\ ToSet(Receiver) \subseteq Conn /\ EndPin \subseteq ToSet(Receiver)
    BY <2>2 DEF Frame, Conn, EndPin
  <2>6. c \in ToSet(Points) /\ c \in Start
    BY <2>1, FromAPoint
  <2>7. stack' = <<>> => l = 1 /\ r = c
    <3>. SUFFICES ASSUME stack' = <<>> PROVE l = 1 /\ r = c
      OBVIOUS
    <3>1. DOMAIN stack' = {}
      OBVIOUS
    <3>2. 1 \in DOMAIN stack
      BY <2>2
    <3>3. l = 1
      BY <2>3, <3>1, <3>2
    <3>. QED  BY <2>1, <2>2, <3>3, FirstFrame
  <2>. HIDE DEF c, l, r
  <2>8. ASSUME InRange
        PROVE  /\ Reaching(stack', tag', metric', c) /\ GoingOn(stack', tag', metric', c)
               /\ stack' = <<>> => \A y \in Receives(c) : Seen(y, stack', tag', metric', c)
    <3>1. Reaching(stack, tag, metric, c) /\ GoingOn(stack, tag, metric, c)
      BY <2>1, <2>8 DEF ReachInv, c
    <3>2. metric'[r] # NoMetric(minmax)
      <4>1. /\ WalkOf(stack, bt) \in Walk(c) /\ Len(WalkOf(stack, bt)) = l
            /\ WalkOf(stack, bt)[l].delay = stack[l].delay
        BY <1>1, <2>1, <2>2, CallsWalk DEF l
      <4>2. Top.delay \in 0..(Infinite - 1)
        BY <2>2, <2>6, <2>8, <4>1 DEF InRange
      <4>. QED  BY <2>1, <2>5, <4>2, Unvisited
    <3>3. ASSUME NEW y, y \in Conn, Seen(y, stack, tag, metric, c) PROVE Seen(y, stack', tag', metric', c)
      <4>1. CASE y = c
        BY <4>1 DEF Seen
      <4>2. CASE y # c /\ y = r
        <5>1. y \notin EndPin
          BY <2>4, <4>2
        <5>. QED  BY <3>2, <4>2, <5>1 DEF Seen
      <4>3. CASE y # c /\ y # r
        <5>1. tag'[y] = tag[y] /\ metric'[y] = metric[y]
          BY <2>1, <3>3, <4>3
        <5>2. ASSUME NEW i \in DOMAIN stack, stack[i].receiver = y
              PROVE  \E j \in DOMAIN stack' : stack'[j].receiver = y
          <6>1. i # l
            BY <2>2, <4>3, <5>2 DEF r
          <6>. QED  BY <2>3, <5>2, <6>1
        <5>. QED  BY <3>3, <4>3, <5>1, <5>2 DEF Seen
      <4>. QED  BY <4>1, <4>2, <4>3
    <3>4. \A x \in ToSet(Receiver) \ EndPin : Receives(x) \subseteq Conn
      BY <2>1, <2>5, GoesInside DEF EndPin
    <3>5. \A i \in DOMAIN stack : Receives(stack[i].receiver) \subseteq Conn
      <4>. SUFFICES ASSUME NEW i \in DOMAIN stack PROVE Receives(stack[i].receiver) \subseteq Conn
        OBVIOUS
      <4>1. CASE i = 1
        <5>1. stack[i].receiver = c
          BY <2>1, <4>1, FirstFrame
        <5>2. c \in Conn /\ (c \in ToSet(InputPin) \/ HasPin(c))
          BY <2>6, Pins DEF Start, HasPin
        <5>. QED  BY <2>1, <5>1, <5>2, GoesInside
      <4>2. CASE i # 1
        <5>1. stack[i].receiver \in ToSet(Receiver) \ EndPin
          BY <2>1, <4>2 DEF Leads
        <5>. QED  BY <3>4, <5>1
      <4>. QED  BY <4>1, <4>2
    <3>6. \A y \in Receives(r) : Seen(y, stack, tag, metric, c)
      <4>1. \A y \in Receives(r) : Seen(y, stack, tag, metric, c) \/ ToBeCalled(y, Top.calls)
        BY <2>2, <3>1 DEF GoingOn, r
      <4>2. \A y : ~ToBeCalled(y, Top.calls)
        BY <2>1 DEF ToBeCalled, ToSet
      <4>. QED  BY <4>1, <4>2
    <3>7. \A y \in Receives(r) : Seen(y, stack', tag', metric', c)
      BY <2>2, <3>3, <3>5, <3>6 DEF r
    <3>8. ASSUME NEW x \in ToSet(Receiver) \ EndPin, metric'[x] # NoMetric(minmax), NEW y \in Receives(x)
          PROVE  Seen(y, stack', tag', metric', c)
      <4>1. CASE x = r
        BY <3>7, <3>8, <4>1
      <4>2. CASE x # r
        <5>1. metric[x] # NoMetric(minmax)
          BY <2>1, <2>5, <3>8, <4>2
        <5>2. Seen(y, stack, tag, metric, c)
          BY <3>1, <3>8, <5>1 DEF Reaching
        <5>. QED  BY <3>3, <3>4, <3>8, <5>2
      <4>. QED  BY <4>1, <4>2
    <3>9. ASSUME NEW x \in EndPin \ {c}, metric'[x] # NoMetric(minmax) PROVE tag'[x] \notin {None, OnPath}
      <4>1. x # r /\ x \in Conn
        BY <2>4, <2>5
      <4>2. tag'[x] = tag[x] /\ metric'[x] = metric[x]
        BY <2>1, <4>1
      <4>. QED  BY <3>1, <3>9, <4>2 DEF Reaching
    <3>10. Reaching(stack', tag', metric', c)
      BY <3>8, <3>9 DEF Reaching
    <3>11. GoingOn(stack', tag', metric', c)
      BY <2>3, <3>1, <3>3, <3>5 DEF GoingOn
    <3>. QED  BY <2>7, <3>7, <3>10, <3>11
  <2>9. c' = c /\ (InRange' <=> InRange) /\ Receives(c)' = Receives(c)
    BY <2>1, ReachSame DEF c
  <2>10. ASSUME InRange
         PROVE  /\ Reaching(stack, tag, metric, c)' /\ GoingOn(stack, tag, metric, c)'
                /\ (stack = <<>>)' => \A y \in Receives(c) : Seen(y, stack, tag, metric, c)'
    BY <2>1, <2>8, <2>9, <2>10, ReachSame
  <2>. QED  BY <2>1, <2>9, <2>10 DEF ReachInv, c
<1>5. CASE SearchEnds \/ Report \/ FreePath \/ AnalysisEnds
  BY <1>5 DEF SearchEnds, Report, FreePath, AnalysisEnds, ReachInv
<1>6. CASE UNCHANGED vars
  <2>1. UNCHANGED <<ckt, analysis, todo, pc, stack, tag, metric>>
    BY <1>6 DEF vars, search
  <2>. DEFINE c == Head(todo)
  <2>2. c' = c /\ (InRange' <=> InRange) /\ Receives(c)' = Receives(c)
    BY <2>1, ReachSame
  <2>. HIDE DEF c
  <2>3. ASSUME InRange, pc = "search"
        PROVE  /\ Reaching(stack, tag, metric, c)' /\ GoingOn(stack, tag, metric, c)'
               /\ stack = <<>> => \A y \in Receives(c) : Seen(y, stack, tag, metric, c)'
    <3>1. /\ Reaching(stack, tag, metric, c) /\ GoingOn(stack, tag, metric, c)
          /\ stack = <<>> => \A y \in Receives(c) : Seen(y, stack, tag, metric, c)
      BY <2>3 DEF ReachInv, c
    <3>2. stack' = stack /\ tag' = tag /\ metric' = metric
      BY <2>1
    <3>3. /\ Reaching(stack', tag', metric', c) /\ GoingOn(stack', tag', metric', c)
          /\ stack = <<>> => \A y \in Receives(c) : Seen(y, stack', tag', metric', c)
      BY <3>1, <3>2
    <3>. QED  BY <2>1, <2>2, <3>3, ReachSame
  <2>. QED  BY <2>1, <2>2, <2>3 DEF ReachInv, c
<1>. QED  BY <1>2, <1>3, <1>4, <1>5, <1>6 DEF Next

\* Each connection of a way is on the net of the one before.
LEMMA WayReceives ==
  ASSUME ckt \in Circuits, NEW c \in Start, NEW w \in Way(c), NEW i \in 1..(Len(w) - 1)
  PROVE  w[i + 1].receiver \in Receives(w[i].receiver) /\ w[i + 1].receiver \in ToSet(Receiver)
<1>. DEFINE n == Len(w)
<1>1. /\ w \in Seq(AnyCall) /\ DOMAIN w = 1..n /\ n \in Nat /\ n > 1 /\ w[1].receiver = c
      /\ \A j \in 1..(n - 1) : <<w[j], w[j + 1]>> \in Steps
      /\ \A j \in 2..(n - 1) : w[j].receiver \notin EndPin
      /\ i \in 1..(n - 1)
  BY LenProperties DEF Way, Walk, FirstCall
<1>0. \A j \in 1..n : w[j] \in AnyCall
  BY <1>1, ElementOfSeq
<1>. HIDE DEF n
<1>2. <<w[i], w[i + 1]>> \in Steps /\ i \in 1..n
  BY <1>1
<1>3. w[i].receiver \in ToSet(InputPin) \/ HasPin(w[i].receiver)
  <2>1. CASE i = 1
    BY <1>1, <2>1, Pins DEF Start, HasPin
  <2>2. CASE i # 1
    <3>1. i \in 2..(n - 1)
      BY <1>1, <2>2
    <3>2. w[i].receiver \notin EndPin
      BY <1>1, <3>1
    <3>3. w[i].receiver \in Conn
      BY <1>0, <1>2 DEF AnyCall
    <3>. QED  BY <3>2, <3>3 DEF EndPin, Conn
  <2>. QED  BY <2>1, <2>2
<1>. QED  BY <1>2, <1>3, StepReceives

\* When the search from c is over, the end of each way from c is listed.
LEMMA SearchReaches ==
  ASSUME RealInv, ReachInv, InRange, pc = "search", stack = <<>>,
         NEW w \in Way(Head(todo))
  PROVE  Reaches(Head(todo), w, bt, ToSet(delaylist))
<1>. DEFINE c == Head(todo)
            n == Len(w)
<1>1. /\ todo # <<>> /\ ckt \in Circuits /\ Tagged(tag, bt, delaylist)
      /\ delaylist \in Seq(Seq(Number)) /\ AllFrom(bt, ToSet(delaylist), c)
  BY DEF RealInv, Inv, TypeOK, Typed
<1>2. /\ Reaching(stack, tag, metric, c)
      /\ \A y \in Receives(c) : Seen(y, stack, tag, metric, c)
  BY DEF ReachInv
<1>3. /\ w \in Seq(AnyCall) /\ DOMAIN w = 1..n /\ n \in Nat /\ n > 1 /\ w[1].receiver = c
      /\ \A i \in 1..(n - 1) : <<w[i], w[i + 1]>> \in Steps
      /\ \A i \in 2..(n - 1) : w[i].receiver \notin EndPin
      /\ \A i, j \in DOMAIN w : i # j => w[i].receiver # w[j].receiver
      /\ w[n].receiver \in EndPin
  BY LenProperties DEF Way, Walk, FirstCall
<1>4. c \in Start
  BY <1>1, FromAPoint
<1>5. DOMAIN stack = {}
  OBVIOUS
<1>. HIDE DEF c, n
<1>6. \A i \in 1..n : w[i] \in AnyCall
  BY <1>3, ElementOfSeq
<1>7. \A i \in 1..(n - 1) : /\ w[i + 1].receiver \in Receives(w[i].receiver)
                           /\ w[i + 1].receiver \in ToSet(Receiver)
  BY <1>1, <1>4, WayReceives DEF n, c
<1>8. \A y : Seen(y, stack, tag, metric, c) /\ y # c =>
        IF y \in EndPin THEN tag[y] \notin {None, OnPath} ELSE metric[y] # NoMetric(minmax)
  BY <1>5 DEF Seen
\* the connections of w, by their distance from c less one
<1>. DEFINE T == {i \in 0..(n - 2) : Seen(w[i + 2].receiver, stack, tag, metric, c)}
<1>9. 0 \in T
  <2>1. 1 \in 1..(n - 1) /\ 0 \in 0..(n - 2)
    BY <1>3
  <2>2. w[1 + 1].receiver \in Receives(w[1].receiver)
    BY <1>7, <2>1
  <2>. QED  BY <1>2, <1>3, <2>1, <2>2
<1>10. ASSUME NEW i \in 1..(n - 2), i - 1 \in T PROVE i \in T
  <2>1. /\ i \in 0..(n - 2) /\ i + 1 \in 1..(n - 1) /\ (i - 1) + 2 = i + 1 /\ (i + 1) + 1 = i + 2
        /\ i + 1 \in 2..(n - 1) /\ 1 \in 1..n /\ i + 1 \in 1..n /\ i + 1 # 1
    BY <1>3
  <2>2. Seen(w[i + 1].receiver, stack, tag, metric, c)
    BY <1>10, <2>1
  <2>3. w[i + 1].receiver # c /\ w[i + 1].receiver \notin EndPin
    BY <1>3, <2>1
  <2>4. metric[w[i + 1].receiver] # NoMetric(minmax)
    BY <1>8, <2>2, <2>3
  <2>5. w[i + 2].receiver \in Receives(w[i + 1].receiver)
    BY <1>7, <2>1
  <2>6. w[i + 1].receiver \in ToSet(Receiver) \ EndPin
    <3>1. i \in 1..(n - 1)
      BY <1>3
    <3>. QED  BY <1>7, <2>3, <3>1
  <2>7. Seen(w[i + 2].receiver, stack, tag, metric, c)
    BY <1>2, <2>4, <2>5, <2>6 DEF Reaching
  <2>. QED  BY <2>1, <2>7
<1>11. n - 2 \in Nat
  BY <1>3
<1>. HIDE DEF T
<1>12. n - 2 \in T
  <2>1. \A i \in 0..(n - 2) : i \in T
    BY <1>9, <1>10, <1>11, Induction
  <2>. QED  BY <1>11, <2>1
<1>13. Seen(w[n].receiver, stack, tag, metric, c)
  <2>1. Seen(w[(n - 2) + 2].receiver, stack, tag, metric, c)
    BY <1>12 DEF T
  <2>2. (n - 2) + 2 = n
    BY <1>3
  <2>. QED  BY <2>1, <2>2
<1>. DEFINE e == w[n].receiver
<1>14. e # c /\ e \in Conn /\ e \in EndPin
  <2>1. 1 \in 1..n /\ n \in 1..n /\ 1 # n
    BY <1>3
  <2>. QED  BY <1>3, <1>6, <2>1 DEF AnyCall
<1>15. tag[e] \notin {None, OnPath}
  BY <1>8, <1>13, <1>14
<1>16. tag[e] \in DOMAIN delaylist /\ bt[delaylist[tag[e]][1]].receiver = e
  BY <1>1, <1>14, <1>15 DEF Tagged
<1>17. delaylist[tag[e]] \in ToSet(delaylist)
  BY <1>16 DEF ToSet
<1>. QED  BY <1>1, <1>16, <1>17 DEF Reaches, Source, Sink, AllFrom, c, n

\* A step that leaves the list leaves what it reaches.
LEMMA MasterReachStays ==
  ASSUME RealInv, Inv', MasterReaches, Agree(bt, bt'), pc # "free",
         UNCHANGED <<ckt, analysis, todo, masterlist>>
  PROVE  MasterReaches'
<1>1. Points' = Points /\ \A c : Walk(c)' = Walk(c) /\ Way(c)' = Way(c)
  BY WaysSame DEF Points
<1>2. InRange' <=> InRange
  BY <1>1 DEF InRange
<1>3. ASSUME NEW c, NEW w, Reaches(c, w, bt, ToSet(masterlist))
      PROVE  Reaches(c, w, bt', ToSet(masterlist'))
  <2>1. PICK p \in ToSet(masterlist) : Source(bt, p) = c /\ Sink(bt, p) = w[Len(w)].receiver
    BY <1>3 DEF Reaches
  <2>2. p \in Paths \cap Paths'
    BY DEF Paths
  <2>3. Source(bt', p) = c /\ Sink(bt', p) = w[Len(w)].receiver
    BY <2>1, <2>2, SayTheSame
  <2>. QED  BY <2>3 DEF Reaches
<1>4. \A c, w : Reaches(c, w, bt, ToSet(masterlist))' <=> Reaches(c, w, bt', ToSet(masterlist'))
  BY DEF Reaches
<1>. QED  BY <1>1, <1>2, <1>3, <1>4 DEF MasterReaches

LEMMA MasterReachKept ==
  ASSUME RealInv, RealInv', ReachInv, MasterReaches, [Next]_vars
  PROVE  MasterReaches'
<1>1. Inv /\ Inv'
  BY DEF RealInv
<1>2. CASE StartSearch
  <2>1. UNCHANGED <<ckt, exhaustive, analysis, todo, masterlist>> /\ pc # "free"
    BY <1>2 DEF StartSearch
  <2>2. Agree(bt, bt')
    BY <1>1, <1>2, <2>1, StartCalls, StartGoes, CalledReal
  <2>. QED  BY <1>1, <2>1, <2>2, MasterReachStays
<1>3. CASE Recurse
  <2>1. UNCHANGED <<ckt, exhaustive, analysis, todo, masterlist>> /\ pc # "free"
    BY <1>3 DEF Recurse
  <2>2. /\ Calling(Head(Top.calls), Resumed, tag, metric)
        /\ find_path_delay(Head(Top.calls), Resumed, tag, metric)
    BY <1>1, <1>3, RecurseCalls
  <2>3. Agree(bt, bt')
    BY <1>3, <2>1, <2>2, RecurseGoes, CalledReal
  <2>. QED  BY <1>1, <2>1, <2>3, MasterReachStays
<1>4. CASE Return
  <2>1. /\ UNCHANGED <<ckt, exhaustive, analysis, todo, masterlist>> /\ pc # "free"
        /\ bt' = Release(bt, <<Top.node>>) /\ Table(bt)
    BY <1>1, <1>4 DEF Return, Inv, TypeOK, Typed, Kept
  <2>2. Agree(bt, bt')
    BY <2>1, CountsAgree
  <2>. QED  BY <1>1, <2>1, <2>2, MasterReachStays
<1>5. CASE SearchEnds
  <2>. DEFINE c == Head(todo)
  <2>1. /\ masterlist' = delaylist \o masterlist /\ todo' = Tail(todo)
        /\ pc = "search" /\ pc # "free" /\ stack = <<>> /\ todo # <<>>
        /\ UNCHANGED <<ckt, exhaustive, analysis, bt>>
    BY <1>1, <1>5 DEF SearchEnds, Inv
  <2>2. /\ delaylist \in Seq(Seq(Number)) /\ masterlist \in Seq(Seq(Number))
        /\ Listed(delaylist, masterlist)
    BY <1>1, <2>1 DEF Inv, TypeOK, Typed, Kept
  <2>3. ToSet(todo') = ToSet(todo) \ {c}
    BY <2>1, FromAPoint
  <2>4. ToSet(masterlist') = ToSet(delaylist) \cup ToSet(masterlist)
    BY <2>1, <2>2, Linked DEF Listed
  <2>5. Points' = Points /\ (InRange' <=> InRange) /\ \A d : Way(d)' = Way(d)
    BY <2>1, WaysSame, ReachSame DEF Points
  <2>6. InRange => \A w \in Way(c) : Reaches(c, w, bt, ToSet(delaylist))
    BY <2>1, SearchReaches
  <2>. HIDE DEF c
  <2>7. ASSUME InRange, analysis <= 4, NEW d \in ToSet(Points) \ ToSet(todo'), NEW w \in Way(d)
        PROVE  Reaches(d, w, bt, ToSet(masterlist))'
    <3>1. d = c \/ d \in ToSet(Points) \ ToSet(todo)
      BY <2>3
    <3>2. Reaches(d, w, bt, ToSet(delaylist)) \/ Reaches(d, w, bt, ToSet(masterlist))
      BY <2>1, <2>6, <2>7, <3>1 DEF MasterReaches
    <3>3. Reaches(d, w, bt', ToSet(masterlist'))
      BY <2>1, <2>4, <3>2 DEF Reaches
    <3>. QED  BY <3>3 DEF Reaches
  <2>. QED  BY <2>1, <2>5, <2>7 DEF MasterReaches
<1>6. CASE Report \/ FreePath
  <2>1. pc' = "free"
    BY <1>6 DEF Report, FreePath
  <2>. QED  BY <2>1 DEF MasterReaches
<1>7. CASE AnalysisEnds
  <2>1. /\ analysis' = analysis + 1
        /\ todo' = (IF analysis < Len(Analyses) THEN Analyses[analysis + 1][1] ELSE <<>>)
        /\ Len(Analyses) = 4 /\ analysis \in 1..5
    BY <1>1, <1>7 DEF AnalysisEnds, Analyses, Inv, TypeOK
  <2>2. analysis' <= 4 => ToSet(Points') = ToSet(todo')
    BY <2>1 DEF Points
  <2>. QED  BY <2>2 DEF MasterReaches
<1>8. CASE UNCHANGED vars
  <2>1. UNCHANGED <<ckt, exhaustive, analysis, todo, pc, bt, masterlist>>
    BY <1>8 DEF vars, search
  <2>2. Agree(bt, bt')
    BY <2>1 DEF Agree
  <2>3. CASE pc = "free"
    BY <2>1, <2>3 DEF MasterReaches
  <2>4. CASE pc # "free"
    BY <1>1, <2>1, <2>2, <2>4, MasterReachStays
  <2>. QED  BY <2>3, <2>4
<1>. QED  BY <1>2, <1>3, <1>4, <1>5, <1>6, <1>7, <1>8 DEF Next

(* What the marks, the metrics and the calls in progress say of where the      *)
(* search has been is kept by every step of it.                               *)
THEOREM EndsInvariance == Spec => []EndsInv
<1>1. ASSUME Init PROVE EndsInv
  <2>1. /\ analysis = 1 /\ todo = ClockPin /\ pc = "start"
        /\ tag = [c \in Conn |-> None]
    BY <1>1 DEF Init
  <2>2. Marked(stack, tag)
    BY <2>1 DEF Marked, None, OnPath
  <2>3. Points = todo
    BY <2>1 DEF Points, Analyses
  <2>4. MasterReaches
    BY <2>3 DEF MasterReaches
  <2>5. ReachInv
    BY <2>1 DEF ReachInv
  <2>6. ToSet(todo) \cap ToSet(InputPin) = {}
    BY <2>1, ClockPinsReceive, ConnectionsAssumption
  <2>7. Fresh
    BY <2>6 DEF Fresh
  <2>. QED  BY <1>1, <2>2, <2>4, <2>5, <2>7, InitiallyReal DEF EndsInv
<1>2. ASSUME EndsInv, RealInv', [Next]_vars PROVE EndsInv'
  <2>1. RealInv /\ Marked(stack, tag) /\ ReachInv /\ Fresh /\ MasterReaches /\ Inv
    BY <1>2 DEF EndsInv, RealInv
  <2>2. Marked(stack, tag)'
    BY <1>2, <2>1, MarksKept
  <2>3. ReachInv'
    BY <1>2, <2>1, ReachKept
  <2>4. MasterReaches'
    BY <1>2, <2>1, MasterReachKept
  <2>5. Fresh'
    BY <1>2, <2>1, FreshKept
  <2>. QED  BY <1>2, <2>2, <2>3, <2>4, <2>5 DEF EndsInv
<1>. QED  BY <1>1, <1>2, RealInvariance, PTL DEF Spec

(* Metrics and marks cut most calls short, but never the last one that would  *)
(* have led to an end: each register input and output that a signal can reach *)
(* from a starting point of the analysis is reported with a path from there,  *)
(* whatever loops there are, with and without the option -e, as long as no    *)
(* delay is negative or beyond what the metrics begin with.                   *)
NoEndMissed ==
  pc = "start" /\ todo = <<>> /\ ~Done /\ InRange =>
    \A s \in ToSet(Points) : \A w \in Way(s) :
      \E p \in ToSet(masterlist) : StartOf(p) = s /\ EndOf(p) = w[Len(w)].receiver
\* In every netlist, as each search leaves no end unseen.
THEOREM EveryEndIsReported == Spec => []NoEndMissed
<1>1. ASSUME EndsInv, pc = "start", todo = <<>>, ~Done, InRange,
             NEW s \in ToSet(Points), NEW w \in Way(s)
      PROVE  \E p \in ToSet(masterlist) : StartOf(p) = s /\ EndOf(p) = w[Len(w)].receiver
  <2>1. analysis <= 4
    BY <1>1 DEF Done, Analyses, EndsInv, RealInv, Inv, TypeOK
  <2>2. s \in ToSet(Points) \ ToSet(todo)
    BY <1>1 DEF ToSet
  <2>3. Reaches(s, w, bt, ToSet(masterlist))
    BY <1>1, <2>1, <2>2 DEF EndsInv, MasterReaches
  <2>. QED  BY <2>3 DEF Reaches, StartOf, EndOf, Source, Sink
<1>2. EndsInv => NoEndMissed
  BY <1>1 DEF NoEndMissed
<1>. QED  BY <1>2, EndsInvariance, PTL

-----------------------------------------------------------------------------
(* Without -e and without loops, the calls that metrics cut short lead to    *)
(* nothing worse.  A route is what remains of a way, from any time on; which  *)
(* edge arrives makes no difference when edges are alike.                     *)
Delay(c) == calc_prop_delay(c, RISING)
Onto(k, l) == l.receiver \in Receives(k.receiver) /\ l.delay = k.delay + Delay(k.receiver)
Route ==
  {r \in Seq(AnyCall) :
     /\ Len(r) > 1 /\ \A i \in 1..(Len(r) - 1) : Onto(r[i], r[i + 1])
     /\ \A i \in 2..(Len(r) - 1) : r[i].receiver \notin EndPin
     /\ r[Len(r)].receiver \in EndPin}

\* No walk can be closed to a loop.
NoCycles ==
  \A c \in ToSet(Points) : \A w \in Walk(c) : \A l \in AnyCall :
    (Len(w) = 1 \/ w[Len(w)].receiver \notin EndPin) /\ <<w[Len(w)], l>> \in Steps =>
      \A i \in 1..Len(w) : w[i].receiver # l.receiver
Tame == InRange /\ EdgesAlike /\ NoCycles

\* A path to e is listed that is as bad as d.
Found(e, d, b, paths) ==
  Wired(e) \/ \E p \in paths : Sink(b, p) = e /\ ~Worse(d, b[p[1]].delay)
RouteFound(r, b, paths) == Found(r[Len(r)].receiver, r[Len(r)].delay, b, paths)

\* A metric says that what follows from there, so late, has been found.
Promised(b, mt, paths, c) ==
  /\ \A x \in ToSet(Receiver) \ EndPin : mt[x] # NoMetric(minmax) =>
       \A r \in Route : r[1].receiver = x /\ ~Worse(r[1].delay, mt[x]) => RouteFound(r, b, paths)
  /\ \A x \in EndPin \ {c} : mt[x] # NoMetric(minmax) => Found(x, mt[x], b, paths)

\* Routes from where a call is in progress: found, to be called, or being called.
Explored(s, b, paths) ==
  \A i \in DOMAIN s : \A r \in Route :
    r[1].receiver = s[i].receiver /\ ~Worse(r[1].delay, s[i].delay) =>
      \/ RouteFound(r, b, paths) \/ ToBeCalled(r[2].receiver, s[i].calls)
      \/ i + 1 \in DOMAIN s /\ s[i + 1].receiver = r[2].receiver

LEMMA Later ==
  ASSUME NEW x \in Int, NEW y \in Int, NEW d \in Int, ~Worse(x, y)
  PROVE  ~Worse(x + d, y + d)
BY DEF Worse

LEMMA RouteIs ==
  ASSUME NEW r \in Route
  PROVE  /\ r \in Seq(AnyCall) /\ Len(r) \in Nat /\ Len(r) > 1
         /\ \A i \in 1..Len(r) : r[i].receiver \in Conn /\ r[i].delay \in Int
         /\ r[2].receiver \in Receives(r[1].receiver)
         /\ r[2].delay = r[1].delay + Delay(r[1].receiver)
         /\ r[1].delay \in Int /\ r[2].delay \in Int /\ r[Len(r)].delay \in Int
<1>1. r \in Seq(AnyCall) /\ Len(r) \in Nat /\ Len(r) > 1
  BY LenProperties DEF Route
<1>2. \A i \in 1..Len(r) : r[i] \in AnyCall
  BY <1>1, ElementOfSeq
<1>3. 1 \in 1..(Len(r) - 1) /\ 1 \in 1..Len(r) /\ 2 \in 1..Len(r) /\ Len(r) \in 1..Len(r)
  BY <1>1
<1>4. Onto(r[1], r[1 + 1])
  BY <1>3 DEF Route
<1>. QED  BY <1>1, <1>2, <1>3, <1>4 DEF Onto, AnyCall

\* What remains of a route after its first connection.
LEMMA RouteGoesOn ==
  ASSUME NEW r \in Route
  PROVE  /\ r[2].receiver \in EndPin => Len(r) = 2
         /\ r[2].receiver \notin EndPin =>
              /\ Tail(r) \in Route /\ Tail(r)[1] = r[2]
              /\ \A b, paths : RouteFound(Tail(r), b, paths) <=> RouteFound(r, b, paths)
<1>. DEFINE t == Tail(r)
            n == Len(r)
<1>1. /\ r \in Seq(AnyCall) /\ n \in Nat /\ n > 1
      /\ \A i \in 1..(n - 1) : Onto(r[i], r[i + 1])
      /\ \A i \in 2..(n - 1) : r[i].receiver \notin EndPin
      /\ r[n].receiver \in EndPin
  BY RouteIs DEF Route
<1>2. r # <<>>
  BY <1>1, EmptySeq
<1>3. t \in Seq(AnyCall) /\ Len(t) = n - 1 /\ \A i \in 1..Len(t) : t[i] = r[i + 1]
  BY <1>1, <1>2, HeadTailProperties
<1>. HIDE DEF t, n
<1>4. n # 2 => n > 2 /\ 2 \in 2..(n - 1)
  BY <1>1
<1>5. ASSUME n # 2 PROVE t \in Route /\ t[1] = r[2] /\ t[Len(t)] = r[n]
  <2>1. n > 2 /\ Len(t) \in 1..Len(t) /\ 1 \in 1..Len(t) /\ Len(t) + 1 = n /\ Len(t) > 1
    BY <1>1, <1>3, <1>4, <1>5
  <2>2. t[1] = r[2] /\ t[Len(t)] = r[n]
    <3>1. t[1] = r[1 + 1] /\ t[Len(t)] = r[Len(t) + 1]
      BY <1>3, <2>1
    <3>. QED  BY <2>1, <3>1
  <2>3. ASSUME NEW i \in 1..(Len(t) - 1) PROVE Onto(t[i], t[i + 1])
    <3>1. i \in 1..Len(t) /\ i + 1 \in 1..Len(t) /\ i + 1 \in 1..(n - 1)
      BY <1>1, <1>3
    <3>. QED  BY <1>1, <1>3, <3>1
  <2>4. ASSUME NEW i \in 2..(Len(t) - 1) PROVE t[i].receiver \notin EndPin
    <3>1. i \in 1..Len(t) /\ i + 1 \in 2..(n - 1)
      BY <1>1, <1>3
    <3>. QED  BY <1>1, <1>3, <3>1
  <2>. QED  BY <1>1, <1>3, <2>1, <2>2, <2>3, <2>4 DEF Route
<1>6. r[2].receiver \in EndPin => n = 2
  BY <1>1, <1>4
<1>7. r[2].receiver \notin EndPin => n # 2
  BY <1>1
<1>. QED  BY <1>5, <1>6, <1>7 DEF RouteFound, t, n

\* When edges are alike, what a call makes is that much later.
LEMMA StepDelay ==
  ASSUME ckt \in Circuits, EdgesAlike, NEW k, NEW l, <<k, l>> \in Steps
  PROVE  l.delay = k.delay + Delay(k.receiver)
<1>1. k.receiver \in Conn /\ l \in ToSet(Onward(k.receiver, k.dir, k.delay))
  BY DEF Steps, AnyCall
<1>. DEFINE edges == Edges(calc_dir(k.receiver, k.dir))
            At(i) == edges[((i - 1) % Len(edges)) + 1]
<1>2. PICK i \in DOMAIN Onward(k.receiver, k.dir, k.delay) : l = Onward(k.receiver, k.dir, k.delay)[i]
  BY <1>1 DEF ToSet
<1>3. l.delay = k.delay + calc_prop_delay(k.receiver, At(i))
  BY <1>2 DEF Onward
<1>. HIDE DEF At
<1>4. \A e : calc_prop_delay(k.receiver, e) = Delay(k.receiver)
  <2>1. ASSUME NEW e, HasPin(k.receiver) PROVE calc_prop_delay(k.receiver, e) = Delay(k.receiver)
    <3>1. ckt.propdelr[k.receiver] = ckt.propdelf[k.receiver]
      BY DEF EdgesAlike
    <3>. QED  BY <2>1, <3>1 DEF calc_prop_delay, Delay, Worst
  <2>2. ASSUME NEW e, ~HasPin(k.receiver) PROVE calc_prop_delay(k.receiver, e) = Delay(k.receiver)
    BY <2>2 DEF calc_prop_delay, Delay
  <2>. QED  BY <2>1, <2>2
<1>. QED  BY <1>3, <1>4

\* Without loops no call is cut short by a mark.
LEMMA NeverLooped ==
  ASSUME NEW call, NEW s, NEW tg, NEW mt, Calling(call, s, tg, mt), Marked(s, tg),
         NEW c \in ToSet(Points), MadeFrom(call, s, Steps, c), Going(s, bt, delaylist, masterlist, c),
         s # <<>>, NoCycles
  PROVE  ~Looped(call, tg)
<1>1. /\ ckt \in Circuits /\ s \in Seq(Frame) /\ Table(bt) /\ NodesOf(s) \subseteq DOMAIN bt
      /\ Leads(s, bt, ckt.icDelay, Steps, c)
      /\ \A i, j \in DOMAIN s : i # j => s[i].receiver # s[j].receiver
  BY DEF Calling, Kept, Typed, Counted, Going, Following
<1>. DEFINE w == WalkOf(s, bt)
            n == Len(s)
<1>2. /\ w \in Walk(c) /\ Len(w) = n
      /\ \A i \in 1..n : w[i] = CallAt(bt, ckt.icDelay, s[i].node) /\ w[i].receiver = s[i].receiver
  BY <1>1, CallsWalk
<1>3. n \in Nat \ {0} /\ DOMAIN s = 1..n
  BY <1>1, EmptySeq, LenProperties
<1>4. <<CallAt(bt, ckt.icDelay, s[n].node), call>> \in Steps /\ call.receiver \in Conn
  BY CallTypes DEF MadeFrom
<1>5. call \in AnyCall
  BY <1>4 DEF Steps
<1>. HIDE DEF w, n
<1>6. n \in 1..n
  BY <1>3
<1>7. n = 1 \/ w[n].receiver \notin EndPin
  BY <1>1, <1>2, <1>3, <1>6 DEF Leads
<1>8. \A i \in 1..n : w[i].receiver # call.receiver
  BY <1>2, <1>4, <1>5, <1>6, <1>7 DEF NoCycles
<1>. QED  BY <1>2, <1>3, <1>4, <1>8 DEF Marked, Looped

\* What has been found stays found, by paths that are no better.
LEMMA FoundStays ==
  ASSUME NEW call, NEW s, NEW tg, NEW mt, Calling(call, s, tg, mt),
         find_path_delay(call, s, tg, mt), UNCHANGED masterlist,
         NEW c, MadeFrom(call, s, Steps, c), Going(s, bt, delaylist, masterlist, c),
         NEW e, NEW d \in Int, Found(e, d, bt, ToSet(delaylist))
  PROVE  Found(e, d, bt', ToSet(delaylist'))
<1>. SUFFICES ASSUME ~Wired(e) PROVE Found(e, d, bt', ToSet(delaylist'))
  BY DEF Found
<1>1. PICK q \in ToSet(delaylist) : Sink(bt, q) = e /\ ~Worse(d, bt[q[1]].delay)
  BY DEF Found
<1>2. PICK p \in ToSet(delaylist') : AsBad(p, bt', q, bt)
  BY <1>1, PathsGetNoBetter
<1>3. bt[q[1]].delay \in Int /\ bt'[p[1]].delay \in Int
  <2>2. /\ Table(bt) /\ Counted(bt, NodesOf(s), ToSet(delaylist) \cup ToSet(masterlist))
        /\ Tagged(tg, bt, delaylist) /\ delaylist \in Seq(Seq(Number))
    BY DEF Calling, Kept, Typed
  <2>3. /\ Table(bt') /\ Tagged(tag', bt', delaylist') /\ delaylist' \in Seq(Seq(Number))
        /\ Counted(bt', NodesOf(stack'), ToSet(delaylist') \cup ToSet(masterlist'))
    BY Called DEF Kept, Typed
  <2>4. PICK i \in DOMAIN delaylist : q = delaylist[i]
    BY DEF ToSet
  <2>5. PICK j \in DOMAIN delaylist' : p = delaylist'[j]
    BY DEF ToSet
  <2>6. q[1] \in DOMAIN bt
    BY <2>2, <2>4, FirstNodes
  <2>7. p[1] \in DOMAIN bt'
    BY <2>3, <2>5, FirstNodes
  <2>. QED  BY <2>2, <2>3, <2>6, <2>7, DelayAt
<1>4. ~Worse(d, bt'[p[1]].delay)
  BY <1>1, <1>2, <1>3, Order DEF AsBad
<1>. QED  BY <1>1, <1>2, <1>4 DEF Found, AsBad

\* Nothing is earlier than what is found so late.
LEMMA FoundEarlier ==
  ASSUME NEW e, NEW d \in Int, NEW x \in Int, ~Worse(x, d), NEW b, NEW paths,
         \A p \in paths : b[p[1]].delay \in Int, Found(e, d, b, paths)
  PROVE  Found(e, x, b, paths)
<1>. SUFFICES ASSUME ~Wired(e) PROVE Found(e, x, b, paths)
  BY DEF Found
<1>1. PICK p \in paths : Sink(b, p) = e /\ ~Worse(d, b[p[1]].delay)
  BY DEF Found
<1>2. ~Worse(x, b[p[1]].delay)
  BY <1>1, Order
<1>. QED  BY <1>1, <1>2 DEF Found

LEMMA ListedDelays ==
  ASSUME NEW call, NEW s, NEW tg, NEW mt, Calling(call, s, tg, mt),
         find_path_delay(call, s, tg, mt), UNCHANGED masterlist
  PROVE  /\ \A p \in ToSet(delaylist) : bt[p[1]].delay \in Int
         /\ \A p \in ToSet(delaylist') : bt'[p[1]].delay \in Int
<1>1. /\ Table(bt) /\ Counted(bt, NodesOf(s), ToSet(delaylist) \cup ToSet(masterlist))
      /\ Tagged(tg, bt, delaylist) /\ delaylist \in Seq(Seq(Number))
  BY DEF Calling, Kept, Typed
<1>2. /\ Table(bt') /\ Tagged(tag', bt', delaylist') /\ delaylist' \in Seq(Seq(Number))
      /\ Counted(bt', NodesOf(stack'), ToSet(delaylist') \cup ToSet(masterlist'))
  BY Called DEF Kept, Typed
<1>3. \A i \in DOMAIN delaylist : delaylist[i][1] \in DOMAIN bt
  BY <1>1, FirstNodes
<1>4. \A i \in DOMAIN delaylist' : delaylist'[i][1] \in DOMAIN bt'
  BY <1>2, FirstNodes
<1>. QED  BY <1>1, <1>2, <1>3, <1>4, DelayAt DEF ToSet

\* A call deals with the routes that go through it.
LEMMA CallFinds ==
  ASSUME NEW call, NEW s, NEW tg, NEW mt, Calling(call, s, tg, mt),
         find_path_delay(call, s, tg, mt), UNCHANGED masterlist,
         NEW c \in ToSet(Points), MadeFrom(call, s, Steps, c), Going(s, bt, delaylist, masterlist, c),
         Marked(s, tg), Tame, s # <<>>, Promised(bt, mt, ToSet(delaylist), c),
         NEW r \in Route, r[1].receiver = s[Len(s)].receiver, ~Worse(r[1].delay, s[Len(s)].delay),
         r[2].receiver = call.receiver
  PROVE  \/ RouteFound(r, bt', ToSet(delaylist'))
         \/ Len(s) + 1 \in DOMAIN stack' /\ stack'[Len(s) + 1].receiver = r[2].receiver
<1>. DEFINE n == Len(s)
            y == call.receiver
            m == r[Len(r)]
<1>1. /\ ckt \in Circuits /\ s \in Seq(Frame) /\ mt \in [Conn -> Int]
      /\ Leads(s, bt, ckt.icDelay, Steps, c) /\ y \in ToSet(Receiver) /\ y \in Conn
      /\ call.delay \in Int /\ Following(s, tg)
  BY CallTypes DEF Calling, Kept, Typed, Going
<1>2. InRange /\ EdgesAlike /\ NoCycles
  BY DEF Tame
<1>3. n \in DOMAIN s /\ 1 \in DOMAIN s /\ s[n] \in Frame
  <2>1. n \in Nat \ {0} /\ DOMAIN s = 1..n
    BY <1>1, EmptySeq, LenProperties
  <2>2. n \in 1..n /\ 1 \in 1..n
    BY <2>1
  <2>. QED  BY <1>1, <2>1, <2>2, ElementOfSeq
<1>4. ~Looped(call, tg)
  BY <1>2, NeverLooped
<1>5. y # c
  <2>1. s[1].receiver = c /\ tg[c] = OnPath
    BY <1>1, <1>3, FirstFrame DEF Following
  <2>. QED  BY <1>4, <2>1 DEF Looped
<1>6. r[1].delay \in Int /\ r[2].delay \in Int /\ m.delay \in Int /\ r[1].receiver \in Conn
      /\ r[2].delay = r[1].delay + Delay(r[1].receiver)
  <2>1. 1 \in 1..Len(r)
    BY RouteIs
  <2>. QED  BY <2>1, RouteIs
<1>7. ~Worse(r[2].delay, call.delay)
  <2>1. /\ CallAt(bt, ckt.icDelay, s[n].node).delay = s[n].delay
        /\ CallAt(bt, ckt.icDelay, s[n].node).receiver = s[n].receiver
    BY <1>1, <1>3 DEF Leads, CallAt
  <2>2. <<CallAt(bt, ckt.icDelay, s[n].node), call>> \in Steps
    BY DEF MadeFrom
  <2>3. call.delay = s[n].delay + Delay(s[n].receiver)
    BY <1>1, <1>2, <2>1, <2>2, StepDelay
  <2>4. s[n].delay \in Int /\ Delay(s[n].receiver) \in Int
    BY <1>1, <1>3, DelayType DEF Frame, Delay
  <2>. QED  BY <1>6, <2>3, <2>4, Later
<1>8. y \in EndPin => Len(r) = 2 /\ m = r[2]
  BY RouteGoesOn
<1>9. /\ \A p \in ToSet(delaylist) : bt[p[1]].delay \in Int
      /\ \A p \in ToSet(delaylist') : bt'[p[1]].delay \in Int
  BY ListedDelays
<1>. HIDE DEF n, y, m
<1>10. CASE CutShort(call, s, tg, mt)
  <2>1. Pruned(call, mt) /\ bt' = bt /\ delaylist' = delaylist
    BY <1>4, <1>10 DEF CutShort
  <2>2. ~Worse(call.delay, mt[y])
    BY <2>1 DEF Pruned, y
  <2>3. mt[y] # NoMetric(minmax)
    <3>1. call.delay \in 0..(Infinite - 1)
      BY <1>2, <1>4, CalledInRange
    <3>. QED  BY <2>2, <3>1, Unvisited
  <2>4. ~Worse(r[2].delay, mt[y]) /\ mt[y] \in Int
    BY <1>1, <1>6, <1>7, <2>2, Order
  <2>5. CASE y \in EndPin
    <3>1. Found(y, mt[y], bt, ToSet(delaylist))
      BY <1>5, <2>3, <2>5 DEF Promised
    <3>2. Found(y, r[2].delay, bt, ToSet(delaylist))
      BY <1>6, <1>9, <2>4, <3>1, FoundEarlier
    <3>. QED  BY <1>8, <2>1, <2>5, <3>2 DEF RouteFound, m, y
  <2>6. CASE y \notin EndPin
    <3>1. /\ Tail(r) \in Route /\ Tail(r)[1] = r[2]
          /\ RouteFound(Tail(r), bt, ToSet(delaylist)) <=> RouteFound(r, bt, ToSet(delaylist))
      BY <2>6, RouteGoesOn DEF y
    <3>2. RouteFound(Tail(r), bt, ToSet(delaylist))
      BY <1>1, <2>3, <2>4, <2>6, <3>1 DEF Promised, y
    <3>. QED  BY <2>1, <3>1, <3>2
  <2>. QED  BY <2>5, <2>6
<1>11. CASE PassThrough(call, s, tg, mt)
  <2>1. /\ DOMAIN stack' = DOMAIN s \cup {Len(s) + 1}
        /\ stack'[Len(s) + 1].receiver = call.receiver
    BY <1>11, CallPassed
  <2>2. Len(s) + 1 \in DOMAIN stack' /\ stack'[Len(s) + 1].receiver = r[2].receiver
    BY <2>1
  <2>. QED  BY <2>2
<1>12. CASE PathEnds(call, s, tg, mt)
  <2>1. y \in EndPin
    BY <1>12, CallTypes DEF PathEnds, Ends, EndPin, y
  <2>2. CASE Wired(y)
    BY <1>8, <2>1, <2>2 DEF RouteFound, Found, m, y
  <2>3. CASE ~Wired(y)
    <3>1. PICK p \in ToSet(delaylist') : Sink(bt', p) = y /\ ~Worse(call.delay, bt'[p[1]].delay)
      BY <1>4, <1>12, <2>3, EndIsListed DEF y
    <3>2. ~Worse(r[2].delay, bt'[p[1]].delay)
      BY <1>1, <1>6, <1>7, <1>9, <3>1, Order
    <3>. QED  BY <1>8, <2>1, <3>1, <3>2 DEF RouteFound, Found, m, y
  <2>. QED  BY <2>2, <2>3
<1>. QED  BY <1>10, <1>11, <1>12 DEF find_path_delay

LEMMA RouteStays ==
  ASSUME NEW call, NEW s, NEW tg, NEW mt, Calling(call, s, tg, mt),
         find_path_delay(call, s, tg, mt), UNCHANGED masterlist,
         NEW c, MadeFrom(call, s, Steps, c), Going(s, bt, delaylist, masterlist, c),
         NEW r \in Route, RouteFound(r, bt, ToSet(delaylist))
  PROVE  RouteFound(r, bt', ToSet(delaylist'))
<1>1. r[Len(r)].delay \in Int
  BY RouteIs
<1>. QED  BY <1>1, FoundStays DEF RouteFound

\* A call, as far as what it finds.
LEMMA CalledExplores ==
  ASSUME NEW call, NEW s, NEW tg, NEW mt, Calling(call, s, tg, mt),
         find_path_delay(call, s, tg, mt), UNCHANGED masterlist,
         NEW c \in ToSet(Points), c \in Start, MadeFrom(call, s, Steps, c),
         Going(s, bt, delaylist, masterlist, c), Marked(s, tg), Tame,
         Promised(bt, mt, ToSet(delaylist), c),
         \A i \in DOMAIN s : \A r \in Route :
           r[1].receiver = s[i].receiver /\ ~Worse(r[1].delay, s[i].delay) =>
             \/ RouteFound(r, bt, ToSet(delaylist)) \/ ToBeCalled(r[2].receiver, s[i].calls)
             \/ i + 1 \in DOMAIN s /\ s[i + 1].receiver = r[2].receiver
             \/ i = Len(s) /\ r[2].receiver = call.receiver
  PROVE  /\ Promised(bt', metric', ToSet(delaylist'), c)
         /\ Explored(stack', bt', ToSet(delaylist'))
<1>. DEFINE y == call.receiver
            P == ToSet(delaylist)
            Q == ToSet(delaylist')
<1>1. /\ ckt \in Circuits /\ s \in Seq(Frame) /\ mt \in [Conn -> Int]
      /\ y \in Conn /\ call.delay \in Int /\ ToSet(Receiver) \subseteq Conn /\ EndPin \subseteq Conn
  BY CallTypes, Pins DEF Calling, Kept, Typed, Tame, Conn
<1>2. \A i \in DOMAIN s : i \in DOMAIN stack' /\ stack'[i] = s[i]
  BY CallsStay
<1>3. \A r \in Route : RouteFound(r, bt, P) => RouteFound(r, bt', Q)
  BY <1>1, RouteStays
<1>4. \A x \in ToSet(Receiver) \ EndPin : metric'[x] = mt[x]
  BY SeenStays
<1>5. \A e \in Conn : Found(e, mt[e], bt, P) => Found(e, mt[e], bt', Q)
  BY <1>1, FoundStays
<1>6. ASSUME NEW e \in EndPin \ {c}, metric'[e] # NoMetric(minmax) PROVE Found(e, metric'[e], bt', Q)
  <2>1. CASE metric'[e] = mt[e]
    <3>1. Found(e, mt[e], bt, P)
      BY <1>6, <2>1 DEF Promised
    <3>. QED  BY <1>1, <1>5, <2>1, <3>1
  <2>2. CASE metric'[e] # mt[e]
    <3>1. PathEnds(call, s, tg, mt) /\ ~Looped(call, tg)
      BY <2>2 DEF find_path_delay, CutShort, PassThrough
    <3>2. metric' = [mt EXCEPT ![y] = call.delay]
      BY <3>1 DEF PathEnds
    <3>3. e = y /\ metric'[e] = call.delay
      BY <1>1, <2>2, <3>2
    <3>4. CASE ~Wired(y)
      <4>1. PICK p \in Q : Sink(bt', p) = y /\ ~Worse(call.delay, bt'[p[1]].delay)
        BY <1>1, <3>1, <3>4, EndIsListed
      <4>. QED  BY <3>3, <4>1 DEF Found
    <3>. QED  BY <3>3, <3>4 DEF Found
  <2>. QED  BY <2>1, <2>2
<1>7. Promised(bt', metric', Q, c)
  BY <1>3, <1>4, <1>6 DEF Promised
<1>8. ASSUME NEW i \in DOMAIN s, NEW r \in Route, r[1].receiver = s[i].receiver,
             ~Worse(r[1].delay, s[i].delay)
      PROVE  \/ RouteFound(r, bt', Q) \/ ToBeCalled(r[2].receiver, stack'[i].calls)
             \/ i + 1 \in DOMAIN stack' /\ stack'[i + 1].receiver = r[2].receiver
  <2>1. CASE RouteFound(r, bt, P) \/ ToBeCalled(r[2].receiver, s[i].calls)
    BY <1>2, <1>3, <2>1
  <2>2. CASE i + 1 \in DOMAIN s /\ s[i + 1].receiver = r[2].receiver
    BY <1>2, <2>2
  <2>3. CASE i = Len(s) /\ r[2].receiver = y
    <3>1. s # <<>>
      <4>1. DOMAIN <<>> = {}
        OBVIOUS
      <4>. QED  BY <4>1
    <3>. QED  BY <1>8, <2>3, <3>1, CallFinds
  <2>. QED  BY <1>8, <2>1, <2>2, <2>3
<1>9. CASE ~PassThrough(call, s, tg, mt)
  <2>1. stack' = s
    BY <1>9 DEF find_path_delay, CutShort, PathEnds
  <2>. QED  BY <1>7, <1>8, <2>1 DEF Explored
<1>10. CASE PassThrough(call, s, tg, mt)
  <2>1. /\ DOMAIN stack' = DOMAIN s \cup {Len(s) + 1}
        /\ stack'[Len(s) + 1].receiver = y
        /\ stack'[Len(s) + 1].calls = Onward(y, call.dir, call.delay)
    BY <1>10, CallPassed
  <2>2. call.dir \in Dir /\ (y \in ToSet(InputPin) \/ HasPin(y))
    BY <1>10, CallTypes DEF PassThrough, Ends
  <2>3. \A z \in Receives(y) : ToBeCalled(z, stack'[Len(s) + 1].calls)
    BY <1>1, <2>1, <2>2, GoesEverywhere
  <2>4. \A r \in Route : r[1].receiver = y => ToBeCalled(r[2].receiver, stack'[Len(s) + 1].calls)
    BY <2>3, RouteIs
  <2>. HIDE DEF y, P, Q
  <2>5. ASSUME NEW i \in DOMAIN stack', NEW r \in Route, r[1].receiver = stack'[i].receiver,
               ~Worse(r[1].delay, stack'[i].delay)
        PROVE  \/ RouteFound(r, bt', Q) \/ ToBeCalled(r[2].receiver, stack'[i].calls)
               \/ i + 1 \in DOMAIN stack' /\ stack'[i + 1].receiver = r[2].receiver
    <3>1. CASE i \in DOMAIN s
      BY <1>2, <1>8, <2>5, <3>1
    <3>2. CASE i = Len(s) + 1
      BY <2>1, <2>4, <2>5, <3>2
    <3>. QED  BY <2>1, <3>1, <3>2
  <2>6. Explored(stack', bt', Q)
    BY <2>5 DEF Explored
  <2>. QED  BY <1>7, <2>6 DEF y, P, Q
<1>. QED  BY <1>9, <1>10

-----------------------------------------------------------------------------
(* Through each action.                                                      *)
FirstRoute(r, c) == r[1].receiver = c /\ r[1].delay = 0
PrunedInv ==
  Tame /\ pc = "search" =>
    /\ Promised(bt, metric, ToSet(delaylist), Head(todo))
    /\ Explored(stack, bt, ToSet(delaylist))
    /\ stack = <<>> =>
         \A r \in Route : FirstRoute(r, Head(todo)) => RouteFound(r, bt, ToSet(delaylist))

LEMMA PromisesSame ==
  ASSUME UNCHANGED <<ckt, analysis>>, NEW c
  PROVE  /\ Promised(bt, metric, ToSet(delaylist), c)' <=> Promised(bt', metric', ToSet(delaylist'), c')
         /\ Explored(stack, bt, ToSet(delaylist))' <=> Explored(stack', bt', ToSet(delaylist'))
         /\ \A r : RouteFound(r, bt, ToSet(delaylist))' <=> RouteFound(r, bt', ToSet(delaylist'))
         /\ Tame' <=> Tame
         /\ Route' = Route
<1>1. minmax' = minmax /\ Points' = Points /\ \A d : Walk(d)' = Walk(d)
  BY WaysSame DEF Points
<1>2. Steps' = Steps /\ (InRange' <=> InRange)
  BY StepsSame, ReachSame
<1>3. Tame' <=> Tame
  BY <1>1, <1>2 DEF Tame, EdgesAlike, NoCycles
<1>4. \A x : Receives(x)' = Receives(x) /\ Delay(x)' = Delay(x)
  <2>1. \A x : Receives(x)' = Receives(x)
    BY ReachSame
  <2>2. \A x, y : Worst(x, y)' = Worst(x, y)
    BY <1>1 DEF Worst, Worse
  <2>3. \A x, e : calc_prop_delay(x, e)' = calc_prop_delay(x, e)
    BY <2>2 DEF calc_prop_delay
  <2>. QED  BY <2>1, <2>3 DEF Delay
<1>5. Route' = Route
  BY <1>4 DEF Route, Onto
<1>6. \A r : RouteFound(r, bt, ToSet(delaylist))' <=> RouteFound(r, bt', ToSet(delaylist'))
  BY <1>1 DEF RouteFound, Found, Wired, Worse
<1>7. Promised(bt, metric, ToSet(delaylist), c)' <=> Promised(bt', metric', ToSet(delaylist'), c')
  BY <1>1, <1>5 DEF Promised, RouteFound, Found, Wired, Worse
<1>8. Explored(stack, bt, ToSet(delaylist))' <=> Explored(stack', bt', ToSet(delaylist'))
  BY <1>1, <1>5 DEF Explored, RouteFound, Found, Wired, Worse
<1>. QED  BY <1>3, <1>5, <1>6, <1>7, <1>8

LEMMA CalledKeepsPruned ==
  ASSUME NEW call, NEW s, NEW tg, NEW mt, Calling(call, s, tg, mt),
         find_path_delay(call, s, tg, mt), UNCHANGED <<ckt, analysis, todo, masterlist>>,
         Head(todo) \in ToSet(Points), Head(todo) \in Start,
         MadeFrom(call, s, Steps, Head(todo)), Going(s, bt, delaylist, masterlist, Head(todo)),
         Marked(s, tg), stack' # <<>>,
         Tame =>
           /\ Promised(bt, mt, ToSet(delaylist), Head(todo))
           /\ \A i \in DOMAIN s : \A r \in Route :
                r[1].receiver = s[i].receiver /\ ~Worse(r[1].delay, s[i].delay) =>
                  \/ RouteFound(r, bt, ToSet(delaylist)) \/ ToBeCalled(r[2].receiver, s[i].calls)
                  \/ i + 1 \in DOMAIN s /\ s[i + 1].receiver = r[2].receiver
                  \/ i = Len(s) /\ r[2].receiver = call.receiver
  PROVE  PrunedInv'
<1>. DEFINE c == Head(todo)
<1>1. c' = c /\ (Tame' <=> Tame)
  BY PromisesSame
<1>2. Tame => /\ Promised(bt', metric', ToSet(delaylist'), c)
              /\ Explored(stack', bt', ToSet(delaylist'))
  BY CalledExplores
<1>. HIDE DEF c
<1>3. Tame => /\ Promised(bt, metric, ToSet(delaylist), c)' /\ Explored(stack, bt, ToSet(delaylist))'
  BY <1>1, <1>2, PromisesSame
<1>. QED  BY <1>1, <1>3 DEF PrunedInv, c

\* Nodes that are only counted do not change what is found.
LEMMA FoundSame ==
  ASSUME RealInv, Inv', Agree(bt, bt'), UNCHANGED <<ckt, analysis, delaylist>>, NEW r,
         RouteFound(r, bt, ToSet(delaylist))
  PROVE  RouteFound(r, bt', ToSet(delaylist'))
<1>. SUFFICES ASSUME ~Wired(r[Len(r)].receiver) PROVE RouteFound(r, bt', ToSet(delaylist'))
  BY DEF RouteFound, Found
<1>1. PICK p \in ToSet(delaylist) : /\ Sink(bt, p) = r[Len(r)].receiver
                                    /\ ~Worse(r[Len(r)].delay, bt[p[1]].delay)
  BY DEF RouteFound, Found
<1>2. p \in Paths \cap Paths'
  BY DEF Paths
<1>3. Sink(bt', p) = Sink(bt, p) /\ bt'[p[1]].delay = bt[p[1]].delay
  BY <1>2, ListedSame
<1>4. p \in ToSet(delaylist')
  OBVIOUS
<1>. QED  BY <1>1, <1>3, <1>4 DEF RouteFound, Found

LEMMA PrunedKept ==
  ASSUME RealInv, RealInv', Marked(stack, tag), Fresh, PrunedInv, [Next]_vars
  PROVE  PrunedInv'
<1>1. Inv /\ stack \in Seq(Frame) /\ Inv'
  BY DEF RealInv, Inv, TypeOK, Typed
<1>2. CASE StartSearch
  <2>. DEFINE c == Head(todo)
  <2>1. /\ UNCHANGED <<ckt, analysis, todo, masterlist>> /\ stack = <<>> /\ todo # <<>>
        /\ DOMAIN <<>> = {} /\ ToSet(Receiver) \subseteq Conn /\ EndPin \subseteq ToSet(Receiver)
    BY <1>1, <1>2 DEF StartSearch, Inv, Conn, EndPin
  <2>2. Marked(<<>>, StartTags)
    <3>1. tag \in [Conn -> Nat \cup {OnPath}]
      BY <1>1 DEF Inv, TypeOK, Typed
    <3>. QED  BY <2>1, <3>1 DEF Marked, StartTags, OnPath, None
  <2>3. stack' # <<>>
    BY <1>2, FirstCallPasses
  <2>4. c \in ToSet(Points) /\ c \in Start
    BY <2>1, FromAPoint
  <2>5. Promised(bt, StartMetrics, ToSet(delaylist), c)
    BY <2>1 DEF Promised, StartMetrics
  <2>. QED  BY <1>1, <1>2, <2>1, <2>2, <2>3, <2>4, <2>5, StartCalls, StartGoes, CalledKeepsPruned
<1>3. CASE Recurse
  <2>. DEFINE call == Head(Top.calls)
              l == Len(stack)
              c == Head(todo)
              D == ToSet(delaylist)
  <2>1. /\ UNCHANGED <<ckt, exhaustive, analysis, todo, masterlist>> /\ pc = "search"
        /\ stack # <<>> /\ Top.calls # <<>> /\ todo # <<>>
    BY <1>1, <1>3 DEF Recurse, Inv
  <2>2. /\ Calling(call, Resumed, tag, metric) /\ find_path_delay(call, Resumed, tag, metric)
        /\ Resumed # <<>> /\ Len(Resumed) = l /\ DOMAIN Resumed = DOMAIN stack
        /\ \A i \in DOMAIN stack :
             /\ Resumed[i].receiver = stack[i].receiver /\ Resumed[i].node = stack[i].node
             /\ Resumed[i].delay = stack[i].delay
             /\ Resumed[i].calls = IF i = l THEN Tail(stack[i].calls) ELSE stack[i].calls
    BY <1>1, <1>3, RecurseCalls
  <2>3. Marked(Resumed, tag)
    BY <2>2 DEF Marked
  <2>4. l \in DOMAIN stack /\ Top = stack[l] /\ Top \in Frame
    BY <1>1, <2>1, TopCall
  <2>5. ToSet(Top.calls) = {call} \cup ToSet(Tail(Top.calls))
    <3>1. Top.calls \in Seq(Call)
      BY <2>4 DEF Frame
    <3>. QED  BY <2>1, <3>1, HeadAndTail
  <2>6. c \in ToSet(Points) /\ c \in Start
    BY <2>1, FromAPoint
  <2>7. MadeFrom(call, Resumed, Steps, c) /\ Going(Resumed, bt, delaylist, masterlist, c)
    BY <1>3, RecurseGoes
  <2>8. stack' # <<>>
    <3>1. DOMAIN Resumed \subseteq DOMAIN stack' /\ DOMAIN <<>> = {}
      BY <2>1, <2>2, <2>7, CallsStay
    <3>. QED  BY <2>2, <2>4, <3>1
  <2>. HIDE DEF call, l, c, D
  <2>9. ASSUME NEW i \in DOMAIN stack, NEW y, ToBeCalled(y, stack[i].calls)
        PROVE  ToBeCalled(y, Resumed[i].calls) \/ (i = l /\ y = call.receiver)
    BY <2>2, <2>4, <2>5, <2>9 DEF ToBeCalled
  <2>10. ASSUME Tame
         PROVE  /\ Promised(bt, metric, D, c)
                /\ \A i \in DOMAIN Resumed : \A r \in Route :
                     r[1].receiver = Resumed[i].receiver /\ ~Worse(r[1].delay, Resumed[i].delay) =>
                       \/ RouteFound(r, bt, D) \/ ToBeCalled(r[2].receiver, Resumed[i].calls)
                       \/ i + 1 \in DOMAIN Resumed /\ Resumed[i + 1].receiver = r[2].receiver
                       \/ i = Len(Resumed) /\ r[2].receiver = call.receiver
    <3>1. Promised(bt, metric, D, c) /\ Explored(stack, bt, D)
      BY <2>1, <2>10 DEF PrunedInv, c, D
    <3>2. ASSUME NEW i \in DOMAIN stack, NEW r \in Route,
                 r[1].receiver = Resumed[i].receiver, ~Worse(r[1].delay, Resumed[i].delay)
          PROVE  \/ RouteFound(r, bt, D) \/ ToBeCalled(r[2].receiver, Resumed[i].calls)
                 \/ i + 1 \in DOMAIN Resumed /\ Resumed[i + 1].receiver = r[2].receiver
                 \/ i = Len(Resumed) /\ r[2].receiver = call.receiver
      <4>1. r[1].receiver = stack[i].receiver /\ ~Worse(r[1].delay, stack[i].delay)
        BY <2>2, <3>2
      <4>2. \/ RouteFound(r, bt, D) \/ ToBeCalled(r[2].receiver, stack[i].calls)
            \/ i + 1 \in DOMAIN stack /\ stack[i + 1].receiver = r[2].receiver
        BY <3>1, <4>1 DEF Explored
      <4>. QED  BY <2>2, <2>9, <4>2
    <3>. QED  BY <2>2, <3>1, <3>2
  <2>. QED  BY <2>1, <2>2, <2>3, <2>6, <2>7, <2>8, <2>10, CalledKeepsPruned DEF c, D
<1>4. CASE Return
  <2>. DEFINE c == Head(todo)
              l == Len(stack)
              x == Top.receiver
              D == ToSet(delaylist)
  <2>1. /\ UNCHANGED <<ckt, exhaustive, analysis, todo, pc, delaylist, masterlist>> /\ pc = "search"
        /\ stack' = Front(stack) /\ stack # <<>> /\ Top.calls = <<>> /\ todo # <<>>
        /\ metric' = [metric EXCEPT ![x] = Top.delay]
        /\ metric \in [Conn -> Int] /\ ckt \in Circuits /\ Table(bt)
        /\ bt' = Release(bt, <<Top.node>>)
        /\ Leads(stack, bt, ckt.icDelay, Steps, c)
        /\ Following(stack, tag)
    BY <1>1, <1>4 DEF Return, RealInv, Inv, TypeOK, Typed, Kept
  <2>2. /\ l \in DOMAIN stack /\ Top = stack[l] /\ Top \in Frame /\ DOMAIN stack = 1..l
        /\ l \in Nat \ {0} /\ x \in Conn /\ Top.delay \in Int
    BY <1>1, <2>1, TopCall DEF Frame
  <2>3. /\ stack' \in Seq(Frame) /\ DOMAIN stack = DOMAIN stack' \cup {l} /\ l \notin DOMAIN stack'
        /\ \A i \in DOMAIN stack' : stack'[i] = stack[i]
    BY <1>1, <2>1, Popped
  <2>4. /\ l = 1 => x = c /\ Top.delay = 0
        /\ l # 1 => /\ x \in ToSet(Receiver) \ EndPin /\ l - 1 \in DOMAIN stack
                    /\ <<CallAt(bt, ckt.icDelay, stack[l - 1].node),
                         CallAt(bt, ckt.icDelay, stack[l].node)>> \in Steps
    <3>1. ASSUME l = 1 PROVE x = c /\ Top.delay = 0
      <4>1. x = c
        BY <2>1, <2>2, <3>1, FirstFrame
      <4>2. CallAt(bt, ckt.icDelay, stack[1].node).delay = 0
        BY <2>1 DEF Leads, FirstCall
      <4>. QED  BY <2>1, <2>2, <3>1, <4>1, <4>2 DEF Leads
    <3>2. l # 1 => /\ x \in ToSet(Receiver) \ EndPin /\ l - 1 \in DOMAIN stack
                   /\ <<CallAt(bt, ckt.icDelay, stack[l - 1].node),
                        CallAt(bt, ckt.icDelay, stack[l].node)>> \in Steps
      <4>1. l # 1 => l - 1 \in DOMAIN stack
        BY <2>2
      <4>2. l # 1 => /\ stack[l].receiver \in ToSet(Receiver) \ EndPin
                     /\ <<CallAt(bt, ckt.icDelay, stack[l - 1].node),
                          CallAt(bt, ckt.icDelay, stack[l].node)>> \in Steps
        BY <2>1, <2>2 DEF Leads
      <4>. QED  BY <2>2, <4>1, <4>2
    <3>. QED  BY <3>1, <3>2
  <2>5. ToSet(Receiver) \subseteq Conn /\ EndPin \subseteq ToSet(Receiver)
    BY DEF Conn, EndPin
  <2>6. Agree(bt, bt')
    BY <2>1, CountsAgree
  <2>7. \A r : RouteFound(r, bt, D) => RouteFound(r, bt', D)
    BY <1>1, <2>1, <2>6, FoundSame
  <2>8. \A e, d : Found(e, d, bt, D) => Found(e, d, bt', D)
    <3>1. \A p \in D : Sink(bt', p) = Sink(bt, p) /\ bt'[p[1]].delay = bt[p[1]].delay
      <4>1. \A p \in D : p \in Paths \cap Paths'
        BY <2>1 DEF Paths
      <4>. QED  BY <1>1, <2>1, <2>6, <4>1, ListedSame
    <3>. QED  BY <3>1 DEF Found
  <2>9. stack' = <<>> => l = 1
    <3>. SUFFICES ASSUME stack' = <<>> PROVE l = 1
      OBVIOUS
    <3>1. DOMAIN stack' = {} /\ 1 \in DOMAIN stack
      BY <2>2
    <3>. QED  BY <2>3, <3>1
  <2>. HIDE DEF c, l, x, D
  <2>10. ASSUME Tame
         PROVE  /\ Promised(bt', metric', D, c) /\ Explored(stack', bt', D)
                /\ stack' = <<>> => \A r \in Route : FirstRoute(r, c) => RouteFound(r, bt', D)
    <3>1. Promised(bt, metric, D, c) /\ Explored(stack, bt, D)
      BY <2>1, <2>10 DEF PrunedInv, c, D
    <3>2. ASSUME NEW r \in Route, r[1].receiver = x, ~Worse(r[1].delay, Top.delay)
          PROVE  RouteFound(r, bt, D)
      <4>1. \/ RouteFound(r, bt, D) \/ ToBeCalled(r[2].receiver, Top.calls)
            \/ l + 1 \in DOMAIN stack
        BY <2>2, <3>1, <3>2 DEF Explored, x
      <4>2. ~ToBeCalled(r[2].receiver, Top.calls)
        BY <2>1 DEF ToBeCalled, ToSet
      <4>3. l + 1 \notin DOMAIN stack
        BY <2>2
      <4>. QED  BY <4>1, <4>2, <4>3
    <3>3. ASSUME NEW z \in ToSet(Receiver) \ EndPin, metric'[z] # NoMetric(minmax), NEW r \in Route,
                 r[1].receiver = z, ~Worse(r[1].delay, metric'[z])
          PROVE  RouteFound(r, bt', D)
      <4>1. CASE z = x
        <5>1. metric'[z] = Top.delay
          BY <2>1, <2>2, <4>1
        <5>. QED  BY <2>7, <3>2, <3>3, <4>1, <5>1
      <4>2. CASE z # x
        <5>1. metric'[z] = metric[z]
          BY <2>1, <2>5, <4>2
        <5>. QED  BY <2>7, <3>1, <3>3, <5>1 DEF Promised
      <4>. QED  BY <4>1, <4>2
    <3>4. ASSUME NEW e \in EndPin \ {c}, metric'[e] # NoMetric(minmax) PROVE Found(e, metric'[e], bt', D)
      <4>1. metric'[e] = metric[e]
        BY <2>1, <2>4, <2>5
      <4>. QED  BY <2>8, <3>1, <3>4, <4>1 DEF Promised
    <3>5. Promised(bt', metric', D, c)
      BY <3>3, <3>4 DEF Promised
    <3>6. ASSUME NEW i \in DOMAIN stack', NEW r \in Route, r[1].receiver = stack'[i].receiver,
                 ~Worse(r[1].delay, stack'[i].delay)
          PROVE  \/ RouteFound(r, bt', D) \/ ToBeCalled(r[2].receiver, stack'[i].calls)
                 \/ i + 1 \in DOMAIN stack' /\ stack'[i + 1].receiver = r[2].receiver
      <4>1. i \in DOMAIN stack /\ stack'[i] = stack[i] /\ i # l /\ i \in Nat
        BY <2>2, <2>3
      <4>2. \/ RouteFound(r, bt, D) \/ ToBeCalled(r[2].receiver, stack'[i].calls)
            \/ i + 1 \in DOMAIN stack /\ stack[i + 1].receiver = r[2].receiver
        BY <3>1, <3>6, <4>1 DEF Explored
      <4>3. CASE i + 1 = l /\ r[2].receiver = x
        <5>1. l # 1 /\ l - 1 = i
          BY <2>2, <4>1, <4>3
        <5>2. Top.delay = stack[i].delay + Delay(stack[i].receiver)
          <6>1. /\ CallAt(bt, ckt.icDelay, stack[i].node).delay = stack[i].delay
                /\ CallAt(bt, ckt.icDelay, stack[i].node).receiver = stack[i].receiver
                /\ CallAt(bt, ckt.icDelay, stack[l].node).delay = stack[l].delay
            BY <2>1, <2>2, <4>1 DEF Leads, CallAt
          <6>2. <<CallAt(bt, ckt.icDelay, stack[i].node), CallAt(bt, ckt.icDelay, stack[l].node)>> \in Steps
            BY <2>4, <5>1
          <6>. QED  BY <2>1, <2>2, <2>10, <6>1, <6>2, StepDelay DEF Tame
        <5>3. stack[i].delay \in Int /\ Delay(stack[i].receiver) \in Int
          <6>1. stack[i] \in Frame
            BY <1>1, <4>1, LenProperties, ElementOfSeq
          <6>. QED  BY <2>1, <6>1, DelayType DEF Frame, Delay
        <5>4. r[1].delay \in Int /\ r[2].delay = r[1].delay + Delay(r[1].receiver)
          BY RouteIs
        <5>5. ~Worse(r[2].delay, Top.delay)
          BY <3>6, <4>1, <5>2, <5>3, <5>4, Later
        <5>6. r[2].receiver \notin EndPin
          BY <2>4, <4>3, <5>1
        <5>7. Tail(r) \in Route /\ Tail(r)[1] = r[2]
          BY <5>6, RouteGoesOn
        <5>8. RouteFound(Tail(r), bt, D)
          BY <3>2, <4>3, <5>5, <5>7
        <5>9. RouteFound(r, bt, D)
          BY <5>6, <5>8, RouteGoesOn
        <5>. QED  BY <2>7, <5>9
      <4>4. CASE i + 1 # l /\ i + 1 \in DOMAIN stack /\ stack[i + 1].receiver = r[2].receiver
        <5>1. i + 1 \in DOMAIN stack'
          BY <2>3, <4>4
        <5>. QED  BY <2>3, <4>4, <5>1
      <4>. QED  BY <2>2, <2>7, <4>2, <4>3, <4>4 DEF x
    <3>7. Explored(stack', bt', D)
      BY <3>6 DEF Explored
    <3>8. ASSUME stack' = <<>>, NEW r \in Route, FirstRoute(r, c) PROVE RouteFound(r, bt', D)
      <4>1. r[1].receiver = x /\ r[1].delay = Top.delay
        BY <2>4, <2>9, <3>8 DEF FirstRoute
      <4>. QED  BY <2>2, <2>7, <3>2, <4>1, Order
    <3>. QED  BY <3>5, <3>7, <3>8
  <2>11. c' = c /\ (Tame' <=> Tame) /\ Route' = Route
    BY <2>1, PromisesSame DEF c
  <2>12. ASSUME Tame
         PROVE  /\ Promised(bt, metric, ToSet(delaylist), c)' /\ Explored(stack, bt, ToSet(delaylist))'
                /\ (stack = <<>>)' => \A r \in Route :
                     FirstRoute(r, c) => RouteFound(r, bt, ToSet(delaylist))'
    <3>1. /\ Promised(bt', metric', ToSet(delaylist'), c') /\ Explored(stack', bt', ToSet(delaylist'))
          /\ stack' = <<>> => \A r \in Route : FirstRoute(r, c) => RouteFound(r, bt', ToSet(delaylist'))
      BY <2>1, <2>10, <2>11, <2>12 DEF D
    <3>2. /\ Promised(bt, metric, ToSet(delaylist), c)' <=> Promised(bt', metric', ToSet(delaylist'), c')
          /\ Explored(stack, bt, ToSet(delaylist))' <=> Explored(stack', bt', ToSet(delaylist'))
      BY <2>1, PromisesSame
    <3>3. \A r : RouteFound(r, bt, ToSet(delaylist))' <=> RouteFound(r, bt', ToSet(delaylist'))
      BY <2>1, PromisesSame
    <3>. QED  BY <3>1, <3>2, <3>3
  <2>. QED  BY <2>1, <2>11, <2>12 DEF PrunedInv, FirstRoute, c
<1>5. CASE SearchEnds \/ Report \/ FreePath \/ AnalysisEnds
  BY <1>5 DEF SearchEnds, Report, FreePath, AnalysisEnds, PrunedInv
<1>6. CASE UNCHANGED vars
  <2>1. UNCHANGED <<ckt, analysis, todo, pc, stack, bt, metric, delaylist>>
    BY <1>6 DEF vars, search
  <2>. DEFINE c == Head(todo)
  <2>2. c' = c /\ (Tame' <=> Tame) /\ Route' = Route
    BY <2>1, PromisesSame
  <2>3. /\ Promised(bt, metric, ToSet(delaylist), c)' <=> Promised(bt', metric', ToSet(delaylist'), c')
        /\ Explored(stack, bt, ToSet(delaylist))' <=> Explored(stack', bt', ToSet(delaylist'))
    BY <2>1, PromisesSame
  <2>4. \A r : RouteFound(r, bt, ToSet(delaylist))' <=> RouteFound(r, bt', ToSet(delaylist'))
    BY <2>1, PromisesSame
  <2>. HIDE DEF c
  <2>5. stack' = stack /\ bt' = bt /\ metric' = metric /\ delaylist' = delaylist /\ pc' = pc
    BY <2>1
  <2>6. /\ Promised(bt, metric, ToSet(delaylist), c)' <=> Promised(bt, metric, ToSet(delaylist), c)
        /\ Explored(stack, bt, ToSet(delaylist))' <=> Explored(stack, bt, ToSet(delaylist))
        /\ \A r : RouteFound(r, bt, ToSet(delaylist))' <=> RouteFound(r, bt, ToSet(delaylist))
    BY <2>2, <2>3, <2>4, <2>5
  <2>. QED  BY <2>2, <2>5, <2>6 DEF PrunedInv, FirstRoute, c
<1>. QED  BY <1>2, <1>3, <1>4, <1>5, <1>6 DEF Next

-----------------------------------------------------------------------------
(* A search is complete with the option -e, and without it when there are no  *)
(* loops and edges are alike.                                                 *)
Thorough == exhaustive \/ Tame

LEMMA ThoroughSame ==
  ASSUME UNCHANGED <<ckt, exhaustive, analysis>>
  PROVE  Thorough' <=> Thorough
<1>1. EdgesAlike' <=> EdgesAlike
  BY DEF EdgesAlike
<1>2. InRange' <=> InRange
  BY ReachSame
<1>3. NoCycles' <=> NoCycles
  BY WaysSame, StepsSame DEF NoCycles, Points
<1>. QED  BY <1>1, <1>2, <1>3 DEF Thorough, Tame

\* When a search is over, each way has been found.
LEMMA WayIsRoute ==
  ASSUME ckt \in Circuits, EdgesAlike, NEW c \in Start, NEW w \in Way(c)
  PROVE  w \in Route /\ FirstRoute(w, c)
<1>1. /\ w \in Seq(AnyCall) /\ Len(w) > 1 /\ w[1] = FirstCall(c)
      /\ \A i \in 1..(Len(w) - 1) : <<w[i], w[i + 1]>> \in Steps
      /\ \A i \in 2..(Len(w) - 1) : w[i].receiver \notin EndPin
      /\ w[Len(w)].receiver \in EndPin
  BY DEF Way, Walk
<1>2. \A i \in 1..(Len(w) - 1) : Onto(w[i], w[i + 1])
  BY <1>1, WayReceives, StepDelay DEF Onto
<1>. QED  BY <1>1, <1>2 DEF Route, FirstRoute, FirstCall

LEMMA SearchFinds ==
  ASSUME RealInv, ExhaustiveInv, PrunedInv, Thorough, pc = "search", stack = <<>>,
         NEW w \in Way(Head(todo))
  PROVE  Covered(w, bt, ToSet(delaylist))
<1>. DEFINE c == Head(todo)
<1>1. ckt \in Circuits /\ todo # <<>> /\ AllFrom(bt, ToSet(delaylist), c) /\ DOMAIN stack = {}
  BY DEF RealInv, Inv, TypeOK
<1>2. CASE exhaustive
  BY <1>1, <1>2 DEF ExhaustiveInv, Pending
<1>3. CASE Tame
  <2>1. c \in Start
    BY <1>1, FromAPoint
  <2>2. w \in Route /\ FirstRoute(w, c)
    BY <1>1, <1>3, <2>1, WayIsRoute DEF Tame
  <2>3. RouteFound(w, bt, ToSet(delaylist))
    BY <1>3, <2>2 DEF PrunedInv
  <2>. QED  BY <1>1, <2>2, <2>3 DEF RouteFound, Found, Covered, Covers, FirstRoute, AllFrom
<1>. QED  BY <1>2, <1>3 DEF Thorough

\* From a starting point that is done, each way is listed with one as bad.
MasterCovers ==
  Thorough /\ analysis <= 4 /\ pc # "free" =>
    \A c \in ToSet(Points) \ ToSet(todo) : \A w \in Way(c) : Covered(w, bt, ToSet(masterlist))
WaysInv == EndsInv /\ ExhaustiveInv /\ PrunedInv /\ MasterCovers

\* A step that leaves the list leaves what it covers.
LEMMA MasterStays ==
  ASSUME RealInv, Inv', MasterCovers, Agree(bt, bt'), pc # "free",
         UNCHANGED <<ckt, exhaustive, analysis, todo, masterlist>>
  PROVE  MasterCovers'
<1>1. Points' = Points /\ (Thorough' <=> Thorough) /\ \A c : Way(c)' = Way(c)
  BY WaysSame, ThoroughSame DEF Points
<1>2. ASSUME NEW w, Covered(w, bt, ToSet(masterlist)) PROVE Covered(w, bt, ToSet(masterlist))'
  <2>1. ASSUME ~Wired(w[Len(w)].receiver) PROVE \E p \in ToSet(masterlist) : Covers(p, bt', w)
    <3>1. PICK p \in ToSet(masterlist) : Covers(p, bt, w)
      BY <1>2, <2>1 DEF Covered
    <3>2. p \in Paths \cap Paths'
      BY DEF Paths
    <3>3. Covers(p, bt', w)
      BY <3>1, <3>2, ListedSame DEF Covers
    <3>. QED  BY <3>3
  <2>2. Covered(w, bt', ToSet(masterlist'))
    BY <2>1 DEF Covered
  <2>. QED  BY <2>2, SamePrimed
<1>. QED  BY <1>1, <1>2 DEF MasterCovers

LEMMA MasterKept ==
  ASSUME RealInv, RealInv', ExhaustiveInv, PrunedInv, MasterCovers, [Next]_vars
  PROVE  MasterCovers'
<1>1. Inv /\ Inv'
  BY DEF RealInv
<1>2. CASE StartSearch
  <2>1. UNCHANGED <<ckt, exhaustive, analysis, todo, masterlist>> /\ pc # "free"
    BY <1>2 DEF StartSearch
  <2>2. Agree(bt, bt')
    BY <1>1, <1>2, <2>1, StartCalls, StartGoes, CalledReal
  <2>. QED  BY <1>1, <2>1, <2>2, MasterStays
<1>3. CASE Recurse
  <2>1. UNCHANGED <<ckt, exhaustive, analysis, todo, masterlist>> /\ pc # "free"
    BY <1>3 DEF Recurse
  <2>2. /\ Calling(Head(Top.calls), Resumed, tag, metric)
        /\ find_path_delay(Head(Top.calls), Resumed, tag, metric)
    BY <1>1, <1>3, RecurseCalls
  <2>3. Agree(bt, bt')
    BY <1>3, <2>1, <2>2, RecurseGoes, CalledReal
  <2>. QED  BY <1>1, <2>1, <2>3, MasterStays
<1>4. CASE Return
  <2>1. /\ UNCHANGED <<ckt, exhaustive, analysis, todo, masterlist>> /\ pc # "free"
        /\ bt' = Release(bt, <<Top.node>>) /\ Table(bt)
    BY <1>1, <1>4 DEF Return, Inv, TypeOK, Typed, Kept
  <2>2. Agree(bt, bt')
    BY <2>1, CountsAgree
  <2>. QED  BY <1>1, <2>1, <2>2, MasterStays
<1>5. CASE SearchEnds
  <2>. DEFINE c == Head(todo)
  <2>1. /\ masterlist' = delaylist \o masterlist /\ todo' = Tail(todo)
        /\ pc = "search" /\ stack = <<>> /\ DOMAIN stack = {}
        /\ UNCHANGED <<ckt, exhaustive, analysis, bt>>
    BY <1>5 DEF SearchEnds
  <2>2. /\ todo # <<>> /\ todo \in Seq(Start) /\ NoneTwice(todo)
        /\ delaylist \in Seq(Seq(Number)) /\ masterlist \in Seq(Seq(Number))
        /\ Listed(delaylist, masterlist)
    BY <1>1, <2>1 DEF RealInv, Inv, TypeOK, Typed, Kept
  <2>3. ToSet(todo') = ToSet(todo) \ {c}
    BY <2>1, <2>2, OneFewer
  <2>4. ToSet(masterlist') = ToSet(delaylist) \cup ToSet(masterlist)
    BY <2>1, <2>2, Linked DEF Listed
  <2>5. Points' = Points /\ (Thorough' <=> Thorough) /\ \A d : Way(d)' = Way(d)
    BY <2>1, WaysSame, ThoroughSame DEF Points
  <2>6. Thorough => \A w \in Way(c) : Covered(w, bt, ToSet(delaylist))
    BY <2>1, SearchFinds
  <2>. HIDE DEF c
  <2>7. ASSUME Thorough, analysis <= 4,
               NEW d \in ToSet(Points) \ ToSet(todo'), NEW w \in Way(d)
        PROVE  Covered(w, bt, ToSet(masterlist))'
    <3>1. d = c \/ d \in ToSet(Points) \ ToSet(todo)
      BY <2>3
    <3>2. Covered(w, bt, ToSet(delaylist)) \/ Covered(w, bt, ToSet(masterlist))
      <4>1. CASE d = c
        BY <2>6, <2>7, <4>1
      <4>2. CASE d \in ToSet(Points) \ ToSet(todo)
        <5>1. pc # "free"
          BY <2>1
        <5>. QED  BY <2>7, <4>2, <5>1 DEF MasterCovers
      <4>. QED  BY <3>1, <4>1, <4>2
    <3>3. Covered(w, bt', ToSet(masterlist'))
      BY <2>1, <2>4, <3>2 DEF Covered
    <3>. QED  BY <2>1, <3>3, SamePrimed
  <2>. QED  BY <2>1, <2>5, <2>7 DEF MasterCovers
<1>6. CASE Report \/ FreePath
  <2>1. pc' = "free"
    BY <1>6 DEF Report, FreePath
  <2>. QED  BY <2>1 DEF MasterCovers
<1>7. CASE AnalysisEnds
  <2>1. /\ analysis' = analysis + 1
        /\ todo' = (IF analysis < Len(Analyses) THEN Analyses[analysis + 1][1] ELSE <<>>)
        /\ Len(Analyses) = 4 /\ analysis \in 1..5
    BY <1>1, <1>7 DEF AnalysisEnds, Analyses, Inv, TypeOK
  <2>2. analysis' <= 4 => ToSet(Points') = ToSet(todo')
    BY <2>1 DEF Points
  <2>. QED  BY <2>2 DEF MasterCovers
<1>8. CASE UNCHANGED vars
  <2>1. UNCHANGED <<ckt, exhaustive, analysis, todo, pc, bt, masterlist>>
    BY <1>8 DEF vars, search
  <2>2. Agree(bt, bt')
    BY <2>1 DEF Agree
  <2>3. CASE pc = "free"
    BY <2>1, <2>3 DEF MasterCovers
  <2>4. CASE pc # "free"
    BY <1>1, <2>1, <2>2, <2>4, MasterStays
  <2>. QED  BY <2>3, <2>4
<1>. QED  BY <1>2, <1>3, <1>4, <1>5, <1>6, <1>7, <1>8 DEF Next

(* What calls still to be made, records and metrics say of the ways that the  *)
(* search has covered is kept by every step of it.                            *)
THEOREM WaysInvariance == Spec => []WaysInv
<1>1. ASSUME Init PROVE ExhaustiveInv /\ PrunedInv /\ MasterCovers
  <2>1. /\ analysis = 1 /\ todo = ClockPin /\ pc = "start"
    BY <1>1 DEF Init
  <2>2. Points = todo
    BY <2>1 DEF Points, Analyses
  <2>. QED  BY <2>1, <2>2 DEF MasterCovers, ExhaustiveInv, PrunedInv
<1>2. ASSUME WaysInv, EndsInv', [Next]_vars PROVE ExhaustiveInv' /\ PrunedInv' /\ MasterCovers'
  <2>1. /\ RealInv /\ RealInv' /\ Marked(stack, tag) /\ Fresh
        /\ ExhaustiveInv /\ PrunedInv /\ MasterCovers
    BY <1>2 DEF WaysInv, EndsInv
  <2>2. ExhaustiveInv'
    BY <1>2, <2>1, ExhaustiveKept
  <2>3. PrunedInv'
    BY <1>2, <2>1, PrunedKept
  <2>4. MasterCovers'
    BY <1>2, <2>1, MasterKept
  <2>. QED  BY <2>2, <2>3, <2>4
<1>. QED  BY <1>1, <1>2, EndsInvariance, PTL DEF Spec, WaysInv

(* "only the path with the longest delay is kept": of a way that a signal can *)
(* take from a starting point to a register or an output, what is reported is *)
(* a path between the same two that is as long (in the minimum analyses as    *)
(* short), in whichever order the calls find and replace paths: with the      *)
(* option -e whatever loops there are, and without it when there are none and *)
(* both edges take the same time.  The exception are ends with a wire delay.  *)
WorstIsReported ==
  pc = "start" /\ todo = <<>> /\ ~Done /\ Thorough =>
    \A s \in ToSet(Points) : \A w \in Way(s) : ~Wired(w[Len(w)].receiver) =>
      \E p \in ToSet(masterlist) : /\ StartOf(p) = s /\ EndOf(p) = w[Len(w)].receiver
                                   /\ ~Worse(w[Len(w)].delay, bt[p[1]].delay)
\* In every netlist, as each search covers all ways from its start.
THEOREM WorstPathsAreReported == Spec => []WorstIsReported
<1>1. ASSUME WaysInv, pc = "start", todo = <<>>, ~Done, Thorough,
             NEW s \in ToSet(Points), NEW w \in Way(s), ~Wired(w[Len(w)].receiver)
      PROVE  \E p \in ToSet(masterlist) : /\ StartOf(p) = s /\ EndOf(p) = w[Len(w)].receiver
                                          /\ ~Worse(w[Len(w)].delay, bt[p[1]].delay)
  <2>1. analysis <= 4
    BY <1>1 DEF Done, Analyses, WaysInv, EndsInv, RealInv, Inv, TypeOK
  <2>2. s \in ToSet(Points) \ ToSet(todo)
    BY <1>1 DEF ToSet
  <2>3. Covered(w, bt, ToSet(masterlist))
    BY <1>1, <2>1, <2>2 DEF WaysInv, MasterCovers
  <2>4. PICK p \in ToSet(masterlist) : Covers(p, bt, w)
    BY <1>1, <2>3 DEF Covered
  <2>5. w[1].receiver = s
    BY DEF Way, Walk, FirstCall
  <2>. QED  BY <2>4, <2>5 DEF Covers, StartOf, EndOf, Source, Sink
<1>2. WaysInv => WorstIsReported
  BY <1>1 DEF WorstIsReported
<1>. QED  BY <1>2, WaysInvariance, PTL

-----------------------------------------------------------------------------
(* The ways that the property of the runs enumerates are those of the walks. *)
(* It keeps what a walk has passed and the call that it ends with.           *)
Begins(s) == {[passed |-> {}, last |-> s, dir |-> SourceDir(s), delay |-> 0]}
Further(w) ==
  IF IsEnd(w) THEN {}
  ELSE {[passed |-> w.passed \cup {w.last}, last |-> call.receiver,
         dir |-> call.dir, delay |-> call.delay] :
          call \in {k \in Onwards(w) : k.receiver \notin w.passed \cup {w.last}}}
IsStep(f, s) ==
  f = [n \in 0..Cardinality(Conn) |->
         IF n = 0 THEN Begins(s) ELSE UNION {Further(w) : w \in f[n - 1]}]
StepsOf(s) == CHOOSE f : IsStep(f, s)

Passed(w) == {w[i].receiver : i \in 1..(Len(w) - 1)}
Taken(w) == [passed |-> Passed(w), last |-> w[Len(w)].receiver,
             dir |-> w[Len(w)].dir, delay |-> w[Len(w)].delay]

LEMMA WaysAreSteps ==
  ASSUME NEW s
  PROVE  Ways(s) = UNION {StepsOf(s)[n] : n \in 0..Cardinality(Conn)}
BY Zenon DEF Ways, StepsOf, IsStep, Further, Begins

LEMMA ConnFinite == IsFiniteSet(Conn) /\ Cardinality(Conn) \in Nat
<1>1. IsFiniteSet(Conn)
  BY ListFinite, ConnectionsAssumption, FS_Union DEF Conn
<1>. QED  BY <1>1, FS_CardinalityType

\* The recursive function of Ways exists: it can be made longer step by step.
LEMMA StepsExist ==
  ASSUME NEW s
  PROVE  IsStep(StepsOf(s), s)
<1>. DEFINE N == Cardinality(Conn)
            Upto(f, m) == f = [n \in 0..m |-> IF n = 0 THEN Begins(s)
                                              ELSE UNION {Further(w) : w \in f[n - 1]}]
            T == {m \in 0..N : \E f : Upto(f, m)}
<1>1. N \in Nat
  BY ConnFinite
<1>. HIDE DEF N
<1>2. 0 \in T
  <2>. DEFINE f == [n \in 0..0 |-> Begins(s)]
  <2>1. Upto(f, 0)
    <3>1. \A n \in 0..0 : n = 0
      OBVIOUS
    <3>. QED  BY <3>1
  <2>2. 0 \in 0..N
    BY <1>1
  <2>. HIDE DEF f
  <2>. QED  BY <2>1, <2>2
<1>3. ASSUME NEW i \in 1..N, i - 1 \in T PROVE i \in T
  <2>1. PICK f : Upto(f, i - 1)
    BY <1>3
  <2>. DEFINE g == [n \in 0..i |-> IF n = 0 THEN Begins(s)
                                   ELSE IF n = i THEN UNION {Further(w) : w \in f[i - 1]} ELSE f[n]]
  <2>2. ASSUME NEW n \in 0..(i - 1) PROVE g[n] = f[n]
    <3>1. n \in 0..i /\ n # i
      BY <1>1
    <3>2. f[0] = Begins(s)
      <4>1. 0 \in 0..(i - 1)
        BY <1>1
      <4>. QED  BY <2>1, <4>1
    <3>. QED  BY <3>1, <3>2
  <2>3. ASSUME NEW n \in 0..i, n # 0 PROVE g[n] = UNION {Further(w) : w \in f[n - 1]}
    <3>1. CASE n = i
      BY <2>3, <3>1
    <3>2. CASE n # i
      <4>1. n \in 0..(i - 1)
        BY <1>1, <3>2
      <4>2. f[n] = UNION {Further(w) : w \in f[n - 1]}
        BY <2>1, <2>3, <4>1
      <4>. QED  BY <2>2, <4>1, <4>2
    <3>. QED  BY <3>1, <3>2
  <2>4. g[0] = Begins(s) /\ g = [n \in 0..i |-> g[n]]
    BY <1>1
  <2>. HIDE DEF g
  <2>5. ASSUME NEW n \in 0..i
        PROVE  g[n] = IF n = 0 THEN Begins(s) ELSE UNION {Further(w) : w \in g[n - 1]}
    <3>1. CASE n = 0
      BY <2>4, <3>1
    <3>2. CASE n # 0
      <4>1. n - 1 \in 0..(i - 1)
        BY <1>1, <3>2
      <4>. QED  BY <2>2, <2>3, <3>2, <4>1
    <3>. QED  BY <3>1, <3>2
  <2>6. Upto(g, i)
    BY <2>4, <2>5
  <2>7. i \in 0..N
    BY <1>1
  <2>. QED  BY <2>6, <2>7
<1>4. \A i \in 0..N : i \in T
  <2>. HIDE DEF T
  <2>. QED  BY <1>1, <1>2, <1>3, Induction
<1>5. N \in 0..N
  BY <1>1
<1>6. \E f : Upto(f, N)
  BY <1>4, <1>5
<1>. QED  BY <1>6 DEF StepsOf, IsStep, N

LEMMA StepAt ==
  ASSUME NEW s
  PROVE  /\ StepsOf(s)[0] = Begins(s)
         /\ \A n \in 1..Cardinality(Conn) :
              StepsOf(s)[n] = UNION {Further(w) : w \in StepsOf(s)[n - 1]}
<1>. DEFINE N == Cardinality(Conn)
            f == StepsOf(s)
<1>1. N \in Nat
  BY ConnFinite
<1>2. f = [n \in 0..N |-> IF n = 0 THEN Begins(s) ELSE UNION {Further(w) : w \in f[n - 1]}]
  BY StepsExist DEF IsStep
<1>. HIDE DEF N, f
<1>3. 0 \in 0..N /\ \A n \in 1..N : n \in 0..N /\ n # 0
  BY <1>1
<1>4. f[0] = Begins(s)
  BY <1>2, <1>3
<1>5. ASSUME NEW n \in 1..N PROVE f[n] = UNION {Further(w) : w \in f[n - 1]}
  BY <1>2, <1>3
<1>. QED  BY <1>4, <1>5 DEF N, f

LEMMA LastOne ==
  ASSUME NEW n \in Nat \ {0}
  PROVE  n \in 1..n /\ (n # 1 => n \in 2..n)
OBVIOUS

LEMMA WalkIs ==
  ASSUME NEW c, NEW w \in Walk(c)
  PROVE  /\ w \in Seq(AnyCall) /\ DOMAIN w = 1..Len(w) /\ Len(w) \in Nat \ {0}
         /\ \A i \in 1..Len(w) : w[i] \in AnyCall /\ w[i].receiver \in Conn
         /\ w[1] = FirstCall(c) /\ w[1].receiver = c
<1>1. w \in Seq(AnyCall) /\ w # <<>> /\ w[1] = FirstCall(c)
  BY DEF Walk
<1>2. DOMAIN w = 1..Len(w) /\ Len(w) \in Nat \ {0}
  BY <1>1, EmptySeq, LenProperties
<1>3. \A i \in 1..Len(w) : w[i] \in AnyCall
  BY <1>1, ElementOfSeq
<1>. QED  BY <1>1, <1>2, <1>3 DEF FirstCall, AnyCall

\* A connection that a walk goes on from is no output.
LEMMA WalkGoesOn ==
  ASSUME NEW c \in Start, NEW w \in Walk(c), NEW i \in 1..Len(w),
         i = 1 \/ (w[i].receiver \in ToSet(Receiver) /\ w[i].receiver \notin EndPin)
  PROVE  w[i].receiver \in ToSet(InputPin) \/ HasPin(w[i].receiver)
<1>1. CASE i = 1
  BY <1>1, WalkIs, Pins DEF Start, HasPin
<1>2. CASE w[i].receiver \in ToSet(Receiver) /\ w[i].receiver \notin EndPin
  BY <1>2 DEF EndPin
<1>. QED  BY <1>1, <1>2

LEMMA WalkReceives ==
  ASSUME ckt \in Circuits, NEW c \in Start, NEW w \in Walk(c), NEW i \in 2..Len(w)
  PROVE  w[i].receiver \in ToSet(Receiver)
<1>. DEFINE n == Len(w)
            T == {j \in 0..(n - 1) : j = 0 \/ w[j + 1].receiver \in ToSet(Receiver)}
<1>1. /\ n \in Nat \ {0} /\ i \in 2..n
      /\ \A j \in 1..(n - 1) : <<w[j], w[j + 1]>> \in Steps
      /\ \A j \in 2..(n - 1) : w[j].receiver \notin EndPin
  BY WalkIs DEF Walk
<1>2. \A j \in 1..n : j = 1 \/ (w[j].receiver \in ToSet(Receiver) /\ w[j].receiver \notin EndPin) =>
        w[j].receiver \in ToSet(InputPin) \/ HasPin(w[j].receiver)
  BY WalkGoesOn
<1>. HIDE DEF n
<1>3. 0 \in T
  BY <1>1
<1>4. ASSUME NEW j \in 1..(n - 1), j - 1 \in T PROVE j \in T
  <2>1. j \in 0..(n - 1) /\ j \in 1..n /\ (j - 1) + 1 = j /\ (j = 1 \/ j \in 2..(n - 1))
    BY <1>1
  <2>2. j = 1 \/ w[j].receiver \in ToSet(Receiver)
    <3>1. j - 1 = 0 \/ w[(j - 1) + 1].receiver \in ToSet(Receiver)
      BY <1>4
    <3>2. j - 1 = 0 => j = 1
      BY <1>1
    <3>. QED  BY <2>1, <3>1, <3>2
  <2>3. w[j].receiver \in ToSet(InputPin) \/ HasPin(w[j].receiver)
    BY <1>1, <1>2, <2>1, <2>2
  <2>4. w[j + 1].receiver \in ToSet(Receiver)
    BY <1>1, <2>3, StepReceives
  <2>. QED  BY <2>1, <2>4
<1>5. n - 1 \in Nat /\ i - 1 \in 0..(n - 1) /\ (i - 1) + 1 = i /\ i - 1 # 0
  BY <1>1
<1>6. \A j \in 0..(n - 1) : j \in T
  <2>. HIDE DEF T
  <2>. QED  BY <1>3, <1>4, <1>5, Induction
<1>7. i - 1 \in T
  BY <1>5, <1>6
<1>8. i - 1 = 0 \/ w[(i - 1) + 1].receiver \in ToSet(Receiver)
  BY <1>7
<1>. QED  BY <1>5, <1>8

LEMMA WalkShort ==
  ASSUME NEW c, NEW w \in Walk(c)
  PROVE  Len(w) <= Cardinality(Conn)
<1>. DEFINE n == Len(w)
            f == [i \in 1..n |-> w[i].receiver]
<1>1. /\ n \in Nat \ {0} /\ \A i \in 1..n : w[i].receiver \in Conn
      /\ \A i, j \in 1..n : i # j => w[i].receiver # w[j].receiver
  BY WalkIs DEF Walk
<1>. HIDE DEF n
<1>2. f \in Injection(1..n, Conn)
  BY <1>1 DEF Injection, IsInjective
<1>. HIDE DEF f
<1>3. Cardinality(1..n) <= Cardinality(Conn)
  BY <1>2, ConnFinite, FS_Injection
<1>4. Cardinality(1..n) = n
  <2>1. Cardinality(1..n) = IF 1 <= n THEN (n - 1) + 1 ELSE 0
    BY <1>1, FS_Interval
  <2>. QED  BY <1>1, <2>1
<1>. QED  BY <1>3, <1>4 DEF n

\* Where the walk ends, and what it takes on.
LEMMA TakenEnds ==
  ASSUME ckt \in Circuits, NEW c \in Start, NEW w \in Walk(c)
  PROVE  IsEnd(Taken(w)) <=> Len(w) > 1 /\ w[Len(w)].receiver \in EndPin
<1>. DEFINE n == Len(w)
<1>1. n \in Nat \ {0}
  BY WalkIs
<1>2. n # 1 => w[n].receiver \in ToSet(Receiver)
  <2>1. n # 1 => n \in 2..n
    BY <1>1, LastOne
  <2>. QED  BY <2>1, WalkReceives
<1>. HIDE DEF n
<1>3. Passed(w) # {} <=> n > 1
  <2>1. CASE n = 1
    <3>1. 1..(n - 1) = {}
      BY <2>1
    <3>. QED  BY <2>1, <3>1 DEF Passed, n
  <2>2. CASE n # 1
    <3>1. 1 \in 1..(n - 1) /\ n > 1
      BY <1>1, <2>2
    <3>. QED  BY <3>1 DEF Passed, n
  <2>. QED  BY <2>1, <2>2
<1>4. /\ Taken(w).passed = Passed(w) /\ Taken(w).last = w[n].receiver
  BY DEF Taken, n
<1>5. n > 1 <=> n # 1
  BY <1>1
<1>. QED  BY <1>2, <1>3, <1>4, <1>5 DEF IsEnd, EndPin, n

LEMMA TakenOn ==
  ASSUME NEW c, NEW w \in Walk(c), NEW call \in AnyCall
  PROVE  Taken(Append(w, call)) =
           [passed |-> Taken(w).passed \cup {Taken(w).last}, last |-> call.receiver,
            dir |-> call.dir, delay |-> call.delay]
<1>. DEFINE n == Len(w)
            v == Append(w, call)
<1>1. n \in Nat \ {0} /\ w \in Seq(AnyCall)
  BY WalkIs
<1>2. Len(v) = n + 1 /\ v[n + 1] = call /\ \A i \in 1..n : v[i] = w[i]
  BY <1>1, AppendProperties
<1>. HIDE DEF v
<1>3. Passed(v) = Passed(w) \cup {w[n].receiver}
  <2>. HIDE DEF n
  <2>1. (n + 1) - 1 = n /\ 1..n = 1..(n - 1) \cup {n}
    BY <1>1
  <2>2. Passed(v) = {w[i].receiver : i \in 1..n}
    BY <1>2, <2>1 DEF Passed
  <2>3. Passed(w) = {w[i].receiver : i \in 1..(n - 1)}
    BY DEF Passed, n
  <2>. QED  BY <2>1, <2>2, <2>3
<1>. QED  BY <1>2, <1>3 DEF Taken, v

\* What may come next.
LEMMA OnwardsAre ==
  ASSUME ckt \in Circuits, NEW c \in Start, NEW w \in Walk(c),
         Len(w) = 1 \/ w[Len(w)].receiver \notin EndPin
  PROVE  \A call : call \in Onwards(Taken(w)) <=> <<w[Len(w)], call>> \in Steps
<1>. DEFINE k == w[Len(w)]
<1>1. /\ Len(w) \in 1..Len(w) /\ k \in AnyCall
      /\ Len(w) # 1 => Len(w) \in 2..Len(w)
  <2>1. Len(w) \in Nat \ {0}
    BY WalkIs
  <2>2. Len(w) \in 1..Len(w) /\ (Len(w) # 1 => Len(w) \in 2..Len(w))
    BY <2>1, LastOne
  <2>. QED  BY <2>2, WalkIs
<1>2. k.receiver \in ToSet(InputPin) \/ HasPin(k.receiver)
  BY <1>1, WalkReceives, WalkGoesOn
<1>3. Taken(w).last = k.receiver /\ Taken(w).dir = k.dir /\ Taken(w).delay = k.delay
  BY DEF Taken
<1>. HIDE DEF k
<1>4. Onwards(Taken(w)) = ToSet(Onward(k.receiver, k.dir, k.delay))
  BY <1>3 DEF Onwards, ToSet
<1>5. Onward(k.receiver, k.dir, k.delay) \in Seq(Call)
  BY <1>1, <1>2, OnwardType DEF AnyCall
<1>6. ToSet(Onward(k.receiver, k.dir, k.delay)) \subseteq AnyCall
  <2>1. Call \subseteq AnyCall
    BY DEF Call, AnyCall, Conn
  <2>2. ToSet(Onward(k.receiver, k.dir, k.delay)) \subseteq Call
    BY <1>5, ElementOfSeq, LenProperties DEF ToSet
  <2>. QED  BY <2>1, <2>2
<1>7. \A call : <<k, call>> \in Steps <=> call \in ToSet(Onward(k.receiver, k.dir, k.delay))
  BY <1>1, <1>6 DEF Steps
<1>. QED  BY <1>4, <1>7 DEF k

LEMMA StartsType ==
  ASSUME NEW c \in Start
  PROVE  FirstCall(c) \in AnyCall
BY Pins DEF FirstCall, AnyCall, SourceDir, Dir

\* All but the last of a walk.
Before(w, v, n) ==
  /\ Len(v) = n /\ w = Append(v, w[n + 1]) /\ <<v[n], w[n + 1]>> \in Steps
  /\ n = 1 \/ v[n].receiver \notin EndPin
  /\ \A i \in 1..n : v[i].receiver # w[n + 1].receiver
LEMMA WalkBack ==
  ASSUME NEW c, NEW w \in Walk(c), NEW n \in Nat \ {0}, Len(w) = n + 1
  PROVE  \E v \in Walk(c) : Before(w, v, n)
<1>. DEFINE v == [i \in 1..n |-> w[i]]
            l == w[n + 1]
<1>1. /\ w \in Seq(AnyCall) /\ DOMAIN w = 1..(n + 1) /\ w[1] = FirstCall(c)
      /\ \A i \in 1..(n + 1) : w[i] \in AnyCall
      /\ \A i \in 1..((n + 1) - 1) : <<w[i], w[i + 1]>> \in Steps
      /\ \A i \in 2..((n + 1) - 1) : w[i].receiver \notin EndPin
      /\ \A i, j \in 1..(n + 1) : i # j => w[i].receiver # w[j].receiver
  BY WalkIs DEF Walk
<1>2. \A i \in 1..n : i \in 1..(n + 1) /\ i \in 1..((n + 1) - 1) /\ i # n + 1
  OBVIOUS
<1>3. /\ v \in Seq(AnyCall) /\ Len(v) = n /\ DOMAIN v = 1..n /\ \A i \in 1..n : v[i] = w[i]
      /\ v # <<>>
  <2>1. v \in Seq(AnyCall) /\ Len(v) = n /\ DOMAIN v = 1..n /\ \A i \in 1..n : v[i] = w[i]
    BY <1>1, <1>2
  <2>. HIDE DEF v
  <2>. QED  BY <2>1, EmptySeq
<1>. HIDE DEF v
<1>4. 1 \in 1..n /\ n \in 1..n
  OBVIOUS
<1>5. ASSUME NEW i \in 1..(n - 1) PROVE <<v[i], v[i + 1]>> \in Steps
  <2>1. i \in 1..n /\ i + 1 \in 1..n
    OBVIOUS
  <2>. QED  BY <1>1, <1>2, <1>3, <2>1
<1>6. ASSUME NEW i \in 2..(n - 1) PROVE v[i].receiver \notin EndPin
  <2>1. i \in 1..n /\ i \in 2..((n + 1) - 1)
    OBVIOUS
  <2>. QED  BY <1>1, <1>3, <2>1
<1>7. \A i, j \in DOMAIN v : i # j => v[i].receiver # v[j].receiver
  BY <1>1, <1>2, <1>3
<1>8. v \in Walk(c)
  BY <1>1, <1>3, <1>4, <1>5, <1>6, <1>7 DEF Walk
<1>9. w = Append(v, l)
  <2>1. l \in AnyCall
    <3>1. n + 1 \in 1..(n + 1)
      OBVIOUS
    <3>. QED  BY <1>1, <3>1
  <2>. HIDE DEF l
  <2>2. /\ Append(v, l) \in Seq(AnyCall) /\ Len(Append(v, l)) = n + 1
        /\ \A i \in 1..n : Append(v, l)[i] = v[i]
        /\ Append(v, l)[n + 1] = l
    BY <1>3, <2>1, AppendProperties
  <2>3. ASSUME NEW i \in 1..(n + 1) PROVE w[i] = Append(v, l)[i]
    <3>1. i \in 1..n \/ i = n + 1
      OBVIOUS
    <3>. QED  BY <1>3, <2>2, <3>1 DEF l
  <2>. QED  BY <1>1, <2>2, <2>3, SeqEqual
<1>10. <<v[n], l>> \in Steps /\ (n = 1 \/ v[n].receiver \notin EndPin)
  <2>1. n = 1 \/ n \in 2..((n + 1) - 1)
    OBVIOUS
  <2>. QED  BY <1>1, <1>2, <1>3, <1>4, <2>1
<1>11. \A i \in 1..n : v[i].receiver # l.receiver
  <2>1. n + 1 \in 1..(n + 1)
    OBVIOUS
  <2>. QED  BY <1>1, <1>2, <1>3, <2>1
<1>. QED  BY <1>3, <1>8, <1>9, <1>10, <1>11 DEF Before

LEMMA Unpassed ==
  ASSUME NEW c, NEW w \in Walk(c), NEW y
  PROVE  y \notin Taken(w).passed \cup {Taken(w).last} <=> \A i \in 1..Len(w) : w[i].receiver # y
<1>. DEFINE n == Len(w)
<1>1. n \in Nat \ {0}
  BY WalkIs
<1>2. Taken(w).passed = {w[i].receiver : i \in 1..(n - 1)} /\ Taken(w).last = w[n].receiver
  BY DEF Taken, Passed
<1>. HIDE DEF n
<1>3. 1..n = 1..(n - 1) \cup {n}
  BY <1>1
<1>. QED  BY <1>2, <1>3 DEF n

\* Every walk is counted among the ways of its length, and nothing else is.
LEMMA WalksTaken ==
  ASSUME ckt \in Circuits, NEW c \in Start
  PROVE  \A n \in 0..Cardinality(Conn) : \A w \in Walk(c) :
           Len(w) = n + 1 => Taken(w) \in StepsOf(c)[n]
<1>. DEFINE N == Cardinality(Conn)
            T == {n \in 0..N : \A w \in Walk(c) : Len(w) = n + 1 => Taken(w) \in StepsOf(c)[n]}
<1>1. N \in Nat
  BY ConnFinite
<1>2. 0 \in T
  <2>1. ASSUME NEW w \in Walk(c), Len(w) = 1 PROVE Taken(w) \in StepsOf(c)[0]
    <3>1. w[1] = FirstCall(c)
      BY WalkIs
    <3>2. Passed(w) = {}
      <4>1. 1..(Len(w) - 1) = {}
        BY <2>1
      <4>. QED  BY <4>1 DEF Passed
    <3>. QED  BY <2>1, <3>1, <3>2, StepAt DEF Taken, FirstCall, Begins
  <2>. QED  BY <1>1, <2>1
<1>3. ASSUME NEW n \in 1..N, n - 1 \in T PROVE n \in T
  <2>1. n \in Nat \ {0} /\ n \in 0..N /\ n = (n - 1) + 1
    BY <1>1
  <2>2. ASSUME NEW w \in Walk(c), Len(w) = n + 1 PROVE Taken(w) \in StepsOf(c)[n]
    <3>. DEFINE l == w[n + 1]
    <3>0. n \in Nat \ {0}
      BY <2>1
    <3>1. PICK v \in Walk(c) : Before(w, v, n)
      BY <2>2, <3>0, WalkBack
    <3>2. /\ Len(v) = n /\ w = Append(v, l) /\ <<v[n], l>> \in Steps
          /\ n = 1 \/ v[n].receiver \notin EndPin
          /\ \A i \in 1..n : v[i].receiver # l.receiver
      BY <3>1 DEF Before
    <3>. HIDE DEF l
    <3>3. Taken(v) \in StepsOf(c)[n - 1]
      BY <1>3, <2>1, <3>2
    <3>4. ~IsEnd(Taken(v))
      BY <2>1, <3>2, TakenEnds
    <3>5. l \in Onwards(Taken(v))
      BY <3>2, OnwardsAre
    <3>6. l.receiver \notin Taken(v).passed \cup {Taken(v).last}
      BY <3>2, Unpassed
    <3>7. l \in AnyCall /\ w = Append(v, l)
      BY <3>2 DEF Steps
    <3>8. Taken(w) \in Further(Taken(v))
      BY <3>4, <3>5, <3>6, <3>7, TakenOn DEF Further
    <3>9. StepsOf(c)[n] = UNION {Further(x) : x \in StepsOf(c)[n - 1]}
      BY StepAt
    <3>. QED  BY <3>3, <3>8, <3>9
  <2>. QED  BY <2>1, <2>2
<1>. HIDE DEF T, N
<1>4. \A n \in 0..N : n \in T
  BY <1>1, <1>2, <1>3, Induction
<1>. QED  BY <1>4 DEF T, N

LEMMA TakenAreWalks ==
  ASSUME ckt \in Circuits, NEW c \in Start
  PROVE  \A n \in 0..Cardinality(Conn) : \A x \in StepsOf(c)[n] :
           \E w \in Walk(c) : Len(w) = n + 1 /\ x = Taken(w)
<1>. DEFINE N == Cardinality(Conn)
            Stands(x, n) == \E w \in Walk(c) : Len(w) = n + 1 /\ x = Taken(w)
            T == {n \in 0..N : \A x \in StepsOf(c)[n] : Stands(x, n)}
<1>1. N \in Nat
  BY ConnFinite
<1>2. 0 \in T
  <2>. DEFINE w == <<FirstCall(c)>>
  <2>1. w \in Walk(c)
    BY StartsType, FirstWalk
  <2>2. Len(w) = 1 /\ w[1] = FirstCall(c)
    OBVIOUS
  <2>. HIDE DEF w
  <2>3. Passed(w) = {}
    <3>1. 1..(Len(w) - 1) = {}
      BY <2>2
    <3>. QED  BY <3>1 DEF Passed
  <2>4. \A x \in StepsOf(c)[0] : x = Taken(w)
    BY <2>2, <2>3, StepAt DEF Taken, FirstCall, Begins
  <2>5. Len(w) = 0 + 1
    BY <2>2
  <2>6. \A x \in StepsOf(c)[0] : Stands(x, 0)
    BY <2>1, <2>4, <2>5
  <2>7. 0 \in 0..N
    BY <1>1
  <2>. QED  BY <2>6, <2>7
<1>3. ASSUME NEW n \in 1..N, n - 1 \in T PROVE n \in T
  <2>1. n \in Nat \ {0} /\ n \in 0..N /\ n = (n - 1) + 1
    BY <1>1
  <2>2. ASSUME NEW x \in StepsOf(c)[n] PROVE Stands(x, n)
    <3>1. StepsOf(c)[n] = UNION {Further(y) : y \in StepsOf(c)[n - 1]}
      BY StepAt
    <3>2. PICK y \in StepsOf(c)[n - 1] : x \in Further(y)
      BY <2>2, <3>1
    <3>3. PICK v \in Walk(c) : Len(v) = n /\ y = Taken(v)
      BY <1>3, <2>1
    <3>4. /\ ~IsEnd(Taken(v))
          /\ \E call \in Onwards(Taken(v)) :
               /\ call.receiver \notin Taken(v).passed \cup {Taken(v).last}
               /\ x = [passed |-> Taken(v).passed \cup {Taken(v).last}, last |-> call.receiver,
                       dir |-> call.dir, delay |-> call.delay]
      BY <3>2, <3>3 DEF Further
    <3>5. PICK call \in Onwards(Taken(v)) :
            /\ call.receiver \notin Taken(v).passed \cup {Taken(v).last}
            /\ x = [passed |-> Taken(v).passed \cup {Taken(v).last}, last |-> call.receiver,
                    dir |-> call.dir, delay |-> call.delay]
      BY <3>4
    <3>6. n = 1 \/ v[n].receiver \notin EndPin
      <4>1. n # 1 => n > 1
        BY <2>1
      <4>. QED  BY <3>3, <3>4, <4>1, TakenEnds
    <3>7. <<v[n], call>> \in Steps
      BY <3>3, <3>6, OnwardsAre
    <3>8. \A i \in 1..n : v[i].receiver # call.receiver
      BY <3>3, <3>5, Unpassed
    <3>9. Append(v, call) \in Walk(c)
      BY <3>3, <3>6, <3>7, <3>8, WalkOn
    <3>10. call \in AnyCall /\ v \in Seq(AnyCall)
      BY <3>7, WalkIs DEF Steps
    <3>11. x = Taken(Append(v, call))
      BY <3>5, <3>10, TakenOn
    <3>12. Len(Append(v, call)) = n + 1
      BY <3>3, <3>10, AppendProperties
    <3>. QED  BY <3>9, <3>11, <3>12
  <2>. QED  BY <2>1, <2>2
<1>. HIDE DEF T, N
<1>4. \A n \in 0..N : n \in T
  BY <1>1, <1>2, <1>3, Induction
<1>. QED  BY <1>4 DEF T, N

LEMMA WaysAreWalks ==
  ASSUME ckt \in Circuits, NEW c \in Start
  PROVE  Ways(c) = {Taken(w) : w \in Walk(c)} /\ WaysToEnds(c) = {Taken(w) : w \in Way(c)}
<1>. DEFINE N == Cardinality(Conn)
<1>1. ASSUME NEW w \in Walk(c) PROVE Taken(w) \in Ways(c)
  <2>. DEFINE n == Len(w)
  <2>1. n \in Nat \ {0} /\ n <= N /\ N \in Nat
    BY WalkIs, WalkShort, ConnFinite
  <2>. HIDE DEF n, N
  <2>2. n - 1 \in 0..N /\ n = (n - 1) + 1
    BY <2>1
  <2>3. Taken(w) \in StepsOf(c)[n - 1]
    BY <2>2, WalksTaken DEF n, N
  <2>. QED  BY <2>2, <2>3, WaysAreSteps DEF N
<1>2. ASSUME NEW x \in Ways(c) PROVE \E w \in Walk(c) : x = Taken(w)
  <2>1. PICK n \in 0..N : x \in StepsOf(c)[n]
    BY <1>2, WaysAreSteps
  <2>. QED  BY <2>1, TakenAreWalks
<1>3. Ways(c) = {Taken(w) : w \in Walk(c)}
  BY <1>1, <1>2
<1>4. \A w \in Walk(c) : IsEnd(Taken(w)) <=> w \in Way(c)
  BY TakenEnds DEF Way
<1>5. Way(c) \subseteq Walk(c)
  BY DEF Way
<1>. QED  BY <1>3, <1>4, <1>5 DEF WaysToEnds

LEMMA PointsStart ==
  ASSUME analysis \in 1..4
  PROVE  ToSet(Points) \subseteq Start
<1>1. Points \in Seq(Start)
  BY Starts DEF Points
<1>. QED  BY <1>1, ElementOfSeq, LenProperties DEF ToSet

LEMMA LoopsAreCycles ==
  ASSUME ckt \in Circuits, ToSet(Points) \subseteq Start, NoLoops
  PROVE  NoCycles
<1>. SUFFICES ASSUME NEW c \in ToSet(Points), NEW w \in Walk(c), NEW l \in AnyCall,
                     Len(w) = 1 \/ w[Len(w)].receiver \notin EndPin, <<w[Len(w)], l>> \in Steps
              PROVE  \A i \in 1..Len(w) : w[i].receiver # l.receiver
  BY DEF NoCycles
<1>1. c \in Start /\ Taken(w) \in Ways(c)
  BY WaysAreWalks
<1>2. ~IsEnd(Taken(w))
  <2>1. Len(w) = 1 => ~(Len(w) > 1)
    OBVIOUS
  <2>. QED  BY <1>1, <2>1, TakenEnds
<1>3. l \in Onwards(Taken(w))
  BY <1>1, OnwardsAre
<1>4. l.receiver \notin Taken(w).passed \cup {Taken(w).last}
  BY <1>1, <1>2, <1>3 DEF NoLoops, Points
<1>. QED  BY <1>4, Unpassed

LEMMA CompleteIsThorough ==
  ASSUME ckt \in Circuits, ToSet(Points) \subseteq Start, InRange, Complete
  PROVE  Thorough
BY LoopsAreCycles DEF Complete, Thorough, Tame

\* A real path, from its start to its end.
WalkBy(p, b) == [i \in 1..Len(p) |-> CallAt(b, ckt.icDelay, p[Len(p) + 1 - i])]

LEMMA RealIsWay ==
  ASSUME ckt \in Circuits, NEW b, Table(b), NEW p \in Seq(Number), ToSet(p) \subseteq DOMAIN b,
         Real(p, b, ckt.icDelay, Steps)
  PROVE  /\ WalkBy(p, b) \in Way(Source(b, p))
         /\ Taken(WalkBy(p, b)) =
              [passed |-> {b[n].receiver : n \in ToSet(Tail(p))}, last |-> Sink(b, p),
               dir |-> b[p[1]].dir, delay |-> b[p[1]].delay - ckt.icDelay[Sink(b, p)]]
<1>. DEFINE n == Len(p)
            w == WalkBy(p, b)
<1>1. /\ n \in Nat /\ DOMAIN p = 1..n /\ n > 1 /\ \A i \in 1..n : p[i] \in DOMAIN b
      /\ \A i \in 1..(n - 1) : <<CallAt(b, ckt.icDelay, p[i + 1]), CallAt(b, ckt.icDelay, p[i])>> \in Steps
      /\ CallAt(b, ckt.icDelay, p[n]) = FirstCall(Source(b, p))
      /\ \A i \in 2..(n - 1) : b[p[i]].receiver \notin EndPin
      /\ \A i, j \in 1..n : i # j => b[p[i]].receiver # b[p[j]].receiver
      /\ Sink(b, p) \in EndPin
  <2>1. DOMAIN p = 1..n /\ n \in Nat
    BY LenProperties
  <2>. QED  BY <2>1 DEF Real, ToSet
<1>2. \A i \in 1..n : w[i] = CallAt(b, ckt.icDelay, p[n + 1 - i])
  BY DEF WalkBy
<1>3. \A i \in 1..n : CallAt(b, ckt.icDelay, p[i]) \in AnyCall
  BY <1>1, CallTyped
<1>0. \A m \in DOMAIN b : CallAt(b, ckt.icDelay, m).receiver = b[m].receiver
  BY DEF CallAt
<1>4. w = [i \in 1..n |-> CallAt(b, ckt.icDelay, p[n + 1 - i])]
  BY DEF WalkBy
<1>. HIDE DEF n, w
<1>5. \A i \in 1..n : n + 1 - i \in 1..n
  BY <1>1
<1>6. w \in Seq(AnyCall) /\ Len(w) = n /\ DOMAIN w = 1..n
  BY <1>1, <1>3, <1>4, <1>5
<1>7. w # <<>> /\ w[1] = FirstCall(Source(b, p))
  <2>1. 1 \in 1..n /\ n + 1 - 1 = n
    BY <1>1
  <2>2. w # <<>>
    BY <1>1, <1>6, EmptySeq
  <2>. QED  BY <1>1, <1>2, <2>1, <2>2
<1>8. ASSUME NEW i \in 1..(n - 1) PROVE <<w[i], w[i + 1]>> \in Steps
  <2>1. /\ i \in 1..n /\ i + 1 \in 1..n /\ n - i \in 1..(n - 1)
        /\ n + 1 - i = (n - i) + 1 /\ n + 1 - (i + 1) = n - i
    BY <1>1
  <2>. QED  BY <1>1, <1>2, <2>1
<1>9. ASSUME NEW i \in 2..(n - 1) PROVE w[i].receiver \notin EndPin
  <2>1. i \in 1..n /\ n + 1 - i \in 2..(n - 1) /\ n + 1 - i \in 1..n
    BY <1>1
  <2>. QED  BY <1>0, <1>1, <1>2, <2>1
<1>10. ASSUME NEW i \in 1..n, NEW j \in 1..n, i # j PROVE w[i].receiver # w[j].receiver
  <2>1. n + 1 - i \in 1..n /\ n + 1 - j \in 1..n /\ n + 1 - i # n + 1 - j
    BY <1>1, <1>10
  <2>. QED  BY <1>0, <1>1, <1>2, <2>1
<1>11. w[n] = CallAt(b, ckt.icDelay, p[1]) /\ p[1] \in DOMAIN b
  <2>1. n \in 1..n /\ n + 1 - n = 1 /\ 1 \in 1..n
    BY <1>1
  <2>. QED  BY <1>1, <1>2, <2>1
<1>12. w \in Way(Source(b, p))
  <2>1. w[n].receiver = Sink(b, p)
    BY <1>0, <1>11 DEF Sink
  <2>. QED  BY <1>1, <1>6, <1>7, <1>8, <1>9, <1>10, <2>1 DEF Way, Walk
<1>13. Passed(w) = {b[m].receiver : m \in ToSet(Tail(p))}
  <2>1. /\ Tail(p) \in Seq(Number) /\ Len(Tail(p)) = n - 1
        /\ \A i \in 1..(n - 1) : Tail(p)[i] = p[i + 1]
    <3>1. p # <<>>
      BY <1>1, EmptySeq DEF n
    <3>. QED  BY <3>1, HeadTailProperties DEF n
  <2>2. DOMAIN Tail(p) = 1..(n - 1)
    BY <2>1, LenProperties
  <2>3. {b[m].receiver : m \in ToSet(Tail(p))} = {b[p[i + 1]].receiver : i \in 1..(n - 1)}
    BY <2>1, <2>2 DEF ToSet
  <2>4. \A i \in 1..(n - 1) : w[i].receiver = b[p[(n - i) + 1]].receiver
    <3>1. \A i \in 1..(n - 1) : i \in 1..n /\ n + 1 - i = (n - i) + 1 /\ n + 1 - i \in 1..n
      BY <1>1
    <3>. QED  BY <1>0, <1>1, <1>2, <3>1
  <2>5. \A i \in 1..(n - 1) : n - i \in 1..(n - 1) /\ n - (n - i) = i
    BY <1>1
  <2>6. {w[i].receiver : i \in 1..(n - 1)} = {b[p[i + 1]].receiver : i \in 1..(n - 1)}
    <3>1. ASSUME NEW i \in 1..(n - 1)
          PROVE  \E j \in 1..(n - 1) : w[i].receiver = b[p[j + 1]].receiver
      BY <2>4, <2>5
    <3>2. ASSUME NEW j \in 1..(n - 1)
          PROVE  \E i \in 1..(n - 1) : w[i].receiver = b[p[j + 1]].receiver
      <4>1. n - j \in 1..(n - 1) /\ w[n - j].receiver = b[p[(n - (n - j)) + 1]].receiver
        BY <2>4, <2>5
      <4>. QED  BY <2>5, <4>1
    <3>. DEFINE A == {w[i].receiver : i \in 1..(n - 1)}
                B == {b[p[j + 1]].receiver : j \in 1..(n - 1)}
    <3>3. ASSUME NEW x \in A PROVE x \in B
      <4>1. PICK i \in 1..(n - 1) : x = w[i].receiver
        OBVIOUS
      <4>2. PICK j \in 1..(n - 1) : w[i].receiver = b[p[j + 1]].receiver
        BY <3>1
      <4>. QED  BY <4>1, <4>2
    <3>4. ASSUME NEW x \in B PROVE x \in A
      <4>1. PICK j \in 1..(n - 1) : x = b[p[j + 1]].receiver
        OBVIOUS
      <4>2. PICK i \in 1..(n - 1) : w[i].receiver = b[p[j + 1]].receiver
        BY <3>2
      <4>. QED  BY <4>1, <4>2
    <3>5. A = B
      <4>. HIDE DEF A, B
      <4>. QED  BY <3>3, <3>4
    <3>. QED  BY <3>5
  <2>. QED  BY <1>6, <2>3, <2>6 DEF Passed
<1>. QED  BY <1>6, <1>11, <1>12, <1>13 DEF Taken, CallAt, Sink, w

\* When an analysis is over.
LEMMA ListedPaths ==
  ASSUME RealInv, pc = "start", todo = <<>>, ~Done
  PROVE  /\ ckt \in Circuits /\ Table(bt) /\ masterlist \in Seq(Seq(Number)) /\ NoneTwice(masterlist)
         /\ analysis \in 1..4 /\ ToSet(Points) \subseteq Start
         /\ OneEach(bt, ToSet(masterlist))
         /\ \A p \in ToSet(masterlist) :
              /\ p \in Seq(Number) /\ ToSet(p) \subseteq DOMAIN bt
              /\ Real(p, bt, ckt.icDelay, Steps)
<1>1. analysis \in 1..4
  <2>1. analysis \in 1..5 /\ analysis <= 4
    BY DEF RealInv, Inv, TypeOK, Done, Analyses
  <2>. QED  BY <2>1
<1>2. /\ ckt \in Circuits /\ Table(bt) /\ masterlist \in Seq(Seq(Number)) /\ NoneTwice(masterlist)
      /\ OneEach(bt, ToSet(masterlist)) /\ AllReal(bt, Paths) /\ Counted(bt, NodesOf(stack), Paths)
  BY DEF RealInv, Inv, TypeOK, Typed, Kept, Listed, Paths
<1>3. ToSet(masterlist) \subseteq Seq(Number) /\ ToSet(masterlist) \subseteq Paths
  BY <1>2, ElementOfSeq, LenProperties DEF ToSet, Paths
<1>. QED  BY <1>1, <1>2, <1>3, PointsStart DEF AllReal, Counted

(* "only the path with the longest delay is kept", as the runs check it: when *)
(* an analysis is reported, the ends listed from a starting point are just     *)
(* those a signal can reach from there, each with one path, which is a way a   *)
(* signal can take with the delay and edge it is listed with, and, when the    *)
(* search is complete, with none worse; the exception are ends with a wire     *)
(* delay (option -d).  The delays are those that metrics can tell apart.       *)
THEOREM WorstPathsAreListed == Spec => [](InRange => WorstPathsListed)
<1>1. ASSUME WaysInv, NoEndMissed, WorstIsReported, InRange,
             pc = "start", todo = <<>>, ~Done, NEW s \in ToSet(Points)
      PROVE  LET ways == WaysToEnds(s)
                 listed == {i \in DOMAIN masterlist : StartOf(masterlist[i]) = s}
             IN /\ {EndOf(masterlist[i]) : i \in listed} = {w.last : w \in ways}
                /\ \A i \in listed :
                     LET path == masterlist[i]
                         toIts == {w \in ways : w.last = EndOf(path)}
                     IN /\ \A j \in listed : EndOf(masterlist[j]) = EndOf(path) => i = j
                        /\ \E w \in toIts : /\ w.delay = Arrival(path[1])
                                            /\ w.dir = bt[path[1]].dir
                                            /\ w.passed = {bt[n].receiver : n \in ToSet(Tail(path))}
                        /\ Complete /\ ckt.icDelay[EndOf(path)] = 0 =>
                             \A w \in toIts : ~Worse(w.delay, Arrival(path[1]))
  <2>. DEFINE ways == WaysToEnds(s)
              listed == {i \in DOMAIN masterlist : StartOf(masterlist[i]) = s}
              M == ToSet(masterlist)
  <2>1. RealInv
    BY <1>1 DEF WaysInv, EndsInv
  <2>2. /\ ckt \in Circuits /\ Table(bt) /\ s \in Start /\ OneEach(bt, M)
        /\ \A i, j \in DOMAIN masterlist : masterlist[i] = masterlist[j] => i = j
        /\ \A p \in M : /\ p \in Seq(Number) /\ ToSet(p) \subseteq DOMAIN bt
                        /\ Real(p, bt, ckt.icDelay, Steps)
        /\ ToSet(Points) \subseteq Start
    BY <1>1, <2>1, ListedPaths DEF NoneTwice
  <2>3. ways = {Taken(w) : w \in Way(s)}
    BY <2>2, WaysAreWalks
  <2>4. \A w : Taken(w).last = w[Len(w)].receiver /\ Taken(w).delay = w[Len(w)].delay
    BY DEF Taken
  <2>5. \A i \in DOMAIN masterlist : masterlist[i] \in M
    BY DEF ToSet
  <2>6. \A p \in M : \E i \in DOMAIN masterlist : p = masterlist[i]
    BY DEF ToSet
  <2>7. \A p : StartOf(p) = Source(bt, p) /\ EndOf(p) = Sink(bt, p)
    BY DEF StartOf, EndOf, Source, Sink
  \* what a listed path stands for
  <2>8. ASSUME NEW p \in M, StartOf(p) = s
        PROVE  \E w \in Way(s) :
                 /\ Taken(w).last = EndOf(p) /\ Taken(w).delay = Arrival(p[1])
                 /\ Taken(w).dir = bt[p[1]].dir
                 /\ Taken(w).passed = {bt[n].receiver : n \in ToSet(Tail(p))}
    <3>. DEFINE v == WalkBy(p, bt)
    <3>1. /\ v \in Way(s)
          /\ Taken(v) =
               [passed |-> {bt[n].receiver : n \in ToSet(Tail(p))}, last |-> EndOf(p),
                dir |-> bt[p[1]].dir, delay |-> bt[p[1]].delay - ckt.icDelay[EndOf(p)]]
      BY <2>2, <2>7, <2>8, RealIsWay
    <3>2. Arrival(p[1]) = bt[p[1]].delay - ckt.icDelay[EndOf(p)]
      BY DEF Arrival, EndOf
    <3>. HIDE DEF v
    <3>. QED  BY <3>1, <3>2
  <2>. HIDE DEF M, ways
  <2>9. {EndOf(masterlist[i]) : i \in listed} = {w.last : w \in ways}
    <3>1. ASSUME NEW i \in listed PROVE \E w \in ways : EndOf(masterlist[i]) = w.last
      BY <2>3, <2>5, <2>8
    <3>2. ASSUME NEW w \in ways PROVE \E i \in listed : EndOf(masterlist[i]) = w.last
      <4>1. PICK v \in Way(s) : w = Taken(v)
        BY <2>3
      <4>2. PICK p \in M : StartOf(p) = s /\ EndOf(p) = v[Len(v)].receiver
        BY <1>1 DEF NoEndMissed, M
      <4>3. PICK i \in DOMAIN masterlist : p = masterlist[i]
        BY <2>6
      <4>. QED  BY <2>4, <4>1, <4>2, <4>3
    <3>. DEFINE A == {EndOf(masterlist[i]) : i \in listed}
                B == {w.last : w \in ways}
    <3>3. \A x \in A : x \in B
      BY <3>1
    <3>4. \A x \in B : x \in A
      BY <3>2
    <3>5. A = B
      <4>. HIDE DEF A, B
      <4>. QED  BY <3>3, <3>4
    <3>. QED  BY <3>5
  <2>10. ASSUME NEW i \in listed
         PROVE  LET path == masterlist[i]
                    toIts == {w \in ways : w.last = EndOf(path)}
                IN /\ \A j \in listed : EndOf(masterlist[j]) = EndOf(path) => i = j
                   /\ \E w \in toIts : /\ w.delay = Arrival(path[1])
                                       /\ w.dir = bt[path[1]].dir
                                       /\ w.passed = {bt[n].receiver : n \in ToSet(Tail(path))}
                   /\ Complete /\ ckt.icDelay[EndOf(path)] = 0 =>
                        \A w \in toIts : ~Worse(w.delay, Arrival(path[1]))
    <3>. DEFINE path == masterlist[i]
    <3>1. path \in M /\ StartOf(path) = s /\ i \in DOMAIN masterlist
      BY <2>5, <2>10
    <3>2. ASSUME NEW j \in listed, EndOf(masterlist[j]) = EndOf(path) PROVE i = j
      <4>1. masterlist[j] \in M /\ StartOf(masterlist[j]) = s
        BY <2>5
      <4>2. masterlist[j] = path
        BY <2>2, <2>7, <3>1, <3>2, <4>1 DEF OneEach
      <4>. QED  BY <2>2, <3>1, <4>2
    <3>3. \E w \in ways : /\ w.last = EndOf(path) /\ w.delay = Arrival(path[1])
                          /\ w.dir = bt[path[1]].dir
                          /\ w.passed = {bt[n].receiver : n \in ToSet(Tail(path))}
      <4>. HIDE DEF path
      <4>. QED  BY <2>3, <2>8, <3>1
    <3>4. ASSUME Complete, ckt.icDelay[EndOf(path)] = 0, NEW w \in ways, w.last = EndOf(path)
          PROVE  ~Worse(w.delay, Arrival(path[1]))
      <4>1. PICK v \in Way(s) : w = Taken(v)
        BY <2>3
      <4>2. Thorough
        BY <1>1, <2>2, <3>4, CompleteIsThorough
      <4>3. PICK p \in M : /\ StartOf(p) = s /\ EndOf(p) = v[Len(v)].receiver
                           /\ ~Worse(v[Len(v)].delay, bt[p[1]].delay)
        <5>1. ~Wired(v[Len(v)].receiver)
          BY <2>4, <3>4, <4>1 DEF Wired
        <5>. QED  BY <1>1, <4>2, <5>1 DEF WorstIsReported, M
      <4>4. p = path
        BY <2>2, <2>4, <2>7, <3>1, <3>4, <4>1, <4>3 DEF OneEach
      <4>5. Arrival(p[1]) = bt[p[1]].delay
        <5>1. p[1] \in DOMAIN bt
          <6>1. DOMAIN p = 1..Len(p) /\ Len(p) \in Nat /\ Len(p) > 1
            BY <2>2, <4>3, LenProperties DEF Real
          <6>2. 1 \in DOMAIN p
            BY <6>1
          <6>. QED  BY <2>2, <4>3, <6>2 DEF ToSet
        <5>2. bt[p[1]].delay \in Int
          BY <2>2, <5>1, DelayAt
        <5>3. Arrival(p[1]) = bt[p[1]].delay - ckt.icDelay[EndOf(p)] /\ ckt.icDelay[EndOf(p)] = 0
          BY <3>4, <4>4 DEF Arrival, EndOf
        <5>. QED  BY <5>2, <5>3
      <4>. QED  BY <2>4, <4>1, <4>3, <4>4, <4>5
    <3>. HIDE DEF path
    <3>5. /\ \A j \in listed : EndOf(masterlist[j]) = EndOf(path) => i = j
          /\ \E w \in {x \in ways : x.last = EndOf(path)} :
                 /\ w.delay = Arrival(path[1])
                 /\ w.dir = bt[path[1]].dir
                 /\ w.passed = {bt[n].receiver : n \in ToSet(Tail(path))}
          /\ Complete /\ ckt.icDelay[EndOf(path)] = 0 =>
               \A w \in {x \in ways : x.last = EndOf(path)} : ~Worse(w.delay, Arrival(path[1]))
      BY <3>2, <3>3, <3>4
    <3>. QED  BY <3>5 DEF path
  <2>. QED  BY <2>9, <2>10 DEF ways
<1>2. WaysInv /\ NoEndMissed /\ WorstIsReported => (InRange => WorstPathsListed)
  BY <1>1 DEF WorstPathsListed, Points
<1>. QED  BY <1>2, WaysInvariance, EveryEndIsReported, WorstPathsAreReported, PTL

=============================================================================
