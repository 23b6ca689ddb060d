---------------------------- MODULE StampsProofs ----------------------------
(***************************************************************************)
(* That the stamps keep their promises for any cells that do not use one    *)
(* another circularly, any edits and any sessions.                          *)
(***************************************************************************)
EXTENDS Stamps, SequencesExt, SequenceTheorems, FiniteSetTheorems,
        WellFoundedInduction, TLAPS

-----------------------------------------------------------------------------
(* Induction, stated with sets: the library states it with operators.       *)
LEMMA LeastNumber ==
  ASSUME NEW T, T \subseteq Nat, T # {}
  PROVE  \E x \in T : \A y \in T : x <= y
<1>1. PICK x \in T : \A y \in T : <<y, x>> \notin OpToRel(<, Nat)
  BY NatLessThanWellFounded, WFMin
<1>2. \A y \in T : <<y, x>> \in Nat \X Nat
  OBVIOUS
<1>3. \A y \in T : ~(y < x)
  BY <1>1, <1>2 DEF OpToRel
<1>4. \A y \in T : x <= y
  BY <1>3
<1>. QED  BY <1>4

LEMMA Induction ==
  ASSUME NEW n \in Nat, NEW T, 0 \in T,
         \A i \in 1..n : i - 1 \in T => i \in T
  PROVE  \A i \in 0..n : i \in T
<1>. DEFINE U == {i \in 0..n : i \notin T}
<1>. SUFFICES ASSUME U # {} PROVE FALSE
  OBVIOUS
<1>0. U \subseteq Nat
  OBVIOUS
<1>1. PICK x \in U : \A y \in U : x <= y
  <2>. HIDE DEF U
  <2>. QED  BY <1>0, LeastNumber
<1>2. x \in 1..n /\ x - 1 \in 0..n
  BY <1>1
<1>3. x - 1 \notin U
  BY <1>1, <1>2
<1>. QED  BY <1>1, <1>2, <1>3

\* step: for each element and function on all, the value there, which depends
\* on the function only where the rank is lower.
Recurs(g, D, step) == \A x \in D : g[x] = step[<<x, g>>]
DependsBelow(D, S, rank, step) ==
  \A x \in D : \A g, h \in [D -> S] :
    (\A y \in D : rank[y] < rank[x] => g[y] = h[y]) => step[<<x, g>>] = step[<<x, h>>]

LEMMA RecursionExists ==
  ASSUME NEW D, NEW n \in Nat, NEW rank \in [D -> 0..n], NEW S, S # {},
         NEW step \in [D \X [D -> S] -> S], DependsBelow(D, S, rank, step)
  PROVE  \E g \in [D -> S] : Recurs(g, D, step)
<1>. DEFINE Good(g, m) == \A x \in D : rank[x] < m => g[x] = step[<<x, g>>]
            T == {m \in 0..(n + 1) : \E g \in [D -> S] : Good(g, m)}
<1>1. 0 \in T
  <2>1. PICK s \in S : TRUE
    OBVIOUS
  <2>2. [x \in D |-> s] \in [D -> S]
    BY <2>1
  <2>3. Good([x \in D |-> s], 0)
    OBVIOUS
  <2>4. 0 \in 0..(n + 1)
    OBVIOUS
  <2>. HIDE DEF Good
  <2>. QED  BY <2>2, <2>3, <2>4
<1>2. ASSUME NEW m \in 1..(n + 1), m - 1 \in T PROVE m \in T
  <2>1. PICK g \in [D -> S] : Good(g, m - 1)
    BY <1>2
  <2>. DEFINE h == [x \in D |-> IF rank[x] < m - 1 THEN g[x] ELSE step[<<x, g>>]]
  <2>2. h \in [D -> S]
    OBVIOUS
  <2>3. ASSUME NEW x \in D, rank[x] < m PROVE h[x] = step[<<x, h>>]
    <3>1. \A y \in D : rank[y] < rank[x] => g[y] = h[y]
      BY <2>3
    <3>2. step[<<x, g>>] = step[<<x, h>>]
      BY <2>2, <3>1 DEF DependsBelow
    <3>3. h[x] = step[<<x, g>>]
      BY <2>1
    <3>. QED  BY <3>2, <3>3
  <2>4. m \in 0..(n + 1)
    OBVIOUS
  <2>. HIDE DEF h
  <2>5. Good(h, m)
    BY <2>3
  <2>. HIDE DEF Good
  <2>. QED  BY <2>2, <2>4, <2>5
<1>3. n + 1 \in T
  <2>. DEFINE m == n + 1
  <2>1. m \in Nat /\ m \in 0..m
    OBVIOUS
  <2>2. \A i \in 1..m : i - 1 \in T => i \in T
    BY <1>2
  <2>. HIDE DEF T, m
  <2>3. \A i \in 0..m : i \in T
    BY <1>1, <2>1, <2>2, Induction, Zenon
  <2>4. m \in T
    BY <2>1, <2>3
  <2>. QED  BY <2>4 DEF m
<1>4. PICK g \in [D -> S] : Good(g, n + 1)
  BY <1>3
<1>. QED  BY <1>4 DEF Recurs

\* step: for each number and value before it, the value there.
Iterates(g, n, first, step) ==
  g[0] = first /\ \A i \in 1..n : g[i] = step[<<i, g[i - 1]>>]

LEMMA IterationExists ==
  ASSUME NEW n \in Nat, NEW S, NEW first \in S, NEW step \in [(1..n) \X S -> S]
  PROVE  \E g \in [0..n -> S] : Iterates(g, n, first, step)
<1>. DEFINE D == 0..n
            rank == [i \in D |-> i]
            next == [a \in D \X [D -> S] |->
                       IF a[1] = 0 THEN first ELSE step[<<a[1], a[2][a[1] - 1]>>]]
<1>1. rank \in [D -> 0..n]
  OBVIOUS
<1>2. \A i \in D, g \in [D -> S] : i # 0 => i - 1 \in D /\ <<i, g[i - 1]>> \in (1..n) \X S
  OBVIOUS
<1>3. next \in [D \X [D -> S] -> S]
  BY <1>2
<1>4. \A i \in D, g \in [D -> S] :
        next[<<i, g>>] = IF i = 0 THEN first ELSE step[<<i, g[i - 1]>>]
  OBVIOUS
<1>. HIDE DEF next
<1>5. DependsBelow(D, S, rank, next)
  <2>. SUFFICES ASSUME NEW i \in D, NEW g \in [D -> S], NEW h \in [D -> S],
                       \A j \in D : rank[j] < rank[i] => g[j] = h[j]
                PROVE  next[<<i, g>>] = next[<<i, h>>]
    BY DEF DependsBelow
  <2>1. i # 0 => i - 1 \in D /\ rank[i - 1] < rank[i]
    OBVIOUS
  <2>2. i # 0 => g[i - 1] = h[i - 1]
    BY <2>1
  <2>. QED  BY <1>4, <2>2
<1>. HIDE DEF rank
<1>6. PICK g \in [D -> S] : Recurs(g, D, next)
  BY <1>1, <1>3, <1>5, RecursionExists
<1>7. \A i \in 0..n : g[i] = IF i = 0 THEN first ELSE step[<<i, g[i - 1]>>]
  BY <1>4, <1>6 DEF Recurs
<1>8. 0 \in 0..n /\ \A i \in 1..n : i \in 0..n /\ i # 0
  OBVIOUS
<1>9. Iterates(g, n, first, step)
  BY <1>7, <1>8 DEF Iterates
<1>. QED  BY <1>6, <1>9

-----------------------------------------------------------------------------
(* The hierarchy.                                                           *)
LEMMA KidsFacts ==
  ASSUME NEW c \in Cell
  PROVE  /\ Uses[c] \in Seq(Cell) /\ Len(Uses[c]) \in Nat
         /\ DOMAIN Uses[c] = 1..Len(Uses[c])
         /\ \A i \in 1..Len(Uses[c]) : Uses[c][i] \in Kids[c]
         /\ \A k \in Kids[c] : \E i \in 1..Len(Uses[c]) : Uses[c][i] = k
         /\ Kids[c] \subseteq Cell
<1>1. Uses[c] \in Seq(Cell)
  BY UsesAssumption
<1>2. Len(Uses[c]) \in Nat /\ DOMAIN Uses[c] = 1..Len(Uses[c])
  BY <1>1, LenProperties
<1>3. \A i \in 1..Len(Uses[c]) : Uses[c][i] \in Cell
  BY <1>1, ElementOfSeq
<1>4. Kids[c] = {Uses[c][i] : i \in DOMAIN Uses[c]}
  BY DEF Kids, Range
<1>. QED  BY <1>1, <1>2, <1>3, <1>4

\* How deep a cell is used.
Depth == CHOOSE depth \in [Cell -> 0..Cardinality(Cell)] :
           \A c \in Cell : \A k \in Range(Uses[c]) : depth[k] < depth[c]

LEMMA DepthFacts ==
  /\ Cardinality(Cell) \in Nat
  /\ Depth \in [Cell -> 0..Cardinality(Cell)]
  /\ \A c \in Cell : \A k \in Kids[c] : Depth[k] < Depth[c]
<1>1. Cardinality(Cell) \in Nat
  BY UsesAssumption, FS_CardinalityType
<1>2. /\ Depth \in [Cell -> 0..Cardinality(Cell)]
      /\ \A c \in Cell : \A k \in Range(Uses[c]) : Depth[k] < Depth[c]
  BY NotCircular DEF Depth
<1>3. \A c \in Cell : Kids[c] = Range(Uses[c])
  BY DEF Kids
<1>. QED  BY <1>1, <1>2, <1>3

LEMMA NoCircle ==
  ASSUME NEW c \in Cell, NEW k \in Kids[c]
  PROVE  k \in Cell /\ k # c /\ c \notin Kids[k]
<1>1. k \in Cell
  BY KidsFacts
<1>2. Depth[k] \in Int /\ Depth[c] \in Int /\ Depth[k] < Depth[c]
  BY <1>1, DepthFacts
<1>3. c \in Kids[k] => Depth[c] < Depth[k]
  BY <1>1, DepthFacts
<1>. QED  BY <1>1, <1>2, <1>3

\* What holds of a cell whenever it holds of all its children holds of all
\* cells; and likewise upwards.
LEMMA DownInduction ==
  ASSUME NEW T, \A c \in Cell : (\A k \in Kids[c] : k \in T) => c \in T
  PROVE  \A c \in Cell : c \in T
<1>. DEFINE n == Cardinality(Cell)
            U == {i \in 0..n : \A c \in Cell : Depth[c] <= i => c \in T}
<1>1. n \in Nat /\ \A c \in Cell : Depth[c] \in 0..n
  BY DepthFacts
<1>2. 0 \in U
  <2>1. ASSUME NEW c \in Cell, Depth[c] <= 0 PROVE c \in T
    <3>1. \A k \in Kids[c] : FALSE
      <4>. SUFFICES ASSUME NEW k \in Kids[c] PROVE FALSE
        OBVIOUS
      <4>1. k \in Cell /\ Depth[k] < Depth[c]
        BY NoCircle, DepthFacts
      <4>. QED  BY <1>1, <2>1, <4>1
    <3>. QED  BY <3>1
  <2>. QED  BY <1>1, <2>1
<1>3. ASSUME NEW i \in 1..n, i - 1 \in U PROVE i \in U
  <2>1. ASSUME NEW c \in Cell, Depth[c] <= i PROVE c \in T
    <3>1. ASSUME NEW k \in Kids[c] PROVE k \in T
      <4>1. k \in Cell /\ Depth[k] < Depth[c]
        BY NoCircle, DepthFacts
      <4>2. Depth[k] <= i - 1
        BY <1>1, <2>1, <4>1
      <4>. QED  BY <1>3, <4>1, <4>2
    <3>. QED  BY <3>1
  <2>. QED  BY <1>1, <2>1
<1>4. n \in U
  <2>1. \A i \in 0..n : i \in U
    <3>. HIDE DEF U, n
    <3>. QED  BY <1>1, <1>2, <1>3, Induction
  <2>. QED  BY <1>1, <2>1
<1>. QED  BY <1>1, <1>4

LEMMA UpInduction ==
  ASSUME NEW T, \A c \in Cell : (\A p \in Cell : c \in Kids[p] => p \in T) => c \in T
  PROVE  \A c \in Cell : c \in T
<1>. DEFINE n == Cardinality(Cell)
            U == {i \in 0..n : \A c \in Cell : n - Depth[c] <= i => c \in T}
<1>1. n \in Nat /\ \A c \in Cell : Depth[c] \in 0..n
  BY DepthFacts
<1>2. 0 \in U
  <2>1. ASSUME NEW c \in Cell, n - Depth[c] <= 0 PROVE c \in T
    <3>1. \A p \in Cell : c \notin Kids[p]
      <4>. SUFFICES ASSUME NEW p \in Cell, c \in Kids[p] PROVE FALSE
        OBVIOUS
      <4>1. Depth[c] < Depth[p]
        BY DepthFacts
      <4>. QED  BY <1>1, <2>1, <4>1
    <3>. QED  BY <3>1
  <2>. QED  BY <1>1, <2>1
<1>3. ASSUME NEW i \in 1..n, i - 1 \in U PROVE i \in U
  <2>1. ASSUME NEW c \in Cell, n - Depth[c] <= i PROVE c \in T
    <3>1. ASSUME NEW p \in Cell, c \in Kids[p] PROVE p \in T
      <4>1. Depth[c] < Depth[p]
        BY <3>1, DepthFacts
      <4>2. n - Depth[p] <= i - 1
        BY <1>1, <2>1, <4>1
      <4>. QED  BY <1>3, <4>2
    <3>. QED  BY <3>1
  <2>. QED  BY <1>1, <2>1
<1>4. n \in U
  <2>1. \A i \in 0..n : i \in U
    <3>. HIDE DEF U, n
    <3>. QED  BY <1>1, <1>2, <1>3, Induction
  <2>. QED  BY <1>1, <2>1
<1>. QED  BY <1>1, <1>4

\* Trees put together, as Tree does with its own values.
Branches(tree, c) ==
  LET trees[i \in 0..Len(Uses[c])] ==
        IF i = 0 THEN <<>> ELSE trees[i - 1] \o tree[Uses[c][i]]
  IN trees

LEMMA BranchesFacts ==
  ASSUME NEW tree, NEW c \in Cell, \A k \in Kids[c] : tree[k] \in Seq(Cell)
  PROVE  /\ Branches(tree, c) \in [0..Len(Uses[c]) -> Seq(Cell)]
         /\ Branches(tree, c)[0] = <<>>
         /\ \A i \in 1..Len(Uses[c]) :
              Branches(tree, c)[i] = Branches(tree, c)[i - 1] \o tree[Uses[c][i]]
<1>. DEFINE n == Len(Uses[c])
            step == [p \in (1..n) \X Seq(Cell) |-> p[2] \o tree[Uses[c][p[1]]]]
            Put(f) == f = [i \in 0..n |-> IF i = 0 THEN <<>>
                                          ELSE f[i - 1] \o tree[Uses[c][i]]]
            trees == CHOOSE f : Put(f)
<1>1. n \in Nat /\ \A i \in 1..n : tree[Uses[c][i]] \in Seq(Cell)
  BY KidsFacts
<1>2. step \in [(1..n) \X Seq(Cell) -> Seq(Cell)]
  BY <1>1, ConcatProperties
<1>3. PICK g \in [0..n -> Seq(Cell)] : Iterates(g, n, <<>>, step)
  <2>1. <<>> \in Seq(Cell)
    BY EmptySeq
  <2>. HIDE DEF step, n
  <2>. QED  BY <1>1, <1>2, <2>1, IterationExists
<1>. HIDE DEF n
<1>4. \A i \in 1..n : i - 1 \in 0..n /\ <<i, g[i - 1]>> \in (1..n) \X Seq(Cell)
  BY <1>1
<1>5. \A i \in 1..n : g[i] = g[i - 1] \o tree[Uses[c][i]]
  BY <1>3, <1>4 DEF Iterates
<1>6. Put(g)
  <2>1. g[0] = <<>> /\ g = [i \in 0..n |-> g[i]]
    BY <1>3 DEF Iterates
  <2>2. \A i \in 0..n : i = 0 \/ i \in 1..n
    BY <1>1
  <2>3. \A i \in 0..n : g[i] = IF i = 0 THEN <<>> ELSE g[i - 1] \o tree[Uses[c][i]]
    BY <2>1, <2>2, <1>5, Zenon
  <2>. QED  BY <2>1, <2>3, Zenon
<1>7. Put(trees)
  BY <1>6
<1>8. Branches(tree, c) = trees
  BY DEF Branches, n
<1>. HIDE DEF trees
<1>9. trees[0] = <<>> /\ \A i \in 1..n : trees[i] = trees[i - 1] \o tree[Uses[c][i]]
  <2>1. 0 \in 0..n /\ \A i \in 1..n : i \in 0..n /\ ~(i = 0)
    BY <1>1
  <2>2. \A i \in 0..n : trees[i] = IF i = 0 THEN <<>> ELSE trees[i - 1] \o tree[Uses[c][i]]
    BY <1>7, Zenon
  <2>. QED  BY <2>1, <2>2, Zenon
<1>10. \A i \in 0..n : trees[i] \in Seq(Cell)
  <2>. DEFINE T == {i \in 0..n : trees[i] \in Seq(Cell)}
  <2>1. 0 \in T
    <3>1. 0 \in 0..n
      BY <1>1
    <3>2. trees[0] \in Seq(Cell)
      BY <1>9, EmptySeq, Zenon
    <3>. QED  BY <3>1, <3>2, Zenon
  <2>2. ASSUME NEW i \in 1..n, i - 1 \in T PROVE i \in T
    <3>1. trees[i - 1] \in Seq(Cell) /\ tree[Uses[c][i]] \in Seq(Cell)
      BY <1>1, <2>2
    <3>2. trees[i] \in Seq(Cell)
      BY <1>9, <3>1, ConcatProperties
    <3>. QED  BY <3>2
  <2>3. \A i \in 0..n : i \in T
    <3>. HIDE DEF T
    <3>. QED  BY <1>1, <2>1, <2>2, Induction
  <2>. QED  BY <2>3
<1>12. trees \in [0..n -> Seq(Cell)]
  <2>1. trees = [i \in 0..n |-> trees[i]]
    BY <1>7
  <2>. QED  BY <1>10, <2>1
<1>. QED  BY <1>8, <1>9, <1>12 DEF n

\* What the branches are made of matters below the cell only.
LEMMA SameBranches ==
  ASSUME NEW c \in Cell, NEW f, NEW g,
         \A k \in Kids[c] : f[k] \in Seq(Cell) /\ f[k] = g[k]
  PROVE  Branches(f, c)[Len(Uses[c])] = Branches(g, c)[Len(Uses[c])]
<1>. DEFINE n == Len(Uses[c])
            T == {i \in 0..n : Branches(f, c)[i] = Branches(g, c)[i]}
<1>1. n \in Nat /\ \A i \in 1..n : Uses[c][i] \in Kids[c]
  BY KidsFacts
<1>2. /\ Branches(f, c)[0] = <<>>
      /\ \A i \in 1..n : Branches(f, c)[i] = Branches(f, c)[i - 1] \o f[Uses[c][i]]
  BY BranchesFacts
<1>3. /\ Branches(g, c)[0] = <<>>
      /\ \A i \in 1..n : Branches(g, c)[i] = Branches(g, c)[i - 1] \o g[Uses[c][i]]
  BY BranchesFacts
<1>. HIDE DEF n
<1>4. 0 \in T
  <2>1. 0 \in 0..n
    BY <1>1
  <2>. QED  BY <2>1, <1>2, <1>3, Zenon
<1>5. ASSUME NEW i \in 1..n, i - 1 \in T PROVE i \in T
  <2>1. Branches(f, c)[i - 1] = Branches(g, c)[i - 1] /\ f[Uses[c][i]] = g[Uses[c][i]]
    BY <1>1, <1>5
  <2>2. Branches(f, c)[i] = Branches(g, c)[i]
    BY <1>2, <1>3, <2>1, Zenon
  <2>. QED  BY <1>1, <2>2
<1>6. \A i \in 0..n : i \in T
  <2>. HIDE DEF T
  <2>. QED  BY <1>1, <1>4, <1>5, Induction
<1>7. n \in 0..n
  BY <1>1
<1>. QED  BY <1>6, <1>7 DEF n

LEMMA TreeRecurs ==
  \A c \in Cell : Tree[c] = <<c>> \o Branches(Tree, c)[Len(Uses[c])]
<1>. DEFINE S == Seq(Cell)
            all(c, f) == <<c>> \o Branches(f, c)[Len(Uses[c])]
            step == [p \in Cell \X [Cell -> S] |-> all(p[1], p[2])]
            Put(f) == f = [c \in Cell |-> all(c, f)]
            tree == CHOOSE f : Put(f)
<1>1. ASSUME NEW c \in Cell, NEW f \in [Cell -> S] PROVE all(c, f) \in S
  <2>1. \A k \in Kids[c] : f[k] \in Seq(Cell)
    BY KidsFacts
  <2>2. Branches(f, c) \in [0..Len(Uses[c]) -> Seq(Cell)]
    BY <2>1, BranchesFacts
  <2>3. Len(Uses[c]) \in 0..Len(Uses[c])
    BY KidsFacts
  <2>4. Branches(f, c)[Len(Uses[c])] \in Seq(Cell)
    BY <2>2, <2>3
  <2>5. <<c>> \in Seq(Cell)
    OBVIOUS
  <2>. QED  BY <2>4, <2>5, ConcatProperties
<1>2. step \in [Cell \X [Cell -> S] -> S]
  <2>. HIDE DEF all, S
  <2>. QED  BY <1>1
<1>3. S # {}
  BY EmptySeq
<1>4. ASSUME NEW c \in Cell, NEW f \in [Cell -> S], NEW g \in [Cell -> S],
             \A k \in Cell : Depth[k] < Depth[c] => f[k] = g[k]
      PROVE  step[<<c, f>>] = step[<<c, g>>]
  <2>1. \A k \in Kids[c] : f[k] \in Seq(Cell) /\ f[k] = g[k]
    <3>. SUFFICES ASSUME NEW k \in Kids[c] PROVE f[k] \in Seq(Cell) /\ f[k] = g[k]
      OBVIOUS
    <3>1. k \in Cell /\ Depth[k] < Depth[c]
      BY NoCircle, DepthFacts
    <3>. QED  BY <1>4, <3>1
  <2>2. all(c, f) = all(c, g)
    BY <2>1, SameBranches
  <2>. HIDE DEF all
  <2>. QED  BY <2>2
<1>5. PICK g \in [Cell -> S] : Recurs(g, Cell, step)
  <2>. HIDE DEF step, S
  <2>. DEFINE n == Cardinality(Cell)
  <2>1. DependsBelow(Cell, S, Depth, step)
    BY <1>4 DEF DependsBelow
  <2>2. n \in Nat /\ Depth \in [Cell -> 0..n]
    BY DepthFacts
  <2>. HIDE DEF n
  <2>. QED  BY <1>2, <1>3, <2>1, <2>2, RecursionExists
<1>6. Put(g)
  <2>1. \A c \in Cell : g[c] = all(c, g)
    <3>. HIDE DEF all, S
    <3>. QED  BY <1>5 DEF Recurs
  <2>. HIDE DEF all, S
  <2>. QED  BY <1>5, <2>1
<1>7. Put(tree)
  BY <1>6
<1>8. Tree = tree
  BY DEF Tree, Branches
<1>. HIDE DEF tree
<1>. QED  BY <1>7, <1>8

LEMMA SeqRange ==
  ASSUME NEW s \in Seq(Cell)
  PROVE  Len(s) \in Nat /\ Range(s) = {s[i] : i \in 1..Len(s)} /\ Range(s) \subseteq Cell
<1>1. Len(s) \in Nat /\ DOMAIN s = 1..Len(s)
  BY LenProperties
<1>2. \A i \in 1..Len(s) : s[i] \in Cell
  BY ElementOfSeq
<1>3. Range(s) = {s[i] : i \in DOMAIN s}
  BY DEF Range
<1>4. Range(s) = {s[i] : i \in 1..Len(s)}
  BY <1>1, <1>3, Zenon
<1>. QED  BY <1>1, <1>2, <1>4, Zenon

LEMMA RangeOfConcat ==
  ASSUME NEW s \in Seq(Cell), NEW t \in Seq(Cell)
  PROVE  s \o t \in Seq(Cell) /\ Range(s \o t) = Range(s) \cup Range(t)
BY ConcatProperties, RangeConcatenation

\* The tree of a cell has the cell and its children.
LEMMA TreeFacts ==
  ASSUME NEW c \in Cell
  PROVE  /\ Tree[c] \in Seq(Cell) /\ Below[c] \subseteq Cell
         /\ c \in Below[c] /\ Kids[c] \subseteq Below[c]
         /\ Len(Tree[c]) \in Nat /\ Below[c] = {Tree[c][i] : i \in 1..Len(Tree[c])}
<1>. DEFINE T == {x \in Cell : Tree[x] \in Seq(Cell)}
<1>1. ASSUME NEW x \in Cell, \A k \in Kids[x] : k \in T PROVE x \in T
  <2>1. \A k \in Kids[x] : Tree[k] \in Seq(Cell)
    BY <1>1
  <2>2. Branches(Tree, x) \in [0..Len(Uses[x]) -> Seq(Cell)]
    BY <2>1, BranchesFacts
  <2>3. Len(Uses[x]) \in 0..Len(Uses[x])
    BY KidsFacts
  <2>4. Branches(Tree, x)[Len(Uses[x])] \in Seq(Cell)
    BY <2>2, <2>3
  <2>5. <<x>> \in Seq(Cell)
    OBVIOUS
  <2>6. Tree[x] \in Seq(Cell)
    BY <2>4, <2>5, ConcatProperties, TreeRecurs
  <2>. QED  BY <2>6
<1>2. \A x \in Cell : Tree[x] \in Seq(Cell)
  <2>1. \A x \in Cell : x \in T
    <3>. HIDE DEF T
    <3>. QED  BY <1>1, DownInduction
  <2>. QED  BY <2>1
<1>3. Below[c] = Range(Tree[c])
  BY DEF Below
<1>4. Len(Tree[c]) \in Nat /\ Below[c] = {Tree[c][i] : i \in 1..Len(Tree[c])}
      /\ Below[c] \subseteq Cell
  <2>1. Tree[c] \in Seq(Cell)
    BY <1>2
  <2>. QED  BY <1>3, <2>1, SeqRange, Zenon
<1>. DEFINE n == Len(Uses[c])
            b == Branches(Tree, c)
<1>5. /\ n \in Nat /\ b \in [0..n -> Seq(Cell)]
      /\ \A i \in 1..n : b[i] = b[i - 1] \o Tree[Uses[c][i]]
  <2>1. \A k \in Kids[c] : Tree[k] \in Seq(Cell)
    BY <1>2, NoCircle
  <2>. QED  BY <2>1, BranchesFacts, KidsFacts
<1>6. \A x \in Cell : x \in Range(Tree[x])
  <2>. SUFFICES ASSUME NEW x \in Cell PROVE x \in Range(Tree[x])
    OBVIOUS
  <2>. DEFINE r == Branches(Tree, x)[Len(Uses[x])]
  <2>1. r \in Seq(Cell)
    <3>1. \A k \in Kids[x] : Tree[k] \in Seq(Cell)
      BY <1>2, NoCircle
    <3>2. Len(Uses[x]) \in 0..Len(Uses[x])
      BY KidsFacts
    <3>. QED  BY <3>1, <3>2, BranchesFacts
  <2>2. Tree[x] = <<x>> \o r
    BY TreeRecurs
  <2>. HIDE DEF r
  <2>3. <<x>> \in Seq(Cell) /\ x \in Range(<<x>>)
    BY DEF Range
  <2>4. Range(<<x>> \o r) = Range(<<x>>) \cup Range(r)
    BY <2>1, <2>3, RangeOfConcat, Zenon
  <2>. QED  BY <2>2, <2>3, <2>4, Zenon
<1>. HIDE DEF b, n
<1>7. \A i \in 1..n : \A j \in 0..n : i <= j => Uses[c][i] \in Range(b[j])
  <2>. DEFINE U == {j \in 0..n : \A i \in 1..n : i <= j => Uses[c][i] \in Range(b[j])}
  <2>1. 0 \in U
    BY <1>5
  <2>2. ASSUME NEW j \in 1..n, j - 1 \in U PROVE j \in U
    <3>1. Uses[c][j] \in Cell
      BY KidsFacts DEF n
    <3>2. /\ b[j - 1] \in Seq(Cell) /\ Tree[Uses[c][j]] \in Seq(Cell)
          /\ Uses[c][j] \in Range(Tree[Uses[c][j]])
      BY <1>2, <1>5, <1>6, <2>2, <3>1
    <3>3. Range(b[j]) = Range(b[j - 1]) \cup Range(Tree[Uses[c][j]])
      BY <1>5, <3>2, RangeOfConcat, Zenon
    <3>4. ASSUME NEW i \in 1..n, i <= j PROVE Uses[c][i] \in Range(b[j])
      <4>1. CASE i = j
        BY <3>2, <3>3, <4>1
      <4>2. CASE i <= j - 1
        BY <2>2, <3>3, <4>2
      <4>. QED  BY <1>5, <3>4, <4>1, <4>2
    <3>. QED  BY <1>5, <3>4
  <2>3. \A j \in 0..n : j \in U
    <3>. HIDE DEF U
    <3>. QED  BY <1>5, <2>1, <2>2, Induction
  <2>. QED  BY <2>3
<1>8. \A i \in 1..n : Uses[c][i] \in Range(b[n])
  BY <1>5, <1>7
<1>9. Range(Tree[c]) = Range(<<c>>) \cup Range(b[n])
  <2>1. Tree[c] = <<c>> \o b[n]
    BY TreeRecurs DEF b, n
  <2>2. <<c>> \in Seq(Cell) /\ b[n] \in Seq(Cell)
    BY <1>5
  <2>. QED  BY <2>1, <2>2, RangeOfConcat, Zenon
<1>10. \A k \in Kids[c] : \E i \in 1..n : Uses[c][i] = k
  BY KidsFacts DEF n
<1>11. Kids[c] \subseteq Range(Tree[c])
  BY <1>8, <1>9, <1>10
<1>. QED  BY <1>2, <1>3, <1>4, <1>6, <1>11

-----------------------------------------------------------------------------
(* The cells above.                                                         *)
Ups(d, cells) ==
  LET up[x \in Cell] == LET ps == Users(x, d) \cap cells
                        IN ps \cup UNION {up[p] : p \in ps}
  IN up

LEMMA UpsRecurs ==
  ASSUME NEW d, NEW cells
  PROVE  /\ DOMAIN Ups(d, cells) = Cell
         /\ \A x \in Cell : Ups(d, cells)[x] =
              LET ps == Users(x, d) \cap cells
              IN ps \cup UNION {Ups(d, cells)[p] : p \in ps}
<1>. DEFINE S == SUBSET Cell
            Us(x) == Users(x, d) \cap cells
            all(x, f) == Us(x) \cup UNION {f[p] : p \in Us(x)}
            step == [q \in Cell \X [Cell -> S] |-> all(q[1], q[2])]
            Put(f) == f = [x \in Cell |-> all(x, f)]
            up == CHOOSE f : Put(f)
            n == Cardinality(Cell)
            rank == [x \in Cell |-> n - Depth[x]]
<1>1. n \in Nat /\ rank \in [Cell -> 0..n] /\ S # {}
  <2>1. n \in Nat /\ \A x \in Cell : Depth[x] \in 0..n
    BY DepthFacts
  <2>. HIDE DEF n
  <2>. QED  BY <2>1
<1>2. \A x \in Cell : Us(x) \subseteq Cell
                      /\ \A p \in Us(x) : rank[p] < rank[x]
  <2>. SUFFICES ASSUME NEW x \in Cell, NEW p \in Us(x)
                PROVE  p \in Cell /\ rank[p] < rank[x]
    OBVIOUS
  <2>1. p \in Cell /\ x \in Kids[p]
    BY DEF Users
  <2>2. Depth[x] < Depth[p] /\ Depth[x] \in 0..n /\ Depth[p] \in 0..n
    BY <2>1, DepthFacts
  <2>. HIDE DEF n
  <2>. QED  BY <1>1, <2>1, <2>2
<1>. HIDE DEF n, Us, rank
<1>3. step \in [Cell \X [Cell -> S] -> S]
  <2>1. ASSUME NEW x \in Cell, NEW f \in [Cell -> S] PROVE all(x, f) \in S
    BY <1>2
  <2>. HIDE DEF all, S
  <2>. QED  BY <2>1
<1>4. DependsBelow(Cell, S, rank, step)
  <2>. SUFFICES ASSUME NEW x \in Cell, NEW f \in [Cell -> S], NEW g \in [Cell -> S],
                       \A y \in Cell : rank[y] < rank[x] => f[y] = g[y]
                PROVE  step[<<x, f>>] = step[<<x, g>>]
    BY DEF DependsBelow
  <2>1. \A p \in Us(x) : f[p] = g[p]
    BY <1>2
  <2>2. all(x, f) = all(x, g)
    BY <2>1
  <2>. HIDE DEF all, S
  <2>. QED  BY <2>2
<1>5. PICK g \in [Cell -> S] : Recurs(g, Cell, step)
  <2>. HIDE DEF step, S
  <2>. QED  BY <1>1, <1>3, <1>4, RecursionExists, Zenon
<1>6. Put(g)
  <2>1. \A x \in Cell : g[x] = all(x, g)
    <3>. HIDE DEF all, S
    <3>. QED  BY <1>5 DEF Recurs
  <2>. HIDE DEF all, S
  <2>. QED  BY <1>5, <2>1
<1>7. Put(up)
  BY <1>6
<1>8. Ups(d, cells) = up
  BY DEF Ups, Us
<1>. HIDE DEF up
<1>. QED  BY <1>7, <1>8 DEF Us

LEMMA AboveFacts ==
  ASSUME NEW d, NEW cells, cells \subseteq Cell, NEW c \in Cell
  PROVE  /\ Above(c, d, cells) \subseteq cells
         /\ Users(c, d) \cap cells \subseteq Above(c, d, cells)
         /\ \A x \in Above(c, d, cells) : Users(x, d) \cap cells \subseteq Above(c, d, cells)
<1>. DEFINE up == Ups(d, cells)
            T == {x \in Cell : up[x] \subseteq cells /\
                    \A y \in up[x] : Users(y, d) \cap cells \subseteq up[x]}
<1>1. \A x \in Cell : up[x] = (Users(x, d) \cap cells)
                              \cup UNION {up[p] : p \in Users(x, d) \cap cells}
  BY UpsRecurs
<1>2. Above(c, d, cells) = up[c]
  BY DEF Above, Ups
<1>. HIDE DEF up
<1>3. ASSUME NEW x \in Cell, \A p \in Cell : x \in Kids[p] => p \in T PROVE x \in T
  <2>1. \A p \in Users(x, d) : p \in T /\ p \in Cell
    BY <1>3 DEF Users
  <2>2. up[x] \subseteq cells
    BY <1>1, <2>1
  <2>3. ASSUME NEW y \in up[x] PROVE Users(y, d) \cap cells \subseteq up[x]
    <3>1. CASE y \in Users(x, d) \cap cells
      BY <1>1, <3>1, <2>1
    <3>2. CASE \E p \in Users(x, d) \cap cells : y \in up[p]
      BY <1>1, <2>1, <3>2
    <3>. QED  BY <1>1, <3>1, <3>2
  <2>. QED  BY <2>2, <2>3
<1>4. c \in T
  <2>1. \A x \in Cell : x \in T
    <3>. HIDE DEF T
    <3>. QED  BY <1>3, UpInduction
  <2>. QED  BY <2>1
<1>. QED  BY <1>1, <1>2, <1>4

\* They are all read.
LEMMA AboveRead ==
  ASSUME NEW d, NEW cells, cells \subseteq Cell, NEW c \in Cell, NEW x \in Above(c, d, cells)
  PROVE  IsRead(x, d)
<1>. DEFINE up == Ups(d, cells)
            T == {y \in Cell : \A p \in up[y] : IsRead(p, d)}
<1>1. \A y \in Cell : up[y] = (Users(y, d) \cap cells)
                              \cup UNION {up[p] : p \in Users(y, d) \cap cells}
  BY UpsRecurs
<1>2. Above(c, d, cells) = up[c]
  BY DEF Above, Ups
<1>. HIDE DEF up
<1>3. ASSUME NEW y \in Cell, \A p \in Cell : y \in Kids[p] => p \in T PROVE y \in T
  <2>1. \A p \in Users(y, d) : p \in T /\ IsRead(p, d)
    BY <1>3 DEF Users
  <2>. QED  BY <1>1, <2>1
<1>4. c \in T
  <2>1. \A y \in Cell : y \in T
    <3>. HIDE DEF T
    <3>. QED  BY <1>3, UpInduction
  <2>. QED  BY <2>1
<1>. QED  BY <1>2, <1>4

-----------------------------------------------------------------------------
(* The list of mismatches.                                                  *)
LEMMA FoundFacts ==
  ASSUME NEW c \in Cell, NEW use, NEW list \in Seq(Cell)
  PROVE  /\ Found(c, use, list) \in Seq(Cell)
         /\ Range(Found(c, use, list)) = Range(list) \cup {k \in Kids[c] : use[k].wrong}
<1>. DEFINE n == Len(Uses[c])
            S == Seq(Cell)
            all(i, l) == IF use[Uses[c][i]].wrong THEN <<Uses[c][i]>> \o l ELSE l
            step == [q \in (1..n) \X S |-> all(q[1], q[2])]
            Put(f) == f = [i \in 0..n |->
                IF i = 0 THEN list
                ELSE IF use[Uses[c][i]].wrong THEN <<Uses[c][i]>> \o f[i - 1]
                                              ELSE f[i - 1]]
            found == CHOOSE f : Put(f)
            wrong == {k \in Kids[c] : use[k].wrong}
            Seen(j) == {Uses[c][i] : i \in 1..j} \cap wrong
<1>1. /\ n \in Nat /\ \A i \in 1..n : Uses[c][i] \in Kids[c] /\ Uses[c][i] \in Cell
      /\ wrong \subseteq {Uses[c][i] : i \in 1..n}
  BY KidsFacts
<1>2. \A i \in 1..n : \A l \in S : /\ all(i, l) \in S
                                   /\ Range(all(i, l)) = Range(l) \cup ({Uses[c][i]} \cap wrong)
  <2>. SUFFICES ASSUME NEW i \in 1..n, NEW l \in S
                PROVE  /\ all(i, l) \in S
                       /\ Range(all(i, l)) = Range(l) \cup ({Uses[c][i]} \cap wrong)
    OBVIOUS
  <2>. DEFINE u == Uses[c][i]
  <2>1. u \in Cell /\ u \in Kids[c]
    BY <1>1
  <2>2. <<u>> \in Seq(Cell) /\ Range(<<u>>) = {u}
    <3>. HIDE DEF u
    <3>. QED  BY <2>1 DEF Range
  <2>3. <<u>> \o l \in Seq(Cell) /\ Range(<<u>> \o l) = Range(<<u>>) \cup Range(l)
    BY <2>2, RangeOfConcat
  <2>. HIDE DEF u
  <2>4. all(i, l) = IF use[u].wrong THEN <<u>> \o l ELSE l
    BY DEF u
  <2>. HIDE DEF all
  <2>. QED  BY <2>1, <2>2, <2>3, <2>4 DEF u
<1>3. step \in [(1..n) \X S -> S]
  <2>. HIDE DEF all, S
  <2>. QED  BY <1>2
<1>4. PICK g \in [0..n -> S] : Iterates(g, n, list, step)
  <2>. HIDE DEF step, n
  <2>. QED  BY <1>1, <1>3, IterationExists
<1>5. \A i \in 1..n : g[i] = all(i, g[i - 1])
  <2>. SUFFICES ASSUME NEW i \in 1..n PROVE g[i] = all(i, g[i - 1])
    OBVIOUS
  <2>1. i - 1 \in 0..n
    BY <1>1
  <2>2. <<i, g[i - 1]>> \in (1..n) \X S
    BY <2>1
  <2>3. g[i] = step[<<i, g[i - 1]>>]
    BY <1>4 DEF Iterates
  <2>. HIDE DEF all, S, n
  <2>. QED  BY <2>2, <2>3
<1>6. Put(g)
  <2>1. g[0] = list /\ g = [i \in 0..n |-> g[i]]
    BY <1>4 DEF Iterates
  <2>2. \A i \in 0..n : i = 0 \/ i \in 1..n
    BY <1>1
  <2>3. \A i \in 0..n : g[i] = IF i = 0 THEN list
                               ELSE IF use[Uses[c][i]].wrong THEN <<Uses[c][i]>> \o g[i - 1]
                                                             ELSE g[i - 1]
    BY <2>1, <2>2, <1>5, Zenon
  <2>. QED  BY <2>1, <2>3, Zenon
<1>7. Put(found)
  BY <1>6
<1>8. Found(c, use, list) = found[n]
  BY DEF Found
<1>. HIDE DEF found
<1>9. found[0] = list /\ \A i \in 1..n : found[i] = all(i, found[i - 1])
  <2>1. 0 \in 0..n /\ \A i \in 1..n : i \in 0..n /\ ~(i = 0)
    BY <1>1
  <2>2. \A i \in 0..n : found[i] = IF i = 0 THEN list
                               ELSE IF use[Uses[c][i]].wrong
                                      THEN <<Uses[c][i]>> \o found[i - 1]
                                      ELSE found[i - 1]
    BY <1>7, Zenon
  <2>. QED  BY <2>1, <2>2, Zenon
<1>. DEFINE T == {j \in 0..n : found[j] \in S /\ Range(found[j]) = Range(list) \cup Seen(j)}
<1>10. 0 \in T
  <2>1. Seen(0) = {}
    OBVIOUS
  <2>2. 0 \in 0..n
    BY <1>1
  <2>. HIDE DEF Seen
  <2>. QED  BY <1>9, <2>1, <2>2
<1>11. ASSUME NEW j \in 1..n, j - 1 \in T PROVE j \in T
  <2>1. Seen(j) = Seen(j - 1) \cup ({Uses[c][j]} \cap wrong)
    <3>. HIDE DEF wrong
    <3>1. \A i \in Int : i \in 1..j <=> i \in 1..(j - 1) \/ i = j
      OBVIOUS
    <3>. QED  BY <3>1
  <2>2. j \in 0..n
    BY <1>1
  <2>3. found[j - 1] \in S /\ Range(found[j - 1]) = Range(list) \cup Seen(j - 1)
    BY <1>11
  <2>. HIDE DEF Seen, all, wrong
  <2>4. found[j] \in S
        /\ Range(found[j]) = Range(found[j - 1]) \cup ({Uses[c][j]} \cap wrong)
    BY <1>2, <1>9, <2>3, Zenon
  <2>. QED  BY <2>1, <2>2, <2>3, <2>4
<1>12. n \in T
  <2>1. \A j \in 0..n : j \in T
    <3>. HIDE DEF T, n
    <3>. QED  BY <1>1, <1>10, <1>11, Induction
  <2>2. n \in 0..n
    BY <1>1
  <2>. HIDE DEF T
  <2>. QED  BY <2>1, <2>2
<1>13. Seen(n) = wrong
  BY <1>1
<1>. QED  BY <1>8, <1>12, <1>13

-----------------------------------------------------------------------------
(* The inductive invariant, of files dk, extracted files ex, definitions d   *)
(* and a time t, with the mismatches of the cells in noticed found.          *)
Defs(c) == {Unknown} \cup {Dummy(t) : t \in 0..MaxTime} \cup Read(c)
IsDummy(c, d) == d[c].state = "dummy"
\* The cell as it is, in memory or else in its file.
Current(c, dk, d) == IF IsRead(c, d) THEN d[c] ELSE dk[c]

Types(dk, ex, d, t) ==
  /\ t \in 1..MaxTime /\ DOMAIN dk = Cell /\ DOMAIN d = Cell
  /\ \A c \in Cell : /\ dk[c] \in File(c) /\ d[c] \in Defs(c)
                     /\ ex[c] \in [stamp : 0..MaxTime, ver : 0..MaxEdits, old : BOOLEAN]

StampsPast(dk, ex, d, t) ==
  \A c \in Cell :
    /\ dk[c].stamp \in 1..t /\ ex[c].stamp \in 1..t
    /\ IsRead(c, d) => d[c].stamp \in 1..t
    /\ IsDummy(c, d) => d[c].stamp \in 0..t
    /\ \A k \in Kids[c] : dk[c].exp[k] \in 0..t

\* A stamp of this second is the cell's own stamp still.
Fresh(dk, ex, d, t) ==
  \A c \in Cell :
    /\ t \in {dk[c].stamp, ex[c].stamp} => Current(c, dk, d).stamp = t
    /\ IsDummy(c, d) /\ d[c].stamp = t => Current(c, dk, d).stamp = t
    /\ \A p \in Cell : c \in Kids[p] /\ dk[p].exp[c] = t => Current(c, dk, d).stamp = t

\* One stamp, one layout.
Agree(x, y) == x.stamp = y.stamp /\ ~x.old /\ ~y.old => x.ver = y.ver
CopiesAgree(dk, ex, d) ==
  \A c \in Cell : /\ Agree(dk[c], ex[c])
                  /\ Agree(Current(c, dk, d), ex[c])
                  /\ Agree(Current(c, dk, d), dk[c])

Known(d) == \A p \in Cell : IsRead(p, d) => \A k \in Kids[p] : d[k].state # "unknown"

\* What p's file tells of its child k when it expects the stamp of this copy.
Excused(r, k) == r.check \/ k \in r.blind \cup r.passed
Shown(r, k, copy) == r.exp[k] = copy.stamp /\ ~copy.old => r.seen[k] = copy.ver \/ Excused(r, k)
DiskStale(dk, d) ==
  \A p \in Cell : \A k \in Kids[p] : /\ Shown(dk[p], k, dk[k])
                                     /\ Shown(dk[p], k, Current(k, dk, d))
DummyStale(dk, d, noticed) ==
  \A p \in Cell : IsRead(p, d) => \A k \in Kids[p] :
    IsDummy(k, d) /\ d[k].stamp = dk[k].stamp /\ ~dk[k].old =>
      d[p].seen[k] = dk[k].ver \/ Excused(d[p], k) \/ k \in noticed
MemStale(d, noticed) ==
  \A p \in Cell : IsRead(p, d) => \A k \in Kids[p] :
    IsRead(k, d) => d[p].seen[k] = d[k].ver \/ Excused(d[p], k) \/ k \in noticed

DiskLater(dk) ==
  \A p \in Cell : \A k \in Kids[p] :
    dk[p].stamp < dk[p].exp[k] => dk[p].check \/ k \in dk[p].passed
MemLater(d, noticed) ==
  \A p \in Cell : IsRead(p, d) => \A k \in Kids[p] :
    d[p].stamp < d[k].stamp =>
      d[p].check \/ d[p].getnew \/ k \in d[p].passed \/ k \in noticed

IInv(dk, ex, d, t, noticed) ==
  /\ Types(dk, ex, d, t)
  /\ StampsPast(dk, ex, d, t) /\ Fresh(dk, ex, d, t) /\ CopiesAgree(dk, ex, d)
  /\ Known(d)
  /\ DiskStale(dk, d) /\ DummyStale(dk, d, noticed) /\ MemStale(d, noticed)
  /\ DiskLater(dk) /\ MemLater(d, noticed)

Inv == /\ IInv(disk, ext, def, now, Range(mismatch))
       /\ mismatch \in Seq(Cell) /\ processed \subseteq Cell
       /\ fixing \in BOOLEAN /\ (mismatch # <<>>) = fixing
       /\ edits \in 0..MaxEdits /\ def = [c \in Cell |-> def[c]]
       /\ \A c \in processed : IsRead(c, def)

-----------------------------------------------------------------------------
(* What reading a cell does.                                                *)
LEMMA DefCases ==
  ASSUME NEW c \in Cell, NEW d, d[c] \in Defs(c)
  PROVE  \/ d[c] = Unknown /\ d[c].state = "unknown"
         \/ /\ IsDummy(c, d) /\ d[c] = Dummy(d[c].stamp) /\ d[c].stamp \in 0..MaxTime
            /\ d[c] # Unknown
         \/ IsRead(c, d) /\ d[c] \in Read(c) /\ d[c] # Unknown
BY DEF Defs, Unknown, Dummy, IsDummy, IsRead, Read

\* What becomes of the definition of a child.
LEMMA UseEffect ==
  ASSUME NEW d, NEW s, NEW c \in Cell, NEW k \in Kids[c], d[k] \in Defs(k),
         disk[c] \in File(c)
  PROVE  LET u == dbReadUse([def |-> d, mismatch |-> s], c, k)
             expected == disk[c].exp[k]
         IN /\ IsRead(k, d) => u.def = d[k]
            /\ IsDummy(k, d) => u.def \in {d[k], Dummy(0)}
            /\ d[k] = Unknown => u.def \in {Dummy(expected), Dummy(0)}
            /\ u.def \in Defs(k) /\ u.def.state # "unknown"
            /\ u.wrong \in BOOLEAN
            /\ ~u.wrong => u.def.stamp = expected /\ expected # 0
            /\ ~u.wrong /\ IsRead(k, d) /\ d[k].old /\ disk[c].seen[k] # d[k].ver => u.blind
<1>. DEFINE u == dbReadUse([def |-> d, mismatch |-> s], c, k)
            expected == disk[c].exp[k]
            kid == IF d[k] = Unknown THEN Dummy(expected) ELSE d[k]
            wrong == Mismatched(expected, kid.stamp)
<1>1. /\ u.wrong = wrong
      /\ u.def = IF wrong /\ kid.state = "dummy" THEN Dummy(0) ELSE kid
      /\ u.blind = (~wrong /\ kid.state = "read" /\ kid.old /\ disk[c].seen[k] # kid.ver)
  BY DEF dbReadUse
<1>2. expected \in 0..MaxTime /\ k \in Cell
  BY KidsFacts DEF File
<1>3. wrong \in BOOLEAN /\ (~wrong => kid.stamp = expected /\ expected # 0)
  BY DEF Mismatched
<1>. HIDE DEF u, wrong, expected
<1>4. \A t \in 0..MaxTime : /\ Dummy(t) \in Defs(k) /\ Dummy(t).state = "dummy"
                            /\ Dummy(t).stamp = t
  BY DEF Defs, Dummy
<1>5. 0 \in 0..MaxTime
  BY BoundsAssumption
<1>6. CASE d[k] = Unknown
  <2>1. kid = Dummy(expected) /\ kid.state = "dummy" /\ kid.stamp = expected
        /\ kid \in Defs(k)
    BY <1>2, <1>4, <1>6
  <2>2. ~IsRead(k, d) /\ ~IsDummy(k, d)
    BY <1>6 DEF IsRead, IsDummy, Unknown
  <2>. QED  BY <1>1, <1>3, <1>4, <1>5, <2>1, <2>2 DEF u, expected
<1>7. CASE IsDummy(k, d) /\ d[k] # Unknown
  <2>1. kid = d[k] /\ kid.state = "dummy" /\ kid \in Defs(k) /\ ~IsRead(k, d)
    BY <1>7 DEF IsDummy, IsRead
  <2>. QED  BY <1>1, <1>3, <1>4, <1>5, <1>7, <2>1 DEF u, expected
<1>8. CASE IsRead(k, d) /\ d[k] # Unknown
  <2>1. kid = d[k] /\ kid.state = "read" /\ kid \in Defs(k) /\ ~IsDummy(k, d)
    BY <1>8 DEF IsDummy, IsRead
  <2>. HIDE DEF kid
  <2>. QED  BY <1>1, <1>3, <1>8, <2>1 DEF u, expected
<1>. QED  BY <1>2, <1>6, <1>7, <1>8, DefCases DEF u, expected

\* The definitions e and the mismatches found after a cell c was read that was
\* not read in d.
Reads(c, d, e, found) ==
  /\ IsRead(c, e)
  /\ LET f == disk[c]
     IN /\ e[c].stamp = f.stamp /\ e[c].ver = f.ver /\ e[c].seen = f.seen
        /\ e[c].check = f.check /\ e[c].old = f.old /\ e[c].passed = f.passed
        /\ f.blind \subseteq e[c].blind
        /\ \A k \in Kids[c] :
             /\ e[k].state # "unknown"
             /\ \/ k \in found
                \/ /\ e[k].stamp = f.exp[k]
                   /\ IsRead(k, d) /\ d[k].old /\ f.seen[k] # d[k].ver => k \in e[c].blind
        /\ \A p \in Users(c, d) :
             \/ c \in found
             \/ /\ d[c].stamp = f.stamp
                /\ f.old /\ d[p].seen[c] # f.ver => c \in e[p].blind
  /\ \A x \in Cell \ {c} :
       /\ IsRead(x, e) <=> IsRead(x, d)
       /\ IsRead(x, d) =>
            /\ e[x].stamp = d[x].stamp /\ e[x].ver = d[x].ver /\ e[x].seen = d[x].seen
            /\ e[x].check = d[x].check /\ e[x].old = d[x].old /\ e[x].passed = d[x].passed
            /\ e[x].getnew = d[x].getnew /\ d[x].blind \subseteq e[x].blind
       /\ IsDummy(x, d) => e[x] \in {d[x], Dummy(0)}
       /\ d[x].state = "unknown" =>
            e[x] = d[x] \/ (x \in Kids[c] /\ e[x] \in {Dummy(0), Dummy(disk[c].exp[x])})

LEMMA ReadEffect ==
  ASSUME NEW ex, NEW d, NEW t, NEW s \in Seq(Cell), NEW c \in Cell,
         Types(disk, ex, d, t), ~IsRead(c, d)
  PROVE  LET r == DBCellRead([def |-> d, mismatch |-> s], c)
         IN /\ r = [def |-> r.def, mismatch |-> r.mismatch]
            /\ r.mismatch \in Seq(Cell) /\ Range(s) \subseteq Range(r.mismatch)
            /\ Types(disk, ex, r.def, t)
            /\ r.def = [x \in Cell |-> r.def[x]]
            /\ Reads(c, d, r.def, Range(r.mismatch))
<1>. DEFINE m == [def |-> d, mismatch |-> s]
            f == disk[c]
            use == [k \in Kids[c] |-> dbReadUse(m, c, k)]
            users == Users(c, d)
            wrong == users # {} /\ Mismatched(f.stamp, d[c].stamp)
            missed == IF wrong \/ ~f.old THEN {} ELSE {p \in users : d[p].seen[c] # f.ver}
            new == [state |-> "read", stamp |-> f.stamp, ver |-> f.ver, seen |-> f.seen,
                    check |-> f.check, old |-> f.old, getnew |-> f.stamp = 0,
                    blind |-> f.blind \cup {k \in Kids[c] : use[k].blind},
                    passed |-> f.passed]
            e == [x \in Cell |-> IF x = c THEN new
                                 ELSE IF x \in Kids[c] THEN use[x].def
                                 ELSE IF x \in missed THEN [d[x] EXCEPT !.blind = @ \cup {c}]
                                 ELSE d[x]]
            list == (IF wrong THEN <<c>> ELSE <<>>) \o Found(c, use, s)
            r == DBCellRead(m, c)
<1>1. r = [def |-> e, mismatch |-> list]
  BY DEF DBCellRead
<1>2. \A x \in Cell : disk[x] \in File(x) /\ d[x] \in Defs(x)
  BY DEF Types
<1>3. \A k \in Kids[c] : k \in Cell /\ k # c /\ c \notin Kids[k]
  BY NoCircle
<1>4. \A k \in Kids[c] :
        /\ IsRead(k, d) => use[k].def = d[k]
        /\ IsDummy(k, d) => use[k].def \in {d[k], Dummy(0)}
        /\ d[k] = Unknown => use[k].def \in {Dummy(f.exp[k]), Dummy(0)}
        /\ use[k].def \in Defs(k) /\ use[k].def.state # "unknown"
        /\ use[k].wrong \in BOOLEAN
        /\ ~use[k].wrong => use[k].def.stamp = f.exp[k] /\ f.exp[k] # 0
        /\ ~use[k].wrong /\ IsRead(k, d) /\ d[k].old /\ f.seen[k] # d[k].ver => use[k].blind
  <2>. SUFFICES ASSUME NEW k \in Kids[c]
                PROVE  LET u == dbReadUse(m, c, k)
                       IN /\ IsRead(k, d) => u.def = d[k]
                          /\ IsDummy(k, d) => u.def \in {d[k], Dummy(0)}
                          /\ d[k] = Unknown => u.def \in {Dummy(f.exp[k]), Dummy(0)}
                          /\ u.def \in Defs(k) /\ u.def.state # "unknown"
                          /\ u.wrong \in BOOLEAN
                          /\ ~u.wrong => u.def.stamp = f.exp[k] /\ f.exp[k] # 0
                          /\ ~u.wrong /\ IsRead(k, d) /\ d[k].old /\ f.seen[k] # d[k].ver
                               => u.blind
    BY Zenon
  <2>. QED  BY <1>2, <1>3, UseEffect
<1>. HIDE DEF use
<1>5. missed \subseteq users /\ users \subseteq Cell
      /\ \A x \in users : IsRead(x, d) /\ x # c /\ c \in Kids[x] /\ x \notin Kids[c]
  BY NoCircle DEF Users
<1>6. list \in Seq(Cell)
      /\ Range(list) = (IF wrong THEN {c} ELSE {}) \cup Range(s)
                       \cup {k \in Kids[c] : use[k].wrong}
  <2>. DEFINE found == Found(c, use, s)
              w == IF wrong THEN <<c>> ELSE <<>>
  <2>1. found \in Seq(Cell) /\ Range(found) = Range(s) \cup {k \in Kids[c] : use[k].wrong}
    BY FoundFacts
  <2>2. w \in Seq(Cell) /\ Range(w) = IF wrong THEN {c} ELSE {}
    <3>1. <<c>> \in Seq(Cell) /\ Range(<<c>>) = {c}
      BY DEF Range
    <3>2. <<>> \in Seq(Cell) /\ Range(<<>>) = {}
      BY EmptySeq DEF Range
    <3>. HIDE DEF wrong
    <3>. QED  BY <3>1, <3>2
  <2>. HIDE DEF found, w, wrong
  <2>3. w \o found \in Seq(Cell) /\ Range(w \o found) = Range(w) \cup Range(found)
    BY <2>1, <2>2, RangeOfConcat
  <2>4. list = w \o found
    BY DEF found, w
  <2>. HIDE DEF list
  <2>. QED  BY <2>1, <2>2, <2>3, <2>4
<1>. HIDE DEF list, users
<1>7. new \in Read(c)
  BY <1>2 DEF File, Read
<1>8. \A x \in missed : /\ [d[x] EXCEPT !.blind = @ \cup {c}] \in Read(x)
                        /\ LET y == [d[x] EXCEPT !.blind = @ \cup {c}]
                           IN /\ y.state = d[x].state /\ y.stamp = d[x].stamp
                              /\ y.ver = d[x].ver /\ y.seen = d[x].seen
                              /\ y.check = d[x].check /\ y.old = d[x].old
                              /\ y.passed = d[x].passed /\ y.getnew = d[x].getnew
                              /\ y.blind = d[x].blind \cup {c}
  <2>. SUFFICES ASSUME NEW x \in missed
                PROVE  LET y == [d[x] EXCEPT !.blind = @ \cup {c}]
                       IN /\ y \in Read(x)
                          /\ y.state = d[x].state /\ y.stamp = d[x].stamp
                          /\ y.ver = d[x].ver /\ y.seen = d[x].seen
                          /\ y.check = d[x].check /\ y.old = d[x].old
                          /\ y.passed = d[x].passed /\ y.getnew = d[x].getnew
                          /\ y.blind = d[x].blind \cup {c}
    BY Zenon
  <2>1. d[x] \in Read(x) /\ c \in Kids[x]
    <3>1. x \in Cell /\ IsRead(x, d) /\ c \in Kids[x]
      BY <1>5
    <3>. QED  BY <1>2, <3>1, DefCases DEF IsRead, Unknown, IsDummy
  <2>. HIDE DEF missed
  <2>. QED  BY <2>1 DEF Read
<1>. HIDE DEF new, missed
<1>9. \A x \in Cell : e[x] \in Defs(x)
  <2>. SUFFICES ASSUME NEW x \in Cell PROVE e[x] \in Defs(x)
    OBVIOUS
  <2>. QED  BY <1>2, <1>4, <1>7, <1>8 DEF Defs
<1>10. Types(disk, ex, e, t)
  <2>. HIDE DEF e
  <2>1. DOMAIN e = Cell
    BY DEF e
  <2>. QED  BY <1>9, <2>1 DEF Types
<1>11. e[c] = new
  OBVIOUS
<1>12. \A x \in Cell \ {c} : \/ x \in Kids[c] /\ e[x] = use[x].def
                             \/ x \in missed /\ e[x] = [d[x] EXCEPT !.blind = @ \cup {c}]
                             \/ x \notin missed /\ e[x] = d[x]
  OBVIOUS
<1>13. \A x \in missed : e[x] = [d[x] EXCEPT !.blind = @ \cup {c}]
  BY <1>5
<1>14. \A k \in Kids[c] : e[k] = use[k].def
  BY <1>3
<1>15. e = [x \in Cell |-> e[x]]
  OBVIOUS
<1>. HIDE DEF e
<1>16. \A x \in Cell \ {c} :
       /\ IsRead(x, e) <=> IsRead(x, d)
       /\ IsRead(x, d) =>
            /\ e[x].stamp = d[x].stamp /\ e[x].ver = d[x].ver /\ e[x].seen = d[x].seen
            /\ e[x].check = d[x].check /\ e[x].old = d[x].old /\ e[x].passed = d[x].passed
            /\ e[x].getnew = d[x].getnew /\ d[x].blind \subseteq e[x].blind
       /\ IsDummy(x, d) => e[x] \in {d[x], Dummy(0)}
       /\ d[x].state = "unknown" =>
            e[x] = d[x] \/ (x \in Kids[c] /\ e[x] \in {Dummy(0), Dummy(f.exp[x])})
  <2>. SUFFICES ASSUME NEW x \in Cell \ {c}
         PROVE
       /\ IsRead(x, e) <=> IsRead(x, d)
       /\ IsRead(x, d) =>
            /\ e[x].stamp = d[x].stamp /\ e[x].ver = d[x].ver /\ e[x].seen = d[x].seen
            /\ e[x].check = d[x].check /\ e[x].old = d[x].old /\ e[x].passed = d[x].passed
            /\ e[x].getnew = d[x].getnew /\ d[x].blind \subseteq e[x].blind
       /\ IsDummy(x, d) => e[x] \in {d[x], Dummy(0)}
       /\ d[x].state = "unknown" =>
            e[x] = d[x] \/ (x \in Kids[c] /\ e[x] \in {Dummy(0), Dummy(f.exp[x])})
    OBVIOUS
  <2>1. CASE x \in Kids[c] /\ e[x] = use[x].def
    <3>1. CASE IsRead(x, d)
      <4>1. e[x] = d[x] /\ ~IsDummy(x, d) /\ d[x].state # "unknown"
        BY <1>4, <2>1, <3>1 DEF IsRead, IsDummy
      <4>. QED  BY <3>1, <4>1 DEF IsRead
    <3>2. CASE IsDummy(x, d)
      <4>1. e[x] \in {d[x], Dummy(0)} /\ ~IsRead(x, d) /\ d[x].state # "unknown"
        BY <1>4, <2>1, <3>2 DEF IsRead, IsDummy
      <4>2. ~IsRead(x, e)
        BY <4>1 DEF IsRead, Dummy
      <4>. QED  BY <4>1, <4>2
    <3>3. CASE d[x] = Unknown
      <4>1. /\ e[x] \in {Dummy(0), Dummy(f.exp[x])} /\ ~IsRead(x, d)
            /\ ~IsDummy(x, d)
        BY <1>4, <2>1, <3>3 DEF IsRead, IsDummy, Unknown
      <4>2. ~IsRead(x, e)
        BY <4>1 DEF IsRead, Dummy
      <4>. QED  BY <2>1, <4>1, <4>2
    <3>4. d[x] \in Defs(x)
      BY <1>2
    <3>. QED  BY <3>1, <3>2, <3>3, <3>4, DefCases
  <2>2. CASE x \in missed /\ e[x] = [d[x] EXCEPT !.blind = @ \cup {c}]
    <3>1. IsRead(x, d)
      BY <1>5, <2>2
    <3>2. ~IsDummy(x, d) /\ d[x].state # "unknown"
      BY <3>1 DEF IsRead, IsDummy
    <3>. QED  BY <1>8, <2>2, <3>1, <3>2 DEF IsRead
  <2>3. CASE e[x] = d[x]
    BY <2>3 DEF IsRead
  <2>. QED  BY <1>12, <2>1, <2>2, <2>3
<1>17. /\ IsRead(c, e)
       /\ e[c].stamp = f.stamp /\ e[c].ver = f.ver /\ e[c].seen = f.seen
       /\ e[c].check = f.check /\ e[c].old = f.old /\ e[c].passed = f.passed
       /\ f.blind \subseteq e[c].blind
       /\ \A k \in Kids[c] : use[k].blind => k \in e[c].blind
  <2>. HIDE DEF f
  <2>. QED  BY <1>11 DEF new, IsRead
<1>18. \A k \in Kids[c] :
         /\ e[k].state # "unknown"
         /\ \/ k \in Range(list)
            \/ /\ e[k].stamp = f.exp[k]
               /\ IsRead(k, d) /\ d[k].old /\ f.seen[k] # d[k].ver => k \in e[c].blind
  BY <1>4, <1>6, <1>14, <1>17
<1>19. \A p \in Users(c, d) :
         \/ c \in Range(list)
         \/ /\ d[c].stamp = f.stamp
            /\ f.old /\ d[p].seen[c] # f.ver => c \in e[p].blind
  <2>. SUFFICES ASSUME NEW p \in users, c \notin Range(list)
                PROVE  /\ d[c].stamp = f.stamp
                       /\ f.old /\ d[p].seen[c] # f.ver => c \in e[p].blind
    BY DEF users
  <2>1. ~wrong
    BY <1>6
  <2>2. d[c].stamp = f.stamp
    BY <2>1 DEF Mismatched
  <2>3. ASSUME f.old, d[p].seen[c] # f.ver PROVE c \in e[p].blind
    <3>1. p \in missed
      BY <2>1, <2>3 DEF missed
    <3>. QED  BY <1>8, <1>13, <3>1
  <2>. QED  BY <2>2, <2>3
<1>20. Reads(c, d, e, Range(list))
  BY <1>16, <1>17, <1>18, <1>19 DEF Reads
<1>21. r.def = e /\ r.mismatch = list /\ r = [def |-> r.def, mismatch |-> r.mismatch]
  BY <1>1
<1>22. Range(s) \subseteq Range(list)
  BY <1>6
<1>. HIDE DEF r
<1>. QED  BY <1>6, <1>10, <1>15, <1>20, <1>21, <1>22 DEF r

\* Reading keeps the invariant, whatever else is noticed.
LEMMA Reading ==
  ASSUME NEW ex, NEW d, NEW t, NEW e, NEW more, NEW before, NEW after, NEW c \in Cell,
         IInv(disk, ex, d, t, more \cup before), ~IsRead(c, d),
         Types(disk, ex, e, t), before \subseteq after, Reads(c, d, e, after)
  PROVE  IInv(disk, ex, e, t, more \cup after)
<1>1. \A x \in Cell : /\ disk[x] \in File(x) /\ d[x] \in Defs(x) /\ e[x] \in Defs(x)
                      /\ disk[x].stamp \in 1..t
                      /\ IsRead(x, d) => d[x].stamp \in 1..t
                      /\ IsDummy(x, d) => d[x].stamp \in 0..t
                      /\ \A k \in Kids[x] : disk[x].exp[k] \in 0..t
  BY DEF IInv, Types, StampsPast
<1>0. t \in Nat /\ t # 0
  BY BoundsAssumption DEF IInv, Types
<1>2. \A p \in Cell : \A k \in Kids[p] : k \in Cell /\ k # p /\ p \notin Kids[k]
  BY NoCircle
<1>3. \A x \in Cell : /\ IsRead(x, d) => ~IsDummy(x, d) /\ d[x].state # "unknown"
                      /\ IsDummy(x, d) => d[x].state # "unknown"
                      /\ IsRead(x, d) \/ IsDummy(x, d) \/ d[x].state = "unknown"
                      /\ IsRead(x, e) => ~IsDummy(x, e) /\ e[x].state # "unknown"
                      /\ IsRead(x, e) \/ IsDummy(x, e) \/ e[x].state = "unknown"
                      /\ IsDummy(x, e) => e[x].state # "unknown"
  <2>. SUFFICES ASSUME NEW x \in Cell
                PROVE /\ IsRead(x, d) => ~IsDummy(x, d) /\ d[x].state # "unknown"
                      /\ IsDummy(x, d) => d[x].state # "unknown"
                      /\ IsRead(x, d) \/ IsDummy(x, d) \/ d[x].state = "unknown"
                      /\ IsRead(x, e) => ~IsDummy(x, e) /\ e[x].state # "unknown"
                      /\ IsRead(x, e) \/ IsDummy(x, e) \/ e[x].state = "unknown"
                      /\ IsDummy(x, e) => e[x].state # "unknown"
    OBVIOUS
  <2>. QED  BY <1>1, DefCases DEF IsRead, IsDummy
<1>4. \A s : Dummy(s).stamp = s /\ Dummy(s).state = "dummy"
  BY DEF Dummy
\* As a cell was, so it is.
<1>5. \A x \in Cell : /\ IsRead(x, d) => IsRead(x, e)
                      /\ Current(x, disk, e).stamp = Current(x, disk, d).stamp
                      /\ Current(x, disk, e).ver = Current(x, disk, d).ver
                      /\ Current(x, disk, e).old = Current(x, disk, d).old
  BY DEF Reads, Current
\* A cell that is no more than expected in e was so in d, or it is now.
<1>6. \A x \in Cell : IsDummy(x, e) =>
        /\ x # c /\ ~IsRead(x, d)
        /\ \/ e[x].stamp = 0
           \/ IsDummy(x, d) /\ e[x] = d[x]
           \/ /\ d[x].state = "unknown" /\ x \in Kids[c]
              /\ e[x].stamp = disk[c].exp[x]
  <2>. SUFFICES ASSUME NEW x \in Cell, IsDummy(x, e)
                PROVE  /\ x # c /\ ~IsRead(x, d)
                       /\ \/ e[x].stamp = 0
                          \/ IsDummy(x, d) /\ e[x] = d[x]
                          \/ /\ d[x].state = "unknown" /\ x \in Kids[c]
                             /\ e[x].stamp = disk[c].exp[x]
    OBVIOUS
  <2>1. x # c /\ ~IsRead(x, d) /\ ~IsRead(x, e)
    BY <1>3 DEF Reads
  <2>2. CASE IsDummy(x, d)
    BY <1>4, <2>1, <2>2 DEF Reads
  <2>3. CASE d[x].state = "unknown"
    <3>1. \/ e[x] = d[x]
          \/ x \in Kids[c] /\ (e[x] = Dummy(0) \/ e[x] = Dummy(disk[c].exp[x]))
      BY <2>1, <2>3 DEF Reads
    <3>2. e[x] # d[x]
      BY <1>3, <2>3
    <3>. QED  BY <1>4, <2>1, <2>3, <3>1, <3>2
  <2>. QED  BY <1>3, <2>1, <2>2, <2>3
<1>7. StampsPast(disk, ex, e, t)
  <2>1. \A x \in Cell : IsRead(x, e) => e[x].stamp \in 1..t
    BY <1>1 DEF Reads
  <2>2. \A x \in Cell : IsDummy(x, e) => e[x].stamp \in 0..t
    <3>1. 0 \in 0..t
      BY <1>0
    <3>. QED  BY <1>1, <1>6, <3>1
  <2>. QED  BY <1>1, <2>1, <2>2 DEF IInv, StampsPast
<1>8. Fresh(disk, ex, e, t)
  <2>1. \A x \in Cell : IsDummy(x, e) /\ e[x].stamp = t => Current(x, disk, d).stamp = t
    BY <1>0, <1>6 DEF IInv, Fresh
  <2>. QED  BY <1>5, <2>1 DEF IInv, Fresh
<1>9. CopiesAgree(disk, ex, e)
  BY <1>5 DEF IInv, CopiesAgree, Agree
<1>10. Known(e)
  <2>. SUFFICES ASSUME NEW p \in Cell, IsRead(p, e), NEW k \in Kids[p]
                PROVE  e[k].state # "unknown"
    BY DEF Known
  <2>1. CASE p = c
    BY <2>1 DEF Reads
  <2>2. CASE p # c
    <3>1. d[k].state # "unknown" /\ k \in Cell
      BY <1>2, <2>2 DEF IInv, Known, Reads
    <3>2. CASE IsRead(k, d)
      BY <1>3, <1>5, <3>1, <3>2
    <3>3. CASE IsDummy(k, d)
      <4>1. k = c \/ e[k] \in {d[k], Dummy(0)}
        BY <3>1, <3>3 DEF Reads
      <4>2. c \in Cell /\ IsRead(c, e)
        BY DEF Reads
      <4>. QED  BY <1>3, <1>4, <3>1, <4>1, <4>2
    <3>. QED  BY <1>3, <3>1, <3>2, <3>3
  <2>. QED  BY <2>1, <2>2
<1>11. DiskStale(disk, e)
  BY <1>2, <1>5 DEF IInv, DiskStale, Shown
<1>12. \A p \in Cell : IsRead(p, e) => \A k \in Kids[p] : k \in after \/
         ( /\ IsDummy(k, e) /\ e[k].stamp = disk[k].stamp /\ ~disk[k].old =>
                e[p].seen[k] = disk[k].ver \/ Excused(e[p], k) \/ k \in more
           /\ IsRead(k, e) => e[p].seen[k] = e[k].ver \/ Excused(e[p], k) \/ k \in more
           /\ e[p].stamp < e[k].stamp =>
                e[p].check \/ e[p].getnew \/ k \in e[p].passed \/ k \in more )
  <2>. SUFFICES ASSUME NEW p \in Cell, IsRead(p, e), NEW k \in Kids[p], k \notin after
         PROVE  /\ IsDummy(k, e) /\ e[k].stamp = disk[k].stamp /\ ~disk[k].old =>
                     e[p].seen[k] = disk[k].ver \/ Excused(e[p], k) \/ k \in more
                /\ IsRead(k, e) => e[p].seen[k] = e[k].ver \/ Excused(e[p], k) \/ k \in more
                /\ e[p].stamp < e[k].stamp =>
                     e[p].check \/ e[p].getnew \/ k \in e[p].passed \/ k \in more
    OBVIOUS
  <2>0. k \in Cell /\ k # p
    BY <1>2
  <2>1. CASE p = c
    <3>1. e[k].stamp = disk[p].exp[k]
          /\ (IsRead(k, d) /\ d[k].old /\ disk[p].seen[k] # d[k].ver => k \in e[p].blind)
      BY <2>1 DEF Reads
    <3>2. Shown(disk[p], k, disk[k]) /\ Shown(disk[p], k, Current(k, disk, d))
      BY DEF IInv, DiskStale
    <3>3. /\ e[p].seen = disk[p].seen /\ e[p].stamp = disk[p].stamp
          /\ Excused(disk[p], k) => Excused(e[p], k)
          /\ e[p].check = disk[p].check /\ e[p].passed = disk[p].passed
      BY <2>1 DEF Reads, Excused
    <3>4. disk[p].stamp < disk[p].exp[k] => disk[p].check \/ k \in disk[p].passed
      BY DEF IInv, DiskLater
    <3>5. IsRead(k, e) => IsRead(k, d) /\ e[k].ver = d[k].ver /\ e[k].stamp = d[k].stamp
      BY <2>0, <2>1 DEF Reads
    <3>6. ASSUME IsDummy(k, e), e[k].stamp = disk[k].stamp, ~disk[k].old
          PROVE  e[p].seen[k] = disk[k].ver \/ Excused(e[p], k)
      BY <3>1, <3>2, <3>3, <3>6 DEF Shown
    <3>7. ASSUME IsRead(k, e) PROVE e[p].seen[k] = e[k].ver \/ Excused(e[p], k)
      <4>1. Current(k, disk, d) = d[k]
        BY <3>5, <3>7 DEF Current
      <4>2. CASE ~d[k].old
        BY <3>1, <3>2, <3>3, <3>5, <3>7, <4>1, <4>2 DEF Shown
      <4>3. CASE d[k].old
        BY <3>1, <3>3, <3>5, <3>7, <4>3 DEF Excused
      <4>. QED  BY <4>2, <4>3
    <3>8. e[p].stamp < e[k].stamp => e[p].check \/ k \in e[p].passed
      BY <3>1, <3>3, <3>4
    <3>. QED  BY <3>6, <3>7, <3>8
  <2>2. CASE p # c
    <3>1. /\ IsRead(p, d)
          /\ e[p].seen = d[p].seen /\ e[p].stamp = d[p].stamp /\ e[p].check = d[p].check
          /\ e[p].getnew = d[p].getnew /\ e[p].passed = d[p].passed
          /\ d[p].blind \subseteq e[p].blind
      BY <2>2 DEF Reads
    <3>2. Excused(d[p], k) => Excused(e[p], k)
      BY <3>1 DEF Excused
    <3>3. k \notin before
      OBVIOUS
    <3>4. /\ IsDummy(k, d) /\ d[k].stamp = disk[k].stamp /\ ~disk[k].old =>
               d[p].seen[k] = disk[k].ver \/ Excused(d[p], k) \/ k \in more
          /\ IsRead(k, d) => d[p].seen[k] = d[k].ver \/ Excused(d[p], k) \/ k \in more
          /\ d[p].stamp < d[k].stamp =>
               d[p].check \/ d[p].getnew \/ k \in d[p].passed \/ k \in more
      BY <3>1, <3>3 DEF IInv, DummyStale, MemStale, MemLater
    <3>5. d[k].state # "unknown"
      BY <3>1 DEF IInv, Known
    <3>6. CASE k = c
      <4>1. p \in Users(c, d)
        BY <3>1, <3>6 DEF Users
      <4>2. /\ d[c].stamp = disk[c].stamp
            /\ disk[c].old /\ d[p].seen[c] # disk[c].ver => c \in e[p].blind
        BY <3>6, <4>1 DEF Reads
      <4>3. IsDummy(c, d)
        BY <1>3, <3>5, <3>6
      <4>4. IsRead(c, e) /\ ~IsDummy(c, e) /\ e[c].ver = disk[c].ver
            /\ e[c].stamp = disk[c].stamp
        BY <1>3 DEF Reads
      <4>5. e[p].seen[k] = e[k].ver \/ Excused(e[p], k) \/ k \in more
        <5>1. CASE disk[c].old
          BY <3>1, <3>6, <4>2, <4>4, <5>1 DEF Excused
        <5>2. CASE ~disk[c].old
          BY <3>1, <3>2, <3>4, <3>6, <4>2, <4>3, <4>4, <5>2
        <5>. QED  BY <5>1, <5>2
      <4>6. e[p].stamp < e[k].stamp =>
              e[p].check \/ e[p].getnew \/ k \in e[p].passed \/ k \in more
        BY <3>1, <3>4, <3>6, <4>2, <4>4
      <4>. QED  BY <3>6, <4>4, <4>5, <4>6
    <3>7. CASE k # c
      <4>1. CASE IsRead(k, d)
        <5>1. IsRead(k, e) /\ ~IsDummy(k, e) /\ e[k].ver = d[k].ver
              /\ e[k].stamp = d[k].stamp
          BY <1>3, <2>0, <3>7, <4>1 DEF Reads
        <5>. QED  BY <3>1, <3>2, <3>4, <4>1, <5>1
      <4>2. CASE IsDummy(k, d)
        <5>1. e[k] = d[k] \/ e[k] = Dummy(0)
          BY <2>0, <3>7, <4>2 DEF Reads
        <5>2. ~IsRead(k, e)
          BY <1>3, <2>0, <3>7, <4>2 DEF Reads
        <5>3. CASE e[k] = d[k]
          BY <3>1, <3>2, <3>4, <4>2, <5>2, <5>3
        <5>4. CASE e[k] = Dummy(0)
          <6>1. e[k].stamp = 0
            BY <1>4, <5>4
          <6>2. disk[k].stamp # 0 /\ e[p].stamp \in Nat /\ e[p].stamp \in 1..t
            BY <1>0, <1>1, <2>0, <3>1
          <6>3. ~(e[p].stamp < e[k].stamp)
            BY <6>1, <6>2
          <6>. QED  BY <5>2, <6>1, <6>2, <6>3
        <5>. QED  BY <5>1, <5>3, <5>4
      <4>. QED  BY <1>3, <2>0, <3>5, <4>1, <4>2
    <3>. QED  BY <3>6, <3>7
  <2>. QED  BY <2>1, <2>2
<1>13. /\ DummyStale(disk, e, more \cup after) /\ MemStale(e, more \cup after)
       /\ MemLater(e, more \cup after)
  BY <1>12 DEF DummyStale, MemStale, MemLater
<1>. QED  BY <1>7, <1>8, <1>9, <1>10, <1>11, <1>13 DEF IInv

\* Memories in which the invariant holds.
AnyDef == UNION {Defs(c) : c \in Cell}
Memories(ex, t) ==
  {m \in [def : [Cell -> AnyDef], mismatch : Seq(Cell)] :
     IInv(disk, ex, m.def, t, Range(m.mismatch))}

LEMMA OneRead ==
  ASSUME NEW ex, NEW t, NEW m \in Memories(ex, t), NEW c \in Cell
  PROVE  /\ DBCellRead(m, c) \in Memories(ex, t) /\ IsRead(c, DBCellRead(m, c).def)
         /\ \A x \in Cell : IsRead(x, m.def) => IsRead(x, DBCellRead(m, c).def)
<1>1. CASE IsRead(c, m.def)
  BY <1>1 DEF DBCellRead
<1>2. CASE ~IsRead(c, m.def)
  <2>. DEFINE d == m.def
              s == m.mismatch
              r == DBCellRead(m, c)
  <2>1. /\ s \in Seq(Cell) /\ IInv(disk, ex, d, t, Range(s))
        /\ m = [def |-> d, mismatch |-> s] /\ ~IsRead(c, d)
    BY <1>2 DEF Memories
  <2>2. Types(disk, ex, d, t)
    BY <2>1 DEF IInv
  <2>. HIDE DEF d, s, r
  <2>3. /\ r = [def |-> r.def, mismatch |-> r.mismatch]
        /\ r.mismatch \in Seq(Cell) /\ Range(s) \subseteq Range(r.mismatch)
        /\ Types(disk, ex, r.def, t)
        /\ r.def = [x \in Cell |-> r.def[x]]
        /\ Reads(c, d, r.def, Range(r.mismatch))
    <3>1. r = DBCellRead([def |-> d, mismatch |-> s], c)
      BY <2>1 DEF r
    <3>. QED  BY <2>1, <2>2, <3>1, ReadEffect
  <2>4. IInv(disk, ex, r.def, t, Range(r.mismatch))
    <3>. DEFINE none == {}
    <3>1. IInv(disk, ex, d, t, none \cup Range(s))
      <4>1. none \cup Range(s) = Range(s)
        OBVIOUS
      <4>. QED  BY <2>1, <4>1
    <3>2. none \cup Range(r.mismatch) = Range(r.mismatch)
      OBVIOUS
    <3>. HIDE DEF none
    <3>3. IInv(disk, ex, r.def, t, none \cup Range(r.mismatch))
      BY <2>1, <2>3, <3>1, Reading
    <3>. QED  BY <3>2, <3>3
  <2>5. r.def \in [Cell -> AnyDef]
    <3>1. \A x \in Cell : r.def[x] \in AnyDef
      BY <2>3 DEF Types, AnyDef
    <3>. QED  BY <2>3, <3>1
  <2>6. r \in Memories(ex, t)
    BY <2>3, <2>4, <2>5 DEF Memories
  <2>7. IsRead(c, r.def) /\ \A x \in Cell : IsRead(x, d) => IsRead(x, r.def)
    BY <2>3 DEF Reads
  <2>. QED  BY <2>6, <2>7 DEF d, r
<1>. QED  BY <1>1, <1>2

LEMMA TreeRead ==
  ASSUME NEW ex, NEW t, NEW m \in Memories(ex, t), NEW root \in Cell
  PROVE  /\ ReadTree(m, root) \in Memories(ex, t)
         /\ \A x \in Below[root] : IsRead(x, ReadTree(m, root).def)
         /\ \A x \in Cell : IsRead(x, m.def) => IsRead(x, ReadTree(m, root).def)
<1>. DEFINE n == Len(Tree[root])
            S == Memories(ex, t)
            at(i) == Tree[root][i]
            step == [q \in (1..n) \X S |-> DBCellRead(q[2], at(q[1]))]
            Put(f) == f = [i \in 0..n |-> IF i = 0 THEN m
                                          ELSE DBCellRead(f[i - 1], Tree[root][i])]
            after == CHOOSE f : Put(f)
<1>1. n \in Nat /\ (\A i \in 1..n : at(i) \in Cell) /\ Below[root] = {at(i) : i \in 1..n}
  BY TreeFacts
<1>. HIDE DEF n, at, S
<1>2. \A q \in S : \A c \in Cell :
        /\ DBCellRead(q, c) \in S /\ IsRead(c, DBCellRead(q, c).def)
        /\ \A x \in Cell : IsRead(x, q.def) => IsRead(x, DBCellRead(q, c).def)
  BY OneRead DEF S
<1>3. step \in [(1..n) \X S -> S]
  BY <1>1, <1>2
<1>4. m \in S
  BY DEF S
<1>5. PICK g \in [0..n -> S] : Iterates(g, n, m, step)
  <2>. HIDE DEF step
  <2>. QED  BY <1>1, <1>3, <1>4, IterationExists
<1>6. \A i \in 1..n : g[i] = DBCellRead(g[i - 1], at(i))
  <2>. SUFFICES ASSUME NEW i \in 1..n PROVE g[i] = DBCellRead(g[i - 1], at(i))
    OBVIOUS
  <2>1. i - 1 \in 0..n
    BY <1>1
  <2>2. <<i, g[i - 1]>> \in (1..n) \X S
    BY <2>1
  <2>3. g[i] = step[<<i, g[i - 1]>>]
    BY <1>5 DEF Iterates
  <2>. QED  BY <2>2, <2>3
<1>7. Put(g)
  <2>1. g[0] = m /\ g = [i \in 0..n |-> g[i]]
    BY <1>5 DEF Iterates
  <2>2. \A i \in 0..n : i = 0 \/ i \in 1..n
    BY <1>1
  <2>3. \A i \in 0..n : g[i] = IF i = 0 THEN m ELSE DBCellRead(g[i - 1], Tree[root][i])
    BY <2>1, <2>2, <1>6, Zenon DEF at
  <2>. QED  BY <2>1, <2>3, Zenon
<1>8. Put(after)
  BY <1>7
<1>9. ReadTree(m, root) = after[n]
  BY DEF ReadTree, n
<1>. HIDE DEF after
<1>10. after[0] = m /\ \A i \in 1..n : after[i] = DBCellRead(after[i - 1], at(i))
  <2>1. 0 \in 0..n /\ \A i \in 1..n : i \in 0..n /\ ~(i = 0)
    BY <1>1
  <2>2. \A i \in 0..n : after[i] = IF i = 0 THEN m
                                   ELSE DBCellRead(after[i - 1], Tree[root][i])
    BY <1>8, Zenon
  <2>. QED  BY <2>1, <2>2, Zenon DEF at
<1>. DEFINE Good(i) == /\ after[i] \in S
                       /\ \A x \in Cell : IsRead(x, m.def) => IsRead(x, after[i].def)
                       /\ \A j \in 1..i : IsRead(at(j), after[i].def)
            T == {i \in 0..n : Good(i)}
<1>11. 0 \in T
  <2>1. 0 \in 0..n /\ \A j \in 1..0 : FALSE
    BY <1>1
  <2>2. Good(0)
    BY <1>4, <1>10, <2>1
  <2>. HIDE DEF Good
  <2>. QED  BY <2>1, <2>2
<1>12. ASSUME NEW i \in 1..n, i - 1 \in T PROVE i \in T
  <2>1. i \in 0..n /\ \A j \in 1..i : j \in 1..(i - 1) \/ j = i
    BY <1>1
  <2>2. Good(i - 1)
    <3>. HIDE DEF Good
    <3>. QED  BY <1>12
  <2>3. /\ after[i] \in S /\ IsRead(at(i), after[i].def)
        /\ \A x \in Cell : IsRead(x, after[i - 1].def) => IsRead(x, after[i].def)
    BY <1>1, <1>2, <1>10, <2>2
  <2>4. \A j \in 1..i : at(j) \in Cell
    BY <1>1
  <2>5. Good(i)
    BY <2>1, <2>2, <2>3, <2>4
  <2>. HIDE DEF Good
  <2>. QED  BY <2>1, <2>5
<1>13. n \in T
  <2>1. \A i \in 0..n : i \in T
    <3>. HIDE DEF T
    <3>. QED  BY <1>1, <1>11, <1>12, Induction
  <2>2. n \in 0..n
    BY <1>1
  <2>. HIDE DEF T
  <2>. QED  BY <2>1, <2>2
<1>. QED  BY <1>1, <1>9, <1>13 DEF S

-----------------------------------------------------------------------------
(* The other things that commands are made of.                              *)

\* More marks, and more noticed.
Wider(d, e) ==
  \A x \in Cell : /\ e[x].state = d[x].state
                  /\ IsDummy(x, d) => e[x].stamp = d[x].stamp
                  /\ IsRead(x, d) =>
                       /\ e[x].stamp = d[x].stamp /\ e[x].ver = d[x].ver
                       /\ e[x].seen = d[x].seen /\ e[x].old = d[x].old
                       /\ d[x].check => e[x].check
                       /\ d[x].getnew => e[x].getnew
                       /\ d[x].blind \subseteq e[x].blind
                       /\ d[x].passed \subseteq e[x].passed

\* Nothing is new to the files while the layouts are as they were.
LEMMA SameCopies ==
  ASSUME NEW ex, NEW d, NEW e, CopiesAgree(disk, ex, d), DiskStale(disk, d),
         \A x \in Cell : /\ Current(x, disk, e).stamp = Current(x, disk, d).stamp
                         /\ \/ Current(x, disk, e).old
                            \/ /\ Current(x, disk, e).ver = Current(x, disk, d).ver
                               /\ Current(x, disk, e).old = Current(x, disk, d).old
  PROVE  CopiesAgree(disk, ex, e) /\ DiskStale(disk, e)
<1>1. CopiesAgree(disk, ex, e)
  BY DEF CopiesAgree, Agree
<1>2. ASSUME NEW p \in Cell, NEW k \in Kids[p]
      PROVE  Shown(disk[p], k, disk[k]) /\ Shown(disk[p], k, Current(k, disk, e))
  <2>1. Shown(disk[p], k, disk[k]) /\ Shown(disk[p], k, Current(k, disk, d))
    BY DEF DiskStale
  <2>2. k \in Cell
    BY NoCircle
  <2>. QED  BY <2>1, <2>2 DEF Shown
<1>. QED  BY <1>1, <1>2 DEF DiskStale

LEMMA Widening ==
  ASSUME NEW ex, NEW d, NEW t, NEW e, NEW noticed, NEW c \in Cell,
         IInv(disk, ex, d, t, noticed \cup {c}), Types(disk, ex, e, t), Wider(d, e),
         \A p \in Users(c, e) :
           \/ e[p].check \/ c \in e[p].passed
           \/ e[p].seen[c] = e[c].ver /\ ~(e[p].stamp < e[c].stamp),
         IsRead(c, d) \/ c \in noticed
  PROVE  IInv(disk, ex, e, t, noticed)
<1>1. \A x \in Cell : /\ IsRead(x, e) <=> IsRead(x, d)
                      /\ IsDummy(x, e) <=> IsDummy(x, d)
                      /\ IsDummy(x, e) => e[x].stamp = d[x].stamp
                      /\ IsRead(x, d) => ~IsDummy(x, e)
  BY DEF Wider, IsRead, IsDummy
<1>2. \A x \in Cell : /\ Current(x, disk, e).stamp = Current(x, disk, d).stamp
                      /\ Current(x, disk, e).ver = Current(x, disk, d).ver
                      /\ Current(x, disk, e).old = Current(x, disk, d).old
  BY <1>1 DEF Wider, Current
<1>3. \A p \in Cell : \A k \in Kids[p] : k \in Cell
  BY KidsFacts
<1>4. StampsPast(disk, ex, e, t)
  BY <1>1 DEF IInv, StampsPast, Wider
<1>5. Fresh(disk, ex, e, t)
  BY <1>1, <1>2 DEF IInv, Fresh
<1>6. CopiesAgree(disk, ex, e)
  BY <1>2 DEF IInv, CopiesAgree, Agree
<1>7. Known(e)
  BY <1>1, <1>3 DEF IInv, Known, Wider
<1>8. DiskStale(disk, e)
  BY <1>2, SameCopies DEF IInv
<1>9. \A p \in Cell : IsRead(p, e) =>
        /\ IsRead(p, d) /\ e[p].stamp = d[p].stamp /\ e[p].seen = d[p].seen
        /\ d[p].check => e[p].check
        /\ d[p].getnew => e[p].getnew
        /\ d[p].passed \subseteq e[p].passed
        /\ \A k \in Kids[p] : Excused(d[p], k) => Excused(e[p], k)
  BY <1>1 DEF Wider, Excused
<1>10. DummyStale(disk, e, noticed)
  <2>. SUFFICES ASSUME NEW p \in Cell, IsRead(p, e), NEW k \in Kids[p],
                       IsDummy(k, e), e[k].stamp = disk[k].stamp, ~disk[k].old
                PROVE  e[p].seen[k] = disk[k].ver \/ Excused(e[p], k) \/ k \in noticed
    BY DEF DummyStale
  <2>1. IsDummy(k, d) /\ d[k].stamp = disk[k].stamp /\ (k # c \/ c \in noticed)
    BY <1>1, <1>3
  <2>2. d[p].seen[k] = disk[k].ver \/ Excused(d[p], k) \/ k \in noticed \cup {c}
    BY <1>9, <2>1 DEF IInv, DummyStale
  <2>. QED  BY <1>9, <2>1, <2>2
<1>11. MemStale(e, noticed)
  <2>. SUFFICES ASSUME NEW p \in Cell, IsRead(p, e), NEW k \in Kids[p], IsRead(k, e)
                PROVE  e[p].seen[k] = e[k].ver \/ Excused(e[p], k) \/ k \in noticed
    BY DEF MemStale
  <2>1. IsRead(k, d) /\ e[k].ver = d[k].ver
    BY <1>1, <1>3 DEF Wider
  <2>2. d[p].seen[k] = d[k].ver \/ Excused(d[p], k) \/ k \in noticed \cup {c}
    BY <1>9, <2>1 DEF IInv, MemStale
  <2>3. CASE k = c
    <3>1. p \in Users(c, e)
      BY <2>3 DEF Users
    <3>. QED  BY <2>3, <3>1 DEF Excused
  <2>. QED  BY <1>9, <2>1, <2>2, <2>3
<1>12. MemLater(e, noticed)
  <2>. SUFFICES ASSUME NEW p \in Cell, IsRead(p, e), NEW k \in Kids[p],
                       e[p].stamp < e[k].stamp
                PROVE  e[p].check \/ e[p].getnew \/ k \in e[p].passed \/ k \in noticed
    BY DEF MemLater
  <2>1. CASE k = c
    <3>1. p \in Users(c, e)
      BY <2>1 DEF Users
    <3>. QED  BY <2>1, <3>1
  <2>2. CASE k # c
    <3>1. IsRead(k, d) \/ IsDummy(k, d)
      <4>1. d[k].state # "unknown" /\ k \in Cell /\ d[k] \in Defs(k)
        BY <1>3, <1>9 DEF IInv, Known, Types
      <4>. QED  BY <4>1, DefCases
    <3>2. e[k].stamp = d[k].stamp
      BY <1>1, <1>3, <3>1 DEF Wider
    <3>3. d[p].check \/ d[p].getnew \/ k \in d[p].passed \/ k \in noticed \cup {c}
      BY <1>9, <3>2 DEF IInv, MemLater
    <3>. QED  BY <1>9, <2>2, <3>3
  <2>. QED  BY <2>1, <2>2
<1>. QED  BY <1>4, <1>5, <1>6, <1>7, <1>8, <1>10, <1>11, <1>12 DEF IInv

\* A cell is checked when its children are read.
Checks(d, c) == [d EXCEPT ![c] = Rechecked(d[c], [k \in Kids[c] |-> d[k].ver])]

LEMMA Rechecking ==
  ASSUME NEW ex, NEW d, NEW t, NEW noticed, NEW c \in Cell, NEW e,
         IInv(disk, ex, d, t, noticed), IsRead(c, d), \A k \in Kids[c] : IsRead(k, d),
         e = Checks(d, c)
  PROVE  IInv(disk, ex, e, t, noticed) /\ \A x \in Cell : IsRead(x, e) <=> IsRead(x, d)
<1>1. \A p \in Cell : \A k \in Kids[p] : k \in Cell /\ k # p
  BY NoCircle
<1>2. \A x \in Cell : d[x] \in Defs(x)
  BY DEF IInv, Types
<1>3. d[c] \in Read(c) /\ \A k \in Kids[c] : d[k] \in Read(k)
  BY <1>1, <1>2, DefCases DEF IsRead, IsDummy, Unknown
<1>. DEFINE saw == [k \in Kids[c] |-> d[k].ver]
<1>4. saw \in [Kids[c] -> 0..MaxEdits] /\ \A k \in Kids[c] : saw[k] = d[k].ver
  BY <1>3 DEF Read
<1>. HIDE DEF saw
<1>. DEFINE r == Rechecked(d[c], saw)
<1>5. /\ r \in Read(c) /\ r.state = "read" /\ r.stamp = d[c].stamp /\ r.ver = d[c].ver
      /\ r.old = d[c].old /\ r.seen = saw /\ r.getnew
  BY <1>3, <1>4 DEF Rechecked, Read
<1>. HIDE DEF r
<1>6. /\ DOMAIN e = Cell /\ e[c] = r
      /\ \A x \in Cell \ {c} : e[x] = d[x]
  <2>1. e = [d EXCEPT ![c] = r] /\ DOMAIN d = Cell
    BY DEF IInv, Types, r, Checks, saw
  <2>. QED  BY <2>1
<1>7. \A x \in Cell : /\ e[x].state = d[x].state /\ e[x].stamp = d[x].stamp
                      /\ IsRead(x, d) => e[x].ver = d[x].ver /\ e[x].old = d[x].old
  BY <1>3, <1>5, <1>6 DEF IsRead
<1>8. \A x \in Cell : (IsRead(x, e) <=> IsRead(x, d)) /\ (IsDummy(x, e) <=> IsDummy(x, d))
  BY <1>7 DEF IsRead, IsDummy
<1>9. \A x \in Cell : /\ Current(x, disk, e).stamp = Current(x, disk, d).stamp
                      /\ Current(x, disk, e).ver = Current(x, disk, d).ver
                      /\ Current(x, disk, e).old = Current(x, disk, d).old
  BY <1>7, <1>8 DEF Current
<1>10. Types(disk, ex, e, t)
  BY <1>5, <1>6 DEF IInv, Types, Defs
<1>11. StampsPast(disk, ex, e, t)
  BY <1>7, <1>8 DEF IInv, StampsPast
<1>12. Fresh(disk, ex, e, t)
  BY <1>7, <1>8, <1>9 DEF IInv, Fresh
<1>13. CopiesAgree(disk, ex, e)
  BY <1>9 DEF IInv, CopiesAgree, Agree
<1>14. Known(e)
  BY <1>1, <1>7, <1>8 DEF IInv, Known
<1>15. DiskStale(disk, e)
  BY <1>9, SameCopies DEF IInv
<1>16. DummyStale(disk, e, noticed)
  <2>. SUFFICES ASSUME NEW p \in Cell, IsRead(p, e), NEW k \in Kids[p],
                       IsDummy(k, e), e[k].stamp = disk[k].stamp, ~disk[k].old
                PROVE  e[p].seen[k] = disk[k].ver \/ Excused(e[p], k) \/ k \in noticed
    BY DEF DummyStale
  <2>1. p # c
    BY <1>1, <1>8 DEF IsRead, IsDummy
  <2>2. e[p] = d[p] /\ IsRead(p, d) /\ IsDummy(k, d) /\ d[k].stamp = disk[k].stamp
    BY <1>1, <1>6, <1>7, <1>8, <2>1
  <2>. QED  BY <2>2 DEF IInv, DummyStale
<1>17. MemStale(e, noticed)
  <2>. SUFFICES ASSUME NEW p \in Cell, IsRead(p, e), NEW k \in Kids[p], IsRead(k, e)
                PROVE  e[p].seen[k] = e[k].ver \/ Excused(e[p], k) \/ k \in noticed
    BY DEF MemStale
  <2>1. IsRead(p, d) /\ IsRead(k, d) /\ e[k].ver = d[k].ver
    BY <1>1, <1>7, <1>8
  <2>2. CASE p = c
    BY <1>4, <1>5, <1>6, <2>1, <2>2
  <2>3. CASE p # c
    <3>1. e[p] = d[p]
      BY <1>6, <2>3
    <3>. QED  BY <2>1, <3>1 DEF IInv, MemStale
  <2>. QED  BY <2>2, <2>3
<1>18. MemLater(e, noticed)
  <2>. SUFFICES ASSUME NEW p \in Cell, IsRead(p, e), NEW k \in Kids[p],
                       e[p].stamp < e[k].stamp
                PROVE  e[p].check \/ e[p].getnew \/ k \in e[p].passed \/ k \in noticed
    BY DEF MemLater
  <2>1. IsRead(p, d) /\ d[p].stamp < d[k].stamp
    BY <1>1, <1>7, <1>8
  <2>2. CASE p = c
    BY <1>5, <1>6, <2>2
  <2>3. CASE p # c
    <3>1. e[p] = d[p]
      BY <1>6, <2>3
    <3>. QED  BY <2>1, <3>1 DEF IInv, MemLater
  <2>. QED  BY <2>2, <2>3
<1>. QED  BY <1>8, <1>10, <1>11, <1>12, <1>13, <1>14, <1>15, <1>16, <1>17, <1>18 DEF IInv

\* The layout of a cell is changed, and the cells above it are marked.
Edits(d, c, v, marked) ==
  DRCCheckThis(marked, [d EXCEPT ![c].ver = v, ![c].getnew = TRUE, ![c].old = TRUE])

LEMMA Editing ==
  ASSUME NEW ex, NEW d, NEW t, NEW noticed, NEW c \in Cell, NEW v \in 0..MaxEdits,
         NEW marked, marked \subseteq Cell, NEW e,
         IInv(disk, ex, d, t, noticed), IsRead(c, d),
         \A p \in marked : IsRead(p, d), c \in marked, Users(c, d) \subseteq marked,
         e = Edits(d, c, v, marked)
  PROVE  IInv(disk, ex, e, t, noticed) /\ \A x \in Cell : IsRead(x, e) <=> IsRead(x, d)
<1>1. \A p \in Cell : \A k \in Kids[p] : k \in Cell /\ k # p
  BY NoCircle
<1>2. \A x \in Cell : d[x] \in Defs(x)
  BY DEF IInv, Types
<1>3. \A x \in Cell : IsRead(x, d) => d[x] \in Read(x)
  BY <1>2, DefCases DEF IsRead, IsDummy, Unknown
<1>. DEFINE a == [d EXCEPT ![c].ver = v, ![c].getnew = TRUE, ![c].old = TRUE]
            new == [[[d[c] EXCEPT !.ver = v] EXCEPT !.getnew = TRUE] EXCEPT !.old = TRUE]
<1>4. DOMAIN a = Cell /\ a[c] = new /\ \A x \in Cell \ {c} : a[x] = d[x]
  <2>1. DOMAIN d = Cell
    BY DEF IInv, Types
  <2>. QED  BY <2>1
<1>5. /\ new \in Read(c) /\ new.stamp = d[c].stamp /\ new.ver = v /\ new.getnew /\ new.old
      /\ new.seen = d[c].seen /\ new.passed = d[c].passed /\ new.state = "read"
  BY <1>3 DEF Read
<1>. HIDE DEF new
<1>6. e = [p \in Cell |-> IF p \in marked THEN [a[p] EXCEPT !.check = TRUE] ELSE a[p]]
  BY DEF Edits, DRCCheckThis
<1>. HIDE DEF a
<1>7. e[c] = [new EXCEPT !.check = TRUE]
      /\ \A x \in Cell \ {c} : e[x] = IF x \in marked THEN [d[x] EXCEPT !.check = TRUE]
                                                      ELSE d[x]
  BY <1>4, <1>6
<1>8. /\ e[c] \in Read(c) /\ e[c].stamp = d[c].stamp /\ e[c].getnew /\ e[c].old
      /\ e[c].check /\ e[c].state = "read"
  BY <1>5, <1>7 DEF Read
<1>9. \A x \in Cell \ {c} :
        /\ e[x] \in Defs(x) /\ e[x].state = d[x].state /\ e[x].stamp = d[x].stamp
        /\ x \notin marked => e[x] = d[x]
        /\ IsRead(x, d) =>
             /\ e[x].ver = d[x].ver /\ e[x].old = d[x].old /\ e[x].seen = d[x].seen
             /\ e[x].getnew = d[x].getnew /\ e[x].passed = d[x].passed
             /\ e[x].blind = d[x].blind
             /\ d[x].check => e[x].check
             /\ x \in marked => e[x].check
  <2>1. ASSUME NEW x \in marked, d[x] \in Read(x)
        PROVE          LET y == [d[x] EXCEPT !.check = TRUE]
                       IN /\ y \in Read(x) /\ y.state = d[x].state /\ y.stamp = d[x].stamp
                          /\ y.ver = d[x].ver /\ y.old = d[x].old /\ y.seen = d[x].seen
                          /\ y.getnew = d[x].getnew /\ y.passed = d[x].passed
                          /\ y.blind = d[x].blind /\ y.check
    BY <2>1 DEF Read
  <2>2. ASSUME NEW x \in Cell \ {c}, x \in marked
        PROVE  /\ e[x] \in Read(x) /\ e[x].state = d[x].state /\ e[x].stamp = d[x].stamp
               /\ e[x].ver = d[x].ver /\ e[x].old = d[x].old /\ e[x].seen = d[x].seen
               /\ e[x].getnew = d[x].getnew /\ e[x].passed = d[x].passed
               /\ e[x].blind = d[x].blind /\ e[x].check
    BY <1>3, <1>7, <2>1, <2>2
  <2>3. ASSUME NEW x \in Cell \ {c}, x \notin marked PROVE e[x] = d[x]
    BY <1>7, <2>3
  <2>. QED  BY <1>2, <2>2, <2>3 DEF Defs
<1>10. \A x \in Cell : (IsRead(x, e) <=> IsRead(x, d)) /\ (IsDummy(x, e) <=> IsDummy(x, d))
  BY <1>8, <1>9 DEF IsRead, IsDummy
<1>11. \A x \in Cell : e[x].stamp = d[x].stamp /\ e[x].state = d[x].state
  BY <1>8, <1>9 DEF IsRead
<1>12. \A x \in Cell : /\ Current(x, disk, e).stamp = Current(x, disk, d).stamp
                       /\ \/ Current(x, disk, e).old
                          \/ /\ Current(x, disk, e).ver = Current(x, disk, d).ver
                             /\ Current(x, disk, e).old = Current(x, disk, d).old
  BY <1>8, <1>9, <1>10 DEF Current
<1>13. Types(disk, ex, e, t)
  <2>1. DOMAIN e = Cell
    BY <1>6
  <2>2. \A x \in Cell : e[x] \in Defs(x)
    BY <1>8, <1>9 DEF Defs
  <2>. QED  BY <2>1, <2>2 DEF IInv, Types
<1>14. StampsPast(disk, ex, e, t)
  BY <1>10, <1>11 DEF IInv, StampsPast
<1>15. Fresh(disk, ex, e, t)
  BY <1>10, <1>11, <1>12 DEF IInv, Fresh
<1>16. CopiesAgree(disk, ex, e)
  BY <1>12 DEF IInv, CopiesAgree, Agree
<1>17. Known(e)
  BY <1>1, <1>10, <1>11 DEF IInv, Known
<1>18. DiskStale(disk, e)
  BY <1>12, SameCopies DEF IInv
<1>19. \A p \in Cell : IsRead(p, e) /\ ~e[p].check =>
         p # c /\ p \notin Users(c, d) /\ e[p] = d[p] /\ IsRead(p, d)
  BY <1>8, <1>9, <1>10
<1>20. \A p \in Cell : \A k \in Kids[p] : IsRead(p, d) /\ k = c => p \in Users(c, d)
  BY DEF Users
<1>21. DummyStale(disk, e, noticed)
  <2>. SUFFICES ASSUME NEW p \in Cell, IsRead(p, e), NEW k \in Kids[p], ~e[p].check,
                       IsDummy(k, e), e[k].stamp = disk[k].stamp, ~disk[k].old
                PROVE  e[p].seen[k] = disk[k].ver \/ Excused(e[p], k) \/ k \in noticed
    BY DEF DummyStale, Excused
  <2>. QED  BY <1>1, <1>10, <1>11, <1>19 DEF IInv, DummyStale
<1>22. MemStale(e, noticed)
  <2>. SUFFICES ASSUME NEW p \in Cell, IsRead(p, e), NEW k \in Kids[p], ~e[p].check,
                       IsRead(k, e)
                PROVE  e[p].seen[k] = e[k].ver \/ Excused(e[p], k) \/ k \in noticed
    BY DEF MemStale, Excused
  <2>1. k # c /\ e[k].ver = d[k].ver
    BY <1>1, <1>9, <1>10, <1>19, <1>20
  <2>. QED  BY <1>1, <1>10, <1>19, <2>1 DEF IInv, MemStale
<1>23. MemLater(e, noticed)
  <2>. SUFFICES ASSUME NEW p \in Cell, IsRead(p, e), NEW k \in Kids[p], ~e[p].check,
                       e[p].stamp < e[k].stamp
                PROVE  e[p].getnew \/ k \in e[p].passed \/ k \in noticed
    BY DEF MemLater
  <2>. QED  BY <1>1, <1>11, <1>19 DEF IInv, MemLater
<1>. QED  BY <1>10, <1>13, <1>14, <1>15, <1>16, <1>17, <1>18, <1>21, <1>22, <1>23 DEF IInv

-----------------------------------------------------------------------------
(* Stamps are brought up to date.                                           *)
LEMMA StampedFacts ==
  ASSUME NEW u
  PROVE  /\ Stamped(u) \subseteq {x \in Cell : IsRead(x, def) /\ def[x].stamp # u}
         /\ Stampable(u) \subseteq Stamped(u)
         /\ \A x \in Stamped(u) : \A p \in Users(x, def) : def[p].stamp # u => p \in Stamped(u)
<1>. DEFINE behind == {p \in Cell : IsRead(p, def) /\ def[p].stamp # u}
            A(c) == {c} \cup Above(c, def, behind)
<1>1. Stamped(u) = UNION {A(c) : c \in Stampable(u)}
  BY DEF Stamped
<1>2. \A c \in Stampable(u) : c \in behind /\ c \in Cell
  BY DEF Stampable
<1>3. \A x \in Cell : \A p \in Users(x, def) : def[p].stamp # u => p \in behind
  BY DEF Users
<1>4. behind \subseteq Cell
  OBVIOUS
<1>. HIDE DEF behind
<1>5. \A c \in Stampable(u) :
        /\ Above(c, def, behind) \subseteq behind
        /\ Users(c, def) \cap behind \subseteq Above(c, def, behind)
        /\ \A x \in Above(c, def, behind) :
             Users(x, def) \cap behind \subseteq Above(c, def, behind)
  BY <1>2, <1>4, AboveFacts
<1>6. Stamped(u) \subseteq behind
  BY <1>1, <1>2, <1>5
<1>7. Stampable(u) \subseteq Stamped(u)
  BY <1>1
<1>8. ASSUME NEW x \in Stamped(u), NEW p \in Users(x, def), def[p].stamp # u
      PROVE  p \in Stamped(u)
  <2>1. PICK c \in Stampable(u) : x \in A(c)
    BY <1>1
  <2>2. p \in behind
    BY <1>3, <1>4, <1>6, <1>8
  <2>3. p \in A(c)
    BY <1>5, <2>1, <2>2
  <2>. QED  BY <1>1, <2>3
<1>. QED  BY <1>6, <1>7, <1>8 DEF behind

LEMMA Stamping ==
  ASSUME NEW u \in Nat, now <= u, u <= MaxTime, NEW noticed, NEW e,
         IInv(disk, ext, def, now, noticed), e = DBUpdateStamps(u)
  PROVE  /\ IInv(disk, ext, e, u, noticed)
         /\ \A x \in Cell : IsRead(x, e) <=> IsRead(x, def)
         /\ \A x \in Cell : IsRead(x, e) /\ e[x].getnew => e[x].stamp = u
         /\ e = [x \in Cell |-> e[x]]
<1>. DEFINE cells == Stamped(u)
<1>1. /\ \A x \in cells : x \in Cell /\ IsRead(x, def) /\ def[x].stamp # u
      /\ \A x \in Cell : IsRead(x, def) /\ def[x].getnew /\ def[x].stamp # u => x \in cells
      /\ \A x \in cells : \A p \in Users(x, def) : def[p].stamp # u => p \in cells
  BY StampedFacts DEF Stampable
<1>2. \A x \in Cell : def[x] \in Defs(x)
  BY DEF IInv, Types
<1>3. \A x \in Cell : IsRead(x, def) => def[x] \in Read(x)
  BY <1>2, DefCases DEF IsRead, IsDummy, Unknown
<1>4. now \in Nat /\ now # 0 /\ u \in 1..MaxTime /\ 1..now \subseteq 1..u /\ 0..now \subseteq 0..u
      /\ u \in 1..u
  BY BoundsAssumption DEF IInv, Types
<1>5. e = [x \in Cell |-> IF x \in cells
                            THEN [def[x] EXCEPT !.stamp = u, !.getnew = FALSE, !.old = FALSE]
                            ELSE def[x]]
  BY DEF DBUpdateStamps
<1>. HIDE DEF cells
<1>6. ASSUME NEW x \in cells
      PROVE  /\ e[x] \in Read(x) /\ e[x].state = "read" /\ e[x].stamp = u
             /\ e[x].ver = def[x].ver /\ e[x].seen = def[x].seen
             /\ e[x].check = def[x].check /\ e[x].blind = def[x].blind
             /\ e[x].passed = def[x].passed /\ ~e[x].getnew /\ ~e[x].old
  <2>1. def[x] \in Read(x)
    BY <1>1, <1>3
  <2>2. e[x] = [[[def[x] EXCEPT !.stamp = u] EXCEPT !.getnew = FALSE] EXCEPT !.old = FALSE]
    BY <1>1, <1>5
  <2>3. u \in 0..MaxTime
    BY <1>4
  <2>. QED  BY <2>1, <2>2, <2>3 DEF Read
<1>7. \A x \in Cell : x \notin cells => e[x] = def[x]
  BY <1>5
<1>8. \A x \in Cell : (IsRead(x, e) <=> IsRead(x, def)) /\ (IsDummy(x, e) <=> IsDummy(x, def))
                      /\ e[x].state = def[x].state
  BY <1>1, <1>6, <1>7 DEF IsRead, IsDummy
<1>9. \A x \in Cell : IsDummy(x, e) => e[x] = def[x] /\ x \notin cells /\ ~IsRead(x, e)
  BY <1>1, <1>7, <1>8 DEF IsRead, IsDummy
<1>10. \A x \in Cell : \/ /\ x \in cells /\ Current(x, disk, e).stamp = u
                          /\ Current(x, disk, def).stamp # u
                       \/ Current(x, disk, e) = Current(x, disk, def)
  BY <1>1, <1>6, <1>7, <1>8 DEF Current, IsRead
<1>12. \A x \in Cell : /\ u \in {disk[x].stamp, ext[x].stamp} => Current(x, disk, def).stamp = u
                       /\ IsDummy(x, def) /\ def[x].stamp = u
                            => Current(x, disk, def).stamp = u
                       /\ \A p \in Cell : x \in Kids[p] /\ disk[p].exp[x] = u
                            => Current(x, disk, def).stamp = u
  <2>. SUFFICES ASSUME NEW x \in Cell
                PROVE  /\ disk[x].stamp = u \/ ext[x].stamp = u
                            => Current(x, disk, def).stamp = u
                       /\ IsDummy(x, def) /\ def[x].stamp = u
                            => Current(x, disk, def).stamp = u
                       /\ \A p \in Cell : x \in Kids[p] /\ disk[p].exp[x] = u
                            => Current(x, disk, def).stamp = u
    OBVIOUS
  <2>1. \A s \in 0..now : s = u => s = now
    BY <1>4
  <2>2. disk[x].stamp \in 0..now /\ ext[x].stamp \in 0..now
        /\ (IsDummy(x, def) => def[x].stamp \in 0..now)
        /\ \A p \in Cell : x \in Kids[p] => disk[p].exp[x] \in 0..now
    BY <1>4 DEF IInv, StampsPast
  <2>. QED  BY <2>1, <2>2 DEF IInv, Fresh
<1>13. Types(disk, ext, e, u)
  <2>1. DOMAIN e = Cell
    BY <1>5
  <2>2. \A x \in Cell : e[x] \in Defs(x)
    BY <1>2, <1>6, <1>7 DEF Defs
  <2>. QED  BY <1>4, <2>1, <2>2 DEF IInv, Types
<1>14. StampsPast(disk, ext, e, u)
  BY <1>1, <1>4, <1>6, <1>7, <1>8, <1>9 DEF IInv, StampsPast
<1>15. Fresh(disk, ext, e, u)
  <2>1. \A x \in Cell : Current(x, disk, def).stamp = u => Current(x, disk, e).stamp = u
    BY <1>10
  <2>2. \A x \in Cell : IsDummy(x, e) => IsDummy(x, def) /\ e[x].stamp = def[x].stamp
    BY <1>8, <1>9
  <2>. SUFFICES ASSUME NEW x \in Cell
                PROVE  /\ u \in {disk[x].stamp, ext[x].stamp}
                            => Current(x, disk, e).stamp = u
                       /\ IsDummy(x, e) /\ e[x].stamp = u
                            => Current(x, disk, e).stamp = u
                       /\ \A p \in Cell : x \in Kids[p] /\ disk[p].exp[x] = u
                            => Current(x, disk, e).stamp = u
    BY DEF Fresh
  <2>. QED  BY <1>12, <2>1, <2>2
<1>16. CopiesAgree(disk, ext, e)
  <2>. SUFFICES ASSUME NEW x \in Cell
                PROVE  /\ Agree(disk[x], ext[x])
                       /\ Agree(Current(x, disk, e), ext[x])
                       /\ Agree(Current(x, disk, e), disk[x])
    BY DEF CopiesAgree
  <2>1. CASE Current(x, disk, e) = Current(x, disk, def)
    BY <2>1 DEF IInv, CopiesAgree
  <2>2. CASE Current(x, disk, e).stamp = u /\ Current(x, disk, def).stamp # u
    <3>1. disk[x].stamp # u /\ ext[x].stamp # u
      BY <1>12, <2>2
    <3>. QED  BY <2>2, <3>1 DEF IInv, CopiesAgree, Agree
  <2>. QED  BY <1>10, <2>1, <2>2
<1>17. Known(e)
  <2>. SUFFICES ASSUME NEW p \in Cell, IsRead(p, e), NEW k \in Kids[p]
                PROVE  e[k].state # "unknown"
    BY DEF Known
  <2>1. k \in Cell
    BY NoCircle
  <2>. QED  BY <1>8, <2>1 DEF IInv, Known
<1>18. DiskStale(disk, e)
  <2>. SUFFICES ASSUME NEW p \in Cell, NEW k \in Kids[p]
                PROVE  Shown(disk[p], k, disk[k]) /\ Shown(disk[p], k, Current(k, disk, e))
    BY DEF DiskStale
  <2>1. Shown(disk[p], k, disk[k]) /\ Shown(disk[p], k, Current(k, disk, def)) /\ k \in Cell
    BY NoCircle DEF IInv, DiskStale
  <2>2. CASE Current(k, disk, e) = Current(k, disk, def)
    BY <2>1, <2>2
  <2>3. CASE Current(k, disk, e).stamp = u /\ Current(k, disk, def).stamp # u
    <3>1. disk[p].exp[k] # u
      BY <1>12, <2>1, <2>3
    <3>. QED  BY <2>1, <2>3, <3>1 DEF Shown
  <2>. QED  BY <1>10, <2>1, <2>2, <2>3
<1>19. \A p \in Cell : IsRead(p, def) =>
         /\ e[p].ver = def[p].ver /\ e[p].seen = def[p].seen /\ e[p].check = def[p].check
         /\ e[p].blind = def[p].blind /\ e[p].passed = def[p].passed
         /\ \A k \in Kids[p] : Excused(e[p], k) = Excused(def[p], k)
  BY <1>6, <1>7 DEF Excused
<1>20. DummyStale(disk, e, noticed)
  <2>. SUFFICES ASSUME NEW p \in Cell, IsRead(p, e), NEW k \in Kids[p],
                       IsDummy(k, e), e[k].stamp = disk[k].stamp, ~disk[k].old
                PROVE  e[p].seen[k] = disk[k].ver \/ Excused(e[p], k) \/ k \in noticed
    BY DEF DummyStale
  <2>1. k \in Cell
    BY NoCircle
  <2>. QED  BY <1>8, <1>9, <1>19, <2>1 DEF IInv, DummyStale
<1>21. MemStale(e, noticed)
  <2>. SUFFICES ASSUME NEW p \in Cell, IsRead(p, e), NEW k \in Kids[p], IsRead(k, e)
                PROVE  e[p].seen[k] = e[k].ver \/ Excused(e[p], k) \/ k \in noticed
    BY DEF MemStale
  <2>1. k \in Cell
    BY NoCircle
  <2>. QED  BY <1>8, <1>19, <2>1 DEF IInv, MemStale
<1>22. MemLater(e, noticed)
  <2>. SUFFICES ASSUME NEW p \in Cell, IsRead(p, e), NEW k \in Kids[p],
                       e[p].stamp < e[k].stamp
                PROVE  e[p].check \/ e[p].getnew \/ k \in e[p].passed \/ k \in noticed
    BY DEF MemLater
  <2>1. k \in Cell /\ IsRead(p, def) /\ e[k].state # "unknown"
    BY <1>8, <1>17, NoCircle DEF Known
  <2>2. e[k].stamp \in 0..u /\ e[p].stamp \in 1..u
    <3>1. IsRead(k, e) \/ IsDummy(k, e)
      BY <1>13, <2>1, DefCases DEF Types
    <3>2. 1..u \subseteq 0..u
      BY <1>4
    <3>. QED  BY <1>14, <2>1, <3>1, <3>2 DEF StampsPast
  <2>3. e[p].stamp # u
    BY <1>4, <2>2
  <2>4. p \notin cells /\ e[p] = def[p]
    BY <1>6, <1>7, <2>3
  <2>5. k \notin cells
    <3>1. k \in cells => p \in Users(k, def)
      BY <2>1 DEF Users
    <3>. QED  BY <1>1, <2>3, <2>4, <3>1
  <2>6. e[k] = def[k]
    BY <1>7, <2>1, <2>5
  <2>. QED  BY <2>1, <2>4, <2>6 DEF IInv, MemLater
<1>23. \A x \in Cell : IsRead(x, e) /\ e[x].getnew => e[x].stamp = u
  BY <1>1, <1>6, <1>7, <1>8
<1>24. e = [x \in Cell |-> e[x]]
  BY <1>5
<1>25. DiskLater(disk)
  BY DEF IInv
<1>. QED  BY <1>8, <1>13, <1>14, <1>15, <1>16, <1>17, <1>18, <1>20, <1>21, <1>22, <1>23,
             <1>24, <1>25 DEF IInv

-----------------------------------------------------------------------------
(* What is written.                                                         *)
Written(c, d) ==
  [stamp |-> d[c].stamp, ver |-> d[c].ver, exp |-> Expected(c, d),
   seen |-> d[c].seen, check |-> d[c].check, old |-> d[c].old,
   blind |-> d[c].blind \cup {k \in Kids[c] : IsRead(k, d) /\ d[k].old},
   passed |-> d[c].passed]

LEMMA Saving ==
  ASSUME NEW ex, NEW d, NEW t, NEW c \in Cell, NEW dk,
         IInv(disk, ex, d, t, {}), IsRead(c, d),
         \A x \in Cell : IsRead(x, d) /\ d[x].getnew => d[x].stamp = t,
         dk = [disk EXCEPT ![c] = Written(c, d)]
  PROVE  IInv(dk, ex, d, t, {})
<1>1. \A p \in Cell : \A k \in Kids[p] : k \in Cell /\ k # p
  BY NoCircle
<1>2. \A x \in Cell : /\ d[x] \in Defs(x) /\ disk[x] \in File(x)
                      /\ IsRead(x, d) => d[x] \in Read(x) /\ d[x].stamp \in 1..t
                      /\ IsRead(x, d) => ~IsDummy(x, d)
  BY DefCases DEF IInv, Types, StampsPast, IsRead, IsDummy, Unknown
<1>3. t \in Nat /\ t # 0 /\ t \in 1..MaxTime /\ 1..t \subseteq 0..t
      /\ 0..t \subseteq 0..MaxTime
  BY BoundsAssumption DEF IInv, Types
<1>4. \A k \in Kids[c] : /\ IsRead(k, d) \/ IsDummy(k, d)
                         /\ d[k].stamp \in 0..t
  <2>. SUFFICES ASSUME NEW k \in Kids[c]
                PROVE  (IsRead(k, d) \/ IsDummy(k, d)) /\ d[k].stamp \in 0..t
    OBVIOUS
  <2>1. k \in Cell /\ d[k].state # "unknown" /\ d[k] \in Defs(k)
    BY <1>1, <1>2 DEF IInv, Known
  <2>2. IsRead(k, d) \/ IsDummy(k, d)
    BY <2>1, DefCases
  <2>. QED  BY <1>2, <1>3, <2>1, <2>2 DEF IInv, StampsPast
<1>. DEFINE w == Written(c, d)
<1>5. /\ w.stamp = d[c].stamp /\ w.ver = d[c].ver /\ w.seen = d[c].seen
      /\ w.check = d[c].check /\ w.old = d[c].old /\ w.passed = d[c].passed
      /\ w.blind = d[c].blind \cup {k \in Kids[c] : IsRead(k, d) /\ d[k].old}
      /\ \A k \in Kids[c] : w.exp[k] = d[k].stamp
  BY DEF Written, Expected
<1>6. w \in File(c)
  <2>1. d[c] \in Read(c)
    BY <1>2
  <2>2. Expected(c, d) \in [Kids[c] -> 0..MaxTime]
    BY <1>3, <1>4 DEF Expected
  <2>3. d[c].blind \cup {k \in Kids[c] : IsRead(k, d) /\ d[k].old} \in SUBSET Kids[c]
    BY <2>1 DEF Read
  <2>. QED  BY <2>1, <2>2, <2>3 DEF Written, File, Read
<1>7. DOMAIN dk = Cell /\ dk[c] = w /\ \A x \in Cell \ {c} : dk[x] = disk[x]
  BY DEF IInv, Types
<1>. HIDE DEF w
<1>8. \A x \in Cell : Current(x, dk, d) = Current(x, disk, d)
  BY <1>7 DEF Current
<1>9. Current(c, dk, d) = d[c]
  BY DEF Current
<1>10. Types(dk, ex, d, t)
  BY <1>6, <1>7 DEF IInv, Types
<1>11. StampsPast(dk, ex, d, t)
  <2>. SUFFICES ASSUME NEW x \in Cell
                PROVE  dk[x].stamp \in 1..t /\ \A k \in Kids[x] : dk[x].exp[k] \in 0..t
    BY DEF IInv, StampsPast
  <2>1. CASE x = c
    BY <1>2, <1>4, <1>5, <1>7, <2>1
  <2>2. CASE x # c
    BY <1>7, <2>2 DEF IInv, StampsPast
  <2>. QED  BY <2>1, <2>2
<1>12. Fresh(dk, ex, d, t)
  <2>. SUFFICES ASSUME NEW x \in Cell
                PROVE  /\ dk[x].stamp = t => Current(x, disk, d).stamp = t
                       /\ \A p \in Cell : x \in Kids[p] /\ dk[p].exp[x] = t
                            => Current(x, disk, d).stamp = t
    BY <1>8 DEF IInv, Fresh
  <2>1. dk[x].stamp = t => Current(x, disk, d).stamp = t
    <3>1. CASE x = c
      BY <1>5, <1>7, <1>8, <1>9, <3>1
    <3>2. CASE x # c
      BY <1>7, <3>2 DEF IInv, Fresh
    <3>. QED  BY <3>1, <3>2
  <2>2. ASSUME NEW p \in Cell, x \in Kids[p], dk[p].exp[x] = t
        PROVE  Current(x, disk, d).stamp = t
    <3>1. CASE p = c
      <4>1. d[x].stamp = t
        BY <1>5, <1>7, <2>2, <3>1
      <4>2. CASE IsRead(x, d)
        BY <4>1, <4>2 DEF Current
      <4>3. CASE IsDummy(x, d)
        BY <4>1, <4>3 DEF IInv, Fresh
      <4>. QED  BY <1>4, <2>2, <3>1, <4>2, <4>3
    <3>2. CASE p # c
      BY <1>7, <2>2, <3>2 DEF IInv, Fresh
    <3>. QED  BY <3>1, <3>2
  <2>. QED  BY <2>1, <2>2
<1>13. CopiesAgree(dk, ex, d)
  <2>. SUFFICES ASSUME NEW x \in Cell
                PROVE  /\ Agree(dk[x], ex[x])
                       /\ Agree(Current(x, disk, d), ex[x])
                       /\ Agree(Current(x, disk, d), dk[x])
    BY <1>8 DEF CopiesAgree
  <2>1. Agree(Current(x, disk, d), ex[x])
    BY DEF IInv, CopiesAgree
  <2>2. CASE x = c
    BY <1>5, <1>7, <1>8, <1>9, <2>1, <2>2 DEF Agree
  <2>3. CASE x # c
    BY <1>7, <2>1, <2>3 DEF IInv, CopiesAgree
  <2>. QED  BY <2>2, <2>3
<1>14. DiskStale(dk, d)
  <2>. SUFFICES ASSUME NEW p \in Cell, NEW k \in Kids[p]
                PROVE  /\ Shown(dk[p], k, dk[k])
                       /\ Shown(dk[p], k, Current(k, disk, d))
    BY <1>1, <1>8 DEF DiskStale
  <2>0. k \in Cell /\ k # p
    BY <1>1
  <2>1. CASE p # c
    <3>1. Shown(disk[p], k, disk[k]) /\ Shown(disk[p], k, Current(k, disk, d)) /\ dk[p] = disk[p]
      BY <1>7, <2>1 DEF IInv, DiskStale
    <3>2. CASE k = c
      BY <1>5, <1>7, <1>8, <1>9, <3>1, <3>2 DEF Shown
    <3>3. CASE k # c
      BY <1>7, <2>0, <3>1, <3>3
    <3>. QED  BY <3>2, <3>3
  <2>2. CASE p = c
    <3>1. /\ dk[p] = w /\ dk[k] = disk[k] /\ w.exp[k] = d[k].stamp /\ w.seen = d[p].seen
          /\ Excused(d[p], k) => Excused(w, k)
          /\ IsRead(k, d) /\ d[k].old => Excused(w, k)
      BY <1>5, <1>7, <2>0, <2>2 DEF Excused
    <3>2. CASE IsDummy(k, d)
      <4>1. d[k].stamp = disk[k].stamp /\ ~disk[k].old =>
              d[p].seen[k] = disk[k].ver \/ Excused(d[p], k)
        BY <2>2, <3>2 DEF IInv, DummyStale
      <4>2. Current(k, disk, d) = disk[k]
        BY <1>2, <2>0, <3>2 DEF Current
      <4>. QED  BY <3>1, <4>1, <4>2 DEF Shown
    <3>3. CASE IsRead(k, d)
      <4>1. d[p].seen[k] = d[k].ver \/ Excused(d[p], k)
        BY <2>2, <3>3 DEF IInv, MemStale
      <4>2. Current(k, disk, d) = d[k] /\ Agree(d[k], disk[k])
        BY <2>0, <3>3 DEF IInv, CopiesAgree, Current
      <4>3. d[k].old \in BOOLEAN
        BY <1>2, <2>0, <3>3 DEF Read
      <4>. QED  BY <3>1, <3>3, <4>1, <4>2, <4>3 DEF Shown, Agree
    <3>. QED  BY <1>4, <2>2, <3>2, <3>3
  <2>. QED  BY <2>1, <2>2
<1>15. DummyStale(dk, d, {})
  <2>1. \A k \in Cell : IsDummy(k, d) => dk[k] = disk[k]
    BY <1>2, <1>7
  <2>. QED  BY <1>1, <2>1 DEF IInv, DummyStale
<1>16. DiskLater(dk)
  <2>. SUFFICES ASSUME NEW p \in Cell, NEW k \in Kids[p], dk[p].stamp < dk[p].exp[k]
                PROVE  dk[p].check \/ k \in dk[p].passed
    BY DEF DiskLater
  <2>1. CASE p = c
    <3>1. d[p].stamp < d[k].stamp /\ dk[p].check = d[p].check /\ dk[p].passed = d[p].passed
      BY <1>5, <1>7, <2>1
    <3>2. d[p].check \/ d[p].getnew \/ k \in d[p].passed
      BY <2>1, <3>1 DEF IInv, MemLater
    <3>3. ~d[p].getnew
      <4>1. d[k].stamp \in 0..t /\ d[p].stamp \in 1..t
        BY <1>2, <1>4, <2>1
      <4>2. d[p].stamp # t
        BY <1>3, <3>1, <4>1
      <4>. QED  BY <2>1, <4>2
    <3>. QED  BY <3>1, <3>2, <3>3
  <2>2. CASE p # c
    BY <1>7, <2>2 DEF IInv, DiskLater
  <2>. QED  BY <2>1, <2>2
<1>. QED  BY <1>10, <1>11, <1>12, <1>13, <1>14, <1>15, <1>16 DEF IInv

LEMMA Extracting ==
  ASSUME NEW d, NEW t, NEW cells, cells \subseteq Cell, NEW ex, NEW noticed,
         IInv(disk, ext, d, t, noticed), \A c \in cells : IsRead(c, d),
         ex = [c \in Cell |->
                 IF c \in cells /\ extTimestampMisMatch(c, d)
                   THEN [stamp |-> d[c].stamp, ver |-> d[c].ver, old |-> d[c].old]
                   ELSE ext[c]]
  PROVE  /\ IInv(disk, ex, d, t, noticed)
         /\ \A c \in cells : ex[c].ver = d[c].ver \/ d[c].old \/ ex[c].old
<1>. DEFINE new(c) == [stamp |-> d[c].stamp, ver |-> d[c].ver, old |-> d[c].old]
            old(c) == ext[c]
<1>1. \A c \in Cell : \/ IsRead(c, d) /\ ex[c] = new(c)
                      \/ ex[c] = old(c) /\ (c \in cells => old(c).stamp = d[c].stamp)
  BY DEF extTimestampMisMatch
<1>2. \A c \in Cell : IsRead(c, d) => Current(c, disk, d) = d[c]
  BY DEF Current
<1>3. \A c \in Cell : IsRead(c, d) => d[c] \in Read(c)
  BY DefCases DEF IInv, Types, IsRead, IsDummy, Unknown
<1>4. \A c \in Cell : /\ new(c).stamp = d[c].stamp /\ new(c).ver = d[c].ver
                      /\ new(c).old = d[c].old
  OBVIOUS
<1>5. \A c \in Cell : IsRead(c, d) =>
        new(c) \in [stamp : 0..MaxTime, ver : 0..MaxEdits, old : BOOLEAN]
  BY <1>3 DEF Read
<1>. HIDE DEF new
<1>6. Types(disk, ex, d, t)
  BY <1>1, <1>5 DEF IInv, Types
<1>7. StampsPast(disk, ex, d, t)
  BY <1>1, <1>4 DEF IInv, StampsPast
<1>8. Fresh(disk, ex, d, t)
  <2>1. \A c \in Cell : ex[c].stamp = t => Current(c, disk, d).stamp = t
    BY <1>1, <1>2, <1>4 DEF IInv, Fresh
  <2>. QED  BY <2>1 DEF IInv, Fresh
<1>9. CopiesAgree(disk, ex, d)
  <2>. SUFFICES ASSUME NEW c \in Cell
                PROVE  Agree(disk[c], ex[c]) /\ Agree(Current(c, disk, d), ex[c])
    BY DEF IInv, CopiesAgree
  <2>1. Agree(disk[c], ext[c]) /\ Agree(Current(c, disk, d), ext[c])
        /\ Agree(Current(c, disk, d), disk[c])
    BY DEF IInv, CopiesAgree
  <2>. QED  BY <1>1, <1>2, <1>4, <2>1 DEF Agree
<1>10. \A c \in cells : ex[c].ver = d[c].ver \/ d[c].old \/ ex[c].old
  <2>. SUFFICES ASSUME NEW c \in cells PROVE ex[c].ver = d[c].ver \/ d[c].old \/ ex[c].old
    OBVIOUS
  <2>1. c \in Cell /\ IsRead(c, d) /\ Current(c, disk, d) = d[c]
    BY <1>2
  <2>2. Agree(d[c], ext[c])
    BY <2>1 DEF IInv, CopiesAgree
  <2>3. CASE ex[c] = new(c)
    BY <1>4, <2>1, <2>3
  <2>4. CASE ex[c] = ext[c] /\ ext[c].stamp = d[c].stamp
    BY <2>2, <2>4 DEF Agree
  <2>. QED  BY <1>1, <2>1, <2>3, <2>4
<1>. QED  BY <1>6, <1>7, <1>8, <1>9, <1>10 DEF IInv

-----------------------------------------------------------------------------
(* The steps.                                                               *)
LEMMA InitInv ==
  ASSUME Init
  PROVE  Inv
<1>1. 1 \in 1..MaxTime /\ 1 \in 0..MaxTime /\ 0 \in 0..MaxEdits /\ 1 \in 1..1 /\ 1 \in 0..1
  BY BoundsAssumption
<1>2. /\ \A c \in Cell : /\ disk[c].stamp = 1 /\ disk[c].ver = 0
                         /\ disk[c].exp = [k \in Kids[c] |-> 1]
                         /\ disk[c].seen = [k \in Kids[c] |-> 0]
                         /\ disk[c].check = FALSE /\ disk[c].old = FALSE
                         /\ disk[c] \in File(c)
                         /\ ext[c].stamp = 1 /\ ext[c].ver = 0 /\ ext[c].old = FALSE
                         /\ ext[c] \in [stamp : 0..MaxTime, ver : 0..MaxEdits, old : BOOLEAN]
                         /\ def[c] = Unknown
      /\ DOMAIN disk = Cell /\ DOMAIN def = Cell /\ now = 1
      /\ def = [c \in Cell |-> def[c]]
  BY <1>1 DEF Init, File
<1>3. \A c \in Cell : /\ ~IsRead(c, def) /\ ~IsDummy(c, def)
                      /\ Current(c, disk, def) = disk[c] /\ def[c] \in Defs(c)
  <2>. SUFFICES ASSUME NEW c \in Cell
                PROVE  /\ ~IsRead(c, def) /\ ~IsDummy(c, def)
                       /\ Current(c, disk, def) = disk[c] /\ def[c] \in Defs(c)
    OBVIOUS
  <2>1. def[c] = Unknown
    BY <1>2
  <2>2. ~IsRead(c, def) /\ ~IsDummy(c, def)
    BY <2>1 DEF IsRead, IsDummy, Unknown
  <2>. QED  BY <2>1, <2>2 DEF Current, Defs
<1>4. \A p \in Cell : \A k \in Kids[p] : k \in Cell /\ disk[p].exp[k] = 1 /\ disk[p].seen[k] = 0
  <2>. SUFFICES ASSUME NEW p \in Cell, NEW k \in Kids[p]
                PROVE  k \in Cell /\ disk[p].exp[k] = 1 /\ disk[p].seen[k] = 0
    OBVIOUS
  <2>1. k \in Cell
    BY NoCircle
  <2>2. disk[p].exp = [x \in Kids[p] |-> 1] /\ disk[p].seen = [x \in Kids[p] |-> 0]
    BY <1>2
  <2>. QED  BY <2>1, <2>2
<1>5. Types(disk, ext, def, now) /\ StampsPast(disk, ext, def, now)
  BY <1>1, <1>2, <1>3, <1>4 DEF Types, StampsPast
<1>6. Fresh(disk, ext, def, now) /\ CopiesAgree(disk, ext, def)
  BY <1>2, <1>3 DEF Fresh, CopiesAgree, Agree
<1>7. Known(def) /\ DummyStale(disk, def, Range(mismatch)) /\ MemStale(def, Range(mismatch))
      /\ MemLater(def, Range(mismatch))
  BY <1>3 DEF Known, DummyStale, MemStale, MemLater
<1>8. DiskStale(disk, def) /\ DiskLater(disk)
  <2>. SUFFICES ASSUME NEW p \in Cell, NEW k \in Kids[p]
                PROVE  /\ Shown(disk[p], k, disk[k])
                       /\ Shown(disk[p], k, Current(k, disk, def))
                       /\ ~(disk[p].stamp < disk[p].exp[k])
    BY DEF DiskStale, DiskLater
  <2>1. /\ k \in Cell /\ disk[p].seen[k] = 0 /\ disk[k].ver = 0
        /\ disk[p].stamp = 1 /\ disk[p].exp[k] = 1
    BY <1>2, <1>4
  <2>2. Current(k, disk, def) = disk[k]
    BY <1>3, <2>1
  <2>. QED  BY <2>1, <2>2 DEF Shown
<1>9. mismatch = <<>> /\ mismatch \in Seq(Cell) /\ processed = {} /\ fixing = FALSE /\ edits = 0
  BY EmptySeq DEF Init
<1>. QED  BY <1>1, <1>2, <1>5, <1>6, <1>7, <1>8, <1>9 DEF Inv, IInv

LEMMA MemoryFacts ==
  ASSUME Inv
  PROVE  Memory \in Memories(ext, now)
<1>1. \A x \in Cell : def[x] \in AnyDef
  BY DEF Inv, IInv, Types, AnyDef
<1>2. def \in [Cell -> AnyDef]
  BY <1>1 DEF Inv
<1>. QED  BY <1>2 DEF Inv, Memory, Memories

\* A command leaves the memory m.
LEMMA Commanded ==
  ASSUME Inv, NEW m \in Memories(ext, now), FixMismatch(m),
         \A x \in Cell : IsRead(x, def) => IsRead(x, m.def),
         disk' = disk, ext' = ext, now' = now, edits' = edits
  PROVE  Inv'
<1>1. /\ IInv(disk, ext, m.def, now, Range(m.mismatch)) /\ m.mismatch \in Seq(Cell)
      /\ m.def = [x \in Cell |-> m.def[x]]
  BY DEF Memories
<1>2. def' = m.def /\ mismatch' = m.mismatch /\ fixing' = (m.mismatch # <<>>)
      /\ processed' \subseteq processed
  BY DEF FixMismatch
<1>3. IInv(disk', ext', def', now', Range(mismatch'))
  BY <1>1, <1>2
<1>4. processed' \subseteq Cell /\ \A c \in processed' : IsRead(c, def')
  BY <1>2 DEF Inv
<1>. QED  BY <1>1, <1>2, <1>3, <1>4 DEF Inv

LEMMA LoadInv ==
  ASSUME Inv, NEW c \in Cell, Load(c)
  PROVE  Inv'
<1>1. DBCellRead(Memory, c) \in Memories(ext, now)
      /\ \A x \in Cell : IsRead(x, def) => IsRead(x, DBCellRead(Memory, c).def)
  <2>1. Memory.def = def
    BY DEF Memory
  <2>. QED  BY <2>1, MemoryFacts, OneRead
<1>. QED  BY <1>1, Commanded DEF Load

LEMMA ExtReadTreeInv ==
  ASSUME Inv, NEW root \in Cell, ExtReadTree(root)
  PROVE  Inv'
<1>1. ReadTree(Memory, root) \in Memories(ext, now)
      /\ \A x \in Cell : IsRead(x, def) => IsRead(x, ReadTree(Memory, root).def)
  <2>1. Memory.def = def
    BY DEF Memory
  <2>. QED  BY <2>1, MemoryFacts, TreeRead
<1>. QED  BY <1>1, Commanded DEF ExtReadTree

LEMMA DRCContinuousInv ==
  ASSUME Inv, NEW c \in Cell, DRCContinuous(c)
  PROVE  Inv'
<1>. DEFINE m == ReadTree(Memory, c)
            e == Checks(m.def, c)
            n == [def |-> e, mismatch |-> m.mismatch]
<1>1. /\ m \in Memories(ext, now) /\ \A x \in Below[c] : IsRead(x, m.def)
      /\ \A x \in Cell : IsRead(x, def) => IsRead(x, m.def)
  <2>1. Memory.def = def
    BY DEF Memory
  <2>. QED  BY <2>1, MemoryFacts, TreeRead
<1>2. FixMismatch(n)
  BY DEF DRCContinuous, Checks
<1>. HIDE DEF m, e
<1>3. IsRead(c, m.def) /\ \A k \in Kids[c] : IsRead(k, m.def)
  BY <1>1, TreeFacts
<1>4. IInv(disk, ext, m.def, now, Range(m.mismatch)) /\ m.mismatch \in Seq(Cell)
  BY <1>1 DEF Memories
<1>5. IInv(disk, ext, e, now, Range(m.mismatch))
      /\ \A x \in Cell : IsRead(x, e) <=> IsRead(x, m.def)
  <2>. DEFINE d == m.def
              noticed == Range(m.mismatch)
  <2>1. IInv(disk, ext, d, now, noticed) /\ IsRead(c, d) /\ \A k \in Kids[c] : IsRead(k, d)
    BY <1>3, <1>4
  <2>2. e = Checks(d, c)
    BY DEF e
  <2>. HIDE DEF d, noticed
  <2>3. IInv(disk, ext, e, now, noticed) /\ \A x \in Cell : IsRead(x, e) <=> IsRead(x, d)
    BY <2>1, <2>2, Rechecking
  <2>. QED  BY <2>3 DEF d, noticed
<1>6. e \in [Cell -> AnyDef]
  <2>1. \A x \in Cell : e[x] \in AnyDef
    BY <1>5 DEF IInv, Types, AnyDef
  <2>2. e = [x \in Cell |-> e[x]]
    <3>1. m.def \in [Cell -> AnyDef]
      BY <1>1 DEF Memories
    <3>. QED  BY <3>1 DEF e, Checks
  <2>. QED  BY <2>1, <2>2
<1>7. n \in Memories(ext, now) /\ \A x \in Cell : IsRead(x, def) => IsRead(x, n.def)
  BY <1>1, <1>4, <1>5, <1>6 DEF Memories
<1>8. disk' = disk /\ ext' = ext /\ now' = now /\ edits' = edits
  BY DEF DRCContinuous
<1>. HIDE DEF n
<1>. QED  BY <1>2, <1>7, <1>8, Commanded

LEMMA EditInv ==
  ASSUME Inv, NEW c \in Cell, Edit(c)
  PROVE  Inv'
<1>. DEFINE marked == {c} \cup Marked(c, def)
            v == edits'
<1>1. /\ IsRead(c, def) /\ v = edits + 1 /\ edits < MaxEdits
      /\ def' = Edits(def, c, v, marked)
      /\ UNCHANGED <<disk, mismatch, processed, fixing, ext, now>>
  BY DEF Edit, Edits
<1>2. v \in 0..MaxEdits
  BY <1>1, BoundsAssumption DEF Inv
<1>3. Marked(c, def) \subseteq Cell /\ Users(c, def) \subseteq Marked(c, def)
  <2>1. Users(c, def) \cap Cell = Users(c, def)
    BY DEF Users
  <2>. QED  BY <2>1, AboveFacts DEF Marked
<1>4. \A p \in Marked(c, def) : IsRead(p, def)
  BY AboveRead DEF Marked
<1>5. marked \subseteq Cell /\ c \in marked /\ Users(c, def) \subseteq marked
      /\ \A p \in marked : IsRead(p, def)
  BY <1>1, <1>3, <1>4
<1>. HIDE DEF marked, v
<1>6. IInv(disk, ext, def', now, Range(mismatch))
      /\ \A x \in Cell : IsRead(x, def') <=> IsRead(x, def)
  <2>1. IInv(disk, ext, def, now, Range(mismatch))
    BY DEF Inv
  <2>. QED  BY <1>1, <1>2, <1>5, <2>1, Editing
<1>7. def' = [x \in Cell |-> def'[x]]
  BY <1>1 DEF Edits, DRCCheckThis
<1>8. IInv(disk', ext', def', now', Range(mismatch'))
  BY <1>1, <1>6
<1>. QED  BY <1>1, <1>2, <1>6, <1>7, <1>8 DEF Inv, v

LEMMA HeadAndTail ==
  ASSUME NEW s \in Seq(Cell), s # <<>>
  PROVE  Head(s) \in Cell /\ Tail(s) \in Seq(Cell) /\ Range(s) = {Head(s)} \cup Range(Tail(s))
<1>1. Head(s) \in Cell /\ Tail(s) \in Seq(Cell)
  BY HeadTailProperties
<1>2. Len(s) \in Nat /\ Len(s) # 0 /\ Len(Tail(s)) = Len(s) - 1 /\ Head(s) = s[1]
      /\ \A i \in 1..Len(Tail(s)) : Tail(s)[i] = s[i + 1]
  BY HeadTailProperties, EmptySeq, LenProperties
<1>. DEFINE n == Len(s)
            t == Tail(s)
<1>3. Range(s) = {s[i] : i \in 1..n} /\ Range(t) = {t[i] : i \in 1..(n - 1)}
  <2>1. Range(s) = {s[i] : i \in 1..Len(s)} /\ Range(t) = {t[i] : i \in 1..Len(t)}
    BY <1>1, SeqRange, Zenon
  <2>2. Len(t) = n - 1
    BY <1>2
  <2>. QED  BY <2>1, <2>2, Zenon
<1>4. n \in Nat /\ n # 0 /\ \A i \in 1..(n - 1) : t[i] = s[i + 1]
  BY <1>2
<1>. HIDE DEF n, t
<1>5. \A x : x \in Range(s) <=> x = s[1] \/ x \in Range(t)
  <2>1. 1 \in 1..n /\ \A i \in 1..(n - 1) : i + 1 \in 1..n
    BY <1>4
  <2>2. \A i \in 1..n : i = 1 \/ (i - 1 \in 1..(n - 1) /\ s[i] = t[i - 1])
    BY <1>4
  <2>. QED  BY <1>3, <1>4, <2>1, <2>2
<1>6. Range(s) = {Head(s)} \cup Range(t)
  BY <1>2, <1>5
<1>. QED  BY <1>1, <1>6 DEF t

\* A mismatch is fixed.
LEMMA DBFixMismatchInv ==
  ASSUME Inv, DBFixMismatch
  PROVE  Inv'
<1>. DEFINE c == Head(mismatch)
            rest == Tail(mismatch)
            m == DBCellRead([def |-> def, mismatch |-> rest], c)
<1>1. /\ c \in Cell /\ rest \in Seq(Cell) /\ Range(mismatch) = {c} \cup Range(rest)
      /\ fixing' = (mismatch' # <<>>)
      /\ disk' = disk /\ ext' = ext /\ now' = now /\ edits' = edits
  <2>1. mismatch \in Seq(Cell) /\ mismatch # <<>>
    BY DEF Inv, DBFixMismatch
  <2>. QED  BY <2>1, HeadAndTail DEF DBFixMismatch, MismatchesLeft
<1>2. IInv(disk, ext, def, now, {c} \cup Range(rest))
  BY <1>1 DEF Inv
<1>3. \A x \in Cell : def[x] \in Defs(x)
  BY <1>2 DEF IInv, Types
<1>4. CASE c \in processed
  <2>1. /\ mismatch' = rest /\ processed' = processed
        /\ def' = [p \in Cell |-> IF p \in PassedOver(c)
                                    THEN [def[p] EXCEPT !.passed = @ \cup {c}]
                                    ELSE def[p]]
    BY <1>4 DEF DBFixMismatch
  <2>2. IsRead(c, def)
    BY <1>4 DEF Inv
  <2>. DEFINE e == def'
  <2>3. \A p \in PassedOver(c) :
          /\ e[p] \in Read(p) /\ e[p].state = def[p].state
          /\ e[p].stamp = def[p].stamp /\ e[p].ver = def[p].ver /\ e[p].seen = def[p].seen
          /\ e[p].old = def[p].old /\ e[p].check = def[p].check
          /\ e[p].getnew = def[p].getnew /\ e[p].blind = def[p].blind
          /\ e[p].passed = def[p].passed \cup {c}
    <3>. SUFFICES ASSUME NEW p \in PassedOver(c)
                  PROVE  LET y == [def[p] EXCEPT !.passed = @ \cup {c}]
                         IN /\ y \in Read(p) /\ y.state = def[p].state
                            /\ y.stamp = def[p].stamp /\ y.ver = def[p].ver
                            /\ y.seen = def[p].seen /\ y.old = def[p].old
                            /\ y.check = def[p].check /\ y.getnew = def[p].getnew
                            /\ y.blind = def[p].blind /\ y.passed = def[p].passed \cup {c}
      <4>1. \A p \in PassedOver(c) : e[p] = [def[p] EXCEPT !.passed = @ \cup {c}]
        BY <2>1 DEF PassedOver, Users
      <4>. QED  BY <4>1, Zenon
    <3>1. p \in Cell /\ c \in Kids[p] /\ IsRead(p, def)
      BY DEF PassedOver, Users
    <3>2. def[p] \in Read(p)
      BY <1>3, <3>1, DefCases DEF IsRead, IsDummy, Unknown
    <3>. QED  BY <3>1, <3>2 DEF Read
  <2>4. \A p \in Cell : p \notin PassedOver(c) => e[p] = def[p]
    BY <2>1
  <2>5. e = [p \in Cell |-> e[p]]
    BY <2>1
  <2>. HIDE DEF e, c, rest
  <2>6. Types(disk, ext, e, now)
    <3>1. \A p \in Cell : e[p] \in Defs(p)
      BY <1>3, <2>3, <2>4 DEF Defs
    <3>2. DOMAIN e = Cell
      BY <2>5
    <3>. QED  BY <1>2, <3>1, <3>2 DEF IInv, Types
  <2>7. Wider(def, e)
    BY <2>3, <2>4 DEF Wider
  <2>8. \A p \in Users(c, e) :
          \/ e[p].check \/ c \in e[p].passed
          \/ e[p].seen[c] = e[c].ver /\ ~(e[p].stamp < e[c].stamp)
    <3>. SUFFICES ASSUME NEW p \in Users(c, e), p \notin PassedOver(c), ~e[p].check
                  PROVE  e[p].seen[c] = e[c].ver /\ ~(e[p].stamp < e[c].stamp)
      BY <2>3
    <3>1. p \in Cell /\ e[p] = def[p] /\ p \in Users(c, def)
      BY <2>4 DEF Users, IsRead
    <3>2. e[c].ver = def[c].ver /\ e[c].stamp = def[c].stamp
      BY <1>1, <2>3, <2>4
    <3>. QED  BY <3>1, <3>2 DEF PassedOver
  <2>9. IInv(disk, ext, e, now, Range(rest))
    <3>. DEFINE noticed == Range(rest)
    <3>1. IInv(disk, ext, def, now, noticed \cup {c})
      <4>1. noticed \cup {c} = {c} \cup Range(rest)
        OBVIOUS
      <4>. QED  BY <1>2, <4>1
    <3>. HIDE DEF noticed
    <3>2. IInv(disk, ext, e, now, noticed)
      BY <1>1, <2>2, <2>6, <2>7, <2>8, <3>1, Widening
    <3>. QED  BY <3>2 DEF noticed
  <2>10. \A x \in Cell : IsRead(x, def) => IsRead(x, e)
    BY <2>7 DEF Wider, IsRead
  <2>. QED  BY <1>1, <2>1, <2>5, <2>9, <2>10 DEF Inv, e
<1>5. CASE c \notin processed
  <2>1. /\ mismatch' = m.mismatch /\ processed' = processed \cup {c}
        /\ def' = DRCCheckThis(Marked(c, m.def), m.def)
    BY <1>5 DEF DBFixMismatch
  <2>. DEFINE d == m.def
              e == def'
  <2>2. /\ IInv(disk, ext, d, now, {c} \cup Range(m.mismatch)) /\ m.mismatch \in Seq(Cell)
        /\ IsRead(c, d) /\ \A x \in Cell : IsRead(x, def) => IsRead(x, d)
    <3>1. CASE IsRead(c, def)
      <4>1. m = [def |-> def, mismatch |-> rest]
        BY <3>1 DEF DBCellRead
      <4>. HIDE DEF m, c, rest
      <4>2. m.def = def /\ m.mismatch = rest
        BY <4>1
      <4>. QED  BY <1>1, <1>2, <3>1, <4>2
    <3>2. CASE ~IsRead(c, def)
      <4>1. Types(disk, ext, def, now)
        BY <1>2 DEF IInv
      <4>. HIDE DEF c, rest
      <4>2. /\ m.mismatch \in Seq(Cell) /\ Range(rest) \subseteq Range(m.mismatch)
            /\ Types(disk, ext, d, now) /\ Reads(c, def, d, Range(m.mismatch))
        BY <1>1, <3>2, <4>1, ReadEffect
      <4>3. IInv(disk, ext, d, now, {c} \cup Range(m.mismatch))
        <5>. DEFINE before == Range(rest)
                    after == Range(m.mismatch)
                    more == {c}
        <5>1. IInv(disk, ext, def, now, more \cup before) /\ before \subseteq after
              /\ Reads(c, def, d, after) /\ Types(disk, ext, d, now)
          BY <1>2, <4>2
        <5>. HIDE DEF before, after, more, d
        <5>2. IInv(disk, ext, d, now, more \cup after)
          BY <1>1, <3>2, <5>1, Reading
        <5>. QED  BY <5>2 DEF more, after
      <4>4. IsRead(c, d) /\ \A x \in Cell : IsRead(x, def) => IsRead(x, d)
        BY <4>2 DEF Reads
      <4>. QED  BY <4>2, <4>3, <4>4
    <3>. QED  BY <3>1, <3>2
  <2>. DEFINE noticed == Range(m.mismatch)
              marked == Marked(c, d)
  <2>3. e = [p \in Cell |-> IF p \in marked THEN [d[p] EXCEPT !.check = TRUE] ELSE d[p]]
    BY <2>1 DEF DRCCheckThis
  <2>4. IInv(disk, ext, d, now, noticed \cup {c})
    <3>1. noticed \cup {c} = {c} \cup Range(m.mismatch)
      OBVIOUS
    <3>. QED  BY <2>2, <3>1
  <2>. HIDE DEF e, d, noticed, c
  <2>5. marked \subseteq Cell /\ Users(c, d) \subseteq marked
        /\ \A p \in marked : IsRead(p, d)
    <3>1. Users(c, d) \cap Cell = Users(c, d)
      BY DEF Users
    <3>. QED  BY <1>1, <3>1, AboveFacts, AboveRead DEF Marked
  <2>. HIDE DEF marked
  <2>6. \A x \in Cell : d[x] \in Defs(x)
    BY <2>4 DEF IInv, Types
  <2>7. ASSUME NEW p \in marked
        PROVE  /\ e[p] \in Read(p) /\ e[p].state = d[p].state
               /\ e[p].stamp = d[p].stamp /\ e[p].ver = d[p].ver /\ e[p].seen = d[p].seen
               /\ e[p].old = d[p].old /\ e[p].check /\ e[p].getnew = d[p].getnew
               /\ e[p].blind = d[p].blind /\ e[p].passed = d[p].passed
    <3>1. p \in Cell /\ d[p] \in Read(p)
      BY <2>5, <2>6, DefCases DEF IsRead, IsDummy, Unknown
    <3>2. e[p] = [d[p] EXCEPT !.check = TRUE]
      BY <2>3, <3>1
    <3>. QED  BY <3>1, <3>2 DEF Read
  <2>8. \A p \in Cell : p \notin marked => e[p] = d[p]
    BY <2>3
  <2>9. e = [p \in Cell |-> e[p]]
    BY <2>3
  <2>10. Types(disk, ext, e, now)
    <3>1. \A p \in Cell : e[p] \in Defs(p)
      BY <2>6, <2>7, <2>8 DEF Defs
    <3>2. DOMAIN e = Cell
      BY <2>9
    <3>. QED  BY <2>4, <3>1, <3>2 DEF IInv, Types
  <2>11. Wider(d, e)
    BY <2>7, <2>8 DEF Wider
  <2>12. \A p \in Users(c, e) : e[p].check
    <3>. SUFFICES ASSUME NEW p \in Users(c, e) PROVE p \in marked
      BY <2>7
    <3>1. p \in Users(c, d)
      BY <2>7, <2>8 DEF Users, IsRead
    <3>. QED  BY <2>5, <3>1
  <2>13. IInv(disk, ext, e, now, noticed)
    BY <1>1, <2>2, <2>4, <2>10, <2>11, <2>12, Widening DEF d
  <2>14. \A x \in Cell : IsRead(x, d) => IsRead(x, e)
    BY <2>11 DEF Wider, IsRead
  <2>15. processed' \subseteq Cell /\ \A x \in processed' : IsRead(x, e)
    <3>1. processed \subseteq Cell /\ \A x \in processed : IsRead(x, def)
      BY DEF Inv
    <3>. QED  BY <1>1, <2>1, <2>2, <2>14, <3>1 DEF d
  <2>16. IInv(disk', ext', def', now', Range(mismatch')) /\ mismatch' \in Seq(Cell)
    BY <1>1, <2>1, <2>2, <2>13 DEF e, noticed
  <2>17. fixing' \in BOOLEAN /\ (mismatch' # <<>>) = fixing' /\ edits' \in 0..MaxEdits
    BY <1>1 DEF Inv
  <2>. QED  BY <2>9, <2>15, <2>16, <2>17 DEF Inv, e
<1>. QED  BY <1>4, <1>5

\* now' is a time that has come.
LEMMA TimeFacts ==
  ASSUME Inv, now' \in Time
  PROVE  now' \in Nat /\ now <= now' /\ now' <= MaxTime
BY BoundsAssumption DEF Inv, IInv, Types, Time

LEMMA SaveInv ==
  ASSUME Inv, NEW c \in Cell, Save(c)
  PROVE  Inv'
<1>. DEFINE u == now'
            d == DBUpdateStamps(u)
            w == [disk EXCEPT ![c] = Written(c, d)]
<1>1. /\ IsRead(c, def) /\ ~fixing /\ u \in Nat /\ now <= u /\ u <= MaxTime
      /\ def' = d /\ disk' = w
      /\ UNCHANGED <<mismatch, processed, fixing, ext, edits>>
  BY TimeFacts DEF Save, Written
<1>2. mismatch = <<>> /\ IInv(disk, ext, def, now, {})
  <2>1. mismatch = <<>>
    BY <1>1 DEF Inv
  <2>2. Range(mismatch) = {}
    BY <2>1 DEF Range
  <2>. QED  BY <2>1, <2>2 DEF Inv
<1>. HIDE DEF u, d
<1>3. /\ IInv(disk, ext, d, u, {})
      /\ \A x \in Cell : IsRead(x, d) <=> IsRead(x, def)
      /\ \A x \in Cell : IsRead(x, d) /\ d[x].getnew => d[x].stamp = u
      /\ d = [x \in Cell |-> d[x]]
  BY <1>1, <1>2, Stamping DEF d
<1>4. IsRead(c, d)
  BY <1>1, <1>3
<1>. HIDE DEF w
<1>5. IInv(w, ext, d, u, {})
  BY <1>3, <1>4, Saving DEF w
<1>6. Range(mismatch') = {}
  BY <1>1, <1>2 DEF Range
<1>7. IInv(disk', ext', def', now', Range(mismatch'))
  BY <1>1, <1>5, <1>6 DEF u
<1>. QED  BY <1>1, <1>3, <1>7 DEF Inv

LEMMA ExtIncrementalInv ==
  ASSUME Inv, NEW root \in Cell, ExtIncremental(root)
  PROVE  /\ Inv'
         /\ \A c \in Below[root] : ext'[c].ver = def'[c].ver \/ def'[c].old \/ ext'[c].old
<1>. DEFINE u == now'
            d == DBUpdateStamps(u)
            ex == [c \in Cell |->
                     IF c \in Below[root] /\ extTimestampMisMatch(c, d)
                       THEN [stamp |-> d[c].stamp, ver |-> d[c].ver, old |-> d[c].old]
                       ELSE ext[c]]
            noticed == Range(mismatch)
<1>1. /\ \A c \in Below[root] : IsRead(c, def)
      /\ u \in Nat /\ now <= u /\ u <= MaxTime
      /\ def' = d /\ ext' = ex
      /\ UNCHANGED <<disk, mismatch, processed, fixing, edits>>
  BY TimeFacts DEF ExtIncremental
<1>2. IInv(disk, ext, def, now, noticed)
  BY DEF Inv
<1>. HIDE DEF u, d, noticed
<1>3. /\ IInv(disk, ext, d, u, noticed)
      /\ \A x \in Cell : IsRead(x, d) <=> IsRead(x, def)
      /\ d = [x \in Cell |-> d[x]]
  BY <1>1, <1>2, Stamping DEF d
<1>4. Below[root] \subseteq Cell /\ \A c \in Below[root] : IsRead(c, d)
  BY <1>1, <1>3, TreeFacts
<1>5. /\ IInv(disk, ex, d, u, noticed)
      /\ \A c \in Below[root] : ex[c].ver = d[c].ver \/ d[c].old \/ ex[c].old
  <2>. DEFINE cells == Below[root]
  <2>1. cells \subseteq Cell /\ \A c \in cells : IsRead(c, d)
    BY <1>4
  <2>2. ex = [c \in Cell |->
                IF c \in cells /\ extTimestampMisMatch(c, d)
                  THEN [stamp |-> d[c].stamp, ver |-> d[c].ver, old |-> d[c].old]
                  ELSE ext[c]]
    OBVIOUS
  <2>. HIDE DEF cells, ex
  <2>3. /\ IInv(disk, ex, d, u, noticed)
        /\ \A c \in cells : ex[c].ver = d[c].ver \/ d[c].old \/ ex[c].old
    BY <1>3, <2>1, <2>2, Extracting
  <2>. QED  BY <2>3 DEF cells
<1>. HIDE DEF ex
<1>6. IInv(disk', ext', def', now', Range(mismatch'))
  BY <1>1, <1>5 DEF u, noticed
<1>7. Inv'
  BY <1>1, <1>3, <1>6 DEF Inv
<1>. QED  BY <1>1, <1>5, <1>7

LEMMA RestartInv ==
  ASSUME Inv, Restart
  PROVE  Inv'
<1>. DEFINE d == [c \in Cell |-> Unknown]
            u == now + 1
<1>1. /\ now' = u /\ def' = d /\ disk' = disk /\ ext' = ext /\ edits' = edits
      /\ mismatch' = <<>> /\ processed' = {} /\ fixing' = FALSE /\ now < MaxTime
  BY DEF Restart
<1>2. /\ now \in Nat /\ now # 0 /\ u \in 1..MaxTime /\ 1..now \subseteq 1..u
      /\ 0..now \subseteq 0..u /\ u \notin 0..now /\ 1..now \subseteq 0..now
  BY <1>1, BoundsAssumption DEF Inv, IInv, Types
<1>3. \A c \in Cell : /\ ~IsRead(c, d) /\ ~IsDummy(c, d)
                      /\ Current(c, disk, d) = disk[c] /\ d[c] \in Defs(c)
  <2>. SUFFICES ASSUME NEW c \in Cell
                PROVE  /\ ~IsRead(c, d) /\ ~IsDummy(c, d)
                       /\ Current(c, disk, d) = disk[c] /\ d[c] \in Defs(c)
    OBVIOUS
  <2>1. d[c] = Unknown
    OBVIOUS
  <2>2. ~IsRead(c, d) /\ ~IsDummy(c, d)
    BY <2>1 DEF IsRead, IsDummy, Unknown
  <2>. HIDE DEF d
  <2>. QED  BY <2>1, <2>2 DEF Current, Defs
<1>4. DOMAIN d = Cell /\ d = [c \in Cell |-> d[c]]
  OBVIOUS
<1>. HIDE DEF d, u
<1>5. Types(disk, ext, d, u)
  BY <1>2, <1>3, <1>4 DEF Inv, IInv, Types
<1>6. StampsPast(disk, ext, d, u)
  BY <1>2, <1>3 DEF Inv, IInv, StampsPast
<1>7. Fresh(disk, ext, d, u)
  <2>1. \A c \in Cell : /\ disk[c].stamp # u /\ ext[c].stamp # u
                        /\ \A p \in Cell : c \in Kids[p] => disk[p].exp[c] # u
    BY <1>2 DEF Inv, IInv, StampsPast
  <2>. QED  BY <1>3, <2>1 DEF Fresh
<1>8. CopiesAgree(disk, ext, d)
  BY <1>3 DEF Inv, IInv, CopiesAgree, Agree
<1>9. Known(d) /\ DummyStale(disk, d, {}) /\ MemStale(d, {}) /\ MemLater(d, {})
  BY <1>3 DEF Known, DummyStale, MemStale, MemLater
<1>10. DiskStale(disk, d) /\ DiskLater(disk)
  <2>1. \A p \in Cell : \A k \in Kids[p] :
          Shown(disk[p], k, disk[k]) /\ Current(k, disk, d) = disk[k]
    BY <1>3, NoCircle DEF Inv, IInv, DiskStale
  <2>2. DiskLater(disk)
    BY DEF Inv, IInv
  <2>. QED  BY <2>1, <2>2 DEF DiskStale
<1>11. Range(mismatch') = {} /\ mismatch' \in Seq(Cell)
  <2>1. Range(<<>>) = {}
    BY DEF Range
  <2>. QED  BY <1>1, <2>1, EmptySeq
<1>12. IInv(disk, ext, d, u, {})
  BY <1>5, <1>6, <1>7, <1>8, <1>9, <1>10 DEF IInv
<1>13. IInv(disk', ext', def', now', Range(mismatch'))
  BY <1>1, <1>11, <1>12
<1>. QED  BY <1>1, <1>4, <1>11, <1>13 DEF Inv

LEMMA NextInv == Inv /\ [Next]_vars => Inv'
<1>. SUFFICES ASSUME Inv, [Next]_vars PROVE Inv'
  OBVIOUS
<1>1. ASSUME NEW c \in Cell, Load(c) PROVE Inv'
  BY <1>1, LoadInv
<1>2. ASSUME NEW c \in Cell, Save(c) PROVE Inv'
  BY <1>2, SaveInv
<1>3. ASSUME NEW c \in Edited, Edit(c) PROVE Inv'
  BY <1>3, EditInv, UserAssumption
<1>4. ASSUME NEW root \in Roots, ExtReadTree(root) PROVE Inv'
  BY <1>4, ExtReadTreeInv, UserAssumption
<1>5. ASSUME NEW root \in Roots, ExtIncremental(root) PROVE Inv'
  BY <1>5, ExtIncrementalInv, UserAssumption
<1>6. CASE Restart
  BY <1>6, RestartInv
<1>7. CASE DBFixMismatch
  BY <1>7, DBFixMismatchInv
<1>8. ASSUME NEW c \in Cell, DRCContinuous(c) PROVE Inv'
  BY <1>8, DRCContinuousInv
<1>9. CASE UNCHANGED vars
  BY <1>9 DEF vars, Inv, IInv, Types, StampsPast, Fresh, CopiesAgree, Known, DiskStale,
              DummyStale, MemStale, DiskLater, MemLater, Current, IsRead, IsDummy
<1>. QED  BY <1>1, <1>2, <1>3, <1>4, <1>5, <1>6, <1>7, <1>8, <1>9 DEF Next, User, Check

LEMMA Invariance == Spec => []Inv
<1>1. Init => Inv
  BY InitInv
<1>. QED  BY <1>1, NextInv, PTL DEF Spec

-----------------------------------------------------------------------------
\* Every file, definition and stamp is of its kind at all times (the types of
\* Stamps, of the structures that DBcellsrch.c and DBio.c keep).
THEOREM TypeCorrect == Spec => []TypeOK
<1>1. Inv => TypeOK
  <2>. SUFFICES ASSUME Inv PROVE TypeOK
    OBVIOUS
  <2>1. \A c \in Cell :
          /\ disk[c] \in File(c)
          /\ def[c] \in {Unknown} \cup {Dummy(t) : t \in 0..MaxTime} \cup Read(c)
          /\ ext[c] \in [stamp : 0..MaxTime, ver : 0..MaxEdits, old : BOOLEAN]
    BY DEF Inv, IInv, Types, Defs
  <2>2. now \in 1..MaxTime
    BY DEF Inv, IInv, Types
  <2>. QED  BY <2>1, <2>2 DEF Inv, TypeOK
<1>. QED  BY <1>1, Invariance, PTL

\* A parent that was checked against another version of its child than the one
\* in memory is marked, or the mismatch waits for DBFixMismatch, or the stamps
\* could not show it, or DBFixMismatch passed over it (DBCellReadDef,
\* DBFixMismatch and DBUpdateStamps together).
THEOREM StaleParentsAreKnown == Spec => []StaleIsKnown
<1>1. Inv => StaleIsKnown
  BY DEF Inv, IInv, MemStale, StaleIsKnown, Pairs, Stale, Noticed, Excused
<1>. QED  BY <1>1, Invariance, PTL

\* A child with a later stamp than its parent has been noticed: DBUpdateStamps
\* stamps the parents of whatever it stamps.
THEOREM LaterChildrenAreNoticed == Spec => []LaterChildIsNoticed
<1>1. Inv => LaterChildIsNoticed
  BY DEF Inv, IInv, MemLater, LaterChildIsNoticed, Pairs, Noticed
<1>. QED  BY <1>1, Invariance, PTL

\* ExtIncremental may skip a cell whose file has its stamp: the file is of the
\* cell's own layout.
THEOREM ExtractedLayoutIsOwn == Spec => OwnLayoutExtracted
<1>1. Inv /\ [Next]_vars =>
        [\A r \in Roots : ExtIncremental(r) =>
           \A c \in Below[r] : ext'[c].ver = def'[c].ver \/ def'[c].old \/ ext'[c].old]_vars
  BY ExtIncrementalInv, UserAssumption
<1>. QED  BY <1>1, Invariance, PTL DEF Spec, OwnLayoutExtracted

=============================================================================
