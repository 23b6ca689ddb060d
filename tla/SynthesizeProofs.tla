-------------------------- MODULE SynthesizeProofs --------------------------
(* What synthesize.sh keeps and reports, for every source, netlist, library *)
(* and fanout limit.                                                        *)
EXTENDS Synthesize, SequencesExt, SequenceTheorems, FiniteSetTheorems,
        WellFoundedInduction, TLAPS

(* Where the netlists are while the script works: put aside when yosys       *)
(* starts, fresh once it has been checked, and in the .blif file unless a    *)
(* failure that no test looks after, or blifFanout's own, has spoilt it.     *)
FilesInv ==
  /\ pc = "yosys" => mapped = "none"
  /\ pc = "mapped" => mapped \in {"none", "new"}
  /\ pc = "postproc" => mapped = "new"
  /\ pc = "fanout" /\ ~badLibrary => blif = "new" \/ unnoticed
  /\ pc = "netlists" => blif = "new" \/ unnoticed

Working == {"hierarchy", "backup", "yosys", "mapped", "postproc", "fanout", "netlists"}
PcInv == pc \in {"idle"} \cup Working

LEMMA FilesInitially == Init => PcInv /\ FilesInv
BY DEF Init, PcInv, FilesInv

\* A byte holds the -1 of blifFanout as a positive number.
LEMMA FailureLooksPositive == MoreToChange(Status(-1))
<1>1. PICK n \in Int : n = -1
  OBVIOUS
<1>2. n + 1 = 0
  BY <1>1
<1>3. n % 256 > 0
  <2> HIDE <1>1
  <2> QED BY <1>2
<1>4. (-1) % 256 > 0
  BY <1>1, <1>3, Zenon
<1> QED BY <1>4 DEF MoreToChange, Status, StatusRange

LEMMA FilesPreserved == PcInv /\ FilesInv /\ [Next]_vars => PcInv' /\ FilesInv'
<1> SUFFICES ASSUME PcInv, FilesInv, [Next]_vars PROVE PcInv' /\ FilesInv'
  OBVIOUS
<1> USE DEF PcInv, Working, FilesInv
<1>1. CASE Start
  BY <1>1 DEF Start
<1>2. CASE Hierarchy
  BY <1>2 DEF Hierarchy, FindDependency, SourceError, HierarchyFound, End
<1>3. CASE Backup
  BY <1>3 DEF Backup
<1>4. CASE Yosys
  BY <1>4 DEF Yosys
<1>5. CASE CheckMapped
  BY <1>5 DEF CheckMapped, End
<1>6. CASE MakeBlif
  BY <1>6 DEF MakeBlif
<1>7. CASE BlifFanout
  <2>1. CASE badLibrary
    BY <1>7, <2>1, FailureLooksPositive DEF BlifFanout, search
  <2>2. CASE ~badLibrary
    BY <1>7, <2>2 DEF BlifFanout
  <2> QED BY <2>1, <2>2
<1>8. CASE WriteNetlists
  BY <1>8 DEF WriteNetlists, End
<1>9. CASE Interrupt
  BY <1>9 DEF Interrupt, End
<1>10. CASE UNCHANGED vars
  BY <1>10 DEF vars, files
<1> QED
  BY <1>1, <1>2, <1>3, <1>4, <1>5, <1>6, <1>7, <1>8, <1>9, <1>10
  DEF Next, Script, Synthesis

THEOREM FilesInvariance == Spec => [](PcInv /\ FilesInv)
BY FilesInitially, FilesPreserved, PTL DEF Spec

-----------------------------------------------------------------------------
(* Whatever fails, and wherever the script is interrupted, one of the two    *)
(* netlist files of synthesize.sh is there once there has been one.          *)
LEMMA StepKeepsNetlist ==
  ASSUME PcInv, FilesInv, [Next]_vars,
         mapped # "none" \/ mapped_orig # "none"
  PROVE  mapped' # "none" \/ mapped_orig' # "none"
<1> USE DEF FilesInv
<1>1. CASE Start
  BY <1>1 DEF Start, Aged
<1>2. CASE Hierarchy
  BY <1>2 DEF Hierarchy, FindDependency, SourceError, HierarchyFound, files
<1>3. CASE Backup
  BY <1>3 DEF Backup
<1>4. CASE Yosys
  BY <1>4 DEF Yosys
<1>5. CASE CheckMapped
  BY <1>5 DEF CheckMapped, Restored
<1>6. CASE MakeBlif
  BY <1>6 DEF MakeBlif
<1>7. CASE BlifFanout
  BY <1>7 DEF BlifFanout
<1>8. CASE WriteNetlists
  BY <1>8 DEF WriteNetlists, files
<1>9. CASE Interrupt
  BY <1>9 DEF Interrupt
<1>10. CASE UNCHANGED vars
  BY <1>10 DEF vars, files
<1> QED
  BY <1>1, <1>2, <1>3, <1>4, <1>5, <1>6, <1>7, <1>8, <1>9, <1>10
  DEF Next, Script, Synthesis

THEOREM NetlistKept == Spec => NetlistNeverLost
<1>1. PcInv /\ FilesInv /\ [Next]_vars
        => [(mapped # "none" \/ mapped_orig # "none")
              => (mapped' # "none" \/ mapped_orig' # "none")]_vars
  BY StepKeepsNetlist
<1> QED BY <1>1, FilesInvariance, PTL DEF Spec, NetlistNeverLost

-----------------------------------------------------------------------------
(* The script of synthesize.sh never ends by itself without either the error *)
(* line or the netlist of this source, unless an unchecked tool has failed.  *)
LEMMA StepEndsHonestly ==
  ASSUME PcInv, FilesInv, Script, pc' = "idle", ~unnoticed
  PROVE  errcond' \/ blif' = "new"
<1> USE DEF FilesInv
<1>1. CASE Hierarchy
  <2>1. CASE FindDependency
    BY <2>1 DEF FindDependency
  <2>2. CASE SourceError
    BY <2>2 DEF SourceError, ErrorLine
  <2>3. CASE HierarchyFound
    BY <2>3 DEF HierarchyFound
  <2> QED BY <1>1, <2>1, <2>2, <2>3 DEF Hierarchy
<1>2. CASE Backup \/ Yosys \/ MakeBlif
  BY <1>2 DEF Backup, Yosys, MakeBlif
<1>3. CASE CheckMapped
  BY <1>3 DEF CheckMapped, ErrorLine
<1>4. CASE BlifFanout
  BY <1>4 DEF BlifFanout
<1>5. CASE WriteNetlists
  BY <1>5 DEF WriteNetlists, files
<1> QED
  BY <1>1, <1>2, <1>3, <1>4, <1>5 DEF Script, Synthesis

THEOREM LogIsHonest == Spec => CleanLogMeansCurrent
<1>1. PcInv /\ FilesInv /\ [Next]_vars
        => [(Script /\ pc' = "idle" /\ ~unnoticed) => (errcond' \/ blif' = "new")]_vars
  BY StepEndsHonestly
<1> QED BY <1>1, FilesInvariance, PTL DEF Spec, CleanLogMeansCurrent
-----------------------------------------------------------------------------
(* Induction, stated with sets: the library states it with operators.       *)
LEMMA LeastNumber ==
  ASSUME NEW T, T \subseteq Nat, T # {}
  PROVE  \E x \in T : \A y \in T : x <= y
<1>1. PICK x \in T : \A y \in T : <<y, x>> \notin OpToRel(<, Nat)
  BY NatLessThanWellFounded, WFMin
<1>2. \A y \in T : <<y, x>> \in Nat \X Nat
  OBVIOUS
<1>3. \A y \in T : ~(y < x)
  BY <1>1, <1>2 DEF OpToRel
<1>4. \A y \in T : x <= y
  BY <1>3
<1>. QED  BY <1>4

LEMMA Induction ==
  ASSUME NEW n \in Nat, NEW T, 0 \in T,
         \A i \in 1..n : i - 1 \in T => i \in T
  PROVE  \A i \in 0..n : i \in T
<1>. DEFINE U == {i \in 0..n : i \notin T}
<1>. SUFFICES ASSUME U # {} PROVE FALSE
  OBVIOUS
<1>0. U \subseteq Nat
  OBVIOUS
<1>1. PICK x \in U : \A y \in U : x <= y
  <2>. HIDE DEF U
  <2>. QED  BY <1>0, LeastNumber
<1>2. x \in 1..n /\ x - 1 \in 0..n
  BY <1>1
<1>3. x - 1 \notin U
  BY <1>1, <1>2
<1>. QED  BY <1>1, <1>2, <1>3

\* step: for each element and function on all, the value there, which depends
\* on the function only where the rank is lower.
Recurs(g, D, step) == \A x \in D : g[x] = step[<<x, g>>]
DependsBelow(D, S, rank, step) ==
  \A x \in D : \A g, h \in [D -> S] :
    (\A y \in D : rank[y] < rank[x] => g[y] = h[y]) => step[<<x, g>>] = step[<<x, h>>]

LEMMA RecursionExists ==
  ASSUME NEW D, NEW n \in Nat, NEW rank \in [D -> 0..n], NEW S, S # {},
         NEW step \in [D \X [D -> S] -> S], DependsBelow(D, S, rank, step)
  PROVE  \E g \in [D -> S] : Recurs(g, D, step)
<1>. DEFINE Good(g, m) == \A x \in D : rank[x] < m => g[x] = step[<<x, g>>]
            T == {m \in 0..(n + 1) : \E g \in [D -> S] : Good(g, m)}
<1>1. 0 \in T
  <2>1. PICK s \in S : TRUE
    OBVIOUS
  <2>2. [x \in D |-> s] \in [D -> S]
    BY <2>1
  <2>3. Good([x \in D |-> s], 0)
    OBVIOUS
  <2>4. 0 \in 0..(n + 1)
    OBVIOUS
  <2>. HIDE DEF Good
  <2>. QED  BY <2>2, <2>3, <2>4
<1>2. ASSUME NEW m \in 1..(n + 1), m - 1 \in T PROVE m \in T
  <2>1. PICK g \in [D -> S] : Good(g, m - 1)
    BY <1>2
  <2>. DEFINE h == [x \in D |-> IF rank[x] < m - 1 THEN g[x] ELSE step[<<x, g>>]]
  <2>2. h \in [D -> S]
    OBVIOUS
  <2>3. ASSUME NEW x \in D, rank[x] < m PROVE h[x] = step[<<x, h>>]
    <3>1. \A y \in D : rank[y] < rank[x] => g[y] = h[y]
      BY <2>3
    <3>2. step[<<x, g>>] = step[<<x, h>>]
      BY <2>2, <3>1 DEF DependsBelow
    <3>3. h[x] = step[<<x, g>>]
      BY <2>1
    <3>. QED  BY <3>2, <3>3
  <2>4. m \in 0..(n + 1)
    OBVIOUS
  <2>. HIDE DEF h
  <2>5. Good(h, m)
    BY <2>3
  <2>. HIDE DEF Good
  <2>. QED  BY <2>2, <2>4, <2>5
<1>3. n + 1 \in T
  <2>. DEFINE m == n + 1
  <2>1. m \in Nat /\ m \in 0..m
    OBVIOUS
  <2>2. \A i \in 1..m : i - 1 \in T => i \in T
    BY <1>2
  <2>. HIDE DEF T, m
  <2>3. \A i \in 0..m : i \in T
    BY <1>1, <2>1, <2>2, Induction, Zenon
  <2>4. m \in T
    BY <2>1, <2>3
  <2>. QED  BY <2>4 DEF m
<1>4. PICK g \in [D -> S] : Good(g, n + 1)
  BY <1>3
<1>. QED  BY <1>4 DEF Recurs

\* step: for each number and value before it, the value there.
Iterates(g, n, first, step) ==
  g[0] = first /\ \A i \in 1..n : g[i] = step[<<i, g[i - 1]>>]

LEMMA IterationExists ==
  ASSUME NEW n \in Nat, NEW S, NEW first \in S, NEW step \in [(1..n) \X S -> S]
  PROVE  \E g \in [0..n -> S] : Iterates(g, n, first, step)
<1>. DEFINE D == 0..n
            rank == [i \in D |-> i]
            next == [a \in D \X [D -> S] |->
                       IF a[1] = 0 THEN first ELSE step[<<a[1], a[2][a[1] - 1]>>]]
<1>1. rank \in [D -> 0..n]
  OBVIOUS
<1>2. \A i \in D, g \in [D -> S] : i # 0 => i - 1 \in D /\ <<i, g[i - 1]>> \in (1..n) \X S
  OBVIOUS
<1>3. next \in [D \X [D -> S] -> S]
  BY <1>2
<1>4. \A i \in D, g \in [D -> S] :
        next[<<i, g>>] = IF i = 0 THEN first ELSE step[<<i, g[i - 1]>>]
  OBVIOUS
<1>. HIDE DEF next
<1>5. DependsBelow(D, S, rank, next)
  <2>. SUFFICES ASSUME NEW i \in D, NEW g \in [D -> S], NEW h \in [D -> S],
                       \A j \in D : rank[j] < rank[i] => g[j] = h[j]
                PROVE  next[<<i, g>>] = next[<<i, h>>]
    BY DEF DependsBelow
  <2>1. i # 0 => i - 1 \in D /\ rank[i - 1] < rank[i]
    OBVIOUS
  <2>2. i # 0 => g[i - 1] = h[i - 1]
    BY <2>1
  <2>. QED  BY <1>4, <2>2
<1>. HIDE DEF rank
<1>6. PICK g \in [D -> S] : Recurs(g, D, next)
  BY <1>1, <1>3, <1>5, RecursionExists
<1>7. \A i \in 0..n : g[i] = IF i = 0 THEN first ELSE step[<<i, g[i - 1]>>]
  BY <1>4, <1>6 DEF Recurs
<1>8. 0 \in 0..n /\ \A i \in 1..n : i \in 0..n /\ i # 0
  OBVIOUS
<1>9. Iterates(g, n, first, step)
  BY <1>7, <1>8 DEF Iterates
<1>. QED  BY <1>6, <1>9

-----------------------------------------------------------------------------
(* Sums over finite sets.                                                   *)
\* What holds of no element and of one more holds of every finite set.
LEMMA GrowingSets ==
  ASSUME NEW D, IsFiniteSet(D), NEW P, {} \in P,
         \A S \in SUBSET D : \A x \in D \ S : S \in P => S \cup {x} \in P
  PROVE  \A S \in SUBSET D : S \in P
<1>. DEFINE n == Cardinality(D)
            T == {m \in 0..n : \A S \in SUBSET D : Cardinality(S) = m => S \in P}
<1>1. n \in Nat
  BY FS_CardinalityType
<1>2. 0 \in T
  <2>1. \A S \in SUBSET D : Cardinality(S) = 0 => S \in P
    BY FS_Subset, FS_EmptySet
  <2>. QED  BY <1>1, <2>1
<1>3. ASSUME NEW m \in 1..n, m - 1 \in T PROVE m \in T
  <2>1. ASSUME NEW S \in SUBSET D, Cardinality(S) = m PROVE S \in P
    <3>1. IsFiniteSet(S)
      BY FS_Subset
    <3>2. Cardinality({}) # m
      BY FS_EmptySet
    <3>3. PICK x : x \in S
      BY <2>1, <3>2
    <3>4. Cardinality(S \ {x}) = m - 1 /\ S \ {x} \in SUBSET D
      BY <2>1, <3>1, <3>3, FS_RemoveElement
    <3>5. S \ {x} \in P
      BY <1>3, <3>4
    <3>6. x \in D \ (S \ {x}) /\ S = (S \ {x}) \cup {x}
      BY <3>3
    <3>. QED  BY <3>4, <3>5, <3>6
  <2>. QED  BY <2>1
<1>. HIDE DEF T
<1>4. \A m \in 0..n : m \in T
  <2>. HIDE DEF n
  <2>. QED  BY <1>1, <1>2, <1>3, Induction
<1>5. \A S \in SUBSET D : Cardinality(S) \in 0..n
  BY FS_Subset, FS_CardinalityType
<1>. QED  BY <1>4, <1>5 DEF T

\* g: for each subset of D, the sum of w over it, which takes one after the other.
SomeOf(S) == CHOOSE x \in S : TRUE
Adds(g, w, D) ==
  /\ DOMAIN g = SUBSET D /\ g[{}] = 0
  /\ \A S \in SUBSET D : S # {} => g[S] = w[SomeOf(S)] + g[S \ {SomeOf(S)}]

LEMMA AddingExists ==
  ASSUME NEW D, IsFiniteSet(D), NEW w, \A x \in D : w[x] \in Int
  PROVE  \E g \in [SUBSET D -> Int] : Adds(g, w, D)
<1>. DEFINE n == Cardinality(D)
            rank == [S \in SUBSET D |-> Cardinality(S)]
            step == [p \in (SUBSET D) \X [SUBSET D -> Int] |->
                       IF p[1] = {} THEN 0
                       ELSE w[SomeOf(p[1])] + p[2][p[1] \ {SomeOf(p[1])}]]
<1>0. \A S \in SUBSET D : S # {} => SomeOf(S) \in S
  BY DEF SomeOf
<1>1. n \in Nat /\ Int # {}
  BY FS_CardinalityType
<1>2. rank \in [SUBSET D -> 0..n]
  BY FS_Subset, FS_CardinalityType
<1>3. step \in [(SUBSET D) \X [SUBSET D -> Int] -> Int]
  <2>1. ASSUME NEW S \in SUBSET D, NEW g \in [SUBSET D -> Int], S # {}
        PROVE  w[SomeOf(S)] + g[S \ {SomeOf(S)}] \in Int
    <3>1. SomeOf(S) \in D /\ S \ {SomeOf(S)} \in SUBSET D
      BY <1>0, <2>1
    <3>2. w[SomeOf(S)] \in Int /\ g[S \ {SomeOf(S)}] \in Int
      BY <3>1
    <3>. QED  BY <3>2
  <2>2. \A p \in (SUBSET D) \X [SUBSET D -> Int] :
          p[1] # {} => w[SomeOf(p[1])] + p[2][p[1] \ {SomeOf(p[1])}] \in Int
    BY <2>1
  <2>. DEFINE value(p) == IF p[1] = {} THEN 0
                          ELSE w[SomeOf(p[1])] + p[2][p[1] \ {SomeOf(p[1])}]
  <2>3. \A p \in (SUBSET D) \X [SUBSET D -> Int] : value(p) \in Int
    BY <2>2
  <2>4. step = [p \in (SUBSET D) \X [SUBSET D -> Int] |-> value(p)]
    OBVIOUS
  <2>. HIDE DEF value, step
  <2>. QED  BY <2>3, <2>4
<1>4. DependsBelow(SUBSET D, Int, rank, step)
  <2>. SUFFICES ASSUME NEW S \in SUBSET D, NEW g \in [SUBSET D -> Int], NEW h \in [SUBSET D -> Int],
                       \A R \in SUBSET D : rank[R] < rank[S] => g[R] = h[R]
                PROVE step[<<S, g>>] = step[<<S, h>>]
    BY DEF DependsBelow
  <2>1. CASE S = {}
    BY <2>1
  <2>2. CASE S # {}
    <3>1. SomeOf(S) \in S
      BY <1>0, <2>2
    <3>. DEFINE R == S \ {SomeOf(S)}
    <3>2. R \in SUBSET D /\ IsFiniteSet(S) /\ Cardinality(R) = Cardinality(S) - 1
      BY <3>1, FS_Subset, FS_RemoveElement
    <3>3. Cardinality(S) \in Nat /\ Cardinality(R) \in Nat
      BY <3>2, FS_Subset, FS_CardinalityType
    <3>4. rank[R] < rank[S]
      BY <3>2, <3>3
    <3>5. g[R] = h[R]
      BY <3>2, <3>4
    <3>. QED  BY <2>2, <3>5
  <2>. QED  BY <2>1, <2>2
<1>. HIDE DEF n, rank, step
<1>5. PICK g \in [SUBSET D -> Int] : Recurs(g, SUBSET D, step)
  BY <1>1, <1>2, <1>3, <1>4, RecursionExists
<1>6. \A S \in SUBSET D : g[S] = step[<<S, g>>]
  BY <1>5 DEF Recurs
<1>7. \A S \in SUBSET D : step[<<S, g>>] = IF S = {} THEN 0
                           ELSE w[SomeOf(S)] + g[S \ {SomeOf(S)}]
  BY DEF step
<1>8. Adds(g, w, D)
  BY <1>6, <1>7 DEF Adds
<1>. QED  BY <1>8

\* There is only one, whatever set it starts from.
LEMMA AddingIsUnique ==
  ASSUME NEW D, IsFiniteSet(D), NEW E, D \subseteq E, NEW w, NEW v,
         \A x \in D : w[x] = v[x],
         NEW g, NEW h, Adds(g, w, D), Adds(h, v, E)
  PROVE  \A S \in SUBSET D : g[S] = h[S]
<1>. DEFINE n == Cardinality(D)
            T == {m \in 0..n : \A S \in SUBSET D : Cardinality(S) = m => g[S] = h[S]}
<1>1. n \in Nat
  BY FS_CardinalityType
<1>2. 0 \in T
  <2>1. \A S \in SUBSET D : Cardinality(S) = 0 => S = {}
    BY FS_Subset, FS_EmptySet
  <2>2. g[{}] = 0 /\ h[{}] = 0
    BY DEF Adds
  <2>. QED  BY <1>1, <2>1, <2>2
<1>3. ASSUME NEW m \in 1..n, m - 1 \in T PROVE m \in T
  <2>1. ASSUME NEW S \in SUBSET D, Cardinality(S) = m PROVE g[S] = h[S]
    <3>. DEFINE R == S \ {SomeOf(S)}
    <3>1. IsFiniteSet(S) /\ Cardinality({}) # m
      BY FS_Subset, FS_EmptySet
    <3>2. S # {} /\ SomeOf(S) \in S
      BY <2>1, <3>1 DEF SomeOf
    <3>3. Cardinality(R) = m - 1 /\ R \in SUBSET D
      BY <2>1, <3>1, <3>2, FS_RemoveElement
    <3>4. g[R] = h[R]
      BY <1>3, <3>3
    <3>5. w[SomeOf(S)] = v[SomeOf(S)]
      BY <3>2
    <3>6. g[S] = w[SomeOf(S)] + g[R] /\ h[S] = v[SomeOf(S)] + h[R]
      BY <3>2 DEF Adds
    <3>. QED  BY <3>4, <3>5, <3>6, Zenon
  <2>. QED  BY <2>1
<1>. HIDE DEF T
<1>4. \A m \in 0..n : m \in T
  <2>. HIDE DEF n
  <2>. QED  BY <1>1, <1>2, <1>3, Induction
<1>5. \A S \in SUBSET D : Cardinality(S) \in 0..n
  BY FS_Subset, FS_CardinalityType
<1>. QED  BY <1>4, <1>5 DEF T

\* The sum that the modules use is one of these.
LEMMA SumAdds ==
  ASSUME NEW D, IsFiniteSet(D), NEW w, \A x \in D : w[x] \in Int
  PROVE  \E g \in [SUBSET D -> Int] : Adds(g, w, D) /\ SumFunctionOnSet(w, D) = g[D]
<1>. DEFINE Sums(g) == g = [s \in SUBSET D |-> IF s = {} THEN 0
                              ELSE w[SomeOf(s)] + g[s \ {SomeOf(s)}]]
            sum == CHOOSE g : Sums(g)
<1>1. PICK g \in [SUBSET D -> Int] : Adds(g, w, D)
  BY AddingExists
<1>2. \A s \in SUBSET D : g[s] = IF s = {} THEN 0 ELSE w[SomeOf(s)] + g[s \ {SomeOf(s)}]
  BY <1>1 DEF Adds
<1>3. Sums(g)
  BY <1>2
<1>4. Sums(sum)
  BY <1>3
<1>5. SumFunctionOnSet(w, D) = sum[D]
  BY DEF SumFunctionOnSet, FoldFunctionOnSet, MapThenFoldSet, SomeOf
<1>. HIDE DEF sum
<1>6. sum[{}] = 0 /\ DOMAIN sum = SUBSET D
  BY <1>4
<1>7. \A S \in SUBSET D : S # {} => sum[S] = w[SomeOf(S)] + sum[S \ {SomeOf(S)}]
  BY <1>4
<1>8. Adds(sum, w, D)
  BY <1>6, <1>7 DEF Adds
<1>9. g[D] = sum[D]
  BY <1>1, <1>8, AddingIsUnique
<1>. QED  BY <1>1, <1>5, <1>9

\* It does not matter which element is taken first.
AddsAny(g, w, D) == \A S \in SUBSET D : \A x \in S : g[S] = w[x] + g[S \ {x}]

LEMMA AnyFirst ==
  ASSUME NEW D, IsFiniteSet(D), NEW w, \A x \in D : w[x] \in Int,
         NEW g \in [SUBSET D -> Int], Adds(g, w, D)
  PROVE  AddsAny(g, w, D)
<1>. DEFINE n == Cardinality(D)
            T == {m \in 0..n : \A S \in SUBSET D : Cardinality(S) = m =>
                                  \A x \in S : g[S] = w[x] + g[S \ {x}]}
<1>1. n \in Nat
  BY FS_CardinalityType
<1>2. 0 \in T
  <2>1. \A S \in SUBSET D : Cardinality(S) = 0 => S = {}
    BY FS_Subset, FS_EmptySet
  <2>. QED  BY <1>1, <2>1
<1>3. ASSUME NEW m \in 1..n, m - 1 \in T PROVE m \in T
  <2>1. ASSUME NEW S \in SUBSET D, Cardinality(S) = m, NEW x \in S
        PROVE  g[S] = w[x] + g[S \ {x}]
    <3>. DEFINE y == SomeOf(S)
    <3>1. IsFiniteSet(S) /\ y \in S
      BY FS_Subset DEF SomeOf
    <3>2. g[S] = w[y] + g[S \ {y}]
      BY DEF Adds
    <3>. HIDE DEF y
    <3>3. CASE x = y
      BY <3>2, <3>3
    <3>4. CASE x # y
      <4>1. /\ S \ {x} \in SUBSET D /\ y \in S \ {x} /\ Cardinality(S \ {x}) = m - 1
            /\ S \ {y} \in SUBSET D /\ x \in S \ {y} /\ Cardinality(S \ {y}) = m - 1
        BY <2>1, <3>1, <3>4, FS_RemoveElement
      <4>2. /\ g[S \ {y}] = w[x] + g[(S \ {y}) \ {x}]
            /\ g[S \ {x}] = w[y] + g[(S \ {x}) \ {y}]
        BY <1>3, <4>1
      <4>3. (S \ {x}) \ {y} = (S \ {y}) \ {x}
        OBVIOUS
      <4>. DEFINE r == g[(S \ {x}) \ {y}]
      <4>4. r \in Int /\ w[x] \in Int /\ w[y] \in Int
        BY <3>1
      <4>5. g[S \ {y}] = w[x] + r /\ g[S \ {x}] = w[y] + r
        BY <4>2, <4>3
      <4>. HIDE DEF r
      <4>. QED  BY <3>2, <4>4, <4>5
    <3>. QED  BY <3>3, <3>4
  <2>. QED  BY <2>1
<1>. HIDE DEF T
<1>4. \A m \in 0..n : m \in T
  <2>. HIDE DEF n
  <2>. QED  BY <1>1, <1>2, <1>3, Induction
<1>5. \A S \in SUBSET D : Cardinality(S) \in 0..n
  BY FS_Subset, FS_CardinalityType
<1>. QED  BY <1>4, <1>5 DEF T, AddsAny

LEMMA SumFacts ==
  ASSUME NEW D, IsFiniteSet(D), NEW w, \A x \in D : w[x] \in Int
  PROVE  /\ SumFunctionOnSet(w, {}) = 0
         /\ \A S \in SUBSET D :
              /\ SumFunctionOnSet(w, S) \in Int
              /\ \A x \in S : SumFunctionOnSet(w, S) = w[x] + SumFunctionOnSet(w, S \ {x})
<1>1. PICK g \in [SUBSET D -> Int] : Adds(g, w, D)
  BY AddingExists
<1>2. ASSUME NEW S \in SUBSET D PROVE SumFunctionOnSet(w, S) = g[S]
  <2>1. IsFiniteSet(S)
    BY FS_Subset
  <2>2. \A x \in S : w[x] \in Int
    OBVIOUS
  <2>3. PICK h \in [SUBSET S -> Int] : Adds(h, w, S) /\ SumFunctionOnSet(w, S) = h[S]
    BY <2>1, <2>2, SumAdds
  <2>4. \A R \in SUBSET S : h[R] = g[R]
    BY <1>1, <2>1, <2>3, AddingIsUnique
  <2>. QED  BY <2>3, <2>4
<1>3. \A S \in SUBSET D : \A x \in S : g[S] = w[x] + g[S \ {x}]
  <2>1. AddsAny(g, w, D)
    BY <1>1, AnyFirst
  <2>. QED  BY <2>1 DEF AddsAny
<1>4. g[{}] = 0
  BY <1>1 DEF Adds
<1>5. \A S \in SUBSET D : \A x \in S : S \ {x} \in SUBSET D
  OBVIOUS
<1>. HIDE DEF SumFunctionOnSet
<1>. QED  BY <1>1, <1>2, <1>3, <1>4, <1>5

LEMMA SumMore ==
  ASSUME NEW D, IsFiniteSet(D), NEW w, \A x \in D : w[x] \in Int,
         NEW S \in SUBSET D, NEW x \in D \ S
  PROVE  SumFunctionOnSet(w, S \cup {x}) = w[x] + SumFunctionOnSet(w, S)
<1>1. S \cup {x} \in SUBSET D /\ x \in S \cup {x} /\ (S \cup {x}) \ {x} = S
  OBVIOUS
<1>. HIDE DEF SumFunctionOnSet
<1>. QED  BY <1>1, SumFacts

IsPlus(u, v, w, D) == \A x \in D : v[x] \in Int /\ w[x] \in Int /\ u[x] = v[x] + w[x]

LEMMA SumPlus ==
  ASSUME NEW D, IsFiniteSet(D), NEW u, NEW v, NEW w, IsPlus(u, v, w, D)
  PROVE  SumFunctionOnSet(u, D) = SumFunctionOnSet(v, D) + SumFunctionOnSet(w, D)
<1>. USE DEF IsPlus
<1>. DEFINE Sum(f, S) == SumFunctionOnSet(f, S)
            P == {S \in SUBSET D : Sum(u, S) = Sum(v, S) + Sum(w, S)}
<1>1. \A x \in D : u[x] \in Int /\ v[x] \in Int /\ w[x] \in Int
  OBVIOUS
<1>. HIDE DEF Sum
<1>2. Sum(u, {}) = 0 /\ Sum(v, {}) = 0 /\ Sum(w, {}) = 0
  BY <1>1, SumFacts DEF Sum
<1>3. ASSUME NEW S \in SUBSET D, NEW x \in D \ S, S \in P PROVE S \cup {x} \in P
  <2>1. /\ Sum(u, S \cup {x}) = u[x] + Sum(u, S)
        /\ Sum(v, S \cup {x}) = v[x] + Sum(v, S)
        /\ Sum(w, S \cup {x}) = w[x] + Sum(w, S)
    BY <1>1, SumMore DEF Sum
  <2>2. Sum(u, S) \in Int /\ Sum(v, S) \in Int /\ Sum(w, S) \in Int
    BY <1>1, SumFacts DEF Sum
  <2>3. Sum(u, S) = Sum(v, S) + Sum(w, S) /\ u[x] = v[x] + w[x]
    BY <1>3
  <2>. QED  BY <1>1, <2>1, <2>2, <2>3
<1>4. {} \in P
  BY <1>2
<1>. HIDE DEF P
<1>5. D \in P
  BY <1>3, <1>4, GrowingSets
<1>. QED  BY <1>5 DEF P, Sum

IsTimes(u, k, v, D) == \A x \in D : v[x] \in Int /\ u[x] = k * v[x]

LEMMA SumTimes ==
  ASSUME NEW D, IsFiniteSet(D), NEW u, NEW v, NEW k \in Int, IsTimes(u, k, v, D)
  PROVE  SumFunctionOnSet(u, D) = k * SumFunctionOnSet(v, D)
<1>. USE DEF IsTimes
<1>. DEFINE Sum(f, S) == SumFunctionOnSet(f, S)
            P == {S \in SUBSET D : Sum(u, S) = k * Sum(v, S)}
<1>1. \A x \in D : u[x] \in Int /\ v[x] \in Int
  OBVIOUS
<1>. HIDE DEF Sum
<1>2. Sum(u, {}) = 0 /\ Sum(v, {}) = 0
  BY <1>1, SumFacts DEF Sum
<1>3. ASSUME NEW S \in SUBSET D, NEW x \in D \ S, S \in P PROVE S \cup {x} \in P
  <2>1. /\ Sum(u, S \cup {x}) = u[x] + Sum(u, S)
        /\ Sum(v, S \cup {x}) = v[x] + Sum(v, S)
    BY <1>1, SumMore DEF Sum
  <2>2. Sum(v, S) \in Int /\ v[x] \in Int
    BY <1>1, SumFacts DEF Sum
  <2>3. Sum(u, S) = k * Sum(v, S) /\ u[x] = k * v[x]
    BY <1>3
  <2>4. k * (v[x] + Sum(v, S)) = k * v[x] + k * Sum(v, S)
    BY <2>2
  <2>5. Sum(u, S \cup {x}) = k * Sum(v, S \cup {x})
    BY <2>1, <2>3, <2>4
  <2>. QED  BY <2>5
<1>4. {} \in P
  BY <1>2
<1>. HIDE DEF P
<1>5. D \in P
  BY <1>3, <1>4, GrowingSets
<1>. QED  BY <1>5 DEF P, Sum

LEMMA SumSame ==
  ASSUME NEW D, IsFiniteSet(D), NEW u, NEW v,
         \A x \in D : v[x] \in Int /\ u[x] = v[x]
  PROVE  SumFunctionOnSet(u, D) = SumFunctionOnSet(v, D)
<1>1. IsTimes(u, 1, v, D)
  BY DEF IsTimes
<1>2. SumFunctionOnSet(v, D) \in Int
  BY SumFacts
<1>3. SumFunctionOnSet(u, D) = 1 * SumFunctionOnSet(v, D)
  BY <1>1, SumTimes
<1>. QED  BY <1>2, <1>3

LEMMA SumOfNaturals ==
  ASSUME NEW D, IsFiniteSet(D), NEW w, \A x \in D : w[x] \in Nat
  PROVE  SumFunctionOnSet(w, D) \in Nat
<1>. DEFINE P == {S \in SUBSET D : SumFunctionOnSet(w, S) \in Nat}
<1>1. \A x \in D : w[x] \in Int
  OBVIOUS
<1>. HIDE DEF SumFunctionOnSet
<1>2. {} \in P
  BY <1>1, SumFacts
<1>3. ASSUME NEW S \in SUBSET D, NEW x \in D \ S, S \in P PROVE S \cup {x} \in P
  <2>1. SumFunctionOnSet(w, S \cup {x}) = w[x] + SumFunctionOnSet(w, S)
    BY <1>1, SumMore
  <2>. QED  BY <1>3, <2>1
<1>. HIDE DEF P
<1>4. D \in P
  BY <1>2, <1>3, GrowingSets
<1>. QED  BY <1>4 DEF P

\* Where w is zero it adds nothing.
LEMMA SumOfPart ==
  ASSUME NEW D, IsFiniteSet(D), NEW w, \A x \in D : w[x] \in Int,
         NEW R \in SUBSET D, \A x \in D \ R : w[x] = 0
  PROVE  SumFunctionOnSet(w, R) = SumFunctionOnSet(w, D)
<1>. DEFINE P == {S \in SUBSET D : SumFunctionOnSet(w, S \cap R) = SumFunctionOnSet(w, S)}
<1>. HIDE DEF SumFunctionOnSet
<1>1. {} \in P
  OBVIOUS
<1>2. ASSUME NEW S \in SUBSET D, NEW x \in D \ S, S \in P PROVE S \cup {x} \in P
  <2>1. SumFunctionOnSet(w, S \cup {x}) = w[x] + SumFunctionOnSet(w, S)
    BY SumMore
  <2>2. SumFunctionOnSet(w, S) \in Int
    BY SumFacts
  <2>3. CASE x \in R
    <3>1. (S \cup {x}) \cap R = (S \cap R) \cup {x} /\ S \cap R \in SUBSET D
          /\ x \in D \ (S \cap R)
      BY <2>3
    <3>2. SumFunctionOnSet(w, (S \cap R) \cup {x}) = w[x] + SumFunctionOnSet(w, S \cap R)
      BY <3>1, SumMore
    <3>. QED  BY <1>2, <2>1, <3>1, <3>2
  <2>4. CASE x \notin R
    <3>1. (S \cup {x}) \cap R = S \cap R /\ w[x] = 0
      BY <2>4
    <3>2. SumFunctionOnSet(w, S \cup {x}) = SumFunctionOnSet(w, S)
      BY <2>1, <2>2, <3>1
    <3>. QED  BY <1>2, <3>1, <3>2
  <2>. QED  BY <2>3, <2>4
<1>. HIDE DEF P
<1>3. D \in P
  BY <1>1, <1>2, GrowingSets
<1>4. D \cap R = R
  OBVIOUS
<1>. QED  BY <1>3, <1>4 DEF P

\* A sum over pairs, by rows and by columns.
Row(m, a, B) == [b \in B |-> m[<<a, b>>]]
Column(m, b, A) == [a \in A |-> m[<<a, b>>]]
RowSums(m, A, B) == [a \in A |-> SumFunctionOnSet(Row(m, a, B), B)]
ColumnSums(m, A, B, S) == [b \in B |-> SumFunctionOnSet(Column(m, b, A), S)]

LEMMA SumsOfSums ==
  ASSUME NEW A, IsFiniteSet(A), NEW B, IsFiniteSet(B), NEW m \in [A \X B -> Int]
  PROVE  SumFunctionOnSet(RowSums(m, A, B), A) = SumFunctionOnSet(ColumnSums(m, A, B, A), B)
<1>. DEFINE rows == RowSums(m, A, B)
            columns(S) == ColumnSums(m, A, B, S)
            P == {S \in SUBSET A : SumFunctionOnSet(rows, S) = SumFunctionOnSet(columns(S), B)}
<1>. HIDE DEF SumFunctionOnSet
<1>1. \A a \in A : \A b \in B : Row(m, a, B)[b] = m[<<a, b>>] /\ m[<<a, b>>] \in Int
                               /\ Column(m, b, A)[a] = m[<<a, b>>]
  BY DEF Row, Column
<1>2. \A a \in A : rows[a] = SumFunctionOnSet(Row(m, a, B), B) /\ rows[a] \in Int
  <2>. SUFFICES ASSUME NEW a \in A PROVE SumFunctionOnSet(Row(m, a, B), B) \in Int
    BY DEF RowSums
  <2>. DEFINE row == Row(m, a, B)
  <2>1. \A b \in B : row[b] \in Int
    BY <1>1
  <2>. HIDE DEF row
  <2>2. SumFunctionOnSet(row, B) \in Int
    BY <2>1, SumFacts
  <2>. QED  BY <2>2 DEF row
<1>3. ASSUME NEW S \in SUBSET A, NEW b \in B
      PROVE  /\ columns(S)[b] = SumFunctionOnSet(Column(m, b, A), S) /\ columns(S)[b] \in Int
             /\ columns({})[b] = 0
             /\ \A a \in A \ S : columns(S \cup {a})[b] = Row(m, a, B)[b] + columns(S)[b]
  <2>. DEFINE column == Column(m, b, A)
  <2>1. \A a \in A : column[a] \in Int /\ column[a] = Row(m, a, B)[b]
    BY <1>1
  <2>2. \A R : columns(R)[b] = SumFunctionOnSet(column, R)
    BY DEF ColumnSums
  <2>. HIDE DEF column, columns
  <2>3. SumFunctionOnSet(column, {}) = 0 /\ SumFunctionOnSet(column, S) \in Int
    BY <2>1, SumFacts
  <2>4. \A a \in A \ S :
          SumFunctionOnSet(column, S \cup {a}) = column[a] + SumFunctionOnSet(column, S)
    BY <2>1, SumMore
  <2>. QED  BY <2>1, <2>2, <2>3, <2>4 DEF column
<1>. HIDE DEF rows, columns
<1>4. {} \in P
  <2>1. SumFunctionOnSet(rows, {}) = 0
    BY <1>2, SumFacts
  <2>. DEFINE none == columns({})
  <2>2. IsTimes(none, 0, none, B) /\ \A b \in B : none[b] \in Int
    BY <1>3 DEF IsTimes
  <2>. HIDE DEF none
  <2>3. SumFunctionOnSet(none, B) = 0 * SumFunctionOnSet(none, B)
    BY <2>2, SumTimes
  <2>4. SumFunctionOnSet(none, B) \in Int
    BY <2>2, SumFacts
  <2>5. SumFunctionOnSet(none, B) = 0
    BY <2>3, <2>4
  <2>. QED  BY <2>1, <2>5 DEF none
<1>5. ASSUME NEW S \in SUBSET A, NEW a \in A \ S, S \in P PROVE S \cup {a} \in P
  <2>. DEFINE row == Row(m, a, B)
              fewer == columns(S)
              more == columns(S \cup {a})
  <2>1. SumFunctionOnSet(rows, S \cup {a}) = rows[a] + SumFunctionOnSet(rows, S)
    BY <1>2, SumMore
  <2>2. IsPlus(more, row, fewer, B)
    BY <1>1, <1>3 DEF IsPlus
  <2>3. rows[a] = SumFunctionOnSet(row, B) /\ SumFunctionOnSet(rows, S) = SumFunctionOnSet(fewer, B)
    BY <1>2, <1>5
  <2>. HIDE DEF row, fewer, more
  <2>4. SumFunctionOnSet(more, B) = SumFunctionOnSet(row, B) + SumFunctionOnSet(fewer, B)
    BY <2>2, SumPlus
  <2>5. SumFunctionOnSet(rows, S \cup {a}) = SumFunctionOnSet(more, B)
    BY <2>1, <2>3, <2>4
  <2>. QED  BY <2>5 DEF more
<1>. HIDE DEF P
<1>6. A \in P
  BY <1>4, <1>5, GrowingSets
<1>. QED  BY <1>6 DEF P, rows, columns

-----------------------------------------------------------------------------
(* How blifFanout splits a net.                                             *)
LEMMA PowerFacts ==
  ASSUME NEW b \in Nat, NEW n \in Nat
  PROVE  /\ Power(b, 0) = 1
         /\ \A i \in 0..n : Power(b, i) \in Nat
         /\ \A i \in 1..n : Power(b, i) = b * Power(b, i - 1)
<1>. DEFINE times == [p \in (1..n) \X Nat |-> b * p[2]]
            IsPower(g, k) == g = [i \in 0..k |-> IF i = 0 THEN 1 ELSE b * g[i - 1]]
<1>1. times \in [(1..n) \X Nat -> Nat]
  OBVIOUS
<1>. HIDE DEF times
<1>2. PICK g \in [0..n -> Nat] : Iterates(g, n, 1, times)
  BY <1>1, IterationExists
<1>3. \A i \in 1..n : g[i] = b * g[i - 1]
  <2>. SUFFICES ASSUME NEW i \in 1..n PROVE g[i] = b * g[i - 1]
    OBVIOUS
  <2>1. g[i - 1] \in Nat
    BY <1>2
  <2>2. g[i] = times[<<i, g[i - 1]>>]
    BY <1>2 DEF Iterates
  <2>. QED  BY <2>1, <2>2 DEF times
<1>4. g[0] = 1
  BY <1>2 DEF Iterates
<1>5. ASSUME NEW k \in 0..n PROVE Power(b, k) = g[k]
  <2>. DEFINE h == CHOOSE h : IsPower(h, k)
              e == [i \in 0..k |-> g[i]]
              mult == [p \in (1..k) \X Nat |-> b * p[2]]
  <2>1. k \in Nat /\ k \in 0..k /\ Power(b, k) = h[k]
    BY DEF Power
  <2>2. \A i \in 0..k : e[i] = IF i = 0 THEN 1 ELSE b * e[i - 1]
    BY <1>3, <1>4
  <2>3. IsPower(e, k)
    BY <2>2
  <2>4. IsPower(h, k)
    BY <2>3
  <2>. HIDE DEF h
  <2>. DEFINE T == {i \in 0..k : h[i] = g[i]}
  <2>5. 0 \in T
    BY <1>4, <2>4
  <2>6. ASSUME NEW i \in 1..k, i - 1 \in T PROVE i \in T
    <3>1. h[i] = b * h[i - 1] /\ g[i] = b * g[i - 1]
      BY <1>3, <2>4
    <3>. QED  BY <2>6, <3>1
  <2>. HIDE DEF T
  <2>7. \A i \in 0..k : i \in T
    BY <2>1, <2>5, <2>6, Induction
  <2>. QED  BY <2>1, <2>7 DEF T
<1>6. \A i \in 1..n : i \in 0..n /\ i - 1 \in 0..n
  OBVIOUS
<1>7. 0 \in 0..n
  OBVIOUS
<1>. HIDE DEF Power
<1>. QED  BY <1>2, <1>3, <1>4, <1>5, <1>6, <1>7

LEMMA PowerGrows ==
  ASSUME NEW b \in Nat, NEW n \in Nat
  PROVE  /\ b >= 2 => Power(b, n) > n
         /\ b >= 1 => Power(b, n) >= 1
         /\ b = 1 => Power(b, n) = 1
         /\ \A c \in 0..b : Power(c, n) <= Power(b, n)
<1>. HIDE DEF Power
<1>. DEFINE T == {i \in 0..n : /\ b >= 2 => Power(b, i) > i
                               /\ b >= 1 => Power(b, i) >= 1
                               /\ b = 1 => Power(b, i) = 1
                               /\ \A c \in 0..b : Power(c, i) <= Power(b, i)}
<1>1. 0 \in T
  <2>1. Power(b, 0) = 1 /\ \A c \in 0..b : Power(c, 0) = 1
    BY PowerFacts
  <2>. QED  BY <2>1
<1>2. ASSUME NEW i \in 1..n, i - 1 \in T PROVE i \in T
  <2>. DEFINE p == Power(b, i - 1)
  <2>1. p \in Nat /\ Power(b, i) = b * p
    BY PowerFacts
  <2>2. /\ b >= 2 => p > i - 1
        /\ b >= 1 => p >= 1
        /\ b = 1 => p = 1
    BY <1>2
  <2>3. b >= 2 => b * p > i
    <3>1. b >= 2 => b * p >= 2 * p
      BY <2>1
    <3>. HIDE DEF p
    <3>. QED  BY <2>1, <2>2, <3>1
  <2>4. b >= 1 => b * p >= 1
    <3>. HIDE DEF p
    <3>1. b >= 1 /\ p >= 1 => b * p >= 1
      BY <2>1
    <3>. QED  BY <2>2, <3>1
  <2>5. b = 1 => b * p = 1
    BY <2>1, <2>2
  <2>6. ASSUME NEW c \in 0..b PROVE Power(c, i) <= b * p
    <3>. DEFINE q == Power(c, i - 1)
    <3>1. q \in Nat /\ Power(c, i) = c * q /\ q <= p
      BY <1>2, PowerFacts
    <3>2. c * q <= c * p /\ c * p <= b * p
      <4>. HIDE DEF p, q
      <4>. QED  BY <2>1, <3>1
    <3>3. c * q \in Int /\ c * p \in Int /\ b * p \in Int
      BY <2>1, <3>1
    <3>. QED  BY <3>1, <3>2, <3>3
  <2>. HIDE DEF p
  <2>. QED  BY <2>1, <2>3, <2>4, <2>5, <2>6
<1>. HIDE DEF T
<1>3. n \in T
  BY <1>1, <1>2, Induction
<1>. QED  BY <1>3 DEF T

LEMMA StagesFacts ==
  ASSUME NEW N \in Nat, TooLarge(N)
  PROVE  Stages(N) \in 2..(N + 1)
<1>. HIDE DEF Power
<1>. DEFINE Enough(k) == ~TooLarge(N \div Power(MaxFanout, k))
            K == {k \in Nat \ {0} : Enough(k)}
<1>1. MaxFanout \in Nat /\ MaxFanout >= 2 /\ N > MaxFanout
  BY MaxFanoutAssumption DEF TooLarge
<1>2. N \in K
  <2>0. Power(MaxFanout, N) > N
    BY <1>1, PowerGrows
  <2>1. Power(MaxFanout, N) > N /\ Power(MaxFanout, N) \in Nat
    <3>1. N \in 0..N
      OBVIOUS
    <3>. QED  BY <1>1, <2>0, <3>1, PowerFacts
  <2>2. N \div Power(MaxFanout, N) = 0
    BY <2>1
  <2>3. ~(N \div Power(MaxFanout, N) > MaxFanout)
    BY <1>1, <2>2
  <2>. QED  BY <1>1, <2>3 DEF TooLarge
<1>. HIDE DEF Enough
<1>3. PICK k \in K : \A j \in K : k <= j
  <2>1. K \subseteq Nat /\ K # {}
    BY <1>2
  <2>. HIDE DEF K
  <2>. QED  BY <2>1, LeastNumber
<1>4. k \in 1..N /\ Enough(k)
  BY <1>2, <1>3
<1>5. \A j \in 1..(k - 1) : ~Enough(j)
  BY <1>3, <1>4
<1>6. (CHOOSE i \in 1..N : Enough(i) /\ \A j \in 1..(i - 1) : ~Enough(j)) \in 1..N
  BY <1>4, <1>5
<1>7. \A j : ~Enough(j) <=> TooLarge(N \div Power(MaxFanout, j))
  BY DEF Enough
<1>8. Stages(N) = 1 + (CHOOSE i \in 1..N : Enough(i) /\ \A j \in 1..(i - 1) : ~Enough(j))
  BY DEF Stages, Enough
<1>. HIDE DEF Enough
<1>. QED  BY <1>6, <1>8

\* There is an integer root, and it is neither 0 nor more than N.
LEMMA NumBufFacts ==
  ASSUME NEW N \in Nat, TooLarge(N)
  PROVE  NumBuf(N) \in 1..N
<1>. HIDE DEF Power, Stages
<1>. DEFINE s == Stages(N)
            P == Power(N, s - 1)
            Root(n) == Power(n, s) <= P /\ P < Power(n + 1, s)
            R == {n \in Nat : P < Power(n + 1, s)}
<1>1. s \in Nat /\ s >= 2 /\ s - 1 \in Nat /\ N \in Nat /\ N >= 1
  BY StagesFacts, MaxFanoutAssumption DEF TooLarge
<1>. HIDE DEF s
<1>2. P \in Nat /\ P >= 1
  BY <1>1, PowerFacts, PowerGrows
<1>. HIDE DEF P
<1>3. N \in R
  <2>. DEFINE M == N + 1
              q == Power(M, s - 1)
  <2>1. M \in Nat /\ M >= 2 /\ N \in 0..M
    BY <1>1
  <2>. HIDE DEF M
  <2>2. q \in Nat /\ Power(M, s) = M * q
    BY <1>1, <2>1, PowerFacts
  <2>3. P <= q
    BY <1>1, <2>1, PowerGrows DEF P
  <2>. HIDE DEF q
  <2>4. M * q >= 2 * q
    BY <2>1, <2>2
  <2>5. P < M * q
    BY <1>2, <2>1, <2>2, <2>3, <2>4
  <2>. QED  BY <1>1, <2>2, <2>5 DEF M
<1>4. PICK n \in R : \A m \in R : n <= m
  <2>1. R \subseteq Nat /\ R # {}
    BY <1>3
  <2>. HIDE DEF R
  <2>. QED  BY <2>1, LeastNumber
<1>5. n # 0
  <2>1. Power(1, s) = 1
    BY <1>1, PowerGrows
  <2>2. 0 \notin R
    BY <1>2, <2>1
  <2>. QED  BY <1>4, <2>2
<1>6. n \in 1..N
  BY <1>3, <1>4, <1>5
<1>7. n - 1 \notin R
  BY <1>4, <1>6
<1>8. Power(n, s) <= P
  <2>1. n - 1 \in Nat /\ (n - 1) + 1 = n
    BY <1>6
  <2>2. ~(P < Power(n, s))
    BY <1>7, <2>1
  <2>3. Power(n, s) \in Nat
    <3>1. n \in Nat /\ s \in 0..s
      BY <1>1
    <3>. QED  BY <1>1, <3>1, PowerFacts
  <2>. QED  BY <1>2, <2>2, <2>3
<1>9. Root(n)
  BY <1>4, <1>8
<1>10. NumBuf(N) = CHOOSE m \in 1..N : Root(m)
  BY DEF NumBuf, s, P
<1>. HIDE DEF Root
<1>. QED  BY <1>6, <1>9, <1>10

LEMMA InputsByCases ==
  ASSUME NEW N \in Nat, TooLarge(N), NEW z \in Nat
  PROVE  InputsOf(N, z) = IF z = N \div NumBuf(N) THEN NumBuf(N) - (N % NumBuf(N))
                          ELSE IF z = N \div NumBuf(N) + 1 THEN N % NumBuf(N) ELSE 0
<1>. DEFINE n == NumBuf(N)
            q == N \div n
<1>1. n \in 1..N
  BY NumBufFacts
<1>2. InputsOf(N, z) = CASE z = q     -> n - (N % n)
                         [] z = q + 1 -> N % n
                         [] OTHER     -> 0
  BY DEF InputsOf
<1>. HIDE DEF n
<1>3. q \in Nat
  BY <1>1
<1>4. q # q + 1
  BY <1>3
<1>. HIDE DEF q
<1>5. CASE z = q
  BY <1>2, <1>4, <1>5 DEF n, q
<1>6. CASE z = q + 1
  BY <1>2, <1>4, <1>6 DEF n, q
<1>7. CASE z # q /\ z # q + 1
  BY <1>2, <1>7 DEF n, q
<1>. QED  BY <1>5, <1>6, <1>7

LEMMA NetsFromType ==
  ASSUME NEW N \in Nat, NEW z \in Nat
  PROVE  NetsFrom(N, z) \in Nat /\ (z \notin SizesFrom(N) => NetsFrom(N, z) = 0)
<1>1. CASE ~TooLarge(N)
  BY <1>1 DEF NetsFrom, SizesFrom
<1>2. CASE TooLarge(N)
  <2>. DEFINE n == NumBuf(N)
  <2>1. n \in 1..N
    BY <1>2, NumBufFacts
  <2>2. SizesFrom(N) = {n, N \div n, N \div n + 1}
    BY <1>2 DEF SizesFrom
  <2>3. NetsFrom(N, z) = InputsOf(N, z) + (IF z = n THEN 1 ELSE 0)
    BY <1>2 DEF NetsFrom
  <2>4. InputsOf(N, z) = IF z = N \div n THEN n - (N % n) ELSE IF z = N \div n + 1 THEN N % n ELSE 0
    BY <1>2, InputsByCases
  <2>. HIDE DEF n
  <2>5. N % n \in 0..(n - 1) /\ N \div n \in Nat
    BY <2>1
  <2>6. InputsOf(N, z) \in Nat
    BY <2>1, <2>4, <2>5
  <2>. QED  BY <2>2, <2>3, <2>4, <2>5, <2>6
<1>. QED  BY <1>1, <1>2

LEMMA SizesFromType ==
  ASSUME NEW N \in Nat
  PROVE  SizesFrom(N) \subseteq Nat /\ IsFiniteSet(SizesFrom(N))
<1>1. CASE ~TooLarge(N)
  <2>1. SizesFrom(N) = {N}
    BY <1>1 DEF SizesFrom
  <2>. QED  BY <2>1, FS_Singleton
<1>2. CASE TooLarge(N)
  <2>. DEFINE n == NumBuf(N)
              q == N \div n
  <2>1. n \in 1..N
    BY <1>2, NumBufFacts
  <2>2. SizesFrom(N) = ({n} \cup {q}) \cup {q + 1}
    BY <1>2 DEF SizesFrom
  <2>. HIDE DEF n
  <2>3. q \in Nat
    BY <2>1
  <2>4. IsFiniteSet({n})
    BY FS_Singleton
  <2>. HIDE DEF q
  <2>5. IsFiniteSet({n} \cup {q})
    BY <2>4, FS_AddElement
  <2>6. IsFiniteSet(({n} \cup {q}) \cup {q + 1})
    BY <2>5, FS_AddElement
  <2>. QED  BY <2>1, <2>2, <2>3, <2>6
<1>. QED  BY <1>1, <1>2

LEMMA OneElement ==
  ASSUME NEW D, IsFiniteSet(D), NEW w, \A x \in D : w[x] \in Int,
         NEW y \in D, \A x \in D : y # x => w[x] = 0
  PROVE  SumFunctionOnSet(w, D) = w[y]
<1>. HIDE DEF SumFunctionOnSet
<1>1. {y} \in SUBSET D /\ \A x \in D \ {y} : w[x] = 0
  OBVIOUS
<1>2. SumFunctionOnSet(w, {y}) = SumFunctionOnSet(w, D)
  BY <1>1, SumOfPart
<1>3. {y} \ {y} = {} /\ SumFunctionOnSet(w, {}) = 0
  BY SumFacts
<1>4. SumFunctionOnSet(w, {y}) = w[y] + SumFunctionOnSet(w, {y} \ {y})
  BY <1>1, SumFacts
<1>5. SumFunctionOnSet(w, {y}) = w[y] + 0
  BY <1>3, <1>4
<1>6. w[y] \in Int
  OBVIOUS
<1>7. w[y] + 0 = w[y]
  BY <1>6
<1>. QED  BY <1>2, <1>5, <1>7

\* Of the nets that come from one, each buffer's input is one input too many.
LEMMA SplitKeepsSinks ==
  ASSUME NEW N \in Nat, NEW Z, IsFiniteSet(Z), Z \subseteq Nat, SizesFrom(N) \subseteq Z
  PROVE  SumFunctionOnSet([z \in Z |-> NetsFrom(N, z) * (z - 1)], Z) = N - 1
<1>. DEFINE w == [z \in Z |-> NetsFrom(N, z) * (z - 1)]
<1>0. \A z \in Z : z \in Nat
  OBVIOUS
<1>1. CASE ~TooLarge(N)
  <2>1. N \in Z
    BY <1>1 DEF SizesFrom
  <2>2. \A z \in Z : w[z] = IF z = N THEN N - 1 ELSE 0
    BY <1>0, <1>1 DEF NetsFrom
  <2>. HIDE DEF w
  <2>3. /\ \A z \in Z : w[z] \in Int
        /\ \A z \in Z : N # z => w[z] = 0
    BY <2>2
  <2>. HIDE DEF SumFunctionOnSet
  <2>4. SumFunctionOnSet(w, Z) = w[N]
    BY <2>1, <2>3, OneElement
  <2>. QED  BY <2>1, <2>2, <2>4 DEF w
<1>2. CASE TooLarge(N)
  <2>. DEFINE n == NumBuf(N)
              q == N \div n
              r == N % n
              few == [z \in Z |-> IF z = q THEN (n - r) * (q - 1) ELSE 0]
              many == [z \in Z |-> IF z = q + 1 THEN r * q ELSE 0]
              buffers == [z \in Z |-> IF z = n THEN n - 1 ELSE 0]
              ends == [z \in Z |-> few[z] + many[z]]
  <2>1. n \in 1..N
    BY <1>2, NumBufFacts
  <2>2. n \in Z /\ q \in Z /\ q + 1 \in Z
    BY <1>2 DEF SizesFrom
  <2>3. \A z \in Z : NetsFrom(N, z) = (IF z = q THEN n - r ELSE IF z = q + 1 THEN r ELSE 0)
                                       + (IF z = n THEN 1 ELSE 0)
    BY <1>2, InputsByCases DEF NetsFrom
  <2>. HIDE DEF n
  <2>4. n \in Int /\ q \in Int /\ r \in Int /\ N = (n * q) + r
    BY <2>1
  <2>. HIDE DEF q, r
  <2>5. /\ \A z \in Z : few[z] \in Int /\ many[z] \in Int /\ buffers[z] \in Int /\ ends[z] \in Int
        /\ \A z \in Z : ends[z] = few[z] + many[z]
    BY <2>4
  <2>6. \A z \in Z : w[z] = ends[z] + buffers[z]
    <3>. SUFFICES ASSUME NEW z \in Z PROVE NetsFrom(N, z) * (z - 1) = ends[z] + buffers[z]
      OBVIOUS
    <3>1. z \in Int
      BY <1>0
    <3>. DEFINE i == IF z = q THEN n - r ELSE IF z = q + 1 THEN r ELSE 0
                j == IF z = n THEN 1 ELSE 0
    <3>2. i \in Int /\ j \in Int /\ NetsFrom(N, z) = i + j
      BY <2>3, <2>4
    <3>3. i * (z - 1) = ends[z]
      BY <2>4, <3>1
    <3>4. j * (z - 1) = buffers[z]
      BY <2>4, <3>1
    <3>. HIDE DEF i, j
    <3>5. (i + j) * (z - 1) = (i * (z - 1)) + (j * (z - 1))
      BY <3>1, <3>2
    <3>. QED  BY <3>2, <3>3, <3>4, <3>5
  <2>7. few[q] = (n - r) * (q - 1) /\ many[q + 1] = r * q /\ buffers[n] = n - 1
    BY <2>2
  <2>8. /\ \A z \in Z : q # z => few[z] = 0
        /\ \A z \in Z : q + 1 # z => many[z] = 0
        /\ \A z \in Z : n # z => buffers[z] = 0
    OBVIOUS
  <2>. HIDE DEF w, few, many, buffers, ends, SumFunctionOnSet
  <2>17. IsPlus(ends, few, many, Z)
    BY <2>5 DEF IsPlus
  <2>18. IsPlus(w, ends, buffers, Z)
    BY <2>5, <2>6 DEF IsPlus
  <2>9. SumFunctionOnSet(few, Z) = (n - r) * (q - 1)
    BY <2>2, <2>5, <2>7, <2>8, OneElement
  <2>10. SumFunctionOnSet(many, Z) = r * q
    BY <2>2, <2>5, <2>7, <2>8, OneElement
  <2>11. SumFunctionOnSet(buffers, Z) = n - 1
    BY <2>2, <2>5, <2>7, <2>8, OneElement
  <2>12. SumFunctionOnSet(ends, Z) = SumFunctionOnSet(few, Z) + SumFunctionOnSet(many, Z)
    BY <2>17, SumPlus
  <2>13. SumFunctionOnSet(w, Z) = SumFunctionOnSet(ends, Z) + SumFunctionOnSet(buffers, Z)
    BY <2>18, SumPlus
  <2>14. (n - r) * (q - 1) = (n * q) - n - (r * q) + r
    BY <2>4
  <2>15. r * q \in Int /\ n * q \in Int
    BY <2>4
  <2>16. SumFunctionOnSet(w, Z) = ((n * q) - n - (r * q) + r) + (r * q) + (n - 1)
    BY <2>9, <2>10, <2>11, <2>12, <2>13, <2>14
  <2>. QED  BY <2>4, <2>15, <2>16 DEF w
<1>. QED  BY <1>1, <1>2

LEMMA SizesType ==
  ASSUME NEW n, IsNetlist(n)
  PROVE  /\ IsFiniteSet(Sizes(n)) /\ Sizes(n) \subseteq Nat
         /\ \A N \in Fanouts(n) : SizesFrom(N) \subseteq Sizes(n)
         /\ \A z \in Nat : NetsOf(n, z) \in Nat
<1>. DEFINE A == Fanouts(n)
<1>1. IsFiniteSet(A) /\ A \subseteq Nat /\ \A N \in A : N \in Nat /\ n[N] \in Nat
  BY DEF IsNetlist
<1>. HIDE DEF A
<1>. DEFINE sizes(S) == UNION {SizesFrom(N) : N \in S}
            P == {S \in SUBSET A : IsFiniteSet(sizes(S))}
<1>3. \A N \in A : SizesFrom(N) \subseteq Nat /\ IsFiniteSet(SizesFrom(N))
  BY <1>1, SizesFromType
<1>4. IsFiniteSet(UNION {SizesFrom(N) : N \in A})
  <2>1. {} \in P
    <3>1. sizes({}) = {}
      OBVIOUS
    <3>. QED  BY <3>1, FS_EmptySet
  <2>2. ASSUME NEW S \in SUBSET A, NEW N \in A \ S, S \in P PROVE S \cup {N} \in P
    <3>1. sizes(S \cup {N}) = sizes(S) \cup SizesFrom(N)
      OBVIOUS
    <3>2. IsFiniteSet(sizes(S)) /\ IsFiniteSet(SizesFrom(N))
      BY <1>3, <2>2
    <3>. HIDE DEF sizes
    <3>3. IsFiniteSet(sizes(S) \cup SizesFrom(N))
      BY <3>2, FS_Union
    <3>. QED  BY <3>1, <3>3
  <2>. HIDE DEF P
  <2>3. A \in P
    BY <1>1, <2>1, <2>2, GrowingSets
  <2>. QED  BY <2>3 DEF P
<1>5. UNION {SizesFrom(N) : N \in A} \subseteq Nat
  BY <1>3
<1>6. \A N \in A : SizesFrom(N) \subseteq UNION {SizesFrom(M) : M \in A}
  OBVIOUS
<1>7. ASSUME NEW z \in Nat PROVE NetsOf(n, z) \in Nat
  <2>. DEFINE f == [N \in A |-> n[N] * NetsFrom(N, z)]
  <2>1. \A N \in A : f[N] \in Nat
    <3>1. \A N \in A : NetsFrom(N, z) \in Nat
      BY <1>1, NetsFromType
    <3>. QED  BY <1>1, <3>1
  <2>2. NetsOf(n, z) = SumFunctionOnSet(f, A)
    BY DEF NetsOf, SumFunction, A
  <2>. HIDE DEF f, SumFunctionOnSet
  <2>. QED  BY <1>1, <2>1, <2>2, SumOfNaturals
<1>. QED  BY <1>4, <1>5, <1>6, <1>7 DEF Sizes, A

\* One pass makes a netlist of a netlist, and neither loses nor adds an input.
LEMMA BufferingKeepsSinks ==
  ASSUME NEW n, IsNetlist(n)
  PROVE  IsNetlist(Buffered(n)) /\ Sinks(Buffered(n)) = Sinks(n)
<1>. DEFINE A == Fanouts(n)
            Z == Sizes(n)
            R == {z \in Z : NetsOf(n, z) > 0}
            b == [z \in R |-> NetsOf(n, z)]
            c == [z \in Z |-> NetsOf(n, z) * (z - 1)]
            m == [p \in A \X Z |-> n[p[1]] * (NetsFrom(p[1], p[2]) * (p[2] - 1))]
<1>1. IsFiniteSet(A) /\ A \subseteq Nat /\ \A N \in A : N \in Nat /\ n[N] \in Nat
  BY DEF IsNetlist
<1>2. /\ IsFiniteSet(Z) /\ Z \subseteq Nat /\ \A N \in A : SizesFrom(N) \subseteq Z
      /\ \A z \in Z : z \in Nat /\ NetsOf(n, z) \in Nat
  BY SizesType
<1>3. Buffered(n) = b
  BY DEF Buffered
<1>. HIDE DEF A, Z
<1>4. IsNetlist(b)
  <2>1. IsFiniteSet(R) /\ R \subseteq Nat
    BY <1>2, FS_Subset
  <2>2. b \in [R -> Nat \ {0}]
    <3>1. \A z \in R : NetsOf(n, z) \in Nat \ {0}
      BY <1>2
    <3>. HIDE DEF R
    <3>. QED  BY <3>1
  <2>. QED  BY <2>1, <2>2 DEF IsNetlist, Fanouts
<1>5. \A N \in A : \A z \in Z : NetsFrom(N, z) \in Nat
  BY <1>1, <1>2, NetsFromType
<1>6. m \in [A \X Z -> Int]
  <2>. SUFFICES ASSUME NEW N \in A, NEW z \in Z
                PROVE  n[N] * (NetsFrom(N, z) * (z - 1)) \in Int
    OBVIOUS
  <2>. QED  BY <1>1, <1>2, <1>5
<1>7. Sinks(b) = SumFunctionOnSet(c, Z)
  <2>. DEFINE d == [z \in R |-> b[z] * (z - 1)]
  <2>1. Sinks(b) = SumFunctionOnSet(d, R)
    BY DEF Sinks, Fanouts, SumFunction
  <2>2. \A z \in R : c[z] \in Int /\ d[z] = c[z]
    BY <1>2
  <2>3. \A z \in Z : c[z] \in Int
    BY <1>2
  <2>4. \A z \in Z \ R : c[z] = 0
    <3>1. \A z \in Z \ R : NetsOf(n, z) = 0 /\ z - 1 \in Int
      BY <1>2
    <3>. QED  BY <3>1
  <2>5. IsFiniteSet(R) /\ R \in SUBSET Z
    BY <1>2, FS_Subset
  <2>. HIDE DEF b, c, d, R, SumFunctionOnSet
  <2>6. SumFunctionOnSet(d, R) = SumFunctionOnSet(c, R)
    BY <2>2, <2>5, SumSame
  <2>7. SumFunctionOnSet(c, R) = SumFunctionOnSet(c, Z)
    BY <1>2, <2>3, <2>4, <2>5, SumOfPart
  <2>. QED  BY <2>1, <2>6, <2>7
<1>8. c = ColumnSums(m, A, Z, A)
  <2>. SUFFICES ASSUME NEW z \in Z
                PROVE  NetsOf(n, z) * (z - 1) = SumFunctionOnSet(Column(m, z, A), A)
    BY DEF ColumnSums
  <2>. DEFINE v == [N \in A |-> n[N] * NetsFrom(N, z)]
              k == z - 1
              u == Column(m, z, A)
  <2>1. k \in Int /\ NetsOf(n, z) \in Int
    BY <1>2
  <2>2. NetsOf(n, z) = SumFunctionOnSet(v, A)
    BY DEF NetsOf, SumFunction, A
  <2>3. ASSUME NEW N \in A PROVE v[N] \in Int /\ u[N] = k * v[N]
    <3>. DEFINE x == n[N]
                y == NetsFrom(N, z)
    <3>1. x \in Int /\ y \in Int
      BY <1>1, <1>5
    <3>2. v[N] = x * y /\ u[N] = x * (y * k)
      BY DEF Column
    <3>. HIDE DEF x, y, k, u, v
    <3>3. x * y \in Int /\ x * (y * k) = k * (x * y)
      BY <2>1, <3>1
    <3>. QED  BY <3>2, <3>3
  <2>. HIDE DEF u, v, k, SumFunctionOnSet
  <2>4. IsTimes(u, k, v, A)
    BY <2>3 DEF IsTimes
  <2>5. SumFunctionOnSet(u, A) = k * SumFunctionOnSet(v, A)
    BY <1>1, <2>1, <2>4, SumTimes
  <2>6. NetsOf(n, z) * k = k * NetsOf(n, z)
    BY <2>1
  <2>. QED  BY <2>2, <2>5, <2>6 DEF u, k
<1>9. [N \in A |-> n[N] * (N - 1)] = RowSums(m, A, Z)
  <2>. SUFFICES ASSUME NEW N \in A
                PROVE  n[N] * (N - 1) = SumFunctionOnSet(Row(m, N, Z), Z)
    BY DEF RowSums
  <2>. DEFINE w == [z \in Z |-> NetsFrom(N, z) * (z - 1)]
              u == Row(m, N, Z)
              k == n[N]
  <2>1. k \in Int /\ N \in Nat
    BY <1>1
  <2>2. SumFunctionOnSet(w, Z) = N - 1
    BY <1>2, <2>1, SplitKeepsSinks
  <2>3. ASSUME NEW z \in Z PROVE w[z] \in Int /\ u[z] = k * w[z]
    BY <1>2, <1>5 DEF Row
  <2>. HIDE DEF u, w, k, SumFunctionOnSet
  <2>4. IsTimes(u, k, w, Z)
    BY <2>3 DEF IsTimes
  <2>5. SumFunctionOnSet(u, Z) = k * SumFunctionOnSet(w, Z)
    BY <1>2, <2>1, <2>4, SumTimes
  <2>. QED  BY <2>2, <2>5 DEF u, k
<1>10. Sinks(n) = SumFunctionOnSet([N \in A |-> n[N] * (N - 1)], A)
  BY DEF Sinks, SumFunction, A
<1>. HIDE DEF b, c, m, SumFunctionOnSet
<1>11. SumFunctionOnSet(RowSums(m, A, Z), A) = SumFunctionOnSet(ColumnSums(m, A, Z, A), Z)
  BY <1>1, <1>2, <1>6, SumsOfSums
<1>. QED  BY <1>3, <1>4, <1>7, <1>8, <1>9, <1>10, <1>11

LEMMA SinksType ==
  ASSUME NEW n, IsNetlist(n)
  PROVE  Sinks(n) \in Int
<1>. DEFINE A == Fanouts(n)
            f == [N \in A |-> n[N] * (N - 1)]
<1>1. IsFiniteSet(A) /\ \A N \in A : N \in Nat /\ n[N] \in Nat
  BY DEF IsNetlist
<1>2. \A N \in A : f[N] \in Int
  BY <1>1
<1>3. Sinks(n) = SumFunctionOnSet(f, A)
  BY DEF Sinks, SumFunction
<1>. HIDE DEF A, f, SumFunctionOnSet
<1>4. SumFunctionOnSet(f, A) \in Int
  <2>1. A \in SUBSET A
    OBVIOUS
  <2>. QED  BY <1>1, <1>2, <2>1, SumFacts
<1>. QED  BY <1>3, <1>4

LEMMA NoNetsFacts == IsNetlist(NoNets) /\ Sinks(NoNets) = 0
<1>. DEFINE f == [N \in {} |-> NoNets[N] * (N - 1)]
<1>1. DOMAIN NoNets = {} /\ NoNets \in [{} -> Nat \ {0}]
  BY DEF NoNets
<1>2. IsFiniteSet({})
  BY FS_EmptySet
<1>3. Sinks(NoNets) = SumFunctionOnSet(f, {})
  BY <1>1 DEF Sinks, SumFunction, Fanouts
<1>4. \A N \in {} : f[N] \in Int
  OBVIOUS
<1>. HIDE DEF f, SumFunctionOnSet
<1>5. SumFunctionOnSet(f, {}) = 0
  BY <1>2, <1>4, SumFacts
<1>. QED  BY <1>1, <1>2, <1>3, <1>5 DEF IsNetlist, Fanouts

\* What the .blif file holds is a netlist, with every input that yosys connected.
NetsInv == IsNetlist(nets) /\ SinksKept

LEMMA NetsPreserved == NetsInv /\ [Next]_vars => NetsInv'
<1>. SUFFICES ASSUME NetsInv, [Next]_vars PROVE NetsInv'
  OBVIOUS
<1>. USE DEF NetsInv
<1>1. ASSUME nets' = NoNets, sinks' = 0 PROVE NetsInv'
  BY <1>1, NoNetsFacts DEF SinksKept
<1>2. ASSUME UNCHANGED <<nets, sinks>> PROVE NetsInv'
  BY <1>2 DEF SinksKept
<1>3. CASE Start \/ FindDependency \/ HierarchyFound \/ Backup \/ Yosys \/ UNCHANGED vars
  BY <1>2, <1>3 DEF Start, FindDependency, HierarchyFound, Backup, Yosys, vars, netlist
<1>4. CASE SourceError \/ WriteNetlists \/ Interrupt
  BY <1>1, <1>4 DEF SourceError, WriteNetlists, Interrupt, End
<1>5. CASE CheckMapped
  BY <1>1, <1>2, <1>5 DEF CheckMapped, End, netlist
<1>6. CASE MakeBlif
  BY <1>6, NetlistsAssumption DEF MakeBlif, SinksKept
<1>7. CASE BlifFanout
  <2>1. CASE badLibrary
    BY <1>1, <1>7, <2>1 DEF BlifFanout
  <2>2. CASE ~badLibrary
    <3>1. nets' = Buffered(nets) /\ sinks' = sinks
      BY <1>7, <2>2 DEF BlifFanout
    <3>2. IsNetlist(Buffered(nets)) /\ Sinks(Buffered(nets)) = Sinks(nets)
      BY BufferingKeepsSinks
    <3>. QED  BY <3>1, <3>2 DEF SinksKept
  <2>. QED  BY <2>1, <2>2
<1>. QED  BY <1>3, <1>4, <1>5, <1>6, <1>7 DEF Next, Script, Hierarchy, Synthesis

\* With any netlists and any limit on the fanout: in every pass of blifFanout
\* each input of the netlist from yosys stays connected, to exactly one net.
THEOREM InputsAreKept == Spec => []SinksKept
<1>1. Init => NetsInv
  BY NoNetsFacts DEF Init, NetsInv, SinksKept
<1>2. NetsInv => SinksKept
  BY DEF NetsInv
<1>. QED  BY <1>1, <1>2, NetsPreserved, PTL DEF Spec

-----------------------------------------------------------------------------
(* What the search finds are modules, and the exit status is a byte.         *)
LEMMA DependenciesAreModules == TypeOK => NewDep \subseteq Module \cup {Garbled}
<1>. SUFFICES ASSUME TypeOK PROVE NewDep \subseteq Module \cup {Garbled}
  OBVIOUS
<1>1. /\ \A f \in Module : source.file[f] \subseteq Module
      /\ \A m \in Module : source.uses[m] \subseteq Module
      /\ source.readable \subseteq Module
  BY DEF TypeOK, SourceTree
<1>2. \A i \in DOMAIN Read : Contents(Read[i]) \subseteq Module
  BY <1>1 DEF Contents, Readable
<1>3. Defined \subseteq Module
  BY <1>2 DEF Defined
<1>4. Used \subseteq Module
  BY <1>1, <1>3 DEF Used
<1>. QED  BY <1>4 DEF NewDep, Missing

LEMMA BuffersAreCounted ==
  ASSUME NEW n, IsNetlist(n)
  PROVE  Buffer_count(n) \in Nat
<1>. DEFINE A == Fanouts(n)
            f == [N \in A |-> IF TooLarge(N) THEN n[N] * NumBuf(N) ELSE 0]
<1>1. IsFiniteSet(A) /\ \A N \in A : N \in Nat /\ n[N] \in Nat
  BY DEF IsNetlist
<1>2. \A N \in A : f[N] \in Nat
  <2>. SUFFICES ASSUME NEW N \in A PROVE f[N] \in Nat
    OBVIOUS
  <2>1. CASE TooLarge(N)
    <3>1. NumBuf(N) \in Nat
      BY <1>1, <2>1, NumBufFacts
    <3>. QED  BY <1>1, <2>1, <3>1
  <2>2. CASE ~TooLarge(N)
    BY <2>2
  <2>. QED  BY <2>1, <2>2
<1>3. Buffer_count(n) = SumFunctionOnSet(f, A)
  BY DEF Buffer_count, SumFunction
<1>. HIDE DEF A, f, SumFunctionOnSet
<1>. QED  BY <1>1, <1>2, <1>3, SumOfNaturals

LEMMA StatusIsByte ==
  ASSUME IsNetlist(nets), weak \in Nat
  PROVE  Status(weak + Buffer_count(nets)) \in 0..(StatusRange - 1)
<1>1. Buffer_count(nets) \in Nat
  BY BuffersAreCounted
<1>2. \A i \in Int : i % 256 \in 0..255
  OBVIOUS
<1>. QED  BY <1>1, <1>2 DEF Status, StatusRange

LEMMA TypeInitially == Init => TypeOK
<1>1. NoSource \in SourceTree
  BY DEF NoSource, SourceTree
<1>2. <<>> \in Seq(Module \cup {Garbled})
  OBVIOUS
<1>3. 0 \in 0..MaxWeak /\ 0 \in Int /\ 0 \in 0..(StatusRange - 1)
  BY SynthesizeBounds DEF StatusRange
<1>. QED  BY <1>1, <1>2, <1>3, NoNetsFacts DEF Init, TypeOK, Age

LEMMA TypePreserved == TypeOK /\ [Next]_vars => TypeOK'
<1>. SUFFICES ASSUME TypeOK, [Next]_vars PROVE TypeOK'
  OBVIOUS
<1>. USE DEF TypeOK
<1>1. NoSource \in SourceTree /\ <<>> \in Seq(Module \cup {Garbled})
  BY DEF NoSource, SourceTree
<1>2. IsNetlist(NoNets) /\ 0 \in 0..MaxWeak /\ 0 \in Int /\ 0 \in 0..(StatusRange - 1)
  BY NoNetsFacts, SynthesizeBounds DEF StatusRange
<1>. USE DEF Age, ErrorLine
<1>3. CASE Start
  BY <1>3, SourcesAssumption DEF Start, netlist, Aged
<1>4. CASE FindDependency
  <2>1. PICK newdep \in NewDep : uniquedeplist' = Append(uniquedeplist, newdep)
    BY <1>4 DEF FindDependency
  <2>2. newdep \in Module \cup {Garbled}
    BY <2>1, DependenciesAreModules
  <2>3. uniquedeplist' \in Seq(Module \cup {Garbled})
    BY <2>1, <2>2
  <2>. QED  BY <1>4, <2>3 DEF FindDependency, files, netlist
<1>5. CASE SourceError
  BY <1>1, <1>2, <1>5 DEF SourceError, End, SearchDone, files
<1>6. CASE HierarchyFound
  BY <1>1, <1>6 DEF HierarchyFound, SearchDone, files, netlist
<1>7. CASE Backup
  BY <1>7 DEF Backup, search, netlist
<1>8. CASE Yosys
  BY <1>8 DEF Yosys, search, netlist
<1>9. CASE CheckMapped
  BY <1>1, <1>2, <1>9 DEF CheckMapped, Restored, End, SearchDone, search, netlist
<1>10. CASE MakeBlif
  <2>1. IsNetlist(nets') /\ sinks' \in Int
    BY <1>10, NetlistsAssumption, SinksType DEF MakeBlif
  <2>. QED  BY <1>10, <2>1 DEF MakeBlif, search
<1>11. CASE BlifFanout
  <2>1. nchanged' \in 0..(StatusRange - 1)
    <3>1. Status(-1) \in 0..(StatusRange - 1)
      <4>1. -1 \in Int
        OBVIOUS
      <4>2. \A i \in Int : i % StatusRange \in 0..(StatusRange - 1)
        BY DEF StatusRange
      <4>3. (-1) % StatusRange \in 0..(StatusRange - 1)
        BY <4>1, <4>2, Zenon
      <4>. QED  BY <4>3, Zenon DEF Status
    <3>2. weak \in Nat
      BY SynthesizeBounds
    <3>. QED  BY <1>11, <3>1, <3>2, StatusIsByte DEF BlifFanout
  <2>2. IsNetlist(nets') /\ sinks' \in Int
    BY <1>2, <1>11, BufferingKeepsSinks DEF BlifFanout
  <2>3. weak' \in 0..MaxWeak
    BY <1>2, <1>11 DEF BlifFanout
  <2>. QED  BY <1>11, <2>1, <2>2, <2>3 DEF BlifFanout, search
<1>12. CASE WriteNetlists
  BY <1>1, <1>2, <1>12 DEF WriteNetlists, FanoutFailed, End, SearchDone, files
<1>13. CASE Interrupt
  BY <1>1, <1>2, <1>13 DEF Interrupt, End, SearchDone
<1>14. CASE UNCHANGED vars
  BY <1>14 DEF vars, search, files, netlist
<1>. QED  BY <1>3, <1>4, <1>5, <1>6, <1>7, <1>8, <1>9, <1>10, <1>11, <1>12, <1>13, <1>14
           DEF Next, Script, Hierarchy, Synthesis

\* The variables have their types, as long as the netlists from yosys do: the
\* files that the search adds are named after modules (or a garbled one), what
\* blifFanout writes is again a netlist, and nchanged is what the shell can see.
THEOREM TypeCorrect == Spec => []TypeOK
BY TypeInitially, TypePreserved, PTL DEF Spec

-----------------------------------------------------------------------------
(* When the loop around blifFanout has converged.                            *)
LEMMA NoneIsMore ==
  ASSUME NEW D, IsFiniteSet(D), NEW w, \A x \in D : w[x] \in Nat, NEW x \in D
  PROVE  w[x] <= SumFunctionOnSet(w, D)
<1>. HIDE DEF SumFunctionOnSet
<1>1. \A y \in D : w[y] \in Int
  OBVIOUS
<1>2. SumFunctionOnSet(w, D) = w[x] + SumFunctionOnSet(w, D \ {x})
  <2>1. D \in SUBSET D
    OBVIOUS
  <2>. QED  BY <1>1, <2>1, SumFacts
<1>3. SumFunctionOnSet(w, D \ {x}) \in Nat
  <2>1. IsFiniteSet(D \ {x}) /\ \A y \in D \ {x} : w[y] \in Nat
    BY FS_Subset
  <2>. QED  BY <2>1, SumOfNaturals
<1>. QED  BY <1>2, <1>3

LEMMA NoBufferNoneTooLarge ==
  ASSUME NEW n, IsNetlist(n), Buffer_count(n) = 0
  PROVE  \A N \in Fanouts(n) : ~TooLarge(N)
<1>. DEFINE A == Fanouts(n)
            f == [N \in A |-> IF TooLarge(N) THEN n[N] * NumBuf(N) ELSE 0]
<1>1. IsFiniteSet(A) /\ \A N \in A : N \in Nat /\ n[N] \in Nat /\ n[N] >= 1
  BY DEF IsNetlist
<1>2. ASSUME NEW N \in A, TooLarge(N) PROVE f[N] \in Nat /\ f[N] >= 1
  <2>. DEFINE x == n[N]
              y == NumBuf(N)
  <2>1. x \in Nat /\ x >= 1 /\ y \in Nat /\ y >= 1
    BY <1>1, <1>2, NumBufFacts
  <2>2. f[N] = x * y
    BY <1>2
  <2>. HIDE DEF x, y, f
  <2>3. x * y \in Nat /\ x * y >= 1
    BY <2>1
  <2>. QED  BY <2>2, <2>3
<1>3. \A N \in A : f[N] \in Nat
  <2>1. \A N \in A : ~TooLarge(N) => f[N] = 0
    OBVIOUS
  <2>. HIDE DEF f
  <2>. QED  BY <1>2, <2>1
<1>4. Buffer_count(n) = SumFunctionOnSet(f, A)
  BY DEF Buffer_count, SumFunction
<1>. SUFFICES ASSUME NEW N \in A, TooLarge(N) PROVE FALSE
  OBVIOUS
<1>. HIDE DEF A, f, SumFunctionOnSet
<1>5. f[N] <= SumFunctionOnSet(f, A)
  BY <1>1, <1>3, NoneIsMore
<1>. QED  BY <1>2, <1>4, <1>5

LEMMA NoneTooLargeAfter ==
  ASSUME NEW n, \A N \in Fanouts(n) : ~TooLarge(N)
  PROVE  \A N \in Fanouts(Buffered(n)) : ~TooLarge(N)
<1>1. \A N \in Fanouts(n) : SizesFrom(N) = {N}
  BY DEF SizesFrom
<1>2. Sizes(n) \subseteq Fanouts(n)
  BY <1>1 DEF Sizes
<1>3. Fanouts(Buffered(n)) \subseteq Sizes(n)
  BY DEF Buffered, Fanouts
<1>. QED  BY <1>2, <1>3

LEMMA StepConverges ==
  ASSUME TypeOK, [Next]_vars,
         pc = "fanout", pc' = "netlists", ~badLibrary,
         ~LooksLikeNone(weak + Buffer_count(nets))
  PROVE  weak' = 0 /\ \A N \in Fanouts(nets') : ~TooLarge(N)
<1>1. BlifFanout
  BY DEF vars, Next, Script, Hierarchy, Synthesis, Start, FindDependency, SourceError, HierarchyFound,
         Backup, Yosys, CheckMapped, MakeBlif, WriteNetlists, Interrupt, End
<1>2. weak \in Nat /\ IsNetlist(nets)
  BY SynthesizeBounds DEF TypeOK
<1>3. Buffer_count(nets) \in Nat
  BY <1>2, BuffersAreCounted
<1>4. nchanged' = Status(weak + Buffer_count(nets)) /\ ~MoreToChange(nchanged')
  BY <1>1 DEF BlifFanout
<1>5. weak + Buffer_count(nets) = 0
  <2>. DEFINE n == weak + Buffer_count(nets)
  <2>1. n \in Nat /\ ~MoreToChange(Status(n)) /\ ~LooksLikeNone(n)
    BY <1>2, <1>3, <1>4
  <2>. HIDE DEF n
  <2>2. n % 256 \in 0..255
    BY <2>1
  <2>3. n = 0
    BY <2>1, <2>2 DEF MoreToChange, LooksLikeNone, Status, StatusRange
  <2>. QED  BY <2>3 DEF n
<1>6. Buffer_count(nets) = 0
  BY <1>2, <1>3, <1>5
<1>7. weak' = 0 /\ nets' = Buffered(nets)
  BY <1>1, <1>5 DEF BlifFanout
<1>. QED  BY <1>2, <1>6, <1>7, NoBufferNoneTooLarge, NoneTooLargeAfter

\* For any netlist: the loop around blifFanout is left only when all gates
\* satisfy the requirements, unless the last pass makes a positive multiple of
\* 256 changes.
THEOREM FanoutConverges == Spec => FanoutConverged
<1>1. TypeOK /\ [Next]_vars =>
        [(pc = "fanout" /\ pc' = "netlists" /\ ~badLibrary)
           => \/ weak' = 0 /\ \A N \in Fanouts(nets') : ~TooLarge(N)
              \/ LooksLikeNone(weak + Buffer_count(nets))]_vars
  BY StepConverges
<1>. QED  BY <1>1, TypeCorrect, PTL DEF FanoutConverged, Spec

=============================================================================
