------------------------------- MODULE Fanout -------------------------------
(***************************************************************************)
(* How one pass of blifFanout breaks up the nets that drive more inputs     *)
(* than allowed.  A netlist is the bag of its nets' fanouts.                *)
(***************************************************************************)
EXTENDS Integers, FiniteSets, Functions

CONSTANT MaxFanout   \* blifFanout -F, 16 by default

\* With 1 the loop that counts the stages does not end.
ASSUME MaxFanoutAssumption == MaxFanout \in Nat /\ MaxFanout >= 2

TooLarge(N) == N > MaxFanout

Power(b, k) ==
  LET power[i \in 0..k] == IF i = 0 THEN 1 ELSE b * power[i - 1] IN power[k]

\* Hierarchical stages (plus one): the loop divides N by growing powers.
Stages(N) == 1 + (CHOOSE k \in 1..N :
                    /\ ~TooLarge(N \div Power(MaxFanout, k))
                    /\ \A j \in 1..(k - 1) : TooLarge(N \div Power(MaxFanout, j)))

\* floor(N / N^(1/stages)), that is, the integer root of N^(stages - 1).
NumBuf(N) ==
  CHOOSE n \in 1..N : LET s == Stages(N)
                      IN /\ Power(n, s) <= Power(N, s - 1)
                         /\ Power(N, s - 1) < Power(n + 1, s)

\* The buffers take the inputs in turn: N % n of them get one more.
InputsOf_Even(N, size) ==
  LET n == NumBuf(N) IN IF size = N \div n THEN n ELSE 0
InputsOf(N, size) ==
  LET n == NumBuf(N)
  IN CASE size = N \div n     -> n - (N % n)
       [] size = N \div n + 1 -> N % n
       [] OTHER               -> 0

\* How many nets of that size the pass makes of one net with N inputs.
NetsFrom(N, size) ==
  IF TooLarge(N) THEN InputsOf(N, size) + (IF size = NumBuf(N) THEN 1 ELSE 0)
                 ELSE IF size = N THEN 1 ELSE 0
SizesFrom(N) ==
  IF TooLarge(N) THEN {NumBuf(N), N \div NumBuf(N), N \div NumBuf(N) + 1} ELSE {N}

Fanouts(nets) == DOMAIN nets
IsNetlist(nets) ==
  /\ IsFiniteSet(Fanouts(nets)) /\ Fanouts(nets) \subseteq Nat
  /\ nets \in [Fanouts(nets) -> Nat \ {0}]
Sizes(nets) == UNION {SizesFrom(N) : N \in Fanouts(nets)}
NetsOf(nets, size) == SumFunction([N \in Fanouts(nets) |-> nets[N] * NetsFrom(N, size)])
Buffered(nets) ==
  [size \in {z \in Sizes(nets) : NetsOf(nets, z) > 0} |-> NetsOf(nets, size)]

Buffer_count(nets) ==
  SumFunction([N \in Fanouts(nets) |-> IF TooLarge(N) THEN nets[N] * NumBuf(N) ELSE 0])

\* The inputs that are not a buffer's, short of the number of original nets.
Sinks(nets) == SumFunction([N \in Fanouts(nets) |-> nets[N] * (N - 1)])
=============================================================================
