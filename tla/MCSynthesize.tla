---------------------------- MODULE MCSynthesize ----------------------------
(* Three modules whose files may be missing, wrong, empty or overlapping.    *)
EXTENDS Synthesize

CONSTANTS a, b

MCSources ==
  {s \in [readable : {Module, Module \ {b}},
          file : [Module -> {{}, {top}, {a}, {b}, {top, a}, {a, b}}],
          uses : [Module -> SUBSET {a, b}],
          badPort : {{}, {a}}] :
     /\ s.file[top] \in {{top}, {top, a}}
     /\ s.file[b] \in {{}, {b}, {a, b}}
     /\ s.uses[a] \subseteq {b} /\ s.uses[b] = {}}

Net(N) == [size \in {N} |-> 1]
\* With all gates strong enough, a first pass over it makes 256 changes: 15
\* buffers for each of the nets with 40 inputs, which need another pass, and 2
\* for each of the others.
Nets256 == [size \in {4, 40} |-> IF size = 40 THEN 2 ELSE 113]
MCNetlists == {Net(N) : N \in {3, 5, 12, 40}} \cup {[size \in {4, 11} |-> 2], Nets256}

=============================================================================
