------------------------------- MODULE Vesta -------------------------------
(* The path search of vesta, the static timing analyser of qflow           *)
(* (src/sw/qflow-1.2/src/vesta.c).  main() makes four analyses: the maximum *)
(* and the minimum delays from the clock pins of the registers, then from   *)
(* the inputs of the module.  In each, find_clock_to_term_paths starts the  *)
(* recursive find_path_delay at one connection after the other.  A step of  *)
(* this module is one call of it up to its first recursive call, or the end *)
(* of a call.                                                               *)
(*                                                                          *)
(* A net is named by what drives it, an instance or an input pin of the     *)
(* module.  Transition times are left out: a gate has one delay for a rising *)
(* and one for a falling output, as if its tables were constant, and clock   *)
(* skew, setup and hold times are not added to the delays.                   *)
EXTENDS Integers, Sequences, FiniteSets, SequencesExt

CONSTANTS
  Receiver,     \* connections that a net drives, in the order of createLinks
  InputPin,     \* connections of the module's inputs, which no net drives
  OutputPin,    \* connections of the module's outputs
  REGISTER_IN,  \* input pins of flops and latches
  ClockPin,     \* the clock pins among them, in the order of the clocked list
  NegativeEdge, \* those of flops that are triggered by the falling edge
  Inst,         \* the instance of each input pin of a gate or register
  Circuits,     \* the netlists and libraries considered
  MaxNodes      \* bound: backtrace nodes allocated at the same time

Conn == ToSet(Receiver) \cup ToSet(InputPin)
Net == ToSet(InputPin) \cup {Inst[c] : c \in DOMAIN Inst}

ASSUME ConnectionsAssumption ==
  /\ Receiver \in Seq(ToSet(Receiver)) /\ IsInjective(Receiver)
  /\ InputPin \in Seq(ToSet(InputPin)) /\ IsInjective(InputPin)
  /\ ClockPin \in Seq(REGISTER_IN) /\ IsInjective(ClockPin)
  /\ NegativeEdge \subseteq ToSet(ClockPin)
  /\ ToSet(InputPin) \cap ToSet(Receiver) = {}
  /\ OutputPin \subseteq ToSet(Receiver)
  /\ DOMAIN Inst = ToSet(Receiver) \ OutputPin
  /\ REGISTER_IN \subseteq DOMAIN Inst
  /\ MaxNodes \in Nat \ {0}

\* The codes of edges and of senses, which calc_prop_delay mixes.
RISING == 1
FALLING == 2
EITHER == 3
SENSE_NONE == 1
SENSE_POSITIVE == 2
SENSE_NEGATIVE == 3
MAXIMUM_TIME == 1
MINIMUM_TIME == 0

Dir == {RISING, FALLING, EITHER}

\* What the readers and createLinks make of the library and netlist files.
ASSUME CircuitsAssumption ==
  Circuits \subseteq
    [receivers : [Net -> Seq(ToSet(Receiver))], sense : [DOMAIN Inst -> Int],
     propdelr : [DOMAIN Inst -> Int], propdelf : [DOMAIN Inst -> Int],
     icDelay : [Conn -> Int]]

None == 0              \* tags: none,
OnPath == -1           \* on the path being followed, or a record of delaylist
Infinite == 1000000   \* 1E50, more than any delay

VARIABLES
  ckt,         \* the netlist: receivers, sense, propdelr, propdelf, icDelay
  exhaustive,  \* the option -e
  analysis,    \* which of the analyses of main() is made; 5 when all are
  todo,        \* starting points of this analysis that are left
  pc,          \* "start" before a search, "search" during it, "free" after the last
  stack,       \* the calls of find_path_delay in progress
  bt,          \* the allocated backtrace nodes, with their reference counts
  tag, metric, \* of each connection
  delaylist,   \* paths recorded from the present starting point
  masterlist   \* paths recorded from the starting points before it

search == <<stack, bt, tag, metric, delaylist>>
vars == <<ckt, exhaustive, analysis, todo, pc, search, masterlist>>

Analyses == << <<ClockPin, MAXIMUM_TIME>>, <<ClockPin, MINIMUM_TIME>>,
               <<InputPin, MAXIMUM_TIME>>, <<InputPin, MINIMUM_TIME>> >>
Done == analysis > Len(Analyses)
minmax == Analyses[analysis][2]

-----------------------------------------------------------------------------
\* The net a signal enters on its way from connection c.
LoadNet(c) == IF c \in ToSet(InputPin) THEN c ELSE Inst[c]
HasPin(c) == c \in DOMAIN Inst

calc_dir(c, dir) ==
  IF ~HasPin(c) THEN dir ELSE
  CASE dir = EITHER \/ ckt.sense[c] \notin {SENSE_POSITIVE, SENSE_NEGATIVE} -> EITHER
    [] ckt.sense[c] = SENSE_POSITIVE -> dir
    [] OTHER -> RISING + FALLING - dir

\* The edges in dir, which is used as a mask.
Edges(dir) == IF dir = EITHER THEN <<RISING, FALLING>> ELSE <<dir>>

Worse(x, y) == IF minmax = MAXIMUM_TIME THEN x > y ELSE x < y
Worst(x, y) == IF Worse(x, y) THEN x ELSE y

\* find_path_delay passes RISING or FALLING for the sense.
calc_prop_delay(c, sense) ==
  IF ~HasPin(c) THEN 0 ELSE
  CASE sense = SENSE_POSITIVE -> ckt.propdelr[c]
    [] sense = SENSE_NEGATIVE -> ckt.propdelf[c]
    [] OTHER -> Worst(ckt.propdelr[c], ckt.propdelf[c])

\* The calls that a call at c makes: each receiver of the net, for each edge.
Onward(c, dir, delay) ==
  LET receivers == ckt.receivers[LoadNet(c)]
      edges == Edges(calc_dir(c, dir))
      Call(receiver, edge) == [receiver |-> receiver, dir |-> edge,
                               delay |-> delay + calc_prop_delay(c, edge)]
  IN [k \in 1..(Len(receivers) * Len(edges)) |->
        Call(receivers[((k - 1) \div Len(edges)) + 1], edges[((k - 1) % Len(edges)) + 1])]

\* The edge that arrives at a starting point.
SourceDir(c) == CASE c \in ToSet(InputPin) -> EITHER
                  [] c \in NegativeEdge -> FALLING
                  [] OTHER -> RISING

-----------------------------------------------------------------------------
\* Backtraces.  A path is listed from its end to its start, as next links it.
PathOf(s) == Reverse([i \in 1..Len(s) |-> s[i].node])
Hold(b, path) ==
  [n \in DOMAIN b |-> [b[n] EXCEPT !.refcnt = IF n \in ToSet(path) THEN @ + 1 ELSE @]]
Release(b, path) ==
  [n \in {m \in DOMAIN b : m \in ToSet(path) => b[m].refcnt > 1} |->
     [b[n] EXCEPT !.refcnt = IF n \in ToSet(path) THEN @ - 1 ELSE @]]

FreeNodes == (1..MaxNodes) \ DOMAIN bt
NewNode == CHOOSE n \in FreeNodes : TRUE
WithNode(call) ==
  LET node == [receiver |-> call.receiver, dir |-> call.dir, refcnt |-> 1,
               delay |-> call.delay + ckt.icDelay[call.receiver]]
  IN [n \in DOMAIN bt \cup {NewNode} |-> IF n = NewNode THEN node ELSE bt[n]]

\* A call of find_path_delay from the calls s, with tags tg and metrics mt.
Pruned(call, mt) == ~exhaustive /\ ~Worse(call.delay, mt[call.receiver])

Looped_Never(call, tg) == FALSE            \* no test for loops
Looped(call, tg) == tg[call.receiver] = OnPath
Ends(call, s) == s # <<>> /\ (~HasPin(call.receiver) \/ call.receiver \in REGISTER_IN)

CutShort(call, s, tg, mt) ==
  /\ Pruned(call, mt) \/ Looped(call, tg)
  /\ stack' = s /\ tag' = tg /\ metric' = mt
  /\ UNCHANGED <<bt, delaylist>>

PassThrough(call, s, tg, mt) ==
  /\ ~Ends(call, s) /\ FreeNodes # {}
  /\ bt' = WithNode(call)
  /\ stack' = Append(s, [receiver |-> call.receiver, delay |-> call.delay, node |-> NewNode,
                         calls |-> Onward(call.receiver, call.dir, call.delay)])
  /\ tag' = [tg EXCEPT ![call.receiver] = OnPath]
  /\ metric' = mt
  /\ UNCHANGED delaylist

\* The first path to this end is recorded; its tag leads to the record.
RecordPath(call, s, tg) ==
  /\ tg[call.receiver] \in {None, OnPath}
  /\ delaylist' = Append(delaylist, <<NewNode>> \o PathOf(s))
  /\ tag' = [tg EXCEPT ![call.receiver] = Len(delaylist) + 1]
  /\ bt' = Hold(WithNode(call), PathOf(s))

Recorded(call, tg) == delaylist[tg[call.receiver]]
Replaces(call, tg) == Worse(call.delay, bt[Recorded(call, tg)[1]].delay)

ReplacePath_NotHeld(call, s, tg) ==        \* the new path's nodes not counted
  /\ tg[call.receiver] \notin {None, OnPath} /\ Replaces(call, tg)
  /\ delaylist' = [delaylist EXCEPT ![tg[call.receiver]] = <<NewNode>> \o PathOf(s)]
  /\ bt' = Release(WithNode(call), Recorded(call, tg))
  /\ tag' = tg
ReplacePath(call, s, tg) ==
  /\ tg[call.receiver] \notin {None, OnPath} /\ Replaces(call, tg)
  /\ delaylist' = [delaylist EXCEPT ![tg[call.receiver]] = <<NewNode>> \o PathOf(s)]
  /\ bt' = Hold(Release(WithNode(call), Recorded(call, tg)), PathOf(s))
  /\ tag' = tg

KeepPath(call, tg) ==
  /\ tg[call.receiver] \notin {None, OnPath} /\ ~Replaces(call, tg)
  /\ tag' = tg
  /\ UNCHANGED <<bt, delaylist>>

PathEnds(call, s, tg, mt) ==
  /\ Ends(call, s) /\ FreeNodes # {}
  /\ RecordPath(call, s, tg) \/ ReplacePath(call, s, tg) \/ KeepPath(call, tg)
  /\ stack' = s
  /\ metric' = [mt EXCEPT ![call.receiver] = call.delay]

find_path_delay(call, s, tg, mt) ==
  \/ CutShort(call, s, tg, mt)
  \/ /\ ~Pruned(call, mt) /\ ~Looped(call, tg)
     /\ PassThrough(call, s, tg, mt) \/ PathEnds(call, s, tg, mt)

-----------------------------------------------------------------------------
\* The values from which any path is worse.
NoMetric(m) == IF m = MAXIMUM_TIME THEN -1 ELSE Infinite

Init ==
  /\ ckt \in Circuits /\ exhaustive \in BOOLEAN
  /\ analysis = 1 /\ todo = ClockPin /\ pc = "start"
  /\ stack = <<>> /\ bt = <<>> /\ delaylist = <<>> /\ masterlist = <<>>
  /\ tag = [c \in Conn |-> None] /\ metric = [c \in Conn |-> -1]

\* All tags and metrics of receivers are reset before each run; input pins
\* are no receivers.
StartSearch ==
  /\ pc = "start" /\ todo # <<>>
  /\ find_path_delay([receiver |-> Head(todo), dir |-> SourceDir(Head(todo)), delay |-> 0],
       <<>>,
       [c \in Conn |-> IF c \in ToSet(Receiver) THEN None ELSE tag[c]],
       [c \in Conn |-> IF c \in ToSet(Receiver) THEN NoMetric(minmax) ELSE metric[c]])
  /\ pc' = "search"
  /\ UNCHANGED <<ckt, exhaustive, analysis, todo, masterlist>>

Top == stack[Len(stack)]

Recurse ==
  /\ pc = "search" /\ stack # <<>> /\ Top.calls # <<>>
  /\ find_path_delay(Head(Top.calls),
       [stack EXCEPT ![Len(stack)].calls = Tail(@)], tag, metric)
  /\ UNCHANGED <<ckt, exhaustive, analysis, todo, pc, masterlist>>

Return ==
  /\ pc = "search" /\ stack # <<>> /\ Top.calls = <<>>
  /\ tag' = [tag EXCEPT ![Top.receiver] = None]
  /\ metric' = [metric EXCEPT ![Top.receiver] = Top.delay]
  /\ bt' = Release(bt, <<Top.node>>)
  /\ stack' = Front(stack)
  /\ UNCHANGED <<ckt, exhaustive, analysis, todo, pc, delaylist, masterlist>>

SearchEnds ==
  /\ pc = "search" /\ stack = <<>>
  /\ masterlist' = delaylist \o masterlist
  /\ delaylist' = <<>>
  /\ todo' = Tail(todo)
  /\ pc' = "start"
  /\ UNCHANGED <<ckt, exhaustive, analysis, stack, bt, tag, metric>>

\* main() reports the paths, frees one after the other, and readies the
\* inputs that the next analysis starts at.
Report ==
  /\ pc = "start" /\ todo = <<>> /\ ~Done
  /\ pc' = "free"
  /\ UNCHANGED <<ckt, exhaustive, analysis, todo, search, masterlist>>

FreePath ==
  /\ pc = "free" /\ masterlist # <<>>
  /\ bt' = Release(bt, Head(masterlist))
  /\ masterlist' = Tail(masterlist)
  /\ UNCHANGED <<ckt, exhaustive, analysis, todo, pc, stack, tag, metric, delaylist>>

InputMetric == IF analysis = 2 THEN -1 ELSE Infinite

InputsReadied_Not == UNCHANGED <<tag, metric>>   \* the marks of the analysis before stay
InputsReadied ==
  IF analysis \in {2, 3}
  THEN /\ tag' = [c \in Conn |-> IF c \in ToSet(InputPin) THEN None ELSE tag[c]]
       /\ metric' = [c \in Conn |-> IF c \in ToSet(InputPin) THEN InputMetric ELSE metric[c]]
  ELSE UNCHANGED <<tag, metric>>
AnalysisEnds ==
  /\ pc = "free" /\ masterlist = <<>>
  /\ analysis' = analysis + 1
  /\ todo' = IF analysis < Len(Analyses) THEN Analyses[analysis + 1][1] ELSE <<>>
  /\ InputsReadied
  /\ pc' = "start"
  /\ UNCHANGED <<ckt, exhaustive, stack, bt, delaylist, masterlist>>

Next == StartSearch \/ Recurse \/ Return \/ SearchEnds \/ Report \/ FreePath \/ AnalysisEnds

Spec == Init /\ [][Next]_vars
FairSpec == Spec /\ WF_vars(Next)

-----------------------------------------------------------------------------
(* Each backtrace node counts the calls and the recorded paths that use it,  *)
(* and is freed with the last of them: replacing a path by one that shares    *)
(* its beginning frees no node still in use, and nothing is left over.        *)
Paths == ToSet(delaylist) \cup ToSet(masterlist)
BacktraceCounted ==
  /\ \A path \in Paths : ToSet(path) \subseteq DOMAIN bt
  /\ \A i \in DOMAIN stack : stack[i].node \in DOMAIN bt
  /\ \A n \in DOMAIN bt :
       /\ bt[n].refcnt > 0
       /\ bt[n].refcnt = Cardinality({i \in DOMAIN stack : stack[i].node = n})
                         + Cardinality({path \in Paths : n \in ToSet(path)})

\* Every way a signal can take from s without passing a connection twice,
\* with the edge and the time at which it arrives.
Onwards(w) == {Onward(w.last, w.dir, w.delay)[i] :
                 i \in DOMAIN Onward(w.last, w.dir, w.delay)}
IsEnd(w) == w.passed # {} /\ (~HasPin(w.last) \/ w.last \in REGISTER_IN)
Ways(s) ==
  LET From(w) == IF IsEnd(w) THEN {}
                 ELSE {[passed |-> w.passed \cup {w.last}, last |-> call.receiver,
                        dir |-> call.dir, delay |-> call.delay] :
                         call \in {k \in Onwards(w) : k.receiver \notin w.passed \cup {w.last}}}
      step[n \in 0..Cardinality(Conn)] ==
        IF n = 0 THEN {[passed |-> {}, last |-> s, dir |-> SourceDir(s), delay |-> 0]}
        ELSE UNION {From(w) : w \in step[n - 1]}
  IN UNION {step[n] : n \in 0..Cardinality(Conn)}
WaysToEnds(s) == {w \in Ways(s) : IsEnd(w)}

\* Without the option -e the search is complete on circuits without loops
\* whose gates have the same delay for both edges.
NoLoops == \A s \in ToSet(Analyses[analysis][1]) : \A w \in Ways(s) :
             IsEnd(w) \/ \A call \in Onwards(w) : call.receiver \notin w.passed \cup {w.last}
EdgesAlike == ckt.propdelr = ckt.propdelf
Complete == exhaustive \/ (NoLoops /\ EdgesAlike)

(* When an analysis ends, each register input and output that a signal can    *)
(* reach from a starting point is listed with exactly one path from there,    *)
(* one it can take, and a complete search lists the longest (in the minimum   *)
(* analyses the shortest) of them: "only the path with the longest delay is   *)
(* kept", whatever loops there are and in whichever order they are found.     *)
(* The exception are ends with a wire delay (option -d): the delay of the     *)
(* last wire is recorded with a path but not part of what a new path to the   *)
(* end is compared with.                                                      *)
StartOf(path) == bt[path[Len(path)]].receiver
EndOf(path) == bt[path[1]].receiver
Arrival(n) == bt[n].delay - ckt.icDelay[bt[n].receiver]   \* at the last wire
WorstPathsListed ==
  (pc = "start" /\ todo = <<>> /\ ~Done) =>
    \A s \in ToSet(Analyses[analysis][1]) :
      LET ways == WaysToEnds(s)
          complete == Complete
          listed == {i \in DOMAIN masterlist : StartOf(masterlist[i]) = s}
      IN /\ {EndOf(masterlist[i]) : i \in listed} = {w.last : w \in ways}
         /\ \A i \in listed :
              LET path == masterlist[i]
                  toIts == {w \in ways : w.last = EndOf(path)}
              IN /\ \A j \in listed : EndOf(masterlist[j]) = EndOf(path) => i = j
                 /\ \E w \in toIts : /\ w.delay = Arrival(path[1])
                                     /\ w.dir = bt[path[1]].dir
                                     /\ w.passed = {bt[n].receiver : n \in ToSet(Tail(path))}
                 /\ complete /\ ckt.icDelay[EndOf(path)] = 0 =>
                      \A w \in toIts : ~Worse(w.delay, Arrival(path[1]))

(* All four analyses end, although netlists may have combinational loops.    *)
AnalysesEnd == <>Done

(* In the maximum analyses no step of a recorded path is faster, and in the   *)
(* minimum analyses none slower, than the table of its edge says: propdelr is *)
(* the "Reference table for rising output prop delay relative to driver",     *)
(* propdelf that for the falling output.                                      *)
EdgesTimed ==
  \A path \in Paths : \A i \in 1..Len(path) - 1 :
    LET from == path[i + 1]  to == path[i]
        gate == bt[from].receiver
        table == IF bt[to].dir = RISING THEN ckt.propdelr ELSE ckt.propdelf
    IN HasPin(gate) => ~Worse(table[gate], Arrival(to) - Arrival(from))

=============================================================================
