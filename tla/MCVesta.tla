------------------------------ MODULE MCVesta ------------------------------
(* Two gates, one of two inputs, a flop, an input and an output, connected  *)
(* in every way, loops and a clock that comes out of a gate included.       *)
EXTENDS Vesta

MCReceiver == <<"a1", "a2", "b", "clk", "d", "out">>
MCInst == [c \in {"a1", "a2", "b", "clk", "d"} |->
             CASE c \in {"a1", "a2"} -> "gateA" [] c = "b" -> "gateB" [] OTHER -> "flop"]
MCInputPin == <<"in">>
MCClockPin == <<"clk">>
Sources == {"in", "flop", "gateA", "gateB"}

MCSense == [c \in DOMAIN MCInst |->
  CASE c = "a1" -> SENSE_NEGATIVE [] c = "b" -> SENSE_POSITIVE [] OTHER -> SENSE_NONE]

\* Delays for the rising and the falling output, alike and not.
MCDelays ==
  {<<[c \in DOMAIN MCInst |-> IF c = "a2" THEN 2 ELSE 1],
     [c \in DOMAIN MCInst |-> IF c = "a2" THEN 2 ELSE 1]>>,
   <<[c \in DOMAIN MCInst |-> IF c = "a1" THEN 3 ELSE 1],
     [c \in DOMAIN MCInst |-> IF c = "b" THEN 3 ELSE 2]>>}

\* createLinks lists the connections that the same net drives in their order.
MCReceivers(driver) ==
  [net \in Sources |-> SelectSeq(MCReceiver, LAMBDA c : driver[c] = net)]

\* No delay file is read, or one that gives delays to three of the wires.
MCNoWires == [c \in Conn |-> 0]
MCWires == [c \in Conn |-> CASE c = "d" -> 2 [] c \in {"a1", "clk"} -> 1 [] OTHER -> 0]

MCCircuits ==
  {[receivers |-> MCReceivers(dr), sense |-> MCSense, propdelr |-> dl[1],
    propdelf |-> dl[2], icDelay |-> wires] :
     dr \in {f \in [ToSet(MCReceiver) -> Sources] :
               f["clk"] \in {"in", "gateB"} /\ f["out"] \in {"gateA", "gateB"}},
     dl \in MCDelays, wires \in {MCNoWires, MCWires}}
=============================================================================
