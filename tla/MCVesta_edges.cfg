SPECIFICATION FairSpec
CONSTANTS
  Receiver <- MCReceiver
  InputPin <- MCInputPin
  OutputPin = {"out"}
  REGISTER_IN = {"clk", "d"}
  ClockPin <- MCClockPin
  NegativeEdge = {}
  Inst <- MCInst
  Circuits <- MCCircuits
  MaxNodes = 16
INVARIANT EdgesTimed
CHECK_DEADLOCK FALSE
