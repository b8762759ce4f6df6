SPECIFICATION FairSpec
CONSTANTS
  End <- Ends
  Peer <- Other
  Consumer = {"bgp", "ospf"}
  USERS <- Users
  REGISTERED <- Started
  DESIRED <- Interval
  RX <- Interval
  MULT <- Mult
  PERCENT <- Percent
  ECHO <- Echo
  SLOW = 3
  QUEUE = 1
  COMMANDS = 1
  WIRE = 1
INVARIANTS Watched NoFalseAlarm FallReported
PROPERTIES SilenceNoticed SessionsForm
