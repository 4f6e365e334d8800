SPECIFICATION FairSpec
CONSTANTS
  SeqBits = 4
  MaxFaults = 3
  MaxConnections = 3
  TlsLetter = "T"
  Letter <- Letters
  Capture <- Captures
  MessageLength <- Lengths
  OriginForm <- Paths
  AbsoluteForm <- Absolutes
INVARIANTS
  KeptIsOnePiece
  TurnsAreTheConversation
  ReadsWhatIsPlanned
  UndisturbedSucceeds
PROPERTIES
  ReplayEnds
CHECK_DEADLOCK FALSE
