SPECIFICATION FairSpec
CONSTANTS
  None = None
  pcap = pcap
  file = file
  s1 = s1
  s2 = s2
  Artifact = {pcap, file}
  Captures = {pcap}
  Size <- Chunks
  Req = {s1, s2}
  Needs <- Wanted
  Client = g1
  Server = g2
  Capacity = 2
  MaxGen = 2
  MaxFaults = 2
INVARIANTS
  PreparedWithItsBytes
  BailsOnlyForCause
PROPERTIES
  TransferEnds
CHECK_DEADLOCK FALSE
