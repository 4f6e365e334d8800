------------------------- MODULE MCArtifactTransfer -------------------------
(* A capture and a payload, and two starts that share the capture.            *)
EXTENDS ArtifactTransfer, TLC

CONSTANTS pcap, file, s1, s2

Chunks == (pcap :> 2 @@ file :> 1)
Wanted == (s1 :> {pcap, file} @@ s2 :> {pcap})
=============================================================================
