--------------------------- MODULE MCCaptureReplay ---------------------------
(* Captured traffic for the model checker.                                     *)
EXTENDS CaptureReplay

C(bytes) == [from |-> "client", bytes |-> bytes]
S(bytes) == [from |-> "server", bytes |-> bytes]

Dialogue(client, server, talk) ==
  [isn |-> [client |-> client, server |-> server], talk |-> <<C(<<>>)>> \o talk]

Traffic(protocol, absolute, flows) ==
  [protocol |-> protocol, absolute |-> absolute, flows |-> flows]

(* A turn of two packets; a flow whose numbers wrap around; first turns that   *)
(* are alike; and a flow that begins as TLS does.                              *)
TwoPackets == Dialogue(2, 3, <<C(<<"a", "b">>), C(<<"c">>), S(<<"x">>), C(<<"d">>)>>)
Wraps == Dialogue(14, 15, <<C(<<"b">>), C(<<"c", "e">>), S(<<"y">>), S(<<"z">>)>>)
Short == Dialogue(0, 0, <<C(<<"a", "b">>), S(<<"z">>)>>)
Alike == Dialogue(0, 0, <<C(<<"a", "d">>), S(<<"z">>)>>)
Tls == Dialogue(0, 0, <<C(<<"T">>), S(<<"T">>)>>)

(* Requests with a path (G) or an absolute (A) target, one of them split; in   *)
(* the second flow two requests are sent before the first response.            *)
Http == Dialogue(0, 0, <<C(<<"G">>), C(<<"1">>), S(<<"R", "x">>)>>)
Pipelined == Dialogue(0, 0, <<C(<<"A", "2", "G", "3">>), S(<<"R">>), S(<<"y", "R", "z">>)>>)

Captures ==
  {Traffic("tcp", FALSE, <<TwoPackets>>), Traffic("tcp", FALSE, <<Wraps, Tls>>),
   Traffic("tcp", FALSE, <<TwoPackets, Short>>), Traffic("tcp", FALSE, <<Short, Alike>>),
   Traffic("http1", TRUE, <<Http, Pipelined>>), Traffic("http1", FALSE, <<Http>>)}

Letters == {"a", "b", "c", "d", "e", "x", "y", "z", "T", "G", "A", "R", "1", "2", "3"}
Lengths == [G |-> 2, A |-> 2, R |-> 2]
Paths == [G |-> "G", A |-> "G"]
Absolutes == [G |-> "A"]
=============================================================================
