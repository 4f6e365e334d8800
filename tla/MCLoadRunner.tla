---------------------------- MODULE MCLoadRunner ----------------------------
(* Scenarios and profiles for the model checker: one scenario per protocol and *)
(* path with a fixed profile, and a short scenario with every valid profile.   *)
EXTENDS LoadRunner

Stage(mode, secs, target) ==
  [mode |-> mode, secs |-> secs, target |-> target, included |-> mode = "hold"]

Scenario(protocol, tls, proxy, stages, max, big) ==
  [protocol |-> protocol, tls |-> tls, proxy |-> proxy, stages |-> stages,
   clients |-> 1, secs |-> 1, max |-> max, keepAlive |-> TRUE, streams |-> 2,
   big |-> big]

UpAndDown == <<Stage("ramp", 1, 2), Stage("hold", 1, 1)>>
Down == <<Stage("hold", 1, 1), Stage("ramp", 1, 0)>>

Scenarios ==
  {Scenario("http1", FALSE, FALSE, UpAndDown, 0, TRUE),
   Scenario("http1", TRUE, TRUE, Down, 2, FALSE),
   Scenario("http2", TRUE, TRUE, Down, 3, FALSE),
   Scenario("tcp", TRUE, FALSE, Down, 0, TRUE),
   Scenario("tcp", FALSE, TRUE, <<>>, 0, FALSE)}

Endpoint(node, start, prefix, count) ==
  [node |-> node, nic |-> "eth0", start |-> start, prefix |-> prefix, count |-> count]

(* Two clients and two servers around the boundary between two subnets and at  *)
(* the top of the address space; most of these are refused.                    *)
Drafts ==
  {[client |-> Endpoint("n1", s, p, 2), server |-> Endpoint("n2", t, q, 2)] :
     s \in 6 .. 15, t \in 6 .. 15, p \in 1 .. 2, q \in 1 .. 2}

ADraft == [client |-> Endpoint("n1", 1, 1, 1), server |-> Endpoint("n2", 3, 1, 1)]

Cases ==
  {[scenario |-> s, draft |-> ADraft] : s \in Scenarios}
    \cup {[scenario |-> Scenario("http1", FALSE, FALSE, <<>>, 1, FALSE), draft |-> d] :
            d \in Drafts}
=============================================================================
