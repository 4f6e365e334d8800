--------------------------- MODULE ScenarioDomain ---------------------------
(* The pure parts of a scenario and of a network profile (domain/src/lib.rs):  *)
(* which of them are valid, the load at a point of time, and the addresses     *)
(* that a client endpoint connects from.                                      *)
(*                                                                            *)
(* A scenario is a record: protocol, tls, proxy (an explicit proxy), clients   *)
(* and secs (virtual_clients and duration_secs), stages (load_stages), max     *)
(* (transactions_per_connection), keepAlive, streams (max_concurrent_streams)  *)
(* and big, whether a payload is larger than the buffers of a connection.      *)
EXTENDS Integers, Sequences, SequencesExt

CONSTANT AddressBits  \* width of an address, 32 in the code

ASSUME AddressAssumption == AddressBits \in Nat /\ AddressBits > 2

(* A fact of arithmetic, for the provers: they know nothing of a power.        *)
ASSUME PowerAssumption == \A n \in 0 .. AddressBits : 2 ^ n \in Nat \ {0}

-----------------------------------------------------------------------------
(* Load profile                                                               *)

Larger(m, n) == IF m < n THEN n ELSE m

(* What the first n stages last, in milliseconds.                             *)
StagesEnd(stages, n) ==
  LET end[i \in 0 .. Len(stages)] ==
        IF i = 0 THEN 0 ELSE end[i - 1] + 1000 * stages[i].secs
  IN  end[n]

EffectiveDuration(s) ==
  IF s.stages = <<>> THEN 1000 * s.secs ELSE StagesEnd(s.stages, Len(s.stages))

MaximumVirtualClients(s) ==
  IF s.stages = <<>> THEN s.clients
  ELSE FoldLeft(LAMBDA max, stage : Larger(max, stage.target), 0, s.stages)

(* Mutant of StageAt: a stage still counts at the moment it ends.              *)
StageAtItsEnd(stages, ms) ==
  CHOOSE i \in DOMAIN stages :
    /\ ms <= StagesEnd(stages, i) \/ i = Len(stages)
    /\ \A j \in 1 .. i - 1 : ms > StagesEnd(stages, j)

(* The first stage that is not over, or the last one, which never is.          *)
StageAt(stages, ms) ==
  CHOOSE i \in DOMAIN stages :
    /\ ms < StagesEnd(stages, i) \/ i = Len(stages)
    /\ \A j \in 1 .. i - 1 : ms >= StagesEnd(stages, j)

PreviousTarget(stages, i) == IF i = 1 THEN 0 ELSE stages[i - 1].target

(* f64::round, then max(0.0).  Nothing bounds the progress of a ramp by 1: a   *)
(* last stage that is a ramp goes on past its target.                         *)
RampTarget(stages, i, ms) ==
  LET from == PreviousTarget(stages, i)
      span == 1000 * stages[i].secs
      gone == ms - StagesEnd(stages, i - 1)
  IN  Larger(0, (2 * (from * span + (stages[i].target - from) * gone) + span)
                  \div (2 * span))

LoadAt(s, ms) ==
  IF s.stages = <<>>
  THEN [stage |-> 0, desired |-> s.clients, included |-> TRUE]
  ELSE LET i == StageAt(s.stages, ms)
           stage == s.stages[i]
       IN  [stage |-> i - 1, included |-> stage.included,
            desired |-> IF stage.mode = "hold" \/ stage.secs = 0
                        THEN stage.target
                        ELSE RampTarget(s.stages, i, ms)]

(* Scenario::validate, as far as it speaks of what is modelled.                *)
ValidScenario(s) ==
  /\ s.stages = <<>> => s.secs > 0 /\ s.clients > 0
  /\ Len(s.stages) <= 50
  /\ \A i \in DOMAIN s.stages : s.stages[i].secs > 0
  /\ MaximumVirtualClients(s) > 0
  /\ s.protocol = "http2" => s.tls /\ s.streams \in 1 .. 1000
  /\ s.protocol = "http1" /\ ~s.keepAlive => s.max = 1

-----------------------------------------------------------------------------
(* Address pools.  An endpoint of a profile has a node, an interface (nic),    *)
(* and a pool: start address, prefix length and count.                        *)

SubnetSize(prefix) == 2 ^ (AddressBits - prefix)
Network(e) == e.start - (e.start % SubnetSize(e.prefix))
Broadcast(e) == Network(e) + SubnetSize(e.prefix) - 1
PoolEnd(e) == e.start + e.count - 1

(* Mutant of ValidPool: the end of the pool is compared as the start is.       *)
PoolMayReachBroadcast(e) ==
  /\ e.count \in 1 .. 4096
  /\ e.prefix \in 1 .. AddressBits - 2
  /\ PoolEnd(e) < 2 ^ AddressBits
  /\ e.start > Network(e) /\ PoolEnd(e) <= Broadcast(e)

(* ipv4_range                                                                  *)
ValidPool(e) ==
  /\ e.count \in 1 .. 4096
  /\ e.prefix \in 1 .. AddressBits - 2
  /\ PoolEnd(e) < 2 ^ AddressBits
  /\ e.start > Network(e) /\ PoolEnd(e) < Broadcast(e)

(* NetworkProfileDraft::validate                                               *)
ValidDraft(draft) ==
  LET client == draft.client
      server == draft.server
  IN  /\ ValidPool(client) /\ ValidPool(server)
      /\ Network(client) = Network(server) /\ client.prefix = server.prefix
      /\ client.start > PoolEnd(server) \/ server.start > PoolEnd(client)
      /\ client.node = server.node => client.nic # server.nic

(* scenario_runtime, of a managed path: the addresses the client binds, and    *)
(* the address the server listens on.                                         *)
Sources(draft) == [i \in 1 .. draft.client.count |-> draft.client.start + i - 1]
Target(draft) == draft.server.start
=============================================================================
