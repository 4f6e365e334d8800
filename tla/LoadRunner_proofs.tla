------------------------- MODULE LoadRunner_proofs -------------------------
(* Proofs about a client endpoint, for every scenario and profile, any number  *)
(* of virtual clients, Stops, pauses and hanging peers: what a client that has *)
(* to rest still begins, what the last report of a run holds, the load that    *)
(* the profile asks for, and the addresses that connections come from.         *)
(*                                                                            *)
(* Only what these properties are about is typed.  The end of a stage is a     *)
(* recursive function: what it returns is proved by induction over a set of    *)
(* numbers (StagesEndIs).                                                     *)
EXTENDS LoadRunner, WellFoundedInduction, TLAPS

-----------------------------------------------------------------------------
(* The inductive invariant                                                    *)

VirtualClient == [pc : Pc, queued : Nat, flight : Nat, launched : Int, source : Nat]

(* The profile's values are numbers, and the worker that connects next has a   *)
(* source.                                                                    *)
Typed ==
  /\ worker \in [Worker -> VirtualClient]
  /\ \A e \in {draft.client, draft.server} :
       e.start \in Nat /\ e.prefix \in Nat /\ e.count \in Nat
  /\ ValidDraft(draft)
  /\ attempted \in 0 .. draft.client.count - 1
  /\ Protocol = "http2" => scenario.streams \in Nat

(* Connections come from the client's pool.                                    *)
InPool ==
  \A w \in Worker : worker[w].source # 0 =>
    worker[w].source \in draft.client.start .. PoolEnd(draft.client)

(* From these places a worker reaches an operation, if at all, without looking *)
(* at its gate again; on HTTP/1 and HTTP/2 only from the last.                 *)
PastTheGate == {"connect", "tunnel", "tls", "begin"}

(* What a worker checked and did not begin, with what it began late, is within *)
(* its allowance: on HTTP/2 what it checked is queued, and otherwise one that   *)
(* began an operation late is not on the way to another one.                   *)
LateChecked ==
  \A w \in Worker :
    /\ late[w] \in Nat
    /\ Protocol = "http2" =>
         /\ worker[w].pc \notin {"held", "begin"}
         /\ late[w] + worker[w].queued <= scenario.streams
    /\ Protocol # "http2" =>
         /\ worker[w].queued = 0
         /\ late[w] <= 1
         /\ late[w] = 1 => worker[w].pc \notin PastTheGate

(* While the load lasts, only a Stop clears running, and the metric task goes  *)
(* on as long as it is set.                                                   *)
Lasts ==
  /\ report \in {"check", "sleep", "send", "done"}
  /\ job \notin {"flushing", "completed"} =>
       /\ running \/ stopped
       /\ running => report # "done"

(* After it no worker is left to change a counter, and the metric task, which  *)
(* was not past its last reading, reads them once more.                        *)
Flushes ==
  job \in {"flushing", "completed"} =>
    /\ ~running
    /\ \A w \in Worker : worker[w].pc = "exit"
    /\ stopped \/ missed \/ ~unreported \/ report = "sleep"
    /\ job = "completed" => report = "done"

IInv == Typed /\ InPool /\ LateChecked /\ Lasts /\ Flushes

-----------------------------------------------------------------------------
(* Address pools                                                              *)

(* A number is given by its quotient and its remainder.                        *)
LEMMA Division ==
  ASSUME NEW a \in Nat, NEW size \in Nat \ {0}
  PROVE  /\ a = size * (a \div size) + (a % size)
         /\ a \div size \in Nat
         /\ a % size \in 0 .. size - 1
  OBVIOUS

(* ... and is the only one with them.                                         *)
LEMMA Composition ==
  ASSUME NEW q \in Int, NEW r \in Int, NEW size \in Nat \ {0},
         0 <= r, r < size
  PROVE  (size * q + r) \div size = q /\ (size * q + r) % size = r
  OBVIOUS

(* Two multiples of a size that are equal have equal factors.                  *)
LEMMA Factor ==
  ASSUME NEW p \in Int, NEW q \in Int, NEW size \in Nat \ {0},
         size * p = size * q
  PROVE  p = q
<1>1. (size * p + 0) \div size = p
  BY Composition
<1>2. (size * q + 0) \div size = q
  BY Composition
<1> QED
  BY <1>1, <1>2

(* An address between the network and the broadcast address of a host of its   *)
(* subnet is in that subnet and is a host's.                                   *)
LEMMA BetweenIsInside ==
  ASSUME NEW size \in Nat \ {0}, NEW host \in Nat, NEW other \in Nat,
         host - (host % size) < other,
         other < host - (host % size) + size - 1
  PROVE  /\ other \div size = host \div size
         /\ other % size \notin {0, size - 1}
<1> DEFINE q == host \div size
           m == host % size
           base == size * q
<1>1. host = base + m /\ q \in Nat /\ m \in 0 .. size - 1
  BY Division
<1>2. base \in Int
  <2> HIDE DEF q
  <2> QED BY <1>1
<1> DEFINE r == other - base
<1>3. /\ r \in Int /\ 0 < r /\ r < size - 1
      /\ other = base + r
  <2>1. host - m < other /\ other < host - m + size - 1
    OBVIOUS
  <2> HIDE DEF base, m
  <2> QED BY <1>1, <1>2, <2>1
<1>4. other \div size = q /\ other % size = r
  <2>1. (size * q + r) \div size = q /\ (size * q + r) % size = r
    <3> HIDE DEF q, r
    <3>1. 0 <= r /\ r < size /\ q \in Int
      BY <1>1, <1>3
    <3> QED BY <1>3, <3>1, Composition
  <2> QED BY <1>3, <2>1
<1> QED
  BY <1>3, <1>4

LEMMA PoolIs ==
  ASSUME NEW e, ValidPool(e)
  PROVE  /\ e.count \in Nat \ {0} /\ e.prefix \in 1 .. AddressBits - 2
         /\ e.start > Network(e) /\ PoolEnd(e) < Broadcast(e)
<1> DEFINE counts == 1 .. 4096
<1>1. /\ e.count \in counts /\ e.prefix \in 1 .. AddressBits - 2
      /\ e.start > Network(e) /\ PoolEnd(e) < Broadcast(e)
  BY SMTT(90) DEF ValidPool
<1>2. \A n \in counts : n \in Nat \ {0}
  BY SMT
<1> HIDE DEF counts
<1> QED BY <1>1, <1>2

(* What a valid profile says of the client's addresses.                        *)
LEMMA PoolsAreApart ==
  ASSUME Typed,
         NEW source \in draft.client.start .. PoolEnd(draft.client)
  PROVE  LET size == 2 ^ (AddressBits - draft.server.prefix)
         IN  /\ source \div size = Target(draft) \div size
             /\ source % size \notin {0, size - 1}
             /\ source \notin draft.server.start .. PoolEnd(draft.server)
<1> DEFINE size == 2 ^ (AddressBits - draft.server.prefix)
           client == draft.client
           server == draft.server
<1>1. /\ client.start \in Nat /\ client.count \in Nat
      /\ server.start \in Nat /\ server.prefix \in Nat /\ server.count \in Nat
  BY DEF Typed
<1>2. /\ ValidPool(client) /\ ValidPool(server)
      /\ Network(client) = Network(server) /\ client.prefix = server.prefix
      /\ client.start > PoolEnd(server) \/ server.start > PoolEnd(client)
  BY DEF Typed, ValidDraft
<1>3. size \in Nat \ {0}
  <2>1. AddressBits - server.prefix \in 0 .. AddressBits
    BY <1>1, <1>2, AddressAssumption, PoolIs
  <2> QED BY <2>1, PowerAssumption
<1>4. SubnetSize(client.prefix) = size /\ SubnetSize(server.prefix) = size
  BY <1>2 DEF SubnetSize
<1>5. /\ Network(client) = client.start - (client.start % size)
      /\ Network(server) = server.start - (server.start % size)
      /\ Broadcast(client) = Network(client) + size - 1
      /\ Broadcast(server) = Network(server) + size - 1
  <2> HIDE DEF size
  <2> QED BY <1>4 DEF Network, Broadcast
<1> HIDE DEF size
<1>6. /\ PoolEnd(client) \in Int /\ PoolEnd(server) \in Int
      /\ Network(client) \in Int /\ Network(server) \in Int
      /\ Broadcast(client) \in Int
  <2>1. client.start % size \in Int /\ server.start % size \in Int
    BY <1>1, <1>3
  <2> QED BY <1>1, <1>3, <1>5, <2>1 DEF PoolEnd
<1>7. /\ client.start > Network(client)
      /\ PoolEnd(client) < Broadcast(client)
  BY <1>2, PoolIs
<1>8. client.count \in Nat \ {0} /\ server.count \in Nat \ {0}
  BY <1>2, PoolIs
<1>9. /\ source \in Nat
      /\ client.start <= source /\ source <= PoolEnd(client)
  BY <1>1, <1>6
<1>10. /\ server.start - (server.start % size) < source
       /\ source < server.start - (server.start % size) + size - 1
  <2>1. Network(client) < source /\ source < Broadcast(client)
    BY <1>1, <1>6, <1>7, <1>9
  <2>2. Broadcast(client) = Network(server) + size - 1
    BY <1>2, <1>5
  <2> QED BY <1>2, <1>5, <2>1, <2>2
<1>11. /\ source \div size = server.start \div size
       /\ source % size \notin {0, size - 1}
  BY <1>1, <1>3, <1>9, <1>10, BetweenIsInside
<1>12. source \notin server.start .. PoolEnd(server)
  BY <1>1, <1>2, <1>6, <1>9
<1>13. source \div size = Target(draft) \div size
  BY <1>11 DEF Target
<1> QED
  BY <1>11, <1>12, <1>13 DEF size

(* The source of the next connection is in the client's pool.                  *)
LEMMA NextSource ==
  ASSUME Typed
  PROVE  /\ Sources(draft)[attempted + 1] \in Nat
         /\ Sources(draft)[attempted + 1]
              \in draft.client.start .. PoolEnd(draft.client)
         /\ (attempted + 1) % draft.client.count \in 0 .. draft.client.count - 1
<1> DEFINE count == draft.client.count
           start == draft.client.start
<1>1. start \in Nat /\ count \in Nat
  BY DEF Typed
<1>2. attempted \in 0 .. count - 1
  BY DEF Typed
<1>3. Sources(draft) = [i \in 1 .. count |-> start + i - 1]
  BY DEF Sources
<1>4. PoolEnd(draft.client) = start + count - 1
  BY DEF PoolEnd
<1> HIDE DEF count, start
<1>5. attempted \in Nat /\ attempted + 1 \in 1 .. count
  BY <1>1, <1>2
<1>6. Sources(draft)[attempted + 1] = start + (attempted + 1) - 1
  BY <1>3, <1>5
<1>7. /\ Sources(draft)[attempted + 1] \in Nat
      /\ Sources(draft)[attempted + 1] \in start .. start + count - 1
  BY <1>1, <1>5, <1>6
<1>8. (attempted + 1) % count \in 0 .. count - 1
  BY <1>1, <1>5
<1> QED
  BY <1>4, <1>7, <1>8 DEF count, start

-----------------------------------------------------------------------------
(* The virtual clients' steps                                                 *)

(* A step leaves the queue and the requests in flight alone or drops of them,  *)
(* sends a queued request, or, of a worker that need not rest, queues one.     *)
Queues(w) ==
  \/ worker'[w].queued <= worker[w].queued /\ worker'[w].flight <= worker[w].flight
  \/ /\ worker[w].queued > 0
     /\ worker'[w].queued = worker[w].queued - 1
     /\ worker'[w].pc = worker[w].pc
  \/ /\ Protocol = "http2" /\ ~Rests(w)
     /\ worker[w].queued < scenario.streams
     /\ worker'[w].queued = worker[w].queued + 1

(* What a step of a worker may do: it is not the step of one that has exited,  *)
(* another worker is left alone, an operation ends the way to it, only one     *)
(* that need not rest sets out on that way, the queue changes as above, and a  *)
(* source is of the pool.                                                      *)
Moves(w) ==
  /\ worker[w].pc # "exit"
  /\ worker' \in [Worker -> VirtualClient]
  /\ \A v \in Worker \ {w} : worker'[v] = worker[v]
  /\ worker[w].pc = "begin" => worker'[w].pc \notin PastTheGate
  /\ worker'[w].pc \in PastTheGate => worker[w].pc \in PastTheGate \/ ~Rests(w)
  /\ Protocol = "http2" /\ worker[w].pc \notin {"held", "begin"} =>
       worker'[w].pc \notin {"held", "begin"}
  /\ Queues(w)
  /\ \/ worker'[w].source = worker[w].source
     \/ worker'[w].source \in draft.client.start .. PoolEnd(draft.client)
  /\ attempted' \in 0 .. draft.client.count - 1

LEMMA Continues ==
  ASSUME Typed, NEW w \in Worker, NEW pc \in Pc, Continue(w, pc)
  PROVE  /\ worker' \in [Worker -> VirtualClient]
         /\ \A v \in Worker \ {w} : worker'[v] = worker[v]
         /\ worker'[w].pc = pc /\ worker'[w].source = worker[w].source
         /\ Queues(w)
<1> DEFINE r == [worker[w] EXCEPT !.pc = pc]
<1>1. worker[w] \in VirtualClient
  BY DEF Typed
<1>2. /\ r \in VirtualClient /\ r.pc = pc /\ r.source = worker[w].source
      /\ r.queued <= worker[w].queued /\ r.flight <= worker[w].flight
  BY <1>1 DEF VirtualClient
<1>3. worker' = [worker EXCEPT ![w] = r]
  BY DEF Continue
<1> HIDE DEF r
<1> QED
  BY <1>2, <1>3 DEF Typed, Queues

LEMMA Closes ==
  ASSUME Typed, NEW w \in Worker, Close(w)
  PROVE  /\ worker' \in [Worker -> VirtualClient]
         /\ \A v \in Worker \ {w} : worker'[v] = worker[v]
         /\ worker'[w].pc = "loop" /\ worker'[w].source = worker[w].source
         /\ Queues(w)
<1> DEFINE pc == "loop"
           none == 0
           r == [worker[w] EXCEPT !.pc = pc, !.queued = none, !.flight = none,
                                  !.launched = none]
<1>1. worker[w] \in VirtualClient
  BY DEF Typed
<1>2. /\ r \in VirtualClient /\ r.pc = "loop" /\ r.source = worker[w].source
      /\ r.queued <= worker[w].queued /\ r.flight <= worker[w].flight
  <2>1. pc \in Pc /\ none \in Nat
    BY DEF Pc
  <2>2. \A k \in Nat : none <= k
    OBVIOUS
  <2> HIDE DEF pc, none
  <2>3. r \in VirtualClient
    <3>1. none \in Int
      BY <2>1
    <3> QED BY <1>1, <2>1, <3>1 DEF VirtualClient
  <2>4. r.pc = pc /\ r.source = worker[w].source /\ r.queued = none /\ r.flight = none
    BY <1>1 DEF VirtualClient
  <2>5. worker[w].queued \in Nat /\ worker[w].flight \in Nat
    BY <1>1 DEF VirtualClient
  <2> QED BY <2>2, <2>3, <2>4, <2>5 DEF pc
<1>3. worker' = [worker EXCEPT ![w] = r]
  BY DEF Close
<1> HIDE DEF r
<1> QED
  BY <1>2, <1>3 DEF Typed, Queues

(* Going on to a place before or after the gate, or closing the connection.    *)
LEMMA ContinuesMoves ==
  ASSUME Typed, NEW w \in Worker, NEW pc \in Pc, Continue(w, pc),
         worker[w].pc # "exit", attempted' = attempted,
         worker[w].pc = "begin" => pc \notin PastTheGate,
         pc \in PastTheGate => worker[w].pc \in PastTheGate \/ ~Rests(w),
         Protocol = "http2" /\ worker[w].pc \notin {"held", "begin"} =>
           pc \notin {"held", "begin"}
  PROVE  Moves(w)
<1>1. attempted' \in 0 .. draft.client.count - 1
  BY DEF Typed
<1> QED
  BY <1>1, Continues DEF Moves

LEMMA ClosesMoves ==
  ASSUME Typed, NEW w \in Worker, Close(w), worker[w].pc # "exit",
         attempted' = attempted
  PROVE  Moves(w)
<1>1. attempted' \in 0 .. draft.client.count - 1
  BY DEF Typed
<1> QED
  BY <1>1, Closes DEF Moves, PastTheGate

LEMMA ExitMoves ==
  ASSUME Typed, NEW w \in Worker, WorkerExits(w) PROVE Moves(w)
<1>1. Continue(w, "exit") /\ worker[w].pc = "loop" /\ attempted' = attempted
  BY DEF WorkerExits, Uncounted, counters
<1>2. "exit" \in Pc /\ "exit" \notin PastTheGate
  BY DEF Pc, PastTheGate
<1> QED
  BY <1>1, <1>2, ContinuesMoves

LEMMA StartMoves ==
  ASSUME Typed, NEW w \in Worker, WorkerStarts(w) PROVE Moves(w)
<1> DEFINE source == Sources(draft)[attempted + 1]
           r == [worker[w] EXCEPT !.pc = "connect", !.source = source]
<1>1. /\ worker[w].pc = "loop" /\ Enabled(w) /\ ~paused
      /\ attempted' = (attempted + 1) % draft.client.count
  BY DEF WorkerStarts
<1>2. worker' = [worker EXCEPT ![w] = r]
  BY DEF WorkerStarts
<1>3. /\ source \in Nat /\ source \in draft.client.start .. PoolEnd(draft.client)
      /\ attempted' \in 0 .. draft.client.count - 1
  BY <1>1, NextSource
<1>4. worker[w] \in VirtualClient
  BY DEF Typed
<1>5. /\ r \in VirtualClient /\ r.pc = "connect" /\ r.source = source
      /\ r.queued <= worker[w].queued /\ r.flight <= worker[w].flight
  <2> HIDE DEF source
  <2>1. "connect" \in Pc
    BY DEF Pc
  <2>2. r \in VirtualClient
    BY <1>3, <1>4, <2>1 DEF VirtualClient
  <2>3. /\ r.pc = "connect" /\ r.source = source
        /\ r.queued = worker[w].queued /\ r.flight = worker[w].flight
    BY <1>4 DEF VirtualClient
  <2>4. worker[w].queued \in Nat /\ worker[w].flight \in Nat
    BY <1>4 DEF VirtualClient
  <2> QED BY <2>2, <2>3, <2>4
<1> HIDE DEF r, source
<1>6. /\ worker' \in [Worker -> VirtualClient]
      /\ \A v \in Worker \ {w} : worker'[v] = worker[v]
      /\ worker'[w] = r
  BY <1>2, <1>5 DEF Typed
<1>7. ~Rests(w)
  BY <1>1 DEF Rests
<1> QED
  BY <1>1, <1>3, <1>5, <1>6, <1>7 DEF Moves, Queues

(* From connect to the gate, or for TCP to the operation.                      *)
LEMMA SetUpMoves ==
  ASSUME Typed, NEW w \in Worker,
         WorkerConnects(w) \/ WorkerTunnels(w) \/ WorkerHandshakes(w)
  PROVE  Moves(w)
<1>1. /\ worker[w].pc \in {"connect", "tunnel", "tls"}
      /\ attempted' = attempted
      /\ \/ Close(w)
         \/ \E pc \in {"tunnel", "tls", "gate"} : Continue(w, pc)
         \/ Protocol # "http2" /\ Continue(w, "begin")
  BY DEF WorkerConnects, WorkerTunnels, WorkerHandshakes, Fail, AfterTunnel,
         AfterTls, Uncounted, counters
<1>2. {"tunnel", "tls", "begin", "gate"} \subseteq Pc
  BY DEF Pc, Stuck
<1>3. worker[w].pc \in PastTheGate
  BY <1>1 DEF PastTheGate
<1> QED
  BY <1>1, <1>2, <1>3, ContinuesMoves, ClosesMoves

(* The gate of HTTP/1.                                                        *)
LEMMA GateMoves ==
  ASSUME Typed, NEW w \in Worker, WorkerPasses(w) \/ WorkerResumes(w)
  PROVE  Moves(w)
<1>1. /\ worker[w].pc = "held" \/ (worker[w].pc = "gate" /\ Protocol # "http2")
      /\ attempted' = attempted
      /\ \/ Close(w)
         \/ Continue(w, "held")
         \/ Continue(w, "begin") /\ ~Rests(w)
  <2>1. CASE WorkerPasses(w)
    BY <2>1 DEF WorkerPasses, Uncounted, counters, Rests
  <2>2. CASE WorkerResumes(w)
    BY <2>2 DEF WorkerResumes, Uncounted, counters, Rests, Enabled
  <2> QED BY <2>1, <2>2
<1>2. /\ {"held", "begin"} \subseteq Pc
      /\ "held" \notin PastTheGate
  BY DEF Pc, PastTheGate
<1> QED
  BY <1>1, <1>2, ContinuesMoves, ClosesMoves

(* The gate of HTTP/2: a request joins the queue.                              *)
LEMMA LaunchMoves ==
  ASSUME Typed, NEW w \in Worker, WorkerLaunches(w)
  PROVE  Moves(w)
<1>1. /\ worker[w].pc = "gate" /\ attempted' = attempted /\ Protocol = "http2"
  BY DEF WorkerLaunches, Uncounted, counters
<1>2. CASE Close(w) \/ Continue(w, "wait")
  <2>1. "wait" \in Pc /\ "wait" \notin PastTheGate
    BY DEF Pc, Stuck, PastTheGate
  <2> QED BY <1>1, <1>2, <2>1, ContinuesMoves, ClosesMoves
<1>3. ASSUME Enabled(w), Pending(w) < scenario.streams,
             worker' = [worker EXCEPT ![w].queued = @ + 1, ![w].launched = Launched(w)]
      PROVE  Moves(w)
  <2> DEFINE queued == worker[w].queued + 1
             launched == Launched(w)
             r == [worker[w] EXCEPT !.queued = queued, !.launched = launched]
  <2>1. worker' = [worker EXCEPT ![w] = r]
    BY <1>3
  <2>2. worker[w] \in VirtualClient
    BY DEF Typed
  <2>3. queued \in Nat /\ launched \in Int
    BY <2>2 DEF VirtualClient, Launched
  <2>4. worker[w].queued < scenario.streams
    BY <1>1, <1>3, <2>2 DEF Pending, VirtualClient, Typed
  <2> HIDE DEF queued, launched
  <2>5. /\ r \in VirtualClient /\ r.pc = "gate" /\ r.source = worker[w].source
        /\ r.queued = queued
    BY <1>1, <2>2, <2>3 DEF VirtualClient
  <2> HIDE DEF r
  <2>6. /\ worker' \in [Worker -> VirtualClient]
        /\ \A v \in Worker \ {w} : worker'[v] = worker[v]
        /\ worker'[w] = r
    BY <2>1, <2>5 DEF Typed
  <2>7. attempted' \in 0 .. draft.client.count - 1
    BY <1>1 DEF Typed
  <2>8. ~Rests(w)
    BY <1>1, <1>3 DEF Rests
  <2>9. Queues(w)
    BY <1>1, <2>4, <2>5, <2>6, <2>8 DEF Queues, queued
  <2>10. "gate" \notin PastTheGate
    BY DEF PastTheGate
  <2> QED BY <1>1, <2>5, <2>6, <2>7, <2>9, <2>10 DEF Moves
<1> QED
  BY <1>2, <1>3 DEF WorkerLaunches

LEMMA BeginMoves ==
  ASSUME Typed, NEW w \in Worker, WorkerBegins(w) PROVE Moves(w)
<1> DEFINE launched == IF Protocol = "tcp" THEN worker[w].launched ELSE Launched(w)
           r == [worker[w] EXCEPT !.pc = "write", !.launched = launched]
<1>1. worker[w].pc = "begin" /\ attempted' = attempted
  BY DEF WorkerBegins, Uncounted, counters
<1>2. worker' = [worker EXCEPT ![w] = r]
  BY DEF WorkerBegins
<1>3. worker[w] \in VirtualClient
  BY DEF Typed
<1>4. launched \in Int
  BY <1>3 DEF VirtualClient, Launched
<1> HIDE DEF launched
<1>5. /\ r \in VirtualClient /\ r.pc = "write" /\ r.source = worker[w].source
      /\ r.queued <= worker[w].queued /\ r.flight <= worker[w].flight
  <2>1. "write" \in Pc
    BY DEF Pc, Stuck
  <2>2. r \in VirtualClient
    BY <1>3, <1>4, <2>1 DEF VirtualClient
  <2>3. /\ r.pc = "write" /\ r.source = worker[w].source
        /\ r.queued = worker[w].queued /\ r.flight = worker[w].flight
    BY <1>3 DEF VirtualClient
  <2>4. worker[w].queued \in Nat /\ worker[w].flight \in Nat
    BY <1>3 DEF VirtualClient
  <2> QED BY <2>2, <2>3, <2>4
<1> HIDE DEF r
<1>6. /\ worker' \in [Worker -> VirtualClient]
      /\ \A v \in Worker \ {w} : worker'[v] = worker[v]
      /\ worker'[w] = r
  BY <1>2, <1>5 DEF Typed
<1>7. attempted' \in 0 .. draft.client.count - 1
  BY <1>1 DEF Typed
<1>8. "write" \notin PastTheGate
  BY DEF PastTheGate
<1> QED
  BY <1>1, <1>5, <1>6, <1>7, <1>8 DEF Moves, Queues

(* A queued request is sent.                                                   *)
LEMMA SendMoves ==
  ASSUME Typed, NEW w \in Worker, WorkerSends(w) PROVE Moves(w)
<1> DEFINE queued == worker[w].queued - 1
           flight == worker[w].flight + 1
           r == [worker[w] EXCEPT !.queued = queued, !.flight = flight]
<1>1. worker[w].pc = "wait" /\ worker[w].queued > 0 /\ attempted' = attempted
  BY DEF WorkerSends, Uncounted, counters
<1>2. worker' = [worker EXCEPT ![w] = r]
  BY DEF WorkerSends
<1>3. worker[w] \in VirtualClient
  BY DEF Typed
<1>4. queued \in Nat /\ flight \in Nat
  BY <1>1, <1>3 DEF VirtualClient
<1> HIDE DEF queued, flight
<1>5. /\ r \in VirtualClient /\ r.pc = "wait" /\ r.source = worker[w].source
      /\ r.queued = queued
  BY <1>1, <1>3, <1>4 DEF VirtualClient
<1> HIDE DEF r
<1>6. /\ worker' \in [Worker -> VirtualClient]
      /\ \A v \in Worker \ {w} : worker'[v] = worker[v]
      /\ worker'[w] = r
  BY <1>2, <1>5 DEF Typed
<1>7. attempted' \in 0 .. draft.client.count - 1
  BY <1>1 DEF Typed
<1>8. Queues(w)
  BY <1>1, <1>5, <1>6 DEF Queues, queued
<1>9. "wait" \notin PastTheGate
  BY DEF PastTheGate
<1> QED
  BY <1>1, <1>5, <1>6, <1>7, <1>8, <1>9 DEF Moves

(* A request and its answer.                                                   *)
LEMMA ExchangeMoves ==
  ASSUME Typed, NEW w \in Worker,
         WorkerWrites(w) \/ WorkerReads(w) \/ WorkerIsAnswered(w)
  PROVE  Moves(w)
<1>1. /\ worker[w].pc \in {"write", "read", "wait"}
      /\ attempted' = attempted
      /\ \/ Close(w)
         \/ \E pc \in {"read", "gate"} : Continue(w, pc)
         \/ /\ worker[w].flight > 0
            /\ worker' = [worker EXCEPT ![w].pc = "gate", ![w].flight = @ - 1]
  BY DEF WorkerWrites, WorkerReads, WorkerIsAnswered, Fail
<1>2. {"read", "gate"} \subseteq Pc /\ {"read", "gate"} \cap PastTheGate = {}
  BY DEF Pc, PastTheGate
<1>3. ASSUME worker[w].flight > 0,
             worker' = [worker EXCEPT ![w].pc = "gate", ![w].flight = @ - 1]
      PROVE  Moves(w)
  <2> DEFINE flight == worker[w].flight - 1
             r == [worker[w] EXCEPT !.pc = "gate", !.flight = flight]
  <2>1. worker' = [worker EXCEPT ![w] = r]
    BY <1>3
  <2>2. worker[w] \in VirtualClient
    BY DEF Typed
  <2>3. flight \in Nat /\ flight <= worker[w].flight
    BY <1>3, <2>2 DEF VirtualClient
  <2> HIDE DEF flight
  <2>4. /\ r \in VirtualClient /\ r.pc = "gate" /\ r.source = worker[w].source
        /\ r.queued <= worker[w].queued /\ r.flight <= worker[w].flight
    <3>1. "gate" \in Pc
      BY DEF Pc
    <3>2. r \in VirtualClient
      BY <2>2, <2>3, <3>1 DEF VirtualClient
    <3>3. /\ r.pc = "gate" /\ r.source = worker[w].source
          /\ r.queued = worker[w].queued /\ r.flight = flight
      BY <2>2 DEF VirtualClient
    <3>4. worker[w].queued \in Nat
      BY <2>2 DEF VirtualClient
    <3> QED BY <2>3, <3>2, <3>3, <3>4
  <2> HIDE DEF r
  <2>5. /\ worker' \in [Worker -> VirtualClient]
        /\ \A v \in Worker \ {w} : worker'[v] = worker[v]
        /\ worker'[w] = r
    BY <2>1, <2>4 DEF Typed
  <2>6. attempted' \in 0 .. draft.client.count - 1
    BY <1>1 DEF Typed
  <2> QED BY <1>1, <1>2, <2>4, <2>5, <2>6 DEF Moves, Queues
<1> QED
  BY <1>1, <1>2, <1>3, ContinuesMoves, ClosesMoves

LEMMA WorkerStepMoves ==
  ASSUME Typed, NEW w \in Worker, WorkerSteps(w)
  PROVE  Moves(w) /\ UNCHANGED Shared
<1>1. Moves(w)
  BY ExitMoves, StartMoves, SetUpMoves, GateMoves, LaunchMoves, BeginMoves,
     SendMoves, ExchangeMoves DEF WorkerSteps
<1>2. UNCHANGED Shared
  BY DEF WorkerSteps, WorkerExits, WorkerStarts, WorkerConnects, WorkerTunnels,
         WorkerHandshakes, WorkerPasses, WorkerResumes, WorkerBegins,
         WorkerWrites, WorkerReads, WorkerLaunches, WorkerSends, WorkerIsAnswered
<1> QED
  BY <1>1, <1>2

-----------------------------------------------------------------------------
(* The history                                                                *)

(* No step but a worker's changes the worker, except the first.                *)
OtherStep ==
  \/ Begin \/ PacerChecks \/ PacerTicks \/ Join \/ Complete
  \/ ReportChecks \/ ReportReads \/ ReportSends
  \/ Stop \/ SetPaused \/ PeerHangs

LEMMA OthersKeepWorkers ==
  ASSUME Typed, OtherStep
  PROVE  /\ UNCHANGED <<scenario, draft, attempted>>
         /\ worker' \in [Worker -> VirtualClient]
         /\ \A w \in Worker :
              /\ worker'[w].source = worker[w].source
              /\ worker'[w].queued = worker[w].queued
              /\ worker'[w].flight = worker[w].flight
              /\ \/ worker'[w].pc = worker[w].pc
                 \/ job = "delay" /\ worker'[w].pc \in {"loop", "exit"}
<1>1. UNCHANGED <<scenario, draft, attempted>>
  BY DEF OtherStep, Begin, PacerChecks, PacerTicks, Join, Complete, ReportChecks,
         ReportReads, ReportSends, Stop, SetPaused, PeerHangs, Unmeasured, input,
         counters
<1>2. CASE Begin
  <2> DEFINE Pc1(w) == IF w < MaximumVirtualClients(scenario) THEN "loop" ELSE "exit"
             r(w) == [worker[w] EXCEPT !.pc = Pc1(w)]
  <2>1. job = "delay" /\ worker' = [w \in Worker |-> r(w)]
    BY <1>2 DEF Begin
  <2>2. \A w \in Worker :
          /\ r(w) \in VirtualClient
          /\ r(w).source = worker[w].source
          /\ r(w).queued = worker[w].queued /\ r(w).flight = worker[w].flight
          /\ r(w).pc \in {"loop", "exit"}
    <3> SUFFICES ASSUME NEW w \in Worker
                 PROVE  /\ r(w) \in VirtualClient
                        /\ r(w).source = worker[w].source
                        /\ r(w).queued = worker[w].queued /\ r(w).flight = worker[w].flight
                        /\ r(w).pc \in {"loop", "exit"}
      OBVIOUS
    <3>1. worker[w] \in VirtualClient
      BY DEF Typed
    <3>2. Pc1(w) \in Pc /\ Pc1(w) \in {"loop", "exit"}
      BY DEF Pc
    <3> HIDE DEF Pc1
    <3> QED BY <3>1, <3>2 DEF VirtualClient
  <2> HIDE DEF r
  <2> QED BY <1>1, <2>1, <2>2
<1>3. CASE ~Begin
  <2>1. worker' = worker
    BY <1>3 DEF OtherStep, PacerChecks, PacerTicks, Join, Complete, ReportChecks,
                ReportReads, ReportSends, Stop, SetPaused, PeerHangs, Unmeasured
  <2> QED BY <1>1, <2>1 DEF Typed
<1> QED
  BY <1>2, <1>3

LEMMA StepIsOneOfTwo ==
  ASSUME Step PROVE OtherStep \/ \E w \in Worker : WorkerSteps(w)
  BY DEF Step, OtherStep

LEMMA TypedKept ==
  ASSUME Typed, InPool, [Next]_vars
  PROVE  Typed' /\ InPool'
<1>1. CASE OtherStep
  <2>1. Typed'
    BY <1>1, OthersKeepWorkers DEF Typed, Protocol
  <2>2. InPool'
    BY <1>1, OthersKeepWorkers DEF InPool
  <2> QED BY <2>1, <2>2
<1>2. ASSUME NEW w \in Worker, WorkerSteps(w) PROVE Typed' /\ InPool'
  <2>1. Moves(w) /\ draft' = draft /\ scenario' = scenario
    BY <1>2, WorkerStepMoves DEF Shared, input
  <2>2. Typed'
    BY <2>1 DEF Typed, Moves, Protocol
  <2>3. InPool'
    BY <2>1 DEF InPool, Moves
  <2> QED BY <2>2, <2>3
<1>3. CASE UNCHANGED vars
  BY <1>3 DEF vars, counters, Typed, InPool, Protocol
<1> QED
  BY <1>1, <1>2, <1>3, StepIsOneOfTwo DEF Next

(* A step of a worker moves it, with the flags as they are; any other leaves   *)
(* its queue alone, and puts it before the gate if anywhere.                   *)
Left(w) ==
  /\ worker'[w].queued = worker[w].queued
  /\ worker'[w].flight = worker[w].flight
  /\ worker'[w].pc = worker[w].pc \/ worker'[w].pc \in {"loop", "exit"}

LEMMA StepsOf ==
  ASSUME Typed, Step, NEW w \in Worker
  PROVE  /\ scenario' = scenario
         /\ worker[w] \in VirtualClient /\ worker'[w] \in VirtualClient
         /\ (Moves(w) /\ (Rests(w)' <=> Rests(w))) \/ Left(w)
<1>1. CASE OtherStep
  BY <1>1, OthersKeepWorkers DEF Left, Typed
<1>2. ASSUME NEW v \in Worker, WorkerSteps(v)
      PROVE  /\ scenario' = scenario
             /\ worker[w] \in VirtualClient /\ worker'[w] \in VirtualClient
             /\ (Moves(w) /\ (Rests(w)' <=> Rests(w))) \/ Left(w)
  <2>1. Moves(v) /\ UNCHANGED <<scenario, load, running, paused, generating>>
    BY <1>2, WorkerStepMoves DEF Shared, input, flags
  <2>2. Rests(w)' <=> Rests(w)
    BY <2>1 DEF Rests, Enabled, Protocol
  <2>3. worker[w] \in VirtualClient /\ worker'[w] \in VirtualClient
    BY <2>1 DEF Typed, Moves
  <2>4. CASE v = w
    BY <2>1, <2>2, <2>3, <2>4
  <2>5. CASE v # w
    BY <2>1, <2>3, <2>5 DEF Moves, Left
  <2> QED BY <2>4, <2>5
<1> QED
  BY <1>1, <1>2, StepIsOneOfTwo

(* On HTTP/2 an operation begins when it leaves the queue, and joins it when   *)
(* the worker need not rest.                                                  *)
LEMMA QueueKept ==
  ASSUME Typed, LateChecked, Step, Remember, NEW w \in Worker, Protocol = "http2"
  PROVE  /\ late'[w] \in Nat
         /\ worker'[w].pc \notin {"held", "begin"}
         /\ late'[w] + worker'[w].queued <= scenario.streams
<1>1. /\ late[w] \in Nat /\ scenario.streams \in Nat
      /\ worker[w].pc \notin {"held", "begin"}
      /\ late[w] + worker[w].queued <= scenario.streams
  BY DEF LateChecked, Typed
<1>2. /\ scenario' = scenario
      /\ worker[w].queued \in Nat /\ worker[w].flight \in Nat
      /\ worker'[w].queued \in Nat /\ worker'[w].flight \in Nat
      /\ (Moves(w) /\ (Rests(w)' <=> Rests(w))) \/ Left(w)
  BY StepsOf DEF VirtualClient
<1>3. worker'[w].pc \notin {"held", "begin"}
  BY <1>1, <1>2 DEF Moves, Left
<1>4. /\ late'[w] \in {0, late[w], late[w] + 1}
      /\ ~Rests(w)' => late'[w] = 0
      /\ late'[w] \in {0, late[w]} \/ worker'[w].flight > worker[w].flight
  <2>1. late'[w] =
          IF ~Rests(w)' THEN 0
          ELSE IF Begun(w) /\ late[w] <= Allowance THEN late[w] + 1 ELSE late[w]
    BY DEF Remember
  <2>2. Begun(w) => worker'[w].flight > worker[w].flight
    BY <1>1 DEF Begun
  <2> QED BY <2>1, <2>2
<1>5. CASE Left(w)
  BY <1>1, <1>2, <1>3, <1>4, <1>5 DEF Left
<1>6. CASE Moves(w) /\ (Rests(w)' <=> Rests(w))
  <2>1. Queues(w)
    BY <1>6 DEF Moves
  <2>2. CASE worker'[w].queued <= worker[w].queued /\ worker'[w].flight <= worker[w].flight
    BY <1>1, <1>2, <1>3, <1>4, <2>2
  <2>3. CASE worker[w].queued > 0 /\ worker'[w].queued = worker[w].queued - 1
    BY <1>1, <1>2, <1>3, <1>4, <2>3
  <2>4. CASE /\ ~Rests(w) /\ worker[w].queued < scenario.streams
             /\ worker'[w].queued = worker[w].queued + 1
    BY <1>1, <1>2, <1>3, <1>4, <1>6, <2>4
  <2> QED BY <2>1, <2>2, <2>3, <2>4 DEF Queues
<1> QED
  BY <1>2, <1>5, <1>6

(* Otherwise an operation begins at the end of the way past the gate.          *)
LEMMA WayKept ==
  ASSUME Typed, LateChecked, Step, Remember, NEW w \in Worker, Protocol # "http2"
  PROVE  /\ late'[w] \in Nat /\ late'[w] <= 1
         /\ worker'[w].queued = 0
         /\ late'[w] = 1 => worker'[w].pc \notin PastTheGate
<1>1. /\ late[w] \in {0, 1} /\ worker[w].queued = 0
      /\ late[w] = 1 => worker[w].pc \notin PastTheGate
  BY DEF LateChecked
<1>2. /\ worker[w].queued \in Nat /\ worker[w].flight \in Nat
      /\ worker'[w].queued \in Nat /\ worker'[w].flight \in Nat
      /\ (Moves(w) /\ (Rests(w)' <=> Rests(w))) \/ Left(w)
  BY StepsOf DEF VirtualClient
<1>3. worker'[w].queued = 0 /\ worker'[w].flight <= worker[w].flight
  BY <1>1, <1>2 DEF Left, Moves, Queues
<1>4. Begun(w) => worker[w].pc = "begin" /\ worker'[w].pc # "begin"
  BY <1>2, <1>3 DEF Begun
<1>5. /\ Begun(w) => worker'[w].pc \notin PastTheGate
      /\ worker'[w].pc \in PastTheGate /\ Rests(w)' => worker[w].pc \in PastTheGate
  BY <1>2, <1>4 DEF Moves, Left, PastTheGate
<1>6. late'[w] =
        IF ~Rests(w)' THEN 0
        ELSE IF Begun(w) /\ late[w] <= 1 THEN late[w] + 1 ELSE late[w]
  BY DEF Remember, Allowance
<1>7. CASE ~Rests(w)'
  BY <1>3, <1>6, <1>7
<1>8. CASE Rests(w)' /\ Begun(w)
  <2>1. late[w] = 0
    BY <1>1, <1>4, <1>8 DEF PastTheGate
  <2> QED BY <1>3, <1>5, <1>6, <1>8, <2>1
<1>9. CASE Rests(w)' /\ ~Begun(w)
  BY <1>1, <1>3, <1>5, <1>6, <1>9
<1> QED
  BY <1>7, <1>8, <1>9

LEMMA LateCheckedKept ==
  ASSUME Typed, LateChecked, [Next]_vars
  PROVE  LateChecked'
<1>1. CASE Next
  <2>1. Step /\ Remember
    BY <1>1 DEF Next
  <2>2. ASSUME NEW w \in Worker PROVE scenario' = scenario
    BY <2>1, StepsOf
  <2> QED BY <2>1, <2>2, QueueKept, WayKept DEF LateChecked, Protocol
<1>2. CASE UNCHANGED vars
  BY <1>2 DEF vars, input, history, LateChecked, Protocol
<1> QED
  BY <1>1, <1>2

-----------------------------------------------------------------------------
(* The last report                                                            *)

Over == {"flushing", "completed"}

(* What a step does to where the job and the metric task are.                  *)
Quiet == UNCHANGED <<job, running, report>>

Reporting ==
  \/ ReportChecks \/ ReportReads \/ ReportSends

LEMMA JobSteps ==
  ASSUME Typed, Step
  PROVE  \/ Join \/ Complete \/ Reporting
         \/ Quiet /\ (OtherStep \/ \E w \in Worker : WorkerSteps(w))
                  /\ (OtherStep => unreported' = unreported)
         \/ /\ job \notin Over /\ job' \notin Over
            /\ UNCHANGED <<running, report, unreported>>
         \/ Stop
<1>1. CASE OtherStep
  <2>1. CASE Begin \/ PacerChecks \/ PacerTicks
    BY <2>1 DEF Begin, PacerChecks, PacerTicks, flags, counters, Over
  <2>2. CASE SetPaused \/ PeerHangs
    BY <1>1, <2>2 DEF SetPaused, PeerHangs, flags, counters, Unmeasured, Quiet
  <2> QED BY <1>1, <2>1, <2>2 DEF OtherStep, Reporting
<1>2. ASSUME NEW w \in Worker, WorkerSteps(w)
      PROVE  Quiet
  BY <1>2, WorkerStepMoves DEF Shared, flags, Quiet
<1>3. ~OtherStep \/ OtherStep
  OBVIOUS
<1> QED
  BY <1>1, <1>2, StepIsOneOfTwo

(* Before the load ends, a Stop is remembered when it clears running.          *)
LEMMA LastsKept ==
  ASSUME Typed, Lasts, [Next]_vars
  PROVE  Lasts'
<1>1. CASE Next
  <2>1. Step /\ stopped' = (stopped \/ (running /\ ~running' /\ job' = job))
    BY <1>1 DEF Next, Remember
  <2>2. CASE Join \/ Complete
    BY <2>2 DEF Join, Complete, Lasts
  <2>3. CASE Reporting
    <3>1. job' = job /\ running' = running
      BY <2>3 DEF Reporting, ReportChecks, ReportReads, ReportSends, flags,
                  Unmeasured
    <3>2. \/ report' \in {"check", "sleep", "send"}
          \/ report' = "done" /\ ~running
      BY <2>3 DEF Reporting, ReportChecks, ReportReads, ReportSends
    <3> QED BY <2>1, <3>1, <3>2 DEF Lasts
  <2>4. CASE Quiet
    BY <2>1, <2>4 DEF Quiet, Lasts
  <2>5. CASE /\ job \notin Over /\ job' \notin Over
             /\ UNCHANGED <<running, report, unreported>>
    BY <2>1, <2>5 DEF Over, Lasts
  <2>6. CASE Stop
    BY <2>1, <2>6 DEF Stop, Unmeasured, Lasts
  <2> QED BY <2>1, <2>2, <2>3, <2>4, <2>5, <2>6, JobSteps
<1>2. CASE UNCHANGED vars
  BY <1>2 DEF vars, flags, history, Lasts
<1> QED
  BY <1>1, <1>2

(* The end of the load, and what is left to do after it.                       *)
LEMMA FlushesKept ==
  ASSUME Typed, Lasts, Flushes, [Next]_vars
  PROVE  Flushes'
<1>1. CASE Next
  <2>1. /\ Step /\ stopped' = (stopped \/ (running /\ ~running' /\ job' = job))
        /\ missed' = (missed \/ (job = "joining" /\ job' = "flushing"
                                   /\ report \in {"check", "send"}))
    BY <1>1 DEF Next, Remember
  <2>2. CASE Join
    <3>1. /\ job = "joining" /\ job' = "flushing" /\ ~running'
          /\ UNCHANGED <<worker, unreported, report>>
          /\ \A w \in Worker : worker[w].pc = "exit"
      BY <2>2 DEF Join, counters
    <3>2. stopped \/ report \in {"check", "sleep", "send"}
      BY <3>1 DEF Lasts
    <3> QED BY <2>1, <3>1, <3>2 DEF Flushes
  <2>3. CASE Complete
    BY <2>1, <2>3 DEF Complete, Flushes, flags, counters
  <2>4. CASE Reporting
    BY <2>1, <2>4 DEF Reporting, ReportChecks, ReportReads, ReportSends, flags,
                      Unmeasured, Flushes
  <2>5. CASE /\ Quiet
             /\ OtherStep \/ \E w \in Worker : WorkerSteps(w)
             /\ OtherStep => unreported' = unreported
    <3> SUFFICES ASSUME job \in Over
                 PROVE  Flushes'
      BY <2>5 DEF Quiet, Flushes, Over
    <3>1. ~\E w \in Worker : WorkerSteps(w)
      BY WorkerStepMoves DEF Moves, Flushes, Over
    <3>2. OtherStep /\ unreported' = unreported
      BY <2>5, <3>1
    <3>3. \A w \in Worker : worker'[w].pc = worker[w].pc
      BY <3>2, OthersKeepWorkers DEF Over
    <3>4. (stopped => stopped') /\ (missed => missed')
      BY <2>1
    <3> QED BY <2>5, <3>2, <3>3, <3>4 DEF Quiet, Flushes, Over
  <2>6. CASE /\ job \notin Over /\ job' \notin Over
             /\ UNCHANGED <<running, report, unreported>>
    BY <2>6 DEF Over, Flushes
  <2>7. CASE Stop
    BY <2>1, <2>7 DEF Stop, Unmeasured, Flushes
  <2> QED BY <2>1, <2>2, <2>3, <2>4, <2>5, <2>6, <2>7, JobSteps
<1>2. CASE UNCHANGED vars
  BY <1>2 DEF vars, flags, history, counters, Flushes
<1> QED
  BY <1>1, <1>2

-----------------------------------------------------------------------------
(* The load profile                                                           *)

StageType == [mode : {"ramp", "hold"}, secs : Nat, target : Nat, included : BOOLEAN]

LEMMA InductionOn ==
  ASSUME NEW N, N \subseteq Nat, 0 \in N, \A n \in N : n + 1 \in N
  PROVE  N = Nat
<1> DEFINE R == OpToRel(<, Nat)
           M == Nat \ N
<1>1. IsWellFoundedOn(R, Nat) /\ M \subseteq Nat
  BY NatLessThanWellFounded
<1>2. \A x, y \in Nat : x < y => <<x, y>> \in R
  BY DEF OpToRel
<1> HIDE DEF R
<1>3. M # {} => \E x \in M : \A y \in M : ~(<<y, x>> \in R)
  <2> HIDE DEF M
  <2> QED BY <1>1, WFMin
<1>4. ASSUME NEW x \in M, \A y \in M : ~(<<y, x>> \in R) PROVE FALSE
  <2>1. x # 0 /\ x - 1 \in Nat
    OBVIOUS
  <2>2. x - 1 \notin M
    <3>1. x - 1 < x /\ x \in Nat
      BY <2>1
    <3>2. <<x - 1, x>> \in R
      BY <1>2, <2>1, <3>1
    <3> HIDE DEF M
    <3> QED BY <1>4, <3>2
  <2>3. (x - 1) + 1 \in N
    BY <2>1, <2>2
  <2> QED BY <2>1, <2>3
<1> QED BY <1>3, <1>4

(* The ends of the first n stages.                                            *)
Ends(g, stages, n) ==
  \A i \in 0 .. n : g[i] = IF i = 0 THEN 0 ELSE g[i - 1] + 1000 * stages[i].secs

LEMMA EndsExist ==
  ASSUME NEW stages \in Seq(StageType)
  PROVE  \E g \in [0 .. Len(stages) -> Nat] : Ends(g, stages, Len(stages))
<1> DEFINE N == Len(stages)
           P(n) == \E g \in [0 .. n -> Nat] : Ends(g, stages, n)
           S == {n \in Nat : n <= N => P(n)}
<1>0. N \in Nat
  OBVIOUS
<1>1. P(0)
  <2> DEFINE g == [i \in 0 .. 0 |-> 0]
  <2>1. g \in [0 .. 0 -> Nat] /\ g[0] = 0 /\ \A i \in 0 .. 0 : i = 0
    OBVIOUS
  <2> HIDE DEF g
  <2>2. Ends(g, stages, 0)
    BY <2>1, ZenonT(90) DEF Ends
  <2> QED BY <2>1, <2>2
<1>2. ASSUME NEW n \in Nat, n + 1 <= N, P(n) PROVE P(n + 1)
  <2>1. PICK g \in [0 .. n -> Nat] : Ends(g, stages, n)
    BY <1>2
  <2> DEFINE last == g[n] + 1000 * stages[n + 1].secs
             h == [i \in 0 .. n + 1 |-> IF i = n + 1 THEN last ELSE g[i]]
  <2>2. last \in Nat
    <3>1. n + 1 \in 1 .. Len(stages) /\ n \in 0 .. n
      BY <1>2
    <3>2. stages[n + 1] \in StageType /\ g[n] \in Nat
      BY <3>1
    <3>3. stages[n + 1].secs \in Nat
      BY <3>2 DEF StageType
    <3> QED BY <3>2, <3>3
  <2> HIDE DEF last
  <2>3. h \in [0 .. n + 1 -> Nat]
    BY <2>2
  <2>4. ASSUME NEW i \in 0 .. n + 1
        PROVE  h[i] = IF i = 0 THEN 0 ELSE h[i - 1] + 1000 * stages[i].secs
    <3>1. CASE i = n + 1
      <4>1. h[i] = last /\ h[i - 1] = g[n] /\ i # 0
        BY <3>1
      <4>2. last = g[n] + 1000 * stages[i].secs
        BY <3>1 DEF last
      <4> HIDE DEF h
      <4> QED BY <4>1, <4>2
    <3>2. CASE i # n + 1
      <4>1. i \in 0 .. n
        BY <3>2
      <4>2. h[i] = g[i] /\ (i # 0 => h[i - 1] = g[i - 1])
        BY <4>1
      <4>3. g[i] = IF i = 0 THEN 0 ELSE g[i - 1] + 1000 * stages[i].secs
        BY <2>1, <4>1 DEF Ends
      <4> HIDE DEF h
      <4> QED BY <4>2, <4>3, ZenonT(90)
    <3> QED BY <3>1, <3>2
  <2> HIDE DEF h
  <2>5. Ends(h, stages, n + 1)
    BY <2>4 DEF Ends
  <2> QED BY <2>3, <2>5
<1> HIDE DEF P
<1>3. 0 \in S /\ (\A n \in S : n + 1 \in S) /\ S \subseteq Nat
  BY <1>1, <1>2
<1>4. S = Nat
  <2> HIDE DEF S
  <2> QED BY <1>3, InductionOn
<1> QED BY <1>0, <1>4 DEF P

(* A stage begins where the one before it ends.                                *)
LEMMA StagesEndIs ==
  ASSUME NEW stages \in Seq(StageType)
  PROVE  /\ \A n \in 0 .. Len(stages) : StagesEnd(stages, n) \in Nat
         /\ StagesEnd(stages, 0) = 0
         /\ \A n \in 1 .. Len(stages) :
              StagesEnd(stages, n) = StagesEnd(stages, n - 1) + 1000 * stages[n].secs
<1> DEFINE N == Len(stages)
           Body(h, i) == IF i = 0 THEN 0 ELSE h[i - 1] + 1000 * stages[i].secs
           Is(h) == h = [i \in 0 .. N |-> Body(h, i)]
           end == CHOOSE h : Is(h)
<1>1. \A n : StagesEnd(stages, n) = end[n]
  BY DEF StagesEnd
<1>2. PICK g \in [0 .. N -> Nat] : Ends(g, stages, N)
  BY EndsExist
<1>3. Is(g)
  <2>1. \A i \in 0 .. N : g[i] = Body(g, i)
    BY <1>2 DEF Ends
  <2> HIDE DEF Body
  <2> QED BY <2>1
<1>4. Is(end)
  <2> HIDE DEF Is
  <2> QED BY <1>3
<1>5. end = g
  <2> DEFINE S == {i \in Nat : i <= N => end[i] = g[i]}
  <2>1. \A i \in 0 .. N : end[i] = Body(end, i) /\ g[i] = Body(g, i)
    <3> HIDE DEF Body, end
    <3> QED BY <1>3, <1>4
  <2>2. N \in Nat
    OBVIOUS
  <2>3. DOMAIN end = 0 .. N /\ end = [i \in 0 .. N |-> end[i]]
    <3> HIDE DEF Body, end
    <3> QED BY <1>4
  <2> HIDE DEF end
  <2>4. 0 \in S
    BY <2>1, <2>2
  <2>5. ASSUME NEW i \in S PROVE i + 1 \in S
    <3> SUFFICES ASSUME i + 1 <= N PROVE end[i + 1] = g[i + 1]
      OBVIOUS
    <3>1. i + 1 \in 0 .. N /\ i + 1 # 0 /\ (i + 1) - 1 = i /\ end[i] = g[i]
      BY <2>2
    <3> QED BY <2>1, <3>1
  <2>6. S \subseteq Nat
    OBVIOUS
  <2>7. S = Nat
    <3> HIDE DEF S
    <3> QED BY <2>4, <2>5, <2>6, InductionOn
  <2>8. \A i \in 0 .. N : end[i] = g[i]
    BY <2>7
  <2> QED BY <2>3, <2>8
<1> HIDE DEF end
<1>6. \A n : StagesEnd(stages, n) = g[n]
  BY <1>1, <1>5
<1>7. /\ N \in Nat /\ 0 \in 0 .. N
      /\ \A n \in 1 .. N : n \in 0 .. N /\ n # 0
  OBVIOUS
<1>8. g[0] = 0 /\ \A n \in 1 .. N : g[n] = g[n - 1] + 1000 * stages[n].secs
  BY <1>2, <1>7 DEF Ends
<1>9. \A n \in 0 .. N : g[n] \in Nat
  OBVIOUS
<1>10. \A n \in 0 .. N : StagesEnd(stages, n) \in Nat
  BY <1>6, <1>9, Zenon
<1>11. StagesEnd(stages, 0) = 0
  BY <1>6, <1>8, ZenonT(90)
<1>12. \A n \in 1 .. N : StagesEnd(stages, n) = StagesEnd(stages, n - 1) + 1000 * stages[n].secs
  <2> TAKE n \in 1 .. N
  <2>1. StagesEnd(stages, n) = g[n] /\ StagesEnd(stages, n - 1) = g[n - 1]
    BY <1>6
  <2>2. g[n] = g[n - 1] + 1000 * stages[n].secs
    BY <1>8
  <2> QED BY <2>1, <2>2, ZenonT(90)
<1> QED BY <1>10, <1>11, <1>12

LEMMA StagesEndGrows ==
  ASSUME NEW stages \in Seq(StageType), NEW m \in Nat, NEW n \in Nat,
         m <= n, n <= Len(stages)
  PROVE  StagesEnd(stages, m) <= StagesEnd(stages, n)
<1> DEFINE E(i) == StagesEnd(stages, i)
           S == {k \in Nat : m + k <= Len(stages) => E(m) <= E(m + k)}
<1>0. Len(stages) \in Nat
  OBVIOUS
<1>1. /\ \A i \in 0 .. Len(stages) : E(i) \in Nat
      /\ \A i \in 1 .. Len(stages) : E(i) = E(i - 1) + 1000 * stages[i].secs
      /\ \A i \in 1 .. Len(stages) : stages[i].secs \in Nat
  <2>1. \A i \in 1 .. Len(stages) : stages[i] \in StageType
    OBVIOUS
  <2>2. \A i \in 1 .. Len(stages) : stages[i].secs \in Nat
    BY <2>1 DEF StageType
  <2> QED BY <2>2, StagesEndIs
<1> HIDE DEF E
<1>2. 0 \in S
  BY <1>0, <1>1
<1>3. ASSUME NEW k \in S PROVE k + 1 \in S
  <2> SUFFICES ASSUME m + (k + 1) <= Len(stages) PROVE E(m) <= E(m + (k + 1))
    OBVIOUS
  <2>1. /\ m + k \in 0 .. Len(stages) /\ m + (k + 1) \in 1 .. Len(stages) /\ m \in 0 .. Len(stages)
        /\ (m + (k + 1)) - 1 = m + k /\ m + k <= Len(stages)
    BY <1>0
  <2>2. E(m + (k + 1)) = E(m + k) + 1000 * stages[m + (k + 1)].secs /\ E(m) <= E(m + k)
    BY <1>1, <2>1
  <2>3. E(m) \in Nat /\ E(m + k) \in Nat /\ stages[m + (k + 1)].secs \in Nat
    BY <1>1, <2>1
  <2> QED BY <2>2, <2>3
<1>4. S \subseteq Nat
  OBVIOUS
<1>5. S = Nat
  <2> HIDE DEF S
  <2> QED BY <1>2, <1>3, <1>4, InductionOn
<1>6. n - m \in Nat /\ m + (n - m) = n
  OBVIOUS
<1>7. E(m) <= E(n)
  <2>1. n - m \in S
    <3> HIDE DEF S
    <3> QED BY <1>5, <1>6
  <2> QED BY <1>6, <2>1
<1> QED BY <1>7 DEF E

(* While a stage lasts it is the one that StageAt finds.                       *)
LEMMA StageIs ==
  ASSUME NEW stages \in Seq(StageType), NEW ms \in Nat, NEW i \in DOMAIN stages,
         StagesEnd(stages, i - 1) <= ms, ms < StagesEnd(stages, i)
  PROVE  StageAt(stages, ms) = i
<1> DEFINE N == Len(stages)
           E(n) == StagesEnd(stages, n)
           Found(k) == /\ ms < E(k) \/ k = N
                       /\ \A j \in 1 .. k - 1 : ms >= E(j)
<1>1. N \in Nat /\ DOMAIN stages = 1 .. N /\ i \in 1 .. N
  OBVIOUS
<1>2. \A n \in 0 .. N : E(n) \in Nat
  BY StagesEndIs
<1>3. \A m, n \in 0 .. N : m <= n => E(m) <= E(n)
  BY <1>1, StagesEndGrows
<1>4. StageAt(stages, ms) = CHOOSE k \in DOMAIN stages : Found(k)
  BY DEF StageAt
<1>5. E(i - 1) <= ms /\ ms < E(i)
  OBVIOUS
<1> HIDE DEF E, N
<1>6. Found(i)
  <2>1. ASSUME NEW j \in 1 .. i - 1 PROVE ms >= E(j)
    <3>1. j \in 0 .. N /\ i - 1 \in 0 .. N /\ j <= i - 1
      BY <1>1
    <3>2. E(j) <= E(i - 1) /\ E(j) \in Nat /\ E(i - 1) \in Nat
      BY <1>2, <1>3, <3>1
    <3> QED BY <1>5, <3>2
  <2> QED BY <1>5, <2>1
<1>7. ASSUME NEW k \in 1 .. N, Found(k) PROVE k = i
  <2>1. CASE k < i
    <3>1. k \in 0 .. N /\ i - 1 \in 0 .. N /\ k <= i - 1 /\ k # N
      BY <1>1, <2>1
    <3>2. E(k) <= E(i - 1) /\ E(k) \in Nat /\ E(i - 1) \in Nat
      BY <1>2, <1>3, <3>1
    <3> QED BY <1>5, <1>7, <3>1, <3>2
  <2>2. CASE i < k
    <3>1. i \in 1 .. k - 1 /\ i \in 0 .. N
      BY <1>1, <2>2
    <3>2. ms >= E(i) /\ E(i) \in Nat
      BY <1>2, <1>7, <3>1
    <3> QED BY <1>5, <3>2
  <2> QED BY <1>1, <2>1, <2>2
<1> HIDE DEF Found
<1> QED BY <1>1, <1>4, <1>6, <1>7

(* The nearest whole number to a point of the line between two targets.        *)
Nearest(from, target, span, gone) ==
  Larger(0, (2 * (from * span + (target - from) * gone) + span) \div (2 * span))

LEMMA Rounded ==
  ASSUME NEW from \in Nat, NEW target \in Nat, NEW span \in Nat \ {0},
         NEW gone \in 0 .. span - 1
  PROVE  LET q == Nearest(from, target, span, gone)
         IN  q \in Nat /\ 2 * ((q - from) * span - (target - from) * gone) \in -span .. span
<1> DEFINE x == from * span + (target - from) * gone
           p == (2 * x + span) \div (2 * span)
           r == (2 * x + span) % (2 * span)
           a == from * span
           b == target * gone
           c == from * gone
<1>1. x = a - c + b
  OBVIOUS
<1>2. a \in Nat /\ b \in Nat /\ c \in Nat /\ c <= a
  <2>1. span - gone \in Nat /\ a - c = from * (span - gone)
    OBVIOUS
  <2>2. from * (span - gone) \in Nat
    BY <2>1
  <2>3. a \in Nat /\ b \in Nat /\ c \in Nat
    OBVIOUS
  <2> HIDE DEF a, c
  <2> QED BY <2>1, <2>2, <2>3
<1>3. x \in Nat /\ 2 * x + span \in Nat /\ 2 * span \in Nat \ {0}
  <2> HIDE DEF a, b, c, x
  <2> QED BY <1>1, <1>2
<1>4. /\ 2 * x + span = (2 * span) * p + r
      /\ p \in Nat /\ r \in 0 .. 2 * span - 1
  <2> DEFINE y == 2 * x + span
             size == 2 * span
  <2>1. y \in Nat /\ size \in Nat \ {0}
    BY <1>3
  <2> HIDE DEF x, y, size
  <2>2. y = size * (y \div size) + (y % size) /\ y \div size \in Nat /\ y % size \in 0 .. size - 1
    BY <2>1, Division
  <2> QED BY <2>2 DEF y, size
<1>5. Larger(0, p) = p
  <2> HIDE DEF p
  <2> QED BY <1>4 DEF Larger
<1>6. (p - from) * span - (target - from) * gone = p * span - x
  <2> HIDE DEF p
  <2>1. p \in Int
    BY <1>4
  <2> QED BY <2>1
<1>7. 2 * (p * span - x) \in -span .. span
  <2> DEFINE d == p * span
  <2>1. (2 * span) * p = 2 * d /\ d \in Int
    <3> HIDE DEF p
    <3> QED BY <1>4
  <2> HIDE DEF x, p, r, d
  <2> QED BY <1>3, <1>4, <2>1
<1> HIDE DEF x, p
<1>8. Larger(0, p) \in Nat /\ 2 * ((Larger(0, p) - from) * span - (target - from) * gone) \in -span .. span
  BY <1>4, <1>5, <1>6, <1>7
<1>9. Nearest(from, target, span, gone) = Larger(0, p)
  BY DEF Nearest, x, p
<1> QED BY <1>8, <1>9, Zenon

(* The load that is shown is that of the active time.                          *)
ProfileInv ==
  /\ scenario.stages \in Seq(StageType) /\ ValidScenario(scenario)
  /\ elapsed \in Nat
  /\ elapsed > 0 => load = LoadAt(scenario, elapsed)

LEMMA ProfileBegins == Init => ProfileInv
<1> SUFFICES ASSUME Init PROVE ProfileInv
  OBVIOUS
<1>1. PICK c \in Case : ValidScenario(c.scenario) /\ scenario = c.scenario
  BY DEF Init
<1>2. scenario.stages \in Seq(StageType)
  BY <1>1, CaseAssumption DEF StageType
<1>3. elapsed = 0
  BY DEF Init
<1> QED BY <1>1, <1>2, <1>3 DEF ProfileInv

LEMMA ProfileKept == Typed /\ ProfileInv /\ [Next]_vars => ProfileInv'
<1> SUFFICES ASSUME Typed, ProfileInv, [Next]_vars PROVE ProfileInv'
  OBVIOUS
<1>1. /\ scenario' = scenario
      /\ \/ UNCHANGED <<elapsed, load>>
         \/ \E ms \in {Interval, 2 * Interval} :
              elapsed' = elapsed + ms /\ load' = LoadAt(scenario, elapsed + ms)
  <2>1. CASE OtherStep
    BY <2>1 DEF OtherStep, Begin, PacerChecks, PacerTicks, Join, Complete, ReportChecks,
                ReportReads, ReportSends, Stop, SetPaused, PeerHangs, Unmeasured, input
  <2>2. ASSUME NEW w \in Worker, WorkerSteps(w)
        PROVE  UNCHANGED <<scenario, elapsed, load>>
    BY <2>2, WorkerStepMoves DEF Shared, input
  <2>3. CASE UNCHANGED vars
    BY <2>3 DEF vars
  <2> QED BY <2>1, <2>2, <2>3, StepIsOneOfTwo DEF Next
<1>2. CASE UNCHANGED <<elapsed, load>>
  <2>1. UNCHANGED <<scenario, elapsed, load>>
    BY <1>1, <1>2
  <2> QED BY <2>1 DEF ProfileInv
<1>3. ASSUME NEW ms \in {Interval, 2 * Interval},
             elapsed' = elapsed + ms, load' = LoadAt(scenario, elapsed + ms)
      PROVE  ProfileInv'
  <2>1. elapsed' \in Nat
    BY <1>3, RunnerAssumption DEF ProfileInv
  <2>2. load' = LoadAt(scenario', elapsed')
    BY <1>1, <1>3
  <2>3. scenario'.stages \in Seq(StageType) /\ ValidScenario(scenario')
    BY <1>1 DEF ProfileInv
  <2> QED BY <2>1, <2>2, <2>3 DEF ProfileInv
<1> QED BY <1>1, <1>2, <1>3

LEMMA ProfileIsFollowed == ProfileInv => DesiredFollowsProfile
<1> SUFFICES ASSUME ProfileInv PROVE DesiredFollowsProfile
  OBVIOUS
<1> DEFINE stages == scenario.stages
           E(n) == StagesEnd(stages, n)
<1> SUFFICES ASSUME NEW i \in DOMAIN stages, elapsed > 0,
                    elapsed - (E(i) - 1000 * stages[i].secs) \in 0 .. 1000 * stages[i].secs - 1
             PROVE  LET stage == stages[i]
                        gone == elapsed - (E(i) - 1000 * stage.secs)
                        from == IF i = 1 THEN 0 ELSE stages[i - 1].target
                        off == (load.desired - from) * 1000 * stage.secs
                                 - (stage.target - from) * gone
                    IN  /\ load.stage = i - 1
                        /\ IF stage.mode = "hold" THEN load.desired = stage.target
                           ELSE 2 * off \in -1000 * stage.secs .. 1000 * stage.secs
  BY DEF DesiredFollowsProfile
<1> DEFINE secs == stages[i].secs
           span == 1000 * secs
           gone == elapsed - E(i - 1)
           from == PreviousTarget(stages, i)
           target == stages[i].target
<1>1. stages \in Seq(StageType) /\ elapsed \in Nat /\ load = LoadAt(scenario, elapsed)
  BY DEF ProfileInv
<1>2. i \in 1 .. Len(stages) /\ i \in Nat /\ i - 1 \in 0 .. Len(stages) /\ Len(stages) \in Nat
  BY <1>1
<1>3. secs \in Nat \ {0} /\ target \in Nat /\ from \in Nat /\ stages # <<>>
  <2>1. secs > 0
    BY DEF ProfileInv, ValidScenario
  <2>2. stages[i] \in StageType /\ (i # 1 => stages[i - 1] \in StageType)
    BY <1>1, <1>2
  <2>3. secs \in Nat /\ target \in Nat /\ from \in Nat
    BY <2>2 DEF StageType, PreviousTarget
  <2> QED BY <1>2, <2>1, <2>3
<1>4. E(i) = E(i - 1) + span /\ E(i) \in Nat /\ E(i - 1) \in Nat
  BY <1>1, <1>2, StagesEndIs
<1>5. /\ elapsed - (E(i) - 1000 * stages[i].secs) = gone
      /\ gone \in 0 .. span - 1 /\ span \in Nat \ {0}
      /\ E(i - 1) <= elapsed /\ elapsed < E(i)
  <2>1. elapsed - (E(i) - span) \in 0 .. span - 1 /\ span \in Nat \ {0}
    BY <1>3
  <2> HIDE DEF E, span
  <2>2. elapsed - (E(i) - span) = gone
    BY <1>1, <1>4, <2>1
  <2>3. gone \in 0 .. span - 1 /\ E(i - 1) <= elapsed /\ elapsed < E(i)
    BY <1>1, <1>4, <2>1, <2>2
  <2> QED BY <2>1, <2>2, <2>3 DEF span
<1>6. StageAt(stages, elapsed) = i
  BY <1>1, <1>5, StageIs
<1>7. load = [stage |-> i - 1, included |-> stages[i].included,
              desired |-> IF stages[i].mode = "hold" \/ secs = 0 THEN target
                          ELSE RampTarget(stages, i, elapsed)]
  BY <1>1, <1>3, <1>6 DEF LoadAt
<1>8. load.stage = i - 1 /\ (stages[i].mode = "hold" => load.desired = target)
  BY <1>7
<1>9. ASSUME stages[i].mode # "hold"
      PROVE  2 * ((load.desired - from) * 1000 * secs - (target - from) * gone) \in -1000 * secs .. 1000 * secs
  <2> DEFINE q == Nearest(from, target, span, gone)
  <2>1. load.desired = q
    BY <1>3, <1>7, <1>9 DEF RampTarget, Nearest
  <2>2. q \in Nat /\ 2 * ((q - from) * span - (target - from) * gone) \in -span .. span
    <3> HIDE DEF span, gone, from, target
    <3>1. from \in Nat /\ target \in Nat /\ span \in Nat \ {0} /\ gone \in 0 .. span - 1
      BY <1>3, <1>5
    <3> QED BY <3>1, Rounded, ZenonT(90)
  <2> HIDE DEF q
  <2>3. (q - from) * span = (q - from) * 1000 * secs
    <3> HIDE DEF from, secs
    <3> QED BY <1>3, <2>2
  <2>4. -1000 * secs = -span
    <3> HIDE DEF secs
    <3> QED BY <1>3
  <2> HIDE DEF from, gone, target, secs
  <2> QED BY <2>1, <2>2, <2>3, <2>4
<1>10. from = IF i = 1 THEN 0 ELSE stages[i - 1].target
  BY DEF PreviousTarget
<1> QED BY <1>5, <1>8, <1>9, <1>10

-----------------------------------------------------------------------------
(* Theorems                                                                   *)

LEMMA Begins == Init => IInv
<1> SUFFICES ASSUME Init PROVE IInv
  OBVIOUS
<1>1. PICK c \in Case : /\ ValidDraft(c.draft) /\ draft = c.draft
                        /\ ValidScenario(c.scenario) /\ scenario = c.scenario
  BY DEF Init
<1>2. Typed
  <2>1. \A e \in {draft.client, draft.server} :
          e.start \in Nat /\ e.prefix \in Nat /\ e.count \in Nat
    BY <1>1, CaseAssumption
  <2>2. attempted \in 0 .. draft.client.count - 1
    <3> DEFINE count == draft.client.count
    <3>1. attempted = 0
      BY DEF Init
    <3>2. count \in Nat
      BY <2>1
    <3>3. ValidPool(draft.client)
      BY <1>1 DEF ValidDraft
    <3>4. count \in Nat \ {0}
      BY <3>3, PoolIs
    <3> HIDE DEF count
    <3>5. attempted \in 0 .. count - 1
      BY <3>1, <3>2, <3>4
    <3> QED BY <3>5 DEF count
  <2>3. "unborn" \in Pc
    BY DEF Pc
  <2>4. worker \in [Worker -> VirtualClient]
    <3> DEFINE zero == 0
               r == [pc |-> "unborn", queued |-> zero, flight |-> zero,
                     launched |-> zero, source |-> zero]
    <3>1. worker = [w \in Worker |-> r]
      BY DEF Init
    <3>2. zero \in Nat /\ zero \in Int
      OBVIOUS
    <3> HIDE DEF zero
    <3>3. r \in VirtualClient
      BY <2>3, <3>2 DEF VirtualClient
    <3> HIDE DEF r
    <3> QED BY <3>1, <3>3
  <2>5. Protocol = "http2" => scenario.streams \in Nat
    <3> DEFINE streams == scenario.streams
    <3>1. Protocol = "http2" => streams \in 1 .. 1000
      BY <1>1, Zenon DEF ValidScenario, Protocol
    <3> HIDE DEF streams
    <3>2. streams \in 1 .. 1000 => streams \in Nat
      OBVIOUS
    <3> QED BY <3>1, <3>2 DEF streams
  <2> QED BY <1>1, <2>1, <2>2, <2>4, <2>5 DEF Typed
<1>3. InPool
  BY DEF Init, InPool
<1>4. LateChecked
  <2>1. Protocol = "http2" => scenario.streams \in Nat
    BY <1>2 DEF Typed
  <2> QED BY <2>1 DEF Init, LateChecked, PastTheGate
<1>5. Lasts /\ Flushes
  BY DEF Init, Lasts, Flushes
<1> QED
  BY <1>2, <1>3, <1>4, <1>5 DEF IInv

LEMMA StepKeeps == IInv /\ [Next]_vars => IInv'
  BY TypedKept, LateCheckedKept, LastsKept, FlushesKept DEF IInv

(* Once a virtual client has to rest, it begins no more operations than those  *)
(* whose check it had passed: one of TCP or HTTP/1, and on HTTP/2 the requests *)
(* that http2::transactions queued, at most max_concurrent_streams, whatever   *)
(* the profile and however long they stay queued.                              *)
THEOREM LateOperationsChecked == Spec => []LateOperationsWereChecked
<1>1. IInv => LateOperationsWereChecked
  <2> SUFFICES ASSUME IInv, NEW w \in Worker PROVE late[w] <= Allowance
    BY DEF LateOperationsWereChecked
  <2>1. late[w] \in Nat /\ worker[w].queued \in Nat
    BY DEF IInv, LateChecked, Typed, VirtualClient
  <2>2. CASE Protocol = "http2"
    <3>1. scenario.streams \in Nat /\ late[w] + worker[w].queued <= scenario.streams
      BY <2>2 DEF IInv, LateChecked, Typed
    <3> QED BY <2>1, <2>2, <3>1 DEF Allowance
  <2>3. CASE Protocol # "http2"
    BY <2>3 DEF IInv, LateChecked, Allowance
  <2> QED BY <2>2, <2>3
<1> QED
  BY Begins, StepKeeps, <1>1, PTL DEF Spec

(* When a run that was not stopped completes, every counter was reported,      *)
(* unless the metric task was past its last reading when the load ended        *)
(* (run_job, the flush before run_completed).                                  *)
THEOREM LastReportHoldsAll == Spec => []FinalReportIsComplete
<1>1. IInv => FinalReportIsComplete
  BY DEF IInv, Flushes, FinalReportIsComplete
<1> QED
  BY Begins, StepKeeps, <1>1, PTL DEF Spec

(* While a stage of the profile lasts, the desired clients are its target or,  *)
(* in a ramp, the nearest whole number on the line from the target before it   *)
(* (load_at), for every valid profile and any rounds and pauses.               *)
THEOREM LoadFollowsTheProfile == Spec => []DesiredFollowsProfile
<1>1. Init => IInv /\ ProfileInv
  BY Begins, ProfileBegins
<1>2. IInv /\ ProfileInv /\ [Next]_vars => (IInv /\ ProfileInv)'
  BY StepKeeps, ProfileKept DEF IInv
<1> QED
  BY <1>1, <1>2, ProfileIsFollowed, PTL DEF Spec

(* Every connection comes from a host's address in the server's subnet that is *)
(* not one of the server's, for every profile that validate accepts.           *)
THEOREM SourcesAreOfThePool == Spec => []SourcesAreUsable
<1>1. IInv => SourcesAreUsable
  BY PoolsAreApart DEF IInv, InPool, SourcesAreUsable
<1> QED
  BY Begins, StepKeeps, <1>1, PTL DEF Spec
=============================================================================
