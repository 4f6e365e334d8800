-------------------------- MODULE ArtifactTransfer --------------------------
(* How Control brings the artifacts of a run to the Agents before it prepares *)
(* them: send_artifacts in control/src/orchestration.rs, accept_chunk and     *)
(* finish in agent/src/artifact.rs, and the Prepare branch of the Agent's     *)
(* command loop.  Chunks and commands share one stream per connection, in     *)
(* order.  The Agent's tables live as long as its connection; the temporary   *)
(* files it writes live in the host's temporary directory, whatever becomes   *)
(* of the connection.                                                         *)
EXTENDS Naturals, Sequences, FiniteSets

CONSTANTS
  None,
  Artifact,        \* the artifacts of Control's database
  Captures,        \* those of kind "pcap"; the others are payloads
  Size,            \* Artifact -> number of chunks of the file, 0 if it is empty
  Req,             \* start requests
  Needs,           \* Req -> the artifacts its scenario names
  Client, Server,  \* the Agents of a run; one Agent may have both roles
  Capacity,        \* messages a connection holds before send waits
  MaxGen, MaxFaults

Agent == {Client, Server}

ASSUME TransferAssumption ==
  /\ Captures \subseteq Artifact
  /\ Size \in [Artifact -> Nat]
  /\ Needs \in [Req -> SUBSET Artifact]
  /\ None \notin Artifact \cup Req
  /\ Capacity \in Nat \ {0} /\ MaxGen \in Nat \ {0} /\ MaxFaults \in Nat

VARIABLES
  lock,       \* the request that holds active_run's mutex
  req,        \* per request, where its start_run stands
  damage,     \* what happened to the stored file of an artifact
  link,       \* per Agent, its connection
  incoming,   \* per Agent, incoming_artifacts: chunks received, or None
  completed,  \* per Agent, completed_artifacts: "none", "good" or "bad" bytes
  parts,      \* per Agent, the temporary files on its disk
  replies,    \* acknowledgements on their way to a request
  prepared,   \* what Agents have prepared: which request, with which bytes
  ended,      \* why Agents ended their connections
  faults

vars == <<lock, req, damage, link, incoming, completed, parts, replies,
          prepared, ended, faults>>
session == <<incoming, completed, parts, prepared, ended>>

Pc == {"idle", "find", "chunk", "prepare", "wait", "done", "failed", "dropped"}
Role == 1 .. 2
Request == [pc : Pc, ix : Role, todo : SUBSET Artifact, art : Artifact \cup {None},
            off : Nat, gens : [Agent -> 0 .. MaxGen]]
Message ==
  [what : {"chunk"}, art : Artifact, off : Nat, len : 0 .. 1, good : BOOLEAN, eof : BOOLEAN]
    \cup [what : {"prepare"}, req : Req, role : Role]
Link == [gen : 1 .. MaxGen, up : BOOLEAN, open : BOOLEAN, msgs : Seq(Message)]
Transfer == [got : Nat, good : BOOLEAN]
Reason == {"first", "exists", "offset", "size", "short", "digest", "unfinished", "missing"}

(* None is no value of the program.                                           *)
ASSUME NoneAssumption == None \notin Transfer \cup Reason

TypeOK ==
  /\ lock \in Req \cup {None}
  /\ req \in [Req -> Request]
  /\ damage \in [Artifact -> {"none", "short", "changed"}]
  /\ link \in [Agent -> Link]
  /\ incoming \in [Agent -> [Artifact -> Transfer \cup {None}]]
  /\ completed \in [Agent -> [Artifact -> {"none", "good", "bad"}]]
  /\ parts \in [Agent -> SUBSET Artifact]
  /\ replies \subseteq Req \X Role
  /\ prepared \subseteq [agent : Agent, req : Req, bytes : {"none", "good", "bad"}]
  /\ ended \subseteq [agent : Agent, gen : 1 .. MaxGen, why : Reason]
  /\ faults \in 0 .. MaxFaults

NoTransfers == [a \in Artifact |-> None]
NothingYet == [a \in Artifact |-> "none"]
Fresh == [gen |-> 1, up |-> TRUE, open |-> TRUE, msgs |-> << >>]
Unstarted == [pc |-> "idle", ix |-> 1, todo |-> {}, art |-> None, off |-> 0,
              gens |-> [g \in Agent |-> 0]]

Init ==
  /\ lock = None
  /\ req = [q \in Req |-> Unstarted]
  /\ damage = [a \in Artifact |-> "none"]
  /\ link = [g \in Agent |-> Fresh]
  /\ incoming = [g \in Agent |-> NoTransfers]
  /\ completed = [g \in Agent |-> NothingYet]
  /\ parts = [g \in Agent |-> {}]
  /\ replies = {} /\ prepared = {} /\ ended = {}
  /\ faults = 0

-----------------------------------------------------------------------------
(* Control: start_run up to the acknowledgements of Prepare *)

Sends == IF Client = Server THEN <<Client>> ELSE <<Client, Server>>
Endpoint(role) == IF role = 1 THEN Client ELSE Server

(* The mutex of active_run is held from here on; both sessions are cloned.    *)
StartBegin(q) ==
  /\ req[q].pc = "idle" /\ lock = None
  /\ \A g \in Agent : link[g].open
  /\ lock' = q
  /\ req' = [req EXCEPT ![q].pc = "find", ![q].todo = Needs[q],
                        ![q].gens = [g \in Agent |-> link[g].gen]]
  /\ UNCHANGED <<damage, link, replies, faults, session>>

(* The next artifact (a HashSet has no order), the next Agent, or Prepare.    *)
FindArtifact(q) ==
  /\ req[q].pc = "find"
  /\ \/ \E a \in req[q].todo :
          req' = [req EXCEPT ![q].pc = "chunk", ![q].art = a, ![q].off = 0]
     \/ /\ req[q].todo = {} /\ req[q].ix < Len(Sends)
        /\ req' = [req EXCEPT ![q].ix = @ + 1, ![q].todo = Needs[q]]
     \/ /\ req[q].todo = {} /\ req[q].ix = Len(Sends)
        /\ req' = [req EXCEPT ![q].pc = "prepare", ![q].ix = 1]
  /\ UNCHANGED <<lock, damage, link, replies, faults, session>>

Current(q, g) == req[q].gens[g] = link[g].gen

(* send on a session's channel: waits for room; on a broken connection it     *)
(* succeeds until the stream is dropped, and nothing arrives.                 *)
Sent(q, g, m) ==
  \/ /\ Current(q, g) /\ link[g].open /\ link[g].up /\ Len(link[g].msgs) < Capacity
     /\ link' = [link EXCEPT ![g].msgs = Append(@, m)]
  \/ /\ (Current(q, g) => link[g].open /\ ~link[g].up)
     /\ UNCHANGED link
Closed(q, g) == ~Current(q, g) \/ ~link[g].open

(* Mutant of Ends: a failed start keeps the mutex.                           *)
EndsHolding(q, pc) ==
  /\ req' = [req EXCEPT ![q].pc = pc]
  /\ lock' = IF pc = "done" THEN None ELSE lock

Ends(q, pc) ==
  /\ req' = [req EXCEPT ![q].pc = pc]
  /\ lock' = None

Readable(a) == IF damage[a] = "short" THEN Size[a] - 1 ELSE Size[a]

(* One turn of the read loop: a chunk, possibly the last, possibly empty      *)
(* because the file is shorter than its row says.                             *)
SendChunk(q) ==
  LET a == req[q].art
      g == Sends[req[q].ix]
      n == IF req[q].off < Readable(a) THEN 1 ELSE 0
      last == req[q].off + n = Size[a]
  IN /\ req[q].pc = "chunk"
     /\ Sent(q, g, [what |-> "chunk", art |-> a, off |-> req[q].off, len |-> n,
                    good |-> damage[a] # "changed", eof |-> last])
     /\ \/ /\ last
           /\ req' = [req EXCEPT ![q].pc = "find", ![q].todo = @ \ {a},
                                 ![q].art = None, ![q].off = 0]
           /\ UNCHANGED lock
        \/ /\ ~last /\ n = 1
           /\ req' = [req EXCEPT ![q].off = @ + 1]
           /\ UNCHANGED lock
        \/ /\ ~last /\ n = 0 /\ Ends(q, "failed")
     /\ UNCHANGED <<damage, replies, faults, session>>

SendPrepare(q) ==
  /\ req[q].pc = "prepare"
  /\ Sent(q, Endpoint(req[q].ix), [what |-> "prepare", req |-> q, role |-> req[q].ix])
  /\ req' = [req EXCEPT ![q].pc = "wait"]
  /\ UNCHANGED <<lock, damage, replies, faults, session>>

(* The channel of the session is closed.                                      *)
SendFails(q) ==
  /\ \/ req[q].pc = "chunk" /\ Closed(q, Sends[req[q].ix])
     \/ req[q].pc = "prepare" /\ Closed(q, Endpoint(req[q].ix))
  /\ Ends(q, "failed")
  /\ UNCHANGED <<damage, link, replies, faults, session>>

Acknowledged(q) ==
  /\ req[q].pc = "wait" /\ <<q, req[q].ix>> \in replies
  /\ replies' = replies \ {<<q, req[q].ix>>}
  /\ \/ /\ req[q].ix = 1
        /\ req' = [req EXCEPT ![q].pc = "prepare", ![q].ix = 2]
        /\ UNCHANGED lock
     \/ req[q].ix = 2 /\ Ends(q, "done")
  /\ UNCHANGED <<damage, link, faults, session>>

-----------------------------------------------------------------------------
(* The Agent: the command loop of one connection *)

(* Any error ends run_connection: its tables go, the temporary files stay.    *)
Lost(g) ==
  /\ link' = [link EXCEPT ![g].up = FALSE, ![g].msgs = << >>]
  /\ incoming' = [incoming EXCEPT ![g] = NoTransfers]
  /\ completed' = [completed EXCEPT ![g] = NothingYet]
  /\ prepared' = {p \in prepared : p.agent # g}

Bail(g, why) ==
  /\ Lost(g)
  /\ ended' = ended \cup {[agent |-> g, gen |-> link[g].gen, why |-> why]}

Consume(g) == link' = [link EXCEPT ![g].msgs = Tail(@)]

(* The transfer a chunk belongs to: the one in progress, or a new one.        *)
Opened(g, a) == IF incoming[g][a] = None THEN [got |-> 0, good |-> TRUE] ELSE incoming[g][a]

(* Mutant of AlreadyComplete: nothing is remembered.                         *)
AlwaysReceives(g, m) == FALSE

(* accept_chunk consumes the chunks of an artifact it has already verified.   *)
AlreadyComplete(g, m) == completed[g][m.art] # "none"

(* The file of a first chunk is created, and must not exist.                  *)
Refused(g, m) ==
  LET a == m.art
      s == Opened(g, a)
  IN IF incoming[g][a] = None /\ m.off # 0 THEN "first"
     ELSE IF incoming[g][a] = None /\ a \in parts[g] THEN "exists"
     ELSE IF m.off # s.got THEN "offset"
     ELSE IF s.got + m.len > Size[a] THEN "size" ELSE None

(* Mutant of Verdict: the digest is not compared.                            *)
VerdictUnchecked(t, a) == IF t.got # Size[a] THEN "short" ELSE None

(* finish: the size, then the digest of everything received.  A capture stays *)
(* on disk for the run, a payload moves to memory; a wrong file is removed.   *)
Verdict(t, a) ==
  IF t.got # Size[a] THEN "short" ELSE IF ~t.good THEN "digest" ELSE None

Chunk(g, m) ==
  LET a == m.art
      t == [got |-> Opened(g, a).got + m.len, good |-> Opened(g, a).good /\ m.good]
  IN \/ AlreadyComplete(g, m) /\ Consume(g)
        /\ UNCHANGED <<incoming, completed, parts, prepared, ended>>
     \/ /\ ~AlreadyComplete(g, m) /\ Refused(g, m) # None
        /\ Bail(g, Refused(g, m)) /\ UNCHANGED parts
     \/ /\ ~AlreadyComplete(g, m) /\ Refused(g, m) = None /\ ~m.eof
        /\ incoming' = [incoming EXCEPT ![g][a] = t]
        /\ parts' = [parts EXCEPT ![g] = @ \cup {a}]
        /\ Consume(g) /\ UNCHANGED <<completed, prepared, ended>>
     \/ /\ ~AlreadyComplete(g, m) /\ Refused(g, m) = None /\ m.eof
        /\ Verdict(t, a) # None
        /\ Bail(g, Verdict(t, a))
        /\ parts' = [parts EXCEPT ![g] = IF Verdict(t, a) = "digest" THEN @ \ {a}
                                                                    ELSE @ \cup {a}]
     \/ /\ ~AlreadyComplete(g, m) /\ Refused(g, m) = None /\ m.eof
        /\ Verdict(t, a) = None
        /\ incoming' = [incoming EXCEPT ![g][a] = None]
        /\ completed' = [completed EXCEPT ![g][a] = IF t.good THEN "good" ELSE "bad"]
        /\ parts' = [parts EXCEPT ![g] = IF a \in Captures THEN @ \cup {a} ELSE @ \ {a}]
        /\ Consume(g) /\ UNCHANGED <<prepared, ended>>

(* Prepare reads what the scenario names from completed_artifacts.            *)
Bytes(g, q) ==
  IF \E a \in Needs[q] : completed[g][a] = "none" THEN "none"
  ELSE IF \E a \in Needs[q] : completed[g][a] = "bad" THEN "bad" ELSE "good"

Prepare(g, m) ==
  \/ /\ \E a \in Artifact : incoming[g][a] # None
     /\ Bail(g, "unfinished") /\ UNCHANGED <<parts, replies>>
  \/ /\ \A a \in Artifact : incoming[g][a] = None
     /\ Bytes(g, m.req) = "none"
     /\ Bail(g, "missing") /\ UNCHANGED <<parts, replies>>
  \/ /\ \A a \in Artifact : incoming[g][a] = None
     /\ Bytes(g, m.req) # "none"
     /\ prepared' = prepared \cup {[agent |-> g, req |-> m.req, bytes |-> Bytes(g, m.req)]}
     /\ replies' = replies \cup {<<m.req, m.role>>}
     /\ Consume(g) /\ UNCHANGED <<incoming, completed, parts, ended>>

AgentStep(g) ==
  /\ link[g].up /\ link[g].msgs # << >>
  /\ LET m == Head(link[g].msgs) IN
     \/ m.what = "chunk" /\ Chunk(g, m) /\ UNCHANGED replies
     \/ m.what = "prepare" /\ Prepare(g, m)
  /\ UNCHANGED <<lock, req, damage, faults>>

-----------------------------------------------------------------------------
(* What may go wrong *)

Fault == faults < MaxFaults /\ faults' = faults + 1

(* The caller goes away and its handler is dropped where it waits.            *)
RequestDropped(q) ==
  /\ Fault
  /\ req[q].pc \in {"chunk", "prepare", "wait"}
  /\ Ends(q, "dropped")
  /\ UNCHANGED <<damage, link, replies, session>>

(* No acknowledgement in time: it was lost with its connection, or the Agent  *)
(* is slow.                                                                   *)
AckTimesOut(q) ==
  /\ req[q].pc = "wait"
  /\ LET g == Endpoint(req[q].ix) IN
     IF Current(q, g) /\ link[g].up
     THEN Fault /\ <<q, req[q].ix>> \notin replies
     ELSE UNCHANGED faults
  /\ Ends(q, "failed")
  /\ UNCHANGED <<damage, link, replies, session>>

(* The stored file is truncated, or its bytes change, under a valid row.      *)
FileDamaged(a) ==
  /\ Fault
  /\ damage[a] = "none"
  /\ \E d \in {"short", "changed"} :
       (d = "short" => Size[a] > 0) /\ damage' = [damage EXCEPT ![a] = d]
  /\ UNCHANGED <<lock, req, link, replies, session>>

ConnectionBreaks(g) ==
  /\ Fault
  /\ link[g].up
  /\ Lost(g)
  /\ UNCHANGED <<lock, req, damage, parts, replies, ended>>

(* The stream of a broken connection is dropped, and with it the receiver.    *)
ControlNotices(g) ==
  /\ ~link[g].up /\ link[g].open
  /\ link' = [link EXCEPT ![g].open = FALSE]
  /\ UNCHANGED <<lock, req, damage, replies, faults, session>>

(* The Agent's main loop connects again after two seconds.                    *)
Reconnect(g) ==
  /\ ~link[g].up /\ link[g].gen < MaxGen
  /\ link' = [link EXCEPT ![g] = [Fresh EXCEPT !.gen = link[g].gen + 1]]
  /\ UNCHANGED <<lock, req, damage, replies, faults, session>>

Next ==
  \/ \E q \in Req :
       \/ StartBegin(q) \/ FindArtifact(q) \/ SendChunk(q) \/ SendPrepare(q)
       \/ SendFails(q) \/ Acknowledged(q) \/ AckTimesOut(q) \/ RequestDropped(q)
  \/ \E g \in Agent :
       AgentStep(g) \/ ConnectionBreaks(g) \/ ControlNotices(g) \/ Reconnect(g)
  \/ \E a \in Artifact : FileDamaged(a)

Spec == Init /\ [][Next]_vars

(* Handlers and Agents run, timers fire, a dead stream is noticed.            *)
FairSpec ==
  /\ Spec
  /\ \A q \in Req :
       /\ WF_vars(FindArtifact(q)) /\ WF_vars(SendChunk(q)) /\ WF_vars(SendPrepare(q))
       /\ WF_vars(SendFails(q)) /\ WF_vars(Acknowledged(q)) /\ WF_vars(AckTimesOut(q))
  /\ \A g \in Agent : WF_vars(AgentStep(g)) /\ WF_vars(ControlNotices(g))

-----------------------------------------------------------------------------
(* Properties *)

(* A run is prepared with all the artifacts its scenario names, byte for byte *)
(* as their rows say, whatever connections, requests and files went through   *)
(* in between.                                                                *)
PreparedWithItsBytes == \A p \in prepared : p.bytes = "good"

(* Starts that follow each other never make the Agent end its connection: it  *)
(* does so only over a file an earlier connection left behind, a transfer a   *)
(* failed or abandoned start left half done, or a file that was damaged.      *)
BailsOnlyForCause ==
  \A e \in ended :
    \/ e.why = "exists" /\ e.gen > 1
    \/ e.why \in {"offset", "unfinished"}
         /\ \E q \in Req : /\ req[q].pc \in {"failed", "dropped"}
                           /\ req[q].gens[e.agent] = e.gen
    \/ e.why = "digest" /\ \E a \in Artifact : damage[a] = "changed"

(* Whatever breaks, a start gives the mutex back; and where nothing fails it  *)
(* is then prepared, however often its artifacts were sent before.            *)
TransferEnds ==
  \A q \in Req :
    (lock = q) ~> (lock # q /\ (req[q].pc = "done" \/ faults > 0))
=============================================================================
