---------------------------- MODULE CaptureReplay ----------------------------
(* From a captured conversation to its replay: the analysis of a packet        *)
(* capture (capture/src/lib.rs), the plan both endpoints make of it            *)
(* (agent/src/replay.rs), and the two ends of a replayed connection            *)
(* (agent/src/workload/tcp.rs), with the system under test between them.       *)
(*                                                                            *)
(* A byte is a letter.  Sequence numbers have SeqBits bits and wrap around.    *)
EXTENDS Integers, Sequences, FiniteSets, SequencesExt

CONSTANTS
  Letter,         \* the letters
  Capture,        \* captured traffic: protocol, absolute, and flows, see below
  SeqBits,        \* width of a sequence number, 32 in the code
  MessageLength,  \* by the letter an HTTP/1 message begins with, its length
  OriginForm,     \* by the letter a request begins with, that of a path target
  AbsoluteForm,   \* by the letter of a path target, that of an absolute one
  TlsLetter,      \* the letter a TLS record begins with
  MaxFaults,      \* bound: packets lost, seen again, or sent again in one piece
  MaxConnections  \* bound: replayed connections

Side == {"client", "server"}
Other(side) == IF side = "client" THEN "server" ELSE "client"

(* A flow of a capture has an initial sequence number of either side, and a    *)
(* talk: packets with their sender and bytes, the empty opening packet first.  *)
ASSUME CaptureAssumption ==
  /\ SeqBits \in Nat \ {0} /\ 2 ^ SeqBits \in Nat \ {0}
  /\ MaxFaults \in Nat /\ MaxConnections \in Nat
  /\ \A c \in Capture : \A f \in DOMAIN c.flows :
       /\ c.flows[f].isn \in [Side -> Nat]
       /\ c.flows[f].talk \in Seq([from : Side, bytes : Seq(Letter)])
       /\ c.flows[f].talk # <<>> /\ c.flows[f].talk[1].bytes = <<>>

(* Only a plain HTTP/1 request has a target, which a proxy awaits absolute and *)
(* forwards as a path; a message begins with a letter of its own kind.         *)
ASSUME HttpAssumption ==
  /\ \A l \in DOMAIN MessageLength : l \in Letter /\ MessageLength[l] \in Nat \ {0}
  /\ \A l \in DOMAIN OriginForm :
       /\ l \in DOMAIN MessageLength /\ OriginForm[l] \in Letter
       /\ AbsoluteForm[OriginForm[l]] \in DOMAIN OriginForm
       /\ OriginForm[AbsoluteForm[OriginForm[l]]] = OriginForm[l]
  /\ \A c \in Capture : c.absolute => c.protocol = "http1"

VARIABLES
  capture,     \* the traffic
  passed,      \* by flow, how many packets of the talk have been sent
  faults,      \* of the capture, so far
  table,       \* flow_order and flows: the flows seen, and their events
  phase,       \* "capturing", "analysed", "replaying", "refused"
  kept,        \* the flows that the analysis keeps
  plan,        \* by endpoint, its ReplayPlan: turns by flow
  connections, \* next_flow
  flow,        \* the flow the client replays
  turn,        \* by endpoint, the turn it is at
  state,       \* by endpoint: "detect", "play", "done", "failed"
  played,      \* the flow that the server takes the connection for, 0 if unknown
  received,    \* what the server has read of the first turn
  transit,     \* by receiver, the bytes under way to it
  hung,        \* has the system under test stopped forwarding?
  disturbed    \* history: did it hang, or was it too slow for a deadline?

captureVars == <<capture, passed, faults, table>>
planVars == <<kept, plan>>
replayVars == <<connections, flow, turn, state, played, received, transit, hung,
                disturbed>>
vars == <<captureVars, phase, planVars, replayVars>>

Flow == DOMAIN capture.flows
Talk(f) == capture.flows[f].talk

(* What a side sent among the first n packets.                                 *)
SentBy(talk, side, n) ==
  FlattenSeq([i \in 1 .. n |-> IF talk[i].from = side THEN talk[i].bytes ELSE <<>>])

SequenceNumber(f, i) ==
  LET side == Talk(f)[i].from
  IN  (capture.flows[f].isn[side] + Len(SentBy(Talk(f), side, i - 1))) % 2 ^ SeqBits

(* The turn of the conversation that packet i belongs to.                      *)
TurnOf(f, i) ==
  Cardinality({j \in 1 .. i - 1 : j = 1 \/ Talk(f)[j].from # Talk(f)[j + 1].from})

-----------------------------------------------------------------------------
(* Analysis                                                                   *)

(* parse_ethernet: the first packet of a flow tells its client.  An event has  *)
(* the sender as the analysis sees it; its turn is for the properties only.    *)
Parsed(f, i, bytes) ==
  LET from == Talk(f)[i].from
      known == SelectInSeq(table, LAMBDA entry : entry.flow = f)
      entries == IF known > 0 THEN table
                 ELSE Append(table, [flow |-> f, client |-> from, events |-> <<>>])
      n == IF known > 0 THEN known ELSE Len(entries)
      event == [from |-> IF from = entries[n].client THEN "client" ELSE "server",
                number |-> SequenceNumber(f, i), bytes |-> bytes,
                turn |-> TurnOf(f, i)]
  IN  IF bytes = <<>> THEN entries
      ELSE [entries EXCEPT ![n].events = Append(@, event)]

(* The maps by sequence number: the first segment with a number stays.         *)
FirstByNumber(events, side) ==
  LET First(number) ==
        SelectInSeq(events, LAMBDA e : e.from = side /\ e.number = number)
      numbers == {e.number : e \in {x \in ToSet(events) : x.from = side}}
  IN  [number \in numbers |-> events[First(number)].bytes]

(* Mutant of Segment: what overlaps is taken again.                            *)
SegmentWhole(stream, number, bytes) ==
  [out |-> stream.out \o bytes,
   next |-> (number + Len(bytes)) % 2 ^ SeqBits,
   gap |-> stream.gap \/ number > stream.next]

(* The body of the loop of reassemble.                                         *)
Segment(stream, number, bytes) ==
  LET next == IF number > stream.next THEN number ELSE stream.next
      overlap == next - number
      gap == stream.gap \/ number > stream.next
  IN  IF overlap < Len(bytes)
      THEN [out |-> stream.out \o SubSeq(bytes, overlap + 1, Len(bytes)),
            next |-> (number + Len(bytes)) % 2 ^ SeqBits, gap |-> gap]
      ELSE [out |-> stream.out, next |-> next, gap |-> gap]

(* Segments are taken in the order of their numbers, which ignores the wrap.   *)
Reassemble(segments) ==
  LET numbers == DOMAIN segments
      stream[n \in 0 .. 2 ^ SeqBits] ==
        IF n = 0 THEN [out |-> <<>>, next |-> Min(numbers), gap |-> FALSE]
        ELSE IF n - 1 \in numbers THEN Segment(stream[n - 1], n - 1, segments[n - 1])
        ELSE stream[n - 1]
  IN  IF numbers = {} THEN [out |-> <<>>, next |-> 0, gap |-> FALSE]
      ELSE stream[2 ^ SeqBits]

Stream(events, side) == Reassemble(FirstByNumber(events, side))

(* The groups of build_turns: the events between two changes of direction.     *)
Groups(events) ==
  LET Begins(i) == i = 1 \/ events[i - 1].from # events[i].from
      Ends(j) == j = Len(events) \/ events[j + 1].from # events[j].from
      LastOf(i) == Min({j \in i .. Len(events) : Ends(j)})
  IN  FlattenSeq([i \in DOMAIN events |->
        IF Begins(i) THEN <<SubSeq(events, i, LastOf(i))>> ELSE <<>>])

(* Mutant of BuildTurns: the segments of a group in the order they came.       *)
BuildTurnsAsTheyCame(events) ==
  LET groups == Groups(events)
  IN  [i \in DOMAIN groups |->
         [from |-> groups[i][1].from,
          bytes |-> FlattenSeq([j \in DOMAIN groups[i] |-> groups[i][j].bytes])]]

(* A group with a gap leaves no turn.                                          *)
BuildTurns(events) ==
  LET groups == Groups(events)
  IN  FlattenSeq([i \in DOMAIN groups |->
        LET from == groups[i][1].from
            stream == Stream(groups[i], from)
        IN  IF stream.out # <<>> /\ ~stream.gap
            THEN <<[from |-> from, bytes |-> stream.out]>> ELSE <<>>])

LooksLikeTls(bytes) == Head(bytes) = TlsLetter

Keeps(up, down) ==
  /\ up.out # <<>> /\ down.out # <<>> /\ ~up.gap /\ ~down.gap
  /\ ~LooksLikeTls(up.out) /\ ~LooksLikeTls(down.out)

(* finish_analysis                                                             *)
FinishAnalysis ==
  FlattenSeq([n \in DOMAIN table |->
    LET up == Stream(table[n].events, "client")
        down == Stream(table[n].events, "server")
    IN  IF Keeps(up, down)
        THEN <<[flow |-> table[n].flow, client |-> table[n].client, up |-> up.out,
                down |-> down.out, turns |-> BuildTurns(table[n].events)]>>
        ELSE <<>>])

-----------------------------------------------------------------------------
(* The plan                                                                   *)

(* split_http_messages; it fails unless the messages make up the stream.       *)
Messages(stream, heads) ==
  LET from[i \in 1 .. Len(stream) + 1] ==
        LET end == i + MessageLength[stream[i]] - 1
        IN  IF i > Len(stream) THEN <<>>
            ELSE IF stream[i] \notin heads \/ end > Len(stream) THEN <<>>
            ELSE <<SubSeq(stream, i, end)>> \o from[end + 1]
  IN  from[1]

(* rewrite_http_request: the target a client sends, and the one a server awaits. *)
Rewritten(request, role) ==
  LET path == OriginForm[Head(request)]
      target == IF role = "client" /\ capture.absolute THEN AbsoluteForm[path] ELSE path
  IN  <<target>> \o Tail(request)

(* extract_http_transactions and http_replay_turns                             *)
Transactions(k, role) ==
  LET requests == Messages(k.up, DOMAIN OriginForm)
      responses == Messages(k.down, DOMAIN MessageLength \ DOMAIN OriginForm)
  IN  IF /\ FlattenSeq(requests) = k.up /\ FlattenSeq(responses) = k.down
         /\ Len(requests) = Len(responses)
      THEN FlattenSeq([i \in DOMAIN requests |->
             <<[from |-> "client", bytes |-> Rewritten(requests[i], role)],
               [from |-> "server", bytes |-> responses[i]]>>])
      ELSE <<>>

(* ReplayPlan::from_capture                                                    *)
ReplayPlan(role) ==
  IF capture.protocol = "http1"
  THEN FlattenSeq([n \in DOMAIN kept |->
         LET turns == Transactions(kept[n], role)
         IN  IF turns # <<>> THEN <<turns>> ELSE <<>>])
  ELSE [n \in DOMAIN kept |-> kept[n].turns]

StartsWithClient(turns) ==
  turns # <<>> /\ turns[1].from = "client" /\ turns[1].bytes # <<>>

(* Mutant of ValidFlows: only equal first turns are ambiguous.                 *)
DifferentFlows(flows) ==
  /\ flows # <<>>
  /\ \A m \in DOMAIN flows : StartsWithClient(flows[m])
  /\ \A m, n \in DOMAIN flows : m # n => flows[m][1].bytes # flows[n][1].bytes

(* validate_flows: every flow begins with its client, and its first turn tells *)
(* it from all others.                                                        *)
ValidFlows(flows) ==
  /\ flows # <<>>
  /\ \A m \in DOMAIN flows : StartsWithClient(flows[m])
  /\ \A m, n \in DOMAIN flows : m # n => ~IsPrefix(flows[m][1].bytes, flows[n][1].bytes)

-----------------------------------------------------------------------------
(* The capture, and what is made of it                                        *)

NoTraffic == [side \in Side |-> <<>>]

Init ==
  /\ capture \in Capture
  /\ passed = [f \in Flow |-> 0] /\ faults = 0 /\ table = <<>>
  /\ phase = "capturing" /\ kept = <<>> /\ plan = NoTraffic
  /\ connections = 0 /\ flow = 0 /\ turn = [side \in Side |-> 0]
  /\ state = [side \in Side |-> "done"] /\ played = 0 /\ received = <<>>
  /\ transit = NoTraffic /\ hung = FALSE /\ disturbed = FALSE

Capturing ==
  phase = "capturing" /\ UNCHANGED <<capture, phase, planVars, replayVars>>

Fault == faults < MaxFaults /\ faults' = faults + 1

Passes(f) == passed[f] < Len(Talk(f)) /\ passed' = [passed EXCEPT ![f] = @ + 1]

Seen(f) ==
  /\ Capturing /\ Passes(f)
  /\ table' = Parsed(f, passed[f] + 1, Talk(f)[passed[f] + 1].bytes)
  /\ UNCHANGED faults

(* The capture misses a packet.                                                *)
Miss(f) == Capturing /\ Passes(f) /\ Fault /\ UNCHANGED table

(* A packet is seen late, or is sent and seen again.                           *)
CaptureAgain(f, i) ==
  /\ Capturing /\ i <= passed[f] /\ Fault
  /\ table' = Parsed(f, i, Talk(f)[i].bytes)
  /\ UNCHANGED passed

(* Two packets are sent again as one.                                          *)
CaptureTwo(f, i) ==
  /\ Capturing /\ i > 1 /\ i < passed[f] /\ Talk(f)[i].from = Talk(f)[i + 1].from
  /\ Fault
  /\ table' = Parsed(f, i, Talk(f)[i].bytes \o Talk(f)[i + 1].bytes)
  /\ UNCHANGED passed

(* The capture ends, at any time, and is analysed.                             *)
Analyse ==
  /\ phase = "capturing"
  /\ phase' = "analysed"
  /\ kept' = FinishAnalysis
  /\ UNCHANGED <<captureVars, plan, replayVars>>

(* Both endpoints make their plan; the packets are not needed any more.        *)
MakePlan ==
  /\ phase = "analysed"
  /\ plan' = [role \in Side |-> ReplayPlan(role)]
  /\ phase' = IF \A role \in Side : ValidFlows(plan'[role]) THEN "replaying" ELSE "refused"
  /\ passed' = [f \in Flow |-> 0] /\ faults' = 0 /\ table' = <<>> /\ kept' = <<>>
  /\ UNCHANGED <<capture, replayVars>>

-----------------------------------------------------------------------------
(* A replayed connection                                                      *)

NextFlow == (connections % Len(plan["client"])) + 1

Replaying == phase = "replaying" /\ UNCHANGED <<captureVars, phase, planVars>>

Ended(side) == state[side] \in {"done", "failed"}

(* The client takes the next flow, and the server waits for what it is.        *)
Connect ==
  /\ Replaying
  /\ connections < MaxConnections /\ \A side \in Side : Ended(side)
  /\ connections' = connections + 1 /\ flow' = NextFlow
  /\ turn' = [side \in Side |-> 1]
  /\ state' = [client |-> "play", server |-> "detect"]
  /\ played' = 0 /\ received' = <<>> /\ transit' = NoTraffic
  /\ hung' = FALSE /\ disturbed' = FALSE

Connection == Replaying /\ UNCHANGED <<connections, flow>>

(* The system under test: a proxy turns absolute targets into paths; when it   *)
(* hangs, nothing that is sent arrives.                                        *)
Forwarded(side, bytes) ==
  IF hung THEN <<>>
  ELSE IF side = "client" /\ capture.absolute
  THEN <<OriginForm[Head(bytes)]>> \o Tail(bytes)
  ELSE bytes

(* The turns that an endpoint plays on this connection.                        *)
Turns(side) == IF side = "client" THEN plan[side][flow] ELSE plan[side][played]

AtTurn(side) == state[side] = "play" /\ turn[side] <= Len(Turns(side))
Turn(side) == Turns(side)[turn[side]]

Write(side) ==
  /\ Connection
  /\ AtTurn(side) /\ Turn(side).from = side
  /\ turn' = [turn EXCEPT ![side] = @ + 1]
  /\ transit' = [transit EXCEPT ![Other(side)] = @ \o Forwarded(side, Turn(side).bytes)]
  /\ UNCHANGED <<state, played, received, hung, disturbed>>

(* read_exact_count: as many bytes as the turn has, whatever they are.         *)
Read(side) ==
  /\ Connection
  /\ AtTurn(side) /\ Turn(side).from # side
  /\ Len(transit[side]) >= Len(Turn(side).bytes)
  /\ transit' = [transit EXCEPT ![side] = SubSeq(@, Len(Turn(side).bytes) + 1, Len(@))]
  /\ turn' = [turn EXCEPT ![side] = @ + 1]
  /\ UNCHANGED <<state, played, received, hung, disturbed>>

Finish(side) ==
  /\ Connection
  /\ state[side] = "play" /\ turn[side] > Len(Turns(side))
  /\ state' = [state EXCEPT ![side] = "done"]
  /\ UNCHANGED <<turn, played, received, transit, hung, disturbed>>

Candidates(bytes) ==
  {n \in DOMAIN plan["server"] : IsPrefix(bytes, plan["server"][n][1].bytes)}

(* Mutant of Detected: the last candidate is taken at once.                    *)
DetectedEarly(bytes) == {n \in Candidates(bytes) : Candidates(bytes) = {n}}

(* One candidate is left, and its whole first turn has arrived.                *)
Detected(bytes) ==
  {n \in Candidates(bytes) :
     Candidates(bytes) = {n} /\ Len(plan["server"][n][1].bytes) = Len(bytes)}

(* replay_server_detect: a byte is read at a time.                             *)
Detect ==
  /\ Connection
  /\ state["server"] = "detect" /\ transit["server"] # <<>>
  /\ LET bytes == Append(received, Head(transit["server"]))
     IN  /\ received' = bytes
         /\ \/ /\ Candidates(bytes) = {}
               /\ state' = [state EXCEPT !["server"] = "failed"]
               /\ UNCHANGED <<turn, played>>
            \/ /\ Candidates(bytes) # {} /\ Detected(bytes) = {}
               /\ UNCHANGED <<state, turn, played>>
            \/ \E n \in Detected(bytes) :
                 /\ played' = n
                 /\ turn' = [turn EXCEPT !["server"] = 2]
                 /\ state' = [state EXCEPT !["server"] = "play"]
  /\ transit' = [transit EXCEPT !["server"] = Tail(@)]
  /\ UNCHANGED <<hung, disturbed>>

(* An endpoint waits for bytes that are not there.                             *)
Waits(side) ==
  \/ state[side] = "detect" /\ transit[side] = <<>>
  \/ AtTurn(side) /\ Turn(side).from # side
       /\ Len(transit[side]) < Len(Turn(side).bytes)

Fails(side) ==
  /\ state' = [state EXCEPT ![side] = "failed"]
  /\ UNCHANGED <<turn, played, received, transit, hung>>

(* The other end is closed, and all that it sent has been read.                *)
SeesEnd(side) ==
  /\ Connection
  /\ Waits(side) /\ Ended(Other(side)) /\ ~hung
  /\ Fails(side) /\ UNCHANGED disturbed

(* A write fails on a connection whose other end is closed.                    *)
WriteFails(side) ==
  /\ Connection
  /\ AtTurn(side) /\ Turn(side).from = side /\ Ended(Other(side)) /\ ~hung
  /\ Fails(side) /\ UNCHANGED disturbed

(* Nothing can arrive any more at an endpoint.                                 *)
Dead(side) == hung \/ Waits(Other(side)) \/ Ended(Other(side))

(* Mutant of TimesOut: the detection of the flow has no deadline.              *)
TimesOutPlaying(side) ==
  /\ Connection
  /\ Waits(side) /\ state[side] # "detect"
  /\ \/ Dead(side) /\ UNCHANGED disturbed
     \/ ~Dead(side) /\ disturbed' = TRUE
  /\ Fails(side)

(* The deadline of a read passes: nothing arrives any more, or it takes longer *)
(* than response_ms for the system to bring it.                                *)
TimesOut(side) ==
  /\ Connection
  /\ Waits(side)
  /\ \/ Dead(side) /\ UNCHANGED disturbed
     \/ ~Dead(side) /\ disturbed' = TRUE
  /\ Fails(side)

(* The system under test hangs, and what is under way is lost.                 *)
Hang ==
  /\ Connection
  /\ ~hung /\ \E side \in Side : ~Ended(side)
  /\ hung' = TRUE /\ disturbed' = TRUE /\ transit' = NoTraffic
  /\ UNCHANGED <<turn, state, played, received>>

Steps(side) ==
  \/ Write(side) \/ Read(side) \/ Finish(side)
  \/ SeesEnd(side) \/ WriteFails(side) \/ TimesOut(side)

Next ==
  \/ \E f \in Flow :
       \/ Seen(f) \/ Miss(f)
       \/ \E i \in DOMAIN Talk(f) : CaptureAgain(f, i) \/ CaptureTwo(f, i)
  \/ Analyse \/ MakePlan
  \/ Connect \/ Detect \/ Hang
  \/ \E side \in Side : Steps(side)

Spec == Init /\ [][Next]_vars

(* A read ends by its deadline if not otherwise.                               *)
FairSpec ==
  Spec /\ WF_vars(Steps("client")) /\ WF_vars(Steps("server") \/ Detect)

-----------------------------------------------------------------------------
(* Properties                                                                 *)

TypeOK ==
  /\ passed \in [Flow -> Nat] /\ \A f \in Flow : passed[f] <= Len(Talk(f))
  /\ faults \in 0 .. MaxFaults
  /\ phase \in {"capturing", "analysed", "replaying", "refused"}
  /\ connections \in 0 .. MaxConnections
  /\ flow \in IF connections = 0 THEN {0} ELSE DOMAIN plan["client"]
  /\ played \in {0} \cup DOMAIN plan["server"]
  /\ state["client"] \in {"play", "done", "failed"}
  /\ state["server"] \in {"detect", "play", "done", "failed"}
  /\ hung \in BOOLEAN /\ disturbed \in BOOLEAN

Sender(k, side) == IF k.client = "client" THEN side ELSE Other(side)

Sent(k, side) == SentBy(Talk(k.flow), Sender(k, side), passed[k.flow])

(* Whatever the capture missed or saw again, what the analysis keeps of a side *)
(* of a flow is one piece of what that side sent: a wrapped sequence number or *)
(* an overlap excludes a flow, or does no harm.                                *)
KeptIsOnePiece ==
  phase = "analysed" =>
    \A n \in DOMAIN kept :
      LET k == kept[n]
          IsPiece(piece, whole) ==
            \E m \in 0 .. Len(whole) - Len(piece) :
              piece = SubSeq(whole, m + 1, m + Len(piece))
      IN  IsPiece(k.up, Sent(k, "client")) /\ IsPiece(k.down, Sent(k, "server"))

(* The conversation so far, turn by turn.                                      *)
Conversation(f) ==
  LET told == FlattenSeq([i \in 1 .. passed[f] |->
                IF Talk(f)[i].bytes # <<>> THEN <<Talk(f)[i]>> ELSE <<>>])
      turns == Groups(told)
  IN  [n \in DOMAIN turns |->
         [from |-> turns[n][1].from,
          bytes |-> FlattenSeq([m \in DOMAIN turns[n] |-> turns[n][m].bytes])]]

(* No packet was seen after one of a later turn.                               *)
InTurn(f) ==
  \A n \in DOMAIN table : table[n].flow = f =>
    \A i, j \in DOMAIN table[n].events :
      i < j => table[n].events[i].turn <= table[n].events[j].turn

(* If all that either side sent is kept and no packet was seen in a later turn *)
(* than its own, the turns to replay are those of the conversation: packets    *)
(* that are out of order or seen again within a turn change nothing.           *)
TurnsAreTheConversation ==
  phase = "analysed" =>
    \A n \in DOMAIN kept :
      LET k == kept[n]
      IN  k.client = "client" /\ k.up = Sent(k, "client") /\ k.down = Sent(k, "server")
            /\ InTurn(k.flow) => k.turns = Conversation(k.flow)

(* What a side still has to read of a connection, from a turn on.              *)
Awaited(turns, n, side) ==
  FlattenSeq([m \in 1 .. Len(turns) - n + 1 |->
    IF turns[n + m - 1].from # side THEN turns[n + m - 1].bytes ELSE <<>>])

(* What is under way to an endpoint is what the plan says it reads next,       *)
(* although no endpoint compares what it reads once the flow is known; and the *)
(* server plays the flow that the client replays.                              *)
ReadsWhatIsPlanned ==
  /\ state["client"] = "play" =>
       IsPrefix(transit["client"], Awaited(Turns("client"), turn["client"], "client"))
  /\ state["server"] = "play" =>
       /\ played = flow
       /\ IsPrefix(transit["server"], Awaited(Turns("server"), turn["server"], "server"))

(* A replayed connection fails at neither end unless the system hangs or is    *)
(* too slow: the plans of both ends never leave both waiting.                  *)
UndisturbedSucceeds ==
  (\E side \in Side : state[side] = "failed") => disturbed

(* Every replayed connection ends at both ends, even if the system hangs.      *)
ReplayEnds ==
  \A side \in Side : ~Ended(side) ~> Ended(side)
=============================================================================
