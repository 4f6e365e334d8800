------------------------- MODULE RunEndpoints_proofs -------------------------
(***************************************************************************)
(* Proofs about RunControl for every set of Agents and requests and every  *)
(* bound, continued: what the two endpoints of a run do.  An endpoint      *)
(* starts once and as the run its command names; a run is active only when *)
(* both started and completed only when both reported; a run that ended is *)
(* stopped on every connection Control still reads; and what has settled   *)
(* is left alone.                                                          *)
(*                                                                         *)
(* The invariant follows one run's prepare and start commands through      *)
(* op (how far start_run is), toAgent (sent), prepared and job (handled)   *)
(* and toControl (acknowledged), and its reports the other way.            *)
(***************************************************************************)
EXTENDS RunControl_proofs

(* start_run's four commands in order; the clone of each endpoint is the      *)
(* session its prepare and its start both go to.                              *)
At(p, o) ==
  IF p = "prepare" THEN IF o = "client" THEN 1 ELSE 2
                   ELSE IF o = "client" THEN 3 ELSE 4

Clone(r, o) == op[r].plan[At("start", o)].gen

Busy(r) == op[r].pc \in InProgress

(* Command p of endpoint o of r is not on the wire yet.                       *)
NotYet(r, p, o) ==
  \/ op[r].pc = "idle"
  \/ op[r].pc = "send" /\ op[r].next <= At(p, o)
  \/ op[r].pc \in {"wait", "error"} /\ op[r].next < At(p, o)

PrepareFor(m, o) == m.phase = "prepare" /\ m.role = o

(* The prepare of r's endpoint was handled last, or its connection is gone.   *)
IsPrepared(r, o) ==
  LET a == place[r][o] IN
  conn[a] = Clone(r, o) =>
    /\ prepared[a][o] = r
    /\ \A i \in 1 .. Len(toAgent[a]) : ~PrepareFor(toAgent[a][i], o)

(* Connections: the current one is the latest, and while Control reads it, it  *)
(* is the registered one.                                                     *)
Live(a) == conn[a] # 0 /\ task[a][conn[a]].live

Connected ==
  /\ \A a \in Agent :
       /\ conn[a] \in {0, lastGen[a]}
       /\ session[a] <= lastGen[a]
       /\ conn[a] = 0 => toAgent[a] = << >> /\ \A o \in Role : prepared[a][o] = None
       /\ Live(a) => session[a] = conn[a]
  /\ \A a \in Agent, g \in Gen : task[a][g].pc = "complete" => task[a][g].live

(* What start_run is about to do.                                             *)
PlanIsStart(r) ==
  /\ Len(op[r].plan) = 4
  /\ op[r].next \in 1 .. 5
  /\ op[r].pc \in {"wait", "error"} => op[r].next <= 4
  /\ \A p \in EndpointPhase, o \in Role :
       /\ op[r].plan[At(p, o)].phase = p
       /\ op[r].plan[At(p, o)].role = o
       /\ op[r].plan[At(p, o)].agent = place[r][o]
       /\ op[r].plan[At(p, o)].gen = Clone(r, o)
  /\ \A o \in Role : Clone(r, o) \in 1 .. lastGen[place[r][o]]

StartsArePlanned == \A r \in Run : Busy(r) => PlanIsStart(r)

(* stop_run and set_run_paused send to whole runs only.                       *)
PlansSpareEndpoints ==
  \A q \in StopReq \cup PauseReq : \A i \in 1 .. Len(op[q].plan) :
    op[q].plan[i].phase \in RunPhase

(* A job that started did so on a connection of its Agent, once.              *)
JobIs(r, o) ==
  /\ NotYet(r, "start", o) => job[r][o].state = "none"
  /\ job[r][o].state = "none" => job[r][o].gen = 0
  /\ job[r][o].state # "none" =>
       /\ job[r][o].gen \in 1 .. lastGen[place[r][o]]
       /\ Busy(r) => job[r][o].gen = Clone(r, o)

JobsArePlaced == \A r \in Run, o \in Role : JobIs(r, o)

(* A prepare or start on the wire.                                            *)
CommandIs(a, m) ==
  m.phase \in EndpointPhase =>
    /\ place[m.run][m.role] = a
    /\ m.req = m.run
    /\ ~NotYet(m.run, m.phase, m.role)
    /\ Busy(m.run) => conn[a] = Clone(m.run, m.role)
    /\ m.phase = "start" =>
         /\ job[m.run][m.role].state = "none"
         /\ prepared[a][m.role] = m.run

CommandsAreKnown ==
  \A a \in Agent : \A i \in 1 .. Len(toAgent[a]) : CommandIs(a, toAgent[a][i])

(* Two commands on one wire, m before n: no start twice, no prepare of the     *)
(* same role before a start, none after the prepare of a run in progress.     *)
InSequence(m, n) ==
  /\ ~(m.phase = "start" /\ n.phase = "start" /\ m.run = n.run /\ m.role = n.role)
  /\ \A o \in Role :
       ~(PrepareFor(m, o) /\ n.phase = "start" /\ n.role = o)
  /\ \A o \in Role :
       ~(PrepareFor(m, o) /\ Busy(m.run) /\ PrepareFor(n, o))

CommandsInSequence ==
  \A a \in Agent : \A i, j \in 1 .. Len(toAgent[a]) :
    i < j => InSequence(toAgent[a][i], toAgent[a][j])

PreparedIs(a, o, r) ==
  r \in Run => place[r][o] = a /\ ~NotYet(r, "prepare", o)

PreparedIsKnown == \A a \in Agent, o \in Role : PreparedIs(a, o, prepared[a][o])

(* What the Agents answer and report.                                         *)
MessageIs(m) ==
  /\ m.kind = "ack" /\ m.phase \in EndpointPhase =>
       /\ m.req \in Run /\ m.role \in Role
       /\ ~NotYet(m.req, m.phase, m.role)
       /\ m.phase = "prepare" /\ Busy(m.req) => IsPrepared(m.req, m.role)
       /\ m.phase = "start" /\ m.ok => job[m.req][m.role].state # "none"
  /\ m.kind = "run_completed" => job[m.run][m.role].state = "reported"

MessagesAreTrue ==
  \A a \in Agent, g \in Gen : \A i \in 1 .. Len(toControl[a][g]) :
    MessageIs(toControl[a][g][i])

(* What start_run has got so far.                                             *)
ProgressIs(r, o) ==
  /\ op[r].next > At("prepare", o) => IsPrepared(r, o)
  /\ op[r].next > At("start", o) => job[r][o].state # "none"

StartsProgress == \A r \in Run, o \in Role : Busy(r) => ProgressIs(r, o)

(* The registered run is the active one, and both its endpoints started.      *)
Started(r) == \A o \in Role : job[r][o].state # "none"

ActiveIsStarted ==
  \A r \in Run : /\ r \in tracked <=> activeRun = r
                 /\ activeRun = r => Started(r)
                 /\ Busy(r) => r \notin finished

(* What Control counted and concluded from the reports.                       *)
Reported(r) == \A o \in Role : job[r][o].state = "reported"

TaskIsTrue(t) ==
  /\ t.pc = "complete" => job[t.run][t.role].state = "reported"
  /\ t.pc = "db" /\ t.verdict = "completed" => Reported(t.run)

ReportsAreTrue ==
  /\ \A r \in Run : \A x \in completed[r] : job[r][x[2]].state = "reported"
  /\ \A a \in Agent, g \in Gen : TaskIsTrue(task[a][g])
  /\ \A r \in Run : status[r] = "completed" => Reported(r)

(* A run is halted when every endpoint that still runs where Control reads    *)
(* has a Stop coming, and every start still on the wire has one behind it.    *)
IsStop(m, r) == m.phase = "stop" /\ m.run = r
StopComing(a, r) == \E i \in 1 .. Len(toAgent[a]) : IsStop(toAgent[a][i], r)

Goes(r, o) ==
  /\ job[r][o].state = "running"
  /\ Holds(place[r][o], r, o)
  /\ Live(place[r][o])

StartIsStopped(a, r) ==
  Live(a) =>
    \A i \in 1 .. Len(toAgent[a]) :
      toAgent[a][i].phase = "start" /\ toAgent[a][i].run = r =>
        \E j \in 1 .. Len(toAgent[a]) : i < j /\ IsStop(toAgent[a][j], r)

Halted(r) ==
  /\ \A o \in Role : Goes(r, o) => StopComing(place[r][o], r)
  /\ \A a \in Agent : StartIsStopped(a, r)

(* stop_run goes through the participants of a run that is still active.      *)
StopReaches(q, r, o) ==
  Goes(r, o) =>
    \E i \in 1 .. Len(op[q].plan) :
      /\ op[q].plan[i].agent = place[r][o]
      /\ op[q].plan[i].gen = conn[place[r][o]]
      /\ i < op[q].next \/ (i = op[q].next /\ op[q].pc = "wait") =>
           StopComing(place[r][o], r)

StopIs(q) ==
  /\ op[q].pc = "plan" => op[q].goal = "cancelled" /\ op[q].next = 1
  /\ op[q].pc \in {"send", "wait"} =>
       /\ \A i \in 1 .. Len(op[q].plan) : op[q].plan[i].phase = "stop"
       /\ op[q].run \notin finished => \A o \in Role : StopReaches(q, op[q].run, o)

EndsAreStopped ==
  /\ \A r \in finished : Halted(r)
  /\ \A a \in Agent, g \in Gen : task[a][g].pc = "db" => Halted(task[a][g].run)
  /\ \A q \in StopReq : StopIs(q)

EndpointInv ==
  /\ IInv
  /\ Connected
  /\ StartsArePlanned
  /\ PlansSpareEndpoints
  /\ JobsArePlaced
  /\ CommandsAreKnown
  /\ CommandsInSequence
  /\ PreparedIsKnown
  /\ MessagesAreTrue
  /\ StartsProgress
  /\ ActiveIsStarted
  /\ ReportsAreTrue
  /\ EndsAreStopped
  /\ OneRunPerConnection

-----------------------------------------------------------------------------
(* Requests: what a step does to the command loop of one of them.              *)

Others(q) == \A p \in Req \ {q} : op'[p] = op[p]

Kept(q) == op'[q].run = op[q].run /\ op'[q].plan = op[q].plan

LEMMA RequestIs ==
  ASSUME TypeOK, NEW q \in Req, NEW x, op' = [op EXCEPT ![q] = x]
  PROVE  Others(q) /\ op'[q] = x
BY DEF TypeOK, Others

LEMMA CommandErrorIs ==
  ASSUME TypeOK, NEW q \in Req, CommandError(q)
  PROVE  /\ Others(q) /\ Kept(q)
         /\ q \in StopReq => op'[q].pc = "send" /\ op'[q].next = op[q].next + 1
         /\ q \notin StopReq => op'[q].pc = "error" /\ op'[q].next = op[q].next
<1> DEFINE x == [op[q] EXCEPT !.pc = "send", !.next = op[q].next + 1]
           y == [op[q] EXCEPT !.pc = "error"]
<1>1. op[q] \in Request
  BY DEF TypeOK
<1>2. /\ x.pc = "send" /\ x.next = op[q].next + 1
      /\ x.run = op[q].run /\ x.plan = op[q].plan
  BY <1>1 DEF Request
<1>3. /\ y.pc = "error" /\ y.next = op[q].next
      /\ y.run = op[q].run /\ y.plan = op[q].plan
  BY <1>1 DEF Request
<1>4. op' = [op EXCEPT ![q] = IF q \in StopReq THEN x ELSE y]
  BY DEF CommandError
<1> HIDE DEF x, y
<1>5. Others(q) /\ op'[q] = IF q \in StopReq THEN x ELSE y
  BY <1>4, RequestIs
<1> QED
  BY <1>2, <1>3, <1>5 DEF Kept

LEMMA AcknowledgedIs ==
  ASSUME TypeOK, NEW q \in Req,
         op' = [op EXCEPT ![q].pc = "send", ![q].next = @ + 1]
  PROVE  Others(q) /\ Kept(q) /\ op'[q].pc = "send" /\ op'[q].next = op[q].next + 1
<1> DEFINE x == [op[q] EXCEPT !.pc = "send", !.next = op[q].next + 1]
<1>1. op[q] \in Request /\ op \in [Req -> Request]
  BY DEF TypeOK
<1>2. /\ x.pc = "send" /\ x.next = op[q].next + 1
      /\ x.run = op[q].run /\ x.plan = op[q].plan
  BY <1>1 DEF Request
<1>3. op' = [op EXCEPT ![q] = x]
  BY <1>1
<1> HIDE DEF x
<1> QED
  BY <1>2, <1>3, RequestIs DEF Kept

LEMMA SentIs ==
  ASSUME TypeOK, NEW q \in Req, op' = [op EXCEPT ![q].pc = "wait"]
  PROVE  Others(q) /\ Kept(q) /\ op'[q].pc = "wait" /\ op'[q].next = op[q].next
<1> DEFINE x == [op[q] EXCEPT !.pc = "wait"]
<1>1. op[q] \in Request /\ op \in [Req -> Request]
  BY DEF TypeOK
<1>2. /\ x.pc = "wait" /\ x.next = op[q].next
      /\ x.run = op[q].run /\ x.plan = op[q].plan
  BY <1>1 DEF Request
<1>3. op' = [op EXCEPT ![q] = x]
  BY <1>1
<1> HIDE DEF x
<1> QED
  BY <1>2, <1>3, RequestIs DEF Kept

(* An acknowledgement that arrives for a request that waits for it.            *)
Answers(q, m, a) ==
  /\ op[q].pc = "wait"
  /\ m.kind = "ack" /\ m.req = q
  /\ Current(q).agent = a /\ Current(q).phase = m.phase /\ Current(q).role = m.role

LEMMA ReceiveAckIs ==
  ASSUME TypeOK, NEW a \in Agent, NEW g \in Gen, ReceiveAck(a, g)
  PROVE  LET m == Head(toControl[a][g]) IN
         /\ toControl[a][g] # << >> /\ m \in Ack /\ m.req \in Req
         /\ \/ UNCHANGED op
            \/ /\ Answers(m.req, m, a) /\ m.ok
               /\ op' = [op EXCEPT ![m.req].pc = "send", ![m.req].next = @ + 1]
            \/ Answers(m.req, m, a) /\ ~m.ok /\ CommandError(m.req)
<1> DEFINE m == Head(toControl[a][g])
<1>1. toControl[a][g] # << >> /\ m.kind = "ack"
  BY DEF ReceiveAck, Incoming
<1>2. m \in Ack
  BY <1>1, ConsumeType DEF Event
<1>3. m.req \in Req
  BY <1>2 DEF Ack
<1> HIDE DEF m
<1>4. \/ UNCHANGED op
      \/ /\ Answers(m.req, m, a) /\ m.ok
         /\ op' = [op EXCEPT ![m.req].pc = "send", ![m.req].next = @ + 1]
      \/ Answers(m.req, m, a) /\ ~m.ok /\ CommandError(m.req)
  BY <1>1 DEF ReceiveAck, Answers, m
<1> QED
  BY <1>1, <1>2, <1>3, <1>4 DEF m

(* start_run: the ways its request moves.                                      *)
Stays(r) == op'[r] = op[r] \/ (op[r].pc = "idle" /\ op'[r].pc = "idle")

IsOver(r) == op[r].pc # "idle" /\ op'[r].pc \in {"done", "dropped"}

Waits(r) ==
  /\ Busy(r) /\ op[r].next <= 4 /\ Kept(r)
  /\ op'[r].pc \in {"wait", "error"} /\ op'[r].next = op[r].next

IsAnswered(r) ==
  /\ Busy(r) /\ Kept(r) /\ op'[r].pc = "send" /\ op'[r].next = op[r].next + 1
  /\ \E a \in Agent, g \in Gen :
       /\ toControl[a][g] # << >>
       /\ Answers(r, Head(toControl[a][g]), a) /\ Head(toControl[a][g]).ok

Moves(r) ==
  Stays(r) \/ IsOver(r) \/ Waits(r) \/ IsAnswered(r) \/ (r \in StartReq /\ StartBegin(r))

LEMMA OneMoves ==
  ASSUME NEW q \in Req, Others(q), q \in Run => Moves(q)
  PROVE  \A r \in Run : Moves(r)
BY DEF Others, Moves, Stays, Req, Run

LEMMA RequestMoves ==
  ASSUME IInv, StartsArePlanned, RequestStep PROVE \A r \in Run : Moves(r)
<1> USE DEF IInv
<1>1. ASSUME NEW q \in Req, NEW x, op' = [op EXCEPT ![q] = x],
             x.pc \in {"done", "dropped"}, op[q].pc # "idle"
      PROVE  \A r \in Run : Moves(r)
  BY <1>1, RequestIs, OneMoves DEF Moves, IsOver
<1>2. ASSUME NEW q \in StopReq \cup PauseReq, NEW x, op' = [op EXCEPT ![q] = x]
      PROVE  \A r \in Run : Moves(r)
  BY <1>2, RequestIs, OneMoves, RequestsAreDistinct DEF Run, Req
<1>3. ASSUME NEW q \in StartReq, StartBegin(q) PROVE \A r \in Run : Moves(r)
  <2>1. PICK x : op' = [op EXCEPT ![q] = x]
    BY <1>3 DEF StartBegin
  <2> QED
    BY <1>3, <2>1, RequestIs, OneMoves DEF Moves, Req
<1>4. ASSUME NEW q \in StartReq, StartSucceeds(q) \/ StartFails(q)
      PROVE  \A r \in Run : Moves(r)
  BY <1>1, <1>4 DEF StartSucceeds, StartFails, AtEnd, DoneOp, NoOp, Req
<1>5. ASSUME NEW q \in Req, RequestDropped(q) PROVE \A r \in Run : Moves(r)
  BY <1>1, <1>5 DEF RequestDropped, DroppedOp, NoOp
<1>6. ASSUME NEW q \in StopReq \cup PauseReq,
             \/ \E r \in Run, goal \in Status : Check(q, r, goal)
             \/ StopClears(q) \/ PauseSucceeds(q) \/ PauseFails(q)
      PROVE  \A r \in Run : Moves(r)
  BY <1>2, <1>6 DEF Check, StopClears, PauseSucceeds, PauseFails
<1>7. ASSUME NEW q \in StopReq \cup PauseReq, MakePlan(q) \/ StopFinishes(q)
      PROVE  \A r \in Run : Moves(r)
  <2>1. \A p \in Run : op'[p] = op[p]
    BY <1>7, RequestsAreDistinct DEF MakePlan, StopFinishes, TypeOK, Req, Run
  <2> QED
    BY <2>1 DEF Moves, Stays
<1>8. ASSUME NEW q \in Req, SendCommand(q) \/ CommandTimeout(q)
      PROVE  \A r \in Run : Moves(r)
  <2>1. ASSUME q \in Run PROVE op[q].next <= 4 /\ Busy(q) /\ q \notin StopReq
    BY <1>8, <2>1, RequestsAreDistinct
       DEF SendCommand, CommandTimeout, StartsArePlanned, PlanIsStart, Busy,
           InProgress, Run
  <2>2. \/ op' = [op EXCEPT ![q].pc = "wait"]
        \/ CommandError(q)
    BY <1>8 DEF SendCommand, CommandTimeout
  <2>3. /\ Others(q) /\ Kept(q)
        /\ q \notin StopReq => op'[q].pc \in {"wait", "error"}
                               /\ op'[q].next = op[q].next
    BY <2>2, SentIs, CommandErrorIs
  <2> QED
    BY <2>1, <2>3, OneMoves DEF Moves, Waits
<1>9. CASE \E q \in StartReq : StartBegin(q) \/ StartSucceeds(q) \/ StartFails(q)
  BY <1>9, <1>3, <1>4
<1>10. CASE \E q \in StopReq : StopBegin(q) \/ StopFinishes(q) \/ StopClears(q)
  BY <1>10, <1>6, <1>7 DEF StopBegin, Status, EndStatus
<1>11. CASE \E q \in PauseReq : PauseBegin(q) \/ PauseSucceeds(q) \/ PauseFails(q)
  BY <1>11, <1>6 DEF PauseBegin, Status, LiveStatus
<1>12. CASE \E q \in StopReq \cup PauseReq : MakePlan(q)
  BY <1>12, <1>7
<1>13. CASE \E q \in Req : SendCommand(q) \/ CommandTimeout(q) \/ RequestDropped(q)
  BY <1>13, <1>5, <1>8
<1> QED
  BY <1>9, <1>10, <1>11, <1>12, <1>13 DEF RequestStep

LEMMA AckMoves ==
  ASSUME IInv, StartsArePlanned, NEW a \in Agent, NEW g \in Gen, ReceiveAck(a, g)
  PROVE  \A r \in Run : Moves(r)
<1> DEFINE m == Head(toControl[a][g])
<1>1. /\ toControl[a][g] # << >> /\ m.req \in Req
      /\ \/ UNCHANGED op
         \/ /\ Answers(m.req, m, a) /\ m.ok
            /\ op' = [op EXCEPT ![m.req].pc = "send", ![m.req].next = @ + 1]
         \/ Answers(m.req, m, a) /\ ~m.ok /\ CommandError(m.req)
  BY ReceiveAckIs DEF IInv
<1> HIDE DEF m
<1>2. CASE UNCHANGED op
  BY <1>2 DEF Moves, Stays
<1>3. ASSUME m.req \in Run, op[m.req].pc = "wait"
      PROVE  Busy(m.req) /\ op[m.req].next <= 4 /\ m.req \notin StopReq
  BY <1>3, RequestsAreDistinct
     DEF StartsArePlanned, PlanIsStart, Busy, InProgress, Run
<1>4. CASE /\ Answers(m.req, m, a) /\ m.ok
           /\ op' = [op EXCEPT ![m.req].pc = "send", ![m.req].next = @ + 1]
  <2>1. /\ Others(m.req) /\ Kept(m.req) /\ op'[m.req].pc = "send"
        /\ op'[m.req].next = op[m.req].next + 1
    BY <1>1, <1>4, AcknowledgedIs DEF IInv
  <2>2. ASSUME m.req \in Run PROVE IsAnswered(m.req)
    <3>1. Answers(m.req, Head(toControl[a][g]), a) /\ Head(toControl[a][g]).ok
      BY <1>4 DEF m
    <3>2. Busy(m.req)
      BY <1>3, <1>4, <2>2 DEF Answers
    <3> QED
      BY <1>1, <2>1, <3>1, <3>2 DEF IsAnswered
  <2> QED
    BY <1>1, <2>1, <2>2, OneMoves DEF Moves
<1>5. CASE Answers(m.req, m, a) /\ ~m.ok /\ CommandError(m.req)
  <2>1. /\ Others(m.req) /\ Kept(m.req)
        /\ m.req \notin StopReq => /\ op'[m.req].pc = "error"
                                   /\ op'[m.req].next = op[m.req].next
    BY <1>1, <1>5, CommandErrorIs DEF IInv
  <2>2. ASSUME m.req \in Run PROVE Waits(m.req)
    BY <1>3, <1>5, <2>1, <2>2 DEF Answers, Waits
  <2> QED
    BY <1>1, <2>1, <2>2, OneMoves DEF Moves
<1> QED
  BY <1>1, <1>2, <1>4, <1>5

(* What the session tasks and the jobs leave alone.                            *)
SessionOnly(a, g) ==
  \/ ReceiveError(a, g) \/ ReceiveCompleted(a, g) \/ CountCompletion(a, g)
  \/ FinishWrites(a, g) \/ FinishClears(a, g) \/ StreamEnds(a, g)
  \/ CheckParticipant(a, g) \/ WriteDegraded(a, g) \/ GraceExpires(a, g)

LEMMA SessionOnlyKeeps ==
  ASSUME NEW a \in Agent, NEW g \in Gen, SessionOnly(a, g)
  PROVE  UNCHANGED <<op, conn, lastGen, prepared, place, job>>
<1>1. CASE ReceiveError(a, g) \/ ReceiveCompleted(a, g)
  BY <1>1 DEF ReceiveError, ReceiveCompleted, agentVars
<1>2. CASE CountCompletion(a, g) \/ FinishWrites(a, g) \/ FinishClears(a, g)
  BY <1>2 DEF CountCompletion, FinishWrites, FinishClears, agentVars
<1>3. CASE StreamEnds(a, g) \/ CheckParticipant(a, g)
  BY <1>3 DEF StreamEnds, CheckParticipant, agentVars
<1>4. CASE WriteDegraded(a, g) \/ GraceExpires(a, g)
  BY <1>4 DEF WriteDegraded, GraceExpires, agentVars
<1> QED
  BY <1>1, <1>2, <1>3, <1>4 DEF SessionOnly

LEMMA ReceiveAckKeepsAgents ==
  ASSUME NEW a \in Agent, NEW g \in Gen, ReceiveAck(a, g)
  PROVE  UNCHANGED <<startLock, activeRun, tracked, completed, session, task, status,
                     finished, toAgent, conn, lastGen, prepared, place, job>>
BY DEF ReceiveAck, dbVars, agentVars

LEMMA SessionSteps ==
  ASSUME SessionStep
  PROVE  \E a \in Agent, g \in Gen : ReceiveAck(a, g) \/ SessionOnly(a, g)
BY DEF SessionStep, SessionOnly

LEMMA OpUntouched ==
  ASSUME AgentStep \/ JobStep \/ UNCHANGED vars
  PROVE  UNCHANGED op
<1>1. CASE AgentStep
  BY <1>1 DEF AgentStep, Connect, Disconnect, AgentCrash, AgentPrepare, AgentStart,
     AgentStop, AgentSetPaused, controlVars
<1>2. CASE JobStep
  BY <1>2 DEF JobStep, JobElapses, JobReports, JobFails, controlVars
<1> QED
  BY <1>1, <1>2 DEF vars, controlVars

LEMMA StartsMove ==
  ASSUME IInv, StartsArePlanned, [Next]_vars PROVE \A r \in Run : Moves(r)
<1>1. ASSUME UNCHANGED op PROVE \A r \in Run : Moves(r)
  BY <1>1 DEF Moves, Stays
<1>2. CASE ControlRestart
  <2>1. \A r \in Run : op'[r] = IF op[r].pc = "idle" THEN NoOp ELSE DoneOp
    BY <1>2 DEF ControlRestart, Run, Req
  <2> QED
    BY <2>1 DEF Moves, Stays, IsOver, NoOp, DoneOp
<1> QED
  BY <1>1, <1>2, RequestMoves, AckMoves, OpUntouched, SessionSteps, SessionOnlyKeeps
     DEF Next

(* ... and the endpoints of a run are placed when it begins.                   *)
LEMMA PlaceMoves ==
  ASSUME IInv, [Next]_vars
  PROVE  \/ UNCHANGED place
         \/ \E q \in StartReq : /\ StartBegin(q)
                                /\ \A r \in Run \ {q} : place'[r] = place[r]
<1>1. CASE RequestStep
  <2>1. ASSUME NEW q \in StartReq, StartBegin(q)
        PROVE  \A r \in Run \ {q} : place'[r] = place[r]
    BY <2>1 DEF StartBegin, IInv, TypeOK
  <2>2. ASSUME NEW q \in Req,
               \/ StartSucceeds(q) \/ StartFails(q) \/ StopFinishes(q) \/ StopClears(q)
               \/ PauseSucceeds(q) \/ PauseFails(q) \/ MakePlan(q) \/ SendCommand(q)
               \/ CommandTimeout(q) \/ RequestDropped(q)
               \/ \E r \in Run, goal \in Status : Check(q, r, goal)
        PROVE  UNCHANGED place
    BY <2>2 DEF StartSucceeds, StartFails, Check, MakePlan, StopFinishes,
       StopClears, PauseSucceeds, PauseFails, SendCommand, CommandTimeout,
       RequestDropped, agentVars
  <2> QED
    BY <1>1, <2>1, <2>2 DEF RequestStep, StopBegin, PauseBegin, Req, Status,
       LiveStatus, EndStatus
<1>2. CASE SessionStep
  BY <1>2, SessionSteps, SessionOnlyKeeps, ReceiveAckKeepsAgents
<1>3. CASE AgentStep
  BY <1>3 DEF AgentStep, Connect, Disconnect, AgentCrash, AgentPrepare, AgentStart,
     AgentStop, AgentSetPaused
<1>4. CASE JobStep
  BY <1>4 DEF JobStep, JobElapses, JobReports, JobFails
<1>5. CASE ControlRestart \/ UNCHANGED vars
  BY <1>5 DEF ControlRestart, vars, agentVars
<1> QED
  BY <1>1, <1>2, <1>3, <1>4, <1>5 DEF Next

(* What follows from Moves alone: a run that has begun stays placed, and its   *)
(* commands, once on the wire, do not become unsent.                          *)
BegunStays(r) ==
  /\ op[r].pc # "idle" => op'[r].pc # "idle" /\ place'[r] = place[r]
  /\ op[r].pc # "idle" /\ Busy(r)' =>
       Busy(r) /\ op'[r].plan = op[r].plan /\ (\A o \in Role : Clone(r, o)' = Clone(r, o))
  /\ \A p \in EndpointPhase, o \in Role : NotYet(r, p, o)' => NotYet(r, p, o)

LEMMA StartsStay ==
  ASSUME IInv, StartsArePlanned, [Next]_vars PROVE \A r \in Run : BegunStays(r)
<1> SUFFICES ASSUME NEW r \in Run PROVE BegunStays(r)
  OBVIOUS
<1>1. Moves(r)
  BY StartsMove
<1>2. op[r].pc # "idle" => place'[r] = place[r]
  BY PlaceMoves DEF StartBegin, Run
<1>3. \A p \in EndpointPhase, o \in Role : At(p, o) \in Nat
  BY DEF At
<1>4. op[r] \in Request /\ op[r].next \in Nat
  BY DEF IInv, TypeOK, Request, Run, Req
<1>5. CASE Stays(r)
  BY <1>2, <1>5 DEF BegunStays, Stays, Busy, NotYet, Clone, InProgress
<1>6. CASE IsOver(r)
  BY <1>2, <1>6 DEF BegunStays, IsOver, Busy, NotYet, InProgress
<1>7. CASE Waits(r)
  <2>1. \A p \in EndpointPhase, o \in Role : NotYet(r, p, o)' => NotYet(r, p, o)
    BY <1>3, <1>4, <1>7 DEF Waits, Kept, Busy, NotYet, InProgress
  <2> QED
    BY <1>2, <1>7, <2>1 DEF BegunStays, Waits, Kept, Busy, Clone, InProgress
<1>8. CASE IsAnswered(r)
  <2>1. \A p \in EndpointPhase, o \in Role : NotYet(r, p, o)' => NotYet(r, p, o)
    BY <1>3, <1>4, <1>8 DEF IsAnswered, Answers, Kept, Busy, NotYet, InProgress
  <2> QED
    BY <1>2, <1>8, <2>1 DEF BegunStays, IsAnswered, Answers, Kept, Busy, Clone,
       InProgress
<1>9. CASE r \in StartReq /\ StartBegin(r)
  BY <1>9 DEF BegunStays, StartBegin, NotYet
<1> QED
  BY <1>1, <1>5, <1>6, <1>7, <1>8, <1>9 DEF Moves

-----------------------------------------------------------------------------
(* The jobs: only AgentStart makes one run, and only from nothing.             *)

QuietJob(j, k) ==
  \/ k = j
  \/ /\ j.state \in {"running", "draining"} /\ k.gen = j.gen
     /\ k.state # "none"
     /\ k.state = "running" => j.state = "running"

JobsQuiet == \A r \in Run, o \in Role : QuietJob(job[r][o], job'[r][o])

LEMMA UpdatedJobIsQuiet ==
  ASSUME NEW j \in Job, NEW k,
         \/ j.state \in {"running", "draining"} /\
              \/ k = [j EXCEPT !.state = "killed", !.paused = FALSE]
              \/ k = [j EXCEPT !.state = "failed", !.paused = FALSE]
              \/ k = [j EXCEPT !.state = "draining", !.paused = FALSE]
              \/ k = [j EXCEPT !.state = "draining"]
              \/ k = [j EXCEPT !.state = "reported"]
         \/ j.state = "running" /\ \E b \in BOOLEAN : k = [j EXCEPT !.paused = b]
  PROVE  QuietJob(j, k)
BY DEF Job, QuietJob

LEMMA OneJobIsQuiet ==
  ASSUME TypeOK, NEW r \in Run, NEW o \in Role, NEW k,
         job' = [job EXCEPT ![r][o] = k], QuietJob(job[r][o], k)
  PROVE  JobsQuiet
<1>1. job \in [Run -> [Role -> Job]]
  BY DEF TypeOK
<1>2. \A x \in Run, p \in Role :
        job'[x][p] = IF x = r /\ p = o THEN k ELSE job[x][p]
  BY <1>1
<1> QED
  BY <1>2 DEF JobsQuiet, QuietJob

LEMMA JobStepQuiet ==
  ASSUME TypeOK, NEW r \in Run, NEW o \in Role,
         JobElapses(r, o) \/ JobReports(r, o) \/ JobFails(r, o)
  PROVE  /\ JobsQuiet /\ job[r][o].state \in {"running", "draining"}
         /\ JobReports(r, o) => job'[r][o].state = "reported"
<1>1. job[r][o] \in Job /\ job \in [Run -> [Role -> Job]]
  BY DEF TypeOK
<1>2. CASE JobElapses(r, o)
  <2> DEFINE k == [job[r][o] EXCEPT !.state = "draining"]
  <2>1. job' = [job EXCEPT ![r][o] = k] /\ job[r][o].state = "running"
    BY <1>1, <1>2 DEF JobElapses
  <2>2. QuietJob(job[r][o], k)
    BY <1>1, <2>1, UpdatedJobIsQuiet
  <2> QED
    BY <1>1, <1>2, <2>1, <2>2, OneJobIsQuiet DEF JobElapses, JobReports
<1>3. CASE JobReports(r, o)
  <2> DEFINE k == [job[r][o] EXCEPT !.state = "reported"]
  <2>1. job' = [job EXCEPT ![r][o] = k] /\ job[r][o].state = "draining"
    BY <1>1, <1>3 DEF JobReports
  <2>2. QuietJob(job[r][o], k) /\ k.state = "reported"
    BY <1>1, <2>1, UpdatedJobIsQuiet DEF Job
  <2>3. job'[r][o] = k
    BY <1>1, <2>1
  <2> QED
    BY <2>1, <2>2, <2>3, OneJobIsQuiet
<1>4. CASE JobFails(r, o)
  <2> DEFINE k == [job[r][o] EXCEPT !.state = "failed", !.paused = FALSE]
  <2>1. /\ job' = [job EXCEPT ![r][o] = k]
        /\ job[r][o].state \in {"running", "draining"}
    BY <1>1, <1>4 DEF JobFails
  <2>2. QuietJob(job[r][o], k)
    BY <1>1, <2>1, UpdatedJobIsQuiet
  <2>3. ASSUME JobReports(r, o) PROVE job'[r][o].state = "reported"
    BY <1>1, <2>3 DEF JobReports
  <2> QED
    BY <2>1, <2>2, <2>3, OneJobIsQuiet
<1> QED
  BY <1>2, <1>3, <1>4

LEMMA AgentCrashQuiet ==
  ASSUME TypeOK, NEW a \in Agent, AgentCrash(a) PROVE JobsQuiet
<1> SUFFICES ASSUME NEW r \in Run, NEW o \in Role
             PROVE  QuietJob(job[r][o], job'[r][o])
  BY DEF JobsQuiet
<1>1. job[r][o] \in Job
  BY DEF TypeOK
<1>2. job'[r][o] = IF place[r][o] = a /\ job[r][o].state \in {"running", "draining"}
                   THEN [job[r][o] EXCEPT !.state = "killed", !.paused = FALSE]
                   ELSE job[r][o]
  BY DEF AgentCrash
<1>3. CASE job'[r][o] = job[r][o]
  BY <1>3 DEF QuietJob
<1>4. CASE /\ job[r][o].state \in {"running", "draining"}
           /\ job'[r][o] = [job[r][o] EXCEPT !.state = "killed", !.paused = FALSE]
  <2> DEFINE k == [job[r][o] EXCEPT !.state = "killed", !.paused = FALSE]
  <2>1. QuietJob(job[r][o], k)
    BY <1>1, <1>4, UpdatedJobIsQuiet
  <2> HIDE DEF k
  <2>2. job'[r][o] = k
    BY <1>4 DEF k
  <2> QED
    BY <2>1, <2>2
<1> QED
  BY <1>2, <1>3, <1>4

(* A Stop leaves nothing of its run running on the connection it came on.      *)
LEMMA AgentStopQuiet ==
  ASSUME TypeOK, NEW a \in Agent, AgentStop(a)
  PROVE  /\ JobsQuiet
         /\ \A o \in Role : LET r == Head(toAgent[a]).run IN
              r \in Run /\ (Holds(a, r, o) => job'[r][o].state # "running")
<1> DEFINE r == Head(toAgent[a]).run
<1>1. Handling(a, {"stop"}) /\ job \in [Run -> [Role -> Job]]
  BY DEF AgentStop, TypeOK
<1>2. r \in Run
  BY <1>1, HeadType DEF Command
<1>3. /\ \A o \in Role : job'[r][o] =
            IF Holds(a, r, o) /\ job[r][o].state = "running"
            THEN [job[r][o] EXCEPT !.state = "draining", !.paused = FALSE]
            ELSE job[r][o]
      /\ \A x \in Run \ {r} : job'[x] = job[x]
  BY <1>1, <1>2 DEF AgentStop
<1> HIDE DEF r
<1>4. \A o \in Role : QuietJob(job[r][o], job'[r][o])
  <2> TAKE o \in Role
  <2>1. job[r][o] \in Job
    BY <1>1, <1>2
  <2>2. CASE Holds(a, r, o) /\ job[r][o].state = "running"
    <3> DEFINE j == job[r][o]
               k == [j EXCEPT !.state = "draining", !.paused = FALSE]
    <3>1. job'[r][o] = k
      BY <1>3, <2>2
    <3>2. j.state \in {"running", "draining"}
      BY <2>2
    <3> HIDE DEF j
    <3>3. QuietJob(j, k)
      BY <2>1, <3>2, UpdatedJobIsQuiet DEF j
    <3> HIDE DEF k
    <3> QED BY <3>1, <3>3 DEF j
  <2>3. CASE ~(Holds(a, r, o) /\ job[r][o].state = "running")
    BY <1>3, <2>3 DEF QuietJob
  <2> QED
    BY <2>2, <2>3
<1>5. \A o \in Role : Holds(a, r, o) => job'[r][o].state # "running"
  <2> TAKE o \in Role
  <2>1. job[r][o] \in Job
    BY <1>1, <1>2
  <2>2. [job[r][o] EXCEPT !.state = "draining", !.paused = FALSE].state = "draining"
    BY <2>1 DEF Job
  <2> QED
    BY <1>3, <2>2
<1>6. JobsQuiet
  BY <1>3, <1>4 DEF JobsQuiet, QuietJob
<1> QED
  BY <1>2, <1>5, <1>6 DEF r

LEMMA AgentSetPausedQuiet ==
  ASSUME TypeOK, NEW a \in Agent, AgentSetPaused(a) PROVE JobsQuiet
<1> DEFINE m == Head(toAgent[a])
           r == m.run
           b == (m.phase = "pause")
<1>1. Handling(a, {"pause", "resume"}) /\ job \in [Run -> [Role -> Job]]
  BY DEF AgentSetPaused, TypeOK
<1>2. r \in Run /\ b \in BOOLEAN
  BY <1>1, HeadType DEF Command
<1>3. /\ \A o \in Role : job'[r][o] =
            IF Holds(a, r, o) /\ job[r][o].state = "running"
            THEN [job[r][o] EXCEPT !.paused = b]
            ELSE job[r][o]
      /\ \A x \in Run \ {r} : job'[x] = job[x]
  BY <1>1, <1>2 DEF AgentSetPaused
<1> HIDE DEF r, b
<1>4. \A o \in Role : QuietJob(job[r][o], job'[r][o])
  <2> TAKE o \in Role
  <2>1. job[r][o] \in Job
    BY <1>1, <1>2
  <2> DEFINE k == [job[r][o] EXCEPT !.paused = b]
  <2>2. job[r][o].state = "running" => QuietJob(job[r][o], k)
    BY <1>2, <2>1, UpdatedJobIsQuiet
  <2>3. job'[r][o] = IF Holds(a, r, o) /\ job[r][o].state = "running" THEN k
                     ELSE job[r][o]
    BY <1>3
  <2> HIDE DEF k
  <2>4. QuietJob(job[r][o], job[r][o])
    BY DEF QuietJob
  <2> QED
    BY <2>2, <2>3, <2>4
<1> QED
  BY <1>3, <1>4 DEF JobsQuiet, QuietJob

-----------------------------------------------------------------------------
(* The wires: what a step leaves of the commands to an Agent.                  *)

Shift(a, k) ==
  \A i \in 1 .. Len(toAgent'[a]) :
    \/ i + k \in 1 .. Len(toAgent[a]) /\ toAgent'[a][i] = toAgent[a][i + k]
    \/ i + k > Len(toAgent[a]) /\ toAgent'[a][i].phase \in RunPhase

LEMMA AppendParts ==
  ASSUME NEW S, NEW s \in Seq(S), NEW m
  PROVE  /\ Len(Append(s, m)) = Len(s) + 1
         /\ \A i \in 1 .. Len(s) : Append(s, m)[i] = s[i]
         /\ Append(s, m)[Len(s) + 1] = m
OBVIOUS

LEMMA TailParts ==
  ASSUME NEW S, NEW s \in Seq(S), s # << >>
  PROVE  /\ Len(Tail(s)) = Len(s) - 1 /\ Len(s) >= 1 /\ Head(s) = s[1]
         /\ \A i \in 1 .. Len(Tail(s)) : i + 1 \in 1 .. Len(s) /\ Tail(s)[i] = s[i + 1]
OBVIOUS

LEMMA Shifts ==
  ASSUME TypeOK, NEW a \in Agent
  PROVE  /\ toAgent'[a] = toAgent[a] => Shift(a, 0)
         /\ toAgent'[a] = << >> => Shift(a, 0)
         /\ toAgent[a] # << >> /\ toAgent'[a] = Tail(toAgent[a]) => Shift(a, 1)
         /\ \A m : m.phase \in RunPhase /\ toAgent'[a] = Append(toAgent[a], m) =>
                     Shift(a, 0)
<1>1. toAgent[a] \in Seq(Command) /\ Len(toAgent[a]) \in Nat
  BY DEF TypeOK
<1> HIDE DEF Command, RunPhase
<1>2. toAgent'[a] = toAgent[a] => Shift(a, 0)
  BY <1>1 DEF Shift
<1>3. toAgent'[a] = << >> => Shift(a, 0)
  BY DEF Shift
<1>4. toAgent[a] # << >> /\ toAgent'[a] = Tail(toAgent[a]) => Shift(a, 1)
  BY <1>1, TailParts DEF Shift
<1>5. ASSUME NEW m, m.phase \in RunPhase, toAgent'[a] = Append(toAgent[a], m)
      PROVE  Shift(a, 0)
  <2>1. /\ Len(toAgent'[a]) = Len(toAgent[a]) + 1
        /\ \A i \in 1 .. Len(toAgent[a]) : toAgent'[a][i] = toAgent[a][i]
        /\ toAgent'[a][Len(toAgent[a]) + 1] = m
    BY <1>1, <1>5, AppendParts
  <2> QED
    BY <1>1, <1>5, <2>1 DEF Shift
<1> QED
  BY <1>2, <1>3, <1>4, <1>5

LEMMA StopsShift ==
  ASSUME TypeOK, NEW S, NEW r, SendStops(S, r) PROVE \A a \in Agent : Shift(a, 0)
<1> TAKE a \in Agent
<1>1. \/ toAgent'[a] = toAgent[a]
      \/ toAgent'[a] = Append(toAgent[a], StopCommand(r))
  BY DEF SendStops
<1>2. StopCommand(r).phase \in RunPhase
  BY DEF StopCommand, RunPhase
<1> QED
  BY <1>1, <1>2, Shifts

(* The steps of Control that touch no Agent and send nothing but Stops.        *)
ControlOnly ==
  UNCHANGED <<conn, lastGen, prepared, job>> /\ \A a \in Agent : Shift(a, 0)

LEMMA SessionIsControlOnly ==
  ASSUME TypeOK, NEW a \in Agent, NEW g \in Gen, ReceiveAck(a, g) \/ SessionOnly(a, g)
  PROVE  ControlOnly /\ UNCHANGED place
<1>1. UNCHANGED <<conn, lastGen, prepared, place, job>>
  BY SessionOnlyKeeps, ReceiveAckKeepsAgents
<1>2. \/ UNCHANGED toAgent
      \/ \E r : SendStops(Reachable, r)
  <2>1. CASE ReceiveAck(a, g)
    BY <2>1, ReceiveAckKeepsAgents
  <2>2. CASE ReceiveError(a, g) \/ GraceExpires(a, g)
    BY <2>2 DEF ReceiveError, GraceExpires
  <2>3. CASE SessionOnly(a, g) /\ ~(ReceiveError(a, g) \/ GraceExpires(a, g))
    BY <2>3 DEF SessionOnly, ReceiveCompleted, CountCompletion, FinishWrites,
       FinishClears, StreamEnds, CheckParticipant, WriteDegraded, wireVars
  <2> QED
    BY <2>1, <2>2, <2>3
<1> QED
  BY <1>1, <1>2, StopsShift, Shifts DEF ControlOnly

LEMMA RequestIsControlOnly ==
  ASSUME TypeOK, NEW q \in Req,
         \/ q \in StartReq /\ StartBegin(q)
         \/ StartSucceeds(q) \/ StartFails(q) \/ StopFinishes(q) \/ StopClears(q)
         \/ PauseSucceeds(q) \/ PauseFails(q) \/ MakePlan(q)
         \/ CommandTimeout(q) \/ RequestDropped(q)
         \/ \E r \in Run, goal \in Status : Check(q, r, goal)
  PROVE  ControlOnly /\ UNCHANGED <<session, task, toControl>>
<1>1. CASE StartFails(q)
  <2>1. UNCHANGED <<conn, lastGen, prepared, job, session, task, toControl>>
    BY <1>1 DEF StartFails, agentVars
  <2>2. UNCHANGED toAgent \/ \E S : SendStops(S, q)
    BY <1>1 DEF StartFails
  <2> QED
    BY <2>1, <2>2, StopsShift, Shifts DEF ControlOnly
<1>2. CASE ~StartFails(q)
  <2>1. UNCHANGED <<conn, lastGen, prepared, job, toAgent, session, task, toControl>>
    BY <1>2 DEF StartBegin, StartSucceeds, Check, MakePlan, StopFinishes, StopClears,
       PauseSucceeds, PauseFails, CommandTimeout, RequestDropped, wireVars, agentVars
  <2> QED
    BY <2>1, Shifts DEF ControlOnly
<1> QED
  BY <1>1, <1>2

(* Connections come and go; nothing but Connect opens one.                     *)

LEMMA ConnectIs ==
  ASSUME TypeOK, NEW a \in Agent, Connect(a)
  PROVE  /\ conn[a] = 0 /\ conn'[a] = lastGen[a] + 1 /\ lastGen'[a] = lastGen[a] + 1
         /\ session'[a] = lastGen[a] + 1 /\ lastGen[a] + 1 \in Gen
         /\ \A b \in Agent \ {a} : /\ conn'[b] = conn[b] /\ lastGen'[b] = lastGen[b]
                                   /\ session'[b] = session[b]
         /\ \A b \in Agent, g \in Gen :
              task'[b][g] = IF b = a /\ g = lastGen[a] + 1 THEN Reading ELSE task[b][g]
         /\ UNCHANGED <<startLock, activeRun, tracked, completed, op, status, finished,
                        toAgent, toControl, prepared, place, job>>
<1>1. lastGen[a] + 1 \in Gen
  BY BoundsAreNatural DEF Connect, TypeOK, Gen
<1> QED
  BY <1>1 DEF Connect, TypeOK, Step, dbVars, wireVars

LEMMA LeaveIs ==
  ASSUME TypeOK, NEW a \in Agent, Disconnect(a) \/ AgentCrash(a)
  PROVE  /\ conn'[a] = 0 /\ toAgent'[a] = << >>
         /\ \A o \in Role : prepared'[a][o] = None
         /\ \A b \in Agent \ {a} : /\ conn'[b] = conn[b] /\ prepared'[b] = prepared[b]
                                   /\ toAgent'[b] = toAgent[b]
         /\ JobsQuiet
         /\ UNCHANGED <<startLock, activeRun, tracked, completed, session, op, task,
                        status, finished, toControl, lastGen, place>>
<1>1. LeaveConnection(a)
  BY DEF Disconnect, AgentCrash
<1>2. JobsQuiet
  BY AgentCrashQuiet DEF Disconnect, JobsQuiet, QuietJob
<1>3. UNCHANGED <<startLock, activeRun, tracked, completed, session, op, task,
                  status, finished, toControl, lastGen, place>>
  BY DEF Disconnect, AgentCrash, controlVars, dbVars
<1> QED
  BY <1>1, <1>2, <1>3 DEF LeaveConnection, TypeOK

(* One command handled: what its Agent and the wires look like after.          *)
LEMMA HandledIs ==
  ASSUME TypeOK, NEW a \in Agent, NEW phases, Handling(a, phases), NEW ok,
         Reply(a, ok)
  PROVE  /\ toAgent[a] # << >> /\ toAgent[a][1] = Head(toAgent[a])
         /\ 1 \in 1 .. Len(toAgent[a])
         /\ Head(toAgent[a]) \in Command /\ Head(toAgent[a]).phase \in phases
         /\ conn[a] \in Gen
         /\ toAgent'[a] = Tail(toAgent[a])
         /\ Shift(a, 1)
         /\ \A b \in Agent \ {a} : toAgent'[b] = toAgent[b] /\ Shift(b, 0)
<1>1. /\ toAgent[a] # << >> /\ toAgent[a] \in Seq(Command)
      /\ Head(toAgent[a]) \in Command /\ Head(toAgent[a]).phase \in phases
      /\ conn[a] \in Gen
  BY HeadType DEF Handling, TypeOK
<1>2. /\ toAgent'[a] = Tail(toAgent[a])
      /\ \A b \in Agent \ {a} : toAgent'[b] = toAgent[b]
  BY DEF Reply, TypeOK
<1> HIDE DEF Command
<1>3. toAgent[a][1] = Head(toAgent[a]) /\ 1 \in 1 .. Len(toAgent[a])
  BY <1>1, TailParts
<1> QED
  BY <1>1, <1>2, <1>3, Shifts

(* Start finds the run its command names, and nothing of it has started.       *)
LEMMA AgentStartIs ==
  ASSUME TypeOK, CommandsAreKnown, NEW a \in Agent, AgentStart(a)
  PROVE  LET m == Head(toAgent[a]) IN
         /\ m \in Command /\ m.phase = "start" /\ m.run \in Run /\ m.role \in Role
         /\ m.req = m.run /\ ~NotYet(m.run, "start", m.role)
         /\ place[m.run][m.role] = a /\ conn[a] \in Gen
         /\ Busy(m.run) => conn[a] = Clone(m.run, m.role)
         /\ job[m.run][m.role].state = "none"
         /\ \/ Reply(a, FALSE) /\ UNCHANGED job
            \/ /\ ~Conflicts(a, m.role, m.run)
               /\ job' = [job EXCEPT ![m.run][m.role] =
                            [state |-> "running", gen |-> conn[a], paused |-> FALSE]]
               /\ Reply(a, TRUE)
<1> DEFINE m == Head(toAgent[a])
<1>1. PICK ok \in BOOLEAN : Handling(a, {"start"}) /\ Reply(a, ok)
  BY DEF AgentStart
<1>2. /\ m = toAgent[a][1] /\ 1 \in 1 .. Len(toAgent[a]) /\ m \in Command
      /\ m.phase \in {"start"} /\ conn[a] \in Gen
  BY <1>1, HandledIs
<1>3. m.run \in Run /\ m.role \in Role
  BY <1>2 DEF Command, RunPhase
<1>4. CommandIs(a, m)
  BY <1>2 DEF CommandsAreKnown
<1>5. /\ m.req = m.run /\ ~NotYet(m.run, "start", m.role)
      /\ place[m.run][m.role] = a
      /\ Busy(m.run) => conn[a] = Clone(m.run, m.role)
      /\ job[m.run][m.role].state = "none" /\ prepared[a][m.role] = m.run
  BY <1>2, <1>4 DEF CommandIs, EndpointPhase
<1>6. \/ Reply(a, FALSE) /\ UNCHANGED job
      \/ /\ ~Conflicts(a, m.role, m.run)
         /\ job' = [job EXCEPT ![m.run][m.role] =
                      [state |-> "running", gen |-> conn[a], paused |-> FALSE]]
         /\ Reply(a, TRUE)
  BY <1>5 DEF AgentStart
<1> HIDE DEF m
<1> QED
  BY <1>2, <1>3, <1>5, <1>6 DEF m

LEMMA StartedJob ==
  ASSUME TypeOK, NEW r \in Run, NEW o \in Role, NEW g,
         job' = [job EXCEPT ![r][o] =
                   [state |-> "running", gen |-> g, paused |-> FALSE]]
  PROVE  /\ job'[r][o].state = "running" /\ job'[r][o].gen = g
         /\ \A x \in Run, p \in Role : x # r \/ p # o => job'[x][p] = job[x][p]
BY DEF TypeOK

(* What holds of every job in every step.                                      *)
JobsKeep ==
  \A r \in Run, o \in Role :
    /\ job[r][o].state # "none" =>
         job'[r][o].state # "none" /\ job'[r][o].gen = job[r][o].gen
    /\ job[r][o].state = "reported" => job'[r][o].state = "reported"

LEMMA QuietKeeps ==
  ASSUME JobsQuiet
  PROVE  /\ JobsKeep
         /\ \A r \in Run, o \in Role :
              /\ job[r][o].state = "none" => job'[r][o] = job[r][o]
              /\ job'[r][o].state = "running" => job[r][o].state = "running"
BY DEF JobsQuiet, QuietJob, JobsKeep

LEMMA UnchangedIsQuiet == ASSUME UNCHANGED job PROVE JobsQuiet
BY DEF JobsQuiet, QuietJob

LEMMA AgentStartKeepsJobs ==
  ASSUME TypeOK, CommandsAreKnown, NEW a \in Agent, AgentStart(a) PROVE JobsKeep
<1> DEFINE m == Head(toAgent[a])
<1>1. /\ m.run \in Run /\ m.role \in Role /\ job[m.run][m.role].state = "none"
      /\ \/ UNCHANGED job
         \/ job' = [job EXCEPT ![m.run][m.role] =
                      [state |-> "running", gen |-> conn[a], paused |-> FALSE]]
  BY AgentStartIs
<1> HIDE DEF m
<1>2. CASE UNCHANGED job
  BY <1>2 DEF JobsKeep
<1>3. CASE job' = [job EXCEPT ![m.run][m.role] =
                      [state |-> "running", gen |-> conn[a], paused |-> FALSE]]
  BY <1>1, <1>3, StartedJob DEF JobsKeep
<1> QED
  BY <1>1, <1>2, <1>3

-----------------------------------------------------------------------------
(* Connected                                                                  *)

(* What the session tasks do to the sessions: a stream that ended stays ended, *)
(* and its registration goes only with it.                                    *)
SessionsFall ==
  /\ \A a \in Agent, g \in Gen : task'[a][g].live => task[a][g].live
  /\ \A a \in Agent : \/ session'[a] = session[a]
                      \/ session'[a] = 0 /\ (session[a] \in Gen => ~task'[a][session[a]].live)
  /\ \A a \in Agent, g \in Gen : task'[a][g].pc = "complete" => task'[a][g].live

LEMMA StepFalls ==
  ASSUME TypeOK, Connected, NEW a \in Agent, NEW g \in Gen, NEW t, Step(a, g, t),
         t.live => task[a][g].live, t.pc = "complete" => t.live, UNCHANGED session
  PROVE  SessionsFall
<1>1. \A b \in Agent, h \in Gen :
        task'[b][h] = IF b = a /\ h = g THEN t ELSE task[b][h]
  BY DEF TypeOK, Step
<1> QED
  BY <1>1 DEF SessionsFall, Connected

LEMMA NoneFalls ==
  ASSUME Connected, UNCHANGED <<session, task>> PROVE SessionsFall
BY DEF SessionsFall, Connected

LEMMA SessionOnlyFalls ==
  ASSUME TypeOK, Connected, NEW a \in Agent, NEW g \in Gen, SessionOnly(a, g)
  PROVE  SessionsFall
<1> DEFINE t == task[a][g]
<1>1. t \in SessionTask
  BY DEF TypeOK
<1>2. /\ Reading.live /\ ~Ended.live /\ Reading.pc = "read" /\ Ended.pc = "ended"
      /\ Reading \in SessionTask /\ Ended \in SessionTask
  BY TasksAreSessionTasks DEF Reading, Ended, NoTask
<1>3. CASE ReceiveError(a, g) \/ ReceiveCompleted(a, g)
  <2>1. t.live /\ UNCHANGED session
    BY <1>3 DEF ReceiveError, ReceiveCompleted, Incoming
  <2>2. UNCHANGED task \/ \E x : Step(a, g, x) /\ x.live
    <3>1. \A r, v : [Reading EXCEPT !.pc = "db", !.run = r, !.verdict = v].live
      BY <1>2 DEF Reading, NoTask
    <3>2. \A r, o : [Reading EXCEPT !.pc = "complete", !.run = r, !.role = o].live
      BY <1>2 DEF Reading, NoTask
    <3> QED
      BY <1>3, <3>1, <3>2 DEF ReceiveError, ReceiveCompleted
  <2> QED
    BY <2>1, <2>2, NoneFalls, StepFalls
<1>4. CASE CountCompletion(a, g)
  <2>1. t.pc = "complete" /\ t.live /\ UNCHANGED session
    BY <1>4 DEF CountCompletion, Connected
  <2>2. \E x : Step(a, g, x) /\ x.pc # "complete"
    <3>1. [t EXCEPT !.pc = "db", !.verdict = "completed"].pc = "db"
      BY <1>1 DEF SessionTask
    <3> QED
      BY <1>2, <1>4, <3>1 DEF CountCompletion
  <2> QED
    BY <2>1, <2>2, StepFalls
<1>5. CASE FinishWrites(a, g) \/ WriteDegraded(a, g)
  <2>1. /\ [t EXCEPT !.pc = "clear"].pc = "clear"
        /\ [t EXCEPT !.pc = "clear"].live = t.live
        /\ [t EXCEPT !.pc = "sleep"].pc = "sleep"
        /\ [t EXCEPT !.pc = "sleep"].live = t.live
    BY <1>1 DEF SessionTask
  <2>2. UNCHANGED session /\ \E x : Step(a, g, x) /\ x.pc # "complete" /\ x.live = t.live
    BY <1>5, <2>1 DEF FinishWrites, WriteDegraded
  <2> QED
    BY <2>2, StepFalls
<1>6. CASE FinishClears(a, g)
  <2>1. UNCHANGED session /\ Step(a, g, IF t.live THEN Reading ELSE Ended)
    BY <1>6 DEF FinishClears
  <2> QED
    BY <1>2, <2>1, StepFalls
<1>7. CASE CheckParticipant(a, g)
  <2>1. \A r : [Ended EXCEPT !.pc = "degrade", !.run = r].pc = "degrade"
    BY DEF Ended, NoTask
  <2>2. \A r : ~[Ended EXCEPT !.pc = "degrade", !.run = r].live
    BY DEF Ended, NoTask
  <2>3. UNCHANGED session /\ \E x : Step(a, g, x) /\ x.pc # "complete" /\ ~x.live
    BY <1>2, <1>7, <2>1, <2>2 DEF CheckParticipant
  <2> QED
    BY <2>3, StepFalls
<1>8. CASE GraceExpires(a, g)
  <2>1. /\ [t EXCEPT !.pc = "db", !.verdict = "failed"].pc = "db"
        /\ [t EXCEPT !.pc = "db", !.verdict = "failed"].live = t.live
    BY <1>1 DEF SessionTask
  <2>2. UNCHANGED session /\ \E x : Step(a, g, x) /\ x.pc # "complete"
                                   /\ (x.live => t.live)
    BY <1>2, <1>8, <2>1 DEF GraceExpires
  <2> QED
    BY <2>2, StepFalls
<1>9. CASE StreamEnds(a, g)
  <2>1. [Ended EXCEPT !.pc = "lost"].pc = "lost" /\ ~[Ended EXCEPT !.pc = "lost"].live
    BY DEF Ended, NoTask
  <2>2. CASE session[a] = g
    <3> DEFINE x == [Ended EXCEPT !.pc = "lost"]
    <3>1. Step(a, g, x) /\ session' = [session EXCEPT ![a] = 0]
      BY <1>9, <2>2 DEF StreamEnds
    <3>2. x.pc = "lost" /\ ~x.live
      BY <2>1
    <3> HIDE DEF x
    <3>3. \A b \in Agent, h \in Gen :
            task'[b][h] = IF b = a /\ h = g THEN x ELSE task[b][h]
      BY <3>1 DEF Step, TypeOK
    <3>4. \A b \in Agent : session'[b] = IF b = a THEN 0 ELSE session[b]
      BY <3>1 DEF TypeOK
    <3>5. /\ \A b \in Agent, h \in Gen : task'[b][h].live => task[b][h].live
          /\ \A b \in Agent, h \in Gen :
               task'[b][h].pc = "complete" => task'[b][h].live
      BY <3>2, <3>3 DEF Connected
    <3>6. ~task'[a][session[a]].live
      BY <2>2, <3>2, <3>3
    <3> QED
      BY <3>4, <3>5, <3>6 DEF SessionsFall
  <2>3. CASE session[a] # g
    <3>1. Step(a, g, Ended) /\ UNCHANGED session
      BY <1>9, <2>3 DEF StreamEnds
    <3> QED
      BY <1>2, <3>1, StepFalls
  <2> QED
    BY <2>2, <2>3
<1> QED
  BY <1>3, <1>4, <1>5, <1>6, <1>7, <1>8, <1>9 DEF SessionOnly

(* The commands Control sends go to connections that are open.                 *)

LEMMA OpenIsConnected ==
  ASSUME NEW a \in Agent, NEW g, Open(a, g)
  PROVE  conn[a] \in Gen /\ conn[a] = g /\ Live(a) /\ conn[a] # 0
BY BoundsAreNatural DEF Open, Live, Gen

LEMMA FallsConnected ==
  ASSUME TypeOK, Connected, SessionsFall, UNCHANGED <<conn, lastGen, prepared>>,
         \A a \in Agent : conn[a] = 0 => toAgent'[a] = toAgent[a]
  PROVE  Connected'
<1>1. ASSUME NEW a \in Agent, Live(a)' PROVE session'[a] = conn'[a]
  <2>1. conn[a] \in Gen /\ conn'[a] = conn[a] /\ task'[a][conn[a]].live
    BY <1>1, BoundsAreNatural DEF Live, TypeOK, Gen
  <2>2. Live(a)
    BY <2>1 DEF Live, SessionsFall, Gen
  <2>3. session[a] = conn[a]
    BY <2>2 DEF Connected
  <2> QED
    BY <2>1, <2>3 DEF SessionsFall
<1>2. ASSUME NEW a \in Agent PROVE session'[a] <= lastGen'[a]
  <2>1. /\ session[a] <= lastGen[a] /\ lastGen'[a] = lastGen[a]
        /\ lastGen[a] \in 0 .. MaxGen
    BY DEF Connected, TypeOK
  <2>2. session'[a] = session[a] \/ session'[a] = 0
    BY DEF SessionsFall
  <2> QED
    BY <2>1, <2>2, BoundsAreNatural
<1> QED
  BY <1>1, <1>2 DEF Connected, SessionsFall

LEMMA StopsReachOpen ==
  ASSUME NEW S, NEW r, SendStops(S, r), \A a \in S : a \in Agent => conn[a] # 0
  PROVE  \A a \in Agent : conn[a] = 0 => toAgent'[a] = toAgent[a]
BY DEF SendStops

LEMMA ReachableIsOpen == ASSUME NEW a \in Reachable PROVE a \in Agent /\ conn[a] # 0
BY OpenIsConnected DEF Reachable

LEMMA SessionKeepsConnected ==
  ASSUME TypeOK, Connected, NEW a \in Agent, NEW g \in Gen,
         ReceiveAck(a, g) \/ SessionOnly(a, g)
  PROVE  Connected'
<1>1. SessionsFall
  BY SessionOnlyFalls, ReceiveAckKeepsAgents, NoneFalls
<1>2. UNCHANGED <<conn, lastGen, prepared>>
  BY SessionIsControlOnly DEF ControlOnly
<1>3. \A b \in Agent : conn[b] = 0 => toAgent'[b] = toAgent[b]
  <2>1. UNCHANGED toAgent \/ \E r : SendStops(Reachable, r)
    <3>1. CASE ReceiveAck(a, g)
      BY <3>1, ReceiveAckKeepsAgents
    <3>2. CASE ReceiveError(a, g) \/ GraceExpires(a, g)
      BY <3>2 DEF ReceiveError, GraceExpires
    <3>3. CASE SessionOnly(a, g) /\ ~(ReceiveError(a, g) \/ GraceExpires(a, g))
      BY <3>3 DEF SessionOnly, ReceiveCompleted, CountCompletion, FinishWrites,
         FinishClears, StreamEnds, CheckParticipant, WriteDegraded, wireVars
    <3> QED
      BY <3>1, <3>2, <3>3
  <2> QED
    BY <2>1, ReachableIsOpen, StopsReachOpen
<1> QED
  BY <1>1, <1>2, <1>3, FallsConnected

LEMMA PlannedIsTarget ==
  ASSUME TypeOK, NEW q \in Req, NEW i \in 1 .. Len(op[q].plan)
  PROVE  op[q].plan[i] \in Targets
<1>1. op[q].plan \in Seq(Targets)
  BY DEF TypeOK, Request
<1> HIDE DEF Targets
<1> QED
  BY <1>1

LEMMA SendCommandIs ==
  ASSUME TypeOK, NEW q \in Req, SendCommand(q)
  PROVE  LET t == Current(q) IN
         /\ t \in Targets /\ t.agent \in Agent /\ op[q].next \in 1 .. Len(op[q].plan)
         /\ op[q].pc = "send" /\ Others(q) /\ Kept(q)
         /\ UNCHANGED <<startLock, activeRun, tracked, completed, session, task,
                        status, finished, toControl, conn, lastGen, prepared, place,
                        job>>
         /\ \/ /\ Open(t.agent, t.gen)
               /\ op'[q].pc = "wait" /\ op'[q].next = op[q].next
               /\ toAgent'[t.agent] =
                    Append(toAgent[t.agent], [phase |-> t.phase, run |-> op[q].run,
                                              role |-> t.role, req |-> q])
               /\ \A b \in Agent \ {t.agent} : toAgent'[b] = toAgent[b]
            \/ /\ ~Open(t.agent, t.gen) /\ UNCHANGED toAgent
               /\ q \in StopReq => op'[q].pc = "send" /\ op'[q].next = op[q].next + 1
               /\ q \notin StopReq => op'[q].pc = "error" /\ op'[q].next = op[q].next
<1> DEFINE t == Current(q)
<1>1. /\ op[q].next \in 1 .. Len(op[q].plan) /\ op[q].pc = "send"
      /\ op[q] \in Request /\ Len(op[q].plan) \in Nat
  <2>1. op[q] \in Request /\ op[q].plan \in Seq(Targets) /\ op[q].next \in Nat \ {0}
    BY DEF TypeOK, Request
  <2>2. Len(op[q].plan) \in Nat
    BY <2>1
  <2> QED
    BY <2>1, <2>2 DEF SendCommand
<1>2. t \in Targets
  BY <1>1, PlannedIsTarget DEF Current
<1>3. t.agent \in Agent
  BY <1>2 DEF Targets
<1>4. UNCHANGED <<startLock, activeRun, tracked, completed, session, task,
                  status, finished, toControl, conn, lastGen, prepared, place, job>>
  BY DEF SendCommand, dbVars, agentVars
<1>5. \/ /\ Open(t.agent, t.gen)
         /\ op' = [op EXCEPT ![q].pc = "wait"]
         /\ toAgent' = [toAgent EXCEPT ![t.agent] =
                          Append(@, [phase |-> t.phase, run |-> op[q].run,
                                     role |-> t.role, req |-> q])]
      \/ ~Open(t.agent, t.gen) /\ CommandError(q) /\ UNCHANGED toAgent
  BY DEF SendCommand
<1> HIDE DEF t
<1>6. CASE /\ Open(t.agent, t.gen)
           /\ op' = [op EXCEPT ![q].pc = "wait"]
           /\ toAgent' = [toAgent EXCEPT ![t.agent] =
                          Append(@, [phase |-> t.phase, run |-> op[q].run,
                                     role |-> t.role, req |-> q])]
  <2>1. Others(q) /\ Kept(q) /\ op'[q].pc = "wait" /\ op'[q].next = op[q].next
    BY <1>6, SentIs
  <2>2. /\ toAgent'[t.agent] =
             Append(toAgent[t.agent], [phase |-> t.phase, run |-> op[q].run,
                                       role |-> t.role, req |-> q])
        /\ \A b \in Agent \ {t.agent} : toAgent'[b] = toAgent[b]
    BY <1>3, <1>6 DEF TypeOK
  <2> QED
    BY <1>1, <1>2, <1>3, <1>4, <1>6, <2>1, <2>2 DEF t
<1>7. CASE ~Open(t.agent, t.gen) /\ CommandError(q) /\ UNCHANGED toAgent
  BY <1>1, <1>2, <1>3, <1>4, <1>7, CommandErrorIs DEF t
<1> QED
  BY <1>5, <1>6, <1>7

LEMMA RequestKeepsConnected ==
  ASSUME TypeOK, Connected, RequestStep PROVE Connected'
<1>1. ASSUME NEW q \in Req, SendCommand(q) PROVE Connected'
  <2>1. /\ Current(q).agent \in Agent
        /\ UNCHANGED <<session, task, conn, lastGen, prepared>>
        /\ \/ UNCHANGED toAgent
           \/ /\ Open(Current(q).agent, Current(q).gen)
              /\ \A b \in Agent \ {Current(q).agent} : toAgent'[b] = toAgent[b]
    BY <1>1, SendCommandIs
  <2>2. \A b \in Agent : conn[b] = 0 => toAgent'[b] = toAgent[b]
    BY <2>1, OpenIsConnected
  <2> QED
    BY <2>1, <2>2, NoneFalls, FallsConnected
<1>2. ASSUME NEW q \in StartReq, StartFails(q) PROVE Connected'
  <2>1. UNCHANGED <<session, task, conn, lastGen, prepared>>
    BY <1>2 DEF StartFails, agentVars
  <2> DEFINE S == {t.agent : t \in {u \in Clones(q) : Open(u.agent, u.gen)}}
  <2>2. UNCHANGED toAgent \/ SendStops(S, q)
    BY <1>2 DEF StartFails
  <2>3. \A a \in S : a \in Agent => conn[a] # 0
    BY OpenIsConnected
  <2>4. \A b \in Agent : conn[b] = 0 => toAgent'[b] = toAgent[b]
    BY <2>2, <2>3, StopsReachOpen
  <2> QED
    BY <2>1, <2>4, NoneFalls, FallsConnected
<1>3. ASSUME NEW q \in Req,
             \/ q \in StartReq /\ StartBegin(q)
             \/ StartSucceeds(q) \/ StopFinishes(q) \/ StopClears(q)
             \/ PauseSucceeds(q) \/ PauseFails(q) \/ MakePlan(q)
             \/ CommandTimeout(q) \/ RequestDropped(q)
             \/ \E r \in Run, goal \in Status : Check(q, r, goal)
      PROVE  Connected'
  <2>1. UNCHANGED <<conn, lastGen, prepared, toAgent, session, task>>
    BY <1>3 DEF StartBegin, StartSucceeds, Check, MakePlan, StopFinishes, StopClears,
       PauseSucceeds, PauseFails, CommandTimeout, RequestDropped, wireVars, agentVars
  <2> QED
    BY <2>1, NoneFalls, FallsConnected
<1> QED
  BY <1>1, <1>2, <1>3 DEF RequestStep, StopBegin, PauseBegin, Req, Status, LiveStatus,
     EndStatus

LEMMA ConnectedStep ==
  ASSUME IInv, Connected, [Next]_vars PROVE Connected'
<1> USE DEF IInv
<1>1. CASE RequestStep
  BY <1>1, RequestKeepsConnected
<1>2. CASE SessionStep
  BY <1>2, SessionSteps, SessionKeepsConnected
<1>3. ASSUME NEW a \in Agent, Connect(a) PROVE Connected'
  <2>1. Reading.live /\ Reading.pc = "read"
    BY DEF Reading, NoTask
  <2>2. lastGen[a] \in Nat
    BY DEF TypeOK
  <2>3. ASSUME NEW b \in Agent
        PROVE  /\ conn'[b] \in {0, lastGen'[b]}
               /\ session'[b] <= lastGen'[b]
               /\ conn'[b] = 0 => toAgent'[b] = << >> /\ \A o \in Role : prepared'[b][o] = None
               /\ Live(b)' => session'[b] = conn'[b]
    <3>1. CASE b = a
      BY <1>3, <2>2, <3>1, ConnectIs DEF Connected
    <3>2. CASE b # a
      <4>1. ASSUME Live(b)' PROVE Live(b)
        <5>1. conn'[b] = conn[b] /\ conn[b] # 0 /\ task'[b][conn[b]].live
          BY <1>3, <3>2, <4>1, ConnectIs DEF Live
        <5>2. conn[b] \in Gen
          BY <5>1, BoundsAreNatural DEF TypeOK, Gen
        <5>3. task'[b][conn[b]] = task[b][conn[b]]
          BY <1>3, <3>2, <5>2, ConnectIs
        <5> QED
          BY <5>1, <5>3 DEF Live
      <4> QED
        BY <1>3, <3>2, <4>1, ConnectIs DEF Connected
    <3> QED
      BY <3>1, <3>2
  <2>4. \A b \in Agent, g \in Gen : task'[b][g].pc = "complete" => task'[b][g].live
    BY <1>3, <2>1, ConnectIs DEF Connected
  <2> QED
    BY <2>3, <2>4 DEF Connected
<1>4. ASSUME NEW a \in Agent, Disconnect(a) \/ AgentCrash(a) PROVE Connected'
  <2>1. /\ conn'[a] = 0 /\ toAgent'[a] = << >>
        /\ \A o \in Role : prepared'[a][o] = None
        /\ \A b \in Agent \ {a} : /\ conn'[b] = conn[b] /\ prepared'[b] = prepared[b]
                                  /\ toAgent'[b] = toAgent[b]
        /\ UNCHANGED <<session, task, lastGen>>
    BY <1>4, LeaveIs
  <2> QED
    BY <2>1 DEF Connected, Live
<1>5. ASSUME NEW a \in Agent,
             AgentPrepare(a) \/ AgentStart(a) \/ AgentStop(a) \/ AgentSetPaused(a)
      PROVE  Connected'
  <2>1. conn[a] # 0 /\ \E ok : Reply(a, ok)
    BY <1>5 DEF AgentPrepare, AgentStart, AgentStop, AgentSetPaused, Handling
  <2>2. UNCHANGED <<session, task, conn, lastGen>>
    BY <1>5 DEF AgentPrepare, AgentStart, AgentStop, AgentSetPaused, controlVars
  <2>3. \A b \in Agent \ {a} : toAgent'[b] = toAgent[b] /\ prepared'[b] = prepared[b]
    BY <1>5, <2>1 DEF AgentPrepare, AgentStart, AgentStop, AgentSetPaused, Reply, TypeOK
  <2> QED
    BY <2>1, <2>2, <2>3 DEF Connected, Live
<1>6. CASE JobStep
  <2>1. UNCHANGED <<session, task, conn, lastGen, prepared, toAgent>>
    BY <1>6 DEF JobStep, JobElapses, JobReports, JobFails, controlVars, wireVars
  <2> QED
    BY <2>1 DEF Connected, Live
<1>7. CASE ControlRestart
  <2>1. \A a \in Agent, g \in Gen : ~task'[a][g].live /\ task'[a][g].pc # "complete"
    BY <1>7 DEF ControlRestart, NoTask, Ended
  <2>2. UNCHANGED <<conn, lastGen, prepared, toAgent>> /\ \A a \in Agent : session'[a] = 0
    BY <1>7 DEF ControlRestart, agentVars
  <2>3. \A a \in Agent : ~Live(a)' /\ lastGen[a] \in Nat
    BY <2>1, <2>2, BoundsAreNatural DEF Live, TypeOK, Gen
  <2> QED
    BY <2>1, <2>2, <2>3 DEF Connected
<1>8. CASE UNCHANGED vars
  BY <1>8 DEF Connected, Live, vars, controlVars, wireVars, agentVars
<1> QED
  BY <1>1, <1>2, <1>3, <1>4, <1>5, <1>6, <1>7, <1>8 DEF Next, AgentStep

-----------------------------------------------------------------------------
(* StartsArePlanned and JobsArePlaced                                          *)

LEMMA LastGenGrows ==
  ASSUME IInv, [Next]_vars
  PROVE  \A a \in Agent : /\ lastGen[a] \in Nat /\ lastGen'[a] \in Nat
                          /\ lastGen[a] <= lastGen'[a]
<1>1. TypeOK /\ TypeOK'
  BY TypeStep DEF IInv
<1>2. \A a \in Agent : lastGen[a] \in Nat /\ lastGen'[a] \in Nat
  BY <1>1 DEF TypeOK
<1>3. CASE \E a \in Agent : Connect(a)
  <2>1. PICK a \in Agent : Connect(a)
    BY <1>3
  <2>2. /\ lastGen'[a] = lastGen[a] + 1
        /\ \A b \in Agent \ {a} : lastGen'[b] = lastGen[b]
    BY <1>1, <2>1, ConnectIs
  <2> QED
    BY <1>2, <2>2
<1>4. CASE ~\E a \in Agent : Connect(a)
  <2>1. ASSUME RequestStep PROVE UNCHANGED lastGen
    <3>1. ASSUME NEW q \in Req,
                 \/ StartSucceeds(q) \/ StartFails(q) \/ StopFinishes(q)
                 \/ StopClears(q) \/ PauseSucceeds(q) \/ PauseFails(q) \/ MakePlan(q)
                 \/ SendCommand(q) \/ CommandTimeout(q) \/ RequestDropped(q)
                 \/ \E r \in Run, goal \in Status : Check(q, r, goal)
          PROVE  UNCHANGED lastGen
      BY <3>1 DEF StartSucceeds, StartFails, Check, MakePlan, StopFinishes,
         StopClears, PauseSucceeds, PauseFails, SendCommand, CommandTimeout,
         RequestDropped, agentVars
    <3>2. ASSUME NEW q \in StartReq, StartBegin(q) PROVE UNCHANGED lastGen
      BY <3>2 DEF StartBegin
    <3> QED
      BY <2>1, <3>1, <3>2 DEF RequestStep, StopBegin, PauseBegin, Req, Status,
         LiveStatus, EndStatus
  <2>2. ASSUME SessionStep PROVE UNCHANGED lastGen
    BY <2>2, SessionSteps, SessionOnlyKeeps, ReceiveAckKeepsAgents
  <2>3. ASSUME AgentStep PROVE UNCHANGED lastGen
    BY <1>4, <2>3 DEF AgentStep, Disconnect, AgentCrash, AgentPrepare, AgentStart,
       AgentStop, AgentSetPaused
  <2>4. ASSUME JobStep PROVE UNCHANGED lastGen
    BY <2>4 DEF JobStep, JobElapses, JobReports, JobFails
  <2>5. UNCHANGED lastGen
    BY <2>1, <2>2, <2>3, <2>4 DEF Next, ControlRestart, vars, agentVars
  <2> QED
    BY <1>2, <2>5
<1> QED
  BY <1>3, <1>4

LEMMA StartBeginIs ==
  ASSUME TypeOK, Connected, NEW q \in StartReq, StartBegin(q)
  PROVE  /\ op[q].pc = "idle" /\ op'[q].pc = "send" /\ op'[q].next = 1
         /\ startLock = None /\ activeRun = None
         /\ Len(op'[q].plan) = 4
         /\ \A o \in Role : place'[q][o] \in Agent
         /\ \A p \in EndpointPhase, o \in Role :
              op'[q].plan[At(p, o)] = Target(p, place'[q][o], o)
         /\ \A o \in Role : session[place'[q][o]] \in 1 .. lastGen[place'[q][o]]
         /\ UNCHANGED <<session, job, conn, lastGen>>
<1>1. PICK c \in {a \in Agent : session[a] # 0}, s \in {a \in Agent : session[a] # 0} :
        /\ place' = [place EXCEPT ![q] = [o \in Role |->
                                            IF o = "client" THEN c ELSE s]]
        /\ op' = [op EXCEPT ![q] =
                    [pc |-> "send", run |-> q, goal |-> "running",
                     plan |-> << Target("prepare", c, "client"),
                                 Target("prepare", s, "server"),
                                 Target("start", c, "client"),
                                 Target("start", s, "server") >>,
                     next |-> 1]]
  BY DEF StartBegin
<1>2. /\ place'[q]["client"] = c /\ place'[q]["server"] = s
      /\ op'[q] = [pc |-> "send", run |-> q, goal |-> "running",
                   plan |-> << Target("prepare", c, "client"),
                               Target("prepare", s, "server"),
                               Target("start", c, "client"),
                               Target("start", s, "server") >>,
                   next |-> 1]
  BY <1>1 DEF TypeOK, Run, Req, Role
<1>3. \A o \in Role : place'[q][o] = IF o = "client" THEN c ELSE s
  BY <1>2 DEF Role
<1>4. /\ op'[q].pc = "send" /\ op'[q].next = 1 /\ Len(op'[q].plan) = 4
      /\ op'[q].plan[1] = Target("prepare", c, "client")
      /\ op'[q].plan[2] = Target("prepare", s, "server")
      /\ op'[q].plan[3] = Target("start", c, "client")
      /\ op'[q].plan[4] = Target("start", s, "server")
  BY <1>2
<1>5. \A p \in EndpointPhase, o \in Role :
        op'[q].plan[At(p, o)] = Target(p, place'[q][o], o)
  BY <1>3, <1>4 DEF At, EndpointPhase, Role
<1>6. \A a \in Agent : session[a] # 0 => session[a] \in 1 .. lastGen[a]
  BY BoundsAreNatural DEF Connected, TypeOK
<1>7. \A o \in Role : place'[q][o] \in Agent /\ session[place'[q][o]] # 0
  BY <1>3
<1>8. /\ op[q].pc = "idle" /\ startLock = None /\ activeRun = None
      /\ UNCHANGED <<session, job, conn, lastGen>>
  BY DEF StartBegin
<1> QED
  BY <1>4, <1>5, <1>6, <1>7, <1>8

LEMMA BeginIsPlanned ==
  ASSUME TypeOK, Connected, NEW q \in StartReq, StartBegin(q)
  PROVE  /\ PlanIsStart(q)'
         /\ \A o \in Role : Clone(q, o)' = session[place'[q][o]]
<1>1. \A p \in EndpointPhase, o \in Role :
        /\ op'[q].plan[At(p, o)].phase = p
        /\ op'[q].plan[At(p, o)].role = o
        /\ op'[q].plan[At(p, o)].agent = place'[q][o]
        /\ op'[q].plan[At(p, o)].gen = session[place'[q][o]]
  <2> TAKE p \in EndpointPhase, o \in Role
  <2>1. op'[q].plan[At(p, o)] = Target(p, place'[q][o], o)
    BY StartBeginIs
  <2> QED
    BY <2>1 DEF Target
<1>2. \A o \in Role : Clone(q, o)' = session[place'[q][o]]
  BY <1>1 DEF Clone, EndpointPhase
<1>3. \A o \in Role : Clone(q, o)' \in 1 .. lastGen'[place'[q][o]]
  BY <1>2, StartBeginIs
<1>4. Len(op'[q].plan) = 4 /\ op'[q].next \in 1 .. 5 /\ op'[q].pc = "send"
  BY StartBeginIs
<1> QED
  BY <1>1, <1>2, <1>3, <1>4 DEF PlanIsStart

LEMMA StartsPlannedStep ==
  ASSUME EndpointInv, [Next]_vars PROVE StartsArePlanned'
<1> USE DEF EndpointInv
<1> SUFFICES ASSUME NEW r \in Run, Busy(r)' PROVE PlanIsStart(r)'
  BY DEF StartsArePlanned
<1>1. Moves(r) /\ BegunStays(r)
  BY StartsMove, StartsStay
<1>2. CASE r \in StartReq /\ StartBegin(r)
  BY <1>2, BeginIsPlanned DEF IInv
<1>3. CASE ~StartBegin(r)
  <2>1. /\ Busy(r) /\ op[r].pc # "idle" /\ PlanIsStart(r)
        /\ op'[r].plan = op[r].plan
        /\ place'[r] = place[r]
    BY <1>1, <1>3 DEF Moves, Stays, IsOver, Waits, IsAnswered, Busy, InProgress,
       BegunStays, StartsArePlanned
  <2>2. \A o \in Role : place[r][o] \in Agent
    BY <2>1 DEF IInv, Bookkeeping, Placed, TypeOK, Req
  <2>3. \A o \in Role : Clone(r, o) \in 1 .. lastGen'[place[r][o]]
    BY <2>1, <2>2, LastGenGrows DEF PlanIsStart
  <2>4. op'[r].next \in 1 .. 5 /\ (op'[r].pc \in {"wait", "error"} => op'[r].next <= 4)
    BY <1>1, <1>3, <2>1 DEF Moves, Stays, IsOver, Waits, IsAnswered, Answers, Busy,
       InProgress, PlanIsStart
  <2> QED
    BY <2>1, <2>3, <2>4 DEF PlanIsStart, Clone
<1> QED
  BY <1>2, <1>3 DEF Run

(* Every step but AgentStart leaves jobs that run, or fewer.                   *)
LEMMA QuietStep ==
  ASSUME TypeOK, [Next]_vars, ~\E a \in Agent : AgentStart(a) PROVE JobsQuiet
<1>1. CASE RequestStep
  <2>1. ASSUME NEW q \in Req, SendCommand(q) PROVE JobsQuiet
    BY <2>1, SendCommandIs, UnchangedIsQuiet
  <2> QED
    BY <1>1, <2>1, RequestIsControlOnly, UnchangedIsQuiet
       DEF RequestStep, ControlOnly, StopBegin, PauseBegin, Req, Status, LiveStatus,
           EndStatus
<1>2. CASE SessionStep
  BY <1>2, SessionSteps, SessionIsControlOnly, UnchangedIsQuiet DEF ControlOnly
<1>3. CASE AgentStep
  <2>1. ASSUME NEW a \in Agent, AgentPrepare(a) PROVE JobsQuiet
    BY <2>1, UnchangedIsQuiet DEF AgentPrepare
  <2>2. ASSUME NEW a \in Agent, Connect(a) PROVE JobsQuiet
    BY <2>2, UnchangedIsQuiet DEF Connect
  <2> QED
    BY <1>3, <2>1, <2>2, LeaveIs, AgentStopQuiet, AgentSetPausedQuiet DEF AgentStep
<1>4. CASE JobStep
  BY <1>4, JobStepQuiet DEF JobStep
<1>5. CASE ControlRestart \/ UNCHANGED vars
  BY <1>5, UnchangedIsQuiet DEF ControlRestart, vars, agentVars
<1> QED
  BY <1>1, <1>2, <1>3, <1>4, <1>5 DEF Next

LEMMA JobsKeepStep ==
  ASSUME EndpointInv, [Next]_vars PROVE JobsKeep
<1>1. CASE \E a \in Agent : AgentStart(a)
  BY <1>1, AgentStartKeepsJobs DEF EndpointInv, IInv
<1>2. CASE ~\E a \in Agent : AgentStart(a)
  BY <1>2, QuietStep, QuietKeeps DEF EndpointInv, IInv
<1> QED
  BY <1>1, <1>2

(* An endpoint stays where its run put it.                                     *)
LEMMA StartedIsBegun ==
  ASSUME EndpointInv, NEW r \in Run, NEW o \in Role, job[r][o].state # "none"
  PROVE  op[r].pc # "idle" /\ place[r][o] \in Agent
<1>1. op[r].pc # "idle"
  BY DEF EndpointInv, JobsArePlaced, JobIs, NotYet
<1> QED
  BY <1>1 DEF EndpointInv, IInv, Bookkeeping, Placed, TypeOK, Req

LEMMA JobStays ==
  ASSUME EndpointInv, [Next]_vars, NEW r \in Run, NEW o \in Role,
         \/ job[r][o].state # "none"
         \/ job'[r][o] = job[r][o]
  PROVE  JobIs(r, o)'
<1>1. BegunStays(r) /\ JobIs(r, o) /\ JobsKeep
  BY StartsStay, JobsKeepStep DEF EndpointInv, JobsArePlaced
<1>2. CASE job[r][o].state = "none"
  BY <1>1, <1>2 DEF JobIs
<1>3. CASE job[r][o].state # "none"
  <2>1. op[r].pc # "idle" /\ place[r][o] \in Agent
    BY <1>3, StartedIsBegun
  <2>2. job'[r][o].state # "none" /\ job'[r][o].gen = job[r][o].gen
    BY <1>1, <1>3 DEF JobsKeep
  <2>3. ~NotYet(r, "start", o)'
    BY <1>1, <1>3 DEF BegunStays, JobIs, EndpointPhase
  <2>4. job[r][o].gen \in 1 .. lastGen'[place'[r][o]]
    <3>1. job[r][o].gen \in 1 .. lastGen[place[r][o]] /\ place'[r] = place[r]
      BY <1>1, <1>3, <2>1 DEF JobIs, BegunStays
    <3> QED
      BY <2>1, <3>1, LastGenGrows DEF EndpointInv
  <2>5. Busy(r)' => job[r][o].gen = Clone(r, o)'
    BY <1>1, <1>3, <2>1 DEF JobIs, BegunStays
  <2> QED
    BY <2>2, <2>3, <2>4, <2>5 DEF JobIs
<1> QED
  BY <1>2, <1>3

LEMMA JobsPlacedStep ==
  ASSUME EndpointInv, [Next]_vars PROVE JobsArePlaced'
<1> SUFFICES ASSUME NEW r \in Run, NEW o \in Role PROVE JobIs(r, o)'
  BY DEF JobsArePlaced
<1>1. CASE job[r][o].state # "none" \/ job'[r][o] = job[r][o]
  BY <1>1, JobStays
<1>2. CASE job[r][o].state = "none" /\ job'[r][o] # job[r][o]
  <2>1. PICK a \in Agent : AgentStart(a)
    BY <1>2, QuietStep, QuietKeeps DEF EndpointInv, IInv
  <2> DEFINE m == Head(toAgent[a])
  <2>2. /\ m.run \in Run /\ m.role \in Role
        /\ ~NotYet(m.run, "start", m.role)
        /\ place[m.run][m.role] = a /\ conn[a] \in Gen
        /\ Busy(m.run) => conn[a] = Clone(m.run, m.role)
        /\ \/ UNCHANGED job
           \/ job' = [job EXCEPT ![m.run][m.role] =
                        [state |-> "running", gen |-> conn[a], paused |-> FALSE]]
    BY <2>1, AgentStartIs DEF EndpointInv, IInv
  <2> HIDE DEF m
  <2>3. job' = [job EXCEPT ![m.run][m.role] =
                  [state |-> "running", gen |-> conn[a], paused |-> FALSE]]
    BY <1>2, <2>2
  <2>4. r = m.run /\ o = m.role
    BY <1>2, <2>2, <2>3, StartedJob DEF EndpointInv, IInv
  <2>5. job'[r][o].state = "running" /\ job'[r][o].gen = conn[a]
    <3>1. job' = [job EXCEPT ![r][o] =
                    [state |-> "running", gen |-> conn[a], paused |-> FALSE]]
      BY <2>3, <2>4
    <3>2. job \in [Run -> [Role -> Job]]
      BY DEF EndpointInv, IInv, TypeOK
    <3> QED
      BY <3>1, <3>2
  <2>6. BegunStays(r) /\ op[r].pc # "idle"
    BY <2>2, <2>4, StartsStay DEF EndpointInv, NotYet
  <2>7. ~NotYet(r, "start", o)'
    BY <2>2, <2>4, <2>6 DEF BegunStays, EndpointPhase
  <2>8. conn[a] \in 1 .. lastGen'[place'[r][o]]
    <3>1. place'[r][o] = a
      BY <2>2, <2>4, <2>6 DEF BegunStays
    <3>2. conn[a] = lastGen[a] /\ conn[a] \in Nat \ {0}
      BY <2>2 DEF EndpointInv, Connected, Gen
    <3> QED
      BY <3>1, <3>2, LastGenGrows DEF EndpointInv
  <2>9. Busy(r)' => conn[a] = Clone(r, o)'
    BY <2>2, <2>4, <2>6 DEF BegunStays
  <2> QED
    BY <2>5, <2>7, <2>8, <2>9 DEF JobIs
<1> QED
  BY <1>1, <1>2

-----------------------------------------------------------------------------
(* PlansSpareEndpoints                                                         *)

LEMMA MakePlanIs ==
  ASSUME IInv, NEW q \in StopReq \cup PauseReq, MakePlan(q)
  PROVE  /\ op[q].pc = "plan" /\ op'[q].pc = "send" /\ op'[q].next = op[q].next
         /\ op'[q].run = op[q].run /\ Others(q)
         /\ LET r == op[q].run
                phase == CASE op[q].goal = "cancelled" -> "stop"
                           [] op[q].goal = "paused" -> "pause"
                           [] OTHER -> "resume"
            IN /\ \A i \in 1 .. Len(op'[q].plan) : op'[q].plan[i].phase = phase
               /\ r \in tracked => \A o \in Role : \E i \in 1 .. Len(op'[q].plan) :
                    op'[q].plan[i] = Target(phase, place[r][o], "both")
<1> DEFINE r == op[q].run
           phase == CASE op[q].goal = "cancelled" -> "stop"
                      [] op[q].goal = "paused" -> "pause"
                      [] OTHER -> "resume"
           target(o) == Target(phase, place[r][o], "both")
<1>1. PICK plan \in IF r \notin tracked THEN {<< >>}
                    ELSE IF place[r]["client"] = place[r]["server"]
                    THEN {<<target("client")>>}
                    ELSE {<<target("client"), target("server")>>,
                          <<target("server"), target("client")>>} :
        op' = [op EXCEPT ![q].pc = "send", ![q].plan = plan]
  BY DEF MakePlan
<1>2. op[q] \in Request /\ op \in [Req -> Request] /\ op[q].pc = "plan" /\ q \in Req
  BY DEF MakePlan, IInv, TypeOK, Req
<1> DEFINE x == [op[q] EXCEPT !.pc = "send", !.plan = plan]
<1>3. op' = [op EXCEPT ![q] = x]
  BY <1>1, <1>2
<1>4. x.pc = "send" /\ x.plan = plan /\ x.next = op[q].next /\ x.run = op[q].run
  BY <1>2 DEF Request
<1> HIDE DEF x
<1>5. Others(q) /\ op'[q] = x
  BY <1>2, <1>3, RequestIs DEF IInv
<1>6. \A o \in Role : target(o).phase = phase
  BY DEF Target
<1> HIDE DEF target, phase
<1>7. \A i \in 1 .. Len(plan) : plan[i] = target("client") \/ plan[i] = target("server")
  <2>1. \/ plan = << >>
        \/ plan = <<target("client")>>
        \/ plan = <<target("client"), target("server")>>
        \/ plan = <<target("server"), target("client")>>
    BY <1>1
  <2>2. CASE plan = << >>
    BY <2>2
  <2>3. CASE plan = <<target("client")>>
    BY <2>3
  <2>4. CASE plan = <<target("client"), target("server")>>
    BY <2>4
  <2>5. CASE plan = <<target("server"), target("client")>>
    BY <2>5
  <2> QED
    BY <2>1, <2>2, <2>3, <2>4, <2>5
<1>8. \A i \in 1 .. Len(plan) : plan[i].phase = phase
  BY <1>6, <1>7 DEF Role
<1>9. ASSUME r \in tracked, NEW o \in Role
      PROVE  \E i \in 1 .. Len(plan) : plan[i] = target(o)
  <2>1. CASE place[r]["client"] = place[r]["server"]
    <3>1. plan = <<target("client")>> /\ target(o) = target("client")
      BY <1>1, <1>9, <2>1 DEF target, Role
    <3>2. 1 \in 1 .. Len(plan) /\ plan[1] = target(o)
      BY <3>1
    <3> QED
      BY <3>2
  <2>2. CASE place[r]["client"] # place[r]["server"]
    <3>1. \/ plan = <<target("client"), target("server")>>
          \/ plan = <<target("server"), target("client")>>
      BY <1>1, <1>9, <2>2
    <3>2. /\ 1 \in 1 .. Len(plan) /\ 2 \in 1 .. Len(plan)
          /\ \/ plan[1] = target("client") /\ plan[2] = target("server")
             \/ plan[1] = target("server") /\ plan[2] = target("client")
      BY <3>1
    <3> QED
      BY <3>2 DEF Role
  <2> QED
    BY <2>1, <2>2
<1> QED
  BY <1>2, <1>4, <1>5, <1>8, <1>9 DEF target, phase

LEMMA SpareStep ==
  ASSUME EndpointInv, [Next]_vars PROVE PlansSpareEndpoints'
<1> USE DEF EndpointInv
<1> DEFINE Spares(q) == \A i \in 1 .. Len(op'[q].plan) : op'[q].plan[i].phase \in RunPhase
<1> SUFFICES ASSUME NEW q \in StopReq \cup PauseReq PROVE Spares(q)
  BY DEF PlansSpareEndpoints
<1>1. q \in Req /\ q \notin StartReq /\ (op'[q].plan = op[q].plan => Spares(q))
  BY RequestsAreDistinct DEF Req, PlansSpareEndpoints
<1>2. op'[q].plan = << >> => Spares(q)
  OBVIOUS
<1>3. NoOp.plan = << >> /\ DoneOp.plan = << >> /\ DroppedOp.plan = << >>
  BY DEF NoOp, DoneOp, DroppedOp
<1> HIDE DEF Spares
<1>4. CASE RequestStep
  <2>1. ASSUME NEW p \in Req, Others(p), p = q => Spares(q) PROVE Spares(q)
    BY <1>1, <2>1 DEF Others
  <2>2. ASSUME NEW p \in Req, NEW x, op' = [op EXCEPT ![p] = x], x.plan = << >>
        PROVE  Spares(q)
    BY <1>2, <2>1, <2>2, RequestIs DEF IInv
  <2>3. ASSUME NEW p \in Req,
               \/ StartSucceeds(p) \/ StartFails(p) \/ StopClears(p)
               \/ PauseSucceeds(p) \/ PauseFails(p) \/ RequestDropped(p)
        PROVE  Spares(q)
    BY <1>3, <2>2, <2>3 DEF StartSucceeds, StartFails, StopClears, PauseSucceeds,
       PauseFails, RequestDropped
  <2>4. ASSUME NEW p \in Req, \E r \in Run, goal \in Status : Check(p, r, goal)
        PROVE  Spares(q)
    <3>1. PICK r \in Run, goal \in Status : Check(p, r, goal)
      BY <2>4
    <3>2. [NoOp EXCEPT !.pc = "plan", !.run = r, !.goal = goal].plan = << >>
      BY DEF NoOp
    <3> QED
      BY <2>2, <3>1, <3>2 DEF Check
  <2>5. ASSUME NEW p \in StartReq, StartBegin(p) PROVE Spares(q)
    <3>1. PICK x : op' = [op EXCEPT ![p] = x]
      BY <2>5 DEF StartBegin
    <3>2. op'[q] = op[q]
      BY <1>1, <3>1 DEF IInv, TypeOK
    <3> QED
      BY <1>1, <3>2
  <2>6. ASSUME NEW p \in StopReq \cup PauseReq, MakePlan(p) PROVE Spares(q)
    <3>1. Others(p) /\ \A i \in 1 .. Len(op'[p].plan) :
                         op'[p].plan[i].phase \in {"stop", "pause", "resume"}
      BY <2>6, MakePlanIs
    <3> QED
      BY <2>1, <3>1 DEF Spares, RunPhase, Req
  <2>7. ASSUME NEW p \in StopReq, StopFinishes(p) PROVE Spares(q)
    <3>1. op' = [op EXCEPT ![p].pc = "clear"]
      BY <2>7 DEF StopFinishes
    <3>2. op'[q].plan = op[q].plan
      BY <1>1, <3>1 DEF IInv, TypeOK, Request
    <3> QED
      BY <1>1, <3>2
  <2>8. ASSUME NEW p \in Req, SendCommand(p) \/ CommandTimeout(p) PROVE Spares(q)
    <3>1. Others(p) /\ Kept(p)
      BY <2>8, SendCommandIs, CommandErrorIs DEF CommandTimeout, IInv
    <3> QED
      BY <1>1, <2>1, <3>1 DEF Kept
  <2> QED
    BY <1>4, <2>3, <2>4, <2>5, <2>6, <2>7, <2>8 DEF RequestStep, StopBegin, PauseBegin,
       Req, Status, LiveStatus, EndStatus
<1>5. ASSUME NEW a \in Agent, NEW g \in Gen, ReceiveAck(a, g) PROVE Spares(q)
  <2> DEFINE m == Head(toControl[a][g])
  <2>1. /\ m.req \in Req
        /\ \/ UNCHANGED op
           \/ op' = [op EXCEPT ![m.req].pc = "send", ![m.req].next = @ + 1]
           \/ CommandError(m.req)
    BY <1>5, ReceiveAckIs DEF IInv
  <2> HIDE DEF m
  <2>2. UNCHANGED op \/ (Others(m.req) /\ Kept(m.req))
    BY <2>1, AcknowledgedIs, CommandErrorIs DEF IInv
  <2> QED
    BY <1>1, <2>1, <2>2 DEF Others, Kept
<1>6. CASE ControlRestart
  <2>1. op'[q] = NoOp \/ op'[q] = DoneOp
    BY <1>1, <1>6 DEF ControlRestart
  <2> QED
    BY <1>2, <1>3, <2>1
<1>7. CASE UNCHANGED op
  BY <1>1, <1>7
<1> QED
  BY <1>4, <1>5, <1>6, <1>7, SessionSteps, SessionOnlyKeeps, OpUntouched DEF Next

-----------------------------------------------------------------------------
(* CommandsAreKnown, CommandsInSequence and PreparedIsKnown                     *)

(* The queue of one Agent; its messages are bound, so that a primed QueueIs     *)
(* speaks of the messages on the wire after the step.                         *)
QueueIs(a) ==
  /\ \A i \in 1 .. Len(toAgent[a]) : \A m : m = toAgent[a][i] => CommandIs(a, m)
  /\ \A i, j \in 1 .. Len(toAgent[a]) : \A m, n :
       i < j /\ m = toAgent[a][i] /\ n = toAgent[a][j] => InSequence(m, n)

LEMMA QueuesAreNext ==
  ASSUME \A a \in Agent : QueueIs(a)' PROVE CommandsAreKnown' /\ CommandsInSequence'
<1>1. CommandsAreKnown'
  BY DEF QueueIs, CommandsAreKnown, CommandIs
<1>2. CommandsInSequence'
  BY DEF QueueIs, CommandsInSequence, InSequence, PrepareFor
<1> QED
  BY <1>1, <1>2

LEMMA QueuedIsCommand ==
  ASSUME TypeOK, NEW a \in Agent, NEW i \in 1 .. Len(toAgent[a])
  PROVE  /\ toAgent[a][i] \in Command
         /\ toAgent[a][i].phase \in EndpointPhase =>
              toAgent[a][i].run \in Run /\ toAgent[a][i].role \in Role
<1>1. toAgent[a] \in Seq(Command)
  BY DEF TypeOK
<1>2. toAgent[a][i] \in Command
  <2> HIDE DEF Command
  <2> QED
    BY <1>1
<1> QED
  BY <1>2 DEF Command, EndpointPhase, RunPhase

LEMMA CommandStays ==
  ASSUME EndpointInv, [Next]_vars, NEW a \in Agent, NEW i \in 1 .. Len(toAgent[a]),
         NEW m, m = toAgent[a][i],
         conn'[a] = conn[a],
         m.phase = "start" => /\ prepared'[a][m.role] = prepared[a][m.role]
                              /\ job'[m.run][m.role].state = "none"
  PROVE  CommandIs(a, m)'
<1>1. CommandIs(a, m) /\ (m.phase \in EndpointPhase => m.run \in Run /\ m.role \in Role)
  BY QueuedIsCommand DEF EndpointInv, IInv, CommandsAreKnown
<1>2. CASE m.phase \in EndpointPhase
  <2>1. BegunStays(m.run) /\ op[m.run].pc # "idle"
    BY <1>1, <1>2, StartsStay DEF EndpointInv, CommandIs, NotYet
  <2>2. place'[m.run] = place[m.run] /\ ~NotYet(m.run, m.phase, m.role)'
    BY <1>1, <1>2, <2>1 DEF BegunStays, CommandIs
  <2>3. Busy(m.run)' => conn'[a] = Clone(m.run, m.role)'
    BY <1>1, <1>2, <2>1 DEF BegunStays, CommandIs
  <2>4. /\ place[m.run][m.role] = a /\ m.req = m.run
        /\ m.phase = "start" => /\ job'[m.run][m.role].state = "none"
                                /\ prepared'[a][m.role] = m.run
    BY <1>1, <1>2 DEF CommandIs
  <2> QED
    BY <2>2, <2>3, <2>4 DEF CommandIs
<1>3. CASE m.phase \notin EndpointPhase
  BY <1>3 DEF CommandIs
<1> QED
  BY <1>2, <1>3

LEMMA SequenceStays ==
  ASSUME EndpointInv, [Next]_vars, NEW a \in Agent,
         NEW i \in 1 .. Len(toAgent[a]), NEW m, m = toAgent[a][i], NEW n,
         InSequence(m, n)
  PROVE  InSequence(m, n)'
<1>1. CommandIs(a, m) /\ (m.phase \in EndpointPhase => m.run \in Run)
  BY QueuedIsCommand DEF EndpointInv, IInv, CommandsAreKnown
<1>2. m.phase = "prepare" /\ Busy(m.run)' => Busy(m.run)
  <2> SUFFICES ASSUME m.phase = "prepare" PROVE Busy(m.run)' => Busy(m.run)
    OBVIOUS
  <2>1. BegunStays(m.run) /\ op[m.run].pc # "idle"
    BY <1>1, StartsStay DEF EndpointInv, CommandIs, NotYet, EndpointPhase
  <2> QED
    BY <2>1 DEF BegunStays
<1> QED
  BY <1>2 DEF InSequence, PrepareFor

(* A wire that lost its head, or gained a command to a whole run.              *)
LEMMA ShiftKeepsQueue ==
  ASSUME EndpointInv, [Next]_vars, NEW a \in Agent, NEW k \in {0, 1}, Shift(a, k),
         conn'[a] = conn[a],
         \A i \in 1 .. Len(toAgent[a]) : i > k /\ toAgent[a][i].phase = "start" =>
           /\ prepared'[a][toAgent[a][i].role] = prepared[a][toAgent[a][i].role]
           /\ job'[toAgent[a][i].run][toAgent[a][i].role].state = "none"
  PROVE  QueueIs(a)'
<1>1. TypeOK /\ TypeOK'
  BY TypeStep DEF EndpointInv, IInv
<1>2. Len(toAgent[a]) \in Nat /\ Len(toAgent'[a]) \in Nat
  BY <1>1 DEF TypeOK
<1>3. \A i \in 1 .. Len(toAgent'[a]) :
        \/ i + k \in 1 .. Len(toAgent[a]) /\ toAgent'[a][i] = toAgent[a][i + k]
        \/ i + k > Len(toAgent[a]) /\ toAgent'[a][i].phase \in RunPhase
  BY DEF Shift
<1>4. \A m : m.phase \in RunPhase => CommandIs(a, m)'
  BY DEF CommandIs, RunPhase, EndpointPhase
<1>5. \A m, n : m.phase \in RunPhase \/ n.phase \in RunPhase => InSequence(m, n)'
  BY DEF InSequence, PrepareFor, RunPhase
<1>6. ASSUME NEW i \in 1 .. Len(toAgent'[a]), NEW m, m = toAgent'[a][i]
      PROVE  CommandIs(a, m)'
  <2>1. CASE i + k \in 1 .. Len(toAgent[a]) /\ m = toAgent[a][i + k]
    <3>1. i + k > k
      BY <1>2
    <3> QED
      BY <2>1, <3>1, CommandStays
  <2>2. CASE m.phase \in RunPhase
    BY <1>4, <2>2
  <2> QED
    BY <1>3, <1>6, <2>1, <2>2
<1>7. ASSUME NEW i \in 1 .. Len(toAgent'[a]), NEW j \in 1 .. Len(toAgent'[a]), i < j,
             NEW m, NEW n, m = toAgent'[a][i], n = toAgent'[a][j]
      PROVE  InSequence(m, n)'
  <2>1. CASE /\ i + k \in 1 .. Len(toAgent[a]) /\ m = toAgent[a][i + k]
             /\ j + k \in 1 .. Len(toAgent[a]) /\ n = toAgent[a][j + k]
    <3>1. i + k < j + k
      BY <1>2, <1>7
    <3>2. InSequence(m, n)
      BY <2>1, <3>1 DEF EndpointInv, CommandsInSequence
    <3> QED
      BY <2>1, <3>2, SequenceStays
  <2>2. CASE m.phase \in RunPhase \/ n.phase \in RunPhase
    BY <1>5, <2>2
  <2> QED
    BY <1>3, <1>7, <2>1, <2>2
<1> QED
  BY <1>6, <1>7 DEF QueueIs

(* The command start_run is at.                                                *)
LEMMA BusyIsUnique ==
  ASSUME EndpointInv, NEW r \in Run, NEW x \in Run, Busy(r), Busy(x)
  PROVE  r = x /\ activeRun = None /\ startLock = r
BY RunIsNotNone DEF EndpointInv, IInv, Bookkeeping, Starting, Busy

LEMMA CurrentIsPlanned ==
  ASSUME EndpointInv, NEW q \in Run, Busy(q), op[q].next <= 4
  PROVE  LET t == Current(q) IN
         /\ t.phase \in EndpointPhase /\ t.role \in Role
         /\ op[q].next = At(t.phase, t.role)
         /\ t.agent = place[q][t.role] /\ t.agent \in Agent
         /\ t.gen = Clone(q, t.role)
<1>1. PlanIsStart(q) /\ op[q].next \in 1 .. 4
  BY DEF EndpointInv, StartsArePlanned, PlanIsStart
<1>2. PICK p \in EndpointPhase, o \in Role : op[q].next = At(p, o)
  <2>1. /\ At("prepare", "client") = 1 /\ At("prepare", "server") = 2
        /\ At("start", "client") = 3 /\ At("start", "server") = 4
    BY DEF At
  <2> QED
    BY <1>1, <2>1 DEF EndpointPhase, Role
<1>3. /\ Current(q).phase = p /\ Current(q).role = o
      /\ Current(q).agent = place[q][o] /\ Current(q).gen = Clone(q, o)
  BY <1>1, <1>2 DEF Current, PlanIsStart
<1>4. place[q][o] \in Agent
  BY DEF EndpointInv, IInv, Bookkeeping, Placed, Busy, InProgress
<1> QED
  BY <1>2, <1>3, <1>4

LEMMA Ats ==
  \A o \in Role : /\ At("prepare", o) \in 1 .. 2 /\ At("start", o) \in 3 .. 4
                  /\ \A u \in Role : u # o => /\ At("prepare", u) # At("prepare", o)
                                              /\ At("start", u) # At("start", o)
BY DEF At, Role

LEMMA ProgressGives ==
  ASSUME EndpointInv, NEW r \in Run, NEW o \in Role, Busy(r),
         op[r].next > At("prepare", o)
  PROVE  IsPrepared(r, o)
BY DEF EndpointInv, StartsProgress, ProgressIs

LEMMA SendEndpointQueue ==
  ASSUME EndpointInv, [Next]_vars, NEW q \in StartReq, SendCommand(q),
         Open(Current(q).agent, Current(q).gen),
         NEW a \in Agent, a = Current(q).agent
  PROVE  QueueIs(a)'
<1>1. PICK t : t = Current(q)
  OBVIOUS
<1>2. PICK m :
        /\ m = [phase |-> t.phase, run |-> op[q].run, role |-> t.role, req |-> q]
        /\ toAgent'[a] = Append(toAgent[a], m)
        /\ op'[q].pc = "wait" /\ op'[q].next = op[q].next /\ op[q].pc = "send"
        /\ UNCHANGED <<conn, prepared, place, job>>
  BY <1>1, SendCommandIs DEF EndpointInv, IInv, Req
<1>3. TypeOK /\ TypeOK' /\ q \in Run /\ Busy(q) /\ op[q].run = q
  BY <1>2, TypeStep DEF EndpointInv, IInv, Bookkeeping, Starting, Run, Busy, InProgress
<1>4. op[q].next <= 4
  <2>1. op[q].next \in 1 .. Len(op[q].plan)
    BY <1>3, SendCommandIs DEF Req
  <2>2. Len(op[q].plan) = 4
    BY <1>3 DEF EndpointInv, StartsArePlanned, PlanIsStart
  <2> QED
    BY <2>1, <2>2
<1>5. PICK p \in EndpointPhase, o \in Role :
        /\ t.phase = p /\ t.role = o /\ op[q].next = At(p, o)
        /\ place[q][o] = a /\ conn[a] = Clone(q, o)
  BY <1>1, <1>2, <1>3, <1>4, CurrentIsPlanned, OpenIsConnected
<1>6. m.phase = p /\ m.run = q /\ m.role = o /\ m.req = q
  BY <1>2, <1>3, <1>5
<1>7. NotYet(q, p, o) /\ ~NotYet(q, p, o)'
  BY <1>2, <1>5 DEF NotYet, At
<1>8. p = "start" =>
        /\ job[q][o].state = "none" /\ prepared[a][o] = q
        /\ \A i \in 1 .. Len(toAgent[a]) : ~PrepareFor(toAgent[a][i], o)
  <2> SUFFICES ASSUME p = "start"
               PROVE  /\ job[q][o].state = "none" /\ prepared[a][o] = q
                      /\ \A i \in 1 .. Len(toAgent[a]) : ~PrepareFor(toAgent[a][i], o)
    OBVIOUS
  <2>1. job[q][o].state = "none"
    BY <1>3, <1>7 DEF EndpointInv, JobsArePlaced, JobIs
  <2>2. IsPrepared(q, o)
    BY <1>3, <1>5, Ats, ProgressGives
  <2> QED
    BY <1>5, <2>1, <2>2 DEF IsPrepared
<1>9. BegunStays(q) /\ Busy(q)'
  BY <1>2, <1>3, StartsStay DEF EndpointInv, Busy, InProgress
<1>10. CommandIs(a, m)'
  <2>1. Clone(q, o)' = Clone(q, o) /\ place'[q][o] = a
    BY <1>2, <1>5, <1>9 DEF BegunStays
  <2> QED
    BY <1>2, <1>5, <1>6, <1>7, <1>8, <2>1 DEF CommandIs
<1>11. toAgent[a] \in Seq(Command) /\ Len(toAgent[a]) \in Nat
  BY <1>3 DEF TypeOK
<1>12. /\ Len(toAgent'[a]) = Len(toAgent[a]) + 1
       /\ \A i \in 1 .. Len(toAgent[a]) : toAgent'[a][i] = toAgent[a][i]
       /\ toAgent'[a][Len(toAgent[a]) + 1] = m
  <2> HIDE DEF Command
  <2> QED
    BY <1>2, <1>11, AppendParts
<1>13. ASSUME NEW i \in 1 .. Len(toAgent[a]), NEW n, n = toAgent[a][i]
       PROVE  CommandIs(a, n)' /\ InSequence(n, m)'
  <2>1. CommandIs(a, n) /\ (n.phase \in EndpointPhase => n.run \in Run /\ n.role \in Role)
    BY <1>13, QueuedIsCommand DEF EndpointInv, IInv, CommandsAreKnown
  <2>2. CommandIs(a, n)'
    <3>1. n.phase = "start" => job'[n.run][n.role].state = "none"
      BY <1>2, <2>1 DEF CommandIs, EndpointPhase
    <3> QED
      BY <1>2, <1>13, <3>1, CommandStays
  <2>3. ~(n.phase = "start" /\ p = "start" /\ n.run = q /\ n.role = o)
    BY <1>7, <2>1 DEF CommandIs, EndpointPhase
  <2>4. ~(PrepareFor(n, o) /\ p = "start")
    BY <1>8, <1>13
  <2>5. ~(PrepareFor(n, o) /\ Busy(n.run)' /\ p = "prepare")
    <3> SUFFICES ASSUME PrepareFor(n, o), Busy(n.run)', p = "prepare" PROVE FALSE
      OBVIOUS
    <3>1. n.run \in Run /\ ~NotYet(n.run, "prepare", o)
      BY <2>1 DEF PrepareFor, CommandIs, EndpointPhase
    <3>2. BegunStays(n.run) /\ op[n.run].pc # "idle"
      BY <3>1, StartsStay DEF EndpointInv, NotYet
    <3>3. n.run = q
      BY <1>3, <3>1, <3>2, BusyIsUnique DEF BegunStays
    <3> QED
      BY <1>7, <3>1, <3>3
  <2>6. InSequence(n, m)'
    BY <1>6, <2>3, <2>4, <2>5 DEF InSequence, PrepareFor
  <2> QED
    BY <2>2, <2>6
<1>14. ASSUME NEW i \in 1 .. Len(toAgent'[a]), NEW n, n = toAgent'[a][i]
       PROVE  CommandIs(a, n)'
  BY SMTT(90), <1>10, <1>11, <1>12, <1>13, <1>14
<1>15. ASSUME NEW i \in 1 .. Len(toAgent'[a]), NEW j \in 1 .. Len(toAgent'[a]), i < j,
              NEW n, NEW l, n = toAgent'[a][i], l = toAgent'[a][j]
       PROVE  InSequence(n, l)'
  <2>1. i \in 1 .. Len(toAgent[a]) /\ n = toAgent[a][i]
    BY <1>11, <1>12, <1>15
  <2>2. CASE j \in 1 .. Len(toAgent[a])
    <3>1. l = toAgent[a][j]
      BY <1>12, <1>15, <2>2
    <3>2. InSequence(n, l)
      BY <1>15, <2>1, <2>2, <3>1 DEF EndpointInv, CommandsInSequence
    <3> QED
      BY <2>1, <3>2, SequenceStays
  <2>3. CASE j = Len(toAgent[a]) + 1
    BY <1>12, <1>13, <1>15, <2>1, <2>3
  <2> QED
    BY <1>11, <1>12, <2>2, <2>3
<1> QED
  BY <1>14, <1>15 DEF QueueIs

(* Steps that start nothing, seen from one wire.                               *)
LEMMA QuietKeepsQueue ==
  ASSUME EndpointInv, [Next]_vars, JobsQuiet, NEW a \in Agent, NEW k \in {0, 1},
         Shift(a, k), conn'[a] = conn[a], prepared'[a] = prepared[a]
  PROVE  QueueIs(a)'
<1>1. ASSUME NEW i \in 1 .. Len(toAgent[a]), toAgent[a][i].phase = "start"
      PROVE  job'[toAgent[a][i].run][toAgent[a][i].role].state = "none"
  <2> DEFINE m == toAgent[a][i]
  <2>1. CommandIs(a, m) /\ m.run \in Run /\ m.role \in Role
    BY <1>1, QueuedIsCommand DEF EndpointInv, IInv, CommandsAreKnown, EndpointPhase
  <2>2. job[m.run][m.role].state = "none"
    BY <1>1, <2>1 DEF CommandIs, EndpointPhase
  <2> HIDE DEF m
  <2>3. job'[m.run][m.role].state = "none"
    BY <2>1, <2>2, QuietKeeps
  <2> QED
    BY <2>3 DEF m
<1> QED
  BY <1>1, ShiftKeepsQueue

LEMMA EmptyQueue ==
  ASSUME NEW a \in Agent, toAgent'[a] = << >> PROVE QueueIs(a)'
BY DEF QueueIs

LEMMA ControlKeepsQueues ==
  ASSUME EndpointInv, [Next]_vars, ControlOnly PROVE \A a \in Agent : QueueIs(a)'
<1>1. JobsQuiet
  BY UnchangedIsQuiet DEF ControlOnly
<1> QED
  BY <1>1, QuietKeepsQueue DEF ControlOnly

LEMMA RequestKeepsQueues ==
  ASSUME EndpointInv, RequestStep PROVE \A a \in Agent : QueueIs(a)'
<1>1. [Next]_vars /\ TypeOK
  BY DEF Next, EndpointInv, IInv
<1>2. ASSUME NEW q \in Req, SendCommand(q), NEW a \in Agent PROVE QueueIs(a)'
  <2>1. JobsQuiet /\ UNCHANGED <<conn, prepared>>
    BY <1>1, <1>2, SendCommandIs, UnchangedIsQuiet
  <2>2. CASE toAgent'[a] = toAgent[a]
    BY <1>1, <2>1, <2>2, Shifts, QuietKeepsQueue
  <2>3. CASE toAgent'[a] # toAgent[a]
    <3>1. Open(Current(q).agent, Current(q).gen) /\ a = Current(q).agent
      BY <1>1, <1>2, <2>3, SendCommandIs
    <3>2. CASE q \in StartReq
      BY <1>1, <1>2, <3>1, <3>2, SendEndpointQueue
    <3>3. CASE q \in StopReq \cup PauseReq
      <4>1. PICK m : /\ m.phase = Current(q).phase
                     /\ toAgent'[a] = Append(toAgent[a], m)
        <5>1. toAgent'[a] = Append(toAgent[a], [phase |-> Current(q).phase,
                                                run |-> op[q].run,
                                                role |-> Current(q).role, req |-> q])
          BY <1>1, <1>2, <3>1, SendCommandIs
        <5> QED
          BY <5>1
      <4>2. Current(q).phase \in RunPhase
        BY <1>1, <1>2, <3>3, SendCommandIs
           DEF EndpointInv, PlansSpareEndpoints, Current
      <4>3. Shift(a, 0)
        BY <1>1, <4>1, <4>2, Shifts
      <4> QED
        BY <1>1, <2>1, <4>3, QuietKeepsQueue
    <3> QED
      BY <3>2, <3>3 DEF Req
  <2> QED
    BY <2>2, <2>3
<1> QED
  BY <1>1, <1>2, RequestIsControlOnly, ControlKeepsQueues
     DEF RequestStep, StopBegin, PauseBegin, Req, Status, LiveStatus, EndStatus

LEMMA PrepareKeepsQueues ==
  ASSUME EndpointInv, NEW a \in Agent, AgentPrepare(a), NEW b \in Agent
  PROVE  QueueIs(b)'
<1>1. [Next]_vars /\ TypeOK
  BY DEF Next, AgentStep, EndpointInv, IInv
<1>2. Handling(a, {"prepare"}) /\ Reply(a, TRUE) /\ UNCHANGED <<conn, job>>
  BY DEF AgentPrepare
<1> DEFINE m == Head(toAgent[a])
<1>3. /\ m = toAgent[a][1] /\ 1 \in 1 .. Len(toAgent[a]) /\ m.phase \in {"prepare"}
      /\ Shift(a, 1) /\ (b # a => Shift(b, 0))
  BY <1>1, <1>2, HandledIs
<1>4. m.role \in Role /\ prepared' = [prepared EXCEPT ![a][m.role] = m.run]
  BY <1>1, <1>3, QueuedIsCommand DEF AgentPrepare, EndpointPhase
<1>5. /\ b # a => prepared'[b] = prepared[b]
      /\ \A o \in Role : o # m.role => prepared'[a][o] = prepared[a][o]
  BY <1>1, <1>4 DEF TypeOK
<1>6. CASE b # a
  BY <1>1, <1>2, <1>3, <1>5, <1>6, UnchangedIsQuiet, QuietKeepsQueue
<1>7. CASE b = a
  <2>1. ASSUME NEW i \in 1 .. Len(toAgent[a]), i > 1, toAgent[a][i].phase = "start"
        PROVE  /\ prepared'[a][toAgent[a][i].role] = prepared[a][toAgent[a][i].role]
               /\ job'[toAgent[a][i].run][toAgent[a][i].role].state = "none"
    <3>1. InSequence(m, toAgent[a][i])
      BY <1>3, <2>1 DEF EndpointInv, CommandsInSequence
    <3>2. CommandIs(a, toAgent[a][i]) /\ toAgent[a][i].role \in Role
      BY <1>1, <2>1, QueuedIsCommand DEF EndpointInv, CommandsAreKnown, EndpointPhase
    <3>3. toAgent[a][i].role # m.role
      BY <1>3, <2>1, <3>1, <3>2 DEF InSequence, PrepareFor
    <3> QED
      BY <1>2, <1>5, <2>1, <3>2, <3>3 DEF CommandIs, EndpointPhase
  <2> QED
    BY <1>1, <1>2, <1>3, <1>7, <2>1, ShiftKeepsQueue
<1> QED
  BY <1>6, <1>7

LEMMA StartKeepsQueues ==
  ASSUME EndpointInv, NEW a \in Agent, AgentStart(a), NEW b \in Agent
  PROVE  QueueIs(b)'
<1>1. [Next]_vars /\ TypeOK
  BY DEF Next, AgentStep, EndpointInv, IInv
<1>2. PICK ok : Handling(a, {"start"}) /\ Reply(a, ok) /\ UNCHANGED <<conn, prepared>>
  BY DEF AgentStart
<1> DEFINE m == Head(toAgent[a])
<1>3. /\ m = toAgent[a][1] /\ 1 \in 1 .. Len(toAgent[a]) /\ m.phase \in {"start"}
      /\ Shift(a, 1) /\ (b # a => Shift(b, 0))
  BY <1>1, <1>2, HandledIs
<1>4. /\ m.run \in Run /\ m.role \in Role /\ place[m.run][m.role] = a
      /\ \/ UNCHANGED job
         \/ job' = [job EXCEPT ![m.run][m.role] =
                        [state |-> "running", gen |-> conn[a], paused |-> FALSE]]
  BY <1>1, AgentStartIs DEF EndpointInv
<1>5. \A r \in Run, o \in Role : r # m.run \/ o # m.role => job'[r][o] = job[r][o]
  <2> HIDE DEF m
  <2>1. CASE UNCHANGED job
    BY <2>1
  <2>2. CASE job' = [job EXCEPT ![m.run][m.role] =
                        [state |-> "running", gen |-> conn[a], paused |-> FALSE]]
    BY <1>1, <1>4, <2>2 DEF TypeOK
  <2> QED
    BY <1>4, <2>1, <2>2
<1>6. ASSUME NEW i \in 1 .. Len(toAgent[b]), b = a => i > 1,
             toAgent[b][i].phase = "start"
      PROVE  job'[toAgent[b][i].run][toAgent[b][i].role].state = "none"
  <2> DEFINE n == toAgent[b][i]
  <2>1. CommandIs(b, n) /\ n.run \in Run /\ n.role \in Role
    BY <1>1, <1>6, QueuedIsCommand DEF EndpointInv, CommandsAreKnown, EndpointPhase
  <2>2. place[n.run][n.role] = b /\ job[n.run][n.role].state = "none"
    BY <1>6, <2>1 DEF CommandIs, EndpointPhase
  <2>3. n.run # m.run \/ n.role # m.role
    <3>1. CASE b = a
      <4>1. InSequence(m, n)
        BY <1>3, <1>6, <3>1 DEF EndpointInv, CommandsInSequence
      <4> QED
        BY <1>3, <1>6, <4>1 DEF InSequence
    <3>2. CASE b # a
      BY <1>4, <2>2, <3>2
    <3> QED
      BY <3>1, <3>2
  <2> HIDE DEF n
  <2>4. job'[n.run][n.role].state = "none"
    BY <1>5, <2>1, <2>2, <2>3
  <2> QED
    BY <2>4 DEF n
<1>7. CASE b # a
  BY <1>1, <1>2, <1>3, <1>6, <1>7, ShiftKeepsQueue
<1>8. CASE b = a
  BY <1>1, <1>2, <1>3, <1>6, <1>8, ShiftKeepsQueue
<1> QED
  BY <1>7, <1>8

LEMMA QueuesStep ==
  ASSUME EndpointInv, [Next]_vars PROVE \A a \in Agent : QueueIs(a)'
<1> TAKE b \in Agent
<1>1. TypeOK
  BY DEF EndpointInv, IInv
<1>2. CASE RequestStep
  BY <1>2, RequestKeepsQueues
<1>3. CASE SessionStep
  BY <1>1, <1>3, SessionSteps, SessionIsControlOnly, ControlKeepsQueues
<1>4. ASSUME NEW a \in Agent, Connect(a) PROVE QueueIs(b)'
  <2>1. JobsQuiet /\ UNCHANGED <<toAgent, prepared>> /\ conn[a] = 0
        /\ (b # a => conn'[b] = conn[b])
    BY <1>1, <1>4, ConnectIs, UnchangedIsQuiet
  <2>2. CASE b = a
    BY <2>1, <2>2, EmptyQueue DEF EndpointInv, Connected
  <2>3. CASE b # a
    BY <1>1, <2>1, <2>3, Shifts, QuietKeepsQueue
  <2> QED
    BY <2>2, <2>3
<1>5. ASSUME NEW a \in Agent, Disconnect(a) \/ AgentCrash(a) PROVE QueueIs(b)'
  <2>1. JobsQuiet /\ toAgent'[a] = << >>
        /\ (b # a => /\ conn'[b] = conn[b] /\ prepared'[b] = prepared[b]
                     /\ toAgent'[b] = toAgent[b])
    BY <1>1, <1>5, LeaveIs
  <2>2. CASE b = a
    BY <2>1, <2>2, EmptyQueue
  <2>3. CASE b # a
    BY <1>1, <2>1, <2>3, Shifts, QuietKeepsQueue
  <2> QED
    BY <2>2, <2>3
<1>6. ASSUME NEW a \in Agent, AgentStop(a) \/ AgentSetPaused(a) PROVE QueueIs(b)'
  <2>1. JobsQuiet /\ UNCHANGED <<conn, prepared>>
    BY <1>1, <1>6, AgentStopQuiet, AgentSetPausedQuiet DEF AgentStop, AgentSetPaused
  <2>2. PICK phases : Handling(a, phases) /\ Reply(a, TRUE)
    BY <1>6 DEF AgentStop, AgentSetPaused
  <2>3. Shift(a, 1) /\ (b # a => Shift(b, 0))
    BY <1>1, <2>2, HandledIs
  <2> QED
    BY <2>1, <2>3, QuietKeepsQueue
<1>7. CASE JobStep
  <2>1. UNCHANGED <<toAgent, conn, prepared>>
    BY <1>7 DEF JobStep, JobElapses, JobReports, JobFails, wireVars
  <2>2. JobsQuiet
    BY <1>1, <1>7, JobStepQuiet DEF JobStep
  <2> QED
    BY <1>1, <2>1, <2>2, Shifts, QuietKeepsQueue
<1>8. CASE ControlRestart \/ UNCHANGED vars
  <2>1. ControlOnly
    BY <1>1, <1>8, Shifts DEF ControlRestart, ControlOnly, vars, wireVars, agentVars
  <2> QED
    BY <2>1, ControlKeepsQueues
<1> QED
  BY <1>2, <1>3, <1>4, <1>5, <1>6, <1>7, <1>8, PrepareKeepsQueues, StartKeepsQueues
     DEF Next, AgentStep

-----------------------------------------------------------------------------
(* PreparedIsKnown, MessagesAreTrue and StartsProgress                        *)

LEMMA PreparedMoves ==
  ASSUME TypeOK, [Next]_vars, NEW a \in Agent
  PROVE  \/ prepared'[a] = prepared[a]
         \/ \A o \in Role : prepared'[a][o] = None
         \/ /\ AgentPrepare(a)
            /\ \A o \in Role : prepared'[a][o] =
                 IF o = Head(toAgent[a]).role THEN Head(toAgent[a]).run
                                              ELSE prepared[a][o]
<1>1. CASE RequestStep
  <2>1. ASSUME NEW q \in Req, SendCommand(q) PROVE UNCHANGED prepared
    BY <2>1, SendCommandIs
  <2> QED
    BY <1>1, <2>1, RequestIsControlOnly
       DEF RequestStep, ControlOnly, StopBegin, PauseBegin, Req, Status, LiveStatus,
           EndStatus
<1>2. CASE SessionStep
  BY <1>2, SessionSteps, SessionIsControlOnly DEF ControlOnly
<1>3. ASSUME NEW b \in Agent, Disconnect(b) \/ AgentCrash(b)
      PROVE  prepared'[a] = prepared[a] \/ \A o \in Role : prepared'[a][o] = None
  BY <1>3, LeaveIs
<1>4. ASSUME NEW b \in Agent, AgentPrepare(b)
      PROVE  \/ prepared'[a] = prepared[a]
             \/ /\ b = a
                /\ \A o \in Role : prepared'[a][o] =
                     IF o = Head(toAgent[a]).role THEN Head(toAgent[a]).run
                                                  ELSE prepared[a][o]
  BY <1>4 DEF AgentPrepare, TypeOK
<1>5. ASSUME NEW b \in Agent,
             Connect(b) \/ AgentStart(b) \/ AgentStop(b) \/ AgentSetPaused(b)
      PROVE  UNCHANGED prepared
  BY <1>5 DEF Connect, AgentStart, AgentStop, AgentSetPaused
<1>6. CASE JobStep
  BY <1>6 DEF JobStep, JobElapses, JobReports, JobFails
<1>7. CASE ControlRestart \/ UNCHANGED vars
  BY <1>7 DEF ControlRestart, vars, agentVars
<1> QED
  BY <1>1, <1>2, <1>3, <1>4, <1>5, <1>6, <1>7 DEF Next, AgentStep

LEMMA PrepareIs ==
  ASSUME EndpointInv, NEW a \in Agent, AgentPrepare(a)
  PROVE  LET m == Head(toAgent[a]) IN
         /\ m = toAgent[a][1] /\ 1 \in 1 .. Len(toAgent[a]) /\ m \in Command
         /\ m.phase = "prepare" /\ m.run \in Run /\ m.role \in Role /\ m.req = m.run
         /\ place[m.run][m.role] = a /\ ~NotYet(m.run, "prepare", m.role)
         /\ Shift(a, 1) /\ \A b \in Agent \ {a} : Shift(b, 0)
<1> DEFINE m == Head(toAgent[a])
<1>1. TypeOK /\ Handling(a, {"prepare"}) /\ Reply(a, TRUE)
  BY DEF AgentPrepare, EndpointInv, IInv
<1>2. /\ m = toAgent[a][1] /\ 1 \in 1 .. Len(toAgent[a]) /\ m \in Command
      /\ m.phase \in {"prepare"} /\ Shift(a, 1) /\ \A b \in Agent \ {a} : Shift(b, 0)
  BY <1>1, HandledIs
<1>3. CommandIs(a, m) /\ m.run \in Run /\ m.role \in Role
  BY <1>1, <1>2, QueuedIsCommand DEF EndpointInv, CommandsAreKnown, EndpointPhase
<1> HIDE DEF m
<1> QED
  BY <1>2, <1>3 DEF m, CommandIs, EndpointPhase

LEMMA PreparedStep ==
  ASSUME EndpointInv, [Next]_vars PROVE PreparedIsKnown'
<1>1. TypeOK
  BY DEF EndpointInv, IInv
<1>2. \A r \in Run, o \in Role : ~NotYet(r, "prepare", o) =>
        place'[r][o] = place[r][o] /\ ~NotYet(r, "prepare", o)'
  BY StartsStay DEF EndpointInv, BegunStays, NotYet, EndpointPhase
<1> SUFFICES ASSUME NEW a \in Agent, NEW o \in Role, NEW r, r = prepared'[a][o], r \in Run
             PROVE  place'[r][o] = a /\ ~NotYet(r, "prepare", o)'
  BY DEF PreparedIsKnown, PreparedIs
<1>3. r # None
  BY RunIsNotNone
<1>4. place[r][o] = a /\ ~NotYet(r, "prepare", o)
  <2>1. CASE r = prepared[a][o]
    BY <2>1 DEF EndpointInv, PreparedIsKnown, PreparedIs
  <2>2. CASE AgentPrepare(a) /\ o = Head(toAgent[a]).role /\ r = Head(toAgent[a]).run
    BY <2>2, PrepareIs
  <2> QED
    BY <1>1, <1>3, <2>1, <2>2, PreparedMoves
<1> QED
  BY <1>2, <1>4

(* One wire in one step.                                                      *)
Calm(a) ==
  conn'[a] = conn[a] /\ prepared'[a] = prepared[a] /\ (Shift(a, 0) \/ Shift(a, 1))

SendsEndpoint(q, a) ==
  SendCommand(q) /\ Open(Current(q).agent, Current(q).gen) /\ a = Current(q).agent

LEMMA WireMoves ==
  ASSUME EndpointInv, [Next]_vars, NEW a \in Agent
  PROVE  \/ Calm(a) \/ conn'[a] = 0 \/ Connect(a) \/ AgentPrepare(a)
         \/ \E q \in StartReq : SendsEndpoint(q, a)
<1>1. TypeOK
  BY DEF EndpointInv, IInv
<1>2. ASSUME ControlOnly PROVE Calm(a)
  BY <1>2 DEF ControlOnly, Calm
<1>3. ASSUME NEW q \in Req, SendCommand(q)
      PROVE  Calm(a) \/ (q \in StartReq /\ SendsEndpoint(q, a))
  <2>1. UNCHANGED <<conn, prepared>>
    BY <1>1, <1>3, SendCommandIs
  <2>2. CASE toAgent'[a] = toAgent[a]
    BY <1>1, <2>1, <2>2, Shifts DEF Calm
  <2>3. CASE toAgent'[a] # toAgent[a]
    <3>1. Open(Current(q).agent, Current(q).gen) /\ a = Current(q).agent
      BY <1>1, <1>3, <2>3, SendCommandIs
    <3>2. CASE q \in StartReq
      BY <1>3, <3>1, <3>2 DEF SendsEndpoint
    <3>3. CASE q \in StopReq \cup PauseReq
      <4>1. PICK m : /\ m.phase = Current(q).phase
                     /\ toAgent'[a] = Append(toAgent[a], m)
        <5>1. toAgent'[a] = Append(toAgent[a], [phase |-> Current(q).phase,
                                                run |-> op[q].run,
                                                role |-> Current(q).role, req |-> q])
          BY <1>1, <1>3, <3>1, SendCommandIs
        <5> QED
          BY <5>1
      <4>2. Current(q).phase \in RunPhase
        BY <1>1, <1>3, <3>3, SendCommandIs
           DEF EndpointInv, PlansSpareEndpoints, Current
      <4> QED
        BY <1>1, <2>1, <4>1, <4>2, Shifts DEF Calm
    <3> QED
      BY <3>2, <3>3 DEF Req
  <2> QED
    BY <2>2, <2>3
<1>4. CASE RequestStep
  BY <1>1, <1>2, <1>3, <1>4, RequestIsControlOnly
     DEF RequestStep, StopBegin, PauseBegin, Req, Status, LiveStatus, EndStatus
<1>5. CASE SessionStep
  BY <1>1, <1>2, <1>5, SessionSteps, SessionIsControlOnly
<1>6. ASSUME NEW b \in Agent, Connect(b) PROVE b = a \/ Calm(a)
  BY <1>1, <1>6, ConnectIs, Shifts DEF Calm
<1>7. ASSUME NEW b \in Agent, Disconnect(b) \/ AgentCrash(b)
      PROVE  conn'[a] = 0 \/ Calm(a)
  BY <1>1, <1>7, LeaveIs, Shifts DEF Calm
<1>8. ASSUME NEW b \in Agent, AgentPrepare(b) PROVE b = a \/ Calm(a)
  <2>1. UNCHANGED conn /\ (b # a => prepared'[a] = prepared[a])
    BY <1>1, <1>8 DEF AgentPrepare, TypeOK
  <2> QED
    BY <1>8, <2>1, PrepareIs DEF Calm
<1>9. ASSUME NEW b \in Agent, AgentStart(b) \/ AgentStop(b) \/ AgentSetPaused(b)
      PROVE  Calm(a)
  <2>1. UNCHANGED <<conn, prepared>>
    BY <1>9 DEF AgentStart, AgentStop, AgentSetPaused
  <2>2. PICK phases, ok : Handling(b, phases) /\ Reply(b, ok)
    BY <1>9 DEF AgentStart, AgentStop, AgentSetPaused
  <2> QED
    BY <1>1, <2>1, <2>2, HandledIs DEF Calm
<1>10. CASE JobStep
  <2>1. UNCHANGED <<toAgent, conn, prepared>>
    BY <1>10 DEF JobStep, JobElapses, JobReports, JobFails, wireVars
  <2> QED
    BY <1>1, <2>1, Shifts DEF Calm
<1>11. CASE ControlRestart \/ UNCHANGED vars
  <2>1. UNCHANGED <<toAgent, conn, prepared>>
    BY <1>11 DEF ControlRestart, vars, wireVars, agentVars
  <2> QED
    BY <1>1, <2>1, Shifts DEF Calm
<1> QED
  BY <1>4, <1>5, <1>6, <1>7, <1>8, <1>9, <1>10, <1>11 DEF Next, AgentStep

(* What start_run sends, as one fact.                                          *)
LEMMA SendIsPlanned ==
  ASSUME EndpointInv, NEW q \in StartReq, SendCommand(q)
  PROVE  LET t == Current(q) IN
         /\ q \in Run /\ Busy(q) /\ op[q].run = q /\ op[q].pc = "send"
         /\ t.phase \in EndpointPhase /\ t.role \in Role
         /\ op[q].next = At(t.phase, t.role) /\ NotYet(q, t.phase, t.role)
         /\ t.agent = place[q][t.role] /\ t.agent \in Agent
         /\ t.gen = Clone(q, t.role)
<1>1. TypeOK /\ q \in Run /\ q \in Req
  BY DEF EndpointInv, IInv, Run, Req
<1>2. op[q].pc = "send" /\ op[q].next \in 1 .. Len(op[q].plan)
  BY <1>1, SendCommandIs
<1>3. Busy(q) /\ op[q].run = q
  BY <1>1, <1>2 DEF EndpointInv, IInv, Bookkeeping, Starting, Busy, InProgress
<1>4. op[q].next <= 4
  <2>1. Len(op[q].plan) = 4
    BY <1>1, <1>3 DEF EndpointInv, StartsArePlanned, PlanIsStart
  <2> QED
    BY <1>2, <2>1
<1>5. LET t == Current(q) IN
      /\ t.phase \in EndpointPhase /\ t.role \in Role
      /\ op[q].next = At(t.phase, t.role)
      /\ t.agent = place[q][t.role] /\ t.agent \in Agent
      /\ t.gen = Clone(q, t.role)
  BY <1>1, <1>3, <1>4, CurrentIsPlanned
<1>6. \A p \in EndpointPhase, o \in Role : op[q].next = At(p, o) => NotYet(q, p, o)
  BY <1>2 DEF At, NotYet
<1>7. LET t == Current(q) IN NotYet(q, t.phase, t.role)
  BY <1>5, <1>6
<1> QED
  BY <1>1, <1>2, <1>3, <1>5, <1>7

LEMMA SentEndpoint ==
  ASSUME EndpointInv, NEW q \in StartReq, NEW a \in Agent, SendsEndpoint(q, a)
  PROVE  /\ UNCHANGED <<conn, prepared, place, job, status, finished, task>>
         /\ \E m : /\ toAgent'[a] = Append(toAgent[a], m)
                   /\ m.phase = Current(q).phase /\ m.run = q
                   /\ m.role = Current(q).role
                   /\ Len(toAgent'[a]) = Len(toAgent[a]) + 1
                   /\ toAgent'[a][Len(toAgent[a]) + 1] = m
         /\ \A i \in 1 .. Len(toAgent[a]) : toAgent'[a][i] = toAgent[a][i]
         /\ op'[q].pc = "wait"
<1>1. TypeOK /\ SendCommand(q) /\ Open(Current(q).agent, Current(q).gen)
      /\ a = Current(q).agent /\ op[q].run = q
  BY SendIsPlanned DEF EndpointInv, IInv, SendsEndpoint
<1>2. PICK t : t = Current(q)
  OBVIOUS
<1>3. PICK m : m = [phase |-> t.phase, run |-> op[q].run, role |-> t.role, req |-> q]
  OBVIOUS
<1>4. /\ toAgent'[a] = Append(toAgent[a], m)
      /\ UNCHANGED <<conn, prepared, place, job, status, finished, task>>
      /\ op'[q].pc = "wait"
  BY <1>1, <1>2, <1>3, SendCommandIs DEF Req
<1>5. toAgent[a] \in Seq(Command)
  BY <1>1 DEF TypeOK
<1>6. /\ Len(toAgent'[a]) = Len(toAgent[a]) + 1
      /\ \A i \in 1 .. Len(toAgent[a]) : toAgent'[a][i] = toAgent[a][i]
      /\ toAgent'[a][Len(toAgent[a]) + 1] = m
  <2> HIDE DEF Command
  <2> QED
    BY <1>4, <1>5, AppendParts
<1> QED
  BY <1>1, <1>2, <1>3, <1>4, <1>6

LEMMA IsPreparedStays ==
  ASSUME EndpointInv, [Next]_vars, NEW r \in Run, NEW o \in Role,
         ~NotYet(r, "prepare", o), Busy(r)', IsPrepared(r, o)
  PROVE  IsPrepared(r, o)'
<1> DEFINE a == place[r][o]
<1>1. TypeOK /\ TypeOK'
  BY TypeStep DEF EndpointInv, IInv
<1>2. op[r].pc # "idle" /\ BegunStays(r)
  BY StartsStay DEF EndpointInv, NotYet
<1>3. /\ Busy(r) /\ Clone(r, o)' = Clone(r, o) /\ place'[r][o] = a
      /\ a \in Agent /\ Clone(r, o) \in 1 .. lastGen[a]
  BY <1>2 DEF BegunStays, EndpointInv, IInv, Bookkeeping, Placed, StartsArePlanned,
     PlanIsStart, TypeOK, Req
<1> HIDE DEF a
<1>4. conn[a] = Clone(r, o) =>
        /\ prepared[a][o] = r
        /\ \A i \in 1 .. Len(toAgent[a]) : ~PrepareFor(toAgent[a][i], o)
  BY DEF IsPrepared, a
<1> SUFFICES ASSUME conn'[a] = Clone(r, o)
             PROVE  /\ prepared'[a][o] = r
                    /\ \A i \in 1 .. Len(toAgent'[a]) : ~PrepareFor(toAgent'[a][i], o)
  BY <1>3 DEF IsPrepared, PrepareFor
<1>5. Len(toAgent[a]) \in Nat /\ lastGen[a] \in Nat
  BY <1>1, <1>3 DEF TypeOK
<1>6. \A m : m.phase \in RunPhase => ~PrepareFor(m, o)
  BY DEF PrepareFor, RunPhase
<1>7. ASSUME conn[a] = Clone(r, o), NEW k \in {0, 1}, Shift(a, k)
      PROVE  \A i \in 1 .. Len(toAgent'[a]) : ~PrepareFor(toAgent'[a][i], o)
  BY <1>4, <1>6, <1>7 DEF Shift
<1>8. CASE Calm(a)
  BY <1>3, <1>4, <1>7, <1>8 DEF Calm
<1>9. CASE conn'[a] = 0
  BY <1>3, <1>5, <1>9
<1>10. CASE Connect(a)
  <2>1. conn'[a] = lastGen[a] + 1
    BY <1>1, <1>3, <1>10, ConnectIs
  <2> QED
    BY <1>3, <1>5, <2>1
<1>11. CASE AgentPrepare(a)
  <2>1. conn'[a] = conn[a]
    BY <1>11 DEF AgentPrepare
  <2>2. Head(toAgent[a]).role # o /\ Shift(a, 1)
    BY <1>3, <1>4, <1>11, <2>1, PrepareIs DEF PrepareFor
  <2>3. prepared'[a][o] = prepared[a][o]
    BY <1>1, <1>3, <1>11, <2>2 DEF AgentPrepare, TypeOK
  <2> QED
    BY <1>4, <1>7, <2>1, <2>2, <2>3
<1>12. ASSUME NEW q \in StartReq, SendsEndpoint(q, a)
       PROVE  /\ prepared'[a][o] = r
              /\ \A i \in 1 .. Len(toAgent'[a]) : ~PrepareFor(toAgent'[a][i], o)
  <2>1. q = r /\ NotYet(q, Current(q).phase, Current(q).role)
    BY <1>3, <1>12, SendIsPlanned, BusyIsUnique DEF SendsEndpoint
  <2>2. PICK m : /\ m.phase = Current(q).phase /\ m.role = Current(q).role
                 /\ Len(toAgent'[a]) = Len(toAgent[a]) + 1
                 /\ toAgent'[a][Len(toAgent[a]) + 1] = m
    BY <1>3, <1>12, SentEndpoint
  <2>3. /\ conn'[a] = conn[a] /\ prepared'[a][o] = prepared[a][o]
        /\ \A i \in 1 .. Len(toAgent[a]) : toAgent'[a][i] = toAgent[a][i]
    BY <1>3, <1>12, SentEndpoint
  <2>4. ~PrepareFor(m, o)
    BY <2>1, <2>2 DEF PrepareFor
  <2>5. \A i \in 1 .. Len(toAgent'[a]) : i \in 1 .. Len(toAgent[a]) \/ i = Len(toAgent[a]) + 1
    BY <1>5, <2>2
  <2> QED
    BY <1>4, <2>2, <2>3, <2>4, <2>5
<1> QED
  BY <1>3, <1>8, <1>9, <1>10, <1>11, <1>12, WireMoves

(* A prepare that was just handled.                                            *)
LEMMA BecomesPrepared ==
  ASSUME EndpointInv, [Next]_vars, NEW a \in Agent, AgentPrepare(a),
         NEW r \in Run, NEW o \in Role, Busy(r)',
         r = Head(toAgent[a]).run, o = Head(toAgent[a]).role
  PROVE  IsPrepared(r, o)'
<1>1. TypeOK /\ TypeOK'
  BY TypeStep DEF EndpointInv, IInv
<1> DEFINE m == Head(toAgent[a])
<1>2. /\ m = toAgent[a][1] /\ 1 \in 1 .. Len(toAgent[a]) /\ m.phase = "prepare"
      /\ place[r][o] = a /\ ~NotYet(r, "prepare", o) /\ Shift(a, 1)
  BY PrepareIs
<1>3. Busy(r) /\ place'[r][o] = a
  BY <1>2, StartsStay DEF BegunStays, NotYet, EndpointInv
<1>4. prepared'[a][o] = r
  BY <1>1 DEF AgentPrepare, TypeOK
<1>5. \A i \in 1 .. Len(toAgent[a]) : i > 1 => ~PrepareFor(toAgent[a][i], o)
  <2> SUFFICES ASSUME NEW i \in 1 .. Len(toAgent[a]), i > 1
               PROVE  ~PrepareFor(toAgent[a][i], o)
    OBVIOUS
  <2>1. InSequence(m, toAgent[a][i])
    BY <1>2 DEF EndpointInv, CommandsInSequence
  <2>2. PrepareFor(m, o) /\ Busy(m.run)
    BY <1>2, <1>3 DEF PrepareFor
  <2> QED
    BY <2>1, <2>2 DEF InSequence
<1>6. Len(toAgent[a]) \in Nat /\ Len(toAgent'[a]) \in Nat
  BY <1>1 DEF TypeOK
<1>7. \A i \in 1 .. Len(toAgent'[a]) : ~PrepareFor(toAgent'[a][i], o)
  <2> SUFFICES ASSUME NEW i \in 1 .. Len(toAgent'[a]) PROVE ~PrepareFor(toAgent'[a][i], o)
    OBVIOUS
  <2>1. i + 1 > 1
    BY <1>6
  <2> QED
    BY <1>2, <1>5, <2>1 DEF Shift, PrepareFor, RunPhase
<1> QED
  BY <1>3, <1>4, <1>7 DEF IsPrepared, PrepareFor

(* What travels to Control.                                                    *)
Travels(m) ==
  \E a \in Agent, g \in Gen : \E i \in 1 .. Len(toControl[a][g]) : toControl[a][g][i] = m

LEMMA TravelsIs ==
  ASSUME MessagesAreTrue, NEW m, Travels(m) PROVE MessageIs(m)
BY DEF MessagesAreTrue, Travels

LEMMA MessagesAreNext ==
  ASSUME \A m : Travels(m)' => MessageIs(m)' PROVE MessagesAreTrue'
<1>1. \A a \in Agent, g \in Gen : \A i \in 1 .. Len(toControl'[a][g]) :
        \A m : m = toControl'[a][g][i] => MessageIs(m)'
  BY DEF Travels
<1> QED
  BY <1>1, SMTT(90) DEF MessagesAreTrue, MessageIs

LEMMA TravelsTyped ==
  ASSUME TypeOK, NEW m, Travels(m) PROVE m \in Ack \cup Event
<1>1. PICK a \in Agent, g \in Gen : \E i \in 1 .. Len(toControl[a][g]) : toControl[a][g][i] = m
  BY DEF Travels
<1>2. toControl[a][g] \in Seq(Ack \cup Event)
  BY DEF TypeOK
<1> HIDE DEF Ack, Event
<1> QED
  BY <1>1, <1>2

LEMMA ShorterTravels ==
  ASSUME TypeOK,
         \A a \in Agent, g \in Gen :
           \/ toControl'[a][g] = toControl[a][g]
           \/ toControl'[a][g] = << >>
           \/ toControl[a][g] # << >> /\ toControl'[a][g] = Tail(toControl[a][g])
  PROVE  \A m : Travels(m)' => Travels(m)
<1> SUFFICES ASSUME NEW m, Travels(m)' PROVE Travels(m)
  OBVIOUS
<1>3. PICK a \in Agent, g \in Gen : \E i \in 1 .. Len(toControl'[a][g]) :
        toControl'[a][g][i] = m
  BY Zenon DEF Travels
<1>4. PICK i \in 1 .. Len(toControl'[a][g]) : toControl'[a][g][i] = m
  BY <1>3
<1>1. toControl[a][g] \in Seq(Ack \cup Event)
  BY DEF TypeOK
<1> HIDE DEF Ack, Event
<1>2. \E j \in 1 .. Len(toControl[a][g]) : toControl[a][g][j] = toControl'[a][g][i]
  <2>1. CASE toControl'[a][g] = toControl[a][g]
    BY <2>1
  <2>2. CASE toControl'[a][g] = << >>
    BY <2>2
  <2>3. CASE toControl[a][g] # << >> /\ toControl'[a][g] = Tail(toControl[a][g])
    BY <1>1, <2>3, TailParts
  <2> QED
    BY <2>1, <2>2, <2>3
<1> QED
  BY <1>2, <1>4 DEF Travels

LEMMA SentTravels ==
  ASSUME TypeOK, NEW a \in Agent, NEW g \in Gen, NEW n, SendToControl(a, g, n)
  PROVE  \A m : Travels(m)' => Travels(m) \/ m = n
<1>1. \A b \in Agent, h \in Gen :
        toControl'[b][h] = IF b = a /\ h = g /\ task[a][g].live
                           THEN Append(toControl[b][h], n) ELSE toControl[b][h]
  BY DEF TypeOK, SendToControl
<1> SUFFICES ASSUME NEW m, NEW b \in Agent, NEW h \in Gen,
                    NEW i \in 1 .. Len(toControl'[b][h]), toControl'[b][h][i] = m
             PROVE  Travels(m) \/ m = n
  BY DEF Travels
<1>2. toControl[b][h] \in Seq(Ack \cup Event) /\ Len(toControl[b][h]) \in Nat
  BY DEF TypeOK
<1> HIDE DEF Ack, Event
<1>3. CASE toControl'[b][h] = toControl[b][h]
  BY <1>3 DEF Travels
<1>4. CASE toControl'[b][h] = Append(toControl[b][h], n)
  <2>1. /\ Len(toControl'[b][h]) = Len(toControl[b][h]) + 1
        /\ \A j \in 1 .. Len(toControl[b][h]) : toControl'[b][h][j] = toControl[b][h][j]
        /\ toControl'[b][h][Len(toControl[b][h]) + 1] = n
    BY <1>2, <1>4, AppendParts
  <2>2. CASE i \in 1 .. Len(toControl[b][h])
    BY <2>1, <2>2 DEF Travels
  <2>3. CASE i = Len(toControl[b][h]) + 1
    BY <2>1, <2>3
  <2> QED
    BY <1>2, <2>1, <2>2, <2>3
<1> QED
  BY <1>1, <1>3, <1>4

LEMMA HeadTravels ==
  ASSUME TypeOK, NEW a \in Agent, NEW g \in Gen, toControl[a][g] # << >>
  PROVE  Travels(Head(toControl[a][g]))
<1>1. toControl[a][g] \in Seq(Ack \cup Event)
  BY DEF TypeOK
<1> HIDE DEF Ack, Event
<1>2. 1 \in 1 .. Len(toControl[a][g]) /\ Head(toControl[a][g]) = toControl[a][g][1]
  BY <1>1, TailParts
<1> QED
  BY <1>2 DEF Travels

LEMMA MessageStays ==
  ASSUME EndpointInv, [Next]_vars, NEW m, Travels(m) PROVE MessageIs(m)'
<1>1. MessageIs(m) /\ m \in Ack \cup Event
  BY TravelsIs, TravelsTyped DEF EndpointInv, IInv
<1>2. JobsKeep
  BY JobsKeepStep
<1>3. ASSUME m.kind = "ack", m.phase \in EndpointPhase
      PROVE  /\ m.req \in Run /\ m.role \in Role
             /\ ~NotYet(m.req, m.phase, m.role)'
             /\ m.phase = "prepare" /\ Busy(m.req)' => IsPrepared(m.req, m.role)'
             /\ m.phase = "start" /\ m.ok => job'[m.req][m.role].state # "none"
  <2>1. /\ m.req \in Run /\ m.role \in Role
        /\ ~NotYet(m.req, m.phase, m.role)
        /\ m.phase = "prepare" /\ Busy(m.req) => IsPrepared(m.req, m.role)
        /\ m.phase = "start" /\ m.ok => job[m.req][m.role].state # "none"
    BY <1>1, <1>3 DEF MessageIs
  <2>2. BegunStays(m.req) /\ op[m.req].pc # "idle"
    BY <2>1, StartsStay DEF EndpointInv, NotYet
  <2>3. ~NotYet(m.req, m.phase, m.role)' /\ (Busy(m.req)' => Busy(m.req))
    BY <1>3, <2>1, <2>2 DEF BegunStays
  <2>4. m.phase = "prepare" /\ Busy(m.req)' => IsPrepared(m.req, m.role)'
    BY <2>1, <2>3, IsPreparedStays
  <2> QED
    BY <1>2, <2>1, <2>3, <2>4 DEF JobsKeep
<1>4. ASSUME m.kind = "run_completed" PROVE job'[m.run][m.role].state = "reported"
  <2>1. m.run \in Run /\ m.role \in Role
    BY <1>1, <1>4 DEF Ack, Event
  <2> QED
    BY <1>1, <1>2, <1>4, <2>1 DEF MessageIs, JobsKeep
<1> QED
  BY <1>3, <1>4 DEF MessageIs

(* The acknowledgement of a command.                                           *)
LEMMA ReplyTravels ==
  ASSUME TypeOK, NEW a \in Agent, NEW phases, Handling(a, phases), NEW ok, Reply(a, ok)
  PROVE  \A m : Travels(m)' =>
           \/ Travels(m)
           \/ LET h == Head(toAgent[a]) IN
              m = [kind |-> "ack", req |-> h.req, phase |-> h.phase, role |-> h.role,
                   ok |-> ok]
<1> DEFINE h == Head(toAgent[a])
           n == [kind |-> "ack", req |-> h.req, phase |-> h.phase, role |-> h.role,
                 ok |-> ok]
<1>1. conn[a] \in Gen
  BY HandledIs
<1>2. UNCHANGED toControl \/ SendToControl(a, conn[a], n)
  BY DEF Reply
<1> HIDE DEF n
<1>3. UNCHANGED toControl => \A m : Travels(m)' => Travels(m)
  BY DEF Travels
<1>4. \A m : Travels(m)' => Travels(m) \/ m = n
  BY <1>1, <1>2, <1>3, SentTravels
<1> QED
  BY <1>4 DEF n

(* The acknowledgements start_run waits for are true when they are sent.       *)
LEMMA PrepareAnswersTrue ==
  ASSUME EndpointInv, NEW a \in Agent, AgentPrepare(a), NEW m, Travels(m)', ~Travels(m)
  PROVE  MessageIs(m)'
<1>1. TypeOK /\ [Next]_vars /\ Handling(a, {"prepare"}) /\ Reply(a, TRUE)
  BY DEF AgentPrepare, EndpointInv, IInv, Next, AgentStep
<1>2. PICK h : h = Head(toAgent[a])
  OBVIOUS
<1>3. /\ h.phase = "prepare" /\ h.run \in Run /\ h.role \in Role /\ h.req = h.run
      /\ ~NotYet(h.run, "prepare", h.role)
  BY <1>2, PrepareIs
<1>4. m = [kind |-> "ack", req |-> h.req, phase |-> h.phase, role |-> h.role, ok |-> TRUE]
  BY <1>1, <1>2, ReplyTravels
<1>5. /\ m.kind = "ack" /\ m.req = h.run /\ m.phase = "prepare" /\ m.role = h.role
  BY <1>3, <1>4
<1>6. ~NotYet(h.run, "prepare", h.role)'
  BY <1>1, <1>3, StartsStay DEF EndpointInv, BegunStays, EndpointPhase
<1>7. Busy(h.run)' => IsPrepared(h.run, h.role)'
  BY <1>1, <1>2, <1>3, BecomesPrepared
<1> HIDE <1>4
<1> QED
  BY <1>3, <1>5, <1>6, <1>7 DEF MessageIs

LEMMA StartAnswersTrue ==
  ASSUME EndpointInv, NEW a \in Agent, AgentStart(a), NEW m, Travels(m)', ~Travels(m)
  PROVE  MessageIs(m)'
<1>1. TypeOK /\ [Next]_vars /\ Handling(a, {"start"})
  BY DEF AgentStart, EndpointInv, IInv, Next, AgentStep
<1>2. PICK h : h = Head(toAgent[a])
  OBVIOUS
<1>3. /\ h.phase = "start" /\ h.run \in Run /\ h.role \in Role /\ h.req = h.run
      /\ ~NotYet(h.run, "start", h.role)
      /\ \/ Reply(a, FALSE)
         \/ /\ job' = [job EXCEPT ![h.run][h.role] =
                         [state |-> "running", gen |-> conn[a], paused |-> FALSE]]
            /\ Reply(a, TRUE)
  BY <1>1, <1>2, AgentStartIs DEF EndpointInv
<1>4. PICK ok \in BOOLEAN :
        /\ Reply(a, ok)
        /\ ok => job' = [job EXCEPT ![h.run][h.role] =
                           [state |-> "running", gen |-> conn[a], paused |-> FALSE]]
  BY <1>3
<1>5. m = [kind |-> "ack", req |-> h.req, phase |-> h.phase, role |-> h.role, ok |-> ok]
  BY <1>1, <1>2, <1>4, ReplyTravels
<1>6. /\ m.kind = "ack" /\ m.req = h.run /\ m.phase = "start" /\ m.role = h.role /\ m.ok = ok
  BY <1>3, <1>5
<1>7. ~NotYet(h.run, "start", h.role)'
  BY <1>1, <1>3, StartsStay DEF EndpointInv, BegunStays, EndpointPhase
<1>8. ok => job'[h.run][h.role].state # "none"
  BY <1>1, <1>3, <1>4, StartedJob
<1> HIDE <1>5
<1> QED
  BY <1>3, <1>6, <1>7, <1>8 DEF MessageIs

LEMMA OtherAnswersTrue ==
  ASSUME TypeOK, NEW a \in Agent, AgentStop(a) \/ AgentSetPaused(a), NEW m,
         Travels(m)', ~Travels(m)
  PROVE  MessageIs(m)'
<1>1. PICK phases : /\ Handling(a, phases) /\ Reply(a, TRUE)
                    /\ phases = {"stop"} \/ phases = {"pause", "resume"}
  BY DEF AgentStop, AgentSetPaused
<1>2. PICK h : h = Head(toAgent[a])
  OBVIOUS
<1>3. m = [kind |-> "ack", req |-> h.req, phase |-> h.phase, role |-> h.role, ok |-> TRUE]
  BY <1>1, <1>2, ReplyTravels
<1>4. h.phase \in {"stop", "pause", "resume"}
  BY <1>1, <1>2, HandledIs
<1>5. m.kind = "ack" /\ m.phase \notin EndpointPhase
  BY <1>3, <1>4 DEF EndpointPhase
<1> QED
  BY <1>5 DEF MessageIs

LEMMA ReportsTravelTrue ==
  ASSUME EndpointInv, NEW r \in Run, NEW o \in Role,
         JobElapses(r, o) \/ JobReports(r, o) \/ JobFails(r, o),
         NEW m, Travels(m)', ~Travels(m)
  PROVE  MessageIs(m)'
<1>1. TypeOK
  BY DEF EndpointInv, IInv
<1>2. UNCHANGED toControl => FALSE
  BY DEF Travels
<1>3. PICK kind \in {"run_completed", "error"} :
        /\ Report(r, o, kind)
        /\ kind = "run_completed" => JobReports(r, o)
  BY <1>2 DEF JobElapses, JobReports, JobFails, wireVars
<1>4. PICK a : a = place[r][o]
  OBVIOUS
<1>5. /\ conn[a] = job[r][o].gen
      /\ SendToControl(a, conn[a], [kind |-> kind, run |-> r, role |-> o])
  BY <1>2, <1>3, <1>4 DEF Report
<1>6. a \in Agent /\ conn[a] \in Gen
  <2>1. job[r][o].state # "none"
    BY <1>1, JobStepQuiet
  <2>2. a \in Agent /\ job[r][o].gen # 0
    BY <1>4, <2>1, StartedIsBegun DEF EndpointInv, JobsArePlaced, JobIs
  <2> QED
    BY <1>1, <1>5, <2>2, BoundsAreNatural DEF TypeOK, Gen
<1>7. m = [kind |-> kind, run |-> r, role |-> o]
  BY <1>1, <1>5, <1>6, SentTravels
<1>8. m.kind = kind /\ m.run = r /\ m.role = o
  BY <1>7
<1>9. kind = "run_completed" => job'[r][o].state = "reported"
  BY <1>1, <1>3, JobStepQuiet
<1> HIDE <1>7
<1> QED
  BY <1>8, <1>9 DEF MessageIs

LEMMA MessagesStep ==
  ASSUME EndpointInv, [Next]_vars PROVE MessagesAreTrue'
<1>1. TypeOK
  BY DEF EndpointInv, IInv
<1> SUFFICES ASSUME NEW m, Travels(m)', ~Travels(m) PROVE MessageIs(m)'
  BY MessageStays, MessagesAreNext
<1>2. ~\A a \in Agent, g \in Gen :
         \/ toControl'[a][g] = toControl[a][g]
         \/ toControl'[a][g] = << >>
         \/ toControl[a][g] # << >> /\ toControl'[a][g] = Tail(toControl[a][g])
  BY <1>1, ShorterTravels
<1>3. ~UNCHANGED toControl
  BY <1>2
<1>4. ~RequestStep
  BY <1>1, <1>3, RequestIsControlOnly, SendCommandIs
     DEF RequestStep, StopBegin, PauseBegin, Req, Status, LiveStatus, EndStatus
<1>5. ASSUME NEW a \in Agent, NEW g \in Gen, ReceiveAck(a, g) \/ SessionOnly(a, g)
      PROVE  FALSE
  <2>1. toControl \in [Agent -> [Gen -> Seq(Ack \cup Event)]]
    BY <1>1 DEF TypeOK
  <2>2. CASE /\ toControl[a][g] # << >> /\ Consume(a, g)
    <3>1. \A b \in Agent, h \in Gen : toControl'[b][h] =
            IF b = a /\ h = g THEN Tail(toControl[a][g]) ELSE toControl[b][h]
      <4> HIDE DEF Ack, Event
      <4> QED
        BY <2>1, <2>2 DEF Consume
    <3> QED
      BY <1>2, <2>2, <3>1
  <2>3. CASE ReceiveAck(a, g) \/ ReceiveError(a, g) \/ ReceiveCompleted(a, g)
    BY <2>2, <2>3 DEF ReceiveAck, ReceiveError, ReceiveCompleted, Incoming
  <2>4. CASE StreamEnds(a, g)
    <3>1. toControl' = [toControl EXCEPT ![a][g] = << >>]
      BY <2>4 DEF StreamEnds
    <3>2. \A b \in Agent, h \in Gen : toControl'[b][h] =
            IF b = a /\ h = g THEN << >> ELSE toControl[b][h]
      <4> HIDE DEF Ack, Event
      <4> QED
        BY <2>1, <3>1
    <3> QED
      BY <1>2, <3>2
  <2>5. CASE \/ CountCompletion(a, g) \/ FinishWrites(a, g) \/ FinishClears(a, g)
             \/ CheckParticipant(a, g) \/ WriteDegraded(a, g) \/ GraceExpires(a, g)
    BY <1>3, <2>5 DEF CountCompletion, FinishWrites, FinishClears, CheckParticipant,
       WriteDegraded, GraceExpires, wireVars
  <2> QED
    BY <1>5, <2>3, <2>4, <2>5 DEF SessionOnly
<1>6. ASSUME NEW a \in Agent, Connect(a) \/ Disconnect(a) \/ AgentCrash(a) PROVE FALSE
  BY <1>3, <1>6 DEF Connect, Disconnect, AgentCrash, wireVars
<1>7. ~ControlRestart /\ ~UNCHANGED vars
  BY <1>2, <1>3 DEF ControlRestart, vars, wireVars
<1>8. CASE AgentStep
  BY <1>1, <1>6, <1>8, PrepareAnswersTrue, StartAnswersTrue, OtherAnswersTrue DEF AgentStep
<1>9. CASE JobStep
  BY <1>9, ReportsTravelTrue DEF JobStep
<1> QED
  BY <1>4, <1>5, <1>7, <1>8, <1>9, SessionSteps DEF Next

(* Each acknowledgement moves start_run past a command that was carried out.   *)
LEMMA ProgressStep ==
  ASSUME EndpointInv, [Next]_vars PROVE StartsProgress'
<1> SUFFICES ASSUME NEW r \in Run, NEW o \in Role, Busy(r)' PROVE ProgressIs(r, o)'
  BY DEF StartsProgress
<1>1. TypeOK /\ Moves(r) /\ BegunStays(r) /\ JobsKeep
  BY StartsMove, StartsStay, JobsKeepStep DEF EndpointInv, IInv
<1>2. At("prepare", o) \in 1 .. 2 /\ At("start", o) \in 3 .. 4
  BY Ats
<1>3. CASE r \in StartReq /\ StartBegin(r)
  <2>1. op'[r].next = 1
    BY <1>1, <1>3, StartBeginIs DEF EndpointInv
  <2> QED
    BY <1>2, <2>1 DEF ProgressIs
<1>4. CASE ~StartBegin(r)
  <2>1. Busy(r) /\ op[r].pc # "idle" /\ op[r].next \in 1 .. 5
    BY <1>1, <1>4 DEF Moves, Stays, IsOver, Waits, IsAnswered, Busy, InProgress,
       EndpointInv, StartsArePlanned, PlanIsStart
  <2>2. ProgressIs(r, o)
    BY <2>1 DEF EndpointInv, StartsProgress
  <2>3. op'[r].next > At("prepare", o) => IsPrepared(r, o) /\ ~NotYet(r, "prepare", o)
    <3> SUFFICES ASSUME op'[r].next > At("prepare", o)
                 PROVE  IsPrepared(r, o) /\ ~NotYet(r, "prepare", o)
      OBVIOUS
    <3>1. CASE op'[r].next = op[r].next
      BY <1>2, <2>1, <2>2, <3>1 DEF ProgressIs, NotYet
    <3>2. CASE IsAnswered(r)
      <4>1. PICK a \in Agent, g \in Gen :
              /\ toControl[a][g] # << >>
              /\ Answers(r, Head(toControl[a][g]), a) /\ Head(toControl[a][g]).ok
        BY <3>2 DEF IsAnswered
      <4>2. PICK m : m = Head(toControl[a][g])
        OBVIOUS
      <4>3. MessageIs(m)
        BY <1>1, <4>1, <4>2, HeadTravels, TravelsIs DEF EndpointInv
      <4>4. op[r].next <= 4 /\ op[r].pc = "wait" /\ op'[r].next = op[r].next + 1
        BY <2>1, <3>2, <4>1 DEF IsAnswered, Answers, EndpointInv, StartsArePlanned,
           PlanIsStart
      <4>5. ~NotYet(r, "prepare", o)
        BY <1>2, <2>1, <4>4 DEF NotYet
      <4>6. CASE op[r].next = At("prepare", o)
        <5>1. m.kind = "ack" /\ m.req = r /\ m.phase = "prepare" /\ m.role = o
          BY <2>1, <4>1, <4>2, <4>6
             DEF Answers, Current, EndpointInv, StartsArePlanned, PlanIsStart, EndpointPhase
        <5> QED
          BY <2>1, <4>3, <4>5, <5>1 DEF MessageIs, EndpointPhase
      <4>7. CASE op[r].next # At("prepare", o)
        BY <1>2, <2>1, <2>2, <4>4, <4>5, <4>7 DEF ProgressIs
      <4> QED
        BY <4>6, <4>7
    <3> QED
      BY <1>1, <1>4, <2>1, <3>1, <3>2 DEF Moves, Stays, IsOver, Waits, Busy, InProgress
  <2>4. op'[r].next > At("start", o) => job[r][o].state # "none"
    <3> SUFFICES ASSUME op'[r].next > At("start", o) PROVE job[r][o].state # "none"
      OBVIOUS
    <3>1. CASE op'[r].next = op[r].next
      BY <2>2, <3>1 DEF ProgressIs
    <3>2. CASE IsAnswered(r)
      <4>1. PICK a \in Agent, g \in Gen :
              /\ toControl[a][g] # << >>
              /\ Answers(r, Head(toControl[a][g]), a) /\ Head(toControl[a][g]).ok
        BY <3>2 DEF IsAnswered
      <4>2. PICK m : m = Head(toControl[a][g])
        OBVIOUS
      <4>3. MessageIs(m)
        BY <1>1, <4>1, <4>2, HeadTravels, TravelsIs DEF EndpointInv
      <4>4. op'[r].next = op[r].next + 1
        BY <3>2 DEF IsAnswered
      <4>6. CASE op[r].next = At("start", o)
        <5>1. m.kind = "ack" /\ m.req = r /\ m.phase = "start" /\ m.role = o /\ m.ok
          BY <2>1, <4>1, <4>2, <4>6
             DEF Answers, Current, EndpointInv, StartsArePlanned, PlanIsStart, EndpointPhase
        <5> QED
          BY <4>3, <5>1 DEF MessageIs, EndpointPhase
      <4>7. CASE op[r].next # At("start", o)
        BY <1>2, <2>1, <2>2, <4>4, <4>7 DEF ProgressIs
      <4> QED
        BY <4>6, <4>7
    <3> QED
      BY <1>1, <1>4, <2>1, <3>1, <3>2 DEF Moves, Stays, IsOver, Waits, Busy, InProgress
  <2> QED
    BY <1>1, <2>3, <2>4, IsPreparedStays DEF ProgressIs, JobsKeep
<1> QED
  BY <1>3, <1>4 DEF Run

-----------------------------------------------------------------------------
(* ActiveIsStarted                                                             *)

(* The steps that write the memory of the active run, and those that write     *)
(* rows.                                                                       *)
LEMMA SlotWriters ==
  ASSUME [Next]_vars
  PROVE  \/ UNCHANGED <<activeRun, tracked, completed>>
         \/ \E q \in StartReq : StartSucceeds(q)
         \/ \E q \in StopReq : StopClears(q)
         \/ \E a \in Agent, g \in Gen : CountCompletion(a, g) \/ FinishClears(a, g)
         \/ ControlRestart
<1>1. CASE RequestStep
  <2>1. ASSUME NEW q \in Req,
               \/ StartFails(q) \/ StopFinishes(q) \/ PauseSucceeds(q) \/ PauseFails(q)
               \/ MakePlan(q) \/ SendCommand(q) \/ CommandTimeout(q) \/ RequestDropped(q)
               \/ \E r \in Run, goal \in Status : Check(q, r, goal)
        PROVE  UNCHANGED <<activeRun, tracked, completed>>
    BY <2>1 DEF StartFails, Check, MakePlan, StopFinishes, PauseSucceeds, PauseFails,
       SendCommand, CommandTimeout, RequestDropped
  <2>2. ASSUME NEW q \in StartReq, StartBegin(q)
        PROVE  UNCHANGED <<activeRun, tracked, completed>>
    BY <2>2 DEF StartBegin
  <2> QED
    BY <1>1, <2>1, <2>2 DEF RequestStep, StopBegin, PauseBegin, Req, Status, LiveStatus,
       EndStatus
<1>2. CASE SessionStep
  <2>1. ASSUME NEW a \in Agent, NEW g \in Gen,
               \/ ReceiveAck(a, g) \/ ReceiveError(a, g) \/ ReceiveCompleted(a, g)
               \/ FinishWrites(a, g) \/ StreamEnds(a, g) \/ CheckParticipant(a, g)
               \/ WriteDegraded(a, g) \/ GraceExpires(a, g)
        PROVE  UNCHANGED <<activeRun, tracked, completed>>
    BY <2>1 DEF ReceiveAck, ReceiveError, ReceiveCompleted, FinishWrites, StreamEnds,
       CheckParticipant, WriteDegraded, GraceExpires
  <2> QED
    BY <1>2, <2>1 DEF SessionStep
<1>3. CASE AgentStep
  BY <1>3 DEF AgentStep, Connect, Disconnect, AgentCrash, AgentPrepare, AgentStart,
     AgentStop, AgentSetPaused, controlVars
<1>4. CASE JobStep
  BY <1>4 DEF JobStep, JobElapses, JobReports, JobFails, controlVars
<1>5. CASE UNCHANGED vars
  BY <1>5 DEF vars, controlVars
<1> QED
  BY <1>1, <1>2, <1>3, <1>4, <1>5 DEF Next

LEMMA RowWriters ==
  ASSUME [Next]_vars
  PROVE  \/ UNCHANGED <<status, finished>>
         \/ \E q \in StartReq : StartBegin(q) \/ StartSucceeds(q) \/ StartFails(q)
                                  \/ RequestDropped(q)
         \/ \E q \in StopReq : StopFinishes(q)
         \/ \E q \in PauseReq : PauseSucceeds(q)
         \/ \E a \in Agent, g \in Gen : FinishWrites(a, g) \/ WriteDegraded(a, g)
         \/ ControlRestart
<1>1. CASE RequestStep
  <2>1. ASSUME NEW q \in Req,
               \/ StopClears(q) \/ PauseFails(q) \/ MakePlan(q) \/ SendCommand(q)
               \/ CommandTimeout(q) \/ (q \notin StartReq /\ RequestDropped(q))
               \/ \E r \in Run, goal \in Status : Check(q, r, goal)
        PROVE  UNCHANGED <<status, finished>>
    BY <2>1 DEF Check, MakePlan, StopClears, PauseFails, SendCommand, CommandTimeout,
       RequestDropped, dbVars
  <2> QED
    BY <1>1, <2>1 DEF RequestStep, StopBegin, PauseBegin, Req, Status, LiveStatus,
       EndStatus
<1>2. CASE SessionStep
  <2>1. ASSUME NEW a \in Agent, NEW g \in Gen,
               \/ ReceiveAck(a, g) \/ ReceiveError(a, g) \/ ReceiveCompleted(a, g)
               \/ CountCompletion(a, g) \/ FinishClears(a, g) \/ StreamEnds(a, g)
               \/ CheckParticipant(a, g) \/ GraceExpires(a, g)
        PROVE  UNCHANGED <<status, finished>>
    BY <2>1 DEF ReceiveAck, ReceiveError, ReceiveCompleted, CountCompletion, FinishClears,
       StreamEnds, CheckParticipant, GraceExpires, dbVars
  <2> QED
    BY <1>2, <2>1 DEF SessionStep
<1>3. CASE AgentStep
  BY <1>3 DEF AgentStep, Connect, Disconnect, AgentCrash, AgentPrepare, AgentStart,
     AgentStop, AgentSetPaused, dbVars
<1>4. CASE JobStep
  BY <1>4 DEF JobStep, JobElapses, JobReports, JobFails, dbVars
<1>5. CASE UNCHANGED vars
  BY <1>5 DEF vars, dbVars
<1> QED
  BY <1>1, <1>2, <1>3, <1>4, <1>5 DEF Next

(* start_run registers a run both of whose endpoints started.                  *)
LEMMA StartSucceedsIs ==
  ASSUME EndpointInv, NEW q \in StartReq, StartSucceeds(q)
  PROVE  /\ q \in Run /\ Started(q) /\ Busy(q) /\ activeRun = None /\ op[q].pc = "send"
         /\ activeRun' = q /\ tracked' = tracked \cup {q}
         /\ op'[q] = DoneOp /\ Others(q)
<1>1. TypeOK /\ q \in Run /\ q \in Req
  BY DEF EndpointInv, IInv, Run, Req
<1>2. op[q].pc = "send" /\ Busy(q) /\ op[q].next = Len(op[q].plan) + 1
  BY DEF StartSucceeds, AtEnd, Busy, InProgress
<1>3. Len(op[q].plan) = 4
  BY <1>1, <1>2 DEF EndpointInv, StartsArePlanned, PlanIsStart
<1>4. op[q].next = 5
  BY <1>2, <1>3
<1>5. \A o \in Role : op[q].next > At("start", o)
  BY <1>4, Ats
<1>6. Started(q)
  BY <1>1, <1>2, <1>5 DEF Started, EndpointInv, StartsProgress, ProgressIs
<1>7. activeRun = None
  BY <1>1, <1>2, BusyIsUnique
<1>8. op'[q] = DoneOp /\ Others(q)
  BY <1>1, RequestIs DEF StartSucceeds
<1> QED
  BY <1>1, <1>2, <1>6, <1>7, <1>8 DEF StartSucceeds

LEMMA LateRequest ==
  ASSUME EndpointInv, NEW q \in StopReq \cup PauseReq, op[q].pc \notin {"idle", "done", "dropped"}
  PROVE  op[q].run \in Run /\ (activeRun = op[q].run \/ op[q].run \in finished)
BY DEF EndpointInv, IInv, Bookkeeping, RequestsAreLate, RequestIsLate, Late

LEMMA LateTask ==
  ASSUME EndpointInv, NEW a \in Agent, NEW g \in Gen,
         task[a][g].pc \in {"complete", "db", "clear", "degrade", "sleep"}
  PROVE  task[a][g].run \in Run /\ (activeRun = task[a][g].run \/ task[a][g].run \in finished)
BY DEF EndpointInv, IInv, Bookkeeping, SessionsAreLate, TaskIsLate, Late

LEMMA ActiveStep ==
  ASSUME EndpointInv, [Next]_vars PROVE ActiveIsStarted'
<1>1. TypeOK /\ JobsKeep /\ ActiveIsStarted /\ \A r \in Run : BegunStays(r)
  BY JobsKeepStep, StartsStay DEF EndpointInv, IInv
<1>2. \A r \in Run : Started(r) => Started(r)'
  BY <1>1 DEF JobsKeep, Started
<1>3. ASSUME NEW r \in Run PROVE r \in tracked' <=> activeRun' = r
  <2>1. ASSUME NEW x \in Run, ReleaseRun(x) PROVE r \in tracked' <=> activeRun' = r
    BY <1>1, <2>1, RunIsNotNone DEF ReleaseRun, ActiveIsStarted
  <2>2. ASSUME NEW q \in StopReq, StopClears(q) PROVE r \in tracked' <=> activeRun' = r
    <3>1. op[q].run \in Run /\ ReleaseRun(op[q].run)
      BY <2>2, LateRequest DEF StopClears
    <3> QED
      BY <2>1, <3>1
  <2>3. ASSUME NEW a \in Agent, NEW g \in Gen, FinishClears(a, g)
        PROVE  r \in tracked' <=> activeRun' = r
    <3>1. task[a][g].run \in Run /\ ReleaseRun(task[a][g].run)
      BY <2>3, LateTask DEF FinishClears
    <3> QED
      BY <2>1, <3>1
  <2>4. ASSUME NEW q \in StartReq, StartSucceeds(q) PROVE r \in tracked' <=> activeRun' = r
    BY <1>1, <2>4, StartSucceedsIs, RunIsNotNone DEF ActiveIsStarted
  <2>5. CASE ControlRestart
    BY <2>5, RunIsNotNone DEF ControlRestart
  <2>6. CASE UNCHANGED <<activeRun, tracked>>
    BY <1>1, <2>6 DEF ActiveIsStarted
  <2> QED
    BY <2>2, <2>3, <2>4, <2>5, <2>6, SlotWriters DEF CountCompletion
<1>4. ASSUME NEW r \in Run, activeRun' = r PROVE Started(r)'
  <2>1. activeRun = r \/ \E q \in StartReq : StartSucceeds(q)
    BY <1>4, SlotWriters, RunIsNotNone
       DEF StopClears, FinishClears, CountCompletion, ReleaseRun, ControlRestart
  <2> QED
    BY <1>1, <1>2, <1>4, <2>1, StartSucceedsIs DEF ActiveIsStarted
<1>5. ASSUME NEW r \in Run, Busy(r)' PROVE r \notin finished'
  <2>1. CASE r \in StartReq /\ StartBegin(r)
    <3>1. finished' = finished /\ status[r] = "none"
      BY <1>5, <2>1 DEF StartBegin, EndpointInv, IInv, Bookkeeping, Starting
    <3> QED
      BY <3>1 DEF EndpointInv, IInv, Bookkeeping, Recorded
  <2>2. CASE ~StartBegin(r)
    <3>1. Busy(r) /\ op[r].pc # "idle"
      BY <1>1, <1>5, <2>2, StartsMove DEF EndpointInv, Moves, Stays, IsOver, Waits,
         IsAnswered, Busy, InProgress, Run
    <3>2. r \notin finished /\ activeRun = None /\ startLock = r
      BY <1>1, <3>1, BusyIsUnique DEF ActiveIsStarted
    <3>3. ASSUME NEW q \in StartReq, StartFails(q) PROVE r \notin finished'
      <4>1. op'[q] = DoneOp
        BY <1>1, <3>3, RequestIs DEF StartFails, Req
      <4>2. q # r
        BY <1>5, <4>1 DEF Busy, InProgress, DoneOp, NoOp
      <4> QED
        BY <3>2, <3>3, <4>2 DEF StartFails, WriteEnd
    <3>4. ASSUME NEW q \in StopReq, StopFinishes(q) PROVE r \notin finished'
      <4>1. op[q].run # r
        BY <3>2, <3>4, LateRequest, RunIsNotNone DEF StopFinishes, AtEnd
      <4> QED
        BY <3>2, <3>4, <4>1 DEF StopFinishes, WriteEnd
    <3>5. ASSUME NEW a \in Agent, NEW g \in Gen, FinishWrites(a, g) PROVE r \notin finished'
      <4>1. task[a][g].run # r
        BY <3>2, <3>5, LateTask, RunIsNotNone DEF FinishWrites
      <4> QED
        BY <3>2, <3>5, <4>1 DEF FinishWrites, WriteEnd
    <3>6. ASSUME ControlRestart PROVE FALSE
      <4>1. op'[r] = IF op[r].pc = "idle" THEN NoOp ELSE DoneOp
        BY <3>6 DEF ControlRestart, Run, Req
      <4> QED
        BY <1>5, <4>1 DEF Busy, InProgress, NoOp, DoneOp
    <3>7. ASSUME \/ \E q \in StartReq : StartBegin(q) \/ StartSucceeds(q) \/ RequestDropped(q)
                 \/ \E q \in PauseReq : PauseSucceeds(q)
                 \/ \E a \in Agent, g \in Gen : WriteDegraded(a, g)
          PROVE  finished' = finished
      BY <3>7 DEF StartBegin, StartSucceeds, RequestDropped, PauseSucceeds, WriteDegraded
    <3> QED
      BY <3>2, <3>3, <3>4, <3>5, <3>6, <3>7, RowWriters
  <2> QED
    BY <2>1, <2>2 DEF Run
<1> QED
  BY <1>3, <1>4, <1>5 DEF ActiveIsStarted

-----------------------------------------------------------------------------
(* ReportsAreTrue                                                              *)

(* How a session task gets to count a report or to end a run.                  *)
Counts(t) ==
  /\ t.pc = "complete"
  /\ \E m : Travels(m) /\ m.kind = "run_completed" /\ t.run = m.run /\ t.role = m.role

EndsCompleted(t) ==
  /\ t.pc = "db" /\ t.verdict = "completed" /\ t.run \in tracked /\ Reported(t.run)
  /\ UNCHANGED <<toAgent, op>>

EndsFailed(t) ==
  /\ t.pc = "db" /\ t.verdict = "failed" /\ t.run \in Run /\ activeRun = t.run
  /\ SendStops(Reachable, t.run) /\ UNCHANGED <<op, conn, place, job>>

TaskMoves(t, u) ==
  u = t \/ u.pc \notin {"complete", "db"} \/ Counts(u) \/ EndsCompleted(u) \/ EndsFailed(u)

LEMMA OneTaskMoves ==
  ASSUME TypeOK, NEW a \in Agent, NEW g \in Gen, NEW x, Step(a, g, x),
         TaskMoves(task[a][g], x)
  PROVE  \A b \in Agent, h \in Gen : TaskMoves(task[b][h], task'[b][h])
<1>1. \A b \in Agent, h \in Gen :
        task'[b][h] = IF b = a /\ h = g THEN x ELSE task[b][h]
  BY DEF TypeOK, Step
<1> QED
  BY <1>1 DEF TaskMoves

LEMMA NoTaskMoves ==
  ASSUME UNCHANGED task
  PROVE  \A b \in Agent, h \in Gen : TaskMoves(task[b][h], task'[b][h])
BY DEF TaskMoves

LEMMA IncomingTravels ==
  ASSUME TypeOK, NEW a \in Agent, NEW g \in Gen, NEW kind, Incoming(a, g, kind)
  PROVE  LET m == Head(toControl[a][g]) IN
         /\ Travels(m) /\ m.kind = kind /\ m \in Ack \cup Event
         /\ kind # "ack" => m.run \in Run /\ m.role \in Role
<1>1. toControl[a][g] # << >> /\ Head(toControl[a][g]).kind = kind
  BY DEF Incoming
<1>2. Travels(Head(toControl[a][g]))
  BY <1>1, HeadTravels
<1>3. Head(toControl[a][g]) \in Ack \cup Event
  BY <1>2, TravelsTyped
<1>4. kind # "ack" => /\ Head(toControl[a][g]).run \in Run
                      /\ Head(toControl[a][g]).role \in Role
  BY <1>1, <1>3 DEF Ack, Event
<1> QED
  BY <1>1, <1>2, <1>3, <1>4

LEMMA CountedIsReported ==
  ASSUME EndpointInv, NEW a \in Agent, NEW g \in Gen, CountCompletion(a, g)
  PROVE  LET t == task[a][g]
             reported == completed[t.run] \cup {<<a, t.role>>}
         IN /\ t.run \in Run /\ t.role \in Role
            /\ \A x \in reported : job[t.run][x[2]].state = "reported"
            /\ Expected(t.run) \subseteq reported => Reported(t.run)
<1> DEFINE t == task[a][g]
           reported == completed[t.run] \cup {<<a, t.role>>}
<1>1. t.pc = "complete" /\ t.run \in Run /\ t.role \in Role
  BY DEF CountCompletion, EndpointInv, IInv, Bookkeeping, SessionsAreLate, TaskIsLate, Late
<1>2. TaskIsTrue(t) /\ \A x \in completed[t.run] : job[t.run][x[2]].state = "reported"
  BY <1>1 DEF EndpointInv, ReportsAreTrue
<1>3. \A x \in reported : job[t.run][x[2]].state = "reported"
  BY <1>1, <1>2 DEF TaskIsTrue
<1>4. ASSUME Expected(t.run) \subseteq reported, NEW o \in Role
      PROVE  job[t.run][o].state = "reported"
  <2>1. <<place[t.run][o], o>> \in reported
    BY <1>4 DEF Expected
  <2>2. <<place[t.run][o], o>>[2] = o
    OBVIOUS
  <2> HIDE DEF reported
  <2> QED
    BY <1>3, <2>1, <2>2
<1> QED
  BY <1>1, <1>3, <1>4 DEF Reported

LEMMA TasksMove ==
  ASSUME EndpointInv, [Next]_vars
  PROVE  \A a \in Agent, g \in Gen : TaskMoves(task[a][g], task'[a][g])
<1>1. TypeOK
  BY DEF EndpointInv, IInv
<1>2. ASSUME UNCHANGED task
      PROVE  \A a \in Agent, g \in Gen : TaskMoves(task[a][g], task'[a][g])
  BY <1>2, NoTaskMoves
<1>3. ASSUME NEW a \in Agent, NEW g \in Gen, ReceiveAck(a, g) \/ SessionOnly(a, g)
      PROVE  UNCHANGED task \/ \E x : Step(a, g, x) /\ TaskMoves(task[a][g], x)
  <2> DEFINE t == task[a][g]
  <2>2. CASE ReceiveAck(a, g)
    BY <2>2 DEF ReceiveAck
  <2>3. CASE ReceiveError(a, g)
    <3> DEFINE r == Head(toControl[a][g]).run
               x == [Reading EXCEPT !.pc = "db", !.run = r, !.verdict = "failed"]
    <3>1. r \in Run
      BY <1>1, <2>3, IncomingTravels DEF ReceiveError
    <3>2. x.pc = "db" /\ x.verdict = "failed" /\ x.run = r
      BY DEF Reading, NoTask
    <3>3. UNCHANGED task \/ (activeRun = r /\ SendStops(Reachable, r) /\ Step(a, g, x))
      BY <2>3 DEF ReceiveError
    <3>4. UNCHANGED <<op, conn, place, job>>
      BY <2>3 DEF ReceiveError, agentVars
    <3> HIDE DEF x, r
    <3> QED
      BY <3>1, <3>2, <3>3, <3>4 DEF TaskMoves, EndsFailed
  <2>4. CASE ReceiveCompleted(a, g)
    <3> DEFINE m == Head(toControl[a][g])
               x == [Reading EXCEPT !.pc = "complete", !.run = m.run, !.role = m.role]
    <3>1. Travels(m) /\ m.kind = "run_completed"
      BY <1>1, <2>4, IncomingTravels DEF ReceiveCompleted
    <3>2. x.pc = "complete" /\ x.run = m.run /\ x.role = m.role
      BY DEF Reading, NoTask
    <3>3. UNCHANGED task \/ Step(a, g, x)
      BY <2>4 DEF ReceiveCompleted
    <3> HIDE DEF x, m
    <3> QED
      BY <3>1, <3>2, <3>3 DEF TaskMoves, Counts
  <2>5. CASE CountCompletion(a, g)
    <3> DEFINE x == [t EXCEPT !.pc = "db", !.verdict = "completed"]
    <3>1. Reading.pc = "read"
      BY DEF Reading, NoTask
    <3>2. x.pc = "db" /\ x.verdict = "completed" /\ x.run = t.run
      BY <1>1 DEF TypeOK, SessionTask
    <3>3. UNCHANGED <<toAgent, op>>
      BY <2>5 DEF CountCompletion, wireVars
    <3>4. \/ /\ t.run \in tracked /\ Expected(t.run) \subseteq completed[t.run] \cup {<<a, t.role>>}
             /\ Step(a, g, x)
          \/ Step(a, g, Reading)
      BY <2>5 DEF CountCompletion
    <3>5. Expected(t.run) \subseteq completed[t.run] \cup {<<a, t.role>>} => Reported(t.run)
      BY <2>5, CountedIsReported
    <3> HIDE DEF x, t
    <3>6. CASE Step(a, g, Reading)
      BY <3>1, <3>6 DEF TaskMoves, t
    <3>7. CASE /\ t.run \in tracked /\ Step(a, g, x)
               /\ Expected(t.run) \subseteq completed[t.run] \cup {<<a, t.role>>}
      <4>1. EndsCompleted(x)
        BY <3>2, <3>3, <3>5, <3>7 DEF EndsCompleted
      <4> QED
        BY <3>7, <4>1 DEF TaskMoves
    <3> QED
      BY <3>4, <3>6, <3>7
  <2>6. CASE FinishWrites(a, g) \/ WriteDegraded(a, g)
    <3>1. [t EXCEPT !.pc = "clear"].pc = "clear" /\ [t EXCEPT !.pc = "sleep"].pc = "sleep"
      BY <1>1 DEF TypeOK, SessionTask
    <3> QED
      BY <2>6, <3>1 DEF FinishWrites, WriteDegraded, TaskMoves
  <2>7. CASE FinishClears(a, g) \/ StreamEnds(a, g) \/ CheckParticipant(a, g)
    <3>1. /\ Reading.pc = "read" /\ Ended.pc = "ended"
          /\ [Ended EXCEPT !.pc = "lost"].pc = "lost"
          /\ \A r : [Ended EXCEPT !.pc = "degrade", !.run = r].pc = "degrade"
      BY DEF Reading, Ended, NoTask
    <3>2. \E x : Step(a, g, x) /\ x.pc \in {"read", "ended", "lost", "degrade"}
      BY <2>7, <3>1 DEF FinishClears, StreamEnds, CheckParticipant
    <3> QED
      BY <3>2 DEF TaskMoves
  <2>8. CASE GraceExpires(a, g)
    <3> DEFINE x == [t EXCEPT !.pc = "db", !.verdict = "failed"]
    <3>1. Ended.pc = "ended"
      BY DEF Ended, NoTask
    <3>2. x.pc = "db" /\ x.verdict = "failed" /\ x.run = t.run
      BY <1>1 DEF TypeOK, SessionTask
    <3>3. t.run \in Run
      BY <2>8, LateTask DEF GraceExpires
    <3>4. \/ activeRun = t.run /\ SendStops(Reachable, t.run) /\ Step(a, g, x)
          \/ Step(a, g, Ended)
      BY <2>8 DEF GraceExpires
    <3>5. UNCHANGED <<op, conn, place, job>>
      BY <2>8 DEF GraceExpires, agentVars
    <3> HIDE DEF x
    <3> QED
      BY <3>1, <3>2, <3>3, <3>4, <3>5 DEF TaskMoves, EndsFailed
  <2> QED
    BY <1>3, <2>2, <2>3, <2>4, <2>5, <2>6, <2>7, <2>8 DEF SessionOnly
<1>4. CASE SessionStep
  <2>1. PICK a \in Agent, g \in Gen : ReceiveAck(a, g) \/ SessionOnly(a, g)
    BY <1>4, SessionSteps
  <2> QED
    BY <1>1, <1>2, <1>3, <2>1, OneTaskMoves
<1>5. CASE RequestStep
  <2>1. UNCHANGED task
    BY <1>1, <1>5, RequestIsControlOnly, SendCommandIs
       DEF RequestStep, StopBegin, PauseBegin, Req, Status, LiveStatus, EndStatus
  <2> QED
    BY <1>2, <2>1
<1>6. ASSUME NEW a \in Agent, Connect(a)
      PROVE  \A b \in Agent, h \in Gen : TaskMoves(task[b][h], task'[b][h])
  <2>1. Reading.pc = "read"
    BY DEF Reading, NoTask
  <2> QED
    BY <1>1, <1>6, <2>1, ConnectIs DEF TaskMoves
<1>7. ASSUME NEW a \in Agent,
             \/ Disconnect(a) \/ AgentCrash(a) \/ AgentPrepare(a) \/ AgentStart(a)
             \/ AgentStop(a) \/ AgentSetPaused(a)
      PROVE  UNCHANGED task
  BY <1>7 DEF Disconnect, AgentCrash, AgentPrepare, AgentStart, AgentStop,
     AgentSetPaused, controlVars
<1>8. CASE JobStep \/ UNCHANGED vars
  BY <1>2, <1>8 DEF JobStep, JobElapses, JobReports, JobFails, vars, controlVars
<1>9. CASE ControlRestart
  BY <1>9 DEF ControlRestart, TaskMoves, NoTask, Ended
<1> QED
  BY <1>2, <1>4, <1>5, <1>6, <1>7, <1>8, <1>9 DEF Next, AgentStep

LEMMA ReportedStays ==
  ASSUME EndpointInv, [Next]_vars, NEW r \in Run, Reported(r) PROVE Reported(r)'
BY JobsKeepStep DEF JobsKeep, Reported

LEMMA TaskStaysTrue ==
  ASSUME EndpointInv, [Next]_vars, NEW a \in Agent, NEW g \in Gen,
         NEW t, t = task'[a][g]
  PROVE  TaskIsTrue(t)'
<1>1. JobsKeep /\ TaskMoves(task[a][g], t)
  BY JobsKeepStep, TasksMove
<1>2. CASE t = task[a][g]
  <2>1. TaskIsTrue(t)
    BY <1>2 DEF EndpointInv, ReportsAreTrue
  <2>2. t.pc \in {"complete", "db"} => t.run \in Run /\ (t.pc = "complete" => t.role \in Role)
    BY <1>2 DEF EndpointInv, IInv, Bookkeeping, SessionsAreLate, TaskIsLate, Late
  <2> QED
    BY <1>1, <2>1, <2>2, ReportedStays DEF TaskIsTrue, JobsKeep
<1>3. CASE t.pc \notin {"complete", "db"}
  BY <1>3 DEF TaskIsTrue
<1>4. CASE Counts(t)
  <2>1. PICK m : Travels(m) /\ m.kind = "run_completed" /\ t.run = m.run /\ t.role = m.role
    BY <1>4 DEF Counts
  <2>2. MessageIs(m) /\ m \in Ack \cup Event
    BY <2>1, TravelsIs, TravelsTyped DEF EndpointInv, IInv
  <2>3. m.run \in Run /\ m.role \in Role
    BY <2>1, <2>2 DEF Ack, Event
  <2>4. job[m.run][m.role].state = "reported"
    BY <2>1, <2>2 DEF MessageIs
  <2> QED
    BY <1>1, <1>4, <2>1, <2>3, <2>4 DEF TaskIsTrue, JobsKeep, Counts
<1>5. CASE EndsCompleted(t)
  <2>1. t.run \in Run
    BY <1>5 DEF EndsCompleted, EndpointInv, IInv, TypeOK
  <2> QED
    BY <1>5, <2>1, ReportedStays DEF EndsCompleted, TaskIsTrue
<1>6. CASE EndsFailed(t)
  BY <1>6 DEF EndsFailed, TaskIsTrue
<1> QED
  BY <1>1, <1>2, <1>3, <1>4, <1>5, <1>6 DEF TaskMoves

LEMMA CompletedIsWritten ==
  ASSUME EndpointInv, [Next]_vars, NEW r \in Run, status'[r] = "completed"
  PROVE  \/ status[r] = "completed"
         \/ \E a \in Agent, g \in Gen :
              /\ task[a][g].pc = "db" /\ task[a][g].run = r
              /\ task[a][g].verdict = "completed"
<1>1. TypeOK
  BY DEF EndpointInv, IInv
<1>2. ASSUME NEW x, NEW s, status' = [status EXCEPT ![x] = s], s # "completed"
      PROVE  status[r] = "completed"
  BY <1>1, <1>2 DEF TypeOK
<1>3. ASSUME NEW q \in StartReq, \/ StartBegin(q) \/ StartSucceeds(q) \/ StartFails(q)
                                 \/ RequestDropped(q)
      PROVE  status[r] = "completed"
  BY <1>2, <1>3 DEF StartBegin, StartSucceeds, StartFails, RequestDropped, WriteEnd
<1>4. ASSUME NEW q \in StopReq, StopFinishes(q) PROVE status[r] = "completed"
  BY <1>2, <1>4 DEF StopFinishes, WriteEnd
<1>5. ASSUME NEW q \in PauseReq, PauseSucceeds(q) PROVE status[r] = "completed"
  <2>1. op[q].goal # "completed"
    BY <1>5 DEF PauseSucceeds, AtEnd, EndpointInv, IInv, Bookkeeping, RequestsAreLate,
       RequestIsLate
  <2> QED
    BY <1>2, <1>5, <2>1 DEF PauseSucceeds
<1>6. ASSUME NEW a \in Agent, NEW g \in Gen, WriteDegraded(a, g)
      PROVE  status[r] = "completed"
  BY <1>2, <1>6 DEF WriteDegraded
<1>7. ASSUME NEW a \in Agent, NEW g \in Gen, FinishWrites(a, g), status[r] # "completed"
      PROVE  task[a][g].pc = "db" /\ task[a][g].run = r /\ task[a][g].verdict = "completed"
  BY <1>1, <1>7 DEF FinishWrites, WriteEnd, TypeOK
<1>8. ASSUME ControlRestart PROVE status[r] = "completed"
  BY <1>8 DEF ControlRestart
<1> QED
  BY <1>3, <1>4, <1>5, <1>6, <1>7, <1>8, RowWriters

LEMMA ReportsStep ==
  ASSUME EndpointInv, [Next]_vars PROVE ReportsAreTrue'
<1>1. TypeOK /\ JobsKeep /\ ReportsAreTrue
  BY JobsKeepStep DEF EndpointInv, IInv
<1>2. ASSUME NEW r \in Run, NEW x \in completed'[r] PROVE job'[r][x[2]].state = "reported"
  <2>1. completed[r] \subseteq Agent \X Role
    BY <1>1 DEF TypeOK
  <2>2. CASE x \in completed[r]
    <3>1. x[2] \in Role /\ job[r][x[2]].state = "reported"
      BY <1>1, <2>1, <2>2 DEF ReportsAreTrue
    <3> QED
      BY <1>1, <3>1 DEF JobsKeep
  <2>3. ASSUME NEW a \in Agent, NEW g \in Gen, CountCompletion(a, g)
        PROVE  job'[r][x[2]].state = "reported"
    <3> DEFINE t == task[a][g]
               reported == completed[t.run] \cup {<<a, t.role>>}
    <3>1. completed' = [completed EXCEPT ![t.run] = reported]
      BY <2>3 DEF CountCompletion
    <3>2. /\ t.run \in Run /\ t.role \in Role
          /\ \A y \in reported : job[t.run][y[2]].state = "reported"
      BY <2>3, CountedIsReported
    <3>3. CASE t.run = r
      <4>1. x \in reported
        BY <1>1, <1>2, <3>1, <3>3 DEF TypeOK
      <4>2. x[2] \in Role
        <5>1. CASE x = <<a, t.role>>
          BY <3>2, <5>1
        <5>2. CASE x \in completed[r]
          BY <2>1, <5>2
        <5> QED
          BY <3>3, <4>1, <5>1, <5>2
      <4>3. job[r][x[2]].state = "reported"
        <5> HIDE DEF reported
        <5> QED
          BY <3>2, <3>3, <4>1
      <4> QED
        BY <1>1, <4>2, <4>3 DEF JobsKeep
    <3>4. CASE t.run # r
      <4>1. completed'[r] = completed[r]
        BY <1>1, <3>1, <3>4 DEF TypeOK
      <4> QED
        BY <1>2, <2>2, <4>1
    <3> QED
      BY <3>3, <3>4
  <2>4. ASSUME NEW y, ReleaseRun(y) PROVE x \in completed[r]
    BY <1>1, <1>2, <2>4 DEF ReleaseRun, TypeOK
  <2>5. ASSUME \/ UNCHANGED completed
               \/ \E q \in StartReq : StartSucceeds(q)
               \/ \E q \in StopReq : StopClears(q)
               \/ \E a \in Agent, g \in Gen : FinishClears(a, g)
               \/ ControlRestart
        PROVE  x \in completed[r]
    <3>1. CASE \/ \E q \in StopReq : StopClears(q)
               \/ \E a \in Agent, g \in Gen : FinishClears(a, g)
      BY <2>4, <3>1 DEF StopClears, FinishClears
    <3>2. CASE ControlRestart
      BY <1>2, <3>2 DEF ControlRestart
    <3> QED
      BY <1>2, <2>5, <3>1, <3>2 DEF StartSucceeds
  <2> QED
    BY <2>2, <2>3, <2>5, SlotWriters
<1>3. ASSUME NEW r \in Run, status'[r] = "completed" PROVE Reported(r)'
  <2>1. Reported(r)
    BY <1>1, <1>3, CompletedIsWritten DEF ReportsAreTrue, TaskIsTrue
  <2> QED
    BY <2>1, ReportedStays
<1>4. \A a \in Agent, g \in Gen : \A t : t = task'[a][g] => TaskIsTrue(t)'
  BY TaskStaysTrue
<1> QED
  BY <1>2, <1>3, <1>4 DEF ReportsAreTrue, TaskIsTrue

-----------------------------------------------------------------------------
(* EndsAreStopped                                                              *)

(* What a step keeps of one wire, all but the k commands it took.              *)
Keeps(a, k) ==
  /\ conn'[a] = conn[a]
  /\ \A j \in 1 .. Len(toAgent[a]) : j > k =>
       j - k \in 1 .. Len(toAgent'[a]) /\ toAgent'[a][j - k] = toAgent[a][j]
  /\ \A i \in 1 .. Len(toAgent'[a]) : toAgent'[a][i].phase = "start" =>
       \/ i + k \in 1 .. Len(toAgent[a]) /\ toAgent'[a][i] = toAgent[a][i + k]
       \/ \E q \in StartReq : SendsEndpoint(q, a) /\ toAgent'[a][i].run = q

Handles(a) == AgentPrepare(a) \/ AgentStart(a) \/ AgentStop(a) \/ AgentSetPaused(a)

LEMMA SameWire ==
  ASSUME TypeOK, NEW a \in Agent, conn'[a] = conn[a], toAgent'[a] = toAgent[a]
  PROVE  Keeps(a, 0)
<1>1. Len(toAgent[a]) \in Nat
  BY DEF TypeOK
<1> QED
  BY <1>1 DEF Keeps

LEMMA LongerWire ==
  ASSUME TypeOK, NEW a \in Agent, conn'[a] = conn[a], NEW m,
         toAgent'[a] = Append(toAgent[a], m),
         m.phase = "start" => \E q \in StartReq : SendsEndpoint(q, a) /\ m.run = q
  PROVE  Keeps(a, 0)
<1>1. toAgent[a] \in Seq(Command) /\ Len(toAgent[a]) \in Nat
  BY DEF TypeOK
<1>2. /\ Len(toAgent'[a]) = Len(toAgent[a]) + 1
      /\ \A i \in 1 .. Len(toAgent[a]) : toAgent'[a][i] = toAgent[a][i]
      /\ toAgent'[a][Len(toAgent[a]) + 1] = m
  <2> HIDE DEF Command
  <2> QED
    BY <1>1, AppendParts
<1>3. \A i \in 1 .. Len(toAgent'[a]) : i \in 1 .. Len(toAgent[a]) \/ i = Len(toAgent[a]) + 1
  BY <1>1, <1>2
<1>4. \A i \in 1 .. Len(toAgent[a]) : i \in 1 .. Len(toAgent'[a]) /\ i - 0 = i /\ i + 0 = i
  BY <1>1, <1>2
<1> QED
  BY <1>2, <1>3, <1>4 DEF Keeps

LEMMA TakenWire ==
  ASSUME TypeOK, NEW a \in Agent, NEW phases, Handling(a, phases), NEW ok, Reply(a, ok),
         UNCHANGED conn
  PROVE  Keeps(a, 1) /\ \A b \in Agent \ {a} : Keeps(b, 0)
<1>1. /\ toAgent[a] # << >> /\ toAgent'[a] = Tail(toAgent[a])
      /\ \A b \in Agent \ {a} : toAgent'[b] = toAgent[b]
  BY HandledIs
<1>2. toAgent[a] \in Seq(Command) /\ Len(toAgent[a]) \in Nat
  BY DEF TypeOK
<1> HIDE DEF Command
<1>3. /\ Len(toAgent'[a]) = Len(toAgent[a]) - 1
      /\ \A i \in 1 .. Len(toAgent'[a]) :
           i + 1 \in 1 .. Len(toAgent[a]) /\ toAgent'[a][i] = toAgent[a][i + 1]
  BY <1>1, <1>2, TailParts
<1>4. \A j \in 1 .. Len(toAgent[a]) : j > 1 =>
        j - 1 \in 1 .. Len(toAgent'[a]) /\ (j - 1) + 1 = j
  BY <1>2, <1>3
<1>5. \A j \in 1 .. Len(toAgent[a]) : j > 1 => toAgent'[a][j - 1] = toAgent[a][j]
  <2> SUFFICES ASSUME NEW j \in 1 .. Len(toAgent[a]), j > 1
               PROVE  toAgent'[a][j - 1] = toAgent[a][j]
    OBVIOUS
  <2>1. toAgent'[a][j - 1] = toAgent[a][(j - 1) + 1]
    BY <1>3, <1>4
  <2> QED
    BY <1>4, <2>1
<1> QED
  BY <1>1, <1>3, <1>4, <1>5, SameWire DEF Keeps

LEMMA StopsKeepWires ==
  ASSUME TypeOK, NEW S, NEW r, SendStops(S, r), UNCHANGED conn
  PROVE  \A a \in Agent : Keeps(a, 0)
<1> TAKE a \in Agent
<1>1. \/ toAgent'[a] = toAgent[a]
      \/ toAgent'[a] = Append(toAgent[a], StopCommand(r))
  BY DEF SendStops
<1>2. StopCommand(r).phase # "start"
  BY DEF StopCommand
<1> QED
  BY <1>1, <1>2, SameWire, LongerWire

LEMMA WiresKeep ==
  ASSUME EndpointInv, [Next]_vars, NEW a \in Agent
  PROVE  \/ conn'[a] = 0
         \/ conn[a] = 0 /\ conn'[a] = lastGen[a] + 1 /\ toAgent'[a] = << >>
         \/ Keeps(a, 0)
         \/ Keeps(a, 1) /\ Handles(a)
<1>1. TypeOK
  BY DEF EndpointInv, IInv
<1>2. CASE RequestStep
  <2>1. ASSUME NEW q \in Req, SendCommand(q) PROVE Keeps(a, 0)
    <3>1. UNCHANGED conn
      BY <1>1, <2>1, SendCommandIs
    <3>2. CASE toAgent'[a] = toAgent[a]
      BY <1>1, <3>1, <3>2, SameWire
    <3>3. CASE toAgent'[a] # toAgent[a]
      <4>1. Open(Current(q).agent, Current(q).gen) /\ a = Current(q).agent
        BY <1>1, <2>1, <3>3, SendCommandIs
      <4>2. CASE q \in StartReq
        <5>1. SendsEndpoint(q, a)
          BY <2>1, <4>1 DEF SendsEndpoint
        <5>2. \E m : toAgent'[a] = Append(toAgent[a], m) /\ m.run = q
          BY <4>2, <5>1, SentEndpoint
        <5> QED
          BY <1>1, <3>1, <4>2, <5>1, <5>2, LongerWire
      <4>3. CASE q \in StopReq \cup PauseReq
        <5>1. PICK m : /\ m.phase = Current(q).phase
                       /\ toAgent'[a] = Append(toAgent[a], m)
          <6>1. toAgent'[a] = Append(toAgent[a], [phase |-> Current(q).phase,
                                                  run |-> op[q].run,
                                                  role |-> Current(q).role, req |-> q])
            BY <1>1, <2>1, <4>1, SendCommandIs
          <6> QED
            BY <6>1
        <5>2. m.phase # "start"
          BY <1>1, <2>1, <4>3, <5>1, SendCommandIs
             DEF EndpointInv, PlansSpareEndpoints, Current, RunPhase
        <5> QED
          BY <1>1, <3>1, <5>1, <5>2, LongerWire
      <4> QED
        BY <4>2, <4>3 DEF Req
    <3> QED
      BY <3>2, <3>3
  <2>2. ASSUME NEW q \in StartReq, StartFails(q) PROVE Keeps(a, 0)
    <3>1. UNCHANGED conn /\ (UNCHANGED toAgent \/ \E S : SendStops(S, q))
      BY <2>2 DEF StartFails, agentVars
    <3> QED
      BY <1>1, <3>1, SameWire, StopsKeepWires
  <2>3. ASSUME NEW q \in Req,
               \/ q \in StartReq /\ StartBegin(q)
               \/ StartSucceeds(q) \/ StopFinishes(q) \/ StopClears(q)
               \/ PauseSucceeds(q) \/ PauseFails(q) \/ MakePlan(q)
               \/ CommandTimeout(q) \/ RequestDropped(q)
               \/ \E r \in Run, goal \in Status : Check(q, r, goal)
        PROVE  UNCHANGED <<conn, toAgent>>
    BY <2>3 DEF StartBegin, StartSucceeds, Check, MakePlan, StopFinishes, StopClears,
       PauseSucceeds, PauseFails, CommandTimeout, RequestDropped, wireVars, agentVars
  <2> QED
    BY <1>1, <1>2, <2>1, <2>2, <2>3, SameWire DEF RequestStep, StopBegin, PauseBegin,
       Req, Status, LiveStatus, EndStatus
<1>3. ASSUME NEW b \in Agent, NEW g \in Gen, ReceiveAck(b, g) \/ SessionOnly(b, g)
      PROVE  Keeps(a, 0)
  <2>1. UNCHANGED conn
    BY <1>3, SessionOnlyKeeps, ReceiveAckKeepsAgents
  <2>2. UNCHANGED toAgent \/ \E r : SendStops(Reachable, r)
    <3>1. CASE ReceiveAck(b, g)
      BY <3>1, ReceiveAckKeepsAgents
    <3>2. CASE ReceiveError(b, g) \/ GraceExpires(b, g)
      BY <3>2 DEF ReceiveError, GraceExpires
    <3>3. CASE SessionOnly(b, g) /\ ~(ReceiveError(b, g) \/ GraceExpires(b, g))
      BY <3>3 DEF SessionOnly, ReceiveCompleted, CountCompletion, FinishWrites,
         FinishClears, StreamEnds, CheckParticipant, WriteDegraded, wireVars
    <3> QED
      BY <1>3, <3>1, <3>2, <3>3
  <2> QED
    BY <1>1, <2>1, <2>2, SameWire, StopsKeepWires
<1>4. ASSUME NEW b \in Agent, Connect(b)
      PROVE  \/ Keeps(a, 0)
             \/ conn[a] = 0 /\ conn'[a] = lastGen[a] + 1 /\ toAgent'[a] = << >>
  <2>1. CASE b = a
    BY <1>1, <1>4, <2>1, ConnectIs DEF EndpointInv, Connected
  <2>2. CASE b # a
    BY <1>1, <1>4, <2>2, ConnectIs, SameWire
  <2> QED
    BY <2>1, <2>2
<1>5. ASSUME NEW b \in Agent, Disconnect(b) \/ AgentCrash(b)
      PROVE  conn'[a] = 0 \/ Keeps(a, 0)
  BY <1>1, <1>5, LeaveIs, SameWire
<1>6. ASSUME NEW b \in Agent, Handles(b)
      PROVE  Keeps(a, 0) \/ (Keeps(a, 1) /\ Handles(a))
  <2>1. UNCHANGED conn /\ \E phases, ok : Handling(b, phases) /\ Reply(b, ok)
    BY <1>6 DEF Handles, AgentPrepare, AgentStart, AgentStop, AgentSetPaused
  <2> QED
    BY <1>1, <1>6, <2>1, TakenWire
<1>7. CASE JobStep \/ ControlRestart \/ UNCHANGED vars
  <2>1. UNCHANGED <<toAgent, conn>>
    BY <1>7 DEF JobStep, JobElapses, JobReports, JobFails, ControlRestart, vars,
       wireVars, agentVars
  <2> QED
    BY <1>1, <2>1, SameWire
<1> QED
  BY <1>2, <1>3, <1>4, <1>5, <1>6, <1>7, SessionSteps DEF Next, AgentStep, Handles

(* Control does not start to read a connection again.                          *)
LEMMA LiveStays ==
  ASSUME EndpointInv, [Next]_vars, NEW a \in Agent, Live(a)', conn'[a] = conn[a]
  PROVE  Live(a)
<1>1. TypeOK /\ Connected
  BY DEF EndpointInv, IInv
<1>2. conn[a] \in Gen /\ task'[a][conn[a]].live
  BY <1>1, BoundsAreNatural DEF Live, TypeOK, Gen
<1> SUFFICES task[a][conn[a]].live
  BY <1>2, BoundsAreNatural DEF Live, Gen
<1>3. CASE UNCHANGED task
  BY <1>2, <1>3
<1>4. CASE SessionsFall
  BY <1>2, <1>4 DEF SessionsFall
<1>5. CASE RequestStep
  BY <1>1, <1>3, <1>5, RequestIsControlOnly, SendCommandIs
     DEF RequestStep, StopBegin, PauseBegin, Req, Status, LiveStatus, EndStatus
<1>6. CASE SessionStep
  BY <1>1, <1>3, <1>4, <1>6, SessionSteps, SessionOnlyFalls, ReceiveAckKeepsAgents
<1>7. ASSUME NEW b \in Agent, Connect(b) PROVE task[a][conn[a]].live
  <2>1. b # a
    BY <1>1, <1>2, <1>7, ConnectIs, BoundsAreNatural DEF Gen
  <2> QED
    BY <1>1, <1>2, <1>7, <2>1, ConnectIs
<1>8. CASE JobStep \/ UNCHANGED vars
  BY <1>3, <1>8 DEF JobStep, JobElapses, JobReports, JobFails, vars, controlVars
<1>9. ASSUME NEW b \in Agent, Disconnect(b) \/ AgentCrash(b) \/ Handles(b)
      PROVE  UNCHANGED task
  BY <1>9 DEF Handles, Disconnect, AgentCrash, AgentPrepare, AgentStart, AgentStop,
     AgentSetPaused, controlVars
<1>10. ~ControlRestart
  <2>1. ~NoTask.live /\ ~Ended.live
    BY DEF NoTask, Ended
  <2>2. ControlRestart => task'[a][conn[a]] = NoTask \/ task'[a][conn[a]] = Ended
    BY <1>2 DEF ControlRestart
  <2> QED
    BY <1>2, <2>1, <2>2
<1> QED
  BY <1>3, <1>5, <1>6, <1>7, <1>8, <1>9, <1>10 DEF Next, AgentStep, Handles

(* An endpoint that goes on where Control reads does so on the same connection *)
(* as before; only its Stop takes the Stop off the wire.                       *)
LEMMA GoesStays ==
  ASSUME EndpointInv, [Next]_vars, NEW r \in Run, NEW o \in Role,
         job[r][o].state = "running", Goes(r, o)', NEW a, a = place[r][o]
  PROVE  /\ a \in Agent /\ place'[r][o] = a /\ conn'[a] = conn[a]
         /\ Goes(r, o) /\ Live(a) /\ job[r][o].gen = conn[a]
         /\ Keeps(a, 0) \/ (Keeps(a, 1) /\ Handles(a))
<1>1. op[r].pc # "idle" /\ a \in Agent
  BY StartedIsBegun
<1>2. place'[r] = place[r]
  BY <1>1, StartsStay DEF EndpointInv, BegunStays
<1>3. /\ job'[r][o].gen = job[r][o].gen
      /\ job[r][o].gen \in 1 .. lastGen[a]
  BY JobsKeepStep DEF JobsKeep, EndpointInv, JobsArePlaced, JobIs
<1>4. Live(a)' /\ conn'[a] = job[r][o].gen
  BY <1>1, <1>2, <1>3 DEF Goes, Holds, Live
<1>5. lastGen[a] \in Nat
  BY <1>1 DEF EndpointInv, IInv, TypeOK
<1>6. Keeps(a, 0) \/ (Keeps(a, 1) /\ Handles(a))
  BY <1>1, <1>3, <1>4, <1>5, WiresKeep
<1>7. conn'[a] = conn[a]
  BY <1>6 DEF Keeps
<1>8. Live(a)
  BY <1>1, <1>4, <1>7, LiveStays
<1>9. Goes(r, o)
  BY <1>4, <1>7, <1>8 DEF Goes, Holds, Live
<1> QED
  BY <1>1, <1>2, <1>4, <1>6, <1>7, <1>8, <1>9

LEMMA StopStays ==
  ASSUME EndpointInv, [Next]_vars, NEW r \in Run, NEW o \in Role,
         job[r][o].state = "running", Goes(r, o)', NEW a, a = place[r][o],
         StopComing(a, r)
  PROVE  StopComing(a, r)'
<1>1. /\ a \in Agent /\ Holds(a, r, o) /\ job'[r][o].state = "running"
      /\ Keeps(a, 0) \/ (Keeps(a, 1) /\ Handles(a))
  BY GoesStays DEF Goes
<1>2. PICK j \in 1 .. Len(toAgent[a]) : IsStop(toAgent[a][j], r)
  BY DEF StopComing
<1>3. ASSUME NEW k \in {0, 1}, Keeps(a, k), j > k PROVE StopComing(a, r)'
  BY SMTT(90), <1>2, <1>3 DEF Keeps, StopComing, IsStop
<1>4. CASE Keeps(a, 0)
  BY <1>2, <1>3, <1>4
<1>5. CASE Keeps(a, 1) /\ Handles(a) /\ j > 1
  BY <1>3, <1>5
<1>6. CASE Handles(a) /\ j = 1
  <2>1. TypeOK
    BY DEF EndpointInv, IInv
  <2>2. PICK phases, ok : Handling(a, phases) /\ Reply(a, ok)
    BY <1>6 DEF Handles, AgentPrepare, AgentStart, AgentStop, AgentSetPaused
  <2>3. IsStop(Head(toAgent[a]), r)
    BY <1>1, <1>2, <1>6, <2>1, <2>2, HandledIs
  <2>4. AgentStop(a) /\ Head(toAgent[a]).run = r
    BY <1>6, <2>3 DEF Handles, AgentPrepare, AgentStart, AgentSetPaused, Handling, IsStop
  <2>5. job'[r][o].state # "running"
    BY <1>1, <2>1, <2>4, AgentStopQuiet
  <2> QED
    BY <1>1, <2>5
<1>7. j > 1 \/ j = 1
  BY <1>2
<1> QED
  BY <1>1, <1>4, <1>5, <1>6, <1>7

LEMMA HaltedStays ==
  ASSUME EndpointInv, [Next]_vars, NEW r \in Run, Halted(r),
         op[r].pc \notin InProgress \cup {"idle"}
  PROVE  Halted(r)'
<1>1. TypeOK
  BY DEF EndpointInv, IInv
<1>2. ASSUME NEW o \in Role, Goes(r, o)', NEW a, a = place[r][o]
      PROVE  place'[r][o] = a /\ StopComing(a, r)'
  <2>1. place'[r][o] = a
    BY <1>2, StartsStay DEF EndpointInv, BegunStays
  <2>2. CASE job[r][o].state = "running"
    <3>1. StopComing(a, r)
      BY <1>2, <2>2, GoesStays DEF Halted
    <3> QED
      BY <1>2, <2>1, <2>2, <3>1, StopStays
  <2>3. CASE job[r][o].state # "running"
    <3>1. job'[r][o].state = "running" /\ conn'[a] # 0 /\ Live(a)'
      BY <1>2, <2>1 DEF Goes, Holds, Live
    <3>2. PICK b \in Agent : AgentStart(b)
      BY <1>1, <2>3, <3>1, QuietStep, QuietKeeps
    <3>3. PICK m : m = Head(toAgent[b])
      OBVIOUS
    <3>4. /\ m.phase = "start" /\ m.run \in Run /\ m.role \in Role
          /\ place[m.run][m.role] = b
          /\ \/ UNCHANGED job
             \/ job' = [job EXCEPT ![m.run][m.role] =
                          [state |-> "running", gen |-> conn[b], paused |-> FALSE]]
      BY <1>1, <3>2, <3>3, AgentStartIs DEF EndpointInv
    <3>5. m.run = r /\ m.role = o /\ b = a
      <4>1. job' = [job EXCEPT ![m.run][m.role] =
                      [state |-> "running", gen |-> conn[b], paused |-> FALSE]]
        BY <2>3, <3>1, <3>4
      <4>2. \A x \in Run, p \in Role : x # m.run \/ p # m.role => job'[x][p] = job[x][p]
        BY <1>1, <3>4, <4>1, StartedJob
      <4>3. m.run = r /\ m.role = o
        BY <2>3, <3>1, <4>2
      <4> QED
        BY <1>2, <3>4, <4>3
    <3>6. PICK ok : Handling(a, {"start"}) /\ Reply(a, ok) /\ UNCHANGED conn
      BY <3>2, <3>5 DEF AgentStart
    <3>7. /\ m = toAgent[a][1] /\ 1 \in 1 .. Len(toAgent[a]) /\ Keeps(a, 1)
      BY <1>1, <3>2, <3>3, <3>5, <3>6, HandledIs, TakenWire
    <3>8. Live(a)
      BY <3>1, <3>2, <3>5, <3>6, LiveStays
    <3>9. PICK j \in 1 .. Len(toAgent[a]) : 1 < j /\ IsStop(toAgent[a][j], r)
      BY <3>2, <3>4, <3>5, <3>7, <3>8 DEF Halted, StartIsStopped
    <3>10. j - 1 \in 1 .. Len(toAgent'[a]) /\ toAgent'[a][j - 1] = toAgent[a][j]
      BY <3>7, <3>9 DEF Keeps
    <3> QED
      BY <2>1, <3>9, <3>10 DEF StopComing, IsStop
  <2> QED
    BY <2>2, <2>3
<1>3. ASSUME NEW a \in Agent, Live(a)', NEW i \in 1 .. Len(toAgent'[a]),
             toAgent'[a][i].phase = "start", toAgent'[a][i].run = r
      PROVE  \E j \in 1 .. Len(toAgent'[a]) : i < j /\ IsStop(toAgent'[a][j], r)
  <2>1. conn'[a] # 0 /\ Len(toAgent[a]) \in Nat
    BY <1>1, <1>3 DEF Live, TypeOK
  <2>2. toAgent'[a] # << >>
    BY <1>3
  <2>3. PICK k \in {0, 1} : Keeps(a, k)
    BY <2>1, <2>2, WiresKeep
  <2>4. ~\E q \in StartReq : SendsEndpoint(q, a) /\ toAgent'[a][i].run = q
    <3> SUFFICES ASSUME SendsEndpoint(r, a), r \in StartReq PROVE FALSE
      BY <1>3
    <3>1. Busy(r)
      BY SendIsPlanned DEF SendsEndpoint
    <3> QED
      BY <3>1 DEF Busy
  <2>5. i + k \in 1 .. Len(toAgent[a]) /\ toAgent'[a][i] = toAgent[a][i + k]
    BY <1>3, <2>3, <2>4 DEF Keeps
  <2>6. Live(a)
    BY <1>3, <2>3, LiveStays DEF Keeps
  <2>7. PICK j \in 1 .. Len(toAgent[a]) : i + k < j /\ IsStop(toAgent[a][j], r)
    BY <1>3, <2>5, <2>6 DEF Halted, StartIsStopped
  <2>8. j > k /\ i < j - k
    BY <2>1, <2>7
  <2>9. j - k \in 1 .. Len(toAgent'[a]) /\ toAgent'[a][j - k] = toAgent[a][j]
    BY <2>3, <2>8 DEF Keeps
  <2> QED
    BY <2>7, <2>8, <2>9
<1>4. \A o \in Role : Goes(r, o)' => StopComing(place[r][o], r)' /\ place'[r][o] = place[r][o]
  BY <1>2 DEF StopComing
<1> QED
  BY <1>2, <1>3 DEF Halted, StartIsStopped, IsStop, StopComing

LEMMA PastRun ==
  ASSUME EndpointInv, NEW r \in Run, r \in finished \/ activeRun = r
  PROVE  op[r].pc \notin InProgress \cup {"idle"}
BY RunIsNotNone DEF EndpointInv, IInv, Bookkeeping, Starting, Recorded, ActiveIsStarted,
   Busy

LEMMA StartedHasNoStarts ==
  ASSUME EndpointInv, NEW r \in Run, Started(r), NEW a \in Agent,
         NEW i \in 1 .. Len(toAgent[a])
  PROVE  ~(toAgent[a][i].phase = "start" /\ toAgent[a][i].run = r)
<1> SUFFICES ASSUME toAgent[a][i].phase = "start", toAgent[a][i].run = r PROVE FALSE
  OBVIOUS
<1>1. CommandIs(a, toAgent[a][i]) /\ toAgent[a][i].role \in Role
  BY QueuedIsCommand DEF EndpointInv, IInv, CommandsAreKnown, EndpointPhase
<1> QED
  BY <1>1 DEF CommandIs, EndpointPhase, Started

(* The Stops Control sends to every endpoint that goes on come behind every    *)
(* start.                                                                      *)
LEMMA StopIsSent ==
  ASSUME TypeOK, NEW S, NEW r, SendStops(S, r), NEW a \in Agent, a \in S
  PROVE  /\ StopComing(a, r)'
         /\ \A i \in 1 .. Len(toAgent'[a]) : toAgent'[a][i].phase = "start" =>
              \E j \in 1 .. Len(toAgent'[a]) : i < j /\ IsStop(toAgent'[a][j], r)
<1>1. toAgent[a] \in Seq(Command) /\ Len(toAgent[a]) \in Nat
  BY DEF TypeOK
<1>2. toAgent'[a] = Append(toAgent[a], StopCommand(r))
  BY DEF SendStops
<1>3. PICK m : m = StopCommand(r)
  OBVIOUS
<1>4. m.phase = "stop" /\ m.run = r
  BY <1>3 DEF StopCommand
<1>5. /\ Len(toAgent'[a]) = Len(toAgent[a]) + 1
      /\ \A i \in 1 .. Len(toAgent[a]) : toAgent'[a][i] = toAgent[a][i]
      /\ toAgent'[a][Len(toAgent[a]) + 1] = m
  <2> HIDE DEF Command
  <2> QED
    BY <1>1, <1>2, <1>3, AppendParts
<1>6. Len(toAgent[a]) + 1 \in 1 .. Len(toAgent'[a])
  BY <1>1, <1>5
<1>7. StopComing(a, r)'
  BY <1>4, <1>5, <1>6 DEF StopComing, IsStop
<1>8. ASSUME NEW i \in 1 .. Len(toAgent'[a]), toAgent'[a][i].phase = "start"
      PROVE  i < Len(toAgent[a]) + 1
  <2>1. i # Len(toAgent[a]) + 1
    BY <1>4, <1>5, <1>8
  <2> QED
    BY <1>1, <1>5, <2>1
<1> QED
  BY <1>4, <1>5, <1>6, <1>7, <1>8 DEF IsStop

LEMMA HaltedByStops ==
  ASSUME EndpointInv, NEW r \in Run, NEW S, SendStops(S, r),
         UNCHANGED <<conn, place, job>>, \A a \in Agent : Live(a)' => Live(a),
         \A o \in Role : Goes(r, o) => place[r][o] \in Agent \cap S,
         \A a \in Agent \ S : Live(a) => \A i \in 1 .. Len(toAgent[a]) :
           ~(toAgent[a][i].phase = "start" /\ toAgent[a][i].run = r)
  PROVE  Halted(r)'
<1>1. ASSUME NEW o \in Role, Goes(r, o)', NEW a, a = place'[r][o]
      PROVE  StopComing(a, r)'
  <2>1. Goes(r, o)
    <3>1. a = place[r][o] /\ job[r][o].state = "running" /\ Holds(a, r, o) /\ Live(a)'
      BY <1>1 DEF Goes, Holds, Live
    <3>2. a \in Agent
      BY <3>1, StartedIsBegun
    <3> QED
      BY <3>1, <3>2 DEF Goes
  <2>2. a \in Agent \cap S
    BY <1>1, <2>1
  <2> QED
    BY <2>2, StopIsSent DEF EndpointInv, IInv
<1>2. ASSUME NEW a \in Agent, Live(a)', NEW i \in 1 .. Len(toAgent'[a]),
             toAgent'[a][i].phase = "start", toAgent'[a][i].run = r
      PROVE  \E j \in 1 .. Len(toAgent'[a]) : i < j /\ IsStop(toAgent'[a][j], r)
  <2>1. CASE a \in S
    BY <1>2, <2>1, StopIsSent DEF EndpointInv, IInv
  <2>2. CASE a \notin S
    <3>1. toAgent'[a] = toAgent[a] /\ Live(a)
      BY <1>2, <2>2 DEF SendStops
    <3> QED
      BY <1>2, <2>2, <3>1
  <2> QED
    BY <2>1, <2>2
<1> QED
  BY <1>1, <1>2 DEF Halted, StartIsStopped, IsStop, StopComing

(* start_run failed: a prepare, so nothing started, or a start, after which    *)
(* both clones got a Stop.                                                     *)
LEMMA StartFailsHalts ==
  ASSUME EndpointInv, NEW q \in StartReq, StartFails(q) PROVE Halted(q)'
<1>1. /\ TypeOK /\ q \in Run /\ op[q].pc = "error" /\ Busy(q)
      /\ UNCHANGED <<conn, task, place, job>>
  BY DEF StartFails, EndpointInv, IInv, Run, Busy, InProgress, agentVars
<1>2. op[q].next \in 1 .. 4 /\ PlanIsStart(q)
  BY <1>1 DEF EndpointInv, StartsArePlanned, PlanIsStart
<1>3. PICK p \in EndpointPhase, u \in Role :
        Current(q).phase = p /\ op[q].next = At(p, u)
  BY <1>1, <1>2, CurrentIsPlanned
<1>4. CASE p = "prepare"
  <2>1. UNCHANGED toAgent
    BY <1>3, <1>4 DEF StartFails
  <2>2. \A o \in Role : NotYet(q, "start", o)
    BY <1>1, <1>3, <1>4, Ats DEF NotYet
  <2>3. \A o \in Role : job[q][o].state = "none"
    BY <1>1, <2>2 DEF EndpointInv, JobsArePlaced, JobIs
  <2>4. ASSUME NEW a \in Agent, NEW i \in 1 .. Len(toAgent[a]),
               toAgent[a][i].phase = "start", toAgent[a][i].run = q
        PROVE  FALSE
    <3>1. CommandIs(a, toAgent[a][i]) /\ toAgent[a][i].role \in Role
      BY <1>1, <2>4, QueuedIsCommand DEF EndpointInv, CommandsAreKnown, EndpointPhase
    <3> QED
      BY <2>2, <2>4, <3>1 DEF CommandIs, EndpointPhase
  <2>5. \A o \in Role : ~Goes(q, o)'
    BY <1>1, <2>3 DEF Goes
  <2>6. \A a \in Agent : StartIsStopped(a, q)'
    BY <2>1, <2>4 DEF StartIsStopped
  <2> QED
    BY <2>5, <2>6 DEF Halted
<1>5. CASE p = "start"
  <2> DEFINE S == {t.agent : t \in {u2 \in Clones(q) : Open(u2.agent, u2.gen)}}
  <2>1. SendStops(S, q)
    BY <1>3, <1>5 DEF StartFails
  <2>2. ASSUME NEW o \in Role, NEW a \in Agent, a = place[q][o], Live(a),
               conn[a] = Clone(q, o)
        PROVE  a \in S
    <3>1. conn[a] \in Gen /\ Open(a, conn[a])
      BY <1>1, <2>2, BoundsAreNatural DEF Live, Open, Gen, TypeOK
    <3>2. PICK t : t = op[q].plan[At("start", o)]
      OBVIOUS
    <3>3. t.agent = a /\ t.gen = conn[a]
      BY <1>2, <2>2, <3>2 DEF PlanIsStart, EndpointPhase, Clone
    <3>4. t \in Clones(q)
      BY <1>2, <3>2, Ats DEF Clones, PlanIsStart
    <3> QED
      BY <3>1, <3>3, <3>4
  <2>3. ASSUME NEW o \in Role, Goes(q, o) PROVE place[q][o] \in Agent \cap S
    <3>1. job[q][o].state # "none" /\ job[q][o].gen = conn[place[q][o]]
          /\ Live(place[q][o])
      BY <2>3 DEF Goes, Holds
    <3>2. place[q][o] \in Agent
      BY <1>1, <3>1, StartedIsBegun
    <3>3. conn[place[q][o]] = Clone(q, o)
      BY <1>1, <3>1 DEF EndpointInv, JobsArePlaced, JobIs
    <3> QED
      BY <2>2, <3>1, <3>2, <3>3
  <2>4. ASSUME NEW a \in Agent \ S, Live(a), NEW i \in 1 .. Len(toAgent[a]),
               toAgent[a][i].phase = "start", toAgent[a][i].run = q
        PROVE  FALSE
    <3>1. CommandIs(a, toAgent[a][i]) /\ toAgent[a][i].role \in Role
      BY <1>1, <2>4, QueuedIsCommand DEF EndpointInv, CommandsAreKnown, EndpointPhase
    <3>2. place[q][toAgent[a][i].role] = a /\ conn[a] = Clone(q, toAgent[a][i].role)
      BY <1>1, <2>4, <3>1 DEF CommandIs, EndpointPhase
    <3> QED
      BY <2>2, <2>4, <3>1, <3>2
  <2>5. \A a \in Agent : Live(a)' => Live(a)
    BY <1>1 DEF Live
  <2> HIDE DEF S
  <2> QED
    BY <1>1, <2>1, <2>3, <2>4, <2>5, HaltedByStops
<1> QED
  BY <1>3, <1>4, <1>5 DEF EndpointPhase

(* An endpoint error or an expired grace period: both clones are registered,   *)
(* or Control does not read them.                                              *)
LEMMA EndsFailedHalts ==
  ASSUME EndpointInv, [Next]_vars, NEW r \in Run, activeRun = r,
         SendStops(Reachable, r), UNCHANGED <<conn, place, job>>
  PROVE  Halted(r)'
<1>1. Started(r)
  BY DEF EndpointInv, ActiveIsStarted
<1>2. ASSUME NEW o \in Role, Goes(r, o) PROVE place[r][o] \in Agent \cap Reachable
  <2>1. PICK a : a = place[r][o]
    OBVIOUS
  <2>2. a \in Agent /\ Live(a)
    BY <1>2, <2>1, StartedIsBegun DEF Goes
  <2>3. conn[a] \in Gen /\ session[a] = conn[a] /\ task[a][conn[a]].live
    BY <2>2, BoundsAreNatural DEF EndpointInv, IInv, Connected, Live, TypeOK, Gen
  <2>4. a \in Reachable
    BY <2>2, <2>3 DEF Reachable, Open
  <2> QED
    BY <2>1, <2>2, <2>4
<1>3. \A a \in Agent \ Reachable : Live(a) => \A i \in 1 .. Len(toAgent[a]) :
        ~(toAgent[a][i].phase = "start" /\ toAgent[a][i].run = r)
  BY <1>1, StartedHasNoStarts
<1>4. \A a \in Agent : Live(a)' => Live(a)
  BY LiveStays
<1> QED
  BY <1>2, <1>3, <1>4, HaltedByStops

LEMMA FinishedGrows ==
  ASSUME [Next]_vars PROVE finished \subseteq finished'
<1>1. ASSUME NEW r, NEW s, WriteEnd(r, s) PROVE finished \subseteq finished'
  BY <1>1 DEF WriteEnd
<1>2. ASSUME \/ \E q \in StartReq : StartFails(q)
             \/ \E q \in StopReq : StopFinishes(q)
             \/ \E a \in Agent, g \in Gen : FinishWrites(a, g)
      PROVE  finished \subseteq finished'
  BY <1>1, <1>2 DEF StartFails, StopFinishes, FinishWrites
<1>3. ASSUME \/ \E q \in StartReq : StartBegin(q) \/ StartSucceeds(q) \/ RequestDropped(q)
             \/ \E q \in PauseReq : PauseSucceeds(q)
             \/ \E a \in Agent, g \in Gen : WriteDegraded(a, g)
      PROVE  UNCHANGED finished
  BY <1>3 DEF StartBegin, StartSucceeds, RequestDropped, PauseSucceeds, WriteDegraded
<1>4. ControlRestart => finished \subseteq finished'
  BY DEF ControlRestart
<1> QED
  BY <1>2, <1>3, <1>4, RowWriters

(* Only a start makes a job run, and it finds one that never did.              *)
LEMMA RanBefore ==
  ASSUME EndpointInv, [Next]_vars, NEW r \in Run, NEW o \in Role,
         job'[r][o].state = "running", job[r][o].state # "none"
  PROVE  job[r][o].state = "running"
<1>1. TypeOK /\ CommandsAreKnown
  BY DEF EndpointInv, IInv
<1>2. CASE ~\E b \in Agent : AgentStart(b)
  BY <1>1, <1>2, QuietStep, QuietKeeps
<1>3. ASSUME NEW b \in Agent, AgentStart(b) PROVE job[r][o].state = "running"
  <2>1. PICK m : m = Head(toAgent[b])
    OBVIOUS
  <2>2. /\ m.run \in Run /\ m.role \in Role
        /\ \/ UNCHANGED job
           \/ /\ job[m.run][m.role].state = "none"
              /\ job' = [job EXCEPT ![m.run][m.role] =
                           [state |-> "running", gen |-> conn[b], paused |-> FALSE]]
    BY <1>1, <1>3, <2>1, AgentStartIs
  <2>3. m.run = r /\ m.role = o => UNCHANGED job
    BY <2>2
  <2>4. ASSUME NEW g, job' = [job EXCEPT ![m.run][m.role] =
                               [state |-> "running", gen |-> g, paused |-> FALSE]],
               ~(m.run = r /\ m.role = o)
        PROVE  job'[r][o] = job[r][o]
    <3>1. m.run \in Run /\ m.role \in Role
      BY <2>2
    <3> QED
      BY <1>1, <2>4, <3>1, StartedJob
  <2> QED
    BY <2>2, <2>3, <2>4
<1> QED
  BY <1>2, <1>3

(* How a step changes the request of stop_run.                                 *)
StopMoves(q) ==
  \/ op'[q] = op[q]
  \/ op'[q].pc \notin {"plan", "send", "wait"}
  \/ op'[q].pc = "plan" /\ op'[q].goal = "cancelled" /\ op'[q].next = 1
  \/ MakePlan(q)
  \/ SendCommand(q)
  \/ /\ op[q].pc = "wait" /\ Kept(q)
     /\ op'[q].pc = "send" /\ op'[q].next = op[q].next + 1

LEMMA OtherStopMoves ==
  ASSUME NEW p \in Req, Others(p), NEW q \in StopReq, q # p PROVE StopMoves(q)
BY DEF Others, StopMoves, Req

LEMMA StopsMove ==
  ASSUME EndpointInv, [Next]_vars, NEW q \in StopReq PROVE StopMoves(q)
<1>1. TypeOK /\ q \in Req
  BY DEF EndpointInv, IInv, Req
<1>2. ASSUME NEW p \in Req, NEW x, op' = [op EXCEPT ![p] = x],
             x.pc \notin {"plan", "send", "wait"} \/ q # p
      PROVE  StopMoves(q)
  BY <1>1, <1>2, RequestIs, OtherStopMoves DEF StopMoves
<1>3. CASE UNCHANGED op
  BY <1>3 DEF StopMoves
<1>4. ASSUME NEW p \in StartReq,
             StartBegin(p) \/ StartSucceeds(p) \/ StartFails(p)
      PROVE  StopMoves(q)
  <2>1. p \in Req /\ p # q
    BY <1>4, RequestsAreDistinct DEF Req
  <2>2. \E x : op' = [op EXCEPT ![p] = x]
    BY <1>4 DEF StartBegin, StartSucceeds, StartFails
  <2> QED
    BY <1>2, <2>1, <2>2
<1>5. ASSUME NEW p \in StopReq, NEW r \in Run, Check(p, r, "cancelled")
      PROVE  StopMoves(q)
  <2> DEFINE x == [NoOp EXCEPT !.pc = "plan", !.run = r, !.goal = "cancelled"]
  <2>1. x.pc = "plan" /\ x.goal = "cancelled" /\ x.next = 1
    BY DEF NoOp
  <2>2. op' = [op EXCEPT ![p] = x] /\ p \in Req
    BY <1>5 DEF Check, Req
  <2> HIDE DEF x
  <2> QED
    BY <1>1, <2>1, <2>2, RequestIs, OtherStopMoves DEF StopMoves
<1>6. ASSUME NEW p \in PauseReq,
             \/ \E r \in Run, goal \in {"paused", "running"} : Check(p, r, goal)
             \/ PauseSucceeds(p) \/ PauseFails(p)
      PROVE  StopMoves(q)
  <2>1. p \in Req /\ p # q
    BY <1>6, RequestsAreDistinct DEF Req
  <2>2. \E x : op' = [op EXCEPT ![p] = x]
    BY <1>6 DEF Check, PauseSucceeds, PauseFails
  <2> QED
    BY <1>2, <2>1, <2>2
<1>7. ASSUME NEW p \in StopReq, StopFinishes(p) PROVE StopMoves(q)
  <2> DEFINE x == [op[p] EXCEPT !.pc = "clear"]
  <2>1. op[p] \in Request /\ op \in [Req -> Request] /\ p \in Req
    BY <1>1 DEF TypeOK, Req
  <2>2. x.pc = "clear" /\ op' = [op EXCEPT ![p] = x]
    BY <1>7, <2>1 DEF StopFinishes, Request
  <2> HIDE DEF x
  <2> QED
    BY <1>2, <2>1, <2>2
<1>8. ASSUME NEW p \in Req, StopClears(p) \/ RequestDropped(p) PROVE StopMoves(q)
  BY <1>2, <1>8 DEF StopClears, RequestDropped, DoneOp, DroppedOp, NoOp
<1>9. ASSUME NEW p \in StopReq \cup PauseReq, MakePlan(p) PROVE StopMoves(q)
  <2>1. Others(p) /\ p \in Req
    BY <1>9, MakePlanIs DEF EndpointInv, Req
  <2> QED
    BY <1>9, <2>1, OtherStopMoves DEF StopMoves
<1>10. ASSUME NEW p \in Req, SendCommand(p) PROVE StopMoves(q)
  BY <1>1, <1>10, SendCommandIs, OtherStopMoves DEF StopMoves
<1>11. ASSUME NEW p \in Req, CommandTimeout(p) PROVE StopMoves(q)
  <2>1. op[p].pc = "wait" /\ CommandError(p)
    BY <1>11 DEF CommandTimeout
  <2> QED
    BY <1>1, <2>1, CommandErrorIs, OtherStopMoves DEF StopMoves
<1>12. ASSUME NEW a \in Agent, NEW g \in Gen, ReceiveAck(a, g) PROVE StopMoves(q)
  <2>1. PICK m : m = Head(toControl[a][g])
    OBVIOUS
  <2>2. /\ m.req \in Req
        /\ \/ UNCHANGED op
           \/ /\ Answers(m.req, m, a)
              /\ op' = [op EXCEPT ![m.req].pc = "send", ![m.req].next = @ + 1]
           \/ Answers(m.req, m, a) /\ CommandError(m.req)
    BY <1>1, <1>12, <2>1, ReceiveAckIs
  <2>3. CASE UNCHANGED op
    BY <1>3, <2>3
  <2>4. ASSUME op[m.req].pc = "wait",
               \/ op' = [op EXCEPT ![m.req].pc = "send", ![m.req].next = @ + 1]
               \/ CommandError(m.req)
        PROVE  StopMoves(q)
    <3>1. Others(m.req) /\ Kept(m.req)
      BY <1>1, <2>2, <2>4, AcknowledgedIs, CommandErrorIs
    <3>2. m.req \in StopReq => /\ op'[m.req].pc = "send"
                               /\ op'[m.req].next = op[m.req].next + 1
      BY <1>1, <2>2, <2>4, AcknowledgedIs, CommandErrorIs
    <3> QED
      BY <2>2, <2>4, <3>1, <3>2, OtherStopMoves DEF StopMoves
  <2> QED
    BY <2>2, <2>3, <2>4 DEF Answers
<1>13. ASSUME NEW a \in Agent, NEW g \in Gen, SessionOnly(a, g) PROVE StopMoves(q)
  BY <1>3, <1>13, SessionOnlyKeeps
<1>14. CASE ControlRestart
  <2>1. op'[q] = NoOp \/ op'[q] = DoneOp
    BY <1>1, <1>14 DEF ControlRestart
  <2> QED
    BY <2>1 DEF StopMoves, NoOp, DoneOp
<1>15. CASE RequestStep
  BY <1>4, <1>5, <1>6, <1>7, <1>8, <1>9, <1>10, <1>11, <1>15
     DEF RequestStep, StopBegin, PauseBegin, Req
<1> QED
  BY <1>3, <1>12, <1>13, <1>14, <1>15, SessionSteps, OpUntouched DEF Next

(* What stop_run still has to do for an endpoint of a run that has not ended.  *)
LEMMA ReachFrames ==
  ASSUME EndpointInv, [Next]_vars, NEW q \in StopReq, op[q].pc \notin {"idle", "done", "dropped"},
         NEW r, r = op[q].run, r \notin finished', NEW o \in Role, Goes(r, o)',
         NEW a, a = place[r][o]
  PROVE  /\ r \in Run /\ activeRun = r /\ r \notin finished /\ a \in Agent
         /\ place'[r][o] = a /\ conn'[a] = conn[a] /\ Goes(r, o) /\ Live(a)
         /\ StopComing(a, r) => StopComing(a, r)'
<1>1. r \notin finished
  BY FinishedGrows
<1>2. r \in Run /\ activeRun = r
  BY <1>1, LateRequest
<1>3. job[r][o].state # "none" /\ job'[r][o].state = "running"
  BY <1>2 DEF EndpointInv, ActiveIsStarted, Started, Goes
<1>4. job[r][o].state = "running"
  BY <1>2, <1>3, RanBefore
<1> QED
  BY <1>1, <1>2, <1>4, GoesStays, StopStays

(* The stop goes on: what it has sent so far is behind it.                     *)
LEMMA ReachStays ==
  ASSUME EndpointInv, [Next]_vars, NEW q \in StopReq, op[q].pc \in {"send", "wait"},
         NEW r, r = op[q].run, op'[q].run = r, op'[q].plan = op[q].plan,
         r \notin finished', NEW o \in Role, Goes(r, o)',
         NEW a, a = place[r][o],
         \A i \in 1 .. Len(op[q].plan) :
           i < op'[q].next \/ (i = op'[q].next /\ op'[q].pc = "wait") =>
             \/ i < op[q].next \/ (i = op[q].next /\ op[q].pc = "wait")
             \/ /\ op[q].plan[i].agent = a /\ op[q].plan[i].gen = conn[a]
                => StopComing(a, r)'
  PROVE  StopReaches(q, r, o)'
<1>1. /\ r \in Run /\ r \notin finished /\ a \in Agent
      /\ place'[r][o] = a /\ conn'[a] = conn[a] /\ Goes(r, o)
      /\ StopComing(a, r) => StopComing(a, r)'
  BY ReachFrames
<1>2. StopReaches(q, r, o)
  BY <1>1 DEF EndpointInv, EndsAreStopped, StopIs
<1>3. PICK i \in 1 .. Len(op[q].plan) :
        /\ op[q].plan[i].agent = a /\ op[q].plan[i].gen = conn[a]
        /\ i < op[q].next \/ (i = op[q].next /\ op[q].pc = "wait") => StopComing(a, r)
  BY <1>1, <1>2 DEF StopReaches
<1>4. i < op'[q].next \/ (i = op'[q].next /\ op'[q].pc = "wait") => StopComing(a, r)'
  BY <1>1, <1>3
<1> QED
  BY <1>1, <1>3, <1>4 DEF StopReaches, StopComing

LEMMA PlanReaches ==
  ASSUME EndpointInv, [Next]_vars, NEW q \in StopReq, MakePlan(q)
  PROVE  StopIs(q)'
<1>1. op[q].pc = "plan" /\ op[q].goal = "cancelled" /\ op[q].next = 1
  BY DEF MakePlan, EndpointInv, EndsAreStopped, StopIs
<1>2. PICK r : r = op[q].run
  OBVIOUS
<1>3. /\ op'[q].pc = "send" /\ op'[q].next = 1 /\ op'[q].run = r
      /\ \A i \in 1 .. Len(op'[q].plan) : op'[q].plan[i].phase = "stop"
      /\ r \in tracked => \A o \in Role : \E i \in 1 .. Len(op'[q].plan) :
           op'[q].plan[i] = Target("stop", place[r][o], "both")
  BY <1>1, <1>2, MakePlanIs DEF EndpointInv
<1>4. ASSUME r \notin finished', NEW o \in Role, Goes(r, o)' PROVE StopReaches(q, r, o)'
  <2>1. PICK a : a = place[r][o]
    OBVIOUS
  <2>2. /\ r \in Run /\ activeRun = r /\ a \in Agent
        /\ place'[r][o] = a /\ conn'[a] = conn[a] /\ Live(a)
    BY <1>1, <1>2, <1>4, <2>1, ReachFrames
  <2>3. r \in tracked /\ session[a] = conn[a]
    BY <2>2 DEF EndpointInv, ActiveIsStarted, Connected
  <2>4. PICK i \in 1 .. Len(op'[q].plan) : op'[q].plan[i] = Target("stop", a, "both")
    BY <1>3, <1>4, <2>1, <2>3
  <2>5. op'[q].plan[i].agent = a /\ op'[q].plan[i].gen = conn[a]
    BY <2>3, <2>4 DEF Target
  <2>6. ~(i < op'[q].next \/ (i = op'[q].next /\ op'[q].pc = "wait"))
    BY <1>3, <2>4
  <2> QED
    BY <2>2, <2>4, <2>5, <2>6 DEF StopReaches
<1>5. \A o \in Role : r \notin finished' => StopReaches(q, r, o)'
  BY <1>4 DEF StopReaches
<1> QED
  BY <1>3, <1>5 DEF StopIs

LEMMA SendReaches ==
  ASSUME EndpointInv, [Next]_vars, NEW q \in StopReq, SendCommand(q)
  PROVE  StopIs(q)'
<1>1. TypeOK /\ q \in Req
  BY DEF EndpointInv, IInv, Req
<1>2. PICK t : t = Current(q)
  OBVIOUS
<1>3. PICK r : r = op[q].run
  OBVIOUS
<1>4. /\ op[q].next \in 1 .. Len(op[q].plan) /\ op[q].pc = "send" /\ t.agent \in Agent
      /\ op'[q].run = r /\ op'[q].plan = op[q].plan
      /\ \/ /\ Open(t.agent, t.gen) /\ op'[q].pc = "wait" /\ op'[q].next = op[q].next
            /\ toAgent'[t.agent] =
                 Append(toAgent[t.agent], [phase |-> t.phase, run |-> r,
                                           role |-> t.role, req |-> q])
         \/ /\ ~Open(t.agent, t.gen)
            /\ op'[q].pc = "send" /\ op'[q].next = op[q].next + 1
  BY <1>1, <1>2, <1>3, SendCommandIs DEF Kept
<1>5. \A i \in 1 .. Len(op[q].plan) : op[q].plan[i].phase = "stop"
  BY <1>4 DEF EndpointInv, EndsAreStopped, StopIs
<1>6. ASSUME r \notin finished', NEW o \in Role, Goes(r, o)' PROVE StopReaches(q, r, o)'
  <2>1. PICK a : a = place[r][o]
    OBVIOUS
  <2>2. a \in Agent /\ Live(a)
    BY <1>3, <1>4, <1>6, <2>1, ReachFrames
  <2>3. ASSUME t.agent = a, t.gen = conn[a] PROVE StopComing(a, r)'
    <3>1. Open(a, conn[a])
      BY <1>1, <2>2, BoundsAreNatural DEF Live, Open, TypeOK, Gen
    <3>2. PICK m : m.phase = "stop" /\ m.run = r /\ toAgent'[a] = Append(toAgent[a], m)
      BY <1>2, <1>4, <1>5, <2>3, <3>1 DEF Current
    <3>3. toAgent[a] \in Seq(Command) /\ Len(toAgent[a]) \in Nat
      BY <1>1, <2>2 DEF TypeOK
    <3>4. /\ Len(toAgent'[a]) = Len(toAgent[a]) + 1
          /\ toAgent'[a][Len(toAgent[a]) + 1] = m
      <4> HIDE DEF Command
      <4> QED
        BY <3>2, <3>3, AppendParts
    <3>5. Len(toAgent[a]) + 1 \in 1 .. Len(toAgent'[a])
      BY <3>3, <3>4
    <3> QED
      BY <3>2, <3>4, <3>5 DEF StopComing, IsStop
  <2>4. ASSUME NEW i \in 1 .. Len(op[q].plan),
               i < op'[q].next \/ (i = op'[q].next /\ op'[q].pc = "wait"),
               op[q].plan[i].agent = a, op[q].plan[i].gen = conn[a], ~(i < op[q].next)
        PROVE  StopComing(a, r)'
    <3>1. i = op[q].next
      BY <1>4, <2>4
    <3> QED
      BY <1>2, <2>3, <2>4, <3>1 DEF Current
  <2> QED
    BY <1>3, <1>4, <1>6, <2>1, <2>4, ReachStays
<1>7. \A o \in Role : r \notin finished' => StopReaches(q, r, o)'
  BY <1>6 DEF StopReaches
<1> QED
  BY <1>4, <1>5, <1>7 DEF StopIs

LEMMA StopStep ==
  ASSUME EndpointInv, [Next]_vars, NEW q \in StopReq PROVE StopIs(q)'
<1>1. StopMoves(q) /\ StopIs(q)
  BY StopsMove DEF EndpointInv, EndsAreStopped
<1>2. PICK r : r = op[q].run
  OBVIOUS
<1>3. ASSUME op[q].pc \in {"send", "wait"}, op'[q].run = r, op'[q].plan = op[q].plan,
             op'[q].pc \in {"send", "wait"},
             \A i \in 1 .. Len(op[q].plan) :
               i < op'[q].next \/ (i = op'[q].next /\ op'[q].pc = "wait") =>
                 i < op[q].next \/ (i = op[q].next /\ op[q].pc = "wait")
      PROVE  StopIs(q)'
  <2>1. ASSUME r \notin finished', NEW o \in Role, Goes(r, o)'
        PROVE  StopReaches(q, r, o)'
    <3>1. PICK a : a = place[r][o]
      OBVIOUS
    <3> QED
      BY <1>2, <1>3, <2>1, <3>1, ReachStays
  <2>2. \A o \in Role : r \notin finished' => StopReaches(q, r, o)'
    BY <2>1 DEF StopReaches
  <2> QED
    BY <1>1, <1>3, <2>2 DEF StopIs
<1>4. CASE op'[q] = op[q]
  <2>1. CASE op[q].pc \in {"send", "wait"}
    BY <1>2, <1>3, <1>4, <2>1
  <2>2. CASE op[q].pc \notin {"send", "wait"}
    BY <1>1, <1>4, <2>2 DEF StopIs
  <2> QED
    BY <2>1, <2>2
<1>5. CASE op'[q].pc \notin {"plan", "send", "wait"}
  BY <1>5 DEF StopIs
<1>6. CASE op'[q].pc = "plan" /\ op'[q].goal = "cancelled" /\ op'[q].next = 1
  BY <1>6 DEF StopIs
<1>7. CASE /\ op[q].pc = "wait" /\ Kept(q)
           /\ op'[q].pc = "send" /\ op'[q].next = op[q].next + 1
  <2>1. op[q].next \in Nat
    BY DEF EndpointInv, IInv, TypeOK, Request, Req
  <2>2. \A i \in 1 .. Len(op[q].plan) :
          i < op'[q].next => i < op[q].next \/ i = op[q].next
    BY <1>7, <2>1
  <2> QED
    BY <1>2, <1>3, <1>7, <2>2 DEF Kept
<1> QED
  BY <1>1, <1>4, <1>5, <1>6, <1>7, PlanReaches, SendReaches DEF StopMoves

(* stop_run went through all participants.                                     *)
LEMMA StopFinishesHalted ==
  ASSUME EndpointInv, NEW q \in StopReq, StopFinishes(q)
  PROVE  op[q].run \in Run /\ (op[q].run \notin finished => Halted(op[q].run))
<1>1. PICK r : r = op[q].run
  OBVIOUS
<1>2. op[q].pc = "send" /\ op[q].next = Len(op[q].plan) + 1
  BY DEF StopFinishes, AtEnd
<1>3. r \in Run /\ (r \notin finished => activeRun = r)
  BY <1>1, <1>2, LateRequest
<1>4. ASSUME r \notin finished PROVE Halted(r)
  <2>1. \A o \in Role : StopReaches(q, r, o)
    BY <1>1, <1>2, <1>4 DEF EndpointInv, EndsAreStopped, StopIs
  <2>2. \A i \in 1 .. Len(op[q].plan) : i < op[q].next
    BY <1>2
  <2>3. \A o \in Role : Goes(r, o) => StopComing(place[r][o], r)
    BY <2>1, <2>2 DEF StopReaches
  <2>4. Started(r)
    BY <1>3, <1>4 DEF EndpointInv, ActiveIsStarted
  <2> QED
    BY <1>3, <2>3, <2>4, StartedHasNoStarts DEF Halted, StartIsStopped
<1> QED
  BY <1>1, <1>3, <1>4

LEMMA FinishedIsHalted ==
  ASSUME EndpointInv, [Next]_vars, NEW r \in finished' PROVE Halted(r)'
<1>1. TypeOK
  BY DEF EndpointInv, IInv
<1>2. ASSUME NEW x \in Run, Halted(x), x \in finished \/ activeRun = x PROVE Halted(x)'
  BY <1>2, PastRun, HaltedStays
<1>3. CASE r \in finished
  BY <1>1, <1>2, <1>3 DEF EndpointInv, EndsAreStopped, TypeOK
<1>4. ASSUME NEW q \in StartReq, StartFails(q), r \notin finished PROVE Halted(r)'
  <2>1. r = q
    BY <1>4 DEF StartFails, WriteEnd
  <2> QED
    BY <1>4, <2>1, StartFailsHalts
<1>5. ASSUME NEW q \in StopReq, StopFinishes(q), r \notin finished PROVE Halted(r)'
  <2>1. r = op[q].run
    BY <1>5 DEF StopFinishes, WriteEnd
  <2>2. r \in Run /\ activeRun = r
    BY <1>5, <2>1, LateRequest DEF StopFinishes, AtEnd
  <2> QED
    BY <1>2, <1>5, <2>1, <2>2, StopFinishesHalted
<1>6. ASSUME NEW a \in Agent, NEW g \in Gen, FinishWrites(a, g), r \notin finished
      PROVE  Halted(r)'
  <2>1. r = task[a][g].run /\ task[a][g].pc = "db"
    BY <1>6 DEF FinishWrites, WriteEnd
  <2>2. r \in Run /\ activeRun = r /\ Halted(r)
    BY <1>6, <2>1, LateTask DEF EndpointInv, EndsAreStopped
  <2> QED
    BY <1>2, <2>2
<1>7. CASE ControlRestart
  <2>1. ~NoTask.live /\ ~Ended.live
    BY DEF NoTask, Ended
  <2>2. \A a \in Agent, g \in Gen : ~task'[a][g].live
    BY <1>7, <2>1 DEF ControlRestart
  <2>3. \A a \in Agent : ~Live(a)'
    <3> SUFFICES ASSUME NEW a \in Agent, conn'[a] # 0 PROVE ~task'[a][conn'[a]].live
      BY DEF Live
    <3>1. conn'[a] = conn[a]
      BY <1>7 DEF ControlRestart, agentVars
    <3>2. conn'[a] \in Gen
      BY <1>1, <3>1, BoundsAreNatural DEF TypeOK, Gen
    <3> QED
      BY <2>2, <3>2
  <2>4. \A o \in Role : ~Goes(r, o)'
    <3> SUFFICES ASSUME NEW o \in Role, Goes(r, o)' PROVE FALSE
      OBVIOUS
    <3>1. PICK a : a = place'[r][o]
      OBVIOUS
    <3>2. Live(a)' /\ job'[r][o].state = "running"
      BY <3>1 DEF Goes, Live
    <3>3. UNCHANGED <<place, job>> /\ finished' \subseteq Run
      BY <1>1, <1>7 DEF ControlRestart, agentVars, TypeOK
    <3>4. a \in Agent
      BY <3>1, <3>2, <3>3, StartedIsBegun
    <3> QED
      BY <2>3, <3>2, <3>4
  <2> QED
    BY <2>3, <2>4 DEF Halted, StartIsStopped
<1>8. ASSUME \/ \E q \in StartReq : StartBegin(q) \/ StartSucceeds(q) \/ RequestDropped(q)
             \/ \E q \in PauseReq : PauseSucceeds(q)
             \/ \E a \in Agent, g \in Gen : WriteDegraded(a, g)
      PROVE  UNCHANGED finished
  BY <1>8 DEF StartBegin, StartSucceeds, RequestDropped, PauseSucceeds, WriteDegraded
<1> QED
  BY <1>3, <1>4, <1>5, <1>6, <1>7, <1>8, RowWriters

LEMMA EndedIsHalted ==
  ASSUME EndpointInv, [Next]_vars, NEW a \in Agent, NEW g \in Gen,
         NEW t, t = task'[a][g], t.pc = "db"
  PROVE  Halted(t.run)'
<1>1. TaskMoves(task[a][g], t)
  BY TasksMove
<1>2. CASE t = task[a][g]
  <2>1. /\ t.run \in Run /\ (activeRun = t.run \/ t.run \in finished)
        /\ Halted(t.run)
    BY <1>2, LateTask DEF EndpointInv, EndsAreStopped
  <2> QED
    BY <2>1, PastRun, HaltedStays
<1>3. CASE EndsCompleted(t)
  <2>1. t.run \in Run /\ Reported(t.run)'
    BY <1>3, ReportedStays DEF EndsCompleted, EndpointInv, IInv, TypeOK
  <2>2. \A o \in Role : ~Goes(t.run, o)'
    BY <2>1 DEF Reported, Goes
  <2>3. CommandsAreKnown' /\ TypeOK'
    BY QueuesStep, QueuesAreNext, TypeStep DEF EndpointInv, IInv
  <2>4. ASSUME NEW b \in Agent, NEW i \in 1 .. Len(toAgent'[b]), NEW m,
               m = toAgent'[b][i], m.phase = "start", m.run = t.run
        PROVE  FALSE
    <3>1. CommandIs(b, m)'
      BY <2>3, <2>4 DEF CommandsAreKnown, CommandIs
    <3>2. m \in Command
      <4>1. toAgent'[b] \in Seq(Command)
        BY <2>3 DEF TypeOK
      <4> HIDE DEF Command
      <4> QED
        BY <2>4, <4>1
    <3>3. m.role \in Role
      BY <2>4, <3>2 DEF Command, EndpointPhase, RunPhase
    <3>4. job'[m.run][m.role].state = "none"
      BY <2>4, <3>1 DEF CommandIs, EndpointPhase
    <3> QED
      BY <2>1, <2>4, <3>3, <3>4 DEF Reported
  <2> QED
    BY <2>2, <2>4 DEF Halted, StartIsStopped
<1>4. CASE EndsFailed(t)
  BY <1>4, EndsFailedHalts DEF EndsFailed
<1>5. CASE Counts(t)
  BY <1>5 DEF Counts
<1> QED
  BY <1>1, <1>2, <1>3, <1>4, <1>5 DEF TaskMoves

LEMMA EndsStep ==
  ASSUME EndpointInv, [Next]_vars PROVE EndsAreStopped'
<1>1. \A a \in Agent, g \in Gen : \A t :
        t = task'[a][g] /\ t.pc = "db" => Halted(t.run)'
  BY EndedIsHalted
<1>2. \A a \in Agent, g \in Gen : task'[a][g].pc = "db" => \A r :
        r = task'[a][g].run => Halted(r)'
  BY <1>1
<1>3. (\A a \in Agent, g \in Gen : task[a][g].pc = "db" => Halted(task[a][g].run))'
  <2> SUFFICES ASSUME NEW a \in Agent, NEW g \in Gen, task'[a][g].pc = "db"
               PROVE  Halted(task[a][g].run)'
    OBVIOUS
  <2>1. PICK r : r = task'[a][g].run
    OBVIOUS
  <2>2. Halted(r)'
    BY <1>2, <2>1
  <2>3. (\A o \in Role : Goes(task[a][g].run, o) =>
           StopComing(place[task[a][g].run][o], task[a][g].run))'
    BY <2>1, <2>2 DEF Halted, Goes, Holds, StopComing, IsStop
  <2>4. (\A b \in Agent : StartIsStopped(b, task[a][g].run))'
    BY <2>1, <2>2 DEF Halted, StartIsStopped, IsStop
  <2> QED
    BY <2>3, <2>4 DEF Halted
<1>4. (\A r \in finished : Halted(r))' /\ (\A q \in StopReq : StopIs(q))'
  BY FinishedIsHalted, StopStep
<1> QED
  BY <1>3, <1>4 DEF EndsAreStopped

-----------------------------------------------------------------------------
(* OneRunPerConnection                                                         *)

LEMMA HeldBefore ==
  ASSUME EndpointInv, [Next]_vars, NEW a \in Agent, NEW r \in Run, NEW o \in Role,
         Holds(a, r, o)', job'[r][o].state = "running", job[r][o].state # "none"
  PROVE  Holds(a, r, o) /\ job[r][o].state = "running"
<1>1. /\ job[r][o].state = "running" /\ op[r].pc # "idle"
      /\ job'[r][o].gen = job[r][o].gen /\ job[r][o].gen \in 1 .. lastGen[place[r][o]]
  BY RanBefore, StartedIsBegun, JobsKeepStep
     DEF JobsKeep, EndpointInv, JobsArePlaced, JobIs
<1>2. place'[r][o] = place[r][o] /\ place[r][o] = a
  BY <1>1, StartsStay DEF EndpointInv, BegunStays, Holds
<1>3. conn'[a] = job[r][o].gen /\ job[r][o].gen \in 1 .. lastGen[a]
  BY <1>1, <1>2 DEF Holds
<1>4. lastGen[a] \in Nat
  BY DEF EndpointInv, IInv, TypeOK
<1>5. conn'[a] = conn[a]
  BY <1>3, <1>4, WiresKeep DEF Keeps
<1> QED
  BY <1>1, <1>2, <1>3, <1>5 DEF Holds

LEMMA OneRunStep ==
  ASSUME EndpointInv, [Next]_vars PROVE OneRunPerConnection'
<1>1. TypeOK /\ CommandsAreKnown /\ OneRunPerConnection
  BY DEF EndpointInv, IInv
<1> DEFINE Runs(a, r, o) == Holds(a, r, o) /\ job[r][o].state = "running"
<1>2. CASE ~\E b \in Agent : AgentStart(b)
  <2>1. \A r \in Run, o \in Role : job'[r][o].state = "running" => job[r][o].state # "none"
    BY <1>1, <1>2, QuietStep, QuietKeeps
  <2>2. \A a \in Agent, r \in Run, o \in Role :
          Holds(a, r, o)' /\ job'[r][o].state = "running" => Runs(a, r, o)
    BY <2>1, HeldBefore
  <2> QED
    BY <1>1, <2>2 DEF OneRunPerConnection
<1>3. ASSUME NEW b \in Agent, AgentStart(b) PROVE OneRunPerConnection'
  <2>1. PICK m : m = Head(toAgent[b])
    OBVIOUS
  <2>2. /\ m.run \in Run /\ m.role \in Role /\ place[m.run][m.role] = b
        /\ \/ UNCHANGED job
           \/ /\ ~Conflicts(b, m.role, m.run)
              /\ job' = [job EXCEPT ![m.run][m.role] =
                           [state |-> "running", gen |-> conn[b], paused |-> FALSE]]
    BY <1>1, <1>3, <2>1, AgentStartIs
  <2>3. UNCHANGED <<conn, place>>
    BY <1>3 DEF AgentStart
  <2>4. CASE UNCHANGED job
    BY <1>1, <2>3, <2>4 DEF OneRunPerConnection, Holds
  <2>5. CASE /\ ~Conflicts(b, m.role, m.run)
             /\ job' = [job EXCEPT ![m.run][m.role] =
                          [state |-> "running", gen |-> conn[b], paused |-> FALSE]]
    <3>1. \A r \in Run, o \in Role : r # m.run \/ o # m.role => job'[r][o] = job[r][o]
      BY <1>1, <2>2, <2>5, StartedJob
    <3>2. \A r \in Run, o \in Role : Runs(b, r, o) => r = m.run
      BY <2>5 DEF Conflicts
    <3>3. ASSUME NEW a \in Agent, NEW r \in Run, NEW o \in Role,
                 Holds(a, r, o)', job'[r][o].state = "running"
          PROVE  Runs(a, r, o) \/ (a = b /\ r = m.run)
      <4>1. CASE r = m.run /\ o = m.role
        BY <2>2, <2>3, <3>3, <4>1 DEF Holds
      <4>2. CASE r # m.run \/ o # m.role
        BY <2>3, <3>1, <3>3, <4>2 DEF Holds
      <4> QED
        BY <4>1, <4>2
    <3> HIDE DEF Runs
    <3>4. ASSUME NEW a \in Agent, NEW r1 \in Run, NEW r2 \in Run, NEW o1 \in Role,
                 NEW o2 \in Role,
                 Holds(a, r1, o1)', job'[r1][o1].state = "running",
                 Holds(a, r2, o2)', job'[r2][o2].state = "running"
          PROVE  r1 = r2
      <4>1. Runs(a, r1, o1) /\ Runs(a, r2, o2) => r1 = r2
        BY <1>1 DEF OneRunPerConnection, Runs
      <4> QED
        BY <3>2, <3>3, <3>4, <4>1
    <3> QED
      BY <3>4 DEF OneRunPerConnection
  <2> QED
    BY <2>2, <2>4, <2>5
<1> QED
  BY <1>2, <1>3

LEMMA InitEndpointInv == Init => EndpointInv
<1> SUFFICES ASSUME Init PROVE EndpointInv
  OBVIOUS
<1> USE RequestsAreDistinct, BoundsAreNatural DEF Init
<1>1. IInv
  BY InitIInv
<1>2. \A r \in Run : op[r].pc = "idle" /\ op[r].plan = << >>
  BY DEF NoOp, Run, Req
<1>3. \A a \in Agent, g \in Gen : task[a][g] = NoTask /\ toControl[a][g] = << >>
  OBVIOUS
<1>4. Connected
  BY <1>3 DEF Connected, Live, NoTask
<1>5. StartsArePlanned /\ StartsProgress
  BY <1>2 DEF StartsArePlanned, StartsProgress, Busy, InProgress
<1>6. PlansSpareEndpoints
  BY DEF PlansSpareEndpoints, NoOp, Req
<1>7. JobsArePlaced
  BY DEF JobsArePlaced, JobIs, NoJob
<1>8. CommandsAreKnown /\ CommandsInSequence
  BY DEF CommandsAreKnown, CommandsInSequence
<1>9. PreparedIsKnown
  BY DEF PreparedIsKnown, PreparedIs, Run
<1>10. MessagesAreTrue
  BY <1>3 DEF MessagesAreTrue
<1>11. ActiveIsStarted
  BY <1>2 DEF ActiveIsStarted, Run
<1>12. ReportsAreTrue
  BY <1>3 DEF ReportsAreTrue, TaskIsTrue, NoTask
<1>13. EndsAreStopped
  BY <1>3 DEF EndsAreStopped, StopIs, NoOp, NoTask, Req
<1>14. OneRunPerConnection
  BY DEF OneRunPerConnection, NoJob
<1> QED
  BY <1>1, <1>4, <1>5, <1>6, <1>7, <1>8, <1>9, <1>10, <1>11, <1>12, <1>13, <1>14
     DEF EndpointInv

LEMMA EndpointInductive == EndpointInv /\ [Next]_vars => EndpointInv'
<1> SUFFICES ASSUME EndpointInv, [Next]_vars PROVE EndpointInv'
  OBVIOUS
<1>1. IInv'
  BY TypeStep, BookkeepingStep DEF EndpointInv, IInv
<1>2. Connected' /\ StartsArePlanned' /\ PlansSpareEndpoints' /\ JobsArePlaced'
  BY ConnectedStep, StartsPlannedStep, SpareStep, JobsPlacedStep DEF EndpointInv
<1>3. CommandsAreKnown' /\ CommandsInSequence'
  BY QueuesStep, QueuesAreNext
<1>4. PreparedIsKnown' /\ MessagesAreTrue' /\ StartsProgress'
  BY PreparedStep, MessagesStep, ProgressStep
<1>5. ActiveIsStarted' /\ ReportsAreTrue' /\ EndsAreStopped' /\ OneRunPerConnection'
  BY ActiveStep, ReportsStep, EndsStep, OneRunStep
<1> QED
  BY <1>1, <1>2, <1>3, <1>4, <1>5 DEF EndpointInv

LEMMA SpecEndpointInv == Spec => []EndpointInv
BY InitEndpointInv, EndpointInductive, PTL DEF Spec

-----------------------------------------------------------------------------
(* The endpoints of one connection that generate load belong to one run: the   *)
(* conflict check of Start looks at every entry of the connection, and an      *)
(* entry that runs was made on the connection it runs on.                      *)
THEOREM OneRunHoldsAConnection == Spec => []OneRunPerConnection
<1>1. EndpointInv => OneRunPerConnection
  BY DEF EndpointInv
<1> QED
  BY <1>1, SpecEndpointInv, PTL

(* Control writes completed only about a run both of whose endpoints reported  *)
(* their end: each report names the run and the role of a job that ended, on   *)
(* whichever connection it came, and the count compares them by role.          *)
THEOREM CompletedIsReported == Spec => []CompletedNeedsBothReports
<1>1. EndpointInv => CompletedNeedsBothReports
  BY DEF EndpointInv, ReportsAreTrue, CompletedNeedsBothReports, Reported
<1> QED
  BY <1>1, SpecEndpointInv, PTL

(* start_run makes a run active only when two endpoints did start, and an      *)
(* endpoint that started does not become one that did not.                     *)
THEOREM ActiveRunStarted == Spec => []ActiveRunHasBothEndpoints
<1>1. EndpointInv => ActiveRunHasBothEndpoints
  BY DEF EndpointInv, ActiveIsStarted, ActiveRunHasBothEndpoints, Started
<1> QED
  BY <1>1, SpecEndpointInv, PTL

(* Whoever records the end of a run (a failed start, an endpoint error, an     *)
(* expired grace period, stop_run, the second report) has a Stop on its way to *)
(* every endpoint that still runs where Control reads.                         *)
THEOREM EndsReachEndpoints == Spec => []FinishedRunIsStopped
<1>1. EndpointInv => FinishedRunIsStopped
  <2> SUFFICES ASSUME EndpointInv, NEW r \in finished, NEW o \in Role,
                      NEW a, a = place[r][o],
                      job[r][o].state = "running", Holds(a, r, o), task[a][conn[a]].live
               PROVE  \E i \in 1 .. Len(toAgent[a]) :
                        toAgent[a][i].phase = "stop" /\ toAgent[a][i].run = r
    BY DEF FinishedRunIsStopped
  <2>1. Goes(r, o)
    BY DEF Goes, Live, Holds
  <2>2. StopComing(a, r)
    BY <2>1 DEF EndpointInv, EndsAreStopped, Halted
  <2> QED
    BY <2>2 DEF StopComing, IsStop
<1> QED
  BY <1>1, SpecEndpointInv, PTL

(* A start makes run the job its command names, and only one that never ran:   *)
(* no later prepare came between the prepare and the start of that run.        *)
THEOREM StartIsOfItsRun == Spec => StartsWhatItNames
<1>1. ASSUME EndpointInv, [Next]_vars, NEW r \in Run, NEW o \in Role,
             job[r][o].state # "running", job'[r][o].state = "running"
      PROVE  /\ job[r][o].state = "none"
             /\ \E a \in Agent : /\ toAgent[a] # << >>
                                 /\ Head(toAgent[a]).phase = "start"
                                 /\ Head(toAgent[a]).run = r
  <2>1. TypeOK /\ CommandsAreKnown
    BY <1>1 DEF EndpointInv, IInv
  <2>2. job[r][o].state = "none"
    BY <1>1, RanBefore
  <2>3. PICK b \in Agent : AgentStart(b)
    BY <1>1, <2>1, QuietStep, QuietKeeps
  <2>4. PICK m : m = Head(toAgent[b])
    OBVIOUS
  <2>5. /\ m.phase = "start" /\ m.run \in Run /\ m.role \in Role
        /\ \/ UNCHANGED job
           \/ job' = [job EXCEPT ![m.run][m.role] =
                        [state |-> "running", gen |-> conn[b], paused |-> FALSE]]
    BY <2>1, <2>3, <2>4, AgentStartIs
  <2>6. ASSUME NEW g, job' = [job EXCEPT ![m.run][m.role] =
                                [state |-> "running", gen |-> g, paused |-> FALSE]]
        PROVE  m.run = r
    <3>1. \A x \in Run, p \in Role : x # m.run \/ p # m.role => job'[x][p] = job[x][p]
      BY <2>1, <2>5, <2>6, StartedJob
    <3> QED
      BY <1>1, <3>1
  <2>7. m.run = r
    BY <1>1, <2>5, <2>6
  <2>8. toAgent[b] # << >>
    BY <2>3 DEF AgentStart, Handling
  <2> QED
    BY <2>2, <2>4, <2>5, <2>7, <2>8
<1>2. EndpointInv /\ [Next]_vars =>
        \A r \in Run, o \in Role :
          job[r][o].state # "running" /\ job'[r][o].state = "running" =>
            /\ job[r][o].state = "none"
            /\ \E a \in Agent : /\ toAgent[a] # << >>
                                /\ Head(toAgent[a]).phase = "start"
                                /\ Head(toAgent[a]).run = r
  BY <1>1
<1> QED
  BY <1>2, SpecEndpointInv, PTL DEF Spec, StartsWhatItNames

-----------------------------------------------------------------------------
(* SettledRunIsLeftAlone                                                       *)

(* How a request or a session task gets to name a run.                         *)
RunMoves(q) ==
  \/ op'[q].run = op[q].run
  \/ op'[q].run = None
  \/ op'[q].run \in Run /\ op'[q].run = activeRun
  \/ q \in StartReq /\ StartBegin(q) /\ op'[q].run = q

LEMMA OtherRunMoves ==
  ASSUME NEW p \in Req, Others(p), RunMoves(p) PROVE \A q \in Req : RunMoves(q)
BY DEF Others, RunMoves

LEMMA RunsMove ==
  ASSUME EndpointInv, [Next]_vars PROVE \A q \in Req : RunMoves(q)
<1>1. TypeOK
  BY DEF EndpointInv, IInv
<1>2. CASE UNCHANGED op
  BY <1>2 DEF RunMoves
<1>3. ASSUME NEW p \in Req, NEW x, op' = [op EXCEPT ![p] = x], x.run = None
      PROVE  \A q \in Req : RunMoves(q)
  BY <1>1, <1>3, RequestIs, OtherRunMoves DEF RunMoves
<1>4. ASSUME NEW p \in Req, Others(p), op'[p].run = op[p].run
      PROVE  \A q \in Req : RunMoves(q)
  BY <1>4, OtherRunMoves DEF RunMoves
<1>5. DoneOp.run = None /\ DroppedOp.run = None /\ NoOp.run = None
  BY DEF DoneOp, DroppedOp, NoOp
<1>6. ASSUME NEW p \in StartReq, StartBegin(p) PROVE \A q \in Req : RunMoves(q)
  <2>1. PICK plan : op' = [op EXCEPT ![p] = [pc |-> "send", run |-> p, goal |-> "running",
                                              plan |-> plan, next |-> 1]]
    BY <1>6 DEF StartBegin
  <2> DEFINE x == [pc |-> "send", run |-> p, goal |-> "running", plan |-> plan,
                   next |-> 1]
  <2>4. x.run = p /\ op' = [op EXCEPT ![p] = x]
    BY <2>1
  <2> HIDE DEF x
  <2>2. p \in Req
    BY DEF Req
  <2>3. Others(p) /\ op'[p].run = p
    BY <1>1, <2>2, <2>4, RequestIs
  <2> QED
    BY <1>6, <2>2, <2>3, OtherRunMoves DEF RunMoves
<1>7. ASSUME NEW p \in Req,
             \/ StartSucceeds(p) \/ StartFails(p) \/ StopClears(p)
             \/ PauseSucceeds(p) \/ PauseFails(p) \/ RequestDropped(p)
      PROVE  \A q \in Req : RunMoves(q)
  BY <1>3, <1>5, <1>7 DEF StartSucceeds, StartFails, StopClears, PauseSucceeds,
     PauseFails, RequestDropped
<1>8. ASSUME NEW p \in Req, NEW r \in Run, NEW goal, Check(p, r, goal)
      PROVE  \A q \in Req : RunMoves(q)
  <2> DEFINE x == [NoOp EXCEPT !.pc = "plan", !.run = r, !.goal = goal]
  <2>1. x.run = r
    BY DEF NoOp
  <2>2. op' = [op EXCEPT ![p] = x] /\ activeRun = r
    BY <1>8 DEF Check
  <2> HIDE DEF x
  <2> QED
    BY <1>1, <2>1, <2>2, RequestIs, OtherRunMoves DEF RunMoves
<1>9. ASSUME NEW p \in StopReq \cup PauseReq, MakePlan(p)
      PROVE  \A q \in Req : RunMoves(q)
  BY <1>4, <1>9, MakePlanIs DEF EndpointInv, Req
<1>10. ASSUME NEW p \in Req, SendCommand(p) PROVE \A q \in Req : RunMoves(q)
  BY <1>1, <1>4, <1>10, SendCommandIs DEF Kept
<1>11. ASSUME NEW p \in Req, CommandError(p) PROVE \A q \in Req : RunMoves(q)
  BY <1>1, <1>4, <1>11, CommandErrorIs DEF Kept
<1>12. ASSUME NEW p \in StopReq, StopFinishes(p) PROVE \A q \in Req : RunMoves(q)
  <2> DEFINE x == [op[p] EXCEPT !.pc = "clear"]
  <2>1. op[p] \in Request /\ op \in [Req -> Request] /\ p \in Req
    BY <1>1 DEF TypeOK, Req
  <2>2. x.run = op[p].run /\ op' = [op EXCEPT ![p] = x]
    BY <1>12, <2>1 DEF StopFinishes, Request
  <2> HIDE DEF x
  <2> QED
    BY <1>1, <1>4, <2>1, <2>2, RequestIs
<1>13. ASSUME NEW a \in Agent, NEW g \in Gen, ReceiveAck(a, g)
       PROVE  \A q \in Req : RunMoves(q)
  <2>1. PICK m : m = Head(toControl[a][g])
    OBVIOUS
  <2>2. /\ m.req \in Req
        /\ \/ UNCHANGED op
           \/ op' = [op EXCEPT ![m.req].pc = "send", ![m.req].next = @ + 1]
           \/ CommandError(m.req)
    BY <1>1, <1>13, <2>1, ReceiveAckIs
  <2> QED
    BY <1>1, <1>2, <1>4, <1>11, <2>2, AcknowledgedIs DEF Kept
<1>14. CASE ControlRestart
  BY <1>5, <1>14 DEF ControlRestart, RunMoves
<1>15. CASE RequestStep
  BY <1>6, <1>7, <1>8, <1>9, <1>10, <1>11, <1>12, <1>15
     DEF RequestStep, StopBegin, PauseBegin, CommandTimeout, Req
<1>16. CASE SessionStep
  BY <1>2, <1>13, <1>16, SessionSteps, SessionOnlyKeeps
<1> QED
  BY <1>2, <1>14, <1>15, <1>16, OpUntouched DEF Next

InCharge(t) == t.pc \in {"db", "clear", "degrade"}

TakesCharge(t, u) ==
  u = t \/ ~InCharge(u) \/ (u.run = t.run /\ InCharge(t)) \/ u.run = activeRun

LEMMA OneTakesCharge ==
  ASSUME TypeOK, NEW a \in Agent, NEW g \in Gen, NEW x, Step(a, g, x),
         TakesCharge(task[a][g], x)
  PROVE  \A b \in Agent, h \in Gen : TakesCharge(task[b][h], task'[b][h])
<1>1. \A b \in Agent, h \in Gen :
        task'[b][h] = IF b = a /\ h = g THEN x ELSE task[b][h]
  BY DEF TypeOK, Step
<1> QED
  BY <1>1 DEF TakesCharge

LEMMA SessionTakesCharge ==
  ASSUME EndpointInv, NEW a \in Agent, NEW g \in Gen, SessionOnly(a, g)
  PROVE  UNCHANGED task \/ \E x : Step(a, g, x) /\ TakesCharge(task[a][g], x)
<1> DEFINE t == task[a][g]
           Goal == UNCHANGED task \/ \E x : Step(a, g, x) /\ TakesCharge(task[a][g], x)
<1>0. ASSUME NEW x, Step(a, g, x), ~InCharge(x) \/ x.run = activeRun PROVE Goal
  BY <1>0 DEF TakesCharge
<1>1. t \in SessionTask
  BY DEF EndpointInv, IInv, TypeOK
<1>2. /\ \A v : [t EXCEPT !.pc = "db", !.verdict = v].run = t.run
      /\ [t EXCEPT !.pc = "clear"].run = t.run
      /\ [t EXCEPT !.pc = "sleep"].pc = "sleep"
  BY <1>1 DEF SessionTask
<1>3. /\ \A r, v : [Reading EXCEPT !.pc = "db", !.run = r, !.verdict = v].run = r
      /\ \A r, o : [Reading EXCEPT !.pc = "complete", !.run = r, !.role = o].pc = "complete"
      /\ [Ended EXCEPT !.pc = "lost"].pc = "lost"
      /\ [Ended EXCEPT !.pc = "degrade", !.run = activeRun].run = activeRun
      /\ Reading.pc = "read" /\ Ended.pc = "ended"
  BY DEF Reading, Ended, NoTask
<1> HIDE DEF t
<1>4. CASE ReceiveError(a, g)
  <2>1. PICK r : r = Head(toControl[a][g]).run
    OBVIOUS
  <2>2. \/ UNCHANGED task
        \/ /\ activeRun = r
           /\ Step(a, g, [Reading EXCEPT !.pc = "db", !.run = r, !.verdict = "failed"])
    BY <1>4, <2>1 DEF ReceiveError
  <2>3. [Reading EXCEPT !.pc = "db", !.run = r, !.verdict = "failed"].run = r
    BY <1>3
  <2> QED
    BY <1>0, <2>2, <2>3
<1>5. CASE ReceiveCompleted(a, g)
  <2>1. PICK m : m = Head(toControl[a][g])
    OBVIOUS
  <2>2. \/ UNCHANGED task
        \/ Step(a, g, [Reading EXCEPT !.pc = "complete", !.run = m.run, !.role = m.role])
    BY <1>5, <2>1 DEF ReceiveCompleted
  <2>3. ~InCharge([Reading EXCEPT !.pc = "complete", !.run = m.run, !.role = m.role])
    BY <1>3 DEF InCharge
  <2> QED
    BY <1>0, <2>2, <2>3
<1>6. CASE CountCompletion(a, g)
  <2>1. \/ t.run \in tracked /\ Step(a, g, [t EXCEPT !.pc = "db", !.verdict = "completed"])
        \/ Step(a, g, Reading)
    BY <1>6 DEF CountCompletion, t
  <2>2. t.run \in Run
    BY <1>6, LateTask DEF CountCompletion, t
  <2>3. t.run \in tracked => activeRun = t.run
    BY <2>2 DEF EndpointInv, ActiveIsStarted
  <2>4. [t EXCEPT !.pc = "db", !.verdict = "completed"].run = t.run
    BY <1>2
  <2>5. ~InCharge(Reading)
    BY <1>3 DEF InCharge
  <2> QED
    BY <1>0, <2>1, <2>3, <2>4, <2>5
<1>7. CASE FinishWrites(a, g)
  <2>1. t.pc = "db" /\ Step(a, g, [t EXCEPT !.pc = "clear"])
    BY <1>7 DEF FinishWrites, t
  <2> QED
    BY <1>2, <2>1 DEF TakesCharge, InCharge, t
<1>8. CASE WriteDegraded(a, g)
  <2>1. Step(a, g, [t EXCEPT !.pc = "sleep"])
    BY <1>8 DEF WriteDegraded, t
  <2> QED
    BY <1>2, <2>1 DEF TakesCharge, InCharge
<1>9. CASE FinishClears(a, g) \/ StreamEnds(a, g)
  <2>1. \E x : Step(a, g, x) /\ x.pc \in {"read", "ended", "lost"}
    BY <1>3, <1>9 DEF FinishClears, StreamEnds
  <2> QED
    BY <2>1 DEF TakesCharge, InCharge
<1>10. CASE CheckParticipant(a, g)
  <2>1. \/ Step(a, g, [Ended EXCEPT !.pc = "degrade", !.run = activeRun])
        \/ Step(a, g, Ended)
    BY <1>10 DEF CheckParticipant
  <2> QED
    BY <1>3, <2>1 DEF TakesCharge, InCharge
<1>11. CASE GraceExpires(a, g)
  <2>1. \/ activeRun = t.run /\ Step(a, g, [t EXCEPT !.pc = "db", !.verdict = "failed"])
        \/ Step(a, g, Ended)
    BY <1>11 DEF GraceExpires, t
  <2>2. [t EXCEPT !.pc = "db", !.verdict = "failed"].run = t.run
    BY <1>2
  <2>3. ~InCharge(Ended)
    BY <1>3 DEF InCharge
  <2> QED
    BY <1>0, <2>1, <2>2, <2>3
<1> QED
  BY <1>4, <1>5, <1>6, <1>7, <1>8, <1>9, <1>10, <1>11 DEF SessionOnly

LEMMA TasksTakeCharge ==
  ASSUME EndpointInv, [Next]_vars
  PROVE  \A a \in Agent, g \in Gen : TakesCharge(task[a][g], task'[a][g])
<1>1. TypeOK
  BY DEF EndpointInv, IInv
<1>2. ASSUME UNCHANGED task
      PROVE  \A a \in Agent, g \in Gen : TakesCharge(task[a][g], task'[a][g])
  BY <1>2 DEF TakesCharge
<1>3. CASE SessionStep
  BY <1>1, <1>2, <1>3, SessionSteps, SessionTakesCharge, OneTakesCharge,
     ReceiveAckKeepsAgents
<1>4. CASE RequestStep
  <2>1. UNCHANGED task
    BY <1>1, <1>4, RequestIsControlOnly, SendCommandIs
       DEF RequestStep, StopBegin, PauseBegin, Req, Status, LiveStatus, EndStatus
  <2> QED
    BY <1>2, <2>1
<1>5. ASSUME NEW a \in Agent, Connect(a)
      PROVE  \A b \in Agent, h \in Gen : TakesCharge(task[b][h], task'[b][h])
  <2>1. ~InCharge(Reading)
    BY DEF Reading, NoTask, InCharge
  <2> QED
    BY <1>1, <1>5, <2>1, ConnectIs DEF TakesCharge
<1>6. ASSUME NEW a \in Agent,
             \/ Disconnect(a) \/ AgentCrash(a) \/ AgentPrepare(a) \/ AgentStart(a)
             \/ AgentStop(a) \/ AgentSetPaused(a)
      PROVE  UNCHANGED task
  BY <1>6 DEF Disconnect, AgentCrash, AgentPrepare, AgentStart, AgentStop,
     AgentSetPaused, controlVars
<1>7. CASE JobStep \/ UNCHANGED vars
  BY <1>2, <1>7 DEF JobStep, JobElapses, JobReports, JobFails, vars, controlVars
<1>8. CASE ControlRestart
  <2>1. ~InCharge(NoTask) /\ ~InCharge(Ended)
    BY DEF NoTask, Ended, InCharge
  <2> QED
    BY <1>8, <2>1 DEF ControlRestart, TakesCharge
<1> QED
  BY <1>2, <1>3, <1>4, <1>5, <1>6, <1>7, <1>8 DEF Next, AgentStep

LEMMA VerdictStays ==
  ASSUME EndpointInv, [Next]_vars, NEW r \in Run, status[r] \in EndStatus, ~InHand(r)
  PROVE  status'[r] = status[r]
<1>1. TypeOK /\ status[r] # "none" /\ status[r] \notin LiveStatus
  BY DEF EndpointInv, IInv, EndStatus, LiveStatus
<1>2. /\ op[r].pc # "idle" /\ ~Busy(r)
      /\ \A q \in Req : op[q].run # r
  BY <1>1 DEF EndpointInv, IInv, Bookkeeping, Starting, InHand, Busy, Run, Req
<1>3. ASSUME NEW x, NEW s, status' = [status EXCEPT ![x] = s], x # r
      PROVE  status'[r] = status[r]
  BY <1>1, <1>3 DEF TypeOK
<1>4. ASSUME NEW q \in StartReq, \/ StartBegin(q) \/ StartSucceeds(q) \/ StartFails(q)
                                 \/ RequestDropped(q)
      PROVE  status'[r] = status[r]
  <2>1. CASE StartBegin(q)
    BY <1>2, <1>3, <2>1 DEF StartBegin
  <2>2. CASE StartSucceeds(q)
    BY <1>2, <1>3, <2>2 DEF StartSucceeds, AtEnd, Busy, InProgress
  <2>3. CASE StartFails(q)
    BY <1>2, <1>3, <2>3 DEF StartFails, WriteEnd, Busy, InProgress
  <2>4. CASE RequestDropped(q)
    BY <1>2, <1>3, <2>4 DEF RequestDropped, AtEnd, Busy, InProgress
  <2> QED
    BY <1>4, <2>1, <2>2, <2>3, <2>4
<1>5. ASSUME NEW q \in Req, StopFinishes(q) \/ PauseSucceeds(q)
      PROVE  status'[r] = status[r]
  BY <1>2, <1>3, <1>5 DEF StopFinishes, PauseSucceeds, WriteEnd
<1>6. ASSUME NEW a \in Agent, NEW g \in Gen, FinishWrites(a, g) \/ WriteDegraded(a, g)
      PROVE  status'[r] = status[r]
  <2>1. task[a][g].run # r
    BY <1>6 DEF InHand, FinishWrites, WriteDegraded
  <2> QED
    BY <1>3, <1>6, <2>1 DEF FinishWrites, WriteDegraded, WriteEnd
<1>7. ControlRestart => status'[r] = status[r]
  BY <1>1 DEF ControlRestart
<1> QED
  BY <1>4, <1>5, <1>6, <1>7, RowWriters DEF Req

LEMMA SlotTakers ==
  ASSUME [Next]_vars
  PROVE  startLock' = startLock \/ startLock' = None \/
           \E q \in StartReq : StartBegin(q) /\ startLock' = q
<1>1. CASE RequestStep
  <2>1. ASSUME NEW q \in Req,
               \/ StopFinishes(q) \/ StopClears(q) \/ PauseSucceeds(q) \/ PauseFails(q)
               \/ MakePlan(q) \/ SendCommand(q) \/ CommandTimeout(q)
               \/ \E r \in Run, goal \in Status : Check(q, r, goal)
        PROVE  UNCHANGED startLock
    BY <2>1 DEF Check, MakePlan, StopFinishes, StopClears, PauseSucceeds, PauseFails,
       SendCommand, CommandTimeout
  <2>2. ASSUME NEW q \in Req, StartSucceeds(q) \/ StartFails(q) \/ RequestDropped(q)
        PROVE  startLock' = startLock \/ startLock' = None
    BY <2>2 DEF StartSucceeds, StartFails, RequestDropped
  <2>3. ASSUME NEW q \in StartReq, StartBegin(q) PROVE startLock' = q
    BY <2>3 DEF StartBegin
  <2> QED
    BY <1>1, <2>1, <2>2, <2>3 DEF RequestStep, StopBegin, PauseBegin, Req, Status,
       LiveStatus, EndStatus
<1>2. CASE SessionStep
  <2>1. ASSUME NEW a \in Agent, NEW g \in Gen,
               \/ ReceiveAck(a, g) \/ ReceiveError(a, g) \/ ReceiveCompleted(a, g)
               \/ CountCompletion(a, g) \/ FinishWrites(a, g) \/ FinishClears(a, g)
               \/ StreamEnds(a, g) \/ CheckParticipant(a, g) \/ WriteDegraded(a, g)
               \/ GraceExpires(a, g)
        PROVE  UNCHANGED startLock
    BY <2>1 DEF ReceiveAck, ReceiveError, ReceiveCompleted, CountCompletion,
       FinishWrites, FinishClears, StreamEnds, CheckParticipant, WriteDegraded,
       GraceExpires
  <2> QED
    BY <1>2, <2>1 DEF SessionStep
<1>3. CASE AgentStep
  BY <1>3 DEF AgentStep, Connect, Disconnect, AgentCrash, AgentPrepare, AgentStart,
     AgentStop, AgentSetPaused, controlVars
<1>4. CASE JobStep \/ UNCHANGED vars
  BY <1>4 DEF JobStep, JobElapses, JobReports, JobFails, vars, controlVars
<1>5. CASE ControlRestart
  BY <1>5 DEF ControlRestart
<1> QED
  BY <1>1, <1>2, <1>3, <1>4, <1>5 DEF Next

LEMMA NobodyTakesIt ==
  ASSUME EndpointInv, [Next]_vars, NEW r \in Run, status[r] \in EndStatus, ~InHand(r)
  PROVE  ~InHand(r)'
<1>1. r # None /\ status[r] # "none"
  BY RunIsNotNone DEF EndStatus
<1>2. op[r].pc # "idle" /\ ~Busy(r)
  BY <1>1 DEF EndpointInv, IInv, Bookkeeping, Starting, InHand, Busy, Run, Req
<1>3. ~StartBegin(r) /\ ~StartSucceeds(r)
  BY <1>2 DEF StartBegin, StartSucceeds, AtEnd, Busy, InProgress
<1>4. startLock' # r
  BY <1>1, <1>3, SlotTakers DEF InHand
<1>5. activeRun' # r
  <2>1. ASSUME activeRun' # activeRun PROVE activeRun' = None \/ StartSucceeds(activeRun')
    <3>1. ASSUME NEW x, ReleaseRun(x) PROVE activeRun' = activeRun \/ activeRun' = None
      BY <3>1 DEF ReleaseRun
    <3> QED
      BY <2>1, <3>1, SlotWriters
         DEF StartSucceeds, StopClears, CountCompletion, FinishClears, ControlRestart
  <2> QED
    BY <1>1, <1>3, <2>1 DEF InHand
<1>6. ASSUME NEW q \in Req PROVE op'[q].run # r
  <2>1. RunMoves(q)
    BY RunsMove
  <2> QED
    BY <1>1, <1>3, <2>1 DEF InHand, RunMoves
<1>7. ASSUME NEW a \in Agent, NEW g \in Gen,
             task'[a][g].pc \in {"db", "clear", "degrade"}
      PROVE  task'[a][g].run # r
  <2>1. TakesCharge(task[a][g], task'[a][g])
    BY TasksTakeCharge
  <2> QED
    BY <1>7, <2>1 DEF InHand, TakesCharge, InCharge
<1> QED
  BY <1>4, <1>5, <1>6, <1>7 DEF InHand

(* A run with a verdict that nobody has in hand keeps it, and nobody takes the *)
(* run up again: the ids that late events, late requests and expired timers    *)
(* carry only count while they name the active run.                            *)
THEOREM SettledStaysSettled == Spec => SettledRunIsLeftAlone
<1>1. EndpointInv /\ [Next]_vars =>
        \A r \in Run : status[r] \in EndStatus /\ ~InHand(r) =>
          status'[r] = status[r] /\ ~InHand(r)'
  BY VerdictStays, NobodyTakesIt
<1> QED
  BY <1>1, SpecEndpointInv, PTL DEF Spec, SettledRunIsLeftAlone
=============================================================================
