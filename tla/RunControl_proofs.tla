-------------------------- MODULE RunControl_proofs --------------------------
(***************************************************************************)
(* Proofs about RunControl for every set of Agents and requests and every  *)
(* bound: its type correctness, that no run is left behind unended, and    *)
(* that it implements the exclusive slot of RunSlot.                       *)
(***************************************************************************)
EXTENDS RunControl, TLAPS

(* A started run has its endpoints placed on Agents.                        *)
Placed ==
  \A r \in Run : (r \in tracked \/ op[r].pc # "idle") =>
    \A o \in Role : place[r][o] \in Agent

(* start_run holds the mutex exactly while its request is in progress, its   *)
(* row exists from then on, and no run is active meanwhile.                  *)
InProgress == {"send", "wait", "error"}
Starting ==
  /\ \A r \in Run :
       /\ startLock = r <=> op[r].pc \in InProgress
       /\ op[r].pc \in InProgress \cup {"idle", "done", "dropped"}
       /\ op[r].pc \in InProgress => op[r].run = r
       /\ op[r].pc = "idle" <=> status[r] = "none"
  /\ startLock # None => activeRun = None

(* The active run has a row, and rows with an end are finished.              *)
Recorded ==
  /\ activeRun # None => status[activeRun] # "none"
  /\ \A r \in finished : status[r] # "none"
  /\ \A r \in Run : status[r] \in EndStatus => r \in finished

(* What stop_run, set_run_paused and the session tasks work on is active or   *)
(* already finished; finish_run clears the registration after the row.       *)
Late(r, act, fin) == r \in Run /\ (act = r \/ r \in fin)

RequestIsLate(q, x, act, fin) ==
  /\ x.pc \notin {"idle", "done", "dropped"} =>
       /\ Late(x.run, act, fin)
       /\ q \in PauseReq => x.goal \in {"paused", "running"}
  /\ x.pc = "clear" => x.run \in fin

RequestsAreLate ==
  \A q \in StopReq \cup PauseReq : RequestIsLate(q, op[q], activeRun, finished)

TaskIsLate(t, act, fin) ==
  /\ t.pc \in {"complete", "db", "clear", "degrade", "sleep"} =>
       Late(t.run, act, fin)
  /\ t.pc = "complete" => t.role \in Role
  /\ t.pc = "clear" => t.run \in fin
  /\ t.pc = "db" => t.verdict \in EndStatus

SessionsAreLate ==
  \A a \in Agent, g \in Gen : TaskIsLate(task[a][g], activeRun, finished)

Bookkeeping ==
  /\ Placed
  /\ Starting
  /\ Recorded
  /\ RequestsAreLate
  /\ SessionsAreLate
  /\ NoRunIsLeftBehind

IInv == TypeOK /\ Bookkeeping

-----------------------------------------------------------------------------

LEMMA InitIInv == Init => IInv
<1> SUFFICES ASSUME Init PROVE IInv
  OBVIOUS
<1> USE RequestsAreDistinct, BoundsAreNatural DEF Init
<1>1. TypeOK
  BY DEF TypeOK, Req, Run, Gen, NoOp, NoTask, NoJob, Status, JobState, OpPc,
         TaskPc, Request, SessionTask, Job
<1>2. Placed /\ Starting /\ Recorded /\ NoRunIsLeftBehind
  BY DEF Placed, Starting, Recorded, NoRunIsLeftBehind, InProgress, NoOp, Run,
         Req, EndStatus, LiveStatus
<1>3. RequestsAreLate /\ SessionsAreLate
  BY DEF RequestsAreLate, SessionsAreLate, RequestIsLate, TaskIsLate, NoOp, NoTask,
         Req
<1> QED
  BY <1>1, <1>2, <1>3 DEF IInv, Bookkeeping

(* Type correctness, action by action.  Only the types a step touches are      *)
(* opened; the others are carried over as they are.                            *)

LEMMA StartBeginType ==
  ASSUME NEW q \in StartReq, IInv, StartBegin(q) PROVE TypeOK'
<1> USE DEF IInv, TypeOK
<1>1. PICK c \in Agent, s \in Agent :
        /\ place' = [place EXCEPT ![q] = [o \in Role |->
                                            IF o = "client" THEN c ELSE s]]
        /\ op' = [op EXCEPT ![q] =
                    [pc |-> "send", run |-> q, goal |-> "running",
                     plan |-> << Target("prepare", c, "client"),
                                 Target("prepare", s, "server"),
                                 Target("start", c, "client"),
                                 Target("start", s, "server") >>,
                     next |-> 1]]
  BY DEF StartBegin
<1>2. \A a \in Agent, o \in Role, p \in EndpointPhase : Target(p, a, o) \in Targets
  BY DEF Target, Targets
<1>3. << Target("prepare", c, "client"), Target("prepare", s, "server"),
         Target("start", c, "client"), Target("start", s, "server") >>
        \in Seq(Targets)
  BY <1>2 DEF EndpointPhase, Role
<1>4. op' \in [Req -> Request]
  BY <1>1, <1>3 DEF Request, OpPc, Status, LiveStatus, Run, Req
<1>5. place' \in [Run -> [Role -> Agent \cup {None}]]
  BY <1>1
<1>6. status' \in [Run -> Status] /\ startLock' \in Run \cup {None}
  BY DEF StartBegin, Status, LiveStatus, Run
<1> QED
  BY <1>4, <1>5, <1>6 DEF StartBegin, wireVars

LEMMA DoneIsRequest ==
  NoOp \in Request /\ DoneOp \in Request /\ DroppedOp \in Request
<1>1. << >> \in Seq(Targets)
  OBVIOUS
<1>2. NoOp \in Request
  BY <1>1 DEF NoOp, Request, OpPc, Status
<1> QED
  BY <1>2 DEF DoneOp, DroppedOp, Request, OpPc

LEMMA StartSucceedsType ==
  ASSUME NEW q \in StartReq, IInv, StartSucceeds(q) PROVE TypeOK'
<1> USE DEF IInv, TypeOK
<1>1. op' \in [Req -> Request]
  BY DoneIsRequest DEF StartSucceeds
<1>2. status' \in [Run -> Status]
  BY DEF StartSucceeds, Status, LiveStatus
<1> QED
  BY <1>1, <1>2 DEF StartSucceeds, wireVars, agentVars, Run

LEMMA StopsType ==
  ASSUME TypeOK, NEW r \in Run, NEW S, SendStops(S, r)
  PROVE  toAgent' \in [Agent -> Seq(Command)]
<1>1. StopCommand(r) \in Command
  BY DEF StopCommand, Command, RunPhase
<1> QED
  BY <1>1 DEF TypeOK, SendStops

LEMMA StartFailsType ==
  ASSUME NEW q \in StartReq, IInv, StartFails(q) PROVE TypeOK'
<1> USE DEF IInv, TypeOK
<1>1. toAgent' \in [Agent -> Seq(Command)]
  BY StopsType DEF StartFails, Run
<1>2. op' \in [Req -> Request]
  BY DoneIsRequest DEF StartFails
<1>3. status' \in [Run -> Status] /\ finished' \subseteq Run
  BY DEF StartFails, WriteEnd, Status, EndStatus, Run
<1> QED
  BY <1>1, <1>2, <1>3 DEF StartFails, agentVars

LEMMA CheckType ==
  ASSUME NEW q \in Req, NEW r \in Run, NEW goal \in Status, IInv,
         Check(q, r, goal)
  PROVE  TypeOK'
<1> USE DEF IInv, TypeOK
<1>1. op' \in [Req -> Request]
  BY DoneIsRequest DEF Check, Request, OpPc
<1> QED
  BY <1>1 DEF Check, dbVars, wireVars, agentVars

LEMMA PlanIsRequest ==
  ASSUME NEW x \in Request, NEW plan \in Seq(Targets)
  PROVE  [x EXCEPT !.pc = "send", !.plan = plan] \in Request
BY DEF Request, OpPc

LEMMA MakePlanType ==
  ASSUME NEW q \in StopReq \cup PauseReq, IInv, MakePlan(q) PROVE TypeOK'
<1> DEFINE r == op[q].run
           phase == CASE op[q].goal = "cancelled" -> "stop"
                      [] op[q].goal = "paused" -> "pause"
                      [] OTHER -> "resume"
           target(o) == Target(phase, place[r][o], "both")
<1>1. PICK plan \in IF r \notin tracked THEN {<< >>}
                    ELSE IF place[r]["client"] = place[r]["server"]
                    THEN {<<target("client")>>}
                    ELSE {<<target("client"), target("server")>>,
                          <<target("server"), target("client")>>} :
        op' = [op EXCEPT ![q].pc = "send", ![q].plan = plan]
  BY DEF MakePlan
<1>2. phase \in RunPhase
  BY DEF RunPhase
<1>3. plan \in Seq(Targets)
  <2>1. CASE r \notin tracked
    <3>1. plan = << >>
      BY <1>1, <2>1
    <3> QED
      BY <3>1
  <2>2. CASE r \in tracked
    <3>1. \A o \in Role : place[r][o] \in Agent
      BY <2>2 DEF Placed, IInv, Bookkeeping, TypeOK
    <3>2. \A o \in Role : target(o) \in Targets
      BY <1>2, <3>1 DEF Target, Targets, IInv, TypeOK
    <3>3. target("client") \in Targets /\ target("server") \in Targets
      BY <3>2 DEF Role
    <3>4. \/ plan = <<target("client")>>
          \/ plan = <<target("client"), target("server")>>
          \/ plan = <<target("server"), target("client")>>
      BY <1>1, <2>2
    <3> HIDE DEF target
    <3>5. \A x, y \in Targets : <<x>> \in Seq(Targets) /\ <<x, y>> \in Seq(Targets)
      OBVIOUS
    <3> QED
      BY <3>3, <3>4, <3>5
  <2> QED
    BY <2>1, <2>2
<1>4. op[q] \in Request /\ op \in [Req -> Request]
  BY DEF IInv, TypeOK, Req
<1>5. op' = [op EXCEPT ![q] = [op[q] EXCEPT !.pc = "send", !.plan = plan]]
  BY <1>1, <1>4 DEF Req
<1>6. op' \in [Req -> Request]
  BY <1>3, <1>4, <1>5, PlanIsRequest
<1> QED
  BY <1>6 DEF MakePlan, dbVars, wireVars, agentVars, IInv, TypeOK

LEMMA StopFinishesType ==
  ASSUME NEW q \in StopReq, IInv, StopFinishes(q) PROVE TypeOK'
<1> USE DEF IInv, Bookkeeping, TypeOK
<1>1. op[q].run \in Run
  BY DEF StopFinishes, AtEnd, RequestsAreLate, RequestIsLate, Late
<1>2. op' \in [Req -> Request]
  BY ZenonT(90) DEF StopFinishes, Request, OpPc, Req
<1>3. status' \in [Run -> Status] /\ finished' \subseteq Run
  BY <1>1 DEF StopFinishes, WriteEnd, Status, EndStatus
<1> QED
  BY <1>2, <1>3 DEF StopFinishes, wireVars, agentVars

LEMMA ReleaseType ==
  ASSUME TypeOK, NEW r \in Run, ReleaseRun(r)
  PROVE  /\ activeRun' \in Run \cup {None}
         /\ tracked' \subseteq Run
         /\ completed' \in [Run -> SUBSET (Agent \X Role)]
BY DEF TypeOK, ReleaseRun

LEMMA StopClearsType ==
  ASSUME NEW q \in StopReq, IInv, StopClears(q) PROVE TypeOK'
<1> USE DEF IInv, Bookkeeping, TypeOK
<1>1. op[q].run \in Run
  BY DEF StopClears, RequestsAreLate, RequestIsLate, Late
<1>2. op' \in [Req -> Request]
  BY DoneIsRequest DEF StopClears
<1> QED
  BY <1>1, <1>2, ReleaseType DEF StopClears, dbVars, wireVars, agentVars

LEMMA PauseSucceedsType ==
  ASSUME NEW q \in PauseReq, IInv, PauseSucceeds(q) PROVE TypeOK'
<1> USE DEF IInv, TypeOK
<1>1. op' \in [Req -> Request]
  BY DoneIsRequest DEF PauseSucceeds
<1>2. op[q].goal \in Status
  BY DEF Request, Req
<1>3. status' \in [Run -> Status]
  BY <1>2 DEF PauseSucceeds
<1> QED
  BY <1>1, <1>3 DEF PauseSucceeds, wireVars, agentVars

LEMMA PauseFailsType ==
  ASSUME NEW q \in PauseReq, IInv, PauseFails(q) PROVE TypeOK'
<1> USE DEF IInv, TypeOK
<1>1. op' \in [Req -> Request]
  BY DoneIsRequest DEF PauseFails
<1> QED
  BY <1>1 DEF PauseFails, dbVars, wireVars, agentVars

LEMMA NextIsRequest ==
  ASSUME NEW x \in Request
  PROVE  /\ [x EXCEPT !.pc = "send", !.next = x.next + 1] \in Request
         /\ [x EXCEPT !.pc = "error"] \in Request
<1>1. x.next + 1 \in Nat \ {0}
  BY DEF Request
<1>2. [x EXCEPT !.pc = "send", !.next = x.next + 1] \in Request
  BY <1>1 DEF Request, OpPc
<1>3. [x EXCEPT !.pc = "error"] \in Request
  BY DEF Request, OpPc
<1> QED
  BY <1>2, <1>3

LEMMA CommandErrorType ==
  ASSUME TypeOK, NEW q \in Req, CommandError(q) PROVE op' \in [Req -> Request]
<1>1. op[q] \in Request /\ op \in [Req -> Request]
  BY DEF TypeOK
<1>2. CASE q \in StopReq
  <2>1. op' = [op EXCEPT ![q] = [op[q] EXCEPT !.pc = "send",
                                              !.next = op[q].next + 1]]
    BY <1>2, <1>1 DEF CommandError
  <2> QED
    BY <1>1, <2>1, NextIsRequest
<1>3. CASE q \notin StopReq
  <2>1. op' = [op EXCEPT ![q] = [op[q] EXCEPT !.pc = "error"]]
    BY <1>3, <1>1 DEF CommandError
  <2> QED
    BY <1>1, <2>1, NextIsRequest
<1> QED
  BY <1>2, <1>3

LEMMA RequestDroppedType ==
  ASSUME NEW q \in Req, IInv, RequestDropped(q) PROVE TypeOK'
<1> USE DEF IInv, TypeOK
<1>1. op' \in [Req -> Request]
  BY DoneIsRequest DEF RequestDropped
<1>2. status' \in [Run -> Status]
  BY DEF RequestDropped, Status, LiveStatus
<1>3. startLock' \in Run \cup {None}
  BY DEF RequestDropped
<1>4. faults' \in 0 .. MaxFaults
  BY BoundsAreNatural DEF RequestDropped
<1> QED
  BY <1>1, <1>2, <1>3, <1>4 DEF RequestDropped, wireVars, agentVars

LEMMA SendCommandType ==
  ASSUME NEW q \in Req, IInv, SendCommand(q) PROVE TypeOK'
<1> USE DEF IInv, Bookkeeping, TypeOK
<1>1. op[q].run \in Run
  <2>1. CASE q \in StartReq
    BY <2>1 DEF SendCommand, Starting, InProgress, Run
  <2>2. CASE q \in StopReq \cup PauseReq
    BY <2>2 DEF SendCommand, RequestsAreLate, RequestIsLate, Late
  <2> QED
    BY <2>1, <2>2 DEF Req
<1>2. Current(q) \in Targets
  <2>1. /\ op[q].plan \in Seq(Targets)
        /\ op[q].next \in Nat \ {0}
        /\ op[q].next <= Len(op[q].plan)
    <3>1. op[q] \in Request
      BY DEF Req
    <3> QED
      BY <3>1 DEF SendCommand, Request
  <2> QED
    BY <2>1 DEF Current
<1>3. CASE Open(Current(q).agent, Current(q).gen)
  <2> DEFINE m == [phase |-> Current(q).phase, run |-> op[q].run,
                   role |-> Current(q).role, req |-> q]
  <2>1. m \in Command
    BY <1>1, <1>2 DEF Targets, Command
  <2>2. toAgent' = [toAgent EXCEPT ![Current(q).agent] = Append(@, m)]
    BY <1>3 DEF SendCommand
  <2>3. toAgent' \in [Agent -> Seq(Command)]
    <3> HIDE DEF m
    <3>1. \A s \in Seq(Command) : Append(s, m) \in Seq(Command)
      BY <2>1
    <3> QED
      BY <2>2, <3>1
  <2>4. op' \in [Req -> Request]
    <3>1. [op[q] EXCEPT !.pc = "wait"] \in Request
      BY ZenonT(90) DEF Request, OpPc
    <3>2. op' = [op EXCEPT ![q] = [op[q] EXCEPT !.pc = "wait"]]
      BY <1>3 DEF SendCommand
    <3> QED
      BY <3>1, <3>2
  <2> QED
    BY <2>3, <2>4 DEF SendCommand, dbVars, agentVars
<1>4. CASE ~Open(Current(q).agent, Current(q).gen)
  <2>1. op' \in [Req -> Request] /\ UNCHANGED toAgent
    BY <1>4, CommandErrorType DEF SendCommand
  <2> QED
    BY <2>1 DEF SendCommand, dbVars, agentVars
<1> QED
  BY <1>3, <1>4

LEMMA CommandTimeoutType ==
  ASSUME NEW q \in Req, IInv, CommandTimeout(q) PROVE TypeOK'
<1>1. op' \in [Req -> Request]
  BY CommandErrorType DEF CommandTimeout, IInv
<1> QED
  BY <1>1 DEF CommandTimeout, dbVars, wireVars, agentVars, IInv, TypeOK

(* The session tasks.                                                         *)

LEMMA StepType ==
  ASSUME TypeOK, NEW a \in Agent, NEW g \in Gen, NEW t \in SessionTask,
         Step(a, g, t)
  PROVE  task' \in [Agent -> [Gen -> SessionTask]]
BY DEF TypeOK, Step

LEMMA TasksAreSessionTasks ==
  NoTask \in SessionTask /\ Reading \in SessionTask /\ Ended \in SessionTask
BY DEF NoTask, Reading, Ended, SessionTask, TaskPc

LEMMA NestedType ==
  ASSUME NEW S, NEW f \in [Agent -> [Gen -> S]],
         NEW a \in Agent, NEW g \in Gen, NEW v \in S
  PROVE  [f EXCEPT ![a][g] = v] \in [Agent -> [Gen -> S]]
OBVIOUS

LEMMA ConsumeType ==
  ASSUME TypeOK, NEW a \in Agent, NEW g \in Gen, toControl[a][g] # << >>
  PROVE  /\ Consume(a, g) =>
              toControl' \in [Agent -> [Gen -> Seq(Ack \cup Event)]]
         /\ Head(toControl[a][g]) \in Ack \cup Event
<1>1. toControl[a][g] \in Seq(Ack \cup Event)
  BY DEF TypeOK
<1> HIDE DEF Ack, Event
<1>2. Tail(toControl[a][g]) \in Seq(Ack \cup Event)
  BY <1>1
<1>3. Head(toControl[a][g]) \in Ack \cup Event
  BY <1>1
<1>4. ASSUME Consume(a, g)
      PROVE  toControl' \in [Agent -> [Gen -> Seq(Ack \cup Event)]]
  <2>1. toControl' = [toControl EXCEPT ![a][g] = Tail(toControl[a][g])]
    BY <1>4 DEF Consume
  <2>2. toControl \in [Agent -> [Gen -> Seq(Ack \cup Event)]]
    BY DEF TypeOK
  <2> QED
    BY <1>2, <2>1, <2>2, NestedType
<1> QED
  BY <1>3, <1>4

LEMMA ReceiveAckType ==
  ASSUME NEW a \in Agent, NEW g \in Gen, IInv, ReceiveAck(a, g)
  PROVE  TypeOK'
<1> DEFINE m == Head(toControl[a][g])
<1>1. TypeOK /\ toControl[a][g] # << >> /\ m.kind = "ack"
  BY DEF IInv, ReceiveAck, Incoming
<1>2. m \in Ack /\ toControl' \in [Agent -> [Gen -> Seq(Ack \cup Event)]]
  <2>1. m \in Ack \cup Event /\ toControl' \in [Agent -> [Gen -> Seq(Ack \cup Event)]]
    BY <1>1, ConsumeType DEF ReceiveAck
  <2> QED
    BY <1>1, <2>1 DEF Event
<1>3. m.req \in Req /\ op \in [Req -> Request] /\ op[m.req] \in Request
  BY <1>1, <1>2 DEF Ack, TypeOK
<1> HIDE DEF m
<1>4. \/ UNCHANGED op
      \/ op' = [op EXCEPT ![m.req].pc = "send", ![m.req].next = @ + 1]
      \/ CommandError(m.req)
  BY DEF ReceiveAck, m
<1>5. op' \in [Req -> Request]
  <2>1. CASE op' = [op EXCEPT ![m.req].pc = "send", ![m.req].next = @ + 1]
    <3>1. op' = [op EXCEPT ![m.req] = [op[m.req] EXCEPT !.pc = "send",
                                            !.next = op[m.req].next + 1]]
      BY <2>1, <1>3
    <3> QED
      BY <1>3, <3>1, NextIsRequest
  <2> QED
    BY <1>1, <1>3, <1>4, <2>1, CommandErrorType
<1> QED
  BY <1>1, <1>2, <1>5 DEF TypeOK, ReceiveAck, dbVars, agentVars

LEMMA ReceiveErrorType ==
  ASSUME NEW a \in Agent, NEW g \in Gen, IInv, ReceiveError(a, g)
  PROVE  TypeOK'
<1> DEFINE m == Head(toControl[a][g])
           t == [Reading EXCEPT !.pc = "db", !.run = m.run, !.verdict = "failed"]
<1>1. TypeOK /\ toControl[a][g] # << >> /\ m.kind = "error"
  BY DEF IInv, ReceiveError, Incoming
<1>2. m \in Ack \cup Event /\ toControl' \in [Agent -> [Gen -> Seq(Ack \cup Event)]]
  BY <1>1, ConsumeType DEF ReceiveError
<1>3. m.run \in Run
  BY <1>1, <1>2 DEF Ack, Event
<1> HIDE DEF m
<1>4. t \in SessionTask
  BY <1>3 DEF Reading, NoTask, SessionTask, TaskPc, EndStatus
<1>5. CASE SendStops(Reachable, m.run) /\ Step(a, g, t)
  <2>1. toAgent' \in [Agent -> Seq(Command)]
    BY <1>1, <1>3, <1>5, StopsType
  <2>2. task' \in [Agent -> [Gen -> SessionTask]]
    BY <1>1, <1>4, <1>5, StepType
  <2> QED
    BY <1>1, <1>2, <2>1, <2>2 DEF TypeOK, ReceiveError, dbVars, agentVars
<1>6. CASE UNCHANGED <<toAgent, task>>
  BY <1>1, <1>2, <1>6 DEF TypeOK, ReceiveError, dbVars, agentVars
<1> QED
  BY <1>5, <1>6 DEF ReceiveError, m

LEMMA ReceiveCompletedType ==
  ASSUME NEW a \in Agent, NEW g \in Gen, IInv, ReceiveCompleted(a, g)
  PROVE  TypeOK'
<1> DEFINE m == Head(toControl[a][g])
           t == [Reading EXCEPT !.pc = "complete", !.run = m.run, !.role = m.role]
<1>1. TypeOK /\ toControl[a][g] # << >> /\ m.kind = "run_completed"
  BY DEF IInv, ReceiveCompleted, Incoming
<1>2. m \in Ack \cup Event /\ toControl' \in [Agent -> [Gen -> Seq(Ack \cup Event)]]
  BY <1>1, ConsumeType DEF ReceiveCompleted
<1>3. m.run \in Run /\ m.role \in Role
  BY <1>1, <1>2 DEF Ack, Event
<1> HIDE DEF m
<1>4. t \in SessionTask
  BY <1>3 DEF Reading, NoTask, SessionTask, TaskPc
<1>5. task' \in [Agent -> [Gen -> SessionTask]]
  <2>1. CASE Step(a, g, t)
    BY <1>1, <1>4, <2>1, StepType
  <2>2. CASE UNCHANGED task
    BY <1>1, <2>2 DEF TypeOK
  <2> QED
    BY <2>1, <2>2 DEF ReceiveCompleted, m
<1> QED
  BY <1>1, <1>2, <1>5 DEF TypeOK, ReceiveCompleted, dbVars, agentVars

LEMMA CountCompletionType ==
  ASSUME NEW a \in Agent, NEW g \in Gen, IInv, CountCompletion(a, g)
  PROVE  TypeOK'
<1> DEFINE t == task[a][g]
<1>1. TypeOK /\ t \in SessionTask /\ t.run \in Run /\ t.role \in Role
  BY DEF IInv, Bookkeeping, TypeOK, CountCompletion, SessionsAreLate, TaskIsLate, Late
<1>2. [t EXCEPT !.pc = "db", !.verdict = "completed"] \in SessionTask
  BY <1>1 DEF SessionTask, TaskPc, EndStatus
<1>3. task' \in [Agent -> [Gen -> SessionTask]]
  BY <1>1, <1>2, StepType, TasksAreSessionTasks DEF CountCompletion
<1>4. completed' \in [Run -> SUBSET (Agent \X Role)]
  BY <1>1 DEF TypeOK, CountCompletion
<1> QED
  BY <1>1, <1>3, <1>4 DEF TypeOK, CountCompletion, dbVars, wireVars, agentVars

LEMMA FinishWritesType ==
  ASSUME NEW a \in Agent, NEW g \in Gen, IInv, FinishWrites(a, g)
  PROVE  TypeOK'
<1> DEFINE t == task[a][g]
<1>1. /\ TypeOK /\ t \in SessionTask /\ t.run \in Run
      /\ t.verdict \in EndStatus
  BY DEF IInv, Bookkeeping, TypeOK, FinishWrites, SessionsAreLate, TaskIsLate, Late
<1>2. [t EXCEPT !.pc = "clear"] \in SessionTask
  BY <1>1 DEF SessionTask, TaskPc
<1>3. task' \in [Agent -> [Gen -> SessionTask]]
  BY <1>1, <1>2, StepType DEF FinishWrites
<1>4. status' \in [Run -> Status] /\ finished' \subseteq Run
  BY <1>1 DEF TypeOK, FinishWrites, WriteEnd, Status
<1> QED
  BY <1>1, <1>3, <1>4 DEF TypeOK, FinishWrites, wireVars, agentVars

LEMMA FinishClearsType ==
  ASSUME NEW a \in Agent, NEW g \in Gen, IInv, FinishClears(a, g)
  PROVE  TypeOK'
<1>1. TypeOK /\ task[a][g].run \in Run
  BY DEF IInv, Bookkeeping, FinishClears, SessionsAreLate, TaskIsLate, Late
<1>2. task' \in [Agent -> [Gen -> SessionTask]]
  BY <1>1, StepType, TasksAreSessionTasks DEF FinishClears
<1> QED
  BY <1>1, <1>2, ReleaseType DEF TypeOK, FinishClears, dbVars, wireVars, agentVars

LEMMA StreamEndsType ==
  ASSUME NEW a \in Agent, NEW g \in Gen, IInv, StreamEnds(a, g)
  PROVE  TypeOK'
<1>1. TypeOK /\ [Ended EXCEPT !.pc = "lost"] \in SessionTask
  BY DEF IInv, Ended, NoTask, SessionTask, TaskPc
<1>2. task' \in [Agent -> [Gen -> SessionTask]]
  BY <1>1, StepType, TasksAreSessionTasks DEF StreamEnds
<1>3. toControl' \in [Agent -> [Gen -> Seq(Ack \cup Event)]]
  <2>1. << >> \in Seq(Ack \cup Event)
    OBVIOUS
  <2>2. /\ toControl' = [toControl EXCEPT ![a][g] = << >>]
        /\ toControl \in [Agent -> [Gen -> Seq(Ack \cup Event)]]
    BY <1>1 DEF StreamEnds, TypeOK
  <2> HIDE DEF Ack, Event
  <2> QED
    BY <2>1, <2>2, NestedType
<1>4. faults' \in 0 .. MaxFaults
  BY <1>1, BoundsAreNatural DEF StreamEnds, TypeOK
<1>5. session' \in [Agent -> 0 .. MaxGen]
  <2>1. 0 \in 0 .. MaxGen
    BY BoundsAreNatural
  <2>2. UNCHANGED session \/ session' = [session EXCEPT ![a] = 0]
    BY DEF StreamEnds
  <2> QED
    BY <1>1, <2>1, <2>2 DEF TypeOK
<1>6. UNCHANGED <<startLock, activeRun, tracked, completed, op, dbVars, toAgent,
                  agentVars>>
  BY DEF StreamEnds
<1> HIDE DEF Ack, Event
<1> QED
  BY <1>1, <1>2, <1>3, <1>4, <1>5, <1>6 DEF TypeOK, dbVars, agentVars

LEMMA CheckParticipantType ==
  ASSUME NEW a \in Agent, NEW g \in Gen, IInv, CheckParticipant(a, g)
  PROVE  TypeOK'
<1>1. TypeOK /\ [Ended EXCEPT !.pc = "degrade", !.run = activeRun] \in SessionTask
  BY DEF IInv, TypeOK, Ended, NoTask, SessionTask, TaskPc
<1>2. task' \in [Agent -> [Gen -> SessionTask]]
  BY <1>1, StepType, TasksAreSessionTasks DEF CheckParticipant
<1> QED
  BY <1>1, <1>2 DEF TypeOK, CheckParticipant, dbVars, wireVars, agentVars

LEMMA WriteDegradedType ==
  ASSUME NEW a \in Agent, NEW g \in Gen, IInv, WriteDegraded(a, g)
  PROVE  TypeOK'
<1>1. TypeOK /\ task[a][g] \in SessionTask
  BY DEF IInv, TypeOK
<1>2. [task[a][g] EXCEPT !.pc = "sleep"] \in SessionTask
  BY <1>1 DEF SessionTask, TaskPc
<1>3. task' \in [Agent -> [Gen -> SessionTask]]
  BY <1>1, <1>2, StepType DEF WriteDegraded
<1>4. status' \in [Run -> Status]
  BY <1>1 DEF TypeOK, WriteDegraded, Status, LiveStatus
<1> QED
  BY <1>1, <1>3, <1>4 DEF TypeOK, WriteDegraded, wireVars, agentVars

LEMMA GraceExpiresType ==
  ASSUME NEW a \in Agent, NEW g \in Gen, IInv, GraceExpires(a, g)
  PROVE  TypeOK'
<1> DEFINE t == task[a][g]
<1>1. TypeOK /\ t \in SessionTask /\ t.run \in Run
  BY ZenonT(90) DEF IInv, Bookkeeping, TypeOK, GraceExpires, SessionsAreLate, TaskIsLate, Late
<1>2. [t EXCEPT !.pc = "db", !.verdict = "failed"] \in SessionTask
  BY <1>1 DEF SessionTask, TaskPc, EndStatus
<1>3. task' \in [Agent -> [Gen -> SessionTask]]
  BY <1>1, <1>2, StepType, TasksAreSessionTasks DEF GraceExpires
<1>4. toAgent' \in [Agent -> Seq(Command)]
  <2>1. CASE UNCHANGED toAgent
    BY <1>1, <2>1 DEF TypeOK
  <2>2. CASE SendStops(Reachable, t.run)
    BY <1>1, <2>2, StopsType
  <2> QED
    BY <2>1, <2>2 DEF GraceExpires
<1> QED
  BY <1>1, <1>3, <1>4 DEF TypeOK, GraceExpires, dbVars, agentVars

(* The Agents.                                                                *)

LEMMA JobUpdates ==
  ASSUME NEW j \in Job
  PROVE  /\ [j EXCEPT !.state = "killed", !.paused = FALSE] \in Job
         /\ [j EXCEPT !.state = "failed", !.paused = FALSE] \in Job
         /\ [j EXCEPT !.state = "draining", !.paused = FALSE] \in Job
         /\ [j EXCEPT !.state = "draining"] \in Job
         /\ [j EXCEPT !.state = "reported"] \in Job
         /\ \A b \in BOOLEAN : [j EXCEPT !.paused = b] \in Job
BY DEF Job, JobState

LEMMA ConnectType ==
  ASSUME NEW a \in Agent, IInv, Connect(a) PROVE TypeOK'
<1>1. TypeOK
  BY DEF IInv
<1>2. lastGen[a] + 1 \in Gen /\ lastGen[a] + 1 \in 0 .. MaxGen
  BY <1>1, BoundsAreNatural DEF TypeOK, Connect, Gen
<1>3. task' \in [Agent -> [Gen -> SessionTask]]
  BY <1>1, <1>2, StepType, TasksAreSessionTasks DEF Connect
<1>4. /\ conn' \in [Agent -> 0 .. MaxGen]
      /\ lastGen' \in [Agent -> 0 .. MaxGen]
      /\ session' \in [Agent -> 0 .. MaxGen]
  BY <1>1, <1>2 DEF TypeOK, Connect
<1> QED
  BY <1>1, <1>3, <1>4 DEF TypeOK, Connect, dbVars, wireVars

LEMMA LeaveType ==
  ASSUME TypeOK, NEW a \in Agent, LeaveConnection(a)
  PROVE  /\ conn' \in [Agent -> 0 .. MaxGen]
         /\ prepared' \in [Agent -> [Role -> Run \cup {None}]]
         /\ toAgent' \in [Agent -> Seq(Command)]
<1>1. conn' \in [Agent -> 0 .. MaxGen]
  BY BoundsAreNatural DEF TypeOK, LeaveConnection
<1>2. prepared' \in [Agent -> [Role -> Run \cup {None}]]
  BY DEF TypeOK, LeaveConnection
<1>3. toAgent' \in [Agent -> Seq(Command)]
  BY DEF TypeOK, LeaveConnection
<1> QED
  BY <1>1, <1>2, <1>3

LEMMA DisconnectType ==
  ASSUME NEW a \in Agent, IInv, Disconnect(a) PROVE TypeOK'
<1>1. TypeOK
  BY DEF IInv
<1>2. faults' \in 0 .. MaxFaults
  BY <1>1, BoundsAreNatural DEF TypeOK, Disconnect
<1> QED
  BY <1>1, <1>2, LeaveType DEF TypeOK, Disconnect, controlVars, dbVars

LEMMA AgentCrashType ==
  ASSUME NEW a \in Agent, IInv, AgentCrash(a) PROVE TypeOK'
<1>1. TypeOK
  BY DEF IInv
<1>2. faults' \in 0 .. MaxFaults
  <2>1. faults < MaxFaults /\ faults' = faults + 1
    BY DEF AgentCrash
  <2> QED
    BY <1>1, <2>1, BoundsAreNatural DEF TypeOK
<1>3. \A r \in Run, o \in Role :
        /\ job[r][o] \in Job
        /\ [job[r][o] EXCEPT !.state = "killed", !.paused = FALSE] \in Job
  <2> TAKE r \in Run, o \in Role
  <2>1. job[r][o] \in Job
    BY <1>1 DEF TypeOK
  <2> QED
    BY <2>1, JobUpdates
<1>4. job' \in [Run -> [Role -> Job]]
  BY <1>3 DEF AgentCrash
<1> QED
  BY <1>1, <1>2, <1>4, LeaveType DEF TypeOK, AgentCrash, controlVars, dbVars

LEMMA SendToControlType ==
  ASSUME TypeOK, NEW a, NEW g, NEW m \in Ack \cup Event, SendToControl(a, g, m)
  PROVE  toControl' \in [Agent -> [Gen -> Seq(Ack \cup Event)]]
<1> HIDE DEF Ack, Event
<1>1. toControl \in [Agent -> [Gen -> Seq(Ack \cup Event)]]
  BY DEF TypeOK
<1>2. CASE a \in Agent /\ g \in Gen
  <2>1. Append(toControl[a][g], m) \in Seq(Ack \cup Event)
    BY <1>1, <1>2
  <2>2. CASE task[a][g].live
    <3>1. toControl' = [toControl EXCEPT ![a][g] = Append(toControl[a][g], m)]
      BY <2>2 DEF SendToControl
    <3> QED
      BY <1>1, <1>2, <2>1, <3>1, NestedType
  <2>3. CASE ~task[a][g].live
    BY <1>1, <1>2, <2>3 DEF SendToControl
  <2> QED
    BY <2>2, <2>3
<1>3. CASE ~(a \in Agent /\ g \in Gen)
  BY <1>1, <1>3 DEF SendToControl
<1> QED
  BY <1>2, <1>3

LEMMA HeadType ==
  ASSUME TypeOK, NEW a \in Agent, NEW phases, Handling(a, phases)
  PROVE  /\ Head(toAgent[a]) \in Command
         /\ Tail(toAgent[a]) \in Seq(Command)
         /\ Head(toAgent[a]).phase \in phases
         /\ conn[a] \in Gen
<1>1. toAgent[a] \in Seq(Command) /\ toAgent[a] # << >>
  BY DEF TypeOK, Handling
<1>2. conn[a] \in Gen
  BY BoundsAreNatural DEF TypeOK, Handling, Gen
<1> HIDE DEF Command
<1> QED
  BY <1>1, <1>2 DEF Handling

LEMMA ReplyType ==
  ASSUME TypeOK, NEW a \in Agent, NEW phases, Handling(a, phases),
         NEW ok \in BOOLEAN, Reply(a, ok)
  PROVE  /\ toAgent' \in [Agent -> Seq(Command)]
         /\ toControl' \in [Agent -> [Gen -> Seq(Ack \cup Event)]]
<1> DEFINE m == Head(toAgent[a])
           ack == [kind |-> "ack", req |-> m.req, phase |-> m.phase,
                   role |-> m.role, ok |-> ok]
<1>1. m \in Command /\ Tail(toAgent[a]) \in Seq(Command)
  BY HeadType
<1>2. toAgent' \in [Agent -> Seq(Command)]
  <2>1. toAgent' = [toAgent EXCEPT ![a] = Tail(toAgent[a])]
    BY DEF Reply
  <2> QED
    BY <1>1, <2>1 DEF TypeOK
<1>3. CASE m.req = None
  BY <1>2, <1>3 DEF Reply, TypeOK
<1>4. CASE m.req # None
  <2>1. /\ m.req \in Req
        /\ m.phase \in Phase
        /\ m.role \in Role \cup {"both"}
    BY <1>1, <1>4 DEF Command, Phase
  <2>2. ack \in Ack \cup Event
    <3> HIDE DEF m
    <3> QED
      BY <2>1 DEF Ack
  <2>3. SendToControl(a, conn[a], ack)
    BY <1>4 DEF Reply
  <2> QED
    BY <1>2, <2>2, <2>3, SendToControlType
<1> QED
  BY <1>3, <1>4

LEMMA AgentPrepareType ==
  ASSUME NEW a \in Agent, IInv, AgentPrepare(a) PROVE TypeOK'
<1> DEFINE m == Head(toAgent[a])
<1>1. TypeOK /\ Handling(a, {"prepare"}) /\ Reply(a, TRUE)
  BY DEF IInv, AgentPrepare
<1>2. /\ toAgent' \in [Agent -> Seq(Command)]
      /\ toControl' \in [Agent -> [Gen -> Seq(Ack \cup Event)]]
  BY <1>1, ReplyType
<1>3. m.run \in Run
  BY <1>1, HeadType DEF Command
<1>4. prepared' \in [Agent -> [Role -> Run \cup {None}]]
  BY <1>1, <1>3 DEF AgentPrepare, TypeOK
<1> QED
  BY <1>1, <1>2, <1>4 DEF TypeOK, AgentPrepare, controlVars, dbVars

LEMMA AgentStartType ==
  ASSUME NEW a \in Agent, IInv, AgentStart(a) PROVE TypeOK'
<1> DEFINE o == Head(toAgent[a]).role
           r == prepared[a][o]
<1>1. TypeOK /\ Handling(a, {"start"}) /\ (Reply(a, TRUE) \/ Reply(a, FALSE))
  BY DEF IInv, AgentStart
<1>2. /\ toAgent' \in [Agent -> Seq(Command)]
      /\ toControl' \in [Agent -> [Gen -> Seq(Ack \cup Event)]]
  BY <1>1, ReplyType
<1>3. job' \in [Run -> [Role -> Job]]
  <2>1. conn[a] \in Gen /\ o \in Role
    <3>1. Head(toAgent[a]) \in Command /\ Head(toAgent[a]).phase = "start"
      BY <1>1, HeadType
    <3> QED
      BY <1>1, <3>1, HeadType DEF Command, RunPhase
  <2>2. [state |-> "running", gen |-> conn[a], paused |-> FALSE] \in Job
    BY <1>1, <2>1 DEF Job, JobState, TypeOK
  <2>3. r \in Run \cup {None}
    BY <1>1, <2>1 DEF TypeOK
  <2>4. CASE r # None /\ job' = [job EXCEPT ![r][o] =
                 [state |-> "running", gen |-> conn[a], paused |-> FALSE]]
    BY <1>1, <2>1, <2>2, <2>3, <2>4 DEF TypeOK
  <2>5. CASE UNCHANGED job
    BY <1>1, <2>5 DEF TypeOK
  <2> QED
    BY <2>4, <2>5 DEF AgentStart
<1> QED
  BY <1>1, <1>2, <1>3 DEF TypeOK, AgentStart, controlVars, dbVars

LEMMA AgentStopType ==
  ASSUME NEW a \in Agent, IInv, AgentStop(a) PROVE TypeOK'
<1> DEFINE r == Head(toAgent[a]).run
<1>1. TypeOK /\ Handling(a, {"stop"}) /\ Reply(a, TRUE)
  BY DEF IInv, AgentStop
<1>2. /\ toAgent' \in [Agent -> Seq(Command)]
      /\ toControl' \in [Agent -> [Gen -> Seq(Ack \cup Event)]]
  BY <1>1, ReplyType
<1>3. r \in Run
  BY <1>1, HeadType DEF Command
<1>4. \A o \in Role :
        /\ job[r][o] \in Job
        /\ [job[r][o] EXCEPT !.state = "draining", !.paused = FALSE] \in Job
  <2> TAKE o \in Role
  <2>1. job[r][o] \in Job
    BY <1>1, <1>3 DEF TypeOK
  <2> QED
    BY <2>1, JobUpdates
<1>5. job' \in [Run -> [Role -> Job]]
  BY <1>1, <1>3, <1>4 DEF AgentStop, TypeOK
<1> QED
  BY <1>1, <1>2, <1>5 DEF TypeOK, AgentStop, controlVars, dbVars

LEMMA AgentSetPausedType ==
  ASSUME NEW a \in Agent, IInv, AgentSetPaused(a) PROVE TypeOK'
<1> DEFINE m == Head(toAgent[a])
           r == m.run
<1>1. TypeOK /\ Handling(a, {"pause", "resume"}) /\ Reply(a, TRUE)
  BY DEF IInv, AgentSetPaused
<1>2. /\ toAgent' \in [Agent -> Seq(Command)]
      /\ toControl' \in [Agent -> [Gen -> Seq(Ack \cup Event)]]
  BY <1>1, ReplyType
<1>3. r \in Run
  BY <1>1, HeadType DEF Command
<1>4. \A o \in Role :
        /\ job[r][o] \in Job
        /\ [job[r][o] EXCEPT !.paused = (m.phase = "pause")] \in Job
  <2> TAKE o \in Role
  <2>1. job[r][o] \in Job
    BY <1>1, <1>3 DEF TypeOK
  <2> QED
    BY <2>1, JobUpdates
<1>5. job' \in [Run -> [Role -> Job]]
  BY <1>1, <1>3, <1>4 DEF AgentSetPaused, TypeOK
<1> QED
  BY <1>1, <1>2, <1>5 DEF TypeOK, AgentSetPaused, controlVars, dbVars

(* The jobs, and the restart of Control.                                      *)

LEMMA ReportType ==
  ASSUME TypeOK, NEW r \in Run, NEW o \in Role,
         NEW kind \in {"error", "run_completed"}, Report(r, o, kind)
  PROVE  toControl' \in [Agent -> [Gen -> Seq(Ack \cup Event)]]
<1> DEFINE m == [kind |-> kind, run |-> r, role |-> o]
<1>1. m \in Ack \cup Event
  BY DEF Event
<1>2. CASE SendToControl(place[r][o], conn[place[r][o]], m)
  BY <1>1, <1>2, SendToControlType
<1>3. CASE UNCHANGED toControl
  BY <1>3 DEF TypeOK
<1> QED
  BY <1>2, <1>3 DEF Report

LEMMA JobUpdateType ==
  ASSUME NEW f \in [Run -> [Role -> Job]],
         NEW r \in Run, NEW o \in Role, NEW j \in Job
  PROVE  [f EXCEPT ![r][o] = j] \in [Run -> [Role -> Job]]
OBVIOUS

LEMMA JobStepType ==
  ASSUME NEW r \in Run, NEW o \in Role, IInv,
         JobElapses(r, o) \/ JobReports(r, o) \/ JobFails(r, o)
  PROVE  TypeOK'
<1>1. TypeOK /\ job[r][o] \in Job /\ job \in [Run -> [Role -> Job]]
  BY DEF IInv, TypeOK
<1>2. CASE JobElapses(r, o)
  <2>1. job' = [job EXCEPT ![r][o] = [job[r][o] EXCEPT !.state = "draining"]]
    BY <1>1, <1>2 DEF JobElapses
  <2>2. job' \in [Run -> [Role -> Job]]
    BY <1>1, <2>1, JobUpdates, JobUpdateType
  <2> QED
    BY <1>1, <1>2, <2>2 DEF JobElapses, TypeOK, controlVars, dbVars, wireVars
<1>3. CASE JobReports(r, o)
  <2>1. job' = [job EXCEPT ![r][o] = [job[r][o] EXCEPT !.state = "reported"]]
    BY <1>1, <1>3 DEF JobReports
  <2>2. job' \in [Run -> [Role -> Job]]
    BY <1>1, <2>1, JobUpdates, JobUpdateType
  <2>3. toControl' \in [Agent -> [Gen -> Seq(Ack \cup Event)]]
    BY <1>1, <1>3, ReportType DEF JobReports
  <2> QED
    BY <1>1, <1>3, <2>2, <2>3 DEF JobReports, TypeOK, controlVars, dbVars
<1>4. CASE JobFails(r, o)
  <2>1. job' = [job EXCEPT ![r][o] = [job[r][o] EXCEPT !.state = "failed",
                                                       !.paused = FALSE]]
    BY <1>1, <1>4 DEF JobFails
  <2>2. job' \in [Run -> [Role -> Job]]
    BY <1>1, <2>1, JobUpdates, JobUpdateType
  <2>3. toControl' \in [Agent -> [Gen -> Seq(Ack \cup Event)]]
    BY <1>1, <1>4, ReportType DEF JobFails
  <2> QED
    BY <1>1, <1>4, <2>2, <2>3 DEF JobFails, TypeOK, controlVars, dbVars
<1> QED
  BY <1>2, <1>3, <1>4

LEMMA ControlRestartType == ASSUME IInv, ControlRestart PROVE TypeOK'
<1>1. TypeOK
  BY DEF IInv
<1>2. faults' \in 0 .. MaxFaults
  <2>1. faults < MaxFaults /\ faults' = faults + 1
    BY DEF ControlRestart
  <2> QED
    BY <1>1, <2>1, BoundsAreNatural DEF TypeOK
<1>3. op' \in [Req -> Request]
  BY DoneIsRequest DEF ControlRestart
<1>4. task' \in [Agent -> [Gen -> SessionTask]]
  BY TasksAreSessionTasks DEF ControlRestart
<1>5. status' \in [Run -> Status] /\ finished' \subseteq Run
  BY <1>1 DEF ControlRestart, TypeOK, Status, EndStatus
<1>6. toControl' \in [Agent -> [Gen -> Seq(Ack \cup Event)]]
  BY DEF ControlRestart
<1>7. /\ session' \in [Agent -> 0 .. MaxGen]
      /\ completed' \in [Run -> SUBSET (Agent \X Role)]
      /\ tracked' \subseteq Run
      /\ startLock' = None /\ activeRun' = None
  BY BoundsAreNatural DEF ControlRestart
<1> QED
  BY <1>1, <1>2, <1>3, <1>4, <1>5, <1>6, <1>7
     DEF TypeOK, ControlRestart, agentVars

LEMMA TypeStep == ASSUME IInv, [Next]_vars PROVE TypeOK'
<1>1. CASE RequestStep
  BY <1>1, StartBeginType, StartSucceedsType, StartFailsType, CheckType,
     StopFinishesType, StopClearsType, PauseSucceedsType, PauseFailsType,
     MakePlanType, SendCommandType, CommandTimeoutType, RequestDroppedType
     DEF RequestStep, StopBegin, PauseBegin, Req, Status, LiveStatus, EndStatus
<1>2. CASE SessionStep
  BY <1>2, ReceiveAckType, ReceiveErrorType, ReceiveCompletedType,
     CountCompletionType, FinishWritesType, FinishClearsType, StreamEndsType,
     CheckParticipantType, WriteDegradedType, GraceExpiresType
     DEF SessionStep
<1>3. CASE AgentStep
  BY <1>3, ConnectType, DisconnectType, AgentCrashType, AgentPrepareType,
     AgentStartType, AgentStopType, AgentSetPausedType DEF AgentStep
<1>4. CASE JobStep
  BY <1>4, JobStepType DEF JobStep
<1>5. CASE ControlRestart
  BY <1>5, ControlRestartType
<1>6. CASE UNCHANGED vars
  BY <1>6 DEF IInv, TypeOK, vars, controlVars, dbVars, wireVars, agentVars
<1> QED
  BY <1>1, <1>2, <1>3, <1>4, <1>5, <1>6 DEF Next

-----------------------------------------------------------------------------
(* The bookkeeping.  Most steps touch none of it or only one task or request.  *)

LEMMA RunIsNotNone == \A r \in Run : r # None
BY RequestsAreDistinct DEF Run

LEMMA FrameKeeps ==
  ASSUME Bookkeeping,
         UNCHANGED <<startLock, activeRun, tracked, op, task, status, finished,
                     place>>
  PROVE  Bookkeeping'
BY DEF Bookkeeping, Placed, Starting, Recorded, RequestsAreLate, RequestIsLate,
       SessionsAreLate, TaskIsLate, Late, NoRunIsLeftBehind

(* A run stays late while finished only grows and activeRun only gives a       *)
(* finished run away.                                                         *)
LateKept ==
  /\ finished \subseteq finished'
  /\ activeRun' = activeRun \/ activeRun = None \/ activeRun \in finished'

LEMMA LateStays ==
  ASSUME LateKept
  PROVE  /\ \A r \in Run : Late(r, activeRun, finished) => Late(r, activeRun', finished')
         /\ \A t : TaskIsLate(t, activeRun, finished) =>
                     TaskIsLate(t, activeRun', finished')
         /\ \A q, x : RequestIsLate(q, x, activeRun, finished) =>
                        RequestIsLate(q, x, activeRun', finished')
BY RequestsAreDistinct DEF LateKept, Late, Run, TaskIsLate, RequestIsLate

LEMMA SessionsStayLate ==
  ASSUME TypeOK, SessionsAreLate, LateKept
  PROVE  /\ UNCHANGED task => SessionsAreLate'
         /\ \A a \in Agent, g \in Gen, t \in SessionTask :
              Step(a, g, t) /\ TaskIsLate(t, activeRun', finished') =>
                SessionsAreLate'
<1>1. \A b \in Agent, h \in Gen : TaskIsLate(task[b][h], activeRun', finished')
  BY LateStays DEF SessionsAreLate
<1>2. ASSUME UNCHANGED task PROVE SessionsAreLate'
  BY <1>1, <1>2 DEF SessionsAreLate
<1>3. ASSUME NEW a \in Agent, NEW g \in Gen, NEW t \in SessionTask,
             Step(a, g, t), TaskIsLate(t, activeRun', finished')
      PROVE  SessionsAreLate'
  <2>1. \A b \in Agent, h \in Gen :
          task'[b][h] = IF b = a /\ h = g THEN t ELSE task[b][h]
    BY <1>3 DEF Step, TypeOK
  <2> QED
    BY <1>1, <1>3, <2>1 DEF SessionsAreLate
<1> QED
  BY <1>2, <1>3

LEMMA RequestsStayLate ==
  ASSUME TypeOK, RequestsAreLate, LateKept
  PROVE  /\ UNCHANGED op => RequestsAreLate'
         /\ \A q \in Req, x \in Request :
              /\ op' = [op EXCEPT ![q] = x]
              /\ q \in StopReq \cup PauseReq =>
                   RequestIsLate(q, x, activeRun', finished')
              => RequestsAreLate'
<1>1. \A p \in StopReq \cup PauseReq :
        RequestIsLate(p, op[p], activeRun', finished')
  BY LateStays DEF RequestsAreLate
<1>2. ASSUME UNCHANGED op PROVE RequestsAreLate'
  BY <1>1, <1>2 DEF RequestsAreLate
<1>3. ASSUME NEW q \in Req, NEW x \in Request, op' = [op EXCEPT ![q] = x],
             q \in StopReq \cup PauseReq =>
               RequestIsLate(q, x, activeRun', finished')
      PROVE  RequestsAreLate'
  <2>1. \A p \in Req : op'[p] = IF p = q THEN x ELSE op[p]
    BY <1>3 DEF TypeOK
  <2> QED
    BY <1>1, <1>3, <2>1 DEF RequestsAreLate, Req
<1> QED
  BY <1>2, <1>3

(* start_run                                                                  *)

LEMMA StartBeginKeeps ==
  ASSUME NEW q \in StartReq, IInv, StartBegin(q) PROVE Bookkeeping'
<1>1. PICK x \in Request :
        /\ op' = [op EXCEPT ![q] = x]
        /\ x.pc = "send" /\ x.run = q
        /\ op \in [Req -> Request] /\ q \in Req
  <2>1. op' \in [Req -> Request] /\ op \in [Req -> Request] /\ q \in Req
    BY StartBeginType DEF IInv, TypeOK, Req
  <2>2. op'[q].pc = "send" /\ op'[q].run = q /\ op' = [op EXCEPT ![q] = op'[q]]
    BY <2>1 DEF StartBegin
  <2> QED
    BY <2>1, <2>2
<1>2. PICK c, s \in Agent :
        place' = [place EXCEPT ![q] = [o \in Role |->
                                         IF o = "client" THEN c ELSE s]]
  BY DEF StartBegin
<1>3. /\ status \in [Run -> Status] /\ status' = [status EXCEPT ![q] = "preparing"]
      /\ place \in [Run -> [Role -> Agent \cup {None}]]
      /\ UNCHANGED <<activeRun, tracked, finished, task>> /\ startLock' = q
      /\ startLock = None /\ activeRun = None /\ q \in Run /\ q # None
      /\ op[q].pc = "idle"
  BY RequestsAreDistinct DEF StartBegin, IInv, TypeOK, Run
<1>4. Placed'
  BY <1>1, <1>2, <1>3 DEF Placed, IInv, Bookkeeping, Run, Req
<1>5. Starting'
  BY <1>1, <1>3, RunIsNotNone DEF Starting, InProgress, IInv, Bookkeeping, Run, Req
<1>6. Recorded'
  BY <1>3 DEF Recorded, IInv, Bookkeeping, EndStatus
<1>7. RequestsAreLate' /\ SessionsAreLate'
  BY <1>1, <1>3, RequestsAreDistinct, RequestsStayLate, SessionsStayLate
     DEF LateKept, IInv, Bookkeeping
<1>8. NoRunIsLeftBehind'
  BY <1>1, <1>3 DEF NoRunIsLeftBehind, Starting, IInv, Bookkeeping, Run, Req, LiveStatus
<1> QED
  BY <1>4, <1>5, <1>6, <1>7, <1>8 DEF Bookkeeping

LEMMA StartSucceedsKeeps ==
  ASSUME NEW q \in StartReq, IInv, StartSucceeds(q) PROVE Bookkeeping'
<1>1. /\ op' = [op EXCEPT ![q] = DoneOp] /\ DoneOp \in Request /\ DoneOp.pc = "done"
      /\ op \in [Req -> Request] /\ q \in Req /\ op[q].pc = "send"
  BY DoneIsRequest DEF StartSucceeds, AtEnd, DoneOp, NoOp, IInv, TypeOK, Req
<1>2. /\ status \in [Run -> Status] /\ status' = [status EXCEPT ![q] = "running"]
      /\ UNCHANGED <<finished, task, place>>
      /\ startLock' = None /\ activeRun' = q /\ tracked' = tracked \cup {q}
      /\ q \in Run /\ q # None
  BY RequestsAreDistinct DEF StartSucceeds, agentVars, IInv, TypeOK, Run
<1>3. startLock = q /\ activeRun = None
  BY <1>1, <1>2 DEF IInv, Bookkeeping, Starting, InProgress
<1>4. Placed'
  BY <1>1, <1>2 DEF Placed, IInv, Bookkeeping, Run, Req
<1>5. Starting'
  BY <1>1, <1>2, <1>3, RunIsNotNone DEF Starting, InProgress, IInv, Bookkeeping, Run, Req
<1>6. Recorded'
  BY <1>2 DEF Recorded, IInv, Bookkeeping, EndStatus
<1>7. RequestsAreLate' /\ SessionsAreLate'
  BY <1>1, <1>2, <1>3, RequestsAreDistinct, RequestsStayLate, SessionsStayLate
     DEF LateKept, IInv, Bookkeeping
<1>8. NoRunIsLeftBehind'
  BY <1>1, <1>2, <1>3 DEF NoRunIsLeftBehind, IInv, Bookkeeping, Run, Req
<1> QED
  BY <1>4, <1>5, <1>6, <1>7, <1>8 DEF Bookkeeping

LEMMA StartFailsKeeps ==
  ASSUME NEW q \in StartReq, IInv, StartFails(q) PROVE Bookkeeping'
<1>1. /\ op' = [op EXCEPT ![q] = DoneOp] /\ DoneOp \in Request /\ DoneOp.pc = "done"
      /\ op \in [Req -> Request] /\ q \in Req /\ op[q].pc = "error"
  BY DoneIsRequest DEF StartFails, DoneOp, NoOp, IInv, TypeOK, Req
<1>2. /\ status \in [Run -> Status] /\ status' = [status EXCEPT ![q] = "failed"]
      /\ finished' = finished \cup {q}
      /\ UNCHANGED <<activeRun, tracked, task, place>>
      /\ startLock' = None /\ q \in Run /\ q # None
  BY RequestsAreDistinct DEF StartFails, WriteEnd, agentVars, IInv, TypeOK, Run
<1>3. startLock = q /\ activeRun = None
  BY <1>1, <1>2 DEF IInv, Bookkeeping, Starting, InProgress
<1>4. Placed'
  BY <1>1, <1>2 DEF Placed, IInv, Bookkeeping, Run, Req
<1>5. Starting'
  BY <1>1, <1>2, <1>3, RunIsNotNone DEF Starting, InProgress, IInv, Bookkeeping, Run, Req
<1>6. Recorded'
  BY <1>2 DEF Recorded, IInv, Bookkeeping, EndStatus
<1>7. RequestsAreLate' /\ SessionsAreLate'
  BY <1>1, <1>2, RequestsAreDistinct, RequestsStayLate, SessionsStayLate
     DEF LateKept, IInv, Bookkeeping
<1>8. NoRunIsLeftBehind'
  BY <1>1, <1>2, <1>3 DEF NoRunIsLeftBehind, IInv, Bookkeeping, Run, Req, LiveStatus
<1> QED
  BY <1>4, <1>5, <1>6, <1>7, <1>8 DEF Bookkeeping

(* The other requests and the session tasks leave the start requests alone.   *)
StartsUntouched == \A r \in Run : op'[r] = op[r]
RunFrame == StartsUntouched /\ UNCHANGED <<startLock, activeRun, tracked, place>>
RunsInOrder == Placed /\ Starting /\ Recorded /\ NoRunIsLeftBehind

LEMMA IdleRunsKeep ==
  ASSUME IInv, RunFrame, UNCHANGED <<status, finished>> PROVE RunsInOrder'
<1>1. Placed' /\ Starting'
  BY DEF IInv, Bookkeeping, RunFrame, StartsUntouched, Placed, Starting
<1>2. Recorded' /\ NoRunIsLeftBehind'
  BY DEF IInv, Bookkeeping, RunFrame, StartsUntouched, Recorded, NoRunIsLeftBehind
<1> QED
  BY <1>1, <1>2 DEF RunsInOrder

LEMMA StatusKeeps ==
  ASSUME IInv, RunFrame,
         NEW r \in Run, Late(r, activeRun, finished),
         NEW s \in Status, s # "none", status' = [status EXCEPT ![r] = s],
         finished' = finished \cup {r} \/ (finished' = finished /\ s \notin EndStatus)
  PROVE  RunsInOrder'
<1>1. status \in [Run -> Status] /\ status[r] # "none"
  BY RunIsNotNone DEF IInv, Bookkeeping, TypeOK, Late, Recorded
<1>2. Placed' /\ Starting'
  BY <1>1 DEF IInv, Bookkeeping, RunFrame, StartsUntouched, Placed, Starting
<1>3. Recorded' /\ NoRunIsLeftBehind'
  BY <1>1 DEF IInv, Bookkeeping, RunFrame, StartsUntouched, Recorded,
              NoRunIsLeftBehind, Late
<1> QED
  BY <1>2, <1>3 DEF RunsInOrder

LEMMA ReleaseKeeps ==
  ASSUME IInv, StartsUntouched, NEW r \in finished, ReleaseRun(r),
         UNCHANGED <<startLock, place, status, finished>>
  PROVE  RunsInOrder'
<1>1. /\ tracked' = tracked \ {r}
      /\ activeRun' = IF activeRun = r THEN None ELSE activeRun
  BY DEF ReleaseRun
<1>2. Placed' /\ Starting'
  BY <1>1 DEF IInv, Bookkeeping, StartsUntouched, Placed, Starting
<1>3. Recorded' /\ NoRunIsLeftBehind'
  BY <1>1 DEF IInv, Bookkeeping, StartsUntouched, Recorded, NoRunIsLeftBehind
<1> QED
  BY <1>2, <1>3 DEF RunsInOrder

LEMMA OtherRequest ==
  ASSUME TypeOK, NEW q \in StopReq \cup PauseReq, NEW x,
         op' = [op EXCEPT ![q] = x]
  PROVE  StartsUntouched
BY RequestsAreDistinct DEF StartsUntouched, TypeOK, Run, Req

(* A request's command loop: it moves on, stays in progress, keeps its run.    *)
LEMMA CommandKeeps ==
  ASSUME IInv, NEW q \in Req, op[q].pc \in {"send", "wait"},
         NEW x \in Request, x.pc \in {"send", "wait", "error"},
         x.run = op[q].run, x.goal = op[q].goal, op' = [op EXCEPT ![q] = x],
         UNCHANGED <<startLock, activeRun, tracked, status, finished, place, task>>
  PROVE  Bookkeeping'
<1>1. op \in [Req -> Request] /\ LateKept
  BY DEF IInv, TypeOK, LateKept
<1>2. RequestsAreLate' /\ SessionsAreLate'
  <2>1. q \in StopReq \cup PauseReq => RequestIsLate(q, x, activeRun', finished')
    BY DEF IInv, Bookkeeping, RequestsAreLate, RequestIsLate
  <2> QED
    BY <1>1, <2>1, RequestsStayLate, SessionsStayLate DEF IInv, Bookkeeping
<1>3. RunsInOrder'
  <2>1. CASE q \in StopReq \cup PauseReq
    BY <2>1, OtherRequest, IdleRunsKeep DEF RunFrame, IInv
  <2>2. CASE q \in StartReq
    <3>1. \A r \in Run : /\ op'[r].pc \in InProgress <=> op[r].pc \in InProgress
                         /\ op'[r].run = op[r].run
                         /\ \/ op'[r].pc = op[r].pc
                            \/ {op'[r].pc, op[r].pc} \subseteq InProgress
      BY <1>1, <2>2 DEF InProgress, Run, Req
    <3>2. Placed' /\ Starting'
      BY <3>1 DEF IInv, Bookkeeping, Placed, Starting, InProgress
    <3>3. Recorded' /\ NoRunIsLeftBehind'
      BY <3>1 DEF IInv, Bookkeeping, Recorded, NoRunIsLeftBehind, InProgress
    <3> QED
      BY <3>2, <3>3 DEF RunsInOrder
  <2> QED
    BY <2>1, <2>2 DEF Req
<1> QED
  BY <1>2, <1>3 DEF Bookkeeping, RunsInOrder

LEMMA CommandErrorKeeps ==
  ASSUME IInv, NEW q \in Req, op[q].pc \in {"send", "wait"}, CommandError(q),
         UNCHANGED <<startLock, activeRun, tracked, status, finished, place, task>>
  PROVE  Bookkeeping'
<1>1. op[q] \in Request /\ op \in [Req -> Request]
  BY DEF IInv, TypeOK
<1>2. PICK x \in Request : /\ x.pc \in {"send", "error"} /\ x.run = op[q].run
                           /\ x.goal = op[q].goal
                           /\ op' = [op EXCEPT ![q] = x]
  <2>1. CASE q \in StopReq
    <3> DEFINE y == [op[q] EXCEPT !.pc = "send", !.next = op[q].next + 1]
    <3>1. y \in Request /\ y.pc = "send" /\ y.run = op[q].run
                            /\ y.goal = op[q].goal
      BY <1>1, NextIsRequest DEF Request
    <3>2. op' = [op EXCEPT ![q] = y]
      BY <2>1 DEF CommandError
    <3> QED
      BY <3>1, <3>2
  <2>2. CASE q \notin StopReq
    <3> DEFINE y == [op[q] EXCEPT !.pc = "error"]
    <3>1. y \in Request /\ y.pc = "error" /\ y.run = op[q].run
                            /\ y.goal = op[q].goal
      BY <1>1, NextIsRequest DEF Request
    <3>2. op' = [op EXCEPT ![q] = y]
      BY <2>2 DEF CommandError
    <3> QED
      BY <3>1, <3>2
  <2> QED
    BY <2>1, <2>2
<1> QED
  BY <1>2, CommandKeeps

LEMMA SendCommandKeeps ==
  ASSUME NEW q \in Req, IInv, SendCommand(q) PROVE Bookkeeping'
<1>1. /\ op \in [Req -> Request] /\ op[q] \in Request /\ op[q].pc = "send"
      /\ UNCHANGED <<startLock, activeRun, tracked, status, finished, place, task>>
  BY DEF SendCommand, dbVars, agentVars, IInv, TypeOK
<1>2. CASE op' = [op EXCEPT ![q].pc = "wait"]
  <2>1. op' = [op EXCEPT ![q] = [op[q] EXCEPT !.pc = "wait"]]
    BY <1>1, <1>2
  <2>2. op' \in [Req -> Request]
    BY SendCommandType DEF TypeOK
  <2>3. /\ op' = [op EXCEPT ![q] = op'[q]] /\ op'[q] \in Request
        /\ op'[q].pc = "wait" /\ op'[q].run = op[q].run
        /\ op'[q].goal = op[q].goal
    BY <1>1, <2>1, <2>2 DEF Request
  <2> QED
    BY <1>1, <2>3, CommandKeeps
<1>3. CASE CommandError(q)
  BY <1>1, <1>3, CommandErrorKeeps
<1> QED
  BY <1>2, <1>3 DEF SendCommand

LEMMA CommandTimeoutKeeps ==
  ASSUME NEW q \in Req, IInv, CommandTimeout(q) PROVE Bookkeeping'
BY CommandErrorKeeps DEF CommandTimeout, dbVars, agentVars

LEMMA ReceiveAckKeeps ==
  ASSUME NEW a \in Agent, NEW g \in Gen, IInv, ReceiveAck(a, g)
  PROVE  Bookkeeping'
<1> DEFINE m == Head(toControl[a][g])
<1>1. /\ TypeOK /\ op \in [Req -> Request]
      /\ toControl[a][g] # << >> /\ m.kind = "ack"
      /\ UNCHANGED <<startLock, activeRun, tracked, status, finished, place, task>>
  BY DEF IInv, TypeOK, ReceiveAck, Incoming, dbVars, agentVars
<1>2. m.req \in Req
  <2>1. m \in Ack \cup Event
    BY <1>1, ConsumeType
  <2> QED
    BY <1>1, <2>1 DEF Ack, Event
<1> HIDE DEF m
<1>3. \/ UNCHANGED op
      \/ /\ op[m.req].pc = "wait"
         /\ \/ op' = [op EXCEPT ![m.req].pc = "send", ![m.req].next = @ + 1]
            \/ CommandError(m.req)
  BY DEF ReceiveAck, m
<1>4. CASE UNCHANGED op
  BY <1>1, <1>4, FrameKeeps DEF IInv
<1>5. CASE /\ op[m.req].pc = "wait"
           /\ op' = [op EXCEPT ![m.req].pc = "send", ![m.req].next = @ + 1]
  <2> DEFINE x == [op[m.req] EXCEPT !.pc = "send", !.next = op[m.req].next + 1]
  <2>1. op' = [op EXCEPT ![m.req] = x] /\ op[m.req] \in Request
    BY <1>1, <1>2, <1>5
  <2>2. x \in Request /\ x.pc = "send" /\ x.run = op[m.req].run
        /\ x.goal = op[m.req].goal
    BY <2>1, NextIsRequest DEF Request
  <2> HIDE DEF x
  <2> QED
    BY <1>1, <1>2, <1>5, <2>1, <2>2, CommandKeeps
<1>6. CASE op[m.req].pc = "wait" /\ CommandError(m.req)
  BY <1>1, <1>2, <1>6, CommandErrorKeeps
<1> QED
  BY <1>3, <1>4, <1>5, <1>6

LEMMA RequestDroppedKeeps ==
  ASSUME NEW q \in Req, IInv, RequestDropped(q) PROVE Bookkeeping'
<1>1. /\ op' = [op EXCEPT ![q] = DroppedOp] /\ DroppedOp \in Request
      /\ DroppedOp.pc = "dropped" /\ op \in [Req -> Request]
      /\ op[q].pc \in {"plan", "send", "wait", "error", "clear"}
      /\ startLock' = IF startLock = q THEN None ELSE startLock
      /\ UNCHANGED <<activeRun, tracked, finished, place, task>> /\ TypeOK
  BY DoneIsRequest DEF RequestDropped, agentVars, IInv, TypeOK, DroppedOp, NoOp
<1>2. RequestsAreLate' /\ SessionsAreLate'
  BY <1>1, RequestsStayLate, SessionsStayLate
     DEF LateKept, RequestIsLate, IInv, Bookkeeping
<1>3. CASE q \in StartReq
  <2>1. /\ q \in Run /\ op[q].pc # "idle"
        /\ \A r \in Run : op'[r] = IF r = q THEN DroppedOp ELSE op[r]
        /\ status \in [Run -> Status]
        /\ UNCHANGED status \/ status' = [status EXCEPT ![q] = "running"]
    BY <1>1, <1>3 DEF Run, Req, TypeOK, RequestDropped
  <2>2. startLock = q
    BY <1>1, <2>1 DEF IInv, Bookkeeping, Starting, InProgress
  <2>3. Placed'
    BY <1>1, <2>1 DEF Placed, IInv, Bookkeeping
  <2>4. Starting'
    BY <1>1, <2>1, <2>2, RunIsNotNone DEF Starting, InProgress, IInv, Bookkeeping
  <2>5. Recorded'
    BY <1>1, <2>1 DEF Recorded, IInv, Bookkeeping, EndStatus, TypeOK
  <2>6. NoRunIsLeftBehind'
    BY <1>1, <2>1, <2>2 DEF NoRunIsLeftBehind, IInv, Bookkeeping
  <2> QED
    BY <1>2, <2>3, <2>4, <2>5, <2>6 DEF Bookkeeping
<1>4. CASE q \in StopReq \cup PauseReq
  <2>1. startLock # q
    BY <1>4, RequestsAreDistinct DEF IInv, TypeOK, Run
  <2>2. UNCHANGED status
    BY <1>4, RequestsAreDistinct DEF RequestDropped
  <2> QED
    BY <1>1, <1>2, <1>4, <2>1, <2>2, OtherRequest, IdleRunsKeep
       DEF RunFrame, Bookkeeping, RunsInOrder
<1> QED
  BY <1>3, <1>4 DEF Req

(* stop_run and set_run_paused                                                *)

LEMMA CheckKeeps ==
  ASSUME NEW q \in StopReq \cup PauseReq, NEW r \in Run, NEW goal \in Status,
         q \in PauseReq => goal \in {"paused", "running"},
         IInv, Check(q, r, goal)
  PROVE  Bookkeeping'
<1> DEFINE x == [NoOp EXCEPT !.pc = "plan", !.run = r, !.goal = goal]
<1>1. /\ op' = [op EXCEPT ![q] = x] /\ activeRun = r /\ TypeOK /\ q \in Req
      /\ UNCHANGED <<startLock, activeRun, tracked, status, finished, place, task>>
  BY DEF Check, dbVars, agentVars, IInv, Req
<1>2. x \in Request /\ x.pc = "plan" /\ x.run = r /\ x.goal = goal
  BY DoneIsRequest DEF NoOp, Request, OpPc
<1> HIDE DEF x
<1>3. RequestsAreLate' /\ SessionsAreLate'
  BY <1>1, <1>2, RequestsStayLate, SessionsStayLate
     DEF LateKept, RequestIsLate, Late, IInv, Bookkeeping
<1> QED
  BY <1>1, <1>3, OtherRequest, IdleRunsKeep DEF RunFrame, Bookkeeping, RunsInOrder

LEMMA MakePlanKeeps ==
  ASSUME NEW q \in StopReq \cup PauseReq, IInv, MakePlan(q) PROVE Bookkeeping'
<1>1. PICK plan : op' = [op EXCEPT ![q].pc = "send", ![q].plan = plan]
  BY DEF MakePlan
<1>2. /\ op \in [Req -> Request] /\ q \in Req /\ op[q].pc = "plan" /\ TypeOK
      /\ UNCHANGED <<startLock, activeRun, tracked, status, finished, place, task>>
  BY DEF MakePlan, dbVars, agentVars, IInv, TypeOK, Req
<1>3. /\ op' = [op EXCEPT ![q] = op'[q]] /\ op'[q].pc = "send"
      /\ op'[q].run = op[q].run /\ op'[q].goal = op[q].goal /\ op'[q] \in Request
  <2>1. op' = [op EXCEPT ![q] = [op[q] EXCEPT !.pc = "send", !.plan = plan]]
    BY <1>1, <1>2
  <2>2. op'[q] = [op[q] EXCEPT !.pc = "send", !.plan = plan] /\ op[q] \in Request
    BY <1>2, <2>1
  <2>3. op'[q].pc = "send" /\ op'[q].run = op[q].run /\ op'[q].goal = op[q].goal
    BY <2>2 DEF Request
  <2>4. op'[q] \in Request
    BY <1>2, MakePlanType DEF TypeOK
  <2> QED
    BY <1>2, <2>1, <2>2, <2>3, <2>4
<1>4. RequestIsLate(q, op'[q], activeRun', finished')
  BY <1>2, <1>3 DEF RequestIsLate, IInv, Bookkeeping, RequestsAreLate
<1>5. RequestsAreLate' /\ SessionsAreLate'
  BY <1>2, <1>3, <1>4, RequestsStayLate, SessionsStayLate
     DEF LateKept, IInv, Bookkeeping
<1> QED
  BY <1>2, <1>3, <1>5, OtherRequest, IdleRunsKeep
     DEF RunFrame, Bookkeeping, RunsInOrder

LEMMA StopFinishesKeeps ==
  ASSUME NEW q \in StopReq, IInv, StopFinishes(q) PROVE Bookkeeping'
<1> DEFINE r == op[q].run
           x == [op[q] EXCEPT !.pc = "clear"]
<1>1. /\ TypeOK /\ op \in [Req -> Request] /\ q \in Req /\ op[q].pc = "send"
      /\ UNCHANGED <<startLock, activeRun, tracked, place, task>>
      /\ status' = [status EXCEPT ![r] = "cancelled"]
      /\ finished' = finished \cup {r}
  BY DEF StopFinishes, AtEnd, WriteEnd, agentVars, IInv, TypeOK, Req
<1>2. Late(r, activeRun, finished)
  BY <1>1 DEF IInv, Bookkeeping, RequestsAreLate, RequestIsLate
<1>3. op' = [op EXCEPT ![q] = x]
  BY <1>1 DEF StopFinishes
<1>4. x \in Request /\ x.pc = "clear" /\ x.run = r /\ q \notin PauseReq
  BY <1>1, RequestsAreDistinct DEF Request, OpPc
<1> HIDE DEF x
<1>5. RequestsAreLate' /\ SessionsAreLate'
  BY <1>1, <1>2, <1>3, <1>4, RequestsStayLate, SessionsStayLate
     DEF LateKept, RequestIsLate, Late, IInv, Bookkeeping
<1>6. RunsInOrder'
  BY <1>1, <1>2, <1>3, OtherRequest, StatusKeeps
     DEF RunFrame, Late, Status, EndStatus
<1> QED
  BY <1>5, <1>6 DEF Bookkeeping, RunsInOrder

LEMMA StopClearsKeeps ==
  ASSUME NEW q \in StopReq, IInv, StopClears(q) PROVE Bookkeeping'
<1> DEFINE r == op[q].run
<1>1. /\ TypeOK /\ q \in Req /\ op[q].pc = "clear"
      /\ ReleaseRun(r) /\ op' = [op EXCEPT ![q] = DoneOp]
      /\ DoneOp \in Request /\ DoneOp.pc = "done"
      /\ UNCHANGED <<startLock, place, task, status, finished>>
  BY DoneIsRequest DEF StopClears, dbVars, agentVars, IInv, TypeOK, Req, DoneOp, NoOp
<1>2. r \in finished
  BY <1>1 DEF IInv, Bookkeeping, RequestsAreLate, RequestIsLate
<1>3. LateKept
  BY <1>1, <1>2 DEF LateKept, ReleaseRun
<1>4. RequestsAreLate' /\ SessionsAreLate'
  BY <1>1, <1>3, RequestsStayLate, SessionsStayLate
     DEF RequestIsLate, IInv, Bookkeeping
<1> QED
  BY <1>1, <1>2, <1>4, OtherRequest, ReleaseKeeps DEF Bookkeeping, RunsInOrder

LEMMA PauseEndsKeeps ==
  ASSUME NEW q \in PauseReq, IInv, PauseSucceeds(q) \/ PauseFails(q)
  PROVE  Bookkeeping'
<1> DEFINE r == op[q].run
<1>1. /\ TypeOK /\ q \in Req
      /\ op[q].pc \in {"send", "error"} /\ op' = [op EXCEPT ![q] = DoneOp]
      /\ DoneOp \in Request /\ DoneOp.pc = "done"
      /\ UNCHANGED <<startLock, activeRun, tracked, place, task, finished>>
  BY DoneIsRequest DEF PauseSucceeds, PauseFails, AtEnd, dbVars, agentVars, IInv,
     Req, DoneOp, NoOp
<1>2. Late(r, activeRun, finished) /\ op[q].goal \in {"paused", "running"}
  BY <1>1 DEF IInv, Bookkeeping, RequestsAreLate, RequestIsLate
<1>3. RequestsAreLate' /\ SessionsAreLate'
  BY <1>1, RequestsStayLate, SessionsStayLate
     DEF LateKept, RequestIsLate, IInv, Bookkeeping
<1>4. CASE PauseSucceeds(q)
  <2>1. status' = [status EXCEPT ![r] = op[q].goal]
    BY <1>4 DEF PauseSucceeds
  <2> QED
    BY <1>1, <1>2, <1>3, <2>1, OtherRequest, StatusKeeps
       DEF RunFrame, Late, Status, LiveStatus, EndStatus, Bookkeeping, RunsInOrder
<1>5. CASE PauseFails(q)
  BY <1>1, <1>3, <1>5, OtherRequest, IdleRunsKeep
     DEF RunFrame, PauseFails, dbVars, Bookkeeping, RunsInOrder
<1> QED
  BY <1>4, <1>5

(* The session tasks                                                          *)

(* A step of one session task that writes no row and releases no run.         *)
LEMMA TaskKeeps ==
  ASSUME IInv, NEW a \in Agent, NEW g \in Gen, NEW t \in SessionTask,
         Step(a, g, t), TaskIsLate(t, activeRun, finished),
         UNCHANGED <<startLock, activeRun, tracked, op, status, finished, place>>
  PROVE  Bookkeeping'
<1>1. LateKept /\ TypeOK
  BY DEF LateKept, IInv
<1>2. RequestsAreLate' /\ SessionsAreLate'
  BY <1>1, RequestsStayLate, SessionsStayLate DEF IInv, Bookkeeping
<1>3. RunsInOrder'
  BY IdleRunsKeep DEF RunFrame, StartsUntouched
<1> QED
  BY <1>2, <1>3 DEF Bookkeeping, RunsInOrder

LEMMA QuietTasks ==
  /\ TaskIsLate(Reading, activeRun, finished)
  /\ TaskIsLate(Ended, activeRun, finished)
  /\ TaskIsLate([Ended EXCEPT !.pc = "lost"], activeRun, finished)
  /\ [Ended EXCEPT !.pc = "lost"] \in SessionTask
BY DEF TaskIsLate, Reading, Ended, NoTask, SessionTask, TaskPc

LEMMA ReceiveErrorKeeps ==
  ASSUME NEW a \in Agent, NEW g \in Gen, IInv, ReceiveError(a, g)
  PROVE  Bookkeeping'
<1> DEFINE r == Head(toControl[a][g]).run
           t == [Reading EXCEPT !.pc = "db", !.run = r, !.verdict = "failed"]
<1>1. /\ TypeOK
      /\ UNCHANGED <<startLock, activeRun, tracked, op, status, finished, place>>
  BY DEF IInv, ReceiveError, dbVars, agentVars
<1>2. CASE UNCHANGED task
  BY <1>1, <1>2, FrameKeeps DEF IInv
<1>3. CASE activeRun = r /\ Step(a, g, t)
  <2>1. r \in Run
    <3>1. /\ Head(toControl[a][g]) \in Ack \cup Event
          /\ Head(toControl[a][g]).kind = "error"
      BY <1>1, ConsumeType DEF ReceiveError, Incoming
    <3> QED
      BY <3>1 DEF Ack, Event
  <2> HIDE DEF r
  <2>2. t \in SessionTask /\ t.pc = "db" /\ t.run = r /\ t.verdict = "failed"
    BY <2>1 DEF Reading, NoTask, SessionTask, TaskPc, EndStatus
  <2> HIDE DEF t
  <2>3. TaskIsLate(t, activeRun, finished)
    BY <1>3, <2>1, <2>2 DEF TaskIsLate, Late, EndStatus
  <2> QED
    BY <1>1, <1>3, <2>2, <2>3, TaskKeeps
<1> QED
  BY <1>2, <1>3 DEF ReceiveError

LEMMA ReceiveCompletedKeeps ==
  ASSUME NEW a \in Agent, NEW g \in Gen, IInv, ReceiveCompleted(a, g)
  PROVE  Bookkeeping'
<1> DEFINE m == Head(toControl[a][g])
           t == [Reading EXCEPT !.pc = "complete", !.run = m.run, !.role = m.role]
<1>1. /\ TypeOK
      /\ UNCHANGED <<startLock, activeRun, tracked, op, status, finished, place>>
  BY DEF IInv, ReceiveCompleted, dbVars, agentVars
<1>2. CASE UNCHANGED task
  BY <1>1, <1>2, FrameKeeps DEF IInv
<1>3. CASE activeRun = m.run /\ Step(a, g, t)
  <2>1. m.run \in Run /\ m.role \in Role
    <3>1. m \in Ack \cup Event /\ m.kind = "run_completed"
      BY <1>1, ConsumeType DEF ReceiveCompleted, Incoming
    <3> QED
      BY <3>1 DEF Ack, Event
  <2> HIDE DEF m
  <2>2. /\ t \in SessionTask
        /\ t.pc = "complete" /\ t.run = m.run /\ t.role = m.role
    BY <2>1 DEF Reading, NoTask, SessionTask, TaskPc
  <2> HIDE DEF t
  <2>3. TaskIsLate(t, activeRun, finished)
    BY <1>3, <2>1, <2>2 DEF TaskIsLate, Late
  <2> QED
    BY <1>1, <1>3, <2>2, <2>3, TaskKeeps
<1> QED
  BY <1>2, <1>3 DEF ReceiveCompleted

LEMMA CountCompletionKeeps ==
  ASSUME NEW a \in Agent, NEW g \in Gen, IInv, CountCompletion(a, g)
  PROVE  Bookkeeping'
<1> DEFINE t == task[a][g]
           u == [t EXCEPT !.pc = "db", !.verdict = "completed"]
<1>1. /\ TypeOK /\ t \in SessionTask /\ Late(t.run, activeRun, finished)
      /\ Step(a, g, u) \/ Step(a, g, Reading)
      /\ UNCHANGED <<startLock, activeRun, tracked, op, status, finished, place>>
  BY DEF IInv, TypeOK, Bookkeeping, SessionsAreLate, TaskIsLate, CountCompletion,
         dbVars, agentVars
<1>2. u \in SessionTask /\ TaskIsLate(u, activeRun, finished)
  BY <1>1 DEF SessionTask, TaskPc, EndStatus, TaskIsLate
<1> HIDE DEF u
<1> QED
  BY <1>1, <1>2, TaskKeeps, QuietTasks, TasksAreSessionTasks

LEMMA FinishWritesKeeps ==
  ASSUME NEW a \in Agent, NEW g \in Gen, IInv, FinishWrites(a, g)
  PROVE  Bookkeeping'
<1> DEFINE t == task[a][g]
           u == [t EXCEPT !.pc = "clear"]
<1>1. /\ TypeOK /\ t \in SessionTask /\ Late(t.run, activeRun, finished)
      /\ t.verdict \in EndStatus /\ Step(a, g, u)
      /\ status' = [status EXCEPT ![t.run] = t.verdict]
      /\ finished' = finished \cup {t.run}
      /\ UNCHANGED <<startLock, activeRun, tracked, op, place>>
  BY DEF IInv, TypeOK, Bookkeeping, SessionsAreLate, TaskIsLate, FinishWrites,
         WriteEnd, agentVars
<1>2. u \in SessionTask /\ u.pc = "clear" /\ u.run = t.run
  BY <1>1 DEF SessionTask, TaskPc
<1> HIDE DEF u
<1>3. RequestsAreLate' /\ SessionsAreLate'
  <2>1. LateKept /\ TaskIsLate(u, activeRun', finished')
    BY <1>1, <1>2 DEF LateKept, TaskIsLate, Late
  <2> QED
    BY <1>1, <1>2, <2>1, RequestsStayLate, SessionsStayLate DEF IInv, Bookkeeping
<1>4. RunsInOrder'
  BY <1>1, StatusKeeps
     DEF RunFrame, StartsUntouched, Late, Status, EndStatus
<1> QED
  BY <1>3, <1>4 DEF Bookkeeping, RunsInOrder

LEMMA FinishClearsKeeps ==
  ASSUME NEW a \in Agent, NEW g \in Gen, IInv, FinishClears(a, g)
  PROVE  Bookkeeping'
<1> DEFINE r == task[a][g].run
<1>1. /\ TypeOK /\ r \in finished /\ ReleaseRun(r)
      /\ Step(a, g, Reading) \/ Step(a, g, Ended)
      /\ UNCHANGED <<startLock, op, place, status, finished>>
  BY DEF IInv, Bookkeeping, SessionsAreLate, TaskIsLate, FinishClears, dbVars,
         agentVars
<1>2. LateKept
  BY <1>1 DEF LateKept, ReleaseRun
<1>3. RequestsAreLate' /\ SessionsAreLate'
  <2>1. /\ TaskIsLate(Reading, activeRun', finished')
        /\ TaskIsLate(Ended, activeRun', finished')
    BY DEF TaskIsLate, Reading, Ended, NoTask
  <2> QED
    BY <1>1, <1>2, <2>1, RequestsStayLate, SessionsStayLate, TasksAreSessionTasks
       DEF IInv, Bookkeeping
<1>4. RunsInOrder'
  BY <1>1, ReleaseKeeps DEF StartsUntouched
<1> QED
  BY <1>3, <1>4 DEF Bookkeeping, RunsInOrder

LEMMA StreamEndsKeeps ==
  ASSUME NEW a \in Agent, NEW g \in Gen, IInv, StreamEnds(a, g)
  PROVE  Bookkeeping'
<1>1. /\ Step(a, g, [Ended EXCEPT !.pc = "lost"]) \/ Step(a, g, Ended)
      /\ UNCHANGED <<startLock, activeRun, tracked, op, status, finished, place>>
  BY DEF StreamEnds, dbVars, agentVars
<1> QED
  BY <1>1, TaskKeeps, QuietTasks, TasksAreSessionTasks

LEMMA CheckParticipantKeeps ==
  ASSUME NEW a \in Agent, NEW g \in Gen, IInv, CheckParticipant(a, g)
  PROVE  Bookkeeping'
<1> DEFINE t == [Ended EXCEPT !.pc = "degrade", !.run = activeRun]
<1>1. /\ Step(a, g, Ended) \/ (activeRun \in tracked /\ Step(a, g, t))
      /\ UNCHANGED <<startLock, activeRun, tracked, op, status, finished, place>>
  BY DEF CheckParticipant, dbVars, wireVars, agentVars
<1>2. ASSUME activeRun \in tracked
      PROVE  t \in SessionTask /\ TaskIsLate(t, activeRun, finished)
  BY <1>2 DEF IInv, TypeOK, Ended, NoTask, SessionTask, TaskPc, TaskIsLate, Late
<1> HIDE DEF t
<1> QED
  BY <1>1, <1>2, TaskKeeps, QuietTasks, TasksAreSessionTasks

LEMMA WriteDegradedKeeps ==
  ASSUME NEW a \in Agent, NEW g \in Gen, IInv, WriteDegraded(a, g)
  PROVE  Bookkeeping'
<1> DEFINE t == task[a][g]
           u == [t EXCEPT !.pc = "sleep"]
<1>1. /\ TypeOK /\ t \in SessionTask /\ Late(t.run, activeRun, finished)
      /\ Step(a, g, u)
      /\ status' = [status EXCEPT ![t.run] = "degraded"]
      /\ UNCHANGED <<startLock, activeRun, tracked, op, finished, place>>
  BY DEF IInv, TypeOK, Bookkeeping, SessionsAreLate, TaskIsLate, WriteDegraded,
         agentVars
<1>2. u \in SessionTask /\ TaskIsLate(u, activeRun', finished')
  BY <1>1 DEF SessionTask, TaskPc, TaskIsLate
<1> HIDE DEF u
<1>3. RequestsAreLate' /\ SessionsAreLate'
  BY <1>1, <1>2, RequestsStayLate, SessionsStayLate DEF LateKept, IInv, Bookkeeping
<1>4. RunsInOrder'
  BY <1>1, StatusKeeps
     DEF RunFrame, StartsUntouched, Late, Status, LiveStatus, EndStatus
<1> QED
  BY <1>3, <1>4 DEF Bookkeeping, RunsInOrder

LEMMA GraceExpiresKeeps ==
  ASSUME NEW a \in Agent, NEW g \in Gen, IInv, GraceExpires(a, g)
  PROVE  Bookkeeping'
<1> DEFINE t == task[a][g]
           u == [t EXCEPT !.pc = "db", !.verdict = "failed"]
<1>1. /\ TypeOK /\ t \in SessionTask /\ Late(t.run, activeRun, finished)
      /\ Step(a, g, u) \/ Step(a, g, Ended)
      /\ UNCHANGED <<startLock, activeRun, tracked, op, status, finished, place>>
  BY DEF IInv, TypeOK, Bookkeeping, SessionsAreLate, TaskIsLate, GraceExpires,
         dbVars, agentVars
<1>2. u \in SessionTask /\ TaskIsLate(u, activeRun, finished)
  BY <1>1 DEF SessionTask, TaskPc, EndStatus, TaskIsLate
<1> HIDE DEF u
<1> QED
  BY <1>1, <1>2, TaskKeeps, QuietTasks, TasksAreSessionTasks

-----------------------------------------------------------------------------
(* Connections, jobs and the restart                                          *)

LEMMA ConnectKeeps ==
  ASSUME NEW a \in Agent, IInv, Connect(a) PROVE Bookkeeping'
<1>1. lastGen[a] + 1 \in Gen
  BY BoundsAreNatural DEF IInv, TypeOK, Connect, Gen
<1>2. /\ Step(a, lastGen[a] + 1, Reading)
      /\ UNCHANGED <<startLock, activeRun, tracked, op, status, finished, place>>
  BY DEF Connect, dbVars
<1> QED
  BY <1>1, <1>2, TaskKeeps, QuietTasks, TasksAreSessionTasks

LEMMA ControlRestartKeeps == ASSUME IInv, ControlRestart PROVE Bookkeeping'
<1>1. /\ TypeOK /\ startLock' = None /\ activeRun' = None /\ tracked' = {}
      /\ op' = [q \in Req |-> IF op[q].pc = "idle" THEN NoOp ELSE DoneOp]
      /\ NoOp.pc = "idle" /\ DoneOp.pc = "done"
      /\ status' = [r \in Run |-> IF status[r] \in LiveStatus THEN "failed"
                                  ELSE status[r]]
      /\ finished' = finished \cup {r \in Run : status[r] \in LiveStatus}
      /\ UNCHANGED place
  BY DEF ControlRestart, agentVars, IInv, NoOp, DoneOp
<1>2. \A r \in Run : /\ op[r].pc = "idle" => op'[r].pc = "idle"
                     /\ op[r].pc # "idle" => op'[r].pc = "done"
  <2> TAKE r \in Run
  <2>1. op'[r] = IF op[r].pc = "idle" THEN NoOp ELSE DoneOp
    BY <1>1 DEF Run, Req
  <2> QED
    BY <1>1, <2>1
<1>3. Placed'
  BY <1>1, <1>2 DEF Placed, IInv, Bookkeeping
<1>4. Starting'
  <2>1. \A r \in Run : /\ op[r].pc = "idle" <=> status[r] = "none"
                       /\ status'[r] = "none" <=> status[r] = "none"
    BY <1>1 DEF Starting, IInv, Bookkeeping, LiveStatus
  <2>2. startLock' = None /\ activeRun' = None
    BY <1>1
  <2> QED
    BY <1>2, <2>1, <2>2, RunIsNotNone DEF Starting, InProgress
<1>5. Recorded' /\ NoRunIsLeftBehind'
  BY <1>1 DEF Recorded, NoRunIsLeftBehind, IInv, Bookkeeping, TypeOK, Status,
              LiveStatus, EndStatus
<1>6. RequestsAreLate'
  <2>1. \A q \in Req : op'[q].pc \in {"idle", "done"}
    BY <1>1
  <2> QED
    BY <2>1 DEF RequestsAreLate, RequestIsLate, Req
<1>7. SessionsAreLate'
  <2>1. \A a \in Agent, g \in Gen : task'[a][g] \in {NoTask, Ended}
    BY DEF ControlRestart
  <2>2. NoTask.pc = "none" /\ Ended.pc = "ended"
    BY DEF NoTask, Ended
  <2>3. \A a \in Agent, g \in Gen : task'[a][g].pc \in {"none", "ended"}
    BY <2>1, <2>2
  <2> QED
    BY <2>3 DEF SessionsAreLate, TaskIsLate
<1> QED
  BY <1>3, <1>4, <1>5, <1>6, <1>7 DEF Bookkeeping

LEMMA BookkeepingStep == ASSUME IInv, [Next]_vars PROVE Bookkeeping'
<1>1. CASE RequestStep
  BY <1>1, StartBeginKeeps, StartSucceedsKeeps, StartFailsKeeps, CheckKeeps,
     StopFinishesKeeps, StopClearsKeeps, PauseEndsKeeps, MakePlanKeeps,
     SendCommandKeeps, CommandTimeoutKeeps, RequestDroppedKeeps,
     RequestsAreDistinct
     DEF RequestStep, StopBegin, PauseBegin, Status, LiveStatus, EndStatus
<1>2. CASE SessionStep
  BY <1>2, ReceiveAckKeeps, ReceiveErrorKeeps, ReceiveCompletedKeeps,
     CountCompletionKeeps, FinishWritesKeeps, FinishClearsKeeps, StreamEndsKeeps,
     CheckParticipantKeeps, WriteDegradedKeeps, GraceExpiresKeeps
     DEF SessionStep
<1>3. CASE AgentStep
  <2>1. CASE \E a \in Agent : Connect(a)
    BY <2>1, ConnectKeeps
  <2>2. CASE \E a \in Agent :
          \/ Disconnect(a) \/ AgentCrash(a) \/ AgentPrepare(a)
          \/ AgentStart(a) \/ AgentStop(a) \/ AgentSetPaused(a)
    <3>1. UNCHANGED <<startLock, activeRun, tracked, op, task, status, finished,
                      place>>
      BY <2>2 DEF Disconnect, AgentCrash, AgentPrepare, AgentStart, AgentStop,
                  AgentSetPaused, controlVars, dbVars
    <3> QED
      BY <3>1, FrameKeeps DEF IInv
  <2> QED
    BY <1>3, <2>1, <2>2 DEF AgentStep
<1>4. CASE JobStep
  <2>1. UNCHANGED <<startLock, activeRun, tracked, op, task, status, finished,
                    place>>
    BY <1>4 DEF JobStep, JobElapses, JobReports, JobFails, controlVars, dbVars
  <2> QED
    BY <2>1, FrameKeeps DEF IInv
<1>5. CASE ControlRestart
  BY <1>5, ControlRestartKeeps
<1>6. CASE UNCHANGED vars
  BY <1>6, FrameKeeps DEF IInv, vars, controlVars, dbVars, agentVars
<1> QED
  BY <1>1, <1>2, <1>3, <1>4, <1>5, <1>6 DEF Next

-----------------------------------------------------------------------------

(* IInv is inductive.                                                         *)
LEMMA Inductive == Spec => []IInv
<1>1. IInv /\ [Next]_vars => IInv'
  BY TypeStep, BookkeepingStep DEF IInv
<1> QED
  BY <1>1, InitIInv, PTL DEF Spec

(* Every variable keeps its type in every reachable state.                    *)
THEOREM TypeCorrect == Spec => []TypeOK
<1>1. IInv => TypeOK
  BY DEF IInv
<1> QED
  BY <1>1, Inductive, PTL

(* A row that reads as unfinished is always in someone's hands: start_run, the *)
(* active slot, a late UPDATE of a finished run, or a start that was dropped. *)
THEOREM NoRunLeftBehind == Spec => []NoRunIsLeftBehind
<1>1. IInv => NoRunIsLeftBehind
  BY DEF IInv, Bookkeeping
<1> QED
  BY <1>1, Inductive, PTL

-----------------------------------------------------------------------------
(* RunControl implements RunSlot.  Most steps leave the slot alone; the ones   *)
(* that move it map to exactly one step of RunSlot, which the inductive       *)
(* invariant enables.                                                         *)

SlotStep == [Slot!SlotNext]_(Slot!slotVars)

(* What a step that leaves the slot alone keeps.                            *)
SlotFrame ==
  /\ UNCHANGED <<startLock, activeRun, finished>>
  /\ \A r \in Run : status'[r] = "none" <=> status[r] = "none"

LEMMA FrameIsStutter == ASSUME SlotFrame PROVE SlotStep
BY DEF SlotFrame, SlotStep, Slot!slotVars

LEMMA StatusIsFrame ==
  ASSUME IInv, NEW r \in Run, Late(r, activeRun, finished),
         NEW s \in Status, s # "none", status' = [status EXCEPT ![r] = s],
         UNCHANGED <<startLock, activeRun, finished>>
  PROVE  SlotStep
<1>1. status \in [Run -> Status] /\ status[r] # "none"
  BY RunIsNotNone DEF IInv, Bookkeeping, TypeOK, Late, Recorded
<1>2. SlotFrame
  BY <1>1 DEF SlotFrame
<1> QED
  BY <1>2, FrameIsStutter

LEMMA WriteEndRecords ==
  ASSUME IInv, NEW r \in Run, Late(r, activeRun, finished),
         NEW s \in Status, s # "none", WriteEnd(r, s),
         UNCHANGED <<startLock, activeRun>>
  PROVE  SlotStep
<1>1. status \in [Run -> Status] /\ status[r] # "none"
  BY RunIsNotNone DEF IInv, Bookkeeping, TypeOK, Late, Recorded
<1>2. /\ \A x \in Run : status'[x] = "none" <=> status[x] = "none"
      /\ finished' = finished \cup {r}
  BY <1>1 DEF WriteEnd
<1>3. Slot!RecordEnd(r)
  BY <1>1, <1>2 DEF Slot!RecordEnd
<1> QED
  BY <1>3 DEF SlotStep, Slot!SlotNext

LEMMA ReleaseLeaves ==
  ASSUME IInv, NEW r \in finished, ReleaseRun(r),
         UNCHANGED <<startLock, status, finished>>
  PROVE  SlotStep
<1>1. /\ startLock = None /\ r # None
      /\ activeRun' = IF activeRun = r THEN None ELSE activeRun
  BY RunIsNotNone DEF ReleaseRun, IInv, TypeOK
<1>2. CASE activeRun = r
  <2>1. Slot!Leave
    BY <1>1, <1>2 DEF Slot!Leave
  <2> QED
    BY <2>1 DEF SlotStep, Slot!SlotNext
<1>3. CASE activeRun # r
  <2>1. SlotFrame
    BY <1>1, <1>3 DEF SlotFrame
  <2> QED
    BY <2>1, FrameIsStutter
<1> QED
  BY <1>2, <1>3

-----------------------------------------------------------------------------
(* The requests                                                             *)

LEMMA StartBeginTakes ==
  ASSUME NEW q \in StartReq, IInv, StartBegin(q) PROVE SlotStep
<1>1. /\ startLock = None /\ activeRun = None /\ op[q].pc = "idle"
      /\ startLock' = q /\ UNCHANGED <<activeRun, finished>>
      /\ status' = [status EXCEPT ![q] = "preparing"]
      /\ status \in [Run -> Status] /\ q \in Run /\ q # None
  BY RunIsNotNone DEF StartBegin, IInv, TypeOK, Run
<1>2. status[q] = "none"
  BY <1>1 DEF IInv, Bookkeeping, Starting
<1>3. {r \in Run : status'[r] # "none"} = {r \in Run : status[r] # "none"} \cup {q}
  BY <1>1
<1>4. Slot!Take(q)
  BY <1>1, <1>2, <1>3 DEF Slot!Take
<1> QED
  BY <1>1, <1>4 DEF SlotStep, Slot!SlotNext

LEMMA StartSucceedsBegins ==
  ASSUME NEW q \in StartReq, IInv, StartSucceeds(q) PROVE SlotStep
<1>1. /\ op[q].pc = "send" /\ startLock' = None /\ activeRun' = q
      /\ status' = [status EXCEPT ![q] = "running"] /\ UNCHANGED finished
      /\ status \in [Run -> Status] /\ q \in Run /\ q # None
  BY RunIsNotNone DEF StartSucceeds, AtEnd, IInv, TypeOK, Run
<1>2. startLock = q /\ activeRun = None /\ status[q] # "none"
  BY <1>1 DEF IInv, Bookkeeping, Starting, InProgress
<1>3. \A r \in Run : status'[r] = "none" <=> status[r] = "none"
  BY <1>1, <1>2
<1>4. Slot!Begin
  BY <1>1, <1>2, <1>3 DEF Slot!Begin
<1> QED
  BY <1>4 DEF SlotStep, Slot!SlotNext

LEMMA StartFailsLeaves ==
  ASSUME NEW q \in StartReq, IInv, StartFails(q) PROVE SlotStep
<1>1. /\ op[q].pc = "error" /\ startLock' = None /\ UNCHANGED activeRun
      /\ status' = [status EXCEPT ![q] = "failed"]
      /\ finished' = finished \cup {q}
      /\ status \in [Run -> Status] /\ q \in Run /\ q # None
  BY RunIsNotNone DEF StartFails, WriteEnd, IInv, TypeOK, Run
<1>2. startLock = q /\ activeRun = None /\ status[q] # "none"
  BY <1>1 DEF IInv, Bookkeeping, Starting, InProgress
<1>3. \A r \in Run : status'[r] = "none" <=> status[r] = "none"
  BY <1>1, <1>2
<1>4. Slot!Leave
  BY <1>1, <1>2, <1>3 DEF Slot!Leave
<1> QED
  BY <1>4 DEF SlotStep, Slot!SlotNext

LEMMA RequestDroppedAbandons ==
  ASSUME NEW q \in Req, IInv, RequestDropped(q) PROVE SlotStep
<1>1. /\ op[q].pc \in {"plan", "send", "wait", "error", "clear"}
      /\ startLock' = IF startLock = q THEN None ELSE startLock
      /\ UNCHANGED <<activeRun, finished>>
      /\ status \in [Run -> Status]
  BY DEF RequestDropped, IInv, TypeOK
<1>2. CASE q \in StartReq
  <2>1. startLock = q /\ activeRun = None /\ status[q] # "none" /\ q # None
    BY <1>1, <1>2, RunIsNotNone
       DEF IInv, Bookkeeping, Starting, InProgress, Run
  <2>2. \A r \in Run : status'[r] = "none" <=> status[r] = "none"
    BY <1>1, <1>2, <2>1 DEF RequestDropped, Run
  <2>3. Slot!Abandon
    BY <1>1, <2>1, <2>2 DEF Slot!Abandon
  <2> QED
    BY <2>3 DEF SlotStep, Slot!SlotNext
<1>3. CASE q \in StopReq \cup PauseReq
  <2>1. startLock # q /\ UNCHANGED status
    BY <1>3, RequestsAreDistinct DEF RequestDropped, IInv, TypeOK, Run
  <2> QED
    BY <1>1, <2>1, FrameIsStutter DEF SlotFrame
<1> QED
  BY <1>2, <1>3 DEF Req

LEMMA RequestSlotStep == ASSUME IInv, RequestStep PROVE SlotStep
<1>1. ASSUME NEW q \in StopReq, StopFinishes(q) PROVE SlotStep
  <2>1. Late(op[q].run, activeRun, finished)
    BY <1>1 DEF StopFinishes, AtEnd, IInv, Bookkeeping, RequestsAreLate,
                RequestIsLate
  <2>2. WriteEnd(op[q].run, "cancelled") /\ UNCHANGED <<startLock, activeRun>>
    BY <1>1 DEF StopFinishes
  <2> QED
    BY <2>1, <2>2, WriteEndRecords DEF Late, Status, EndStatus
<1>2. ASSUME NEW q \in StopReq, StopClears(q) PROVE SlotStep
  <2>1. op[q].run \in finished
    BY <1>2 DEF StopClears, IInv, Bookkeeping, RequestsAreLate, RequestIsLate
  <2>2. ReleaseRun(op[q].run) /\ UNCHANGED <<startLock, status, finished>>
    BY <1>2 DEF StopClears, dbVars
  <2> QED
    BY <2>1, <2>2, ReleaseLeaves
<1>3. ASSUME NEW q \in PauseReq, PauseSucceeds(q) PROVE SlotStep
  <2>1. /\ Late(op[q].run, activeRun, finished)
        /\ op[q].goal \in {"paused", "running"}
    BY <1>3 DEF PauseSucceeds, AtEnd, IInv, Bookkeeping, RequestsAreLate,
                RequestIsLate
  <2>2. /\ status' = [status EXCEPT ![op[q].run] = op[q].goal]
        /\ UNCHANGED <<startLock, activeRun, finished>>
    BY <1>3 DEF PauseSucceeds
  <2> QED
    BY <2>1, <2>2, StatusIsFrame DEF Late, Status, LiveStatus
<1>4. ASSUME \/ \E q \in StopReq : StopBegin(q)
             \/ \E q \in PauseReq : PauseBegin(q) \/ PauseFails(q)
             \/ \E q \in StopReq \cup PauseReq : MakePlan(q)
             \/ \E q \in Req : SendCommand(q) \/ CommandTimeout(q)
      PROVE  SlotStep
  <2>1. UNCHANGED <<startLock, activeRun, finished, status>>
    BY <1>4 DEF StopBegin, PauseBegin, Check, PauseFails, MakePlan, SendCommand,
                CommandTimeout, dbVars
  <2> QED
    BY <2>1, FrameIsStutter DEF SlotFrame
<1> QED
  BY <1>1, <1>2, <1>3, <1>4, StartBeginTakes, StartSucceedsBegins,
     StartFailsLeaves, RequestDroppedAbandons DEF RequestStep

-----------------------------------------------------------------------------
(* The session tasks, and the rest                                          *)

LEMMA SessionSlotStep == ASSUME IInv, SessionStep PROVE SlotStep
<1> SUFFICES ASSUME NEW a \in Agent, NEW g \in Gen,
                    \/ ReceiveAck(a, g) \/ ReceiveError(a, g)
                    \/ ReceiveCompleted(a, g) \/ CountCompletion(a, g)
                    \/ FinishWrites(a, g) \/ FinishClears(a, g)
                    \/ StreamEnds(a, g) \/ CheckParticipant(a, g)
                    \/ WriteDegraded(a, g) \/ GraceExpires(a, g)
             PROVE  SlotStep
  BY DEF SessionStep
<1>1. CASE FinishWrites(a, g)
  <2>1. /\ Late(task[a][g].run, activeRun, finished)
        /\ task[a][g].verdict \in EndStatus
    BY <1>1 DEF FinishWrites, IInv, Bookkeeping, SessionsAreLate, TaskIsLate
  <2>2. /\ WriteEnd(task[a][g].run, task[a][g].verdict)
        /\ UNCHANGED <<startLock, activeRun>>
    BY <1>1 DEF FinishWrites
  <2> QED
    BY <2>1, <2>2, WriteEndRecords DEF Late, Status, EndStatus
<1>2. CASE FinishClears(a, g)
  <2>1. task[a][g].run \in finished
    BY <1>2 DEF FinishClears, IInv, Bookkeeping, SessionsAreLate, TaskIsLate
  <2>2. ReleaseRun(task[a][g].run) /\ UNCHANGED <<startLock, status, finished>>
    BY <1>2 DEF FinishClears, dbVars
  <2> QED
    BY <2>1, <2>2, ReleaseLeaves
<1>3. CASE WriteDegraded(a, g)
  <2>1. Late(task[a][g].run, activeRun, finished)
    BY <1>3 DEF WriteDegraded, IInv, Bookkeeping, SessionsAreLate, TaskIsLate
  <2>2. /\ status' = [status EXCEPT ![task[a][g].run] = "degraded"]
        /\ UNCHANGED <<startLock, activeRun, finished>>
    BY <1>3 DEF WriteDegraded
  <2> QED
    BY <2>1, <2>2, StatusIsFrame DEF Late, Status, LiveStatus
<1>4. CASE \/ ReceiveAck(a, g) \/ ReceiveError(a, g) \/ ReceiveCompleted(a, g)
           \/ CountCompletion(a, g) \/ StreamEnds(a, g)
           \/ CheckParticipant(a, g) \/ GraceExpires(a, g)
  <2>1. UNCHANGED <<startLock, activeRun, finished, status>>
    BY <1>4 DEF ReceiveAck, ReceiveError, ReceiveCompleted, CountCompletion,
                StreamEnds, CheckParticipant, GraceExpires, dbVars
  <2> QED
    BY <2>1, FrameIsStutter DEF SlotFrame
<1> QED
  BY <1>1, <1>2, <1>3, <1>4

LEMMA RestartEmptiesSlot == ASSUME IInv, ControlRestart PROVE SlotStep
<1>1. /\ startLock' = None /\ activeRun' = None /\ status \in [Run -> Status]
      /\ status' = [r \in Run |-> IF status[r] \in LiveStatus THEN "failed"
                                  ELSE status[r]]
      /\ finished' = finished \cup {r \in Run : status[r] \in LiveStatus}
  BY DEF ControlRestart, IInv, TypeOK
<1>2. \A r \in Run : status'[r] = "none" <=> status[r] = "none"
  BY <1>1 DEF LiveStatus
<1>3. finished' = {r \in Run : status[r] # "none"}
  BY <1>1 DEF IInv, Bookkeeping, Recorded, TypeOK, Status, LiveStatus
<1>4. Slot!Restart
  BY <1>1, <1>2, <1>3 DEF Slot!Restart
<1> QED
  BY <1>4 DEF SlotStep, Slot!SlotNext

LEMMA StepMapsToSlot == ASSUME IInv, [Next]_vars PROVE SlotStep
<1>1. CASE AgentStep \/ JobStep \/ UNCHANGED vars
  <2>1. UNCHANGED <<startLock, activeRun, finished, status>>
    BY <1>1 DEF AgentStep, Connect, Disconnect, AgentCrash, AgentPrepare,
                AgentStart, AgentStop, AgentSetPaused, JobStep, JobElapses,
                JobReports, JobFails, vars, controlVars, dbVars
  <2> QED
    BY <2>1, FrameIsStutter DEF SlotFrame
<1> QED
  BY <1>1, RequestSlotStep, SessionSlotStep, RestartEmptiesSlot DEF Next

LEMMA InitMapsToSlot == Init => Slot!SlotInit
BY DEF Init, Slot!SlotInit

(* A run takes the one slot of Control at most once, and a run that was       *)
(* started leaves it only with its end on record.                            *)
THEOREM SlotRefinement == Spec => HoldsOneSlot
<1>1. IInv /\ [Next]_vars => [Slot!SlotNext]_(Slot!slotVars)
  BY StepMapsToSlot DEF SlotStep
<1> QED
  BY <1>1, Inductive, InitMapsToSlot, PTL DEF Spec, HoldsOneSlot, Slot!SlotSpec
=============================================================================
