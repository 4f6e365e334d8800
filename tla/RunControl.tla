----------------------------- MODULE RunControl -----------------------------
(***************************************************************************)
(* The distributed run lifecycle of proxy-tester: the Control process      *)
(* (orchestration.rs and the gRPC session task of main.rs), the Agent's    *)
(* command loop (agent/src/main.rs), the two endpoint jobs of a run, and   *)
(* the bidirectional streams between them.                                 *)
(*                                                                         *)
(* One action is one uninterrupted section of the code: what happens       *)
(* between two points where the task can be preempted in a way another     *)
(* task can observe (an await on a lock, the database, a channel or a      *)
(* timer).  HTTP requests are one-shot processes; the request that starts  *)
(* a run also names the run it creates.                                    *)
(***************************************************************************)
EXTENDS Naturals, Sequences, FiniteSets

CONSTANTS
  Agent,      \* node ids the Agents connect with
  StartReq,   \* HTTP requests that reach start_run; each one names its run
  StopReq,    \* HTTP requests that reach stop_run
  PauseReq,   \* HTTP requests that reach set_run_paused
  None,       \* "no run", "no request", "no agent"
  MaxGen,     \* bound: connections each Agent makes
  MaxFaults   \* bound: broken connections and process restarts

ASSUME RequestsAreDistinct ==
  /\ StartReq \cap StopReq = {}
  /\ StartReq \cap PauseReq = {}
  /\ StopReq \cap PauseReq = {}
  /\ None \notin StartReq \cup StopReq \cup PauseReq
  /\ None \notin Agent

ASSUME BoundsAreNatural == MaxGen \in Nat /\ MaxFaults \in Nat

Run == StartReq
Req == StartReq \cup StopReq \cup PauseReq
Role == {"client", "server"}
Gen == 1 .. MaxGen

(* runs.status as the SQL of repository/runs.rs writes it; "none" means no row *)
LiveStatus == {"preparing", "running", "paused", "degraded"}
EndStatus == {"completed", "failed", "cancelled"}
Status == LiveStatus \cup EndStatus \cup {"none"}

VARIABLES
  \* Control's memory (state.rs AppState)
  startLock,   \* the run whose start_run holds the active_run mutex, or None
  activeRun,   \* the value under that mutex
  tracked,     \* runs with an entry in run_agents and expected_endpoints
  completed,   \* completed_agents: the endpoints that reported, per run
  session,     \* agents: the generation registered for an Agent, 0 if none
  op,          \* the HTTP requests in progress
  task,        \* the gRPC session task of each connection
  \* Control's database
  status,      \* runs.status
  finished,    \* runs whose finished_at is set
  \* the wire
  toAgent,     \* commands travelling on an Agent's current connection
  toControl,   \* messages travelling to Control on each connection
  \* the Agents
  conn,        \* the generation the Agent is connected with, 0 if none
  lastGen,     \* the generation of its latest connection
  prepared,    \* the prepared map of the connection: role -> run
  place,       \* the Agent each endpoint of a run was assigned to
  job,         \* the endpoint jobs
  faults       \* faults spent so far (a bound, not state of the program)

controlVars == <<startLock, activeRun, tracked, completed, session, op, task>>
dbVars == <<status, finished>>
wireVars == <<toAgent, toControl>>
agentVars == <<conn, lastGen, prepared, place, job>>
vars == <<controlVars, dbVars, wireVars, agentVars, faults>>

-----------------------------------------------------------------------------
(* The records *)

(* Prepare and Start go to one endpoint; Stop and SetPaused to both endpoints *)
(* an Agent holds (endpoint_role 0).                                          *)
EndpointPhase == {"prepare", "start"}
RunPhase == {"stop", "pause", "resume"}
Phase == EndpointPhase \cup RunPhase

(* One entry of a request's plan: which command to which session clone.       *)
Targets ==
  [phase : EndpointPhase, agent : Agent, gen : 0 .. MaxGen, role : Role]
    \cup [phase : RunPhase, agent : Agent, gen : 0 .. MaxGen, role : {"both"}]

(* A command on the wire; req is None for a Stop nobody waits for.  The       *)
(* request, the target and the Agent identify the command, as the random      *)
(* command id does.                                                           *)
Command ==
  [phase : EndpointPhase, run : Run, role : Role, req : Req]
    \cup [phase : RunPhase, run : Run, role : {"both"}, req : Req \cup {None}]

Ack == [kind : {"ack"}, req : Req, phase : Phase,
        role : Role \cup {"both"}, ok : BOOLEAN]
Event == [kind : {"error", "run_completed"}, run : Run, role : Role]

OpPc == {"idle", "plan", "send", "wait", "error", "clear", "done", "dropped"}
TaskPc == {"none", "read", "complete", "db", "clear", "lost", "degrade",
           "sleep", "ended"}

(* A request: the run it is about, the status it writes when it succeeds, its *)
(* commands in order and the one it is at.                                    *)
NoOp == [pc |-> "idle", run |-> None, goal |-> "none", plan |-> << >>,
         next |-> 1]
DoneOp == [NoOp EXCEPT !.pc = "done"]
DroppedOp == [NoOp EXCEPT !.pc = "dropped"]
NoTask == [pc |-> "none", live |-> FALSE, run |-> None, role |-> None,
           verdict |-> "none"]
Reading == [NoTask EXCEPT !.pc = "read", !.live = TRUE]
Ended == [NoTask EXCEPT !.pc = "ended"]
NoJob == [state |-> "none", gen |-> 0, paused |-> FALSE]

JobState == {"none", "running", "draining", "reported", "failed", "killed"}

Request == [pc : OpPc, run : Run \cup {None}, goal : Status,
            plan : Seq(Targets), next : Nat \ {0}]
SessionTask == [pc : TaskPc, live : BOOLEAN, run : Run \cup {None},
                role : Role \cup {None}, verdict : EndStatus \cup {"none"}]
Job == [state : JobState, gen : 0 .. MaxGen, paused : BOOLEAN]

TypeOK ==
  /\ startLock \in Run \cup {None}
  /\ activeRun \in Run \cup {None}
  /\ tracked \subseteq Run
  /\ completed \in [Run -> SUBSET (Agent \X Role)]
  /\ session \in [Agent -> 0 .. MaxGen]
  /\ op \in [Req -> Request]
  /\ task \in [Agent -> [Gen -> SessionTask]]
  /\ status \in [Run -> Status]
  /\ finished \subseteq Run
  /\ toAgent \in [Agent -> Seq(Command)]
  /\ toControl \in [Agent -> [Gen -> Seq(Ack \cup Event)]]
  /\ conn \in [Agent -> 0 .. MaxGen]
  /\ lastGen \in [Agent -> 0 .. MaxGen]
  /\ prepared \in [Agent -> [Role -> Run \cup {None}]]
  /\ place \in [Run -> [Role -> Agent \cup {None}]]
  /\ job \in [Run -> [Role -> Job]]
  /\ faults \in 0 .. MaxFaults

Init ==
  /\ startLock = None
  /\ activeRun = None
  /\ tracked = {}
  /\ completed = [r \in Run |-> {}]
  /\ session = [a \in Agent |-> 0]
  /\ op = [q \in Req |-> NoOp]
  /\ task = [a \in Agent |-> [g \in Gen |-> NoTask]]
  /\ status = [r \in Run |-> "none"]
  /\ finished = {}
  /\ toAgent = [a \in Agent |-> << >>]
  /\ toControl = [a \in Agent |-> [g \in Gen |-> << >>]]
  /\ conn = [a \in Agent |-> 0]
  /\ lastGen = [a \in Agent |-> 0]
  /\ prepared = [a \in Agent |-> [o \in Role |-> None]]
  /\ place = [r \in Run |-> [o \in Role |-> None]]
  /\ job = [r \in Run |-> [o \in Role |-> NoJob]]
  /\ faults = 0

-----------------------------------------------------------------------------
(* Helpers *)

(* The sender half of session clone (a, g) still reaches the Agent.          *)
Open(a, g) == g \in Gen /\ conn[a] = g /\ task[a][g].live

(* What an Agent sends on connection g is lost once Control stopped reading. *)
SendToControl(a, g, m) ==
  toControl' = [toControl EXCEPT
                  ![a][g] = IF task[a][g].live THEN Append(@, m) ELSE @]

(* A Stop with a fresh command id nobody waits for, to each Agent in S.      *)
StopCommand(r) == [phase |-> "stop", run |-> r, role |-> "both", req |-> None]
SendStops(S, r) ==
  toAgent' = [a \in Agent |->
                IF a \in S THEN Append(toAgent[a], StopCommand(r))
                           ELSE toAgent[a]]

(* The Agents whose registered session is usable: state.agents.values().     *)
Reachable == {a \in Agent : Open(a, session[a])}

(* Endpoints with an entry in the active map of a's current connection.      *)
Holds(a, r, o) == place[r][o] = a /\ conn[a] # 0 /\ job[r][o].gen = conn[a]

(* expected_endpoints of a tracked run.                                      *)
Expected(r) == {<<place[r][o], o>> : o \in Role}

Participants(r) == {place[r][o] : o \in Role}

(* A command to the session clone registered for a at this moment.           *)
Target(phase, a, o) ==
  [phase |-> phase, agent |-> a, gen |-> session[a], role |-> o]

Current(q) == op[q].plan[op[q].next]
Clones(q) == {op[q].plan[i] : i \in 1 .. Len(op[q].plan)}
AtEnd(q) == op[q].pc = "send" /\ op[q].next = Len(op[q].plan) + 1

(* repository::runs::finish: an unconditional UPDATE of the row.             *)
WriteEnd(r, s) ==
  /\ status' = [status EXCEPT ![r] = s]
  /\ finished' = finished \cup {r}

(* Mutant of ReleaseRun: the slot is emptied whoever holds it by now.         *)
ReleaseWhoeverRuns(r) ==
  /\ startLock = None
  /\ activeRun' = None
  /\ tracked' = tracked \ {r}
  /\ completed' = [completed EXCEPT ![r] = {}]

(* The second half of finish_run, under and after the active_run mutex.      *)
ReleaseRun(r) ==
  /\ startLock = None
  /\ activeRun' = IF activeRun = r THEN None ELSE activeRun
  /\ tracked' = tracked \ {r}
  /\ completed' = [completed EXCEPT ![r] = {}]

-----------------------------------------------------------------------------
(* start_run *)

(* Takes the active_run mutex and keeps it until it returns; refused when a   *)
(* run is active or an Agent is offline, which changes nothing.               *)
StartBegin(q) ==
  /\ op[q].pc = "idle"
  /\ startLock = None
  /\ activeRun = None
  /\ \E c, s \in {a \in Agent : session[a] # 0} :
       /\ place' = [place EXCEPT ![q] = [o \in Role |->
                                           IF o = "client" THEN c ELSE s]]
       /\ op' = [op EXCEPT ![q] =
                   [pc |-> "send", run |-> q, goal |-> "running",
                    plan |-> << Target("prepare", c, "client"),
                                Target("prepare", s, "server"),
                                Target("start", c, "client"),
                                Target("start", s, "server") >>,
                    next |-> 1]]
  /\ startLock' = q
  /\ status' = [status EXCEPT ![q] = "preparing"]
  /\ UNCHANGED <<activeRun, tracked, completed, session, task, finished,
                 wireVars, conn, lastGen, prepared, job, faults>>

(* Both prepares and both starts were acknowledged: mark_running, then the    *)
(* in-memory registration, then the mutex is released.                        *)
StartSucceeds(q) ==
  /\ AtEnd(q)
  /\ status' = [status EXCEPT ![q] = "running"]
  /\ activeRun' = q
  /\ tracked' = tracked \cup {q}
  /\ startLock' = None
  /\ op' = [op EXCEPT ![q] = DoneOp]
  /\ UNCHANGED <<completed, session, task, finished, wireVars, agentVars,
                 faults>>

(* Mutants of StartFails: no row is written for a failed prepare; no Stop is  *)
(* sent after a failed start.                                                 *)
StartFailsUnrecorded(q) ==
  /\ op[q].pc = "error"
  /\ IF Current(q).phase = "prepare"
     THEN UNCHANGED <<toAgent, dbVars>>
     ELSE /\ SendStops({t.agent : t \in {u \in Clones(q) : Open(u.agent, u.gen)}},
                       q)
          /\ WriteEnd(q, "failed")
  /\ startLock' = None
  /\ op' = [op EXCEPT ![q] = DoneOp]
  /\ UNCHANGED <<activeRun, tracked, completed, session, task, toControl,
                 agentVars, faults>>

StartFailsSilently(q) ==
  /\ op[q].pc = "error"
  /\ WriteEnd(q, "failed")
  /\ startLock' = None
  /\ op' = [op EXCEPT ![q] = DoneOp]
  /\ UNCHANGED <<activeRun, tracked, completed, session, task, wireVars,
                 agentVars, faults>>

(* A prepare that failed only ends the row; a start that failed first sends a *)
(* Stop to both session clones.                                               *)
StartFails(q) ==
  /\ op[q].pc = "error"
  /\ IF Current(q).phase = "prepare"
     THEN UNCHANGED toAgent
     ELSE SendStops({t.agent : t \in {u \in Clones(q) : Open(u.agent, u.gen)}},
                    q)
  /\ WriteEnd(q, "failed")
  /\ startLock' = None
  /\ op' = [op EXCEPT ![q] = DoneOp]
  /\ UNCHANGED <<activeRun, tracked, completed, session, task, toControl,
                 agentVars, faults>>

-----------------------------------------------------------------------------
(* stop_run and set_run_paused *)

(* The active_run check; the mutex is released before anything else happens.  *)
Check(q, r, goal) ==
  /\ op[q].pc = "idle"
  /\ startLock = None
  /\ activeRun = r
  /\ op' = [op EXCEPT ![q] = [NoOp EXCEPT !.pc = "plan", !.run = r,
                                          !.goal = goal]]
  /\ UNCHANGED <<startLock, activeRun, tracked, completed, session, task,
                 dbVars, wireVars, agentVars, faults>>

StopBegin(q) == \E r \in Run : Check(q, r, "cancelled")

PauseBegin(q) == \E r \in Run, goal \in {"paused", "running"} : Check(q, r, goal)

(* Reads agents and run_agents; the participants come in the order of a       *)
(* HashSet.  A run that finished since the check has no participants left.    *)
MakePlan(q) ==
  /\ op[q].pc = "plan"
  /\ LET r == op[q].run
         phase == CASE op[q].goal = "cancelled" -> "stop"
                    [] op[q].goal = "paused" -> "pause"
                    [] OTHER -> "resume"
         target(o) == Target(phase, place[r][o], "both")
     IN \E plan \in IF r \notin tracked THEN {<< >>}
                    ELSE IF place[r]["client"] = place[r]["server"]
                    THEN {<<target("client")>>}
                    ELSE {<<target("client"), target("server")>>,
                          <<target("server"), target("client")>>} :
          op' = [op EXCEPT ![q].pc = "send", ![q].plan = plan]
  /\ UNCHANGED <<startLock, activeRun, tracked, completed, session, task,
                 dbVars, wireVars, agentVars, faults>>

(* finish_run("cancelled"), whatever the acknowledgements were: the row first *)
StopFinishes(q) ==
  /\ AtEnd(q)
  /\ WriteEnd(op[q].run, "cancelled")
  /\ op' = [op EXCEPT ![q].pc = "clear"]
  /\ UNCHANGED <<startLock, activeRun, tracked, completed, session, task,
                 wireVars, agentVars, faults>>

(* ... and then the in-memory registration.                                   *)
StopClears(q) ==
  /\ op[q].pc = "clear"
  /\ ReleaseRun(op[q].run)
  /\ op' = [op EXCEPT ![q] = DoneOp]
  /\ UNCHANGED <<startLock, session, task, dbVars, wireVars, agentVars, faults>>

(* Every participant acknowledged: set_status, an unconditional UPDATE.       *)
PauseSucceeds(q) ==
  /\ AtEnd(q)
  /\ status' = [status EXCEPT ![op[q].run] = op[q].goal]
  /\ op' = [op EXCEPT ![q] = DoneOp]
  /\ UNCHANGED <<startLock, activeRun, tracked, completed, session, task,
                 finished, wireVars, agentVars, faults>>

(* A participant is gone, refused or did not answer: the handler returns, and *)
(* the participants that did answer stay as they are.                         *)
PauseFails(q) ==
  /\ op[q].pc = "error"
  /\ op' = [op EXCEPT ![q] = DoneOp]
  /\ UNCHANGED <<startLock, activeRun, tracked, completed, session, task,
                 dbVars, wireVars, agentVars, faults>>

-----------------------------------------------------------------------------
(* The HTTP client goes away while its handler awaits: axum drops the handler,  *)
(* and the mutex guard with it; what the handler had done stays done.           *)
RequestDropped(q) ==
  /\ op[q].pc \in {"plan", "send", "wait", "error", "clear"}
  /\ faults < MaxFaults
  /\ faults' = faults + 1
  /\ startLock' = IF startLock = q THEN None ELSE startLock
  /\ op' = [op EXCEPT ![q] = DroppedOp]
  /\ \/ UNCHANGED status
     \/ q \in StartReq /\ AtEnd(q) /\ status' = [status EXCEPT ![q] = "running"]
  /\ UNCHANGED <<activeRun, tracked, completed, session, task, finished,
                 wireVars, agentVars>>

-----------------------------------------------------------------------------
(* command_agent *)

(* stop_run ignores the error of a command and goes on with the next Agent.   *)
CommandError(q) ==
  op' = [op EXCEPT ![q] = IF q \in StopReq
                          THEN [op[q] EXCEPT !.pc = "send",
                                             !.next = op[q].next + 1]
                          ELSE [op[q] EXCEPT !.pc = "error"]]

(* Registers the command id in pending_acks and sends on the session clone.   *)
SendCommand(q) ==
  /\ op[q].pc = "send"
  /\ op[q].next <= Len(op[q].plan)
  /\ LET t == Current(q) IN
     IF Open(t.agent, t.gen)
     THEN /\ toAgent' = [toAgent EXCEPT ![t.agent] =
                           Append(@, [phase |-> t.phase, run |-> op[q].run,
                                      role |-> t.role, req |-> q])]
          /\ op' = [op EXCEPT ![q].pc = "wait"]
     ELSE CommandError(q) /\ UNCHANGED toAgent
  /\ UNCHANGED <<startLock, activeRun, tracked, completed, session, task,
                 dbVars, toControl, agentVars, faults>>

(* Mutants of CommandTimeout: an overdue answer counts as a good one; only a   *)
(* closed channel ends the wait.                                              *)
CommandTimeoutMovesOn(q) ==
  /\ op[q].pc = "wait"
  /\ op' = [op EXCEPT ![q] = [op[q] EXCEPT !.pc = "send",
                                          !.next = op[q].next + 1]]
  /\ UNCHANGED <<startLock, activeRun, tracked, completed, session, task,
                 dbVars, wireVars, agentVars, faults>>

CommandTimeoutOnClose(q) ==
  /\ op[q].pc = "wait"
  /\ ~Open(Current(q).agent, Current(q).gen)
  /\ CommandError(q)
  /\ UNCHANGED <<startLock, activeRun, tracked, completed, session, task,
                 dbVars, wireVars, agentVars, faults>>

(* command_timeout_secs passed: the pending entry is removed.                 *)
CommandTimeout(q) ==
  /\ op[q].pc = "wait"
  /\ CommandError(q)
  /\ UNCHANGED <<startLock, activeRun, tracked, completed, session, task,
                 dbVars, wireVars, agentVars, faults>>

-----------------------------------------------------------------------------
(* The gRPC session task of one connection (ControlSvc::agent_stream)         *)

Incoming(a, g, kind) ==
  /\ task[a][g].live
  /\ task[a][g].pc = "read"
  /\ toControl[a][g] # << >>
  /\ Head(toControl[a][g]).kind = kind

Consume(a, g) == toControl' = [toControl EXCEPT ![a][g] = Tail(@)]

Step(a, g, t) == task' = [task EXCEPT ![a][g] = t]

(* Wakes the request whose command the acknowledgement names; late ones find  *)
(* nothing in pending_acks.                                                   *)
ReceiveAck(a, g) ==
  /\ Incoming(a, g, "ack")
  /\ Consume(a, g)
  /\ LET m == Head(toControl[a][g])
         o == op[m.req]
         pending == /\ o.pc = "wait"
                    /\ Current(m.req).agent = a
                    /\ Current(m.req).phase = m.phase
                    /\ Current(m.req).role = m.role
     IN IF ~pending THEN UNCHANGED op
        ELSE IF m.ok
        THEN op' = [op EXCEPT ![m.req].pc = "send", ![m.req].next = @ + 1]
        ELSE CommandError(m.req)
  /\ UNCHANGED <<startLock, activeRun, tracked, completed, session, task,
                 dbVars, toAgent, agentVars, faults>>

(* Mutant of ReceiveError: the active_run check is missing.                    *)
ReceiveErrorOfAnyRun(a, g) ==
  /\ Incoming(a, g, "error")
  /\ startLock = None
  /\ Consume(a, g)
  /\ LET r == Head(toControl[a][g]).run IN
     /\ SendStops(Reachable, r)
     /\ Step(a, g, [Reading EXCEPT !.pc = "db", !.run = r, !.verdict = "failed"])
  /\ UNCHANGED <<startLock, activeRun, tracked, completed, session, op, dbVars,
                 agentVars, faults>>

(* An endpoint failed: Stop to every registered Agent, then finish_run.       *)
ReceiveError(a, g) ==
  /\ Incoming(a, g, "error")
  /\ startLock = None
  /\ Consume(a, g)
  /\ LET r == Head(toControl[a][g]).run IN
     IF activeRun = r
     THEN /\ SendStops(Reachable, r)
          /\ Step(a, g, [Reading EXCEPT !.pc = "db", !.run = r,
                                        !.verdict = "failed"])
     ELSE UNCHANGED <<toAgent, task>>
  /\ UNCHANGED <<startLock, activeRun, tracked, completed, session, op, dbVars,
                 agentVars, faults>>

(* An endpoint finished: the active_run check, whose mutex is released ...    *)
ReceiveCompleted(a, g) ==
  /\ Incoming(a, g, "run_completed")
  /\ startLock = None
  /\ Consume(a, g)
  /\ LET m == Head(toControl[a][g]) IN
     IF activeRun = m.run
     THEN Step(a, g, [Reading EXCEPT !.pc = "complete", !.run = m.run,
                                     !.role = m.role])
     ELSE UNCHANGED task
  /\ UNCHANGED <<startLock, activeRun, tracked, completed, session, op, dbVars,
                 toAgent, agentVars, faults>>

(* Mutants of CountCompletion: the subset test the wrong way round; the        *)
(* report recorded by its endpoint role alone.                                *)
CountAnyReport(a, g) ==
  /\ task[a][g].pc = "complete"
  /\ LET t == task[a][g]
         reported == completed[t.run] \cup {<<a, t.role>>}
     IN /\ completed' = [completed EXCEPT ![t.run] = reported]
        /\ IF t.run \in tracked /\ reported \subseteq Expected(t.run)
           THEN Step(a, g, [t EXCEPT !.pc = "db", !.verdict = "completed"])
           ELSE Step(a, g, Reading)
  /\ UNCHANGED <<startLock, activeRun, tracked, session, op, dbVars, wireVars,
                 agentVars, faults>>

CountRoleOnly(a, g) ==
  /\ task[a][g].pc = "complete"
  /\ completed' = [completed EXCEPT ![task[a][g].run] = @ \cup {task[a][g].role}]
  /\ Step(a, g, Reading)
  /\ UNCHANGED <<startLock, activeRun, tracked, session, op, dbVars, wireVars,
                 agentVars, faults>>

(* ... and then the count against expected_endpoints.                         *)
CountCompletion(a, g) ==
  /\ task[a][g].pc = "complete"
  /\ LET t == task[a][g]
         reported == completed[t.run] \cup {<<a, t.role>>}
     IN /\ completed' = [completed EXCEPT ![t.run] = reported]
        /\ IF t.run \in tracked /\ Expected(t.run) \subseteq reported
           THEN Step(a, g, [t EXCEPT !.pc = "db", !.verdict = "completed"])
           ELSE Step(a, g, Reading)
  /\ UNCHANGED <<startLock, activeRun, tracked, session, op, dbVars, wireVars,
                 agentVars, faults>>

(* finish_run called by the session task or by its grace timer                *)
FinishWrites(a, g) ==
  /\ task[a][g].pc = "db"
  /\ WriteEnd(task[a][g].run, task[a][g].verdict)
  /\ Step(a, g, [task[a][g] EXCEPT !.pc = "clear"])
  /\ UNCHANGED <<startLock, activeRun, tracked, completed, session, op,
                 wireVars, agentVars, faults>>

FinishClears(a, g) ==
  /\ task[a][g].pc = "clear"
  /\ ReleaseRun(task[a][g].run)
  /\ Step(a, g, IF task[a][g].live THEN Reading ELSE Ended)
  /\ UNCHANGED <<startLock, session, op, dbVars, wireVars, agentVars, faults>>

(* Mutant of StreamEnds: nobody looks whether the Agent was a participant.     *)
StreamEndsUnnoticed(a, g) ==
  /\ task[a][g].live
  /\ task[a][g].pc = "read"
  /\ \/ conn[a] # g /\ UNCHANGED faults
     \/ conn[a] = g /\ faults < MaxFaults /\ faults' = faults + 1
  /\ toControl' = [toControl EXCEPT ![a][g] = << >>]
  /\ session' = [session EXCEPT ![a] = IF @ = g THEN 0 ELSE @]
  /\ Step(a, g, Ended)
  /\ UNCHANGED <<startLock, activeRun, tracked, completed, op, dbVars, toAgent,
                 agentVars>>

(* The stream ended: the registry entry goes only if it is still this         *)
(* connection's; what was left on the wire is lost.  It is a fault unless the *)
(* Agent had left the connection.                                             *)
StreamEnds(a, g) ==
  /\ task[a][g].live
  /\ task[a][g].pc = "read"
  /\ \/ conn[a] # g /\ UNCHANGED faults
     \/ conn[a] = g /\ faults < MaxFaults /\ faults' = faults + 1
  /\ toControl' = [toControl EXCEPT ![a][g] = << >>]
  /\ IF session[a] = g
     THEN /\ session' = [session EXCEPT ![a] = 0]
          /\ Step(a, g, [Ended EXCEPT !.pc = "lost"])
     ELSE Step(a, g, Ended) /\ UNCHANGED session
  /\ UNCHANGED <<startLock, activeRun, tracked, completed, op, dbVars, toAgent,
                 agentVars>>

(* schedule_disconnect_failure: is it a participant of the active run? ...    *)
CheckParticipant(a, g) ==
  /\ task[a][g].pc = "lost"
  /\ startLock = None
  /\ Step(a, g, IF activeRun \in tracked /\ a \in Participants(activeRun)
                THEN [Ended EXCEPT !.pc = "degrade", !.run = activeRun]
                ELSE Ended)
  /\ UNCHANGED <<startLock, activeRun, tracked, completed, session, op, dbVars,
                 wireVars, agentVars, faults>>

(* ... then the row says degraded, and the grace timer starts.                *)
WriteDegraded(a, g) ==
  /\ task[a][g].pc = "degrade"
  /\ status' = [status EXCEPT ![task[a][g].run] = "degraded"]
  /\ Step(a, g, [task[a][g] EXCEPT !.pc = "sleep"])
  /\ UNCHANGED <<startLock, activeRun, tracked, completed, session, op,
                 finished, wireVars, agentVars, faults>>

(* Mutant of GraceExpires: the run fails without a Stop to its peers.          *)
GraceExpiresSilently(a, g) ==
  /\ task[a][g].pc = "sleep"
  /\ startLock = None
  /\ Step(a, g, IF activeRun = task[a][g].run
                THEN [task[a][g] EXCEPT !.pc = "db", !.verdict = "failed"]
                ELSE Ended)
  /\ UNCHANGED <<startLock, activeRun, tracked, completed, session, op, dbVars,
                 wireVars, agentVars, faults>>

(* agent_grace_secs passed: if the run is still active it fails.              *)
GraceExpires(a, g) ==
  /\ task[a][g].pc = "sleep"
  /\ startLock = None
  /\ LET r == task[a][g].run IN
     IF activeRun = r
     THEN /\ SendStops(Reachable, r)
          /\ Step(a, g, [task[a][g] EXCEPT !.pc = "db", !.verdict = "failed"])
     ELSE Step(a, g, Ended) /\ UNCHANGED toAgent
  /\ UNCHANGED <<startLock, activeRun, tracked, completed, session, op, dbVars,
                 toControl, agentVars, faults>>

-----------------------------------------------------------------------------
(* The Agent's connection (run_connection) and its command loop               *)

(* Hello registers a new generation, replacing the session of an older one.   *)
(* prepared and the active map are locals of the connection.                  *)
Connect(a) ==
  /\ conn[a] = 0
  /\ lastGen[a] < MaxGen
  /\ LET g == lastGen[a] + 1 IN
     /\ conn' = [conn EXCEPT ![a] = g]
     /\ lastGen' = [lastGen EXCEPT ![a] = g]
     /\ session' = [session EXCEPT ![a] = g]
     /\ Step(a, g, Reading)
  /\ UNCHANGED <<startLock, activeRun, tracked, completed, op, dbVars, wireVars,
                 prepared, place, job, faults>>

LeaveConnection(a) ==
  /\ conn' = [conn EXCEPT ![a] = 0]
  /\ prepared' = [prepared EXCEPT ![a] = [o \in Role |-> None]]
  /\ toAgent' = [toAgent EXCEPT ![a] = << >>]

(* run_connection returns: the stream broke, or a handler returned an error.  *)
Disconnect(a) ==
  /\ conn[a] # 0
  /\ \/ ~task[a][conn[a]].live /\ UNCHANGED faults
     \/ task[a][conn[a]].live /\ faults < MaxFaults /\ faults' = faults + 1
  /\ LeaveConnection(a)
  /\ UNCHANGED <<controlVars, dbVars, toControl, lastGen, place, job>>

AgentCrash(a) ==
  /\ faults < MaxFaults
  /\ faults' = faults + 1
  /\ LeaveConnection(a)
  /\ job' = [r \in Run |-> [o \in Role |->
               IF place[r][o] = a /\ job[r][o].state \in {"running", "draining"}
               THEN [job[r][o] EXCEPT !.state = "killed", !.paused = FALSE]
               ELSE job[r][o]]]
  /\ UNCHANGED <<controlVars, dbVars, toControl, lastGen, place>>

(* Takes the next command and acknowledges it to the connection it came from. *)
Handling(a, phases) ==
  /\ conn[a] # 0
  /\ toAgent[a] # << >>
  /\ Head(toAgent[a]).phase \in phases

Reply(a, ok) ==
  LET m == Head(toAgent[a]) IN
  /\ toAgent' = [toAgent EXCEPT ![a] = Tail(@)]
  /\ IF m.req = None THEN UNCHANGED toControl
     ELSE SendToControl(a, conn[a], [kind |-> "ack", req |-> m.req,
                                     phase |-> m.phase, role |-> m.role,
                                     ok |-> ok])

(* Mutant of AgentPrepare: an entry that is already there stays.               *)
AgentPrepareKeeps(a) ==
  /\ Handling(a, {"prepare"})
  /\ LET m == Head(toAgent[a]) IN
     prepared' = [prepared EXCEPT ![a][m.role] = IF @ = None THEN m.run ELSE @]
  /\ Reply(a, TRUE)
  /\ UNCHANGED <<controlVars, dbVars, conn, lastGen, place, job, faults>>

AgentPrepare(a) ==
  /\ Handling(a, {"prepare"})
  /\ LET m == Head(toAgent[a]) IN
     prepared' = [prepared EXCEPT ![a][m.role] = m.run]
  /\ Reply(a, TRUE)
  /\ UNCHANGED <<controlVars, dbVars, conn, lastGen, place, job, faults>>

(* Mutant of Conflicts: only the same role is looked at.                       *)
ConflictsOfRole(a, o, r) ==
  \E r2 \in Run : Holds(a, r2, o) /\ job[r2][o].state = "running"

(* active_run_conflicts: a running entry of another run or of the same role.  *)
Conflicts(a, o, r) ==
  \E r2 \in Run, o2 \in Role :
    /\ Holds(a, r2, o2)
    /\ job[r2][o2].state = "running"
    /\ r2 # r \/ o2 = o

(* Looks the job up by the role alone; the job's own run is what starts.      *)
AgentStart(a) ==
  /\ Handling(a, {"start"})
  /\ LET o == Head(toAgent[a]).role
         r == prepared[a][o]
     IN IF r = None \/ Conflicts(a, o, r)
        THEN Reply(a, FALSE) /\ UNCHANGED job
        ELSE /\ job' = [job EXCEPT ![r][o] = [state |-> "running",
                                              gen |-> conn[a],
                                              paused |-> FALSE]]
             /\ Reply(a, TRUE)
  /\ UNCHANGED <<controlVars, dbVars, conn, lastGen, prepared, place, faults>>

(* Clears running and paused of the run's entries in the active map.          *)
AgentStop(a) ==
  /\ Handling(a, {"stop"})
  /\ LET r == Head(toAgent[a]).run IN
     job' = [job EXCEPT ![r] = [o \in Role |->
               IF Holds(a, r, o) /\ job[r][o].state = "running"
               THEN [job[r][o] EXCEPT !.state = "draining", !.paused = FALSE]
               ELSE job[r][o]]]
  /\ Reply(a, TRUE)
  /\ UNCHANGED <<controlVars, dbVars, conn, lastGen, prepared, place, faults>>

AgentSetPaused(a) ==
  /\ Handling(a, {"pause", "resume"})
  /\ LET m == Head(toAgent[a]) IN
     job' = [job EXCEPT ![m.run] = [o \in Role |->
               IF Holds(a, m.run, o) /\ job[m.run][o].state = "running"
               THEN [job[m.run][o] EXCEPT !.paused = (m.phase = "pause")]
               ELSE job[m.run][o]]]
  /\ Reply(a, TRUE)
  /\ UNCHANGED <<controlVars, dbVars, conn, lastGen, prepared, place, faults>>

-----------------------------------------------------------------------------
(* The endpoint jobs (run_job): a job keeps the sender of the connection that *)
(* started it, so what it reports after a reconnect is lost.                  *)

Report(r, o, kind) ==
  LET a == place[r][o] IN
  IF conn[a] = job[r][o].gen
  THEN SendToControl(a, conn[a], [kind |-> kind, run |-> r, role |-> o])
  ELSE UNCHANGED toControl

(* The scenario's duration elapsed; time does not run while paused.           *)
JobElapses(r, o) ==
  /\ job[r][o].state = "running"
  /\ ~job[r][o].paused
  /\ job' = [job EXCEPT ![r][o].state = "draining"]
  /\ UNCHANGED <<controlVars, dbVars, wireVars, conn, lastGen, prepared, place,
                 faults>>

(* Workers joined, last telemetry flushed.                                    *)
JobReports(r, o) ==
  /\ job[r][o].state = "draining"
  /\ job' = [job EXCEPT ![r][o].state = "reported"]
  /\ Report(r, o, "run_completed")
  /\ UNCHANGED <<controlVars, dbVars, toAgent, conn, lastGen, prepared, place,
                 faults>>

JobFails(r, o) ==
  /\ job[r][o].state \in {"running", "draining"}
  /\ job' = [job EXCEPT ![r][o].state = "failed", ![r][o].paused = FALSE]
  /\ Report(r, o, "error")
  /\ UNCHANGED <<controlVars, dbVars, toAgent, conn, lastGen, prepared, place,
                 faults>>

-----------------------------------------------------------------------------
(* Control stops and starts again: the memory is gone, every connection ends, *)
(* and the rows that are not final are marked failed before anything else.    *)
ControlRestart ==
  /\ faults < MaxFaults
  /\ faults' = faults + 1
  /\ startLock' = None
  /\ activeRun' = None
  /\ tracked' = {}
  /\ completed' = [r \in Run |-> {}]
  /\ session' = [a \in Agent |-> 0]
  /\ op' = [q \in Req |-> IF op[q].pc = "idle" THEN NoOp ELSE DoneOp]
  /\ task' = [a \in Agent |-> [g \in Gen |->
               IF task[a][g].pc = "none" THEN NoTask ELSE Ended]]
  /\ toControl' = [a \in Agent |-> [g \in Gen |-> << >>]]
  /\ status' = [r \in Run |-> IF status[r] \in LiveStatus THEN "failed"
                              ELSE status[r]]
  /\ finished' = finished \cup {r \in Run : status[r] \in LiveStatus}
  /\ UNCHANGED <<toAgent, agentVars>>

-----------------------------------------------------------------------------

RequestStep ==
  \/ \E q \in StartReq : StartBegin(q) \/ StartSucceeds(q) \/ StartFails(q)
  \/ \E q \in StopReq : StopBegin(q) \/ StopFinishes(q) \/ StopClears(q)
  \/ \E q \in PauseReq : PauseBegin(q) \/ PauseSucceeds(q) \/ PauseFails(q)
  \/ \E q \in StopReq \cup PauseReq : MakePlan(q)
  \/ \E q \in Req : SendCommand(q) \/ CommandTimeout(q) \/ RequestDropped(q)

SessionStep ==
  \E a \in Agent, g \in Gen :
    \/ ReceiveAck(a, g) \/ ReceiveError(a, g) \/ ReceiveCompleted(a, g)
    \/ CountCompletion(a, g) \/ FinishWrites(a, g) \/ FinishClears(a, g)
    \/ StreamEnds(a, g) \/ CheckParticipant(a, g) \/ WriteDegraded(a, g)
    \/ GraceExpires(a, g)

AgentStep ==
  \E a \in Agent :
    \/ Connect(a) \/ Disconnect(a) \/ AgentCrash(a)
    \/ AgentPrepare(a) \/ AgentStart(a) \/ AgentStop(a) \/ AgentSetPaused(a)

JobStep ==
  \E r \in Run, o \in Role :
    JobElapses(r, o) \/ JobReports(r, o) \/ JobFails(r, o)

Next == RequestStep \/ SessionStep \/ AgentStep \/ JobStep \/ ControlRestart

Spec == Init /\ [][Next]_vars

-----------------------------------------------------------------------------
(* Safety *)

(* A run is recorded as completed only when both of its endpoints ended       *)
(* without error: the subset test on expected_endpoints, against events of    *)
(* several connections, other runs' leftovers and finishes that race.         *)
CompletedNeedsBothReports ==
  \A r \in Run : status[r] = "completed" =>
    \A o \in Role : job[r][o].state = "reported"

(* Start finds its job by role alone; because prepares and starts of a run    *)
(* share one ordered connection, what starts is still the run the command     *)
(* names, and an endpoint of a run starts once.                               *)
StartsWhatItNames ==
  [][\A r \in Run, o \in Role :
       job[r][o].state # "running" /\ job'[r][o].state = "running" =>
         /\ job[r][o].state = "none"
         /\ \E a \in Agent : /\ toAgent[a] # << >>
                             /\ Head(toAgent[a]).phase = "start"
                             /\ Head(toAgent[a]).run = r]_vars

(* The endpoints that generate load for one connection belong to one run.     *)
OneRunPerConnection ==
  \A a \in Agent, r1, r2 \in Run, o1, o2 \in Role :
    /\ Holds(a, r1, o1) /\ job[r1][o1].state = "running"
    /\ Holds(a, r2, o2) /\ job[r2][o2].state = "running"
    => r1 = r2

(* When a run's end is recorded, no endpoint goes on unnoticed: on every       *)
(* connection Control still reads, an endpoint that runs has a Stop coming.   *)
FinishedRunIsStopped ==
  \A r \in finished, o \in Role :
    LET a == place[r][o] IN
    (a # None /\ job[r][o].state = "running" /\ Holds(a, r, o)
              /\ task[a][conn[a]].live)
      => \E i \in 1 .. Len(toAgent[a]) :
           toAgent[a][i].phase = "stop" /\ toAgent[a][i].run = r

(* A row that reads as unfinished belongs to start_run, to the active slot, to *)
(* a finished run whose status a late UPDATE replaced, or to a start whose     *)
(* HTTP client went away: no other run is left behind that nobody will end.    *)
NoRunIsLeftBehind ==
  \A r \in Run : status[r] \in LiveStatus =>
    startLock = r \/ activeRun = r \/ r \in finished \/ op[r].pc = "dropped"

(* Someone in Control still has this run in hand.                             *)
InHand(r) ==
  \/ startLock = r
  \/ activeRun = r
  \/ \E q \in Req : op[q].run = r
  \/ \E a \in Agent, g \in Gen : /\ task[a][g].run = r
                                  /\ task[a][g].pc \in {"db", "clear", "degrade"}

(* Once a run has a verdict and nobody has it in hand, nobody takes it in hand *)
(* again: late events, late requests and expired grace timers all find that    *)
(* it is not the active run, and the verdict stays.                            *)
SettledRunIsLeftAlone ==
  [][\A r \in Run : status[r] \in EndStatus /\ ~InHand(r) =>
       status'[r] = status[r] /\ ~InHand(r)']_vars

(* start_run reports success only after both endpoints acknowledged Start: an  *)
(* active run has two endpoints that did start.                               *)
ActiveRunHasBothEndpoints ==
  \A r \in Run : activeRun = r =>
    \A o \in Role : job[r][o].state # "none"

(* The lifecycle implements the slot of RunSlot: start_run holds it as the     *)
(* mutex guard, then as the mutex's value.                                    *)
Slot == INSTANCE RunSlot WITH
          slot <- IF startLock # None THEN startLock ELSE activeRun,
          started <- activeRun # None,
          created <- {r \in Run : status[r] # "none"},
          ended <- finished

HoldsOneSlot == Slot!SlotSpec

-----------------------------------------------------------------------------
(* Fairness: tokio runs every task that can run, every timer fires, a         *)
(* connection that one side left is noticed by the other.  Requests, faults,  *)
(* reconnects and job errors are the environment's choice.                    *)

RequestProgress(q) ==
  \/ SendCommand(q) \/ CommandTimeout(q)
  \/ q \in StartReq /\ (StartSucceeds(q) \/ StartFails(q))
  \/ q \in StopReq \cup PauseReq /\ MakePlan(q)
  \/ q \in StopReq /\ (StopFinishes(q) \/ StopClears(q))
  \/ q \in PauseReq /\ (PauseSucceeds(q) \/ PauseFails(q))

SessionProgress(a, g) ==
  \/ ReceiveAck(a, g) \/ ReceiveError(a, g) \/ ReceiveCompleted(a, g)
  \/ CountCompletion(a, g) \/ FinishWrites(a, g) \/ FinishClears(a, g)
  \/ conn[a] # g /\ StreamEnds(a, g)
  \/ CheckParticipant(a, g) \/ WriteDegraded(a, g) \/ GraceExpires(a, g)

AgentProgress(a) ==
  \/ AgentPrepare(a) \/ AgentStart(a) \/ AgentStop(a) \/ AgentSetPaused(a)
  \/ conn[a] # 0 /\ ~task[a][conn[a]].live /\ Disconnect(a)

Fairness ==
  /\ \A q \in Req : WF_vars(RequestProgress(q))
  /\ \A a \in Agent, g \in Gen : WF_vars(SessionProgress(a, g))
  /\ \A a \in Agent : WF_vars(AgentProgress(a))
  /\ \A r \in Run, o \in Role : WF_vars(JobReports(r, o))

(* Jobs that only end when something ends them ...                            *)
FairSpec == Spec /\ Fairness

(* ... and jobs whose duration elapses.                                       *)
ElapsingSpec ==
  FairSpec /\ \A r \in Run, o \in Role : WF_vars(JobElapses(r, o))

(* start_run always gives the active_run mutex back, although everything that *)
(* handles events waits for it while start_run waits for acknowledgements.    *)
StartReturns == \A r \in Run : startLock = r ~> startLock # r

Paused(r) == \E o \in Role : job[r][o].paused

(* An endpoint's connection was replaced by a newer one of the same Agent ...  *)
Replaced(r) ==
  \E o \in Role : LET a == place[r][o] IN
    a # None /\ job[r][o].gen > 0 /\ job[r][o].gen < session[a]

(* ... and no stop_run, session task or grace timer is about to end the run.  *)
Unwatched(r) ==
  /\ \A q \in Req : op[q].run # r
  /\ \A a \in Agent, g \in Gen :
       /\ task[a][g].pc = "lost" => a \notin Participants(r)
       /\ task[a][g].run = r => task[a][g].pc \notin {"degrade", "sleep", "db", "clear"}

(* An active run leaves the slot once its endpoints' durations have passed: by *)
(* their reports, an error, or a broken connection and the grace timer.  Two  *)
(* runs stay: one that is paused, and one whose Agent was connected again     *)
(* before Control saw the old stream end, which then goes unnoticed.          *)
ActiveRunIsReleased ==
  \A r \in Run :
    (\A o \in Role : WF_vars(JobElapses(r, o)))
      => (activeRun = r
            ~> (activeRun # r \/ Paused(r) \/ (Replaced(r) /\ Unwatched(r))))

(* "When a participant's connection breaks during a run the Run becomes       *)
(* degraded ... and fails" (docs/DISTRIBUTED_CONTROL.md:7, in Korean).  A      *)
(* quick reconnect replaces the session, the end of the old stream is ignored *)
(* and the run stays as it is.                                                *)
BrokenConnectionIsNoticed ==
  \A r \in Run, o \in Role :
    (activeRun = r /\ job[r][o].gen # conn[place[r][o]])
      ~> (status[r] = "degraded" \/ activeRun # r)

(* Recording a failure or a cancellation ends the endpoints, even those whose *)
(* duration would never elapse, as long as their connection lasts: a Stop     *)
(* reaches only the endpoints of the connection it arrives on.                *)
FailedRunQuiesces ==
  \A r \in Run, o \in Role :
    (status[r] \in {"failed", "cancelled"} /\ job[r][o].state = "running")
      ~> (job[r][o].state # "running" \/ ~Holds(place[r][o], r, o))

=============================================================================
