------------------------- MODULE NetworkApply_proofs -------------------------
(* Type correctness of NetworkApply; that an interface is held by one revision; *)
(* that a Commit follows the Stages of every node; and that what is recorded   *)
(* as completed is committed and in place on a node the request has to itself. *)
EXTENDS NetworkApply, TLAPS

(* A request on its way through an apply names its operation, and so does each *)
(* of its Stage commands; the command loop and the lease tasks know what they  *)
(* are at.                                                                    *)
HasOp(q, s) ==
  s.pc \in {"mark", "stage", "commit", "rollback", "complete", "prepare", "fail"}
    => q \in ApplyReq /\ s.op \in Op
RequestsNamed == \A q \in Req : HasOp(q, req[q])

StageNamed(c) == c.what = "stage" => c.q \in ApplyReq /\ c.op \in Op
CommandsNamed ==
  \A n \in Node : \A k \in 1 .. Len(toAgent[n]) : StageNamed(toAgent[n][k])

LoopNamed(a) ==
  /\ a.pc \in {"stage", "commit"} => a.cmd \in Command
  /\ a.pc \in {"stage", "commit", "undo", "remove"} => a.j \in Journal
  /\ a.pc = "stage" => a.cmd.q \in ApplyReq
LoopsNamed == \A n \in Node : LoopNamed(agent[n])

LeaseNamed(l) == l.pc # "none" => l.op \in Op
LeasesNamed == \A n \in Node, q \in ApplyReq : LeaseNamed(lease[n][q])

Typed == TypeOK /\ RequestsNamed /\ CommandsNamed /\ LoopsNamed /\ LeasesNamed

(* A plan is never made from an inventory that lacks its own interface.        *)
PlansLeaveOut ==
  \A o \in Op : \A i \in DOMAIN plans[o] : NicOf[RevisionOf[o]] \notin plans[o][i]

-----------------------------------------------------------------------------
(* Types of what a request moves to                                           *)

LEMMA Advanced ==
  ASSUME NEW s \in Request, NEW i \in Nat, NEW t,
         t = [s EXCEPT !.i = i, !.sent = FALSE]
  PROVE  t \in Request /\ t.op = s.op /\ t.pc = s.pc
BY DEF Request

LEMMA NextNodeTyped ==
  ASSUME NEW s \in Request, NEW phase \in Pc, NEW t, t = NextNode(s, phase)
  PROVE  t \in Request /\ t.op = s.op /\ t.pc \in {s.pc, phase}
<1> DEFINE j == s.i + 1
<1> DEFINE k == 1
<1>1. j \in Nat /\ k \in Nat
  BY DEF Request
<1>2. s.i < Len(NodesOfReq(s)) => t = [s EXCEPT !.i = j, !.sent = FALSE]
  BY DEF NextNode
<1>3. ~(s.i < Len(NodesOfReq(s))) => t = [s EXCEPT !.pc = phase, !.i = k, !.sent = FALSE]
  BY DEF NextNode
<1> HIDE DEF j, k
<1>4. CASE t = [s EXCEPT !.i = j, !.sent = FALSE]
  <2>1. t \in Request /\ t.op = s.op /\ t.pc = s.pc
    BY <1>1, <1>4 DEF Request
  <2> QED BY <2>1
<1>5. CASE t = [s EXCEPT !.pc = phase, !.i = k, !.sent = FALSE]
  <2>1. t \in Request /\ t.op = s.op /\ t.pc = phase
    BY <1>1, <1>5 DEF Request
  <2> QED BY <2>1
<1> QED BY <1>2, <1>3, <1>4, <1>5

LEMMA UndoTyped ==
  ASSUME NEW s \in Request
  PROVE  /\ UndoStaged(s) \in Request
         /\ UndoStaged(s).op = s.op
BY DEF UndoStaged, Request, Pc, Action

LEMMA StagedOneMore ==
  ASSUME NEW s \in Request
  PROVE  /\ [s EXCEPT !.staged = s.staged + 1] \in Request
         /\ [s EXCEPT !.staged = s.staged + 1].op = s.op
         /\ [s EXCEPT !.staged = s.staged + 1].pc = s.pc
BY DEF Request

LEMMA AfterTyped ==
  ASSUME NEW q, NEW s \in Request, NEW ok \in BOOLEAN, s.pc \in Action
  PROVE  After(s, ok) \in Request /\ (HasOp(q, s) => HasOp(q, After(s, ok)))
<1>1. CASE s.pc = "stage"
  <2>1. After(s, ok) = AfterStage(s, ok)
    BY <1>1 DEF After
  <2>2. "commit" \in Pc
    BY DEF Pc, Action
  <2>3. CASE ok
    <3> DEFINE u == [s EXCEPT !.staged = s.staged + 1]
    <3>1. u \in Request /\ u.op = s.op /\ u.pc = s.pc
      BY StagedOneMore
    <3>2. After(s, ok) = NextNode(u, "commit")
      BY <2>1, <2>3 DEF AfterStage
    <3> HIDE DEF u
    <3> QED BY <2>2, <3>1, <3>2, <1>1, NextNodeTyped DEF HasOp
  <2>4. CASE ~ok
    BY <2>1, <2>4, <1>1, UndoTyped DEF AfterStage, HasOp
  <2> QED BY <2>3, <2>4
<1>2. CASE s.pc = "commit"
  <2>1. After(s, ok) = AfterCommit(s, ok)
    BY <1>2 DEF After
  <2>2. "complete" \in Pc
    BY DEF Pc
  <2>3. CASE ok
    <3>1. After(s, ok) = NextNode(s, "complete")
      BY <2>1, <2>3 DEF AfterCommit
    <3> QED BY <2>2, <3>1, <1>2, NextNodeTyped DEF HasOp
  <2>4. CASE ~ok
    BY <2>1, <2>4, <1>2, UndoTyped DEF AfterCommit, HasOp
  <2> QED BY <2>3, <2>4
<1>3. CASE s.pc = "rollback"
  <2>1. After(s, ok) = AfterRollback(s)
    BY <1>3 DEF After
  <2> DEFINE j == s.i + 1
  <2>2. j \in Nat /\ "fail" \in Pc
    BY DEF Request, Pc
  <2>3. CASE s.i < s.staged
    <3>1. After(s, ok) = [s EXCEPT !.i = j, !.sent = FALSE]
      BY <2>1, <2>3 DEF AfterRollback
    <3> HIDE DEF j
    <3> QED BY <2>2, <3>1, <1>3, Advanced DEF HasOp
  <2>4. CASE ~(s.i < s.staged)
    <3>1. After(s, ok) = [s EXCEPT !.pc = "fail", !.sent = FALSE]
      BY <2>1, <2>4 DEF AfterRollback
    <3> QED BY <2>2, <3>1, <1>3 DEF HasOp, Request
  <2> QED BY <2>3, <2>4
<1>4. CASE s.pc = "teardown"
  <2>1. After(s, ok) = AfterTeardown(s, ok)
    BY <1>4 DEF After
  <2>2. "unprepare" \in Pc
    BY DEF Pc
  <2>3. CASE ok
    <3>1. After(s, ok) = NextNode(s, "unprepare")
      BY <2>1, <2>3 DEF AfterTeardown
    <3> QED BY <2>2, <3>1, <1>4, NextNodeTyped DEF HasOp
  <2>4. CASE ~ok
    <3>1. After(s, ok) = [s EXCEPT !.pc = "quarantined", !.sent = FALSE]
      BY <2>1, <2>4 DEF AfterTeardown
    <3> QED BY <3>1, <1>4, ZenonT(90) DEF Request, HasOp, Pc
  <2> QED BY <2>3, <2>4
<1>5. CASE s.pc = "reconcile"
  BY <1>5 DEF After, Request, HasOp, Pc
<1> QED BY <1>1, <1>2, <1>3, <1>4, <1>5 DEF Action

LEMMA IdleTyped == Idle \in Request
BY DEF Idle, Request, Pc, Action

LEMMA PcChanged ==
  ASSUME NEW s \in Request, NEW pc \in Pc
  PROVE  /\ [s EXCEPT !.pc = pc] \in Request
         /\ [s EXCEPT !.pc = pc].pc = pc
         /\ [s EXCEPT !.pc = pc].op = s.op
         /\ [s EXCEPT !.pc = pc, !.sent = FALSE] \in Request
         /\ [s EXCEPT !.pc = pc, !.sent = FALSE].pc = pc
BY DEF Request

LEMMA SetReqTyped ==
  ASSUME Typed, NEW q \in Req, NEW s \in Request, HasOp(q, s), SetReq(q, s)
  PROVE  req' \in [Req -> Request] /\ RequestsNamed'
BY DEF Typed, TypeOK, RequestsNamed, SetReq

LEMMA SameRequests ==
  ASSUME RequestsNamed, UNCHANGED req
  PROVE  RequestsNamed'
BY DEF RequestsNamed

LEMMA SameCommands ==
  ASSUME CommandsNamed, UNCHANGED toAgent
  PROVE  CommandsNamed'
BY DEF CommandsNamed

LEMMA SameLoops ==
  ASSUME LoopsNamed, UNCHANGED agent
  PROVE  LoopsNamed'
BY DEF LoopsNamed

LEMMA SameLeases ==
  ASSUME LeasesNamed, UNCHANGED lease
  PROVE  LeasesNamed'
BY DEF LeasesNamed

LEMMA FaultTyped ==
  ASSUME TypeOK, Fault
  PROVE  faults' \in 0 .. MaxFaults
BY ProfileAssumption DEF TypeOK, Fault

-----------------------------------------------------------------------------
(* Types of what an Agent does                                                *)

LEMMA HeadTyped ==
  ASSUME Typed, NEW n \in Node, toAgent[n] # << >>
  PROVE  /\ Head(toAgent[n]) \in Command
         /\ StageNamed(Head(toAgent[n]))
<1>1. toAgent[n] \in Seq(Command)
  BY DEF Typed, TypeOK
<1>2. 1 \in 1 .. Len(toAgent[n]) /\ Head(toAgent[n]) = toAgent[n][1]
  BY <1>1
<1>3. Head(toAgent[n]) \in Command
  BY <1>1
<1> QED BY <1>2, <1>3 DEF Typed, CommandsNamed

LEMMA TakeTyped ==
  ASSUME Typed, NEW n \in Node, toAgent[n] # << >>, Take(n)
  PROVE  toAgent' \in [Node -> Seq(Command)] /\ CommandsNamed'
<1>1. toAgent[n] \in Seq(Command)
  BY DEF Typed, TypeOK
<1>2. toAgent' = [toAgent EXCEPT ![n] = Tail(toAgent[n])]
  BY DEF Take
<1>3. Tail(toAgent[n]) \in Seq(Command)
  BY <1>1
<1>4. toAgent' \in [Node -> Seq(Command)]
  BY <1>2, <1>3 DEF Typed, TypeOK
<1>5. CommandsNamed'
  <2> SUFFICES ASSUME NEW m \in Node, NEW k \in 1 .. Len(toAgent'[m])
               PROVE  StageNamed(toAgent'[m][k])
    BY DEF CommandsNamed, StageNamed
  <2>1. CASE m = n
    <3>1. toAgent'[m] = Tail(toAgent[n])
      BY <2>1, <1>2 DEF Typed, TypeOK
    <3>2. k + 1 \in 1 .. Len(toAgent[n]) /\ toAgent'[m][k] = toAgent[n][k + 1]
      BY <1>1, <3>1
    <3> QED BY <3>2 DEF Typed, CommandsNamed
  <2>2. CASE m # n
    <3>1. toAgent'[m] = toAgent[m]
      BY <2>2, <1>2 DEF Typed, TypeOK
    <3> QED BY <3>1 DEF Typed, CommandsNamed
  <2> QED BY <2>1, <2>2
<1> QED BY <1>4, <1>5

LEMMA AnswerTyped ==
  ASSUME TypeOK, NEW n \in Node, NEW c \in Command, NEW ok \in BOOLEAN,
         Answer(n, c, ok)
  PROVE  replies' \subseteq Reply
<1> DEFINE r == [q |-> c.q, what |-> c.what, i |-> c.i, n |-> n, ok |-> ok]
<1>1. r \in Reply
  BY DEF Command, Reply
<1>2. replies' = replies \/ replies' = replies \cup {r}
  BY DEF Answer
<1> HIDE DEF r
<1> QED BY <1>1, <1>2 DEF TypeOK

LEMMA LoopTyped ==
  ASSUME Typed, NEW n \in Node, NEW a \in Loop, LoopNamed(a), SetAgent(n, a)
  PROVE  agent' \in [Node -> Loop] /\ LoopsNamed'
BY DEF Typed, TypeOK, LoopsNamed, SetAgent

LEMMA FreeTyped ==
  /\ Free \in Loop /\ LoopNamed(Free)
  /\ [Free EXCEPT !.pc = "down"] \in Loop
  /\ LoopNamed([Free EXCEPT !.pc = "down"])
BY DEF Free, Loop, LoopNamed

LEMMA LoopMade ==
  ASSUME NEW pc \in {"stage", "commit", "undo", "remove"},
         NEW c \in Command \cup {None}, NEW j \in Journal,
         NEW a, a = [pc |-> pc, cmd |-> c, j |-> j]
  PROVE  /\ a \in Loop
         /\ pc \in {"undo", "remove"} => LoopNamed(a)
         /\ pc \in {"stage", "commit"} /\ c \in Command /\ (pc = "stage" => c.q \in ApplyReq)
              => LoopNamed(a)
<1>1. a \in Loop
  BY DEF Loop
<1>2. a.pc = pc /\ a.cmd = c /\ a.j = j
  OBVIOUS
<1> QED BY <1>1, <1>2 DEF LoopNamed

LEMMA JournalTyped ==
  ASSUME TypeOK, NEW n \in Node, NEW j \in Journal \cup {None}, SetJournal(n, j)
  PROVE  journal' \in [Node -> Journal \cup {None}]
BY DEF TypeOK, SetJournal

LEMMA PhaseTyped ==
  ASSUME NEW j \in Journal, NEW p \in Phase
  PROVE  /\ [j EXCEPT !.phase = p] \in Journal
         /\ [j EXCEPT !.phase = p].phase = p
         /\ [j EXCEPT !.phase = p].op = j.op
BY DEF Journal

LEMMA FinishTyped ==
  ASSUME Typed, NEW n \in Node, NEW ok \in BOOLEAN, Finish(n, ok)
  PROVE  agent' \in [Node -> Loop] /\ LoopsNamed' /\ replies' \subseteq Reply
<1>1. agent' \in [Node -> Loop] /\ LoopsNamed'
  BY LoopTyped, FreeTyped DEF Finish
<1>2. replies' \subseteq Reply
  <2>1. CASE agent[n].cmd = None
    BY <2>1 DEF Finish, Typed, TypeOK
  <2>2. CASE agent[n].cmd # None
    <3>1. agent[n].cmd \in Command
      BY <2>2 DEF Typed, TypeOK, Loop
    <3> QED BY <2>2, <3>1, AnswerTyped DEF Finish, Typed
  <2> QED BY <2>1, <2>2
<1> QED BY <1>1, <1>2

LEMMA StreamLostTyped ==
  ASSUME Typed, NEW n \in Node, LoseStream(n)
  PROVE  /\ online' \subseteq Node
         /\ replies' \subseteq Reply
         /\ toAgent' \in [Node -> Seq(Command)]
         /\ CommandsNamed'
<1>1. toAgent' \in [Node -> Seq(Command)]
  BY DEF Typed, TypeOK, LoseStream
<1>2. CommandsNamed'
  <2> SUFFICES ASSUME NEW m \in Node, NEW k \in 1 .. Len(toAgent'[m])
               PROVE  StageNamed(toAgent'[m][k])
    BY DEF CommandsNamed, StageNamed
  <2>1. m # n
    BY DEF Typed, TypeOK, LoseStream
  <2>2. toAgent'[m] = toAgent[m]
    BY <2>1 DEF Typed, TypeOK, LoseStream
  <2> QED BY <2>2 DEF Typed, CommandsNamed
<1> QED BY <1>1, <1>2 DEF Typed, TypeOK, LoseStream

LEMMA UndoneTyped ==
  ASSUME TypeOK, NEW n \in Node, NEW o, Undo(n, o)
  PROVE  conf' \in [Node -> SUBSET Revision]
BY DEF TypeOK, Undo

LEMMA GivesUpTyped ==
  ASSUME TypeOK, NEW n \in Node, NEW o, GivesUp(n, o)
  PROVE  /\ conf' \in [Node -> SUBSET Revision]
         /\ abandoned' \in [Node -> BOOLEAN]
         /\ faults' \in 0 .. MaxFaults
<1>1. conf' \in [Node -> SUBSET Revision]
  BY UndoneTyped DEF TypeOK, GivesUp
<1>2. abandoned' \in [Node -> BOOLEAN]
  BY DEF TypeOK, GivesUp
<1>3. faults' \in 0 .. MaxFaults
  BY FaultTyped DEF TypeOK, GivesUp
<1> QED BY <1>1, <1>2, <1>3

LEMMA SetLeaseTyped ==
  ASSUME Typed, NEW n \in Node, NEW q \in ApplyReq, NEW l \in Lease,
         LeaseNamed(l), lease' = [lease EXCEPT ![n][q] = l]
  PROVE  lease' \in [Node -> [ApplyReq -> Lease]] /\ LeasesNamed'
BY DEF Typed, TypeOK, LeasesNamed

-----------------------------------------------------------------------------
(* Types, action by action                                                    *)

(* A step of Control alone.                                                  *)
LEMMA ControlTyped ==
  ASSUME Typed, UNCHANGED <<wire, agents, history>>,
         opStatus' \in [Op -> OpStatus], plans' \in [Op -> Seq(SUBSET Nic)],
         prepared' \subseteq Revision, activeRun' \in Revision \cup {None},
         starting' \in Revision \cup {None},
         req' \in [Req -> Request] /\ RequestsNamed', faults' \in 0 .. MaxFaults
  PROVE  Typed'
<1>1. CommandsNamed' /\ LoopsNamed' /\ LeasesNamed'
  BY SameCommands, SameLoops, SameLeases DEF Typed, wire, agents
<1>2. /\ UNCHANGED <<online, toAgent, replies>>
      /\ UNCHANGED <<conf, journal, agent, lease>>
      /\ UNCHANGED <<stagedBy, owner, abandoned>>
  BY DEF wire, agents, history
<1> QED BY <1>1, <1>2 DEF Typed, TypeOK

LEMMA PlanTyped ==
  ASSUME Typed, NEW o \in Op, PlanBegin(o) \/ PlanNode(o)
  PROVE  Typed'
<1>1. RequestsNamed
  BY DEF Typed
<1>2. CASE PlanBegin(o)
  <2>1. opStatus' \in [Op -> OpStatus]
    BY <1>2 DEF PlanBegin, Typed, TypeOK, OpStatus
  <2> QED BY <1>1, <1>2, <2>1, SameRequests, ControlTyped
       DEF PlanBegin, Typed, TypeOK
<1>3. CASE PlanNode(o)
  <2> DEFINE n == NodesOfOp(o)[Len(plans[o]) + 1]
  <2>1. plans' = [plans EXCEPT ![o] = Append(plans[o], Inventory(n))]
    BY <1>3 DEF PlanNode
  <2>2. n \in Node
    BY <1>3 DEF PlanNode, Typed, TypeOK
  <2>3. Inventory(n) \in SUBSET Nic
    BY <2>2, ProfileAssumption DEF Inventory, Typed, TypeOK
  <2>4. plans' \in [Op -> Seq(SUBSET Nic)]
    <3> HIDE DEF n
    <3>1. plans[o] \in Seq(SUBSET Nic)
      BY DEF Typed, TypeOK
    <3>2. Append(plans[o], Inventory(n)) \in Seq(SUBSET Nic)
      BY <2>3, <3>1
    <3> QED BY <2>1, <3>2 DEF Typed, TypeOK
  <2> QED BY <1>1, <1>3, <2>4, SameRequests, ControlTyped
       DEF PlanNode, Typed, TypeOK
<1> QED BY <1>2, <1>3

LEMMA RequestMovedTyped ==
  ASSUME Typed, NEW q \in Req, NEW s \in Request, HasOp(q, s), SetReq(q, s),
         UNCHANGED <<wire, agents, history>>, UNCHANGED <<plans, activeRun, starting>>,
         opStatus' \in [Op -> OpStatus], prepared' \subseteq Revision,
         faults' \in 0 .. MaxFaults
  PROVE  Typed'
<1>1. req' \in [Req -> Request] /\ RequestsNamed'
  BY SetReqTyped
<1>2. /\ plans' \in [Op -> Seq(SUBSET Nic)]
      /\ activeRun' \in Revision \cup {None}
      /\ starting' \in Revision \cup {None}
  BY DEF Typed, TypeOK
<1> QED BY <1>1, <1>2, ControlTyped

LEMMA SendTyped ==
  ASSUME Typed, NEW q \in Req, Send(q)
  PROVE  Typed'
<1> DEFINE s == req[q]
<1>1. s \in Request /\ HasOp(q, s) /\ s.pc \in Action
  BY DEF Typed, TypeOK, RequestsNamed, Send
<1>2. LoopsNamed' /\ LeasesNamed'
  BY SameLoops, SameLeases DEF Send, Typed, agents
<1>3. CASE Target(s) \in online
  <2> DEFINE t == [s EXCEPT !.sent = TRUE]
             c == [q |-> q, what |-> s.pc, i |-> s.i, op |-> s.op]
             n == Target(s)
  <2>1. t \in Request /\ HasOp(q, t)
    BY <1>1 DEF Request, HasOp
  <2>2. SetReq(q, t) /\ toAgent' = [toAgent EXCEPT ![n] = Append(toAgent[n], c)]
    BY <1>3 DEF Send
  <2>3. n \in Node
    BY <1>3 DEF Typed, TypeOK
  <2>4. c \in Command /\ StageNamed(c)
    BY <1>1 DEF Command, Request, HasOp, StageNamed
  <2>5. req' \in [Req -> Request] /\ RequestsNamed'
    <3> HIDE DEF t
    <3> QED BY <2>1, <2>2, SetReqTyped
  <2> HIDE DEF c, n
  <2>6. toAgent[n] \in Seq(Command)
    BY <2>3 DEF Typed, TypeOK
  <2>7. Append(toAgent[n], c) \in Seq(Command)
    BY <2>4, <2>6
  <2>8. toAgent' \in [Node -> Seq(Command)]
    BY <2>2, <2>7 DEF Typed, TypeOK
  <2>9. CommandsNamed'
    <3> SUFFICES ASSUME NEW m \in Node, NEW k \in 1 .. Len(toAgent'[m])
                 PROVE  StageNamed(toAgent'[m][k])
      BY DEF CommandsNamed, StageNamed
    <3>1. CASE m = n
      <4>1. toAgent'[m] = Append(toAgent[n], c)
        BY <3>1, <2>2 DEF Typed, TypeOK
      <4>2. \/ k \in 1 .. Len(toAgent[n]) /\ toAgent'[m][k] = toAgent[n][k]
            \/ toAgent'[m][k] = c
        BY <4>1, <2>6, <2>4
      <4> QED BY <4>2, <2>4, <2>3 DEF Typed, CommandsNamed
    <3>2. CASE m # n
      <4>1. toAgent'[m] = toAgent[m]
        BY <3>2, <2>2 DEF Typed, TypeOK
      <4> QED BY <4>1 DEF Typed, CommandsNamed
    <3> QED BY <3>1, <3>2
  <2> QED BY <1>2, <2>5, <2>8, <2>9 DEF Send, Typed, TypeOK, agents, history
<1>4. CASE Target(s) \notin online
  <2>1. SetReq(q, After(s, FALSE)) /\ UNCHANGED toAgent
    BY <1>4 DEF Send
  <2>2. After(s, FALSE) \in Request /\ HasOp(q, After(s, FALSE))
    BY <1>1, AfterTyped
  <2>3. UNCHANGED <<wire, agents, history>> /\ UNCHANGED <<plans, activeRun, starting>>
    BY <2>1 DEF Send, wire
  <2> QED BY <2>1, <2>2, <2>3, RequestMovedTyped DEF Send, Typed, TypeOK
<1> QED BY <1>3, <1>4

LEMMA AnsweredTyped ==
  ASSUME Typed, NEW q \in Req, Receive(q) \/ Timeout(q)
  PROVE  Typed'
<1> DEFINE s == req[q]
<1>1. s \in Request /\ HasOp(q, s) /\ s.pc \in Action
  BY DEF Typed, TypeOK, RequestsNamed, Receive, Timeout
<1>2. CASE Receive(q)
  <2>1. PICK r \in replies : /\ replies' = replies \ {r}
                             /\ SetReq(q, After(s, r.ok))
    BY <1>2 DEF Receive
  <2>2. r.ok \in BOOLEAN
    BY DEF Typed, TypeOK, Reply
  <2>3. After(s, r.ok) \in Request /\ HasOp(q, After(s, r.ok))
    BY <1>1, <2>2, AfterTyped
  <2>4. req' \in [Req -> Request] /\ RequestsNamed'
    BY <2>1, <2>3, SetReqTyped
  <2>5. CommandsNamed' /\ LoopsNamed' /\ LeasesNamed'
    BY <1>2, SameCommands, SameLoops, SameLeases DEF Receive, Typed, agents
  <2> QED BY <1>2, <2>1, <2>4, <2>5 DEF Receive, Typed, TypeOK, agents, history
<1>3. CASE Timeout(q)
  <2>1. SetReq(q, After(s, FALSE))
    BY <1>3 DEF Timeout
  <2>2. After(s, FALSE) \in Request /\ HasOp(q, After(s, FALSE))
    BY <1>1, AfterTyped
  <2>3. faults' \in 0 .. MaxFaults
    BY <1>3, FaultTyped DEF Timeout, Typed, TypeOK
  <2> QED BY <1>3, <2>1, <2>2, <2>3, RequestMovedTyped DEF Timeout, Typed, TypeOK
<1> QED BY <1>2, <1>3

LEMMA ApplyTyped ==
  ASSUME Typed, NEW q \in Req, ApplySteps(q)
  PROVE  Typed'
<1> DEFINE s == req[q]
<1>1. s \in Request /\ HasOp(q, s)
  BY DEF Typed, TypeOK, RequestsNamed
<1>2. ASSUME NEW pc \in {"stage", "prepare", "done", "failed"},
             SetReq(q, [s EXCEPT !.pc = pc]),
             s.pc \in {"mark", "complete", "prepare", "fail"},
             opStatus' \in [Op -> OpStatus], prepared' \subseteq Revision,
             UNCHANGED <<wire, agents, history>>,
             UNCHANGED <<plans, activeRun, starting>>, UNCHANGED faults
      PROVE  Typed'
  <2> DEFINE t == [s EXCEPT !.pc = pc]
  <2>1. pc \in Pc
    BY DEF Pc, Action
  <2>2. t \in Request /\ t.pc = pc /\ t.op = s.op
    BY <1>1, <2>1, PcChanged
  <2> HIDE DEF t
  <2>3. HasOp(q, t)
    BY <1>1, <1>2, <2>2 DEF HasOp
  <2>4. SetReq(q, t) /\ faults' \in 0 .. MaxFaults
    BY <1>2 DEF t, Typed, TypeOK
  <2> QED BY <1>2, <2>2, <2>3, <2>4, RequestMovedTyped
<1>3. CASE ApplyMarks(q)
  <2>1. opStatus' \in [Op -> OpStatus] /\ prepared' \subseteq Revision
    BY <1>3 DEF ApplyMarks, OpStatus, Typed, TypeOK
  <2> QED BY <1>2, <1>3, <2>1 DEF ApplyMarks
<1>4. CASE ApplyCompletes(q)
  <2>1. opStatus' \in [Op -> OpStatus] /\ prepared' \subseteq Revision
    BY <1>4 DEF ApplyCompletes, OpStatus, Typed, TypeOK
  <2> QED BY <1>2, <1>4, <2>1 DEF ApplyCompletes
<1>5. CASE ApplyPrepares(q)
  <2>1. opStatus' \in [Op -> OpStatus] /\ prepared' \subseteq Revision
    BY <1>1, <1>5, ProfileAssumption DEF ApplyPrepares, HasOp, Typed, TypeOK
  <2> QED BY <1>2, <1>5, <2>1 DEF ApplyPrepares
<1>6. CASE ApplyFails(q)
  <2>1. opStatus' \in [Op -> OpStatus] /\ prepared' \subseteq Revision
    BY <1>6 DEF ApplyFails, OpStatus, Typed, TypeOK
  <2> QED BY <1>2, <1>6, <2>1 DEF ApplyFails
<1> QED BY <1>3, <1>4, <1>5, <1>6 DEF ApplySteps

LEMMA BeginTyped ==
  ASSUME Typed, NEW q \in Req,
         \/ q \in ApplyReq /\ \E o \in Op : ApplyBegin(q, o)
         \/ \E r \in Revision : TeardownBegin(q, r)
         \/ \E n \in Node : ReconcileBegin(q, n)
  PROVE  Typed'
<1>1. CASE q \in ApplyReq /\ \E o \in Op : ApplyBegin(q, o)
  <2> PICK o \in Op : ApplyBegin(q, o)
    BY <1>1
  <2> DEFINE t == [Idle EXCEPT !.pc = "mark", !.op = o]
  <2>1. t \in Request /\ HasOp(q, t)
    BY <1>1 DEF Idle, Request, HasOp, Pc, Action
  <2> HIDE DEF t
  <2> QED BY <2>1, RequestMovedTyped DEF t, ApplyBegin, Typed, TypeOK
<1>2. CASE \E r \in Revision : TeardownBegin(q, r)
  <2> PICK r \in Revision : TeardownBegin(q, r)
    BY <1>2
  <2> DEFINE t == [Idle EXCEPT !.pc = "teardown", !.rev = r]
  <2>1. t \in Request /\ HasOp(q, t)
    BY DEF Idle, Request, HasOp, Pc, Action
  <2> HIDE DEF t
  <2> QED BY <2>1, RequestMovedTyped DEF t, TeardownBegin, Typed, TypeOK
<1>3. CASE \E n \in Node : ReconcileBegin(q, n)
  <2> PICK n \in Node : ReconcileBegin(q, n)
    BY <1>3
  <2> DEFINE t == [Idle EXCEPT !.pc = "reconcile", !.node = n]
  <2>1. t \in Request /\ HasOp(q, t)
    BY DEF Idle, Request, HasOp, Pc, Action
  <2> HIDE DEF t
  <2> QED BY <2>1, RequestMovedTyped DEF t, ReconcileBegin, Typed, TypeOK
<1> QED BY <1>1, <1>2, <1>3

LEMMA TeardownEndTyped ==
  ASSUME Typed, NEW q \in Req, TeardownEnds(q)
  PROVE  Typed'
<1> DEFINE t == [req[q] EXCEPT !.pc = "done"]
<1>1. t \in Request /\ HasOp(q, t)
  BY ZenonT(90) DEF Typed, TypeOK, Request, HasOp, Pc
<1>2. SetReq(q, t) /\ prepared' \subseteq Revision
  BY DEF TeardownEnds, Typed, TypeOK
<1> HIDE DEF t
<1> QED BY <1>1, <1>2, RequestMovedTyped DEF TeardownEnds, Typed, TypeOK

LEMMA RunTyped ==
  ASSUME Typed, (\E r \in Revision : StartBegin(r)) \/ StartEnds \/ RunEnds
  PROVE  Typed'
<1>1. req' \in [Req -> Request] /\ RequestsNamed'
  BY SameRequests DEF StartBegin, StartEnds, RunEnds, Typed, TypeOK
<1> QED BY <1>1, ControlTyped
     DEF StartBegin, StartEnds, RunEnds, Typed, TypeOK

LEMMA DropTyped ==
  ASSUME Typed, NEW q \in Req, RequestDropped(q)
  PROVE  Typed'
<1> DEFINE t == [req[q] EXCEPT !.pc = "dropped", !.sent = FALSE]
<1>1. t \in Request /\ HasOp(q, t)
  BY ZenonT(90) DEF Typed, TypeOK, Request, HasOp, Pc
<1>2. SetReq(q, t)
  BY DEF RequestDropped
<1> HIDE DEF t
<1> QED BY <1>1, <1>2, RequestMovedTyped, FaultTyped DEF RequestDropped, Typed, TypeOK

LEMMA RestartTyped ==
  ASSUME Typed, ControlRestart
  PROVE  Typed'
<1>1. ASSUME NEW q \in Req
      PROVE  req'[q] \in Request /\ HasOp(q, req'[q])
  <2> DEFINE t == [req[q] EXCEPT !.pc = "dropped", !.sent = FALSE]
  <2>1. t \in Request /\ HasOp(q, t)
    BY ZenonT(90) DEF Typed, TypeOK, Request, HasOp, Pc
  <2>2. req'[q] = t \/ req'[q] = req[q]
    BY DEF ControlRestart
  <2> HIDE DEF t
  <2> QED BY <2>1, <2>2 DEF Typed, TypeOK, RequestsNamed
<1>2. req' \in [Req -> Request] /\ RequestsNamed'
  <2>1. req' = [q \in Req |-> req'[q]]
    BY DEF ControlRestart
  <2> QED BY <1>1, <2>1 DEF RequestsNamed
<1>3. toAgent' \in [Node -> Seq(Command)] /\ CommandsNamed'
  <2>1. toAgent' = [n \in Node |-> << >>]
    BY DEF ControlRestart
  <2>2. << >> \in Seq(Command) /\ Len(<< >>) = 0
    OBVIOUS
  <2>3. toAgent' \in [Node -> Seq(Command)]
    BY <2>1, <2>2
  <2>4. \A n \in Node : Len(toAgent'[n]) = 0
    BY <2>1
  <2> QED BY <2>3, <2>4 DEF CommandsNamed
<1>4. online' \subseteq Node /\ replies' \subseteq Reply
  BY DEF ControlRestart
<1>5. LoopsNamed' /\ LeasesNamed'
  BY SameLoops, SameLeases DEF ControlRestart, Typed, agents
<1> QED BY <1>2, <1>3, <1>4, <1>5, FaultTyped
     DEF ControlRestart, Typed, TypeOK, agents, history

(* A step of an Agent alone.                                                  *)
LEMMA NodeTyped ==
  ASSUME Typed, UNCHANGED control,
         online' \subseteq Node,
         toAgent' \in [Node -> Seq(Command)] /\ CommandsNamed',
         replies' \subseteq Reply,
         conf' \in [Node -> SUBSET Revision],
         journal' \in [Node -> Journal \cup {None}],
         agent' \in [Node -> Loop] /\ LoopsNamed',
         lease' \in [Node -> [ApplyReq -> Lease]] /\ LeasesNamed',
         faults' \in 0 .. MaxFaults,
         stagedBy' \in [Node -> SUBSET ApplyReq],
         owner' \in [Node -> ApplyReq \cup {None}],
         abandoned' \in [Node -> BOOLEAN]
  PROVE  Typed'
<1>1. UNCHANGED <<opStatus, plans, prepared, activeRun, starting, req>>
  BY DEF control
<1>2. RequestsNamed'
  BY <1>1, SameRequests DEF Typed
<1> QED BY <1>1, <1>2 DEF Typed, TypeOK

LEMMA StagesTyped ==
  ASSUME Typed, NEW n \in Node, AgentStages(n)
  PROVE  Typed'
<1> DEFINE c == Head(toAgent[n])
           j == [op |-> c.op, phase |-> "applying"]
           a == [pc |-> "stage", cmd |-> c, j |-> j]
<1>1. toAgent[n] # << >> /\ c.what = "stage"
  BY DEF AgentStages, Ready
<1>2. c \in Command /\ c.q \in ApplyReq /\ c.op \in Op
  BY <1>1, HeadTyped DEF StageNamed
<1>3. j \in Journal /\ RevisionOf[c.op] \in Revision
  BY <1>2, ProfileAssumption DEF Journal, Phase
<1>4. /\ SetJournal(n, j) /\ SetAgent(n, a) /\ Take(n)
      /\ conf' = [conf EXCEPT ![n] = conf[n] \cup {RevisionOf[c.op]}]
      /\ \/ owner' = [owner EXCEPT ![n] = None]
         \/ owner' = [owner EXCEPT ![n] = c.q]
      /\ abandoned' = [abandoned EXCEPT ![n] = FALSE]
      /\ UNCHANGED <<control, online, replies, lease, faults, stagedBy>>
  BY DEF AgentStages
<1>5. toAgent' \in [Node -> Seq(Command)] /\ CommandsNamed'
  BY <1>1, <1>4, TakeTyped
<1>6. a \in Loop /\ LoopNamed(a)
  <2> HIDE DEF j, c
  <2> QED BY <1>2, <1>3, LoopMade
<1> HIDE DEF a, j, c
<1>7. journal' \in [Node -> Journal \cup {None}]
  BY <1>3, <1>4, JournalTyped DEF Typed
<1>8. agent' \in [Node -> Loop] /\ LoopsNamed'
  BY <1>4, <1>6, LoopTyped
<1>9. /\ conf' \in [Node -> SUBSET Revision]
      /\ owner' \in [Node -> ApplyReq \cup {None}]
      /\ abandoned' \in [Node -> BOOLEAN]
  BY <1>2, <1>3, <1>4 DEF Typed, TypeOK
<1>10. LeasesNamed'
  BY <1>4, SameLeases DEF Typed
<1> QED BY <1>4, <1>5, <1>7, <1>8, <1>9, <1>10, NodeTyped DEF Typed, TypeOK

LEMMA RefusesTyped ==
  ASSUME Typed, NEW n \in Node, AgentRefuses(n)
  PROVE  Typed'
<1>1. toAgent[n] # << >> /\ Take(n)
  BY DEF AgentRefuses, Ready
<1>2. Head(toAgent[n]) \in Command
  BY <1>1, HeadTyped
<1>3. replies' \subseteq Reply
  BY <1>2, AnswerTyped DEF AgentRefuses, Typed
<1>4. toAgent' \in [Node -> Seq(Command)] /\ CommandsNamed'
  BY <1>1, TakeTyped
<1>5. faults' \in 0 .. MaxFaults
  BY FaultTyped DEF AgentRefuses, Typed, TypeOK
<1>6. LoopsNamed' /\ LeasesNamed'
  BY SameLoops, SameLeases DEF AgentRefuses, agents, Typed
<1> QED BY <1>3, <1>4, <1>5, <1>6, NodeTyped
     DEF AgentRefuses, agents, history, Typed, TypeOK

LEMMA StagedTyped ==
  ASSUME Typed, NEW n \in Node, AgentStaged(n)
  PROVE  Typed'
<1> DEFINE q == agent[n].cmd.q
           j == [agent[n].j EXCEPT !.phase = "staged"]
           l == [pc |-> "armed", op |-> agent[n].j.op]
<1>1. q \in ApplyReq /\ agent[n].j \in Journal
  BY DEF AgentStaged, Typed, LoopsNamed, LoopNamed
<1>2. j \in Journal
  BY <1>1, PhaseTyped DEF Phase
<1>3. l \in Lease /\ LeaseNamed(l)
  BY <1>1 DEF Lease, LeaseNamed, Journal
<1>4. /\ SetJournal(n, j) /\ Finish(n, TRUE)
      /\ lease' = [lease EXCEPT ![n][q] = l]
      /\ stagedBy' = [stagedBy EXCEPT ![n] = stagedBy[n] \cup {q}]
      /\ UNCHANGED <<control, online, toAgent, conf, faults, owner, abandoned>>
  BY DEF AgentStaged
<1>5. agent' \in [Node -> Loop] /\ LoopsNamed' /\ replies' \subseteq Reply
  BY <1>4, FinishTyped
<1> HIDE DEF q, j, l
<1>6. journal' \in [Node -> Journal \cup {None}]
  BY <1>2, <1>4, JournalTyped DEF Typed
<1>7. lease' \in [Node -> [ApplyReq -> Lease]] /\ LeasesNamed'
  BY <1>1, <1>3, <1>4, SetLeaseTyped
<1>8. stagedBy' \in [Node -> SUBSET ApplyReq]
  BY <1>1, <1>4 DEF Typed, TypeOK
<1>9. CommandsNamed'
  BY <1>4, SameCommands DEF Typed
<1> QED BY <1>4, <1>5, <1>6, <1>7, <1>8, <1>9, NodeTyped DEF Typed, TypeOK

LEMMA StageFailsTyped ==
  ASSUME Typed, NEW n \in Node, AgentStageFails(n) \/ AgentStageStops(n)
  PROVE  Typed'
<1>1. faults' \in 0 .. MaxFaults
  BY FaultTyped DEF AgentStageFails, AgentStageStops, Typed
<1>2. CommandsNamed' /\ LeasesNamed'
  BY SameCommands, SameLeases DEF AgentStageFails, AgentStageStops, wire, Typed
<1>3. CASE AgentStageFails(n)
  <2> DEFINE j == [agent[n].j EXCEPT !.phase = "rolling_back"]
             a == [agent[n] EXCEPT !.pc = "undo", !.j = j]
  <2>1. agent[n].j \in Journal
    BY <1>3 DEF AgentStageFails, Typed, LoopsNamed, LoopNamed
  <2>2. j \in Journal
    BY <2>1, PhaseTyped DEF Phase
  <2>3. SetJournal(n, j) /\ SetAgent(n, a)
    BY <1>3 DEF AgentStageFails
  <2>4. agent[n] \in Loop
    BY DEF Typed, TypeOK
  <2> HIDE DEF j
  <2>5. a \in Loop
    BY <2>2, <2>4 DEF Loop
  <2>6. a.pc = "undo" /\ a.j = j
    BY <2>4 DEF Loop
  <2>7. LoopNamed(a)
    BY <2>2, <2>6 DEF LoopNamed
  <2> HIDE DEF a
  <2>8. agent' \in [Node -> Loop] /\ LoopsNamed'
    BY <2>3, <2>5, <2>7, LoopTyped
  <2>9. journal' \in [Node -> Journal \cup {None}]
    BY <2>2, <2>3, JournalTyped DEF Typed
  <2> QED BY <1>1, <1>2, <1>3, <2>8, <2>9, NodeTyped
       DEF AgentStageFails, wire, history, Typed, TypeOK
<1>4. CASE AgentStageStops(n)
  <2>1. agent' \in [Node -> Loop] /\ LoopsNamed' /\ replies' \subseteq Reply
    BY <1>4, FinishTyped DEF AgentStageStops
  <2>2. conf' \in [Node -> SUBSET Revision]
    <3>1. conf' = conf \/ Undo(n, agent[n].j.op)
      BY <1>4 DEF AgentStageStops, Undo
    <3>2. conf \in [Node -> SUBSET Revision]
      BY DEF Typed, TypeOK
    <3> QED BY <3>1, <3>2, UndoneTyped DEF Typed
  <2> QED BY <1>1, <1>2, <1>4, <2>1, <2>2, NodeTyped
       DEF AgentStageStops, history, Typed, TypeOK
<1> QED BY <1>3, <1>4

LEMMA CommitsTyped ==
  ASSUME Typed, NEW n \in Node, AgentCommits(n)
  PROVE  Typed'
<1> DEFINE j == journal[n]
           c == Head(toAgent[n])
           a == [pc |-> "commit", cmd |-> c, j |-> j]
<1>1. toAgent[n] # << >> /\ Take(n)
  BY DEF AgentCommits, Ready
<1>2. c \in Command
  BY <1>1, HeadTyped
<1>3. toAgent' \in [Node -> Seq(Command)] /\ CommandsNamed'
  BY <1>1, TakeTyped
<1>4. LeasesNamed'
  BY SameLeases DEF AgentCommits, Typed
<1>5. agent' \in [Node -> Loop] /\ LoopsNamed' /\ replies' \subseteq Reply
  <2>1. CASE j # None /\ j.phase = "staged"
    <3>1. SetAgent(n, a) /\ UNCHANGED replies
      BY <2>1 DEF AgentCommits
    <3>2. j \in Journal
      BY <2>1 DEF Typed, TypeOK
    <3>3. a \in Loop /\ LoopNamed(a)
      <4> HIDE DEF c, j
      <4> QED BY <1>2, <3>2, LoopMade
    <3> HIDE DEF a
    <3>4. agent' \in [Node -> Loop] /\ LoopsNamed'
      BY <3>1, <3>3, LoopTyped
    <3> QED BY <3>1, <3>4 DEF Typed, TypeOK
  <2>2. CASE ~(j # None /\ j.phase = "staged")
    <3>1. Answer(n, c, FALSE) /\ UNCHANGED agent
      BY <2>2 DEF AgentCommits
    <3>2. replies' \subseteq Reply
      <4> HIDE DEF c
      <4> QED BY <1>2, <3>1, AnswerTyped DEF Typed
    <3> QED BY <3>1, <3>2, SameLoops DEF Typed, TypeOK
  <2> QED BY <2>1, <2>2
<1> QED BY <1>3, <1>4, <1>5, NodeTyped DEF AgentCommits, history, Typed, TypeOK

LEMMA CommittedTyped ==
  ASSUME Typed, NEW n \in Node, AgentCommitted(n) \/ AgentCommitFails(n)
  PROVE  Typed'
<1>1. agent' \in [Node -> Loop] /\ LoopsNamed' /\ replies' \subseteq Reply
  BY FinishTyped DEF AgentCommitted, AgentCommitFails
<1>2. CommandsNamed' /\ LeasesNamed'
  BY SameCommands, SameLeases DEF AgentCommitted, AgentCommitFails, Typed
<1>3. faults' \in 0 .. MaxFaults
  BY FaultTyped DEF AgentCommitted, AgentCommitFails, Typed, TypeOK
<1>4. journal' \in [Node -> Journal \cup {None}]
  <2>1. CASE AgentCommitted(n)
    <3> DEFINE j == [agent[n].j EXCEPT !.phase = "prepared"]
    <3>1. agent[n].j \in Journal
      BY <2>1 DEF AgentCommitted, Typed, LoopsNamed, LoopNamed
    <3>2. j \in Journal
      BY <3>1, PhaseTyped DEF Phase
    <3>3. SetJournal(n, j)
      BY <2>1 DEF AgentCommitted
    <3> HIDE DEF j
    <3> QED BY <3>2, <3>3, JournalTyped DEF Typed
  <2>2. CASE AgentCommitFails(n)
    BY <2>2 DEF AgentCommitFails, Typed, TypeOK
  <2> QED BY <2>1, <2>2
<1> QED BY <1>1, <1>2, <1>3, <1>4, NodeTyped
     DEF AgentCommitted, AgentCommitFails, history, Typed, TypeOK

LEMMA RecoversTyped ==
  ASSUME Typed, NEW n \in Node, AgentRecovers(n)
  PROVE  Typed'
<1> DEFINE j == journal[n]
           c == Head(toAgent[n])
           a == [pc |-> "undo", cmd |-> c, j |-> j]
<1>1. toAgent[n] # << >> /\ Take(n)
  BY DEF AgentRecovers, Ready
<1>2. c \in Command
  BY <1>1, HeadTyped
<1>3. toAgent' \in [Node -> Seq(Command)] /\ CommandsNamed'
  BY <1>1, TakeTyped
<1>4. LeasesNamed'
  BY SameLeases DEF AgentRecovers, Typed
<1>5. /\ agent' \in [Node -> Loop] /\ LoopsNamed' /\ replies' \subseteq Reply
      /\ owner' \in [Node -> ApplyReq \cup {None}]
  <2>1. CASE j # None
    <3>1. /\ SetAgent(n, a) /\ UNCHANGED replies
          /\ owner' = [owner EXCEPT ![n] = None]
      BY <2>1 DEF AgentRecovers
    <3>2. j \in Journal
      BY <2>1 DEF Typed, TypeOK
    <3>3. a \in Loop /\ LoopNamed(a)
      <4> HIDE DEF c, j
      <4> QED BY <1>2, <3>2, LoopMade
    <3> HIDE DEF a
    <3>4. agent' \in [Node -> Loop] /\ LoopsNamed'
      BY <3>1, <3>3, LoopTyped
    <3> QED BY <3>1, <3>4 DEF Typed, TypeOK
  <2>2. CASE j = None
    <3>1. Answer(n, c, TRUE) /\ UNCHANGED <<agent, owner>>
      BY <2>2 DEF AgentRecovers
    <3>2. replies' \subseteq Reply
      <4> HIDE DEF c
      <4> QED BY <1>2, <3>1, AnswerTyped DEF Typed
    <3> QED BY <3>1, <3>2, SameLoops DEF Typed, TypeOK
  <2> QED BY <2>1, <2>2
<1> QED BY <1>3, <1>4, <1>5, NodeTyped DEF AgentRecovers, Typed, TypeOK

LEMMA UndoesTyped ==
  ASSUME Typed, NEW n \in Node,
         AgentUndoes(n) \/ AgentGivesUp(n) \/ AgentRemoves(n)
  PROVE  Typed'
<1>1. CommandsNamed' /\ LeasesNamed'
  BY SameCommands, SameLeases DEF AgentUndoes, AgentGivesUp, AgentRemoves, wire, Typed
<1>2. CASE AgentUndoes(n)
  <2> DEFINE a == [agent[n] EXCEPT !.pc = "remove"]
  <2>1. agent[n] \in Loop /\ LoopNamed(agent[n]) /\ agent[n].pc = "undo"
    BY <1>2 DEF AgentUndoes, Typed, TypeOK, LoopsNamed
  <2>2. a \in Loop /\ a.pc = "remove" /\ a.j = agent[n].j
    BY <2>1 DEF Loop
  <2>3. SetAgent(n, a)
    BY <1>2 DEF AgentUndoes
  <2> HIDE DEF a
  <2>4. LoopNamed(a)
    BY <2>1, <2>2 DEF LoopNamed
  <2>5. agent' \in [Node -> Loop] /\ LoopsNamed'
    BY <2>2, <2>3, <2>4, LoopTyped
  <2>6. conf' \in [Node -> SUBSET Revision]
    BY <1>2, UndoneTyped DEF AgentUndoes, Typed
  <2> QED BY <1>1, <1>2, <2>5, <2>6, NodeTyped
       DEF AgentUndoes, wire, history, Typed, TypeOK
<1>3. CASE AgentGivesUp(n)
  <2>1. agent' \in [Node -> Loop] /\ LoopsNamed' /\ replies' \subseteq Reply
    BY <1>3, FinishTyped DEF AgentGivesUp
  <2>2. /\ conf' \in [Node -> SUBSET Revision]
        /\ abandoned' \in [Node -> BOOLEAN]
        /\ faults' \in 0 .. MaxFaults
    BY <1>3, GivesUpTyped DEF AgentGivesUp, Typed
  <2> QED BY <1>1, <1>3, <2>1, <2>2, NodeTyped DEF AgentGivesUp, Typed, TypeOK
<1>4. CASE AgentRemoves(n)
  <2> DEFINE ok == agent[n].cmd # None /\ agent[n].cmd.what # "stage"
  <2>1. ok \in BOOLEAN /\ Finish(n, ok) /\ SetJournal(n, None)
    BY <1>4 DEF AgentRemoves
  <2> HIDE DEF ok
  <2>2. agent' \in [Node -> Loop] /\ LoopsNamed' /\ replies' \subseteq Reply
    BY <2>1, FinishTyped
  <2>3. journal' \in [Node -> Journal \cup {None}]
    BY <2>1, JournalTyped DEF Typed
  <2> QED BY <1>1, <1>4, <2>2, <2>3, NodeTyped
       DEF AgentRemoves, history, Typed, TypeOK
<1> QED BY <1>2, <1>3, <1>4

LEMMA StartsTyped ==
  ASSUME Typed, NEW n \in Node, AgentStarts(n)
  PROVE  Typed'
<1> DEFINE j == journal[n]
           a == [pc |-> "undo", cmd |-> None, j |-> j]
<1>1. CommandsNamed' /\ LeasesNamed'
  BY SameCommands, SameLeases DEF AgentStarts, wire, Typed
<1>2. agent' \in [Node -> Loop] /\ LoopsNamed'
  <2>1. CASE j # None /\ j.phase # "prepared"
    <3>1. SetAgent(n, a)
      BY <2>1 DEF AgentStarts
    <3>2. j \in Journal
      BY <2>1 DEF Typed, TypeOK
    <3>3. a \in Loop /\ LoopNamed(a)
      <4> HIDE DEF j
      <4> QED BY <3>2, LoopMade
    <3> HIDE DEF a
    <3> QED BY <3>1, <3>3, LoopTyped
  <2>2. CASE ~(j # None /\ j.phase # "prepared")
    BY <2>2, FreeTyped, LoopTyped DEF AgentStarts
  <2> QED BY <2>1, <2>2
<1> QED BY <1>1, <1>2, NodeTyped DEF AgentStarts, wire, history, Typed, TypeOK

LEMMA AgentTyped ==
  ASSUME Typed, NEW n \in Node, AgentStep(n)
  PROVE  Typed'
BY StagesTyped, RefusesTyped, StagedTyped, StageFailsTyped, CommitsTyped,
   CommittedTyped, RecoversTyped, UndoesTyped, StartsTyped DEF AgentStep

LEMMA LeaseTyped ==
  ASSUME Typed, NEW n \in Node, NEW q \in ApplyReq, LeaseStep(n, q)
  PROVE  Typed'
<1> DEFINE l == lease[n][q]
<1>1. l \in Lease /\ LeaseNamed(l)
  BY DEF Typed, TypeOK, LeasesNamed
<1>2. NoLease \in Lease /\ LeaseNamed(NoLease)
  BY DEF NoLease, Lease, LeaseNamed
<1>3. ASSUME NEW pc \in {"undo", "remove"}, l.pc # "none"
      PROVE  [l EXCEPT !.pc = pc] \in Lease /\ LeaseNamed([l EXCEPT !.pc = pc])
  BY <1>1, <1>3 DEF Lease, LeaseNamed
<1>4. CommandsNamed' /\ LoopsNamed'
  BY SameCommands, SameLoops
     DEF LeaseStep, LeaseExpires, LeaseUndo, LeaseGivesUp, LeaseRemoves, wire, Typed
<1>5. ASSUME NEW m \in Lease, LeaseNamed(m), SetLease(n, q, m)
      PROVE  lease' \in [Node -> [ApplyReq -> Lease]] /\ LeasesNamed'
  BY <1>5, SetLeaseTyped DEF SetLease
<1>6. CASE LeaseExpires(n, q)
  <2>1. l.pc # "none"
    BY <1>6 DEF LeaseExpires
  <2>2. /\ SetLease(n, q, [l EXCEPT !.pc = "undo"]) \/ SetLease(n, q, NoLease)
        /\ owner' \in [Node -> ApplyReq \cup {None}]
    BY <1>6 DEF LeaseExpires, Typed, TypeOK
  <2>3. lease' \in [Node -> [ApplyReq -> Lease]] /\ LeasesNamed'
    BY <1>2, <1>3, <1>5, <2>1, <2>2
  <2> QED BY <1>4, <1>6, <2>2, <2>3, NodeTyped DEF LeaseExpires, wire, Typed, TypeOK
<1>7. CASE LeaseUndo(n, q)
  <2>1. l.pc # "none" /\ SetLease(n, q, [l EXCEPT !.pc = "remove"])
    BY <1>7 DEF LeaseUndo
  <2>2. lease' \in [Node -> [ApplyReq -> Lease]] /\ LeasesNamed'
    BY <1>3, <1>5, <2>1
  <2>3. conf' \in [Node -> SUBSET Revision]
    BY <1>7, UndoneTyped DEF LeaseUndo, Typed
  <2> QED BY <1>4, <1>7, <2>2, <2>3, NodeTyped
       DEF LeaseUndo, wire, history, Typed, TypeOK
<1>8. CASE LeaseGivesUp(n, q)
  <2>1. lease' \in [Node -> [ApplyReq -> Lease]] /\ LeasesNamed'
    BY <1>2, <1>5, <1>8 DEF LeaseGivesUp
  <2>2. /\ conf' \in [Node -> SUBSET Revision]
        /\ abandoned' \in [Node -> BOOLEAN]
        /\ faults' \in 0 .. MaxFaults
    BY <1>8, GivesUpTyped DEF LeaseGivesUp, Typed
  <2> QED BY <1>4, <1>8, <2>1, <2>2, NodeTyped DEF LeaseGivesUp, wire, Typed, TypeOK
<1>9. CASE LeaseRemoves(n, q)
  <2>1. lease' \in [Node -> [ApplyReq -> Lease]] /\ LeasesNamed'
    BY <1>2, <1>5, <1>9 DEF LeaseRemoves
  <2>2. journal' \in [Node -> Journal \cup {None}]
    BY <1>9, JournalTyped DEF LeaseRemoves, Typed
  <2> QED BY <1>4, <1>9, <2>1, <2>2, NodeTyped
       DEF LeaseRemoves, wire, history, Typed, TypeOK
<1> QED BY <1>6, <1>7, <1>8, <1>9 DEF LeaseStep

LEMMA StreamsTyped ==
  ASSUME Typed, NEW n \in Node, Disconnect(n) \/ AgentCrash(n) \/ Reconnect(n)
  PROVE  Typed'
<1>1. CASE Disconnect(n)
  <2>1. LoopsNamed' /\ LeasesNamed'
    BY <1>1, SameLoops, SameLeases DEF Disconnect, agents, Typed
  <2> QED BY <1>1, <2>1, StreamLostTyped, FaultTyped, NodeTyped
       DEF Disconnect, agents, history, Typed, TypeOK
<1>2. CASE AgentCrash(n)
  <2>1. agent' \in [Node -> Loop] /\ LoopsNamed'
    BY <1>2, FreeTyped, LoopTyped DEF AgentCrash
  <2>2. NoLease \in Lease /\ LeaseNamed(NoLease)
    BY DEF NoLease, Lease, LeaseNamed
  <2>3. lease' = [lease EXCEPT ![n] = [q \in ApplyReq |-> NoLease]]
    BY <1>2 DEF AgentCrash
  <2>4. lease' \in [Node -> [ApplyReq -> Lease]] /\ LeasesNamed'
    BY <2>2, <2>3 DEF Typed, TypeOK, LeasesNamed
  <2> QED BY <1>2, <2>1, <2>4, StreamLostTyped, FaultTyped, NodeTyped
       DEF AgentCrash, history, Typed, TypeOK
<1>3. CASE Reconnect(n)
  <2>1. CommandsNamed' /\ LoopsNamed' /\ LeasesNamed'
    BY <1>3, SameCommands, SameLoops, SameLeases DEF Reconnect, agents, Typed
  <2> QED BY <1>3, <2>1, NodeTyped DEF Reconnect, agents, history, Typed, TypeOK
<1> QED BY <1>1, <1>2, <1>3

LEMMA StutterTyped ==
  ASSUME Typed, UNCHANGED vars
  PROVE  Typed'
BY SameCommands, SameRequests, SameLoops, SameLeases
   DEF Typed, TypeOK, vars, control, wire, agents, history

LEMMA TypedInit == Init => Typed
<1> SUFFICES ASSUME Init PROVE Typed
  OBVIOUS
<1>1. req \in [Req -> Request] /\ RequestsNamed
  BY IdleTyped DEF Init, RequestsNamed, HasOp, Idle
<1>2. CommandsNamed
  BY DEF Init, CommandsNamed
<1>3. plans \in [Op -> Seq(SUBSET Nic)] /\ toAgent \in [Node -> Seq(Command)]
  BY DEF Init
<1>4. agent \in [Node -> Loop] /\ LoopsNamed
  BY FreeTyped DEF Init, LoopsNamed
<1>5. lease \in [Node -> [ApplyReq -> Lease]] /\ LeasesNamed
  BY DEF Init, LeasesNamed, LeaseNamed, NoLease, Lease
<1> QED BY <1>1, <1>2, <1>3, <1>4, <1>5, ProfileAssumption
     DEF Init, Typed, TypeOK, OpStatus

LEMMA TypedStep == Typed /\ [Next]_vars => Typed'
<1> SUFFICES ASSUME Typed, [Next]_vars PROVE Typed'
  OBVIOUS
<1>1. CASE Next
  <2>1. ASSUME NEW q \in Req, Exchange(q) PROVE Typed'
    BY <2>1, SendTyped, AnsweredTyped DEF Exchange
  <2>2. ASSUME NEW q \in ApplyReq, (\E o \in Op : ApplyBegin(q, o)) \/ ApplySteps(q)
        PROVE  Typed'
    BY <2>2, BeginTyped, ApplyTyped DEF Req
  <2>3. ASSUME NEW q \in TeardownReq,
               (\E r \in Revision : TeardownBegin(q, r)) \/ TeardownEnds(q)
        PROVE  Typed'
    BY <2>3, BeginTyped, TeardownEndTyped DEF Req
  <2>4. ASSUME NEW q \in ReconcileReq, NEW n \in Node, ReconcileBegin(q, n)
        PROVE  Typed'
    BY <2>4, BeginTyped DEF Req
  <2> QED BY <1>1, <2>1, <2>2, <2>3, <2>4, PlanTyped, RunTyped, AgentTyped,
             LeaseTyped, StreamsTyped, DropTyped, RestartTyped DEF Next
<1>2. CASE UNCHANGED vars
  BY <1>2, StutterTyped
<1> QED BY <1>1, <1>2

LEMMA AlwaysTyped == Spec => []Typed
BY TypedInit, TypedStep, PTL DEF Spec

(* Every reachable state of NetworkApply is type correct, whatever the profiles *)
(* and requests: no stale or late command leaves a request, a command loop, a   *)
(* lease task or a node's journal in a state the code has no name for.          *)
THEOREM NetworkTypeCorrect == Spec => []TypeOK
BY AlwaysTyped, PTL DEF Typed

-----------------------------------------------------------------------------
(* The interfaces: two revisions on one of them are not both away.            *)

(* conf changes only by what is undone and by an operation that matches.       *)
ConfShrinks == \A n \in Node : conf'[n] \subseteq conf[n]

LEMMA UndoShrinks ==
  ASSUME TypeOK, NEW n \in Node, NEW o, Undo(n, o)
  PROVE  ConfShrinks
BY DEF Undo, ConfShrinks, TypeOK

LEMMA HeldOnceShrinks ==
  ASSUME InterfaceHeldOnce, ConfShrinks
  PROVE  InterfaceHeldOnce'
BY DEF InterfaceHeldOnce, ConfShrinks

(* What a node lacks, none of its revisions is on.                            *)
LEMMA MatchedIsFree ==
  ASSUME PlansLeaveOut, NEW n \in Node, NEW o \in Op, Matches(n, o),
         NEW r \in conf[n]
  PROVE  NicOf[r] # NicOf[RevisionOf[o]]
BY DEF PlansLeaveOut, Matches, Inventory

LEMMA HeldOnceStaged ==
  ASSUME Typed, PlansLeaveOut, InterfaceHeldOnce, NEW n \in Node, NEW o \in Op,
         Matches(n, o), conf' = [conf EXCEPT ![n] = @ \cup {RevisionOf[o]}]
  PROVE  InterfaceHeldOnce'
<1>1. /\ conf'[n] = conf[n] \cup {RevisionOf[o]}
      /\ \A m \in Node : m # n => conf'[m] = conf[m]
  BY DEF Typed, TypeOK
<1> QED BY <1>1, MatchedIsFree DEF InterfaceHeldOnce

LEMMA StagesMatched ==
  ASSUME Typed, NEW n \in Node, AgentStages(n)
  PROVE  \E o \in Op : /\ Matches(n, o)
                       /\ conf' = [conf EXCEPT ![n] = @ \cup {RevisionOf[o]}]
<1>1. Head(toAgent[n]).op \in Op
  BY HeadTyped DEF AgentStages, Ready, StageNamed
<1> QED BY <1>1 DEF AgentStages

LEMMA AgentShrinks ==
  ASSUME Typed, NEW n \in Node, AgentStep(n), ~AgentStages(n)
  PROVE  ConfShrinks
<1>1. \/ UNCHANGED conf
      \/ \E o : Undo(n, o)
      \/ conf' = [conf EXCEPT ![n] = @ \ {RevisionOf[agent[n].j.op]}]
  BY DEF AgentStep, AgentRefuses, AgentStaged, AgentStageFails, AgentStageStops,
         AgentCommits, AgentCommitted, AgentCommitFails, AgentRecovers,
         AgentUndoes, AgentGivesUp, GivesUp, AgentRemoves, AgentStarts, agents
<1> QED BY <1>1, UndoShrinks DEF ConfShrinks, Typed, TypeOK

(* Plans change only by a node whose inventory has the interface.              *)
LEMMA LeaveOutPlanned ==
  ASSUME Typed, PlansLeaveOut, NEW o \in Op, PlanNode(o)
  PROVE  PlansLeaveOut'
<1> DEFINE n == NodesOfOp(o)[Len(plans[o]) + 1]
<1> DEFINE v == Inventory(n)
<1>1. /\ NicOf[RevisionOf[o]] \notin v
      /\ plans' = [plans EXCEPT ![o] = Append(@, v)]
  BY DEF PlanNode
<1> HIDE DEF n, v
<1>2. plans \in [Op -> Seq(SUBSET Nic)]
  BY DEF Typed, TypeOK
<1>3. plans'[o] = Append(plans[o], v) /\ \A p \in Op : p # o => plans'[p] = plans[p]
  BY <1>1, <1>2
<1>4. \A i \in DOMAIN plans'[o] :
        \/ i \in DOMAIN plans[o] /\ plans'[o][i] = plans[o][i]
        \/ plans'[o][i] = v
  <2> DEFINE s == plans[o]
  <2>1. s \in Seq(SUBSET Nic)
    BY <1>2
  <2> HIDE DEF s
  <2>2. \A i \in DOMAIN Append(s, v) :
          \/ i \in DOMAIN s /\ Append(s, v)[i] = s[i]
          \/ Append(s, v)[i] = v
    BY <2>1
  <2> QED BY <1>3, <2>2 DEF s
<1> QED BY <1>1, <1>3, <1>4 DEF PlansLeaveOut

LEMMA LeaveOutKept ==
  ASSUME PlansLeaveOut, UNCHANGED plans
  PROVE  PlansLeaveOut'
BY DEF PlansLeaveOut

(* Only Stage and the undoing touch a namespace, only PlanNode a plan.         *)
LEMMA ControlKeeps ==
  ASSUME NEW q, \/ Exchange(q) \/ RequestDropped(q) \/ ApplySteps(q)
                \/ TeardownEnds(q) \/ (\E o \in Op : ApplyBegin(q, o))
                \/ (\E r \in Revision : TeardownBegin(q, r))
                \/ (\E n \in Node : ReconcileBegin(q, n))
  PROVE  UNCHANGED <<agents, plans, history>>
BY DEF Exchange, Send, Receive, Timeout, RequestDropped, ApplySteps, ApplyMarks,
       ApplyCompletes, ApplyPrepares, ApplyFails, TeardownEnds, ApplyBegin,
       TeardownBegin, ReconcileBegin

LEMMA RunKeeps ==
  ASSUME \/ \E r \in Revision : StartBegin(r)
         \/ StartEnds \/ RunEnds \/ ControlRestart
         \/ \E o \in Op : PlanBegin(o)
  PROVE  UNCHANGED <<agents, plans, history>>
BY DEF StartBegin, StartEnds, RunEnds, ControlRestart, PlanBegin

LEMMA NodeKeepsControl ==
  ASSUME NEW n \in Node, \/ AgentStep(n) \/ Disconnect(n) \/ AgentCrash(n)
                         \/ Reconnect(n) \/ (\E q \in ApplyReq : LeaseStep(n, q))
  PROVE  UNCHANGED control
BY DEF AgentStep, AgentStages, AgentRefuses, AgentStaged, AgentStageFails,
       AgentStageStops, AgentCommits, AgentCommitted, AgentCommitFails,
       AgentRecovers, AgentUndoes, AgentGivesUp, AgentRemoves, AgentStarts,
       Disconnect, AgentCrash, Reconnect, LeaseStep, LeaseExpires, LeaseUndo,
       LeaseGivesUp, LeaseRemoves

LEMMA NodeOnlyUndoes ==
  ASSUME TypeOK, NEW n \in Node,
         \/ Disconnect(n) \/ AgentCrash(n) \/ Reconnect(n)
         \/ \E q \in ApplyReq : LeaseStep(n, q)
  PROVE  ConfShrinks
<1>1. UNCHANGED conf \/ \E o : Undo(n, o)
  BY DEF Disconnect, AgentCrash, Reconnect, LeaseStep, LeaseExpires, LeaseUndo,
         LeaseGivesUp, LeaseRemoves, GivesUp, agents
<1> QED BY <1>1, UndoShrinks DEF ConfShrinks

Held == Typed /\ PlansLeaveOut /\ InterfaceHeldOnce

LEMMA HeldInit == Init => Held
<1> SUFFICES ASSUME Init PROVE PlansLeaveOut /\ InterfaceHeldOnce
  BY TypedInit DEF Held
<1> QED BY DEF Init, PlansLeaveOut, InterfaceHeldOnce

LEMMA HeldStep == Held /\ [Next]_vars => Held'
<1> SUFFICES ASSUME Typed, PlansLeaveOut, InterfaceHeldOnce, [Next]_vars
             PROVE  PlansLeaveOut' /\ InterfaceHeldOnce'
  BY TypedStep DEF Held
<1>1. ASSUME UNCHANGED conf, UNCHANGED plans
      PROVE  PlansLeaveOut' /\ InterfaceHeldOnce'
  BY <1>1, LeaveOutKept, HeldOnceShrinks DEF ConfShrinks
<1>2. ASSUME NEW o \in Op, PlanNode(o)
      PROVE  PlansLeaveOut' /\ InterfaceHeldOnce'
  <2>1. UNCHANGED conf
    BY <1>2 DEF PlanNode, agents
  <2> QED BY <1>2, <2>1, LeaveOutPlanned, HeldOnceShrinks DEF ConfShrinks
<1>3. ASSUME NEW n \in Node, AgentStep(n)
      PROVE  PlansLeaveOut' /\ InterfaceHeldOnce'
  <2>1. PlansLeaveOut'
    BY <1>3, NodeKeepsControl, LeaveOutKept DEF control
  <2>2. InterfaceHeldOnce'
    BY <1>3, StagesMatched, HeldOnceStaged, AgentShrinks, HeldOnceShrinks
  <2> QED BY <2>1, <2>2
<1>4. ASSUME NEW n \in Node,
             \/ Disconnect(n) \/ AgentCrash(n) \/ Reconnect(n)
             \/ \E q \in ApplyReq : LeaseStep(n, q)
      PROVE  PlansLeaveOut' /\ InterfaceHeldOnce'
  <2>1. ConfShrinks
    BY <1>4, NodeOnlyUndoes DEF Typed
  <2>2. UNCHANGED plans
    BY <1>4, NodeKeepsControl DEF control
  <2> QED BY <2>1, <2>2, LeaveOutKept, HeldOnceShrinks
<1>5. CASE UNCHANGED vars
  BY <1>1, <1>5 DEF vars, control, agents
<1>6. CASE Next
  <2>1. \/ UNCHANGED <<agents, plans, history>>
        \/ \E o \in Op : PlanNode(o)
        \/ \E n \in Node : AgentStep(n)
        \/ \E n \in Node : \/ Disconnect(n) \/ AgentCrash(n) \/ Reconnect(n)
                           \/ \E q \in ApplyReq : LeaseStep(n, q)
    BY <1>6, ControlKeeps, RunKeeps DEF Next
  <2> QED BY <2>1, <1>1, <1>2, <1>3, <1>4 DEF agents
<1> QED BY <1>5, <1>6

(* An interface is borrowed by one revision at a time, on every node and       *)
(* whatever is lost, late, retried, given up or restarted: the inventory a     *)
(* plan was made from lacks no interface of its own, and the Agent stages      *)
(* nothing unless its inventory is that one.                                  *)
THEOREM NetworkHeldOnce == Spec => []InterfaceHeldOnce
<1>1. Spec => []Held
  BY HeldInit, HeldStep, PTL DEF Spec
<1> QED BY <1>1, PTL DEF Held

-----------------------------------------------------------------------------
(* The order of Stages and Commits, and what a node keeps of a request that     *)
(* has it to itself.                                                          *)

(* n is the i-th node of o, the operation of the apply request q.              *)
At(q, o, i, n) ==
  q \in ApplyReq /\ o \in Op /\ i \in DOMAIN NodesOfOp(o) /\ NodesOfOp(o)[i] = n

EachStaged(q, o) == \A j \in DOMAIN NodesOfOp(o) : q \in stagedBy[NodesOfOp(o)[j]]

(* A node q has to itself is committed.                                       *)
Mine(n, q, o) == owner[n] = q => Committed(n, o)

(* A Stage or Commit is at its node, for its request's operation; a Commit's   *)
(* request was staged by every node.                                          *)
CommandAt(c, n) ==
  c.what \in {"stage", "commit"} =>
    /\ At(c.q, c.op, c.i, n)
    /\ c.op = req[c.q].op
    /\ c.what = "commit" => EachStaged(c.q, c.op)

QueueAt(n) == \A k \in 1 .. Len(toAgent[n]) : CommandAt(toAgent[n][k], n)
LoopAt(n) ==
  /\ agent[n].pc \in {"stage", "commit"} =>
       agent[n].cmd.what = agent[n].pc /\ CommandAt(agent[n].cmd, n)
  /\ agent[n].pc = "stage" => agent[n].j.op = agent[n].cmd.op
  /\ agent[n].pc \in {"undo", "remove"} /\ agent[n].cmd # None =>
       agent[n].cmd.what # "commit"

(* What a good answer tells.                                                  *)
ReplyAt(r) ==
  r.ok /\ r.what \in {"stage", "commit"} =>
    /\ At(r.q, req[r.q].op, r.i, r.n)
    /\ r.what = "stage" => r.q \in stagedBy[r.n]
    /\ r.what = "commit" => /\ EachStaged(r.q, req[r.q].op)
                            /\ Mine(r.n, r.q, req[r.q].op)
RepliesAt == \A r \in replies : ReplyAt(r)

(* A Stage of q is at n once: waiting, being carried out, or staged.           *)
IsStage(c, q) == c.what = "stage" /\ c.q = q
Staging(q, n) == agent[n].pc = "stage" /\ agent[n].cmd.q = q

Untouched(q, n) ==
  /\ q \notin stagedBy[n]
  /\ \A k \in 1 .. Len(toAgent[n]) : ~IsStage(toAgent[n][k], q)
  /\ ~Staging(q, n)

Once(q, n) ==
  /\ \A k \in 1 .. Len(toAgent[n]) : IsStage(toAgent[n][k], q) =>
       /\ q \notin stagedBy[n]
       /\ \A l \in 1 .. Len(toAgent[n]) : IsStage(toAgent[n][l], q) => l = k
       /\ ~Staging(q, n)
  /\ Staging(q, n) => q \notin stagedBy[n]

(* How far the apply request q is when it is at s.                            *)
RequestAs(q, s) ==
  LET N == NodesOfOp(s.op) IN
  /\ s.pc \notin {"teardown", "reconcile"}
  /\ s.pc = "idle" => s.op = None
  /\ s.pc \in {"idle", "mark"} => \A n \in Node : Untouched(q, n)
  /\ s.pc = "mark" => s.i = 1 /\ ~s.sent
  /\ s.pc \in {"stage", "commit"} => s.i \in DOMAIN N
  /\ s.pc = "stage" => \A j \in DOMAIN N : j < s.i => q \in stagedBy[N[j]]
  /\ s.pc = "stage" =>
       \A j \in DOMAIN N : j > s.i \/ (j = s.i /\ ~s.sent) => Untouched(q, N[j])
  /\ s.pc \in {"mark", "stage", "commit", "complete", "prepare", "done"} => s.op \in Op
  /\ s.pc \in {"commit", "complete", "prepare", "done"} => EachStaged(q, s.op)
  /\ s.pc = "commit" => \A j \in DOMAIN N : j < s.i => Mine(N[j], q, s.op)
  /\ s.pc \in {"complete", "prepare", "done"} =>
       \A j \in DOMAIN N : Mine(N[j], q, s.op)
RequestAt(q) == RequestAs(q, req[q])

(* What is on a node that a request has to itself.                            *)
Whole(n, o) ==
  /\ \A p \in ApplyReq : ~LeaseUndoes(n, p)
  /\ \E i \in DOMAIN NodesOfOp(o) : At(owner[n], o, i, n)
  /\ journal[n] # None => journal[n].op = o
  /\ agent[n].pc = "stage" =>
       /\ agent[n].j = journal[n] /\ journal[n].phase = "applying"
       /\ RevisionOf[o] \in conf[n]
  /\ agent[n].pc = "commit" => agent[n].j = journal[n] /\ journal[n].phase = "staged"
  /\ agent[n].pc \in {"undo", "remove"} =>
       journal[n] # None /\ journal[n].phase # "prepared"
  /\ journal[n] # None /\ journal[n].phase = "prepared" /\ ~abandoned[n] =>
       RevisionOf[o] \in conf[n]
  /\ /\ journal[n] # None /\ journal[n].phase = "staged" /\ ~abandoned[n]
     /\ agent[n].pc \in {"idle", "commit"}
     => RevisionOf[o] \in conf[n]
Owned(n) == owner[n] # None => Whole(n, req[owner[n]].op)

Orders ==
  /\ \A n \in Node : QueueAt(n) /\ LoopAt(n) /\ Owned(n)
  /\ RepliesAt
  /\ \A q \in ApplyReq : RequestAt(q)
  /\ \A q \in ApplyReq, n \in Node : Once(q, n)

-----------------------------------------------------------------------------
(* Requests move, and the wire does not grow                                  *)

WireShrinks ==
  /\ \A n \in Node : toAgent'[n] = toAgent[n] \/ toAgent'[n] = << >>
  /\ replies' \subseteq replies

OpsKept == \A q \in ApplyReq : req[q].op \in Op => req'[q].op = req[q].op

LEMMA OpIsNotNone == \A o \in Op : o # None
BY ProfileAssumption

LEMMA SameUntouched ==
  ASSUME WireShrinks, UNCHANGED <<agents, history>>, NEW q, NEW n \in Node,
         Untouched(q, n)
  PROVE  Untouched(q, n)'
<1>1. agent' = agent /\ stagedBy' = stagedBy
  BY DEF agents, history
<1>2. toAgent'[n] = toAgent[n] \/ toAgent'[n] = << >>
  BY DEF WireShrinks
<1> QED BY <1>1, <1>2 DEF Untouched, Staging

(* A request that is where it may be, is there after the step.                 *)
LEMMA RequestNow ==
  ASSUME WireShrinks, UNCHANGED <<agents, history>>, NEW q \in ApplyReq,
         NEW s, RequestAs(q, s), req'[q] = s
  PROVE  RequestAt(q)'
<1> DEFINE N == NodesOfOp(s.op)
<1>1. agent' = agent /\ stagedBy' = stagedBy /\ owner' = owner /\ journal' = journal
  BY DEF agents, history
<1>2. \A n \in Node : Untouched(q, n) => Untouched(q, n)'
  BY SameUntouched
<1>3. s.op \in Op => \A j \in DOMAIN N : N[j] \in Node
  BY ProfileAssumption DEF NodesOfOp
<1>4. s.pc \in {"idle", "mark"} => \A n \in Node : Untouched(q, n)'
  BY <1>2 DEF RequestAs
<1>5. s.pc = "stage" =>
        \A j \in DOMAIN N : j > s.i \/ (j = s.i /\ ~s.sent) => Untouched(q, N[j])'
  <2> SUFFICES ASSUME s.pc = "stage", NEW j \in DOMAIN N,
                      j > s.i \/ (j = s.i /\ ~s.sent)
               PROVE  Untouched(q, N[j])'
    OBVIOUS
  <2>1. s.op \in Op /\ Untouched(q, N[j])
    BY DEF RequestAs
  <2>2. N[j] \in Node
    BY <2>1, <1>3
  <2> HIDE DEF N
  <2> QED BY <2>1, <2>2, <1>2
<1>6. /\ EachStaged(q, s.op)' = EachStaged(q, s.op)
      /\ \A j \in DOMAIN N : Mine(N[j], q, s.op)' = Mine(N[j], q, s.op)
  BY <1>1 DEF EachStaged, Mine, Committed
<1> QED BY <1>1, <1>4, <1>5, <1>6 DEF RequestAt, RequestAs

(* The parts that do not look at where a request is.                          *)
LEMMA ControlKeepsOrders ==
  ASSUME Orders, WireShrinks, OpsKept, UNCHANGED <<agents, history>>,
         \A q \in ApplyReq : RequestAt(q)'
  PROVE  Orders'
<1>1. /\ agent' = agent /\ journal' = journal /\ conf' = conf /\ lease' = lease
      /\ stagedBy' = stagedBy /\ owner' = owner /\ abandoned' = abandoned
  BY DEF agents, history
<1>2. ASSUME NEW q, NEW i, NEW n, At(q, req[q].op, i, n)
      PROVE  req'[q].op = req[q].op
  BY <1>2 DEF At, OpsKept
<1>3. ASSUME NEW c, NEW n, CommandAt(c, n)
      PROVE  CommandAt(c, n)'
  BY <1>1, <1>2, <1>3 DEF CommandAt, EachStaged, At
<1>4. ASSUME NEW n \in Node
      PROVE  QueueAt(n)' /\ LoopAt(n)'
  <2>1. QueueAt(n) /\ LoopAt(n)
    BY DEF Orders
  <2>2. QueueAt(n)'
    <3>1. CASE toAgent'[n] = toAgent[n]
      BY <1>3, <2>1, <3>1 DEF QueueAt
    <3>2. CASE toAgent'[n] = << >>
      BY <3>2 DEF QueueAt
    <3> QED BY <3>1, <3>2 DEF WireShrinks
  <2>3. LoopAt(n)'
    BY <1>1, <1>3, <2>1 DEF LoopAt
  <2> QED BY <2>2, <2>3
<1>5. ASSUME NEW n \in Node
      PROVE  Owned(n)'
  <2>1. CASE owner[n] = None
    BY <1>1, <2>1 DEF Owned
  <2>2. CASE owner[n] # None
    <3>1. Whole(n, req[owner[n]].op)
      BY <2>2 DEF Orders, Owned
    <3>2. req'[owner[n]].op = req[owner[n]].op
      BY <3>1, <1>2 DEF Whole
    <3> QED BY <1>1, <3>1, <3>2 DEF Owned, Whole, At, LeaseUndoes
  <2> QED BY <2>1, <2>2
<1>6. RepliesAt'
  <2> SUFFICES ASSUME NEW r \in replies', r.ok, r.what \in {"stage", "commit"}
               PROVE  ReplyAt(r)'
    BY DEF RepliesAt, ReplyAt
  <2>1. ReplyAt(r)
    BY DEF WireShrinks, Orders, RepliesAt
  <2>2. req'[r.q].op = req[r.q].op
    BY <2>1, <1>2 DEF ReplyAt
  <2> QED BY <1>1, <2>1, <2>2 DEF ReplyAt, EachStaged, Mine, Committed, At
<1>7. ASSUME NEW q \in ApplyReq, NEW n \in Node
      PROVE  Once(q, n)'
  <2>1. Once(q, n)
    BY DEF Orders
  <2>2. CASE toAgent'[n] = toAgent[n]
    BY <1>1, <2>1, <2>2 DEF Once, Staging
  <2>3. CASE toAgent'[n] = << >>
    BY <1>1, <2>1, <2>3 DEF Once, Staging
  <2> QED BY <2>2, <2>3 DEF WireShrinks
<1> QED BY <1>4, <1>5, <1>6, <1>7 DEF Orders

(* One request moves.                                                         *)
LEMMA OneRequestMoves ==
  ASSUME Typed, Orders, WireShrinks, UNCHANGED <<agents, history>>,
         NEW q \in Req, NEW s, SetReq(q, s),
         q \in ApplyReq => RequestAs(q, s) /\ (req[q].op \in Op => s.op = req[q].op)
  PROVE  Orders'
<1>1. req'[q] = s /\ \A p \in Req : p # q => req'[p] = req[p]
  BY DEF SetReq, Typed, TypeOK
<1>2. ASSUME NEW p \in ApplyReq
      PROVE  RequestAt(p)' /\ (req[p].op \in Op => req'[p].op = req[p].op)
  <2>1. CASE p = q
    BY <1>1, <2>1, RequestNow
  <2>2. CASE p # q
    <3>1. req'[p] = req[p] /\ RequestAs(p, req[p])
      BY <1>1, <2>2 DEF Req, Orders, RequestAt
    <3> QED BY <3>1, RequestNow
  <2> QED BY <2>1, <2>2
<1> QED BY <1>2, ControlKeepsOrders DEF OpsKept

(* A request that gave up, and one that is through, say nothing new.           *)
LEMMA GivenUp ==
  ASSUME NEW q, NEW s,
         s.pc \in {"rollback", "fail", "failed", "dropped", "unprepare", "quarantined"}
  PROVE  RequestAs(q, s)
BY DEF RequestAs

LEMMA Onwards ==
  ASSUME NEW q \in ApplyReq, NEW s \in Request, RequestAs(q, s),
         s.pc \in {"complete", "prepare"}, NEW pc \in {"prepare", "done"}
  PROVE  RequestAs(q, [s EXCEPT !.pc = pc])
<1> DEFINE t == [s EXCEPT !.pc = pc]
<1>1. t.pc = pc /\ t.op = s.op
  BY DEF Request
<1> HIDE DEF t
<1> QED BY <1>1 DEF RequestAs, t

(* After a failure an apply only undoes.                                      *)
LEMMA Failed ==
  ASSUME NEW q \in ApplyReq, NEW s \in Request, RequestAs(q, s), s.pc \in Action,
         NEW ok \in BOOLEAN, s.pc \in {"stage", "commit"} => ~ok
  PROVE  RequestAs(q, After(s, ok)) /\ After(s, ok).op = s.op
<1>1. s.pc \in {"stage", "commit", "rollback"}
  BY DEF RequestAs, Action
<1>2. ASSUME s.pc \in {"stage", "commit"}
      PROVE  /\ After(s, ok).pc \in {"rollback", "fail"}
             /\ After(s, ok).op = s.op
  <2>1. After(s, ok) = UndoStaged(s)
    BY <1>2 DEF After, AfterStage, AfterCommit
  <2> QED BY <2>1 DEF UndoStaged, Request
<1>3. ASSUME s.pc = "rollback"
      PROVE  /\ After(s, ok).pc \in {"rollback", "fail"}
             /\ After(s, ok).op = s.op
  <2>1. After(s, ok) = AfterRollback(s)
    BY <1>3 DEF After
  <2> QED BY <1>3, <2>1 DEF AfterRollback, Request
<1> QED BY <1>1, <1>2, <1>3, GivenUp

(* The nodes of an operation are nodes, and each is there once.                *)
LEMMA OpNodes ==
  ASSUME NEW o \in Op
  PROVE  /\ NodesOfOp(o) \in Seq(Node) /\ Len(NodesOfOp(o)) > 0
         /\ DOMAIN NodesOfOp(o) = 1 .. Len(NodesOfOp(o))
         /\ \A i, j \in DOMAIN NodesOfOp(o) :
              NodesOfOp(o)[i] = NodesOfOp(o)[j] => i = j
<1> DEFINE r == RevisionOf[o]
<1>1. r \in Revision
  BY ProfileAssumption
<1> HIDE DEF r
<1>2. NodesOf[r] \in Seq(Node) /\ NodesOf[r] # << >>
  BY <1>1, ProfileAssumption
<1>3. Len(NodesOf[r]) > 0 /\ DOMAIN NodesOf[r] = 1 .. Len(NodesOf[r])
  BY <1>2
<1>4. \A i, j \in DOMAIN NodesOf[r] : NodesOf[r][i] = NodesOf[r][j] => i = j
  BY <1>1, ProfileAssumption
<1> QED BY <1>2, <1>3, <1>4 DEF NodesOfOp, r

LEMMA NextNodeFields ==
  ASSUME NEW s \in Request, s.op \in Op, NEW phase, NEW u, u = NextNode(s, phase)
  PROVE  /\ u.op = s.op /\ ~u.sent
         /\ s.i < Len(NodesOfOp(s.op)) => u.pc = s.pc /\ u.i = s.i + 1
         /\ ~(s.i < Len(NodesOfOp(s.op))) => u.pc = phase /\ u.i = 1
<1>1. NodesOfReq(s) = NodesOfOp(s.op)
  BY OpIsNotNone DEF NodesOfReq
<1> DEFINE j == s.i + 1
<1>2. CASE s.i < Len(NodesOfOp(s.op))
  <2>1. u = [s EXCEPT !.i = j, !.sent = FALSE]
    BY <1>1, <1>2 DEF NextNode
  <2> HIDE DEF j
  <2>2. u.op = s.op /\ ~u.sent /\ u.pc = s.pc /\ u.i = j
    BY <2>1 DEF Request
  <2> QED BY <1>2, <2>2 DEF j
<1>3. CASE ~(s.i < Len(NodesOfOp(s.op)))
  <2>1. u = [s EXCEPT !.pc = phase, !.i = 1, !.sent = FALSE]
    BY <1>1, <1>3 DEF NextNode
  <2>2. u.op = s.op /\ ~u.sent /\ u.pc = phase /\ u.i = 1
    BY <2>1 DEF Request
  <2> QED BY <1>3, <2>2
<1> QED BY <1>2, <1>3

(* The answer says that the i-th node carried the Stage out.                   *)
LEMMA StageAnswered ==
  ASSUME NEW q \in ApplyReq, NEW s \in Request, RequestAs(q, s), s.pc = "stage",
         q \in stagedBy[NodesOfOp(s.op)[s.i]]
  PROVE  RequestAs(q, After(s, TRUE)) /\ After(s, TRUE).op = s.op
<1> DEFINE N == NodesOfOp(s.op)
           v == [s EXCEPT !.staged = s.staged + 1]
           t == After(s, TRUE)
<1>1. s.op \in Op /\ s.i \in DOMAIN N
  BY DEF RequestAs
<1>2. v \in Request /\ v.op = s.op /\ v.pc = s.pc
  BY StagedOneMore
<1>3. v.i = s.i
  BY DEF Request
<1>4. t = NextNode(v, "commit")
  BY DEF After, AfterStage
<1> HIDE DEF v, t
<1>5. /\ t.op = s.op /\ ~t.sent
      /\ s.i < Len(N) => t.pc = "stage" /\ t.i = s.i + 1
      /\ ~(s.i < Len(N)) => t.pc = "commit" /\ t.i = 1
  BY <1>1, <1>2, <1>3, <1>4, NextNodeFields
<1>6. Len(N) \in Nat /\ Len(N) > 0 /\ DOMAIN N = 1 .. Len(N)
  BY <1>1, OpNodes
<1>7. /\ \A j \in DOMAIN N : j < s.i + 1 => q \in stagedBy[N[j]]
      /\ \A j \in DOMAIN N : j > s.i => Untouched(q, N[j])
  <2>1. \A j \in DOMAIN N : j < s.i => q \in stagedBy[N[j]]
    BY DEF RequestAs
  <2>2. \A j \in DOMAIN N : j > s.i => Untouched(q, N[j])
    BY DEF RequestAs
  <2> HIDE DEF N
  <2>3. q \in stagedBy[N[s.i]]
    BY DEF N
  <2>4. \A j \in DOMAIN N : j < s.i + 1 => j < s.i \/ j = s.i
    BY <1>1, <1>6
  <2> QED BY <2>1, <2>2, <2>3, <2>4
<1> HIDE DEF N
<1>8. ASSUME s.i < Len(N)
      PROVE  RequestAs(q, t)
  <2>1. t.pc = "stage" /\ t.i = s.i + 1 /\ t.i \in DOMAIN N
    BY <1>1, <1>5, <1>6, <1>8
  <2>2. \A j \in DOMAIN N : j > t.i \/ (j = t.i /\ ~t.sent) => j > s.i
    BY <1>1, <1>6, <2>1
  <2> QED BY <1>1, <1>5, <1>7, <2>1, <2>2 DEF RequestAs, N
<1>9. ASSUME ~(s.i < Len(N))
      PROVE  RequestAs(q, t)
  <2>1. t.pc = "commit" /\ t.i = 1 /\ t.i \in DOMAIN N
    BY <1>5, <1>6, <1>9
  <2>2. \A j \in DOMAIN N : j < s.i + 1 /\ ~(j < t.i)
    BY <1>1, <1>6, <1>9, <2>1
  <2>3. EachStaged(q, s.op)
    BY <1>7, <2>2 DEF EachStaged, N
  <2> QED BY <1>1, <1>5, <2>1, <2>2, <2>3 DEF RequestAs, N
<1> QED BY <1>5, <1>8, <1>9 DEF t

(* The answer says that the i-th node committed.                              *)
LEMMA CommitAnswered ==
  ASSUME NEW q \in ApplyReq, NEW s \in Request, RequestAs(q, s), s.pc = "commit",
         Mine(NodesOfOp(s.op)[s.i], q, s.op)
  PROVE  RequestAs(q, After(s, TRUE)) /\ After(s, TRUE).op = s.op
<1> DEFINE N == NodesOfOp(s.op)
           t == After(s, TRUE)
<1>1. s.op \in Op /\ s.i \in DOMAIN N /\ EachStaged(q, s.op)
  BY DEF RequestAs
<1>2. t = NextNode(s, "complete")
  BY DEF After, AfterCommit
<1> HIDE DEF t
<1>3. /\ t.op = s.op
      /\ s.i < Len(N) => t.pc = "commit" /\ t.i = s.i + 1
      /\ ~(s.i < Len(N)) => t.pc = "complete" /\ t.i = 1
  BY <1>1, <1>2, NextNodeFields
<1>4. Len(N) \in Nat /\ Len(N) > 0 /\ DOMAIN N = 1 .. Len(N)
  BY <1>1, OpNodes
<1>5. \A j \in DOMAIN N : j < s.i + 1 => Mine(N[j], q, s.op)
  <2>1. \A j \in DOMAIN N : j < s.i => Mine(N[j], q, s.op)
    BY DEF RequestAs
  <2> HIDE DEF N
  <2>2. Mine(N[s.i], q, s.op)
    BY DEF N
  <2>3. \A j \in DOMAIN N : j < s.i + 1 => j < s.i \/ j = s.i
    BY <1>1, <1>4
  <2> QED BY <2>1, <2>2, <2>3
<1> HIDE DEF N
<1>6. ASSUME s.i < Len(N)
      PROVE  RequestAs(q, t)
  <2>1. t.pc = "commit" /\ t.i = s.i + 1 /\ t.i \in DOMAIN N
    BY <1>1, <1>3, <1>4, <1>6
  <2> QED BY <1>1, <1>3, <1>5, <2>1 DEF RequestAs, N
<1>7. ASSUME ~(s.i < Len(N))
      PROVE  RequestAs(q, t)
  <2>1. \A j \in DOMAIN N : j < s.i + 1
    BY <1>1, <1>4, <1>7
  <2> QED BY <1>1, <1>3, <1>5, <1>7, <2>1 DEF RequestAs, N
<1> QED BY <1>3, <1>6, <1>7 DEF t

LEMMA SameWire ==
  ASSUME UNCHANGED wire
  PROVE  WireShrinks
BY DEF wire, WireShrinks

(* A command that fails, times out or finds no session.                       *)
LEMMA FailedOrders ==
  ASSUME Typed, Orders, WireShrinks, UNCHANGED <<agents, history>>, NEW q \in Req,
         req[q].pc \in Action, SetReq(q, After(req[q], FALSE))
  PROVE  Orders'
<1>1. req[q] \in Request
  BY DEF Typed, TypeOK
<1>2. ASSUME q \in ApplyReq
      PROVE  /\ RequestAs(q, After(req[q], FALSE))
             /\ After(req[q], FALSE).op = req[q].op
  BY <1>1, <1>2, Failed DEF Orders, RequestAt
<1> QED BY <1>2, OneRequestMoves

LEMMA TimeoutOrders ==
  ASSUME Typed, Orders, NEW q \in Req, Timeout(q)
  PROVE  Orders'
BY SameWire, FailedOrders DEF Timeout

LEMMA ReceiveOrders ==
  ASSUME Typed, Orders, NEW q \in Req, Receive(q)
  PROVE  Orders'
<1> DEFINE s == req[q]
<1>1. s \in Request /\ s.pc \in Action
  BY DEF Typed, TypeOK, Receive
<1>2. PICK r \in replies : /\ IsFor(r, q)
                           /\ replies' = replies \ {r}
                           /\ SetReq(q, After(s, r.ok))
  BY DEF Receive
<1>3. r.q = q /\ r.what = s.pc /\ r.i = s.i /\ r.ok \in BOOLEAN
  BY <1>2 DEF IsFor, Typed, TypeOK, Reply
<1>4. WireShrinks /\ UNCHANGED <<agents, history>>
  BY <1>2 DEF Receive, WireShrinks
<1>5. ASSUME q \in ApplyReq
      PROVE  RequestAs(q, After(s, r.ok)) /\ After(s, r.ok).op = s.op
  <2>1. RequestAs(q, s)
    BY <1>5 DEF Orders, RequestAt
  <2>2. ReplyAt(r)
    BY DEF Orders, RepliesAt
  <2>3. CASE r.ok /\ s.pc = "stage"
    <3>1. q \in stagedBy[NodesOfOp(s.op)[s.i]]
      BY <1>3, <2>2, <2>3 DEF ReplyAt, At
    <3>2. r.ok = TRUE
      BY <1>3, <2>3
    <3> QED BY <1>1, <1>5, <2>1, <2>3, <3>1, <3>2, StageAnswered
  <2>4. CASE r.ok /\ s.pc = "commit"
    <3>1. Mine(NodesOfOp(s.op)[s.i], q, s.op)
      BY <1>3, <2>2, <2>4 DEF ReplyAt, At
    <3>2. r.ok = TRUE
      BY <1>3, <2>4
    <3> QED BY <1>1, <1>5, <2>1, <2>4, <3>1, <3>2, CommitAnswered
  <2>5. CASE ~(r.ok /\ s.pc \in {"stage", "commit"})
    BY <1>1, <1>3, <1>5, <2>1, <2>5, Failed
  <2> QED BY <2>3, <2>4, <2>5
<1> QED BY <1>2, <1>4, <1>5, OneRequestMoves

LEMMA BeginOrders ==
  ASSUME Typed, Orders, NEW q \in Req,
         \/ q \in ApplyReq /\ \E o \in Op : ApplyBegin(q, o)
         \/ q \in TeardownReq /\ \E r \in Revision : TeardownBegin(q, r)
         \/ q \in ReconcileReq /\ \E n \in Node : ReconcileBegin(q, n)
  PROVE  Orders'
<1>1. CASE q \in ApplyReq /\ \E o \in Op : ApplyBegin(q, o)
  <2> PICK o \in Op : ApplyBegin(q, o)
    BY <1>1
  <2> DEFINE t == [Idle EXCEPT !.pc = "mark", !.op = o]
  <2>1. SetReq(q, t) /\ req[q].pc = "idle" /\ UNCHANGED <<wire, agents, history>>
    BY DEF ApplyBegin
  <2>2. t.pc = "mark" /\ t.i = 1 /\ ~t.sent /\ t.op = o
    BY DEF Idle
  <2> HIDE DEF t
  <2>3. RequestAs(q, req[q])
    BY <1>1 DEF Orders, RequestAt
  <2>4. req[q].op \notin Op
    BY <2>1, <2>3, OpIsNotNone DEF RequestAs
  <2>5. RequestAs(q, t)
    BY <2>1, <2>2, <2>3 DEF RequestAs
  <2> QED BY <2>1, <2>4, <2>5, SameWire, OneRequestMoves
<1>2. CASE q \notin ApplyReq
  <2>1. UNCHANGED <<wire, agents, history>> /\ \E s : SetReq(q, s)
    BY <1>2 DEF TeardownBegin, ReconcileBegin
  <2> QED BY <1>2, <2>1, SameWire, OneRequestMoves
<1> QED BY <1>1, <1>2, RequestAssumption

LEMMA ApplyOrders ==
  ASSUME Typed, Orders, NEW q \in ApplyReq, ApplySteps(q)
  PROVE  Orders'
<1> DEFINE s == req[q]
<1>1. s \in Request /\ RequestAs(q, s) /\ q \in Req
  BY DEF Typed, TypeOK, Orders, RequestAt, Req
<1>2. WireShrinks /\ UNCHANGED <<agents, history>>
  BY SameWire DEF ApplySteps, ApplyMarks, ApplyCompletes, ApplyPrepares, ApplyFails
<1>3. CASE ApplyMarks(q)
  <2> DEFINE t == [s EXCEPT !.pc = "stage"]
             N == NodesOfOp(s.op)
  <2>1. SetReq(q, t) /\ s.pc = "mark"
    BY <1>3 DEF ApplyMarks
  <2>2. t.pc = "stage" /\ t.i = s.i /\ t.sent = s.sent /\ t.op = s.op
    BY <1>1 DEF Request
  <2> HIDE DEF t
  <2>3. s.op \in Op /\ s.i = 1 /\ \A n \in Node : Untouched(q, n)
    BY <1>1, <2>1 DEF RequestAs
  <2>4. N \in Seq(Node) /\ DOMAIN N = 1 .. Len(N) /\ Len(N) > 0
    BY <2>3, OpNodes
  <2> HIDE DEF N
  <2>5. 1 \in DOMAIN N /\ \A j \in DOMAIN N : N[j] \in Node /\ ~(j < 1)
    BY <2>4
  <2>6. RequestAs(q, t)
    BY <2>2, <2>3, <2>5 DEF RequestAs, N
  <2> QED BY <1>1, <1>2, <2>1, <2>2, <2>6, OneRequestMoves
<1>4. ASSUME NEW pc \in {"prepare", "done"}, s.pc \in {"complete", "prepare"},
             SetReq(q, [s EXCEPT !.pc = pc])
      PROVE  Orders'
  <2> DEFINE t == [s EXCEPT !.pc = pc]
  <2>1. RequestAs(q, t)
    BY <1>1, <1>4, Onwards
  <2>2. t.op = s.op /\ SetReq(q, t)
    BY <1>1, <1>4 DEF Request
  <2> HIDE DEF t
  <2> QED BY <1>1, <1>2, <2>1, <2>2, OneRequestMoves
<1>5. CASE ApplyFails(q)
  <2> DEFINE t == [s EXCEPT !.pc = "failed"]
  <2>1. t.pc = "failed" /\ t.op = s.op /\ SetReq(q, t)
    BY <1>1, <1>5 DEF Request, ApplyFails
  <2> HIDE DEF t
  <2> QED BY <1>1, <1>2, <2>1, GivenUp, OneRequestMoves
<1> QED BY <1>3, <1>4, <1>5 DEF ApplySteps, ApplyCompletes, ApplyPrepares

LEMMA DropOrders ==
  ASSUME Typed, Orders, NEW q \in Req, RequestDropped(q)
  PROVE  Orders'
<1> DEFINE t == [req[q] EXCEPT !.pc = "dropped", !.sent = FALSE]
<1>1. t.pc = "dropped" /\ t.op = req[q].op
  BY DEF Typed, TypeOK, Request
<1>2. SetReq(q, t) /\ UNCHANGED <<wire, agents, history>>
  BY DEF RequestDropped
<1> HIDE DEF t
<1> QED BY <1>1, <1>2, SameWire, GivenUp, OneRequestMoves

LEMMA TeardownEndOrders ==
  ASSUME Typed, Orders, NEW q \in TeardownReq, TeardownEnds(q)
  PROVE  Orders'
<1>1. q \in Req /\ q \notin ApplyReq
  BY RequestAssumption DEF Req
<1>2. UNCHANGED <<wire, agents, history>> /\ \E s : SetReq(q, s)
  BY DEF TeardownEnds
<1> QED BY <1>1, <1>2, SameWire, OneRequestMoves

LEMMA RestartOrders ==
  ASSUME Typed, Orders, ControlRestart
  PROVE  Orders'
<1>1. WireShrinks /\ UNCHANGED <<agents, history>>
  BY DEF ControlRestart, WireShrinks
<1>2. ASSUME NEW q \in ApplyReq
      PROVE  RequestAt(q)' /\ req'[q].op = req[q].op
  <2> DEFINE t == [req[q] EXCEPT !.pc = "dropped", !.sent = FALSE]
  <2>1. q \in Req /\ RequestAs(q, req[q])
    BY DEF Req, Orders, RequestAt
  <2>2. t.pc = "dropped" /\ t.op = req[q].op
    BY <2>1 DEF Typed, TypeOK, Request
  <2>3. req'[q] = t \/ req'[q] = req[q]
    BY <2>1 DEF ControlRestart
  <2> HIDE DEF t
  <2>4. CASE req'[q] = t
    BY <1>1, <2>2, <2>4, GivenUp, RequestNow
  <2>5. CASE req'[q] = req[q]
    BY <1>1, <2>1, <2>5, RequestNow
  <2> QED BY <2>3, <2>4, <2>5
<1> QED BY <1>1, <1>2, ControlKeepsOrders DEF OpsKept

(* Steps that move no request.                                                *)
LEMMA StillOrders ==
  ASSUME Orders, UNCHANGED <<wire, agents, history>>, UNCHANGED req
  PROVE  Orders'
<1>1. WireShrinks
  BY SameWire
<1>2. ASSUME NEW q \in ApplyReq
      PROVE  RequestAt(q)' /\ req'[q] = req[q]
  BY <1>1, RequestNow DEF Orders, RequestAt
<1> QED BY <1>1, <1>2, ControlKeepsOrders DEF OpsKept

-----------------------------------------------------------------------------
(* A command is sent                                                          *)

LEMMA SentOrders ==
  ASSUME Typed, Orders, NEW q \in Req, NEW s \in Request, s = req[q], ~s.sent,
         s.pc \in Action, NEW m \in Node, m = Target(s),
         NEW c \in Command, c.q = q, c.what = s.pc, c.i = s.i, c.op = s.op,
         NEW t, t.pc = s.pc, t.op = s.op, t.i = s.i, t.sent, SetReq(q, t),
         toAgent' = [toAgent EXCEPT ![m] = Append(toAgent[m], c)],
         UNCHANGED <<replies, agents, history>>
  PROVE  Orders'
<1> DEFINE N == NodesOfOp(s.op)
<1>1. HasOp(q, s)
  BY DEF Typed, RequestsNamed
<1>2. toAgent[m] \in Seq(Command)
  BY DEF Typed, TypeOK
<1>3. /\ req'[q] = t /\ \A p \in Req : p # q => req'[p] = req[p]
      /\ \A p \in Req : req'[p].op = req[p].op
  <2>1. req'[q] = t /\ \A p \in Req : p # q => req'[p] = req[p]
    BY <1>1 DEF SetReq, Typed, TypeOK
  <2> QED BY <2>1
<1>4. s.pc \in {"stage", "commit"} =>
        /\ At(q, s.op, s.i, m)
        /\ s.pc = "commit" => EachStaged(q, s.op)
  <2> SUFFICES ASSUME s.pc \in {"stage", "commit"}
               PROVE  /\ At(q, s.op, s.i, m)
                      /\ s.pc = "commit" => EachStaged(q, s.op)
    OBVIOUS
  <2>1. q \in ApplyReq /\ s.op \in Op
    BY <1>1 DEF HasOp
  <2>2. RequestAs(q, s)
    BY <2>1 DEF Orders, RequestAt
  <2>3. m = N[s.i]
    BY <2>1, OpIsNotNone DEF Target, NodesOfReq
  <2> QED BY <2>1, <2>2, <2>3 DEF RequestAs, At
<1>5. /\ toAgent'[m] = Append(toAgent[m], c)
      /\ \A n \in Node : n # m => toAgent'[n] = toAgent[n]
  BY <1>1, <1>2 DEF Typed, TypeOK
<1>6. /\ Len(toAgent'[m]) = Len(toAgent[m]) + 1 /\ Len(toAgent[m]) \in Nat
      /\ \A k \in 1 .. Len(toAgent[m]) : toAgent'[m][k] = toAgent[m][k]
      /\ toAgent'[m][Len(toAgent[m]) + 1] = c
  BY <1>2, <1>5
<1>7. \A k \in 1 .. Len(toAgent'[m]) :
        k \in 1 .. Len(toAgent[m]) \/ k = Len(toAgent[m]) + 1
  BY <1>6
<1>8. /\ agent' = agent /\ journal' = journal /\ conf' = conf /\ lease' = lease
       /\ stagedBy' = stagedBy /\ owner' = owner /\ abandoned' = abandoned
       /\ replies' = replies
  BY <1>1 DEF agents, history
<1>9. ASSUME NEW d, NEW n, CommandAt(d, n)
       PROVE  CommandAt(d, n)'
  BY <1>3, <1>8, <1>9 DEF CommandAt, At, EachStaged, Req
<1>10. CommandAt(c, m)'
  BY <1>3, <1>4, <1>8 DEF CommandAt, At, EachStaged
<1>11. ASSUME NEW n \in Node
       PROVE  QueueAt(n)' /\ LoopAt(n)' /\ Owned(n)'
  <2>1. QueueAt(n) /\ LoopAt(n) /\ Owned(n)
    BY DEF Orders
  <2>2. QueueAt(n)'
    <3>1. CASE n = m
      BY <1>6, <1>7, <1>9, <1>10, <2>1, <3>1 DEF QueueAt
    <3>2. CASE n # m
      BY <1>5, <1>9, <2>1, <3>2 DEF QueueAt
    <3> QED BY <3>1, <3>2
  <2>3. LoopAt(n)'
    BY <1>8, <1>9, <2>1 DEF LoopAt
  <2>4. Owned(n)'
    <3>1. CASE owner[n] = None
      BY <1>8, <3>1 DEF Owned
    <3>2. CASE owner[n] # None
      <4>1. Whole(n, req[owner[n]].op)
        BY <2>1, <3>2 DEF Owned
      <4>2. owner[n] \in Req
        BY <4>1 DEF Whole, At, Req
      <4>3. req'[owner[n]].op = req[owner[n]].op
        BY <1>3, <4>2
      <4> QED BY <1>8, <4>1, <4>3 DEF Owned, Whole, At, LeaseUndoes
    <3> QED BY <3>1, <3>2
  <2> QED BY <2>2, <2>3, <2>4
<1>12. RepliesAt'
  <2> SUFFICES ASSUME NEW r \in replies', r.ok, r.what \in {"stage", "commit"}
               PROVE  ReplyAt(r)'
    BY DEF RepliesAt, ReplyAt
  <2>1. ReplyAt(r)
    BY <1>8 DEF Orders, RepliesAt
  <2>2. r.q \in Req
    BY <2>1 DEF ReplyAt, At, Req
  <2>3. req'[r.q].op = req[r.q].op
    BY <1>3, <2>2
  <2> QED BY <1>8, <2>1, <2>3 DEF ReplyAt, EachStaged, Mine, Committed, At
<1>13. ASSUME NEW p, NEW n \in Node, Untouched(p, n),
              p # q \/ n # m \/ s.pc # "stage"
       PROVE  Untouched(p, n)'
  <2>1. CASE n = m
    BY <1>6, <1>7, <1>8, <1>13, <2>1 DEF Untouched, Staging, IsStage
  <2>2. CASE n # m
    BY <1>5, <1>8, <1>13, <2>2 DEF Untouched, Staging
  <2> QED BY <2>1, <2>2
<1>14. ASSUME NEW p \in ApplyReq, NEW u, RequestAs(p, u),
              \A n \in Node : Untouched(p, n) => Untouched(p, n)'
       PROVE  RequestAs(p, u)'
  <2> DEFINE M == NodesOfOp(u.op)
  <2>1. u.op \in Op => \A j \in DOMAIN M : M[j] \in Node
    BY OpNodes
  <2>2. u.pc \in {"idle", "mark"} => \A n \in Node : Untouched(p, n)'
    BY <1>14 DEF RequestAs
  <2>3. u.pc = "stage" =>
          \A j \in DOMAIN M : j > u.i \/ (j = u.i /\ ~u.sent) => Untouched(p, M[j])'
    <3> SUFFICES ASSUME u.pc = "stage", NEW j \in DOMAIN M,
                        j > u.i \/ (j = u.i /\ ~u.sent)
                 PROVE  Untouched(p, M[j])'
      OBVIOUS
    <3>1. u.op \in Op /\ Untouched(p, M[j])
      BY <1>14 DEF RequestAs
    <3>2. M[j] \in Node
      BY <3>1, <2>1
    <3> HIDE DEF M
    <3> QED BY <3>1, <3>2, <1>14
  <2>4. /\ EachStaged(p, u.op)' = EachStaged(p, u.op)
        /\ \A j \in DOMAIN M : Mine(M[j], p, u.op)' = Mine(M[j], p, u.op)
    BY <1>8 DEF EachStaged, Mine, Committed
  <2> QED BY <1>8, <1>14, <2>2, <2>3, <2>4 DEF RequestAs
<1>15. ASSUME NEW p \in ApplyReq
       PROVE  RequestAt(p)'
  <2>1. RequestAs(p, req[p]) /\ p \in Req
    BY DEF Orders, RequestAt, Req
  <2>2. CASE p # q
    <3>1. \A n \in Node : Untouched(p, n) => Untouched(p, n)'
      BY <1>13, <2>2
    <3>2. RequestAs(p, req[p])'
      BY <1>3, <1>8, <1>14, <2>1, <2>2, <3>1
    <3> QED BY <3>2 DEF RequestAt
  <2>3. CASE p = q
    <3>1. s.pc \notin {"idle", "mark", "complete", "prepare", "done"}
      BY <1>1 DEF Action
    <3>2. /\ s.pc \in {"stage", "commit"} => s.op \in Op /\ s.i \in DOMAIN N
          /\ s.pc = "stage" => \A j \in DOMAIN N : j < s.i => q \in stagedBy[N[j]]
          /\ s.pc = "commit" => /\ EachStaged(q, s.op)
                                /\ \A j \in DOMAIN N : j < s.i => Mine(N[j], q, s.op)
          /\ s.pc # "teardown" /\ s.pc # "reconcile"
      BY <2>1, <2>3 DEF RequestAs
    <3>3. s.pc = "stage" => \A j \in DOMAIN N : j > s.i => Untouched(q, N[j])'
      <4> SUFFICES ASSUME s.pc = "stage", NEW j \in DOMAIN N, j > s.i
                   PROVE  Untouched(q, N[j])'
        OBVIOUS
      <4>1. Untouched(q, N[j])
        BY <2>1, <2>3 DEF RequestAs
      <4>2. s.op \in Op /\ s.i \in DOMAIN N /\ m = N[s.i]
        BY <1>4 DEF At
      <4>3. N[j] \in Node /\ N[j] # m
        <5>1. /\ \A a, b \in DOMAIN N : N[a] = N[b] => a = b
              /\ N \in Seq(Node) /\ DOMAIN N = 1 .. Len(N)
          BY <4>2, OpNodes
        <5> HIDE DEF N
        <5>2. j # s.i
          BY <4>2, <5>1
        <5> QED BY <4>2, <5>1, <5>2
      <4> HIDE DEF N
      <4> QED BY <1>13, <4>1, <4>3
    <3>4. /\ EachStaged(q, s.op)' = EachStaged(q, s.op)
          /\ \A j \in DOMAIN N : Mine(N[j], q, s.op)' = Mine(N[j], q, s.op)
      BY <1>8 DEF EachStaged, Mine, Committed
    <3>5. req'[q] = t
      BY <1>3
    <3> QED BY <1>8, <2>3, <3>1, <3>2, <3>3, <3>4, <3>5
         DEF RequestAt, RequestAs
  <2> QED BY <2>2, <2>3
<1>16. ASSUME NEW p \in ApplyReq, NEW n \in Node
       PROVE  Once(p, n)'
  <2>1. Once(p, n)
    BY DEF Orders
  <2>2. CASE n # m
    BY <1>5, <1>8, <2>1, <2>2 DEF Once, Staging
  <2>3. CASE n = m /\ ~(p = q /\ s.pc = "stage")
    <3>1. ~IsStage(c, p)
      BY <2>3 DEF IsStage
    <3> QED BY <1>6, <1>7, <1>8, <2>1, <2>3, <3>1 DEF Once, Staging
  <2>4. CASE n = m /\ p = q /\ s.pc = "stage"
    <3>1. s.i \in DOMAIN N /\ m = N[s.i] /\ RequestAs(q, s)
      BY <1>4, <2>4 DEF At, Orders, RequestAt
    <3>2. Untouched(q, m)
      BY <1>1, <2>4, <3>1 DEF RequestAs
    <3> QED BY <1>6, <1>7, <1>8, <2>4, <3>2 DEF Once, Staging, Untouched
  <2> QED BY <2>2, <2>3, <2>4
<1> QED BY <1>11, <1>12, <1>15, <1>16 DEF Orders

LEMMA SendOrders ==
  ASSUME Typed, Orders, NEW q \in Req, Send(q)
  PROVE  Orders'
<1> DEFINE s == req[q]
           m == Target(s)
           c == [q |-> q, what |-> s.pc, i |-> s.i, op |-> s.op]
           t == [s EXCEPT !.sent = TRUE]
<1>1. s \in Request /\ s.pc \in Action /\ ~s.sent
  BY DEF Send, Typed, TypeOK
<1>2. CASE m \notin online
  BY <1>1, <1>2, SameWire, FailedOrders DEF Send, wire
<1>3. CASE m \in online
  <2>1. /\ SetReq(q, t)
        /\ toAgent' = [toAgent EXCEPT ![m] = Append(toAgent[m], c)]
        /\ UNCHANGED <<replies, agents, history>>
    BY <1>3 DEF Send
  <2>2. m \in Node /\ c \in Command
    BY <1>1, <1>3 DEF Typed, TypeOK, Command, Request
  <2>3. t.pc = s.pc /\ t.op = s.op /\ t.i = s.i /\ t.sent
    BY <1>1 DEF Request
  <2>4. c.q = q /\ c.what = s.pc /\ c.i = s.i /\ c.op = s.op
    OBVIOUS
  <2> HIDE DEF c, t, m
  <2> QED BY <1>1, <2>1, <2>2, <2>3, <2>4, SentOrders DEF m
<1> QED BY <1>2, <1>3

-----------------------------------------------------------------------------
(* A node takes a step                                                        *)

NodeOnly(n) ==
  \A m \in Node : m # n =>
    /\ toAgent'[m] = toAgent[m] /\ agent'[m] = agent[m] /\ journal'[m] = journal[m]
    /\ conf'[m] = conf[m] /\ lease'[m] = lease[m] /\ stagedBy'[m] = stagedBy[m]
    /\ owner'[m] = owner[m] /\ abandoned'[m] = abandoned[m]

(* The queue loses its first d commands, or more.                             *)
QueueShifts(n, d) ==
  \A k \in 1 .. Len(toAgent'[n]) :
    k + d \in 1 .. Len(toAgent[n]) /\ toAgent'[n][k] = toAgent[n][k + d]

(* The command loop begins the Stage or Commit at the head of the queue.       *)
Begins(n, c) ==
  /\ 1 \in 1 .. Len(toAgent[n]) /\ c = toAgent[n][1]
  /\ QueueShifts(n, 1)
  /\ agent'[n].cmd = c /\ c.what = agent'[n].pc
  /\ agent'[n].pc = "stage" => agent'[n].j.op = c.op
  /\ agent'[n].pc \in {"stage", "commit"}
  /\ stagedBy'[n] = stagedBy[n]

(* It goes on with its command, or is at none of these.                       *)
GoesOn(n) ==
  /\ QueueShifts(n, 0) \/ QueueShifts(n, 1)
  /\ \/ agent'[n] = agent[n] /\ stagedBy'[n] = stagedBy[n]
     \/ /\ agent'[n].pc \notin {"stage", "commit"}
        /\ agent'[n].pc \in {"undo", "remove"} /\ agent'[n].cmd # None =>
             agent'[n].cmd.what # "commit"
        /\ \/ stagedBy'[n] = stagedBy[n]
           \/ agent[n].pc = "stage" /\ stagedBy'[n] = stagedBy[n] \cup {agent[n].cmd.q}

StagedGrows == \A m \in Node : stagedBy[m] \subseteq stagedBy'[m]

MineKept(n) ==
  \A q \in ApplyReq, o \in Op :
    q \in stagedBy[n] /\ req[q].op = o /\ Mine(n, q, o) => Mine(n, q, o)'

LEMMA GrowsStaged ==
  ASSUME NEW n \in Node, NodeOnly(n), GoesOn(n) \/ \E c : Begins(n, c)
  PROVE  StagedGrows
BY DEF NodeOnly, GoesOn, Begins, StagedGrows

(* Every Stage is still where it was, only further.                           *)
LEMMA NodeUntouched ==
  ASSUME NEW n \in Node, NodeOnly(n), GoesOn(n) \/ \E c : Begins(n, c),
         NEW q, NEW m \in Node, Untouched(q, m)
  PROVE  Untouched(q, m)'
<1>1. CASE m # n
  BY <1>1 DEF NodeOnly, Untouched, Staging
<1>2. CASE m = n /\ GoesOn(n)
  <2>1. \A k \in 1 .. Len(toAgent'[n]) : ~IsStage(toAgent'[n][k], q)
    BY <1>2 DEF GoesOn, QueueShifts, Untouched
  <2>2. q \notin stagedBy'[n] /\ ~Staging(q, n)'
    BY <1>2 DEF GoesOn, Untouched, Staging
  <2> QED BY <1>2, <2>1, <2>2 DEF Untouched
<1>3. CASE m = n /\ \E c : Begins(n, c)
  <2> PICK c : Begins(n, c)
    BY <1>3
  <2>1. \A k \in 1 .. Len(toAgent'[n]) : ~IsStage(toAgent'[n][k], q)
    BY <1>3 DEF Begins, QueueShifts, Untouched
  <2>2. ~IsStage(c, q)
    BY <1>3 DEF Begins, Untouched
  <2>3. q \notin stagedBy'[n] /\ ~Staging(q, n)'
    BY <1>3, <2>2 DEF Begins, Untouched, Staging, IsStage
  <2> QED BY <1>3, <2>1, <2>3 DEF Untouched
<1> QED BY <1>1, <1>2, <1>3

LEMMA NodeOnce ==
  ASSUME NEW n \in Node, NodeOnly(n), GoesOn(n) \/ \E c : Begins(n, c),
         NEW q, NEW m \in Node, Once(q, m)
  PROVE  Once(q, m)'
<1>1. CASE m # n
  BY <1>1 DEF NodeOnly, Once, Staging
<1>2. ASSUME NEW d \in {0, 1}, QueueShifts(n, d), m = n,
             NEW k \in 1 .. Len(toAgent'[n]), IsStage(toAgent'[n][k], q)
      PROVE  /\ q \notin stagedBy[n] /\ ~Staging(q, n)
             /\ k + d \in 1 .. Len(toAgent[n])
             /\ IsStage(toAgent[n][k + d], q)
             /\ \A l \in 1 .. Len(toAgent'[n]) : IsStage(toAgent'[n][l], q) => l = k
  <2>1. k + d \in 1 .. Len(toAgent[n]) /\ IsStage(toAgent[n][k + d], q)
    BY <1>2 DEF QueueShifts
  <2>2. /\ q \notin stagedBy[n] /\ ~Staging(q, n)
        /\ \A l \in 1 .. Len(toAgent[n]) : IsStage(toAgent[n][l], q) => l = k + d
    BY <1>2, <2>1 DEF Once
  <2>3. ASSUME NEW l \in 1 .. Len(toAgent'[n]), IsStage(toAgent'[n][l], q)
        PROVE  l = k
    <3>1. l + d \in 1 .. Len(toAgent[n]) /\ IsStage(toAgent[n][l + d], q)
      BY <1>2, <2>3 DEF QueueShifts
    <3>2. l + d = k + d
      BY <2>2, <3>1
    <3> QED BY <3>2
  <2> QED BY <2>1, <2>2, <2>3
<1>3. CASE m = n /\ GoesOn(n)
  <2>1. PICK d \in {0, 1} : QueueShifts(n, d)
    BY <1>3 DEF GoesOn
  <2>2. Staging(q, n)' => Staging(q, n) /\ stagedBy'[n] = stagedBy[n]
    BY <1>3 DEF GoesOn, Staging
  <2>3. Staging(q, n)' => q \notin stagedBy'[n]
    BY <1>3, <2>2 DEF Once
  <2>4. ~Staging(q, n) /\ q \notin stagedBy[n] => q \notin stagedBy'[n]
    BY <1>3 DEF GoesOn, Staging
  <2> QED BY <1>2, <1>3, <2>1, <2>2, <2>3, <2>4 DEF Once
<1>4. CASE m = n /\ \E c : Begins(n, c)
  <2> PICK c : Begins(n, c)
    BY <1>4
  <2>1. QueueShifts(n, 1) /\ stagedBy'[n] = stagedBy[n]
    BY DEF Begins
  <2>2. Staging(q, n)' => IsStage(toAgent[n][1], q) /\ 1 \in 1 .. Len(toAgent[n])
    BY DEF Begins, Staging, IsStage
  <2>3. Staging(q, n)' => q \notin stagedBy'[n]
    BY <1>4, <2>1, <2>2 DEF Once
  <2>4. ASSUME NEW k \in 1 .. Len(toAgent'[n]), IsStage(toAgent'[n][k], q)
        PROVE  /\ q \notin stagedBy'[n] /\ ~Staging(q, n)'
               /\ \A l \in 1 .. Len(toAgent'[n]) : IsStage(toAgent'[n][l], q) => l = k
    <3>1. /\ q \notin stagedBy[n]
          /\ k + 1 \in 1 .. Len(toAgent[n]) /\ IsStage(toAgent[n][k + 1], q)
          /\ \A l \in 1 .. Len(toAgent'[n]) : IsStage(toAgent'[n][l], q) => l = k
      BY <1>2, <1>4, <2>1, <2>4
    <3>2. ~Staging(q, n)'
      <4> SUFFICES ASSUME Staging(q, n)' PROVE FALSE
        OBVIOUS
      <4>1. 1 = k + 1
        BY <1>4, <2>2, <3>1 DEF Once
      <4> QED BY <4>1
    <3> QED BY <2>1, <3>1, <3>2
  <2> QED BY <1>4, <2>3, <2>4 DEF Once
<1> QED BY <1>1, <1>3, <1>4

(* What has to be seen of a node's step for all of it.                        *)
LEMMA NodeOrders ==
  ASSUME Typed, Orders, NEW n \in Node, NodeOnly(n), UNCHANGED req,
         GoesOn(n) \/ \E c : Begins(n, c), MineKept(n), Owned(n)',
         \A r \in replies' : r \in replies \/ ReplyAt(r)'
  PROVE  Orders'
<1>1. StagedGrows /\ req' = req
  BY GrowsStaged
<1>2. ASSUME NEW q \in ApplyReq, NEW o \in Op, EachStaged(q, o)
      PROVE  EachStaged(q, o)'
  <2>1. \A j \in DOMAIN NodesOfOp(o) : NodesOfOp(o)[j] \in Node
    BY OpNodes
  <2> QED BY <1>1, <1>2, <2>1 DEF EachStaged, StagedGrows
<1>3. ASSUME NEW q \in ApplyReq, NEW m \in Node, NEW o \in Op, req[q].op = o,
             q \in stagedBy[m], Mine(m, q, o)
      PROVE  Mine(m, q, o)'
  <2>1. CASE m = n
    BY <1>3, <2>1 DEF MineKept
  <2>2. CASE m # n
    BY <1>3, <2>2 DEF NodeOnly, Mine, Committed
  <2> QED BY <2>1, <2>2
<1>4. ASSUME NEW c, NEW m, CommandAt(c, m)
      PROVE  CommandAt(c, m)'
  BY <1>1, <1>2, <1>4 DEF CommandAt, At
<1>5. ASSUME NEW m \in Node
      PROVE  QueueAt(m)' /\ LoopAt(m)' /\ Owned(m)'
  <2>1. QueueAt(m) /\ LoopAt(m) /\ Owned(m)
    BY DEF Orders
  <2>2. CASE m # n
    <3>1. QueueAt(m)' /\ LoopAt(m)'
      BY <1>4, <2>1, <2>2 DEF NodeOnly, QueueAt, LoopAt
    <3>2. Owned(m)'
      BY <1>1, <2>1, <2>2 DEF NodeOnly, Owned, Whole, LeaseUndoes, At
    <3> QED BY <3>1, <3>2
  <2>3. CASE m = n /\ GoesOn(n)
    <3>1. QueueAt(n)'
      BY <1>4, <2>1, <2>3 DEF GoesOn, QueueShifts, QueueAt
    <3>2. LoopAt(n)'
      BY <1>4, <2>1, <2>3 DEF GoesOn, LoopAt
    <3> QED BY <2>3, <3>1, <3>2
  <2>4. CASE m = n /\ \E c : Begins(n, c)
    <3> PICK c : Begins(n, c)
      BY <2>4
    <3>1. QueueAt(n)'
      BY <1>4, <2>1, <2>4 DEF Begins, QueueShifts, QueueAt
    <3>2. CommandAt(c, n)
      BY <2>1, <2>4 DEF Begins, QueueAt
    <3>3. LoopAt(n)'
      BY <1>4, <3>2 DEF Begins, LoopAt
    <3> QED BY <2>4, <3>1, <3>3
  <2> QED BY <2>2, <2>3, <2>4
<1>6. RepliesAt'
  <2> SUFFICES ASSUME NEW r \in replies', r \in replies, r.ok,
                      r.what \in {"stage", "commit"}
               PROVE  ReplyAt(r)'
    BY DEF RepliesAt, ReplyAt
  <2>1. ReplyAt(r) /\ r.n \in Node
    BY DEF Orders, RepliesAt, Typed, TypeOK, Reply
  <2>2. At(r.q, req[r.q].op, r.i, r.n)
    BY <2>1 DEF ReplyAt
  <2>3. At(r.q, req[r.q].op, r.i, r.n)'
    BY <1>1, <2>2 DEF At
  <2>4. r.what = "stage" => r.q \in stagedBy'[r.n]
    BY <1>1, <2>1 DEF ReplyAt, StagedGrows
  <2>5. ASSUME r.what = "commit", NEW o, o = req[r.q].op
        PROVE  EachStaged(r.q, o)' /\ Mine(r.n, r.q, o)'
    <3>1. EachStaged(r.q, o) /\ Mine(r.n, r.q, o)
      BY <2>1, <2>5 DEF ReplyAt
    <3>2. r.q \in ApplyReq /\ o \in Op /\ r.q \in stagedBy[r.n]
      BY <2>2, <2>5, <3>1 DEF At, EachStaged
    <3> QED BY <1>2, <1>3, <2>1, <2>5, <3>1, <3>2
  <2>6. req'[r.q].op = req[r.q].op
    BY <1>1
  <2> QED BY <2>3, <2>4, <2>5, <2>6 DEF ReplyAt
<1>7. ASSUME NEW q \in ApplyReq
      PROVE  RequestAt(q)'
  <2> SUFFICES ASSUME NEW s, s = req[q], RequestAs(q, s)
               PROVE  RequestAt(q)'
    BY DEF Orders, RequestAt
  <2> DEFINE N == NodesOfOp(s.op)
  <2>1. req'[q] = s
    BY <1>1
  <2>2. s.op \in Op => \A j \in DOMAIN N : N[j] \in Node
    BY OpNodes
  <2>3. s.pc \in {"idle", "mark"} => \A m \in Node : Untouched(q, m)'
    BY NodeUntouched DEF RequestAs
  <2>4. s.pc = "stage" =>
          \A j \in DOMAIN N : j > s.i \/ (j = s.i /\ ~s.sent) => Untouched(q, N[j])'
    <3> SUFFICES ASSUME s.pc = "stage", NEW j \in DOMAIN N,
                        j > s.i \/ (j = s.i /\ ~s.sent)
                 PROVE  Untouched(q, N[j])'
      OBVIOUS
    <3>1. N[j] \in Node /\ Untouched(q, N[j])
      BY <2>2 DEF RequestAs
    <3> HIDE DEF N
    <3> QED BY <3>1, NodeUntouched
  <2>5. s.pc = "stage" => \A j \in DOMAIN N : j < s.i => q \in stagedBy'[N[j]]
    BY <1>1, <2>2 DEF RequestAs, StagedGrows
  <2>6. s.pc \in {"commit", "complete", "prepare", "done"} =>
          s.op \in Op /\ EachStaged(q, s.op) /\ EachStaged(q, s.op)'
    BY <1>2 DEF RequestAs
  <2>7. ASSUME s.op \in Op, EachStaged(q, s.op), NEW j \in DOMAIN N, Mine(N[j], q, s.op)
        PROVE  Mine(N[j], q, s.op)'
    <3>1. N[j] \in Node /\ q \in stagedBy[N[j]]
      BY <2>2, <2>7 DEF EachStaged
    <3> HIDE DEF N
    <3> QED BY <1>3, <2>7, <3>1
  <2>8. s.pc = "commit" => \A j \in DOMAIN N : j < s.i => Mine(N[j], q, s.op)'
    BY <2>6, <2>7 DEF RequestAs
  <2>9. s.pc \in {"complete", "prepare", "done"} =>
          \A j \in DOMAIN N : Mine(N[j], q, s.op)'
    BY <2>6, <2>7 DEF RequestAs
  <2> QED BY <2>1, <2>3, <2>4, <2>5, <2>6, <2>8, <2>9 DEF RequestAt, RequestAs
<1>8. \A q \in ApplyReq, m \in Node : Once(q, m)'
  BY NodeOnce DEF Orders
<1> QED BY <1>5, <1>6, <1>7, <1>8 DEF Orders

-----------------------------------------------------------------------------
(* What the steps of a node have in common                                    *)

LEMMA NoneIsNoRequest == \A q \in ApplyReq : q # None
BY ProfileAssumption

(* The owner stays or leaves, and the journal is not written.                  *)
LEMMA SameMine ==
  ASSUME NEW n \in Node, owner'[n] \in {owner[n], None}, journal'[n] = journal[n]
  PROVE  MineKept(n)
BY NoneIsNoRequest DEF MineKept, Mine, Committed

(* The loop writes the journal: what the owner had there was not committed.    *)
LEMMA WrittenMine ==
  ASSUME Orders, NEW n \in Node, owner'[n] = owner[n],
         agent[n].pc \in {"stage", "commit", "undo", "remove"}
  PROVE  MineKept(n)
<1> SUFFICES ASSUME NEW q \in ApplyReq, NEW o \in Op, req[q].op = o,
                    Mine(n, q, o), owner'[n] = q
             PROVE  FALSE
  BY DEF MineKept, Mine
<1>1. Committed(n, o)
  BY DEF Mine
<1>2. Whole(n, o)
  BY NoneIsNoRequest DEF Orders, Owned
<1> QED BY <1>1, <1>2 DEF Whole, Committed

LEMMA NotOwned ==
  ASSUME NEW n \in Node, owner'[n] = None
  PROVE  Owned(n)'
BY DEF Owned

(* The answers that come: one at most, for the command.                       *)
AnswersOnly(n, c, ok) ==
  \A r \in replies' :
    \/ r \in replies
    \/ r.q = c.q /\ r.what = c.what /\ r.i = c.i /\ r.n = n /\ (r.ok <=> ok)

LEMMA AnswerGives ==
  ASSUME NEW n, NEW c, NEW ok \in BOOLEAN, Answer(n, c, ok)
  PROVE  AnswersOnly(n, c, ok)
<1> DEFINE a == [q |-> c.q, what |-> c.what, i |-> c.i, n |-> n, ok |-> ok]
<1>1. replies' = replies \/ replies' = replies \cup {a}
  BY DEF Answer
<1>2. a.q = c.q /\ a.what = c.what /\ a.i = c.i /\ a.n = n /\ (a.ok <=> ok)
  BY Zenon
<1> HIDE DEF a
<1> QED BY <1>1, <1>2 DEF AnswersOnly

LEMMA FinishGives ==
  ASSUME Typed, NEW n \in Node, NEW ok \in BOOLEAN, Finish(n, ok)
  PROVE  /\ agent'[n].pc = "idle"
         /\ \A m \in Node : m # n => agent'[m] = agent[m]
         /\ \/ replies' = replies
            \/ agent[n].cmd # None /\ AnswersOnly(n, agent[n].cmd, ok)
<1>1. agent'[n] = Free /\ \A m \in Node : m # n => agent'[m] = agent[m]
  BY DEF Finish, SetAgent, Typed, TypeOK
<1>2. CASE agent[n].cmd = None
  BY <1>1, <1>2 DEF Finish, Free
<1>3. CASE agent[n].cmd # None
  BY <1>1, <1>3, AnswerGives DEF Finish, Free
<1> QED BY <1>2, <1>3

(* An answer that promises nothing.                                           *)
LEMMA NoPromise ==
  ASSUME NEW n, NEW c, NEW ok \in BOOLEAN, AnswersOnly(n, c, ok),
         ~ok \/ c.what \notin {"stage", "commit"}
  PROVE  \A r \in replies' : r \in replies \/ ReplyAt(r)'
<1> SUFFICES ASSUME NEW r \in replies', r \notin replies
             PROVE  ReplyAt(r)'
  OBVIOUS
<1>1. r.what = c.what /\ (r.ok <=> ok)
  BY DEF AnswersOnly
<1> QED BY <1>1 DEF ReplyAt

LEMMA TakeShifts ==
  ASSUME Typed, NEW n \in Node, toAgent[n] # << >>, Take(n)
  PROVE  /\ 1 \in 1 .. Len(toAgent[n]) /\ Head(toAgent[n]) = toAgent[n][1]
         /\ QueueShifts(n, 1)
         /\ \A m \in Node : m # n => toAgent'[m] = toAgent[m]
<1>1. toAgent[n] \in Seq(Command)
  BY DEF Typed, TypeOK
<1>2. /\ toAgent'[n] = Tail(toAgent[n])
      /\ \A m \in Node : m # n => toAgent'[m] = toAgent[m]
  BY DEF Take, Typed, TypeOK
<1>3. 1 \in 1 .. Len(toAgent[n]) /\ Head(toAgent[n]) = toAgent[n][1]
  BY <1>1
<1>4. QueueShifts(n, 1)
  BY <1>1, <1>2 DEF QueueShifts
<1> QED BY <1>2, <1>3, <1>4

LEMMA SameShifts ==
  ASSUME Typed, NEW n \in Node, UNCHANGED toAgent
  PROVE  QueueShifts(n, 0) /\ \A m \in Node : toAgent'[m] = toAgent[m]
<1>1. toAgent[n] \in Seq(Command)
  BY DEF Typed, TypeOK
<1>2. Len(toAgent[n]) \in Nat
  BY <1>1
<1> QED BY <1>2 DEF QueueShifts

(* A node of which only the queue, the answers and the leases change, the      *)
(* latter without beginning to undo.                                          *)
LEMMA SameOwned ==
  ASSUME Orders, NEW n \in Node, UNCHANGED req, owner'[n] = owner[n],
         journal'[n] = journal[n], conf'[n] = conf[n], abandoned'[n] = abandoned[n],
         agent'[n] = agent[n],
         \A p \in ApplyReq : LeaseUndoes(n, p)' => LeaseUndoes(n, p)
  PROVE  Owned(n)'
<1>1. CASE owner[n] = None
  BY <1>1, NotOwned
<1>2. CASE owner[n] # None
  <2> SUFFICES ASSUME NEW q, q = owner[n], NEW o, o = req[q].op, Whole(n, o)
               PROVE  Owned(n)'
    BY <1>2 DEF Orders, Owned
  <2> QED BY DEF Owned, Whole, At
<1> QED BY <1>1, <1>2

-----------------------------------------------------------------------------
(* The command loop, action by action                                         *)

LEMMA StagesOrders ==
  ASSUME Typed, Orders, NEW n \in Node, AgentStages(n)
  PROVE  Orders'
<1> SUFFICES ASSUME NEW c, c = Head(toAgent[n]), NEW j,
                    j = [op |-> c.op, phase |-> "applying"]
             PROVE  Orders'
  OBVIOUS
<1>1. toAgent[n] # << >> /\ c.what = "stage" /\ Take(n)
  BY DEF AgentStages, Ready
<1>2. c \in Command /\ c.q \in ApplyReq /\ c.op \in Op
  BY <1>1, HeadTyped DEF StageNamed
<1>3. /\ 1 \in 1 .. Len(toAgent[n]) /\ c = toAgent[n][1]
      /\ QueueShifts(n, 1)
      /\ \A m \in Node : m # n => toAgent'[m] = toAgent[m]
  BY <1>1, TakeShifts
<1>4. /\ journal' = [journal EXCEPT ![n] = j]
      /\ agent' = [agent EXCEPT ![n] = [pc |-> "stage", cmd |-> c, j |-> j]]
      /\ conf' = [conf EXCEPT ![n] = conf[n] \cup {RevisionOf[c.op]}]
      /\ owner' = [owner EXCEPT ![n] =
                     IF \E q \in ApplyReq : LeaseUndoes(n, q) THEN None ELSE c.q]
      /\ abandoned' = [abandoned EXCEPT ![n] = FALSE]
      /\ UNCHANGED <<control, online, replies, lease, faults, stagedBy>>
  BY DEF AgentStages, SetJournal, SetAgent
<1>5. /\ journal'[n] = j /\ RevisionOf[c.op] \in conf'[n]
      /\ agent'[n].pc = "stage" /\ agent'[n].cmd = c /\ agent'[n].j = j
      /\ owner'[n] = IF \E q \in ApplyReq : LeaseUndoes(n, q) THEN None ELSE c.q
      /\ lease' = lease /\ stagedBy' = stagedBy /\ replies' = replies /\ req' = req
  BY <1>4 DEF Typed, TypeOK, control
<1>6. NodeOnly(n)
  BY <1>3, <1>4 DEF NodeOnly, Typed, TypeOK
<1>7. j.op = c.op /\ j.phase = "applying" /\ j # None
  <2>1. j \in Journal
    BY <1>2 DEF Journal, Phase
  <2> QED BY <2>1, NoneAssumption
<1>8. Begins(n, c)
  BY <1>1, <1>3, <1>5, <1>7 DEF Begins
<1>9. c.q \notin stagedBy[n] /\ CommandAt(c, n)
  BY <1>1, <1>2, <1>3 DEF Orders, Once, IsStage, QueueAt
<1>10. MineKept(n)
  BY <1>5, <1>9, NoneIsNoRequest DEF MineKept, Mine
<1>11. Owned(n)'
  <2>1. CASE owner'[n] = None
    BY <2>1, NotOwned
  <2>2. CASE owner'[n] # None
    <3>1. owner'[n] = c.q /\ \A p \in ApplyReq : ~LeaseUndoes(n, p)'
      BY <1>5, <2>2 DEF LeaseUndoes
    <3>2. At(c.q, c.op, c.i, n) /\ c.op = req[c.q].op
      BY <1>1, <1>9 DEF CommandAt
    <3> QED BY <1>5, <1>7, <3>1, <3>2 DEF Owned, Whole, At
  <2> QED BY <2>1, <2>2
<1> QED BY <1>5, <1>6, <1>8, <1>10, <1>11, NodeOrders

LEMMA RefusesOrders ==
  ASSUME Typed, Orders, NEW n \in Node, AgentRefuses(n)
  PROVE  Orders'
<1> SUFFICES ASSUME NEW c, c = Head(toAgent[n])
             PROVE  Orders'
  OBVIOUS
<1>1. toAgent[n] # << >> /\ Take(n) /\ Answer(n, c, FALSE)
  BY DEF AgentRefuses, Ready
<1>2. /\ agent' = agent /\ journal' = journal /\ conf' = conf /\ lease' = lease
      /\ stagedBy' = stagedBy /\ owner' = owner /\ abandoned' = abandoned
      /\ req' = req
  BY DEF AgentRefuses, control, agents, history
<1>3. NodeOnly(n) /\ GoesOn(n)
  BY <1>1, <1>2, TakeShifts DEF NodeOnly, GoesOn
<1>4. \A r \in replies' : r \in replies \/ ReplyAt(r)'
  BY <1>1, AnswerGives, NoPromise
<1>5. MineKept(n) /\ Owned(n)'
  BY <1>2, SameMine, SameOwned DEF LeaseUndoes
<1> QED BY <1>2, <1>3, <1>4, <1>5, NodeOrders

LEMMA StagedOrders ==
  ASSUME Typed, Orders, NEW n \in Node, AgentStaged(n)
  PROVE  Orders'
<1> SUFFICES ASSUME NEW c, c = agent[n].cmd, NEW j,
                    j = [agent[n].j EXCEPT !.phase = "staged"]
             PROVE  Orders'
  OBVIOUS
<1>1. agent[n].pc = "stage" /\ agent[n].j \in Journal /\ c.q \in ApplyReq /\ Finish(n, TRUE)
  BY DEF AgentStaged, Typed, LoopsNamed, LoopNamed
<1>2. j \in Journal /\ j.phase = "staged" /\ j.op = agent[n].j.op
  BY <1>1, PhaseTyped DEF Phase
<1>3. /\ journal' = [journal EXCEPT ![n] = j]
      /\ lease' = [lease EXCEPT ![n][c.q] = [pc |-> "armed", op |-> agent[n].j.op]]
      /\ stagedBy' = [stagedBy EXCEPT ![n] = stagedBy[n] \cup {c.q}]
      /\ UNCHANGED <<control, online, toAgent, conf, faults, owner, abandoned>>
  BY DEF AgentStaged, SetJournal
<1>4. /\ agent'[n].pc = "idle"
      /\ \A m \in Node : m # n => agent'[m] = agent[m]
      /\ replies' = replies \/ AnswersOnly(n, c, TRUE)
  BY <1>1, FinishGives
<1>5. /\ journal'[n] = j /\ stagedBy'[n] = stagedBy[n] \cup {c.q} /\ conf' = conf
      /\ owner' = owner /\ abandoned' = abandoned /\ req' = req
      /\ \A p \in ApplyReq : LeaseUndoes(n, p)' => LeaseUndoes(n, p)
  BY <1>1, <1>3 DEF Typed, TypeOK, control, LeaseUndoes
<1>6. NodeOnly(n)
  BY <1>3, <1>4, SameShifts DEF NodeOnly, Typed, TypeOK
<1>7. GoesOn(n)
  BY <1>1, <1>3, <1>4, <1>5, SameShifts DEF GoesOn
<1>8. MineKept(n)
  BY <1>1, <1>5, WrittenMine
<1>9. Owned(n)'
  <2>1. CASE owner[n] = None
    BY <1>5, <2>1, NotOwned
  <2>2. CASE owner[n] # None
    <3> SUFFICES ASSUME NEW q, q = owner[n], NEW o, o = req[q].op, Whole(n, o)
                 PROVE  Owned(n)'
      BY <2>2 DEF Orders, Owned
    <3>1. /\ agent[n].j = journal[n] /\ RevisionOf[o] \in conf[n]
          /\ journal[n] # None /\ journal[n].op = o
      BY <1>1, NoneAssumption DEF Whole
    <3> QED BY <1>2, <1>4, <1>5, <3>1 DEF Owned, Whole, At
  <2> QED BY <2>1, <2>2
<1>10. \A r \in replies' : r \in replies \/ ReplyAt(r)'
  <2> SUFFICES ASSUME NEW r \in replies', r \notin replies
               PROVE  ReplyAt(r)'
    OBVIOUS
  <2>1. r.q = c.q /\ r.what = c.what /\ r.i = c.i /\ r.n = n
    BY <1>4 DEF AnswersOnly
  <2>2. c.what = "stage" /\ CommandAt(c, n)
    BY <1>1 DEF Orders, LoopAt
  <2>3. At(c.q, req[c.q].op, c.i, n)
    BY <2>2 DEF CommandAt
  <2> QED BY <1>5, <2>1, <2>2, <2>3 DEF ReplyAt, At
<1> QED BY <1>5, <1>6, <1>7, <1>8, <1>9, <1>10, NodeOrders

LEMMA StageFailsOrders ==
  ASSUME Typed, Orders, NEW n \in Node, AgentStageFails(n)
  PROVE  Orders'
<1> SUFFICES ASSUME NEW j, j = [agent[n].j EXCEPT !.phase = "rolling_back"]
             PROVE  Orders'
  OBVIOUS
<1>1. agent[n].pc = "stage" /\ agent[n].j \in Journal /\ agent[n] \in Loop
  BY DEF AgentStageFails, Typed, TypeOK, LoopsNamed, LoopNamed
<1>2. j \in Journal /\ j.phase = "rolling_back" /\ j.op = agent[n].j.op
  BY <1>1, PhaseTyped DEF Phase
<1>3. /\ journal' = [journal EXCEPT ![n] = j]
      /\ agent' = [agent EXCEPT ![n] = [agent[n] EXCEPT !.pc = "undo", !.j = j]]
      /\ UNCHANGED <<toAgent, replies, conf, lease, stagedBy, owner, abandoned, req>>
  BY DEF AgentStageFails, SetJournal, SetAgent, control, wire, history
<1>4. /\ agent'[n].pc = "undo" /\ agent'[n].cmd = agent[n].cmd
      /\ \A m \in Node : m # n => agent'[m] = agent[m]
  <2>1. /\ agent'[n] = [agent[n] EXCEPT !.pc = "undo", !.j = j]
        /\ \A m \in Node : m # n => agent'[m] = agent[m]
    BY <1>3 DEF Typed, TypeOK
  <2> QED BY <1>1, <2>1 DEF Loop
<1>5. journal'[n] = j /\ \A m \in Node : m # n => journal'[m] = journal[m]
  BY <1>3 DEF Typed, TypeOK
<1>6. NodeOnly(n)
  BY <1>3, <1>4, <1>5 DEF NodeOnly
<1>7. GoesOn(n)
  <2>1. agent[n].cmd.what = "stage"
    BY <1>1 DEF Orders, LoopAt
  <2> QED BY <1>3, <1>4, <2>1, SameShifts DEF GoesOn
<1>8. MineKept(n)
  BY <1>1, <1>3, WrittenMine
<1>9. Owned(n)'
  <2>1. CASE owner[n] = None
    BY <1>3, <2>1, NotOwned
  <2>2. CASE owner[n] # None
    <3> SUFFICES ASSUME NEW q, q = owner[n], NEW o, o = req[q].op, Whole(n, o)
                 PROVE  Owned(n)'
      BY <2>2 DEF Orders, Owned
    <3>1. agent[n].j = journal[n] /\ journal[n] # None /\ journal[n].op = o
      BY <1>1, NoneAssumption DEF Whole
    <3>2. /\ journal'[n] # None /\ journal'[n].op = o
          /\ journal'[n].phase = "rolling_back" /\ agent'[n].pc = "undo"
      BY <1>2, <1>4, <1>5, <3>1, NoneAssumption
    <3>3. owner'[n] = q /\ req'[q].op = o
      BY <1>3
    <3>4. Whole(n, o)'
      BY <1>3, <3>2, <3>3 DEF Whole, At, LeaseUndoes
    <3> QED BY <3>3, <3>4 DEF Owned
  <2> QED BY <2>1, <2>2
<1> QED BY <1>3, <1>6, <1>7, <1>8, <1>9, NodeOrders

LEMMA StageStopsOrders ==
  ASSUME Typed, Orders, NEW n \in Node, AgentStageStops(n)
  PROVE  Orders'
<1> SUFFICES ASSUME NEW c, c = agent[n].cmd
             PROVE  Orders'
  OBVIOUS
<1>1. agent[n].pc = "stage" /\ agent[n].j \in Journal /\ Finish(n, FALSE)
  BY DEF AgentStageStops, Typed, LoopsNamed, LoopNamed
<1>2. /\ UNCHANGED <<toAgent, journal, lease, stagedBy, owner, abandoned, req>>
      /\ \A m \in Node : m # n => conf'[m] = conf[m]
  BY DEF AgentStageStops, control, history, Typed, TypeOK
<1>3. /\ agent'[n].pc = "idle"
      /\ \A m \in Node : m # n => agent'[m] = agent[m]
      /\ replies' = replies \/ AnswersOnly(n, c, FALSE)
  BY <1>1, FinishGives
<1>4. NodeOnly(n)
  BY <1>2, <1>3 DEF NodeOnly
<1>5. GoesOn(n)
  BY <1>2, <1>3, SameShifts DEF GoesOn
<1>6. MineKept(n)
  BY <1>2, SameMine
<1>7. Owned(n)'
  <2>1. CASE owner[n] = None
    BY <1>2, <2>1, NotOwned
  <2>2. CASE owner[n] # None
    <3> SUFFICES ASSUME NEW q, q = owner[n], NEW o, o = req[q].op, Whole(n, o)
                 PROVE  Owned(n)'
      BY <2>2 DEF Orders, Owned
    <3>1. journal[n].phase = "applying"
      BY <1>1 DEF Whole
    <3> QED BY <1>2, <1>3, <3>1 DEF Owned, Whole, At, LeaseUndoes
  <2> QED BY <2>1, <2>2
<1>8. \A r \in replies' : r \in replies \/ ReplyAt(r)'
  BY <1>3, NoPromise
<1> QED BY <1>2, <1>4, <1>5, <1>6, <1>7, <1>8, NodeOrders

LEMMA CommitsOrders ==
  ASSUME Typed, Orders, NEW n \in Node, AgentCommits(n)
  PROVE  Orders'
<1> SUFFICES ASSUME NEW c, c = Head(toAgent[n]), NEW j, j = journal[n]
             PROVE  Orders'
  OBVIOUS
<1>1. /\ agent[n].pc = "idle" /\ toAgent[n] # << >> /\ c.what = "commit" /\ Take(n)
      /\ UNCHANGED <<conf, journal, lease, stagedBy, owner, abandoned, req>>
  BY DEF AgentCommits, Ready, control, history
<1>2. /\ 1 \in 1 .. Len(toAgent[n]) /\ c = toAgent[n][1]
      /\ QueueShifts(n, 1)
      /\ \A m \in Node : m # n => toAgent'[m] = toAgent[m]
  BY <1>1, TakeShifts
<1>3. MineKept(n)
  BY <1>1, SameMine
<1>4. CASE j # None /\ j.phase = "staged"
  <2>1. /\ agent' = [agent EXCEPT ![n] = [pc |-> "commit", cmd |-> c, j |-> j]]
        /\ UNCHANGED replies
    BY <1>4 DEF AgentCommits, SetAgent
  <2>2. /\ agent'[n].pc = "commit" /\ agent'[n].cmd = c /\ agent'[n].j = j
        /\ \A m \in Node : m # n => agent'[m] = agent[m]
    BY <2>1 DEF Typed, TypeOK
  <2>3. NodeOnly(n)
    BY <1>1, <1>2, <2>2 DEF NodeOnly
  <2>4. Begins(n, c)
    BY <1>1, <1>2, <2>2 DEF Begins
  <2>5. Owned(n)'
    <3>1. CASE owner[n] = None
      BY <1>1, <3>1, NotOwned
    <3>2. CASE owner[n] # None
      <4> SUFFICES ASSUME NEW q, q = owner[n], NEW o, o = req[q].op, Whole(n, o)
                   PROVE  Owned(n)'
        BY <3>2 DEF Orders, Owned
      <4> QED BY <1>1, <1>4, <2>2 DEF Owned, Whole, At, LeaseUndoes
    <3> QED BY <3>1, <3>2
  <2> QED BY <1>1, <1>3, <2>1, <2>3, <2>4, <2>5, NodeOrders
<1>5. CASE ~(j # None /\ j.phase = "staged")
  <2>1. Answer(n, c, FALSE) /\ agent' = agent
    BY <1>5 DEF AgentCommits
  <2>2. NodeOnly(n) /\ GoesOn(n)
    BY <1>1, <1>2, <2>1 DEF NodeOnly, GoesOn
  <2>3. \A r \in replies' : r \in replies \/ ReplyAt(r)'
    BY <2>1, AnswerGives, NoPromise
  <2>4. Owned(n)'
    BY <1>1, <2>1, SameOwned DEF LeaseUndoes
  <2> QED BY <1>1, <1>3, <2>2, <2>3, <2>4, NodeOrders
<1> QED BY <1>4, <1>5

LEMMA CommittedOrders ==
  ASSUME Typed, Orders, NEW n \in Node, AgentCommitted(n)
  PROVE  Orders'
<1> SUFFICES ASSUME NEW c, c = agent[n].cmd, NEW j,
                    j = [agent[n].j EXCEPT !.phase = "prepared"]
             PROVE  Orders'
  OBVIOUS
<1>1. agent[n].pc = "commit" /\ agent[n].j \in Journal /\ Finish(n, TRUE)
  BY DEF AgentCommitted, Typed, LoopsNamed, LoopNamed
<1>2. j \in Journal /\ j.phase = "prepared" /\ j.op = agent[n].j.op /\ j # None
  BY <1>1, PhaseTyped, NoneAssumption DEF Phase
<1>3. /\ journal' = [journal EXCEPT ![n] = j]
      /\ UNCHANGED <<toAgent, conf, lease, stagedBy, owner, abandoned, req>>
  BY DEF AgentCommitted, SetJournal, control, history
<1>4. /\ agent'[n].pc = "idle"
      /\ \A m \in Node : m # n => agent'[m] = agent[m]
      /\ replies' = replies \/ AnswersOnly(n, c, TRUE)
  BY <1>1, FinishGives
<1>5. journal'[n] = j /\ \A m \in Node : m # n => journal'[m] = journal[m]
  BY <1>3 DEF Typed, TypeOK
<1>6. NodeOnly(n)
  BY <1>3, <1>4, <1>5 DEF NodeOnly
<1>7. GoesOn(n)
  BY <1>3, <1>4, SameShifts DEF GoesOn
<1>8. MineKept(n)
  BY <1>1, <1>3, WrittenMine
<1>9. ASSUME NEW q, q = owner[n], q # None, NEW o, o = req[q].op
      PROVE  Whole(n, o) /\ j.op = o /\ (~abandoned[n] => RevisionOf[o] \in conf[n])
  <2>1. Whole(n, o)
    BY <1>9 DEF Orders, Owned
  <2>2. agent[n].j = journal[n] /\ journal[n].phase = "staged" /\ journal[n] # None
    BY <1>1, <2>1, NoneAssumption DEF Whole
  <2> QED BY <1>1, <1>2, <2>1, <2>2 DEF Whole
<1>10. Owned(n)'
  <2>1. CASE owner[n] = None
    BY <1>3, <2>1, NotOwned
  <2>2. CASE owner[n] # None
    <3> SUFFICES ASSUME NEW q, q = owner[n], NEW o, o = req[q].op, Whole(n, o)
                 PROVE  Owned(n)'
      BY <2>2 DEF Orders, Owned
    <3>1. j.op = o /\ (~abandoned[n] => RevisionOf[o] \in conf[n])
      BY <1>9, <2>2
    <3> QED BY <1>2, <1>3, <1>4, <1>5, <3>1 DEF Owned, Whole, At, LeaseUndoes
  <2> QED BY <2>1, <2>2
<1>11. \A r \in replies' : r \in replies \/ ReplyAt(r)'
  <2> SUFFICES ASSUME NEW r \in replies', r \notin replies
               PROVE  ReplyAt(r)'
    OBVIOUS
  <2>1. r.q = c.q /\ r.what = c.what /\ r.i = c.i /\ r.n = n
    BY <1>4 DEF AnswersOnly
  <2>2. c.what = "commit" /\ CommandAt(c, n)
    BY <1>1 DEF Orders, LoopAt
  <2>3. PICK o : o = req[c.q].op
    OBVIOUS
  <2>4. At(c.q, o, c.i, n) /\ EachStaged(c.q, o)
    BY <2>2, <2>3 DEF CommandAt
  <2>5. owner[n] = c.q => j.op = o
    BY <1>9, <2>3, <2>4, NoneIsNoRequest DEF At
  <2>6. Mine(n, c.q, o)' /\ EachStaged(c.q, o)'
    BY <1>2, <1>3, <1>5, <2>4, <2>5 DEF Mine, Committed, EachStaged
  <2> QED BY <1>3, <2>1, <2>2, <2>3, <2>4, <2>6 DEF ReplyAt, At
<1> QED BY <1>3, <1>6, <1>7, <1>8, <1>10, <1>11, NodeOrders

LEMMA CommitFailsOrders ==
  ASSUME Typed, Orders, NEW n \in Node, AgentCommitFails(n)
  PROVE  Orders'
<1> SUFFICES ASSUME NEW c, c = agent[n].cmd
             PROVE  Orders'
  OBVIOUS
<1>1. agent[n].pc = "commit" /\ Finish(n, FALSE)
  BY DEF AgentCommitFails
<1>2. UNCHANGED <<toAgent, conf, journal, lease, stagedBy, owner, abandoned, req>>
  BY DEF AgentCommitFails, control, history
<1>3. /\ agent'[n].pc = "idle"
      /\ \A m \in Node : m # n => agent'[m] = agent[m]
      /\ replies' = replies \/ AnswersOnly(n, c, FALSE)
  BY <1>1, FinishGives
<1>4. NodeOnly(n) /\ GoesOn(n)
  BY <1>2, <1>3, SameShifts DEF NodeOnly, GoesOn
<1>5. MineKept(n)
  BY <1>2, SameMine
<1>6. Owned(n)'
  <2>1. CASE owner[n] = None
    BY <1>2, <2>1, NotOwned
  <2>2. CASE owner[n] # None
    <3> SUFFICES ASSUME NEW q, q = owner[n], NEW o, o = req[q].op, Whole(n, o)
                 PROVE  Owned(n)'
      BY <2>2 DEF Orders, Owned
    <3> QED BY <1>1, <1>2, <1>3 DEF Owned, Whole, At, LeaseUndoes
  <2> QED BY <2>1, <2>2
<1>7. \A r \in replies' : r \in replies \/ ReplyAt(r)'
  BY <1>3, NoPromise
<1> QED BY <1>2, <1>4, <1>5, <1>6, <1>7, NodeOrders

LEMMA RecoversOrders ==
  ASSUME Typed, Orders, NEW n \in Node, AgentRecovers(n)
  PROVE  Orders'
<1> SUFFICES ASSUME NEW c, c = Head(toAgent[n]), NEW j, j = journal[n]
             PROVE  Orders'
  OBVIOUS
<1>1. /\ toAgent[n] # << >> /\ c.what \in {"rollback", "teardown", "reconcile"}
      /\ Take(n)
      /\ UNCHANGED <<conf, journal, lease, stagedBy, abandoned, req>>
  BY DEF AgentRecovers, Ready, control
<1>2. /\ QueueShifts(n, 1)
      /\ \A m \in Node : m # n => toAgent'[m] = toAgent[m]
  BY <1>1, TakeShifts
<1>3. CASE j = None
  <2>1. Answer(n, c, TRUE) /\ agent' = agent /\ owner' = owner
    BY <1>3 DEF AgentRecovers
  <2>2. NodeOnly(n) /\ GoesOn(n)
    BY <1>1, <1>2, <2>1 DEF NodeOnly, GoesOn
  <2>3. \A r \in replies' : r \in replies \/ ReplyAt(r)'
    BY <1>1, <2>1, AnswerGives, NoPromise
  <2>4. MineKept(n) /\ Owned(n)'
    BY <1>1, <2>1, SameMine, SameOwned DEF LeaseUndoes
  <2> QED BY <1>1, <2>2, <2>3, <2>4, NodeOrders
<1>4. CASE j # None
  <2>1. /\ agent' = [agent EXCEPT ![n] = [pc |-> "undo", cmd |-> c, j |-> j]]
        /\ owner' = [owner EXCEPT ![n] = None]
        /\ UNCHANGED replies
    BY <1>4 DEF AgentRecovers, SetAgent
  <2>2. /\ agent'[n].pc = "undo" /\ agent'[n].cmd = c /\ owner'[n] = None
        /\ \A m \in Node : m # n => agent'[m] = agent[m] /\ owner'[m] = owner[m]
    BY <2>1 DEF Typed, TypeOK
  <2>3. NodeOnly(n) /\ GoesOn(n)
    BY <1>1, <1>2, <2>2 DEF NodeOnly, GoesOn
  <2>4. MineKept(n) /\ Owned(n)'
    BY <1>1, <2>2, SameMine, NotOwned
  <2> QED BY <1>1, <2>1, <2>3, <2>4, NodeOrders
<1> QED BY <1>3, <1>4

LEMMA UndoesOrders ==
  ASSUME Typed, Orders, NEW n \in Node, AgentUndoes(n)
  PROVE  Orders'
<1>1. agent[n].pc = "undo" /\ agent[n] \in Loop
  BY DEF AgentUndoes, Typed, TypeOK
<1>2. /\ UNCHANGED <<toAgent, replies, journal, lease, stagedBy, owner, abandoned, req>>
      /\ \A m \in Node : m # n => conf'[m] = conf[m]
  BY DEF AgentUndoes, Undo, control, wire, history, Typed, TypeOK
<1>3. /\ agent'[n].pc = "remove" /\ agent'[n].cmd = agent[n].cmd
      /\ \A m \in Node : m # n => agent'[m] = agent[m]
  <2>1. /\ agent'[n] = [agent[n] EXCEPT !.pc = "remove"]
        /\ \A m \in Node : m # n => agent'[m] = agent[m]
    BY DEF AgentUndoes, SetAgent, Typed, TypeOK
  <2> QED BY <1>1, <2>1 DEF Loop
<1>4. NodeOnly(n)
  BY <1>2, <1>3 DEF NodeOnly
<1>5. GoesOn(n)
  <2>1. agent[n].cmd # None => agent[n].cmd.what # "commit"
    BY <1>1 DEF Orders, LoopAt
  <2> QED BY <1>2, <1>3, <2>1, SameShifts DEF GoesOn
<1>6. MineKept(n)
  BY <1>2, SameMine
<1>7. Owned(n)'
  <2>1. CASE owner[n] = None
    BY <1>2, <2>1, NotOwned
  <2>2. CASE owner[n] # None
    <3> SUFFICES ASSUME NEW q, q = owner[n], NEW o, o = req[q].op, Whole(n, o)
                 PROVE  Owned(n)'
      BY <2>2 DEF Orders, Owned
    <3>1. journal[n] # None /\ journal[n].phase # "prepared"
      BY <1>1 DEF Whole
    <3> QED BY <1>2, <1>3, <3>1 DEF Owned, Whole, At, LeaseUndoes
  <2> QED BY <2>1, <2>2
<1> QED BY <1>2, <1>4, <1>5, <1>6, <1>7, NodeOrders

LEMMA GivesUpOrders ==
  ASSUME Typed, Orders, NEW n \in Node, AgentGivesUp(n)
  PROVE  Orders'
<1> SUFFICES ASSUME NEW c, c = agent[n].cmd
             PROVE  Orders'
  OBVIOUS
<1>1. agent[n].pc = "undo" /\ Finish(n, FALSE)
  BY DEF AgentGivesUp
<1>2. /\ UNCHANGED <<toAgent, journal, lease, stagedBy, owner, req>>
      /\ abandoned'[n] = TRUE
      /\ \A m \in Node : m # n => conf'[m] = conf[m] /\ abandoned'[m] = abandoned[m]
  BY DEF AgentGivesUp, GivesUp, Undo, control, Typed, TypeOK
<1>3. /\ agent'[n].pc = "idle"
      /\ \A m \in Node : m # n => agent'[m] = agent[m]
      /\ replies' = replies \/ AnswersOnly(n, c, FALSE)
  BY <1>1, FinishGives
<1>4. NodeOnly(n)
  BY <1>2, <1>3 DEF NodeOnly
<1>5. GoesOn(n)
  BY <1>2, <1>3, SameShifts DEF GoesOn
<1>6. MineKept(n)
  BY <1>2, SameMine
<1>7. Owned(n)'
  <2>1. CASE owner[n] = None
    BY <1>2, <2>1, NotOwned
  <2>2. CASE owner[n] # None
    <3> SUFFICES ASSUME NEW q, q = owner[n], NEW o, o = req[q].op, Whole(n, o)
                 PROVE  Owned(n)'
      BY <2>2 DEF Orders, Owned
    <3> QED BY <1>2, <1>3 DEF Owned, Whole, At, LeaseUndoes
  <2> QED BY <2>1, <2>2
<1>8. \A r \in replies' : r \in replies \/ ReplyAt(r)'
  BY <1>3, NoPromise
<1> QED BY <1>2, <1>4, <1>5, <1>6, <1>7, <1>8, NodeOrders

LEMMA RemovesOrders ==
  ASSUME Typed, Orders, NEW n \in Node, AgentRemoves(n)
  PROVE  Orders'
<1> SUFFICES ASSUME NEW c, c = agent[n].cmd,
                    NEW ok \in BOOLEAN, ok <=> c # None /\ c.what # "stage"
             PROVE  Orders'
  OBVIOUS
<1>1. agent[n].pc = "remove" /\ Finish(n, ok)
  <2>1. ok = (c # None /\ c.what # "stage")
    OBVIOUS
  <2> QED BY <2>1 DEF AgentRemoves
<1>2. /\ UNCHANGED <<toAgent, conf, lease, stagedBy, owner, abandoned, req>>
      /\ journal'[n] = None
      /\ \A m \in Node : m # n => journal'[m] = journal[m]
  BY DEF AgentRemoves, SetJournal, control, history, Typed, TypeOK
<1>3. /\ agent'[n].pc = "idle"
      /\ \A m \in Node : m # n => agent'[m] = agent[m]
      /\ replies' = replies \/ (c # None /\ AnswersOnly(n, c, ok))
  BY <1>1, FinishGives
<1>4. NodeOnly(n)
  BY <1>2, <1>3 DEF NodeOnly
<1>5. GoesOn(n)
  BY <1>2, <1>3, SameShifts DEF GoesOn
<1>6. MineKept(n)
  BY <1>1, <1>2, WrittenMine
<1>7. Owned(n)'
  <2>1. CASE owner[n] = None
    BY <1>2, <2>1, NotOwned
  <2>2. CASE owner[n] # None
    <3> SUFFICES ASSUME NEW q, q = owner[n], NEW o, o = req[q].op, Whole(n, o)
                 PROVE  Owned(n)'
      BY <2>2 DEF Orders, Owned
    <3> QED BY <1>2, <1>3 DEF Owned, Whole, At, LeaseUndoes
  <2> QED BY <2>1, <2>2
<1>8. \A r \in replies' : r \in replies \/ ReplyAt(r)'
  <2>1. c # None => c.what # "commit"
    BY <1>1 DEF Orders, LoopAt
  <2> QED BY <1>3, <2>1, NoPromise
<1> QED BY <1>2, <1>4, <1>5, <1>6, <1>7, <1>8, NodeOrders

LEMMA StartsOrders ==
  ASSUME Typed, Orders, NEW n \in Node, AgentStarts(n)
  PROVE  Orders'
<1> SUFFICES ASSUME NEW j, j = journal[n]
             PROVE  Orders'
  OBVIOUS
<1>1. agent[n].pc = "down"
      /\ UNCHANGED <<toAgent, replies, conf, journal, lease, stagedBy, owner,
                     abandoned, req>>
  BY DEF AgentStarts, control, wire, history
<1>2. /\ \A m \in Node : m # n => agent'[m] = agent[m]
      /\ IF j # None /\ j.phase # "prepared"
         THEN agent'[n].pc = "undo" /\ agent'[n].cmd = None
         ELSE agent'[n].pc = "idle"
  BY DEF AgentStarts, SetAgent, Free, Typed, TypeOK
<1>3. NodeOnly(n)
  BY <1>1, <1>2 DEF NodeOnly
<1>4. GoesOn(n)
  BY <1>1, <1>2, SameShifts DEF GoesOn
<1>5. MineKept(n)
  BY <1>1, SameMine
<1>6. Owned(n)'
  <2>1. CASE owner[n] = None
    BY <1>1, <2>1, NotOwned
  <2>2. CASE owner[n] # None
    <3> SUFFICES ASSUME NEW q, q = owner[n], NEW o, o = req[q].op, Whole(n, o)
                 PROVE  Owned(n)'
      BY <2>2 DEF Orders, Owned
    <3>1. CASE j # None /\ j.phase # "prepared"
      BY <1>1, <1>2, <3>1 DEF Owned, Whole, At, LeaseUndoes
    <3>2. CASE ~(j # None /\ j.phase # "prepared")
      BY <1>1, <1>2, <3>2 DEF Owned, Whole, At, LeaseUndoes
    <3> QED BY <3>1, <3>2
  <2> QED BY <2>1, <2>2
<1> QED BY <1>1, <1>3, <1>4, <1>5, <1>6, NodeOrders

LEMMA AgentOrders ==
  ASSUME Typed, Orders, NEW n \in Node, AgentStep(n)
  PROVE  Orders'
BY StagesOrders, RefusesOrders, StagedOrders, StageFailsOrders, StageStopsOrders,
   CommitsOrders, CommittedOrders, CommitFailsOrders, RecoversOrders, UndoesOrders,
   GivesUpOrders, RemovesOrders, StartsOrders DEF AgentStep

-----------------------------------------------------------------------------
(* The lease tasks, and what goes wrong with a node                           *)

(* A node a lease undoes has no owner, and keeps none.                         *)
LEMMA UndoneIsNotOwned ==
  ASSUME Orders, NEW n \in Node, NEW q \in ApplyReq, LeaseUndoes(n, q),
         owner'[n] = owner[n]
  PROVE  MineKept(n) /\ Owned(n)'
<1>1. owner[n] = None
  BY DEF Orders, Owned, Whole
<1> QED BY <1>1, NoneIsNoRequest DEF MineKept, Mine, Owned

LEMMA LeaseOrders ==
  ASSUME Typed, Orders, NEW n \in Node, NEW q \in ApplyReq, LeaseStep(n, q)
  PROVE  Orders'
<1>1. ASSUME UNCHANGED <<toAgent, replies, agent, stagedBy, req>>,
             MineKept(n), Owned(n)',
             \A m \in Node : m # n =>
               /\ journal'[m] = journal[m] /\ conf'[m] = conf[m]
               /\ lease'[m] = lease[m]
               /\ owner'[m] = owner[m] /\ abandoned'[m] = abandoned[m]
      PROVE  Orders'
  <2>1. NodeOnly(n) /\ GoesOn(n)
    BY <1>1, SameShifts DEF NodeOnly, GoesOn
  <2> QED BY <1>1, <2>1, NodeOrders
<1>2. CASE LeaseExpires(n, q)
  <2>1. /\ UNCHANGED <<toAgent, replies, agent, stagedBy, req, journal, conf, abandoned>>
        /\ lease[n][q].pc = "armed"
        /\ \A m \in Node : m # n => lease'[m] = lease[m] /\ owner'[m] = owner[m]
    BY <1>2 DEF LeaseExpires, SetLease, control, wire, Typed, TypeOK
  <2>2. CASE Overdue(n, lease[n][q].op)
    <3>1. owner'[n] = None
      BY <1>2, <2>2 DEF LeaseExpires, Typed, TypeOK
    <3> QED BY <1>1, <2>1, <3>1, SameMine, NotOwned
  <2>3. CASE ~Overdue(n, lease[n][q].op)
    <3>1. owner' = owner /\ lease' = [lease EXCEPT ![n][q] = NoLease]
      BY <1>2, <2>3 DEF LeaseExpires, SetLease
    <3>2. \A p \in ApplyReq : LeaseUndoes(n, p)' => LeaseUndoes(n, p)
      BY <3>1 DEF LeaseUndoes, NoLease, Typed, TypeOK
    <3>3. MineKept(n) /\ Owned(n)'
      BY <2>1, <3>1, <3>2, SameMine, SameOwned
    <3> QED BY <1>1, <2>1, <3>1, <3>3
  <2> QED BY <2>2, <2>3
<1>3. CASE LeaseUndo(n, q) \/ LeaseGivesUp(n, q) \/ LeaseRemoves(n, q)
  <2>1. LeaseUndoes(n, q) /\ UNCHANGED <<toAgent, replies, agent, stagedBy, req, owner>>
    BY <1>3 DEF LeaseUndo, LeaseGivesUp, LeaseRemoves, LeaseUndoes, control, wire,
                history
  <2>2. \A m \in Node : m # n => lease'[m] = lease[m]
    BY <1>3 DEF LeaseUndo, LeaseGivesUp, LeaseRemoves, SetLease, Typed, TypeOK
  <2>3. \A m \in Node : m # n =>
          /\ journal'[m] = journal[m] /\ conf'[m] = conf[m]
          /\ abandoned'[m] = abandoned[m]
    BY <1>3 DEF LeaseUndo, LeaseGivesUp, LeaseRemoves, GivesUp, Undo, SetJournal,
                history, Typed, TypeOK
  <2> QED BY <1>1, <2>1, <2>2, <2>3, UndoneIsNotOwned
<1> QED BY <1>2, <1>3 DEF LeaseStep

(* Sessions come and go; what is at the node stays.                           *)
LEMMA SessionOrders ==
  ASSUME Orders, WireShrinks, UNCHANGED <<agents, history>>, UNCHANGED req
  PROVE  Orders'
<1>1. ASSUME NEW q \in ApplyReq
      PROVE  RequestAt(q)' /\ req'[q] = req[q]
  BY RequestNow DEF Orders, RequestAt
<1> QED BY <1>1, ControlKeepsOrders DEF OpsKept

LEMMA CrashOrders ==
  ASSUME Typed, Orders, NEW n \in Node, AgentCrash(n)
  PROVE  Orders'
<1>1. /\ UNCHANGED <<conf, journal, stagedBy, owner, abandoned, req>>
      /\ replies' \subseteq replies
  BY DEF AgentCrash, LoseStream, control, history
<1>2. /\ toAgent'[n] = << >>
      /\ \A m \in Node : m # n => toAgent'[m] = toAgent[m]
  BY DEF AgentCrash, LoseStream, Typed, TypeOK
<1>3. /\ agent'[n].pc = "down"
      /\ \A m \in Node : m # n => agent'[m] = agent[m]
  BY DEF AgentCrash, SetAgent, Free, Typed, TypeOK
<1>4. /\ \A p \in ApplyReq : ~LeaseUndoes(n, p)'
      /\ \A m \in Node : m # n => lease'[m] = lease[m]
  BY DEF AgentCrash, LeaseUndoes, NoLease, Typed, TypeOK
<1>5. NodeOnly(n)
  BY <1>1, <1>2, <1>3, <1>4 DEF NodeOnly
<1>6. GoesOn(n)
  <2>1. QueueShifts(n, 0)
    BY <1>2 DEF QueueShifts
  <2> QED BY <1>1, <1>3, <2>1 DEF GoesOn
<1>7. MineKept(n)
  BY <1>1, SameMine
<1>8. Owned(n)'
  <2>1. CASE owner[n] = None
    BY <1>1, <2>1, NotOwned
  <2>2. CASE owner[n] # None
    <3> SUFFICES ASSUME NEW q, q = owner[n], NEW o, o = req[q].op, Whole(n, o)
                 PROVE  Owned(n)'
      BY <2>2 DEF Orders, Owned
    <3> QED BY <1>1, <1>3, <1>4 DEF Owned, Whole, At
  <2> QED BY <2>1, <2>2
<1> QED BY <1>1, <1>5, <1>6, <1>7, <1>8, NodeOrders

LEMMA StreamsOrders ==
  ASSUME Typed, Orders, NEW n \in Node, Disconnect(n) \/ AgentCrash(n) \/ Reconnect(n)
  PROVE  Orders'
<1>1. CASE Disconnect(n)
  <2>1. WireShrinks
    BY <1>1 DEF Disconnect, LoseStream, WireShrinks, Typed, TypeOK
  <2> QED BY <1>1, <2>1, SessionOrders DEF Disconnect, control
<1>2. CASE Reconnect(n)
  BY <1>2, SessionOrders DEF Reconnect, WireShrinks, control
<1> QED BY <1>1, <1>2, CrashOrders

-----------------------------------------------------------------------------
(* The order is an invariant                                                  *)

LEMMA OrdersInit == Init => Orders
<1> SUFFICES ASSUME Init PROVE Orders
  OBVIOUS
<1>1. \A q \in ApplyReq : req[q] = Idle
  BY DEF Init, Req
<1>2. \A n \in Node : /\ toAgent[n] = << >> /\ agent[n].pc = "idle"
                      /\ stagedBy[n] = {} /\ owner[n] = None
  BY DEF Init, Free
<1>3. ASSUME NEW q, NEW n \in Node
      PROVE  Untouched(q, n)
  BY <1>2 DEF Untouched, Staging
<1>4. ASSUME NEW q \in ApplyReq
      PROVE  RequestAt(q)
  <2>1. Idle.pc = "idle" /\ Idle.op = None
    BY DEF Idle
  <2> QED BY <1>1, <1>3, <2>1 DEF RequestAt, RequestAs
<1>5. \A n \in Node : QueueAt(n) /\ LoopAt(n) /\ Owned(n)
  BY <1>2 DEF QueueAt, LoopAt, Owned
<1>6. RepliesAt
  BY DEF Init, RepliesAt
<1>7. \A q \in ApplyReq, n \in Node : Once(q, n)
  BY <1>2 DEF Once, Staging
<1> QED BY <1>4, <1>5, <1>6, <1>7 DEF Orders

LEMMA OrdersStep == Typed /\ Orders /\ [Next]_vars => Orders'
<1> SUFFICES ASSUME Typed, Orders, [Next]_vars PROVE Orders'
  OBVIOUS
<1>1. ASSUME NEW o \in Op, PlanBegin(o) \/ PlanNode(o) PROVE Orders'
  BY <1>1, StillOrders DEF PlanBegin, PlanNode
<1>2. ASSUME NEW q \in Req, Exchange(q) \/ RequestDropped(q) PROVE Orders'
  BY <1>2, SendOrders, ReceiveOrders, TimeoutOrders, DropOrders DEF Exchange
<1>3. ASSUME NEW q \in ApplyReq, (\E o \in Op : ApplyBegin(q, o)) \/ ApplySteps(q)
      PROVE  Orders'
  BY <1>3, BeginOrders, ApplyOrders DEF Req
<1>4. ASSUME NEW q \in TeardownReq,
             (\E r \in Revision : TeardownBegin(q, r)) \/ TeardownEnds(q)
      PROVE  Orders'
  BY <1>4, BeginOrders, TeardownEndOrders DEF Req
<1>5. ASSUME NEW q \in ReconcileReq, NEW n \in Node, ReconcileBegin(q, n)
      PROVE  Orders'
  BY <1>5, BeginOrders DEF Req
<1>6. CASE (\E r \in Revision : StartBegin(r)) \/ StartEnds \/ RunEnds
  BY <1>6, StillOrders DEF StartBegin, StartEnds, RunEnds
<1>7. CASE UNCHANGED vars
  BY <1>7, StillOrders DEF vars, control
<1> QED BY <1>1, <1>2, <1>3, <1>4, <1>5, <1>6, <1>7, AgentOrders, LeaseOrders,
           StreamsOrders, RestartOrders DEF Next

LEMMA AlwaysOrders == Spec => [](Typed /\ Orders)
<1>1. Typed /\ Orders /\ [Next]_vars => (Typed /\ Orders)'
  BY TypedStep, OrdersStep
<1> QED BY <1>1, TypedInit, OrdersInit, PTL DEF Spec

LEMMA OrderedCommits == Typed /\ Orders => CommitsFollowStages
<1> SUFFICES ASSUME Typed, Orders, NEW n \in Node
             PROVE  /\ \A k \in DOMAIN toAgent[n] :
                         toAgent[n][k].what = "commit" => AllStaged(toAgent[n][k])
                    /\ agent[n].pc = "commit" => AllStaged(agent[n].cmd)
  BY DEF CommitsFollowStages
<1>1. DOMAIN toAgent[n] = 1 .. Len(toAgent[n])
  BY DEF Typed, TypeOK
<1>2. ASSUME NEW c, c.what = "commit", CommandAt(c, n)
      PROVE  AllStaged(c)
  BY <1>2 DEF CommandAt, EachStaged, AllStaged
<1>3. QueueAt(n) /\ LoopAt(n)
  BY DEF Orders
<1> QED BY <1>1, <1>2, <1>3 DEF QueueAt, LoopAt

LEMMA OrderedCompletion == Orders => CompletedIsInPlace
<1> SUFFICES ASSUME Orders, NEW q \in ApplyReq, NEW n \in Node, NEW o, o = req[q].op,
                    req[q].pc \in {"prepare", "done"}, owner[n] = q
             PROVE  Committed(n, o) /\ (abandoned[n] \/ RevisionOf[o] \in conf[n])
  BY DEF CompletedIsInPlace
<1>1. Whole(n, o)
  BY NoneIsNoRequest DEF Orders, Owned
<1>2. PICK i \in DOMAIN NodesOfOp(o) : NodesOfOp(o)[i] = n
  BY <1>1 DEF Whole, At
<1>3. Mine(n, q, o)
  BY <1>2 DEF Orders, RequestAt, RequestAs
<1>4. Committed(n, o)
  BY <1>3 DEF Mine
<1> QED BY <1>1, <1>4 DEF Whole, Committed

(* A Commit that is on its way or being carried out, however late, is of a      *)
(* request whose Stage every node of the operation carried out, for any number *)
(* of requests and operations on the same nodes: a request counts its own      *)
(* answers only, and a node answers a Stage well only when it was carried out.  *)
THEOREM NetworkCommitsStaged == Spec => []CommitsFollowStages
<1>1. Typed /\ Orders => CommitsFollowStages
  BY OrderedCommits
<1> QED BY <1>1, AlwaysOrders, PTL

(* What Control records as completed was committed by every node and is in      *)
(* place there, as long as no other request and no lease began to undo         *)
(* anything on the node and no undo was given up there: for any number of      *)
(* operations, teardowns, reconciles, crashes, timeouts and lost answers.      *)
THEOREM NetworkCompletes == Spec => []CompletedIsInPlace
<1>1. Typed /\ Orders => CompletedIsInPlace
  BY OrderedCompletion
<1> QED BY <1>1, AlwaysOrders, PTL
=============================================================================
