---------------------------- MODULE NetworkApply ----------------------------
(***************************************************************************)
(* Managed network profiles over several Agents: Control plans an          *)
(* operation, stages it on every node, commits it, and rolls it back when  *)
(* one of them fails (control/src/network_orchestration.rs); a node holds  *)
(* one journal and an uncommitted operation only until its lease expires.  *)
(*                                                                         *)
(* An Agent carries out one command at a time; beside its command loop run *)
(* the lease tasks, and all of them read, undo and remove the one journal  *)
(* of the node without a lock.  A step of the Agent ends where it awaits   *)
(* the journal file or the programs it runs, as far as another task can    *)
(* tell; NetworkJournal has the single commands.  A step of Control is     *)
(* what it does between two awaits.                                        *)
(***************************************************************************)
EXTENDS Naturals, Sequences, FiniteSets

CONSTANTS
  Node,          \* Agents
  Revision,      \* profile revisions
  NodesOf,       \* the nodes of a revision, in the order Control visits them
  Nic,           \* interface names
  NicOf,         \* the interface a revision uses on its nodes
  Op,            \* plan operations
  RevisionOf,    \* the revision a plan is made for
  ApplyReq, TeardownReq, ReconcileReq,  \* HTTP requests
  None,          \* no journal, no run
  MaxFaults      \* bound: what goes wrong

ASSUME ProfileAssumption ==
  /\ NodesOf \in [Revision -> Seq(Node)]
  /\ \A r \in Revision : NodesOf[r] # << >>
  /\ \A r \in Revision : \A i, j \in DOMAIN NodesOf[r] :
       NodesOf[r][i] = NodesOf[r][j] => i = j
  /\ NicOf \in [Revision -> Nic]
  /\ RevisionOf \in [Op -> Revision]
  /\ None \notin Revision \cup Node \cup Op \cup ApplyReq
  /\ MaxFaults \in Nat

ASSUME RequestAssumption ==
  /\ ApplyReq \cap TeardownReq = {}
  /\ ApplyReq \cap ReconcileReq = {}
  /\ TeardownReq \cap ReconcileReq = {}

Req == ApplyReq \cup TeardownReq \cup ReconcileReq

VARIABLES
  \* Control
  opStatus,   \* network_operations.status of the plans
  plans,      \* the inventories a plan was made from, node by node
  prepared,   \* revisions whose status is prepared
  activeRun,  \* the revision the active run uses, or None
  starting,   \* the revision start_run holds the active_run mutex for, or None
  req,        \* where each request is
  \* the streams
  online,     \* nodes with a session
  toAgent,    \* commands on their way to a node or waiting there, in order
  replies,    \* progress messages on their way
  \* the Agents
  conf,       \* revisions whose interface is in their namespace on a node
  journal,    \* the node's journal, or None
  agent,      \* the command loop of a node
  lease,      \* its lease tasks, one for every Stage it carried out
  faults,
  \* history
  stagedBy,   \* requests whose Stage a node carried out
  owner,      \* the request that has the node to itself, or None: its Stage was
              \* the last one, and since it no other request's command and no
              \* lease began to undo anything there
  abandoned   \* was an undo given up on the node since its last Stage?

control == <<opStatus, plans, prepared, activeRun, starting, req>>
wire == <<online, toAgent, replies>>
agents == <<conf, journal, agent, lease>>
history == <<stagedBy, owner, abandoned>>
vars == <<control, wire, agents, faults, history>>

OpStatus == {"none", "planned", "applying", "completed", "failed"}
Action == {"stage", "commit", "rollback", "teardown", "reconcile"}
Pc == Action \cup {"idle", "mark", "complete", "prepare", "fail", "unprepare",
                   "done", "failed", "dropped", "quarantined"}
Phase == {"applying", "staged", "prepared", "rolling_back"}
Journal == [op : Op, phase : Phase]
Command == [q : Req, what : Action, i : Nat, op : Op \cup {None}]
ASSUME NoneAssumption == None \notin Journal \cup Command
Reply == [q : Req, what : Action, i : Nat, n : Node, ok : BOOLEAN]

(* A request: what it is about, the node it is at, how many nodes it staged   *)
(* and whether its command was sent.                                         *)
Request == [pc : Pc, op : Op \cup {None}, rev : Revision \cup {None},
            node : Node \cup {None}, i : Nat, staged : Nat, sent : BOOLEAN]
Idle == [pc |-> "idle", op |-> None, rev |-> None, node |-> None, i |-> 1,
         staged |-> 0, sent |-> FALSE]

(* What the command loop is doing, for which command (None: at startup), and  *)
(* the journal it read; and a lease task with its operation.                 *)
Loop == [pc : {"idle", "stage", "commit", "undo", "remove", "down"},
         cmd : Command \cup {None}, j : Journal \cup {None}]
Free == [pc |-> "idle", cmd |-> None, j |-> None]
Lease == [pc : {"none", "armed", "undo", "remove"}, op : Op \cup {None}]
NoLease == [pc |-> "none", op |-> None]

TypeOK ==
  /\ opStatus \in [Op -> OpStatus]
  /\ plans \in [Op -> Seq(SUBSET Nic)]
  /\ prepared \subseteq Revision
  /\ activeRun \in Revision \cup {None}
  /\ starting \in Revision \cup {None}
  /\ req \in [Req -> Request]
  /\ online \subseteq Node
  /\ toAgent \in [Node -> Seq(Command)]
  /\ replies \subseteq Reply
  /\ conf \in [Node -> SUBSET Revision]
  /\ journal \in [Node -> Journal \cup {None}]
  /\ agent \in [Node -> Loop]
  /\ lease \in [Node -> [ApplyReq -> Lease]]
  /\ faults \in 0 .. MaxFaults
  /\ stagedBy \in [Node -> SUBSET ApplyReq]
  /\ owner \in [Node -> ApplyReq \cup {None}]
  /\ abandoned \in [Node -> BOOLEAN]

Init ==
  /\ opStatus = [o \in Op |-> "none"]
  /\ plans = [o \in Op |-> << >>]
  /\ prepared = {}
  /\ activeRun = None
  /\ starting = None
  /\ req = [q \in Req |-> Idle]
  /\ online = Node
  /\ toAgent = [n \in Node |-> << >>]
  /\ replies = {}
  /\ conf = [n \in Node |-> {}]
  /\ journal = [n \in Node |-> None]
  /\ agent = [n \in Node |-> Free]
  /\ lease = [n \in Node |-> [q \in ApplyReq |-> NoLease]]
  /\ faults = 0
  /\ stagedBy = [n \in Node |-> {}]
  /\ owner = [n \in Node |-> None]
  /\ abandoned = [n \in Node |-> FALSE]

Fault == faults < MaxFaults /\ faults' = faults + 1

NodesOfOp(o) == NodesOf[RevisionOf[o]]

(* The inventory of a node, as far as the tester changes it: the interfaces   *)
(* that are away in a namespace.                                             *)
Inventory(n) == {NicOf[r] : r \in conf[n]}

-----------------------------------------------------------------------------
(* plan: read-only on the nodes; refused when the interface is away.          *)

PlanBegin(o) ==
  /\ opStatus[o] = "none"
  /\ opStatus' = [opStatus EXCEPT ![o] = "planned"]
  /\ UNCHANGED <<plans, prepared, activeRun, starting, req, wire, agents,
                 faults, history>>

PlanNode(o) ==
  /\ opStatus[o] = "planned"
  /\ Len(plans[o]) < Len(NodesOfOp(o))
  /\ LET n == NodesOfOp(o)[Len(plans[o]) + 1] IN
     /\ n \in online /\ agent[n].pc = "idle"
     /\ NicOf[RevisionOf[o]] \notin Inventory(n)
     /\ plans' = [plans EXCEPT ![o] = Append(@, Inventory(n))]
  /\ UNCHANGED <<opStatus, prepared, activeRun, starting, req, wire, agents,
                 faults, history>>

-----------------------------------------------------------------------------
(* command: send, and wait for the progress message or the timeout            *)

NodesOfReq(s) ==
  CASE s.op # None -> NodesOfOp(s.op)
    [] s.op = None /\ s.rev # None -> NodesOf[s.rev]
    [] OTHER -> <<s.node>>

Target(s) == NodesOfReq(s)[s.i]

(* The next node, or the next phase when this was the last.                   *)
NextNode(s, phase) ==
  IF s.i < Len(NodesOfReq(s))
  THEN [s EXCEPT !.i = s.i + 1, !.sent = FALSE]
  ELSE [s EXCEPT !.pc = phase, !.i = 1, !.sent = FALSE]

(* Mutant of UndoStaged: the failed node is taken off the staged ones.         *)
UndoStagedButLast(s) ==
  [s EXCEPT !.pc = IF s.staged = 0 THEN "fail" ELSE "rollback",
            !.i = 1, !.staged = s.staged - 1, !.sent = FALSE]

(* rollback_nodes, over the nodes staged so far                               *)
UndoStaged(s) ==
  [s EXCEPT !.pc = IF s.staged = 0 THEN "fail" ELSE "rollback",
            !.i = 1, !.sent = FALSE]

(* Mutant of AfterStage: the first node is committed at once.                  *)
AfterStageCommits(s, ok) ==
  IF ok THEN [s EXCEPT !.pc = "commit", !.i = 1, !.staged = s.staged + 1,
                       !.sent = FALSE]
        ELSE UndoStaged(s)

(* Where a request goes when its command was answered, timed out or could not *)
(* be sent.                                                                  *)
AfterStage(s, ok) ==
  IF ok THEN NextNode([s EXCEPT !.staged = s.staged + 1], "commit")
        ELSE UndoStaged(s)

(* Mutant of AfterCommit: the commit's outcome is not looked at.               *)
AfterCommitAnyway(s, ok) == NextNode(s, "complete")

AfterCommit(s, ok) ==
  IF ok THEN NextNode(s, "complete") ELSE UndoStaged(s)

AfterRollback(s) ==
  IF s.i < s.staged THEN [s EXCEPT !.i = s.i + 1, !.sent = FALSE]
                    ELSE [s EXCEPT !.pc = "fail", !.sent = FALSE]

AfterTeardown(s, ok) ==
  IF ok THEN NextNode(s, "unprepare")
        ELSE [s EXCEPT !.pc = "quarantined", !.sent = FALSE]

After(s, ok) ==
  CASE s.pc = "stage" -> AfterStage(s, ok)
    [] s.pc = "commit" -> AfterCommit(s, ok)
    [] s.pc = "rollback" -> AfterRollback(s)
    [] s.pc = "teardown" -> AfterTeardown(s, ok)
    [] OTHER -> [s EXCEPT !.pc = "done", !.sent = FALSE]

SetReq(q, s) == req' = [req EXCEPT ![q] = s]

Send(q) ==
  LET s == req[q] IN
  /\ s.pc \in Action
  /\ ~s.sent
  /\ IF Target(s) \in online
     THEN /\ SetReq(q, [s EXCEPT !.sent = TRUE])
          /\ toAgent' = [toAgent EXCEPT ![Target(s)] =
                Append(@, [q |-> q, what |-> s.pc, i |-> s.i, op |-> s.op])]
     ELSE SetReq(q, After(s, FALSE)) /\ UNCHANGED toAgent
  /\ UNCHANGED <<opStatus, plans, prepared, activeRun, starting, online, replies,
                 agents,
                 faults, history>>

IsFor(r, q) == r.q = q /\ r.what = req[q].pc /\ r.i = req[q].i

Receive(q) ==
  LET s == req[q] IN
  /\ s.pc \in Action
  /\ s.sent
  /\ \E r \in replies :
       /\ IsFor(r, q)
       /\ replies' = replies \ {r}
       /\ SetReq(q, After(s, r.ok))
  /\ UNCHANGED <<opStatus, plans, prepared, activeRun, starting, online, toAgent,
                 agents,
                 faults, history>>

(* Is the command on the wire or at the node, or its answer on the wire?      *)
Pending(q) ==
  \/ \E r \in replies : IsFor(r, q)
  \/ \E n \in Node : \E k \in 1 .. Len(toAgent[n]) : IsFor(toAgent[n][k], q)
  \/ \E n \in online : agent[n].cmd # None /\ IsFor(agent[n].cmd, q)

(* The timeout: of a command that was lost, or (a fault) of a slow one, which *)
(* stays where it is.                                                        *)
Timeout(q) ==
  LET s == req[q] IN
  /\ s.pc \in Action
  /\ s.sent
  /\ IF Pending(q) THEN Fault ELSE UNCHANGED faults
  /\ SetReq(q, After(s, FALSE))
  /\ UNCHANGED <<opStatus, plans, prepared, activeRun, starting, wire, agents,
                 history>>

-----------------------------------------------------------------------------
(* apply *)

(* The checks: no run, and a plan whose token was not used.                   *)
ApplyBegin(q, o) ==
  /\ req[q].pc = "idle"
  /\ starting = None /\ activeRun = None
  /\ opStatus[o] = "planned"
  /\ Len(plans[o]) = Len(NodesOfOp(o))
  /\ SetReq(q, [Idle EXCEPT !.pc = "mark", !.op = o])
  /\ UNCHANGED <<opStatus, plans, prepared, activeRun, starting, wire, agents,
                 faults, history>>

ApplyMarks(q) ==
  /\ req[q].pc = "mark"
  /\ opStatus' = [opStatus EXCEPT ![req[q].op] = "applying"]
  /\ SetReq(q, [req[q] EXCEPT !.pc = "stage"])
  /\ UNCHANGED <<plans, prepared, activeRun, starting, wire, agents,
                 faults, history>>

ApplyCompletes(q) ==
  /\ req[q].pc = "complete"
  /\ opStatus' = [opStatus EXCEPT ![req[q].op] = "completed"]
  /\ SetReq(q, [req[q] EXCEPT !.pc = "prepare"])
  /\ UNCHANGED <<plans, prepared, activeRun, starting, wire, agents,
                 faults, history>>

(* set_prepared(true)                                                        *)
ApplyPrepares(q) ==
  /\ req[q].pc = "prepare"
  /\ prepared' = prepared \cup {RevisionOf[req[q].op]}
  /\ SetReq(q, [req[q] EXCEPT !.pc = "done"])
  /\ UNCHANGED <<opStatus, plans, activeRun, starting, wire, agents,
                 faults, history>>

(* mark_failed                                                               *)
ApplyFails(q) ==
  /\ req[q].pc = "fail"
  /\ opStatus' = [opStatus EXCEPT ![req[q].op] = "failed"]
  /\ SetReq(q, [req[q] EXCEPT !.pc = "failed"])
  /\ UNCHANGED <<plans, prepared, activeRun, starting, wire, agents,
                 faults, history>>

-----------------------------------------------------------------------------
(* teardown and reconcile *)

TeardownBegin(q, r) ==
  /\ req[q].pc = "idle"
  /\ starting = None /\ activeRun = None
  /\ SetReq(q, [Idle EXCEPT !.pc = "teardown", !.rev = r])
  /\ UNCHANGED <<opStatus, plans, prepared, activeRun, starting, wire, agents,
                 faults, history>>

(* set_prepared(false)                                                       *)
TeardownEnds(q) ==
  /\ req[q].pc = "unprepare"
  /\ prepared' = prepared \ {req[q].rev}
  /\ SetReq(q, [req[q] EXCEPT !.pc = "done"])
  /\ UNCHANGED <<opStatus, plans, activeRun, starting, wire, agents,
                 faults, history>>

(* No check, and no status is written.                                       *)
ReconcileBegin(q, n) ==
  /\ req[q].pc = "idle"
  /\ SetReq(q, [Idle EXCEPT !.pc = "reconcile", !.node = n])
  /\ UNCHANGED <<opStatus, plans, prepared, activeRun, starting, wire, agents,
                 faults, history>>

-----------------------------------------------------------------------------
(* A run on a revision: start_run checks its status under the active_run      *)
(* mutex, and the run ends.  Whether the revision is in place is not looked   *)
(* at: preflight is a request of its own, and answers a managed path with Ok. *)

StartBegin(r) ==
  /\ starting = None /\ activeRun = None
  /\ r \in prepared
  /\ starting' = r
  /\ UNCHANGED <<opStatus, plans, prepared, activeRun, req, wire, agents,
                 faults, history>>

StartEnds ==
  /\ starting # None
  /\ starting' = None
  /\ activeRun' \in {starting, None}
  /\ UNCHANGED <<opStatus, plans, prepared, req, wire, agents,
                 faults, history>>

RunEnds ==
  /\ activeRun # None
  /\ activeRun' = None
  /\ UNCHANGED <<opStatus, plans, prepared, starting, req, wire, agents,
                 faults, history>>

-----------------------------------------------------------------------------
(* The Agent's command loop, one command at a time and in order               *)

SetJournal(n, j) == journal' = [journal EXCEPT ![n] = j]
SetAgent(n, s) == agent' = [agent EXCEPT ![n] = s]

(* A progress message goes to the session the command came from, if there     *)
(* still is one: the loop connects again only when the command is done.       *)
Answer(n, c, ok) ==
  replies' = IF n \in online
             THEN replies \cup {[q |-> c.q, what |-> c.what, i |-> c.i, n |-> n,
                                 ok |-> ok]}
             ELSE replies

Ready(n, what) ==
  /\ agent[n].pc = "idle"
  /\ toAgent[n] # << >>
  /\ Head(toAgent[n]).what \in what

Take(n) == toAgent' = [toAgent EXCEPT ![n] = Tail(@)]

(* The command at hand is done; at startup there is none to answer.           *)
Finish(n, ok) ==
  /\ SetAgent(n, Free)
  /\ IF agent[n].cmd = None THEN UNCHANGED replies
                             ELSE Answer(n, agent[n].cmd, ok)

(* Mutant of Matches: the plan is not compared with the inventory.             *)
MatchesAny(n, o) == \E i \in DOMAIN plans[o] : NodesOfOp(o)[i] = n

(* apply of the Agent: the inventory must be the plan's.                      *)
Matches(n, o) ==
  \E i \in DOMAIN plans[o] : NodesOfOp(o)[i] = n /\ plans[o][i] = Inventory(n)

LeaseUndoes(n, q) == lease[n][q].pc \in {"undo", "remove"}

(* apply: the journal is written over whatever was there, then the commands.  *)
AgentStages(n) ==
  LET c == Head(toAgent[n])
      j == [op |-> c.op, phase |-> "applying"] IN
  /\ Ready(n, {"stage"})
  /\ Matches(n, c.op)
  /\ SetJournal(n, j)
  /\ conf' = [conf EXCEPT ![n] = @ \cup {RevisionOf[c.op]}]
  /\ SetAgent(n, [pc |-> "stage", cmd |-> c, j |-> j])
  /\ Take(n)
  /\ owner' = [owner EXCEPT ![n] =
                 IF \E q \in ApplyReq : LeaseUndoes(n, q) THEN None ELSE c.q]
  /\ abandoned' = [abandoned EXCEPT ![n] = FALSE]
  /\ UNCHANGED <<control, online, replies, lease, faults, stagedBy>>

(* Another inventory; or the inventory or the first write fails.              *)
AgentRefuses(n) ==
  /\ Ready(n, {"stage"})
  /\ \/ ~Matches(n, Head(toAgent[n]).op) /\ UNCHANGED faults
     \/ Matches(n, Head(toAgent[n]).op) /\ Fault
  /\ Take(n)
  /\ Answer(n, Head(toAgent[n]), FALSE)
  /\ UNCHANGED <<control, online, agents, history>>

(* Mutant of AgentStaged: the lease task is not spawned.                       *)
AgentStagedForGood(n) ==
  /\ agent[n].pc = "stage"
  /\ SetJournal(n, [agent[n].j EXCEPT !.phase = "staged"])
  /\ stagedBy' = [stagedBy EXCEPT ![n] = @ \cup {agent[n].cmd.q}]
  /\ Finish(n, TRUE)
  /\ UNCHANGED <<control, online, toAgent, conf, lease, faults, owner, abandoned>>

(* The last write, and the lease task is spawned.                             *)
AgentStaged(n) ==
  LET q == agent[n].cmd.q IN
  /\ agent[n].pc = "stage"
  /\ SetJournal(n, [agent[n].j EXCEPT !.phase = "staged"])
  /\ lease' = [lease EXCEPT ![n][q] = [pc |-> "armed", op |-> agent[n].j.op]]
  /\ stagedBy' = [stagedBy EXCEPT ![n] = @ \cup {q}]
  /\ Finish(n, TRUE)
  /\ UNCHANGED <<control, online, toAgent, conf, faults, owner, abandoned>>

(* A command fails and everything is undone ...                               *)
AgentStageFails(n) ==
  LET j == [agent[n].j EXCEPT !.phase = "rolling_back"] IN
  /\ agent[n].pc = "stage"
  /\ Fault
  /\ SetJournal(n, j)
  /\ SetAgent(n, [agent[n] EXCEPT !.pc = "undo", !.j = j])
  /\ UNCHANGED <<control, wire, conf, lease, history>>

(* ... or the journal cannot be written: nothing is undone, no lease is        *)
(* spawned, and the journal goes on saying applying.                          *)
AgentStageStops(n) ==
  /\ agent[n].pc = "stage"
  /\ Fault
  /\ \/ UNCHANGED conf
     \/ conf' = [conf EXCEPT ![n] = @ \ {RevisionOf[agent[n].j.op]}]
  /\ Finish(n, FALSE)
  /\ UNCHANGED <<control, online, toAgent, journal, lease, history>>

(* commit: whatever is staged there; read and check ...                       *)
AgentCommits(n) ==
  LET j == journal[n] IN
  /\ Ready(n, {"commit"})
  /\ Take(n)
  /\ IF j # None /\ j.phase = "staged"
     THEN /\ SetAgent(n, [pc |-> "commit", cmd |-> Head(toAgent[n]), j |-> j])
          /\ UNCHANGED replies
     ELSE Answer(n, Head(toAgent[n]), FALSE) /\ UNCHANGED agent
  /\ UNCHANGED <<control, online, conf, journal, lease, faults, history>>

(* ... and write what was read, or fail to.                                   *)
AgentCommitted(n) ==
  /\ agent[n].pc = "commit"
  /\ SetJournal(n, [agent[n].j EXCEPT !.phase = "prepared"])
  /\ Finish(n, TRUE)
  /\ UNCHANGED <<control, online, toAgent, conf, lease, faults, history>>

AgentCommitFails(n) ==
  /\ agent[n].pc = "commit"
  /\ Fault
  /\ Finish(n, FALSE)
  /\ UNCHANGED <<control, online, toAgent, conf, journal, lease, history>>

(* recover: whatever the journal says, whoever asks.                          *)
AgentRecovers(n) ==
  LET j == journal[n] IN
  /\ Ready(n, {"rollback", "teardown", "reconcile"})
  /\ Take(n)
  /\ IF j = None
     THEN Answer(n, Head(toAgent[n]), TRUE) /\ UNCHANGED <<agent, owner>>
     ELSE /\ SetAgent(n, [pc |-> "undo", cmd |-> Head(toAgent[n]), j |-> j])
          /\ owner' = [owner EXCEPT ![n] = None]
          /\ UNCHANGED replies
  /\ UNCHANGED <<control, online, conf, journal, lease, faults, stagedBy,
                 abandoned>>

-----------------------------------------------------------------------------
(* rollback, in the command loop or in a lease task: the commands of the       *)
(* journal that was read, then the removal of the journal that is there.      *)

Undo(n, o) == conf' = [conf EXCEPT ![n] = @ \ {RevisionOf[o]}]

(* The interface went to another revision meanwhile: its offloads cannot be   *)
(* restored.                                                                 *)
Elsewhere(n, o) ==
  \E r \in conf[n] : r # RevisionOf[o] /\ NicOf[r] = NicOf[RevisionOf[o]]

(* A command is given up, or the journal cannot be read or removed.           *)
GivesUp(n, o) ==
  /\ Fault \/ (Elsewhere(n, o) /\ UNCHANGED faults)
  /\ UNCHANGED conf \/ Undo(n, o)
  /\ abandoned' = [abandoned EXCEPT ![n] = TRUE]

AgentUndoes(n) ==
  /\ agent[n].pc = "undo"
  /\ Undo(n, agent[n].j.op)
  /\ SetAgent(n, [agent[n] EXCEPT !.pc = "remove"])
  /\ UNCHANGED <<control, wire, journal, lease, faults, history>>

AgentGivesUp(n) ==
  /\ agent[n].pc = "undo"
  /\ GivesUp(n, agent[n].j.op)
  /\ Finish(n, FALSE)
  /\ UNCHANGED <<control, online, toAgent, journal, lease, stagedBy, owner>>

AgentRemoves(n) ==
  /\ agent[n].pc = "remove"
  /\ SetJournal(n, None)
  /\ Finish(n, agent[n].cmd # None /\ agent[n].cmd.what # "stage")
  /\ UNCHANGED <<control, online, toAgent, conf, lease, faults, history>>

-----------------------------------------------------------------------------
(* enforce_lease *)

SetLease(n, q, s) == lease' = [lease EXCEPT ![n][q] = s]

Overdue(n, o) ==
  /\ journal[n] # None
  /\ journal[n].op = o
  /\ journal[n].phase \in {"applying", "staged"}

(* The lease is over: its own operation, while it is not committed.           *)
LeaseExpires(n, q) ==
  /\ lease[n][q].pc = "armed"
  /\ IF Overdue(n, lease[n][q].op)
     THEN /\ SetLease(n, q, [lease[n][q] EXCEPT !.pc = "undo"])
          /\ owner' = [owner EXCEPT ![n] = None]
     ELSE SetLease(n, q, NoLease) /\ UNCHANGED owner
  /\ UNCHANGED <<control, wire, conf, journal, agent, faults, stagedBy,
                 abandoned>>

LeaseUndo(n, q) ==
  /\ lease[n][q].pc = "undo"
  /\ Undo(n, lease[n][q].op)
  /\ SetLease(n, q, [lease[n][q] EXCEPT !.pc = "remove"])
  /\ UNCHANGED <<control, wire, journal, agent, faults, history>>

(* Nobody learns that the rollback failed.                                    *)
LeaseGivesUp(n, q) ==
  /\ lease[n][q].pc = "undo"
  /\ GivesUp(n, lease[n][q].op)
  /\ SetLease(n, q, NoLease)
  /\ UNCHANGED <<control, wire, journal, agent, stagedBy, owner>>

LeaseRemoves(n, q) ==
  /\ lease[n][q].pc = "remove"
  /\ SetJournal(n, None)
  /\ SetLease(n, q, NoLease)
  /\ UNCHANGED <<control, wire, conf, agent, faults, history>>

-----------------------------------------------------------------------------
(* Faults *)

LoseStream(n) ==
  /\ online' = online \ {n}
  /\ toAgent' = [toAgent EXCEPT ![n] = << >>]
  /\ replies' = {r \in replies : r.n # n}

Disconnect(n) ==
  /\ n \in online
  /\ Fault
  /\ LoseStream(n)
  /\ UNCHANGED <<control, agents, history>>

(* The process dies, with its command and its lease tasks ...                 *)
AgentCrash(n) ==
  /\ Fault
  /\ LoseStream(n)
  /\ SetAgent(n, [Free EXCEPT !.pc = "down"])
  /\ lease' = [lease EXCEPT ![n] = [q \in ApplyReq |-> NoLease]]
  /\ UNCHANGED <<control, conf, journal, history>>

(* Mutant of AgentStarts: a prepared journal is undone as well.                *)
AgentStartsAfresh(n) ==
  LET j == journal[n] IN
  /\ agent[n].pc = "down"
  /\ SetAgent(n, IF j # None THEN [pc |-> "undo", cmd |-> None, j |-> j]
                              ELSE Free)
  /\ UNCHANGED <<control, wire, conf, journal, lease, faults, history>>

(* ... and starts again: what is not prepared is undone first, and a failure   *)
(* to do so is logged (recover_on_startup).                                   *)
AgentStarts(n) ==
  LET j == journal[n] IN
  /\ agent[n].pc = "down"
  /\ SetAgent(n, IF j # None /\ j.phase # "prepared"
                 THEN [pc |-> "undo", cmd |-> None, j |-> j]
                 ELSE Free)
  /\ UNCHANGED <<control, wire, conf, journal, lease, faults, history>>

Reconnect(n) ==
  /\ n \notin online
  /\ agent[n].pc = "idle"
  /\ online' = online \cup {n}
  /\ UNCHANGED <<control, toAgent, replies, agents, faults, history>>

Busy(q) == req[q].pc \notin {"idle", "done", "failed", "dropped", "quarantined"}

(* The client of a request goes away, and its handler with it.                *)
RequestDropped(q) ==
  /\ Busy(q)
  /\ Fault
  /\ SetReq(q, [req[q] EXCEPT !.pc = "dropped", !.sent = FALSE])
  /\ UNCHANGED <<opStatus, plans, prepared, activeRun, starting, wire, agents,
                 history>>

(* Control restarts; rows of operations stay as they are.                     *)
ControlRestart ==
  /\ Fault
  /\ req' = [q \in Req |-> IF Busy(q) THEN [req[q] EXCEPT !.pc = "dropped",
                                                          !.sent = FALSE]
                                      ELSE req[q]]
  /\ activeRun' = None
  /\ starting' = None
  /\ online' = {}
  /\ toAgent' = [n \in Node |-> << >>]
  /\ replies' = {}
  /\ UNCHANGED <<opStatus, plans, prepared, agents, history>>

-----------------------------------------------------------------------------
Exchange(q) == Send(q) \/ Receive(q) \/ Timeout(q)
ApplySteps(q) == ApplyMarks(q) \/ ApplyCompletes(q) \/ ApplyPrepares(q)
                   \/ ApplyFails(q)
AgentStep(n) ==
  \/ AgentStages(n) \/ AgentRefuses(n) \/ AgentStaged(n)
  \/ AgentStageFails(n) \/ AgentStageStops(n)
  \/ AgentCommits(n) \/ AgentCommitted(n) \/ AgentCommitFails(n)
  \/ AgentRecovers(n) \/ AgentUndoes(n) \/ AgentGivesUp(n) \/ AgentRemoves(n)
  \/ AgentStarts(n)
LeaseStep(n, q) == LeaseExpires(n, q) \/ LeaseUndo(n, q) \/ LeaseGivesUp(n, q)
                     \/ LeaseRemoves(n, q)

Next ==
  \/ \E o \in Op : PlanBegin(o) \/ PlanNode(o)
  \/ \E q \in Req : Exchange(q) \/ RequestDropped(q)
  \/ \E q \in ApplyReq : (\E o \in Op : ApplyBegin(q, o)) \/ ApplySteps(q)
  \/ \E q \in TeardownReq :
       (\E r \in Revision : TeardownBegin(q, r)) \/ TeardownEnds(q)
  \/ \E q \in ReconcileReq : \E n \in Node : ReconcileBegin(q, n)
  \/ \E r \in Revision : StartBegin(r)
  \/ StartEnds \/ RunEnds
  \/ \E n \in Node : AgentStep(n) \/ Disconnect(n) \/ AgentCrash(n)
                       \/ Reconnect(n)
  \/ \E n \in Node, q \in ApplyReq : LeaseStep(n, q)
  \/ ControlRestart

Spec == Init /\ [][Next]_vars

-----------------------------------------------------------------------------
(* Safety *)

(* An interface is borrowed by one revision at a time: of two plans made       *)
(* while it was free, whose Stages may be interleaved with lost answers,      *)
(* timeouts, leases and failing undos, one is refused.                        *)
InterfaceHeldOnce ==
  \A n \in Node : \A r1, r2 \in conf[n] : NicOf[r1] = NicOf[r2] => r1 = r2

(* "If all Nodes staged successfully, Control commits them": a Commit that is  *)
(* on its way or being carried out, however late, is of a request whose Stage *)
(* every node carried out.                                                    *)
AllStaged(c) == \A i \in DOMAIN NodesOfOp(c.op) : c.q \in stagedBy[NodesOfOp(c.op)[i]]
CommitsFollowStages ==
  \A n \in Node :
    /\ \A k \in DOMAIN toAgent[n] :
         toAgent[n][k].what = "commit" => AllStaged(toAgent[n][k])
    /\ agent[n].pc = "commit" => AllStaged(agent[n].cmd)

Committed(n, o) ==
  journal[n] # None /\ journal[n].op = o /\ journal[n].phase = "prepared"

(* What is recorded as completed was committed by every node and is in place   *)
(* there, through lost answers, timeouts, crashes and restarts, as long as    *)
(* the request has the node to itself and no undo was given up there.         *)
CompletedIsInPlace ==
  \A q \in ApplyReq, n \in Node :
    LET o == req[q].op IN
    req[q].pc \in {"prepare", "done"} /\ owner[n] = q =>
      Committed(n, o) /\ (abandoned[n] \/ RevisionOf[o] \in conf[n])

-----------------------------------------------------------------------------
(* Liveness: handlers and Agents run, lost commands time out, leases expire,  *)
(* and an Agent connects again.  Requests, runs and faults are never fair.    *)

FairSpec ==
  /\ Spec
  /\ \A q \in ApplyReq : WF_vars(Exchange(q)) /\ WF_vars(ApplySteps(q))
  /\ \A n \in Node : WF_vars(AgentStep(n)) /\ WF_vars(Reconnect(n))
  /\ \A n \in Node, q \in ApplyReq : WF_vars(LeaseStep(n, q))

Staged(n) == journal[n] # None /\ journal[n].phase = "staged"

(* A staged operation is committed or undone, whatever became of the request,  *)
(* of Control and of the Agent, unless the undo itself was given up: nobody   *)
(* tries it again.                                                            *)
UncommittedIsReleased ==
  \A n \in Node : Staged(n) ~> ~Staged(n) \/ abandoned[n]
=============================================================================
