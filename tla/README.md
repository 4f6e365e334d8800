# Verification of proxy-tester

proxy-tester drives load through a proxy between two endpoints.  One **Control**
process (`crates/control`) owns the database, the HTTP API and the run
lifecycle; any number of **Agent** processes (`crates/agent`) connect to it over
a bidirectional gRPC stream and run the client endpoint, the server endpoint, or
both.  This directory holds TLA+ modules of that system, the TLC configurations
that check them, and proofs for TLAPS.

Paths below are relative to the repository's `crates/`.

## Inventory

| Component | State | Operations | Interacts through |
|---|---|---|---|
| Run orchestration (`control/src/orchestration.rs`, `main.rs`, `repository/runs.rs`) | `active_run` (a mutex held during the whole start), `run_agents`, `expected_endpoints`, `completed_agents`, `pending_acks`, the rows of `runs` | `start_run`, `stop_run`, `set_run_paused`, `finish_run`, `schedule_disconnect_failure`, start-up recovery | HTTP handlers, session tasks, grace timers; all share the maps and the mutex |
| Agent session (`main.rs` `agent_stream`) | registered session and generation per Agent | hello, heartbeat, acknowledgement, event, stream end | messages of one Agent, in order |
| Agent command loop (`agent/src/main.rs`) | `prepared` and `active_run` maps of one connection, the last 256 command ids, artifacts being received | Prepare, Start, Stop, SetPaused, Preflight, ArtifactChunk, Network | commands of Control in order; two atomics shared with the jobs |
| Endpoint jobs (`agent/src/runner.rs`, `workload/*`) | worker gate, counters, paused time | pacing, draining, reporting | `running` and `paused` flags, the `tx` of the connection that started the job |
| Network profiles (`network_orchestration.rs`, `repository/network_profiles.rs`, `agent/src/network.rs`) | profile revisions, operations and their plan token; the Agent's journal, namespaces and lease | plan, apply (stage, commit), teardown, rollback, reconcile, recover | Network commands and progress messages |
| Artifacts (`agent/src/artifact.rs`, `orchestration.rs` `send_artifacts`, `database.rs`, `repository/artifacts.rs`) | files, rows, temporary `.part` files | upload, transfer in chunks, reference check, clean-up | files on disk, rows, ArtifactChunk messages |
| Scenario domain (`domain/src/lib.rs`) | none | `validate`, `load_at`, `effective_duration_secs`, address ranges | called by Control and by the endpoint jobs |
| Capture and replay (`capture/src/lib.rs`, `agent/src/replay.rs`, `workload/tcp.rs`) | the flows of a capture; per connection the flow, the turn and the bytes read | reassembly, turns, transactions, plan, replay, flow detection | Control analyses at upload, both endpoints at Prepare; the bytes of a replayed connection |
| Telemetry (`agent/src/telemetry.rs`) | counters, window of active seconds | snapshot, record | atomics shared with the workers |
| HTTP surface, wire conversions, frontend, packaging | | | not modelled |

What is hard: one mutex is held across four network round trips while the tasks
that deliver the answers also need it; every handler reads shared state, awaits,
and acts on what it read; status UPDATEs are unconditional; connections break
and come back with the Agent's per-connection state gone but its jobs running;
either process may restart; an HTTP client may go away and take its handler with
it.  The full list with lines is `hazards` in `PROJECT.json`.

What makes each component correct:

- *Orchestration*: one run at a time; no row that reads as unfinished without
  somebody who will end it; a verdict is not touched again; `completed` means
  both endpoints finished; an ended run's endpoints get a Stop; the slot is
  always freed.
- *Agent*: a Start starts the run it names, once; endpoints that generate load
  on a connection belong to one run.
- *Network*: a Commit only after every node staged; what is recorded as completed
  is in place on both; what was changed is undone or covered by the journal, and
  what is staged is committed or undone.
- *Artifacts*: what is prepared has the advertised digest; a start whose
  transfer fails lets the next one in; a row that is served has its file, and
  what a scenario or a run names is kept.
- *Load*: once the load is paused or over, a virtual client begins at most what
  had passed its gate before; the pacing follows the profile; the run ends and
  its last report is complete.
- *Capture and replay*: what is replayed is what was said, whatever the capture
  missed or saw twice; both endpoints play the same flow, and neither is left
  waiting.

## Modules

| Module | What it is |
|---|---|
| `RunControl` | the run lifecycle: Control, session tasks, wire, Agents, jobs |
| `RunSlot` | abstract specification: what the lifecycle promises about the one slot |
| `MCRunControl` | model values' symmetry for TLC |
| `RunControl_proofs` | its types, `NoRunIsLeftBehind`, and that it implements `RunSlot` |
| `RunEndpoints_proofs` | the other safety properties of the lifecycle: what the endpoints of a run do |
| `NetworkJournal` | the network manager of one Agent, command by command: journal, rollback, lease, restart |
| `MCNetworkJournal` | its endpoints for TLC |
| `NetworkJournal_proofs` | its types and safety properties while an operation ends within its lease |
| `NetworkApply` | plan, apply, teardown and reconcile of Control over several Agents |
| `MCNetworkApply` | small sets of profiles for TLC |
| `NetworkApply_proofs` | its types and safety properties: one borrower per interface, a Commit follows the Stages, what is completed is in place |
| `ArtifactTransfer`, `MCArtifactTransfer` | `send_artifacts` and `accept_chunk`: artifacts on their way to the Agents of a start |
| `ArtifactTransfer_proofs` | its types, what is prepared was verified, Agents bail only for cause |
| `ArtifactStore`, `MCArtifactStore` | uploads, references, retention and clean-up: rows and files of Control |
| `ArtifactStore_proofs` | a served row has its file, a referenced artifact is kept |
| `ScenarioDomain` | the pure parts of scenarios and network profiles |
| `LoadRunner`, `MCLoadRunner` | a client endpoint generating load, on top of `ScenarioDomain` |
| `LoadRunner_proofs` | late operations had passed their gate, the last report, the load profile, the source addresses |
| `CaptureReplay`, `MCCaptureReplay` | from captured packets to turns, plans and replayed connections |
| `CaptureReplay_proofs` | its types, what is kept of a flow, that its turns are those of the conversation, that both ends of a replay play one conversation |

### RunControl

One action is one section of the code between two awaits at which another task
can observe or change what it shares.  HTTP requests are one-shot processes
(`StartReq`, `StopReq`, `PauseReq`); a start request also names the run it
creates, as the fresh UUID does.

| TLA+ | code |
|---|---|
| `startLock` | the `active_run` guard `start_run` keeps from line 185 until it returns |
| `activeRun` | the value under that mutex |
| `tracked`, `place` | keys of `run_agents`/`expected_endpoints`, and the Agents behind them |
| `completed` | `completed_agents` |
| `session[a]` | generation registered in `agents`, 0 when absent |
| `op[q]` | where a request's handler is, and the commands it will send (`plan`) |
| `task[a][g]` | the session task of connection `g`, and then its grace timer |
| `status`, `finished` | `runs.status`, and whether `finished_at` was written |
| `toAgent`, `toControl` | the two directions of the streams, in order |
| `conn`, `lastGen`, `prepared` | the Agent's connection and its locals |
| `job[r][o]` | an endpoint job: its flags and the connection whose `tx` it holds |

A handler that takes the `active_run` mutex has `startLock = None` as its guard.
`command_agent` is `SendCommand` followed by `ReceiveAck` or `CommandTimeout`;
`finish_run` is two actions, the row and then the memory
(`StopFinishes`/`StopClears`, `FinishWrites`/`FinishClears`);
`schedule_disconnect_failure` is three (`CheckParticipant`, `WriteDegraded`,
`GraceExpires`).  Faults, at most `MaxFaults` of them, are a broken connection on
either side, an Agent crash, a restart of Control, and an HTTP client that goes
away: axum then drops the handler's future where it awaits, and the mutex guard
with it.

Abstractions:

- database errors, `last_seen_ms` staleness, participant and event rows,
  heartbeats and telemetry are left out; no guard that is modelled reads them
  except staleness, which only refuses a start;
- artifact transfer before Prepare is a prepare that fails or does not;
- acknowledgements of Stops nobody waits for are not put on the wire;
- a Stop to both endpoints of one Agent is one command (`endpoint_role` 0), and
  the two identical Stops a failed start sends to one Agent are one;
- the error event and the `running = false` after it are one step;
- a send on a channel whose reader is gone is an error at once; before the
  transport notices, the code would wait for the timeout, with the same outcome;
- the three map removals of `finish_run` happen with the clearing of
  `active_run`; a request dropped between the two steps of the success path
  after `active_run` was set (possible only when a map lock is contended) is not
  modelled.

### RunSlot

`slot`, `started`, `created`, `ended`: Control has one slot; a run takes it at
most once; a run that was started leaves it only with its end on record; a
restart empties it and records every open end.  The refinement mapping is the
instance `Slot` in `RunControl`: the slot is the run `start_run` holds the mutex
for, and afterwards the mutex's value.

### NetworkJournal

`agent/src/network.rs` moves the test interfaces into namespaces with `ip` and
`ethtool`, under a journal in `network-state.json`.  One action is one command or
one journal write; the process may crash between any two.

| TLA+ | code |
|---|---|
| `netns`, `where`, `link`, `addrs` | the kernel: namespaces, where the interface is, its attributes and addresses |
| `own` | what the operator configured (history; no code reads it) |
| `journal` | the file: operation, phase, and the inventory the rollback commands were made from (`saved`) |
| `plan` | the inventory in the plan Control holds, with which `apply` compares its own |
| `task[Loop]` | the command loop, in an apply, a commit, a recover or the recovery of a start-up |
| `task[op]` | the lease task spawned for operation `op`, which works beside the command loop |
| `abandoned` | history: was an undo given up since the last Stage? |

`Commands`, `Restores` and `Deletes` are the lists `plan` writes: their order is
the code's, since it decides whether a rollback can succeed.  What `ip` and
`ethtool` do to the kernel (`Possible`, `Run`, `Refused`) is external: a move to
another namespace takes the interface down and drops its addresses, deleting the
primary address deletes the secondary ones, a driver refuses segmentation
offload without checksum offload, and a namespace takes a borrowed virtual
interface with it.  `RollbackRuns` counts "does not exist" as undone, as
`execute_rollback` does; `RollbackFails` gives a command up after three attempts.

A read, write or removal of the journal may fail like a command.  In an apply
(`ApplyStops`) the Stage then fails at once: nothing is undone, the journal goes on
saying `applying`, and no lease task is spawned.  In a commit nothing changes; a
lease task and the recovery of a start-up leave everything as it is, and nobody
learns of it; at the end of a rollback the journal stays.

Abstractions: operator-managed endpoints have no commands and are left out; an
address is its number in the pool; the completed-command list of the journal is
not kept, as no code reads it.  `Expiry` says whether an operation may outlive
its lease of 180 seconds.  Where it is `FALSE` (`undo`) a lease task wakes only when
its operation was committed or undone, and what is neither is not followed beyond
its lease; `lease_live` sets it to `TRUE`, to show what becomes of the promise that a
lease undoes what was not committed.

### NetworkApply

The same protocol seen from Control, with several nodes.  On an Agent two kinds
of task touch the interfaces: the command loop, which takes one command at a time,
and a lease task for every Stage it carried out.  They share the one journal of the
node without a lock.  A step of theirs ends where the code awaits the journal file
or the programs it runs, as far as another task can tell (`NetworkJournal` has the
single commands); a step of Control is what it does between two awaits.

| TLA+ | code |
|---|---|
| `opStatus`, `plans` | a row of `network_operations`: its status, and the inventories of its `plan_json` |
| `prepared` | revisions with status `prepared` |
| `activeRun`, `starting` | the `active_run` mutex: its value, and the revision of a start that holds it |
| `req[q]` | where the handler of an HTTP request is: phase, node, how many nodes it staged, whether its command was sent |
| `online`, `toAgent`, `replies` | sessions, commands in order, progress messages |
| `conf[n]`, `journal[n]` | what is in a namespace of node `n`, and its journal |
| `agent[n]` | the command loop: its command, the journal it read, and whether it stages, commits, undoes, removes the journal, or is down |
| `lease[n][q]` | the lease task of the Stage of request `q`: armed, undoing, removing the journal |
| `stagedBy[n]` | history: requests whose Stage the node carried out |
| `owner[n]` | history: the request that has the node to itself, because its Stage was the last one there and no other request's command and no lease began to undo anything since |
| `abandoned[n]` | history: was an undo given up there since the last Stage? |

`command` is `Send` followed by `Receive` or `Timeout`; a timeout forgets the
command, which the Agent may still carry out.  `After` says where the handler
goes next: stage all, commit all, and `rollback_nodes` over the staged nodes when
one fails.  Its outcomes are dropped, as in the code.

A Stage is `AgentStages` (the comparison of the inventories, the journal and the
commands) and `AgentStaged` (the last write, and the lease task), or it is refused,
fails and undoes everything, or stops because a journal write failed
(`AgentStageStops`: nothing is undone and there is no lease task).  A commit reads
the journal (`AgentCommits`) and writes back what it read (`AgentCommitted`); a lease
may expire in between.  `AgentCommits` and `AgentRecovers` look at the journal the
node has, whichever operation it is of.  A rollback, in the command loop or in a
lease task, runs the commands of the journal it read and then removes the journal
that is there; it may be given up (`GivesUp`), with the answer `false` to a command,
and without anybody noticing in a lease task or at start-up.  A crash ends the
command loop with its lease tasks; `AgentStarts` undoes what is not committed before
the Agent connects, and if that is given up the Agent connects all the same.

`StartBegin` is the check `start_run` makes: the status of the revision
(`orchestration.rs:189`).  Whether the revision is in place is not looked at; the
preflight is a request of its own, and answers a managed path with Ok
(`agent/src/main.rs:462`).

Abstractions: an inventory is the set of interfaces that are away; planning reads
one node at a time and each reading is one step (it changes nothing and a lost
reading only ends the plan); the token is the operation, and its five minutes are
not modelled (a plan may be applied at any time, or never); the lease may expire
at any time after the Stage; a revision has one interface per node, and an undo
takes it back or leaves it.

### ArtifactTransfer

The part of `start_run` that `RunControl` takes as one step: under the
`active_run` mutex, `send_artifacts` reads each artifact the scenario names and
sends it in chunks to each distinct Agent, and Prepare follows on the same
stream.

| TLA+ | code |
|---|---|
| `lock`, `req[q]` | the mutex; where `start_run` stands: which Agent (`ix`), which artifact, which offset, the cloned sessions (`gens`) |
| `link[g]` | a connection and its bounded channel: `up` as the Agent sees it, `open` as Control does |
| `incoming`, `completed` | `incoming_artifacts` and `completed_artifacts` of the connection |
| `parts[g]` | temporary files on the Agent's host, which outlive the connection |
| `damage` | a stored file cut short or altered under its row |
| `ended` | history: with which error a connection's loop ended |

`Chunk` is one `accept_chunk` with the `finish` it may call; every error of it
ends `run_connection` (`Bail`), so that the Agent's tables go and its temporary
files stay.  A `HashSet` of artifact ids has no order, hence the choice in
`FindArtifact`.  A send on a connection that broke, and whose stream Control has
not dropped yet, succeeds and is lost (`Sent`).

Abstractions: a chunk has one unit of a file or none; bytes are good or bad, and
the digest tells them apart; the fields of a chunk that repeat the row (size,
name, digest) cannot differ between chunks, as a row never changes; a file that
is missing altogether fails the start before anything is sent.

### ArtifactStore

`upload_artifact` between its awaits, the references of scenarios and runs, and
what `main` does before it serves: closing runs, `apply_retention`,
`cleanup_orphan_artifacts`.

| TLA+ | code |
|---|---|
| `rows`, `files`, `temps` | the `artifacts` table (one row per digest), `artifact_dir`, its `.upload-*` files |
| `old`, `run[r].state = "old"` | older than the retention |
| `upload[u]` | where a handler is: body, analysis, look for the file, rename or remove, INSERT, SELECT |
| `phase`, `todo`, `swept` | where `main` is; the orphans listed; the one whose file is gone and whose row is not |

A file is named by its digest, so a file is its content.  `Crash` may come
between any two steps and leaves rows, files and temporary files as they are.

### ScenarioDomain and LoadRunner

`ScenarioDomain` has `load_at` with its rounding, `effective_duration_secs`,
`maximum_virtual_clients`, and the validation of address pools, with addresses of
`AddressBits` bits.  `LoadRunner` is one client endpoint on a valid scenario and
profile.

| TLA+ | code |
|---|---|
| `job`, `elapsed`, `load` | `run_client_concurrency`'s loop (`check`, `sleep`), its joins, then `run_job`; `active_elapsed`; what `load_at` returned |
| `running`, `paused`, `generating` | the atomics shared by the command loop, the pacing loop and the workers |
| `worker[w].pc` | a virtual client: its loop, connect, tunnel, TLS, the gate of a transaction, held by a pause, an operation, waiting |
| `worker[w].queued`, `.flight` | HTTP/2 requests that passed the gate and wait in `FuturesUnordered` for their first poll; those in flight |
| `worker[w].launched` | transactions of the connection that passed the gate, where their number is limited |
| `late[w]` | history: operations begun since the virtual client had to rest |
| `attempted`, `source` | the counter that picks the source address, and the address picked |
| `report`, `unreported` | the metric task; history: did a counter change after its last reading |
| `silent` | the peer keeps its connections and neither reads nor answers |

A step is what a task does between two reads of a flag that another task may
change.  `PacerTicks` lets a round of the pacing loop last one interval or two.
On HTTP/2 the inner loop looks at the gate once per request and only queues its
future (`WorkerLaunches`); the futures are polled where the worker waits for an
answer, at once or, beyond the peer's limit of streams, whenever one is free
(`WorkerSends`), and nobody looks at the gate again.  So a virtual client that has to
rest begins as many operations as had passed the gate: one over TCP and HTTP/1, up
to `max_concurrent_streams` over HTTP/2 (`Allowance`).

Abstractions: headers, frames, payload sizes and think time are left out; a
payload larger than the buffers (`big`) is what lets `write_all` wait; a pause
shorter than a round counts as active time, as in the code; the counters are one
Boolean, whether anything is unreported.

### CaptureReplay

| TLA+ | code |
|---|---|
| `capture`, `passed` | the real traffic: flows with their initial sequence numbers and packets, and how far they have got |
| `table` | `flow_order` and `flows` of `analyze_pcap`: events in the order they were captured |
| `kept` | what `finish_analysis` keeps of a flow: both streams and the turns |
| `plan[side]` | the `ReplayPlan` of an endpoint |
| `connections`, `flow` | the round robin over the plan's flows |
| `state`, `turn`, `played`, `received` | `replay_client` and `replay_server_detect` of one connection |
| `transit`, `hung` | the system under test |

The first phase captures: a packet may be missed, seen again later, or sent again
together with its successor, and the capture may start late or end early.
`Reassemble` and `BuildTurns` are `reassemble` and `build_turns`, with sequence
numbers that wrap at `SeqBits` bits and are sorted as plain numbers.
`CaptureAssumption` types the real traffic, `HttpAssumption` says how a target is
rewritten: a path becomes an absolute target and that the same path again.  The second
phase replays, a connection at a time; the system under test forwards, turns
absolute request targets into paths, is slow, or hangs.

Abstractions: a byte is a letter; an HTTP message is as long as its first letter
says; bytes on the wire are not split further than the reader's one byte at a
time; a `write_all` does not wait; `Messages` stands for the parser of
`split_http_messages`; TLS is a letter; deadlines are long, so that a read that
times out while bytes are still coming is marked `disturbed`.

## Runs

Bounds of `RunControl`: `MaxGen` connections per Agent, `MaxFaults` faults, and
the requests in the configuration.  Two Agents are enough because a run has two
endpoints; a single Agent (`runs`, `requests`) covers the case where both
endpoints share a connection.  One fault is enough to separate any two steps; two
generations, which every run has, are the least that let a reconnect race the end
of the old stream.  `runs` has two starts, `requests` a start and a pause, `faults` a
start and a stop, `reconnect` a start.

Bounds of `NetworkJournal`: `undo` has both endpoints of a profile on one Agent
with two addresses each (a primary and a secondary), three failures, the least at
which a rollback gives a command up, and a crash; `lease_live` has one endpoint
with one address, three failures and no crash.
Bounds of `NetworkApply`: `apply` has one operation over two nodes, an apply, a
teardown and a fault; `compete` has two operations on two revisions that want one
interface of one node, two apply requests, a reconcile and a fault.  A fault is a
failing command or journal access, a slow command, a crash, a break, a restart or a
dropped request; expiring leases need none.  The symmetry of `compete` exchanges the
requests, and the revisions together with their operations.

Bounds of `ArtifactTransfer`: two starts that share a capture of two chunks, one
with a payload besides; a channel of two messages, so that sends wait; two
connections per Agent and two faults, the least that let an interrupted transfer
meet its own leftovers.  `ArtifactStore`: two contents of which one is a capture,
three uploads (two may meet on the same bytes with different kinds), a scenario,
a run, and two faults, so that a crash in a clean-up is followed by another.
`LoadRunner`: at most two virtual clients and two stages, rounds of half a second,
two events (stop, pause, resume or a hanging peer), five scenarios that have each
protocol, two HTTP/2 streams, TLS, a proxy and large payloads between them, and every profile of two
clients and two servers around a subnet boundary of a 4-bit address space.
`CaptureReplay`: 4-bit sequence numbers, so that a flow wraps, six captures of one
or two flows, three capture faults, and three connections, one more than there
are flows.

Deadlock checking is off: requests are one-shot, runs and captures end, and the
bounds let the system stop.

| Run | Shows |
|---|---|
| `runs` | two starts compete for one Agent that may reconnect: types, one run per connection, the slot refinement, Start starts what it names |
| `requests` | a start and a pause on one Agent: `start_run` returns although the event handlers wait for its mutex, an active run leaves the slot unless it is paused or its Agent was connected again too soon, nothing is left behind, a settled run stays settled, a failed run's endpoints end |
| `faults` | start and stop over two Agents: completion counts both endpoints, an ended run is stopped wherever a Stop can arrive, an active run has both endpoints, nothing is left behind, a settled run stays settled |
| `reconnect` | (violation) a participant's connection breaks, the Agent connects again before Control sees the end of the old stream, and the run is neither degraded nor ended |
| `undo` | an operation on two interfaces, three failing commands or journal writes, a crash: what was changed is undone or the journal covers it, no interface is lost, no rollback fails by its own order, what is committed is completely staged |
| `lease_live` | (violation) an operation that is not committed stays for ever: its Stage could not write the journal and left no lease task, or the lease's rollback was given up |
| `apply` | a Commit follows the Stages of both nodes, what is completed is committed and in place on a node the request has to itself, and nothing stays staged unless its undo was given up, whatever becomes of the request, Control, the Agents and a teardown beside it |
| `compete` | two operations want one interface: it is borrowed once, and what is completed is in place on a node the request has to itself |
| `transfer` | what is prepared has its bytes, an Agent ends its connection only for a cause, a start gives the mutex back and succeeds where nothing fails |
| `store` | a served row has its file, what is referred to is kept, an upload is answered with a row of its bytes and kind |
| `load` | what begins late had passed its gate before, the last report is complete, the pacing follows the profile, source addresses are usable, the run ends |
| `replay` | a kept stream is one piece of what was sent, turns are the conversation, both endpoints read what is planned, only a disturbed replay fails, every replay ends |

`TypeOK` is a run's invariant in `runs` and `compete`.  It is proved for every
instance of `RunControl`, `NetworkApply`, `ArtifactStore`, `ArtifactTransfer`,
`NetworkJournal` and `CaptureReplay`; in `LoadRunner` it documents the state.

Two runs show a promise of the documents broken by the code; where the other runs
stop, the models show more behaviour that the documents do not promise, or promise
differently.

Runs:

- `reconnect`: an Agent tries again every two seconds.  One that is back before
  Control noticed the broken stream replaces its session; the old stream's end then
  finds another generation (`control/src/main.rs:1297`) and schedules nothing, so
  that the run is not degraded, although `docs/DISTRIBUTED_CONTROL.md:7` says that it
  becomes `degraded` and then fails.  The endpoint's reports went to the old
  connection and are lost, so that the run stays in the slot until it is stopped.
  `ActiveRunIsReleased` exempts this run (`Replaced` and `Unwatched`) and a run that
  stays paused.
- The UPDATE to `degraded` and that of a pause come after the check that the run is
  active; they may overwrite a verdict, and nothing repairs the row
  (`NoRunIsLeftBehind` exempts a run that was finished before).  `stop_run` records
  `cancelled` whether or not a Stop was acknowledged.

Network profiles:

- `lease_live`: `docs/NETWORK_CONFIGURATION.md:18` says that an uncommitted lease
  expires and the Agent rolls it back.  A Stage whose journal write fails
  (`network.rs:604`, `609`, `612`) undoes nothing and spawns no lease task
  (`agent/src/main.rs:411`); the lease task drops the outcome of its rollback
  (`network.rs:633`), and so does start-up but for a log line
  (`agent/src/main.rs:124`).  Only a Rollback, Teardown or Reconcile, or the next
  start of the Agent, tries again.
  `UncommittedIsReleased` is about what was staged and exempts a node where an undo
  was given up (`abandoned`).
- The lease task and the command loop share the journal.  A lease that expires
  between the read and the write of a commit undoes what the commit records as
  prepared, and the node acknowledges the Commit all the same
  (`docs/NETWORK_CONFIGURATION.md:20` lets a committed configuration survive until
  Teardown or Reconcile); the end of its rollback removes whatever journal is there.
  `CompletedIsInPlace` stops there: a lease that begins to undo takes the node from
  its `owner`.  `undo` keeps the operation within its lease.
- Another request takes the node away as well.  A teardown or a reconcile between
  two commits undoes what was committed, and the apply goes on to `completed` and
  `prepared`; a reconcile undoes a node's configuration and leaves the revision
  `prepared`.  A late Commit or Rollback of an older operation meets the journal of a
  newer one, since `commit` looks only at the phase of the journal it finds and
  `recover` at nothing: so the first operation's Commit may commit the second.
- A failed operation may stay where a node had committed it and was away when the
  rollback was due (`docs/NETWORK_CONFIGURATION.md:17`: "Any stage or commit failure
  requests rollback from every staged Node"): the outcomes of `rollback_nodes` are
  dropped.
- Two requests with one token may both apply, since its status is read and written
  in two statements (`network_orchestration.rs:166`).  A node refuses the Stage of
  the second while it holds the first, and the row ends as `failed` or `completed` by which of the two
  writes last.
- A teardown looks at `active_run` once, and a run may start under it
  (`docs/NETWORK_CONFIGURATION.md:34`: "Finish all runs before teardown").
- `compete` has revisions that share an interface.  With two interfaces on a
  node the second operation's journal replaces the first's: teardown of the
  first revision undoes the second, and nothing undoes the first.  The theorems
  about `NetworkApply` hold there too.
- `undo` has one operation on a node.  With a second, a Stage may follow a
  rollback that a crash interrupted after the commit, or that was given up: its
  journal then saves the half undone interfaces as if the operator had left them
  so (`network.rs:582`, `recover_on_startup` at `:636`).  `Recoverable` in
  `NetworkJournal_proofs` is what excludes it.  An undo that was given up leaves the
  phase in the journal, so that a late Commit of a half undone operation is
  accepted (`abandoned` in `CommitsWhatIsInPlace`).

Artifacts:

- A start that fails or is dropped in the middle of an artifact leaves it half
  received; the next start makes the Agent end its connection over it
  (`BailsOnlyForCause` names the case).  After a reconnect the temporary file is
  still there, `create_new` refuses it, and the transfer of that artifact fails
  until the file is gone.
- An upload that breaks off or is dropped leaves its temporary file.  A crash
  between removing an orphan's file and its row leaves the row without a file;
  the clean-up of the next start-up removes it, as long as the retention stays
  positive.

Load:

- HTTP/2 connections do not look at the pause, and what they queued is begun after
  the end of the load.  A TLS handshake, an HTTP/2 request
  and a `write_all` have no deadline: a peer that hangs keeps the run from ending,
  also after a Stop (the third disjunct of `RunEnds`).
- The metric task may be between its last reading and its look at `running` when
  the load ends; the last counters are then not reported, though the comment at
  `agent/src/main.rs:609` waits for them (`missed` in `FinalReportIsComplete`).
  After a Stop the last report may come before the workers' end.
- A ramp as the last stage goes on past its target once its time is over.

Replay:

- A longer segment at a sequence number already seen is dropped with what it adds;
  as the last of its side it cuts the stream short unnoticed (`KeptIsOnePiece`
  says one piece, not the whole).
- A retransmission seen after the direction changed becomes a turn of its own, and
  a group with a gap in it becomes no turn, though the flow is kept
  (`TurnsAreTheConversation` asks for `InTurn`).
- A capture whose first packet of a flow comes from the server has the roles
  exchanged.  A wrapped sequence number only excludes a flow.
- Once the flow is known, no endpoint compares what it reads: only the count
  matters (`ReadsWhatIsPlanned` shows that the bytes are right all the same).

Fairness: every tokio task that can run does (weak fairness per request, per
session task, per Agent loop), timers fire, a connection one side left is
noticed by the other, a draining job joins its workers and reports.  Requests,
faults, reconnects and job errors are the environment's choice and are never
fair.  That a job's duration elapses is `ElapsingSpec` of `reconnect`, and the
hypothesis of `ActiveRunIsReleased`.  In `NetworkJournal` commands end, the lease
timer fires and a service manager restarts the Agent; in `NetworkApply` apply
handlers run and lost commands time out (`Exchange`, `ApplySteps`), the command loop
and the lease tasks run and leases expire (`AgentStep`, `LeaseStep`), and an Agent
connects again (`Reconnect`; its loop retries every two seconds).  In
`ArtifactTransfer` handlers and Agents run, an acknowledgement that was lost times
out and a dead stream is noticed; reconnecting is the environment's choice.  In
`LoadRunner` the pacing loop, every worker that is not waiting for a hung peer and
the metric task run; in `CaptureReplay` both endpoints of a connection run and
their reads time out.  `ArtifactStore` has safety properties only.

## Proofs

A theorem holds for any sets of Agents, nodes, requests, artifacts and so on, and
any bounds, from the named assumptions of its module.  Every safety property of
the passing runs is proved; where a theorem has a hypothesis
of its own, it is because the property is false without it, and the hypothesis
says when the code does keep it.  Each proof has an inductive invariant
(`IInv`, or a name of its own), one lemma or case per action, and ends in a
temporal step.

**RunControl_proofs.**  `NoRunIsLeftBehind` is not inductive: a late UPDATE may
revive a row only if the run was finished or is active, which depends on where
requests and session tasks stand.  `IInv` adds: every request past its check and
every session task past its check is about a run that is active or already
finished (`RequestsAreLate`, `SessionsAreLate`), the run in the slot is the one
whose start request is in progress and is not yet finished (`Starting`), the
active run is recorded (`Recorded`), and a run without a row has no endpoint
placed (`Placed`).  `SlotRefinement` maps each action to a step of `RunSlot`:
`StartBegin` to `Take`, `StartSucceeds` to `Begin`, `StartFails` to `Leave`, a
dropped start to `Abandon`, writing the end to `RecordEnd`, releasing to
`Leave` or a stutter, and `ControlRestart` to `Restart`.

**RunEndpoints_proofs.**  `EndpointInv` follows the four commands of one
`start_run` from the request (`StartsArePlanned`) over the stream (`CommandsAreKnown`,
`CommandsInSequence`) to the Agent (`PreparedIsKnown`, `JobsArePlaced`) and back
(`MessagesAreTrue`, `StartsProgress`).  The sequence is what makes a Start run the
run it names: on one stream no prepare of a role stands between a run's prepare
and its start while that run is in progress, since the mutex lets one start in at
a time.  `Connected` says which generation of a connection is the registered one,
`ReportsAreTrue` that what was counted was reported.  For `FinishedRunIsStopped` a
run is `Halted` when every endpoint that still runs where Control reads has a Stop
on its stream, and every Start under way has one behind it; whoever writes the end
of a run halted it before, and `StopReaches` says how far `stop_run` has got.
`StartIsOfItsRun` and `SettledStaysSettled` are action properties; the second needs
that only a request or a session task in charge of a run writes its row, and that
none takes charge of a run that is not active (`TakesCharge`).

**NetworkApply_proofs.**  Its theorems have no hypothesis of their own: any requests
and operations on the same nodes, teardowns, reconciles, leases and faults.
`NetworkTypeCorrect` needs that a request in an apply, each of its Stage commands,
the command loop and the lease tasks name their operation (`Typed`).
`NetworkHeldOnce` adds `PlansLeaveOut`: no plan was made from an inventory that
lacks the plan's own interface; with the Agent's comparison (`Matches`) this makes
`InterfaceHeldOnce` inductive, and no message order or fault matters.

`NetworkCommitsStaged` and `NetworkCompletes` rest on `Orders`, which follows an
apply from its request (`RequestAs`) over the stream (`CommandAt`, `QueueAt`) to the
command loop (`LoopAt`) and back (`ReplyAt`): a Commit anywhere is of a request that
every node of its operation has staged.  For a node that a request has to itself
(`Owned`), `Whole` says what the journal, the command loop and the interfaces are:
the journal is the operation's, nobody undoes anything but a Stage that failed or a start-up,
and what is staged or prepared is in place unless an undo was given up.  A good
answer to a Commit is then the answer of a committed node, as long as its request
has the node to itself (`Mine`).  The step that needs care is a Stage that comes
later: it could give the node to a request that has completed, or is about to.
`Once` and `Untouched` exclude it, since a request sends one Stage to a node and a
node carries it out once.

**NetworkJournal_proofs.**  Its theorems assume `~Expiry`: an operation ends within
its lease, or stays without its lease task touching it.  Beyond it the lease task
works on the same file as the command loop (`network.rs:626`) and the properties are false.  The lists of commands are
analysed first: which command comes after which, for any number of endpoints and
addresses.  `Progress` then says what the commands up to the one at hand have done
(`Done`) or undone (`Undone`), from whatever state the rollback began, and
`Standing` that a staged operation nobody works on is in place unless an undo was
given up (`abandoned`), and `Unmoved` that an interface on the host is as the journal
saved it, also when a failed write left that journal behind.  `InterfacesSurvive`,
`RollbackIsFeasible` and `CommitsAreComplete` hold for any number of operations,
failures and crashes; `ChangesAreCovered` as long as every rollback came to its end
(`Recoverable`, see Runs), and `FirstOperationIsCovered` is the property of the run
`undo`.

**ArtifactTransfer_proofs.**  The mutex leaves one sender (`HolderOnly`), so that a
connection's stream can be read by positions: before position i, is a transfer of
an artifact settled, ready for a chunk at this offset, begun, complete
(`SettledAt`, `ReadyAt`, `BegunAt`, `CompleteAt`)?  Receiving a message turns a
statement about position i + 1 into one about i; sending adds one at the end.
`PrepareComesLast` gives `PreparedWithItsBytes`; `InOrder`, which holds on a
connection no start gave up, gives `BailsOnlyForCause`.

**ArtifactStore_proofs.**  `ServedRowHasFile` speaks of a Control that serves; what
makes it inductive is what a start-up may find and leave behind.  `IInv` adds: a
row without its file is old, unreferenced and still on the list of the clean-up
(`LostRowsAreOrphans`), so that the clean-up does not end before it is gone; what is
being removed has no references and keeps none (`SweptIsUnreferenced`), since
nothing is served and no upload is in progress meanwhile (`Quiet`); an upload that
found or placed its file still has it when it inserts its row (`Placed`); and
without a retention nothing is removed (`SweepsByRetention`).

**LoadRunner_proofs.**  A worker enters the way to an operation (`PastTheGate`) only
where it looks at the flags, so that over TCP and HTTP/1 one that has begun an
operation late is on none of its places; on HTTP/2 what it has begun late and what
it has queued are together at most the streams of the connection
(`LateChecked`).  `Lasts` and `Flushes` follow the metric task
around the end of the load.  `SourcesAreOfThePool` rests on lemmas about quotients and
powers of two: a valid pool lies in the server's subnet and does not contain it.
`LoadFollowsTheProfile` is a fact of `LoadAt` rather than of the steps (`ProfileInv`
says that the load shown is the one of the active time): the ends of the stages
are a recursive function (`StagesEndIs`), they never decrease (`StagesEndGrows`), so
that one stage is found at a time (`StageIs`), and the rounded quotient is the
nearest number (`Rounded`).

**CaptureReplay_proofs.**  The model joins sequences, so the module begins with an
induction over sets of numbers (`InductionOn`; the library's needs an operator
parameter) and with what `FlattenSeq`, `SentBy` and `Reassemble` return.  There are
two invariants.  `AnalysisInv` is about the capture: an event of the table is a
piece of what its sender has sent, and has the number of the place where it begins
(`SentAs`).  Taking a segment in the order of the numbers then leaves a piece, with
`next` behind it, or a gap (`SegmentReaches`, `Distance`), so that `KeepsOnePiece`
follows.  It assumes `ShortFlows`: no side of a flow sends 2^`SeqBits` bytes, 4 GiB
in the code, where a capture has at most 512 MiB (`control/src/main.rs:625`), so that
it must have missed most of a longer flow; then two places have one number, and
what was missed between them is not seen as a gap.

`ReplaysTheConversation` proves `TurnsAreTheConversation` from the same hypothesis:
a longer flow may bring a number again, and then bytes of one turn stand for those
of another.  `AnalysisInv` has two more parts for it: every event is told by a
packet with bytes, or by two that go together, and has its number and turn
(`OfPacket`), and what is kept is what `FinishAnalysis` makes of the table.  Then,
in this order:

- If all that a side sent comes out without a gap, no number has wrapped: every
  segment stands at the place of its bytes (`StandWhere`, `ReadsToTheEnd`), and
  what is read before a place that no segment crosses is all that was sent before
  it, so that the segments between two such places make up the bytes between them
  (`Boundary`, `ReadsBetween`).
- The groups of `build_turns` are the runs of equal rank of a function that grows by
  one with every change of direction (`Ranks`, `RankExists`, `GroupsByRank`).
- An event has the rank of the packet that tells it (`Placed`, `EventHasPlace`), and
  by `InTurn` the ranks never decrease (`GroupsAreTurns`, `EventsHavePlaces`), so that
  the groups of the events and those of the packets with bytes (`Told`) have the
  same ranks.
- The first and last place of a group are boundaries (`GroupPlaces`); so each group
  of events makes the bytes of its group of packets (`GroupReads`, `TurnsAsTold`).

`ReplayInv` is about the two endpoints: their plans have the same flows
and turns, up to the target of a request (`PlansMatch`; `PlansMatchNow` proves it of
what `MakePlan` does); what one end has sent is what the other has read followed by
what is under way (`UnderWay`); and what a server that has to detect its flow has
read begins the first turn of the flow the client replays.  `ValidFlows` then leaves
the server no other flow, and an end that waits never waits for one that waits
(`WaitsForWriter`, `NotAhead`): `UndisturbedConnectionsSucceed`, `ReadsThePlan`.

Only model-checked:

- the liveness properties `FailedRunQuiesces`, `StartReturns`,
  `ActiveRunIsReleased`, `UncommittedIsReleased`, `TransferEnds`, `RunEnds` and
  `ReplayEnds`: fairness, hence `ENABLED`, is outside the prover.
  (`BrokenConnectionIsNoticed` and `UncommittedIsUndone` are false of the code.)

## Not modelled

- Byte layout: HTTP/1 framing, HTTP/2 frames and HPACK, packet and pcap headers,
  TLS records, and the rewriting of headers.  `CaptureReplay` takes what the
  parsers deliver.
- HTTP/2 replay, and what a load server answers: it has one response for every
  request.  The accept loop of the server endpoint (`run_server`) only counts
  connections.
- Telemetry windows, histograms and resource samples: arithmetic on atomics.
- The preflight of the Agents: it changes nothing, and no start asks for it.
- The Agent's memory of the last 256 command ids: Control gives each command a
  fresh id and never sends one twice, so that no behaviour of the two reaches it.
- The HTTP surface, wire and protobuf conversions, schema creation, the frontend,
  packaging: no state beyond what the modules have.

## Plan

What is left, in this order:

1. Proofs: the bounds of the other operators of `ScenarioDomain`.
2. The window of active seconds of `telemetry.rs` as pure operators.
3. `RunControl` with the transfer inside its Prepare, over one instance.
