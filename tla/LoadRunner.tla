----------------------------- MODULE LoadRunner -----------------------------
(* A client endpoint while it generates load: the pacing loop and the virtual  *)
(* clients of agent/src/runner.rs, the transactions of agent/src/workload, the *)
(* metric task of run_job (agent/src/main.rs), and the Stop and SetPaused      *)
(* commands that change the flags they share.                                 *)
(*                                                                            *)
(* A step is what a task does between two points where another task may read  *)
(* or change a flag in between; the flags are atomics, so there is no lock.    *)
EXTENDS ScenarioDomain, FiniteSets

CONSTANTS
  Case,       \* pairs of a scenario and a draft of its network profile
  MaxClients, \* bound: virtual clients of a scenario
  Interval,   \* milliseconds a round of the pacing loop sleeps, 50 in the code
  MaxEvents   \* bound: Stop and SetPaused commands, and a peer that hangs

ASSUME RunnerAssumption ==
  /\ MaxClients \in Nat \ {0}
  /\ Interval \in Nat \ {0}
  /\ MaxEvents \in Nat

(* Addresses are u32, prefixes u8 and counts u32; so are the seconds and the   *)
(* target of a stage.                                                         *)
ASSUME CaseAssumption ==
  \A c \in Case :
    /\ \A e \in {c.draft.client, c.draft.server} :
         e.start \in Nat /\ e.prefix \in Nat /\ e.count \in Nat
    /\ c.scenario.stages \in
         Seq([mode : {"ramp", "hold"}, secs : Nat, target : Nat, included : BOOLEAN])

VARIABLES
  scenario,    \* the job's scenario
  draft,       \* its network profile
  job,         \* where run_client and then run_job are
  elapsed,     \* active_elapsed, in milliseconds
  load,        \* stage, desired clients and included, as the counters show them
  running, paused, generating,  \* the flags
  worker,      \* virtual clients: pc, requests queued and in flight, launched, source
  attempted,   \* connections attempted, modulo the number of sources
  report,      \* where the metric task is
  unreported,  \* history: did a counter change since the metric task read it?
  silent,      \* has the peer stopped answering and reading?
  late,        \* history: operations a client began since it had to rest
  events,      \* Stop and SetPaused commands and hanging peers so far
  stopped,     \* history: was there a Stop?
  missed       \* history: was the metric task past its last reading at the end?

flags == <<running, paused, generating>>
counters == <<attempted, unreported>>
input == <<scenario, draft>>
history == <<late, stopped, missed>>
vars == <<scenario, draft, job, elapsed, load, flags, worker, counters, report,
          silent, events, history>>

Worker == 0 .. MaxClients - 1

Stuck == {"tls", "write", "wait"}
Pc == {"unborn", "loop", "connect", "tunnel", "gate", "held", "begin", "read",
       "exit"} \cup Stuck
Job == {"delay", "check", "sleep", "joining", "flushing", "completed"}

Protocol == scenario.protocol
Duration == EffectiveDuration(scenario)

TypeOK ==
  /\ ValidScenario(scenario) /\ ValidDraft(draft)
  /\ job \in Job
  /\ elapsed \in 0 .. Duration + 2 * Interval
  /\ load.stage \in 0 .. Larger(0, Len(scenario.stages) - 1)
  /\ load.desired \in Nat /\ load.included \in BOOLEAN
  /\ running \in BOOLEAN /\ paused \in BOOLEAN /\ generating \in BOOLEAN
  /\ \A w \in Worker :
       /\ worker[w].pc \in Pc
       /\ worker[w].queued \in Nat /\ worker[w].flight \in Nat
       /\ worker[w].queued + worker[w].flight <= scenario.streams
       /\ worker[w].launched \in 0 .. scenario.max
       /\ worker[w].queued + worker[w].flight > 0 => Protocol = "http2"
       /\ worker[w].pc = "held" => Protocol = "http1"
       /\ w >= MaximumVirtualClients(scenario) => worker[w].pc \in {"unborn", "exit"}
  /\ attempted \in 0 .. draft.client.count - 1
  /\ report \in {"check", "sleep", "send", "done"}
  /\ events \in 0 .. MaxEvents

Init ==
  /\ \E c \in Case :
       /\ ValidScenario(c.scenario) /\ ValidDraft(c.draft)
       /\ MaximumVirtualClients(c.scenario) <= MaxClients
       /\ scenario = c.scenario /\ draft = c.draft
  /\ job = "delay" /\ elapsed = 0
  /\ load = [stage |-> 0, desired |-> 0, included |-> FALSE]
  /\ running = TRUE /\ paused = FALSE /\ generating = TRUE
  /\ worker = [w \in Worker |->
                 [pc |-> "unborn", queued |-> 0, flight |-> 0, launched |-> 0,
                  source |-> 0]]
  /\ attempted = 0 /\ report = "check" /\ unreported = FALSE
  /\ silent = FALSE /\ events = 0 /\ stopped = FALSE /\ missed = FALSE
  /\ late = [w \in Worker |-> 0]

-----------------------------------------------------------------------------
(* The pacing loop                                                            *)

(* After 100 ms there are as many workers as the profile ever asks for.        *)
Begin ==
  /\ job = "delay"
  /\ job' = "check"
  /\ worker' = [w \in Worker |->
                  [worker[w] EXCEPT !.pc =
                     IF w < MaximumVirtualClients(scenario) THEN "loop" ELSE "exit"]]
  /\ UNCHANGED <<input, elapsed, load, flags, counters, report, silent, events>>

PacerChecks ==
  /\ job = "check"
  /\ IF elapsed < Duration /\ running
     THEN job' = "sleep" /\ UNCHANGED generating
     ELSE job' = "joining" /\ generating' = FALSE
  /\ UNCHANGED <<input, elapsed, load, running, paused, worker, counters, report,
                 silent, events>>

(* A round lasts at least its interval; one that saw the pause does not count. *)
PacerTicks ==
  /\ job = "sleep"
  /\ job' = "check"
  /\ IF paused THEN UNCHANGED <<elapsed, load>>
     ELSE \E ms \in {Interval, 2 * Interval} :
            /\ elapsed' = elapsed + ms
            /\ load' = LoadAt(scenario, elapsed + ms)
  /\ UNCHANGED <<input, flags, worker, counters, report, silent, events>>

(* Mutant of Join: the load ends without waiting for the workers.              *)
JoinNobody ==
  /\ job = "joining"
  /\ job' = "flushing"
  /\ running' = FALSE
  /\ UNCHANGED <<input, elapsed, load, paused, generating, worker, counters,
                 report, silent, events>>

(* run_client returns when every worker did, and run_job clears running.       *)
Join ==
  /\ job = "joining"
  /\ \A w \in Worker : worker[w].pc = "exit"
  /\ job' = "flushing"
  /\ running' = FALSE
  /\ UNCHANGED <<input, elapsed, load, paused, generating, worker, counters,
                 report, silent, events>>

(* The metric task has ended; 1.2 s later run_completed is sent.               *)
Complete ==
  /\ job = "flushing"
  /\ report = "done"
  /\ job' = "completed"
  /\ UNCHANGED <<input, elapsed, load, flags, worker, counters, report, silent,
                 events>>

-----------------------------------------------------------------------------
(* The virtual clients                                                        *)

(* WorkerGate::enabled: it does not look at paused.                           *)
Enabled(w) == running /\ generating /\ w < load.desired

NeedsTunnel == scenario.proxy /\ (scenario.tls \/ Protocol # "http1")

Continue(w, pc) == worker' = [worker EXCEPT ![w].pc = pc]

(* The connection ends, with or without an error.                             *)
Close(w) ==
  worker' = [worker EXCEPT ![w].pc = "loop", ![w].queued = 0, ![w].flight = 0,
                           ![w].launched = 0]

Shared == <<input, job, elapsed, load, flags, report, silent, events>>

Counted == unreported' = TRUE
Uncounted == UNCHANGED counters

(* A failed connection, handshake or transaction.                              *)
Fail(w) == Close(w) /\ Counted /\ UNCHANGED attempted

WorkerExits(w) ==
  /\ worker[w].pc = "loop"
  /\ ~(running /\ generating)
  /\ Continue(w, "exit") /\ Uncounted /\ UNCHANGED Shared

(* execute_connection, with the source address that connect_tcp will bind.     *)
WorkerStarts(w) ==
  /\ worker[w].pc = "loop"
  /\ Enabled(w) /\ ~paused
  /\ worker' = [worker EXCEPT ![w].pc = "connect",
                              ![w].source = Sources(draft)[attempted + 1]]
  /\ attempted' = (attempted + 1) % draft.client.count
  /\ Counted /\ UNCHANGED Shared

AfterTunnel ==
  IF scenario.tls THEN "tls" ELSE IF Protocol = "tcp" THEN "begin" ELSE "gate"
AfterTls == IF Protocol = "tcp" THEN "begin" ELSE "gate"

(* connect_tcp and the CONNECT exchange have deadlines ...                     *)
WorkerConnects(w) ==
  /\ worker[w].pc = "connect"
  /\ \/ /\ ~silent
        /\ Continue(w, IF NeedsTunnel THEN "tunnel" ELSE AfterTunnel)
        /\ Counted /\ UNCHANGED attempted
     \/ Fail(w)
  /\ UNCHANGED Shared

WorkerTunnels(w) ==
  /\ worker[w].pc = "tunnel"
  /\ \/ ~silent /\ Continue(w, AfterTunnel) /\ Counted /\ UNCHANGED attempted
     \/ Fail(w)
  /\ UNCHANGED Shared

(* ... the TLS handshake has none.                                             *)
WorkerHandshakes(w) ==
  /\ worker[w].pc = "tls"
  /\ ~silent
  /\ \/ Continue(w, AfterTls) /\ Uncounted
     \/ Fail(w)
  /\ UNCHANGED Shared

More(w) == scenario.max = 0 \/ worker[w].launched < scenario.max
Launched(w) == worker[w].launched + IF scenario.max > 0 THEN 1 ELSE 0

(* The head of the loop of http1::transactions.                                *)
WorkerPasses(w) ==
  /\ worker[w].pc = "gate" /\ Protocol = "http1"
  /\ IF Enabled(w) /\ More(w)
     THEN Continue(w, IF paused THEN "held" ELSE "begin")
     ELSE Close(w)
  /\ Uncounted /\ UNCHANGED Shared

(* Mutant of WorkerResumes: only the end of the pause lets a worker go on.     *)
WorkerWaitsForResume(w) ==
  /\ worker[w].pc = "held"
  /\ ~paused
  /\ IF Enabled(w) THEN Continue(w, "begin") ELSE Close(w)
  /\ Uncounted /\ UNCHANGED Shared

(* A pause, or the run, is over: the gate is looked at again.                  *)
WorkerResumes(w) ==
  /\ worker[w].pc = "held"
  /\ ~(paused /\ running /\ generating)
  /\ IF Enabled(w) THEN Continue(w, "begin") ELSE Close(w)
  /\ Uncounted /\ UNCHANGED Shared

(* A transaction of TCP or HTTP/1; a TCP connection has only one.              *)
WorkerBegins(w) ==
  /\ worker[w].pc = "begin"
  /\ worker' = [worker EXCEPT
       ![w].pc = "write",
       ![w].launched = IF Protocol = "tcp" THEN @ ELSE Launched(w)]
  /\ Uncounted /\ UNCHANGED Shared

(* write_all has no deadline: it waits for a peer that does not read, once the *)
(* buffers are full.                                                          *)
WorkerWrites(w) ==
  /\ worker[w].pc = "write"
  /\ \/ (~silent \/ ~scenario.big) /\ Continue(w, "read") /\ Counted
        /\ UNCHANGED attempted
     \/ ~silent /\ Fail(w)
  /\ UNCHANGED Shared

(* The response of TCP or HTTP/1, within response_ms.                          *)
WorkerReads(w) ==
  /\ worker[w].pc = "read"
  /\ \/ /\ ~silent
        /\ IF Protocol = "tcp" THEN Close(w) ELSE Continue(w, "gate")
        /\ Counted /\ UNCHANGED attempted
     \/ Fail(w)
  /\ UNCHANGED Shared

(* The loops of http2::transactions: while the gate is open and streams are    *)
(* free a request is launched, which only queues its future; then the worker   *)
(* waits for an answer. A pause does not stop it.                              *)
Pending(w) == worker[w].queued + worker[w].flight

(* Mutant of WorkerLaunches: the inner loop looks at the streams alone.        *)
WorkerFillsItsStreams(w) ==
  /\ worker[w].pc = "gate" /\ Protocol = "http2"
  /\ \/ /\ Enabled(w) \/ Pending(w) > 0
        /\ More(w) /\ Pending(w) < scenario.streams
        /\ worker' = [worker EXCEPT ![w].queued = @ + 1, ![w].launched = Launched(w)]
     \/ /\ ~((Enabled(w) \/ Pending(w) > 0) /\ More(w) /\ Pending(w) < scenario.streams)
        /\ IF Pending(w) > 0 THEN Continue(w, "wait") ELSE Close(w)
  /\ Uncounted /\ UNCHANGED Shared

WorkerLaunches(w) ==
  /\ worker[w].pc = "gate" /\ Protocol = "http2"
  /\ \/ /\ Enabled(w) /\ More(w) /\ Pending(w) < scenario.streams
        /\ worker' = [worker EXCEPT ![w].queued = @ + 1, ![w].launched = Launched(w)]
     \/ /\ ~(Enabled(w) /\ More(w) /\ Pending(w) < scenario.streams)
        /\ IF Pending(w) > 0 THEN Continue(w, "wait") ELSE Close(w)
  /\ Uncounted /\ UNCHANGED Shared

(* A queued request is begun when its future is polled, which happens only     *)
(* while the worker waits, and once the peer's limit leaves it a stream; the   *)
(* gate is not looked at again.                                                *)
WorkerSends(w) ==
  /\ worker[w].pc = "wait"
  /\ worker[w].queued > 0
  /\ worker' = [worker EXCEPT ![w].queued = @ - 1, ![w].flight = @ + 1]
  /\ Uncounted /\ UNCHANGED Shared

WorkerIsAnswered(w) ==
  /\ worker[w].pc = "wait"
  /\ ~silent
  /\ \/ /\ worker[w].flight > 0
        /\ worker' = [worker EXCEPT ![w].pc = "gate", ![w].flight = @ - 1]
        /\ Counted /\ UNCHANGED attempted
     \/ Fail(w)
  /\ UNCHANGED Shared

WorkerSteps(w) ==
  \/ WorkerExits(w) \/ WorkerStarts(w) \/ WorkerConnects(w) \/ WorkerTunnels(w)
  \/ WorkerHandshakes(w) \/ WorkerPasses(w) \/ WorkerResumes(w)
  \/ WorkerBegins(w) \/ WorkerWrites(w) \/ WorkerReads(w) \/ WorkerLaunches(w)
  \/ WorkerSends(w) \/ WorkerIsAnswered(w)

-----------------------------------------------------------------------------
(* The metric task, and the commands                                          *)

Unmeasured == <<input, job, elapsed, load, worker, attempted, silent>>

ReportChecks ==
  /\ report = "check"
  /\ report' = IF running THEN "sleep" ELSE "done"
  /\ UNCHANGED <<Unmeasured, flags, unreported, events>>

ReportReads ==
  /\ report = "sleep"
  /\ report' = "send" /\ unreported' = FALSE
  /\ UNCHANGED <<Unmeasured, flags, events>>

ReportSends ==
  /\ report = "send"
  /\ report' = "check"
  /\ UNCHANGED <<Unmeasured, flags, unreported, events>>

Event == events < MaxEvents /\ events' = events + 1

Stop ==
  /\ running /\ Event
  /\ running' = FALSE /\ paused' = FALSE
  /\ UNCHANGED <<Unmeasured, generating, unreported, report>>

SetPaused ==
  /\ running /\ Event
  /\ paused' = ~paused
  /\ UNCHANGED <<Unmeasured, running, generating, unreported, report>>

(* The peer hangs: it keeps its connections open, and neither reads nor answers. *)
PeerHangs ==
  /\ ~silent /\ Event
  /\ silent' = TRUE
  /\ UNCHANGED <<input, job, elapsed, load, flags, worker, counters, report>>

(* A virtual client has to rest: the load ended or was stopped, it is not      *)
(* among the desired ones, or, except on HTTP/2, the load is paused.           *)
Rests(w) == ~Enabled(w) \/ (paused /\ Protocol # "http2")

Begun(w) ==
  \/ worker[w].pc = "begin" /\ worker'[w].pc # "begin"
  \/ worker'[w].flight > worker[w].flight

(* What a virtual client may have checked and not yet begun.                   *)
Allowance == IF Protocol = "http2" THEN scenario.streams ELSE 1

Remember ==
  /\ late' = [w \in Worker |->
       IF ~Rests(w)' THEN 0
       ELSE IF Begun(w) /\ late[w] <= Allowance THEN late[w] + 1 ELSE late[w]]
  /\ stopped' = (stopped \/ (running /\ ~running' /\ job' = job))
  /\ missed' = (missed \/ (job = "joining" /\ job' = "flushing"
                             /\ report \in {"check", "send"}))

Step ==
  \/ Begin \/ PacerChecks \/ PacerTicks \/ Join \/ Complete
  \/ \E w \in Worker : WorkerSteps(w)
  \/ ReportChecks \/ ReportReads \/ ReportSends
  \/ Stop \/ SetPaused \/ PeerHangs

Next == Step /\ Remember

Spec == Init /\ [][Next]_vars

-----------------------------------------------------------------------------
(* Safety                                                                     *)

(* Once a virtual client has to rest, it begins no more operations than those  *)
(* whose check it had already passed, until it may work again: one transaction *)
(* of TCP or HTTP/1, and on HTTP/2 the requests queued behind their futures,   *)
(* which are at most the concurrent streams of the connection.                 *)
LateOperationsWereChecked == \A w \in Worker : late[w] <= Allowance

(* "Give both endpoints one telemetry interval to flush final counters before  *)
(* control marks the run complete": when a run that was not stopped completes, *)
(* every counter was reported, unless the metric task was between its last     *)
(* reading and its check of running when the load ended.                       *)
FinalReportIsComplete ==
  job = "completed" /\ ~stopped /\ ~missed => ~unreported

(* While a stage lasts, the desired clients are its target or, in a ramp, the  *)
(* nearest whole number on the line from the target before it.                 *)
DesiredFollowsProfile ==
  \A i \in DOMAIN scenario.stages :
    LET stage == scenario.stages[i]
        begins == StagesEnd(scenario.stages, i) - 1000 * stage.secs
        gone == elapsed - begins
        from == IF i = 1 THEN 0 ELSE scenario.stages[i - 1].target
        off == (load.desired - from) * 1000 * stage.secs
                 - (stage.target - from) * gone
    IN  elapsed > 0 /\ gone \in 0 .. 1000 * stage.secs - 1 =>
          /\ load.stage = i - 1
          /\ IF stage.mode = "hold" THEN load.desired = stage.target
             ELSE 2 * off \in -1000 * stage.secs .. 1000 * stage.secs

(* Every connection comes from an address of the server's subnet that is a     *)
(* host's and not one of the server's.                                        *)
SourcesAreUsable ==
  \A w \in Worker : worker[w].source # 0 =>
    LET size == 2 ^ (AddressBits - draft.server.prefix)
        source == worker[w].source
    IN  /\ source \div size = Target(draft) \div size
        /\ source % size \notin {0, size - 1}
        /\ source \notin draft.server.start .. PoolEnd(draft.server)

-----------------------------------------------------------------------------
(* Liveness: tasks run, sleeps and deadlines end, and a peer that does not     *)
(* hang answers.                                                              *)

FairSpec ==
  /\ Spec
  /\ WF_vars(Next /\ (Begin \/ PacerChecks \/ PacerTicks \/ Join \/ Complete))
  /\ \A w \in Worker : WF_vars(Next /\ WorkerSteps(w))
  /\ WF_vars(Next /\ (ReportChecks \/ ReportReads \/ ReportSends))

Pacing == job \in {"check", "sleep"}

(* A virtual client waits for a peer that hangs, and has no deadline for it.   *)
Hung(w) ==
  /\ silent
  /\ \/ worker[w].pc \in {"tls", "wait"}
     \/ worker[w].pc = "write" /\ scenario.big

(* A run ends by itself, unless it stays paused or a virtual client waits      *)
(* without a deadline for a peer that hangs.                                   *)
RunEnds ==
  \/ <>(job = "completed")
  \/ <>[](Pacing /\ paused)
  \/ \E w \in Worker : <>[]Hung(w)
=============================================================================
