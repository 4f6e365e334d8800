--------------------------- MODULE NetworkJournal ---------------------------
(***************************************************************************)
(* The network manager of one Agent (agent/src/network.rs): it plans the   *)
(* commands that move the test interfaces into namespaces, stages them     *)
(* under a journal on disk, and undoes them on request, when the lease     *)
(* expires or after a restart.                                             *)
(*                                                                         *)
(* A step is one command (ip, ethtool, arping) or one journal write.  The  *)
(* command loop and the lease task run concurrently; the process may crash *)
(* between any two steps, which leaves the kernel and the file as they are.*)
(***************************************************************************)
EXTENDS Naturals, Sequences, FiniteSets

CONSTANTS
  Endpoints,    \* the plan's endpoints on this Agent, in the order of plan()
  Count,        \* addresses of an endpoint
  Arping,       \* is arping installed?
  Ethtool,      \* is ethtool installed?
  None,         \* no journal, no plan
  MaxStages,    \* bound: Stage commands
  MaxFailures,  \* bound: commands and file operations that fail although they
                \* could have worked
  MaxCrashes,   \* bound: crashes of the Agent
  Expiry        \* can an operation outlive its lease?

ASSUME EndpointsAssumption ==
  /\ Endpoints \in {<<"client">>, <<"server">>, <<"client", "server">>}
  /\ Count \in Nat \ {0}
  /\ Arping \in BOOLEAN
  /\ Ethtool \in BOOLEAN
  /\ MaxStages \in Nat
  /\ MaxFailures \in Nat
  /\ MaxCrashes \in Nat
  /\ Expiry \in BOOLEAN

Endpoint == {Endpoints[i] : i \in 1 .. Len(Endpoints)}
(* The command loop, and the lease task of each operation.                   *)
Loop == 0
Lease == 1 .. MaxStages
Task == {Loop} \cup Lease
Phase == {"applying", "rolling_back", "staged", "prepared"}
Attempts == 3

(* What the inventory shows of an interface and rollback restores: up, MTU,  *)
(* transmit checksum and segmentation offload.                               *)
Link == [up : BOOLEAN, mtu : {"own", "other", "test"}, tx : BOOLEAN,
         tso : BOOLEAN]

(* No driver segments what it does not checksum.                             *)
Working == {l \in Link : l.mtu # "test" /\ (l.tso => l.tx)}

VARIABLES
  \* the kernel
  netns,     \* endpoints whose namespace exists
  where,     \* where the interface is: "host", "netns" or "gone"
  link,      \* its attributes
  addrs,     \* the pool addresses it has
  own,       \* the operator's attributes of the interface (history)
  \* the disk
  journal,   \* network-state.json, or None
  \* Control's memory of the plan
  plan,      \* the inventory the plan was made from, or None
  \* the Agent process
  task,      \* the command loop and the lease tasks
  stages,    \* Stage commands so far: the number is the operation id
  abandoned, \* was an undo given up since the last Stage? (history)
  failures, crashes

kernel == <<netns, where, link, addrs, own>>
bounds == <<failures, crashes>>
vars == <<kernel, journal, plan, task, stages, abandoned, bounds>>

Journal == [op : 1 .. MaxStages, phase : Phase, saved : [Endpoint -> Link]]

(* An absent file is not a journal.                                          *)
ASSUME NoneAssumption == None \notin Journal

(* The journal a task works on, the command it is at, its attempts at that    *)
(* command and whether one was given up.                                      *)
Idle == [pc |-> "idle", j |-> None, i |-> 1, tries |-> 0, failed |-> FALSE]
TaskPc == {"idle", "apply", "commit", "restore", "delete", "remove", "armed",
           "down", "startup"}

TypeOK ==
  /\ netns \subseteq Endpoint
  /\ where \in [Endpoint -> {"host", "netns", "gone"}]
  /\ link \in [Endpoint -> Link]
  /\ own \in [Endpoint -> Working]
  /\ addrs \in [Endpoint -> SUBSET (1 .. Count)]
  /\ journal \in Journal \cup {None}
  /\ plan \in [Endpoint -> Link] \cup {None}
  /\ task \in [Task -> [pc : TaskPc, j : Journal \cup {None}, i : Nat \ {0},
                        tries : 0 .. Attempts - 1, failed : BOOLEAN]]
  /\ stages \in 0 .. MaxStages
  /\ abandoned \in BOOLEAN
  /\ failures \in 0 .. MaxFailures
  /\ crashes \in 0 .. MaxCrashes

Init ==
  /\ netns = {}
  /\ where = [e \in Endpoint |-> "host"]
  /\ own \in [Endpoint -> {l \in Working : l.mtu = "own"}]
  /\ link = own
  /\ addrs = [e \in Endpoint |-> {}]
  /\ journal = None
  /\ plan = None
  /\ task = [t \in Task |-> Idle]
  /\ stages = 0
  /\ abandoned = FALSE
  /\ failures = 0
  /\ crashes = 0

-----------------------------------------------------------------------------
(* plan: the commands and the rollback commands                               *)

Cmd(do, e) == <<[do |-> do, e |-> e, n |-> 0]>>
PerAddress(do, e) == [n \in 1 .. Count |-> [do |-> do, e |-> e, n |-> n]]

OfAll(list) ==
  IF Len(Endpoints) = 1 THEN list[Endpoints[1]]
                        ELSE list[Endpoints[1]] \o list[Endpoints[2]]

CommandsOf(e) ==
  (IF Arping THEN PerAddress("arping", e) ELSE << >>)
    \o Cmd("netns_add", e) \o Cmd("to_netns", e) \o Cmd("lo_up", e)
    \o Cmd("mtu_up", e) \o PerAddress("address_add", e)
    \o (IF Ethtool THEN Cmd("tso_off", e) \o Cmd("tx_off", e) ELSE << >>)

(* Mutant of RestoresOf: segmentation before the checksum it depends on.       *)
RestoresOfSegmentationFirst(e) ==
  [k \in 1 .. Count |-> [do |-> "address_del", e |-> e, n |-> Count + 1 - k]]
    \o Cmd("to_host", e)
    \o (IF Ethtool THEN Cmd("tso", e) \o Cmd("tx", e) ELSE << >>)
    \o Cmd("mtu", e) \o Cmd("link_state", e)

(* Addresses last to first, the interface back to the host, and only then its *)
(* attributes, the checksum before segmentation.                              *)
RestoresOf(e) ==
  [k \in 1 .. Count |-> [do |-> "address_del", e |-> e, n |-> Count + 1 - k]]
    \o Cmd("to_host", e)
    \o (IF Ethtool THEN Cmd("tx", e) \o Cmd("tso", e) ELSE << >>)
    \o Cmd("mtu", e) \o Cmd("link_state", e)

Commands == OfAll([e \in Endpoint |-> CommandsOf(e)])
Restores == OfAll([e \in Endpoint |-> RestoresOf(e)])
Deletes == OfAll([e \in Endpoint |-> Cmd("netns_del", e)])

-----------------------------------------------------------------------------
(* What the programs do to the kernel; external to the repository.  Moving an *)
(* interface to another namespace takes it down and drops its addresses;      *)
(* deleting a namespace destroys a borrowed virtual interface that is in it.  *)

InNetns(e) == e \in netns /\ where[e] = "netns"

Possible(c) ==
  CASE c.do = "netns_add" -> c.e \notin netns
    [] c.do = "to_netns" -> c.e \in netns /\ where[c.e] = "host"
    [] c.do = "lo_up" -> c.e \in netns
    [] c.do \in {"mtu_up", "address_add", "tso_off", "tx_off", "address_del",
                 "to_host"} -> InNetns(c.e)
    [] c.do = "netns_del" -> c.e \in netns
    [] OTHER -> where[c.e] = "host"

AddressesAfter(c) ==
  CASE c.do = "address_add" -> addrs[c.e] \cup {c.n}
    [] c.do = "address_del" -> IF c.n = 1 THEN {} ELSE addrs[c.e] \ {c.n}
    [] c.do \in {"to_netns", "to_host"} -> {}
    [] OTHER -> addrs[c.e]

LinkAfter(c, saved) ==
  LET l == link[c.e] IN
  CASE c.do \in {"to_netns", "to_host"} -> [l EXCEPT !.up = FALSE]
    [] c.do = "mtu_up" -> [l EXCEPT !.mtu = "test", !.up = TRUE]
    [] c.do = "tso_off" -> [l EXCEPT !.tso = FALSE]
    [] c.do = "tx_off" -> [l EXCEPT !.tx = FALSE, !.tso = FALSE]
    [] c.do = "tx" -> [l EXCEPT !.tx = saved[c.e].tx]
    [] c.do = "tso" -> [l EXCEPT !.tso = saved[c.e].tso]
    [] c.do = "mtu" -> [l EXCEPT !.mtu = saved[c.e].mtu]
    [] c.do = "link_state" -> [l EXCEPT !.up = saved[c.e].up]
    [] OTHER -> l

Run(c, saved) ==
  /\ netns' = CASE c.do = "netns_add" -> netns \cup {c.e}
                [] c.do = "netns_del" -> netns \ {c.e}
                [] OTHER -> netns
  /\ where' = [where EXCEPT ![c.e] =
                CASE c.do = "to_netns" -> "netns"
                  [] c.do = "to_host" -> "host"
                  [] c.do = "netns_del" /\ where[c.e] = "netns" -> "gone"
                  [] OTHER -> where[c.e]]
  /\ link' = [link EXCEPT ![c.e] = LinkAfter(c, saved)]
  /\ addrs' = [addrs EXCEPT ![c.e] = AddressesAfter(c)]
  /\ UNCHANGED own

(* A driver refuses segmentation without the checksum.                        *)
Refused(c, saved) == c.do = "tso" /\ saved[c.e].tso /\ ~link[c.e].tx

-----------------------------------------------------------------------------
(* The tasks *)

Goto(t, new) == task' = [task EXCEPT ![t] = new]
Fails == failures < MaxFailures /\ failures' = failures + 1

WriteJournal(j) == journal' = j

(* The operator changes an interface the tester does not hold.                *)
OperatorChanges(e) ==
  /\ journal = None
  /\ where[e] = "host"
  /\ e \notin netns
  /\ \A t \in Task : task[t].pc \notin {"restore", "delete", "remove"}
  /\ own[e].mtu = "own"
  /\ own' = [own EXCEPT ![e].mtu = "other"]
  /\ link' = [link EXCEPT ![e].mtu = "other"]
  /\ UNCHANGED <<netns, where, addrs, journal, plan, task, stages, abandoned, bounds>>

(* plan: refused when an interface is missing or has addresses.               *)
Plan ==
  /\ task[Loop].pc = "idle"
  /\ \A e \in Endpoint : where[e] = "host" /\ addrs[e] = {}
  /\ plan' = link
  /\ UNCHANGED <<kernel, journal, task, stages, abandoned, bounds>>

(* Mutant of Stage: the inventory is not compared with the plan's.             *)
StageUnseen ==
  /\ task[Loop].pc = "idle"
  /\ plan # None
  /\ stages < MaxStages
  /\ \A e \in Endpoint : where[e] = "host"
  /\ stages' = stages + 1
  /\ LET j == [op |-> stages + 1, phase |-> "applying", saved |-> plan] IN
     /\ WriteJournal(j)
     /\ Goto(Loop, [Idle EXCEPT !.pc = "apply", !.j = j])
  /\ abandoned' = FALSE
  /\ UNCHANGED <<kernel, plan, bounds>>

(* apply: refused when the inventory is not the plan's; otherwise the journal *)
(* is written, over whatever was there, before the first command.             *)
Stage ==
  /\ task[Loop].pc = "idle"
  /\ plan # None
  /\ stages < MaxStages
  /\ \A e \in Endpoint : where[e] = "host" /\ addrs[e] = {} /\ link[e] = plan[e]
  /\ stages' = stages + 1
  /\ LET j == [op |-> stages + 1, phase |-> "applying", saved |-> plan] IN
     /\ WriteJournal(j)
     /\ Goto(Loop, [Idle EXCEPT !.pc = "apply", !.j = j])
  /\ abandoned' = FALSE
  /\ UNCHANGED <<kernel, plan, bounds>>

(* A command, and the journal again with one more completed command; when the *)
(* journal cannot be written, ApplyStops.                                     *)
ApplyNext ==
  LET s == task[Loop] IN
  /\ s.pc = "apply"
  /\ s.i <= Len(Commands)
  /\ Commands[s.i].do # "arping" => Possible(Commands[s.i])
  /\ Run(Commands[s.i], s.j.saved)
  /\ WriteJournal(s.j)
  /\ Goto(Loop, [s EXCEPT !.i = s.i + 1])
  /\ UNCHANGED <<plan, stages, abandoned, bounds>>

StartRollback(t, j, pc) == Goto(t, [Idle EXCEPT !.pc = pc, !.j = j])

(* Mutant of ApplyFails: a failed command is passed over, as arping's silence.  *)
ApplyFailsGoesOn ==
  LET s == task[Loop] IN
  /\ s.pc = "apply"
  /\ s.i <= Len(Commands)
  /\ Fails
  /\ Goto(Loop, [s EXCEPT !.i = s.i + 1])
  /\ UNCHANGED <<kernel, journal, plan, stages, abandoned, crashes>>

(* A command failed: the journal says so, and everything is undone.           *)
ApplyFails ==
  LET s == task[Loop]
      j == [s.j EXCEPT !.phase = "rolling_back"] IN
  /\ s.pc = "apply"
  /\ s.i <= Len(Commands)
  /\ \/ ~Possible(Commands[s.i]) /\ Commands[s.i].do # "arping"
                                 /\ UNCHANGED failures
     \/ Fails
  /\ WriteJournal(j)
  /\ StartRollback(Loop, j, "restore")
  /\ UNCHANGED <<kernel, plan, stages, abandoned, crashes>>

(* A journal write fails, after a command that worked, after one that failed, *)
(* or after the last: the Stage fails at once, nothing is undone, no lease    *)
(* task is spawned, and the journal says applying.                            *)
ApplyStops ==
  LET s == task[Loop]
      possible == /\ s.i <= Len(Commands)
                  /\ Commands[s.i].do = "arping" \/ Possible(Commands[s.i]) IN
  /\ s.pc = "apply"
  /\ \/ possible /\ Run(Commands[s.i], s.j.saved) /\ Fails
     \/ /\ possible
        /\ failures + 1 < MaxFailures
        /\ failures' = failures + 2
        /\ UNCHANGED kernel
     \/ ~possible /\ Fails /\ UNCHANGED kernel
  /\ Goto(Loop, Idle)
  /\ UNCHANGED <<journal, plan, stages, abandoned, crashes>>

(* The last journal write, and the lease task is spawned.                     *)
ApplyDone ==
  LET s == task[Loop]
      j == [s.j EXCEPT !.phase = "staged"] IN
  /\ s.pc = "apply"
  /\ s.i = Len(Commands) + 1
  /\ WriteJournal(j)
  /\ task' = [task EXCEPT ![Loop] = Idle,
                          ![j.op] = [Idle EXCEPT !.pc = "armed", !.j = j]]
  /\ UNCHANGED <<kernel, plan, stages, abandoned, bounds>>

(* commit: read and check ...                                                 *)
CommitReads ==
  /\ task[Loop].pc = "idle"
  /\ journal # None
  /\ journal.phase = "staged"
  /\ Goto(Loop, [Idle EXCEPT !.pc = "commit", !.j = journal])
  /\ UNCHANGED <<kernel, journal, plan, stages, abandoned, bounds>>

(* ... and write, or fail to.                                                 *)
CommitWrites ==
  LET s == task[Loop] IN
  /\ s.pc = "commit"
  /\ \/ WriteJournal([s.j EXCEPT !.phase = "prepared"]) /\ UNCHANGED failures
     \/ Fails /\ UNCHANGED journal
  /\ Goto(Loop, Idle)
  /\ UNCHANGED <<kernel, plan, stages, abandoned, crashes>>

(* recover: Rollback, Teardown and Reconcile                                  *)
Recover ==
  /\ task[Loop].pc = "idle"
  /\ journal # None
  /\ StartRollback(Loop, journal, "restore")
  /\ UNCHANGED <<kernel, journal, plan, stages, abandoned, bounds>>

(* enforce_lease: only its own operation, and only before it was committed;   *)
(* a journal that cannot be read is left alone, and so is one whose rollback  *)
(* fails.  Without Expiry the lease task wakes to nothing that is overdue.    *)
Overdue(op) ==
  /\ journal # None
  /\ journal.op = op
  /\ journal.phase \in {"applying", "staged"}

LeaseExpires(op) ==
  /\ Expiry \/ ~Overdue(op)
  /\ task[op].pc = "armed"
  /\ \/ /\ UNCHANGED failures
        /\ IF Overdue(op)
           THEN StartRollback(op, journal, "restore")
           ELSE Goto(op, Idle)
     \/ Fails /\ Goto(op, Idle)
  /\ UNCHANGED <<kernel, journal, plan, stages, abandoned, crashes>>

(* rollback: one attempt at one command, of the restorations or, when none of *)
(* them was given up, of the namespace deletions.  What does not exist any    *)
(* more counts as undone.                                                     *)
RollbackList(pc) == IF pc = "restore" THEN Restores ELSE Deletes

NextCommand(s) == [s EXCEPT !.i = s.i + 1, !.tries = 0]

RollbackRuns(t) ==
  LET s == task[t] IN
  /\ s.pc \in {"restore", "delete"}
  /\ s.i <= Len(RollbackList(s.pc))
  /\ LET c == RollbackList(s.pc)[s.i] IN
     /\ ~Refused(c, s.j.saved)
     /\ c.do \in {"tx", "tso"} => Possible(c)
     /\ IF Possible(c) THEN Run(c, s.j.saved) ELSE UNCHANGED kernel
  /\ Goto(t, NextCommand(s))
  /\ UNCHANGED <<journal, plan, stages, abandoned, bounds>>

RollbackFails(t) ==
  LET s == task[t] IN
  /\ s.pc \in {"restore", "delete"}
  /\ s.i <= Len(RollbackList(s.pc))
  /\ LET c == RollbackList(s.pc)[s.i] IN
     \/ Refused(c, s.j.saved) /\ UNCHANGED failures
     \/ c.do \in {"tx", "tso"} /\ ~Possible(c) /\ UNCHANGED failures
     \/ Possible(c) /\ Fails
  /\ Goto(t, IF s.tries + 1 < Attempts
             THEN [s EXCEPT !.tries = s.tries + 1]
             ELSE [NextCommand(s) EXCEPT !.failed = TRUE])
  /\ UNCHANGED <<kernel, journal, plan, stages, abandoned, crashes>>

(* Mutant of RollbackTurns: namespaces are deleted whatever was given up.      *)
RollbackTurnsAnyway(t) ==
  LET s == task[t] IN
  /\ s.pc \in {"restore", "delete"}
  /\ s.i = Len(RollbackList(s.pc)) + 1
  /\ Goto(t, IF s.pc = "restore"
             THEN [Idle EXCEPT !.pc = "delete", !.j = s.j, !.failed = s.failed]
             ELSE IF s.failed THEN Idle
             ELSE [Idle EXCEPT !.pc = "remove", !.j = s.j])
  /\ abandoned' = (abandoned \/ (s.failed /\ s.pc = "delete"))
  /\ UNCHANGED <<kernel, journal, plan, stages, bounds>>

RollbackTurns(t) ==
  LET s == task[t] IN
  /\ s.pc \in {"restore", "delete"}
  /\ s.i = Len(RollbackList(s.pc)) + 1
  /\ Goto(t, IF s.failed THEN Idle
             ELSE [Idle EXCEPT !.pc = IF s.pc = "restore" THEN "delete"
                                                          ELSE "remove",
                               !.j = s.j])
  /\ abandoned' = (abandoned \/ s.failed)
  /\ UNCHANGED <<kernel, journal, plan, stages, bounds>>

(* Everything was undone: the journal goes, whichever it is by now, or cannot *)
(* be removed.                                                               *)
RollbackEnds(t) ==
  /\ task[t].pc = "remove"
  /\ \/ WriteJournal(None) /\ UNCHANGED <<abandoned, failures>>
     \/ Fails /\ abandoned' = TRUE /\ UNCHANGED journal
  /\ Goto(t, Idle)
  /\ UNCHANGED <<kernel, plan, stages, crashes>>

Crash ==
  /\ crashes < MaxCrashes
  /\ crashes' = crashes + 1
  /\ task' = [t \in Task |-> IF t = Loop THEN [Idle EXCEPT !.pc = "down"]
                                           ELSE Idle]
  /\ UNCHANGED <<kernel, journal, plan, stages, abandoned, failures>>

(* recover_on_startup: everything but a committed operation is undone before  *)
(* the Agent connects; when the journal cannot be read or the rollback fails, *)
(* the error is logged and the Agent goes on.                                 *)
Restart ==
  /\ task[Loop].pc = "down"
  /\ \/ /\ IF journal # None /\ journal.phase # "prepared"
           THEN StartRollback(Loop, journal, "restore")
           ELSE Goto(Loop, Idle)
        /\ UNCHANGED <<abandoned, failures>>
     \/ Fails /\ abandoned' = TRUE /\ Goto(Loop, Idle)
  /\ UNCHANGED <<kernel, journal, plan, stages, crashes>>

Apply == ApplyNext \/ ApplyFails \/ ApplyStops \/ ApplyDone
Rollback(t) == RollbackRuns(t) \/ RollbackFails(t) \/ RollbackTurns(t)
                 \/ RollbackEnds(t)

Next ==
  \/ \E e \in Endpoint : OperatorChanges(e)
  \/ Plan \/ Stage \/ Apply \/ CommitReads \/ CommitWrites \/ Recover
  \/ \E op \in Lease : LeaseExpires(op)
  \/ \E t \in Task : Rollback(t)
  \/ Crash \/ Restart

Spec == Init /\ [][Next]_vars

-----------------------------------------------------------------------------
(* Safety *)

Untouched(e) ==
  e \notin netns /\ where[e] = "host" /\ addrs[e] = {} /\ link[e] = own[e]

(* Whatever was changed can be undone: without a journal every interface is   *)
(* as its operator left it, and no namespace is left, whatever failed and     *)
(* wherever the Agent crashed.                                                *)
JournalCoversChanges == journal = None => \A e \in Endpoint : Untouched(e)

(* "Deleting a namespace that still contains a borrowed veth destroys the      *)
(* link": no interface is ever lost.                                          *)
NoInterfaceIsLost == \A e \in Endpoint : where[e] # "gone"

(* A rollback gives a command up only after three failures of its own: the    *)
(* order of the commands never makes one impossible.                          *)
RollbackFailsOnlyForCause ==
  \A t \in Task : task[t].failed => failures >= Attempts

InPlace(e) ==
  /\ InNetns(e)
  /\ link[e].up /\ link[e].mtu = "test"
  /\ addrs[e] = 1 .. Count

(* A commit is of a complete staging: when the journal becomes prepared, every *)
(* interface is in its namespace with its addresses, whatever failed before,   *)
(* unless an undo was given up since (which leaves the phase as it was, so a   *)
(* late Commit of what was half undone is accepted).                          *)
CommitsWhatIsInPlace ==
  [][/\ journal' # None /\ journal'.phase = "prepared"
     /\ journal # journal' /\ ~abandoned
     => \A e \in Endpoint : InPlace(e)]_vars

-----------------------------------------------------------------------------
(* Liveness: the Agent is restarted by its service manager, programs end, and *)
(* the lease timer fires.                                                     *)

FairSpec ==
  /\ Spec
  /\ WF_vars(Apply)
  /\ WF_vars(CommitWrites)
  /\ WF_vars(Restart)
  /\ \A op \in Lease : WF_vars(LeaseExpires(op))
  /\ \A t \in Task : WF_vars(Rollback(t))

(* "An uncommitted lease expires after 180 seconds and the Agent rolls it back *)
(* locally" (docs/NETWORK_CONFIGURATION.md:18): an operation does not stay     *)
(* half done.  It may: a Stage that cannot write its journal has no lease, and *)
(* the lease's rollback may be given up.                                      *)
UncommittedIsUndone ==
  (journal # None /\ journal.phase # "prepared")
    ~> (journal = None \/ journal.phase = "prepared")
=============================================================================
