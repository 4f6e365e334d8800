--------------------------- MODULE ArtifactStore ---------------------------
(* Control's artifacts: the rows of its database and the files they name.     *)
(* upload_artifact (control/src/main.rs) writes a file and a row in several   *)
(* steps; at start-up, before anything is served, apply_retention and         *)
(* cleanup_orphan_artifacts (control/src/database.rs) remove old runs and     *)
(* the old artifacts nothing refers to.  Control may die between any two      *)
(* steps.  A file is named by the digest of its bytes, so a file is its bytes.*)
EXTENDS Naturals, FiniteSets

CONSTANTS
  None,
  Content,         \* what may be uploaded: one element per digest
  Capturable,      \* the contents analyze_tcp_capture accepts
  Upload,          \* upload requests
  Scenario, Run,
  Retention,       \* whether retention_days is positive
  MaxFaults

ASSUME StoreAssumption ==
  /\ Capturable \subseteq Content
  /\ Retention \in BOOLEAN
  /\ MaxFaults \in Nat

VARIABLES
  phase,      \* where main is: "down", "retain", "list", "sweep", "serving"
  todo,       \* the rows clean-up has still to look at
  swept,      \* the row whose file clean-up has just removed, or None
  rows,       \* the artifacts table, one row per digest
  old,        \* the ids created before the cutoff
  nextId,
  files,      \* the files in artifact_dir
  temps,      \* the uploads whose temporary file is on disk
  upload,     \* per upload, where its handler stands
  scenario,   \* the artifact id a saved scenario names, or 0
  run,        \* the artifact id a run's snapshot names, and how old the run is
  faults

vars == <<phase, todo, swept, rows, old, nextId, files, temps, upload,
          scenario, run, faults>>
sweep == <<todo, swept>>
refs == <<scenario, run>>

Kind == {"payload", "pcap"}
Row == [id : Nat, kind : Kind]

ASSUME NoneAssumption == None \notin Row

Phase == {"down", "retain", "list", "sweep", "serving"}
UploadPc == {"idle", "receive", "analyse", "look", "place", "discard", "insert",
             "select", "done", "refused", "gone"}
UploadState == [pc : UploadPc, bytes : Content \cup {None}, kind : Kind, id : Nat]
RunState == [state : {"none", "live", "ended", "old"}, id : Nat]

TypeOK ==
  /\ phase \in Phase
  /\ todo \subseteq Content /\ swept \in todo \cup {None}
  /\ phase # "sweep" => todo = {}
  /\ rows \in [Content -> Row \cup {None}]
  /\ old \subseteq Nat /\ nextId \in Nat
  /\ files \subseteq Content /\ temps \subseteq Upload
  /\ upload \in [Upload -> UploadState]
  /\ \A u \in Upload : upload[u].pc # "idle" => upload[u].bytes \in Content
  /\ scenario \in [Scenario -> Nat]
  /\ run \in [Run -> RunState]
  /\ faults \in 0 .. MaxFaults

Unused == [pc |-> "idle", bytes |-> None, kind |-> "pcap", id |-> 0]

Init ==
  /\ phase = "serving"
  /\ todo = {} /\ swept = None
  /\ rows = [c \in Content |-> None]
  /\ old = {} /\ nextId = 1
  /\ files = {} /\ temps = {}
  /\ upload = [u \in Upload |-> Unused]
  /\ scenario = [s \in Scenario |-> 0]
  /\ run = [r \in Run |-> [state |-> "none", id |-> 0]]
  /\ faults = 0

HasRow(c) == rows[c] # None
Known(i) == \E c \in Content : HasRow(c) /\ rows[c].id = i
Fault == faults < MaxFaults /\ faults' = faults + 1

-----------------------------------------------------------------------------
(* upload_artifact: one step between two awaits *)

Moves(u, pc) == upload' = [upload EXCEPT ![u].pc = pc]

UploadBegins(u) ==
  /\ phase = "serving" /\ upload[u].pc = "idle"
  /\ \E c \in Content, k \in Kind :
       upload' = [upload EXCEPT ![u] = [pc |-> "receive", bytes |-> c, kind |-> k, id |-> 0]]
  /\ temps' = temps \cup {u}
  /\ UNCHANGED <<phase, rows, old, nextId, files, faults, sweep, refs>>

(* The body is complete; or it exceeds the limit and is removed; or it breaks *)
(* off, and the temporary file stays.                                         *)
UploadReceived(u) ==
  /\ upload[u].pc = "receive"
  /\ \/ Moves(u, "analyse") /\ UNCHANGED <<temps, faults>>
     \/ Moves(u, "refused") /\ temps' = temps \ {u} /\ UNCHANGED faults
     \/ Moves(u, "refused") /\ UNCHANGED temps /\ Fault
  /\ UNCHANGED <<phase, rows, old, nextId, files, sweep, refs>>

UploadAnalysed(u) ==
  /\ upload[u].pc = "analyse"
  /\ \/ /\ upload[u].kind = "payload" \/ upload[u].bytes \in Capturable
        /\ Moves(u, "look") /\ UNCHANGED temps
     \/ /\ upload[u].kind = "pcap" /\ upload[u].bytes \notin Capturable
        /\ Moves(u, "refused") /\ temps' = temps \ {u}
  /\ UNCHANGED <<phase, rows, old, nextId, files, faults, sweep, refs>>

UploadLooks(u) ==
  /\ upload[u].pc = "look"
  /\ Moves(u, IF upload[u].bytes \in files THEN "discard" ELSE "place")
  /\ UNCHANGED <<phase, rows, old, nextId, files, temps, faults, sweep, refs>>

UploadKept(u) ==
  /\ upload[u].pc \in {"place", "discard"}
  /\ files' = IF upload[u].pc = "place" THEN files \cup {upload[u].bytes} ELSE files
  /\ temps' = temps \ {u}
  /\ Moves(u, "insert")
  /\ UNCHANGED <<phase, rows, old, nextId, faults, sweep, refs>>

(* INSERT ... ON CONFLICT(sha256) DO NOTHING                                  *)
UploadInserts(u) ==
  LET c == upload[u].bytes IN
  /\ upload[u].pc = "insert"
  /\ \/ /\ ~HasRow(c)
        /\ rows' = [rows EXCEPT ![c] = [id |-> nextId, kind |-> upload[u].kind]]
        /\ nextId' = nextId + 1
        /\ upload' = [upload EXCEPT ![u].pc = "done", ![u].id = nextId]
     \/ /\ HasRow(c)
        /\ Moves(u, "select") /\ UNCHANGED <<rows, nextId>>
  /\ UNCHANGED <<phase, old, files, temps, faults, sweep, refs>>

(* Mutant of UploadSelects: the kind is not compared.                        *)
SelectsAnyKind(u) ==
  LET c == upload[u].bytes IN
  /\ upload[u].pc = "select"
  /\ upload' = [upload EXCEPT ![u].pc = "done", ![u].id = rows[c].id]
  /\ UNCHANGED <<phase, rows, old, nextId, files, temps, faults, sweep, refs>>

(* The row that was there answers, if it has the same kind.                   *)
UploadSelects(u) ==
  LET c == upload[u].bytes IN
  /\ upload[u].pc = "select"
  /\ \/ /\ HasRow(c) /\ rows[c].kind = upload[u].kind
        /\ upload' = [upload EXCEPT ![u].pc = "done", ![u].id = rows[c].id]
     \/ /\ (HasRow(c) => rows[c].kind # upload[u].kind)
        /\ Moves(u, "refused")
  /\ UNCHANGED <<phase, rows, old, nextId, files, temps, faults, sweep, refs>>

InProgress(u) == upload[u].pc \notin {"idle", "done", "refused", "gone"}

(* The caller goes away and the handler is dropped where it waits.            *)
UploadDropped(u) ==
  /\ InProgress(u) /\ Fault
  /\ Moves(u, "gone")
  /\ UNCHANGED <<phase, rows, old, nextId, files, temps, sweep, refs>>

-----------------------------------------------------------------------------
(* Who refers to an artifact *)

(* validate_artifacts finds the row of the id; the scenario may also name     *)
(* none.  start_run takes the same check and snapshots the scenario.          *)
SaveScenario(s) ==
  /\ phase = "serving"
  /\ \E i \in {0} \cup {rows[c].id : c \in {d \in Content : HasRow(d)}} :
       scenario' = [scenario EXCEPT ![s] = i]
  /\ UNCHANGED <<phase, rows, old, nextId, files, temps, upload, run, faults, sweep>>

StartRun(r) ==
  /\ phase = "serving" /\ run[r].state = "none"
  /\ \E c \in Content :
       HasRow(c) /\ run' = [run EXCEPT ![r] = [state |-> "live", id |-> rows[c].id]]
  /\ UNCHANGED <<phase, rows, old, nextId, files, temps, upload, scenario, faults, sweep>>

FinishRun(r) ==
  /\ phase = "serving" /\ run[r].state = "live"
  /\ run' = [run EXCEPT ![r].state = "ended"]
  /\ UNCHANGED <<phase, rows, old, nextId, files, temps, upload, scenario, faults, sweep>>

(* Time passes: something is now older than retention_days.                   *)
Ages ==
  /\ \/ \E c \in Content :
          HasRow(c) /\ old' = old \cup {rows[c].id} /\ UNCHANGED run
     \/ \E r \in Run :
          /\ run[r].state = "ended"
          /\ run' = [run EXCEPT ![r].state = "old"] /\ UNCHANGED old
  /\ UNCHANGED <<phase, rows, nextId, files, temps, upload, scenario, faults, sweep>>

-----------------------------------------------------------------------------
(* main: start-up before anything is served *)

Boot ==
  /\ phase = "down"
  /\ run' = [r \in Run |-> IF run[r].state = "live" THEN [run[r] EXCEPT !.state = "ended"]
                                                    ELSE run[r]]
  /\ phase' = IF Retention THEN "retain" ELSE "serving"
  /\ UNCHANGED <<rows, old, nextId, files, temps, upload, scenario, faults, sweep>>

ApplyRetention ==
  /\ phase = "retain"
  /\ run' = [r \in Run |-> IF run[r].state = "old" THEN [state |-> "none", id |-> 0] ELSE run[r]]
  /\ phase' = "list"
  /\ UNCHANGED <<rows, old, nextId, files, temps, upload, scenario, faults, sweep>>

(* Mutant of Orphans: only what still has its file.                          *)
OrphansWithFile == {c \in files : HasRow(c) /\ rows[c].id \in old}
Orphans == {c \in Content : HasRow(c) /\ rows[c].id \in old}

ListOrphans ==
  /\ phase = "list"
  /\ todo' = Orphans
  /\ phase' = "sweep"
  /\ UNCHANGED <<swept, rows, old, nextId, files, temps, upload, faults, refs>>

(* Mutant of Referenced: runs are not counted.                               *)
ReferencedByScenario(i) == \E s \in Scenario : scenario[s] = i

(* The two counts, over the bodies of scenarios and the snapshots of runs.    *)
Referenced(i) ==
  \/ \E s \in Scenario : scenario[s] = i
  \/ \E r \in Run : run[r].state # "none" /\ run[r].id = i

SweepFile(c) ==
  /\ phase = "sweep" /\ swept = None /\ c \in todo
  /\ \/ /\ Referenced(rows[c].id)
        /\ todo' = todo \ {c} /\ UNCHANGED <<files, swept, faults>>
     \/ /\ ~Referenced(rows[c].id)
        /\ files' = files \ {c} /\ swept' = c /\ UNCHANGED <<todo, faults>>
     \/ /\ ~Referenced(rows[c].id) /\ c \in files   \* remove_file fails
        /\ Fault
        /\ todo' = todo \ {c} /\ UNCHANGED <<files, swept>>
  /\ UNCHANGED <<phase, rows, old, nextId, temps, upload, refs>>

SweepRow ==
  /\ phase = "sweep" /\ swept # None
  /\ rows' = [rows EXCEPT ![swept] = None]
  /\ todo' = todo \ {swept} /\ swept' = None
  /\ UNCHANGED <<phase, old, nextId, files, temps, upload, faults, refs>>

Serve ==
  /\ phase = "sweep" /\ swept = None /\ todo = {}
  /\ phase' = "serving"
  /\ UNCHANGED <<rows, old, nextId, files, temps, upload, faults, sweep, refs>>

Crash ==
  /\ phase # "down" /\ Fault
  /\ phase' = "down"
  /\ todo' = {} /\ swept' = None
  /\ upload' = [u \in Upload |-> IF InProgress(u) THEN [upload[u] EXCEPT !.pc = "gone"]
                                                  ELSE upload[u]]
  /\ UNCHANGED <<rows, old, nextId, files, temps, refs>>

Next ==
  \/ \E u \in Upload :
       \/ UploadBegins(u) \/ UploadReceived(u) \/ UploadAnalysed(u) \/ UploadLooks(u)
       \/ UploadKept(u) \/ UploadInserts(u) \/ UploadSelects(u) \/ UploadDropped(u)
  \/ \E s \in Scenario : SaveScenario(s)
  \/ \E r \in Run : StartRun(r) \/ FinishRun(r)
  \/ Ages
  \/ Boot \/ ApplyRetention \/ ListOrphans \/ SweepRow \/ Serve \/ Crash
  \/ \E c \in Content : SweepFile(c)

Spec == Init /\ [][Next]_vars

-----------------------------------------------------------------------------
(* Properties *)

(* While Control serves, a row has its file, so that the transfer to an Agent *)
(* can open it: also after a crash between removing the file and the row, and *)
(* when uploads of the same bytes overlap.                                    *)
ServedRowHasFile == phase = "serving" => \A c \in Content : HasRow(c) => c \in files

(* What a saved scenario or a remaining run names is never removed.           *)
ReferencedIsKept ==
  /\ \A s \in Scenario : scenario[s] # 0 => Known(scenario[s])
  /\ \A r \in Run : run[r].state # "none" => Known(run[r].id)

(* An upload is answered with the id of a row that has its bytes and kind,    *)
(* whoever stored them first, and the file is there.                          *)
AnsweredWithItsBytes ==
  [][\A u \in Upload :
       upload'[u].pc = "done" /\ upload[u].pc # "done" =>
         LET c == upload'[u].bytes IN
         /\ rows'[c] # None /\ c \in files'
         /\ rows'[c].id = upload'[u].id /\ rows'[c].kind = upload'[u].kind]_vars

=============================================================================
