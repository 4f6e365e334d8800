------------------------- MODULE ArtifactStore_proofs -------------------------
(* Control's artifacts, for any contents, uploads, scenarios and runs, and any *)
(* number of crashes: a row that is served has its file, what is referred to   *)
(* is kept, and an upload is answered with a row of its bytes.                 *)
EXTENDS ArtifactStore, TLAPS

(* While Control starts up no upload is in progress: the handlers died with    *)
(* the process, and nothing is served yet.                                    *)
Quiet == phase # "serving" => \A u \in Upload : ~InProgress(u)

(* An upload past its look at the file, or past its rename, has its file.      *)
Placed ==
  \A u \in Upload :
    upload[u].pc \in {"discard", "insert", "select"} => upload[u].bytes \in files

(* A row without its file is one the clean-up meant to remove, and it is still *)
(* to be removed: old, without references, and among those to look at.         *)
LostRowsAreOrphans ==
  \A c \in Content : HasRow(c) /\ c \notin files =>
    /\ Retention /\ phase # "serving"
    /\ rows[c].id \in old /\ ~Referenced(rows[c].id)
    /\ phase = "sweep" => c \in todo

(* What the clean-up is about to remove from the table has a row and no        *)
(* references.                                                                *)
SweptIsUnreferenced ==
  swept # None =>
    phase = "sweep" /\ swept \in todo /\ swept \in Content /\ HasRow(swept)
      /\ ~Referenced(rows[swept].id)

(* The rows clean-up has to look at are there while it does.                   *)
TodoHasRows ==
  /\ todo \subseteq Content
  /\ todo # {} => phase = "sweep"
  /\ \A c \in todo : HasRow(c) /\ rows[c].id \in old

(* Nothing is cleaned up unless a retention is configured.                     *)
SweepsByRetention == phase \in {"retain", "list", "sweep"} => Retention

IInv ==
  /\ TypeOK
  /\ SweepsByRetention
  /\ Quiet /\ Placed
  /\ LostRowsAreOrphans /\ SweptIsUnreferenced /\ TodoHasRows
  /\ ReferencedIsKept

-----------------------------------------------------------------------------
(* Types *)

UploadType ==
  /\ upload \in [Upload -> UploadState]
  /\ \A u \in Upload : upload[u].pc # "idle" => upload[u].bytes \in Content

LEMMA TypeInit == Init => TypeOK
BY StoreAssumption DEF Init, TypeOK, Row, Kind, Phase, UploadState, UploadPc, RunState,
                       Unused

LEMMA MovesType ==
  ASSUME TypeOK, NEW u \in Upload, NEW pc \in UploadPc, upload[u].pc # "idle", Moves(u, pc)
  PROVE  UploadType'
BY DEF TypeOK, UploadType, Moves, UploadState

LEMMA AnswerType ==
  ASSUME TypeOK, NEW u \in Upload, NEW i \in Nat,
         upload[u].pc # "idle",
         upload' = [upload EXCEPT ![u].pc = "done", ![u].id = i]
  PROVE  UploadType'
BY ZenonT(90) DEF TypeOK, UploadType, UploadState, UploadPc

LEMMA TypeUpload ==
  ASSUME TypeOK, NEW u \in Upload,
         UploadBegins(u) \/ UploadReceived(u) \/ UploadAnalysed(u) \/ UploadLooks(u)
           \/ UploadKept(u) \/ UploadInserts(u) \/ UploadSelects(u) \/ UploadDropped(u)
  PROVE  TypeOK'
<1> USE DEF UploadPc
<1>1. CASE UploadBegins(u)
  <2>1. PICK c \in Content, k \in Kind :
          upload' = [upload EXCEPT ![u] = [pc |-> "receive", bytes |-> c, kind |-> k, id |-> 0]]
    BY <1>1 DEF UploadBegins
  <2>2. UploadType'
    <3>1. [pc |-> "receive", bytes |-> c, kind |-> k, id |-> 0] \in UploadState
      BY DEF UploadState
    <3> QED  BY <2>1, <3>1 DEF TypeOK, UploadType
  <2> QED  BY <1>1, <2>2 DEF UploadBegins, TypeOK, UploadType, sweep, refs
<1>2. CASE UploadReceived(u)
  <2>1. UploadType'
    BY <1>2, MovesType DEF UploadReceived
  <2> QED  BY <1>2, <2>1, StoreAssumption DEF UploadReceived, TypeOK, UploadType, Fault, sweep, refs
<1>3. CASE UploadAnalysed(u)
  <2>1. UploadType'
    BY <1>3, MovesType DEF UploadAnalysed
  <2> QED  BY <1>3, <2>1 DEF UploadAnalysed, TypeOK, UploadType, sweep, refs
<1>4. CASE UploadLooks(u)
  <2>1. UploadType'
    BY <1>4, MovesType DEF UploadLooks
  <2> QED  BY <1>4, <2>1 DEF UploadLooks, TypeOK, UploadType, sweep, refs
<1>5. CASE UploadKept(u)
  <2>1. UploadType'
    BY <1>5, MovesType DEF UploadKept
  <2>2. upload[u].pc = "place" => upload[u].bytes \in Content
    BY <1>5 DEF UploadKept, TypeOK
  <2> QED  BY <1>5, <2>1, <2>2 DEF UploadKept, TypeOK, UploadType, sweep, refs
<1>6. CASE UploadInserts(u)
  <2>1. UploadType'
    <3>1. CASE Moves(u, "select")
      BY <1>6, <3>1, MovesType DEF UploadInserts
    <3>2. CASE upload' = [upload EXCEPT ![u].pc = "done", ![u].id = nextId]
      BY <1>6, <3>2, AnswerType DEF TypeOK, UploadInserts
    <3> QED  BY <1>6, <3>1, <3>2 DEF UploadInserts
  <2>2. rows' \in [Content -> Row \cup {None}] /\ nextId' \in Nat
    BY <1>6 DEF UploadInserts, TypeOK, Row, UploadState
  <2> QED  BY <1>6, <2>1, <2>2 DEF UploadInserts, TypeOK, UploadType, sweep, refs
<1>7. CASE UploadSelects(u)
  <2>1. UploadType'
    <3>1. CASE Moves(u, "refused")
      BY <1>7, <3>1, MovesType DEF UploadSelects
    <3>2. CASE /\ HasRow(upload[u].bytes)
               /\ upload' = [upload EXCEPT ![u].pc = "done",
                                           ![u].id = rows[upload[u].bytes].id]
      <4>1. rows[upload[u].bytes].id \in Nat
        BY <1>7, <3>2 DEF TypeOK, UploadState, HasRow, Row, UploadSelects
      <4> QED  BY <1>7, <3>2, <4>1, AnswerType DEF UploadSelects
    <3> QED  BY <1>7, <3>1, <3>2 DEF UploadSelects
  <2> QED  BY <1>7, <2>1 DEF UploadSelects, TypeOK, UploadType, sweep, refs
<1>8. CASE UploadDropped(u)
  <2>1. UploadType'
    BY <1>8, MovesType DEF UploadDropped, InProgress
  <2> QED  BY <1>8, <2>1, StoreAssumption DEF UploadDropped, TypeOK, UploadType, Fault, sweep, refs
<1> QED  BY <1>1, <1>2, <1>3, <1>4, <1>5, <1>6, <1>7, <1>8

LEMMA TypeRefs ==
  ASSUME TypeOK,
         Ages \/ (\E s \in Scenario : SaveScenario(s))
           \/ (\E r \in Run : StartRun(r) \/ FinishRun(r))
  PROVE  TypeOK'
<1> USE StoreAssumption, NoneAssumption DEF TypeOK, RunState, Row, sweep
<1>1. CASE Ages
  BY <1>1 DEF Ages, HasRow
<1>2. ASSUME NEW s \in Scenario, SaveScenario(s) PROVE TypeOK'
  BY <1>2 DEF SaveScenario, HasRow
<1>3. ASSUME NEW r \in Run, StartRun(r) PROVE TypeOK'
  BY <1>3 DEF StartRun, HasRow
<1>4. ASSUME NEW r \in Run, FinishRun(r) PROVE TypeOK'
  BY <1>4 DEF FinishRun
<1> QED  BY <1>1, <1>2, <1>3, <1>4

LEMMA TypeStartUp ==
  ASSUME TypeOK,
         Boot \/ ApplyRetention \/ ListOrphans \/ SweepRow \/ Serve \/ Crash
           \/ (\E c \in Content : SweepFile(c))
  PROVE  TypeOK'
<1> USE StoreAssumption, NoneAssumption DEF TypeOK, Phase, sweep, refs
<1>1. CASE Boot
  BY <1>1 DEF Boot, RunState
<1>2. CASE ApplyRetention
  BY <1>2 DEF ApplyRetention, RunState
<1>3. CASE ListOrphans
  BY <1>3 DEF ListOrphans, Orphans
<1>4. CASE SweepRow
  BY <1>4 DEF SweepRow
<1>5. CASE Serve
  BY <1>5 DEF Serve
<1>6. CASE Crash
  <2>1. UploadType'
    <3>1. \A u \in Upload : [upload[u] EXCEPT !.pc = "gone"] \in UploadState
      BY DEF TypeOK, UploadState, UploadPc
    <3> QED  BY <1>6, <3>1 DEF Crash, TypeOK, UploadType, InProgress, UploadState
  <2> QED  BY <1>6, <2>1 DEF Crash, Fault, UploadType
<1>7. ASSUME NEW c \in Content, SweepFile(c) PROVE TypeOK'
  BY <1>7 DEF SweepFile, Fault
<1> QED  BY <1>1, <1>2, <1>3, <1>4, <1>5, <1>6, <1>7

LEMMA TypeNext == TypeOK /\ [Next]_vars => TypeOK'
<1> SUFFICES ASSUME TypeOK, [Next]_vars PROVE TypeOK'
  OBVIOUS
<1>1. CASE UNCHANGED vars
  BY <1>1 DEF vars, TypeOK, sweep, refs
<1>2. CASE Next
  BY <1>2, TypeUpload, TypeRefs, TypeStartUp DEF Next
<1> QED  BY <1>1, <1>2

-----------------------------------------------------------------------------
(* The invariant *)

Promises ==
  /\ SweepsByRetention
  /\ Quiet /\ Placed
  /\ LostRowsAreOrphans /\ SweptIsUnreferenced /\ TodoHasRows
  /\ ReferencedIsKept

LEMMA InvInit == Init => IInv
<1> SUFFICES ASSUME Init PROVE IInv
  OBVIOUS
<1>1. TypeOK
  BY TypeInit
<1>2. Quiet /\ Placed /\ SweepsByRetention
  BY DEF Init, SweepsByRetention, Quiet, Placed, Unused
<1>3. LostRowsAreOrphans /\ SweptIsUnreferenced /\ TodoHasRows
  BY DEF Init, LostRowsAreOrphans, SweptIsUnreferenced, TodoHasRows, HasRow
<1>4. ReferencedIsKept
  BY DEF Init, ReferencedIsKept
<1> QED  BY <1>1, <1>2, <1>3, <1>4 DEF IInv

(* Rows only stay or are added: whatever is known stays known.                 *)
LEMMA RowsStay ==
  ASSUME ReferencedIsKept, UNCHANGED <<scenario, run>>,
         \A c \in Content : HasRow(c) => rows'[c] = rows[c]
  PROVE  ReferencedIsKept'
<1>1. ASSUME NEW i, Known(i) PROVE Known(i)'
  BY <1>1 DEF Known, HasRow
<1> QED  BY <1>1 DEF ReferencedIsKept

(* An upload that has nothing to do with rows: the file of a row stays, and    *)
(* nobody else's upload changes.                                              *)
LEMMA InvUpload ==
  ASSUME IInv, TypeOK', NEW u \in Upload,
         UploadBegins(u) \/ UploadReceived(u) \/ UploadAnalysed(u) \/ UploadLooks(u)
           \/ UploadKept(u) \/ UploadInserts(u) \/ UploadSelects(u) \/ UploadDropped(u)
  PROVE  Promises'
<1>1. /\ phase = "serving" /\ phase' = phase /\ todo' = todo /\ swept' = swept
      /\ scenario' = scenario /\ run' = run /\ old' = old
  BY DEF IInv, Quiet, InProgress, UploadBegins, UploadReceived, UploadAnalysed,
         UploadLooks, UploadKept, UploadInserts, UploadSelects, UploadDropped, sweep, refs
<1>2. \A v \in Upload \ {u} : upload'[v] = upload[v]
  BY DEF IInv, TypeOK, UploadBegins, UploadReceived, UploadAnalysed, UploadLooks,
         UploadKept, UploadInserts, UploadSelects, UploadDropped, Moves
<1>3. /\ files \subseteq files'
      /\ upload'[u].pc \in {"discard", "insert", "select"} => upload'[u].bytes \in files'
  <2> USE DEF IInv, TypeOK, UploadState
  <2>1. CASE UploadBegins(u)
    BY <2>1 DEF UploadBegins
  <2>2. CASE UploadReceived(u) \/ UploadAnalysed(u) \/ UploadSelects(u) \/ UploadDropped(u)
    BY <2>2 DEF UploadReceived, UploadAnalysed, UploadSelects, UploadDropped, Moves
  <2>3. CASE UploadLooks(u)
    BY <2>3 DEF UploadLooks, Moves
  <2>4. CASE UploadKept(u)
    BY <2>4 DEF UploadKept, Moves, Placed
  <2>5. CASE UploadInserts(u)
    BY <2>5 DEF UploadInserts, Moves, Placed
  <2> QED  BY <2>1, <2>2, <2>3, <2>4, <2>5
<1>4. \A c \in Content :
        /\ HasRow(c) => rows'[c] = rows[c]
        /\ HasRow(c)' /\ ~HasRow(c) => c \in files
  <2>1. CASE UploadInserts(u)
    BY <2>1 DEF UploadInserts, IInv, TypeOK, Placed, HasRow
  <2>2. CASE rows' = rows
    BY <2>2 DEF HasRow
  <2> QED  BY <2>1, <2>2 DEF UploadBegins, UploadReceived, UploadAnalysed, UploadLooks,
                             UploadKept, UploadSelects, UploadDropped
<1>5. Quiet' /\ SweepsByRetention'
  BY <1>1 DEF Quiet, SweepsByRetention
<1>6. Placed'
  BY <1>2, <1>3 DEF IInv, Placed
<1>7. LostRowsAreOrphans'
  BY <1>1, <1>3, <1>4 DEF IInv, LostRowsAreOrphans
<1>8. SweptIsUnreferenced' /\ TodoHasRows'
  BY <1>1 DEF IInv, SweptIsUnreferenced, TodoHasRows
<1>9. ReferencedIsKept'
  BY <1>1, <1>4, RowsStay DEF IInv
<1> QED  BY <1>5, <1>6, <1>7, <1>8, <1>9 DEF Promises

LEMMA InvRefs ==
  ASSUME IInv, TypeOK',
         Ages \/ (\E s \in Scenario : SaveScenario(s))
           \/ (\E r \in Run : StartRun(r) \/ FinishRun(r))
  PROVE  Promises'
<1>1. UNCHANGED <<phase, todo, swept, rows, files, upload>> /\ old \subseteq old'
  BY DEF Ages, SaveScenario, StartRun, FinishRun, sweep
<1>2. phase # "serving" => \A i : Referenced(i)' => Referenced(i)
  BY DEF Ages, SaveScenario, StartRun, FinishRun, Referenced, IInv, TypeOK, RunState
<1>3. ReferencedIsKept'
  <2>1. \A i : Known(i)' <=> Known(i)
    BY <1>1 DEF Known, HasRow
  <2>2. ASSUME NEW s \in Scenario, SaveScenario(s) PROVE ReferencedIsKept'
    <3>1. PICK i : (i = 0 \/ Known(i)) /\ scenario' = [scenario EXCEPT ![s] = i]
      BY <2>2 DEF SaveScenario, Known
    <3>2. run' = run
      BY <2>2 DEF SaveScenario
    <3> QED  BY <2>1, <3>1, <3>2 DEF IInv, TypeOK, ReferencedIsKept
  <2>3. ASSUME NEW r \in Run, StartRun(r) PROVE ReferencedIsKept'
    <3>1. PICK i : Known(i) /\ run' = [run EXCEPT ![r] = [state |-> "live", id |-> i]]
      BY <2>3 DEF StartRun, Known
    <3>2. scenario' = scenario
      BY <2>3 DEF StartRun
    <3> QED  BY <2>1, <3>1, <3>2 DEF IInv, TypeOK, ReferencedIsKept
  <2>4. CASE Ages \/ \E r \in Run : FinishRun(r)
    BY <2>1, <2>4 DEF Ages, FinishRun, IInv, TypeOK, RunState, ReferencedIsKept
  <2> QED  BY <2>2, <2>3, <2>4
<1>4. Quiet' /\ Placed' /\ SweepsByRetention'
  BY <1>1 DEF IInv, Quiet, Placed, SweepsByRetention, InProgress
<1>5. LostRowsAreOrphans'
  BY <1>1, <1>2 DEF IInv, LostRowsAreOrphans, HasRow
<1>6. SweptIsUnreferenced'
  BY <1>1, <1>2 DEF IInv, SweptIsUnreferenced, HasRow
<1>7. TodoHasRows'
  BY <1>1 DEF IInv, TodoHasRows, HasRow
<1> QED  BY <1>3, <1>4, <1>5, <1>6, <1>7 DEF Promises

(* A step of the start-up that changes no row, no file and no upload: what     *)
(* refers to an artifact may only go.                                         *)
LEMMA InvStartUpOutsideSweep ==
  ASSUME IInv, TypeOK', Boot \/ ApplyRetention \/ ListOrphans \/ Serve
  PROVE  Promises'
<1>1. UNCHANGED <<rows, files, upload, old, scenario, swept>>
  BY DEF Boot, ApplyRetention, ListOrphans, Serve, sweep, refs
<1>2. \A i : Referenced(i)' => Referenced(i)
  BY DEF Boot, ApplyRetention, ListOrphans, Serve, refs, Referenced, IInv, TypeOK, RunState
<1>3. ReferencedIsKept'
  <2>1. \A i : Known(i)' <=> Known(i)
    BY <1>1 DEF Known, HasRow
  <2>2. \A r \in Run : run'[r].state # "none" => run[r].state # "none" /\ run'[r].id = run[r].id
    BY DEF Boot, ApplyRetention, ListOrphans, Serve, refs, IInv, TypeOK, RunState
  <2> QED  BY <1>1, <2>1, <2>2 DEF IInv, ReferencedIsKept
<1>4. phase # "serving"
  BY DEF Boot, ApplyRetention, ListOrphans, Serve
<1>5. Quiet' /\ Placed' /\ SweepsByRetention'
  BY <1>1, <1>4 DEF Boot, ApplyRetention, ListOrphans, Serve, IInv, Quiet, Placed,
     SweepsByRetention, InProgress
<1>6. LostRowsAreOrphans'
  <2>1. CASE Boot \/ ApplyRetention
    BY <1>1, <1>2, <2>1 DEF Boot, ApplyRetention, IInv, LostRowsAreOrphans, HasRow
  <2>2. CASE ListOrphans
    BY <1>1, <1>2, <2>2 DEF ListOrphans, Orphans, IInv, LostRowsAreOrphans, HasRow
  <2>3. CASE Serve
    BY <1>1, <2>3 DEF Serve, IInv, LostRowsAreOrphans, HasRow
  <2> QED  BY <2>1, <2>2, <2>3
<1>7. swept = None
  BY DEF Boot, ApplyRetention, ListOrphans, Serve, IInv, SweptIsUnreferenced
<1>8. SweptIsUnreferenced'
  BY <1>1, <1>7 DEF SweptIsUnreferenced
<1>9. TodoHasRows'
  BY <1>1 DEF Boot, ApplyRetention, ListOrphans, Orphans, Serve, sweep, IInv, TodoHasRows, HasRow
<1> QED  BY <1>3, <1>5, <1>6, <1>8, <1>9 DEF Promises

LEMMA InvSweepFile ==
  ASSUME IInv, TypeOK', NEW c \in Content, SweepFile(c)
  PROVE  Promises'
<1>1. /\ UNCHANGED <<phase, rows, upload, old, scenario, run>>
      /\ phase = "sweep" /\ swept = None /\ c \in todo /\ HasRow(c) /\ rows[c].id \in old
  BY DEF SweepFile, refs, IInv, TodoHasRows
<1>2. \A i : Referenced(i)' <=> Referenced(i)
  BY <1>1 DEF Referenced
<1>3. ReferencedIsKept'
  BY <1>1, RowsStay DEF IInv
<1>4. Quiet' /\ Placed' /\ SweepsByRetention'
  BY <1>1 DEF IInv, Quiet, Placed, SweepsByRetention, InProgress
<1>5. CASE Referenced(rows[c].id) /\ todo' = todo \ {c} /\ UNCHANGED <<files, swept>>
  BY <1>1, <1>2, <1>3, <1>4, <1>5
     DEF Promises, IInv, LostRowsAreOrphans, SweptIsUnreferenced, TodoHasRows, HasRow
<1>6. CASE c \in files /\ todo' = todo \ {c} /\ UNCHANGED <<files, swept>>
  BY <1>1, <1>2, <1>3, <1>4, <1>6
     DEF Promises, IInv, LostRowsAreOrphans, SweptIsUnreferenced, TodoHasRows, HasRow
<1>7. CASE /\ ~Referenced(rows[c].id) /\ files' = files \ {c} /\ swept' = c
           /\ todo' = todo
  <2>1. Retention
    BY <1>1 DEF IInv, SweepsByRetention
  <2> QED  BY <1>1, <1>2, <1>3, <1>4, <1>7, <2>1
     DEF Promises, IInv, LostRowsAreOrphans, SweptIsUnreferenced, TodoHasRows, HasRow
<1> QED  BY <1>5, <1>6, <1>7 DEF SweepFile

LEMMA InvSweepRow ==
  ASSUME IInv, TypeOK', SweepRow
  PROVE  Promises'
<1>1. /\ UNCHANGED <<phase, files, upload, old, scenario, run>>
      /\ phase = "sweep" /\ swept # None /\ swept \in Content /\ swept \in todo
      /\ ~Referenced(rows[swept].id)
  BY DEF SweepRow, refs, IInv, SweptIsUnreferenced
<1>2. /\ rows'[swept] = None
      /\ \A c \in Content \ {swept} : rows'[c] = rows[c]
  BY <1>1 DEF SweepRow, IInv, TypeOK, HasRow
<1>3. \A i : Referenced(i)' <=> Referenced(i)
  BY <1>1 DEF Referenced
<1>4. ReferencedIsKept'
  <2>1. \A i : Referenced(i) /\ Known(i) => Known(i)'
    BY <1>1, <1>2 DEF Known, HasRow
  <2> QED  BY <1>1, <2>1 DEF IInv, ReferencedIsKept, Referenced
<1>5. Quiet' /\ Placed' /\ SweepsByRetention'
  BY <1>1 DEF IInv, Quiet, Placed, SweepsByRetention, InProgress
<1>6. LostRowsAreOrphans'
  BY <1>1, <1>2, <1>3 DEF SweepRow, IInv, LostRowsAreOrphans, HasRow
<1>7. SweptIsUnreferenced' /\ TodoHasRows'
  BY <1>1, <1>2 DEF SweepRow, IInv, SweptIsUnreferenced, TodoHasRows, HasRow
<1> QED  BY <1>4, <1>5, <1>6, <1>7 DEF Promises

LEMMA InvCrash ==
  ASSUME IInv, TypeOK', Crash
  PROVE  Promises'
<1>1. /\ UNCHANGED <<rows, files, old, scenario, run>>
      /\ phase' = "down" /\ todo' = {} /\ swept' = None
  BY DEF Crash, refs
<1>2. ReferencedIsKept'
  BY <1>1, RowsStay DEF IInv
<1>3. \A i : Referenced(i)' <=> Referenced(i)
  BY <1>1 DEF Referenced
<1>4. Quiet' /\ Placed' /\ SweepsByRetention'
  <2>1. \A u \in Upload : upload'[u] = IF InProgress(u) THEN [upload[u] EXCEPT !.pc = "gone"]
                                                        ELSE upload[u]
    BY DEF Crash
  <2>2. \A u \in Upload : upload'[u].pc \in {"idle", "done", "refused", "gone"}
    BY <2>1 DEF IInv, TypeOK, UploadState, UploadPc, InProgress
  <2> QED  BY <1>1, <2>2 DEF Quiet, Placed, SweepsByRetention, InProgress
<1>5. LostRowsAreOrphans' /\ SweptIsUnreferenced' /\ TodoHasRows'
  BY <1>1, <1>3 DEF IInv, LostRowsAreOrphans, SweptIsUnreferenced, TodoHasRows, HasRow
<1> QED  BY <1>2, <1>4, <1>5 DEF Promises

LEMMA InvNext == IInv /\ [Next]_vars => IInv'
<1> SUFFICES ASSUME IInv, [Next]_vars PROVE IInv'
  OBVIOUS
<1>1. TypeOK'
  BY TypeNext DEF IInv
<1>2. CASE UNCHANGED vars
  <2>1. Promises'
    BY <1>2 DEF vars, sweep, refs, IInv, Promises, Quiet, Placed, SweepsByRetention,
      InProgress, HasRow, Known,
      Referenced, LostRowsAreOrphans, SweptIsUnreferenced, TodoHasRows, ReferencedIsKept
  <2> QED  BY <1>1, <2>1 DEF IInv, Promises
<1>3. CASE Next
  <2>1. Promises'
    BY <1>1, <1>3, InvUpload, InvRefs, InvStartUpOutsideSweep, InvSweepFile, InvSweepRow,
       InvCrash DEF Next
  <2> QED  BY <1>1, <2>1 DEF IInv, Promises
<1> QED  BY <1>2, <1>3

LEMMA StoreInvariant == Spec => []IInv
BY InvInit, InvNext, PTL DEF Spec

(* Every reachable state of the artifact store is type correct.               *)
THEOREM StoreTypeCorrect == Spec => []TypeOK
<1>1. IInv => TypeOK
  BY DEF IInv
<1> QED  BY <1>1, StoreInvariant, PTL

(* While Control serves, a row has its file: whatever crashes, uploads and     *)
(* clean-ups went before, the transfer to an Agent can open it.                *)
THEOREM StoreServesFiles == Spec => []ServedRowHasFile
<1>1. IInv => ServedRowHasFile
  BY DEF IInv, LostRowsAreOrphans, ServedRowHasFile
<1> QED  BY <1>1, StoreInvariant, PTL

(* Retention and clean-up never remove what a scenario or a run names.         *)
THEOREM StoreKeepsReferenced == Spec => []ReferencedIsKept
<1>1. IInv => ReferencedIsKept
  BY DEF IInv
<1> QED  BY <1>1, StoreInvariant, PTL

(* An upload is answered with the id of a row that has its bytes and its kind, *)
(* and the file is there.                                                      *)
THEOREM StoreAnswers == Spec => AnsweredWithItsBytes
<1> DEFINE Answers ==
      \A u \in Upload :
        upload'[u].pc = "done" /\ upload[u].pc # "done" =>
          LET c == upload'[u].bytes IN
          /\ rows'[c] # None /\ c \in files'
          /\ rows'[c].id = upload'[u].id /\ rows'[c].kind = upload'[u].kind
<1>1. IInv /\ [Next]_vars => [Answers]_vars
  <2> SUFFICES ASSUME IInv, Next, NEW u \in Upload,
                      upload'[u].pc = "done", upload[u].pc # "done"
               PROVE  LET c == upload'[u].bytes IN
                      /\ rows'[c] # None /\ c \in files'
                      /\ rows'[c].id = upload'[u].id /\ rows'[c].kind = upload'[u].kind
    OBVIOUS
  <2>1. UploadInserts(u) \/ UploadSelects(u)
    <3> USE DEF IInv, TypeOK, UploadState
    <3>1. ASSUME NEW v \in Upload, v # u,
                 \/ UploadBegins(v) \/ UploadReceived(v) \/ UploadAnalysed(v)
                 \/ UploadLooks(v) \/ UploadKept(v) \/ UploadInserts(v)
                 \/ UploadSelects(v) \/ UploadDropped(v)
          PROVE  FALSE
      BY <3>1 DEF UploadBegins, UploadReceived, UploadAnalysed, UploadLooks, UploadKept,
         UploadInserts, UploadSelects, UploadDropped, Moves
    <3>2. CASE UploadBegins(u) \/ UploadReceived(u) \/ UploadAnalysed(u) \/ UploadLooks(u)
      BY <3>2 DEF UploadBegins, UploadReceived, UploadAnalysed, UploadLooks, Moves
    <3>3. CASE UploadKept(u) \/ UploadDropped(u)
      BY <3>3 DEF UploadKept, UploadDropped, Moves
    <3>4. CASE Crash
      BY <3>4 DEF Crash
    <3>5. CASE upload' = upload
      BY <3>5
    <3> QED  BY <3>1, <3>2, <3>3, <3>4, <3>5 DEF Next, SaveScenario, StartRun, FinishRun,
         Ages, Boot, ApplyRetention, ListOrphans, SweepRow, Serve, SweepFile
  <2>2. CASE UploadInserts(u)
    <3>1. /\ upload[u].bytes \in Content /\ upload[u].bytes \in files
          /\ upload[u].kind \in Kind
      BY <2>2 DEF UploadInserts, IInv, TypeOK, UploadState, Placed
    <3>2. [id |-> nextId, kind |-> upload[u].kind] # None
      BY <3>1, NoneAssumption DEF Row, IInv, TypeOK
    <3> QED  BY <2>2, <3>1, <3>2 DEF UploadInserts, Moves, IInv, TypeOK, UploadState
  <2>3. CASE UploadSelects(u)
    BY <2>3 DEF UploadSelects, Moves, HasRow, IInv, TypeOK, UploadState, Placed
  <2> QED  BY <2>1, <2>2, <2>3
<1> QED  BY <1>1, StoreInvariant, PTL DEF Spec, AnsweredWithItsBytes
=============================================================================
