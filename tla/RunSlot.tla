------------------------------ MODULE RunSlot ------------------------------
(***************************************************************************)
(* What the run lifecycle promises to everybody else: Control has one slot *)
(* for a test, a run takes it at most once, and a run that was started     *)
(* leaves it only with its end on record.  A restart of Control empties    *)
(* the slot and records the end of every run it left open.                 *)
(***************************************************************************)
EXTENDS FiniteSets

CONSTANTS Run, None

VARIABLES
  slot,      \* the run that is being prepared, started or executed, or None
  started,   \* whether the run in the slot was started
  created,   \* runs that ever took the slot
  ended      \* runs whose end is on record

slotVars == <<slot, started, created, ended>>

SlotInit ==
  /\ slot = None
  /\ started = FALSE
  /\ created = {}
  /\ ended = {}

Take(r) ==
  /\ slot = None
  /\ r \notin created
  /\ slot' = r
  /\ created' = created \cup {r}
  /\ UNCHANGED <<started, ended>>

Begin ==
  /\ slot # None
  /\ ~started
  /\ started' = TRUE
  /\ UNCHANGED <<slot, created, ended>>

(* The request that was preparing the run is gone.                           *)
Abandon ==
  /\ slot # None
  /\ ~started
  /\ slot' = None
  /\ UNCHANGED <<started, created, ended>>

RecordEnd(r) ==
  /\ r \in created
  /\ ended' = ended \cup {r}
  /\ UNCHANGED <<slot, started, created>>

(* The end may have been recorded before, or is recorded with this step.     *)
Leave ==
  /\ slot # None
  /\ slot' = None
  /\ started' = FALSE
  /\ ended' = ended \cup {slot}
  /\ UNCHANGED created

Restart ==
  /\ slot' = None
  /\ started' = FALSE
  /\ ended' = created
  /\ UNCHANGED created

SlotNext ==
  \/ \E r \in Run : Take(r) \/ RecordEnd(r)
  \/ Begin \/ Abandon \/ Leave \/ Restart

SlotSpec == SlotInit /\ [][SlotNext]_slotVars
=============================================================================
