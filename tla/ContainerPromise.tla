-------------------------- MODULE ContainerPromise ---------------------------
(***************************************************************************)
(* What ContainerManager promises a program that is alone with a           *)
(* container: the life cycle of container/state.py, tied to the container  *)
(* process.  A container has at most one process, not counting those that  *)
(* a failed start() has left behind, which wait for ever and run nothing;  *)
(* the state becomes stopped only when its process is down, and nothing    *)
(* whose process is up is removed.                                         *)
(***************************************************************************)
CONSTANT Process

VARIABLES
  st,    \* "none", "created", "running", "stopped" or "removed"
  up,    \* the container processes that are alive
  stray  \* those left behind by a start() that failed

vars == <<st, up, stray>>

Init == st = "none" /\ up = {} /\ stray = {}

Create == st = "none" /\ st' = "created" /\ UNCHANGED <<up, stray>>

Fork ==
  /\ st \in {"created", "stopped"} /\ up = {}
  /\ \E p \in Process \ stray : up' = {p}
  /\ UNCHANGED <<st, stray>>

\* start() raises before it has released the process.
Strand ==
  /\ st \in {"created", "stopped"} /\ up # {}
  /\ stray' = stray \cup up
  /\ up' = {}
  /\ UNCHANGED st

\* A process that dies before start() has returned was never running.
Publish == st \in {"created", "stopped"} /\ st' = "running" /\ UNCHANGED <<up, stray>>

Die == up # {} /\ up' = {} /\ UNCHANGED <<st, stray>>

StrayDies == \E p \in stray : stray' = stray \ {p} /\ UNCHANGED <<st, up>>

NoteDead == st = "running" /\ up = {} /\ st' = "stopped" /\ UNCHANGED <<up, stray>>

Remove ==
  /\ st \in {"created", "stopped"} /\ up = {}
  /\ st' = "removed"
  /\ UNCHANGED <<up, stray>>

Next ==
  \/ Create \/ Fork \/ Strand \/ Publish \/ Die \/ StrayDies \/ NoteDead \/ Remove

Spec == Init /\ [][Next]_vars
==============================================================================
