--------------------------- MODULE ContainerLaunch ----------------------------
(***************************************************************************)
(* What start() and the process it forks owe each other, from the fork to  *)
(* the end of the container: the child runs nothing of the container       *)
(* before its parent has let go of it, nobody records a process that was   *)
(* not released, and the child outlives the user's command, unless it was  *)
(* killed after its release.  InitHandshake, which has the pipes between   *)
(* the two, and ContainerLifecycle, which has the handshake as one step,   *)
(* both implement this.                                                    *)
(***************************************************************************)

VARIABLES
  starter,  \* "starting": in start(), "released": it has let the child go on,
            \* "gone": it has ended, which lets the child go on, too
  recorded, \* state.json names the child
  outer,    \* the child: "unborn", "alive" or "dead"
  inner     \* PID 1 of the container, later the user's command: "none", "alive"
            \* or "dead"

vars == <<starter, recorded, outer, inner>>

Init ==
  /\ starter = "starting" /\ ~recorded
  /\ outer \in {"unborn", "alive"} /\ inner = "none"

Fork ==
  /\ starter = "starting" /\ outer = "unborn"
  /\ outer' = "alive"
  /\ UNCHANGED <<starter, recorded, inner>>

\* Nothing is released that has died before.
Release ==
  /\ starter = "starting" /\ outer = "alive"
  /\ starter' = "released"
  /\ UNCHANGED <<recorded, outer, inner>>

Leave ==
  /\ outer # "unborn"
  /\ starter' = "gone"
  /\ UNCHANGED <<recorded, outer, inner>>

Record ==
  /\ starter = "released"
  /\ recorded' \in BOOLEAN
  /\ UNCHANGED <<starter, outer, inner>>

Run ==
  /\ starter # "starting" /\ outer = "alive" /\ inner = "none"
  /\ inner' = "alive"
  /\ UNCHANGED <<starter, recorded, outer>>

Exit ==
  /\ inner = "alive"
  /\ inner' = "dead"
  /\ UNCHANGED <<starter, recorded, outer>>

\* The set-up has failed, the command is over - or somebody knows the pid.
Die ==
  /\ outer = "alive"
  /\ inner = "alive" => starter = "released"
  /\ outer' = "dead"
  /\ UNCHANGED <<starter, recorded, inner>>

Next == Fork \/ Release \/ Leave \/ Record \/ Run \/ Exit \/ Die

Spec == Init /\ [][Next]_vars
==============================================================================
