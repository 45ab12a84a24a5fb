----------------------------- MODULE AddressPool -----------------------------
(***************************************************************************)
(* What pybox.network.ipam promises to its callers, with no file, no lock  *)
(* and no process: an address of the pool is handed to at most one caller  *)
(* at a time, and comes back to the pool only when its holder gives it     *)
(* back - unless the books are lost, which a save or a read of them that   *)
(* fails may do at any time.  Module Ipam is shown to implement this       *)
(* specification.                                                          *)
(***************************************************************************)

CONSTANTS
  Callers,    \* whoever calls allocate() and release()
  Addresses   \* the host addresses of the network, the gateway left out

VARIABLES
  held, \* held[c]: the addresses c was given and has not given back
  lost  \* the record of what is held has been lost

vars == <<held, lost>>

Init ==
  /\ held = [c \in Callers |-> {}]
  /\ lost = FALSE

Allocate(c, a) ==
  /\ lost \/ \A d \in Callers : a \notin held[d]
  /\ held' = [held EXCEPT ![c] = @ \cup {a}]
  /\ UNCHANGED lost

Release(c, a) ==
  /\ a \in held[c]
  /\ held' = [held EXCEPT ![c] = @ \ {a}]
  /\ UNCHANGED lost

Lose == lost' = TRUE /\ UNCHANGED held

Next ==
  \/ \E c \in Callers, a \in Addresses : Allocate(c, a) \/ Release(c, a)
  \/ Lose

Spec == Init /\ [][Next]_vars
==============================================================================
