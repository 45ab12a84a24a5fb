------------------------------- MODULE MCIpam --------------------------------
(***************************************************************************)
(* Model checking of Ipam.  Two processes race for the lock while either   *)
(* may hold addresses from earlier calls; with four hosts, one of them     *)
(* the gateway, three allocations exhaust the pool.                        *)
(***************************************************************************)
EXTENDS Ipam
CONSTANTS p1, p2
TwoProcs == {p1, p2}
==============================================================================
