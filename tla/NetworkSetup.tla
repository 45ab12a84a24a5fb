---------------------------- MODULE NetworkSetup -----------------------------
(***************************************************************************)
(* NetworkManager (network/manager.py): programs that connect containers   *)
(* to the bridge pybox0 and disconnect them again, one ip, nft or nsenter  *)
(* command after the other, while containers die, commands fail, programs  *)
(* are killed and somebody removes the network.  What allocate() and       *)
(* release() do is taken from AddressPool: some free address, and back, or *)
(* a read or a save of ipam.json that fails and forgets what is in use.    *)
(*                                                                         *)
(* Operators whose name has a suffix after "_" are faulty variants of the  *)
(* operator that follows them, and used by nothing.                        *)
(***************************************************************************)

CONSTANTS
  Procs,       \* programs that call a NetworkManager
  Containers,
  Addresses,   \* what the pool hands out
  Names,       \* names of host interfaces
  Short,       \* Short[c]: the interface name made of the id of c
  None

ASSUME NetworkAssumption ==
  /\ Short \in [Containers -> Names]
  /\ None \notin Addresses \cup Containers
  /\ Containers \cap {"none", "made"} = {}

VARIABLES
  inUse,     \* the addresses in ipam.json
  bridge,    \* pybox0: "none", "bare" (no address, or down) or "ready"
  nat,       \* forwarding is enabled and the masquerade rule exists
  listed,    \* pybox0.json exists
  link,      \* link[n]: the host interface n, and where its peer is: "none",
             \* "made" (on the host) or the container whose namespace has it
  alive,     \* alive[c]: the init process of c, and with it its namespace
  eth,       \* eth[c]: the address of eth0 in the namespace of c
  endpoint,  \* endpoint[c]: the address in endpoints/<c>.json
  pc, cont, got,
  leaked,    \* history: addresses of setups that were given up
  muddled,   \* history: containers whose calls overlapped or were cut short,
             \* or whose pair could not be deleted
  lost,      \* history: ipam.json was lost, or could not be read and was replaced
  cut        \* history: the bridge was left unfinished, or was removed

shared == <<inUse, bridge, nat, listed, link, alive, eth, endpoint>>
history == <<leaked, muddled, lost, cut>>
vars == <<shared, pc, cont, got, history>>

BridgeSteps == {"exists", "add", "finish", "announce"}
SetupSteps == {"pair", "move", "configure", "publish", "resolv", "save"}
TeardownSteps == {"delete", "release", "unlink"}
RemoveSteps == {"down", "unbridge", "unlist"}

TypeOK ==
  /\ inUse \in SUBSET Addresses
  /\ bridge \in {"none", "bare", "ready"}
  /\ nat \in BOOLEAN
  /\ listed \in BOOLEAN
  /\ link \in [Names -> {"none", "made"} \cup Containers]
  /\ alive \in [Containers -> BOOLEAN]
  /\ eth \in [Containers -> Addresses \cup {None}]
  /\ endpoint \in [Containers -> Addresses \cup {None}]
  /\ pc \in [Procs -> {"idle", "allocate"} \cup BridgeSteps \cup SetupSteps
                        \cup TeardownSteps \cup RemoveSteps]
  /\ cont \in [Procs -> Containers \cup {None}]
  /\ got \in [Procs -> Addresses \cup {None}]
  /\ leaked \in SUBSET Addresses
  /\ muddled \in SUBSET Containers
  /\ lost \in BOOLEAN
  /\ cut \in BOOLEAN

Init ==
  /\ inUse = {}
  /\ bridge = "none"
  /\ nat = FALSE
  /\ listed = FALSE
  /\ link = [n \in Names |-> "none"]
  /\ alive = [c \in Containers |-> FALSE]
  /\ eth = [c \in Containers |-> None]
  /\ endpoint = [c \in Containers |-> None]
  /\ pc = [p \in Procs |-> "idle"]
  /\ cont = [p \in Procs |-> None]
  /\ got = [p \in Procs |-> None]
  /\ leaked = {}
  /\ muddled = {}
  /\ lost = FALSE
  /\ cut = FALSE

Goto(p, from, to) ==
  /\ pc[p] = from
  /\ pc' = [pc EXCEPT ![p] = to]

\* The call is over, by return or by exception.
Leave(p) ==
  /\ pc' = [pc EXCEPT ![p] = "idle"]
  /\ cont' = [cont EXCEPT ![p] = None]
  /\ got' = [got EXCEPT ![p] = None]

\* The addresses a setup has been given and has not saved: nobody else
\* knows them.
Unsaved(p) == IF pc[p] \in SetupSteps THEN {got[p]} ELSE {}

------------------------------------------------------------------------------
\* Calls

Overlaps(c) == \E q \in Procs : cont[q] = c

\* Nothing in the code keeps callers from what is called muddled here.
Muddled(c, how) == muddled' = IF how THEN muddled \cup {c} ELSE muddled

CallSetup(p, c) ==
  /\ Goto(p, "idle", "exists")
  /\ alive[c]
  /\ cont' = [cont EXCEPT ![p] = c]
  /\ Muddled(c, Overlaps(c) \/ endpoint[c] # None)
  /\ UNCHANGED <<shared, got, leaked, lost, cut>>

\* Without an endpoint file there is nothing to do.
CallTeardown(p, c) ==
  /\ Goto(p, "idle", "delete")
  /\ endpoint[c] # None
  /\ cont' = [cont EXCEPT ![p] = c]
  /\ got' = [got EXCEPT ![p] = endpoint[c]]
  /\ Muddled(c, Overlaps(c))
  /\ UNCHANGED <<shared, leaked, lost, cut>>

\* pybox network rm pybox0
CallRemove(p) ==
  /\ listed
  /\ Goto(p, "idle", IF bridge = "none" THEN "unlist" ELSE "down")
  /\ cut' = TRUE
  /\ UNCHANGED <<shared, cont, got, leaked, muddled, lost>>

------------------------------------------------------------------------------
\* ensure_bridge: a NetworkError ends it with a warning, and setup goes on

BridgeExists(p) ==
  /\ Goto(p, "exists", IF bridge = "none" THEN "add" ELSE "announce")
  /\ UNCHANGED <<shared, cont, got, history>>

AddBridge(p) ==
  /\ Goto(p, "add", "finish")
  /\ bridge = "none"
  /\ bridge' = "bare"
  /\ UNCHANGED <<inUse, nat, listed, link, alive, eth, endpoint, cont, got,
                 history>>

\* Another program was faster: "File exists".
BridgeRaceLost(p) ==
  /\ Goto(p, "add", "allocate")
  /\ bridge # "none"
  /\ UNCHANGED <<shared, cont, got, history>>

\* It gets its address and is brought up.
FinishBridge_Skipped(p) ==
  /\ Goto(p, "finish", "announce")
  /\ UNCHANGED <<shared, cont, got, history>>

FinishBridge(p) ==
  /\ Goto(p, "finish", "announce")
  /\ bridge = "bare"
  /\ bridge' = "ready"
  /\ UNCHANGED <<inUse, nat, listed, link, alive, eth, endpoint, cont, got,
                 history>>

\* enable_ip_forward, setup_masquerade, Network.save
Announce(p) ==
  /\ Goto(p, "announce", "allocate")
  /\ nat' = TRUE
  /\ listed' = TRUE
  /\ UNCHANGED <<inUse, bridge, link, alive, eth, endpoint, cont, got, history>>

EnsureFails(p) ==
  /\ \E from \in BridgeSteps \ {"exists"} : Goto(p, from, "allocate")
  /\ cut' = TRUE
  /\ UNCHANGED <<shared, cont, got, leaked, muddled, lost>>

------------------------------------------------------------------------------
\* setup: an error leaves everything as it is and is raised

\* allocate() and release() go on from books: what is in ipam.json, or nothing.  A
\* read that fails counts as an empty set, and a save that fails, or is killed, has
\* truncated the file.
GoOnFrom(books) == lost' = (lost \/ books # inUse)

Allocate_NoRaise(p) ==
  /\ Goto(p, "allocate", "pair")
  /\ \E a \in (Addresses \cup {None}) \ inUse :
       /\ a = None => Addresses \subseteq inUse
       /\ inUse' = inUse \cup {a}
       /\ got' = [got EXCEPT ![p] = a]
  /\ UNCHANGED <<bridge, nat, listed, link, alive, eth, endpoint, cont, history>>

Allocate(p) ==
  /\ Goto(p, "allocate", "pair")
  /\ \E books \in {inUse, {}} : \E a \in Addresses \ books :
       /\ GoOnFrom(books)
       /\ inUse' = books \cup {a}
       /\ got' = [got EXCEPT ![p] = a]
  /\ UNCHANGED <<bridge, nat, listed, link, alive, eth, endpoint, cont, leaked,
                 muddled, cut>>

\* Exhausted, the lock was not to be had, or the save failed.
AllocateFails(p) ==
  /\ pc[p] = "allocate"
  /\ Leave(p)
  /\ \E books \in {inUse, {}} : GoOnFrom(books) /\ inUse' = books
  /\ UNCHANGED <<bridge, nat, listed, link, alive, eth, endpoint, leaked, muddled, cut>>

MyLink(p) == Short[cont[p]]

NewPair(p) ==
  /\ link[MyLink(p)] = "none"
  /\ link' = [link EXCEPT ![MyLink(p)] = "made"]

\* Made, attached to the bridge, brought up.
CreatePair(p) ==
  /\ Goto(p, "pair", "move")
  /\ bridge # "none"
  /\ NewPair(p)
  /\ UNCHANGED <<inUse, bridge, nat, listed, alive, eth, endpoint, cont, got,
                 history>>

Move(p) ==
  /\ Goto(p, "move", "configure")
  /\ alive[cont[p]]
  /\ link[MyLink(p)] = "made"
  /\ link' = [link EXCEPT ![MyLink(p)] = cont[p]]
  /\ UNCHANGED <<inUse, bridge, nat, listed, alive, eth, endpoint, cont, got,
                 history>>

\* The five commands of configure_container_if, in the namespace of c.
InNamespace(p) ==
  /\ alive[cont[p]]
  /\ link[MyLink(p)] = cont[p]

Configure(p) ==
  /\ Goto(p, "configure", "publish")
  /\ InNamespace(p)
  /\ eth' = [eth EXCEPT ![cont[p]] = got[p]]
  /\ UNCHANGED <<inUse, bridge, nat, listed, link, alive, endpoint, cont, got,
                 history>>

\* _setup_port_forward for each port; what cannot be parsed is skipped.  The
\* rules are never removed and no property speaks of them.
Publish(p) ==
  /\ Goto(p, "publish", "resolv")
  /\ UNCHANGED <<shared, cont, got, history>>

\* It is inside the rootfs, and no property speaks of it.
WriteResolvConf(p) ==
  /\ Goto(p, "resolv", "save")
  /\ UNCHANGED <<shared, cont, got, history>>

SaveEndpoint(p) ==
  /\ pc[p] = "save"
  /\ Leave(p)
  /\ endpoint' = [endpoint EXCEPT ![cont[p]] = got[p]]
  /\ UNCHANGED <<inUse, bridge, nat, listed, link, alive, eth, history>>

\* A command fails, or has nothing to work on, and those before it in the
\* same step have done their work: a pair exists, or an address is assigned.
SetupFails_SavesFirst(p) ==
  /\ pc[p] \in SetupSteps
  /\ Leave(p)
  /\ endpoint' = [endpoint EXCEPT ![cont[p]] = got[p]]
  /\ leaked' = leaked \cup {got[p]}
  /\ UNCHANGED <<inUse, bridge, nat, listed, link, alive, eth, muddled, lost, cut>>

SetupFails_Releases(p) ==
  /\ pc[p] \in SetupSteps
  /\ Leave(p)
  /\ inUse' = inUse \ {got[p]}
  /\ UNCHANGED <<bridge, nat, listed, link, alive, eth, endpoint, history>>

SetupFails(p) ==
  /\ pc[p] \in SetupSteps
  /\ Leave(p)
  /\ leaked' = leaked \cup {got[p]}
  /\ \/ UNCHANGED <<link, eth>>
     \/ /\ pc[p] = "pair"
        /\ NewPair(p)
        /\ UNCHANGED eth
     \/ /\ pc[p] = "configure"
        /\ InNamespace(p)
        /\ eth' = [eth EXCEPT ![cont[p]] = got[p]]
        /\ UNCHANGED link
  /\ UNCHANGED <<inUse, bridge, nat, listed, alive, endpoint, muddled, lost, cut>>

------------------------------------------------------------------------------
\* teardown

DeletePair(p) ==
  /\ Goto(p, "delete", "release")
  /\ link' = [link EXCEPT ![MyLink(p)] = "none"]
  /\ eth' = [c \in Containers |-> IF link[MyLink(p)] = c THEN None ELSE eth[c]]
  /\ UNCHANGED <<inUse, bridge, nat, listed, alive, endpoint, cont, got, history>>

\* A warning, and teardown goes on: the pair was gone, or it stays.
DeletePairFails(p) ==
  /\ Goto(p, "delete", "release")
  /\ Muddled(cont[p], link[MyLink(p)] # "none")
  /\ UNCHANGED <<shared, cont, got, leaked, lost, cut>>

Release_Nothing(p) ==
  /\ Goto(p, "release", "unlink")
  /\ UNCHANGED <<shared, cont, got, history>>

Release(p) ==
  /\ Goto(p, "release", "unlink")
  /\ \E books \in {inUse, {}} : GoOnFrom(books) /\ inUse' = books \ {got[p]}
  /\ UNCHANGED <<bridge, nat, listed, link, alive, eth, endpoint, cont, got,
                 leaked, muddled, cut>>

\* The lock of the pool was not to be had, which is a warning, or the save failed,
\* which is raised: the endpoint stays.
ReleaseFails(p) ==
  /\ pc[p] = "release"
  /\ Leave(p)
  /\ \E books \in {inUse, {}} : GoOnFrom(books) /\ inUse' = books
  /\ UNCHANGED <<bridge, nat, listed, link, alive, eth, endpoint, leaked, muddled, cut>>

RemoveEndpoint(p) ==
  /\ pc[p] = "unlink"
  /\ Leave(p)
  /\ endpoint' = [endpoint EXCEPT ![cont[p]] = None]
  /\ UNCHANGED <<inUse, bridge, nat, listed, link, alive, eth, history>>

------------------------------------------------------------------------------
\* network rm: delete_bridge turns every error into a warning

BridgeDown(p) ==
  /\ Goto(p, "down", "unbridge")
  /\ bridge # "none"
  /\ bridge' = "bare"
  /\ UNCHANGED <<inUse, nat, listed, link, alive, eth, endpoint, cont, got,
                 history>>

DeleteBridge(p) ==
  /\ Goto(p, "unbridge", "unlist")
  /\ bridge # "none"
  /\ bridge' = "none"
  /\ UNCHANGED <<inUse, nat, listed, link, alive, eth, endpoint, cont, got, history>>

DeleteBridgeFails(p) ==
  /\ \E from \in {"down", "unbridge"} : Goto(p, from, "unlist")
  /\ UNCHANGED <<shared, cont, got, history>>

Unlist(p) ==
  /\ pc[p] = "unlist"
  /\ Leave(p)
  /\ listed' = FALSE
  /\ UNCHANGED <<inUse, bridge, nat, link, alive, eth, endpoint, history>>

------------------------------------------------------------------------------
\* What else happens

\* start() has forked the init process of c.
Starts(c) ==
  /\ ~alive[c]
  /\ \A p \in Procs : cont[p] = c => pc[p] \in TeardownSteps
  /\ alive' = [alive EXCEPT ![c] = TRUE]
  /\ UNCHANGED <<inUse, bridge, nat, listed, link, eth, endpoint, pc, cont, got,
                 history>>

\* The kernel removes its network namespace, and with it the pair.
Dies(c) ==
  /\ alive[c]
  /\ alive' = [alive EXCEPT ![c] = FALSE]
  /\ link' = [n \in Names |-> IF link[n] = c THEN "none" ELSE link[n]]
  /\ eth' = [eth EXCEPT ![c] = None]
  /\ UNCHANGED <<inUse, bridge, nat, listed, endpoint, pc, cont, got, history>>

Killed(p) ==
  /\ pc[p] # "idle"
  /\ Leave(p)
  /\ leaked' = leaked \cup Unsaved(p)
  /\ Muddled(cont[p], pc[p] = "unlink")
  /\ cut' = (cut \/ pc[p] \in BridgeSteps)
  /\ \E books \in {inUse} \cup IF pc[p] \in {"allocate", "release"} THEN {{}} ELSE {} :
       GoOnFrom(books) /\ inUse' = books
  /\ UNCHANGED <<bridge, nat, listed, link, alive, eth, endpoint>>

------------------------------------------------------------------------------

Step(p) ==
  \/ BridgeExists(p) \/ AddBridge(p) \/ BridgeRaceLost(p) \/ FinishBridge(p)
  \/ Announce(p) \/ EnsureFails(p)
  \/ Allocate(p) \/ AllocateFails(p) \/ CreatePair(p) \/ Move(p)
  \/ Configure(p) \/ Publish(p) \/ WriteResolvConf(p) \/ SaveEndpoint(p)
  \/ SetupFails(p)
  \/ DeletePair(p) \/ DeletePairFails(p) \/ Release(p) \/ ReleaseFails(p)
  \/ RemoveEndpoint(p)
  \/ BridgeDown(p) \/ DeleteBridge(p) \/ DeleteBridgeFails(p) \/ Unlist(p)

Next ==
  \/ \E p \in Procs :
       \/ \E c \in Containers : CallSetup(p, c) \/ CallTeardown(p, c)
       \/ CallRemove(p)
       \/ Step(p)
       \/ Killed(p)
  \/ \E c \in Containers : Starts(c) \/ Dies(c)

Spec == Init /\ [][Next]_vars

------------------------------------------------------------------------------
\* Properties

(* manager.py:6 "Assigning a unique IP to each container": no two          *)
(* namespaces have the same address, also after setups that failed half    *)
(* way and teardowns that failed and were repeated - as long as the calls  *)
(* for one container do not overlap, a teardown comes before the next      *)
(* setup, no teardown is killed between release() and the removal of the    *)
(* endpoint (the next one would release what another container has), and   *)
(* none fails to delete a pair (it gives the address back all the same) -  *)
(* and as long as no read or save of ipam.json fails or is killed, which   *)
(* forgets every address in use (ipam.py:109 and 115).                     *)
UniqueAddresses ==
  muddled = {} /\ ~lost =>
    \A c, d \in Containers : c # d /\ eth[c] # None => eth[c] # eth[d]

\* The containers with an endpoint whose address was not released.
Keeping ==
  {c \in Containers :
     endpoint[c] # None /\ \A p \in Procs : cont[p] = c => pc[p] # "unlink"}

Saved == {endpoint[c] : c \in Keeping}

(* Under the same conditions ipam.json holds exactly the addresses of the   *)
(* saved endpoints, those of setups under way, and those lost for ever by  *)
(* setups that were given up: nothing else leaks, nothing in use is free.  *)
AddressesAccounted ==
  muddled = {} /\ ~lost =>
    inUse = Saved \cup leaked \cup UNION {Unsaved(p) : p \in Procs}

(* manager.py:110: the endpoint is saved last.  A container that has an     *)
(* endpoint file and the peer of its interface has the address that a      *)
(* teardown will give back, however many setups failed half way before:    *)
(* it is connected as the file says, or not at all, also after ipam.json   *)
(* was lost.                                                               *)
EndpointIsTrue ==
  muddled = {} =>
    \A c \in Containers :
      endpoint[c] # None /\ link[Short[c]] = c => eth[c] = endpoint[c]

(* A setup that finds the bridge half made by another program, or loses    *)
(* the race to make it, goes on without: once no program is busy with the  *)
(* bridge, a container that was set up has a bridge that is up and NAT,    *)
(* unless a command on the bridge failed, its program was killed, or the   *)
(* network was removed - exists() is content with any bridge, for ever.    *)
OutboundOnceSettled ==
  /\ \A p \in Procs : pc[p] \notin BridgeSteps
  /\ \E c \in Containers : endpoint[c] # None
  /\ ~cut
  => bridge = "ready" /\ nat
==============================================================================
