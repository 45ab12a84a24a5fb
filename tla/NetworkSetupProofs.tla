------------------------- MODULE NetworkSetupProofs --------------------------
(***************************************************************************)
(* Proofs about NetworkSetup, for any programs, containers, addresses and  *)
(* interface names, whether or not two containers want the same name.      *)
(***************************************************************************)
EXTENDS NetworkSetup, TLAPS

BeforeSteps == BridgeSteps \cup {"allocate"}

\* TypeOK, and what a program knows at each step.
TypeInv ==
  /\ TypeOK
  /\ \A p \in Procs :
       /\ pc[p] \in BeforeSteps \cup SetupSteps \cup TeardownSteps
            => cont[p] \in Containers
       /\ pc[p] \in SetupSteps \cup TeardownSteps => got[p] \in Addresses
       /\ pc[p] \in {"idle"} \cup RemoveSteps => cont[p] = None

LEMMA TypeInvariant == Spec => []TypeInv
<1>1. Init => TypeInv
  BY DEF Init, TypeInv, TypeOK, BeforeSteps, BridgeSteps, SetupSteps,
         TeardownSteps, RemoveSteps
<1>2. TypeInv /\ [Next]_vars => TypeInv'
  <2> SUFFICES ASSUME TypeInv, [Next]_vars
               PROVE  TypeInv'
    OBVIOUS
  <2> USE NetworkAssumption
      DEF NetworkAssumption, TypeInv, TypeOK, BeforeSteps, BridgeSteps,
          SetupSteps, TeardownSteps, RemoveSteps, Goto, Leave, shared, history
  <2>1. ASSUME NEW p \in Procs, NEW c \in Containers, CallSetup(p, c)
        PROVE  TypeInv'
    BY <2>1 DEF CallSetup, Muddled
  <2>2. ASSUME NEW p \in Procs, NEW c \in Containers, CallTeardown(p, c)
        PROVE  TypeInv'
    BY <2>2 DEF CallTeardown, Muddled
  <2>3. ASSUME NEW p \in Procs, CallRemove(p)
        PROVE  TypeInv'
    BY <2>3 DEF CallRemove
  <2>4. ASSUME NEW p \in Procs, BridgeExists(p)
        PROVE  TypeInv'
    BY <2>4 DEF BridgeExists
  <2>5. ASSUME NEW p \in Procs, AddBridge(p) \/ BridgeRaceLost(p)
        PROVE  TypeInv'
    BY <2>5 DEF AddBridge, BridgeRaceLost
  <2>6. ASSUME NEW p \in Procs, FinishBridge(p)
        PROVE  TypeInv'
    BY <2>6 DEF FinishBridge
  <2>26. ASSUME NEW p \in Procs, Announce(p)
         PROVE  TypeInv'
    <3>1. /\ pc[p] = "announce" /\ pc' = [pc EXCEPT ![p] = "allocate"]
          /\ UNCHANGED <<cont, got>>
      BY <2>26 DEF Announce
    <3> QED BY <2>26, <3>1 DEF Announce
  <2>7. ASSUME NEW p \in Procs, EnsureFails(p)
        PROVE  TypeInv'
    BY <2>7 DEF EnsureFails
  <2>8. ASSUME NEW p \in Procs, Allocate(p)
        PROVE  TypeInv'
    <3> PICK books \in {inUse, {}} : \E a \in Addresses \ books :
               GoOnFrom(books) /\ inUse' = books \cup {a} /\ got' = [got EXCEPT ![p] = a]
      BY <2>8 DEF Allocate
    <3>1. inUse' \subseteq Addresses /\ got' \in [Procs -> Addresses \cup {None}]
      OBVIOUS
    <3>2. lost' \in BOOLEAN
      BY DEF GoOnFrom
    <3> QED BY <2>8, <3>1, <3>2 DEF Allocate
  <2>9. ASSUME NEW p \in Procs, AllocateFails(p)
        PROVE  TypeInv'
    BY <2>9 DEF AllocateFails, GoOnFrom
  <2>10. ASSUME NEW p \in Procs, CreatePair(p)
         PROVE  TypeInv'
    BY <2>10 DEF CreatePair, NewPair
  <2>11. ASSUME NEW p \in Procs, Move(p)
         PROVE  TypeInv'
    BY <2>11 DEF Move, MyLink
  <2>12. ASSUME NEW p \in Procs, Configure(p) \/ Publish(p) \/ WriteResolvConf(p)
         PROVE  TypeInv'
    BY <2>12 DEF Configure, Publish, WriteResolvConf
  <2>13. ASSUME NEW p \in Procs, SaveEndpoint(p)
         PROVE  TypeInv'
    BY <2>13 DEF SaveEndpoint
  <2>14. ASSUME NEW p \in Procs, SetupFails(p)
         PROVE  TypeInv'
    BY <2>14 DEF SetupFails, NewPair
  <2>15. ASSUME NEW p \in Procs, DeletePair(p)
         PROVE  TypeInv'
    BY <2>15 DEF DeletePair
  <2>16. ASSUME NEW p \in Procs, DeletePairFails(p)
         PROVE  TypeInv'
    BY <2>16 DEF DeletePairFails, Muddled
  <2>17. ASSUME NEW p \in Procs, Release(p) \/ ReleaseFails(p)
         PROVE  TypeInv'
    <3>2. CASE Release(p)
      <4>1. inUse' \subseteq Addresses /\ lost' \in BOOLEAN
        BY <3>2 DEF Release, GoOnFrom
      <4> QED BY <3>2, <4>1 DEF Release
    <3>3. CASE ReleaseFails(p)
      <4>1. inUse' \subseteq Addresses /\ lost' \in BOOLEAN
        BY <3>3 DEF ReleaseFails, GoOnFrom
      <4> QED BY <3>3, <4>1 DEF ReleaseFails
    <3> QED BY <2>17, <3>2, <3>3
  <2>18. ASSUME NEW p \in Procs, RemoveEndpoint(p)
         PROVE  TypeInv'
    BY <2>18 DEF RemoveEndpoint
  <2>19. ASSUME NEW p \in Procs, BridgeDown(p) \/ DeleteBridge(p)
         PROVE  TypeInv'
    BY <2>19 DEF BridgeDown, DeleteBridge
  <2>20. ASSUME NEW p \in Procs, DeleteBridgeFails(p)
         PROVE  TypeInv'
    <3>1. pc[p] \in RemoveSteps /\ pc' = [pc EXCEPT ![p] = "unlist"]
      BY <2>20 DEF DeleteBridgeFails
    <3> QED BY <2>20, <3>1 DEF DeleteBridgeFails
  <2>24. ASSUME NEW p \in Procs, Unlist(p)
         PROVE  TypeInv'
    BY <2>24 DEF Unlist
  <2>21. ASSUME NEW p \in Procs, Killed(p)
         PROVE  TypeInv'
    <3>1. inUse' \subseteq Addresses /\ lost' \in BOOLEAN
      BY <2>21 DEF Killed, GoOnFrom
    <3> QED BY <2>21, <3>1 DEF Killed, Muddled, Unsaved
  <2>22. ASSUME NEW c \in Containers, Starts(c)
         PROVE  TypeInv'
    BY <2>22 DEF Starts
  <2>25. ASSUME NEW c \in Containers, Dies(c)
         PROVE  TypeInv'
    <3>1. /\ link' \in [Names -> {"none", "made"} \cup Containers]
          /\ eth' \in [Containers -> Addresses \cup {None}]
          /\ alive' \in [Containers -> BOOLEAN]
      BY <2>25 DEF Dies
    <3> QED BY <2>25, <3>1 DEF Dies
  <2>23. CASE UNCHANGED vars
    BY <2>23 DEF vars
  <2> QED
    BY <2>1, <2>2, <2>3, <2>4, <2>5, <2>6, <2>7, <2>8, <2>9, <2>10, <2>11,
       <2>12, <2>13, <2>14, <2>15, <2>16, <2>17, <2>18, <2>19, <2>20, <2>21,
       <2>22, <2>23, <2>24, <2>25,
       <2>26 DEF Next, Step
<1> QED BY <1>1, <1>2, PTL DEF Spec

(* Every variable keeps its type: in particular no setup ever goes on      *)
(* without an address of the pool.                                         *)
THEOREM TypeCorrect == Spec => []TypeOK
<1>1. TypeInv => TypeOK
  BY DEF TypeInv
<1> QED BY <1>1, TypeInvariant, PTL

------------------------------------------------------------------------------
\* The bridge

\* A bridge that is not ready is in the hands of the program that made it, one
\* without NAT in those of a program that will set it up, and none at all is
\* only found by programs that have not looked yet.
BridgeInv ==
  ~cut =>
    /\ bridge = "bare" => \E p \in Procs : pc[p] = "finish"
    /\ bridge = "ready" /\ ~nat => \E p \in Procs : pc[p] = "announce"
    /\ \A p \in Procs : pc[p] = "finish" => bridge = "bare"
    /\ \A p, q \in Procs : pc[p] = "finish" /\ pc[q] = "finish" => p = q
    /\ bridge = "none" =>
         /\ \A p \in Procs :
              pc[p] \notin {"finish", "announce", "allocate"} \cup SetupSteps
         /\ \A c \in Containers : endpoint[c] = None
    /\ \A p \in Procs : pc[p] \notin RemoveSteps

\* A step of p from a step of pc to another that neither looks at the bridge
\* nor at the endpoints.
LEMMA AwayFromTheBridge ==
  ASSUME TypeOK, BridgeInv, NEW p \in Procs, NEW w, pc' = [pc EXCEPT ![p] = w],
         UNCHANGED <<bridge, nat, cut>>,
         pc[p] \notin {"finish", "announce"}, w \notin {"finish"} \cup RemoveSteps,
         bridge = "none" => /\ w \notin {"announce", "allocate"} \cup SetupSteps
                            /\ \A c \in Containers : endpoint'[c] = None
  PROVE  BridgeInv'
<1> SUFFICES ASSUME ~cut PROVE BridgeInv'
  BY DEF BridgeInv
<1>1. \A q \in Procs : pc'[q] = IF q = p THEN w ELSE pc[q]
  BY DEF TypeOK
<1> QED BY <1>1 DEF BridgeInv

LEMMA CutAnyway == ASSUME cut' = TRUE PROVE BridgeInv'
  BY DEF BridgeInv

LEMMA BridgeStep == TypeOK /\ BridgeInv /\ [Next]_vars => BridgeInv'
<1> SUFFICES ASSUME TypeOK, BridgeInv, [Next]_vars
             PROVE  BridgeInv'
  OBVIOUS
<1> USE DEF Goto, Leave, SetupSteps, RemoveSteps, shared, history
<1>1. ASSUME NEW p \in Procs, NEW c \in Containers, CallSetup(p, c)
      PROVE  BridgeInv'
  BY <1>1, AwayFromTheBridge DEF CallSetup, BridgeInv
<1>2. ASSUME NEW p \in Procs, NEW c \in Containers, CallTeardown(p, c)
      PROVE  BridgeInv'
  BY <1>2, AwayFromTheBridge DEF CallTeardown, BridgeInv
<1>3. ASSUME NEW p \in Procs, CallRemove(p)
      PROVE  BridgeInv'
  BY <1>3, CutAnyway DEF CallRemove
<1>4. ASSUME NEW p \in Procs, BridgeExists(p)
      PROVE  BridgeInv'
  <2>1. CASE bridge = "none"
    BY <1>4, <2>1, AwayFromTheBridge DEF BridgeExists, BridgeInv
  <2>2. CASE bridge # "none"
    BY <1>4, <2>2, AwayFromTheBridge DEF BridgeExists, BridgeInv
  <2> QED BY <2>1, <2>2
<1>5. ASSUME NEW p \in Procs, AddBridge(p)
      PROVE  BridgeInv'
  BY <1>5 DEF AddBridge, BridgeInv, TypeOK
<1>6. ASSUME NEW p \in Procs, BridgeRaceLost(p)
      PROVE  BridgeInv'
  BY <1>6, AwayFromTheBridge DEF BridgeRaceLost, BridgeInv
<1>7. ASSUME NEW p \in Procs, FinishBridge(p)
      PROVE  BridgeInv'
  BY <1>7 DEF FinishBridge, BridgeInv, TypeOK
<1>8. ASSUME NEW p \in Procs, Announce(p)
      PROVE  BridgeInv'
  BY <1>8 DEF Announce, BridgeInv, TypeOK
<1>9. ASSUME NEW p \in Procs, EnsureFails(p)
      PROVE  BridgeInv'
  BY <1>9, CutAnyway DEF EnsureFails
<1>10. ASSUME NEW p \in Procs,
              \/ Allocate(p) \/ CreatePair(p) \/ Move(p)
              \/ Configure(p) \/ Publish(p) \/ WriteResolvConf(p)
       PROVE  BridgeInv'
  <2>1. PICK w \in SetupSteps : pc' = [pc EXCEPT ![p] = w]
    BY <1>10 DEF Allocate, CreatePair, Move, Configure, Publish, WriteResolvConf
  <2>2. pc[p] \in {"allocate"} \cup SetupSteps
    BY <1>10 DEF Allocate, CreatePair, Move, Configure, Publish, WriteResolvConf
  <2>3. UNCHANGED <<bridge, nat, cut, endpoint>>
    BY <1>10 DEF Allocate, CreatePair, Move, Configure, Publish, WriteResolvConf
  <2>4. CASE cut
    BY <2>3, <2>4 DEF BridgeInv
  <2>5. CASE ~cut
    <3>1. bridge # "none"
      BY <2>2, <2>5 DEF BridgeInv
    <3> QED BY <2>1, <2>2, <2>3, <3>1, AwayFromTheBridge
  <2> QED BY <2>4, <2>5
<1>11. ASSUME NEW p \in Procs,
              AllocateFails(p) \/ SetupFails(p) \/ ReleaseFails(p)
       PROVE  BridgeInv'
  <2>1. /\ pc' = [pc EXCEPT ![p] = "idle"]
        /\ pc[p] \notin {"finish", "announce"}
        /\ UNCHANGED <<bridge, nat, cut, endpoint>>
    BY <1>11 DEF AllocateFails, SetupFails, ReleaseFails
  <2> QED BY <2>1, AwayFromTheBridge DEF BridgeInv
<1>12. ASSUME NEW p \in Procs, SaveEndpoint(p)
       PROVE  BridgeInv'
  <2>1. CASE cut
    BY <1>12, <2>1 DEF SaveEndpoint, BridgeInv
  <2>2. CASE ~cut
    <3>1. bridge # "none"
      BY <1>12, <2>2 DEF SaveEndpoint, BridgeInv
    <3> QED BY <1>12, <3>1, AwayFromTheBridge DEF SaveEndpoint
  <2> QED BY <2>1, <2>2
<1>13. ASSUME NEW p \in Procs, DeletePair(p) \/ DeletePairFails(p) \/ Release(p)
       PROVE  BridgeInv'
  <2>1. PICK w \in {"release", "unlink"} : pc' = [pc EXCEPT ![p] = w]
    BY <1>13 DEF DeletePair, DeletePairFails, Release
  <2>2. /\ pc[p] \notin {"finish", "announce"}
        /\ UNCHANGED <<bridge, nat, cut, endpoint>>
    BY <1>13 DEF DeletePair, DeletePairFails, Release
  <2> QED BY <2>1, <2>2, AwayFromTheBridge DEF BridgeInv
<1>14. ASSUME NEW p \in Procs, RemoveEndpoint(p)
       PROVE  BridgeInv'
  BY <1>14, AwayFromTheBridge DEF RemoveEndpoint, BridgeInv, TypeOK
<1>15. ASSUME NEW p \in Procs,
              BridgeDown(p) \/ DeleteBridge(p) \/ DeleteBridgeFails(p) \/ Unlist(p)
       PROVE  BridgeInv'
  <2>1. pc[p] \in RemoveSteps /\ UNCHANGED cut
    BY <1>15 DEF BridgeDown, DeleteBridge, DeleteBridgeFails, Unlist
  <2> QED BY <2>1 DEF BridgeInv
<1>16. ASSUME NEW p \in Procs, Killed(p)
       PROVE  BridgeInv'
  <2>1. CASE cut'
    BY <2>1 DEF BridgeInv
  <2>2. CASE ~cut'
    <3>1. ~cut /\ pc[p] \notin BridgeSteps
      BY <1>16, <2>2 DEF Killed
    <3>2. UNCHANGED <<bridge, nat, cut, endpoint>>
      BY <1>16, <2>2, <3>1 DEF Killed, TypeOK
    <3>3. pc' = [pc EXCEPT ![p] = "idle"] /\ pc[p] \notin {"finish", "announce"}
      BY <1>16, <3>1 DEF Killed, BridgeSteps
    <3> QED BY <3>1, <3>2, <3>3, AwayFromTheBridge DEF BridgeInv
  <2> QED BY <2>1, <2>2
<1>17. ASSUME NEW c \in Containers, Starts(c) \/ Dies(c)
       PROVE  BridgeInv'
  BY <1>17 DEF Starts, Dies, BridgeInv
<1>18. CASE UNCHANGED vars
  BY <1>18 DEF vars, BridgeInv
<1> QED
  BY <1>1, <1>2, <1>3, <1>4, <1>5, <1>6, <1>7, <1>8, <1>9, <1>10, <1>11,
     <1>12, <1>13, <1>14, <1>15, <1>16, <1>17, <1>18 DEF Next, Step

(* Programs that race for the bridge leave it complete: whoever finds it   *)
(* half made relies on the one that is making it, for any number of        *)
(* programs.                                                               *)
THEOREM BridgeSettles == Spec => []OutboundOnceSettled
<1>1. Init => BridgeInv
  BY DEF Init, BridgeInv, SetupSteps, RemoveSteps
<1>2. TypeOK /\ BridgeInv => OutboundOnceSettled
  BY DEF TypeOK, BridgeInv, OutboundOnceSettled, BridgeSteps
<1> QED BY <1>1, <1>2, BridgeStep, TypeCorrect, PTL DEF Spec

------------------------------------------------------------------------------
\* The addresses

\* A container is in the hands of one program, which has what its endpoint
\* says, or is making one.
Alone ==
  /\ \A p, q \in Procs : p # q => cont[p] # cont[q] \/ cont[p] = None
  /\ \A p \in Procs :
       /\ pc[p] \in BeforeSteps \cup SetupSteps => endpoint[cont[p]] = None
       /\ pc[p] \in TeardownSteps => endpoint[cont[p]] = got[p]

\* An address has one owner: an endpoint, a setup, or nobody for ever.
Owned == ~lost =>
  /\ \A c, d \in Keeping : c # d => endpoint[c] # endpoint[d]
  /\ \A c \in Keeping, p \in Procs : pc[p] \in SetupSteps => endpoint[c] # got[p]
  /\ \A p, q \in Procs :
       p # q /\ pc[p] \in SetupSteps /\ pc[q] \in SetupSteps => got[p] # got[q]
  /\ \A c \in Keeping : endpoint[c] \notin leaked
  /\ \A p \in Procs : pc[p] \in SetupSteps => got[p] \notin leaked

\* An address is in a namespace only with the peer of the interface, which a
\* teardown has deleted before it releases.
Wired ==
  /\ \A c \in Containers : eth[c] # None => link[Short[c]] = c
  /\ \A n \in Names, c \in Containers : link[n] = c => n = Short[c]
  /\ \A p \in Procs :
       pc[p] \in {"release", "unlink"} => link[Short[cont[p]]] # cont[p]
  /\ \A p \in Procs :
       pc[p] \in {"publish", "resolv", "save"} /\ link[Short[cont[p]]] = cont[p]
         => eth[cont[p]] = got[p]
  /\ \A c \in Containers :
       endpoint[c] # None /\ link[Short[c]] = c => eth[c] = endpoint[c]

\* Whose address it is.
Known == ~lost =>
  /\ \A c \in Containers : eth[c] # None =>
       \/ eth[c] \in leaked
       \/ c \in Keeping /\ endpoint[c] = eth[c]
       \/ \E p \in Procs : pc[p] \in SetupSteps /\ cont[p] = c /\ got[p] = eth[c]
  /\ \A c, d \in Containers : c # d /\ eth[c] # None => eth[c] # eth[d]

\* AddressesAccounted, address by address.
Accounts == ~lost =>
  \A a \in Addresses :
    a \in inUse <=>
      \/ a \in leaked
      \/ \E c \in Keeping : endpoint[c] = a
      \/ \E p \in Procs : pc[p] \in SetupSteps /\ got[p] = a

Orderly == Alone /\ Owned /\ Wired /\ Known /\ Accounts

AddressInv == muddled = {} => Orderly

\* Only p has moved.
Others(p) ==
  \A q \in Procs : q # p => pc'[q] = pc[q] /\ cont'[q] = cont[q] /\ got'[q] = got[q]

LEMMA SameKeeps ==
  ASSUME NEW p \in Procs, Others(p), UNCHANGED endpoint,
         pc[p] # "unlink", pc'[p] # "unlink"
  PROVE  UNCHANGED Keeping
  BY DEF Others, Keeping

\* Nothing changes hands.
LEMMA SameOwners ==
  ASSUME Owned, Known, Accounts, UNCHANGED <<inUse, leaked, lost>>,
         UNCHANGED Keeping, \A c \in Keeping : endpoint'[c] = endpoint[c],
         \A q \in Procs : pc'[q] \in SetupSteps <=> pc[q] \in SetupSteps,
         \A q \in Procs : pc[q] \in SetupSteps => got'[q] = got[q] /\ cont'[q] = cont[q]
  PROVE  /\ Owned' /\ Accounts'
         /\ UNCHANGED eth => Known'
<1>1. Owned'
  BY DEF Owned
<1>2. Accounts'
  BY DEF Accounts
<1>3. ASSUME UNCHANGED eth PROVE Known'
  BY <1>3 DEF Known
<1> QED BY <1>1, <1>2, <1>3

\* A step of p that is not about the pair or the address of a container.
LEMMA Aside ==
  ASSUME Orderly, NEW p \in Procs, Others(p),
         UNCHANGED <<link, eth, endpoint, leaked>>, lost' \/ UNCHANGED <<inUse, lost>>,
         pc[p] \notin SetupSteps \cup {"unlink"},
         pc'[p] \notin SetupSteps \cup {"release", "unlink"}
  PROVE  Owned' /\ Wired' /\ Known' /\ Accounts'
<1>1. UNCHANGED Keeping
  BY SameKeeps
<1>2. Owned' /\ Known' /\ Accounts'
  <2>1. CASE lost'
    BY <2>1 DEF Owned, Known, Accounts
  <2>2. CASE UNCHANGED <<inUse, lost>>
    BY <1>1, <2>2, SameOwners DEF Orderly, Others
  <2> QED BY <2>1, <2>2
<1>3. Wired'
  BY DEF Orderly, Wired, Others, SetupSteps
<1> QED BY <1>2, <1>3

\* Calls that touch nothing yet, and steps before the allocation.
LEMMA QuietStep ==
  ASSUME TypeInv, Orderly, muddled' = {}, NEW p \in Procs,
         \/ \E c \in Containers : CallSetup(p, c) \/ CallTeardown(p, c)
         \/ CallRemove(p)
         \/ BridgeExists(p) \/ AddBridge(p) \/ BridgeRaceLost(p)
         \/ FinishBridge(p) \/ Announce(p) \/ EnsureFails(p)
         \/ AllocateFails(p) \/ ReleaseFails(p)
         \/ BridgeDown(p) \/ DeleteBridge(p) \/ DeleteBridgeFails(p) \/ Unlist(p)
  PROVE  Orderly'
<1> USE DEF Goto, Leave, shared, history, BridgeSteps, SetupSteps, BeforeSteps,
            TeardownSteps, RemoveSteps
<1>1. ASSUME NEW c \in Containers, CallSetup(p, c)
      PROVE  Orderly'
  <2>1. ~Overlaps(c) /\ endpoint[c] = None
    BY <1>1 DEF CallSetup, Muddled
  <2>2. Alone'
    BY <1>1, <2>1 DEF CallSetup, Overlaps, Orderly, Alone, TypeInv, TypeOK
  <2>3. Others(p)
    BY <1>1 DEF CallSetup, Others, TypeInv, TypeOK
  <2> QED BY <1>1, <2>2, <2>3, Aside DEF CallSetup, Orderly, TypeInv, TypeOK
<1>2. ASSUME NEW c \in Containers, CallTeardown(p, c)
      PROVE  Orderly'
  <2>1. ~Overlaps(c)
    BY <1>2 DEF CallTeardown, Muddled
  <2>2. Alone'
    BY <1>2, <2>1 DEF CallTeardown, Overlaps, Orderly, Alone, TypeInv, TypeOK
  <2>3. Others(p)
    BY <1>2 DEF CallTeardown, Others, TypeInv, TypeOK
  <2> QED BY <1>2, <2>2, <2>3, Aside DEF CallTeardown, Orderly, TypeInv, TypeOK
<1>3. ASSUME CallRemove(p) \/ BridgeExists(p) \/ AddBridge(p) \/ BridgeRaceLost(p)
               \/ FinishBridge(p) \/ Announce(p) \/ EnsureFails(p)
               \/ BridgeDown(p) \/ DeleteBridge(p) \/ DeleteBridgeFails(p)
      PROVE  Orderly'
  <2>1. PICK w \in BeforeSteps \cup RemoveSteps : pc' = [pc EXCEPT ![p] = w]
    BY <1>3 DEF CallRemove, BridgeExists, AddBridge, BridgeRaceLost,
                FinishBridge, Announce, EnsureFails, BridgeDown, DeleteBridge,
                DeleteBridgeFails
  <2>2. /\ w \in BeforeSteps => pc[p] \in BeforeSteps
        /\ pc[p] \in BeforeSteps \cup RemoveSteps \cup {"idle"}
    BY <1>3, <2>1 DEF CallRemove, BridgeExists, AddBridge, BridgeRaceLost,
                FinishBridge, Announce, EnsureFails, BridgeDown, DeleteBridge,
                DeleteBridgeFails, TypeInv, TypeOK
  <2>3. UNCHANGED <<inUse, link, eth, endpoint, leaked, lost, cont, got>>
    BY <1>3 DEF CallRemove, BridgeExists, AddBridge, BridgeRaceLost,
                FinishBridge, Announce, EnsureFails, BridgeDown, DeleteBridge,
                DeleteBridgeFails
  <2>4. Others(p) /\ pc'[p] = w
    BY <2>1, <2>3 DEF Others, TypeInv, TypeOK
  <2>5. Alone'
    BY <2>1, <2>2, <2>3 DEF Orderly, Alone, TypeInv, TypeOK
  <2> QED BY <2>2, <2>3, <2>4, <2>5, Aside DEF Orderly
<1>4. ASSUME AllocateFails(p) \/ ReleaseFails(p) \/ Unlist(p)
      PROVE  Orderly'
  <2>1. /\ Leave(p)
        /\ pc[p] \in {"allocate", "release", "unlist"}
        /\ UNCHANGED <<link, eth, endpoint, leaked>>
        /\ lost' \/ UNCHANGED <<inUse, lost>>
    BY <1>4 DEF AllocateFails, ReleaseFails, Unlist, GoOnFrom, TypeInv, TypeOK
  <2>2. Others(p) /\ pc'[p] = "idle"
    BY <2>1 DEF Others, TypeInv, TypeOK
  <2>3. Alone'
    BY <2>1 DEF Orderly, Alone, TypeInv, TypeOK
  <2> QED BY <2>1, <2>2, <2>3, Aside DEF Orderly
<1> QED BY <1>1, <1>2, <1>3, <1>4

\* A step of a setup that neither takes nor gives an address.
LEMMA SetupStep ==
  ASSUME TypeInv, Orderly, NEW p \in Procs,
         \/ CreatePair(p) \/ Move(p)
         \/ Configure(p) \/ Publish(p) \/ WriteResolvConf(p)
  PROVE  Orderly'
<1> USE NetworkAssumption
    DEF Goto, shared, history, SetupSteps, MyLink
<1>1. PICK w \in {"move", "configure", "publish", "resolv", "save"} :
        pc' = [pc EXCEPT ![p] = w]
  BY DEF CreatePair, Move, Configure, Publish, WriteResolvConf
<1>2. /\ pc[p] \in SetupSteps
      /\ UNCHANGED <<inUse, endpoint, leaked, lost, cont, got>>
  BY DEF CreatePair, Move, Configure, Publish, WriteResolvConf
<1>3. Others(p) /\ pc'[p] = w
  BY <1>1, <1>2 DEF Others, TypeInv, TypeOK
<1>4. UNCHANGED Keeping
  BY <1>2, <1>3, SameKeeps
<1>5. Owned' /\ Accounts' /\ (UNCHANGED eth => Known')
  BY <1>1, <1>2, <1>3, <1>4, SameOwners DEF Orderly, Others
<1>6. Alone'
  BY <1>1, <1>2, <1>3
     DEF Orderly, Alone, TypeInv, TypeOK, BeforeSteps, BridgeSteps, TeardownSteps
<1>7. CASE CreatePair(p)
  <2>1. Wired'
    BY <1>2, <1>3, <1>7
       DEF CreatePair, NewPair, Orderly, Wired, TypeInv, TypeOK, Others,
           NetworkAssumption, BeforeSteps, TeardownSteps
  <2> QED BY <1>5, <1>6, <1>7, <2>1 DEF CreatePair, Orderly
<1>8. CASE Move(p)
  <2>1. endpoint[cont[p]] = None /\ cont[p] \in Containers
    BY <1>8 DEF Move, Orderly, Alone, TypeInv, TypeOK
  <2>2. \A q \in Procs : q # p => cont[q] # cont[p]
    BY <2>1 DEF Orderly, Alone, NetworkAssumption
  <2>3. Wired'
    BY <1>2, <1>3, <1>8, <2>1, <2>2
       DEF Move, Orderly, Wired, TypeInv, TypeOK, Others, NetworkAssumption
  <2> QED BY <1>5, <1>6, <1>8, <2>3 DEF Move, Orderly
<1>9. CASE Configure(p)
  <2>1. endpoint[cont[p]] = None /\ cont[p] \in Containers
    BY <1>9 DEF Configure, Orderly, Alone, TypeInv, TypeOK
  <2>2. \A q \in Procs : q # p => cont[q] # cont[p]
    BY <2>1 DEF Orderly, Alone, NetworkAssumption
  <2>3. Wired'
    BY <1>2, <1>3, <1>9, <2>1, <2>2
       DEF Configure, InNamespace, Orderly, Wired, TypeInv, TypeOK, Others,
           NetworkAssumption
  <2>4. ASSUME ~lost, NEW d \in Containers, d # cont[p] PROVE eth[d] # got[p]
    BY <1>9, <2>4 DEF Configure, Orderly, Known, Owned, TypeInv, NetworkAssumption
  <2>5. Known'
    BY <1>2, <1>3, <1>4, <1>9, <2>1, <2>4
       DEF Configure, Orderly, Known, TypeInv, TypeOK, Others
  <2> QED BY <1>5, <1>6, <2>3, <2>5 DEF Orderly
<1>10. CASE Publish(p) \/ WriteResolvConf(p)
  <2>1. Wired'
    BY <1>2, <1>3, <1>10 DEF Publish, WriteResolvConf, Orderly, Wired, Others
  <2> QED BY <1>5, <1>6, <1>10, <2>1 DEF Publish, WriteResolvConf, Orderly
<1> QED BY <1>7, <1>8, <1>9, <1>10

\* An address is taken from the pool.
LEMMA AllocateStep ==
  ASSUME TypeInv, Orderly, NEW p \in Procs, Allocate(p)
  PROVE  Orderly'
<1> PICK books \in {inUse, {}} : \E a \in Addresses \ books :
           GoOnFrom(books) /\ inUse' = books \cup {a} /\ got' = [got EXCEPT ![p] = a]
  BY DEF Allocate
<1> PICK a \in Addresses \ books :
           GoOnFrom(books) /\ inUse' = books \cup {a} /\ got' = [got EXCEPT ![p] = a]
  OBVIOUS
<1>1. /\ pc[p] = "allocate" /\ pc' = [pc EXCEPT ![p] = "pair"]
      /\ UNCHANGED <<link, eth, endpoint, leaked, cont>>
  BY DEF Allocate, Goto
<1>0. lost' \/ (books = inUse /\ UNCHANGED lost)
  BY DEF GoOnFrom, TypeInv, TypeOK
<1>2. Others(p) /\ pc'[p] = "pair" /\ got'[p] = a
  BY <1>1 DEF Others, TypeInv, TypeOK
<1>3. UNCHANGED Keeping
  BY <1>1, <1>2, SameKeeps
<1>4. ~lost' => /\ a \notin leaked
                /\ \A c \in Keeping : endpoint[c] # a
                /\ \A q \in Procs : pc[q] \in SetupSteps => got[q] # a
  BY <1>0 DEF Orderly, Accounts
<1>5. Owned'
  BY <1>0, <1>1, <1>2, <1>3, <1>4 DEF Orderly, Owned, Others, SetupSteps
<1>6. Accounts'
  BY <1>0, <1>1, <1>2, <1>3, <1>4 DEF Orderly, Accounts, Others, SetupSteps
<1>7. Wired'
  BY <1>1, <1>2 DEF Orderly, Wired, Others
<1>8. Known'
  BY <1>0, <1>1, <1>2, <1>3 DEF Orderly, Known, Others, SetupSteps
<1>9. Alone'
  BY <1>1, <1>2
     DEF Orderly, Alone, Others, SetupSteps, TeardownSteps, BeforeSteps
<1> QED BY <1>5, <1>6, <1>7, <1>8, <1>9 DEF Orderly

\* A setup returns: its address becomes that of the endpoint.
LEMMA SaveStep ==
  ASSUME TypeInv, Orderly, NEW p \in Procs, SaveEndpoint(p)
  PROVE  Orderly'
<1> DEFINE c == cont[p]
<1>1. /\ pc[p] = "save" /\ Leave(p)
      /\ endpoint' = [endpoint EXCEPT ![c] = got[p]]
      /\ UNCHANGED <<inUse, link, eth, leaked, lost>>
  BY DEF SaveEndpoint, history
<1>2. /\ Others(p) /\ pc'[p] = "idle" /\ cont'[p] = None
      /\ c \in Containers /\ got[p] \in Addresses
  BY <1>1 DEF Leave, Others, TypeInv, TypeOK, SetupSteps
<1>3. endpoint[c] = None /\ c \notin Keeping
  BY <1>1 DEF Orderly, Alone, SetupSteps, Keeping
<1>4. \A q \in Procs : q # p => cont[q] # c
  BY <1>2, NetworkAssumption DEF Orderly, Alone, NetworkAssumption
<1>5. Keeping' = Keeping \cup {c}
  BY <1>1, <1>2, <1>3, <1>4, NetworkAssumption
     DEF Keeping, Others, TypeInv, TypeOK, NetworkAssumption
<1>6. /\ endpoint'[c] = got[p]
      /\ \A d \in Containers : d # c => endpoint'[d] = endpoint[d]
      /\ Keeping \subseteq Containers
  BY <1>1, <1>2 DEF TypeInv, TypeOK, Keeping
<1> HIDE DEF c
<1>7. Owned'
  BY <1>1, <1>2, <1>3, <1>5, <1>6 DEF Orderly, Owned, Others, SetupSteps
<1>8. Accounts'
  BY <1>1, <1>2, <1>3, <1>5, <1>6 DEF Orderly, Accounts, Others, SetupSteps
<1>9. Wired'
  BY <1>1, <1>2, <1>6 DEF c, Orderly, Wired, Others
<1>10. Known'
  BY <1>1, <1>2, <1>3, <1>4, <1>5, <1>6
     DEF c, Orderly, Known, Others, SetupSteps
<1>11. Alone'
  BY <1>1, <1>2, <1>4, <1>6
     DEF Orderly, Alone, Others, SetupSteps, TeardownSteps, BeforeSteps,
         BridgeSteps, TypeInv, TypeOK
<1> QED BY <1>7, <1>8, <1>9, <1>10, <1>11 DEF Orderly

\* A setup ends early: its address is nobody's from now on.
LEMMA GivenUp ==
  ASSUME TypeInv, Orderly, NEW p \in Procs, pc[p] \in SetupSteps, Leave(p),
         leaked' = leaked \cup {got[p]}, UNCHANGED <<inUse, endpoint, lost>>
  PROVE  /\ Owned' /\ Accounts' /\ Alone'
         /\ UNCHANGED eth => Known'
         /\ UNCHANGED <<link, eth>> => Wired'
<1>1. Others(p) /\ pc'[p] = "idle" /\ cont'[p] = None /\ got[p] \in Addresses
  BY DEF Leave, Others, TypeInv, TypeOK
<1>2. UNCHANGED Keeping
  BY <1>1, SameKeeps DEF SetupSteps
<1>3. Owned'
  BY <1>1, <1>2 DEF Orderly, Owned, Others, SetupSteps
<1>4. Accounts'
  BY <1>1, <1>2 DEF Orderly, Accounts, Others, SetupSteps
<1>5. UNCHANGED eth => Known'
  BY <1>1, <1>2 DEF Orderly, Known, Others, SetupSteps
<1>6. UNCHANGED <<link, eth>> => Wired'
  BY <1>1 DEF Orderly, Wired, Others
<1>7. Alone'
  BY <1>1 DEF Orderly, Alone, Others, SetupSteps, TeardownSteps, BeforeSteps,
              BridgeSteps
<1> QED BY <1>3, <1>4, <1>5, <1>6, <1>7

LEMMA SetupFailsStep ==
  ASSUME TypeInv, Orderly, NEW p \in Procs, SetupFails(p)
  PROVE  Orderly'
<1> USE NetworkAssumption DEF NetworkAssumption
<1> DEFINE c == cont[p]
<1>1. /\ pc[p] \in SetupSteps /\ Leave(p)
      /\ leaked' = leaked \cup {got[p]}
      /\ UNCHANGED <<inUse, endpoint, lost>>
  BY DEF SetupFails
<1>2. /\ Owned' /\ Accounts' /\ Alone'
      /\ UNCHANGED eth => Known'
      /\ UNCHANGED <<link, eth>> => Wired'
  BY <1>1, GivenUp
<1>3. /\ c \in Containers /\ got[p] \in Addresses /\ endpoint[c] = None
      /\ Others(p) /\ pc'[p] = "idle"
  BY <1>1 DEF Leave, Others, TypeInv, TypeOK, Orderly, Alone
<1>4. CASE UNCHANGED <<link, eth>>
  BY <1>2, <1>4 DEF Orderly
<1>5. CASE NewPair(p) /\ UNCHANGED eth
  <2>1. Wired'
    BY <1>1, <1>3, <1>5
       DEF NewPair, MyLink, Orderly, Wired, TypeInv, TypeOK, Others, SetupSteps,
           TeardownSteps
  <2> QED BY <1>2, <1>5, <2>1 DEF Orderly
<1>6. CASE /\ pc[p] = "configure"
           /\ InNamespace(p)
           /\ eth' = [eth EXCEPT ![c] = got[p]]
           /\ UNCHANGED link
  <2>1. \A q \in Procs : q # p => cont[q] # c
    BY <1>3 DEF Orderly, Alone
  <2>2. Wired'
    BY <1>1, <1>3, <1>6, <2>1
       DEF InNamespace, MyLink, Orderly, Wired, TypeInv, TypeOK, Others
  <2>3. ASSUME ~lost, NEW d \in Containers, d # c PROVE eth[d] # got[p]
    BY <1>1, <1>3, <2>1, <2>3 DEF Orderly, Known, Owned
  <2>4. UNCHANGED Keeping
    BY <1>1, <1>3, SameKeeps DEF SetupSteps
  <2>5. Known'
    BY <1>1, <1>3, <1>6, <2>1, <2>3, <2>4
       DEF Orderly, Known, TypeInv, TypeOK, Others, SetupSteps
  <2> QED BY <1>2, <2>2, <2>5 DEF Orderly
<1> QED BY <1>4, <1>5, <1>6 DEF SetupFails

LEMMA TeardownStep ==
  ASSUME TypeInv, Orderly, muddled' = {}, NEW p \in Procs,
         DeletePair(p) \/ DeletePairFails(p) \/ Release(p) \/ RemoveEndpoint(p)
  PROVE  Orderly'
<1> USE NetworkAssumption DEF NetworkAssumption, Goto, history, shared
<1> DEFINE c == cont[p]
<1>1. /\ pc[p] \in TeardownSteps
      /\ c \in Containers /\ got[p] \in Addresses /\ endpoint[c] = got[p]
      /\ \A q \in Procs : q # p => cont[q] # c
  BY DEF DeletePair, DeletePairFails, Release, RemoveEndpoint, TeardownSteps,
         TypeInv, Orderly, Alone
<1>2. UNCHANGED leaked
  BY DEF DeletePair, DeletePairFails, Release, RemoveEndpoint
<1>3. CASE DeletePair(p) \/ DeletePairFails(p)
  <2>1. /\ pc[p] = "delete" /\ pc' = [pc EXCEPT ![p] = "release"]
        /\ UNCHANGED <<inUse, endpoint, lost, cont, got>>
    BY <1>3 DEF DeletePair, DeletePairFails
  <2>2. Others(p) /\ pc'[p] = "release"
    BY <2>1 DEF Others, TypeInv, TypeOK
  <2>3. UNCHANGED Keeping
    BY <2>1, <2>2, SameKeeps
  <2>4. Owned' /\ Accounts' /\ (UNCHANGED eth => Known')
    BY <1>2, <2>1, <2>2, <2>3, SameOwners DEF Orderly, Others, SetupSteps
  <2>5. Alone'
    BY <2>1, <2>2
       DEF Orderly, Alone, Others, SetupSteps, TeardownSteps, BeforeSteps,
           BridgeSteps
  <2>6. CASE DeletePair(p)
    <3>1. /\ link' = [link EXCEPT ![MyLink(p)] = "none"]
          /\ eth' = [d \in Containers |-> IF link[MyLink(p)] = d THEN None ELSE eth[d]]
      BY <2>6 DEF DeletePair
    <3>2. Wired'
      BY <1>1, <2>1, <2>2, <3>1
         DEF MyLink, Orderly, Wired, Others, TypeInv, TypeOK, SetupSteps,
             TeardownSteps
    <3>3. \A d \in Containers : eth'[d] # None => eth'[d] = eth[d]
      BY <3>1
    <3>4. Known'
      BY <1>2, <2>1, <2>2, <2>3, <3>3
         DEF Orderly, Known, Others, SetupSteps
    <3> QED BY <2>4, <2>5, <3>2, <3>4 DEF Orderly
  <2>7. CASE DeletePairFails(p)
    <3>1. link[MyLink(p)] = "none"
      BY <1>1, <2>7 DEF DeletePairFails, Muddled
    <3>2. Wired'
      BY <1>1, <2>1, <2>2, <2>7, <3>1
         DEF DeletePairFails, MyLink, Orderly, Wired, Others
    <3> QED BY <2>4, <2>5, <2>7, <3>2 DEF DeletePairFails, Orderly
  <2> QED BY <1>3, <2>6, <2>7
<1>4. CASE Release(p)
  <2>1. /\ pc[p] = "release" /\ pc' = [pc EXCEPT ![p] = "unlink"]
        /\ UNCHANGED <<link, eth, endpoint, cont, got>>
    BY <1>4 DEF Release
  <2>0. lost' \/ (inUse' = inUse \ {got[p]} /\ UNCHANGED lost)
    BY <1>4 DEF Release, GoOnFrom, TypeInv, TypeOK
  <2>2. Others(p) /\ pc'[p] = "unlink"
    BY <2>1 DEF Others, TypeInv, TypeOK
  <2>3. c \in Keeping /\ Keeping' = Keeping \ {c}
    BY <1>1, <2>1, <2>2 DEF Keeping, Others
  <2>4. Owned'
    BY <1>2, <2>0, <2>1, <2>2, <2>3 DEF Orderly, Owned, Others, SetupSteps
  <2>5. Accounts'
    BY <1>1, <1>2, <2>0, <2>1, <2>2, <2>3
       DEF Orderly, Owned, Accounts, Others, SetupSteps
  <2>6. Wired'
    BY <2>1, <2>2 DEF Orderly, Wired, Others
  <2>7. eth[c] = None
    BY <1>1, <2>1 DEF Orderly, Wired
  <2>8. Known'
    BY <1>2, <2>0, <2>1, <2>2, <2>3, <2>7 DEF Orderly, Known, Others, SetupSteps
  <2>9. Alone'
    BY <2>1, <2>2
       DEF Orderly, Alone, Others, SetupSteps, TeardownSteps, BeforeSteps,
           BridgeSteps
  <2> QED BY <2>4, <2>5, <2>6, <2>8, <2>9 DEF Orderly
<1>5. CASE RemoveEndpoint(p)
  <2>1. /\ pc[p] = "unlink" /\ Leave(p)
        /\ endpoint' = [endpoint EXCEPT ![c] = None]
        /\ UNCHANGED <<inUse, link, eth, lost>>
    BY <1>5 DEF RemoveEndpoint
  <2>2. Others(p) /\ pc'[p] = "idle" /\ cont'[p] = None
    BY <2>1 DEF Leave, Others, TypeInv, TypeOK
  <2>3. /\ endpoint'[c] = None
        /\ \A d \in Containers : d # c => endpoint'[d] = endpoint[d]
    BY <1>1, <2>1 DEF TypeInv, TypeOK
  <2>4. c \notin Keeping /\ UNCHANGED Keeping
    BY <1>1, <2>1, <2>2, <2>3 DEF Keeping, Others
  <2>5. Owned' /\ Known' /\ Accounts'
    <3> HIDE DEF c
    <3>1. Keeping \subseteq Containers
      BY DEF Keeping
    <3> QED BY <1>2, <2>1, <2>2, <2>3, <2>4, <3>1, SameOwners
            DEF Orderly, Others, SetupSteps
  <2>6. Wired'
    BY <2>1, <2>2, <2>3 DEF Orderly, Wired, Others
  <2>7. Alone'
    BY <1>1, <2>1, <2>2, <2>3
       DEF Orderly, Alone, Others, SetupSteps, TeardownSteps, BeforeSteps,
           BridgeSteps, TypeInv, TypeOK
  <2> QED BY <2>5, <2>6, <2>7 DEF Orderly
<1> QED BY <1>3, <1>4, <1>5

LEMMA KilledStep ==
  ASSUME TypeInv, Orderly, muddled' = {}, NEW p \in Procs, Killed(p)
  PROVE  Orderly'
<1>1. /\ pc[p] # "idle" /\ Leave(p)
      /\ leaked' = leaked \cup Unsaved(p)
      /\ UNCHANGED <<link, eth, endpoint>>
  BY DEF Killed
<1>5. /\ lost' \/ UNCHANGED <<inUse, lost>>
      /\ pc[p] \in SetupSteps => UNCHANGED <<inUse, lost>>
  BY DEF Killed, GoOnFrom, SetupSteps, TypeInv, TypeOK
<1>2. pc[p] # "unlink"
  BY DEF Killed, Muddled
<1>3. CASE pc[p] \in SetupSteps
  BY <1>1, <1>3, <1>5, GivenUp DEF Unsaved, Orderly
<1>4. CASE pc[p] \notin SetupSteps
  <2>1. leaked' = leaked
    BY <1>1, <1>4 DEF Unsaved
  <2>2. Others(p) /\ pc'[p] = "idle" /\ cont'[p] = None
    BY <1>1 DEF Leave, Others, TypeInv, TypeOK
  <2>3. Alone'
    BY <1>1, <2>2
       DEF Orderly, Alone, Others, SetupSteps, TeardownSteps, BeforeSteps,
           BridgeSteps
  <2> QED BY <1>1, <1>2, <1>4, <1>5, <2>1, <2>2, <2>3, Aside DEF Orderly, SetupSteps
<1> QED BY <1>3, <1>4

LEMMA DiesStep ==
  ASSUME TypeInv, Orderly, NEW c \in Containers, Dies(c)
  PROVE  Orderly'
<1> USE NetworkAssumption DEF NetworkAssumption
<1>1. /\ link' = [n \in Names |-> IF link[n] = c THEN "none" ELSE link[n]]
      /\ eth' = [eth EXCEPT ![c] = None]
      /\ UNCHANGED <<inUse, endpoint, pc, cont, got, leaked, lost>>
  BY DEF Dies, history
<1>2. UNCHANGED Keeping
  BY <1>1 DEF Keeping
<1>3. Owned' /\ Accounts' /\ Alone'
  BY <1>1, <1>2 DEF Orderly, Owned, Accounts, Alone
<1>4. \A d \in Containers : eth'[d] # None => eth'[d] = eth[d]
  BY <1>1 DEF TypeInv, TypeOK
<1>5. Known'
  BY <1>1, <1>2, <1>4 DEF Orderly, Known
<1>6. Wired'
  BY <1>1 DEF Orderly, Wired, TypeInv, TypeOK, SetupSteps, TeardownSteps
<1> QED BY <1>3, <1>5, <1>6 DEF Orderly

LEMMA AddressStep == TypeInv /\ AddressInv /\ [Next]_vars => AddressInv'
<1> SUFFICES ASSUME TypeInv, AddressInv, [Next]_vars, muddled' = {}
             PROVE  Orderly'
  BY DEF AddressInv
<1>1. muddled = {}
  <2>1. muddled \subseteq muddled'
    BY DEF Next, Step, vars, history, shared, CallSetup, CallTeardown, CallRemove,
           Muddled, BridgeExists, AddBridge, BridgeRaceLost, FinishBridge,
           Announce, EnsureFails, Allocate, AllocateFails, CreatePair, Move,
           Configure, Publish, WriteResolvConf, SaveEndpoint, SetupFails, DeletePair,
           DeletePairFails, Release, ReleaseFails, RemoveEndpoint, BridgeDown,
           DeleteBridge, DeleteBridgeFails, Unlist, Starts, Dies, Killed
  <2> QED BY <2>1
<1>2. Orderly
  BY <1>1 DEF AddressInv
<1>3. CASE \E p \in Procs : \E c \in Containers : CallSetup(p, c) \/ CallTeardown(p, c)
  BY <1>2, <1>3, QuietStep
<1>4. CASE \E p \in Procs : CallRemove(p)
  BY <1>2, <1>4, QuietStep
<1>5. ASSUME NEW p \in Procs, Step(p)
      PROVE  Orderly'
  BY <1>2, <1>5, QuietStep, AllocateStep, SetupStep, SaveStep, SetupFailsStep,
     TeardownStep DEF Step
<1>6. CASE \E p \in Procs : Killed(p)
  BY <1>2, <1>6, KilledStep
<1>7. ASSUME NEW c \in Containers, Starts(c)
      PROVE  Orderly'
  BY <1>2, <1>7
     DEF Starts, history, Orderly, Alone, Owned, Accounts, Wired, Known, Keeping
<1>8. CASE \E c \in Containers : Dies(c)
  BY <1>2, <1>8, DiesStep
<1>9. CASE UNCHANGED vars
  BY <1>2, <1>9
     DEF vars, shared, history, Orderly, Alone, Owned, Accounts, Wired, Known,
         Keeping
<1> QED BY <1>3, <1>4, <1>5, <1>6, <1>7, <1>8, <1>9 DEF Next

LEMMA AddressInvariant == Spec => []AddressInv
<1>1. ASSUME Init PROVE Orderly
  <2>1. Keeping = {}
    BY <1>1 DEF Init, Keeping
  <2>2. \A p \in Procs :
          pc[p] \notin BeforeSteps \cup SetupSteps \cup TeardownSteps
    BY <1>1 DEF Init, BeforeSteps, BridgeSteps, SetupSteps, TeardownSteps
  <2>3. Alone
    BY <1>1, <2>2 DEF Init, Alone
  <2>4. Wired
    BY <1>1, NetworkAssumption DEF Init, Wired, NetworkAssumption
  <2> QED BY <1>1, <2>1, <2>2, <2>3, <2>4 DEF Init, Orderly, Owned, Accounts, Known
<1>2. Init => AddressInv
  BY <1>1 DEF AddressInv
<1> QED BY <1>2, AddressStep, TypeInvariant, PTL DEF Spec

(* No two containers have one address, for any number of programs,          *)
(* containers and addresses, and whatever the interfaces are called, as    *)
(* long as no call was muddled and ipam.json was not lost.                 *)
THEOREM AddressesStayUnique == Spec => []UniqueAddresses
<1>1. AddressInv => UniqueAddresses
  BY DEF AddressInv, Orderly, Known, UniqueAddresses
<1> QED BY <1>1, AddressInvariant, PTL

(* Under the same conditions ipam.json holds what endpoints, setups and     *)
(* failed setups have, and nothing else.                                   *)
THEOREM AddressesStayAccounted == Spec => []AddressesAccounted
<1>1. TypeInv /\ AddressInv => AddressesAccounted
  <2> SUFFICES ASSUME TypeInv, Orderly, ~lost
               PROVE  inUse = Saved \cup leaked \cup UNION {Unsaved(p) : p \in Procs}
    BY DEF AddressInv, AddressesAccounted
  <2>1. Keeping \subseteq Containers /\ \A c \in Keeping : endpoint[c] \in Addresses
    BY DEF Keeping, TypeInv, TypeOK
  <2>2. ASSUME NEW a
        PROVE  a \in UNION {Unsaved(p) : p \in Procs}
                 <=> \E p \in Procs : pc[p] \in SetupSteps /\ got[p] = a
    BY DEF Unsaved
  <2>3. ASSUME NEW a
        PROVE  a \in Saved <=> \E c \in Keeping : endpoint[c] = a
    BY DEF Saved
  <2>4. /\ inUse \subseteq Addresses /\ leaked \subseteq Addresses
        /\ \A p \in Procs : pc[p] \in SetupSteps => got[p] \in Addresses
    BY DEF TypeInv, TypeOK
  <2> QED BY <2>1, <2>2, <2>3, <2>4 DEF Orderly, Accounts
<1> QED BY <1>1, AddressInvariant, TypeInvariant, PTL

(* A connected container has the address of its endpoint file, also after  *)
(* ipam.json was lost.                                                     *)
THEOREM EndpointsStayTrue == Spec => []EndpointIsTrue
<1>1. AddressInv => EndpointIsTrue
  BY DEF AddressInv, Orderly, Wired, EndpointIsTrue
<1> QED BY <1>1, AddressInvariant, PTL

==============================================================================
