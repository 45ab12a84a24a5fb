----------------------------- MODULE IpamProofs ------------------------------
(***************************************************************************)
(* Proofs about Ipam, for any set of processes, any pool and any bound on  *)
(* the attempts at the lock.                                               *)
(***************************************************************************)
EXTENDS Ipam, TLAPS

LEMMA ConstantFacts == /\ MaxTries \in Nat \ {0}
                       /\ 0 \in 0 .. MaxTries - 1
                       /\ Pool \subseteq Hosts
                       /\ NoAddress \notin Pool
                       /\ Gateway \notin Pool
  BY IpamAssumption DEF IpamAssumption, Pool, Hosts, NoAddress

\* TypeOK and what it needs: an allocation that has chosen has an address.
TypeInv ==
  /\ TypeOK
  /\ \A p \in Procs : op[p] = "allocate" /\ pc[p] \in {"truncate", "fill", "return"}
       => addr[p] \in Pool

\* Whatever a read returns are addresses of the pool.
LEMMA ReadsInPool == ASSUME TypeOK, NEW read \in Reads PROVE read \subseteq Pool
  BY DEF Reads, Loaded, TypeOK

LEMMA TypeInvariant == Spec => []TypeInv
<1>1. ASSUME Init
      PROVE  TypeInv
  <2> USE <1>1 DEF Init
  <2>1. file \in [whole : BOOLEAN, ips : SUBSET Pool]
    OBVIOUS
  <2>2. tries \in [Procs -> 0 .. MaxTries - 1]
    BY ConstantFacts
  <2>3. /\ seen \in [Procs -> SUBSET Pool]
        /\ held \in [Procs -> SUBSET Pool]
        /\ lost \in BOOLEAN
    OBVIOUS
  <2>4. /\ pc \in [Procs -> {"idle", "locking"} \cup Inside]
        /\ op \in [Procs -> {"allocate", "release"}]
        /\ addr \in [Procs -> Pool \cup {NoAddress}]
        /\ lock \in BOOLEAN
    OBVIOUS
  <2>5. \A p \in Procs : pc[p] \notin {"truncate", "fill", "return"}
    OBVIOUS
  <2> QED BY <2>1, <2>2, <2>3, <2>4, <2>5 DEF TypeInv, TypeOK
<1>2. TypeInv /\ [Next]_vars => TypeInv'
  <2> SUFFICES ASSUME TypeInv, [Next]_vars
               PROVE  TypeInv'
    OBVIOUS
  <2> USE ConstantFacts DEF TypeInv, TypeOK, Inside
  <2>1. ASSUME NEW p \in Procs, CallAllocate(p)
        PROVE  TypeInv'
    BY <2>1 DEF CallAllocate, Call, Goto
  <2>2. ASSUME NEW p \in Procs, CallRelease(p)
        PROVE  TypeInv'
    BY <2>2 DEF CallRelease, Call, Goto
  <2>4. ASSUME NEW p \in Procs, Acquire(p)
        PROVE  TypeInv'
    BY <2>4 DEF Acquire, Goto
  <2>5. ASSUME NEW p \in Procs, Retry(p)
        PROVE  TypeInv'
    BY <2>5 DEF Retry
  <2>6. ASSUME NEW p \in Procs, LockTimeout(p)
        PROVE  TypeInv'
    BY <2>6 DEF LockTimeout, Leave, Goto
  <2>7. ASSUME NEW p \in Procs, Choose(p)
        PROVE  TypeInv'
    <3> PICK read \in Reads, a \in Hosts :
               /\ IsFirstFree(a, read)
               /\ addr' = [addr EXCEPT ![p] = a]
               /\ seen' = [seen EXCEPT ![p] = read \cup {a}]
               /\ lost' = (lost \/ read # Loaded)
      BY <2>7 DEF Choose
    <3>1. a \in Pool /\ read \subseteq Pool
      BY ReadsInPool DEF IsFirstFree
    <3> QED BY <2>7, <3>1 DEF Choose, Goto
  <2>8. ASSUME NEW p \in Procs, Exhausted(p)
        PROVE  TypeInv'
    BY <2>8 DEF Exhausted, Goto
  <2>9. ASSUME NEW p \in Procs, Discard(p)
        PROVE  TypeInv'
    <3> PICK read \in Reads : /\ seen' = [seen EXCEPT ![p] = read \ {addr[p]}]
                              /\ lost' = (lost \/ read # Loaded)
      BY <2>9 DEF Discard
    <3>1. read \subseteq Pool
      BY ReadsInPool
    <3> QED BY <2>9, <3>1 DEF Discard, Goto
  <2>10. ASSUME NEW p \in Procs, Truncate(p)
         PROVE  TypeInv'
    BY <2>10 DEF Truncate, Goto
  <2>11. ASSUME NEW p \in Procs, Fill(p)
         PROVE  TypeInv'
    BY <2>11 DEF Fill, Goto
  <2>12. ASSUME NEW p \in Procs, FillFails(p)
         PROVE  TypeInv'
    BY <2>12 DEF FillFails, Goto
  <2>13. ASSUME NEW p \in Procs, Return(p)
         PROVE  TypeInv'
    <3>1. op[p] = "allocate" => addr[p] \in Pool
      BY <2>13 DEF Return, Leave, Goto
    <3>2. held' = [held EXCEPT ![p] = IF op[p] = "allocate"
                                      THEN @ \cup {addr[p]}
                                      ELSE @ \ {addr[p]}]
      BY <2>13 DEF Return
    <3>3. held' \in [Procs -> SUBSET Pool]
      BY <3>1, <3>2
    <3> QED BY <2>13, <3>1 DEF Return, Leave, Goto
  <2>14. ASSUME NEW p \in Procs, Raise(p)
         PROVE  TypeInv'
    BY <2>14 DEF Raise, Leave, Goto
  <2>15. ASSUME NEW p \in Procs, Crash(p)
         PROVE  TypeInv'
    BY <2>15 DEF Crash, Leave, Goto
  <2>16. ASSUME NEW p \in Procs, LockError(p) \/ OpenFails(p)
         PROVE  TypeInv'
    BY <2>16 DEF LockError, OpenFails, Leave, Goto
  <2>17. CASE UNCHANGED vars
    BY <2>17 DEF vars, procVars
  <2> QED
    BY <2>1, <2>2, <2>4, <2>5, <2>6, <2>7, <2>8, <2>9, <2>10, <2>11, <2>12,
       <2>13, <2>14, <2>15, <2>16, <2>17 DEF Next, Step
<1> QED BY <1>1, <1>2, PTL DEF Spec

(* Every variable keeps its type: in particular only addresses of the pool *)
(* are ever written to ipam.json or handed out, never the gateway.         *)
THEOREM TypeCorrect == Spec => []TypeOK
<1>1. TypeInv => TypeOK
  BY DEF TypeInv
<1> QED BY <1>1, TypeInvariant, PTL

------------------------------------------------------------------------------
\* The lock

(* At most one process is inside the lock, for any bound on the attempts   *)
(* and also when processes die or saves fail.                              *)
THEOREM LockExcludes == Spec => []MutualExclusion
<1>1. Init => MutualExclusion
  BY DEF Init, MutualExclusion, Inside
<1>2. TypeOK /\ MutualExclusion /\ [Next]_vars => MutualExclusion'
  <2> SUFFICES ASSUME TypeOK, MutualExclusion, [Next]_vars
               PROVE  MutualExclusion'
    OBVIOUS
  <2> USE DEF MutualExclusion, Inside, TypeOK, Goto
  <2>1. ASSUME NEW p \in Procs, CallAllocate(p) \/ CallRelease(p)
        PROVE  MutualExclusion'
    BY <2>1 DEF CallAllocate, CallRelease, Call
  <2>3. ASSUME NEW p \in Procs, Acquire(p)
        PROVE  MutualExclusion'
    BY <2>3 DEF Acquire
  <2>4. ASSUME NEW p \in Procs, Retry(p)
        PROVE  MutualExclusion'
    BY <2>4 DEF Retry
  <2>5. ASSUME NEW p \in Procs, LockTimeout(p) \/ LockError(p)
        PROVE  MutualExclusion'
    BY <2>5 DEF LockTimeout, LockError, Leave
  <2>6. ASSUME NEW p \in Procs,
               Choose(p) \/ Exhausted(p) \/ Discard(p) \/ OpenFails(p)
        PROVE  MutualExclusion'
    BY <2>6 DEF Choose, Exhausted, Discard, OpenFails
  <2>7. ASSUME NEW p \in Procs, Truncate(p) \/ Fill(p) \/ FillFails(p)
        PROVE  MutualExclusion'
    BY <2>7 DEF Truncate, Fill, FillFails
  <2>8. ASSUME NEW p \in Procs, Return(p) \/ Raise(p)
        PROVE  MutualExclusion'
    BY <2>8 DEF Return, Raise, Leave
  <2>9. ASSUME NEW p \in Procs, Crash(p)
        PROVE  MutualExclusion'
    BY <2>9 DEF Crash, Leave
  <2>10. CASE UNCHANGED vars
    BY <2>10 DEF vars, procVars
  <2> QED
    BY <2>1, <2>3, <2>4, <2>5, <2>6, <2>7, <2>8, <2>9, <2>10 DEF Next, Step
<1> QED BY <1>1, <1>2, TypeCorrect, PTL DEF Spec

------------------------------------------------------------------------------
\* The addresses

\* The set of addresses in use once the call of p has succeeded.
Outcome(p) == IF op[p] = "allocate" THEN InUse \cup {addr[p]}
                                    ELSE InUse \ {addr[p]}

\* What the process inside the lock has read and computed is still true: the
\* file is the one it read until it truncates it, and what it saves is right.
Current(p) ==
  /\ pc[p] \in {"load", "truncate", "raise"} => file.whole /\ file.ips = InUse
  /\ pc[p] \in {"truncate", "fill", "return"} =>
       /\ seen[p] = Outcome(p)
       /\ op[p] = "allocate" => addr[p] \in Pool \ InUse
  /\ pc[p] = "return" => file.whole /\ file.ips = seen[p]

\* A process only gives back what it holds.
HoldsWhatItReleases(p) ==
  op[p] = "release" /\ pc[p] # "idle" => addr[p] \in held[p]

AddressInv ==
  /\ UniqueAddresses
  /\ Bookkeeping
  /\ \A p \in Procs : Current(p) /\ HoldsWhatItReleases(p)

LEMMA HeldInUse == ASSUME NEW p \in Procs PROVE held[p] \subseteq InUse
  BY DEF InUse

LEMMA SameHeld == ASSUME held' = held PROVE InUse' = InUse
  BY DEF InUse

\* An allocation that returns adds its address to those in use.
LEMMA AllocateInUse ==
  ASSUME TypeOK, NEW p \in Procs, NEW a,
         held' = [held EXCEPT ![p] = @ \cup {a}]
  PROVE  InUse' = InUse \cup {a}
<1>1. ASSUME NEW q \in Procs PROVE held'[q] \subseteq InUse \cup {a}
  BY HeldInUse DEF TypeOK
<1>2. ASSUME NEW q \in Procs PROVE held[q] \subseteq held'[q]
  BY DEF TypeOK
<1>3. a \in held'[p]
  BY DEF TypeOK
<1> QED BY <1>1, <1>2, <1>3 DEF InUse

\* A release that returns takes its address out, since no one else holds it.
LEMMA ReleaseInUse ==
  ASSUME TypeOK, UniqueAddresses, ~lost, NEW p \in Procs, NEW a \in held[p],
         held' = [held EXCEPT ![p] = @ \ {a}]
  PROVE  InUse' = InUse \ {a}
<1>1. ASSUME NEW q \in Procs PROVE held'[q] = held[q] \ {a}
  BY DEF TypeOK, UniqueAddresses
<1> QED BY <1>1 DEF InUse

\* A step outside the lock that changes no file and no holder.
LEMMA OutsideStep ==
  ASSUME AddressInv, NEW p \in Procs, NEW q \in Procs, q # p,
         UNCHANGED <<file, held>>,
         pc'[q] = pc[q], op'[q] = op[q], addr'[q] = addr[q], seen'[q] = seen[q]
  PROVE  Current(q)' /\ HoldsWhatItReleases(q)'
<1>1. InUse' = InUse
  BY SameHeld
<1>2. Current(q) /\ HoldsWhatItReleases(q)
  BY DEF AddressInv
<1>3. Outcome(q)' = Outcome(q)
  BY <1>1 DEF Outcome
<1>4. Current(q)'
  BY <1>1, <1>2, <1>3 DEF Current
<1>5. HoldsWhatItReleases(q)'
  BY <1>2 DEF HoldsWhatItReleases
<1> QED BY <1>4, <1>5

LEMMA AddressInvStep ==
  ASSUME ~lost, ~lost',
         TypeOK, MutualExclusion, AddressInv, [Next]_vars
  PROVE  AddressInv'
<1> USE DEF TypeOK, Goto
<1>1. ASSUME NEW p \in Procs,
             \/ CallAllocate(p) \/ CallRelease(p)
             \/ Retry(p) \/ LockTimeout(p) \/ LockError(p)
      PROVE  AddressInv'
  <2>1. UNCHANGED <<lock, file, held>>
    BY <1>1 DEF CallAllocate, CallRelease, Call, Retry, LockTimeout, LockError
  <2>2. pc'[p] \in {"idle", "locking"}
    BY <1>1 DEF CallAllocate, CallRelease, Call, Retry, LockTimeout,
                LockError, Leave
  <2>3. \A q \in Procs \ {p} : /\ pc'[q] = pc[q] /\ op'[q] = op[q]
                               /\ addr'[q] = addr[q] /\ seen'[q] = seen[q]
    BY <1>1 DEF CallAllocate, CallRelease, Call, Retry, LockTimeout,
                LockError, Leave
  <2>4. HoldsWhatItReleases(p)'
    BY <1>1 DEF CallAllocate, CallRelease, Call, Retry, LockTimeout,
                LockError, Leave, HoldsWhatItReleases, AddressInv
  <2>5. Current(p)'
    BY <2>2 DEF Current
  <2>6. \A q \in Procs : Current(q)' /\ HoldsWhatItReleases(q)'
    BY <2>1, <2>3, <2>4, <2>5, OutsideStep
  <2>7. UniqueAddresses' /\ Bookkeeping'
    BY <2>1, SameHeld DEF AddressInv, UniqueAddresses, Bookkeeping
  <2> QED BY <2>6, <2>7 DEF AddressInv
<1>3. ASSUME NEW p \in Procs, Acquire(p)
      PROVE  AddressInv'
  <2>1. \A q \in Procs : pc[q] \notin Inside
    BY <1>3 DEF Acquire, MutualExclusion
  <2> QED
    BY <1>3, <2>1, SameHeld DEF Acquire, AddressInv, UniqueAddresses,
       Bookkeeping, Current, HoldsWhatItReleases, Outcome, Inside
\* From here on p is inside the lock, and nobody else is.
<1> DEFINE Alone(p) == pc[p] \in Inside /\ lock /\ \A q \in Procs \ {p} : pc[q] \notin Inside
<1>4. ASSUME NEW p \in Procs, pc[p] \in Inside PROVE Alone(p)
  BY <1>4 DEF MutualExclusion
<1>5. ASSUME NEW p \in Procs, Choose(p)
      PROVE  AddressInv'
  <2>1. Alone(p)
    BY <1>4, <1>5 DEF Choose, Inside
  <2>2. PICK a \in Hosts : /\ IsFirstFree(a, Loaded)
                           /\ addr' = [addr EXCEPT ![p] = a]
                           /\ seen' = [seen EXCEPT ![p] = Loaded \cup {a}]
    BY <1>5 DEF Choose  \* lost' is false: the read did not fail
  <2>3. Loaded = InUse /\ a \in Pool \ InUse
    BY <1>5, <2>2 DEF Choose, AddressInv, Current, Loaded, IsFirstFree
  <2>4. Current(p)'
    BY <1>5, <2>2, <2>3, SameHeld DEF Choose, Current, Outcome, AddressInv
  <2>5. \A q \in Procs : Current(q)' /\ HoldsWhatItReleases(q)'
    BY <1>5, <2>1, <2>2, <2>4 DEF Choose, Current, HoldsWhatItReleases,
       AddressInv, Inside
  <2> QED
    BY <1>5, <2>1, <2>5 DEF Choose, AddressInv, UniqueAddresses, Bookkeeping
<1>6. ASSUME NEW p \in Procs, Exhausted(p) \/ OpenFails(p)
      PROVE  AddressInv'
  <2>1. Alone(p) /\ pc[p] \in {"load", "truncate"}
    BY <1>4, <1>6 DEF Exhausted, OpenFails, Inside
  <2>2. UNCHANGED <<lock, file, held>> /\ InUse' = InUse
    BY <1>6, SameHeld DEF Exhausted, OpenFails
  <2>3. /\ pc' = [pc EXCEPT ![p] = "raise"]
        /\ UNCHANGED <<op, addr, seen>>
    BY <1>6 DEF Exhausted, OpenFails
  <2>4. Current(p)' /\ HoldsWhatItReleases(p)'
    BY <2>1, <2>2, <2>3 DEF AddressInv, Current, HoldsWhatItReleases
  <2>5. \A q \in Procs : Current(q)' /\ HoldsWhatItReleases(q)'
    BY <2>2, <2>3, <2>4, OutsideStep
  <2> QED
    BY <2>2, <2>5 DEF AddressInv, UniqueAddresses, Bookkeeping
<1>7. ASSUME NEW p \in Procs, Discard(p)
      PROVE  AddressInv'
  <2>1. Alone(p)
    BY <1>4, <1>7 DEF Discard, Inside
  <2>2. Loaded = InUse /\ seen' = [seen EXCEPT ![p] = Loaded \ {addr[p]}]
    BY <1>7 DEF Discard, AddressInv, Current, Loaded
  <2>3. Current(p)'
    BY <1>7, <2>2, SameHeld DEF Discard, Current, Outcome, AddressInv
  <2>4. \A q \in Procs : Current(q)' /\ HoldsWhatItReleases(q)'
    BY <1>7, <2>1, <2>3 DEF Discard, Current, HoldsWhatItReleases,
       AddressInv, Inside
  <2> QED
    BY <1>7, <2>1, <2>4 DEF Discard, AddressInv, UniqueAddresses, Bookkeeping
<1>8. ASSUME NEW p \in Procs, Truncate(p) \/ Fill(p)
      PROVE  AddressInv'
  <2>1. Alone(p)
    BY <1>4, <1>8 DEF Truncate, Fill, Inside
  <2>2. Outcome(p)' = Outcome(p) /\ InUse' = InUse
    BY <1>8, SameHeld DEF Truncate, Fill, Outcome
  <2>3. Current(p)'
    BY <1>8, <2>2 DEF Truncate, Fill, Current, AddressInv
  <2>4. \A q \in Procs : Current(q)' /\ HoldsWhatItReleases(q)'
    BY <1>8, <2>1, <2>3 DEF Truncate, Fill, Current, HoldsWhatItReleases,
       AddressInv, Inside
  <2> QED
    BY <1>8, <2>1, <2>4 DEF Truncate, Fill, AddressInv, UniqueAddresses,
       Bookkeeping
<1>9. ASSUME NEW p \in Procs, Return(p)
      PROVE  AddressInv'
  <2>1. Alone(p)
    BY <1>4, <1>9 DEF Return, Leave, Inside
  <2>2. /\ file.whole /\ file.ips = Outcome(p)
        /\ op[p] = "allocate" => addr[p] \notin InUse
        /\ op[p] = "release" => addr[p] \in held[p]
    BY <1>9 DEF Return, Leave, AddressInv, Current, HoldsWhatItReleases
  <2>3. InUse' = Outcome(p) /\ UniqueAddresses'
    <3>1. CASE op[p] = "allocate"
      <4>1. held' = [held EXCEPT ![p] = @ \cup {addr[p]}]
        BY <1>9, <3>1 DEF Return
      <4>2. UniqueAddresses'
        BY <2>2, <3>1, <4>1, HeldInUse DEF UniqueAddresses, AddressInv
      <4> QED BY <3>1, <4>1, <4>2, AllocateInUse DEF Outcome
    <3>2. CASE op[p] = "release"
      <4>1. held' = [held EXCEPT ![p] = @ \ {addr[p]}]
        BY <1>9, <3>2 DEF Return
      <4>2. UniqueAddresses'
        BY <4>1 DEF UniqueAddresses, AddressInv
      <4> QED BY <2>2, <3>2, <4>1, <4>2, ReleaseInUse DEF Outcome, AddressInv
    <3> QED BY <3>1, <3>2
  <2>4. Bookkeeping'
    BY <1>9, <2>2, <2>3 DEF Return, Bookkeeping
  <2>5. \A q \in Procs : Current(q)'
    BY <1>9, <2>1 DEF Return, Leave, Current, Inside
  <2>6. \A q \in Procs : HoldsWhatItReleases(q)'
    BY <1>9 DEF Return, Leave, HoldsWhatItReleases, AddressInv
  <2> QED BY <2>3, <2>4, <2>5, <2>6 DEF AddressInv
<1>10. ASSUME NEW p \in Procs, Raise(p)
       PROVE  AddressInv'
  <2>1. Alone(p)
    BY <1>4, <1>10 DEF Raise, Leave, Inside
  <2>2. file.whole /\ file.ips = InUse
    BY <1>10 DEF Raise, Leave, AddressInv, Current
  <2>3. \A q \in Procs : Current(q)' /\ HoldsWhatItReleases(q)'
    BY <1>10, <2>1 DEF Raise, Leave, Current, HoldsWhatItReleases, AddressInv,
       Inside
  <2> QED
    BY <1>10, <2>2, <2>3, SameHeld DEF Raise, Leave, AddressInv,
       UniqueAddresses, Bookkeeping
<1>11. ASSUME NEW p \in Procs, Crash(p)
       PROVE  AddressInv'
  <2>1. UNCHANGED <<lock, file, held>> /\ pc'[p] = "idle"
    BY <1>11 DEF Crash, Leave
  <2>2. \A q \in Procs \ {p} : /\ pc'[q] = pc[q] /\ op'[q] = op[q]
                               /\ addr'[q] = addr[q] /\ seen'[q] = seen[q]
    BY <1>11 DEF Crash, Leave
  <2>3. \A q \in Procs : Current(q)' /\ HoldsWhatItReleases(q)'
    BY <2>1, <2>2, OutsideStep DEF Current, HoldsWhatItReleases
  <2>4. UniqueAddresses' /\ Bookkeeping'
    BY <2>1, SameHeld DEF AddressInv, UniqueAddresses, Bookkeeping
  <2> QED BY <2>3, <2>4 DEF AddressInv
<1>12. CASE UNCHANGED vars
  BY <1>12, SameHeld DEF vars, procVars, AddressInv, UniqueAddresses,
     Bookkeeping, Current, HoldsWhatItReleases, Outcome
<1>13. ASSUME NEW p \in Procs, FillFails(p)
       PROVE  FALSE
  BY <1>13 DEF FillFails
<1> QED
  BY <1>1, <1>3, <1>5, <1>6, <1>7, <1>8, <1>9, <1>10, <1>11, <1>12, <1>13
  DEF Next, Step

LEMMA AddressInvInit == Init => AddressInv
<1>1. Init => InUse = {}
  BY DEF Init, InUse
<1> QED
  BY <1>1 DEF Init, AddressInv, UniqueAddresses, Bookkeeping, Current,
     HoldsWhatItReleases

\* Once lost, always lost.
LEMMA LostStays == TypeOK /\ [Next]_vars => (lost => lost')
<1> SUFFICES ASSUME TypeOK, [Next]_vars, lost PROVE lost'
  OBVIOUS
<1>1. ASSUME NEW p \in Procs, Choose(p) \/ Discard(p)
      PROVE  lost'
  BY <1>1 DEF Choose, Discard
<1>2. ASSUME NEW p \in Procs, FillFails(p)
      PROVE  lost'
  BY <1>2 DEF FillFails
<1>3. ASSUME ~ \E p \in Procs : Choose(p) \/ Discard(p) \/ FillFails(p)
      PROVE  UNCHANGED lost
  BY <1>3 DEF Next, Step, CallAllocate, CallRelease, Call, Acquire, Retry,
     LockTimeout, LockError, Exhausted, OpenFails, Truncate, Fill, Return,
     Raise, Crash, vars
<1> QED BY <1>1, <1>2, <1>3

(* The invariant behind the next theorems: as long as no save and no read  *)
(* has failed, what a process read inside the lock stays true until it has *)
(* written.                                                                *)
THEOREM AddressesAccounted == Spec => [](~lost => AddressInv)
<1>1. TypeOK /\ MutualExclusion /\ (~lost => AddressInv) /\ [Next]_vars
      => (~lost => AddressInv)'
  BY AddressInvStep, LostStays
<1> QED BY <1>1, AddressInvInit, TypeCorrect, LockExcludes, PTL DEF Spec

(* No address is given to two callers, until a save or a read fails.       *)
THEOREM AddressesUnique == Spec => []UniqueAddresses
<1>1. (~lost => AddressInv) => UniqueAddresses
  BY DEF AddressInv, UniqueAddresses
<1> QED BY <1>1, AddressesAccounted, PTL

(* ipam.json is exact whenever the lock is free, until a save or a read    *)
(* fails.                                                                  *)
THEOREM BooksBalance == Spec => []Bookkeeping
<1>1. (~lost => AddressInv) => Bookkeeping
  BY DEF AddressInv, Bookkeeping
<1> QED BY <1>1, AddressesAccounted, PTL

(* The pool is reported exhausted only when every address is in use, until *)
(* a save or a read fails.                                                 *)
THEOREM ExhaustionIsReal == Spec => ExhaustedOnlyWhenFull
<1>1. ASSUME TypeOK, AddressInv, NEW p \in Procs, Exhausted(p)
      PROVE  InUse = Pool
  <2>1. Pool \subseteq InUse
    BY <1>1 DEF Exhausted, Goto, AddressInv, Current, Loaded
  <2>2. InUse \subseteq Pool
    BY <1>1 DEF InUse, TypeOK
  <2> QED BY <2>1, <2>2
<1>2. TypeOK /\ (~lost => AddressInv) /\ [Next]_vars
      => [\A p \in Procs : Exhausted(p) /\ ~lost => InUse = Pool]_vars
  BY <1>1
<1> QED
  BY <1>2, AddressesAccounted, TypeCorrect, PTL DEF Spec, ExhaustedOnlyWhenFull

(* The callers cannot tell the file, the lock and the processes from the   *)
(* abstract pool: every step is one of its steps or changes nothing, and a *)
(* save or a read that fails is its loss of the books.                     *)
THEOREM PoolImplemented == Spec => ImplementsAddressPool
<1>1. Init => AbstractPool!Init
  BY DEF Init, AbstractPool!Init
<1>2. ASSUME TypeInv, ~lost => AddressInv, [Next]_vars
      PROVE  [AbstractPool!Next]_AbstractPool!vars
  <2> USE DEF AbstractPool!vars
  <2>1. ASSUME NEW p \in Procs, Return(p), op[p] = "allocate"
        PROVE  AbstractPool!Next
    <3>1. addr[p] \in Pool
      BY <1>2, <2>1 DEF Return, Leave, Goto, TypeInv
    <3>2. ~lost => addr[p] \notin InUse
      BY <1>2, <2>1 DEF Return, Leave, Goto, AddressInv, Current
    <3>3. held' = [held EXCEPT ![p] = @ \cup {addr[p]}] /\ UNCHANGED lost
      BY <2>1 DEF Return
    <3>4. AbstractPool!Allocate(p, addr[p])
      BY <3>2, <3>3, HeldInUse DEF AbstractPool!Allocate
    <3> QED BY <3>1, <3>4 DEF AbstractPool!Next
  <2>2. ASSUME NEW p \in Procs, Return(p), op[p] = "release"
        PROVE  [AbstractPool!Next]_AbstractPool!vars
    <3>1. held' = [held EXCEPT ![p] = @ \ {addr[p]}] /\ UNCHANGED lost
      BY <2>2 DEF Return
    <3>2. held \in [Procs -> SUBSET Pool]
      BY <1>2 DEF TypeInv, TypeOK
    <3>3. CASE addr[p] \in held[p]
      <4>1. AbstractPool!Release(p, addr[p])
        BY <3>1, <3>3 DEF AbstractPool!Release
      <4> QED BY <3>2, <3>3, <4>1 DEF AbstractPool!Next
    <3>4. CASE addr[p] \notin held[p]
      BY <3>1, <3>2, <3>4
    <3> QED BY <3>3, <3>4
  <2>3. ASSUME NEW p \in Procs, Choose(p) \/ Discard(p) \/ FillFails(p)
        PROVE  [AbstractPool!Next]_AbstractPool!vars
    <3>1. UNCHANGED held
      BY <2>3 DEF Choose, Discard, FillFails
    <3>2. lost' = TRUE \/ lost' = lost
      BY <1>2, <2>3 DEF Choose, Discard, FillFails, TypeInv, TypeOK
    <3>3. CASE lost' = TRUE
      BY <3>1, <3>3 DEF AbstractPool!Next, AbstractPool!Lose
    <3> QED BY <3>1, <3>2, <3>3
  <2>4. ASSUME ~ \E p \in Procs : Return(p) \/ Choose(p) \/ Discard(p) \/ FillFails(p)
        PROVE  UNCHANGED <<held, lost>>
    BY <1>2, <2>4 DEF Next, Step, CallAllocate, CallRelease, Call, Acquire,
       Retry, LockTimeout, LockError, Exhausted, OpenFails, Truncate, Fill,
       Raise, Crash, vars
  <2>5. \A p \in Procs : op[p] \in {"allocate", "release"}
    BY <1>2 DEF TypeInv, TypeOK
  <2> QED BY <2>1, <2>2, <2>3, <2>4, <2>5
<1> QED
  BY <1>1, <1>2, AddressesAccounted, TypeInvariant, PTL
  DEF Spec, ImplementsAddressPool, AbstractPool!Spec
==============================================================================
