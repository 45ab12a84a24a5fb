-------------------------------- MODULE Ipam ---------------------------------
(***************************************************************************)
(* IpamManager (network/ipam.py): processes that allocate and release      *)
(* addresses by rewriting the shared file ipam.json under the lock file    *)
(* ipam.lock.  Addresses are numbered in the order network.hosts() yields  *)
(* them.                                                                   *)
(*                                                                         *)
(* Operators whose name has a suffix after "_" are faulty variants of the  *)
(* operator that follows them.  Nothing uses them: replacing the operator  *)
(* by its variant shows that a property can fail.                          *)
(***************************************************************************)
EXTENDS Naturals

CONSTANTS
  Procs,     \* processes that use the same networks directory
  NumHosts,  \* number of addresses network.hosts() yields
  Gateway,   \* position of the gateway among them (0: outside the network)
  MaxTries,  \* attempts __enter__ makes at the lock (50 in the code)
  Faults     \* which of "crash" and "ioerror" may happen

ASSUME IpamAssumption ==
  /\ NumHosts \in Nat
  /\ Gateway \in Nat
  /\ MaxTries \in Nat \ {0}

Hosts == 1 .. NumHosts
Pool == Hosts \ {Gateway}
NoAddress == 0

VARIABLES
  lock,   \* ipam.lock exists
  file,   \* ipam.json; whole is FALSE while its text is not valid JSON
  pc, op, addr, tries,
  seen,   \* seen[p]: the set p has computed from the file and will save
  held,   \* held[p]: addresses p was given and has not released (the callers')
  lost    \* history: what the file said was lost, because a save failed after
          \* it had truncated it or a failed read was taken for an empty file

procVars == <<pc, op, addr, tries, seen>>
vars == <<lock, file, procVars, held, lost>>

Inside == {"load", "truncate", "fill", "return", "raise"}

TypeOK ==
  /\ lock \in BOOLEAN
  /\ file \in [whole : BOOLEAN, ips : SUBSET Pool]
  /\ pc \in [Procs -> {"idle", "locking"} \cup Inside]
  /\ op \in [Procs -> {"allocate", "release"}]
  /\ addr \in [Procs -> Pool \cup {NoAddress}]
  /\ tries \in [Procs -> 0 .. MaxTries - 1]
  /\ seen \in [Procs -> SUBSET Pool]
  /\ held \in [Procs -> SUBSET Pool]
  /\ lost \in BOOLEAN

\* No ipam.json yet reads as an empty one.
Init ==
  /\ lock = FALSE
  /\ file = [whole |-> TRUE, ips |-> {}]
  /\ pc = [p \in Procs |-> "idle"]
  /\ op = [p \in Procs |-> "allocate"]
  /\ addr = [p \in Procs |-> NoAddress]
  /\ tries = [p \in Procs |-> 0]
  /\ seen = [p \in Procs |-> {}]
  /\ held = [p \in Procs |-> {}]
  /\ lost = FALSE

Goto(p, from, to) ==
  /\ pc[p] = from
  /\ pc' = [pc EXCEPT ![p] = to]

\* The call is over and its local variables are gone.
Leave(p, from) ==
  /\ Goto(p, from, "idle")
  /\ addr' = [addr EXCEPT ![p] = NoAddress]
  /\ tries' = [tries EXCEPT ![p] = 0]
  /\ seen' = [seen EXCEPT ![p] = {}]

------------------------------------------------------------------------------
\* Calls

Call(p, o, a) ==
  /\ Goto(p, "idle", "locking")
  /\ op' = [op EXCEPT ![p] = o]
  /\ addr' = [addr EXCEPT ![p] = a]
  /\ UNCHANGED <<lock, file, tries, seen, held, lost>>

CallAllocate(p) == Call(p, "allocate", NoAddress)
CallRelease(p) == \E a \in held[p] : Call(p, "release", a)

\* What ipam.json says: a file that is not JSON counts as an empty one.
Loaded == IF file.whole THEN file.ips ELSE {}

\* What _load may return: an OSError while it reads counts as an empty file too.
Reads == IF "ioerror" \in Faults THEN {Loaded, {}} ELSE {Loaded}

------------------------------------------------------------------------------
\* _locked: the lock is the existence of a file, created with O_EXCL

Acquire_NotExclusive(p) ==
  /\ Goto(p, "locking", "load")
  /\ lock' = TRUE
  /\ UNCHANGED <<file, op, addr, tries, seen, held, lost>>

Acquire(p) ==
  /\ ~lock
  /\ Goto(p, "locking", "load")
  /\ lock' = TRUE
  /\ UNCHANGED <<file, op, addr, tries, seen, held, lost>>

Retry_Unbounded(p) ==
  /\ lock
  /\ pc[p] = "locking"
  /\ tries' = [tries EXCEPT ![p] = (@ + 1) % MaxTries]
  /\ UNCHANGED <<lock, file, pc, op, addr, seen, held, lost>>

Retry(p) ==
  /\ lock
  /\ pc[p] = "locking"
  /\ tries[p] + 1 < MaxTries
  /\ tries' = [tries EXCEPT ![p] = @ + 1]
  /\ UNCHANGED <<lock, file, pc, op, addr, seen, held, lost>>

LockTimeout_Steals(p) ==
  /\ lock
  /\ Goto(p, "locking", "load")
  /\ tries[p] + 1 = MaxTries
  /\ UNCHANGED <<lock, file, op, addr, tries, seen, held, lost>>

LockTimeout(p) ==
  /\ lock
  /\ tries[p] + 1 = MaxTries
  /\ Leave(p, "locking")
  /\ UNCHANGED <<lock, file, op, held, lost>>

\* mkdir() or os.open() raises an OSError other than FileExistsError.
LockError(p) ==
  /\ "ioerror" \in Faults
  /\ Leave(p, "locking")
  /\ UNCHANGED <<lock, file, op, held, lost>>

------------------------------------------------------------------------------
\* Inside the lock

IsFirstFree_OrGateway(a, used) ==
  a \in Hosts \ used /\ \A b \in Hosts \ used : a <= b

IsFirstFree(a, used) == a \in Pool \ used /\ \A b \in Pool \ used : a <= b

Choose(p) ==
  /\ op[p] = "allocate"
  /\ Goto(p, "load", "truncate")
  /\ \E read \in Reads, a \in Hosts :
       /\ IsFirstFree(a, read)
       /\ addr' = [addr EXCEPT ![p] = a]
       /\ seen' = [seen EXCEPT ![p] = read \cup {a}]
       /\ lost' = (lost \/ read # Loaded)
  /\ UNCHANGED <<lock, file, op, tries, held>>

\* A failed read cannot exhaust a pool that has an address.
Exhausted(p) ==
  /\ op[p] = "allocate"
  /\ Goto(p, "load", "raise")
  /\ Pool \subseteq Loaded
  /\ UNCHANGED <<lock, file, op, addr, tries, seen, held, lost>>

Discard_Nothing(p) ==
  /\ op[p] = "release"
  /\ Goto(p, "load", "truncate")
  /\ \E read \in Reads :
       /\ seen' = [seen EXCEPT ![p] = read]
       /\ lost' = (lost \/ read # Loaded)
  /\ UNCHANGED <<lock, file, op, addr, tries, held>>

Discard(p) ==
  /\ op[p] = "release"
  /\ Goto(p, "load", "truncate")
  /\ \E read \in Reads :
       /\ seen' = [seen EXCEPT ![p] = read \ {addr[p]}]
       /\ lost' = (lost \/ read # Loaded)
  /\ UNCHANGED <<lock, file, op, addr, tries, held>>

\* exists(), mkdir() or the open of the save raises, before anything is changed.
OpenFails(p) ==
  /\ "ioerror" \in Faults
  /\ \E from \in {"load", "truncate"} : Goto(p, from, "raise")
  /\ UNCHANGED <<lock, file, op, addr, tries, seen, held, lost>>

\* _save: write_text() opens with O_TRUNC, then writes.
Truncate(p) ==
  /\ Goto(p, "truncate", "fill")
  /\ file' = [whole |-> FALSE, ips |-> {}]
  /\ UNCHANGED <<lock, op, addr, tries, seen, held, lost>>

Fill(p) ==
  /\ Goto(p, "fill", "return")
  /\ file' = [whole |-> TRUE, ips |-> seen[p]]
  /\ UNCHANGED <<lock, op, addr, tries, seen, held, lost>>

\* The write raises OSError; __exit__ still removes the lock file.
FillFails(p) ==
  /\ "ioerror" \in Faults
  /\ Goto(p, "fill", "raise")
  /\ lost' = TRUE
  /\ UNCHANGED <<lock, file, op, addr, tries, seen, held>>

Return(p) ==
  /\ Leave(p, "return")
  /\ lock' = FALSE
  /\ held' = [held EXCEPT ![p] = IF op[p] = "allocate"
                                 THEN @ \cup {addr[p]}
                                 ELSE @ \ {addr[p]}]
  /\ UNCHANGED <<file, op, lost>>

Raise(p) ==
  /\ Leave(p, "raise")
  /\ lock' = FALSE
  /\ UNCHANGED <<file, op, held, lost>>

\* As with flock(), which the kernel releases when the process dies.
Crash_ReleasesLock(p) ==
  /\ "crash" \in Faults
  /\ \E from \in Inside \cup {"locking"} : Leave(p, from)
  /\ lock' = (lock /\ pc[p] \notin Inside)
  /\ UNCHANGED <<file, op, held, lost>>

\* The process dies; another takes its place.  A lock it held stays.  The
\* addresses it had been given are still in use: containers hold them.  A
\* removal of the lock file that fails has the same effect.
Crash(p) ==
  /\ "crash" \in Faults
  /\ \E from \in Inside \cup {"locking"} : Leave(p, from)
  /\ UNCHANGED <<lock, file, op, held, lost>>

------------------------------------------------------------------------------

Step(p) ==
  \/ Acquire(p) \/ Retry(p) \/ LockTimeout(p) \/ LockError(p)
  \/ Choose(p) \/ Exhausted(p) \/ Discard(p) \/ OpenFails(p)
  \/ Truncate(p) \/ Fill(p) \/ FillFails(p)
  \/ Return(p) \/ Raise(p)

Next ==
  \E p \in Procs :
    \/ CallAllocate(p) \/ CallRelease(p)
    \/ Step(p) \/ Crash(p)

Spec == Init /\ [][Next]_vars

\* A process that is running a call keeps running; nobody has to call.
FairSpec == Spec /\ \A p \in Procs : WF_vars(Step(p))

------------------------------------------------------------------------------
\* Properties

InUse == UNION {held[p] : p \in Procs}

(* ipam.py:3 "allocates unique addresses": no address is in the hands of   *)
(* two callers, whatever the interleaving of their reads and writes and     *)
(* whoever dies.  A save that fails after the truncation (ipam.py:115) and  *)
(* a read that fails and counts as empty (ipam.py:109) end the promise:    *)
(* either forgets the addresses in use.                                    *)
UniqueAddresses ==
  ~lost => \A p, q \in Procs : p # q => held[p] \cap held[q] = {}

(* ipam.py:10 "Thread/process safety": at most one process is between the  *)
(* creation of ipam.lock and its removal, and the lock exists throughout.  *)
MutualExclusion ==
  \A p \in Procs : pc[p] \in Inside =>
    /\ lock
    /\ \A q \in Procs : pc[q] \in Inside => p = q

(* Whenever nobody holds the lock, ipam.json is readable and lists exactly *)
(* the addresses in use: no update is lost, nothing leaks, also when       *)
(* processes die in the middle of a save.  Excepted, as above, once a save *)
(* or a read has failed.                                                   *)
Bookkeeping == ~lock /\ ~lost => file.whole /\ file.ips = InUse

(* "IPAM pool exhausted" is raised only when every address is in use.      *)
ExhaustedOnlyWhenFull ==
  [][\A p \in Procs : Exhausted(p) /\ ~lost => InUse = Pool]_vars

(* Every call ends, by an answer or by an error, even after the holder of  *)
(* the lock has died: the number of attempts at the lock is bounded.       *)
CallsReturn == \A p \in Procs : pc[p] # "idle" ~> pc[p] = "idle"

(* The callers see nothing but an AddressPool.                             *)
AbstractPool ==
  INSTANCE AddressPool WITH Callers <- Procs, Addresses <- Pool
ImplementsAddressPool == AbstractPool!Spec
==============================================================================
