---------------------------- MODULE InitHandshake -----------------------------
(***************************************************************************)
(* One ContainerManager.start() from the fork on (container/runtime.py),   *)
(* together with the process it forks (container/init.py).  The parent P   *)
(* and the child A have two pipes: on "ready" A tells that it has a user   *)
(* namespace, on "done" P tells that it has written its id maps.  A then   *)
(* forks the child B, PID 1 of the container, and waits for it.  When the  *)
(* container is recorded as running, an exec X may come (container/exec.py) *)
(* and enter the namespaces of the recorded process, which is A.           *)
(*                                                                         *)
(* Operators whose name has a suffix after "_" are faulty variants of the  *)
(* operator that follows them.  Nothing uses them: replacing the operator  *)
(* by its variant shows that a property can fail.                          *)
(***************************************************************************)
EXTENDS Integers

CONSTANTS
  ParentExits, \* TRUE: an exception ends the parent, a command
               \* FALSE: the parent is a program that goes on
  Faults       \* which of "crash" and "raise" may happen to the parent

ASSUME HandshakeAssumption == ParentExits \in BOOLEAN

VARIABLES
  P, A, B,     \* where each process is
  ready, done, \* the pipes: [byte, writers, readers]
  maps,        \* which id maps have been written
  recorded,    \* state.json says RUNNING, with A's pid
  codeA, codeB, \* exit codes, as os.waitstatus_to_exitcode gives them
  spaces,      \* namespaces that A, which lives, has of its own
  X,           \* where the exec is
  held,        \* those of them that X has opened
  entered,     \* those that X, or rather the child it forks, has entered
  refused      \* those that setns() has refused to let it enter

execVars == <<X, held, entered, refused>>
vars == <<P, A, B, ready, done, maps, recorded, codeA, codeB, spaces, execVars>>

Pipe == [byte : BOOLEAN, writers : SUBSET {"P", "A"}, readers : SUBSET {"P", "A"}]

\* A makes its user namespace first, and all others with one call later.  It
\* stays in the PID namespace of the host, and so does whoever follows it.
Namespaces == {"user", "others"}

\* Exit codes: success, failure, death by signal 9.
Codes == {0, 1, -9}

ParentPlaces ==
  {"close", "ready", "maps", "signal", "update", "returned", "raised", "crashed"}
ChildPlaces ==
  {"close", "unshare user", "tell", "listen", "cgroup", "unshare", "fork", "wait",
   "abort ready", "abort done", "exited"}
InitPlaces == {"none", "mounts", "pivot", "volumes", "hostname", "exec", "user", "exited"}
ExecPlaces ==
  {"check", "open 1", "open 2", "fork", "enter 1", "enter 2", "run", "over"}

TypeOK ==
  /\ P \in ParentPlaces /\ A \in ChildPlaces /\ B \in InitPlaces /\ X \in ExecPlaces
  /\ ready \in Pipe /\ done \in Pipe
  /\ maps \in SUBSET {"uid", "gid"}
  /\ recorded \in BOOLEAN
  /\ codeA \in 0 .. 255 /\ codeB \in Codes
  /\ spaces \subseteq Namespaces /\ held \subseteq Namespaces
  /\ entered \subseteq Namespaces /\ refused \subseteq Namespaces

\* After os.fork() both processes have both ends of both pipes.
NewPipe == [byte |-> FALSE, writers |-> {"P", "A"}, readers |-> {"P", "A"}]

Init ==
  /\ P = "close" /\ A = "close" /\ B = "none"
  /\ ready = NewPipe /\ done = NewPipe
  /\ maps = {} /\ recorded = FALSE
  /\ codeA = 0 /\ codeB = 0
  /\ spaces = {} /\ X = "check" /\ held = {} /\ entered = {} /\ refused = {}

------------------------------------------------------------------------------
\* Pipes

CloseReader(pipe, q) == [pipe EXCEPT !.readers = @ \ {q}]
CloseWriter(pipe, q) == [pipe EXCEPT !.writers = @ \ {q}]
CloseAll(pipe, q) == CloseReader(CloseWriter(pipe, q), q)

\* os.read returns: with a byte, or with nothing at end of file.
Readable(pipe) == pipe.byte \/ pipe.writers = {}
\* os.write raises EPIPE otherwise.
Writable(pipe) == pipe.readers # {}

------------------------------------------------------------------------------
\* The parent

ParentClose_KeepsWriter ==
  /\ P = "close"
  /\ P' = "ready"
  /\ done' = CloseReader(done, "P")
  /\ UNCHANGED <<A, B, ready, maps, recorded, codeA, codeB, spaces, execVars>>

ParentClose ==
  /\ P = "close"
  /\ P' = "ready"
  /\ ready' = CloseWriter(ready, "P")
  /\ done' = CloseReader(done, "P")
  /\ UNCHANGED <<A, B, maps, recorded, codeA, codeB, spaces, execVars>>

\* Whether a byte came or the child is gone is not looked at.
ParentReadsReady ==
  /\ P = "ready"
  /\ Readable(ready)
  /\ P' = "maps"
  /\ ready' = CloseReader([ready EXCEPT !.byte = FALSE], "P")
  /\ UNCHANGED <<A, B, done, maps, recorded, codeA, codeB, spaces, execVars>>

\* An exception leaves start(): the pipes stay open unless the process ends.
ParentRaises ==
  /\ P' = "raised"
  /\ IF ParentExits
     THEN ready' = CloseAll(ready, "P") /\ done' = CloseAll(done, "P")
     ELSE UNCHANGED <<ready, done>>

\* Each map may be refused, the uid map first of all.  A map can be written when
\* A has its user namespace and is alive.
MapsWritten == IF A = "listen" THEN {{}, {"uid"}, {"uid", "gid"}} ELSE {{}}

\* newuidmap and newgidmap, then direct writes: refusals are only logged.  What
\* may raise is the fork of the helper programs.
WriteMaps ==
  /\ P = "maps"
  /\ \/ /\ P' = "signal"
        /\ maps' \in MapsWritten
        /\ UNCHANGED <<ready, done>>
     \/ /\ "raise" \in Faults
        /\ ParentRaises
        /\ UNCHANGED maps
  /\ UNCHANGED <<A, B, recorded, codeA, codeB, spaces, execVars>>

ParentSignals_Unchecked ==
  /\ P = "signal"
  /\ P' = "update"
  /\ done' = CloseWriter([done EXCEPT !.byte = TRUE], "P")
  /\ UNCHANGED <<A, B, ready, maps, recorded, codeA, codeB, spaces, execVars>>

ParentSignals ==
  /\ P = "signal"
  /\ \/ /\ Writable(done)
        /\ P' = "update"
        /\ done' = CloseWriter([done EXCEPT !.byte = TRUE], "P")
        /\ UNCHANGED ready
     \/ /\ ~Writable(done)
        /\ ParentRaises
  /\ UNCHANGED <<A, B, maps, recorded, codeA, codeB, spaces, execVars>>

ParentUpdates ==
  /\ P = "update"
  /\ P' = "returned"
  /\ recorded' = TRUE
  /\ UNCHANGED <<A, B, ready, done, maps, codeA, codeB, spaces, execVars>>

ParentCrashes ==
  /\ "crash" \in Faults
  /\ P \notin {"returned", "raised", "crashed"}
  /\ P' = "crashed"
  /\ ready' = CloseAll(ready, "P") /\ done' = CloseAll(done, "P")
  /\ UNCHANGED <<A, B, maps, recorded, codeA, codeB, spaces, execVars>>

------------------------------------------------------------------------------
\* Child A: start() up to container_init(), then container_init()

AGoes(from, to) ==
  /\ A = from
  /\ A' = to
  /\ UNCHANGED <<P, B, ready, done, maps, recorded, codeA, codeB, spaces, execVars>>

ChildClose_KeepsWriter ==
  /\ A = "close"
  /\ A' = "unshare user"
  /\ ready' = CloseReader(ready, "A")
  /\ UNCHANGED <<P, B, done, maps, recorded, codeA, codeB, spaces, execVars>>

ChildClose ==
  /\ A = "close"
  /\ A' = "unshare user"
  /\ ready' = CloseReader(ready, "A")
  /\ done' = CloseWriter(done, "A")
  /\ UNCHANGED <<P, B, maps, recorded, codeA, codeB, spaces, execVars>>

\* A gets namespaces of its own, or unshare() raises.
Unshares(from, to, ns) ==
  /\ A = from
  /\ A' = to
  /\ spaces' = spaces \cup {ns}
  /\ UNCHANGED <<P, B, ready, done, maps, recorded, codeA, codeB, execVars>>

UnshareUser ==
  Unshares("unshare user", "tell", "user") \/ AGoes("unshare user", "abort ready")

Tell ==
  /\ A = "tell"
  /\ \/ /\ Writable(ready)
        /\ A' = "listen"
        /\ ready' = CloseWriter([ready EXCEPT !.byte = TRUE], "A")
     \/ /\ ~Writable(ready)
        /\ A' = "abort ready"
        /\ UNCHANGED ready
  /\ UNCHANGED <<P, B, done, maps, recorded, codeA, codeB, spaces, execVars>>

Listen_NoWait ==
  /\ A = "listen"
  /\ A' = "cgroup"
  /\ done' = CloseReader([done EXCEPT !.byte = FALSE], "A")
  /\ UNCHANGED <<P, B, ready, maps, recorded, codeA, codeB, spaces, execVars>>

\* Here, too, end of file is as good as a byte.
Listen ==
  /\ A = "listen"
  /\ Readable(done)
  /\ A' = "cgroup"
  /\ done' = CloseReader([done EXCEPT !.byte = FALSE], "A")
  /\ UNCHANGED <<P, B, ready, maps, recorded, codeA, codeB, spaces, execVars>>

\* The migration may fail; that is only logged.
Migrate == AGoes("cgroup", "unshare")

Unshare ==
  Unshares("unshare", "fork", "others") \/ AGoes("unshare", "abort ready")

ForkInit ==
  /\ A = "fork"
  /\ \/ A' = "wait" /\ B' = "mounts"
     \/ A' = "abort ready" /\ UNCHANGED B
  /\ UNCHANGED <<P, ready, done, maps, recorded, codeA, codeB, spaces, execVars>>

\* The exception handler closes one pipe, then the other, and exits.
AbortReady ==
  /\ A = "abort ready"
  /\ A' = "abort done"
  /\ ready' = CloseAll(ready, "A")
  /\ UNCHANGED <<P, B, done, maps, recorded, codeA, codeB, spaces, execVars>>

AExits_Untruncated(code) ==
  /\ A' = "exited"
  /\ codeA' = code
  /\ done' = CloseAll(done, "A") /\ ready' = CloseAll(ready, "A")
  /\ spaces' = {}
  /\ UNCHANGED <<P, B, maps, recorded, codeB, execVars>>

\* os._exit keeps eight bits.
AExits(code) ==
  /\ A' = "exited"
  /\ codeA' = code % 256
  /\ done' = CloseAll(done, "A") /\ ready' = CloseAll(ready, "A")
  /\ spaces' = {}
  /\ UNCHANGED <<P, B, maps, recorded, codeB, execVars>>

AbortDone == A = "abort done" /\ AExits(1)

WaitInit_IgnoresStatus == A = "wait" /\ B = "exited" /\ AExits(0)

\* A exits with the code of B.
WaitInit == A = "wait" /\ B = "exited" /\ AExits(codeB)

------------------------------------------------------------------------------
\* Child B: each step of the set-up may fail

BGoes(from, to) ==
  /\ B = from
  /\ \/ B' = to /\ UNCHANGED codeB
     \/ B' = "exited" /\ codeB' = 1
  /\ UNCHANGED <<P, A, ready, done, maps, recorded, codeA, spaces, execVars>>

Mounts == BGoes("mounts", "pivot")
Pivot == BGoes("pivot", "volumes")
BindVolumes == BGoes("volumes", "hostname")
SetHostname == BGoes("hostname", "exec")
Exec == BGoes("exec", "user")

\* The user's command exits or is killed.
UserExits ==
  /\ B = "user"
  /\ B' = "exited"
  /\ codeB' \in Codes
  /\ UNCHANGED <<P, A, ready, done, maps, recorded, codeA, spaces, execVars>>

------------------------------------------------------------------------------
\* exec, by another process

NsTypes_OthersFirst == <<"others", "user">>

\* The order of _NS_TYPES.
NsTypes == <<"user", "others">>

XGoes(from, to) ==
  /\ X = from
  /\ X' = to
  /\ UNCHANGED <<P, A, B, ready, done, maps, recorded, codeA, codeB, spaces>>

\* Without a running container on record it raises.
ExecChecks ==
  /\ recorded
  /\ XGoes("check", "open 1")
  /\ UNCHANGED <<held, entered, refused>>

\* What cannot be opened is left out, and so is what A has not made yet: the
\* namespaces it has then are those of X.
ExecOpens(n, from, to) ==
  /\ XGoes(from, to)
  /\ held' = held \cup ({NsTypes[n]} \cap spaces)
  /\ UNCHANGED <<entered, refused>>

ExecForks == XGoes("fork", "enter 1") /\ UNCHANGED <<held, entered, refused>>

\* setns(2) for each namespace that was opened, in that order.  The kernel may
\* refuse; that is only logged, and the loop goes on to the next one.
ExecEnters(n, from, to) ==
  /\ XGoes(from, to)
  /\ \/ NsTypes[n] \in held /\ entered' = entered \cup {NsTypes[n]} /\ UNCHANGED refused
     \/ NsTypes[n] \in held /\ refused' = refused \cup {NsTypes[n]} /\ UNCHANGED entered
     \/ NsTypes[n] \notin held /\ UNCHANGED <<entered, refused>>
  /\ UNCHANGED held

\* The command runs and is over; or openpty() or fork() failed.
ExecReturns ==
  (XGoes("run", "over") \/ XGoes("fork", "over")) /\ UNCHANGED <<held, entered, refused>>

------------------------------------------------------------------------------
ParentStep ==
  ParentClose \/ ParentReadsReady \/ WriteMaps \/ ParentSignals \/ ParentUpdates

ChildStep ==
  \/ ChildClose \/ UnshareUser \/ Tell \/ Listen \/ Migrate \/ Unshare \/ ForkInit
  \/ AbortReady \/ AbortDone \/ WaitInit

InitStep == Mounts \/ Pivot \/ BindVolumes \/ SetHostname \/ Exec

ExecStep ==
  \/ ExecChecks \/ ExecOpens(1, "open 1", "open 2") \/ ExecOpens(2, "open 2", "fork")
  \/ ExecForks \/ ExecEnters(1, "enter 1", "enter 2") \/ ExecEnters(2, "enter 2", "run")
  \/ ExecReturns

Next ==
  ParentStep \/ ParentCrashes \/ ChildStep \/ InitStep \/ UserExits \/ ExecStep

Spec == Init /\ [][Next]_vars

\* The scheduler runs whoever can run.  A user's command need not end.
FairSpec == Spec /\ WF_vars(ParentStep) /\ WF_vars(ChildStep) /\ WF_vars(InitStep)

------------------------------------------------------------------------------
\* Properties

Waiting == {"close", "unshare user", "tell", "listen"}
Phase2 == {"cgroup", "unshare", "fork", "wait"}

\* The parent is gone, and the kernel has closed its ends of the pipes.
ParentGone == P = "crashed" \/ (P = "raised" /\ ParentExits)

\* container_init(): "Wait for parent to confirm maps are written".  Phase 2
\* begins only after the parent has done what it can about the maps, or when
\* there is no parent any more: end of file counts as the confirmation.
MapsBeforePhase2 == A \in Phase2 => P \in {"update", "returned"} \/ ParentGone

\* init.py: a step that fails gives a non-zero exit code, through both levels
\* of forks; only a user's command that succeeded gives zero.
ExitCodePropagates == A = "exited" => (codeA = 0 <=> B = "exited" /\ codeB = 0)

\* A container process is recorded only with a parent that has released it, and
\* never before it has told of its namespace or given up.
RecordedAfterHandshake == recorded => A \notin Waiting \ {"listen"}

\* Each of the two waits for the other where start() and container_init() say that
\* it does: the child before phase 2, the parent before it records anything.
HandshakeInOrder == MapsBeforePhase2 /\ RecordedAfterHandshake

\* exec.py:41: "user MUST come first".  The command of an exec runs outside the
\* user namespace of its container only when A has died, its set-up has failed, or
\* setns() has refused to enter it, which exec_in_container() only logs (line 182).
\* And it is in the others only after it has had its turn at the user namespace,
\* which gives the rights for them: they are never opened without it, and entered
\* without it only when it was refused.
ExecEntersUserFirst ==
  /\ "others" \in held => "user" \in held
  /\ "others" \in entered => "user" \in entered \cup refused
  /\ X = "run" => \/ "user" \in entered \cup refused
                  \/ A \in {"abort ready", "abort done", "exited"}

\* start(): "ContainerError: If fork fails or init setup fails".
SetupFailed == A \in {"abort ready", "abort done"} \/ (A = "exited" /\ B = "none")
StartReportsFailure == [][P = "update" /\ SetupFailed => P' # "returned"]_vars

\* What the two processes show to the rest: from the signal on the parent has let
\* its child go, and so does its end.
Launch == INSTANCE ContainerLaunch WITH
  starter <- IF ParentGone THEN "gone"
             ELSE IF P \in {"update", "returned"} THEN "released" ELSE "starting",
  outer <- IF A = "exited" THEN "dead" ELSE "alive",
  inner <- CASE B = "none"   -> "none"
             [] B = "exited" -> "dead"
             [] OTHER        -> "alive"

\* The handshake over the pipes comes to what ContainerLifecycle takes it for:
\* start() raises BrokenPipeError, and records nothing, when the child is dead
\* before it is released (runtime.py:234); nothing of the container is forked
\* before that (init.py:117); and A outlives B, whose exit it waits for
\* (init.py:138), however the steps of the three interleave, fail or are cut off.
LaunchAsPromised == Launch!Spec

\* Nobody waits for somebody who waits for him, or is gone: a parent that blocks
\* at its read has a child that will tell or give up, and a child that blocks has
\* a parent on its way to the signal - or one that has raised before it and goes on
\* with the pipe open, which nothing closes then (runtime.py:231).
EachWaitEnds ==
  /\ P = "ready" /\ ~Readable(ready) => A \in (Waiting \ {"listen"}) \cup {"abort ready"}
  /\ A = "listen" /\ ~Readable(done) =>
       \/ P \in {"close", "ready"} /\ Readable(ready)
       \/ P \in {"maps", "signal"}
       \/ P = "raised" /\ ~ParentExits
  /\ A = "wait" => B # "none"

\* The handshake never hangs, whatever fails: each side closes the ends it does
\* not use, so that the death of one is the end of file of the other.
HandshakeEnds ==
  /\ <>(P \in {"returned", "raised", "crashed"})
  /\ <>(A \in {"wait", "exited"})

==============================================================================
