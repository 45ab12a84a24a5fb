-------------------------- MODULE InitHandshakeProofs --------------------------
(***************************************************************************)
(* Theorems about InitHandshake.                                           *)
(***************************************************************************)
EXTENDS InitHandshake, TLAPS

\* The steps of A that touch no pipe.
LEMMA ChildActions ==
  ASSUME NEW from, NEW to \in {"tell", "abort ready", "unshare", "fork"},
         NEW ns \in Namespaces, TypeOK
  PROVE  /\ AGoes(from, to) => TypeOK'
         /\ Unshares(from, to, ns) => TypeOK'
<1>1. to \in ChildPlaces
  BY DEF ChildPlaces
<1>2. ASSUME AGoes(from, to)
      PROVE  TypeOK'
  BY <1>1, <1>2 DEF AGoes, execVars, TypeOK
<1>3. ASSUME Unshares(from, to, ns)
      PROVE  TypeOK'
  <2>1. spaces' \subseteq Namespaces
    BY <1>3 DEF Unshares, TypeOK
  <2> QED BY <1>1, <1>3, <2>1 DEF Unshares, execVars, TypeOK
<1> QED BY <1>2, <1>3

LEMMA PipeOps ==
  ASSUME NEW pipe \in Pipe, NEW q, NEW b \in BOOLEAN
  PROVE  /\ CloseReader(pipe, q) \in Pipe /\ CloseWriter(pipe, q) \in Pipe
         /\ CloseAll(pipe, q) \in Pipe
         /\ [pipe EXCEPT !.byte = b] \in Pipe
         /\ CloseReader([pipe EXCEPT !.byte = b], q) \in Pipe
         /\ CloseWriter([pipe EXCEPT !.byte = b], q) \in Pipe
BY DEF Pipe, CloseReader, CloseWriter, CloseAll

LEMMA CodesFit == \A c \in Codes : c % 256 \in 0 .. 255 /\ (c % 256 = 0 <=> c = 0)
BY DEF Codes

\* The exec touches nothing of the container.
LEMMA ExecLeaves ==
  ASSUME TypeOK, ExecStep
  PROVE  /\ UNCHANGED <<P, A, B, ready, done, maps, recorded, codeA, codeB, spaces>>
         /\ X' \in {"open 1", "open 2", "fork", "enter 1", "enter 2", "run", "over"}
         /\ held' \subseteq Namespaces
         /\ entered' \subseteq Namespaces /\ refused' \subseteq Namespaces
<1>1. NsTypes[1] \in Namespaces /\ NsTypes[2] \in Namespaces
  BY DEF NsTypes, Namespaces
<1>2. CASE ExecChecks \/ ExecForks \/ ExecReturns
  BY <1>2 DEF ExecChecks, ExecForks, ExecReturns, XGoes, TypeOK
<1>3. CASE ExecOpens(1, "open 1", "open 2") \/ ExecOpens(2, "open 2", "fork")
  BY <1>1, <1>3 DEF ExecOpens, XGoes, TypeOK
<1>4. CASE ExecEnters(1, "enter 1", "enter 2") \/ ExecEnters(2, "enter 2", "run")
  BY <1>1, <1>4 DEF ExecEnters, XGoes, TypeOK
<1> QED BY <1>2, <1>3, <1>4 DEF ExecStep

LEMMA TypeStep == TypeOK /\ [Next]_vars => TypeOK'
<1> SUFFICES ASSUME TypeOK, [Next]_vars PROVE TypeOK'
  OBVIOUS
<1>0. ready \in Pipe /\ done \in Pipe /\ codeB \in Codes
  BY DEF TypeOK
<1>1. CASE ParentStep
  <2>1. CASE ParentClose
    BY <1>0, <2>1, PipeOps DEF ParentClose, execVars, TypeOK, ParentPlaces
  <2>2. CASE ParentReadsReady
    BY <1>0, <2>2, PipeOps DEF ParentReadsReady, execVars, TypeOK, ParentPlaces
  <2>3. CASE WriteMaps
    BY <1>0, <2>3, PipeOps DEF WriteMaps, MapsWritten, ParentRaises, execVars, TypeOK, ParentPlaces
  <2>4. CASE ParentSignals
    BY <1>0, <2>4, PipeOps DEF ParentSignals, ParentRaises, execVars, TypeOK, ParentPlaces
  <2>5. CASE ParentUpdates
    BY <2>5 DEF ParentUpdates, execVars, TypeOK, ParentPlaces
  <2> QED BY <1>1, <2>1, <2>2, <2>3, <2>4, <2>5 DEF ParentStep
<1>2. CASE ParentCrashes
  BY <1>0, <1>2, PipeOps DEF ParentCrashes, execVars, TypeOK, ParentPlaces
<1>3. CASE ChildStep
  <2>1. CASE ChildClose
    BY <1>0, <2>1, PipeOps DEF ChildClose, execVars, TypeOK, ChildPlaces
  <2>2. CASE UnshareUser \/ Migrate \/ Unshare
    BY <2>2, ChildActions DEF UnshareUser, Migrate, Unshare, Namespaces
  <2>3. CASE Tell
    BY <1>0, <2>3, PipeOps DEF Tell, execVars, TypeOK, ChildPlaces
  <2>4. CASE Listen
    BY <1>0, <2>4, PipeOps DEF Listen, execVars, TypeOK, ChildPlaces
  <2>5. CASE ForkInit
    BY <2>5 DEF ForkInit, execVars, TypeOK, ChildPlaces, InitPlaces
  <2>6. CASE AbortReady
    BY <1>0, <2>6, PipeOps DEF AbortReady, execVars, TypeOK, ChildPlaces
  <2>7. ASSUME NEW c \in Codes, AExits(c)
        PROVE  TypeOK'
    <3>1. c % 256 \in 0 .. 255
      BY CodesFit
    <3> QED BY <1>0, <2>7, <3>1, PipeOps DEF AExits, execVars, TypeOK, ChildPlaces
  <2>8. CASE AbortDone
    BY <2>7, <2>8 DEF AbortDone, Codes
  <2>9. CASE WaitInit
    BY <1>0, <2>7, <2>9 DEF WaitInit
  <2> QED BY <1>3, <2>1, <2>2, <2>3, <2>4, <2>5, <2>6, <2>8, <2>9 DEF ChildStep
<1>4. CASE InitStep
  <2>1. /\ B' \in {"pivot", "volumes", "hostname", "exec", "user", "exited"}
        /\ codeB' \in {codeB, 1}
        /\ UNCHANGED <<P, A, ready, done, maps, recorded, codeA, spaces, X, held, entered, refused>>
    BY <1>4 DEF InitStep, Mounts, Pivot, BindVolumes, SetHostname, Exec, BGoes, execVars
  <2>2. codeB' \in Codes
    BY <1>0, <2>1 DEF Codes
  <2> QED BY <2>1, <2>2 DEF TypeOK, InitPlaces
<1>5. CASE UserExits
  BY <1>5 DEF UserExits, execVars, TypeOK, InitPlaces
<1>6. CASE ExecStep
  BY <1>6, ExecLeaves DEF TypeOK, ExecPlaces
<1>7. CASE UNCHANGED vars
  BY <1>7 DEF vars, execVars, TypeOK
<1> QED BY <1>1, <1>2, <1>3, <1>4, <1>5, <1>6, <1>7 DEF Next

LEMMA InitType == Init => TypeOK
<1>1. NewPipe \in Pipe
  BY DEF NewPipe, Pipe
<1>2. {} \in SUBSET {"uid", "gid"} /\ 0 \in 0 .. 255 /\ 0 \in Codes
  BY DEF Codes
<1> QED BY <1>1, <1>2 DEF Init, TypeOK, ParentPlaces, ChildPlaces, InitPlaces, ExecPlaces

\* Every variable keeps its type: in particular an exit code fits eight bits.
THEOREM TypeCorrect == Spec => []TypeOK
BY InitType, TypeStep, PTL DEF Spec

------------------------------------------------------------------------------
\* ExitCodePropagates.  Inductive with it: B exists only while A waits for it,
\* and from then on.

ExitInv ==
  /\ ExitCodePropagates
  /\ A = "exited" => B \in {"none", "exited"}
  /\ A \notin {"wait", "exited"} => B = "none"
  /\ A = "wait" => B # "none"

LEMMA ExitStep == TypeOK /\ ExitInv /\ [Next]_vars => ExitInv'
<1> SUFFICES ASSUME TypeOK, ExitInv, [Next]_vars PROVE ExitInv'
  OBVIOUS
<1>1. CASE ParentStep \/ ParentCrashes
  BY <1>1 DEF ParentStep, ParentClose, ParentReadsReady, WriteMaps, ParentSignals, ParentUpdates,
              ParentCrashes, ExitInv, ExitCodePropagates
<1>2. CASE ChildStep
  <2>1. CASE ChildClose \/ UnshareUser \/ Tell \/ Listen \/ Migrate \/ Unshare \/ ForkInit \/ AbortReady
    BY <2>1 DEF ChildClose, UnshareUser, Tell, Listen, Migrate, Unshare, ForkInit, AbortReady,
                AGoes, Unshares, ExitInv, ExitCodePropagates
  <2>2. CASE AbortDone
    <3>0. 1 % 256 = 1
      OBVIOUS
    <3>1. A' = "exited" /\ codeA' = 1 /\ B' = B /\ B = "none"
      BY <2>2, <3>0 DEF AbortDone, AExits, ExitInv
    <3> QED BY <3>1 DEF ExitInv, ExitCodePropagates
  <2>3. CASE WaitInit
    <3>1. A' = "exited" /\ codeA' = codeB % 256 /\ B' = B /\ B = "exited" /\ codeB' = codeB
      BY <2>3 DEF WaitInit, AExits
    <3>2. codeA' = 0 <=> codeB = 0
      BY <3>1, CodesFit DEF TypeOK
    <3> QED BY <3>1, <3>2 DEF ExitInv, ExitCodePropagates
  <2> QED BY <1>2, <2>1, <2>2, <2>3 DEF ChildStep
<1>3. CASE InitStep \/ UserExits
  <2>1. A' = A /\ codeA' = codeA /\ B \notin {"none", "exited"} /\ B' # "none"
    BY <1>3 DEF InitStep, Mounts, Pivot, BindVolumes, SetHostname, Exec, BGoes, UserExits
  <2>2. A = "wait"
    BY <2>1 DEF ExitInv
  <2> QED BY <2>1, <2>2 DEF ExitInv, ExitCodePropagates
<1>4. CASE ExecStep \/ UNCHANGED vars
  BY <1>4, ExecLeaves DEF vars, ExitInv, ExitCodePropagates
<1> QED BY <1>1, <1>2, <1>3, <1>4 DEF Next

\* A failed step of the set-up, or of the command, is never reported as a success.
THEOREM ExitCodesPropagate == Spec => []ExitCodePropagates
<1>1. Init => ExitInv
  BY DEF Init, ExitInv, ExitCodePropagates
<1>2. ExitInv => ExitCodePropagates
  BY DEF ExitInv
<1> QED BY InitType, TypeStep, <1>1, <1>2, ExitStep, PTL DEF Spec

------------------------------------------------------------------------------
\* MapsBeforePhase2.  Inductive with it: A can hear its parent as long as it
\* waits, and a parent that is there and has not signalled holds its end of the
\* pipe, which is empty.

OrderInv ==
  /\ MapsBeforePhase2
  /\ A \in Waiting => "A" \in done.readers
  /\ P \in {"close", "ready", "maps", "signal", "raised"} => ~done.byte
  /\ P \in {"update", "returned"} \/ ParentGone \/ "P" \in done.writers

LEMMA OrderStep == TypeOK /\ OrderInv /\ [Next]_vars => OrderInv'
<1> SUFFICES ASSUME TypeOK, OrderInv, [Next]_vars PROVE OrderInv'
  OBVIOUS
<1>0. done \in Pipe
  BY DEF TypeOK
<1> USE DEF OrderInv, MapsBeforePhase2, ParentGone, Phase2, Waiting
<1>1. CASE ParentStep
  <2>1. CASE ParentClose
    BY <1>0, <2>1 DEF ParentClose, CloseReader, Pipe
  <2>2. CASE ParentReadsReady
    BY <2>2 DEF ParentReadsReady
  <2>3. CASE WriteMaps /\ P' = "signal"
    BY <2>3 DEF WriteMaps, ParentRaises
  <2>4. CASE ParentSignals /\ P' = "update"
    BY <1>0, <2>4 DEF ParentSignals, ParentRaises, CloseWriter, Pipe
  <2>5. CASE (WriteMaps \/ ParentSignals) /\ ParentRaises
    <3>1. /\ A' = A /\ A \notin Phase2
          /\ ~done.byte /\ P' = "raised"
      BY <2>5 DEF WriteMaps, ParentSignals, ParentRaises
    <3>2. ~done'.byte /\ ("A" \in done.readers => "A" \in done'.readers)
      BY <1>0, <2>5, <3>1 DEF ParentRaises, CloseAll, CloseReader, CloseWriter, Pipe
    <3>3. ParentExits \/ "P" \in done'.writers
      BY <2>5 DEF ParentRaises, WriteMaps, ParentSignals
    <3> QED BY <3>1, <3>2, <3>3
  <2>6. CASE ParentUpdates
    BY <2>6 DEF ParentUpdates
  <2> QED BY <1>1, <2>1, <2>2, <2>3, <2>4, <2>5, <2>6 DEF ParentStep, WriteMaps, ParentSignals
<1>2. CASE ParentCrashes
  <2>1. A' = A /\ P' = "crashed" /\ done' = CloseAll(done, "P")
    BY <1>2 DEF ParentCrashes
  <2>2. done'.byte = done.byte /\ ("A" \in done.readers => "A" \in done'.readers)
    BY <1>0, <2>1 DEF CloseAll, CloseReader, CloseWriter, Pipe
  <2> QED BY <1>2, <2>1, <2>2 DEF ParentCrashes
<1>3. CASE ChildStep
  <2>1. P' = P
    BY <1>3 DEF ChildStep, ChildClose, UnshareUser, Tell, Listen, Migrate, Unshare, ForkInit,
                AbortReady, AbortDone, WaitInit, AGoes, Unshares, AExits
  <2>2. CASE ChildClose
    BY <1>0, <2>1, <2>2 DEF ChildClose, CloseWriter, Pipe
  <2>3. CASE UnshareUser \/ Tell
    BY <2>1, <2>3 DEF UnshareUser, Tell, AGoes, Unshares
  <2>4. CASE Listen
    <3>1. P \in {"update", "returned"} \/ ParentGone
      BY <2>4 DEF Listen, Readable, TypeOK, ParentPlaces
    <3>2. done' = CloseReader([done EXCEPT !.byte = FALSE], "A") /\ A' = "cgroup"
      BY <2>4 DEF Listen
    <3>3. ~done'.byte
      BY <1>0, <3>2 DEF CloseReader, Pipe
    <3> QED BY <2>1, <3>1, <3>2, <3>3
  <2>5. CASE Migrate \/ Unshare \/ ForkInit
    BY <2>1, <2>5 DEF Migrate, Unshare, ForkInit, AGoes, Unshares
  <2>6. CASE AbortReady
    BY <2>1, <2>6 DEF AbortReady
  <2>7. CASE AbortDone \/ WaitInit
    <3>1. A' = "exited" /\ done' = CloseAll(done, "A")
      BY <2>7 DEF AbortDone, WaitInit, AExits
    <3>2. done'.byte = done.byte /\ ("P" \in done.writers => "P" \in done'.writers)
      BY <1>0, <3>1 DEF CloseAll, CloseReader, CloseWriter, Pipe
    <3> QED BY <2>1, <3>1, <3>2
  <2> QED BY <1>3, <2>2, <2>3, <2>4, <2>5, <2>6, <2>7 DEF ChildStep
<1>4. CASE InitStep \/ UserExits \/ ExecStep \/ UNCHANGED vars
  <2>1. UNCHANGED <<P, A, done>>
    BY <1>4, ExecLeaves DEF InitStep, Mounts, Pivot, BindVolumes, SetHostname, Exec, BGoes,
                            UserExits, vars
  <2> QED BY <2>1
<1> QED BY <1>1, <1>2, <1>3, <1>4 DEF Next

\* Child A begins phase 2 only after its parent has seen to the id maps, or died.
THEOREM MapsComeFirst == Spec => []MapsBeforePhase2
<1>1. Init => OrderInv
  BY DEF Init, NewPipe, OrderInv, MapsBeforePhase2, ParentGone, Phase2
<1>2. OrderInv => MapsBeforePhase2
  BY DEF OrderInv
<1>3. TypeOK /\ OrderInv /\ [Next]_vars => TypeOK' /\ OrderInv'
  BY TypeStep, OrderStep
<1> QED BY InitType, <1>1, <1>2, <1>3, PTL DEF Spec

------------------------------------------------------------------------------
\* RecordedAfterHandshake.  Inductive with it: until A has told its parent, A
\* holds its end of a pipe that is empty, and so no parent gets past its read.

Untold == {"close", "unshare user", "tell"}

RecordInv ==
  /\ A \in Untold => "A" \in ready.writers /\ ~ready.byte
  /\ P \in {"maps", "signal", "update", "returned"} => A \notin Untold
  /\ recorded => P = "returned"

LEMMA RecordStep == TypeOK /\ RecordInv /\ [Next]_vars => RecordInv'
<1> SUFFICES ASSUME TypeOK, RecordInv, [Next]_vars PROVE RecordInv'
  OBVIOUS
<1>0. ready \in Pipe
  BY DEF TypeOK
<1> USE DEF RecordInv, Untold
<1>1. CASE ParentStep \/ ParentCrashes
  <2>0. A' = A
    BY <1>1 DEF ParentStep, ParentClose, ParentReadsReady, WriteMaps, ParentSignals,
                ParentUpdates, ParentCrashes
  <2>1. CASE ParentClose
    BY <1>0, <2>0, <2>1 DEF ParentClose, CloseWriter, Pipe
  <2>2. CASE ParentReadsReady
    <3>1. A \notin Untold
      BY <2>2 DEF ParentReadsReady, Readable
    <3> QED BY <2>0, <2>2, <3>1 DEF ParentReadsReady
  <2>3. CASE WriteMaps \/ ParentSignals
    <3>1. A \notin Untold /\ ~recorded /\ recorded' = recorded
      BY <2>3 DEF WriteMaps, ParentSignals
    <3> QED BY <2>0, <3>1
  <2>4. CASE ParentUpdates
    BY <2>0, <2>4 DEF ParentUpdates
  <2>5. CASE ParentCrashes
    <3>1. ready'.byte = ready.byte /\ ("A" \in ready.writers => "A" \in ready'.writers)
      BY <1>0, <2>5 DEF ParentCrashes, CloseAll, CloseReader, CloseWriter, Pipe
    <3> QED BY <2>0, <2>5, <3>1 DEF ParentCrashes
  <2> QED BY <1>1, <2>1, <2>2, <2>3, <2>4, <2>5 DEF ParentStep
<1>2. CASE ChildStep
  <2>1. P' = P /\ recorded' = recorded
    BY <1>2 DEF ChildStep, ChildClose, UnshareUser, Tell, Listen, Migrate, Unshare, ForkInit,
                AbortReady, AbortDone, WaitInit, AGoes, Unshares, AExits
  <2>2. CASE ChildClose
    <3>1. A = "close" /\ A' = "unshare user" /\ ready' = CloseReader(ready, "A")
      BY <2>2 DEF ChildClose
    <3>2. ready'.byte = ready.byte /\ ready'.writers = ready.writers
      BY <1>0, <3>1 DEF CloseReader, Pipe
    <3> QED BY <2>1, <3>1, <3>2
  <2>3. CASE UnshareUser
    BY <2>1, <2>3 DEF UnshareUser, AGoes, Unshares
  <2>4. A' \notin Untold \/ ChildClose \/ UnshareUser
    BY <1>2 DEF ChildStep, Tell, Listen, Migrate, Unshare, ForkInit, AbortReady, AbortDone,
                WaitInit, AGoes, Unshares, AExits
  <2> QED BY <2>1, <2>2, <2>3, <2>4
<1>3. CASE InitStep \/ UserExits \/ ExecStep \/ UNCHANGED vars
  <2>1. UNCHANGED <<P, A, ready, recorded>>
    BY <1>3, ExecLeaves DEF InitStep, Mounts, Pivot, BindVolumes, SetHostname, Exec, BGoes,
                            UserExits, vars
  <2> QED BY <2>1
<1> QED BY <1>1, <1>2, <1>3 DEF Next

LEMMA InitRecord == Init => RecordInv
BY DEF Init, NewPipe, RecordInv, Untold

\* A container is on record as running only after its first process has told its
\* parent of its user namespace, or has given up.
THEOREM RecordComesAfter == Spec => []RecordedAfterHandshake
<1>1. RecordInv => RecordedAfterHandshake
  BY DEF RecordInv, RecordedAfterHandshake, Untold, Waiting
<1> QED BY InitType, TypeStep, InitRecord, RecordStep, <1>1, PTL DEF Spec

\* Each of the two waits for the other: phase 2 comes after the id maps, and the
\* record after the child has told, or given up.
THEOREM HandshakeOrdered == Spec => []HandshakeInOrder
<1>1. MapsBeforePhase2 /\ RecordedAfterHandshake => HandshakeInOrder
  BY DEF HandshakeInOrder
<1> QED BY MapsComeFirst, RecordComesAfter, <1>1, PTL

------------------------------------------------------------------------------
\* ExecEntersUserFirst.  Inductive with it: A has its user namespace from the
\* moment it is made until A dies, and nobody gets the others before; an exec
\* that did not find the first one cannot find the others either, and of what it
\* has opened it has entered or been refused what it has had its turn at.

Failed == {"abort ready", "abort done", "exited"}

ExecInv ==
  /\ ExecEntersUserFirst
  /\ A \in {"tell", "listen"} \cup Phase2 => "user" \in spaces
  /\ "others" \in spaces => "user" \in spaces
  /\ X # "check" => recorded
  /\ X = "open 2" /\ "user" \notin held => "others" \notin spaces
  /\ X \notin {"check", "open 1"} => "user" \in held \/ A \in Failed
  /\ X \in {"enter 2", "run"} /\ "user" \in held => "user" \in entered \cup refused
  /\ X \in {"check", "open 1", "open 2", "fork", "enter 1"} => entered = {}

LEMMA ExecInvStep == TypeOK /\ RecordInv /\ ExecInv /\ [Next]_vars => ExecInv'
<1> SUFFICES ASSUME TypeOK, RecordInv, ExecInv, [Next]_vars PROVE ExecInv'
  OBVIOUS
<1> USE DEF ExecInv, ExecEntersUserFirst, Phase2, Failed
<1>1. CASE ParentStep \/ ParentCrashes
  <2>1. UNCHANGED <<A, spaces, X, held, entered, refused>> /\ (recorded => recorded')
    BY <1>1 DEF ParentStep, ParentClose, ParentReadsReady, WriteMaps, ParentSignals,
                ParentUpdates, ParentCrashes, execVars
  <2> QED BY <2>1
<1>2. CASE ChildStep
  <2>1. UNCHANGED <<X, held, entered, refused, recorded>>
    BY <1>2 DEF ChildStep, ChildClose, UnshareUser, Tell, Listen, Migrate, Unshare, ForkInit,
                AbortReady, AbortDone, WaitInit, AGoes, Unshares, AExits, execVars
  <2>2. CASE ChildClose \/ Tell \/ Listen \/ Migrate \/ ForkInit \/ AbortReady
    <3>1. spaces' = spaces
      BY <2>2 DEF ChildClose, Tell, Listen, Migrate, ForkInit, AbortReady, AGoes
    <3>2. /\ A' \in {"tell", "listen"} \cup Phase2 => A \in {"tell", "listen"} \cup Phase2
          /\ A \in Failed => A' \in Failed
      BY <2>2 DEF ChildClose, Tell, Listen, Migrate, ForkInit, AbortReady, AGoes
    <3> QED BY <2>1, <3>1, <3>2
  <2>3. CASE UnshareUser
    <3>1. /\ A = "unshare user" /\ A' \in {"tell", "abort ready"}
          /\ A' = "tell" => spaces' = spaces \cup {"user"}
          /\ A' = "abort ready" => spaces' = spaces
      BY <2>3 DEF UnshareUser, AGoes, Unshares
    <3>2. X = "check"
      BY <3>1 DEF RecordInv, Untold
    <3> QED BY <2>1, <3>1, <3>2
  <2>4. CASE Unshare
    <3>1. /\ A = "unshare" /\ A' \in {"fork", "abort ready"} /\ "user" \in spaces
          /\ spaces' \in {spaces, spaces \cup {"others"}}
      BY <2>4 DEF Unshare, AGoes, Unshares
    <3> QED BY <2>1, <3>1
  <2>5. CASE AbortDone \/ WaitInit
    <3>1. A' = "exited" /\ spaces' = {}
      BY <2>5 DEF AbortDone, WaitInit, AExits
    <3> QED BY <2>1, <3>1
  <2> QED BY <1>2, <2>2, <2>3, <2>4, <2>5 DEF ChildStep
<1>3. CASE ExecStep
  <2>0. UNCHANGED <<A, spaces, recorded>>
    BY <1>3, ExecLeaves
  <2>1. CASE ExecChecks
    <3>1. /\ X = "check" /\ X' = "open 1" /\ recorded
          /\ UNCHANGED <<held, entered, refused>>
      BY <2>1 DEF ExecChecks, XGoes
    <3> QED BY <2>0, <3>1
  <2>2. CASE ExecOpens(1, "open 1", "open 2")
    <3>1. /\ X = "open 1" /\ X' = "open 2" /\ held' = held \cup ({"user"} \cap spaces)
          /\ UNCHANGED <<entered, refused>>
      BY <2>2 DEF ExecOpens, XGoes, NsTypes
    <3>2. "user" \in held' \/ "user" \notin spaces
      BY <3>1
    <3>3. A \notin Untold
      BY <3>1 DEF RecordInv
    <3>4. A \in {"tell", "listen"} \cup Phase2 \cup Failed
      BY <3>3 DEF TypeOK, ChildPlaces, Untold
    <3> QED BY <2>0, <3>1, <3>2, <3>4
  <2>3. CASE ExecOpens(2, "open 2", "fork")
    <3>1. /\ X = "open 2" /\ X' = "fork" /\ held' = held \cup ({"others"} \cap spaces)
          /\ UNCHANGED <<entered, refused>>
      BY <2>3 DEF ExecOpens, XGoes, NsTypes
    <3> QED BY <2>0, <3>1
  <2>4. CASE ExecForks \/ ExecReturns
    <3>1. /\ UNCHANGED <<held, entered, refused>>
          /\ \/ X = "fork" /\ X' \in {"enter 1", "over"}
             \/ X = "run" /\ X' = "over"
      BY <2>4 DEF ExecForks, ExecReturns, XGoes
    <3> QED BY <2>0, <3>1
  <2>5. CASE ExecEnters(1, "enter 1", "enter 2")
    <3>1. /\ X = "enter 1" /\ X' = "enter 2" /\ held' = held
          /\ entered' \subseteq entered \cup {"user"}
          /\ "user" \in held => "user" \in entered' \cup refused'
      BY <2>5 DEF ExecEnters, XGoes, NsTypes
    <3> QED BY <2>0, <3>1
  <2>6. CASE ExecEnters(2, "enter 2", "run")
    <3>1. /\ X = "enter 2" /\ X' = "run" /\ held' = held
          /\ entered \cup refused \subseteq entered' \cup refused'
          /\ entered' = entered \/ (entered' = entered \cup {"others"} /\ "others" \in held)
      BY <2>6 DEF ExecEnters, XGoes, NsTypes
    <3>2. "others" \in entered' => "user" \in entered \cup refused
      BY <3>1
    <3> QED BY <2>0, <3>1, <3>2
  <2> QED BY <1>3, <2>1, <2>2, <2>3, <2>4, <2>5, <2>6 DEF ExecStep
<1>4. CASE InitStep \/ UserExits \/ UNCHANGED vars
  <2>1. UNCHANGED <<A, spaces, X, held, entered, refused, recorded>>
    BY <1>4 DEF InitStep, Mounts, Pivot, BindVolumes, SetHostname, Exec, BGoes, UserExits,
                vars, execVars
  <2> QED BY <2>1
<1> QED BY <1>1, <1>2, <1>3, <1>4 DEF Next

\* The command of an exec is in the user namespace of its container unless the
\* container was failing or gone, or setns() refused it; and it enters the other
\* namespaces only after its turn at that one.
THEOREM ExecUserFirst == Spec => []ExecEntersUserFirst
<1>1. Init => ExecInv
  BY DEF Init, ExecInv, ExecEntersUserFirst, Phase2, Failed
<1>2. ExecInv => ExecEntersUserFirst
  BY DEF ExecInv
<1> QED BY InitType, TypeStep, InitRecord, RecordStep, <1>1, <1>2, ExecInvStep, PTL DEF Spec

------------------------------------------------------------------------------
\* LaunchAsPromised.  It needs, besides, that a pipe nobody reads from is one
\* whose reader is dead: of the two who had it open, the parent has closed its
\* end before it writes, and A closes its own when it exits.

HearInv ==
  /\ P \in {"ready", "maps", "signal"} => "P" \notin done.readers
  /\ A = "exited" => "A" \notin done.readers

LEMMA HearStep == TypeOK /\ HearInv /\ [Next]_vars => HearInv'
<1> SUFFICES ASSUME TypeOK, HearInv, [Next]_vars PROVE HearInv'
  OBVIOUS
<1>0. done \in Pipe
  BY DEF TypeOK
<1>1. CASE ParentStep \/ ParentCrashes
  <2>1. A' = A
    BY <1>1 DEF ParentStep, ParentClose, ParentReadsReady, WriteMaps, ParentSignals,
                ParentUpdates, ParentCrashes
  <2>2. CASE ParentClose
    BY <1>0, <2>1, <2>2 DEF HearInv, ParentClose, CloseReader, Pipe
  <2>3. CASE done' = done /\ P' \notin {"ready", "maps", "signal"}
    BY <2>1, <2>3 DEF HearInv
  <2>4. CASE done' = done /\ P \in {"ready", "maps"}
    BY <2>1, <2>4 DEF HearInv
  <2>5. CASE /\ done' \in {CloseWriter([done EXCEPT !.byte = TRUE], "P"), CloseAll(done, "P")}
             /\ P' \notin {"ready", "maps", "signal"}
    <3>1. done'.readers \subseteq done.readers
      BY <1>0, <2>5 DEF CloseAll, CloseWriter, CloseReader, Pipe
    <3> QED BY <2>1, <2>5, <3>1 DEF HearInv
  <2> QED BY <1>1, <2>2, <2>3, <2>4, <2>5
          DEF ParentStep, ParentReadsReady, WriteMaps, ParentSignals, ParentUpdates,
              ParentCrashes, ParentRaises
<1>2. CASE ChildStep
  <2>1. P' = P
    BY <1>2 DEF ChildStep, ChildClose, UnshareUser, Tell, Listen, Migrate, Unshare, ForkInit,
                AbortReady, AbortDone, WaitInit, AGoes, Unshares, AExits
  <2>2. CASE ChildClose \/ Listen
    <3>1. A' # "exited" /\ done'.readers \subseteq done.readers
      BY <1>0, <2>2 DEF ChildClose, Listen, CloseWriter, CloseReader, Pipe
    <3> QED BY <2>1, <3>1 DEF HearInv
  <2>3. CASE UnshareUser \/ Tell \/ Migrate \/ Unshare \/ ForkInit \/ AbortReady
    <3>1. A' # "exited" /\ done' = done
      BY <2>3 DEF UnshareUser, Tell, Migrate, Unshare, ForkInit, AbortReady, AGoes, Unshares
    <3> QED BY <2>1, <3>1 DEF HearInv
  <2>4. CASE AbortDone \/ WaitInit
    <3>1. done' = CloseAll(done, "A")
      BY <2>4 DEF AbortDone, WaitInit, AExits
    <3>2. done'.readers = done.readers \ {"A"}
      BY <1>0, <3>1 DEF CloseAll, CloseWriter, CloseReader, Pipe
    <3> QED BY <2>1, <3>2 DEF HearInv
  <2> QED BY <1>2, <2>2, <2>3, <2>4 DEF ChildStep
<1>3. CASE InitStep \/ UserExits \/ ExecStep \/ UNCHANGED vars
  <2>1. UNCHANGED <<P, A, done>>
    BY <1>3, ExecLeaves DEF InitStep, Mounts, Pivot, BindVolumes, SetHostname, Exec, BGoes,
                            UserExits, vars
  <2> QED BY <2>1 DEF HearInv
<1> QED BY <1>1, <1>2, <1>3 DEF Next

\* What the promise sees of the processes
Starter ==
  IF ParentGone THEN "gone" ELSE IF P \in {"update", "returned"} THEN "released" ELSE "starting"
Outer == IF A = "exited" THEN "dead" ELSE "alive"
Inner == CASE B = "none" -> "none" [] B = "exited" -> "dead" [] OTHER -> "alive"

Seen == INSTANCE ContainerLaunch WITH starter <- Starter, outer <- Outer, inner <- Inner

LEMMA SeenStep == [Seen!Next]_(Seen!vars) => [Launch!Next]_(Launch!vars)
BY DEF Seen!Next, Seen!vars, Seen!Fork, Seen!Release, Seen!Leave, Seen!Record, Seen!Run,
       Seen!Exit, Seen!Die, Launch!Next, Launch!vars, Launch!Fork, Launch!Release,
       Launch!Leave, Launch!Record, Launch!Run, Launch!Exit, Launch!Die,
       Starter, Outer, Inner

LEMMA ParentLaunches ==
  ASSUME TypeOK, HearInv, ParentStep \/ ParentCrashes
  PROVE  [Seen!Next]_(Seen!vars)
<1>1. Outer' = Outer /\ Inner' = Inner
  BY DEF ParentStep, ParentClose, ParentReadsReady, WriteMaps, ParentSignals, ParentUpdates,
         ParentCrashes, Outer, Inner
<1>2. CASE ParentClose \/ ParentReadsReady \/ (WriteMaps /\ P' = "signal")
  <2>1. Starter' = Starter /\ recorded' = recorded
    BY <1>2 DEF ParentClose, ParentReadsReady, WriteMaps, ParentRaises, Starter, ParentGone
  <2> QED BY <1>1, <2>1 DEF Seen!vars
<1>3. CASE (WriteMaps \/ ParentSignals) /\ P' = "raised"
  <2>1. recorded' = recorded /\ P \in {"maps", "signal"}
    BY <1>3 DEF WriteMaps, ParentSignals
  <2>2. Starter' = "gone" \/ Starter' = Starter
    BY <1>3, <2>1 DEF Starter, ParentGone
  <2> QED BY <1>1, <2>1, <2>2 DEF Seen!vars, Seen!Next, Seen!Leave, Outer
<1>4. CASE ParentSignals /\ P' = "update"
  <2>1. P = "signal" /\ Writable(done) /\ recorded' = recorded
    BY <1>4 DEF ParentSignals, ParentRaises
  <2>2. "A" \in done.readers
    BY <2>1 DEF HearInv, TypeOK, Pipe, Writable
  <2>3. Outer = "alive"
    BY <2>2 DEF HearInv, Outer
  <2>4. Starter = "starting" /\ Starter' = "released"
    BY <1>4, <2>1 DEF Starter, ParentGone
  <2> QED BY <1>1, <2>1, <2>3, <2>4 DEF Seen!Next, Seen!Release
<1>5. CASE ParentUpdates
  <2>1. Starter = "released" /\ Starter' = Starter /\ recorded' \in BOOLEAN
    BY <1>5 DEF ParentUpdates, Starter, ParentGone
  <2> QED BY <1>1, <2>1 DEF Seen!Next, Seen!Record
<1>6. CASE ParentCrashes
  <2>1. Starter' = "gone" /\ recorded' = recorded /\ Outer # "unborn"
    BY <1>6 DEF ParentCrashes, Starter, ParentGone, Outer
  <2> QED BY <1>1, <2>1 DEF Seen!Next, Seen!Leave
<1> QED BY <1>2, <1>3, <1>4, <1>5, <1>6 DEF ParentStep, WriteMaps, ParentSignals, ParentRaises

LEMMA ChildLaunches ==
  ASSUME TypeOK, ExitInv, MapsBeforePhase2, ChildStep
  PROVE  [Seen!Next]_(Seen!vars)
<1>1. P' = P /\ recorded' = recorded
  BY DEF ChildStep, ChildClose, UnshareUser, Tell, Listen, Migrate, Unshare, ForkInit,
         AbortReady, AbortDone, WaitInit, AGoes, Unshares, AExits
<1>2. Starter' = Starter
  BY <1>1 DEF Starter, ParentGone
<1>3. CASE A' # "exited" /\ B' = B
  <2>1. Outer' = Outer
    BY <1>3 DEF ChildStep, ChildClose, UnshareUser, Tell, Listen, Migrate, Unshare, ForkInit,
                AbortReady, AbortDone, WaitInit, AGoes, Unshares, AExits, Outer
  <2> QED BY <1>1, <1>2, <1>3, <2>1 DEF Seen!vars, Inner
<1>4. CASE ForkInit /\ B' = "mounts"
  <2>1. A = "fork" /\ A' = "wait" /\ B = "none"
    BY <1>4 DEF ForkInit, ExitInv
  <2>2. Starter # "starting"
    BY <2>1 DEF MapsBeforePhase2, Phase2, Starter
  <2>3. /\ Outer = "alive" /\ Outer' = "alive"
        /\ Inner = "none" /\ Inner' = "alive"
    BY <1>4, <2>1 DEF Outer, Inner
  <2> QED BY <1>1, <1>2, <2>2, <2>3 DEF Seen!Next, Seen!Run
<1>5. CASE AbortDone \/ WaitInit
  <2>1. A # "exited" /\ A' = "exited" /\ B' = B /\ B \in {"none", "exited"}
    BY <1>5 DEF AbortDone, WaitInit, AExits, ExitInv
  <2>2. /\ Outer = "alive" /\ Outer' = "dead"
        /\ Inner' = Inner /\ Inner # "alive"
    BY <2>1 DEF Outer, Inner
  <2> QED BY <1>1, <1>2, <2>2 DEF Seen!Next, Seen!Die
<1> QED BY <1>3, <1>4, <1>5
        DEF ChildStep, ChildClose, UnshareUser, Tell, Listen, Migrate, Unshare, ForkInit,
            AbortReady, AGoes, Unshares

LEMMA RestLaunches ==
  ASSUME InitStep \/ UserExits \/ ExecStep \/ UNCHANGED vars, TypeOK
  PROVE  [Seen!Next]_(Seen!vars)
<1>1. UNCHANGED <<P, A, recorded>>
  BY ExecLeaves DEF InitStep, Mounts, Pivot, BindVolumes, SetHostname, Exec, BGoes,
                    UserExits, vars
<1>2. Starter' = Starter /\ Outer' = Outer
  BY <1>1 DEF Starter, ParentGone, Outer
<1>3. Inner' = Inner \/ (Inner = "alive" /\ Inner' = "dead")
  BY ExecLeaves DEF InitStep, Mounts, Pivot, BindVolumes, SetHostname, Exec, BGoes,
                    UserExits, vars, Inner
<1> QED BY <1>1, <1>2, <1>3 DEF Seen!Next, Seen!vars, Seen!Exit

\* The handshake over two pipes implements the promise that ContainerLifecycle
\* takes for one step: a child is released only alive, runs nothing of the container
\* before, is recorded only after, and outlives its own child - whatever fails
\* and whoever dies.
THEOREM LaunchPromised == Spec => LaunchAsPromised
<1>1. Init => TypeOK /\ ExitInv /\ OrderInv /\ HearInv /\ Launch!Init
  <2>1. Init => ExitInv /\ OrderInv
    BY DEF Init, NewPipe, ExitInv, ExitCodePropagates, OrderInv, MapsBeforePhase2, ParentGone,
           Phase2
  <2>2. Init => HearInv /\ Launch!Init
    BY DEF Init, HearInv, Launch!Init, ParentGone
  <2> QED BY InitType, <2>1, <2>2
<1>2. TypeOK /\ ExitInv /\ OrderInv /\ HearInv /\ [Next]_vars =>
        TypeOK' /\ ExitInv' /\ OrderInv' /\ HearInv' /\ [Launch!Next]_(Launch!vars)
  <2> SUFFICES ASSUME TypeOK, ExitInv, OrderInv, HearInv, [Next]_vars
               PROVE  [Seen!Next]_(Seen!vars)
    BY TypeStep, ExitStep, OrderStep, HearStep, SeenStep
  <2>1. MapsBeforePhase2
    BY DEF OrderInv
  <2> QED BY <2>1, ParentLaunches, ChildLaunches, RestLaunches DEF Next
<1> QED BY <1>1, <1>2, PTL DEF Spec, LaunchAsPromised, Launch!Spec

------------------------------------------------------------------------------
\* EachWaitEnds.  Inductive with it: each of the two has closed the ends it does
\* not write to and those it has written to, and a parent that has not read yet
\* finds the byte of a child that listens.

WaitInv ==
  /\ P # "close" => "P" \notin ready.writers
  /\ A \notin Untold \cup {"abort ready"} => "A" \notin ready.writers
  /\ A # "close" => "A" \notin done.writers
  /\ P \in {"update", "returned"} \/ ParentGone => "P" \notin done.writers
  /\ A = "listen" /\ P \in {"close", "ready"} => ready.byte

LEMMA WaitStep == TypeOK /\ WaitInv /\ [Next]_vars => WaitInv'
<1> SUFFICES ASSUME TypeOK, WaitInv, [Next]_vars PROVE WaitInv'
  OBVIOUS
<1>0. ready \in Pipe /\ done \in Pipe
  BY DEF TypeOK
<1> USE DEF WaitInv, ParentGone, Untold
<1>1. CASE ParentStep \/ ParentCrashes
  <2>0. A' = A
    BY <1>1 DEF ParentStep, ParentClose, ParentReadsReady, WriteMaps, ParentSignals,
                ParentUpdates, ParentCrashes
  <2>1. CASE ParentClose
    <3>1. /\ ready'.writers = ready.writers \ {"P"} /\ ready'.byte = ready.byte
          /\ done'.writers = done.writers
      BY <1>0, <2>1 DEF CloseAll, CloseReader, CloseWriter, Pipe, ParentClose
    <3> QED BY <2>0, <2>1, <3>1 DEF ParentClose
  <2>2. CASE ParentReadsReady
    <3>1. ready'.writers = ready.writers /\ done' = done
      BY <1>0, <2>2 DEF CloseAll, CloseReader, CloseWriter, Pipe, ParentReadsReady
    <3> QED BY <2>0, <2>2, <3>1 DEF ParentReadsReady
  <2>3. CASE ParentUpdates
    BY <2>0, <2>3 DEF ParentUpdates
  <2>4. CASE WriteMaps /\ P' = "signal"
    BY <2>0, <2>4 DEF WriteMaps, ParentRaises
  <2>5. CASE ParentSignals /\ P' = "update"
    <3>1. ready' = ready /\ done'.writers = done.writers \ {"P"} /\ P = "signal"
      BY <1>0, <2>5 DEF CloseAll, CloseReader, CloseWriter, Pipe, ParentSignals, ParentRaises
    <3> QED BY <2>0, <2>5, <3>1
  <2>6. CASE (WriteMaps \/ ParentSignals) /\ ParentRaises
    <3>1. P' = "raised" /\ P \in {"maps", "signal"}
      BY <2>6 DEF WriteMaps, ParentSignals, ParentRaises
    <3>2. \/ ready' = ready /\ done' = done /\ ~ParentExits
          \/ ready' = CloseAll(ready, "P") /\ done' = CloseAll(done, "P")
      BY <2>6 DEF ParentRaises
    <3>3. \/ ready' = ready /\ done' = done /\ ~ParentExits
          \/ ready'.writers = ready.writers \ {"P"} /\ done'.writers = done.writers \ {"P"}
      BY <1>0, <3>2 DEF CloseAll, CloseReader, CloseWriter, Pipe
    <3> QED BY <2>0, <3>1, <3>3
  <2>7. CASE ParentCrashes
    <3>1. /\ ready'.writers = ready.writers \ {"P"} /\ done'.writers = done.writers \ {"P"}
          /\ P' = "crashed"
      BY <1>0, <2>7 DEF CloseAll, CloseReader, CloseWriter, Pipe, ParentCrashes
    <3> QED BY <2>0, <3>1
  <2> QED BY <1>1, <2>1, <2>2, <2>3, <2>4, <2>5, <2>6, <2>7 DEF ParentStep, WriteMaps, ParentSignals
<1>2. CASE ChildStep
  <2>0. P' = P
    BY <1>2 DEF ChildStep, ChildClose, UnshareUser, Tell, Listen, Migrate, Unshare, ForkInit,
                AbortReady, AbortDone, WaitInit, AGoes, Unshares, AExits
  <2>1. CASE ChildClose
    <3>1. ready'.writers = ready.writers /\ done'.writers = done.writers \ {"A"}
      BY <1>0, <2>1 DEF CloseAll, CloseReader, CloseWriter, Pipe, ChildClose
    <3> QED BY <2>0, <2>1, <3>1 DEF ChildClose
  <2>2. CASE UnshareUser \/ Migrate \/ Unshare \/ ForkInit
    <3>1. /\ ready' = ready /\ done' = done /\ A' \notin {"close", "listen"} /\ A # "close"
          /\ A' \in Untold \cup {"abort ready"} \/ A \notin Untold \cup {"abort ready"}
      BY <2>2 DEF UnshareUser, Migrate, Unshare, ForkInit, AGoes, Unshares
    <3> QED BY <2>0, <3>1
  <2>3. CASE Tell
    <3>1. /\ done' = done /\ A = "tell"
          /\ \/ A' = "abort ready" /\ ready' = ready
             \/ /\ A' = "listen"
                /\ ready'.writers = ready.writers \ {"A"} /\ ready'.byte = TRUE
      BY <1>0, <2>3 DEF CloseAll, CloseReader, CloseWriter, Pipe, Tell
    <3> QED BY <2>0, <3>1
  <2>4. CASE Listen
    <3>1. /\ ready' = ready /\ done'.writers = done.writers /\ A = "listen" /\ A' = "cgroup"
      BY <1>0, <2>4 DEF CloseAll, CloseReader, CloseWriter, Pipe, Listen
    <3> QED BY <2>0, <3>1
  <2>5. CASE AbortReady
    <3>1. /\ ready'.writers = ready.writers \ {"A"} /\ done' = done
          /\ A = "abort ready" /\ A' = "abort done"
      BY <1>0, <2>5 DEF CloseAll, CloseReader, CloseWriter, Pipe, AbortReady
    <3> QED BY <2>0, <3>1
  <2>6. CASE AbortDone \/ WaitInit
    <3>1. /\ ready'.writers = ready.writers \ {"A"} /\ done'.writers = done.writers \ {"A"}
          /\ A' = "exited"
      BY <1>0, <2>6 DEF CloseAll, CloseReader, CloseWriter, Pipe, AbortDone, WaitInit, AExits
    <3> QED BY <2>0, <3>1
  <2> QED BY <1>2, <2>1, <2>2, <2>3, <2>4, <2>5, <2>6 DEF ChildStep
<1>3. CASE InitStep \/ UserExits \/ ExecStep \/ UNCHANGED vars
  <2>1. UNCHANGED <<P, A, ready, done>>
    BY <1>3, ExecLeaves DEF InitStep, Mounts, Pivot, BindVolumes, SetHostname, Exec, BGoes,
                            UserExits, vars
  <2> QED BY <2>1
<1> QED BY <1>1, <1>2, <1>3 DEF Next

\* start() and its child never wait for each other, and none of them waits for a
\* process that is gone: the one exception is the child of a parent that has raised
\* before its signal and goes on.
THEOREM NobodyIsStuck == Spec => []EachWaitEnds
<1>1. Init => ExitInv /\ WaitInv
  BY DEF Init, NewPipe, ExitInv, ExitCodePropagates, WaitInv, ParentGone, Untold
<1>2. TypeOK /\ ExitInv /\ WaitInv => EachWaitEnds
  <2> SUFFICES ASSUME TypeOK, ExitInv, WaitInv PROVE EachWaitEnds
    OBVIOUS
  <2>1. A \in ChildPlaces /\ P \in ParentPlaces /\ ready \in Pipe /\ done \in Pipe
    BY DEF TypeOK
  <2>2. ASSUME P = "ready", ~Readable(ready)
        PROVE  A \in (Waiting \ {"listen"}) \cup {"abort ready"}
    <3>1. "A" \in ready.writers
      BY <2>1, <2>2 DEF Readable, WaitInv, Pipe
    <3> QED BY <3>1 DEF WaitInv, Untold, Waiting
  <2>3. ASSUME A = "listen", ~Readable(done)
        PROVE  \/ P \in {"close", "ready"} /\ Readable(ready)
               \/ P \in {"maps", "signal"}
               \/ P = "raised" /\ ~ParentExits
    <3>1. "P" \in done.writers
      BY <2>1, <2>3 DEF Readable, WaitInv, Pipe
    <3> QED BY <2>1, <2>3, <3>1 DEF WaitInv, Readable, ParentGone, ParentPlaces
  <2> QED BY <2>2, <2>3 DEF EachWaitEnds, ExitInv
<1> QED BY InitType, TypeStep, ExitStep, WaitStep, <1>1, <1>2, PTL DEF Spec
===============================================================================
