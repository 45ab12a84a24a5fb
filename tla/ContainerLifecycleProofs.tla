----------------------- MODULE ContainerLifecycleProofs -----------------------
(***************************************************************************)
(* Theorems about ContainerLifecycle, for any clients, any commands and    *)
(* any number of starts, in every mode.                                    *)
(***************************************************************************)
EXTENDS ContainerLifecycle, TLAPS

LEMMA ConstantFacts ==
  /\ Commands \subseteq Seq(Methods) \ {<<>>}
  /\ MaxForks \in Nat
  /\ Clients \cap (Pids \cup {InitProc}) = {}
BY LifecycleAssumption DEF LifecycleAssumption

------------------------------------------------------------------------------
\* The fragments that actions are made of, one lemma each

LEMMA GotoOK ==
  ASSUME ControlOK, NEW k \in Actors, NEW label \in PCs, Goto(k, label)
  PROVE  ControlOK'
BY DEF ControlOK, Goto, locals

LEMMA AimOK ==
  ASSUME ControlOK, NEW k \in Actors, NEW label \in PCs,
         NEW p \in Pids \cup {NoPid}, Aim(k, label, p)
  PROVE  ControlOK'
BY DEF ControlOK, Aim

LEMMA WriteOK ==
  ASSUME ControlOK, NEW k \in Actors, NEW label \in PCs,
         NEW r \in [st : Readable, pid : Pids \cup {NoPid}], Write(k, label, r)
  PROVE  ControlOK'
BY DEF ControlOK, Write

LEMMA UnlinkOK ==
  ASSUME ControlOK, NEW k \in Actors, NEW es \in SUBSET Entries, Unlink(k, es)
  PROVE  ControlOK'
BY DEF ControlOK, Unlink, PCs

LEMMA NoValOK == NoVal \in [st : Readable, pid : Pids \cup {NoPid}]
BY DEF NoVal, Record, Readable

LEMMA EmptySeq == <<>> \in Seq(Methods)
OBVIOUS

LEMMA IdleOK ==
  ASSUME ControlOK, NEW k \in Actors, Idle(k)
  PROVE  ControlOK'
<1>1. pc' \in [Actors -> PCs] /\ tgt' \in [Actors -> Pids \cup {NoPid}]
  BY DEF ControlOK, Idle, PCs
<1>2. todo' \in [Actors -> Seq(Methods)]
  BY EmptySeq DEF ControlOK, Idle
<1>3. val' \in [Actors -> [st : Readable, pid : Pids \cup {NoPid}]]
  BY NoValOK DEF ControlOK, Idle
<1>4. entries' \in [Actors -> SUBSET Entries]
  BY DEF ControlOK, Idle
<1> QED BY <1>1, <1>2, <1>3, <1>4 DEF ControlOK

LEMMA OrphanOK ==
  ASSUME KernelOK, NEW k \in Actors, Orphan(k), UNCHANGED <<inner, sig, gate, joined>>
  PROVE  KernelOK'
BY DEF KernelOK, Orphan

LEMMA EndOK ==
  ASSUME KernelOK, ControlOK, NEW k \in Actors, End(k)
  PROVE  KernelOK' /\ ControlOK'
<1>1. ControlOK'
  BY IdleOK DEF End
<1>2. KernelOK'
  <2>1. CASE OneShot
    BY <2>1, OrphanOK DEF End
  <2>2. CASE ~OneShot
    BY <2>2 DEF End, kernel, KernelOK
  <2> QED BY <2>1, <2>2
<1> QED BY <1>1, <1>2

LEMMA ReturnOK ==
  ASSUME KernelOK, ControlOK, NEW k \in Actors, Return(k)
  PROVE  KernelOK' /\ ControlOK'
<1>1. CASE todo[k] = <<>> /\ End(k)
  BY <1>1, EndOK
<1>2. CASE /\ todo[k] # <<>>
           /\ pc' = [pc EXCEPT ![k] = Head(todo[k])]
           /\ todo' = [todo EXCEPT ![k] = Tail(todo[k])]
           /\ val' = [val EXCEPT ![k] = NoVal]
           /\ entries' = [entries EXCEPT ![k] = {}]
           /\ UNCHANGED <<kernel, tgt>>
  <2>1. Head(todo[k]) \in Methods /\ Tail(todo[k]) \in Seq(Methods)
    <3>1. todo[k] \in Seq(Methods)
      BY DEF ControlOK
    <3> QED BY <3>1, <1>2
  <2>2. Head(todo[k]) \in PCs
    BY <2>1 DEF PCs
  <2>3. pc' \in [Actors -> PCs] /\ tgt' \in [Actors -> Pids \cup {NoPid}]
    BY <1>2, <2>2 DEF ControlOK
  <2>4. todo' \in [Actors -> Seq(Methods)]
    BY <1>2, <2>1 DEF ControlOK
  <2>5. val' \in [Actors -> [st : Readable, pid : Pids \cup {NoPid}]]
    BY <1>2, NoValOK DEF ControlOK
  <2>6. entries' \in [Actors -> SUBSET Entries]
    BY <1>2 DEF ControlOK
  <2>7. KernelOK'
    BY <1>2 DEF kernel, KernelOK
  <2> QED BY <2>3, <2>4, <2>5, <2>6, <2>7 DEF ControlOK
<1> QED BY <1>1, <1>2 DEF Return

LEMMA WaitpidOK ==
  ASSUME KernelOK, NEW k, NEW p, Waitpid(k, p)
  PROVE  KernelOK'
BY DEF KernelOK, Waitpid, kernel

LEMMA SetStoppedOK ==
  ASSUME ControlOK, NEW k \in Actors, SetStopped(k)
  PROVE  ControlOK'
<1>1. Record("stopped", NoPid) \in [st : Readable, pid : Pids \cup {NoPid}]
  BY DEF Record, Readable
<1>2. "set_state" \in PCs
  BY DEF PCs
<1> QED BY <1>1, <1>2, WriteOK DEF SetStopped

LEMMA SameOK ==
  /\ DiskOK /\ UNCHANGED disk => DiskOK'
  /\ KernelOK /\ UNCHANGED kernel => KernelOK'
  /\ ControlOK /\ UNCHANGED <<pc, todo, locals>> => ControlOK'
  /\ HistoryOK /\ UNCHANGED history => HistoryOK'
<1>1. DiskOK /\ UNCHANGED disk => DiskOK'
  BY DEF disk, DiskOK
<1>2. KernelOK /\ UNCHANGED kernel => KernelOK'
  BY DEF kernel, KernelOK
<1>3. ControlOK /\ UNCHANGED <<pc, todo, locals>> => ControlOK'
  BY DEF locals, ControlOK
<1>4. HistoryOK /\ UNCHANGED history => HistoryOK'
  BY DEF history, HistoryOK
<1> QED BY <1>1, <1>2, <1>3, <1>4

LEMMA UnreadableOK ==
  ASSUME TypeOK, NEW k \in Actors, Unreadable(k)
  PROVE  TypeOK'
BY SameOK, EndOK DEF Unreadable, TypeOK

------------------------------------------------------------------------------
\* The methods, action by action

LEMMA UpdateOK ==
  ASSUME TypeOK, NEW k \in Actors, Update(k)
  PROVE  TypeOK'
<1>1. CASE Unreadable(k)
  BY <1>1, UnreadableOK
<1>2. CASE /\ record.st \in Readable
           /\ Write(k, "truncate", IF At(k, "set_state") THEN Record(val[k].st, record.pid)
                                   ELSE val[k])
           /\ UNCHANGED <<disk, kernel, history>>
  <2>1. val[k] \in [st : Readable, pid : Pids \cup {NoPid}]
    BY DEF TypeOK, ControlOK
  <2>2. record.pid \in Pids \cup {NoPid}
    BY DEF TypeOK, DiskOK
  <2>3. Record(val[k].st, record.pid) \in [st : Readable, pid : Pids \cup {NoPid}]
    BY <2>1, <2>2 DEF Record
  <2>4. "truncate" \in PCs
    BY DEF PCs
  <2>5. ControlOK'
    BY <1>2, <2>1, <2>3, <2>4, WriteOK DEF TypeOK
  <2> QED BY <1>2, <2>5, SameOK DEF TypeOK
<1> QED BY <1>1, <1>2 DEF Update

LEMMA TruncateOK ==
  ASSUME TypeOK, NEW k \in Actors, Truncate(k)
  PROVE  TypeOK'
<1>1. HistoryOK'
  BY SameOK DEF Truncate, TypeOK
<1>2. CASE /\ dir
           /\ record' = Record("empty", NoPid)
           /\ fds' = fds \cup {k}
           /\ Goto(k, "fill")
           /\ UNCHANGED <<config, dir, mounted, cgroup, kernel>>
  <2>1. DiskOK'
    BY <1>2 DEF TypeOK, DiskOK, Record, FileStates
  <2>2. ControlOK'
    BY <1>2, GotoOK DEF TypeOK, PCs
  <2> QED BY <1>1, <1>2, <2>1, <2>2, SameOK DEF TypeOK
<1>3. CASE ~dir /\ End(k) /\ UNCHANGED disk
  BY <1>1, <1>3, EndOK, SameOK DEF TypeOK
<1> QED BY <1>2, <1>3 DEF Truncate

LEMMA FillOK ==
  ASSUME TypeOK, NEW k \in Actors, Fill(k)
  PROVE  TypeOK'
<1>1. val[k] \in [st : FileStates, pid : Pids \cup {NoPid}]
  BY DEF TypeOK, ControlOK, FileStates
<1>2. Record("garbage", NoPid) \in [st : FileStates, pid : Pids \cup {NoPid}]
  BY DEF Record, FileStates
<1>3. record' \in {val[k], Record("garbage", NoPid), record}
  BY DEF Fill
<1>4. DiskOK'
  BY <1>1, <1>2, <1>3 DEF Fill, TypeOK, DiskOK
<1> QED BY <1>4, ReturnOK, SameOK DEF Fill, TypeOK

LEMMA CreateOK ==
  ASSUME TypeOK, NEW k \in Actors, Create(k)
  PROVE  TypeOK'
<1>1. CASE CreateStorage(k)
  <2>1. DiskOK' /\ HistoryOK'
    BY <1>1 DEF CreateStorage, TypeOK, DiskOK, HistoryOK
  <2>2. "config" \in PCs
    BY DEF PCs
  <2>3. KernelOK' /\ ControlOK'
    BY <1>1, <2>2, GotoOK, EndOK, SameOK DEF CreateStorage, TypeOK
  <2> QED BY <2>1, <2>3 DEF TypeOK
<1>2. CASE CreateConfig(k)
  <2>1. DiskOK'
    BY <1>2 DEF CreateConfig, TypeOK, DiskOK
  <2>2. "truncate" \in PCs /\ Record("created", NoPid) \in [st : Readable, pid : Pids \cup {NoPid}]
    BY DEF PCs, Record, Readable
  <2>3. ControlOK'
    BY <1>2, <2>2, WriteOK DEF CreateConfig, TypeOK
  <2> QED BY <1>2, <2>1, <2>3, SameOK DEF CreateConfig, TypeOK
<1>3. CASE CreateOther(k)
  BY <1>3, EndOK, SameOK DEF CreateOther, TypeOK
<1> QED BY <1>1, <1>2, <1>3 DEF Create

LEMMA StartOK ==
  ASSUME TypeOK, NEW k \in Actors, Start(k)
  PROVE  TypeOK'
<1>0. "fork" \in PCs /\ "maps" \in PCs /\ "update" \in PCs
  BY DEF PCs
<1>1. CASE StartCheck(k)
  BY <1>0, <1>1, GotoOK, EndOK, SameOK DEF StartCheck, TypeOK
<1>2. CASE Fork(k)
  <2>1. PICK p \in Pids :
          /\ Aim(k, "maps", p)
          /\ outer' = [outer EXCEPT ![p] = "alive"]
          /\ parent' = [parent EXCEPT ![p] = k]
          /\ \/ cgroup' = TRUE /\ joined' = [joined EXCEPT ![p] = "offered"]
             \/ cgroup' \in {cgroup, TRUE} /\ UNCHANGED joined
    BY <1>2 DEF Fork
  <2>2. ControlOK'
    BY <1>0, <2>1, AimOK DEF TypeOK
  <2>3. KernelOK'
    BY <1>2, <2>1 DEF Fork, TypeOK, KernelOK
  <2>4. cgroup' \in BOOLEAN
    BY <2>1 DEF TypeOK, DiskOK
  <2>5. DiskOK'
    BY <1>2, <2>4 DEF Fork, TypeOK, DiskOK
  <2> QED BY <1>2, <2>2, <2>3, <2>5, SameOK DEF Fork, TypeOK
<1>3. CASE ForkFails(k)
  <2>1. DiskOK'
    BY <1>3 DEF ForkFails, TypeOK, DiskOK
  <2> QED BY <1>3, <2>1, EndOK, SameOK DEF ForkFails, TypeOK
<1>4. CASE SendMaps(k)
  <2>1. DiskOK' /\ HistoryOK'
    BY <1>4, SameOK DEF SendMaps, TypeOK
  <2>2. CASE /\ gate' = [gate EXCEPT ![tgt[k]] = "open"]
             /\ Write(k, "update", Record("running", tgt[k]))
             /\ UNCHANGED <<outer, inner, parent, sig, joined>>
    <3>1. KernelOK'
      BY <2>2 DEF TypeOK, KernelOK
    <3>2. Record("running", tgt[k]) \in [st : Readable, pid : Pids \cup {NoPid}]
      BY DEF Record, Readable, TypeOK, ControlOK
    <3>3. ControlOK'
      BY <1>0, <2>2, <3>2, WriteOK DEF TypeOK
    <3> QED BY <2>1, <3>1, <3>3 DEF TypeOK
  <2>3. CASE End(k)
    BY <2>1, <2>3, EndOK DEF TypeOK
  <2> QED BY <1>4, <2>2, <2>3 DEF SendMaps
<1> QED BY <1>1, <1>2, <1>3, <1>4 DEF Start

LEMMA RecordPidOK == ASSUME TypeOK PROVE record.pid \in Pids \cup {NoPid}
BY DEF TypeOK, DiskOK

LEMMA StoppedValOK == Record("stopped", NoPid) \in [st : Readable, pid : Pids \cup {NoPid}]
BY DEF Record, Readable

LEMMA WatchOK ==
  ASSUME TypeOK, NEW k \in Actors, Watch(k)
  PROVE  TypeOK'
<1>0. "alive?" \in PCs /\ "update" \in PCs /\ "idle" \in PCs /\ "watch" \in PCs
  BY DEF PCs, Methods
<1>1. CASE SpawnWatcher(k)
  <2>1. KernelOK'
    BY <1>1, OrphanOK DEF SpawnWatcher, TypeOK
  <2>2. pc' \in [Actors -> PCs] /\ tgt' \in [Actors -> Pids \cup {NoPid}]
    BY <1>0, <1>1 DEF SpawnWatcher, TypeOK, ControlOK
  <2>3. todo' \in [Actors -> Seq(Methods)]
    BY <1>1, EmptySeq DEF SpawnWatcher, TypeOK, ControlOK
  <2>4. ControlOK'
    BY <1>1, <2>2, <2>3 DEF SpawnWatcher, TypeOK, ControlOK
  <2> QED BY <1>1, <2>1, <2>4, SameOK DEF SpawnWatcher, TypeOK
<1>2. CASE WatchGet(k)
  <2>1. CASE Unreadable(k)
    BY <2>1, UnreadableOK
  <2>2. CASE /\ record.st \in Readable
             /\ IF record.pid = NoPid THEN Return(k)
                ELSE Aim(k, "alive?", record.pid) /\ UNCHANGED kernel
             /\ UNCHANGED <<disk, history>>
    BY <1>0, <2>2, RecordPidOK, AimOK, ReturnOK, SameOK DEF TypeOK
  <2> QED BY <1>2, <2>1, <2>2 DEF WatchGet
<1>3. CASE WatchPoll(k)
  BY <1>0, <1>3, StoppedValOK, WriteOK, SameOK DEF WatchPoll, TypeOK
<1> QED BY <1>1, <1>2, <1>3 DEF Watch

LEMMA WaitOK ==
  ASSUME TypeOK, NEW k \in Actors, Wait(k)
  PROVE  TypeOK'
<1>0. "waitpid" \in PCs /\ "update" \in PCs
  BY DEF PCs
<1>1. CASE WaitGet(k)
  <2>1. CASE Unreadable(k)
    BY <2>1, UnreadableOK
  <2>2. CASE /\ record.st \in Readable
             /\ IF record.pid = NoPid THEN End(k)
                ELSE Aim(k, "waitpid", record.pid) /\ UNCHANGED kernel
             /\ UNCHANGED <<disk, history>>
    BY <1>0, <2>2, RecordPidOK, AimOK, EndOK, SameOK DEF TypeOK
  <2> QED BY <1>1, <2>1, <2>2 DEF WaitGet
<1>2. CASE WaitPid(k)
  BY <1>0, <1>2, StoppedValOK, WaitpidOK, WriteOK, SameOK DEF WaitPid, TypeOK
<1> QED BY <1>1, <1>2 DEF Wait

LEMMA StopOK ==
  ASSUME TypeOK, NEW k \in Actors, Stop(k)
  PROVE  TypeOK'
<1>0. "kill" \in PCs /\ "poll" \in PCs /\ "reap" \in PCs
  BY DEF PCs
<1>1. CASE StopCheck(k)
  <2>1. CASE Unreadable(k)
    BY <2>1, UnreadableOK
  <2>2. CASE Aim(k, "kill", record.pid) /\ UNCHANGED <<disk, kernel, history>>
    BY <1>0, <2>2, RecordPidOK, AimOK, SameOK DEF TypeOK
  <2>3. CASE Return(k) /\ UNCHANGED <<disk, history>>
    BY <2>3, ReturnOK, SameOK DEF TypeOK
  <2> QED BY <1>1, <2>1, <2>2, <2>3 DEF StopCheck
<1>2. CASE StopKill(k)
  <2>1. KernelOK'
    BY <1>2 DEF StopKill, Signal, TypeOK, KernelOK
  <2>2. ControlOK'
    BY <1>0, <1>2, SetStoppedOK, GotoOK DEF StopKill, TypeOK
  <2> QED BY <1>2, <2>1, <2>2, SameOK DEF StopKill, TypeOK
<1>3. CASE StopPoll(k)
  BY <1>3, SetStoppedOK, WaitpidOK, SameOK DEF StopPoll, TypeOK
<1>4. CASE StopTimeout(k)
  <2>1. KernelOK'
    BY <1>4 DEF StopTimeout, Signal, TypeOK, KernelOK
  <2> QED BY <1>0, <1>4, <2>1, GotoOK, SameOK DEF StopTimeout, TypeOK
<1>5. CASE StopReap(k)
  BY <1>5, SetStoppedOK, WaitpidOK, SameOK DEF StopReap, TypeOK
<1> QED BY <1>1, <1>2, <1>3, <1>4, <1>5 DEF Stop

LEMMA RemoveOK ==
  ASSUME TypeOK, NEW k \in Actors, Remove(k)
  PROVE  TypeOK'
<1>0. "unmount" \in PCs /\ "cgroup" \in PCs /\ "rmtree" \in PCs
  BY DEF PCs
<1>1. CASE RemoveCheck(k)
  <2>1. CASE Unreadable(k)
    BY <2>1, UnreadableOK
  <2>2. CASE End(k) /\ UNCHANGED <<disk, history>>
    BY <2>2, EndOK, SameOK DEF TypeOK
  <2>3. CASE removing' = TRUE /\ Goto(k, "unmount") /\ UNCHANGED <<disk, kernel, born>>
    <3>1. HistoryOK'
      BY <2>3 DEF TypeOK, HistoryOK
    <3> QED BY <1>0, <2>3, <3>1, GotoOK, SameOK DEF TypeOK
  <2> QED BY <1>1, <2>1, <2>2, <2>3 DEF RemoveCheck
<1>2. CASE Unmount(k)
  <2>1. DiskOK'
    BY <1>2 DEF Unmount, TypeOK, DiskOK
  <2> QED BY <1>0, <1>2, <2>1, GotoOK, SameOK DEF Unmount, TypeOK
<1>3. CASE DeleteCgroup(k)
  <2>1. DiskOK'
    BY <1>3 DEF DeleteCgroup, TypeOK, DiskOK
  <2> QED BY <1>0, <1>3, <2>1, GotoOK, SameOK DEF DeleteCgroup, TypeOK
<1>4. CASE RmtreeScan(k)
  BY <1>4, UnlinkOK, ReturnOK, SameOK DEF RmtreeScan, TypeOK
<1>5. entries[k] \in SUBSET Entries
  BY DEF TypeOK, ControlOK
<1>6. CASE UnlinkConfig(k)
  <2>1. DiskOK'
    BY <1>6 DEF UnlinkConfig, TypeOK, DiskOK
  <2>2. KernelOK' /\ ControlOK'
    BY <1>5, <1>6, UnlinkOK, EndOK, SameOK DEF UnlinkConfig, TypeOK
  <2> QED BY <1>6, <2>1, <2>2, SameOK DEF UnlinkConfig, TypeOK
<1>7. CASE UnlinkRecord(k)
  <2>1. DiskOK'
    BY <1>7 DEF UnlinkRecord, TypeOK, DiskOK, NoRecord, FileStates
  <2>2. KernelOK' /\ ControlOK'
    BY <1>5, <1>7, UnlinkOK, EndOK, SameOK DEF UnlinkRecord, TypeOK
  <2> QED BY <1>7, <2>1, <2>2, SameOK DEF UnlinkRecord, TypeOK
<1>8. CASE Rmdir(k)
  <2>1. DiskOK'
    BY <1>8 DEF Rmdir, TypeOK, DiskOK
  <2> QED BY <1>8, <2>1, ReturnOK, EndOK, SameOK DEF Rmdir, TypeOK
<1> QED BY <1>1, <1>2, <1>3, <1>4, <1>6, <1>7, <1>8 DEF Remove

LEMMA StepOK ==
  ASSUME TypeOK, NEW k \in Actors, Step(k)
  PROVE  TypeOK'
<1>1. CASE Recover(k)
  BY <1>1, SetStoppedOK, EndOK, SameOK DEF Recover, TypeOK
<1> QED BY <1>1, UpdateOK, TruncateOK, FillOK, CreateOK, StartOK, WatchOK, WaitOK,
           StopOK, RemoveOK DEF Step

LEMMA BeginOK ==
  ASSUME TypeOK, NEW k \in Clients, Begin(k)
  PROVE  TypeOK'
<1>1. PICK c \in Commands : /\ pc' = [pc EXCEPT ![k] = Head(c)]
                           /\ todo' = [todo EXCEPT ![k] = Tail(c)]
  BY DEF Begin
<1>2. c \in Seq(Methods) /\ c # <<>>
  BY ConstantFacts
<1>3. Head(c) \in PCs /\ Tail(c) \in Seq(Methods)
  <2>1. Head(c) \in Methods /\ Tail(c) \in Seq(Methods)
    BY <1>2
  <2> QED BY <2>1 DEF PCs
<1>4. ControlOK'
  BY <1>1, <1>3 DEF Begin, locals, TypeOK, ControlOK
<1> QED BY <1>4, SameOK DEF Begin, TypeOK

LEMMA CrashOK ==
  ASSUME TypeOK, NEW k \in Actors, Crash(k)
  PROVE  TypeOK'
<1>1. DiskOK' /\ HistoryOK'
  BY SameOK DEF Crash, TypeOK, DiskOK
<1>2. KernelOK'
  BY DEF Crash, Orphan, TypeOK, KernelOK
<1>3. ControlOK'
  BY IdleOK DEF Crash, TypeOK
<1> QED BY <1>1, <1>2, <1>3 DEF TypeOK

LEMMA ProcessOK ==
  ASSUME TypeOK, NEW p \in Pids, ProcessStep(p)
  PROVE  TypeOK'
<1>1. KernelOK'
  <2>1. CASE ChildRun(p)
    BY <2>1 DEF ChildRun, TypeOK, KernelOK
  <2>2. CASE InnerExit(p)
    BY <2>2 DEF InnerExit, TypeOK, KernelOK
  <2>3. CASE ChildFail(p) \/ OuterExit(p) \/ Deliver(p)
    BY <2>3 DEF ChildFail, OuterExit, Deliver, Dies, TypeOK, KernelOK
  <2>4. CASE HearEof(p)
    BY <2>4 DEF HearEof, TypeOK, KernelOK
  <2> QED BY <2>1, <2>2, <2>3, <2>4 DEF ProcessStep
<1>2. UNCHANGED <<disk, pc, todo, locals, history>>
  BY DEF ProcessStep, HearEof, ChildRun, ChildFail, InnerExit, OuterExit, Deliver
<1> QED BY <1>1, <1>2, SameOK DEF TypeOK

\* Every step is one of these.
LEMMA NextCases ==
  ASSUME Next
  PROVE  \/ \E k \in Clients : Begin(k)
         \/ \E k \in Actors : Step(k)
         \/ \E k \in Actors : Crash(k)
         \/ \E p \in Pids : ProcessStep(p)
BY DEF Next, ProcessStep

LEMMA InitOK == Init => TypeOK
<1> SUFFICES ASSUME Init PROVE TypeOK
  OBVIOUS
<1>1. DiskOK
  BY DEF Init, DiskOK, NoRecord, FileStates
<1>2. KernelOK
  BY DEF Init, KernelOK
<1>3. pc \in [Actors -> PCs] /\ tgt \in [Actors -> Pids \cup {NoPid}]
  BY DEF Init, PCs
<1>4. todo \in [Actors -> Seq(Methods)]
  BY EmptySeq DEF Init
<1>5. val \in [Actors -> [st : Readable, pid : Pids \cup {NoPid}]]
  BY NoValOK DEF Init
<1>6. entries \in [Actors -> SUBSET Entries]
  BY DEF Init
<1> QED BY <1>1, <1>2, <1>3, <1>4, <1>5, <1>6 DEF Init, TypeOK, ControlOK, HistoryOK

LEMMA TypeStep == TypeOK /\ [Next]_vars => TypeOK'
<1> SUFFICES ASSUME TypeOK, [Next]_vars PROVE TypeOK'
  OBVIOUS
<1>1. CASE Next
  BY <1>1, NextCases, BeginOK, StepOK, CrashOK, ProcessOK
<1>2. CASE UNCHANGED vars
  BY <1>2, SameOK DEF vars, TypeOK
<1> QED BY <1>1, <1>2

\* Every variable keeps its type: in particular state.json never holds anything
\* but one of the three states the code writes, or a torn text.
THEOREM TypeCorrect == Spec => []TypeOK
BY InitOK, TypeStep, PTL DEF Spec

------------------------------------------------------------------------------
\* PublishedPidsStarted.  Inductive with it: the pids on their way into the
\* record have been through the handshake, too; and of a start that is still at
\* its handshake, the process is not yet released, and is nobody else's - so
\* that no crash can cut off a process that another start has released.

HandshakeInv ==
  /\ PublishedPidsStarted
  /\ \A k \in Actors : val[k].pid # NoPid => gate[val[k].pid] = "open"
  /\ \A k \in Actors : At(k, "maps") =>
       /\ tgt[k] \in Pids
       /\ parent[tgt[k]] = k /\ outer[tgt[k]] # "unborn" /\ gate[tgt[k]] = "closed"
  /\ \A p \in Pids : outer[p] = "unborn" => gate[p] = "closed"

\* What all actions have in common but those of the handshake: nobody enters
\* it, and the pids that actors are about to write come from the record.
CalmControl(k) ==
  /\ \A j \in Actors : pc'[j] = "maps" => j # k /\ pc[j] = "maps" /\ tgt'[j] = tgt[j]
  /\ \A j \in Actors : val'[j].pid \in {val[j].pid, record.pid, NoPid}

CalmKernel(k) ==
  /\ gate' = gate
  /\ \A p \in Pids : /\ outer'[p] = "unborn" <=> outer[p] = "unborn"
                     /\ parent'[p] = parent[p] \/ parent[p] = k

CalmRecord == record'.pid \in {record.pid, NoPid} \cup {val[j].pid : j \in Actors}

LEMMA CalmStep ==
  ASSUME TypeOK, TypeOK', HandshakeInv, NEW k,
         CalmControl(k), CalmKernel(k), CalmRecord
  PROVE  HandshakeInv'
<1>1. PublishedPidsStarted'
  BY DEF CalmRecord, CalmKernel, HandshakeInv, PublishedPidsStarted
<1>2. ASSUME NEW j \in Actors, val'[j].pid # NoPid
      PROVE  gate'[val'[j].pid] = "open"
  BY <1>2 DEF CalmControl, CalmKernel, HandshakeInv, PublishedPidsStarted
<1>3. ASSUME NEW j \in Actors, pc'[j] = "maps"
      PROVE  /\ tgt'[j] \in Pids
             /\ parent'[tgt'[j]] = j /\ outer'[tgt'[j]] # "unborn" /\ gate'[tgt'[j]] = "closed"
  BY <1>3 DEF CalmControl, CalmKernel, HandshakeInv, At
<1>4. ASSUME NEW p \in Pids, outer'[p] = "unborn"
      PROVE  gate'[p] = "closed"
  BY <1>4 DEF CalmKernel, HandshakeInv
<1> QED BY <1>1, <1>2, <1>3, <1>4 DEF HandshakeInv, At

LEMMA SameKernelCalm ==
  ASSUME UNCHANGED kernel, NEW k
  PROVE  CalmKernel(k)
BY DEF kernel, CalmKernel

LEMMA SameDiskCalm == UNCHANGED disk => CalmRecord
BY DEF disk, CalmRecord

LEMMA GotoCalm ==
  ASSUME TypeOK, NEW k \in Actors, NEW label, label # "maps", Goto(k, label)
  PROVE  CalmControl(k)
BY DEF TypeOK, ControlOK, Goto, locals, CalmControl

LEMMA AimCalm ==
  ASSUME TypeOK, NEW k \in Actors, NEW label, label # "maps", NEW p, Aim(k, label, p)
  PROVE  CalmControl(k)
BY DEF TypeOK, ControlOK, Aim, CalmControl

LEMMA WriteCalm ==
  ASSUME TypeOK, NEW k \in Actors, NEW label, label # "maps", NEW r,
         r.pid \in {val[k].pid, record.pid, NoPid}, Write(k, label, r)
  PROVE  CalmControl(k)
BY DEF TypeOK, ControlOK, Write, CalmControl

LEMMA UnlinkCalm ==
  ASSUME TypeOK, NEW k \in Actors, NEW es, Unlink(k, es)
  PROVE  CalmControl(k)
BY DEF TypeOK, ControlOK, Unlink, CalmControl

LEMMA NoValPid == NoVal.pid = NoPid
BY DEF NoVal, Record

LEMMA IdleCalm ==
  ASSUME TypeOK, NEW k \in Actors, Idle(k)
  PROVE  CalmControl(k)
BY NoValPid DEF TypeOK, ControlOK, Idle, CalmControl

LEMMA OrphanCalm ==
  ASSUME TypeOK, NEW k \in Actors, Orphan(k), gate' = gate
  PROVE  CalmKernel(k)
BY DEF TypeOK, KernelOK, Orphan, CalmKernel

LEMMA EndCalm ==
  ASSUME TypeOK, NEW k \in Actors, End(k)
  PROVE  CalmControl(k) /\ CalmKernel(k)
<1>1. CalmControl(k)
  BY IdleCalm DEF End
<1>2. CASE OneShot
  BY <1>1, <1>2, OrphanCalm DEF End
<1>3. CASE ~OneShot
  BY <1>1, <1>3, SameKernelCalm DEF End
<1> QED BY <1>2, <1>3

LEMMA NoMethodIsMaps == "maps" \notin Methods
BY DEF Methods

LEMMA ReturnCalm ==
  ASSUME TypeOK, NEW k \in Actors, Return(k)
  PROVE  CalmControl(k) /\ CalmKernel(k)
<1>1. CASE End(k)
  BY <1>1, EndCalm
<1>2. CASE /\ todo[k] # <<>>
           /\ pc' = [pc EXCEPT ![k] = Head(todo[k])]
           /\ val' = [val EXCEPT ![k] = NoVal]
           /\ UNCHANGED <<kernel, tgt>>
  <2>1. Head(todo[k]) # "maps"
    <3>1. todo[k] \in Seq(Methods)
      BY DEF TypeOK, ControlOK
    <3>2. Head(todo[k]) \in Methods
      BY <1>2, <3>1
    <3> QED BY <3>2, NoMethodIsMaps
  <2>2. CalmControl(k)
    BY <1>2, <2>1, NoValPid DEF TypeOK, ControlOK, CalmControl
  <2> QED BY <1>2, <2>2, SameKernelCalm
<1> QED BY <1>1, <1>2 DEF Return

LEMMA WaitpidCalm ==
  ASSUME TypeOK, NEW k, NEW p, Waitpid(k, p)
  PROVE  CalmKernel(k)
BY SameKernelCalm DEF TypeOK, KernelOK, Waitpid, Child, CalmKernel

LEMMA SetStoppedCalm ==
  ASSUME TypeOK, NEW k \in Actors, SetStopped(k)
  PROVE  CalmControl(k)
<1>1. Record("stopped", NoPid).pid = NoPid
  BY DEF Record
<1> QED BY <1>1, WriteCalm DEF SetStopped

LEMMA UnreadableCalm ==
  ASSUME TypeOK, NEW k \in Actors, Unreadable(k)
  PROVE  CalmControl(k) /\ CalmKernel(k) /\ CalmRecord
BY EndCalm, SameDiskCalm DEF Unreadable

LEMMA CalmSteps ==
  ASSUME TypeOK, NEW k \in Actors, Step(k), ~Fork(k), ~SendMaps(k)
  PROVE  CalmControl(k) /\ CalmKernel(k) /\ CalmRecord
<1>0. Record("stopped", NoPid).pid = NoPid /\ Record("created", NoPid).pid = NoPid
      /\ Record("garbage", NoPid).pid = NoPid /\ Record("empty", NoPid).pid = NoPid
      /\ NoRecord.pid = NoPid
  BY DEF Record, NoRecord
<1>1. CASE Update(k)
  <2>1. CASE Unreadable(k)
    BY <2>1, UnreadableCalm
  <2>2. CASE /\ Write(k, "truncate", IF At(k, "set_state") THEN Record(val[k].st, record.pid)
                                     ELSE val[k])
             /\ UNCHANGED <<disk, kernel, history>>
    <3>1. Record(val[k].st, record.pid).pid = record.pid
      BY DEF Record
    <3>2. CalmControl(k)
      BY <2>2, <3>1, WriteCalm
    <3> QED BY <2>2, <3>2, SameKernelCalm, SameDiskCalm
  <2> QED BY <1>1, <2>1, <2>2 DEF Update
<1>2. CASE Truncate(k)
  <2>1. CASE record' = Record("empty", NoPid) /\ Goto(k, "fill") /\ UNCHANGED kernel
    BY <1>0, <2>1, GotoCalm, SameKernelCalm DEF CalmRecord
  <2>2. CASE End(k) /\ UNCHANGED disk
    BY <2>2, EndCalm, SameDiskCalm
  <2> QED BY <1>2, <2>1, <2>2 DEF Truncate, kernel
<1>3. CASE Fill(k)
  <2>1. record' \in {val[k], Record("garbage", NoPid), record}
    BY <1>3 DEF Fill
  <2>2. CalmRecord
    BY <1>0, <2>1 DEF CalmRecord
  <2> QED BY <1>3, <2>2, ReturnCalm DEF Fill
<1>4. CASE Create(k)
  <2>1. CASE CreateStorage(k)
    BY <2>1, GotoCalm, EndCalm, SameKernelCalm DEF CreateStorage, CalmRecord
  <2>2. CASE CreateConfig(k)
    BY <1>0, <2>2, WriteCalm, SameKernelCalm DEF CreateConfig, CalmRecord
  <2>3. CASE CreateOther(k)
    BY <2>3, EndCalm, SameDiskCalm DEF CreateOther
  <2> QED BY <1>4, <2>1, <2>2, <2>3 DEF Create
<1>5. CASE Start(k)
  <2>1. CASE StartCheck(k)
    BY <2>1, GotoCalm, EndCalm, SameKernelCalm, SameDiskCalm DEF StartCheck
  <2>2. CASE ForkFails(k)
    BY <2>2, EndCalm DEF ForkFails, CalmRecord
  <2> QED BY <1>5, <2>1, <2>2 DEF Start
<1>6. CASE Wait(k)
  <2>1. CASE WaitGet(k)
    BY <2>1, UnreadableCalm, AimCalm, EndCalm, SameKernelCalm, SameDiskCalm DEF WaitGet
  <2>2. CASE WaitPid(k)
    BY <1>0, <2>2, WaitpidCalm, WriteCalm, SameDiskCalm DEF WaitPid
  <2> QED BY <1>6, <2>1, <2>2 DEF Wait
<1>7. CASE Watch(k)
  <2>1. CASE SpawnWatcher(k)
    <3>1. CalmControl(k)
      BY <2>1 DEF SpawnWatcher, CalmControl, TypeOK, ControlOK
    <3> QED BY <2>1, <3>1, OrphanCalm, SameDiskCalm DEF SpawnWatcher
  <2>2. CASE WatchGet(k)
    BY <2>2, UnreadableCalm, AimCalm, ReturnCalm, SameKernelCalm, SameDiskCalm DEF WatchGet
  <2>3. CASE WatchPoll(k)
    BY <1>0, <2>3, WriteCalm, SameKernelCalm, SameDiskCalm DEF WatchPoll
  <2> QED BY <1>7, <2>1, <2>2, <2>3 DEF Watch
<1>8. CASE Stop(k)
  <2>1. CASE StopCheck(k)
    BY <2>1, UnreadableCalm, AimCalm, ReturnCalm, SameKernelCalm, SameDiskCalm DEF StopCheck
  <2>2. CASE StopKill(k) \/ StopTimeout(k)
    <3>1. CalmControl(k)
      BY <2>2, GotoCalm, SetStoppedCalm DEF StopKill, StopTimeout
    <3>2. CalmKernel(k) /\ UNCHANGED disk
      BY <2>2 DEF StopKill, StopTimeout, CalmKernel
    <3> QED BY <3>1, <3>2, SameDiskCalm
  <2>3. CASE StopPoll(k) \/ StopReap(k)
    BY <2>3, WaitpidCalm, SetStoppedCalm, SameDiskCalm DEF StopPoll, StopReap
  <2> QED BY <1>8, <2>1, <2>2, <2>3 DEF Stop
<1>9. CASE Remove(k)
  <2>1. CASE RemoveCheck(k)
    BY <2>1, UnreadableCalm, EndCalm, GotoCalm, SameKernelCalm, SameDiskCalm DEF RemoveCheck
  <2>2. CASE Unmount(k)
    BY <2>2, GotoCalm, SameKernelCalm DEF Unmount, CalmRecord
  <2>3. CASE DeleteCgroup(k)
    BY <2>3, GotoCalm, SameKernelCalm DEF DeleteCgroup, CalmRecord
  <2>4. CASE RmtreeScan(k)
    BY <2>4, UnlinkCalm, ReturnCalm, SameKernelCalm, SameDiskCalm DEF RmtreeScan
  <2>5. CASE UnlinkConfig(k)
    BY <2>5, UnlinkCalm, EndCalm, SameKernelCalm DEF UnlinkConfig, CalmRecord
  <2>6. CASE UnlinkRecord(k)
    BY <1>0, <2>6, UnlinkCalm, EndCalm, SameKernelCalm DEF UnlinkRecord, CalmRecord
  <2>7. CASE Rmdir(k)
    BY <2>7, ReturnCalm, EndCalm DEF Rmdir, CalmRecord
  <2> QED BY <1>9, <2>1, <2>2, <2>3, <2>4, <2>5, <2>6, <2>7 DEF Remove
<1>10. CASE Recover(k)
  BY <1>10, SetStoppedCalm, EndCalm, SameKernelCalm, SameDiskCalm DEF Recover
<1> QED BY <1>1, <1>2, <1>3, <1>4, <1>5, <1>6, <1>7, <1>8, <1>9, <1>10 DEF Step

LEMMA ForkHandshake ==
  ASSUME TypeOK, TypeOK', HandshakeInv, NEW k \in Actors, Fork(k)
  PROVE  HandshakeInv'
<1>1. PICK p \in Pids :
        /\ outer[p] = "unborn"
        /\ Aim(k, "maps", p)
        /\ outer' = [outer EXCEPT ![p] = "alive"]
        /\ parent' = [parent EXCEPT ![p] = k]
  BY DEF Fork
<1>2. UNCHANGED <<record, gate, val>>
  BY <1>1 DEF Fork, Aim
<1>3. PublishedPidsStarted' /\ (\A j \in Actors : val'[j].pid # NoPid => gate'[val'[j].pid] = "open")
  BY <1>2 DEF HandshakeInv, PublishedPidsStarted
<1>4. ASSUME NEW j \in Actors, pc'[j] = "maps"
      PROVE  /\ tgt'[j] \in Pids
             /\ parent'[tgt'[j]] = j /\ outer'[tgt'[j]] # "unborn" /\ gate'[tgt'[j]] = "closed"
  <2>1. CASE j = k
    <3>1. tgt'[j] = p
      BY <1>1, <2>1 DEF Aim, TypeOK, ControlOK
    <3> QED BY <1>1, <1>2, <2>1, <3>1 DEF HandshakeInv, TypeOK, KernelOK
  <2>2. CASE j # k
    <3>1. pc[j] = "maps" /\ tgt'[j] = tgt[j]
      BY <1>1, <1>4, <2>2 DEF Aim, TypeOK, ControlOK
    <3>2. tgt[j] # p
      BY <1>1, <3>1 DEF HandshakeInv, At
    <3> QED BY <1>1, <1>2, <3>1, <3>2 DEF HandshakeInv, At, TypeOK, KernelOK
  <2> QED BY <2>1, <2>2
<1>5. \A q \in Pids : outer'[q] = "unborn" => gate'[q] = "closed"
  BY <1>1, <1>2 DEF HandshakeInv, TypeOK, KernelOK
<1> QED BY <1>3, <1>4, <1>5 DEF HandshakeInv, At

LEMMA SendMapsHandshake ==
  ASSUME TypeOK, TypeOK', HandshakeInv, NEW k \in Actors, SendMaps(k)
  PROVE  HandshakeInv'
<1>1. CASE End(k) /\ UNCHANGED disk
  BY <1>1, EndCalm, SameDiskCalm, CalmStep
<1>2. CASE /\ gate' = [gate EXCEPT ![tgt[k]] = "open"]
           /\ Write(k, "update", Record("running", tgt[k]))
           /\ UNCHANGED <<disk, outer, parent>>
  <2>1. At(k, "maps") /\ tgt[k] \in Pids
    BY DEF SendMaps, HandshakeInv
  <2>2. gate'[tgt[k]] = "open" /\ (\A p \in Pids : p # tgt[k] => gate'[p] = gate[p])
    BY <1>2, <2>1 DEF TypeOK, KernelOK
  <2>3. PublishedPidsStarted'
    BY <1>2, <2>2 DEF disk, HandshakeInv, PublishedPidsStarted, TypeOK, DiskOK
  <2>4. ASSUME NEW j \in Actors, val'[j].pid # NoPid
        PROVE  gate'[val'[j].pid] = "open"
    <3>1. CASE j = k
      <4>1. val'[j].pid = tgt[k]
        BY <1>2, <3>1 DEF Write, Record, TypeOK, ControlOK
      <4> QED BY <2>2, <4>1
    <3>2. CASE j # k
      <4>1. val'[j] = val[j] /\ val[j].pid \in Pids \cup {NoPid}
        BY <1>2, <3>2 DEF Write, TypeOK, ControlOK
      <4> QED BY <2>2, <2>4, <4>1 DEF HandshakeInv
    <3> QED BY <3>1, <3>2
  <2>5. ASSUME NEW j \in Actors, pc'[j] = "maps"
        PROVE  /\ tgt'[j] \in Pids
               /\ parent'[tgt'[j]] = j /\ outer'[tgt'[j]] # "unborn" /\ gate'[tgt'[j]] = "closed"
    <3>1. j # k /\ pc[j] = "maps" /\ tgt'[j] = tgt[j]
      BY <1>2, <2>5 DEF Write, TypeOK, ControlOK
    <3>2. tgt[j] # tgt[k]
      BY <2>1, <3>1 DEF HandshakeInv, At
    <3> QED BY <1>2, <2>2, <3>1, <3>2 DEF HandshakeInv, At
  <2>6. ASSUME NEW p \in Pids, outer'[p] = "unborn"
        PROVE  gate'[p] = "closed"
    <3>1. p # tgt[k]
      BY <1>2, <2>1, <2>6 DEF HandshakeInv
    <3> QED BY <1>2, <2>2, <2>6, <3>1 DEF HandshakeInv
  <2> QED BY <2>3, <2>4, <2>5, <2>6 DEF HandshakeInv, At
<1> QED BY <1>1, <1>2 DEF SendMaps

LEMMA CrashHandshake ==
  ASSUME TypeOK, TypeOK', HandshakeInv, NEW k \in Actors, Crash(k)
  PROVE  HandshakeInv'
<1>1. CalmControl(k) /\ CalmRecord
  BY IdleCalm DEF Crash, CalmRecord
<1> QED BY <1>1, OrphanCalm, CalmStep DEF Crash

LEMMA InitProcIsNoActor == InitProc \notin Actors
BY ConstantFacts DEF Actors, Pids, InitProc

\* The pipe of a child whose parent has gone is the pipe of no handshake.
LEMMA HearEofHandshake ==
  ASSUME TypeOK, TypeOK', HandshakeInv, NEW p \in Pids, HearEof(p)
  PROVE  HandshakeInv'
<1>1. /\ outer[p] = "alive" /\ gate[p] = "closed" /\ parent[p] = InitProc
      /\ UNCHANGED <<record, outer, parent, pc, tgt, val>>
  BY DEF HearEof, disk, locals
<1>2. \A q \in Pids : q # p => gate'[q] = gate[q]
  BY DEF HearEof, TypeOK, KernelOK
<1>3. \A q \in Pids : gate[q] = "open" => gate'[q] = "open"
  BY <1>1, <1>2
<1>4. PublishedPidsStarted' /\ (\A j \in Actors : val'[j].pid # NoPid => gate'[val'[j].pid] = "open")
  BY <1>1, <1>3 DEF HandshakeInv, PublishedPidsStarted, TypeOK, DiskOK, ControlOK
<1>5. ASSUME NEW j \in Actors, pc'[j] = "maps"
      PROVE  /\ tgt'[j] \in Pids
             /\ parent'[tgt'[j]] = j /\ outer'[tgt'[j]] # "unborn" /\ gate'[tgt'[j]] = "closed"
  <2>1. /\ tgt[j] \in Pids
        /\ parent[tgt[j]] = j /\ outer[tgt[j]] # "unborn" /\ gate[tgt[j]] = "closed"
    BY <1>1, <1>5 DEF HandshakeInv, At
  <2>2. tgt[j] # p
    BY <1>1, <2>1, InitProcIsNoActor
  <2> QED BY <1>1, <1>2, <2>1, <2>2
<1>6. \A q \in Pids : outer'[q] = "unborn" => gate'[q] = "closed"
  BY <1>1, <1>2 DEF HandshakeInv
<1> QED BY <1>4, <1>5, <1>6 DEF HandshakeInv, At

LEMMA HandshakeStep == TypeOK /\ HandshakeInv /\ [Next]_vars => HandshakeInv'
<1> SUFFICES ASSUME TypeOK, HandshakeInv, [Next]_vars PROVE HandshakeInv'
  OBVIOUS
<1>0. TypeOK'
  BY TypeStep
<1>1. ASSUME NEW k \in Clients, Begin(k)
      PROVE  HandshakeInv'
  <2>1. PICK c \in Commands : pc' = [pc EXCEPT ![k] = Head(c)]
    BY <1>1 DEF Begin
  <2>2. Head(c) # "maps"
    <3>1. c \in Seq(Methods) /\ c # <<>>
      BY ConstantFacts
    <3>2. Head(c) \in Methods
      BY <3>1
    <3> QED BY <3>2, NoMethodIsMaps
  <2>3. CalmControl(k)
    BY <1>1, <2>1, <2>2 DEF Begin, locals, CalmControl, TypeOK, ControlOK
  <2> QED BY <1>0, <1>1, <2>3, SameKernelCalm, SameDiskCalm, CalmStep DEF Begin
<1>2. ASSUME NEW k \in Actors, Step(k)
      PROVE  HandshakeInv'
  BY <1>0, <1>2, CalmSteps, CalmStep, ForkHandshake, SendMapsHandshake
<1>3. ASSUME NEW k \in Actors, Crash(k)
      PROVE  HandshakeInv'
  BY <1>0, <1>3, CrashHandshake
<1>4. ASSUME UNCHANGED <<pc, todo, locals>>
      PROVE  CalmControl(InitProc)
  BY <1>4, InitProcIsNoActor DEF locals, CalmControl
<1>5. ASSUME NEW p \in Pids, ProcessStep(p), ~HearEof(p)
      PROVE  HandshakeInv'
  <2>1. UNCHANGED <<disk, pc, todo, locals>>
    BY <1>5 DEF ProcessStep, ChildRun, ChildFail, InnerExit, OuterExit, Deliver
  <2>2. CalmKernel(InitProc)
    BY <1>5 DEF ProcessStep, ChildRun, ChildFail, InnerExit, OuterExit, Deliver, Dies,
                CalmKernel, TypeOK, KernelOK
  <2>3. CalmControl(InitProc)
    BY <1>4, <2>1
  <2> QED BY <1>0, <2>1, <2>2, <2>3, SameDiskCalm, CalmStep
<1>6. CASE UNCHANGED vars
  <2>1. UNCHANGED <<disk, kernel, pc, todo, locals>>
    BY <1>6 DEF vars
  <2>2. CalmControl(InitProc)
    BY <1>4, <2>1
  <2> QED BY <1>0, <2>1, <2>2, SameKernelCalm, SameDiskCalm, CalmStep
<1> QED BY <1>0, <1>1, <1>2, <1>3, <1>5, <1>6, HearEofHandshake, NextCases

LEMMA HandshakeInit == Init => HandshakeInv
<1> SUFFICES ASSUME Init PROVE HandshakeInv
  OBVIOUS
<1>1. record.pid = NoPid
  BY DEF Init, NoRecord
<1>2. \A k \in Actors : val[k].pid = NoPid /\ pc[k] = "idle"
  BY NoValPid DEF Init
<1>3. \A p \in Pids : gate[p] = "closed"
  BY DEF Init
<1> QED BY <1>1, <1>2, <1>3 DEF HandshakeInv, PublishedPidsStarted, At

\* start() publishes a pid only after the handshake: whatever the commands,
\* their interleaving and their crashes, the process named in state.json is
\* one whose parent has released it.
THEOREM PublishedPidsAlwaysStarted == Spec => []PublishedPidsStarted
<1>1. TypeOK /\ HandshakeInv /\ [Next]_vars => TypeOK' /\ HandshakeInv'
  BY TypeStep, HandshakeStep
<1>2. HandshakeInv => PublishedPidsStarted
  BY DEF HandshakeInv
<1> QED BY InitOK, HandshakeInit, <1>1, <1>2, PTL DEF Spec

------------------------------------------------------------------------------
\* PublishedIsComplete.  Inductive with it: until the first remove() has passed
\* its check nobody takes the container apart, and whoever is about to write a
\* record has all of the container before him.

Whole == dir /\ mounted /\ config
Demolition == {"unmount", "cgroup", "rmtree", "unlink"}

CompleteInv ==
  ~removing =>
    /\ record.st # "absent" => Whole
    /\ \A k \in Actors : pc[k] \in {"truncate", "fill"} => Whole
    /\ \A k \in Actors : pc[k] = "config" => dir /\ mounted
    /\ \A k \in Actors : pc[k] \notin Demolition

\* An actor that leaves the disk alone and goes to no label of these.
Labels == {"truncate", "fill", "config"} \cup Demolition
Harmless == \A j \in Actors : pc'[j] = pc[j] \/ pc'[j] \notin Labels

LEMMA HarmlessStep ==
  ASSUME CompleteInv, Harmless, UNCHANGED <<record, config, dir, mounted>>, removing' = removing
  PROVE  CompleteInv'
BY DEF CompleteInv, Harmless, Labels, Demolition, Whole

LEMMA MethodsAreHarmless == Methods \cap Labels = {}
BY DEF Methods, Labels, Demolition

LEMMA GotoHarmless ==
  ASSUME TypeOK, NEW k \in Actors, NEW label, label \notin Labels,
         pc' = [pc EXCEPT ![k] = label]
  PROVE  Harmless
BY DEF Harmless, TypeOK, ControlOK

LEMMA EndHarmless ==
  ASSUME TypeOK, NEW k \in Actors, Idle(k) \/ End(k)
  PROVE  Harmless
<1>1. "idle" \notin Labels
  BY DEF Labels, Demolition
<1> QED BY <1>1, GotoHarmless DEF End, Idle

LEMMA ReturnHarmless ==
  ASSUME TypeOK, NEW k \in Actors, Return(k)
  PROVE  Harmless
<1>1. CASE End(k)
  BY <1>1, EndHarmless
<1>2. CASE todo[k] # <<>> /\ pc' = [pc EXCEPT ![k] = Head(todo[k])]
  <2>1. todo[k] \in Seq(Methods)
    BY DEF TypeOK, ControlOK
  <2>2. Head(todo[k]) \in Methods
    BY <1>2, <2>1
  <2> QED BY <1>2, <2>2, MethodsAreHarmless, GotoHarmless
<1> QED BY <1>1, <1>2 DEF Return

\* The steps of a method that neither write to the directory nor remove it.
LEMMA HarmlessSteps ==
  ASSUME TypeOK, NEW k \in Actors, Start(k) \/ Wait(k) \/ Watch(k) \/ Stop(k) \/ Recover(k)
  PROVE  Harmless /\ UNCHANGED <<record, config, dir, mounted, removing>>
<1>0. \A label \in {"fork", "maps", "update", "set_state", "waitpid", "alive?", "kill",
                  "poll", "reap", "idle", "watch"} : label \notin Labels
  BY DEF Labels, Demolition
<1>1. CASE Start(k)
  <2>1. Harmless
    BY <1>0, <1>1, GotoHarmless, EndHarmless
       DEF Start, StartCheck, Fork, ForkFails, SendMaps, Goto, Aim, Write
  <2> QED BY <1>1, <2>1 DEF Start, StartCheck, Fork, ForkFails, SendMaps, disk, history
<1>2. CASE Wait(k)
  <2>1. Harmless
    BY <1>0, <1>2, GotoHarmless, EndHarmless DEF Wait, WaitGet, WaitPid, Unreadable, Aim, Write
  <2> QED BY <1>2, <2>1 DEF Wait, WaitGet, WaitPid, Unreadable, disk, history
<1>3. CASE Watch(k)
  <2>1. CASE SpawnWatcher(k)
    BY <1>0, <2>1 DEF SpawnWatcher, Harmless, TypeOK, ControlOK, disk, history
  <2>2. CASE WatchGet(k)
    <3>1. Harmless
      BY <1>0, <2>2, GotoHarmless, EndHarmless, ReturnHarmless DEF WatchGet, Unreadable, Aim
    <3> QED BY <2>2, <3>1 DEF WatchGet, Unreadable, disk, history
  <2>3. CASE WatchPoll(k)
    BY <1>0, <2>3, GotoHarmless DEF WatchPoll, Write, disk, history
  <2> QED BY <1>3, <2>1, <2>2, <2>3 DEF Watch
<1>4. CASE Stop(k)
  <2>1. Harmless
    BY <1>0, <1>4, GotoHarmless, EndHarmless, ReturnHarmless
       DEF Stop, StopCheck, StopKill, StopPoll, StopTimeout, StopReap, Unreadable, SetStopped,
           Goto, Aim, Write
  <2> QED BY <1>4, <2>1 DEF Stop, StopCheck, StopKill, StopPoll, StopTimeout, StopReap,
                            Unreadable, disk, history
<1>5. CASE Recover(k)
  BY <1>0, <1>5, GotoHarmless, EndHarmless DEF Recover, SetStopped, Write, disk, history
<1> QED BY <1>1, <1>2, <1>3, <1>4, <1>5

LEMMA WritesComplete ==
  ASSUME TypeOK, CompleteInv, NEW k \in Actors, Update(k) \/ Truncate(k) \/ Fill(k)
  PROVE  CompleteInv'
<1>0. UNCHANGED <<config, dir, mounted, removing>>
  BY DEF Update, Truncate, Fill, Unreadable, disk, history
<1>1. CASE Update(k)
  <2>1. CASE Unreadable(k)
    BY <2>1, <1>0, EndHarmless, HarmlessStep DEF Unreadable, disk
  <2>2. CASE record.st \in Readable /\ pc' = [pc EXCEPT ![k] = "truncate"] /\ UNCHANGED disk
    <3>1. ~removing => Whole
      BY <2>2 DEF CompleteInv, Readable
    <3> QED BY <1>0, <2>2, <3>1 DEF CompleteInv, Whole, Demolition, disk, TypeOK, ControlOK
  <2> QED BY <1>1, <2>1, <2>2 DEF Update, Write
<1>2. CASE Truncate(k)
  <2>1. ~removing => Whole
    BY <1>2 DEF Truncate, At, CompleteInv
  <2>2. CASE pc' = [pc EXCEPT ![k] = "fill"]
    BY <1>0, <2>1, <2>2 DEF CompleteInv, Whole, Demolition, TypeOK, ControlOK
  <2>3. CASE End(k) /\ UNCHANGED disk
    BY <1>0, <2>3, EndHarmless, HarmlessStep DEF disk
  <2> QED BY <1>2, <2>2, <2>3 DEF Truncate, Goto
<1>3. CASE Fill(k)
  <2>1. ~removing => Whole
    BY <1>3 DEF Fill, At, CompleteInv
  <2>2. Harmless
    BY <1>3, ReturnHarmless DEF Fill
  <2> QED BY <1>0, <2>1, <2>2 DEF CompleteInv, Harmless, Labels, Whole, Demolition
<1> QED BY <1>1, <1>2, <1>3

LEMMA CreateComplete ==
  ASSUME TypeOK, CompleteInv, NEW k \in Actors, Create(k)
  PROVE  CompleteInv'
<1>1. CASE CreateStorage(k)
  <2>1. UNCHANGED <<record, config, removing>> /\ dir' = TRUE /\ (mounted => mounted')
    BY <1>1 DEF CreateStorage, TypeOK, DiskOK
  <2>2. CASE mounted' = TRUE /\ Goto(k, "config")
    BY <2>1, <2>2 DEF Goto, CompleteInv, Whole, Demolition, TypeOK, ControlOK
  <2>3. CASE End(k)
    BY <2>1, <2>3, EndHarmless DEF Harmless, Labels, CompleteInv, Whole, Demolition
  <2> QED BY <1>1, <2>2, <2>3 DEF CreateStorage
<1>2. CASE CreateConfig(k)
  <2>1. UNCHANGED <<record, dir, mounted, removing>> /\ config' = TRUE
        /\ pc' = [pc EXCEPT ![k] = "truncate"]
    BY <1>2 DEF CreateConfig, Write, history
  <2>2. ~removing => dir /\ mounted
    BY <1>2 DEF CreateConfig, At, CompleteInv
  <2> QED BY <2>1, <2>2 DEF CompleteInv, Whole, Demolition, TypeOK, ControlOK
<1>3. CASE CreateOther(k)
  BY <1>3, EndHarmless, HarmlessStep DEF CreateOther, disk, history
<1> QED BY <1>1, <1>2, <1>3 DEF Create

LEMMA RemoveComplete ==
  ASSUME TypeOK, CompleteInv, NEW k \in Actors, Remove(k)
  PROVE  CompleteInv'
<1>1. CASE RemoveCheck(k)
  <2>1. CASE removing' = TRUE
    BY <2>1 DEF CompleteInv
  <2>2. CASE End(k) /\ UNCHANGED <<disk, history>>
    BY <2>2, EndHarmless, HarmlessStep DEF disk, history
  <2> QED BY <1>1, <2>1, <2>2 DEF RemoveCheck, Unreadable
<1>2. CASE ~RemoveCheck(k)
  <2>1. pc[k] \in Demolition /\ removing' = removing
    BY <1>2 DEF Remove, Unmount, DeleteCgroup, RmtreeScan, UnlinkConfig, UnlinkRecord, Rmdir,
                At, Demolition, history
  <2>2. removing
    BY <2>1 DEF CompleteInv
  <2> QED BY <2>1, <2>2 DEF CompleteInv
<1> QED BY <1>1, <1>2

LEMMA CompleteStep == TypeOK /\ CompleteInv /\ [Next]_vars => CompleteInv'
<1> SUFFICES ASSUME TypeOK, CompleteInv, [Next]_vars PROVE CompleteInv'
  OBVIOUS
<1>1. ASSUME NEW k \in Clients, Begin(k)
      PROVE  CompleteInv'
  <2>1. PICK c \in Commands : pc' = [pc EXCEPT ![k] = Head(c)]
    BY <1>1 DEF Begin
  <2>2. Head(c) \notin Labels
    <3>1. c \in Seq(Methods) /\ c # <<>>
      BY ConstantFacts
    <3>2. Head(c) \in Methods
      BY <3>1
    <3> QED BY <3>2, MethodsAreHarmless
  <2>3. Harmless
    BY <2>1, <2>2, GotoHarmless DEF Actors
  <2> QED BY <1>1, <2>3, HarmlessStep DEF Begin, disk, history
<1>2. ASSUME NEW k \in Actors, Step(k)
      PROVE  CompleteInv'
  BY <1>2, WritesComplete, CreateComplete, RemoveComplete, HarmlessSteps, HarmlessStep DEF Step
<1>3. ASSUME NEW k \in Actors, Crash(k)
      PROVE  CompleteInv'
  BY <1>3, EndHarmless, HarmlessStep DEF Crash, history
<1>4. ASSUME UNCHANGED <<disk, pc, history>>
      PROVE  CompleteInv'
  BY <1>4, HarmlessStep DEF Harmless, disk, history
<1>5. ASSUME NEW p \in Pids, ProcessStep(p)
      PROVE  CompleteInv'
  BY <1>4, <1>5 DEF ProcessStep, HearEof, ChildRun, ChildFail, InnerExit, OuterExit, Deliver
<1>6. CASE UNCHANGED vars
  BY <1>4, <1>6 DEF vars
<1> QED BY <1>1, <1>2, <1>3, <1>5, <1>6, NextCases

\* create() writes the record last, and nothing but remove() undoes what comes
\* before it: a readable record stands for a container that can be started.
THEOREM PublishedAlwaysComplete == Spec => []PublishedIsComplete
<1>1. Init => CompleteInv
  BY DEF Init, CompleteInv, NoRecord, Demolition
<1>2. CompleteInv => PublishedIsComplete
  BY DEF CompleteInv, PublishedIsComplete, Readable, Whole
<1>3. TypeOK /\ CompleteInv /\ [Next]_vars => TypeOK' /\ CompleteInv'
  BY TypeStep, CompleteStep
<1> QED BY InitOK, <1>1, <1>2, <1>3, PTL DEF Spec

\* No late command brings back a directory that was removed.
THEOREM RemovedAlwaysStays == Spec => RemovedStaysRemoved
<1>1. ASSUME NEW k \in Actors, Step(k), born, ~dir
      PROVE  ~dir'
  <2>1. CASE Create(k)
    BY <1>1, <2>1 DEF Create, CreateStorage, CreateConfig, CreateOther, disk
  <2>2. CASE Update(k) \/ Truncate(k) \/ Fill(k) \/ Recover(k)
    BY <1>1, <2>2 DEF Update, Unreadable, Truncate, Fill, Recover, disk
  <2>3. CASE Start(k) \/ Wait(k) \/ Watch(k)
    BY <1>1, <2>3 DEF Start, StartCheck, Fork, ForkFails, SendMaps, Wait, WaitGet, WaitPid,
                      Watch, SpawnWatcher, WatchGet, WatchPoll, Unreadable, disk
  <2>4. CASE Stop(k)
    BY <1>1, <2>4 DEF Stop, StopCheck, StopKill, StopPoll, StopTimeout, StopReap, Unreadable, disk
  <2>5. CASE Remove(k)
    BY <1>1, <2>5 DEF Remove, RemoveCheck, Unmount, DeleteCgroup, RmtreeScan, UnlinkConfig,
                      UnlinkRecord, Rmdir, Unreadable, disk
  <2> QED BY <1>1, <2>1, <2>2, <2>3, <2>4, <2>5 DEF Step
<1>2. ASSUME NEW k, Begin(k) \/ Crash(k) \/ ProcessStep(k), ~dir
      PROVE  ~dir'
  BY <1>2 DEF Begin, Crash, ProcessStep, HearEof, ChildRun, ChildFail, InnerExit, OuterExit,
              Deliver, disk
<1>3. [Next]_vars => [born /\ ~dir => ~dir']_vars
  BY <1>1, <1>2, NextCases
<1> QED BY <1>3, PTL DEF Spec, RemovedStaysRemoved

------------------------------------------------------------------------------
\* StoppedIsOver, of a container that is started once.  Inductive with it:
\* whoever is about to write "stopped" knows that the process is down or has a
\* signal on its way, and whoever is about to wait for it is its parent.

\* The daemon's recovery does not look at the process, and only the one who
\* started it can wait for it: "pybox run" calls wait() next.
Proper(c) ==
  \A i \in 1 .. Len(c) : c[i] # "recover" /\ (c[i] = "wait" /\ i > 1 => c[i - 1] = "start")

StartedOnce ==
  /\ MaxForks <= 1
  /\ \A c \in Commands : Proper(c) /\ Head(c) # "wait"

Over(p) == outer[p] \in {"zombie", "gone"} \/ (outer[p] = "alive" /\ sig[p] # "none")
AllOver == \A p \in Pids : Over(p)

Owns(k) == \E p \in Pids : parent[p] = k /\ outer[p] # "unborn"
WaitsNext(k) == todo[k] # <<>> /\ Head(todo[k]) = "wait"

Sure(k) ==
  /\ val[k].st = "stopped" => AllOver
  /\ pc[k] \in {"poll", "reap"} => AllOver
  /\ pc[k] \in {"kill", "alive?", "waitpid"} => tgt[k] \in Pids /\ outer[tgt[k]] # "unborn"
  /\ pc[k] \in {"wait", "waitpid"} => Owns(k)
  /\ pc[k] # "recover"
  /\ Proper(todo[k])
  /\ WaitsNext(k) => \/ pc[k] \in {"start", "fork"}
                     \/ pc[k] \in {"maps", "update", "truncate", "fill"} /\ Owns(k)

OverInv ==
  /\ record.st = "stopped" => AllOver
  /\ \A k \in Actors : Sure(k)

\* What all steps of actor k do to the others, and to the processes
LeavesOthers(k) ==
  \A j \in Actors \ {k} :
    pc'[j] = pc[j] /\ todo'[j] = todo[j] /\ tgt'[j] = tgt[j] /\ val'[j] = val[j]

KeepsOver(k) ==
  /\ AllOver => AllOver'
  /\ \A p \in Pids : /\ outer[p] # "unborn" => outer'[p] # "unborn"
                     /\ parent'[p] = parent[p] \/ parent[p] = k \/ outer[p] = "unborn"

KeepsRecord(k) == record'.st = "stopped" => record.st = "stopped" \/ val[k].st = "stopped"

LEMMA OverStep ==
  ASSUME OverInv, NEW k, LeavesOthers(k), KeepsOver(k), KeepsRecord(k),
         k \in Actors => Sure(k) /\ Sure(k)', k \notin Actors => UNCHANGED record
  PROVE  OverInv'
<1>1. record'.st = "stopped" => AllOver'
  BY DEF OverInv, Sure, KeepsOver, KeepsRecord
<1>2. ASSUME NEW j \in Actors, j # k
      PROVE  Sure(j)'
  <2>1. Sure(j) /\ pc'[j] = pc[j] /\ todo'[j] = todo[j] /\ tgt'[j] = tgt[j] /\ val'[j] = val[j]
    BY <1>2 DEF OverInv, LeavesOthers
  <2>2. Owns(j) => Owns(j)'
    BY <1>2 DEF Owns, KeepsOver
  <2> QED BY <2>1, <2>2 DEF Sure, WaitsNext, KeepsOver
<1> QED BY <1>1, <1>2 DEF OverInv

LEMMA ProperTail ==
  ASSUME NEW s \in Seq(Methods), s # <<>>, Proper(s)
  PROVE  /\ Head(s) # "recover" /\ Proper(Tail(s))
         /\ Tail(s) # <<>> /\ Head(Tail(s)) = "wait" => Head(s) = "start"
<1>1. Len(s) \in Nat /\ Len(s) >= 1 /\ Tail(s) \in Seq(Methods) /\ Len(Tail(s)) = Len(s) - 1
  OBVIOUS
<1>2. \A i \in 1 .. Len(Tail(s)) : Tail(s)[i] = s[i + 1]
  OBVIOUS
<1>3. Head(s) = s[1]
  OBVIOUS
<1>4. Head(s) # "recover"
  BY <1>1, <1>3 DEF Proper
<1>5. Proper(Tail(s))
  <2> SUFFICES ASSUME NEW i \in 1 .. Len(Tail(s))
               PROVE  /\ Tail(s)[i] # "recover"
                      /\ Tail(s)[i] = "wait" /\ i > 1 => Tail(s)[i - 1] = "start"
    BY DEF Proper
  <2>1. i + 1 \in 1 .. Len(s) /\ (i + 1) - 1 = i
    BY <1>1
  <2>2. s[i + 1] # "recover" /\ (s[i + 1] = "wait" => s[i] = "start")
    BY <2>1 DEF Proper
  <2>3. i > 1 => Tail(s)[i - 1] = s[i]
    BY <1>1, <1>2
  <2> QED BY <1>2, <2>2, <2>3
<1>6. ASSUME Tail(s) # <<>>, Head(Tail(s)) = "wait"
      PROVE  Head(s) = "start"
  <2>1. Len(s) >= 2
    BY <1>1, <1>6
  <2>2. s[2] = "wait"
    BY <1>1, <1>2, <1>6, <2>1
  <2> QED BY <1>3, <2>1, <2>2 DEF Proper
<1> QED BY <1>4, <1>5, <1>6

------------------------------------------------------------------------------
\* The fragments again

LEMMA SameKernelOver ==
  ASSUME NEW k, UNCHANGED kernel
  PROVE  KeepsOver(k) /\ (k \in Actors /\ Owns(k) => Owns(k)')
BY DEF kernel, KeepsOver, AllOver, Over, Owns

LEMMA OrphanOver ==
  ASSUME TypeOK, NEW k \in Actors, Orphan(k), UNCHANGED <<inner, sig, joined>>
  PROVE  KeepsOver(k)
BY DEF Orphan, KeepsOver, AllOver, Over, TypeOK, KernelOK

LEMMA IdleOver ==
  ASSUME TypeOK, NEW k \in Actors, Idle(k)
  PROVE  LeavesOthers(k) /\ Sure(k)'
<1>1. LeavesOthers(k)
  BY DEF Idle, LeavesOthers, TypeOK, ControlOK
<1>2. pc'[k] = "idle" /\ todo'[k] = <<>> /\ val'[k] = NoVal
  BY DEF Idle, TypeOK, ControlOK
<1>3. NoVal.st = "created"
  BY DEF NoVal, Record
<1>4. Proper(<<>>)
  BY DEF Proper
<1>5. Proper(todo'[k])
  BY <1>2, <1>4
<1> QED BY <1>1, <1>2, <1>3, <1>5 DEF Sure, WaitsNext

LEMMA EndOver ==
  ASSUME TypeOK, NEW k \in Actors, End(k)
  PROVE  LeavesOthers(k) /\ KeepsOver(k) /\ Sure(k)'
<1>1. LeavesOthers(k) /\ Sure(k)'
  BY IdleOver DEF End
<1>2. CASE OneShot
  BY <1>1, <1>2, OrphanOver DEF End
<1>3. CASE ~OneShot
  BY <1>1, <1>3, SameKernelOver DEF End
<1> QED BY <1>2, <1>3

LEMMA ReturnOver ==
  ASSUME TypeOK, NEW k \in Actors, Sure(k), pc[k] \notin {"start", "fork"}, Return(k)
  PROVE  LeavesOthers(k) /\ KeepsOver(k) /\ Sure(k)'
<1>1. CASE End(k)
  BY <1>1, EndOver
<1>2. CASE /\ todo[k] # <<>>
           /\ pc' = [pc EXCEPT ![k] = Head(todo[k])]
           /\ todo' = [todo EXCEPT ![k] = Tail(todo[k])]
           /\ val' = [val EXCEPT ![k] = NoVal]
           /\ UNCHANGED <<kernel, tgt>>
  <2>1. todo[k] \in Seq(Methods)
    BY DEF TypeOK, ControlOK
  <2>2. /\ Head(todo[k]) # "recover" /\ Proper(Tail(todo[k])) /\ Head(todo[k]) \in Methods
        /\ Tail(todo[k]) # <<>> /\ Head(Tail(todo[k])) = "wait" => Head(todo[k]) = "start"
    BY <1>2, <2>1, ProperTail DEF Sure
  <2>3. pc'[k] = Head(todo[k]) /\ todo'[k] = Tail(todo[k]) /\ val'[k] = NoVal
    BY <1>2 DEF TypeOK, ControlOK
  <2>4. LeavesOthers(k)
    BY <1>2 DEF LeavesOthers, TypeOK, ControlOK
  <2>5. KeepsOver(k) /\ (Owns(k) => Owns(k)')
    BY <1>2, SameKernelOver
  <2>6. pc'[k] = "wait" => Owns(k)'
    BY <1>2, <2>3, <2>5 DEF Sure, WaitsNext
  <2>7. pc'[k] \notin {"poll", "reap", "kill", "alive?", "waitpid"}
    BY <2>2, <2>3 DEF Methods
  <2>8. NoVal.st = "created"
    BY DEF NoVal, Record
  <2>9. Proper(todo'[k])
    BY <2>2, <2>3
  <2> QED BY <2>2, <2>3, <2>4, <2>5, <2>6, <2>7, <2>8, <2>9 DEF Sure, WaitsNext
<1> QED BY <1>1, <1>2 DEF Return

\* The actor goes on inside its method.
GoesOn(k, label, p, r) ==
  /\ label \in PCs \ (Methods \cup {"idle"})
  /\ r.st = "stopped" => AllOver'
  /\ label \in {"poll", "reap"} => AllOver'
  /\ label \in {"kill", "alive?", "waitpid"} => p \in Pids /\ outer'[p] # "unborn"
  /\ label = "waitpid" => Owns(k)'
  /\ WaitsNext(k) => \/ label = "fork"
                     \/ label \in {"maps", "update", "truncate", "fill"} /\ Owns(k)'

LEMMA GoOver ==
  ASSUME TypeOK, NEW k \in Actors, Sure(k), NEW label, NEW p, NEW r, GoesOn(k, label, p, r),
         pc'[k] = label, todo' = todo, tgt'[k] = p, val'[k] = r
  PROVE  Sure(k)'
<1>1. label \notin {"wait", "recover"}
  BY DEF GoesOn, Methods
<1> QED BY <1>1 DEF GoesOn, Sure, WaitsNext

LEMMA GotoOver ==
  ASSUME TypeOK, NEW k \in Actors, Sure(k), NEW label, Goto(k, label),
         GoesOn(k, label, tgt[k], val[k])
  PROVE  LeavesOthers(k) /\ Sure(k)'
<1>1. pc'[k] = label /\ todo' = todo /\ tgt'[k] = tgt[k] /\ val'[k] = val[k]
  BY DEF Goto, locals, TypeOK, ControlOK
<1> QED BY <1>1, GoOver DEF Goto, locals, LeavesOthers, TypeOK, ControlOK

LEMMA AimOver ==
  ASSUME TypeOK, NEW k \in Actors, Sure(k), NEW label, NEW p, Aim(k, label, p),
         GoesOn(k, label, p, val[k])
  PROVE  LeavesOthers(k) /\ Sure(k)'
<1>1. pc'[k] = label /\ todo' = todo /\ tgt'[k] = p /\ val'[k] = val[k]
  BY DEF Aim, TypeOK, ControlOK
<1> QED BY <1>1, GoOver DEF Aim, LeavesOthers, TypeOK, ControlOK

LEMMA WriteOver ==
  ASSUME TypeOK, NEW k \in Actors, Sure(k), NEW label, NEW r, Write(k, label, r),
         GoesOn(k, label, tgt[k], r)
  PROVE  LeavesOthers(k) /\ Sure(k)'
<1>1. pc'[k] = label /\ todo' = todo /\ tgt'[k] = tgt[k] /\ val'[k] = r
  BY DEF Write, TypeOK, ControlOK
<1> QED BY <1>1, GoOver DEF Write, LeavesOthers, TypeOK, ControlOK

LEMMA UnlinkOver ==
  ASSUME TypeOK, NEW k \in Actors, Sure(k), NEW es, Unlink(k, es),
         GoesOn(k, "unlink", tgt[k], val[k])
  PROVE  LeavesOthers(k) /\ Sure(k)'
<1>1. pc'[k] = "unlink" /\ todo' = todo /\ tgt'[k] = tgt[k] /\ val'[k] = val[k]
  BY DEF Unlink, TypeOK, ControlOK
<1> QED BY <1>1, GoOver DEF Unlink, LeavesOthers, TypeOK, ControlOK

\* A record with a pid names a process that has been forked.
LEMMA RecordedIsForked ==
  ASSUME TypeOK, HandshakeInv, record.pid # NoPid
  PROVE  record.pid \in Pids /\ outer[record.pid] # "unborn"
<1>1. record.pid \in Pids
  BY DEF TypeOK, DiskOK
<1> QED BY <1>1 DEF HandshakeInv, PublishedPidsStarted

\* There is only one process.
LEMMA OneProcess ==
  ASSUME StartedOnce, NEW p \in Pids
  PROVE  Pids = {p}
BY ConstantFacts DEF StartedOnce, Pids

OverNext(k) == LeavesOthers(k) /\ KeepsOver(k) /\ KeepsRecord(k) /\ Sure(k)'

LEMMA SameRecordOver ==
  ASSUME NEW k, UNCHANGED record
  PROVE  KeepsRecord(k)
BY DEF KeepsRecord

LEMMA UnreadableOver ==
  ASSUME TypeOK, NEW k \in Actors, Unreadable(k)
  PROVE  OverNext(k)
BY EndOver, SameRecordOver DEF Unreadable, disk, OverNext

------------------------------------------------------------------------------
\* The methods again, action by action

LEMMA WritesOver ==
  ASSUME TypeOK, NEW k \in Actors, Sure(k), Update(k) \/ Truncate(k) \/ Fill(k)
  PROVE  OverNext(k)
<1>0. "truncate" \in PCs \ (Methods \cup {"idle"}) /\ "fill" \in PCs \ (Methods \cup {"idle"})
  BY DEF PCs, Methods
<1>1. CASE Update(k)
  <2>1. CASE Unreadable(k)
    BY <2>1, UnreadableOver
  <2>2. CASE /\ At(k, "update") \/ At(k, "set_state")
             /\ Write(k, "truncate", IF At(k, "set_state") THEN Record(val[k].st, record.pid)
                                     ELSE val[k])
             /\ UNCHANGED <<disk, kernel, history>>
    <3> DEFINE r == IF At(k, "set_state") THEN Record(val[k].st, record.pid) ELSE val[k]
    <3>1. r.st = val[k].st
      BY DEF Record
    <3>2. KeepsOver(k) /\ (Owns(k) => Owns(k)') /\ KeepsRecord(k)
      BY <2>2, SameKernelOver, SameRecordOver DEF disk
    <3>3. GoesOn(k, "truncate", tgt[k], r)
      BY <1>0, <2>2, <3>1, <3>2 DEF At, GoesOn, Sure, KeepsOver
    <3> QED BY <2>2, <3>2, <3>3, WriteOver DEF OverNext
  <2> QED BY <1>1, <2>1, <2>2 DEF Update
<1>2. CASE Truncate(k)
  <2>1. CASE record' = Record("empty", NoPid) /\ Goto(k, "fill") /\ UNCHANGED kernel
    <3>1. KeepsOver(k) /\ (Owns(k) => Owns(k)')
      BY <2>1, SameKernelOver
    <3>2. KeepsRecord(k)
      BY <2>1 DEF Record, KeepsRecord
    <3>3. GoesOn(k, "fill", tgt[k], val[k])
      BY <1>0, <1>2, <3>1 DEF Truncate, At, GoesOn, Sure, KeepsOver
    <3> QED BY <2>1, <3>1, <3>2, <3>3, GotoOver DEF OverNext
  <2>2. CASE End(k) /\ UNCHANGED disk
    BY <2>2, EndOver, SameRecordOver DEF disk, OverNext
  <2> QED BY <1>2, <2>1, <2>2 DEF Truncate, kernel
<1>3. CASE Fill(k)
  <2>1. record' \in {val[k], Record("garbage", NoPid), record}
    BY <1>3 DEF Fill
  <2>2. KeepsRecord(k)
    BY <2>1 DEF Record, KeepsRecord
  <2> QED BY <1>3, <2>2, ReturnOver DEF Fill, At, OverNext
<1> QED BY <1>1, <1>2, <1>3

LEMMA CreateOver ==
  ASSUME TypeOK, NEW k \in Actors, Sure(k), Create(k)
  PROVE  OverNext(k)
<1>0. "config" \in PCs \ (Methods \cup {"idle"}) /\ "truncate" \in PCs \ (Methods \cup {"idle"})
  BY DEF PCs, Methods
<1>1. KeepsRecord(k)
  BY SameRecordOver DEF Create, CreateStorage, CreateConfig, CreateOther, disk
<1>2. CASE End(k)
  BY <1>1, <1>2, EndOver DEF OverNext
<1>3. CASE At(k, "create") /\ Goto(k, "config") /\ UNCHANGED kernel
  <2>1. KeepsOver(k)
    BY <1>3, SameKernelOver
  <2>2. GoesOn(k, "config", tgt[k], val[k])
    BY <1>0, <1>3, <2>1 DEF At, GoesOn, Sure, KeepsOver
  <2> QED BY <1>1, <1>3, <2>1, <2>2, GotoOver DEF OverNext
<1>4. CASE At(k, "config") /\ Write(k, "truncate", Record("created", NoPid)) /\ UNCHANGED kernel
  <2>1. KeepsOver(k) /\ Record("created", NoPid).st = "created"
    BY <1>4, SameKernelOver DEF Record
  <2>2. GoesOn(k, "truncate", tgt[k], Record("created", NoPid))
    BY <1>0, <1>4, <2>1 DEF At, GoesOn, Sure
  <2> QED BY <1>1, <1>4, <2>1, <2>2, WriteOver DEF OverNext
<1> QED BY <1>2, <1>3, <1>4 DEF Create, CreateStorage, CreateConfig, CreateOther

LEMMA StartOver ==
  ASSUME StartedOnce, TypeOK, HandshakeInv, NEW k \in Actors, Sure(k), Start(k)
  PROVE  OverNext(k)
<1>0. {"fork", "maps", "update"} \subseteq PCs \ (Methods \cup {"idle"})
  BY DEF PCs, Methods
<1>1. KeepsRecord(k)
  BY SameRecordOver DEF Start, StartCheck, Fork, ForkFails, SendMaps, disk
<1>2. CASE End(k)
  BY <1>1, <1>2, EndOver DEF OverNext
<1>3. CASE Goto(k, "fork") /\ UNCHANGED kernel
  <2>1. KeepsOver(k)
    BY <1>3, SameKernelOver
  <2>2. GoesOn(k, "fork", tgt[k], val[k])
    BY <1>0, <2>1 DEF GoesOn, Sure, KeepsOver
  <2> QED BY <1>1, <1>3, <2>1, <2>2, GotoOver DEF OverNext
<1>4. CASE Fork(k)
  <2>1. PICK p \in Pids :
          /\ outer[p] = "unborn"
          /\ Aim(k, "maps", p)
          /\ outer' = [outer EXCEPT ![p] = "alive"]
          /\ parent' = [parent EXCEPT ![p] = k]
    BY <1>4 DEF Fork
  <2>2. ~AllOver
    BY <2>1 DEF AllOver, Over
  <2>3. KeepsOver(k) /\ Owns(k)'
    BY <2>1, <2>2 DEF KeepsOver, Owns, TypeOK, KernelOK
  <2>4. GoesOn(k, "maps", p, val[k])
    BY <1>0, <2>2, <2>3 DEF GoesOn, Sure
  <2> QED BY <1>1, <2>1, <2>3, <2>4, AimOver DEF OverNext
<1>5. CASE /\ At(k, "maps") /\ Write(k, "update", Record("running", tgt[k]))
           /\ UNCHANGED <<outer, parent, sig>>
  <2>1. KeepsOver(k) /\ (Owns(k) => Owns(k)') /\ Record("running", tgt[k]).st = "running"
    BY <1>5 DEF KeepsOver, AllOver, Over, Owns, Record
  <2>2. GoesOn(k, "update", tgt[k], Record("running", tgt[k]))
    BY <1>0, <1>5, <2>1 DEF At, GoesOn, Sure
  <2> QED BY <1>1, <1>5, <2>1, <2>2, WriteOver DEF OverNext
<1> QED BY <1>2, <1>3, <1>4, <1>5 DEF Start, StartCheck, ForkFails, SendMaps

\* The watcher takes the rest of the command, and the client is done with it.
LEMMA SpawnOver ==
  ASSUME TypeOK, OverInv, NEW k \in Actors, SpawnWatcher(k)
  PROVE  OverInv'
<1>1. KeepsOver(k) /\ UNCHANGED record
  BY OrphanOver DEF SpawnWatcher, disk
<1>2. pc[k] = "watch" /\ Sure(k)
  BY DEF SpawnWatcher, At, OverInv
<1>3. Proper(<<>>)
  BY DEF Proper
<1>4. ASSUME NEW j \in Actors
      PROVE  Sure(j)'
  <2>1. Sure(j) /\ val'[j] = val[j]
    BY DEF SpawnWatcher, OverInv
  <2>2. CASE j # k /\ j # tgt[k]
    <3>1. pc'[j] = pc[j] /\ todo'[j] = todo[j] /\ tgt'[j] = tgt[j]
      BY <2>2 DEF SpawnWatcher, TypeOK, ControlOK
    <3>2. Owns(j) => Owns(j)'
      BY <1>1, <2>2 DEF Owns, KeepsOver
    <3> QED BY <1>1, <2>1, <3>1, <3>2 DEF Sure, WaitsNext, KeepsOver
  <2>3. CASE j = tgt[k]
    <3>1. pc'[j] = "watch" /\ todo'[j] = todo[k]
      BY <2>3 DEF SpawnWatcher, TypeOK, ControlOK
    <3> QED BY <1>1, <1>2, <2>1, <3>1 DEF Sure, WaitsNext, KeepsOver
  <2>4. CASE j = k /\ j # tgt[k]
    <3>1. pc'[j] = "idle" /\ todo'[j] = <<>>
      BY <2>4 DEF SpawnWatcher, TypeOK, ControlOK
    <3>2. Proper(todo'[j])
      BY <1>3, <3>1
    <3> QED BY <1>1, <2>1, <3>1, <3>2 DEF Sure, WaitsNext, KeepsOver
  <2> QED BY <2>2, <2>3, <2>4
<1> QED BY <1>1, <1>4 DEF OverInv, KeepsOver

\* At a label of these no wait() comes next.
LEMMA NoWaitNext ==
  ASSUME NEW k, Sure(k), pc[k] \notin {"start", "fork", "maps", "update", "truncate", "fill"}
  PROVE  ~WaitsNext(k)
BY DEF Sure

LEMMA WatchOver ==
  ASSUME StartedOnce, TypeOK, HandshakeInv, NEW k \in Actors, Sure(k),
         WatchGet(k) \/ WatchPoll(k)
  PROVE  OverNext(k)
<1>0. "alive?" \in PCs \ (Methods \cup {"idle"}) /\ "update" \in PCs \ (Methods \cup {"idle"})
  BY DEF PCs, Methods
<1>1. CASE WatchGet(k)
  <2>1. pc[k] = "watch"
    BY <1>1 DEF WatchGet, At
  <2>2. CASE Unreadable(k)
    BY <2>2, UnreadableOver
  <2>3. CASE Return(k) /\ UNCHANGED <<disk, history>>
    BY <2>1, <2>3, ReturnOver, SameRecordOver DEF disk, OverNext
  <2>4. CASE record.pid # NoPid /\ Aim(k, "alive?", record.pid) /\ UNCHANGED <<disk, kernel, history>>
    <3>1. record.pid \in Pids /\ outer[record.pid] # "unborn"
      BY <2>4, RecordedIsForked
    <3>2. KeepsOver(k) /\ outer' = outer
      BY <2>4, SameKernelOver DEF kernel
    <3>3. GoesOn(k, "alive?", record.pid, val[k])
      BY <1>0, <2>1, <3>1, <3>2, NoWaitNext DEF GoesOn, Sure, KeepsOver
    <3> QED BY <2>4, <3>2, <3>3, AimOver, SameRecordOver DEF disk, OverNext
  <2> QED BY <1>1, <2>2, <2>3, <2>4 DEF WatchGet
<1>2. CASE WatchPoll(k)
  <2>1. pc[k] = "alive?" /\ outer[tgt[k]] = "gone" /\ tgt[k] \in Pids
    BY <1>2 DEF WatchPoll, At, Sure
  <2>2. AllOver
    BY <2>1, OneProcess DEF AllOver, Over
  <2>3. KeepsOver(k)
    BY <1>2, SameKernelOver DEF WatchPoll
  <2>4. GoesOn(k, "update", tgt[k], Record("stopped", NoPid))
    BY <1>0, <2>1, <2>2, <2>3, NoWaitNext DEF GoesOn, KeepsOver
  <2> QED BY <1>2, <2>3, <2>4, WriteOver, SameRecordOver DEF WatchPoll, disk, OverNext
<1> QED BY <1>1, <1>2

LEMMA WaitpidOver ==
  ASSUME TypeOK, NEW k, NEW p, Waitpid(k, p)
  PROVE  KeepsOver(k)
BY SameKernelOver DEF Waitpid, KeepsOver, AllOver, Over, TypeOK, KernelOK

LEMMA WaitOver ==
  ASSUME StartedOnce, TypeOK, HandshakeInv, NEW k \in Actors, Sure(k), Wait(k)
  PROVE  OverNext(k)
<1>0. "waitpid" \in PCs \ (Methods \cup {"idle"}) /\ "update" \in PCs \ (Methods \cup {"idle"})
  BY DEF PCs, Methods
<1>1. CASE WaitGet(k)
  <2>1. pc[k] = "wait" /\ Owns(k)
    BY <1>1 DEF WaitGet, At, Sure
  <2>2. CASE Unreadable(k)
    BY <2>2, UnreadableOver
  <2>3. CASE End(k) /\ UNCHANGED <<disk, history>>
    BY <2>3, EndOver, SameRecordOver DEF disk, OverNext
  <2>4. CASE record.pid # NoPid /\ Aim(k, "waitpid", record.pid) /\ UNCHANGED <<disk, kernel, history>>
    <3>1. record.pid \in Pids /\ outer[record.pid] # "unborn"
      BY <2>4, RecordedIsForked
    <3>2. KeepsOver(k) /\ outer' = outer /\ Owns(k)'
      BY <2>1, <2>4, SameKernelOver DEF kernel
    <3>3. GoesOn(k, "waitpid", record.pid, val[k])
      BY <1>0, <2>1, <3>1, <3>2, NoWaitNext DEF GoesOn, Sure, KeepsOver
    <3> QED BY <2>4, <3>2, <3>3, AimOver, SameRecordOver DEF disk, OverNext
  <2> QED BY <1>1, <2>2, <2>3, <2>4 DEF WaitGet
<1>2. CASE WaitPid(k)
  <2>1. pc[k] = "waitpid" /\ Owns(k) /\ tgt[k] \in Pids
    BY <1>2 DEF WaitPid, At, Sure
  <2>2. parent[tgt[k]] = k /\ outer[tgt[k]] # "unborn"
    BY <2>1, OneProcess DEF Owns
  <2>3. KeepsOver(k)
    BY <1>2, WaitpidOver DEF WaitPid
  <2>4. outer'[tgt[k]] = "gone"
    BY <1>2, <2>1, <2>2 DEF WaitPid, Waitpid, Child, kernel, TypeOK, KernelOK
  <2>5. AllOver'
    BY <2>1, <2>4, OneProcess DEF AllOver, Over
  <2>6. GoesOn(k, "update", tgt[k], Record("stopped", NoPid))
    BY <1>0, <2>1, <2>5, NoWaitNext DEF GoesOn
  <2> QED BY <1>2, <2>3, <2>6, WriteOver, SameRecordOver DEF WaitPid, disk, OverNext
<1> QED BY <1>1, <1>2 DEF Wait

LEMMA StopOver ==
  ASSUME StartedOnce, TypeOK, HandshakeInv, NEW k \in Actors, Sure(k), Stop(k)
  PROVE  OverNext(k)
<1>0. {"kill", "poll", "reap", "set_state"} \subseteq PCs \ (Methods \cup {"idle"})
  BY DEF PCs, Methods
<1>1. UNCHANGED record /\ ~WaitsNext(k)
  BY NoWaitNext
     DEF Stop, StopCheck, StopKill, StopPoll, StopTimeout, StopReap, Unreadable, At, disk
<1>2. CASE StopCheck(k)
  <2>1. pc[k] = "stop"
    BY <1>2 DEF StopCheck, At
  <2>2. CASE Unreadable(k)
    BY <2>2, UnreadableOver
  <2>3. CASE Return(k) /\ UNCHANGED <<disk, history>>
    BY <1>1, <2>1, <2>3, ReturnOver, SameRecordOver DEF OverNext
  <2>4. CASE record.pid # NoPid /\ Aim(k, "kill", record.pid) /\ UNCHANGED <<disk, kernel, history>>
    <3>1. record.pid \in Pids /\ outer[record.pid] # "unborn"
      BY <2>4, RecordedIsForked
    <3>2. KeepsOver(k) /\ outer' = outer
      BY <2>4, SameKernelOver DEF kernel
    <3>3. GoesOn(k, "kill", record.pid, val[k])
      BY <1>0, <1>1, <3>1, <3>2 DEF GoesOn, Sure, KeepsOver
    <3> QED BY <1>1, <2>4, <3>2, <3>3, AimOver, SameRecordOver DEF OverNext
  <2> QED BY <1>2, <2>2, <2>3, <2>4 DEF StopCheck
<1>3. ASSUME AllOver', SetStopped(k)
      PROVE  LeavesOthers(k) /\ Sure(k)'
  <2>1. GoesOn(k, "set_state", tgt[k], Record("stopped", NoPid))
    BY <1>0, <1>1, <1>3 DEF GoesOn
  <2> QED BY <1>3, <2>1, WriteOver DEF SetStopped
<1>4. ASSUME AllOver', NEW label \in {"poll", "reap"}, Goto(k, label)
      PROVE  LeavesOthers(k) /\ Sure(k)'
  <2>1. GoesOn(k, label, tgt[k], val[k])
    BY <1>0, <1>1, <1>4 DEF GoesOn
  <2> QED BY <1>4, <2>1, GotoOver
<1>5. CASE StopKill(k)
  <2>1. tgt[k] \in Pids /\ outer[tgt[k]] # "unborn" /\ Pids = {tgt[k]}
    BY <1>5, OneProcess DEF StopKill, At, Sure
  <2>2. UNCHANGED <<outer, parent>>
    BY <1>5 DEF StopKill
  <2>3. sig'[tgt[k]] # "none" \/ outer[tgt[k]] \in {"zombie", "gone"}
    BY <1>5, <2>1 DEF StopKill, Signal, TypeOK, KernelOK
  <2>4. outer[tgt[k]] \in {"alive", "zombie", "gone"}
    BY <2>1 DEF TypeOK, KernelOK
  <2>5. AllOver'
    BY <2>1, <2>2, <2>3, <2>4 DEF AllOver, Over
  <2>6. KeepsOver(k)
    BY <2>2, <2>5 DEF KeepsOver
  <2> QED BY <1>1, <1>3, <1>4, <1>5, <2>5, <2>6, SameRecordOver DEF StopKill, OverNext
<1>6. CASE StopPoll(k) \/ StopReap(k)
  <2>1. AllOver
    BY <1>6 DEF StopPoll, StopReap, At, Sure
  <2>2. KeepsOver(k)
    BY <1>6, WaitpidOver DEF StopPoll, StopReap
  <2>3. AllOver'
    BY <2>1, <2>2 DEF KeepsOver
  <2> QED BY <1>1, <1>3, <1>6, <2>2, <2>3, SameRecordOver DEF StopPoll, StopReap, OverNext
<1>7. CASE StopTimeout(k)
  <2>1. AllOver
    BY <1>7 DEF StopTimeout, At, Sure
  <2>2. UNCHANGED <<outer, parent>>
    BY <1>7 DEF StopTimeout
  <2>3. \A p \in Pids : sig'[p] = sig[p] \/ sig'[p] = "kill"
    BY <1>7 DEF StopTimeout, Signal, TypeOK, KernelOK
  <2>4. AllOver'
    BY <2>1, <2>2, <2>3 DEF AllOver, Over
  <2>5. KeepsOver(k)
    BY <2>2, <2>4 DEF KeepsOver
  <2> QED BY <1>1, <1>4, <1>7, <2>4, <2>5, SameRecordOver DEF StopTimeout, OverNext
<1> QED BY <1>2, <1>5, <1>6, <1>7 DEF Stop

LEMMA RemoveOver ==
  ASSUME TypeOK, NEW k \in Actors, Sure(k), Remove(k)
  PROVE  OverNext(k)
<1>0. {"unmount", "cgroup", "rmtree", "unlink"} \subseteq PCs \ (Methods \cup {"idle"})
  BY DEF PCs, Methods
<1>1. ~WaitsNext(k) /\ pc[k] \notin {"start", "fork"}
  BY NoWaitNext
     DEF Remove, RemoveCheck, Unmount, DeleteCgroup, RmtreeScan, UnlinkConfig, UnlinkRecord,
         Rmdir, At
<1>2. record' = record \/ record'.st = "absent"
  <2>1. CASE UnlinkRecord(k)
    BY <2>1 DEF UnlinkRecord, NoRecord
  <2>2. CASE RemoveCheck(k) \/ Unmount(k) \/ DeleteCgroup(k)
    BY <2>2 DEF RemoveCheck, Unmount, DeleteCgroup, Unreadable, disk
  <2>3. CASE RmtreeScan(k) \/ UnlinkConfig(k) \/ Rmdir(k)
    BY <2>3 DEF RmtreeScan, UnlinkConfig, Rmdir, disk
  <2> QED BY <2>1, <2>2, <2>3 DEF Remove
<1>3. KeepsRecord(k)
  BY <1>2 DEF KeepsRecord
<1>4. CASE End(k) \/ Return(k)
  BY <1>1, <1>3, <1>4, EndOver, ReturnOver DEF OverNext
<1>5. ASSUME UNCHANGED kernel, NEW label \in {"unmount", "cgroup", "rmtree", "unlink"}
      PROVE  KeepsOver(k) /\ GoesOn(k, label, tgt[k], val[k])
  <2>1. KeepsOver(k)
    BY <1>5, SameKernelOver
  <2> QED BY <1>0, <1>1, <2>1 DEF GoesOn, Sure, KeepsOver
<1>6. ASSUME UNCHANGED kernel, NEW label \in {"unmount", "cgroup", "rmtree"}, Goto(k, label)
      PROVE  OverNext(k)
  BY <1>3, <1>5, <1>6, GotoOver DEF OverNext
<1>7. ASSUME UNCHANGED kernel, NEW es, Unlink(k, es)
      PROVE  OverNext(k)
  BY <1>3, <1>5, <1>7, UnlinkOver DEF OverNext
<1>8. CASE RemoveCheck(k) \/ Unmount(k) \/ DeleteCgroup(k)
  BY <1>4, <1>6, <1>8 DEF RemoveCheck, Unmount, DeleteCgroup, Unreadable, kernel
<1>9. CASE RmtreeScan(k) \/ UnlinkConfig(k) \/ UnlinkRecord(k) \/ Rmdir(k)
  BY <1>4, <1>7, <1>9 DEF RmtreeScan, UnlinkConfig, UnlinkRecord, Rmdir
<1> QED BY <1>8, <1>9 DEF Remove

LEMMA StepOver ==
  ASSUME StartedOnce, TypeOK, HandshakeInv, OverInv, NEW k \in Actors, Step(k)
  PROVE  OverInv'
<1>1. Sure(k)
  BY DEF OverInv
<1>2. CASE SpawnWatcher(k)
  BY <1>2, SpawnOver
<1>3. ~Recover(k)
  BY <1>1 DEF Recover, At, Sure
<1>4. CASE ~SpawnWatcher(k)
  <2>1. OverNext(k)
    BY <1>1, <1>3, <1>4, WritesOver, CreateOver, StartOver, WaitOver, WatchOver, StopOver, RemoveOver
       DEF Step, Watch
  <2> QED BY <1>1, <2>1, OverStep DEF OverNext
<1> QED BY <1>2, <1>4

LEMMA BeginOver ==
  ASSUME StartedOnce, TypeOK, OverInv, NEW k \in Clients, Begin(k)
  PROVE  OverInv'
<1>0. k \in Actors /\ Sure(k)
  BY DEF Actors, OverInv
<1>1. PICK c \in Commands : /\ pc' = [pc EXCEPT ![k] = Head(c)]
                           /\ todo' = [todo EXCEPT ![k] = Tail(c)]
  BY DEF Begin
<1>2. c \in Seq(Methods) /\ c # <<>>
  BY ConstantFacts
<1>3. /\ Head(c) \in Methods \ {"recover", "wait"} /\ Proper(Tail(c))
      /\ Tail(c) # <<>> /\ Head(Tail(c)) = "wait" => Head(c) = "start"
  BY <1>2, ProperTail DEF StartedOnce
<1>4. pc'[k] = Head(c) /\ todo'[k] = Tail(c) /\ tgt'[k] = tgt[k] /\ val'[k] = val[k]
  BY <1>0, <1>1 DEF Begin, locals, TypeOK, ControlOK
<1>5. KeepsOver(k) /\ KeepsRecord(k) /\ LeavesOthers(k)
  BY <1>0, <1>1, SameKernelOver, SameRecordOver
     DEF Begin, disk, locals, LeavesOthers, TypeOK, ControlOK
<1>6. pc'[k] \notin {"poll", "reap", "kill", "alive?", "wait", "waitpid", "recover"}
  BY <1>3, <1>4 DEF Methods
<1>7. Proper(todo'[k])
  BY <1>3, <1>4
<1>8. Sure(k)'
  BY <1>0, <1>3, <1>4, <1>5, <1>6, <1>7 DEF Sure, WaitsNext, KeepsOver
<1> QED BY <1>0, <1>5, <1>8, OverStep

LEMMA CrashOver ==
  ASSUME TypeOK, OverInv, NEW k \in Actors, Crash(k)
  PROVE  OverInv'
<1>1. LeavesOthers(k) /\ Sure(k)' /\ KeepsOver(k)
  BY IdleOver, OrphanOver DEF Crash
<1>2. KeepsRecord(k)
  BY SameRecordOver DEF Crash
<1> QED BY <1>1, <1>2, OverStep DEF OverInv

LEMMA ProcessOver ==
  ASSUME TypeOK, OverInv, NEW p \in Pids, ProcessStep(p)
  PROVE  OverInv'
<1>1. UNCHANGED <<disk, pc, todo, locals, parent>>
  BY DEF ProcessStep, HearEof, ChildRun, ChildFail, InnerExit, OuterExit, Deliver
<1>2. KeepsOver(InitProc)
  <2>1. CASE ChildRun(p) \/ InnerExit(p)
    BY <2>1 DEF ChildRun, InnerExit, KeepsOver, AllOver, Over
  <2>2. CASE ChildFail(p) \/ OuterExit(p) \/ Deliver(p)
    <3>1. Dies(p)
      BY <2>2 DEF ChildFail, OuterExit, Deliver
    <3> QED BY <1>1, <3>1 DEF Dies, KeepsOver, AllOver, Over, TypeOK, KernelOK
  <2>3. CASE HearEof(p)
    BY <2>3 DEF HearEof, KeepsOver, AllOver, Over, TypeOK, KernelOK
  <2> QED BY <2>1, <2>2, <2>3 DEF ProcessStep
<1>3. LeavesOthers(InitProc) /\ KeepsRecord(InitProc)
  BY <1>1, SameRecordOver DEF disk, locals, LeavesOthers
<1> QED BY <1>1, <1>2, <1>3, InitProcIsNoActor, OverStep DEF disk

LEMMA OverNextStep ==
  ASSUME StartedOnce, TypeOK, HandshakeInv, OverInv, [Next]_vars
  PROVE  OverInv'
<1>1. CASE UNCHANGED vars
  <2>1. UNCHANGED <<record, kernel, pc, todo, locals>>
    BY <1>1 DEF vars, disk
  <2>2. KeepsOver(InitProc) /\ KeepsRecord(InitProc) /\ LeavesOthers(InitProc)
    BY <2>1, SameKernelOver, SameRecordOver DEF locals, LeavesOthers
  <2> QED BY <2>1, <2>2, InitProcIsNoActor, OverStep
<1> QED BY <1>1, BeginOver, StepOver, CrashOver, ProcessOver, NextCases

LEMMA OverInit == Init => OverInv
<1> SUFFICES ASSUME Init PROVE OverInv
  OBVIOUS
<1>1. record.st = "absent" /\ NoVal.st = "created"
  BY DEF Init, NoRecord, NoVal, Record
<1>2. \A k \in Actors : pc[k] = "idle" /\ todo[k] = <<>> /\ val[k] = NoVal
  BY DEF Init
<1>3. Proper(<<>>)
  BY DEF Proper
<1>4. ASSUME NEW k \in Actors
      PROVE  Sure(k)
  <2>1. Proper(todo[k])
    BY <1>2, <1>3
  <2> QED BY <1>1, <1>2, <2>1 DEF Sure, WaitsNext
<1> QED BY <1>1, <1>4 DEF OverInv

\* A container that is started once, by whatever interleaving of commands and
\* watchers, of which any may be killed: state.json says stopped only when the
\* container process has died, or has a signal on its way.
THEOREM StoppedIsAlwaysOver == ASSUME StartedOnce PROVE Spec => []StoppedIsOver
<1>1. TypeOK /\ HandshakeInv /\ OverInv /\ [Next]_vars => TypeOK' /\ HandshakeInv' /\ OverInv'
  BY TypeStep, HandshakeStep, OverNextStep
<1>2. OverInv => StoppedIsOver
  BY DEF OverInv, AllOver, Over, StoppedIsOver
<1> QED BY InitOK, HandshakeInit, OverInit, <1>1, <1>2, PTL DEF Spec

------------------------------------------------------------------------------
\* LaunchesAsPromised.  Inductive with it: stop() is on its way to signal only
\* what a record has named, and so a signal is sent to nothing that its parent
\* has not released.

Deadly == {"kill", "poll"}

SignalInv ==
  /\ \A k \in Actors : pc[k] \in Deadly => tgt[k] \in Pids /\ gate[tgt[k]] = "open"
  /\ \A p \in Pids : sig[p] # "none" => gate[p] = "open"

\* What the promise sees of process p
Starter(p) ==
  CASE gate[p] = "closed" -> "starting" [] gate[p] = "open" -> "released" [] gate[p] = "eof" -> "gone"
Named(p) == record.pid = p
Outer(p) == IF outer[p] \in {"zombie", "gone"} THEN "dead" ELSE outer[p]
Inner(p) == inner[p]

Seen(p) == INSTANCE ContainerLaunch WITH
  starter <- Starter(p), recorded <- Named(p), outer <- Outer(p), inner <- Inner(p)

LEMMA SeenStep ==
  ASSUME NEW p \in Pids, [Seen(p)!Next]_(Seen(p)!vars)
  PROVE  [Launch(p)!Next]_(Launch(p)!vars)
BY DEF Seen!Next, Seen!vars, Seen!Fork, Seen!Release, Seen!Leave, Seen!Record, Seen!Run,
       Seen!Exit, Seen!Die, Launch!Next, Launch!vars, Launch!Fork, Launch!Release,
       Launch!Leave, Launch!Record, Launch!Run, Launch!Exit, Launch!Die,
       Starter, Named, Outer, Inner

LEMMA SeenStutter ==
  ASSUME NEW p \in Pids, UNCHANGED <<Starter(p), Named(p), Outer(p), Inner(p)>>
  PROVE  [Seen(p)!Next]_(Seen(p)!vars)
BY DEF Seen!vars

\* What all steps of an actor have in common but those of the handshake and of
\* stop(): nobody begins to signal, nothing is signalled, and of the processes
\* only the dead change.
Unarmed == \A j \in Actors : pc'[j] \in Deadly => pc[j] \in Deadly /\ tgt'[j] = tgt[j]
Reaps ==
  /\ inner' = inner
  /\ \A p \in Pids : outer'[p] = outer[p] \/ (outer[p] = "zombie" /\ outer'[p] = "gone")
Quiet == Unarmed /\ Reaps /\ sig' = sig

LEMMA SameKernelReaps == UNCHANGED kernel => Reaps /\ sig' = sig
BY DEF kernel, Reaps

LEMMA GotoUnarmed ==
  ASSUME TypeOK, NEW k \in Actors, NEW label, label \notin Deadly, Goto(k, label)
  PROVE  Unarmed
BY DEF TypeOK, ControlOK, Goto, locals, Unarmed

LEMMA AimUnarmed ==
  ASSUME TypeOK, NEW k \in Actors, NEW label, label \notin Deadly, NEW p, Aim(k, label, p)
  PROVE  Unarmed
BY DEF TypeOK, ControlOK, Aim, Unarmed

LEMMA WriteUnarmed ==
  ASSUME TypeOK, NEW k \in Actors, NEW label, label \notin Deadly, NEW r, Write(k, label, r)
  PROVE  Unarmed
BY DEF TypeOK, ControlOK, Write, Unarmed

LEMMA UnlinkUnarmed ==
  ASSUME TypeOK, NEW k \in Actors, NEW es, Unlink(k, es)
  PROVE  Unarmed
BY DEF TypeOK, ControlOK, Unlink, Unarmed, Deadly

LEMMA IdleUnarmed ==
  ASSUME TypeOK, NEW k \in Actors, Idle(k)
  PROVE  Unarmed
BY DEF TypeOK, ControlOK, Idle, Unarmed, Deadly

LEMMA OrphanReaps ==
  ASSUME TypeOK, NEW k \in Actors, Orphan(k), inner' = inner
  PROVE  Reaps
BY DEF TypeOK, KernelOK, Orphan, Reaps

LEMMA EndQuiet ==
  ASSUME TypeOK, NEW k \in Actors, End(k)
  PROVE  Quiet
BY IdleUnarmed, OrphanReaps, SameKernelReaps DEF End, Quiet

LEMMA MethodsAreNotDeadly == Methods \cap Deadly = {}
BY DEF Methods, Deadly

LEMMA ReturnQuiet ==
  ASSUME TypeOK, NEW k \in Actors, Return(k)
  PROVE  Quiet
<1>1. CASE End(k)
  BY <1>1, EndQuiet
<1>2. CASE /\ todo[k] # <<>>
           /\ pc' = [pc EXCEPT ![k] = Head(todo[k])]
           /\ UNCHANGED <<kernel, tgt>>
  <2>1. Head(todo[k]) \in Methods
    <3>1. todo[k] \in Seq(Methods)
      BY DEF TypeOK, ControlOK
    <3> QED BY <1>2, <3>1
  <2>2. Unarmed
    BY <1>2, <2>1, MethodsAreNotDeadly DEF TypeOK, ControlOK, Unarmed
  <2> QED BY <1>2, <2>2, SameKernelReaps DEF Quiet
<1> QED BY <1>1, <1>2 DEF Return

LEMMA WaitpidReaps ==
  ASSUME TypeOK, NEW k, NEW p, Waitpid(k, p)
  PROVE  Reaps /\ sig' = sig
BY SameKernelReaps DEF TypeOK, KernelOK, Waitpid, Child, Reaps

LEMMA UnreadableQuiet ==
  ASSUME TypeOK, NEW k \in Actors, Unreadable(k)
  PROVE  Quiet
BY EndQuiet DEF Unreadable

LEMMA QuietSteps ==
  ASSUME TypeOK, NEW k \in Actors, Step(k), ~Fork(k), ~SendMaps(k), ~Stop(k)
  PROVE  Quiet
<1> USE DEF Quiet
<1>0. {"idle", "config", "fork", "maps", "update", "set_state", "truncate", "fill", "waitpid",
       "alive?", "unmount", "cgroup", "rmtree"} \cap Deadly = {}
  BY DEF Deadly
<1>1. CASE Update(k)
  BY <1>0, <1>1, UnreadableQuiet, WriteUnarmed, SameKernelReaps DEF Update
<1>2. CASE Truncate(k)
  BY <1>0, <1>2, GotoUnarmed, SameKernelReaps, EndQuiet DEF Truncate
<1>3. CASE Fill(k)
  BY <1>3, ReturnQuiet DEF Fill
<1>4. CASE Create(k)
  <2>1. CASE CreateStorage(k)
    BY <1>0, <2>1, GotoUnarmed, EndQuiet, SameKernelReaps DEF CreateStorage
  <2>2. CASE CreateConfig(k)
    BY <1>0, <2>2, WriteUnarmed, SameKernelReaps DEF CreateConfig
  <2>3. CASE CreateOther(k)
    BY <2>3, EndQuiet DEF CreateOther
  <2> QED BY <1>4, <2>1, <2>2, <2>3 DEF Create
<1>5. CASE Start(k)
  BY <1>0, <1>5, GotoUnarmed, EndQuiet, SameKernelReaps DEF Start, StartCheck, ForkFails
<1>6. CASE Wait(k)
  <2>1. CASE WaitGet(k)
    BY <1>0, <2>1, UnreadableQuiet, AimUnarmed, EndQuiet, SameKernelReaps DEF WaitGet
  <2>2. CASE WaitPid(k)
    BY <1>0, <2>2, WaitpidReaps, WriteUnarmed DEF WaitPid
  <2> QED BY <1>6, <2>1, <2>2 DEF Wait
<1>7. CASE Watch(k)
  <2>1. CASE SpawnWatcher(k)
    <3>1. Unarmed
      BY <2>1 DEF SpawnWatcher, Unarmed, Deadly, TypeOK, ControlOK
    <3> QED BY <2>1, <3>1, OrphanReaps DEF SpawnWatcher
  <2>2. CASE WatchGet(k)
    BY <1>0, <2>2, UnreadableQuiet, AimUnarmed, ReturnQuiet, SameKernelReaps DEF WatchGet
  <2>3. CASE WatchPoll(k)
    BY <1>0, <2>3, WriteUnarmed, SameKernelReaps DEF WatchPoll
  <2> QED BY <1>7, <2>1, <2>2, <2>3 DEF Watch
<1>8. CASE Remove(k)
  <2>1. CASE RemoveCheck(k)
    BY <1>0, <2>1, UnreadableQuiet, EndQuiet, GotoUnarmed, SameKernelReaps DEF RemoveCheck
  <2>2. CASE Unmount(k) \/ DeleteCgroup(k)
    BY <1>0, <2>2, GotoUnarmed, SameKernelReaps DEF Unmount, DeleteCgroup
  <2>3. CASE RmtreeScan(k)
    BY <2>3, UnlinkUnarmed, ReturnQuiet, SameKernelReaps DEF RmtreeScan
  <2>4. CASE UnlinkConfig(k) \/ UnlinkRecord(k)
    BY <2>4, UnlinkUnarmed, EndQuiet, SameKernelReaps DEF UnlinkConfig, UnlinkRecord
  <2>5. CASE Rmdir(k)
    BY <2>5, ReturnQuiet, EndQuiet DEF Rmdir
  <2> QED BY <1>8, <2>1, <2>2, <2>3, <2>4, <2>5 DEF Remove
<1>9. CASE Recover(k)
  BY <1>0, <1>9, WriteUnarmed, EndQuiet, SameKernelReaps DEF Recover, SetStopped
<1> QED BY <1>1, <1>2, <1>3, <1>4, <1>5, <1>6, <1>7, <1>8, <1>9 DEF Step

\* Whoever signals has found his target in the record.
Signals ==
  /\ \A j \in Actors : pc'[j] \in Deadly =>
       \/ pc[j] \in Deadly /\ tgt'[j] = tgt[j]
       \/ record.pid # NoPid /\ tgt'[j] = record.pid
  /\ \A p \in Pids : sig'[p] # "none" =>
       \/ sig[p] # "none"
       \/ \E j \in Actors : pc[j] \in Deadly /\ tgt[j] = p
StaysOpen == \A p \in Pids : gate[p] = "open" => gate'[p] = "open"

LEMMA SignalStep ==
  ASSUME TypeOK, HandshakeInv, SignalInv, Signals, StaysOpen
  PROVE  SignalInv'
<1>1. record.pid # NoPid => record.pid \in Pids /\ gate[record.pid] = "open"
  BY DEF TypeOK, DiskOK, HandshakeInv, PublishedPidsStarted
<1>2. ASSUME NEW k \in Actors, pc'[k] \in Deadly
      PROVE  tgt'[k] \in Pids /\ gate'[tgt'[k]] = "open"
  BY <1>1, <1>2 DEF Signals, StaysOpen, SignalInv
<1>3. ASSUME NEW p \in Pids, sig'[p] # "none"
      PROVE  gate'[p] = "open"
  BY <1>3 DEF Signals, StaysOpen, SignalInv
<1> QED BY <1>2, <1>3 DEF SignalInv

LEMMA QuietSignals == Quiet => Signals
BY DEF Quiet, Unarmed, Signals

LEMMA StopSignals ==
  ASSUME TypeOK, NEW k \in Actors, Stop(k)
  PROVE  Signals /\ Reaps
<1>0. {"set_state", "reap"} \cap Deadly = {}
  BY DEF Deadly
<1>1. CASE StopCheck(k)
  <2>1. CASE Unreadable(k) \/ Return(k)
    BY <2>1, UnreadableQuiet, ReturnQuiet, QuietSignals DEF Quiet
  <2>2. CASE record.pid # NoPid /\ Aim(k, "kill", record.pid) /\ UNCHANGED kernel
    <3>1. Signals
      BY <2>2 DEF Signals, Aim, kernel, TypeOK, ControlOK
    <3> QED BY <2>2, <3>1, SameKernelReaps
  <2> QED BY <1>1, <2>1, <2>2 DEF StopCheck
<1>2. CASE StopKill(k)
  <2>1. pc[k] \in Deadly /\ Reaps
    BY <1>2 DEF StopKill, At, Deadly, Reaps
  <2>2. CASE SetStopped(k) /\ sig' = sig
    BY <1>0, <2>1, <2>2, WriteUnarmed, QuietSignals DEF SetStopped, Quiet
  <2>3. CASE /\ Signal(tgt[k], IF sig[tgt[k]] = "kill" THEN "kill" ELSE "term")
             /\ Goto(k, "poll")
    <3>1. \A j \in Actors : pc'[j] \in Deadly => pc[j] \in Deadly /\ tgt'[j] = tgt[j]
      BY <2>1, <2>3 DEF Goto, locals, TypeOK, ControlOK
    <3>2. \A p \in Pids : sig'[p] = sig[p] \/ p = tgt[k]
      BY <2>3 DEF Signal, TypeOK, KernelOK
    <3> QED BY <2>1, <3>1, <3>2 DEF Signals
  <2> QED BY <1>2, <2>2, <2>3 DEF StopKill
<1>3. CASE StopTimeout(k)
  <2>1. pc[k] \in Deadly /\ Reaps
    BY <1>3 DEF StopTimeout, At, Deadly, Reaps
  <2>2. Unarmed
    BY <1>0, <1>3, GotoUnarmed DEF StopTimeout
  <2>3. \A p \in Pids : sig'[p] = sig[p] \/ p = tgt[k]
    BY <1>3 DEF StopTimeout, Signal, TypeOK, KernelOK
  <2> QED BY <2>1, <2>2, <2>3 DEF Signals, Unarmed
<1>4. CASE StopPoll(k) \/ StopReap(k)
  BY <1>0, <1>4, WaitpidReaps, WriteUnarmed, QuietSignals
  DEF StopPoll, StopReap, SetStopped, Quiet
<1> QED BY <1>1, <1>2, <1>3, <1>4 DEF Stop

\* A step that touches no handshake is, for each process, a change of the record
\* to or from a process that was released, or nothing.
LEMMA CalmLaunches ==
  ASSUME TypeOK, HandshakeInv, NEW k, CalmKernel(k), CalmRecord, Reaps, NEW p \in Pids
  PROVE  [Seen(p)!Next]_(Seen(p)!vars)
<1>1. Starter(p)' = Starter(p)
  BY DEF CalmKernel, Starter
<1>2. Outer(p)' = Outer(p) /\ Inner(p)' = Inner(p)
  BY DEF Reaps, Outer, Inner
<1>3. CASE Named(p)' = Named(p)
  BY <1>1, <1>2, <1>3, SeenStutter
<1>4. CASE Named(p)' # Named(p)
  <2>1. p # NoPid
    BY DEF Pids, NoPid
  <2>2. gate[p] = "open"
    BY <1>4, <2>1 DEF Named, CalmRecord, HandshakeInv, PublishedPidsStarted
  <2>3. Starter(p) = "released"
    BY <2>2 DEF Starter
  <2>4. Named(p)' \in BOOLEAN
    BY DEF Named
  <2> QED BY <1>1, <1>2, <2>3, <2>4 DEF Seen!Next, Seen!Record
<1> QED BY <1>3, <1>4

LEMMA ForkLaunches ==
  ASSUME TypeOK, HandshakeInv, NEW k \in Actors, Fork(k)
  PROVE  Signals /\ StaysOpen /\ \A q \in Pids : [Seen(q)!Next]_(Seen(q)!vars)
<1>1. PICK p \in Pids :
        /\ outer[p] = "unborn"
        /\ Aim(k, "maps", p)
        /\ outer' = [outer EXCEPT ![p] = "alive"]
  BY DEF Fork
<1>2. UNCHANGED <<record, gate, inner, sig>>
  BY DEF Fork
<1>3. Unarmed
  BY <1>1, AimUnarmed DEF Deadly
<1>4. ASSUME NEW q \in Pids
      PROVE  [Seen(q)!Next]_(Seen(q)!vars)
  <2>1. Starter(q)' = Starter(q) /\ Named(q)' = Named(q) /\ Inner(q)' = Inner(q)
    BY <1>2 DEF Starter, Named, Inner
  <2>2. CASE q # p
    <3>1. Outer(q)' = Outer(q)
      BY <1>1, <2>2 DEF Outer, TypeOK, KernelOK
    <3> QED BY <2>1, <3>1, SeenStutter
  <2>3. CASE q = p
    <3>1. Starter(q) = "starting"
      BY <1>1, <2>3 DEF HandshakeInv, Starter
    <3>2. Outer(q) = "unborn" /\ Outer(q)' = "alive"
      BY <1>1, <2>3 DEF Outer, TypeOK, KernelOK
    <3> QED BY <2>1, <3>1, <3>2 DEF Seen!Next, Seen!Fork
  <2> QED BY <2>2, <2>3
<1> QED BY <1>2, <1>3, <1>4 DEF Signals, Unarmed, StaysOpen

LEMMA SendMapsLaunches ==
  ASSUME TypeOK, HandshakeInv, NEW k \in Actors, SendMaps(k)
  PROVE  Signals /\ StaysOpen /\ \A q \in Pids : [Seen(q)!Next]_(Seen(q)!vars)
<1>1. CASE End(k) /\ UNCHANGED disk
  <2>1. CalmKernel(k) /\ CalmRecord /\ Quiet
    BY <1>1, EndCalm, EndQuiet, SameDiskCalm
  <2> QED BY <2>1, QuietSignals, CalmLaunches DEF CalmKernel, Quiet, StaysOpen
<1>2. CASE /\ outer[tgt[k]] = "alive"
           /\ gate' = [gate EXCEPT ![tgt[k]] = "open"]
           /\ Write(k, "update", Record("running", tgt[k]))
           /\ UNCHANGED <<disk, outer, inner, sig>>
  <2>1. tgt[k] \in Pids /\ gate[tgt[k]] = "closed"
    BY DEF SendMaps, HandshakeInv
  <2>2. Unarmed
    BY <1>2, WriteUnarmed DEF Deadly
  <2>3. gate'[tgt[k]] = "open" /\ (\A q \in Pids : q # tgt[k] => gate'[q] = gate[q])
    BY <1>2, <2>1 DEF TypeOK, KernelOK
  <2>4. ASSUME NEW q \in Pids
        PROVE  [Seen(q)!Next]_(Seen(q)!vars)
    <3>1. Named(q)' = Named(q) /\ Outer(q)' = Outer(q) /\ Inner(q)' = Inner(q)
      BY <1>2 DEF disk, Named, Outer, Inner
    <3>2. CASE q # tgt[k]
      BY <2>3, <3>1, <3>2, SeenStutter DEF Starter
    <3>3. CASE q = tgt[k]
      <4>1. Starter(q) = "starting" /\ Starter(q)' = "released" /\ Outer(q) = "alive"
        BY <1>2, <2>1, <2>3, <3>3 DEF Starter, Outer
      <4> QED BY <3>1, <4>1 DEF Seen!Next, Seen!Release
    <3> QED BY <3>2, <3>3
  <2> QED BY <1>2, <2>2, <2>3, <2>4 DEF Signals, Unarmed, StaysOpen
<1> QED BY <1>1, <1>2 DEF SendMaps

LEMMA CrashLaunches ==
  ASSUME TypeOK, HandshakeInv, NEW k \in Actors, Crash(k)
  PROVE  Signals /\ StaysOpen /\ \A q \in Pids : [Seen(q)!Next]_(Seen(q)!vars)
<1>1. Unarmed /\ Reaps /\ sig' = sig
  BY IdleUnarmed, OrphanReaps DEF Crash
<1>2. CalmKernel(k) /\ CalmRecord
  BY OrphanCalm DEF Crash, CalmRecord
<1> QED BY <1>1, <1>2, QuietSignals, CalmLaunches DEF CalmKernel, Quiet, StaysOpen

LEMMA HearEofLaunches ==
  ASSUME TypeOK, NEW p \in Pids, HearEof(p)
  PROVE  Signals /\ StaysOpen /\ \A q \in Pids : [Seen(q)!Next]_(Seen(q)!vars)
<1>1. /\ outer[p] = "alive" /\ gate[p] = "closed"
      /\ UNCHANGED <<record, outer, inner, sig, pc, tgt>>
  BY DEF HearEof, disk, locals
<1>2. gate'[p] = "eof" /\ (\A q \in Pids : q # p => gate'[q] = gate[q])
  BY DEF HearEof, TypeOK, KernelOK
<1>3. ASSUME NEW q \in Pids
      PROVE  [Seen(q)!Next]_(Seen(q)!vars)
  <2>1. Named(q)' = Named(q) /\ Outer(q)' = Outer(q) /\ Inner(q)' = Inner(q)
    BY <1>1 DEF Named, Outer, Inner
  <2>2. CASE q # p
    BY <1>2, <2>1, <2>2, SeenStutter DEF Starter
  <2>3. CASE q = p
    <3>1. Starter(q)' = "gone" /\ Outer(q) # "unborn"
      BY <1>1, <1>2, <2>3 DEF Starter, Outer
    <3> QED BY <2>1, <3>1 DEF Seen!Next, Seen!Leave
  <2> QED BY <2>2, <2>3
<1> QED BY <1>1, <1>2, <1>3 DEF Signals, StaysOpen

LEMMA ProcessLaunches ==
  ASSUME TypeOK, SignalInv, NEW p \in Pids, ProcessStep(p)
  PROVE  Signals /\ StaysOpen /\ \A q \in Pids : [Seen(q)!Next]_(Seen(q)!vars)
<1>0. SUFFICES ASSUME ~HearEof(p)
               PROVE  Signals /\ StaysOpen /\ \A q \in Pids : [Seen(q)!Next]_(Seen(q)!vars)
  BY HearEofLaunches
<1>1. UNCHANGED <<record, gate, pc, tgt>>
  BY <1>0 DEF ProcessStep, ChildRun, ChildFail, InnerExit, OuterExit, Deliver, disk, locals
<1>2. Signals
  <2>1. \A q \in Pids : sig'[q] \in {sig[q], "none"}
    BY <1>0 DEF ProcessStep, ChildRun, ChildFail, InnerExit, OuterExit, Deliver, Dies,
                TypeOK, KernelOK
  <2> QED BY <1>1, <2>1 DEF Signals
<1>3. \A q \in Pids : q # p => outer'[q] = outer[q] /\ inner'[q] = inner[q]
  BY <1>0 DEF ProcessStep, ChildRun, ChildFail, InnerExit, OuterExit, Deliver, Dies,
              TypeOK, KernelOK
<1>4. \A q \in Pids : Starter(q)' = Starter(q) /\ Named(q)' = Named(q)
  BY <1>1 DEF Starter, Named
<1>5. [Seen(p)!Next]_(Seen(p)!vars)
  <2>1. CASE ChildRun(p)
    <3>1. /\ outer'[p] = outer[p] /\ outer[p] = "alive" /\ gate[p] # "closed"
          /\ inner[p] = "none" /\ inner'[p] = "alive"
      BY <2>1 DEF ChildRun, TypeOK, KernelOK
    <3>2. /\ Starter(p) # "starting"
          /\ Outer(p)' = Outer(p) /\ Outer(p) = "alive"
          /\ Inner(p) = "none" /\ Inner(p)' = "alive"
      BY <3>1 DEF Starter, Outer, Inner, TypeOK, KernelOK
    <3> QED BY <1>4, <3>2 DEF Seen!Next, Seen!Run
  <2>2. CASE InnerExit(p)
    <3>1. outer' = outer /\ inner[p] = "alive" /\ inner'[p] = "dead"
      BY <2>2 DEF InnerExit, TypeOK, KernelOK
    <3>2. Outer(p)' = Outer(p) /\ Inner(p) = "alive" /\ Inner(p)' = "dead"
      BY <3>1 DEF Outer, Inner
    <3> QED BY <1>4, <3>2 DEF Seen!Next, Seen!Exit
  <2>3. CASE ChildFail(p) \/ OuterExit(p) \/ Deliver(p)
    <3>1. /\ outer[p] = "alive" /\ outer'[p] \in {"zombie", "gone"} /\ inner' = inner
          /\ inner[p] = "alive" => sig[p] # "none"
      BY <2>3 DEF ChildFail, OuterExit, Deliver, Dies, TypeOK, KernelOK
    <3>2. /\ Outer(p) = "alive" /\ Outer(p)' = "dead" /\ Inner(p)' = Inner(p)
          /\ Inner(p) = "alive" => Starter(p) = "released"
      BY <3>1 DEF SignalInv, Starter, Outer, Inner
    <3> QED BY <1>4, <3>2 DEF Seen!Next, Seen!Die
  <2> QED BY <1>0, <2>1, <2>2, <2>3 DEF ProcessStep
<1>6. ASSUME NEW q \in Pids
      PROVE  [Seen(q)!Next]_(Seen(q)!vars)
  <2>1. CASE q # p
    BY <1>3, <1>4, <2>1, SeenStutter DEF Outer, Inner
  <2> QED BY <1>5, <2>1
<1> QED BY <1>1, <1>2, <1>6 DEF StaysOpen

LEMMA SignalInit == Init => SignalInv
BY DEF Init, SignalInv, Deadly

LEMMA LaunchInit == ASSUME Init PROVE \A p \in Pids : Launch(p)!Init
<1>1. record.pid = NoPid /\ NoPid \notin Pids
  BY DEF Init, NoRecord, NoPid, Pids
<1> QED BY <1>1 DEF Init, Launch!Init

LEMMA LaunchStep ==
  ASSUME TypeOK, HandshakeInv, SignalInv, [Next]_vars
  PROVE  SignalInv' /\ \A p \in Pids : [Launch(p)!Next]_(Launch(p)!vars)
<1> SUFFICES Signals /\ StaysOpen /\ \A p \in Pids : [Seen(p)!Next]_(Seen(p)!vars)
  BY SignalStep, SeenStep
<1>1. ASSUME UNCHANGED <<disk, kernel>>, Unarmed
      PROVE  Signals /\ StaysOpen /\ \A p \in Pids : [Seen(p)!Next]_(Seen(p)!vars)
  <2>1. CalmKernel(InitProc) /\ CalmRecord /\ Reaps /\ sig' = sig
    BY <1>1, SameKernelCalm, SameDiskCalm, SameKernelReaps
  <2> QED BY <1>1, <2>1, QuietSignals, CalmLaunches DEF CalmKernel, Quiet, StaysOpen
<1>2. ASSUME NEW k \in Clients, Begin(k)
      PROVE  Unarmed
  <2>1. PICK c \in Commands : pc' = [pc EXCEPT ![k] = Head(c)]
    BY <1>2 DEF Begin
  <2>2. Head(c) \in Methods
    <3>1. c \in Seq(Methods) /\ c # <<>>
      BY ConstantFacts
    <3> QED BY <3>1
  <2> QED BY <1>2, <2>1, <2>2, MethodsAreNotDeadly DEF Begin, locals, Unarmed, TypeOK, ControlOK
<1>3. ASSUME NEW k \in Actors, Step(k)
      PROVE  Signals /\ StaysOpen /\ \A p \in Pids : [Seen(p)!Next]_(Seen(p)!vars)
  <2>1. CASE Fork(k) \/ SendMaps(k)
    BY <2>1, ForkLaunches, SendMapsLaunches
  <2>2. CASE ~Fork(k) /\ ~SendMaps(k)
    <3>1. CalmKernel(k) /\ CalmRecord
      BY <1>3, <2>2, CalmSteps
    <3>2. Signals /\ Reaps
      BY <1>3, <2>2, QuietSteps, QuietSignals, StopSignals DEF Quiet
    <3> QED BY <3>1, <3>2, CalmLaunches DEF CalmKernel, StaysOpen
  <2> QED BY <2>1, <2>2
<1>4. CASE UNCHANGED vars
  <2>1. UNCHANGED <<disk, kernel>> /\ Unarmed
    BY <1>4 DEF vars, locals, Unarmed
  <2> QED BY <1>1, <2>1
<1> QED BY <1>1, <1>2, <1>3, <1>4, CrashLaunches, ProcessLaunches, NextCases DEF Begin

\* Whatever the commands, their interleaving and their crashes, a process is
\* recorded, and killed by stop(), only after its start() has released it alive,
\* and the user's command runs in it only after that start() has released it or
\* has ended: the promise that the handshake keeps by itself is kept by all of
\* the commands together.
THEOREM LaunchesPromised == Spec => LaunchesAsPromised
<1>1. TypeOK /\ HandshakeInv /\ SignalInv /\ [Next]_vars =>
        /\ TypeOK' /\ HandshakeInv' /\ SignalInv'
        /\ \A p \in Pids : [Launch(p)!Next]_(Launch(p)!vars)
  BY TypeStep, HandshakeStep, LaunchStep
<1>2. Init => \A p \in Pids : Launch(p)!Init
  BY LaunchInit
<1> QED BY InitOK, HandshakeInit, SignalInit, <1>1, <1>2, PTL DEF Spec, LaunchesAsPromised
===============================================================================
