------------------------- MODULE ContainerLifecycle --------------------------
(***************************************************************************)
(* The life of one container: its directory on disk (container/state.py),  *)
(* the kernel processes of its successive starts, and the processes that   *)
(* work on it without any lock: pybox commands (container/runtime.py,      *)
(* cli/commands), the watchers that detached starts leave behind, and the  *)
(* recovery of the daemon (daemon/main.py).  Containers share nothing, so  *)
(* one is enough.                                                          *)
(*                                                                         *)
(* A command is the sequence of the methods it calls, e.g.                 *)
(* <<"create", "start", "wait", "remove">> for "pybox run --rm".           *)
(*                                                                         *)
(* Operators whose name has a suffix after "_" are faulty variants of the  *)
(* operator that follows them.  Nothing uses them: replacing the operator  *)
(* by its variant shows that a property can fail.                          *)
(***************************************************************************)
EXTENDS Naturals, Sequences

CONSTANTS
  Clients,     \* processes that execute commands, one command at a time
  MaxForks,    \* bound on the number of container processes ever forked
  Commands,    \* the commands the clients may execute
  OneShot,     \* TRUE: the client is a CLI process that exits after a command
               \* FALSE: it is a program that keeps using a ContainerManager
  Serialised,  \* TRUE: a command begins only when no other one is executing
  TermHandled, \* TRUE: a client has a SIGTERM handler, which the child inherits
  CrashesAllowed

Methods == {"create", "start", "wait", "watch", "stop", "remove", "recover"}
Pids == 1 .. MaxForks
NoPid == 0
InitProc == 0 \* the host's init, which adopts orphans

ASSUME LifecycleAssumption ==
  /\ MaxForks \in Nat
  /\ Clients \cap (Pids \cup {InitProc}) = {}
  /\ Commands \subseteq Seq(Methods) \ {<<>>}
  /\ {OneShot, Serialised, TermHandled, CrashesAllowed} \subseteq BOOLEAN

\* The watcher that the start of process p leaves behind is called p, too.
Actors == Clients \cup Pids

VARIABLES
  \* The container directory and what hangs on it
  record,    \* state.json: [st, pid]
  fds,       \* actors between the open and the write of a write_text on it
  config,    \* config.json exists
  dir,       \* the directory exists
  mounted,   \* the overlay is mounted on rootfs/
  cgroup,    \* the cgroup directory exists
  \* Kernel state of the processes forked by start()
  outer,     \* the forked child, whose pid is recorded: it waits for...
  inner,     \* ...its own child, PID 1 of the container, the user's command
  parent,    \* who may waitpid() the outer process: an actor or init
  sig,       \* the strongest signal sent to the outer process
  gate,      \* the maps_done pipe, as the child sees it
  joined,    \* membership of the cgroup
  \* The actors
  pc, todo,  \* the method being executed, and those left in the command
  tgt,       \* local variable pid
  val,       \* the state and pid about to be written to state.json
  entries,   \* what rmtree still has to unlink
  \* History
  born,      \* the container id has been drawn
  removing   \* some remove() has passed its check

disk == <<record, fds, config, dir, mounted, cgroup>>
kernel == <<outer, inner, parent, sig, gate, joined>>
locals == <<tgt, val, entries>>
history == <<born, removing>>
vars == <<disk, kernel, pc, todo, locals, history>>

Readable == {"created", "running", "stopped"}
FileStates == {"absent", "empty", "garbage"} \cup Readable
Entries == {"config", "record"}
PCs == {"idle"} \cup Methods \cup
       {"config", "fork", "maps", "update", "set_state", "truncate", "fill",
        "waitpid", "alive?", "kill", "poll", "reap",
        "unmount", "cgroup", "rmtree", "unlink"}

DiskOK ==
  /\ record \in [st : FileStates, pid : Pids \cup {NoPid}]
  /\ fds \subseteq Actors
  /\ config \in BOOLEAN /\ dir \in BOOLEAN /\ mounted \in BOOLEAN /\ cgroup \in BOOLEAN

KernelOK ==
  /\ outer \in [Pids -> {"unborn", "alive", "zombie", "gone"}]
  /\ inner \in [Pids -> {"none", "alive", "dead"}]
  /\ parent \in [Pids -> Actors \cup {InitProc}]
  /\ sig \in [Pids -> {"none", "term", "kill"}]
  /\ gate \in [Pids -> {"closed", "open", "eof"}]
  /\ joined \in [Pids -> {"no", "offered", "yes"}]

ControlOK ==
  /\ pc \in [Actors -> PCs]
  /\ todo \in [Actors -> Seq(Methods)]
  /\ tgt \in [Actors -> Pids \cup {NoPid}]
  /\ val \in [Actors -> [st : Readable, pid : Pids \cup {NoPid}]]
  /\ entries \in [Actors -> SUBSET Entries]

HistoryOK == born \in BOOLEAN /\ removing \in BOOLEAN

TypeOK == DiskOK /\ KernelOK /\ ControlOK /\ HistoryOK

NoRecord == [st |-> "absent", pid |-> NoPid]
Record(s, p) == [st |-> s, pid |-> p]
NoVal == Record("created", NoPid)

Init ==
  /\ record = NoRecord
  /\ fds = {}
  /\ config = FALSE /\ dir = FALSE /\ mounted = FALSE /\ cgroup = FALSE
  /\ outer = [p \in Pids |-> "unborn"]
  /\ inner = [p \in Pids |-> "none"]
  /\ parent = [p \in Pids |-> InitProc]
  /\ sig = [p \in Pids |-> "none"]
  /\ gate = [p \in Pids |-> "closed"]
  /\ joined = [p \in Pids |-> "no"]
  /\ pc = [k \in Actors |-> "idle"]
  /\ todo = [k \in Actors |-> <<>>]
  /\ tgt = [k \in Actors |-> NoPid]
  /\ val = [k \in Actors |-> NoVal]
  /\ entries = [k \in Actors |-> {}]
  /\ born = FALSE /\ removing = FALSE

------------------------------------------------------------------------------
\* Control flow of an actor

At(k, label) == pc[k] = label

Goto(k, label) ==
  /\ pc' = [pc EXCEPT ![k] = label]
  /\ UNCHANGED <<todo, locals>>

\* Go on with process p as the target of what follows.
Aim(k, label, p) ==
  /\ pc' = [pc EXCEPT ![k] = label]
  /\ tgt' = [tgt EXCEPT ![k] = p]
  /\ UNCHANGED <<todo, val, entries>>

\* Go on with r as what state.json is to become.
Write(k, label, r) ==
  /\ pc' = [pc EXCEPT ![k] = label]
  /\ val' = [val EXCEPT ![k] = r]
  /\ UNCHANGED <<todo, tgt, entries>>

\* Go on unlinking the entries es.
Unlink(k, es) ==
  /\ pc' = [pc EXCEPT ![k] = "unlink"]
  /\ entries' = [entries EXCEPT ![k] = es]
  /\ UNCHANGED <<todo, tgt, val>>

Idle(k) ==
  /\ pc' = [pc EXCEPT ![k] = "idle"]
  /\ todo' = [todo EXCEPT ![k] = <<>>]
  /\ tgt' = [tgt EXCEPT ![k] = NoPid]
  /\ val' = [val EXCEPT ![k] = NoVal]
  /\ entries' = [entries EXCEPT ![k] = {}]

\* A process that exits hands its children to init, which reaps zombies.
Orphan(k) ==
  /\ parent' = [p \in Pids |-> IF parent[p] = k THEN InitProc ELSE parent[p]]
  /\ outer' = [p \in Pids |-> IF parent[p] = k /\ outer[p] = "zombie"
                              THEN "gone" ELSE outer[p]]

\* The command is over, normally or by an exception nobody in it catches.
End(k) ==
  /\ Idle(k)
  /\ IF OneShot
     THEN Orphan(k) /\ UNCHANGED <<inner, sig, gate, joined>>
     ELSE UNCHANGED kernel

\* The current method returns: on to the next one of the command.
Return(k) ==
  \/ /\ todo[k] = <<>>
     /\ End(k)
  \/ /\ todo[k] # <<>>
     /\ pc' = [pc EXCEPT ![k] = Head(todo[k])]
     /\ todo' = [todo EXCEPT ![k] = Tail(todo[k])]
     /\ val' = [val EXCEPT ![k] = NoVal]
     /\ entries' = [entries EXCEPT ![k] = {}]
     /\ UNCHANGED <<kernel, tgt>>

Begin(k) ==
  /\ At(k, "idle")
  /\ Serialised => \A j \in Clients : At(j, "idle")
  /\ \E c \in Commands :
       /\ pc' = [pc EXCEPT ![k] = Head(c)]
       /\ todo' = [todo EXCEPT ![k] = Tail(c)]
  /\ UNCHANGED <<disk, kernel, history, locals>>

------------------------------------------------------------------------------
\* StateManager.get, update, set_state (state.py)

\* get() on a missing or unreadable state.json raises.
Unreadable(k) ==
  /\ record.st \notin Readable
  /\ End(k)
  /\ UNCHANGED <<disk, history>>

\* update() merges the new fields into what it reads; set_state() gives the
\* state alone, so that the pid read here is written back.
Update(k) ==
  \/ /\ At(k, "update") \/ At(k, "set_state")
     /\ record.st \in Readable
     /\ Write(k, "truncate", IF At(k, "set_state") THEN Record(val[k].st, record.pid)
                              ELSE val[k])
     /\ UNCHANGED <<disk, kernel, history>>
  \/ /\ At(k, "update") \/ At(k, "set_state")
     /\ Unreadable(k)

\* write_text() opens (or creates) the file and truncates it...
Truncate_Mkdir(k) ==
  /\ At(k, "truncate")
  /\ dir' = TRUE
  /\ record' = Record("empty", NoPid)
  /\ fds' = fds \cup {k}
  /\ Goto(k, "fill")
  /\ UNCHANGED <<config, mounted, cgroup, kernel, history>>

Truncate(k) ==
  /\ At(k, "truncate")
  /\ \/ /\ dir
        /\ record' = Record("empty", NoPid)
        /\ fds' = fds \cup {k}
        /\ Goto(k, "fill")
        /\ UNCHANGED <<config, dir, mounted, cgroup, kernel>>
     \/ /\ ~dir
        /\ End(k)
        /\ UNCHANGED disk
  /\ UNCHANGED history

\* ...then writes from offset 0.  Over another text written since, the longer
\* of the two leaves its tail.  A file unlinked since is out of reach.
Fill(k) ==
  /\ At(k, "fill")
  /\ IF k \in fds
     THEN \/ record' = val[k]
          \/ /\ record.st # "empty" /\ record # val[k]
             /\ record' = Record("garbage", NoPid)
     ELSE UNCHANGED record
  /\ fds' = fds \ {k}
  /\ Return(k)
  /\ UNCHANGED <<config, dir, mounted, cgroup, history>>

------------------------------------------------------------------------------
\* ContainerManager.create (runtime.py)

CreateStorage(k) ==
  /\ At(k, "create")
  /\ ~born
  /\ born' = TRUE
  /\ dir' = TRUE
  /\ \/ /\ mounted' = TRUE
        /\ Goto(k, "config")
        /\ UNCHANGED kernel
     \/ /\ UNCHANGED mounted \* the mount fails; the directory stays
        /\ End(k)
  /\ UNCHANGED <<record, fds, config, cgroup, removing>>

CreateConfig_Late(k) ==
  /\ At(k, "config")
  /\ Write(k, "truncate", Record("created", NoPid))
  /\ UNCHANGED <<disk, kernel, history>>

CreateConfig(k) ==
  /\ At(k, "config")
  /\ config' = TRUE
  /\ Write(k, "truncate", Record("created", NoPid))
  /\ UNCHANGED <<record, fds, dir, mounted, cgroup, kernel, history>>

\* The id is a fresh random one: no other command creates this container.
CreateOther(k) ==
  /\ At(k, "create")
  /\ born
  /\ End(k)
  /\ UNCHANGED <<disk, history>>

Create(k) == CreateStorage(k) \/ CreateConfig(k) \/ CreateOther(k)

------------------------------------------------------------------------------
\* ContainerManager.start

StartCheck(k) ==
  /\ At(k, "start")
  /\ IF record.st \in {"created", "stopped"} /\ config
     THEN Goto(k, "fork") /\ UNCHANGED kernel
     ELSE End(k)
  /\ UNCHANGED <<disk, history>>

\* The cgroup is prepared on a best-effort basis: a failure leaves it absent,
\* or present without its limits, and the child is not told about it.
Fork(k) ==
  /\ At(k, "fork")
  /\ \E p \in Pids :
       /\ outer[p] = "unborn"
       /\ \A q \in 1 .. p - 1 : outer[q] # "unborn"
       /\ Aim(k, "maps", p)
       /\ outer' = [outer EXCEPT ![p] = "alive"]
       /\ parent' = [parent EXCEPT ![p] = k]
       /\ \/ cgroup' = TRUE /\ joined' = [joined EXCEPT ![p] = "offered"]
          \/ cgroup' \in {cgroup, TRUE} /\ UNCHANGED joined
  /\ UNCHANGED <<record, fds, config, dir, mounted, inner, sig, gate, history>>

\* os.fork() itself may fail.  (Pids run out as they do at the system's limit.)
ForkFails(k) ==
  /\ At(k, "fork")
  /\ cgroup' \in {cgroup, TRUE}
  /\ End(k)
  /\ UNCHANGED <<record, fds, config, dir, mounted, history>>

\* The handshake with the child, whose steps are in module InitHandshake: the
\* parent writes the id maps, then to the maps_done pipe.  Either may raise: an
\* OSError of the maps, whatever the child does, or BrokenPipeError when it has
\* died.  A child that lives waits for the end of the pipe, which a parent that
\* goes on never closes.
SendMaps_Unchecked(k) ==
  /\ At(k, "maps")
  /\ gate' = IF outer[tgt[k]] = "alive" THEN [gate EXCEPT ![tgt[k]] = "open"] ELSE gate
  /\ Write(k, "update", Record("running", tgt[k]))
  /\ UNCHANGED <<disk, outer, inner, parent, sig, joined, history>>

SendMaps(k) ==
  /\ At(k, "maps")
  /\ \/ /\ outer[tgt[k]] = "alive"
        /\ gate' = [gate EXCEPT ![tgt[k]] = "open"]
        /\ Write(k, "update", Record("running", tgt[k]))
        /\ UNCHANGED <<outer, inner, parent, sig, joined>>
     \/ End(k)
  /\ UNCHANGED <<disk, history>>

Start(k) == StartCheck(k) \/ Fork(k) \/ ForkFails(k) \/ SendMaps(k)

------------------------------------------------------------------------------
\* The watcher of a detached start (cli/commands/start.py, run.py)

\* The CLI forks the watcher, which takes the rest of the command, and exits.
SpawnWatcher(k) ==
  /\ At(k, "watch")
  /\ k \in Clients
  /\ Orphan(k)
  /\ UNCHANGED <<inner, sig, gate, joined>>
  /\ LET w == tgt[k]
     IN /\ pc' = [pc EXCEPT ![k] = "idle", ![w] = "watch"]
        /\ todo' = [todo EXCEPT ![k] = <<>>, ![w] = todo[k]]
        /\ tgt' = [tgt EXCEPT ![k] = NoPid]
  /\ UNCHANGED <<val, entries>>
  /\ UNCHANGED <<disk, history>>

WatchGet(w) ==
  /\ At(w, "watch")
  /\ w \in Pids
  /\ \/ Unreadable(w)
     \/ /\ record.st \in Readable
        /\ IF record.pid = NoPid THEN Return(w)
           ELSE Aim(w, "alive?", record.pid) /\ UNCHANGED kernel
        /\ UNCHANGED <<disk, history>>

\* kill(pid, 0) finds zombies, too.
WatchPoll_Early(w) ==
  /\ At(w, "alive?")
  /\ Write(w, "update", Record("stopped", NoPid))
  /\ UNCHANGED <<disk, kernel, history>>

WatchPoll_Silent(w) ==
  /\ At(w, "alive?")
  /\ outer[tgt[w]] = "gone"
  /\ Return(w)
  /\ UNCHANGED <<disk, history>>

WatchPoll(w) ==
  /\ At(w, "alive?")
  /\ outer[tgt[w]] = "gone"
  /\ Write(w, "update", Record("stopped", NoPid))
  /\ UNCHANGED <<disk, kernel, history>>

Watch(k) == SpawnWatcher(k) \/ WatchGet(k) \/ WatchPoll(k)

------------------------------------------------------------------------------
\* ContainerManager.wait

WaitGet(k) ==
  /\ At(k, "wait")
  /\ \/ Unreadable(k)
     \/ /\ record.st \in Readable
        /\ IF record.pid = NoPid THEN End(k)
           ELSE Aim(k, "waitpid", record.pid) /\ UNCHANGED kernel
        /\ UNCHANGED <<disk, history>>

Child(k, p) == parent[p] = k /\ outer[p] \in {"alive", "zombie"}

\* os.waitpid(p): blocks until the child p has died, raises ECHILD if there is
\* no such child.  The callers do the same in both cases.
Waitpid(k, p) ==
  \/ /\ Child(k, p) /\ outer[p] = "zombie"
     /\ outer' = [outer EXCEPT ![p] = "gone"]
     /\ UNCHANGED <<inner, parent, sig, gate, joined>>
  \/ /\ ~Child(k, p)
     /\ UNCHANGED kernel

WaitPid(k) ==
  /\ At(k, "waitpid")
  /\ Waitpid(k, tgt[k])
  /\ Write(k, "update", Record("stopped", NoPid))
  /\ UNCHANGED <<disk, history>>

Wait(k) == WaitGet(k) \/ WaitPid(k)

------------------------------------------------------------------------------
\* ContainerManager.stop

StopCheck(k) ==
  /\ At(k, "stop")
  /\ \/ Unreadable(k)
     \/ /\ record.st = "running" /\ record.pid # NoPid
        /\ Aim(k, "kill", record.pid)
        /\ UNCHANGED <<disk, kernel, history>>
     \/ /\ record.st \in Readable /\ (record.st # "running" \/ record.pid = NoPid)
        /\ Return(k)
        /\ UNCHANGED <<disk, history>>

SetStopped_Exited(k) == Write(k, "set_state", Record("exited", NoPid))

SetStopped(k) == Write(k, "set_state", Record("stopped", NoPid))

\* A signal to a zombie is accepted and has no effect.
Signal(p, s) == sig' = IF outer[p] = "alive" THEN [sig EXCEPT ![p] = s] ELSE sig

StopKill_NoWait(k) ==
  /\ At(k, "kill")
  /\ Signal(tgt[k], "term")
  /\ SetStopped(k)
  /\ UNCHANGED <<disk, outer, inner, parent, gate, joined, history>>

StopKill(k) ==
  /\ At(k, "kill")
  /\ \/ /\ outer[tgt[k]] = "gone"
        /\ SetStopped(k)
        /\ UNCHANGED sig
     \/ /\ outer[tgt[k]] # "gone"
        /\ Signal(tgt[k], IF sig[tgt[k]] = "kill" THEN "kill" ELSE "term")
        /\ Goto(k, "poll")
  /\ UNCHANGED <<disk, outer, inner, parent, gate, joined, history>>

StopPoll(k) ==
  /\ At(k, "poll")
  /\ Waitpid(k, tgt[k])
  /\ SetStopped(k)
  /\ UNCHANGED <<disk, history>>

\* The deadline may pass before the first poll: stop --time 0.
StopTimeout_NoKill(k) ==
  /\ At(k, "poll")
  /\ Goto(k, "reap")
  /\ UNCHANGED <<disk, kernel, history>>

StopTimeout(k) ==
  /\ At(k, "poll")
  /\ Signal(tgt[k], "kill")
  /\ Goto(k, "reap")
  /\ UNCHANGED <<disk, outer, inner, parent, gate, joined, history>>

StopReap(k) ==
  /\ At(k, "reap")
  /\ Waitpid(k, tgt[k])
  /\ SetStopped(k)
  /\ UNCHANGED <<disk, history>>

Stop(k) == StopCheck(k) \/ StopKill(k) \/ StopPoll(k) \/ StopTimeout(k) \/ StopReap(k)

------------------------------------------------------------------------------
\* ContainerManager.remove, StateManager.remove (shutil.rmtree)

RemoveCheck(k) ==
  /\ At(k, "remove")
  /\ \/ Unreadable(k)
     \/ /\ record.st = "running"
        /\ End(k)
        /\ UNCHANGED <<disk, history>>
     \/ /\ record.st \in Readable \ {"running"}
        /\ removing' = TRUE
        /\ Goto(k, "unmount")
        /\ UNCHANGED <<disk, kernel, born>>

\* Errors of umount and fusermount are ignored.
Unmount(k) ==
  /\ At(k, "unmount")
  /\ mounted' \in {FALSE, mounted}
  /\ Goto(k, "cgroup")
  /\ UNCHANGED <<record, fds, config, dir, cgroup, kernel, history>>

\* The kernel refuses to remove a cgroup with a live member; the error is
\* logged.
Members == {p \in Pids : joined[p] = "yes" /\ (outer[p] = "alive" \/ inner[p] = "alive")}

DeleteCgroup(k) ==
  /\ At(k, "cgroup")
  /\ cgroup' = (cgroup /\ Members # {})
  /\ Goto(k, "rmtree")
  /\ UNCHANGED <<record, fds, config, dir, mounted, kernel, history>>

RmtreeScan(k) ==
  /\ At(k, "rmtree")
  /\ \/ /\ dir
        /\ Unlink(k, {e \in Entries : IF e = "config" THEN config
                                      ELSE record.st # "absent"})
        /\ UNCHANGED kernel
     \/ /\ ~dir
        /\ Return(k)
  /\ UNCHANGED <<disk, history>>

\* An entry that another remove() has unlinked since makes rmtree raise, or is
\* ignored, according to the version of Python.
UnlinkConfig(k) ==
  /\ At(k, "unlink") /\ "config" \in entries[k]
  /\ config' = FALSE
  /\ \/ Unlink(k, entries[k] \ {"config"}) /\ UNCHANGED kernel
     \/ ~config /\ End(k)
  /\ UNCHANGED <<record, fds, dir, mounted, cgroup, history>>

UnlinkRecord(k) ==
  /\ At(k, "unlink") /\ "record" \in entries[k]
  /\ record' = NoRecord
  /\ fds' = {}
  /\ \/ Unlink(k, entries[k] \ {"record"}) /\ UNCHANGED kernel
     \/ record.st = "absent" /\ End(k)
  /\ UNCHANGED <<config, dir, mounted, cgroup, history>>

\* rmdir fails on what was not in the listing, and rootfs/ cannot go while
\* something is mounted on it.
Rmdir(k) ==
  /\ At(k, "unlink") /\ entries[k] = {}
  /\ \/ /\ dir /\ ~config /\ record.st = "absent" /\ ~mounted
        /\ dir' = FALSE
        /\ Return(k)
     \/ /\ ~dir \/ config \/ record.st # "absent" \/ mounted
        /\ UNCHANGED dir
        /\ End(k)
  /\ UNCHANGED <<record, fds, config, mounted, cgroup, history>>

Remove(k) ==
  \/ RemoveCheck(k) \/ Unmount(k) \/ DeleteCgroup(k) \/ RmtreeScan(k)
  \/ UnlinkConfig(k) \/ UnlinkRecord(k) \/ Rmdir(k)

------------------------------------------------------------------------------
\* DaemonServer._recover_state (daemon/main.py)

Recover(k) ==
  /\ At(k, "recover")
  /\ IF record.st = "running"
     THEN SetStopped(k) /\ UNCHANGED kernel
     ELSE End(k)
  /\ UNCHANGED <<disk, history>>

------------------------------------------------------------------------------
\* Crashes, and the kernel processes (container/init.py)

\* kill -9, Ctrl-C, loss of the terminal.
Crash(k) ==
  /\ CrashesAllowed
  /\ ~At(k, "idle")
  /\ Idle(k)
  /\ Orphan(k)
  /\ fds' = fds \ {k}
  /\ UNCHANGED <<record, config, dir, mounted, cgroup, inner, sig, gate, joined,
                 history>>

\* With the parent its end of the pipe has gone, and with the children it forked
\* since, which have inherited it, the last one.
HearEof(p) ==
  /\ outer[p] = "alive" /\ gate[p] = "closed"
  /\ parent[p] = InitProc
  /\ gate' = [gate EXCEPT ![p] = "eof"]
  /\ UNCHANGED <<disk, outer, inner, parent, sig, joined, pc, todo, locals, history>>

ChildRun_NoWait(p) ==
  /\ outer[p] = "alive" /\ inner[p] = "none"
  /\ inner' = [inner EXCEPT ![p] = "alive"]
  /\ joined' \in {[joined EXCEPT ![p] = m] :
                     m \in {"no"} \cup IF joined[p] = "offered" /\ cgroup
                                       THEN {"yes"} ELSE {}}
  /\ UNCHANGED <<disk, outer, parent, sig, gate, pc, todo, locals, history>>

\* container_init() after the handshake: child A moves itself into the cgroup
\* if it can, unshares the other namespaces and forks child B.  End of file on
\* the pipe is taken for the parent's byte.
ChildRun(p) ==
  /\ outer[p] = "alive" /\ inner[p] = "none"
  /\ gate[p] # "closed"
  /\ inner' = [inner EXCEPT ![p] = "alive"]
  /\ joined' \in {[joined EXCEPT ![p] = m] :
                     m \in {"no"} \cup IF joined[p] = "offered" /\ cgroup
                                       THEN {"yes"} ELSE {}}
  /\ UNCHANGED <<disk, outer, parent, sig, gate, pc, todo, locals, history>>

\* Init reaps at once, a living parent when it waits.
Dies(p) ==
  /\ outer' = [outer EXCEPT ![p] = IF parent[p] = InitProc THEN "gone" ELSE "zombie"]
  /\ sig' = [sig EXCEPT ![p] = "none"]

\* A step of the child fails before it has forked child B.
ChildFail(p) ==
  /\ outer[p] = "alive" /\ inner[p] = "none"
  /\ Dies(p)
  /\ UNCHANGED <<disk, inner, parent, gate, joined, pc, todo, locals, history>>

\* The user's command exits, is killed, or was never reached.
InnerExit(p) ==
  /\ inner[p] = "alive"
  /\ inner' = [inner EXCEPT ![p] = "dead"]
  /\ UNCHANGED <<disk, outer, parent, sig, gate, joined, pc, todo, locals, history>>

\* Child A has waited for child B, and exits with its code.
OuterExit(p) ==
  /\ outer[p] = "alive" /\ inner[p] = "dead"
  /\ Dies(p)
  /\ UNCHANGED <<disk, inner, parent, gate, joined, pc, todo, locals, history>>

\* A signal for child A kills child A: nothing passes it on to child B.
Deliver(p) ==
  /\ outer[p] = "alive"
  /\ sig[p] = "kill" \/ (sig[p] = "term" /\ ~TermHandled)
  /\ Dies(p)
  /\ UNCHANGED <<disk, inner, parent, gate, joined, pc, todo, locals, history>>

ProcessStep(p) ==
  \/ HearEof(p) \/ ChildRun(p) \/ ChildFail(p) \/ InnerExit(p) \/ OuterExit(p) \/ Deliver(p)

------------------------------------------------------------------------------
\* One step of a method
Step(k) ==
  \/ Update(k) \/ Truncate(k) \/ Fill(k)
  \/ Create(k) \/ Start(k) \/ Wait(k) \/ Watch(k) \/ Stop(k) \/ Remove(k) \/ Recover(k)

Next ==
  \/ \E k \in Clients : Begin(k)
  \/ \E k \in Actors : Step(k) \/ Crash(k)
  \/ \E p \in Pids : ProcessStep(p)

Spec == Init /\ [][Next]_vars

\* The scheduler runs every process that can run, and the kernel delivers
\* signals.  Nobody has to execute a command, and a user's command may run
\* for ever.
Fairness ==
  /\ \A k \in Actors : WF_vars(Step(k))
  /\ \A p \in Pids : /\ WF_vars(ChildRun(p))
                     /\ WF_vars(OuterExit(p))
                     /\ WF_vars(Deliver(p))

FairSpec == Spec /\ Fairness

------------------------------------------------------------------------------
\* Safety

\* start() publishes a pid only after the handshake: the process in the record
\* is never one that died, or was abandoned, before the parent released it.
PublishedPidsStarted == record.pid # NoPid => gate[record.pid] = "open"

\* create() writes the record last, so that whoever can read it finds a
\* container it can start - until a remove() begins to take it apart.
PublishedIsComplete ==
  record.st \in Readable /\ ~removing => dir /\ mounted /\ config

\* update() never brings a removed container back: a command that is late
\* finds no directory to write to.
RemovedStaysRemoved == [][born /\ ~dir => ~dir']_vars

\* start() is done with process p.
Started(p) == gate[p] = "open" /\ \A k \in Clients : val[k] # Record("running", p)

\* A container that is started once, and no recovery: a record that says
\* stopped was written by somebody who saw the container process gone, or who
\* has sent it a signal.
StoppedIsOver ==
  record.st = "stopped" =>
    \A p \in Pids : Started(p) => outer[p] # "alive" \/ sig[p] # "none"

\* What state.py says of STOPPED: "container has exited".
StoppedMeansExited ==
  record.st = "stopped" => \A p \in Pids : Started(p) => inner[p] # "alive"

------------------------------------------------------------------------------
\* The promise to a program alone with the container.  A record in the middle
\* of its write counts as written.  A child whose start() has raised before it was
\* released is a stray: it waits, and is no process of the container any more.

Writer(k) == pc[k] = "fill"
abstractState ==
  IF \E k \in Actors : Writer(k) THEN (CHOOSE v \in {val[k] : k \in {j \in Actors : Writer(j)}} : TRUE).st
  ELSE IF record.st # "absent" THEN record.st
  ELSE IF removing THEN "removed" ELSE "none"

Waited(p) == \E k \in Actors : At(k, "maps") /\ tgt[k] = p
Strays == {p \in Pids : outer[p] = "alive" /\ gate[p] = "closed" /\ ~Waited(p)}

Promise == INSTANCE ContainerPromise WITH
  Process <- Pids,
  st <- abstractState,
  up <- {p \in Pids : outer[p] = "alive"} \ Strays,
  stray <- Strays

KeepsPromise == Promise!Spec

\* Each container process by itself, for any clients: what module InitHandshake
\* shows of the steps that are one here, and what stop() adds to it.
Launch(p) == INSTANCE ContainerLaunch WITH
  starter <- CASE gate[p] = "closed" -> "starting"
               [] gate[p] = "open"   -> "released"
               [] gate[p] = "eof"    -> "gone",
  recorded <- record.pid = p,
  outer <- IF outer[p] \in {"zombie", "gone"} THEN "dead" ELSE outer[p],
  inner <- inner[p]

\* No process is recorded, or killed by stop(), that start() has not released,
\* and none runs the user's command before (runtime.py:234, 300, 322), whatever
\* commands and watchers do with a record that is older than the process, or
\* younger, and whoever is killed.
LaunchesAsPromised ==
  /\ \A p \in Pids : Launch(p)!Init
  /\ [][\A p \in Pids : [Launch(p)!Next]_(Launch(p)!vars)]_vars

------------------------------------------------------------------------------
\* Liveness, in the absence of crashes

\* The death of a container that is recorded as running is noticed.
DeadIsNoticed ==
  \A p \in Pids :
    (record = Record("running", p) /\ outer[p] = "gone") ~> (record # Record("running", p))

\* stop() returns, even from a container that ignores SIGTERM.
StopReturns == \A k \in Clients : pc[k] = "stop" ~> pc[k] = "idle"

==============================================================================
