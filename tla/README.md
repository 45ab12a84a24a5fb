# A TLA+ model of pybox

pybox is a container runtime written in Python: a command line that pulls
images, mounts them, starts processes in namespaces and keeps a record of each
container in a JSON file. There is no lock around a container. Commands,
watchers that detached containers leave behind, and an optional daemon all read
and rewrite the same files and act on the same processes, and each may be
killed anywhere. That is where tests do not reach, and what these modules are
about.

Paths below are relative to `src/pybox/`.

## Inventory

| Component | State it keeps | Operations | Talks to | What makes it correct |
|---|---|---|---|---|
| Container records (`container/state.py`) | `<id>/state.json` | get, create, update, set_state, remove, list_all, resolve | everybody | a record is what somebody wrote last; a removed container stays removed |
| Container manager (`container/runtime.py`) | the directory, the overlay mount, the cgroup, the processes | create, start, wait, stop, remove | records, cgroups, overlay, the forked child | the record agrees with the processes; what is visible is complete; stop and wait return |
| Container init (`container/init.py`) | two pipes, two levels of processes | one handshake, then set-up and exec | the parent, over the pipes | maps before namespaces, no deadlock, failures come out as exit codes |
| Commands and watchers (`cli/commands/{run,start,stop,rm}.py`) | none of their own | sequences of manager methods; a watcher polls the pid | the manager | a container that dies is noticed |
| Daemon (`daemon/`) | a socket | recovery at start-up; ps, inspect, stop, rm | the manager | replies match requests; recovery tells the truth |
| Addresses (`network/ipam.py`) | `ipam.json`, `ipam.lock` | allocate, release | network manager | addresses are unique and all accounted for |
| Network manager (`network/manager.py`, bridge, veth, nat, dns) | endpoint files, interfaces, rules | setup, teardown, network rm | addresses, kernel tools | no two containers share an address; what is saved is what the container has; nothing leaks that is not known to |
| Image puller (`image/puller.py`, `layer.py`) | layer archives, extracted layers, manifests | pull | registry | cached means complete |
| Image store (`image/tag.py`, `commit.py`, `cli/commands/rmi.py`) | image directories, the tag table | tag, untag, commit, rmi | build, push | a tag names an image that is there; no command loses the tags of others |
| Build (`image/builder.py`, `build_spec.py`, `python_step.py`, `storage/layer_cache.py`, `snapshot.py`) | cache entries by step hash, archives in `tmp/`, ephemeral containers | build | store, manager, overlay | an image has the layers of its steps, made from the files as they are in its directory |
| Registry (`registry/`) | tokens, temporary files | manifests, layers, push, mirror | the network | verified content, blobs before the manifest |
| Exec (`container/exec.py`) | open namespaces | exec | the recorded process | the command runs inside the container |
| Storage (`storage/overlay.py`) | mounts | mount, umount | kernel | what is mounted is unmounted |
| Logs (`container/logs.py`) | a log file | stream | | nothing lost, nothing twice |
| Rootless (`rootless/`) | helper processes | slirp, port proxy | kernel | connections end on both sides |

The hard behaviours: several processes rewriting `state.json` without a lock and
without atomic replacement; parent and child relations that decide who may
`waitpid`; signals to a process that is not the one that should die; commands
killed between two steps; a lock that is a file; the two pipes of the handshake,
where the death of one side must be the end of file of the other; an image store
that several pulls, builds and commits fill at once, where a name on the disk is
all that says what is complete; a tag table that three commands rewrite; a network
set up by a dozen external commands, each of which may fail.

PROJECT.json lists every hazard at its line, and the properties for it.

## Modules

| Module | Models |
|---|---|
| `AddressPool` | abstract: what the address pool promises its callers |
| `Ipam` | `network/ipam.py`, in steps; implements `AddressPool` |
| `IpamProofs` | theorems about `Ipam` |
| `MCIpam` | instance for TLC |
| `ContainerPromise` | abstract: what the manager promises a program alone with a container |
| `ContainerLaunch` | abstract: what a start and the process it forks owe each other |
| `ContainerLifecycle` | one container between commands, watchers and the kernel; implements `ContainerLaunch` for each process, and `ContainerPromise` in the situation it speaks of |
| `ContainerLifecycleProofs` | theorems about `ContainerLifecycle` |
| `ContainerPromiseProofs` | `ContainerLifecycle` implements `ContainerPromise` for a program that is alone |
| `MCContainer` | command sets for TLC |
| `InitHandshake` | one `start()` from the fork on, with both levels of children, and an `exec` that comes meanwhile; implements `ContainerLaunch` |
| `InitHandshakeProofs` | theorems about `InitHandshake` |
| `LayerStore` | processes that pull one image into one store: downloads, extraction, manifest |
| `LayerStoreProofs` | theorems about `LayerStore` |
| `MCLayerStore` | instances for TLC |
| `NetworkSetup` | programs that connect containers to the bridge and disconnect them; takes addresses as `AddressPool` promises |
| `NetworkSetupProofs` | theorems about `NetworkSetup` |
| `MCNetworkSetup` | instance for TLC |
| `ImageStore` | the steps of commit, tag, untag, rmi and push on one store |
| `ImageBuild` | builds with their cache; composed with `ImageStore`, whose commits write what they made |
| `ImageBuildProofs` | theorems about the two |
| `FreshImageProofs` | theorems about what a build makes its image of |
| `MCImages` | instance for TLC |

In each module an operator with a suffix after `_` (`WatchPoll_Early`) is a
deliberately wrong variant of the operator below it, used by nothing: putting it
in the place of the right one shows that a property can fail.

### Ipam

A process is idle, at the lock, or inside it. `Acquire`, `Retry`,
`LockTimeout` and `LockError` are the outcomes of one turn of the loop in `__enter__`
(lines 129-136). Inside, `Choose`, `Exhausted` or `Discard` is the part of
`allocate()` or `release()` up to `_save`, and `Truncate` and `Fill` are the two
halves of `write_text`. `Return` and `Raise` run `__exit__`. `Crash` ends a
process anywhere and leaves the lock file, as the code would. `OpenFails` is an `OSError`
before anything is changed, `FillFails` one in the write: the lock goes, and the content of
the file is lost. An `OSError` in the read is caught (line 109) and the file counts as empty
(`Reads`), so that the save that follows drops what it said. From either of the two on the
history variable `lost` is true, and the properties about addresses except it by name.

Addresses are the positions of `network.hosts()`; the gateway is one of them.
`held` belongs to the callers: the addresses they were given and have not given
back. Callers release only what they hold.

### ContainerLifecycle

Containers share no state, so one is modelled. A command is a sequence of
methods; an actor works through it one file operation or system call at a time,
with `pc` naming the next one:

| `pc` | Code |
|---|---|
| `create`, `config` | `create()` up to the mount; `config.json` |
| `truncate`, `fill` | the two halves of `write_text` on `state.json` |
| `update`, `set_state` | the read in `update()`; the merge keeps the pid unless a new one is given |
| `start`, `fork`, `maps` | the checks; the cgroup and `os.fork()`; the handshake, as one step |
| `wait`, `waitpid` | the two halves of `wait()` |
| `watch`, `alive?` | the watcher: the read of the pid, then the polling |
| `stop`, `kill`, `poll`, `reap` | the check; SIGTERM; the WNOHANG loop; after SIGKILL |
| `remove`, `unmount`, `cgroup`, `rmtree`, `unlink` | `remove()`, `cgroup.delete()` and `shutil.rmtree` entry by entry |
| `recover` | `_recover_state()` of the daemon |

`outer[p]` is the forked process, whose pid is recorded; `inner[p]` is its
child, PID 1 of the container. A zombie answers `kill(pid, 0)` and is gone when
its parent has waited, or when its parent has exited and init has. A signal
reaches `outer[p]` only. `gate[p]` is the pipe the child waits on: released
(`open`) or closed by a dead parent (`eof`), which the child cannot tell apart. A
`start()` that raises before the release - the id maps cannot be written, or the child has
died - leaves the pipe open in a program that goes on, so that a child that lives waits
at it (`Strays`) until the program has gone (`HearEof`).

Abstractions, and why they are sound here:

- Pids are never reused; the model has `MaxForks` of them and running out stands
  for a failing `os.fork()`. Reuse is listed as a hazard.
- `rm` reads the state once itself and then calls the same checks in `stop()` and
  `remove()`; the first read is left out, since it only narrows what happens.
- The fork of the watcher and the exit of the command that forked it are one
  step. The watcher is named after the container process it follows.
- Two writers that hold `state.json` open may leave any mixture of two texts;
  what cannot be parsed is `garbage`.
- `rmtree` ignores or raises on an entry somebody else has unlinked, depending on
  the version of Python. Both are allowed.
- The `os.fork()` of the watcher (`run.py:104`, `start.py:64`) does not fail here: a
  container whose watcher could not be forked is recorded as running until somebody
  stops or waits for it.
- What `umount` and cgroup writes do may fail without the code noticing,
  and so may the model.

### InitHandshake

`P` is the parent in `start()` (lines 220-237), `A` the forked child in
`container_init()`, `B` the child of `A`. A pipe is a byte, its writers and its
readers: `read` returns when there is a byte or no writer, `write` raises when
there is no reader. Every set-up step may fail, the parent may be killed at any
point, and the fork of `newuidmap` may raise. `X` is `exec_in_container()`: it reads
the record, opens the namespaces of the recorded process in the order of
`_NS_TYPES`, forks and enters what it could open, one by one; `setns()` may refuse any of
them, which is logged, and the loop goes on to the next (`entered`, `refused`). The five namespaces after the user
namespace are made by one `unshare()` and are one element, `others`: opening some of
them counts as opening them, and entering some as entering them. `spaces` is what `A` has of its own, so an exec that
comes before `A` has made them opens those of the host, which it is in already.
The recorded pid is `A`'s, whose own PID namespace stays that of the host; the model has
no PID namespace for `X` to miss. `ContainerLifecycle` has the same
handshake as one step, `SendMaps`, and the child's part as `ChildRun` and
`ChildFail`; this module is where its interleavings are. What the two have in common is
`ContainerLaunch`, which both implement: a child is released only alive and by its parent,
runs nothing of the container before, is recorded only after, and outlives its own child
unless it was killed after its release. So what `ContainerLifecycle` builds on its one step
is what the pipes keep.

### LayerStore

A pull is `idle`, waits for its downloads (`gather`), extracts layer after layer
(`layers`, and `members`, `member`, `mark` inside one), downloads the config blob
(`config`), and has `returned` or `raised`. `raised` is the time between an
exception and the end of the process, in which the other download tasks go on
until they are cancelled: `End` cancels them where they await, which is not
inside `unlink`, and leaves their temporary files, because `CancelledError` is no
`Exception`. `free` is the semaphore of the pull: a task that finds a slot takes it
(`Request`; `Reuse` takes and returns it in one step) and returns it at each of its ends
(`Refused`, `Rename`, `Cleanup`). `Miss`, `Gathered`, `SaveManifest` and `SaveConfig` are the steps of
`pull()`; `Extract` to `Mark` are `apply_layers()`; the actions of a task, `Reuse`
to `Cleanup`, are `pull_layer()`.

Files are found by name, and two tasks that download one blob use one temporary
name. So a file is a tuple of pieces under a name (`tmp[d]`, `blob[d]`), and a task
that has it open knows by `link` what has become of that name: still temporary,
renamed to the final one, or unlinked. A task writes at its own position whatever
the others do, and hashes what it has received (`ok`), not what is in the file.
`tainted` is a history variable, for the exceptions that the properties make: two
tasks downloaded the blob at the same time, two pulls extracted the layer at the
same time, or `_safe_extract_member()` skipped a member.

Abstractions:

- The manifest is given: all processes pull the same image. Images that share
  layers meet at the same names and take the same steps.
- A blob arrives in `Chunks` pieces, each as it should be or not; a layer has as many
  members, and a damaged piece cannot be extracted. What a member is, and the
  whiteouts that remove some of them again, are left out.
- After an exception the process ends. `run` and `build` also pull, and end as well.
- `manifest.json` is written in one step: a file that a kill cuts off exists, which is all
  that `IsCached` asks.

### NetworkSetup

A program is in one call: `setup()` (`exists` to `save`), `teardown()` (`delete`,
`release`, `unlink`) or the removal of the network (`down`, `unbridge`, `unlist`).
`ensure_bridge()` is the first part of `setup()`: look, add, finish (address and up),
write `pybox0.json`; whoever finds the bridge there goes on at once. Each external
command is a step and may fail; `SetupFails` is any exception of `setup()`, which
cleans up nothing. Containers start and die on their own, and with a namespace
goes its end of the pair, and with that the other end.

`link` is indexed by interface names, of which there are fewer than containers:
`Short` is the cut to eight characters. `muddled` is a history variable for the calls
the properties except: overlapping calls for one container, a setup over an
endpoint, a teardown killed between `release()` and `unlink`, a pair that could not
be deleted (the address is given back all the same, while the container still has it).
`allocate()` and `release()` go on from what is in `ipam.json`, or from nothing (`GoOnFrom`):
a read that fails inside them counts as an empty set (`ipam.py:109`), and a save that fails
or is killed leaves an empty file (`ipam.py:115`), which both end in `lost`. `leaked` holds the addresses of setups that were given up:
no code will ever release them.

### ImageStore and ImageBuild

`ImageStore` has the variables of the store and, for each command, its steps on it;
`ImageBuild` extends it with the builds and holds `Init`, `Next` and `Spec`. A build
works through its steps (`steps`, `truncate tmp` and `fill tmp` for copy steps,
`discard` for the finally clause of python steps, `put` and `fill cache` for
`LayerCache.put`; a run step that misses ends the build, as `create(image="__ephemeral__")`
tries to pull that name and raises), then `commit_image()` hashes and copies layer after layer (`hash`,
`open`, `copy`) and writes the directory, the config, the manifest and the tag
(`mkdir` to `fill`). `rmi` loads the table once, and for each reference removes the
files, the directory and rewrites the table. `rmi sha256:` names no image but the directory
of all of them (`rmi.py:45`): `ResolveStore` to `RemoveStore` remove one after the other
(`doomed` are those still to do) and leave every tag. `push` takes one token, then a `HEAD` and
an upload per layer, the config, the manifest.

`tag()` takes any target that begins with `sha256:` unchecked (`tag.py:53`); `Digests` bounds
those that the store does not have.

A file is not its content but the number of the archive it is: `packed` says which
step made that archive, in which directory (`from`), with which version of the files. Opening a file for writing
makes it `Torn`. An empty file has a digest of its own, 0, because gzip reads it
without an error. A cache key is the sequence of the steps up to that one, which is what
`cache_key()` hashes; the paths of a copy step are in it as the boxfile gives them, their
content is not. A relative path is resolved against the working directory
(`builder.py:203`), so one key stands for other files in each directory: `cwd` says where a
process works, and the files of a step have a version in each of `Dirs`.

History variables name what the properties except. `misled`: a build that hit an entry
cut off, older than the files or made in another directory, whose files were edited
meanwhile, or whose archive in `tmp/` another build wrote to. `spoiled`: a layer whose copy was killed, or read an
archive that had changed after the hash. `tangled`: two commands that write image
directories or the tag table overlapped, one was killed, or a `tag()` failed to read the
table and took it for empty (`tag.py:35`). `adrift`: an image that was tagged by a digest the
store did not have, or that an rmi removed with the whole store, and that was not built since.

Abstractions: the base image stands for itself (`LayerStore` pulls it); the config is
whole or not; images are identified by their layers; the registry keeps what it is
sent and may refuse anything.

## Runs

| Run | Bounds | Shows |
|---|---|---|
| `ipam` | 2 processes, 4 hosts with the gateway in the middle, 2 attempts, crashes, failed reads and saves | the lock excludes; addresses are unique and accounted for until a read or a save fails; exhaustion is real; every call returns; `Ipam` implements `AddressPool` |
| `races` | 2 clients running `run --rm`, `run -d --rm`, `start`, `rm --force`, one fork, kills anywhere | what a record may say, and that nothing comes back after a removal; each process is released, recorded and killed as `ContainerLaunch` says |
| `notice` | 2 clients running `run`, `run -d`, `start`, `stop` or the daemon's recovery, one fork, fair | a dead container is not recorded as running for ever |
| `embedded` | 1 program, 3 forks, single methods in any order, SIGTERM ignored, id maps that fail, fair | `ContainerLifecycle` implements `ContainerPromise`; `stop()` returns |
| `handshake` | kills and failing helpers, one exec, fair | order of the handshake, exit codes, nobody waits for one who is gone, and all ends; what an exec finds; `InitHandshake` implements `ContainerLaunch` |
| `network` | 2 programs, 3 containers, 2 of which have one interface name, 3 addresses; failures, deaths and kills anywhere | addresses are unique and accounted for until `ipam.json` is lost; an endpoint file tells the truth; the race for the bridge leaves it complete |
| `images` | 2 processes, 2 tags, 2 directories, 3 archives counting the empty one, 1 digest that is not in the store; 2 commands on three recipes; on one recipe 2 commands and an edit, 2 commands in two directories, or 3 commands of which two are builds | stored layers are whole, undisturbed builds right, tags resolve, tags of others stay, nothing incomplete is pushed |
| `exited` | 1 client, `run -d` and `stop` | violation: STOPPED does not mean that the container has exited |
| `report` | no kills | violation: `start()` returns a pid although the set-up of the child failed |
| `pull` | 2 pulls, 2 layers and a config blob, 1 piece each, 1 download at a time per pull; failures and kills anywhere | a blob, a layer and an image that count as complete are complete and stay as they are, except what two downloads or two extractions worked on at once; no slot of the semaphore is lost |
| `snapshots` | as `images` | violation: the archive of a python step is gone when it is to be cached |
| `twice` | 1 pull of an image that lists one layer twice, 2 pieces, 2 downloads at a time | violation: an unverified file under the final name of a blob |

Why the bounds are enough. A race on `state.json` takes a reader, a writer and
at most one other actor in between: two clients, each with a watcher, give four.
One fork is enough for what relates a record to its process; the restart of a
stopped container, with the old pid still in the record, needs two and gets three
in `embedded`. In `ipam` two processes contend, and each may hold addresses from
earlier calls, which is all a third would add; four hosts put the gateway between
free addresses and let three allocations exhaust the pool. `MaxTries` is 50 in
the code; two is the least that has a retry. In `pull` two processes are what it
takes to meet at a file, and to continue what the other has left; two layers let
one be marked and the other not, and with one download at a time a task must wait
for the semaphore while the two pulls still download the same blob together. One
piece already tells an empty, a damaged and a complete file apart; `twice` has two,
for the file that is complete in part.
In `network` one address can leak while two containers go round with the others, and
two containers fight for one interface name while a third has its own. Its
state constraint stops where a call was muddled or `ipam.json` was lost: two of its four
properties say nothing from there on, and the others, `EndpointIsTrue` and
`OutboundOnceSettled`, are proved without the constraint. In `images` a wrong image takes a command that leaves something behind and one that finds it,
or two at once; three commands let a build, a second build and an `rmi` or `push` meet,
on the one-step recipe, an edit between two builds makes a stale entry, and two directories
one that holds the files of another project. A recipe with
a copy step alone, one with a step without a layer in the middle, one that stops at a run step
and one that ends in a python step are the shapes that the key, the layers and the two kinds of
archives tell apart. The builds are the first two of three commands, or the first and the
third, as a third command after two builds sees all that they leave.

`CHECK_DEADLOCK FALSE` where the system may really stop: a client has no fork
left, the handshake is
over, or the users have called their commands.

### Fairness

Every process that can run is run by the scheduler in the end: weak fairness on
the step of each actor, of the child processes and on the delivery of signals.
Not fair: beginning a command (nobody has to), the exit of the user's command
(it may run for ever), crashes. Liveness is stated for runs without crashes of
the actor concerned (`DeadIsNoticed`, `StopReturns`) because a killed watcher
notices nothing; `CallsReturn` and `HandshakeEnds` hold with crashes. `LayerStore`, `NetworkSetup` and
`ImageBuild` assume no fairness: `PullsGoOn` says that the slots of a pull's semaphore and the
downloads that run always add up, and that a pull that waits for downloads always
has one that moves, or one that has failed, or they are all over; `EachWaitEnds` says the
same of the two sides of the handshake, and `HandshakeEnds` is its counterpart under fairness.

### What the violations show

- `exited`. `stop()` signals the pid in the record, which is the outer child. It
  has no handler and dies; nothing passes the signal on to PID 1 of the container.
  The command that stops is not its parent, `waitpid` raises `ECHILD` at once, and
  the record says stopped. `state.py` says of STOPPED: "container has exited".
- `report`. `start()` does not look at what it reads from the pipe. Its docstring
  promises `ContainerError` if "init setup fails".
- `twice`. The second task truncates the file that the first has just received and
  verified, and the first renames it. `client.py` says of the rename: "layer_file is
  only created on success". The damage lasts if the second task is interrupted:
  later pulls take the file for verified.
- `snapshots`. `_python_step` writes the archive into the directory of the ephemeral
  overlay, and its finally clause removes that directory (`builder.py:263-269`) before
  `LayerCache.put` copies the archive. Every build with a python step that misses the cache
  ends in `FileNotFoundError`. Run steps never get that far: `create(image="__ephemeral__")`
  tries to pull that name (`runtime.py:102`) and raises `ContainerError`.

### What else the models reach

These are states or behaviours of the code that contradict no sentence of it, or that the
properties above except by name. They are what a change of the code should look at first.

- Records: an empty `state.json` after a kill inside `write_text`, which no command can
  read again; two concurrent starts; a removal that overtakes a start; a recovery by
  the daemon that marks a live container as stopped; a child that blocks for ever when
  `start()` raises in the middle of the handshake in a program that goes on
  (`EachWaitEnds` names this case, and says that there is no other).
- Exec: before `A`'s second `unshare()`, or after `A` has died, the other namespaces cannot be
  opened or are those of the host; the exception is swallowed (`exec.py:121`) and the
  command runs outside of the container. So it does when `setns()` refuses: line 97 promises a
  `NamespaceError`, but line 181 catches it and the loop goes on, so a command may be in the
  other namespaces and not in the user namespace (`ExecEntersUserFirst` says that this is the
  only way).
- Pull: a pull that dies between `manifest.json` and `config.json` leaves an image that
  counts as cached and has no config for good, and one that dies inside the write of
  `manifest.json` one that counts as cached and cannot be read. Two pulls that extract a
  layer at once: when the first has marked it, and a container may have mounted it, the
  second still unlinks and rewrites its members (`layer.py:225-228`).
- Cache: `has()` looks whether the entry exists (`layer_cache.py:39`); an entry that a killed
  `put()` cut off hits for ever. If it is empty it is hashed and committed as an empty layer
  without an error. A copy step whose files changed hits the old entry, as the
  key holds paths only; and with a relative path it hits the entry of another directory, that
  is, two projects with the same base and the same `src` share one layer.
- Commit: a layer file that exists is not copied again (`commit.py:88`), so one that was
  cut off stays so; two builds with the same copy step write to one `tmp/<key>.tar.gz`.
- Tags: builds, tags and removals that overlap lose each other's entries. `rmi` keeps one
  table for all its arguments. A `tags.json` that cannot be read counts as empty in `tag()`,
  whose write drops all other tags. `tag()` takes any digest, so that a tag may name what was
  never there, and `rmi sha256:` removes all images and no tag.
- Build steps mount `extracted/<stem>` of the layers before (`builder.py:95-98`), which nothing
  extracts: python steps do not see what copy steps before them copied. Environment and
  working directory never reach the config. A pulled image has no tag, so that `push` and
  `rmi` do not find it.
- Network: addresses of failed setups are lost; port rules are never removed. A read or save
  of `ipam.json` that fails forgets every address in use, and the next containers get them
  again. A teardown that was killed between `release()` and `unlink` is repeated and releases
  what may be another container's by then.

## Proofs

Proved for every value of the constants: any set of processes or clients, any
commands, any number of forks, attempts and addresses, with crashes. The named
assumptions (`IpamAssumption`, `LifecycleAssumption`, `HandshakeAssumption`,
`LayerStoreAssumption`, `NetworkAssumption`, `ImagesAreSequences`, `FilesAreTold` and the
like) only give the constants their types and keep special values apart. Two theorems have
a hypothesis besides, because the code promises no more:

- `LoneProgram`, of `PromiseKept`: one client, which lives on between its calls, calls
  `create`, `start`, `wait`, `stop` and `remove` in any order, and is not killed. `_run_step()` of a build is written as
  such a program (`builder.py:169-190`). With a second program on the container
  `ContainerPromise` is broken, as the hazards of `runtime.py` and `state.py` say. The run
  `embedded` is an instance.
- `StartedOnce`, of `StoppedIsAlwaysOver`: at most one process is ever forked for the
  container, the daemon's recovery does not run, and a `wait` comes right after a `start` in
  the same command, as in `pybox run`. With two forks the statement is
  false: the watcher of the first process, which has seen it die, may write STOPPED over the
  record of the second. With recovery it is false too: the daemon marks live containers
  as stopped. Clients, interleavings and kills are arbitrary. The run `races` is an instance.

**Ipam.** `LockExcludes` is inductive with the types. The address theorems rest
on `AddressInv`: for the process inside the lock, what it read is still what the
file says (`Current`), what it is going to save is right for the call it is in
(`Outcome`), and a process releases only what it holds. `Bookkeeping` alone is not
inductive: it says nothing while the lock is taken, where all the work happens.
The invariant is proved as `~lost => AddressInv`. `PoolImplemented` maps `Return`
to `Allocate` or `Release`, `FillFails` to `Lose`, and all else to stuttering.

**ContainerLifecycle.** `PublishedPidsAlwaysStarted` needs that every value about
to be written carries a released pid, also the one that `set_state` copies from
the record. `PublishedAlwaysComplete` needs that nobody but `create()` writes before
the record is readable, and that a removal is marked before it takes anything
apart. `RemovedAlwaysStays` is an action property of every step: only the first
`create()` makes the directory. `StoppedIsAlwaysOver` needs that whoever is about to write
STOPPED, or has it in mind, is right already (`OverInv`): STOPPED is drafted after a
death was seen or a signal sent, is carried through the two reads of `set_state` and the
two halves of `write_text`, and meanwhile nobody comes to life again. The one draft that
looks at nothing is that of `wait()` when `waitpid` raises `ECHILD`; so the invariant follows
each command far enough to know that who waits has forked the process himself
(`Owns`, `WaitsNext`), and for him `ECHILD` means that it is gone. `LaunchesPromised` is the
refinement of `ContainerLaunch`, for each process at once. It needs that no signal reaches a
process before its release: `stop()` signals only what a record has named (`SignalInv`), and a
record names only what was released (`HandshakeInv`).

**ContainerPromise.** `PromiseKept` is the refinement of the abstract specification, step by
step, for a program that is alone. The second half of `write_text` maps to
stuttering and the first half to the change of the abstract state, since from then on the
program has decided; a `fork` maps to a process that is up, a death to one that is down, a `start()` that raises before it
has released its child to `Strand`: the child is no process of the container any more,
since no `maps_done` byte will ever reach it. All
else stutters. That each of these is a step the promise allows rests on `LoneInv`: nobody else is
at work (`Alone`); at most one process runs, besides the strays, and the program knows of it, from the record or
because its `start()` is on the way there (`ProcessInv`); the record is torn only while it
writes, and a `remove()` past its check ends with the record gone (`RecordInv`); and at each
place of a method, what its checks found is still so (`PlaceInv`), which is exactly
what fails with two programs.

**InitHandshake.** `ExitCodesPropagate` needs that `B` exists only from `A`'s fork on.
`MapsComeFirst` needs `OrderInv`: a parent that is there and has not signalled
holds its end of the pipe, which is empty, so that a child that waits cannot
be woken by anything but the signal or the parent's death. `RecordComesAfter` is the
mirror image on the other pipe (`RecordInv`): until `A` has told, it holds its end, so no
parent gets past its read. `ExecUserFirst` rests on it: an exec finds a record, therefore
`A` has its user namespace or has failed; what it did not find first it cannot find
later, and of what it found it has entered or been refused what it has had its turn at
(`ExecInv`). `HandshakeOrdered` puts the two orders together.
`LaunchPromised` is the refinement of `ContainerLaunch`. Its hard step is the release: that
the write of the signal succeeds means that the child is alive. This rests on `HearInv`: the
parent has closed its own reading end before it writes, and `A` closes its end when it
exits, so a pipe with a reader has one that lives. `NobodyIsStuck` is the safety half of
`HandshakeEnds`. It needs `WaitInv`: each side has closed the ends it does not write to and
those it has written to, so that a reader who blocks has a writer who is alive and still
on the way to its write; and the byte of a child that listens is there until the parent
has read it.

**LayerStore.** For any number of pulls, any image, any number of pieces and any
width. `BlobsAlwaysVerified` needs `DownloadInv`: while one task alone downloads a
blob, it writes to the file that has the temporary name, and if its hash is right
so far, what it has received is in that file. `CachedBlobsAreVerified` by itself is
not inductive: it does not say that the file to be renamed is the one whose content
was hashed. `MarkedLayersStayWhole` needs that a pull that alone extracts a layer has
made all members before the current one whole, also those a killed pull had begun,
and that the layer is not marked yet (`ExtractInv`). `ManifestAlwaysLast` needs that
all layers a pull has passed are marked. `CompleteStaysComplete` is an action
property and follows from the first two: only a pull that extracts changes a layer,
and a blob is replaced only by an equal one. `PullsAlwaysGoOn` needs that a pull that waits has
started all downloads it waits for (`StartedInv`), and that the free slots and the downloads
that run add up to the width at every moment (`SlotsInv`), which each end of a download must
keep: then one of them is over, running or queued, and if none is running all slots are free,
so the queued one gets one.

**NetworkSetup.** `AddressesStayUnique`, `AddressesStayAccounted` and `EndpointsStayTrue` come
from one invariant, proved as `muddled = {} => ...`, of which what speaks of `inUse` needs
`~lost` as well: each address in `inUse` has exactly one owner - an endpoint, a setup under way, or `leaked` (`Owned`, `Accounts`) -
and an address is in a namespace only with the peer of the interface, which a teardown
has deleted before it releases (`Wired`, `Known`). The
properties alone are not inductive, as they say nothing about a setup between
`Allocate` and `Save`. `BridgeSettles` needs that whoever made the bridge is still there
to finish it: a bare bridge has a program at `finish`, one without NAT a program at
`announce`, unless `cut` (`BridgeInv`).

**ImageStore and ImageBuild.** The induction is done once for all processes. `LayersStored`
needs `LayerInv`: a layer file that exists is whole, spoiled or being copied (`Kept`), and
the layers a commit has passed are such, from `hash` to the manifest. `PushesComplete` needs that each layer of
the image is in the registry or still to be sent, and that an image with a manifest has a
config unless an rmi removed it (`PushInv`). `TagsStayGood` and
`TagsOfOthersStay` need that, without `tangled`, there is at most one command at the
directories or the table; `Resting` is what holds between commands, and `Working` what the
one at work may have unfinished, step by step, and how its table differs from that on the
disk. A tagged image is complete or `adrift` (`Accounted`), and an image becomes `adrift` only by
the tag or the removal that says so, so that `TagsStayGood` covers every other tag; an rmi of
the whole store counts what is left in `doomed`.

`BuildsAreFresh` says of any recipes, directories, processes, edits and kills that the image
of a build that was not misled has a layer for each of its steps, in their order, made from
the files in its directory as they are. `FreshImage` speaks of the moment of the commit, and relates the layers, the
archives they were copied from, the keys, and the versions of the files in each directory. Its invariant has three parts.
`OrderInv` holds whatever others do: the archives a build has listed are, in order, those of
the steps it has passed. `FileInv` says of a file in the cache or in `tmp/` that what is in it
was packed for the key it is named by. `FreshInv` is what a build counts on while it is not misled:
the archives it will copy hold its steps with the current versions of its directory, and what it has committed
does. Other processes can break only the last, by an edit or by writing to a file it counts on,
and each of these sets `misled`; that all other steps spare it is one lemma (`OthersSpare`) on
the files a step touches.

Only model-checked: the liveness properties `CallsReturn`, `DeadIsNoticed`, `StopReturns` and
`HandshakeEnds`; liveness under fairness is out of the prover's reach. All other properties of
the passing runs, invariants and action properties and refinements, are stated by a theorem.

## Not modelled, and why

- **What files hold**: whiteouts and members of a layer, the configs, boxfiles, references
  and manifests as text. They are functions of strings and archives, computed by one
  process; the models have the files, not their content.
- **System calls on mounts**: the choice between kernel, fuse and copied overlays, devices,
  capabilities, cgroup limits. They succeed or fail, and as such they are steps of
  `ContainerLifecycle` and `InitHandshake`.
- **Code without callers**: `LogManager.start_capture`, `PortProxy`, `SlirpNetworkManager`,
  `DaemonClient`, `LayerCache.evict` and `clear`. `logs` reads what nothing writes, and `logs -f`
  ends only when it is interrupted. `NetworkManager.setup` and `teardown`, and `TagManager.tag`
  and `untag`, have no callers either, but are modelled: the first two are what the network is
  for, and the others share the table that `push` resolves.
- **The daemon's protocol**: its handlers run the manager's methods one after the other on one
  event loop, which is what a command is in `ContainerLifecycle`; framing is left out.
- **Configuration, output, completion, ps, info, login**: they read and print.
