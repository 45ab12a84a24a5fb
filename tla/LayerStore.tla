------------------------------ MODULE LayerStore ------------------------------
(***************************************************************************)
(* ImagePuller.pull (image/puller.py) with the download of a blob          *)
(* (RegistryClient.pull_layer) and the extraction of a layer (apply_layers *)
(* in image/layer.py): processes that pull the same image into the same    *)
(* image store.                                                            *)
(*                                                                         *)
(* A pull downloads its layers in concurrent tasks, extracts them one by   *)
(* one, and saves the manifest and the config.  Nothing is locked: files   *)
(* are found by name, and names are made of digests only, so two tasks     *)
(* that download a blob write to the same temporary name.                  *)
(*                                                                         *)
(* Operators whose name has a suffix after "_" are faulty variants of the  *)
(* operator that follows them; nothing uses them.                          *)
(***************************************************************************)
EXTENDS Naturals, Sequences, FiniteSets

CONSTANTS
  Pullers,   \* processes that pull
  Digests,   \* blobs
  Manifest,  \* the image's layers, base first
  Config,    \* the digest of its config blob
  Chunks,    \* pieces in which a blob arrives, is written and is extracted
  Width      \* downloads one pull runs at a time (4 in the code)

ASSUME LayerStoreAssumption ==
  /\ Manifest \in Seq(Digests)
  /\ Config \in Digests
  /\ Chunks \in Nat \ {0}
  /\ Width \in Nat \ {0}

(***************************************************************************)
(* A file is the tuple of its pieces.  No tuple of pieces is empty.        *)
(***************************************************************************)
Pieces == 1 .. Chunks
Absent == <<>>
File == [Pieces -> {"hole", "good", "bad"}]
Truncated == [k \in Pieces |-> "hole"]
Genuine == [k \in Pieces |-> "good"]

Layers == DOMAIN Manifest
Slots == {0} \cup Layers      \* the downloads of a pull; 0 is the config blob
Blob(i) == IF i = 0 THEN Config ELSE Manifest[i]
Tasks == Pullers \X Slots
DigestOf(t) == Blob(t[2])

VARIABLES
  tmp,       \* tmp[d]: the file layers/<d>.tar.tmp
  blob,      \* blob[d]: the file layers/<d>.tar.gz
  dir,       \* dir[d]: the members in extracted/<d>
  marked,    \* the layers with an .extracted file
  manifest,  \* manifest.json exists
  config,    \* config.json: absent, empty or real
  pc, layer, member,
  task,      \* the download tasks of each pull
  free,      \* free slots of the semaphore of each pull
  tainted    \* history: digests that two tasks downloaded, or two pulls
             \* extracted, at the same time, or of which a member was skipped

stored == <<tmp, blob, dir, marked, manifest, config>>
vars == <<stored, pc, layer, member, task, free, tainted>>

At(where) == [pc |-> where, n |-> 0, ok |-> TRUE, link |-> "gone"]

\* link: the name of the file a task has open: the temporary name, the final
\* name since somebody renamed it, or none since somebody unlinked it.
TaskState ==
  [pc : {"off", "queued", "request", "write", "cleanup", "done", "failed"},
   n : 0 .. Chunks, ok : BOOLEAN, link : {"tmp", "final", "gone"}]

TypeOK ==
  /\ tmp \in [Digests -> File \cup {Absent}]
  /\ blob \in [Digests -> File \cup {Absent}]
  /\ dir \in [Digests -> [Pieces -> {"absent", "partial", "whole"}]]
  /\ marked \in SUBSET Digests
  /\ manifest \in BOOLEAN
  /\ config \in {"absent", "empty", "real"}
  /\ pc \in [Pullers -> {"idle", "gather", "layers", "members", "member",
                         "mark", "config", "returned", "raised"}]
  /\ layer \in [Pullers -> 1 .. Len(Manifest) + 1]
  /\ member \in [Pullers -> Pieces]
  /\ task \in [Tasks -> TaskState]
  /\ free \in [Pullers -> Nat]
  /\ tainted \in SUBSET Digests

Init ==
  /\ tmp = [d \in Digests |-> Absent]
  /\ blob = [d \in Digests |-> Absent]
  /\ dir = [d \in Digests |-> [k \in Pieces |-> "absent"]]
  /\ marked = {}
  /\ manifest = FALSE
  /\ config = "absent"
  /\ pc = [p \in Pullers |-> "idle"]
  /\ layer = [p \in Pullers |-> 1]
  /\ member = [p \in Pullers |-> 1]
  /\ task = [t \in Tasks |-> At("off")]
  /\ free = [p \in Pullers |-> Width]
  /\ tainted = {}

Goto(p, from, to) ==
  /\ pc[p] = from
  /\ pc' = [pc EXCEPT ![p] = to]

\* All tasks of p become task x[i] for slot i, and its semaphore, an object of the
\* call, is new or gone.
SetTasks(p, x) ==
  /\ task' = [t \in Tasks |-> IF t[1] = p THEN x[t[2]] ELSE task[t]]
  /\ free' = [free EXCEPT ![p] = Width]

TasksOff(p) == SetTasks(p, [i \in Slots |-> At("off")])

------------------------------------------------------------------------------
\* pull: the check of the cache and the start of the downloads

IsCached == manifest /\ \A i \in Layers : Manifest[i] \in marked

Hit(p) ==
  /\ pc[p] \in {"idle", "returned"}
  /\ IsCached
  /\ pc' = [pc EXCEPT ![p] = "returned"]
  /\ UNCHANGED <<stored, layer, member, task, free, tainted>>

Miss(p) ==
  /\ pc[p] \in {"idle", "returned"}
  /\ ~IsCached
  /\ pc' = [pc EXCEPT ![p] = "gather"]
  /\ SetTasks(p, [i \in Slots |-> IF i = 0 THEN At("off") ELSE At("queued")])
  /\ UNCHANGED <<stored, layer, member, tainted>>

------------------------------------------------------------------------------
\* pull_layer, in a task

\* The tasks when the file under d's temporary name is now found under tmpTo
\* and the one under its final name under finalTo.
Relinked(d, tmpTo, finalTo) ==
  [t \in Tasks |->
    IF DigestOf(t) # d THEN task[t]
    ELSE [task[t] EXCEPT !.link = CASE @ = "tmp"   -> tmpTo
                                    [] @ = "final" -> finalTo
                                    [] OTHER       -> @]]

\* The task goes on without the file.
TaskGoto(t, from, to) ==
  /\ task[t].pc = from
  /\ task' = [task EXCEPT ![t] = At(to)]

\* async with semaphore: a layer is downloaded while its task has a slot, and the
\* slot is free again however the download ends.  The config has no semaphore.
HasFreeSlot(t) == t[2] = 0 \/ free[t[1]] > 0
TakesSlot(t) == free' = IF t[2] = 0 THEN free ELSE [free EXCEPT ![t[1]] = @ - 1]
ReturnsSlot(t) == free' = IF t[2] = 0 THEN free ELSE [free EXCEPT ![t[1]] = @ + 1]

\* A blob that is there under its final name is good.  The slot is taken and
\* returned.

Reuse_KeepsSlot(t) ==
  /\ HasFreeSlot(t)
  /\ TaskGoto(t, "queued", "done")
  /\ blob[DigestOf(t)] # Absent
  /\ TakesSlot(t)
  /\ UNCHANGED <<stored, pc, layer, member, tainted>>

Reuse(t) ==
  /\ HasFreeSlot(t)
  /\ TaskGoto(t, "queued", "done")
  /\ blob[DigestOf(t)] # Absent
  /\ UNCHANGED <<stored, pc, layer, member, free, tainted>>

Request(t) ==
  /\ HasFreeSlot(t)
  /\ TaskGoto(t, "queued", "request")
  /\ blob[DigestOf(t)] = Absent
  /\ TakesSlot(t)
  /\ UNCHANGED <<stored, pc, layer, member, tainted>>

\* No token, no connection, or a status other than 200.
Refused(t) ==
  /\ TaskGoto(t, "request", "failed")
  /\ ReturnsSlot(t)
  /\ UNCHANGED <<stored, pc, layer, member, tainted>>

\* Tasks that have the temporary file of d open or are about to unlink it.
Downloading(d) ==
  {t \in Tasks : DigestOf(t) = d /\ task[t].pc \in {"write", "cleanup"}}

\* open(tmp_file, "wb"): creates the file or truncates it, whoever has it open.
Open(t) ==
  LET d == DigestOf(t) IN
  /\ task[t].pc = "request"
  /\ task' = [task EXCEPT ![t] = [pc |-> "write", n |-> 0, ok |-> TRUE, link |-> "tmp"]]
  /\ tmp' = [tmp EXCEPT ![d] = Truncated]
  /\ tainted' = IF Downloading(d) = {} THEN tainted ELSE tainted \cup {d}
  /\ UNCHANGED <<blob, dir, marked, manifest, config, pc, layer, member, free>>

\* The hash is taken of what arrives; the file gets it at the task's position.
Write(t) ==
  LET d == DigestOf(t)
      k == task[t].n + 1
  IN
  /\ task[t].pc = "write"
  /\ k \in Pieces
  /\ \E c \in {"good", "bad"} :
       /\ task' = [task EXCEPT ![t].n = k, ![t].ok = @ /\ c = "good"]
       /\ tmp' = IF task[t].link = "tmp" THEN [tmp EXCEPT ![d][k] = c] ELSE tmp
       /\ blob' = IF task[t].link = "final" THEN [blob EXCEPT ![d][k] = c] ELSE blob
  /\ UNCHANGED <<dir, marked, manifest, config, pc, layer, member, free, tainted>>

\* The connection breaks or times out, or the disk is full.
Broken(t) ==
  /\ TaskGoto(t, "write", "cleanup")
  /\ UNCHANGED <<stored, pc, layer, member, free, tainted>>

Mismatch(t) ==
  /\ TaskGoto(t, "write", "cleanup")
  /\ task[t].n = Chunks
  /\ ~task[t].ok
  /\ UNCHANGED <<stored, pc, layer, member, free, tainted>>

\* tmp_file.rename(layer_file) of a name somebody has renamed or unlinked.
RenameFails(t) ==
  /\ TaskGoto(t, "write", "cleanup")
  /\ task[t].n = Chunks
  /\ task[t].ok
  /\ tmp[DigestOf(t)] = Absent
  /\ UNCHANGED <<stored, pc, layer, member, free, tainted>>

\* Whatever file has the temporary name gets the final one, and a file that had
\* the final name loses it.

Rename_Unverified(t) ==
  LET d == DigestOf(t) IN
  /\ task[t].pc = "write"
  /\ task[t].n = Chunks
  /\ tmp[d] # Absent
  /\ blob' = [blob EXCEPT ![d] = tmp[d]]
  /\ tmp' = [tmp EXCEPT ![d] = Absent]
  /\ task' = [Relinked(d, "final", "gone") EXCEPT ![t] = At("done")]
  /\ ReturnsSlot(t)
  /\ UNCHANGED <<dir, marked, manifest, config, pc, layer, member, tainted>>

Rename(t) ==
  LET d == DigestOf(t) IN
  /\ task[t].pc = "write"
  /\ task[t].n = Chunks
  /\ task[t].ok
  /\ tmp[d] # Absent
  /\ blob' = [blob EXCEPT ![d] = tmp[d]]
  /\ tmp' = [tmp EXCEPT ![d] = Absent]
  /\ task' = [Relinked(d, "final", "gone") EXCEPT ![t] = At("done")]
  /\ ReturnsSlot(t)
  /\ UNCHANGED <<dir, marked, manifest, config, pc, layer, member, tainted>>

Cleanup_Final(t) ==
  LET d == DigestOf(t) IN
  /\ task[t].pc = "cleanup"
  /\ tmp' = [tmp EXCEPT ![d] = Absent]
  /\ task' = [Relinked(d, "gone", "final") EXCEPT ![t] = At("failed")]
  /\ blob' = [blob EXCEPT ![d] = Absent]
  /\ ReturnsSlot(t)
  /\ UNCHANGED <<dir, marked, manifest, config, pc, layer, member, tainted>>

\* tmp_file.unlink(missing_ok=True), then the exception goes on.
Cleanup(t) ==
  LET d == DigestOf(t) IN
  /\ task[t].pc = "cleanup"
  /\ tmp' = [tmp EXCEPT ![d] = Absent]
  /\ task' = [Relinked(d, "gone", "final") EXCEPT ![t] = At("failed")]
  /\ ReturnsSlot(t)
  /\ UNCHANGED <<blob, dir, marked, manifest, config, pc, layer, member, tainted>>

------------------------------------------------------------------------------
\* asyncio.gather and what follows it

Gathered(p) ==
  /\ Goto(p, "gather", "layers")
  /\ \A i \in Layers : task[<<p, i>>].pc = "done"
  /\ TasksOff(p)
  /\ UNCHANGED <<stored, layer, member, tainted>>

\* The first failure is raised; the other tasks go on.
GatherFails(p) ==
  /\ Goto(p, "gather", "raised")
  /\ \E i \in Layers : task[<<p, i>>].pc = "failed"
  /\ UNCHANGED <<stored, layer, member, task, free, tainted>>

\* asyncio.run() cancels what still runs where it awaits: CancelledError is not
\* an Exception, so the temporary file stays.
End(p) ==
  /\ Goto(p, "raised", "idle")
  /\ \A i \in Slots : task[<<p, i>>].pc # "cleanup"
  /\ TasksOff(p)
  /\ UNCHANGED <<stored, layer, member, tainted>>

\* apply_layers

Current(p) == Manifest[layer[p]]

Extracting(d) ==
  {p \in Pullers : pc[p] \in {"members", "member", "mark"} /\ Current(p) = d}

Skip(p) ==
  /\ layer[p] \in Layers
  /\ Current(p) \in marked
  /\ pc[p] = "layers"
  /\ layer' = [layer EXCEPT ![p] = @ + 1]
  /\ UNCHANGED <<stored, pc, member, task, free, tainted>>

Extract_MarksFirst(p) ==
  /\ Goto(p, "layers", "members")
  /\ layer[p] \in Layers
  /\ Current(p) \notin marked
  /\ tainted' = IF Extracting(Current(p)) = {} THEN tainted
                ELSE tainted \cup {Current(p)}
  /\ marked' = marked \cup {Current(p)}
  /\ UNCHANGED <<tmp, blob, dir, manifest, config, layer, member, task, free>>

\* A damaged archive is read as far as it goes, or fails when getmembers() reads
\* it, before anything is extracted.
Extract(p) ==
  /\ Goto(p, "layers", "members")
  /\ layer[p] \in Layers
  /\ Current(p) \notin marked
  /\ tainted' = IF Extracting(Current(p)) = {} THEN tainted
                ELSE tainted \cup {Current(p)}
  /\ UNCHANGED <<stored, layer, member, task, free>>

Unreadable(p) ==
  /\ Goto(p, "layers", "raised")
  /\ layer[p] \in Layers
  /\ Current(p) \notin marked
  /\ blob[Current(p)] # Genuine
  /\ layer' = [layer EXCEPT ![p] = 1]
  /\ UNCHANGED <<stored, member, task, free, tainted>>

OpenMember(p) ==
  /\ Goto(p, "members", "member")
  /\ dir' = [dir EXCEPT ![Current(p)][member[p]] = "partial"]
  /\ UNCHANGED <<tmp, blob, marked, manifest, config, layer, member, task, free, tainted>>

NextMember_OffByOne(p) ==
  /\ member' = [member EXCEPT ![p] = IF @ > Chunks THEN 1 ELSE @ + 1]
  /\ Goto(p, "member", IF member[p] = Chunks THEN "mark" ELSE "members")

NextMember(p) ==
  /\ member' = [member EXCEPT ![p] = IF @ = Chunks THEN 1 ELSE @ + 1]
  /\ Goto(p, "member", IF member[p] = Chunks THEN "mark" ELSE "members")

FillMember(p) ==
  /\ NextMember(p)
  /\ blob[Current(p)][member[p]] = "good"
  /\ dir' = [dir EXCEPT ![Current(p)][member[p]] = "whole"]
  /\ UNCHANGED <<tmp, blob, marked, manifest, config, layer, task, free, tainted>>

\* _safe_extract_member logs an OSError, also that of a full disk or of a
\* damaged archive, and goes on.
SkipMember(p) ==
  /\ NextMember(p)
  /\ tainted' = tainted \cup {Current(p)}
  /\ UNCHANGED <<stored, layer, task, free>>

Mark(p) ==
  /\ Goto(p, "mark", "layers")
  /\ marked' = marked \cup {Current(p)}
  /\ layer' = [layer EXCEPT ![p] = @ + 1]
  /\ UNCHANGED <<tmp, blob, dir, manifest, config, member, task, free, tainted>>

\* One step: a manifest.json that a kill has cut off counts for IsCached, which
\* asks only whether it exists.

SaveManifest_First(p) ==
  /\ Goto(p, "layers", "config")
  /\ manifest' = TRUE
  /\ layer' = [layer EXCEPT ![p] = 1]
  /\ SetTasks(p, [i \in Slots |-> IF i = 0 THEN At("queued") ELSE At("off")])
  /\ UNCHANGED <<tmp, blob, dir, marked, config, member, tainted>>

SaveManifest(p) ==
  /\ Goto(p, "layers", "config")
  /\ layer[p] \notin Layers
  /\ manifest' = TRUE
  /\ layer' = [layer EXCEPT ![p] = 1]
  /\ SetTasks(p, [i \in Slots |-> IF i = 0 THEN At("queued") ELSE At("off")])
  /\ UNCHANGED <<tmp, blob, dir, marked, config, member, tainted>>

\* A blob that is not JSON is replaced by {}.
SaveConfig(p) ==
  /\ Goto(p, "config", "returned")
  /\ task[<<p, 0>>].pc = "done"
  /\ config' = IF blob[Config] = Genuine THEN "real" ELSE "empty"
  /\ TasksOff(p)
  /\ UNCHANGED <<tmp, blob, dir, marked, manifest, layer, member, tainted>>

ConfigFails(p) ==
  /\ Goto(p, "config", "raised")
  /\ task[<<p, 0>>].pc = "failed"
  /\ UNCHANGED <<stored, layer, member, task, free, tainted>>

\* The process is killed.
Crash(p) ==
  /\ pc[p] \notin {"idle", "returned"}
  /\ pc' = [pc EXCEPT ![p] = "idle"]
  /\ layer' = [layer EXCEPT ![p] = 1]
  /\ member' = [member EXCEPT ![p] = 1]
  /\ TasksOff(p)
  /\ UNCHANGED <<stored, tainted>>

------------------------------------------------------------------------------

TaskStep(t) ==
  \/ Reuse(t) \/ Request(t) \/ Refused(t) \/ Open(t) \/ Write(t)
  \/ Broken(t) \/ Mismatch(t) \/ RenameFails(t) \/ Rename(t) \/ Cleanup(t)

PullStep(p) ==
  \/ Gathered(p) \/ GatherFails(p) \/ End(p)
  \/ Skip(p) \/ Extract(p) \/ Unreadable(p)
  \/ OpenMember(p) \/ FillMember(p) \/ SkipMember(p) \/ Mark(p)
  \/ SaveManifest(p) \/ SaveConfig(p) \/ ConfigFails(p)

Step(p) == PullStep(p) \/ \E i \in Slots : TaskStep(<<p, i>>)

Next == \E p \in Pullers : Hit(p) \/ Miss(p) \/ Step(p) \/ Crash(p)

Spec == Init /\ [][Next]_vars

------------------------------------------------------------------------------
\* Properties

(* client.py:298 "verify its sha256 digest": the file under the final name  *)
(* of a blob is the blob, if no two tasks downloaded it at the same time,   *)
(* whatever the registry sent and wherever pulls were killed or cancelled. *)
CachedBlobsAreVerified ==
  \A d \in Digests \ tainted : blob[d] # Absent => blob[d] = Genuine

(* The same with concurrent downloads: client.py:354 "layer_file is only   *)
(* created on success".                                                    *)
EveryCachedBlobIsVerified ==
  \A d \in Digests : blob[d] # Absent => blob[d] = Genuine

(* layer.py:227 "mark this layer as fully extracted": also for a pull that *)
(* continues what another, killed half-way, has begun.                     *)
MarkedLayersAreWhole ==
  \A d \in marked \ tainted : \A k \in Pieces : dir[d][k] = "whole"

(* puller.py:93 "already fully pulled": when manifest.json is there, every *)
(* layer is extracted, and a pull that returns, with a hit or a miss, does *)
(* so only then.                                                           *)
ManifestComesLast ==
  /\ manifest => IsCached
  /\ \A p \in Pullers : pc[p] = "returned" => IsCached

(* Once a blob is complete or a layer is marked, which others then rely on *)
(* and containers may have mounted, no step of a pull changes it.  Excepted *)
(* by name (tainted): a digest that two tasks downloaded or two pulls      *)
(* extracted at the same time, or of which a member was skipped.  There a  *)
(* pull that has looked for .extracted before another set it does rewrite  *)
(* the members of a marked layer (layer.py:225-228).                       *)
CompleteStaysUntouched ==
  [][\A d \in Digests \ tainted' :
       /\ blob[d] # Absent => blob'[d] = blob[d]
       /\ d \in marked => dir'[d] = dir[d]]_vars

\* The layers p downloads now: those that have a slot.
Running(p) ==
  {i \in Layers : task[<<p, i>>].pc \in {"request", "write", "cleanup"}}

\* A download that runs, or that waits and finds a slot free.
Moves(t) ==
  \/ task[t].pc \in {"request", "write", "cleanup"}
  \/ task[t].pc = "queued" /\ HasFreeSlot(t)

(* No download waits for a slot that does not come back (puller.py:104):   *)
(* never more than Width run, and when none runs all slots are free, so    *)
(* none is lost, however downloads end - reused, refused, cut off,         *)
(* falsified or renamed away.  So a pull that waits has a download that    *)
(* moves, or one that has failed, or all of them.                          *)
PullsGoOn ==
  \A p \in Pullers :
    /\ Cardinality(Running(p)) <= Width
    /\ Running(p) = {} => free[p] = Width
    /\ pc[p] = "gather" =>
         \/ \A i \in Layers : task[<<p, i>>].pc = "done"
         \/ \E i \in Layers : task[<<p, i>>].pc = "failed" \/ Moves(<<p, i>>)
    /\ pc[p] = "config" => task[<<p, 0>>].pc \in {"done", "failed"} \/ Moves(<<p, 0>>)
==============================================================================
