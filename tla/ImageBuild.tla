----------------------------- MODULE ImageBuild ------------------------------
(***************************************************************************)
(* ImageBuilder (image/builder.py) with its layer cache                    *)
(* (storage/layer_cache.py) and its snapshots, composed with the image     *)
(* store that its commits write to.  Builds share the cache, the archives  *)
(* in tmp/ and the store; the files they copy are edited, and processes    *)
(* are killed, at any moment.  The base image stands for itself: it is     *)
(* pulled by LayerStore, and its layers come before those modelled here.   *)
(* Python steps do not see the files that steps before them copied         *)
(* (builder.py mounts directories that nothing is extracted into), so that *)
(* only copy steps depend on the version of files.                         *)
(*                                                                         *)
(* No two archives are the same file, as they hold times: they are         *)
(* numbered in the order they are made, and the number is the digest.  0   *)
(* is the digest of an empty file, which is what an archive may be while   *)
(* it is written, and which gzip reads without an error.                   *)
(*                                                                         *)
(* Operators whose name has a suffix after "_" are faulty variants, used   *)
(* by nothing.                                                             *)
(***************************************************************************)
EXTENDS ImageStore

CONSTANTS
  Steps,
  Kind,       \* Kind[s]: "run", "copy", "python" or "meta" (env and workdir)
  Recipes,    \* the boxfiles: sequences of steps; "python" comes last
  Dirs,       \* the directories that users work in
  Workloads   \* bounds: what users do in a behaviour.  [recipes: those they
              \* build, dirs: where, calls: the number of their commands,
              \* builds: which of them may be builds, edits: of the files of
              \* a step]

ASSUME RecipesAreSequences == Recipes \subseteq Seq(Steps)

\* Files are numbered, and hold numbers.
ASSUME FilesAreTold ==
  /\ Blobs \subseteq Nat /\ None \notin Nat /\ Torn \notin Nat /\ None # Torn
  /\ "tmp" \notin Procs /\ "cache" \notin Procs

ASSUME WorkloadsAreBounds ==
  \A w \in Workloads :
    w.recipes \subseteq Recipes /\ w.dirs \subseteq Dirs /\ w.calls \in Nat

VARIABLES
  archive,    \* archive[a]: the blob in a file, None without one, or Torn
  packed,     \* history: packed[n] is the step that made blob n, from what
  version,    \* version[d][s]: of the files that step s copies in directory d
  recipe, at, \* at[p]: the next step of recipe[p]
  nocache,    \* nocache[p]: build --no-cache
  got,        \* got[p]: version of the files p has read
  tars,       \* tars[p]: the archives of the layers so far
  misled,     \* history: builds that met a damaged archive, an old one or one
              \* from another directory, whose archives others wrote to, or
              \* whose files were edited
  workload, calls, \* the one of this behaviour; the number of commands called
  cwd         \* cwd[p]: the directory in which p runs its commands

files == <<archive, packed>>
buildLocals == <<recipe, at, nocache, got, tars>>
usage == <<workload, calls, cwd>>
buildVars == <<files, version, buildLocals, misled, usage>>
vars == <<storeVars, buildVars>>

Last(seq) == seq[Len(seq)]

\* cache_key(): of the step and of the key before it.  That of a copy step has
\* the path of its files as the boxfile gives it, which may be relative: the
\* same key stands for other files in each directory.  (With an absolute path
\* they are the same: that is the case of a single directory.)
Parents(r) == {SubSeq(r, 1, n) : n \in 1 .. Len(r)}
Keys == UNION {Parents(r) : r \in Recipes}
Key(p) == SubSeq(recipe[p], 1, at[p])
Step(p) == recipe[p][at[p]]
HasLayer(key) == Kind[Last(key)] # "meta"

\* Files in tmp/, in the cache, and in the ephemeral overlays of a process.
Archives == [in : {"tmp", "cache"} \cup Procs, key : Keys]
Cached(p) == [in |-> "cache", key |-> Key(p)]
Made(p) ==
  [in |-> IF Kind[Step(p)] = "copy" THEN "tmp" ELSE p, key |-> Key(p)]

StepSteps == {"steps", "truncate tmp", "fill tmp", "discard", "put", "fill cache"}
CommitSteps == {"hash", "open", "copy"}

TypeOK ==
  /\ StoreTypeOK
  /\ pc \in [Procs -> {"idle"} \cup IndexSteps \cup PushSteps \cup StepSteps
                        \cup CommitSteps]
  /\ archive \in [Archives -> Blobs \cup {None, Torn}]
  /\ packed \in Seq([key : Keys, from : Dirs, version : Nat])
  /\ version \in [Dirs -> [Steps -> Nat]]
  /\ recipe \in [Procs -> Recipes \cup {<<>>}]
  /\ at \in [Procs -> Nat]
  /\ nocache \in [Procs -> BOOLEAN]
  /\ got \in [Procs -> Nat]
  /\ tars \in [Procs -> Seq(Archives)]
  /\ misled \subseteq Procs
  /\ workload \in Workloads
  /\ calls \in Nat
  /\ cwd \in [Procs -> Dirs]

Init ==
  /\ StoreInit
  /\ pc = [p \in Procs |-> "idle"]
  /\ archive = [a \in Archives |-> None]
  /\ packed = <<>>
  /\ version = [d \in Dirs |-> [s \in Steps |-> 1]]
  /\ recipe = [p \in Procs |-> <<>>]
  /\ at = [p \in Procs |-> 1]
  /\ nocache = [p \in Procs |-> FALSE]
  /\ got = [p \in Procs |-> 1]
  /\ tars = [p \in Procs |-> <<>>]
  /\ misled = {}
  /\ workload \in Workloads
  /\ calls = 0
  /\ cwd \in [Procs -> workload.dirs]

\* What p leaves behind in ephemeral overlays is not used again.
EndBuild(p) ==
  /\ archive' = [a \in Archives |-> IF a.in = p THEN None ELSE archive[a]]
  /\ recipe' = [recipe EXCEPT ![p] = <<>>]
  /\ at' = [at EXCEPT ![p] = 1]
  /\ nocache' = [nocache EXCEPT ![p] = FALSE]
  /\ got' = [got EXCEPT ![p] = 1]
  /\ tars' = [tars EXCEPT ![p] = <<>>]
  /\ misled' = misled \ {p}

storeFiles == <<blob, imageFiles, tags, remotes, spoiled, removed, adrift, settled,
                tangled>>

Raise(p) ==
  /\ Leave(p)
  /\ EndBuild(p)
  /\ UNCHANGED <<storeFiles, packed, version, usage>>

------------------------------------------------------------------------------
\* build: the steps

CallBuild(p, r, t, nc) ==
  /\ Goto(p, "idle", "steps")
  /\ recipe' = [recipe EXCEPT ![p] = r]
  /\ ref' = [ref EXCEPT ![p] = t]
  /\ nocache' = [nocache EXCEPT ![p] = nc]
  /\ UNCHANGED <<storeFiles, image, table, left, doomed, files, version, at,
                 got, tars, misled>>

AtStep(p) == pc[p] = "steps" /\ at[p] <= Len(recipe[p])

\* env and workdir steps have no layer.
MetaStep(p) ==
  /\ AtStep(p)
  /\ Kind[Step(p)] = "meta"
  /\ at' = [at EXCEPT ![p] = @ + 1]
  /\ UNCHANGED <<storeVars, files, version, recipe, nocache, got, tars, misled,
                 usage>>

\* The version of the files that the step copies.
Files(p) == version[cwd[p]][Step(p)]

Hits(p) == ~nocache[p] /\ archive[Cached(p)] # None
Misses(p) == AtStep(p) /\ HasLayer(Key(p)) /\ ~Hits(p)

\* has() looks whether the file is there.
CacheHit(p) ==
  /\ AtStep(p)
  /\ HasLayer(Key(p))
  /\ Hits(p)
  /\ tars' = [tars EXCEPT ![p] = Append(@, Cached(p))]
  /\ at' = [at EXCEPT ![p] = @ + 1]
  /\ misled' =
       IF /\ archive[Cached(p)] \in 1 .. Len(packed)
          /\ packed[archive[Cached(p)]].from = cwd[p]
          /\ packed[archive[Cached(p)]].version = Files(p)
       THEN misled ELSE misled \cup {p}
  /\ UNCHANGED <<storeVars, files, version, recipe, nocache, got, usage>>

ReadFiles_Reuses(p) ==
  /\ Misses(p)
  /\ Kind[Step(p)] = "copy"
  /\ pc' = [pc EXCEPT ![p] = IF archive[Made(p)] = None THEN "truncate tmp" ELSE "put"]
  /\ got' = [got EXCEPT ![p] = Files(p)]
  /\ UNCHANGED <<storeFiles, locals, files, version, recipe, at, nocache, tars,
                 misled, usage>>

\* _copy_step copies the files into a directory of its own.
ReadFiles(p) ==
  /\ Misses(p)
  /\ Kind[Step(p)] = "copy"
  /\ Goto(p, "steps", "truncate tmp")
  /\ got' = [got EXCEPT ![p] = Files(p)]
  /\ UNCHANGED <<storeFiles, locals, files, version, recipe, at, nocache, tars,
                 misled, usage>>

\* The builds that count on archive a.
Users(a) ==
  {q \in Procs : a \in Elements(tars[q]) \/
                 (pc[q] \in {"fill tmp", "put", "fill cache"} /\ a = Made(q))}

Writers(p, a) ==
  {q \in Procs \ {p} :
     \/ pc[q] = "fill tmp" /\ a = Made(q)
     \/ pc[q] = "fill cache" /\ a = Cached(q)}

Mislead(p, a) ==
  misled' = misled \cup (IF Writers(p, a) = {} THEN Users(a) \ {p} ELSE Users(a))

Truncate(p, a) ==
  /\ archive' = [archive EXCEPT ![a] = Torn]
  /\ Mislead(p, a)

\* Several writers may leave a mixture.
Write(p, a, b) ==
  /\ \/ archive' = [archive EXCEPT ![a] = b]
     \/ /\ archive[a] # Torn \/ Writers(p, a) # {}
        /\ archive' = [archive EXCEPT ![a] = Torn]
  /\ Mislead(p, a)

TruncateTmp(p) ==
  /\ Goto(p, "truncate tmp", "fill tmp")
  /\ Truncate(p, Made(p))
  /\ UNCHANGED <<storeFiles, locals, packed, version, buildLocals, usage>>

New(p, v) ==
  /\ Len(packed) + 1 \in Blobs
  /\ packed' = Append(packed, [key |-> Key(p), from |-> cwd[p], version |-> v])

FillTmp(p) ==
  /\ Goto(p, "fill tmp", "put")
  /\ New(p, got[p])
  /\ Write(p, Made(p), Len(packed'))
  /\ got' = [got EXCEPT ![p] = 1]
  /\ UNCHANGED <<storeFiles, locals, version, recipe, at, nocache, tars, usage>>

\* _run_step creates a container of the image "__ephemeral__": the pull of it
\* raises.
RunStep(p) ==
  /\ Misses(p)
  /\ Kind[Step(p)] = "run"
  /\ Raise(p)

\* The packages are installed in a mounted overlay, and what was written is
\* packed, in the directory of the overlay.
PythonStep(p) ==
  /\ Misses(p)
  /\ Kind[Step(p)] = "python"
  /\ Goto(p, "steps", "discard")
  /\ New(p, 1)
  /\ archive' = [archive EXCEPT ![Made(p)] = Len(packed')]
  /\ UNCHANGED <<storeFiles, locals, version, buildLocals, misled, usage>>

\* The finally clause removes the directory with the archive.
Discard(p) ==
  /\ Goto(p, "discard", "put")
  /\ archive' = [archive EXCEPT ![Made(p)] = None]
  /\ UNCHANGED <<storeFiles, locals, packed, version, buildLocals, misled, usage>>

\* Files are missing, or a command in the overlay exits with an error.
StepFails(p) ==
  /\ Misses(p)
  /\ Kind[Step(p)] # "run"
  /\ Raise(p)

\* LayerCache.put: the entry is opened ...
Put(p) ==
  /\ Goto(p, "put", "fill cache")
  /\ archive[Made(p)] # None
  /\ Truncate(p, Cached(p))
  /\ UNCHANGED <<storeFiles, locals, packed, version, buildLocals, usage>>

PutFails(p) ==
  /\ pc[p] = "put"
  /\ archive[Made(p)] = None
  /\ Raise(p)

\* ... and filled.  The build itself goes on with the file it copied.
FillCache(p) ==
  /\ Goto(p, "fill cache", "steps")
  /\ Write(p, Cached(p), archive[Made(p)])
  /\ tars' = [tars EXCEPT ![p] = Append(@, Made(p))]
  /\ at' = [at EXCEPT ![p] = @ + 1]
  /\ UNCHANGED <<storeFiles, locals, packed, version, recipe, nocache, got,
                 usage>>

StepsDone(p) ==
  /\ Goto(p, "steps", "hash")
  /\ at[p] > Len(recipe[p])
  /\ UNCHANGED <<storeFiles, locals, files, version, buildLocals, misled, usage>>

------------------------------------------------------------------------------
\* commit_image: the layers

AtLayer(p) == pc[p] = "hash" /\ Len(image[p]) < Len(tars[p])
Layer(p) == archive[tars[p][Len(image[p]) + 1]]

HashLayer_Swapped(p) ==
  /\ AtLayer(p)
  /\ \E b \in Blobs :
       /\ b = Layer(p) \/ (b = 0 /\ Layer(p) = Torn)
       /\ Append(image[p], b) \in Images
       /\ image' = [image EXCEPT ![p] = Append(@, b)]
       /\ pc' = IF blob[b] # "none" THEN [pc EXCEPT ![p] = "open"] ELSE pc
  /\ UNCHANGED <<storeFiles, ref, table, left, doomed, files, version,
                 buildLocals, misled, usage>>

\* The digest of what the archive holds now; what is cut off may be empty.
HashLayer(p) ==
  /\ AtLayer(p)
  /\ \E b \in Blobs :
       /\ b = Layer(p) \/ (b = 0 /\ Layer(p) = Torn)
       /\ Append(image[p], b) \in Images
       /\ image' = [image EXCEPT ![p] = Append(@, b)]
       /\ pc' = IF blob[b] = "none" THEN [pc EXCEPT ![p] = "open"] ELSE pc
  /\ UNCHANGED <<storeFiles, ref, table, left, doomed, files, version,
                 buildLocals, misled, usage>>

\* No file, or one that gzip refuses.
HashFails(p) ==
  /\ AtLayer(p)
  /\ Layer(p) \in {None, Torn}
  /\ Raise(p)

Source(p) == archive[tars[p][Len(image[p])]]

OpenBlob(p) ==
  /\ Goto(p, "open", "copy")
  /\ blob' = [blob EXCEPT ![Last(image[p])] = "torn"]
  /\ UNCHANGED <<imageFiles, tags, remotes, spoiled, removed, adrift, settled,
                 tangled, locals, files, version, buildLocals, misled, usage>>

\* The archive may have changed since it was hashed.
CopyBlob(p) ==
  /\ Goto(p, "copy", "hash")
  /\ \/ /\ Source(p) = Last(image[p]) \/ (Source(p) = Torn /\ Last(image[p]) = 0)
        /\ blob' = [blob EXCEPT ![Last(image[p])] = "whole"]
        /\ UNCHANGED spoiled
     \/ /\ Source(p) # Last(image[p])
        /\ blob' = [blob EXCEPT ![Last(image[p])] = "torn"]
        /\ spoiled' = spoiled \cup {Last(image[p])}
  /\ UNCHANGED <<imageFiles, tags, remotes, removed, adrift, settled, tangled,
                 locals, files, version, buildLocals, misled, usage>>

Assemble(p) ==
  /\ Goto(p, "hash", "mkdir")
  /\ Len(image[p]) = Len(tars[p])
  /\ Enter(p)
  /\ EndBuild(p)
  /\ UNCHANGED <<blob, imageFiles, tags, remotes, spoiled, removed, adrift,
                 settled, locals, packed, version, usage>>

------------------------------------------------------------------------------
\* Users edit files, and processes are killed.

Edit(d, s) ==
  /\ Kind[s] = "copy"
  /\ d \in workload.dirs
  /\ version[d][s] <= workload.edits
  /\ version' = [version EXCEPT ![d][s] = @ + 1]
  /\ misled' = misled \cup {p \in Procs : cwd[p] = d /\ s \in Elements(recipe[p])}
  /\ UNCHANGED <<storeVars, files, buildLocals, usage>>

Killed(p) ==
  /\ StoreKilled(p)
  /\ EndBuild(p)
  /\ spoiled' = IF pc[p] = "copy" THEN spoiled \cup {Last(image[p])} ELSE spoiled
  /\ UNCHANGED <<packed, version, usage>>

Call(p) ==
  /\ calls < workload.calls
  /\ calls' = calls + 1
  /\ \/ /\ calls' \in workload.builds
        /\ \E r \in workload.recipes, t \in Tags, nc \in BOOLEAN :
             CallBuild(p, r, t, nc)
     \/ StoreCall(p) /\ UNCHANGED <<files, version, buildLocals, misled>>
  /\ UNCHANGED <<workload, cwd>>

BuildStep(p) ==
  \/ MetaStep(p) \/ CacheHit(p) \/ ReadFiles(p) \/ TruncateTmp(p) \/ FillTmp(p)
  \/ RunStep(p) \/ PythonStep(p) \/ Discard(p) \/ StepFails(p) \/ Put(p)
  \/ PutFails(p) \/ FillCache(p) \/ StepsDone(p)
  \/ HashLayer(p) \/ HashFails(p) \/ OpenBlob(p) \/ CopyBlob(p)
  \/ Assemble(p)

Next ==
  \/ \E p \in Procs :
       \/ Call(p) \/ BuildStep(p) \/ Killed(p)
       \/ StoreStep(p) /\ UNCHANGED buildVars
  \/ \E d \in Dirs, s \in Steps : Edit(d, s)

Spec == Init /\ [][Next]_vars

------------------------------------------------------------------------------
\* Properties

(* Whatever builds and kills do at the same time, a layer that the manifest *)
(* of an image names is stored whole, unless its copy is still under way   *)
(* (commit.py:88 takes a file that another build has begun for the layer), *)
(* was killed, or read an archive that another build wrote meanwhile.      *)
ManifestNamesStoredLayers ==
  \A i \in Images :
    manifest[i] # "none" =>
      \A b \in Elements(i) :
        \/ blob[b] = "whole"
        \/ b \in spoiled
        \/ \E p \in Procs : pc[p] = "copy" /\ Last(image[p]) = b

(* The layers of a build are those of its steps, in their order, made from *)
(* the files in its directory as they are: as long as they stay so, it     *)
(* hits no entry that is cut off, older than they are, or made in another  *)
(* directory for the same relative path (builder.py:203), and no other     *)
(* build writes to the archives it counts on (tmp/ is shared, by the key). *)
FreshImage ==
  \A p \in Procs :
    pc[p] = "hash" /\ Len(image[p]) = Len(tars[p]) /\ p \notin misled =>
      /\ Elements(image[p]) \subseteq 1 .. Len(packed)
      /\ {packed[b] : b \in Elements(image[p])}
           = {[key |-> k, from |-> cwd[p], version |-> version[cwd[p]][Last(k)]] :
                k \in {k \in Parents(recipe[p]) : HasLayer(k)}}
      /\ \A m, n \in 1 .. Len(image[p]) :
           m < n => Len(packed[image[p][m]].key) < Len(packed[image[p][n]].key)

(* The archive of a step that ran is there when it is to be stored in the  *)
(* cache: "If MISS: run the step in an ephemeral container, snapshot the   *)
(* upper dir into a layer tar, store in LayerCache" (builder.py:8-9).      *)
SnapshotIsThere ==
  \A p \in Procs : pc[p] = "put" => archive[Made(p)] # None
==============================================================================
