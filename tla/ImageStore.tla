----------------------------- MODULE ImageStore ------------------------------
(***************************************************************************)
(* The local image store as commit_image() (image/commit.py), TagManager   *)
(* (image/tag.py), rmi (cli/commands/rmi.py) and push (registry/push.py)   *)
(* share it: archives of layers, a directory per image, and the tag table  *)
(* in tags.json, with no lock around any of them.  Processes run one       *)
(* command after the other and may be killed anywhere.  The layers of a    *)
(* commit come from a build: ImageBuild composes this module with it and   *)
(* has the specification.                                                  *)
(*                                                                         *)
(* Operators whose name has a suffix after "_" are faulty variants of the  *)
(* operator that follows them, and used by nothing.                        *)
(***************************************************************************)
EXTENDS Naturals, Sequences

CONSTANTS
  Procs,
  Tags,
  Blobs,      \* digests of archives of layers
  Images,     \* image ids: an image is the sequence of its layers
  Digests,    \* bound: the images that users give to tag() by their digest
              \* although the store does not have them
  None,
  Torn        \* the content of a file that is cut off

ASSUME ImagesAreSequences == Images \subseteq Seq(Blobs) /\ <<>> \in Images

ASSUME DigestsAreImages == Digests \subseteq Images

ASSUME NothingElse ==
  /\ None \notin Images /\ None \notin Tags
  /\ Torn \notin [Tags -> Images \cup {None}]

VARIABLES
  blob,       \* blob[b]: layers/<b>.tar.gz is "none", "whole", or "torn": not b
  dir,        \* dir[i]: the directory of image i exists
  config, manifest,  \* config[i], manifest[i]: "none", "torn" or "whole"
  tags,       \* the table in tags.json (without a file, an empty one) or Torn
  pushedLayers, pushedConfigs, remote,  \* what the registry has
  pc, ref,
  image,      \* image[p]: the image of the command; in a commit, its layers so far
  table,      \* table[p]: the table p has read and will write
  left,       \* left[p]: the layers p has still to push
  doomed,     \* doomed[p]: the directories that `rmi sha256:` has still to do
  spoiled,    \* history: blobs whose copy was killed or copied a changed archive
  removed,    \* history: images that an rmi has removed
  adrift,     \* history: images whose tags no command looks after: they were
              \* tagged by a digest that the store did not have, or an rmi
              \* removed them with the whole store; until they are built again
  settled,    \* history: the last table that was written whole
  tangled     \* history: commands that write image directories or the table
              \* overlapped, one was killed, or a tag() failed to read the table

imageFiles == <<dir, config, manifest>>
remotes == <<pushedLayers, pushedConfigs, remote>>
locals == <<ref, image, table, left, doomed>>
storeVars == <<blob, imageFiles, tags, remotes, pc, locals, spoiled, removed,
               adrift, settled, tangled>>

NoTags == [t \in Tags |-> None]
Elements(i) == {i[n] : n \in 1 .. Len(i)}

IndexSteps == {"mkdir", "config", "fill config", "manifest", "fill manifest",
               "load", "refs", "rmtree", "rmdir", "rmtree all", "rmdir all",
               "truncate", "fill"}
PushSteps == {"token", "layers", "put config", "put manifest"}

StoreTypeOK ==
  /\ blob \in [Blobs -> {"none", "torn", "whole"}]
  /\ dir \in [Images -> BOOLEAN]
  /\ config \in [Images -> {"none", "torn", "whole"}]
  /\ manifest \in [Images -> {"none", "torn", "whole"}]
  /\ tags \in [Tags -> Images \cup {None}] \cup {Torn}
  /\ pushedLayers \subseteq Blobs
  /\ pushedConfigs \subseteq Images
  /\ remote \in [Tags -> Images \cup {None}]
  /\ ref \in [Procs -> Tags \cup {None}]
  /\ image \in [Procs -> Images]
  /\ table \in [Procs -> [Tags -> Images \cup {None}]]
  /\ left \in [Procs -> Seq(Blobs)]
  /\ doomed \in [Procs -> SUBSET Images]
  /\ spoiled \subseteq Blobs
  /\ removed \subseteq Images
  /\ adrift \subseteq Images
  /\ settled \in [Tags -> Images \cup {None}]
  /\ tangled \in BOOLEAN

StoreInit ==
  /\ blob = [b \in Blobs |-> "none"]
  /\ dir = [i \in Images |-> FALSE]
  /\ config = [i \in Images |-> "none"]
  /\ manifest = [i \in Images |-> "none"]
  /\ tags = NoTags
  /\ pushedLayers = {}
  /\ pushedConfigs = {}
  /\ remote = NoTags
  /\ ref = [p \in Procs |-> None]
  /\ image = [p \in Procs |-> <<>>]
  /\ table = [p \in Procs |-> NoTags]
  /\ left = [p \in Procs |-> <<>>]
  /\ doomed = [p \in Procs |-> {}]
  /\ spoiled = {}
  /\ removed = {}
  /\ adrift = {}
  /\ settled = NoTags
  /\ tangled = FALSE

Goto(p, from, to) ==
  /\ pc[p] = from
  /\ pc' = [pc EXCEPT ![p] = to]

\* The command is over, by return or by exception.
Leave(p) ==
  /\ pc' = [pc EXCEPT ![p] = "idle"]
  /\ ref' = [ref EXCEPT ![p] = None]
  /\ image' = [image EXCEPT ![p] = <<>>]
  /\ table' = [table EXCEPT ![p] = NoTags]
  /\ left' = [left EXCEPT ![p] = <<>>]
  /\ doomed' = [doomed EXCEPT ![p] = {}]

\* p begins to work on directories or the table.
Enter(p) ==
  tangled' = (tangled \/ \E q \in Procs \ {p} : pc[q] \in IndexSteps)

------------------------------------------------------------------------------
\* commit_image: the directory, config.json, manifest.json, the tag.
\* Without a directory a write raises; a file that was unlinked after it was
\* opened stays away.

MakeDirectory(p) ==
  /\ Goto(p, "mkdir", "config")
  /\ dir' = [dir EXCEPT ![image[p]] = TRUE]
  /\ adrift' = adrift \ {image[p]}
  /\ UNCHANGED <<blob, config, manifest, tags, remotes, locals, spoiled, removed,
                 settled, tangled>>

Filled(file, p) ==
  [file EXCEPT ![image[p]] = IF @ = "none" THEN "none" ELSE "whole"]

OpenConfig(p) ==
  /\ Goto(p, "config", "fill config")
  /\ dir[image[p]]
  /\ config' = [config EXCEPT ![image[p]] = "torn"]
  /\ UNCHANGED <<blob, dir, manifest, tags, remotes, locals, spoiled, removed,
                 adrift, settled, tangled>>

FillConfig(p) ==
  /\ Goto(p, "fill config", "manifest")
  /\ config' = Filled(config, p)
  /\ UNCHANGED <<blob, dir, manifest, tags, remotes, locals, spoiled, removed,
                 adrift, settled, tangled>>

OpenManifest(p) ==
  /\ Goto(p, "manifest", "fill manifest")
  /\ dir[image[p]]
  /\ manifest' = [manifest EXCEPT ![image[p]] = "torn"]
  /\ UNCHANGED <<blob, dir, config, tags, remotes, locals, spoiled, removed,
                 adrift, settled, tangled>>

FillManifest(p) ==
  /\ Goto(p, "fill manifest", "load")
  /\ manifest' = Filled(manifest, p)
  /\ UNCHANGED <<blob, dir, config, tags, remotes, locals, spoiled, removed,
                 adrift, settled, tangled>>

DirectoryGone(p) ==
  /\ pc[p] \in {"config", "manifest"}
  /\ ~dir[image[p]]
  /\ Leave(p)
  /\ UNCHANGED <<blob, imageFiles, tags, remotes, spoiled, removed, adrift,
                 settled, tangled>>

\* _update_tags reads the table.
LoadTags(p) ==
  /\ Goto(p, "load", "truncate")
  /\ tags # Torn
  /\ table' = [table EXCEPT ![p] = [tags EXCEPT ![ref[p]] = image[p]]]
  /\ UNCHANGED <<blob, imageFiles, tags, remotes, ref, image, left, doomed,
                 spoiled, removed, adrift, settled, tangled>>

\* The table cannot be parsed, or not be read.
LoadTagsFails(p) ==
  /\ pc[p] = "load"
  /\ Leave(p)
  /\ UNCHANGED <<blob, imageFiles, tags, remotes, spoiled, removed, adrift,
                 settled, tangled>>

------------------------------------------------------------------------------
\* TagManager: what cannot be parsed is taken for an empty table, ...

Loaded == IF tags = Torn THEN NoTags ELSE tags

\* ... and so is what cannot be read: untag(), resolve(), and a tag() that is
\* given a tag, then raise, but a tag() that is given a digest goes on.

\* What the store knows of: images that are there or have a tag.
Known(i) == dir[i] \/ \E t \in Tags : Loaded[t] = i

CallTag_Forgets(p, i, t) ==
  /\ Goto(p, "idle", "truncate")
  /\ Known(i) \/ i \in Digests
  /\ ref' = [ref EXCEPT ![p] = t]
  /\ image' = [image EXCEPT ![p] = i]
  /\ table' = [table EXCEPT ![p] = [NoTags EXCEPT ![t] = i]]
  /\ Enter(p)
  /\ adrift' = IF Known(i) THEN adrift ELSE adrift \cup {i}
  /\ UNCHANGED <<blob, imageFiles, tags, remotes, left, doomed, spoiled, removed,
                 settled>>

\* An image by a tag or its digest, or any digest: tag() does not look whether
\* the store has it.
CallTag(p, i, t) ==
  /\ Goto(p, "idle", "truncate")
  /\ Known(i) \/ i \in Digests
  /\ ref' = [ref EXCEPT ![p] = t]
  /\ image' = [image EXCEPT ![p] = i]
  /\ \/ table' = [table EXCEPT ![p] = [Loaded EXCEPT ![t] = i]] /\ Enter(p)
     \/ table' = [table EXCEPT ![p] = [NoTags EXCEPT ![t] = i]] /\ tangled' = TRUE
  /\ adrift' = IF Known(i) THEN adrift ELSE adrift \cup {i}
  /\ UNCHANGED <<blob, imageFiles, tags, remotes, left, doomed, spoiled, removed,
                 settled>>

CallUntag(p, t) ==
  /\ Goto(p, "idle", "truncate")
  /\ Loaded[t] # None
  /\ ref' = [ref EXCEPT ![p] = t]
  /\ table' = [table EXCEPT ![p] = [Loaded EXCEPT ![t] = None]]
  /\ Enter(p)
  /\ UNCHANGED <<blob, imageFiles, tags, remotes, image, left, doomed, spoiled,
                 removed, adrift, settled>>

------------------------------------------------------------------------------
\* rmi: reads the table once, then works through its arguments

CallRmi_Unchecked(p) ==
  /\ Goto(p, "idle", "refs")
  /\ table' = [table EXCEPT ![p] = tags]
  /\ Enter(p)
  /\ UNCHANGED <<blob, imageFiles, tags, remotes, ref, image, left, doomed,
                 spoiled, removed, adrift, settled>>

CallRmi(p) ==
  /\ Goto(p, "idle", "refs")
  /\ tags # Torn
  /\ table' = [table EXCEPT ![p] = tags]
  /\ Enter(p)
  /\ UNCHANGED <<blob, imageFiles, tags, remotes, ref, image, left, doomed,
                 spoiled, removed, adrift, settled>>

\* An argument that names an image that is there, by tag or digest, and which
\* no running container holds; others are skipped.
Resolve(p, i) ==
  /\ Goto(p, "refs", "rmtree")
  /\ dir[i]
  /\ image' = [image EXCEPT ![p] = i]
  /\ UNCHANGED <<blob, imageFiles, tags, remotes, ref, table, left, doomed,
                 spoiled, removed, adrift, settled, tangled>>

RemoveFiles(p) ==
  /\ Goto(p, "rmtree", "rmdir")
  /\ config' = [config EXCEPT ![image[p]] = "none"]
  /\ manifest' = [manifest EXCEPT ![image[p]] = "none"]
  /\ removed' = removed \cup {image[p]}
  /\ UNCHANGED <<blob, dir, tags, remotes, locals, spoiled, adrift, settled, tangled>>

Empty(i) == config[i] = "none" /\ manifest[i] = "none"

Without(t, i) == [u \in Tags |-> IF t[u] = i THEN None ELSE t[u]]

RemoveDirectory_OneTag(p) ==
  /\ Goto(p, "rmdir", "truncate")
  /\ Empty(image[p])
  /\ dir' = [dir EXCEPT ![image[p]] = FALSE]
  /\ \E t \in Tags :
       /\ table[p][t] = image[p]
       /\ table' = [table EXCEPT ![p][t] = None]
  /\ UNCHANGED <<blob, config, manifest, tags, remotes, ref, image, left, doomed,
                 spoiled, removed, adrift, settled, tangled>>

\* rmdir, and every tag of the image leaves the table.
RemoveDirectory(p) ==
  /\ Goto(p, "rmdir", "truncate")
  /\ Empty(image[p])
  /\ dir' = [dir EXCEPT ![image[p]] = FALSE]
  /\ table' = [table EXCEPT ![p] = Without(@, image[p])]
  /\ UNCHANGED <<blob, config, manifest, tags, remotes, ref, image, left, doomed,
                 spoiled, removed, adrift, settled, tangled>>

\* `rmi sha256:`, without a digest, names the directory of all images.  rmtree
\* removes those it finds, one after the other, ...
ResolveStore(p) ==
  /\ Goto(p, "refs", "rmtree all")
  /\ doomed' = [doomed EXCEPT ![p] = {i \in Images : dir[i]}]
  /\ UNCHANGED <<blob, imageFiles, tags, remotes, ref, image, table, left,
                 spoiled, removed, adrift, settled, tangled>>

RemoveNextFiles(p, i) ==
  /\ Goto(p, "rmtree all", "rmdir all")
  /\ i \in doomed[p]
  /\ dir[i]
  /\ doomed' = [doomed EXCEPT ![p] = @ \ {i}]
  /\ image' = [image EXCEPT ![p] = i]
  /\ config' = [config EXCEPT ![i] = "none"]
  /\ manifest' = [manifest EXCEPT ![i] = "none"]
  /\ removed' = removed \cup {i}
  /\ adrift' = adrift \cup {i}
  /\ UNCHANGED <<blob, dir, tags, remotes, ref, table, left, spoiled, settled,
                 tangled>>

RemoveNextDirectory(p) ==
  /\ Goto(p, "rmdir all", "rmtree all")
  /\ Empty(image[p])
  /\ dir' = [dir EXCEPT ![image[p]] = FALSE]
  /\ UNCHANGED <<blob, config, manifest, tags, remotes, locals, spoiled, removed,
                 adrift, settled, tangled>>

\* ... and then itself.  No image has the empty digest, so that all tags stay.
RemoveStore(p) ==
  /\ Goto(p, "rmtree all", "truncate")
  /\ \A i \in Images : ~dir[i]
  /\ doomed[p] = {}
  /\ UNCHANGED <<blob, imageFiles, tags, remotes, locals, spoiled, removed,
                 adrift, settled, tangled>>

\* A directory, or a file in it, came or went meanwhile: rmtree raises.
RemoveFails(p) ==
  /\ \/ pc[p] \in {"rmtree", "rmdir", "rmdir all"} /\ ~dir[image[p]]
     \/ pc[p] \in {"rmdir", "rmdir all"} /\ ~Empty(image[p])
     \/ pc[p] = "rmtree all" /\ \E i \in doomed[p] : ~dir[i]
     \/ pc[p] = "rmtree all" /\ doomed[p] = {} /\ \E i \in Images : dir[i]
  /\ Leave(p)
  /\ UNCHANGED <<blob, imageFiles, tags, remotes, spoiled, removed, adrift,
                 settled, tangled>>

RmiReturns(p) ==
  /\ pc[p] = "refs"
  /\ Leave(p)
  /\ UNCHANGED <<blob, imageFiles, tags, remotes, spoiled, removed, adrift,
                 settled, tangled>>

------------------------------------------------------------------------------
\* The end of every command that writes the table

TruncateTags(p) ==
  /\ Goto(p, "truncate", "fill")
  /\ tags' = Torn
  /\ UNCHANGED <<blob, imageFiles, remotes, locals, spoiled, removed, adrift,
                 settled, tangled>>

\* Over a text that another process has written since, the result may be a
\* mixture of both.
WriteTags(p) ==
  /\ pc[p] = "fill"
  /\ \/ tags' = table[p]
     \/ tags # Torn /\ tags' = Torn
  /\ settled' = IF tags' = Torn THEN settled ELSE table[p]
  /\ UNCHANGED <<blob, imageFiles, remotes, spoiled, removed, adrift, tangled>>

\* rmi goes on with what it has read.
FillTags(p) ==
  /\ WriteTags(p)
  /\ IF ref[p] = None
     THEN /\ pc' = [pc EXCEPT ![p] = "refs"]
          /\ UNCHANGED locals
     ELSE Leave(p)

------------------------------------------------------------------------------
\* push

CallPush(p, t) ==
  /\ Goto(p, "idle", "token")
  /\ Loaded[t] # None
  /\ manifest[Loaded[t]] = "whole"
  /\ ref' = [ref EXCEPT ![p] = t]
  /\ image' = [image EXCEPT ![p] = Loaded[t]]
  /\ left' = [left EXCEPT ![p] = Loaded[t]]
  /\ UNCHANGED <<blob, imageFiles, tags, remotes, table, doomed, spoiled, removed,
                 adrift, settled, tangled>>

\* One token for the whole push.
GetToken(p) ==
  /\ Goto(p, "token", "layers")
  /\ UNCHANGED <<blob, imageFiles, tags, remotes, locals, spoiled, removed,
                 adrift, settled, tangled>>

BlobExists(p) ==
  /\ pc[p] = "layers"
  /\ left[p] # <<>>
  /\ Head(left[p]) \in pushedLayers
  /\ left' = [left EXCEPT ![p] = Tail(@)]
  /\ UNCHANGED <<blob, imageFiles, tags, remotes, pc, ref, image, table, doomed,
                 spoiled, removed, adrift, settled, tangled>>

\* The registry takes a blob only under its own digest.
PushBlob(p) ==
  /\ pc[p] = "layers"
  /\ left[p] # <<>>
  /\ Head(left[p]) \notin pushedLayers
  /\ blob[Head(left[p])] = "whole"
  /\ pushedLayers' = pushedLayers \cup {Head(left[p])}
  /\ left' = [left EXCEPT ![p] = Tail(@)]
  /\ UNCHANGED <<blob, imageFiles, tags, pushedConfigs, remote, pc, ref, image,
                 table, doomed, spoiled, removed, adrift, settled, tangled>>

LayersPushed_Early(p) ==
  /\ Goto(p, "layers", "put config")
  /\ UNCHANGED <<blob, imageFiles, tags, remotes, locals, spoiled, removed,
                 adrift, settled, tangled>>

LayersPushed(p) ==
  /\ Goto(p, "layers", "put config")
  /\ left[p] = <<>>
  /\ UNCHANGED <<blob, imageFiles, tags, remotes, locals, spoiled, removed,
                 adrift, settled, tangled>>

\* Without a config.json the push goes on without.
PushConfig(p) ==
  /\ Goto(p, "put config", "put manifest")
  /\ \/ config[image[p]] = "none" /\ UNCHANGED pushedConfigs
     \/ config[image[p]] = "whole" /\ pushedConfigs' = pushedConfigs \cup {image[p]}
  /\ UNCHANGED <<blob, imageFiles, tags, pushedLayers, remote, locals, spoiled,
                 removed, adrift, settled, tangled>>

PushManifest(p) ==
  /\ pc[p] = "put manifest"
  /\ Leave(p)
  /\ remote' = [remote EXCEPT ![ref[p]] = image[p]]
  /\ UNCHANGED <<blob, imageFiles, tags, pushedLayers, pushedConfigs, spoiled,
                 removed, adrift, settled, tangled>>

\* A request fails or is refused (the token may have expired), or a file is
\* not there.
PushFails(p) ==
  /\ pc[p] \in PushSteps
  /\ Leave(p)
  /\ UNCHANGED <<blob, imageFiles, tags, remotes, spoiled, removed, adrift,
                 settled, tangled>>

------------------------------------------------------------------------------

\* The process is killed, or raises where it writes or removes a file.
StoreKilled(p) ==
  /\ pc[p] # "idle"
  /\ Leave(p)
  /\ tangled' = (tangled \/ pc[p] \in IndexSteps)
  /\ UNCHANGED <<blob, imageFiles, tags, remotes, removed, adrift, settled>>

CommitStep(p) ==
  \/ MakeDirectory(p) \/ OpenConfig(p) \/ FillConfig(p) \/ OpenManifest(p)
  \/ FillManifest(p) \/ DirectoryGone(p) \/ LoadTags(p) \/ LoadTagsFails(p)

RmiStep(p) ==
  \/ \E i \in Images : Resolve(p, i) \/ RemoveNextFiles(p, i)
  \/ RemoveFiles(p) \/ RemoveDirectory(p) \/ RemoveFails(p) \/ RmiReturns(p)
  \/ ResolveStore(p) \/ RemoveNextDirectory(p) \/ RemoveStore(p)

PushStep(p) ==
  \/ GetToken(p) \/ BlobExists(p) \/ PushBlob(p) \/ LayersPushed(p)
  \/ PushConfig(p) \/ PushManifest(p) \/ PushFails(p)

StoreCall(p) ==
  \/ \E i \in Images, t \in Tags : CallTag(p, i, t)
  \/ \E t \in Tags : CallUntag(p, t) \/ CallPush(p, t)
  \/ CallRmi(p)

StoreStep(p) ==
  CommitStep(p) \/ RmiStep(p) \/ TruncateTags(p) \/ FillTags(p) \/ PushStep(p)

------------------------------------------------------------------------------
\* Properties

(* A tag names an image that is there, with a readable manifest and         *)
(* config, also when an rmi removes an image that has other tags, is given *)
(* several arguments or refuses, when tag() copies a tag, and when commits *)
(* and pushes fail: as long as commands that change the store do not       *)
(* overlap, none is killed and tag() can read the table, and except while  *)
(* an rmi or a commit is at work on that very image, and unless the image  *)
(* was tagged by a digest that the store did not have (tag.py:53), or went *)
(* with the whole store (rmi.py:45), and was not built since.              *)
TagsResolve ==
  ~tangled /\ tags # Torn =>
    \A t \in Tags :
      tags[t] # None =>
        \/ /\ dir[tags[t]]
           /\ config[tags[t]] = "whole"
           /\ manifest[tags[t]] = "whole"
        \/ tags[t] \in adrift
        \/ \E p \in Procs : pc[p] \in IndexSteps /\ image[p] = tags[t]

(* As long as they do not overlap, none is killed and tag() can read the   *)
(* table, a command changes the tag it was given and the tags of the image *)
(* it removes, and no others, although each rewrites the whole table, and  *)
(* an rmi one it read before its first argument.                           *)
ForeignTagsStay ==
  [][~tangled' =>
       \A t \in Tags :
         settled'[t] # settled[t] =>
           \E p \in Procs :
             /\ pc[p] = "fill"
             /\ t = ref[p] \/ (ref[p] = None /\ settled[t] = image[p])
    ]_storeVars

(* A manifest in the registry names layers that are in the registry, and a *)
(* config that is, unless an rmi removed the image before: the push then   *)
(* goes on without (push.py:97), whatever other commands do meanwhile.     *)
PushedIsComplete ==
  \A t \in Tags :
    remote[t] # None =>
      /\ Elements(remote[t]) \subseteq pushedLayers
      /\ remote[t] \in pushedConfigs \cup removed
==============================================================================
