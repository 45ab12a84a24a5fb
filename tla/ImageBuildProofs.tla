-------------------------- MODULE ImageBuildProofs ---------------------------
(***************************************************************************)
(* Proofs about ImageBuild, for any processes, tags, boxfiles and numbers  *)
(* of layers and commands.                                                 *)
(***************************************************************************)
EXTENDS ImageBuild, SequenceTheorems, TLAPS

Labels == {"idle"} \cup IndexSteps \cup PushSteps \cup StepSteps \cup CommitSteps

\* The steps that write an image for its tag, and those of rmi.
TailSteps == {"mkdir", "config", "fill config", "manifest", "fill manifest", "load"}
RmiSteps == {"refs", "rmtree", "rmdir", "rmtree all", "rmdir all"}

\* What a process knows at each step.
LocalInv ==
  \A p \in Procs :
    /\ at[p] # 0
    /\ pc[p] \in StepSteps => recipe[p] \in Recipes
    /\ pc[p] \in StepSteps \ {"steps"} => at[p] <= Len(recipe[p])
    /\ pc[p] \in {"open", "copy"} => image[p] # <<>>
    /\ pc[p] \in StepSteps \cup CommitSteps \cup TailSteps \cup PushSteps
         => ref[p] \in Tags
    /\ pc[p] \in {"idle"} \cup RmiSteps => ref[p] = None
    /\ pc[p] = "idle" => image[p] = <<>>
    /\ pc[p] \in StepSteps => image[p] = <<>>

TypeInv == TypeOK /\ LocalInv

LEMMA KeyIsKey ==
  ASSUME TypeInv, NEW p \in Procs, pc[p] \in StepSteps, at[p] <= Len(recipe[p])
  PROVE  /\ Step(p) \in Steps
         /\ Key(p) \in Keys
         /\ Made(p) \in Archives
         /\ Cached(p) \in Archives
<1>1. recipe[p] \in Recipes /\ at[p] \in 1 .. Len(recipe[p])
  BY RecipesAreSequences DEF TypeInv, TypeOK, LocalInv
<1>2. Key(p) \in Keys
  BY <1>1 DEF Key, Keys, Parents
<1>3. Step(p) \in Steps
  BY <1>1, RecipesAreSequences, ElementOfSeq DEF Step
<1> QED BY <1>2, <1>3 DEF Made, Cached, Archives

\* The rest of the state is as it was for the other processes.
LEMMA Idle ==
  ASSUME TypeInv, NEW p \in Procs, Leave(p)
  PROVE  /\ pc' \in [Procs -> Labels]
         /\ ref' \in [Procs -> Tags \cup {None}]
         /\ image' \in [Procs -> Images]
         /\ table' \in [Procs -> [Tags -> Images \cup {None}]]
         /\ left' \in [Procs -> Seq(Blobs)]
         /\ doomed' \in [Procs -> SUBSET Images]
BY ImagesAreSequences DEF TypeInv, TypeOK, StoreTypeOK, Leave, Labels, NoTags

LEMMA Ended ==
  ASSUME TypeInv, NEW p \in Procs, EndBuild(p)
  PROVE  /\ archive' \in [Archives -> Blobs \cup {None, Torn}]
         /\ recipe' \in [Procs -> Recipes \cup {<<>>}]
         /\ at' \in [Procs -> Nat]
         /\ nocache' \in [Procs -> BOOLEAN]
         /\ got' \in [Procs -> Nat]
         /\ tars' \in [Procs -> Seq(Archives)]
         /\ misled' \subseteq Procs
BY DEF TypeInv, TypeOK, EndBuild

\* The step of a process that leaves every other one alone.
LEMMA LocalStep ==
  ASSUME TypeInv, NEW p \in Procs, NEW w \in Labels, pc' = [pc EXCEPT ![p] = w],
         \A q \in Procs \ {p} : /\ recipe'[q] = recipe[q] /\ at'[q] = at[q]
                                /\ image'[q] = image[q] /\ ref'[q] = ref[q],
         at'[p] # 0, w \in StepSteps => recipe'[p] \in Recipes /\ image'[p] = <<>>,
         w \in StepSteps \ {"steps"} => at'[p] <= Len(recipe'[p]),
         w \in {"open", "copy"} => image'[p] # <<>>,
         w \in StepSteps \cup CommitSteps \cup TailSteps \cup PushSteps
           => ref'[p] \in Tags,
         w \in {"idle"} \cup RmiSteps => ref'[p] = None,
         w = "idle" => image'[p] = <<>>
  PROVE  LocalInv'
<1>1. \A q \in Procs : pc'[q] = IF q = p THEN w ELSE pc[q]
  BY DEF TypeInv, TypeOK
<1> QED BY <1>1 DEF TypeInv, LocalInv

LEMMA LeavesLocal ==
  ASSUME TypeInv, NEW p \in Procs, Leave(p), EndBuild(p) \/ UNCHANGED <<recipe,
                                                                        at>>
  PROVE  LocalInv'
<1>1. \A q \in Procs \ {p} : /\ recipe'[q] = recipe[q] /\ at'[q] = at[q]
                             /\ image'[q] = image[q] /\ ref'[q] = ref[q]
  BY DEF TypeInv, TypeOK, StoreTypeOK, Leave, EndBuild
<1>2. ref'[p] = None /\ image'[p] = <<>> /\ pc' = [pc EXCEPT ![p] = "idle"]
  BY DEF TypeInv, TypeOK, StoreTypeOK, Leave
<1>3. at'[p] # 0
  BY DEF TypeInv, TypeOK, LocalInv, EndBuild
<1> QED
  BY <1>1, <1>2, <1>3, LocalStep
     DEF Labels, StepSteps, CommitSteps, TailSteps, PushSteps

\* Steps of the store change no variable of the builds.
LEMMA StoreTypes ==
  ASSUME TypeInv, NEW p \in Procs, StoreCall(p) \/ StoreStep(p)
  PROVE  StoreTypeOK' /\ pc' \in [Procs -> Labels]
<1> USE ImagesAreSequences
    DEF TypeInv, TypeOK, StoreTypeOK, Labels, IndexSteps, PushSteps, Goto,
        imageFiles, remotes, locals
<1>1. ASSUME NEW i \in Images, NEW t \in Tags, CallTag(p, i, t)
      PROVE  StoreTypeOK' /\ pc' \in [Procs -> Labels]
  <2>1. /\ pc' = [pc EXCEPT ![p] = "truncate"] /\ ref' = [ref EXCEPT ![p] = t]
        /\ image' = [image EXCEPT ![p] = i]
        /\ adrift' = adrift \/ adrift' = adrift \cup {i}
        /\ UNCHANGED <<blob, imageFiles, tags, remotes, left, doomed, spoiled,
                       removed, settled>>
    <3>1. adrift' = IF Known(i) THEN adrift ELSE adrift \cup {i}
      BY ONLY <1>1 DEF CallTag
    <3>2. pc' = [pc EXCEPT ![p] = "truncate"] /\ ref' = [ref EXCEPT ![p] = t]
      BY ONLY <1>1 DEF CallTag, Goto
    <3>3. /\ image' = [image EXCEPT ![p] = i]
          /\ UNCHANGED <<blob, imageFiles, tags, remotes, left, doomed, spoiled,
                         removed, settled>>
      BY ONLY <1>1 DEF CallTag
    <3> QED BY ONLY <3>1, <3>2, <3>3
  <2>2. NoTags \in [Tags -> Images \cup {None}] /\ Loaded \in [Tags -> Images \cup {None}]
    BY DEF Loaded, NoTags
  <2>3. table' \in [Procs -> [Tags -> Images \cup {None}]] /\ tangled' \in BOOLEAN
    <3>1. ASSUME NEW X \in [Tags -> Images \cup {None}],
                 table' = [table EXCEPT ![p] = [X EXCEPT ![t] = i]]
          PROVE  table' \in [Procs -> [Tags -> Images \cup {None}]]
      BY <3>1
    <3>2. \/ table' = [table EXCEPT ![p] = [Loaded EXCEPT ![t] = i]]
          \/ table' = [table EXCEPT ![p] = [NoTags EXCEPT ![t] = i]]
      BY ONLY <1>1 DEF CallTag
    <3>3. tangled' = TRUE \/ tangled' = (tangled \/ \E q \in Procs \ {p} : pc[q] \in IndexSteps)
      BY ONLY <1>1 DEF CallTag, Enter
    <3>4. tangled' \in BOOLEAN
      BY <3>3
    <3> QED BY ONLY <2>2, <3>1, <3>2, <3>4
  <2> QED BY <2>1, <2>3
<1>2. ASSUME NEW t \in Tags, CallUntag(p, t)
      PROVE  StoreTypeOK' /\ pc' \in [Procs -> Labels]
  BY <1>2 DEF CallUntag, Loaded, NoTags, Enter
<1>3. ASSUME NEW t \in Tags, CallPush(p, t)
      PROVE  StoreTypeOK' /\ pc' \in [Procs -> Labels]
  BY <1>3 DEF CallPush, Loaded, NoTags
<1>4. ASSUME CallRmi(p)
      PROVE  StoreTypeOK' /\ pc' \in [Procs -> Labels]
  BY <1>4 DEF CallRmi, Enter
<1>5. CASE MakeDirectory(p)
  BY <1>5 DEF MakeDirectory
<1>6. CASE OpenConfig(p) \/ OpenManifest(p)
  <2>1. CASE OpenConfig(p)
    BY <2>1 DEF OpenConfig
  <2>2. CASE OpenManifest(p)
    BY <2>2 DEF OpenManifest
  <2> QED BY <1>6, <2>1, <2>2
<1>7. CASE FillConfig(p) \/ FillManifest(p)
  BY <1>7 DEF FillConfig, FillManifest, Filled
<1>8. CASE \/ DirectoryGone(p) \/ LoadTagsFails(p) \/ RemoveFails(p)
           \/ RmiReturns(p) \/ PushFails(p)
  <2>1. Leave(p) /\ UNCHANGED <<blob, imageFiles, tags, remotes, spoiled,
                                removed, adrift, settled, tangled>>
    BY <1>8 DEF DirectoryGone, LoadTagsFails, RemoveFails, RmiReturns, PushFails
  <2> QED BY <2>1, Idle
<1>9. CASE LoadTags(p)
  BY <1>9 DEF LoadTags
<1>10. ASSUME NEW i \in Images, Resolve(p, i)
       PROVE  StoreTypeOK' /\ pc' \in [Procs -> Labels]
  BY <1>10 DEF Resolve
<1>11. CASE RemoveFiles(p)
  BY <1>11 DEF RemoveFiles
<1>12. CASE RemoveDirectory(p)
  BY <1>12 DEF RemoveDirectory, Without
<1>21. CASE ResolveStore(p)
  <2>1. doomed' \in [Procs -> SUBSET Images]
    BY <1>21 DEF ResolveStore
  <2> QED BY <1>21, <2>1 DEF ResolveStore
<1>22. ASSUME NEW i \in Images, RemoveNextFiles(p, i)
       PROVE  StoreTypeOK' /\ pc' \in [Procs -> Labels]
  <2>1. doomed' \in [Procs -> SUBSET Images]
    BY <1>22 DEF RemoveNextFiles
  <2> QED BY <1>22, <2>1 DEF RemoveNextFiles
<1>23. CASE RemoveNextDirectory(p) \/ RemoveStore(p)
  BY <1>23 DEF RemoveNextDirectory, RemoveStore
<1>13. CASE TruncateTags(p)
  BY <1>13 DEF TruncateTags
<1>14. CASE FillTags(p)
  <2>1. /\ tags' \in {table[p], Torn} /\ settled' \in {settled, table[p]}
        /\ UNCHANGED <<blob, imageFiles, remotes, spoiled, removed, adrift,
                       tangled>>
    BY <1>14 DEF FillTags, WriteTags
  <2>2. /\ tags' \in [Tags -> Images \cup {None}] \cup {Torn}
        /\ settled' \in [Tags -> Images \cup {None}]
    <3>1. /\ table[p] \in [Tags -> Images \cup {None}]
          /\ settled \in [Tags -> Images \cup {None}]
      OBVIOUS
    <3>2. tags' = table[p] \/ tags' = Torn
      BY <2>1
    <3>3. settled' = table[p] \/ settled' = settled
      BY <2>1
    <3> QED BY <3>1, <3>2, <3>3
  <2>3. CASE ref[p] = None
    <3>1. pc' = [pc EXCEPT ![p] = "refs"] /\ UNCHANGED locals
      BY <1>14, <2>3 DEF FillTags
    <3> QED BY <2>1, <2>2, <3>1
  <2>4. CASE ref[p] # None
    <3>1. Leave(p)
      BY <1>14, <2>4 DEF FillTags
    <3> QED BY <2>1, <2>2, <3>1, Idle
  <2> QED BY <2>3, <2>4
<1>15. CASE GetToken(p) \/ LayersPushed(p)
  BY <1>15 DEF GetToken, LayersPushed
<1>20. left[p] # <<>> => Head(left[p]) \in Blobs /\ Tail(left[p]) \in Seq(Blobs)
  BY HeadTailProperties
<1>16. CASE BlobExists(p)
  BY <1>16, <1>20 DEF BlobExists
<1>17. CASE PushBlob(p)
  BY <1>17, <1>20 DEF PushBlob
<1>18. CASE PushConfig(p)
  BY <1>18 DEF PushConfig
<1>19. CASE PushManifest(p)
  <2>1. Leave(p) /\ UNCHANGED <<blob, imageFiles, tags, pushedLayers,
                                pushedConfigs, spoiled, removed, adrift, settled,
                                tangled>>
    BY <1>19 DEF PushManifest
  <2>2. remote' \in [Tags -> Images \cup {None}]
    BY <1>19 DEF PushManifest
  <2> QED BY <2>1, <2>2, Idle
<1> QED
  BY <1>1, <1>2, <1>3, <1>4, <1>5, <1>6, <1>7, <1>8, <1>9, <1>10, <1>11, <1>12,
     <1>13, <1>14, <1>15, <1>16, <1>17, <1>18, <1>19, <1>21, <1>22, <1>23
     DEF StoreCall, StoreStep, CommitStep, RmiStep, PushStep

\* Where a step of the store takes a process.
LEMMA StoreLocal ==
  ASSUME TypeInv, NEW p \in Procs, StoreCall(p) \/ StoreStep(p),
         UNCHANGED <<recipe, at>>
  PROVE  LocalInv'
<1> USE DEF Goto, locals
<1>1. CASE Leave(p)
  BY <1>1, LeavesLocal
<1>2. CASE ~Leave(p)
  <2>1. \A q \in Procs \ {p} : image'[q] = image[q] /\ ref'[q] = ref[q]
    <3> USE DEF TypeInv, TypeOK, StoreTypeOK
    <3>1. CASE StoreCall(p)
      <4>1. ASSUME NEW i \in Images, NEW t \in Tags, CallTag(p, i, t)
            PROVE  \A q \in Procs \ {p} : image'[q] = image[q] /\ ref'[q] = ref[q]
        BY ONLY <4>1, TypeInv DEF CallTag, TypeInv, TypeOK, StoreTypeOK
      <4>2. CASE CallRmi(p) \/ \E t \in Tags : CallUntag(p, t) \/ CallPush(p, t)
        BY <4>2 DEF CallUntag, CallPush, CallRmi
      <4> QED BY <3>1, <4>1, <4>2 DEF StoreCall
    <3>2. CASE RmiStep(p)
      <4>1. CASE \/ RemoveFiles(p) \/ RemoveDirectory(p) \/ ResolveStore(p)
                 \/ RemoveNextDirectory(p) \/ RemoveStore(p)
        BY <4>1 DEF RemoveFiles, RemoveDirectory, ResolveStore, RemoveNextDirectory,
           RemoveStore
      <4>2. ASSUME NEW i \in Images, Resolve(p, i) \/ RemoveNextFiles(p, i)
            PROVE  \A q \in Procs \ {p} : image'[q] = image[q] /\ ref'[q] = ref[q]
        BY <4>2 DEF Resolve, RemoveNextFiles
      <4>3. ~RemoveFails(p) /\ ~RmiReturns(p)
        BY <1>2 DEF RemoveFails, RmiReturns
      <4> QED BY ONLY <3>2, <4>1, <4>2, <4>3 DEF RmiStep
    <3>3. CASE CommitStep(p) \/ TruncateTags(p) \/ FillTags(p) \/ PushStep(p)
      BY <1>2, <3>3 DEF CommitStep, PushStep, MakeDirectory, OpenConfig, OpenManifest,
         FillConfig, FillManifest, DirectoryGone, LoadTags, LoadTagsFails, PushFails,
         TruncateTags, FillTags, WriteTags, GetToken, LayersPushed, BlobExists,
         PushBlob, PushConfig, PushManifest
    <3> QED BY <3>1, <3>2, <3>3 DEF StoreStep
  <2>2. \E w \in Labels :
          /\ pc' = [pc EXCEPT ![p] = w]
          /\ w \notin StepSteps \cup CommitSteps \cup {"idle"}
          /\ w \in TailSteps \cup PushSteps => ref'[p] \in Tags
          /\ w \in RmiSteps => ref'[p] = None
    <3> USE DEF TypeInv, TypeOK, StoreTypeOK, LocalInv, Labels, IndexSteps,
        PushSteps, TailSteps, RmiSteps, StepSteps, CommitSteps
    <3>1. CASE StoreCall(p)
      <4>1. \/ /\ pc' = [pc EXCEPT ![p] = "truncate"]
            \/ /\ pc' = [pc EXCEPT ![p] = "token"]
               /\ \E t \in Tags : ref' = [ref EXCEPT ![p] = t]
            \/ /\ pc' = [pc EXCEPT ![p] = "refs"] /\ pc[p] = "idle" /\ UNCHANGED ref
        BY <3>1 DEF StoreCall, CallTag, CallUntag, CallPush, CallRmi
      <4>2. CASE pc' = [pc EXCEPT ![p] = "truncate"]
        <5> WITNESS "truncate" \in Labels
        <5> QED BY <4>2
      <4>3. CASE /\ pc' = [pc EXCEPT ![p] = "token"]
                 /\ \E t \in Tags : ref' = [ref EXCEPT ![p] = t]
        <5>1. ref'[p] \in Tags
          BY <4>3
        <5> WITNESS "token" \in Labels
        <5> QED BY <4>3, <5>1
      <4>4. CASE pc' = [pc EXCEPT ![p] = "refs"] /\ pc[p] = "idle" /\ UNCHANGED ref
        <5>1. ref'[p] = None
          BY <4>4
        <5> WITNESS "refs" \in Labels
        <5> QED BY <4>4, <5>1
      <4> QED BY <4>1, <4>2, <4>3, <4>4
    <3>2. CASE CommitStep(p)
      <4>1. UNCHANGED ref /\ pc[p] \in TailSteps
        BY <1>2, <3>2 DEF CommitStep, MakeDirectory, OpenConfig, OpenManifest,
           FillConfig, FillManifest, DirectoryGone, LoadTagsFails, LoadTags
      <4>2. \E w \in TailSteps \cup {"truncate"} : pc' = [pc EXCEPT ![p] = w]
        BY <1>2, <3>2, <4>1 DEF CommitStep, MakeDirectory, OpenConfig, OpenManifest,
           FillConfig, FillManifest, DirectoryGone, LoadTagsFails, LoadTags
      <4> QED BY <4>1, <4>2
    <3>3. CASE RmiStep(p)
      <4>1. UNCHANGED ref /\ pc[p] \in RmiSteps
        BY <1>2, <3>3 DEF RmiStep, RemoveFails, RmiReturns, Resolve, RemoveFiles,
           RemoveDirectory, ResolveStore, RemoveNextFiles, RemoveNextDirectory,
           RemoveStore
      <4>2. \E w \in RmiSteps \cup {"truncate"} : pc' = [pc EXCEPT ![p] = w]
        BY <1>2, <3>3, <4>1 DEF RmiStep, RemoveFails, RmiReturns, Resolve,
           RemoveFiles, RemoveDirectory, ResolveStore, RemoveNextFiles,
           RemoveNextDirectory, RemoveStore
      <4> QED BY <4>1, <4>2
    <3>4. CASE TruncateTags(p) \/ FillTags(p)
      <4>1. \/ pc' = [pc EXCEPT ![p] = "fill"]
            \/ pc' = [pc EXCEPT ![p] = "refs"] /\ ref[p] = None /\ UNCHANGED ref
        BY <1>2, <3>4 DEF TruncateTags, FillTags
      <4>2. CASE pc' = [pc EXCEPT ![p] = "fill"]
        <5> WITNESS "fill" \in Labels
        <5> QED BY <4>2
      <4>3. CASE pc' = [pc EXCEPT ![p] = "refs"] /\ ref[p] = None /\ UNCHANGED ref
        <5>1. ref'[p] = None
          BY <4>3
        <5> WITNESS "refs" \in Labels
        <5> QED BY <4>3, <5>1
      <4> QED BY <4>1, <4>2, <4>3
    <3>5. CASE PushStep(p)
      <4>1. UNCHANGED ref /\ pc[p] \in PushSteps
        BY <1>2, <3>5 DEF PushStep, GetToken, LayersPushed, BlobExists, PushBlob,
           PushConfig, PushManifest, PushFails
      <4>2. \E w \in PushSteps : pc' = [pc EXCEPT ![p] = w]
        BY <1>2, <3>5, <4>1 DEF PushStep, GetToken, LayersPushed, BlobExists,
           PushBlob, PushConfig, PushManifest, PushFails
      <4> QED BY <4>1, <4>2
    <3> QED BY <3>1, <3>2, <3>3, <3>4, <3>5 DEF StoreStep, StoreCall
  <2>3. PICK w \in Labels :
          /\ pc' = [pc EXCEPT ![p] = w]
          /\ w \notin StepSteps \cup CommitSteps \cup {"idle"}
          /\ w \in TailSteps \cup PushSteps => ref'[p] \in Tags
          /\ w \in RmiSteps => ref'[p] = None
    BY <2>2
  <2> QED
    BY <2>1, <2>3, LocalStep DEF TypeInv, LocalInv, StepSteps, CommitSteps, TailSteps,
       PushSteps, RmiSteps
<1> QED BY <1>1, <1>2

\* Steps of a build, and how it ends.
LEMMA RaiseTypes ==
  ASSUME TypeInv, NEW p \in Procs, Raise(p)
  PROVE  TypeInv'
<1>1. /\ UNCHANGED <<storeFiles, packed, version, usage>>
      /\ Leave(p) /\ EndBuild(p)
  BY DEF Raise
<1>2. StoreTypeOK'
  BY <1>1, Idle DEF TypeInv, TypeOK, StoreTypeOK, storeFiles, imageFiles, remotes
<1>3. TypeOK'
  BY <1>1, <1>2, Idle, Ended DEF TypeInv, TypeOK, usage, Labels
<1> QED BY <1>1, <1>3, LeavesLocal DEF TypeInv

LEMMA NextStep ==
  ASSUME TypeInv, NEW p \in Procs, pc[p] \in {"steps", "fill cache"},
         pc' = [pc EXCEPT ![p] = "steps"] \/ (pc[p] = "steps" /\ UNCHANGED pc),
         at' = [at EXCEPT ![p] = @ + 1],
         archive' \in [Archives -> Blobs \cup {None, Torn}],
         tars' \in [Procs -> Seq(Archives)], misled' \subseteq Procs,
         UNCHANGED <<storeFiles, locals, packed, version, recipe, nocache, got,
                     usage>>
  PROVE  TypeInv'
<1>1. pc' = [pc EXCEPT ![p] = "steps"]
  BY DEF TypeInv, TypeOK
<1>2. at' \in [Procs -> Nat] /\ at'[p] # 0 /\ \A q \in Procs \ {p} : at'[q] = at[q]
  <2>1. at \in [Procs -> Nat]
    BY DEF TypeInv, TypeOK
  <2> QED BY ONLY <2>1, at' = [at EXCEPT ![p] = @ + 1], p \in Procs
<1>3. TypeOK'
  BY <1>1, <1>2 DEF TypeInv, TypeOK, StoreTypeOK, storeFiles, locals, imageFiles,
     remotes, usage, StepSteps
<1>4. LocalInv'
  BY <1>1, <1>2, LocalStep DEF TypeInv, LocalInv, Labels, locals, StepSteps,
     CommitSteps, TailSteps, RmiSteps, PushSteps
<1> QED BY <1>3, <1>4 DEF TypeInv

LEMMA Packed ==
  ASSUME TypeInv, NEW e \in [key : Keys, from : Dirs, version : Nat],
         Len(packed) + 1 \in Blobs, packed' = Append(packed, e)
  PROVE  /\ packed' \in Seq([key : Keys, from : Dirs, version : Nat])
         /\ Len(packed') \in Blobs
<1> DEFINE Entries == [key : Keys, from : Dirs, version : Nat]
<1>1. packed \in Seq(Entries) /\ e \in Entries
  BY DEF TypeInv, TypeOK
<1> HIDE DEF Entries
<1>2. Append(packed, e) \in Seq(Entries) /\ Len(Append(packed, e)) = Len(packed) + 1
  BY <1>1, AppendProperties
<1> QED BY <1>2 DEF Entries

LEMMA BuildTypes ==
  ASSUME TypeInv, NEW p \in Procs, BuildStep(p)
  PROVE  TypeInv'
<1> USE DEF Goto, StepSteps, CommitSteps, TailSteps, RmiSteps, PushSteps,
        locals, files, buildLocals, usage, storeFiles, storeVars, imageFiles, remotes
<1>1. CASE RunStep(p) \/ StepFails(p) \/ PutFails(p) \/ HashFails(p)
  BY <1>1, RaiseTypes DEF RunStep, StepFails, PutFails, HashFails
<1>2. CASE MetaStep(p)
  <2>1. /\ UNCHANGED <<storeVars, files, version, recipe, nocache, got, tars,
                       misled, usage>>
        /\ pc[p] = "steps" /\ at' = [at EXCEPT ![p] = @ + 1]
    BY <1>2 DEF MetaStep, AtStep
  <2>2. /\ archive' \in [Archives -> Blobs \cup {None, Torn}]
        /\ tars' \in [Procs -> Seq(Archives)] /\ misled' \subseteq Procs
    BY <2>1 DEF TypeInv, TypeOK
  <2>3. UNCHANGED <<storeFiles, locals, packed, version, recipe, nocache, got,
                    usage>>
    BY <2>1
  <2> QED BY <2>1, <2>2, <2>3, NextStep
<1>3. CASE CacheHit(p)
  <2>1. Cached(p) \in Archives
    BY <1>3, KeyIsKey DEF CacheHit, AtStep
  <2>2. tars' = [tars EXCEPT ![p] = Append(@, Cached(p))]
    BY <1>3 DEF CacheHit
  <2>3. tars' \in [Procs -> Seq(Archives)]
    <3> HIDE DEF TypeInv
    <3>1. tars \in [Procs -> Seq(Archives)]
      BY DEF TypeInv, TypeOK
    <3>2. Append(tars[p], Cached(p)) \in Seq(Archives)
      BY <2>1, <3>1, AppendProperties
    <3> QED BY <2>2, <3>1, <3>2
  <2>4. misled' \subseteq Procs
    <3>1. misled' = misled \/ misled' = misled \cup {p}
      BY <1>3 DEF CacheHit
    <3> QED BY <3>1 DEF TypeInv, TypeOK
  <2>5. /\ UNCHANGED <<storeVars, files, version, recipe, nocache, got, usage>>
        /\ pc[p] = "steps" /\ at' = [at EXCEPT ![p] = @ + 1]
    BY <1>3 DEF CacheHit, AtStep
  <2>6. archive' \in [Archives -> Blobs \cup {None, Torn}]
    BY <2>5 DEF TypeInv, TypeOK
  <2>7. UNCHANGED <<storeFiles, locals, packed, version, recipe, nocache, got,
                    usage>>
    BY <2>5
  <2> QED BY <2>3, <2>4, <2>5, <2>6, <2>7, NextStep
<1>4. CASE ReadFiles(p)
  <2>1. Step(p) \in Steps
    BY <1>4, KeyIsKey DEF ReadFiles, Misses, AtStep
  <2>2. got' \in [Procs -> Nat]
    <3>1. Files(p) \in Nat
      BY <2>1 DEF Files, TypeInv, TypeOK
    <3> QED BY <1>4, <3>1 DEF ReadFiles, TypeInv, TypeOK
  <2>3. TypeOK'
    BY <1>4, <2>2 DEF ReadFiles, TypeInv, TypeOK, StoreTypeOK
  <2>4. LocalInv'
    BY <1>4, LocalStep DEF ReadFiles, Misses, AtStep, TypeInv, LocalInv, Labels
  <2> QED BY <2>3, <2>4 DEF TypeInv
<1>5. CASE TruncateTmp(p)
  <2>1. TypeOK'
    BY <1>5 DEF TruncateTmp, Truncate, Mislead, Users, TypeInv, TypeOK, StoreTypeOK
  <2>2. LocalInv'
    BY <1>5, LocalStep DEF TruncateTmp, TypeInv, LocalInv, Labels
  <2> QED BY <2>1, <2>2 DEF TypeInv
<1>6. CASE FillTmp(p)
  <2>1. Key(p) \in Keys
    BY <1>6, KeyIsKey DEF FillTmp, TypeInv, LocalInv
  <2>2. got[p] \in Nat /\ cwd[p] \in Dirs
    BY DEF TypeInv, TypeOK
  <2>3. [key |-> Key(p), from |-> cwd[p], version |-> got[p]]
          \in [key : Keys, from : Dirs, version : Nat]
    BY <2>1, <2>2
  <2> HIDE DEF Key
  <2>4. /\ packed' \in Seq([key : Keys, from : Dirs, version : Nat])
        /\ Len(packed') \in Blobs
    <3>1. Len(packed) + 1 \in Blobs
      BY <1>6 DEF FillTmp, New
    <3>2. packed' = Append(packed, [key |-> Key(p), from |-> cwd[p], version |-> got[p]])
      BY <1>6 DEF FillTmp, New
    <3> QED BY <2>3, <3>1, <3>2, Packed
  <2>5. archive' \in [Archives -> Blobs \cup {None, Torn}] /\ misled' \subseteq Procs
    BY <1>6, <2>4 DEF FillTmp, Write, Mislead, Users, TypeInv, TypeOK
  <2>6. TypeOK'
    BY <1>6, <2>4, <2>5 DEF FillTmp, TypeInv, TypeOK, StoreTypeOK
  <2>7. LocalInv'
    BY <1>6, LocalStep DEF FillTmp, TypeInv, LocalInv, Labels
  <2> QED BY <2>6, <2>7 DEF TypeInv
<1>7. CASE PythonStep(p)
  <2>1. Key(p) \in Keys /\ cwd[p] \in Dirs
    BY <1>7, KeyIsKey DEF PythonStep, Misses, AtStep, TypeInv, TypeOK
  <2>2. [key |-> Key(p), from |-> cwd[p], version |-> 1]
          \in [key : Keys, from : Dirs, version : Nat]
    BY <2>1
  <2>3. /\ packed' \in Seq([key : Keys, from : Dirs, version : Nat])
        /\ Len(packed') \in Blobs
    <3>1. Len(packed) + 1 \in Blobs
      BY <1>7 DEF PythonStep, New
    <3>2. packed' = Append(packed, [key |-> Key(p), from |-> cwd[p], version |-> 1])
      BY <1>7 DEF PythonStep, New
    <3> QED BY <2>2, <3>1, <3>2, Packed
  <2>4. archive' \in [Archives -> Blobs \cup {None, Torn}]
    BY <1>7, <2>3 DEF PythonStep, TypeInv, TypeOK
  <2>5. TypeOK'
    BY <1>7, <2>3, <2>4 DEF PythonStep, TypeInv, TypeOK, StoreTypeOK
  <2>6. LocalInv'
    BY <1>7, LocalStep DEF PythonStep, Misses, AtStep, TypeInv, LocalInv, Labels
  <2> QED BY <2>5, <2>6 DEF TypeInv
<1>8. CASE Discard(p)
  <2>1. archive' \in [Archives -> Blobs \cup {None, Torn}]
    BY <1>8 DEF Discard, TypeInv, TypeOK
  <2>2. TypeOK'
    BY <1>8, <2>1 DEF Discard, TypeInv, TypeOK, StoreTypeOK
  <2>3. LocalInv'
    BY <1>8, LocalStep DEF Discard, TypeInv, LocalInv, Labels
  <2> QED BY <2>2, <2>3 DEF TypeInv
<1>9. CASE Put(p)
  <2>1. TypeOK'
    BY <1>9 DEF Put, Truncate, Mislead, Users, TypeInv, TypeOK, StoreTypeOK
  <2>2. LocalInv'
    BY <1>9, LocalStep DEF Put, TypeInv, LocalInv, Labels
  <2> QED BY <2>1, <2>2 DEF TypeInv
<1>10. CASE FillCache(p)
  <2>1. Made(p) \in Archives
    BY <1>10, KeyIsKey DEF FillCache, TypeInv, LocalInv
  <2>2. archive[Made(p)] \in Blobs \cup {None, Torn}
    BY <2>1 DEF TypeInv, TypeOK
  <2>3. /\ archive' \in [Archives -> Blobs \cup {None, Torn}]
        /\ misled' \subseteq Procs
    BY <1>10, <2>2 DEF FillCache, Write, Mislead, Users, TypeInv, TypeOK
  <2>4. tars' \in [Procs -> Seq(Archives)]
    <3>1. tars \in [Procs -> Seq(Archives)]
      BY DEF TypeInv, TypeOK
    <3>2. Append(tars[p], Made(p)) \in Seq(Archives)
      BY <2>1, <3>1, AppendProperties
    <3>3. tars' = [tars EXCEPT ![p] = Append(@, Made(p))]
      BY <1>10 DEF FillCache
    <3> QED BY <3>1, <3>2, <3>3
  <2>5. /\ UNCHANGED <<storeFiles, locals, packed, version, recipe, nocache, got,
                       usage>>
        /\ pc[p] = "fill cache" /\ pc' = [pc EXCEPT ![p] = "steps"]
        /\ at' = [at EXCEPT ![p] = @ + 1]
    BY <1>10 DEF FillCache
  <2> QED BY <2>3, <2>4, <2>5, NextStep
<1>11. CASE StepsDone(p)
  <2>1. TypeOK'
    BY <1>11 DEF StepsDone, TypeInv, TypeOK, StoreTypeOK
  <2>2. LocalInv'
    BY <1>11, LocalStep DEF StepsDone, TypeInv, LocalInv, Labels
  <2> QED BY <2>1, <2>2 DEF TypeInv
<1>12. CASE HashLayer(p)
  <2>1. PICK b \in Blobs :
          /\ Append(image[p], b) \in Images
          /\ image' = [image EXCEPT ![p] = Append(@, b)]
          /\ pc' = IF blob[b] = "none" THEN [pc EXCEPT ![p] = "open"] ELSE pc
    BY <1>12 DEF HashLayer
  <2>2. image'[p] # <<>> /\ image' \in [Procs -> Images]
    <3>1. image[p] \in Seq(Blobs)
      BY ImagesAreSequences DEF TypeInv, TypeOK, StoreTypeOK
    <3>2. Append(image[p], b)[Len(image[p]) + 1] = b /\ Len(Append(image[p], b)) # 0
      BY <3>1, AppendProperties
    <3>3. Append(image[p], b) # <<>>
      BY <3>2
    <3> QED BY <2>1, <3>3 DEF TypeInv, TypeOK, StoreTypeOK
  <2>3. pc[p] = "hash" /\ \E w \in {"hash", "open"} : pc' = [pc EXCEPT ![p] = w]
    BY <1>12, <2>1 DEF HashLayer, AtLayer, TypeInv, TypeOK
  <2>4. PICK w \in {"hash", "open"} : pc' = [pc EXCEPT ![p] = w]
    BY <2>3
  <2>5. TypeOK'
    BY <1>12, <2>2, <2>4 DEF HashLayer, TypeInv, TypeOK, StoreTypeOK
  <2>6. \A q \in Procs \ {p} : image'[q] = image[q]
    BY <2>1 DEF TypeInv, TypeOK, StoreTypeOK
  <2>7. UNCHANGED <<recipe, at, ref>>
    BY <1>12 DEF HashLayer
  <2>8. LocalInv'
    BY <2>2, <2>3, <2>4, <2>6, <2>7, LocalStep DEF TypeInv, LocalInv, Labels
  <2> QED BY <2>5, <2>8 DEF TypeInv
<1>13. CASE OpenBlob(p) \/ CopyBlob(p)
  <2>1. /\ blob' \in [Blobs -> {"none", "torn", "whole"}] /\ spoiled' \subseteq Blobs
    <3>1. image[p] \in Seq(Blobs) /\ image[p] # <<>>
      BY <1>13, ImagesAreSequences
         DEF OpenBlob, CopyBlob, TypeInv, TypeOK, StoreTypeOK, LocalInv
    <3>2. Last(image[p]) \in Blobs
      BY <3>1 DEF Last
    <3> QED BY <1>13, <3>2 DEF OpenBlob, CopyBlob, TypeInv, TypeOK, StoreTypeOK
  <2>2. /\ UNCHANGED <<imageFiles, tags, remotes, removed, adrift, settled,
                       tangled, locals, files, version, buildLocals, misled,
                       usage>>
        /\ pc[p] \in {"open", "copy"}
    BY <1>13 DEF OpenBlob, CopyBlob
  <2>3. PICK w \in {"copy", "hash"} : pc' = [pc EXCEPT ![p] = w]
    BY <1>13 DEF OpenBlob, CopyBlob
  <2>4. TypeOK'
    BY <2>1, <2>2, <2>3 DEF TypeInv, TypeOK, StoreTypeOK
  <2>5. LocalInv'
    BY <2>2, <2>3, LocalStep DEF TypeInv, LocalInv, Labels
  <2> QED BY <2>4, <2>5 DEF TypeInv
<1>14. CASE Assemble(p)
  <2>1. /\ UNCHANGED <<blob, imageFiles, tags, remotes, spoiled, removed, adrift,
                       settled, locals, packed, version, usage>>
        /\ EndBuild(p) /\ Enter(p)
        /\ pc[p] = "hash" /\ pc' = [pc EXCEPT ![p] = "mkdir"]
    BY <1>14 DEF Assemble
  <2>2. TypeOK'
    BY <2>1, Ended DEF Enter, IndexSteps, TypeInv, TypeOK, StoreTypeOK
  <2>3. /\ at'[p] # 0
        /\ \A q \in Procs \ {p} : recipe'[q] = recipe[q] /\ at'[q] = at[q]
    <3>1. at' = [at EXCEPT ![p] = 1] /\ recipe' = [recipe EXCEPT ![p] = <<>>]
      BY <2>1 DEF EndBuild
    <3>2. at \in [Procs -> Nat] /\ recipe \in [Procs -> Recipes \cup {<<>>}]
      BY DEF TypeInv, TypeOK
    <3> QED BY ONLY <3>1, <3>2, p \in Procs
  <2>4. LocalInv'
    BY <2>1, <2>3, LocalStep DEF TypeInv, LocalInv, Labels, IndexSteps
  <2> QED BY <2>2, <2>4 DEF TypeInv
<1> QED
  BY <1>1, <1>2, <1>3, <1>4, <1>5, <1>6, <1>7, <1>8, <1>9, <1>10, <1>11, <1>12,
     <1>13, <1>14 DEF BuildStep

LEMMA CallTypes ==
  ASSUME TypeInv, NEW p \in Procs, Call(p)
  PROVE  TypeInv'
<1>1. calls' \in Nat /\ UNCHANGED <<workload, cwd>>
  BY DEF Call, TypeInv, TypeOK
<1>2. ASSUME NEW r \in workload.recipes, NEW t \in Tags, NEW nc \in BOOLEAN,
             CallBuild(p, r, t, nc)
      PROVE  TypeInv'
  <2>1. r \in Recipes
    BY WorkloadsAreBounds DEF TypeInv, TypeOK
  <2>2. /\ recipe' = [recipe EXCEPT ![p] = r] /\ ref' = [ref EXCEPT ![p] = t]
        /\ nocache' = [nocache EXCEPT ![p] = nc]
        /\ pc[p] = "idle" /\ pc' = [pc EXCEPT ![p] = "steps"]
        /\ UNCHANGED <<storeFiles, image, table, left, files, version, at, got,
                       tars, misled>>
    BY <1>2 DEF CallBuild, Goto
  <2>3. TypeOK'
    <3>1. /\ recipe' \in [Procs -> Recipes \cup {<<>>}]
          /\ ref' \in [Procs -> Tags \cup {None}]
          /\ nocache' \in [Procs -> BOOLEAN]
          /\ pc' \in [Procs -> {"idle"} \cup IndexSteps \cup PushSteps \cup StepSteps
                                  \cup CommitSteps]
      BY <2>1, <2>2 DEF TypeInv, TypeOK, StoreTypeOK, StepSteps
    <3>2. /\ UNCHANGED <<blob, dir, config, manifest, tags, pushedLayers,
                         pushedConfigs, remote, spoiled, removed, adrift, settled,
                         tangled>>
          /\ UNCHANGED <<image, table, left, doomed, archive, packed, version, at,
                         got, tars, misled, workload, cwd>>
      BY <1>1, <1>2, <2>2 DEF CallBuild, storeFiles, files, imageFiles, remotes
    <3> QED BY <1>1, <3>1, <3>2 DEF TypeInv, TypeOK, StoreTypeOK
  <2>4. at[p] # 0 /\ image[p] = <<>>
    BY <2>2 DEF TypeInv, LocalInv
  <2>5. /\ recipe'[p] = r /\ ref'[p] = t
        /\ \A q \in Procs \ {p} : recipe'[q] = recipe[q] /\ ref'[q] = ref[q]
    BY <2>2 DEF TypeInv, TypeOK, StoreTypeOK
  <2>6. LocalInv'
    BY <2>1, <2>2, <2>4, <2>5, LocalStep DEF Labels, StepSteps, CommitSteps,
       TailSteps, RmiSteps, PushSteps
  <2> QED BY <2>3, <2>6 DEF TypeInv
<1>3. CASE StoreCall(p) /\ UNCHANGED <<files, version, buildLocals, misled>>
  <2>1. LocalInv'
    BY <1>3, StoreLocal DEF buildLocals
  <2>2. TypeOK'
    BY <1>1, <1>3, StoreTypes DEF TypeInv, TypeOK, Labels, files, buildLocals
  <2> QED BY <2>1, <2>2 DEF TypeInv
<1> QED BY <1>2, <1>3 DEF Call

LEMMA KilledTypes ==
  ASSUME TypeInv, NEW p \in Procs, Killed(p)
  PROVE  TypeInv'
<1>1. /\ Leave(p) /\ EndBuild(p) /\ tangled' \in BOOLEAN
      /\ UNCHANGED <<blob, imageFiles, tags, remotes, removed, adrift, settled,
                     packed, version, usage>>
  BY DEF Killed, StoreKilled, TypeInv, TypeOK, StoreTypeOK
<1>2. spoiled' \subseteq Blobs
  <2>1. CASE pc[p] = "copy"
    <3>1. image[p] \in Seq(Blobs) /\ image[p] # <<>>
      BY <2>1, ImagesAreSequences DEF TypeInv, TypeOK, StoreTypeOK, LocalInv
    <3>2. Last(image[p]) \in Blobs
      BY <3>1 DEF Last
    <3> QED BY <2>1, <3>2 DEF Killed, TypeInv, TypeOK, StoreTypeOK
  <2>2. CASE pc[p] # "copy"
    BY <2>2 DEF Killed, TypeInv, TypeOK, StoreTypeOK
  <2> QED BY <2>1, <2>2
<1>3. StoreTypeOK'
  BY <1>1, <1>2, Idle DEF TypeInv, TypeOK, StoreTypeOK, imageFiles, remotes
<1>4. TypeOK'
  BY <1>1, <1>3, Idle, Ended DEF TypeInv, TypeOK, usage, Labels
<1> QED BY <1>1, <1>4, LeavesLocal DEF TypeInv

LEMMA TypeInvariant == Spec => []TypeInv
<1>1. ASSUME Init
      PROVE  TypeInv
  <2>1. StoreTypeOK
    BY <1>1, ImagesAreSequences DEF Init, StoreInit, NoTags, StoreTypeOK
  <2>2. TypeOK
    <3>1. cwd \in [Procs -> Dirs]
      BY <1>1, WorkloadsAreBounds DEF Init
    <3> QED BY <1>1, <2>1, <3>1 DEF Init, TypeOK
  <2>3. LocalInv
    <3>1. \A p \in Procs : /\ pc[p] = "idle" /\ at[p] = 1
                           /\ ref[p] = None /\ image[p] = <<>>
      BY <1>1 DEF Init, StoreInit
    <3>2. /\ "idle" \notin StepSteps \cup CommitSteps \cup TailSteps \cup PushSteps
          /\ "idle" \notin {"open", "copy"}
      BY DEF StepSteps, CommitSteps, TailSteps, PushSteps
    <3>3. at = [p \in Procs |-> 1]
      BY <1>1 DEF Init
    <3>4. \A p \in Procs : at[p] # 0
      <4> TAKE p \in Procs
      <4>1. at[p] = 1
        BY <3>1
      <4>2. 1 # 0
        OBVIOUS
      <4> QED BY ONLY <4>1, <4>2, Zenon
    <3> QED BY <3>1, <3>2, <3>4, Zenon DEF LocalInv
  <2> QED BY <2>2, <2>3 DEF TypeInv
<1>2. TypeInv /\ [Next]_vars => TypeInv'
  <2> SUFFICES ASSUME TypeInv, [Next]_vars
               PROVE  TypeInv'
    OBVIOUS
  <2>1. ASSUME NEW p \in Procs, StoreStep(p), UNCHANGED buildVars
        PROVE  TypeInv'
    <3>1. LocalInv'
      BY <2>1, StoreLocal DEF buildVars, buildLocals
    <3>2. TypeOK'
      BY <2>1, StoreTypes DEF TypeInv, TypeOK, Labels, files, buildLocals, buildVars,
         usage
    <3> QED BY <3>1, <3>2 DEF TypeInv
  <2>2. ASSUME NEW d \in Dirs, NEW s \in Steps, Edit(d, s)
        PROVE  TypeInv'
    <3>1. version' \in [Dirs -> [Steps -> Nat]] /\ misled' \subseteq Procs
      <4>1. version \in [Dirs -> [Steps -> Nat]] /\ misled \subseteq Procs
        BY DEF TypeInv, TypeOK
      <4>2. version' = [version EXCEPT ![d][s] = @ + 1]
        BY <2>2 DEF Edit
      <4>3. version[d] \in [Steps -> Nat]
        BY <4>1
      <4>4. [version[d] EXCEPT ![s] = @ + 1] \in [Steps -> Nat]
        BY <4>3
      <4>5. version' \in [Dirs -> [Steps -> Nat]]
        BY <4>1, <4>2, <4>4
      <4> QED BY <2>2, <4>1, <4>5 DEF Edit
    <3>2. UNCHANGED <<storeVars, files, buildLocals, usage>>
      BY <2>2 DEF Edit
    <3>3. TypeOK'
      BY <3>1, <3>2 DEF TypeInv, TypeOK, StoreTypeOK, storeVars, files, buildLocals,
         usage, imageFiles, remotes, locals
    <3>4. LocalInv'
      BY <3>2 DEF TypeInv, LocalInv, storeVars, buildLocals, locals
    <3> QED BY <3>3, <3>4 DEF TypeInv
  <2>3. CASE UNCHANGED vars
    BY <2>3 DEF vars, TypeInv, TypeOK, StoreTypeOK, LocalInv, storeVars, buildVars,
       files, buildLocals, usage, imageFiles, remotes, locals
  <2> QED
    BY <2>1, <2>2, <2>3, BuildTypes, CallTypes, KilledTypes DEF Next
<1> QED BY <1>1, <1>2, PTL DEF Spec

(* Every variable keeps its type: in particular no command goes on with a  *)
(* tag table that it could not read.                                       *)
THEOREM TypeCorrect == Spec => []TypeOK
<1>1. TypeInv => TypeOK
  BY DEF TypeInv
<1> QED BY <1>1, TypeInvariant, PTL

------------------------------------------------------------------------------
\* Blobs that are stored, or whose loss is accounted for.
Kept ==
  {b \in Blobs : \/ blob[b] = "whole"
                 \/ b \in spoiled
                 \/ \E p \in Procs : pc[p] = "copy" /\ Last(image[p]) = b}

LayersDone == {"hash", "copy"} \cup TailSteps

LayerInv ==
  /\ \A b \in Blobs : blob[b] # "none" => b \in Kept
  /\ \A i \in Images : manifest[i] # "none" => Elements(i) \subseteq Kept
  /\ \A p \in Procs : pc[p] \in LayersDone => Elements(image[p]) \subseteq Kept
  /\ \A p \in Procs :
       pc[p] = "open" => \A n \in 1 .. Len(image[p]) - 1 : image[p][n] \in Kept

LEMMA KeptStays ==
  ASSUME NEW p \in Procs, UNCHANGED <<blob, spoiled>>, pc[p] # "copy",
         \A q \in Procs \ {p} : pc'[q] = pc[q] /\ image'[q] = image[q]
  PROVE  Kept \subseteq Kept'
<1> SUFFICES ASSUME NEW b \in Kept
             PROVE  b \in Kept'
  OBVIOUS
<1>1. CASE \E q \in Procs : pc[q] = "copy" /\ Last(image[q]) = b
  <2>1. PICK q \in Procs : pc[q] = "copy" /\ Last(image[q]) = b
    BY <1>1
  <2>2. pc'[q] = "copy" /\ Last(image'[q]) = b
    BY <2>1
  <2> QED BY <2>2 DEF Kept
<1>2. CASE blob[b] = "whole" \/ b \in spoiled
  BY <1>2 DEF Kept
<1> QED BY <1>1, <1>2 DEF Kept

\* What a step of p has to show.
LEMMA LayersKept ==
  ASSUME LayerInv, NEW p \in Procs, Kept \subseteq Kept',
         \A q \in Procs \ {p} : pc'[q] = pc[q] /\ image'[q] = image[q],
         \A b \in Blobs : blob'[b] # "none" => blob[b] # "none" \/ b \in Kept',
         \A i \in Images :
           manifest'[i] # "none" => manifest[i] # "none" \/ Elements(i) \subseteq Kept,
         pc'[p] \in LayersDone => Elements(image'[p]) \subseteq Kept',
         pc'[p] = "open" =>
           \A n \in 1 .. Len(image'[p]) - 1 : image'[p][n] \in Kept'
  PROVE  LayerInv'
<1>1. \A b \in Blobs : blob'[b] # "none" => b \in Kept'
  BY DEF LayerInv
<1>2. \A i \in Images : manifest'[i] # "none" => Elements(i) \subseteq Kept'
  BY DEF LayerInv
<1>3. \A q \in Procs : pc'[q] \in LayersDone => Elements(image'[q]) \subseteq Kept'
  BY DEF LayerInv
<1>4. \A q \in Procs : pc'[q] = "open" =>
        \A n \in 1 .. Len(image'[q]) - 1 : image'[q][n] \in Kept'
  BY DEF LayerInv
<1> QED BY <1>1, <1>2, <1>3, <1>4 DEF LayerInv

\* A step that leaves the layers alone.
LEMMA LayersAway ==
  ASSUME LayerInv, NEW p \in Procs, UNCHANGED <<blob, spoiled>>, pc[p] # "copy",
         \A q \in Procs \ {p} : pc'[q] = pc[q] /\ image'[q] = image[q],
         \A i \in Images :
           manifest'[i] # "none" => manifest[i] # "none" \/ Elements(i) \subseteq Kept,
         pc'[p] \in LayersDone => Elements(image'[p]) \subseteq Kept,
         pc'[p] # "open"
  PROVE  LayerInv'
<1>1. Kept \subseteq Kept'
  BY KeptStays
<1> QED BY <1>1, LayersKept

LEMMA LeavesOthers ==
  ASSUME TypeInv, NEW p \in Procs, Leave(p)
  PROVE  /\ pc'[p] = "idle" /\ image'[p] = <<>>
         /\ \A q \in Procs \ {p} : pc'[q] = pc[q] /\ image'[q] = image[q]
BY DEF Leave, TypeInv, TypeOK, StoreTypeOK

\* Steps of the store: none but a commit works on the layers of its image.
LEMMA StoreMoves ==
  ASSUME TypeInv, NEW p \in Procs, StoreCall(p) \/ StoreStep(p)
  PROVE  /\ \A q \in Procs \ {p} : pc'[q] = pc[q] /\ image'[q] = image[q]
         /\ UNCHANGED <<blob, spoiled>>
         /\ pc[p] \notin CommitSteps
         /\ pc'[p] \notin CommitSteps
         /\ pc'[p] \in TailSteps => pc[p] \in TailSteps /\ image'[p] = image[p]
<1> USE DEF Goto, locals, CommitSteps, TailSteps
<1>1. UNCHANGED <<blob, spoiled>> /\ pc[p] \notin CommitSteps
  BY DEF IndexSteps, PushSteps, StoreCall, StoreStep, CommitStep, RmiStep, PushStep,
     CallTag, CallUntag, CallPush, CallRmi, MakeDirectory, OpenConfig, OpenManifest,
     FillConfig, FillManifest, DirectoryGone, LoadTagsFails, RemoveFails, RmiReturns,
     PushFails, LoadTags, Resolve, RemoveFiles, RemoveDirectory, ResolveStore,
     RemoveNextFiles, RemoveNextDirectory, RemoveStore, TruncateTags, FillTags, WriteTags, GetToken, LayersPushed, BlobExists, PushBlob, PushConfig,
     PushManifest
<1>2. CASE Leave(p)
  BY <1>1, <1>2, LeavesOthers
<1>3. CASE ~Leave(p)
  <2>1. \A q \in Procs \ {p} : image'[q] = image[q]
    <3>1. UNCHANGED image \/ \E i : image' = [image EXCEPT ![p] = i]
      BY <1>3, Zenon DEF
         StoreCall, StoreStep, CommitStep, RmiStep, PushStep, CallTag, CallUntag,
         CallPush, CallRmi, MakeDirectory, OpenConfig, OpenManifest, FillConfig,
         FillManifest, DirectoryGone, LoadTagsFails, RemoveFails, RmiReturns,
         PushFails, LoadTags, Resolve, RemoveFiles, RemoveDirectory, ResolveStore,
         RemoveNextFiles, RemoveNextDirectory, RemoveStore, TruncateTags, FillTags, WriteTags, GetToken, LayersPushed, BlobExists, PushBlob,
         PushConfig, PushManifest
    <3>2. image \in [Procs -> Images]
      BY DEF TypeInv, TypeOK, StoreTypeOK
    <3> QED BY <3>1, <3>2
  <2>2. \/ \E w \in {"truncate", "fill"} \cup RmiSteps \cup PushSteps :
             pc' = [pc EXCEPT ![p] = w]
        \/ /\ pc[p] \in TailSteps /\ UNCHANGED image
           /\ \E w \in TailSteps : pc' = [pc EXCEPT ![p] = w]
    <3> USE DEF PushSteps, RmiSteps
    <3>1. CASE StoreCall(p)
      BY <3>1 DEF StoreCall, CallTag, CallUntag, CallPush, CallRmi
    <3>2. CASE CommitStep(p)
      BY <1>3, <3>2 DEF CommitStep, MakeDirectory, OpenConfig, OpenManifest,
         FillConfig, FillManifest, DirectoryGone, LoadTagsFails, LoadTags
    <3>3. CASE RmiStep(p)
      BY <1>3, <3>3 DEF RmiStep, RemoveFails, RmiReturns, Resolve, RemoveFiles,
         RemoveDirectory, ResolveStore, RemoveNextFiles, RemoveNextDirectory,
         RemoveStore
    <3>4. CASE TruncateTags(p) \/ FillTags(p)
      BY <1>3, <3>4 DEF TruncateTags, FillTags
    <3>5. CASE PushStep(p)
      <4>1. pc[p] \in PushSteps
        BY <1>3, <3>5 DEF PushStep, GetToken, LayersPushed, BlobExists, PushBlob,
           PushConfig, PushManifest, PushFails
      <4>2. \E w \in PushSteps : pc' = [pc EXCEPT ![p] = w]
        BY <1>3, <3>5, <4>1 DEF PushStep, GetToken, LayersPushed, BlobExists,
           PushBlob, PushConfig, PushManifest, PushFails, TypeInv, TypeOK
      <4> QED BY <4>2
    <3> QED BY <3>1, <3>2, <3>3, <3>4, <3>5 DEF StoreStep, StoreCall
  <2> QED
    BY <1>1, <2>1, <2>2 DEF TypeInv, TypeOK, PushSteps, RmiSteps
<1> QED BY <1>2, <1>3

LEMMA StoreLayers ==
  ASSUME TypeInv, LayerInv, NEW p \in Procs, StoreCall(p) \/ StoreStep(p)
  PROVE  LayerInv'
<1>1. /\ \A q \in Procs \ {p} : pc'[q] = pc[q] /\ image'[q] = image[q]
      /\ UNCHANGED <<blob, spoiled>>
      /\ pc[p] # "copy" /\ pc'[p] # "open"
  BY StoreMoves DEF CommitSteps
<1>2. pc'[p] \in LayersDone => Elements(image'[p]) \subseteq Kept
  BY StoreMoves DEF CommitSteps, LayersDone, LayerInv
<1>3. \A i \in Images :
        manifest'[i] # "none" => manifest[i] # "none" \/ Elements(i) \subseteq Kept
  <2>1. CASE OpenManifest(p)
    <3>1. pc[p] = "manifest" /\ manifest' = [manifest EXCEPT ![image[p]] = "torn"]
      BY <2>1 DEF OpenManifest, Goto
    <3>2. Elements(image[p]) \subseteq Kept
      BY <3>1 DEF LayerInv, LayersDone, TailSteps
    <3> QED BY <3>1, <3>2 DEF TypeInv, TypeOK, StoreTypeOK
  <2>2. CASE FillManifest(p)
    BY <2>2 DEF FillManifest, Filled, TypeInv, TypeOK, StoreTypeOK
  <2>3. CASE RemoveFiles(p)
    BY <2>3 DEF RemoveFiles, TypeInv, TypeOK, StoreTypeOK
  <2>5. ASSUME NEW i \in Images, RemoveNextFiles(p, i)
        PROVE  \A j \in Images : manifest'[j] # "none" => manifest[j] # "none"
    BY <2>5 DEF RemoveNextFiles, TypeInv, TypeOK, StoreTypeOK
  <2>4. CASE UNCHANGED manifest
    BY <2>4
  <2> QED
    BY <2>1, <2>2, <2>3, <2>4, <2>5
       DEF StoreCall, StoreStep, CommitStep, RmiStep, PushStep, CallTag,
       CallUntag, CallPush, CallRmi, MakeDirectory, OpenConfig, FillConfig,
       DirectoryGone, LoadTagsFails, RemoveFails, RmiReturns, PushFails, LoadTags,
       Resolve, RemoveDirectory, ResolveStore, RemoveNextDirectory, RemoveStore,
       TruncateTags, FillTags, WriteTags, GetToken,
       LayersPushed, BlobExists, PushBlob, PushConfig, PushManifest, imageFiles
<1> QED BY <1>1, <1>2, <1>3, LayersAway

LEMMA RaiseLayers ==
  ASSUME TypeInv, LayerInv, NEW p \in Procs, pc[p] # "copy", Raise(p)
  PROVE  LayerInv'
<1>1. Leave(p) /\ UNCHANGED <<blob, spoiled, manifest>>
  BY DEF Raise, storeFiles, imageFiles
<1>2. pc'[p] \notin LayersDone \cup {"open"}
  BY <1>1, LeavesOthers DEF LayersDone, TailSteps
<1> QED BY <1>1, <1>2, LeavesOthers, LayersAway

\* Where the steps of a build take a process, and the layer they work on.
LEMMA ImageIsSeq ==
  ASSUME TypeInv, NEW p \in Procs
  PROVE  /\ image[p] \in Seq(Blobs)
         /\ pc[p] \in {"open", "copy"} =>
              /\ Len(image[p]) \in 1 .. Len(image[p])
              /\ Last(image[p]) \in Blobs
              /\ Last(image[p]) = image[p][Len(image[p])]
<1>1. image[p] \in Seq(Blobs)
  BY ImagesAreSequences DEF TypeInv, TypeOK, StoreTypeOK
<1>2. pc[p] \in {"open", "copy"} => Len(image[p]) \in 1 .. Len(image[p])
  BY <1>1, EmptySeq DEF TypeInv, LocalInv
<1> QED BY <1>1, <1>2, ElementOfSeq DEF Last

LEMMA HashLayers ==
  ASSUME TypeInv, LayerInv, NEW p \in Procs, HashLayer(p)
  PROVE  LayerInv'
<1>1. PICK b \in Blobs :
        /\ image' = [image EXCEPT ![p] = Append(@, b)]
        /\ pc' = IF blob[b] = "none" THEN [pc EXCEPT ![p] = "open"] ELSE pc
  BY DEF HashLayer
<1>2. pc[p] = "hash" /\ UNCHANGED <<blob, spoiled, manifest>>
  BY DEF HashLayer, AtLayer, storeFiles, imageFiles
<1>3. /\ \A q \in Procs \ {p} : pc'[q] = pc[q] /\ image'[q] = image[q]
      /\ image'[p] = Append(image[p], b)
      /\ pc'[p] = IF blob[b] = "none" THEN "open" ELSE "hash"
  BY <1>1, <1>2 DEF TypeInv, TypeOK, StoreTypeOK
<1>4. /\ Len(image'[p]) = Len(image[p]) + 1
      /\ image'[p][Len(image[p]) + 1] = b
      /\ \A n \in 1 .. Len(image[p]) : image'[p][n] = image[p][n]
      /\ Len(image[p]) \in Nat
  BY <1>3, ImageIsSeq, AppendProperties
<1>5. Kept \subseteq Kept'
  BY <1>2, <1>3, KeptStays
<1>6. \A n \in 1 .. Len(image[p]) : image'[p][n] \in Kept
  BY <1>2, <1>4 DEF LayerInv, LayersDone, Elements
<1>7. CASE blob[b] = "none"
  <2>1. pc'[p] \notin LayersDone
    BY <1>3, <1>7 DEF LayersDone, TailSteps
  <2>2. \A n \in 1 .. Len(image'[p]) - 1 : image'[p][n] \in Kept'
    BY <1>4, <1>5, <1>6
  <2> QED BY <1>2, <1>3, <1>5, <2>1, <2>2, LayersKept
<1>8. CASE blob[b] # "none"
  <2>1. b \in Kept
    BY <1>8 DEF LayerInv
  <2>2. Elements(image'[p]) \subseteq Kept
    BY <1>4, <1>6, <2>1 DEF Elements
  <2> QED BY <1>2, <1>3, <1>5, <1>8, <2>2, LayersKept
<1> QED BY <1>7, <1>8

LEMMA CopyLayers ==
  ASSUME TypeInv, LayerInv, NEW p \in Procs, OpenBlob(p) \/ CopyBlob(p)
  PROVE  LayerInv'
<1> DEFINE b == Last(image[p])
<1>1. /\ UNCHANGED <<image, manifest>>
      /\ \A q \in Procs \ {p} : pc'[q] = pc[q]
  BY DEF OpenBlob, CopyBlob, Goto, imageFiles, locals, TypeInv, TypeOK
<1>2. CASE OpenBlob(p)
  <2>1. /\ pc[p] = "open" /\ pc'[p] = "copy" /\ UNCHANGED spoiled
        /\ blob' = [blob EXCEPT ![b] = "torn"]
    BY <1>2 DEF OpenBlob, Goto, TypeInv, TypeOK
  <2>2. \A c \in Blobs : c # b => blob'[c] = blob[c]
    BY <2>1 DEF TypeInv, TypeOK, StoreTypeOK
  <2>3. b \in Kept'
    BY <1>1, <2>1, ImageIsSeq DEF Kept
  <2>4. Kept \subseteq Kept'
    <3> SUFFICES ASSUME NEW c \in Kept, c # b
                 PROVE  c \in Kept'
      BY <2>3
    <3>1. \A q \in Procs : pc[q] = "copy" => pc'[q] = "copy"
      BY <1>1, <2>1
    <3> QED BY <1>1, <2>1, <2>2, <3>1 DEF Kept
  <2>5. Elements(image[p]) \subseteq Kept'
    <3>1. \A n \in 1 .. Len(image[p]) - 1 : image[p][n] \in Kept'
      BY <2>1, <2>4 DEF LayerInv
    <3>2. image[p][Len(image[p])] \in Kept' /\ Len(image[p]) \in Nat
      BY <2>1, <2>3, ImageIsSeq
    <3> QED BY <3>1, <3>2 DEF Elements
  <2> QED BY <1>1, <2>1, <2>2, <2>3, <2>4, <2>5, LayersKept
<1>3. CASE CopyBlob(p)
  <2>1. /\ pc[p] = "copy" /\ pc'[p] = "hash"
        /\ \/ blob' = [blob EXCEPT ![b] = "whole"] /\ UNCHANGED spoiled
           \/ blob' = [blob EXCEPT ![b] = "torn"] /\ spoiled' = spoiled \cup {b}
    BY <1>3 DEF CopyBlob, Goto, TypeInv, TypeOK
  <2>2. /\ \A c \in Blobs : c # b => blob'[c] = blob[c]
        /\ b \in Blobs /\ (blob'[b] = "whole" \/ b \in spoiled')
        /\ spoiled \subseteq spoiled'
    BY <2>1, ImageIsSeq DEF TypeInv, TypeOK, StoreTypeOK
  <2>3. b \in Kept'
    BY <2>2 DEF Kept
  <2>4. Kept \subseteq Kept'
    <3> SUFFICES ASSUME NEW c \in Kept, c # b
                 PROVE  c \in Kept'
      BY <2>3
    <3>1. \A q \in Procs : pc[q] = "copy" /\ Last(image[q]) = c => pc'[q] = "copy"
      BY <1>1
    <3> QED BY <1>1, <2>2, <3>1 DEF Kept
  <2>5. Elements(image[p]) \subseteq Kept'
    BY <2>1, <2>4 DEF LayerInv, LayersDone
  <2> QED BY <1>1, <2>1, <2>2, <2>3, <2>4, <2>5, LayersKept
<1> QED BY <1>2, <1>3

\* Steps of a build that leave the image directories and the layers alone.
LEMMA BuildMoves ==
  ASSUME TypeInv, NEW p \in Procs, BuildStep(p), ~HashLayer(p), ~OpenBlob(p),
         ~CopyBlob(p)
  PROVE  /\ UNCHANGED <<blob, spoiled, imageFiles, remotes, removed, adrift>>
         /\ pc[p] \in StepSteps \cup (CommitSteps \ {"open", "copy"})
         /\ \/ Leave(p)
            \/ /\ UNCHANGED locals
               /\ \E w \in StepSteps : pc' = [pc EXCEPT ![p] = w]
            \/ /\ UNCHANGED locals
               /\ pc[p] = "steps" /\ pc' = [pc EXCEPT ![p] = "hash"]
            \/ /\ UNCHANGED locals
               /\ pc[p] = "hash" /\ pc' = [pc EXCEPT ![p] = "mkdir"]
<1> USE DEF Goto, storeFiles, storeVars, StepSteps, CommitSteps
<1>1. CASE RunStep(p) \/ StepFails(p) \/ PutFails(p) \/ HashFails(p)
  BY <1>1 DEF RunStep, StepFails, PutFails, HashFails, Raise, Misses, AtStep, AtLayer
<1>2. CASE MetaStep(p) \/ CacheHit(p)
  <2>1. pc[p] = "steps" /\ UNCHANGED storeVars
    BY <1>2 DEF MetaStep, CacheHit, AtStep
  <2>2. pc' = [pc EXCEPT ![p] = "steps"]
    BY <2>1 DEF TypeInv, TypeOK
  <2> QED BY <2>1, <2>2
<1>3. CASE ReadFiles(p) \/ PythonStep(p)
  BY <1>3 DEF ReadFiles, PythonStep, Misses, AtStep
<1>4. CASE \/ TruncateTmp(p) \/ FillTmp(p) \/ Discard(p) \/ Put(p)
           \/ FillCache(p) \/ StepsDone(p)
  BY <1>4 DEF TruncateTmp, FillTmp, Discard, Put, FillCache, StepsDone
<1>5. CASE Assemble(p)
  BY <1>5 DEF Assemble
<1> QED BY <1>1, <1>2, <1>3, <1>4, <1>5 DEF BuildStep

LEMMA BuildLayers ==
  ASSUME TypeInv, LayerInv, NEW p \in Procs, BuildStep(p)
  PROVE  LayerInv'
<1>1. CASE HashLayer(p) \/ OpenBlob(p) \/ CopyBlob(p)
  BY <1>1, HashLayers, CopyLayers
<1>2. CASE ~HashLayer(p) /\ ~OpenBlob(p) /\ ~CopyBlob(p)
  <2>1. /\ UNCHANGED <<blob, spoiled, manifest>>
        /\ pc[p] # "copy"
    BY <1>2, BuildMoves DEF imageFiles, StepSteps, CommitSteps
  <2>2. CASE Leave(p)
    <3>1. pc'[p] \notin LayersDone \cup {"open"}
      BY <2>2, LeavesOthers DEF LayersDone, TailSteps
    <3> QED BY <2>1, <2>2, <3>1, LeavesOthers, LayersAway
  <2>3. CASE ~Leave(p)
    <3>1. UNCHANGED image /\ \A q \in Procs \ {p} : pc'[q] = pc[q]
      BY <1>2, <2>3, BuildMoves DEF locals, TypeInv, TypeOK
    <3>2. \/ pc'[p] \in StepSteps
          \/ pc[p] = "steps" /\ pc'[p] = "hash"
          \/ pc[p] = "hash" /\ pc'[p] = "mkdir"
      BY <1>2, <2>3, BuildMoves DEF TypeInv, TypeOK
    <3>3. pc'[p] # "open"
      BY <3>2 DEF StepSteps
    <3>4. pc'[p] \in LayersDone => Elements(image'[p]) \subseteq Kept
      <4>1. CASE pc'[p] \in StepSteps
        BY <4>1 DEF StepSteps, LayersDone, TailSteps
      <4>2. CASE pc[p] = "steps"
        <5>1. image[p] = <<>>
          BY <4>2 DEF TypeInv, LocalInv, StepSteps
        <5>2. Elements(<<>>) \subseteq Kept
          BY DEF Elements
        <5> QED BY <3>1, <5>1, <5>2
      <4>3. CASE pc[p] = "hash"
        BY <3>1, <4>3 DEF LayerInv, LayersDone
      <4> QED BY <3>2, <4>1, <4>2, <4>3
    <3> QED BY <2>1, <3>1, <3>3, <3>4, LayersAway
  <2> QED BY <2>2, <2>3
<1> QED BY <1>1, <1>2

LEMMA CallLayers ==
  ASSUME TypeInv, LayerInv, NEW p \in Procs, Call(p)
  PROVE  LayerInv'
<1>1. CASE StoreCall(p)
  BY <1>1, StoreLayers
<1>2. ASSUME NEW r, NEW t, NEW nc, CallBuild(p, r, t, nc)
      PROVE  LayerInv'
  <2>1. /\ pc[p] = "idle" /\ pc'[p] = "steps"
        /\ \A q \in Procs \ {p} : pc'[q] = pc[q]
        /\ UNCHANGED <<blob, spoiled, manifest, image>>
    BY <1>2 DEF CallBuild, Goto, storeFiles, imageFiles, TypeInv, TypeOK
  <2>2. pc'[p] \notin LayersDone \cup {"open"}
    BY <2>1 DEF LayersDone, TailSteps
  <2> QED BY <2>1, <2>2, LayersAway
<1> QED BY <1>1, <1>2 DEF Call

LEMMA KilledLayers ==
  ASSUME TypeInv, LayerInv, NEW p \in Procs, Killed(p)
  PROVE  LayerInv'
<1>1. /\ Leave(p) /\ UNCHANGED <<blob, manifest>>
      /\ spoiled' = IF pc[p] = "copy" THEN spoiled \cup {Last(image[p])} ELSE spoiled
  BY DEF Killed, StoreKilled, imageFiles
<1>2. /\ pc'[p] = "idle"
      /\ \A q \in Procs \ {p} : pc'[q] = pc[q] /\ image'[q] = image[q]
  BY <1>1, LeavesOthers
<1>3. Kept \subseteq Kept'
  <2>1. CASE pc[p] = "copy"
    <3> SUFFICES ASSUME NEW b \in Kept
                 PROVE  b \in Kept'
      OBVIOUS
    <3>1. CASE blob[b] = "whole" \/ b \in spoiled
      BY <1>1, <3>1 DEF Kept
    <3>2. CASE \E q \in Procs : pc[q] = "copy" /\ Last(image[q]) = b
      <4>1. PICK q \in Procs : pc[q] = "copy" /\ Last(image[q]) = b
        BY <3>2
      <4>2. CASE q = p
        BY <1>1, <2>1, <4>1, <4>2 DEF Kept
      <4>3. CASE q # p
        <5>1. pc'[q] = "copy" /\ Last(image'[q]) = b
          BY <1>2, <4>1, <4>3
        <5> QED BY <5>1 DEF Kept
      <4> QED BY <4>2, <4>3
    <3> QED BY <3>1, <3>2 DEF Kept
  <2>2. CASE pc[p] # "copy"
    BY <1>1, <1>2, <2>2, KeptStays
  <2> QED BY <2>1, <2>2
<1>4. pc'[p] \notin LayersDone \cup {"open"}
  BY <1>2 DEF LayersDone, TailSteps
<1> QED BY <1>1, <1>2, <1>3, <1>4, LayersKept

(* A layer that a manifest names is stored whole, or its copy is known to  *)
(* have gone wrong or to be under way, for all interleavings of builds,    *)
(* other commands and kills: commit_image() writes the manifest after it   *)
(* has handled every layer, and nothing deletes or shortens a layer.       *)
THEOREM LayersStored == Spec => []ManifestNamesStoredLayers
<1>1. ASSUME Init
      PROVE  LayerInv
  <2>1. /\ \A b \in Blobs : blob[b] = "none"
        /\ \A i \in Images : manifest[i] = "none"
        /\ \A p \in Procs : pc[p] = "idle"
    BY <1>1 DEF Init, StoreInit
  <2>2. "idle" \notin LayersDone
    BY DEF LayersDone, TailSteps
  <2> QED BY <2>1, <2>2 DEF LayerInv
<1>2. TypeInv /\ LayerInv /\ [Next]_vars => LayerInv'
  <2> SUFFICES ASSUME TypeInv, LayerInv, [Next]_vars
               PROVE  LayerInv'
    OBVIOUS
  <2>1. ASSUME NEW d \in Dirs, NEW s \in Steps, Edit(d, s)
        PROVE  LayerInv'
    BY <2>1 DEF Edit, storeVars, imageFiles, locals, LayerInv, Kept
  <2>2. CASE UNCHANGED vars
    BY <2>2 DEF vars, storeVars, imageFiles, locals, LayerInv, Kept
  <2> QED
    BY <2>1, <2>2, StoreLayers, BuildLayers, CallLayers, KilledLayers DEF Next
<1>3. LayerInv => ManifestNamesStoredLayers
  BY DEF LayerInv, Kept, ManifestNamesStoredLayers
<1> QED BY <1>1, <1>2, <1>3, TypeInvariant, PTL DEF Spec

------------------------------------------------------------------------------
\* Images that have a config, or had one until an rmi.
Configured == {i \in Images : config[i] # "none" \/ i \in removed}

\* What a process knows of the image it commits or pushes.
PushLocal(p) ==
  /\ pc[p] \in {"fill config", "manifest", "fill manifest", "token", "layers",
                "put config"} => image[p] \in Configured
  /\ pc[p] \in {"token", "layers"}
       => Elements(image[p]) \subseteq pushedLayers \cup Elements(left[p])
  /\ pc[p] \in {"put config", "put manifest"} => Elements(image[p]) \subseteq pushedLayers
  /\ pc[p] = "put manifest" => image[p] \in pushedConfigs \cup removed

PushInv ==
  /\ \A i \in Images : manifest[i] # "none" => i \in Configured
  /\ \A p \in Procs : PushLocal(p)
  /\ PushedIsComplete

LEMMA ElementsOfTail ==
  ASSUME NEW S, NEW s \in Seq(S), s # <<>>
  PROVE  Elements(s) \subseteq {Head(s)} \cup Elements(Tail(s))
<1> SUFFICES ASSUME NEW n \in 1 .. Len(s)
             PROVE  s[n] \in {Head(s)} \cup Elements(Tail(s))
  BY DEF Elements
<1>1. Len(Tail(s)) = Len(s) - 1 /\ \A m \in 1 .. Len(s) - 1 : Tail(s)[m] = s[m + 1]
  BY HeadTailProperties
<1>2. CASE n = 1
  BY <1>2, HeadTailProperties
<1>3. CASE n # 1
  <2>1. n - 1 \in 1 .. Len(Tail(s)) /\ Tail(s)[n - 1] = s[n]
    BY <1>1, <1>3
  <2> QED BY <2>1 DEF Elements
<1> QED BY <1>2, <1>3

\* What a step of p has to show: what was pushed and configured stays so.
LEMMA PushAway ==
  ASSUME PushInv, NEW p \in Procs,
         \A q \in Procs \ {p} :
           pc'[q] = pc[q] /\ image'[q] = image[q] /\ left'[q] = left[q],
         Configured \subseteq Configured', pushedLayers \subseteq pushedLayers',
         pushedConfigs \subseteq pushedConfigs', removed \subseteq removed',
         \A i \in Images :
           manifest'[i] # "none" => manifest[i] # "none" \/ i \in Configured,
         UNCHANGED remote, PushLocal(p)'
  PROVE  PushInv'
<1>1. \A i \in Images : manifest'[i] # "none" => i \in Configured'
  BY DEF PushInv
<1>2. ASSUME NEW q \in Procs, q # p
      PROVE  PushLocal(q)'
  BY <1>2 DEF PushInv, PushLocal
<1>3. PushedIsComplete'
  BY DEF PushInv, PushedIsComplete
<1> QED BY <1>1, <1>2, <1>3 DEF PushInv

\* Steps at which PushLocal says nothing.
Elsewhere == {"idle", "mkdir", "config", "load", "refs", "rmtree", "rmdir",
              "rmtree all", "rmdir all", "truncate", "fill"} \cup StepSteps \cup CommitSteps

LEMMA ElsewhereIsLocal ==
  ASSUME NEW p \in Procs, pc'[p] \in Elsewhere
  PROVE  PushLocal(p)'
BY DEF PushLocal, Elsewhere, StepSteps, CommitSteps

LEMMA LeavesLeft ==
  ASSUME TypeInv, NEW p \in Procs, Leave(p)
  PROVE  /\ pc'[p] \in Elsewhere
         /\ \A q \in Procs \ {p} :
              pc'[q] = pc[q] /\ image'[q] = image[q] /\ left'[q] = left[q]
BY DEF Leave, TypeInv, TypeOK, StoreTypeOK, Elsewhere

\* A step that leaves the image directories and the registry alone.
LEMMA PushStays ==
  ASSUME TypeInv, PushInv, NEW p \in Procs, UNCHANGED <<imageFiles, remotes,
                                                        removed>>,
         pc'[p] \in Elsewhere,
         \A q \in Procs \ {p} :
           pc'[q] = pc[q] /\ image'[q] = image[q] /\ left'[q] = left[q]
  PROVE  PushInv'
<1>1. Configured \subseteq Configured'
  BY DEF Configured, imageFiles
<1> QED BY <1>1, ElsewhereIsLocal, PushAway DEF imageFiles, remotes

LEMMA LoadedTable ==
  TypeInv => Loaded \in [Tags -> Images \cup {None}]
BY DEF TypeInv, TypeOK, StoreTypeOK, Loaded, NoTags

LEMMA CallPushes ==
  ASSUME TypeInv, PushInv, NEW p \in Procs, StoreCall(p)
  PROVE  PushInv'
<1>1. ASSUME NEW t \in Tags, CallPush(p, t)
      PROVE  PushInv'
  <2>1. /\ pc'[p] = "token" /\ image'[p] = Loaded[t] /\ left'[p] = Loaded[t]
        /\ \A q \in Procs \ {p} :
             pc'[q] = pc[q] /\ image'[q] = image[q] /\ left'[q] = left[q]
        /\ UNCHANGED <<imageFiles, remotes, removed>>
        /\ Loaded[t] # None /\ manifest[Loaded[t]] # "none"
    BY <1>1 DEF CallPush, Goto, TypeInv, TypeOK, StoreTypeOK
  <2>2. Loaded[t] \in Images
    BY <2>1, LoadedTable
  <2>3. Configured \subseteq Configured'
    BY <2>1 DEF Configured, imageFiles
  <2>4. PushLocal(p)'
    BY <2>1, <2>2, <2>3 DEF PushLocal, PushInv
  <2> QED BY <2>1, <2>3, <2>4, PushAway DEF imageFiles, remotes
<1>2. ASSUME NEW t \in Tags, CallUntag(p, t)
      PROVE  PushInv'
  <2>1. /\ pc'[p] = "truncate" /\ \A q \in Procs \ {p} : pc'[q] = pc[q]
        /\ UNCHANGED <<image, left, imageFiles, remotes, removed>>
    BY <1>2 DEF CallUntag, Goto, TypeInv, TypeOK
  <2> QED BY <2>1, PushStays DEF Elsewhere
<1>3. ASSUME NEW i \in Images, NEW t \in Tags, CallTag(p, i, t)
      PROVE  PushInv'
  <2>1. /\ pc'[p] = "truncate"
        /\ \A q \in Procs \ {p} : pc'[q] = pc[q] /\ image'[q] = image[q]
        /\ UNCHANGED <<left, imageFiles, remotes, removed>>
    BY <1>3 DEF CallTag, Goto, TypeInv, TypeOK, StoreTypeOK
  <2> QED BY <2>1, PushStays DEF Elsewhere
<1>4. CASE CallRmi(p)
  <2>1. /\ pc'[p] = "refs" /\ \A q \in Procs \ {p} : pc'[q] = pc[q]
        /\ UNCHANGED <<image, left, imageFiles, remotes, removed>>
    BY <1>4 DEF CallRmi, Goto, TypeInv, TypeOK
  <2> QED BY <2>1, PushStays DEF Elsewhere
<1> QED BY <1>1, <1>2, <1>3, <1>4 DEF StoreCall

LEMMA PushSteady ==
  ASSUME TypeInv, PushInv, NEW p \in Procs, PushStep(p)
  PROVE  PushInv'
<1> USE DEF Goto, locals
<1>1. UNCHANGED <<imageFiles, removed>>
  BY DEF PushStep, GetToken, BlobExists, PushBlob, LayersPushed, PushConfig,
     PushManifest, PushFails
<1>2. Configured \subseteq Configured' /\ UNCHANGED manifest
  BY <1>1 DEF Configured, imageFiles
<1>3. CASE PushFails(p)
  BY <1>1, <1>3, LeavesLeft, PushStays DEF PushFails
<1>4. CASE GetToken(p) \/ LayersPushed(p)
  <2>1. /\ UNCHANGED <<image, left, remotes>>
        /\ \A q \in Procs \ {p} : pc'[q] = pc[q]
        /\ \/ pc[p] = "token" /\ pc'[p] = "layers"
           \/ pc[p] = "layers" /\ pc'[p] = "put config" /\ left[p] = <<>>
    BY <1>4 DEF GetToken, LayersPushed, TypeInv, TypeOK
  <2>2. Elements(<<>>) = {}
    BY DEF Elements
  <2>3. PushLocal(p)'
    BY <1>2, <2>1, <2>2 DEF PushInv, PushLocal, remotes
  <2> QED BY <1>1, <1>2, <2>1, <2>3, PushAway DEF remotes
<1>5. CASE BlobExists(p) \/ PushBlob(p)
  <2>1. /\ UNCHANGED <<pc, image, pushedConfigs, remote>>
        /\ pc[p] = "layers" /\ left[p] # <<>>
        /\ left' = [left EXCEPT ![p] = Tail(@)]
        /\ pushedLayers \subseteq pushedLayers' /\ Head(left[p]) \in pushedLayers'
    BY <1>5 DEF BlobExists, PushBlob, remotes
  <2>2. /\ left'[p] = Tail(left[p]) /\ left[p] \in Seq(Blobs)
        /\ \A q \in Procs \ {p} : left'[q] = left[q]
    BY <2>1 DEF TypeInv, TypeOK, StoreTypeOK
  <2>3. Elements(left[p]) \subseteq pushedLayers' \cup Elements(left'[p])
    BY <2>1, <2>2, ElementsOfTail
  <2>4. PushLocal(p)'
    BY <1>2, <2>1, <2>3 DEF PushInv, PushLocal
  <2> QED BY <1>1, <1>2, <2>1, <2>2, <2>4, PushAway
<1>6. CASE PushConfig(p)
  <2>1. /\ UNCHANGED <<image, left, pushedLayers, remote>>
        /\ \A q \in Procs \ {p} : pc'[q] = pc[q]
        /\ pc[p] = "put config" /\ pc'[p] = "put manifest"
        /\ pushedConfigs \subseteq pushedConfigs'
        /\ config[image[p]] = "none" \/ image[p] \in pushedConfigs'
    BY <1>6 DEF PushConfig, TypeInv, TypeOK
  <2>2. image[p] \in pushedConfigs' \cup removed'
    BY <1>1, <2>1 DEF PushInv, PushLocal, Configured
  <2>3. PushLocal(p)'
    BY <2>1, <2>2 DEF PushInv, PushLocal
  <2> QED BY <1>1, <1>2, <2>1, <2>3, PushAway
<1>7. CASE PushManifest(p)
  <2>1. /\ Leave(p) /\ pc[p] = "put manifest"
        /\ remote' = [remote EXCEPT ![ref[p]] = image[p]]
        /\ UNCHANGED <<pushedLayers, pushedConfigs>>
    BY <1>7 DEF PushManifest
  <2>2. \A q \in Procs : PushLocal(q)'
    <3>1. PushLocal(p)'
      BY <2>1, LeavesLeft, ElsewhereIsLocal
    <3>2. ASSUME NEW q \in Procs, q # p
          PROVE  PushLocal(q)'
      BY <1>1, <1>2, <2>1, <3>2, LeavesLeft DEF PushInv, PushLocal
    <3> QED BY <3>1, <3>2
  <2>3. PushedIsComplete'
    <3> SUFFICES ASSUME NEW t \in Tags, remote'[t] # None
                 PROVE  /\ Elements(remote'[t]) \subseteq pushedLayers
                        /\ remote'[t] \in pushedConfigs \cup removed
      BY <1>1, <2>1 DEF PushedIsComplete
    <3>1. remote'[t] = remote[t] \/ remote'[t] = image[p]
      BY <2>1 DEF TypeInv, TypeOK, StoreTypeOK
    <3>2. /\ Elements(image[p]) \subseteq pushedLayers
          /\ image[p] \in pushedConfigs \cup removed
      BY <2>1 DEF PushInv, PushLocal
    <3>3. remote[t] # None =>
            /\ Elements(remote[t]) \subseteq pushedLayers
            /\ remote[t] \in pushedConfigs \cup removed
      BY DEF PushInv, PushedIsComplete
    <3> QED BY <3>1, <3>2, <3>3
  <2> QED BY <1>2, <2>2, <2>3 DEF PushInv
<1> QED BY <1>3, <1>4, <1>5, <1>6, <1>7 DEF PushStep

LEMMA CommitConfigures ==
  ASSUME TypeInv, PushInv, NEW p \in Procs, CommitStep(p)
  PROVE  PushInv'
<1> USE DEF Goto, locals, imageFiles
<1>1. CASE DirectoryGone(p) \/ LoadTagsFails(p)
  BY <1>1, LeavesLeft, PushStays DEF DirectoryGone, LoadTagsFails
<1>2. CASE LoadTags(p)
  <2>1. /\ pc'[p] = "truncate" /\ \A q \in Procs \ {p} : pc'[q] = pc[q]
        /\ UNCHANGED <<image, left, imageFiles, remotes, removed>>
    BY <1>2 DEF LoadTags, TypeInv, TypeOK
  <2> QED BY <2>1, PushStays DEF Elsewhere
<1>3. CASE \/ MakeDirectory(p) \/ OpenConfig(p) \/ FillConfig(p)
           \/ OpenManifest(p) \/ FillManifest(p)
  <2>1. /\ UNCHANGED <<image, left, remotes, removed>>
        /\ \A q \in Procs \ {p} : pc'[q] = pc[q]
        /\ \/ pc'[p] \in {"config", "load"} /\ UNCHANGED config
           \/ pc'[p] = "fill config" /\ config' = [config EXCEPT ![image[p]] = "torn"]
           \/ pc[p] = "fill config" /\ pc'[p] = "manifest" /\ config' = Filled(config, p)
           \/ pc[p] = "manifest" /\ pc'[p] = "fill manifest" /\ UNCHANGED config
    BY <1>3 DEF MakeDirectory, OpenConfig, FillConfig, OpenManifest, FillManifest,
       TypeInv, TypeOK
  <2>2. Configured \subseteq Configured'
    BY <2>1 DEF Configured, Filled, TypeInv, TypeOK, StoreTypeOK
  <2>3. \A i \in Images :
          manifest'[i] # "none" => manifest[i] # "none" \/ i \in Configured
    <3>1. CASE OpenManifest(p)
      <4>1. pc[p] = "manifest" /\ manifest' = [manifest EXCEPT ![image[p]] = "torn"]
        BY <3>1 DEF OpenManifest
      <4>2. image[p] \in Configured
        BY <4>1 DEF PushInv, PushLocal
      <4> QED BY <4>1, <4>2 DEF TypeInv, TypeOK, StoreTypeOK
    <3>2. CASE FillManifest(p)
      BY <3>2 DEF FillManifest, Filled, TypeInv, TypeOK, StoreTypeOK
    <3>3. CASE UNCHANGED manifest
      BY <3>3
    <3> QED
      BY <1>3, <3>1, <3>2, <3>3 DEF MakeDirectory, OpenConfig, FillConfig
  <2>4. PushLocal(p)'
    <3>1. CASE pc'[p] \in {"config", "load"}
      BY <3>1, ElsewhereIsLocal DEF Elsewhere
    <3>2. CASE pc'[p] = "fill config" /\ config' = [config EXCEPT ![image[p]] = "torn"]
      <4>1. image[p] \in Configured'
        BY <3>2 DEF Configured, TypeInv, TypeOK, StoreTypeOK
      <4> QED BY <2>1, <3>2, <4>1 DEF PushLocal
    <3>3. CASE /\ pc[p] \in {"fill config", "manifest"}
               /\ pc'[p] \in {"manifest", "fill manifest"}
      BY <2>1, <2>2, <3>3 DEF PushInv, PushLocal
    <3> QED BY <2>1, <3>1, <3>2, <3>3
  <2> QED BY <2>1, <2>2, <2>3, <2>4, PushAway DEF remotes
<1> QED BY <1>1, <1>2, <1>3 DEF CommitStep

LEMMA OthersKeepPushes ==
  ASSUME TypeInv, PushInv, NEW p \in Procs,
         RmiStep(p) \/ TruncateTags(p) \/ FillTags(p)
  PROVE  PushInv'
<1> USE DEF Goto, locals
<1>1. CASE Leave(p)
  <2>1. UNCHANGED <<imageFiles, remotes, removed>>
    <3>1. pc'[p] = "idle"
      BY <1>1 DEF Leave, TypeInv, TypeOK
    <3>2. ~RemoveFiles(p) /\ ~RemoveDirectory(p) /\ ~RemoveNextDirectory(p)
      BY <3>1 DEF RemoveFiles, RemoveDirectory, RemoveNextDirectory, Goto, TypeInv,
         TypeOK
    <3>3. /\ ~ResolveStore(p) /\ ~RemoveStore(p)
          /\ \A i \in Images : ~Resolve(p, i) /\ ~RemoveNextFiles(p, i)
      BY <3>1 DEF Resolve, ResolveStore, RemoveNextFiles, RemoveStore, TypeInv, TypeOK
    <3> QED
      BY <3>2, <3>3 DEF RmiStep, RemoveFails, RmiReturns, TruncateTags, FillTags,
         WriteTags
  <2> QED BY <1>1, <2>1, LeavesLeft, PushStays
<1>2. CASE RemoveFiles(p)
  <2>1. /\ UNCHANGED <<image, left, remotes>>
        /\ pc'[p] = "rmdir" /\ \A q \in Procs \ {p} : pc'[q] = pc[q]
        /\ config' = [config EXCEPT ![image[p]] = "none"]
        /\ manifest' = [manifest EXCEPT ![image[p]] = "none"]
        /\ removed' = removed \cup {image[p]}
    BY <1>2 DEF RemoveFiles, TypeInv, TypeOK
  <2>2. Configured \subseteq Configured' /\ removed \subseteq removed'
    BY <2>1 DEF Configured, TypeInv, TypeOK, StoreTypeOK
  <2>3. \A i \in Images : manifest'[i] # "none" => manifest[i] # "none"
    BY <2>1 DEF TypeInv, TypeOK, StoreTypeOK
  <2>4. PushLocal(p)'
    BY <2>1, ElsewhereIsLocal DEF Elsewhere
  <2> QED BY <2>1, <2>2, <2>3, <2>4, PushAway DEF remotes
<1>3. CASE RemoveDirectory(p)
  <2>1. /\ UNCHANGED <<image, left, config, manifest, remotes, removed>>
        /\ pc'[p] = "truncate" /\ \A q \in Procs \ {p} : pc'[q] = pc[q]
    BY <1>3 DEF RemoveDirectory, TypeInv, TypeOK
  <2>2. Configured \subseteq Configured'
    BY <2>1 DEF Configured
  <2>3. PushLocal(p)'
    BY <2>1, ElsewhereIsLocal DEF Elsewhere
  <2> QED BY <2>1, <2>2, <2>3, PushAway DEF remotes
<1>4. ASSUME NEW i \in Images, Resolve(p, i)
      PROVE  PushInv'
  <2>1. /\ pc'[p] = "rmtree"
        /\ \A q \in Procs \ {p} : pc'[q] = pc[q] /\ image'[q] = image[q]
        /\ UNCHANGED <<left, imageFiles, remotes, removed>>
    BY <1>4 DEF Resolve, TypeInv, TypeOK, StoreTypeOK
  <2> QED BY <2>1, PushStays DEF Elsewhere
<1>5. CASE TruncateTags(p) \/ (FillTags(p) /\ ~Leave(p))
  <2>1. /\ pc'[p] \in {"fill", "refs"} /\ \A q \in Procs \ {p} : pc'[q] = pc[q]
        /\ UNCHANGED <<image, left, imageFiles, remotes, removed>>
    BY <1>5 DEF TruncateTags, FillTags, WriteTags, TypeInv, TypeOK
  <2> QED BY <2>1, PushStays DEF Elsewhere
<1>6. CASE RemoveFails(p) \/ RmiReturns(p)
  BY <1>1, <1>6 DEF RemoveFails, RmiReturns
<1>7. CASE ResolveStore(p) \/ RemoveStore(p)
  <2>1. /\ pc'[p] \in {"rmtree all", "truncate"} /\ \A q \in Procs \ {p} : pc'[q] = pc[q]
        /\ UNCHANGED <<image, left, imageFiles, remotes, removed>>
    BY <1>7 DEF ResolveStore, RemoveStore, TypeInv, TypeOK
  <2> QED BY <2>1, PushStays DEF Elsewhere
<1>8. ASSUME NEW i \in Images, RemoveNextFiles(p, i)
      PROVE  PushInv'
  <2>1. /\ \A q \in Procs \ {p} : pc'[q] = pc[q] /\ image'[q] = image[q]
        /\ pc'[p] = "rmdir all" /\ UNCHANGED <<left, remotes>>
        /\ config' = [config EXCEPT ![i] = "none"]
        /\ manifest' = [manifest EXCEPT ![i] = "none"]
        /\ removed' = removed \cup {i}
    BY <1>8 DEF RemoveNextFiles, TypeInv, TypeOK, StoreTypeOK
  <2>2. Configured \subseteq Configured' /\ removed \subseteq removed'
    BY <2>1 DEF Configured, TypeInv, TypeOK, StoreTypeOK
  <2>3. \A j \in Images : manifest'[j] # "none" => manifest[j] # "none"
    BY <2>1 DEF TypeInv, TypeOK, StoreTypeOK
  <2>4. PushLocal(p)'
    BY <2>1, ElsewhereIsLocal DEF Elsewhere
  <2> QED BY <2>1, <2>2, <2>3, <2>4, PushAway DEF remotes
<1>9. CASE RemoveNextDirectory(p)
  <2>1. /\ UNCHANGED <<image, left, config, manifest, remotes, removed>>
        /\ pc'[p] = "rmtree all" /\ \A q \in Procs \ {p} : pc'[q] = pc[q]
    BY <1>9 DEF RemoveNextDirectory, TypeInv, TypeOK
  <2>2. Configured \subseteq Configured'
    BY <2>1 DEF Configured
  <2>3. PushLocal(p)'
    BY <2>1, ElsewhereIsLocal DEF Elsewhere
  <2> QED BY <2>1, <2>2, <2>3, PushAway DEF remotes
<1> QED
  BY <1>1, <1>2, <1>3, <1>4, <1>5, <1>6, <1>7, <1>8, <1>9 DEF RmiStep

LEMMA BuildPushes ==
  ASSUME TypeInv, PushInv, NEW p \in Procs, BuildStep(p)
  PROVE  PushInv'
<1>1. CASE HashLayer(p)
  <2>1. /\ UNCHANGED <<left, imageFiles, remotes, removed>>
        /\ pc[p] = "hash" /\ pc' \in {pc, [pc EXCEPT ![p] = "open"]}
    BY <1>1 DEF HashLayer, AtLayer, storeFiles
  <2>2. \A q \in Procs \ {p} : image'[q] = image[q]
    BY <1>1 DEF HashLayer, TypeInv, TypeOK, StoreTypeOK
  <2>3. pc'[p] \in {"hash", "open"} /\ \A q \in Procs \ {p} : pc'[q] = pc[q]
    BY <2>1 DEF TypeInv, TypeOK
  <2> QED BY <2>1, <2>2, <2>3, PushStays DEF Elsewhere, CommitSteps
<1>2. CASE OpenBlob(p) \/ CopyBlob(p)
  <2>1. /\ UNCHANGED <<image, left, imageFiles, remotes, removed>>
        /\ pc'[p] \in {"hash", "copy"} /\ \A q \in Procs \ {p} : pc'[q] = pc[q]
    BY <1>2 DEF OpenBlob, CopyBlob, Goto, locals, TypeInv, TypeOK
  <2> QED BY <2>1, PushStays DEF Elsewhere, CommitSteps
<1>3. CASE ~HashLayer(p) /\ ~OpenBlob(p) /\ ~CopyBlob(p)
  <2>1. UNCHANGED <<imageFiles, remotes, removed>>
    BY <1>3, BuildMoves
  <2>2. CASE Leave(p)
    BY <2>1, <2>2, LeavesLeft, PushStays
  <2>3. CASE ~Leave(p)
    <3>1. /\ UNCHANGED <<image, left>>
          /\ \E w \in StepSteps \cup {"hash", "mkdir"} : pc' = [pc EXCEPT ![p] = w]
      BY <1>3, <2>3, BuildMoves DEF locals
    <3>2. /\ pc'[p] \in StepSteps \cup {"hash", "mkdir"}
          /\ \A q \in Procs \ {p} : pc'[q] = pc[q]
      BY <3>1 DEF TypeInv, TypeOK
    <3>3. pc'[p] \in Elsewhere
      BY <3>2 DEF Elsewhere, CommitSteps
    <3> QED BY <2>1, <3>1, <3>2, <3>3, PushStays
  <2> QED BY <2>2, <2>3
<1> QED BY <1>1, <1>2, <1>3

(* Whatever the registry's manifests name, layers and config, is in the    *)
(* registry: push() sends the manifest after it has found or sent each     *)
(* layer of the one it read, and the config unless an rmi removed it.      *)
THEOREM PushesComplete == Spec => []PushedIsComplete
<1>1. ASSUME Init
      PROVE  PushInv
  <2>1. /\ \A i \in Images : manifest[i] = "none"
        /\ \A t \in Tags : remote[t] = None
        /\ \A p \in Procs : pc[p] = "idle"
    BY <1>1 DEF Init, StoreInit, NoTags
  <2>2. \A p \in Procs : PushLocal(p)
    BY <2>1 DEF PushLocal
  <2>3. PushedIsComplete
    BY <2>1 DEF PushedIsComplete
  <2> QED BY <2>1, <2>2, <2>3 DEF PushInv
<1>2. TypeInv /\ PushInv /\ [Next]_vars => PushInv'
  <2> SUFFICES ASSUME TypeInv, PushInv, [Next]_vars
               PROVE  PushInv'
    OBVIOUS
  <2>1. CASE UNCHANGED storeVars
    <3>1. UNCHANGED <<config, manifest, removed, adrift, remote, pushedLayers,
                      pushedConfigs, pc, image, left>>
      BY <2>1 DEF storeVars, imageFiles, remotes, locals
    <3> QED
      BY <3>1 DEF PushInv, PushLocal, Configured, PushedIsComplete
  <2>2. ASSUME NEW p \in Procs, StoreStep(p)
        PROVE  PushInv'
    BY <2>2, CommitConfigures, PushSteady, OthersKeepPushes DEF StoreStep
  <2>3. ASSUME NEW p \in Procs, Killed(p)
        PROVE  PushInv'
    <3>1. Leave(p) /\ UNCHANGED <<imageFiles, remotes, removed>>
      BY <2>3 DEF Killed, StoreKilled
    <3> QED BY <3>1, LeavesLeft, PushStays
  <2>4. ASSUME NEW p \in Procs, Call(p)
        PROVE  PushInv'
    <3>1. CASE StoreCall(p)
      BY <3>1, CallPushes
    <3>2. ASSUME NEW r, NEW t, NEW nc, CallBuild(p, r, t, nc)
          PROVE  PushInv'
      <4>1. /\ UNCHANGED <<image, left, imageFiles, remotes, removed>>
            /\ pc'[p] = "steps" /\ \A q \in Procs \ {p} : pc'[q] = pc[q]
        BY <3>2 DEF CallBuild, Goto, storeFiles, TypeInv, TypeOK
      <4> QED BY <4>1, PushStays DEF Elsewhere, StepSteps
    <3> QED BY <2>4, <3>1, <3>2 DEF Call
  <2>5. ASSUME NEW d \in Dirs, NEW s \in Steps, Edit(d, s)
        PROVE  PushInv'
    BY <2>1, <2>5 DEF Edit
  <2>6. CASE UNCHANGED vars
    BY <2>1, <2>6 DEF vars
  <2> QED
    BY <2>2, <2>3, <2>4, <2>5, <2>6, BuildPushes DEF Next
<1>3. PushInv => PushedIsComplete
  BY DEF PushInv
<1> QED BY <1>1, <1>2, <1>3, TypeInvariant, PTL DEF Spec

------------------------------------------------------------------------------
\* Without overlaps at most one process is at an index step.

\* Images that are there as a whole.
Complete ==
  {i \in Images : dir[i] /\ config[i] = "whole" /\ manifest[i] = "whole"}

\* What a tag may name.
Accounted == Complete \cup adrift

\* Between commands.
Resting ==
  /\ tags # Torn /\ settled = tags
  /\ \A i \in Images : dir[i] => i \in Complete
  /\ \A t \in Tags : tags[t] \in Accounted \cup {None}

\* The steps at which the image in hand need not be complete, and those at which
\* a tag may still name it.
AtWork == {"mkdir", "config", "fill config", "manifest", "fill manifest",
           "rmtree", "rmdir", "rmdir all"}
Named(p) == pc[p] \in AtWork \/ (pc[p] = "truncate" /\ ref[p] = None)

\* What is true of the table in the hand of p.
Prepared(p) ==
  \A t \in Tags :
    /\ table[p][t] \in Accounted \cup {None}
    /\ table[p][t] # settled[t] =>
         t = ref[p] \/ (ref[p] = None /\ settled[t] = image[p])

\* While p is at an index step.
Working(p) ==
  /\ tags # Torn => settled = tags
  /\ pc[p] = "fill" <=> tags = Torn
  /\ \A i \in Images : dir[i] => i \in Complete \/ (pc[p] \in AtWork /\ i = image[p])
  /\ tags # Torn =>
       \A t \in Tags :
         tags[t] \in Accounted \cup {None} \/ (Named(p) /\ tags[t] = image[p])
  /\ pc[p] \in AtWork \ {"mkdir"} => dir[image[p]]
  /\ pc[p] = "fill config" => config[image[p]] # "none"
  /\ pc[p] \in {"manifest", "fill manifest"} => config[image[p]] = "whole"
  /\ pc[p] = "fill manifest" => manifest[image[p]] # "none"
  /\ pc[p] = "load" => image[p] \in Complete
  /\ pc[p] \in {"rmdir", "rmdir all"} => Empty(image[p])
  /\ pc[p] = "rmdir all" => image[p] \in adrift
  /\ pc[p] = "rmtree all" => doomed[p] = {i \in Images : dir[i]}
  /\ pc[p] = "rmdir all" => doomed[p] = {i \in Images : dir[i]} \ {image[p]}
  /\ pc[p] \in RmiSteps => table[p] = settled
  /\ pc[p] \in {"truncate", "fill"} => Prepared(p)

TagInv ==
  ~tangled =>
    \/ Resting /\ \A q \in Procs : pc[q] \notin IndexSteps
    \/ \E p \in Procs :
         /\ pc[p] \in IndexSteps /\ Working(p)
         /\ \A q \in Procs \ {p} : pc[q] \notin IndexSteps

\* A step of q that has nothing to do with image directories or the table.
LEMMA StepAside ==
  ASSUME TagInv, NEW q \in Procs, pc[q] \notin IndexSteps, pc'[q] \notin IndexSteps,
         UNCHANGED <<imageFiles, tags, adrift, settled>>, tangled => tangled',
         \A p \in Procs \ {q} : /\ pc'[p] = pc[p] /\ image'[p] = image[p]
                                /\ ref'[p] = ref[p] /\ table'[p] = table[p]
                                /\ doomed'[p] = doomed[p]
  PROVE  TagInv'
<1> SUFFICES ASSUME ~tangled'
             PROVE  TagInv'
  BY DEF TagInv
<1>1. UNCHANGED <<dir, config, manifest, tags, adrift, settled>>
  BY DEF imageFiles
<1>2. CASE Resting /\ \A p \in Procs : pc[p] \notin IndexSteps
  BY <1>1, <1>2 DEF TagInv, Resting, Complete, Accounted
<1>3. ASSUME NEW p \in Procs, pc[p] \in IndexSteps, Working(p),
             \A r \in Procs \ {p} : pc[r] \notin IndexSteps
      PROVE  TagInv'
  <2>1. /\ p # q /\ pc'[p] = pc[p] /\ image'[p] = image[p]
        /\ ref'[p] = ref[p] /\ table'[p] = table[p] /\ doomed'[p] = doomed[p]
    BY <1>3
  <2>2. Complete' = Complete /\ Accounted' = Accounted
    BY <1>1 DEF Complete, Accounted
  <2>3. Working(p)'
    <3>1. Prepared(p) => Prepared(p)'
      BY <1>1, <2>1, <2>2 DEF Prepared
    <3>2. Named(p)' = Named(p) /\ Empty(image[p])' = Empty(image[p])
      BY <1>1, <2>1 DEF Named, Empty
    <3>3. (image[p] \in Complete)' = (image[p] \in Complete)
      BY <2>1, <2>2
    <3>4. /\ doomed'[p] = doomed[p] /\ dir' = dir
          /\ {i \in Images : dir'[i]} = {i \in Images : dir[i]}
      BY <1>1, <2>1
    <3> QED BY <1>1, <1>3, <2>1, <2>2, <3>1, <3>2, <3>3, <3>4 DEF Working
  <2> QED BY <1>3, <2>1, <2>3 DEF TagInv
<1> QED BY <1>2, <1>3 DEF TagInv

\* p begins.
LEMMA StepIn ==
  ASSUME TagInv, NEW p \in Procs, pc[p] \notin IndexSteps, pc'[p] \in IndexSteps,
         Enter(p), UNCHANGED <<imageFiles, tags, settled>>,
         \A q \in Procs \ {p} : pc'[q] = pc[q],
         Resting => Working(p)'
  PROVE  TagInv'
<1> SUFFICES ASSUME ~tangled'
             PROVE  TagInv'
  BY DEF TagInv
<1>1. ~tangled /\ \A q \in Procs \ {p} : pc[q] \notin IndexSteps
  BY DEF Enter
<1>2. Resting
  BY <1>1 DEF TagInv
<1> QED BY <1>1, <1>2 DEF TagInv

\* p goes on, and may be done.
LEMMA StepOn ==
  ASSUME TagInv, NEW p \in Procs, pc[p] \in IndexSteps, UNCHANGED tangled,
         \A q \in Procs \ {p} : pc'[q] = pc[q],
         Working(p) => \/ pc'[p] \in IndexSteps /\ Working(p)'
                       \/ pc'[p] \notin IndexSteps /\ Resting'
  PROVE  TagInv'
<1> SUFFICES ASSUME ~tangled'
             PROVE  TagInv'
  BY DEF TagInv
<1>1. Working(p) /\ \A q \in Procs \ {p} : pc[q] \notin IndexSteps
  BY DEF TagInv
<1> QED BY <1>1 DEF TagInv

LEMMA LeavesHands ==
  ASSUME TypeInv, NEW p \in Procs, Leave(p)
  PROVE  /\ pc'[p] \notin IndexSteps
         /\ \A q \in Procs \ {p} : /\ pc'[q] = pc[q] /\ image'[q] = image[q]
                                   /\ ref'[q] = ref[q] /\ table'[q] = table[q]
                                   /\ doomed'[q] = doomed[q]
BY DEF Leave, TypeInv, TypeOK, StoreTypeOK, IndexSteps

LEMMA CallTags ==
  ASSUME TypeInv, TagInv, NEW p \in Procs, StoreCall(p)
  PROVE  TagInv'
<1> USE DEF Goto, IndexSteps
<1>1. pc[p] = "idle" /\ UNCHANGED <<imageFiles, tags, settled>>
  BY DEF StoreCall, CallTag, CallUntag, CallPush, CallRmi
<1>2. /\ UNCHANGED <<dir, config, manifest>> /\ pc[p] \notin IndexSteps
      /\ ref[p] = None
  BY <1>1 DEF imageFiles, TypeInv, LocalInv
<1>3. ASSUME NEW t \in Tags, CallPush(p, t)
      PROVE  TagInv'
  <2>1. /\ pc'[p] \notin IndexSteps /\ UNCHANGED <<table, doomed, adrift,
                                                   tangled>>
        /\ \A q \in Procs \ {p} : /\ pc'[q] = pc[q] /\ image'[q] = image[q]
                                  /\ ref'[q] = ref[q]
    BY <1>3 DEF CallPush, TypeInv, TypeOK, StoreTypeOK
  <2> QED BY <1>1, <1>2, <2>1, StepAside
<1>4. CASE CallRmi(p)
  <2>1. /\ pc'[p] = "refs" /\ \A q \in Procs \ {p} : pc'[q] = pc[q]
        /\ Enter(p) /\ table'[p] = tags /\ tags # Torn /\ UNCHANGED adrift
    BY <1>4 DEF CallRmi, TypeInv, TypeOK, StoreTypeOK
  <2>2. Resting => Working(p)'
    BY <1>1, <1>2, <2>1 DEF Resting, Working, Complete, Accounted, AtWork
  <2> QED BY <1>1, <1>2, <2>1, <2>2, StepIn
<1>5. ASSUME NEW t \in Tags, CallUntag(p, t)
      PROVE  TagInv'
  <2>1. /\ pc'[p] = "truncate" /\ \A q \in Procs \ {p} : pc'[q] = pc[q]
        /\ Enter(p) /\ table'[p] = [Loaded EXCEPT ![t] = None] /\ ref'[p] = t
        /\ UNCHANGED adrift
    BY <1>5 DEF CallUntag, TypeInv, TypeOK, StoreTypeOK
  <2>2. ASSUME Resting
        PROVE  Working(p)'
    <3>1. /\ tags \in [Tags -> Images \cup {None}] /\ Loaded = tags
          /\ \A u \in Tags : tags[u] \in Accounted \cup {None}
          /\ settled' = tags /\ tags' = tags
      BY <1>1, <2>2 DEF Resting, Loaded, TypeInv, TypeOK, StoreTypeOK
    <3>2. Complete' = Complete /\ Accounted' = Accounted
      BY <1>2, <2>1 DEF Complete, Accounted
    <3>3. Prepared(p)'
      BY <2>1, <3>1, <3>2 DEF Prepared
    <3> QED
      BY <1>2, <2>1, <2>2, <3>1, <3>2, <3>3
         DEF Resting, Working, AtWork, RmiSteps
  <2> QED BY <1>1, <1>2, <2>1, <2>2, StepIn
<1>6. ASSUME NEW i \in Images, NEW t \in Tags, CallTag(p, i, t)
      PROVE  TagInv'
  <2>1. /\ pc'[p] = "truncate" /\ \A q \in Procs \ {p} : pc'[q] = pc[q]
        /\ ref'[p] = t /\ adrift' = IF Known(i) THEN adrift ELSE adrift \cup {i}
        /\ \/ tangled'
           \/ Enter(p) /\ table'[p] = [Loaded EXCEPT ![t] = i]
    BY <1>6 DEF CallTag, TypeInv, TypeOK, StoreTypeOK
  <2>2. ASSUME Resting, table'[p] = [Loaded EXCEPT ![t] = i]
        PROVE  Working(p)'
    <3>1. /\ tags \in [Tags -> Images \cup {None}] /\ Loaded = tags
          /\ \A u \in Tags : tags[u] \in Accounted \cup {None}
          /\ settled' = tags /\ tags' = tags
      BY <1>1, <2>2 DEF Resting, Loaded, TypeInv, TypeOK, StoreTypeOK
    <3>2. Complete' = Complete /\ Accounted \subseteq Accounted'
      BY <1>2, <2>1 DEF Complete, Accounted
    <3>3. i \in Accounted'
      BY <2>1, <2>2, <3>1, <3>2, NothingElse DEF Known, Resting, Accounted
    <3>4. Prepared(p)'
      BY <2>1, <2>2, <3>1, <3>2, <3>3 DEF Prepared
    <3> QED
      BY <1>2, <2>1, <2>2, <3>1, <3>2, <3>4
         DEF Resting, Working, AtWork, RmiSteps
  <2>3. CASE tangled'
    BY <2>3 DEF TagInv
  <2> QED BY <1>1, <1>2, <2>1, <2>2, <2>3, StepIn
<1> QED BY <1>3, <1>4, <1>5, <1>6 DEF StoreCall

LEMMA PushTags ==
  ASSUME TypeInv, TagInv, NEW p \in Procs, PushStep(p)
  PROVE  TagInv'
<1> USE DEF Goto, locals, IndexSteps
<1>1. /\ pc[p] \notin IndexSteps /\ UNCHANGED <<imageFiles, tags, adrift,
                                                settled, tangled>>
      /\ Leave(p) \/ (UNCHANGED <<image, ref, table, doomed>>
                        /\ \E w \in PushSteps : pc' = [pc EXCEPT ![p] = w])
  <2>1. CASE GetToken(p) \/ LayersPushed(p) \/ PushConfig(p)
    BY <2>1 DEF GetToken, LayersPushed, PushConfig, PushSteps
  <2>2. CASE BlobExists(p) \/ PushBlob(p)
    <3>1. /\ pc[p] = "layers"
          /\ UNCHANGED <<pc, image, ref, table, doomed, imageFiles, tags, adrift,
                         settled, tangled>>
      BY <2>2 DEF BlobExists, PushBlob
    <3>2. pc' = [pc EXCEPT ![p] = "layers"]
      BY <3>1 DEF TypeInv, TypeOK
    <3> QED BY <3>1, <3>2 DEF PushSteps
  <2>3. CASE PushManifest(p) \/ PushFails(p)
    BY <2>3 DEF PushManifest, PushFails, PushSteps
  <2> QED BY <2>1, <2>2, <2>3 DEF PushStep
<1>2. CASE Leave(p)
  BY <1>1, <1>2, LeavesHands, StepAside
<1>3. CASE ~Leave(p)
  <2>1. /\ pc'[p] \in PushSteps /\ UNCHANGED <<image, ref, table, doomed>>
        /\ \A q \in Procs \ {p} : pc'[q] = pc[q]
    BY <1>1, <1>3 DEF TypeInv, TypeOK
  <2>2. pc'[p] \notin IndexSteps
    BY <2>1 DEF PushSteps
  <2> QED BY <1>1, <2>1, <2>2, StepAside
<1> QED BY <1>2, <1>3

\* A step on the image in hand changes no other one.
LEMMA OtherImages ==
  ASSUME NEW i,
         \A j \in Images \ {i} :
           dir'[j] = dir[j] /\ config'[j] = config[j] /\ manifest'[j] = manifest[j]
  PROVE  \A j \in Images \ {i} : j \in Complete <=> j \in Complete'
BY DEF Complete

\* Up to its last step, an operation on the files of an image leaves the tags.
LEMMA WorkOn ==
  ASSUME TypeInv, NEW p \in Procs, Working(p), UNCHANGED <<tags, settled, image,
                                                           ref>>,
         pc[p] \in AtWork, pc'[p] \in AtWork \ {"rmdir all"},
         \A j \in Images \ {image[p]} :
           dir'[j] = dir[j] /\ config'[j] = config[j] /\ manifest'[j] = manifest[j],
         adrift \ {image[p]} \subseteq adrift', dir'[image[p]],
         pc'[p] = "fill config" => config'[image[p]] # "none",
         pc'[p] \in {"manifest", "fill manifest"} => config'[image[p]] = "whole",
         pc'[p] = "fill manifest" => manifest'[image[p]] # "none",
         pc'[p] = "rmdir" => Empty(image[p])',
         pc'[p] \in {"rmtree", "rmdir"} => table'[p] = settled
  PROVE  Working(p)'
<1> DEFINE i == image[p]
<1>1. \A j \in Images \ {i} : j \in Complete <=> j \in Complete'
  BY OtherImages
<1>2. \A j \in Images : dir'[j] => j \in Complete' \/ j = i
  BY <1>1 DEF Working
<1>3. tags # Torn => \A t \in Tags : tags[t] \in Accounted' \cup {None} \/ tags[t] = i
  BY <1>1 DEF Working, Complete, Accounted
<1>4. pc[p] \notin {"fill", "load", "refs", "truncate", "rmtree all"}
  BY DEF AtWork
<1>5. pc'[p] \notin {"fill", "load", "refs", "truncate", "rmtree all", "rmdir all"}
  BY DEF AtWork
<1> QED
  BY <1>2, <1>3, <1>4, <1>5 DEF Working, Named, RmiSteps

LEMMA CommitTags ==
  ASSUME TypeInv, TagInv, NEW p \in Procs, CommitStep(p)
  PROVE  TagInv'
<1> USE DEF Goto, IndexSteps, locals
<1>1. /\ pc[p] \in IndexSteps /\ UNCHANGED <<settled, tags, tangled>>
      /\ \A q \in Procs \ {p} : pc'[q] = pc[q]
  <2>1. pc[p] \in IndexSteps /\ UNCHANGED <<settled, tags, tangled>>
    BY DEF CommitStep, MakeDirectory, OpenConfig, FillConfig, OpenManifest,
       FillManifest, DirectoryGone, LoadTags, LoadTagsFails
  <2>2. \A q \in Procs \ {p} : pc'[q] = pc[q]
    BY LeavesHands DEF CommitStep, MakeDirectory, OpenConfig, FillConfig, OpenManifest,
       FillManifest, DirectoryGone, LoadTags, LoadTagsFails, TypeInv, TypeOK
  <2> QED BY <2>1, <2>2
<1>2. ASSUME Working(p)
      PROVE  \/ pc'[p] \in IndexSteps /\ Working(p)'
             \/ pc'[p] \notin IndexSteps /\ Resting'
  <2>1. image[p] \in Images /\ ref[p] \in Tags \cup {None}
    BY DEF TypeInv, TypeOK, StoreTypeOK
  <2>2. CASE \/ MakeDirectory(p) \/ OpenConfig(p) \/ FillConfig(p) \/ OpenManifest(p)
    <3>1. /\ UNCHANGED <<tags, settled, image, ref>>
          /\ pc[p] \in {"mkdir", "config", "fill config", "manifest"}
          /\ pc'[p] \in {"config", "fill config", "manifest", "fill manifest"}
          /\ adrift \ {image[p]} \subseteq adrift'
      BY <2>2 DEF MakeDirectory, OpenConfig, FillConfig, OpenManifest, TypeInv, TypeOK
    <3>2. /\ \A j \in Images \ {image[p]} :
               dir'[j] = dir[j] /\ config'[j] = config[j] /\ manifest'[j] = manifest[j]
          /\ dir'[image[p]]
      BY <1>2, <2>1, <2>2 DEF MakeDirectory, OpenConfig, FillConfig, Filled,
         OpenManifest, Working, AtWork, TypeInv, TypeOK, StoreTypeOK
    <3>3. /\ pc'[p] = "fill config" => config'[image[p]] # "none"
          /\ pc'[p] \in {"manifest", "fill manifest"} => config'[image[p]] = "whole"
          /\ pc'[p] = "fill manifest" => manifest'[image[p]] # "none"
      <4> USE DEF TypeInv, TypeOK, StoreTypeOK
      <4>1. CASE MakeDirectory(p)
        BY <4>1 DEF MakeDirectory
      <4>2. CASE OpenConfig(p)
        BY <2>1, <4>2 DEF OpenConfig
      <4>3. CASE FillConfig(p)
        BY <1>2, <2>1, <4>3 DEF FillConfig, Filled, Working
      <4>4. CASE OpenManifest(p)
        BY <1>2, <2>1, <4>4 DEF OpenManifest, Working
      <4> QED BY <2>2, <4>1, <4>2, <4>3, <4>4
    <3>4. Working(p)'
      BY <1>2, <3>1, <3>2, <3>3, WorkOn DEF AtWork
    <3> QED BY <3>1, <3>4
  <2>3. CASE FillManifest(p)
    <3>1. /\ pc[p] = "fill manifest" /\ pc'[p] = "load"
          /\ UNCHANGED <<tags, adrift, settled, image, ref, table, dir, config>>
          /\ manifest' = [manifest EXCEPT ![image[p]] = "whole"]
      BY <1>2, <2>3 DEF FillManifest, Filled, Working, TypeInv, TypeOK
    <3>2. image[p] \in Complete'
      BY <1>2, <2>1, <3>1 DEF Working, AtWork, Complete, TypeInv, TypeOK, StoreTypeOK
    <3>3. Complete \subseteq Complete'
      BY <3>1 DEF Complete, TypeInv, TypeOK, StoreTypeOK
    <3>4. Working(p)'
      BY <1>2, <3>1, <3>2, <3>3 DEF Working, Accounted, AtWork, Named, RmiSteps
    <3> QED BY <3>1, <3>4
  <2>4. CASE LoadTags(p)
    <3>1. /\ pc[p] = "load" /\ pc'[p] = "truncate" /\ tags # Torn
          /\ UNCHANGED <<tags, adrift, settled, image, ref, dir, config,
                         manifest>>
          /\ table'[p] = [tags EXCEPT ![ref[p]] = image[p]]
      BY <2>4 DEF LoadTags, TypeInv, TypeOK, StoreTypeOK, imageFiles
    <3>2. /\ tags \in [Tags -> Images \cup {None}] /\ settled = tags
          /\ image[p] \in Complete
          /\ \A t \in Tags : tags[t] \in Accounted \cup {None}
      BY <1>2, <3>1 DEF Working, Named, AtWork, TypeInv, TypeOK, StoreTypeOK
    <3>3. Complete' = Complete /\ Accounted' = Accounted
      BY <3>1 DEF Complete, Accounted
    <3>4. Prepared(p)'
      BY <3>1, <3>2, <3>3 DEF Prepared, Accounted
    <3>5. Working(p)'
      BY <1>2, <3>1, <3>2, <3>3, <3>4 DEF Working, AtWork, RmiSteps
    <3> QED BY <3>1, <3>5
  <2>5. CASE LoadTagsFails(p)
    <3>1. /\ pc[p] = "load" /\ pc'[p] \notin IndexSteps
          /\ UNCHANGED <<tags, adrift, settled, dir, config, manifest>>
      BY <2>5, LeavesHands DEF LoadTagsFails, imageFiles
    <3>2. Resting
      BY <1>2, <3>1 DEF Working, Resting, AtWork, Named
    <3>3. Resting'
      BY <3>1, <3>2 DEF Resting, Complete, Accounted
    <3> QED BY <3>1, <3>3
  <2>6. ~DirectoryGone(p)
    BY <1>2 DEF DirectoryGone, Working, AtWork
  <2> QED BY <2>2, <2>3, <2>4, <2>5, <2>6 DEF CommitStep
<1> QED BY <1>1, <1>2, StepOn

LEMMA RmiTags ==
  ASSUME TypeInv, TagInv, NEW p \in Procs, RmiStep(p)
  PROVE  TagInv'
<1> USE DEF Goto, IndexSteps, locals
<1>1. /\ pc[p] \in IndexSteps /\ UNCHANGED <<settled, tags, tangled>>
      /\ \A q \in Procs \ {p} : pc'[q] = pc[q]
  <2>1. pc[p] \in IndexSteps /\ UNCHANGED <<settled, tags, tangled>>
    BY DEF RmiStep, Resolve, RemoveFiles, RemoveDirectory, RemoveFails, RmiReturns,
       ResolveStore, RemoveNextFiles, RemoveNextDirectory, RemoveStore
  <2>2. \A q \in Procs \ {p} : pc'[q] = pc[q]
    BY LeavesHands DEF RmiStep, Resolve, RemoveFiles, RemoveDirectory, RemoveFails,
       RmiReturns, ResolveStore, RemoveNextFiles, RemoveNextDirectory, RemoveStore,
       TypeInv, TypeOK
  <2> QED BY <2>1, <2>2
<1>2. ASSUME Working(p)
      PROVE  \/ pc'[p] \in IndexSteps /\ Working(p)'
             \/ pc'[p] \notin IndexSteps /\ Resting'
  <2>1. image[p] \in Images /\ table[p] \in [Tags -> Images \cup {None}]
    BY DEF TypeInv, TypeOK, StoreTypeOK
  <2>2. pc[p] \in RmiSteps => ref[p] = None /\ tags # Torn /\ table[p] = tags
    BY <1>2 DEF TypeInv, LocalInv, Working, RmiSteps
  <2>3. ASSUME NEW i \in Images, Resolve(p, i)
        PROVE  pc'[p] \in IndexSteps /\ Working(p)'
    <3>1. /\ pc[p] = "refs" /\ pc'[p] = "rmtree" /\ dir[i] /\ image'[p] = i
          /\ UNCHANGED <<dir, config, manifest, tags, adrift, settled, ref,
                         table>>
      BY <2>3 DEF Resolve, imageFiles, TypeInv, TypeOK, StoreTypeOK
    <3>2. Complete' = Complete /\ Accounted' = Accounted
      BY <3>1 DEF Complete, Accounted
    <3>3. Working(p)'
      BY <1>2, <3>1, <3>2 DEF Working, AtWork, Named, RmiSteps
    <3> QED BY <3>1, <3>3
  <2>4. CASE RemoveFiles(p)
    <3>1. /\ pc[p] = "rmtree" /\ pc'[p] = "rmdir"
          /\ UNCHANGED <<dir, tags, adrift, settled, image, ref, table>>
          /\ config' = [config EXCEPT ![image[p]] = "none"]
          /\ manifest' = [manifest EXCEPT ![image[p]] = "none"]
      BY <2>4 DEF RemoveFiles, TypeInv, TypeOK
    <3>2. /\ \A j \in Images \ {image[p]} :
               dir'[j] = dir[j] /\ config'[j] = config[j] /\ manifest'[j] = manifest[j]
          /\ Empty(image[p])'
      BY <2>1, <3>1 DEF Empty, TypeInv, TypeOK, StoreTypeOK
    <3>3. dir'[image[p]] /\ table'[p] = settled
      BY <1>2, <3>1 DEF Working, AtWork, RmiSteps
    <3>4. Working(p)'
      BY <1>2, <3>1, <3>2, <3>3, WorkOn DEF AtWork
    <3> QED BY <3>1, <3>4
  <2>5. CASE RemoveDirectory(p)
    <3> DEFINE i == image[p]
    <3>1. /\ pc[p] = "rmdir" /\ pc'[p] = "truncate"
          /\ UNCHANGED <<config, manifest, tags, adrift, settled, image, ref>>
          /\ dir' = [dir EXCEPT ![i] = FALSE]
          /\ table'[p] = Without(table[p], i)
      BY <2>5 DEF RemoveDirectory, TypeInv, TypeOK, StoreTypeOK
    <3>2. /\ \A j \in Images \ {i} : dir'[j] = dir[j]
          /\ ~dir'[i]
      BY <2>1, <3>1 DEF TypeInv, TypeOK, StoreTypeOK
    <3>3. \A j \in Images \ {i} : j \in Complete <=> j \in Complete'
      BY <3>1, <3>2, OtherImages
    <3>4. \A j \in Images : dir'[j] => j \in Complete'
      BY <1>2, <3>2, <3>3 DEF Working
    <3>5. \A t \in Tags : tags[t] \in Accounted' \cup {None} \/ tags[t] = i
      BY <1>2, <2>2, <3>1, <3>3 DEF Working, RmiSteps, Complete, Accounted
    <3>6. Prepared(p)'
      <4> SUFFICES ASSUME NEW t \in Tags
                   PROVE  /\ table'[p][t] \in Accounted' \cup {None}
                          /\ table'[p][t] # settled[t] =>
                               ref[p] = None /\ settled[t] = image[p]
        BY <3>1 DEF Prepared
      <4>1. table'[p][t] = IF tags[t] = i THEN None ELSE tags[t]
        BY <2>2, <3>1 DEF Without, RmiSteps
      <4>2. settled[t] = tags[t] /\ ref[p] = None
        BY <1>2, <2>2, <3>1 DEF Working, RmiSteps
      <4> QED BY <3>5, <4>1, <4>2
    <3>7. Working(p)'
      BY <1>2, <2>2, <3>1, <3>4, <3>5, <3>6 DEF Working, AtWork, Named, RmiSteps
    <3> QED BY <3>1, <3>7
  <2>6. CASE RmiReturns(p)
    <3>1. pc[p] = "refs" /\ UNCHANGED <<dir, config, manifest, tags, adrift,
                                        settled>>
      BY <2>6 DEF RmiReturns, imageFiles
    <3>2. Resting
      BY <1>2, <3>1 DEF Working, Resting, AtWork, Named
    <3>3. Resting'
      BY <3>1, <3>2 DEF Resting, Complete, Accounted
    <3> QED BY <2>6, <3>3, LeavesHands DEF RmiReturns
  <2>7. CASE ResolveStore(p)
    <3>1. /\ pc[p] = "refs" /\ pc'[p] = "rmtree all"
          /\ UNCHANGED <<dir, config, manifest, tags, adrift, settled, image,
                         ref, table>>
          /\ doomed'[p] = {i \in Images : dir[i]}
      BY <2>7 DEF ResolveStore, imageFiles, TypeInv, TypeOK, StoreTypeOK
    <3>2. Complete' = Complete /\ Accounted' = Accounted
      BY <3>1 DEF Complete, Accounted
    <3>3. Working(p)'
      BY <1>2, <3>1, <3>2 DEF Working, AtWork, Named, RmiSteps
    <3> QED BY <3>1, <3>3
  <2>8. ASSUME NEW i \in Images, RemoveNextFiles(p, i)
        PROVE  pc'[p] \in IndexSteps /\ Working(p)'
    <3>1. /\ pc[p] = "rmtree all" /\ pc'[p] = "rmdir all"
          /\ UNCHANGED <<dir, tags, settled, ref, table>>
          /\ i \in doomed[p] /\ doomed'[p] = doomed[p] \ {i} /\ image'[p] = i
          /\ config' = [config EXCEPT ![i] = "none"]
          /\ manifest' = [manifest EXCEPT ![i] = "none"]
          /\ adrift' = adrift \cup {i}
      BY <2>8 DEF RemoveNextFiles, TypeInv, TypeOK, StoreTypeOK
    <3>2. /\ \A j \in Images \ {i} :
               dir'[j] = dir[j] /\ config'[j] = config[j] /\ manifest'[j] = manifest[j]
          /\ Empty(i)'
      BY <3>1 DEF Empty, TypeInv, TypeOK, StoreTypeOK
    <3>3. \A j \in Images \ {i} : j \in Complete <=> j \in Complete'
      BY <3>2, OtherImages
    <3>4. dir[i] /\ doomed'[p] = {j \in Images : dir'[j]} \ {i}
      BY <1>2, <3>1 DEF Working
    <3>5. \A j \in Images : dir'[j] => j \in Complete' \/ j = i
      BY <1>2, <3>1, <3>3 DEF Working, AtWork
    <3>6. \A t \in Tags : tags[t] \in Accounted' \cup {None}
      BY <1>2, <2>2, <3>1, <3>3
         DEF Working, RmiSteps, Named, AtWork, Accounted, Complete
    <3>7. Working(p)'
      BY <1>2, <2>2, <3>1, <3>2, <3>4, <3>5, <3>6 DEF Working, AtWork, RmiSteps
    <3> QED BY <3>1, <3>7
  <2>9. CASE RemoveNextDirectory(p)
    <3> DEFINE i == image[p]
    <3>1. /\ pc[p] = "rmdir all" /\ pc'[p] = "rmtree all"
          /\ UNCHANGED <<config, manifest, tags, adrift, settled, image, ref,
                         table, doomed>>
          /\ dir' = [dir EXCEPT ![i] = FALSE]
      BY <2>9 DEF RemoveNextDirectory, TypeInv, TypeOK
    <3>2. /\ \A j \in Images \ {i} : dir'[j] = dir[j]
          /\ ~dir'[i]
      BY <2>1, <3>1 DEF TypeInv, TypeOK, StoreTypeOK
    <3>3. \A j \in Images \ {i} : j \in Complete <=> j \in Complete'
      BY <3>1, <3>2, OtherImages
    <3>4. \A j \in Images : dir'[j] => j \in Complete'
      BY <1>2, <3>2, <3>3 DEF Working
    <3>5. \A t \in Tags : tags[t] \in Accounted' \cup {None}
      BY <1>2, <2>2, <3>1, <3>3 DEF Working, RmiSteps, Complete, Accounted
    <3>6. doomed'[p] = {j \in Images : dir'[j]}
      BY <1>2, <2>1, <3>1, <3>2 DEF Working
    <3>7. Working(p)'
      BY <1>2, <2>2, <3>1, <3>4, <3>5, <3>6 DEF Working, AtWork, RmiSteps
    <3> QED BY <3>1, <3>7
  <2>10. CASE RemoveStore(p)
    <3>1. /\ pc[p] = "rmtree all" /\ pc'[p] = "truncate"
          /\ UNCHANGED <<dir, config, manifest, tags, adrift, settled, image,
                         ref, table>>
          /\ \A i \in Images : ~dir[i]
      BY <2>10 DEF RemoveStore, imageFiles, TypeInv, TypeOK
    <3>2. Complete' = Complete /\ Accounted' = Accounted
      BY <3>1 DEF Complete, Accounted
    <3>3. \A t \in Tags : tags[t] \in Accounted \cup {None} /\ table[p][t] = settled[t]
      BY <1>2, <2>2, <3>1 DEF Working, RmiSteps, Named, AtWork
    <3>4. Prepared(p)'
      BY <1>2, <2>2, <3>1, <3>2, <3>3 DEF Prepared, RmiSteps
    <3>5. Working(p)'
      BY <1>2, <2>2, <3>1, <3>2, <3>3, <3>4 DEF Working, AtWork, RmiSteps
    <3> QED BY <3>1, <3>5
  <2>11. ~RemoveFails(p)
    BY <1>2 DEF RemoveFails, Working, AtWork
  <2> QED
    BY <2>3, <2>4, <2>5, <2>6, <2>7, <2>8, <2>9, <2>10, <2>11 DEF RmiStep
<1> QED BY <1>1, <1>2, StepOn

LEMMA TableTags ==
  ASSUME TypeInv, TagInv, NEW p \in Procs, TruncateTags(p) \/ FillTags(p)
  PROVE  TagInv'
<1> USE DEF Goto, IndexSteps, locals
<1>1. /\ pc[p] \in IndexSteps
      /\ UNCHANGED <<dir, config, manifest, adrift, tangled>>
  BY DEF TruncateTags, FillTags, WriteTags, imageFiles
<1>2. \A q \in Procs \ {p} : pc'[q] = pc[q]
  BY LeavesHands DEF TruncateTags, FillTags, TypeInv, TypeOK
<1>3. Complete' = Complete /\ Accounted' = Accounted
  BY <1>1 DEF Complete, Accounted
<1>4. ASSUME Working(p), TruncateTags(p)
      PROVE  pc'[p] \in IndexSteps /\ Working(p)'
  <2>1. /\ pc[p] = "truncate" /\ pc'[p] = "fill" /\ tags' = Torn
        /\ UNCHANGED <<settled, image, ref, table>>
    BY <1>4 DEF TruncateTags, TypeInv, TypeOK
  <2>2. Prepared(p)'
    BY <1>3, <1>4, <2>1 DEF Working, Prepared
  <2>3. Working(p)'
    BY <1>1, <1>3, <1>4, <2>1, <2>2 DEF Working, AtWork, RmiSteps
  <2> QED BY <2>1, <2>3
<1>5. ASSUME Working(p), FillTags(p)
      PROVE  \/ pc'[p] \in IndexSteps /\ Working(p)'
             \/ pc'[p] \notin IndexSteps /\ Resting'
  <2>1. table[p] # Torn
    <3> DEFINE TypedTables == [Tags -> Images \cup {None}]
    <3>1. table \in [Procs -> TypedTables]
      BY DEF TypeInv, TypeOK, StoreTypeOK
    <3>2. Torn \notin TypedTables
      BY NothingElse
    <3> HIDE DEF TypedTables
    <3> QED BY <3>1, <3>2
  <2>2. pc[p] = "fill" /\ tags' = table[p] /\ settled' = table[p]
    BY <1>5, <2>1 DEF FillTags, WriteTags, Working
  <2>3. /\ \A i \in Images : dir'[i] => i \in Complete'
        /\ \A t \in Tags : tags'[t] \in Accounted' \cup {None}
    BY <1>1, <1>3, <1>5, <2>2 DEF Working, Prepared, AtWork
  <2>4. Resting'
    BY <2>1, <2>2, <2>3 DEF Resting
  <2>5. CASE ref[p] = None
    <3>1. pc'[p] = "refs" /\ UNCHANGED <<image, ref, table>>
      BY <1>5, <2>5 DEF FillTags, TypeInv, TypeOK
    <3>2. Working(p)'
      BY <2>1, <2>2, <2>3, <3>1 DEF Working, AtWork, RmiSteps
    <3> QED BY <3>1, <3>2
  <2>6. CASE ref[p] # None
    BY <1>5, <2>4, <2>6, LeavesHands DEF FillTags
  <2> QED BY <2>5, <2>6
<1> QED BY <1>1, <1>2, <1>4, <1>5, StepOn

LEMMA BuildStepIsNoIndexStep ==
  ASSUME TypeInv, NEW p \in Procs, BuildStep(p)
  PROVE  pc[p] \notin IndexSteps
<1>1. CASE HashLayer(p) \/ OpenBlob(p) \/ CopyBlob(p)
  BY <1>1 DEF HashLayer, AtLayer, OpenBlob, CopyBlob, Goto, IndexSteps
<1>2. CASE ~HashLayer(p) /\ ~OpenBlob(p) /\ ~CopyBlob(p)
  BY <1>2, BuildMoves DEF IndexSteps, StepSteps, CommitSteps
<1> QED BY <1>1, <1>2

LEMMA BuildTags ==
  ASSUME TypeInv, TagInv, NEW p \in Procs, BuildStep(p)
  PROVE  TagInv'
<1>1. CASE Assemble(p)
  <2>1. /\ pc[p] = "hash" /\ pc'[p] = "mkdir"
        /\ \A q \in Procs \ {p} : pc'[q] = pc[q]
        /\ Enter(p)
        /\ UNCHANGED <<dir, config, manifest, tags, adrift, settled, image, ref>>
    BY <1>1 DEF Assemble, Goto, imageFiles, locals, TypeInv, TypeOK
  <2>2. Resting => Working(p)'
    BY <2>1 DEF Resting, Working, Complete, Accounted, AtWork, Named, RmiSteps
  <2>3. pc[p] \notin IndexSteps /\ pc'[p] \in IndexSteps /\ UNCHANGED imageFiles
    BY <2>1 DEF IndexSteps, imageFiles
  <2> QED BY <2>1, <2>2, <2>3, StepIn
<1>2. CASE Raise(p)
  <2>1. /\ UNCHANGED <<imageFiles, tags, adrift, settled, tangled>> /\ Leave(p)
    BY <1>2 DEF Raise, storeFiles
  <2>2. pc[p] \notin IndexSteps
    BY BuildStepIsNoIndexStep
  <2> QED BY <2>1, <2>2, LeavesHands, StepAside
<1>3. CASE ~Assemble(p) /\ ~Raise(p)
  <2>1. /\ UNCHANGED <<imageFiles, tags, adrift, settled, tangled, ref, table,
                       doomed>>
        /\ \A q \in Procs \ {p} : image'[q] = image[q]
    <3> USE DEF storeVars, storeFiles, locals
    <3>1. CASE HashLayer(p)
      BY <3>1 DEF HashLayer, TypeInv, TypeOK, StoreTypeOK
    <3>2. CASE ~HashLayer(p)
      BY <1>3, <3>2 DEF BuildStep, MetaStep, CacheHit, ReadFiles, TruncateTmp,
         FillTmp, RunStep, PythonStep, Discard, StepFails, Put,
         PutFails, FillCache, StepsDone,
         HashFails, OpenBlob, CopyBlob
    <3> QED BY <3>1, <3>2
  <2>2. \/ UNCHANGED pc
        \/ \E w \in StepSteps \cup CommitSteps : pc' = [pc EXCEPT ![p] = w]
    BY <1>3 DEF BuildStep, MetaStep, CacheHit, ReadFiles, TruncateTmp,
       FillTmp, RunStep, PythonStep, Discard, StepFails, Put,
       PutFails, FillCache, StepsDone,
       HashLayer, HashFails, OpenBlob, CopyBlob, Goto, storeVars, StepSteps,
       CommitSteps
  <2>3. pc[p] \notin IndexSteps
    BY BuildStepIsNoIndexStep
  <2>4. /\ pc'[p] = pc[p] \/ pc'[p] \in StepSteps \cup CommitSteps
        /\ \A q \in Procs \ {p} : pc'[q] = pc[q]
    BY <2>2 DEF TypeInv, TypeOK
  <2>5. pc'[p] \notin IndexSteps
    BY <2>3, <2>4 DEF IndexSteps, StepSteps, CommitSteps
  <2> QED BY <2>1, <2>3, <2>4, <2>5, StepAside
<1> QED BY <1>1, <1>2, <1>3

LEMMA TagInvariant == Spec => []TagInv
<1>1. ASSUME Init
      PROVE  TagInv
  <2>1. Resting
    <3>1. tags \in [Tags -> Images \cup {None}]
      BY <1>1 DEF Init, StoreInit, NoTags
    <3>2. tags # Torn
      <4> DEFINE TypedTables == [Tags -> Images \cup {None}]
      <4>1. tags \in TypedTables /\ Torn \notin TypedTables
        BY <3>1, NothingElse
      <4> HIDE DEF TypedTables
      <4> QED BY <4>1
    <3>3. /\ settled = tags /\ \A i \in Images : ~dir[i]
          /\ \A t \in Tags : tags[t] = None
      BY <1>1 DEF Init, StoreInit, NoTags
    <3> QED BY <3>2, <3>3 DEF Resting
  <2>2. \A q \in Procs : pc[q] \notin IndexSteps
    BY <1>1 DEF Init, IndexSteps
  <2> QED BY <2>1, <2>2 DEF TagInv
<1>2. TypeInv /\ TagInv /\ [Next]_vars => TagInv'
  <2> SUFFICES ASSUME TypeInv, TagInv, [Next]_vars
               PROVE  TagInv'
    OBVIOUS
  <2>1. CASE UNCHANGED storeVars
    <3>1. UNCHANGED <<dir, config, manifest, tags, adrift, settled, tangled, pc,
                      image, ref, table, doomed>>
      BY <2>1 DEF storeVars, imageFiles, locals
    <3>2. Complete' = Complete /\ Accounted' = Accounted
      BY <3>1 DEF Complete, Accounted
    <3>3. Resting => Resting'
      BY <3>1, <3>2 DEF Resting
    <3>4. ASSUME NEW p \in Procs, Working(p)
          PROVE  Working(p)'
      BY <3>1, <3>2, <3>4 DEF Working, Named, Prepared, Empty
    <3> QED BY <3>1, <3>3, <3>4 DEF TagInv
  <2>2. ASSUME NEW p \in Procs, StoreStep(p)
        PROVE  TagInv'
    BY <2>2, CommitTags, RmiTags, TableTags, PushTags DEF StoreStep
  <2>3. ASSUME NEW p \in Procs, Killed(p)
        PROVE  TagInv'
    <3>1. Leave(p) /\ UNCHANGED <<imageFiles, tags, adrift, settled>>
      BY <2>3 DEF Killed, StoreKilled
    <3>2. tangled' = (tangled \/ pc[p] \in IndexSteps)
      BY <2>3 DEF Killed, StoreKilled
    <3>3. CASE pc[p] \in IndexSteps
      BY <3>2, <3>3 DEF TagInv
    <3>4. CASE pc[p] \notin IndexSteps
      BY <3>1, <3>2, <3>4, LeavesHands, StepAside
    <3> QED BY <3>3, <3>4
  <2>4. ASSUME NEW p \in Procs, Call(p)
        PROVE  TagInv'
    <3>1. CASE StoreCall(p)
      BY <3>1, CallTags
    <3>2. ASSUME NEW r, NEW t, NEW nc, CallBuild(p, r, t, nc)
          PROVE  TagInv'
      <4>1. /\ UNCHANGED <<imageFiles, tags, adrift, settled, tangled, image,
                           table, doomed>>
            /\ pc[p] = "idle" /\ pc'[p] = "steps"
            /\ \A q \in Procs \ {p} : pc'[q] = pc[q] /\ ref'[q] = ref[q]
        BY <3>2 DEF CallBuild, Goto, storeFiles, TypeInv, TypeOK, StoreTypeOK
      <4> QED BY <4>1, StepAside DEF IndexSteps
    <3> QED BY <2>4, <3>1, <3>2 DEF Call
  <2>5. ASSUME NEW d \in Dirs, NEW s \in Steps, Edit(d, s)
        PROVE  TagInv'
    BY <2>1, <2>5 DEF Edit
  <2>6. CASE UNCHANGED vars
    BY <2>1, <2>6 DEF vars
  <2> QED
    BY <2>2, <2>3, <2>4, <2>5, <2>6, BuildTags DEF Next
<1> QED BY <1>1, <1>2, TypeInvariant, PTL DEF Spec

(* Tags name images that are there, as long as the commands that write     *)
(* image directories or tags.json run one after the other, are not killed  *)
(* and can read the table, for any number of processes that build and push *)
(* meanwhile; but for digests the store never had, and for images that     *)
(* `rmi sha256:` removed with the whole store.                             *)
THEOREM TagsStayGood == Spec => []TagsResolve
<1>1. TypeInv /\ TagInv => TagsResolve
  <2> SUFFICES ASSUME TypeInv, TagInv, ~tangled, tags # Torn,
                      NEW t \in Tags, tags[t] # None
               PROVE  \/ /\ dir[tags[t]]
                         /\ config[tags[t]] = "whole"
                         /\ manifest[tags[t]] = "whole"
                      \/ tags[t] \in adrift
                      \/ \E p \in Procs : pc[p] \in IndexSteps /\ image[p] = tags[t]
    BY DEF TagsResolve
  <2>1. CASE Resting
    BY <2>1 DEF Resting, Accounted, Complete
  <2>2. ASSUME NEW p \in Procs, pc[p] \in IndexSteps, Working(p)
        PROVE  tags[t] \in Accounted \/ (pc[p] \in IndexSteps /\ image[p] = tags[t])
    BY <2>2 DEF Working
  <2> QED BY <2>1, <2>2 DEF TagInv, Accounted, Complete
<1> QED BY <1>1, TypeInvariant, TagInvariant, PTL

LEMMA SettledByFill ==
  ASSUME [Next]_vars, settled' # settled
  PROVE  \E p \in Procs : FillTags(p)
<1>1. ASSUME NEW p \in Procs, StoreStep(p), ~FillTags(p)
      PROVE  UNCHANGED settled
  BY <1>1 DEF StoreStep, CommitStep, RmiStep, PushStep, MakeDirectory, OpenConfig,
     FillConfig, OpenManifest, FillManifest, DirectoryGone, LoadTags, LoadTagsFails,
     Resolve, RemoveFiles, RemoveDirectory, RemoveFails, RmiReturns, ResolveStore,
     RemoveNextFiles, RemoveNextDirectory, RemoveStore, TruncateTags,
     GetToken, BlobExists, PushBlob, LayersPushed, PushConfig, PushManifest,
     PushFails
<1>2. ASSUME NEW p \in Procs, BuildStep(p)
      PROVE  UNCHANGED settled
  BY <1>2 DEF BuildStep, MetaStep, CacheHit, ReadFiles, TruncateTmp, FillTmp,
     RunStep, PythonStep, Discard, StepFails, Put, PutFails, FillCache, StepsDone,
     HashLayer, HashFails, OpenBlob, CopyBlob, Assemble, Raise, storeVars, storeFiles
<1>3. ASSUME NEW p \in Procs, Call(p) \/ Killed(p)
      PROVE  UNCHANGED settled
  BY <1>3 DEF Call, CallBuild, StoreCall, CallTag, CallUntag, CallPush, CallRmi,
     Killed, StoreKilled, storeFiles
<1>4. ASSUME NEW d \in Dirs, NEW s \in Steps, Edit(d, s)
      PROVE  UNCHANGED settled
  BY <1>4 DEF Edit, storeVars
<1>5. CASE UNCHANGED vars
  BY <1>5 DEF vars, storeVars
<1> QED BY <1>1, <1>2, <1>3, <1>4, <1>5 DEF Next

(* Under the same condition no command changes a tag that is not its own,  *)
(* whatever table it read before: nobody else writes one in between.       *)
THEOREM TagsOfOthersStay == Spec => ForeignTagsStay
<1>1. TypeInv /\ TagInv /\ [Next]_vars =>
        [~tangled' =>
           \A t \in Tags :
             settled'[t] # settled[t] =>
               \E p \in Procs :
                 /\ pc[p] = "fill"
                 /\ t = ref[p] \/ (ref[p] = None /\ settled[t] = image[p])]_storeVars
  <2> SUFFICES ASSUME TypeInv, TagInv, [Next]_vars, ~tangled',
                      NEW t \in Tags, settled'[t] # settled[t]
               PROVE  \E p \in Procs :
                        /\ pc[p] = "fill"
                        /\ t = ref[p] \/ (ref[p] = None /\ settled[t] = image[p])
    OBVIOUS
  <2>1. PICK p \in Procs : FillTags(p)
    BY SettledByFill
  <2>2. /\ pc[p] = "fill" /\ UNCHANGED tangled
        /\ settled' = settled \/ settled' = table[p]
    BY <2>1 DEF FillTags, WriteTags
  <2>3. Working(p)
    BY <2>2 DEF TagInv, IndexSteps
  <2>4. Prepared(p)
    BY <2>2, <2>3 DEF Working
  <2> QED BY <2>2, <2>4 DEF Prepared
<1> QED BY <1>1, TypeInvariant, TagInvariant, PTL DEF Spec, ForeignTagsStay

==============================================================================
