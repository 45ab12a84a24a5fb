--------------------------- MODULE FreshImageProofs ---------------------------
(***************************************************************************)
(* A build makes its image of the layers of its steps, in their order,     *)
(* from the files as they are, unless it was misled: proofs about          *)
(* ImageBuild for any processes, boxfiles and numbers of commands, edits   *)
(* and kills.                                                              *)
(***************************************************************************)
EXTENDS ImageBuildProofs

Building == StepSteps \cup CommitSteps

------------------------------------------------------------------------------
\* What a build knows of its own layers, whatever others do

\* The number of the step whose layer is in archive a.
Number(a) == Len(a.key)

\* t lists archives for the layers of the first n - 1 steps of recipe r.
Laid(r, n, t) ==
  /\ n \in 1 .. Len(r) + 1
  /\ \A i \in 1 .. Len(t) :
       /\ Number(t[i]) \in 1 .. n - 1
       /\ t[i].key = SubSeq(r, 1, Number(t[i]))
       /\ HasLayer(t[i].key)
  /\ \A m \in 1 .. n - 1 :
       Kind[r[m]] # "meta" => \E i \in 1 .. Len(t) : Number(t[i]) = m
  /\ \A i, j \in 1 .. Len(t) : i < j => Number(t[i]) < Number(t[j])

\* No build uses an archive in a directory of another.
Placed(p) == \A i \in 1 .. Len(tars[p]) : tars[p][i].in \in {"tmp", "cache", p}

Phase(p) ==
  /\ pc[p] \notin Building => recipe[p] = <<>> /\ tars[p] = <<>>
  /\ pc[p] \in CommitSteps =>
       at[p] = Len(recipe[p]) + 1 /\ Len(image[p]) <= Len(tars[p])
  /\ pc[p] \in StepSteps \ {"steps"} => Kind[Step(p)] # "meta"
  /\ pc[p] \in {"truncate tmp", "fill tmp"} => Kind[Step(p)] = "copy"
  /\ pc[p] = "discard" => Kind[Step(p)] # "copy"

OrderOf(p) == Laid(recipe[p], at[p], tars[p]) /\ Placed(p) /\ Phase(p)

OrderInv == \A p \in Procs : OrderOf(p)

\* The key of a step starts with the keys of the steps before it.
LEMMA Prefix ==
  ASSUME NEW S, NEW r \in Seq(S), NEW n \in 1 .. Len(r)
  PROVE  /\ SubSeq(r, 1, n) \in Seq(S)
         /\ Len(SubSeq(r, 1, n)) = n
         /\ Last(SubSeq(r, 1, n)) = r[n]
<1>1. \A i \in 1 .. n : r[i] \in S
  BY ElementOfSeq
<1>2. /\ SubSeq(r, 1, n) \in Seq(S)
      /\ Len(SubSeq(r, 1, n)) = n
      /\ \A i \in 1 .. n : SubSeq(r, 1, n)[i] = r[i]
  BY <1>1, SubSeqProperties
<1> QED BY <1>2 DEF Last

LEMMA LaidNothing ==
  ASSUME NEW r \in Seq(Steps)
  PROVE  Laid(r, 1, <<>>)
<1>1. Len(<<>>) = 0 /\ Len(r) \in Nat
  OBVIOUS
<1> QED BY <1>1 DEF Laid

LEMMA LaidNoLayer ==
  ASSUME NEW r \in Seq(Steps), NEW n \in 1 .. Len(r), NEW t \in Seq(Archives),
         Laid(r, n, t), Kind[r[n]] = "meta"
  PROVE  Laid(r, n + 1, t)
<1>1. n + 1 \in 1 .. Len(r) + 1 /\ Len(r) \in Nat
  OBVIOUS
<1>2. \A m \in 1 .. (n + 1) - 1 : m = n \/ m \in 1 .. n - 1
  OBVIOUS
<1>3. \A m \in 1 .. n - 1 : m \in 1 .. (n + 1) - 1
  OBVIOUS
<1> QED BY <1>1, <1>2, <1>3 DEF Laid

LEMMA LaidOneMore ==
  ASSUME NEW r \in Seq(Steps), NEW n \in 1 .. Len(r), NEW t \in Seq(Archives),
         Laid(r, n, t), NEW a \in Archives, a.key = SubSeq(r, 1, n), HasLayer(a.key)
  PROVE  Laid(r, n + 1, Append(t, a))
<1> DEFINE u == Append(t, a)
<1>1. /\ Len(u) = Len(t) + 1 /\ Len(t) \in Nat
      /\ \A i \in 1 .. Len(t) : u[i] = t[i]
      /\ u[Len(t) + 1] = a
  BY AppendProperties
<1>2. Number(a) = n
  BY Prefix DEF Number
<1>3. n + 1 \in 1 .. Len(r) + 1 /\ n \in Nat
  OBVIOUS
<1> HIDE DEF u
<1>4. \A i \in 1 .. Len(u) :
        \/ i \in 1 .. Len(t) /\ u[i] = t[i]
        \/ i = Len(t) + 1 /\ u[i] = a
  BY <1>1
<1>5. ASSUME NEW i \in 1 .. Len(u)
      PROVE  /\ Number(u[i]) \in 1 .. (n + 1) - 1
             /\ u[i].key = SubSeq(r, 1, Number(u[i]))
             /\ HasLayer(u[i].key)
  <2>1. CASE i \in 1 .. Len(t) /\ u[i] = t[i]
    BY <1>3, <2>1 DEF Laid
  <2>2. CASE u[i] = a
    <3>1. n \in 1 .. (n + 1) - 1
      BY <1>3
    <3>2. HasLayer(u[i].key)
      BY <2>2, Zenon
    <3> QED BY <1>2, <2>2, <3>1, <3>2
  <2>3. (i \in 1 .. Len(t) /\ u[i] = t[i]) \/ u[i] = a
    BY <1>4
  <2> QED BY ONLY <2>1, <2>2, <2>3
<1>6. ASSUME NEW m \in 1 .. (n + 1) - 1, Kind[r[m]] # "meta"
      PROVE  \E i \in 1 .. Len(u) : Number(u[i]) = m
  <2>1. CASE m = n
    <3>1. Len(t) + 1 \in 1 .. Len(u)
      BY <1>1
    <3> QED BY <1>1, <1>2, <2>1, <3>1
  <2>2. CASE m # n
    <3>1. m \in 1 .. n - 1
      BY <2>2, <1>3
    <3>2. PICK i \in 1 .. Len(t) : Number(t[i]) = m
      BY <1>6, <3>1 DEF Laid
    <3>3. i \in 1 .. Len(u) /\ u[i] = t[i]
      BY <1>1
    <3> QED BY <3>2, <3>3
  <2> QED BY <2>1, <2>2
<1>7. ASSUME NEW i \in 1 .. Len(u), NEW j \in 1 .. Len(u), i < j
      PROVE  Number(u[i]) < Number(u[j])
  <2>1. i \in 1 .. Len(t) /\ u[i] = t[i]
    BY <1>1, <1>7
  <2>2. CASE j \in 1 .. Len(t) /\ u[j] = t[j]
    BY <1>7, <2>1, <2>2 DEF Laid
  <2>3. CASE u[j] = a
    <3>1. Number(t[i]) \in 1 .. n - 1
      BY <2>1 DEF Laid
    <3> QED BY <1>2, <1>3, <2>1, <2>3, <3>1
  <2> QED BY <1>4, <2>2, <2>3
<1>8. Laid(r, n + 1, u)
  BY <1>3, <1>5, <1>6, <1>7 DEF Laid
<1> QED BY <1>8 DEF u

------------------------------------------------------------------------------
\* Steps of the others, and of the store

\* A step of process p
StepOf(p) ==
  Call(p) \/ BuildStep(p) \/ Killed(p) \/ (StoreStep(p) /\ UNCHANGED buildVars)

\* What a build holds
Same(q) ==
  /\ pc'[q] = pc[q] /\ image'[q] = image[q]
  /\ recipe'[q] = recipe[q] /\ at'[q] = at[q]
  /\ got'[q] = got[q] /\ tars'[q] = tars[q]

LEMMA EndsElsewhere ==
  ASSUME TypeInv, NEW p \in Procs, EndBuild(p)
  PROVE  /\ recipe'[p] = <<>> /\ at'[p] = 1 /\ tars'[p] = <<>>
         /\ \A q \in Procs \ {p} : /\ recipe'[q] = recipe[q] /\ at'[q] = at[q]
                                   /\ got'[q] = got[q] /\ tars'[q] = tars[q]
BY DEF EndBuild, TypeInv, TypeOK

LEMMA BuildElsewhere ==
  ASSUME TypeInv, NEW p \in Procs, BuildStep(p)
  PROVE  \A q \in Procs \ {p} : Same(q)
<1> USE DEF Same, Goto, locals, buildLocals, storeVars
<1>1. CASE RunStep(p) \/ StepFails(p) \/ PutFails(p) \/ HashFails(p)
  <2>1. Leave(p) /\ EndBuild(p)
    BY <1>1 DEF RunStep, StepFails, PutFails, HashFails, Raise
  <2> QED BY <2>1, LeavesOthers, EndsElsewhere
<1>2. CASE Assemble(p)
  <2>1. EndBuild(p) /\ UNCHANGED image /\ pc' = [pc EXCEPT ![p] = "mkdir"]
    BY <1>2 DEF Assemble
  <2> QED BY <2>1, EndsElsewhere DEF TypeInv, TypeOK
<1>3. CASE MetaStep(p) \/ CacheHit(p)
  BY <1>3 DEF MetaStep, CacheHit, TypeInv, TypeOK
<1>4. CASE \/ ReadFiles(p) \/ TruncateTmp(p) \/ FillTmp(p) \/ PythonStep(p)
           \/ Discard(p) \/ Put(p) \/ StepsDone(p)
  BY <1>4 DEF ReadFiles, TruncateTmp, FillTmp, PythonStep, Discard, Put, StepsDone,
     TypeInv, TypeOK
<1>5. CASE FillCache(p)
  BY <1>5 DEF FillCache, TypeInv, TypeOK
<1>6. CASE HashLayer(p)
  BY <1>6 DEF HashLayer, TypeInv, TypeOK, StoreTypeOK
<1>7. CASE OpenBlob(p) \/ CopyBlob(p)
  BY <1>7 DEF OpenBlob, CopyBlob, TypeInv, TypeOK
<1> QED BY <1>1, <1>2, <1>3, <1>4, <1>5, <1>6, <1>7 DEF BuildStep

\* Commands that are no builds work at steps of their own.
LEMMA StoreApart ==
  ASSUME TypeInv, NEW p \in Procs, StoreCall(p) \/ StoreStep(p)
  PROVE  pc[p] \notin Building /\ pc'[p] \notin Building
<1> DEFINE Others == {"idle"} \cup IndexSteps \cup PushSteps
<1>1. Others \cap Building = {}
  BY DEF Building, StepSteps, CommitSteps, IndexSteps, PushSteps
<1>2. pc[p] \in Others
  BY DEF Goto, IndexSteps, PushSteps, StoreCall, StoreStep, CommitStep, RmiStep,
     PushStep, CallTag, CallUntag, CallPush, CallRmi, MakeDirectory, OpenConfig,
     OpenManifest, FillConfig, FillManifest, DirectoryGone, LoadTagsFails,
     RemoveFails, RmiReturns, PushFails, LoadTags, Resolve, RemoveFiles,
     RemoveDirectory, ResolveStore, RemoveNextFiles, RemoveNextDirectory,
     RemoveStore, TruncateTags, FillTags, WriteTags, GetToken, LayersPushed,
     BlobExists, PushBlob, PushConfig, PushManifest
<1>3. pc'[p] \in Others
  <2>1. CASE Leave(p)
    BY <2>1, LeavesOthers
  <2>2. CASE ~Leave(p)
    <3> USE DEF Goto, IndexSteps, PushSteps
    <3> HIDE DEF Others
    <3>1. UNCHANGED pc \/ \E w \in IndexSteps \cup PushSteps : pc' = [pc EXCEPT ![p] = w]
      <4>1. CASE StoreCall(p)
        BY <4>1 DEF StoreCall, CallTag, CallUntag, CallPush, CallRmi
      <4>2. CASE CommitStep(p)
        BY <2>2, <4>2 DEF CommitStep, MakeDirectory, OpenConfig, OpenManifest,
           FillConfig, FillManifest, DirectoryGone, LoadTagsFails, LoadTags
      <4>3. CASE RmiStep(p)
        BY <2>2, <4>3 DEF RmiStep, RemoveFails, RmiReturns, Resolve, RemoveFiles,
           RemoveDirectory, ResolveStore, RemoveNextFiles, RemoveNextDirectory,
           RemoveStore
      <4>4. CASE TruncateTags(p) \/ FillTags(p)
        BY <2>2, <4>4 DEF TruncateTags, FillTags
      <4>5. CASE PushStep(p)
        BY <2>2, <4>5 DEF PushStep, GetToken, LayersPushed, BlobExists, PushBlob,
           PushConfig, PushManifest, PushFails
      <4> QED BY <4>1, <4>2, <4>3, <4>4, <4>5 DEF StoreStep, StoreCall
    <3>2. pc \in [Procs -> Labels]
      BY DEF TypeInv, TypeOK, Labels
    <3> HIDE DEF IndexSteps, PushSteps
    <3> QED BY <1>2, <3>1, <3>2 DEF Others
  <2> QED BY <2>1, <2>2
<1> QED BY <1>1, <1>2, <1>3

LEMMA OthersStay ==
  ASSUME TypeInv, NEW p \in Procs, StepOf(p)
  PROVE  \A q \in Procs \ {p} : Same(q)
<1>1. CASE BuildStep(p)
  BY <1>1, BuildElsewhere
<1>2. CASE Killed(p)
  <2>1. Leave(p) /\ EndBuild(p)
    BY <1>2 DEF Killed, StoreKilled
  <2> QED BY <2>1, LeavesOthers, EndsElsewhere DEF Same
<1>3. CASE StoreStep(p) /\ UNCHANGED buildVars
  BY <1>3, StoreMoves DEF Same, buildVars, buildLocals
<1>4. CASE Call(p)
  <2>1. CASE StoreCall(p) /\ UNCHANGED <<files, version, buildLocals, misled>>
    BY <2>1, StoreMoves DEF Same, buildLocals
  <2>2. ASSUME NEW r, NEW t \in Tags, NEW nc \in BOOLEAN, CallBuild(p, r, t, nc)
        PROVE  \A q \in Procs \ {p} : Same(q)
    BY <2>2 DEF Same, CallBuild, Goto, TypeInv, TypeOK
  <2> QED BY <1>4, <2>1, <2>2 DEF Call
<1> QED BY <1>1, <1>2, <1>3, <1>4 DEF StepOf

LEMMA SameOrder ==
  ASSUME NEW p \in Procs, OrderOf(p), Same(p)
  PROVE  OrderOf(p)'
<1>1. Laid(recipe[p], at[p], tars[p])'
  BY DEF Same, OrderOf, Laid, HasLayer, Number
<1>2. Placed(p)'
  BY DEF Same, OrderOf, Placed
<1>3. Phase(p)'
  <2>1. /\ pc'[p] = pc[p] /\ image'[p] = image[p] /\ recipe'[p] = recipe[p]
        /\ at'[p] = at[p] /\ tars'[p] = tars[p]
    BY DEF Same
  <2>2. Phase(p)
    BY DEF OrderOf
  <2>4. pc'[p] \notin Building => recipe'[p] = <<>> /\ tars'[p] = <<>>
    BY <2>1, <2>2 DEF Phase
  <2>5. pc'[p] \in CommitSteps =>
          at'[p] = Len(recipe'[p]) + 1 /\ Len(image'[p]) <= Len(tars'[p])
    BY <2>1, <2>2 DEF Phase
  <2>6. /\ pc'[p] \in StepSteps \ {"steps"} => Kind[Step(p)]' # "meta"
        /\ pc'[p] \in {"truncate tmp", "fill tmp"} => Kind[Step(p)]' = "copy"
        /\ pc'[p] = "discard" => Kind[Step(p)]' # "copy"
    <3> DEFINE k == Kind[recipe[p][at[p]]]
    <3>1. /\ pc[p] \in StepSteps \ {"steps"} => k # "meta"
          /\ pc[p] \in {"truncate tmp", "fill tmp"} => k = "copy"
          /\ pc[p] = "discard" => k # "copy"
      BY <2>2 DEF Phase, Step
    <3>2. Kind[Step(p)]' = k
      BY <2>1 DEF Step
    <3> HIDE DEF k
    <3> QED BY <2>1, <3>1, <3>2
  <2> QED BY <2>4, <2>5, <2>6 DEF Phase
<1> QED BY <1>1, <1>2, <1>3 DEF OrderOf

------------------------------------------------------------------------------
\* A build keeps its layers in order

\* A process that builds nothing has nothing laid.
LEMMA OrderAway ==
  ASSUME NEW p \in Procs, pc'[p] \notin Building,
         recipe'[p] = <<>>, at'[p] = 1, tars'[p] = <<>>
  PROVE  OrderOf(p)'
<1>1. Laid(<<>>, 1, <<>>)
  BY LaidNothing, EmptySeq
<1>2. Laid(recipe[p], at[p], tars[p])'
  BY <1>1 DEF Laid, HasLayer, Number
<1>3. Placed(p)'
  BY DEF Placed
<1>4. Phase(p)'
  BY DEF Phase, Building, StepSteps, CommitSteps
<1> QED BY <1>2, <1>3, <1>4 DEF OrderOf

\* At another step of the build, with what is laid already
LEMMA OrderGoesOn ==
  ASSUME NEW p \in Procs, OrderOf(p), pc'[p] \in StepSteps,
         recipe'[p] = recipe[p], at'[p] = at[p], tars'[p] = tars[p],
         pc'[p] # "steps" => Kind[Step(p)] # "meta",
         pc'[p] \in {"truncate tmp", "fill tmp"} => Kind[Step(p)] = "copy",
         pc'[p] = "discard" => Kind[Step(p)] # "copy"
  PROVE  OrderOf(p)'
<1>1. Laid(recipe[p], at[p], tars[p])'
  BY DEF OrderOf, Laid, HasLayer, Number
<1>2. Placed(p)'
  BY DEF OrderOf, Placed
<1>3. Phase(p)'
  <2> DEFINE k == Kind[recipe[p][at[p]]]
  <2>1. /\ pc'[p] # "steps" => k # "meta"
        /\ pc'[p] \in {"truncate tmp", "fill tmp"} => k = "copy"
        /\ pc'[p] = "discard" => k # "copy"
    BY DEF Step
  <2>2. Kind[Step(p)]' = k
    BY DEF Step
  <2>3. pc'[p] \in Building /\ pc'[p] \notin CommitSteps
    BY DEF Building, StepSteps, CommitSteps
  <2> HIDE DEF k
  <2>4. /\ pc'[p] \in StepSteps \ {"steps"} => Kind[Step(p)]' # "meta"
        /\ pc'[p] \in {"truncate tmp", "fill tmp"} => Kind[Step(p)]' = "copy"
        /\ pc'[p] = "discard" => Kind[Step(p)]' # "copy"
    BY <2>1, <2>2
  <2> QED BY <2>3, <2>4 DEF Phase
<1> QED BY <1>1, <1>2, <1>3 DEF OrderOf

\* At the next step of the recipe
LEMMA OrderNext ==
  ASSUME TypeInv, NEW p \in Procs, OrderOf(p), pc'[p] = "steps",
         at[p] <= Len(recipe[p]), recipe'[p] = recipe[p], at'[p] = at[p] + 1,
         \/ Kind[Step(p)] = "meta" /\ tars'[p] = tars[p]
         \/ /\ Kind[Step(p)] # "meta"
            /\ \E a \in Archives :
                 /\ a.key = Key(p) /\ a.in \in {"tmp", "cache", p}
                 /\ tars'[p] = Append(tars[p], a)
  PROVE  OrderOf(p)'
<1> DEFINE r == recipe[p]
<1>1. r \in Seq(Steps) /\ tars[p] \in Seq(Archives)
  BY RecipesAreSequences, EmptySeq DEF TypeInv, TypeOK
<1>2. Laid(r, at[p], tars[p]) /\ at[p] \in 1 .. Len(r)
  BY DEF OrderOf, Laid
<1>3. Laid(r, at[p] + 1, tars'[p]) /\ Placed(p)'
  <2>1. CASE Kind[Step(p)] = "meta" /\ tars'[p] = tars[p]
    <3>1. Laid(r, at[p] + 1, tars[p])
      BY <1>1, <1>2, <2>1, LaidNoLayer DEF Step
    <3> QED BY <2>1, <3>1 DEF OrderOf, Placed
  <2>2. ASSUME NEW a \in Archives, Kind[Step(p)] # "meta", a.key = Key(p),
               a.in \in {"tmp", "cache", p}, tars'[p] = Append(tars[p], a)
        PROVE  Laid(r, at[p] + 1, tars'[p]) /\ Placed(p)'
    <3>1. HasLayer(a.key) /\ a.key = SubSeq(r, 1, at[p])
      BY <1>1, <1>2, <2>2, Prefix DEF Key, HasLayer, Step
    <3>2. Laid(r, at[p] + 1, Append(tars[p], a))
      <4> HIDE DEF r
      <4> QED BY <1>1, <1>2, <3>1, LaidOneMore
    <3>3. Placed(p)'
      <4>1. \A i \in 1 .. Len(tars'[p]) : tars'[p][i] = a \/
              (i \in 1 .. Len(tars[p]) /\ tars'[p][i] = tars[p][i])
        BY <1>1, <2>2, AppendProperties
      <4> QED BY <2>2, <4>1 DEF OrderOf, Placed
    <3> QED BY <2>2, <3>2, <3>3
  <2> QED BY <2>1, <2>2
<1>4. Laid(recipe[p], at[p], tars[p])'
  BY <1>3 DEF Laid, HasLayer, Number
<1>5. Phase(p)'
  BY DEF Phase, Building, StepSteps, CommitSteps
<1> QED BY <1>3, <1>4, <1>5 DEF OrderOf

\* At a step of the commit
LEMMA OrderCommits ==
  ASSUME NEW p \in Procs, OrderOf(p), pc'[p] \in CommitSteps,
         recipe'[p] = recipe[p], at'[p] = at[p], tars'[p] = tars[p],
         at[p] = Len(recipe[p]) + 1, Len(image'[p]) <= Len(tars[p])
  PROVE  OrderOf(p)'
<1>1. Laid(recipe[p], at[p], tars[p])'
  BY DEF OrderOf, Laid, HasLayer, Number
<1>2. Placed(p)'
  BY DEF OrderOf, Placed
<1>3. Phase(p)'
  BY DEF Phase, Building, StepSteps, CommitSteps
<1> QED BY <1>1, <1>2, <1>3 DEF OrderOf

LEMMA MadeInPlace ==
  ASSUME NEW p \in Procs
  PROVE  /\ Made(p).key = Key(p) /\ Made(p).in \in {"tmp", "cache", p}
         /\ Cached(p).key = Key(p) /\ Cached(p).in = "cache"
         /\ Kind[Step(p)] = "copy" => Made(p).in = "tmp"
         /\ Kind[Step(p)] # "copy" => Made(p).in = p
BY DEF Made, Cached

LEMMA LayerOfStep ==
  ASSUME TypeInv, NEW p \in Procs, OrderOf(p), at[p] <= Len(recipe[p])
  PROVE  /\ at[p] \in 1 .. Len(recipe[p])
         /\ Len(Key(p)) = at[p] /\ Last(Key(p)) = Step(p)
         /\ HasLayer(Key(p)) <=> Kind[Step(p)] # "meta"
<1>1. recipe[p] \in Seq(Steps)
  BY RecipesAreSequences, EmptySeq DEF TypeInv, TypeOK
<1>2. at[p] \in 1 .. Len(recipe[p])
  BY <1>1 DEF OrderOf, Laid
<1>3. Len(Key(p)) = at[p] /\ Last(Key(p)) = Step(p)
  BY <1>1, <1>2, Prefix DEF Key, Step
<1> QED BY <1>2, <1>3 DEF HasLayer

LEMMA BuildOrder ==
  ASSUME TypeInv, NEW p \in Procs, OrderOf(p), BuildStep(p)
  PROVE  OrderOf(p)'
<1> USE DEF Goto, locals, buildLocals, storeVars
<1>1. CASE RunStep(p) \/ StepFails(p) \/ PutFails(p) \/ HashFails(p)
  <2>1. Leave(p) /\ EndBuild(p)
    BY <1>1 DEF RunStep, StepFails, PutFails, HashFails, Raise
  <2>2. pc'[p] \notin Building
    BY <2>1, LeavesOthers DEF Building, StepSteps, CommitSteps
  <2> QED BY <2>1, <2>2, EndsElsewhere, OrderAway
<1>2. CASE Assemble(p)
  <2>1. EndBuild(p) /\ pc' = [pc EXCEPT ![p] = "mkdir"]
    BY <1>2 DEF Assemble
  <2>2. pc'[p] \notin Building
    BY <2>1 DEF Building, StepSteps, CommitSteps, TypeInv, TypeOK
  <2> QED BY <2>1, <2>2, EndsElsewhere, OrderAway
<1>3. CASE MetaStep(p)
  <2>1. /\ pc'[p] = "steps" /\ at[p] <= Len(recipe[p]) /\ Kind[Step(p)] = "meta"
        /\ recipe'[p] = recipe[p] /\ at'[p] = at[p] + 1 /\ tars'[p] = tars[p]
    BY <1>3 DEF MetaStep, AtStep, TypeInv, TypeOK
  <2> QED BY <2>1, OrderNext
<1>4. CASE CacheHit(p)
  <2>1. /\ pc'[p] = "steps" /\ at[p] <= Len(recipe[p]) /\ HasLayer(Key(p))
        /\ recipe'[p] = recipe[p] /\ at'[p] = at[p] + 1
        /\ tars'[p] = Append(tars[p], Cached(p))
    BY <1>4 DEF CacheHit, AtStep, TypeInv, TypeOK
  <2>2. Kind[Step(p)] # "meta"
    BY <2>1, LayerOfStep
  <2>3. Cached(p) \in Archives
    BY <1>4, KeyIsKey DEF CacheHit, AtStep, StepSteps
  <2> QED BY <2>1, <2>2, <2>3, OrderNext, MadeInPlace
<1>5. CASE FillCache(p)
  <2>1. /\ pc'[p] = "steps" /\ at[p] <= Len(recipe[p]) /\ Kind[Step(p)] # "meta"
        /\ recipe'[p] = recipe[p] /\ at'[p] = at[p] + 1
        /\ tars'[p] = Append(tars[p], Made(p))
    BY <1>5 DEF FillCache, TypeInv, TypeOK, LocalInv, OrderOf, Phase, StepSteps
  <2>2. Made(p) \in Archives
    BY <1>5, <2>1, KeyIsKey DEF FillCache, StepSteps
  <2> QED BY <2>1, <2>2, OrderNext, MadeInPlace
<1>6. CASE \/ ReadFiles(p) \/ TruncateTmp(p) \/ FillTmp(p) \/ PythonStep(p)
           \/ Discard(p) \/ Put(p)
  <2>1. recipe'[p] = recipe[p] /\ at'[p] = at[p] /\ tars'[p] = tars[p]
    BY <1>6 DEF ReadFiles, TruncateTmp, FillTmp, PythonStep, Discard, Put
  <2>2. CASE ReadFiles(p) \/ TruncateTmp(p)
    <3>1. Kind[Step(p)] = "copy" /\ pc'[p] \in {"truncate tmp", "fill tmp"}
      BY <2>2 DEF ReadFiles, TruncateTmp, OrderOf, Phase, TypeInv, TypeOK
    <3> QED BY <2>1, <3>1, OrderGoesOn DEF StepSteps
  <2>3. CASE FillTmp(p) \/ Discard(p) \/ Put(p)
    <3>1. Kind[Step(p)] # "meta" /\ pc'[p] \in {"put", "fill cache"}
      BY <2>3 DEF FillTmp, Discard, Put, OrderOf, Phase, TypeInv, TypeOK, StepSteps
    <3> QED BY <2>1, <3>1, OrderGoesOn DEF StepSteps
  <2>4. CASE PythonStep(p)
    <3>1. Kind[Step(p)] = "python" /\ pc'[p] = "discard"
      BY <2>4 DEF PythonStep, TypeInv, TypeOK
    <3> QED BY <2>1, <3>1, OrderGoesOn DEF StepSteps
  <2> QED BY <1>6, <2>2, <2>3, <2>4
<1>7. CASE StepsDone(p)
  <2>1. /\ pc'[p] = "hash" /\ at[p] > Len(recipe[p]) /\ image'[p] = <<>>
        /\ recipe'[p] = recipe[p] /\ at'[p] = at[p] /\ tars'[p] = tars[p]
    BY <1>7 DEF StepsDone, TypeInv, TypeOK, LocalInv, StepSteps
  <2>2. /\ recipe[p] \in Seq(Steps) /\ tars[p] \in Seq(Archives)
    BY RecipesAreSequences, EmptySeq DEF TypeInv, TypeOK
  <2>3. at[p] = Len(recipe[p]) + 1
    BY <2>1, <2>2 DEF OrderOf, Laid
  <2>4. Len(image'[p]) <= Len(tars[p])
    BY <2>1, <2>2
  <2> QED BY <2>1, <2>3, <2>4, OrderCommits DEF CommitSteps
<1>8. CASE HashLayer(p) \/ OpenBlob(p) \/ CopyBlob(p)
  <2>1. /\ recipe'[p] = recipe[p] /\ at'[p] = at[p] /\ tars'[p] = tars[p]
        /\ pc'[p] \in CommitSteps /\ pc[p] \in CommitSteps
    BY <1>8 DEF HashLayer, AtLayer, OpenBlob, CopyBlob, TypeInv, TypeOK, CommitSteps
  <2>2. at[p] = Len(recipe[p]) + 1 /\ Len(image[p]) <= Len(tars[p])
    BY <2>1 DEF OrderOf, Phase
  <2>3. CASE HashLayer(p)
    <3>1. PICK b \in Blobs : image' = [image EXCEPT ![p] = Append(@, b)]
      BY <2>3 DEF HashLayer
    <3>2. image[p] \in Seq(Blobs) /\ image'[p] = Append(image[p], b)
      BY <3>1, ImageIsSeq DEF TypeInv, TypeOK, StoreTypeOK
    <3>3. tars[p] \in Seq(Archives) /\ Len(image[p]) < Len(tars[p])
      BY <2>3 DEF HashLayer, AtLayer, TypeInv, TypeOK
    <3>4. Len(image'[p]) = Len(image[p]) + 1
      BY <3>2, AppendProperties
    <3>5. Len(image'[p]) <= Len(tars[p])
      BY <3>2, <3>3, <3>4
    <3> QED BY <2>1, <2>2, <3>5, OrderCommits
  <2>4. CASE OpenBlob(p) \/ CopyBlob(p)
    <3>1. image'[p] = image[p]
      BY <2>4 DEF OpenBlob, CopyBlob
    <3> QED BY <2>1, <2>2, <3>1, OrderCommits
  <2> QED BY <1>8, <2>3, <2>4
<1> QED
  BY <1>1, <1>2, <1>3, <1>4, <1>5, <1>6, <1>7, <1>8 DEF BuildStep

LEMMA OwnOrder ==
  ASSUME TypeInv, NEW p \in Procs, OrderOf(p), StepOf(p)
  PROVE  OrderOf(p)'
<1>1. CASE BuildStep(p)
  BY <1>1, BuildOrder
<1>2. CASE Killed(p)
  <2>1. Leave(p) /\ EndBuild(p)
    BY <1>2 DEF Killed, StoreKilled
  <2>2. pc'[p] \notin Building
    BY <2>1, LeavesOthers DEF Building, StepSteps, CommitSteps
  <2> QED BY <2>1, <2>2, EndsElsewhere, OrderAway
<1>3. CASE (StoreCall(p) \/ StoreStep(p)) /\ UNCHANGED buildLocals
  <2>1. pc[p] \notin Building /\ pc'[p] \notin Building
    BY <1>3, StoreApart
  <2>2. recipe[p] = <<>> /\ tars[p] = <<>> /\ at[p] \in 1 .. Len(<<>>) + 1
    BY <2>1 DEF OrderOf, Phase, Laid
  <2>3. at[p] = 1
    BY <2>2
  <2> QED BY <1>3, <2>1, <2>2, <2>3, OrderAway DEF buildLocals
<1>4. ASSUME NEW r \in workload.recipes, NEW t \in Tags, NEW nc \in BOOLEAN,
             CallBuild(p, r, t, nc)
      PROVE  OrderOf(p)'
  <2>1. /\ pc[p] = "idle" /\ pc'[p] = "steps" /\ recipe'[p] = r
        /\ at'[p] = at[p] /\ tars'[p] = tars[p]
    BY <1>4 DEF CallBuild, Goto, TypeInv, TypeOK
  <2>2. recipe[p] = <<>> /\ tars[p] = <<>> /\ at[p] \in 1 .. Len(<<>>) + 1
    BY <2>1 DEF OrderOf, Phase, Laid, Building, StepSteps, CommitSteps
  <2>3. r \in Seq(Steps)
    BY WorkloadsAreBounds, RecipesAreSequences DEF TypeInv, TypeOK
  <2>4. at'[p] = 1 /\ tars'[p] = <<>>
    BY <2>1, <2>2
  <2>5. Laid(r, 1, <<>>)
    BY <2>3, LaidNothing
  <2>6. Laid(recipe[p], at[p], tars[p])'
    BY <2>1, <2>4, <2>5 DEF Laid, HasLayer, Number
  <2>7. Placed(p)' /\ Phase(p)'
    BY <2>1, <2>4 DEF Placed, Phase, Building, StepSteps, CommitSteps
  <2> QED BY <2>6, <2>7 DEF OrderOf
<1> QED BY <1>1, <1>2, <1>3, <1>4 DEF StepOf, Call, buildVars

LEMMA NextIsSteps ==
  ASSUME [Next]_vars
  PROVE  \/ \E p \in Procs : StepOf(p)
         \/ \E d \in Dirs, s \in Steps : Edit(d, s)
         \/ UNCHANGED vars
BY DEF Next, StepOf

LEMMA OrderInvariant == Spec => []OrderInv
<1>1. Init => OrderInv
  <2> SUFFICES ASSUME Init, NEW p \in Procs
               PROVE  OrderOf(p)
    BY DEF OrderInv
  <2>1. pc[p] = "idle" /\ recipe[p] = <<>> /\ at[p] = 1 /\ tars[p] = <<>>
    BY DEF Init
  <2>2. Laid(<<>>, 1, <<>>)
    BY LaidNothing, EmptySeq
  <2>3. Placed(p) /\ Phase(p)
    BY <2>1 DEF Placed, Phase, Building, StepSteps, CommitSteps
  <2> QED BY <2>1, <2>2, <2>3 DEF OrderOf
<1>2. TypeInv /\ OrderInv /\ [Next]_vars => OrderInv'
  <2> SUFFICES ASSUME TypeInv, OrderInv, [Next]_vars, NEW q \in Procs
               PROVE  OrderOf(q)'
    BY DEF OrderInv
  <2>1. OrderOf(q)
    BY DEF OrderInv
  <2>2. ASSUME NEW p \in Procs, StepOf(p)
        PROVE  OrderOf(q)'
    <3>1. CASE p = q
      BY <2>1, <2>2, <3>1, OwnOrder
    <3>2. CASE p # q
      BY <2>1, <2>2, <3>2, OthersStay, SameOrder
    <3> QED BY <3>1, <3>2
  <2>3. ASSUME NEW d \in Dirs, NEW s \in Steps, Edit(d, s)
        PROVE  OrderOf(q)'
    <3>1. Same(q)
      BY <2>3 DEF Edit, Same, storeVars, locals, buildLocals
    <3> QED BY <2>1, <3>1, SameOrder
  <2>4. CASE UNCHANGED vars
    <3>1. Same(q)
      BY <2>4 DEF vars, Same, storeVars, locals, buildVars, buildLocals
    <3> QED BY <2>1, <3>1, SameOrder
  <2> QED BY <2>2, <2>3, <2>4, NextIsSteps
<1> QED BY <1>1, <1>2, TypeInvariant, PTL DEF Spec

------------------------------------------------------------------------------
\* An archive is made for the key of its file

Holds(a, b) ==
  b \in {None, Torn} \/ (b \in 1 .. Len(packed) /\ packed[b].key = a.key)

FileInv ==
  /\ \A a \in Archives : Holds(a, archive[a])
  /\ \A d \in Dirs, s \in Steps : Kind[s] # "copy" => version[d][s] = 1

\* What was packed stays so.
Longer == \A b \in 1 .. Len(packed) : b \in 1 .. Len(packed') /\ packed'[b] = packed[b]

\* Archive x gets content v, which belongs there.
Gets(x, v) ==
  /\ archive' = [archive EXCEPT ![x] = v]
  /\ v \in {None, Torn} \/ (v \in 1 .. Len(packed') /\ packed'[v].key = x.key)

\* What a step of p does to files: those of its own containers it may drop,
\* and others that count on a file it writes to are misled.
Touches(p) ==
  \/ \A a \in Archives : archive'[a] = archive[a] \/ (a.in = p /\ archive'[a] = None)
  \/ \E x \in Archives, v \in Blobs \cup {None, Torn} :
       /\ Gets(x, v)
       /\ x.in = p \/ (x.in \in {"tmp", "cache"} /\ Users(x) \ {p} \subseteq misled')

LEMMA PackedOnce ==
  ASSUME TypeInv, NEW e \in [key : Keys, from : Dirs, version : Nat],
         packed' = Append(packed, e)
  PROVE  /\ Longer
         /\ Len(packed') \in 1 .. Len(packed')
         /\ packed'[Len(packed')] = e
<1> DEFINE Entries == [key : Keys, from : Dirs, version : Nat]
<1>1. packed \in Seq(Entries) /\ e \in Entries
  BY DEF TypeInv, TypeOK
<1> HIDE DEF Entries
<1>2. /\ Len(packed') = Len(packed) + 1 /\ Len(packed) \in Nat
      /\ \A i \in 1 .. Len(packed) : packed'[i] = packed[i]
      /\ packed'[Len(packed) + 1] = e
  BY <1>1, AppendProperties
<1> QED BY <1>2 DEF Longer

\* The entry that a step of a build adds
LEMMA NewEntry ==
  ASSUME TypeInv, NEW p \in Procs, pc[p] \in StepSteps, at[p] <= Len(recipe[p]),
         NEW v \in Nat, New(p, v)
  PROVE  /\ Longer
         /\ Len(packed') \in 1 .. Len(packed')
         /\ packed'[Len(packed')] = [key |-> Key(p), from |-> cwd[p], version |-> v]
         /\ Len(packed') \in Blobs
<1>1. [key |-> Key(p), from |-> cwd[p], version |-> v]
        \in [key : Keys, from : Dirs, version : Nat]
  BY KeyIsKey DEF TypeInv, TypeOK
<1>2. packed' = Append(packed, [key |-> Key(p), from |-> cwd[p], version |-> v])
  BY DEF New
<1>3. Len(packed) + 1 \in Blobs
  BY DEF New
<1> HIDE DEF Key
<1> QED BY <1>1, <1>2, <1>3, PackedOnce, Packed

LEMMA EndTouches ==
  ASSUME TypeInv, NEW p \in Procs, EndBuild(p), UNCHANGED <<packed, version>>
  PROVE  Touches(p) /\ Longer /\ misled \ {p} \subseteq misled'
BY DEF EndBuild, Touches, Longer, TypeInv, TypeOK

\* Archives in tmp/ and in the cache, with all who count on them
LEMMA SharedTouches ==
  ASSUME NEW p \in Procs, NEW x \in Archives, x.in \in {"tmp", "cache"},
         NEW v \in Blobs \cup {None, Torn}, Gets(x, v), Mislead(p, x)
  PROVE  Touches(p) /\ misled \ {p} \subseteq misled'
<1>1. Users(x) \ {p} \subseteq misled' /\ misled \subseteq misled'
  BY DEF Mislead
<1> QED BY <1>1 DEF Touches

LEMMA QuietTouches ==
  ASSUME NEW p \in Procs, UNCHANGED files
  PROVE  Touches(p) /\ Longer
BY DEF Touches, Longer, files

LEMMA BuildTouches ==
  ASSUME TypeInv, FileInv, NEW p \in Procs, OrderOf(p), BuildStep(p)
  PROVE  Touches(p) /\ Longer /\ misled \ {p} \subseteq misled' /\ version' = version
<1> USE DEF Goto
<1>1. ASSUME pc[p] \in StepSteps, at[p] <= Len(recipe[p])
      PROVE  /\ Made(p) \in Archives /\ Cached(p) \in Archives
             /\ Holds(Made(p), archive[Made(p)])
  BY <1>1, KeyIsKey DEF FileInv
<1>2. pc[p] \in StepSteps \ {"steps"} => at[p] <= Len(recipe[p])
  BY DEF TypeInv, LocalInv
<1>3. CASE \/ RunStep(p) \/ StepFails(p) \/ PutFails(p) \/ HashFails(p)
           \/ Assemble(p)
  <2>1. EndBuild(p) /\ UNCHANGED <<packed, version>>
    BY <1>3 DEF RunStep, StepFails, PutFails, HashFails, Raise, Assemble
  <2> QED BY <2>1, EndTouches
<1>4. CASE \/ MetaStep(p) \/ ReadFiles(p) \/ StepsDone(p) \/ HashLayer(p)
           \/ OpenBlob(p) \/ CopyBlob(p) \/ CacheHit(p)
  <2>1. UNCHANGED files /\ version' = version /\ misled \subseteq misled'
    BY <1>4 DEF MetaStep, ReadFiles, StepsDone, HashLayer, OpenBlob, CopyBlob,
       CacheHit
  <2> QED BY <2>1, QuietTouches
<1>5. CASE TruncateTmp(p)
  <2>1. /\ archive' = [archive EXCEPT ![Made(p)] = Torn] /\ Mislead(p, Made(p))
        /\ UNCHANGED <<packed, version>> /\ pc[p] = "truncate tmp"
    BY <1>5 DEF TruncateTmp, Truncate
  <2>2. Made(p) \in Archives /\ Made(p).in = "tmp"
    BY <1>1, <1>2, <2>1, MadeInPlace DEF StepSteps, OrderOf, Phase
  <2>3. Gets(Made(p), Torn)
    BY <2>1 DEF Gets
  <2> QED BY <2>1, <2>2, <2>3, SharedTouches DEF Longer
<1>6. CASE FillTmp(p)
  <2>1. /\ New(p, got[p]) /\ Write(p, Made(p), Len(packed')) /\ version' = version
        /\ pc[p] = "fill tmp"
    BY <1>6 DEF FillTmp
  <2>2. Made(p) \in Archives /\ Made(p).in = "tmp" /\ at[p] <= Len(recipe[p])
    BY <1>1, <1>2, <2>1, MadeInPlace DEF StepSteps, OrderOf, Phase
  <2>3. got[p] \in Nat /\ pc[p] \in StepSteps
    BY <2>1 DEF TypeInv, TypeOK, StepSteps
  <2>4. /\ Longer /\ Len(packed') \in 1 .. Len(packed') /\ Len(packed') \in Blobs
        /\ packed'[Len(packed')] = [key |-> Key(p), from |-> cwd[p], version |-> got[p]]
    BY <2>1, <2>2, <2>3, NewEntry
  <2>5. Gets(Made(p), Len(packed')) \/ Gets(Made(p), Torn)
    <3>1. packed'[Len(packed')].key = Made(p).key
      BY <2>4, MadeInPlace
    <3>2. \/ archive' = [archive EXCEPT ![Made(p)] = Len(packed')]
          \/ archive' = [archive EXCEPT ![Made(p)] = Torn]
      BY <2>1 DEF Write
    <3> QED BY <2>4, <3>1, <3>2 DEF Gets
  <2>6. Mislead(p, Made(p))
    BY <2>1 DEF Write
  <2> QED BY <2>1, <2>2, <2>4, <2>5, <2>6, SharedTouches
<1>7. CASE PythonStep(p)
  <2>1. /\ New(p, 1) /\ archive' = [archive EXCEPT ![Made(p)] = Len(packed')]
        /\ UNCHANGED <<version, misled>> /\ pc[p] = "steps"
        /\ at[p] <= Len(recipe[p]) /\ Kind[Step(p)] # "copy"
    BY <1>7 DEF PythonStep, Misses, AtStep
  <2>2. pc[p] \in StepSteps
    BY <2>1 DEF StepSteps
  <2>3. Made(p) \in Archives /\ Made(p).in = p
    BY <1>1, <2>1, <2>2, MadeInPlace
  <2>4. /\ Longer /\ Len(packed') \in 1 .. Len(packed') /\ Len(packed') \in Blobs
        /\ packed'[Len(packed')] = [key |-> Key(p), from |-> cwd[p], version |-> 1]
    BY <2>1, <2>2, NewEntry
  <2>5. Gets(Made(p), Len(packed'))
    BY <2>1, <2>4, MadeInPlace DEF Gets
  <2> QED BY <2>1, <2>3, <2>4, <2>5 DEF Touches
<1>8. CASE Discard(p)
  <2>1. /\ UNCHANGED <<packed, version, misled>> /\ pc[p] = "discard"
        /\ archive' = [archive EXCEPT ![Made(p)] = None]
    BY <1>8 DEF Discard
  <2>2. Made(p) \in Archives /\ Made(p).in = p
    BY <1>1, <1>2, <2>1, MadeInPlace DEF StepSteps, OrderOf, Phase
  <2>3. Gets(Made(p), None)
    BY <2>1 DEF Gets
  <2> QED BY <2>1, <2>2, <2>3 DEF Touches, Longer
<1>9. CASE Put(p)
  <2>1. /\ archive' = [archive EXCEPT ![Cached(p)] = Torn] /\ Mislead(p, Cached(p))
        /\ UNCHANGED <<packed, version>> /\ pc[p] = "put"
    BY <1>9 DEF Put, Truncate
  <2>2. Cached(p) \in Archives /\ Cached(p).in = "cache"
    BY <1>1, <1>2, <2>1, MadeInPlace DEF StepSteps
  <2>3. Gets(Cached(p), Torn)
    BY <2>1 DEF Gets
  <2> QED BY <2>1, <2>2, <2>3, SharedTouches DEF Longer
<1>10. CASE FillCache(p)
  <2>1. /\ Write(p, Cached(p), archive[Made(p)]) /\ UNCHANGED <<packed, version>>
        /\ pc[p] = "fill cache"
    BY <1>10 DEF FillCache
  <2>2. /\ Cached(p) \in Archives /\ Cached(p).in = "cache" /\ Made(p) \in Archives
        /\ Holds(Made(p), archive[Made(p)])
    BY <1>1, <1>2, <2>1, MadeInPlace DEF StepSteps
  <2>3. archive[Made(p)] \in Blobs \cup {None, Torn}
    BY <2>2 DEF TypeInv, TypeOK
  <2>5. Gets(Cached(p), archive[Made(p)]) \/ Gets(Cached(p), Torn)
    <3> DEFINE b == archive[Made(p)]
    <3>1. b \in {None, Torn} \/ (b \in 1 .. Len(packed) /\ packed[b].key = Key(p))
      BY <2>2, MadeInPlace DEF Holds
    <3>2. \/ archive' = [archive EXCEPT ![Cached(p)] = b]
          \/ archive' = [archive EXCEPT ![Cached(p)] = Torn]
      BY <2>1 DEF Write
    <3>3. packed' = packed /\ Cached(p).key = Key(p)
      BY <2>1, MadeInPlace
    <3> HIDE DEF b
    <3>4. CASE archive' = [archive EXCEPT ![Cached(p)] = Torn]
      BY <3>4 DEF Gets
    <3>5. CASE archive' = [archive EXCEPT ![Cached(p)] = b]
      <4>1. Gets(Cached(p), b)
        BY <3>1, <3>3, <3>5 DEF Gets, Cached
      <4> QED BY <4>1 DEF b
    <3> QED BY <3>2, <3>4, <3>5
  <2>6. Mislead(p, Cached(p))
    BY <2>1 DEF Write
  <2>7. Longer
    BY <2>1 DEF Longer
  <2> QED BY <2>1, <2>2, <2>3, <2>5, <2>6, <2>7, SharedTouches
<1> QED
  BY <1>3, <1>4, <1>5, <1>6, <1>7, <1>8, <1>9, <1>10 DEF BuildStep

LEMMA StepTouches ==
  ASSUME TypeInv, FileInv, NEW p \in Procs, OrderOf(p), StepOf(p)
  PROVE  Touches(p) /\ Longer /\ misled \ {p} \subseteq misled' /\ version' = version
<1>1. CASE BuildStep(p)
  BY <1>1, BuildTouches
<1>2. CASE Killed(p)
  <2>1. EndBuild(p) /\ UNCHANGED <<packed, version>>
    BY <1>2 DEF Killed
  <2> QED BY <2>1, EndTouches
<1>3. CASE Call(p) \/ (StoreStep(p) /\ UNCHANGED buildVars)
  <2>1. UNCHANGED files /\ version' = version /\ misled' = misled
    BY <1>3 DEF Call, CallBuild, buildVars
  <2> QED BY <2>1, QuietTouches
<1> QED BY <1>1, <1>2, <1>3 DEF StepOf

LEMMA StepFiles ==
  ASSUME TypeInv, FileInv, NEW p \in Procs, Touches(p), Longer, version' = version
  PROVE  FileInv'
<1>1. ASSUME NEW a \in Archives
      PROVE  Holds(a, archive[a])'
  <2>1. archive'[a] = archive[a] => Holds(a, archive[a])'
    BY DEF FileInv, Holds, Longer
  <2>2. archive'[a] = None => Holds(a, archive[a])'
    BY DEF Holds
  <2>3. ASSUME NEW x \in Archives, NEW v \in Blobs \cup {None, Torn}, Gets(x, v)
        PROVE  Holds(a, archive[a])'
    <3>1. archive'[a] = archive[a] \/ (a = x /\ archive'[a] = v)
      BY <2>3 DEF Gets, TypeInv, TypeOK
    <3>2. a = x /\ archive'[a] = v => Holds(a, archive[a])'
      BY <2>3 DEF Gets, Holds
    <3> QED BY <2>1, <3>1, <3>2
  <2> QED BY <2>1, <2>2, <2>3 DEF Touches
<1> QED BY <1>1 DEF FileInv

LEMMA FileInvariant == Spec => []FileInv
<1>1. Init => FileInv
  BY DEF Init, FileInv, Holds
<1>2. TypeInv /\ OrderInv /\ FileInv /\ [Next]_vars => FileInv'
  <2> SUFFICES ASSUME TypeInv, OrderInv, FileInv, [Next]_vars
               PROVE  FileInv'
    OBVIOUS
  <2>1. ASSUME NEW p \in Procs, StepOf(p)
        PROVE  FileInv'
    BY <2>1, StepTouches, StepFiles DEF OrderInv
  <2>2. ASSUME NEW d \in Dirs, NEW s \in Steps, Edit(d, s)
        PROVE  FileInv'
    <3>1. /\ UNCHANGED files /\ Kind[s] = "copy"
          /\ version' = [version EXCEPT ![d][s] = @ + 1]
      BY <2>2 DEF Edit
    <3>2. \A e \in Dirs, t \in Steps : Kind[t] # "copy" => version'[e][t] = 1
      BY <3>1 DEF FileInv, TypeInv, TypeOK
    <3> QED BY <3>1, <3>2 DEF FileInv, Holds, files
  <2>3. CASE UNCHANGED vars
    BY <2>3 DEF vars, buildVars, files, FileInv, Holds
  <2> QED BY <2>1, <2>2, <2>3, NextIsSteps
<1> QED BY <1>1, <1>2, TypeInvariant, OrderInvariant, PTL DEF Spec

------------------------------------------------------------------------------
\* Layers that are up to date

\* No process changes its directory.
LEMMA Stays ==
  ASSUME NEW p \in Procs, StepOf(p)
  PROVE  cwd' = cwd
<1>1. CASE Call(p)
  BY <1>1 DEF Call
<1>2. CASE BuildStep(p)
  BY <1>2 DEF BuildStep, MetaStep, CacheHit, ReadFiles, TruncateTmp, FillTmp,
     RunStep, PythonStep, Discard, StepFails, Put, PutFails, FillCache, StepsDone,
     HashLayer, HashFails, OpenBlob, CopyBlob, Assemble, Raise, usage
<1>3. CASE Killed(p) \/ (StoreStep(p) /\ UNCHANGED buildVars)
  BY <1>3 DEF Killed, buildVars, usage
<1> QED BY <1>1, <1>2, <1>3 DEF StepOf

\* Blob b is the layer with that key, made from the files in d as they are.
Right(b, key, d) ==
  /\ b \in 1 .. Len(packed)
  /\ packed[b] = [key |-> key, from |-> d, version |-> version[d][Last(key)]]

Fresh(a, d) == Right(archive[a], a.key, d)

\* What an undisturbed build can count on
Counts(p) ==
  /\ \A a \in Elements(tars[p]) : Fresh(a, cwd[p])
  /\ \A i \in 1 .. Len(image[p]) : Right(image[p][i], tars[p][i].key, cwd[p])
  /\ pc[p] \in {"truncate tmp", "fill tmp"} => got[p] = Files(p)
  /\ pc[p] = "fill tmp" => archive[Made(p)] = Torn
  /\ pc[p] \in {"discard", "fill cache"} => Fresh(Made(p), cwd[p])
  /\ pc[p] = "put" => archive[Made(p)] = None \/ Fresh(Made(p), cwd[p])

FreshOf(p) == p \notin misled /\ pc[p] \in Building => Counts(p)

FreshInv == \A p \in Procs : FreshOf(p)

\* The archives a build still uses
Uses(p, a) ==
  \/ a \in Elements(tars[p])
  \/ pc[p] \in {"fill tmp", "discard", "put", "fill cache"} /\ a = Made(p)

\* No other process changes them unnoticed.
LEMMA OthersSpare ==
  ASSUME TypeInv, FileInv, NEW p \in Procs, NEW q \in Procs \ {p},
         OrderOf(p), OrderOf(q), StepOf(q), p \notin misled',
         NEW a \in Archives, Uses(p, a)
  PROVE  archive'[a] = archive[a]
<1>1. a.in \in {"tmp", "cache", p} /\ a.in # q
  <2>1. a.in \in {"tmp", "cache", p}
    BY MadeInPlace DEF Uses, OrderOf, Placed, Elements
  <2> QED BY <2>1, FilesAreTold
<1>2. a.in \in {"tmp", "cache"} => p \in Users(a)
  <2>1. CASE a \in Elements(tars[p])
    BY <2>1 DEF Users
  <2>2. CASE pc[p] \in {"fill tmp", "put", "fill cache"} /\ a = Made(p)
    BY <2>2 DEF Users
  <2>3. CASE pc[p] = "discard" /\ a = Made(p)
    <3>1. a.in = p
      BY <2>3, MadeInPlace DEF OrderOf, Phase
    <3> QED BY <3>1, FilesAreTold
  <2> QED BY <2>1, <2>2, <2>3 DEF Uses
<1>3. Touches(q)
  BY StepTouches
<1>4. ASSUME NEW x \in Archives, NEW v \in Blobs \cup {None, Torn}, Gets(x, v),
             x.in = q \/ (x.in \in {"tmp", "cache"} /\ Users(x) \ {q} \subseteq misled')
      PROVE  archive'[a] = archive[a]
  <2>1. a # x
    BY <1>1, <1>2, <1>4
  <2> QED BY <1>4, <2>1 DEF Gets, TypeInv, TypeOK
<1> QED BY <1>1, <1>3, <1>4 DEF Touches

\* The steps whose files a build has read or will read next
LEMMA StepsOfLayers ==
  ASSUME TypeInv, NEW p \in Procs, OrderOf(p)
  PROVE  /\ \A a \in Elements(tars[p]) :
              /\ a \in Archives /\ Number(a) < at[p]
              /\ Last(a.key) \in Elements(recipe[p])
         /\ \A i \in 1 .. Len(tars[p]) : tars[p][i] \in Elements(tars[p])
         /\ at[p] <= Len(recipe[p]) => Step(p) \in Elements(recipe[p])
         /\ pc[p] \in Building => Len(image[p]) <= Len(tars[p])
<1>1. recipe[p] \in Seq(Steps) /\ tars[p] \in Seq(Archives)
  BY RecipesAreSequences, EmptySeq DEF TypeInv, TypeOK
<1>2. ASSUME NEW i \in 1 .. Len(tars[p])
      PROVE  /\ tars[p][i] \in Archives /\ Number(tars[p][i]) < at[p]
             /\ Last(tars[p][i].key) \in Elements(recipe[p])
  <2>1. /\ Number(tars[p][i]) \in 1 .. at[p] - 1 /\ at[p] \in 1 .. Len(recipe[p]) + 1
        /\ tars[p][i].key = SubSeq(recipe[p], 1, Number(tars[p][i]))
    BY DEF OrderOf, Laid
  <2>2. Number(tars[p][i]) \in 1 .. Len(recipe[p]) /\ Number(tars[p][i]) < at[p]
    BY <1>1, <2>1
  <2>3. Last(tars[p][i].key) = recipe[p][Number(tars[p][i])]
    BY <1>1, <2>1, <2>2, Prefix
  <2> QED BY <1>1, <2>2, <2>3, ElementOfSeq DEF Elements
<1>3. at[p] <= Len(recipe[p]) => Step(p) \in Elements(recipe[p])
  BY LayerOfStep DEF Step, Elements
<1>4. pc[p] \in Building => Len(image[p]) <= Len(tars[p])
  <2>1. CASE pc[p] \in StepSteps
    <3>1. image[p] = <<>> /\ Len(tars[p]) \in Nat
      BY <1>1, <2>1 DEF TypeInv, LocalInv
    <3> QED BY <3>1
  <2>2. CASE pc[p] \in CommitSteps
    BY <2>2 DEF OrderOf, Phase
  <2> QED BY <2>1, <2>2 DEF Building
<1> QED BY <1>2, <1>3, <1>4 DEF Elements

\* A step that leaves a build alone, its archives and its files
LEMMA SameCounts ==
  ASSUME TypeInv, NEW p \in Procs, OrderOf(p), pc[p] \in Building, Counts(p), Same(p),
         Longer, cwd' = cwd,
         \A a \in Archives : Uses(p, a) => archive'[a] = archive[a],
         \A s \in Elements(recipe[p]) : version'[cwd[p]][s] = version[cwd[p]][s]
  PROVE  Counts(p)'
<1>1. /\ pc'[p] = pc[p] /\ image'[p] = image[p] /\ tars'[p] = tars[p]
      /\ got'[p] = got[p] /\ recipe'[p] = recipe[p] /\ at'[p] = at[p]
  BY DEF Same
<1>2. \A a \in Elements(tars'[p]) : Fresh(a, cwd[p])'
  <2>1. ASSUME NEW a \in Elements(tars[p])
        PROVE  Fresh(a, cwd[p])'
    <3>1. a \in Archives /\ version'[cwd[p]][Last(a.key)] = version[cwd[p]][Last(a.key)]
      BY StepsOfLayers
    <3>2. archive'[a] = archive[a] /\ Fresh(a, cwd[p])
      BY <3>1 DEF Uses, Counts
    <3> QED BY <3>1, <3>2 DEF Fresh, Right, Longer
  <2> QED BY <1>1, <2>1
<1>3. \A i \in 1 .. Len(image'[p]) : Right(image[p][i], tars[p][i].key, cwd[p])'
  <2>1. ASSUME NEW i \in 1 .. Len(image[p])
        PROVE  Right(image[p][i], tars[p][i].key, cwd[p])'
    <3>1. i \in 1 .. Len(tars[p])
      <4>1. Len(image[p]) \in Nat /\ Len(tars[p]) \in Nat
        BY ImageIsSeq DEF TypeInv, TypeOK
      <4> QED BY <4>1, StepsOfLayers
    <3>2. version'[cwd[p]][Last(tars[p][i].key)] = version[cwd[p]][Last(tars[p][i].key)]
      BY <3>1, StepsOfLayers
    <3>3. Right(image[p][i], tars[p][i].key, cwd[p])
      BY DEF Counts
    <3> QED BY <1>1, <3>2, <3>3 DEF Right, Longer
  <2> QED BY <1>1, <2>1
<1>4. CASE pc[p] \in {"steps"} \cup CommitSteps
  BY <1>1, <1>2, <1>3, <1>4 DEF Counts, CommitSteps
<1>5. CASE pc[p] \in StepSteps \ {"steps"}
  <2>1. at[p] <= Len(recipe[p])
    BY <1>5 DEF TypeInv, LocalInv
  <2>2. /\ Made(p) \in Archives /\ Last(Made(p).key) = Step(p)
        /\ version'[cwd[p]][Step(p)] = version[cwd[p]][Step(p)]
    BY <1>5, <2>1, KeyIsKey, MadeInPlace, LayerOfStep, StepsOfLayers
  <2>3. Step(p)' = Step(p) /\ Made(p)' = Made(p)
    BY <1>1 DEF Step, Made, Key
  <2>4. pc[p] \in {"truncate tmp", "fill tmp"} => got'[p] = Files(p)'
    BY <1>1, <2>2, <2>3 DEF Counts, Files
  <2>5. pc[p] \in {"fill tmp", "discard", "put", "fill cache"} =>
          archive'[Made(p)] = archive[Made(p)]
    BY <2>2 DEF Uses
  <2>6. ASSUME pc[p] \in {"discard", "put", "fill cache"}, Fresh(Made(p), cwd[p])
        PROVE  Fresh(Made(p), cwd[p])'
    BY <2>2, <2>3, <2>5, <2>6 DEF Fresh, Right, Longer
  <2>7. pc[p] = "fill tmp" => archive'[Made(p)'] = Torn
    BY <2>3, <2>5 DEF Counts
  <2>8. pc[p] = "put" => archive'[Made(p)'] = None \/ Fresh(Made(p), cwd[p])'
    BY <2>3, <2>5, <2>6 DEF Counts
  <2>9. pc[p] \in {"discard", "fill cache"} => Fresh(Made(p), cwd[p])'
    BY <2>6 DEF Counts
  <2> HIDE DEF Same
  <2> QED BY <1>1, <1>2, <1>3, <2>4, <2>7, <2>8, <2>9 DEF Counts
<1> QED BY <1>4, <1>5 DEF Building

LEMMA ElementsOfAppend ==
  ASSUME NEW S, NEW t \in Seq(S), NEW a \in S
  PROVE  Elements(Append(t, a)) = Elements(t) \cup {a}
<1> DEFINE u == Append(t, a)
<1>1. /\ Len(u) = Len(t) + 1 /\ Len(t) \in Nat
      /\ \A i \in 1 .. Len(t) : u[i] = t[i]
      /\ u[Len(t) + 1] = a
  BY AppendProperties
<1> HIDE DEF u
<1>2. Elements(u) \subseteq Elements(t) \cup {a}
  BY <1>1 DEF Elements
<1>3. \A i \in 1 .. Len(t) : i \in 1 .. Len(u)
  BY <1>1
<1>4. Len(t) + 1 \in 1 .. Len(u)
  BY <1>1
<1>5. Elements(t) \subseteq Elements(u) /\ a \in Elements(u)
  BY <1>1, <1>3, <1>4 DEF Elements
<1> QED BY <1>2, <1>5 DEF u

\* What a build writes for a step, no layer before it is in.
LEMMA LayersStayFresh ==
  ASSUME TypeInv, NEW p \in Procs, OrderOf(p), Counts(p), Longer, version' = version,
         cwd' = cwd,
         \A a \in Archives : archive'[a] # archive[a] => Number(a) = at[p]
  PROVE  \A a \in Elements(tars[p]) : Fresh(a, cwd[p])'
<1> SUFFICES ASSUME NEW a \in Elements(tars[p])
             PROVE  Fresh(a, cwd[p])'
  OBVIOUS
<1>1. a \in Archives /\ Number(a) < at[p] /\ at[p] \in Nat
  BY StepsOfLayers DEF TypeInv, TypeOK
<1>2. archive'[a] = archive[a]
  BY <1>1
<1>3. Fresh(a, cwd[p])
  BY DEF Counts
<1> QED BY <1>2, <1>3 DEF Fresh, Right, Longer

\* What the next step of a build has to find
LEMMA CountsOn ==
  ASSUME NEW p \in Procs, pc'[p] \in StepSteps, LocalInv',
         \A a \in Elements(tars'[p]) : Fresh(a, cwd[p])',
         pc'[p] \in {"truncate tmp", "fill tmp"} => got'[p] = Files(p)',
         pc'[p] = "fill tmp" => archive'[Made(p)'] = Torn,
         pc'[p] \in {"discard", "fill cache"} => Fresh(Made(p), cwd[p])',
         pc'[p] = "put" => archive'[Made(p)'] = None \/ Fresh(Made(p), cwd[p])'
  PROVE  Counts(p)'
<1>1. image'[p] = <<>>
  BY DEF LocalInv
<1>2. Len(image'[p]) = 0
  BY <1>1, EmptySeq
<1>3. \A i \in 1 .. Len(image'[p]) : Right(image[p][i], tars[p][i].key, cwd[p])'
  <2> SUFFICES ASSUME NEW i \in 1 .. Len(image'[p])
               PROVE  FALSE
    OBVIOUS
  <2>1. i \in 1 .. 0
    BY <1>2
  <2> QED BY ONLY <2>1
<1> QED BY <1>3 DEF Counts

LEMMA SameStep ==
  ASSUME NEW p \in Procs, recipe'[p] = recipe[p], at'[p] = at[p]
  PROVE  Step(p)' = Step(p) /\ Key(p)' = Key(p) /\ Made(p)' = Made(p)
BY DEF Step, Key, Made

LEMMA SameFiles ==
  ASSUME NEW p \in Procs, recipe'[p] = recipe[p], at'[p] = at[p], cwd' = cwd,
         version' = version
  PROVE  Files(p)' = Files(p)
BY SameStep DEF Files

\* A version of its files, packed for a step
LEMMA FreshlyMade ==
  ASSUME TypeInv, NEW p \in Procs, OrderOf(p), at[p] <= Len(recipe[p]),
         recipe'[p] = recipe[p], at'[p] = at[p], version' = version, cwd' = cwd,
         archive'[Made(p)] = Len(packed'), Len(packed') \in 1 .. Len(packed'),
         packed'[Len(packed')]
           = [key |-> Key(p), from |-> cwd[p], version |-> Files(p)]
  PROVE  Fresh(Made(p), cwd[p])'
<1>1. Made(p)' = Made(p) /\ Made(p).key = Key(p) /\ Last(Key(p)) = Step(p)
  BY SameStep, MadeInPlace, LayerOfStep
<1>2. archive'[Made(p)'] = Len(packed') /\ (Made(p)').key = Key(p)
  BY <1>1
<1>3. packed'[archive'[Made(p)']]
        = [key |-> (Made(p)').key, from |-> cwd'[p],
           version |-> version'[cwd'[p]][Last((Made(p)').key)]]
  BY <1>1, <1>2 DEF Files
<1> QED BY <1>2, <1>3 DEF Fresh, Right

LEMMA CacheFresh ==
  ASSUME TypeInv, FileInv, NEW p \in Procs, OrderOf(p), Counts(p), CacheHit(p),
         p \notin misled', LocalInv', cwd' = cwd
  PROVE  Counts(p)'
<1>1. /\ pc[p] = "steps" /\ pc' = pc /\ at[p] <= Len(recipe[p])
      /\ UNCHANGED files /\ version' = version
      /\ tars'[p] = Append(tars[p], Cached(p))
      /\ archive[Cached(p)] \in 1 .. Len(packed)
      /\ packed[archive[Cached(p)]].from = cwd[p]
      /\ packed[archive[Cached(p)]].version = version[cwd[p]][Step(p)]
  BY DEF CacheHit, Files, AtStep, TypeInv, TypeOK, storeVars
<1>2. /\ Cached(p) \in Archives /\ Cached(p).key = Key(p) /\ Last(Key(p)) = Step(p)
  BY <1>1, KeyIsKey, MadeInPlace, LayerOfStep DEF StepSteps
<1>3. Fresh(Cached(p), cwd[p])
  <2> DEFINE b == archive[Cached(p)]
  <2>1. b \in 1 .. Len(packed) /\ b \in Nat
    BY <1>1
  <2>2. packed[b].key = Key(p)
    BY <1>2, <2>1, FilesAreTold DEF FileInv, Holds
  <2>3. packed[b] \in [key : Keys, from : Dirs, version : Nat]
    BY <2>1, ElementOfSeq DEF TypeInv, TypeOK
  <2>4. packed[b]
          = [key |-> Key(p), from |-> cwd[p], version |-> version[cwd[p]][Step(p)]]
    BY <1>1, <2>2, <2>3
  <2> QED BY <1>2, <2>1, <2>4 DEF Fresh, Right
<1>4. ASSUME NEW a \in Elements(tars'[p])
      PROVE  Fresh(a, cwd[p])'
  <2>1. a \in Elements(tars[p]) \/ a = Cached(p)
    BY <1>1, <1>2, ElementsOfAppend DEF TypeInv, TypeOK
  <2>2. Fresh(a, cwd[p])
    BY <1>3, <2>1 DEF Counts
  <2> QED BY <1>1, <2>2 DEF Fresh, Right, files
<1> QED BY <1>1, <1>4, CountsOn DEF StepSteps

LEMMA FillTmpFresh ==
  ASSUME TypeInv, NEW p \in Procs, OrderOf(p), Counts(p), FillTmp(p), p \notin misled',
         LocalInv', cwd' = cwd
  PROVE  Counts(p)'
<1>1. /\ pc[p] = "fill tmp" /\ pc'[p] = "put" /\ version' = version
      /\ New(p, got[p]) /\ Write(p, Made(p), Len(packed'))
      /\ recipe' = recipe /\ at' = at /\ tars' = tars
  BY DEF FillTmp, Goto, TypeInv, TypeOK
<1>2. at[p] <= Len(recipe[p]) /\ pc[p] \in StepSteps /\ got[p] \in Nat
  BY <1>1 DEF TypeInv, TypeOK, LocalInv, StepSteps
<1>3. Made(p) \in Archives /\ Number(Made(p)) = at[p]
  BY <1>2, KeyIsKey, MadeInPlace, LayerOfStep DEF Number
<1>4. /\ Longer /\ Len(packed') \in 1 .. Len(packed')
      /\ packed'[Len(packed')] = [key |-> Key(p), from |-> cwd[p], version |-> got[p]]
  BY <1>1, <1>2, NewEntry
<1>5. got[p] = Files(p) /\ archive[Made(p)] = Torn
  BY <1>1 DEF Counts
<1>6. Writers(p, Made(p)) = {}
  <2>1. p \in Users(Made(p))
    BY <1>1 DEF Users
  <2> QED BY <1>1, <2>1 DEF Write, Mislead
<1>7. archive' = [archive EXCEPT ![Made(p)] = Len(packed')]
  BY <1>1, <1>5, <1>6 DEF Write
<1>8. /\ archive'[Made(p)] = Len(packed')
      /\ \A a \in Archives : archive'[a] # archive[a] => Number(a) = at[p]
  BY <1>3, <1>7 DEF TypeInv, TypeOK
<1>9. Fresh(Made(p), cwd[p])'
  BY <1>1, <1>2, <1>4, <1>5, <1>8, FreshlyMade
<1>10. \A a \in Elements(tars'[p]) : Fresh(a, cwd[p])'
  BY <1>1, <1>4, <1>8, LayersStayFresh
<1> QED BY <1>1, <1>9, <1>10, CountsOn DEF StepSteps

LEMMA SnapshotFresh ==
  ASSUME TypeInv, FileInv, NEW p \in Procs, OrderOf(p), Counts(p),
         PythonStep(p), LocalInv', cwd' = cwd
  PROVE  Counts(p)'
<1>1. /\ pc[p] = "steps" /\ pc'[p] = "discard" /\ version' = version /\ New(p, 1)
      /\ archive' = [archive EXCEPT ![Made(p)] = Len(packed')]
      /\ recipe' = recipe /\ at' = at /\ tars' = tars
      /\ at[p] <= Len(recipe[p]) /\ Kind[Step(p)] # "copy"
  BY DEF PythonStep, Misses, AtStep, Goto, TypeInv, TypeOK, buildLocals
<1>2. pc[p] \in StepSteps
  BY <1>1 DEF StepSteps
<1>3. /\ Made(p) \in Archives /\ Number(Made(p)) = at[p] /\ Files(p) = 1
  BY <1>1, <1>2, KeyIsKey, MadeInPlace, LayerOfStep
     DEF Number, FileInv, Files, TypeInv, TypeOK
<1>4. /\ Longer /\ Len(packed') \in 1 .. Len(packed')
      /\ packed'[Len(packed')] = [key |-> Key(p), from |-> cwd[p], version |-> 1]
  BY <1>1, <1>2, NewEntry
<1>5. /\ archive'[Made(p)] = Len(packed')
      /\ \A a \in Archives : archive'[a] # archive[a] => Number(a) = at[p]
  BY <1>1, <1>3 DEF TypeInv, TypeOK
<1>6. Fresh(Made(p), cwd[p])'
  BY <1>1, <1>3, <1>4, <1>5, FreshlyMade
<1>7. \A a \in Elements(tars'[p]) : Fresh(a, cwd[p])'
  BY <1>1, <1>4, <1>5, LayersStayFresh
<1> QED BY <1>1, <1>6, <1>7, CountsOn DEF StepSteps

LEMMA FillCacheFresh ==
  ASSUME TypeInv, NEW p \in Procs, OrderOf(p), Counts(p), FillCache(p), LocalInv', cwd' = cwd
  PROVE  Counts(p)'
<1>1. /\ pc[p] = "fill cache" /\ pc'[p] = "steps" /\ version' = version
      /\ packed' = packed /\ Write(p, Cached(p), archive[Made(p)])
      /\ tars'[p] = Append(tars[p], Made(p))
  BY DEF FillCache, Goto, TypeInv, TypeOK
<1>2. at[p] <= Len(recipe[p]) /\ pc[p] \in StepSteps
  BY <1>1 DEF TypeInv, LocalInv, StepSteps
<1>3. /\ Cached(p) \in Archives /\ Made(p) \in Archives
      /\ Number(Cached(p)) = at[p] /\ Last(Made(p).key) = Step(p)
      /\ Made(p).in # "cache" /\ Cached(p).in = "cache"
  BY <1>2, KeyIsKey, MadeInPlace, LayerOfStep, FilesAreTold DEF Number
<1>4. \A a \in Archives : archive'[a] # archive[a] => a = Cached(p)
  BY <1>1, <1>3 DEF Write, TypeInv, TypeOK
<1>5. \A a \in Archives : archive'[a] # archive[a] => Number(a) = at[p]
  BY <1>3, <1>4
<1>6. Longer
  BY <1>1 DEF Longer
<1>7. \A a \in Elements(tars[p]) : Fresh(a, cwd[p])'
  BY <1>1, <1>5, <1>6, LayersStayFresh
<1>8. Fresh(Made(p), cwd[p]) /\ archive'[Made(p)] = archive[Made(p)]
  BY <1>1, <1>3, <1>4 DEF Counts
<1>9. ASSUME NEW a \in Elements(tars'[p])
      PROVE  Fresh(a, cwd[p])'
  <2>1. a \in Elements(tars[p]) \/ a = Made(p)
    <3>1. tars[p] \in Seq(Archives) /\ Made(p) \in Archives
      BY <1>3 DEF TypeInv, TypeOK
    <3>2. Elements(Append(tars[p], Made(p))) = Elements(tars[p]) \cup {Made(p)}
      BY <3>1, ElementsOfAppend
    <3> QED BY <1>1, <3>2
  <2>2. a = Made(p) => Fresh(a, cwd[p])'
    BY <1>1, <1>8 DEF Fresh, Right
  <2> QED BY <1>7, <2>1, <2>2
<1> QED BY <1>1, <1>9, CountsOn DEF StepSteps

LEMMA DiscardFresh ==
  ASSUME TypeInv, NEW p \in Procs, OrderOf(p), Counts(p), Discard(p), LocalInv', cwd' = cwd
  PROVE  Counts(p)'
<1>1. /\ pc[p] = "discard" /\ pc'[p] = "put" /\ version' = version
      /\ packed' = packed /\ recipe' = recipe /\ at' = at /\ tars' = tars
      /\ archive' = [archive EXCEPT ![Made(p)] = None]
  BY DEF Discard, Goto, TypeInv, TypeOK, buildLocals
<1>2. at[p] <= Len(recipe[p]) /\ pc[p] \in StepSteps
  BY <1>1 DEF TypeInv, LocalInv, StepSteps
<1>3. Made(p) \in Archives /\ Number(Made(p)) = at[p]
  BY <1>2, KeyIsKey, MadeInPlace, LayerOfStep DEF Number
<1>4. \A a \in Archives : archive'[a] # archive[a] => Number(a) = at[p]
  BY <1>1, <1>3 DEF TypeInv, TypeOK
<1>5. Longer
  BY <1>1 DEF Longer
<1>6. \A a \in Elements(tars'[p]) : Fresh(a, cwd[p])'
  BY <1>1, <1>4, <1>5, LayersStayFresh
<1>7. Made(p)' = Made(p)
  BY <1>1, SameStep
<1>8. archive'[Made(p)'] = None
  BY <1>1, <1>3, <1>7 DEF TypeInv, TypeOK
<1> QED BY <1>1, <1>6, <1>8, CountsOn DEF StepSteps

LEMMA PutFresh ==
  ASSUME TypeInv, NEW p \in Procs, OrderOf(p), Counts(p), Put(p), LocalInv', cwd' = cwd
  PROVE  Counts(p)'
<1>1. /\ pc[p] = "put" /\ pc'[p] = "fill cache" /\ version' = version
      /\ packed' = packed /\ recipe' = recipe /\ at' = at /\ tars' = tars
      /\ archive' = [archive EXCEPT ![Cached(p)] = Torn] /\ archive[Made(p)] # None
  BY DEF Put, Truncate, Goto, TypeInv, TypeOK, buildLocals
<1>2. at[p] <= Len(recipe[p]) /\ pc[p] \in StepSteps
  BY <1>1 DEF TypeInv, LocalInv, StepSteps
<1>3. /\ Cached(p) \in Archives /\ Made(p) \in Archives /\ Cached(p) # Made(p)
      /\ Number(Cached(p)) = at[p]
  BY <1>2, KeyIsKey, MadeInPlace, LayerOfStep, FilesAreTold DEF Number
<1>4. /\ \A a \in Archives : archive'[a] # archive[a] => Number(a) = at[p]
      /\ archive'[Made(p)] = archive[Made(p)]
  BY <1>1, <1>3 DEF TypeInv, TypeOK
<1>5. Longer
  BY <1>1 DEF Longer
<1>6. \A a \in Elements(tars'[p]) : Fresh(a, cwd[p])'
  BY <1>1, <1>4, <1>5, LayersStayFresh
<1>7. Fresh(Made(p), cwd[p]) /\ Made(p)' = Made(p)
  BY <1>1, SameStep DEF Counts
<1>8. Fresh(Made(p), cwd[p])'
  BY <1>1, <1>4, <1>7 DEF Fresh, Right
<1> QED BY <1>1, <1>6, <1>8, CountsOn DEF StepSteps

\* Steps that write no archive
LEMMA QuietFresh ==
  ASSUME TypeInv, NEW p \in Procs, OrderOf(p), Counts(p), LocalInv', cwd' = cwd,
         \/ MetaStep(p) \/ ReadFiles(p) \/ TruncateTmp(p) \/ StepsDone(p)
  PROVE  Counts(p)'
<1>1. CASE MetaStep(p) \/ ReadFiles(p) \/ TruncateTmp(p)
  <2>1. /\ packed' = packed /\ version' = version /\ tars' = tars
        /\ \/ pc'[p] = "steps" /\ archive' = archive
           \/ /\ pc'[p] = "truncate tmp" /\ archive' = archive
              /\ recipe' = recipe /\ at' = at /\ got'[p] = Files(p)
           \/ /\ pc[p] = "truncate tmp" /\ pc'[p] = "fill tmp"
              /\ archive' = [archive EXCEPT ![Made(p)] = Torn]
              /\ recipe' = recipe /\ at' = at /\ got' = got
    BY <1>1 DEF MetaStep, ReadFiles, TruncateTmp, Truncate, Misses, AtStep, Goto,
       TypeInv, TypeOK, storeVars, files, buildLocals
  <2>2. Longer
    BY <2>1 DEF Longer
  <2>3. CASE pc'[p] = "steps" /\ archive' = archive
    <3>1. \A a \in Elements(tars'[p]) : Fresh(a, cwd[p])'
      BY <2>1, <2>2, <2>3, LayersStayFresh
    <3> QED BY <2>3, <3>1, CountsOn DEF StepSteps
  <2>4. CASE /\ pc'[p] = "truncate tmp" /\ archive' = archive
             /\ recipe' = recipe /\ at' = at /\ got'[p] = Files(p)
    <3>1. \A a \in Elements(tars'[p]) : Fresh(a, cwd[p])'
      BY <2>1, <2>2, <2>4, LayersStayFresh
    <3>2. got'[p] = Files(p)'
      BY <2>1, <2>4, SameFiles
    <3> QED BY <2>4, <3>1, <3>2, CountsOn DEF StepSteps
  <2>5. CASE /\ pc[p] = "truncate tmp" /\ pc'[p] = "fill tmp"
             /\ archive' = [archive EXCEPT ![Made(p)] = Torn]
             /\ recipe' = recipe /\ at' = at /\ got' = got
    <3>1. at[p] <= Len(recipe[p]) /\ pc[p] \in StepSteps
      BY <2>5 DEF TypeInv, LocalInv, StepSteps
    <3>2. Made(p) \in Archives /\ Number(Made(p)) = at[p]
      BY <3>1, KeyIsKey, MadeInPlace, LayerOfStep DEF Number
    <3>3. /\ \A a \in Archives : archive'[a] # archive[a] => Number(a) = at[p]
          /\ archive'[Made(p)] = Torn
      BY <2>5, <3>2 DEF TypeInv, TypeOK
    <3>4. \A a \in Elements(tars'[p]) : Fresh(a, cwd[p])'
      BY <2>1, <2>2, <3>3, LayersStayFresh
    <3>5. got'[p] = Files(p)' /\ archive'[Made(p)'] = Torn
      BY <2>1, <2>5, <3>3, SameStep, SameFiles DEF Counts
    <3> QED BY <2>5, <3>4, <3>5, CountsOn DEF StepSteps
  <2> QED BY <2>1, <2>3, <2>4, <2>5
<1>2. CASE StepsDone(p)
  <2>1. /\ pc[p] = "steps" /\ pc'[p] = "hash" /\ UNCHANGED <<archive, packed, version>>
        /\ image' = image /\ tars' = tars
    BY <1>2 DEF StepsDone, Goto, TypeInv, TypeOK, locals, files, buildLocals
  <2> QED BY <2>1 DEF Counts, Fresh, Right
<1> QED BY <1>1, <1>2

\* The layers that are hashed are those that were laid.
LEMMA CommitFresh ==
  ASSUME TypeInv, NEW p \in Procs, OrderOf(p), Counts(p),
         HashLayer(p) \/ OpenBlob(p) \/ CopyBlob(p), cwd' = cwd
  PROVE  Counts(p)'
<1>1. /\ pc'[p] \in CommitSteps /\ UNCHANGED <<archive, packed, version, tars>>
  BY DEF HashLayer, AtLayer, OpenBlob, CopyBlob, Goto, TypeInv, TypeOK, CommitSteps,
     files, buildLocals
<1>2. \A a \in Elements(tars'[p]) : Fresh(a, cwd[p])'
  BY <1>1 DEF Counts, Fresh, Right
<1>3. \A i \in 1 .. Len(image'[p]) : Right(image'[p][i], tars[p][i].key, cwd[p])
  <2>1. CASE OpenBlob(p) \/ CopyBlob(p)
    <3>1. image'[p] = image[p]
      BY <2>1 DEF OpenBlob, CopyBlob, locals
    <3> QED BY <3>1 DEF Counts
  <2>2. CASE HashLayer(p)
    <3>1. PICK b \in Blobs :
            /\ b = Layer(p) \/ (b = 0 /\ Layer(p) = Torn)
            /\ image' = [image EXCEPT ![p] = Append(@, b)]
      BY <2>2 DEF HashLayer
    <3>2. image[p] \in Seq(Blobs) /\ image'[p] = Append(image[p], b)
      BY <3>1, ImageIsSeq DEF TypeInv, TypeOK, StoreTypeOK
    <3>3. /\ Len(image'[p]) = Len(image[p]) + 1 /\ Len(image[p]) \in Nat
          /\ \A i \in 1 .. Len(image[p]) : image'[p][i] = image[p][i]
          /\ image'[p][Len(image[p]) + 1] = b
      BY <3>2, AppendProperties
    <3>4. Len(image[p]) + 1 \in 1 .. Len(tars[p])
      BY <2>2, <3>3 DEF HashLayer, AtLayer, TypeInv, TypeOK
    <3>5. Fresh(tars[p][Len(image[p]) + 1], cwd[p])
      BY <3>4, StepsOfLayers DEF Counts
    <3>6. Right(Layer(p), tars[p][Len(image[p]) + 1].key, cwd[p])
      BY <3>5 DEF Fresh, Layer
    <3>7. b = Layer(p)
      <4>1. Layer(p) \in Nat
        BY <3>6 DEF Right
      <4> QED BY <3>1, <4>1, FilesAreTold
    <3>8. ASSUME NEW i \in 1 .. Len(image'[p])
          PROVE  Right(image'[p][i], tars[p][i].key, cwd[p])
      <4>1. CASE i = Len(image[p]) + 1
        BY <3>3, <3>6, <3>7, <4>1
      <4>2. CASE i # Len(image[p]) + 1
        <5>1. i \in 1 .. Len(image[p])
          BY <3>3, <4>2
        <5> QED BY <3>3, <5>1 DEF Counts
      <4> QED BY <4>1, <4>2
    <3> QED BY <3>8
  <2> QED BY <2>1, <2>2
<1>4. \A i \in 1 .. Len(image'[p]) : Right(image[p][i], tars[p][i].key, cwd[p])'
  BY <1>1, <1>3 DEF Right
<1> QED BY <1>1, <1>2, <1>4 DEF Counts, CommitSteps

LEMMA OwnFresh ==
  ASSUME TypeInv, TypeInv', FileInv, NEW p \in Procs, OrderOf(p), FreshOf(p), StepOf(p)
  PROVE  FreshOf(p)'
<1>1. LocalInv'
  BY DEF TypeInv
<1>2. CASE pc'[p] \notin Building
  BY <1>2 DEF FreshOf
<1>3. CASE BuildStep(p) /\ pc'[p] \in Building
  <2>1. ~RunStep(p) /\ ~StepFails(p) /\ ~PutFails(p) /\ ~HashFails(p) /\ ~Assemble(p)
    <3>1. ~Leave(p)
      BY <1>3, LeavesOthers DEF Building, StepSteps, CommitSteps
    <3>2. pc'[p] # "mkdir"
      BY <1>3 DEF Building, StepSteps, CommitSteps
    <3> QED
      BY <3>1, <3>2 DEF RunStep, StepFails, PutFails, HashFails, Raise, Assemble, Goto,
         TypeInv, TypeOK
  <2>2. pc[p] \in Building
    BY <1>3, <2>1 DEF BuildStep, MetaStep, CacheHit, ReadFiles, TruncateTmp, FillTmp,
       PythonStep, Discard, Put, FillCache, StepsDone, HashLayer, AtLayer,
       OpenBlob, CopyBlob, Misses, AtStep, Goto, Building, StepSteps, CommitSteps
  <2>3. misled \subseteq misled'
    BY <1>3, <2>1 DEF BuildStep, MetaStep, CacheHit, ReadFiles, TruncateTmp, Truncate,
       FillTmp, PythonStep, Discard, Put, FillCache, StepsDone,
       HashLayer, OpenBlob, CopyBlob, Write, Mislead
  <2>4. ASSUME p \notin misled'
        PROVE  Counts(p)'
    <3>1. Counts(p) /\ cwd' = cwd
      BY <2>2, <2>3, <2>4, Stays DEF FreshOf
    <3> QED
      BY <1>1, <1>3, <2>1, <2>4, <3>1, CacheFresh, FillTmpFresh, SnapshotFresh,
         FillCacheFresh, DiscardFresh, PutFresh, QuietFresh, CommitFresh
         DEF BuildStep
  <2> QED BY <2>4 DEF FreshOf
<1>4. CASE Killed(p)
  <2>1. Leave(p)
    BY <1>4 DEF Killed, StoreKilled
  <2> QED BY <1>2, <2>1, LeavesOthers DEF Building, StepSteps, CommitSteps
<1>5. CASE StoreCall(p) \/ StoreStep(p)
  BY <1>2, <1>5, StoreApart
<1>6. ASSUME NEW r, NEW t \in Tags, NEW nc \in BOOLEAN, CallBuild(p, r, t, nc)
      PROVE  FreshOf(p)'
  <2>1. pc[p] = "idle" /\ pc'[p] = "steps" /\ tars'[p] = tars[p]
    BY <1>6 DEF CallBuild, Goto, TypeInv, TypeOK
  <2>2. tars'[p] = <<>>
    BY <2>1 DEF OrderOf, Phase, Building, StepSteps, CommitSteps
  <2>3. \A a \in Elements(tars'[p]) : Fresh(a, cwd[p])'
    <3>1. Len(tars'[p]) = 0
      BY <2>2, EmptySeq
    <3> SUFFICES ASSUME NEW i \in 1 .. Len(tars'[p])
                 PROVE  FALSE
      BY DEF Elements
    <3>2. i \in 1 .. 0
      BY <3>1
    <3> QED BY ONLY <3>2
  <2> QED BY <1>1, <2>1, <2>3, CountsOn DEF StepSteps, FreshOf
<1> QED BY <1>2, <1>3, <1>4, <1>5, <1>6 DEF StepOf, Call

LEMMA OthersFresh ==
  ASSUME TypeInv, FileInv, NEW p \in Procs, NEW q \in Procs \ {p}, OrderOf(p),
         OrderOf(q), FreshOf(p), StepOf(q)
  PROVE  FreshOf(p)'
<1> SUFFICES ASSUME p \notin misled', pc'[p] \in Building
             PROVE  Counts(p)'
  BY DEF FreshOf
<1>1. Same(p)
  BY OthersStay
<1>2. Longer /\ misled \ {q} \subseteq misled' /\ version' = version /\ cwd' = cwd
  BY StepTouches, Stays
<1>3. pc[p] \in Building /\ Counts(p)
  BY <1>1, <1>2 DEF Same, FreshOf
<1>4. \A a \in Archives : Uses(p, a) => archive'[a] = archive[a]
  BY OthersSpare
<1> QED BY <1>1, <1>2, <1>3, <1>4, SameCounts

LEMMA FreshInvariant == Spec => []FreshInv
<1>1. Init => FreshInv
  BY DEF Init, FreshInv, FreshOf, Building, StepSteps, CommitSteps
<1>2. /\ TypeInv /\ TypeInv' /\ OrderInv /\ FileInv /\ FreshInv /\ [Next]_vars
      => FreshInv'
  <2> SUFFICES ASSUME TypeInv, TypeInv', OrderInv, FileInv, FreshInv, [Next]_vars,
                      NEW p \in Procs
               PROVE  FreshOf(p)'
    BY DEF FreshInv
  <2>1. FreshOf(p) /\ OrderOf(p)
    BY DEF FreshInv, OrderInv
  <2>2. ASSUME NEW q \in Procs, StepOf(q)
        PROVE  FreshOf(p)'
    <3>1. CASE q = p
      BY <2>1, <2>2, <3>1, OwnFresh
    <3>2. CASE q # p
      <4>1. OrderOf(q)
        BY DEF OrderInv
      <4> QED BY <2>1, <2>2, <3>2, <4>1, OthersFresh
    <3> QED BY <3>1, <3>2
  <2>3. ASSUME NEW d \in Dirs, NEW s \in Steps, Edit(d, s)
        PROVE  FreshOf(p)'
    <3> SUFFICES ASSUME p \notin misled', pc'[p] \in Building
                 PROVE  Counts(p)'
      BY DEF FreshOf
    <3>1. /\ Same(p) /\ UNCHANGED <<archive, packed>> /\ pc[p] \in Building
          /\ p \notin misled /\ cwd' = cwd
          /\ cwd[p] # d \/ s \notin Elements(recipe[p])
      BY <2>3 DEF Edit, Same, storeVars, locals, buildLocals, files, usage
    <3>2. Longer
      BY <3>1 DEF Longer
    <3>3. \A r \in Elements(recipe[p]) : version'[cwd[p]][r] = version[cwd[p]][r]
      BY <2>3, <3>1 DEF Edit, TypeInv, TypeOK
    <3> QED BY <2>1, <3>1, <3>2, <3>3, SameCounts DEF FreshOf
  <2>4. CASE UNCHANGED vars
    <3> SUFFICES ASSUME p \notin misled', pc'[p] \in Building
                 PROVE  Counts(p)'
      BY DEF FreshOf
    <3>1. /\ Same(p) /\ UNCHANGED <<archive, packed, version, misled, cwd>>
          /\ pc[p] \in Building
      BY <2>4 DEF vars, buildVars, Same, storeVars, locals, buildLocals, files, usage
    <3>2. Longer
      BY <3>1 DEF Longer
    <3> QED BY <2>1, <3>1, <3>2, SameCounts DEF FreshOf
  <2> QED BY <2>2, <2>3, <2>4, NextIsSteps
<1> QED
  BY <1>1, <1>2, TypeInvariant, OrderInvariant, FileInvariant, PTL DEF Spec

(* Whatever other builds, edits and kills do at the same time, an image is *)
(* made of the layers of its steps, each once and in the order of the      *)
(* boxfile, and each from the files in the directory of the build as they  *)
(* are - unless it hit an entry of the cache that is cut off, old or from  *)
(* another directory, its files were edited, or another process wrote to   *)
(* an archive it had still to read.                                        *)
THEOREM BuildsAreFresh == Spec => []FreshImage
<1>1. TypeInv /\ OrderInv /\ FreshInv => FreshImage
  <2> SUFFICES ASSUME TypeInv, OrderInv, FreshInv, NEW p \in Procs, pc[p] = "hash",
                      Len(image[p]) = Len(tars[p]), p \notin misled
               PROVE  /\ Elements(image[p]) \subseteq 1 .. Len(packed)
                      /\ {packed[b] : b \in Elements(image[p])}
                           = {[key |-> k, from |-> cwd[p],
                               version |-> version[cwd[p]][Last(k)]] :
                                k \in {k \in Parents(recipe[p]) : HasLayer(k)}}
                      /\ \A m, n \in 1 .. Len(image[p]) :
                           m < n => Len(packed[image[p][m]].key)
                                      < Len(packed[image[p][n]].key)
    BY DEF FreshImage
  <2> DEFINE r == recipe[p]
             t == tars[p]
             entry(k) == [key |-> k, from |-> cwd[p],
                          version |-> version[cwd[p]][Last(k)]]
  <2>1. pc[p] \in Building /\ pc[p] \in CommitSteps
    BY DEF Building, CommitSteps
  <2>2. Laid(r, Len(r) + 1, t) /\ Counts(p)
    BY <2>1 DEF OrderInv, OrderOf, Phase, FreshInv, FreshOf
  <2>3. r \in Seq(Steps) /\ Len(r) \in Nat /\ Len(t) \in Nat
    <3>1. r \in Seq(Steps) /\ t \in Seq(Archives)
      BY RecipesAreSequences, EmptySeq DEF TypeInv, TypeOK
    <3> QED BY <3>1, LenProperties
  <2>4. ASSUME NEW n \in 1 .. Len(image[p])
        PROVE  /\ image[p][n] \in 1 .. Len(packed)
               /\ packed[image[p][n]] = entry(t[n].key)
               /\ n \in 1 .. Len(t)
    BY <2>2 DEF Counts, Right
  <2>5. ASSUME NEW n \in 1 .. Len(t)
        PROVE  t[n].key \in {k \in Parents(r) : HasLayer(k)}
    <3> HIDE DEF r, t
    <3>1. /\ Number(t[n]) \in 1 .. (Len(r) + 1) - 1 /\ HasLayer(t[n].key)
          /\ t[n].key = SubSeq(r, 1, Number(t[n]))
      BY <2>2 DEF Laid
    <3>2. Number(t[n]) \in 1 .. Len(r)
      BY <2>3, <3>1
    <3> QED BY <3>1, <3>2 DEF Parents
  <2>6. ASSUME NEW k \in Parents(r), HasLayer(k)
        PROVE  \E n \in 1 .. Len(t) : t[n].key = k
    <3>1. PICK m \in 1 .. Len(r) : k = SubSeq(r, 1, m)
      BY DEF Parents
    <3>2. Kind[r[m]] # "meta"
      BY <2>3, <2>6, <3>1, Prefix DEF HasLayer
    <3>3. m \in 1 .. (Len(r) + 1) - 1
      BY <2>3
    <3>4. PICK n \in 1 .. Len(t) : Number(t[n]) = m
      BY <2>2, <3>2, <3>3 DEF Laid
    <3>5. t[n].key = SubSeq(r, 1, m)
      BY <2>2, <3>4 DEF Laid
    <3> QED BY <3>1, <3>5
  <2> HIDE DEF r, t, entry
  <2>7. Len(image[p]) = Len(t)
    BY DEF t
  <2>8. {packed[b] : b \in Elements(image[p])}
          = {entry(k) : k \in {k \in Parents(r) : HasLayer(k)}}
    <3>1. ASSUME NEW n \in 1 .. Len(image[p])
          PROVE  packed[image[p][n]] \in {entry(k) : k \in {k \in Parents(r) : HasLayer(k)}}
      BY <2>4, <2>5
    <3>2. ASSUME NEW k \in Parents(r), HasLayer(k)
          PROVE  \E b \in Elements(image[p]) : packed[b] = entry(k)
      <4>1. PICK n \in 1 .. Len(t) : t[n].key = k
        BY <2>6, <3>2
      <4>2. n \in 1 .. Len(image[p])
        BY <2>7
      <4>3. packed[image[p][n]] = entry(k)
        BY <2>4, <4>1, <4>2
      <4> QED BY <4>2, <4>3 DEF Elements
    <3> QED BY <3>1, <3>2 DEF Elements
  <2>9. ASSUME NEW m \in 1 .. Len(image[p]), NEW n \in 1 .. Len(image[p]), m < n
        PROVE  Len(packed[image[p][m]].key) < Len(packed[image[p][n]].key)
    <3>1. Number(t[m]) < Number(t[n])
      BY <2>2, <2>4, <2>9 DEF Laid
    <3>2. \A i \in 1 .. Len(image[p]) : packed[image[p][i]].key = t[i].key
      <4> TAKE i \in 1 .. Len(image[p])
      <4>1. packed[image[p][i]] = entry(t[i].key)
        BY <2>4
      <4> QED BY <4>1 DEF entry
    <3> QED BY <3>1, <3>2 DEF Number
  <2>10. Elements(image[p]) \subseteq 1 .. Len(packed)
    BY <2>4 DEF Elements
  <2> QED BY <2>8, <2>9, <2>10 DEF r, entry
<1> QED
  BY <1>1, TypeInvariant, OrderInvariant, FreshInvariant, PTL
===============================================================================
