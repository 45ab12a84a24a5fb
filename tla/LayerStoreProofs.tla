--------------------------- MODULE LayerStoreProofs ---------------------------
(***************************************************************************)
(* Proofs about LayerStore, for any number of processes that pull, any     *)
(* image, any number of pieces of a file and any width of a download.      *)
(***************************************************************************)
EXTENDS LayerStore, FiniteSetTheorems, TLAPS

LEMMA ConstantFacts ==
  /\ Layers = 1 .. Len(Manifest)
  /\ Len(Manifest) \in Nat
  /\ \A i \in Layers : Manifest[i] \in Digests
  /\ \A i \in Slots : Blob(i) \in Digests
  /\ Chunks \in Nat \ {0}
  /\ 1 \in Pieces
<1>1. Manifest \in Seq(Digests) /\ Config \in Digests /\ Chunks \in Nat \ {0}
  BY LayerStoreAssumption DEF LayerStoreAssumption
<1>2. Layers = 1 .. Len(Manifest) /\ Len(Manifest) \in Nat
  BY <1>1 DEF Layers
<1>3. \A i \in Layers : Manifest[i] \in Digests
  BY <1>1, <1>2
<1> QED BY <1>1, <1>2, <1>3 DEF Slots, Blob, Pieces

LEMMA TaskFacts ==
  /\ \A t \in Tasks : DigestOf(t) \in Digests /\ t[1] \in Pullers /\ t[2] \in Slots
  /\ \A p \in Pullers, i \in Slots : <<p, i>> \in Tasks
  /\ Layers \subseteq Slots
  BY ConstantFacts DEF Tasks, DigestOf, Slots

\* A file without pieces is not a file, and only a file of good pieces is genuine.
LEMMA FileFacts ==
  /\ Absent \notin File
  /\ Truncated \in File
  /\ Genuine \in File
  /\ \A f \in File : (\A k \in Pieces : f[k] = "good") => f = Genuine
<1>1. \A f \in File : DOMAIN f = Pieces
  BY DEF File
<1>2. Pieces # {}
  BY ConstantFacts
<1>3. DOMAIN Absent = {}
  BY DEF Absent
<1>4. Absent \notin File
  BY <1>1, <1>2, <1>3
<1>5. \A f \in File : (\A k \in Pieces : f[k] = "good") => f = Genuine
  BY DEF File, Genuine
<1> QED BY <1>4, <1>5 DEF File, Truncated, Genuine

\* TypeOK; a process that extracts is at a layer; only a download has a file.
TypeInv ==
  /\ TypeOK
  /\ \A p \in Pullers : pc[p] \in {"members", "member", "mark"} => layer[p] \in Layers
  /\ \A t \in Tasks : task[t].pc # "write" => task[t].link = "gone"

LEMMA AtFacts ==
  \A w \in {"off", "queued", "request", "write", "cleanup", "done", "failed"} :
    At(w) \in TaskState /\ At(w).link = "gone" /\ At(w).pc = w
  BY ConstantFacts DEF At, TaskState

\* What the two ways to set a process' tasks and the renaming of files do.
LEMMA RelinkedFacts ==
  ASSUME NEW d, NEW a \in {"tmp", "final", "gone"}, NEW b \in {"tmp", "final", "gone"},
         task \in [Tasks -> TaskState]
  PROVE  /\ Relinked(d, a, b) \in [Tasks -> TaskState]
         /\ \A t \in Tasks :
              /\ Relinked(d, a, b)[t].pc = task[t].pc
              /\ Relinked(d, a, b)[t].n = task[t].n
              /\ Relinked(d, a, b)[t].ok = task[t].ok
              /\ task[t].link = "gone" => Relinked(d, a, b)[t].link = "gone"
              /\ DigestOf(t) # d => Relinked(d, a, b)[t] = task[t]
<1> SUFFICES ASSUME NEW t \in Tasks
             PROVE  /\ Relinked(d, a, b)[t] \in TaskState
                    /\ Relinked(d, a, b)[t].pc = task[t].pc
                    /\ Relinked(d, a, b)[t].n = task[t].n
                    /\ Relinked(d, a, b)[t].ok = task[t].ok
                    /\ task[t].link = "gone" => Relinked(d, a, b)[t].link = "gone"
                    /\ DigestOf(t) # d => Relinked(d, a, b)[t] = task[t]
  BY DEF Relinked
<1>1. task[t] \in TaskState
  OBVIOUS
<1>2. CASE DigestOf(t) # d
  BY <1>1, <1>2 DEF Relinked
<1>3. CASE DigestOf(t) = d
  BY <1>1, <1>3 DEF Relinked, TaskState
<1> QED BY <1>2, <1>3

\* A task that ends by renaming or unlinking the file.
LEMMA EndedTask ==
  ASSUME NEW t \in Tasks, NEW d, NEW w \in {"done", "failed"},
         NEW a \in {"tmp", "final", "gone"}, NEW b \in {"tmp", "final", "gone"},
         task \in [Tasks -> TaskState],
         \A u \in Tasks : task[u].pc # "write" => task[u].link = "gone",
         task' = [Relinked(d, a, b) EXCEPT ![t] = At(w)]
  PROVE  /\ task' \in [Tasks -> TaskState]
         /\ \A u \in Tasks : task'[u].pc # "write" => task'[u].link = "gone"
         /\ \A u \in Tasks \ {t} : task'[u].pc = task[u].pc
         /\ \A u \in Tasks \ {t} : DigestOf(u) # d => task'[u] = task[u]
         /\ task'[t].pc = w
<1> DEFINE r == Relinked(d, a, b)
<1>1. /\ r \in [Tasks -> TaskState]
      /\ \A u \in Tasks : r[u].pc = task[u].pc
      /\ \A u \in Tasks : task[u].link = "gone" => r[u].link = "gone"
      /\ \A u \in Tasks : DigestOf(u) # d => r[u] = task[u]
  BY RelinkedFacts
<1>2. task' = [r EXCEPT ![t] = At(w)]
  OBVIOUS
<1> HIDE DEF r
<1>3. At(w) \in TaskState /\ At(w).link = "gone" /\ At(w).pc = w
  BY AtFacts
<1>4. \A u \in Tasks : task'[u] = IF u = t THEN At(w) ELSE r[u]
  BY <1>1, <1>2
<1>5. task' \in [Tasks -> TaskState]
  BY <1>1, <1>2, <1>3
<1>6. ASSUME NEW u \in Tasks
      PROVE  /\ task'[u].pc # "write" => task'[u].link = "gone"
             /\ u # t => task'[u].pc = task[u].pc
             /\ u # t /\ DigestOf(u) # d => task'[u] = task[u]
  BY <1>1, <1>3, <1>4
<1> QED BY <1>3, <1>4, <1>5, <1>6

LEMMA TypeStep == TypeInv /\ [Next]_vars => TypeInv'
<1> SUFFICES ASSUME TypeInv, [Next]_vars
             PROVE  TypeInv'
  OBVIOUS
<1> USE ConstantFacts, TaskFacts, FileFacts, AtFacts DEF TypeInv, TypeOK
<1>t. task \in [Tasks -> TaskState]
  OBVIOUS
<1>1. ASSUME NEW p \in Pullers, Hit(p)
      PROVE  TypeInv'
  BY <1>1 DEF Hit, stored
<1>2. ASSUME NEW p \in Pullers, NEW x \in [Slots -> TaskState], SetTasks(p, x),
             \A i \in Slots : x[i].link = "gone"
      PROVE  /\ task' \in [Tasks -> TaskState]
             /\ \A t \in Tasks : task'[t].pc # "write" => task'[t].link = "gone"
             /\ free' \in [Pullers -> Nat]
  <2>1. free' \in [Pullers -> Nat]
    BY <1>2, LayerStoreAssumption DEF SetTasks, LayerStoreAssumption
  <2>2. \A t \in Tasks : task'[t] = IF t[1] = p THEN x[t[2]] ELSE task[t]
    BY <1>2 DEF SetTasks
  <2>3. task' \in [Tasks -> TaskState]
    BY <1>2, <1>t, <2>2 DEF SetTasks
  <2>4. ASSUME NEW t \in Tasks, task'[t].pc # "write"
        PROVE  task'[t].link = "gone"
    <3>1. CASE t[1] = p
      BY <1>2, <2>2, <3>1
    <3>2. CASE t[1] # p
      BY <2>2, <2>4, <3>2
    <3> QED BY <3>1, <3>2
  <2> QED BY <2>1, <2>3, <2>4
<1>3. ASSUME NEW p \in Pullers, TasksOff(p)
      PROVE  /\ task' \in [Tasks -> TaskState]
             /\ \A t \in Tasks : task'[t].pc # "write" => task'[t].link = "gone"
             /\ free' \in [Pullers -> Nat]
  <2> DEFINE x == [i \in Slots |-> At("off")]
  <2>1. x \in [Slots -> TaskState] /\ \A i \in Slots : x[i].link = "gone"
    OBVIOUS
  <2>2. SetTasks(p, x)
    BY <1>3 DEF TasksOff
  <2> HIDE DEF x
  <2> QED BY <1>2, <2>1, <2>2
<1>4. ASSUME NEW p \in Pullers, Miss(p)
      PROVE  TypeInv'
  <2> DEFINE x == [i \in Slots |-> IF i = 0 THEN At("off") ELSE At("queued")]
  <2>1. x \in [Slots -> TaskState] /\ \A i \in Slots : x[i].link = "gone"
    OBVIOUS
  <2>2. SetTasks(p, x)
    BY <1>4 DEF Miss
  <2>3. /\ task' \in [Tasks -> TaskState]
        /\ \A t \in Tasks : task'[t].pc # "write" => task'[t].link = "gone"
        /\ free' \in [Pullers -> Nat]
    BY <1>2, <2>1, <2>2
  <2> QED BY <1>4, <2>3 DEF Miss, stored
<1>5. ASSUME NEW t \in Tasks, TaskStep(t)
      PROVE  TypeInv'
  <2>1. ASSUME NEW from, NEW to \in {"queued", "request", "cleanup", "done", "failed"},
               TaskGoto(t, from, to), UNCHANGED <<stored, pc, layer, member, tainted>>,
               free' \in [Pullers -> Nat]
        PROVE  TypeInv'
    BY <2>1, <1>t DEF TaskGoto, stored
  <2>2. CASE Reuse(t) \/ Request(t) \/ Refused(t) \/ Broken(t) \/ Mismatch(t) \/ RenameFails(t)
    <3>1. free' \in [Pullers -> Nat]
      <4>0. t[1] \in Pullers /\ free[t[1]] \in Nat
        BY DEF Tasks
      <4>1. CASE Request(t)
        <5>1. t[2] # 0 => free[t[1]] > 0
          BY <4>1 DEF Request, HasFreeSlot
        <5>2. free' = IF t[2] = 0 THEN free ELSE [free EXCEPT ![t[1]] = @ - 1]
          BY <4>1 DEF Request, TakesSlot
        <5> QED BY <4>0, <5>1, <5>2
      <4>2. CASE Refused(t)
        BY <4>0, <4>2 DEF Refused, ReturnsSlot
      <4>3. CASE Reuse(t) \/ Broken(t) \/ Mismatch(t) \/ RenameFails(t)
        BY <4>3 DEF Reuse, Broken, Mismatch, RenameFails
      <4> QED BY <2>2, <4>1, <4>2, <4>3
    <3> QED BY <2>1, <2>2, <3>1 DEF Reuse, Request, Refused, Broken, Mismatch, RenameFails
  <2>3. CASE Open(t)
    BY <2>3, <1>t DEF Open, TaskState
  <2>4. CASE Write(t)
    <3> DEFINE d == DigestOf(t)
               k == task[t].n + 1
    <3>1. PICK c \in {"good", "bad"} :
            /\ task' = [task EXCEPT ![t].n = k, ![t].ok = @ /\ c = "good"]
            /\ tmp' = IF task[t].link = "tmp" THEN [tmp EXCEPT ![d][k] = c] ELSE tmp
            /\ blob' = IF task[t].link = "final" THEN [blob EXCEPT ![d][k] = c] ELSE blob
      BY <2>4 DEF Write
    <3>2. k \in 0 .. Chunks /\ k \in Pieces /\ task[t].pc = "write"
      BY <2>4, <1>t DEF Write, Pieces
    <3>6. task[t] \in TaskState
      OBVIOUS
    <3>7. task'[t] = [task[t] EXCEPT !.n = k, !.ok = @ /\ c = "good"]
      BY <3>1
    <3>8. task'[t] \in TaskState /\ task'[t].pc = task[t].pc /\ task'[t].link = task[t].link
      BY <3>2, <3>6, <3>7 DEF TaskState
    <3>3. /\ task' \in [Tasks -> TaskState]
          /\ \A u \in Tasks : task'[u].pc = task[u].pc /\ task'[u].link = task[u].link
      BY <3>1, <3>8
    <3>4. ASSUME NEW f \in File \cup {Absent}
          PROVE  [f EXCEPT ![k] = c] \in File \cup {Absent}
      <4>1. CASE f \in File
        BY <4>1, <3>2 DEF File
      <4>2. CASE f = Absent
        BY <4>2, <3>2 DEF Absent
      <4> QED BY <4>1, <4>2
    <3>5. /\ tmp' \in [Digests -> File \cup {Absent}]
          /\ blob' \in [Digests -> File \cup {Absent}]
      BY <3>1, <3>4
    <3> QED BY <2>4, <3>3, <3>5 DEF Write
  <2>5. CASE Rename(t)
    <3>1. free' \in [Pullers -> Nat]
      BY <2>5 DEF Rename, ReturnsSlot
    <3> QED BY <2>5, <3>1, <1>t, EndedTask DEF Rename
  <2>6. CASE Cleanup(t)
    <3>1. free' \in [Pullers -> Nat]
      BY <2>6 DEF Cleanup, ReturnsSlot
    <3> QED BY <2>6, <3>1, <1>t, EndedTask DEF Cleanup
  <2> QED BY <1>5, <2>2, <2>3, <2>4, <2>5, <2>6 DEF TaskStep
<1>6. ASSUME NEW p \in Pullers, PullStep(p)
      PROVE  TypeInv'
  <2>1. CASE Gathered(p) \/ End(p)
    <3>1. TasksOff(p)
      BY <2>1 DEF Gathered, End
    <3> QED BY <1>3, <2>1, <3>1 DEF Gathered, End, Goto, stored
  <2>2. CASE GatherFails(p) \/ ConfigFails(p)
    <3>1. /\ pc' = [pc EXCEPT ![p] = "raised"]
          /\ UNCHANGED <<stored, layer, member, task, free, tainted>>
      BY <2>2 DEF GatherFails, ConfigFails, Goto
    <3> QED BY <3>1 DEF stored
  <2>12. CASE Skip(p)
    <3>1. layer' \in [Pullers -> 1 .. Len(Manifest) + 1]
      BY <2>12 DEF Skip
    <3> QED BY <2>12, <3>1 DEF Skip, stored
  <2>3. CASE Extract(p)
    <3>1. tainted' \in SUBSET Digests
      BY <2>3 DEF Extract, Current
    <3> QED BY <2>3, <3>1 DEF Extract, Goto, stored
  <2>13. CASE Unreadable(p)
    BY <2>13 DEF Unreadable, Goto, stored
  <2>7. CASE OpenMember(p)
    BY <2>7 DEF OpenMember, Goto, Current
  <2>8. ASSUME NextMember(p)
        PROVE  /\ member' \in [Pullers -> Pieces]
               /\ pc' \in [Pullers -> {"idle", "gather", "layers", "members", "member",
                                       "mark", "config", "returned", "raised"}]
               /\ \A q \in Pullers : pc'[q] \in {"members", "member", "mark"}
                                     => layer[q] \in Layers
    <3>1. (IF member[p] = Chunks THEN 1 ELSE member[p] + 1) \in Pieces
      BY DEF Pieces
    <3> QED BY <2>8, <3>1 DEF NextMember, Goto
  <2>11. ASSUME NextMember(p)
         PROVE  Current(p) \in Digests
    BY <2>11 DEF NextMember, Goto, Current
  <2>9. CASE FillMember(p)
    <3>1. dir' \in [Digests -> [Pieces -> {"absent", "partial", "whole"}]]
      BY <2>9 DEF FillMember
    <3> QED BY <2>8, <2>9, <3>1 DEF FillMember
  <2>10. CASE SkipMember(p)
    <3>1. tainted' \in SUBSET Digests
      BY <2>10, <2>11 DEF SkipMember
    <3> QED BY <2>8, <2>10, <3>1 DEF SkipMember, stored
  <2>4. CASE Mark(p)
    BY <2>4 DEF Mark, Goto, Current
  <2>5. CASE SaveManifest(p)
    <3> DEFINE x == [i \in Slots |-> IF i = 0 THEN At("queued") ELSE At("off")]
    <3>1. x \in [Slots -> TaskState] /\ \A i \in Slots : x[i].link = "gone"
      OBVIOUS
    <3>2. SetTasks(p, x)
      BY <2>5 DEF SaveManifest
    <3>3. /\ task' \in [Tasks -> TaskState]
          /\ \A t \in Tasks : task'[t].pc # "write" => task'[t].link = "gone"
          /\ free' \in [Pullers -> Nat]
      BY <1>2, <3>1, <3>2
    <3>4. /\ pc' = [pc EXCEPT ![p] = "config"] /\ manifest' = TRUE
          /\ layer' = [layer EXCEPT ![p] = 1]
          /\ UNCHANGED <<tmp, blob, dir, marked, config, member, tainted>>
      BY <2>5 DEF SaveManifest, Goto
    <3>5. layer' \in [Pullers -> 1 .. Len(Manifest) + 1]
      BY <3>4
    <3> QED BY <3>3, <3>4, <3>5
  <2>6. CASE SaveConfig(p)
    <3>1. TasksOff(p)
      BY <2>6 DEF SaveConfig
    <3> QED BY <1>3, <2>6, <3>1 DEF SaveConfig, Goto
  <2> QED BY <1>6, <2>1, <2>2, <2>3, <2>4, <2>5, <2>6, <2>7, <2>8, <2>9,
          <2>10, <2>12, <2>13 DEF PullStep
<1>7. ASSUME NEW p \in Pullers, Crash(p)
      PROVE  TypeInv'
  <2>1. TasksOff(p)
    BY <1>7 DEF Crash
  <2> QED BY <1>3, <1>7, <2>1 DEF Crash, stored
<1>8. CASE UNCHANGED vars
  BY <1>8 DEF vars, stored
<1>9. \A p \in Pullers, i \in Slots : <<p, i>> \in Tasks
  OBVIOUS
<1> QED BY <1>1, <1>4, <1>5, <1>6, <1>7, <1>8, <1>9 DEF Next, Step

LEMMA TypeInvariant == Spec => []TypeInv
<1>1. ASSUME Init
      PROVE  TypeInv
  <2> USE <1>1 DEF Init
  <2>1. /\ task \in [Tasks -> TaskState]
        /\ \A t \in Tasks : task[t].link = "gone"
    BY AtFacts
  <2>2. /\ layer \in [Pullers -> 1 .. Len(Manifest) + 1]
        /\ member \in [Pullers -> Pieces]
    BY ConstantFacts
  <2>3. /\ tmp \in [Digests -> File \cup {Absent}]
        /\ blob \in [Digests -> File \cup {Absent}]
        /\ dir \in [Digests -> [Pieces -> {"absent", "partial", "whole"}]]
        /\ marked = {} /\ tainted = {} /\ manifest \in BOOLEAN
    OBVIOUS
  <2>4. free \in [Pullers -> Nat]
    BY LayerStoreAssumption DEF LayerStoreAssumption
  <2> QED BY <2>1, <2>2, <2>3, <2>4 DEF TypeInv, TypeOK
<1> QED BY <1>1, TypeStep, PTL DEF Spec

(* The variables have the values TypeOK lists, for every image.            *)
THEOREM TypeCorrect == Spec => []TypeOK
<1>1. TypeInv => TypeOK
  BY DEF TypeInv
<1> QED BY <1>1, TypeInvariant, PTL

------------------------------------------------------------------------------
\* Downloads

Active(t) == task[t].pc \in {"write", "cleanup"}

\* A blob that is downloaded by one task at a time: the task writes to the file
\* that has the temporary name, which holds what the task has received.
Undisturbed(t) ==
  /\ task[t].link = "tmp"
  /\ tmp[DigestOf(t)] \in File
  /\ task[t].ok => \A k \in 1 .. task[t].n : tmp[DigestOf(t)][k] = "good"

DownloadInv ==
  /\ CachedBlobsAreVerified
  /\ \A t, u \in Tasks :
       Active(t) /\ Active(u) /\ DigestOf(t) = DigestOf(u) /\ DigestOf(t) \notin tainted
         => t = u
  /\ \A t \in Tasks : task[t].pc = "write" /\ DigestOf(t) \notin tainted => Undisturbed(t)

\* Steps that touch no file and begin no download.
LEMMA DownloadsGoOn ==
  ASSUME DownloadInv, UNCHANGED <<tmp, blob>>, tainted \subseteq tainted',
         \A t \in Tasks : Active(t)' => Active(t),
         \A t \in Tasks : task'[t].pc = "write" => task'[t] = task[t]
  PROVE  DownloadInv'
<1>1. CachedBlobsAreVerified'
  BY DEF DownloadInv, CachedBlobsAreVerified
<1>2. ASSUME NEW t \in Tasks, NEW u \in Tasks, Active(t)', Active(u)',
             DigestOf(t) = DigestOf(u), DigestOf(t) \notin tainted'
      PROVE  t = u
  BY <1>2 DEF DownloadInv
<1>3. ASSUME NEW t \in Tasks, task'[t].pc = "write", DigestOf(t) \notin tainted'
      PROVE  Undisturbed(t)'
  BY <1>3 DEF DownloadInv, Undisturbed, DigestOf, Blob
<1>4. \A t \in Tasks : DigestOf(t)' = DigestOf(t)
  BY DEF DigestOf, Blob
<1> QED BY <1>1, <1>2, <1>3, <1>4 DEF DownloadInv

LEMMA DownloadStep == TypeInv /\ DownloadInv /\ [Next]_vars => DownloadInv'
<1> SUFFICES ASSUME TypeInv, DownloadInv, [Next]_vars
             PROVE  DownloadInv'
  OBVIOUS
<1>t. /\ task \in [Tasks -> TaskState]
      /\ tmp \in [Digests -> File \cup {Absent}]
      /\ blob \in [Digests -> File \cup {Absent}]
      /\ \A t \in Tasks : task[t].pc # "write" => task[t].link = "gone"
  BY DEF TypeInv, TypeOK
<1>1. ASSUME NEW p \in Pullers, NEW x, SetTasks(p, x), UNCHANGED <<tmp, blob, tainted>>,
             \A i \in Slots : x[i].pc \in {"off", "queued"}
      PROVE  DownloadInv'
  <2>1. \A t \in Tasks : task'[t] = IF t[1] = p THEN x[t[2]] ELSE task[t]
    BY <1>1 DEF SetTasks
  <2>2. \A t \in Tasks : task'[t] = task[t] \/ task'[t].pc \in {"off", "queued"}
    BY <1>1, <2>1, TaskFacts
  <2> QED BY <1>1, <2>2, DownloadsGoOn DEF Active
<1>2. ASSUME NEW p \in Pullers, TasksOff(p), UNCHANGED <<tmp, blob, tainted>>
      PROVE  DownloadInv'
  BY <1>1, <1>2 DEF TasksOff, At
<1>3. ASSUME UNCHANGED <<tmp, blob, task>>, tainted \subseteq tainted'
      PROVE  DownloadInv'
  BY <1>3, DownloadsGoOn DEF Active
<1>4. ASSUME NEW p \in Pullers, Hit(p) \/ Miss(p) \/ Crash(p)
      PROVE  DownloadInv'
  <2>1. CASE Hit(p)
    BY <2>1, <1>3 DEF Hit, stored
  <2>2. CASE Miss(p)
    BY <2>2, <1>1 DEF Miss, stored, At
  <2>3. CASE Crash(p)
    BY <2>3, <1>2 DEF Crash, stored
  <2> QED BY <1>4, <2>1, <2>2, <2>3
<1>5. ASSUME NEW p \in Pullers, PullStep(p)
      PROVE  DownloadInv'
  <2>1. CASE Gathered(p) \/ End(p) \/ SaveConfig(p)
    BY <2>1, <1>2 DEF Gathered, End, SaveConfig, stored
  <2>2. CASE SaveManifest(p)
    BY <2>2, <1>1 DEF SaveManifest, At
  <2>3. CASE GatherFails(p) \/ ConfigFails(p) \/ Skip(p) \/ Unreadable(p)
    BY <2>3, <1>3 DEF GatherFails, ConfigFails, Skip, Unreadable, stored
  <2>4. CASE Extract(p) \/ OpenMember(p) \/ FillMember(p) \/ SkipMember(p) \/ Mark(p)
    BY <2>4, <1>3 DEF Extract, OpenMember, FillMember, SkipMember, Mark, stored
  <2> QED BY <1>5, <2>1, <2>2, <2>3, <2>4 DEF PullStep
<1>6. ASSUME NEW t \in Tasks, TaskStep(t)
      PROVE  DownloadInv'
  <2> DEFINE d == DigestOf(t)
  <2>d. d \in Digests
    BY TaskFacts
  <2>1. ASSUME NEW from, NEW to \in {"request", "done", "failed"}, TaskGoto(t, from, to),
               UNCHANGED <<tmp, blob, tainted>>
        PROVE  DownloadInv'
    BY <2>1, <1>t, DownloadsGoOn DEF TaskGoto, Active, At
  <2>2. CASE Reuse(t) \/ Request(t) \/ Refused(t)
    BY <2>1, <2>2 DEF Reuse, Request, Refused, stored
  <2>3. CASE Broken(t) \/ Mismatch(t) \/ RenameFails(t)
    <3>1. TaskGoto(t, "write", "cleanup") /\ UNCHANGED <<tmp, blob, tainted>>
      BY <2>3 DEF Broken, Mismatch, RenameFails, stored
    <3> QED BY <3>1, <1>t, DownloadsGoOn DEF TaskGoto, Active, At
  <2>4. CASE Open(t)
    <3>1. /\ task' = [task EXCEPT ![t] = [pc |-> "write", n |-> 0, ok |-> TRUE, link |-> "tmp"]]
          /\ tmp' = [tmp EXCEPT ![d] = Truncated]
          /\ tainted' = IF Downloading(d) = {} THEN tainted ELSE tainted \cup {d}
          /\ blob' = blob
      BY <2>4 DEF Open
    <3>2. tainted \subseteq tainted' /\ CachedBlobsAreVerified'
      BY <3>1 DEF DownloadInv, CachedBlobsAreVerified
    <3>3. \A u \in Tasks : u # t => task'[u] = task[u]
      BY <3>1
    <3>4. ASSUME d \notin tainted', NEW u \in Tasks, DigestOf(u) = d
          PROVE  ~Active(u)
      BY <3>1, <3>4 DEF Downloading, Active
    <3>5. ASSUME NEW u \in Tasks, NEW v \in Tasks, Active(u)', Active(v)',
                 DigestOf(u) = DigestOf(v), DigestOf(u) \notin tainted'
          PROVE  u = v
      BY <3>2, <3>3, <3>4, <3>5 DEF DownloadInv, Active
    <3>6. ASSUME NEW u \in Tasks, task'[u].pc = "write", DigestOf(u) \notin tainted'
          PROVE  Undisturbed(u)'
      <4>1. CASE u = t
        <5>1. task'[u] = [pc |-> "write", n |-> 0, ok |-> TRUE, link |-> "tmp"]
          BY <3>1, <4>1, <1>t
        <5>2. tmp'[DigestOf(u)] = Truncated
          BY <3>1, <4>1, <1>t, <2>d
        <5> QED BY <5>1, <5>2, FileFacts DEF Undisturbed, DigestOf, Blob
      <4>2. CASE u # t
        <5>1. task'[u] = task[u] /\ Active(u)
          BY <3>3, <3>6, <4>2 DEF Active
        <5>2. DigestOf(u) # d
          BY <3>4, <3>6, <5>1
        <5>3. tmp'[DigestOf(u)] = tmp[DigestOf(u)]
          BY <3>1, <5>2
        <5> QED BY <3>2, <3>6, <5>1, <5>3 DEF DownloadInv, Undisturbed, DigestOf, Blob
      <4> QED BY <4>1, <4>2
    <3> QED BY <3>2, <3>5, <3>6 DEF DownloadInv, DigestOf, Blob
  <2>5. CASE Write(t)
    <3> DEFINE k == task[t].n + 1
    <3>1. PICK c \in {"good", "bad"} :
            /\ task' = [task EXCEPT ![t].n = k, ![t].ok = @ /\ c = "good"]
            /\ tmp' = IF task[t].link = "tmp" THEN [tmp EXCEPT ![d][k] = c] ELSE tmp
            /\ blob' = IF task[t].link = "final" THEN [blob EXCEPT ![d][k] = c] ELSE blob
      BY <2>5 DEF Write
    <3>2. task[t].pc = "write" /\ k \in Pieces /\ tainted' = tainted
      BY <2>5 DEF Write
    <3>3. /\ \A u \in Tasks : task'[u].pc = task[u].pc /\ task'[u].link = task[u].link
          /\ \A u \in Tasks \ {t} : task'[u] = task[u]
          /\ task'[t].n = k
          /\ task'[t].ok = (task[t].ok /\ c = "good")
      <4>1. task[t] \in TaskState
        BY <1>t
      <4>2. task'[t] = [task[t] EXCEPT !.n = k, !.ok = @ /\ c = "good"]
        BY <3>1, <1>t
      <4> QED BY <3>1, <4>1, <4>2, <1>t DEF TaskState
    <3>4. d \notin tainted => Undisturbed(t)
      BY <3>2 DEF DownloadInv
    <3>5. CachedBlobsAreVerified'
      BY <3>1, <3>2, <3>4 DEF DownloadInv, CachedBlobsAreVerified, Undisturbed
    <3>6. ASSUME NEW u \in Tasks, NEW v \in Tasks, Active(u)', Active(v)',
                 DigestOf(u) = DigestOf(v), DigestOf(u) \notin tainted'
          PROVE  u = v
      BY <3>2, <3>3, <3>6 DEF DownloadInv, Active
    <3>7. ASSUME NEW u \in Tasks, task'[u].pc = "write", DigestOf(u) \notin tainted'
          PROVE  Undisturbed(u)'
      <4>1. CASE u = t
        <5>1. tmp' = [tmp EXCEPT ![d][k] = c] /\ tmp[d] \in File
          BY <3>1, <3>2, <3>4, <3>7, <4>1 DEF Undisturbed
        <5>2. tmp'[d] = [tmp[d] EXCEPT ![k] = c]
          BY <5>1, <1>t, <2>d
        <5>3. tmp'[d] \in File /\ tmp'[d][k] = c /\ \A j \in Pieces \ {k} : tmp'[d][j] = tmp[d][j]
          BY <5>1, <5>2, <3>2 DEF File
        <5>6. task[t].n \in Nat
          <6>1. task[t] \in TaskState
            BY <1>t
          <6> QED BY <6>1 DEF TaskState
        <5>4. 1 .. k = (1 .. task[t].n) \cup {k} /\ 1 .. k \subseteq Pieces
          BY <5>6, <3>2, ConstantFacts DEF Pieces
        <5>5. task'[t].ok => \A j \in 1 .. k : tmp'[d][j] = "good"
          BY <3>2, <3>3, <3>4, <3>7, <4>1, <5>3, <5>4 DEF Undisturbed
        <5> QED BY <3>2, <3>3, <3>4, <3>7, <4>1, <5>3, <5>5 DEF Undisturbed, DigestOf, Blob
      <4>2. CASE u # t
        <5>1. task'[u] = task[u] /\ Active(u) /\ Active(t) /\ DigestOf(u) \notin tainted
          BY <3>2, <3>3, <3>7, <4>2 DEF Active
        <5>2. DigestOf(u) # d
          BY <4>2, <5>1 DEF DownloadInv
        <5>3. tmp'[DigestOf(u)] = tmp[DigestOf(u)]
          BY <3>1, <5>2
        <5> QED BY <3>7, <5>1, <5>3 DEF DownloadInv, Undisturbed, DigestOf, Blob
      <4> QED BY <4>1, <4>2
    <3> QED BY <3>5, <3>6, <3>7 DEF DownloadInv, DigestOf, Blob
  <2>6. ASSUME \A u \in Tasks \ {t} : task'[u].pc = task[u].pc,
               \A u \in Tasks \ {t} : DigestOf(u) # d => task'[u] = task[u],
               task'[t].pc \in {"done", "failed"},
               tmp' = [tmp EXCEPT ![d] = Absent], tainted' = tainted,
               CachedBlobsAreVerified', Active(t)
        PROVE  DownloadInv'
    <3>2. \A u \in Tasks : Active(u)' => Active(u) /\ u # t
      BY <2>6 DEF Active
    <3>3. ASSUME NEW u \in Tasks, task'[u].pc = "write", DigestOf(u) \notin tainted'
          PROVE  Undisturbed(u)'
      <4>1. Active(u) /\ u # t /\ DigestOf(u) \notin tainted
        BY <2>6, <3>2, <3>3 DEF Active
      <4>2. DigestOf(u) # d
        BY <2>6, <4>1 DEF DownloadInv
      <4>3. task'[u] = task[u] /\ tmp'[DigestOf(u)] = tmp[DigestOf(u)]
        BY <2>6, <4>1, <4>2
      <4> QED BY <3>3, <4>1, <4>3 DEF DownloadInv, Undisturbed, DigestOf, Blob
    <3>4. ASSUME NEW u \in Tasks, NEW v \in Tasks, Active(u)', Active(v)',
                 DigestOf(u) = DigestOf(v), DigestOf(u) \notin tainted'
          PROVE  u = v
      BY <2>6, <3>2, <3>4 DEF DownloadInv
    <3> QED BY <2>6, <3>3, <3>4 DEF DownloadInv, DigestOf, Blob
  <2>7. CASE Rename(t)
    <3>1. /\ task[t].pc = "write" /\ task[t].n = Chunks /\ task[t].ok
          /\ blob' = [blob EXCEPT ![d] = tmp[d]]
          /\ tmp' = [tmp EXCEPT ![d] = Absent]
          /\ task' = [Relinked(d, "final", "gone") EXCEPT ![t] = At("done")]
          /\ tainted' = tainted
      BY <2>7 DEF Rename
    <3>2. d \notin tainted => tmp[d] = Genuine
      <4>1. d \notin tainted => tmp[d] \in File /\ \A k \in Pieces : tmp[d][k] = "good"
        BY <3>1 DEF DownloadInv, Undisturbed, Pieces
      <4> QED BY <4>1, FileFacts
    <3>3. CachedBlobsAreVerified'
      BY <3>1, <3>2, <1>t DEF DownloadInv, CachedBlobsAreVerified
    <3>4. /\ \A u \in Tasks \ {t} : task'[u].pc = task[u].pc
          /\ \A u \in Tasks \ {t} : DigestOf(u) # d => task'[u] = task[u]
          /\ task'[t].pc \in {"done", "failed"}
      BY <3>1, <1>t, EndedTask
    <3> QED BY <2>6, <3>1, <3>4, <3>3 DEF Active
  <2>8. CASE Cleanup(t)
    <3>1. /\ task[t].pc = "cleanup"
          /\ tmp' = [tmp EXCEPT ![d] = Absent]
          /\ task' = [Relinked(d, "gone", "final") EXCEPT ![t] = At("failed")]
          /\ tainted' = tainted /\ blob' = blob
      BY <2>8 DEF Cleanup
    <3>2. CachedBlobsAreVerified'
      BY <3>1 DEF DownloadInv, CachedBlobsAreVerified
    <3>4. /\ \A u \in Tasks \ {t} : task'[u].pc = task[u].pc
          /\ \A u \in Tasks \ {t} : DigestOf(u) # d => task'[u] = task[u]
          /\ task'[t].pc \in {"done", "failed"}
      BY <3>1, <1>t, EndedTask
    <3> QED BY <2>6, <3>1, <3>4, <3>2 DEF Active
  <2> QED BY <1>6, <2>2, <2>3, <2>4, <2>5, <2>7, <2>8 DEF TaskStep
<1>7. CASE UNCHANGED vars
  BY <1>7, <1>3 DEF vars, stored
<1>8. \A p \in Pullers, i \in Slots : <<p, i>> \in Tasks
  BY TaskFacts
<1> QED BY <1>4, <1>5, <1>6, <1>7, <1>8 DEF Next, Step

LEMMA DownloadInvariant == Spec => []DownloadInv
<1>1. Init => DownloadInv
  <2> SUFFICES ASSUME Init
               PROVE  DownloadInv
    OBVIOUS
  <2>1. \A t \in Tasks : task[t].pc = "off"
    BY DEF Init, At
  <2> QED BY <2>1 DEF Init, DownloadInv, CachedBlobsAreVerified, Active
<1> QED BY <1>1, TypeInvariant, DownloadStep, PTL DEF Spec

(* Whatever the registry sends, however many pulls run, and wherever they   *)
(* fail or are killed, a file with the final name of a blob is that blob,   *)
(* unless two tasks downloaded it at the same time.                         *)
THEOREM BlobsAlwaysVerified == Spec => []CachedBlobsAreVerified
<1>1. DownloadInv => CachedBlobsAreVerified
  BY DEF DownloadInv
<1> QED BY <1>1, DownloadInvariant, PTL

------------------------------------------------------------------------------
\* Extraction

ExtractsNow(p) == pc[p] \in {"members", "member", "mark"}

\* A layer that one pull at a time extracts is not marked yet, and the members
\* before the current one are whole.
Careful(p) ==
  /\ Current(p) \notin marked
  /\ \A k \in 1 .. member[p] - 1 : dir[Current(p)][k] = "whole"
  /\ pc[p] = "mark" => \A k \in Pieces : dir[Current(p)][k] = "whole"

ExtractInv ==
  /\ MarkedLayersAreWhole
  /\ \A p \in Pullers : pc[p] \notin {"members", "member"} => member[p] = 1
  /\ \A p, q \in Pullers :
       ExtractsNow(p) /\ ExtractsNow(q) /\ Current(p) = Current(q) /\ Current(p) \notin tainted
         => p = q
  /\ \A p \in Pullers : ExtractsNow(p) /\ Current(p) \notin tainted => Careful(p)

\* Steps that change no layer on the disk, and let pulls at most leave the
\* extraction.
LEMMA ExtractionGoesOn ==
  ASSUME ExtractInv, UNCHANGED <<dir, marked>>, tainted \subseteq tainted',
         \A p \in Pullers : ExtractsNow(p)' =>
            pc'[p] = pc[p] /\ layer'[p] = layer[p] /\ member'[p] = member[p],
         \A p \in Pullers : pc'[p] \notin {"members", "member"} => member'[p] = 1
  PROVE  ExtractInv'
<1>1. MarkedLayersAreWhole'
  BY DEF ExtractInv, MarkedLayersAreWhole
<1>2. \A p \in Pullers : ExtractsNow(p)' =>
        /\ ExtractsNow(p)
        /\ Current(p)' = Current(p)
        /\ Careful(p) => Careful(p)'
  BY DEF ExtractsNow, Current, Careful
<1> QED BY <1>1, <1>2 DEF ExtractInv

\* Steps of an extraction: they change only the layer that is extracted.
LEMMA OneExtracts ==
  ASSUME ExtractInv, NEW p \in Pullers, ExtractsNow(p), tainted \subseteq tainted',
         marked \subseteq marked', marked' \subseteq marked \cup {Current(p)},
         \A d \in Digests : d # Current(p) => dir'[d] = dir[d],
         \A q \in Pullers : q # p =>
            pc'[q] = pc[q] /\ layer'[q] = layer[q] /\ member'[q] = member[q],
         ExtractsNow(p)' => layer'[p] = layer[p],
         pc'[p] \notin {"members", "member"} => member'[p] = 1,
         ExtractsNow(p)' /\ Current(p) \notin tainted' => Careful(p)',
         Current(p) \in marked' \ tainted' =>
            \A k \in Pieces : dir'[Current(p)][k] = "whole",
         \A q \in Pullers : ExtractsNow(q) => Current(q) \in Digests,
         marked \subseteq Digests
  PROVE  ExtractInv'
<1>1. MarkedLayersAreWhole'
  BY DEF ExtractInv, MarkedLayersAreWhole
<1>2. \A q \in Pullers : ExtractsNow(q)' => ExtractsNow(q) /\ Current(q)' = Current(q)
  BY DEF ExtractsNow, Current
<1>3. ASSUME NEW q \in Pullers, q # p, ExtractsNow(q)', Current(q) \notin tainted'
      PROVE  Careful(q)'
  <2>1. /\ ExtractsNow(q) /\ Current(q)' = Current(q) /\ Current(q) \in Digests
        /\ Current(q) \notin tainted
    BY <1>2, <1>3
  <2>2. Current(q) # Current(p)
    BY <2>1, <1>3 DEF ExtractInv
  <2>3. dir'[Current(q)] = dir[Current(q)] /\ (Current(q) \in marked' => Current(q) \in marked)
    BY <2>1, <2>2
  <2>4. Careful(q)
    BY <2>1 DEF ExtractInv
  <2> QED BY <1>3, <2>1, <2>3, <2>4 DEF Careful
<1>4. \A q \in Pullers : ExtractsNow(q)' /\ Current(q)' \notin tainted' => Careful(q)'
  BY <1>2, <1>3
<1>5. \A q \in Pullers : pc'[q] \notin {"members", "member"} => member'[q] = 1
  BY DEF ExtractInv
<1>6. ASSUME NEW q \in Pullers, NEW r \in Pullers, ExtractsNow(q)', ExtractsNow(r)',
             Current(q)' = Current(r)', Current(q)' \notin tainted'
      PROVE  q = r
  BY <1>2, <1>6 DEF ExtractInv
<1> QED BY <1>1, <1>4, <1>5, <1>6 DEF ExtractInv

LEMMA ExtractStep == TypeInv /\ ExtractInv /\ [Next]_vars => ExtractInv'
<1> SUFFICES ASSUME TypeInv, ExtractInv, [Next]_vars
             PROVE  ExtractInv'
  OBVIOUS
<1>t. /\ pc \in [Pullers -> {"idle", "gather", "layers", "members", "member",
                             "mark", "config", "returned", "raised"}]
      /\ layer \in [Pullers -> 1 .. Len(Manifest) + 1]
      /\ member \in [Pullers -> Pieces]
      /\ dir \in [Digests -> [Pieces -> {"absent", "partial", "whole"}]]
      /\ marked \subseteq Digests
      /\ \A p \in Pullers : ExtractsNow(p) => Current(p) \in Digests
  BY ConstantFacts DEF TypeInv, TypeOK, ExtractsNow, Current
<1>m. \A p \in Pullers : pc[p] \notin {"members", "member"} => member[p] = 1
  BY DEF ExtractInv
\* Steps of p that change the layer on the disk in no way and that end outside
\* of the extraction.
<1>1. ASSUME NEW p \in Pullers, UNCHANGED <<dir, marked, member, tainted>>,
             \E w \in {"idle", "gather", "layers", "config", "returned", "raised"} :
               pc' = [pc EXCEPT ![p] = w],
             pc[p] \notin {"members", "member"},
             \A q \in Pullers \ {p} : layer'[q] = layer[q]
      PROVE  ExtractInv'
  <2>1. PICK w \in {"idle", "gather", "layers", "config", "returned", "raised"} :
          pc' = [pc EXCEPT ![p] = w]
    BY <1>1
  <2>2. pc'[p] = w /\ \A q \in Pullers \ {p} : pc'[q] = pc[q]
    BY <2>1, <1>t
  <2>3. \A q \in Pullers : ExtractsNow(q)' => q # p
    BY <2>2 DEF ExtractsNow
  <2>4. \A q \in Pullers : pc'[q] \notin {"members", "member"} => member'[q] = 1
    BY <1>1, <1>m, <2>2
  <2> QED BY <1>1, <2>2, <2>3, <2>4, ExtractionGoesOn
<1>2. ASSUME UNCHANGED <<dir, marked, pc, layer, member>>, tainted \subseteq tainted'
      PROVE  ExtractInv'
  BY <1>2, <1>m, ExtractionGoesOn
<1>3. ASSUME NEW p \in Pullers, Hit(p) \/ Miss(p)
      PROVE  ExtractInv'
  BY <1>3, <1>1 DEF Hit, Miss, stored
<1>4. ASSUME NEW p \in Pullers, Crash(p)
      PROVE  ExtractInv'
  <2>1. /\ pc' = [pc EXCEPT ![p] = "idle"] /\ layer' = [layer EXCEPT ![p] = 1]
        /\ member' = [member EXCEPT ![p] = 1] /\ UNCHANGED <<dir, marked, tainted>>
    BY <1>4 DEF Crash, stored
  <2>2. /\ pc'[p] = "idle" /\ member'[p] = 1
        /\ \A q \in Pullers \ {p} :
             pc'[q] = pc[q] /\ layer'[q] = layer[q] /\ member'[q] = member[q]
    BY <2>1, <1>t
  <2>3. \A q \in Pullers : ExtractsNow(q)' => q # p
    BY <2>2 DEF ExtractsNow
  <2>4. \A q \in Pullers : pc'[q] \notin {"members", "member"} => member'[q] = 1
    BY <1>m, <2>2
  <2> QED BY <2>1, <2>2, <2>3, <2>4, ExtractionGoesOn
<1>5. ASSUME NEW p \in Pullers, Extract(p)
      PROVE  ExtractInv'
  <2> DEFINE d == Current(p)
  <2>1. /\ pc[p] = "layers" /\ pc' = [pc EXCEPT ![p] = "members"]
        /\ d \notin marked
        /\ tainted' = IF Extracting(d) = {} THEN tainted ELSE tainted \cup {d}
        /\ UNCHANGED <<dir, marked, layer, member>>
    BY <1>5 DEF Extract, Goto, stored
  <2>2. /\ pc'[p] = "members" /\ member'[p] = 1
        /\ \A q \in Pullers \ {p} : pc'[q] = pc[q]
        /\ tainted \subseteq tainted'
        /\ \A q \in Pullers : Current(q)' = Current(q)
    BY <2>1, <1>m, <1>t DEF Current
  <2>3. MarkedLayersAreWhole'
    BY <2>1, <2>2 DEF ExtractInv, MarkedLayersAreWhole
  <2>4. ASSUME NEW q \in Pullers, q # p, ExtractsNow(q)', Current(q) \notin tainted'
        PROVE  ExtractsNow(q) /\ Current(q) # d /\ Careful(q)'
    <3>1. ExtractsNow(q) /\ Current(q) \notin tainted
      BY <2>2, <2>4 DEF ExtractsNow
    <3>2. Current(q) # d
      BY <2>1, <2>4, <3>1 DEF Extracting, ExtractsNow
    <3>3. Careful(q)
      BY <3>1 DEF ExtractInv
    <3> QED BY <3>1, <3>2, <3>3, <2>1, <2>2, <2>4 DEF Careful
  <2>5. Careful(p)'
    BY <2>1, <2>2 DEF Careful
  <2>6. \A q \in Pullers : ExtractsNow(q)' /\ Current(q)' \notin tainted' => Careful(q)'
    BY <2>2, <2>4, <2>5
  <2>7. \A q \in Pullers : pc'[q] \notin {"members", "member"} => member'[q] = 1
    BY <1>m, <2>1, <2>2
  <2>8. ASSUME NEW q \in Pullers, NEW r \in Pullers, ExtractsNow(q)', ExtractsNow(r)',
               Current(q)' = Current(r)', Current(q)' \notin tainted'
        PROVE  q = r
    <3>1. q # p /\ r # p => ExtractsNow(q) /\ ExtractsNow(r) /\ Current(q) \notin tainted
      BY <2>2, <2>4, <2>8
    <3>2. q # p /\ r # p => q = r
      BY <3>1, <2>2, <2>8 DEF ExtractInv
    <3> QED BY <3>2, <2>2, <2>4, <2>8
  <2> QED BY <2>3, <2>6, <2>7, <2>8 DEF ExtractInv
<1>6. ASSUME NEW p \in Pullers, OpenMember(p)
      PROVE  ExtractInv'
  <2> DEFINE d == Current(p)
  <2>1. /\ pc[p] = "members" /\ pc' = [pc EXCEPT ![p] = "member"]
        /\ dir' = [dir EXCEPT ![d][member[p]] = "partial"]
        /\ UNCHANGED <<marked, layer, member, tainted>>
    BY <1>6 DEF OpenMember, Goto
  <2>2. ExtractsNow(p) /\ d \in Digests /\ member[p] \in Pieces
    BY <2>1, <1>t DEF ExtractsNow
  <2>3. /\ \A e \in Digests : e # d => dir'[e] = dir[e]
        /\ \A k \in Pieces : k # member[p] => dir'[d][k] = dir[d][k]
    BY <2>1, <2>2, <1>t
  <2>4. pc'[p] = "member" /\ \A q \in Pullers \ {p} : pc'[q] = pc[q]
    BY <2>1, <1>t
  <2>5. d \notin tainted => Careful(p) /\ Careful(p)'
    <3>1. \A k \in 1 .. member[p] - 1 : k \in Pieces /\ k # member[p]
      BY <2>2, ConstantFacts DEF Pieces
    <3>2. Current(p)' = d
      BY <2>1 DEF Current
    <3> QED BY <2>1, <2>2, <2>3, <2>4, <3>1, <3>2 DEF ExtractInv, Careful
  <2>6. d \in marked' => d \in tainted'
    BY <2>1, <2>5 DEF Careful
  <2> HIDE DEF d
  <2> QED BY <2>1, <2>2, <2>3, <2>4, <2>5, <2>6, <1>t, OneExtracts DEF d
<1>7. ASSUME NEW p \in Pullers, NextMember(p)
      PROVE  /\ pc[p] = "member" /\ member[p] \in Pieces
             /\ pc'[p] = IF member[p] = Chunks THEN "mark" ELSE "members"
             /\ member'[p] = IF member[p] = Chunks THEN 1 ELSE member[p] + 1
             /\ \A q \in Pullers : q # p => pc'[q] = pc[q] /\ member'[q] = member[q]
             /\ ExtractsNow(p) /\ Current(p) \in Digests
  BY <1>7, <1>t DEF NextMember, Goto, ExtractsNow
<1>8. ASSUME NEW p \in Pullers, FillMember(p)
      PROVE  ExtractInv'
  <2> DEFINE d == Current(p)
  <2>1. /\ NextMember(p)
        /\ dir' = [dir EXCEPT ![d][member[p]] = "whole"]
        /\ UNCHANGED <<marked, layer, tainted>>
    BY <1>8 DEF FillMember
  <2>2. /\ pc[p] = "member" /\ member[p] \in Pieces
        /\ pc'[p] = IF member[p] = Chunks THEN "mark" ELSE "members"
        /\ member'[p] = IF member[p] = Chunks THEN 1 ELSE member[p] + 1
        /\ \A q \in Pullers : q # p => pc'[q] = pc[q] /\ member'[q] = member[q]
        /\ ExtractsNow(p) /\ d \in Digests
    BY <2>1, <1>7
  <2>3. /\ \A e \in Digests : e # d => dir'[e] = dir[e]
        /\ \A k \in Pieces : dir'[d][k] = IF k = member[p] THEN "whole" ELSE dir[d][k]
    BY <2>1, <2>2, <1>t
  <2>4. d \notin tainted => d \notin marked /\ Careful(p)'
    <3>1. SUFFICES ASSUME d \notin tainted
                   PROVE  d \notin marked /\ Careful(p)'
      OBVIOUS
    <3>2. Careful(p) /\ Current(p)' = d
      BY <2>1, <2>2, <3>1 DEF ExtractInv, Current
    <3>3. \A k \in 1 .. member[p] : k \in Pieces /\ dir'[d][k] = "whole"
      BY <2>2, <2>3, <3>2, ConstantFacts DEF Careful, Pieces
    <3>4. CASE member[p] = Chunks
      <4>1. \A k \in Pieces : dir'[d][k] = "whole"
        BY <3>3, <3>4 DEF Pieces
      <4> QED BY <2>1, <2>2, <3>2, <3>4, <4>1 DEF Careful
    <3>5. CASE member[p] # Chunks
      <4>1. member'[p] - 1 = member[p] /\ pc'[p] = "members"
        BY <2>2, <3>5 DEF Pieces
      <4> QED BY <2>1, <3>2, <3>3, <4>1 DEF Careful
    <3> QED BY <3>4, <3>5
  <2>5. d \in marked' => d \in tainted'
    BY <2>1, <2>4
  <2> HIDE DEF d
  <2> QED BY <2>1, <2>2, <2>3, <2>4, <2>5, <1>t, OneExtracts DEF d
<1>9. ASSUME NEW p \in Pullers, SkipMember(p)
      PROVE  ExtractInv'
  <2>1. /\ NextMember(p)
        /\ tainted' = tainted \cup {Current(p)}
        /\ UNCHANGED <<dir, marked, layer>>
    BY <1>9 DEF SkipMember, stored
  <2>2. /\ pc'[p] = IF member[p] = Chunks THEN "mark" ELSE "members"
        /\ member'[p] = IF member[p] = Chunks THEN 1 ELSE member[p] + 1
        /\ \A q \in Pullers : q # p => pc'[q] = pc[q] /\ member'[q] = member[q]
        /\ ExtractsNow(p) /\ Current(p) \in Digests
    BY <2>1, <1>7
  <2> QED BY <2>1, <2>2, <1>t, OneExtracts
<1>10. ASSUME NEW p \in Pullers, Mark(p)
       PROVE  ExtractInv'
  <2>1. /\ pc[p] = "mark" /\ pc' = [pc EXCEPT ![p] = "layers"]
        /\ marked' = marked \cup {Current(p)}
        /\ layer' = [layer EXCEPT ![p] = @ + 1]
        /\ UNCHANGED <<dir, member, tainted>>
    BY <1>10 DEF Mark, Goto
  <2>2. /\ ExtractsNow(p) /\ member[p] = 1 /\ pc'[p] = "layers"
        /\ \A q \in Pullers : q # p => pc'[q] = pc[q] /\ layer'[q] = layer[q]
    BY <2>1, <1>t, <1>m DEF ExtractsNow
  <2>3. ~ExtractsNow(p)'
    BY <2>2 DEF ExtractsNow
  <2>4. Current(p) \notin tainted => \A k \in Pieces : dir[Current(p)][k] = "whole"
    BY <2>1, <2>2 DEF ExtractInv, Careful
  <2> QED BY <2>1, <2>2, <2>3, <2>4, <1>t, OneExtracts
<1>11. ASSUME NEW p \in Pullers, PullStep(p)
       PROVE  ExtractInv'
  <2>1. CASE Gathered(p) \/ GatherFails(p) \/ End(p) \/ ConfigFails(p)
    <3>1. /\ UNCHANGED <<dir, marked, layer, member, tainted>>
          /\ pc[p] \notin {"members", "member"}
      BY <2>1 DEF Gathered, GatherFails, End, ConfigFails, Goto, stored
    <3>2. \E w \in {"layers", "raised", "idle"} : pc' = [pc EXCEPT ![p] = w]
      BY <2>1 DEF Gathered, GatherFails, End, ConfigFails, Goto
    <3> QED BY <3>1, <3>2, <1>1
  <2>2. CASE SaveManifest(p) \/ SaveConfig(p) \/ Unreadable(p)
    <3>1. /\ UNCHANGED <<dir, marked, member, tainted>>
          /\ pc[p] \notin {"members", "member"}
          /\ layer' = layer \/ layer' = [layer EXCEPT ![p] = 1]
      BY <2>2 DEF SaveManifest, SaveConfig, Unreadable, Goto, stored
    <3>2. \E w \in {"config", "returned", "raised"} : pc' = [pc EXCEPT ![p] = w]
      BY <2>2 DEF SaveManifest, SaveConfig, Unreadable, Goto
    <3>3. \A q \in Pullers \ {p} : layer'[q] = layer[q]
      BY <3>1, <1>t
    <3> QED BY <3>1, <3>2, <3>3, <1>1
  <2>3. CASE Skip(p)
    <3>1. /\ pc[p] = "layers" /\ layer' = [layer EXCEPT ![p] = @ + 1]
          /\ UNCHANGED <<dir, marked, member, tainted, pc>>
      BY <2>3 DEF Skip, stored
    <3>2. pc' = [pc EXCEPT ![p] = "layers"]
      BY <3>1, <1>t
    <3>3. \A q \in Pullers \ {p} : layer'[q] = layer[q]
      BY <3>1, <1>t
    <3> QED BY <3>1, <3>2, <3>3, <1>1
  <2> QED BY <1>5, <1>6, <1>8, <1>9, <1>10, <1>11, <2>1, <2>2, <2>3 DEF PullStep
<1>12. ASSUME NEW t \in Tasks, TaskStep(t)
       PROVE  ExtractInv'
  <2>1. UNCHANGED <<dir, marked, pc, layer, member>> /\ tainted \subseteq tainted'
    BY <1>12 DEF TaskStep, Reuse, Request, Refused, Open, Write, Broken, Mismatch,
                 RenameFails, Rename, Cleanup, stored
  <2> QED BY <2>1, <1>2
<1>13. CASE UNCHANGED vars
  BY <1>13, <1>2 DEF vars, stored
<1>14. \A p \in Pullers, i \in Slots : <<p, i>> \in Tasks
  BY TaskFacts
<1> QED BY <1>3, <1>4, <1>11, <1>12, <1>13, <1>14 DEF Next, Step

LEMMA ExtractInvariant == Spec => []ExtractInv
<1>1. Init => ExtractInv
  <2> SUFFICES ASSUME Init
               PROVE  ExtractInv
    OBVIOUS
  <2>1. \A p \in Pullers : pc[p] = "idle" /\ member[p] = 1
    BY DEF Init
  <2> QED BY <2>1 DEF Init, ExtractInv, MarkedLayersAreWhole, ExtractsNow
<1> QED BY <1>1, TypeInvariant, ExtractStep, PTL DEF Spec

(* For every image and any number of pulls, killed and continued wherever   *)
(* they were: a layer that is marked as extracted has all its members, if   *)
(* no two pulls extracted it at the same time and no member was skipped.    *)
THEOREM MarkedLayersStayWhole == Spec => []MarkedLayersAreWhole
<1>1. ExtractInv => MarkedLayersAreWhole
  BY DEF ExtractInv
<1> QED BY <1>1, ExtractInvariant, PTL

------------------------------------------------------------------------------
\* The manifest, and what no step changes

InLayers(p) == pc[p] \in {"layers", "members", "member", "mark"}

\* The layers that a pull has passed are marked.
ManifestInv ==
  /\ ManifestComesLast
  /\ \A p \in Pullers : pc[p] = "config" => IsCached
  /\ \A p \in Pullers : IF InLayers(p) THEN \A i \in 1 .. layer[p] - 1 : Manifest[i] \in marked
                                       ELSE layer[p] = 1

LEMMA ManifestStep == TypeInv /\ ManifestInv /\ [Next]_vars => ManifestInv'
<1> SUFFICES ASSUME TypeInv, ManifestInv, [Next]_vars
             PROVE  ManifestInv'
  OBVIOUS
<1>t. /\ pc \in [Pullers -> {"idle", "gather", "layers", "members", "member",
                             "mark", "config", "returned", "raised"}]
      /\ layer \in [Pullers -> 1 .. Len(Manifest) + 1]
  BY DEF TypeInv, TypeOK
\* A step of p alone.
<1>1. ASSUME NEW p \in Pullers, marked \subseteq marked', manifest' = manifest,
             \A q \in Pullers : q # p => pc'[q] = pc[q] /\ layer'[q] = layer[q],
             pc'[p] \in {"returned", "config"} => IsCached,
             InLayers(p)' => \A i \in 1 .. layer'[p] - 1 : Manifest[i] \in marked',
             ~InLayers(p)' => layer'[p] = 1
      PROVE  ManifestInv'
  <2>1. IsCached => IsCached'
    BY <1>1 DEF IsCached, Layers
  <2>2. ManifestComesLast'
    BY <1>1, <2>1 DEF ManifestInv, ManifestComesLast
  <2>3. \A q \in Pullers : pc'[q] = "config" => IsCached'
    BY <1>1, <2>1 DEF ManifestInv
  <2>4. ASSUME NEW q \in Pullers
        PROVE  IF InLayers(q)' THEN \A i \in 1 .. layer'[q] - 1 : Manifest[i] \in marked'
                               ELSE layer'[q] = 1
    BY <1>1 DEF ManifestInv, InLayers
  <2> QED BY <2>2, <2>3, <2>4 DEF ManifestInv
<1>2. ASSUME UNCHANGED <<marked, manifest, pc, layer>>
      PROVE  ManifestInv'
  BY <1>2 DEF ManifestInv, ManifestComesLast, IsCached, InLayers, Layers
<1>3. ASSUME NEW p \in Pullers, NEW w \in {"idle", "gather", "returned", "raised"},
             UNCHANGED <<marked, manifest>>, pc' = [pc EXCEPT ![p] = w],
             layer' = [layer EXCEPT ![p] = 1] \/ (layer' = layer /\ ~InLayers(p)),
             w = "returned" => IsCached
      PROVE  ManifestInv'
  <2>1. pc'[p] = w /\ \A q \in Pullers : q # p => pc'[q] = pc[q]
    BY <1>3, <1>t
  <2>2. layer'[p] = 1 /\ \A q \in Pullers : q # p => layer'[q] = layer[q]
    BY <1>3, <1>t DEF ManifestInv
  <2>3. ~InLayers(p)'
    BY <2>1 DEF InLayers
  <2> QED BY <1>1, <1>3, <2>1, <2>2, <2>3
\* A step of p from one place among the layers to another.
<1>4. ASSUME NEW p \in Pullers, NEW w \in {"layers", "members", "member", "mark"},
             UNCHANGED <<manifest, layer>>, marked' = marked,
             pc' = [pc EXCEPT ![p] = w], InLayers(p) \/ layer[p] = 1
      PROVE  ManifestInv'
  <2>1. pc'[p] = w /\ \A q \in Pullers : q # p => pc'[q] = pc[q]
    BY <1>4, <1>t
  <2>2. \A i \in 1 .. layer[p] - 1 : Manifest[i] \in marked
    BY <1>4, <1>t DEF ManifestInv
  <2> QED BY <1>1, <1>4, <2>1, <2>2 DEF InLayers
<1>5. ASSUME NEW p \in Pullers, Hit(p)
      PROVE  ManifestInv'
  <2>1. /\ IsCached /\ pc' = [pc EXCEPT ![p] = "returned"] /\ ~InLayers(p)
        /\ UNCHANGED <<marked, manifest, layer>>
    BY <1>5 DEF Hit, stored, InLayers
  <2> QED BY <1>3, <2>1
<1>6. ASSUME NEW p \in Pullers, Miss(p)
      PROVE  ManifestInv'
  <2>1. /\ pc' = [pc EXCEPT ![p] = "gather"] /\ ~InLayers(p)
        /\ UNCHANGED <<marked, manifest, layer>>
    BY <1>6 DEF Miss, stored, InLayers
  <2> QED BY <1>3, <2>1
<1>7. ASSUME NEW p \in Pullers, Crash(p)
      PROVE  ManifestInv'
  BY <1>3, <1>7 DEF Crash, stored
<1>8. ASSUME NEW p \in Pullers, PullStep(p)
      PROVE  ManifestInv'
  <2>1. CASE Gathered(p)
    <3>1. /\ pc' = [pc EXCEPT ![p] = "layers"] /\ pc[p] = "gather"
          /\ UNCHANGED <<marked, manifest, layer>>
      BY <2>1 DEF Gathered, Goto, stored
    <3>2. layer[p] = 1
      BY <3>1 DEF ManifestInv, InLayers
    <3> QED BY <1>4, <3>1, <3>2
  <2>2. CASE GatherFails(p) \/ End(p) \/ ConfigFails(p)
    <3>1. /\ ~InLayers(p)
          /\ UNCHANGED <<marked, manifest, layer>>
      BY <2>2 DEF GatherFails, End, ConfigFails, Goto, stored, InLayers
    <3>2. \E w \in {"raised", "idle"} : pc' = [pc EXCEPT ![p] = w]
      BY <2>2 DEF GatherFails, End, ConfigFails, Goto
    <3> QED BY <1>3, <3>1, <3>2
  <2>3. CASE Unreadable(p)
    BY <1>3, <2>3 DEF Unreadable, Goto, stored
  <2>4. CASE SaveConfig(p)
    <3>1. /\ pc[p] = "config" /\ pc' = [pc EXCEPT ![p] = "returned"]
          /\ UNCHANGED <<marked, manifest, layer>>
      BY <2>4 DEF SaveConfig, Goto
    <3> QED BY <1>3, <3>1 DEF ManifestInv, InLayers
  <2>5. CASE Skip(p)
    <3>1. /\ layer[p] \in Layers /\ Current(p) \in marked /\ pc[p] = "layers"
          /\ layer' = [layer EXCEPT ![p] = @ + 1]
          /\ UNCHANGED <<marked, manifest, pc>>
      BY <2>5 DEF Skip, stored
    <3>2. layer'[p] - 1 = layer[p] /\ \A q \in Pullers : q # p => layer'[q] = layer[q]
      BY <3>1, <1>t
    <3>3. \A i \in 1 .. layer[p] : Manifest[i] \in marked
      BY <3>1, <1>t DEF ManifestInv, InLayers, Current
    <3> QED BY <1>1, <3>1, <3>2, <3>3 DEF InLayers
  <2>6. CASE Mark(p)
    <3>1. /\ pc[p] = "mark" /\ pc' = [pc EXCEPT ![p] = "layers"]
          /\ marked' = marked \cup {Current(p)} /\ manifest' = manifest
          /\ layer' = [layer EXCEPT ![p] = @ + 1]
      BY <2>6 DEF Mark, Goto
    <3>2. /\ layer'[p] - 1 = layer[p] /\ pc'[p] = "layers"
          /\ \A q \in Pullers : q # p => layer'[q] = layer[q] /\ pc'[q] = pc[q]
      BY <3>1, <1>t
    <3>3. \A i \in 1 .. layer[p] : Manifest[i] \in marked'
      BY <3>1, <1>t DEF ManifestInv, InLayers, Current
    <3> QED BY <1>1, <3>1, <3>2, <3>3 DEF InLayers
  <2>7. CASE Extract(p) \/ OpenMember(p) \/ FillMember(p) \/ SkipMember(p)
    <3>1. UNCHANGED <<marked, manifest, layer>> /\ InLayers(p)
      BY <2>7 DEF Extract, OpenMember, FillMember, SkipMember, NextMember, Goto, stored, InLayers
    <3>2. \E w \in {"members", "member", "mark"} : pc' = [pc EXCEPT ![p] = w]
      BY <2>7 DEF Extract, OpenMember, FillMember, SkipMember, NextMember, Goto
    <3> QED BY <1>4, <3>1, <3>2
  <2>8. CASE SaveManifest(p)
    <3>1. /\ pc[p] = "layers" /\ pc' = [pc EXCEPT ![p] = "config"]
          /\ layer[p] \notin Layers /\ marked' = marked /\ manifest' = TRUE
          /\ layer' = [layer EXCEPT ![p] = 1]
      BY <2>8 DEF SaveManifest, Goto
    <3>2. layer[p] = Len(Manifest) + 1
      BY <3>1, <1>t, ConstantFacts
    <3>3. \A i \in Layers : Manifest[i] \in marked
      BY <3>1, <3>2, ConstantFacts DEF ManifestInv, InLayers
    <3>4. IsCached'
      BY <3>1, <3>3 DEF IsCached, Layers
    <3>5. /\ pc'[p] = "config" /\ layer'[p] = 1
          /\ \A q \in Pullers : q # p => layer'[q] = layer[q] /\ pc'[q] = pc[q]
      BY <3>1, <1>t
    <3>6. ASSUME NEW q \in Pullers
          PROVE  IF InLayers(q)' THEN \A i \in 1 .. layer'[q] - 1 : Manifest[i] \in marked'
                                 ELSE layer'[q] = 1
      BY <3>1, <3>5 DEF ManifestInv, InLayers
    <3> QED BY <3>4, <3>6 DEF ManifestInv, ManifestComesLast
  <2> QED BY <1>8, <2>1, <2>2, <2>3, <2>4, <2>5, <2>6, <2>7, <2>8 DEF PullStep
<1>9. ASSUME NEW t \in Tasks, TaskStep(t)
      PROVE  ManifestInv'
  <2>1. UNCHANGED <<marked, manifest, pc, layer>>
    BY <1>9 DEF TaskStep, Reuse, Request, Refused, Open, Write, Broken, Mismatch,
                RenameFails, Rename, Cleanup, stored
  <2> QED BY <1>2, <2>1
<1>10. CASE UNCHANGED vars
  BY <1>10, <1>2 DEF vars, stored
<1>11. \A p \in Pullers, i \in Slots : <<p, i>> \in Tasks
  BY TaskFacts
<1> QED BY <1>5, <1>6, <1>7, <1>8, <1>9, <1>10, <1>11 DEF Next, Step

(* For every image and any number of pulls: manifest.json is written, and a *)
(* pull returns, only when every layer is marked as extracted.              *)
THEOREM ManifestAlwaysLast == Spec => []ManifestComesLast
<1>1. Init => ManifestInv
  <2> SUFFICES ASSUME Init
               PROVE  ManifestInv
    OBVIOUS
  <2>1. manifest = FALSE /\ \A p \in Pullers : pc[p] = "idle" /\ layer[p] = 1
    BY DEF Init
  <2> QED BY <2>1 DEF ManifestInv, ManifestComesLast, InLayers
<1>2. ManifestInv => ManifestComesLast
  BY DEF ManifestInv
<1> QED BY <1>1, <1>2, TypeInvariant, ManifestStep, PTL DEF Spec

\* In a state with the invariants no step changes what is complete.
LEMMA CompleteStep ==
  ASSUME TypeInv, DownloadInv, DownloadInv', ExtractInv, [Next]_vars
  PROVE  \A d \in Digests \ tainted' :
           /\ blob[d] # Absent => blob'[d] = blob[d]
           /\ d \in marked => dir'[d] = dir[d]
<1>t. /\ blob \in [Digests -> File \cup {Absent}]
      /\ dir \in [Digests -> [Pieces -> {"absent", "partial", "whole"}]]
      /\ \A p \in Pullers : ExtractsNow(p) => Current(p) \in Digests
  BY ConstantFacts DEF TypeInv, TypeOK, ExtractsNow, Current
<1>1. CASE UNCHANGED <<blob, dir>>
  BY <1>1
<1>2. ASSUME NEW t \in Tasks, TaskStep(t), NEW d \in Digests \ tainted'
      PROVE  /\ blob[d] # Absent => blob'[d] = blob[d]
             /\ d \in marked => dir'[d] = dir[d]
  <2>1. /\ dir' = dir /\ tainted \subseteq tainted'
        /\ blob' = blob \/ Write(t) \/ Rename(t)
    BY <1>2 DEF TaskStep, Reuse, Request, Refused, Open, Write, Broken, Mismatch,
                RenameFails, Rename, Cleanup, stored
  <2>2. CASE Write(t)
    <3>1. /\ task[t].pc = "write"
          /\ blob' = blob \/ (task[t].link = "final" /\ \E k, c :
                                blob' = [blob EXCEPT ![DigestOf(t)][k] = c])
      BY <2>2 DEF Write
    <3>2. DigestOf(t) \notin tainted => task[t].link = "tmp"
      BY <3>1 DEF DownloadInv, Undisturbed
    <3>3. blob' = blob \/ (\E f : blob' = [blob EXCEPT ![DigestOf(t)] = f])
      BY <3>1
    <3>4. DigestOf(t) = d => blob' = blob
      BY <3>1, <3>2, <1>2, <2>1
    <3>5. blob'[d] = blob[d]
      BY <3>3, <3>4, <1>t, <1>2
    <3> QED BY <2>1, <3>5
  <2>3. CASE Rename(t)
    <3>1. blob' = [blob EXCEPT ![DigestOf(t)] = tmp[DigestOf(t)]] /\ tmp[DigestOf(t)] # Absent
      BY <2>3 DEF Rename
    <3>2. blob[d] # Absent => blob[d] = Genuine
      BY <1>2, <2>1 DEF DownloadInv, CachedBlobsAreVerified
    <3>3. blob'[d] # Absent => blob'[d] = Genuine
      BY <1>2 DEF DownloadInv, CachedBlobsAreVerified
    <3>4. blob[d] # Absent => blob'[d] # Absent
      BY <3>1, <1>t
    <3> QED BY <2>1, <3>2, <3>3, <3>4
  <2> QED BY <2>1, <2>2, <2>3
<1>3. ASSUME NEW p \in Pullers, OpenMember(p) \/ FillMember(p)
      PROVE  \A d \in Digests \ tainted' :
               /\ blob[d] # Absent => blob'[d] = blob[d]
               /\ d \in marked => dir'[d] = dir[d]
  <2>1. /\ ExtractsNow(p) /\ blob' = blob /\ tainted' = tainted
        /\ \E c : dir' = [dir EXCEPT ![Current(p)][member[p]] = c]
    BY <1>3 DEF OpenMember, FillMember, NextMember, Goto, ExtractsNow
  <2>2. \E f : dir' = [dir EXCEPT ![Current(p)] = f]
    BY <2>1
  <2>3. Current(p) \in tainted \/ Current(p) \notin marked
    BY <2>1 DEF ExtractInv, Careful
  <2> QED BY <2>1, <2>2, <2>3, <1>t
<1>4. ASSUME NEW p \in Pullers, PullStep(p), ~OpenMember(p), ~FillMember(p)
      PROVE  UNCHANGED <<blob, dir>>
  BY <1>4 DEF PullStep, Gathered, GatherFails, End, Skip, Extract, Unreadable, SkipMember,
              Mark, SaveManifest, SaveConfig, ConfigFails, stored
<1>5. ASSUME NEW p \in Pullers, Hit(p) \/ Miss(p) \/ Crash(p)
      PROVE  UNCHANGED <<blob, dir>>
  BY <1>5 DEF Hit, Miss, Crash, stored
<1>6. UNCHANGED vars => UNCHANGED <<blob, dir>>
  BY DEF vars, stored
<1>7. \A p \in Pullers, i \in Slots : <<p, i>> \in Tasks
  BY TaskFacts
<1> QED BY <1>1, <1>2, <1>3, <1>4, <1>5, <1>6, <1>7 DEF Next, Step

(* Once a blob has its final name, or a layer is marked, no step of any pull *)
(* changes it, the replacement of a blob by an equal one included, unless   *)
(* two tasks downloaded or two pulls extracted it at the same time, or a    *)
(* member was skipped.                                                      *)
THEOREM CompleteStaysComplete == Spec => CompleteStaysUntouched
<1>1. TypeInv /\ DownloadInv /\ DownloadInv' /\ ExtractInv /\ [Next]_vars
        => [\A d \in Digests \ tainted' :
              /\ blob[d] # Absent => blob'[d] = blob[d]
              /\ d \in marked => dir'[d] = dir[d]]_vars
  BY CompleteStep
<1> QED BY <1>1, TypeInvariant, DownloadInvariant, ExtractInvariant, PTL
        DEF Spec, CompleteStaysUntouched

------------------------------------------------------------------------------
\* PullsGoOn.  Inductive: what a pull waits for has been started, and the slots
\* that are free and those of running downloads make up the semaphore.

Expected(p) ==
  CASE pc[p] = "gather" -> Layers [] pc[p] = "config" -> {0} [] OTHER -> {}

StartedInv == \A p \in Pullers : \A i \in Expected(p) : task[<<p, i>>].pc # "off"

LEMMA StartedStep == TypeInv /\ StartedInv /\ [Next]_vars => StartedInv'
<1> SUFFICES ASSUME TypeInv, StartedInv, [Next]_vars
             PROVE  StartedInv'
  OBVIOUS
<1>t. /\ pc \in [Pullers -> {"idle", "gather", "layers", "members", "member",
                             "mark", "config", "returned", "raised"}]
      /\ task \in [Tasks -> TaskState]
      /\ \A t \in Tasks : task[t].pc # "write" => task[t].link = "gone"
  BY DEF TypeInv, TypeOK
<1>e. \A p \in Pullers : Expected(p) \subseteq Slots
  BY DEF Expected, Slots
\* No task ends in "off", and no pull begins to wait.
<1>1. ASSUME \A t \in Tasks : task'[t].pc = "off" => task[t].pc = "off",
             \A p \in Pullers : pc'[p] = pc[p] \/ pc'[p] \notin {"gather", "config"}
      PROVE  StartedInv'
  <2>1. \A p \in Pullers : Expected(p)' \subseteq Expected(p)
    BY <1>1 DEF Expected, Layers
  <2> QED BY <1>1, <1>e, <2>1, TaskFacts DEF StartedInv
\* The tasks of p begin anew, or are gone.
<1>2. ASSUME NEW p \in Pullers, NEW w, pc' = [pc EXCEPT ![p] = w], NEW x, SetTasks(p, x),
             \A i \in Slots : i \in Expected(p)' => x[i].pc # "off"
      PROVE  StartedInv'
  <2>1. \A q \in Pullers, i \in Slots :
          task'[<<q, i>>] = IF q = p THEN x[i] ELSE task[<<q, i>>]
    BY <1>2, TaskFacts DEF SetTasks
  <2>2. \A q \in Pullers : q # p => Expected(q)' = Expected(q)
    BY <1>2, <1>t DEF Expected, Layers
  <2>3. \A q \in Pullers : Expected(q)' \subseteq Slots
    BY DEF Expected, Slots, Layers
  <2> QED BY <1>2, <2>1, <2>2, <2>3 DEF StartedInv
<1>3. ASSUME NEW p \in Pullers, NEW w, w \notin {"gather", "config"},
             pc' = [pc EXCEPT ![p] = w], TasksOff(p)
      PROVE  StartedInv'
  <2>1. Expected(p)' = {}
    BY <1>3, <1>t DEF Expected
  <2> QED BY <1>2, <1>3, <2>1 DEF TasksOff
<1>4. ASSUME NEW p \in Pullers, Hit(p)
      PROVE  StartedInv'
  BY <1>1, <1>4, <1>t DEF Hit
<1>5. ASSUME NEW p \in Pullers, Miss(p)
      PROVE  StartedInv'
  <2>1. 0 \notin Layers /\ Expected(p)' = Layers
    BY <1>5, <1>t, ConstantFacts DEF Miss, Expected, Layers
  <2> DEFINE x == [i \in Slots |-> IF i = 0 THEN At("off") ELSE At("queued")]
  <2>2. \A i \in Slots : i \in Expected(p)' => x[i].pc # "off"
    BY <2>1, AtFacts
  <2>3. SetTasks(p, x) /\ pc' = [pc EXCEPT ![p] = "gather"]
    BY <1>5 DEF Miss
  <2> HIDE DEF x
  <2> QED BY <1>2, <2>2, <2>3
<1>6. ASSUME NEW p \in Pullers, Crash(p)
      PROVE  StartedInv'
  BY <1>3, <1>6 DEF Crash
<1>7. ASSUME NEW p \in Pullers, PullStep(p)
      PROVE  StartedInv'
  <2>1. CASE Gathered(p) \/ End(p) \/ SaveConfig(p)
    BY <1>3, <2>1 DEF Gathered, End, SaveConfig, Goto
  <2>2. CASE SaveManifest(p)
    <3>1. Expected(p)' = {0}
      BY <2>2, <1>t DEF SaveManifest, Goto, Expected
    <3> DEFINE x == [i \in Slots |-> IF i = 0 THEN At("queued") ELSE At("off")]
    <3>2. \A i \in Slots : i \in Expected(p)' => x[i].pc # "off"
      BY <3>1, AtFacts
    <3>3. SetTasks(p, x) /\ pc' = [pc EXCEPT ![p] = "config"]
      BY <2>2 DEF SaveManifest, Goto
    <3> HIDE DEF x
    <3> QED BY <1>2, <3>2, <3>3
  <2>3. CASE \/ GatherFails(p) \/ Skip(p) \/ Extract(p) \/ Unreadable(p) \/ OpenMember(p)
             \/ FillMember(p) \/ SkipMember(p) \/ Mark(p) \/ ConfigFails(p)
    <3>1. /\ task' = task
          /\ \A q \in Pullers : pc'[q] = pc[q] \/ pc'[q] \notin {"gather", "config"}
      BY <2>3, <1>t DEF GatherFails, Skip, Extract, Unreadable, OpenMember, FillMember,
                        SkipMember, NextMember, Mark, ConfigFails, Goto
    <3> QED BY <1>1, <3>1
  <2> QED BY <1>7, <2>1, <2>2, <2>3 DEF PullStep
<1>8. ASSUME NEW t \in Tasks, TaskStep(t)
      PROVE  StartedInv'
  <2>1. pc' = pc
    BY <1>8 DEF TaskStep, Reuse, Request, Refused, Open, Write, Broken, Mismatch,
                RenameFails, Rename, Cleanup
  <2>2. \A u \in Tasks : task'[u].pc = "off" => task[u].pc = "off"
    <3>1. ASSUME NEW from, NEW to \in {"request", "cleanup", "done", "failed"},
                 TaskGoto(t, from, to)
          PROVE  \A u \in Tasks : task'[u].pc = "off" => task[u].pc = "off"
      BY <3>1, <1>t, AtFacts DEF TaskGoto
    <3>2. CASE Reuse(t) \/ Request(t) \/ Refused(t) \/ Broken(t) \/ Mismatch(t) \/ RenameFails(t)
      BY <3>1, <3>2 DEF Reuse, Request, Refused, Broken, Mismatch, RenameFails
    <3>3. CASE Open(t) \/ Write(t)
      BY <3>3, <1>t DEF Open, Write, TaskState
    <3>4. CASE Rename(t) \/ Cleanup(t)
      BY <3>4, <1>t, EndedTask DEF Rename, Cleanup
    <3> QED BY <1>8, <3>2, <3>3, <3>4 DEF TaskStep
  <2> QED BY <1>1, <2>1, <2>2
<1>9. CASE UNCHANGED vars
  BY <1>1, <1>9 DEF vars
<1> QED BY <1>4, <1>5, <1>6, <1>7, <1>8, <1>9, TaskFacts DEF Next, Step

\* The slots of p add up.
SlotsInv == \A p \in Pullers : free[p] + Cardinality(Running(p)) = Width

LEMMA RunningFinite ==
  ASSUME NEW p PROVE IsFiniteSet(Running(p)) /\ Cardinality(Running(p)) \in Nat
<1>1. IsFiniteSet(Layers)
  BY ConstantFacts, FS_Interval
<1>2. Running(p) \subseteq Layers
  BY DEF Running
<1> QED BY <1>1, <1>2, FS_Subset, FS_CardinalityType

\* A step that changes no slot and no set of running downloads.
LEMMA SlotsStay ==
  ASSUME SlotsInv, UNCHANGED free, \A p \in Pullers : Running(p)' = Running(p)
  PROVE  SlotsInv'
BY DEF SlotsInv

\* Of one task's step only the set of its own pull may change, by this task.
LEMMA OneTaskRuns ==
  ASSUME NEW t \in Tasks, task' \in [Tasks -> TaskState],
         \A u \in Tasks \ {t} : task'[u].pc = task[u].pc
  PROVE  /\ \A p \in Pullers \ {t[1]} : Running(p)' = Running(p)
         /\ Running(t[1])' \ {t[2]} = Running(t[1]) \ {t[2]}
         /\ t[2] \in Running(t[1]) <=>
              t[2] # 0 /\ task[t].pc \in {"request", "write", "cleanup"}
         /\ t[2] \in Running(t[1])' <=>
              t[2] # 0 /\ task'[t].pc \in {"request", "write", "cleanup"}
<1>1. /\ t = <<t[1], t[2]>> /\ t[1] \in Pullers /\ t[2] \in Slots
      /\ \A p \in Pullers, i \in Slots : <<p, i>> \in Tasks
  BY DEF Tasks
<1>2. 0 \notin Layers /\ Slots = {0} \cup Layers /\ Layers' = Layers
  BY ConstantFacts DEF Slots, Layers
<1>3. \A p \in Pullers, i \in Layers :
        <<p, i>> # t => task'[<<p, i>>].pc = task[<<p, i>>].pc
  BY <1>1, <1>2
<1> QED BY <1>1, <1>2, <1>3 DEF Running

LEMMA SlotsStep == TypeInv /\ TypeInv' /\ SlotsInv /\ [Next]_vars => SlotsInv'
<1> SUFFICES ASSUME TypeInv, TypeInv', SlotsInv, [Next]_vars
             PROVE  SlotsInv'
  OBVIOUS
<1>t. /\ task \in [Tasks -> TaskState] /\ task' \in [Tasks -> TaskState]
      /\ free \in [Pullers -> Nat] /\ free' \in [Pullers -> Nat]
      /\ \A t \in Tasks : task[t].pc # "write" => task[t].link = "gone"
      /\ Width \in Nat
  BY LayerStoreAssumption DEF TypeInv, TypeOK, LayerStoreAssumption
<1>1. ASSUME UNCHANGED <<task, free>>
      PROVE  SlotsInv'
  BY <1>1, SlotsStay DEF Running, Layers
\* The tasks of p begin anew, or are gone, and with them the semaphore.
<1>2. ASSUME NEW p \in Pullers, NEW x, SetTasks(p, x),
             \A i \in Slots : x[i].pc \in {"off", "queued"}
      PROVE  SlotsInv'
  <2>1. \A q \in Pullers, i \in Slots :
          task'[<<q, i>>] = IF q = p THEN x[i] ELSE task[<<q, i>>]
    BY <1>2, TaskFacts DEF SetTasks
  <2>2. Running(p)' = {} /\ free'[p] = Width
    BY <1>2, <1>t, <2>1, TaskFacts DEF Running, SetTasks, Layers
  <2>3. \A q \in Pullers \ {p} : Running(q)' = Running(q) /\ free'[q] = free[q]
    BY <1>2, <1>t, <2>1, TaskFacts DEF Running, SetTasks, Layers
  <2>4. free'[p] + Cardinality(Running(p)') = Width
    BY <2>2, <1>t, FS_EmptySet
  <2> QED BY <2>3, <2>4 DEF SlotsInv
<1>3. ASSUME NEW p \in Pullers, TasksOff(p)
      PROVE  SlotsInv'
  BY <1>2, <1>3, AtFacts DEF TasksOff
<1>4. ASSUME NEW p \in Pullers, Hit(p) \/ Miss(p) \/ Crash(p)
      PROVE  SlotsInv'
  <2>1. CASE Hit(p)
    BY <1>1, <2>1 DEF Hit
  <2>2. CASE Miss(p)
    BY <1>2, <2>2, AtFacts DEF Miss
  <2>3. CASE Crash(p)
    BY <1>3, <2>3 DEF Crash
  <2> QED BY <1>4, <2>1, <2>2, <2>3
<1>5. ASSUME NEW p \in Pullers, PullStep(p)
      PROVE  SlotsInv'
  <2>1. CASE Gathered(p) \/ End(p) \/ SaveConfig(p)
    BY <1>3, <2>1 DEF Gathered, End, SaveConfig
  <2>2. CASE SaveManifest(p)
    BY <1>2, <2>2, AtFacts DEF SaveManifest
  <2>3. CASE \/ GatherFails(p) \/ Skip(p) \/ Extract(p) \/ Unreadable(p) \/ OpenMember(p)
             \/ FillMember(p) \/ SkipMember(p) \/ Mark(p) \/ ConfigFails(p)
    BY <1>1, <2>3 DEF GatherFails, Skip, Extract, Unreadable, OpenMember, FillMember,
                      SkipMember, Mark, ConfigFails
  <2> QED BY <1>5, <2>1, <2>2, <2>3 DEF PullStep
<1>6. ASSUME NEW t \in Tasks, TaskStep(t)
      PROVE  SlotsInv'
  <2> DEFINE p == t[1]
             runs == {"request", "write", "cleanup"}
  <2>p. p \in Pullers /\ t[2] \in Slots
    BY TaskFacts
  <2>c. /\ IsFiniteSet(Running(p)) /\ Cardinality(Running(p)) \in Nat
        /\ IsFiniteSet(Running(p)') /\ Cardinality(Running(p)') \in Nat
        /\ free[p] + Cardinality(Running(p)) = Width
    <3>1. ASSUME NEW q PROVE Running(q)' \subseteq Layers
      BY DEF Running, Layers
    <3>2. IsFiniteSet(Layers)
      BY ConstantFacts, FS_Interval
    <3> QED BY <2>p, <3>1, <3>2, RunningFinite, FS_Subset, FS_CardinalityType DEF SlotsInv
  <2>o. \A u \in Tasks \ {t} : task'[u].pc = task[u].pc
    <3>1. ASSUME NEW from, NEW to, TaskGoto(t, from, to)
          PROVE  \A u \in Tasks \ {t} : task'[u].pc = task[u].pc
      BY <3>1, <1>t DEF TaskGoto
    <3>2. CASE Reuse(t) \/ Request(t) \/ Refused(t) \/ Broken(t) \/ Mismatch(t) \/ RenameFails(t)
      BY <3>1, <3>2 DEF Reuse, Request, Refused, Broken, Mismatch, RenameFails
    <3>3. CASE Open(t) \/ Write(t)
      BY <3>3, <1>t DEF Open, Write
    <3>4. CASE Rename(t) \/ Cleanup(t)
      BY <3>4, <1>t, EndedTask DEF Rename, Cleanup
    <3> QED BY <1>6, <3>2, <3>3, <3>4 DEF TaskStep
  <2>s. /\ \A q \in Pullers \ {p} : Running(q)' = Running(q)
        /\ Running(p)' \ {t[2]} = Running(p) \ {t[2]}
        /\ t[2] \in Running(p) <=> t[2] # 0 /\ task[t].pc \in runs
        /\ t[2] \in Running(p)' <=> t[2] # 0 /\ task'[t].pc \in runs
    BY <2>o, <1>t, OneTaskRuns
  <2> HIDE DEF p, runs
  <2>1. ASSUME UNCHANGED free, task[t].pc \in runs <=> task'[t].pc \in runs
        PROVE  SlotsInv'
    <3>1. Running(p)' = Running(p)
      BY <2>1, <2>s
    <3> QED BY <2>1, <2>s, <3>1, SlotsStay
  <2>2. CASE Reuse(t) \/ Open(t) \/ Write(t) \/ Broken(t) \/ Mismatch(t) \/ RenameFails(t)
    <3>1. CASE Reuse(t) \/ Broken(t) \/ Mismatch(t) \/ RenameFails(t)
      <4>1. /\ UNCHANGED free
            /\ \/ task[t].pc = "queued" /\ task'[t].pc = "done"
               \/ task[t].pc = "write" /\ task'[t].pc = "cleanup"
        BY <1>t, <3>1, AtFacts DEF Reuse, Broken, Mismatch, RenameFails, TaskGoto
      <4> QED BY <2>1, <4>1 DEF runs
    <3>2. CASE Open(t) \/ Write(t)
      <4>1. /\ UNCHANGED free /\ task'[t].pc = "write"
            /\ task[t].pc \in {"request", "write"}
        BY <1>t, <3>2 DEF Open, Write, TaskState
      <4> QED BY <2>1, <4>1 DEF runs
    <3> QED BY <2>2, <3>1, <3>2
  <2>3. CASE Request(t)
    <3>1. task[t].pc = "queued" /\ task'[t].pc = "request" /\ TakesSlot(t)
      BY <1>t, <2>3, AtFacts DEF Request, TaskGoto
    <3>2. CASE t[2] = 0
      <4>1. Running(p)' = Running(p) /\ UNCHANGED free
        BY <2>s, <3>1, <3>2 DEF TakesSlot
      <4> QED BY <2>s, <4>1, SlotsStay
    <3>3. CASE t[2] # 0
      <4>1. t[2] \notin Running(p) /\ Running(p)' = Running(p) \cup {t[2]}
        BY <2>s, <3>1, <3>3 DEF runs
      <4>2. Cardinality(Running(p)') = Cardinality(Running(p)) + 1
        BY <2>c, <4>1, FS_AddElement
      <4>3. free' = [free EXCEPT ![p] = @ - 1]
        BY <3>1, <3>3 DEF TakesSlot, p
      <4>4. free'[p] = free[p] - 1 /\ \A q \in Pullers \ {p} : free'[q] = free[q]
        BY <1>t, <2>p, <4>3
      <4>5. free[p] \in Nat
        BY <1>t, <2>p
      <4>6. free'[p] + Cardinality(Running(p)') = Width
        BY <1>t, <2>c, <4>2, <4>4, <4>5
      <4> QED BY <2>s, <4>4, <4>6 DEF SlotsInv
    <3> QED BY <3>2, <3>3
  <2>4. CASE Refused(t) \/ Rename(t) \/ Cleanup(t)
    <3>1. task[t].pc \in runs /\ task'[t].pc \in {"done", "failed"} /\ ReturnsSlot(t)
      <4>1. CASE Refused(t)
        BY <1>t, <4>1, AtFacts DEF Refused, TaskGoto, runs
      <4>2. CASE Rename(t) \/ Cleanup(t)
        BY <1>t, <4>2, EndedTask DEF Rename, Cleanup, runs
      <4> QED BY <2>4, <4>1, <4>2
    <3>2. CASE t[2] = 0
      <4>1. Running(p)' = Running(p) /\ UNCHANGED free
        BY <2>s, <3>1, <3>2 DEF ReturnsSlot
      <4> QED BY <2>s, <4>1, SlotsStay
    <3>3. CASE t[2] # 0
      <4>1. t[2] \in Running(p) /\ Running(p)' = Running(p) \ {t[2]}
        BY <2>s, <3>1, <3>3 DEF runs
      <4>2. Cardinality(Running(p)') = Cardinality(Running(p)) - 1
        BY <2>c, <4>1, FS_RemoveElement
      <4>3. free' = [free EXCEPT ![p] = @ + 1]
        BY <3>1, <3>3 DEF ReturnsSlot, p
      <4>4. free'[p] = free[p] + 1 /\ \A q \in Pullers \ {p} : free'[q] = free[q]
        BY <1>t, <2>p, <4>3
      <4>5. free[p] \in Nat
        BY <1>t, <2>p
      <4>6. free'[p] + Cardinality(Running(p)') = Width
        BY <1>t, <2>c, <4>2, <4>4, <4>5
      <4> QED BY <2>s, <4>4, <4>6 DEF SlotsInv
    <3> QED BY <3>2, <3>3
  <2> QED BY <1>6, <2>2, <2>3, <2>4 DEF TaskStep
<1>7. CASE UNCHANGED vars
  BY <1>1, <1>7 DEF vars
<1> QED BY <1>4, <1>5, <1>6, <1>7, TaskFacts DEF Next, Step

(* No slot of the semaphore is lost or given twice, and a pull that waits for  *)
(* its downloads always has one that moves, or that has failed, or they are   *)
(* all done: for every image, any width of the semaphore, and whatever fails, *)
(* is refused or is killed.                                                   *)
THEOREM PullsAlwaysGoOn == Spec => []PullsGoOn
<1>1. Init => StartedInv /\ SlotsInv
  <2> SUFFICES ASSUME Init PROVE StartedInv /\ SlotsInv
    OBVIOUS
  <2>1. StartedInv
    BY DEF Init, StartedInv, Expected
  <2>2. ASSUME NEW p \in Pullers PROVE Running(p) = {}
    BY TaskFacts DEF Init, Running, At
  <2>3. ASSUME NEW p \in Pullers PROVE free[p] + Cardinality(Running(p)) = Width
    <3>1. Cardinality(Running(p)) = 0
      BY <2>2, FS_EmptySet
    <3>2. free[p] = Width
      BY DEF Init
    <3> QED BY <3>1, <3>2, LayerStoreAssumption DEF LayerStoreAssumption
  <2>4. SlotsInv
    BY <2>3 DEF SlotsInv
  <2> QED BY <2>1, <2>4
<1>2. TypeInv /\ StartedInv /\ SlotsInv => PullsGoOn
  <2> SUFFICES ASSUME TypeInv, StartedInv, SlotsInv, NEW p \in Pullers
               PROVE  /\ Cardinality(Running(p)) <= Width
                      /\ Running(p) = {} => free[p] = Width
                      /\ pc[p] = "gather" =>
                           \/ \A i \in Layers : task[<<p, i>>].pc = "done"
                           \/ \E i \in Layers : task[<<p, i>>].pc = "failed" \/ Moves(<<p, i>>)
                      /\ pc[p] = "config" =>
                           task[<<p, 0>>].pc \in {"done", "failed"} \/ Moves(<<p, 0>>)
    BY DEF PullsGoOn
  <2>t. /\ free[p] \in Nat /\ Width \in Nat \ {0}
        /\ \A i \in Slots : task[<<p, i>>] \in TaskState
    BY TaskFacts, LayerStoreAssumption DEF TypeInv, TypeOK, LayerStoreAssumption
  <2>1. free[p] + Cardinality(Running(p)) = Width /\ Cardinality(Running(p)) \in Nat
    BY RunningFinite DEF SlotsInv
  <2>2. Cardinality(Running(p)) <= Width
    BY <2>t, <2>1
  <2>3. Running(p) = {} => free[p] = Width
    BY <2>t, <2>1, FS_EmptySet
  <2>4. ASSUME pc[p] = "gather", NEW i \in Layers, task[<<p, i>>].pc # "done"
        PROVE  \E j \in Layers : task[<<p, j>>].pc = "failed" \/ Moves(<<p, j>>)
    <3>1. task[<<p, i>>].pc \in {"queued", "request", "write", "cleanup", "failed"}
      BY <2>t, <2>4, TaskFacts DEF StartedInv, Expected, TaskState
    <3>2. CASE task[<<p, i>>].pc = "queued"
      <4>1. CASE Running(p) = {}
        <5>1. free[p] > 0
          BY <2>t, <2>3, <4>1
        <5> QED BY <3>2, <5>1 DEF Moves, HasFreeSlot
      <4>2. CASE Running(p) # {}
        BY <4>2 DEF Moves, Running
      <4> QED BY <4>1, <4>2
    <3> QED BY <3>1, <3>2 DEF Moves
  <2>5. ASSUME pc[p] = "config"
        PROVE  task[<<p, 0>>].pc \in {"done", "failed"} \/ Moves(<<p, 0>>)
    <3>1. task[<<p, 0>>].pc \in {"queued", "request", "write", "cleanup", "done", "failed"}
      BY <2>t, <2>5 DEF StartedInv, Expected, TaskState, Slots
    <3> QED BY <3>1 DEF Moves, HasFreeSlot
  <2> QED BY <2>2, <2>3, <2>4, <2>5
<1>3. TypeInv /\ StartedInv /\ SlotsInv /\ [Next]_vars => TypeInv' /\ StartedInv' /\ SlotsInv'
  BY TypeStep, StartedStep, SlotsStep
<1> QED BY <1>1, <1>2, <1>3, TypeInvariant, PTL DEF Spec
===============================================================================
