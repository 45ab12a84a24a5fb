------------------------ MODULE ContainerPromiseProofs ------------------------
(***************************************************************************)
(* A program that is alone with a container gets what ContainerPromise     *)
(* says: ContainerLifecycle implements ContainerPromise when there is one  *)
(* client, which lives on between its calls, starts in the foreground and  *)
(* is not killed - whatever methods it calls, in whatever order and as     *)
(* often as it likes, and whatever becomes of its container processes.     *)
(***************************************************************************)
EXTENDS ContainerLifecycleProofs

LoneMethods == {"create", "start", "wait", "stop", "remove"}

LoneProgram ==
  /\ \E c : Clients = {c}
  /\ Commands \subseteq Seq(LoneMethods)
  /\ ~OneShot /\ ~CrashesAllowed

program == CHOOSE c : c \in Clients

\* Where the program is, and its local variables
place == pc[program]
aim == tgt[program]
draft == val[program]
listing == entries[program]

------------------------------------------------------------------------------
\* The inductive invariant

Rest == {"idle"} \cup LoneMethods
Busy == {"config", "fork", "maps", "update", "set_state", "truncate", "fill",
         "waitpid", "kill", "poll", "reap", "unmount", "cgroup", "rmtree", "unlink"}

\* Nobody else does anything, and the program only what its methods say.
Alone ==
  /\ \A p \in Pids : pc[p] = "idle"
  /\ place \in Rest \cup Busy
  /\ todo[program] \in Seq(LoneMethods)

\* A process of the container, as against one that a start() has left behind
\* when it raised: that one waits at a pipe which the program never closes.
Runs(p) == outer[p] = "alive" /\ (gate[p] # "closed" \/ (place = "maps" /\ aim = p))
Down == \A p \in Pids : ~Runs(p)
Startable == record.st \in {"created", "stopped"}

\* The program knows of process p: the record names it, or start() is on its
\* way there.
Known(p) ==
  \/ record = Record("running", p)
  \/ place = "maps" /\ aim = p
  \/ place \in {"update", "truncate", "fill"} /\ draft = Record("running", p)

\* The program can wait for all its processes, and knows of the one that lives.
ProcessInv ==
  \A p \in Pids :
    /\ outer[p] \in {"alive", "zombie"} => parent[p] = program
    /\ Runs(p) => Known(p)

\* No torn record but the program's own, none without its directory, and a
\* remove() that has passed its check ends with the record gone.
RecordInv ==
  /\ fds = IF place = "fill" THEN {program} ELSE {}
  /\ record.st # "garbage"
  /\ record.st = "empty" <=> place = "fill"
  /\ record.st # "absent" => dir
  /\ record.st = "created" => record.pid = NoPid
  /\ ~born => record.st = "absent" /\ ~removing
  /\ removing => \/ record.st = "absent"
                 \/ Startable /\ place \in {"unmount", "cgroup", "rmtree", "unlink"}

\* A record of a process that stopped is drafted only when no process lives.
CreateInv == place = "config" => record.st = "absent" /\ ~removing /\ dir /\ born
StartInv == place \in {"fork", "maps"} => Startable
UpdateInv ==
  place = "update" =>
    \/ draft.st = "running" /\ Startable
    \/ draft.st = "stopped" /\ record.st \in {"running", "stopped"} /\ Down
SetStateInv == place = "set_state" => draft.st = "stopped" /\ record.st = "running" /\ Down
TruncateInv ==
  place = "truncate" =>
    /\ dir /\ born
    /\ \/ draft = Record("created", NoPid) /\ record.st = "absent" /\ ~removing
       \/ draft.st = "running" /\ Startable
       \/ draft.st = "stopped" /\ record.st \in {"running", "stopped"} /\ Down
FillInv == place = "fill" => born /\ (draft.st = "created" => draft.pid = NoPid)
WaitInv ==
  /\ place = "waitpid" => record.st \in {"running", "stopped"} /\ aim = record.pid
  /\ place \in {"kill", "poll", "reap"} => record.st = "running" /\ aim = record.pid
RemoveInv ==
  /\ place \in {"unmount", "cgroup", "rmtree"} => removing /\ Startable
  /\ place = "unlink" => /\ removing
                         /\ "record" \in listing <=> record.st # "absent"
                         /\ "config" \in listing => config

PlaceInv ==
  /\ CreateInv /\ StartInv /\ UpdateInv /\ SetStateInv /\ TruncateInv /\ FillInv
  /\ WaitInv /\ RemoveInv

LoneInv == Alone /\ ProcessInv /\ RecordInv /\ PlaceInv

------------------------------------------------------------------------------
\* The fragments that actions are made of

LEMMA ProgramFacts ==
  ASSUME LoneProgram
  PROVE  /\ Clients = {program} /\ Actors = {program} \cup Pids
         /\ program \in Actors /\ program \notin Pids /\ program # InitProc
<1>1. Clients = {program}
  BY DEF LoneProgram, program
<1> QED BY <1>1, ConstantFacts DEF Actors

LEMMA GotoLone ==
  ASSUME LoneProgram, TypeOK, Alone, NEW label \in Busy, Goto(program, label)
  PROVE  Alone' /\ place' = label /\ UNCHANGED <<aim, draft, listing>>
BY ProgramFacts DEF Goto, locals, Alone, place, aim, draft, listing, TypeOK, ControlOK

LEMMA AimLone ==
  ASSUME LoneProgram, TypeOK, Alone, NEW label \in Busy, NEW p, Aim(program, label, p)
  PROVE  Alone' /\ place' = label /\ aim' = p /\ UNCHANGED <<draft, listing>>
BY ProgramFacts DEF Aim, Alone, place, aim, draft, listing, TypeOK, ControlOK

LEMMA WriteLone ==
  ASSUME LoneProgram, TypeOK, Alone, NEW label \in Busy, NEW r, Write(program, label, r)
  PROVE  Alone' /\ place' = label /\ draft' = r /\ UNCHANGED <<aim, listing>>
BY ProgramFacts DEF Write, Alone, place, aim, draft, listing, TypeOK, ControlOK

LEMMA UnlinkLone ==
  ASSUME LoneProgram, TypeOK, Alone, NEW es, Unlink(program, es)
  PROVE  Alone' /\ place' = "unlink" /\ listing' = es /\ UNCHANGED <<aim, draft>>
<1>1. "unlink" \in Busy
  BY DEF Busy
<1> QED BY <1>1, ProgramFacts DEF Unlink, Alone, place, aim, draft, listing, TypeOK, ControlOK

LEMMA LeaveLone ==
  ASSUME LoneProgram, TypeOK, Alone, End(program) \/ Return(program)
  PROVE  Alone' /\ place' \in Rest /\ UNCHANGED kernel
<1>1. CASE End(program)
  <2>1. "idle" \in Rest /\ <<>> \in Seq(LoneMethods)
    BY DEF Rest
  <2> QED BY <1>1, <2>1, ProgramFacts
          DEF End, Idle, Alone, place, TypeOK, ControlOK, LoneProgram
<1>2. CASE /\ todo[program] # <<>>
           /\ pc' = [pc EXCEPT ![program] = Head(todo[program])]
           /\ todo' = [todo EXCEPT ![program] = Tail(todo[program])]
           /\ UNCHANGED kernel
  <2>1. Head(todo[program]) \in LoneMethods /\ Tail(todo[program]) \in Seq(LoneMethods)
    BY <1>2 DEF Alone
  <2>2. Head(todo[program]) \in Rest
    BY <2>1 DEF Rest
  <2> QED BY <1>2, <2>1, <2>2, ProgramFacts DEF Alone, place, TypeOK, ControlOK
<1> QED BY <1>1, <1>2 DEF Return

------------------------------------------------------------------------------
\* What the promise makes of it

Shown ==
  IF place = "fill" THEN draft.st
  ELSE IF record.st # "absent" THEN record.st
  ELSE IF removing THEN "removed" ELSE "none"

Living == {p \in Pids : Runs(p)}
Stranded == {p \in Pids : outer[p] = "alive" /\ ~Runs(p)}

Shows == INSTANCE ContainerPromise WITH
  Process <- Pids, st <- Shown, up <- Living, stray <- Stranded

LEMMA OneWriter ==
  ASSUME LoneProgram, Alone
  PROVE  abstractState = Shown
<1>1. \A j \in Actors : Writer(j) <=> j = program /\ place = "fill"
  BY ProgramFacts DEF Writer, Alone, place
<1>2. CASE place = "fill"
  <2>1. {val[k] : k \in {j \in Actors : Writer(j)}} = {draft}
    BY <1>1, <1>2, ProgramFacts DEF draft
  <2>2. (CHOOSE v \in {draft} : TRUE) = draft
    OBVIOUS
  <2> QED BY <1>1, <1>2, <2>1, <2>2, ProgramFacts DEF abstractState, Shown
<1>3. CASE place # "fill"
  BY <1>1, <1>3 DEF abstractState, Shown
<1> QED BY <1>2, <1>3

LEMMA OneWaits ==
  ASSUME LoneProgram, Alone
  PROVE  Strays = Stranded /\ {p \in Pids : outer[p] = "alive"} \ Strays = Living
<1>1. \A p \in Pids : Waited(p) <=> place = "maps" /\ aim = p
  BY ProgramFacts DEF Waited, At, Alone, place, aim
<1>2. Strays = Stranded
  BY <1>1 DEF Strays, Stranded, Runs
<1> QED BY <1>2 DEF Stranded, Living, Runs

LEMMA OneWaitsNext ==
  ASSUME LoneProgram, Alone'
  PROVE  Strays' = Stranded' /\ {p \in Pids : outer'[p] = "alive"} \ Strays' = Living'
<1>1. \A p \in Pids : Waited(p)' <=> place' = "maps" /\ aim' = p
  BY ProgramFacts DEF Waited, At, Alone, place, aim
<1>2. Strays' = Stranded'
  BY <1>1 DEF Strays, Stranded, Runs
<1> QED BY <1>2 DEF Stranded, Living, Runs

LEMMA OneWriterNext ==
  ASSUME LoneProgram, Alone'
  PROVE  abstractState' = Shown'
<1>1. \A j \in Actors : Writer(j)' <=> j = program /\ place' = "fill"
  BY ProgramFacts DEF Writer, Alone, place
<1>2. CASE place' = "fill"
  <2>1. {val'[k] : k \in {j \in Actors : Writer(j)'}} = {draft'}
    BY <1>1, <1>2, ProgramFacts DEF draft
  <2>2. (CHOOSE v \in {draft'} : TRUE) = draft'
    OBVIOUS
  <2> QED BY <1>1, <1>2, <2>1, <2>2, ProgramFacts DEF abstractState, Shown
<1>3. CASE place' # "fill"
  BY <1>1, <1>3 DEF abstractState, Shown
<1> QED BY <1>2, <1>3

Stutter == UNCHANGED <<Shown, Living, Stranded>>
Good == LoneInv' /\ (Shows!Next \/ Stutter)

LEMMA SameRuns ==
  ASSUME UNCHANGED <<outer, gate>>, place # "maps", place' # "maps"
  PROVE  (\A p \in Pids : Runs(p)' <=> Runs(p)) /\ UNCHANGED <<Living, Stranded>>
BY DEF Runs, Living, Stranded

\* Between two calls, and after a call that has come to nothing.
Settled ==
  /\ place \notin {"fill", "maps"}
  /\ \A p \in Pids : Runs(p) => record = Record("running", p)
  /\ removing => record.st = "absent"

LEMMA RestIsSettled == ASSUME LoneInv, place \in Rest PROVE Settled
BY DEF LoneInv, ProcessInv, Known, RecordInv, Settled, Rest, LoneMethods, Runs

\* What the invariant asks of the control state is not asked at rest.
LEMMA RestPlaceInv ==
  ASSUME place' \in Rest
  PROVE  PlaceInv' /\ place' \notin Busy /\ place' \notin {"fill", "maps"}
<1>1. Rest \cap Busy = {}
  BY DEF Rest, Busy, LoneMethods
<1> QED BY <1>1 DEF PlaceInv, CreateInv, StartInv, UpdateInv, SetStateInv, TruncateInv, FillInv,
                    WaitInv, RemoveInv, Busy

LEMMA SettledStep ==
  ASSUME LoneInv, Settled, Alone', place' \in Rest,
         UNCHANGED <<record, fds, outer, gate, parent, removing>>,
         record.st # "absent" /\ dir => dir', born => born'
  PROVE  Good
<1>1. {place, place'} \cap {"fill", "maps"} = {} /\ PlaceInv'
  BY RestPlaceInv DEF Settled
<1>2. RecordInv'
  BY <1>1 DEF LoneInv, RecordInv, Settled, Startable, Runs
<1>3. ProcessInv'
  BY <1>1, SameRuns DEF LoneInv, ProcessInv, Settled, Known
<1>4. Stutter
  BY <1>1, SameRuns DEF Stutter, Shown
<1> QED BY <1>1, <1>2, <1>3, <1>4 DEF Good, LoneInv

\* The call returns, or raises, and nothing else happens.
LEMMA LeaveGood ==
  ASSUME LoneProgram, TypeOK, LoneInv, Settled, End(program) \/ Return(program),
         UNCHANGED <<disk, history>>
  PROVE  Good
BY LeaveLone, SettledStep DEF LoneInv, disk, kernel, history

LEMMA UnreadableGood ==
  ASSUME LoneProgram, TypeOK, LoneInv, Settled, Unreadable(program)
  PROVE  Good
BY LeaveGood DEF Unreadable

\* What holds in the middle of a call
LEMMA ReadableFacts ==
  ASSUME LoneInv, record.st \in Readable
  PROVE  dir /\ born /\ (place \notin Demolition => ~removing)
BY DEF LoneInv, RecordInv, Startable, Readable, Demolition

LEMMA StartSettled ==
  ASSUME LoneInv, place = "fork"
  PROVE  Settled /\ Down /\ ~removing
BY DEF LoneInv, PlaceInv, StartInv, Settled, ProcessInv, Known, RecordInv, Startable, Down,
       Record, Runs

\* The record names the process that lives, if one does.
LEMMA RecordedLives ==
  ASSUME LoneInv, place \in {"waitpid", "kill", "poll", "reap"}, NEW p \in Pids, Runs(p)
  PROVE  record = Record("running", p) /\ aim = p /\ parent[p] = program
BY DEF LoneInv, ProcessInv, Known, PlaceInv, WaitInv, Record, Runs

LEMMA OneLives ==
  ASSUME LoneInv, NEW p \in Pids, NEW q \in Pids, Runs(p), Runs(q)
  PROVE  p = q
<1>1. Known(p) /\ Known(q)
  BY DEF LoneInv, ProcessInv, Runs
<1>2. Record("running", p) = Record("running", q) => p = q
  BY DEF Record
<1>3. Record("running", p).st = "running" /\ Record("running", q).st = "running"
  BY DEF Record
<1>4. CASE place = "fill"
  <2>1. record.st = "empty"
    BY <1>4 DEF LoneInv, RecordInv
  <2> QED BY <1>1, <1>2, <1>3, <1>4, <2>1 DEF Known
<1>5. CASE place \in {"maps", "update", "truncate"}
  BY <1>1, <1>2, <1>3, <1>5
     DEF Known, LoneInv, PlaceInv, StartInv, UpdateInv, TruncateInv, Startable, Down, Runs
<1>6. CASE place \notin {"maps", "update", "truncate", "fill"}
  BY <1>1, <1>2, <1>6 DEF Known
<1> QED BY <1>4, <1>5, <1>6

------------------------------------------------------------------------------
\* The methods, action by action

LEMMA UpdateGood ==
  ASSUME LoneProgram, TypeOK, LoneInv, Update(program)
  PROVE  Good
<1>1. place \in {"update", "set_state"}
  BY DEF Update, At, place
<1>2. record.st \in Readable
  BY <1>1 DEF LoneInv, PlaceInv, UpdateInv, SetStateInv, Startable, Readable
<1>3. /\ Write(program, "truncate", IF place = "set_state" THEN Record(draft.st, record.pid)
                                    ELSE draft)
      /\ UNCHANGED <<disk, kernel, history>>
  BY <1>2 DEF Update, Unreadable, At, place, draft
<1>4. /\ Alone' /\ place' = "truncate"
      /\ draft' = IF place = "set_state" THEN Record(draft.st, record.pid) ELSE draft
  BY <1>3, WriteLone DEF Busy, LoneInv
<1>5. UNCHANGED <<record, fds, dir, config, outer, gate, parent, born, removing>>
  BY <1>3 DEF disk, kernel, history
<1>6. dir /\ born /\ ~removing
  BY <1>1, <1>2, ReadableFacts DEF Demolition
<1>7. draft'.st = draft.st
  BY <1>4 DEF Record
<1>8. TruncateInv'
  BY <1>1, <1>4, <1>5, <1>6, <1>7
     DEF LoneInv, PlaceInv, UpdateInv, SetStateInv, TruncateInv, Startable, Down, Runs
<1>9. PlaceInv'
  BY <1>4, <1>8
     DEF PlaceInv, CreateInv, StartInv, UpdateInv, SetStateInv, FillInv, WaitInv, RemoveInv
<1>10. RecordInv'
  BY <1>1, <1>4, <1>5, <1>6 DEF LoneInv, RecordInv
<1>11. ProcessInv'
  BY <1>1, <1>4, <1>5 DEF LoneInv, PlaceInv, SetStateInv, Down, ProcessInv, Known, Runs
<1>12. Stutter
  BY <1>1, <1>4, <1>5 DEF Stutter, Shown, Living, Runs, Stranded
<1> QED BY <1>4, <1>9, <1>10, <1>11, <1>12 DEF Good, LoneInv

LEMMA TruncateGood ==
  ASSUME LoneProgram, TypeOK, LoneInv, Truncate(program)
  PROVE  Good
<1>1. place = "truncate"
  BY DEF Truncate, At, place
<1>2. TruncateInv /\ dir /\ born
  BY <1>1 DEF LoneInv, PlaceInv, TruncateInv
<1>3. /\ record' = Record("empty", NoPid)
      /\ fds' = fds \cup {program}
      /\ Goto(program, "fill")
      /\ UNCHANGED <<config, dir, mounted, cgroup, kernel, history>>
  BY <1>2 DEF Truncate
<1>4. Alone' /\ place' = "fill" /\ draft' = draft
  BY <1>3, GotoLone DEF Busy, LoneInv
<1>5. UNCHANGED <<dir, config, outer, gate, parent, born, removing>>
  BY <1>3 DEF kernel, history
<1>6. record'.st = "empty" /\ ~removing
  BY <1>1, <1>2, <1>3 DEF Record, LoneInv, RecordInv, TruncateInv, Startable
<1>7. RecordInv'
  BY <1>1, <1>2, <1>3, <1>4, <1>5, <1>6 DEF LoneInv, RecordInv
<1>8. draft.st = "created" => draft.pid = NoPid
  BY <1>1, <1>2 DEF TruncateInv, Record
<1>9. PlaceInv'
  BY <1>2, <1>4, <1>5, <1>8
     DEF PlaceInv, CreateInv, StartInv, UpdateInv, SetStateInv, TruncateInv, FillInv, WaitInv,
         RemoveInv
<1>10. ProcessInv'
  <2>1. ASSUME NEW p \in Pids, Runs(p)
        PROVE  draft = Record("running", p)
    <3>1. record # Record("running", p)
      BY <1>1, <1>2, <2>1 DEF TruncateInv, Startable, Down, Record, Runs
    <3> QED BY <1>1, <2>1, <3>1 DEF LoneInv, ProcessInv, Known, Runs
  <2> QED BY <1>1, <1>4, <1>5, <2>1, SameRuns DEF LoneInv, ProcessInv, Known
<1>11. Living' = Living /\ Stranded' = Stranded /\ Shown' = draft.st
  BY <1>1, <1>4, <1>5, SameRuns DEF Shown
<1>12. CASE draft = Record("created", NoPid) /\ record.st = "absent" /\ ~removing
  <2>1. Shown = "none" /\ Shown' = "created"
    BY <1>1, <1>11, <1>12 DEF Shown, Record
  <2> QED BY <1>4, <1>7, <1>9, <1>10, <1>11, <2>1 DEF Good, LoneInv, Shows!Next, Shows!Create
<1>13. CASE draft.st = "running" /\ Startable
  <2>1. Shown \in {"created", "stopped"}
    BY <1>1, <1>13 DEF Shown, Startable
  <2> QED BY <1>4, <1>7, <1>9, <1>10, <1>11, <1>13, <2>1
          DEF Good, LoneInv, Shows!Next, Shows!Publish
<1>14. CASE draft.st = "stopped" /\ record.st \in {"running", "stopped"} /\ Down
  <2>1. Shown = record.st /\ Living = {}
    BY <1>1, <1>14 DEF Shown, Living, Down, Runs, Stranded
  <2> QED BY <1>4, <1>7, <1>9, <1>10, <1>11, <1>14, <2>1
          DEF Good, LoneInv, Stutter, Shows!Next, Shows!NoteDead
<1> QED BY <1>1, <1>2, <1>12, <1>13, <1>14 DEF TruncateInv

LEMMA FillGood ==
  ASSUME LoneProgram, TypeOK, LoneInv, Fill(program)
  PROVE  Good
<1>1. place = "fill"
  BY DEF Fill, At, place
<1>2. record.st = "empty" /\ fds = {program} /\ dir /\ born /\ ~removing
  BY <1>1 DEF LoneInv, RecordInv, Startable, PlaceInv, FillInv
<1>3. record' = draft /\ fds' = {} /\ Return(program)
      /\ UNCHANGED <<config, dir, history>>
  BY <1>2 DEF Fill, draft
<1>4. /\ Alone' /\ place' \in Rest /\ place' \notin {"fill", "maps"}
      /\ UNCHANGED kernel /\ PlaceInv'
  BY <1>3, LeaveLone, RestPlaceInv DEF LoneInv, Busy
<1>5. draft.st \in Readable
  BY ProgramFacts DEF TypeOK, ControlOK, draft
<1>6. RecordInv'
  BY <1>1, <1>2, <1>3, <1>4, <1>5
     DEF history, LoneInv, PlaceInv, FillInv, RecordInv, Readable
<1>7. ProcessInv'
  <2>1. ASSUME NEW p \in Pids, Runs(p)
        PROVE  draft = Record("running", p)
    BY <1>1, <1>2, <2>1 DEF LoneInv, ProcessInv, Known, Record, Runs
  <2> QED BY <1>1, <1>3, <1>4, <2>1, SameRuns DEF kernel, LoneInv, ProcessInv, Known
<1>8. Stutter
  BY <1>1, <1>3, <1>4, <1>5 DEF kernel, Stutter, Shown, Living, Readable, Runs, Stranded
<1> QED BY <1>4, <1>6, <1>7, <1>8 DEF Good, LoneInv

LEMMA CreateGood ==
  ASSUME LoneProgram, TypeOK, LoneInv, Create(program)
  PROVE  Good
<1>1. CASE CreateStorage(program)
  <2>1. place \in Rest /\ place # "fill" /\ ~born /\ record.st = "absent" /\ ~removing
    BY <1>1 DEF CreateStorage, At, place, Rest, LoneMethods, LoneInv, RecordInv
  <2>2. UNCHANGED <<record, fds, removing>> /\ dir' /\ born'
    BY <1>1 DEF CreateStorage
  <2>3. CASE End(program)
    BY <2>1, <2>2, <2>3, LeaveLone, RestIsSettled, SettledStep DEF LoneInv, kernel
  <2>4. CASE Goto(program, "config") /\ UNCHANGED kernel
    <3>1. Alone' /\ place' = "config"
      BY <2>4, GotoLone DEF Busy, LoneInv
    <3>2. PlaceInv'
      BY <2>1, <2>2, <3>1
         DEF PlaceInv, CreateInv, StartInv, UpdateInv, SetStateInv, TruncateInv, FillInv, WaitInv,
             RemoveInv
    <3>3. RecordInv'
      BY <2>1, <2>2, <3>1 DEF LoneInv, RecordInv
    <3>4. ProcessInv' /\ Stutter
      BY <2>1, <2>2, <2>4, <3>1, RestIsSettled
         DEF kernel, LoneInv, ProcessInv, Settled, Known, Stutter, Shown, Living, Runs, Stranded
    <3> QED BY <3>1, <3>2, <3>3, <3>4 DEF Good, LoneInv
  <2> QED BY <1>1, <2>3, <2>4 DEF CreateStorage
<1>2. CASE CreateConfig(program)
  <2>1. place = "config" /\ record.st = "absent" /\ ~removing /\ dir /\ born
    BY <1>2 DEF CreateConfig, At, place, LoneInv, PlaceInv, CreateInv
  <2>2. Alone' /\ place' = "truncate" /\ draft' = Record("created", NoPid)
    BY <1>2, WriteLone DEF CreateConfig, Busy, LoneInv
  <2>3. UNCHANGED <<record, fds, dir, outer, gate, parent, born, removing>>
    BY <1>2 DEF CreateConfig, kernel, history
  <2>4. PlaceInv'
    BY <2>1, <2>2, <2>3
       DEF PlaceInv, CreateInv, StartInv, UpdateInv, SetStateInv, TruncateInv, FillInv, WaitInv,
           RemoveInv
  <2>5. RecordInv'
    BY <2>1, <2>2, <2>3 DEF LoneInv, RecordInv
  <2>6. ProcessInv' /\ Stutter
    BY <2>1, <2>2, <2>3 DEF LoneInv, ProcessInv, Known, Record, Stutter, Shown, Living, Runs,
                            Stranded
  <2> QED BY <2>2, <2>4, <2>5, <2>6 DEF Good, LoneInv
<1>3. CASE CreateOther(program)
  <2>1. Settled
    BY <1>3, RestIsSettled DEF CreateOther, At, place, Rest, LoneMethods
  <2> QED BY <1>3, <2>1, LeaveGood DEF CreateOther
<1> QED BY <1>1, <1>2, <1>3 DEF Create

LEMMA StartCheckGood ==
  ASSUME LoneProgram, TypeOK, LoneInv, StartCheck(program)
  PROVE  Good
<1>1. place \in Rest /\ place # "fill" /\ Settled
  BY RestIsSettled DEF StartCheck, At, place, Rest, LoneMethods
<1>2. CASE End(program)
  BY <1>1, <1>2, LeaveGood DEF StartCheck
<1>3. CASE Startable /\ Goto(program, "fork") /\ UNCHANGED kernel
  <2>1. Alone' /\ place' = "fork"
    BY <1>3, GotoLone DEF Busy, LoneInv
  <2>2. UNCHANGED <<record, fds, dir, outer, gate, parent, born, removing>>
    BY <1>3 DEF StartCheck, disk, kernel, history
  <2>3. PlaceInv'
    BY <1>3, <2>1, <2>2
       DEF PlaceInv, CreateInv, StartInv, UpdateInv, SetStateInv, TruncateInv, FillInv, WaitInv,
           RemoveInv, Startable
  <2>4. RecordInv'
    BY <1>1, <2>1, <2>2 DEF LoneInv, RecordInv, Settled, Runs
  <2>5. ProcessInv' /\ Stutter
    BY <1>1, <2>1, <2>2
       DEF LoneInv, ProcessInv, Settled, Known, Stutter, Shown, Living, Runs, Stranded
  <2> QED BY <2>1, <2>3, <2>4, <2>5 DEF Good, LoneInv
<1> QED BY <1>2, <1>3 DEF StartCheck, Startable

LEMMA ForkGood ==
  ASSUME LoneProgram, TypeOK, LoneInv, Fork(program)
  PROVE  Good
<1>1. place = "fork" /\ Startable
  BY DEF Fork, At, place, LoneInv, PlaceInv, StartInv
<1>2. Down /\ ~removing
  BY <1>1, StartSettled
<1>3. PICK p \in Pids :
        /\ outer[p] = "unborn"
        /\ Aim(program, "maps", p)
        /\ outer' = [outer EXCEPT ![p] = "alive"]
        /\ parent' = [parent EXCEPT ![p] = program]
  BY DEF Fork
<1>4. Alone' /\ place' = "maps" /\ aim' = p
  BY <1>3, AimLone DEF Busy, LoneInv
<1>5. UNCHANGED <<record, fds, dir, born, removing>>
  BY DEF Fork, history
<1>6. /\ outer'[p] = "alive" /\ parent'[p] = program
      /\ \A q \in Pids : q # p => outer'[q] = outer[q] /\ parent'[q] = parent[q]
  BY <1>3 DEF TypeOK, KernelOK
<1>12. \A q \in Pids : Runs(q)' <=> q = p
  <2>1. ASSUME NEW q \in Pids, q # p
        PROVE  ~Runs(q)'
    BY <1>2, <1>4, <1>6, <2>1 DEF Fork, Down, Runs
  <2> QED BY <1>4, <1>6, <2>1 DEF Runs
<1>7. PlaceInv'
  BY <1>1, <1>4, <1>5
     DEF PlaceInv, CreateInv, StartInv, UpdateInv, SetStateInv, TruncateInv, FillInv, WaitInv,
         RemoveInv, Startable
<1>8. RecordInv'
  BY <1>1, <1>2, <1>4, <1>5 DEF LoneInv, RecordInv
<1>9. ProcessInv'
  BY <1>4, <1>6, <1>12 DEF LoneInv, ProcessInv, Known
<1>10. Living = {} /\ Living' = {p} /\ p \notin Stranded /\ Stranded' = Stranded
  <2>1. \A q \in Pids : q \in Stranded' <=> outer'[q] = "alive" /\ q # p
    BY <1>12 DEF Stranded
  <2>2. \A q \in Pids : q \in Stranded <=> outer[q] = "alive"
    BY <1>2 DEF Stranded, Down
  <2>3. Stranded \subseteq Pids /\ Stranded' \subseteq Pids
    BY DEF Stranded
  <2> QED BY <1>2, <1>3, <1>6, <1>12, <2>1, <2>2, <2>3 DEF Living, Down
<1>11. Shown \in {"created", "stopped"} /\ Shown' = Shown
  BY <1>1, <1>4, <1>5 DEF Shown, Startable
<1> QED BY <1>4, <1>7, <1>8, <1>9, <1>10, <1>11 DEF Good, LoneInv, Shows!Next, Shows!Fork

\* start() raises: a child that lives stays at its pipe.
LEMMA StrandGood ==
  ASSUME LoneProgram, TypeOK, LoneInv, HandshakeInv, place = "maps",
         End(program), UNCHANGED <<disk, history>>
  PROVE  Good
<1>1. Startable /\ ~removing
  BY DEF LoneInv, PlaceInv, StartInv, RecordInv, Startable
<1>2. aim \in Pids /\ gate[aim] = "closed"
  BY ProgramFacts DEF HandshakeInv, At, place, aim
<1>3. \A p \in Pids : Runs(p) => aim = p
  BY <1>1 DEF LoneInv, ProcessInv, Known, Record, Startable
<1>4. /\ Alone' /\ place' \in Rest /\ PlaceInv' /\ place' \notin {"fill", "maps"}
      /\ UNCHANGED <<record, fds, dir, config, outer, gate, parent, born, removing>>
  BY LeaveLone, RestPlaceInv DEF LoneInv, disk, kernel, history
<1>5. RecordInv'
  BY <1>1, <1>4 DEF LoneInv, RecordInv, Startable
<1>6. Down'
  BY <1>2, <1>3, <1>4 DEF Down, Runs
<1>7. ProcessInv'
  BY <1>4, <1>6 DEF LoneInv, ProcessInv, Down
<1>8. Shown' = Shown /\ Shown \in {"created", "stopped"}
  BY <1>1, <1>4 DEF Shown, Startable
<1>9. Living' = {}
  BY <1>6 DEF Living, Down
<1>10. Stranded' = Stranded \cup Living
  BY <1>4, <1>6 DEF Stranded, Living, Down, Runs
<1>11. Living = {} => Stutter
  BY <1>8, <1>9, <1>10 DEF Stutter
<1> QED BY <1>4, <1>5, <1>7, <1>8, <1>9, <1>10, <1>11
        DEF Good, LoneInv, Shows!Next, Shows!Strand

LEMMA SendMapsGood ==
  ASSUME LoneProgram, TypeOK, LoneInv, HandshakeInv, SendMaps(program)
  PROVE  Good
<1>1. place = "maps" /\ Startable
  BY DEF SendMaps, At, place, LoneInv, PlaceInv, StartInv
<1>2. ~removing
  BY <1>1 DEF LoneInv, RecordInv, Startable
<1>3. \A p \in Pids : Runs(p) => aim = p
  BY <1>1 DEF LoneInv, ProcessInv, Known, Record, Startable
<1>4. CASE End(program)
  BY <1>1, <1>4, StrandGood DEF SendMaps
<1>5. CASE /\ outer[aim] = "alive"
           /\ gate' = [gate EXCEPT ![aim] = "open"]
           /\ Write(program, "update", Record("running", aim))
           /\ UNCHANGED <<outer, parent>>
  <2>1. Alone' /\ place' = "update" /\ draft' = Record("running", aim)
    BY <1>5, WriteLone DEF Busy, LoneInv
  <2>2. UNCHANGED <<record, fds, dir, born, removing>>
    BY DEF SendMaps, disk, history
  <2>3. draft'.st = "running"
    BY <2>1 DEF Record
  <2>4. PlaceInv'
    BY <1>1, <2>1, <2>2, <2>3
       DEF PlaceInv, CreateInv, StartInv, UpdateInv, SetStateInv, TruncateInv, FillInv, WaitInv,
           RemoveInv, Startable
  <2>5. RecordInv'
    BY <1>1, <1>2, <2>1, <2>2 DEF LoneInv, RecordInv
  <2>6. \A q \in Pids : Runs(q)' <=> Runs(q)
    <3>1. aim \in Pids
      BY <1>1, ProgramFacts DEF HandshakeInv, At, place, aim
    <3>2. gate'[aim] # "closed" /\ \A q \in Pids : q # aim => gate'[q] = gate[q]
      BY <1>5, <3>1 DEF TypeOK, KernelOK
    <3> QED BY <1>1, <1>3, <1>5, <2>1, <3>1, <3>2 DEF Runs
  <2>7. ProcessInv'
    BY <1>1, <1>3, <1>5, <2>1, <2>2, <2>6 DEF LoneInv, ProcessInv, Known
  <2>8. Stutter
    BY <1>1, <1>5, <2>1, <2>2, <2>6 DEF Stutter, Shown, Living, Stranded
  <2> QED BY <2>1, <2>4, <2>5, <2>7, <2>8 DEF Good, LoneInv
<1> QED BY <1>4, <1>5 DEF SendMaps, aim

LEMMA StartGood ==
  ASSUME LoneProgram, TypeOK, LoneInv, HandshakeInv, Start(program)
  PROVE  Good
<1>1. CASE ForkFails(program)
  <2>1. Settled
    BY <1>1, StartSettled DEF ForkFails, At, place
  <2>2. UNCHANGED <<record, fds, dir, born, removing>>
    BY <1>1 DEF ForkFails, history
  <2> QED BY <1>1, <2>1, <2>2, LeaveLone, SettledStep DEF ForkFails, LoneInv, kernel
<1> QED BY <1>1, StartCheckGood, ForkGood, SendMapsGood DEF Start

\* waitpid() on the recorded process of a program that is its parent returns
\* when the process is dead.
LEMMA WaitpidDown ==
  ASSUME LoneProgram, TypeOK, LoneInv, place \in {"waitpid", "poll", "reap"},
         Waitpid(program, aim)
  PROVE  /\ Down
         /\ \A p \in Pids : outer'[p] = "alive" <=> outer[p] = "alive"
         /\ gate' = gate
         /\ \A p \in Pids : outer'[p] \in {"alive", "zombie"} => parent'[p] = program
<1>1. ASSUME NEW p \in Pids, Runs(p)
      PROVE  FALSE
  <2>1. record = Record("running", p) /\ aim = p /\ parent[p] = program
    BY <1>1, RecordedLives
  <2> QED BY <1>1, <2>1 DEF Waitpid, Child, Runs
<1>2. Down
  BY <1>1 DEF Down
<1>3. \A p \in Pids : /\ outer'[p] = outer[p] \/ (outer[p] = "zombie" /\ outer'[p] = "gone")
                      /\ parent'[p] = parent[p]
  BY DEF Waitpid, kernel, TypeOK, KernelOK
<1>4. gate' = gate
  BY DEF Waitpid, kernel
<1> QED BY <1>2, <1>3, <1>4 DEF LoneInv, ProcessInv

\* Then the program goes on to write that it has stopped.
LEMMA StoppedGood ==
  ASSUME LoneProgram, TypeOK, LoneInv, NEW r,
         \/ /\ place = "waitpid"
            /\ Write(program, "update", r)
         \/ /\ place \in {"kill", "poll", "reap"}
            /\ Write(program, "set_state", r),
         r.st = "stopped",
         Down, gate' = gate, \A p \in Pids : outer'[p] = "alive" <=> outer[p] = "alive",
         \A p \in Pids : outer'[p] \in {"alive", "zombie"} => parent'[p] = program,
         UNCHANGED <<disk, history>>
  PROVE  Good
<1>1. Alone' /\ draft' = r /\ place' = IF place = "waitpid" THEN "update" ELSE "set_state"
  BY WriteLone DEF Busy, LoneInv
<1>2. UNCHANGED <<record, fds, dir, born, removing>>
  BY DEF disk, history
<1>3. record.st = "running" \/ (place = "waitpid" /\ record.st = "stopped")
  BY DEF LoneInv, PlaceInv, WaitInv
<1>8. \A p \in Pids : ~Runs(p)' /\ ~Runs(p)
  BY <1>1 DEF Down, Runs
<1>4. PlaceInv'
  BY <1>1, <1>2, <1>3, <1>8
     DEF PlaceInv, CreateInv, StartInv, UpdateInv, SetStateInv, TruncateInv, FillInv, WaitInv,
         RemoveInv, Down
<1>5. RecordInv'
  BY <1>1, <1>2, <1>3 DEF LoneInv, RecordInv, Startable
<1>6. ProcessInv'
  BY <1>8 DEF ProcessInv
<1>7. Stutter
  BY <1>1, <1>2, <1>8 DEF Stutter, Shown, Living, Stranded
<1> QED BY <1>1, <1>4, <1>5, <1>6, <1>7 DEF Good, LoneInv

LEMMA WaitGood ==
  ASSUME LoneProgram, TypeOK, LoneInv, Wait(program)
  PROVE  Good
<1>1. CASE WaitGet(program)
  <2>1. Settled /\ place # "fill" /\ record.st # "empty"
    BY <1>1, RestIsSettled DEF WaitGet, At, place, Rest, LoneMethods, LoneInv, RecordInv
  <2>2. CASE Unreadable(program)
    BY <2>1, <2>2, UnreadableGood
  <2>3. CASE End(program) /\ UNCHANGED <<disk, history>>
    BY <2>1, <2>3, LeaveGood
  <2>4. CASE /\ record.st \in Readable /\ record.pid # NoPid
             /\ Aim(program, "waitpid", record.pid)
             /\ UNCHANGED <<disk, kernel, history>>
    <3>1. Alone' /\ place' = "waitpid" /\ aim' = record.pid
      BY <2>4, AimLone DEF Busy, LoneInv
    <3>2. UNCHANGED <<record, fds, dir, outer, gate, parent, born, removing>>
      BY <2>4 DEF disk, kernel, history
    <3>3. record.st \in {"running", "stopped"}
      BY <2>4 DEF LoneInv, RecordInv, Readable
    <3>4. PlaceInv'
      BY <3>1, <3>2, <3>3
     DEF PlaceInv, CreateInv, StartInv, UpdateInv, SetStateInv, TruncateInv, FillInv, WaitInv,
         RemoveInv
    <3>5. RecordInv' /\ ProcessInv' /\ Stutter
      BY <2>1, <3>1, <3>2
         DEF LoneInv, RecordInv, Settled, ProcessInv, Known, Stutter, Shown, Living, Runs, Stranded
    <3> QED BY <3>1, <3>4, <3>5 DEF Good, LoneInv
  <2> QED BY <1>1, <2>2, <2>3, <2>4 DEF WaitGet
<1>2. CASE WaitPid(program)
  <2>1. place = "waitpid" /\ Waitpid(program, aim)
    BY <1>2 DEF WaitPid, At, place, aim
  <2>2. Record("stopped", NoPid).st = "stopped"
    BY DEF Record
  <2> QED BY <1>2, <2>1, <2>2, WaitpidDown, StoppedGood DEF WaitPid
<1> QED BY <1>1, <1>2 DEF Wait

\* stop() goes on with the process that the record names.
LEMMA StopOn ==
  ASSUME LoneProgram, TypeOK, LoneInv, NEW label \in {"poll", "reap"},
         place \in {"kill", "poll"}, Goto(program, label),
         UNCHANGED <<disk, outer, gate, parent, history>>
  PROVE  Good
<1>1. Alone' /\ place' = label /\ aim' = aim
  BY GotoLone DEF Busy, LoneInv
<1>2. UNCHANGED <<record, fds, dir, born, removing>>
  BY DEF disk, history
<1>3. record.st = "running" /\ aim = record.pid
  BY DEF LoneInv, PlaceInv, WaitInv
<1>4. PlaceInv'
  BY <1>1, <1>2, <1>3
     DEF PlaceInv, CreateInv, StartInv, UpdateInv, SetStateInv, TruncateInv, FillInv, WaitInv,
         RemoveInv
<1>5. RecordInv' /\ Stutter
  BY <1>1, <1>2, <1>3 DEF LoneInv, RecordInv, Startable, Stutter, Shown, Living, Runs, Stranded
<1>6. ProcessInv'
  BY <1>1, <1>2 DEF LoneInv, ProcessInv, Known, Runs
<1> QED BY <1>1, <1>4, <1>5, <1>6 DEF Good, LoneInv

LEMMA StopGood ==
  ASSUME LoneProgram, TypeOK, LoneInv, Stop(program)
  PROVE  Good
<1>0. Record("stopped", NoPid).st = "stopped"
  BY DEF Record
<1>1. CASE StopCheck(program)
  <2>1. Settled /\ place # "fill" /\ record.st # "empty"
    BY <1>1, RestIsSettled DEF StopCheck, At, place, Rest, LoneMethods, LoneInv, RecordInv
  <2>2. CASE Unreadable(program)
    BY <2>1, <2>2, UnreadableGood
  <2>3. CASE Return(program) /\ UNCHANGED <<disk, history>>
    BY <2>1, <2>3, LeaveGood
  <2>4. CASE /\ record.st = "running"
             /\ Aim(program, "kill", record.pid)
             /\ UNCHANGED <<disk, kernel, history>>
    <3>1. Alone' /\ place' = "kill" /\ aim' = record.pid
      BY <2>4, AimLone DEF Busy, LoneInv
    <3>2. UNCHANGED <<record, fds, dir, outer, gate, parent, born, removing>>
      BY <2>4 DEF disk, kernel, history
    <3>3. PlaceInv'
      BY <2>4, <3>1, <3>2
     DEF PlaceInv, CreateInv, StartInv, UpdateInv, SetStateInv, TruncateInv, FillInv, WaitInv,
         RemoveInv
    <3>4. RecordInv' /\ ProcessInv' /\ Stutter
      BY <2>1, <3>1, <3>2
         DEF LoneInv, RecordInv, Settled, ProcessInv, Known, Stutter, Shown, Living, Runs, Stranded
    <3> QED BY <3>1, <3>3, <3>4 DEF Good, LoneInv
  <2> QED BY <1>1, <2>2, <2>3, <2>4 DEF StopCheck
<1>2. CASE StopKill(program)
  <2>1. place = "kill" /\ UNCHANGED <<disk, outer, gate, parent, history>>
    BY <1>2 DEF StopKill, At, place
  <2>2. CASE outer[aim] = "gone" /\ SetStopped(program)
    <3>1. Down
      BY <2>1, <2>2, RecordedLives DEF Down, Runs
    <3>3. \A p \in Pids : outer'[p] \in {"alive", "zombie"} => parent'[p] = program
      BY <2>1 DEF LoneInv, ProcessInv, Runs
    <3> QED BY <1>0, <2>1, <2>2, <3>1, <3>3, StoppedGood DEF SetStopped
  <2>3. CASE Goto(program, "poll")
    BY <2>1, <2>3, StopOn
  <2> QED BY <1>2, <2>2, <2>3 DEF StopKill, aim
<1>3. CASE StopPoll(program) \/ StopReap(program)
  <2>1. /\ place \in {"poll", "reap"} /\ Waitpid(program, aim)
        /\ SetStopped(program) /\ UNCHANGED <<disk, history>>
    BY <1>3 DEF StopPoll, StopReap, At, place, aim
  <2> QED BY <1>0, <2>1, WaitpidDown, StoppedGood DEF SetStopped
<1>4. CASE StopTimeout(program)
  <2>1. /\ place = "poll" /\ Goto(program, "reap")
        /\ UNCHANGED <<disk, outer, gate, parent, history>>
    BY <1>4 DEF StopTimeout, At, place
  <2> QED BY <2>1, StopOn
<1> QED BY <1>1, <1>2, <1>3, <1>4 DEF Stop

\* While remove() takes the container apart, the record stays as it was, or
\* goes.
LEMMA RemovingFacts ==
  ASSUME LoneInv, place \in Demolition
  PROVE  /\ removing /\ born /\ Down /\ record.st # "empty" /\ fds = {}
         /\ record.st # "absent" => Startable /\ dir
<1>1. place # "fill"
  BY DEF Demolition
<1>2. removing
  BY DEF LoneInv, PlaceInv, RemoveInv, Demolition
<1>3. record.st # "absent" => Startable
  BY <1>2 DEF LoneInv, RecordInv
<1>4. Down
  BY <1>3 DEF Down, LoneInv, ProcessInv, Known, Record, Startable, Demolition, Runs
<1> QED BY <1>1, <1>2, <1>3, <1>4 DEF LoneInv, RecordInv

LEMMA DemolitionStep ==
  ASSUME LoneProgram, TypeOK, LoneInv, NEW label \in {"cgroup", "rmtree"},
         place \in {"unmount", "cgroup"}, Goto(program, label),
         UNCHANGED <<record, fds, dir, outer, gate, parent, born, removing>>
  PROVE  Good
<1>1. Alone' /\ place' = label
  BY GotoLone DEF Busy, LoneInv
<1>2. removing /\ Startable
  BY DEF LoneInv, PlaceInv, RemoveInv
<1>3. PlaceInv'
  BY <1>1, <1>2
     DEF PlaceInv, CreateInv, StartInv, UpdateInv, SetStateInv, TruncateInv, FillInv, WaitInv,
         RemoveInv, Startable
<1>4. RecordInv' /\ ProcessInv' /\ Stutter
  BY <1>1, <1>2
     DEF LoneInv, RecordInv, Startable, ProcessInv, Known, Stutter, Shown, Living, Runs, Stranded
<1> QED BY <1>1, <1>3, <1>4 DEF Good, LoneInv

LEMMA RemoveCheckGood ==
  ASSUME LoneProgram, TypeOK, LoneInv, RemoveCheck(program)
  PROVE  Good
<1>1. Settled /\ place # "fill" /\ record.st # "empty"
  BY RestIsSettled DEF RemoveCheck, At, place, Rest, LoneMethods, LoneInv, RecordInv
<1>2. CASE Unreadable(program)
  BY <1>1, <1>2, UnreadableGood
<1>3. CASE End(program) /\ UNCHANGED <<disk, history>>
  BY <1>1, <1>3, LeaveGood
<1>4. CASE /\ record.st \in Readable \ {"running"}
           /\ removing' = TRUE
           /\ Goto(program, "unmount")
           /\ UNCHANGED <<disk, kernel, born>>
  <2>1. Alone' /\ place' = "unmount"
    BY <1>4, GotoLone DEF Busy, LoneInv
  <2>2. UNCHANGED <<record, fds, dir, outer, gate, parent, born>> /\ removing'
    BY <1>4 DEF disk, kernel
  <2>3. Startable /\ born
    BY <1>4, ReadableFacts DEF Startable, Readable
  <2>4. PlaceInv'
    BY <2>1, <2>2, <2>3
     DEF PlaceInv, CreateInv, StartInv, UpdateInv, SetStateInv, TruncateInv, FillInv, WaitInv,
         RemoveInv, Startable
  <2>5. RecordInv' /\ ProcessInv' /\ Stutter
    BY <1>1, <2>1, <2>2, <2>3
       DEF LoneInv, RecordInv, Settled, Startable, ProcessInv, Known, Stutter, Shown, Living,
           Runs, Stranded
  <2> QED BY <2>1, <2>4, <2>5 DEF Good, LoneInv
<1> QED BY <1>2, <1>3, <1>4 DEF RemoveCheck

LEMMA RmtreeScanGood ==
  ASSUME LoneProgram, TypeOK, LoneInv, RmtreeScan(program)
  PROVE  Good
<1>1. place = "rmtree" /\ removing /\ Startable /\ dir
  BY RemovingFacts
     DEF RmtreeScan, At, place, LoneInv, PlaceInv, RemoveInv, Demolition, Startable
<1>2. /\ Unlink(program, {e \in Entries : IF e = "config" THEN config ELSE record.st # "absent"})
      /\ UNCHANGED <<disk, kernel, history>>
  BY <1>1 DEF RmtreeScan
<1>3. /\ Alone' /\ place' = "unlink"
      /\ listing' = {e \in Entries : IF e = "config" THEN config ELSE record.st # "absent"}
  BY <1>2, UnlinkLone DEF LoneInv
<1>4. UNCHANGED <<record, fds, dir, config, outer, gate, parent, born, removing>>
  BY <1>2 DEF disk, kernel, history
<1>5. /\ "record" \in listing' <=> record.st # "absent"
      /\ "config" \in listing' <=> config
  BY <1>3 DEF Entries
<1>6. PlaceInv'
  BY <1>1, <1>3, <1>4, <1>5
     DEF PlaceInv, CreateInv, StartInv, UpdateInv, SetStateInv, TruncateInv, FillInv, WaitInv,
         RemoveInv
<1>7. RecordInv' /\ ProcessInv' /\ Stutter
  BY <1>1, <1>3, <1>4
     DEF LoneInv, RecordInv, Startable, ProcessInv, Known, Stutter, Shown, Living, Runs, Stranded
<1> QED BY <1>3, <1>6, <1>7 DEF Good, LoneInv

LEMMA UnlinkConfigGood ==
  ASSUME LoneProgram, TypeOK, LoneInv, UnlinkConfig(program)
  PROVE  Good
<1>1. place = "unlink" /\ "config" \in listing /\ config
  BY DEF UnlinkConfig, At, place, listing, LoneInv, PlaceInv, RemoveInv
<1>2. /\ removing /\ Down /\ record.st # "empty"
      /\ record.st # "absent" => Startable
  BY <1>1, RemovingFacts DEF Demolition
<1>3. Unlink(program, listing \ {"config"}) /\ UNCHANGED kernel
  BY <1>1 DEF UnlinkConfig, listing
<1>4. Alone' /\ place' = "unlink" /\ listing' = listing \ {"config"}
  BY <1>3, UnlinkLone DEF LoneInv
<1>5. UNCHANGED <<record, fds, dir, outer, gate, parent, born, removing>>
  BY <1>3 DEF UnlinkConfig, kernel, history
<1>6. PlaceInv'
  BY <1>1, <1>2, <1>4, <1>5
     DEF PlaceInv, CreateInv, StartInv, UpdateInv, SetStateInv, TruncateInv, FillInv, WaitInv,
         RemoveInv, LoneInv
<1>7. RecordInv' /\ ProcessInv' /\ Stutter
  BY <1>1, <1>2, <1>4, <1>5
     DEF LoneInv, RecordInv, Startable, ProcessInv, Down, Stutter, Shown, Living, Runs, Stranded
<1> QED BY <1>4, <1>6, <1>7 DEF Good, LoneInv

LEMMA UnlinkRecordGood ==
  ASSUME LoneProgram, TypeOK, LoneInv, UnlinkRecord(program)
  PROVE  Good
<1>1. place = "unlink" /\ "record" \in listing /\ record.st # "absent"
  BY DEF UnlinkRecord, At, place, listing, LoneInv, PlaceInv, RemoveInv
<1>2. removing /\ born /\ Down /\ Startable /\ fds = {}
  BY <1>1, RemovingFacts DEF Demolition
<1>3. Unlink(program, listing \ {"record"}) /\ UNCHANGED kernel
  BY <1>1 DEF UnlinkRecord, listing
<1>4. Alone' /\ place' = "unlink" /\ listing' = listing \ {"record"}
  BY <1>3, UnlinkLone DEF LoneInv
<1>5. /\ UNCHANGED <<dir, config, outer, gate, parent, born, removing>>
      /\ record' = NoRecord /\ fds' = {}
  BY <1>3 DEF UnlinkRecord, kernel, history
<1>6. record'.st = "absent" /\ record'.pid = NoPid
  BY <1>5 DEF NoRecord
<1>7. PlaceInv'
  BY <1>1, <1>2, <1>4, <1>5, <1>6
     DEF PlaceInv, CreateInv, StartInv, UpdateInv, SetStateInv, TruncateInv, FillInv, WaitInv,
         RemoveInv, LoneInv
<1>8. RecordInv' /\ ProcessInv'
  BY <1>1, <1>2, <1>4, <1>5, <1>6, SameRuns
     DEF LoneInv, RecordInv, ProcessInv, Down
<1>9. Shown \in {"created", "stopped"} /\ Shown' = "removed"
  BY <1>1, <1>2, <1>4, <1>5, <1>6 DEF Shown, Startable
<1>10. Living = {} /\ UNCHANGED <<Living, Stranded>>
  BY <1>1, <1>2, <1>4, <1>5, SameRuns DEF Living, Down
<1> QED BY <1>4, <1>7, <1>8, <1>9, <1>10 DEF Good, LoneInv, Shows!Next, Shows!Remove

LEMMA RmdirGood ==
  ASSUME LoneProgram, TypeOK, LoneInv, Rmdir(program)
  PROVE  Good
<1>1. place = "unlink" /\ record.st = "absent"
  BY DEF Rmdir, At, place, listing, LoneInv, PlaceInv, RemoveInv
<1>2. Settled
  BY <1>1, RemovingFacts DEF Settled, Down, Demolition, Runs
<1>3. UNCHANGED <<record, fds, born, removing>>
  BY DEF Rmdir, history
<1> QED BY <1>1, <1>2, <1>3, LeaveLone, SettledStep DEF Rmdir, LoneInv, kernel

LEMMA RemoveGood ==
  ASSUME LoneProgram, TypeOK, LoneInv, Remove(program)
  PROVE  Good
<1>1. CASE Unmount(program) \/ DeleteCgroup(program)
  BY <1>1, DemolitionStep DEF Unmount, DeleteCgroup, At, place, kernel, history
<1> QED BY <1>1, RemoveCheckGood, RmtreeScanGood, UnlinkConfigGood, UnlinkRecordGood, RmdirGood
        DEF Remove

------------------------------------------------------------------------------
\* The whole

LEMMA ProgramStepGood ==
  ASSUME LoneProgram, TypeOK, LoneInv, HandshakeInv, Step(program)
  PROVE  Good
<1>1. ~Watch(program) /\ ~Recover(program)
  <2>1. place \in Rest \cup Busy
    BY DEF LoneInv, Alone
  <2>2. {"watch", "alive?", "recover"} \cap (Rest \cup Busy) = {}
    BY DEF Rest, Busy, LoneMethods
  <2> QED BY <2>1, <2>2 DEF Watch, SpawnWatcher, WatchGet, WatchPoll, Recover, At, place
<1> QED BY <1>1, UpdateGood, TruncateGood, FillGood, CreateGood, StartGood, WaitGood, StopGood,
           RemoveGood DEF Step

\* Nobody moves who is idle.
LEMMA IdleStays ==
  ASSUME NEW k, pc[k] = "idle"
  PROVE  ~Step(k)
<1>1. ~(Update(k) \/ Truncate(k) \/ Fill(k) \/ Create(k) \/ Start(k))
  BY DEF Update, Truncate, Fill, Create, CreateStorage, CreateConfig, CreateOther,
         Start, StartCheck, Fork, ForkFails, SendMaps, At
<1>2. ~(Wait(k) \/ Watch(k) \/ Stop(k) \/ Recover(k))
  BY DEF Wait, WaitGet, WaitPid, Watch, SpawnWatcher, WatchGet, WatchPoll,
         Stop, StopCheck, StopKill, StopPoll, StopTimeout, StopReap, Recover, At
<1>3. ~Remove(k)
  BY DEF Remove, RemoveCheck, Unmount, DeleteCgroup, RmtreeScan, UnlinkConfig, UnlinkRecord,
         Rmdir, At
<1> QED BY <1>1, <1>2, <1>3 DEF Step

LEMMA BeginGood ==
  ASSUME LoneProgram, TypeOK, LoneInv, Begin(program)
  PROVE  Good
<1>1. PICK c \in Commands : /\ pc' = [pc EXCEPT ![program] = Head(c)]
                           /\ todo' = [todo EXCEPT ![program] = Tail(c)]
  BY DEF Begin
<1>2. Head(c) \in LoneMethods /\ Tail(c) \in Seq(LoneMethods)
  <2>1. c \in Seq(LoneMethods) /\ c # <<>>
    BY ConstantFacts DEF LoneProgram
  <2> QED BY <2>1
<1>3. Head(c) \in Rest
  BY <1>2 DEF Rest
<1>4. Alone' /\ place' \in Rest
  BY <1>1, <1>2, <1>3, ProgramFacts DEF LoneInv, Alone, place, TypeOK, ControlOK
<1>5. Settled
  BY RestIsSettled DEF Begin, At, place, Rest
<1> QED BY <1>4, <1>5, SettledStep DEF Begin, disk, kernel, history

\* A step of a container process leaves the program where it is.
LEMMA OthersStepInv ==
  ASSUME LoneInv, UNCHANGED <<disk, pc, todo, locals, history, parent, gate>>,
         \A q \in Pids : /\ outer'[q] = "alive" => outer[q] = "alive"
                         /\ outer'[q] = "zombie" => outer[q] \in {"alive", "zombie"}
  PROVE  LoneInv' /\ Shown' = Shown /\ UNCHANGED <<place, aim>>
<1>1. /\ Alone' /\ RecordInv' /\ UNCHANGED <<place, draft, aim, listing, record>>
      /\ Shown' = Shown
  BY DEF LoneInv, Alone, RecordInv, Startable, place, draft, aim, listing, Shown,
         disk, history, locals
<1>2. \A q \in Pids : Runs(q)' => Runs(q)
  BY <1>1 DEF Runs
<1>3. ProcessInv'
  BY <1>1, <1>2 DEF LoneInv, ProcessInv, Known
<1>4. Down => Down'
  BY <1>2 DEF Down
<1>5. PlaceInv'
  BY <1>1, <1>4
     DEF LoneInv, PlaceInv, CreateInv, StartInv, UpdateInv, SetStateInv, TruncateInv, FillInv,
         WaitInv, RemoveInv, Startable, disk, history
<1> QED BY <1>1, <1>3, <1>5 DEF LoneInv

\* The program never goes, so no child of it hears the end of its pipe.
LEMMA NoEof ==
  ASSUME LoneProgram, LoneInv, NEW p \in Pids
  PROVE  ~HearEof(p)
BY ProgramFacts DEF HearEof, LoneInv, ProcessInv

LEMMA ProcessGood ==
  ASSUME LoneProgram, TypeOK, LoneInv, NEW p \in Pids, ProcessStep(p)
  PROVE  Good
<1>1. UNCHANGED <<disk, pc, todo, locals, history, parent, gate>>
  BY NoEof DEF ProcessStep, ChildRun, ChildFail, InnerExit, OuterExit, Deliver
<1>2. CASE ChildRun(p) \/ InnerExit(p)
  <2>1. outer' = outer
    BY <1>2 DEF ChildRun, InnerExit
  <2>2. LoneInv' /\ Shown' = Shown /\ UNCHANGED <<place, aim>>
    BY <1>1, <2>1, OthersStepInv
  <2> QED BY <1>1, <2>1, <2>2 DEF Good, Stutter, Living, Stranded, Runs
<1>3. CASE ChildFail(p) \/ OuterExit(p) \/ Deliver(p)
  <2>1. outer[p] = "alive" /\ Dies(p)
    BY <1>3 DEF ChildFail, OuterExit, Deliver
  <2>2. /\ outer'[p] \in {"zombie", "gone"}
        /\ \A q \in Pids : q # p => outer'[q] = outer[q]
    BY <2>1 DEF Dies, TypeOK, KernelOK
  <2>3. LoneInv' /\ Shown' = Shown /\ UNCHANGED <<place, aim>>
    BY <1>1, <2>1, <2>2, OthersStepInv
  <2>4. \A q \in Pids : Runs(q)' <=> Runs(q) /\ q # p
    BY <1>1, <2>2, <2>3 DEF Runs
  <2>5. CASE Runs(p)
    <3>1. Living # {} /\ Living' = {}
      BY <2>4, <2>5, OneLives DEF Living
    <3>2. Stranded' = Stranded
      BY <2>2, <2>4, <2>5 DEF Stranded
    <3> QED BY <2>3, <3>1, <3>2 DEF Good, Shows!Next, Shows!Die
  <2>6. CASE ~Runs(p)
    <3>1. Living' = Living
      BY <2>4, <2>6 DEF Living
    <3>2. p \in Stranded /\ Stranded' = Stranded \ {p}
      BY <2>1, <2>2, <2>4, <2>6 DEF Stranded
    <3> QED BY <2>3, <3>1, <3>2 DEF Good, Shows!Next, Shows!StrayDies
  <2> QED BY <2>5, <2>6
<1> QED BY <1>2, <1>3, NoEof DEF ProcessStep

LEMMA NextGood ==
  ASSUME LoneProgram, TypeOK, LoneInv, HandshakeInv, [Next]_vars
  PROVE  Good
<1>1. CASE UNCHANGED vars
  <2>1. UNCHANGED <<disk, pc, todo, locals, history, outer, gate, parent>>
    BY <1>1 DEF vars, kernel
  <2>2. UNCHANGED <<place, draft, aim, listing, record, fds, dir, config, born, removing>>
    BY <2>1 DEF place, draft, aim, listing, locals, disk, history
  <2>3. Alone' /\ RecordInv' /\ ProcessInv'
    BY <2>1, <2>2 DEF LoneInv, Alone, RecordInv, Startable, ProcessInv, Known, Runs
  <2>4. PlaceInv'
    BY <2>1, <2>2
       DEF LoneInv, PlaceInv, CreateInv, StartInv, UpdateInv, SetStateInv, TruncateInv, FillInv,
           WaitInv, RemoveInv, Startable, Down, Runs
  <2> QED BY <2>1, <2>2, <2>3, <2>4 DEF Good, LoneInv, Stutter, Shown, Living, Runs, Stranded
<1>2. ASSUME NEW k \in Clients, Begin(k)
      PROVE  Good
  BY <1>2, ProgramFacts, BeginGood
<1>3. ASSUME NEW k \in Actors, Step(k)
      PROVE  Good
  <2>1. k = program
    BY <1>3, ProgramFacts, IdleStays DEF LoneInv, Alone
  <2> QED BY <1>3, <2>1, ProgramStepGood
<1>4. ASSUME NEW k \in Actors, Crash(k)
      PROVE  Good
  BY <1>4 DEF Crash, LoneProgram
<1>5. ASSUME NEW p \in Pids, ProcessStep(p)
      PROVE  Good
  BY <1>5, ProcessGood
<1> QED BY <1>1, <1>2, <1>3, <1>4, <1>5, NextCases

LEMMA InitLone ==
  ASSUME LoneProgram, Init
  PROVE  LoneInv /\ Promise!Init
<1>1. /\ place = "idle" /\ \A p \in Pids : pc[p] = "idle"
      /\ todo[program] = <<>>
  BY ProgramFacts DEF Init, place
<1>2. "idle" \in Rest /\ "idle" \notin Busy /\ <<>> \in Seq(LoneMethods)
  BY DEF Rest, Busy
<1>3. Alone
  BY <1>1, <1>2 DEF Alone
<1>4. record.st = "absent" /\ fds = {} /\ ~born /\ ~removing
  BY DEF Init, NoRecord
<1>5. RecordInv
  BY <1>1, <1>4 DEF RecordInv
<1>6. ProcessInv
  BY DEF Init, ProcessInv, Runs
<1>7. PlaceInv
  BY <1>1
     DEF PlaceInv, CreateInv, StartInv, UpdateInv, SetStateInv, TruncateInv, FillInv, WaitInv,
         RemoveInv
<1>8. abstractState = "none"
  BY <1>1, <1>3, <1>4, OneWriter DEF Shown
<1>9. {p \in Pids : outer[p] = "alive"} = {} /\ Strays = {}
  BY DEF Init, Strays
<1> QED BY <1>3, <1>5, <1>6, <1>7, <1>8, <1>9 DEF LoneInv, Promise!Init

\* Every step of the program, and of its container processes, is a step of the
\* promise, or none.
LEMMA PromiseStep ==
  ASSUME LoneProgram, LoneInv, Good
  PROVE  [Promise!Next]_(Promise!vars)
<1>1. abstractState = Shown /\ abstractState' = Shown'
  BY OneWriter, OneWriterNext DEF Good, LoneInv
<1>2. /\ Strays = Stranded /\ {p \in Pids : outer[p] = "alive"} \ Strays = Living
      /\ Strays' = Stranded' /\ {p \in Pids : outer'[p] = "alive"} \ Strays' = Living'
  BY OneWaits, OneWaitsNext DEF Good, LoneInv
<1> QED BY <1>1, <1>2
        DEF Good, Stutter, Promise!vars, Promise!Next, Promise!Create, Promise!Fork,
            Promise!Strand, Promise!Publish, Promise!Die, Promise!StrayDies, Promise!NoteDead,
            Promise!Remove,
            Shows!Next, Shows!Create, Shows!Fork, Shows!Strand, Shows!Publish, Shows!Die,
            Shows!StrayDies, Shows!NoteDead, Shows!Remove

\* A program alone with a container gets what ContainerPromise says: at most
\* one process at a time, besides those that a failed start() has left behind
\* unreleased, recorded as stopped only when it is down, and nothing removed that
\* has one - in whatever order it calls create(), start(), wait(), stop() and
\* remove(), and wherever its processes fail, exit or are killed.
THEOREM PromiseKept == ASSUME LoneProgram PROVE Spec => KeepsPromise
<1>1. Init => TypeOK /\ LoneInv /\ HandshakeInv /\ Promise!Init
  BY InitOK, InitLone, HandshakeInit
<1>2. TypeOK /\ LoneInv /\ HandshakeInv /\ [Next]_vars =>
        TypeOK' /\ LoneInv' /\ HandshakeInv' /\ [Promise!Next]_(Promise!vars)
  BY TypeStep, NextGood, HandshakeStep, PromiseStep DEF Good
<1> QED BY <1>1, <1>2, PTL DEF Spec, KeepsPromise, Promise!Spec
==============================================================================
