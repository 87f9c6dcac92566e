------------------------ MODULE OrphanCleanupProofs ------------------------
(***************************************************************************)
(* What the cleanup never takes, for any number of runners and workers,    *)
(* any limits, and whatever a listing returned.                            *)
(***************************************************************************)
EXTENDS OrphanCleanup, FiniteSetTheorems, SequenceTheorems, TLAPS

(***************************************************************************)
(* Between the test of a lease and the removal the runner goes on.  What   *)
(* makes the removal harmless is that a runner never takes its lease       *)
(* twice: a directory or a running record is only there once it did, so an *)
(* unlocked lease means the runner is over.  A ticket is there before; but *)
(* an old one is never moved, and only a moved one makes a record young.   *)
(***************************************************************************)
\* Files of a runner that held its lease; receipts taken are gone.
Traces ==
    /\ \A t \in running \cup directory : Alive(t) \/ Over(t)
    /\ \A t \in status \cup taken : Over(t)
    /\ status \cap taken = {}

\* A worker about to remove a directory, or to unlink a record of a kind.
Condemns(me) ==
    /\ me.kind \in 0 .. 3
    /\ me.pc = "records" /\ me.todo # <<>> => me.kind \in 1 .. 3
    /\ me.pc = "remove" => me.pick \in Token /\ Over(me.pick)
    /\ me.pc = "unlink" =>
          /\ me.pick \in Token /\ me.kind \in 1 .. 3 /\ me.pick \in oldRecord
          /\ runner[me.pick] \notin {"moved", "pushing", "cleared"}
          /\ me.kind # 1 => Over(me.pick)

\* Every worker has the fields, whatever a listing put in todo.
Fields(me) == {"pc", "kind", "pick", "todo"} \subseteq DOMAIN me

Typed == /\ runner \in [Token -> RunnerStep]
         /\ \A F \in {request, running, status, directory, taken} : F \subseteq Token
         /\ worker = [w \in Worker |-> worker[w]]
         /\ \A w \in Worker : Fields(worker[w])

Inv == Typed /\ Traces /\ \A w \in Worker : Condemns(worker[w])

LEMMA InvInit == Init => Inv
<1> SUFFICES ASSUME Init PROVE Inv
    OBVIOUS
<1>1. Typed
  BY CleanupAssumption DEF Init, Typed, Fields, IdleWorker, RunnerStep
<1>2. Traces
  BY CleanupAssumption DEF Init, Traces, Over
<1>3. \A w \in Worker : Condemns(worker[w])
  BY DEF Init, Condemns, IdleWorker
<1> QED
  BY <1>1, <1>2, <1>3 DEF Inv

\* What is over stays over, and a runner that holds its lease goes on or ends.
LEMMA RunnersGoOn ==
    ASSUME Typed, [Next]_vars, NEW t \in Token
    PROVE  /\ Over(t) => Over(t)'
           /\ Alive(t) => Alive(t)' \/ Over(t)'
BY DEF Typed, Next, Runs, Works, vars, files, ages, WriteTicket, CreateLease, LockLease,
       MoveTicket, MakeDirectory, RemoveOwn, WriteReceipt, RunnerFails, RunnerDies, TakeReceipt,
       RecordAges, DirectoryAges, WorkerStarts, ListDirectories, WrapDirectories,
       TestDirectory, RemoveTree, DirectoriesDone, ListRecords, TestRecord, RecordsDone,
       UnlinkRecord, SaveCursor, WorkerFails, RunnerGoto, Release, Over, Alive

\* What one worker does to the files.
WorkerLeaves ==
    /\ UNCHANGED <<runner, oldRecord, taken>>
    /\ request' \subseteq request /\ running' \subseteq running
    /\ status' \subseteq status /\ directory' \subseteq directory

\* A step of a worker shows in its own state and keeps what it condemned true.
LEMMA WorkerStep1 ==
    ASSUME Inv, NEW w \in Worker, NEW new, WorkerSets(w, new), Fields(new),
           Condemns(new), WorkerLeaves
    PROVE  Inv'
<1>1. worker' = [worker EXCEPT ![w] = new]
  BY DEF WorkerSets
<1>2. \A v \in Worker : worker'[v] = IF v = w THEN new ELSE worker[v]
  BY <1>1 DEF Inv, Typed
<1>3. Typed'
  BY <1>1, <1>2 DEF Inv, Typed, WorkerLeaves, Fields
<1>4. Traces'
  BY DEF Inv, Traces, WorkerLeaves, Alive, Over
<1>5. \A v \in Worker : Condemns(worker[v])'
  <2> SUFFICES ASSUME NEW v \in Worker PROVE Condemns(worker[v])'
      OBVIOUS
  <2>1. Condemns(worker'[v])
    BY <1>2 DEF Inv
  <2>2. UNCHANGED <<runner, oldRecord>>
    BY DEF WorkerLeaves
  <2> QED
    BY <2>1, <2>2 DEF Condemns, Over
<1> QED
  BY <1>3, <1>4, <1>5 DEF Inv

\* A step of a runner, or of time, leaves the workers alone.
LEMMA RunnerStep1 ==
    ASSUME Inv, [Next]_vars, worker' = worker, Typed', Traces',
           \A t \in Token : t \in oldRecord \ oldRecord' => runner[t] = "cleared",
           \A t \in Token : /\ t \in oldRecord
                            /\ runner[t] \notin {"moved", "pushing", "cleared"}
                            => runner'[t] \notin {"moved", "pushing", "cleared"}
    PROVE  Inv'
<1> SUFFICES ASSUME NEW w \in Worker PROVE Condemns(worker[w])'
    BY DEF Inv
<1>1. Condemns(worker[w])
  BY DEF Inv
<1>2. worker'[w] = worker[w]
  OBVIOUS
<1>3. \A t \in Token : Over(t) => runner'[t] \in {"ended", "dead"}
  BY RunnersGoOn DEF Inv, Over
<1> QED
  BY <1>1, <1>2, <1>3 DEF Condemns, Over

LEMMA InvNext == Inv /\ [Next]_vars => Inv'
<1> SUFFICES ASSUME Inv, [Next]_vars PROVE Inv'
    OBVIOUS
<1>t. /\ Typed /\ Traces /\ \A w \in Worker : Condemns(worker[w])
      /\ \A w \in Worker : Fields(worker[w])
  BY DEF Inv, Typed
<1>a. ASSUME NEW t \in Token, WriteTicket(t) \/ Runs(t) \/ RunnerDies(t)
                              \/ TakeReceipt(t) \/ RecordAges(t) \/ DirectoryAges(t)
      PROVE  Inv'
  <2>1. worker' = worker
    BY <1>a DEF WriteTicket, Runs, CreateLease, LockLease, MoveTicket, MakeDirectory,
                RemoveOwn, WriteReceipt, RunnerFails, RunnerDies, TakeReceipt, RecordAges,
                DirectoryAges, files, ages
  <2>2. Typed'
    BY <1>t, <1>a, <2>1
    DEF Typed, WriteTicket, Runs, CreateLease, LockLease, MoveTicket, MakeDirectory,
        RemoveOwn, WriteReceipt, RunnerFails, RunnerDies, TakeReceipt, RecordAges, DirectoryAges,
        files, ages, RunnerGoto, Release, RunnerStep, Fields
  <2>3. Traces'
    BY <1>t, <1>a
    DEF Typed, Traces, WriteTicket, Runs, CreateLease, LockLease, MoveTicket,
        MakeDirectory, RemoveOwn, WriteReceipt, RunnerFails, RunnerDies, TakeReceipt, RecordAges,
        DirectoryAges, files, ages, RunnerGoto, Release, Alive, Over
  <2>4. \A s \in Token : s \in oldRecord \ oldRecord' => runner[s] = "cleared"
    BY <1>a
    DEF WriteTicket, Runs, CreateLease, LockLease, MoveTicket, MakeDirectory, RemoveOwn,
        WriteReceipt, RunnerFails, RunnerDies, TakeReceipt, RecordAges, DirectoryAges, files, ages
  <2>5. \A s \in Token : /\ s \in oldRecord
                         /\ runner[s] \notin {"moved", "pushing", "cleared"}
                         => runner'[s] \notin {"moved", "pushing", "cleared"}
    BY <1>t, <1>a
    DEF Typed, WriteTicket, Runs, CreateLease, LockLease, MoveTicket, MakeDirectory,
        RemoveOwn, WriteReceipt, RunnerFails, RunnerDies, TakeReceipt, RecordAges, DirectoryAges,
        files, ages, RunnerGoto, Release
  <2> QED
    BY <2>1, <2>2, <2>3, <2>4, <2>5, RunnerStep1
\* A worker between two picks.
<1>b. ASSUME NEW w \in Worker, NEW new, WorkerSets(w, new), Fields(new),
             new.pc \notin {"remove", "unlink"}, new.kind \in 0 .. 3,
             new.pc = "records" /\ new.todo # <<>> => new.kind \in 1 .. 3,
             WorkerLeaves
      PROVE  Inv'
  BY <1>b, WorkerStep1 DEF Condemns
<1>1. ASSUME NEW w \in Worker, WorkerStarts(w) \/ SaveCursor(w) \/ WorkerFails(w)
      PROVE  Inv'
  <2>1. WorkerLeaves
    BY <1>1 DEF WorkerStarts, SaveCursor, WorkerFails, WorkerLeaves, files, ages
  <2>2. PICK new : /\ WorkerSets(w, new)
                   /\ \/ new = IdleWorker
                      \/ new = [IdleWorker EXCEPT !.pc = "list", !.next = cursor,
                                     !.oldRecord = oldRecord, !.oldDirectory = oldDirectory]
    BY <1>1 DEF WorkerStarts, SaveCursor, WorkerFails
  <2>3. Fields(new) /\ new.pc \in {"idle", "list"} /\ new.kind = 0
    <3>1. CASE new = IdleWorker
      BY <3>1 DEF Fields, IdleWorker
    <3>2. CASE new = [IdleWorker EXCEPT !.pc = "list", !.next = cursor,
                         !.oldRecord = oldRecord, !.oldDirectory = oldDirectory]
      BY <3>2 DEF Fields, IdleWorker
    <3> QED
      BY <2>2, <3>1, <3>2
  <2> QED
    BY <1>b, <2>1, <2>2, <2>3
<1>2. ASSUME NEW w \in Worker, ListDirectories(w) \/ DirectoriesDone(w) PROVE Inv'
  <2>1. WorkerLeaves
    BY <1>2 DEF ListDirectories, DirectoriesDone, WorkerLeaves, Mishap, files, ages
  <2>2. PICK todo, spent, new :
          /\ WorkerSets(w, new)
          /\ \/ new = [worker[w] EXCEPT !.pc = "wrap", !.todo = todo]
             \/ new = [worker[w] EXCEPT !.pc = "records", !.todo = <<>>, !.spent = spent]
    BY <1>2 DEF ListDirectories, DirectoriesDone
  <2>3. /\ Fields(new) /\ new.kind = worker[w].kind /\ new.pc \in {"wrap", "records"}
        /\ new.pc = "records" => new.todo = <<>>
    BY <1>t, <2>2 DEF Fields
  <2>4. new.kind \in 0 .. 3
    BY <1>t, <2>3 DEF Condemns
  <2> QED
    BY <1>b, <2>1, <2>2, <2>3, <2>4
<1>10. ASSUME NEW w \in Worker, WrapDirectories(w) PROVE Inv'
  <2>1. WorkerLeaves
    BY <1>10 DEF WrapDirectories, WorkerLeaves, files, ages
  <2>2. PICK todo, new :
          /\ WorkerSets(w, new)
          /\ new = [worker[w] EXCEPT !.todo = todo,
                       !.pc = IF todo = <<>> THEN "records" ELSE "directories",
                       !.next = IF todo = <<>> THEN 0 ELSE @]
    BY <1>10 DEF WrapDirectories
  <2>3. /\ Fields(new) /\ new.kind = worker[w].kind
        /\ new.pc \in {"directories", "records"}
        /\ new.pc = "records" => new.todo = <<>>
    BY <1>t, <2>2 DEF Fields
  <2>4. new.kind \in 0 .. 3
    BY <1>t, <2>3 DEF Condemns
  <2> QED
    BY <1>b, <2>1, <2>2, <2>3, <2>4
<1>3. ASSUME NEW w \in Worker, TestDirectory(w) PROVE Inv'
  <2> DEFINE t == Head(worker[w].todo).token
             stale == t \in directory /\ ~LeaseActive(t)
                      /\ t \in worker[w].oldDirectory
  <2>1. WorkerLeaves
    BY <1>3 DEF TestDirectory, WorkerLeaves, files, ages
  <2>2. PICK new, after :
          /\ WorkerSets(w, new) /\ worker[w].pc = "directories"
          /\ new = [worker[w] EXCEPT !.next = after, !.todo = Tail(@),
                                     !.pc = IF stale THEN "remove" ELSE @,
                                     !.pick = IF stale THEN t ELSE @]
    BY <1>3 DEF TestDirectory
  <2>3. /\ Fields(new) /\ new.kind = worker[w].kind
        /\ new.pc = IF stale THEN "remove" ELSE "directories"
        /\ stale => new.pick = t
    BY <1>t, <2>2 DEF Fields
  <2>4. stale => t \in Token /\ Over(t)
    BY <1>t DEF Typed, Traces, LeaseActive
  <2> HIDE DEF stale, t
  <2>5. Condemns(new)
    BY <1>t, <2>3, <2>4 DEF Condemns
  <2> QED
    BY <2>1, <2>2, <2>3, <2>5, WorkerStep1
<1>4. ASSUME NEW w \in Worker, RemoveTree(w) PROVE Inv'
  <2>1. WorkerLeaves
    BY <1>4 DEF RemoveTree, WorkerLeaves, Mishap, files, ages
  <2>2. PICK spent, new :
          /\ WorkerSets(w, new)
          /\ new = [worker[w] EXCEPT !.pc = "directories", !.attempts = @ + 1,
                                     !.spent = spent, !.pick = NoToken]
    BY <1>4 DEF RemoveTree
  <2>3. Fields(new) /\ new.pc = "directories" /\ new.kind = worker[w].kind
    BY <1>t, <2>2 DEF Fields
  <2>4. new.kind \in 0 .. 3
    BY <1>t, <2>3 DEF Condemns
  <2> QED
    BY <1>b, <2>1, <2>2, <2>3, <2>4
<1>5. ASSUME NEW w \in Worker, ListRecords(w) PROVE Inv'
  <2>1. WorkerLeaves
    BY <1>5 DEF ListRecords, WorkerLeaves, files, ages
  <2>2. worker[w].kind \in 0 .. 3 /\ Len(Kinds) = 3
    BY <1>t DEF Condemns, Kinds
  <2> DEFINE last == \/ worker[w].kind + 1 > Len(Kinds)
                     \/ worker[w].seen >= RecordLimit \/ TimeUp(worker[w])
  <2>3. CASE last
    <3>1. PICK new : WorkerSets(w, new) /\ new = [worker[w] EXCEPT !.pc = "save"]
      BY <1>5, <2>3 DEF ListRecords
    <3>2. Fields(new) /\ new.pc = "save" /\ new.kind = worker[w].kind
      BY <1>t, <3>1 DEF Fields
    <3> QED
      BY <1>b, <2>1, <2>2, <3>1, <3>2
  <2>4. CASE ~last
    <3>1. PICK todo, new : /\ WorkerSets(w, new)
                           /\ new = [worker[w] EXCEPT !.kind = worker[w].kind + 1,
                                                      !.todo = todo]
      BY <1>5, <2>4 DEF ListRecords
    <3>2. Fields(new) /\ new.pc = "records" /\ new.kind = worker[w].kind + 1
      BY <1>t, <1>5, <3>1 DEF ListRecords, Fields
    <3>3. new.kind \in 1 .. 3 /\ new.kind \in 0 .. 3
      BY <2>2, <2>4, <3>2
    <3> QED
      BY <1>b, <2>1, <3>1, <3>2, <3>3
  <2> QED
    BY <2>3, <2>4
<1>6. ASSUME NEW w \in Worker, TestRecord(w) PROVE Inv'
  <2> DEFINE t == Head(worker[w].todo)
             stale == /\ t \in Records(Kinds[worker[w].kind])
                      /\ Expired(w, t) /\ ~LeaseActive(t)
  <2>1. WorkerLeaves
    BY <1>6 DEF TestRecord, WorkerLeaves, files, ages
  <2>2. PICK new :
          /\ WorkerSets(w, new) /\ worker[w].pc = "records" /\ worker[w].todo # <<>>
          /\ new = [worker[w] EXCEPT !.seen = @ + 1, !.todo = Tail(@),
                                     !.pc = IF stale THEN "unlink" ELSE @,
                                     !.pick = IF stale THEN t ELSE @]
    BY <1>6 DEF TestRecord
  <2>3. /\ Fields(new) /\ new.kind = worker[w].kind
        /\ new.pc = IF stale THEN "unlink" ELSE "records"
        /\ stale => new.pick = t
    BY <1>t, <2>2 DEF Fields
  <2>4. worker[w].kind \in 1 .. 3
    BY <1>t, <2>2 DEF Condemns
  <2>5. ASSUME stale
        PROVE  /\ t \in Token /\ t \in oldRecord /\ ~Alive(t)
               /\ worker[w].kind # 1 => Over(t)
    <3>1. t \in oldRecord /\ ~Alive(t)
      BY <2>5 DEF Expired, LeaseActive
    <3>2. CASE worker[w].kind = 1
      BY <1>t, <2>5, <3>1, <3>2 DEF Kinds, Records, Typed
    <3>3. CASE worker[w].kind = 2
      BY <1>t, <2>5, <3>1, <3>3 DEF Kinds, Records, Typed, Traces
    <3>4. CASE worker[w].kind = 3
      BY <1>t, <2>5, <3>1, <3>4 DEF Kinds, Records, Typed, Traces
    <3> QED
      BY <2>4, <3>1, <3>2, <3>3, <3>4
  <2> HIDE DEF stale, t
  <2>6. Condemns(new)
    BY <2>3, <2>4, <2>5 DEF Condemns, Alive
  <2> QED
    BY <2>1, <2>2, <2>3, <2>6, WorkerStep1
<1>7. ASSUME NEW w \in Worker, RecordsDone(w) PROVE Inv'
  <2>1. WorkerLeaves
    BY <1>7 DEF RecordsDone, WorkerLeaves, Mishap, files, ages
  <2>2. PICK new : /\ WorkerSets(w, new)
                   /\ new = [worker[w] EXCEPT !.pc = "save", !.todo = <<>>]
    BY <1>7 DEF RecordsDone
  <2>3. Fields(new) /\ new.pc = "save" /\ new.kind = worker[w].kind
    BY <1>t, <2>2 DEF Fields
  <2>4. new.kind \in 0 .. 3
    BY <1>t, <2>3 DEF Condemns
  <2> QED
    BY <1>b, <2>1, <2>2, <2>3, <2>4
<1>8. ASSUME NEW w \in Worker, UnlinkRecord(w) PROVE Inv'
  <2>1. WorkerLeaves
    BY <1>8 DEF UnlinkRecord, Records, WorkerLeaves, files, ages
  <2>2. PICK new : /\ WorkerSets(w, new)
                   /\ new = [worker[w] EXCEPT !.pc = "records", !.pick = NoToken]
    BY <1>8 DEF UnlinkRecord
  <2>3. Fields(new) /\ new.pc = "records" /\ new.kind = worker[w].kind
    BY <1>t, <2>2 DEF Fields
  <2>4. new.kind \in 1 .. 3 /\ new.kind \in 0 .. 3
    BY <1>t, <1>8, <2>3 DEF Condemns, UnlinkRecord
  <2> QED
    BY <1>b, <2>1, <2>2, <2>3, <2>4
<1>9. CASE UNCHANGED vars
  BY <1>9 DEF Inv, Typed, Traces, Condemns, Fields, Alive, Over, vars, files, ages
<1> QED
  BY <1>a, <1>1, <1>2, <1>3, <1>4, <1>5, <1>6, <1>7, <1>8, <1>9,
     <1>10 DEF Next, Works

LEMMA SpecInv == Spec => []Inv
BY InvInit, InvNext, PTL DEF Spec

(***************************************************************************)
(* The directory and the running record of a runner that holds its lease   *)
(* stay, whatever a worker saw before.                                     *)
(***************************************************************************)
THEOREM LiveAlwaysKept == Spec => LiveKept
<1>1. ASSUME Inv, [Next]_vars, NEW t \in Token, Alive(t), runner'[t] = runner[t]
      PROVE  (t \in directory => t \in directory') /\ (t \in running => t \in running')
  <2>1. ASSUME NEW s \in Token, WriteTicket(s) \/ Runs(s) \/ RunnerDies(s)
                                \/ TakeReceipt(s) \/ RecordAges(s) \/ DirectoryAges(s)
        PROVE  (t \in directory => t \in directory') /\ (t \in running => t \in running')
    BY <1>1, <2>1
    DEF Inv, Typed, WriteTicket, Runs, CreateLease, LockLease, MoveTicket, MakeDirectory,
        RemoveOwn, WriteReceipt, RunnerFails, RunnerDies, TakeReceipt, RecordAges, DirectoryAges,
        files, ages, RunnerGoto, Release, Alive, RunnerStep
  <2>2. ASSUME NEW w \in Worker, RemoveTree(w)
        PROVE  (t \in directory => t \in directory') /\ (t \in running => t \in running')
    BY <1>1, <2>2 DEF Inv, Condemns, RemoveTree, Alive, Over
  <2>3. ASSUME NEW w \in Worker, UnlinkRecord(w)
        PROVE  (t \in directory => t \in directory') /\ (t \in running => t \in running')
    <3>1. worker[w].kind \in 1 .. 3 /\ (worker[w].kind # 1 => Over(worker[w].pick))
      BY <1>1, <2>3 DEF Inv, Condemns, UnlinkRecord
    <3>2. CASE worker[w].kind = 3
      BY <1>1, <2>3, <3>1, <3>2 DEF UnlinkRecord, Kinds, Records, Alive, Over
    <3>3. CASE worker[w].kind \in {1, 2}
      BY <2>3, <3>3 DEF UnlinkRecord, Kinds, Records
    <3> QED
      BY <3>1, <3>2, <3>3
  <2>4. CASE /\ \A s \in Token : ~(WriteTicket(s) \/ Runs(s) \/ RunnerDies(s)
                                   \/ TakeReceipt(s) \/ RecordAges(s) \/ DirectoryAges(s))
             /\ \A w \in Worker : ~RemoveTree(w) /\ ~UnlinkRecord(w)
    BY <1>1, <2>4
    DEF Next, Works, WorkerStarts, ListDirectories, WrapDirectories, TestDirectory,
        DirectoriesDone, ListRecords, TestRecord, RecordsDone, SaveCursor, WorkerFails,
        vars, files
  <2> QED
    BY <2>1, <2>2, <2>3, <2>4
<1>2. Inv /\ [Next]_vars => [\A t \in Token : Alive(t) /\ runner'[t] = runner[t]
                                 => /\ t \in directory => t \in directory'
                                    /\ t \in running => t \in running']_vars
  BY <1>1
<1> QED
  BY SpecInv, <1>2, PTL DEF Spec, LiveKept

(***************************************************************************)
(* A ticket or receipt a reader would still accept is never taken.         *)
(***************************************************************************)
THEOREM UsableAlwaysKept == Spec => UsableKept
<1>1. ASSUME Inv, [Next]_vars, NEW t \in Token \ oldRecord
      PROVE  /\ t \in request /\ runner'[t] = runner[t] => t \in request'
             /\ t \in status /\ taken' = taken => t \in status'
  <2> DEFINE Kept == /\ t \in request /\ runner'[t] = runner[t] => t \in request'
                     /\ t \in status /\ taken' = taken => t \in status'
  <2>1. ASSUME NEW s \in Token, WriteTicket(s) \/ Runs(s) \/ RunnerDies(s)
                                \/ TakeReceipt(s) \/ RecordAges(s) \/ DirectoryAges(s)
        PROVE  Kept
    BY <1>1, <2>1
    DEF Inv, Typed, Traces, WriteTicket, Runs, CreateLease, LockLease, MoveTicket,
        MakeDirectory, RemoveOwn, WriteReceipt, RunnerFails, RunnerDies, TakeReceipt, RecordAges,
        DirectoryAges, files, ages, RunnerGoto, Release, RunnerStep
  <2>2. ASSUME NEW w \in Worker, UnlinkRecord(w) PROVE Kept
    <3>1. worker[w].kind \in 1 .. 3 /\ worker[w].pick # t
      BY <1>1, <2>2 DEF Inv, Condemns, UnlinkRecord
    <3>2. CASE worker[w].kind = 1
      BY <2>2, <3>1, <3>2 DEF UnlinkRecord, Kinds, Records
    <3>3. CASE worker[w].kind = 2
      BY <2>2, <3>1, <3>3 DEF UnlinkRecord, Kinds, Records
    <3>4. CASE worker[w].kind = 3
      BY <2>2, <3>1, <3>4 DEF UnlinkRecord, Kinds, Records
    <3> QED
      BY <3>1, <3>2, <3>3, <3>4
  <2>3. CASE /\ \A s \in Token : ~(WriteTicket(s) \/ Runs(s) \/ RunnerDies(s)
                                   \/ TakeReceipt(s) \/ RecordAges(s) \/ DirectoryAges(s))
             /\ \A w \in Worker : ~UnlinkRecord(w)
    BY <1>1, <2>3
    DEF Next, Works, WorkerStarts, ListDirectories, WrapDirectories, TestDirectory,
        RemoveTree, DirectoriesDone, ListRecords, TestRecord, RecordsDone, SaveCursor,
        WorkerFails, vars, files
  <2> QED
    BY <2>1, <2>2, <2>3
<1>2. Inv /\ [Next]_vars =>
        [\A t \in Token \ oldRecord :
            /\ t \in request /\ runner'[t] = runner[t] => t \in request'
            /\ t \in status /\ taken' = taken => t \in status']_vars
  BY <1>1
<1> QED
  BY SpecInv, <1>2, PTL DEF Spec, UsableKept

------------------------------------------------------------------------------
(* Types.  What a worker still has to look at comes from a listing, which is *)
(* a recursive function of the directory: what it returns is proved by       *)
(* induction on the prefix it has seen.                                      *)

\* Induction over the naturals, for a set: there is no least number outside.
LEMMA NatInductive ==
  ASSUME NEW S, 0 \in S, \A n \in Nat : n \in S => n + 1 \in S
  PROVE  Nat \subseteq S
<1> DEFINE R == {p \in Nat \X Nat : p[1] < p[2]}
           T == Nat \ S
<1>1. IsWellFoundedOn(R, Nat)
  BY NatLessThanWellFounded, Zenon DEF OpToRel
<1>2. ASSUME T # {} PROVE FALSE
  <2>1. PICK n \in T : \A m \in T : <<m, n>> \notin R
    <3> HIDE DEF R
    <3> QED
      BY <1>1, <1>2, WFMin
  <2>2. n \in Nat /\ n # 0 /\ n - 1 \in Nat /\ n - 1 \notin T
    <3>1. n # 0 /\ n - 1 \in Nat
      OBVIOUS
    <3>2. <<n - 1, n>> \in R
      BY <3>1
    <3> QED
      BY <2>1, <3>1, <3>2
  <2> QED
    BY <2>2
<1> QED
  BY <1>2

\* The function Among is made of.
Selecting(s, S, g, n) ==
    g = [i \in 0 .. n |->
            IF i = 0 THEN <<>>
            ELSE IF s[i] \in S THEN Append(g[i - 1], s[i]) ELSE g[i - 1]]

LEMMA SelectingExists ==
  ASSUME NEW s, NEW S, NEW n \in Nat
  PROVE  \E g : Selecting(s, S, g, n)
<1> DEFINE Good == {m \in Nat : \E g : Selecting(s, S, g, m)}
<1>1. 0 \in Good
  <2>1. Selecting(s, S, [i \in 0 .. 0 |-> <<>>], 0)
    BY DEF Selecting
  <2> QED
    BY <2>1
<1>2. ASSUME NEW m \in Nat, m \in Good PROVE m + 1 \in Good
  <2>1. PICK g : Selecting(s, S, g, m)
    BY <1>2
  <2> DEFINE k == m + 1
             last == IF s[k] \in S THEN Append(g[m], s[k]) ELSE g[m]
             h == [i \in 0 .. k |-> IF i = k THEN last ELSE g[i]]
  <2>2. Selecting(s, S, h, k)
    <3>1. \A i \in 0 .. m : g[i] = IF i = 0 THEN <<>>
            ELSE IF s[i] \in S THEN Append(g[i - 1], s[i]) ELSE g[i - 1]
      BY <2>1 DEF Selecting
    <3>2. ASSUME NEW i \in 0 .. k
          PROVE  h[i] = IF i = 0 THEN <<>>
            ELSE IF s[i] \in S THEN Append(h[i - 1], s[i]) ELSE h[i - 1]
      <4>1. CASE i = k
        BY <4>1
      <4>2. CASE i # k
        <5>1. i \in 0 .. m /\ (i # 0 => i - 1 \in 0 .. m)
          BY <4>2
        <5> QED
          BY <3>1, <5>1, <4>2
      <4> QED
        BY <4>1, <4>2
    <3> QED
      BY <3>2 DEF Selecting
  <2> QED
    BY <2>2
<1> HIDE DEF Good
<1>3. Nat \subseteq Good
  BY <1>1, <1>2, NatInductive
<1> QED
  BY <1>3 DEF Good

LEMMA AmongIs ==
  ASSUME NEW T, NEW s \in Seq(T), NEW S
  PROVE  \E g : Selecting(s, S, g, Len(s)) /\ Among(s, S) = g[Len(s)]
<1>1. Len(s) \in Nat
  OBVIOUS
<1>2. \E g : Selecting(s, S, g, Len(s))
  BY <1>1, SelectingExists
<1> QED
  BY <1>2 DEF Among, Selecting

DistinctTo(s, n) == \A i, j \in 1 .. n : s[i] = s[j] => i = j

\* A sequence r selected from the first n elements of s.
Selected(r, s, n, S, T) ==
    /\ r \in Seq(T) /\ Len(r) <= n
    /\ \A j \in 1 .. Len(r) : r[j] \in S /\ \E i \in 1 .. n : r[j] = s[i]
    /\ DistinctTo(s, Len(s)) => DistinctTo(r, Len(r))

\* What is kept of a sequence comes from it, is in the set, and has no element
\* twice unless the sequence has.
LEMMA AmongTyped ==
  ASSUME NEW T, NEW s \in Seq(T), NEW S
  PROVE  Selected(Among(s, S), s, Len(s), S, T)
<1>1. PICK g : Selecting(s, S, g, Len(s)) /\ Among(s, S) = g[Len(s)]
  BY AmongIs
<1>2. \A i \in 0 .. Len(s) :
         g[i] = IF i = 0 THEN <<>>
                ELSE IF s[i] \in S THEN Append(g[i - 1], s[i]) ELSE g[i - 1]
  BY <1>1 DEF Selecting
<1> DEFINE Good == {n \in Nat : n <= Len(s) => Selected(g[n], s, n, S, T)}
<1>3. 0 \in Good
  <2>1. g[0] = <<>>
    BY <1>2
  <2>2. Selected(<<>>, s, 0, S, T)
    BY DEF Selected, DistinctTo
  <2> QED
    BY <2>1, <2>2
<1>4. ASSUME NEW n \in Nat, n \in Good PROVE n + 1 \in Good
  <2> SUFFICES ASSUME n + 1 <= Len(s) PROVE Selected(g[n + 1], s, n + 1, S, T)
    OBVIOUS
  <2> DEFINE r == g[n]
             q == g[n + 1]
             x == s[n + 1]
  <2>1. Selected(r, s, n, S, T)
    BY <1>4
  <2>2. q = IF x \in S THEN Append(r, x) ELSE r
    BY <1>2, n + 1 \in 0 .. Len(s), (n + 1) - 1 = n
  <2>3. x \in T
    OBVIOUS
  <2> HIDE DEF r, q
  <2>4. ASSUME x \notin S PROVE Selected(q, s, n + 1, S, T)
    <3>1. q = r
      BY <2>2, <2>4
    <3>2. Len(r) \in Nat /\ Len(r) <= n + 1
      BY <2>1 DEF Selected
    <3>3. \A j \in 1 .. Len(r) : r[j] \in S /\ \E i \in 1 .. n + 1 : r[j] = s[i]
      <4>1. 1 .. n \subseteq 1 .. n + 1
        OBVIOUS
      <4> QED
        BY <2>1, <4>1 DEF Selected
    <3> QED
      BY <2>1, <3>1, <3>2, <3>3 DEF Selected
  <2>5. ASSUME x \in S PROVE Selected(q, s, n + 1, S, T)
    <3>1. q = Append(r, x) /\ q \in Seq(T) /\ Len(q) = Len(r) + 1
      BY <2>1, <2>2, <2>3, <2>5 DEF Selected
    <3>2. \A j \in 1 .. Len(q) : (j \in 1 .. Len(r) /\ q[j] = r[j]) \/ (j = Len(r) + 1 /\ q[j] = x)
      BY <2>1, <2>3, <3>1 DEF Selected
    <3>3. \A j \in 1 .. Len(q) : q[j] \in S /\ \E i \in 1 .. n + 1 : q[j] = s[i]
      BY <2>1, <2>5, <3>2 DEF Selected
    <3>4. ASSUME DistinctTo(s, Len(s)) PROVE DistinctTo(q, Len(q))
      <4>1. \A m \in 1 .. n : s[m] # x
        BY <3>4 DEF DistinctTo
      <4>2. \A k \in 1 .. Len(r) : r[k] # x
        BY <2>1, <4>1 DEF Selected
      <4>3. \A i, j \in 1 .. Len(r) : r[i] = r[j] => i = j
        BY <2>1, <3>4 DEF Selected, DistinctTo
      <4> QED
        BY <3>2, <4>2, <4>3 DEF DistinctTo
    <3>5. Len(q) <= n + 1
      BY <2>1, <3>1 DEF Selected
    <3>6. q \in Seq(T)
      BY <3>1
    <3> HIDE DEF x
    <3> QED
      BY <3>3, <3>4, <3>5, <3>6 DEF Selected
  <2>6. Selected(q, s, n + 1, S, T)
    BY <2>4, <2>5
  <2> QED
    BY <2>6 DEF q
<1> HIDE DEF Good
<1>5. Nat \subseteq Good
  BY <1>3, <1>4, NatInductive
<1>6. Selected(g[Len(s)], s, Len(s), S, T)
  BY <1>5 DEF Good
<1> QED
  BY <1>1, <1>6

LEMMA MinOfTwo ==
  ASSUME NEW a \in Int, NEW b \in Int
  PROVE  Min({a, b}) = IF a <= b THEN a ELSE b
<1> DEFINE m == IF a <= b THEN a ELSE b
<1>1. m \in {a, b} /\ \A y \in {a, b} : m <= y
  OBVIOUS
<1>2. \A x \in {a, b} : (\A y \in {a, b} : x <= y) => x = m
  OBVIOUS
<1> QED
  BY <1>1, <1>2 DEF Min

\* A slice is a stretch of the sequence, and no longer than asked for.
LEMMA SliceIs ==
  ASSUME NEW T, NEW s \in Seq(T), NEW p \in Nat, NEW n \in Nat
  PROVE  /\ Slice(s, p, n) \in Seq(T)
         /\ Len(Slice(s, p, n)) <= Len(s) /\ (Slice(s, p, n) # <<>> => p + Len(Slice(s, p, n)) <= Len(s))
         /\ \A i \in 1 .. Len(Slice(s, p, n)) : p + i \in 1 .. Len(s) /\ Slice(s, p, n)[i] = s[p + i]
<1> DEFINE b == IF p + n <= Len(s) THEN p + n ELSE Len(s)
           q == SubSeq(s, p + 1, b)
<1>1. b \in Nat /\ b <= Len(s) /\ p + 1 \in Nat
  OBVIOUS
<1>2. Slice(s, p, n) = q
  <2>1. Min({p + n, Len(s)}) = b
    BY MinOfTwo
  <2> QED
    BY <2>1 DEF Slice
<1> HIDE DEF b
<1>3. \A i \in p + 1 .. b : s[i] \in T
  BY <1>1
<1>4. /\ q \in Seq(T)
      /\ Len(q) = IF p + 1 <= b THEN b - (p + 1) + 1 ELSE 0
      /\ \A i \in 1 .. b - (p + 1) + 1 : q[i] = s[p + 1 + i - 1]
  BY <1>1, <1>3, SubSeqProperties
<1> HIDE DEF q
<1>5. Len(q) <= Len(s) /\ (q # <<>> => p + Len(q) <= Len(s))
  BY <1>1, <1>4
<1>6. ASSUME NEW i \in 1 .. Len(q) PROVE p + i \in 1 .. Len(s) /\ q[i] = s[p + i]
  <2>1. i \in 1 .. b - (p + 1) + 1 /\ p + 1 + i - 1 = p + i /\ p + i <= b
    BY <1>1, <1>4
  <2>2. q[i] = s[p + 1 + i - 1]
    BY <1>4, <2>1
  <2>3. p + i \in 1 .. Len(s)
    BY <1>1, <2>1
  <2> QED
    BY <2>1, <2>2, <2>3
<1> QED
  BY <1>2, <1>4, <1>5, <1>6

(***************************************************************************)
(* Every variable has its type.  That a worker's list is never longer than *)
(* there are runners needs more than types: the window that goes on from   *)
(* the start of a second listing shows no directory twice, so its length   *)
(* is that of an injection into the runners.                               *)
(***************************************************************************)
N == Cardinality(Token)

Candidate == [token : Token, after : 0 .. N]

\* A list of directories: none twice.
DirectoryList ==
    {q \in Seq(Candidate) : \A i, j \in 1 .. Len(q) : q[i].token = q[j].token => i = j}

RecordList == {q \in Seq(Token) : Len(q) <= N}

WorkerFields ==
    [pc : WorkerStep, oldRecord : SUBSET Token, oldDirectory : SUBSET Token,
     todo : DirectoryList \cup RecordList, next : 0 .. N, attempts : 0 .. DirectoryLimit,
     spent : 0 .. Budget, seen : 0 .. RecordLimit, kind : 0 .. 3, pick : Token \cup {NoToken}]

\* What the list holds depends on where the worker is.
Stage(me) ==
    /\ me.pc \in {"list", "wrap", "directories", "remove"} => me.todo \in DirectoryList
    /\ me.pc \in {"records", "unlink"} => me.todo \in RecordList
    /\ me.pc = "remove" => me.attempts < DirectoryLimit /\ me.spent < Budget

WorkerType == {me \in WorkerFields : Stage(me)}

FilesTyped ==
    /\ runner \in [Token -> RunnerStep]
    /\ lease \subseteq Token /\ request \subseteq Token /\ running \subseteq Token
    /\ status \subseteq Token /\ directory \subseteq Token /\ oldRecord \subseteq Token
    /\ oldDirectory \subseteq Token /\ taken \subseteq Token
    /\ flight \in Worker \cup {NoWorker} /\ cursor \in 0 .. N
    /\ deaths \in 0 .. MaxDeaths /\ mishaps \in 0 .. MaxMishaps

WorkersTyped == worker \in [Worker -> WorkerType]

LEMMA NTyped == N \in Nat
BY CleanupAssumption, FS_CardinalityType DEF N

\* A list without repetition is no longer than there are runners.
LEMMA DirectoryListShort ==
  ASSUME NEW q \in DirectoryList
  PROVE  q \in Seq(Candidate) /\ Len(q) \in Nat /\ Len(q) <= N
<1>1. q \in Seq(Candidate) /\ Len(q) \in Nat
  BY DEF DirectoryList
<1> DEFINE f == [i \in 1 .. Len(q) |-> q[i].token]
<1>2. f \in [1 .. Len(q) -> Token]
  <2>1. \A i \in 1 .. Len(q) : q[i] \in Candidate
    BY <1>1
  <2> QED
    BY <2>1 DEF Candidate
<1>3. \A i, j \in 1 .. Len(q) : f[i] = f[j] => i = j
  BY DEF DirectoryList
<1>4. f \in Injection(1 .. Len(q), Token)
  BY <1>2, <1>3 DEF Injection, IsInjective
<1> HIDE DEF f
<1>5. Cardinality(1 .. Len(q)) <= Cardinality(Token)
  BY <1>4, CleanupAssumption, FS_Injection
<1>6. Cardinality(1 .. Len(q)) = Len(q)
  <2> DEFINE n == Len(q)
  <2>1. n \in Nat
    BY <1>1
  <2> HIDE DEF n
  <2>2. Cardinality(1 .. n) = IF 1 > n THEN 0 ELSE n - 1 + 1
    BY <2>1, FS_Interval
  <2>3. Cardinality(1 .. n) = n
    BY <2>1, <2>2
  <2> QED
    BY <2>3 DEF n
<1> QED
  BY <1>1, <1>5, <1>6 DEF N

LEMMA EmptyLists == <<>> \in DirectoryList /\ <<>> \in RecordList
BY NTyped DEF DirectoryList, RecordList

\* A listing of some of the runners' files.
LEMMA ListingTyped ==
  ASSUME NEW S
  PROVE  /\ Among(Order, S) \in Seq(Token) /\ Len(Among(Order, S)) <= N
         /\ DistinctTo(Among(Order, S), Len(Among(Order, S)))
<1>1. Order \in Seq(Token) /\ Len(Order) = N /\ DistinctTo(Order, Len(Order))
  <2>1. Order \in [1 .. N -> Token] /\ \A i, j \in 1 .. N : Order[i] = Order[j] => i = j
    BY CleanupAssumption DEF IsInjective, N
  <2>2. Order \in Seq(Token) /\ Len(Order) = N
    BY <2>1, NTyped
  <2> QED
    BY <2>1, <2>2 DEF DistinctTo
<1>2. Selected(Among(Order, S), Order, Len(Order), S, Token)
  BY <1>1, AmongTyped
<1> QED
  BY <1>1, <1>2 DEF Selected

\* The candidates of a listing, or of a slice of it from the cursor on.
LEMMA CandidatesTyped ==
  ASSUME NEW s \in Seq(Token), NEW p \in Nat, DistinctTo(s, Len(s)),
         s # <<>> => p + Len(s) <= N
  PROVE  Candidates(s, p) \in DirectoryList
<1> DEFINE q == Candidates(s, p)
<1>1. \A i \in 1 .. Len(s) : [token |-> s[i], after |-> After(p + i)] \in Candidate
  BY NTyped DEF Candidate, After
<1>2. q \in Seq(Candidate) /\ Len(q) = Len(s) /\ \A i \in 1 .. Len(s) : q[i].token = s[i]
  BY <1>1 DEF Candidates
<1> QED
  BY <1>2 DEF DirectoryList, DistinctTo

\* What the second listing adds repeats neither itself nor the first.
LEMMA WrappedTyped ==
  ASSUME NEW old \in DirectoryList, NEW all \in DirectoryList
  PROVE  Wrapped(old, all) \in DirectoryList
<1> DEFINE seen == {old[i].token : i \in DOMAIN old}
           C == {c \in ToSet(all) : c.token \notin seen}
           more == Among(all, C)
           both == old \o more
           q == Slice(both, 0, ScanLimit)
<1>1. /\ old \in Seq(Candidate) /\ all \in Seq(Candidate)
      /\ DOMAIN old = 1 .. Len(old) /\ DOMAIN all = 1 .. Len(all)
      /\ Len(old) \in Nat /\ Len(all) \in Nat
      /\ \A i, j \in 1 .. Len(old) : old[i].token = old[j].token => i = j
      /\ \A i, j \in 1 .. Len(all) : all[i].token = all[j].token => i = j
  BY DEF DirectoryList
<1>2. Selected(more, all, Len(all), C, Candidate)
  BY <1>1, AmongTyped
<1>3. DistinctTo(all, Len(all))
  BY <1>1 DEF DistinctTo
<1>4. \A i \in 1 .. Len(more) : more[i].token \notin seen
  BY <1>2 DEF Selected
<1>5. \A i \in 1 .. Len(old) : old[i].token \in seen
  BY <1>1
<1> HIDE DEF seen, more
<1>6. /\ more \in Seq(Candidate) /\ Len(more) \in Nat /\ DistinctTo(more, Len(more))
      /\ \A i \in 1 .. Len(more) : \E k \in 1 .. Len(all) : more[i] = all[k]
  BY <1>2, <1>3 DEF Selected
<1>7. ASSUME NEW i \in 1 .. Len(more), NEW j \in 1 .. Len(more), more[i].token = more[j].token
      PROVE  i = j
  <2>1. PICK k \in 1 .. Len(all) : more[i] = all[k]
    BY <1>6
  <2>2. PICK l \in 1 .. Len(all) : more[j] = all[l]
    BY <1>6
  <2>3. k = l
    BY <1>1, <1>7, <2>1, <2>2
  <2> QED
    BY <1>6, <2>1, <2>2, <2>3 DEF DistinctTo
<1>8. /\ both \in Seq(Candidate) /\ Len(both) = Len(old) + Len(more)
      /\ \A i \in 1 .. Len(old) + Len(more) :
            both[i] = IF i <= Len(old) THEN old[i] ELSE more[i - Len(old)]
  BY <1>1, <1>6, ConcatProperties
<1> HIDE DEF both
<1>9. ASSUME NEW i \in 1 .. Len(both), NEW j \in 1 .. Len(both), both[i].token = both[j].token
      PROVE  i = j
  <2>1. CASE i <= Len(old) /\ j <= Len(old)
    <3>1. i \in 1 .. Len(old) /\ j \in 1 .. Len(old) /\ both[i] = old[i] /\ both[j] = old[j]
      BY <1>1, <1>6, <1>8, <2>1
    <3> QED
      BY <1>1, <1>9, <3>1
  <2>2. CASE i > Len(old) /\ j > Len(old)
    <3>1. /\ i - Len(old) \in 1 .. Len(more) /\ j - Len(old) \in 1 .. Len(more)
          /\ both[i] = more[i - Len(old)] /\ both[j] = more[j - Len(old)]
      BY <1>1, <1>6, <1>8, <2>2
    <3>2. i - Len(old) = j - Len(old)
      BY <1>7, <1>9, <3>1
    <3> QED
      BY <1>1, <3>2
  <2>3. ASSUME NEW a \in 1 .. Len(both), NEW b \in 1 .. Len(both), a <= Len(old), b > Len(old)
        PROVE  both[a].token # both[b].token
    <3>1. /\ a \in 1 .. Len(old) /\ b - Len(old) \in 1 .. Len(more)
          /\ both[a] = old[a] /\ both[b] = more[b - Len(old)]
      BY <1>1, <1>6, <1>8, <2>3
    <3> QED
      BY <1>4, <1>5, <3>1
  <2> QED
    BY <1>1, <1>9, <2>1, <2>2, <2>3
<1>10. ScanLimit \in Nat
  BY CleanupAssumption
<1>11. /\ q \in Seq(Candidate)
       /\ \A i \in 1 .. Len(q) : 0 + i \in 1 .. Len(both) /\ q[i] = both[0 + i]
  BY <1>8, <1>10, SliceIs
<1> HIDE DEF q
<1>12. q \in DirectoryList
  BY <1>9, <1>11 DEF DirectoryList
<1> QED
  BY <1>12 DEF Wrapped, q, both, more, seen

TypeInv == FilesTyped /\ WorkersTyped

LEMMA TypeInit == Init => TypeInv
<1> SUFFICES ASSUME Init PROVE TypeInv
    OBVIOUS
<1>1. FilesTyped
  BY CleanupAssumption, NTyped DEF Init, FilesTyped, RunnerStep
<1>2. IdleWorker \in WorkerType
  BY CleanupAssumption, NTyped, EmptyLists
     DEF IdleWorker, WorkerType, WorkerFields, Stage, WorkerStep
<1> QED
  BY <1>1, <1>2 DEF Init, TypeInv, WorkersTyped

\* Runners, and the passing of time, keep the types and leave the workers alone.
LEMMA RunnerTypes ==
  ASSUME TypeInv, NEW t \in Token,
         \/ WriteTicket(t) \/ Runs(t) \/ RunnerDies(t)
         \/ TakeReceipt(t) \/ RecordAges(t) \/ DirectoryAges(t)
  PROVE  TypeInv'
<1>1. WorkersTyped'
  BY DEF TypeInv, WorkersTyped, Runs, WriteTicket, CreateLease, LockLease, MoveTicket,
         MakeDirectory, RemoveOwn, WriteReceipt, RunnerFails, RunnerDies, TakeReceipt, RecordAges,
         DirectoryAges
<1>2. FilesTyped
  BY DEF TypeInv
<1>3. ASSUME \/ WriteTicket(t) \/ CreateLease(t) \/ LockLease(t) \/ MakeDirectory(t)
      PROVE  FilesTyped'
  BY <1>2, <1>3 DEF FilesTyped, WriteTicket, CreateLease, LockLease, MakeDirectory,
                    RunnerGoto, RunnerStep, files, ages
<1>4. ASSUME MoveTicket(t) PROVE FilesTyped'
  BY <1>2, <1>4 DEF FilesTyped, MoveTicket, Release, RunnerGoto, RunnerStep, ages
<1>5. ASSUME RemoveOwn(t) PROVE FilesTyped'
  BY <1>2, <1>5, CleanupAssumption DEF FilesTyped, RemoveOwn, Mishap, RunnerGoto, RunnerStep, ages
<1>6. ASSUME WriteReceipt(t) PROVE FilesTyped'
  BY <1>2, <1>6 DEF FilesTyped, WriteReceipt, Release, RunnerGoto, RunnerStep
<1>7. ASSUME RunnerFails(t) PROVE FilesTyped'
  BY <1>2, <1>7 DEF FilesTyped, RunnerFails, Release, RunnerGoto, RunnerStep, ages
<1>8. ASSUME RunnerDies(t) PROVE FilesTyped'
  BY <1>2, <1>8, CleanupAssumption DEF FilesTyped, RunnerDies, RunnerGoto, RunnerStep, files, ages
<1>9. ASSUME TakeReceipt(t) \/ RecordAges(t) \/ DirectoryAges(t) PROVE FilesTyped'
  BY <1>2, <1>9 DEF FilesTyped, TakeReceipt, RecordAges, DirectoryAges, files, ages
<1>10. FilesTyped'
  BY <1>3, <1>4, <1>5, <1>6, <1>7, <1>8, <1>9 DEF Runs
<1> QED
  BY <1>1, <1>10 DEF TypeInv

\* A worker that goes on in its type leaves the others in theirs.
LEMMA WorkersStayTyped ==
  ASSUME WorkersTyped, NEW w \in Worker, NEW new \in WorkerType, WorkerSets(w, new)
  PROVE  WorkersTyped'
BY DEF WorkersTyped, WorkerSets

LEMMA RecordsTyped ==
  ASSUME FilesTyped, NEW kind \in {"request", "status", "running"}
  PROVE  Records(kind) \subseteq Token
BY DEF Records, FilesTyped

LEMMA WorkTypes ==
  ASSUME TypeInv, NEW w \in Worker, Works(w) \/ WorkerFails(w)
  PROVE  TypeInv'
<1> DEFINE me == worker[w]
<1>a. FilesTyped /\ WorkersTyped /\ N \in Nat
  BY NTyped DEF TypeInv
<1>b. me \in WorkerFields /\ Stage(me)
  BY <1>a DEF WorkersTyped, WorkerType
<1>c. IdleWorker \in WorkerType
  BY CleanupAssumption, NTyped, EmptyLists
     DEF IdleWorker, WorkerType, WorkerFields, Stage, WorkerStep
<1>1. CASE WorkerStarts(w)
  <2>1. [IdleWorker EXCEPT !.pc = "list", !.next = cursor, !.oldRecord = oldRecord,
                           !.oldDirectory = oldDirectory] \in WorkerType
    <3>1. IdleWorker \in WorkerFields /\ IdleWorker.todo = <<>>
      BY <1>c DEF WorkerType, IdleWorker
    <3>2. oldRecord \in SUBSET Token /\ oldDirectory \in SUBSET Token /\ cursor \in 0 .. N
      BY <1>a DEF FilesTyped
    <3> QED
      BY <3>1, <3>2, EmptyLists DEF WorkerType, WorkerFields, Stage, WorkerStep
  <2>2. WorkersTyped'
    BY <1>1, <1>a, <2>1, WorkersStayTyped DEF WorkerStarts
  <2> QED
    BY <1>1, <1>a, <2>2 DEF TypeInv, FilesTyped, WorkerStarts, files, ages
<1>2. CASE ListDirectories(w)
  <2>1. PICK tail \in {Slice(Listing, cursor, ScanLimit)} :
           WorkerSets(w, [worker[w] EXCEPT !.pc = "wrap", !.todo = Candidates(tail, cursor)])
    BY <1>2 DEF ListDirectories
  <2> DEFINE L == Listing
  <2>2. L \in Seq(Token) /\ Len(L) <= N /\ DistinctTo(L, Len(L))
    BY ListingTyped DEF Listing
  <2>3. tail = Slice(L, cursor, ScanLimit) /\ cursor \in Nat /\ ScanLimit \in Nat
    BY <2>1, <1>a, CleanupAssumption DEF FilesTyped
  <2> HIDE DEF L
  <2>4. /\ tail \in Seq(Token) /\ Len(tail) \in Nat
        /\ tail # <<>> => cursor + Len(tail) <= Len(L)
        /\ \A i \in 1 .. Len(tail) : cursor + i \in 1 .. Len(L) /\ tail[i] = L[cursor + i]
    BY <2>2, <2>3, SliceIs
  <2>5. DistinctTo(tail, Len(tail))
    <3> SUFFICES ASSUME NEW i \in 1 .. Len(tail), NEW j \in 1 .. Len(tail), tail[i] = tail[j]
                 PROVE  i = j
      BY DEF DistinctTo
    <3>1. cursor + i = cursor + j
      BY <2>2, <2>4 DEF DistinctTo
    <3> QED
      BY <2>3, <2>4, <3>1
  <2>6. tail # <<>> => cursor + Len(tail) <= N
    BY <1>a, <2>2, <2>3, <2>4
  <2>7. Candidates(tail, cursor) \in DirectoryList
    BY <2>3, <2>4, <2>5, <2>6, CandidatesTyped
  <2>8. [me EXCEPT !.pc = "wrap", !.todo = Candidates(tail, cursor)] \in WorkerType
    BY <1>b, <2>7 DEF WorkerType, WorkerFields, Stage, WorkerStep
  <2>9. WorkersTyped'
    BY <1>a, <2>1, <2>8, WorkersStayTyped
  <2> QED
    BY <1>2, <1>a, <2>9 DEF TypeInv, FilesTyped, ListDirectories, files, ages
<1>3. CASE WrapDirectories(w)
  <2>1. PICK all \in {Candidates(Listing, 0)} : \E todo \in {Wrapped(worker[w].todo, all)} :
          WorkerSets(w, [worker[w] EXCEPT !.todo = todo,
                            !.pc = IF todo = <<>> THEN "records" ELSE "directories",
                            !.next = IF todo = <<>> THEN 0 ELSE @])
    BY <1>3 DEF WrapDirectories
  <2>2. PICK todo \in {Wrapped(worker[w].todo, all)} :
          WorkerSets(w, [worker[w] EXCEPT !.todo = todo,
                            !.pc = IF todo = <<>> THEN "records" ELSE "directories",
                            !.next = IF todo = <<>> THEN 0 ELSE @])
    BY <2>1
  <2> DEFINE L == Listing
  <2>3. L \in Seq(Token) /\ Len(L) \in Nat /\ Len(L) <= N /\ DistinctTo(L, Len(L))
    BY ListingTyped DEF Listing
  <2> HIDE DEF L
  <2>4. Candidates(L, 0) \in DirectoryList
    BY <2>3, CandidatesTyped
  <2>5. all \in DirectoryList
    BY <2>4 DEF L
  <2>6. me.todo \in DirectoryList
    BY <1>3, <1>b DEF WrapDirectories, Stage
  <2>7. todo \in DirectoryList
    BY <2>5, <2>6, WrappedTyped
  <2>8. [me EXCEPT !.todo = todo, !.pc = IF todo = <<>> THEN "records" ELSE "directories",
                   !.next = IF todo = <<>> THEN 0 ELSE @] \in WorkerType
    <3>1. 0 \in 0 .. N
      BY <1>a
    <3>2. CASE todo = <<>>
      BY <1>b, <2>7, <3>1, <3>2, EmptyLists DEF WorkerType, WorkerFields, Stage, WorkerStep
    <3>3. CASE todo # <<>>
      <4>1. [me EXCEPT !.todo = todo, !.pc = "directories"] \in WorkerType
        BY <1>b, <2>7 DEF WorkerType, WorkerFields, Stage, WorkerStep
      <4>2. [me EXCEPT !.todo = todo, !.pc = IF todo = <<>> THEN "records" ELSE "directories",
                       !.next = IF todo = <<>> THEN 0 ELSE @]
            = [me EXCEPT !.todo = todo, !.pc = "directories"]
        BY <1>b, <3>3 DEF WorkerFields
      <4> QED
        BY <4>1, <4>2
    <3> QED
      BY <3>2, <3>3
  <2>9. WorkersTyped'
    BY <1>a, <2>2, <2>8, WorkersStayTyped
  <2> QED
    BY <1>3, <1>a, <2>9 DEF TypeInv, FilesTyped, WrapDirectories, files, ages
<1>4. CASE TestDirectory(w)
  <2> DEFINE t == Head(me.todo).token
             stale == t \in directory /\ ~LeaseActive(t) /\ t \in me.oldDirectory
             q == me.todo
  <2>1. /\ q \in DirectoryList /\ q # <<>> /\ q \in Seq(Candidate)
        /\ me.attempts < DirectoryLimit /\ me.spent < Budget
    BY <1>4, <1>b, CleanupAssumption
       DEF TestDirectory, TimeUp, Stage, DirectoryList, WorkerFields
  <2>2. Head(q) \in Candidate /\ Tail(q) \in Seq(Candidate) /\ Len(Tail(q)) = Len(q) - 1
        /\ \A i \in 1 .. Len(Tail(q)) : Tail(q)[i] = q[i + 1]
    BY <2>1, HeadTailProperties
  <2>3. Tail(q) \in DirectoryList
    <3>1. Len(q) \in Nat
      BY <2>1
    <3> SUFFICES ASSUME NEW i \in 1 .. Len(Tail(q)), NEW j \in 1 .. Len(Tail(q)),
                        Tail(q)[i].token = Tail(q)[j].token
                 PROVE  i = j
      BY <2>2 DEF DirectoryList
    <3>2. i + 1 \in 1 .. Len(q) /\ j + 1 \in 1 .. Len(q)
      BY <2>2, <3>1
    <3>3. i + 1 = j + 1
      BY <2>1, <2>2, <3>2 DEF DirectoryList
    <3> QED
      BY <2>2, <3>1, <3>3
  <2>4. Head(q).after \in 0 .. N /\ t \in Token
    BY <2>2 DEF Candidate
  <2> DEFINE new == [me EXCEPT !.next = Head(me.todo).after, !.todo = Tail(@),
                            !.pc = IF stale THEN "remove" ELSE @,
                            !.pick = IF stale THEN t ELSE @]
  <2>5. WorkerSets(w, new) /\ me.pc = "directories"
    BY <1>4 DEF TestDirectory
  <2>6. new = [me EXCEPT !.next = Head(q).after, !.todo = Tail(q),
                            !.pc = IF stale THEN "remove" ELSE "directories",
                            !.pick = IF stale THEN t ELSE me.pick]
    BY <1>b, <2>5 DEF WorkerFields
  <2> HIDE DEF t, stale, new, q
  <2>7. new \in WorkerType
    BY <1>b, <2>1, <2>3, <2>4, <2>5, <2>6 DEF WorkerType, WorkerFields, Stage, WorkerStep
  <2>8. WorkersTyped'
    BY <1>a, <2>5, <2>7, WorkersStayTyped
  <2> QED
    BY <1>4, <1>a, <2>8 DEF TypeInv, FilesTyped, TestDirectory, files, ages
<1>5. CASE RemoveTree(w)
  <2>1. /\ me.todo \in DirectoryList /\ me.attempts < DirectoryLimit /\ me.spent < Budget
        /\ Budget \in Nat /\ DirectoryLimit \in Nat
    BY <1>5, <1>b, CleanupAssumption DEF RemoveTree, Stage
  <2>2. PICK spent \in {me.spent, Hung(me)} :
           WorkerSets(w, [me EXCEPT !.pc = "directories", !.attempts = @ + 1,
                                    !.spent = spent, !.pick = NoToken])
    BY <1>5 DEF RemoveTree
  <2>3. spent \in 0 .. Budget /\ me.attempts + 1 \in 0 .. DirectoryLimit
    BY <1>b, <2>1 DEF WorkerFields, Hung
  <2>4. [me EXCEPT !.pc = "directories", !.attempts = @ + 1, !.spent = spent,
                   !.pick = NoToken] \in WorkerType
    BY <1>b, <2>1, <2>3 DEF WorkerType, WorkerFields, Stage, WorkerStep
  <2>5. WorkersTyped'
    BY <1>a, <2>2, <2>4, WorkersStayTyped
  <2>6. directory' \subseteq directory /\ (mishaps' = mishaps \/ Mishap)
    BY <1>5 DEF RemoveTree
  <2> QED
    BY <1>5, <1>a, <2>5, <2>6, CleanupAssumption
       DEF TypeInv, FilesTyped, RemoveTree, Mishap, ages
<1>6. CASE DirectoriesDone(w)
  <2>1. PICK spent \in {me.spent, Budget} :
           WorkerSets(w, [me EXCEPT !.pc = "records", !.todo = <<>>, !.spent = spent])
    BY <1>6 DEF DirectoriesDone
  <2>2. spent \in 0 .. Budget
    BY <1>b, <2>1, CleanupAssumption DEF WorkerFields
  <2>3. [me EXCEPT !.pc = "records", !.todo = <<>>, !.spent = spent] \in WorkerType
    BY <1>b, <2>2, EmptyLists DEF WorkerType, WorkerFields, Stage, WorkerStep
  <2>4. WorkersTyped'
    BY <1>a, <2>1, <2>3, WorkersStayTyped
  <2>5. mishaps' = mishaps \/ Mishap
    BY <1>6 DEF DirectoriesDone
  <2> QED
    BY <1>6, <1>a, <2>4, <2>5, CleanupAssumption
       DEF TypeInv, FilesTyped, DirectoriesDone, Mishap, files, ages
<1>7. CASE ListRecords(w)
  <2> DEFINE kind == me.kind + 1
             found == IF kind > Len(Kinds) THEN {} ELSE Records(Kinds[kind])
             new == IF kind > Len(Kinds) \/ me.seen >= RecordLimit \/ TimeUp(me)
                        THEN [me EXCEPT !.pc = "save"]
                        ELSE [me EXCEPT !.kind = kind,
                                !.todo = Among(Order, found)]
  <2>1. WorkerSets(w, new) /\ me.pc = "records" /\ Len(Kinds) = 3 /\ me.kind \in 0 .. 3
    BY <1>7, <1>b DEF ListRecords, Kinds, WorkerFields
  <2>2. Among(Order, found) \in RecordList
    BY ListingTyped DEF RecordList
  <2> HIDE DEF found
  <2>3. new \in WorkerType
    <3>1. [me EXCEPT !.pc = "save"] \in WorkerType
      BY <1>b DEF WorkerType, WorkerFields, Stage, WorkerStep
    <3>2. ASSUME kind <= 3 PROVE [me EXCEPT !.kind = kind, !.todo = Among(Order, found)] \in WorkerType
      <4>1. kind \in 0 .. 3
        BY <2>1, <3>2
      <4> HIDE DEF kind
      <4> QED
        BY <1>b, <2>1, <2>2, <4>1 DEF WorkerType, WorkerFields, Stage, WorkerStep
    <3> QED
      BY <2>1, <3>1, <3>2
  <2> HIDE DEF new
  <2>4. WorkersTyped'
    BY <1>a, <2>1, <2>3, WorkersStayTyped
  <2> QED
    BY <1>7, <1>a, <2>4 DEF TypeInv, FilesTyped, ListRecords, files, ages
<1>8. CASE TestRecord(w)
  <2> DEFINE t == Head(me.todo)
             stale == t \in Records(Kinds[me.kind]) /\ Expired(w, t) /\ ~LeaseActive(t)
             q == me.todo
             new == [me EXCEPT !.seen = @ + 1, !.todo = Tail(@),
                            !.pc = IF stale THEN "unlink" ELSE @,
                            !.pick = IF stale THEN t ELSE @]
  <2>1. /\ q \in RecordList /\ q # <<>> /\ me.seen < RecordLimit /\ q \in Seq(Token)
        /\ Len(q) <= N /\ WorkerSets(w, new) /\ me.pc = "records"
    BY <1>8, <1>b DEF TestRecord, Stage, RecordList
  <2>2. Head(q) \in Token /\ Tail(q) \in Seq(Token) /\ Len(Tail(q)) = Len(q) - 1
    BY <2>1, HeadTailProperties
  <2>3. Tail(q) \in RecordList
    BY <1>a, <2>1, <2>2 DEF RecordList
  <2>4. new = [me EXCEPT !.seen = me.seen + 1, !.todo = Tail(q),
                            !.pc = IF stale THEN "unlink" ELSE "records",
                            !.pick = IF stale THEN t ELSE me.pick]
    BY <1>b, <2>1 DEF WorkerFields
  <2>5. t \in Token
    BY <2>2
  <2> HIDE DEF stale, new, q, t
  <2>6. new \in WorkerType
    <3>1. me.seen + 1 \in 0 .. RecordLimit
      BY <1>b, <2>1, CleanupAssumption DEF WorkerFields
    <3> QED
      BY <1>b, <2>1, <2>3, <2>4, <2>5, <3>1 DEF WorkerType, WorkerFields, Stage, WorkerStep
  <2>7. WorkersTyped'
    BY <1>a, <2>1, <2>6, WorkersStayTyped
  <2> QED
    BY <1>8, <1>a, <2>7 DEF TypeInv, FilesTyped, TestRecord, files, ages
<1>9. CASE RecordsDone(w)
  <2>1. [me EXCEPT !.pc = "save", !.todo = <<>>] \in WorkerType
    BY <1>b, EmptyLists DEF WorkerType, WorkerFields, Stage, WorkerStep
  <2>2. WorkersTyped'
    BY <1>9, <1>a, <2>1, WorkersStayTyped DEF RecordsDone
  <2> QED
    BY <1>9, <1>a, <2>2, CleanupAssumption
       DEF TypeInv, FilesTyped, RecordsDone, Mishap, files, ages
<1>10. CASE UnlinkRecord(w)
  <2>1. [me EXCEPT !.pc = "records", !.pick = NoToken] \in WorkerType
    BY <1>10, <1>b DEF UnlinkRecord, WorkerType, WorkerFields, Stage, WorkerStep
  <2>2. WorkersTyped'
    BY <1>10, <1>a, <2>1, WorkersStayTyped DEF UnlinkRecord
  <2>3. request' \subseteq Token /\ status' \subseteq Token /\ running' \subseteq Token
    BY <1>10, <1>a DEF UnlinkRecord, Records, FilesTyped
  <2> QED
    BY <1>10, <1>a, <2>2, <2>3 DEF TypeInv, FilesTyped, UnlinkRecord, ages
<1>11. CASE SaveCursor(w)
  <2>1. WorkersTyped'
    BY <1>11, <1>a, <1>c, WorkersStayTyped DEF SaveCursor
  <2>2. cursor' \in 0 .. N
    BY <1>11, <1>b DEF SaveCursor, NextCursor, WorkerFields
  <2> QED
    BY <1>11, <1>a, <2>1, <2>2 DEF TypeInv, FilesTyped, SaveCursor, files, ages
<1>12. CASE WorkerFails(w)
  <2>1. WorkersTyped'
    BY <1>12, <1>a, <1>c, WorkersStayTyped DEF WorkerFails
  <2>2. cursor' \in 0 .. N /\ mishaps' \in 0 .. MaxMishaps
    BY <1>12, <1>a, CleanupAssumption DEF WorkerFails, FilesTyped, Mishap
  <2> QED
    BY <1>12, <1>a, <2>1, <2>2 DEF TypeInv, FilesTyped, WorkerFails, files, ages
<1> QED
  BY <1>1, <1>2, <1>3, <1>4, <1>5, <1>6, <1>7, <1>8, <1>9, <1>10, <1>11, <1>12 DEF Works

\* Files, ages, runners, cursor and the lists of every worker keep their types, in
\* whatever order directories and records are listed.
THEOREM TypeCorrect == Spec => []TypeOK
<1>1. TypeInv => TypeOK
  <2> SUFFICES ASSUME TypeInv PROVE TypeOK
      OBVIOUS
  <2>1. FilesTyped /\ WorkersTyped
    BY DEF TypeInv
  <2>2. ASSUME NEW w \in Worker
        PROVE  LET me == worker[w]
               IN /\ me.pc \in WorkerStep /\ me.pick \in Token \cup {NoToken}
                  /\ me.next \in 0 .. Cardinality(Token) /\ Len(me.todo) <= Cardinality(Token)
                  /\ me.attempts \in 0 .. DirectoryLimit /\ me.seen \in 0 .. RecordLimit
                  /\ me.spent \in 0 .. Budget
    <3>1. worker[w] \in WorkerFields
      BY <2>1 DEF WorkersTyped, WorkerType
    <3>2. \A q \in DirectoryList \cup RecordList : Len(q) <= N
      BY DirectoryListShort DEF RecordList
    <3> QED
      BY <3>1, <3>2 DEF WorkerFields, N
  <2>3. \A F \in {lease, request, running, status, directory, oldRecord, oldDirectory,
                 taken} : F \subseteq Token
    BY <2>1 DEF FilesTyped
  <2> QED
    BY <2>1, <2>2, <2>3 DEF TypeOK, FilesTyped, N
<1>2. TypeInv /\ [Next]_vars => TypeInv'
  <2>1. ASSUME TypeInv, UNCHANGED vars PROVE TypeInv'
    BY <2>1 DEF vars, files, ages, TypeInv, FilesTyped, WorkersTyped
  <2> QED
    BY <2>1, RunnerTypes, WorkTypes DEF Next
<1> QED
  BY <1>1, <1>2, TypeInit, PTL DEF Spec

(***************************************************************************)
(* A worker that started is done, or gone, after a number of steps that    *)
(* the runners bound: neither files that come and go while it scans nor    *)
(* directories it cannot remove make it go round.                          *)
(***************************************************************************)
\* What is left of the records after a kind.
KindsLeft(kind) == (3 - kind) * (2 * N + 2)

\* How many steps are left at most.
Remaining(me) ==
    CASE me.pc = "idle" -> 0
      [] me.pc = "save" -> 1
      [] me.pc = "records" -> 2 + KindsLeft(me.kind) + 2 * Len(me.todo)
      [] me.pc = "unlink" -> 3 + KindsLeft(me.kind) + 2 * Len(me.todo)
      [] me.pc = "directories" -> 6 * N + 9 + 2 * Len(me.todo)
      [] me.pc = "remove" -> 6 * N + 10 + 2 * Len(me.todo)
      [] me.pc = "wrap" -> 8 * N + 10
      [] me.pc = "list" -> 8 * N + 11

LEMMA KindsLeftBounded ==
  ASSUME NEW kind \in 0 .. 3
  PROVE  /\ KindsLeft(kind) \in 0 .. 6 * N + 6
         /\ kind # 3 => KindsLeft(kind + 1) = KindsLeft(kind) - (2 * N + 2)
<1>1. kind = 0 \/ kind = 1 \/ kind = 2 \/ kind = 3
  OBVIOUS
<1> QED
  BY <1>1, NTyped DEF KindsLeft

LEMMA RemainingBounded ==
  ASSUME NEW me \in WorkerType
  PROVE  Remaining(me) \in 0 .. 8 * N + 11
<1>1. me.pc \in WorkerStep /\ me.kind \in 0 .. 3 /\ N \in Nat
  BY NTyped DEF WorkerType, WorkerFields
<1>2. Len(me.todo) \in Nat /\ Len(me.todo) <= N
  <2>1. \A q \in DirectoryList \cup RecordList : Len(q) \in Nat /\ Len(q) <= N
    BY DirectoryListShort DEF RecordList
  <2> QED
    BY <2>1 DEF WorkerType, WorkerFields
<1>3. KindsLeft(me.kind) \in 0 .. 6 * N + 6
  BY <1>1, KindsLeftBounded
<1> DEFINE n == Len(me.todo)
           k == KindsLeft(me.kind)
<1>4. n \in Nat /\ n <= N /\ k \in 0 .. 6 * N + 6
  BY <1>2, <1>3
<1>5. Remaining(me) \in {0, 1, 2 + k + 2 * n, 3 + k + 2 * n, 6 * N + 9 + 2 * n,
                       6 * N + 10 + 2 * n, 8 * N + 10, 8 * N + 11}
  BY <1>1 DEF Remaining, WorkerStep
<1> HIDE DEF n, k
<1> QED
  BY <1>1, <1>4, <1>5

LEMMA WorkCounts ==
  ASSUME TypeInv, TypeInv', NEW w \in Worker, worker[w].pc # "idle",
         Works(w) \/ WorkerFails(w)
  PROVE  Remaining(worker'[w]) < Remaining(worker[w])
<1> DEFINE me == worker[w]
           you == worker'[w]
<1>a. /\ me \in WorkerFields /\ Stage(me) /\ N \in Nat
      /\ you \in WorkerFields /\ Stage(you)
  BY NTyped DEF TypeInv, WorkersTyped, WorkerType
<1>b. /\ Len(me.todo) \in Nat /\ Len(me.todo) <= N
      /\ Len(you.todo) \in Nat /\ Len(you.todo) <= N
  <2>1. \A q \in DirectoryList \cup RecordList : Len(q) \in Nat /\ Len(q) <= N
    BY DirectoryListShort DEF RecordList
  <2> QED
    BY <1>a, <2>1 DEF WorkerFields
<1>c. me.kind \in 0 .. 3 /\ you.kind \in 0 .. 3
  BY <1>a DEF WorkerFields
<1>d. KindsLeft(me.kind) \in 0 .. 6 * N + 6 /\ KindsLeft(you.kind) \in 0 .. 6 * N + 6
  BY <1>c, KindsLeftBounded
<1>e. \A new : WorkerSets(w, new) => you = new
  BY DEF WorkerSets, TypeInv, WorkersTyped
<1> SUFFICES Remaining(you) < Remaining(me)
  OBVIOUS
<1> HIDE DEF me, you
<1>1. CASE ListDirectories(w)
  <2>1. me.pc = "list" /\ you.pc = "wrap"
    BY <1>1, <1>a, <1>e DEF ListDirectories, WorkerFields, me
  <2> QED
    BY <1>a, <2>1 DEF Remaining
<1>2. CASE WrapDirectories(w)
  <2>1. me.pc = "wrap" /\ \/ you.pc = "directories"
                          \/ you.pc = "records" /\ you.todo = <<>>
    BY <1>2, <1>a, <1>e DEF WrapDirectories, WorkerFields, me
  <2> QED
    BY <1>a, <1>b, <1>c, <1>d, <2>1 DEF Remaining
<1>3. CASE TestDirectory(w)
  <2>1. me.pc = "directories" /\ me.todo # <<>> /\ me.todo \in Seq(Candidate)
    BY <1>3, <1>a DEF TestDirectory, Stage, DirectoryList, me
  <2>2. you.todo = Tail(me.todo) /\ you.pc \in {"directories", "remove"}
    BY <1>3, <1>a, <1>e DEF TestDirectory, WorkerFields, me
  <2>3. Len(Tail(me.todo)) = Len(me.todo) - 1
    BY <2>1, HeadTailProperties
  <2> QED
    BY <1>a, <1>b, <2>1, <2>2, <2>3 DEF Remaining
<1>4. CASE RemoveTree(w)
  <2>1. me.pc = "remove" /\ you.pc = "directories" /\ you.todo = me.todo
    BY <1>4, <1>a, <1>e DEF RemoveTree, WorkerFields, me
  <2> QED
    BY <1>a, <1>b, <2>1 DEF Remaining
<1>5. CASE DirectoriesDone(w)
  <2>1. me.pc = "directories" /\ you.pc = "records" /\ you.todo = <<>>
    BY <1>5, <1>a, <1>e DEF DirectoriesDone, WorkerFields, me
  <2> QED
    BY <1>a, <1>b, <1>c, <1>d, <2>1 DEF Remaining
<1>6. CASE ListRecords(w)
  <2>1. /\ me.pc = "records" /\ me.todo = <<>>
        /\ \/ you.pc = "save"
           \/ you.pc = "records" /\ you.kind = me.kind + 1
    BY <1>6, <1>a, <1>e DEF ListRecords, WorkerFields, me
  <2>2. CASE you.pc = "save"
    BY <1>a, <1>b, <1>c, <1>d, <2>1, <2>2 DEF Remaining
  <2>3. CASE you.pc = "records" /\ you.kind = me.kind + 1
    <3>1. KindsLeft(you.kind) = KindsLeft(me.kind) - (2 * N + 2)
      <4>1. me.kind # 3
        BY <1>c, <2>3
      <4> QED
        BY <1>c, <2>3, <4>1, KindsLeftBounded
    <3> QED
      BY <1>a, <1>b, <1>d, <2>1, <2>3, <3>1 DEF Remaining
  <2> QED
    BY <2>1, <2>2, <2>3
<1>7. CASE TestRecord(w)
  <2>1. me.pc = "records" /\ me.todo # <<>> /\ me.todo \in Seq(Token)
    BY <1>7, <1>a DEF TestRecord, Stage, RecordList, me
  <2>2. you.todo = Tail(me.todo) /\ you.pc \in {"records", "unlink"} /\ you.kind = me.kind
    BY <1>7, <1>a, <1>e DEF TestRecord, WorkerFields, me
  <2>3. Len(Tail(me.todo)) = Len(me.todo) - 1
    BY <2>1, HeadTailProperties
  <2> QED
    BY <1>a, <1>b, <1>d, <2>1, <2>2, <2>3 DEF Remaining
<1>8. CASE RecordsDone(w)
  <2>1. me.pc = "records" /\ you.pc = "save"
    BY <1>8, <1>a, <1>e DEF RecordsDone, WorkerFields, me
  <2> QED
    BY <1>a, <1>b, <1>c, <1>d, <2>1 DEF Remaining
<1>9. CASE UnlinkRecord(w)
  <2>1. me.pc = "unlink" /\ you.pc = "records" /\ you.todo = me.todo /\ you.kind = me.kind
    BY <1>9, <1>a, <1>e DEF UnlinkRecord, WorkerFields, me
  <2> QED
    BY <1>a, <1>b, <1>d, <2>1 DEF Remaining
<1>10. CASE SaveCursor(w) \/ WorkerFails(w)
  <2>1. you.pc = "idle" /\ me.pc # "idle" /\ me.pc \in WorkerStep
    BY <1>10, <1>a, <1>e DEF SaveCursor, WorkerFails, IdleWorker, me, WorkerFields
  <2> DEFINE n == Len(me.todo)
             k == KindsLeft(me.kind)
  <2>2. n \in Nat /\ k \in Nat
    BY <1>a, <1>b, <1>d
  <2>3. Remaining(me) \in {1, 2 + k + 2 * n, 3 + k + 2 * n, 6 * N + 9 + 2 * n,
                         6 * N + 10 + 2 * n, 8 * N + 10, 8 * N + 11}
    BY <2>1 DEF Remaining, WorkerStep
  <2>4. Remaining(you) = 0
    BY <2>1 DEF Remaining
  <2> HIDE DEF n, k
  <2> QED
    BY <1>a, <2>2, <2>3, <2>4
<1>11. ~WorkerStarts(w)
  BY DEF WorkerStarts
<1> QED
  BY <1>1, <1>2, <1>3, <1>4, <1>5, <1>6, <1>7, <1>8, <1>9, <1>10, <1>11 DEF Works

\* Each step of a worker that is under way leaves it fewer steps.
WorkerGetsOn ==
    [][\A w \in Worker : worker[w].pc # "idle" /\ worker'[w] # worker[w]
          => Remaining(worker'[w]) < Remaining(worker[w])]_vars

\* A worker has a number of steps that the runners bound, and each of its own leaves
\* it fewer: no scan goes round for ever, whatever comes and goes meanwhile.
THEOREM WorkersEnd ==
    Spec => [](\A w \in Worker : Remaining(worker[w]) \in 0 .. 8 * N + 11) /\ WorkerGetsOn
<1>1. TypeInv => \A w \in Worker : Remaining(worker[w]) \in 0 .. 8 * N + 11
  BY RemainingBounded DEF TypeInv, WorkersTyped
<1>2. TypeInv /\ [Next]_vars => TypeInv'
  <2>1. ASSUME TypeInv, UNCHANGED vars PROVE TypeInv'
    BY <2>1 DEF vars, files, ages, TypeInv, FilesTyped, WorkersTyped
  <2> QED
    BY <2>1, RunnerTypes, WorkTypes DEF Next
<1>3. ASSUME TypeInv, TypeInv', [Next]_vars, NEW w \in Worker, worker[w].pc # "idle",
             worker'[w] # worker[w]
      PROVE  Remaining(worker'[w]) < Remaining(worker[w])
  <2>1. ASSUME NEW t \in Token, \/ WriteTicket(t) \/ Runs(t) \/ RunnerDies(t)
                                \/ TakeReceipt(t) \/ RecordAges(t) \/ DirectoryAges(t)
        PROVE  worker' = worker
    BY <2>1 DEF Runs, WriteTicket, CreateLease, LockLease, MoveTicket, MakeDirectory,
                RemoveOwn, WriteReceipt, RunnerFails, RunnerDies, TakeReceipt, RecordAges, DirectoryAges
  <2>2. ASSUME NEW v \in Worker, Works(v) \/ WorkerFails(v), v # w
        PROVE  worker'[w] = worker[w]
    BY <1>3, <2>2 DEF Works, WorkerFails, WorkerSets, TypeInv, WorkersTyped, WorkerStarts,
         ListDirectories, WrapDirectories, TestDirectory, RemoveTree, DirectoriesDone,
         ListRecords, TestRecord, RecordsDone, UnlinkRecord, SaveCursor
  <2>3. Works(w) \/ WorkerFails(w)
    BY <1>3, <2>1, <2>2 DEF Next, vars
  <2> QED
    BY <1>3, <2>3, WorkCounts
<1>4. TypeInv /\ TypeInv' /\ [Next]_vars
        => [\A w \in Worker : worker[w].pc # "idle" /\ worker'[w] # worker[w]
              => Remaining(worker'[w]) < Remaining(worker[w])]_vars
  BY <1>3
<1> QED
  BY <1>1, <1>2, <1>4, TypeInit, PTL DEF Spec, WorkerGetsOn
==============================================================================
