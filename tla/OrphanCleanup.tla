--------------------------- MODULE OrphanCleanup ---------------------------
(***************************************************************************)
(* What a killed runner leaves behind, and the worker that collects it.    *)
(*                                                                         *)
(* A runner is named by its token.  It holds the lock on its lease file    *)
(* from before its isolated push directory exists until its Git child has  *)
(* ended; the kernel drops the lock when the runner dies.  Cleanup workers *)
(* are detached processes: one at a time scans a window of the directories *)
(* and a number of records, tests leases, and removes what is old.         *)
(*                                                                         *)
(* Time is the age of things: a record or a directory turns old once, and  *)
(* a worker goes by what was old when it started (its cutoff).  The order  *)
(* of a directory listing is fixed.                                        *)
(***************************************************************************)
EXTENDS Integers, FiniteSets, Sequences, SequencesExt

CONSTANTS Token, Order,  \* runners, and their order in a listing
          Worker,        \* cleanup workers
          Left,          \* runners that died, and left old files, before the start
          Stuck,         \* tokens whose directory no worker can remove
          ScanLimit,     \* directories in the window of one worker
          DirectoryLimit, \* removals one worker attempts
          RecordLimit,   \* records one worker looks at
          Budget,        \* removals that may hang before the deadline has passed
          NoToken, NoWorker,
          MaxDeaths,     \* bound: runners that die
          MaxMishaps     \* bound: failures, deadlines and deaths of workers

ASSUME CleanupAssumption ==
    /\ IsFiniteSet(Token)
    /\ Order \in [1 .. Cardinality(Token) -> Token] /\ IsInjective(Order)
    /\ Stuck \subseteq Token /\ Left \subseteq Token
    /\ NoToken \notin Token /\ NoWorker \notin Worker
    /\ ScanLimit \in Nat \ {0} /\ DirectoryLimit \in Nat \ {0}
    /\ RecordLimit \in Nat \ {0} /\ Budget \in Nat \ {0}
    /\ MaxDeaths \in Nat /\ MaxMishaps \in Nat

VARIABLES
    runner,    \* what each runner does
    lease,     \* lease files
    request, running, status,   \* record files
    directory, \* isolated push directories
    oldRecord, \* tokens whose records are older than the TTL
    oldDirectory,  \* directories older than the TTL
    taken,     \* receipts PostToolUse consumed
    flight,    \* the worker that holds the single-flight lock
    cursor,    \* the persisted cursor
    worker,    \* state of each worker
    deaths, mishaps   \* counters of the bounds

files == <<lease, request, running, status, directory>>
ages == <<oldRecord, oldDirectory>>
vars == <<runner, files, ages, taken, flight, cursor, worker, deaths, mishaps>>

RunnerStep == {"none", "ticket", "lease", "locked", "moved", "pushing", "cleared",
               "ended", "dead"}
WorkerStep == {"idle", "list", "wrap", "directories", "remove", "records", "unlink",
               "save"}
Kinds == <<"request", "status", "running">>

IdleWorker == [pc |-> "idle", oldRecord |-> {}, oldDirectory |-> {}, todo |-> <<>>,
               next |-> 0, attempts |-> 0, spent |-> 0, seen |-> 0, kind |-> 0,
               pick |-> NoToken]

Init == /\ runner = [t \in Token |-> IF t \in Left THEN "dead" ELSE "none"]
        /\ lease = Left /\ running = Left /\ directory = Left
        /\ oldRecord = Left /\ oldDirectory = Left
        /\ request = {} /\ status = {} /\ taken = {}
        /\ flight = NoWorker /\ cursor = 0
        /\ worker = [w \in Worker |-> IdleWorker]
        /\ deaths = 0 /\ mishaps = 0

Mishap == mishaps < MaxMishaps /\ mishaps' = mishaps + 1

\* The runner is in the part of its life in which it holds the lease.
Alive(t) == runner[t] \in {"locked", "moved", "pushing", "cleared"}

Over(t) == runner[t] \in {"ended", "dead"}

------------------------------------------------------------------------------
(* Tickets and runners.                                                     *)

RunnerGoto(t, step) == runner' = [runner EXCEPT ![t] = step]

\* _prepare_git_runner writes the ticket.
WriteTicket(t) == /\ runner[t] = "none"
                  /\ RunnerGoto(t, "ticket")
                  /\ request' = request \cup {t}
                  /\ UNCHANGED <<lease, running, status, directory, ages, taken, flight,
                                 cursor, worker, deaths, mishaps>>

\* _run_approved_git creates the lease file, ...
CreateLease(t) == /\ runner[t] = "ticket"
                  /\ RunnerGoto(t, "lease")
                  /\ lease' = lease \cup {t}
                  /\ UNCHANGED <<request, running, status, directory, ages, taken,
                                 flight, cursor, worker, deaths, mishaps>>

\* ... locks it, ...
LockLease(t) == /\ runner[t] = "lease"
                /\ RunnerGoto(t, "locked")
                /\ UNCHANGED <<files, ages, taken, flight, cursor, worker, deaths,
                               mishaps>>

Release(t) == /\ RunnerGoto(t, "ended")
              /\ lease' = lease \ {t}

\* ... and moves the ticket.  A ticket that is gone or old ends the runner.
MoveTicket(t) ==
    /\ runner[t] = "locked"
    /\ request' = request \ {t}
    /\ IF t \in request /\ t \notin oldRecord
       THEN /\ running' = running \cup {t}
            /\ RunnerGoto(t, "moved")
            /\ UNCHANGED lease
       ELSE Release(t) /\ UNCHANGED running
    /\ UNCHANGED <<status, directory, ages, taken, flight, cursor, worker, deaths,
                   mishaps>>

\* _prepare_isolated_git_push makes the directory.  There is none for another
\* operation than a push, or when a check of the push raises an error.
MakeDirectory(t) == /\ runner[t] = "moved"
                    /\ \/ directory' = directory \cup {t} /\ RunnerGoto(t, "pushing")
                       \/ RunnerGoto(t, "cleared") /\ UNCHANGED directory
                    /\ UNCHANGED <<lease, request, running, status, ages, taken, flight,
                                   cursor, worker, deaths, mishaps>>

\* Git has ended; shutil.rmtree ignores its errors.
RemoveOwn(t) == /\ runner[t] = "pushing"
                /\ RunnerGoto(t, "cleared")
                /\ \/ directory' = directory \ {t} /\ UNCHANGED mishaps
                   \/ Mishap /\ UNCHANGED directory
                /\ UNCHANGED <<lease, request, running, status, ages, taken, flight,
                               cursor, worker, deaths>>

\* The receipt is written, the running record and the lease go.
WriteReceipt(t) == /\ runner[t] = "cleared"
                   /\ status' = status \cup {t} /\ running' = running \ {t}
                   /\ oldRecord' = oldRecord \ {t}
                   /\ Release(t)
                   /\ UNCHANGED <<request, directory, oldDirectory, taken, flight, cursor,
                                  worker, deaths, mishaps>>

\* The request is refused, or the receipt cannot be written: the running record goes.
\* After an exception nobody catches, such as a timeout of git, it stays.  (What the
\* revocation takes from other runners of the transaction is in GitTransaction.)
RunnerFails(t) == /\ runner[t] \in {"moved", "cleared"}
                  /\ running' \in {running, running \ {t}}
                  /\ Release(t)
                  /\ UNCHANGED <<request, status, directory, ages, taken, flight, cursor,
                                 worker, deaths, mishaps>>

RunnerDies(t) == /\ runner[t] = "lease" \/ Alive(t)
                 /\ deaths < MaxDeaths /\ deaths' = deaths + 1
                 /\ RunnerGoto(t, "dead")
                 /\ UNCHANGED <<files, ages, taken, flight, cursor, worker, mishaps>>

\* _consume_git_runner_status: a fresh receipt is used, an old one rejected; it
\* is removed either way.
TakeReceipt(t) == /\ t \in status
                  /\ status' = status \ {t}
                  /\ taken' = taken \cup {t}
                  /\ UNCHANGED <<runner, lease, request, running, directory, ages, flight,
                                 cursor, worker, deaths, mishaps>>

RecordAges(t) == /\ t \in request \cup running \cup status /\ t \notin oldRecord
                 /\ oldRecord' = oldRecord \cup {t}
                 /\ UNCHANGED <<runner, files, oldDirectory, taken, flight, cursor,
                                worker, deaths, mishaps>>

DirectoryAges(t) == /\ t \in directory \ oldDirectory
                    /\ oldDirectory' = oldDirectory \cup {t}
                    /\ UNCHANGED <<runner, files, oldRecord, taken, flight, cursor,
                                   worker, deaths, mishaps>>

------------------------------------------------------------------------------
(* The worker.                                                              *)

\* Fault: a lease file is enough, locked or not.
LeaseActiveFile(t) == t \in lease

\* Fault: leases are not tested.
LeaseActiveNever(t) == FALSE

\* _git_runner_lease_is_active: the lock on the lease file cannot be had.
LeaseActive(t) == Alive(t)

\* The elements of a sequence that are in a set, in their order.  (SelectSeq, as a
\* recursive function over the prefixes.)
Among(s, S) ==
    LET upTo[i \in 0 .. Len(s)] ==
            IF i = 0 THEN <<>>
            ELSE IF s[i] \in S THEN Append(upTo[i - 1], s[i]) ELSE upTo[i - 1]
    IN  upTo[Len(s)]

\* Directories in the order of a listing.
Listing == Among(Order, directory)

Records(kind) == CASE kind = "request" -> request [] kind = "status" -> status
                   [] kind = "running" -> running

WorkerSets(w, new) == worker' = [worker EXCEPT ![w] = new]

\* _try_lock_state on the cleanup lock: whoever cannot have it returns.
SingleFlight == flight = NoWorker

\* _run_orphan_cleanup_worker
WorkerStarts(w) ==
    /\ worker[w].pc = "idle" /\ SingleFlight
    /\ flight' = w
    /\ WorkerSets(w, [IdleWorker EXCEPT !.pc = "list", !.next = cursor,
                                        !.oldRecord = oldRecord,
                                        !.oldDirectory = oldDirectory])
    /\ UNCHANGED <<runner, files, ages, taken, cursor, deaths, mishaps>>

\* Fault: the cursor counts from one past the candidate.
AfterNext(i) == i + 1

\* The cursor after the candidate at a position of the listing.
After(i) == i

\* itertools.islice: at most n elements after the first ones.
Slice(s, first, n) == SubSeq(s, first + 1, Min({first + n, Len(s)}))

\* A listing from position p + 1 on, each candidate with the cursor after it.
Candidates(listing, p) == [i \in 1 .. Len(listing) |->
                              [token |-> listing[i], after |-> After(p + i)]]

\* The window from the cursor.
ListDirectories(w) ==
    /\ worker[w].pc = "list"
    /\ \E tail \in {Slice(Listing, cursor, ScanLimit)} :
          WorkerSets(w, [worker[w] EXCEPT !.pc = "wrap", !.todo = Candidates(tail, cursor)])
    /\ UNCHANGED <<runner, files, ages, taken, flight, cursor, deaths, mishaps>>

\* A window that reached the end goes on from the start of a second listing, with
\* what the first has not shown.
Wrapped(old, all) ==
    LET seen == {old[i].token : i \in DOMAIN old}
    IN  Slice(old \o Among(all, {c \in ToSet(all) : c.token \notin seen}), 0, ScanLimit)

WrapDirectories(w) ==
    /\ worker[w].pc = "wrap"
    /\ \E all \in {Candidates(Listing, 0)} : \E todo \in {Wrapped(worker[w].todo, all)} :
          WorkerSets(w, [worker[w] EXCEPT !.todo = todo,
                            !.pc = IF todo = <<>> THEN "records" ELSE "directories",
                            !.next = IF todo = <<>> THEN 0 ELSE @])
    /\ UNCHANGED <<runner, files, ages, taken, flight, cursor, deaths, mishaps>>

\* _orphan_cleanup_budget_exhausted: the deadline, one for both loops, has passed.
TimeUp(me) == me.spent >= Budget

\* One candidate: gone, protected by a lease, too young, or to be removed.
TestDirectory(w) ==
    LET me == worker[w]
        t == Head(me.todo).token
        stale == t \in directory /\ ~LeaseActive(t) /\ t \in me.oldDirectory
    IN /\ me.pc = "directories" /\ me.todo # <<>> /\ me.attempts < DirectoryLimit
       /\ ~TimeUp(me)
       /\ WorkerSets(w, [me EXCEPT !.next = Head(me.todo).after, !.todo = Tail(@),
                            !.pc = IF stale THEN "remove" ELSE @,
                            !.pick = IF stale THEN t ELSE @])
       /\ UNCHANGED <<runner, files, ages, taken, flight, cursor, deaths, mishaps>>

\* Fault: a hanging child has all the time that is left.
HungForever(me) == Budget

\* A hanging child is killed after its share of the time.
Hung(me) == me.spent + 1

\* _remove_tree_with_deadline: a child removes the tree, fails at once or hangs.
RemoveTree(w) ==
    LET me == worker[w]
    IN /\ me.pc = "remove"
       /\ \E spent \in {me.spent, Hung(me)} :
             /\ \/ /\ me.pick \notin Stuck /\ spent = me.spent
                   /\ directory' = directory \ {me.pick} /\ UNCHANGED mishaps
                \/ me.pick \notin Stuck /\ Mishap /\ UNCHANGED directory
                \/ me.pick \in Stuck /\ UNCHANGED <<directory, mishaps>>
             /\ WorkerSets(w, [me EXCEPT !.pc = "directories", !.attempts = @ + 1,
                                         !.spent = spent, !.pick = NoToken])
       /\ UNCHANGED <<runner, lease, request, running, status, ages, taken, flight,
                      cursor, deaths>>

\* A limit or the deadline, which may also pass without a hanging child, ends the
\* loop over directories.
DirectoriesDone(w) ==
    LET me == worker[w]
    IN /\ me.pc = "directories"
       /\ \E spent \in {me.spent, Budget} :
             /\ IF spent # me.spent THEN Mishap
                ELSE /\ me.todo = <<>> \/ me.attempts = DirectoryLimit \/ TimeUp(me)
                     /\ UNCHANGED mishaps
             /\ WorkerSets(w, [me EXCEPT !.pc = "records", !.todo = <<>>,
                                         !.spent = spent])
       /\ UNCHANGED <<runner, files, ages, taken, flight, cursor, deaths>>

\* The next kind of record is listed.
ListRecords(w) ==
    LET me == worker[w]
        kind == me.kind + 1
        found == IF kind > Len(Kinds) THEN {} ELSE Records(Kinds[kind])
    IN /\ me.pc = "records" /\ me.todo = <<>>
       /\ WorkerSets(w, IF kind > Len(Kinds) \/ me.seen >= RecordLimit \/ TimeUp(me)
                        THEN [me EXCEPT !.pc = "save"]
                        ELSE [me EXCEPT !.kind = kind,
                                !.todo = Among(Order, found)])
       /\ UNCHANGED <<runner, files, ages, taken, flight, cursor, deaths, mishaps>>

\* Fault: the age of a record is not looked at.
ExpiredAny(w, t) == TRUE

\* The record was last written before the cutoff of the worker.
Expired(w, t) == t \in worker[w].oldRecord /\ t \in oldRecord

\* One record: gone, young, protected by a lease, or to be unlinked.
TestRecord(w) ==
    LET me == worker[w]
        t == Head(me.todo)
        stale == t \in Records(Kinds[me.kind]) /\ Expired(w, t) /\ ~LeaseActive(t)
    IN /\ me.pc = "records" /\ me.todo # <<>> /\ me.seen < RecordLimit /\ ~TimeUp(me)
       /\ WorkerSets(w, [me EXCEPT !.seen = @ + 1, !.todo = Tail(@),
                            !.pc = IF stale THEN "unlink" ELSE @,
                            !.pick = IF stale THEN t ELSE @])
       /\ UNCHANGED <<runner, files, ages, taken, flight, cursor, deaths, mishaps>>

\* The limit or the deadline ends the loop over records.
RecordsDone(w) ==
    LET me == worker[w]
    IN /\ me.pc = "records" /\ me.todo # <<>>
       /\ IF me.seen >= RecordLimit THEN UNCHANGED mishaps ELSE Mishap
       /\ WorkerSets(w, [me EXCEPT !.pc = "save", !.todo = <<>>])
       /\ UNCHANGED <<runner, files, ages, taken, flight, cursor, deaths>>

\* _unlink_owned_regular of the record.
UnlinkRecord(w) ==
    LET me == worker[w]
        Drop(kind) == IF Kinds[me.kind] = kind THEN Records(kind) \ {me.pick}
                                               ELSE Records(kind)
    IN /\ me.pc = "unlink"
       /\ request' = Drop("request") /\ status' = Drop("status")
       /\ running' = Drop("running")
       /\ WorkerSets(w, [me EXCEPT !.pc = "records", !.pick = NoToken])
       /\ UNCHANGED <<runner, lease, directory, ages, taken, flight, cursor, deaths,
                      mishaps>>

\* Fault: the cursor is not written back.
NextCursorKept(w) == cursor

\* What the worker writes back.
NextCursor(w) == worker[w].next

\* _write_orphan_cleanup_cursor
SaveCursor(w) == /\ worker[w].pc = "save"
                 /\ cursor' = NextCursor(w)
                 /\ flight' = NoWorker
                 /\ WorkerSets(w, IdleWorker)
                 /\ UNCHANGED <<runner, files, ages, taken, deaths, mishaps>>

\* An exception or a kill ends the worker without the cursor; the file is empty
\* when it was already truncated.
WorkerFails(w) == /\ worker[w].pc # "idle" /\ Mishap
                  /\ cursor' \in IF worker[w].pc = "save" THEN {cursor, 0} ELSE {cursor}
                  /\ flight' = NoWorker
                  /\ WorkerSets(w, IdleWorker)
                  /\ UNCHANGED <<runner, files, ages, taken, deaths>>

Runs(t) == \/ CreateLease(t) \/ LockLease(t) \/ MoveTicket(t) \/ MakeDirectory(t)
           \/ RemoveOwn(t) \/ WriteReceipt(t) \/ RunnerFails(t)

Works(w) == \/ WorkerStarts(w) \/ ListDirectories(w) \/ WrapDirectories(w)
            \/ TestDirectory(w) \/ RemoveTree(w) \/ DirectoriesDone(w)
            \/ ListRecords(w) \/ TestRecord(w) \/ RecordsDone(w) \/ UnlinkRecord(w)
            \/ SaveCursor(w)

Next == \/ \E t \in Token : \/ WriteTicket(t) \/ Runs(t) \/ RunnerDies(t)
                            \/ TakeReceipt(t) \/ RecordAges(t) \/ DirectoryAges(t)
        \/ \E w \in Worker : Works(w) \/ WorkerFails(w)

\* Runners that started go on; time passes; a worker keeps being started (every
\* runner starts one) and goes on.
Fairness == /\ \A t \in Token : WF_vars(Runs(t)) /\ WF_vars(RecordAges(t))
                                /\ WF_vars(DirectoryAges(t))
            /\ WF_vars(\E w \in Worker : Works(w))

Spec == Init /\ [][Next]_vars /\ Fairness

------------------------------------------------------------------------------
(* Properties.                                                              *)

\* Every variable has its type.
TypeOK ==
    /\ runner \in [Token -> RunnerStep]
    /\ \A F \in {lease, request, running, status, directory, oldRecord, oldDirectory,
                 taken} : F \subseteq Token
    /\ flight \in Worker \cup {NoWorker} /\ cursor \in 0 .. Cardinality(Token)
    /\ \A w \in Worker :
          LET me == worker[w]
          IN /\ me.pc \in WorkerStep /\ me.pick \in Token \cup {NoToken}
             /\ me.next \in 0 .. Cardinality(Token) /\ Len(me.todo) <= Cardinality(Token)
             /\ me.attempts \in 0 .. DirectoryLimit /\ me.seen \in 0 .. RecordLimit
             /\ me.spent \in 0 .. Budget
    /\ deaths \in 0 .. MaxDeaths /\ mishaps \in 0 .. MaxMishaps

\* No worker takes the directory or the running record of a runner that holds its
\* lease, however old they are and whatever happened between the test of the lease
\* and the removal (_git_runner_lease_is_active; hook-contract.md, line 35).
LiveKept ==
    [][\A t \in Token : Alive(t) /\ runner'[t] = runner[t]
          => /\ t \in directory => t \in directory'
             /\ t \in running => t \in running']_vars

\* No worker takes a ticket its runner would still accept, or a receipt PostToolUse
\* would still use: cutoff and both readers share one TTL
\* (_cleanup_stale_git_runner_records, _validate_git_runner_request,
\* _consume_git_runner_status).
UsableKept ==
    [][\A t \in Token \ oldRecord :
          /\ t \in request /\ runner'[t] = runner[t] => t \in request'
          /\ t \in status /\ taken' = taken => t \in status']_vars

\* The directory of a runner that is over goes, wherever the window and the
\* cursor were, although directories ahead of it can never be removed and each
\* worker tries only a few (_cleanup_stale_git_push_directories).
LeftoversSwept ==
    \A t \in Token \ Stuck :
        t \in directory /\ Over(t) ~> t \notin directory

\* The directories that no worker can remove, and that every worker may spend its
\* time on, are enough to use up the deadline.
Clogged == Cardinality({s \in Stuck \cap directory : Over(s)}) >= Budget

\* So does the running record of a runner that died or failed, as long as fewer
\* directories than the deadline has room for hang every worker that tries them: the
\* loop over records comes second under one deadline, which they can spend in every
\* worker (_cleanup_stale_git_runner_records).  hook-contract.md, line 35, promises no
\* more.
RecordsSwept ==
    \A t \in Token : t \in running /\ Over(t) ~> t \notin running \/ Clogged
==============================================================================
