----------------------------- MODULE StateStore -----------------------------
(***************************************************************************)
(* control_plane/state.py, one session: the sidecar lock file, the state   *)
(* file, and the private temporary file each writer replaces it with.      *)
(* Every client is a process (a hook or the Git runner) that runs one      *)
(* mutate_session, read_session or cleanup_session call at a time and may  *)
(* die at any instant: the kernel then drops its flock, nothing drops its  *)
(* temporary file.                                                         *)
(***************************************************************************)
EXTENDS Naturals

CONSTANTS Client, Content, Default, Operation,
          Raise, Keep, Remove,   \* verdicts of a mutator or a removal predicate
          Absent,                \* stored forms that are no snapshot: no file,
          Damaged,               \* a file that never loads,
          Spoiled,               \* one whose fields are not valid
          NoCall, NoReply, Failed,
          Free,                  \* nobody holds the flock
          NoTemp, Partial,       \* temporary file missing, or not wholly written
          MaxCrashes             \* bound on the deaths and failed removals TLC explores

ASSUME ContentAssumption ==
    /\ Default \in Content
    /\ {Raise, Keep, Remove, Absent, Damaged, Spoiled, NoReply, Failed, NoTemp, Partial}
           \cap Content = {}
    /\ Absent \notin {Damaged, Spoiled} /\ Damaged # Spoiled
    /\ NoReply # Failed /\ NoTemp # Partial
    /\ Raise \notin {Keep, Remove} /\ Keep # Remove

ASSUME OperationAssumption ==
    /\ Operation \subseteq [Content -> Content \cup {Raise, Keep, Remove}]
    /\ NoCall \notin Operation

ASSUME ClientAssumption == Free \notin Client /\ MaxCrashes \in Nat

VARIABLES file,      \* the session file: Absent, Damaged, Spoiled or the content written
          stale,     \* its updated_at is more than seven days ago
          lock,      \* holder of the flock on the sidecar file
          temp,      \* each client's temporary file
          orphans,   \* temporary files whose writer died or could not remove them
          pc, op,    \* where each client is, and the operation it runs
          snap,      \* the snapshot its call loaded (Default between calls)
          result,    \* what its latest call returned
          crashes
vars == <<file, stale, lock, temp, orphans, pc, op, snap, result, crashes>>

\* _load: a missing or expired file reads as the default snapshot, before its
\* fields are looked at.
Loaded == IF file = Absent \/ (file # Damaged /\ stale) THEN Default ELSE file

Holding == {"loading", "deciding", "creating", "filling", "replacing",
            "tidying", "unlinking", "unlocking"}

TypeOK == /\ file \in Content \cup {Absent, Damaged, Spoiled}
          /\ stale \in BOOLEAN
          /\ lock \in Client \cup {Free}
          /\ temp \in [Client -> Content \cup {NoTemp, Partial}]
          /\ orphans \in Nat
          /\ pc \in [Client -> {"idle", "waiting"} \cup Holding]
          /\ op \in [Client -> Operation \cup {NoCall}]
          /\ snap \in [Client -> Content]
          /\ result \in [Client -> Content \cup {NoReply, Failed}]
          /\ crashes \in Nat

Init == /\ file \in {Absent, Damaged, Spoiled}
        /\ stale = FALSE
        /\ lock = Free
        /\ temp = [c \in Client |-> NoTemp]
        /\ orphans = 0
        /\ pc = [c \in Client |-> "idle"]
        /\ op = [c \in Client |-> NoCall]
        /\ snap = [c \in Client |-> Default]
        /\ result = [c \in Client |-> NoReply]
        /\ crashes = 0

Goto(c, l) == pc' = [pc EXCEPT ![c] = l]
Answered(c, r) == result' = [result EXCEPT ![c] = r]

------------------------------------------------------------------------------
\* The call opens the sidecar lock file, which is created once and never removed.
Call(c) == /\ pc[c] = "idle"
           /\ \E o \in Operation : op' = [op EXCEPT ![c] = o]
           /\ Answered(c, NoReply)
           /\ Goto(c, "waiting")
           /\ UNCHANGED <<file, stale, lock, temp, orphans, snap, crashes>>

\* Fault: the lock is taken whoever holds it.
LockStateAnyway(c) == /\ pc[c] = "waiting"
                      /\ lock' = c
                      /\ Goto(c, "loading")
                      /\ UNCHANGED <<file, stale, temp, orphans, op, snap, result, crashes>>

LockState(c) == /\ pc[c] = "waiting"
                /\ lock = Free
                /\ lock' = c
                /\ Goto(c, "loading")
                /\ UNCHANGED <<file, stale, temp, orphans, op, snap, result, crashes>>

\* Fault: at the deadline the call goes on without the lock.
LockTimeoutProceeds(c) == /\ pc[c] = "waiting"
                          /\ Goto(c, "loading")
                          /\ UNCHANGED <<file, stale, lock, temp, orphans, op, snap,
                                         result, crashes>>

\* Fault: no deadline.
LockTimeoutMissing(c) == FALSE

\* Five seconds, or what the event budget leaves of them: no lock, no change.
LockTimeout(c) == /\ pc[c] = "waiting"
                  /\ Answered(c, Failed)
                  /\ op' = [op EXCEPT ![c] = NoCall]
                  /\ Goto(c, "idle")
                  /\ UNCHANGED <<file, stale, lock, temp, orphans, snap, crashes>>

\* Fault: what does not load is replaced by the default.
LoadDamagedAsDefault(c) ==
    /\ pc[c] = "loading"
    /\ snap' = [snap EXCEPT ![c] = IF file \in Content THEN Loaded ELSE Default]
    /\ Goto(c, "deciding")
    /\ UNCHANGED <<file, stale, lock, temp, orphans, op, result, crashes>>

\* The read may fail as well.
Load(c) == /\ pc[c] = "loading"
           /\ \/ /\ Answered(c, Failed)
                 /\ Goto(c, "unlocking")
                 /\ UNCHANGED snap
              \/ /\ Loaded \in Content
                 /\ snap' = [snap EXCEPT ![c] = Loaded]
                 /\ Goto(c, "deciding")
                 /\ UNCHANGED result
           /\ UNCHANGED <<file, stale, lock, temp, orphans, op, crashes>>

\* Fault: the verdict is answered, not the snapshot.
DecideAnswersVerdict(c) ==
    /\ pc[c] = "deciding"
    /\ LET verdict == op[c][snap[c]] IN
         \/ verdict = Raise /\ Answered(c, Failed) /\ Goto(c, "unlocking")
         \/ verdict = Keep /\ Answered(c, verdict) /\ Goto(c, "unlocking")
         \/ verdict = Remove /\ Goto(c, "unlinking") /\ UNCHANGED result
         \/ verdict \in Content /\ Goto(c, "creating") /\ UNCHANGED result
    /\ UNCHANGED <<file, stale, lock, temp, orphans, op, snap, crashes>>

\* The mutator or the predicate runs on the loaded snapshot.
Decide(c) == /\ pc[c] = "deciding"
             /\ LET verdict == op[c][snap[c]] IN
                  \/ /\ verdict = Raise
                     /\ Answered(c, Failed) /\ Goto(c, "unlocking")
                  \/ /\ verdict = Keep
                     /\ Answered(c, snap[c]) /\ Goto(c, "unlocking")
                  \/ /\ verdict = Remove
                     /\ Goto(c, "unlinking") /\ UNCHANGED result
                  \/ /\ verdict \in Content
                     /\ Goto(c, "creating") /\ UNCHANGED result
             /\ UNCHANGED <<file, stale, lock, temp, orphans, op, snap, crashes>>

\* _write_atomic: exclusive creation, write and fsync, then the rename.
CreateTemp(c) == /\ pc[c] = "creating"
                 /\ temp' = [temp EXCEPT ![c] = Partial]
                 /\ Goto(c, "filling")
                 /\ UNCHANGED <<file, stale, lock, orphans, op, snap, result, crashes>>

FillTemp(c) == /\ pc[c] = "filling"
               /\ temp' = [temp EXCEPT ![c] = op[c][snap[c]]]
               /\ Goto(c, "replacing")
               /\ UNCHANGED <<file, stale, lock, orphans, op, snap, result, crashes>>

ReplaceFile(c) == /\ pc[c] = "replacing"
                  /\ file' = temp[c]
                  /\ stale' = FALSE
                  /\ temp' = [temp EXCEPT ![c] = NoTemp]
                  /\ Answered(c, temp[c])
                  /\ Goto(c, "tidying")
                  /\ UNCHANGED <<lock, orphans, op, snap, crashes>>

\* Any of the three may raise; the finally clause then removes the file.
WriteFails(c) == /\ pc[c] \in {"creating", "filling", "replacing"}
                 /\ Answered(c, Failed)
                 /\ Goto(c, "tidying")
                 /\ UNCHANGED <<file, stale, lock, temp, orphans, op, snap, crashes>>

\* Fault: the file is removed only by the rename.
TidyTempAfterRename(c) ==
    /\ pc[c] = "tidying"
    /\ Goto(c, "unlocking")
    /\ UNCHANGED <<file, stale, lock, temp, orphans, op, snap, result, crashes>>

\* The removal may itself fail, and leaves the file to nobody.
TidyTemp(c) == /\ pc[c] = "tidying"
               /\ \/ UNCHANGED <<orphans, crashes>>
                  \/ /\ temp[c] # NoTemp
                     /\ crashes < MaxCrashes
                     /\ crashes' = crashes + 1
                     /\ orphans' = orphans + 1
               /\ temp' = [temp EXCEPT ![c] = NoTemp]
               /\ Goto(c, "unlocking")
               /\ UNCHANGED <<file, stale, lock, op, snap, result>>

RemoveFile(c) == /\ pc[c] = "unlinking"
                 /\ file' = Absent
                 /\ stale' = FALSE
                 /\ Answered(c, snap[c])
                 /\ Goto(c, "unlocking")
                 /\ UNCHANGED <<lock, temp, orphans, op, snap, crashes>>

RemoveFails(c) == /\ pc[c] = "unlinking"
                  /\ Answered(c, Failed)
                  /\ Goto(c, "unlocking")
                  /\ UNCHANGED <<file, stale, lock, temp, orphans, op, snap, crashes>>

UnlockState(c) == /\ pc[c] = "unlocking"
                  /\ lock' = Free
                  /\ op' = [op EXCEPT ![c] = NoCall]
                  /\ snap' = [snap EXCEPT ![c] = Default]
                  /\ Goto(c, "idle")
                  /\ UNCHANGED <<file, stale, temp, orphans, result, crashes>>

\* The process dies (a crash, or the host's ten-second kill).
Crash(c) == /\ pc[c] # "idle"
            /\ crashes < MaxCrashes
            /\ crashes' = crashes + 1
            /\ lock' = IF lock = c THEN Free ELSE lock
            /\ orphans' = IF temp[c] = NoTemp THEN orphans ELSE orphans + 1
            /\ temp' = [temp EXCEPT ![c] = NoTemp]
            /\ op' = [op EXCEPT ![c] = NoCall]
            /\ snap' = [snap EXCEPT ![c] = Default]
            /\ Goto(c, "idle")
            /\ UNCHANGED <<file, stale, result>>

\* Seven days pass.  While a client works on the file the step is left out: it
\* would have the effect of the same step before the load or after the unlock.
Age == /\ lock = Free
       /\ file \notin {Absent, Damaged}
       /\ stale' = TRUE
       /\ UNCHANGED <<file, lock, temp, orphans, pc, op, snap, result, crashes>>

Step(c) == \/ LockState(c) \/ LockTimeout(c) \/ Load(c) \/ Decide(c)
           \/ CreateTemp(c) \/ FillTemp(c) \/ ReplaceFile(c) \/ WriteFails(c)
           \/ TidyTemp(c) \/ RemoveFile(c) \/ RemoveFails(c)
           \/ UnlockState(c)

Next == \/ \E c \in Client : Call(c) \/ Step(c) \/ Crash(c)
        \/ Age

Spec == Init /\ [][Next]_vars

\* A running process runs on: it polls its lock until the deadline, then works.
FairSpec == Spec /\ \A c \in Client : WF_vars(Step(c))

------------------------------------------------------------------------------
\* One process at a time is between taking the flock and dropping it, so the
\* snapshot a mutator decides on is still what the file says when its outcome
\* is written: the update mutate_session writes is never built on a stale read.
SnapshotCurrent ==
    \A c \in Client :
        pc[c] \in {"deciding", "creating", "filling", "replacing", "unlinking"} =>
            /\ lock = c
            /\ snap[c] = Loaded

\* _write_atomic leaves no temporary file behind unless the process died while
\* writing or the removal failed: each one that exists belongs to the lock
\* holder, or to such a mishap.
TempsAccounted ==
    /\ orphans <= crashes
    /\ \A c \in Client : temp[c] # NoTemp => lock = c

\* A session file that does not load is refused by every call and never
\* replaced or removed (docs/hook-contract.md, "Failure behavior"), until, if it
\* is only its fields that are invalid, it has expired.
DamageKept == [][/\ file = Damaged => file' = Damaged
                 /\ file = Spoiled /\ ~stale => file' = Spoiled]_<<file, stale>>

\* Every call ends, whoever holds the lock meanwhile: a waiter gives up at its
\* deadline, a holder always reaches its unlock.
EveryCallEnds == \A c \in Client : (op[c] # NoCall) ~> (op[c] = NoCall)

------------------------------------------------------------------------------
Register == INSTANCE SessionRegister
              WITH value <- Loaded, call <- op, reply <- result

\* The lock, the load and the atomic replacement together implement a register
\* that changes by whole operations: no lost update, no torn or partial state.
RegisterSpec == Register!Spec
==============================================================================
