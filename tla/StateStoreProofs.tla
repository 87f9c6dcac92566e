-------------------------- MODULE StateStoreProofs --------------------------
(***************************************************************************)
(* Proofs about StateStore, for every number of processes, every content   *)
(* and every set of operations.  Inv is the inductive invariant: where each*)
(* process is says who holds the lock, what it knows and what it may have  *)
(* left on disk.                                                           *)
(***************************************************************************)
EXTENDS StateStore, TLAPS

\* The lock is held exactly by the process that is past its acquisition.
LockIsHolder == \A c \in Client : pc[c] \in Holding <=> lock = c

\* A process is in a call exactly when it is not idle, and has an answer
\* exactly when it has only to clean up.
CallPhase(c) ==
    /\ pc[c] = "idle" <=> op[c] = NoCall
    /\ pc[c] \in {"waiting", "loading", "deciding", "creating", "filling",
                  "replacing", "unlinking"} => result[c] = NoReply
    /\ pc[c] \in {"tidying", "unlocking"} => result[c] # NoReply

\* What the process is about to do is what its operation decided.
DecisionPhase(c) ==
    /\ pc[c] \in {"creating", "filling", "replacing"} => op[c][snap[c]] \in Content
    /\ pc[c] = "replacing" => temp[c] = op[c][snap[c]]
    /\ pc[c] = "unlinking" => op[c][snap[c]] = Remove

\* A temporary file exists only from its creation to the finally clause.
TempPhase(c) == temp[c] # NoTemp => pc[c] \in {"filling", "replacing", "tidying"}

\* The snapshot a process works on is the one in the file.
SnapPhase(c) ==
    pc[c] \in {"deciding", "creating", "filling", "replacing", "unlinking"} =>
        snap[c] = Loaded

Inv == /\ TypeOK
       /\ LockIsHolder
       /\ \A c \in Client : CallPhase(c) /\ DecisionPhase(c) /\ TempPhase(c) /\ SnapPhase(c)
       /\ orphans <= crashes

------------------------------------------------------------------------------
(* Every step preserves Inv.                                                *)

\* No mark of a verdict, a reply or a stored form is a snapshot.
LEMMA Marks ==
  /\ Default \in Content
  /\ Raise \notin Content /\ Keep \notin Content /\ Remove \notin Content
  /\ Absent \notin Content /\ Damaged \notin Content /\ Spoiled \notin Content
  /\ NoReply \notin Content /\ Failed \notin Content
  /\ NoTemp \notin Content /\ Partial \notin Content
  /\ Absent # Damaged /\ Absent # Spoiled /\ Damaged # Spoiled
  /\ NoReply # Failed /\ NoTemp # Partial
  /\ Raise # Keep /\ Raise # Remove /\ Keep # Remove
  BY ContentAssumption

LEMMA InitInv == Init => Inv
<1> SUFFICES ASSUME Init PROVE Inv
  OBVIOUS
<1> USE Marks, OperationAssumption, ClientAssumption DEF Init
<1>1. TypeOK
  BY DEF TypeOK
<1>2. LockIsHolder
  BY DEF LockIsHolder, Holding
<1>3. ASSUME NEW c \in Client
      PROVE  CallPhase(c) /\ DecisionPhase(c) /\ TempPhase(c) /\ SnapPhase(c)
  BY <1>3 DEF CallPhase, DecisionPhase, TempPhase, SnapPhase
<1>4. orphans <= crashes
  OBVIOUS
<1> QED
  BY <1>1, <1>2, <1>3, <1>4 DEF Inv

\* A loaded snapshot is what a mutator may be applied to.
LEMMA OperationValue ==
  ASSUME NEW o \in Operation, NEW s \in Content
  PROVE  o[s] \in Content \cup {Raise, Keep, Remove}
  BY OperationAssumption

LEMMA NextInv == Inv /\ [Next]_vars => Inv'
<1> SUFFICES ASSUME Inv, [Next]_vars PROVE Inv'
  OBVIOUS
<1> USE Marks, OperationAssumption, ClientAssumption
<1>1. ASSUME NEW c \in Client, Call(c) PROVE Inv'
  BY <1>1 DEF Call,
         Goto, Answered, Inv, TypeOK, LockIsHolder, CallPhase, DecisionPhase,
         TempPhase, SnapPhase, Holding, Loaded
<1>2. ASSUME NEW c \in Client, LockState(c) PROVE Inv'
  BY <1>2 DEF LockState,
         Goto, Answered, Inv, TypeOK, LockIsHolder, CallPhase, DecisionPhase,
         TempPhase, SnapPhase, Holding, Loaded
<1>3. ASSUME NEW c \in Client, LockTimeout(c) PROVE Inv'
  BY <1>3 DEF LockTimeout,
         Goto, Answered, Inv, TypeOK, LockIsHolder, CallPhase, DecisionPhase,
         TempPhase, SnapPhase, Holding, Loaded
<1>4. ASSUME NEW c \in Client, Load(c) PROVE Inv'
  BY <1>4 DEF Load,
         Goto, Answered, Inv, TypeOK, LockIsHolder, CallPhase, DecisionPhase,
         TempPhase, SnapPhase, Holding, Loaded
<1>5. ASSUME NEW c \in Client, Decide(c) PROVE Inv'
  <2> DEFINE verdict == op[c][snap[c]]
  <2>1. /\ pc[c] = "deciding" /\ lock = c /\ op[c] \in Operation
        /\ snap[c] \in Content /\ snap[c] = Loaded /\ temp[c] = NoTemp
    BY <1>5 DEF Decide, Inv, TypeOK, LockIsHolder, CallPhase, TempPhase, SnapPhase, Holding
  <2>2. verdict \in Content \cup {Raise, Keep, Remove}
    BY <2>1, OperationValue
  <2>3. TypeOK' /\ (orphans <= crashes)'
    BY <1>5, <2>1 DEF Decide, Goto, Answered, Inv, TypeOK, Holding
  <2>4. LockIsHolder'
    BY <1>5 DEF Decide, Goto, Inv, TypeOK, LockIsHolder, Holding
  <2>5. ASSUME NEW d \in Client PROVE CallPhase(d)' /\ TempPhase(d)'
    BY <1>5, <2>1 DEF Decide, Goto, Answered, Inv, TypeOK, CallPhase, TempPhase
  <2>6. ASSUME NEW d \in Client PROVE DecisionPhase(d)'
    BY <1>5, <2>1, <2>2 DEF Decide, Goto, Inv, TypeOK, DecisionPhase
  <2>7. ASSUME NEW d \in Client PROVE SnapPhase(d)'
    BY <1>5, <2>1 DEF Decide, Goto, Inv, TypeOK, SnapPhase, Loaded
  <2> QED
    BY <2>3, <2>4, <2>5, <2>6, <2>7 DEF Inv
<1>6. ASSUME NEW c \in Client, CreateTemp(c) PROVE Inv'
  BY <1>6 DEF CreateTemp,
         Goto, Answered, Inv, TypeOK, LockIsHolder, CallPhase, DecisionPhase,
         TempPhase, SnapPhase, Holding, Loaded
<1>7. ASSUME NEW c \in Client, FillTemp(c) PROVE Inv'
  BY <1>7 DEF FillTemp,
         Goto, Answered, Inv, TypeOK, LockIsHolder, CallPhase, DecisionPhase,
         TempPhase, SnapPhase, Holding, Loaded
<1>8. ASSUME NEW c \in Client, ReplaceFile(c) PROVE Inv'
  <2>1. pc[c] = "replacing" /\ lock = c /\ temp[c] \in Content
    BY <1>8 DEF ReplaceFile, Inv, LockIsHolder, DecisionPhase, Holding
  <2>2. TypeOK'
    BY <1>8, <2>1 DEF ReplaceFile, Goto, Answered, Inv, TypeOK, Holding
  <2>3. LockIsHolder'
    BY <1>8 DEF ReplaceFile, Goto, Inv, TypeOK, LockIsHolder, Holding
  <2>4. ASSUME NEW d \in Client
        PROVE  (CallPhase(d) /\ DecisionPhase(d) /\ TempPhase(d))'
    BY <1>8, <2>1 DEF ReplaceFile, Goto, Answered, Inv, TypeOK, CallPhase, DecisionPhase, TempPhase
  <2>5. ASSUME NEW d \in Client PROVE SnapPhase(d)'
    BY <1>8, <2>1 DEF ReplaceFile, Goto, Inv, TypeOK, LockIsHolder, SnapPhase, Holding
  <2> QED
    BY <1>8, <2>2, <2>3, <2>4, <2>5 DEF ReplaceFile, Inv
<1>9. ASSUME NEW c \in Client, WriteFails(c) PROVE Inv'
  BY <1>9 DEF WriteFails,
         Goto, Answered, Inv, TypeOK, LockIsHolder, CallPhase, DecisionPhase,
         TempPhase, SnapPhase, Holding, Loaded
<1>10. ASSUME NEW c \in Client, TidyTemp(c) PROVE Inv'
  BY <1>10 DEF TidyTemp,
         Goto, Answered, Inv, TypeOK, LockIsHolder, CallPhase, DecisionPhase,
         TempPhase, SnapPhase, Holding, Loaded
<1>11. ASSUME NEW c \in Client, RemoveFile(c) PROVE Inv'
  <2>1. pc[c] = "unlinking" /\ lock = c /\ snap[c] \in Content
    BY <1>11 DEF RemoveFile, Inv, TypeOK, LockIsHolder, Holding
  <2>2. TypeOK'
    BY <1>11, <2>1 DEF RemoveFile, Goto, Answered, Inv, TypeOK, Holding
  <2>3. LockIsHolder'
    BY <1>11 DEF RemoveFile, Goto, Inv, TypeOK, LockIsHolder, Holding
  <2>4. ASSUME NEW d \in Client
        PROVE  (CallPhase(d) /\ DecisionPhase(d) /\ TempPhase(d))'
    BY <1>11, <2>1 DEF RemoveFile, Goto, Answered, Inv, TypeOK, CallPhase, DecisionPhase, TempPhase
  <2>5. ASSUME NEW d \in Client PROVE SnapPhase(d)'
    BY <1>11, <2>1 DEF RemoveFile, Goto, Inv, TypeOK, LockIsHolder, SnapPhase, Holding
  <2> QED
    BY <1>11, <2>2, <2>3, <2>4, <2>5 DEF RemoveFile, Inv
<1>12. ASSUME NEW c \in Client, RemoveFails(c) PROVE Inv'
  BY <1>12 DEF RemoveFails,
         Goto, Answered, Inv, TypeOK, LockIsHolder, CallPhase, DecisionPhase,
         TempPhase, SnapPhase, Holding, Loaded
<1>13. ASSUME NEW c \in Client, UnlockState(c) PROVE Inv'
  BY <1>13 DEF UnlockState,
         Goto, Answered, Inv, TypeOK, LockIsHolder, CallPhase, DecisionPhase,
         TempPhase, SnapPhase, Holding, Loaded
<1>14. ASSUME NEW c \in Client, Crash(c) PROVE Inv'
  BY <1>14 DEF Crash,
         Goto, Answered, Inv, TypeOK, LockIsHolder, CallPhase, DecisionPhase,
         TempPhase, SnapPhase, Holding, Loaded
<1>15. CASE Age
  BY <1>15 DEF Age, Inv, TypeOK, LockIsHolder, CallPhase, DecisionPhase, TempPhase, SnapPhase, Holding, Loaded
<1>16. CASE UNCHANGED vars
  BY <1>16 DEF vars, Inv, TypeOK, LockIsHolder, CallPhase, DecisionPhase, TempPhase, SnapPhase, Holding, Loaded
<1> QED
  BY <1>1, <1>2, <1>3, <1>4, <1>5, <1>6, <1>7, <1>8, <1>9, <1>10, <1>11, <1>12,
     <1>13, <1>14, <1>15, <1>16 DEF Next, Step

------------------------------------------------------------------------------
(* What follows from Inv.                                                   *)

LEMMA SpecInv == Spec => []Inv
  BY InitInv, NextInv, PTL DEF Spec

\* Every variable keeps to its type.
THEOREM TypeCorrect == Spec => []TypeOK
  BY SpecInv, PTL DEF Inv

\* The snapshot a mutator decides on is what the file still says when its
\* outcome is written, whatever the number of processes and their deaths: the
\* flock, the load and the replacement leave no room for a lost update.
THEOREM SnapshotStaysCurrent == Spec => []SnapshotCurrent
<1>1. Inv => SnapshotCurrent
  BY DEF Inv, LockIsHolder, SnapPhase, SnapshotCurrent, Holding
<1> QED
  BY SpecInv, <1>1, PTL

\* Every temporary file belongs to the lock holder, and those that do not were
\* left by a death or a failed removal.
THEOREM TempsAlwaysAccounted == Spec => []TempsAccounted
<1>1. Inv => TempsAccounted
  BY DEF Inv, LockIsHolder, TempPhase, TempsAccounted, Holding
<1> QED
  BY SpecInv, <1>1, PTL

\* No step of any process replaces or removes a file that does not load.
THEOREM DamageIsKept == Spec => DamageKept
<1>1. Inv /\ [Next]_vars => [/\ file = Damaged => file' = Damaged
                             /\ file = Spoiled /\ ~stale => file' = Spoiled]_<<file, stale>>
  <2> SUFFICES ASSUME Inv, [Next]_vars, file \notin Content, file # Absent,
                      file = Damaged \/ ~stale
               PROVE  file' = file
    BY Marks
  <2> USE Marks
  <2>1. ASSUME NEW c \in Client PROVE ~ReplaceFile(c) /\ ~RemoveFile(c)
    BY <2>1 DEF Inv, TypeOK, SnapPhase, Loaded, ReplaceFile, RemoveFile
  <2> QED
    BY <2>1 DEF vars, Next, Step, Call, LockState, LockTimeout, Load, Decide,
                CreateTemp, FillTemp, WriteFails, TidyTemp, RemoveFails,
                UnlockState, Crash, Age
<1> QED
  BY SpecInv, <1>1, PTL DEF Spec, DamageKept

------------------------------------------------------------------------------
(* Calls end.  What fairness adds to the following is only that a process   *)
(* that can go on does.                                                     *)

\* How many steps of its own a process has left at most.
Remaining(c) ==
    CASE pc[c] = "idle" -> 0        [] pc[c] = "waiting" -> 8
      [] pc[c] = "loading" -> 7     [] pc[c] = "deciding" -> 6
      [] pc[c] = "creating" -> 5    [] pc[c] = "filling" -> 4
      [] pc[c] = "replacing" -> 3   [] pc[c] \in {"tidying", "unlinking"} -> 2
      [] pc[c] = "unlocking" -> 1

\* In a call, nothing but its own step or death moves a process, and that brings it
\* nearer to the end of the call.
CallGetsOn ==
    [][\A c \in Client : pc[c] # "idle" /\ pc'[c] # pc[c]
          => Remaining(c)' < Remaining(c)]_vars

LEMMA StepsRemain ==
  ASSUME Inv, NEW c \in Client
  PROVE  /\ Remaining(c) \in 0 .. 8 /\ (Remaining(c) = 0 => pc[c] = "idle")
         /\ lock = c => Remaining(c) \in 1 .. 7
<1>1. pc[c] \in {"idle", "waiting"} \cup Holding
  BY DEF Inv, TypeOK
<1>2. lock = c => pc[c] \in Holding
  BY DEF Inv, LockIsHolder
<1>3. /\ pc[c] = "idle" => Remaining(c) = 0
      /\ pc[c] = "waiting" => Remaining(c) = 8
      /\ pc[c] = "loading" => Remaining(c) = 7
      /\ pc[c] = "deciding" => Remaining(c) = 6
      /\ pc[c] = "creating" => Remaining(c) = 5
      /\ pc[c] = "filling" => Remaining(c) = 4
      /\ pc[c] = "replacing" => Remaining(c) = 3
      /\ pc[c] \in {"tidying", "unlinking"} => Remaining(c) = 2
      /\ pc[c] = "unlocking" => Remaining(c) = 1
  BY DEF Remaining
<1> QED
  BY <1>1, <1>2, <1>3 DEF Holding

LEMMA StepGetsOn ==
  ASSUME Inv, [Next]_vars, NEW c \in Client, pc[c] # "idle", pc'[c] # pc[c]
  PROVE  Remaining(c)' < Remaining(c)
<1>1. ASSUME NEW d \in Client, Call(d) \/ Step(d) \/ Crash(d) PROVE d = c
  BY <1>1 DEF Inv, TypeOK, Step, Call, LockState, LockTimeout, Load, Decide, CreateTemp,
              FillTemp, ReplaceFile, WriteFails, TidyTemp, RemoveFile, RemoveFails,
              UnlockState, Crash, Goto
<1>2. Step(c) \/ Crash(c)
  BY <1>1 DEF Next, Call, Age, vars
<1>t. pc \in [Client -> {"idle", "waiting"} \cup Holding]
  BY DEF Inv, TypeOK
<1>3. CASE Crash(c)
  BY <1>t, <1>3 DEF Crash, Goto, Remaining, Holding
<1>4. CASE LockState(c) \/ LockTimeout(c) \/ Load(c) \/ CreateTemp(c) \/ FillTemp(c)
  BY <1>t, <1>4 DEF LockState, LockTimeout, Load, CreateTemp, FillTemp, Goto, Remaining
<1>5. CASE Decide(c)
  BY <1>t, <1>5 DEF Decide, Goto, Remaining
<1>6. CASE \/ ReplaceFile(c) \/ WriteFails(c) \/ TidyTemp(c)
           \/ RemoveFile(c) \/ RemoveFails(c) \/ UnlockState(c)
  BY <1>t, <1>6 DEF ReplaceFile, WriteFails, TidyTemp, RemoveFile, RemoveFails, UnlockState,
                    Goto, Remaining
<1> QED
  BY <1>2, <1>3, <1>4, <1>5, <1>6 DEF Step

\* A call takes at most eight steps of its process, and whoever holds the lock has at
\* most seven before it drops it: no call goes round, waits for another while it
\* holds the lock, or is moved by anybody else.
THEOREM CallsEnd ==
    Spec => /\ [](\A c \in Client : /\ Remaining(c) \in 0 .. 8
                                    /\ lock = c => Remaining(c) \in 1 .. 7)
            /\ CallGetsOn
<1>1. Inv => \A c \in Client : /\ Remaining(c) \in 0 .. 8
                               /\ lock = c => Remaining(c) \in 1 .. 7
  BY StepsRemain
<1>2. Inv /\ [Next]_vars =>
         [\A c \in Client : pc[c] # "idle" /\ pc'[c] # pc[c]
             => Remaining(c)' < Remaining(c)]_vars
  BY StepGetsOn
<1> QED
  BY SpecInv, <1>1, <1>2, PTL DEF Spec, CallGetsOn

------------------------------------------------------------------------------
(* StateStore implements SessionRegister: the one step of a call that takes *)
(* effect is the rename, the removal, or the verdict to keep.               *)

LEMMA InitRefines == Init => Register!Init
  BY Marks DEF Init, Loaded, Register!Init

LEMMA NextRefines == Inv /\ [Next]_vars => [Register!Next]_(Register!vars)
<1> SUFFICES ASSUME Inv, [Next]_vars
             PROVE  Register!Next \/ UNCHANGED Register!vars
  OBVIOUS
<1> USE Marks, OperationAssumption DEF Goto, Answered, Register!vars
<1>1. ASSUME NEW c \in Client, Call(c) PROVE Register!Invoke(c)
  BY <1>1 DEF Call, Register!Invoke, Inv, CallPhase, Loaded
<1>2. ASSUME NEW c \in Client,
             LockState(c) \/ CreateTemp(c) \/ FillTemp(c) \/ TidyTemp(c)
      PROVE  UNCHANGED Register!vars
  BY <1>2 DEF LockState, CreateTemp, FillTemp, TidyTemp, Loaded
<1>3. ASSUME NEW c \in Client, LockTimeout(c) \/ WriteFails(c) \/ RemoveFails(c)
      PROVE  Register!Reject(c)
  BY <1>3 DEF LockTimeout, WriteFails, RemoveFails, Register!Reject, Inv, CallPhase, Loaded
<1>4. ASSUME NEW c \in Client, Load(c)
      PROVE  Register!Reject(c) \/ UNCHANGED Register!vars
  BY <1>4 DEF Load, Register!Reject, Inv, CallPhase, Loaded
<1>5. ASSUME NEW c \in Client, Decide(c)
      PROVE  \/ Register!Reject(c) \/ Register!Apply(c)
             \/ UNCHANGED Register!vars
  <2>1. /\ snap[c] = Loaded /\ snap[c] \in Content
        /\ op[c] # NoCall /\ result[c] = NoReply
    BY <1>5 DEF Decide, Inv, TypeOK, SnapPhase, CallPhase
  <2>2. CASE op[c][snap[c]] = Keep
    BY <1>5, <2>1, <2>2 DEF Decide, Register!Apply, Register!After, Register!Answer, Loaded
  <2>3. CASE op[c][snap[c]] = Raise
    BY <1>5, <2>1, <2>3 DEF Decide, Register!Reject, Loaded
  <2>4. CASE op[c][snap[c]] \notin {Keep, Raise}
    BY <1>5, <2>4 DEF Decide, Loaded
  <2> QED
    BY <2>2, <2>3, <2>4
<1>6. ASSUME NEW c \in Client, ReplaceFile(c) PROVE Register!Apply(c)
  <2>1. /\ snap[c] = Loaded /\ snap[c] \in Content
        /\ op[c] # NoCall /\ result[c] = NoReply
        /\ temp[c] = op[c][snap[c]] /\ temp[c] \in Content
    BY <1>6 DEF ReplaceFile, Inv, TypeOK, SnapPhase, CallPhase, DecisionPhase
  <2>2. Loaded' = temp[c]
    BY <1>6, <2>1 DEF ReplaceFile, Loaded
  <2> QED
    BY <1>6, <2>1, <2>2 DEF ReplaceFile, Register!Apply, Register!After, Register!Answer
<1>7. ASSUME NEW c \in Client, RemoveFile(c) PROVE Register!Apply(c)
  <2>1. /\ snap[c] = Loaded /\ snap[c] \in Content
        /\ op[c] # NoCall /\ result[c] = NoReply
        /\ op[c][snap[c]] = Remove
    BY <1>7 DEF RemoveFile, Inv, TypeOK, SnapPhase, CallPhase, DecisionPhase
  <2>2. Loaded' = Default
    BY <1>7 DEF RemoveFile, Loaded
  <2> QED
    BY <1>7, <2>1, <2>2 DEF RemoveFile, Register!Apply, Register!After, Register!Answer
<1>8. ASSUME NEW c \in Client, UnlockState(c) PROVE Register!Return(c)
  BY <1>8 DEF UnlockState, Register!Return, Inv, CallPhase, Loaded
<1>9. ASSUME NEW c \in Client, Crash(c) PROVE Register!Vanish(c)
  BY <1>9 DEF Crash, Register!Vanish, Loaded
<1>10. ASSUME Age PROVE Register!Expire
  BY <1>10 DEF Age, Register!Expire, Loaded, Inv, TypeOK
<1>11. CASE UNCHANGED vars
  BY <1>11 DEF vars, Loaded
<1> QED
  BY <1>1, <1>2, <1>3, <1>4, <1>5, <1>6, <1>7, <1>8, <1>9, <1>10, <1>11
  DEF Next, Step, Register!Next

\* The session file, its lock and its temporary files behave as one register
\* that changes by whole operations: whatever the interleaving, the deaths and
\* the failed writes, a call that returns a snapshot took effect at one instant
\* on the content then current, and a call that failed had no effect.
THEOREM StoreImplementsRegister == Spec => RegisterSpec
  BY SpecInv, InitRefines, NextRefines, PTL DEF Spec, RegisterSpec, Register!Spec
==============================================================================
