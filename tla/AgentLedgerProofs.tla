-------------------------- MODULE AgentLedgerProofs --------------------------
(***************************************************************************)
(* What the ledger of active agents covers, for any number of agents,      *)
(* turns, compactions and mishaps.                                         *)
(***************************************************************************)
EXTENDS AgentLedger, FiniteSetTheorems, TLAPS

(***************************************************************************)
(* An agent is recorded, and its start is on its way, only once it began;  *)
(* its end is on its way only once it ended.  Without this an end could    *)
(* take a running agent out of the ledger, and an agent could be recorded  *)
(* under one name and begin under another.                                 *)
(***************************************************************************)
Announced ==
    \A a \in Agent : /\ a \in recorded \/ Start(a) \in sent => agent[a] # "none"
                     /\ End(a) \in sent => agent[a] = "ended"

Typed == /\ agent \in [Agent -> {"none", "running", "ended"}]
         /\ sent \subseteq Event
         /\ recorded \subseteq Agent

Inv == Typed /\ Announced /\ LedgerCoversRunning

\* Events of different agents or kinds differ.
LEMMA EventsDiffer ==
    ASSUME NEW a \in Agent, NEW b \in Agent
    PROVE  /\ Start(a) # End(b)
           /\ Start(a) = Start(b) => a = b
           /\ End(a) = End(b) => a = b
           /\ PreCompactEvent # Start(a) /\ PreCompactEvent # End(a)
           /\ StopEvent # Start(a) /\ StopEvent # End(a)
BY DEF Start, End, PreCompactEvent, StopEvent

LEMMA InvInit == Init => Inv
BY DEF Init, Inv, Typed, Announced, LedgerCoversRunning

\* What SubagentStop removes is never the entry of another agent.
LEMMA PopsOwnOnly ==
    ASSUME NEW a \in Agent, NEW b \in Agent, a # b, Entry(b) \in ledger
    PROVE  Entry(b) \in Popped(a)
BY LedgerAssumption DEF Entry, Popped, Name

LEMMA InvNext == Inv /\ [Next]_vars => Inv'
<1> SUFFICES ASSUME Inv, [Next]_vars PROVE Inv'
    OBVIOUS
<1> USE DEF Inv, Typed
<1>1. CASE HostPrompt \/ HostCompacts \/ HostStops \/ FileDamaged
  <2>1. /\ UNCHANGED <<agent, nameless, recorded, ledger>>
        /\ sent' \subseteq sent \cup {PreCompactEvent, StopEvent}
    BY <1>1 DEF HostPrompt, HostCompacts, HostStops, FileDamaged, session
  <2>2. sent' \subseteq Event
    BY <2>1 DEF Event
  <2> QED
    BY <2>1, <2>2, EventsDiffer DEF Announced, LedgerCoversRunning, Entry
<1>2. ASSUME NEW a \in Agent, AgentBegins(a) PROVE Inv'
  <2>1. /\ agent[a] = "none" /\ agent' = [agent EXCEPT ![a] = "running"]
        /\ sent' = sent \cup {Start(a)}
        /\ \A b \in Agent : b # a => (b \in nameless' <=> b \in nameless)
        /\ UNCHANGED <<ledger, recorded>>
    BY <1>2 DEF AgentBegins, session
  <2>2. sent' \subseteq Event
    BY <2>1 DEF Event
  <2>3. a \notin recorded /\ End(a) \notin sent
    BY <2>1 DEF Announced
  <2>4. Announced'
    BY <2>1, <2>3, EventsDiffer DEF Announced
  <2>5. LedgerCoversRunning'
    BY <2>1, <2>3 DEF LedgerCoversRunning, Entry
  <2> QED
    BY <2>1, <2>2, <2>4, <2>5
<1>3. ASSUME NEW a \in Agent, AgentEnds(a) PROVE Inv'
  <2>1. /\ agent[a] = "running" /\ agent' = [agent EXCEPT ![a] = "ended"]
        /\ sent' \subseteq sent \cup {End(a)}
        /\ UNCHANGED <<ledger, recorded, nameless>>
    BY <1>3 DEF AgentEnds, session
  <2>2. sent' \subseteq Event
    BY <2>1 DEF Event
  <2>3. Announced'
    BY <2>1, EventsDiffer DEF Announced
  <2>4. LedgerCoversRunning'
    BY <2>1 DEF LedgerCoversRunning, Entry
  <2> QED
    BY <2>1, <2>2, <2>3, <2>4
<1>4. ASSUME NEW a \in Agent, SubagentStart(a) PROVE Inv'
  <2>1. /\ Start(a) \in sent /\ sent' \subseteq sent
        /\ ledger' = ledger \cup {Entry(a)} /\ recorded' = recorded \cup {a}
        /\ UNCHANGED <<agent, nameless>>
    BY <1>4 DEF SubagentStart, Took
  <2>2. Announced'
    BY <2>1 DEF Announced
  <2>3. LedgerCoversRunning'
    BY <2>1 DEF LedgerCoversRunning, Entry
  <2> QED
    BY <2>1, <2>2, <2>3
<1>5. ASSUME NEW a \in Agent, SubagentStop(a) PROVE Inv'
  <2>1. /\ End(a) \in sent /\ sent' \subseteq sent /\ ledger' = Popped(a)
        /\ UNCHANGED <<agent, nameless, recorded>>
    BY <1>5 DEF SubagentStop, Took
  <2>2. agent[a] = "ended"
    BY <2>1 DEF Announced
  <2>3. Announced'
    BY <2>1 DEF Announced
  <2>4. ASSUME NEW b \in recorded', agent'[b] = "running" PROVE Entry(b)' \in ledger'
    <3>1. b \in Agent /\ b # a /\ Entry(b) \in ledger
      BY <2>1, <2>2, <2>4 DEF LedgerCoversRunning
    <3>2. Entry(b)' = Entry(b)
      BY <2>1 DEF Entry
    <3> QED
      BY <2>1, <3>1, <3>2, PopsOwnOnly
  <2>5. LedgerCoversRunning'
    BY <2>4 DEF LedgerCoversRunning
  <2> QED
    BY <2>1, <2>3, <2>5
<1>6. CASE PreCompact \/ Stop \/ StopRaises \/ \E e \in Event : HandlerRaises(e)
  <2>1. /\ UNCHANGED <<agent, nameless, recorded, ledger>>
        /\ sent' \subseteq sent
    <3>1. CASE Stop
      BY <3>1 DEF Stop, Took, HandleStop, StopState, session
    <3> QED
      BY <1>6, <3>1 DEF PreCompact, StopRaises, HandlerRaises, Took, session
  <2> QED
    BY <2>1 DEF Announced, LedgerCoversRunning, Entry
<1>7. CASE UNCHANGED vars
  BY <1>7 DEF vars, session, Announced, LedgerCoversRunning, Entry
<1> QED
  BY <1>1, <1>2, <1>3, <1>4, <1>5, <1>6, <1>7 DEF Next, Handlers

(***************************************************************************)
(* A recorded agent that runs is in the ledger, whatever other agents,     *)
(* Stops and turns do.                                                     *)
(***************************************************************************)
THEOREM LedgerAlwaysCoversRunning == Spec => []LedgerCoversRunning
<1>1. Inv => LedgerCoversRunning
  BY DEF Inv
<1> QED
  BY InvInit, InvNext, <1>1, PTL DEF Spec

(***************************************************************************)
(* A Stop that is not forced ends a turn only over a readable ledger and   *)
(* no running recorded agent.                                              *)
(***************************************************************************)
THEOREM QuietStopIsAlwaysClean == Spec => QuietStopIsClean
<1>1. ASSUME Inv, [Next]_vars, host = "stopping", host' = "idle", ~forced
      PROVE  ~damaged /\ \A a \in recorded : agent[a] # "running"
  <2>1. Stop
    BY <1>1 DEF Next, HostPrompt, HostCompacts, HostStops, FileDamaged, AgentBegins,
                AgentEnds, Handlers, SubagentStart, SubagentStop, PreCompact,
                StopRaises, Blocks, HandlerRaises, vars
  <2>2. ~damaged /\ ledger = {}
    BY <1>1, <2>1 DEF Stop, HandleStop, Blocks
  <2> QED
    BY <1>1, <2>2 DEF Inv, LedgerCoversRunning
<1>2. Inv /\ [Next]_vars =>
        [host = "stopping" /\ host' = "idle" /\ ~forced
         => ~damaged /\ \A a \in recorded : agent[a] # "running"]_vars
  BY <1>1
<1> QED
  BY InvInit, InvNext, <1>2, PTL DEF Spec, QuietStopIsClean

------------------------------------------------------------------------------
(* The types, with the one count that is not bounded by its own guard.      *)

\* A PreCompact on its way has been counted by the host and not by the session.
CompactionsCounted ==
    /\ compactions \in Nat /\ compacts \in 0 .. MaxCompactions
    /\ compactions <= compacts
    /\ PreCompactEvent \in sent => compactions < compacts

TypeInv == TypeOK /\ CompactionsCounted

LEMMA TypeInit == Init => TypeInv
<1> SUFFICES ASSUME Init PROVE TypeInv
    OBVIOUS
<1>1. /\ compactions \in 0 .. MaxCompactions /\ compacts \in 0 .. MaxCompactions
      /\ turns \in 0 .. MaxTurn /\ mishaps \in 0 .. MaxMishaps
  BY LedgerAssumption DEF Init
<1>2. damaged \in BOOLEAN /\ forced \in BOOLEAN
  BY DEF Init
<1>3. /\ ledger \subseteq Name /\ sent \subseteq Event
      /\ nameless \subseteq Agent /\ recorded \subseteq Agent
      /\ agent \in [Agent -> {"none", "running", "ended"}]
      /\ host \in {"idle", "working", "stopping"}
  BY DEF Init
<1>4. CompactionsCounted
  BY <1>1 DEF Init, CompactionsCounted
<1> QED
  BY <1>1, <1>2, <1>3, <1>4 DEF TypeInv, TypeOK

LEMMA TypeNext == TypeInv /\ [Next]_vars => TypeInv'
<1> SUFFICES ASSUME TypeInv, [Next]_vars PROVE TypeInv'
    OBVIOUS
<1> USE LedgerAssumption DEF TypeInv, TypeOK, CompactionsCounted
<1>1. ASSUME NEW a \in Agent
      PROVE  /\ Start(a) \in Event /\ End(a) \in Event
             /\ PreCompactEvent # Start(a) /\ PreCompactEvent # End(a)
             /\ Entry(a) \in Name
  BY EventsDiffer DEF Event, Entry, Name
<1>2. PreCompactEvent \in Event /\ StopEvent \in Event /\ PreCompactEvent # StopEvent
  BY DEF Event, PreCompactEvent, StopEvent
<1>3. CASE HostPrompt
  <2>1. turns' \in 0 .. MaxTurn
    BY <1>3 DEF HostPrompt
  <2>2. host' = "working" /\ forced' = FALSE
    BY <1>3 DEF HostPrompt
  <2>3. UNCHANGED <<session, agent, sent, nameless, compacts, mishaps, recorded>>
    BY <1>3 DEF HostPrompt
  <2> QED
    BY <2>1, <2>2, <2>3 DEF session
<1>4. CASE HostStops
  BY <1>2, <1>4 DEF HostStops, session, bounds
<1>5. CASE HostCompacts
  <2>1. /\ compacts' = compacts + 1 /\ compacts < MaxCompactions
        /\ UNCHANGED compactions
    BY <1>5 DEF HostCompacts, session
  <2>2. CompactionsCounted'
    BY <2>1
  <2> QED
    BY <1>2, <1>5, <2>2 DEF HostCompacts, session
<1>6. CASE FileDamaged
  BY <1>6 DEF FileDamaged, Mishap
<1>7. ASSUME NEW a \in Agent, AgentBegins(a) \/ AgentEnds(a) PROVE TypeInv'
  BY <1>1, <1>7 DEF AgentBegins, AgentEnds, session, Mishap
<1>8. ASSUME NEW a \in Agent, SubagentStart(a) \/ SubagentStop(a) PROVE TypeInv'
  BY <1>1, <1>8 DEF SubagentStart, SubagentStop, Took, Popped, bounds
<1>9. CASE PreCompact
  BY <1>2, <1>9 DEF PreCompact, Took, bounds
<1>10. CASE Stop
  <2>1. \/ UNCHANGED session
        \/ UNCHANGED <<ledger, damaged>> /\ compactions' \in {0, compactions}
    BY <1>10 DEF Stop, HandleStop, StopState, session
  <2>2. host' \in {"idle", "working"} /\ forced' \in BOOLEAN
    BY <1>10 DEF Stop, HandleStop, Passes, Blocks
  <2> QED
    BY <1>2, <1>10, <2>1, <2>2 DEF Stop, Took, session, bounds
<1>11. CASE StopRaises
  BY <1>2, <1>11 DEF StopRaises, Took, Blocks, Mishap, session
<1>12. ASSUME NEW e \in Event, HandlerRaises(e) PROVE TypeInv'
  BY <1>12 DEF HandlerRaises, Took, Mishap, session
<1>13. CASE UNCHANGED vars
  BY <1>13 DEF vars, session, bounds
<1> QED
  BY <1>3, <1>4, <1>5, <1>6, <1>7, <1>8, <1>9, <1>10, <1>11, <1>12, <1>13
  DEF Next, Handlers

(***************************************************************************)
(* Every variable has its type; the session counts no compaction that the  *)
(* host did not announce.                                                  *)
(***************************************************************************)
THEOREM TypeCorrect == Spec => []TypeOK
<1>1. TypeInv => TypeOK
  BY DEF TypeInv
<1> QED
  BY TypeInit, TypeNext, <1>1, PTL DEF Spec

------------------------------------------------------------------------------
(* Stale entries.  Doomed are the names that are, or may still become,      *)
(* entries nothing will remove; only a mishap adds to them.                 *)

Overtaken == {a \in Agent : agent[a] = "ended" /\ Start(a) \in sent /\ End(a) \in sent}

Abandoned == {a \in Agent \ nameless : /\ agent[a] = "ended" /\ End(a) \notin sent
                                       /\ Start(a) \in sent \/ a \in ledger}

Doomed == {Unnamed(a) : a \in nameless} \cup Overtaken \cup Abandoned

EntriesRecorded == ledger \subseteq {Entry(a) : a \in recorded}

DoomedCounted == damaged \/ (IsFiniteSet(Doomed) /\ Cardinality(Doomed) <= mishaps)

StaleInv == Inv /\ mishaps \in Nat /\ nameless \subseteq Agent
            /\ EntriesRecorded /\ DoomedCounted

\* Fewer doomed names, or one more for one more mishap.
LEMMA DoomedGrows ==
    ASSUME StaleInv, mishaps' \in Nat,
           damaged => damaged',
           \/ damaged'
           \/ Doomed' \subseteq Doomed /\ mishaps' >= mishaps
           \/ mishaps' = mishaps + 1 /\ \E n : Doomed' \subseteq Doomed \cup {n}
    PROVE  DoomedCounted'
<1>1. CASE damaged'
  BY <1>1 DEF DoomedCounted
<1>2. CASE ~damaged' /\ Doomed' \subseteq Doomed /\ mishaps' >= mishaps
  <2>1. IsFiniteSet(Doomed) /\ Cardinality(Doomed) <= mishaps
    BY <1>2 DEF StaleInv, DoomedCounted
  <2>2. /\ IsFiniteSet(Doomed') /\ Cardinality(Doomed') <= Cardinality(Doomed)
        /\ Cardinality(Doomed') \in Nat /\ Cardinality(Doomed) \in Nat
    BY <1>2, <2>1, FS_Subset, FS_CardinalityType
  <2> QED
    BY <1>2, <2>1, <2>2 DEF DoomedCounted, StaleInv
<1>3. CASE ~damaged' /\ mishaps' = mishaps + 1 /\ \E n : Doomed' \subseteq Doomed \cup {n}
  <2>1. IsFiniteSet(Doomed) /\ Cardinality(Doomed) <= mishaps
    BY <1>3 DEF StaleInv, DoomedCounted
  <2>2. PICK n : Doomed' \subseteq Doomed \cup {n}
    BY <1>3
  <2>3. /\ IsFiniteSet(Doomed \cup {n})
        /\ Cardinality(Doomed \cup {n}) \in {Cardinality(Doomed), Cardinality(Doomed) + 1}
    BY <2>1, FS_AddElement
  <2>4. /\ IsFiniteSet(Doomed') /\ Cardinality(Doomed') <= Cardinality(Doomed \cup {n})
        /\ Cardinality(Doomed') \in Nat /\ Cardinality(Doomed) \in Nat
    BY <2>1, <2>2, <2>3, FS_Subset, FS_CardinalityType
  <2> QED
    BY <1>3, <2>1, <2>3, <2>4 DEF DoomedCounted, StaleInv
<1> QED
  BY <1>1, <1>2, <1>3 DEF StaleInv

LEMMA StaleInit == Init => StaleInv
<1> SUFFICES ASSUME Init PROVE StaleInv
    OBVIOUS
<1>1. Doomed = {}
  BY DEF Init, Doomed, Overtaken, Abandoned
<1>2. IsFiniteSet(Doomed) /\ Cardinality(Doomed) = 0
  BY <1>1, FS_EmptySet
<1> QED
  BY <1>2, InvInit DEF Init, StaleInv, EntriesRecorded, DoomedCounted

LEMMA StaleNext == StaleInv /\ [Next]_vars => StaleInv'
<1> SUFFICES ASSUME StaleInv, [Next]_vars PROVE StaleInv'
    OBVIOUS
<1>i. Inv'
  BY InvNext DEF StaleInv
<1> USE DEF StaleInv
<1>1. CASE HostPrompt \/ HostCompacts \/ HostStops \/ FileDamaged
  <2>1. /\ UNCHANGED <<agent, nameless, recorded, ledger>>
        /\ sent' \subseteq sent \cup {PreCompactEvent, StopEvent} /\ sent \subseteq sent'
        /\ mishaps' \in {mishaps, mishaps + 1} /\ (damaged => damaged')
    BY <1>1
    DEF HostPrompt, HostCompacts, HostStops, FileDamaged, session, bounds, Mishap
  <2>2. Doomed' = Doomed
    BY <2>1, EventsDiffer DEF Doomed, Overtaken, Abandoned
  <2> QED
    BY <1>i, <2>1, <2>2, DoomedGrows DEF EntriesRecorded, Entry
<1>2. ASSUME NEW a \in Agent, AgentBegins(a) PROVE StaleInv'
  <2>1. /\ agent[a] = "none" /\ agent' = [agent EXCEPT ![a] = "running"]
        /\ agent \in [Agent -> {"none", "running", "ended"}]
        /\ sent' = sent \cup {Start(a)}
        /\ UNCHANGED <<ledger, recorded, damaged>>
        /\ a \notin recorded /\ recorded \subseteq Agent
    BY <1>2 DEF AgentBegins, session, Inv, Typed, Announced
  <2>2. \/ nameless' = nameless /\ mishaps' = mishaps
        \/ nameless' = nameless \cup {a} /\ mishaps' = mishaps + 1
    BY <1>2 DEF AgentBegins, Mishap
  <2>3. EntriesRecorded'
    BY <2>1, <2>2 DEF EntriesRecorded, Entry
  <2>4. Doomed' \subseteq Doomed \cup {Unnamed(b) : b \in nameless'}
    <3>1. Overtaken' \subseteq Overtaken
      BY <2>1, EventsDiffer DEF Overtaken
    <3>2. Abandoned' \subseteq Abandoned
      BY <2>1, <2>2, EventsDiffer DEF Abandoned
    <3> QED
      BY <3>1, <3>2 DEF Doomed
  <2>5. \/ nameless' = nameless /\ Doomed' \subseteq Doomed
        \/ mishaps' = mishaps + 1 /\ Doomed' \subseteq Doomed \cup {Unnamed(a)}
    BY <2>2, <2>4 DEF Doomed
  <2>6. DoomedCounted'
    BY <2>1, <2>2, <2>5, DoomedGrows
  <2> QED
    BY <1>i, <2>2, <2>3, <2>6
<1>3. ASSUME NEW a \in Agent, AgentEnds(a) PROVE StaleInv'
  <2>1. /\ agent[a] = "running" /\ agent' = [agent EXCEPT ![a] = "ended"]
        /\ agent \in [Agent -> {"none", "running", "ended"}]
        /\ sent \subseteq sent' /\ sent' \subseteq sent \cup {End(a)}
        /\ UNCHANGED <<ledger, recorded, nameless, damaged>>
        /\ mishaps' \in {mishaps, mishaps + 1}
    BY <1>3 DEF AgentEnds, session, Inv, Typed, Mishap
  <2>2. Overtaken' \subseteq Overtaken \cup {a} /\ Abandoned' \subseteq Abandoned \cup {a}
    BY <2>1, EventsDiffer DEF Overtaken, Abandoned
  <2>3. CASE Start(a) \notin sent /\ sent' = sent \cup {End(a)} /\ UNCHANGED mishaps
    <3>1. a \notin Overtaken' /\ a \notin Abandoned'
      BY <2>3, EventsDiffer DEF Overtaken, Abandoned
    <3>2. Doomed' \subseteq Doomed
      BY <2>1, <2>2, <3>1 DEF Doomed
    <3> QED
      BY <1>i, <2>1, <2>3, <3>2, DoomedGrows DEF EntriesRecorded, Entry
  <2>4. CASE Mishap
    <3>1. Doomed' \subseteq Doomed \cup {a}
      BY <2>1, <2>2 DEF Doomed
    <3> QED
      BY <1>i, <2>1, <2>4, <3>1, DoomedGrows DEF EntriesRecorded, Entry, Mishap
  <2> QED
    BY <1>3, <2>3, <2>4 DEF AgentEnds
<1>4. ASSUME NEW a \in Agent, SubagentStart(a) PROVE StaleInv'
  <2>1. /\ Start(a) \in sent /\ sent' = sent \ {Start(a)}
        /\ ledger' = ledger \cup {Entry(a)} /\ recorded' = recorded \cup {a}
        /\ UNCHANGED <<agent, nameless, damaged, mishaps>>
    BY <1>4 DEF SubagentStart, Took, bounds
  <2>2. Overtaken' \subseteq Overtaken
    BY <2>1 DEF Overtaken
  <2>3. Abandoned' \subseteq Abandoned
    BY <2>1, EventsDiffer, LedgerAssumption DEF Abandoned, Entry
  <2>4. Doomed' \subseteq Doomed
    BY <2>1, <2>2, <2>3 DEF Doomed
  <2>5. EntriesRecorded'
    BY <2>1 DEF EntriesRecorded, Entry
  <2> QED
    BY <1>i, <2>1, <2>4, <2>5, DoomedGrows
<1>5. ASSUME NEW a \in Agent, SubagentStop(a) PROVE StaleInv'
  <2>1. /\ End(a) \in sent /\ sent' = sent \ {End(a)} /\ ledger' = Popped(a)
        /\ UNCHANGED <<agent, nameless, damaged, mishaps, recorded>>
    BY <1>5 DEF SubagentStop, Took, bounds
  <2>2. agent[a] = "ended" /\ Popped(a) \subseteq ledger
    BY <2>1 DEF Inv, Announced, Popped
  <2>3. ASSUME NEW b \in Doomed' PROVE b \in Doomed
    <3>1. CASE b = a /\ a \notin nameless /\ Start(a) \in sent
      BY <2>1, <2>2, <3>1 DEF Doomed, Overtaken
    <3>2. CASE b = a /\ a \notin nameless /\ Start(a) \notin sent
      <4>1. a \notin ledger'
        BY <2>1, <3>2 DEF Popped
      <4> QED
        BY <2>1, <2>3, <3>2, <4>1 DEF Doomed, Overtaken, Abandoned
    <3>3. CASE b # a \/ a \in nameless
      BY <2>1, <2>2, <2>3, <3>3, EventsDiffer DEF Doomed, Overtaken, Abandoned
    <3> QED
      BY <3>1, <3>2, <3>3
  <2>4. EntriesRecorded'
    BY <2>1, <2>2 DEF EntriesRecorded, Entry
  <2> QED
    BY <1>i, <2>1, <2>3, <2>4, DoomedGrows
<1>6. CASE PreCompact \/ Stop \/ StopRaises
  <2>1. /\ UNCHANGED <<agent, nameless, recorded, ledger, damaged>>
        /\ sent' \subseteq sent
        /\ \A e \in sent \ sent' : e \in {PreCompactEvent, StopEvent}
        /\ mishaps' \in {mishaps, mishaps + 1}
    <3>1. CASE Stop
      BY <3>1 DEF Stop, Took, HandleStop, StopState, session, bounds
    <3> QED
      BY <1>6, <3>1 DEF PreCompact, StopRaises, Took, session, bounds, Mishap
  <2>2. Doomed' = Doomed
    BY <2>1, EventsDiffer DEF Doomed, Overtaken, Abandoned
  <2> QED
    BY <1>i, <2>1, <2>2, DoomedGrows DEF EntriesRecorded, Entry
<1>7. ASSUME NEW e \in Event, HandlerRaises(e) PROVE StaleInv'
  <2>1. /\ sent' = sent \ {e} /\ UNCHANGED <<agent, nameless, recorded, ledger, damaged>>
        /\ damaged \/ mishaps' = mishaps + 1
        /\ mishaps' \in {mishaps, mishaps + 1}
    BY <1>7 DEF HandlerRaises, Took, session, Mishap
  <2>2. \E n : Doomed' \subseteq Doomed \cup {n}
    <3>1. CASE \E a \in Agent : e = End(a)
      <4>1. PICK a \in Agent : e = End(a)
        BY <3>1
      <4>2. Overtaken' \subseteq Overtaken /\ Abandoned' \subseteq Abandoned \cup {a}
        BY <2>1, <4>1, EventsDiffer DEF Overtaken, Abandoned
      <4> QED
        BY <2>1, <4>2 DEF Doomed
    <3>2. CASE \A a \in Agent : e # End(a)
      BY <2>1, <3>2 DEF Doomed, Overtaken, Abandoned
    <3> QED
      BY <3>1, <3>2
  <2> QED
    BY <1>i, <2>1, <2>2, DoomedGrows DEF EntriesRecorded, Entry
<1>8. CASE UNCHANGED vars
  <2>1. Doomed' = Doomed
    BY <1>8 DEF vars, session, Doomed, Overtaken, Abandoned
  <2> QED
    BY <1>i, <1>8, <2>1, DoomedGrows DEF EntriesRecorded, Entry, vars, session, bounds
<1> QED
  BY <1>1, <1>2, <1>3, <1>4, <1>5, <1>6, <1>7, <1>8 DEF Next, Handlers

(***************************************************************************)
(* As long as the ledger is readable, no more entries of ended agents are  *)
(* left in it than events went wrong.                                      *)
(***************************************************************************)
THEOREM StaleIsAlwaysExplained == Spec => []StaleIsExplained
<1>1. ASSUME StaleInv PROVE StaleIsExplained
  <2> SUFFICES ASSUME ~damaged PROVE StaleIsExplained
      BY DEF StaleIsExplained
  <2> DEFINE stale == {n \in ledger : \A a \in Agent :
                          n = Entry(a) => agent[a] = "ended" /\ End(a) \notin sent}
  <2>1. stale \subseteq Doomed
    BY <1>1 DEF StaleInv, EntriesRecorded, Inv, Typed, Doomed, Abandoned, Entry
  <2>2. IsFiniteSet(Doomed) /\ Cardinality(Doomed) <= mishaps /\ mishaps \in Nat
    BY <1>1 DEF StaleInv, DoomedCounted
  <2>3. /\ Cardinality(stale) <= Cardinality(Doomed)
        /\ Cardinality(stale) \in Nat /\ Cardinality(Doomed) \in Nat
    BY <2>1, <2>2, FS_Subset, FS_CardinalityType
  <2> QED
    BY <2>2, <2>3 DEF StaleIsExplained
<1> QED
  BY StaleInit, StaleNext, <1>1, PTL DEF Spec

------------------------------------------------------------------------------
(* Turns end.                                                               *)

\* How far a turn is from its end at most: it works, asks to stop, is blocked,
\* works on and sends a forced Stop.  A Stop that fails may send it back.
TurnLeft == (CASE host = "idle" -> 0
               [] host = "stopping" -> IF forced THEN 1 ELSE 3
               [] host = "working" -> IF forced THEN 2 ELSE 4)
            + 3 * (MaxMishaps - mishaps)

\* While a turn is under way, whatever moves it brings it nearer to its end.
TurnGetsOn ==
    [][host # "idle" /\ <<host, forced>>' # <<host, forced>> => TurnLeft' < TurnLeft]_vars

\* A host that stopped has exactly the one Stop it waits for on its way.
StopOnItsWay == host = "stopping" <=> StopEvent \in sent

LEMMA TurnStep ==
    ASSUME TypeInv, StopOnItsWay, [Next]_vars
    PROVE  /\ StopOnItsWay'
           /\ host # "idle" /\ <<host, forced>>' # <<host, forced>> => TurnLeft' < TurnLeft
<1>t. /\ MaxMishaps \in Nat /\ mishaps \in 0 .. MaxMishaps
      /\ host \in {"idle", "working", "stopping"} /\ forced \in BOOLEAN
  BY LedgerAssumption DEF TypeInv, TypeOK
<1>1. CASE HostPrompt
  BY <1>1 DEF HostPrompt, StopOnItsWay
<1>2. CASE HostCompacts \/ FileDamaged
  BY <1>2 DEF HostCompacts, FileDamaged, StopOnItsWay, PreCompactEvent, StopEvent
<1>3. CASE HostStops
  <2>1. /\ host = "working" /\ host' = "stopping" /\ UNCHANGED <<forced, mishaps>>
        /\ StopEvent \in sent'
    BY <1>3 DEF HostStops, bounds
  <2> QED
    BY <1>t, <2>1 DEF StopOnItsWay, TurnLeft
<1>4. ASSUME NEW a \in Agent, \/ AgentBegins(a) \/ AgentEnds(a) \/ SubagentStart(a)
                             \/ SubagentStop(a)
      PROVE  UNCHANGED <<host, forced>> /\ StopOnItsWay'
  BY <1>4, EventsDiffer DEF AgentBegins, AgentEnds, SubagentStart, SubagentStop, Took,
                            StopOnItsWay
<1>5. CASE PreCompact \/ \E e \in Event : HandlerRaises(e)
  BY <1>5 DEF PreCompact, HandlerRaises, Took, StopOnItsWay, PreCompactEvent, StopEvent
<1>6. CASE Stop
  <2>1. host = "stopping" /\ StopEvent \notin sent' /\ UNCHANGED mishaps
    BY <1>6 DEF Stop, Took, StopOnItsWay, bounds
  <2>2. \/ host' = "idle"
        \/ ~forced /\ host' = "working" /\ forced'
    BY <1>6 DEF Stop, HandleStop, Passes, Blocks
  <2> QED
    BY <1>t, <2>1, <2>2 DEF StopOnItsWay, TurnLeft
<1>7. CASE StopRaises
  <2>1. /\ host = "stopping" /\ StopEvent \notin sent' /\ mishaps' = mishaps + 1
        /\ host' = "working" /\ forced'
    BY <1>7 DEF StopRaises, Took, StopOnItsWay, Blocks, Mishap
  <2> QED
    BY <1>t, <2>1 DEF StopOnItsWay, TurnLeft
<1>8. CASE UNCHANGED vars
  BY <1>8 DEF vars, StopOnItsWay
<1> QED
  BY <1>1, <1>2, <1>3, <1>4, <1>5, <1>6, <1>7, <1>8 DEF Next, Handlers

(***************************************************************************)
(* Stop blocks, and no longer than once for itself and once for each       *)
(* mishap, whatever is left in the ledger: a turn has at most four steps   *)
(* and three more for each mishap still to come, each step it takes leaves *)
(* it fewer, and while it waits for a Stop that Stop is on its way.        *)
(***************************************************************************)
THEOREM TurnsEnd ==
    Spec => /\ [](StopOnItsWay /\ TurnLeft \in 0 .. 4 + 3 * MaxMishaps)
            /\ TurnGetsOn
<1>1. Init => StopOnItsWay
  BY DEF Init, StopOnItsWay
<1>2. TypeInv => TurnLeft \in 0 .. 4 + 3 * MaxMishaps
  <2> SUFFICES ASSUME TypeInv PROVE TurnLeft \in 0 .. 4 + 3 * MaxMishaps
      OBVIOUS
  <2>1. /\ MaxMishaps \in Nat /\ mishaps \in 0 .. MaxMishaps
        /\ host \in {"idle", "working", "stopping"}
    BY LedgerAssumption DEF TypeInv, TypeOK
  <2> QED
    BY <2>1 DEF TurnLeft
<1>3. TypeInv /\ StopOnItsWay /\ [Next]_vars
         => /\ StopOnItsWay'
            /\ [host # "idle" /\ <<host, forced>>' # <<host, forced>>
                    => TurnLeft' < TurnLeft]_vars
  BY TurnStep
<1> QED
  BY TypeInit, TypeNext, <1>1, <1>2, <1>3, PTL DEF Spec, TurnGetsOn
==============================================================================
