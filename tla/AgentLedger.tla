---------------------------- MODULE AgentLedger ----------------------------
(***************************************************************************)
(* The ledger of active agents and the Stop hook that consults it.         *)
(*                                                                         *)
(* The host announces agents, compactions and the end of its turn to hook  *)
(* processes of their own.  Hooks run concurrently: an event is "sent" and *)
(* handled later, in any order, or its hook fails.  A handler takes the    *)
(* session lock once, so that handling is one action (module StateStore).  *)
(* A failing hook changes nothing and answers with a block.                *)
(*                                                                         *)
(* What the host does on its own is a mishap, and mishaps are bounded.     *)
(***************************************************************************)
EXTENDS Integers, FiniteSets

CONSTANTS Agent,          \* agent_id values
          Unnamed(_),     \* the generated name of an agent without agent_id
          NoAgent,        \* no agent, and the empty agent_id
          MaxCompactions, \* bound: PreCompact events
          MaxTurn,        \* bound: turns of the host
          MaxMishaps      \* bound: lost, late, failing or nameless events

Name == Agent \cup {Unnamed(a) : a \in Agent}
ASSUME LedgerAssumption ==
    /\ MaxCompactions \in Nat /\ MaxTurn \in Nat /\ MaxMishaps \in Nat
    /\ \A a \in Agent : Unnamed(a) \notin Agent
    /\ NoAgent \notin Name

VARIABLES
    ledger,       \* active_agents
    compactions,  \* compaction_count
    damaged,      \* the state file cannot be read
    agent,        \* what each agent really does
    sent,         \* events on their way to a handler
    nameless,     \* agents announced without an agent_id
    host,         \* the turn of the host
    forced,       \* stop_hook_active of the next Stop
    turns, compacts, mishaps,   \* counters of the bounds
    recorded      \* history: agents whose SubagentStart was recorded

session == <<ledger, compactions, damaged>>
bounds == <<turns, compacts, mishaps>>
vars == <<session, agent, sent, nameless, host, forced, bounds, recorded>>

Start(a) == [kind |-> "SubagentStart", agent |-> a]
End(a) == [kind |-> "SubagentStop", agent |-> a]
PreCompactEvent == [kind |-> "PreCompact", agent |-> NoAgent]
StopEvent == [kind |-> "Stop", agent |-> NoAgent]
Event == {Start(a) : a \in Agent} \cup {End(a) : a \in Agent}
         \cup {PreCompactEvent, StopEvent}

Init == /\ ledger = {} /\ compactions = 0 /\ damaged = FALSE   \* _default_state
        /\ agent = [a \in Agent |-> "none"]
        /\ sent = {} /\ nameless = {}
        /\ host = "idle" /\ forced = FALSE
        /\ turns = 0 /\ compacts = 0 /\ mishaps = 0
        /\ recorded = {}

Mishap == mishaps < MaxMishaps /\ mishaps' = mishaps + 1

------------------------------------------------------------------------------
(* The host.                                                                *)

\* A prompt starts a turn.  It leaves the ledger as it is.
HostPrompt == /\ host = "idle" /\ turns < MaxTurn
              /\ turns' = turns + 1
              /\ host' = "working" /\ forced' = FALSE
              /\ UNCHANGED <<session, agent, sent, nameless, compacts, mishaps, recorded>>

\* An agent begins; an announcement without agent_id is a mishap.
AgentBegins(a) ==
    /\ agent[a] = "none" /\ host # "idle"
    /\ agent' = [agent EXCEPT ![a] = "running"]
    /\ sent' = sent \cup {Start(a)}
    /\ \/ UNCHANGED <<nameless, mishaps>>
       \/ Mishap /\ nameless' = nameless \cup {a}
    /\ UNCHANGED <<session, host, forced, turns, compacts, recorded>>

\* An agent ends.  Its end overtaking its start, and an end that is never
\* announced, are mishaps.
AgentEnds(a) ==
    /\ agent[a] = "running"
    /\ agent' = [agent EXCEPT ![a] = "ended"]
    /\ \/ Start(a) \notin sent /\ sent' = sent \cup {End(a)} /\ UNCHANGED mishaps
       \/ Start(a) \in sent /\ sent' = sent \cup {End(a)} /\ Mishap
       \/ sent' = sent /\ Mishap
    /\ UNCHANGED <<session, nameless, host, forced, turns, compacts, recorded>>

HostCompacts == /\ compacts < MaxCompactions /\ PreCompactEvent \notin sent
                /\ compacts' = compacts + 1
                /\ sent' = sent \cup {PreCompactEvent}
                /\ UNCHANGED <<session, agent, nameless, host, forced, turns, mishaps,
                               recorded>>

HostStops == /\ host = "working"
             /\ host' = "stopping"
             /\ sent' = sent \cup {StopEvent}
             /\ UNCHANGED <<session, agent, nameless, forced, bounds, recorded>>

\* Something outside damages the state file.
FileDamaged == /\ ~damaged /\ Mishap
               /\ damaged' = TRUE
               /\ UNCHANGED <<ledger, compactions, agent, sent, nameless, host, forced,
                              turns, compacts, recorded>>

------------------------------------------------------------------------------
(* The handlers.                                                            *)

Took(e) == e \in sent /\ sent' = sent \ {e}

\* Fault: an announcement without agent_id is recorded under the empty name.
EntryUnnamed(a) == IF a \in nameless THEN NoAgent ELSE a

\* The name of the entry of a in active_agents.
Entry(a) == IF a \in nameless THEN Unnamed(a) ELSE a

\* _handle_subagent_start
SubagentStart(a) == /\ Took(Start(a)) /\ ~damaged
                    /\ ledger' = ledger \cup {Entry(a)}
                    /\ recorded' = recorded \cup {a}
                    /\ UNCHANGED <<compactions, damaged, agent, nameless, host, forced,
                                   bounds>>

\* Fault: the entry is marked, not removed.
PoppedNothing(a) == ledger

\* active_agents without the agent that stopped; an unknown one is no error.
Popped(a) == ledger \ {IF a \in nameless THEN NoAgent ELSE a}

\* _handle_subagent_stop
SubagentStop(a) == /\ Took(End(a)) /\ ~damaged
                   /\ ledger' = Popped(a)
                   /\ UNCHANGED <<compactions, damaged, agent, nameless, host, forced,
                                  bounds, recorded>>

\* _handle_precompact
PreCompact == /\ Took(PreCompactEvent) /\ ~damaged
              /\ compactions' = compactions + 1
              /\ UNCHANGED <<ledger, damaged, agent, nameless, host, forced, bounds,
                             recorded>>

\* _stop_state: the file of a session without active agents is removed, unless it
\* holds a git transaction to be resumed.
StopState == /\ ~damaged
             /\ compactions' \in IF ledger = {} THEN {0, compactions} ELSE {compactions}
             /\ UNCHANGED <<ledger, damaged>>

\* The host goes idle, or on working until it sends its forced Stop.
Passes == host' = "idle" /\ forced' = FALSE
Blocks == host' = "working" /\ forced' = TRUE

\* Fault: stop_hook_active is not looked at.
HandleStopEvery == IF damaged THEN Blocks /\ UNCHANGED session
                   ELSE StopState /\ (IF ledger = {} THEN Passes ELSE Blocks)

\* Fault: a Stop that cannot read the state answers nothing.
HandleStopOpen == IF damaged \/ forced THEN Passes /\ UNCHANGED session
                  ELSE StopState /\ (IF ledger = {} THEN Passes ELSE Blocks)

\* _handle_stop: a forced Stop returns before it looks at the session.
HandleStop == IF forced THEN Passes /\ UNCHANGED session
              ELSE IF damaged THEN Blocks /\ UNCHANGED session
              ELSE StopState /\ (IF ledger = {} THEN Passes ELSE Blocks)

\* The Stop event is dispatched.
Stop == /\ Took(StopEvent)
        /\ HandleStop
        /\ UNCHANGED <<agent, nameless, bounds, recorded>>

\* _internal_error_response: a damaged state file or a missing session_id.  A
\* block keeps the host from stopping; the other events are over.
HandlerRaises(e) ==
    /\ Took(e) /\ e # StopEvent
    /\ IF damaged THEN UNCHANGED mishaps ELSE Mishap
    /\ UNCHANGED <<session, agent, nameless, host, forced, turns, compacts, recorded>>

\* A Stop whose input cannot be parsed, or whose lock wait fails, blocks.
StopRaises == /\ Took(StopEvent) /\ Mishap
              /\ Blocks
              /\ UNCHANGED <<session, agent, nameless, turns, compacts, recorded>>

Handlers == \/ \E a \in Agent : SubagentStart(a) \/ SubagentStop(a)
            \/ PreCompact \/ Stop \/ StopRaises
            \/ \E e \in Event : HandlerRaises(e)

Next == \/ HostPrompt \/ HostCompacts \/ HostStops \/ FileDamaged
        \/ \E a \in Agent : AgentBegins(a) \/ AgentEnds(a)
        \/ Handlers

\* A hook that was started ends, at the latest by the timeout of hooks.json, and
\* a turn the host began comes to its end.
Fairness == /\ \A a \in Agent : /\ WF_vars(SubagentStart(a) \/ HandlerRaises(Start(a)))
                                /\ WF_vars(SubagentStop(a) \/ HandlerRaises(End(a)))
            /\ WF_vars(Stop \/ StopRaises)
            /\ WF_vars(HostStops)

Spec == Init /\ [][Next]_vars /\ Fairness

------------------------------------------------------------------------------
(* Properties.                                                              *)

\* Every variable has its type.
TypeOK ==
    /\ ledger \subseteq Name /\ compactions \in 0 .. MaxCompactions /\ damaged \in BOOLEAN
    /\ agent \in [Agent -> {"none", "running", "ended"}]
    /\ sent \subseteq Event /\ nameless \subseteq Agent
    /\ host \in {"idle", "working", "stopping"} /\ forced \in BOOLEAN
    /\ turns \in 0 .. MaxTurn /\ compacts \in 0 .. MaxCompactions
    /\ mishaps \in 0 .. MaxMishaps
    /\ recorded \subseteq Agent

\* An agent that runs and was recorded stays in the ledger until its own end is
\* handled, over turns, the ends of other agents, and every Stop that removes the
\* state file (_handle_subagent_stop, _stop_state).
LedgerCoversRunning ==
    \A a \in recorded : agent[a] = "running" => Entry(a) \in ledger

\* A Stop that is not forced lets the turn end only when it could read the ledger
\* and no recorded agent runs; an error blocks (_handle_stop, main,
\* _internal_error_response; README.md, line 200).
QuietStopIsClean ==
    [][host = "stopping" /\ host' = "idle" /\ ~forced
       => ~damaged /\ \A a \in recorded : agent[a] # "running"]_vars

\* What is left in the ledger of agents that ended: entries without a name, ends
\* that were lost, failed or overtook their start.  Each costs a mishap, so the
\* ledger outlives its agents only as often as events go wrong, while it is readable
\* (_handle_subagent_start, _handle_subagent_stop).
StaleIsExplained ==
    damaged \/ Cardinality({n \in ledger : \A a \in Agent :
        n = Entry(a) => agent[a] = "ended" /\ End(a) \notin sent}) <= mishaps

\* Without a mishap the ledger is empty some time after the last agent ended
\* (_handle_subagent_start, _handle_subagent_stop).
LedgerDrains == (\A a \in Agent : agent[a] # "running") /\ mishaps = 0
                ~> ledger = {} \/ mishaps > 0 \/ (\E a \in Agent : agent[a] = "running")

\* A turn that asks to stop ends, whatever is left in the ledger and even when the
\* state file is damaged for good: a Stop blocks, the forced one after it passes
\* (_handle_stop; a broken input is a mishap and blocks again).
TurnEnds == host = "stopping" ~> host = "idle"
==============================================================================
