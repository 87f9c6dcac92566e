--------------------------- MODULE ToolGateProofs ---------------------------
(***************************************************************************)
(* Proofs about the gate on tool calls, for any number of tool uses,       *)
(* calls, checkouts, prompts and gate hooks.                               *)
(***************************************************************************)
EXTENDS ToolGate, TLAPS

USE GateAssumption

------------------------------------------------------------------------------
(* Types.  A hook on its way and a tool with a call know their turn and     *)
(* call; only clones are reserved.                                          *)

HooksKnow == \A u \in ToolUse :
    /\ hook[u].pc # "idle" => hook[u].turn \in Turn /\ hook[u].call \in Call
    /\ hook[u].pc = "reserve" => IsClone(hook[u].call)

ToolsKnow == \A u \in ToolUse :
    tool[u].at # "none" => tool[u].turn \in Turn /\ tool[u].call \in Call

ClonesKnow == \A u \in ToolUse : clones[u] # NoClone => IsClone(clones[u].call)

Typed == TypeOK /\ HooksKnow /\ ToolsKnow /\ ClonesKnow

LEMMA TurnTyped == /\ Turn \subseteq Nat /\ NoTurn \notin Turn
                   /\ \A n \in Turn \cup {NoTurn} : n < MaxTurn => n + 1 \in Turn
BY DEF Turn, NoTurn

LEMMA HashesTyped ==
    ASSUME Typed, NEW approved \in SUBSET Call
    PROVE  HashesFor(approved) \subseteq Hash
<1>1. ASSUME NEW c \in approved
      PROVE  Danger[c] \subseteq Code /\ DigestOf[c] \in Digest /\ Downloaded \in Code
  OBVIOUS
<1> QED
  BY <1>1 DEF HashesFor, Hash

LEMMA IdleTyped == /\ IdleHook \in Hook /\ IdleTool \in Tool
                   /\ NoClones \in [ToolUse -> CloneRecord \cup {NoClone}]
BY DEF IdleHook, Hook, IdleTool, Tool, NoClones, GateSteps

LEMMA CodesTyped ==
    ASSUME NEW h \in Hook, h.call \in Call
    PROVE  CodesOf(h) \subseteq Code
BY DEF CodesOf, Hook

LEMMA ReservedTyped ==
    ASSUME Typed PROVE Reserved(clones) \subseteq Checkout
<1>1. ASSUME NEW u \in ToolUse, clones[u] # NoClone
      PROVE  CloneTo[clones[u].call] \in Checkout
  BY <1>1 DEF Typed, TypeOK, ClonesKnow, IsClone, CloneRecord
<1> QED
  BY <1>1 DEF Reserved

LEMMA TypedInit == Init => Typed
<1> SUFFICES ASSUME Init PROVE Typed
    OBVIOUS
<1>1. hook \in [ToolUse -> Hook] /\ tool \in [ToolUse -> Tool]
  BY IdleTyped DEF Init
<1>2. /\ clones \in [ToolUse -> CloneRecord \cup {NoClone}] /\ ClonesKnow
  BY IdleTyped DEF Init, DefaultState, NoClones, ClonesKnow
<1>3. HooksKnow /\ ToolsKnow
  BY DEF Init, HooksKnow, ToolsKnow, IdleHook, IdleTool
<1>4. /\ turn \in Turn \cup {NoTurn} /\ hostTurn \in Turn \cup {NoTurn}
      /\ sensitive \in BOOLEAN
      /\ disclosure \in Disclosure \cup {NoDisclosure}
      /\ pending \in [ToolUse -> Permission \cup {NoPermission}]
  BY DEF Init, DefaultState
<1>6. hooks \in 0 .. MaxHooks
  BY DEF Init
<1>5. /\ hashes \subseteq Hash /\ roots \subseteq Checkout /\ disk \subseteq Checkout
      /\ granted \in [Turn -> SUBSET Hash] /\ lent \in [Turn -> SUBSET Outbound]
      /\ cleared \subseteq Cleared /\ settled \subseteq Checkout
      /\ disclosed \subseteq [tool : ToolUse, turn : Turn, call : Call]
      /\ forgotten \subseteq Checkout
  BY DEF Init, DefaultState
<1> QED
  BY <1>1, <1>2, <1>3, <1>4, <1>5, <1>6 DEF Typed, TypeOK

\* A hook may take any of these steps.
LEMMA HookMoves ==
    ASSUME Typed, NEW u \in ToolUse, NEW new \in Hook, hook' = [hook EXCEPT ![u] = new],
           new.pc # "idle" => new.turn \in Turn /\ new.call \in Call,
           new.pc = "reserve" => IsClone(new.call)
    PROVE  hook' \in [ToolUse -> Hook] /\ HooksKnow'
BY DEF Typed, TypeOK, HooksKnow, IsClone

LEMMA DenyTyped ==
    ASSUME Typed, NEW u \in ToolUse, Deny(u)
    PROVE  /\ hook' \in [ToolUse -> Hook] /\ HooksKnow'
           /\ tool' \in [ToolUse -> Tool] /\ ToolsKnow'
<1>1. hook' \in [ToolUse -> Hook] /\ HooksKnow'
  BY HookMoves, IdleTyped DEF Deny, IdleHook
<1>2. tool' \in [ToolUse -> Tool] /\ ToolsKnow'
  BY IdleTyped DEF Deny, Typed, TypeOK, ToolsKnow, IdleTool
<1> QED
  BY <1>1, <1>2

LEMMA GotoTyped ==
    ASSUME Typed, NEW u \in ToolUse, NEW step \in GateSteps \ {"reserve"},
           hook[u].pc # "idle", Goto(u, step)
    PROVE  hook' \in [ToolUse -> Hook] /\ HooksKnow'
<1> DEFINE new == [hook[u] EXCEPT !.pc = step]
<1>h. hook[u] \in Hook
  BY DEF Typed, TypeOK
<1>1. new \in Hook /\ new.turn = hook[u].turn /\ new.call = hook[u].call /\ new.pc = step
  BY <1>h DEF Hook
<1>2. hook' = [hook EXCEPT ![u] = new]
  BY DEF Goto
<1>3. hook[u].turn \in Turn /\ hook[u].call \in Call
  BY DEF Typed, HooksKnow
<1> HIDE DEF new
<1> QED
  BY <1>1, <1>2, <1>3, HookMoves

LEMMA DiscloseTyped ==
    ASSUME Typed, NEW u \in ToolUse, hook[u].pc # "idle", Disclose(u)
    PROVE  /\ hook' \in [ToolUse -> Hook] /\ HooksKnow'
           /\ tool' \in [ToolUse -> Tool] /\ ToolsKnow'
<1>1. CASE Goto(u, "reply") /\ UNCHANGED tool
  BY <1>1, GotoTyped DEF Typed, TypeOK, ToolsKnow, GateSteps
<1>2. CASE Deny(u)
  BY <1>2, DenyTyped
<1>3. CASE /\ hook' = [hook EXCEPT ![u].pc = "consume", ![u].seen = disclosure]
           /\ UNCHANGED tool
  <2> DEFINE new == [hook[u] EXCEPT !.pc = "consume", !.seen = disclosure]
  <2>1. /\ new \in Hook /\ new.turn = hook[u].turn /\ new.call = hook[u].call
        /\ new.pc = "consume"
    <3>1. hook[u] \in Hook /\ disclosure \in Disclosure \cup {NoDisclosure}
      BY DEF Typed, TypeOK
    <3> QED
      BY <3>1 DEF Hook, GateSteps
  <2>2. hook' = [hook EXCEPT ![u] = new]
    BY <1>3
  <2>3. hook[u].turn \in Turn /\ hook[u].call \in Call
    BY DEF Typed, HooksKnow
  <2> HIDE DEF new
  <2> QED
    BY <1>3, <2>1, <2>2, <2>3, HookMoves DEF Typed, TypeOK, ToolsKnow
<1> QED
  BY <1>1, <1>2, <1>3 DEF Disclose

LEMMA TypedNext == Typed /\ [Next]_vars => Typed'
<1> SUFFICES ASSUME Typed, [Next]_vars PROVE Typed'
    OBVIOUS
<1>1. ASSUME NEW p \in Named, Prompt(p.approves, p.lends) PROVE Typed'
  <2>1. p.approves \in SUBSET Call /\ p.lends \in SUBSET Outbound
    OBVIOUS
  <2>2. hostTurn + 1 \in Turn /\ HashesFor(p.approves) \subseteq Hash
    BY <1>1, <2>1, TurnTyped, HashesTyped DEF Prompt, Typed, TypeOK
  <2>3. disclosure' \in Disclosure \cup {NoDisclosure} /\ sensitive' \in BOOLEAN
    BY <1>1, <2>1, <2>2 DEF Prompt, Disclosure, Typed, TypeOK
  <2> QED
    BY <1>1, <2>1, <2>2, <2>3
    DEF Prompt, KeptRoots, Typed, TypeOK, HooksKnow, ToolsKnow, ClonesKnow
<1>2. CASE PromptBlocked
  BY <1>2, TurnTyped
  DEF PromptBlocked, session, history, Typed, TypeOK, HooksKnow, ToolsKnow, ClonesKnow
<1>3. CASE Stop
  <2>1. Reserved(clones) \subseteq Checkout
    BY ReservedTyped
  <2> QED
    BY <1>3, <2>1, IdleTyped
    DEF Stop, world, Typed, TypeOK, HooksKnow, ToolsKnow, ClonesKnow, NoClones
<1>4. ASSUME NEW u \in ToolUse, NEW event \in {"pre", "permission"}, NEW c \in Call,
             GateBegin(u, event, c)
      PROVE  Typed'
  <2> DEFINE new == [IdleHook EXCEPT !.pc = "classify", !.event = event, !.call = c,
                                     !.turn = hostTurn, !.roots = roots,
                                     !.clones = clones, !.settled = settled]
  <2>1. hostTurn \in Turn /\ hooks' \in 0 .. MaxHooks
    BY <1>4 DEF GateBegin, Typed, TypeOK
  <2>2. new \in Hook /\ new.pc = "classify" /\ new.turn = hostTurn /\ new.call = c
    BY <2>1 DEF Typed, TypeOK, IdleHook, Hook, GateSteps
  <2>3. hook' = [hook EXCEPT ![u] = new]
    BY <1>4 DEF GateBegin
  <2>4. hook' \in [ToolUse -> Hook] /\ HooksKnow'
    <3> HIDE DEF new
    <3> QED
      BY <2>1, <2>2, <2>3, HookMoves
  <2> QED
    BY <1>4, <2>1, <2>4
    DEF GateBegin, session, world, history, Typed, TypeOK, ToolsKnow, ClonesKnow
<1>5. ASSUME NEW u \in ToolUse, Classify(u) PROVE Typed'
  <2>1. /\ hook' \in [ToolUse -> Hook] /\ HooksKnow'
        /\ tool' \in [ToolUse -> Tool] /\ ToolsKnow'
    <3>1. CASE Deny(u)
      BY <3>1, DenyTyped
    <3>2. CASE /\ hook' = [hook EXCEPT
                     ![u].pc = IF IsClone(hook[u].call) THEN "reserve" ELSE "authorize",
                     ![u].codes = CodesOf(hook[u])]
               /\ UNCHANGED tool
      <4> DEFINE new == [hook[u] EXCEPT
                     !.pc = IF IsClone(hook[u].call) THEN "reserve" ELSE "authorize",
                     !.codes = CodesOf(hook[u])]
      <4>1. hook[u] \in Hook /\ hook[u].turn \in Turn /\ hook[u].call \in Call
        BY <1>5 DEF Classify, Typed, TypeOK, HooksKnow
      <4>2. CodesOf(hook[u]) \subseteq Code
        BY <4>1, CodesTyped
      <4>3. /\ new \in Hook /\ new.turn = hook[u].turn /\ new.call = hook[u].call
            /\ new.pc = IF IsClone(hook[u].call) THEN "reserve" ELSE "authorize"
        BY <4>1, <4>2 DEF Hook, GateSteps
      <4>4. hook' = [hook EXCEPT ![u] = new]
        BY <3>2
      <4> HIDE DEF new
      <4> QED
        BY <3>2, <4>1, <4>3, <4>4, HookMoves DEF Typed, TypeOK, ToolsKnow
    <3> QED
      BY <1>5, <3>1, <3>2 DEF Classify
  <2> QED
    BY <1>5, <2>1 DEF Classify, session, history, Typed, TypeOK, ClonesKnow
<1>6. ASSUME NEW u \in ToolUse, ReserveClone(u) PROVE Typed'
  <2> DEFINE mine == [turn |-> hook[u].turn, call |-> hook[u].call]
  <2>1. /\ hook[u].pc = "reserve" /\ mine \in CloneRecord /\ IsClone(hook[u].call)
        /\ mine.call = hook[u].call
    BY <1>6 DEF ReserveClone, Typed, HooksKnow, CloneRecord
  <2>2. \/ Goto(u, "authorize") /\ UNCHANGED tool
        \/ Deny(u)
    BY <1>6 DEF ReserveClone
  <2>3. \/ UNCHANGED clones
        \/ clones' = [clones EXCEPT ![u] = mine]
    BY <1>6 DEF ReserveClone
  <2>4. /\ hook' \in [ToolUse -> Hook] /\ HooksKnow'
        /\ tool' \in [ToolUse -> Tool] /\ ToolsKnow'
    BY <2>1, <2>2, DenyTyped, GotoTyped DEF GateSteps, Typed, TypeOK, ToolsKnow
  <2>5. clones' \in [ToolUse -> CloneRecord \cup {NoClone}] /\ ClonesKnow'
    BY <2>1, <2>3 DEF Typed, TypeOK, ClonesKnow, IsClone
  <2> QED
    BY <1>6, <2>4, <2>5 DEF ReserveClone, history, Typed, TypeOK
<1>7. ASSUME NEW u \in ToolUse, AuthorizePermission(u) PROVE Typed'
  <2>1. /\ hook' \in [ToolUse -> Hook] /\ HooksKnow'
        /\ tool' \in [ToolUse -> Tool] /\ ToolsKnow'
    BY <1>7, DenyTyped, DiscloseTyped DEF AuthorizePermission
  <2>2. pending' \in [ToolUse -> Permission \cup {NoPermission}]
    BY <1>7 DEF AuthorizePermission, Typed, TypeOK
  <2> QED
    BY <1>7, <2>1, <2>2 DEF AuthorizePermission, history, Typed, TypeOK, ClonesKnow
<1>8. ASSUME NEW u \in ToolUse, AuthorizeTool(u) PROVE Typed'
  <2>1. /\ hook' \in [ToolUse -> Hook] /\ HooksKnow'
        /\ tool' \in [ToolUse -> Tool] /\ ToolsKnow'
    BY <1>8, DenyTyped, DiscloseTyped DEF AuthorizeTool
  <2>2. [turn |-> hook[u].turn, call |-> hook[u].call, codes |-> hook[u].codes]
           \in Permission
    BY <1>8 DEF AuthorizeTool, Typed, TypeOK, HooksKnow, Hook, Permission
  <2>3. /\ pending' \in [ToolUse -> Permission \cup {NoPermission}]
        /\ hashes' \subseteq Hash
    BY <1>8, <2>2 DEF AuthorizeTool, Remaining, Typed, TypeOK
  <2> QED
    BY <1>8, <2>1, <2>3 DEF AuthorizeTool, history, Typed, TypeOK, ClonesKnow
<1>9. ASSUME NEW u \in ToolUse, ConsumeDisclosure(u) PROVE Typed'
  <2>1. hook' \in [ToolUse -> Hook] /\ HooksKnow'
    BY <1>9, GotoTyped DEF ConsumeDisclosure, GateSteps
  <2>2. /\ disclosure' \in Disclosure \cup {NoDisclosure}
        /\ disclosed' \subseteq [tool : ToolUse, turn : Turn, call : Call]
    BY <1>9 DEF ConsumeDisclosure, Typed, TypeOK, HooksKnow
  <2> QED
    BY <1>9, <2>1, <2>2 DEF ConsumeDisclosure, world, Typed, TypeOK, ToolsKnow, ClonesKnow
<1>10. ASSUME NEW u \in ToolUse, Reply(u) PROVE Typed'
  <2>1. hook' \in [ToolUse -> Hook] /\ HooksKnow'
    BY <1>10, IdleTyped, HookMoves DEF Reply, IdleHook
  <2>2. hook[u] \in Hook /\ hook[u].turn \in Turn /\ hook[u].call \in Call
    BY <1>10 DEF Reply, Typed, TypeOK, HooksKnow
  <2>3. tool' \in [ToolUse -> Tool] /\ ToolsKnow'
    BY <1>10, <2>2 DEF Reply, Typed, TypeOK, ToolsKnow, Tool
  <2>4. cleared' \subseteq Cleared
    BY <1>10, <2>2 DEF Reply, Typed, TypeOK, Cleared, Hook
  <2> QED
    BY <1>10, <2>1, <2>3, <2>4 DEF Reply, session, Typed, TypeOK, ClonesKnow
<1>11. ASSUME NEW u \in ToolUse, HookFails(u) PROVE Typed'
  BY <1>11, DenyTyped DEF HookFails, session, history, Typed, TypeOK, ClonesKnow
<1>12. ASSUME NEW u \in ToolUse, HostStarts(u) PROVE Typed'
  <2>1. tool' \in [ToolUse -> Tool] /\ ToolsKnow'
    BY <1>12 DEF HostStarts, Typed, TypeOK, ToolsKnow, Tool
  <2> QED
    BY <1>12, <2>1
    DEF HostStarts, session, history, Typed, TypeOK, HooksKnow, ClonesKnow
<1>13. ASSUME NEW u \in ToolUse, CloneAppears(u) PROVE Typed'
  <2>1. disk' \subseteq Checkout
    BY <1>13 DEF CloneAppears, Typed, TypeOK, ToolsKnow, IsClone
  <2> QED
    BY <1>13, <2>1
    DEF CloneAppears, session, history, Typed, TypeOK, HooksKnow, ToolsKnow, ClonesKnow
<1>14. ASSUME NEW u \in ToolUse, PostTool(u) PROVE Typed'
  <2>1. tool[u].call \in Call /\ tool[u].turn \in Turn
    BY <1>14 DEF PostTool, Typed, ToolsKnow
  <2>2. tool' \in [ToolUse -> Tool] /\ ToolsKnow'
    BY <1>14 DEF PostTool, Typed, TypeOK, ToolsKnow, Tool
  <2>3. /\ pending' \in [ToolUse -> Permission \cup {NoPermission}]
        /\ clones' \in [ToolUse -> CloneRecord \cup {NoClone}] /\ ClonesKnow'
    BY <1>14 DEF PostTool, Typed, TypeOK, ClonesKnow, IsClone
  <2>4. /\ roots' \subseteq Checkout /\ settled' \subseteq Checkout
    BY <1>14 DEF PostTool, ClonePosted, Typed, TypeOK
  <2>5. clones[u] = [turn |-> tool[u].turn, call |-> tool[u].call]
           => CloneTo[tool[u].call] \in Checkout
    BY <2>1 DEF Typed, TypeOK, ClonesKnow, CloneRecord, IsClone
  <2>6. forgotten' \subseteq Checkout
    BY <1>14, <2>5 DEF PostTool, Typed, TypeOK
  <2> QED
    BY <1>14, <2>2, <2>3, <2>4, <2>6 DEF PostTool, Typed, TypeOK, HooksKnow
<1>15. CASE UNCHANGED vars
  BY <1>15
  DEF vars, session, world, history, Typed, TypeOK, HooksKnow, ToolsKnow, ClonesKnow
<1> QED
  BY <1>1, <1>2, <1>3, <1>4, <1>5, <1>6, <1>7, <1>8, <1>9, <1>10, <1>11, <1>12, <1>13,
     <1>14, <1>15 DEF Next, GateStep

(***************************************************************************)
(* Every variable of the gate has its type.                                *)
(***************************************************************************)
THEOREM TypeCorrect == Spec => []TypeOK
<1>1. Typed => TypeOK
  BY DEF Typed
<1> QED
  BY TypedInit, TypedNext, <1>1, PTL DEF Spec

------------------------------------------------------------------------------
(* Exact approvals.  A use is a call with codes that the gate has let        *)
(* through, or is about to.                                                  *)

Uses == cleared \cup Held

HashOf(a) == a.codes \X {DigestOf[a.call]}

\* A use rests on what the prompt of its turn granted, and the hashes at hand
\* are of the current turn.  No turn to come has granted anything.
Approval ==
    /\ turn <= hostTurn
    /\ \A n \in Turn : n > hostTurn => granted[n] = {}
    /\ hashes # {} => turn \in Turn /\ hashes \subseteq granted[turn]
    /\ \A a \in Uses : a \in Cleared /\ a.codes # {} /\ HashOf(a) \subseteq granted[a.turn]

SameApproval(a, b) == a.turn = b.turn /\ DigestOf[a.call] = DigestOf[b.call]
                      /\ a.codes \cap b.codes # {}

\* A hash is at hand or in use, and in use by one tool use with one call.
Exclusive ==
    /\ \A a \in Uses : a.turn = turn => HashOf(a) \cap hashes = {}
    /\ \A a, b \in Uses : SameApproval(a, b) => a.tool = b.tool /\ a.call = b.call

\* What is held after a step, from its two sources.
LEMMA HeldWithin ==
    ASSUME NEW X,
           \A u \in ToolUse : pending'[u] # NoPermission => AsUse(u, pending'[u]) \in X,
           \A u \in ToolUse : Authorized(hook'[u]) => AsUse(u, hook'[u]) \in X
    PROVE  Held' \subseteq X
BY DEF Held

LEMMA HeldHas ==
    /\ \A u \in ToolUse : pending[u] # NoPermission => AsUse(u, pending[u]) \in Held
    /\ \A u \in ToolUse : Authorized(hook[u]) => AsUse(u, hook[u]) \in Held
BY DEF Held

LEMMA PendingHeldThen ==
    ASSUME NEW u \in ToolUse, pending'[u] # NoPermission
    PROVE  AsUse(u, pending'[u]) \in Held'
BY DEF Held

\* A call that matches its pending record is that record's use.
LEMMA PendingUsed ==
    ASSUME Typed, NEW u \in ToolUse, hook[u].pc # "idle", PendingMatches(u)
    PROVE  AsUse(u, hook[u]) \in Held
<1>1. pending[u] = [turn |-> hook[u].turn, call |-> hook[u].call, codes |-> hook[u].codes]
  BY DEF PendingMatches
<1>2. hook[u].turn \in Turn /\ hook[u].call \in Call /\ hook[u].codes \subseteq Code
  BY DEF Typed, TypeOK, HooksKnow, Hook
<1>3. pending[u] \in Permission
  BY <1>1, <1>2 DEF Permission
<1>4. AsUse(u, pending[u]) \in Held
  BY <1>3, HeldHas
<1>5. AsUse(u, pending[u]) = AsUse(u, hook[u])
  BY <1>1 DEF AsUse
<1> QED
  BY <1>4, <1>5

\* What Disclose makes of the hook.
LEMMA DiscloseKeeps ==
    ASSUME Typed, NEW u \in ToolUse, Disclose(u) \/ Deny(u), NEW v \in ToolUse,
           Authorized(hook'[v])
    PROVE  IF v = u THEN AsUse(v, hook'[v]) = AsUse(v, hook[v]) /\ hook[u].codes # {}
           ELSE hook'[v] = hook[v]
<1>1. hook \in [ToolUse -> Hook]
  BY DEF Typed, TypeOK
<1>2. CASE Deny(u)
  BY <1>1, <1>2 DEF Deny, Authorized, IdleHook
<1>3. CASE Goto(u, "reply")
  BY <1>1, <1>3 DEF Goto, Authorized, AsUse, Hook
<1>4. CASE hook' = [hook EXCEPT ![u].pc = "consume", ![u].seen = disclosure]
  BY <1>1, <1>4 DEF Authorized, AsUse, Hook
<1> QED
  BY <1>2, <1>3, <1>4 DEF Disclose

\* Each step of the gate is one of the promise: prompts grant or pass, the authorization
\* takes, the answer lets through, Stop forgets, and all others at most lose.
LEMMA PromiseStep ==
    ASSUME Typed, [Next]_vars
    PROVE  [Promise!Next]_(Promise!vars)
<1>t. /\ hook \in [ToolUse -> Hook] /\ pending \in [ToolUse -> Permission \cup {NoPermission}]
      /\ hostTurn \in Nat
  BY TurnTyped DEF Typed, TypeOK, NoTurn
<1>1. ASSUME NEW p \in Named, Prompt(p.approves, p.lends) PROVE Promise!Grant
  <2>1. hostTurn + 1 \in Turn
    BY <1>1, TurnTyped DEF Prompt, Typed, TypeOK
  <2>2. Held' \subseteq Held
    BY <1>1, HeldHas, HeldWithin DEF Prompt
  <2>3. hashes' \subseteq Code \X Digest
    BY <1>1, HashesTyped DEF Prompt, Hash
  <2> QED
    BY <1>1, <2>1, <2>2, <2>3 DEF Prompt, Promise!Grant, Promise!Loses
<1>2. ASSUME PromptBlocked PROVE Promise!Pass
  <2>1. Held' = Held
    BY <1>2 DEF PromptBlocked, session, Held
  <2>2. hostTurn + 1 \in Turn
    BY <1>2, TurnTyped DEF PromptBlocked, Typed, TypeOK
  <2> QED
    BY <1>2, <2>1, <2>2 DEF PromptBlocked, session, history, Promise!Pass
<1>3. ASSUME Stop PROVE Promise!Forget
  <2>1. Held' \subseteq Held
    BY <1>3, HeldHas, HeldWithin DEF Stop, world
  <2> QED
    BY <1>3, <2>1 DEF Stop, world, Promise!Forget, Promise!Loses
<1>4. ASSUME NEW u \in ToolUse,
             \/ \E event \in {"pre", "permission"}, c \in Call : GateBegin(u, event, c)
             \/ Classify(u) \/ ReserveClone(u) \/ HookFails(u)
      PROVE  Promise!Lapse
  <2>1. UNCHANGED <<cleared, pending, granted, hostTurn, turn, hashes>>
    BY <1>4 DEF GateBegin, Classify, ReserveClone, HookFails, session, world, history
  <2>2. ASSUME NEW v \in ToolUse, Authorized(hook'[v]) PROVE hook'[v] = hook[v]
    <3>1. CASE \E event \in {"pre", "permission"}, c \in Call : GateBegin(u, event, c)
      BY <1>t, <2>2, <3>1 DEF GateBegin, Authorized, IdleHook
    <3>2. CASE Deny(u)
      BY <1>t, <2>2, <3>2 DEF Deny, Authorized, IdleHook
    <3>3. CASE Classify(u) /\ ~Deny(u)
      <4>1. hook' = [hook EXCEPT
                 ![u].pc = IF IsClone(hook[u].call) THEN "reserve" ELSE "authorize",
                 ![u].codes = CodesOf(hook[u])]
        BY <3>3 DEF Classify
      <4>2. v # u
        BY <1>t, <2>2, <4>1 DEF Authorized, Hook
      <4> QED
        BY <1>t, <4>1, <4>2
    <3>4. CASE Goto(u, "authorize")
      BY <1>t, <2>2, <3>4 DEF Goto, Authorized, Hook
    <3> QED
      BY <1>4, <3>1, <3>2, <3>3, <3>4 DEF ReserveClone, HookFails
  <2>3. Held' \subseteq Held
    BY <2>1, <2>2, HeldHas, HeldWithin
  <2> QED
    BY <2>1, <2>3 DEF Promise!Lapse, Promise!Loses
<1>5. ASSUME NEW u \in ToolUse,
             HostStarts(u) \/ CloneAppears(u) \/ PostTool(u)
      PROVE  Promise!Lapse
  <2>1. UNCHANGED <<cleared, hook, granted, hostTurn, turn, hashes>>
    BY <1>5 DEF HostStarts, CloneAppears, PostTool, session, history
  <2>2. ASSUME NEW v \in ToolUse, pending'[v] # NoPermission PROVE pending'[v] = pending[v]
    BY <1>t, <1>5, <2>2 DEF HostStarts, CloneAppears, PostTool, session
  <2>3. Held' \subseteq Held
    BY <2>1, <2>2, HeldHas, HeldWithin
  <2> QED
    BY <2>1, <2>3 DEF Promise!Lapse, Promise!Loses
<1>6. ASSUME NEW u \in ToolUse, AuthorizePermission(u) PROVE Promise!Lapse
  <2>1. /\ UNCHANGED <<cleared, granted, hostTurn, turn, hashes>>
        /\ Disclose(u) \/ Deny(u)
    BY <1>6 DEF AuthorizePermission, history
  <2>2. ASSUME NEW v \in ToolUse, pending'[v] # NoPermission PROVE pending'[v] = pending[v]
    BY <1>t, <1>6, <2>2 DEF AuthorizePermission
  <2>3. ASSUME NEW v \in ToolUse, Authorized(hook'[v]) PROVE AsUse(v, hook'[v]) \in Held
    <3>1. CASE v # u
      BY <2>1, <2>3, <3>1, DiscloseKeeps, HeldHas
    <3>2. CASE v = u
      <4>1. AsUse(u, hook'[u]) = AsUse(u, hook[u]) /\ hook[u].codes # {}
        BY <2>1, <2>3, <3>2, DiscloseKeeps
      <4>2. ~Deny(u)
        BY <1>t, <2>3, <3>2 DEF Deny, Authorized, IdleHook
      <4>3. PendingMatches(u)
        BY <1>6, <4>1, <4>2 DEF AuthorizePermission
      <4> QED
        BY <1>6, <3>2, <4>1, <4>3, PendingUsed DEF AuthorizePermission
    <3> QED
      BY <3>1, <3>2
  <2>4. Held' \subseteq Held
    BY <2>1, <2>2, <2>3, HeldHas, HeldWithin
  <2> QED
    BY <2>1, <2>4 DEF Promise!Lapse, Promise!Loses
<1>7. ASSUME NEW u \in ToolUse, AuthorizeTool(u) PROVE Promise!Lapse \/ \E x \in Cleared : Promise!Take(x)
  <2> DEFINE x == AsUse(u, hook[u])
  <2>1. /\ UNCHANGED <<cleared, granted, hostTurn, turn>>
        /\ Disclose(u) \/ Deny(u)
    BY <1>7 DEF AuthorizeTool, history
  <2>2. ASSUME NEW v \in ToolUse, v # u
        PROVE  /\ pending'[v] = pending[v]
               /\ Authorized(hook'[v]) => hook'[v] = hook[v]
    BY <1>t, <1>7, <2>1, <2>2, DiscloseKeeps DEF AuthorizeTool
  <2>3. CASE ~PendingMatches(u) /\ hook[u].codes # {} /\ Exact(u)
    <3>1. /\ hashes' = Remaining(u)
          /\ pending' = [pending EXCEPT ![u] = [turn |-> hook[u].turn,
                            call |-> hook[u].call, codes |-> hook[u].codes]]
      BY <1>7, <2>3 DEF AuthorizeTool
    <3>2. /\ x \in Cleared /\ x.turn = turn /\ x.codes # {}
          /\ HashOf(x) \subseteq hashes /\ hashes' = hashes \ HashOf(x)
      BY <1>t, <1>7, <2>3, <3>1
      DEF AuthorizeTool, AsUse, Cleared, Exact, Remaining, HashOf, Hook, Typed, HooksKnow
    <3>3. AsUse(u, pending'[u]) = x
      BY <1>t, <3>1 DEF AsUse
    <3>4. Authorized(hook'[u]) => AsUse(u, hook'[u]) = x
      BY <2>1, DiscloseKeeps
    <3>5. Held' \subseteq Held \cup {x}
      <4> HIDE DEF x
      <4>1. ASSUME NEW v \in ToolUse, pending'[v] # NoPermission
            PROVE  AsUse(v, pending'[v]) \in Held \cup {x}
        BY <2>2, <3>3, <4>1, HeldHas
      <4>2. ASSUME NEW v \in ToolUse, Authorized(hook'[v])
            PROVE  AsUse(v, hook'[v]) \in Held \cup {x}
        BY <2>2, <3>4, <4>2, HeldHas
      <4> QED
        BY <4>1, <4>2, HeldWithin
    <3>6. x \in Held'
      <4>1. pending'[u] \in Permission
        BY <1>t, <1>7, <3>1 DEF AuthorizeTool, Typed, HooksKnow, Hook, Permission
      <4> QED
        BY <3>3, <4>1, PendingHeldThen
    <3>7. Promise!Take(x)
      <4> HIDE DEF x
      <4>1. \E kept \in SUBSET Held : Held' = kept \cup {x}
        <5>1. Held' \ {x} \in SUBSET Held /\ Held' = (Held' \ {x}) \cup {x}
          BY <3>5, <3>6
        <5> QED
          BY <5>1
      <4>2. turn # NoTurn /\ Promise!Needs(x) = HashOf(x)
        BY <3>2, TurnTyped DEF Cleared, Promise!Needs, HashOf
      <4> QED
        BY <2>1, <3>2, <4>1, <4>2 DEF Promise!Take
    <3> QED
      BY <3>2, <3>7
  <2>4. CASE PendingMatches(u) \/ hook[u].codes = {} \/ ~Exact(u)
    <3>1. UNCHANGED <<pending, hashes>>
      BY <1>7, <2>4 DEF AuthorizeTool
    <3>2. ASSUME Authorized(hook'[u]) PROVE AsUse(u, hook'[u]) \in Held
      <4>1. AsUse(u, hook'[u]) = AsUse(u, hook[u]) /\ hook[u].codes # {}
        BY <2>1, <3>2, DiscloseKeeps
      <4>2. ~Deny(u)
        BY <1>t, <3>2 DEF Deny, Authorized, IdleHook
      <4>3. PendingMatches(u)
        BY <1>7, <2>4, <4>1, <4>2 DEF AuthorizeTool
      <4> QED
        BY <1>7, <4>1, <4>3, PendingUsed DEF AuthorizeTool
    <3>3. Held' \subseteq Held
      BY <2>1, <2>2, <3>1, <3>2, HeldHas, HeldWithin
    <3> QED
      BY <2>1, <3>1, <3>3 DEF Promise!Lapse, Promise!Loses
  <2> QED
    BY <2>3, <2>4
<1>8. ASSUME NEW u \in ToolUse, ConsumeDisclosure(u) PROVE Promise!Lapse
  <2>1. UNCHANGED <<cleared, pending, granted, hostTurn, turn, hashes>>
    BY <1>8 DEF ConsumeDisclosure, world
  <2>2. ASSUME NEW v \in ToolUse, Authorized(hook'[v]) PROVE AsUse(v, hook'[v]) \in Held
    <3>1. /\ AsUse(v, hook'[v]) = AsUse(v, hook[v]) /\ Authorized(hook[v])
      BY <1>t, <1>8, <2>2 DEF ConsumeDisclosure, Goto, Authorized, AsUse, Hook
    <3> QED
      BY <3>1, HeldHas
  <2>3. Held' \subseteq Held
    BY <2>1, <2>2, HeldHas, HeldWithin
  <2> QED
    BY <2>1, <2>3 DEF Promise!Lapse, Promise!Loses
<1>9. ASSUME NEW u \in ToolUse, Reply(u)
      PROVE  Promise!Lapse \/ \E x \in Cleared : Promise!LetThrough(x)
  <2>1. UNCHANGED <<pending, granted, hostTurn, turn, hashes>>
    BY <1>9 DEF Reply, session
  <2>2. ASSUME NEW v \in ToolUse, Authorized(hook'[v]) PROVE hook'[v] = hook[v]
    BY <1>t, <1>9, <2>2 DEF Reply, Authorized, IdleHook
  <2>3. Held' \subseteq Held
    BY <2>1, <2>2, HeldHas, HeldWithin
  <2>4. CASE hook[u].codes = {}
    BY <1>9, <2>1, <2>3, <2>4 DEF Reply, Promise!Lapse, Promise!Loses
  <2>5. CASE hook[u].codes # {}
    <3> DEFINE x == AsUse(u, hook[u])
    <3>1. x \in Held /\ cleared' = cleared \cup {x}
      BY <1>9, <2>5, HeldHas DEF Reply, Authorized, AsUse
    <3>2. x \in Cleared
      BY <1>t, <1>9, <2>5 DEF Reply, AsUse, Cleared, Hook, Typed, HooksKnow
    <3> HIDE DEF x
    <3>3. Promise!LetThrough(x)
      BY <2>1, <2>3, <3>1 DEF Promise!LetThrough, Promise!Loses
    <3> QED
      BY <3>2, <3>3
  <2> QED
    BY <2>4, <2>5
<1>10. ASSUME UNCHANGED vars PROVE UNCHANGED Promise!vars
  BY <1>10 DEF vars, session, world, history, Held, Promise!vars
<1> QED
  BY <1>1, <1>2, <1>3, <1>4, <1>5, <1>6, <1>7, <1>8, <1>9, <1>10
  DEF Next, GateStep, Promise!Next

\* A step that changes nothing about approvals, but may drop uses.
Drops == /\ Uses' \subseteq Uses /\ UNCHANGED granted
         /\ hostTurn' \in {hostTurn, hostTurn + 1}
         /\ \/ UNCHANGED <<turn, hashes>>
            \/ turn' = NoTurn /\ hashes' = {}

\* A step that takes a new use from the hashes at hand.
Spends(x) == /\ Uses' \subseteq Uses \cup {x} /\ UNCHANGED <<granted, hostTurn, turn>>
             /\ x \in Cleared /\ x.turn = turn /\ x.codes # {}
             /\ HashOf(x) \subseteq hashes
             /\ hashes' = hashes \ HashOf(x)

\* A prompt.
Grants == /\ Uses' \subseteq Uses
          /\ hostTurn + 1 \in Turn
          /\ hostTurn' = hostTurn + 1 /\ turn' = hostTurn + 1
          /\ granted' = [granted EXCEPT ![hostTurn + 1] = hashes']

\* What that does to the uses and to the hashes at hand.
LEMMA ApprovalSteps ==
    ASSUME Typed, [Promise!Next]_(Promise!vars)
    PROVE  Drops \/ Grants \/ \E x \in Cleared : Spends(x)
<1>1. CASE Promise!Grant
  BY <1>1 DEF Promise!Grant, Promise!Loses, Grants, Uses
<1>2. CASE Promise!Pass \/ Promise!Lapse \/ Promise!Forget \/ UNCHANGED Promise!vars
  BY <1>2 DEF Promise!Pass, Promise!Lapse, Promise!Forget, Promise!Loses, Promise!vars,
              Drops, Uses
<1>3. ASSUME NEW x \in Cleared, Promise!Take(x) PROVE Spends(x)
  BY <1>3 DEF Promise!Take, Promise!Needs, Spends, HashOf, Uses
<1>4. ASSUME NEW x \in Cleared, Promise!LetThrough(x) PROVE Drops
  BY <1>4 DEF Promise!LetThrough, Promise!Loses, Drops, Uses
<1> QED
  BY <1>1, <1>2, <1>3, <1>4 DEF Promise!Next

(***************************************************************************)
(* The gate implements one-shot approvals, for any number of tool uses,    *)
(* hooks, prompts, retries and deaths.                                     *)
(***************************************************************************)
THEOREM ImplementsApprovals == Spec => ApprovalSpec
<1>1. Init => Promise!Init
  <2> SUFFICES ASSUME Init PROVE Promise!Init
      OBVIOUS
  <2>1. Held = {}
    BY DEF Init, DefaultState, Held, Authorized, IdleHook
  <2> QED
    BY <2>1 DEF Init, DefaultState, Promise!Init
<1>2. Typed /\ [Next]_vars => [Promise!Next]_(Promise!vars)
  BY PromiseStep
<1> QED
  BY TypedInit, TypedNext, <1>1, <1>2, PTL DEF Spec, ApprovalSpec, Promise!Spec

ApprovalInv == Typed /\ Approval /\ Exclusive

LEMMA ApprovalInit == Init => ApprovalInv
<1> SUFFICES ASSUME Init PROVE ApprovalInv
    OBVIOUS
<1>1. Uses = {}
  BY DEF Init, DefaultState, Uses, Held, Authorized, IdleHook
<1> QED
  BY <1>1, TypedInit DEF Init, DefaultState, ApprovalInv, Approval, Exclusive, NoTurn

LEMMA ApprovalNext == ApprovalInv /\ [Next]_vars => ApprovalInv'
<1> SUFFICES ASSUME ApprovalInv, [Next]_vars PROVE ApprovalInv'
    OBVIOUS
<1>t. /\ Typed' /\ granted \in [Turn -> SUBSET Hash] /\ hashes \subseteq Hash
      /\ hostTurn \in Nat /\ turn \in Nat /\ NoTurn \notin Turn
      /\ Turn \subseteq Nat /\ NoTurn = 0
  BY TypedNext, TurnTyped DEF ApprovalInv, Typed, TypeOK, NoTurn
<1>1. CASE Drops
  BY <1>t, <1>1 DEF ApprovalInv, Drops, Approval, Exclusive
<1>2. CASE Grants
  <2>1. \A a \in Uses : a.turn # hostTurn + 1
    <3>1. ASSUME NEW a \in Uses, a.turn = hostTurn + 1 PROVE FALSE
      <4>1. a \in Cleared /\ a.codes # {} /\ HashOf(a) \subseteq granted[hostTurn + 1]
        BY <3>1 DEF ApprovalInv, Approval
      <4>2. granted[hostTurn + 1] = {}
        BY <1>t, <1>2 DEF ApprovalInv, Approval, Grants
      <4>3. PICK c \in a.codes : TRUE
        BY <4>1
      <4>4. <<c, DigestOf[a.call]>> \in HashOf(a)
        BY <4>3 DEF HashOf
      <4> QED
        BY <4>1, <4>2, <4>4
    <3> QED
      BY <3>1
  <2>2. Approval'
    BY <1>t, <1>2, <2>1 DEF ApprovalInv, Approval, Grants, Cleared
  <2>3. Exclusive'
    BY <1>2, <2>1 DEF ApprovalInv, Exclusive, Grants
  <2> QED
    BY <1>t, <2>2, <2>3 DEF ApprovalInv
<1>3. ASSUME NEW x \in Cleared, Spends(x) PROVE ApprovalInv'
  <2>1. Approval'
    BY <1>t, <1>3 DEF ApprovalInv, Approval, Spends
  <2>2. ASSUME NEW a \in Uses' PROVE a.turn = turn' => HashOf(a) \cap hashes' = {}
    BY <1>3, <2>2 DEF ApprovalInv, Exclusive, Spends
  <2>3. ASSUME NEW a \in Uses PROVE ~SameApproval(a, x) /\ ~SameApproval(x, a)
    <3>1. SUFFICES ASSUME SameApproval(a, x) \/ SameApproval(x, a) PROVE FALSE
        OBVIOUS
    <3>2. PICK c \in a.codes : c \in x.codes
      BY <3>1 DEF SameApproval
    <3>3. a.turn = turn /\ DigestOf[a.call] = DigestOf[x.call]
      BY <1>3, <3>1 DEF SameApproval, Spends
    <3>4. <<c, DigestOf[a.call]>> \in HashOf(a) /\ <<c, DigestOf[a.call]>> \in HashOf(x)
      BY <3>2, <3>3 DEF HashOf
    <3>5. <<c, DigestOf[a.call]>> \in hashes
      BY <1>3, <3>4 DEF Spends
    <3>6. HashOf(a) \cap hashes = {}
      BY <3>3 DEF ApprovalInv, Exclusive
    <3> QED
      BY <3>4, <3>5, <3>6
  <2>4. Exclusive'
    BY <1>3, <2>2, <2>3 DEF ApprovalInv, Exclusive, Spends
  <2> QED
    BY <1>t, <2>1, <2>4 DEF ApprovalInv
<1> QED
  BY <1>1, <1>2, <1>3, PromiseStep, ApprovalSteps DEF ApprovalInv

LEMMA SpecApproval == Spec => []ApprovalInv
BY ApprovalInit, ApprovalNext, PTL DEF Spec

(***************************************************************************)
(* One approval serves one tool use with one call.                         *)
(***************************************************************************)
THEOREM SpentAlwaysOnce == Spec => []SpentOnce
<1>1. ApprovalInv => SpentOnce
  BY DEF ApprovalInv, Exclusive, SameApproval, SpentOnce, Uses
<1> QED
  BY SpecApproval, <1>1, PTL

(***************************************************************************)
(* The gate lets nothing through that the prompt of its turn did not       *)
(* approve, code by code.                                                  *)
(***************************************************************************)
THEOREM OnlyEverGranted == Spec => []OnlyGranted
<1>1. ASSUME ApprovalInv, NEW u \in ToolUse, hook[u].pc = "reply"
      PROVE  hook[u].codes \X {DigestOf[hook[u].call]} \subseteq granted[hook[u].turn]
  <2>1. CASE hook[u].codes = {}
    BY <2>1
  <2>2. CASE hook[u].codes # {}
    <3>1. AsUse(u, hook[u]) \in Uses
      BY <1>1, <2>2, HeldHas DEF Authorized, Uses
    <3> QED
      BY <1>1, <3>1 DEF ApprovalInv, Approval, HashOf, AsUse
  <2> QED
    BY <2>1, <2>2
<1>2. ApprovalInv => OnlyGranted
  BY <1>1 DEF OnlyGranted
<1> QED
  BY SpecApproval, <1>2, PTL

------------------------------------------------------------------------------
(* Disclosure.                                                              *)

\* The grant held, a hook about to consume one and what was disclosed rest on
\* what the prompt of their turn lent.  No turn to come has lent anything.
Lending ==
    /\ \A n \in Turn : n > hostTurn => lent[n] = {}
    /\ disclosure # NoDisclosure => disclosure.covers \subseteq lent[disclosure.turn]
    /\ \A u \in ToolUse : hook[u].pc = "consume" => hook[u].call \in lent[hook[u].turn]
    /\ DisclosureGranted

LendingInv == Typed /\ Lending

LEMMA LendingInit == Init => LendingInv
BY TypedInit DEF Init, DefaultState, LendingInv, Lending, DisclosureGranted, IdleHook

LEMMA LendingNext == LendingInv /\ [Next]_vars => LendingInv'
<1> SUFFICES ASSUME LendingInv, [Next]_vars PROVE Lending'
    BY TypedNext DEF LendingInv
<1>t. /\ hook \in [ToolUse -> Hook] /\ lent \in [Turn -> SUBSET Outbound]
      /\ disclosure \in Disclosure \cup {NoDisclosure}
      /\ hostTurn \in Nat /\ Turn \subseteq Nat
      /\ disclosed \subseteq [tool : ToolUse, turn : Turn, call : Call]
      /\ HooksKnow
  BY TurnTyped DEF LendingInv, Typed, TypeOK, NoTurn
<1> USE DEF LendingInv, Lending, DisclosureGranted
<1>1. ASSUME NEW p \in Named, Prompt(p.approves, p.lends) PROVE Lending'
  <2>1. hostTurn + 1 \in Turn /\ p.lends \subseteq Outbound
    BY <1>1, TurnTyped DEF Prompt, Typed, TypeOK
  <2>2. lent[hostTurn + 1] = {}
    BY <1>t, <2>1
  <2>3. lent' = [lent EXCEPT ![hostTurn + 1] = p.lends] /\ hostTurn' = hostTurn + 1
    BY <1>1 DEF Prompt
  <2>4. \A n \in Turn : lent[n] \subseteq lent'[n]
    BY <1>t, <2>2, <2>3
  <2>5. disclosure' # NoDisclosure => disclosure'.covers \subseteq lent'[disclosure'.turn]
    BY <1>t, <1>1, <2>1, <2>3 DEF Prompt
  <2>6. \A u \in ToolUse : hook[u].pc = "consume" => hook[u].turn \in Turn
    BY <1>t DEF HooksKnow
  <2>7. UNCHANGED <<hook, disclosed>>
    BY <1>1 DEF Prompt
  <2>8. ASSUME NEW n \in Turn, n > hostTurn' PROVE lent'[n] = {}
    <3>1. n \in Nat /\ n > hostTurn /\ n # hostTurn + 1
      BY <1>t, <2>3, <2>8
    <3>2. lent'[n] = lent[n]
      BY <1>t, <2>3, <3>1
    <3> QED
      BY <3>1, <3>2
  <2>9. \A u \in ToolUse : hook'[u].pc = "consume" => hook'[u].call \in lent'[hook'[u].turn]
    BY <2>4, <2>6, <2>7
  <2>10. \A d \in disclosed : d.turn \in Turn
    BY <1>t
  <2>11. \A d \in disclosed' : d.call \in lent'[d.turn]
    BY <2>4, <2>7, <2>10
  <2> QED
    BY <2>5, <2>8, <2>9, <2>11
<1>2. CASE PromptBlocked
  BY <1>t, <1>2 DEF PromptBlocked, session, history
<1>3. CASE Stop
  BY <1>3 DEF Stop, world
<1>4. ASSUME NEW u \in ToolUse,
             UNCHANGED <<hostTurn, lent, disclosure, disclosed>>,
             \A v \in ToolUse : hook'[v].pc = "consume" =>
                 \/ hook'[v] = hook[v]
                 \/ hook'[v].call \in lent[hook'[v].turn]
      PROVE  Lending'
  BY <1>4
<1>5. ASSUME NEW u \in ToolUse, NEW event \in {"pre", "permission"}, NEW c \in Call,
             GateBegin(u, event, c)
      PROVE  Lending'
  <2>1. UNCHANGED <<hostTurn, lent, disclosure, disclosed>>
    BY <1>5 DEF GateBegin, session, world, history
  <2>2. \A v \in ToolUse : hook'[v].pc = "consume" => hook'[v] = hook[v]
    BY <1>t, <1>5 DEF GateBegin, IdleHook
  <2> QED
    BY <1>4, <2>1, <2>2
<1>6. ASSUME NEW u \in ToolUse, Classify(u) PROVE Lending'
  <2>1. UNCHANGED <<hostTurn, lent, disclosure, disclosed>>
    BY <1>6 DEF Classify, session, history
  <2>2. \A v \in ToolUse : hook'[v].pc = "consume" => hook'[v] = hook[v]
    <3>1. CASE Deny(u)
      BY <1>t, <3>1 DEF Deny, IdleHook
    <3>2. CASE ~Deny(u)
      <4>1. hook' = [hook EXCEPT
                 ![u].pc = IF IsClone(hook[u].call) THEN "reserve" ELSE "authorize",
                 ![u].codes = CodesOf(hook[u])]
        BY <1>6, <3>2 DEF Classify
      <4> QED
        BY <1>t, <4>1 DEF Hook
    <3> QED
      BY <3>1, <3>2
  <2> QED
    BY <1>4, <2>1, <2>2
<1>7. ASSUME NEW u \in ToolUse, ReserveClone(u) \/ HookFails(u) PROVE Lending'
  <2>1. UNCHANGED <<hostTurn, lent, disclosure, disclosed>>
    BY <1>7 DEF ReserveClone, HookFails, session, history
  <2>2. Goto(u, "authorize") \/ Deny(u)
    BY <1>7 DEF ReserveClone, HookFails
  <2>3. \A v \in ToolUse : hook'[v].pc = "consume" => hook'[v] = hook[v]
    BY <1>t, <2>2 DEF Goto, Deny, IdleHook, Hook
  <2> QED
    BY <1>4, <2>1, <2>3
<1>8. ASSUME NEW u \in ToolUse, AuthorizePermission(u) \/ AuthorizeTool(u) PROVE Lending'
  <2>1. /\ UNCHANGED <<hostTurn, lent, disclosure, disclosed>>
        /\ Disclose(u) \/ Deny(u)
    BY <1>8 DEF AuthorizePermission, AuthorizeTool, history
  <2>2. ASSUME NEW v \in ToolUse, hook'[v].pc = "consume"
        PROVE  hook'[v] = hook[v] \/ hook'[v].call \in lent[hook'[v].turn]
    <3>1. CASE Deny(u)
      BY <1>t, <2>2, <3>1 DEF Deny, IdleHook
    <3>2. CASE Goto(u, "reply")
      BY <1>t, <2>2, <3>2 DEF Goto, Hook
    <3>3. CASE /\ Lends(u)
               /\ hook' = [hook EXCEPT ![u].pc = "consume", ![u].seen = disclosure]
      <4>1. hook[u].call \in lent[hook[u].turn]
        BY <3>3 DEF Lends
      <4>2. v = u => hook'[v].call = hook[u].call /\ hook'[v].turn = hook[u].turn
        BY <1>t, <3>3 DEF Hook
      <4>3. v # u => hook'[v] = hook[v]
        BY <1>t, <3>3
      <4> QED
        BY <4>1, <4>2, <4>3
    <3> QED
      BY <2>1, <3>1, <3>2, <3>3 DEF Disclose
  <2> QED
    BY <1>4, <2>1, <2>2
<1>9. ASSUME NEW u \in ToolUse, ConsumeDisclosure(u) PROVE Lending'
  <2>1. /\ UNCHANGED <<hostTurn, lent>> /\ disclosure' \in {disclosure, NoDisclosure}
        /\ hook[u].pc = "consume"
        /\ disclosed' = disclosed \cup
              {[tool |-> u, turn |-> hook[u].turn, call |-> hook[u].call]}
    BY <1>9 DEF ConsumeDisclosure, world
  <2>2. \A v \in ToolUse : hook'[v].pc = "consume" => hook'[v] = hook[v]
    BY <1>t, <1>9 DEF ConsumeDisclosure, Goto, Hook
  <2> QED
    BY <2>1, <2>2
<1>10. ASSUME NEW u \in ToolUse, Reply(u) PROVE Lending'
  <2>1. UNCHANGED <<hostTurn, lent, disclosure, disclosed>>
    BY <1>10 DEF Reply, session
  <2>2. \A v \in ToolUse : hook'[v].pc = "consume" => hook'[v] = hook[v]
    BY <1>t, <1>10 DEF Reply, IdleHook
  <2> QED
    BY <1>4, <2>1, <2>2
<1>11. ASSUME NEW u \in ToolUse, HostStarts(u) \/ CloneAppears(u) \/ PostTool(u)
       PROVE  Lending'
  BY <1>11 DEF HostStarts, CloneAppears, PostTool, session, history
<1>12. CASE UNCHANGED vars
  BY <1>12 DEF vars, session, world, history
<1> QED
  BY <1>1, <1>2, <1>3, <1>5, <1>6, <1>7, <1>8, <1>9, <1>10, <1>11, <1>12
  DEF Next, GateStep

(***************************************************************************)
(* Configured terms leave a sensitive session only for a call that the     *)
(* prompt of the same turn granted.                                        *)
(***************************************************************************)
THEOREM DisclosureAlwaysGranted == Spec => []DisclosureGranted
<1>1. LendingInv => DisclosureGranted
  BY DEF LendingInv, Lending
<1> QED
  BY LendingInit, LendingNext, <1>1, PTL DEF Spec

------------------------------------------------------------------------------
(* Checkouts.                                                               *)

\* Destinations the session knows of, or has been made to forget.
Known == roots \cup Reserved(clones) \cup forgotten

\* A clone past the gate goes to a destination that is known.
ToolProvenance(u) ==
    tool[u].at # "none" /\ IsClone(tool[u].call) => CloneTo[tool[u].call] \in Known

\* So does one on its way, once it is reserved.  What a hook has read of the
\* session is known and holds what was settled.
HookProvenance(h, known) ==
    /\ h.pc # "idle" => Reserved(h.clones) \subseteq known /\ h.settled \subseteq h.roots
    /\ h.pc \notin {"idle", "classify", "reserve"} /\ IsClone(h.call)
          => CloneTo[h.call] \in known
    /\ h.pc \notin {"idle", "classify"} /\ Touches[h.call] \cap h.settled # {}
          => Downloaded \in h.codes

Provenance ==
    /\ disk \subseteq Known
    /\ settled \subseteq roots
    /\ \A u \in ToolUse : ToolProvenance(u) /\ HookProvenance(hook[u], Known)

ProvenanceInv == Typed /\ Provenance

LEMMA ReservedIn ==
    ASSUME NEW table, NEW u \in ToolUse, table[u] # NoClone
    PROVE  CloneTo[table[u].call] \in Reserved(table)
BY DEF Reserved

LEMMA ProvenanceInit == Init => ProvenanceInv
<1> SUFFICES ASSUME Init PROVE Provenance
    BY TypedInit DEF ProvenanceInv
<1>1. /\ disk = {} /\ settled = {}
      /\ \A u \in ToolUse : hook[u].pc = "idle" /\ tool[u].at = "none"
  BY DEF Init, DefaultState, IdleHook, IdleTool
<1> QED
  BY <1>1 DEF Provenance, ToolProvenance, HookProvenance

\* Nothing that is known is forgotten without being noted as forgotten.
LEMMA KnownGrows ==
    ASSUME Typed, [Next]_vars PROVE Known \subseteq Known'
<1>1. ASSUME NEW u \in ToolUse, PostTool(u) PROVE Known \subseteq Known'
  <2> DEFINE mine == clones[u] = [turn |-> tool[u].turn, call |-> tool[u].call]
  <2>1. CASE ~mine
    BY <1>1, <2>1 DEF PostTool, ClonePosted, Known
  <2>2. CASE mine
    <3>1. clones' = [clones EXCEPT ![u] = NoClone] /\ clones[u].call = tool[u].call
      BY <1>1, <2>2 DEF PostTool
    <3>2. Reserved(clones) \subseteq Reserved(clones') \cup {CloneTo[tool[u].call]}
      BY <3>1 DEF Reserved, Typed, TypeOK
    <3>3. CloneTo[tool[u].call] \in roots' \cup forgotten'
      BY <1>1, <2>2 DEF PostTool, ClonePosted
    <3>4. roots \subseteq roots' /\ forgotten \subseteq forgotten'
      BY <1>1 DEF PostTool
    <3> QED
      BY <3>2, <3>3, <3>4 DEF Known
  <2> QED
    BY <2>1, <2>2
<1>2. ASSUME NEW u \in ToolUse, ReserveClone(u) PROVE Known \subseteq Known'
  <2>1. UNCHANGED <<roots, forgotten>>
    BY <1>2 DEF ReserveClone, history
  <2>2. \A v \in ToolUse : clones[v] # NoClone => clones'[v] = clones[v]
    BY <1>2 DEF ReserveClone, Typed, TypeOK
  <2> QED
    BY <2>1, <2>2 DEF Known, Reserved
<1>3. CASE Stop
  BY <1>3 DEF Stop, Known
<1>4. CASE \E p \in Named : Prompt(p.approves, p.lends)
  BY <1>4 DEF Prompt, KeptRoots, Known
<1>5. CASE /\ ~Stop /\ ~\E p \in Named : Prompt(p.approves, p.lends)
           /\ \A u \in ToolUse : ~PostTool(u) /\ ~ReserveClone(u)
  <2>1. UNCHANGED <<roots, clones, forgotten>>
    BY <1>5
    DEF Next, GateStep, PromptBlocked, GateBegin, Classify, AuthorizePermission,
        AuthorizeTool, ConsumeDisclosure, Reply, HookFails, HostStarts, CloneAppears,
        session, world, history, vars
  <2> QED
    BY <2>1 DEF Known
<1> QED
  BY <1>1, <1>2, <1>3, <1>4, <1>5

LEMMA ProvenanceNext == ProvenanceInv /\ [Next]_vars => ProvenanceInv'
<1> SUFFICES ASSUME ProvenanceInv, [Next]_vars PROVE Provenance'
    BY TypedNext DEF ProvenanceInv
<1>t. /\ Typed /\ hook \in [ToolUse -> Hook] /\ tool \in [ToolUse -> Tool]
      /\ clones \in [ToolUse -> CloneRecord \cup {NoClone}] /\ HooksKnow
      /\ disk \subseteq Known /\ settled \subseteq roots
      /\ \A u \in ToolUse : ToolProvenance(u) /\ HookProvenance(hook[u], Known)
  BY DEF ProvenanceInv, Provenance, Typed, TypeOK
<1>k. Known \subseteq Known'
  BY <1>t, KnownGrows
<1>h. \A u \in ToolUse : HookProvenance(hook[u], Known')
  BY <1>t, <1>k DEF HookProvenance
\* It is enough to look at the tool use that moves.
<1>f. ASSUME settled' \subseteq roots', disk' \subseteq Known',
             \A u \in ToolUse : \/ tool'[u] = tool[u]
                                \/ tool'[u].at = "none"
                                \/ tool'[u].call = tool[u].call /\ tool[u].at # "none"
                                \/ IsClone(tool'[u].call) => CloneTo[tool'[u].call] \in Known,
             \A u \in ToolUse : hook'[u] = hook[u] \/ HookProvenance(hook'[u], Known')
      PROVE  Provenance'
  <2>1. \A u \in ToolUse : ToolProvenance(u)'
    BY <1>t, <1>k, <1>f DEF ToolProvenance, IsClone
  <2>2. \A u \in ToolUse : HookProvenance(hook[u], Known)'
    BY <1>h, <1>f DEF HookProvenance
  <2>3. settled' \subseteq roots'
    BY <1>f
  <2> QED
    BY <1>f, <2>1, <2>2, <2>3 DEF Provenance
<1>g. HookProvenance(IdleHook, Known') /\ IdleTool.at = "none"
  BY DEF HookProvenance, IdleHook, IdleTool
<1>d. ASSUME NEW u \in ToolUse, Deny(u)
      PROVE  /\ \A v \in ToolUse : tool'[v] = tool[v] \/ tool'[v].at = "none"
             /\ \A v \in ToolUse : hook'[v] = hook[v] \/ HookProvenance(hook'[v], Known')
  BY <1>t, <1>g, <1>d DEF Deny
\* Moving on without another call, code or snapshot keeps what the hook had.
<1>m. ASSUME NEW u \in ToolUse, hook[u].pc \notin {"idle", "classify", "reserve"},
             NEW new \in Hook, new.call = hook[u].call, new.codes = hook[u].codes,
             new.clones = hook[u].clones, new.roots = hook[u].roots,
             new.settled = hook[u].settled
      PROVE  HookProvenance(new, Known')
  BY <1>h, <1>m DEF HookProvenance
<1>n. ASSUME NEW u \in ToolUse, NEW step \in GateSteps, Goto(u, step),
             hook[u].pc \notin {"idle", "classify", "reserve"}
      PROVE  \A v \in ToolUse : hook'[v] = hook[v] \/ HookProvenance(hook'[v], Known')
  <2> DEFINE new == [hook[u] EXCEPT !.pc = step]
  <2>1. hook[u] \in Hook
    BY <1>t
  <2>2. /\ new \in Hook /\ new.call = hook[u].call /\ new.codes = hook[u].codes
        /\ new.clones = hook[u].clones /\ new.roots = hook[u].roots
        /\ new.settled = hook[u].settled
    BY <2>1 DEF Hook
  <2>3. hook' = [hook EXCEPT ![u] = new]
    BY <1>n DEF Goto
  <2>4. HookProvenance(new, Known')
    <3> HIDE DEF new
    <3> QED
      BY <1>m, <1>n, <2>2
  <2> QED
    BY <1>t, <2>3, <2>4
<1>1. CASE PromptBlocked \/ \E p \in Named : Prompt(p.approves, p.lends)
  <2>1. UNCHANGED <<roots, settled, disk, tool, hook>>
    BY <1>1 DEF PromptBlocked, Prompt, KeptRoots, session, history
  <2> QED
    BY <1>t, <1>k, <1>f, <2>1
<1>2. CASE Stop
  BY <1>t, <1>k, <1>f, <1>2 DEF Stop, world
<1>3. ASSUME NEW u \in ToolUse, NEW event \in {"pre", "permission"}, NEW c \in Call,
             GateBegin(u, event, c)
      PROVE  Provenance'
  <2> DEFINE new == [IdleHook EXCEPT !.pc = "classify", !.event = event, !.call = c,
                                     !.turn = hostTurn, !.roots = roots,
                                     !.clones = clones, !.settled = settled]
  <2>1. UNCHANGED <<roots, settled, disk, tool>> /\ hook' = [hook EXCEPT ![u] = new]
    BY <1>3 DEF GateBegin, session, world, history
  <2>2. /\ new.pc = "classify" /\ new.clones = clones /\ new.settled = settled
        /\ new.roots = roots
    BY DEF IdleHook
  <2>3. HookProvenance(new, Known')
    <3> HIDE DEF new
    <3> QED
      BY <1>t, <1>k, <2>2 DEF HookProvenance, Known
  <2> HIDE DEF new
  <2> QED
    BY <1>t, <1>k, <1>f, <2>1, <2>3
<1>4. ASSUME NEW u \in ToolUse, Classify(u) PROVE Provenance'
  <2>1. UNCHANGED <<roots, settled, disk>>
    BY <1>4 DEF Classify, session, history
  <2>2. CASE Deny(u)
    BY <1>t, <1>k, <1>f, <1>d, <2>1, <2>2
  <2>3. CASE ~Deny(u)
    <3> DEFINE new == [hook[u] EXCEPT
                   !.pc = IF IsClone(hook[u].call) THEN "reserve" ELSE "authorize",
                   !.codes = CodesOf(hook[u])]
    <3>1. hook' = [hook EXCEPT ![u] = new] /\ UNCHANGED tool
      BY <1>4, <2>3 DEF Classify
    <3>2. hook[u] \in Hook /\ hook[u].pc = "classify"
      BY <1>t, <1>4 DEF Classify
    <3>3. /\ new.call = hook[u].call /\ new.codes = CodesOf(hook[u])
          /\ new.clones = hook[u].clones /\ new.roots = hook[u].roots
          /\ new.settled = hook[u].settled
          /\ new.pc = IF IsClone(hook[u].call) THEN "reserve" ELSE "authorize"
      BY <3>2 DEF Hook
    <3>4. Touches[hook[u].call] \cap hook[u].settled # {} => Downloaded \in CodesOf(hook[u])
      <4>1. hook[u].settled \subseteq hook[u].roots
        BY <1>t, <3>2 DEF HookProvenance
      <4> QED
        BY <4>1 DEF CodesOf, Tracked
    <3>5. HookProvenance(new, Known')
      <4> HIDE DEF new
      <4> QED
        BY <1>h, <3>2, <3>3, <3>4 DEF HookProvenance
    <3> HIDE DEF new
    <3> QED
      BY <1>t, <1>k, <1>f, <2>1, <3>1, <3>5
  <2> QED
    BY <2>2, <2>3
<1>5. ASSUME NEW u \in ToolUse, ReserveClone(u) PROVE Provenance'
  <2>1. UNCHANGED <<roots, settled, disk>>
    BY <1>5 DEF ReserveClone, history
  <2>2. CASE Deny(u)
    BY <1>t, <1>k, <1>f, <1>d, <2>1, <2>2
  <2>3. CASE ~Deny(u)
    <3> DEFINE new == [hook[u] EXCEPT !.pc = "authorize"]
               mine == [turn |-> hook[u].turn, call |-> hook[u].call]
    <3>1. hook' = [hook EXCEPT ![u] = new] /\ UNCHANGED tool
      BY <1>5, <2>3 DEF ReserveClone, Goto
    <3>2. hook[u] \in Hook /\ hook[u].pc = "reserve" /\ mine \in CloneRecord
          /\ mine.call = hook[u].call
      BY <1>t, <1>5 DEF ReserveClone, HooksKnow, CloneRecord
    <3>3. /\ new.call = hook[u].call /\ new.codes = hook[u].codes
          /\ new.clones = hook[u].clones /\ new.roots = hook[u].roots
          /\ new.settled = hook[u].settled /\ new.pc = "authorize"
      BY <3>2 DEF Hook
    <3>4. CloneTo[hook[u].call] \in Known'
      <4>1. CASE clones'[u] = mine
        <5>1. clones'[u] # NoClone /\ clones'[u].call = hook[u].call
          BY <3>2, <4>1
        <5>2. CloneTo[hook[u].call] \in Reserved(clones')
          BY <5>1 DEF Reserved
        <5> QED
          BY <5>2 DEF Known
      <4>2. CASE hook[u].clones[u] = mine
        <5>1. hook[u].clones[u] # NoClone /\ hook[u].clones[u].call = hook[u].call
          BY <3>2, <4>2
        <5>2. CloneTo[hook[u].call] \in Reserved(hook[u].clones)
          BY <5>1 DEF Reserved
        <5> QED
          BY <1>h, <3>2, <5>2 DEF HookProvenance
      <4> QED
        BY <1>t, <1>5, <2>3, <4>1, <4>2 DEF ReserveClone
    <3>5. HookProvenance(new, Known')
      <4> HIDE DEF new
      <4> QED
        BY <1>h, <3>2, <3>3, <3>4 DEF HookProvenance
    <3> HIDE DEF new
    <3> QED
      BY <1>t, <1>k, <1>f, <2>1, <3>1, <3>5
  <2> QED
    BY <2>2, <2>3
<1>6. ASSUME NEW u \in ToolUse, AuthorizePermission(u) \/ AuthorizeTool(u)
      PROVE  Provenance'
  <2>1. /\ UNCHANGED <<roots, settled, disk>> /\ hook[u].pc = "authorize"
        /\ Disclose(u) \/ Deny(u)
    BY <1>6 DEF AuthorizePermission, AuthorizeTool, history
  <2>2. CASE Deny(u)
    BY <1>t, <1>k, <1>f, <1>d, <2>1, <2>2
  <2>3. CASE Goto(u, "reply") /\ UNCHANGED tool
    BY <1>t, <1>k, <1>f, <1>n, <2>1, <2>3 DEF GateSteps
  <2>4. CASE /\ hook' = [hook EXCEPT ![u].pc = "consume", ![u].seen = disclosure]
             /\ UNCHANGED tool
    <3> DEFINE new == [hook[u] EXCEPT !.pc = "consume", !.seen = disclosure]
    <3>1. hook[u] \in Hook /\ disclosure \in Disclosure \cup {NoDisclosure}
      BY <1>t DEF Typed, TypeOK
    <3>2. /\ new \in Hook /\ new.call = hook[u].call /\ new.codes = hook[u].codes
          /\ new.clones = hook[u].clones /\ new.roots = hook[u].roots
          /\ new.settled = hook[u].settled
      BY <3>1 DEF Hook, GateSteps
    <3>3. hook' = [hook EXCEPT ![u] = new]
      BY <2>4
    <3>4. HookProvenance(new, Known')
      <4> HIDE DEF new
      <4> QED
        BY <1>m, <2>1, <3>2
    <3> HIDE DEF new
    <3> QED
      BY <1>t, <1>k, <1>f, <2>1, <2>4, <3>3, <3>4
  <2> QED
    BY <2>1, <2>2, <2>3, <2>4 DEF Disclose
<1>7. ASSUME NEW u \in ToolUse, ConsumeDisclosure(u) PROVE Provenance'
  <2>1. UNCHANGED <<roots, settled, disk, tool>> /\ Goto(u, "reply")
    BY <1>7 DEF ConsumeDisclosure, world
  <2> QED
    BY <1>t, <1>k, <1>f, <1>n, <1>7, <2>1 DEF ConsumeDisclosure, GateSteps
<1>8. ASSUME NEW u \in ToolUse, Reply(u) PROVE Provenance'
  <2>1. /\ UNCHANGED <<roots, settled, disk>> /\ hook' = [hook EXCEPT ![u] = IdleHook]
        /\ tool' = [tool EXCEPT ![u] = [at |-> "cleared", call |-> hook[u].call,
                                        turn |-> hook[u].turn]]
    BY <1>8 DEF Reply, session
  <2>2. IsClone(hook[u].call) => CloneTo[hook[u].call] \in Known
    BY <1>t, <1>8 DEF Reply, HookProvenance
  <2>3. \A v \in ToolUse : \/ tool'[v] = tool[v]
                           \/ IsClone(tool'[v].call) => CloneTo[tool'[v].call] \in Known
    BY <1>t, <2>1, <2>2
  <2>4. \A v \in ToolUse : hook'[v] = hook[v] \/ HookProvenance(hook'[v], Known')
    BY <1>t, <1>g, <2>1
  <2> QED
    BY <1>t, <1>k, <1>f, <2>1, <2>3, <2>4
<1>9. ASSUME NEW u \in ToolUse, HookFails(u) PROVE Provenance'
  <2>1. UNCHANGED <<roots, settled, disk>> /\ Deny(u)
    BY <1>9 DEF HookFails, session, history
  <2> QED
    BY <1>t, <1>k, <1>f, <1>d, <2>1
<1>10. ASSUME NEW u \in ToolUse, HostStarts(u) PROVE Provenance'
  <2>1. UNCHANGED <<roots, settled, disk, hook>>
    BY <1>10 DEF HostStarts, session, history
  <2>2. \A v \in ToolUse : \/ tool'[v] = tool[v]
                           \/ tool'[v].call = tool[v].call /\ tool[v].at # "none"
    BY <1>t, <1>10 DEF HostStarts, Tool
  <2> QED
    BY <1>t, <1>k, <1>f, <2>1, <2>2
<1>11. ASSUME NEW u \in ToolUse, CloneAppears(u) PROVE Provenance'
  <2>1. UNCHANGED <<roots, settled, hook, tool>>
    BY <1>11 DEF CloneAppears, session, history
  <2>2. disk' = disk \cup {CloneTo[tool[u].call]} /\ CloneTo[tool[u].call] \in Known
    BY <1>t, <1>11 DEF CloneAppears, ToolProvenance
  <2> QED
    BY <1>t, <1>k, <1>f, <2>1, <2>2
<1>12. ASSUME NEW u \in ToolUse, PostTool(u) PROVE Provenance'
  <2>1. UNCHANGED <<disk, hook>> /\ tool[u].at = "running"
        /\ tool' = [tool EXCEPT ![u].at = "posted"]
    BY <1>12 DEF PostTool
  <2>2. settled' \subseteq roots'
    BY <1>t, <1>12 DEF PostTool, ClonePosted
  <2>3. \A v \in ToolUse : \/ tool'[v] = tool[v]
                           \/ tool'[v].call = tool[v].call /\ tool[v].at # "none"
    BY <1>t, <2>1 DEF Tool
  <2> QED
    BY <1>t, <1>k, <1>f, <2>1, <2>2, <2>3
<1>13. CASE UNCHANGED vars
  <2>1. UNCHANGED <<roots, settled, disk, tool, hook>>
    BY <1>13 DEF vars, session, world, history
  <2> QED
    BY <1>t, <1>k, <1>f, <2>1
<1> QED
  BY <1>1, <1>2, <1>3, <1>4, <1>5, <1>6, <1>7, <1>8, <1>9, <1>10, <1>11, <1>12, <1>13
  DEF Next, GateStep

LEMMA SpecProvenance == Spec => []ProvenanceInv
BY ProvenanceInit, ProvenanceNext, PTL DEF Spec

(***************************************************************************)
(* A checkout on disk is recorded or reserved, or noted as forgotten.      *)
(***************************************************************************)
THEOREM CheckoutAlwaysTracked == Spec => []CheckoutTracked
<1>1. ProvenanceInv => CheckoutTracked
  BY DEF ProvenanceInv, Provenance, Known, CheckoutTracked, Tracked
<1> QED
  BY SpecProvenance, <1>1, PTL

(***************************************************************************)
(* A call into a settled checkout carries downloaded_code_execution.       *)
(***************************************************************************)
THEOREM CheckoutAlwaysGated == Spec => []CheckoutGated
<1>1. ProvenanceInv => CheckoutGated
  BY DEF ProvenanceInv, Provenance, HookProvenance, CheckoutGated
<1> QED
  BY SpecProvenance, <1>1, PTL
==============================================================================
