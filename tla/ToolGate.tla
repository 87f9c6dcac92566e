------------------------------ MODULE ToolGate ------------------------------
(***************************************************************************)
(* The gate on the tool calls of one session: exact command authorization, *)
(* constrained clones with their provenance, and disclosure grants.        *)
(*                                                                         *)
(* Actors: the prompt hook, one hook process per tool use (PreToolUse and  *)
(* PermissionRequest), the host that runs what was cleared, the            *)
(* PostToolUse hook and the Stop hook.  A gate hook takes the session lock *)
(* up to four times: it reads a snapshot, reserves a clone, authorizes,    *)
(* and consumes a disclosure grant.  Each of these is one action here      *)
(* (module StateStore); other hooks and the host act in between.           *)
(*                                                                         *)
(* A call stands for everything the gate binds: tool name, command text,   *)
(* directories and execution options.  Its digest is coarser, the hash of  *)
(* command and directory alone.  Scoped Git transactions are in module     *)
(* GitTransaction; here that policy is off.                                *)
(***************************************************************************)
EXTENDS Integers, FiniteSets

CONSTANTS ToolUse,       \* tool_use_id values
          Call,          \* tool calls
          Digest, DigestOf,   \* _command_hash of a call
          Code, Danger,  \* risk codes, and those a scan of the call finds
          Downloaded,    \* downloaded_code_execution, which no scan finds
          Lane,          \* codes the automatic clone lane forgives
          Checkout,      \* destinations of clones
          CloneTo,       \* the destination of a clone call, or NoCheckout
          Automatic,     \* shallow no-checkout clones
          Touches,       \* checkouts a call that is not read-only works in
          Outbound,      \* calls that carry configured terms to a named target
          NoCall, NoCheckout, NoPermission, NoClone, NoDisclosure,
          Named,         \* what a prompt may approve and lend disclosure to
          MaxTurn,       \* bound: prompts
          MaxHooks       \* bound: gate hooks

Turn == 1 .. MaxTurn
NoTurn == 0
Hash == Code \X Digest

Permission == [turn : Turn, call : Call, codes : SUBSET Code]
CloneRecord == [turn : Turn, call : Call]
Disclosure == [turn : Turn, covers : SUBSET Outbound]

IsClone(c) == CloneTo[c] # NoCheckout

ASSUME GateAssumption ==
    /\ MaxTurn \in Nat /\ MaxHooks \in Nat
    /\ DigestOf \in [Call -> Digest]
    /\ Downloaded \in Code /\ Lane \subseteq Code \ {Downloaded}
    /\ Danger \in [Call -> SUBSET (Code \ {Downloaded})]
    /\ CloneTo \in [Call -> Checkout \cup {NoCheckout}]
    /\ Touches \in [Call -> SUBSET Checkout]
    /\ Automatic \subseteq {c \in Call : IsClone(c)} /\ Outbound \subseteq Call
    /\ Named \subseteq [approves : SUBSET Call, lends : SUBSET Outbound]
    /\ NoCall \notin Call /\ NoCheckout \notin Checkout
    /\ NoPermission \notin Permission /\ NoClone \notin CloneRecord
    /\ NoDisclosure \notin Disclosure

GateSteps == {"idle", "classify", "reserve", "authorize", "consume", "reply"}

Hook == [pc : GateSteps, event : {"pre", "permission"}, call : Call \cup {NoCall},
         turn : Turn \cup {NoTurn}, roots : SUBSET Checkout,
         clones : [ToolUse -> CloneRecord \cup {NoClone}], codes : SUBSET Code,
         seen : Disclosure \cup {NoDisclosure}, settled : SUBSET Checkout]
Tool == [at : {"none", "cleared", "running", "posted"}, call : Call \cup {NoCall},
         turn : Turn \cup {NoTurn}]
Cleared == [tool : ToolUse, turn : Turn, call : Call, codes : SUBSET Code]

VARIABLES
    \* session state
    turn,        \* current_turn_id
    hashes,      \* dangerous_authorization_hashes
    pending,     \* pending_permission_authorizations
    clones,      \* pending_constrained_clones
    roots,       \* untrusted_clone_roots
    disclosure,  \* sensitive_disclosure_grant
    sensitive,   \* sensitive_context
    \* processes, host and file system
    hook,        \* the gate hook of each tool use
    tool,        \* what the host does with each tool use
    hostTurn,    \* the turn the host is in
    disk,        \* checkouts that look like a Git repository
    hooks,       \* gate hooks started
    \* history, read by no action
    granted,     \* hashes each prompt approved
    lent,        \* calls each prompt granted disclosure to
    cleared,     \* calls with risk codes that the gate let through
    disclosed,   \* tool uses that disclosed, with their turn and call
    settled,     \* checkouts whose PostToolUse this session file has seen
    forgotten    \* checkouts the session lost track of

session == <<turn, hashes, pending, clones, roots, disclosure, sensitive>>
history == <<granted, lent, cleared, disclosed, settled, forgotten>>
world == <<tool, hostTurn, disk>>
vars == <<session, hook, world, hooks, history>>

NoClones == [u \in ToolUse |-> NoClone]
IdleHook == [pc |-> "idle", event |-> "pre", call |-> NoCall, turn |-> NoTurn,
             roots |-> {}, clones |-> NoClones, codes |-> {},
             seen |-> NoDisclosure, settled |-> {}]
IdleTool == [at |-> "none", call |-> NoCall, turn |-> NoTurn]

\* _default_state
DefaultState == /\ turn = NoTurn /\ hashes = {} /\ roots = {} /\ clones = NoClones
                /\ pending = [u \in ToolUse |-> NoPermission]
                /\ disclosure = NoDisclosure /\ sensitive = FALSE

Init == /\ DefaultState
        /\ hook = [u \in ToolUse |-> IdleHook]
        /\ tool = [u \in ToolUse |-> IdleTool]
        /\ hostTurn = NoTurn /\ disk = {}
        /\ hooks = 0
        /\ granted = [n \in Turn |-> {}] /\ lent = [n \in Turn |-> {}]
        /\ cleared = {} /\ disclosed = {} /\ settled = {} /\ forgotten = {}

------------------------------------------------------------------------------
(* The prompt.                                                              *)

\* Destinations of reserved clones.
Reserved(table) ==
    {CloneTo[table[u].call] : u \in {v \in ToolUse : table[v] # NoClone}}

\* _tracked_clone_roots: what is recorded, and reserved clones already on disk.
Tracked(recorded, table) == recorded \cup (Reserved(table) \cap disk)

\* _dangerous_authorization_hashes of the calls a prompt approves.  A clone
\* declared in the same prompt counts as untrusted before it exists.
HashesFor(approved) ==
    LET declared == {CloneTo[c] : c \in {d \in approved : IsClone(d)}} \ disk
        untrusted == Tracked(roots, clones) \cup (declared \ {NoCheckout})
        codes(c) == Danger[c] \cup
                    (IF Touches[c] \cap untrusted # {} THEN {Downloaded} ELSE {})
    IN UNION {codes(c) \X {DigestOf[c]} : c \in approved}

\* Fault: the prompt starts a new table of checkouts as well.
KeptRootsNone == {}

\* What a prompt leaves of the recorded checkouts.
KeptRoots == roots

\* handle_user_prompt_submit
Prompt(approved, covers) ==
    /\ hostTurn < MaxTurn
    /\ hostTurn' = hostTurn + 1
    /\ turn' = hostTurn + 1
    /\ hashes' = HashesFor(approved)
    /\ granted' = [granted EXCEPT ![hostTurn + 1] = HashesFor(approved)]
    /\ lent' = [lent EXCEPT ![hostTurn + 1] = covers]
    /\ pending' = [u \in ToolUse |-> NoPermission]
    /\ disclosure' = IF covers = {} THEN NoDisclosure
                     ELSE [turn |-> hostTurn + 1, covers |-> covers]
    /\ sensitive' = (sensitive \/ covers # {})
    /\ roots' = KeptRoots
    /\ UNCHANGED <<clones, hook, tool, disk, hooks, cleared, disclosed,
                   settled, forgotten>>

\* A prompt that is blocked for a credential in it leaves the session alone;
\* the host is in a new turn all the same.
PromptBlocked == /\ hostTurn < MaxTurn
                 /\ hostTurn' = hostTurn + 1
                 /\ UNCHANGED <<session, hook, tool, disk, hooks, history>>

------------------------------------------------------------------------------
(* The gate: _handle_tool_gate.                                             *)

Goto(u, step) == hook' = [hook EXCEPT ![u].pc = step]

\* A denial, an error or a kill: the host does not run the call.
Deny(u) == /\ hook' = [hook EXCEPT ![u] = IdleHook]
           /\ tool' = [tool EXCEPT ![u] = IdleTool]

\* The host presents a call; the hook reads its snapshot (read_session).
GateBegin(u, event, c) ==
    /\ hook[u].pc = "idle" /\ hostTurn # NoTurn
    /\ tool[u].at \in {"none", "cleared"}
    /\ hooks < MaxHooks
    /\ hooks' = hooks + 1
    /\ hook' = [hook EXCEPT ![u] =
                  [IdleHook EXCEPT !.pc = "classify", !.event = event, !.call = c,
                                   !.turn = hostTurn, !.roots = roots,
                                   !.clones = clones, !.settled = settled]]
    /\ UNCHANGED <<session, world, history>>

\* The codes of a call, by the snapshot and by what is on disk now; the
\* automatic lane forgives those of cloning itself.
CodesOf(h) ==
    LET untrusted == Touches[h.call] \cap Tracked(h.roots, h.clones) # {}
        found == Danger[h.call] \cup (IF untrusted THEN {Downloaded} ELSE {})
    IN IF h.call \in Automatic THEN found \ Lane ELSE found

\* A clone to a path that exists is no candidate of either lane.
Classify(u) ==
    /\ hook[u].pc = "classify"
    /\ IF IsClone(hook[u].call) /\ CloneTo[hook[u].call] \in disk
       THEN Deny(u)
       ELSE /\ hook' = [hook EXCEPT
                 ![u].pc = IF IsClone(hook[u].call) THEN "reserve" ELSE "authorize",
                 ![u].codes = CodesOf(hook[u])]
            /\ UNCHANGED tool
    /\ UNCHANGED <<session, hostTurn, disk, hooks, history>>

\* _reserve_clone under PreToolUse; under PermissionRequest the snapshot must
\* hold the reservation.
ReserveClone(u) ==
    LET h == hook[u]
        mine == [turn |-> h.turn, call |-> h.call]
        table == IF h.event = "pre" THEN clones ELSE h.clones
    IN /\ h.pc = "reserve"
       /\ \/ /\ table[u] = mine
             /\ Goto(u, "authorize")
             /\ UNCHANGED <<clones, tool>>
          \/ /\ h.event = "pre" /\ clones[u] = NoClone
             /\ clones' = [clones EXCEPT ![u] = mine]
             /\ Goto(u, "authorize")
             /\ UNCHANGED tool
          \/ /\ table[u] # mine /\ (h.event = "pre" => clones[u] # NoClone)
             /\ Deny(u)
             /\ UNCHANGED clones
       /\ UNCHANGED <<turn, hashes, pending, roots, disclosure, sensitive, hostTurn,
                      disk, hooks, history>>

\* Fault: the turn of the disclosure grant is not compared.
LendsAnyTurn(u) == disclosure # NoDisclosure /\ hook[u].call \in disclosure.covers

\* The disclosure grant is of the turn of the event and covers the call.
Lends(u) == /\ disclosure # NoDisclosure
            /\ disclosure.turn = hook[u].turn
            /\ hook[u].call \in disclosure.covers

\* The state that mutate_authorization returned decides on disclosure.  The
\* grant seen there is consumed in a call of its own.
Disclose(u) ==
    \/ /\ ~(sensitive /\ hook[u].call \in Outbound)
       /\ Goto(u, "reply")
       /\ UNCHANGED tool
    \/ /\ sensitive /\ hook[u].call \in Outbound /\ Lends(u)
       /\ hook' = [hook EXCEPT ![u].pc = "consume", ![u].seen = disclosure]
       /\ UNCHANGED tool
    \/ /\ sensitive /\ hook[u].call \in Outbound /\ ~Lends(u)
       /\ Deny(u)

\* The record of this very call, in this turn, with these codes.
PendingMatches(u) ==
    LET h == hook[u]
    IN /\ h.codes # {} /\ turn = h.turn
       /\ pending[u] = [turn |-> h.turn, call |-> h.call, codes |-> h.codes]

\* mutate_authorization under PermissionRequest: the record is used up.
AuthorizePermission(u) ==
    /\ hook[u].pc = "authorize" /\ hook[u].event = "permission"
    /\ \/ /\ PendingMatches(u)
          /\ pending' = [pending EXCEPT ![u] = NoPermission]
          /\ Disclose(u)
       \/ /\ ~PendingMatches(u) /\ hook[u].codes = {}
          /\ Disclose(u)
          /\ UNCHANGED pending
       \/ /\ ~PendingMatches(u) /\ hook[u].codes # {}
          /\ Deny(u)
          /\ UNCHANGED pending
    /\ UNCHANGED <<turn, hashes, clones, roots, disclosure, sensitive, hostTurn,
                   disk, hooks, history>>

\* Fault: the approved hash stays usable.
RemainingUnspent(u) == hashes

\* The hashes left once the call of u has used its own.
Remaining(u) == hashes \ (hook[u].codes \X {DigestOf[hook[u].call]})

\* Fault: the hash alone decides, whatever turn the state is in.
ExactAnyTurn(u) == hook[u].codes \X {DigestOf[hook[u].call]} \subseteq hashes

\* Every code of the call is approved for its digest in the current turn.
Exact(u) == /\ turn = hook[u].turn
            /\ hook[u].codes \X {DigestOf[hook[u].call]} \subseteq hashes

\* mutate_authorization under PreToolUse
AuthorizeTool(u) ==
    LET h == hook[u]
    IN /\ h.pc = "authorize" /\ h.event = "pre"
       /\ \/ /\ PendingMatches(u) \/ h.codes = {}
             /\ Disclose(u)
             /\ UNCHANGED <<pending, hashes>>
          \/ /\ ~PendingMatches(u) /\ h.codes # {} /\ Exact(u)
             /\ hashes' = Remaining(u)
             /\ pending' = [pending EXCEPT ![u] =
                              [turn |-> h.turn, call |-> h.call, codes |-> h.codes]]
             /\ Disclose(u)
          \/ /\ ~PendingMatches(u) /\ h.codes # {} /\ ~Exact(u)
             /\ Deny(u)
             /\ UNCHANGED <<pending, hashes>>
       /\ UNCHANGED <<turn, clones, roots, disclosure, sensitive, hostTurn, disk,
                      hooks, history>>

\* consume_disclosure: removes the grant if it is still the one that was seen,
\* and does not tell the loser.
ConsumeDisclosure(u) ==
    /\ hook[u].pc = "consume"
    /\ disclosure' = IF disclosure = hook[u].seen THEN NoDisclosure ELSE disclosure
    /\ disclosed' = disclosed \cup
                      {[tool |-> u, turn |-> hook[u].turn, call |-> hook[u].call]}
    /\ Goto(u, "reply")
    /\ UNCHANGED <<turn, hashes, pending, clones, roots, sensitive, world, hooks,
                   granted, lent, cleared, settled, forgotten>>

\* The answer reaches the host.
Reply(u) ==
    /\ hook[u].pc = "reply"
    /\ tool' = [tool EXCEPT ![u] = [at |-> "cleared", call |-> hook[u].call,
                                    turn |-> hook[u].turn]]
    /\ cleared' = IF hook[u].codes = {} THEN cleared
                  ELSE cleared \cup {[tool |-> u, turn |-> hook[u].turn,
                                      call |-> hook[u].call, codes |-> hook[u].codes]}
    /\ hook' = [hook EXCEPT ![u] = IdleHook]
    /\ UNCHANGED <<session, hostTurn, disk, hooks, granted, lent, disclosed,
                   settled, forgotten>>

\* A lock wait or a write fails, or the host kills the hook.
HookFails(u) == /\ hook[u].pc # "idle"
                /\ Deny(u)
                /\ UNCHANGED <<session, hostTurn, disk, hooks, history>>

------------------------------------------------------------------------------
(* The host runs what was cleared; PostToolUse and Stop.                    *)

HostStarts(u) == /\ tool[u].at = "cleared" /\ hook[u].pc = "idle"
                 /\ tool' = [tool EXCEPT ![u].at = "running"]
                 /\ UNCHANGED <<session, hook, hostTurn, disk, hooks, history>>

\* The checkout of a running clone shows up on disk.
CloneAppears(u) == /\ tool[u].at \in {"running", "posted"} /\ IsClone(tool[u].call)
                   /\ disk' = disk \cup {CloneTo[tool[u].call]}
                   /\ UNCHANGED <<session, hook, tool, hostTurn, hooks, history>>

\* Fault: what PostToolUse records is not compared with a reservation.
ClonePostedAny(u) == tool[u].call # NoCall

\* Fault: a clone of an earlier turn is not recorded, though its reservation goes.
ClonePostedCurrent(u) ==
    /\ clones[u] = [turn |-> tool[u].turn, call |-> tool[u].call]
    /\ turn = tool[u].turn /\ CloneTo[tool[u].call] \in disk

\* The reservation is this call's, and the destination holds a repository.
ClonePosted(u) == /\ clones[u] = [turn |-> tool[u].turn, call |-> tool[u].call]
                  /\ CloneTo[tool[u].call] \in disk

\* _handle_post_tool: the record of the call goes, a clone is recorded.  The
\* host may deliver it while a command it left in the background still runs.
PostTool(u) ==
    LET t == tool[u]
        mine == clones[u] = [turn |-> t.turn, call |-> t.call]
        used == /\ pending[u] # NoPermission
                /\ pending[u].turn = t.turn /\ pending[u].call = t.call
    IN /\ t.at = "running"
       /\ tool' = [tool EXCEPT ![u].at = "posted"]
       /\ pending' = IF used THEN [pending EXCEPT ![u] = NoPermission] ELSE pending
       /\ clones' = IF mine THEN [clones EXCEPT ![u] = NoClone] ELSE clones
       /\ roots' = IF ClonePosted(u) THEN roots \cup {CloneTo[t.call]} ELSE roots
       /\ settled' = IF mine /\ CloneTo[t.call] \in disk
                     THEN settled \cup {CloneTo[t.call]} ELSE settled
       /\ forgotten' = IF mine /\ CloneTo[t.call] \notin disk
                       THEN forgotten \cup {CloneTo[t.call]} ELSE forgotten
       /\ UNCHANGED <<turn, hashes, disclosure, sensitive, hook, hostTurn, disk,
                      hooks, granted, lent, cleared, disclosed>>

\* Stop with no agent active and no Git transaction to resume: the session
\* file is removed, and with it what it knew of checkouts.
Stop == /\ turn' = NoTurn /\ hashes' = {} /\ roots' = {} /\ clones' = NoClones
        /\ pending' = [u \in ToolUse |-> NoPermission]
        /\ disclosure' = NoDisclosure /\ sensitive' = FALSE
        /\ settled' = {} /\ forgotten' = forgotten \cup roots \cup Reserved(clones)
        /\ UNCHANGED <<hook, world, hooks, granted, lent, cleared, disclosed>>

GateStep(u) == \/ Classify(u) \/ ReserveClone(u)
               \/ AuthorizePermission(u) \/ AuthorizeTool(u)
               \/ ConsumeDisclosure(u) \/ Reply(u)

Next == \/ \E p \in Named : Prompt(p.approves, p.lends)
        \/ PromptBlocked
        \/ Stop
        \/ \E u \in ToolUse :
              \/ \E event \in {"pre", "permission"}, c \in Call : GateBegin(u, event, c)
              \/ GateStep(u)
              \/ HookFails(u)
              \/ HostStarts(u) \/ CloneAppears(u) \/ PostTool(u)

Spec == Init /\ [][Next]_vars

------------------------------------------------------------------------------
(* Properties.                                                              *)

\* Every variable has its type.
TypeOK ==
    /\ turn \in Turn \cup {NoTurn} /\ hashes \subseteq Hash
    /\ pending \in [ToolUse -> Permission \cup {NoPermission}]
    /\ clones \in [ToolUse -> CloneRecord \cup {NoClone}]
    /\ roots \subseteq Checkout
    /\ disclosure \in Disclosure \cup {NoDisclosure} /\ sensitive \in BOOLEAN
    /\ hook \in [ToolUse -> Hook] /\ tool \in [ToolUse -> Tool]
    /\ hostTurn \in Turn \cup {NoTurn} /\ disk \subseteq Checkout
    /\ hooks \in 0 .. MaxHooks
    /\ granted \in [Turn -> SUBSET Hash] /\ lent \in [Turn -> SUBSET Outbound]
    /\ cleared \subseteq Cleared
    /\ disclosed \subseteq [tool : ToolUse, turn : Turn, call : Call]
    /\ settled \subseteq Checkout /\ forgotten \subseteq Checkout

\* An approval serves one tool use with one call: whatever hooks of other tool
\* uses, retries and replays do between the snapshot, the authorization, the
\* permission request and the PostToolUse (mutate_authorization, clear_pending).
SpentOnce ==
    \A a, b \in cleared :
        /\ a.turn = b.turn /\ DigestOf[a.call] = DigestOf[b.call]
        /\ a.codes \cap b.codes # {}
        => a.tool = b.tool /\ a.call = b.call

\* What is let through was approved, code by code, by the prompt of its own
\* turn, however late the hook reaches the lock (handle_user_prompt_submit,
\* mutate_authorization).
OnlyGranted ==
    \A u \in ToolUse : hook[u].pc = "reply" =>
        hook[u].codes \X {DigestOf[hook[u].call]} \subseteq granted[hook[u].turn]

\* A use of an approval: a call with codes that waits in the table for its
\* permission request, or that a hook has authorized and not yet answered.
AsUse(u, r) == [tool |-> u, turn |-> r.turn, call |-> r.call, codes |-> r.codes]

Authorized(h) == h.pc \in {"consume", "reply"} /\ h.codes # {}

Held == {AsUse(u, pending[u]) : u \in {v \in ToolUse : pending[v] # NoPermission}}
          \cup {AsUse(u, hook[u]) : u \in {v \in ToolUse : Authorized(hook[v])}}

Promise == INSTANCE ApprovalContract WITH
    Use <- Cleared, clock <- hostTurn, now <- turn, atHand <- hashes, held <- Held,
    through <- cleared

\* Snapshots, tables, permission requests and retries together implement one-shot
\* approvals: hashes are taken whole, in the turn that granted them and away from
\* everybody else; nothing is let through that did not take its own, and only a
\* prompt gives any back (mutate_authorization, clear_pending).
ApprovalSpec == Promise!Spec

\* A checkout that a cleared clone put on disk is recorded or still reserved,
\* unless Stop removed the session or PostToolUse came before the checkout
\* existed (_reserve_clone, clear_pending, _tracked_clone_roots).
CheckoutTracked == disk \subseteq Tracked(roots, clones) \cup forgotten

\* A call into a checkout whose PostToolUse was handled before the hook began
\* carries downloaded_code_execution, over any number of prompts
\* (_command_uses_untrusted_clone, handle_user_prompt_submit).
CheckoutGated ==
    \A u \in ToolUse :
        /\ hook[u].pc = "reply"
        /\ Touches[hook[u].call] \cap hook[u].settled # {}
        => Downloaded \in hook[u].codes

\* Configured terms leave a sensitive session only for a call that the prompt of
\* the same turn granted, however late the hook reaches the lock
\* (_sensitive_disclosure_grant, mutate_authorization).
DisclosureGranted == \A d \in disclosed : d.call \in lent[d.turn]

\* The contract, line 58: "The grant is consumed on first matching use."
DisclosedOnce == \A a, b \in disclosed : a.turn = b.turn => a.tool = b.tool
==============================================================================
