--------------------------- MODULE GitEffectProofs ---------------------------
(***************************************************************************)
(* Proofs about what GitTransaction lets take effect, for any number of    *)
(* tool uses, operations, tokens, runners, prompts and mishaps.            *)
(***************************************************************************)
EXTENDS GitTransactionProofs

USE ConstantAssumption

------------------------------------------------------------------------------
(* Approval: whatever carries an operation of a transaction towards git,    *)
(* carries one its prompt approved.                                         *)

Fresh == \A x \in Turn : x > hostTurn => approved[x] = {}

GrantApproved == grant # NoGrant => grant.ops \subseteq approved[grant.txn]

EntriesApproved ==
    \A t \in ToolUse : pending[t] # NoPermission => pending[t].op \in approved[pending[t].txn]

HooksApproved ==
    \A t \in ToolUse : hook[t].pc \in {"ticket", "bind"} => hook[t].cmd \in approved[hook[t].txn]

TicketsApproved ==
    \A k \in Token : ticket[k] # NoTicket => ticket[k].op \in approved[ticket[k].txn]

DirectApproved ==
    \A t \in ToolUse : direct[t] # NoDirect => direct[t].op \in approved[direct[t].txn]

Approval == /\ Fresh /\ GrantApproved /\ EntriesApproved
            /\ HooksApproved /\ TicketsApproved /\ DirectApproved
            /\ OnlyApproved

LEMMA ApprovedFrame ==
  ASSUME [Next]_vars, ~Prompt PROVE UNCHANGED <<approved, hostTurn>>
<1>1. ASSUME NEW t \in ToolUse, HookBegin(t) \/ HookStep(t) \/ HookDies(t)
      PROVE  UNCHANGED <<approved, hostTurn>>
  BY <1>1 DEF HookStep, history, HookBegin, HookClassify, AuthorizePermission, AuthorizeTool,
     Prepare, WriteTicket, Bind, HookReply, HookRevoke, HookSweep, HookDies
<1>2. ASSUME NEW t \in ToolUse, RunDirect(t) \/ Post(t) \/ PostDies(t)
      PROVE  UNCHANGED <<approved, hostTurn>>
  BY <1>2 DEF history, RunDirect, Post, PostRunner, PostDirect, PostDies
<1>3. ASSUME NEW r \in Runner, RunnerStart(r) \/ RunnerStep(r) \/ RunnerDies(r)
      PROVE  UNCHANGED <<approved, hostTurn>>
  BY <1>3 DEF RunnerStep, history, RunnerStart, MoveTicket, Validate, Claim, RunGit,
     WriteReceipt, Finish, RunnerRevoke, RunnerSweep, ReleaseLease, RunnerDies
<1>4. CASE \/ Stop \/ GrantLapses \/ WaitingLapses \/ UNCHANGED vars
           \/ \E k \in Token : TicketLapses(k) \/ ReceiptLapses(k)
  BY <1>4 DEF Stop, GrantLapses, WaitingLapses, TicketLapses, ReceiptLapses, history, vars
<1> QED
  BY <1>1, <1>2, <1>3, <1>4 DEF Next

\* A grant of its own for the new turn, or none.
LEMMA PromptGrants ==
  ASSUME Typed, Prompt
  PROVE  /\ hostTurn + 1 \in Turn
         /\ \/ /\ approved' = approved
               /\ \/ grant' = NoGrant
                  \/ /\ grant # NoGrant /\ grant'.txn = grant.txn /\ grant'.ops = grant.ops
                     /\ grant'.consumed = grant.consumed
            \/ /\ approved' = [approved EXCEPT ![hostTurn + 1] = grant'.ops]
               /\ grant'.txn = hostTurn + 1 /\ grant'.consumed = {}
<1>1. hostTurn + 1 \in Turn
  <2>1. hostTurn < MaxTurn
    BY DEF Prompt, PromptGrant, PromptApprove, PromptContinue, PromptOrdinary, NewTurn
  <2>2. hostTurn \in Nat
    BY DEF Typed, TypeOK, Turn, NoTurn
  <2> QED
    BY <2>1, <2>2 DEF Turn
<1>2. CASE PromptGrant \/ PromptApprove
  <2>1. \E S, b : FreshGrant(S, b)
    BY <1>2 DEF PromptGrant, PromptApprove
  <2>2. ASSUME NEW S, NEW b, FreshGrant(S, b)
        PROVE  /\ approved' = [approved EXCEPT ![hostTurn + 1] = grant'.ops]
               /\ grant'.txn = hostTurn + 1 /\ grant'.consumed = {}
    BY <2>2 DEF FreshGrant
  <2> QED
    BY <1>1, <2>1, <2>2
<1>3. CASE PromptContinue
  BY <1>1, <1>3 DEF PromptContinue, Continuable, Usable, Grant, Typed, TypeOK
<1>4. CASE PromptOrdinary
  BY <1>1, <1>4 DEF PromptOrdinary
<1> QED
  BY <1>2, <1>3, <1>4 DEF Prompt

LEMMA ApprovedGrows ==
  ASSUME Typed, Fresh, [Next]_vars
  PROVE  Fresh' /\ \A x \in Turn : approved[x] \subseteq approved'[x]
<1>t. approved \in [Turn -> SUBSET Op] /\ hostTurn \in Int
  BY DEF Typed, TypeOK, Turn, NoTurn
<1>1. CASE Prompt
  <2>1. hostTurn' = hostTurn + 1 /\ hostTurn + 1 \in Turn
    BY <1>1, TurnBegins, PromptGrants
  <2>2. approved[hostTurn + 1] = {}
    BY <1>t, <2>1 DEF Fresh
  <2>3. \/ approved' = approved
        \/ \E S : approved' = [approved EXCEPT ![hostTurn + 1] = S]
    BY <1>1, PromptGrants
  <2>4. \A x \in Turn : x \in Int
    BY DEF Turn
  <2>5. ASSUME NEW x \in Turn, x # hostTurn + 1 PROVE approved'[x] = approved[x]
    BY <1>t, <2>3, <2>5
  <2>6. ASSUME NEW x \in Turn, x > hostTurn + 1 PROVE x > hostTurn /\ x # hostTurn + 1
    BY <1>t, <2>4, <2>6
  <2>7. Fresh'
    BY <2>1, <2>5, <2>6 DEF Fresh
  <2> QED
    BY <2>2, <2>5, <2>7
<1>2. CASE ~Prompt
  BY <1>2, ApprovedFrame DEF Fresh
<1> QED
  BY <1>1, <1>2

LEMMA NextGrantApproved ==
  ASSUME Typed, Approval, [Next]_vars PROVE GrantApproved'
<1>t. /\ approved \in [Turn -> SUBSET Op]
      /\ grant \in Grant \cup {NoGrant}
  BY DEF Typed, TypeOK
<1>g. grant # NoGrant => grant.txn \in Turn /\ grant.ops \subseteq approved'[grant.txn]
  BY <1>t, ApprovedGrows DEF Approval, GrantApproved, Grant
<1>1. CASE Prompt
  BY <1>1, <1>t, <1>g, PromptGrants DEF GrantApproved
<1>2. CASE ~Prompt
  <2>1. ASSUME NEW t \in ToolUse, Charged(t),
               grant' = [grant EXCEPT !.consumed = @ \cup {pending[t].op}]
        PROVE  grant # NoGrant /\ grant'.txn = grant.txn /\ grant'.ops = grant.ops
    BY <1>t, <2>1 DEF Charged, Grant
  <2> QED
    BY <1>2, <1>g, <2>1, GrantStep DEF GrantApproved
<1> QED
  BY <1>1, <1>2

LEMMA NextEntriesApproved ==
  ASSUME Typed, Approval, [Next]_vars PROVE EntriesApproved'
<1> SUFFICES ASSUME NEW t \in ToolUse, pending'[t] # NoPermission
             PROVE  pending'[t].op \in approved'[pending'[t].txn]
  BY DEF EntriesApproved
<1>t. /\ grant \in Grant \cup {NoGrant}
      /\ pending \in [ToolUse -> Permission \cup {NoPermission}]
  BY DEF Typed, TypeOK
<1>p. pending[t] # NoPermission =>
        pending[t] \in Permission /\ pending[t].op \in approved'[pending[t].txn]
  BY <1>t, ApprovedGrows DEF Approval, EntriesApproved, Permission
<1>1. CASE pending'[t] = pending[t]
  BY <1>1, <1>p
<1>2. CASE /\ ReservedBy(t)
           /\ pending'[t] = [txn |-> grant.txn, turn |-> hook[t].turn, op |-> hook[t].cmd,
                             token |-> NoToken, claimed |-> FALSE]
  <2>1. grant # NoGrant /\ hook[t].cmd \in grant.ops
    BY <1>2 DEF ReservedBy, GrantMatches
  <2>2. hook[t].cmd \in approved'[grant.txn]
    BY <1>t, <2>1, ApprovedGrows DEF Approval, GrantApproved, Grant
  <2> QED
    BY <1>2, <2>2
<1>3. CASE BoundTo(t) /\ pending'[t] = [pending[t] EXCEPT !.token = hook[t].token]
  <2>1. pending[t] \in Permission
    BY <1>3, <1>p DEF BoundTo, Unbound
  <2>2. pending'[t].op = pending[t].op /\ pending'[t].txn = pending[t].txn
    BY <1>3, <2>1 DEF Permission
  <2> QED
    BY <1>3, <1>p, <2>2 DEF BoundTo, Unbound
<1>4. CASE \E r \in Runner : /\ ClaimedBy(r) /\ ticket[runner[r].token].tool = t
                             /\ pending'[t] = [pending[t] EXCEPT !.claimed = TRUE]
  <2>1. pending[t] # NoPermission
    BY <1>4 DEF ClaimedBy, Claimable, Reserved
  <2>2. pending'[t].op = pending[t].op /\ pending'[t].txn = pending[t].txn
    BY <1>4, <1>p, <2>1 DEF Permission
  <2> QED
    BY <1>p, <2>1, <2>2
<1> QED
  BY <1>1, <1>2, <1>3, <1>4, EntryStep

LEMMA NextHooksApproved ==
  ASSUME Typed, Approval, [Next]_vars PROVE HooksApproved'
<1> SUFFICES ASSUME NEW t \in ToolUse, hook'[t].pc \in {"ticket", "bind"}
             PROVE  hook'[t].cmd \in approved'[hook'[t].txn]
  BY DEF HooksApproved
<1>t. /\ hook[t] \in Hook
      /\ pending \in [ToolUse -> Permission \cup {NoPermission}]
  BY DEF Typed, TypeOK
<1>h. hook[t].pc \in {"ticket", "bind"} => hook[t].cmd \in approved'[hook[t].txn]
  <2>1. hook[t].pc \in {"ticket", "bind"} => hook[t].txn \in Turn
    BY DEF Typed, HooksKnow, Knows
  <2> QED
    BY <2>1, ApprovedGrows DEF Approval, HooksApproved
<1>1. CASE hook'[t] = hook[t]
  BY <1>1, <1>h
<1>2. CASE /\ Unbound(t)
           /\ hook'[t] = [hook[t] EXCEPT !.pc = "ticket", !.txn = pending[t].txn,
                                         !.turn = pending[t].turn]
  <2>1. hook'[t].cmd = hook[t].cmd /\ hook'[t].txn = pending[t].txn
    BY <1>2, <1>t DEF Hook
  <2>2. pending[t].op \in approved'[pending[t].txn]
    BY <1>2, <1>t, ApprovedGrows DEF Approval, EntriesApproved, Permission, Unbound
  <2> QED
    BY <1>2, <2>1, <2>2 DEF Unbound
<1>3. CASE /\ hook[t].pc = "ticket"
           /\ \E k \in Token : hook'[t] = [hook[t] EXCEPT !.pc = "bind", !.token = k]
  <2>1. hook'[t].cmd = hook[t].cmd /\ hook'[t].txn = hook[t].txn
    BY <1>3, <1>t DEF Hook
  <2> QED
    BY <1>3, <1>h, <2>1
<1> QED
  BY <1>1, <1>2, <1>3, HookArrives

LEMMA TicketStep ==
  ASSUME Typed, [Next]_vars, NEW k \in Token
  PROVE  \/ ticket'[k] = ticket[k]
         \/ \E t \in ToolUse : /\ hook[t].pc = "ticket"
                               /\ ticket'[k] = [txn |-> hook[t].txn, turn |-> hook[t].turn,
                                                op |-> hook[t].cmd, tool |-> t]
<1>1. ASSUME NEW t \in ToolUse, WriteTicket(t)
      PROVE  \/ ticket'[k] = ticket[k]
             \/ /\ hook[t].pc = "ticket"
                /\ ticket'[k] = [txn |-> hook[t].txn, turn |-> hook[t].turn,
                                 op |-> hook[t].cmd, tool |-> t]
  <2>1. \/ UNCHANGED ticket
        \/ /\ hook[t].pc = "ticket"
           /\ \E j \in Token :
                 ticket' = [ticket EXCEPT ![j] =
                    [txn |-> hook[t].txn, turn |-> hook[t].turn, op |-> hook[t].cmd, tool |-> t]]
    BY <1>1 DEF WriteTicket
  <2> QED
    BY <2>1 DEF Typed, TypeOK
<1>2. CASE \A t \in ToolUse : ~WriteTicket(t)
  BY <1>2 DEF Next, vars, Prompt, PromptGrant, PromptApprove, PromptContinue, PromptOrdinary,
       NewTurn, files, HookStep, RunnerStep, Post,
       HookBegin, HookClassify, AuthorizePermission, AuthorizeTool, Prepare, Bind, HookReply,
       HookRevoke, HookSweep, HookDies, RunDirect, PostRunner, PostDirect, PostDies,
       RunnerStart, MoveTicket, Validate, Claim, RunGit, WriteReceipt, Finish, RunnerRevoke,
       RunnerSweep, ReleaseLease, RunnerDies, Stop,
       GrantLapses, WaitingLapses, TicketLapses, ReceiptLapses
<1> QED
  BY <1>1, <1>2

LEMMA NextTicketsApproved ==
  ASSUME Typed, Approval, [Next]_vars PROVE TicketsApproved'
<1> SUFFICES ASSUME NEW k \in Token, ticket'[k] # NoTicket
             PROVE  ticket'[k].op \in approved'[ticket'[k].txn]
  BY DEF TicketsApproved
<1>1. CASE ticket'[k] = ticket[k]
  <2>1. ticket[k] \in Ticket
    BY <1>1 DEF Typed, TypeOK
  <2> QED
    BY <1>1, <2>1, ApprovedGrows DEF Approval, TicketsApproved, Ticket
<1>2. ASSUME NEW t \in ToolUse, hook[t].pc = "ticket",
             ticket'[k] = [txn |-> hook[t].txn, turn |-> hook[t].turn,
                           op |-> hook[t].cmd, tool |-> t]
      PROVE  ticket'[k].op \in approved'[ticket'[k].txn]
  <2>1. hook[t].txn \in Turn
    BY <1>2 DEF Typed, HooksKnow, Knows
  <2> QED
    BY <1>2, <2>1, ApprovedGrows DEF Approval, HooksApproved
<1> QED
  BY <1>1, <1>2, TicketStep

\* Where a command that is let through as it is comes from, and goes.
LEMMA DirectStep ==
  ASSUME Typed, [Next]_vars, NEW t \in ToolUse, direct'[t] # NoDirect
  PROVE  \/ direct[t] # NoDirect /\ direct'[t].txn = direct[t].txn /\ direct'[t].op = direct[t].op
         \/ /\ grant # NoGrant /\ hook[t].cmd \in grant.ops
            /\ direct'[t] = [txn |-> grant.txn, op |-> hook[t].cmd, fate |-> "permitted"]
<1>t. direct \in [ToolUse -> Direct \cup {NoDirect}]
  BY DEF Typed, TypeOK
<1>1. ASSUME NEW u \in ToolUse, AuthorizePermission(u)
      PROVE  \/ direct'[t] = direct[t]
             \/ /\ grant # NoGrant /\ hook[t].cmd \in grant.ops
                /\ direct'[t] = [txn |-> grant.txn, op |-> hook[t].cmd, fate |-> "permitted"]
  BY <1>1, <1>t DEF AuthorizePermission, GrantMatches
<1>2. ASSUME NEW u \in ToolUse, RunDirect(u)
      PROVE  direct[t] # NoDirect /\ direct'[t].txn = direct[t].txn /\ direct'[t].op = direct[t].op
  <2>1. /\ direct[u] # NoDirect
        /\ \E f : direct' = [direct EXCEPT ![u].fate = f]
    BY <1>2 DEF RunDirect
  <2> QED
    BY <1>t, <2>1 DEF Direct
<1>3. ASSUME NEW u \in ToolUse, PostDirect(u) PROVE direct'[t] = direct[t]
  BY <1>3, <1>t DEF PostDirect
<1>4. CASE ~\E u \in ToolUse : AuthorizePermission(u) \/ RunDirect(u) \/ PostDirect(u)
  <2>1. UNCHANGED direct
    BY <1>4 DEF Next, vars, Prompt, PromptGrant, PromptApprove, PromptContinue, PromptOrdinary,
       NewTurn, HookStep, RunnerStep, Post,
       HookBegin, HookClassify, AuthorizeTool, Prepare, WriteTicket, Bind, HookReply,
       HookRevoke, HookSweep, HookDies, PostRunner, PostDies,
       RunnerStart, MoveTicket, Validate, Claim, RunGit, WriteReceipt, Finish, RunnerRevoke,
       RunnerSweep, ReleaseLease, RunnerDies, Stop,
       GrantLapses, WaitingLapses, TicketLapses, ReceiptLapses
  <2> QED
    BY <2>1
<1> QED
  BY <1>1, <1>2, <1>3, <1>4

LEMMA NextDirectApproved ==
  ASSUME Typed, Approval, [Next]_vars PROVE DirectApproved'
<1> SUFFICES ASSUME NEW t \in ToolUse, direct'[t] # NoDirect
             PROVE  direct'[t].op \in approved'[direct'[t].txn]
  BY DEF DirectApproved
<1>t. /\ direct \in [ToolUse -> Direct \cup {NoDirect}]
      /\ grant \in Grant \cup {NoGrant}
  BY DEF Typed, TypeOK
<1>1. CASE direct[t] # NoDirect /\ direct'[t].txn = direct[t].txn /\ direct'[t].op = direct[t].op
  BY <1>1, <1>t, ApprovedGrows DEF Approval, DirectApproved, Direct
<1>2. CASE /\ grant # NoGrant /\ hook[t].cmd \in grant.ops
           /\ direct'[t] = [txn |-> grant.txn, op |-> hook[t].cmd, fate |-> "permitted"]
  BY <1>2, <1>t, ApprovedGrows DEF Approval, GrantApproved, Grant
<1> QED
  BY <1>1, <1>2, DirectStep

\* The two steps at which an operation takes effect.
LEMMA EffectStep ==
  ASSUME Typed, [Next]_vars
  PROVE  \/ UNCHANGED ran
         \/ \E r \in Runner : /\ At(r, "git")
                              /\ TakesEffect(ticket[runner[r].token].txn,
                                             ticket[runner[r].token].op)
         \/ \E t \in ToolUse : /\ direct[t] # NoDirect /\ direct[t].fate = "permitted"
                               /\ TakesEffect(direct[t].txn, direct[t].op)
<1>1. CASE ~\/ \E r \in Runner : RunGit(r)
            \/ \E t \in ToolUse : RunDirect(t)
  BY <1>1 DEF Next, vars, Prompt, PromptGrant, PromptApprove, PromptContinue, PromptOrdinary,
       NewTurn, history, HookStep, RunnerStep, Post,
       HookBegin, HookClassify, AuthorizePermission, AuthorizeTool, Prepare, WriteTicket, Bind,
       HookReply, HookRevoke, HookSweep, HookDies, PostRunner, PostDirect, PostDies,
       RunnerStart, MoveTicket, Validate, Claim, WriteReceipt, Finish, RunnerRevoke,
       RunnerSweep, ReleaseLease, RunnerDies, Stop,
       GrantLapses, WaitingLapses, TicketLapses, ReceiptLapses
<1>2. ASSUME NEW r \in Runner, RunGit(r)
      PROVE  \/ UNCHANGED ran
             \/ /\ At(r, "git")
                /\ TakesEffect(ticket[runner[r].token].txn, ticket[runner[r].token].op)
  BY <1>2 DEF RunGit
<1>3. ASSUME NEW t \in ToolUse, RunDirect(t)
      PROVE  \/ UNCHANGED ran
             \/ /\ direct[t] # NoDirect /\ direct[t].fate = "permitted"
                /\ TakesEffect(direct[t].txn, direct[t].op)
  BY <1>3 DEF RunDirect
<1> QED
  BY <1>1, <1>2, <1>3

LEMMA NextOnlyApproved ==
  ASSUME Typed, Approval, [Next]_vars PROVE OnlyApproved'
<1>t. ran \in [Turn -> [Op -> 0 .. 2]]
  BY DEF Typed, TypeOK
<1>g. \A x \in Turn, o \in Op : o \in approved[x] => o \in approved'[x]
  BY ApprovedGrows DEF Approval
<1>1. CASE UNCHANGED ran
  BY <1>1, <1>g DEF Approval, OnlyApproved
<1>2. ASSUME NEW x \in Turn, NEW o \in Op, TakesEffect(x, o), o \in approved[x]
      PROVE  OnlyApproved'
  <2>1. ASSUME NEW y \in Turn, NEW p \in Op, ran'[y][p] > 0 PROVE p \in approved[y]
    <3>1. CASE y = x /\ p = o
      BY <1>2, <3>1
    <3>2. CASE ~(y = x /\ p = o)
      <4>1. ran'[y][p] = ran[y][p]
        BY <1>2, <1>t, <3>2 DEF TakesEffect
      <4> QED
        BY <2>1, <4>1 DEF Approval, OnlyApproved
    <3> QED
      BY <3>1, <3>2
  <2> QED
    BY <1>g, <2>1 DEF OnlyApproved
<1>3. ASSUME NEW r \in Runner, At(r, "git"),
             TakesEffect(ticket[runner[r].token].txn, ticket[runner[r].token].op)
      PROVE  OnlyApproved'
  <2>1. runner[r].token \in Token /\ ticket[runner[r].token] # NoTicket
    BY <1>3 DEF At, Typed, TokensWritten, Written
  <2>2. ticket[runner[r].token] \in Ticket
    BY <2>1 DEF Typed, TypeOK
  <2> QED
    BY <1>2, <1>3, <2>1, <2>2 DEF Ticket, Approval, TicketsApproved
<1>4. ASSUME NEW t \in ToolUse, direct[t] # NoDirect, TakesEffect(direct[t].txn, direct[t].op)
      PROVE  OnlyApproved'
  <2>1. direct[t] \in Direct
    BY <1>4 DEF Typed, TypeOK
  <2> QED
    BY <1>2, <1>4, <2>1 DEF Direct, Approval, DirectApproved
<1> QED
  BY <1>1, <1>3, <1>4, EffectStep

LEMMA SpecApproval == Spec => []Approval
<1>1. Init => Approval
  BY DEF Init, Approval, Fresh, GrantApproved, EntriesApproved, HooksApproved, TicketsApproved,
     DirectApproved, OnlyApproved, IdleHook
<1>2. Typed /\ Approval /\ [Next]_vars => Approval'
  BY NextGrantApproved, NextEntriesApproved, NextHooksApproved, NextTicketsApproved,
     NextDirectApproved, NextOnlyApproved, ApprovedGrows DEF Approval
<1> QED
  BY <1>1, <1>2, SpecTyped, PTL DEF Spec

\* Nothing takes effect, by a runner or by a command let through as it is, that
\* the prompt of its transaction did not approve.
THEOREM OnlyApprovedAlways == Spec => []OnlyApproved
  BY SpecApproval, PTL DEF Approval

------------------------------------------------------------------------------
(* Who moves what.                                                          *)

LEMMA RunnerAlone ==
  ASSUME Typed, [Next]_vars, NEW r \in Runner
  PROVE  runner'[r] = runner[r] \/ RunnerStart(r) \/ RunnerStep(r) \/ RunnerDies(r)
<1>1. ASSUME NEW q \in Runner, q # r, RunnerStart(q) \/ RunnerStep(q) \/ RunnerDies(q)
      PROVE  runner'[r] = runner[r]
  BY <1>1 DEF Typed, TypeOK, RunnerStep, RunnerStart, MoveTicket, Validate, Claim, RunGit,
     WriteReceipt, Finish, RunnerRevoke, RunnerSweep, ReleaseLease, RunnerDies, RunnerGoto
<1>2. CASE ~\E q \in Runner : RunnerStart(q) \/ RunnerStep(q) \/ RunnerDies(q)
  <2>1. UNCHANGED runner
    BY <1>2 DEF Next, vars, Prompt, PromptGrant, PromptApprove, PromptContinue, PromptOrdinary,
         NewTurn, HookStep, Post, HookBegin, HookClassify, AuthorizePermission, AuthorizeTool,
         Prepare, WriteTicket, Bind, HookReply, HookRevoke, HookSweep, HookDies, RunDirect,
         PostRunner, PostDirect, PostDies, Stop,
         GrantLapses, WaitingLapses, TicketLapses, ReceiptLapses
  <2> QED
    BY <2>1
<1> QED
  BY <1>1, <1>2

LEMMA HookAlone ==
  ASSUME Typed, [Next]_vars, NEW t \in ToolUse
  PROVE  hook'[t] = hook[t] \/ HookBegin(t) \/ HookStep(t) \/ HookDies(t)
<1>t. hook \in [ToolUse -> Hook]
  BY DEF Typed, TypeOK
<1>1. ASSUME NEW u \in ToolUse, u # t, HookBegin(u) \/ HookStep(u) \/ HookDies(u)
      PROVE  hook'[t] = hook[t]
  BY <1>1, <1>t DEF HookStep, HookBegin, HookClassify, AuthorizePermission, AuthorizeTool,
     ToPrepare, ToRevoke, Prepare, WriteTicket, Bind, HookReply, HookRevoke, HookSweep, HookDies
<1>2. CASE ~\E u \in ToolUse : HookBegin(u) \/ HookStep(u) \/ HookDies(u)
  BY <1>2 DEF Next, vars, Prompt, PromptGrant, PromptApprove, PromptContinue, PromptOrdinary,
         NewTurn, RunnerStep, Post, RunDirect, PostRunner, PostDirect, PostDies,
         RunnerStart, MoveTicket, Validate, Claim, RunGit, WriteReceipt, Finish, RunnerRevoke,
         RunnerSweep, ReleaseLease, RunnerDies, Stop,
         GrantLapses, WaitingLapses, TicketLapses, ReceiptLapses
<1> QED
  BY <1>1, <1>2

LEMMA DirectAlone ==
  ASSUME Typed, [Next]_vars, NEW t \in ToolUse
  PROVE  direct'[t] = direct[t] \/ AuthorizePermission(t) \/ RunDirect(t) \/ PostDirect(t)
<1>1. ASSUME NEW u \in ToolUse, u # t, AuthorizePermission(u) \/ RunDirect(u) \/ PostDirect(u)
      PROVE  direct'[t] = direct[t]
  BY <1>1 DEF Typed, TypeOK, AuthorizePermission, RunDirect, PostDirect
<1>2. CASE ~\E u \in ToolUse : AuthorizePermission(u) \/ RunDirect(u) \/ PostDirect(u)
  BY <1>2 DEF Next, vars, Prompt, PromptGrant, PromptApprove, PromptContinue, PromptOrdinary,
       NewTurn, HookStep, RunnerStep, Post,
       HookBegin, HookClassify, AuthorizeTool, Prepare, WriteTicket, Bind, HookReply,
       HookRevoke, HookSweep, HookDies, PostRunner, PostDies,
       RunnerStart, MoveTicket, Validate, Claim, RunGit, WriteReceipt, Finish, RunnerRevoke,
       RunnerSweep, ReleaseLease, RunnerDies, Stop,
       GrantLapses, WaitingLapses, TicketLapses, ReceiptLapses
<1> QED
  BY <1>1, <1>2

\* Only the runner of a token answers for it.
LEMMA ReceiptStep ==
  ASSUME Typed, [Next]_vars, NEW k \in Token
  PROVE  \/ receipt'[k] \in {"none", receipt[k]}
         \/ receipt[k] = "success" /\ receipt'[k] = "failure"
         \/ \E r \in Runner : runner[r].token = k /\ WriteReceipt(r)
<1>t. receipt \in [Token -> {"none", "success", "failure"}]
  BY DEF Typed, TypeOK
<1>1. ASSUME NEW r \in Runner, WriteReceipt(r)
      PROVE  runner[r].token = k \/ receipt'[k] = receipt[k]
  BY <1>1, <1>t DEF WriteReceipt
<1>2. ASSUME NEW t \in ToolUse, HookSweep(t) \/ PostRunner(t) \/ PostDirect(t) \/ PostDies(t)
      PROVE  receipt'[k] \in {"none", receipt[k]}
  BY <1>2, <1>t DEF HookSweep, PostRunner, PostDirect, PostDies, SweepTransaction, TakeReceipt
<1>3. ASSUME NEW r \in Runner, RunnerSweep(r) PROVE receipt'[k] \in {"none", receipt[k]}
  BY <1>3, <1>t DEF RunnerSweep, SweepTransaction
<1>4. ASSUME NEW l \in Token, ReceiptLapses(l)
      PROVE  receipt'[k] = receipt[k] \/ (receipt[k] = "success" /\ receipt'[k] = "failure")
  BY <1>4, <1>t DEF ReceiptLapses
<1>5. CASE ~\/ \E r \in Runner : WriteReceipt(r) \/ RunnerSweep(r)
            \/ \E t \in ToolUse : HookSweep(t) \/ Post(t) \/ PostDies(t)
            \/ \E l \in Token : ReceiptLapses(l)
  BY <1>5 DEF Next, vars, files, Prompt, PromptGrant, PromptApprove, PromptContinue,
       PromptOrdinary, NewTurn, HookStep, RunnerStep,
       HookBegin, HookClassify, AuthorizePermission, AuthorizeTool, Prepare, WriteTicket, Bind,
       HookReply, HookRevoke, HookDies, RunDirect,
       RunnerStart, MoveTicket, Validate, Claim, RunGit, Finish, RunnerRevoke,
       ReleaseLease, RunnerDies, Stop, GrantLapses, WaitingLapses, TicketLapses
<1> QED
  BY <1>1, <1>2, <1>3, <1>4, <1>5 DEF Post

\* A runner's token is its own from the start of a run to its end.
LEMMA TokenKept ==
  ASSUME Typed, NEW r \in Runner, RunnerStep(r), ~ReleaseLease(r)
  PROVE  /\ runner'[r].token = runner[r].token
         /\ \E l : RunnerGoto(r, l) /\ runner'[r].pc = l
<1>1. PICK l : RunnerGoto(r, l)
  BY DEF RunnerStep, MoveTicket, Validate, Claim, RunGit, WriteReceipt, Finish, RunnerRevoke,
     RunnerSweep
<1>2. runner[r] \in RunnerProcess /\ runner'[r] = [runner[r] EXCEPT !.pc = l]
  BY <1>1 DEF RunnerGoto, Typed, TypeOK
<1> QED
  BY <1>1, <1>2 DEF RunnerProcess

------------------------------------------------------------------------------
(* One runner for each ticket, and no receipt before it has run.            *)

Taking(r) == runner[r].pc \notin {"idle", "move", "release"}

Lone == \A r, s \in Runner : r # s /\ Taking(r) /\ Taking(s) => runner[r].token # runner[s].token

Early == {"validate", "claim", "git", "receipt", "failed"}

Untold ==
    /\ \A k \in Token : place[k] = "request" => receipt[k] = "none"
    /\ \A r \in Runner : runner[r].pc \in Early => receipt[runner[r].token] = "none"

LEMMA NextLone == Typed /\ TicketTaken /\ Lone /\ [Next]_vars => Lone'
<1> SUFFICES ASSUME Typed, TicketTaken, Lone, [Next]_vars,
                    NEW r \in Runner, NEW s \in Runner, r # s, Taking(r)', Taking(s)'
             PROVE  runner'[r].token # runner'[s].token
  BY DEF Lone
<1>1. ASSUME NEW q \in Runner, MoveTicket(q), Taking(q)'
      PROVE  /\ runner'[q].token = runner[q].token /\ place[runner[q].token] = "request"
             /\ \A p \in Runner : p # q => ~MoveTicket(p) \/ ~Taking(p)'
  BY <1>1 DEF MoveTicket, Taking, At, RunnerGoto, Typed, TypeOK, RunnerProcess
<1>2. ASSUME NEW q \in Runner, Taking(q)'
      PROVE  (Taking(q) /\ runner'[q].token = runner[q].token) \/ MoveTicket(q)
  BY <1>2, RunnerArrives DEF Taking
<1>3. CASE MoveTicket(r)
  BY <1>1, <1>2, <1>3 DEF TicketTaken, Taking
<1>4. CASE MoveTicket(s)
  BY <1>1, <1>2, <1>4 DEF TicketTaken, Taking
<1>5. CASE ~MoveTicket(r) /\ ~MoveTicket(s)
  BY <1>2, <1>5 DEF Lone
<1> QED
  BY <1>3, <1>4, <1>5

LEMMA NextUntold == Typed /\ TicketTaken /\ Lone /\ Untold /\ [Next]_vars => Untold'
<1> SUFFICES ASSUME Typed, TicketTaken, Lone, Untold, [Next]_vars PROVE Untold'
  OBVIOUS
<1>w. ASSUME NEW r \in Runner, WriteReceipt(r)
      PROVE  /\ Taking(r) /\ runner[r].token \in Written
             /\ runner'[r].pc \notin Early
  <2>1. runner[r].pc \in {"receipt", "failed"}
    BY <1>w DEF WriteReceipt, At
  <2>2. runner'[r].pc \in {"finish", "revoke"}
    BY <1>w DEF WriteReceipt, RunnerGoto, Typed, TypeOK, RunnerProcess
  <2> QED
    BY <2>1, <2>2 DEF Taking, Early, Typed, TokensWritten
<1>1. ASSUME NEW k \in Token, place'[k] = "request" PROVE receipt'[k] = "none"
  <2>1. receipt[k] = "none" /\ (k \in Written => place[k] = "request")
    BY <1>1, TicketFrame DEF Untold, Typed, TokensWritten
  <2>2. ASSUME NEW r \in Runner, runner[r].token = k, WriteReceipt(r) PROVE FALSE
    BY <1>w, <2>1, <2>2 DEF TicketTaken, Taking
  <2> QED
    BY <2>1, <2>2, ReceiptStep
<1>2. ASSUME NEW r \in Runner, runner'[r].pc \in Early PROVE receipt'[runner'[r].token] = "none"
  <2>1. ASSUME Taking(r), runner[r].pc \in Early, runner'[r].token = runner[r].token
        PROVE  receipt'[runner'[r].token] = "none"
    <3>1. runner[r].token \in Token /\ receipt[runner[r].token] = "none"
      BY <2>1 DEF Untold, Taking, Typed, TokensWritten, Written
    <3>2. ASSUME NEW s \in Runner, runner[s].token = runner[r].token, WriteReceipt(s)
          PROVE  FALSE
      BY <1>2, <1>w, <2>1, <3>2 DEF Lone
    <3> QED
      BY <2>1, <3>1, <3>2, ReceiptStep
  <2>2. CASE runner'[r] = runner[r]
    BY <1>2, <2>1, <2>2 DEF Taking, Early
  <2>3. CASE RunnerStart(r) \/ RunnerDies(r) \/ ReleaseLease(r)
    BY <1>2, <2>3 DEF RunnerStart, RunnerDies, ReleaseLease, IdleRunner, Typed, TypeOK, Early
  <2>4. CASE MoveTicket(r)
    <3>1. runner[r].token \in Token
      BY <2>4 DEF MoveTicket, At, Typed, TokensWritten, Written
    <3>2. /\ UNCHANGED receipt /\ runner'[r].token = runner[r].token
          /\ place[runner[r].token] = "request"
      BY <1>2, <2>4 DEF MoveTicket, RunnerGoto, Typed, TypeOK, RunnerProcess, Early
    <3> QED
      BY <3>1, <3>2 DEF Untold
  <2>5. CASE Validate(r) \/ Claim(r) \/ RunGit(r)
    <3>1. runner[r].pc \in Early
      BY <2>5 DEF Validate, Claim, RunGit, At, Early
    <3>2. RunnerStep(r) /\ ~ReleaseLease(r)
      BY <2>5, <3>1 DEF RunnerStep, ReleaseLease, At, Early
    <3> QED
      BY <2>1, <3>1, <3>2, TokenKept DEF Taking, Early
  <2>6. CASE WriteReceipt(r)
    BY <1>2, <1>w, <2>6
  <2>7. CASE Finish(r) \/ RunnerRevoke(r) \/ RunnerSweep(r)
    <3>1. runner'[r].pc \in {"release", "sweep"}
      BY <2>7 DEF Finish, RunnerRevoke, RunnerSweep, RunnerGoto, Typed, TypeOK, RunnerProcess
    <3> QED
      BY <1>2, <3>1 DEF Early
  <2> QED
    BY <2>2, <2>3, <2>4, <2>5, <2>6, <2>7, RunnerAlone DEF RunnerStep
<1> QED
  BY <1>1, <1>2 DEF Untold

LEMMA SpecUntold == Spec => [](Lone /\ Untold)
<1>1. Init => Lone /\ Untold
  BY DEF Init, IdleRunner, Lone, Taking, Untold, Early
<1> QED
  BY <1>1, SpecTyped, SpecTaken, NextLone, NextUntold, PTL DEF Spec

------------------------------------------------------------------------------
(* A command let through as it is: its tool use runs no hook meanwhile, so  *)
(* the reservation it rests on stays as it was.                             *)

DirectOwns == \A t \in ToolUse : direct[t] # NoDirect =>
    /\ hook[t].pc = "idle"
    /\ pending[t] # NoPermission =>
          /\ pending[t].txn = direct[t].txn /\ pending[t].op = direct[t].op
          /\ pending[t].token = NoToken

\* A PermissionRequest lets the command of t through.
Admitted(t) == /\ hook[t].pc = "authorize" /\ PendingMatches(t)
               /\ grant # NoGrant /\ grant.txn = pending[t].txn
               /\ GrantMatches(grant, hook[t].cmd, hook[t].turn)
               /\ direct' = [direct EXCEPT ![t] = [txn |-> grant.txn, op |-> hook[t].cmd,
                                                   fate |-> "permitted"]]
               /\ hook' = [hook EXCEPT ![t] = IdleHook]
               /\ UNCHANGED <<grant, pending, runner, ran, severed>>

\* The host has run it, with or without effect.
Ran(t) == /\ direct[t] # NoDirect /\ direct[t].fate = "permitted"
          /\ \/ TakesEffect(direct[t].txn, direct[t].op) /\ direct'[t].fate = "success"
             \/ direct'[t].fate = "failure"
          /\ direct'[t].txn = direct[t].txn /\ direct'[t].op = direct[t].op

LEMMA DirectArrives ==
  ASSUME Typed, DirectOwns, [Next]_vars, NEW t \in ToolUse, direct'[t] # NoDirect
  PROVE  direct'[t] = direct[t] \/ Ran(t) \/ Admitted(t)
<1>t. direct \in [ToolUse -> Direct \cup {NoDirect}]
  BY DEF Typed, TypeOK
<1>1. CASE AuthorizePermission(t)
  BY <1>1 DEF AuthorizePermission, Admitted, session, history
<1>2. CASE RunDirect(t)
  <2>1. direct[t] \in Direct
    BY <1>2, <1>t DEF RunDirect
  <2>2. \A f : /\ [direct[t] EXCEPT !.fate = f].fate = f
               /\ [direct[t] EXCEPT !.fate = f].txn = direct[t].txn
               /\ [direct[t] EXCEPT !.fate = f].op = direct[t].op
    BY <2>1 DEF Direct
  <2>3. /\ direct[t] # NoDirect /\ direct[t].fate = "permitted"
        /\ \/ /\ TakesEffect(direct[t].txn, direct[t].op)
              /\ direct'[t] = [direct[t] EXCEPT !.fate = "success"]
           \/ direct'[t] = [direct[t] EXCEPT !.fate = "failure"]
    BY <1>2, <1>t DEF RunDirect
  <2> QED
    BY <2>2, <2>3 DEF Ran
<1>3. CASE PostDirect(t)
  BY <1>3, <1>t DEF PostDirect
<1> QED
  BY <1>1, <1>2, <1>3, DirectAlone

LEMMA NextDirectOwns == Typed /\ DirectOwns /\ [Next]_vars => DirectOwns'
<1> SUFFICES ASSUME Typed, DirectOwns, [Next]_vars, NEW t \in ToolUse, direct'[t] # NoDirect
             PROVE  /\ hook'[t].pc = "idle"
                    /\ pending'[t] # NoPermission =>
                          /\ pending'[t].txn = direct'[t].txn /\ pending'[t].op = direct'[t].op
                          /\ pending'[t].token = NoToken
  BY DEF DirectOwns
<1>1. CASE /\ direct[t] # NoDirect /\ direct'[t].txn = direct[t].txn
           /\ direct'[t].op = direct[t].op
  <2>1. hook[t].pc = "idle"
    BY <1>1 DEF DirectOwns
  <2>2. ~HookBegin(t) /\ ~HookStep(t) /\ ~HookDies(t)
    BY <1>1, <2>1 DEF HookBegin, HookDies, HookStep, HookClassify, AuthorizePermission,
       AuthorizeTool, Prepare, WriteTicket, Bind, HookReply, HookRevoke, HookSweep
  <2>3. hook'[t].pc = "idle"
    BY <2>1, <2>2, HookAlone
  <2>4. ASSUME NEW r \in Runner, ClaimedBy(r), ticket[runner[r].token].tool = t PROVE FALSE
    <3>1. pending[t] # NoPermission /\ pending[t].token = runner[r].token
      BY <2>4 DEF ClaimedBy, Claimable, Reserved
    <3>2. runner[r].token \in Token
      BY <2>4 DEF ClaimedBy, At, Typed, TokensWritten, Written
    <3> QED
      BY <1>1, <3>1, <3>2 DEF DirectOwns
  <2>5. pending'[t] # NoPermission => pending'[t] = pending[t]
    BY <2>1, <2>4, EntryStep DEF ReservedBy, BoundTo
  <2> QED
    BY <1>1, <2>3, <2>5 DEF DirectOwns
<1>2. CASE Admitted(t)
  <2>1. hook'[t] = IdleHook /\ pending'[t] = pending[t]
    BY <1>2 DEF Admitted, Typed, TypeOK
  <2>2. direct'[t] = [txn |-> grant.txn, op |-> hook[t].cmd, fate |-> "permitted"]
    BY <1>2 DEF Admitted, Typed, TypeOK
  <2> QED
    BY <1>2, <2>1, <2>2 DEF Admitted, PendingMatches, IdleHook
<1> QED
  BY <1>1, <1>2, DirectArrives DEF Ran

LEMMA SpecDirectOwns == Spec => []DirectOwns
<1>1. Init => DirectOwns
  BY DEF Init, DirectOwns
<1> QED
  BY <1>1, SpecTyped, NextDirectOwns, PTL DEF Spec

------------------------------------------------------------------------------
(* The ledger is honest: whatever says that an operation was done, the      *)
(* receipt, the host's answer or the ledger, says so of one that took       *)
(* effect.                                                                  *)

Done(x, o) == ran[x][o] > 0

Honest ==
    /\ \A k \in Token : receipt[k] = "success" => Done(ticket[k].txn, ticket[k].op)
    /\ \A r \in Runner : At(r, "receipt") =>
          Done(ticket[runner[r].token].txn, ticket[runner[r].token].op)
    /\ \A t \in ToolUse : direct[t] # NoDirect /\ direct[t].fate = "success" =>
          Done(direct[t].txn, direct[t].op)
    /\ RetiredWasDone

LEMMA DoneStays ==
  ASSUME Typed, [Next]_vars, NEW x \in Turn, NEW o \in Op, Done(x, o)
  PROVE  Done(x, o)'
<1>t. ran \in [Turn -> [Op -> 0 .. 2]]
  BY DEF Typed, TypeOK
<1>1. ASSUME NEW y, NEW p, TakesEffect(y, p) PROVE Done(x, o)'
  BY <1>1, <1>t DEF TakesEffect, Done
<1> QED
  BY <1>1, EffectStep DEF Done

LEMMA EffectIsDone ==
  ASSUME Typed, NEW x \in Turn, NEW o \in Op, TakesEffect(x, o)
  PROVE  Done(x, o)'
BY DEF TakesEffect, Done, Typed, TypeOK

\* What a ticket names is a transaction and an operation, and stays.
LEMMA TicketNames ==
  ASSUME Typed, [Next]_vars, NEW k \in Written
  PROVE  /\ ticket[k].txn \in Turn /\ ticket[k].op \in Op /\ ticket[k].tool \in ToolUse
         /\ ticket'[k] = ticket[k]
<1>1. ticket[k] \in Ticket
  BY DEF Written, Typed, TypeOK
<1> QED
  BY <1>1, TicketFrame DEF Ticket

LEMMA ReceiptsHonest ==
  ASSUME Typed, Honest, [Next]_vars, NEW k \in Token, receipt'[k] = "success"
  PROVE  Done(ticket[k].txn, ticket[k].op)'
<1>1. ASSUME NEW r \in Runner, runner[r].token = k, WriteReceipt(r), receipt[k] # "success"
      PROVE  At(r, "receipt") /\ k \in Written
  <2>1. At(r, "receipt")
    BY <1>1 DEF WriteReceipt, Typed, TypeOK
  <2> QED
    BY <1>1, <2>1 DEF At, Typed, TokensWritten
<1>2. k \in Written /\ Done(ticket[k].txn, ticket[k].op)
  BY <1>1, ReceiptStep DEF Honest, Typed, TokensWritten
<1> QED
  BY <1>2, TicketNames, DoneStays DEF Done

LEMMA RunnersHonest ==
  ASSUME Typed, Honest, [Next]_vars, NEW r \in Runner, At(r, "receipt")'
  PROVE  Done(ticket[runner[r].token].txn, ticket[runner[r].token].op)'
<1>k. ASSUME NEW k \in Written, runner'[r].token = k,
             \/ Done(ticket[k].txn, ticket[k].op)
             \/ TakesEffect(ticket[k].txn, ticket[k].op)
      PROVE  Done(ticket[runner[r].token].txn, ticket[runner[r].token].op)'
  BY <1>k, TicketNames, DoneStays, EffectIsDone DEF Done
<1>1. CASE At(r, "receipt") /\ runner'[r].token = runner[r].token
  <2>1. /\ runner[r].token \in Written
        /\ Done(ticket[runner[r].token].txn, ticket[runner[r].token].op)
    BY <1>1 DEF At, Honest, Typed, TokensWritten
  <2> QED
    BY <1>1, <1>k, <2>1
<1>2. CASE RunGit(r)
  <2>1. runner[r].token \in Written /\ runner'[r].token = runner[r].token
    BY <1>2 DEF RunGit, At, RunnerGoto, Typed, TypeOK, RunnerProcess, TokensWritten
  <2>2. TakesEffect(ticket[runner[r].token].txn, ticket[runner[r].token].op)
    BY <1>2 DEF RunGit, At, RunnerGoto, Typed, TypeOK, RunnerProcess
  <2> QED
    BY <1>k, <2>1, <2>2
<1>3. CASE runner'[r] = runner[r]
  BY <1>1, <1>3 DEF At
<1>4. CASE \/ RunnerStart(r) \/ RunnerDies(r) \/ ReleaseLease(r) \/ MoveTicket(r) \/ Validate(r)
           \/ Claim(r) \/ WriteReceipt(r) \/ Finish(r) \/ RunnerRevoke(r) \/ RunnerSweep(r)
  BY <1>4 DEF At, RunnerStart, RunnerDies, ReleaseLease, IdleRunner, MoveTicket, Validate, Claim,
     WriteReceipt, Finish, RunnerRevoke, RunnerSweep, RunnerGoto, Typed, TypeOK, RunnerProcess
<1> QED
  BY <1>2, <1>3, <1>4, RunnerAlone DEF RunnerStep

LEMMA DirectHonest ==
  ASSUME Typed, DirectOwns, Honest, [Next]_vars, NEW t \in ToolUse,
         direct'[t] # NoDirect, direct'[t].fate = "success"
  PROVE  Done(direct[t].txn, direct[t].op)'
<1>1. direct[t] # NoDirect => direct[t].txn \in Turn /\ direct[t].op \in Op
  BY DEF Typed, TypeOK, Direct
<1>2. CASE direct'[t] = direct[t]
  BY <1>1, <1>2, DoneStays DEF Honest, Done
<1>3. CASE Ran(t)
  BY <1>1, <1>3, EffectIsDone DEF Ran, Done
<1>4. CASE Admitted(t)
  BY <1>4 DEF Admitted, Typed, TypeOK
<1> QED
  BY <1>2, <1>3, <1>4, DirectArrives

\* A reservation that is retired says what took effect.
LEMMA RetiredIsDone ==
  ASSUME Typed, ReservedByGrant, Agreed, DirectOwns, Honest, NEW t \in ToolUse, Retired(t)
  PROVE  Done(pending[t].txn, pending[t].op)
<1>1. CASE Bound(pending[t]) /\ receipt[pending[t].token] = "success"
  <2>1. pending[t].token \in Token
    BY <1>1 DEF Typed, TokensWritten, Written
  <2>2. ticket[pending[t].token] = [txn |-> pending[t].txn, turn |-> pending[t].turn,
                                    op |-> pending[t].op, tool |-> t]
    BY <1>1 DEF Agreed, TicketAgrees
  <2>3. /\ ticket[pending[t].token].txn = pending[t].txn
        /\ ticket[pending[t].token].op = pending[t].op
    BY <2>2
  <2> QED
    BY <1>1, <2>1, <2>3 DEF Honest
<1>2. CASE direct[t] # NoDirect /\ direct[t].fate = "success"
  BY <1>2 DEF Honest, DirectOwns, Retired, Charged
<1> QED
  BY <1>1, <1>2 DEF Retired, Answered

LEMMA LedgerHonest ==
  ASSUME Typed, ReservedByGrant, Agreed, DirectOwns, Honest, [Next]_vars
  PROVE  RetiredWasDone'
<1> SUFFICES ASSUME grant' # NoGrant, NEW o \in grant'.consumed PROVE Done(grant.txn, o)'
  BY DEF RetiredWasDone, Done
<1>t. grant \in Grant \cup {NoGrant}
  BY DEF Typed, TypeOK
<1>k. ASSUME grant # NoGrant, grant'.txn = grant.txn, o \in grant.consumed
      PROVE  Done(grant.txn, o)'
  BY <1>k, <1>t, DoneStays DEF Honest, RetiredWasDone, Grant, Done
<1>1. CASE Prompt
  BY <1>1, <1>k, PromptGrants
<1>2. CASE Untouched \/ Cleared \/ Stop
  BY <1>2, <1>k DEF Untouched, Cleared, ClearTransaction, Stop
<1>3. ASSUME NEW t \in ToolUse, ReservedBy(t) \/ BoundTo(t) \/ Released(t) PROVE Done(grant.txn, o)'
  BY <1>3, <1>k DEF ReservedBy, BoundTo, Released
<1>4. ASSUME NEW r \in Runner, ClaimedBy(r) PROVE Done(grant.txn, o)'
  BY <1>4, <1>k DEF ClaimedBy
<1>5. ASSUME NEW t \in ToolUse, Retired(t) PROVE Done(grant.txn, o)'
  <2>1. /\ grant # NoGrant /\ pending[t] \in Permission /\ grant.txn = pending[t].txn
        /\ grant' = [grant EXCEPT !.consumed = @ \cup {pending[t].op}]
    BY <1>5 DEF Retired, Charged, Retire, Typed, TypeOK
  <2>2. grant'.txn = grant.txn /\ grant'.consumed = grant.consumed \cup {pending[t].op}
    BY <1>t, <2>1 DEF Grant
  <2>3. Done(pending[t].txn, pending[t].op)
    BY <1>5, RetiredIsDone
  <2>4. ran'[grant.txn][pending[t].op] > 0
    BY <2>1, <2>3, DoneStays DEF Permission, Done
  <2> QED
    BY <1>k, <2>1, <2>2, <2>4 DEF Done
<1> QED
  BY <1>1, <1>2, <1>3, <1>4, <1>5, TableStep

LEMMA SpecHonest == Spec => []Honest
<1>1. Init => Honest
  BY DEF Init, IdleRunner, Honest, At, RetiredWasDone
<1>2. Typed /\ ReservedByGrant /\ Agreed /\ DirectOwns /\ Honest /\ [Next]_vars => Honest'
  <2> SUFFICES ASSUME Typed, ReservedByGrant, Agreed, DirectOwns, Honest, [Next]_vars
               PROVE  Honest'
    OBVIOUS
  <2> QED
    BY ReceiptsHonest, RunnersHonest, DirectHonest, LedgerHonest DEF Honest
<1> QED
  BY <1>1, <1>2, SpecTyped, SpecReserved, SpecAgreed, SpecDirectOwns, PTL DEF Spec

\* An operation is only crossed off if it took effect, whoever reports it, after
\* any deaths, late receipts and revocations.
THEOREM RetiredAlwaysDone == Spec => []RetiredWasDone
  BY SpecHonest, PTL DEF Honest

------------------------------------------------------------------------------
(* At most once, and one at a time.  Whoever is about to let an operation   *)
(* of the transaction held take effect, a runner at git or the host with a  *)
(* command let through, owns the only reservation; and an operation that    *)
(* took effect and is not retired still has it.  So nobody else can come to *)
(* the same point.  A transaction that is gone has at most the one it had.  *)

TxnOf(r) == ticket[runner[r].token].txn
OpOf(r) == ticket[runner[r].token].op
ToolOf(r) == ticket[runner[r].token].tool
Permitted(t) == direct[t] # NoDirect /\ direct[t].fate = "permitted"
Current(x) == x \notin severed /\ grant # NoGrant /\ grant.txn = x

Owned ==
    /\ \A r \in Runner : At(r, "git") /\ Current(TxnOf(r)) =>
          /\ pending[ToolOf(r)] # NoPermission /\ pending[ToolOf(r)].claimed
          /\ pending[ToolOf(r)].token = runner[r].token
    /\ \A t \in ToolUse : Permitted(t) /\ Current(direct[t].txn) => pending[t] # NoPermission

Serial ==
    /\ \A r, s \in Runner : At(r, "git") /\ At(s, "git") /\ TxnOf(r) = TxnOf(s) =>
          r = s \/ TxnOf(r) \in severed
    /\ \A t, u \in ToolUse : Permitted(t) /\ Permitted(u) /\ direct[t].txn = direct[u].txn =>
          t = u \/ direct[t].txn \in severed
    /\ \A r \in Runner, t \in ToolUse : At(r, "git") /\ Permitted(t) /\ TxnOf(r) = direct[t].txn =>
          TxnOf(r) \in severed

Unspent ==
    /\ \A r \in Runner : At(r, "git") => ran[TxnOf(r)][OpOf(r)] = 0 \/ TxnOf(r) \in severed
    /\ \A t \in ToolUse : Permitted(t) =>
          ran[direct[t].txn][direct[t].op] = 0 \/ direct[t].txn \in severed

Open(t, o) == /\ pending[t] # NoPermission /\ pending[t].op = o
              /\ pending[t].claimed \/ direct[t] # NoDirect

Ledger == grant # NoGrant /\ grant.txn \notin severed =>
    \A o \in grant.ops \ grant.consumed :
        ran[grant.txn][o] = 0 \/ \E t \in ToolUse : Open(t, o)

Known == /\ Typed /\ OneReservation /\ ReservedByGrant /\ Agreed
         /\ ClaimTaken /\ Untold /\ DirectOwns /\ Approval

Once == Owned /\ Serial /\ Unspent /\ Ledger /\ AtMostOnce

LEMMA SeveredGrows == [Next]_vars => severed \subseteq severed'
  BY DEF Next, vars, history, Prompt, PromptGrant, PromptApprove, PromptContinue, PromptOrdinary,
       FreshGrant, HookStep, RunnerStep, Post,
       HookBegin, HookClassify, AuthorizePermission, AuthorizeTool, Prepare, WriteTicket, Bind,
       HookReply, HookRevoke, HookSweep, HookDies, RunDirect, PostRunner, PostDirect, PostDies,
       RunnerStart, MoveTicket, Validate, Claim, RunGit, WriteReceipt, Finish, RunnerRevoke,
       RunnerSweep, ReleaseLease, RunnerDies, Stop,
       GrantLapses, WaitingLapses, TicketLapses, ReceiptLapses

\* The runners at git, and how one comes there.
LEMMA AtGit ==
  ASSUME Known, NEW r \in Runner, At(r, "git")
  PROVE  /\ runner[r].token \in Written
         /\ TxnOf(r) \in Turn /\ OpOf(r) \in Op /\ ToolOf(r) \in ToolUse
         /\ approved[TxnOf(r)] # {}
<1>1. runner[r].token \in Written
  BY DEF At, Known, Typed, TokensWritten
<1>2. ticket[runner[r].token] \in Ticket
  BY <1>1 DEF Known, Typed, TypeOK, Written
<1> QED
  BY <1>1, <1>2 DEF TxnOf, OpOf, ToolOf, Ticket, Written, Known, Approval, TicketsApproved

LEMMA GitArrives ==
  ASSUME Known, [Next]_vars, NEW r \in Runner, At(r, "git")'
  PROVE  /\ At(r, "git") \/ (ClaimedBy(r) /\ UNCHANGED <<ran, direct, severed>>)
         /\ runner'[r].token = runner[r].token /\ runner[r].token \in Written
         /\ TxnOf(r)' = TxnOf(r) /\ OpOf(r)' = OpOf(r) /\ ToolOf(r)' = ToolOf(r)
         /\ TxnOf(r) \in Turn /\ OpOf(r) \in Op /\ ToolOf(r) \in ToolUse
         /\ approved[TxnOf(r)] # {}
<1>t. runner \in [Runner -> RunnerProcess]
  BY DEF Known, Typed, TypeOK
<1>1. runner'[r] = runner[r] \/ Claim(r)
  <2>1. CASE RunnerStart(r) \/ RunnerDies(r) \/ ReleaseLease(r)
    BY <1>t, <2>1 DEF At, RunnerStart, RunnerDies, ReleaseLease, IdleRunner
  <2>2. CASE \/ MoveTicket(r) \/ Validate(r) \/ RunGit(r) \/ WriteReceipt(r) \/ Finish(r)
             \/ RunnerRevoke(r) \/ RunnerSweep(r)
    BY <1>t, <2>2 DEF At, MoveTicket, Validate, RunGit, WriteReceipt, Finish, RunnerRevoke,
       RunnerSweep, RunnerGoto, RunnerProcess
  <2> QED
    BY <2>1, <2>2, RunnerAlone DEF RunnerStep, Known
<1>2. CASE runner'[r] = runner[r]
  <2>1. At(r, "git")
    BY <1>2 DEF At
  <2>2. ticket'[runner[r].token] = ticket[runner[r].token]
    BY <2>1, AtGit, TicketNames DEF Known
  <2> QED
    BY <1>2, <2>1, <2>2, AtGit DEF TxnOf, OpOf, ToolOf
<1>3. CASE Claim(r)
  <2>1. runner[r].token \in Written
    BY <1>3 DEF Claim, At, Known, Typed, TokensWritten
  <2>2. /\ ticket[runner[r].token] \in Ticket
        /\ ticket'[runner[r].token] = ticket[runner[r].token]
    BY <2>1, TicketNames DEF Written, Known, Typed, TypeOK
  <2>3. ClaimedBy(r) /\ UNCHANGED <<ran, direct, severed>>
    BY <1>3, <1>t DEF Claim, ClaimedBy, At, RunnerGoto, RunnerProcess, history
  <2>4. runner'[r].token = runner[r].token
    BY <1>t, <2>3 DEF ClaimedBy, RunnerProcess
  <2> QED
    BY <2>1, <2>2, <2>3, <2>4
       DEF TxnOf, OpOf, ToolOf, Ticket, Written, Known, Approval, TicketsApproved
<1> QED
  BY <1>1, <1>2, <1>3

LEMMA AtPermitted ==
  ASSUME Known, NEW t \in ToolUse, Permitted(t)
  PROVE  direct[t].txn \in Turn /\ direct[t].op \in Op /\ approved[direct[t].txn] # {}
BY DEF Permitted, Direct, Known, Typed, TypeOK, Approval, DirectApproved

LEMMA PermitArrives ==
  ASSUME Known, [Next]_vars, NEW t \in ToolUse, Permitted(t)'
  PROVE  \/ Permitted(t) /\ direct'[t] = direct[t]
         \/ /\ Admitted(t)
            /\ direct'[t].txn = grant.txn /\ direct'[t].op = hook[t].cmd
<1>1. CASE direct'[t] = direct[t]
  BY <1>1 DEF Permitted
<1>2. ~Ran(t)
  BY DEF Ran, Permitted
<1>3. CASE Admitted(t)
  BY <1>3 DEF Admitted, Known, Typed, TypeOK
<1> QED
  BY <1>1, <1>2, <1>3, DirectArrives DEF Known, Permitted

\* Who lets an operation take effect is done with it.
LEMMA EffectLeaves ==
  ASSUME Known, [Next]_vars
  PROVE  \/ UNCHANGED ran
         \/ /\ UNCHANGED session
            /\ \/ \E r \in Runner : /\ At(r, "git") /\ ~At(r, "git")' /\ UNCHANGED direct
                                    /\ TakesEffect(TxnOf(r), OpOf(r))
               \/ \E t \in ToolUse : /\ Permitted(t) /\ ~Permitted(t)' /\ direct'[t] # NoDirect
                                     /\ UNCHANGED runner
                                     /\ TakesEffect(direct[t].txn, direct[t].op)
<1>1. CASE ~\/ \E r \in Runner : RunGit(r)
            \/ \E t \in ToolUse : RunDirect(t)
  BY <1>1 DEF Next, vars, Prompt, PromptGrant, PromptApprove, PromptContinue, PromptOrdinary,
       NewTurn, history, HookStep, RunnerStep, Post,
       HookBegin, HookClassify, AuthorizePermission, AuthorizeTool, Prepare, WriteTicket, Bind,
       HookReply, HookRevoke, HookSweep, HookDies, PostRunner, PostDirect, PostDies,
       RunnerStart, MoveTicket, Validate, Claim, WriteReceipt, Finish, RunnerRevoke,
       RunnerSweep, ReleaseLease, RunnerDies, Stop,
       GrantLapses, WaitingLapses, TicketLapses, ReceiptLapses
<1>2. ASSUME NEW r \in Runner, RunGit(r)
      PROVE  \/ UNCHANGED ran
             \/ /\ UNCHANGED session /\ At(r, "git") /\ ~At(r, "git")' /\ UNCHANGED direct
                /\ TakesEffect(TxnOf(r), OpOf(r))
  BY <1>2 DEF RunGit, At, RunnerGoto, TxnOf, OpOf, RunnerProcess, Known, Typed, TypeOK
<1>3. ASSUME NEW t \in ToolUse, RunDirect(t)
      PROVE  \/ UNCHANGED ran
             \/ /\ UNCHANGED session /\ Permitted(t) /\ ~Permitted(t)' /\ direct'[t] # NoDirect
                /\ UNCHANGED runner
                /\ TakesEffect(direct[t].txn, direct[t].op)
  <2>1. direct[t] \in Direct
    BY <1>3 DEF RunDirect, Known, Typed, TypeOK
  <2>2. /\ [direct[t] EXCEPT !.fate = "success"] \in Direct
        /\ [direct[t] EXCEPT !.fate = "success"].fate = "success"
    BY <2>1 DEF Direct
  <2>3. CASE ran' # ran
    <3>1. /\ direct'[t] = [direct[t] EXCEPT !.fate = "success"]
          /\ TakesEffect(direct[t].txn, direct[t].op) /\ UNCHANGED <<session, runner>>
          /\ direct[t] # NoDirect /\ direct[t].fate = "permitted"
      BY <1>3, <2>3 DEF RunDirect, Known, Typed, TypeOK
    <3> QED
      BY <2>2, <3>1 DEF Permitted
  <2> QED
    BY <2>3
<1> QED
  BY <1>1, <1>2, <1>3

\* Between two prompts the entry of a grant that is kept stays, or is retired.
LEMMA EntryStays ==
  ASSUME Known, [Next]_vars, ~Prompt, grant' # NoGrant,
         NEW t \in ToolUse, pending[t] # NoPermission
  PROVE  \/ /\ pending'[t] # NoPermission /\ pending'[t].op = pending[t].op
            /\ pending[t].claimed => pending'[t].claimed
            /\ pending[t].token # NoToken => pending'[t].token = pending[t].token
         \/ Retired(t)
<1>t. /\ pending \in [ToolUse -> Permission \cup {NoPermission}]
      /\ pending[t] \in Permission /\ grant # NoGrant /\ pending[t].txn = grant.txn
  BY DEF Known, Typed, TypeOK, ReservedByGrant
<1>s. ~Stop
  BY DEF Stop
<1>1. CASE pending'[t] = pending[t]
  BY <1>1
<1>2. CASE Cleared
  BY <1>t, <1>1, <1>2 DEF Cleared, ClearTransaction, Reserved
<1>3. ASSUME NEW u \in ToolUse, ReservedBy(u) PROVE FALSE
  BY <1>t, <1>3 DEF ReservedBy, Reserved
<1>4. ASSUME NEW u \in ToolUse, BoundTo(u)
      PROVE  pending'[t] = pending[t] \/
             (/\ pending'[t] # NoPermission /\ pending'[t].op = pending[t].op
              /\ pending[t].claimed => pending'[t].claimed
              /\ pending[t].token # NoToken => pending'[t].token = pending[t].token)
  <2>1. CASE u = t
    <3>1. /\ pending[t].token = NoToken /\ ~pending[t].claimed
          /\ pending'[t] = [pending[t] EXCEPT !.token = hook[t].token]
      BY <1>t, <1>4, <2>1 DEF BoundTo, Unbound
    <3>2. pending' \in [ToolUse -> Permission \cup {NoPermission}]
      BY NextTyped DEF Known, Typed, TypeOK
    <3>3. hook[t].token \in Token
      BY <1>4, <2>1 DEF BoundTo, Known, Typed, HooksKnow, Knows, Written
    <3>4. pending'[t] \in Permission /\ pending'[t].op = pending[t].op
      BY <1>t, <3>1, <3>3 DEF Permission
    <3> QED
      BY <3>1, <3>4
  <2> QED
    BY <1>t, <1>4, <2>1 DEF BoundTo
<1>5. ASSUME NEW r \in Runner, ClaimedBy(r)
      PROVE  pending'[t] = pending[t] \/
             (/\ pending'[t] # NoPermission /\ pending'[t].op = pending[t].op
              /\ pending[t].claimed => pending'[t].claimed
              /\ pending[t].token # NoToken => pending'[t].token = pending[t].token)
  <2>1. CASE pending'[t] = [pending[t] EXCEPT !.claimed = TRUE]
    <3>1. /\ pending'[t] \in Permission /\ pending'[t].op = pending[t].op
          /\ pending'[t].token = pending[t].token /\ pending'[t].claimed
      BY <1>t, <2>1 DEF Permission
    <3> QED
      BY <3>1
  <2> QED
    BY <1>t, <1>5, <2>1 DEF ClaimedBy
<1>6. ASSUME NEW u \in ToolUse, Retired(u) PROVE Retired(t)
  BY <1>t, <1>6 DEF Retired, Charged, Known, OneReservation
<1>7. ASSUME NEW u \in ToolUse, Released(u) PROVE pending'[t] = pending[t]
  BY <1>t, <1>7 DEF Released, Charged
<1> QED
  BY <1>s, <1>1, <1>2, <1>3, <1>4, <1>5, <1>6, <1>7, TableStep DEF Untouched, Known

\* A transaction some prompt approved is only current if it was; a prompt that
\* keeps it current found the table empty.
LEMMA CurrentBefore ==
  ASSUME Known, [Next]_vars, NEW x \in Turn, approved[x] # {},
         x \notin severed', grant' # NoGrant, grant'.txn = x
  PROVE  /\ Current(x) /\ grant'.ops = grant.ops /\ grant.consumed \subseteq grant'.consumed
         /\ Prompt => \A t \in ToolUse : pending[t] = NoPermission
<1>t. hostTurn \in Int /\ grant \in Grant \cup {NoGrant}
  BY DEF Known, Typed, TypeOK, Turn, NoTurn
<1>s. x \notin severed
  BY SeveredGrows
<1>f. x # hostTurn + 1
  BY <1>t DEF Known, Approval, Fresh
<1>1. CASE Prompt
  <2>1. /\ grant # NoGrant /\ grant'.txn = grant.txn /\ grant'.ops = grant.ops
        /\ grant'.consumed = grant.consumed
    BY <1>1, <1>f, PromptGrants DEF Known
  <2>2. PromptContinue
    BY <1>1, <1>f DEF Prompt, PromptGrant, PromptApprove, PromptOrdinary, FreshGrant
  <2>3. Reserved(grant.txn) = {}
    BY <2>1, <2>2 DEF PromptContinue
  <2>4. \A t \in ToolUse : pending[t] = NoPermission
    BY <2>3 DEF Reserved, Known, ReservedByGrant
  <2> QED
    BY <1>s, <2>1, <2>4 DEF Current
<1>2. CASE ~Prompt
  <2>1. ASSUME NEW t \in ToolUse, Charged(t),
               grant' = [grant EXCEPT !.consumed = @ \cup {pending[t].op}]
        PROVE  /\ grant # NoGrant /\ grant'.txn = grant.txn /\ grant'.ops = grant.ops
               /\ grant.consumed \subseteq grant'.consumed
    BY <1>t, <2>1 DEF Charged, Grant
  <2> QED
    BY <1>2, <1>s, <2>1, GrantStep DEF Known, Current
<1> QED
  BY <1>1, <1>2

\* Whoever comes to let an operation take effect, on a reservation that nobody
\* works on yet, is alone, and the operation has not taken effect.
LEMMA NewcomerAlone ==
  ASSUME Known, Once, NEW t \in ToolUse,
         pending[t] # NoPermission, ~pending[t].claimed, direct[t] = NoDirect,
         grant.txn \notin severed, pending[t].op \in grant.ops \ grant.consumed
  PROVE  /\ \A s \in Runner : At(s, "git") => TxnOf(s) # grant.txn
         /\ \A u \in ToolUse : Permitted(u) => direct[u].txn # grant.txn
         /\ ran[grant.txn][pending[t].op] = 0
<1>1. grant # NoGrant /\ Current(grant.txn)
  BY DEF Known, ReservedByGrant, Current
<1>2. ASSUME NEW s \in Runner, At(s, "git"), TxnOf(s) = grant.txn PROVE FALSE
  <2>1. /\ pending[ToolOf(s)] # NoPermission /\ pending[ToolOf(s)].claimed
        /\ ToolOf(s) \in ToolUse
    BY <1>1, <1>2, AtGit DEF Once, Owned
  <2> QED
    BY <2>1 DEF Known, OneReservation
<1>3. ASSUME NEW u \in ToolUse, Permitted(u), direct[u].txn = grant.txn PROVE FALSE
  BY <1>1, <1>3 DEF Once, Owned, Known, OneReservation, Permitted
<1>4. ASSUME NEW u \in ToolUse, Open(u, pending[t].op) PROVE FALSE
  BY <1>4 DEF Open, Known, OneReservation
<1> QED
  BY <1>1, <1>2, <1>3, <1>4 DEF Once, Ledger

\* The entry a claim rests on.
LEMMA ClaimedEntry ==
  ASSUME Known, NEW r \in Runner, ClaimedBy(r)
  PROVE  /\ runner[r].token \in Token /\ ToolOf(r) \in ToolUse
         /\ pending[ToolOf(r)] # NoPermission
         /\ pending[ToolOf(r)].token = runner[r].token /\ ~pending[ToolOf(r)].claimed
         /\ pending[ToolOf(r)].op = OpOf(r)
         /\ grant.txn = TxnOf(r) /\ OpOf(r) \in grant.ops \ grant.consumed
<1>1. runner[r].token \in Token /\ ToolOf(r) \in Reserved(TxnOf(r))
  BY DEF ClaimedBy, Claimable, At, Known, Typed, TokensWritten, Written, TxnOf, ToolOf
<1>2. ToolOf(r) \in ToolUse /\ pending[ToolOf(r)] # NoPermission
  BY <1>1 DEF Reserved
<1>3. \E n : pending[ToolOf(r)] = [txn |-> TxnOf(r), turn |-> n, op |-> OpOf(r),
                                  token |-> runner[r].token, claimed |-> FALSE]
  BY DEF ClaimedBy, Claimable, TxnOf, OpOf, ToolOf
<1>4. /\ pending[ToolOf(r)].token = runner[r].token /\ ~pending[ToolOf(r)].claimed
      /\ pending[ToolOf(r)].op = OpOf(r)
  BY <1>3
<1>5. grant.txn = TxnOf(r) /\ OpOf(r) \in grant.ops \ grant.consumed
  BY DEF ClaimedBy, Claimable, GrantMatches, TxnOf, OpOf
<1> QED
  BY <1>1, <1>2, <1>4, <1>5

LEMMA ClaimAlone ==
  ASSUME Known, Once, NEW r \in Runner, ClaimedBy(r), TxnOf(r) \notin severed
  PROVE  /\ \A s \in Runner : At(s, "git") => TxnOf(s) # TxnOf(r)
         /\ \A u \in ToolUse : Permitted(u) => direct[u].txn # TxnOf(r)
         /\ ran[TxnOf(r)][OpOf(r)] = 0
<1>1. direct[ToolOf(r)] = NoDirect
  BY ClaimedEntry DEF Known, DirectOwns
<1> QED
  BY <1>1, ClaimedEntry, NewcomerAlone

LEMMA AdmitAlone ==
  ASSUME Known, Once, NEW t \in ToolUse, Admitted(t), grant.txn \notin severed
  PROVE  /\ \A s \in Runner : At(s, "git") => TxnOf(s) # grant.txn
         /\ \A u \in ToolUse : Permitted(u) => direct[u].txn # grant.txn
         /\ ran[grant.txn][hook[t].cmd] = 0
<1>1. /\ pending[t] # NoPermission /\ pending[t].token = NoToken /\ pending[t].op = hook[t].cmd
      /\ hook[t].cmd \in grant.ops \ grant.consumed
  BY DEF Admitted, PendingMatches, GrantMatches
<1>2. ~pending[t].claimed
  BY <1>1 DEF Known, ClaimTaken, Bound
<1>3. direct[t] = NoDirect
  BY DEF Admitted, Known, DirectOwns
<1> QED
  BY <1>1, <1>2, <1>3, NewcomerAlone

\* A reservation a runner at git works on is not retired under it, nor is that
\* of a command let through before the host has answered.
LEMMA NotRetired ==
  ASSUME Known, NEW t \in ToolUse, Retired(t)
  PROVE  /\ \A r \in Runner : At(r, "git") => pending[t].token # runner[r].token
         /\ Permitted(t) => ~Permitted(t)'
<1>1. CASE Bound(pending[t]) /\ receipt[pending[t].token] = "success"
  <2>1. \A r \in Runner : At(r, "git") => receipt[runner[r].token] = "none"
    BY DEF At, Early, Known, Untold
  <2>2. ~Permitted(t)
    BY <1>1 DEF Permitted, Bound, Known, DirectOwns
  <2> QED
    BY <1>1, <2>1, <2>2
<1>2. CASE direct[t] # NoDirect /\ direct[t].fate = "success" /\ direct'[t] = NoDirect
  <2>1. pending[t].token = NoToken
    BY <1>2 DEF Retired, Charged, Known, DirectOwns
  <2>2. \A r \in Runner : At(r, "git") => runner[r].token \in Token
    BY AtGit DEF Written
  <2> QED
    BY <1>2, <2>1, <2>2 DEF Permitted
<1> QED
  BY <1>1, <1>2 DEF Retired, Answered

LEMMA NextOwned ==
  ASSUME Known, Once, [Next]_vars PROVE Owned'
<1>1. ASSUME NEW r \in Runner, At(r, "git")', Current(TxnOf(r))'
      PROVE  (/\ pending[ToolOf(r)] # NoPermission /\ pending[ToolOf(r)].claimed
              /\ pending[ToolOf(r)].token = runner[r].token)'
  <2>t. PICK t \in ToolUse : t = ToolOf(r)
    BY <1>1, GitArrives
  <2>1. /\ runner'[r].token = runner[r].token /\ runner[r].token \in Token
        /\ ToolOf(r)' = t /\ ToolOf(r) = t
    BY <1>1, <2>t, GitArrives DEF Written
  <2>2. CASE At(r, "git")
    <3>1. TxnOf(r) \notin severed' /\ grant' # NoGrant /\ grant'.txn = TxnOf(r)
      BY <1>1, GitArrives DEF Current
    <3>2. Current(TxnOf(r)) /\ (Prompt => pending[t] = NoPermission)
      BY <2>1, <2>2, <3>1, AtGit, CurrentBefore
    <3>3. /\ pending[t] # NoPermission /\ pending[t].claimed
          /\ pending[t].token = runner[r].token
      BY <2>1, <2>2, <3>2 DEF Once, Owned
    <3>4. ~Retired(t)
      BY <2>1, <2>2, <3>3, NotRetired
    <3>5. /\ pending'[t] # NoPermission /\ pending'[t].claimed
          /\ pending'[t].token = runner[r].token
      BY <2>1, <3>1, <3>2, <3>3, <3>4, EntryStays
    <3> QED
      BY <2>1, <3>5
  <2>3. CASE ClaimedBy(r)
    <3>1. /\ pending' = [pending EXCEPT ![t].claimed = TRUE]
          /\ pending[t] # NoPermission /\ pending[t].token = runner[r].token
      BY <2>1, <2>3, ClaimedEntry DEF ClaimedBy, ToolOf
    <3>2. pending[t] \in Permission
      BY <2>1, <3>1 DEF Known, Typed, TypeOK
    <3>3. pending'[t] = [pending[t] EXCEPT !.claimed = TRUE]
      BY <2>1, <3>1 DEF Known, Typed, TypeOK
    <3>4. /\ pending'[t] \in Permission /\ pending'[t].claimed
          /\ pending'[t].token = pending[t].token
      BY <3>2, <3>3 DEF Permission
    <3> QED
      BY <2>1, <3>1, <3>4
  <2> QED
    BY <1>1, <2>2, <2>3, GitArrives
<1>2. ASSUME NEW t \in ToolUse, Permitted(t)', Current(direct[t].txn)'
      PROVE  pending'[t] # NoPermission
  <2>1. CASE Permitted(t) /\ direct'[t] = direct[t]
    <3>1. /\ direct[t].txn \notin severed' /\ grant' # NoGrant /\ grant'.txn = direct[t].txn
      BY <1>2, <2>1 DEF Current
    <3>2. Current(direct[t].txn) /\ (Prompt => pending[t] = NoPermission)
      BY <2>1, <3>1, AtPermitted, CurrentBefore
    <3>3. pending[t] # NoPermission
      BY <2>1, <3>2 DEF Once, Owned
    <3>4. ~Retired(t)
      BY <1>2, <2>1, NotRetired
    <3> QED
      BY <3>1, <3>2, <3>3, <3>4, EntryStays
  <2>2. CASE Admitted(t)
    BY <2>2 DEF Admitted, PendingMatches
  <2> QED
    BY <1>2, <2>1, <2>2, PermitArrives
<1> QED
  BY <1>1, <1>2 DEF Owned

LEMMA NextSerial ==
  ASSUME Known, Once, [Next]_vars PROVE Serial'
<1>s. severed \subseteq severed'
  BY SeveredGrows
\* A claim, and an admission, is one process's step.
<1>c. ASSUME NEW r \in Runner, ClaimedBy(r)
      PROVE  /\ \A s \in Runner : ClaimedBy(s) => s = r
             /\ \A t \in ToolUse : ~Admitted(t)
  BY <1>c DEF ClaimedBy, At, Admitted, Known, Typed, TypeOK, RunnerProcess
<1>a. ASSUME NEW t \in ToolUse, Admitted(t)
      PROVE  \A u \in ToolUse : Admitted(u) => u = t
  BY <1>a DEF Admitted, IdleHook, Known, Typed, TypeOK
<1>1. ASSUME NEW r \in Runner, NEW s \in Runner, At(r, "git")', At(s, "git")',
             TxnOf(r)' = TxnOf(s)', TxnOf(r)' \notin severed'
      PROVE  r = s
  <2>1. TxnOf(r) = TxnOf(s) /\ TxnOf(r) \notin severed
    BY <1>1, <1>s, GitArrives
  <2>2. At(r, "git") \/ ClaimedBy(r)
    BY <1>1, GitArrives
  <2>3. At(s, "git") \/ ClaimedBy(s)
    BY <1>1, GitArrives
  <2>4. CASE At(r, "git") /\ At(s, "git")
    BY <2>1, <2>4 DEF Once, Serial
  <2>5. CASE ClaimedBy(r)
    BY <1>c, <2>1, <2>3, <2>5, ClaimAlone
  <2>6. CASE ClaimedBy(s)
    BY <1>c, <2>1, <2>2, <2>6, ClaimAlone
  <2> QED
    BY <2>2, <2>3, <2>4, <2>5, <2>6
<1>2. ASSUME NEW t \in ToolUse, NEW u \in ToolUse, Permitted(t)', Permitted(u)',
             direct'[t].txn = direct'[u].txn, direct'[t].txn \notin severed'
      PROVE  t = u
  <2>1. CASE direct'[t] = direct[t] /\ Permitted(t)
    <3>1. CASE direct'[u] = direct[u] /\ Permitted(u)
      BY <1>2, <1>s, <2>1, <3>1 DEF Once, Serial
    <3>2. CASE Admitted(u) /\ direct'[u].txn = grant.txn
      BY <1>2, <1>s, <2>1, <3>2, AdmitAlone
    <3> QED
      BY <1>2, <3>1, <3>2, PermitArrives
  <2>2. CASE Admitted(t) /\ direct'[t].txn = grant.txn
    <3>1. CASE direct'[u] = direct[u] /\ Permitted(u)
      BY <1>2, <1>s, <2>2, <3>1, AdmitAlone
    <3> QED
      BY <1>2, <1>a, <2>2, <3>1, PermitArrives
  <2> QED
    BY <1>2, <2>1, <2>2, PermitArrives
<1>3. ASSUME NEW r \in Runner, NEW t \in ToolUse, At(r, "git")', Permitted(t)',
             TxnOf(r)' = direct'[t].txn, TxnOf(r)' \notin severed'
      PROVE  FALSE
  <2>1. TxnOf(r) = direct'[t].txn /\ TxnOf(r) \notin severed
    BY <1>3, <1>s, GitArrives
  <2>2. At(r, "git") \/ ClaimedBy(r)
    BY <1>3, GitArrives
  <2>3. CASE Permitted(t) /\ direct'[t] = direct[t]
    BY <2>1, <2>2, <2>3, ClaimAlone DEF Once, Serial
  <2>4. CASE Admitted(t) /\ direct'[t].txn = grant.txn
    BY <1>c, <2>1, <2>2, <2>4, AdmitAlone
  <2> QED
    BY <1>3, <2>3, <2>4, PermitArrives
<1> QED
  BY <1>1, <1>2, <1>3 DEF Serial

\* What takes effect in a step, if anything, had not taken effect before, unless
\* its transaction was severed; nobody else is about to do the same.
LEMMA EffectOnce ==
  ASSUME Known, Once, [Next]_vars, NEW x \in Turn \ severed, NEW o \in Op
  PROVE  \/ ran'[x][o] = ran[x][o]
         \/ /\ ran[x][o] = 0 /\ ran'[x][o] = 1 /\ UNCHANGED session
            /\ \A r \in Runner : At(r, "git") /\ At(r, "git")' => TxnOf(r) # x
            /\ \A t \in ToolUse : Permitted(t) /\ Permitted(t)' => direct[t].txn # x
            /\ Current(x) => \E t \in ToolUse : Open(t, o)'
<1>t. ran \in [Turn -> [Op -> 0 .. 2]]
  BY DEF Known, Typed, TypeOK
<1>e. ASSUME NEW y, NEW p, TakesEffect(y, p)
      PROVE  /\ ran'[x][o] = ran[x][o] \/ (y = x /\ p = o)
             /\ y = x /\ p = o /\ ran[x][o] = 0 => ran'[x][o] = 1
  BY <1>e, <1>t DEF TakesEffect
<1>1. ASSUME NEW r \in Runner, At(r, "git"), ~At(r, "git")', UNCHANGED <<session, direct>>,
             TxnOf(r) = x, OpOf(r) = o
      PROVE  /\ ran[x][o] = 0
             /\ \A s \in Runner : At(s, "git") /\ At(s, "git")' => TxnOf(s) # x
             /\ \A t \in ToolUse : Permitted(t) => direct[t].txn # x
             /\ Current(x) => \E t \in ToolUse : Open(t, o)'
  <2>1. /\ ran[x][o] = 0
        /\ \A s \in Runner : At(s, "git") /\ At(s, "git")' => TxnOf(s) # x
        /\ \A t \in ToolUse : Permitted(t) => direct[t].txn # x
    BY <1>1 DEF Once, Unspent, Serial
  <2>2. ASSUME Current(x) PROVE \E t \in ToolUse : Open(t, o)'
    <3>1. PICK t \in ToolUse : t = ToolOf(r)
      BY <1>1, AtGit
    <3>2. /\ runner[r].token \in Token
          /\ pending[t] # NoPermission /\ pending[t].claimed /\ pending[t].token = runner[r].token
      BY <1>1, <2>2, <3>1, AtGit DEF Once, Owned, Written
    <3>3. ticket[runner[r].token] = [txn |-> pending[t].txn, turn |-> pending[t].turn,
                                     op |-> pending[t].op, tool |-> t]
      BY <3>2 DEF Known, Agreed, TicketAgrees, Bound
    <3>4. pending[t].op = o
      BY <1>1, <3>3 DEF OpOf
    <3>5. Open(t, o)'
      BY <1>1, <3>2, <3>4 DEF Open, session
    <3> QED
      BY <3>5
  <2> QED
    BY <2>1, <2>2
<1>2. ASSUME NEW t \in ToolUse, Permitted(t), ~Permitted(t)', UNCHANGED session,
             direct'[t] # NoDirect, direct[t].txn = x, direct[t].op = o
      PROVE  /\ ran[x][o] = 0
             /\ \A s \in Runner : At(s, "git") => TxnOf(s) # x
             /\ \A u \in ToolUse : Permitted(u) /\ Permitted(u)' => direct[u].txn # x
             /\ Current(x) => \E u \in ToolUse : Open(u, o)'
  <2>1. /\ ran[x][o] = 0
        /\ \A s \in Runner : At(s, "git") => TxnOf(s) # x
        /\ \A u \in ToolUse : Permitted(u) /\ Permitted(u)' => direct[u].txn # x
    BY <1>2 DEF Once, Unspent, Serial
  <2>2. ASSUME Current(x) PROVE Open(t, o)'
    <3>1. pending[t] # NoPermission /\ pending[t].op = o
      BY <1>2, <2>2 DEF Once, Owned, Known, DirectOwns, Permitted
    <3> QED
      BY <1>2, <3>1 DEF Open, session
  <2> QED
    BY <2>1, <2>2
<1>3. ASSUME NEW r \in Runner, At(r, "git"), ~At(r, "git")', UNCHANGED <<session, direct>>,
             TakesEffect(TxnOf(r), OpOf(r)), ran'[x][o] # ran[x][o]
      PROVE  /\ ran[x][o] = 0 /\ ran'[x][o] = 1
             /\ \A s \in Runner : At(s, "git") /\ At(s, "git")' => TxnOf(s) # x
             /\ \A t \in ToolUse : Permitted(t) => direct[t].txn # x
             /\ Current(x) => \E t \in ToolUse : Open(t, o)'
  BY <1>1, <1>3, <1>e
<1>4. ASSUME NEW t \in ToolUse, Permitted(t), ~Permitted(t)', UNCHANGED session,
             direct'[t] # NoDirect, TakesEffect(direct[t].txn, direct[t].op),
             ran'[x][o] # ran[x][o]
      PROVE  /\ ran[x][o] = 0 /\ ran'[x][o] = 1
             /\ \A s \in Runner : At(s, "git") => TxnOf(s) # x
             /\ \A u \in ToolUse : Permitted(u) /\ Permitted(u)' => direct[u].txn # x
             /\ Current(x) => \E u \in ToolUse : Open(u, o)'
  BY <1>2, <1>4, <1>e
<1> QED
  BY <1>3, <1>4, EffectLeaves

LEMMA NextUnspent ==
  ASSUME Known, Once, [Next]_vars PROVE Unspent'
<1>s. severed \subseteq severed'
  BY SeveredGrows
<1>1. ASSUME NEW r \in Runner, At(r, "git")', TxnOf(r)' \notin severed'
      PROVE  ran'[TxnOf(r)'][OpOf(r)'] = 0
  <2>1. PICK x \in Turn, o \in Op : x = TxnOf(r) /\ o = OpOf(r)
    BY <1>1, GitArrives
  <2>2. TxnOf(r)' = x /\ OpOf(r)' = o /\ x \notin severed
    BY <1>1, <1>s, <2>1, GitArrives
  <2>3. CASE At(r, "git")
    <3>1. ran[x][o] = 0
      BY <2>1, <2>2, <2>3 DEF Once, Unspent
    <3>2. ran'[x][o] = ran[x][o]
      BY <1>1, <2>1, <2>2, <2>3, EffectOnce
    <3> QED
      BY <2>2, <3>1, <3>2
  <2>4. CASE ClaimedBy(r) /\ UNCHANGED ran
    BY <2>1, <2>2, <2>4, ClaimAlone
  <2> QED
    BY <1>1, <2>3, <2>4, GitArrives
<1>2. ASSUME NEW t \in ToolUse, Permitted(t)', direct'[t].txn \notin severed'
      PROVE  ran'[direct'[t].txn][direct'[t].op] = 0
  <2>1. CASE Permitted(t) /\ direct'[t] = direct[t]
    <3>1. PICK x \in Turn, o \in Op : x = direct[t].txn /\ o = direct[t].op
      BY <2>1, AtPermitted
    <3>2. x \notin severed /\ ran[x][o] = 0
      BY <1>2, <1>s, <2>1, <3>1 DEF Once, Unspent
    <3>3. ran'[x][o] = ran[x][o]
      BY <1>2, <2>1, <3>1, <3>2, EffectOnce
    <3> QED
      BY <2>1, <3>1, <3>2, <3>3
  <2>2. CASE Admitted(t) /\ direct'[t].txn = grant.txn /\ direct'[t].op = hook[t].cmd
    <3>1. UNCHANGED ran
      BY <2>2 DEF Admitted
    <3> QED
      BY <1>2, <1>s, <2>2, <3>1, AdmitAlone
  <2> QED
    BY <1>2, <2>1, <2>2, PermitArrives
<1> QED
  BY <1>1, <1>2 DEF Unspent

LEMMA NextAtMostOnce ==
  ASSUME Known, Once, [Next]_vars PROVE AtMostOnce'
<1> SUFFICES ASSUME NEW x \in Turn \ severed', NEW o \in Op PROVE ran'[x][o] <= 1
  BY DEF AtMostOnce
<1>1. x \in Turn \ severed
  BY SeveredGrows
<1> QED
  BY <1>1, EffectOnce DEF Once, AtMostOnce

\* An entry that is worked on stays so until it is retired.
LEMMA StaysOpen ==
  ASSUME Known, [Next]_vars, ~Prompt, grant' # NoGrant,
         NEW t \in ToolUse, NEW o \in Op, Open(t, o)
  PROVE  \/ Open(t, o)'
         \/ Retired(t) /\ pending[t].op = o
<1>1. pending[t] # NoPermission /\ pending[t].op = o /\ (pending[t].claimed \/ direct[t] # NoDirect)
  BY DEF Open
<1>2. CASE PostDirect(t)
  <2>1. Charged(t) /\ pending[t].txn = grant.txn
    BY <1>1 DEF Charged, Known, ReservedByGrant
  <2>2. ~ClearTransaction(pending[t].txn)
    BY <2>1 DEF ClearTransaction, Charged
  <2>3. /\ direct[t] # NoDirect /\ direct[t].fate = "success" /\ direct'[t] = NoDirect
        /\ Retire(pending[t].op) /\ pending' = [pending EXCEPT ![t] = NoPermission]
    BY <1>2, <2>1, <2>2 DEF PostDirect, Known, Typed, TypeOK
  <2> QED
    BY <1>1, <2>1, <2>3 DEF Retired, Answered
<1>3. CASE ~PostDirect(t)
  <2>1. direct[t] # NoDirect => direct'[t] # NoDirect
    <3>1. CASE RunDirect(t)
      <4>1. /\ direct[t] \in Direct
            /\ \E f \in {"success", "failure"} : direct'[t] = [direct[t] EXCEPT !.fate = f]
        BY <3>1 DEF RunDirect, Known, Typed, TypeOK
      <4> QED
        BY <4>1 DEF Direct
    <3>2. CASE AuthorizePermission(t)
      BY <3>2 DEF AuthorizePermission, Known, DirectOwns
    <3> QED
      BY <1>3, <3>1, <3>2, DirectAlone DEF Known
  <2> QED
    BY <1>1, <2>1, EntryStays DEF Open
<1> QED
  BY <1>2, <1>3

LEMMA NextLedger ==
  ASSUME Known, Once, [Next]_vars PROVE Ledger'
<1> SUFFICES ASSUME grant' # NoGrant, grant'.txn \notin severed',
                    NEW o \in grant'.ops \ grant'.consumed, ran'[grant'.txn][o] # 0
             PROVE  \E t \in ToolUse : Open(t, o)'
  BY DEF Ledger
<1>1. PICK x \in Turn : x = grant'.txn
  <2>1. grant' \in Grant
    BY NextTyped DEF Known, Typed, TypeOK
  <2> QED
    BY <2>1 DEF Grant
<1>2. o \in Op /\ x \in Turn \ severed
  <2>1. grant' \in Grant
    BY NextTyped DEF Known, Typed, TypeOK
  <2> QED
    BY <1>1, <2>1, SeveredGrows DEF Grant
<1>3. CASE approved[x] = {}
  <2>1. ran[x][o] = 0
    <3>1. ran[x][o] \in 0 .. 2
      BY <1>2 DEF Known, Typed, TypeOK
    <3> QED
      BY <1>2, <1>3, <3>1 DEF Known, Approval, OnlyApproved
  <2>2. ran'[x][o] > 0
    <3>1. ran'[x][o] \in 0 .. 2
      BY <1>2, NextTyped DEF Known, Typed, TypeOK
    <3> QED
      BY <1>1, <3>1
  <2>3. UNCHANGED session
    BY <1>2, <2>1, <2>2, EffectOnce
  <2>4. grant # NoGrant /\ grant.txn = x /\ o \in grant.ops
    BY <1>1, <2>3 DEF session
  <2> QED
    BY <1>3, <2>4 DEF Known, Approval, GrantApproved
<1>4. CASE approved[x] # {}
  <2>1. /\ Current(x) /\ o \in grant.ops \ grant.consumed
        /\ Prompt => \A t \in ToolUse : pending[t] = NoPermission
    BY <1>1, <1>2, <1>4, CurrentBefore
  <2>2. CASE ran[x][o] = 0
    BY <1>1, <1>2, <2>1, <2>2, EffectOnce
  <2>3. CASE ran[x][o] # 0
    <3>1. PICK t \in ToolUse : Open(t, o)
      BY <2>1, <2>3 DEF Once, Ledger, Current
    <3>2. ~Prompt
      BY <2>1, <3>1 DEF Open
    <3>3. ~(Retired(t) /\ pending[t].op = o)
      <4>1. grant \in Grant
        BY <2>1 DEF Current, Known, Typed, TypeOK
      <4>2. Retire(o) => o \in grant'.consumed
        BY <4>1 DEF Retire, Grant
      <4> QED
        BY <4>2 DEF Retired
    <3> QED
      BY <1>2, <3>1, <3>2, <3>3, StaysOpen
  <2> QED
    BY <2>2, <2>3
<1> QED
  BY <1>3, <1>4

LEMMA SpecOnce == Spec => []Once
<1>1. Init => Once
  BY DEF Init, Once, Owned, Serial, Unspent, Ledger, AtMostOnce, At, IdleRunner, Permitted
<1>2. Known /\ Once /\ [Next]_vars => Once'
  BY NextOwned, NextSerial, NextUnspent, NextLedger, NextAtMostOnce DEF Once
<1>3. Spec => []Known
  BY SpecTyped, SpecReserved, SpecAgreed, SpecTaken, SpecUntold, SpecDirectOwns, SpecApproval, PTL
     DEF Known
<1> QED
  BY <1>1, <1>2, <1>3, PTL DEF Spec

\* Through retries, replays, deaths before and after a receipt, failed writes and
\* revocations, no operation of a transaction takes effect twice, unless the
\* transaction was continued while a reservation of it was open.
THEOREM AlwaysAtMostOnce == Spec => []AtMostOnce
  BY SpecOnce, PTL DEF Once

\* Two git commands of one transaction never run side by side (same exception).
THEOREM GitAlwaysSerial == Spec => []GitIsSerial
<1>1. Once => GitIsSerial
  BY DEF Once, Serial, GitIsSerial, TxnOf
<1> QED
  BY <1>1, SpecOnce, PTL
------------------------------------------------------------------------------
(* The one-slot transaction of TransactionContract.  Everything above is    *)
(* needed for the mapping: that the table has one entry makes the slot, and *)
(* that whoever comes to the effect is alone makes its two sides agree.     *)

\* Somebody is about to let an operation take effect.
Someone(x, o) ==
    \/ \E r \in Runner : At(r, "git") /\ TxnOf(r) = x /\ OpOf(r) = o
    \/ \E t \in ToolUse : Permitted(t) /\ direct[t].txn = x /\ direct[t].op = o

LEMMA AdmissionsAre ==
  /\ DOMAIN Admissions = Turn /\ Admissions = [x \in Turn |-> Admissions[x]]
  /\ \A x \in Turn : \A o : o \in Admissions[x] <=> Someone(x, o)
BY DEF Admissions, Someone, TxnOf, OpOf, Permitted

LEMMA AdmissionsThen ==
  /\ DOMAIN Admissions' = Turn /\ Admissions' = [x \in Turn |-> Admissions'[x]]
  /\ \A x \in Turn : \A o : o \in Admissions'[x] <=> Someone(x, o)'
BY DEF Admissions, Someone, TxnOf, OpOf, Permitted

LEMMA ExceptIs ==
  ASSUME NEW S, NEW g, g = [y \in S |-> g[y]], NEW x \in S, NEW e
  PROVE  [g EXCEPT ![x] = e] = [y \in S |-> IF y = x THEN e ELSE g[y]]
<1>1. DOMAIN g = S
  OBVIOUS
<1> QED
  BY <1>1

\* Two families of sets with the same members are one.
LEMMA SameAdmissions ==
  ASSUME NEW f, f = [x \in Turn |-> f[x]],
         \A x \in Turn : \A o : Someone(x, o)' <=> o \in f[x]
  PROVE  Admissions' = f
<1>1. ASSUME NEW x \in Turn PROVE Admissions'[x] = f[x]
  <2> DEFINE A == Admissions'[x]
             B == f[x]
  <2>1. \A o : o \in A <=> o \in B
    BY AdmissionsThen
  <2> HIDE DEF A, B
  <2>2. A = B
    BY <2>1, Zenon
  <2> QED
    BY <2>2 DEF A, B
<1> QED
  BY <1>1, AdmissionsThen

\* Who stays at the effect stays there for the same operation.
LEMMA StaysSomeone ==
  ASSUME Known, [Next]_vars, NEW x, NEW o
  PROVE  /\ \A r \in Runner : At(r, "git") /\ At(r, "git")' =>
               ((TxnOf(r) = x /\ OpOf(r) = o) <=> (TxnOf(r)' = x /\ OpOf(r)' = o))
         /\ \A t \in ToolUse : Permitted(t) /\ Permitted(t)' => direct'[t] = direct[t]
<1>1. ASSUME NEW t \in ToolUse, Permitted(t) PROVE ~Admitted(t)
  BY <1>1 DEF Permitted, Admitted, Known, DirectOwns
<1> QED
  BY <1>1, GitArrives, PermitArrives

LEMMA AdmissionsStay ==
  ASSUME Known, [Next]_vars,
         \A r \in Runner : At(r, "git")' <=> At(r, "git"),
         \A t \in ToolUse : Permitted(t)' <=> Permitted(t)
  PROVE  Admissions' = Admissions
<1>1. ASSUME NEW x \in Turn, NEW o PROVE Someone(x, o)' <=> Someone(x, o)
  BY StaysSomeone DEF Someone
<1> QED
  BY <1>1, AdmissionsAre, SameAdmissions

\* Somebody comes.
LEMMA AdmissionArrives ==
  ASSUME Known, [Next]_vars, NEW x \in Turn, NEW o,
         \/ \E r \in Runner : /\ ~At(r, "git") /\ At(r, "git")' /\ TxnOf(r)' = x /\ OpOf(r)' = o
                              /\ \A s \in Runner : s # r => (At(s, "git")' <=> At(s, "git"))
                              /\ \A t \in ToolUse : Permitted(t)' <=> Permitted(t)
         \/ \E t \in ToolUse : /\ ~Permitted(t) /\ Permitted(t)'
                               /\ direct'[t].txn = x /\ direct'[t].op = o
                               /\ \A u \in ToolUse : u # t => (Permitted(u)' <=> Permitted(u))
                               /\ \A r \in Runner : At(r, "git")' <=> At(r, "git")
  PROVE  Admissions' = [Admissions EXCEPT ![x] = @ \cup {o}]
<1> DEFINE f == [y \in Turn |-> IF y = x THEN Admissions[x] \cup {o} ELSE Admissions[y]]
<1>1. ASSUME NEW y \in Turn, NEW p PROVE Someone(y, p)' <=> Someone(y, p) \/ (y = x /\ p = o)
  BY StaysSomeone DEF Someone
<1>2. \A y \in Turn : \A p : p \in f[y] <=> p \in Admissions[y] \/ (y = x /\ p = o)
  BY AdmissionsAre
<1>3. f = [y \in Turn |-> f[y]]
  OBVIOUS
<1>e. f = [Admissions EXCEPT ![x] = @ \cup {o}]
  <2>1. \A e : [Admissions EXCEPT ![x] = e]
                 = [y \in Turn |-> IF y = x THEN e ELSE Admissions[y]]
    BY AdmissionsAre, ExceptIs
  <2> QED
    BY <2>1, Zenon
<1> HIDE DEF f
<1>4. Admissions' = f
  BY <1>1, <1>2, <1>3, AdmissionsAre, SameAdmissions
<1> QED
  BY <1>4, <1>e

\* Somebody goes; in a transaction that is not severed nobody else was there.
LEMMA AdmissionLeaves ==
  ASSUME Known, Once, [Next]_vars, NEW x \in Turn, NEW o,
         \/ \E r \in Runner : /\ At(r, "git") /\ ~At(r, "git")' /\ TxnOf(r) = x /\ OpOf(r) = o
                              /\ \A s \in Runner : s # r => (At(s, "git")' <=> At(s, "git"))
                              /\ \A t \in ToolUse : Permitted(t)' <=> Permitted(t)
         \/ \E t \in ToolUse : /\ Permitted(t) /\ ~Permitted(t)'
                               /\ direct[t].txn = x /\ direct[t].op = o
                               /\ \A u \in ToolUse : u # t => (Permitted(u)' <=> Permitted(u))
                               /\ \A r \in Runner : At(r, "git")' <=> At(r, "git")
  PROVE  /\ o \in Admissions[x]
         /\ \/ Admissions' = [Admissions EXCEPT ![x] = @ \ {o}]
            \/ x \in severed /\ Admissions' = Admissions
<1> DEFINE f == [y \in Turn |-> IF y = x THEN Admissions[x] \ {o} ELSE Admissions[y]]
<1>1. ASSUME NEW y \in Turn, NEW p, y # x \/ p # o PROVE Someone(y, p)' <=> Someone(y, p)
  BY <1>1, StaysSomeone DEF Someone
<1>2. Someone(x, o)
  BY DEF Someone
<1>3. ASSUME Someone(x, o)' PROVE x \in severed
  BY <1>3, StaysSomeone DEF Someone, Once, Serial
<1>4. \A y \in Turn : \A p : p \in f[y] <=> p \in Admissions[y] /\ ~(y = x /\ p = o)
  BY AdmissionsAre
<1>5. f = [y \in Turn |-> f[y]]
  OBVIOUS
<1>e. f = [Admissions EXCEPT ![x] = @ \ {o}]
  BY AdmissionsAre, ExceptIs
<1> HIDE DEF f
<1>6. ASSUME ~Someone(x, o)' PROVE Admissions' = f
  BY <1>1, <1>4, <1>5, <1>6, AdmissionsAre, SameAdmissions
<1>7. ASSUME Someone(x, o)' PROVE Admissions' = Admissions
  BY <1>1, <1>2, <1>7, AdmissionsAre, SameAdmissions
<1> QED
  BY <1>2, <1>3, <1>6, <1>7, <1>e, AdmissionsAre

\* The slot holds the one operation of the table.
LEMMA SlotIs ==
  ASSUME OneReservation
  PROVE  /\ (\A t \in ToolUse : pending[t] = NoPermission) <=> Slot = {}
         /\ \A t \in ToolUse : pending[t] # NoPermission => Slot = {pending[t].op}
BY DEF Slot, OneReservation

LEMMA SlotThen ==
  ASSUME OneReservation'
  PROVE  /\ (\A t \in ToolUse : pending'[t] = NoPermission) <=> Slot' = {}
         /\ \A t \in ToolUse : pending'[t] # NoPermission => Slot' = {pending'[t].op}
BY DEF Slot, OneReservation
\* The steps at which somebody comes to the effect or goes.
LEMMA AdmissionsFrame ==
  ASSUME Known, [Next]_vars,
         ~\E r \in Runner : Claim(r) \/ RunGit(r) \/ RunnerDies(r),
         ~\E t \in ToolUse : AuthorizePermission(t) \/ RunDirect(t) \/ PostDirect(t)
  PROVE  Admissions' = Admissions
<1>1. ASSUME NEW r \in Runner PROVE At(r, "git")' <=> At(r, "git")
  <2>1. CASE \/ RunnerStart(r) \/ MoveTicket(r) \/ Validate(r) \/ WriteReceipt(r) \/ Finish(r)
             \/ RunnerRevoke(r) \/ RunnerSweep(r) \/ ReleaseLease(r)
    BY <2>1 DEF At, RunnerStart, MoveTicket, Validate, WriteReceipt, Finish, RunnerRevoke,
       RunnerSweep, ReleaseLease, RunnerGoto, IdleRunner, RunnerProcess, Known, Typed, TypeOK
  <2> QED
    BY <2>1, RunnerAlone DEF RunnerStep, At, Known
<1>2. ASSUME NEW t \in ToolUse PROVE Permitted(t)' <=> Permitted(t)
  BY DirectAlone DEF Permitted, Known
<1> QED
  BY <1>1, <1>2, AdmissionsStay

\* The rest of the session, seen through the mapping.
Kept == UNCHANGED <<approved, ran, severed>>

LEMMA ContractStutters ==
  ASSUME Known, Known', UNCHANGED <<grant, pending>>, Kept, Admissions' = Admissions
  PROVE  UNCHANGED Contract!vars
BY DEF Contract!vars, Kept, CurrentTxn, RetiredOps, Slot

LEMMA ClearWithdraws ==
  ASSUME Known, Known', NEW x \in Turn, ClearTransaction(x), Kept,
         \/ Admissions' = Admissions
         \/ /\ grant # NoGrant /\ grant.txn = x
            /\ \E o : Admissions' = [Admissions EXCEPT ![x] = @ \ {o}]
  PROVE  [Contract!Next]_(Contract!vars)
<1>t. grant \in Grant \cup {NoGrant}
  BY DEF Known, Typed, TypeOK
<1>1. CASE grant # NoGrant /\ grant.txn = x
  <2>1. grant' = NoGrant
    BY <1>1 DEF ClearTransaction
  <2>2. \A t \in ToolUse : pending'[t] = NoPermission
    BY <1>1 DEF ClearTransaction, Reserved, Known, ReservedByGrant
  <2>3. /\ CurrentTxn = x /\ CurrentTxn' = NoTurn /\ RetiredOps' = {} /\ Slot' = {}
        /\ x # NoTurn
    BY <1>1, <2>1, <2>2, SlotThen DEF CurrentTxn, RetiredOps, Known, Turn, NoTurn
  <2>4. \E A \in SUBSET Admissions[x] : Admissions' = [Admissions EXCEPT ![x] = A]
    <3>1. [Admissions EXCEPT ![x] = Admissions[x]] = Admissions
      BY AdmissionsAre
    <3>2. Admissions[x] \in SUBSET Admissions[x]
      OBVIOUS
    <3>3. \A o : Admissions[x] \ {o} \in SUBSET Admissions[x]
      OBVIOUS
    <3>4. CASE Admissions' = Admissions
      BY <3>1, <3>2, <3>4
    <3>5. ASSUME NEW o, Admissions' = [Admissions EXCEPT ![x] = @ \ {o}]
          PROVE  \E A \in SUBSET Admissions[x] : Admissions' = [Admissions EXCEPT ![x] = A]
      BY <3>3, <3>5
    <3> QED
      BY <3>4, <3>5
  <2>5. Contract!Withdraw
    BY <2>3, <2>4 DEF Contract!Withdraw, Kept
  <2> QED
    BY <2>5 DEF Contract!Next
<1>2. CASE ~(grant # NoGrant /\ grant.txn = x)
  <2>1. grant' = grant
    BY <1>2 DEF ClearTransaction
  <2>2. \A t \in ToolUse : t \notin Reserved(x)
    BY <1>2 DEF Reserved, Known, ReservedByGrant
  <2>3. pending' = pending
    BY <2>2 DEF ClearTransaction, Known, Typed, TypeOK
  <2> QED
    BY <1>2, <2>1, <2>3, ContractStutters
<1> QED
  BY <1>1, <1>2

LEMMA RetiredRetires ==
  ASSUME Known, Known', Honest, NEW t \in ToolUse, Retired(t), Kept, Admissions' = Admissions
  PROVE  Contract!Next
<1> DEFINE p == pending[t]
           x == grant.txn
           o == p.op
<1>1. /\ grant \in Grant /\ grant # NoGrant /\ p \in Permission /\ p # NoPermission /\ p.txn = x
  BY DEF Retired, Charged, Known, Typed, TypeOK
<1>2. x \in Turn /\ o \in Op
  BY <1>1 DEF Grant, Permission
<1>3. ran[x][o] > 0
  BY <1>1, RetiredIsDone DEF Known, Done
<1>4. Slot = {o}
  BY <1>1, SlotIs DEF Known
<1>5. Slot' = {}
  <2>1. \A u \in ToolUse : pending'[u] = NoPermission
    <3>1. \A u \in ToolUse : u # t => pending[u] = NoPermission
      BY <1>1 DEF Known, OneReservation
    <3> QED
      BY <3>1 DEF Retired, Known, Typed, TypeOK
  <2> QED
    BY <2>1, SlotThen DEF Known
<1>6. CurrentTxn = x /\ x # NoTurn /\ RetiredOps = grant.consumed
  BY <1>1, <1>2 DEF CurrentTxn, RetiredOps, Turn, NoTurn
<1>7. \/ RetiredOps' = RetiredOps \cup {o} /\ CurrentTxn' = CurrentTxn
      \/ RetiredOps' = {} /\ CurrentTxn' = NoTurn
  <2>1. \/ grant' = NoGrant
        \/ grant' = [grant EXCEPT !.consumed = @ \cup {o}] /\ grant' # NoGrant
    BY DEF Retired, Retire, Usable
  <2>2. CASE grant' = NoGrant
    BY <2>2 DEF CurrentTxn, RetiredOps
  <2>3. CASE grant' = [grant EXCEPT !.consumed = @ \cup {o}] /\ grant' # NoGrant
    <3>1. grant'.txn = x /\ grant'.consumed = grant.consumed \cup {o}
      BY <1>1, <2>3 DEF Grant
    <3> QED
      BY <1>6, <2>3, <3>1 DEF CurrentTxn, RetiredOps
  <2> QED
    BY <2>1, <2>2, <2>3
<1> HIDE DEF x, o, p
<1>8. Contract!Retire(o)
  BY <1>3, <1>4, <1>5, <1>6, <1>7 DEF Contract!Retire, Kept
<1> QED
  BY <1>2, <1>8 DEF Contract!Next

\* Prompts: a new transaction, the same one again, or none.
LEMMA PromptContract ==
  ASSUME Known, Known', [Next]_vars, Prompt
  PROVE  [Contract!Next]_(Contract!vars)
<1>t. grant \in Grant \cup {NoGrant} /\ (grant # NoGrant => grant.txn \in Turn)
  BY DEF Known, Typed, TypeOK, Grant
<1>1. /\ \A t \in ToolUse : pending'[t] = NoPermission
      /\ UNCHANGED <<ran, runner, ticket, direct>>
      /\ hostTurn + 1 \in Turn
  <2>1. NewTurn
    BY DEF Prompt, PromptGrant, PromptApprove, PromptContinue, PromptOrdinary
  <2>2. hostTurn + 1 \in Turn
    BY PromptGrants DEF Known
  <2> QED
    BY <2>1, <2>2 DEF NewTurn, files
<1>2. Slot' = {}
  BY <1>1, SlotThen DEF Known
<1>3. Admissions' = Admissions
  <2>1. \A r \in Runner : At(r, "git")' <=> At(r, "git")
    BY <1>1 DEF At
  <2>2. \A t \in ToolUse : Permitted(t)' <=> Permitted(t)
    BY <1>1 DEF Permitted
  <2> QED
    BY <2>1, <2>2, AdmissionsStay
<1>4. CASE PromptGrant \/ PromptApprove
  <2> DEFINE x == hostTurn + 1
  <2>1. PICK S, b : S \in SUBSET Op /\ S # {} /\ b \in BOOLEAN /\ FreshGrant(S, b)
    <3>1. CASE PromptGrant
      <4>1. PICK S \in Requests : FreshGrant(S, FALSE)
        BY <3>1 DEF PromptGrant
      <4> QED
        BY <4>1, ConstantAssumption
    <3>2. CASE PromptApprove
      <4>1. waiting.op \in Op
        BY <3>2 DEF PromptApprove, WaitingUsable, Known, Typed, TypeOK, Waiting
      <4> QED
        BY <3>2, <4>1 DEF PromptApprove
    <3> QED
      BY <1>4, <3>1, <3>2
  <2>2. /\ grant' = [txn |-> x, turn |-> x, ops |-> S, consumed |-> {}, single |-> b]
        /\ approved' = [approved EXCEPT ![x] = S] /\ severed' = severed
    BY <2>1 DEF FreshGrant
  <2>3. grant' # NoGrant
    <3>1. grant' \in Grant
      BY <1>1, <2>1, <2>2 DEF Grant
    <3> QED
      BY <3>1, ConstantAssumption
  <2>4. CurrentTxn' = x /\ RetiredOps' = {}
    BY <2>2, <2>3 DEF CurrentTxn, RetiredOps
  <2>5. approved[x] = {}
    <3>1. x > hostTurn
      BY DEF Known, Typed, TypeOK, Turn, NoTurn
    <3> QED
      BY <1>1, <3>1 DEF Known, Approval, Fresh
  <2> HIDE DEF x
  <2>6. Contract!Begin(x, S)
    BY <1>1, <1>2, <1>3, <2>1, <2>2, <2>4, <2>5 DEF Contract!Begin
  <2>7. x \in Turn
    BY <1>1 DEF x
  <2> QED
    BY <2>1, <2>6, <2>7 DEF Contract!Next
<1>5. CASE PromptContinue
  <2>1. /\ grant # NoGrant /\ grant' = [grant EXCEPT !.turn = hostTurn + 1]
        /\ severed' = severed \cup {y \in {grant.txn} : Reserved(y) # {}}
        /\ approved' = approved
    BY <1>5 DEF PromptContinue, Continuable, Usable
  <2>2. grant' \in Grant /\ grant'.txn = grant.txn /\ grant'.consumed = grant.consumed
    BY <1>t, <1>1, <2>1 DEF Grant
  <2>3. /\ CurrentTxn' = CurrentTxn /\ RetiredOps' = RetiredOps /\ CurrentTxn = grant.txn
        /\ CurrentTxn # NoTurn
    BY <1>t, <2>1, <2>2, ConstantAssumption DEF CurrentTxn, RetiredOps, Turn, NoTurn
  <2>4. Reserved(grant.txn) # {} <=> Slot # {}
    <3>1. Reserved(grant.txn) # {} <=> \E t \in ToolUse : pending[t] # NoPermission
      BY DEF Reserved, Known, ReservedByGrant
    <3> QED
      BY <3>1, SlotIs DEF Known
  <2>5. CASE Slot # {}
    <3>1. severed' = severed \cup {CurrentTxn}
      BY <2>1, <2>3, <2>4, <2>5
    <3>2. Contract!Sever
      BY <1>1, <1>2, <1>3, <2>1, <2>3, <2>5, <3>1 DEF Contract!Sever
    <3> QED
      BY <3>2 DEF Contract!Next
  <2>6. CASE Slot = {}
    <3>1. severed' = severed
      BY <2>1, <2>4, <2>6
    <3> QED
      BY <1>1, <1>2, <1>3, <2>1, <2>3, <2>6, <3>1 DEF Contract!vars
  <2> QED
    BY <2>5, <2>6
<1>6. CASE PromptOrdinary
  <2>1. grant' = NoGrant /\ UNCHANGED <<approved, severed>>
    BY <1>6 DEF PromptOrdinary
  <2>2. CurrentTxn' = NoTurn /\ RetiredOps' = {}
    BY <2>1 DEF CurrentTxn, RetiredOps
  <2>3. CASE grant = NoGrant
    <3>1. Slot = {}
      BY <2>3, SlotIs DEF Known, ReservedByGrant
    <3>2. CurrentTxn = NoTurn /\ RetiredOps = {}
      BY <2>3 DEF CurrentTxn, RetiredOps
    <3> QED
      BY <1>1, <1>2, <1>3, <2>1, <2>2, <3>1, <3>2 DEF Contract!vars
  <2>4. CASE grant # NoGrant
    <3>1. CurrentTxn # NoTurn /\ CurrentTxn \in Turn
      BY <1>t, <2>4 DEF CurrentTxn, Turn, NoTurn
    <3>2. [Admissions EXCEPT ![CurrentTxn] = Admissions[CurrentTxn]] = Admissions
      BY AdmissionsAre
    <3>3. Contract!Withdraw
      BY <1>1, <1>2, <1>3, <2>1, <2>2, <3>1, <3>2 DEF Contract!Withdraw
    <3> QED
      BY <3>3 DEF Contract!Next
  <2> QED
    BY <2>3, <2>4
<1> QED
  BY <1>4, <1>5, <1>6 DEF Prompt

LEMMA ContractStep ==
  ASSUME Known, Known', Once, Honest, [Next]_vars
  PROVE  [Contract!Next]_(Contract!vars)
<1>t. /\ runner \in [Runner -> RunnerProcess] /\ direct \in [ToolUse -> Direct \cup {NoDirect}]
      /\ pending \in [ToolUse -> Permission \cup {NoPermission}]
      /\ grant \in Grant \cup {NoGrant}
  BY DEF Known, Typed, TypeOK
<1>1. CASE Prompt
  BY <1>1, PromptContract
<1>2. CASE Stop
  <2>1. Admissions' = Admissions
    <3>1. \A r \in Runner : At(r, "git")' <=> At(r, "git")
      BY <1>2 DEF Stop, At
    <3>2. \A t \in ToolUse : Permitted(t)' <=> Permitted(t)
      BY <1>2 DEF Stop, Permitted
    <3> QED
      BY <3>1, <3>2, AdmissionsStay
  <2>2. Slot = {} /\ Slot' = {}
    BY <1>2, SlotIs, SlotThen DEF Stop, Known
  <2>3. Kept /\ ran' = ran /\ CurrentTxn' = NoTurn /\ RetiredOps' = {}
    BY <1>2 DEF Stop, history, Kept, CurrentTxn, RetiredOps
  <2>4. CASE grant = NoGrant
    BY <2>1, <2>2, <2>3, <2>4 DEF Contract!vars, Kept, CurrentTxn, RetiredOps
  <2>5. CASE grant # NoGrant
    <3>1. CurrentTxn # NoTurn
      BY <1>t, <2>5 DEF CurrentTxn, Turn, NoTurn, Grant
    <3>2. [Admissions EXCEPT ![CurrentTxn] = Admissions[CurrentTxn]] = Admissions
      BY AdmissionsAre
    <3>3. Contract!Withdraw
      BY <2>1, <2>2, <2>3, <3>1, <3>2 DEF Contract!Withdraw, Kept
    <3> QED
      BY <3>3 DEF Contract!Next
  <2> QED
    BY <2>4, <2>5
<1>3. ASSUME NEW r \in Runner, Claim(r) PROVE [Contract!Next]_(Contract!vars)
  <2>1. /\ Kept /\ UNCHANGED <<grant, direct>> /\ ~At(r, "git")
        /\ \A s \in Runner : s # r => (At(s, "git")' <=> At(s, "git"))
        /\ \A t \in ToolUse : Permitted(t)' <=> Permitted(t)
    BY <1>t, <1>3 DEF Claim, At, RunnerGoto, history, Kept, Permitted
  <2>2. CASE ~At(r, "git")'
    <3>1. Admissions' = Admissions
      BY <2>1, <2>2, AdmissionsStay
    <3>2. pending' = pending
      BY <1>t, <1>3, <2>2 DEF Claim, At, RunnerGoto, RunnerProcess
    <3> QED
      BY <2>1, <3>1, <3>2, ContractStutters
  <2>3. CASE At(r, "git")'
    <3>1. /\ ClaimedBy(r) /\ TxnOf(r)' = TxnOf(r) /\ OpOf(r)' = OpOf(r)
          /\ TxnOf(r) \in Turn /\ OpOf(r) \in Op
      BY <2>1, <2>3, GitArrives
    <3> DEFINE x == TxnOf(r)
               o == OpOf(r)
    <3>2. Admissions' = [Admissions EXCEPT ![x] = @ \cup {o}]
      BY <2>1, <2>3, <3>1, AdmissionArrives
    <3>3. /\ ToolOf(r) \in ToolUse /\ pending[ToolOf(r)] # NoPermission
          /\ pending[ToolOf(r)].op = o /\ grant # NoGrant
          /\ grant.txn = x /\ o \in grant.ops \ grant.consumed
      BY <3>1, ClaimedEntry DEF ClaimedBy, Claimable
    <3>4. CurrentTxn = x /\ x # NoTurn /\ o \in Slot \ RetiredOps
      BY <3>1, <3>3, SlotIs DEF Known, CurrentTxn, RetiredOps, Turn, NoTurn
    <3>5. UNCHANGED <<CurrentTxn, RetiredOps>>
      BY <2>1 DEF CurrentTxn, RetiredOps
    <3>6. Slot' = Slot
      <4>1. pending'[ToolOf(r)] = [pending[ToolOf(r)] EXCEPT !.claimed = TRUE]
        BY <1>t, <3>1, <3>3 DEF ClaimedBy, ToolOf
      <4>2. pending'[ToolOf(r)].op = o
        BY <1>t, <3>3, <4>1 DEF Permission
      <4>3. pending'[ToolOf(r)] # NoPermission
        <5>1. pending[ToolOf(r)] \in Permission
          BY <1>t, <3>3
        <5>2. pending'[ToolOf(r)] \in Permission
          BY <4>1, <5>1 DEF Permission
        <5> QED
          BY <5>2, ConstantAssumption
      <4>4. PICK u \in ToolUse : u = ToolOf(r)
        BY <3>3
      <4>5. pending[u] # NoPermission /\ pending'[u] # NoPermission
            /\ pending[u].op = o /\ pending'[u].op = o
        BY <3>3, <4>2, <4>3, <4>4
      <4> HIDE DEF o
      <4>6. Slot = {pending[u].op}
        BY <4>5, SlotIs DEF Known
      <4>7. Slot' = {pending'[u].op}
        BY <4>5, SlotThen DEF Known
      <4> QED
        BY <4>5, <4>6, <4>7
    <3>7. ASSUME x \notin severed PROVE Admissions[x] = {} /\ ran[x][o] = 0
      <4>1. /\ \A s \in Runner : At(s, "git") => TxnOf(s) # x
            /\ \A u \in ToolUse : Permitted(u) => direct[u].txn # x
            /\ ran[x][o] = 0
        BY <3>1, <3>7, ClaimAlone
      <4>2. \A p : p \notin Admissions[x]
        BY <3>1, <4>1, AdmissionsAre DEF Someone
      <4> QED
        BY <4>1, <4>2
    <3> HIDE DEF x, o
    <3>8. Contract!Admit(o)
      BY <2>1, <3>2, <3>4, <3>5, <3>6, <3>7 DEF Contract!Admit, Kept
    <3>9. o \in Op
      BY <3>1 DEF o
    <3> QED
      BY <3>8, <3>9 DEF Contract!Next
  <2> QED
    BY <2>2, <2>3
<1>4. ASSUME NEW t \in ToolUse, AuthorizePermission(t) PROVE [Contract!Next]_(Contract!vars)
  <2>1. /\ Kept /\ UNCHANGED <<grant, pending, runner>> /\ direct[t] = NoDirect
        /\ \A r \in Runner : At(r, "git")' <=> At(r, "git")
        /\ \A u \in ToolUse : u # t => (Permitted(u)' <=> Permitted(u))
        /\ ~Permitted(t)
    BY <1>t, <1>4 DEF AuthorizePermission, At, session, history, Kept, Permitted, Known, DirectOwns
  <2>2. CASE ~Permitted(t)'
    <3>1. Admissions' = Admissions
      BY <2>1, <2>2, AdmissionsStay
    <3> QED
      BY <2>1, <3>1, ContractStutters
  <2>3. CASE Permitted(t)'
    <3>1. Admitted(t) /\ direct'[t].txn = grant.txn /\ direct'[t].op = hook[t].cmd
      BY <2>1, <2>3, PermitArrives
    <3> DEFINE x == grant.txn
               o == hook[t].cmd
    <3>2. /\ grant # NoGrant /\ o \in grant.ops \ grant.consumed
          /\ pending[t] # NoPermission /\ pending[t].op = o
      BY <3>1 DEF Admitted, PendingMatches, GrantMatches
    <3>3. x \in Turn /\ o \in Op
      BY <1>t, <3>2 DEF Grant
    <3>4. Admissions' = [Admissions EXCEPT ![x] = @ \cup {o}]
      BY <2>1, <2>3, <3>1, <3>3, AdmissionArrives
    <3>5. CurrentTxn = x /\ x # NoTurn /\ o \in Slot \ RetiredOps
      BY <3>2, <3>3, SlotIs DEF Known, CurrentTxn, RetiredOps, Turn, NoTurn
    <3>6. UNCHANGED <<CurrentTxn, RetiredOps, Slot>>
      BY <2>1 DEF CurrentTxn, RetiredOps, Slot
    <3>7. ASSUME x \notin severed PROVE Admissions[x] = {} /\ ran[x][o] = 0
      <4>1. /\ \A s \in Runner : At(s, "git") => TxnOf(s) # x
            /\ \A u \in ToolUse : Permitted(u) => direct[u].txn # x
            /\ ran[x][o] = 0
        BY <3>1, <3>7, AdmitAlone
      <4>2. \A p : p \notin Admissions[x]
        BY <3>3, <4>1, AdmissionsAre DEF Someone
      <4> QED
        BY <4>1, <4>2
    <3> HIDE DEF x, o
    <3>8. Contract!Admit(o)
      BY <2>1, <3>4, <3>5, <3>6, <3>7 DEF Contract!Admit, Kept
    <3> QED
      BY <3>3, <3>8 DEF Contract!Next
  <2> QED
    BY <2>2, <2>3
\* Who goes from the effect leaves the session alone.
<1>g. ASSUME NEW x \in Turn, NEW o \in Op, o \in Admissions[x],
             \/ Admissions' = [Admissions EXCEPT ![x] = @ \ {o}]
             \/ x \in severed /\ Admissions' = Admissions,
             UNCHANGED <<grant, pending, approved, severed>>, TakesEffect(x, o) \/ ran' = ran
      PROVE  [Contract!Next]_(Contract!vars)
  <2>1. UNCHANGED <<CurrentTxn, RetiredOps, Slot>>
    BY <1>g DEF CurrentTxn, RetiredOps, Slot
  <2>2. CASE TakesEffect(x, o)
    <3>1. Contract!Effect(x, o)
      BY <1>g, <2>1, <2>2 DEF Contract!Effect, TakesEffect
    <3> QED
      BY <3>1 DEF Contract!Next
  <2>3. CASE ran' = ran /\ Admissions' = Admissions
    BY <1>g, <2>1, <2>3 DEF Contract!vars
  <2>4. CASE ran' = ran /\ Admissions' = [Admissions EXCEPT ![x] = @ \ {o}]
    <3>1. Contract!Abandon(x, o)
      BY <1>g, <2>1, <2>4 DEF Contract!Abandon
    <3> QED
      BY <3>1 DEF Contract!Next
  <2> QED
    BY <1>g, <2>2, <2>3, <2>4
<1>5. ASSUME NEW r \in Runner, RunGit(r) PROVE [Contract!Next]_(Contract!vars)
  <2>1. /\ At(r, "git") /\ ~At(r, "git")'
        /\ \A s \in Runner : s # r => (At(s, "git")' <=> At(s, "git"))
        /\ \A t \in ToolUse : Permitted(t)' <=> Permitted(t)
        /\ UNCHANGED <<grant, pending, approved, severed>>
        /\ TakesEffect(TxnOf(r), OpOf(r)) \/ ran' = ran
    BY <1>t, <1>5 DEF RunGit, At, RunnerGoto, RunnerProcess, session, Permitted, TxnOf, OpOf
  <2>2. TxnOf(r) \in Turn /\ OpOf(r) \in Op
    BY <2>1, AtGit
  <2> QED
    BY <1>g, <2>1, <2>2, AdmissionLeaves
<1>6. ASSUME NEW t \in ToolUse, RunDirect(t) PROVE [Contract!Next]_(Contract!vars)
  <2>1. /\ Permitted(t)
        /\ \A u \in ToolUse : u # t => (Permitted(u)' <=> Permitted(u))
        /\ \A r \in Runner : At(r, "git")' <=> At(r, "git")
        /\ UNCHANGED <<grant, pending, approved, severed>>
        /\ TakesEffect(direct[t].txn, direct[t].op) \/ ran' = ran
    BY <1>t, <1>6 DEF RunDirect, At, session, Permitted
  <2>2. ~Permitted(t)'
    <3>1. /\ direct[t] \in Direct
          /\ \E f \in {"success", "failure"} : direct'[t] = [direct[t] EXCEPT !.fate = f]
      BY <1>t, <1>6 DEF RunDirect
    <3> QED
      BY <3>1 DEF Direct, Permitted
  <2>3. direct[t].txn \in Turn /\ direct[t].op \in Op
    BY <2>1, AtPermitted
  <2> QED
    BY <1>g, <2>1, <2>2, <2>3, AdmissionLeaves
<1>7. ASSUME NEW r \in Runner, RunnerDies(r) PROVE [Contract!Next]_(Contract!vars)
  <2>1. /\ ~At(r, "git")'
        /\ \A s \in Runner : s # r => (At(s, "git")' <=> At(s, "git"))
        /\ \A t \in ToolUse : Permitted(t)' <=> Permitted(t)
        /\ UNCHANGED <<grant, pending, ran, approved, severed>>
    BY <1>t, <1>7 DEF RunnerDies, At, IdleRunner, session, history, Permitted
  <2>2. CASE ~At(r, "git")
    <3>1. Admissions' = Admissions
      BY <2>1, <2>2, AdmissionsStay
    <3> QED
      BY <2>1, <3>1, ContractStutters DEF Kept
  <2>3. CASE At(r, "git")
    <3>1. TxnOf(r) \in Turn /\ OpOf(r) \in Op
      BY <2>3, AtGit
    <3> QED
      BY <1>g, <2>1, <2>3, <3>1, AdmissionLeaves
  <2> QED
    BY <2>2, <2>3
<1>8. ASSUME NEW t \in ToolUse, PostDirect(t) PROVE [Contract!Next]_(Contract!vars)
  <2>1. /\ direct[t] # NoDirect /\ direct'[t] = NoDirect /\ ~Permitted(t)' /\ Kept
        /\ \A u \in ToolUse : u # t => (Permitted(u)' <=> Permitted(u))
        /\ \A r \in Runner : At(r, "git")' <=> At(r, "git")
    BY <1>t, <1>8 DEF PostDirect, At, history, Permitted, Kept
  <2>2. direct[t].txn \in Turn /\ direct[t].op \in Op
    BY <1>t, <2>1 DEF Direct
  <2>3. ~Permitted(t) => Admissions' = Admissions
    BY <2>1, AdmissionsStay
  <2>4. Permitted(t) =>
           /\ direct[t].op \in Admissions[direct[t].txn]
           /\ \/ Admissions' = [Admissions EXCEPT ![direct[t].txn] = @ \ {direct[t].op}]
              \/ direct[t].txn \in severed /\ Admissions' = Admissions
    BY <2>1, <2>2, AdmissionLeaves
  <2>5. CASE Charged(t) /\ direct[t].fate = "success"
    <3>1. Retired(t)
      <4>1. grant # NoGrant /\ grant.txn = pending[t].txn
        BY <2>5 DEF Charged
      <4>2. /\ Retire(pending[t].op) /\ pending' = [pending EXCEPT ![t] = NoPermission]
        BY <1>8, <2>5 DEF PostDirect
      <4> QED
        BY <2>1, <2>5, <4>1, <4>2 DEF Retired, Answered
    <3>2. Admissions' = Admissions
      BY <2>3, <2>5 DEF Permitted
    <3> QED
      BY <2>1, <3>1, <3>2, RetiredRetires
  <2>6. CASE Charged(t) /\ direct[t].fate # "success"
    <3>1. ClearTransaction(pending[t].txn)
      BY <1>8, <2>6 DEF PostDirect
    <3>2. /\ grant # NoGrant /\ grant.txn = pending[t].txn /\ pending[t].txn \in Turn
          /\ direct[t].txn = pending[t].txn
      BY <1>t, <2>1, <2>6 DEF Charged, Permission, Known, DirectOwns
    <3>3. \/ Admissions' = Admissions
          \/ \E o : Admissions' = [Admissions EXCEPT ![pending[t].txn] = @ \ {o}]
      BY <2>3, <2>4, <3>2
    <3> QED
      BY <2>1, <3>1, <3>2, <3>3, ClearWithdraws
  <2>7. CASE ~Charged(t)
    <3>1. pending[t] = NoPermission
      BY <2>7 DEF Charged, Known, ReservedByGrant
    <3>2. UNCHANGED <<grant, pending>>
      BY <1>t, <1>8, <2>7, <3>1 DEF PostDirect
    <3>3. CASE Permitted(t)
      BY <1>g, <2>1, <2>2, <2>4, <3>2, <3>3 DEF Kept
    <3>4. CASE ~Permitted(t)
      BY <2>1, <2>3, <3>2, <3>4, ContractStutters
    <3> QED
      BY <3>3, <3>4
  <2> QED
    BY <2>5, <2>6, <2>7
<1>q. CASE /\ ~\E r \in Runner : Claim(r) \/ RunGit(r) \/ RunnerDies(r)
           /\ ~\E t \in ToolUse : AuthorizePermission(t) \/ RunDirect(t) \/ PostDirect(t)
           /\ ~Prompt /\ ~Stop
  <2>1. Admissions' = Admissions
    BY <1>q, AdmissionsFrame
  <2>2. Kept
    BY <1>q DEF Next, vars, Kept, history, HookStep, RunnerStep, Post,
       HookBegin, HookClassify, AuthorizeTool, Prepare, WriteTicket, Bind,
       HookReply, HookRevoke, HookSweep, HookDies, PostRunner, PostDies,
       RunnerStart, MoveTicket, Validate, WriteReceipt, Finish, RunnerRevoke,
       RunnerSweep, ReleaseLease, GrantLapses, WaitingLapses, TicketLapses, ReceiptLapses
  <2>3. CASE UNCHANGED <<grant, pending>>
    BY <2>1, <2>2, <2>3, ContractStutters
  <2>4. ASSUME NEW t \in ToolUse, PostRunner(t) PROVE [Contract!Next]_(Contract!vars)
    <3>1. CASE Charged(t) /\ receipt[pending[t].token] = "success"
      <4>1. Retired(t)
        <5>1. grant # NoGrant /\ grant.txn = pending[t].txn
          BY <3>1 DEF Charged
        <5>2. /\ Retire(pending[t].op) /\ pending' = [pending EXCEPT ![t] = NoPermission]
              /\ Bound(pending[t])
          BY <2>4, <3>1 DEF PostRunner
        <5> QED
          BY <3>1, <5>1, <5>2 DEF Retired, Answered
      <4> QED
        BY <2>1, <2>2, <4>1, RetiredRetires
    <3>2. CASE Charged(t) /\ receipt[pending[t].token] # "success"
      <4>1. ClearTransaction(pending[t].txn) /\ pending[t].txn \in Turn
        BY <1>t, <2>4, <3>2 DEF PostRunner, Charged, Permission
      <4> QED
        BY <2>1, <2>2, <4>1, ClearWithdraws
    <3>3. CASE ~Charged(t)
      <4>1. pending[t] = NoPermission
        BY <3>3 DEF Charged, Known, ReservedByGrant
      <4>2. FALSE
        BY <2>4, <4>1 DEF PostRunner, Bound
      <4> QED
        BY <4>2
    <3> QED
      BY <3>1, <3>2, <3>3
  <2>5. ASSUME NEW x \in Turn, ClearTransaction(x) PROVE [Contract!Next]_(Contract!vars)
    BY <2>1, <2>2, <2>5, ClearWithdraws
  <2>6. ASSUME NEW t \in ToolUse, ReservedBy(t) PROVE [Contract!Next]_(Contract!vars)
    <3> DEFINE o == hook[t].cmd
               p == [txn |-> grant.txn, turn |-> hook[t].turn, op |-> o,
                     token |-> NoToken, claimed |-> FALSE]
    <3>1. /\ grant # NoGrant /\ grant' = grant /\ o \in grant.ops \ grant.consumed
          /\ pending' = [pending EXCEPT ![t] = p]
      BY <2>6 DEF ReservedBy, GrantMatches
    <3>2. o \in Op /\ grant.txn \in Turn /\ grant.ops \subseteq approved[grant.txn]
      BY <1>t, <3>1 DEF Grant, Known, Approval, GrantApproved
    <3>3. Slot = {}
      <4>1. \A u \in ToolUse : pending[u] = NoPermission
        BY <2>6 DEF ReservedBy, Reserved, Known, ReservedByGrant
      <4> QED
        BY <4>1, SlotIs DEF Known
    <3>4. pending'[t] = p
      BY <1>t, <3>1
    <3>5. pending'[t] # NoPermission
      <4>1. hook[t].turn \in Turn
        BY <2>6 DEF ReservedBy, GrantMatches, Grant, Known, Typed, TypeOK
      <4>2. p \in Permission
        BY <3>2, <4>1 DEF Permission
      <4> QED
        BY <3>4, <4>2, ConstantAssumption
    <3>6. pending'[t].op = o
      BY <3>4
    <3>7. Slot' = {o}
      BY <3>5, <3>6, SlotThen DEF Known
    <3>8. /\ CurrentTxn = grant.txn /\ CurrentTxn # NoTurn /\ RetiredOps = grant.consumed
          /\ UNCHANGED <<CurrentTxn, RetiredOps>>
      BY <3>1, <3>2 DEF CurrentTxn, RetiredOps, Turn, NoTurn
    <3>9. Contract!Reserve(o)
      BY <2>1, <2>2, <3>1, <3>2, <3>3, <3>7, <3>8 DEF Contract!Reserve, Kept
    <3> QED
      BY <3>2, <3>9 DEF Contract!Next
  <2>7. ASSUME NEW t \in ToolUse, BoundTo(t) PROVE [Contract!Next]_(Contract!vars)
    <3>1. /\ pending[t] \in Permission /\ pending[t] # NoPermission
          /\ pending'[t] = [pending[t] EXCEPT !.token = hook[t].token]
      BY <1>t, <2>7 DEF BoundTo, Unbound
    <3>2. hook[t].token \in Token
      BY <2>7 DEF BoundTo, Known, Typed, HooksKnow, Knows, Written
    <3>3. pending'[t] \in Permission /\ pending'[t].op = pending[t].op
      BY <3>1, <3>2 DEF Permission
    <3>4. Slot' = Slot
      <4>1. pending'[t] # NoPermission
        BY <3>3, ConstantAssumption
      <4>2. Slot = {pending[t].op}
        BY <3>1, SlotIs DEF Known
      <4>3. Slot' = {pending'[t].op}
        BY <4>1, SlotThen DEF Known
      <4> QED
        BY <3>3, <4>2, <4>3
    <3>5. UNCHANGED <<CurrentTxn, RetiredOps>>
      BY <2>7 DEF BoundTo, CurrentTxn, RetiredOps
    <3> QED
      BY <2>1, <2>2, <3>4, <3>5 DEF Contract!vars, Kept
  <2>8. ASSUME NEW t \in ToolUse, AuthorizeTool(t) PROVE Untouched \/ ReservedBy(t)
    BY <2>8 DEF AuthorizeTool, GrantMatches, Usable, Untouched, ReservedBy
  <2>9. ASSUME NEW t \in ToolUse, Bind(t) PROVE Untouched \/ BoundTo(t)
    BY <2>9 DEF Bind, Untouched, BoundTo, Known, Typed, TypeOK, Hook
  <2>10. ASSUME NEW t \in ToolUse, HookRevoke(t)
         PROVE  Untouched \/ \E x \in Turn : ClearTransaction(x)
    <3>1. hook[t].txn \in Turn
      BY <2>10 DEF HookRevoke, Known, Typed, HooksKnow, Knows
    <3> QED
      BY <2>10, <3>1 DEF HookRevoke, Untouched
  <2>11. ASSUME NEW r \in Runner, RunnerRevoke(r)
         PROVE  Untouched \/ \E x \in Turn : ClearTransaction(x)
    <3>1. ticket[runner[r].token].txn \in Turn
      BY <2>11 DEF RunnerRevoke, At, Known, Typed, TypeOK, TokensWritten, Written, Ticket
    <3> QED
      BY <2>11, <3>1 DEF RunnerRevoke, Untouched
  <2> QED
    BY <1>q, <2>3, <2>4, <2>5, <2>6, <2>7, <2>8, <2>9, <2>10, <2>11, TableFrame DEF Untouched
<1> QED
  BY <1>1, <1>2, <1>3, <1>4, <1>5, <1>6, <1>7, <1>8, <1>q

\* Hooks, runners, tickets, claims, receipts and deaths, for any number of them and
\* in any order, implement the one-slot transaction.
THEOREM ImplementsContract == Spec => ContractSpec
<1>1. Init => Contract!Init
  <2> SUFFICES ASSUME Init PROVE Contract!Init
    OBVIOUS
  <2>1. CurrentTxn = NoTurn /\ RetiredOps = {} /\ Slot = {}
    BY DEF Init, CurrentTxn, RetiredOps, Slot
  <2>2. Admissions = [x \in Turn |-> {}]
    BY DEF Init, Admissions, At, IdleRunner
  <2> QED
    BY <2>1, <2>2 DEF Init, Contract!Init
<1>2. Known /\ Known' /\ Once /\ Honest /\ [Next]_vars => [Contract!Next]_(Contract!vars)
  BY ContractStep
<1>3. Spec => []Known
  BY SpecTyped, SpecReserved, SpecAgreed, SpecTaken, SpecUntold, SpecDirectOwns, SpecApproval, PTL
     DEF Known
<1> QED
  BY <1>1, <1>2, <1>3, SpecOnce, SpecHonest, PTL DEF Spec, ContractSpec, Contract!Spec
==============================================================================
