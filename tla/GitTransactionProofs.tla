------------------------ MODULE GitTransactionProofs ------------------------
(***************************************************************************)
(* Proofs about GitTransaction, for any number of tool uses, operations,   *)
(* tokens, runners, prompts and mishaps.                                   *)
(***************************************************************************)
EXTENDS GitTransaction, TLAPS

USE ConstantAssumption

------------------------------------------------------------------------------
(* Types: what each process needs to know at each of its steps is there.    *)

Written == {k \in Token : ticket[k] # NoTicket}

\* A hook at each of its steps; W is the set of the tokens issued so far.
Knows(h, W) ==
    /\ h.pc \in {"authorize", "prepare", "ticket", "bind"} => h.cmd \in Op
    /\ h.pc \in {"classify", "authorize", "prepare", "ticket", "bind"} => h.turn \in Turn
    /\ h.pc \in {"prepare", "ticket", "bind", "reply", "revoke", "sweep"} => h.txn \in Turn
    /\ h.pc \in {"bind", "reply"} => h.token \in W
    /\ Bound(h.seen) => h.seen.token \in W

HooksKnow == \A t \in ToolUse : Knows(hook[t], Written)

\* A token is used only once its ticket is written.
TokensWritten ==
    /\ offered \subseteq Written
    /\ \A k \in Token : place[k] # "nowhere" \/ receipt[k] # "none" => k \in Written
    /\ \A t \in ToolUse : Bound(pending[t]) => pending[t].token \in Written
    /\ \A r \in Runner : runner[r].pc # "idle" => runner[r].token \in Written

Typed == TypeOK /\ TokensWritten /\ HooksKnow

LEMMA InitTyped == Init => Typed
<1> SUFFICES ASSUME Init PROVE Typed
  OBVIOUS
<1> USE DEF Init, IdleHook, IdleRunner
<1>1. TypeOK
  BY DEF TypeOK, Turn, NoTurn, Hook, HookSteps, RunnerProcess, RunnerSteps, Command
<1>2. TokensWritten
  BY DEF TokensWritten, Bound
<1>3. HooksKnow
  BY DEF HooksKnow, Knows, Bound
<1> QED
  BY <1>1, <1>2, <1>3 DEF Typed

\* A prompt changes the turn, the grant, the reservations and what waits.
LEMMA PromptTyped == Typed /\ Prompt => Typed'
<1> SUFFICES ASSUME Typed, Prompt PROVE Typed'
  OBVIOUS
<1>1. NewTurn
  BY DEF Prompt, PromptGrant, PromptApprove, PromptContinue, PromptOrdinary
<1>2. hostTurn + 1 \in Turn /\ hostTurn' = hostTurn + 1 /\ turn' = hostTurn + 1
  BY <1>1 DEF NewTurn, Typed, TypeOK, Turn, NoTurn
<1>3. (/\ turn \in Turn \cup {NoTurn} /\ hostTurn \in Turn \cup {NoTurn}
       /\ grant \in Grant \cup {NoGrant}
       /\ waiting \in Waiting \cup {NoWaiting}
       /\ approved \in [Turn -> SUBSET Op]
       /\ severed \subseteq Turn)'
  <2>1. ASSUME NEW S \in SUBSET Op, NEW b \in BOOLEAN, FreshGrant(S, b)
        PROVE  (/\ grant \in Grant \cup {NoGrant}
                /\ waiting \in Waiting \cup {NoWaiting}
                /\ approved \in [Turn -> SUBSET Op]
                /\ severed \subseteq Turn)'
    BY <1>2, <2>1 DEF FreshGrant, Grant, Typed, TypeOK
  <2>2. CASE PromptGrant
    BY <1>2, <2>1, <2>2 DEF PromptGrant
  <2>3. CASE PromptApprove
    <3>1. waiting \in Waiting
      BY <2>3 DEF PromptApprove, WaitingUsable, Typed, TypeOK
    <3>2. waiting.op \in Op
      BY <2>3, <3>1 DEF PromptApprove, WaitingUsable, Waiting
    <3>3. {waiting.op} \in SUBSET Op
      BY <3>2
    <3>4. FreshGrant({waiting.op}, TRUE)
      BY <2>3 DEF PromptApprove
    <3> QED
      BY <1>2, <3>3, <3>4 DEF FreshGrant, Grant, Typed, TypeOK
  <2>4. CASE PromptContinue
    BY <1>2, <2>4 DEF PromptContinue, Continuable, Usable, Grant, Typed, TypeOK
  <2>5. CASE PromptOrdinary
    BY <1>2, <2>5 DEF PromptOrdinary, Typed, TypeOK
  <2> QED
    BY <1>2, <2>2, <2>3, <2>4, <2>5 DEF Prompt
<1>4. TypeOK'
  BY <1>1, <1>3 DEF NewTurn, Typed, TypeOK, files, clock
<1>5. TokensWritten'
  BY <1>1 DEF NewTurn, Typed, TokensWritten, files, Written, Bound
<1>6. HooksKnow'
  BY <1>1 DEF NewTurn, Typed, HooksKnow, files, Written
<1> QED
  BY <1>4, <1>5, <1>6 DEF Typed

------------------------------------------------------------------------------
(* What the helpers of the handlers do to the types.                        *)

LEMMA ClearTyped ==
  ASSUME TypeOK, TokensWritten, NEW x, ClearTransaction(x)
  PROVE  /\ grant' \in Grant \cup {NoGrant}
         /\ pending' \in [ToolUse -> Permission \cup {NoPermission}]
         /\ \A t \in ToolUse : pending'[t] # NoPermission => pending'[t] = pending[t]
  BY DEF TypeOK, ClearTransaction

LEMMA SweepTyped ==
  ASSUME TypeOK, TokensWritten, NEW x, SweepTransaction(x)
  PROVE  /\ place' \in [Token -> {"nowhere", "request", "running"}]
         /\ receipt' \in [Token -> {"none", "success", "failure"}]
         /\ \A k \in Token : /\ place'[k] # "nowhere" => place'[k] = place[k]
                             /\ receipt'[k] # "none" => receipt'[k] = receipt[k]
  BY DEF TypeOK, SweepTransaction

LEMMA DropTyped ==
  ASSUME TypeOK, NEW k \in Token, DropRunning(k)
  PROVE  /\ place' \in [Token -> {"nowhere", "request", "running"}]
         /\ \A l \in Token : place'[l] # "nowhere" => place'[l] = place[l]
  BY DEF TypeOK, DropRunning

LEMMA EffectTyped ==
  ASSUME TypeOK, NEW x \in Turn, NEW o \in Op, TakesEffect(x, o)
  PROVE  ran' \in [Turn -> [Op -> 0 .. 2]]
  BY DEF TypeOK, TakesEffect

LEMMA RetireTyped ==
  ASSUME TypeOK, grant # NoGrant, NEW o \in Op, Retire(o)
  PROVE  grant' \in Grant \cup {NoGrant}
  BY DEF TypeOK, Retire, Grant

\* A hook process that moves on to g.
LEMMA HookMoves ==
  ASSUME Typed, NEW t \in ToolUse, NEW g \in Hook, hook' = [hook EXCEPT ![t] = g],
         Written \subseteq Written', Knows(g, Written')
  PROVE  hook' \in [ToolUse -> Hook] /\ HooksKnow'
<1>1. hook' \in [ToolUse -> Hook]
  BY DEF Typed, TypeOK
<1>2. ASSUME NEW u \in ToolUse PROVE Knows(hook'[u], Written')
  <2>1. CASE u = t
    BY <1>1, <2>1 DEF Typed, TypeOK
  <2>2. CASE u # t
    BY <2>2 DEF Typed, TypeOK, HooksKnow, Knows
  <2> QED
    BY <2>1, <2>2
<1> QED
  BY <1>1, <1>2 DEF HooksKnow

LEMMA IdleKnows == IdleHook \in Hook /\ Knows(IdleHook, Written')
  BY DEF IdleHook, Hook, HookSteps, Knows, Bound, Command, NoTurn

\* A hook on its way to revoke transaction x.
LEMMA RevokeKnows ==
  ASSUME NEW x \in Turn
  PROVE  Revoking(x) \in Hook /\ Knows(Revoking(x), Written')
  BY DEF Revoking, IdleHook, Hook, HookSteps, Knows, Bound, Command, NoTurn

------------------------------------------------------------------------------
(* The steps of a hook.                                                     *)

\* A step of a hook that writes no ticket and grants no new type of thing.
LEMMA HookTyped ==
  ASSUME Typed, NEW t \in ToolUse,
         HookBegin(t) \/ HookStep(t) \/ HookDies(t)
  PROVE  Typed'
<1> DEFINE h == hook[t]
<1>h. h \in Hook /\ Knows(h, Written)
  BY DEF Typed, TypeOK, HooksKnow
<1>1. CASE HookBegin(t)
  <2>1. Written' = Written
    BY <1>1 DEF HookBegin, files, Written
  <2>2. PICK e \in {"pre", "permission"},
             c \in Op \cup {k \in offered \cup {Altered} : Bound(pending[t])} :
          hook' = [hook EXCEPT ![t] =
                      [IdleHook EXCEPT !.pc = "classify", !.event = e, !.cmd = c,
                                       !.turn = hostTurn, !.seen = pending[t]]]
    BY <1>1 DEF HookBegin
  <2> DEFINE g == [IdleHook EXCEPT !.pc = "classify", !.event = e, !.cmd = c,
                                   !.turn = hostTurn, !.seen = pending[t]]
  <2>3. g \in Hook /\ Knows(g, Written)
    <3>1. c \in Command /\ hostTurn \in Turn /\ pending[t] \in Permission \cup {NoPermission}
      <4>1. hostTurn # NoTurn
        BY <1>1 DEF HookBegin
      <4> QED
        BY <4>1 DEF Typed, TypeOK, Command
    <3>2. Bound(pending[t]) => pending[t].token \in Written
      BY DEF Typed, TokensWritten
    <3> QED
      BY <3>1, <3>2 DEF IdleHook, Hook, HookSteps, Knows
  <2>4. hook' \in [ToolUse -> Hook] /\ HooksKnow'
    <3>1. hook' = [hook EXCEPT ![t] = g]
      BY <2>2
    <3> HIDE DEF g
    <3> QED
      BY <2>1, <2>3, <3>1, HookMoves
  <2> QED
    BY <1>1, <2>1, <2>4 DEF HookBegin, Typed, TypeOK, TokensWritten, session, files, clock, history
<1>2. CASE HookClassify(t)
  <2>1. Written' = Written
    BY <1>2 DEF HookClassify, files, Written
  <2>2. hook' \in [ToolUse -> Hook] /\ HooksKnow'
    <3>1. CASE hook' = [hook EXCEPT ![t] = IdleHook]
      BY <2>1, <3>1, IdleKnows, HookMoves
    <3>2. CASE StaleRunner(h) /\ hook' = [hook EXCEPT ![t] = Revoking(h.seen.txn)]
      <4>1. h.seen.txn \in Turn
        BY <1>h, <3>2 DEF StaleRunner, Bound, Hook, Permission
      <4> QED
        BY <2>1, <3>2, <4>1, RevokeKnows, HookMoves
    <3>3. CASE hook' = [hook EXCEPT ![t] = IF h.cmd \in Op
                                         THEN [h EXCEPT !.pc = "authorize", !.seen = NoPermission]
                                         ELSE IdleHook]
      <4> DEFINE g == [h EXCEPT !.pc = "authorize", !.seen = NoPermission]
      <4>1. CASE h.cmd \in Op
        <5>1. g \in Hook /\ Knows(g, Written)
          BY <1>h, <1>2, <4>1 DEF HookClassify, Hook, HookSteps, Knows, Bound
        <5> QED
          BY <2>1, <3>3, <4>1, <5>1, HookMoves
      <4>2. CASE h.cmd \notin Op
        BY <2>1, <3>3, <4>2, IdleKnows, HookMoves
      <4> QED
        BY <4>1, <4>2
    <3> QED
      BY <1>2, <3>1, <3>2, <3>3 DEF HookClassify
  <2>3. offered' \subseteq Written
    BY <1>h, <1>2 DEF HookClassify, RunnerMatch, Knows, Typed, TokensWritten
  <2> QED
    BY <1>2, <2>1, <2>2, <2>3
    DEF HookClassify, Typed, TypeOK, TokensWritten, Written, session, files, clock, history
<1>3. CASE AuthorizePermission(t)
  <2>1. Written' = Written
    BY <1>3 DEF AuthorizePermission, files, Written
  <2>2. hook' \in [ToolUse -> Hook] /\ HooksKnow'
    BY <1>3, <2>1, IdleKnows, HookMoves DEF AuthorizePermission
  <2>3. direct' \in [ToolUse -> Direct \cup {NoDirect}]
    BY <1>3, <1>h DEF AuthorizePermission, Knows, Typed, TypeOK, Grant, Direct
  <2> QED
    BY <1>3, <2>1, <2>2, <2>3
    DEF AuthorizePermission, Typed, TypeOK, TokensWritten, session, files, clock, history
<1>4. CASE AuthorizeTool(t)
  <2>1. Written' = Written
    BY <1>4 DEF AuthorizeTool, files, Written
  <2>2. ASSUME NEW x \in Turn, ToPrepare(t, x) PROVE hook' \in [ToolUse -> Hook] /\ HooksKnow'
    <3> DEFINE g == [h EXCEPT !.pc = "prepare", !.txn = x]
    <3>1. g \in Hook /\ Knows(g, Written)
      BY <1>h, <1>4 DEF AuthorizeTool, Hook, HookSteps, Knows, Bound
    <3>2. hook' = [hook EXCEPT ![t] = g]
      BY <2>2 DEF ToPrepare, Typed, TypeOK, Hook
    <3> QED
      BY <2>1, <3>1, <3>2, HookMoves
  <2>3. hook' \in [ToolUse -> Hook] /\ HooksKnow'
    <3>1. PendingMatches(t) => pending[t].txn \in Turn
      BY DEF PendingMatches, Typed, TypeOK, Permission
    <3>2. GrantMatches(grant, h.cmd, h.turn) => grant.txn \in Turn
      BY DEF GrantMatches, Usable, Typed, TypeOK, Grant
    <3> QED
      BY <1>4, <2>1, <2>2, <3>1, <3>2, IdleKnows, HookMoves DEF AuthorizeTool
  <2>4. /\ pending' \in [ToolUse -> Permission \cup {NoPermission}]
        /\ \A u \in ToolUse : Bound(pending'[u]) => pending'[u] = pending[u]
    <3> DEFINE p == [txn |-> grant.txn, turn |-> h.turn, op |-> h.cmd,
                     token |-> NoToken, claimed |-> FALSE]
    <3>1. \/ pending' = [pending EXCEPT ![t] = p] /\ GrantMatches(grant, h.cmd, h.turn)
          \/ pending' = pending
      BY <1>4 DEF AuthorizeTool
    <3>2. GrantMatches(grant, h.cmd, h.turn) => p \in Permission /\ ~Bound(p)
      BY <1>4, <1>h DEF AuthorizeTool, GrantMatches, Usable, Knows, Bound, Typed, TypeOK, Permission, Grant
    <3>3. pending \in [ToolUse -> Permission \cup {NoPermission}]
      BY DEF Typed, TypeOK
    <3> HIDE DEF p
    <3> QED
      BY <3>1, <3>2, <3>3
  <2>5. waiting' \in Waiting \cup {NoWaiting}
    <3>1. /\ [op |-> h.cmd, old |-> FALSE] \in Waiting
          /\ [op |-> Ambiguous, old |-> FALSE] \in Waiting
      BY <1>4, <1>h DEF AuthorizeTool, Knows, Waiting
    <3>2. \/ waiting' \in {waiting, NoWaiting}
          \/ waiting' = [op |-> h.cmd, old |-> FALSE]
          \/ waiting' = [op |-> Ambiguous, old |-> FALSE]
      BY <1>4 DEF AuthorizeTool
    <3>3. waiting \in Waiting \cup {NoWaiting}
      BY DEF Typed, TypeOK
    <3> QED
      BY <3>1, <3>2, <3>3
  <2> QED
    BY <1>4, <2>1, <2>3, <2>4, <2>5
    DEF AuthorizeTool, Typed, TypeOK, TokensWritten, files, clock, history
<1>r. ASSUME h.pc \in {"prepare", "ticket", "bind"}, ToRevoke(t), Written \subseteq Written'
      PROVE  hook' \in [ToolUse -> Hook] /\ HooksKnow'
  <2>1. h.txn \in Turn
    BY <1>h, <1>r DEF Knows
  <2> QED
    BY <1>r, <2>1, RevokeKnows, HookMoves DEF ToRevoke
<1>5. CASE Prepare(t)
  <2>1. Written' = Written
    BY <1>5 DEF Prepare, files, Written
  <2>2. ASSUME Unbound(t),
               hook' = [hook EXCEPT ![t] = [@ EXCEPT !.pc = "ticket", !.txn = pending[t].txn,
                                                     !.turn = pending[t].turn]]
        PROVE  hook' \in [ToolUse -> Hook] /\ HooksKnow'
    <3> DEFINE g == [h EXCEPT !.pc = "ticket", !.txn = pending[t].txn, !.turn = pending[t].turn]
    <3>1. pending[t].txn \in Turn /\ pending[t].turn \in Turn
      BY <2>2 DEF Unbound, Typed, TypeOK, Permission
    <3>2. g \in Hook /\ Knows(g, Written)
      BY <1>h, <1>5, <3>1 DEF Prepare, Hook, HookSteps, Knows
    <3>3. hook' = [hook EXCEPT ![t] = g]
      BY <2>2 DEF Typed, TypeOK, Hook
    <3>4. Knows(g, Written') /\ Written \subseteq Written'
      BY <2>1, <3>2
    <3> HIDE DEF g
    <3> QED
      BY <3>2, <3>3, <3>4, HookMoves
  <2>3. ToRevoke(t) => hook' \in [ToolUse -> Hook] /\ HooksKnow'
    BY <1>5, <1>r, <2>1 DEF Prepare
  <2>4. hook' \in [ToolUse -> Hook] /\ HooksKnow'
    BY <1>5, <2>2, <2>3 DEF Prepare
  <2> QED
    BY <1>5, <2>1, <2>4
    DEF Prepare, Smoothly, RaisesUnless, Mishap, Typed, TypeOK, TokensWritten, session, files,
        deadlines, history
<1>6. CASE WriteTicket(t)
  <2>1. h.txn \in Turn /\ h.turn \in Turn /\ h.cmd \in Op
    BY <1>6, <1>h DEF WriteTicket, Knows
  <2>2. CASE ToRevoke(t) /\ Mishap /\ UNCHANGED <<ticket, place>>
    <3>1. Written' = Written
      BY <2>2 DEF Written
    <3>2. hook' \in [ToolUse -> Hook] /\ HooksKnow'
      BY <1>6, <1>r, <2>2, <3>1 DEF WriteTicket
    <3>3. UNCHANGED <<session, receipt, lease, runner, hostTurn, offered, direct, deadlines, history>>
      BY <1>6 DEF WriteTicket
    <3> QED
      BY <2>2, <3>1, <3>2, <3>3
      DEF Mishap, Typed, TypeOK, TokensWritten, session, deadlines, history
  <2>3. ASSUME NEW k \in Token, ticket[k] = NoTicket,
               ticket' = [ticket EXCEPT ![k] =
                              [txn |-> h.txn, turn |-> h.turn, op |-> h.cmd, tool |-> t]],
               place' = [place EXCEPT ![k] = "request"],
               hook' = [hook EXCEPT ![t] = [@ EXCEPT !.pc = "bind", !.token = k]],
               Smoothly
        PROVE  Typed'
    <3>1. ticket' \in [Token -> Ticket \cup {NoTicket}] /\ ticket'[k] \in Ticket
      BY <2>1, <2>3 DEF Ticket, Typed, TypeOK
    <3>2. Written' = Written \cup {k}
      BY <2>3, <3>1 DEF Written, Typed, TypeOK
    <3> DEFINE g == [h EXCEPT !.pc = "bind", !.token = k]
    <3>3. g \in Hook /\ Knows(g, Written')
      BY <1>h, <1>6, <3>2 DEF WriteTicket, Hook, HookSteps, Knows
    <3>4. hook' = [hook EXCEPT ![t] = g]
      BY <2>3 DEF Typed, TypeOK, Hook
    <3>5. hook' \in [ToolUse -> Hook] /\ HooksKnow'
      <4> HIDE DEF g
      <4> QED
        BY <3>2, <3>3, <3>4, HookMoves
    <3>6. TypeOK'
      BY <1>6, <2>3, <3>1, <3>5
      DEF WriteTicket, Smoothly, Typed, TypeOK, session, deadlines, history
    <3>7. TokensWritten'
      <4>1. UNCHANGED <<offered, pending, runner, receipt>>
        BY <1>6 DEF WriteTicket, session
      <4>2. \A l \in Token : place'[l] # "nowhere" => place[l] # "nowhere" \/ l = k
        BY <2>3 DEF Typed, TypeOK
      <4> QED
        BY <3>2, <4>1, <4>2 DEF Typed, TokensWritten
    <3> QED
      BY <3>5, <3>6, <3>7 DEF Typed
  <2> QED
    BY <1>6, <2>2, <2>3 DEF WriteTicket
<1>7. CASE Bind(t)
  <2>1. Written' = Written /\ h.token \in Written
    BY <1>7, <1>h DEF Bind, Knows, Written
  <2>2. hook' \in [ToolUse -> Hook] /\ HooksKnow'
    <3>1. CASE hook' = [hook EXCEPT ![t].pc = "reply"]
      <4> DEFINE g == [h EXCEPT !.pc = "reply"]
      <4>1. g \in Hook /\ Knows(g, Written)
        BY <1>h, <1>7 DEF Bind, Hook, HookSteps, Knows
      <4>2. hook' = [hook EXCEPT ![t] = g]
        BY <3>1 DEF Typed, TypeOK, Hook
      <4> QED
        BY <2>1, <4>1, <4>2, HookMoves
    <3> QED
      BY <1>7, <1>r, <2>1, <3>1 DEF Bind
  <2>3. /\ pending' \in [ToolUse -> Permission \cup {NoPermission}]
        /\ \A u \in ToolUse : Bound(pending'[u]) =>
              pending'[u] = pending[u] \/ pending'[u].token = h.token
    <3>1. CASE Unbound(t) /\ pending' = [pending EXCEPT ![t].token = h.token]
      <4>1. pending[t] \in Permission /\ h.token \in Token
        BY <2>1, <3>1 DEF Unbound, Written, Typed, TypeOK
      <4>2. /\ [pending[t] EXCEPT !.token = h.token] \in Permission
            /\ [pending[t] EXCEPT !.token = h.token].token = h.token
        BY <4>1 DEF Permission
      <4> QED
        BY <3>1, <4>2 DEF Typed, TypeOK
    <3>2. CASE UNCHANGED pending
      BY <3>2 DEF Typed, TypeOK
    <3> QED
      BY <1>7, <3>1, <3>2 DEF Bind
  <2>4. /\ place' \in [Token -> {"nowhere", "request", "running"}]
        /\ \A k \in Token : place'[k] # "nowhere" => place'[k] = place[k]
    BY <1>7, <2>1 DEF Bind, Written, Typed, TypeOK
  <2> QED
    BY <1>7, <2>1, <2>2, <2>3, <2>4
    DEF Bind, Smoothly, RaisesUnless, Mishap, Typed, TypeOK, TokensWritten, deadlines, history
<1>8. CASE HookReply(t)
  <2>1. Written' = Written /\ h.token \in Written
    BY <1>8, <1>h DEF HookReply, files, Knows, Written
  <2>2. hook' \in [ToolUse -> Hook] /\ HooksKnow'
    BY <1>8, <2>1, IdleKnows, HookMoves DEF HookReply
  <2> QED
    BY <1>8, <2>1, <2>2
    DEF HookReply, Typed, TypeOK, TokensWritten, Written, session, files, clock, history
<1>9. CASE HookRevoke(t)
  <2>1. Written' = Written /\ h.txn \in Turn
    BY <1>9, <1>h DEF HookRevoke, files, Knows, Written
  <2>2. hook' \in [ToolUse -> Hook] /\ HooksKnow'
    <3> DEFINE g == [h EXCEPT !.pc = "sweep"]
    <3>1. g \in Hook /\ Knows(g, Written)
      BY <1>h, <1>9 DEF HookRevoke, Hook, HookSteps, Knows
    <3>2. hook' = [hook EXCEPT ![t] = g]
      BY <1>9 DEF HookRevoke, Typed, TypeOK, Hook
    <3> QED
      BY <2>1, <3>1, <3>2, HookMoves
  <2>3. CASE ClearTransaction(h.txn) /\ Smoothly
    BY <1>9, <2>1, <2>2, <2>3, ClearTyped
    DEF HookRevoke, Smoothly, Typed, TypeOK, TokensWritten, Bound, files, deadlines, history
  <2>4. CASE Mishap /\ UNCHANGED <<grant, pending>>
    BY <1>9, <2>1, <2>2, <2>4
    DEF HookRevoke, Mishap, Typed, TypeOK, TokensWritten, files, deadlines, history
  <2> QED
    BY <1>9, <2>3, <2>4 DEF HookRevoke
<1>10. CASE HookSweep(t)
  <2>1. Written' = Written
    BY <1>10 DEF HookSweep, Written
  <2>2. hook' \in [ToolUse -> Hook] /\ HooksKnow'
    BY <1>10, <2>1, IdleKnows, HookMoves DEF HookSweep
  <2> QED
    BY <1>10, <2>1, <2>2, SweepTyped
    DEF HookSweep, Typed, TypeOK, TokensWritten, session, clock, history
<1>11. CASE HookDies(t)
  <2>1. Written' = Written
    BY <1>11 DEF HookDies, files, Written
  <2>2. hook' \in [ToolUse -> Hook] /\ HooksKnow'
    BY <1>11, <2>1, IdleKnows, HookMoves DEF HookDies
  <2> QED
    BY <1>11, <2>1, <2>2
    DEF HookDies, Mishap, Typed, TypeOK, TokensWritten, session, files, deadlines, history
<1> QED
  BY <1>1, <1>2, <1>3, <1>4, <1>5, <1>6, <1>7, <1>8, <1>9, <1>10, <1>11 DEF HookStep

------------------------------------------------------------------------------
(* The steps of a runner.                                                   *)

\* A runner that moves on, with the token it has.
LEMMA RunnerMoves ==
  ASSUME Typed, NEW r \in Runner, ~At(r, "idle"), NEW l \in RunnerSteps, RunnerGoto(r, l)
  PROVE  /\ runner' \in [Runner -> RunnerProcess]
         /\ \A s \in Runner : runner'[s].pc # "idle" => runner'[s].token \in Written
<1>1. [runner[r] EXCEPT !.pc = l] \in RunnerProcess
  BY DEF Typed, TypeOK, RunnerProcess
<1>2. runner' = [runner EXCEPT ![r] = [runner[r] EXCEPT !.pc = l]]
  BY DEF RunnerGoto, Typed, TypeOK
<1>3. [runner[r] EXCEPT !.pc = l].token = runner[r].token
  BY DEF Typed, TypeOK, RunnerProcess
<1> QED
  BY <1>1, <1>2, <1>3 DEF At, Typed, TypeOK, TokensWritten

LEMMA RunnerTyped ==
  ASSUME Typed, NEW r \in Runner,
         RunnerStart(r) \/ RunnerStep(r) \/ RunnerDies(r)
  PROVE  Typed'
<1> DEFINE k == runner[r].token
           q == ticket[k]
<1>1. CASE RunnerStart(r)
  <2>1. PICK l \in offered : /\ lease' = [lease EXCEPT ![l] = "held"]
                             /\ runner' = [runner EXCEPT ![r] = [pc |-> "move", token |-> l]]
    BY <1>1 DEF RunnerStart
  <2>2. l \in Written /\ l \in Token
    BY DEF Typed, TypeOK, TokensWritten
  <2>3. [pc |-> "move", token |-> l] \in RunnerProcess
    BY <2>2 DEF RunnerProcess, RunnerSteps
  <2>4. UNCHANGED <<session, ticket, place, receipt, hook, hostTurn, offered, direct, clock, history>>
    BY <1>1 DEF RunnerStart
  <2> QED
    BY <2>1, <2>2, <2>3, <2>4
    DEF Typed, TypeOK, TokensWritten, HooksKnow, Written, session, clock, history
<1>2. ASSUME ~At(r, "idle") PROVE k \in Token /\ q \in Ticket
  BY <1>2 DEF At, Typed, TypeOK, TokensWritten, Written
\* Every later step: the runner goes on with its token, tickets stay as written.
<1>3. ASSUME ~At(r, "idle"), \E l \in RunnerSteps : RunnerGoto(r, l),
             UNCHANGED <<turn, waiting, ticket, lease, hook, hostTurn, offered, direct,
                         lapsed, late, approved, severed>>,
             grant' \in Grant \cup {NoGrant},
             pending' \in [ToolUse -> Permission \cup {NoPermission}],
             \A t \in ToolUse : Bound(pending'[t]) =>
                 Bound(pending[t]) /\ pending'[t].token = pending[t].token,
             place' \in [Token -> {"nowhere", "request", "running"}],
             receipt' \in [Token -> {"none", "success", "failure"}],
             \A l \in Token : place'[l] # "nowhere" \/ receipt'[l] # "none" => l \in Written,
             ran' \in [Turn -> [Op -> 0 .. 2]], mishaps' \in Nat
      PROVE  Typed'
  <2>1. Written' = Written
    BY <1>3 DEF Written
  <2>2. TypeOK'
    BY <1>3, RunnerMoves DEF Typed, TypeOK
  <2>3. TokensWritten'
    BY <1>3, <2>1, RunnerMoves DEF Typed, TokensWritten
  <2>4. HooksKnow'
    BY <1>3, <2>1 DEF Typed, HooksKnow
  <2> QED
    BY <2>2, <2>3, <2>4 DEF Typed
<1>4. /\ mishaps \in Nat
      /\ Mishap => mishaps' \in Nat
      /\ Smoothly => mishaps' \in Nat
  BY DEF Mishap, Smoothly, Typed, TypeOK
<1>5. CASE MoveTicket(r)
  <2>1. k \in Token /\ q \in Ticket
    BY <1>2, <1>5 DEF MoveTicket, At
  <2>2. /\ place' \in [Token -> {"nowhere", "request", "running"}]
        /\ \A l \in Token : place'[l] # "nowhere" => l \in Written
    BY <1>5, <2>1, DropTyped DEF MoveTicket, Written, Typed, TypeOK, TokensWritten
  <2>3. mishaps' \in Nat /\ \E l \in RunnerSteps : RunnerGoto(r, l)
    BY <1>4, <1>5 DEF MoveTicket, RaisesUnless, RunnerSteps
  <2> QED
    BY <1>3, <1>5, <2>2, <2>3
    DEF MoveTicket, At, Typed, TypeOK, TokensWritten, session, deadlines, history
<1>6. CASE Validate(r)
  <2>1. k \in Token
    BY <1>2, <1>6 DEF Validate, At
  <2>2. /\ place' \in [Token -> {"nowhere", "request", "running"}]
        /\ \A l \in Token : place'[l] # "nowhere" => l \in Written
    BY <1>6, <2>1, DropTyped DEF Validate, Typed, TypeOK, TokensWritten
  <2>3. mishaps' \in Nat /\ \E l \in RunnerSteps : RunnerGoto(r, l)
    BY <1>4, <1>6 DEF Validate, RaisesUnless, RunnerSteps
  <2> QED
    BY <1>3, <1>6, <2>2, <2>3
    DEF Validate, At, Typed, TypeOK, TokensWritten, session, deadlines, history
<1>7. CASE Claim(r)
  <2>1. k \in Token /\ q \in Ticket
    BY <1>2, <1>7 DEF Claim, At
  <2>2. /\ place' \in [Token -> {"nowhere", "request", "running"}]
        /\ \A l \in Token : place'[l] # "nowhere" => l \in Written
    BY <1>7, <2>1, DropTyped DEF Claim, Typed, TypeOK, TokensWritten
  <2>3. mishaps' \in Nat /\ \E l \in RunnerSteps : RunnerGoto(r, l)
    BY <1>4, <1>7 DEF Claim, RaisesUnless, RunnerSteps
  <2>4. /\ pending' \in [ToolUse -> Permission \cup {NoPermission}]
        /\ \A t \in ToolUse : Bound(pending'[t]) =>
              Bound(pending[t]) /\ pending'[t].token = pending[t].token
    <3>1. CASE Claimable(k) /\ pending' = [pending EXCEPT ![q.tool].claimed = TRUE]
      <4>1. q.tool \in ToolUse /\ pending[q.tool] \in Permission /\ Bound(pending[q.tool])
        <5>1. q.tool \in ToolUse
          BY <2>1 DEF Ticket
        <5>2. pending[q.tool] # NoPermission
          BY <3>1, <5>1 DEF Claimable, Reserved
        <5>3. pending[q.tool].token = k
          BY <3>1 DEF Claimable
        <5> QED
          BY <2>1, <5>1, <5>2, <5>3 DEF Bound, Typed, TypeOK
      <4>2. /\ [pending[q.tool] EXCEPT !.claimed = TRUE] \in Permission
            /\ [pending[q.tool] EXCEPT !.claimed = TRUE].token = pending[q.tool].token
        BY <4>1 DEF Permission
      <4> QED
        BY <3>1, <4>1, <4>2 DEF Typed, TypeOK
    <3> QED
      BY <1>7, <3>1 DEF Claim, Typed, TypeOK
  <2> QED
    BY <1>3, <1>7, <2>2, <2>3, <2>4
    DEF Claim, At, Typed, TypeOK, TokensWritten, deadlines, history
<1>8. CASE RunGit(r)
  <2>1. q.txn \in Turn /\ q.op \in Op
    BY <1>2, <1>8 DEF RunGit, At, Ticket
  <2>2. ran' \in [Turn -> [Op -> 0 .. 2]]
    BY <1>8, <2>1, EffectTyped DEF RunGit, Typed, TypeOK
  <2>3. mishaps' \in Nat /\ \E l \in RunnerSteps : RunnerGoto(r, l)
    BY <1>4, <1>8 DEF RunGit, RunnerSteps
  <2> QED
    BY <1>3, <1>8, <2>2, <2>3
    DEF RunGit, At, Typed, TypeOK, TokensWritten, session, files, deadlines
<1>9. CASE WriteReceipt(r)
  <2>1. k \in Token /\ k \in Written
    BY <1>2, <1>9 DEF WriteReceipt, At, Typed, TokensWritten
  <2>2. /\ place' \in [Token -> {"nowhere", "request", "running"}]
        /\ receipt' \in [Token -> {"none", "success", "failure"}]
        /\ \A l \in Token : place'[l] # "nowhere" \/ receipt'[l] # "none" => l \in Written
    BY <1>9, <2>1, DropTyped DEF WriteReceipt, Typed, TypeOK, TokensWritten
  <2>3. mishaps' \in Nat /\ \E l \in RunnerSteps : RunnerGoto(r, l)
    BY <1>4, <1>9 DEF WriteReceipt, RunnerSteps
  <2> QED
    BY <1>3, <1>9, <2>2, <2>3
    DEF WriteReceipt, At, Typed, TypeOK, TokensWritten, session, deadlines, history
<1>10. CASE Finish(r)
  <2>1. k \in Token
    BY <1>2, <1>10 DEF Finish, At
  <2>2. /\ place' \in [Token -> {"nowhere", "request", "running"}]
        /\ \A l \in Token : place'[l] # "nowhere" => l \in Written
    BY <1>10, <2>1, DropTyped DEF Finish, Typed, TypeOK, TokensWritten
  <2> QED
    BY <1>3, <1>10, <2>2
    DEF Finish, At, RunnerSteps, Typed, TypeOK, TokensWritten, session, clock, history
<1>11. CASE RunnerRevoke(r)
  <2>1. /\ grant' \in Grant \cup {NoGrant}
        /\ pending' \in [ToolUse -> Permission \cup {NoPermission}]
        /\ \A t \in ToolUse : pending'[t] # NoPermission => pending'[t] = pending[t]
    BY <1>11, ClearTyped DEF RunnerRevoke, Typed, TypeOK
  <2>2. mishaps' \in Nat /\ \E l \in RunnerSteps : RunnerGoto(r, l)
    BY <1>4, <1>11 DEF RunnerRevoke, RunnerSteps
  <2> QED
    BY <1>3, <1>11, <2>1, <2>2
    DEF RunnerRevoke, At, Bound, Typed, TypeOK, TokensWritten, files, deadlines, history
<1>12. CASE RunnerSweep(r)
  <2>1. /\ place' \in [Token -> {"nowhere", "request", "running"}]
        /\ receipt' \in [Token -> {"none", "success", "failure"}]
        /\ \A l \in Token : place'[l] # "nowhere" \/ receipt'[l] # "none" => l \in Written
    BY <1>12, SweepTyped DEF RunnerSweep, Typed, TypeOK, TokensWritten
  <2> QED
    BY <1>3, <1>12, <2>1
    DEF RunnerSweep, At, RunnerSteps, Typed, TypeOK, TokensWritten, session, clock, history
<1>13. ASSUME ReleaseLease(r) \/ RunnerDies(r) PROVE Typed'
  <2>1. Written' = Written
    BY <1>13 DEF ReleaseLease, RunnerDies, Written
  <2>2. runner' \in [Runner -> RunnerProcess] /\ lease' \in [Token -> {"none", "held", "dead"}]
    <3>1. IdleRunner \in RunnerProcess
      BY DEF IdleRunner, RunnerProcess, RunnerSteps
    <3>2. /\ runner' = [runner EXCEPT ![r] = IdleRunner]
          /\ \/ lease' = [lease EXCEPT ![k] = "none"]
             \/ lease' = [lease EXCEPT ![k] = "dead"]
      BY <1>13 DEF ReleaseLease, RunnerDies
    <3> QED
      BY <3>1, <3>2 DEF Typed, TypeOK
  <2>3. \A s \in Runner : runner'[s].pc # "idle" => runner'[s] = runner[s]
    BY <1>13 DEF ReleaseLease, RunnerDies, IdleRunner, Typed, TypeOK
  <2>4. mishaps' \in Nat
    BY <1>4, <1>13 DEF ReleaseLease, RunnerDies, clock
  <2> QED
    BY <1>13, <2>1, <2>2, <2>3, <2>4
    DEF ReleaseLease, RunnerDies, Typed, TypeOK, TokensWritten, HooksKnow, session, clock,
        deadlines, history
<1> QED
  BY <1>1, <1>5, <1>6, <1>7, <1>8, <1>9, <1>10, <1>11, <1>12, <1>13 DEF RunnerStep

------------------------------------------------------------------------------
(* The host, the events of finished commands, the clock.                    *)

LEMMA PostTyped ==
  ASSUME Typed, NEW t \in ToolUse, RunDirect(t) \/ Post(t) \/ PostDies(t)
  PROVE  Typed'
<1> DEFINE p == pending[t]
\* Every one of them leaves the tickets and the processes alone.
<1>1. ASSUME UNCHANGED <<turn, waiting, ticket, lease, hook, runner, hostTurn, offered,
                         lapsed, late, approved, severed>>,
             grant' \in Grant \cup {NoGrant},
             pending' \in [ToolUse -> Permission \cup {NoPermission}],
             \A u \in ToolUse : pending'[u] # NoPermission => pending'[u] = pending[u],
             direct' \in [ToolUse -> Direct \cup {NoDirect}],
             place' \in [Token -> {"nowhere", "request", "running"}],
             receipt' \in [Token -> {"none", "success", "failure"}],
             \A k \in Token : /\ place'[k] # "nowhere" => place'[k] = place[k]
                              /\ receipt'[k] # "none" => receipt'[k] = receipt[k],
             ran' \in [Turn -> [Op -> 0 .. 2]], mishaps' \in Nat
      PROVE  Typed'
  <2>1. Written' = Written
    BY <1>1 DEF Written
  <2>2. TypeOK'
    BY <1>1 DEF Typed, TypeOK
  <2>3. TokensWritten'
    <3>1. \A u \in ToolUse : Bound(pending'[u]) => pending'[u] = pending[u]
      BY <1>1 DEF Bound
    <3>2. \A k \in Token : place'[k] # "nowhere" \/ receipt'[k] # "none" => k \in Written
      <4>1. \A k \in Token : place[k] # "nowhere" \/ receipt[k] # "none" => k \in Written
        BY DEF Typed, TokensWritten
      <4>2. \A k \in Token : /\ place'[k] # "nowhere" => place[k] # "nowhere"
                             /\ receipt'[k] # "none" => receipt[k] # "none"
        BY <1>1
      <4> QED
        BY <4>1, <4>2
    <3> QED
      BY <1>1, <2>1, <3>1, <3>2 DEF Typed, TokensWritten
  <2>4. HooksKnow'
    BY <1>1, <2>1 DEF Typed, HooksKnow
  <2> QED
    BY <2>2, <2>3, <2>4 DEF Typed
<1>2. /\ mishaps \in Nat
      /\ Mishap => mishaps' \in Nat
      /\ Smoothly => mishaps' \in Nat
  BY DEF Mishap, Smoothly, Typed, TypeOK
<1>3. /\ pending \in [ToolUse -> Permission \cup {NoPermission}]
      /\ Charged(t) => grant # NoGrant /\ p.op \in Op
      /\ place \in [Token -> {"nowhere", "request", "running"}]
      /\ receipt \in [Token -> {"none", "success", "failure"}]
      /\ direct \in [ToolUse -> Direct \cup {NoDirect}]
  BY DEF Charged, Permission, Typed, TypeOK
<1>4. ASSUME pending' = [pending EXCEPT ![t] = NoPermission]
      PROVE  /\ pending' \in [ToolUse -> Permission \cup {NoPermission}]
             /\ \A u \in ToolUse : pending'[u] # NoPermission => pending'[u] = pending[u]
  BY <1>3, <1>4
<1>5. ASSUME NEW k \in Token, TakeReceipt(k)
      PROVE  /\ receipt' \in [Token -> {"none", "success", "failure"}]
             /\ \A l \in Token : receipt'[l] # "none" => receipt'[l] = receipt[l]
  BY <1>3, <1>5 DEF TakeReceipt
<1>6. CASE RunDirect(t)
  <2>1. direct[t] \in Direct
    BY <1>3, <1>6 DEF RunDirect
  <2>2. ran' \in [Turn -> [Op -> 0 .. 2]]
    BY <1>6, <2>1, EffectTyped DEF RunDirect, Direct, Typed, TypeOK
  <2>3. direct' \in [ToolUse -> Direct \cup {NoDirect}]
    <3>1. \A f \in {"success", "failure"} : [direct[t] EXCEPT !.fate = f] \in Direct
      BY <2>1 DEF Direct
    <3>2. \E f \in {"success", "failure"} : direct' = [direct EXCEPT ![t] = [direct[t] EXCEPT !.fate = f]]
      BY <1>3, <1>6 DEF RunDirect
    <3> QED
      BY <1>3, <3>1, <3>2
  <2> QED
    BY <1>1, <1>2, <1>6, <2>2, <2>3
    DEF RunDirect, Typed, TypeOK, session, files, deadlines
<1>7. CASE PostRunner(t)
  <2>1. p.token \in Token
    BY <1>7 DEF PostRunner, Typed, TypeOK
  <2>2. UNCHANGED <<turn, waiting, ticket, lease, hook, runner, hostTurn, offered, direct, clock, history>>
    BY <1>7 DEF PostRunner
  <2>3. CASE /\ Charged(t) /\ Retire(p.op) /\ TakeReceipt(p.token)
             /\ pending' = [pending EXCEPT ![t] = NoPermission] /\ UNCHANGED place
    BY <1>1, <1>2, <1>3, <1>4, <1>5, <2>1, <2>2, <2>3, RetireTyped
    DEF Typed, TypeOK, clock, history
  <2>4. CASE ClearTransaction(p.txn) /\ SweepTransaction(p.txn)
    BY <1>1, <1>2, <1>3, <2>2, <2>4, ClearTyped, SweepTyped
    DEF Typed, TypeOK, clock, history
  <2>5. CASE pending' = [pending EXCEPT ![t] = NoPermission] /\ UNCHANGED <<grant, place, receipt>>
    BY <1>1, <1>2, <1>3, <1>4, <2>2, <2>5 DEF Typed, TypeOK, clock, history
  <2> QED
    BY <1>7, <2>3, <2>4, <2>5 DEF PostRunner
<1>8. CASE PostDies(t)
  <2>1. p.token \in Token
    BY <1>8 DEF PostDies, Typed, TypeOK
  <2>2. UNCHANGED <<session, ticket, lease, hook, runner, hostTurn, offered, direct, deadlines, history>>
    BY <1>8 DEF PostDies
  <2>3. /\ place' \in [Token -> {"nowhere", "request", "running"}]
        /\ receipt' \in [Token -> {"none", "success", "failure"}]
        /\ \A k \in Token : /\ place'[k] # "nowhere" => place'[k] = place[k]
                            /\ receipt'[k] # "none" => receipt'[k] = receipt[k]
    BY <1>3, <1>5, <1>8, <2>1, SweepTyped DEF PostDies, Typed
  <2>4. mishaps' \in Nat
    BY <1>2, <1>8 DEF PostDies
  <2> QED
    BY <1>1, <1>3, <2>2, <2>3, <2>4 DEF Typed, TypeOK, session, deadlines, history
<1>9. CASE PostDirect(t)
  <2>1. direct' \in [ToolUse -> Direct \cup {NoDirect}]
    BY <1>3, <1>9 DEF PostDirect
  <2>2. UNCHANGED <<turn, waiting, ticket, lease, hook, runner, hostTurn, offered, clock, history>>
    BY <1>9 DEF PostDirect
  <2>3. CASE /\ Charged(t) /\ Retire(p.op)
             /\ pending' = [pending EXCEPT ![t] = NoPermission] /\ UNCHANGED <<place, receipt>>
    BY <1>1, <1>2, <1>3, <1>4, <2>1, <2>2, <2>3, RetireTyped
    DEF Typed, TypeOK, clock, history
  <2>4. CASE ClearTransaction(p.txn) /\ SweepTransaction(p.txn)
    BY <1>1, <1>2, <1>3, <2>1, <2>2, <2>4, ClearTyped, SweepTyped
    DEF Typed, TypeOK, clock, history
  <2>5. CASE pending' = [pending EXCEPT ![t] = NoPermission] /\ UNCHANGED <<grant, place, receipt>>
    BY <1>1, <1>2, <1>3, <1>4, <2>1, <2>2, <2>5 DEF Typed, TypeOK, clock, history
  <2> QED
    BY <1>9, <2>3, <2>4, <2>5 DEF PostDirect
<1> QED
  BY <1>6, <1>7, <1>8, <1>9 DEF Post

LEMMA ClockTyped ==
  ASSUME Typed,
         \/ Stop \/ GrantLapses \/ WaitingLapses
         \/ \E k \in Token : TicketLapses(k) \/ ReceiptLapses(k)
         \/ UNCHANGED vars
  PROVE  Typed'
<1>1. Written' = Written /\ UNCHANGED <<hook, offered, pending, runner, place>>
  BY DEF Stop, GrantLapses, WaitingLapses, TicketLapses, ReceiptLapses, vars, session, files, Written
<1>2. \A k \in Token : receipt'[k] # "none" => receipt[k] # "none"
  BY DEF Stop, GrantLapses, WaitingLapses, TicketLapses, ReceiptLapses, vars, session, files, Typed, TypeOK
<1>3. TokensWritten' /\ HooksKnow'
  BY <1>1, <1>2 DEF Typed, TokensWritten, HooksKnow
<1>4. TypeOK'
  <2>1. CASE Stop
    BY <2>1 DEF Stop, Typed, TypeOK, files, clock, history
  <2>2. CASE GrantLapses
    BY <2>2 DEF GrantLapses, Mishap, Grant, Typed, TypeOK, session, files, history
  <2>3. CASE WaitingLapses
    <3>1. [waiting EXCEPT !.old = TRUE] \in Waiting
      BY <2>3 DEF WaitingLapses, Waiting, Typed, TypeOK
    <3> QED
      BY <2>3, <3>1 DEF WaitingLapses, Mishap, Typed, TypeOK, files, deadlines, history
  <2>4. CASE \E k \in Token : TicketLapses(k)
    BY <2>4 DEF TicketLapses, Mishap, Typed, TypeOK, session, files, history
  <2>5. CASE \E k \in Token : ReceiptLapses(k)
    BY <2>5 DEF ReceiptLapses, Mishap, Typed, TypeOK, session, deadlines, history
  <2>6. CASE UNCHANGED vars
    BY <2>6 DEF Typed, TypeOK, vars, session, files, clock, history
  <2> QED
    BY <2>1, <2>2, <2>3, <2>4, <2>5, <2>6
<1> QED
  BY <1>3, <1>4 DEF Typed

LEMMA NextTyped == Typed /\ [Next]_vars => Typed'
  BY PromptTyped, HookTyped, RunnerTyped, PostTyped, ClockTyped DEF Next

LEMMA SpecTyped == Spec => []Typed
  BY InitTyped, NextTyped, PTL DEF Spec

\* Every variable of the session, the files and the processes keeps to its type,
\* whatever the interleaving and the mishaps: no step finds a token without its
\* ticket, or a command where a token should be.
THEOREM TypeCorrect == Spec => []TypeOK
  BY SpecTyped, PTL DEF Typed

------------------------------------------------------------------------------
(* The reservation table: at most one entry, and it is of the grant held.   *)

\* A reservation outlives neither its grant nor a change of grant.
ReservedByGrant ==
    \A t \in ToolUse : pending[t] # NoPermission =>
        grant # NoGrant /\ pending[t].txn = grant.txn

\* The steps that touch the grant or the table.
LEMMA TableFrame ==
  ASSUME [Next]_vars
  PROVE  \/ UNCHANGED <<grant, pending>>
         \/ Prompt \/ Stop
         \/ \E t \in ToolUse : \/ AuthorizeTool(t) \/ Bind(t) \/ HookRevoke(t)
                               \/ PostRunner(t) \/ PostDirect(t)
         \/ \E r \in Runner : Claim(r) \/ RunnerRevoke(r)
  BY DEF Next, vars, HookStep, RunnerStep, Post, session,
         HookBegin, HookClassify, AuthorizePermission, Prepare, WriteTicket, HookReply,
         HookSweep, HookDies, RunDirect, PostDies, RunnerStart, MoveTicket, Validate,
         RunGit, WriteReceipt, Finish, RunnerSweep, ReleaseLease, RunnerDies,
         GrantLapses, WaitingLapses, TicketLapses, ReceiptLapses

\* What a step does to the table, whoever takes it.
Untouched == UNCHANGED <<grant, pending>>
Emptied == \A t \in ToolUse : pending'[t] = NoPermission
Cleared == \E x \in Turn : ClearTransaction(x)
ReservedBy(t) == /\ hook[t].pc = "authorize"
                 /\ grant # NoGrant /\ grant' = grant
                 /\ GrantMatches(grant, hook[t].cmd, hook[t].turn)
                 /\ Reserved(grant.txn) = {}
                 /\ pending' = [pending EXCEPT ![t] =
                        [txn |-> grant.txn, turn |-> hook[t].turn, op |-> hook[t].cmd,
                         token |-> NoToken, claimed |-> FALSE]]
BoundTo(t) == /\ hook[t].pc = "bind" /\ hook'[t].pc = "reply"
              /\ grant' = grant
              /\ Unbound(t) /\ ~pending[t].claimed
              /\ pending' = [pending EXCEPT ![t].token = hook[t].token]
ClaimedBy(r) == LET q == ticket[runner[r].token] IN
                /\ At(r, "claim") /\ runner' = [runner EXCEPT ![r].pc = "git"]
                /\ grant' = grant
                /\ Claimable(runner[r].token)
                /\ pending' = [pending EXCEPT ![q.tool].claimed = TRUE]
\* A receipt, or the host's own answer, says success.
Answered(t) == \/ Bound(pending[t]) /\ receipt[pending[t].token] = "success"
               \/ /\ direct[t] # NoDirect /\ direct[t].fate = "success"
                  /\ direct'[t] = NoDirect
Retired(t) == /\ Charged(t) /\ Answered(t)
              /\ Retire(pending[t].op)
              /\ pending' = [pending EXCEPT ![t] = NoPermission]
Released(t) == /\ ~Charged(t) /\ grant' = grant
               /\ pending' = [pending EXCEPT ![t] = NoPermission]

LEMMA TableStep ==
  ASSUME Typed, [Next]_vars
  PROVE  \/ Untouched \/ Cleared
         \/ Emptied /\ (Prompt \/ Stop)
         \/ \E t \in ToolUse : ReservedBy(t) \/ BoundTo(t) \/ Retired(t) \/ Released(t)
         \/ \E r \in Runner : ClaimedBy(r)
<1>1. CASE Prompt
  BY <1>1 DEF Prompt, PromptGrant, PromptApprove, PromptContinue, PromptOrdinary, NewTurn, Emptied
<1>2. CASE Stop
  BY <1>2 DEF Stop, Emptied, Typed, TypeOK
<1>3. ASSUME NEW t \in ToolUse, AuthorizeTool(t) PROVE Untouched \/ ReservedBy(t)
  BY <1>3 DEF AuthorizeTool, GrantMatches, Usable, Untouched, ReservedBy
<1>4. ASSUME NEW t \in ToolUse, Bind(t) PROVE Untouched \/ BoundTo(t)
  BY <1>4 DEF Bind, Untouched, BoundTo, Typed, TypeOK, Hook
<1>5. ASSUME NEW t \in ToolUse, HookRevoke(t) PROVE Untouched \/ Cleared
  <2>1. hook[t].txn \in Turn
    BY <1>5 DEF HookRevoke, Typed, HooksKnow, Knows
  <2> QED
    BY <1>5, <2>1 DEF HookRevoke, Untouched, Cleared
<1>6. ASSUME NEW t \in ToolUse, PostRunner(t) \/ PostDirect(t)
      PROVE  Cleared \/ Retired(t) \/ Released(t)
  <2>1. Charged(t) => pending[t].txn \in Turn
    BY DEF Charged, Permission, Typed, TypeOK
  <2> QED
    BY <1>6, <2>1 DEF PostRunner, PostDirect, Cleared, Retired, Released, Answered, Typed, TypeOK
<1>7. ASSUME NEW r \in Runner, Claim(r) PROVE Untouched \/ ClaimedBy(r)
  BY <1>7 DEF Claim, RunnerGoto, Untouched, ClaimedBy
<1>8. ASSUME NEW r \in Runner, RunnerRevoke(r) PROVE Untouched \/ Cleared
  <2>1. ticket[runner[r].token].txn \in Turn
    BY <1>8 DEF RunnerRevoke, At, Typed, TypeOK, TokensWritten, Written, Ticket
  <2> QED
    BY <1>8, <2>1 DEF RunnerRevoke, Untouched, Cleared
<1> QED
  BY <1>1, <1>2, <1>3, <1>4, <1>5, <1>6, <1>7, <1>8, TableFrame DEF Untouched

LEMMA InitReserved == Init => OneReservation /\ ReservedByGrant
  BY DEF Init, OneReservation, ReservedByGrant

LEMMA NextReserved ==
  Typed /\ Typed' /\ OneReservation /\ ReservedByGrant /\ [Next]_vars
    => (OneReservation /\ ReservedByGrant)'
<1> SUFFICES ASSUME Typed, Typed', OneReservation, ReservedByGrant, [Next]_vars
             PROVE  (OneReservation /\ ReservedByGrant)'
  OBVIOUS
<1>t. pending \in [ToolUse -> Permission \cup {NoPermission}]
  BY DEF Typed, TypeOK
<1>1. CASE Untouched
  BY <1>1 DEF Untouched, OneReservation, ReservedByGrant
<1>2. CASE Emptied
  BY <1>2 DEF Emptied, OneReservation, ReservedByGrant
<1>3. CASE Cleared
  BY <1>3, <1>t DEF Cleared, ClearTransaction, Reserved, OneReservation, ReservedByGrant
<1>4. ASSUME NEW t \in ToolUse, ReservedBy(t) PROVE (OneReservation /\ ReservedByGrant)'
  <2>1. \A u \in ToolUse : pending[u] = NoPermission
    BY <1>4 DEF ReservedBy, Reserved, ReservedByGrant
  <2> QED
    BY <1>4, <1>t, <2>1 DEF ReservedBy, OneReservation, ReservedByGrant
\* The entry changes, its transaction does not, and there is no new one.
<1>5. ASSUME grant' = grant, pending' \in [ToolUse -> Permission \cup {NoPermission}],
             \A u \in ToolUse : pending'[u] # NoPermission =>
                 pending[u] # NoPermission /\ pending'[u].txn = pending[u].txn
      PROVE  (OneReservation /\ ReservedByGrant)'
  BY <1>5 DEF OneReservation, ReservedByGrant
<1>6. ASSUME NEW t \in ToolUse, BoundTo(t) PROVE (OneReservation /\ ReservedByGrant)'
  <2>1. [pending[t] EXCEPT !.token = hook[t].token].txn = pending[t].txn
    BY <1>6, <1>t DEF BoundTo, Unbound, Permission
  <2> QED
    BY <1>5, <1>6, <1>t, <2>1 DEF BoundTo, Unbound, Typed, TypeOK
<1>7. ASSUME NEW r \in Runner, ClaimedBy(r) PROVE (OneReservation /\ ReservedByGrant)'
  <2> DEFINE t == ticket[runner[r].token].tool
  <2>1. t \in Reserved(ticket[runner[r].token].txn)
    BY <1>7 DEF ClaimedBy, Claimable
  <2>2. t \in ToolUse /\ pending[t] # NoPermission
    BY <2>1 DEF Reserved
  <2>3. [pending[t] EXCEPT !.claimed = TRUE].txn = pending[t].txn
    BY <1>t, <2>2 DEF Permission
  <2>4. pending' = [pending EXCEPT ![t] = [pending[t] EXCEPT !.claimed = TRUE]]
    BY <1>7 DEF ClaimedBy
  <2>5. grant' = grant /\ pending' \in [ToolUse -> Permission \cup {NoPermission}]
    BY <1>7 DEF ClaimedBy, Typed, TypeOK
  <2> HIDE DEF t
  <2> QED
    BY <1>5, <1>t, <2>2, <2>3, <2>4, <2>5
<1>8. ASSUME NEW t \in ToolUse, Retired(t) PROVE (OneReservation /\ ReservedByGrant)'
  <2>1. Emptied
    BY <1>8, <1>t DEF Retired, Charged, OneReservation, Emptied
  <2> QED
    BY <1>2, <2>1
<1>9. ASSUME NEW t \in ToolUse, Released(t) PROVE (OneReservation /\ ReservedByGrant)'
  BY <1>5, <1>9, <1>t DEF Released, Typed, TypeOK
<1> QED
  BY <1>1, <1>2, <1>3, <1>4, <1>6, <1>7, <1>8, <1>9, TableStep

LEMMA SpecReserved == Spec => [](OneReservation /\ ReservedByGrant)
  BY SpecTyped, InitReserved, NextReserved, PTL DEF Spec

\* However many tool uses compete, whatever their hooks saw before they took the
\* lock, and whoever revokes meanwhile, a session never holds two reservations.
THEOREM OneReservationAlways == Spec => []OneReservation
  BY SpecReserved, PTL

------------------------------------------------------------------------------
(* Tickets: the private file, the hook that writes it and the reservation   *)
(* it is bound to never disagree.                                           *)

\* A ticket is written once, and is a request only until a runner moves it.
LEMMA TicketFrame ==
  ASSUME Typed, [Next]_vars, NEW k \in Written
  PROVE  /\ ticket'[k] = ticket[k]
         /\ place'[k] = "request" => place[k] = "request"
<1>t. k \in Token /\ ticket[k] # NoTicket
  BY DEF Written
<1>1. ASSUME NEW t \in ToolUse, WriteTicket(t)
      PROVE  ticket'[k] = ticket[k] /\ (place'[k] = "request" => place[k] = "request")
  <2>1. \/ UNCHANGED <<ticket, place>>
        \/ \E j \in Token : /\ ticket[j] = NoTicket
                            /\ \E q : ticket' = [ticket EXCEPT ![j] = q]
                            /\ place' = [place EXCEPT ![j] = "request"]
    BY <1>1 DEF WriteTicket
  <2>2. ticket \in [Token -> Ticket \cup {NoTicket}]
        /\ place \in [Token -> {"nowhere", "request", "running"}]
    BY DEF Typed, TypeOK
  <2> QED
    BY <1>t, <2>1, <2>2
<1>2. CASE \A t \in ToolUse : ~WriteTicket(t)
  <2>1. UNCHANGED ticket
    BY <1>2 DEF Next, vars, Prompt, PromptGrant, PromptApprove, PromptContinue, PromptOrdinary,
         NewTurn, files, HookStep, RunnerStep, Post,
         HookBegin, HookClassify, AuthorizePermission, AuthorizeTool, Prepare, Bind, HookReply,
         HookRevoke, HookSweep, HookDies, RunDirect, PostRunner, PostDirect, PostDies,
         RunnerStart, MoveTicket, Validate, Claim, RunGit, WriteReceipt, Finish, RunnerRevoke,
         RunnerSweep, ReleaseLease, RunnerDies, Stop,
         GrantLapses, WaitingLapses, TicketLapses, ReceiptLapses
  <2>2. ASSUME NEW x, SweepTransaction(x) PROVE place'[k] = "request" => place[k] = "request"
    BY <2>2, <1>t DEF SweepTransaction
  <2>3. ASSUME NEW l, DropRunning(l) PROVE place'[k] = "request" => place[k] = "request"
    BY <2>3, <1>t DEF DropRunning, Typed, TypeOK
  <2>4. ASSUME NEW t \in ToolUse, HookStep(t) \/ RunDirect(t) \/ Post(t) \/ PostDies(t)
        PROVE  place'[k] = "request" => place[k] = "request"
    <3>1. CASE Bind(t)
      <4>1. \/ place' = place
            \/ place' = [place EXCEPT ![hook[t].token] = IF @ = "request" THEN "nowhere" ELSE @]
        BY <3>1 DEF Bind
      <4> QED
        BY <4>1, <1>t DEF Typed, TypeOK
    <3>2. CASE HookSweep(t)
      BY <3>2, <2>2 DEF HookSweep
    <3>3. CASE PostRunner(t) \/ PostDirect(t) \/ PostDies(t)
      BY <3>3, <2>2 DEF PostRunner, PostDirect, PostDies
    <3>4. CASE \/ HookClassify(t) \/ AuthorizePermission(t) \/ AuthorizeTool(t) \/ Prepare(t)
               \/ HookReply(t) \/ HookRevoke(t) \/ RunDirect(t)
      BY <3>4 DEF HookClassify, AuthorizePermission, AuthorizeTool, Prepare, HookReply,
         HookRevoke, RunDirect, files
    <3> QED
      BY <1>2, <2>4, <3>1, <3>2, <3>3, <3>4 DEF HookStep, Post
  <2>5. ASSUME NEW r \in Runner, RunnerStep(r)
        PROVE  place'[k] = "request" => place[k] = "request"
    BY <2>5, <2>2, <2>3, <1>t
    DEF RunnerStep, files, Typed, TypeOK, MoveTicket, Validate, Claim, RunGit, WriteReceipt,
        Finish, RunnerRevoke, RunnerSweep, ReleaseLease
  <2> QED
    BY <2>1, <2>4, <2>5
    DEF Next, vars, files, Prompt, PromptGrant, PromptApprove, PromptContinue, PromptOrdinary,
        NewTurn, HookBegin, HookDies, RunnerStart, RunnerDies, Stop,
        GrantLapses, WaitingLapses, TicketLapses, ReceiptLapses
<1> QED
  BY <1>1, <1>2

\* Nobody moves a hook but itself and its death.
LEMMA HookFrame ==
  ASSUME Typed, [Next]_vars, NEW t \in ToolUse, hook'[t] # hook[t]
  PROVE  HookBegin(t) \/ HookStep(t) \/ HookDies(t)
<1>t. hook \in [ToolUse -> Hook]
  BY DEF Typed, TypeOK
<1>1. ASSUME NEW u \in ToolUse, u # t, HookBegin(u) \/ HookStep(u) \/ HookDies(u)
      PROVE  hook'[t] = hook[t]
  BY <1>1, <1>t DEF HookStep, HookBegin, HookClassify, AuthorizePermission,
         AuthorizeTool, ToPrepare, ToRevoke, Prepare, WriteTicket, Bind, HookReply, HookRevoke,
         HookSweep, HookDies
<1>2. CASE ~\E u \in ToolUse : HookBegin(u) \/ HookStep(u) \/ HookDies(u)
  BY <1>2 DEF Next, vars, Prompt, PromptGrant, PromptApprove, PromptContinue, PromptOrdinary,
         NewTurn, RunnerStep, Post, RunDirect, PostRunner, PostDirect, PostDies,
         RunnerStart, MoveTicket, Validate, Claim, RunGit, WriteReceipt, Finish, RunnerRevoke,
         RunnerSweep, ReleaseLease, RunnerDies, Stop,
         GrantLapses, WaitingLapses, TicketLapses, ReceiptLapses
<1> QED
  BY <1>1, <1>2

\* How a hook comes to the steps at which it holds a ticket of its own.
LEMMA HookArrives ==
  ASSUME Typed, [Next]_vars, NEW t \in ToolUse
  PROVE  \/ hook'[t] = hook[t]
         \/ hook'[t].pc \notin {"ticket", "bind"}
         \/ /\ Unbound(t) /\ UNCHANGED <<pending, ticket>>
            /\ hook'[t] = [hook[t] EXCEPT !.pc = "ticket", !.txn = pending[t].txn,
                                          !.turn = pending[t].turn]
         \/ /\ hook[t].pc = "ticket" /\ UNCHANGED pending
            /\ \E k \in Token :
                  /\ hook'[t] = [hook[t] EXCEPT !.pc = "bind", !.token = k]
                  /\ ticket' = [ticket EXCEPT ![k] =
                        [txn |-> hook[t].txn, turn |-> hook[t].turn, op |-> hook[t].cmd,
                         tool |-> t]]
<1>t. hook \in [ToolUse -> Hook]
  BY DEF Typed, TypeOK
<1>i. IdleHook.pc = "idle" /\ \A x : Revoking(x).pc = "revoke"
  BY DEF IdleHook, Revoking
<1>2. CASE \/ HookBegin(t) \/ HookClassify(t) \/ AuthorizePermission(t) \/ AuthorizeTool(t)
           \/ Bind(t) \/ HookReply(t) \/ HookRevoke(t) \/ HookSweep(t) \/ HookDies(t)
  <2>1. hook[t] \in Hook
    BY <1>t
  <2>2. hook'[t].pc \notin {"ticket", "bind"}
    <3>1. CASE HookBegin(t)
      BY <3>1, <1>t DEF HookBegin, IdleHook
    <3>2. CASE HookClassify(t) \/ AuthorizePermission(t)
      <4>1. [hook[t] EXCEPT !.pc = "authorize", !.seen = NoPermission].pc = "authorize"
        BY <2>1 DEF Hook
      <4>2. \/ hook'[t] = IdleHook \/ hook'[t] = Revoking(hook[t].seen.txn)
            \/ hook'[t] = [hook[t] EXCEPT !.pc = "authorize", !.seen = NoPermission]
        BY <3>2, <1>t DEF HookClassify, AuthorizePermission
      <4> QED
        BY <4>1, <4>2, <1>i
    <3>3. CASE AuthorizeTool(t)
      <4>1. \A x : [hook[t] EXCEPT !.pc = "prepare", !.txn = x].pc = "prepare"
        BY <2>1 DEF Hook
      <4>2. \/ hook'[t] = IdleHook
            \/ \E x : hook'[t] = [hook[t] EXCEPT !.pc = "prepare", !.txn = x]
        BY <3>3, <1>t DEF AuthorizeTool, ToPrepare
      <4> QED
        BY <4>1, <4>2, <1>i
    <3>4. CASE \/ Bind(t) \/ HookReply(t) \/ HookRevoke(t) \/ HookSweep(t) \/ HookDies(t)
      BY <3>4, <1>t, <1>i, <2>1 DEF Bind, ToRevoke, HookReply, HookRevoke, HookSweep, HookDies, Hook
    <3> QED
      BY <1>2, <3>1, <3>2, <3>3, <3>4
  <2> QED
    BY <2>2
<1>3. CASE Prepare(t)
  <2>1. CASE ToRevoke(t)
    BY <2>1, <1>t, <1>i DEF ToRevoke
  <2>2. CASE ~ToRevoke(t)
    <3>1. /\ Unbound(t) /\ UNCHANGED <<session, files>>
          /\ hook' = [hook EXCEPT ![t] = [@ EXCEPT !.pc = "ticket", !.txn = pending[t].txn,
                                                   !.turn = pending[t].turn]]
      BY <1>3, <2>2 DEF Prepare
    <3> QED
      BY <3>1, <1>t DEF session, files
  <2> QED
    BY <2>1, <2>2
<1>4. CASE WriteTicket(t)
  BY <1>4, <1>t, <1>i DEF WriteTicket, ToRevoke, session
<1> QED
  BY <1>2, <1>3, <1>4, HookFrame DEF HookStep

\* How an entry of the table comes to be what it is.
LEMMA EntryStep ==
  ASSUME Typed, [Next]_vars, NEW t \in ToolUse, pending'[t] # NoPermission
  PROVE  \/ pending'[t] = pending[t]
         \/ /\ ReservedBy(t)
            /\ pending'[t] = [txn |-> grant.txn, turn |-> hook[t].turn, op |-> hook[t].cmd,
                              token |-> NoToken, claimed |-> FALSE]
         \/ /\ BoundTo(t)
            /\ pending'[t] = [pending[t] EXCEPT !.token = hook[t].token]
         \/ \E r \in Runner : /\ ClaimedBy(r) /\ ticket[runner[r].token].tool = t
                              /\ pending'[t] = [pending[t] EXCEPT !.claimed = TRUE]
<1>t. pending \in [ToolUse -> Permission \cup {NoPermission}]
  BY DEF Typed, TypeOK
<1>1. CASE Untouched \/ Emptied \/ Cleared
  BY <1>1 DEF Untouched, Emptied, Cleared, ClearTransaction
<1>2. ASSUME NEW u \in ToolUse, ReservedBy(u)
      PROVE  \/ pending'[t] = pending[t]
             \/ /\ ReservedBy(t)
                /\ pending'[t] = [txn |-> grant.txn, turn |-> hook[t].turn, op |-> hook[t].cmd,
                                  token |-> NoToken, claimed |-> FALSE]
  BY <1>2, <1>t DEF ReservedBy
<1>3. ASSUME NEW u \in ToolUse, BoundTo(u)
      PROVE  \/ pending'[t] = pending[t]
             \/ /\ BoundTo(t)
                /\ pending'[t] = [pending[t] EXCEPT !.token = hook[t].token]
  BY <1>3, <1>t DEF BoundTo
<1>4. ASSUME NEW u \in ToolUse, Retired(u) \/ Released(u) PROVE pending'[t] = pending[t]
  BY <1>4, <1>t DEF Retired, Released
<1>5. ASSUME NEW r \in Runner, ClaimedBy(r)
      PROVE  \/ pending'[t] = pending[t]
             \/ /\ ClaimedBy(r) /\ ticket[runner[r].token].tool = t
                /\ pending'[t] = [pending[t] EXCEPT !.claimed = TRUE]
  BY <1>5, <1>t DEF ClaimedBy
<1> QED
  BY <1>1, <1>2, <1>3, <1>4, <1>5, TableStep

\* The hook of t holds what the reservation of t holds.
HookAgrees(t) ==
    /\ hook[t].pc \in {"ticket", "bind"} /\ pending[t] # NoPermission =>
          /\ pending[t].txn = hook[t].txn /\ pending[t].turn = hook[t].turn
          /\ pending[t].op = hook[t].cmd
    /\ hook[t].pc = "bind" =>
          ticket[hook[t].token] = [txn |-> hook[t].txn, turn |-> hook[t].turn,
                                   op |-> hook[t].cmd, tool |-> t]

Agreed == TicketAgrees /\ \A t \in ToolUse : HookAgrees(t)

LEMMA InitAgreed == Init => Agreed
  BY DEF Init, Agreed, TicketAgrees, HookAgrees, Bound, IdleHook

LEMMA NextAgreed == Typed /\ Agreed /\ [Next]_vars => Agreed'
<1> SUFFICES ASSUME Typed, Agreed, [Next]_vars PROVE Agreed'
  OBVIOUS
<1>t. /\ hook \in [ToolUse -> Hook]
      /\ pending \in [ToolUse -> Permission \cup {NoPermission}]
  BY DEF Typed, TypeOK
<1>f. \A k \in Written : ticket'[k] = ticket[k]
  BY TicketFrame
<1>1. ASSUME NEW t \in ToolUse, Bound(pending[t])'
      PROVE  ticket'[pending'[t].token] = [txn |-> pending'[t].txn, turn |-> pending'[t].turn,
                                           op |-> pending'[t].op, tool |-> t]
  <2>1. pending'[t] # NoPermission /\ pending'[t].token # NoToken
    BY <1>1 DEF Bound
  <2>2. ASSUME Bound(pending[t])
        PROVE  /\ pending[t].token \in Written
               /\ ticket'[pending[t].token] = [txn |-> pending[t].txn, turn |-> pending[t].turn,
                                               op |-> pending[t].op, tool |-> t]
    BY <2>2, <1>f DEF Typed, TokensWritten, Agreed, TicketAgrees
  <2>3. CASE pending'[t] = pending[t]
    BY <2>1, <2>2, <2>3 DEF Bound
  <2>4. CASE pending'[t] = [txn |-> grant.txn, turn |-> hook[t].turn, op |-> hook[t].cmd,
                            token |-> NoToken, claimed |-> FALSE]
    BY <2>1, <2>4
  <2>5. CASE BoundTo(t) /\ pending'[t] = [pending[t] EXCEPT !.token = hook[t].token]
    <3>1. pending[t] \in Permission
      BY <2>5, <1>t DEF BoundTo, Unbound
    <3>2. /\ pending'[t].token = hook[t].token /\ pending'[t].txn = pending[t].txn
          /\ pending'[t].turn = pending[t].turn /\ pending'[t].op = pending[t].op
      BY <2>5, <3>1 DEF Permission
    <3>3. hook[t].pc = "bind" /\ pending[t] # NoPermission
      BY <2>5 DEF BoundTo, Unbound
    <3>4. hook[t].token \in Written
      BY <3>3 DEF Typed, HooksKnow, Knows
    <3>5. HookAgrees(t)
      BY DEF Agreed
    <3> QED
      BY <1>f, <3>2, <3>3, <3>4, <3>5 DEF HookAgrees
  <2>6. CASE \E r \in Runner : /\ ClaimedBy(r) /\ ticket[runner[r].token].tool = t
                               /\ pending'[t] = [pending[t] EXCEPT !.claimed = TRUE]
    <3>1. pending[t] # NoPermission
      BY <2>6 DEF ClaimedBy, Claimable, Reserved
    <3>2. /\ pending'[t].token = pending[t].token /\ pending'[t].txn = pending[t].txn
          /\ pending'[t].turn = pending[t].turn /\ pending'[t].op = pending[t].op
      BY <2>6, <1>t, <3>1 DEF Permission
    <3> QED
      BY <2>1, <2>2, <3>1, <3>2 DEF Bound
  <2> QED
    BY <2>1, <2>3, <2>4, <2>5, <2>6, EntryStep
<1>2. ASSUME NEW t \in ToolUse PROVE HookAgrees(t)'
  <2>h. HookAgrees(t) /\ hook[t] \in Hook
    BY <1>t DEF Agreed
  <2>1. CASE hook'[t].pc \notin {"ticket", "bind"}
    BY <2>1 DEF HookAgrees
  <2>2. CASE hook'[t] = hook[t]
    <3>1. hook[t].pc = "bind" => hook[t].token \in Written
      BY DEF Typed, HooksKnow, Knows
    <3>2. ASSUME hook[t].pc \in {"ticket", "bind"}, pending'[t] # NoPermission
          PROVE  /\ pending[t] # NoPermission
                 /\ pending'[t].txn = pending[t].txn /\ pending'[t].turn = pending[t].turn
                 /\ pending'[t].op = pending[t].op
      <4>1. CASE pending'[t] = pending[t]
        BY <3>2, <4>1
      <4>2. CASE BoundTo(t)
        BY <2>2, <4>2 DEF BoundTo
      <4>3. CASE \E r \in Runner : /\ ClaimedBy(r) /\ ticket[runner[r].token].tool = t
                                   /\ pending'[t] = [pending[t] EXCEPT !.claimed = TRUE]
        <5>1. pending[t] # NoPermission
          BY <4>3 DEF ClaimedBy, Claimable, Reserved
        <5> QED
          BY <4>3, <1>t, <5>1 DEF Permission
      <4>4. ~ReservedBy(t)
        BY <3>2 DEF ReservedBy
      <4> QED
        BY <3>2, <4>1, <4>2, <4>3, <4>4, EntryStep
    <3> QED
      BY <1>f, <2>2, <2>h, <3>1, <3>2 DEF HookAgrees
  <2>3. CASE /\ Unbound(t) /\ UNCHANGED <<pending, ticket>>
             /\ hook'[t] = [hook[t] EXCEPT !.pc = "ticket", !.txn = pending[t].txn,
                                           !.turn = pending[t].turn]
    <3>1. /\ hook'[t].pc = "ticket" /\ hook'[t].txn = pending[t].txn
          /\ hook'[t].turn = pending[t].turn /\ hook'[t].cmd = hook[t].cmd
      BY <2>3, <2>h DEF Hook
    <3> QED
      BY <2>3, <3>1 DEF HookAgrees, Unbound
  <2>4. CASE /\ hook[t].pc = "ticket" /\ UNCHANGED pending
             /\ \E k \in Token :
                   /\ hook'[t] = [hook[t] EXCEPT !.pc = "bind", !.token = k]
                   /\ ticket' = [ticket EXCEPT ![k] =
                         [txn |-> hook[t].txn, turn |-> hook[t].turn, op |-> hook[t].cmd,
                          tool |-> t]]
    <3>1. PICK k \in Token :
             /\ hook'[t] = [hook[t] EXCEPT !.pc = "bind", !.token = k]
             /\ ticket' = [ticket EXCEPT ![k] =
                   [txn |-> hook[t].txn, turn |-> hook[t].turn, op |-> hook[t].cmd, tool |-> t]]
      BY <2>4
    <3>2. /\ hook'[t].pc = "bind" /\ hook'[t].txn = hook[t].txn /\ hook'[t].token = k
          /\ hook'[t].turn = hook[t].turn /\ hook'[t].cmd = hook[t].cmd
      BY <3>1, <2>h DEF Hook
    <3>3. ticket'[k] = [txn |-> hook[t].txn, turn |-> hook[t].turn, op |-> hook[t].cmd,
                        tool |-> t]
      BY <3>1 DEF Typed, TypeOK
    <3> QED
      BY <2>4, <2>h, <3>2, <3>3 DEF HookAgrees
  <2> QED
    BY <2>1, <2>2, <2>3, <2>4, HookArrives
<1> QED
  BY <1>1, <1>2 DEF Agreed, TicketAgrees

LEMMA SpecAgreed == Spec => []Agreed
  BY SpecTyped, InitAgreed, NextAgreed, PTL DEF Spec

\* A reservation bound to a token and the ticket of the token, two stores that no
\* common lock guards, name the same transaction, turn, operation and tool use.
THEOREM TicketAlwaysAgrees == Spec => []TicketAgrees
  BY SpecAgreed, PTL DEF Agreed

------------------------------------------------------------------------------
(* A ticket that was taken stays taken.                                     *)

\* A runner that goes on has taken its ticket away from the request name.
TicketTaken ==
    \A r \in Runner : runner[r].pc \notin {"idle", "move", "release"} =>
        place[runner[r].token] # "request"

ClaimTaken ==
    \A t \in ToolUse : pending[t] # NoPermission /\ pending[t].claimed =>
        Bound(pending[t]) /\ place[pending[t].token] # "request"

\* Nobody moves a runner but itself and its death.
LEMMA RunnerFrame ==
  ASSUME Typed, [Next]_vars, NEW r \in Runner, runner'[r] # runner[r]
  PROVE  RunnerStart(r) \/ RunnerStep(r) \/ RunnerDies(r)
<1>t. runner \in [Runner -> RunnerProcess]
  BY DEF Typed, TypeOK
<1>1. ASSUME NEW q \in Runner, q # r, RunnerStart(q) \/ RunnerStep(q) \/ RunnerDies(q)
      PROVE  runner'[r] = runner[r]
  BY <1>1, <1>t DEF RunnerStep, RunnerStart, MoveTicket, Validate, Claim, RunGit,
     WriteReceipt, Finish, RunnerRevoke, RunnerSweep, ReleaseLease, RunnerDies, RunnerGoto
<1>2. CASE ~\E q \in Runner : RunnerStart(q) \/ RunnerStep(q) \/ RunnerDies(q)
  BY <1>2 DEF Next, vars, Prompt, PromptGrant, PromptApprove, PromptContinue, PromptOrdinary,
         NewTurn, HookStep, Post, HookBegin, HookClassify, AuthorizePermission, AuthorizeTool,
         Prepare, WriteTicket, Bind, HookReply, HookRevoke, HookSweep, HookDies, RunDirect,
         PostRunner, PostDirect, PostDies, Stop,
         GrantLapses, WaitingLapses, TicketLapses, ReceiptLapses
<1> QED
  BY <1>1, <1>2

\* What a runner is doing, or the step that starts it, that takes its ticket.
LEMMA RunnerArrives ==
  ASSUME Typed, [Next]_vars, NEW r \in Runner
  PROVE  \/ runner'[r].pc \in {"idle", "move", "release"}
         \/ /\ runner[r].pc \notin {"idle", "move", "release"}
            /\ runner'[r].token = runner[r].token
         \/ MoveTicket(r)
<1>t. runner \in [Runner -> RunnerProcess]
  BY DEF Typed, TypeOK
<1>2. ASSUME NEW l, RunnerGoto(r, l) PROVE runner'[r].token = runner[r].token
  BY <1>2, <1>t DEF RunnerGoto, RunnerProcess
<1>3. CASE RunnerStart(r) \/ ReleaseLease(r) \/ RunnerDies(r)
  BY <1>3, <1>t DEF RunnerStart, ReleaseLease, RunnerDies, IdleRunner
<1>4. CASE \/ Validate(r) \/ Claim(r) \/ RunGit(r) \/ WriteReceipt(r) \/ Finish(r)
           \/ RunnerRevoke(r) \/ RunnerSweep(r)
  BY <1>2, <1>4 DEF Validate, Claim, RunGit, WriteReceipt, Finish, RunnerRevoke, RunnerSweep, At
<1> QED
  BY <1>3, <1>4, RunnerFrame DEF RunnerStep

LEMMA NextTaken == Typed /\ TicketTaken /\ [Next]_vars => TicketTaken'
<1> SUFFICES ASSUME Typed, TicketTaken, [Next]_vars, NEW r \in Runner,
                    runner'[r].pc \notin {"idle", "move", "release"}
             PROVE  place'[runner'[r].token] # "request"
  BY DEF TicketTaken
<1>1. CASE runner[r].pc \notin {"idle", "move", "release"} /\ runner'[r].token = runner[r].token
  <2>1. runner[r].token \in Written
    BY <1>1 DEF Typed, TokensWritten
  <2> QED
    BY <1>1, <2>1, TicketFrame DEF TicketTaken
<1>2. CASE MoveTicket(r)
  <2>1. runner'[r].token = runner[r].token /\ runner[r].token \in Token
    BY <1>2 DEF MoveTicket, At, RunnerGoto, Typed, TypeOK, RunnerProcess, TokensWritten, Written
  <2>2. runner'[r].pc = "release" \/ place' = [place EXCEPT ![runner[r].token] = "running"]
    BY <1>2 DEF MoveTicket, RunnerGoto, Typed, TypeOK, RunnerProcess
  <2> QED
    BY <2>1, <2>2 DEF Typed, TypeOK
<1> QED
  BY <1>1, <1>2, RunnerArrives

LEMMA NextClaimTaken == Typed /\ TicketTaken /\ ClaimTaken /\ [Next]_vars => ClaimTaken'
<1> SUFFICES ASSUME Typed, TicketTaken, ClaimTaken, [Next]_vars, NEW t \in ToolUse,
                    pending'[t] # NoPermission, pending'[t].claimed
             PROVE  Bound(pending'[t]) /\ place'[pending'[t].token] # "request"
  BY DEF ClaimTaken
<1>t. pending \in [ToolUse -> Permission \cup {NoPermission}]
  BY DEF Typed, TypeOK
<1>1. CASE pending'[t] = pending[t]
  <2>1. Bound(pending[t]) /\ place[pending[t].token] # "request"
    BY <1>1 DEF ClaimTaken
  <2>2. pending[t].token \in Written
    BY <2>1 DEF Typed, TokensWritten
  <2> QED
    BY <1>1, <2>1, <2>2, TicketFrame
<1>2. CASE BoundTo(t) /\ pending'[t] = [pending[t] EXCEPT !.token = hook[t].token]
  <2>1. pending[t] \in Permission
    BY <1>2, <1>t DEF BoundTo, Unbound
  <2>2. pending'[t].claimed = pending[t].claimed
    BY <1>2, <2>1 DEF Permission
  <2> QED
    BY <1>2, <2>2 DEF BoundTo
<1>3. ASSUME NEW r \in Runner, ClaimedBy(r), ticket[runner[r].token].tool = t,
             pending'[t] = [pending[t] EXCEPT !.claimed = TRUE]
      PROVE  Bound(pending'[t]) /\ place'[pending'[t].token] # "request"
  <2>1. pending[t] # NoPermission /\ pending[t].token = runner[r].token
    BY <1>3 DEF ClaimedBy, Claimable, Reserved
  <2>2. pending'[t].token = runner[r].token
    BY <1>3, <1>t, <2>1 DEF Permission
  <2>3. runner[r].pc = "claim"
    BY <1>3 DEF ClaimedBy, At
  <2>4. runner[r].token \in Written /\ place[runner[r].token] # "request"
    BY <2>3 DEF Typed, TokensWritten, TicketTaken
  <2>5. place'[runner[r].token] # "request"
    BY <2>4, TicketFrame
  <2> QED
    BY <2>2, <2>4, <2>5 DEF Bound, Written
<1>4. CASE pending'[t] = [txn |-> grant.txn, turn |-> hook[t].turn, op |-> hook[t].cmd,
                          token |-> NoToken, claimed |-> FALSE]
  BY <1>4
<1> QED
  BY <1>1, <1>2, <1>3, <1>4, EntryStep

LEMMA SpecTaken == Spec => [](TicketTaken /\ ClaimTaken)
<1>1. Init => TicketTaken /\ ClaimTaken
  BY DEF Init, IdleRunner, TicketTaken, ClaimTaken
<1> QED
  BY <1>1, SpecTyped, NextTaken, NextClaimTaken, PTL DEF Spec

\* Once a runner has claimed a reservation no other can move its ticket: the
\* command may be replayed, the operation is not.
THEOREM ClaimIsAlwaysFinal == Spec => []ClaimIsFinal
<1>1. ClaimTaken => ClaimIsFinal
  BY DEF ClaimTaken, ClaimIsFinal
<1> QED
  BY <1>1, SpecTaken, PTL

------------------------------------------------------------------------------
(* What a step may do to the grant.                                         *)

\* The turn of the session is the turn of the host; before the first prompt and
\* after the session file is gone there is no turn and no grant.
TurnKnown == /\ turn \in {NoTurn, hostTurn}
             /\ turn = NoTurn => grant = NoGrant

LEMMA TurnBegins ==
  ASSUME Typed, Prompt
  PROVE  /\ hostTurn' = hostTurn + 1 /\ turn' = hostTurn + 1
         /\ hostTurn' # hostTurn /\ hostTurn' # NoTurn
<1>1. NewTurn
  BY DEF Prompt, PromptGrant, PromptApprove, PromptContinue, PromptOrdinary
<1>2. hostTurn \in Nat
  BY DEF Typed, TypeOK, Turn, NoTurn
<1> QED
  BY <1>1, <1>2 DEF NewTurn, NoTurn

LEMMA TurnFrame ==
  ASSUME [Next]_vars
  PROVE  UNCHANGED <<turn, hostTurn>> \/ Prompt \/ Stop
<1>1. ASSUME NEW t \in ToolUse, HookBegin(t) \/ HookStep(t) \/ HookDies(t)
      PROVE  UNCHANGED <<turn, hostTurn>>
  BY <1>1 DEF HookStep, session, HookBegin, HookClassify, AuthorizePermission, AuthorizeTool,
     Prepare, WriteTicket, Bind, HookReply, HookRevoke, HookSweep, HookDies
<1>2. ASSUME NEW t \in ToolUse, RunDirect(t) \/ Post(t) \/ PostDies(t)
      PROVE  UNCHANGED <<turn, hostTurn>>
  BY <1>2 DEF session, RunDirect, Post, PostRunner, PostDirect, PostDies
<1>3. ASSUME NEW r \in Runner, RunnerStart(r) \/ RunnerStep(r) \/ RunnerDies(r)
      PROVE  UNCHANGED <<turn, hostTurn>>
  BY <1>3 DEF RunnerStep, session, RunnerStart, MoveTicket, Validate, Claim, RunGit,
     WriteReceipt, Finish, RunnerRevoke, RunnerSweep, ReleaseLease, RunnerDies
<1>4. CASE \/ GrantLapses \/ WaitingLapses \/ UNCHANGED vars
           \/ \E k \in Token : TicketLapses(k) \/ ReceiptLapses(k)
  BY <1>4 DEF GrantLapses, WaitingLapses, TicketLapses, ReceiptLapses, session, vars
<1> QED
  BY <1>1, <1>2, <1>3, <1>4 DEF Next

\* Outside a prompt the grant stays, goes, or retires one more operation.
LEMMA GrantStep ==
  ASSUME Typed, [Next]_vars, ~Prompt
  PROVE  \/ UNCHANGED grant \/ grant' = NoGrant
         \/ \E t \in ToolUse : /\ Charged(t)
                               /\ grant' = [grant EXCEPT !.consumed = @ \cup {pending[t].op}]
<1>1. CASE Untouched \/ Cleared
  BY <1>1 DEF Untouched, Cleared, ClearTransaction
<1>2. CASE Stop
  BY <1>2 DEF Stop
<1>3. ASSUME NEW t \in ToolUse, AuthorizeTool(t) \/ Bind(t) PROVE UNCHANGED grant
  BY <1>3 DEF AuthorizeTool, Bind
<1>4. ASSUME NEW t \in ToolUse, HookRevoke(t) \/ PostRunner(t) \/ PostDirect(t)
      PROVE  \/ UNCHANGED grant \/ grant' = NoGrant
             \/ /\ Charged(t)
                /\ grant' = [grant EXCEPT !.consumed = @ \cup {pending[t].op}]
  BY <1>4 DEF HookRevoke, PostRunner, PostDirect, ClearTransaction, Retire
<1>5. ASSUME NEW r \in Runner, Claim(r) \/ RunnerRevoke(r)
      PROVE  UNCHANGED grant \/ grant' = NoGrant
  BY <1>5 DEF Claim, RunnerRevoke, ClearTransaction
<1>6. CASE UNCHANGED <<grant, pending>>
  BY <1>6
<1> QED
  BY <1>2, <1>3, <1>4, <1>5, <1>6, TableFrame

\* A revoked, completed or dropped transaction never comes back, and the ledger
\* of the one that stays only grows.
THEOREM GrantAlwaysAges == Spec => GrantOnlyAges
<1>1. ASSUME Typed, [Next]_vars, grant' # NoGrant
      PROVE  \/ grant'.txn = hostTurn' /\ hostTurn' # hostTurn
             \/ /\ grant # NoGrant
                /\ grant'.txn = grant.txn /\ grant'.ops = grant.ops
                /\ grant.consumed \subseteq grant'.consumed
  <2>1. CASE PromptGrant \/ PromptApprove
    BY <2>1, <1>1, TurnBegins DEF Prompt, PromptGrant, PromptApprove, FreshGrant
  <2>2. CASE PromptContinue
    BY <2>2 DEF PromptContinue, Continuable, Usable, Grant, Typed, TypeOK
  <2>3. CASE PromptOrdinary
    BY <1>1, <2>3 DEF PromptOrdinary
  <2>4. ASSUME NEW t \in ToolUse, Charged(t),
               grant' = [grant EXCEPT !.consumed = @ \cup {pending[t].op}]
        PROVE  /\ grant # NoGrant
               /\ grant'.txn = grant.txn /\ grant'.ops = grant.ops
               /\ grant.consumed \subseteq grant'.consumed
    <3>1. grant \in Grant \cup {NoGrant} /\ grant # NoGrant
      BY <1>1, <2>4 DEF Charged, Typed, TypeOK
    <3> QED
      BY <2>4, <3>1 DEF Grant
  <2> QED
    BY <1>1, <2>1, <2>2, <2>3, <2>4, GrantStep DEF Prompt
<1>2. Typed /\ [Next]_vars =>
        [grant' # NoGrant =>
            \/ grant'.txn = hostTurn' /\ hostTurn' # hostTurn
            \/ /\ grant # NoGrant
               /\ grant'.txn = grant.txn /\ grant'.ops = grant.ops
               /\ grant.consumed \subseteq grant'.consumed]_vars
  BY <1>1
<1> QED
  BY <1>2, SpecTyped, PTL DEF Spec, GrantOnlyAges

LEMMA NextTurnKnown == Typed /\ TurnKnown /\ [Next]_vars => TurnKnown'
<1> SUFFICES ASSUME Typed, TurnKnown, [Next]_vars PROVE TurnKnown'
  OBVIOUS
<1>1. CASE Prompt
  BY <1>1, TurnBegins DEF TurnKnown
<1>2. CASE Stop
  BY <1>2 DEF Stop, TurnKnown
<1>3. CASE UNCHANGED <<turn, hostTurn>> /\ ~Prompt
  <2>1. grant = NoGrant => grant' = NoGrant
    BY <1>3, GrantStep DEF Charged
  <2> QED
    BY <1>3, <2>1 DEF TurnKnown
<1> QED
  BY <1>1, <1>2, <1>3, TurnFrame

LEMMA SpecTurnKnown == Spec => []TurnKnown
<1>1. Init => TurnKnown
  BY DEF Init, TurnKnown
<1> QED
  BY <1>1, SpecTyped, NextTurnKnown, PTL DEF Spec

\* Within a turn a grant is taken away only on account of its own transaction: by
\* the hook that holds its reservation, or one that revokes that very transaction.
THEOREM RevocationIsAlwaysOwn == Spec => RevocationIsOwn
<1>1. ASSUME Typed, TurnKnown, [Next]_vars, grant # NoGrant, grant' = NoGrant, turn' = turn
      PROVE  \/ Reserved(grant.txn) # {}
             \/ \E t \in ToolUse : hook[t].pc = "revoke" /\ hook[t].txn = grant.txn
             \/ \E r \in Runner : /\ At(r, "revoke")
                                  /\ ticket[runner[r].token].txn = grant.txn
  <2>1. CASE Prompt
    BY <1>1, <2>1, TurnBegins DEF TurnKnown
  <2>2. CASE Stop
    BY <1>1, <2>2 DEF Stop, TurnKnown
  <2>3. ASSUME NEW t \in ToolUse, AuthorizeTool(t) \/ Bind(t) PROVE FALSE
    BY <1>1, <2>3 DEF AuthorizeTool, Bind
  <2>4. ASSUME NEW t \in ToolUse, HookRevoke(t)
        PROVE  hook[t].pc = "revoke" /\ hook[t].txn = grant.txn
    BY <1>1, <2>4 DEF HookRevoke, ClearTransaction
  <2>5. ASSUME NEW t \in ToolUse, PostRunner(t) \/ PostDirect(t) PROVE Reserved(grant.txn) # {}
    <3>1. Charged(t)
      BY <1>1, <2>5 DEF PostRunner, PostDirect
    <3> QED
      BY <3>1 DEF Charged, Reserved
  <2>6. ASSUME NEW r \in Runner, Claim(r) PROVE FALSE
    BY <1>1, <2>6 DEF Claim
  <2>7. ASSUME NEW r \in Runner, RunnerRevoke(r)
        PROVE  At(r, "revoke") /\ ticket[runner[r].token].txn = grant.txn
    BY <1>1, <2>7 DEF RunnerRevoke, ClearTransaction
  <2> QED
    BY <1>1, <2>1, <2>2, <2>3, <2>4, <2>5, <2>6, <2>7, TableFrame
<1>2. Typed /\ TurnKnown /\ [Next]_vars =>
        [grant # NoGrant /\ grant' = NoGrant /\ turn' = turn =>
            \/ Reserved(grant.txn) # {}
            \/ \E t \in ToolUse : hook[t].pc = "revoke" /\ hook[t].txn = grant.txn
            \/ \E r \in Runner : /\ At(r, "revoke")
                                 /\ ticket[runner[r].token].txn = grant.txn]_vars
  BY <1>1
<1> QED
  BY <1>2, SpecTyped, SpecTurnKnown, PTL DEF Spec, RevocationIsOwn

------------------------------------------------------------------------------
(* Hooks and runners end.  None of them waits for another, and no failure    *)
(* sends one back.                                                           *)

\* How many steps of its own a hook at step l, or a runner, has left at most.
HookLeft(l) ==
    CASE l = "classify" -> 7   [] l = "authorize" -> 6   [] l = "prepare" -> 5
      [] l = "ticket" -> 4     [] l = "bind" -> 3        [] l = "revoke" -> 2
      [] l \in {"reply", "sweep"} -> 1                   [] l = "idle" -> 0

RunnerLeft(l) ==
    CASE l = "move" -> 8       [] l = "validate" -> 7    [] l = "claim" -> 6
      [] l = "git" -> 5        [] l \in {"receipt", "failed"} -> 4
      [] l = "revoke" -> 3     [] l \in {"finish", "sweep"} -> 2
      [] l = "release" -> 1    [] l = "idle" -> 0

\* Whatever changes a hook or a runner that is under way brings it nearer to its end.
ProcessesGetOn ==
    [][/\ \A t \in ToolUse : hook[t].pc # "idle" /\ hook'[t] # hook[t]
                               => HookLeft(hook'[t].pc) < HookLeft(hook[t].pc)
       /\ \A r \in Runner : ~At(r, "idle") /\ runner'[r] # runner[r]
                               => RunnerLeft(runner'[r].pc) < RunnerLeft(runner[r].pc)]_vars

LEMMA StepsLeft ==
  ASSUME Typed
  PROVE  /\ \A t \in ToolUse : HookLeft(hook[t].pc) \in 0 .. 7
         /\ \A r \in Runner : RunnerLeft(runner[r].pc) \in 0 .. 8
<1>1. /\ \A t \in ToolUse : hook[t].pc \in HookSteps
      /\ \A r \in Runner : runner[r].pc \in RunnerSteps
  BY DEF Typed, TypeOK, Hook, RunnerProcess
<1> QED
  BY <1>1 DEF HookLeft, RunnerLeft, HookSteps, RunnerSteps

\* The steps a hook can go to from each of its steps.
LEMMA HookGoesOn ==
  ASSUME Typed, [Next]_vars, NEW t \in ToolUse, hook[t].pc # "idle", hook'[t] # hook[t]
  PROVE  \/ hook'[t].pc = "idle"
         \/ hook[t].pc = "classify" /\ hook'[t].pc \in {"authorize", "revoke"}
         \/ hook[t].pc = "authorize" /\ hook'[t].pc = "prepare"
         \/ hook[t].pc = "prepare" /\ hook'[t].pc \in {"ticket", "revoke"}
         \/ hook[t].pc = "ticket" /\ hook'[t].pc \in {"bind", "revoke"}
         \/ hook[t].pc = "bind" /\ hook'[t].pc \in {"reply", "revoke"}
         \/ hook[t].pc = "revoke" /\ hook'[t].pc = "sweep"
<1>t. hook \in [ToolUse -> Hook] /\ hook[t] \in Hook
  BY DEF Typed, TypeOK
<1>i. IdleHook.pc = "idle" /\ \A x : Revoking(x).pc = "revoke"
  BY DEF IdleHook, Revoking
<1>1. CASE HookClassify(t)
  <2>1. [hook[t] EXCEPT !.pc = "authorize", !.seen = NoPermission].pc = "authorize"
    BY <1>t DEF Hook
  <2>2. \/ hook'[t] = IdleHook \/ hook'[t] = Revoking(hook[t].seen.txn)
        \/ hook'[t] = [hook[t] EXCEPT !.pc = "authorize", !.seen = NoPermission]
    BY <1>1, <1>t DEF HookClassify
  <2> QED
    BY <1>1, <1>i, <2>1, <2>2 DEF HookClassify
<1>2. CASE AuthorizeTool(t)
  <2>1. \A x : [hook[t] EXCEPT !.pc = "prepare", !.txn = x].pc = "prepare"
    BY <1>t DEF Hook
  <2>2. \/ hook'[t] = IdleHook
        \/ \E x : hook'[t] = [hook[t] EXCEPT !.pc = "prepare", !.txn = x]
    BY <1>2, <1>t DEF AuthorizeTool, ToPrepare
  <2> QED
    BY <1>2, <1>i, <2>1, <2>2 DEF AuthorizeTool
<1>3. CASE Prepare(t)
  <2>1. \A x, n : [hook[t] EXCEPT !.pc = "ticket", !.txn = x, !.turn = n].pc = "ticket"
    BY <1>t DEF Hook
  <2>2. \/ hook'[t] = Revoking(hook[t].txn)
        \/ \E x, n : hook'[t] = [hook[t] EXCEPT !.pc = "ticket", !.txn = x, !.turn = n]
    BY <1>3, <1>t DEF Prepare, ToRevoke
  <2> QED
    BY <1>3, <1>i, <2>1, <2>2 DEF Prepare
<1>4. CASE WriteTicket(t)
  <2>1. \A k : [hook[t] EXCEPT !.pc = "bind", !.token = k].pc = "bind"
    BY <1>t DEF Hook
  <2>2. \/ hook'[t] = Revoking(hook[t].txn)
        \/ \E k : hook'[t] = [hook[t] EXCEPT !.pc = "bind", !.token = k]
    BY <1>4, <1>t DEF WriteTicket, ToRevoke
  <2> QED
    BY <1>4, <1>i, <2>1, <2>2 DEF WriteTicket
<1>5. CASE Bind(t) \/ HookRevoke(t)
  BY <1>5, <1>t, <1>i DEF Bind, ToRevoke, HookRevoke, Hook
<1>6. CASE AuthorizePermission(t) \/ HookReply(t) \/ HookSweep(t) \/ HookDies(t)
  BY <1>6, <1>t, <1>i DEF AuthorizePermission, HookReply, HookSweep, HookDies
<1> QED
  BY <1>1, <1>2, <1>3, <1>4, <1>5, <1>6, HookFrame DEF HookStep, HookBegin

\* The steps a runner can go to from each of its steps.
LEMMA RunnerGoesOn ==
  ASSUME Typed, [Next]_vars, NEW r \in Runner, ~At(r, "idle"), runner'[r] # runner[r]
  PROVE  \/ runner'[r].pc = "idle"
         \/ At(r, "move") /\ runner'[r].pc \in {"validate", "release"}
         \/ At(r, "validate") /\ runner'[r].pc \in {"claim", "revoke", "release"}
         \/ At(r, "claim") /\ runner'[r].pc \in {"git", "revoke"}
         \/ At(r, "git") /\ runner'[r].pc \in {"receipt", "failed"}
         \/ (At(r, "receipt") \/ At(r, "failed")) /\ runner'[r].pc \in {"finish", "revoke"}
         \/ At(r, "revoke") /\ runner'[r].pc = "sweep"
         \/ (At(r, "finish") \/ At(r, "sweep")) /\ runner'[r].pc = "release"
<1>t. runner \in [Runner -> RunnerProcess] /\ IdleRunner.pc = "idle"
  BY DEF Typed, TypeOK, IdleRunner
<1>1. ASSUME NEW l, RunnerGoto(r, l) PROVE runner'[r].pc = l
  BY <1>1, <1>t DEF RunnerGoto, RunnerProcess
<1>2. CASE MoveTicket(r) \/ Validate(r) \/ Claim(r)
  BY <1>1, <1>2 DEF MoveTicket, Validate, Claim
<1>3. CASE RunGit(r) \/ WriteReceipt(r) \/ Finish(r) \/ RunnerRevoke(r) \/ RunnerSweep(r)
  BY <1>1, <1>3 DEF RunGit, WriteReceipt, Finish, RunnerRevoke, RunnerSweep
<1>4. CASE ReleaseLease(r) \/ RunnerDies(r)
  BY <1>4, <1>t DEF ReleaseLease, RunnerDies
<1> QED
  BY <1>2, <1>3, <1>4, RunnerFrame DEF RunnerStep, RunnerStart

(***************************************************************************)
(* Hooks and runners of any number, whatever they find and whatever fails, *)
(* end by themselves: a hook after at most seven steps, a runner after at  *)
(* most eight.  Neither waits for the other, is moved by another process,  *)
(* or is sent back by a failure, the failures of its recovery included.    *)
(***************************************************************************)
THEOREM ProcessesEnd ==
    Spec => /\ [](/\ \A t \in ToolUse : HookLeft(hook[t].pc) \in 0 .. 7
                 /\ \A r \in Runner : RunnerLeft(runner[r].pc) \in 0 .. 8)
            /\ ProcessesGetOn
<1>1. ASSUME Typed, [Next]_vars, NEW t \in ToolUse, hook[t].pc # "idle", hook'[t] # hook[t]
      PROVE  HookLeft(hook'[t].pc) < HookLeft(hook[t].pc)
  <2>1. hook[t].pc \in HookSteps \ {"idle"}
    BY <1>1 DEF Typed, TypeOK, Hook
  <2>2. HookLeft("idle") = 0 /\ HookLeft(hook[t].pc) \in 1 .. 7
    BY <2>1 DEF HookLeft, HookSteps
  <2>3. CASE hook'[t].pc # "idle"
    BY <1>1, <2>3, HookGoesOn DEF HookLeft
  <2> QED
    BY <2>2, <2>3
<1>2. ASSUME Typed, [Next]_vars, NEW r \in Runner, ~At(r, "idle"), runner'[r] # runner[r]
      PROVE  RunnerLeft(runner'[r].pc) < RunnerLeft(runner[r].pc)
  <2>1. runner[r].pc \in RunnerSteps \ {"idle"}
    BY <1>2 DEF Typed, TypeOK, RunnerProcess, At
  <2>2. RunnerLeft("idle") = 0 /\ RunnerLeft(runner[r].pc) \in 1 .. 8
    BY <2>1 DEF RunnerLeft, RunnerSteps
  <2>3. CASE runner'[r].pc # "idle"
    BY <1>2, <2>3, RunnerGoesOn DEF RunnerLeft, At
  <2> QED
    BY <2>2, <2>3
<1>3. Typed /\ [Next]_vars =>
        [/\ \A t \in ToolUse : hook[t].pc # "idle" /\ hook'[t] # hook[t]
                                => HookLeft(hook'[t].pc) < HookLeft(hook[t].pc)
         /\ \A r \in Runner : ~At(r, "idle") /\ runner'[r] # runner[r]
                                => RunnerLeft(runner'[r].pc) < RunnerLeft(runner[r].pc)]_vars
  BY <1>1, <1>2
<1>4. Typed => /\ \A t \in ToolUse : HookLeft(hook[t].pc) \in 0 .. 7
               /\ \A r \in Runner : RunnerLeft(runner[r].pc) \in 0 .. 8
  BY StepsLeft
<1> QED
  BY <1>3, <1>4, SpecTyped, PTL DEF Spec, ProcessesGetOn
==============================================================================
