--------------------------- MODULE GitTransaction ---------------------------
(***************************************************************************)
(* The scoped Git transaction of one session, from the prompt that grants  *)
(* it to the receipt that retires each operation.                          *)
(*                                                                         *)
(* Actors: the prompt hook, one hook process per tool use (PreToolUse and  *)
(* PermissionRequest), the one-time Git runners the host starts from a     *)
(* rewritten command, the PostToolUse and Stop hooks.  They share          *)
(*   - the session state (turn, grant, pending, waiting), which changes    *)
(*     by whole mutate_session calls (module StateStore), and              *)
(*   - private files that no lock guards: the ticket of a token, first     *)
(*     .git-runner-request-, then .git-runner-running-; its receipt        *)
(*     .git-runner-status-; and its lease.                                 *)
(* Any process may die between two of its steps, and any lock wait, write  *)
(* or recheck of the repository may fail.                                  *)
(*                                                                         *)
(* A transaction_id hashes the turn that issued it, so a transaction is    *)
(* named here by that turn.  One repository scope: an operation stands for *)
(* its (scope_hash, operation, command digest).                            *)
(***************************************************************************)
EXTENDS Integers, FiniteSets

CONSTANTS ToolUse,       \* tool_use_id values
          Op,            \* operations of the scope, each with its exact command
          Publication,   \* those a continuation needs: push, repo_create
          Token,         \* runner tokens
          Runner,        \* runner processes
          Altered,       \* a command shaped like a runner's that carries no issued token
          Ambiguous,     \* two different operations wait for approval
          NoGrant, NoPermission, NoTicket, NoToken, NoWaiting, NoDirect,
          Requests,      \* sets of operations a prompt may authorize
          MaxTurn,       \* bound: prompts TLC explores
          MaxMishaps     \* bound: deaths, failures and expiries TLC explores

Turn == 1 .. MaxTurn
NoTurn == 0
Command == Op \cup Token \cup {Altered}

Grant == [txn : Turn, turn : Turn, ops : SUBSET Op, consumed : SUBSET Op,
          single : BOOLEAN]
Permission == [txn : Turn, turn : Turn, op : Op, token : Token \cup {NoToken},
               claimed : BOOLEAN]
Ticket == [txn : Turn, turn : Turn, op : Op, tool : ToolUse]
Waiting == [op : Op \cup {Ambiguous}, old : BOOLEAN]
Direct == [txn : Turn, op : Op, fate : {"permitted", "success", "failure"}]

HookSteps == {"idle", "classify", "authorize", "prepare", "ticket", "bind",
              "reply", "revoke", "sweep"}
RunnerSteps == {"idle", "move", "validate", "claim", "git", "receipt",
                "failed", "finish", "revoke", "sweep", "release"}

Hook == [pc : HookSteps, event : {"pre", "permission"}, cmd : Command,
         turn : Turn \cup {NoTurn}, seen : Permission \cup {NoPermission},
         txn : Turn \cup {NoTurn}, token : Token \cup {NoToken}]
RunnerProcess == [pc : RunnerSteps, token : Token \cup {NoToken}]

ASSUME ConstantAssumption ==
    /\ MaxTurn \in Nat /\ MaxMishaps \in Nat
    /\ Publication \subseteq Op /\ Requests \subseteq (SUBSET Op) \ {{}}
    /\ Altered \notin Op \cup Token /\ Op \cap Token = {}
    /\ NoToken \notin Token /\ Ambiguous \notin Op
    /\ NoGrant \notin Grant /\ NoPermission \notin Permission
    /\ NoTicket \notin Ticket /\ NoWaiting \notin Waiting /\ NoDirect \notin Direct

VARIABLES
    \* session state
    turn,       \* current_turn_id
    grant,      \* local_git_grant
    pending,    \* pending_permission_authorizations with a transaction_id
    waiting,    \* pending_local_git
    \* private files, by token
    ticket,     \* what the ticket says, once written (it never changes)
    place,      \* where the ticket file is: nowhere, request or running
    receipt,    \* none, success or failure (an expired receipt counts as failure)
    lease,      \* none, held, or dead: the file outlived its process
    \* processes
    hook,       \* the hook process of each tool use
    runner,     \* the runner processes
    \* the host and the clock
    hostTurn,   \* the turn the host is in
    offered,    \* tokens whose runner command reached the host
    direct,     \* original commands a PermissionRequest let through, and their fate
    lapsed,     \* transactions issued more than thirty minutes ago
    late,       \* tickets created more than five minutes ago
    mishaps,    \* deaths, failures and expiries so far
    \* history, read by no action
    approved,   \* operations each transaction was granted for
    ran,        \* times each operation took effect under each transaction
    severed     \* transactions continued while one of their reservations was open

session == <<turn, grant, pending, waiting>>
files == <<ticket, place, receipt, lease>>
deadlines == <<lapsed, late>>
clock == <<lapsed, late, mishaps>>
history == <<approved, ran, severed>>
vars == <<session, files, hook, runner, hostTurn, offered, direct, clock, history>>

IdleHook == [pc |-> "idle", event |-> "pre", cmd |-> Altered, turn |-> NoTurn,
             seen |-> NoPermission, txn |-> NoTurn, token |-> NoToken]
IdleRunner == [pc |-> "idle", token |-> NoToken]

Init == /\ turn = NoTurn
        /\ grant = NoGrant
        /\ pending = [t \in ToolUse |-> NoPermission]
        /\ waiting = NoWaiting
        /\ ticket = [k \in Token |-> NoTicket]
        /\ place = [k \in Token |-> "nowhere"]
        /\ receipt = [k \in Token |-> "none"]
        /\ lease = [k \in Token |-> "none"]
        /\ hook = [t \in ToolUse |-> IdleHook]
        /\ runner = [r \in Runner |-> IdleRunner]
        /\ hostTurn = NoTurn
        /\ offered = {}
        /\ direct = [t \in ToolUse |-> NoDirect]
        /\ lapsed = {} /\ late = {} /\ mishaps = 0
        /\ approved = [x \in Turn |-> {}]
        /\ ran = [x \in Turn |-> [o \in Op |-> 0]]
        /\ severed = {}

------------------------------------------------------------------------------
(* What the handlers ask of the session state.                              *)

\* _git_grant_usable
Usable(g) == /\ g # NoGrant
             /\ g.txn \notin lapsed
             /\ g.ops \ g.consumed # {}

\* Fault: the operations the prompt named are not looked at.
GrantMatchesUnscoped(g, o, n) == Usable(g) /\ g.turn = n /\ o \notin g.consumed

\* _git_grant_matches, for the operation and the turn of an event or a ticket
GrantMatches(g, o, n) == /\ Usable(g)
                         /\ g.turn = n
                         /\ o \in g.ops \ g.consumed

\* _pending_git_usable
WaitingUsable == waiting # NoWaiting /\ waiting.op # Ambiguous /\ ~waiting.old

Reserved(x) == {t \in ToolUse : pending[t] # NoPermission /\ pending[t].txn = x}

\* _continued_git_grant_from_prompt, for a prompt that asks to go on and names
\* nothing outside the transaction
Continuable == /\ Usable(grant)
               /\ ~grant.single
               /\ Cardinality(grant.ops) >= 2
               /\ grant.ops \cap Publication # {}

\* Fault: whatever grant the session holds goes with the transaction.
ClearSession(x) == /\ grant' = NoGrant
                   /\ pending' = [t \in ToolUse |->
                                     IF t \in Reserved(x) THEN NoPermission ELSE pending[t]]

\* _clear_git_transaction_state
ClearTransaction(x) ==
    /\ grant' = IF grant # NoGrant /\ grant.txn = x THEN NoGrant ELSE grant
    /\ pending' = [t \in ToolUse |->
                      IF t \in Reserved(x) THEN NoPermission ELSE pending[t]]

\* _cleanup_git_runner_transaction_records.  The patterns are swept in the
\* order the files move (request, running, status), so a file that moves during
\* the sweep is met again: one step has the same outcomes.
SweepTransaction(x) ==
    LET Mine(k) == ticket[k] # NoTicket /\ ticket[k].txn = x
    IN  /\ place' = [k \in Token |-> IF Mine(k) THEN "nowhere" ELSE place[k]]
        /\ receipt' = [k \in Token |-> IF Mine(k) THEN "none" ELSE receipt[k]]

\* A process dies, a lock wait, a write or a recheck fails, a deadline passes.
Mishap == mishaps < MaxMishaps /\ mishaps' = mishaps + 1
Smoothly == UNCHANGED mishaps

\* A step raises because its own condition is false, or by a mishap.
RaisesUnless(ok) == IF ok THEN Mishap ELSE Smoothly

\* A git command of the transaction took effect (counted up to two).
TakesEffect(x, o) ==
    ran' = [ran EXCEPT ![x][o] = IF @ < 2 THEN @ + 1 ELSE @]

------------------------------------------------------------------------------
(* UserPromptSubmit: handle_user_prompt_submit is one mutate_session call.  *)
(* Every prompt opens a turn and empties the reservation table.             *)

NewTurn == /\ hostTurn < MaxTurn
           /\ hostTurn' = hostTurn + 1
           /\ turn' = hostTurn + 1
           /\ pending' = [t \in ToolUse |-> NoPermission]
           /\ UNCHANGED <<files, hook, runner, offered, direct, clock, ran>>

FreshGrant(S, single) ==
    /\ grant' = [txn |-> hostTurn + 1, turn |-> hostTurn + 1, ops |-> S,
                 consumed |-> {}, single |-> single]
    /\ approved' = [approved EXCEPT ![hostTurn + 1] = S]
    /\ waiting' = NoWaiting
    /\ UNCHANGED severed

\* The prompt authorizes a set of operations.
PromptGrant == /\ NewTurn
               /\ \E S \in Requests : FreshGrant(S, FALSE)

\* The prompt approves the one command the last denial named.
PromptApprove == /\ NewTurn
                 /\ WaitingUsable
                 /\ FreshGrant({waiting.op}, TRUE)

\* The prompt asks to go on with the transaction it authorized before.
PromptContinue == /\ NewTurn
                  /\ Continuable
                  /\ grant' = [grant EXCEPT !.turn = hostTurn + 1]
                  /\ waiting' = NoWaiting
                  /\ severed' = severed \cup {x \in {grant.txn} : Reserved(x) # {}}
                  /\ UNCHANGED approved

\* Any other prompt, a refused continuation included, drops the grant.
PromptOrdinary == /\ NewTurn
                  /\ grant' = NoGrant
                  /\ \/ waiting' = NoWaiting
                     \/ WaitingUsable /\ UNCHANGED waiting
                  /\ UNCHANGED <<approved, severed>>

------------------------------------------------------------------------------
(* PreToolUse and PermissionRequest: _handle_tool_gate for a scoped command *)
(* or a runner command.                                                     *)

Bound(p) == p # NoPermission /\ p.token # NoToken

\* read_session: the snapshot the classification works on.  A runner command for
\* a tool use that holds no bound reservation gets through and changes nothing,
\* so it is left out.  The host does not ask again about a tool use whose
\* original command it has already let run.
HookBegin(t) ==
    /\ hook[t].pc = "idle"
    /\ hostTurn # NoTurn
    /\ direct[t] = NoDirect
    /\ \E e \in {"pre", "permission"},
          c \in Op \cup {k \in offered \cup {Altered} : Bound(pending[t])} :
          hook' = [hook EXCEPT ![t] =
                      [IdleHook EXCEPT !.pc = "classify", !.event = e, !.cmd = c,
                                       !.turn = hostTurn, !.seen = pending[t]]]
    /\ UNCHANGED <<session, files, runner, hostTurn, offered, direct, clock, history>>

\* _matching_git_runner_permission, for the runner command or, original = TRUE,
\* for the command the runner replaces.  It reads the ticket file.
RunnerMatch(h, original) ==
    /\ Bound(h.seen)
    /\ ~h.seen.claimed
    /\ place[h.seen.token] = "request"
    /\ h.seen.turn = h.turn
    /\ h.cmd = IF original THEN h.seen.op ELSE h.seen.token

StaleRunner(h) == /\ Bound(h.seen)
                  /\ h.cmd = h.seen.op \/ h.cmd \notin Op
                  /\ ~RunnerMatch(h, TRUE) /\ ~RunnerMatch(h, FALSE)

\* A hook that will revoke transaction x.
Revoking(x) == [IdleHook EXCEPT !.pc = "revoke", !.txn = x]

HookClassify(t) ==
    LET h == hook[t] IN
    /\ h.pc = "classify"
    /\ \/ /\ StaleRunner(h)
          /\ hook' = [hook EXCEPT ![t] = Revoking(h.seen.txn)]
          /\ UNCHANGED offered
       \/ /\ RunnerMatch(h, TRUE)       \* the runner command again; or a denial
          /\ offered' = IF h.event = "pre" THEN offered \cup {h.seen.token} ELSE offered
          /\ hook' = [hook EXCEPT ![t] = IdleHook]
       \/ /\ RunnerMatch(h, FALSE)      \* allowed
          /\ hook' = [hook EXCEPT ![t] = IdleHook]
          /\ UNCHANGED offered
       \/ /\ ~StaleRunner(h) /\ ~RunnerMatch(h, TRUE) /\ ~RunnerMatch(h, FALSE)
          /\ hook' = [hook EXCEPT ![t] = IF h.cmd \in Op
                                         THEN [h EXCEPT !.pc = "authorize", !.seen = NoPermission]
                                         ELSE IdleHook]
          /\ UNCHANGED offered
    /\ UNCHANGED <<session, files, runner, hostTurn, direct, clock, history>>

\* The pending record of tool use t is for this very command and turn.
PendingMatches(t) == LET h == hook[t] IN
    /\ turn = h.turn
    /\ pending[t] # NoPermission
    /\ pending[t].turn = h.turn
    /\ pending[t].token = NoToken
    /\ pending[t].op = h.cmd

\* mutate_authorization, PermissionRequest: a reservation of the live grant that
\* no runner command has replaced yet lets the original command through.
AuthorizePermission(t) ==
    LET h == hook[t] IN
    /\ h.pc = "authorize" /\ h.event = "permission"
    /\ direct' = IF /\ PendingMatches(t)
                    /\ grant # NoGrant /\ grant.txn = pending[t].txn
                    /\ GrantMatches(grant, h.cmd, h.turn)
                 THEN [direct EXCEPT ![t] = [txn |-> grant.txn, op |-> h.cmd,
                                             fate |-> "permitted"]]
                 ELSE direct
    /\ hook' = [hook EXCEPT ![t] = IdleHook]
    /\ UNCHANGED <<session, files, runner, hostTurn, offered, clock, history>>

ToPrepare(t, x) == hook' = [hook EXCEPT ![t] = [@ EXCEPT !.pc = "prepare", !.txn = x]]

\* Fault: no look at the reservations of the other tool uses.
AuthorizeToolUnreserved(t) ==
    LET h == hook[t] IN
    /\ h.pc = "authorize" /\ h.event = "pre"
    /\ turn = h.turn /\ GrantMatches(grant, h.cmd, h.turn)
    /\ pending' = [pending EXCEPT ![t] = [txn |-> grant.txn, turn |-> h.turn, op |-> h.cmd,
                                          token |-> NoToken, claimed |-> FALSE]]
    /\ ToPrepare(t, grant.txn)
    /\ UNCHANGED <<turn, grant, waiting, files, runner, hostTurn, offered, direct, clock, history>>

\* mutate_authorization, PreToolUse: the same reservation again, a new one while
\* the transaction has none, or a denial that notes what waits for approval.
AuthorizeTool(t) ==
    LET h == hook[t]
        may == turn = h.turn /\ GrantMatches(grant, h.cmd, h.turn)
                 /\ Reserved(grant.txn) = {}
    IN
    /\ h.pc = "authorize" /\ h.event = "pre"
    /\ \/ /\ PendingMatches(t)
          /\ ToPrepare(t, pending[t].txn)
          /\ UNCHANGED <<pending, waiting>>
       \/ /\ ~PendingMatches(t) /\ may
          /\ pending' = [pending EXCEPT ![t] =
                            [txn |-> grant.txn, turn |-> h.turn, op |-> h.cmd,
                             token |-> NoToken, claimed |-> FALSE]]
          /\ waiting' = IF waiting # NoWaiting /\ waiting.op = h.cmd
                        THEN NoWaiting ELSE waiting
          /\ ToPrepare(t, grant.txn)
       \/ /\ ~PendingMatches(t) /\ ~may
          /\ waiting' = [op |-> IF waiting = NoWaiting \/ waiting.op = h.cmd
                                THEN h.cmd ELSE Ambiguous,
                         old |-> FALSE]
          /\ hook' = [hook EXCEPT ![t] = IdleHook]
          /\ UNCHANGED pending
    /\ UNCHANGED <<turn, grant, files, runner, hostTurn, offered, direct, clock, history>>

ToRevoke(t) == hook' = [hook EXCEPT ![t] = Revoking(hook[t].txn)]

\* The reservation of t is there and no runner command has replaced its own.
Unbound(t) == /\ pending[t] # NoPermission
              /\ pending[t].token = NoToken /\ pending[t].op = hook[t].cmd

\* _prepare_git_runner reads the session again.  A reservation that is gone, or
\* that another call has bound to a token, raises; so may the recheck of the
\* repository, or the read itself.  The handler revokes and re-raises.
Prepare(t) ==
    /\ hook[t].pc = "prepare"
    /\ \/ /\ Unbound(t)
          /\ hook' = [hook EXCEPT ![t] = [@ EXCEPT !.pc = "ticket", !.txn = pending[t].txn,
                                                   !.turn = pending[t].turn]]
          /\ Smoothly
       \/ ToRevoke(t) /\ RaisesUnless(Unbound(t))
    /\ UNCHANGED <<session, files, runner, hostTurn, offered, direct, deadlines, history>>

\* Fault: the ticket names the turn that goes on, not the one that issued it.
WriteTicketContinued(t) ==
    /\ hook[t].pc = "ticket"
    /\ \E k \in Token :
          /\ ticket[k] = NoTicket
          /\ ticket' = [ticket EXCEPT ![k] = [txn |-> hook[t].turn, turn |-> hook[t].turn,
                                              op |-> hook[t].cmd, tool |-> t]]
          /\ place' = [place EXCEPT ![k] = "request"]
          /\ hook' = [hook EXCEPT ![t] = [@ EXCEPT !.pc = "bind", !.token = k]]
    /\ UNCHANGED <<session, receipt, lease, runner, hostTurn, offered, direct, clock, history>>

\* A fresh token; the ticket is written before the session knows of it.
WriteTicket(t) ==
    /\ hook[t].pc = "ticket"
    /\ \/ \E k \in Token :
             /\ ticket[k] = NoTicket
             /\ ticket' = [ticket EXCEPT ![k] =
                              [txn |-> hook[t].txn, turn |-> hook[t].turn,
                               op |-> hook[t].cmd, tool |-> t]]
             /\ place' = [place EXCEPT ![k] = "request"]
             /\ hook' = [hook EXCEPT ![t] = [@ EXCEPT !.pc = "bind", !.token = k]]
             /\ Smoothly
       \/ ToRevoke(t) /\ Mishap /\ UNCHANGED <<ticket, place>>
    /\ UNCHANGED <<session, receipt, lease, runner, hostTurn, offered, direct, deadlines, history>>

\* bind_runner.  When it raises, the ticket is unlinked before the revocation.
Bind(t) ==
    LET h == hook[t]
        unchanged == Reserved(h.txn) = {t} /\ Unbound(t) /\ ~pending[t].claimed
    IN
    /\ h.pc = "bind"
    /\ \/ /\ unchanged
          /\ pending' = [pending EXCEPT ![t].token = h.token]
          /\ hook' = [hook EXCEPT ![t].pc = "reply"]
          /\ Smoothly
          /\ UNCHANGED place
       \/ /\ RaisesUnless(unchanged)
          /\ place' = [place EXCEPT ![h.token] = IF @ = "request" THEN "nowhere" ELSE @]
          /\ ToRevoke(t)
          /\ UNCHANGED pending
    /\ UNCHANGED <<turn, grant, waiting, ticket, receipt, lease, runner, hostTurn,
                   offered, direct, deadlines, history>>

\* Fault: the original command goes out as if it were the runner's.
HookReplyOriginal(t) ==
    /\ hook[t].pc = "reply"
    /\ offered' = offered \cup {hook[t].cmd}
    /\ hook' = [hook EXCEPT ![t] = IdleHook]
    /\ UNCHANGED <<session, files, runner, hostTurn, direct, clock, history>>

\* The rewritten command reaches the host.
HookReply(t) == /\ hook[t].pc = "reply"
                /\ offered' = offered \cup {hook[t].token}
                /\ hook' = [hook EXCEPT ![t] = IdleHook]
                /\ UNCHANGED <<session, files, runner, hostTurn, direct, clock, history>>

\* _revoke_git_transaction: the state change may fail, the sweep still follows.
HookRevoke(t) == /\ hook[t].pc = "revoke"
                 /\ \/ ClearTransaction(hook[t].txn) /\ Smoothly
                    \/ Mishap /\ UNCHANGED <<grant, pending>>
                 /\ hook' = [hook EXCEPT ![t].pc = "sweep"]
                 /\ UNCHANGED <<turn, waiting, files, runner, hostTurn, offered,
                                direct, deadlines, history>>

HookSweep(t) == /\ hook[t].pc = "sweep"
                /\ SweepTransaction(hook[t].txn)
                /\ hook' = [hook EXCEPT ![t] = IdleHook]
                /\ UNCHANGED <<session, ticket, lease, runner, hostTurn, offered,
                               direct, clock, history>>

HookDies(t) == /\ hook[t].pc # "idle"
               /\ Mishap
               /\ hook' = [hook EXCEPT ![t] = IdleHook]
               /\ UNCHANGED <<session, files, runner, hostTurn, offered, direct,
                              deadlines, history>>

------------------------------------------------------------------------------
(* The runner: _run_approved_git in a process of its own.                   *)

At(r, l) == runner[r].pc = l
RunnerGoto(r, l) == runner' = [runner EXCEPT ![r].pc = l]

\* The lease is created exclusively: a second runner of a token, or a runner
\* after one that died, exits at once.
RunnerStart(r) ==
    /\ At(r, "idle")
    /\ \E k \in offered :
          /\ lease[k] = "none"
          /\ lease' = [lease EXCEPT ![k] = "held"]
          /\ runner' = [runner EXCEPT ![r] = [pc |-> "move", token |-> k]]
    /\ UNCHANGED <<session, ticket, place, receipt, hook, hostTurn, offered, direct,
                   clock, history>>

\* Fault: the ticket is read where it lies.
MoveTicketReads(r) ==
    /\ At(r, "move")
    /\ place[runner[r].token] = "request"
    /\ RunnerGoto(r, "claim")
    /\ UNCHANGED <<session, files, hook, hostTurn, offered, direct, clock, history>>

DropRunning(k) == place' = [place EXCEPT ![k] = IF @ = "running" THEN "nowhere" ELSE @]

\* os.replace(request, running).  Without a ticket nothing is known of the
\* transaction, so nothing is revoked.
MoveTicket(r) ==
    LET k == runner[r].token IN
    /\ At(r, "move")
    /\ \/ /\ place[k] = "request"
          /\ place' = [place EXCEPT ![k] = "running"]
          /\ RunnerGoto(r, "validate")
          /\ Smoothly
       \/ /\ RaisesUnless(place[k] = "request")
          /\ DropRunning(k)
          /\ RunnerGoto(r, "release")
    /\ UNCHANGED <<session, ticket, receipt, lease, hook, hostTurn, offered, direct,
                   deadlines, history>>

\* The ticket is read back and checked: its age, and the repository again.  A
\* ticket that cannot be read revokes nothing.
Validate(r) ==
    LET k == runner[r].token IN
    /\ At(r, "validate")
    /\ \/ /\ place[k] = "running" /\ k \notin late
          /\ RunnerGoto(r, "claim")
          /\ Smoothly
          /\ UNCHANGED place
       \/ /\ place[k] = "running" /\ RaisesUnless(k \notin late)
          /\ DropRunning(k)
          /\ RunnerGoto(r, "revoke")
       \/ /\ RaisesUnless(place[k] = "running")
          /\ DropRunning(k)
          /\ RunnerGoto(r, "release")
    /\ UNCHANGED <<session, ticket, receipt, lease, hook, hostTurn, offered, direct,
                   deadlines, history>>

\* The conditions of claim: the session still holds this very ticket, unclaimed,
\* as the only reservation of a grant that still matches.
Claimable(k) ==
    LET q == ticket[k] IN
    /\ Reserved(q.txn) = {q.tool}
    /\ pending[q.tool] = [txn |-> q.txn, turn |-> q.turn, op |-> q.op,
                          token |-> k, claimed |-> FALSE]
    /\ grant # NoGrant /\ grant.txn = q.txn
    /\ GrantMatches(grant, q.op, q.turn)

\* _claim_git_runner_request
Claim(r) ==
    LET k == runner[r].token IN
    /\ At(r, "claim")
    /\ \/ /\ Claimable(k)
          /\ pending' = [pending EXCEPT ![ticket[k].tool].claimed = TRUE]
          /\ RunnerGoto(r, "git")
          /\ Smoothly
          /\ UNCHANGED place
       \/ /\ RaisesUnless(Claimable(k))
          /\ DropRunning(k)
          /\ RunnerGoto(r, "revoke")
          /\ UNCHANGED pending
    /\ UNCHANGED <<turn, grant, waiting, ticket, receipt, lease, hook, hostTurn,
                   offered, direct, deadlines, history>>

\* Git runs, or a recheck before it raises, or it exits nonzero.  What is told
\* apart is whether the operation took effect (for push, remote_succeeded).
RunGit(r) ==
    LET q == ticket[runner[r].token] IN
    /\ At(r, "git")
    /\ \/ TakesEffect(q.txn, q.op) /\ RunnerGoto(r, "receipt") /\ Smoothly
       \/ UNCHANGED ran /\ RunnerGoto(r, "failed") /\ Mishap
    /\ UNCHANGED <<session, files, hook, hostTurn, offered, direct, deadlines,
                   approved, severed>>

\* Fault: the receipt says success whatever the exit code.
WriteReceiptAnyway(r) ==
    /\ At(r, "receipt") \/ At(r, "failed")
    /\ receipt' = [receipt EXCEPT ![runner[r].token] = "success"]
    /\ RunnerGoto(r, "finish")
    /\ UNCHANGED <<session, ticket, place, lease, hook, hostTurn, offered, direct, clock, history>>

\* The receipt is written, or the write fails and the transaction is revoked.
WriteReceipt(r) ==
    LET k == runner[r].token IN
    /\ At(r, "receipt") \/ At(r, "failed")
    /\ \/ /\ receipt' = [receipt EXCEPT ![k] = IF At(r, "receipt") THEN "success"
                                                                ELSE "failure"]
          /\ RunnerGoto(r, "finish")
          /\ Smoothly
          /\ UNCHANGED place
       \/ /\ Mishap
          /\ DropRunning(k)
          /\ RunnerGoto(r, "revoke")
          /\ UNCHANGED receipt
    /\ UNCHANGED <<session, ticket, lease, hook, hostTurn, offered, direct, deadlines, history>>

Finish(r) == /\ At(r, "finish")
             /\ DropRunning(runner[r].token)
             /\ RunnerGoto(r, "release")
             /\ UNCHANGED <<session, ticket, receipt, lease, hook, hostTurn, offered,
                            direct, clock, history>>

RunnerRevoke(r) == /\ At(r, "revoke")
                   /\ \/ ClearTransaction(ticket[runner[r].token].txn) /\ Smoothly
                      \/ Mishap /\ UNCHANGED <<grant, pending>>
                   /\ RunnerGoto(r, "sweep")
                   /\ UNCHANGED <<turn, waiting, files, hook, hostTurn, offered, direct,
                                  deadlines, history>>

RunnerSweep(r) == /\ At(r, "sweep")
                  /\ SweepTransaction(ticket[runner[r].token].txn)
                  /\ RunnerGoto(r, "release")
                  /\ UNCHANGED <<session, ticket, lease, hook, hostTurn, offered,
                                 direct, clock, history>>

ReleaseLease(r) == /\ At(r, "release")
                   /\ lease' = [lease EXCEPT ![runner[r].token] = "none"]
                   /\ runner' = [runner EXCEPT ![r] = IdleRunner]
                   /\ UNCHANGED <<session, ticket, place, receipt, hook, hostTurn,
                                  offered, direct, clock, history>>

RunnerDies(r) == /\ ~At(r, "idle")
                 /\ Mishap
                 /\ lease' = [lease EXCEPT ![runner[r].token] = "dead"]
                 /\ runner' = [runner EXCEPT ![r] = IdleRunner]
                 /\ UNCHANGED <<session, ticket, place, receipt, hook, hostTurn,
                                offered, direct, deadlines, history>>

\* The host runs an original command it was allowed to run.
RunDirect(t) ==
    /\ direct[t] # NoDirect /\ direct[t].fate = "permitted"
    /\ \/ /\ TakesEffect(direct[t].txn, direct[t].op)
          /\ direct' = [direct EXCEPT ![t].fate = "success"]
          /\ Smoothly
       \/ /\ UNCHANGED ran
          /\ direct' = [direct EXCEPT ![t].fate = "failure"]
          /\ Mishap
    /\ UNCHANGED <<session, files, hook, runner, hostTurn, offered, deadlines,
                   approved, severed>>

------------------------------------------------------------------------------
(* PostToolUse, Stop and the clock.                                         *)

\* Faults: the ledger keeps only the latest operation, or none.
RetireResets(o) == LET g == [grant EXCEPT !.consumed = {o}]
                   IN  grant' = IF Usable(g) THEN g ELSE NoGrant
RetireForgets(o) == UNCHANGED grant /\ o \in Op

\* _consume_git_grant, then the grant survives only while it is usable.
Retire(o) == LET g == [grant EXCEPT !.consumed = @ \cup {o}]
             IN  grant' = IF Usable(g) THEN g ELSE NoGrant

\* The reservation of t belongs to the grant the session holds now.
Charged(t) == /\ pending[t] # NoPermission
              /\ grant # NoGrant /\ grant.txn = pending[t].txn

TakeReceipt(k) == receipt' = [receipt EXCEPT ![k] = "none"]

\* Fault: a missing receipt frees the reservation and leaves the transaction.
PostRunnerFrees(t) ==
    LET p == pending[t] IN
    /\ Bound(p) /\ p.token \in offered
    /\ pending' = [pending EXCEPT ![t] = NoPermission]
    /\ IF Charged(t) /\ receipt[p.token] = "success"
       THEN Retire(p.op) /\ TakeReceipt(p.token)
       ELSE UNCHANGED <<grant, receipt>>
    /\ UNCHANGED <<turn, waiting, ticket, place, lease, hook, runner, hostTurn, offered,
                   direct, clock, history>>

\* The event of a finished (or merely yielded) runner command: clear_pending
\* reads and unlinks the receipt while it holds the session lock.
PostRunner(t) ==
    LET p == pending[t] IN
    /\ Bound(p) /\ p.token \in offered
    /\ \/ /\ Charged(t)
          /\ receipt[p.token] = "success"
          /\ Retire(p.op)
          /\ pending' = [pending EXCEPT ![t] = NoPermission]
          /\ TakeReceipt(p.token)
          /\ UNCHANGED place
       \/ /\ Charged(t)
          /\ receipt[p.token] # "success"
          /\ ClearTransaction(p.txn)
          /\ SweepTransaction(p.txn)
       \/ /\ ~Charged(t)
          /\ pending' = [pending EXCEPT ![t] = NoPermission]
          /\ UNCHANGED <<grant, place, receipt>>
    /\ UNCHANGED <<turn, waiting, ticket, lease, hook, runner, hostTurn, offered,
                   direct, clock, history>>

\* The same hook dies, or its state write fails, after the receipt is unlinked
\* and before the session file is replaced.
PostDies(t) ==
    LET p == pending[t] IN
    /\ Bound(p) /\ p.token \in offered
    /\ Charged(t)
    /\ Mishap
    /\ \/ TakeReceipt(p.token) /\ UNCHANGED place
       \/ receipt[p.token] # "success" /\ SweepTransaction(p.txn)
    /\ UNCHANGED <<session, ticket, lease, hook, runner, hostTurn, offered, direct,
                   deadlines, history>>

\* The event of an original command, judged by the host's own exit code (a
\* yielded command has none).
PostDirect(t) ==
    LET p == pending[t] IN
    /\ direct[t] # NoDirect
    /\ direct' = [direct EXCEPT ![t] = NoDirect]
    /\ \/ /\ Charged(t)
          /\ direct[t].fate = "success"
          /\ Retire(p.op)
          /\ pending' = [pending EXCEPT ![t] = NoPermission]
          /\ UNCHANGED <<place, receipt>>
       \/ /\ Charged(t)
          /\ direct[t].fate # "success"
          /\ ClearTransaction(p.txn)
          /\ SweepTransaction(p.txn)
       \/ /\ ~Charged(t)
          /\ pending' = [pending EXCEPT ![t] = NoPermission]
          /\ UNCHANGED <<grant, place, receipt>>
    /\ UNCHANGED <<turn, waiting, ticket, lease, hook, runner, hostTurn, offered,
                   clock, history>>

\* _stop_state with no active agent: the session file goes unless some Git
\* authorization can still be used.
Stop == /\ ~Usable(grant) /\ ~WaitingUsable
        /\ \A t \in ToolUse : pending[t] = NoPermission
        /\ turn' = NoTurn
        /\ grant' = NoGrant
        /\ waiting' = NoWaiting
        /\ UNCHANGED <<pending, files, hook, runner, hostTurn, offered, direct, clock, history>>

GrantLapses == /\ grant # NoGrant
               /\ Mishap
               /\ lapsed' = lapsed \cup {grant.txn}
               /\ UNCHANGED <<session, files, hook, runner, hostTurn, offered, direct,
                              late, history>>

TicketLapses(k) == /\ place[k] # "nowhere"
                   /\ Mishap
                   /\ late' = late \cup {k}
                   /\ UNCHANGED <<session, files, hook, runner, hostTurn, offered,
                                  direct, lapsed, history>>

ReceiptLapses(k) == /\ receipt[k] = "success"
                    /\ Mishap
                    /\ receipt' = [receipt EXCEPT ![k] = "failure"]
                    /\ UNCHANGED <<session, ticket, place, lease, hook, runner, hostTurn,
                                   offered, direct, deadlines, history>>

WaitingLapses == /\ waiting # NoWaiting
                 /\ Mishap
                 /\ waiting' = [waiting EXCEPT !.old = TRUE]
                 /\ UNCHANGED <<turn, grant, pending, files, hook, runner, hostTurn,
                                offered, direct, deadlines, history>>

Prompt == PromptGrant \/ PromptApprove \/ PromptContinue \/ PromptOrdinary

HookStep(t) == \/ HookClassify(t) \/ AuthorizePermission(t) \/ AuthorizeTool(t)
               \/ Prepare(t) \/ WriteTicket(t) \/ Bind(t) \/ HookReply(t)
               \/ HookRevoke(t) \/ HookSweep(t)

RunnerStep(r) == \/ MoveTicket(r) \/ Validate(r) \/ Claim(r) \/ RunGit(r)
                 \/ WriteReceipt(r) \/ Finish(r) \/ RunnerRevoke(r)
                 \/ RunnerSweep(r) \/ ReleaseLease(r)

Post(t) == PostRunner(t) \/ PostDirect(t)

Next == \/ Prompt
        \/ \E t \in ToolUse : \/ HookBegin(t) \/ HookStep(t) \/ HookDies(t)
                              \/ RunDirect(t) \/ Post(t) \/ PostDies(t)
        \/ \E r \in Runner : RunnerStart(r) \/ RunnerStep(r) \/ RunnerDies(r)
        \/ Stop
        \/ GrantLapses \/ WaitingLapses
        \/ \E k \in Token : TicketLapses(k) \/ ReceiptLapses(k)

Spec == Init /\ [][Next]_vars

------------------------------------------------------------------------------
TypeOK ==
    /\ turn \in Turn \cup {NoTurn}
    /\ grant \in Grant \cup {NoGrant}
    /\ pending \in [ToolUse -> Permission \cup {NoPermission}]
    /\ waiting \in Waiting \cup {NoWaiting}
    /\ ticket \in [Token -> Ticket \cup {NoTicket}]
    /\ place \in [Token -> {"nowhere", "request", "running"}]
    /\ receipt \in [Token -> {"none", "success", "failure"}]
    /\ lease \in [Token -> {"none", "held", "dead"}]
    /\ hook \in [ToolUse -> Hook]
    /\ runner \in [Runner -> RunnerProcess]
    /\ hostTurn \in Turn \cup {NoTurn}
    /\ offered \subseteq Token
    /\ direct \in [ToolUse -> Direct \cup {NoDirect}]
    /\ lapsed \subseteq Turn /\ late \subseteq Token /\ mishaps \in Nat
    /\ approved \in [Turn -> SUBSET Op]
    /\ ran \in [Turn -> [Op -> 0 .. 2]]
    /\ severed \subseteq Turn

\* A session has at most one transaction reservation in flight, whatever the
\* number of tool uses whose hooks run at once ("PreToolUse reserves one
\* immutable in-flight tool_use_id", docs/hook-contract.md).
OneReservation ==
    \A s, t \in ToolUse :
        pending[s] # NoPermission /\ pending[t] # NoPermission => s = t

\* The two stores agree: a reservation bound to a token has the ticket of that
\* token, with its transaction, turn, operation and tool use, and no other
\* reservation or hook is bound to the same token.
TicketAgrees ==
    \A t \in ToolUse : Bound(pending[t]) =>
        ticket[pending[t].token] =
            [txn |-> pending[t].txn, turn |-> pending[t].turn,
             op |-> pending[t].op, tool |-> t]

\* A claimed ticket is never again a request another runner could take, so a
\* runner command that is replayed does nothing.
ClaimIsFinal ==
    \A t \in ToolUse : pending[t] # NoPermission /\ pending[t].claimed =>
        place[pending[t].token] # "request"

\* Each operation of a transaction takes effect at most once: through retries,
\* replays of the runner command, deaths before or after the receipt, failed
\* writes and revocations.  The exception is a transaction that was continued
\* while a reservation of it was open: PromptContinue empties the table, and the
\* runner or the receipt of that reservation can no longer be charged to it.
AtMostOnce ==
    \A x \in Turn \ severed, o \in Op : ran[x][o] <= 1

\* Two git commands of one transaction never run side by side (same exception).
GitIsSerial ==
    \A r, s \in Runner :
        /\ At(r, "git") /\ At(s, "git") /\ r # s
        /\ ticket[runner[r].token].txn = ticket[runner[s].token].txn
        => ticket[runner[r].token].txn \in severed

\* Nothing takes effect that the prompt of its transaction did not approve.
OnlyApproved == \A x \in Turn, o \in Op : ran[x][o] > 0 => o \in approved[x]

\* The ledger is honest: an operation is retired only if it took effect.
RetiredWasDone ==
    grant # NoGrant => \A o \in grant.consumed : ran[grant.txn][o] > 0

\* A grant that goes while its turn lasts goes with its own transaction: no late
\* answer, failed runner or failed hook of an older one takes it away.
RevocationIsOwn ==
    [][grant # NoGrant /\ grant' = NoGrant /\ turn' = turn =>
          \/ Reserved(grant.txn) # {}
          \/ \E t \in ToolUse : hook[t].pc = "revoke" /\ hook[t].txn = grant.txn
          \/ \E r \in Runner : /\ At(r, "revoke")
                               /\ ticket[runner[r].token].txn = grant.txn]_vars

\* A transaction that is gone, revoked, completed, dropped or forgotten with the
\* session, never comes back, and one that stays only retires operations: its
\* operations and its ledger never shrink.
GrantOnlyAges ==
    [][grant' # NoGrant =>
          \/ grant'.txn = hostTurn' /\ hostTurn' # hostTurn
          \/ /\ grant # NoGrant
             /\ grant'.txn = grant.txn /\ grant'.ops = grant.ops
             /\ grant.consumed \subseteq grant'.consumed]_vars

\* What a one-slot transaction knows: the transaction of the session, its ledger,
\* the operation reserved, and by transaction the operations somebody is about to
\* let take effect, a runner at git or the host with a command that was let through.
CurrentTxn == IF grant = NoGrant THEN NoTurn ELSE grant.txn
RetiredOps == IF grant = NoGrant THEN {} ELSE grant.consumed
Slot == {pending[t].op : t \in {t \in ToolUse : pending[t] # NoPermission}}
Admissions ==
    [x \in Turn |->
        LET atGit == {r \in Runner : At(r, "git") /\ ticket[runner[r].token].txn = x}
            permitted == {t \in ToolUse : /\ direct[t] # NoDirect /\ direct[t].txn = x
                                          /\ direct[t].fate = "permitted"}
        IN  {ticket[runner[r].token].op : r \in atGit}
              \cup {direct[t].op : t \in permitted}]

Contract == INSTANCE TransactionContract WITH
    Txn <- Turn, NoTxn <- NoTurn, current <- CurrentTxn, declared <- approved,
    retired <- RetiredOps, slot <- Slot, admitted <- Admissions, effect <- ran

\* Grant, reservation table, tickets, claims and receipts, in whatever order hooks,
\* runners and deaths come, implement a one-slot transaction: an operation is only
\* let through from the slot, alone and while it is still to do, only what took
\* effect is retired, and a transaction that is gone never comes back.
ContractSpec == Contract!Spec

\* "Matching PermissionRequest requires the matching unclaimed private ticket"
\* (docs/hook-contract.md): no command of a reserved operation is let through
\* by a PermissionRequest while no ticket of its reservation exists.
PermissionHasTicket ==
    [][\A t \in ToolUse :
          direct[t] = NoDirect /\ direct'[t] # NoDirect =>
              \E k \in Token : place[k] = "request" /\ ticket[k].tool = t]_vars

\* "Continuation updates only the active turn.  The original [...] pending
\* reservations, and consumed-operation ledger remain unchanged"
\* (docs/hook-contract.md).
ContinuationKeepsReservations ==
    [][grant # NoGrant /\ grant' # NoGrant /\ grant'.txn = grant.txn
         /\ turn' # turn /\ turn' = grant'.turn
       => pending' = pending]_vars
==============================================================================
