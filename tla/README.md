# codex-control-plane-hooks: models, checks and proofs

The repository is a Codex plugin: short-lived Python processes ("hooks") that the
host starts for each event of a session, and that decide whether a prompt, a tool
call or a permission request may go on. This directory holds TLA+ models of the
parts where those processes meet: through a locked session file, through private
files nobody locks, and through the order in which the host happens to run them.

Paths below are relative to `src/plugins/codex-control-plane-hooks/scripts/`;
`hook.py` stands for `control_plane_hook.py`, `core.py` and `state.py` for the
modules of that name in `control_plane/`. The contract quoted is
`src/docs/hook-contract.md`.

## 1. The system

| Component | State it keeps | Operations | Talks to |
|---|---|---|---|
| Session state store (`state.py`) | one JSON file per session, a sidecar lock file, a temporary file per write | `read_session`, `mutate_session`, `cleanup_session` | every handler calls it; processes meet only here |
| Scoped Git transaction (`hook.py`, `core.py`) | in the session: turn, grant, reservation table, waiting operation; beside it: ticket, receipt and lease of each runner token | prompt, PreToolUse, PermissionRequest, PostToolUse, Stop, `--run-approved-git` | the store; private files; the host, which runs the rewritten command |
| Exact dangerous-command authorization (`core.py`, `hook.py`) | one-shot command hashes, reservation per tool use | prompt, PreToolUse, PermissionRequest, PostToolUse | the store |
| Constrained clone and provenance | clone reservations, untrusted checkouts | PreToolUse, PostToolUse, tool gate | the store, the file system |
| Sensitive-disclosure grant | one grant per turn | prompt, tool gate | the store |
| Agent ledger and session end | `active_agents`, `compaction_count` | SubagentStart, SubagentStop, PreCompact, Stop | the store |
| Orphan cleanup | a lock and a cursor in the temporary directory | `--cleanup-orphans`, started by a runner | private files, leases |
| Dispatch, protocol, event budget | event-local deadline and snapshots | `main`, `dispatch`, `run_hook` | stdin/stdout, the host |
| Policy | a read-only file | `load_policy` | once per event |
| Command classification (`core.py`) | none | pure functions of text | supplies the verdicts the handlers act on |
| Windows runtime setup and launcher (`*.ps1`) | pinned interpreters, `runtime.json` | create, publish, prune, launch | Python processes |
| Package bootstrap, release checks | none | file checks | nothing at run time |

What is hard here:

* **Interleaving.** The host may run hooks of several tool uses, PermissionRequest
  hooks, runners and the next prompt at once. Each handler takes the session lock
  two or three times, decides on what it read the time before, and is not told when
  somebody else moved in between (`hook.py:2482`, `:2818`, `:1222`, `:1342`).
* **Two stores without a common lock.** A ticket is written before the session
  knows of it (`hook.py:1313`, then `:1315`), claimed after it was renamed
  (`:1913`, then `:1829`), and a receipt is unlinked before the state that counts it
  is written (`:2028` inside `:2975`).
* **Death anywhere.** The host kills a hook after ten seconds; a runner may die
  before or after git took effect, before or after its receipt.
* **Time.** A ticket lives five minutes, a grant thirty, a waiting operation ten, a
  session file seven days; each can end between any two steps.
* **Retries.** The host may start a runner command twice, run it late, or report it
  before it has finished.

What makes each component correct:

* *Store*: one session behaves as a register that changes by whole operations; a
  damaged file is refused, not replaced; no call waits for ever; no temporary file
  stays behind a process that lives.
* *Transaction*: an operation takes effect at most once and only if the prompt
  approved it; it is retired only if it took effect; one is in flight at a time; a
  revoked transaction does not come back and its late hooks and runners harm no
  other.
* *Exact authorization*: a hash allows one execution, by the tool use that got it.
* *Clone provenance*: no mutation inside a recorded checkout without its own
  authorization, as long as the session lives.
* *Agents*: Stop blocks while an agent is active, and no longer than once.
* *Cleanup*: nothing of a live runner is removed; what is dead goes eventually as
  far as the bounds allow.
* *Dispatch*: one answer per event; an exhausted budget blocks.
* *Runtime setup*: the published manifest names an interpreter that exists.

## 2. Modules

| Module | Models | Kind |
|---|---|---|
| `SessionRegister` | what the store promises its callers | abstract specification |
| `StateStore` | `state.py`, step by step | implements `SessionRegister` |
| `StateStoreProofs` | invariants and refinement of `StateStore` | TLAPS |
| `TransactionContract` | what session, private files and runners promise of a transaction | abstract specification |
| `GitTransaction` | the scoped Git transaction, all its processes | implements `TransactionContract` |
| `GitTransactionProofs` | types, reservation table, tickets, life of a grant | TLAPS |
| `GitEffectProofs` | what may take effect, how often and next to what; the refinement | TLAPS |
| `GrantOperations` | what one grant of several repositories covers | pure operators and their life cycle |
| `PushPinning` | the reads of a push, from the prompt to the server | one hook and one runner against a changing repository |
| `ApprovalContract` | what one-shot approvals of commands promise | abstract specification |
| `ToolGate` | exact authorization, clones and their provenance, disclosure | all gate hooks of one session; implements `ApprovalContract` |
| `AgentLedger` | agents, compaction, Stop | handlers against a host that reorders and loses |
| `OrphanCleanup` | the detached cleanup beside live runners | runners and workers |
| `GrantOperationsProofs`, `PushPinningProofs`, `ToolGateProofs`, `AgentLedgerProofs`, `OrphanCleanupProofs` | the safety properties of the module each is named after | TLAPS |
| `MCStateStore`, `MCGitTransaction`, `MCGrantOperations`, `MCPushPinning`, `MCToolGate`, `MCAgentLedger`, `MCOrphanCleanup` | instances for TLC | model checking |

How they fit together. `StateStore` shows that a `mutate_session` call is atomic; all
other modules take it as one action. `GitTransaction` treats an operation as opaque;
`GrantOperations` says which operations a grant has, `PushPinning` what happens inside
its steps `Prepare`, `Validate` and `RunGit` when the operation is a push, and
`OrphanCleanup` what becomes of the files it leaves behind. `ToolGate` is the rest of
the handler that `GitTransaction` models for scoped operations; the two lanes share
the handler and no state, apart from the turn. `AgentLedger` is the rest of Stop.

### `StateStore` and `SessionRegister`

`file` is the session file: missing, damaged (it never loads), spoiled (its fields
are invalid) or the content last written; `stale` says its `updated_at` is more than
seven days ago; `lock` is the holder of the `flock`; `temp` the temporary file of
each process and `orphans` those whose process died or could not remove them. `pc`
follows the lines of `mutate_session`/`cleanup_session`:

| Action | Code |
|---|---|
| `Call` | the call opens the lock file (`read_session` is a `mutate_session` that changes nothing) |
| `LockState`, `LockTimeout` | `_lock_state`: the lock, or the deadline |
| `Load` | `_load`: default, content, or an exception |
| `Decide` | the mutator or the removal predicate, on the loaded snapshot |
| `CreateTemp`, `FillTemp`, `ReplaceFile`, `TidyTemp` | `_write_atomic`, its three steps and its `finally` |
| `WriteFails` | any of the three raises |
| `RemoveFile`, `RemoveFails` | `_unlink_owned_regular` of the session file |
| `UnlockState` | the `finally` of the call |
| `Crash` | the process dies; the kernel drops the lock, nothing drops the temporary file |
| `Age` | seven days without a write |

A snapshot is an element of `Content`, a mutator a function on it. Two properties of
the code shape the model and are easy to miss: `_load` looks at the age *before* the
fields (`state.py:157` before `:160`), so a file whose fields are invalid is refused
only until it expires and is then replaced by the default; and `read_session` writes,
so that reading keeps a session alive. The contract (line 29) says that corrupt state
"is not silently replaced"; `DamageKept` states what the code does.

`SessionRegister` is the promise: `value`, and per client the `call` it is in and the
`reply` it got; an operation applies at one instant or not at all.
`StateStore!Register` maps `value` to what the next load yields, `call` to `op` and
`reply` to `result`.

### `GitTransaction`

The session variables are `turn`, `grant` (`local_git_grant`), `pending` (the entries
of `pending_permission_authorizations` that carry a `transaction_id`) and `waiting`
(`pending_local_git`). They change by whole `mutate_session` calls, each one action:
that this is sound is what `StateStore` shows. Between two calls of the same handler
other processes take steps. The private files are `ticket` and `place` (the ticket
under its request name or its running name), `receipt` and `lease`, each changed by a
step of its own. `hook[t]` is the hook process of tool use `t`, with what it read
(`seen`) and keeps (`txn`, `token`), and `runner[r]` a runner process. `offered` are
the runner commands that reached the host, `direct` the original commands that a
PermissionRequest let through. `approved`, `ran` and `severed` are history that no
action reads.

| Code | Actions |
|---|---|
| `handle_user_prompt_submit` (`core.py:3710`) | `PromptGrant`, `PromptApprove`, `PromptContinue`, `PromptOrdinary` |
| `_handle_tool_gate` (`hook.py:2446`) | `HookBegin` (snapshot), `HookClassify` (runner commands), `AuthorizeTool`/`AuthorizePermission` (`mutate_authorization`), `HookReply` |
| `_prepare_git_runner` (`hook.py:1212`) | `Prepare`, `WriteTicket`, `Bind` |
| `_revoke_git_transaction` (`hook.py:1379`) | `HookRevoke`, `HookSweep`; in a runner `RunnerRevoke`, `RunnerSweep` |
| `_run_approved_git` (`hook.py:1878`) | `RunnerStart`, `MoveTicket`, `Validate`, `Claim`, `RunGit`, `WriteReceipt`, `Finish`, `ReleaseLease` |
| `_handle_post_tool` (`hook.py:2956`) | `PostRunner`, `PostDirect`; `PostDies` when it ends between unlinking the receipt and writing the state |
| `_stop_state` (`hook.py:2059`) | `Stop` |
| the host, the clock, deaths | `RunDirect`, `GrantLapses`, `WaitingLapses`, `TicketLapses`, `ReceiptLapses`, `HookDies`, `RunnerDies` |

Abstractions, and why they are harmless to the properties:

* One repository scope; an operation stands for its scope hash, name and command
  digest. What a grant of several scopes allows in each is a pure function
  (`_git_grant_effective_operations`), left to a module of its own.
* A `transaction_id` hashes the turn that issued the grant, so it is that turn.
* The host does not begin a second hook for a tool use whose command it has let through
  and not reported yet (`direct[t] = NoDirect` in `HookBegin`). That is an assumption on
  the host, not a check of the code.
* Text is classified outside: which of the four prompt actions happens, and which
  operations a prompt names, are free choices.
* `_revoke_git_transaction` sweeps its files in one step: the patterns are read in the
  order the files move (request, running, status), so a file that moves meanwhile is
  met under its next name.
* A lock wait, a write or a recheck of the repository that fails is one step that
  raises (`Mishap`); a hook whose first read fails does nothing, which is a stutter.
* A runner that dies while git runs may leave a git child behind. The model lets git
  take effect before the death or not at all; a later effect changes no property here,
  since the reservation stays claimed until it is revoked.
* The orphan cleanup, which removes tickets and receipts older than five minutes, is
  in `OrphanCleanup`: to every check of the transaction those files have expired.

`TransactionContract` is the promise: a transaction is `current` or not, its one `slot`
holds the operation reserved, `admitted` are the operations somebody is about to let
take effect, and `effect` counts. It has eight actions and knows nothing of hooks,
tokens, tickets, receipts or leases. `GitTransaction!Contract` maps the grant to
`current` and `retired`, the reservation table to `slot`, and to `admitted` every
runner between claim and git and every command that a PermissionRequest let through.
`Claim` and `AuthorizePermission` are its `Admit`, `RunGit` and `RunDirect` its `Effect`,
both PostToolUse actions its `Retire`, a prompt its `Begin`, `Sever` or `Withdraw`;
everything else a hook, a runner or the clock does is invisible to it or withdraws.

### `GrantOperations`

`_local_git_grant_from_prompt` turns the words of a prompt into one binding per
repository. A parsed prompt is a record: the git commands spelled in it, those of them
without `-C` (`bare`), the `gh repo create` commands, the targets and operations named
in prose, the branch of a push in prose, and the place the prompt names.

| Action or operator | Code |
|---|---|
| `Scopes`, `PushBranches`, `InitBranches`, `Targets`, `Mappings`, `Operations` | the `_prompt_*` functions (`core.py:2618`-`2835`) |
| `Acceptable`, `NewGrant` | the early returns and the result of `_local_git_grant_from_prompt` |
| `Effective`, `Usable` | `_git_grant_effective_operations`, `_git_grant_usable` |
| `Matches` | `_git_grant_matches` (`hook.py:2248`) |
| `Ask`, `Resume` | the two ends of `handle_user_prompt_submit`; both empty the table |
| `Reserve`, `Finish`, `Fail` | `mutate_authorization`, `_handle_post_tool`, `_clear_git_transaction_state` |
| `SetOrigin` | the user, or `gh repo create`, sets a remote |

The properties are stated of the prompt's words and not of the grant, so that the
whole chain from words to bindings to consumption is between them. Turn, transaction
identifier, lifetime and runner are those of `GitTransaction`. Not modelled: the
approval of a pending command, `downloaded_code_execution` of a grant, and bindings
taken from a clone in the same prompt.

### `PushPinning`

A push is looked at four times: by the prompt (`Approve` binds the identity of
`origin`), by the hook (`HookReads*`, `HookMatches`, `HookWritesTicket`), by the
runner before the push (`RunnerReads*`, `RunnerMatches`, `Isolate`, `GitPush`) and
after it (`UpstreamReads*`, `WriteRemote`, `WriteMerge`). Each read is an action;
`Change` alters the URL, a rewrite, the remote helper, a branch, HEAD or the policy
file between any two. The hook runs under the event budget: `Query` takes some time up
to `QueryLimit`, and answers nothing once the budget is gone; URLs are read once per
event and cached. In runner mode nothing is cached (`FreshUrls`). `RunnerRaises` is the
`TimeoutExpired` that nothing catches, `RunnerDies` a kill. The prompt reads the
identity in one step. A URL that names a helper, an insecure scheme or credentials is
not in `Safe`; a detached HEAD, as any query without an answer, is `HookFails`.
`held` records which facts of the ticket were true at some time since the runner began
(or, after the push, since Git answered); no action reads it.

### `ToolGate`

A call stands for tool, text, directories and options; its digest is coarser. A gate
hook takes the session lock up to four times and each time is one action.

| Code | Actions |
|---|---|
| `handle_user_prompt_submit` | `Prompt`, and `PromptBlocked` for a prompt with a credential, which leaves the old turn in the session |
| `_handle_tool_gate` (`hook.py:2446`) | `GateBegin` (snapshot), `Classify`, `ReserveClone`, `AuthorizeTool`/`AuthorizePermission` (`mutate_authorization`), `ConsumeDisclosure`, `Reply`; `HookFails` for an error, a kill or a lost answer |
| `_handle_post_tool` (`hook.py:2956`) | `PostTool`, with `ClonePosted` |
| `_stop_state` | `Stop` |
| the host | `HostStarts`, `CloneAppears` |

Codes, checkouts a call works in and what a prompt approves are inputs. The policy of
scoped transactions is off in this module.

`ApprovalContract` is the promise: what is `granted` to a turn is `atHand` until a use
takes it, whole and in that turn; what is `held` may be let `through` or lost, and never
comes back. `ToolGate!Promise` maps `dangerous_authorization_hashes` to `atHand`, and to
`held` both the records that wait for a PermissionRequest and the hooks that are past
their authorization and have not answered (`Held`). `Prompt` is its `Grant`,
`PromptBlocked` its `Pass`, `AuthorizeTool` its `Take`, `Reply` its `LetThrough` and `Stop`
its `Forget`. Everything else, a retry, a PermissionRequest, a PostToolUse, an error or
a late hook, may at most lose something.

### `AgentLedger`

The host sends events, each to a hook of its own; `sent` is the set of those not
handled yet, in no order. `SubagentStart`, `SubagentStop`, `PreCompact` and `Stop` are
the handlers; `HandlerRaises` and `StopRaises` are `_internal_error_response`. A Stop
that blocks makes the host work on and send a Stop with `stop_hook_active`. A Stop that
passes removes the session's file, and the compaction count with it, unless a git
transaction can be resumed; which of the two is a free choice here. Everything
that goes wrong outside the handlers costs one of `MaxMishaps`: an announcement without
`agent_id`, an end that overtakes its start or is lost, a damaged file, a failing hook.

### `OrphanCleanup`

A runner walks through ticket, lease, lock, move, directory, push, receipt; only a push
has a directory. It may fail (`RunnerFails`), with its running record removed or, after
an exception nobody catches, left; and it may die
at each of the steps from the creation of its lease to the receipt, and the kernel
then drops its lock. A worker (`WorkerStarts`, under the
single-flight lock) lists a window of directories from the persisted cursor, wraps
around once, tests each (`TestDirectory`), removes (`RemoveTree`, which may fail), then
goes through the three kinds of record (`ListRecords`, `TestRecord`, `UnlinkRecord`)
and saves the cursor. One deadline covers both loops (`hook.py:801`, `:816`). Time is
counted in removals that hang: each takes half a second of the one second
(`hook.py:334`, `:852`), so `Budget` is 2 in the code, `spent` is what a worker has used
of it and `TimeUp` is `_orphan_cleanup_budget_exhausted`. Every removal of a directory in
`Stuck` fails, at once or by hanging, as it likes each time; the deadline may also
pass for another reason, as a mishap, in either loop. Between any two of these steps runners, the clock
(`RecordAges`, `DirectoryAges`) and PostToolUse (`TakeReceipt`) act. A worker goes by
the ages at its own start, as the code does by its `cutoff`. `RunnerDies` counts a
runner as dead together with its Git child; a child that survives its runner keeps no
lease (`hook.py:884` says so), so that nothing here protects its directory.

## 3. Runs

| Run | Instance | Question |
|---|---|---|
| `state_store` | 2 processes, 5 operations (two independent updates, a read, a claim that raises, a conditional removal), 2 deaths or failed removals, any number of failed writes | does `state.py` implement the register, for every interleaving? do all calls end? |
| `git_retry` | 1 tool use, 2 operations, 2 tokens, 2 runners, 1 turn, 2 mishaps | can retries, replays and deaths make an operation happen twice, or be retired without having happened? |
| `git_competition` | 2 tool uses, 1 operation, 2 tokens, 1 runner, 1 turn, 2 mishaps | can two tool uses hold a reservation at once? |
| `git_continuation` | 1 tool use, 2 operations, 2 tokens, 2 runners, 2 turns, no mishap | what do hooks and runners of one turn do to the transaction of the next? do they all together implement the one-slot transaction? |
| `git_permission` | 1 tool use, 1 turn, 1 mishap | the contract on PermissionRequest and tickets (violated) |
| `git_severed` | 1 tool use, 2 turns | the contract on continuation and reservations (violated) |
| `grant_operations` | 2 repositories, 2 targets, 2 branches, one local operation, about 100 prompts | is what a prompt declares what is reserved, and is a transaction over when all of it is done? |
| `push_pinning` | 3 URLs (one unsafe), 2 branches, 2 commits, 3 changes, an event budget of 3 with queries of at most 2 | can a change between two reads send something else, or somewhere else? |
| `tool_gate` | 2 tool uses, 4 calls (a clone, a build in it, a removal, an upload), 2 prompts, 3 gate hooks | can an approval, a checkout or a disclosure grant be used by whom it was not meant for? |
| `disclosure_race` | as `tool_gate` | the contract on disclosure (violated) |
| `agent_ledger` | 3 agents, 1 compaction, 2 turns, 2 mishaps | does Stop hold while agents run, and does every turn end? |
| `orphan_cleanup` | 3 tokens, 2 of them left by dead runners, 2 directories that cannot be removed (one there from the start), 2 workers, window 2, 2 removals and 2 records per worker, a deadline of 2 hanging removals, 1 death, 1 mishap | is anything live removed, and does everything dead go that the deadline has room for? |

Bounds. `MaxCrashes` and `MaxMishaps` bound how often something goes wrong: with two
mishaps a death can follow a failure of the recovery from another. `MaxTurn` bounds
the prompts; two are enough for one transaction to be continued, replaced or dropped
while steps of the first are outstanding. Tokens are never reused, so their number
bounds the rewritten commands of a behaviour; two allow a second attempt after a
first. `ran` counts to two, which is where `AtMostOnce` is already broken. The two
dimensions that are large together, turns and mishaps, are explored apart; the
proofs below have no bound on either. Symmetry is used over tool uses, tokens and
runners, in runs that check invariants and action properties only.

In the other runs: `tool_gate` needs two tool uses to compete for one hash, two
prompts for a hook that is late by a turn, and three hooks for PreToolUse,
PermissionRequest and a competitor; its four calls differ in what the gate looks at.
`push_pinning` needs a change before, between and after two reads (three), a URL to be
rewritten to and one that is refused, and a budget that two slow queries exhaust.
`orphan_cleanup` has limits below the number of things to clean, so that cursor,
wrap-around and record limit all matter, and a directory in front that never goes. A
second one comes when the last runner dies, or fails to remove its own: with one the
deadline has room for the records, with two it may not, so that both sides of the
exception in `RecordsSwept` occur. Removals that hang are not counted as mishaps; one
mishap is enough for a directory left by a runner, a failing removal or worker.
`agent_ledger` has two mishaps so that one can follow the recovery from another.
`grant_operations` enumerates prompts with up to two spelled commands and two
`gh repo create`, named targets, bare commands and prose, clashes and duplicate targets
included; two repositories are enough for every comparison the code makes, which is of
one scope with the rest. Tool uses, URLs and branches are symmetric where the run
states no liveness.

Deadlock checking is off in all runs but `state_store`: the session may really stop,
once the host sends no more prompts and starts nothing.

What the runs show:

* `RegisterSpec`, `SnapshotCurrent`: no lost update, no torn file, no update built on
  a stale read; a call that fails, times out or dies changes nothing or everything.
* `TempsAccounted`: a temporary file outlives its writer only by a death or a failed
  removal. Nothing in the code collects those that do.
* `DamageKept`, `EveryCallEnds`: see above.
* `AtMostOnce`, `GitIsSerial`: each operation of a transaction takes effect at most
  once and never beside another, *unless the transaction was continued while a
  reservation of it was open* (see 6).
* `RetiredWasDone`, `OnlyApproved`: the ledger claims nothing that did not happen, and
  nothing happens that was not approved.
* `OneReservation`, `TicketAgrees`, `ClaimIsFinal`: what makes those hold.
* `ContractSpec`: whatever runs late, the transaction goes only through the eight steps
  of `TransactionContract`: an operation is let through only from the slot, alone and
  while it is still to do; only what took effect is retired; a ledger never shrinks
  and a transaction that is gone never comes back.
* `RevocationIsOwn`: no revocation of another transaction.

* `SpentOnce`, `ApprovalSpec`: a hash serves one tool use and one call however hooks and
  retries interleave, it is taken whole and in the turn that approved it, and nothing is
  let through that did not take its own.
* `CheckoutTracked`, `CheckoutGated`: no checkout is lost between reservation and
  record except by Stop or by a PostToolUse that comes before the checkout exists, and
  calls into one that was settled before the hook began carry the code.
* `DisclosureGranted`: a grant of another turn never serves.
* `LedgerCoversRunning`, `QuietStopIsClean`: a Stop that is not forced passes only over
  a readable ledger without running agents. `StaleIsExplained` counts the other way:
  what is left of ended agents is at most what went wrong.
* `LedgerDrains`, `TurnEnds`: without mishaps the ledger empties; a turn that asks to
  stop ends whatever is in it.
* `LiveKept`, `UsableKept`: a worker takes no directory or record of a live runner and
  no record that has not aged. `LeftoversSwept`, `RecordsSwept`: what is old, removable
  and nobody's goes in the end; running records only while fewer directories hang the
  workers than their deadline has room for (see 6).
* `PushedAsApproved`, `DriftStops`, `UpstreamVerified`, `ReceiptTruthful`: see the
  comments in `PushPinning`.
* `ReservedAsDeclared`, `CompleteWhenDone`: see `GrantOperations`.

Every property is paired in `PROJECT.json` with a fault: an operator, marked `Fault:`
in its module, that replaces one operation by a plausible mistake and breaks it.

Fairness. `EveryCallEnds` needs `WF(Step(c))` for each process, which says
that a process that is running goes on. The code justifies it without assuming
anything about the lock: a waiter polls every 50 ms and reaches its deadline on its
own (`LockTimeout` is enabled all the time it waits), and a holder never waits. The
fault for this property is the missing deadline. `Call`, `Crash` and `Age` have no
fairness. The Git runs state no liveness property: a session whose host stops calling
keeps its reservation until the file expires.

`AgentLedger` assumes that a hook that was started ends, normally or by an error
(`hooks.json` gives each a timeout), and that a turn the host began asks to stop. It
assumes nothing of prompts, agents or compactions. `OrphanCleanup` assumes that a
runner that runs goes on, that things get older, that a worker that runs goes on, and
that workers keep being started, which every runner does when it begins
(`hook.py:1907`). Nothing assumes that a removal succeeds: failures are bounded by `MaxMishaps`,
and directories in `Stuck` never go and may hang every worker that tries them. The other
directories go all the same. Records come second under the same deadline: they go while
fewer than `Budget` directories of `Stuck` are left by runners that are over.

## 4. Proofs

All theorems are checked by TLAPS for every value of the constants: any number of
processes, tool uses, tokens, runners, operations, prompts, deaths and failures.
They assume only what the modules state of their constants (`ContentAssumption`,
`OperationAssumption`, `ClientAssumption`, `ConstantAssumption`, `PromptAssumption`,
`PushAssumption`, `GateAssumption`, `LedgerAssumption`, `CleanupAssumption`,
`NullAssumption`), which TLC evaluates on each instance: that the null values differ
from data, that operations are functions on contents, that tokens are not operations,
that prompts and the set of runner tokens are finite, that bounds are natural numbers.

**`StateStoreProofs`.** The invariant `Inv` adds to the types what each process has at
each step: whoever is between lock and unlock holds the lock (`LockIsHolder`); a
process in a call has an operation and one that is idle has not (`CallPhase`); past
`Decide` the verdict is what the step needs (`DecisionPhase`); the temporary file is
as far as its writer (`TempPhase`); the snapshot is what the file still says until
the file is replaced (`SnapPhase`). None of the checked properties is inductive
without the others: a snapshot stays current only because nobody else is in the
section, and `RegisterSpec` needs that the temporary file holds exactly the outcome
of the operation on that snapshot.

| Theorem | States |
|---|---|
| `TypeCorrect` | `TypeOK` |
| `CallsEnd` | a call takes at most eight steps of its process, of which the holder of the lock has at most seven left; each leaves fewer (`CallGetsOn`) |
| `SnapshotStaysCurrent` | `SnapshotCurrent` |
| `TempsAlwaysAccounted` | `TempsAccounted` |
| `DamageIsKept` | `DamageKept` |
| `StoreImplementsRegister` | `RegisterSpec` |

**`GitTransactionProofs`.** `Typed` strengthens `TypeOK` by what each hook knows at
each step (`HooksKnow`) and by the fact that a token is only ever used once its
ticket is written (`TokensWritten`); without it `ticket[k].txn` could be asked of a
ticket that is not there. `TableStep` reduces every step to what it does to the grant
and the reservation table, and `EntryStep`, `HookArrives`, `RunnerArrives` and
`TicketFrame` do the same for one entry, one hook, one runner and one ticket.

| Theorem | States | Strengthened by |
|---|---|---|
| `TypeCorrect` | `TypeOK` | `Typed` |
| `OneReservationAlways` | `OneReservation` | `ReservedByGrant`: an entry belongs to the grant held, so that "no reservation of this transaction" means an empty table |
| `TicketAlwaysAgrees` | `TicketAgrees` | `HookAgrees`: the hook that wrote a ticket and the entry it will bind agree |
| `ClaimIsAlwaysFinal` | `ClaimIsFinal` | `TicketTaken`, `ClaimTaken` |
| `GrantAlwaysAges` | `GrantOnlyAges` (no run of its own: `ContractSpec` says it too) | |
| `RevocationIsAlwaysOwn` | `RevocationIsOwn` | `TurnKnown`: no turn, no grant |
| `ProcessesEnd` | a hook has at most seven steps to take and a runner eight, each leaves it fewer (`ProcessesGetOn`), and nobody else moves it | |

**`GitEffectProofs`.** Three arguments, each resting on the one before.

Approval is carried from the grant to the entry, from the entry to the hook, from the
hook to the ticket and from the ticket to the effect, or from the grant to a command
let through directly; a transaction's approval never changes, because its turn is new
when it is granted (`Fresh`).

Honesty: receipts, answers of the host and the ledger only say of an operation that it
is done when it took effect (`Honest`). A token has one runner after its ticket moved
(`Lone`) and no receipt before that runner wrote it (`Untold`); a command let through
keeps its entry until it is answered (`DirectOwns`).

Counting: the invariant `Once` joins `Owned` (whoever is about to let an operation of
the current transaction take effect owns its reservation, and there is only one),
`Serial`, `Unspent` (what is about to take effect has not), and `Ledger` (an operation
that took effect and is not retired still has its open entry). `AtMostOnce` is not
inductive without all four: a second run is refused either by the open entry or by the
ledger, and only `Ledger` says that one of them is there. Transactions severed by a
continuation (section 6) are exempt, as they are in the properties.

| Theorem | States | Strengthened by |
|---|---|---|
| `OnlyApprovedAlways` | `OnlyApproved` | `Approval` |
| `RetiredAlwaysDone` | `RetiredWasDone` | `Honest`, `Lone`, `Untold`, `DirectOwns` |
| `AlwaysAtMostOnce` | `AtMostOnce` | `Once`, and all of the above |
| `GitAlwaysSerial` | `GitIsSerial` | `Once` |
| `ImplementsContract` | `ContractSpec` | `Known`, `Once`, `Honest` |

The refinement has one step per action of the system. What it needs of the invariants
is where the promise is more than a renaming: that whoever is let through is alone and
that the operation has not taken effect (`ClaimAlone`, `AdmitAlone`, from `Once`), that what
is retired took effect (`Honest`), and that a claim or a permission is only ever given
for the operation in the slot (`OneReservation`, `ReservedByGrant`). Steps that leave who
is let through alone are told apart once, in `AdmissionsFrame`, and those that change
nothing the promise speaks of in `ContractStutters`.

**`GrantOperationsProofs`.** The grant stays `Faithful` to its prompt: its operations,
bindings and exact commands are the declared ones and each target is one the prompt
pairs with the repository (`PairedIsPaired`, where the finiteness of prompts and the
counting of scopes and targets matter); its ledger is what is done (`Recorded`). Then
what is left of a grant is what is declared and not done (`EffectiveIsDeclared`,
`UsableIsIncomplete`).

| Theorem | States |
|---|---|
| `AlwaysReservedAsDeclared` | `ReservedAsDeclared` |
| `AlwaysCompleteWhenDone` | `CompleteWhenDone` |

**`PushPinningProofs`.** The approved identity passes through three records, each
written from reads made one after another; `Bound`, `Pinned` and `Witnessed` say at each
step of the hook, of the ticket and of the runner which fields agree already and which
facts were seen to hold, `Outcome` that nothing but the ticket arrives.

| Theorem | States |
|---|---|
| `TypeCorrect` | `TypeOK` |
| `AlwaysPushedAsApproved` | `PushedAsApproved` |
| `ReceiptAlwaysTruthful` | `ReceiptTruthful` |
| `DriftAlwaysStops` | `DriftStops` |
| `UpstreamAlwaysVerified` | `UpstreamVerified` |

**`ToolGateProofs`.** `Uses` collects whatever an approval serves or is about to serve:
calls cleared, entries waiting, hooks past their authorization. `Exclusive` says that a
hash is at hand or in use and never both, and in use by one tool use with one call;
`Lending` says that the
disclosure grant held, and a hook about to use one, rest on what the prompt of their turn
granted. `Provenance` says that a
clone past the gate goes to a destination the session knows or was made to forget, and
that what a hook read of the session stays known: the snapshot it works on may be old,
but holds every checkout that was settled when it was taken.

The refinement needs only types: what is at hand and what is held are both mapped, so
each action of the gate is one of the promise, or a loss. That makes it the lemma the
invariants rest on: `PromiseStep` reads the actions of the gate once, `ApprovalSteps` what
the promise's actions do to `Uses` and hashes, and `Approval` and `Exclusive` are then
proved of three kinds of step in place of fourteen actions.

| Theorem | States | Strengthened by |
|---|---|---|
| `TypeCorrect` | `TypeOK` | `Typed` |
| `SpentAlwaysOnce` | `SpentOnce` | `Approval`, `Exclusive` |
| `OnlyEverGranted` | `OnlyGranted` (no run of its own: `ApprovalSpec` and `Approval` imply it) | `Approval` |
| `ImplementsApprovals` | `ApprovalSpec` | `Typed`, `Approval` |
| `DisclosureAlwaysGranted` | `DisclosureGranted` | `Lending` |
| `CheckoutAlwaysTracked` | `CheckoutTracked` | `Provenance` |
| `CheckoutAlwaysGated` | `CheckoutGated` | `Provenance` |

**`AgentLedgerProofs`.** `Announced`: an agent is recorded only once it began and its
end is on its way only once it ended, or an end could take a running agent out. For
stale entries the proof counts `Doomed`, the names that are or may still become entries
nothing will remove: a step adds at most one, and only if it is a mishap
(`DoomedGrows`).

| Theorem | States | Strengthened by |
|---|---|---|
| `TypeCorrect` | `TypeOK` | `TypeInv` |
| `LedgerAlwaysCoversRunning` | `LedgerCoversRunning` | `Announced` |
| `QuietStopIsAlwaysClean` | `QuietStopIsClean` | the same |
| `StaleIsAlwaysExplained` | `StaleIsExplained` | `EntriesRecorded`, `DoomedCounted` |
| `TurnsEnd` | a turn has at most `4 + 3 * MaxMishaps` steps, each leaves it fewer (`TurnGetsOn`), and a host that waits for Stop has one on the way | `StopOnItsWay` |

**`OrphanCleanupProofs`.** Between the test of a lease and the removal the runner goes
on. A directory or a running record is there only once its runner took its lease
(`Traces`) and no runner takes it twice, so what a worker is about to remove belongs to
a runner that is over, or is a ticket too old to be accepted (`Condemns`). Nothing is
assumed of what a listing returned.

| Theorem | States |
|---|---|
| `TypeCorrect` | `TypeOK` |
| `LiveAlwaysKept` | `LiveKept` |
| `UsableAlwaysKept` | `UsableKept` |
| `WorkersEnd` | a worker has at most `8 * N + 11` steps to take, `N` the number of tokens: each of its steps leaves it fewer and nobody gives it more |

Types and termination rest on the lists: that `Among` returns a sequence of elements of
the set, no longer than the one it was given (`AmongTyped`), that a slice and a wrapped
window are no longer than the limit or the directory (`SliceIs`, `WrappedTyped`). The
first is an induction over the prefixes of a sequence; the library's induction theorems
take an operator as a parameter, so it is argued from a least counterexample
(`NatInductive`). `WorkersEnd` is the part of the liveness of cleanup that is not about
fairness: `Remaining` counts what is in the list and what the phases still to come
may put there.

Only model-checked: `EveryCallEnds`, `LedgerDrains`, `TurnEnds`, `LeftoversSwept` and
`RecordsSwept`, because liveness under fairness is out of the prover's reach. What of
them is not about fairness is proved: `CallsEnd`, `TurnsEnd` and `WorkersEnd` each give a
count of steps left that every step of a call, a turn or a worker makes smaller and
nothing makes larger, so that only stopping half-way is left to fairness. `CallsEnd` also
says why waiters end: whoever holds the lock is at most seven of its own steps from
dropping it. `ProcessesEnd` is the same for the hooks and runners of the transaction: a
failure sends them on to revocation and sweep, never back. For the transaction no
liveness property is stated with it (section 3).

## 5. Not modelled

* The text side of classification: risk scans, regular expressions, shell quoting, the
  parsing of prompts and commands, redaction. It has no state; its verdicts are the
  inputs of the modules.
* `protocol.py` and `entrypoints/user_prompt_submit.py`: `hooks.json` starts
  `control_plane_hook.py`, whose dispatch and error answers are in the modules.
* The validation of policy fields; the Windows runtime setup and launcher
  (`*.ps1`, planned); package bootstrap, release checks and smoke tests.
* The kernel under `state.py`: `flock`, exclusive creation and `rename` are atomic. A
  crash of the machine, where `rename` may outlive the data, is not modelled. The
  Windows lock (`msvcrt`) differs only in how the lock file is initialised.
* Real time: an age is a step that may happen. In particular the snapshot queries of
  `_prepare_git_runner` (`hook.py:1487`, `:1601`) have three seconds each outside the
  event budget, so that a hook may run past the ten seconds of `hooks.json`; what
  follows is the death of a hook.

## 6. Where code and contract part

* **Continuation** (`git_severed`, `ContinuationKeepsReservations`). The contract,
  line 52: "Continuation updates only the active turn. The original session, [...]
  pending reservations, and consumed-operation ledger remain unchanged." The prompt
  handler empties `pending_permission_authorizations` for every prompt
  (`core.py:3782`). If an operation is in flight then, its receipt is never charged:
  the ledger of the continued transaction does not have it, and it may be authorized
  and run again. `AtMostOnce` and `GitIsSerial` exempt exactly the transactions this
  happened to (`severed`).
* **PermissionRequest without a ticket** (`git_permission`, `PermissionHasTicket`). The
  contract, line 52: "Matching `PermissionRequest` requires the matching unclaimed
  private ticket". `mutate_authorization` (`hook.py:2671`) accepts the original command
  of a reservation as long as no runner command has replaced it: after a PreToolUse
  hook that ended between its authorization and `bind_runner`. The command is still
  the approved one, and `AtMostOnce`, `RetiredWasDone` and `OnlyApproved` hold with it.
* **Disclosure** (`disclosure_race`, `DisclosedOnce`). The contract, line 58: "The grant
  is consumed on first matching use." The gate decides on the state that
  `mutate_authorization` returned and removes the grant in a call of its own
  (`hook.py:2848`-`2893`), which removes it if it is still there and does not tell a
  hook that came second: two tool uses at once both disclose. Both are covered by the
  words of the grant (`DisclosureGranted`).

Met while modelling, without a run of their own:

* **A bare exact command.** The contract, line 50: "Exact `add`, `commit`, and `push`
  commands bind their command digests to the matching repository scope". A command
  spelled without `-C` next to commands that name a repository (with `-C`, or
  `gh repo create --source`) names no scope (`core.py:2664`): its digest is dropped and
  its operation is allowed with any arguments in every bound repository.
  `ReservedAsDeclared` exempts exactly this.
* **One push branch.** A prompt has the branch of its first push (`core.py:2712`); a
  second repository's push to another branch is declared and never matches, and the
  transaction stays unfinished. `CompleteWhenDone` holds with it.
* A PreToolUse hook consumes the disclosure grant, so that a PermissionRequest of the
  same tool use is denied; and a call denied for disclosure has already spent its hash.
* PostToolUse before the checkout exists loses the clone's provenance, and Stop forgets
  that of the whole session (`forgotten` in `ToolGate`). A gate that read its snapshot
  before a clone of another tool use was recorded does not see that checkout.
* An agent that is announced without `agent_id`, or whose end is lost, stays in the
  ledger; only the forced Stop passes over it. README.md of the repository, line 200:
  "Blocks only while tracked Agents remain active."
* A Git query of the runner that times out raises `TimeoutExpired`, which the handler
  around the push does not catch (`hook.py:1989`): directory and lease go, no receipt is
  written, and the running record stays until a worker takes it.
* **Two directories that hang.** Each worker tries two removals; two that hang spend its
  whole second (`hook.py:335`-`338`, `:852`), and the loop over records, which comes after
  them under the same deadline (`hook.py:801`, `:816`), looks at none. If two such
  directories meet every worker, the records of dead runners stay. The contract, line 35,
  says that "eventual cleanup" is not a hard guarantee. `RecordsSwept` states what is left:
  with fewer such directories every running record goes. That a stream of new records
  longer than the 64 a worker looks at could hide an old one is not covered: the tokens
  of an instance are finite.
* The runner does not read the policy again: switching it off stops no runner that has
  its ticket.
* Lease files of dead runners are never collected. A record whose removal raises ends
  each worker before it saves its cursor.

## 7. Plan

Done: the store with its refinement; the transaction, grants of several repositories,
the pinned push, the gate, the agents and the cleanup; all their safety properties
checked and proved, and the three refinements with them. Left, in this order:

1. `RuntimeSetup`: publication and pruning of interpreters against the launcher.
2. Selected pure decisions of the classifier (the read-only decision of sed scripts)
   as operators checked against a reference definition.
