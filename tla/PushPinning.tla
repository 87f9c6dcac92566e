---------------------------- MODULE PushPinning ----------------------------
(***************************************************************************)
(* One approved "git push", from the prompt to the receipt, in a repository *)
(* that changes meanwhile.                                                 *)
(*                                                                         *)
(* The prompt binds the identity of the push URL of origin.  The hook reads *)
(* the repository through a cache of its event and within a budget, and    *)
(* pins URL, branch and commit in a ticket.  The runner reads everything   *)
(* again without a cache, pushes the pinned commit to the pinned URL from  *)
(* an isolated repository, and then looks again before it writes upstream  *)
(* metadata.  Every read is an action; anything may change between two.    *)
(*                                                                         *)
(* Reservation, claim and revocation are in module GitTransaction; here the *)
(* reservation is granted and the claim only compares the grant.           *)
(***************************************************************************)
EXTENDS Integers, FiniteSetsExt, TLC

CONSTANTS Url, Safe,     \* push URLs, and those _safe_git_push_url accepts
          Branch, Oid,
          HEAD,          \* the refspec HEAD
          NoUrl, NoOid, NoTicket, NoReceipt, NoRewrite,
          Budget,        \* _EVENT_BUDGET_SECONDS
          Ceiling,       \* _GIT_QUERY_TIMEOUT_SECONDS
          MaxChanges     \* bound: changes of the repository and the policy

Refspec == Branch \cup {HEAD}
Rewrite == {r \in Url \X Url : r[1] # r[2]}

ASSUME PushAssumption == /\ Safe \subseteq Url /\ HEAD \notin Branch
                         /\ NoUrl \notin Url /\ NoOid \notin Oid
                         /\ NoRewrite \notin Rewrite /\ MaxChanges \in Nat
                         /\ Budget \in Nat /\ Ceiling \in Nat

Ticket == [url : Safe, branch : Branch, oid : Oid]
Receipt == [ok : BOOLEAN, remote : BOOLEAN]
Fact == {"url", "rewrite", "source", "branch"}

ASSUME NullAssumption == NoTicket \notin Ticket /\ NoReceipt \notin Receipt

VARIABLES
    \* the repository and its configuration
    origin,    \* the configured push URL of origin
    rewrite,   \* a url.*.insteadOf in effect, or NoRewrite
    helper,    \* vcs, receivepack, recursion or an SSH command is configured
    oid,       \* the commit of each local branch
    head,      \* the branch HEAD names
    policy,    \* the policy file
    upstream,  \* branches with upstream metadata: keys written so far
    \* the command and its grant
    command,   \* refspec and --set-upstream
    approved,  \* remote_identity of the grant
    \* hook, runner and server
    hook,      \* step of the hook, its policy view, what it read, time spent
    ticket,
    runner,    \* step of the runner and what it read
    isolated,  \* the isolated repository exists
    server,    \* what arrived
    receipt,
    changes,   \* counter of the bound
    gitOk,     \* history: Git reported success
    held       \* history: facts that held at some time since the runner started,
               \* then since Git ended

repository == <<origin, rewrite, helper, oid, head, policy>>
vars == <<repository, upstream, command, approved, hook, ticket, runner, isolated,
          server, receipt, changes, gitOk, held>>

HookStep == {"none", "urls", "config", "match", "head", "source", "rewrites", "done",
             "denied"}
RunnerStep == {"none", "urls", "config", "match", "rewrites", "head", "source",
               "isolate", "push", "upstreamUrls", "upstreamConfig", "upstreamBranch",
               "writeRemote", "writeMerge", "receipt", "ended"}
Key == {"remote", "merge"}

\* The policy file: missing, readable with the policy on or off, or not acceptable
\* (a link, another owner, too large, not JSON, or configured and missing).
PolicyFile == {"absent", "on", "off", "broken"}

Idle == [at |-> "none", url |-> NoUrl, identity |-> NoUrl, branch |-> HEAD, oid |-> NoOid]
IdleHook == [at |-> "none", url |-> NoUrl, identity |-> NoUrl, branch |-> HEAD, oid |-> NoOid,
             enabled |-> FALSE, spent |-> 0]

Init == /\ origin \in Safe /\ rewrite = NoRewrite /\ helper = FALSE /\ policy = "on"
        /\ oid \in [Branch -> Oid] /\ head \in Branch
        /\ upstream = [b \in Branch |-> {}]
        /\ command \in [refspec : Refspec, upstream : BOOLEAN]
        /\ approved = NoUrl
        /\ hook = IdleHook /\ ticket = NoTicket
        /\ runner = Idle /\ isolated = FALSE /\ server = {} /\ receipt = NoReceipt
        /\ changes = 0 /\ gitOk = FALSE /\ held = {}

------------------------------------------------------------------------------
(* What Git answers.                                                        *)

\* git remote get-url --push applies the rewrites.
Urls == IF rewrite # NoRewrite /\ rewrite[1] = origin THEN rewrite[2] ELSE origin

\* _git_remote_identities of a URL that was read before.
Identity(url) == IF url \in Safe /\ ~helper THEN url ELSE NoUrl

\* The rewrite snapshot of a URL is the empty one.
NoRewriteOf(url) == rewrite = NoRewrite \/ rewrite[1] # url

\* The branch a refspec names.
Resolved == IF command.refspec = HEAD THEN head ELSE command.refspec

\* What is true of the repository and the ticket now.
Facts == (IF ticket # NoTicket /\ Urls = ticket.url THEN {"url"} ELSE {})
         \cup (IF ticket # NoTicket /\ NoRewriteOf(ticket.url) THEN {"rewrite"} ELSE {})
         \cup (IF ticket # NoTicket /\ oid[ticket.branch] = ticket.oid
               THEN {"source"} ELSE {})
         \cup (IF ticket # NoTicket /\ oid[ticket.branch] # NoOid
               THEN {"branch"} ELSE {})

\* The user, or anything else, changes the repository.
Change ==
    /\ changes < MaxChanges /\ changes' = changes + 1
    /\ \/ origin' \in Url /\ UNCHANGED <<rewrite, helper, oid, head, policy>>
       \/ /\ rewrite' \in Rewrite \cup {NoRewrite}
          /\ UNCHANGED <<origin, helper, oid, head, policy>>
       \/ helper' = ~helper /\ UNCHANGED <<origin, rewrite, oid, head, policy>>
       \/ \E b \in Branch, o \in Oid \cup {NoOid} :
             /\ oid' = [oid EXCEPT ![b] = o]
             /\ UNCHANGED <<origin, rewrite, helper, head, policy>>
       \/ head' \in Branch /\ UNCHANGED <<origin, rewrite, helper, oid, policy>>
       \/ policy' \in PolicyFile /\ UNCHANGED <<origin, rewrite, helper, oid, head>>
    /\ UNCHANGED <<upstream, command, approved, hook, ticket, runner, isolated, server,
                   receipt, gitOk>>
    /\ repository' # repository
    /\ held' = held \cup Facts'

------------------------------------------------------------------------------
(* The prompt and the hook.                                                 *)

HookIs(new) == hook' = new

\* load_policy: a missing file is the default policy, with everything off.
PolicyLoads == policy # "broken"
Enabled == policy = "on"

\* The grant binds the identity of origin as it is now.
Approve == /\ Enabled /\ hook.at = "none" /\ approved = NoUrl
           /\ Identity(Urls) # NoUrl
           /\ approved' = Identity(Urls)
           /\ UNCHANGED <<repository, upstream, command, hook, ticket, runner, isolated,
                          server, receipt, changes, gitOk, held>>

Hooks == /\ approved # NoUrl
         /\ UNCHANGED <<repository, upstream, command, approved, runner, isolated,
                        server, receipt, changes, gitOk, held>>

\* The event opens its budget and loads the one policy view it goes by.
HookStarts == /\ Hooks /\ hook.at = "none"
              /\ HookIs([hook EXCEPT !.at = IF PolicyLoads THEN "urls" ELSE "denied",
                                     !.enabled = Enabled])
              /\ UNCHANGED ticket

\* Fault: a query has its own timeout, whatever the event has left.
QueryLimitOwn == Ceiling

\* _remaining_event_seconds: the time a query may take.
QueryLimit == Min({Ceiling, Budget - hook.spent})

\* _run_git_query: a query that finds no time left, fails or runs into its timeout
\* leaves the answer unestablished.
Query(answer, new) ==
    IF QueryLimit <= 0 THEN HookIs(new[NoUrl])
    ELSE \E d \in 0 .. QueryLimit, a \in {answer, NoUrl} :
            HookIs([new[a] EXCEPT !.spent = @ + d])

\* _git_remote_urls: read once in an event and cached, established or not.
HookReadsUrls ==
    /\ Hooks /\ hook.at = "urls"
    /\ Query(Urls, [url \in Url \cup {NoUrl} |-> [hook EXCEPT !.at = "config", !.url = url]])
    /\ UNCHANGED ticket

\* _git_remote_identities of the captured URL
HookReadsConfig ==
    /\ Hooks /\ hook.at = "config"
    /\ Query(Identity(hook.url), [identity \in Url \cup {NoUrl} |->
                                    [hook EXCEPT !.at = "match", !.identity = identity]])
    /\ UNCHANGED ticket

\* _git_grant_matches for a push whose branch is the approved one.
GrantMatches(identity) == identity # NoUrl /\ identity = approved

HookMatches == /\ Hooks /\ hook.at = "match"
               /\ HookIs([hook EXCEPT
                     !.at = IF hook.enabled /\ GrantMatches(hook.identity)
                            THEN "head" ELSE "denied"])
               /\ UNCHANGED ticket

\* _prepare_git_runner: URL and identity come from the cache of the event, the
\* source snapshot and the rewrites are read.
HookReadsHead ==
    /\ Hooks /\ hook.at = "head"
    /\ HookIs(IF hook.url = hook.identity
              THEN [hook EXCEPT !.at = "source", !.branch = Resolved]
              ELSE [hook EXCEPT !.at = "denied"])
    /\ UNCHANGED ticket

HookReadsSource ==
    /\ Hooks /\ hook.at = "source"
    /\ HookIs(IF oid[hook.branch] # NoOid
              THEN [hook EXCEPT !.at = "rewrites", !.oid = oid[hook.branch]]
              ELSE [hook EXCEPT !.at = "denied"])
    /\ UNCHANGED ticket

HookWritesTicket ==
    /\ Hooks /\ hook.at = "rewrites"
    /\ IF NoRewriteOf(hook.url)
       THEN /\ ticket' = [url |-> hook.url, branch |-> hook.branch, oid |-> hook.oid]
            /\ HookIs([hook EXCEPT !.at = "done"])
       ELSE HookIs([hook EXCEPT !.at = "denied"]) /\ UNCHANGED ticket

\* A query of the snapshots times out, or the hook is killed.
HookFails == /\ Hooks /\ hook.at \notin {"none", "done", "denied"}
             /\ HookIs([hook EXCEPT !.at = "denied"])
             /\ UNCHANGED ticket

------------------------------------------------------------------------------
(* The runner.                                                              *)

Runner(step) == runner.at = step
               /\ UNCHANGED <<repository, command, approved, hook, ticket, changes>>
RunnerGoto(step) == runner' = [runner EXCEPT !.at = step]

\* Nothing but the runner's own step.
Quiet == UNCHANGED <<upstream, isolated, server, receipt, gitOk, held>>

RunnerStarts == /\ Runner("none") /\ ticket # NoTicket
                /\ RunnerGoto("urls")
                /\ held' = Facts
                /\ UNCHANGED <<upstream, isolated, server, receipt, gitOk>>

\* Fault: a runner answers from what the hook read.
FreshUrlsCached == ticket.url

\* In runner mode no query is cached.
FreshUrls == Urls

\* _validate_git_runner_request
RunnerReadsUrls == /\ Runner("urls") /\ Quiet
                   /\ \E url \in {FreshUrls, NoUrl} :
                         runner' = [runner EXCEPT !.at = "config", !.url = url]

RunnerReadsConfig ==
    /\ Runner("config") /\ Quiet
    /\ \E identity \in {Identity(runner.url), NoUrl} :
          runner' = [runner EXCEPT !.at = "match", !.identity = identity]

\* The binding of the ticket and, in the claim, the grant.  A mismatch ends the
\* runner without a receipt.
RunnerMatches ==
    /\ Runner("match") /\ Quiet
    /\ RunnerGoto(IF runner.url = ticket.url /\ GrantMatches(runner.identity)
                  THEN "rewrites" ELSE "ended")

RunnerReadsRewrites ==
    /\ Runner("rewrites") /\ Quiet
    /\ RunnerGoto(IF NoRewriteOf(ticket.url) THEN "head" ELSE "receipt")

\* _git_push_source_snapshot, compared with the ticket
RunnerReadsHead ==
    /\ Runner("head") /\ Quiet
    /\ runner' = [runner EXCEPT !.at = "source", !.branch = Resolved]

RunnerReadsSource ==
    /\ Runner("source") /\ Quiet
    /\ runner' = [runner EXCEPT !.oid = oid[runner.branch],
                    !.at = IF runner.branch = ticket.branch
                              /\ oid[runner.branch] = ticket.oid
                           THEN "isolate" ELSE "receipt"]

\* _prepare_isolated_git_push; a failure takes the directory away again.
Isolate == /\ Runner("isolate")
           /\ \/ RunnerGoto("push") /\ isolated' = TRUE
              \/ RunnerGoto("receipt") /\ UNCHANGED isolated
           /\ UNCHANGED <<upstream, server, receipt, gitOk, held>>

\* Fault: the remote is named, not pinned.
PushedNamed == [url |-> Urls, branch |-> runner.branch, oid |-> runner.oid]

\* _pinned_git_push_argv
Pushed == [url |-> ticket.url, branch |-> runner.branch, oid |-> runner.oid]

\* Fault: upstream metadata is written whatever Git answered.
WantsUpstreamAlways(ok) == command.upstream

WantsUpstream(ok) == ok /\ command.upstream

\* Git fails, succeeds, or loses the answer of a push that arrived.
GitPush ==
    /\ Runner("push")
    /\ \E ok \in BOOLEAN :
          /\ \/ server' = server \cup {Pushed}
             \/ ~ok /\ UNCHANGED server
          /\ gitOk' = ok
          /\ RunnerGoto(IF WantsUpstream(ok) THEN "upstreamUrls" ELSE "receipt")
    /\ held' = Facts
    /\ UNCHANGED <<upstream, isolated, receipt>>

\* _set_git_push_upstream reads URL and identity again, ...
UpstreamReadsUrls == /\ Runner("upstreamUrls") /\ Quiet
                     /\ \E url \in {FreshUrls, NoUrl} :
                           RunnerGoto(IF url = ticket.url
                                      THEN "upstreamConfig" ELSE "receipt")

UpstreamReadsConfig ==
    /\ Runner("upstreamConfig") /\ Quiet
    /\ RunnerGoto(IF Identity(ticket.url) = ticket.url
                  THEN "upstreamBranch" ELSE "receipt")

\* ... looks for the branch, ...
UpstreamReadsBranch ==
    /\ Runner("upstreamBranch") /\ Quiet
    /\ RunnerGoto(IF oid[runner.branch] # NoOid THEN "writeRemote" ELSE "receipt")

\* ... and writes two keys, either of which may fail.
WriteKey(step, key, next) ==
    /\ Runner(step)
    /\ \/ /\ upstream' = [upstream EXCEPT ![runner.branch] = @ \cup {key}]
          /\ RunnerGoto(next)
       \/ RunnerGoto("receipt") /\ UNCHANGED upstream
    /\ UNCHANGED <<isolated, server, receipt, gitOk, held>>

WriteRemote == WriteKey("writeRemote", "remote", "writeMerge")
WriteMerge == WriteKey("writeMerge", "merge", "receipt")

\* The exit code is good only with the metadata that was asked for.
ExitOk == gitOk /\ (command.upstream => upstream[runner.branch] = Key)

\* Fault: the final exit code decides.
RemoteSucceededExit == ExitOk

\* remote_succeeded: Git answered with success, whatever came after.
RemoteSucceeded == gitOk

\* The directory goes, the receipt is written.
WriteReceipt == /\ Runner("receipt")
                /\ isolated' = FALSE
                /\ receipt' = [ok |-> ExitOk, remote |-> RemoteSucceeded]
                /\ RunnerGoto("ended")
                /\ UNCHANGED <<upstream, server, gitOk, held>>

\* A timeout of a snapshot is not among the caught errors: the directory goes,
\* but no receipt is written.
RunnerRaises == /\ \E step \in {"rewrites", "head", "source", "isolate"} : Runner(step)
                /\ isolated' = FALSE
                /\ RunnerGoto("ended")
                /\ UNCHANGED <<upstream, server, receipt, gitOk, held>>

\* A killed runner leaves the directory to the cleanup (module OrphanCleanup).
RunnerDies == /\ runner.at \notin {"none", "ended"}
              /\ RunnerGoto("ended")
              /\ Quiet
              /\ UNCHANGED <<repository, command, approved, hook, ticket, changes>>

HookNext == \/ HookStarts \/ HookReadsUrls \/ HookReadsConfig \/ HookMatches
            \/ HookReadsHead \/ HookReadsSource \/ HookWritesTicket \/ HookFails

RunnerNext == \/ RunnerStarts \/ RunnerReadsUrls \/ RunnerReadsConfig \/ RunnerMatches
              \/ RunnerReadsRewrites \/ RunnerReadsHead \/ RunnerReadsSource
              \/ Isolate \/ GitPush \/ UpstreamReadsUrls \/ UpstreamReadsConfig
              \/ UpstreamReadsBranch \/ WriteRemote \/ WriteMerge \/ WriteReceipt
              \/ RunnerRaises \/ RunnerDies

Next == Change \/ Approve \/ HookNext \/ RunnerNext

Spec == Init /\ [][Next]_vars

------------------------------------------------------------------------------
(* Properties.                                                              *)

\* Every variable has its type; a ticket pins a safe URL, and the queries of an
\* event together stay within its budget.
TypeOK ==
    /\ origin \in Url /\ rewrite \in Rewrite \cup {NoRewrite} /\ helper \in BOOLEAN
    /\ oid \in [Branch -> Oid \cup {NoOid}] /\ head \in Branch /\ policy \in PolicyFile
    /\ upstream \in [Branch -> SUBSET Key]
    /\ command \in [refspec : Refspec, upstream : BOOLEAN]
    /\ approved \in Safe \cup {NoUrl}
    /\ hook \in [at : HookStep, url : Url \cup {NoUrl}, identity : Url \cup {NoUrl},
                 branch : Refspec, oid : Oid \cup {NoOid}, enabled : BOOLEAN,
                 spent : 0 .. Budget]
    /\ ticket \in Ticket \cup {NoTicket}
    /\ runner \in [at : RunnerStep, url : Url \cup {NoUrl}, identity : Url \cup {NoUrl},
                   branch : Refspec, oid : Oid \cup {NoOid}]
    /\ isolated \in BOOLEAN /\ server \subseteq Ticket
    /\ receipt \in Receipt \cup {NoReceipt}
    /\ changes \in 0 .. MaxChanges /\ gitOk \in BOOLEAN /\ held \subseteq Fact

\* What arrives at a server goes to the URL whose identity the prompt approved, and
\* is the commit and the branch of the ticket, whatever changes between any two
\* reads (_validate_git_runner_request, _pinned_git_push_argv).
PushedAsApproved ==
    \A p \in server : /\ p = ticket /\ p.url = approved
                      /\ command.refspec \in {HEAD, p.branch}

\* A repository that differs from the ticket for as long as the runner looks at it
\* stops the push: drift is never judged by what an earlier event read
\* (_git_query_cache_key, _run_approved_git_with_lease; hook-contract.md, line 41).
DriftStops == [][server' # server => {"url", "rewrite", "source"} \subseteq held]_vars

\* Upstream metadata follows a push that Git reported as done, for a branch and a
\* remote that were as pinned at some time after it (_set_git_push_upstream).
UpstreamVerified ==
    [][upstream' # upstream => gitOk /\ {"url", "branch"} \subseteq held]_vars

\* The receipt says that the remote succeeded exactly when Git said so, also when
\* the metadata failed afterwards, and then the commit is there
\* (remote_succeeded, _consume_git_runner_status).
ReceiptTruthful ==
    receipt # NoReceipt =>
        /\ receipt.remote = gitOk
        /\ receipt.ok => receipt.remote
        /\ receipt.remote => ticket \in server
==============================================================================
