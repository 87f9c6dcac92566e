------------------------- MODULE PushPinningProofs -------------------------
(***************************************************************************)
(* What is pushed, on what grounds, and what is told of it, for any number *)
(* of URLs, branches, commits and changes.                                 *)
(***************************************************************************)
EXTENDS PushPinning, TLAPS

(***************************************************************************)
(* The approved identity reaches the server through three records, each    *)
(* written from reads that were made one after another: the hook's, the    *)
(* ticket, and the runner's.  The invariant says at each step which of     *)
(* their fields already agree, and which facts the runner has witnessed.   *)
(***************************************************************************)
\* The hook goes on only with the identity that was approved.
Bound ==
    /\ approved \in Safe \cup {NoUrl}
    /\ approved = NoUrl => hook.at = "none"
    /\ hook.at \in {"head", "source", "rewrites"} => hook.identity = approved
    /\ hook.at \in {"source", "rewrites"} =>
          /\ hook.url = approved /\ hook.branch \in Branch
          /\ command.refspec \in {HEAD, hook.branch}
    /\ hook.at = "rewrites" => hook.oid \in Oid

Pinned ==
    ticket # NoTicket =>
        /\ hook.at = "done" /\ ticket \in Ticket /\ ticket.url = approved
        /\ command.refspec \in {HEAD, ticket.branch}

Upstream == {"upstreamUrls", "upstreamConfig", "upstreamBranch", "writeRemote",
             "writeMerge"}

\* What the runner has read agrees with the ticket and was so at some time.
Witnessed ==
    /\ runner.at # "none" => ticket # NoTicket /\ Facts \subseteq held
    /\ runner.at \in {"config", "match"} /\ runner.url = ticket.url => "url" \in held
    /\ runner.at \in {"rewrites", "head", "source", "isolate", "push"} => "url" \in held
    /\ runner.at \in {"head", "source", "isolate", "push"} => "rewrite" \in held
    /\ runner.at \in {"isolate", "push"} => "source" \in held
    /\ runner.at \in {"isolate", "push"} \cup Upstream =>
          runner.branch = ticket.branch /\ runner.oid = ticket.oid
    /\ runner.at \in Upstream => gitOk
    /\ runner.at \in Upstream \ {"upstreamUrls"} => "url" \in held
    /\ runner.at \in {"writeRemote", "writeMerge"} => "branch" \in held

\* Nothing but the ticket arrives, and the receipt is the last thing written.
Outcome ==
    /\ server \subseteq {ticket} \cap Ticket
    /\ gitOk => ticket \in server
    /\ receipt # NoReceipt =>
          /\ runner.at = "ended" /\ receipt.remote = gitOk
          /\ receipt.ok => receipt.remote

Typed ==
    /\ origin \in Url /\ rewrite \in Rewrite \cup {NoRewrite}
    /\ oid \in [Branch -> Oid \cup {NoOid}] /\ head \in Branch
    /\ command.refspec \in Refspec
    /\ {"at", "url", "identity", "branch", "oid", "enabled", "spent"} \subseteq DOMAIN hook
    /\ {"at", "url", "identity", "branch", "oid"} \subseteq DOMAIN runner
    /\ runner.at \in RunnerStep

Inv == Typed /\ Bound /\ Pinned /\ Witnessed /\ Outcome

LEMMA AnswersTyped ==
    ASSUME Typed
    PROVE  Urls \in Url /\ Resolved \in Branch /\ \A u \in Url : Identity(u) \in Safe \cup {NoUrl}
BY DEF Typed, Urls, Resolved, Refspec, Rewrite, Identity

LEMMA InvInit == Init => Inv
<1> SUFFICES ASSUME Init PROVE Inv
    OBVIOUS
<1>1. Typed
  BY PushAssumption DEF Init, Typed, Idle, IdleHook, Refspec, RunnerStep
<1>2. hook.at = "none" /\ runner.at = "none"
  BY DEF Init, Idle, IdleHook
<1>3. Bound /\ Pinned /\ Outcome
  BY <1>2 DEF Init, Bound, Pinned, Outcome
<1>4. Witnessed
  BY <1>2 DEF Init, Witnessed, Upstream
<1> QED
  BY <1>1, <1>3, <1>4 DEF Inv

LEMMA ChangeKeeps == Inv /\ Change => Inv'
<1> SUFFICES ASSUME Inv, Change PROVE Inv'
    OBVIOUS
<1>1. /\ UNCHANGED <<command, approved, hook, ticket, runner, server, receipt, gitOk>>
      /\ held' = held \cup Facts'
  BY DEF Change
<1>2. Typed'
  BY <1>1 DEF Inv, Typed, Change
<1>3. (Bound /\ Pinned /\ Outcome)'
  BY <1>1 DEF Inv, Bound, Pinned, Outcome
<1>4. Witnessed'
  BY <1>1 DEF Inv, Witnessed
<1> QED
  BY <1>2, <1>3, <1>4 DEF Inv

\* Before there is a ticket no runner starts and nothing arrives.
LEMMA HookKeeps ==
    ASSUME Inv, UNCHANGED <<repository, command, runner, server, receipt, gitOk, held>>,
           ticket = NoTicket,
           {"at", "url", "identity", "branch", "oid", "enabled", "spent"}
               \subseteq DOMAIN hook',
           Bound', Pinned'
    PROVE  Inv'
<1>1. runner.at = "none" /\ server = {} /\ ~gitOk /\ receipt = NoReceipt
  BY NullAssumption DEF Inv, Witnessed, Outcome
<1>2. Witnessed'
  BY <1>1 DEF Witnessed, Upstream
<1>3. Outcome'
  BY <1>1 DEF Outcome
<1>4. Typed'
  BY DEF Inv, Typed, repository
<1> QED
  BY <1>2, <1>3, <1>4 DEF Inv

LEMMA HookNextKeeps == Inv /\ (Approve \/ HookNext) => Inv'
<1> SUFFICES ASSUME Inv, Approve \/ HookNext PROVE Inv'
    OBVIOUS
<1>t. /\ Typed /\ Bound /\ Pinned
      /\ {"at", "url", "identity", "branch", "oid", "enabled", "spent"} \subseteq DOMAIN hook
  BY DEF Inv, Typed
<1>u. /\ UNCHANGED <<repository, command, runner, server, receipt, gitOk, held>>
      /\ ticket = NoTicket
  BY <1>t
  DEF Pinned, Approve, HookNext, Hooks, HookStarts, HookReadsUrls, HookReadsConfig,
      HookMatches, HookReadsHead, HookReadsSource, HookWritesTicket, HookFails
\* No ticket comes of most steps.
<1>h. ASSUME NEW new, hook' = new, ticket' = ticket,
             {"at", "url", "identity", "branch", "oid", "enabled", "spent"}
                 \subseteq DOMAIN new,
             Bound'
      PROVE  Inv'
  <2>1. Pinned'
    BY <1>u, <1>h DEF Pinned
  <2> QED
    BY <1>u, <1>h, <2>1, HookKeeps
<1>1. CASE Approve
  <2>1. hook' = hook /\ ticket' = ticket /\ hook.at = "none"
    BY <1>1 DEF Approve
  <2>2. approved' \in Safe /\ approved' # NoUrl
    BY <1>1, <1>t, AnswersTyped DEF Approve
  <2>3. Bound'
    BY <2>1, <2>2 DEF Bound
  <2> QED
    BY <1>h, <1>t, <2>1, <2>3
\* Steps that deny, or go to where nothing is bound yet.
<1>d. ASSUME NEW new, hook' = new, ticket' = ticket, approved' = approved,
             approved # NoUrl,
             {"at", "url", "identity", "branch", "oid", "enabled", "spent"}
                 \subseteq DOMAIN new,
             new.at \in {"urls", "config", "match", "denied"}
      PROVE  Inv'
  <2>1. Bound'
    BY <1>t, <1>d DEF Bound
  <2> QED
    BY <1>h, <1>d, <2>1
<1>2. CASE HookStarts
  <2>1. PICK new : /\ hook' = new /\ ticket' = ticket /\ approved # NoUrl
                   /\ new = [hook EXCEPT !.at = IF PolicyLoads THEN "urls" ELSE "denied",
                                         !.enabled = Enabled]
    BY <1>2 DEF HookStarts, HookIs, Hooks
  <2>2. approved' = approved
    BY <1>2 DEF HookStarts, Hooks
  <2>3. new.at \in {"urls", "denied"}
    BY <1>t, <2>1
  <2>4. DOMAIN new = DOMAIN hook
    BY <2>1
  <2> QED
    BY <1>t, <1>d, <2>1, <2>2, <2>3, <2>4
<1>3. CASE HookReadsUrls
  <2>1. PICK url, spent, new :
          /\ hook' = new /\ ticket' = ticket /\ approved # NoUrl /\ approved' = approved
          /\ \/ new = [hook EXCEPT !.at = "config", !.url = url]
             \/ new = [[hook EXCEPT !.at = "config", !.url = url] EXCEPT !.spent = spent]
    BY <1>3, <1>t, AnswersTyped DEF HookReadsUrls, Query, HookIs, Hooks
  <2> QED
    BY <1>t, <1>d, <2>1
<1>4. CASE HookReadsConfig
  <2>1. PICK identity, spent, new :
          /\ hook' = new /\ ticket' = ticket /\ approved # NoUrl /\ approved' = approved
          /\ \/ new = [hook EXCEPT !.at = "match", !.identity = identity]
             \/ new = [[hook EXCEPT !.at = "match", !.identity = identity]
                         EXCEPT !.spent = spent]
    BY <1>4, <1>t, AnswersTyped, PushAssumption
    DEF HookReadsConfig, Query, HookIs, Hooks, Identity
  <2> QED
    BY <1>t, <1>d, <2>1
<1>5. CASE HookMatches
  <2>1. PICK new :
          /\ hook' = new /\ ticket' = ticket /\ approved # NoUrl /\ approved' = approved
          /\ \/ new = [hook EXCEPT !.at = "denied"]
             \/ new = [hook EXCEPT !.at = "head"] /\ hook.identity = approved
    BY <1>5 DEF HookMatches, HookIs, Hooks, GrantMatches
  <2>2. Bound'
    BY <1>t, <2>1 DEF Bound
  <2> QED
    BY <1>t, <1>h, <2>1, <2>2
<1>6. CASE HookReadsHead
  <2>1. PICK new :
          /\ hook' = new /\ ticket' = ticket /\ approved # NoUrl /\ approved' = approved
          /\ hook.identity = approved
          /\ \/ new = [hook EXCEPT !.at = "denied"]
             \/ /\ new = [hook EXCEPT !.at = "source", !.branch = Resolved]
                /\ hook.url = hook.identity
    BY <1>6, <1>t DEF HookReadsHead, HookIs, Hooks, Bound
  <2>2. Resolved \in Branch /\ command.refspec \in {HEAD, Resolved} /\ command' = command
    BY <1>t, <1>u, AnswersTyped DEF Resolved
  <2> HIDE DEF Resolved
  <2>3. Bound'
    BY <1>t, <2>1, <2>2 DEF Bound
  <2> QED
    BY <1>t, <1>h, <2>1, <2>3
<1>7. CASE HookReadsSource
  <2>1. PICK new :
          /\ hook' = new /\ ticket' = ticket /\ approved # NoUrl /\ approved' = approved
          /\ hook.at = "source"
          /\ \/ new = [hook EXCEPT !.at = "denied"]
             \/ /\ new = [hook EXCEPT !.at = "rewrites", !.oid = oid[hook.branch]]
                /\ oid[hook.branch] # NoOid
    BY <1>7 DEF HookReadsSource, HookIs, Hooks
  <2>2. oid[hook.branch] # NoOid => oid[hook.branch] \in Oid
    BY <1>t, <2>1 DEF Bound, Typed
  <2>3. Bound'
    BY <1>t, <1>u, <2>1, <2>2 DEF Bound
  <2> QED
    BY <1>t, <1>h, <2>1, <2>3
<1>8. CASE HookWritesTicket
  <2>1. /\ approved # NoUrl /\ approved' = approved /\ hook.at = "rewrites"
    BY <1>8 DEF HookWritesTicket, Hooks
  <2>2. CASE ~NoRewriteOf(hook.url)
    <3>1. PICK new : hook' = new /\ ticket' = ticket /\ new = [hook EXCEPT !.at = "denied"]
      BY <1>8, <2>2 DEF HookWritesTicket, HookIs
    <3> QED
      BY <1>t, <1>d, <2>1, <3>1
  <2>3. CASE NoRewriteOf(hook.url)
    <3>1. PICK new : /\ hook' = new /\ new = [hook EXCEPT !.at = "done"]
                     /\ ticket' = [url |-> hook.url, branch |-> hook.branch, oid |-> hook.oid]
      BY <1>8, <2>3 DEF HookWritesTicket, HookIs
    <3>2. ticket' \in Ticket
      BY <1>t, <2>1, <3>1 DEF Bound, Ticket
    <3>3. Pinned'
      BY <1>t, <1>u, <2>1, <3>1, <3>2 DEF Bound, Pinned
    <3>4. Bound'
      BY <1>t, <2>1, <3>1 DEF Bound
    <3> QED
      BY <1>t, <1>u, <3>1, <3>3, <3>4, HookKeeps
  <2> QED
    BY <2>2, <2>3
<1>9. CASE HookFails
  <2>1. PICK new : /\ hook' = new /\ ticket' = ticket /\ new = [hook EXCEPT !.at = "denied"]
                   /\ approved # NoUrl /\ approved' = approved
    BY <1>9 DEF HookFails, HookIs, Hooks
  <2> QED
    BY <1>t, <1>d, <2>1
<1> QED
  BY <1>1, <1>2, <1>3, <1>4, <1>5, <1>6, <1>7, <1>8, <1>9 DEF HookNext

\* A step of the runner from one place to another.
Moves(step, new) ==
    /\ runner.at = step /\ runner' = new
    /\ {"at", "url", "identity", "branch", "oid"} \subseteq DOMAIN new
    /\ new.at \in RunnerStep
    /\ UNCHANGED <<repository, command, approved, hook, ticket>>

\* Only the receipt step writes one, and it ends the runner.
LEMMA RunnerKeeps ==
    ASSUME Inv, NEW step \in RunnerStep \ {"ended"}, NEW new, Moves(step, new),
           Witnessed', server \subseteq server', server' \subseteq server \cup {ticket},
           receipt' # receipt => /\ new.at = "ended" /\ receipt'.remote = gitOk
                                 /\ receipt'.ok => receipt'.remote,
           gitOk' => ticket \in server',
           gitOk' = gitOk \/ receipt' = receipt,
           server' # server => ticket # NoTicket
    PROVE  Inv'
<1>1. Typed'
  BY DEF Inv, Typed, Moves, repository
<1>2. Bound'
  BY DEF Inv, Bound, Moves
<1>3. Pinned'
  BY DEF Inv, Pinned, Moves
<1>4. receipt = NoReceipt
  BY DEF Inv, Outcome, Moves
<1>5. Outcome'
  BY <1>4 DEF Inv, Outcome, Moves, Pinned
<1> QED
  BY <1>1, <1>2, <1>3, <1>5 DEF Inv

LEMMA RunnerNextKeeps == Inv /\ RunnerNext => Inv'
<1> SUFFICES ASSUME Inv, RunnerNext PROVE Inv'
    OBVIOUS
<1>t. /\ Typed /\ Bound /\ Pinned /\ Witnessed /\ Outcome
      /\ {"at", "url", "identity", "branch", "oid"} \subseteq DOMAIN runner
  BY DEF Inv, Typed
<1>p. ticket # NoTicket => /\ ticket \in Ticket /\ ticket.url \in Url /\ ticket.url # NoUrl
                           /\ ticket.branch \in Branch
  BY <1>t, PushAssumption DEF Pinned, Ticket
\* Steps that neither push nor write the receipt.
<1>q. ASSUME NEW step \in RunnerStep \ {"ended"}, NEW new, Moves(step, new), Witnessed',
             UNCHANGED <<server, receipt, gitOk>>
      PROVE  Inv'
  BY <1>t, <1>q, RunnerKeeps DEF Outcome
<1>f. ASSUME NEW step, NEW new, Moves(step, new) PROVE Facts' = Facts
  BY <1>f DEF Moves, Facts, Urls, NoRewriteOf, repository
<1>s. {"none", "urls", "config", "match", "rewrites", "head", "source", "isolate", "push",
       "receipt"} \cup Upstream = RunnerStep \ {"ended"}
  BY DEF RunnerStep, Upstream
\* Places where nothing is claimed of what the runner knows.
<1>e. ASSUME NEW step \in RunnerStep \ {"ended"}, NEW new, Moves(step, new),
             step # "none", new.at \in {"receipt", "ended"}, held' = held
      PROVE  Witnessed'
  <2>1. Facts' = Facts
    BY <1>e, <1>f
  <2> QED
    BY <1>t, <1>e, <2>1 DEF Moves, Witnessed, Upstream
<1>1. CASE RunnerStarts
  <2>1. PICK new : Moves("none", new) /\ new = [runner EXCEPT !.at = "urls"]
    BY <1>t, <1>1 DEF RunnerStarts, Runner, RunnerGoto, Moves, RunnerStep
  <2>2. /\ ticket # NoTicket /\ held' = Facts /\ UNCHANGED <<server, receipt, gitOk>>
    BY <1>1 DEF RunnerStarts
  <2>3. Facts' = Facts
    BY <2>1, <1>f
  <2>4. Witnessed'
    BY <1>t, <2>1, <2>2, <2>3 DEF Moves, Witnessed, Upstream
  <2> QED
    BY <1>q, <1>s, <2>1, <2>2, <2>4
<1>2. CASE RunnerReadsUrls
  <2>1. PICK url, new :
          /\ Moves("urls", new) /\ new = [runner EXCEPT !.at = "config", !.url = url]
          /\ url \in {Urls, NoUrl}
    BY <1>t, <1>2 DEF RunnerReadsUrls, Runner, FreshUrls, Moves, RunnerStep
  <2>2. UNCHANGED <<server, receipt, gitOk, held>>
    BY <1>2 DEF RunnerReadsUrls, Quiet
  <2>3. Facts' = Facts /\ Facts \subseteq held /\ ticket # NoTicket
    BY <1>f, <1>t, <2>1 DEF Moves, Witnessed
  <2>4. url = ticket.url => "url" \in held
    BY <1>p, <2>1, <2>3 DEF Facts
  <2>5. Witnessed'
    BY <1>t, <2>1, <2>2, <2>3, <2>4 DEF Moves, Witnessed, Upstream
  <2> QED
    BY <1>q, <1>s, <2>1, <2>2, <2>5
<1>3. CASE RunnerReadsConfig
  <2>1. PICK identity, new :
          Moves("config", new) /\ new = [runner EXCEPT !.at = "match", !.identity = identity]
    BY <1>t, <1>3 DEF RunnerReadsConfig, Runner, Moves, RunnerStep
  <2>2. UNCHANGED <<server, receipt, gitOk, held>>
    BY <1>3 DEF RunnerReadsConfig, Quiet
  <2>3. Facts' = Facts
    BY <1>f, <2>1
  <2>4. Witnessed'
    BY <1>t, <2>1, <2>2, <2>3 DEF Moves, Witnessed, Upstream
  <2> QED
    BY <1>q, <1>s, <2>1, <2>2, <2>4
<1>4. CASE RunnerMatches
  <2>1. PICK new :
          /\ Moves("match", new)
          /\ \/ new = [runner EXCEPT !.at = "rewrites"] /\ runner.url = ticket.url
             \/ new = [runner EXCEPT !.at = "ended"]
    BY <1>t, <1>4 DEF RunnerMatches, Runner, RunnerGoto, Moves, RunnerStep
  <2>2. UNCHANGED <<server, receipt, gitOk, held>>
    BY <1>4 DEF RunnerMatches, Quiet
  <2>3. Facts' = Facts
    BY <1>f, <2>1
  <2>4. Witnessed'
    BY <1>t, <2>1, <2>2, <2>3 DEF Moves, Witnessed, Upstream
  <2> QED
    BY <1>q, <1>s, <2>1, <2>2, <2>4
<1>5. CASE RunnerReadsRewrites
  <2>1. PICK new :
          /\ Moves("rewrites", new)
          /\ \/ new = [runner EXCEPT !.at = "head"] /\ NoRewriteOf(ticket.url)
             \/ new = [runner EXCEPT !.at = "receipt"]
    BY <1>t, <1>5 DEF RunnerReadsRewrites, Runner, RunnerGoto, Moves, RunnerStep
  <2>2. UNCHANGED <<server, receipt, gitOk, held>>
    BY <1>5 DEF RunnerReadsRewrites, Quiet
  <2>3. Facts' = Facts /\ Facts \subseteq held /\ ticket # NoTicket
    BY <1>f, <1>t, <2>1 DEF Moves, Witnessed
  <2>4. NoRewriteOf(ticket.url) => "rewrite" \in held
    BY <2>3 DEF Facts
  <2>5. Witnessed'
    BY <1>t, <2>1, <2>2, <2>3, <2>4 DEF Moves, Witnessed, Upstream
  <2> QED
    BY <1>q, <1>s, <2>1, <2>2, <2>5
<1>6. CASE RunnerReadsHead
  <2>1. PICK branch, new :
          Moves("head", new) /\ new = [runner EXCEPT !.at = "source", !.branch = branch]
    BY <1>t, <1>6 DEF RunnerReadsHead, Runner, Moves, RunnerStep
  <2>2. UNCHANGED <<server, receipt, gitOk, held>>
    BY <1>6 DEF RunnerReadsHead, Quiet
  <2>3. Facts' = Facts
    BY <1>f, <2>1
  <2>4. Witnessed'
    BY <1>t, <2>1, <2>2, <2>3 DEF Moves, Witnessed, Upstream
  <2> QED
    BY <1>q, <1>s, <2>1, <2>2, <2>4
<1>7. CASE RunnerReadsSource
  <2>1. PICK new :
          /\ Moves("source", new)
          /\ \/ /\ new = [runner EXCEPT !.oid = oid[runner.branch], !.at = "isolate"]
                /\ runner.branch = ticket.branch /\ oid[runner.branch] = ticket.oid
             \/ new = [runner EXCEPT !.oid = oid[runner.branch], !.at = "receipt"]
    BY <1>t, <1>7 DEF RunnerReadsSource, Runner, Moves, RunnerStep
  <2>2. UNCHANGED <<server, receipt, gitOk, held>>
    BY <1>7 DEF RunnerReadsSource, Quiet
  <2>3. Facts' = Facts /\ Facts \subseteq held /\ ticket # NoTicket
    BY <1>f, <1>t, <2>1 DEF Moves, Witnessed
  <2>4. oid[ticket.branch] = ticket.oid => "source" \in held
    BY <2>3 DEF Facts
  <2>5. ASSUME new.at = "receipt" PROVE Witnessed'
    BY <1>e, <1>s, <2>1, <2>2, <2>5
  <2>6. ASSUME new.at # "receipt" PROVE Witnessed'
    <3>1. /\ new.at = "isolate" /\ new.branch = ticket.branch /\ new.oid = ticket.oid
          /\ "source" \in held
      BY <1>t, <2>1, <2>4, <2>6
    <3> QED
      BY <1>t, <2>1, <2>2, <2>3, <3>1 DEF Moves, Witnessed, Upstream
  <2> QED
    BY <1>q, <1>s, <2>1, <2>2, <2>5, <2>6
<1>8. CASE Isolate
  <2>1. PICK new :
          /\ Moves("isolate", new)
          /\ \/ new = [runner EXCEPT !.at = "push"]
             \/ new = [runner EXCEPT !.at = "receipt"]
    BY <1>t, <1>8 DEF Isolate, Runner, RunnerGoto, Moves, RunnerStep
  <2>2. UNCHANGED <<server, receipt, gitOk, held>>
    BY <1>8 DEF Isolate
  <2>3. Facts' = Facts
    BY <1>f, <2>1
  <2>4. Witnessed'
    BY <1>t, <2>1, <2>2, <2>3 DEF Moves, Witnessed, Upstream
  <2> QED
    BY <1>q, <1>s, <2>1, <2>2, <2>4
<1>9. CASE GitPush
  <2>0. PICK ok \in BOOLEAN :
          /\ \/ server' = server \cup {Pushed}
             \/ ~ok /\ UNCHANGED server
          /\ gitOk' = ok
          /\ RunnerGoto(IF WantsUpstream(ok) THEN "upstreamUrls" ELSE "receipt")
    BY <1>9, Zenon DEF GitPush
  <2>9. Runner("push")
    BY <1>9 DEF GitPush
  <2>1. PICK new :
          /\ Moves("push", new)
          /\ \/ new = [runner EXCEPT !.at = "upstreamUrls"] /\ ok
             \/ new = [runner EXCEPT !.at = "receipt"]
    BY <1>t, <2>0, <2>9 DEF Runner, RunnerGoto, WantsUpstream, Moves, RunnerStep
  <2>2. held' = Facts /\ UNCHANGED receipt
    BY <1>9 DEF GitPush
  <2>3. Facts' = Facts
    BY <1>f, <2>1
  <2>4. runner.branch = ticket.branch /\ runner.oid = ticket.oid /\ ticket # NoTicket
    BY <1>t, <2>1 DEF Moves, Witnessed
  <2>5. Pushed = ticket
    BY <1>p, <2>4 DEF Pushed, Ticket
  <2>6. Witnessed'
    BY <1>t, <2>0, <2>1, <2>2, <2>3, <2>4 DEF Moves, Witnessed, Upstream
  <2>7. /\ server \subseteq server' /\ server' \subseteq server \cup {ticket}
        /\ gitOk' => ticket \in server'
    BY <2>0, <2>5
  <2> QED
    BY <1>s, <2>1, <2>2, <2>4, <2>6, <2>7, RunnerKeeps
<1>10. CASE UpstreamReadsUrls
  <2>1. PICK url, new :
          /\ url \in {Urls, NoUrl} /\ Moves("upstreamUrls", new)
          /\ \/ new = [runner EXCEPT !.at = "upstreamConfig"] /\ url = ticket.url
             \/ new = [runner EXCEPT !.at = "receipt"]
    BY <1>t, <1>10 DEF UpstreamReadsUrls, Runner, RunnerGoto, FreshUrls, Moves, RunnerStep
  <2>2. UNCHANGED <<server, receipt, gitOk, held>>
    BY <1>10 DEF UpstreamReadsUrls, Quiet
  <2>3. Facts' = Facts /\ Facts \subseteq held /\ ticket # NoTicket
    BY <1>f, <1>t, <2>1 DEF Moves, Witnessed
  <2>4. url = ticket.url => "url" \in held
    BY <1>p, <2>1, <2>3 DEF Facts
  <2>5. Witnessed'
    BY <1>t, <2>1, <2>2, <2>3, <2>4 DEF Moves, Witnessed, Upstream
  <2> QED
    BY <1>q, <1>s, <2>1, <2>2, <2>5 DEF Upstream
<1>11. CASE UpstreamReadsConfig
  <2>1. PICK new :
          /\ Moves("upstreamConfig", new)
          /\ \/ new = [runner EXCEPT !.at = "upstreamBranch"]
             \/ new = [runner EXCEPT !.at = "receipt"]
    BY <1>t, <1>11 DEF UpstreamReadsConfig, Runner, RunnerGoto, Moves, RunnerStep
  <2>2. UNCHANGED <<server, receipt, gitOk, held>>
    BY <1>11 DEF UpstreamReadsConfig, Quiet
  <2>3. Facts' = Facts
    BY <1>f, <2>1
  <2>4. Witnessed'
    BY <1>t, <2>1, <2>2, <2>3 DEF Moves, Witnessed, Upstream
  <2> QED
    BY <1>q, <1>s, <2>1, <2>2, <2>4 DEF Upstream
<1>12. CASE UpstreamReadsBranch
  <2>1. PICK new :
          /\ Moves("upstreamBranch", new)
          /\ \/ new = [runner EXCEPT !.at = "writeRemote"] /\ oid[runner.branch] # NoOid
             \/ new = [runner EXCEPT !.at = "receipt"]
    BY <1>t, <1>12 DEF UpstreamReadsBranch, Runner, RunnerGoto, Moves, RunnerStep
  <2>2. UNCHANGED <<server, receipt, gitOk, held>>
    BY <1>12 DEF UpstreamReadsBranch, Quiet
  <2>3. Facts' = Facts /\ Facts \subseteq held /\ ticket # NoTicket
    BY <1>f, <1>t, <2>1 DEF Moves, Witnessed
  <2>4. runner.branch = ticket.branch
    BY <1>t, <2>1 DEF Moves, Witnessed, Upstream
  <2>5. oid[runner.branch] # NoOid => "branch" \in held
    BY <2>3, <2>4 DEF Facts
  <2>6. Witnessed'
    BY <1>t, <2>1, <2>2, <2>3, <2>5 DEF Moves, Witnessed, Upstream
  <2> QED
    BY <1>q, <1>s, <2>1, <2>2, <2>6 DEF Upstream
<1>13. ASSUME NEW step \in {"writeRemote", "writeMerge"}, NEW key \in Key,
              NEW next \in {"writeMerge", "receipt"}, WriteKey(step, key, next)
       PROVE  Inv'
  <2>1. PICK new :
          /\ Moves(step, new)
          /\ \/ new = [runner EXCEPT !.at = next]
             \/ new = [runner EXCEPT !.at = "receipt"]
    BY <1>t, <1>13 DEF WriteKey, Runner, RunnerGoto, Moves, RunnerStep
  <2>2. UNCHANGED <<server, receipt, gitOk, held>>
    BY <1>13 DEF WriteKey
  <2>3. Facts' = Facts
    BY <1>f, <2>1
  <2>4. step \in RunnerStep \ {"ended"}
    BY DEF RunnerStep
  <2>5. CASE new.at = "receipt"
    <3>1. Witnessed'
      BY <1>e, <2>1, <2>2, <2>4, <2>5
    <3> QED
      BY <1>q, <2>1, <2>2, <2>4, <3>1
  <2>6. CASE new.at # "receipt"
    <3>1. /\ new.at = "writeMerge" /\ new.branch = runner.branch /\ new.oid = runner.oid
          /\ runner.at = step
      BY <1>t, <2>1, <2>6 DEF Moves
    <3>2. Witnessed'
      BY <1>t, <2>1, <2>2, <2>3, <3>1 DEF Moves, Witnessed, Upstream
    <3> QED
      BY <1>q, <2>1, <2>2, <2>4, <3>2
  <2> QED
    BY <2>5, <2>6
<1>14. CASE WriteReceipt
  <2>1. PICK new : Moves("receipt", new) /\ new = [runner EXCEPT !.at = "ended"]
    BY <1>t, <1>14 DEF WriteReceipt, Runner, RunnerGoto, Moves, RunnerStep
  <2>2. /\ UNCHANGED <<server, gitOk, held>>
        /\ receipt' = [ok |-> ExitOk, remote |-> gitOk] /\ (ExitOk => gitOk)
    BY <1>14 DEF WriteReceipt, RemoteSucceeded, ExitOk
  <2>3. new.at = "ended"
    BY <1>t, <2>1
  <2>4. Witnessed'
    BY <1>e, <1>s, <2>1, <2>2, <2>3
  <2>5. receipt'.remote = gitOk /\ (receipt'.ok => receipt'.remote)
    BY <2>2
  <2> QED
    BY <1>s, <1>t, <2>1, <2>2, <2>3, <2>4, <2>5, RunnerKeeps DEF Outcome
<1>15. CASE RunnerRaises \/ RunnerDies
  <2>1. PICK step, new :
          /\ step \in RunnerStep \ {"none", "ended"}
          /\ Moves(step, new) /\ new = [runner EXCEPT !.at = "ended"]
    <3>1. CASE RunnerRaises
      BY <1>t, <3>1 DEF RunnerRaises, Runner, RunnerGoto, Moves, RunnerStep
    <3>2. CASE RunnerDies
      BY <1>t, <3>2 DEF RunnerDies, RunnerGoto, Moves, Typed, RunnerStep
    <3> QED
      BY <1>15, <3>1, <3>2
  <2>2. UNCHANGED <<server, receipt, gitOk, held>>
    BY <1>15 DEF RunnerRaises, RunnerDies, Quiet
  <2>3. new.at = "ended"
    BY <1>t, <2>1
  <2>4. Witnessed'
    BY <1>e, <2>1, <2>2, <2>3
  <2> QED
    BY <1>q, <2>1, <2>2, <2>4
<1> QED
  BY <1>1, <1>2, <1>3, <1>4, <1>5, <1>6, <1>7, <1>8, <1>9, <1>10, <1>11, <1>12, <1>13,
     <1>14, <1>15 DEF RunnerNext, WriteRemote, WriteMerge, Key

LEMMA InvNext == Inv /\ [Next]_vars => Inv'
<1> SUFFICES ASSUME Inv, [Next]_vars PROVE Inv'
    OBVIOUS
<1>1. CASE UNCHANGED vars
  BY <1>1 DEF Inv, Typed, Bound, Pinned, Witnessed, Outcome, Facts, Urls, NoRewriteOf, vars,
              repository
<1> QED
  BY <1>1, ChangeKeeps, HookNextKeeps, RunnerNextKeeps DEF Next

LEMMA SpecInv == Spec => []Inv
BY InvInit, InvNext, PTL DEF Spec

(***************************************************************************)
(* Nothing arrives but what the ticket pins, at the approved URL.          *)
(***************************************************************************)
THEOREM AlwaysPushedAsApproved == Spec => []PushedAsApproved
<1>1. Inv => PushedAsApproved
  BY NullAssumption DEF Inv, Outcome, Pinned, PushedAsApproved
<1> QED
  BY SpecInv, <1>1, PTL

(***************************************************************************)
(* The receipt says what Git said, and Git only says so of what arrived.   *)
(***************************************************************************)
THEOREM ReceiptAlwaysTruthful == Spec => []ReceiptTruthful
<1>1. Inv => ReceiptTruthful
  BY DEF Inv, Outcome, ReceiptTruthful
<1> QED
  BY SpecInv, <1>1, PTL

(***************************************************************************)
(* A push rests on facts each of which held since the runner started.      *)
(***************************************************************************)
THEOREM DriftAlwaysStops == Spec => DriftStops
<1>1. ASSUME Inv, Next, server' # server
      PROVE  {"url", "rewrite", "source"} \subseteq held
  <2>1. runner.at = "push"
    BY <1>1
    DEF Next, Change, Approve, HookNext, Hooks, HookStarts, HookReadsUrls,
        HookReadsConfig, HookMatches, HookReadsHead, HookReadsSource, HookWritesTicket,
        HookFails, RunnerNext, RunnerStarts, RunnerReadsUrls, RunnerReadsConfig,
        RunnerMatches, RunnerReadsRewrites, RunnerReadsHead, RunnerReadsSource, Isolate,
        GitPush, UpstreamReadsUrls, UpstreamReadsConfig, UpstreamReadsBranch, WriteKey,
        WriteRemote, WriteMerge, WriteReceipt, RunnerRaises, RunnerDies, Quiet, Runner
  <2> QED
    BY <1>1, <2>1 DEF Inv, Witnessed
<1>2. Inv /\ [Next]_vars =>
        [server' # server => {"url", "rewrite", "source"} \subseteq held]_vars
  BY <1>1
<1> QED
  BY SpecInv, <1>2, PTL DEF Spec, DriftStops

(***************************************************************************)
(* Upstream metadata is written after Git succeeded, on facts seen anew.   *)
(***************************************************************************)
THEOREM UpstreamAlwaysVerified == Spec => UpstreamVerified
<1>1. ASSUME Inv, Next, upstream' # upstream
      PROVE  gitOk /\ {"url", "branch"} \subseteq held
  <2>1. runner.at \in {"writeRemote", "writeMerge"}
    BY <1>1
    DEF Next, Change, Approve, HookNext, Hooks, HookStarts, HookReadsUrls,
        HookReadsConfig, HookMatches, HookReadsHead, HookReadsSource, HookWritesTicket,
        HookFails, RunnerNext, RunnerStarts, RunnerReadsUrls, RunnerReadsConfig,
        RunnerMatches, RunnerReadsRewrites, RunnerReadsHead, RunnerReadsSource, Isolate,
        GitPush, UpstreamReadsUrls, UpstreamReadsConfig, UpstreamReadsBranch, WriteKey,
        WriteRemote, WriteMerge, WriteReceipt, RunnerRaises, RunnerDies, Quiet, Runner
  <2> QED
    BY <1>1, <2>1 DEF Inv, Witnessed, Upstream
<1>2. Inv /\ [Next]_vars => [upstream' # upstream => gitOk /\ {"url", "branch"} \subseteq held]_vars
  BY <1>1
<1> QED
  BY SpecInv, <1>2, PTL DEF Spec, UpstreamVerified

(***************************************************************************)
(* Types, and with them that the queries of a hook never take longer than  *)
(* the budget of its event.                                                *)
(***************************************************************************)
LEMMA MinOfTwo ==
    ASSUME NEW a \in Int, NEW b \in Int
    PROVE  Min({a, b}) \in {a, b} /\ Min({a, b}) <= a /\ Min({a, b}) <= b
<1>1. \E x \in {a, b} : \A y \in {a, b} : x <= y
  OBVIOUS
<1> QED
  BY <1>1 DEF Min

HookType == [at : HookStep, url : Url \cup {NoUrl}, identity : Url \cup {NoUrl},
             branch : Refspec, oid : Oid \cup {NoOid}, enabled : BOOLEAN,
             spent : 0 .. Budget]

RunnerType == [at : RunnerStep, url : Url \cup {NoUrl}, identity : Url \cup {NoUrl},
               branch : Refspec, oid : Oid \cup {NoOid}]

\* The runner has read which branch it is about before it reads a commit.
BranchRead == runner.at = "source" => runner.branch \in Branch

TypeInv == Inv /\ TypeOK /\ BranchRead

LEMMA TypeInit == Init => TypeInv
<1> SUFFICES ASSUME Init PROVE TypeOK /\ BranchRead
    BY InvInit DEF TypeInv
<1>1. hook \in HookType /\ runner \in RunnerType
  BY PushAssumption
  DEF Init, Idle, IdleHook, HookType, RunnerType, HookStep, RunnerStep, Refspec
<1>2. BranchRead
  BY DEF Init, Idle, BranchRead
<1>3. /\ upstream \in [Branch -> SUBSET Key] /\ oid \in [Branch -> Oid \cup {NoOid}]
      /\ helper \in BOOLEAN /\ isolated \in BOOLEAN /\ gitOk \in BOOLEAN
  BY DEF Init
<1>4. /\ origin \in Url /\ rewrite \in Rewrite \cup {NoRewrite} /\ head \in Branch
      /\ policy \in PolicyFile /\ approved \in Safe \cup {NoUrl}
      /\ ticket \in Ticket \cup {NoTicket} /\ server \subseteq Ticket
      /\ receipt \in Receipt \cup {NoReceipt} /\ changes \in 0 .. MaxChanges
      /\ held \subseteq Fact
  BY PushAssumption DEF Init, PolicyFile
<1>5. command \in [refspec : Refspec, upstream : BOOLEAN]
  BY DEF Init
<1> QED
  BY <1>1, <1>2, <1>3, <1>4, <1>5 DEF TypeOK, HookType, RunnerType

\* A query takes the time it is given, if any, and the hook moves on.
LEMMA QueryTyped ==
    ASSUME NEW answer, NEW new, Query(answer, new), hook.spent \in 0 .. Budget,
           NEW S, answer \in S, NoUrl \in S,
           new \in [S -> {h \in HookType : h.spent = hook.spent}]
    PROVE  hook' \in HookType
<1>1. QueryLimit \in Int /\ QueryLimit <= Budget - hook.spent
  <2>1. Ceiling \in Int /\ Budget - hook.spent \in Int
    BY PushAssumption
  <2> QED
    BY <2>1, MinOfTwo DEF QueryLimit
<1>2. CASE QueryLimit <= 0
  BY <1>2 DEF Query, HookIs
<1>3. CASE ~(QueryLimit <= 0)
  <2>1. PICK d \in 0 .. QueryLimit, a \in {answer, NoUrl} :
          hook' = [new[a] EXCEPT !.spent = @ + d]
    BY <1>3 DEF Query, HookIs
  <2>2. new[a] \in HookType /\ new[a].spent = hook.spent
    BY <2>1
  <2>3. hook.spent + d \in 0 .. Budget
    BY <1>1, <2>1, PushAssumption
  <2> QED
    BY <2>1, <2>2, <2>3 DEF HookType
<1> QED
  BY <1>2, <1>3

LEMMA HookTyped ==
    ASSUME TypeInv, Approve \/ HookNext
    PROVE  hook' \in HookType
<1>t. /\ hook \in HookType /\ hook.spent \in 0 .. Budget
      /\ Urls \in Url /\ Resolved \in Branch /\ Identity(hook.url) \in Url \cup {NoUrl}
      /\ oid \in [Branch -> Oid \cup {NoOid}]
      /\ hook.at = "source" => hook.branch \in Branch
  <2>1. hook \in HookType /\ hook.spent \in 0 .. Budget
    BY DEF TypeInv, TypeOK, HookType
  <2>2. Identity(hook.url) \in Url \cup {NoUrl}
    BY PushAssumption DEF Identity
  <2> QED
    BY <2>1, <2>2, AnswersTyped DEF TypeInv, Inv, Bound, Typed
<1>1. CASE HookReadsUrls
  <2> DEFINE new == [url \in Url \cup {NoUrl} |-> [hook EXCEPT !.at = "config", !.url = url]]
  <2>1. new \in [Url \cup {NoUrl} -> {h \in HookType : h.spent = hook.spent}]
    BY <1>t DEF HookType, HookStep
  <2>2. Query(Urls, new)
    BY <1>1 DEF HookReadsUrls
  <2> QED
    BY <1>t, <2>1, <2>2, QueryTyped
<1>2. CASE HookReadsConfig
  <2> DEFINE new == [identity \in Url \cup {NoUrl} |->
                       [hook EXCEPT !.at = "match", !.identity = identity]]
  <2>1. new \in [Url \cup {NoUrl} -> {h \in HookType : h.spent = hook.spent}]
    BY <1>t DEF HookType, HookStep
  <2>2. Query(Identity(hook.url), new)
    BY <1>2 DEF HookReadsConfig
  <2> QED
    BY <1>t, <2>1, <2>2, QueryTyped
<1>3. CASE Approve \/ HookStarts \/ HookMatches \/ HookFails \/ HookWritesTicket
  BY <1>t, <1>3
  DEF HookType, Approve, HookStarts, HookMatches, HookFails, HookWritesTicket, HookIs,
      HookStep, Enabled
<1>4. CASE HookReadsHead
  BY <1>t, <1>4 DEF HookType, HookReadsHead, HookIs, HookStep, Refspec
<1>5. CASE HookReadsSource
  BY <1>t, <1>5 DEF HookType, HookReadsSource, HookIs, HookStep
<1> QED
  BY <1>1, <1>2, <1>3, <1>4, <1>5 DEF HookNext

LEMMA RunnerTyped ==
    ASSUME TypeInv, RunnerNext
    PROVE  runner' \in RunnerType /\ BranchRead'
<1>t. /\ runner \in RunnerType /\ BranchRead
      /\ Urls \in Url /\ Resolved \in Branch
      /\ \A url \in Url \cup {NoUrl} : Identity(url) \in Url \cup {NoUrl}
      /\ oid \in [Branch -> Oid \cup {NoOid}] /\ Branch \subseteq Refspec
      /\ runner.url \in Url \cup {NoUrl}
  <2>1. runner \in RunnerType /\ runner.url \in Url \cup {NoUrl}
    BY DEF TypeInv, TypeOK, RunnerType
  <2>2. \A url \in Url \cup {NoUrl} : Identity(url) \in Url \cup {NoUrl}
    BY PushAssumption DEF Identity
  <2> QED
    BY <2>1, <2>2, AnswersTyped DEF TypeInv, Inv, Typed, Refspec
<1>1. CASE RunnerReadsUrls
  <2>1. PICK url \in {Urls, NoUrl} : runner' = [runner EXCEPT !.at = "config", !.url = url]
    BY <1>1 DEF RunnerReadsUrls, FreshUrls
  <2>2. url \in Url \cup {NoUrl}
    BY <1>t, <2>1
  <2> QED
    BY <1>t, <2>1, <2>2 DEF RunnerType, RunnerStep, BranchRead
<1>2. CASE RunnerReadsConfig
  <2>1. PICK identity \in {Identity(runner.url), NoUrl} :
          runner' = [runner EXCEPT !.at = "match", !.identity = identity]
    BY <1>2 DEF RunnerReadsConfig
  <2>2. identity \in Url \cup {NoUrl}
    BY <1>t, <2>1
  <2> QED
    BY <1>t, <2>1, <2>2 DEF RunnerType, RunnerStep, BranchRead
<1>3. CASE RunnerReadsHead
  BY <1>t, <1>3 DEF RunnerReadsHead, RunnerType, RunnerStep, BranchRead
<1>4. CASE RunnerReadsSource
  BY <1>t, <1>4 DEF RunnerReadsSource, Runner, RunnerType, RunnerStep, BranchRead
<1>5. ASSUME NEW step \in RunnerStep \ {"source"}, RunnerGoto(step)
      PROVE  runner' \in RunnerType /\ BranchRead'
  BY <1>t, <1>5 DEF RunnerGoto, RunnerType, BranchRead
<1>6. CASE ~(RunnerReadsUrls \/ RunnerReadsConfig \/ RunnerReadsHead \/ RunnerReadsSource)
  <2>1. \E step \in RunnerStep \ {"source"} : RunnerGoto(step)
    BY <1>6
    DEF RunnerNext, RunnerStarts, RunnerMatches, RunnerReadsRewrites, Isolate, GitPush,
        UpstreamReadsUrls, UpstreamReadsConfig, UpstreamReadsBranch, WriteKey,
        WriteRemote, WriteMerge, WriteReceipt, RunnerRaises, RunnerDies, RunnerStep
  <2> QED
    BY <1>5, <2>1
<1> QED
  BY <1>1, <1>2, <1>3, <1>4, <1>6

LEMMA TypeNext == TypeInv /\ [Next]_vars => TypeInv'
<1> SUFFICES ASSUME TypeInv, [Next]_vars PROVE TypeOK' /\ BranchRead'
    BY InvNext DEF TypeInv
<1>i. Inv'
  BY InvNext DEF TypeInv
<1>1. ticket' \in Ticket \cup {NoTicket} /\ server' \subseteq Ticket
      /\ approved' \in Safe \cup {NoUrl}
  BY <1>i DEF Inv, Pinned, Outcome, Bound
<1>2. Facts' \subseteq Fact /\ Facts \subseteq Fact
  BY DEF Facts, Fact
<1>3. hook' \in HookType /\ runner' \in RunnerType /\ BranchRead'
  <2>1. hook \in HookType /\ runner \in RunnerType /\ BranchRead
    BY DEF TypeInv, TypeOK, HookType, RunnerType
  <2>2. CASE Approve \/ HookNext
    <3>1. runner' = runner
      BY <2>2
      DEF Approve, HookNext, Hooks, HookStarts, HookReadsUrls, HookReadsConfig,
          HookMatches, HookReadsHead, HookReadsSource, HookWritesTicket, HookFails
    <3> QED
      BY <2>1, <2>2, <3>1, HookTyped DEF BranchRead
  <2>3. CASE RunnerNext
    <3>1. hook' = hook
      BY <2>3
      DEF RunnerNext, RunnerStarts, RunnerReadsUrls, RunnerReadsConfig,
          RunnerMatches, RunnerReadsRewrites, RunnerReadsHead, RunnerReadsSource, Isolate,
          GitPush, UpstreamReadsUrls, UpstreamReadsConfig, UpstreamReadsBranch, WriteKey,
          WriteRemote, WriteMerge, WriteReceipt, RunnerRaises, RunnerDies, Runner
    <3> QED
      BY <2>1, <2>3, <3>1, RunnerTyped
  <2>4. CASE Change \/ UNCHANGED vars
    BY <2>1, <2>4 DEF Change, vars, BranchRead
  <2> QED
    BY <2>2, <2>3, <2>4 DEF Next
<1>4. TypeOK'
  <2>t. TypeOK
    BY DEF TypeInv
  <2>1. CASE Change
    <3>1. /\ origin' \in Url /\ rewrite' \in Rewrite \cup {NoRewrite}
          /\ oid' \in [Branch -> Oid \cup {NoOid}] /\ head' \in Branch
          /\ policy' \in PolicyFile
      BY <2>t, <2>1 DEF TypeOK, Change
    <3>3. helper' \in BOOLEAN
      BY <2>t, <2>1 DEF TypeOK, Change
    <3>2. changes' \in 0 .. MaxChanges /\ held' \subseteq Fact
      BY <1>2, <2>t, <2>1, PushAssumption DEF TypeOK, Change
    <3> QED
      BY <1>1, <1>3, <2>t, <2>1, <3>1, <3>2, <3>3 DEF TypeOK, Change, HookType, RunnerType
  <2>2. CASE Approve \/ HookNext
    <3>1. UNCHANGED <<repository, upstream, command, isolated, receipt, changes, gitOk, held>>
      BY <2>2
      DEF Approve, HookNext, Hooks, HookStarts, HookReadsUrls, HookReadsConfig,
          HookMatches, HookReadsHead, HookReadsSource, HookWritesTicket, HookFails
    <3> QED
      BY <1>1, <1>3, <2>t, <3>1 DEF TypeOK, HookType, RunnerType, repository
  <2>3. CASE RunnerNext
    <3>1. UNCHANGED <<repository, command, changes>>
      BY <2>3
      DEF RunnerNext, RunnerStarts, RunnerReadsUrls, RunnerReadsConfig,
          RunnerMatches, RunnerReadsRewrites, RunnerReadsHead, RunnerReadsSource, Isolate,
          GitPush, UpstreamReadsUrls, UpstreamReadsConfig, UpstreamReadsBranch, WriteKey,
          WriteRemote, WriteMerge, WriteReceipt, RunnerRaises, RunnerDies, Runner
    <3>2. /\ upstream' \in [Branch -> SUBSET Key] /\ isolated' \in BOOLEAN
          /\ gitOk' \in BOOLEAN /\ held' \subseteq Fact
      <4>1. CASE WriteRemote \/ WriteMerge
        <5>1. PICK key \in Key :
                \/ upstream' = [upstream EXCEPT ![runner.branch] = @ \cup {key}]
                \/ UNCHANGED upstream
          BY <4>1 DEF WriteRemote, WriteMerge, WriteKey, Key
        <5> QED
          BY <2>t, <4>1, <5>1 DEF TypeOK, WriteRemote, WriteMerge, WriteKey
      <4>2. CASE GitPush
        <5>1. PICK ok \in BOOLEAN : gitOk' = ok
          BY <4>2, Zenon DEF GitPush
        <5>2. held' = Facts /\ UNCHANGED <<upstream, isolated>>
          BY <4>2 DEF GitPush
        <5> QED
          BY <1>2, <2>t, <5>1, <5>2 DEF TypeOK
      <4>3. CASE ~(WriteRemote \/ WriteMerge \/ GitPush)
        BY <1>2, <2>t, <2>3, <4>3
        DEF TypeOK, RunnerNext, RunnerStarts, RunnerReadsUrls, RunnerReadsConfig,
            RunnerMatches, RunnerReadsRewrites, RunnerReadsHead, RunnerReadsSource,
            Isolate, UpstreamReadsUrls, UpstreamReadsConfig, UpstreamReadsBranch,
            WriteReceipt, RunnerRaises, RunnerDies, Quiet
      <4> QED
        BY <4>1, <4>2, <4>3
    <3>3. receipt' \in Receipt \cup {NoReceipt}
      <4>1. CASE WriteReceipt
        BY <2>t, <4>1 DEF TypeOK, WriteReceipt, ExitOk, RemoteSucceeded, Receipt
      <4>2. CASE ~WriteReceipt
        BY <2>t, <2>3, <4>2
        DEF TypeOK, RunnerNext, RunnerStarts, RunnerReadsUrls, RunnerReadsConfig,
            RunnerMatches, RunnerReadsRewrites, RunnerReadsHead, RunnerReadsSource,
            Isolate, GitPush, UpstreamReadsUrls, UpstreamReadsConfig,
            UpstreamReadsBranch, WriteKey, WriteRemote, WriteMerge, RunnerRaises,
            RunnerDies, Quiet
      <4> QED
        BY <4>1, <4>2
    <3> QED
      BY <1>1, <1>3, <2>t, <3>1, <3>2, <3>3 DEF TypeOK, HookType, RunnerType, repository
  <2>4. CASE UNCHANGED vars
    BY <2>t, <2>4 DEF TypeOK, vars, repository
  <2> QED
    BY <2>1, <2>2, <2>3, <2>4 DEF Next
<1> QED
  BY <1>3, <1>4

(***************************************************************************)
(* Every variable has its type; the time a hook spent on queries stays     *)
(* within the budget of its event.                                         *)
(***************************************************************************)
THEOREM TypeCorrect == Spec => []TypeOK
<1>1. TypeInv => TypeOK
  BY DEF TypeInv
<1> QED
  BY TypeInit, TypeNext, <1>1, PTL DEF Spec
============================================================================
