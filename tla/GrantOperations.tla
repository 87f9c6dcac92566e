--------------------------- MODULE GrantOperations --------------------------
(***************************************************************************)
(* What one grant of a scoped transaction covers when it names several     *)
(* repositories, and when it is complete.                                  *)
(*                                                                         *)
(* A prompt spells some commands exactly, names other operations in prose, *)
(* and pairs repositories with GitHub targets; from it                     *)
(* _local_git_grant_from_prompt builds one binding per repository scope.   *)
(* An operation spelled in any bound repository is allowed only where it   *)
(* is spelled; any other operation is allowed in every bound repository.   *)
(* Each use is reserved, runs, and is retired in its own scope.            *)
(*                                                                         *)
(* A command is its scope, its operation and a text: the branch of an init *)
(* or a push, the target of a repo_create, the remaining arguments of an   *)
(* add or a commit.  Equal commands have equal digests.  The turn, the     *)
(* transaction identifier, the lifetime and the runner of a grant are      *)
(* those of module GitTransaction.                                         *)
(***************************************************************************)
EXTENDS Integers, FiniteSets

CONSTANTS Scope,      \* repository scopes
          Local,      \* add, commit
          Branch,     \* branch names
          Target,     \* owner/name of a GitHub repository
          Text,       \* arguments of an add or a commit
          NoScope, NoBranch, NoTarget, NoGrant, NoCommand, NoPrompt,
          Prompts,    \* the authorizing prompts TLC explores
          Resumptions \* the continuing prompts TLC explores

Op == Local \cup {"init", "push", "repo_create"}

Command == [scope : Scope, op : Local, text : Text]
           \cup [scope : Scope, op : {"init", "push"}, text : Branch]
           \cup [scope : Scope, op : {"repo_create"}, text : Target]

\* spelled: git commands, of which bare have no -C; creates: gh repo create
\* commands; named: targets named in prose; prose: operations named in prose;
\* branch: the branch of a push in prose; place: a path or "this repository".
Prompt == [spelled : SUBSET Command, bare : SUBSET Command, creates : SUBSET Command,
           named : SUBSET Target, prose : SUBSET Op, branch : Branch \cup {NoBranch},
           place : Scope \cup {NoScope}]

\* What a continuing prompt names: branch is that of a push, init that of an init.
Resumption == [scopes : SUBSET Scope, targets : SUBSET Target,
               branch : Branch \cup {NoBranch}, init : Branch \cup {NoBranch}]

Binding == [target : Target \cup {NoTarget}, branch : Branch \cup {NoBranch},
            init : Branch \cup {NoBranch}, exact : SUBSET Command]

Use == [cmd : Command, to : Target \cup {NoTarget}]

Grant == [ops : SUBSET Op,
          bindings : UNION {[S -> Binding] : S \in SUBSET Scope},
          consumed : UNION {[S -> SUBSET Op] : S \in SUBSET Scope}]

\* An authorizing prompt, and the origins its scopes had.
Asked == [prompt : Prompts, had : SUBSET (Target \cup {NoTarget})]

ASSUME NullAssumption ==
    /\ NoScope \notin Scope /\ NoTarget \notin Target
    /\ NoGrant \notin Grant /\ NoCommand \notin Use /\ NoPrompt \notin Asked
    /\ Local \cap {"init", "push", "repo_create"} = {}

ASSUME PromptAssumption ==
    /\ \A p \in Prompts :
          /\ p \in Prompt
          /\ IsFiniteSet(p.spelled) /\ IsFiniteSet(p.creates) /\ IsFiniteSet(p.named)
          /\ p.bare \subseteq p.spelled
          /\ \A c \in p.spelled : c.op # "repo_create"
          /\ \A c \in p.creates : c.op = "repo_create"
    /\ Resumptions \subseteq Resumption

VARIABLES origin,  \* what the one remote origin of each repository names
          grant,   \* local_git_grant: ops, bindings, consumed
          held,    \* the reservation of the transaction, with the push target read for it
          asked,   \* the transaction's prompt, and the origin its scope had then
          done     \* what was retired since, per scope

vars == <<origin, grant, held, asked, done>>

Init == /\ origin \in [Scope -> Target \cup {NoTarget}]
        /\ grant = NoGrant
        /\ held = NoCommand
        /\ asked = NoPrompt
        /\ done = {}

-----------------------------------------------------------------------------
(* The grant a prompt asks for.                                              *)

Pick(commands, op) == {c \in commands : c.op = op}
ScopesOf(commands) == {c.scope : c \in commands}
TextsOf(commands)  == {c.text : c \in commands}

\* _prompt_git_operation_digests keeps one digest per scope and operation.
Clash(p) == \E c, d \in p.spelled : c # d /\ c.scope = d.scope /\ c.op = d.op

\* _prompt_git_scopes: a command without -C names no scope.
Scopes(p) == LET command == ScopesOf((p.spelled \ p.bare) \cup p.creates)
             IN  IF command # {} THEN command ELSE {p.place} \ {NoScope}

\* _prompt_push_target: one branch for the whole prompt, that of its first push.
PushBranches(p) == LET pushed == TextsOf(Pick(p.spelled, "push"))
                   IN  IF pushed # {} THEN pushed ELSE {p.branch}

\* _prompt_init_branch, or the branch of the push.
InitBranches(p, b) == LET made == TextsOf(Pick(p.spelled, "init"))
                      IN  IF made # {} THEN made ELSE {b}

\* _prompt_github_targets
Targets(p) == TextsOf(p.creates) \cup p.named

Operations(p, b) == {c.op : c \in p.spelled} \cup p.prose
                    \cup (IF b # NoBranch THEN {"push"} ELSE {})
                    \cup (IF Targets(p) # {} THEN {"repo_create"} ELSE {})

\* A push of one repository may take its target from the origin it already has.
AllTargets(p, b) ==
    IF Targets(p) = {} /\ b # NoBranch /\ Cardinality(Scopes(p)) = 1
    THEN {origin[s] : s \in Scopes(p)} \ {NoTarget}
    ELSE Targets(p)

\* _prompt_github_mappings: the last gh repo create of a scope wins.
Mappings(p) == {m \in [ScopesOf(p.creates) -> Target] :
                   \A s \in DOMAIN m : \E c \in p.creates : c.scope = s /\ c.text = m[s]}

ImageOf(m) == {m[s] : s \in DOMAIN m}

\* More than one scope or target needs a mapping of each scope to its own
\* target; otherwise there are as many targets as scopes, or none.
WellPaired(p, b, m) ==
    LET T == AllTargets(p, b) IN
    /\ Cardinality(Scopes(p)) > 1 \/ Cardinality(T) > 1 =>
          /\ DOMAIN m = Scopes(p)
          /\ Cardinality(ImageOf(m)) = Cardinality(DOMAIN m)
          /\ ImageOf(m) = T
    /\ T # {} => Cardinality(T) = Cardinality(Scopes(p))

\* The target of a binding: the mapped one, or the only one of the only scope.
Paired(p, b, m, s) ==
    IF s \in DOMAIN m THEN m[s]
    ELSE IF Cardinality(Scopes(p)) = 1 /\ Cardinality(AllTargets(p, b)) = 1
         THEN CHOOSE t \in AllTargets(p, b) : TRUE
         ELSE NoTarget

\* The early returns of _local_git_grant_from_prompt.
Acceptable(p, b, i, m) ==
    /\ ~Clash(p)
    /\ Operations(p, b) # {} /\ Scopes(p) # {}
    /\ "push" \in Operations(p, b) => b # NoBranch /\ AllTargets(p, b) # {}
    /\ "init" \in Operations(p, b) => i # NoBranch
    /\ WellPaired(p, b, m)
    /\ AllTargets(p, b) # {} => {Paired(p, b, m, s) : s \in Scopes(p)} = AllTargets(p, b)
    /\ "push" \in Operations(p, b) =>
          \A s \in Scopes(p) : Paired(p, b, m, s) # NoTarget

NewGrant(p, b, i, m) ==
    [ops      |-> Operations(p, b),
     bindings |-> [s \in Scopes(p) |->
                      [target |-> Paired(p, b, m, s), branch |-> b, init |-> i,
                       exact |-> {c \in p.spelled : c.scope = s}]],
     consumed |-> [s \in Scopes(p) |-> {}]]

-----------------------------------------------------------------------------
(* What a grant still covers.                                                *)

\* Fault: every operation of the grant is expected of every repository.
EffectiveEverywhere(g, s) == {o \in g.ops : s \in DOMAIN g.bindings}

\* _git_grant_effective_operations
Effective(g, s) ==
    LET exactIn(r) == {c.op : c \in g.bindings[r].exact}
    IN  (g.ops \ UNION {exactIn(r) : r \in DOMAIN g.bindings}) \cup exactIn(s)

\* _git_grant_usable, while the grant lives
Usable(g) == \E s \in DOMAIN g.bindings : Effective(g, s) \ g.consumed[s] # {}

\* Fault: the digest of a spelled operation is not compared.
MatchesNoDigest(g, use) ==
    LET c == use.cmd IN
    /\ c.scope \in DOMAIN g.bindings
    /\ c.op \in Effective(g, c.scope) \ g.consumed[c.scope]
    /\ c.op = "init" => c.text = g.bindings[c.scope].init
    /\ c.op = "push" => /\ c.text = g.bindings[c.scope].branch
                        /\ use.to = g.bindings[c.scope].target
    /\ c.op = "repo_create" => c.text = g.bindings[c.scope].target

\* _git_grant_matches
Matches(g, use) ==
    LET c == use.cmd
        b == g.bindings[c.scope]
    IN  /\ c.scope \in DOMAIN g.bindings
        /\ c.op \in Effective(g, c.scope) \ g.consumed[c.scope]
        /\ \A d \in Pick(b.exact, c.op) : c = d
        /\ c.op = "init" => b.init # NoBranch /\ c.text = b.init
        /\ c.op = "push" => /\ b.branch # NoBranch /\ c.text = b.branch
                            /\ b.target # NoTarget /\ use.to = b.target
        /\ c.op = "repo_create" => b.target # NoTarget /\ c.text = b.target

-----------------------------------------------------------------------------
(* Prompts.                                                                  *)

Drop == grant' = NoGrant /\ asked' = NoPrompt /\ done' = {}

\* handle_user_prompt_submit: whatever comes of the prompt, it replaces the grant
\* and forgets the reservations.
Ask(p) ==
    \E b \in PushBranches(p), m \in Mappings(p) : \E i \in InitBranches(p, b) :
       /\ held' = NoCommand
       /\ IF Acceptable(p, b, i, m)
          THEN /\ grant' = NewGrant(p, b, i, m)
               /\ asked' = [prompt |-> p, had |-> IF Targets(p) = {}
                                                  THEN {origin[s] : s \in Scopes(p)} ELSE {}]
               /\ done' = {}
          ELSE Drop
       /\ UNCHANGED origin

\* _continued_git_grant_from_prompt
Continuable(r) ==
    /\ grant # NoGrant /\ Usable(grant)
    /\ Cardinality(grant.ops) >= 2 /\ grant.ops \cap {"push", "repo_create"} # {}
    /\ r.scopes \subseteq DOMAIN grant.bindings
    /\ r.targets \subseteq {grant.bindings[s].target : s \in DOMAIN grant.bindings}
    /\ r.branch # NoBranch =>
          \E s \in DOMAIN grant.bindings : grant.bindings[s].branch = r.branch
    /\ r.init # NoBranch =>
          \E s \in DOMAIN grant.bindings : grant.bindings[s].init = r.init

\* A prompt that goes on with the transaction keeps its bindings and its ledger,
\* or ends it.
Resume(r) ==
    /\ held' = NoCommand
    /\ IF Continuable(r) THEN UNCHANGED <<grant, asked, done>> ELSE Drop
    /\ UNCHANGED origin

-----------------------------------------------------------------------------
(* Tool uses.                                                                *)

\* _handle_tool_gate: _scoped_git_candidate reads the remote of a push, then the
\* grant reserves the command if nothing else is reserved.
Reserve(c) ==
    LET use == [cmd |-> c, to |-> IF c.op = "push" THEN origin[c.scope] ELSE NoTarget] IN
    /\ grant # NoGrant /\ Matches(grant, use)
    /\ held = NoCommand
    /\ held' = use
    /\ UNCHANGED <<origin, grant, asked, done>>

\* _consume_git_grant
Consumed(g, c) == [g EXCEPT !.consumed[c.scope] = @ \cup {c.op}]

\* _handle_post_tool after a success; gh repo create has set origin.
Finish ==
    /\ held # NoCommand
    /\ LET c == held.cmd
           g == Consumed(grant, c)
       IN  /\ grant' = IF Usable(g) THEN g ELSE NoGrant
           /\ done' = done \cup {<<c.scope, c.op>>}
           /\ origin' = IF c.op = "repo_create"
                        THEN [origin EXCEPT ![c.scope] = c.text] ELSE origin
    /\ held' = NoCommand
    /\ UNCHANGED asked

\* _handle_post_tool after anything else: _clear_git_transaction_state.
Fail == /\ held # NoCommand
        /\ held' = NoCommand
        /\ Drop
        /\ UNCHANGED origin

\* Somebody sets the remote of a repository.
SetOrigin(s, t) == /\ origin[s] # t
                   /\ origin' = [origin EXCEPT ![s] = t]
                   /\ UNCHANGED <<grant, held, asked, done>>

Next == \/ \E p \in Prompts : Ask(p)
        \/ \E r \in Resumptions : Resume(r)
        \/ \E c \in Command : Reserve(c)
        \/ Finish
        \/ Fail
        \/ \E s \in Scope, t \in Target \cup {NoTarget} : SetOrigin(s, t)

Spec == Init /\ [][Next]_vars

-----------------------------------------------------------------------------
(* Properties, stated of the prompt's words.                                 *)

\* The bound repositories in which the prompt spells o.
SpelledIn(p, o) == ScopesOf(Pick(p.spelled, o)) \cap Scopes(p)

\* Whether the prompt itself pairs s with t: by a gh repo create of s, by naming
\* the only target of its only repository, or else by the origin s had then.
Pairs(a, s, t) ==
    LET p == a.prompt IN
    \/ \E c \in p.creates : c.scope = s /\ c.text = t
    \/ p.creates = {} /\ p.named = {t}
    \/ Targets(p) = {} /\ a.had = {t}

\* What a grant holds back is exactly what the prompt declared.  A command is
\* reserved only in a bound repository; if the prompt spells its operation in some
\* bound repository, only as it is spelled there; not once it has been retired in
\* that repository, whatever continuations came between; and a push or a
\* repo_create only to the target the prompt pairs with that repository.
\* (An operation spelled without -C, next to commands that name a repository with
\* -C, is not spelled in a bound repository, and is then held to no text.)
ReservedAsDeclared ==
    held # NoCommand =>
        LET c == held.cmd
            p == asked.prompt
        IN  /\ c.scope \in Scopes(p)
            /\ SpelledIn(p, c.op) # {} => c \in p.spelled
            /\ <<c.scope, c.op>> \notin done
            /\ c.op = "push" => Pairs(asked, c.scope, held.to)
            /\ c.op = "repo_create" => Pairs(asked, c.scope, c.text)

\* The operations the prompt declares, in the repositories it declares them for.
Declared(p) ==
    {u \in Scopes(p) \X UNION {Operations(p, b) : b \in PushBranches(p)} :
        SpelledIn(p, u[2]) = {} \/ u[1] \in SpelledIn(p, u[2])}

\* Heterogeneous bindings retire only their own operations: a transaction that
\* neither failed nor was replaced is over exactly when every declared operation
\* of every repository is done, no earlier and no later.
CompleteWhenDone ==
    asked # NoPrompt => (grant = NoGrant <=> Declared(asked.prompt) \subseteq done)
=============================================================================
