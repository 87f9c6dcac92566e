----------------------- MODULE GrantOperationsProofs -----------------------
(***************************************************************************)
(* What a grant of several repositories holds back and when it is over,    *)
(* for any repositories, targets, branches, texts and prompts.             *)
(***************************************************************************)
EXTENDS GrantOperations, FiniteSetTheorems, TLAPS

USE NullAssumption

OpsOf(p) == UNION {Operations(p, b) : b \in PushBranches(p)}

\* A grant is what its prompt declared, less what is done since.
Faithful(g, a) ==
    LET p == a.prompt IN
    /\ g.ops = OpsOf(p)
    /\ DOMAIN g.bindings = Scopes(p) /\ DOMAIN g.consumed = Scopes(p)
    /\ \A s \in Scopes(p) :
          /\ g.bindings[s].exact = {c \in p.spelled : c.scope = s}
          /\ g.bindings[s].target # NoTarget => Pairs(a, s, g.bindings[s].target)

Recorded(g, d) == \A s \in DOMAIN g.consumed : \A o : o \in g.consumed[s] <=> <<s, o>> \in d

Typed == /\ origin \in [Scope -> Target \cup {NoTarget}]
         /\ asked \in Asked \cup {NoPrompt}
         /\ grant \in Grant \cup {NoGrant}
         /\ held \in Use \cup {NoCommand}

Granted == grant # NoGrant =>
    asked # NoPrompt /\ Faithful(grant, asked) /\ Recorded(grant, done) /\ Usable(grant)

Finished == asked # NoPrompt /\ grant = NoGrant => Declared(asked.prompt) \subseteq done

Held == held # NoCommand => grant # NoGrant /\ Matches(grant, held)

Inv == Typed /\ Granted /\ Finished /\ Held

------------------------------------------------------------------------------
(* Prompts.                                                                  *)

LEMMA SingleLess ==
  ASSUME NEW x, NEW S PROVE IsFiniteSet({x} \ S)
<1>1. IsFiniteSet({x}) /\ IsFiniteSet({})
  BY FS_Singleton, FS_EmptySet, Zenon
<1>2. CASE x \in S
  BY <1>1, <1>2, {x} \ S = {}
<1>3. CASE x \notin S
  BY <1>1, <1>3, {x} \ S = {x}
<1> QED
  BY <1>2, <1>3

LEMMA ImagesFinite ==
  ASSUME NEW S \in SUBSET Command, IsFiniteSet(S)
  PROVE  IsFiniteSet(ScopesOf(S)) /\ IsFiniteSet(TextsOf(S))
<1> DEFINE f == [c \in S |-> c.scope]
           g == [c \in S |-> c.text]
<1>1. f \in Surjection(S, ScopesOf(S)) /\ g \in Surjection(S, TextsOf(S))
  BY DEF Surjection, ScopesOf, TextsOf
<1> QED
  BY <1>1, FS_Surjection

LEMMA PromptTyped ==
  ASSUME NEW p \in Prompts
  PROVE  /\ p \in Prompt /\ p.bare \subseteq p.spelled
         /\ p.spelled \in SUBSET Command /\ p.creates \in SUBSET Command
         /\ IsFiniteSet(p.spelled) /\ IsFiniteSet(p.creates) /\ IsFiniteSet(p.named)
         /\ TextsOf(p.creates) \subseteq Target /\ Targets(p) \subseteq Target
         /\ Scopes(p) \subseteq Scope /\ IsFiniteSet(Scopes(p)) /\ IsFiniteSet(Targets(p))
         /\ ScopesOf(p.creates) \subseteq Scopes(p)
<1>1. /\ p \in Prompt /\ p.bare \subseteq p.spelled
      /\ IsFiniteSet(p.spelled) /\ IsFiniteSet(p.creates) /\ IsFiniteSet(p.named)
      /\ \A c \in p.creates : c.op = "repo_create"
  BY PromptAssumption
<1>2. p.spelled \in SUBSET Command /\ p.creates \in SUBSET Command
  BY <1>1 DEF Prompt
<1>3. TextsOf(p.creates) \subseteq Target
  BY <1>1, <1>2 DEF TextsOf, Command
<1>4. Targets(p) \subseteq Target
  BY <1>1, <1>3 DEF Targets, Prompt
<1>5. Scopes(p) \subseteq Scope /\ ScopesOf(p.creates) \subseteq Scopes(p)
  <2>1. \A c \in Command : c.scope \in Scope
    BY DEF Command
  <2> QED
    BY <1>1, <1>2, <2>1 DEF Scopes, ScopesOf, Prompt
<1>6. IsFiniteSet(Targets(p))
  BY <1>1, <1>2, ImagesFinite, FS_Union DEF Targets
<1>7. IsFiniteSet(Scopes(p))
  <2> DEFINE C == (p.spelled \ p.bare) \cup p.creates
  <2>1. IsFiniteSet(C) /\ C \in SUBSET Command
    BY <1>1, <1>2, FS_Subset, FS_Union
  <2>2. IsFiniteSet(ScopesOf(C))
    BY <2>1, ImagesFinite
  <2>3. IsFiniteSet({p.place} \ {NoScope})
    BY SingleLess
  <2> QED
    BY <2>2, <2>3 DEF Scopes
<1> QED
  BY <1>1, <1>2, <1>3, <1>4, <1>5, <1>6, <1>7

\* Which of its push branches a grant takes makes no difference to its operations.
LEMMA OperationsAgree ==
  ASSUME NEW p \in Prompts, NEW b \in PushBranches(p)
  PROVE  Operations(p, b) = OpsOf(p)
<1>1. ASSUME NEW c \in PushBranches(p) PROVE Operations(p, c) = Operations(p, b)
  <2>1. CASE TextsOf(Pick(p.spelled, "push")) = {}
    BY <1>1, <2>1 DEF PushBranches
  <2>2. CASE TextsOf(Pick(p.spelled, "push")) # {}
    <3>1. "push" \in {d.op : d \in p.spelled}
      BY <2>2 DEF TextsOf, Pick
    <3> QED
      BY <3>1 DEF Operations
  <2> QED
    BY <2>1, <2>2
<1> QED
  BY <1>1 DEF OpsOf

\* The target of a binding is one the prompt pairs with its repository.
LEMMA PairedIsPaired ==
  ASSUME NEW p \in Prompts, NEW b, NEW m \in Mappings(p), NEW s \in Scopes(p), Typed,
         Paired(p, b, m, s) # NoTarget
  PROVE  /\ Paired(p, b, m, s) \in Target
         /\ Pairs([prompt |-> p, had |-> IF Targets(p) = {}
                                         THEN {origin[r] : r \in Scopes(p)} ELSE {}],
                  s, Paired(p, b, m, s))
<1> DEFINE t == Paired(p, b, m, s)
           had == IF Targets(p) = {} THEN {origin[r] : r \in Scopes(p)} ELSE {}
<1>m. m \in [ScopesOf(p.creates) -> Target]
  BY DEF Mappings
<1>1. CASE s \in DOMAIN m
  <2>1. t = m[s] /\ \E c \in p.creates : c.scope = s /\ c.text = m[s]
    BY <1>1 DEF Paired, Mappings
  <2> QED
    BY <1>m, <1>1, <2>1 DEF Pairs
<1>2. CASE s \notin DOMAIN m
  <2>1. /\ Cardinality(Scopes(p)) = 1 /\ Cardinality(AllTargets(p, b)) = 1
        /\ t = CHOOSE x \in AllTargets(p, b) : TRUE
    BY <1>2 DEF Paired
  <2>2. Scopes(p) = {s}
    BY <2>1, PromptTyped, FS_Singleton
  <2>3. p.creates = {}
    BY <1>m, <1>2, <2>2, PromptTyped DEF ScopesOf
  <2>4. Targets(p) = p.named
    BY <2>3 DEF Targets, TextsOf
  <2>5. AllTargets(p, b) = Targets(p) \/ (Targets(p) = {} /\ AllTargets(p, b) = {origin[s]} \ {NoTarget})
    BY <2>2 DEF AllTargets
  <2>6. IsFiniteSet(AllTargets(p, b))
    <3>1. IsFiniteSet({origin[s]} \ {NoTarget}) /\ IsFiniteSet(Targets(p))
      BY SingleLess, PromptTyped
    <3> QED
      BY <2>5, <3>1
  <2>7. AllTargets(p, b) = {t}
    BY <2>1, <2>6, FS_Singleton
  <2>8. CASE AllTargets(p, b) = Targets(p)
    BY <2>3, <2>4, <2>7, <2>8, PromptTyped DEF Pairs
  <2>9. CASE Targets(p) = {} /\ AllTargets(p, b) = {origin[s]} \ {NoTarget}
    <3>1. t = origin[s] /\ t # NoTarget
      BY <2>7, <2>9
    <3>2. had = {t}
      BY <2>2, <2>9, <3>1
    <3>3. t \in Target
      BY <3>1, PromptTyped DEF Typed
    <3> QED
      BY <2>9, <3>2, <3>3 DEF Pairs
  <2> QED
    BY <2>5, <2>8, <2>9
<1> QED
  BY <1>1, <1>2

\* What the early returns leave is faithful to the prompt, and there is something
\* to do.
LEMMA NewIsFaithful ==
  ASSUME NEW p \in Prompts, NEW b \in PushBranches(p), NEW m \in Mappings(p),
         NEW i \in InitBranches(p, b), Typed, Acceptable(p, b, i, m)
  PROVE  LET g == NewGrant(p, b, i, m)
             a == [prompt |-> p, had |-> IF Targets(p) = {}
                                         THEN {origin[s] : s \in Scopes(p)} ELSE {}]
         IN  g \in Grant /\ a \in Asked /\ Faithful(g, a) /\ Recorded(g, {})
<1> DEFINE g == NewGrant(p, b, i, m)
           a == [prompt |-> p, had |-> IF Targets(p) = {}
                                       THEN {origin[s] : s \in Scopes(p)} ELSE {}]
<1>1. /\ g = [ops |-> g.ops, bindings |-> g.bindings, consumed |-> g.consumed]
      /\ g.ops = OpsOf(p)
      /\ g.bindings = [s \in Scopes(p) |->
                          [target |-> Paired(p, b, m, s), branch |-> b, init |-> i,
                           exact |-> {c \in p.spelled : c.scope = s}]]
      /\ g.consumed = [s \in Scopes(p) |-> {}]
  BY OperationsAgree DEF NewGrant
<1>2. b \in Branch \cup {NoBranch} /\ i \in Branch \cup {NoBranch}
  <2>1. \A c \in p.spelled : c.op \in {"push", "init"} => c.text \in Branch
    BY PromptTyped DEF Command
  <2>2. b \in Branch \cup {NoBranch}
    BY <2>1, PromptTyped DEF PushBranches, TextsOf, Pick, Prompt
  <2> QED
    BY <2>1, <2>2 DEF InitBranches, TextsOf, Pick
<1>3. OpsOf(p) \subseteq Op
  <2>1. \A c \in Command : c.op \in Op
    BY DEF Command, Op
  <2>2. "push" \in Op /\ "repo_create" \in Op /\ p.prose \subseteq Op
    BY PromptTyped DEF Prompt, Op
  <2> QED
    BY <2>1, <2>2, PromptTyped DEF OpsOf, Operations
<1>4. \A s \in Scopes(p) : Paired(p, b, m, s) \in Target \cup {NoTarget}
  BY PairedIsPaired
<1>5. g.bindings \in [Scopes(p) -> Binding]
  <2>1. \A s \in Scopes(p) : {c \in p.spelled : c.scope = s} \in SUBSET Command
    BY PromptTyped
  <2> QED
    BY <1>1, <1>2, <1>4, <2>1 DEF Binding
<1>6. g.consumed \in [Scopes(p) -> SUBSET Op]
  BY <1>1
<1>7. g \in Grant
  <2> HIDE DEF g
  <2>1. Scopes(p) \in SUBSET Scope
    BY PromptTyped
  <2>2. g.bindings \in UNION {[S -> Binding] : S \in SUBSET Scope}
    BY <1>5, <2>1
  <2>3. g.consumed \in UNION {[S -> SUBSET Op] : S \in SUBSET Scope}
    BY <1>6, <2>1
  <2> QED
    BY <1>1, <1>3, <2>2, <2>3 DEF Grant
<1>8. a \in Asked
  BY PromptTyped DEF Asked, Typed
<1>9. Faithful(g, a)
  <2> HIDE DEF g
  <2>1. \A s \in Scopes(p) : Paired(p, b, m, s) # NoTarget => Pairs(a, s, Paired(p, b, m, s))
    BY PairedIsPaired
  <2> QED
    BY <1>1, <2>1 DEF Faithful
<1>10. Recorded(g, {})
  BY <1>1 DEF Recorded
<1> QED
  BY <1>7, <1>8, <1>9, <1>10

\* What is left of a grant is what its prompt declared and is not done.
LEMMA EffectiveIsDeclared ==
  ASSUME NEW g, NEW a, a.prompt \in Prompts, Faithful(g, a), NEW s \in Scopes(a.prompt), NEW o
  PROVE  o \in Effective(g, s) <=> <<s, o>> \in Declared(a.prompt)
<1> DEFINE p == a.prompt
           exactIn(r) == {c.op : c \in g.bindings[r].exact}
<1>1. \A r \in Scopes(p) : o \in exactIn(r) <=> r \in SpelledIn(p, o)
  BY DEF Faithful, SpelledIn, ScopesOf, Pick
<1>2. o \in UNION {exactIn(r) : r \in DOMAIN g.bindings} <=> SpelledIn(p, o) # {}
  BY <1>1 DEF Faithful, SpelledIn
<1>3. o \in exactIn(s) => o \in OpsOf(p)
  <2>1. PushBranches(p) # {}
    BY DEF PushBranches
  <2> QED
    BY <2>1 DEF Faithful, OpsOf, Operations
<1>4. o \in Effective(g, s) <=>
        o \in OpsOf(p) /\ (SpelledIn(p, o) = {} \/ s \in SpelledIn(p, o))
  BY <1>1, <1>2, <1>3 DEF Effective, Faithful
<1> QED
  BY <1>4 DEF Declared, OpsOf

LEMMA UsableIsIncomplete ==
  ASSUME NEW g, NEW a, NEW d, a.prompt \in Prompts, Faithful(g, a), Recorded(g, d)
  PROVE  Usable(g) <=> ~(Declared(a.prompt) \subseteq d)
<1>1. \A u \in Declared(a.prompt) : u[1] \in Scopes(a.prompt) /\ u = <<u[1], u[2]>>
  BY DEF Declared
<1>2. \A s \in Scopes(a.prompt) : \A o :
        o \in Effective(g, s) \ g.consumed[s] <=> <<s, o>> \in Declared(a.prompt) \ d
  BY EffectiveIsDeclared DEF Recorded, Faithful
<1>3. Usable(g) <=> \E s \in Scopes(a.prompt) : \E o : o \in Effective(g, s) \ g.consumed[s]
  BY DEF Usable, Faithful
<1>4. Usable(g) <=> \E s \in Scopes(a.prompt) : \E o : <<s, o>> \in Declared(a.prompt) \ d
  BY <1>2, <1>3
<1>5. ASSUME NEW u \in Declared(a.prompt) \ d
      PROVE  \E s \in Scopes(a.prompt) : \E o : <<s, o>> \in Declared(a.prompt) \ d
  <2>1. u[1] \in Scopes(a.prompt) /\ u = <<u[1], u[2]>>
    BY <1>1
  <2>2. <<u[1], u[2]>> \in Declared(a.prompt) \ d
    BY <2>1
  <2> QED
    BY <2>1, <2>2
<1> QED
  BY <1>4, <1>5

------------------------------------------------------------------------------
(* Steps.                                                                    *)

LEMMA InvInit == Init => Inv
  BY DEF Init, Inv, Typed, Granted, Finished, Held

LEMMA DropKeeps ==
  ASSUME Inv, Drop, UNCHANGED origin, held' = NoCommand
  PROVE  Inv'
  BY DEF Drop, Inv, Typed, Granted, Finished, Held

LEMMA AskKeeps ==
  ASSUME Inv, NEW p \in Prompts, Ask(p)
  PROVE  Inv'
<1>1. PICK b \in PushBranches(p), m \in Mappings(p) : \E j \in InitBranches(p, b) :
         /\ held' = NoCommand
         /\ IF Acceptable(p, b, j, m)
            THEN /\ grant' = NewGrant(p, b, j, m)
                 /\ asked' = [prompt |-> p, had |-> IF Targets(p) = {}
                                                    THEN {origin[s] : s \in Scopes(p)} ELSE {}]
                 /\ done' = {}
            ELSE Drop
         /\ UNCHANGED origin
  BY DEF Ask
<1>2. PICK i \in InitBranches(p, b) :
         /\ held' = NoCommand
         /\ IF Acceptable(p, b, i, m)
            THEN /\ grant' = NewGrant(p, b, i, m)
                 /\ asked' = [prompt |-> p, had |-> IF Targets(p) = {}
                                                    THEN {origin[s] : s \in Scopes(p)} ELSE {}]
                 /\ done' = {}
            ELSE Drop
         /\ UNCHANGED origin
  BY <1>1
<1>3. CASE Acceptable(p, b, i, m)
  <2>1. /\ grant' \in Grant /\ asked' \in Asked /\ Faithful(grant', asked')
        /\ Recorded(grant', {})
    BY <1>2, <1>3, NewIsFaithful DEF Inv
  <2>2. Declared(p) # {}
    <3>1. PICK s \in Scopes(p), o \in Operations(p, b) : TRUE
      BY <1>3 DEF Acceptable
    <3>2. o \in OpsOf(p)
      BY <3>1 DEF OpsOf
    <3>3. CASE SpelledIn(p, o) = {}
      <4>1. <<s, o>> \in Declared(p)
        BY <3>1, <3>2, <3>3 DEF Declared, OpsOf
      <4> QED
        BY <4>1
    <3>4. CASE SpelledIn(p, o) # {}
      <4>1. PICK r \in SpelledIn(p, o) : TRUE
        BY <3>4
      <4>2. <<r, o>> \in Declared(p)
        BY <3>2, <4>1 DEF Declared, OpsOf, SpelledIn
      <4> QED
        BY <4>2
    <3> QED
      BY <3>3, <3>4
  <2>3. Usable(grant')
    <3>1. asked'.prompt = p
      BY <1>2, <1>3
    <3> QED
      BY <2>1, <2>2, <3>1, UsableIsIncomplete
  <2>4. Typed'
    BY <1>2, <2>1 DEF Inv, Typed
  <2>5. Granted'
    BY <1>2, <1>3, <2>1, <2>3 DEF Granted
  <2>6. Finished' /\ Held'
    BY <1>2, <2>1 DEF Finished, Held
  <2> QED
    BY <2>4, <2>5, <2>6 DEF Inv
<1>4. CASE ~Acceptable(p, b, i, m)
  BY <1>2, <1>4, DropKeeps
<1> QED
  BY <1>3, <1>4

LEMMA ReserveKeeps ==
  ASSUME Inv, NEW c \in Command, Reserve(c)
  PROVE  Inv'
<1> DEFINE use == [cmd |-> c, to |-> IF c.op = "push" THEN origin[c.scope] ELSE NoTarget]
<1>1. use \in Use
  <2>1. c.scope \in Scope
    BY DEF Command
  <2> QED
    BY <2>1 DEF Use, Inv, Typed
<1>2. /\ grant # NoGrant /\ Matches(grant, use) /\ held' = use
      /\ UNCHANGED <<origin, grant, asked, done>>
  BY DEF Reserve
<1> HIDE DEF use
<1>3. Held'
  BY <1>2 DEF Held, Matches
<1> QED
  BY <1>1, <1>2, <1>3 DEF Inv, Typed, Granted, Finished, Recorded

\* Retiring the reserved command leaves the grant faithful, with one more done.
LEMMA ConsumedIsFaithful ==
  ASSUME Inv, held # NoCommand
  PROVE  LET g == Consumed(grant, held.cmd)
             d == done \cup {<<held.cmd.scope, held.cmd.op>>}
         IN  /\ asked \in Asked /\ held.cmd \in Command
             /\ g \in Grant /\ Faithful(g, asked) /\ Recorded(g, d)
<1> DEFINE c == held.cmd
           g == Consumed(grant, c)
           d == done \cup {<<c.scope, c.op>>}
<1>1. /\ grant \in Grant /\ asked \in Asked /\ c \in Command
      /\ Faithful(grant, asked) /\ Recorded(grant, done) /\ Matches(grant, held)
  BY DEF Inv, Typed, Held, Granted, Use
<1>2. c.scope \in DOMAIN grant.consumed /\ c.op \in Op
  BY <1>1 DEF Matches, Faithful, Command, Op
<1>3. /\ g.ops = grant.ops /\ g.bindings = grant.bindings
      /\ g.consumed = [grant.consumed EXCEPT ![c.scope] = @ \cup {c.op}]
      /\ g = [ops |-> g.ops, bindings |-> g.bindings, consumed |-> g.consumed]
  <2>1. grant = [ops |-> grant.ops, bindings |-> grant.bindings, consumed |-> grant.consumed]
    BY <1>1 DEF Grant
  <2> QED
    BY <2>1 DEF Consumed
<1>4. PICK S \in SUBSET Scope : grant.consumed \in [S -> SUBSET Op]
  BY <1>1 DEF Grant
<1> HIDE DEF g
<1>5. g.consumed \in [S -> SUBSET Op]
  BY <1>2, <1>3, <1>4
<1>6. g \in Grant
  BY <1>1, <1>3, <1>5 DEF Grant
<1>7. Faithful(g, asked)
  BY <1>1, <1>3, <1>4, <1>5 DEF Faithful
<1>8. Recorded(g, d)
  <2>1. ASSUME NEW s \in DOMAIN g.consumed, NEW o
        PROVE  o \in g.consumed[s] <=> <<s, o>> \in d
    <3>1. o \in grant.consumed[s] <=> <<s, o>> \in done
      BY <1>1, <1>4, <1>5, <2>1 DEF Recorded
    <3>2. o \in g.consumed[s] <=> o \in grant.consumed[s] \/ (s = c.scope /\ o = c.op)
      BY <1>2, <1>3, <1>4, <1>5, <2>1
    <3> QED
      BY <3>1, <3>2
  <2> QED
    BY <2>1 DEF Recorded
<1> QED
  BY <1>1, <1>6, <1>7, <1>8 DEF g

LEMMA FinishKeeps ==
  ASSUME Inv, Finish
  PROVE  Inv'
<1> DEFINE c == held.cmd
           g == Consumed(grant, c)
           d == done \cup {<<c.scope, c.op>>}
<1>1. /\ held # NoCommand /\ held' = NoCommand /\ asked' = asked /\ done' = d
      /\ grant' = IF Usable(g) THEN g ELSE NoGrant
      /\ origin' = IF c.op = "repo_create" THEN [origin EXCEPT ![c.scope] = c.text] ELSE origin
  BY DEF Finish
<1>2. /\ asked \in Asked /\ c \in Command /\ g \in Grant
      /\ Faithful(g, asked) /\ Recorded(g, d)
  BY <1>1, ConsumedIsFaithful
<1> HIDE DEF g
<1>3. asked.prompt \in Prompts
  BY <1>2 DEF Asked
<1>4. Usable(g) <=> ~(Declared(asked.prompt) \subseteq d)
  BY <1>2, <1>3, UsableIsIncomplete
<1>5. origin' \in [Scope -> Target \cup {NoTarget}]
  <2>1. c.op = "repo_create" => c.text \in Target
    BY <1>2 DEF Command
  <2> QED
    BY <1>1, <2>1 DEF Inv, Typed
<1>6. Typed'
  BY <1>1, <1>2, <1>5 DEF Typed
<1>7. Granted'
  BY <1>1, <1>2 DEF Granted
<1>8. Finished' /\ Held'
  BY <1>1, <1>2, <1>4 DEF Finished, Held
<1> QED
  BY <1>6, <1>7, <1>8 DEF Inv

LEMMA InvNext == Inv /\ [Next]_vars => Inv'
<1> SUFFICES ASSUME Inv, [Next]_vars PROVE Inv'
  OBVIOUS
<1>1. ASSUME NEW p \in Prompts, Ask(p) PROVE Inv'
  BY <1>1, AskKeeps
<1>2. ASSUME NEW r \in Resumptions, Resume(r) PROVE Inv'
  <2>1. CASE Continuable(r)
    BY <1>2, <2>1 DEF Resume, Inv, Typed, Granted, Finished, Held
  <2>2. CASE ~Continuable(r)
    BY <1>2, <2>2, DropKeeps DEF Resume
  <2> QED
    BY <2>1, <2>2
<1>3. ASSUME NEW c \in Command, Reserve(c) PROVE Inv'
  BY <1>3, ReserveKeeps
<1>4. CASE Finish
  BY <1>4, FinishKeeps
<1>5. CASE Fail
  BY <1>5, DropKeeps DEF Fail
<1>6. ASSUME NEW s \in Scope, NEW t \in Target \cup {NoTarget}, SetOrigin(s, t) PROVE Inv'
  BY <1>6 DEF SetOrigin, Inv, Typed, Granted, Finished, Held
<1>7. CASE UNCHANGED vars
  BY <1>7 DEF vars, Inv, Typed, Granted, Finished, Held
<1> QED
  BY <1>1, <1>2, <1>3, <1>4, <1>5, <1>6, <1>7 DEF Next

LEMMA SpecInv == Spec => []Inv
  BY InvInit, InvNext, PTL DEF Spec

\* What a grant holds back for a tool use is what the prompt declared: in a bound
\* repository, as it is spelled there, not yet retired there, and with the target
\* the prompt pairs with the repository.
THEOREM AlwaysReservedAsDeclared == Spec => []ReservedAsDeclared
<1>1. ASSUME Inv, held # NoCommand
      PROVE  LET c == held.cmd
                 p == asked.prompt
             IN  /\ c.scope \in Scopes(p)
                 /\ SpelledIn(p, c.op) # {} => c \in p.spelled
                 /\ <<c.scope, c.op>> \notin done
                 /\ c.op = "push" => Pairs(asked, c.scope, held.to)
                 /\ c.op = "repo_create" => Pairs(asked, c.scope, c.text)
  <2> DEFINE c == held.cmd
             p == asked.prompt
             b == grant.bindings[c.scope]
  <2>1. /\ Faithful(grant, asked) /\ Recorded(grant, done) /\ Matches(grant, held)
        /\ p \in Prompts
    BY <1>1 DEF Inv, Typed, Granted, Held, Asked
  <2>2. c.scope \in Scopes(p)
    BY <2>1 DEF Matches, Faithful
  <2>3. c.op \in Effective(grant, c.scope) /\ <<c.scope, c.op>> \notin done
    BY <2>1, <2>2 DEF Matches, Faithful, Recorded
  <2>4. ASSUME SpelledIn(p, c.op) # {} PROVE c \in p.spelled
    <3>1. c.scope \in SpelledIn(p, c.op)
      BY <2>1, <2>2, <2>3, <2>4, EffectiveIsDeclared DEF Declared
    <3>2. PICK e \in p.spelled : e.scope = c.scope /\ e.op = c.op
      BY <3>1 DEF SpelledIn, ScopesOf, Pick
    <3>3. e \in Pick(b.exact, c.op)
      BY <2>1, <2>2, <3>2 DEF Faithful, Pick
    <3> QED
      BY <2>1, <3>2, <3>3 DEF Matches
  <2>5. b.target # NoTarget => Pairs(asked, c.scope, b.target)
    BY <2>1, <2>2 DEF Faithful
  <2>6. /\ c.op = "push" => Pairs(asked, c.scope, held.to)
        /\ c.op = "repo_create" => Pairs(asked, c.scope, c.text)
    BY <2>1, <2>5 DEF Matches
  <2> QED
    BY <2>2, <2>3, <2>4, <2>6
<1>2. Inv => ReservedAsDeclared
  BY <1>1 DEF ReservedAsDeclared
<1> QED
  BY SpecInv, <1>2, PTL

\* A transaction that neither failed nor was replaced is over exactly when every
\* declared operation of every repository is done.
THEOREM AlwaysCompleteWhenDone == Spec => []CompleteWhenDone
<1>1. ASSUME Inv, asked # NoPrompt
      PROVE  grant = NoGrant <=> Declared(asked.prompt) \subseteq done
  <2>1. asked.prompt \in Prompts
    BY <1>1 DEF Inv, Typed, Asked
  <2>2. CASE grant = NoGrant
    BY <1>1, <2>2 DEF Inv, Finished
  <2>3. CASE grant # NoGrant
    BY <1>1, <2>1, <2>3, UsableIsIncomplete DEF Inv, Granted
  <2> QED
    BY <2>2, <2>3
<1>2. Inv => CompleteWhenDone
  BY <1>1 DEF CompleteWhenDone
<1> QED
  BY SpecInv, <1>2, PTL
=============================================================================
