-------------------------- MODULE MCGrantOperations --------------------------
(* Two repositories, two targets and two branches.  A prompt spells up to two *)
(* git commands and creates up to two repositories, or names its targets and  *)
(* operations in prose.                                                       *)
EXTENDS GrantOperations

CONSTANTS A, B, x, y, main, topic, all, one

MCScope == {A, B}
MCTarget == {x, y}
MCBranch == {main, topic}
MCText == {all, one}

C(s, o, t) == [scope |-> s, op |-> o, text |-> t]

Spellable == {C(A, "add", all), C(B, "add", all), C(A, "push", main),
              C(B, "push", topic), C(B, "init", topic)}
Clashing == {C(A, "add", all), C(A, "add", one)}
Here == C(A, "add", all)
Ax == C(A, "repo_create", x)
UpTo(n, S) == {T \in SUBSET S : Cardinality(T) <= n}

P(spelled, bare, creates, named, prose, branch, place) ==
    [spelled |-> spelled, bare |-> bare, creates |-> creates, named |-> named,
     prose |-> prose, branch |-> branch, place |-> place]

MCPrompts ==
    {P(S, {}, R, {}, {}, NoBranch, NoScope) :
        S \in UpTo(2, Spellable) \cup {Clashing},
        R \in {{}, {Ax}, {Ax, C(B, "repo_create", x)}, {Ax, C(B, "repo_create", y)}}}
    \cup {P(S, {}, {}, N, {}, NoBranch, NoScope) :
        S \in UpTo(1, Spellable), N \in {{x}, {x, y}}}
    \cup {P({Here, c}, {Here}, R, {}, {}, NoBranch, A) :
        c \in Spellable, R \in {{}, {Ax}}}
    \cup {P({}, {}, R, {}, O, b, A) :
        R \in {{}, {Ax}, {Ax, C(B, "repo_create", y)}},
        O \in {{}, {"add"}, {"init"}, {"push"}}, b \in {main, NoBranch}}

MCResumptions ==
    {[scopes |-> S, targets |-> {}, branch |-> b, init |-> NoBranch] :
        S \in {{}, {B}}, b \in {NoBranch, topic}}
    \cup {[scopes |-> {}, targets |-> T, branch |-> NoBranch, init |-> i] :
        T \in {{}, {y}}, i \in {NoBranch, main}}
==============================================================================
