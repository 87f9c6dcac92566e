-------------------------- MODULE ApprovalContract --------------------------
(***************************************************************************)
(* What one-shot command approvals promise, without hooks, snapshots,      *)
(* pending records or the host: a prompt puts hashes at hand for its turn; *)
(* a tool use that takes the hashes of its call takes them away from       *)
(* everybody else, in the turn they were granted in; what is let through   *)
(* was taken before.  A tool use may lose what it took and never gets it   *)
(* back, and nothing puts a hash at hand but a prompt.                     *)
(***************************************************************************)
EXTENDS Integers

CONSTANTS Turn, NoTurn,
          Code, Digest,
          DigestOf,   \* the digest of each call
          Use         \* a tool use with its turn, call and codes

VARIABLES
    clock,      \* prompts so far
    now,        \* the turn approvals are taken in, or NoTurn
    granted,    \* hashes each prompt granted
    atHand,     \* those that nobody took yet
    held,       \* uses that took their hashes and may be let through
    through     \* uses let through
vars == <<clock, now, granted, atHand, held, through>>

Init == /\ clock = NoTurn /\ now = NoTurn
        /\ granted = [n \in Turn |-> {}]
        /\ atHand = {} /\ held = {} /\ through = {}

\* The hashes a use needs, one for each of its codes.
Needs(x) == x.codes \X {DigestOf[x.call]}

Loses == held' \in SUBSET held

\* A prompt grants hashes for its turn, and ends those of the turn before.
Grant == /\ clock + 1 \in Turn
         /\ clock' = clock + 1 /\ now' = clock + 1
         /\ atHand' \in SUBSET (Code \X Digest)
         /\ granted' = [granted EXCEPT ![clock + 1] = atHand']
         /\ Loses
         /\ UNCHANGED through

\* A prompt that grants nothing and ends nothing.
Pass == /\ clock + 1 \in Turn
        /\ clock' = clock + 1
        /\ UNCHANGED <<now, granted, atHand, held, through>>

\* A tool use takes every hash of its call, or none.
Take(x) == /\ now # NoTurn /\ x.turn = now /\ x.codes # {}
           /\ Needs(x) \subseteq atHand
           /\ atHand' = atHand \ Needs(x)
           /\ \E kept \in SUBSET held : held' = kept \cup {x}
           /\ UNCHANGED <<clock, now, granted, through>>

LetThrough(x) == /\ x \in held
                 /\ through' = through \cup {x}
                 /\ Loses
                 /\ UNCHANGED <<clock, now, granted, atHand>>

Lapse == Loses /\ UNCHANGED <<clock, now, granted, atHand, through>>

\* The session is over; hooks on their way keep what they took.
Forget == /\ now' = NoTurn /\ atHand' = {}
          /\ Loses
          /\ UNCHANGED <<clock, granted, through>>

Next == \/ Grant \/ Pass \/ Lapse \/ Forget
        \/ \E x \in Use : Take(x) \/ LetThrough(x)

Spec == Init /\ [][Next]_vars
==============================================================================
