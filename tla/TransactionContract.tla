------------------------ MODULE TransactionContract ------------------------
(***************************************************************************)
(* What the session state, the private files and the runners together      *)
(* promise about the scoped Git transactions of one session, without       *)
(* hooks, tokens, tickets, receipts or leases: one transaction is current; *)
(* it has one slot, which holds an operation from its reservation until it *)
(* is retired or the transaction goes; while the operation is in the slot  *)
(* somebody may be let through to let it take effect, and each operation   *)
(* takes effect at most once.                                              *)
(*                                                                         *)
(* A transaction that is continued while its slot is taken is severed: the *)
(* slot is emptied although somebody may already have been let through, so *)
(* nothing more is promised about how often its operations take effect.    *)
(***************************************************************************)
EXTENDS Integers

CONSTANTS Txn,    \* transactions
          Op,     \* operations
          NoTxn

VARIABLES
    current,    \* the transaction of the session, or NoTxn
    declared,   \* operations each transaction was begun with
    retired,    \* those of the current one that are over
    slot,       \* the operation reserved: a set of at most one
    admitted,   \* operations somebody is let through for, by transaction
    effect,     \* times each operation took effect, counted up to two
    severed     \* transactions continued with the slot taken
vars == <<current, declared, retired, slot, admitted, effect, severed>>

Init == /\ current = NoTxn
        /\ declared = [x \in Txn |-> {}]
        /\ retired = {} /\ slot = {}
        /\ admitted = [x \in Txn |-> {}]
        /\ effect = [x \in Txn |-> [o \in Op |-> 0]]
        /\ severed = {}

\* A transaction begins once, and replaces the current one.
Begin(x, S) == /\ declared[x] = {} /\ S # {}
               /\ current' = x
               /\ declared' = [declared EXCEPT ![x] = S]
               /\ retired' = {} /\ slot' = {}
               /\ UNCHANGED <<admitted, effect, severed>>

\* It is continued; with an empty slot nothing changes.
Sever == /\ current # NoTxn /\ slot # {}
         /\ slot' = {}
         /\ severed' = severed \cup {current}
         /\ UNCHANGED <<current, declared, retired, admitted, effect>>

\* It is dropped or revoked; who was let through may be the one who says so.
Withdraw == /\ current # NoTxn
            /\ current' = NoTxn
            /\ retired' = {} /\ slot' = {}
            /\ \E A \in SUBSET admitted[current] :
                  admitted' = [admitted EXCEPT ![current] = A]
            /\ UNCHANGED <<declared, effect, severed>>

Reserve(o) == /\ current # NoTxn /\ slot = {}
              /\ o \in declared[current] \ retired
              /\ slot' = {o}
              /\ UNCHANGED <<current, declared, retired, admitted, effect, severed>>

\* Somebody is let through, alone, and for an operation that is still to do.
Admit(o) == /\ current # NoTxn /\ o \in slot \ retired
            /\ current \notin severed =>
                  admitted[current] = {} /\ effect[current][o] = 0
            /\ admitted' = [admitted EXCEPT ![current] = @ \cup {o}]
            /\ UNCHANGED <<current, declared, retired, slot, effect, severed>>

\* Whoever was let through lets the operation take effect and is done with it (in
\* a severed transaction somebody else may be let through for the same one).
Effect(x, o) ==
    /\ o \in admitted[x]
    /\ effect' = [effect EXCEPT ![x][o] = IF @ < 2 THEN @ + 1 ELSE @]
    /\ \/ admitted' = [admitted EXCEPT ![x] = @ \ {o}]
       \/ x \in severed /\ UNCHANGED admitted
    /\ UNCHANGED <<current, declared, retired, slot, severed>>

\* Or fails, or dies.
Abandon(x, o) == /\ o \in admitted[x]
                 /\ admitted' = [admitted EXCEPT ![x] = @ \ {o}]
                 /\ UNCHANGED <<current, declared, retired, slot, effect, severed>>

\* What took effect is retired; the last one ends the transaction.
Retire(o) == /\ current # NoTxn /\ o \in slot
             /\ effect[current][o] > 0
             /\ slot' = {}
             /\ \/ retired' = retired \cup {o} /\ UNCHANGED current
                \/ retired' = {} /\ current' = NoTxn
             /\ UNCHANGED <<declared, admitted, effect, severed>>

Next == \/ \E x \in Txn, S \in SUBSET Op : Begin(x, S)
        \/ Sever \/ Withdraw
        \/ \E o \in Op : Reserve(o) \/ Admit(o) \/ Retire(o)
        \/ \E x \in Txn, o \in Op : Effect(x, o) \/ Abandon(x, o)

Spec == Init /\ [][Next]_vars
==============================================================================
