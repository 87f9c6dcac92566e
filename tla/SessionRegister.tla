--------------------------- MODULE SessionRegister ---------------------------
(***************************************************************************)
(* What control_plane/state.py promises the handlers that call it: one     *)
(* session is a register that changes by whole operations.  mutate_session *)
(* and cleanup_session take effect at one instant between call and return, *)
(* or not at all; a failed call leaves the register as it was; a register  *)
(* whose stored form is damaged answers every call with a failure.         *)
(*                                                                         *)
(* An operation is a function of the state it finds: a mutator yields the  *)
(* new content or Raise, a removal predicate yields Keep or Remove.        *)
(***************************************************************************)
CONSTANTS Client,      \* hook and runner processes of one session
          Content,     \* session snapshots
          Default,     \* the snapshot of a session that has no usable file
          Operation,   \* functions [Content -> Content \cup {Raise, Keep, Remove}]
          Raise, Keep, Remove,
          Damaged,     \* a stored form that never loads
          Spoiled,     \* one that does not load until it expires
          NoCall, NoReply, Failed

VARIABLES value,       \* what the next operation will find
          call,        \* the operation each client is in
          reply        \* what the client's latest operation returned
vars == <<value, call, reply>>

\* What an operation leaves in the register when it finds c.
After(op, c) == CASE op[c] = Keep   -> c
                  [] op[c] = Remove -> Default
                  [] OTHER          -> op[c]

\* What it returns: the removal call returns the snapshot it judged.
Answer(op, c) == IF op[c] \in {Keep, Remove} THEN c ELSE op[c]

Init == /\ value \in {Default, Damaged, Spoiled}
        /\ call = [c \in Client |-> NoCall]
        /\ reply = [c \in Client |-> NoReply]

Invoke(c) == /\ call[c] = NoCall
             /\ \E op \in Operation : call' = [call EXCEPT ![c] = op]
             /\ reply' = [reply EXCEPT ![c] = NoReply]
             /\ UNCHANGED value

Apply(c) == /\ call[c] # NoCall
            /\ reply[c] = NoReply
            /\ value \in Content
            /\ call[c][value] # Raise
            /\ value' = After(call[c], value)
            /\ reply' = [reply EXCEPT ![c] = Answer(call[c], value)]
            /\ UNCHANGED call

\* A refusal changes nothing, and may be the return of the call as well.
Reject(c) == /\ call[c] # NoCall
             /\ reply[c] = NoReply
             /\ reply' = [reply EXCEPT ![c] = Failed]
             /\ call' \in {call, [call EXCEPT ![c] = NoCall]}
             /\ UNCHANGED value

Return(c) == /\ reply[c] # NoReply
             /\ call' = [call EXCEPT ![c] = NoCall]
             /\ UNCHANGED <<value, reply>>

\* The process dies; whatever it had not applied is never applied.
Vanish(c) == /\ call' = [call EXCEPT ![c] = NoCall]
             /\ UNCHANGED <<value, reply>>

\* Seven days without an operation: the content is forgotten.
Expire == /\ value # Damaged
          /\ value' = Default
          /\ UNCHANGED <<call, reply>>

Next == \/ \E c \in Client : \/ Invoke(c) \/ Apply(c) \/ Reject(c)
                             \/ Return(c) \/ Vanish(c)
        \/ Expire

Spec == Init /\ [][Next]_vars
==============================================================================
