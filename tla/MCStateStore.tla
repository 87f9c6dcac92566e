---------------------------- MODULE MCStateStore ----------------------------
(* Two processes of one session.  A snapshot is the set of marks made on   *)
(* it; the operations are one of each shape the handlers pass: two         *)
(* independent updates, a plain read, an update that raises on what it     *)
(* finds (a claim), and the removal Stop asks for.                         *)
EXTENDS StateStore

CONSTANTS p1, p2, a, b

MCClient == {p1, p2}
MCContent == {{}, {a}, {b}, {a, b}}
MCDefault == {}

MarkA == [s \in MCContent |-> s \cup {a}]
MarkB == [s \in MCContent |-> s \cup {b}]
Read  == [s \in MCContent |-> s]
Claim == [s \in MCContent |-> IF b \in s THEN Raise ELSE s \cup {b}]
Stop  == [s \in MCContent |-> IF a \in s THEN Keep ELSE Remove]

MCOperation == {MarkA, MarkB, Read, Claim, Stop}
==============================================================================
