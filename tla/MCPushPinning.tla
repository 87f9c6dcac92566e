---------------------------- MODULE MCPushPinning ----------------------------
(* Two safe URLs and an unsafe one, two branches, two commits, and as many    *)
(* changes as it takes to set one thing and set it back.                      *)
EXTENDS PushPinning

CONSTANTS u1, u2, unsafe, main, topic, o1, o2

MCUrl == {u1, u2, unsafe}
MCSafe == {u1, u2}
MCBranch == {main, topic}
MCOid == {o1, o2}
MCSymmetry == Permutations(MCSafe) \cup Permutations(MCBranch) \cup Permutations(MCOid)
==============================================================================
