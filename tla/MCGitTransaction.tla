-------------------------- MODULE MCGitTransaction --------------------------
(* Two tool uses that compete for one transaction of two operations, one   *)
(* of them a push.                                                         *)
EXTENDS GitTransaction, TLC

CONSTANTS t1, t2, k1, k2, r1, r2, commit, push

MCToolUse == {t1, t2}
MCOneToolUse == {t1}
MCToken == {k1, k2}
MCRunner == {r1, r2}
MCOneRunner == {r1}
MCOp == {commit, push}
MCOnePush == {push}
MCPublication == {push}
MCRequests == {{commit, push}}
MCPushRequests == {{push}}

MCSymmetry == Permutations(MCToolUse) \cup Permutations(MCToken)
                \cup Permutations(MCRunner)
==============================================================================
