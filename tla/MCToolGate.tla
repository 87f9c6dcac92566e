----------------------------- MODULE MCToolGate -----------------------------
(* Two tool uses; an automatic clone, a build inside its checkout, a       *)
(* removal that a prompt may approve, and an upload of configured terms it *)
(* may grant.                                                              *)
EXTENDS ToolGate, TLC

CONSTANTS t1, t2, clone, build, remove, upload,
          gClone, gBuild, gRemove, gUpload, network, delete, d1

MCToolUse == {t1, t2}
MCCall == {clone, build, remove, upload}
MCDigest == {gClone, gBuild, gRemove, gUpload}
MCDigestOf == [c \in MCCall |-> CASE c = clone -> gClone [] c = build -> gBuild
                                  [] c = upload -> gUpload [] OTHER -> gRemove]
MCDanger == [c \in MCCall |-> CASE c = clone -> {network}
                                [] c = remove -> {delete}
                                [] OTHER -> {}]
MCCode == {network, delete, Downloaded}
MCLane == {network}
MCCheckout == {d1}
MCCloneTo == [c \in MCCall |-> IF c = clone THEN d1 ELSE NoCheckout]
MCAutomatic == {clone}
MCTouches == [c \in MCCall |-> IF c = build THEN {d1} ELSE {}]
MCOutbound == {upload}
MCNamed == {[approves |-> {}, lends |-> {}],
            [approves |-> {clone, build}, lends |-> {}],
            [approves |-> {remove}, lends |-> {upload}]}

MCSymmetry == Permutations(MCToolUse)
==============================================================================
