--------------------------- MODULE MCOrphanCleanup ---------------------------
(* Three runners, two of whose directories cannot be removed, and two workers *)
(* with a window of two directories, two removals and two records.  Two       *)
(* removals that hang spend the deadline, one does not: when the second       *)
(* runner leaves its directory the workers are clogged, otherwise not.        *)
EXTENDS OrphanCleanup

CONSTANTS t1, t2, t3, w1, w2

MCToken == {t1, t2, t3}
MCOrder == <<t1, t2, t3>>
MCWorker == {w1, w2}
MCLeft == {t1, t3}
MCStuck == {t1, t2}
==============================================================================
