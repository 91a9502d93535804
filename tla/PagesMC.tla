------------------------------- MODULE PagesMC -------------------------------
(* Two questions in a section, two in a run, two conversations in turn,  *)
(* two words, two tasks, two filters, two records, two learners who ask    *)
(* about two topics, two papers of an exam, two windows and two tabs.      *)
EXTENDS Pages, TLC

CONSTANTS i1, i2, t1, t2, r1, r2, k1, k2, c1, c2, w1, w2, p1, p2, win1, win2, tab1, tab2, a1, a2, q1, q2

OneEntryOrNone == {{}, {<<t1, FirstPart>>}}
=============================================================================
