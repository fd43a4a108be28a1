-------------------------- MODULE MCWordsRecovery --------------------------
(* WordsRecovery on small instances.                                        *)
EXTENDS WordsRecovery, TLC

Budget(windows, docs, writes, ends) ==
  [windows |-> windows, docs |-> docs, writes |-> writes, ends |-> ends]

\* One window at a time, and another program: a file, which the window leaves three times;
\* a file and a draft, left twice; and without the other program, three times.
OneAfterAnother ==
  UNION {{Budget({w}, {p}, 1, 3), Budget({w}, {p} \union Drafts, 1, 2), Budget({w}, {p} \union Drafts, 0, 3)} :
           w \in Windows, p \in Paths}
\* Windows at work together, one of which ends.
SideBySide == {Budget(Windows, {p}, 0, 1) : p \in Paths}
\* A window that saves a file under the name of another.
UnderAnotherName == {Budget({w}, Paths, 0, 1) : w \in Windows}

Instances == OneAfterAnother \union SideBySide \union UnderAnotherName
JustEnds == {Budget({w}, {p}, 0, 2) : w \in Windows, p \in Paths}

Symmetry == Permutations(Windows) \union Permutations(Paths)
=============================================================================
