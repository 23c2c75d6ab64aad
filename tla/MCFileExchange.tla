--------------------------- MODULE MCFileExchange ---------------------------
(***************************************************************************)
(* Values of the constants of FileExchange for the runs.                   *)
(***************************************************************************)
EXTENDS FileExchangeProperties, TLC

CONSTANTS f1, f2, r1, r2, w1, w2

TwoFiles == {f1, f2}
OneFile == {f1}
TwoRequests == {r1, r2}
TwoWorkers == {w1, w2}

\* Identifiers, request slots and worker processes are interchangeable.
Symmetry == Permutations(Files) \cup Permutations(Requests) \cup Permutations(Workers)

MCMaxSafeSize == 1
MCIntMax == 2

\* A clean text, a program, a script the worker also has to read, an empty
\* upload and one that is too long for the size column.
Text == [ext |-> "other", mime |-> "text", size |-> 1]
Program == [ext |-> "blocked", mime |-> "other", size |-> 2]
Script == [ext |-> "blocked", mime |-> "text", size |-> 1]
Empty == [ext |-> "other", mime |-> "other", size |-> 0]
Oversize == [ext |-> "pdf", mime |-> "pdf", size |-> 3]

AnyUploads == {Text, Program, Empty, Oversize}
OneScript == {Script}
TextOrEmpty == {Text, Empty}
TextOrOversize == {Text, Oversize}

AnyTitles == {"draft", "final", "long"}
GoodTitles == {"draft", "final"}
OneTitle == {"draft"}
MCLongTitles == {"long"}

NoFaults == {}
EveryFault == FaultKinds
OnlyWorker == {"worker"}
=============================================================================
