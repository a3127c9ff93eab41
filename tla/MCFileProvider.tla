--------------------------- MODULE MCFileProvider ---------------------------
\* Instances of FileProvider for TLC.
EXTENDS FileProvider, TLC

CONSTANTS p1, r1, r2, f1, f2

OneFile == (p1 :> f1)

\* The older version is the longer one: without truncation its tail would show.
ShrinkingSize == [v \in 1..MaxVersion |-> IF v = 1 THEN 2 ELSE 1]
=============================================================================
