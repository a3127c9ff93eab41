------------------------------ MODULE MCStartup ------------------------------
\* Instances of Startup for TLC: four entries of every combination of shapes.
EXTENDS Startup, TLC

AnyName == Permutations(Names)
=============================================================================
