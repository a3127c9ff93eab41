--------------------------- MODULE MCSecretContent ---------------------------
\* Instances of SecretContent for TLC: three spellings of one key and another.
EXTENDS SecretContent, TLC

CONSTANTS lower, upper, title, other

LowerCase == (lower :> lower) @@ (upper :> lower) @@ (title :> lower) @@ (other :> other)
=============================================================================
