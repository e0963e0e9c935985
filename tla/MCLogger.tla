------------------------------- MODULE MCLogger ------------------------------
(* Three callers, so that two can race while a third looks on, two keys,    *)
(* Fatal and Info, and a name that SetLevel does not know.  Callers are     *)
(* interchangeable, and so are keys.                                        *)
EXTENDS Logger, TLC

CONSTANTS c1, c2, c3, k1, k2

Interchangeable == Permutations(Callers) \cup Permutations(Keys)
=============================================================================
