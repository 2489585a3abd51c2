---- MODULE MCConfigSync ----
\* ConfigSync for TLC: request handles are interchangeable.
EXTENDS ConfigSync, TLC

RequestSymmetry == Permutations(Requests)
====
