--------------------------- MODULE MCSemanticCache ---------------------------
EXTENDS SemanticCache, TLC

CONSTANTS near, close, far   \* two similar texts, and one like neither

MCTexts == {near, close, far}
MCScore == [s \in MCTexts |-> [t \in MCTexts |->
              IF s = t THEN IF s = far THEN 0 ELSE 100
              ELSE IF far \in {s, t} THEN 30 ELSE 95]]
Permuted == Permutations(Requests) \cup Permutations(Askers) \cup Permutations(Contexts)
=============================================================================
