--------------------------- MODULE MCEvidenceCycle ---------------------------
\* Small instances of EvidenceCycle for TLC.
EXTENDS EvidenceCycle, TLC

Symmetry == Permutations(Source) \cup Permutations(Finding)

\* The boundary of a reader that is not independent of the emitter, and with it the one of
\* a reader that is and that corroborates.
OneBoundary == {[independent |-> FALSE, corroborated |-> FALSE]}
TwoBoundaries == OneBoundary \cup {[independent |-> TRUE, corroborated |-> TRUE]}
=============================================================================
