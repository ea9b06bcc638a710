--------------------------- MODULE MCRemediation ---------------------------
(* Small instances of the remediation engine for TLC. *)
EXTENDS RemediationEngine, TLC

\* Jobs, brokers and workers are interchangeable; requests are too.
Symmetry == Permutations(Jobs) \cup Permutations(Brokers) \cup Permutations(Workers)
              \cup Permutations(Requests)
=============================================================================
