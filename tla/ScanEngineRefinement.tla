------------------------ MODULE ScanEngineRefinement ------------------------
(***************************************************************************)
(* The scan engine implements ConnectorDispatch while every message has    *)
(* one executor at a time.                                                 *)
(***************************************************************************)
EXTENDS ScanEngine

\* The calls made for a connector of a scan, each by its executor and number.
CallsOf(s, c) == UNION {{w} \X (1..called[w][s][c]) : w \in Workers}

CallCount(s, c) == Cardinality(CallsOf(s, c))

\* A set of connectors per scan as a set of pairs.
PairsOf(of_scan) == {p \in Scans \X Connectors : p[2] \in of_scan[p[1]]}

Dispatch ==
  INSTANCE ConnectorDispatch WITH
    Pairs    <- Scans \X Connectors,
    calls    <- [p \in Scans \X Connectors |-> CallCount(p[1], p[2])],
    exposed  <- PairsOf(exposed),
    answered <- PairsOf(answered),
    recorded <- PairsOf(ledger)

\* A source is asked at most once per scan, whoever executes it, and every row is of
\* an answered call, through crashes, cancellations, deadlines and retries.
ImplementsDispatch == Dispatch!Spec

=============================================================================
