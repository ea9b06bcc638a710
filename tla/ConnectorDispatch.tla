------------------------- MODULE ConnectorDispatch -------------------------
(***************************************************************************)
(* What a scan promises about a user's identifier: a source is asked at    *)
(* most once per scan, the identifier leaves the system only in that call, *)
(* and the egress ledger has a row only for a call that came back with     *)
(* anything but a skip, once.  How often workers die, which of them        *)
(* executes the scan and how the scan ends are invisible here.             *)
(***************************************************************************)
EXTENDS Naturals

CONSTANT Pairs           \* the (scan, connector) pairs

VARIABLES calls,         \* how often the connector of each pair has been called
          exposed,       \* the pairs whose call let the identifier out
          answered,      \* the pairs whose call came back with something to record
          recorded       \* the pairs with a ledger row

Init ==
  /\ calls = [p \in Pairs |-> 0]
  /\ exposed = {}
  /\ answered = {}
  /\ recorded = {}

Call(p) ==
  /\ calls[p] = 0
  /\ calls' = [calls EXCEPT ![p] = 1]
  /\ exposed' \in {exposed, exposed \cup {p}}
  /\ answered' \in {answered, answered \cup {p}}
  /\ UNCHANGED recorded

Record(p) ==
  /\ p \in answered
  /\ p \notin recorded
  /\ recorded' = recorded \cup {p}
  /\ UNCHANGED <<calls, exposed, answered>>

Next == \E p \in Pairs : Call(p) \/ Record(p)

Spec == Init /\ [][Next]_<<calls, exposed, answered, recorded>>

=============================================================================
