-------------------------- MODULE MCBridgeDelivery --------------------------
(***************************************************************************)
(* Small instances of BridgeDelivery.                                      *)
(***************************************************************************)
EXTENDS BridgeDelivery, TLC

CONSTANTS e1, e2, test, p1

OneEvent  == {e1}
TwoEvents == {e1, e2}

\* An HTTP client, and the bridge's connections.
OnePoster == {p1}
MCClient  == Posters \cup Conns

MCStateOf == [e \in Event \cup {test} |->
                CASE e = e1   -> "waiting_input"
                  [] e = e2   -> "running"
                  [] e = test -> "done"]

=============================================================================
