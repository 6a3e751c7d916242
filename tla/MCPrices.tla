------------------------------ MODULE MCPrices ------------------------------
(* Small instances of Prices. *)
EXTENDS Prices

ThreePrices == {100000, 99900, 400}
Discounts   == {[kind |-> "percent", value |-> 10], [kind |-> "percent", value |-> 25]}
ThreeRules  == Discounts \cup {[kind |-> "fixed", value |-> 50000]}
ThreePolicies == {[mode |-> "none", limit |-> 0], [mode |-> "limited", limit |-> 10],
                  [mode |-> "full", limit |-> 0]}

=============================================================================
