--------------------------- MODULE MCPaperOrders ----------------------------
(* Instances of PaperOrders. *)
EXTENDS PaperOrders

Request(k, s, q, p) == [key |-> k, signal |-> s, quantity |-> q, price |-> p]

Third == Request(3, "s2", 100, 10)

\* Two requests for one intent at different prices, and one for another intent.
MCRequests == {Request(1, "s1", 100, 10), Request(2, "s1", 100, 11), Third}

\* Only the last one may find no market.
MCUnquoted == {Third}

=============================================================================
