------------------------------- MODULE MCQuotes -----------------------------
(* Two requests at once over two wallets and one epoch, with a sell and a    *)
(* buyback quote on the cache and a third to follow them.                    *)
EXTENDS Quotes

CONSTANTS r1, r2, w1, w2, e1, s1

MCRequests == {r1, r2}
MCWallets == {w1, w2}
MCEpochs == {e1}
MCMaturity == [e \in MCEpochs |-> 2]
MCSizes == {s1}
MCPrices == [sell |-> {2}, buyback |-> {3}]
=============================================================================
