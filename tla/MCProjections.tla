---------------------------- MODULE MCProjections ----------------------------
EXTENDS Projections, TLC
MCClass == ("cash" :> "asset") @@ ("card" :> "liability") @@ ("travel" :> "asset")
Amounts(d, cash, card, travel) ==
    [on |-> d, amount |-> ("cash" :> cash) @@ ("card" :> card) @@ ("travel" :> travel)]
MCJournals == {Amounts(1, 2, 1, 0), Amounts(2, -1, 0, 1), Amounts(1, 0, 1, 2)}
=============================================================================
