----------------------------- MODULE MCPlanning -----------------------------
EXTENDS Planning
Map(c, d, f, t) == [category |-> c, account |-> "cash", direction |-> d, from |-> f, to |-> t]
Allocate(c, f, t) == [category |-> c, from |-> f, to |-> t]
Budget(cs, as, ms) == [scope |-> "home", categories |-> cs, allocations |-> as, mappings |-> ms]
MCBudgets == {Budget({"food"}, {Allocate("food", 1, 2)}, {Map("food", "expense", 1, 2)}),
              Budget({"food"}, {Allocate("food", 1, 4)}, {Map("food", "expense", 1, 2)}),
              Budget({"food", "fuel"}, {Allocate("food", 2, 4), Allocate("fuel", 2, 4)},
                     {Map("food", "income", 2, 4), Map("fuel", "expense", 3, 4)}),
              Budget({"fuel"}, {Allocate("fuel", 3, 3)}, {Map("food", "expense", 3, 3)}),
              Budget({"food"}, {Allocate("food", 3, 4)}, {Map("food", "expense", 3, 4)})}
MCObligations == {[key |-> "rent", category |-> "food", occurrences |-> {1}],
                  [key |-> "rent", category |-> "none", occurrences |-> {1, 2}]}
MCGoals == {[key |-> "car", accounts |-> {"cash"}, allocations |-> {<<"cash", "a">>}],
            [key |-> "trip", accounts |-> {"cash"}, allocations |-> {<<"cash", "a">>}]}
MCDebts == {[key |-> "loan", account |-> "bank"]}
=============================================================================
