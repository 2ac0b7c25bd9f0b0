--------------------------- MODULE MCPeriodClose ---------------------------
EXTENDS PeriodClose, TLC

Account(n, c) == [state |-> "active", name |-> n, class |-> c, currency |-> "usd", parent |-> None]
MCChart == "cash" :> Account("Cash", "asset") @@ "food" :> Account("Food", "expense")
             @@ "fun" :> Account("Fun", "expense")
MCRows == "april" :> {"rent"} @@ "may" :> {"gift", "food"} @@ "june" :> {"food"}

Capture(by, from, to, m) ==
  [kind |-> "capture", by |-> by, from |-> from, to |-> to, month |-> m,
   currency |-> "usd", sound |-> TRUE]
Chart1(k, by, t, n, c, u, p) ==
  [kind |-> k, by |-> by, target |-> t, name |-> n, class |-> c, currency |-> u, parent |-> p]

JournalProposals ==
  {Capture("id", "cash", "food", 1), Capture("name", "Cash", "Fun", 2),
   [Capture("name", "Cash", "Food", 2) EXCEPT !.sound = FALSE]}
    \cup [kind : {"reverse", "replace", "reverse_replace"}, month : {1}, sound : {TRUE}]
ChartProposals ==
  {Chart1("create", "name", "Cash", "Fun", "expense", "usd", "Food"),
   Chart1("create", "name", "Cash", "Rent", "expense", "usd", "Fun"),
   Chart1("update", "id", "food", "Food", "income", "usd", "fun"),
   Chart1("update", "name", "Fun", "Fun", "expense", "idr", "Food"),
   Chart1("archive", "id", "fun", "Fun", "expense", "usd", None)}
    \cup [kind : {"map", "remap"}, by : {"id"}, target : {"cash"}, source : {"bank"}, parent : {None}]
    \cup [kind : {"map", "remap"}, by : {"name"}, target : {"Food"}, source : {"bank"}, parent : {None}]
CloseProposals ==
  [kind : {"reconcile", "close", "reopen"}, month : {1}, target : {"cash"},
   statement : {"april"}, confirmed : {TRUE}]
    \cup [kind : {"reopen"}, month : {1}, target : {"cash"}, statement : {"april"}, confirmed : {FALSE}]
    \cup [kind : {"upload"}, document : {"may", "june"}]
Import(d, decide) == [kind |-> "import", document |-> d, month |-> 1, decide |-> decide]
ImportProposals ==
  {Import("april", "rent" :> "post"), Import("april", "rent" :> "link"),
   Import("may", "gift" :> "post" @@ "food" :> "post"), Import("may", "food" :> "post"),
   Import("may", "rent" :> "post"), Import("june", "food" :> "defer"), Import("june", "food" :> "post")}
MCProposals == JournalProposals \cup ChartProposals \cup CloseProposals \cup ImportProposals
RequestSymmetry == Permutations(Requests)
=============================================================================
