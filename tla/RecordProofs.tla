---------------------------- MODULE RecordProofs ----------------------------
(***************************************************************************)
(* Proofs about the records of a household: the plans, the books and their *)
(* periods.  The plans share no state with the books; each part has an     *)
(* inductive invariant, stated in its module.                              *)
(***************************************************************************)
EXTENDS PeriodClose, Planning, FiniteSetTheorems, SequenceTheorems, TLAPS

-----------------------------------------------------------------------------
(* The plans.                                                              *)

\* Two ranges that hold a common day overlap.
LEMMA CommonDay ==
  ASSUME NEW v, NEW w, NEW day,
         v.from \in Nat, v.to \in Nat, w.from \in Nat, w.to \in Nat, day \in Nat,
         v.from <= day, day <= v.to, w.from <= day, day <= w.to
  PROVE  Overlaps(v, w)
  BY DEF Overlaps

\* A set whose members are all equal has at most one.
LEMMA AtMostOne ==
  ASSUME NEW S, \A x, y \in S : x = y
  PROVE  Cardinality(S) <= 1
<1>1. CASE S = {}
  BY <1>1, FS_EmptySet
<1>2. CASE S # {}
  <2>1. PICK x : x \in S
    BY <1>2
  <2>2. S = {x}
    BY <2>1
  <2>3. Cardinality(S) = 1
    BY <2>2, FS_Singleton
  <2> QED
    BY <2>3
<1> QED
  BY <1>1, <1>2

\* The trigger budget_mappings_no_active_overlap keeps the mappings of an account to a
\* category apart in every state.
THEOREM PlanningInvariant == PlanningSpec => []PlanningInv
<1>1. PlanningInit => PlanningInv
  BY DEF PlanningInit, PlanningInv, DatesKnown, MappingsApart
<1>2. PlanningInv /\ [PlanningNext]_planningVars => PlanningInv'
  <2> SUFFICES ASSUME PlanningInv, [PlanningNext]_planningVars
               PROVE  PlanningInv'
    OBVIOUS
  <2>1. ASSUME UNCHANGED accountMappings
        PROVE  PlanningInv'
    BY <2>1 DEF PlanningInv, DatesKnown, MappingsApart, Overlaps
  <2>2. ASSUME NEW b \in Budgets, ActivateBudget(b)
        PROVE  PlanningInv'
    <3> DEFINE N == NewMappings(b)
    <3>1. /\ accountMappings' = accountMappings \cup N
          /\ \A m \in N, n \in accountMappings \cup N :
                m # n /\ m.category = n.category /\ m.account = n.account => ~Overlaps(m, n)
      BY <2>2 DEF ActivateBudget, BudgetFits
    <3>2. \A m \in N : m.from \in Nat /\ m.to \in Nat
      <4> TAKE m \in N
      <4>1. PICK x \in b.mappings :
               m = [category |-> PlanRow(<<"category", x.category>>), account |-> x.account,
                    direction |-> x.direction, from |-> x.from, to |-> x.to]
        BY DEF NewMappings
      <4>2. m.from = x.from /\ m.to = x.to
        BY <4>1
      <4> QED
        BY <4>1, <4>2, PlanningAssumption
    <3> HIDE DEF N
    <3>3. DatesKnown'
      BY <3>1, <3>2 DEF PlanningInv, DatesKnown
    <3>4. MappingsApart'
      BY <3>1 DEF PlanningInv, MappingsApart, Overlaps
    <3> QED
      BY <3>3, <3>4 DEF PlanningInv
  <2>3. ASSUME NEW o \in Obligations, UpdateObligation(o)
        PROVE  PlanningInv'
    BY <2>3, <2>1 DEF UpdateObligation, budgetVars
  <2>4. ASSUME NEW g \in Goals, UpsertSavingsGoal(g)
        PROVE  PlanningInv'
    BY <2>4, <2>1 DEF UpsertSavingsGoal, budgetVars
  <2>5. ASSUME NEW d \in Debts, UpsertDebtPlan(d)
        PROVE  PlanningInv'
    BY <2>5, <2>1 DEF UpsertDebtPlan, budgetVars
  <2>6. ASSUME NEW k \in PlanningKeys, ArchivePlanningRecord(k)
        PROVE  PlanningInv'
    BY <2>6, <2>1 DEF ArchivePlanningRecord, budgetVars
  <2> QED
    BY <2>1, <2>2, <2>3, <2>4, <2>5, <2>6 DEF PlanningNext, planningVars
<1> QED
  BY <1>1, <1>2, PTL DEF PlanningSpec

\* On no day does an allocation count the postings of an account through two mappings
\* (BudgetRepository.activate under the trigger of its mappings).
THEOREM MappedOnceAlways == PlanningSpec => []MappedOnce
<1>1. PlanningInv => MappedOnce
  <2> SUFFICES ASSUME PlanningInv, NEW a \in Allocations,
                      NEW m \in CountedThrough(a), NEW n \in CountedThrough(a),
                      m.account = n.account, NEW day \in (m.from .. m.to) \cap (n.from .. n.to)
               PROVE  m = n
    BY DEF MappedOnce
  <2>1. /\ m \in accountMappings /\ n \in accountMappings
        /\ m.category = n.category
    BY DEF CountedThrough
  <2>2. /\ m.from \in Nat /\ m.to \in Nat /\ n.from \in Nat /\ n.to \in Nat
    BY <2>1 DEF PlanningInv, DatesKnown
  <2>3. Overlaps(m, n)
    BY <2>2, CommonDay
  <2> QED
    BY <2>1, <2>3 DEF PlanningInv, MappingsApart
<1> QED
  BY <1>1, PlanningInvariant, PTL

-----------------------------------------------------------------------------
(* The books and their periods: what becomes of a request.                 *)

\* What f says stands, and what only g says is kept.
LEMMA Overlaid ==
  ASSUME NEW f, NEW g
  PROVE  /\ DOMAIN Over(f, g) = DOMAIN f \cup DOMAIN g
         /\ \A x \in DOMAIN f : Over(f, g)[x] = f[x]
         /\ \A x \in DOMAIN g : x \notin DOMAIN f => Over(f, g)[x] = g[x]
  BY DEF Over

\* A request turns into t, and a request that is past its dating is not dated again.
Turns(r, t) ==
  /\ request' = [request EXCEPT ![r] = t]
  /\ RequestKnown(r, t)
  /\ t.at \in Making => request[r].at \in Making
\* It turns into something that is known.
Turned(r) == \E t : Turns(r, t)

\* A request that turns leaves the others alone.
LEMMA TurnedKnown ==
  ASSUME RequestsKnown, NEW r \in Requests, Turned(r)
  PROVE  /\ RequestsKnown'
         /\ \A x \in Requests : request[x].at \notin Making => request'[x].at \notin Making
<1>1. PICK t : Turns(r, t)
  BY DEF Turned
<1>2. /\ DOMAIN request' = Requests
      /\ request'[r] = t
      /\ \A x \in Requests : x # r => request'[x] = request[x]
  BY <1>1 DEF Turns, RequestsKnown
<1>3. RequestKnown(r, t) /\ (t.at \in Making => request[r].at \in Making)
  BY <1>1 DEF Turns
<1>4. \A x \in Requests : RequestKnown(x, request'[x])
  BY <1>2, <1>3 DEF RequestsKnown
<1>5. RequestsKnown'
  BY <1>2, <1>4 DEF RequestsKnown, RequestKnown, Entry
<1> QED
  BY <1>2, <1>3, <1>5

\* The end of a request carries nothing.
LEMMA EndTurns ==
  ASSUME NEW r \in Requests, NEW p \in Proposals, NEW how, End(r, p, how),
         how \notin {"asked"} \cup Making
  PROVE  Turned(r)
<1> DEFINE t == [at |-> how, ask |-> p]
<1>1. /\ "at" \in DOMAIN t /\ "ask" \in DOMAIN t
      /\ t.at = how /\ t.ask = p
  OBVIOUS
<1>2. request' = [request EXCEPT ![r] = t]
  BY DEF End
<1> HIDE DEF t
<1>3. RequestKnown(r, t)
  BY <1>1 DEF RequestKnown, Making, Dating
<1>4. Turns(r, t)
  BY <1>1, <1>2, <1>3 DEF Turns
<1> QED
  BY <1>4 DEF Turned

\* A request that was made carries what it was given.
LEMMA Asking ==
  ASSUME NEW r, NEW p, NEW rest, Ask(r, p, rest),
         "at" \notin DOMAIN rest, "ask" \notin DOMAIN rest
  PROVE  \E t : /\ request' = [request EXCEPT ![r] = t]
                /\ "at" \in DOMAIN t /\ "ask" \in DOMAIN t
                /\ t.at = "asked" /\ t.ask = p
                /\ \A x \in DOMAIN rest : t[x] = rest[x]
<1> DEFINE f == [at |-> "asked", ask |-> p]
           t == Over(f, rest)
<1>1. DOMAIN f = {"at", "ask"} /\ f.at = "asked" /\ f.ask = p
  OBVIOUS
<1>2. request' = [request EXCEPT ![r] = t]
  BY DEF Ask
<1> HIDE DEF f
<1>3. /\ DOMAIN t = DOMAIN f \cup DOMAIN rest
      /\ \A x \in DOMAIN f : t[x] = f[x]
      /\ \A x \in DOMAIN rest : x \notin DOMAIN f => t[x] = rest[x]
  BY Overlaid
<1> HIDE DEF t
<1>4. /\ "at" \in DOMAIN t /\ "ask" \in DOMAIN t
      /\ t["at"] = f["at"] /\ t["ask"] = f["ask"]
      /\ \A x \in DOMAIN rest : t[x] = rest[x]
  BY <1>1, <1>3
<1> QED
  BY <1>1, <1>2, <1>4

\* A commit keeps what was asked for, and carries nothing that is still to be checked.
LEMMA CommitTurns ==
  ASSUME RequestsKnown, NEW r \in Requests, NEW rest, Commit(r, rest),
         request[r].at = "asked"
  PROVE  Turned(r)
<1> DEFINE c == [request[r] EXCEPT !.at = "committed"]
           t == Over(c, rest)
<1>1. "at" \in DOMAIN request[r] /\ "ask" \in DOMAIN request[r] /\ request[r].ask \in Proposals
  BY DEF RequestsKnown, RequestKnown
<1>2. DOMAIN c = DOMAIN request[r] /\ c["at"] = "committed" /\ c["ask"] = request[r]["ask"]
  BY <1>1
<1>3. request' = [request EXCEPT ![r] = t]
  BY DEF Commit, RequestsKnown
<1> HIDE DEF c
<1>4. /\ DOMAIN t = DOMAIN c \cup DOMAIN rest
      /\ \A x \in DOMAIN c : t[x] = c[x]
  BY Overlaid
<1> HIDE DEF t
<1>5. /\ "at" \in DOMAIN t /\ "ask" \in DOMAIN t
      /\ t["at"] = "committed" /\ t["ask"] = request[r]["ask"]
  BY <1>1, <1>2, <1>4
<1>6. RequestKnown(r, t)
  BY <1>1, <1>5 DEF RequestKnown, Making, Dating
<1>7. Turns(r, t)
  BY <1>3, <1>5, <1>6 DEF Turns, Making, Dating
<1> QED
  BY <1>7 DEF Turned

\* A capture whose period is known is drafted between accounts of the book, or the
\* user is asked (deterministicProposalArtifact).
LEMMA DraftedKnown ==
  ASSUME RequestsKnown, NEW r \in Requests, request[r].at \in Dating,
         NEW q, NEW d \in Drafted(r, q)
  PROVE  RequestKnown(r, d) /\ d.at \notin Making
<1>1. /\ request[r].ask \in Proposals /\ request[r].ask.kind = "capture"
      /\ request[r].from \subseteq Accounts /\ request[r].to \subseteq Accounts
  BY DEF RequestsKnown, RequestKnown, Dating
<1> DEFINE c == [at |-> "clarified", ask |-> request[r].ask]
           category == CHOOSE a \in request[r].to : TRUE
           payment == CHOOSE a \in request[r].from : TRUE
           e == [id |-> <<r, "ordinary">>, type |-> "ordinary",
                 debit |-> IF request[r].income THEN payment ELSE category,
                 credit |-> IF request[r].income THEN category ELSE payment,
                 currency |-> request[r].ask.currency, class |-> <<>>,
                 month |-> request[r].ask.month,
                 period |-> q.id, of |-> <<>>, batch |-> None]
           a == [at |-> "asked", ask |-> request[r].ask, entries |-> {e}]
<1>2. d = c \/ (d = a /\ request[r].from # {} /\ request[r].to # {})
  BY DEF Drafted
<1>3. CASE d = c
  <2>1. /\ "at" \in DOMAIN d /\ "ask" \in DOMAIN d
        /\ d.at = "clarified" /\ d.ask = request[r].ask
    BY <1>3
  <2> HIDE DEF c
  <2> QED
    BY <2>1, <1>1 DEF RequestKnown, Making, Dating
<1>4. CASE d = a /\ request[r].from # {} /\ request[r].to # {}
  <2>1. category \in Accounts /\ payment \in Accounts
    BY <1>1, <1>4
  <2> HIDE DEF category, payment
  <2>2. Entry(e) /\ e.id[1] = r /\ e.batch = None
    <3>1. e.debit \in Accounts /\ e.credit \in Accounts
      BY <2>1
    <3>2. DOMAIN e = {"id", "type", "debit", "credit", "currency", "class", "month",
                      "period", "of", "batch"}
      OBVIOUS
    <3>3. e.id[1] = r /\ e.batch = None
      OBVIOUS
    <3> HIDE DEF e
    <3> QED
      BY <3>1, <3>2, <3>3 DEF Entry
  <2> HIDE DEF e
  <2>3. /\ "at" \in DOMAIN d /\ "ask" \in DOMAIN d
        /\ d.at = "asked" /\ d.ask = request[r].ask /\ d.entries = {e}
    BY <1>4
  <2> HIDE DEF a
  <2> QED
    BY <2>2, <2>3, <1>1 DEF RequestKnown, Making, Dating
<1> QED
  BY <1>2, <1>3, <1>4

\* The first look at a capture finds accounts of the book or leaves them open.
LEMMA DatedTurns ==
  ASSUME NEW r \in Requests, NEW p \in Proposals, p.kind = "capture",
         request[r] = Unasked, NEW from, NEW to, from \subseteq Accounts, to \subseteq Accounts,
         Dated(r, p, from, to)
  PROVE  Turned(r)
<1> DEFINE t == [at |-> "dating", ask |-> p, from |-> from, to |-> to,
                 units |-> {accounts[a].currency : a \in from \cup to},
                 income |-> \E a \in to : accounts[a].class = "income"]
<1>1. request' = [request EXCEPT ![r] = t]
  BY DEF Dated
<1>2. /\ DOMAIN t = {"at", "ask", "from", "to", "units", "income"}
      /\ t.at = "dating" /\ t.ask = p /\ t.from = from /\ t.to = to
  OBVIOUS
<1> HIDE DEF t
<1>3. RequestKnown(r, t)
  BY <1>2 DEF RequestKnown, Dating
<1>4. request[r].at \in Making
  BY DEF Unasked, Making
<1> QED
  BY <1>1, <1>3, <1>4 DEF Turned, Turns

\* What is found by name or by identifier is an account of the book.
LEMMA FoundAccounts ==
  ASSUME NEW x, NEW classes
  PROVE  Named(x, classes) \subseteq Accounts /\ Scoped(x, classes) \subseteq Accounts
  BY DEF Named, Scoped, Only

\* A change of the chart names an account and the row that it is to have.
LEMMA ChartTurns ==
  ASSUME AccountsKnown, RequestsKnown, NEW r \in Requests, NEW p \in Proposals,
         p.kind \in ChartKinds, NEW target, NEW parent, target \subseteq Accounts,
         AskChart(r, p, target, parent)
  PROVE  Turned(r)
<1>1. DOMAIN RowOf(p, parent) = DOMAIN NoAccount
  BY DEF RowOf, NoAccount
<1>2. ASSUME NEW how \in {"unchanged", "failed"}, End(r, p, how)
      PROVE  Turned(r)
  BY <1>2, EndTurns DEF Making, Dating
<1>3. ASSUME NEW a \in Accounts, NEW row, DOMAIN row = DOMAIN NoAccount,
             Ask(r, p, [account |-> a, row |-> row])
      PROVE  Turned(r)
  <2> DEFINE rest == [account |-> a, row |-> row]
  <2>1. DOMAIN rest = {"account", "row"} /\ rest["account"] = a /\ rest["row"] = row
    OBVIOUS
  <2>2. Ask(r, p, rest)
    BY <1>3
  <2> HIDE DEF rest
  <2>3. PICK t : /\ request' = [request EXCEPT ![r] = t]
                 /\ "at" \in DOMAIN t /\ "ask" \in DOMAIN t
                 /\ t.at = "asked" /\ t.ask = p
                 /\ t["account"] = a /\ t["row"] = row
    BY <2>1, <2>2, Asking
  <2>4. RequestKnown(r, t)
    BY <2>3, <1>3 DEF RequestKnown, Dating, ChartKinds, JournalKinds
  <2>5. t.at \notin Making
    BY <2>3 DEF Making, Dating
  <2> QED
    BY <2>3, <2>4, <2>5 DEF Turned, Turns
<1>4. ASSUME NEW a, NEW old, p.kind \in {"map", "remap"},
             Ask(r, p, [account |-> a, old |-> old])
      PROVE  Turned(r)
  <2> DEFINE rest == [account |-> a, old |-> old]
  <2>1. DOMAIN rest = {"account", "old"}
    OBVIOUS
  <2>2. Ask(r, p, rest)
    BY <1>4
  <2> HIDE DEF rest
  <2>3. PICK t : /\ request' = [request EXCEPT ![r] = t]
                 /\ "at" \in DOMAIN t /\ "ask" \in DOMAIN t
                 /\ t.at = "asked" /\ t.ask = p
    BY <2>1, <2>2, Asking
  <2>4. RequestKnown(r, t)
    BY <2>3, <1>4 DEF RequestKnown, Dating, JournalKinds
  <2>5. t.at \notin Making
    BY <2>3 DEF Making, Dating
  <2> QED
    BY <2>3, <2>4, <2>5 DEF Turned, Turns
<1>5. r \in Accounts
  BY DEF Accounts
<1>6. ASSUME NEW a \in target
      PROVE  DOMAIN [accounts[a] EXCEPT !.state = "archived"] = DOMAIN NoAccount
  BY <1>6 DEF AccountsKnown
<1>7. CASE p.kind = "create" /\ IF Existing(p.name) # {} THEN End(r, p, "unchanged")
                                ELSE Ask(r, p, [account |-> r, row |-> RowOf(p, parent)])
  BY <1>7, <1>1, <1>2, <1>3, <1>5
<1>8. CASE End(r, p, "failed")
  BY <1>8, <1>2
<1>9. ASSUME NEW a \in target,
             \/ Ask(r, p, [account |-> a, row |-> RowOf(p, parent)])
             \/ Ask(r, p, [account |-> a, row |-> [accounts[a] EXCEPT !.state = "archived"]])
             \/ /\ p.kind \in {"map", "remap"}
                /\ \E old : Ask(r, p, [account |-> a, old |-> old])
      PROVE  Turned(r)
  <2>1. CASE Ask(r, p, [account |-> a, row |-> RowOf(p, parent)])
    BY <2>1, <1>1, <1>3
  <2>2. CASE Ask(r, p, [account |-> a, row |-> [accounts[a] EXCEPT !.state = "archived"]])
    <3> DEFINE row == [accounts[a] EXCEPT !.state = "archived"]
    <3>1. DOMAIN row = DOMAIN NoAccount
      BY <1>6
    <3>2. Ask(r, p, [account |-> a, row |-> row])
      BY <2>2
    <3> HIDE DEF row
    <3> QED
      BY <3>1, <3>2, <1>3
  <2>3. CASE /\ p.kind \in {"map", "remap"}
             /\ \E old : Ask(r, p, [account |-> a, old |-> old])
    BY <2>3, <1>4
  <2> QED
    BY <1>9, <2>1, <2>2, <2>3
<1> QED
  <2>1. \/ p.kind = "create" /\ IF Existing(p.name) # {} THEN End(r, p, "unchanged")
                                ELSE Ask(r, p, [account |-> r, row |-> RowOf(p, parent)])
        \/ End(r, p, "failed")
        \/ \E a \in target :
             \/ Ask(r, p, [account |-> a, row |-> RowOf(p, parent)])
             \/ Ask(r, p, [account |-> a, row |-> [accounts[a] EXCEPT !.state = "archived"]])
             \/ /\ p.kind \in {"map", "remap"}
                /\ \E old : Ask(r, p, [account |-> a, old |-> old])
    <3> HIDE DEF Existing, MappingOf, RowOf, Ask, End
    <3> QED
      BY Zenon DEF AskChart
  <2> QED
    BY <2>1, <1>7, <1>8, <1>9

\* A reversal or a replacement of a journal is an entry of the request that makes it.
LEMMA CorrectionEntry ==
  ASSUME NEW r, NEW j, Entry(j), NEW q, NEW a \in Accounts
  PROVE  /\ Entry(Reversal(r, j, q)) /\ Entry(Replacement(r, j, q, a))
         /\ Reversal(r, j, q).id[1] = r /\ Replacement(r, j, q, a).id[1] = r
         /\ Reversal(r, j, q).type = "reversal" /\ Replacement(r, j, q, a).type = "replacement"
<1> DEFINE v == Reversal(r, j, q)
           w == Replacement(r, j, q, a)
<1>1. /\ "id" \in DOMAIN j /\ "type" \in DOMAIN j /\ "debit" \in DOMAIN j
      /\ "credit" \in DOMAIN j /\ "month" \in DOMAIN j /\ "period" \in DOMAIN j
      /\ "of" \in DOMAIN j
  BY DEF Entry
<1>2. DOMAIN v = DOMAIN j /\ DOMAIN w = DOMAIN j
  BY DEF Reversal, Replacement
<1>3. /\ v.id = <<r, "reversal">> /\ v.type = "reversal"
      /\ v.debit = j.credit /\ v.credit = j.debit
  BY <1>1 DEF Reversal
<1>4. /\ w.id = <<r, "replacement">> /\ w.type = "replacement"
      /\ w.debit = a /\ w.credit = j.credit
  BY <1>1 DEF Replacement
<1> HIDE DEF v, w
<1>5. Entry(v) /\ Entry(w)
  BY <1>2, <1>3, <1>4 DEF Entry
<1> QED
  BY <1>3, <1>4, <1>5 DEF v, w

\* A request that carries entries of its own, none of them ordinary, or those of an
\* import, turns.
LEMMA EntriesTurn ==
  ASSUME NEW r \in Requests, NEW p \in Proposals,
         p.kind \in {"reverse", "replace", "reverse_replace", "import"},
         NEW E, Ask(r, p, [entries |-> E]),
         \A e \in E : /\ Entry(e) /\ e.id[1] = r
                      /\ \/ e.type # "ordinary"
                         \/ p.kind = "import" /\ e.batch = p.document
  PROVE  Turned(r)
<1> DEFINE rest == [entries |-> E]
<1>1. DOMAIN rest = {"entries"} /\ rest["entries"] = E
  OBVIOUS
<1>2. Ask(r, p, rest)
  OBVIOUS
<1> HIDE DEF rest
<1>3. PICK t : /\ request' = [request EXCEPT ![r] = t]
               /\ "at" \in DOMAIN t /\ "ask" \in DOMAIN t
               /\ t.at = "asked" /\ t.ask = p /\ t["entries"] = E
  BY <1>1, <1>2, Asking
<1>4. RequestKnown(r, t)
  BY <1>3 DEF RequestKnown, Dating
<1>5. t.at \notin Making
  BY <1>3 DEF Making, Dating
<1> QED
  BY <1>3, <1>4, <1>5 DEF Turned, Turns

\* The maker of a correction works from the journals that it is shown.
LEMMA ResolveJournalTurns ==
  ASSUME CloseInv, NEW r \in Requests, NEW p \in Proposals, ResolveJournal(r, p)
  PROVE  Turned(r)
<1>1. PICK j, q, a :
        /\ j \in journals /\ a \in Accounts
        /\ Ask(r, p, [entries |->
             (IF p.kind = "replace" THEN {} ELSE {Reversal(r, j, q)})
               \cup (IF p.kind = "reverse" THEN {} ELSE {Replacement(r, j, q, a)})])
  BY DEF ResolveJournal
<1>2. Entry(j)
  BY <1>1 DEF CloseInv, JournalsKnown
<1> DEFINE E == (IF p.kind = "replace" THEN {} ELSE {Reversal(r, j, q)})
                  \cup (IF p.kind = "reverse" THEN {} ELSE {Replacement(r, j, q, a)})
<1>3. \A e \in E : Entry(e) /\ e.id[1] = r /\ e.type # "ordinary"
  <2>1. \A e \in E : e = Reversal(r, j, q) \/ e = Replacement(r, j, q, a)
    OBVIOUS
  <2> HIDE DEF E
  <2> QED
    BY <1>1, <1>2, <2>1, CorrectionEntry
<1>4. Ask(r, p, [entries |-> E])
  BY <1>1
<1>5. p.kind \in {"reverse", "replace", "reverse_replace"}
  BY DEF ResolveJournal
<1> HIDE DEF E
<1> QED
  BY <1>3, <1>4, <1>5, EntriesTurn

\* The maker of an import drafts one entry for every row that is to be posted.
LEMMA ResolveImportTurns ==
  ASSUME NEW r \in Requests, NEW p \in Proposals, ResolveImport(r, p)
  PROVE  Turned(r)
<1>1. p.kind = "import"
  BY DEF ResolveImport
<1>2. CASE End(r, p, "failed")
  BY <1>2, EndTurns DEF Making, Dating
<1>3. CASE ~End(r, p, "failed")
  <2>1. PICK q, a, b :
          /\ a \in Accounts /\ b \in Accounts
          /\ Ask(r, p, [entries |-> ImportEntries(r, p, a, b, q)])
    BY <1>3 DEF ResolveImport
  <2>2. ASSUME NEW e \in ImportEntries(r, p, a, b, q)
        PROVE  Entry(e) /\ e.id[1] = r /\ e.batch = p.document
    <3>1. PICK f : /\ f \in DOMAIN p.decide
                   /\ e = [id |-> <<r, f>>, type |-> "ordinary", debit |-> b, credit |-> a,
                           currency |-> accounts[a].currency, class |-> <<>>,
                           month |-> p.month, period |-> q.id, of |-> <<>>, batch |-> p.document]
      BY <2>2 DEF ImportEntries
    <3>2. DOMAIN e = {"id", "type", "debit", "credit", "currency", "class", "month",
                      "period", "of", "batch"}
      BY <3>1
    <3>3. e.debit = b /\ e.credit = a /\ e.id = <<r, f>> /\ e.batch = p.document
      BY <3>1
    <3> QED
      BY <2>1, <3>1, <3>2, <3>3 DEF Entry
  <2> QED
    BY <1>1, <2>1, <2>2, EntriesTurn
<1> QED
  BY <1>2, <1>3

\* The latest event of a month is a request or nothing.
LEMMA LatestKnown ==
  ASSUME EventsKnown, NEW m \in Months
  PROVE  /\ Latest(m).id \in Requests \cup {None}
         /\ events[m] # <<>> => Latest(m) = events[m][Len(events[m])] /\ Len(events[m]) \in Nat \ {0}
         /\ Latest(m).type # None => events[m] # <<>>
<1>1. events[m] \in Seq(Event)
  BY DEF EventsKnown
<1>2. CASE events[m] = <<>>
  <2>1. Latest(m) = [type |-> None, id |-> None]
    BY <1>2 DEF Latest
  <2> QED
    BY <1>2, <2>1 DEF None
<1>3. CASE events[m] # <<>>
  <2>1. Len(events[m]) \in Nat \ {0} /\ events[m][Len(events[m])] \in Event
    BY <1>1, <1>3, EmptySeq, LenProperties, ElementOfSeq
  <2>2. Latest(m) = events[m][Len(events[m])]
    BY <1>3 DEF Latest
  <2> QED
    BY <1>3, <2>1, <2>2 DEF Event
<1> QED
  BY <1>2, <1>3

\* A close or a reopening that was made names the latest event that the maker saw.
LEMMA ResolveReconciliationTurns ==
  ASSUME CloseInv, NEW r \in Requests, NEW p \in Proposals, ResolveReconciliation(r, p)
  PROVE  Turned(r)
<1>1. p.kind \in {"reconcile", "close", "reopen"}
  BY DEF ResolveReconciliation
<1>2. CASE End(r, p, "failed")
  BY <1>2, EndTurns DEF Making, Dating
<1>3. CASE ~End(r, p, "failed")
  <2> DEFINE rest == [coverage |-> Coverage(p.month), prior |-> Latest(p.month).id]
  <2>1. Ask(r, p, rest)
    BY <1>3 DEF ResolveReconciliation
  <2>2. DOMAIN rest = {"coverage", "prior"} /\ rest["prior"] = Latest(p.month).id
    OBVIOUS
  <2> HIDE DEF rest
  <2>3. PICK t : /\ request' = [request EXCEPT ![r] = t]
                 /\ "at" \in DOMAIN t /\ "ask" \in DOMAIN t
                 /\ t.at = "asked" /\ t.ask = p /\ t["prior"] = Latest(p.month).id
    BY <2>1, <2>2, Asking
  <2>4. p.month \in Months
    BY <1>1 DEF Months
  <2>5. Latest(p.month).id \in Requests \cup {None}
    BY <2>4, LatestKnown DEF CloseInv
  <2>6. RequestKnown(r, t)
    BY <1>1, <2>3, <2>5 DEF RequestKnown, Dating, JournalKinds
  <2>7. t.at \notin Making
    BY <2>3 DEF Making, Dating
  <2> QED
    BY <2>3, <2>6, <2>7 DEF Turned, Turns
<1> QED
  BY <1>2, <1>3

\* An upload carries nothing.
LEMMA FindDocumentTurns ==
  ASSUME NEW r \in Requests, NEW p \in Proposals, FindDocument(r, p)
  PROVE  Turned(r)
<1>1. CASE End(r, p, "unchanged")
  BY <1>1, EndTurns DEF Making, Dating
<1>2. CASE Ask(r, p, <<>>)
  <2>1. DOMAIN <<>> = {}
    OBVIOUS
  <2>2. PICK t : /\ request' = [request EXCEPT ![r] = t]
                 /\ "at" \in DOMAIN t /\ "ask" \in DOMAIN t
                 /\ t.at = "asked" /\ t.ask = p
    BY <1>2, <2>1, Asking
  <2>3. p.kind = "upload"
    BY DEF FindDocument
  <2>4. RequestKnown(r, t)
    BY <2>2, <2>3 DEF RequestKnown, Dating, JournalKinds
  <2>5. t.at \notin Making
    BY <2>2 DEF Making, Dating
  <2> QED
    BY <2>2, <2>4, <2>5 DEF Turned, Turns
<1> QED
  BY <1>1, <1>2 DEF FindDocument

-----------------------------------------------------------------------------
(* The books and their periods: what a commit leaves.                      *)

\* A step that only moves a request keeps the invariant.
LEMMA QuietKeeps ==
  ASSUME CloseInv, NEW r \in Requests, Turned(r),
         UNCHANGED <<accounts, periods, drafts, journals, events>>
  PROVE  CloseInv'
<1>1. /\ RequestsKnown'
      /\ \A x \in Requests : request[x].at \notin Making => request'[x].at \notin Making
  BY TurnedKnown DEF CloseInv
<1>2. AccountsKnown' /\ PeriodsApart'
  BY DEF CloseInv, AccountsKnown, PeriodsApart
<1>3. JournalsKnown' /\ CorrectionsKnown' /\ PostingsFitAccounts'
  BY DEF CloseInv, JournalsKnown, CorrectionsKnown, PostingsFitAccounts, Entry
<1>4. PeriodsKnown'
  BY <1>1 DEF CloseInv, PeriodsKnown
<1>5. EventsKnown' /\ HistoryIsTrue'
  BY DEF CloseInv, EventsKnown, PeriodOf, HistoryIsTrue
<1> QED
  BY <1>1, <1>2, <1>3, <1>4, <1>5 DEF CloseInv

\* A period is inserted for a month that has none, under the name of a request that
\* has made none (resolveOrCreatePeriodIdForOccurredOn).
LEMMA CreatePeriodKeeps ==
  ASSUME CloseInv, NEW r \in Requests, CreatePeriod(r), UNCHANGED closeVars
  PROVE  CloseInv'
<1> DEFINE m == request[r].ask.month
           new == [id |-> r, month |-> m, state |-> "open"]
<1>1. /\ request[r].at = "opening" /\ periods' = Inserted(r, m)
      /\ UNCHANGED <<accounts, drafts, journals, events>>
  BY DEF CreatePeriod, closeVars
<1>2. m \in Months
  BY <1>1 DEF CloseInv, RequestsKnown, RequestKnown, Dating, Months, JournalKinds
<1>3. PICK q, d : d \in Drafted(r, q) /\ request' = [request EXCEPT ![r] = d]
  BY DEF CreatePeriod, Become
<1>4. RequestKnown(r, d) /\ d.at \notin Making
  BY <1>1, <1>3, DraftedKnown DEF CloseInv, Dating
<1>5. Turned(r)
  BY <1>3, <1>4 DEF Turned, Turns
<1>6. /\ RequestsKnown'
      /\ \A x \in Requests : request[x].at \notin Making => request'[x].at \notin Making
  BY <1>5, TurnedKnown DEF CloseInv
<1>7. request'[r].at \notin Making
  BY <1>3, <1>4 DEF CloseInv, RequestsKnown
<1>8. CASE PeriodOf(m) # {}
  BY <1>1, <1>5, <1>8, QuietKeeps DEF Inserted
<1>9. CASE PeriodOf(m) = {}
  <2>1. periods' = periods \cup {new}
    BY <1>1, <1>9 DEF Inserted
  <2>2. DOMAIN new = {"id", "month", "state"} /\ new.id = r /\ new.month = m /\ new.state = "open"
    OBVIOUS
  <2> HIDE DEF new, m
  <2>3. \A x \in periods : x.id # r /\ x.month # m
    BY <1>1, <1>9, BooksAssumption DEF CloseInv, PeriodsKnown, PeriodOf, Making, Dating
  <2>4. PeriodsApart'
    BY <2>1, <2>2, <2>3 DEF CloseInv, PeriodsApart
  <2>5. PeriodsKnown'
    BY <1>2, <1>6, <1>7, <2>1, <2>2 DEF CloseInv, PeriodsKnown
  <2>6. EventsKnown'
    BY <1>1, <2>1 DEF CloseInv, EventsKnown, PeriodOf
  <2>7. events[m] = <<>>
    BY <1>2, <1>9 DEF CloseInv, EventsKnown
  <2>8. HistoryIsTrue'
    <3> SUFFICES ASSUME NEW x \in periods'
                 PROVE  /\ \A i \in DOMAIN events[x.month] :
                             /\ events[x.month][i].type = IF i % 2 = 1 THEN "closed" ELSE "reopened"
                             /\ i > 1 => \/ events[x.month][i].prior = events[x.month][i - 1].id
                                         \/ events[x.month][i].type = "closed"
                        /\ (x.state = "closed") <=> (Len(events[x.month]) % 2 = 1)
      BY <1>1 DEF HistoryIsTrue
    <3>1. CASE x \in periods
      BY <3>1 DEF CloseInv, HistoryIsTrue
    <3>2. CASE x = new
      <4>1. events[x.month] = <<>> /\ x.state = "open"
        BY <2>2, <2>7, <3>2
      <4>2. DOMAIN events[x.month] = {} /\ Len(events[x.month]) = 0
        BY <4>1
      <4> QED
        BY <4>1, <4>2
    <3> QED
      BY <2>1, <3>1, <3>2
  <2>9. AccountsKnown' /\ JournalsKnown' /\ CorrectionsKnown' /\ PostingsFitAccounts'
    BY <1>1 DEF CloseInv, AccountsKnown, JournalsKnown, CorrectionsKnown, PostingsFitAccounts, Entry
  <2> QED
    BY <1>6, <2>4, <2>5, <2>6, <2>8, <2>9 DEF CloseInv
<1> QED
  BY <1>8, <1>9

\* A journal is its entry with the classes of its accounts.
LEMMA StampedEntry ==
  ASSUME NEW e, Entry(e)
  PROVE  /\ Entry(Stamped(e))
         /\ Stamped(e).class = <<accounts[e.debit].class, accounts[e.credit].class>>
         /\ \A x \in {"id", "type", "debit", "credit", "currency", "month", "period", "of", "batch"} :
              Stamped(e)[x] = e[x]
<1> DEFINE s == Stamped(e)
<1>1. DOMAIN s = DOMAIN e
  BY DEF Stamped
<1>2. "class" \in DOMAIN e
  BY DEF Entry
<1>3. s["class"] = <<accounts[e.debit].class, accounts[e.credit].class>>
  BY <1>2 DEF Stamped
<1>4. \A x \in DOMAIN e : x # "class" => s[x] = e[x]
  BY DEF Stamped
<1> HIDE DEF s
<1>5. \A x \in {"id", "type", "debit", "credit", "currency", "month", "period", "of", "batch"} :
        s[x] = e[x]
  BY <1>4 DEF Entry
<1>6. Entry(s)
  BY <1>1, <1>5 DEF Entry
<1> QED
  BY <1>3, <1>5, <1>6 DEF s

\* The one entry of a draft becomes a journal (postInTransaction).
LEMMA PostedKeeps ==
  ASSUME CloseInv, NEW r \in Requests, Turned(r), r \notin drafts,
         NEW e, Entry(e), e.id[1] = r, Postable(e),
         journals' = journals \cup {Stamped(e)}, drafts' = drafts \cup {r},
         UNCHANGED <<accounts, periods, events>>
  PROVE  CloseInv'
<1> DEFINE s == Stamped(e)
<1>1. /\ Entry(s) /\ s.id = e.id /\ s.type = e.type /\ s.debit = e.debit /\ s.credit = e.credit
      /\ s.currency = e.currency /\ s.of = e.of
      /\ s.class = <<accounts[e.debit].class, accounts[e.credit].class>>
  <2>1. /\ s["id"] = e["id"] /\ s["type"] = e["type"] /\ s["debit"] = e["debit"]
        /\ s["credit"] = e["credit"] /\ s["currency"] = e["currency"] /\ s["of"] = e["of"]
    BY StampedEntry
  <2>2. Entry(s) /\ s.class = <<accounts[e.debit].class, accounts[e.credit].class>>
    BY StampedEntry
  <2> QED
    BY <2>1, <2>2
<1>2. journals' = journals \cup {s}
  OBVIOUS
<1> HIDE DEF s
<1>3. /\ RequestsKnown'
      /\ \A x \in Requests : request[x].at \notin Making => request'[x].at \notin Making
  BY TurnedKnown DEF CloseInv
<1>4. \A j \in journals : Entry(j) /\ j.id[1] \in drafts /\ j.id[1] # s.id[1] /\ j.id # s.id
  BY <1>1 DEF CloseInv, JournalsKnown
<1>5. JournalsKnown'
  <2>1. Entry(s) /\ s.id[1] = r
    BY <1>1
  <2>2. \A j \in journals \cup {s} :
          /\ Entry(j) /\ j.id[1] \in drafts \cup {r}
          /\ \A k \in journals \cup {s} : j.id[1] = k.id[1] => j = k
    BY <1>4, <2>1 DEF CloseInv, JournalsKnown
  <2> QED
    BY <1>2, <2>2 DEF JournalsKnown, Entry
<1>6. CorrectionsKnown'
  <2>1. e.type # "ordinary" => \A j \in journals : ~(j.of = e.of /\ j.type = e.type)
    BY DEF Postable, FirstOfItsType
  <2>2. e.type = "reversal" =>
          \E j \in journals : j.id = e.of /\ j.debit = e.credit /\ j.credit = e.debit
    BY DEF Postable, ExactOpposite
  <2>3. \A j \in journals \cup {s}, k \in journals \cup {s} :
          j.type # "ordinary" /\ j.type = k.type /\ j.of = k.of => j = k
    BY <1>1, <2>1 DEF CloseInv, CorrectionsKnown
  <2>4. \A j \in journals \cup {s} : j.type = "reversal" =>
          \E k \in journals : k.id = j.of /\ k.debit = j.credit /\ k.credit = j.debit
    BY <1>1, <2>2 DEF CloseInv, CorrectionsKnown
  <2> QED
    BY <1>2, <2>3, <2>4 DEF CorrectionsKnown
<1>7. PostingsFitAccounts'
  <2>1. accounts[s.debit].currency = s.currency /\ accounts[s.credit].currency = s.currency
    BY <1>1 DEF Postable, CurrencyFits
  <2> QED
    BY <1>1, <1>2, <2>1 DEF CloseInv, PostingsFitAccounts
<1>8. AccountsKnown' /\ PeriodsApart' /\ EventsKnown' /\ HistoryIsTrue'
  BY DEF CloseInv, AccountsKnown, PeriodsApart, EventsKnown, PeriodOf, HistoryIsTrue
<1>9. PeriodsKnown'
  BY <1>3 DEF CloseInv, PeriodsKnown
<1> QED
  BY <1>3, <1>5, <1>6, <1>7, <1>8, <1>9 DEF CloseInv

\* A change of the chart keeps what the postings of an account rely on
\* (guard_account_history).
LEMMA ChangeChartKeeps ==
  ASSUME CloseInv, NEW r \in Requests, ChangeChart(r), UNCHANGED closeVars
  PROVE  CloseInv'
<1> DEFINE a == request[r].account
           row == IF request[r].ask.kind = "archive"
                  THEN [accounts[a] EXCEPT !.state = "archived"] ELSE request[r].row
<1>1. /\ request[r].at = "asked" /\ request[r].ask.kind \in {"create", "update", "archive"}
      /\ KeepsIdentity(a, request[r].row)
      /\ UNCHANGED <<periods, drafts, journals, events>>
      /\ Commit(r, <<>>)
  BY DEF ChangeChart, Asked, ChartFits, closeVars
<1>2. accounts' = [accounts EXCEPT ![a] = row]
  BY DEF ChangeChart, CloseInv, AccountsKnown
<1>3. a \in Accounts /\ DOMAIN request[r].row = DOMAIN NoAccount
  BY <1>1 DEF CloseInv, RequestsKnown, RequestKnown
<1>4. {"state", "class", "currency"} \subseteq DOMAIN accounts[a]
      /\ DOMAIN accounts[a] = DOMAIN NoAccount
  BY <1>3 DEF CloseInv, AccountsKnown, NoAccount
<1>5. /\ DOMAIN row = DOMAIN NoAccount
      /\ Posted(a) => row.class = accounts[a].class /\ row.currency = accounts[a].currency
  <2>1. CASE request[r].ask.kind = "archive"
    <3> DEFINE archived == [accounts[a] EXCEPT !.state = "archived"]
    <3>1. /\ DOMAIN archived = DOMAIN accounts[a]
          /\ archived["class"] = accounts[a]["class"]
          /\ archived["currency"] = accounts[a]["currency"]
      BY <1>4
    <3>2. row = archived
      BY <2>1
    <3> HIDE DEF archived, row
    <3> QED
      BY <1>4, <3>1, <3>2
  <2>2. CASE request[r].ask.kind # "archive"
    <3>1. row = request[r].row
      BY <2>2
    <3> HIDE DEF row
    <3> QED
      BY <1>1, <1>3, <3>1 DEF KeepsIdentity
  <2> QED
    BY <2>1, <2>2
<1>6. Turned(r)
  BY <1>1, CommitTurns DEF CloseInv
<1>7. /\ RequestsKnown'
      /\ \A x \in Requests : request[x].at \notin Making => request'[x].at \notin Making
  BY <1>6, TurnedKnown DEF CloseInv
<1> HIDE DEF row
<1>8. /\ DOMAIN accounts' = Accounts
      /\ \A x \in Accounts : accounts'[x] = IF x = a THEN row ELSE accounts[x]
  BY <1>2, <1>3 DEF CloseInv, AccountsKnown
<1> HIDE DEF a
<1>9. AccountsKnown'
  BY <1>5, <1>8 DEF CloseInv, AccountsKnown
<1>10. PostingsFitAccounts'
  <2> SUFFICES ASSUME NEW j \in journals
               PROVE  /\ accounts'[j.debit].currency = j.currency
                      /\ accounts'[j.credit].currency = j.currency
                      /\ j.class = <<accounts'[j.debit].class, accounts'[j.credit].class>>
    BY <1>1 DEF PostingsFitAccounts
  <2>1. j.debit \in Accounts /\ j.credit \in Accounts
    BY DEF CloseInv, JournalsKnown, Entry
  <2>2. /\ accounts[j.debit].currency = j.currency
        /\ accounts[j.credit].currency = j.currency
        /\ j.class = <<accounts[j.debit].class, accounts[j.credit].class>>
    BY DEF CloseInv, PostingsFitAccounts
  <2>3. \A x \in {j.debit, j.credit} :
          accounts'[x].currency = accounts[x].currency /\ accounts'[x].class = accounts[x].class
    <3> TAKE x \in {j.debit, j.credit}
    <3>1. x \in Accounts
      BY <2>1
    <3>2. CASE x = a
      BY <1>5, <1>8, <3>1, <3>2 DEF Posted
    <3>3. CASE x # a
      BY <1>8, <3>1, <3>3
    <3> QED
      BY <3>2, <3>3
  <2> QED
    BY <2>2, <2>3
<1>11. JournalsKnown' /\ CorrectionsKnown' /\ PeriodsApart' /\ EventsKnown' /\ HistoryIsTrue'
  BY <1>1, ZenonT(30) DEF CloseInv, JournalsKnown, Entry, CorrectionsKnown, PeriodsApart, EventsKnown,
              PeriodOf, HistoryIsTrue
<1>12. PeriodsKnown'
  BY <1>1, <1>7 DEF CloseInv, PeriodsKnown
<1> QED
  BY <1>7, <1>9, <1>10, <1>11, <1>12 DEF CloseInv

\* The parity of a length and of the next one.
LEMMA NextParity ==
  ASSUME NEW n \in Nat
  PROVE  /\ n % 2 = 1 => (n + 1) % 2 # 1
         /\ n % 2 # 1 => (n + 1) % 2 = 1
  OBVIOUS

\* The history of a month tells the parity of its length.
LEMMA LatestParity ==
  ASSUME CloseInv, NEW q \in periods, events[q.month] # <<>>
  PROVE  /\ Len(events[q.month]) \in Nat \ {0}
         /\ Latest(q.month).type = IF Len(events[q.month]) % 2 = 1 THEN "closed" ELSE "reopened"
         /\ Latest(q.month) = events[q.month][Len(events[q.month])]
<1>1. q.month \in Months
  BY DEF CloseInv, PeriodsKnown
<1>2. /\ Len(events[q.month]) \in Nat \ {0}
      /\ Latest(q.month) = events[q.month][Len(events[q.month])]
  BY <1>1, LatestKnown DEF CloseInv
<1>3. events[q.month] \in Seq(Event)
  BY <1>1 DEF CloseInv, EventsKnown
<1>4. Len(events[q.month]) \in DOMAIN events[q.month]
  BY <1>2, <1>3, LenProperties
<1> QED
  BY <1>2, <1>4 DEF CloseInv, HistoryIsTrue

\* A close or a reopening of a period whose history allows it: the event and the state
\* go together (insertPeriodEvent, setPeriodStatus).
LEMMA TurnKeeps ==
  ASSUME CloseInv, NEW r \in Requests, request[r].at = "asked",
         request[r].ask.kind \in {"close", "reopen"},
         NEW q0 \in periods, q0.month = request[r].ask.month,
         NEW type, NEW state, Turn(r, type, state),
         \/ type = "closed" /\ state = "closed" /\ q0.state = "open"
         \/ /\ type = "reopened" /\ state = "open"
            /\ Latest(q0.month).type = "closed" /\ Latest(q0.month).id = request[r].prior
  PROVE  CloseInv'
<1> DEFINE m == request[r].ask.month
           s == events[m]
           ev == [id |-> r, type |-> type, prior |-> request[r].prior]
<1>1. /\ periods' = {[q EXCEPT !.state = IF q.month = m THEN state ELSE @] : q \in periods}
      /\ events' = [events EXCEPT ![m] = Append(s, ev)]
      /\ UNCHANGED <<accounts, drafts, journals>>
      /\ Commit(r, <<>>)
  <2>1. m \in DOMAIN events
    BY DEF CloseInv, EventsKnown, PeriodsKnown
  <2> QED
    BY <2>1 DEF Turn
<1>2. m \in Months /\ events \in [Months -> Seq(Event)] /\ s \in Seq(Event)
  BY DEF CloseInv, EventsKnown, PeriodsKnown
<1>3. ev \in Event /\ ev.id = r /\ ev.type = type /\ ev.prior = request[r].prior
  BY DEF CloseInv, RequestsKnown, RequestKnown, Event
<1>4. Turned(r)
  BY <1>1, CommitTurns DEF CloseInv
<1>5. /\ RequestsKnown'
      /\ \A x \in Requests : request[x].at \notin Making => request'[x].at \notin Making
  BY <1>4, TurnedKnown DEF CloseInv
<1>6. /\ Len(s) \in Nat
      /\ (q0.state = "closed") <=> (Len(s) % 2 = 1)
      /\ DOMAIN s = 1 .. Len(s)
  BY <1>2, LenProperties DEF CloseInv, HistoryIsTrue
<1> DEFINE n == Len(s) + 1
<1>7. n \in Nat /\ Len(s) = n - 1 /\ (n > 1 => s # <<>>)
  BY <1>6
<1>8. /\ type \in {"closed", "reopened"}
      /\ type = "closed" <=> n % 2 = 1
      /\ state = "closed" <=> n % 2 = 1
      /\ n > 1 /\ type = "reopened" => ev.prior = s[Len(s)].id
  <2>1. Len(s) % 2 = 1 => n % 2 # 1
    BY <1>6, NextParity
  <2>2. Len(s) % 2 # 1 => n % 2 = 1
    BY <1>6, NextParity
  <2>4. CASE type = "closed" /\ state = "closed" /\ q0.state = "open"
    <3>1. n % 2 = 1
      BY <1>6, <2>2, <2>4
    <3> HIDE DEF n
    <3> QED
      BY <2>4, <3>1
  <2>5. CASE /\ type = "reopened" /\ state = "open"
             /\ Latest(q0.month).type = "closed" /\ Latest(q0.month).id = request[r].prior
    <3>1. s # <<>>
      BY <1>2, <2>5, LatestKnown DEF CloseInv, None
    <3>2. Latest(m) = s[Len(s)] /\ Len(s) % 2 = 1
      BY <2>5, <3>1, LatestParity
    <3>3. n % 2 # 1
      BY <2>1, <3>2
    <3>4. ev.prior = s[Len(s)].id
      BY <1>3, <2>5, <3>2
    <3> HIDE DEF ev, s, n
    <3> QED
      BY <2>5, <3>3, <3>4
  <2> QED
    BY <2>4, <2>5
<1>9. /\ events' \in [Months -> Seq(Event)]
      /\ events'[m] = Append(s, ev)
      /\ \A x \in Months : x # m => events'[x] = events[x]
      /\ DOMAIN Append(s, ev) = 1 .. n /\ Len(Append(s, ev)) = n
      /\ Append(s, ev)[n] = ev
      /\ \A i \in 1 .. Len(s) : Append(s, ev)[i] = s[i]
  <2>1. Append(s, ev) \in Seq(Event) /\ Len(Append(s, ev)) = Len(s) + 1
        /\ Append(s, ev)[Len(s) + 1] = ev
        /\ \A i \in 1 .. Len(s) : Append(s, ev)[i] = s[i]
    BY <1>2, <1>3, AppendProperties, SMTT(30)
  <2>2. DOMAIN Append(s, ev) = 1 .. Len(s) + 1
    BY <2>1, LenProperties
  <2> QED
    BY <1>1, <1>2, <2>1, <2>2
<1>10. \A q \in periods : LET x == [q EXCEPT !.state = IF q.month = m THEN state ELSE @] IN
        /\ x \in periods' /\ DOMAIN x = {"id", "month", "state"} /\ x.id = q.id /\ x.month = q.month
        /\ x.state = IF q.month = m THEN state ELSE q.state
  <2> TAKE q \in periods
  <2> DEFINE v == IF q.month = m THEN state ELSE q.state
             x == [q EXCEPT !.state = v]
  <2>1. DOMAIN q = {"id", "month", "state"}
    BY DEF CloseInv, PeriodsApart
  <2> HIDE DEF v
  <2>2. DOMAIN x = DOMAIN q /\ x["id"] = q["id"] /\ x["month"] = q["month"] /\ x["state"] = v
    BY <2>1
  <2>3. x \in periods'
    BY <1>1 DEF v
  <2> QED
    BY <2>1, <2>2, <2>3 DEF v
<1>11. \A x \in periods' : \E q \in periods :
         /\ x = [q EXCEPT !.state = IF q.month = m THEN state ELSE @]
  BY <1>1
<1>12. \A x \in periods' : \E q \in periods :
         /\ x = [q EXCEPT !.state = IF q.month = m THEN state ELSE @]
         /\ DOMAIN x = {"id", "month", "state"} /\ x.id = q.id /\ x.month = q.month
         /\ x.state = IF q.month = m THEN state ELSE q.state
  BY <1>10, <1>11
<1>13. PeriodsApart'
  <2> SUFFICES ASSUME NEW x \in periods'
               PROVE  /\ DOMAIN x = {"id", "month", "state"} /\ x.state \in {"open", "closed"}
                      /\ \A y \in periods' : x.id = y.id \/ x.month = y.month => x = y
    BY DEF PeriodsApart
  <2>1. PICK q : /\ q \in periods
                 /\ x = [q EXCEPT !.state = IF q.month = m THEN state ELSE @]
                 /\ DOMAIN x = {"id", "month", "state"} /\ x.id = q.id /\ x.month = q.month
                 /\ x.state = IF q.month = m THEN state ELSE q.state
    BY <1>12
  <2>2. x.state \in {"open", "closed"}
    BY <2>1 DEF CloseInv, PeriodsApart
  <2>3. ASSUME NEW y \in periods', x.id = y.id \/ x.month = y.month
        PROVE  x = y
    <3>1. PICK p : /\ p \in periods
                   /\ y = [p EXCEPT !.state = IF p.month = m THEN state ELSE @]
                   /\ y.id = p.id /\ y.month = p.month
      BY <1>12
    <3>2. q = p
      BY <2>1, <2>3, <3>1 DEF CloseInv, PeriodsApart
    <3> QED
      BY <2>1, <3>1, <3>2
  <2> QED
    BY <2>1, <2>2, <2>3
<1> HIDE DEF m, s, ev, n
<1>14. PeriodsKnown'
  <2> SUFFICES ASSUME NEW x \in periods'
               PROVE  /\ x.month \in Months
                      /\ x.id \in Opened \/ (x.id \in Requests /\ request'[x.id].at \notin Making)
    BY DEF PeriodsKnown
  <2>1. PICK q \in periods : x.id = q.id /\ x.month = q.month
    BY <1>12
  <2> QED
    BY <1>5, <2>1 DEF CloseInv, PeriodsKnown
<1>15. EventsKnown'
  <2>1. \A x \in Months : PeriodOf(x) # {} => PeriodOf(x)' # {}
    BY <1>10, Zenon DEF PeriodOf
  <2>2. PeriodOf(m) # {}
    BY DEF PeriodOf, m
  <2>3. \A x \in Months : events'[x] # <<>> => PeriodOf(x)' # {}
    BY <1>9, <2>1, <2>2, <1>2 DEF CloseInv, EventsKnown
  <2> QED
    BY <1>9, <2>3 DEF EventsKnown, PeriodOf
<1>16. HistoryIsTrue'
  <2> SUFFICES ASSUME NEW x \in periods'
               PROVE  /\ \A i \in DOMAIN events'[x.month] :
                           /\ events'[x.month][i].type = IF i % 2 = 1 THEN "closed" ELSE "reopened"
                           /\ i > 1 => \/ events'[x.month][i].prior = events'[x.month][i - 1].id
                                       \/ events'[x.month][i].type = "closed"
                      /\ (x.state = "closed") <=> (Len(events'[x.month]) % 2 = 1)
    BY DEF HistoryIsTrue
  <2>1. PICK q \in periods : /\ x.month = q.month
                             /\ x.state = IF q.month = m THEN state ELSE q.state
    BY <1>12
  <2>2. /\ \A i \in DOMAIN events[q.month] :
             /\ events[q.month][i].type = IF i % 2 = 1 THEN "closed" ELSE "reopened"
             /\ i > 1 => \/ events[q.month][i].prior = events[q.month][i - 1].id
                         \/ events[q.month][i].type = "closed"
        /\ (q.state = "closed") <=> (Len(events[q.month]) % 2 = 1)
    BY DEF CloseInv, HistoryIsTrue
  <2>3. CASE q.month # m
    <3>1. q.month \in Months
      BY DEF CloseInv, PeriodsKnown
    <3>2. events'[q.month] = events[q.month]
      BY <1>9, <2>3, <3>1
    <3> QED
      BY <2>1, <2>2, <2>3, <3>2
  <2>4. CASE q.month = m
    <3>1. x.state = state /\ events'[x.month] = Append(s, ev)
      BY <1>9, <2>1, <2>4
    <3>2. ASSUME NEW i \in 1 .. n
          PROVE  /\ Append(s, ev)[i].type = IF i % 2 = 1 THEN "closed" ELSE "reopened"
                 /\ i > 1 => \/ Append(s, ev)[i].prior = Append(s, ev)[i - 1].id
                             \/ Append(s, ev)[i].type = "closed"
      <4>1. CASE i \in 1 .. Len(s)
        <5>1. i > 1 => i - 1 \in 1 .. Len(s)
          BY <4>1, <1>6
        <5>2. /\ s[i].type = IF i % 2 = 1 THEN "closed" ELSE "reopened"
              /\ i > 1 => s[i].prior = s[i - 1].id \/ s[i].type = "closed"
          BY <4>1, <1>6, <2>2, <2>4 DEF s
        <5>3. Append(s, ev)[i] = s[i] /\ (i > 1 => Append(s, ev)[i - 1] = s[i - 1])
          BY <1>9, <4>1, <5>1
        <5> QED
          BY <5>2, <5>3
      <4>2. CASE i = n
        <5>1. Append(s, ev)[n] = ev /\ ev.type = type
          BY <1>3, <1>9
        <5>2. n > 1 => Append(s, ev)[n - 1] = s[Len(s)]
          <6>1. n > 1 => n - 1 \in 1 .. Len(s) /\ n - 1 = Len(s)
            BY <1>6, <1>7
          <6> QED
            BY <1>9, <6>1
        <5>3. type = IF n % 2 = 1 THEN "closed" ELSE "reopened"
          BY <1>8
        <5>4. n > 1 => ev.prior = s[Len(s)].id \/ type = "closed"
          BY <1>8
        <5>5. /\ Append(s, ev)[n].type = IF n % 2 = 1 THEN "closed" ELSE "reopened"
              /\ n > 1 => \/ Append(s, ev)[n].prior = Append(s, ev)[n - 1].id
                          \/ Append(s, ev)[n].type = "closed"
          BY <5>1, <5>2, <5>3, <5>4
        <5> QED
          BY <4>2, <5>5
      <4> QED
        BY <1>6, <1>7, <4>1, <4>2
    <3>3. (state = "closed") <=> (Len(Append(s, ev)) % 2 = 1)
      BY <1>8, <1>9
    <3>4. \A i \in DOMAIN Append(s, ev) :
            /\ Append(s, ev)[i].type = IF i % 2 = 1 THEN "closed" ELSE "reopened"
            /\ i > 1 => \/ Append(s, ev)[i].prior = Append(s, ev)[i - 1].id
                        \/ Append(s, ev)[i].type = "closed"
      BY <1>9, <3>2
    <3> QED
      BY <3>1, <3>3, <3>4
  <2> QED
    BY <2>3, <2>4
<1>17. AccountsKnown' /\ JournalsKnown' /\ CorrectionsKnown' /\ PostingsFitAccounts'
  BY <1>1 DEF CloseInv, AccountsKnown, JournalsKnown, Entry, CorrectionsKnown, PostingsFitAccounts
<1> QED
  BY <1>5, <1>13, <1>14, <1>15, <1>16, <1>17 DEF CloseInv

\* What a step of the books does to the invariant: one case for every operation.
LEMMA BooksStepKeeps ==
  ASSUME CloseInv, NEW r \in Requests, BooksStep(r), UNCHANGED closeVars
  PROVE  CloseInv'
<1>1. UNCHANGED events
  BY DEF closeVars
<1>2. ASSUME NEW p \in Proposals, CaptureDraft(r, p)
      PROVE  CloseInv'
  <2>1. Turned(r)
    BY <1>2, DatedTurns, FoundAccounts DEF CaptureDraft
  <2> QED
    BY <1>1, <1>2, <2>1, QuietKeeps DEF CaptureDraft
<1>3. ASSUME NEW p \in Proposals, CaptureRequest(r, p)
      PROVE  CloseInv'
  <2>1. \/ End(r, p, "failed")
        \/ Dated(r, p, Scoped(p.from, PaymentClasses), Scoped(p.to, CategoryClasses))
    BY <1>3 DEF CaptureRequest
  <2>2. p.kind = "capture" /\ request[r] = Unasked
    BY <1>3 DEF CaptureRequest
  <2>3. Turned(r)
    BY <2>1, <2>2, DatedTurns, FoundAccounts, EndTurns DEF Making, Dating
  <2> QED
    BY <1>1, <1>3, <2>3, QuietKeeps DEF CaptureRequest
<1>4. ASSUME NEW p \in Proposals, ResolveJournal(r, p)
      PROVE  CloseInv'
  BY <1>1, <1>4, ResolveJournalTurns, QuietKeeps DEF ResolveJournal
<1>5. ASSUME NEW p \in Proposals, ChartDraft(r, p)
      PROVE  CloseInv'
  <2>1. Turned(r)
    BY <1>5, ChartTurns, FoundAccounts DEF ChartDraft, CloseInv
  <2> QED
    BY <1>1, <1>5, <2>1, QuietKeeps DEF ChartDraft
<1>6. ASSUME NEW p \in Proposals, ChartRequest(r, p)
      PROVE  CloseInv'
  <2>1. \/ End(r, p, "failed")
        \/ AskChart(r, p, Scoped(p.target, Classes), Scoped(p.parent, Classes))
    BY <1>6 DEF ChartRequest
  <2>2. p.kind \in ChartKinds
    BY <1>6 DEF ChartRequest
  <2>3. Turned(r)
    BY <2>1, <2>2, ChartTurns, FoundAccounts, EndTurns DEF CloseInv, Making, Dating
  <2> QED
    BY <1>1, <1>6, <2>3, QuietKeeps DEF ChartRequest
<1>7. ASSUME FindPeriod(r)
      PROVE  CloseInv'
  <2>1. request[r].at \in Dating /\ UNCHANGED <<accounts, periods, drafts, journals>>
    BY <1>7 DEF FindPeriod, Dating
  <2>2. CASE request' = [request EXCEPT ![r].at = "opening"]
    <3> DEFINE t == [request[r] EXCEPT !.at = "opening"]
    <3>1. request' = [request EXCEPT ![r] = t]
      BY <2>2 DEF CloseInv, RequestsKnown
    <3>2. /\ "at" \in DOMAIN request[r] /\ "ask" \in DOMAIN request[r]
          /\ {"from", "to"} \subseteq DOMAIN request[r]
          /\ request[r].ask \in Proposals /\ request[r].ask.kind = "capture"
          /\ request[r].from \subseteq Accounts /\ request[r].to \subseteq Accounts
      BY <2>1 DEF CloseInv, RequestsKnown, RequestKnown, Dating
    <3>3. /\ DOMAIN t = DOMAIN request[r] /\ t["at"] = "opening"
          /\ t["ask"] = request[r]["ask"] /\ t["from"] = request[r]["from"]
          /\ t["to"] = request[r]["to"]
      BY <3>2
    <3> HIDE DEF t
    <3>4. RequestKnown(r, t)
      BY <3>2, <3>3 DEF RequestKnown, Dating
    <3>5. Turned(r)
      BY <2>1, <3>1, <3>4 DEF Turned, Turns, Making
    <3> QED
      BY <1>1, <2>1, <3>5, QuietKeeps
  <2>3. CASE \E q \in PeriodOf(request[r].ask.month) : Become(r, Drafted(r, q))
    <3>1. PICK q, d : d \in Drafted(r, q) /\ request' = [request EXCEPT ![r] = d]
      BY <2>3 DEF Become
    <3>2. RequestKnown(r, d) /\ d.at \notin Making
      BY <2>1, <3>1, DraftedKnown DEF CloseInv
    <3>3. Turned(r)
      BY <3>1, <3>2 DEF Turned, Turns
    <3> QED
      BY <1>1, <2>1, <3>3, QuietKeeps
  <2> QED
    BY <1>7, <2>2, <2>3 DEF FindPeriod, Only
<1>8. ASSUME CreatePeriod(r)
      PROVE  CloseInv'
  BY <1>8, CreatePeriodKeeps
<1>9. ASSUME PostJournal(r)
      PROVE  CloseInv'
  <2>1. PICK e : e \in request[r].entries /\ request[r].entries = {e}
    BY <1>9 DEF PostJournal, JournalFits, DraftsFit
  <2>2. Entry(e) /\ e.id[1] = r
    BY <1>9, <2>1 DEF PostJournal, Asked, CloseInv, RequestsKnown, RequestKnown
  <2>3. Postable(e) /\ r \notin drafts
    BY <1>9, <2>1 DEF PostJournal, JournalFits, DraftsFit
  <2>4. journals' = journals \cup {Stamped(e)}
    BY <1>9, <2>1 DEF PostJournal
  <2>5. Turned(r)
    BY <1>9, CommitTurns DEF PostJournal, Asked, CloseInv
  <2>6. drafts' = drafts \cup {r} /\ UNCHANGED <<accounts, periods>>
    BY <1>9 DEF PostJournal
  <2> QED
    BY <1>1, <2>2, <2>3, <2>4, <2>5, <2>6, PostedKeeps
<1>10. ASSUME ChangeChart(r)
       PROVE  CloseInv'
  BY <1>10, ChangeChartKeeps
<1>11. ASSUME ChangeMapping(r)
       PROVE  CloseInv'
  <2>1. Turned(r)
    BY <1>11, CommitTurns DEF ChangeMapping, Asked, CloseInv
  <2> QED
    BY <1>1, <1>11, <2>1, QuietKeeps DEF ChangeMapping
<1>12. ASSUME NEW how \in {"refused", "verified", "mismatch"}, End(r, request[r].ask, how),
              request[r].at # "unasked", UNCHANGED <<accounts, periods, drafts, journals>>
       PROVE  CloseInv'
  <2>1. request[r].ask \in Proposals
    BY <1>12 DEF CloseInv, RequestsKnown, RequestKnown
  <2>2. Turned(r)
    BY <1>12, <2>1, EndTurns DEF Making, Dating
  <2> QED
    BY <1>1, <1>12, <2>2, QuietKeeps
<1>13. ASSUME Refuse(r)
       PROVE  CloseInv'
  BY <1>12, <1>13 DEF Refuse, Asked
<1>14. ASSUME ReadBack(r)
       PROVE  CloseInv'
  BY <1>12, <1>14 DEF ReadBack
<1> QED
  BY <1>2, <1>3, <1>4, <1>5, <1>6, <1>7, <1>8, <1>9, <1>10, <1>11, <1>13, <1>14 DEF BooksStep

\* What a step of a close or an import does to the invariant.
LEMMA CloseStepKeeps ==
  ASSUME CloseInv, NEW r \in Requests, CloseStep(r)
  PROVE  CloseInv'
<1>1. ASSUME NEW p \in Proposals, ResolveReconciliation(r, p)
      PROVE  CloseInv'
  BY <1>1, ResolveReconciliationTurns, QuietKeeps DEF ResolveReconciliation, Books, closeVars
<1>2. ASSUME NEW p \in Proposals, FindDocument(r, p)
      PROVE  CloseInv'
  BY <1>2, FindDocumentTurns, QuietKeeps DEF FindDocument, Books, closeVars
<1>3. ASSUME NEW p \in Proposals, ResolveImport(r, p)
      PROVE  CloseInv'
  BY <1>3, ResolveImportTurns, QuietKeeps DEF ResolveImport, Books, closeVars
<1>4. ASSUME Reconcile(r)
      PROVE  CloseInv'
  <2>1. Turned(r)
    BY <1>4, CommitTurns DEF Reconcile, Asked, CloseInv
  <2> QED
    BY <1>4, <2>1, QuietKeeps DEF Reconcile, Books
<1>5. ASSUME Close(r)
      PROVE  CloseInv'
  <2>1. /\ request[r].at = "asked" /\ request[r].ask.kind = "close"
        /\ Turn(r, "closed", "closed")
    BY <1>5 DEF Close, Asked
  <2>2. PICK q0 \in periods : q0.month = request[r].ask.month /\ q0.state = "open"
    BY <1>5 DEF Close, MayClose, PeriodOf
  <2> QED
    BY <2>1, <2>2, TurnKeeps
<1>6. ASSUME Reopen(r)
      PROVE  CloseInv'
  <2>1. /\ request[r].at = "asked" /\ request[r].ask.kind = "reopen"
        /\ Turn(r, "reopened", "open")
        /\ Latest(request[r].ask.month).type = "closed"
        /\ Latest(request[r].ask.month).id = request[r].prior
    BY <1>6 DEF Reopen, Asked, MayReopen
  <2>2. request[r].ask.month \in Months
    BY <2>1 DEF CloseInv, RequestsKnown, RequestKnown, Months
  <2>3. events[request[r].ask.month] # <<>>
    BY <2>1, <2>2, LatestKnown DEF CloseInv, None
  <2>4. PICK q0 \in periods : q0.month = request[r].ask.month
    BY <2>2, <2>3 DEF CloseInv, EventsKnown, PeriodOf
  <2> QED
    BY <2>1, <2>4, TurnKeeps
<1>7. ASSUME NEW how \in {"refused", "verified", "mismatch"}, End(r, request[r].ask, how),
             request[r].at # "unasked",
             UNCHANGED <<accounts, periods, drafts, journals, events>>
      PROVE  CloseInv'
  <2>1. request[r].ask \in Proposals
    BY <1>7 DEF CloseInv, RequestsKnown, RequestKnown
  <2>2. Turned(r)
    BY <1>7, <2>1, EndTurns DEF Making, Dating
  <2> QED
    BY <1>7, <2>2, QuietKeeps
<1>8. ASSUME Receive(r)
      PROVE  CloseInv'
  BY <1>7, <1>8 DEF Receive, Asked, Books
<1>9. ASSUME ConfirmImport(r)
      PROVE  CloseInv'
  <2>1. Turned(r)
    BY <1>9, CommitTurns DEF ConfirmImport, Asked, CloseInv
  <2>2. /\ request[r].at = "asked" /\ request[r].ask.kind = "import"
        /\ drafts' = drafts \cup (IF request[r].entries = {} THEN {} ELSE {r})
        /\ journals' = journals \cup {Stamped(e) : e \in request[r].entries}
        /\ UNCHANGED <<accounts, periods, events>>
    BY <1>9 DEF ConfirmImport, Asked
  <2>3. CASE request[r].entries = {}
    <3>1. drafts' = drafts /\ journals' = journals
      BY <2>2, <2>3
    <3> QED
      BY <2>1, <2>2, <3>1, QuietKeeps
  <2>4. CASE request[r].entries # {}
    <3>1. PICK e : e \in request[r].entries /\ request[r].entries = {e}
      BY <1>9, <2>4 DEF ConfirmImport, ImportFits, DraftsFit
    <3>2. Entry(e) /\ e.id[1] = r
      BY <2>2, <3>1 DEF CloseInv, RequestsKnown, RequestKnown
    <3>3. Postable(e) /\ r \notin drafts
      BY <1>9, <2>4, <3>1 DEF ConfirmImport, ImportFits, DraftsFit
    <3>4. journals' = journals \cup {Stamped(e)}
      BY <2>2, <3>1
    <3>5. drafts' = drafts \cup {r}
      BY <2>2, <2>4
    <3> QED
      BY <2>1, <2>2, <3>2, <3>3, <3>4, <3>5, PostedKeeps
  <2> QED
    BY <2>3, <2>4
<1>10. ASSUME RefuseClose(r)
       PROVE  CloseInv'
  BY <1>7, <1>10 DEF RefuseClose, Asked, Books, closeVars
<1>11. ASSUME ReadBackClose(r)
       PROVE  CloseInv'
  <2>1. /\ \E how \in {"verified", "mismatch"} : End(r, request[r].ask, how)
        /\ request[r].at = "committed"
        /\ UNCHANGED <<accounts, periods, drafts, journals, events>>
    BY <1>11, Zenon DEF ReadBackClose, Books, closeVars
  <2> QED
    BY <1>7, <2>1
<1> QED
  BY <1>1, <1>2, <1>3, <1>4, <1>5, <1>6, <1>8, <1>9, <1>10, <1>11 DEF CloseStep

\* The invariant of the books and of their periods.
THEOREM CloseInvariant == CloseSpec => []CloseInv
<1>1. CloseInit => CloseInv
  <2> SUFFICES ASSUME CloseInit
               PROVE  CloseInv
    OBVIOUS
  <2>1. AccountsKnown
    <3>1. accounts = [a \in Accounts |-> IF a \in DOMAIN Chart THEN Chart[a] ELSE NoAccount]
      BY DEF CloseInit, BooksInit
    <3> QED
      BY <3>1, BooksAssumption DEF AccountsKnown
  <2>2. JournalsKnown /\ CorrectionsKnown /\ PostingsFitAccounts
    BY DEF CloseInit, BooksInit, JournalsKnown, CorrectionsKnown, PostingsFitAccounts
  <2>3. RequestsKnown
    <3>1. request = [r \in Requests |-> Unasked]
      BY DEF CloseInit, BooksInit
    <3>2. DOMAIN Unasked = {"at"} /\ Unasked.at = "unasked"
      BY DEF Unasked
    <3>3. \A r \in Requests : RequestKnown(r, Unasked)
      BY <3>2 DEF RequestKnown, Dating
    <3> QED
      BY <3>1, <3>3 DEF RequestsKnown
  <2>4. \A q \in periods : q \in {[id |-> m, month |-> m, state |-> "open"] : m \in Opened}
    BY DEF CloseInit, BooksInit
  <2>5. \A q \in periods : \E m \in Opened : q = [id |-> m, month |-> m, state |-> "open"]
    BY <2>4
  <2>6. \A q \in periods : \E m \in Opened :
          /\ DOMAIN q = {"id", "month", "state"} /\ q.id = m /\ q.month = m /\ q.state = "open"
          /\ q = [id |-> m, month |-> m, state |-> "open"]
    BY <2>5
  <2>7. PeriodsApart
    BY <2>6 DEF PeriodsApart
  <2>8. PeriodsKnown
    BY <2>6 DEF PeriodsKnown, Months
  <2>9. events = [m \in Months |-> <<>>]
    BY DEF CloseInit
  <2>10. EventsKnown
    BY <2>9, EmptySeq DEF EventsKnown
  <2>11. HistoryIsTrue
    <3> SUFFICES ASSUME NEW q \in periods
                 PROVE  /\ \A i \in DOMAIN events[q.month] :
                             /\ events[q.month][i].type = IF i % 2 = 1 THEN "closed" ELSE "reopened"
                             /\ i > 1 => \/ events[q.month][i].prior = events[q.month][i - 1].id
                                         \/ events[q.month][i].type = "closed"
                        /\ (q.state = "closed") <=> (Len(events[q.month]) % 2 = 1)
      BY DEF HistoryIsTrue
    <3>1. events[q.month] = <<>> /\ q.state = "open"
      BY <2>6, <2>8, <2>9 DEF PeriodsKnown
    <3>2. DOMAIN events[q.month] = {} /\ Len(events[q.month]) = 0
      BY <3>1
    <3> QED
      BY <3>1, <3>2
  <2> QED
    BY <2>1, <2>2, <2>3, <2>7, <2>8, <2>10, <2>11 DEF CloseInv
<1>2. CloseInv /\ [CloseNext]_ledgerVars => CloseInv'
  <2> SUFFICES ASSUME CloseInv, [CloseNext]_ledgerVars
               PROVE  CloseInv'
    OBVIOUS
  <2>1. ASSUME UNCHANGED <<accounts, periods, drafts, journals, events, request>>
        PROVE  CloseInv'
    <3>1. AccountsKnown' /\ PeriodsApart' /\ PeriodsKnown'
      BY <2>1 DEF CloseInv, AccountsKnown, PeriodsApart, PeriodsKnown
    <3>2. JournalsKnown' /\ CorrectionsKnown' /\ PostingsFitAccounts'
      BY <2>1 DEF CloseInv, JournalsKnown, Entry, CorrectionsKnown, PostingsFitAccounts
    <3>3. RequestsKnown'
      BY <2>1 DEF CloseInv, RequestsKnown, RequestKnown, Entry
    <3>4. EventsKnown' /\ HistoryIsTrue'
      BY <2>1 DEF CloseInv, EventsKnown, PeriodOf, HistoryIsTrue
    <3> QED
      BY <3>1, <3>2, <3>3, <3>4 DEF CloseInv
  <2>2. ASSUME NEW r \in Requests, CloseStep(r)
        PROVE  CloseInv'
    BY <2>2, CloseStepKeeps
  <2>3. ASSUME NEW r \in Requests, BooksStep(r), UNCHANGED closeVars
        PROVE  CloseInv'
    BY <2>3, BooksStepKeeps
  <2>4. ASSUME NEW d \in DOMAIN Rows, Normalize(d) \/ MarkChecked(d)
        PROVE  CloseInv'
    BY <2>1, <2>4 DEF Normalize, MarkChecked, Books
  <2>5. CASE UNCHANGED ledgerVars
    BY <2>1, <2>5 DEF ledgerVars, bookVars, closeVars
  <2> QED
    BY <2>2, <2>3, <2>4, <2>5 DEF CloseNext
<1> QED
  BY <1>1, <1>2, PTL DEF CloseSpec

\* A posting is in the currency of its account and keeps its class
\* (validate_complete_journal with guard_account_history).
THEOREM PostingsFitAccountsAlways == CloseSpec => []PostingsFitAccounts
<1>1. CloseInv => PostingsFitAccounts
  BY DEF CloseInv
<1> QED
  BY <1>1, CloseInvariant, PTL

\* The events of a month are its history (PeriodCloseService.close and reopen).
THEOREM HistoryIsTrueAlways == CloseSpec => []HistoryIsTrue
<1>1. CloseInv => HistoryIsTrue
  BY DEF CloseInv
<1> QED
  BY <1>1, CloseInvariant, PTL

\* A journal is reversed at most once and replaced at most once, and a reversal takes
\* back exactly what the journal did (journals_one_reversal_per_original,
\* reversal_exact_opposite).
THEOREM CorrectedOnceAlways == CloseSpec => []CorrectedOnce
<1>1. CloseInv => CorrectedOnce
  <2> SUFFICES ASSUME CloseInv, NEW j \in journals
               PROVE  /\ \A t \in {"reversal", "replacement"} :
                           Cardinality({k \in journals : k.of = j.id /\ k.type = t}) <= 1
                      /\ \A k \in journals : k.of = j.id /\ k.type = "reversal" =>
                           k.debit = j.credit /\ k.credit = j.debit
    BY DEF CorrectedOnce
  <2>1. ASSUME NEW t \in {"reversal", "replacement"}
        PROVE  Cardinality({k \in journals : k.of = j.id /\ k.type = t}) <= 1
    <3> DEFINE S == {k \in journals : k.of = j.id /\ k.type = t}
    <3>1. \A x, y \in S : x = y
      BY DEF CloseInv, CorrectionsKnown
    <3> HIDE DEF S
    <3>2. Cardinality(S) <= 1
      BY <3>1, AtMostOne
    <3> QED
      BY <3>2 DEF S
  <2>2. ASSUME NEW k \in journals, k.of = j.id, k.type = "reversal"
        PROVE  k.debit = j.credit /\ k.credit = j.debit
    <3>1. PICK i \in journals : i.id = k.of /\ i.debit = k.credit /\ i.credit = k.debit
      BY <2>2 DEF CloseInv, CorrectionsKnown
    <3>2. i = j
      BY <2>2, <3>1 DEF CloseInv, JournalsKnown
    <3> QED
      BY <3>1, <3>2
  <2> QED
    BY <2>1, <2>2
<1> QED
  BY <1>1, CloseInvariant, PTL

-----------------------------------------------------------------------------
(* What enters the books, and the batches of the imports.                  *)

\* A request posts its one entry: a journal of its own, or one for its import.
Posts(r, e) ==
  /\ request[r].at = "asked"
  /\ \/ request[r].ask.kind \in JournalKinds /\ UNCHANGED <<batches, rows>>
     \/ ConfirmImport(r)
  /\ e \in request[r].entries /\ Entry(e) /\ Postable(e)
  /\ journals' = journals \cup {Stamped(e)}

\* Nothing else writes a journal.
LEMMA OnlyPosted ==
  ASSUME CloseInv, [CloseNext]_ledgerVars
  PROVE  journals' = journals \/ \E r \in Requests : \E e : Posts(r, e)
<1>1. ASSUME NEW r \in Requests, BooksStep(r), UNCHANGED closeVars
      PROVE  journals' = journals \/ \E e : Posts(r, e)
  <2>1. CASE PostJournal(r)
    <3>1. PICK e : e \in request[r].entries /\ request[r].entries = {e}
      BY <2>1 DEF PostJournal, JournalFits, DraftsFit
    <3>2. request[r].at = "asked" /\ request[r].ask.kind \in JournalKinds
      BY <2>1 DEF PostJournal, Asked
    <3>3. Entry(e)
      BY <3>1, <3>2 DEF CloseInv, RequestsKnown, RequestKnown
    <3>4. Postable(e) /\ journals' = journals \cup {Stamped(e)}
      BY <2>1, <3>1 DEF PostJournal, JournalFits
    <3> QED
      BY <1>1, <3>1, <3>2, <3>3, <3>4 DEF Posts, closeVars
  <2>2. CASE ~PostJournal(r)
    BY <1>1, <2>2 DEF BooksStep, CaptureDraft, CaptureRequest, ResolveJournal, ChartDraft,
                      ChartRequest, FindPeriod, CreatePeriod, ChangeChart, ChangeMapping,
                      Refuse, ReadBack
  <2> QED
    BY <2>1, <2>2
<1>2. ASSUME NEW r \in Requests, CloseStep(r)
      PROVE  journals' = journals \/ \E e : Posts(r, e)
  <2>1. CASE ConfirmImport(r)
    <3>1. /\ request[r].at = "asked" /\ request[r].ask.kind = "import"
          /\ journals' = journals \cup {Stamped(e) : e \in request[r].entries}
      BY <2>1 DEF ConfirmImport, Asked
    <3>2. CASE request[r].entries = {}
      BY <3>1, <3>2
    <3>3. CASE request[r].entries # {}
      <4>1. PICK e : e \in request[r].entries /\ request[r].entries = {e}
        BY <2>1, <3>3 DEF ConfirmImport, ImportFits, DraftsFit
      <4>2. Entry(e)
        BY <3>1, <4>1 DEF CloseInv, RequestsKnown, RequestKnown
      <4>3. Postable(e) /\ journals' = journals \cup {Stamped(e)}
        BY <2>1, <3>1, <4>1 DEF ConfirmImport, ImportFits
      <4> QED
        BY <2>1, <3>1, <4>1, <4>2, <4>3 DEF Posts
    <3> QED
      BY <3>2, <3>3
  <2>2. CASE \/ \E p \in Proposals : \/ ResolveReconciliation(r, p)
                                     \/ FindDocument(r, p) \/ ResolveImport(r, p)
             \/ Reconcile(r) \/ Receive(r) \/ RefuseClose(r)
    BY <2>2 DEF ResolveReconciliation, FindDocument, ResolveImport, Reconcile, Receive,
                RefuseClose, Books
  <2>3. CASE Close(r) \/ Reopen(r)
    BY <2>3 DEF Close, Reopen, Turn
  <2>4. CASE ReadBackClose(r)
    <3>1. UNCHANGED Books
      BY <2>4, Zenon DEF ReadBackClose
    <3> QED
      BY <3>1 DEF Books
  <2> QED
    BY <1>2, <2>1, <2>2, <2>3, <2>4 DEF CloseStep
<1>3. ASSUME NEW d \in DOMAIN Rows, Normalize(d) \/ MarkChecked(d)
      PROVE  journals' = journals
  BY <1>3 DEF Normalize, MarkChecked, Books
<1>4. CASE UNCHANGED ledgerVars
  BY <1>4 DEF ledgerVars, bookVars
<1> QED
  BY <1>1, <1>2, <1>3, <1>4 DEF CloseNext

\* No journal enters a period that stays closed (journals_open_period_required against
\* setPeriodStatus).
THEOREM ClosedBooksAreFinalAlways == CloseSpec => ClosedBooksAreFinal
<1> DEFINE Final == \A q \in periods : q.state = "closed" /\ q \in periods' =>
                      {j \in journals' : j.period = q.id} = {j \in journals : j.period = q.id}
<1>1. CloseInv /\ [CloseNext]_ledgerVars => Final
  <2> SUFFICES ASSUME CloseInv, [CloseNext]_ledgerVars,
                      NEW q \in periods, q.state = "closed"
               PROVE  {j \in journals' : j.period = q.id} = {j \in journals : j.period = q.id}
    OBVIOUS
  <2>1. CASE journals' = journals
    BY <2>1
  <2>2. CASE \E r \in Requests : \E e : Posts(r, e)
    <3>1. PICK r, e : Posts(r, e)
      BY <2>2
    <3>2. PICK x \in periods : x.id = e.period /\ x.state = "open"
      BY <3>1 DEF Posts, Postable, OpenPeriod
    <3>3. e.period # q.id
      BY <3>2 DEF CloseInv, PeriodsApart
    <3>4. Stamped(e)["period"] = e["period"]
      BY <3>1, StampedEntry DEF Posts
    <3>5. journals' = journals \cup {Stamped(e)}
      BY <3>1 DEF Posts
    <3> QED
      BY <3>3, <3>4, <3>5
  <2> QED
    BY <2>1, <2>2, OnlyPosted
<1>2. CloseInv /\ [CloseNext]_ledgerVars => [Final]_ledgerVars
  BY <1>1
<1> QED
  BY <1>2, CloseInvariant, PTL DEF CloseSpec, ClosedBooksAreFinal

\* What was posted for the batches, and how far they are.
LEMMA BatchStepKeeps ==
  ASSUME CloseInv, BatchInv, [CloseNext]_ledgerVars
  PROVE  BatchInv'
<1>1. CASE batches' = batches /\ journals' = journals
  BY <1>1 DEF BatchInv, BatchPostedOnce, Imported
<1>2. ASSUME NEW r \in Requests, NEW e, Posts(r, e), request[r].ask.kind \in JournalKinds,
             batches' = batches
      PROVE  BatchInv'
  <2>1. e.type # "ordinary" \/ e.batch = None
    BY <1>2 DEF Posts, CloseInv, RequestsKnown, RequestKnown, JournalKinds
  <2>2. Stamped(e)["type"] = e["type"] /\ Stamped(e)["batch"] = e["batch"]
    BY <1>2, StampedEntry DEF Posts
  <2>3. journals' = journals \cup {Stamped(e)}
    BY <1>2 DEF Posts
  <2>4. Imported' = Imported
    BY <2>1, <2>2, <2>3 DEF Imported
  <2> QED
    BY <1>2, <2>4 DEF BatchInv, BatchPostedOnce
<1>3. ASSUME NEW d, NEW b, batches[d] \notin Posting, batches' = [batches EXCEPT ![d] = b],
             journals' = journals
      PROVE  BatchInv'
  BY <1>3 DEF BatchInv, BatchPostedOnce, Imported
<1>4. ASSUME NEW r \in Requests, Receive(r)
      PROVE  BatchInv'
  BY <1>3, <1>4 DEF Receive, Books, Posting, None
<1>5. ASSUME NEW d \in DOMAIN Rows, Normalize(d) \/ MarkChecked(d)
      PROVE  BatchInv'
  BY <1>3, <1>5 DEF Normalize, MarkChecked, MoveBatch, Books, Posting
<1>6. ASSUME NEW r \in Requests, ConfirmImport(r)
      PROVE  BatchInv'
  <2> DEFINE d == request[r].ask.document
  <2>1. /\ request[r].at = "asked" /\ request[r].ask \in Proposals
        /\ request[r].ask.kind = "import"
    BY <1>6 DEF ConfirmImport, Asked, CloseInv, RequestsKnown, RequestKnown
  <2>2. d \in DOMAIN batches
    BY <2>1, CloseAssumption DEF BatchInv
  <2>3. batches[d] = "awaiting_confirmation"
    BY <1>6 DEF ConfirmImport, ImportFits, Locked
  <2>4. PICK b \in Posting : batches' = [batches EXCEPT ![d] = b]
    BY <1>6 DEF ConfirmImport, Posting
  <2>5. /\ DOMAIN batches' = DOMAIN Rows /\ batches'[d] \in Posting
        /\ \A c : c # d => batches'[c] = batches[c]
    BY <2>2, <2>4 DEF BatchInv
  <2>6. \A j \in Imported : j.batch # d
    BY <2>3 DEF BatchInv, BatchPostedOnce, Posting
  <2>7. \A j \in Imported' \ Imported : j.batch = d /\ j.id[1] = r
    <3> SUFFICES ASSUME NEW j \in Imported', j \notin Imported
                 PROVE  j.batch = d /\ j.id[1] = r
      OBVIOUS
    <3>1. j \in journals' /\ j \notin journals /\ j.type = "ordinary" /\ j.batch # None
      BY DEF Imported
    <3>2. PICK e \in request[r].entries : j = Stamped(e)
      BY <1>6, <3>1 DEF ConfirmImport
    <3>3. /\ Entry(e) /\ e.id[1] = r
          /\ e.type = "ordinary" /\ e.batch # None => e.batch = d
      BY <2>1, <3>2 DEF CloseInv, RequestsKnown, RequestKnown
    <3>4. /\ Stamped(e)["id"] = e["id"] /\ Stamped(e)["type"] = e["type"]
          /\ Stamped(e)["batch"] = e["batch"]
      BY <3>3, StampedEntry
    <3> QED
      BY <3>1, <3>2, <3>3, <3>4
  <2>8. \A j \in Imported' : j \in Imported \/ (j.batch = d /\ j.id[1] = r)
    BY <2>7
  <2> HIDE DEF d
  <2>9. BatchPostedOnce'
    <3> SUFFICES ASSUME NEW j \in Imported', NEW k \in Imported'
                 PROVE  /\ batches'[j.batch] \in Posting
                        /\ k.batch = j.batch => k.id[1] = j.id[1]
      BY DEF BatchPostedOnce
    <3> QED
      BY <2>5, <2>6, <2>8 DEF BatchInv, BatchPostedOnce
  <2> QED
    BY <2>5, <2>9 DEF BatchInv
<1>7. ASSUME NEW r \in Requests, CloseStep(r)
      PROVE  BatchInv'
  <2>1. CASE Receive(r) \/ ConfirmImport(r)
    BY <1>4, <1>6, <2>1
  <2>2. CASE \/ \E p \in Proposals : \/ ResolveReconciliation(r, p)
                                     \/ FindDocument(r, p) \/ ResolveImport(r, p)
             \/ Reconcile(r) \/ Close(r) \/ Reopen(r) \/ RefuseClose(r)
    BY <1>1, <2>2 DEF ResolveReconciliation, FindDocument, ResolveImport, Reconcile, Close,
                      Reopen, Turn, RefuseClose, closeVars, Books
  <2>3. CASE ReadBackClose(r)
    <3>1. UNCHANGED Books /\ UNCHANGED closeVars
      BY <2>3, Zenon DEF ReadBackClose
    <3> QED
      BY <1>1, <3>1 DEF closeVars, Books
  <2> QED
    BY <1>7, <2>1, <2>2, <2>3 DEF CloseStep
<1>8. ASSUME NEW r \in Requests, BooksStep(r), UNCHANGED closeVars
      PROVE  BatchInv'
  <2>1. CASE journals' = journals
    BY <1>1, <1>8, <2>1 DEF closeVars
  <2>2. CASE \E x \in Requests : \E e : Posts(x, e)
    <3>1. PICK x \in Requests : \E e : Posts(x, e)
      BY <2>2
    <3>2. PICK e : Posts(x, e)
      BY <3>1
    <3>3. CASE request[x].ask.kind \in JournalKinds
      BY <1>2, <1>8, <3>2, <3>3 DEF closeVars
    <3>4. CASE request[x].ask.kind \notin JournalKinds
      <4>1. ConfirmImport(x)
        BY <3>2, <3>4 DEF Posts
      <4> QED
        BY <1>6, <4>1
    <3> QED
      BY <3>3, <3>4
  <2>3. [CloseNext]_ledgerVars
    OBVIOUS
  <2> QED
    BY <2>1, <2>2, <2>3, OnlyPosted
<1>9. CASE UNCHANGED ledgerVars
  BY <1>1, <1>9 DEF ledgerVars, bookVars, closeVars
<1> QED
  BY <1>5, <1>7, <1>8, <1>9 DEF CloseNext

\* What was posted for a batch comes of one confirmation of it, and the batch tells that
\* it was posted (lockBatch).
THEOREM BatchPostedOnceAlways == CloseSpec => []BatchPostedOnce
<1>1. CloseInit => BatchInv
  BY DEF CloseInit, BooksInit, BatchInv, BatchPostedOnce, Imported
<1>2. CloseInv /\ BatchInv /\ [CloseNext]_ledgerVars => BatchInv'
  BY BatchStepKeeps
<1>3. BatchInv => BatchPostedOnce
  BY DEF BatchInv
<1> QED
  BY <1>1, <1>2, <1>3, CloseInvariant, PTL DEF CloseSpec
=============================================================================
