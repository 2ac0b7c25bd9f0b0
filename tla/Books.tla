-------------------------------- MODULE Books --------------------------------
(***************************************************************************)
(* The books of a household: the accounting schema with its constraints    *)
(* and triggers, AccountingRepository, JournalDraftRepository,             *)
(* JournalPostingService, CorrectionService, the accounting materializers  *)
(* and the two accounting handlers.                                        *)
(*                                                                         *)
(* A request is resolved against the books as they are (materialize),      *)
(* works its way through a team, and is committed later in a SERIALIZABLE  *)
(* transaction, so a commit is one step; afterwards its effect is read     *)
(* back.  Other requests commit in between.  A checked artifact, an        *)
(* account, a period and a journal are named after the request that made   *)
(* them.  Amounts are 1: what a draft may have wrong about its amounts is  *)
(* the flag "sound" of its proposal.                                       *)
(***************************************************************************)
EXTENDS Integers, FiniteSets

CONSTANTS
  Requests,    \* the requests that are made
  Proposals,   \* what a request may ask for: records with the field "kind"
  Chart,       \* the accounts that exist at first: identifier -> row
  Opened       \* the months that have an open period at first

Accounts == Requests \cup DOMAIN Chart
None == "none"
NoAccount == [state |-> None, name |-> None, class |-> None, currency |-> None, parent |-> None]

ASSUME BooksAssumption ==
  /\ Requests \cap Opened = {} /\ Requests \cap DOMAIN Chart = {}
  /\ Opened \subseteq Nat
  /\ \A a \in DOMAIN Chart : DOMAIN Chart[a] = DOMAIN NoAccount

VARIABLES
  accounts,   \* accounting.accounts
  mappings,   \* accounting.account_source_mappings: [id, account, source, active]
  periods,    \* accounting.periods: [id, month, state]
  drafts,     \* accounting.journal_drafts: the artifacts that have their draft
  journals,   \* accounting.journals with their two postings
  request     \* what has become of a request

bookVars == <<accounts, mappings, periods, drafts, journals, request>>

Unasked == [at |-> "unasked"]

BooksInit ==
  /\ accounts = [a \in Accounts |-> IF a \in DOMAIN Chart THEN Chart[a] ELSE NoAccount]
  /\ mappings = {}
  /\ periods = {[id |-> m, month |-> m, state |-> "open"] : m \in Opened}
  /\ drafts = {}
  /\ journals = {}
  /\ request = [r \in Requests |-> Unasked]

-----------------------------------------------------------------------------
(* Materialization: one statement, one read.                                 *)

PaymentClasses == {"asset", "liability", "equity"}
CategoryClasses == {"expense", "income"}
Classes == PaymentClasses \cup CategoryClasses

Active(a) == accounts[a].state = "active"

\* LIMIT 2: a reference is resolved when exactly one row answers to it.
Only(s) == IF Cardinality(s) = 1 THEN s ELSE {}

\* findScopedAccountByName, findScopedTransactionAccountByName: by the name of an
\* active account.
Named(n, classes) == Only({a \in Accounts : Active(a) /\ accounts[a].name = n
                                              /\ accounts[a].class \in classes})

\* requireScopedAccountById, requireScopedTransactionAccountById.
Scoped(a, classes) == {b \in {a} \cap Accounts : Active(b) /\ accounts[b].class \in classes}

\* findExistingChartAccountByName.
Existing(n) == Named(n, Classes)

\* requireScopedMappingByReference, requireScopedMappingById: the active mapping of
\* a source, to be replaced.
MappingOf(source) == Only({m.id : m \in {n \in mappings : n.active /\ n.source = source}})

\* f with what g has beside it.
Over(f, g) == [x \in DOMAIN f \cup DOMAIN g |-> IF x \in DOMAIN f THEN f[x] ELSE g[x]]

Ask(r, p, rest) == request' = [request EXCEPT ![r] = Over([at |-> "asked", ask |-> p], rest)]
End(r, p, how) == request' = [request EXCEPT ![r] = [at |-> how, ask |-> p]]

PeriodOf(m) == {q \in periods : q.month = m}

\* What becomes of a capture whose period is known.  The maker asks for what was not
\* found (missingFields), and drafts the entry when both accounts are in the currency of
\* the capture (deterministicProposalArtifact); else it is for the model to say.
Drafted(r, q) ==
  LET t == request[r]
      clarified == [at |-> "clarified", ask |-> t.ask]
      category == CHOOSE a \in t.to : TRUE
      payment == CHOOSE a \in t.from : TRUE
      asked == [at |-> "asked", ask |-> t.ask, entries |-> {
        [id |-> <<r, "ordinary">>, type |-> "ordinary",
         debit |-> IF t.income THEN payment ELSE category,
         credit |-> IF t.income THEN category ELSE payment,
         currency |-> t.ask.currency, class |-> <<>>, month |-> t.ask.month,
         period |-> q.id, of |-> <<>>, batch |-> None]}]
  IN  IF t.from = {} \/ t.to = {} THEN {clarified}
      ELSE IF t.units = {t.ask.currency} THEN {asked} ELSE {asked, clarified}

Become(r, outcomes) == \E d \in outcomes : request' = [request EXCEPT ![r] = d]

\* The accounts of a capture are found, with their currencies and the category's class.
Dated(r, p, from, to) ==
  request' = [request EXCEPT ![r] =
    [at |-> "dating", ask |-> p, from |-> from, to |-> to,
     units |-> {accounts[a].currency : a \in from \cup to},
     income |-> \E a \in to : accounts[a].class = "income"]]

\* canonicalTransactionKnown: a name that finds no account is left open.
CaptureDraft(r, p) ==
  /\ p.kind = "capture" /\ p.by = "name"
  /\ request[r] = Unasked
  /\ Dated(r, p, Named(p.from, PaymentClasses), Named(p.to, CategoryClasses))
  /\ UNCHANGED <<accounts, mappings, periods, drafts, journals>>

\* materializeCompleteTransactionCapture: an identifier that finds none is an error.
CaptureRequest(r, p) ==
  LET from == Scoped(p.from, PaymentClasses)  to == Scoped(p.to, CategoryClasses) IN
  /\ p.kind = "capture" /\ p.by = "id"
  /\ request[r] = Unasked
  /\ IF from = {} \/ to = {} THEN End(r, p, "failed") ELSE Dated(r, p, from, to)
  /\ UNCHANGED <<accounts, mappings, periods, drafts, journals>>

\* findPeriodIdForOccurredOn.
FindPeriod(r) ==
  /\ request[r].at = "dating"
  /\ LET found == Only(PeriodOf(request[r].ask.month)) IN
     IF found = {} THEN request' = [request EXCEPT ![r].at = "opening"]
     ELSE \E q \in found : Become(r, Drafted(r, q))
  /\ UNCHANGED <<accounts, mappings, periods, drafts, journals>>

\* resolveOrCreatePeriodIdForOccurredOn: ON CONFLICT DO NOTHING keeps the period that
\* another request has inserted meanwhile, and the second look finds it.
Inserted(r, m) == periods \cup (IF PeriodOf(m) # {} THEN {}
                                ELSE {[id |-> r, month |-> m, state |-> "open"]})

CreatePeriod(r) ==
  /\ request[r].at = "opening"
  /\ periods' = Inserted(r, request[r].ask.month)
  /\ \E q \in {x \in periods' : x.month = request[r].ask.month} :
       Become(r, Drafted(r, q))
  /\ UNCHANGED <<accounts, mappings, drafts, journals>>

\* A journal that undoes journal j, or that stands in its place, in period q.
Reversal(r, j, q) ==
  [j EXCEPT !.id = <<r, "reversal">>, !.type = "reversal", !.debit = j.credit,
            !.credit = j.debit, !.month = q.month, !.period = q.id, !.of = j.id]
Replacement(r, j, q, a) ==
  [j EXCEPT !.id = <<r, "replacement">>, !.type = "replacement", !.debit = a,
            !.month = q.month, !.period = q.id, !.of = j.id]

\* journalMaterializer: the book; the maker works out the entries from the journals
\* and accounts that it is shown.
ResolveJournal(r, p) ==
  /\ p.kind \in {"reverse", "replace", "reverse_replace"}
  /\ request[r] = Unasked
  /\ \E j \in journals, q \in periods, a \in Accounts :
       /\ q.month = p.month
       /\ Active(a)
       /\ accounts[a].currency = j.currency
       /\ accounts[a].class \in CategoryClasses
       /\ Ask(r, p, [entries |->
            (IF p.kind = "replace" THEN {} ELSE {Reversal(r, j, q)})
              \cup (IF p.kind = "reverse" THEN {} ELSE {Replacement(r, j, q, a)})])
  /\ UNCHANGED <<accounts, mappings, periods, drafts, journals>>

\* The row that a change of the chart is to leave.
RowOf(p, parent) ==
  [state |-> "active", name |-> p.name, class |-> p.class, currency |-> p.currency,
   parent |-> IF parent = {} THEN None ELSE CHOOSE a \in parent : TRUE]

\* An account that exists already is not created again; a target or a mapping that is
\* not found is an error.
AskChart(r, p, target, parent) ==
  \/ /\ p.kind = "create"
     /\ IF Existing(p.name) # {} THEN End(r, p, "unchanged")
        ELSE Ask(r, p, [account |-> r, row |-> RowOf(p, parent)])
  \/ /\ p.kind # "create"
     /\ target = {} \/ (p.kind = "remap" /\ MappingOf(p.source) = {})
     /\ End(r, p, "failed")
  \/ \E a \in target :
       \/ p.kind = "update" /\ Ask(r, p, [account |-> a, row |-> RowOf(p, parent)])
       \/ /\ p.kind = "archive"
          /\ Ask(r, p, [account |-> a, row |-> [accounts[a] EXCEPT !.state = "archived"]])
       \/ p.kind = "map" /\ Ask(r, p, [account |-> a, old |-> {}])
       \/ /\ p.kind = "remap" /\ MappingOf(p.source) # {}
          /\ Ask(r, p, [account |-> a, old |-> MappingOf(p.source)])

ChartKinds == {"create", "update", "archive", "map", "remap"}

\* materializeChartDraft, chartKnownFromDraft: a parent that is not found by its name
\* is left out.
ChartDraft(r, p) ==
  /\ p.kind \in ChartKinds /\ p.by = "name"
  /\ request[r] = Unasked
  /\ AskChart(r, p, Named(p.target, Classes), Named(p.parent, Classes))
  /\ UNCHANGED <<accounts, mappings, periods, drafts, journals>>

\* materializeCompleteChartRequest, scopeChartKnown: a parent that is not found by its
\* identifier is an error.
ChartRequest(r, p) ==
  /\ p.kind \in ChartKinds /\ p.by = "id"
  /\ request[r] = Unasked
  /\ IF p.parent # None /\ Scoped(p.parent, Classes) = {} THEN End(r, p, "failed")
     ELSE AskChart(r, p, Scoped(p.target, Classes), Scoped(p.parent, Classes))
  /\ UNCHANGED <<accounts, mappings, periods, drafts, journals>>

-----------------------------------------------------------------------------
(* The handlers, each in its transaction.                                    *)

Asked(r, kinds) == request[r].at = "asked" /\ request[r].ask.kind \in kinds
Commit(r, rest) == request' = [request EXCEPT ![r] = Over([@ EXCEPT !.at = "committed"], rest)]

\* JournalDraftRepository.insertVersion under journal_drafts_artifact_once: all the
\* drafts of a proposal are bound to its one artifact.
DraftsFit(r) == r \notin drafts /\ \E e \in request[r].entries : request[r].entries = {e}

\* (seeded fault: the period need not be open)
PeriodOfDate(e) == \E q \in periods : q.id = e.period /\ q.month = e.month

\* journals_open_period_required.
OpenPeriod(e) == \E q \in periods : q.id = e.period /\ q.state = "open" /\ q.month = e.month

\* resolveAccounts: every account that is posted to is active.
ActiveAccounts(e) == Active(e.debit) /\ Active(e.credit)

\* postings_currency_and_book_consistent.
CurrencyFits(e) == \A a \in {e.debit, e.credit} : accounts[a].currency = e.currency

\* reversal_exact_opposite.
ExactOpposite(e) ==
  e.type = "reversal" =>
    \E j \in journals : j.id = e.of /\ j.debit = e.credit /\ j.credit = e.debit
                                    /\ j.currency = e.currency

\* (seeded fault: the unique index is missing)
AnyOfItsType(e) == TRUE

\* journals_one_reversal_per_original, journals_one_replacement_per_original.
FirstOfItsType(e) ==
  e.type # "ordinary" => \A j \in journals : ~(j.of = e.of /\ j.type = e.type)

\* postInTransaction with validate_complete_journal.
Postable(e) ==
  /\ OpenPeriod(e)
  /\ ActiveAccounts(e)
  /\ CurrencyFits(e)
  /\ ExactOpposite(e)
  /\ FirstOfItsType(e)

\* accountNativeBalance: of account a, as of month m.
Balance(js, a, m) ==
  Cardinality({j \in js : j.debit = a /\ j.month <= m})
    - Cardinality({j \in js : j.credit = a /\ j.month <= m})

Balances(js, es) ==
  LET asOf == CHOOSE m \in {e.month : e \in es} : \A e \in es : e.month <= m
  IN  [a \in UNION {{e.debit, e.credit} : e \in es} |-> Balance(js, a, asOf)]

JournalKinds == {"capture", "reverse", "replace", "reverse_replace"}

JournalFits(r) ==
  /\ DraftsFit(r)
  /\ request[r].ask.sound
  /\ \A e \in request[r].entries : Postable(e)

\* The classes that the accounts have are kept with the journal, for the properties.
Stamped(e) == [e EXCEPT !.class = <<accounts[e.debit].class, accounts[e.credit].class>>]

\* apply_accounting_journal_mutation, reverseAndReplaceInTransaction.
PostJournal(r) ==
  /\ Asked(r, JournalKinds)
  /\ JournalFits(r)
  /\ drafts' = drafts \cup {r}
  /\ journals' = journals \cup {Stamped(e) : e \in request[r].entries}
  /\ Commit(r, [expected |-> Balances(journals', request[r].entries)])
  /\ UNCHANGED <<accounts, mappings, periods>>

Posted(a) == \E j \in journals : a \in {j.debit, j.credit}

\* (seeded fault: only the currency is frozen)
KeepsCurrency(a, row) == Posted(a) => row.currency = accounts[a].currency

\* guard_account_history.
KeepsIdentity(a, row) ==
  Posted(a) => row.class = accounts[a].class /\ row.currency = accounts[a].currency

\* The accounts above a, a itself left out unless it is above itself.
Parents == [a \in Accounts |-> accounts[a].parent]
Above(a) ==
  LET up[n \in Nat] == IF n = 0 THEN {a} \ {None}
                       ELSE up[n - 1] \cup ({Parents[b] : b \in up[n - 1]} \ {None})
  IN  up[Cardinality(Accounts)]

\* validate_account_hierarchy.
Acyclic(a, row) == row.parent = None \/ a \notin Above(row.parent)

\* createAccount, updateAccount, archiveAccount: an account is created once, and
\* only an active one is changed or archived.
ChartFits(r) ==
  LET a == request[r].account  row == request[r].row IN
  /\ IF request[r].ask.kind = "create" THEN accounts[a].state = None ELSE Active(a)
  /\ KeepsIdentity(a, row)
  /\ row.state = "active" => Acyclic(a, row)

\* apply_chart_of_accounts_change on an account.
ChangeChart(r) ==
  /\ Asked(r, {"create", "update", "archive"})
  /\ ChartFits(r)
  /\ accounts' = [accounts EXCEPT ![request[r].account] =
       IF request[r].ask.kind = "archive" THEN [@ EXCEPT !.state = "archived"]
       ELSE request[r].row]
  /\ Commit(r, <<>>)
  /\ UNCHANGED <<mappings, periods, drafts, journals>>

\* archiveAccountSourceMapping, then createAccountSourceMapping under the index
\* account_source_mappings_active_identity.
Unarchived(r) == {m \in mappings : m.active /\ m.id \notin request[r].old}
MappingFits(r) ==
  /\ \A i \in request[r].old : \E m \in mappings : m.id = i /\ m.active
  /\ \A m \in Unarchived(r) : m.source # request[r].ask.source

\* apply_chart_of_accounts_change on a source mapping.
ChangeMapping(r) ==
  /\ Asked(r, {"map", "remap"})
  /\ MappingFits(r)
  /\ mappings' = {[m EXCEPT !.active = @ /\ m.id \notin request[r].old] : m \in mappings}
       \cup {[id |-> r, account |-> request[r].account, source |-> request[r].ask.source,
              active |-> TRUE]}
  /\ Commit(r, <<>>)
  /\ UNCHANGED <<accounts, periods, drafts, journals>>

Fits(r) ==
  \/ Asked(r, JournalKinds) /\ JournalFits(r)
  \/ Asked(r, {"create", "update", "archive"}) /\ ChartFits(r)
  \/ Asked(r, {"map", "remap"}) /\ MappingFits(r)

BookKinds == JournalKinds \cup ChartKinds

\* normalizeAccountingError: the transaction is rolled back.
Refuse(r) ==
  /\ Asked(r, BookKinds)
  /\ ~Fits(r)
  /\ End(r, request[r].ask, "refused")
  /\ UNCHANGED <<accounts, mappings, periods, drafts, journals>>

\* The readback of a handler compares what is there now with what was committed.
Matches(r) ==
  CASE request[r].ask.kind \in JournalKinds ->
         /\ \A e \in request[r].entries : \E j \in journals : j.id = e.id
         /\ Balances(journals, request[r].entries) = request[r].expected
    [] request[r].ask.kind = "archive" -> accounts[request[r].account].state = "archived"
    [] request[r].ask.kind \in {"create", "update"} ->
         accounts[request[r].account] = request[r].row
    [] OTHER -> /\ \E m \in mappings : m.id = r /\ m.active
                /\ \A m \in mappings : m.id \in request[r].old => ~m.active

ReadBack(r) ==
  /\ request[r].at = "committed"
  /\ request[r].ask.kind \in BookKinds
  /\ End(r, request[r].ask, IF Matches(r) THEN "verified" ELSE "mismatch")
  /\ UNCHANGED <<accounts, mappings, periods, drafts, journals>>

BooksStep(r) ==
  \/ \E p \in Proposals : \/ CaptureDraft(r, p)
                          \/ CaptureRequest(r, p)
                          \/ ResolveJournal(r, p)
                          \/ ChartDraft(r, p)
                          \/ ChartRequest(r, p)
  \/ FindPeriod(r)
  \/ CreatePeriod(r)
  \/ PostJournal(r)
  \/ ChangeChart(r)
  \/ ChangeMapping(r)
  \/ Refuse(r)
  \/ ReadBack(r)

-----------------------------------------------------------------------------
(* The invariant of the books: every journal stands for a draft of its own,  *)
(* whose request gave it its name; a correction is the only one of its type  *)
(* and a reversal has its original; a period has its month to itself.        *)

AccountsKnown ==
  /\ DOMAIN accounts = Accounts
  /\ \A a \in Accounts : DOMAIN accounts[a] = DOMAIN NoAccount

\* An entry, or the journal that it has become, between two accounts.
Entry(e) ==
  /\ DOMAIN e = {"id", "type", "debit", "credit", "currency", "class", "month", "period",
                 "of", "batch"}
  /\ e.debit \in Accounts /\ e.credit \in Accounts

JournalsKnown ==
  \A j \in journals : /\ Entry(j) /\ j.id[1] \in drafts
                      /\ \A k \in journals : j.id[1] = k.id[1] => j = k

CorrectionsKnown ==
  \A j \in journals :
    /\ \A k \in journals : j.type # "ordinary" /\ j.type = k.type /\ j.of = k.of => j = k
    /\ j.type = "reversal" =>
         \E k \in journals : k.id = j.of /\ k.debit = j.credit /\ k.credit = j.debit

PeriodsApart ==
  \A q \in periods :
    /\ DOMAIN q = {"id", "month", "state"} /\ q.state \in {"open", "closed"}
    /\ \A x \in periods : q.id = x.id \/ q.month = x.month => q = x

\* A posting is in the currency of its account, and the account still has the class it
\* had when the posting was made, although a change of the chart may be committed
\* between the resolution of a request and its commit, or after it
\* (validate_complete_journal with guard_account_history).
PostingsFitAccounts ==
  \A j \in journals :
    /\ accounts[j.debit].currency = j.currency
    /\ accounts[j.credit].currency = j.currency
    /\ j.class = <<accounts[j.debit].class, accounts[j.credit].class>>

\* A journal is reversed at most once and replaced at most once, and a reversal
\* takes back exactly what the journal did, although several corrections of it may
\* have been checked side by side (journals_one_reversal_per_original).
CorrectedOnce ==
  \A j \in journals :
    /\ \A t \in {"reversal", "replacement"} :
         Cardinality({k \in journals : k.of = j.id /\ k.type = t}) <= 1
    /\ \A k \in journals : k.of = j.id /\ k.type = "reversal" =>
         k.debit = j.credit /\ k.credit = j.debit

\* A correction that was checked, and that each of its entries would pass alone, is
\* posted when it is committed (reverseAndReplaceInTransaction).
CorrectionLands ==
  \A r \in Requests :
    Asked(r, {"reverse_replace"}) /\ request[r].ask.sound
      /\ (\A e \in request[r].entries : Postable(e)) => Fits(r)
=============================================================================
