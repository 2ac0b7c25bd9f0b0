----------------------------- MODULE PeriodClose -----------------------------
(***************************************************************************)
(* The close of a period and the imports that feed it: the reconciliation  *)
(* handlers, PeriodCloseService, ImportBatchService, the import handler    *)
(* and their repositories, on top of the books.                            *)
(*                                                                         *)
(* A document has a batch of its own and its rows; a row is named after    *)
(* its exact fingerprint, so a row of two documents is the same            *)
(* transaction.  A reconciliation, an event and a journal are named after  *)
(* the request that made them.                                             *)
(***************************************************************************)
EXTENDS Books, Sequences, Functions

CONSTANTS
  Rows,        \* the documents that may be uploaded: document -> fingerprints
  Checked,     \* those that are uploaded and checked at first
  Covered      \* the months that have a reconciliation at first

\* The months that are spoken of.
Months == Opened \cup {p.month : p \in {x \in Proposals :
                            x.kind \in JournalKinds \cup {"reconcile", "close", "reopen", "import"}}}

\* An import is of a document that may be uploaded (import_batches_source_fk).
ASSUME CloseAssumption ==
  /\ Checked \subseteq DOMAIN Rows
  /\ \A p \in Proposals : p.kind = "import" => p.document \in DOMAIN Rows

VARIABLES
  reconciled,  \* accounting.reconciliations: [id, month]
  events,      \* accounting.period_events of a month, in the order of created_at
  batches,     \* ingestion.import_batches: document -> state
  rows         \* ingestion.normalized_rows: fingerprint -> row_state

closeVars == <<reconciled, events, batches, rows>>
ledgerVars == <<bookVars, closeVars>>

CloseInit ==
  /\ BooksInit
  /\ reconciled = {[id |-> m, month |-> m] : m \in Covered}
  /\ events = [m \in Months |-> <<>>]
  /\ batches = [d \in DOMAIN Rows |-> IF d \in Checked THEN "awaiting_confirmation" ELSE None]
  /\ rows = [f \in UNION {Rows[d] : d \in Checked} |-> "distinct"]

Books == <<accounts, mappings, periods, drafts, journals>>

-----------------------------------------------------------------------------
\* readPeriodCoverage: the reconciliations of the month.
Coverage(m) == {c.id : c \in {x \in reconciled : x.month = m}}

\* readLatestPeriodEvent.
Latest(m) == IF events[m] = <<>> THEN [type |-> None, id |-> None] ELSE events[m][Len(events[m])]

\* resolveImportBatchById, resolveImportBatchByReference: the batch has its checked
\* artifact.
CheckedBatch(d) == batches[d] \in {"awaiting_confirmation", "posted", "partially_posted"}

\* resolveSnapshotByReference, resolveSnapshotById: the account is active and its
\* statement comes from a checked document.
Statement(p) == Scoped(p.target, Classes) # {} /\ CheckedBatch(p.statement)

\* reconciliationMaterializer; the maker then reconciles the account, or gathers the
\* evidence of a close, or names the close that is to be reopened: a close without a
\* reconciliation, or a reopening without a close, does not fit its schema.
ResolveReconciliation(r, p) ==
  LET cover == Coverage(p.month)  prior == Latest(p.month).id IN
  /\ p.kind \in {"reconcile", "close", "reopen"}
  /\ request[r] = Unasked
  /\ IF Statement(p) /\ (p.kind = "close" => cover # {}) /\ (p.kind = "reopen" => prior # None)
     THEN Ask(r, p, [coverage |-> cover, prior |-> prior])
     ELSE End(r, p, "failed")
  /\ UNCHANGED <<Books, closeVars>>

\* record_reconciliation; the state of the period is not looked at.
Reconcile(r) ==
  /\ Asked(r, {"reconcile"})
  /\ reconciled' = reconciled \cup {[id |-> r, month |-> request[r].ask.month]}
  /\ Commit(r, <<>>)
  /\ UNCHANGED <<Books, events, batches, rows>>

\* (seeded fault: the state of the period is not compared)
MayCloseAgain(r) == Coverage(request[r].ask.month) = request[r].coverage

\* close: the evidence is exactly the durable one, the period is there and is open.
MayClose(r) ==
  /\ Coverage(request[r].ask.month) = request[r].coverage
  /\ \E q \in PeriodOf(request[r].ask.month) : q.state = "open"

\* reopen: the proposal is confirmed and names the latest event, which is a close.
MayReopen(r) ==
  /\ request[r].ask.confirmed
  /\ Latest(request[r].ask.month).type = "closed"
  /\ Latest(request[r].ask.month).id = request[r].prior

\* insertPeriodEvent, setPeriodStatus.
Turn(r, type, state) ==
  LET m == request[r].ask.month IN
  /\ events' = [events EXCEPT ![m] =
                   Append(@, [id |-> r, type |-> type, prior |-> request[r].prior])]
  /\ periods' = {[q EXCEPT !.state = IF q.month = m THEN state ELSE @] : q \in periods}
  /\ Commit(r, <<>>)
  /\ UNCHANGED <<accounts, mappings, drafts, journals, reconciled, batches, rows>>

\* close_accounting_period.
Close(r) ==
  /\ Asked(r, {"close"})
  /\ MayClose(r)
  /\ Turn(r, "closed", "closed")

\* reopen_accounting_period.
Reopen(r) ==
  /\ Asked(r, {"reopen"})
  /\ MayReopen(r)
  /\ Turn(r, "reopened", "open")

-----------------------------------------------------------------------------
\* receive: findBySourceScopeAndHash.
FindDocument(r, p) ==
  /\ p.kind = "upload"
  /\ request[r] = Unasked
  /\ IF batches[p.document] = None THEN Ask(r, p, <<>>) ELSE End(r, p, "unchanged")
  /\ UNCHANGED <<Books, closeVars>>

\* receive: insertSourceDocument under source_documents_scope_hash_unique,
\* insertBatch, insertRawRows, and the batch is extracted.
Receive(r) ==
  /\ Asked(r, {"upload"})
  /\ batches[request[r].ask.document] = None
  /\ batches' = [batches EXCEPT ![request[r].ask.document] = "extracted"]
  /\ End(r, request[r].ask, "verified")
  /\ UNCHANGED <<Books, reconciled, events, rows>>

\* guard_import_batch_transition, for the moves that are made.
MoveBatch(d, from, to) == batches[d] = from /\ batches' = [batches EXCEPT ![d] = to]

\* normalized_rows_source_scope_exact_replay_unique (migration 0007): no row of the
\* source is there already, from another document of it.
Fresh(d) == Rows[d] \cap DOMAIN rows = {}

\* insertNormalizedVersion of every row, as the matcher has classified it; a row that
\* is there already rolls the batch back.
Normalize(d) ==
  /\ Fresh(d)
  /\ MoveBatch(d, "extracted", "normalized")
  /\ \E state \in {"distinct", "probable_duplicate"} : rows' = Over([f \in Rows[d] |-> state], rows)
  /\ UNCHANGED <<Books, request, reconciled, events>>

\* markChecked: through "checked", in the transaction of its caller; probable
\* duplicates have to be decided first.
MarkChecked(d) ==
  /\ \A f \in Rows[d] : f \in DOMAIN rows => rows[f] # "probable_duplicate"
  /\ MoveBatch(d, "normalized", "awaiting_confirmation")
  /\ UNCHANGED <<Books, request, reconciled, events, rows>>

\* The entries of the rows that are to be posted, from account a to account b.
ImportEntries(r, p, a, b, q) ==
  {[id |-> <<r, f>>, type |-> "ordinary", debit |-> b, credit |-> a,
    currency |-> accounts[a].currency, class |-> <<>>, month |-> p.month,
    period |-> q.id, of |-> <<>>, batch |-> p.document] : f \in {x \in DOMAIN p.decide : p.decide[x] = "post"}}

\* ingestionMaterializer, and the maker's decisions and drafts; an existing journal
\* can be linked when there is one.
ResolveImport(r, p) ==
  /\ p.kind = "import"
  /\ request[r] = Unasked
  /\ IF ~CheckedBatch(p.document) THEN End(r, p, "failed")
     ELSE /\ \A f \in DOMAIN p.decide : p.decide[f] = "link" => journals # {}
          /\ \E q \in PeriodOf(p.month), a \in Accounts, b \in Accounts :
               /\ Active(a) /\ accounts[a].class \in PaymentClasses
               /\ Active(b) /\ accounts[b].class \in CategoryClasses
               /\ accounts[a].currency = accounts[b].currency
               /\ Ask(r, p, [entries |-> ImportEntries(r, p, a, b, q)])
  /\ UNCHANGED <<Books, closeVars>>

\* (seeded fault: any batch that was not failed is taken)
StillThere(r) == batches[request[r].ask.document] \notin {None, "failed"}

\* lockBatch: the batch still awaits this confirmation.
Locked(r) == batches[request[r].ask.document] = "awaiting_confirmation"

\* insertRowDecision: every row that is decided is there; of which batch it is, is not
\* looked at.
ImportFits(r) ==
  /\ Locked(r)
  /\ DOMAIN request[r].ask.decide \subseteq DOMAIN rows
  /\ request[r].entries = {} \/ DraftsFit(r)
  /\ \A e \in request[r].entries : Postable(e)

\* confirm_import_batch.
ConfirmImport(r) ==
  LET d == request[r].ask.document IN
  /\ Asked(r, {"import"})
  /\ ImportFits(r)
  /\ batches' = [batches EXCEPT ![d] = IF Range(request[r].ask.decide) \subseteq {"post", "link"}
                                       THEN "posted" ELSE "partially_posted"]
  /\ drafts' = drafts \cup (IF request[r].entries = {} THEN {} ELSE {r})
  /\ journals' = journals \cup {Stamped(e) : e \in request[r].entries}
  /\ Commit(r, <<>>)
  /\ UNCHANGED <<accounts, mappings, periods, reconciled, events, rows>>

-----------------------------------------------------------------------------
\* The transaction of a close, a reopening or an import is rolled back.
RefuseClose(r) ==
  /\ \/ Asked(r, {"close"}) /\ ~MayClose(r)
     \/ Asked(r, {"reopen"}) /\ ~MayReopen(r)
     \/ Asked(r, {"import"}) /\ ~ImportFits(r)
     \/ Asked(r, {"upload"}) /\ batches[request[r].ask.document] # None
  /\ End(r, request[r].ask, "refused")
  /\ UNCHANGED <<Books, closeVars>>

\* readReconciliation finds the fact as it was committed, readPeriodMutation the state
\* of the period as it is now; readBatchOutcome asks for decisions that are bound to the
\* artifact of the batch, while they are bound to that of the proposal.
ReadBackClose(r) ==
  LET k == request[r].ask.kind
      closed == \A q \in PeriodOf(request[r].ask.month) : q.state = "closed"
      matches == CASE k = "reconcile" -> TRUE
                   [] k = "close" -> closed
                   [] k = "reopen" -> ~closed
                   [] OTHER -> FALSE
  IN  /\ request[r].at = "committed"
      /\ k \in {"reconcile", "close", "reopen", "import"}
      /\ End(r, request[r].ask, IF matches THEN "verified" ELSE "mismatch")
      /\ UNCHANGED <<Books, closeVars>>

CloseStep(r) ==
  \/ \E p \in Proposals : \/ ResolveReconciliation(r, p)
                          \/ FindDocument(r, p)
                          \/ ResolveImport(r, p)
  \/ Reconcile(r)
  \/ Close(r)
  \/ Reopen(r)
  \/ Receive(r)
  \/ ConfirmImport(r)
  \/ RefuseClose(r)
  \/ ReadBackClose(r)

CloseNext ==
  \/ \E r \in Requests : CloseStep(r) \/ (BooksStep(r) /\ UNCHANGED closeVars)
  \/ \E d \in DOMAIN Rows : Normalize(d) \/ MarkChecked(d)

CloseSpec == CloseInit /\ [][CloseNext]_ledgerVars

-----------------------------------------------------------------------------
\* While a period stays closed, no journal enters it and none leaves it, even one
\* that was resolved, checked and confirmed while the period was open
\* (journals_open_period_required against setPeriodStatus).
ClosedBooksAreFinal ==
  [][\A q \in periods : q.state = "closed" /\ q \in periods' =>
       {j \in journals' : j.period = q.id} = {j \in journals : j.period = q.id}]_ledgerVars

\* The events of a month are its history: closes and reopenings alternate, a reopening
\* names the close before it, and the period is closed exactly when the latest event
\* is a close, in whatever order stale proposals are committed
\* (PeriodCloseService.close and reopen).
HistoryIsTrue ==
  \A q \in periods :
    LET s == events[q.month] IN
    /\ \A i \in DOMAIN s : /\ s[i].type = IF i % 2 = 1 THEN "closed" ELSE "reopened"
                           /\ i > 1 => s[i].prior = s[i - 1].id \/ s[i].type = "closed"
    /\ (q.state = "closed") <=> (Len(s) % 2 = 1)

\* What was posted for a batch comes of one confirmation of it, whichever of several
\* that were made side by side is committed first, and the batch tells that it was
\* posted (lockBatch, the lock of the row and the state that it was found in).
Posting == {"posted", "partially_posted"}
Imported == {j \in journals : j.type = "ordinary" /\ j.batch # None}
BatchPostedOnce ==
  \A j \in Imported : /\ batches[j.batch] \in Posting
                      /\ \A k \in Imported : k.batch = j.batch => k.id[1] = j.id[1]

-----------------------------------------------------------------------------
(* The invariant behind these properties: what a request may carry to its    *)
(* commit, and where the periods come from.                                  *)

Dating == {"dating", "opening"}
Making == {"unasked"} \cup Dating

\* t, which has become of request r, and what it carries.
RequestKnown(r, t) ==
  /\ "at" \in DOMAIN t
  /\ t.at # "unasked" => "ask" \in DOMAIN t /\ t.ask \in Proposals
  /\ t.at \in Dating => /\ t.ask.kind = "capture" /\ {"from", "to"} \subseteq DOMAIN t
                        /\ t.from \subseteq Accounts /\ t.to \subseteq Accounts
  /\ t.at = "asked" /\ t.ask.kind \in JournalKinds \cup {"import"} =>
       \A e \in t.entries :
         /\ Entry(e) /\ e.id[1] = r
         /\ e.type = "ordinary" /\ e.batch # None =>
              t.ask.kind = "import" /\ e.batch = t.ask.document
  /\ t.at = "asked" /\ t.ask.kind \in {"create", "update", "archive"} =>
       t.account \in Accounts /\ DOMAIN t.row = DOMAIN NoAccount
  /\ t.at = "asked" /\ t.ask.kind \in {"close", "reopen"} => t.prior \in Requests \cup {None}

RequestsKnown == DOMAIN request = Requests /\ \A r \in Requests : RequestKnown(r, request[r])

PeriodsKnown ==
  \A q \in periods :
    /\ q.month \in Months
    /\ q.id \in Opened \/ (q.id \in Requests /\ request[q.id].at \notin Making)

Event == [id : Requests, type : {"closed", "reopened"}, prior : Requests \cup {None}]

EventsKnown ==
  /\ events \in [Months -> Seq(Event)]
  /\ \A m \in Months : events[m] # <<>> => PeriodOf(m) # {}

CloseInv ==
  /\ AccountsKnown /\ JournalsKnown /\ CorrectionsKnown /\ PostingsFitAccounts
  /\ RequestsKnown /\ PeriodsApart /\ PeriodsKnown /\ EventsKnown /\ HistoryIsTrue

BatchInv == DOMAIN batches = DOMAIN Rows /\ BatchPostedOnce
=============================================================================
