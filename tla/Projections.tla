----------------------------- MODULE Projections -----------------------------
(***************************************************************************)
(* The reporting projections (packages/reporting): current balances kept   *)
(* by the transaction that posts a journal (ProjectionWriter), daily       *)
(* balances and net worth finalised from them (ProjectionFinalizer), the   *)
(* checks that record drift (ProjectionHealthRepository) and the rebuilds  *)
(* that repair it (ProjectionRebuilder).  Maintenance calls get a pool, so *)
(* each of their statements commits by itself; postings run in between.    *)
(***************************************************************************)
EXTENDS Integers, FiniteSets, FiniteSetsExt

CONSTANTS
    BalanceAccounts,  \* accounts of the household
    Foreign,          \* those whose native currency is not the reporting currency
    Class,            \* accounting_class of each: "asset", "liability" or another
    Journals,         \* the journals that can be posted: their date (on) and the
                      \* amount of each account, signed by its normal balance, 0 for none
    Dates,            \* effective dates, as numbers
    Workers,          \* maintenance calls that can run at once
    MaxJobs,          \* bound on maintenance calls
    Missing

ASSUME ProjectionsAssumption ==
    /\ Foreign \subseteq BalanceAccounts
    /\ Dates \subseteq Nat /\ IsFiniteSet(Dates)  \* four digits for the year
    /\ DOMAIN Class = BalanceAccounts
    /\ \A j \in Journals : j.on \in Dates /\ j.amount \in [BalanceAccounts -> Int]
    /\ Missing \notin [asOf : Nat, native : Int, reporting : Int]
    /\ MaxJobs \in Nat

VARIABLES
    ledger,    \* the posted journals
    balances,  \* account_current_balances: a row, or Missing, of each account
    daily,     \* account_daily_balances: a row, or Missing, of each day and account
    worth,     \* household_net_worth_daily: an amount or Missing of each day
    drift,     \* projection_drift_records not resolved: key, account, date
    health,    \* projection_health of each key and date, Missing without a row
    worker,    \* each maintenance call: its next statement, date and findings
    rebuilt,   \* whether the last rebuild of current balances ran to the end,
               \* over every journal (TRUE before the first)
    jobs
maintenanceVars == <<daily, worth, drift, health>>
projectionVars == <<ledger, balances, maintenanceVars, worker, rebuilt, jobs>>

ProjectionKeys == {"current_balances", "daily_balances", "net_worth"}
Done == [at |-> "idle", key |-> Missing, date |-> 0, found |-> {}]

ProjectionInit ==
    /\ ledger = {} /\ balances = [a \in BalanceAccounts |-> Missing]
    /\ daily = [d \in Dates |-> [a \in BalanceAccounts |-> Missing]]
    /\ worth = [d \in Dates |-> Missing]
    /\ drift = {} /\ health = [k \in ProjectionKeys \X Dates |-> Missing]
    /\ worker = [w \in Workers |-> Done] /\ rebuilt = TRUE /\ jobs = 0

-----------------------------------------------------------------------------
(* What the ledger says of an account up to a date. *)
Touching(a, asOf) == {j \in ledger : j.on <= asOf /\ j.amount[a] # 0}
Authoritative(a, asOf) == MapThenSumSet(LAMBDA j : j.amount[a], Touching(a, asOf))

(* (seeded fault: the amounts of the journal replace those of the row) *)
Replaced(row, on, native, reporting) == [asOf |-> on, native |-> native, reporting |-> reporting]

(* applyJournal, in the transaction of the posting: each account of the     *)
(* journal gets a row or has the amounts added to its row.  The reporting   *)
(* amount of a foreign account is 0.                                        *)
Reported(a, amount) == IF a \in Foreign THEN 0 ELSE amount
Added(row, on, native, reporting) ==
    IF row = Missing THEN [asOf |-> on, native |-> native, reporting |-> reporting]
    ELSE [asOf |-> Max({row.asOf, on}), native |-> row.native + native,
          reporting |-> row.reporting + reporting]
ApplyJournal(j) ==
    balances' = [a \in BalanceAccounts |->
                   IF j.amount[a] = 0 THEN balances[a]
                   ELSE Added(balances[a], j.on, j.amount[a], Reported(a, j.amount[a]))]
PostAndApply(j) ==
    /\ j \notin ledger
    /\ ledger' = ledger \cup {j}
    /\ ApplyJournal(j)
    /\ UNCHANGED <<maintenanceVars, worker, rebuilt, jobs>>

-----------------------------------------------------------------------------
(* A maintenance call: its statements one by one, then it returns; each may *)
(* fail instead, and the rest of the call is left undone.                   *)
Begins(w, at, key, date) ==
    /\ worker[w].at = "idle" /\ jobs < MaxJobs
    /\ jobs' = jobs + 1
    /\ worker' = [worker EXCEPT ![w] = [at |-> at, key |-> key, date |-> date, found |-> {}]]
Continue(w, at) == worker' = [worker EXCEPT ![w].at = at] /\ UNCHANGED jobs
Ends(w) == worker' = [worker EXCEPT ![w] = Done] /\ UNCHANGED jobs
StatementFails(w) ==
    /\ worker[w].at # "idle"
    /\ Ends(w)
    /\ UNCHANGED <<ledger, balances, maintenanceVars, rebuilt>>

(* rebuildCurrentBalances: DELETE, INSERT ... SELECT from the ledger, and   *)
(* the drift records are resolved.  The insert has no ON CONFLICT: a row    *)
(* that a posting put there meanwhile makes it fail.  Its two sums stand    *)
(* the other way round than in applyJournal.                                *)
Rebuilt(a, asOf) == [asOf |-> asOf, native |-> Reported(a, Authoritative(a, asOf)),
                     reporting |-> Authoritative(a, asOf)]
DeleteCurrent(w, asOf) ==
    /\ Begins(w, "insert", "current_balances", asOf)
    /\ balances' = [a \in BalanceAccounts |-> Missing]
    /\ rebuilt' = FALSE
    /\ UNCHANGED <<ledger, maintenanceVars>>
InsertCurrent(w) ==
    /\ worker[w].at = "insert"
    /\ LET asOf == worker[w].date
           new == {a \in BalanceAccounts : Touching(a, asOf) # {}}
       IN  IF \E a \in new : balances[a] # Missing
           THEN Ends(w) /\ UNCHANGED <<balances, rebuilt>>
           ELSE /\ balances' = [a \in BalanceAccounts |-> IF a \in new THEN Rebuilt(a, asOf) ELSE balances[a]]
                /\ rebuilt' = \A j \in ledger : j.on <= asOf
                /\ Continue(w, "resolve")
    /\ UNCHANGED <<ledger, maintenanceVars>>
Resolve(w) ==
    /\ worker[w].at = "resolve"
    /\ drift' = {r \in drift : ~(/\ r.key = worker[w].key
                                 /\ r.key # "current_balances" => r.date = worker[w].date)}
    /\ Ends(w)
    /\ UNCHANGED <<ledger, balances, daily, worth, health, rebuilt>>

(* finalizeDay copies the rows that are not newer than the day and sums     *)
(* them up; rebuildDailyBalances and rebuildNetWorth do the same and        *)
(* resolve the drift records of their key (resolved).                       *)
Signed(a, amount) == IF Class[a] = "asset" THEN amount ELSE IF Class[a] = "liability" THEN -amount ELSE 0
NetWorth(d) ==
    MapThenSumSet(LAMBDA a : Signed(a, daily[d][a].reporting), {a \in BalanceAccounts : daily[d][a] # Missing})
FinalizeDaily(w, d, resolved) ==
    /\ Begins(w, IF resolved = Missing THEN "worth" ELSE "worth, resolve", resolved, d)
    /\ daily' = [daily EXCEPT ![d] = [a \in BalanceAccounts |->
          IF balances[a] # Missing /\ balances[a].asOf <= d
          THEN [native |-> balances[a].native, reporting |-> balances[a].reporting] ELSE @[a]]]
    /\ UNCHANGED <<ledger, balances, worth, drift, health, rebuilt>>
FinalizeWorth(w) ==
    /\ worker[w].at \in {"worth", "worth, resolve"}
    /\ worth' = [worth EXCEPT ![worker[w].date] = NetWorth(worker[w].date)]
    /\ IF worker[w].at = "worth" THEN Ends(w) ELSE Continue(w, "resolve")
    /\ UNCHANGED <<ledger, balances, daily, drift, health, rebuilt>>

(* The checks: one statement compares, the next ones record what it found. *)
Drifted(key, d) ==
    CASE key = "current_balances" ->
           {a \in BalanceAccounts : balances[a] # Missing /\ balances[a].native # Authoritative(a, d)}
      [] key = "daily_balances" ->
           {a \in BalanceAccounts : /\ balances[a] # Missing /\ balances[a].asOf <= d
                             /\ daily[d][a] # Missing /\ daily[d][a].native # balances[a].native}
      [] key = "net_worth" -> IF worth[d] # Missing /\ worth[d] # NetWorth(d) THEN {"household"} ELSE {}
Check(w, key, d) ==
    /\ worker[w].at = "idle" /\ jobs < MaxJobs
    /\ jobs' = jobs + 1
    /\ worker' = [worker EXCEPT ![w] = [at |-> "record", key |-> key, date |-> d, found |-> Drifted(key, d)]]
    /\ UNCHANGED <<ledger, balances, maintenanceVars, rebuilt>>
RecordDrift(w) ==
    /\ worker[w].at = "record"
    /\ LET c == worker[w]
       IN  /\ drift' = drift \cup {[key |-> c.key, account |-> a, date |-> c.date] : a \in c.found}
           /\ health' = [health EXCEPT ![<<c.key, c.date>>] = IF c.found = {} THEN "healthy" ELSE "unhealthy"]
    /\ Ends(w)
    /\ UNCHANGED <<ledger, balances, daily, worth, rebuilt>>

ProjectionNext ==
    \/ \E j \in Journals : PostAndApply(j)
    \/ \E w \in Workers :
          \/ StatementFails(w) \/ InsertCurrent(w) \/ Resolve(w) \/ FinalizeWorth(w) \/ RecordDrift(w)
          \/ \E d \in Dates :
                \/ DeleteCurrent(w, d)
                \/ \E key \in {"daily_balances", "net_worth", Missing} : FinalizeDaily(w, d, key)
                \/ \E key \in ProjectionKeys : Check(w, key, d)
ProjectionSpec == ProjectionInit /\ [][ProjectionNext]_projectionVars

-----------------------------------------------------------------------------
LastDate == Max(Dates)

(* The balance of an account in the reporting currency is what its postings *)
(* add up to, whatever order and dates they came in, and again after a      *)
(* rebuild that covered every journal and that no posting, failure or       *)
(* second rebuild cut short (applyJournal, rebuildCurrentBalances).         *)
BalancesFollowLedger ==
    rebuilt => \A a \in BalanceAccounts \ Foreign :
                  IF Touching(a, LastDate) = {} THEN balances[a] = Missing
                  ELSE /\ balances[a] # Missing
                       /\ balances[a].native = Authoritative(a, LastDate)
                       /\ balances[a].reporting = Authoritative(a, LastDate)

(* 'records drift and rebuilds projections from authoritative postings':    *)
(* after a rebuild that covered every journal the drift check, which        *)
(* compares native amounts, finds nothing, in any currency.                 *)
RebuildRepairs == rebuilt => Drifted("current_balances", LastDate) = {}

(* What is invariant behind BalancesFollowLedger, whatever rebuilds are     *)
(* under way: the ledger is finite, and only an account that was posted to  *)
(* has a row, so that an insert that fills in the missing rows of touched   *)
(* accounts leaves nothing else behind.                                     *)
Row == [asOf : Nat, native : Int, reporting : Int]
Call == [at : {"idle", "insert", "resolve", "worth", "worth, resolve", "record"},
         key : ProjectionKeys \cup {Missing}, date : Nat,
         found : SUBSET (BalanceAccounts \cup {"household"})]

ProjectionTypeOK ==
    /\ ledger \subseteq Journals /\ IsFiniteSet(ledger)
    /\ balances \in [BalanceAccounts -> Row \cup {Missing}]
    /\ worker \in [Workers -> Call]
    /\ rebuilt \in BOOLEAN

RowsTouched ==
    \A a \in BalanceAccounts : balances[a] # Missing => Touching(a, LastDate) # {}

ProjectionInv == ProjectionTypeOK /\ RowsTouched /\ BalancesFollowLedger
=============================================================================
