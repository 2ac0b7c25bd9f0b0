------------------------------ MODULE Planning ------------------------------
(***************************************************************************)
(* The planning records (packages/planning): budgets with their scopes,    *)
(* categories, allocations and account mappings, recurring obligations,    *)
(* savings goals and debt plans.  Each command is one SERIALIZABLE         *)
(* transaction of a checked mutation: all of it is done or none.  Keyed    *)
(* records are updated in place; an archived one keeps its row, and its    *)
(* key is free for a new row.                                              *)
(***************************************************************************)
EXTENDS Naturals, FiniteSets

CONSTANTS
    Budgets,      \* activate_budget proposals: scope, categories, allocations (category with
                  \* first and last day of its period) and mappings
    Obligations,  \* update_obligation proposals: key, category and occurrences
    Goals,        \* upsert_savings_goal proposals: key, accounts and allocations
    Debts,        \* upsert_debt_plan proposals: key and liability account
    MaxCommands   \* bound on commands

ASSUME PlanningAssumption ==
    /\ MaxCommands \in Nat
    /\ \A b \in Budgets : \A x \in b.allocations \cup b.mappings :
          x.from \in Nat /\ x.to \in Nat /\ x.from <= x.to

VARIABLES
    active,           \* for each table and key the command that inserted the row that is
                      \* not archived, 0 for none; a row is its key with that command
    versions,         \* budget_versions: scope row, command and budget_allocations
    accountMappings,  \* budget_category_account_mappings
    obligations,      \* recurring_obligations: row and its category row, in a set
    occurrences,      \* obligation_occurrences: obligation row and date
    backing,          \* savings_goal_accounts: goal row and account
    allocated,        \* virtual_allocations: goal row, account and key
    loans,            \* loan_agreements: row and account
    debts,            \* debt_plans: row, account and loan row
    audit,            \* domain_audit_records: row, action and command
    commands          \* commands executed so far
planningVars == <<active, versions, accountMappings, obligations, occurrences, backing,
                  allocated, loans, debts, audit, commands>>
budgetVars == <<versions, accountMappings>>
cashFlowVars == <<obligations, occurrences, backing, allocated, loans, debts>>

ScopeKeys == {<<"scope", b.scope>> : b \in Budgets}
CategoryKeys == {<<"category", c>> : c \in UNION {b.categories : b \in Budgets}}
ObligationKeys == {<<"obligation", o.key>> : o \in Obligations}
GoalKeys == {<<"goal", g.key>> : g \in Goals}
DebtKeys == {<<"debt", d.key>> : d \in Debts}
PlanningKeys == ScopeKeys \cup CategoryKeys \cup ObligationKeys \cup GoalKeys \cup DebtKeys

PlanningInit ==
    /\ active = [k \in PlanningKeys |-> 0]
    /\ versions = {} /\ accountMappings = {} /\ obligations = {} /\ occurrences = {}
    /\ backing = {} /\ allocated = {} /\ loans = {} /\ debts = {} /\ audit = {} /\ commands = 0

-----------------------------------------------------------------------------
Executes == commands < MaxCommands /\ commands' = commands + 1
(* INSERT ... ON CONFLICT (key) WHERE archived_at IS NULL DO UPDATE. *)
UpsertedKeys(ks) == [k \in PlanningKeys |-> IF k \in ks /\ active[k] = 0 THEN commands + 1 ELSE active[k]]
PlanRow(k) == <<k, UpsertedKeys({k})[k]>>
Audited(row, action) == audit' = audit \cup {[row |-> row, action |-> action, command |-> commands + 1]}

(* (seeded fault: ranges that share only an end do not overlap) *)
OverlapsInside(a, b) == a.from < b.to /\ b.from < a.to

(* Ranges include both ends (prevent_budget_mapping_overlap).               *)
Overlaps(a, b) == a.from <= b.to /\ b.from <= a.to

(* BudgetRepository.activate.  Versions of a scope may overlap.  A mapping  *)
(* that is there already is left alone; one that overlaps another of its    *)
(* category and account (trigger budget_mappings_no_active_overlap), or an  *)
(* allocation or mapping of a category the proposal does not name, fails    *)
(* the command.                                                             *)
NewVersion(b) ==
    [scope |-> PlanRow(<<"scope", b.scope>>), command |-> commands + 1,
     allocations |-> {[category |-> PlanRow(<<"category", a.category>>), from |-> a.from, to |-> a.to] :
                         a \in b.allocations}]
NewMappings(b) ==
    {[category |-> PlanRow(<<"category", m.category>>), account |-> m.account,
      direction |-> m.direction, from |-> m.from, to |-> m.to] : m \in b.mappings} \ accountMappings
BudgetFits(b) ==
    /\ {x.category : x \in b.allocations \cup b.mappings} \subseteq b.categories
    /\ \A m \in NewMappings(b), n \in accountMappings \cup NewMappings(b) :
          m # n /\ m.category = n.category /\ m.account = n.account => ~Overlaps(m, n)
ActivateBudget(b) ==
    /\ Executes /\ BudgetFits(b)
    /\ active' = UpsertedKeys({<<"scope", b.scope>>} \cup {<<"category", c>> : c \in b.categories})
    /\ versions' = versions \cup {NewVersion(b)}
    /\ accountMappings' = accountMappings \cup NewMappings(b)
    /\ Audited(<<<<"version", b.scope>>, commands + 1>>, "created")
    /\ UNCHANGED cashFlowVars

(* ObligationRepository.upsert: a category that is not active is no         *)
(* category; occurrences are upserted by their date.                        *)
UpdateObligation(o) ==
    /\ Executes
    /\ LET k == <<"obligation", o.key>>
           category == <<"category", o.category>>
       IN  /\ active' = UpsertedKeys({k})
           /\ obligations' = {r \in obligations : r.row # PlanRow(k)} \cup
                 {[row |-> PlanRow(k),
                   category |-> {<<c, active[c]>> : c \in {q \in PlanningKeys : q = category /\ active[q] # 0}}]}
           /\ occurrences' = occurrences \cup {<<PlanRow(k), d>> : d \in o.occurrences}
           /\ Audited(PlanRow(k), "updated")
    /\ UNCHANGED <<budgetVars, backing, allocated, loans, debts>>

(* SavingsGoalRepository.upsert: accounts and allocations are added, never  *)
(* removed; an allocation key of an account moves to the goal that names it *)
(* last.                                                                    *)
UpsertSavingsGoal(g) ==
    /\ Executes
    /\ LET k == <<"goal", g.key>>
       IN  /\ active' = UpsertedKeys({k})
           /\ backing' = backing \cup {<<PlanRow(k), a>> : a \in g.accounts}
           /\ allocated' = {r \in allocated : <<r.account, r.key>> \notin g.allocations} \cup
                 {[goal |-> PlanRow(k), account |-> p[1], key |-> p[2]] : p \in g.allocations}
           /\ Audited(PlanRow(k), "updated")
    /\ UNCHANGED <<budgetVars, obligations, occurrences, loans, debts>>

(* DebtPlanRepository.upsert: a new loan agreement each time, and the plan  *)
(* moves to it with its account.                                            *)
UpsertDebtPlan(d) ==
    /\ Executes
    /\ LET k == <<"debt", d.key>>
       IN  /\ active' = UpsertedKeys({k})
           /\ loans' = loans \cup {[row |-> commands + 1, account |-> d.account]}
           /\ debts' = {p \in debts : p.row # PlanRow(k)} \cup
                 {[row |-> PlanRow(k), account |-> d.account, loan |-> commands + 1]}
           /\ Audited(PlanRow(k), "updated")
    /\ UNCHANGED <<budgetVars, obligations, occurrences, backing, allocated>>

(* archivePlanningRecord: the row of an active key, and nothing that refers *)
(* to it.                                                                   *)
ArchivePlanningRecord(k) ==
    /\ Executes /\ active[k] # 0
    /\ active' = [active EXCEPT ![k] = 0]
    /\ Audited(<<k, active[k]>>, "archived")
    /\ UNCHANGED <<budgetVars, cashFlowVars>>

PlanningNext ==
    \/ \E b \in Budgets : ActivateBudget(b)
    \/ \E o \in Obligations : UpdateObligation(o)
    \/ \E g \in Goals : UpsertSavingsGoal(g)
    \/ \E d \in Debts : UpsertDebtPlan(d)
    \/ \E k \in PlanningKeys : ArchivePlanningRecord(k)
PlanningSpec == PlanningInit /\ [][PlanningNext]_planningVars

-----------------------------------------------------------------------------
(* The view reporting.budget_variance: the actual amount of an allocation   *)
(* sums the postings of its period once for each mapping of their account   *)
(* to its category that shares a day with the period.                       *)
Allocations == UNION {v.allocations : v \in versions}
CountedThrough(a) ==
    {m \in accountMappings : m.category = a.category /\ m.from <= a.to /\ m.to >= a.from}

(* The invariant behind MappedOnce: no two mappings of an account to a      *)
(* category row share a day, whether the row is archived or not.            *)
DatesKnown == \A m \in accountMappings : m.from \in Nat /\ m.to \in Nat
MappingsApart ==
    \A m, n \in accountMappings :
       m # n /\ m.category = n.category /\ m.account = n.account => ~Overlaps(m, n)
PlanningInv == DatesKnown /\ MappingsApart

(* However versions overlap, no day of an allocation has two mappings of an *)
(* account to its category in force: not the day on which two mappings      *)
(* meet, not with a mapping that another version brought, and not after the *)
(* category was archived and its key used again                             *)
(* (prevent_budget_mapping_overlap, BudgetRepository.activate).             *)
MappedOnce ==
    \A a \in Allocations : \A m, n \in CountedThrough(a) :
       m.account = n.account /\ (m.from .. m.to) \cap (n.from .. n.to) # {} => m = n

(* "actual_amount" of each row of the view, when versions overlap, is what  *)
(* was posted (test/integration/reporting-projections.test.ts:145): no      *)
(* posting is counted twice in a row.  It is when a long period meets two   *)
(* mappings of an account that follow each other, for the view compares a   *)
(* mapping with the period and not with the day of the posting.             *)
RowCountsOnce ==
    \A a \in Allocations : \A m, n \in CountedThrough(a) : m.account = n.account => m = n
=============================================================================
