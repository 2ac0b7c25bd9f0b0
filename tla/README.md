# A formal model of plus-one

plus-one is a household-finance assistant: people write to it in a chat
channel, teams of agents answer with checked artifacts, and the only way an
artifact changes the books is a *checked mutation*. This directory models the
parts of it in which an order of events nobody tested could lose money, apply
something twice, or answer something that did not happen.

Contents: [the system](#the-system) · [the modules](#the-modules) ·
[the runs](#the-runs) · [checked mutations](#checked-mutations) ·
[channel gateway](#channel-gateway) · [agents](#agents) ·
[working memory](#working-memory) · [records](#records) ·
[services](#services) · [findings](#findings) · [proofs](#proofs) ·
[not modelled](#not-modelled) · [plan](#plan). `PROJECT.json` maps every
definition to the lines it stands for, and lists hazards, runs and seeded
faults. A definition marked "(seeded fault: ...)" is a wrong variant of the one
after it, used to show that a property notices it; no specification uses it.

## The system

Everything runs in one Node.js process per gateway (`apps/engine`), on
PostgreSQL. JavaScript interleaves at each `await`; several processes, or a
restarted one, interleave at each statement.

| part | state it keeps | operations | what must hold |
|---|---|---|---|
| checked mutations (`packages/mutations`, `operations/mutation-command-repository.ts`, `domain-command-bridge.ts`, migration 0005) | `mutation_commands`, `mutation_receipts`, `mutation_readbacks`, domain rows | register, claim, execute, commit, read back, reconcile, fail | one effect per checked proposal; receipt, status and rows agree; in doubt is never failed; success is backed by evidence |
| mutation work cells (`checked-mutation-work-cell-coordinator.ts`, chart / capture / budgeting continuations) | none of their own | prepare, executePrepared, resume, finalize, cancel | a declined proposal has no effect; the task is verified when the answer says so |
| verification ledger (`verification-ledger.ts`, `verification-runtime.ts`, `state-machine.ts`) | tasks, runs, attempts, artifacts, verdicts, transitions | create, transition, link maker artifact, record verdict, complete, fail | verified work has an accepting verdict on the linked artifact; nothing stays open |
| team execution (`packages/runtime/src/execution`, `team-runtime.ts`) | plans, work cells, agent calls | plan, make, check, execute, retry | a call changes the books once however often it retries, and ends |
| orchestration (`agents/orchestrator.ts`, `workflows`) | the suspended workflow of a conversation, the results of a turn | delegate, propose, confirm, decline, continue | effects of a turn lie in one step; the reply is true; a turn ends |
| channel gateway (`channel-gateway.ts`, `active-turn-registry.ts`) | slots with an active turn, a queue and a drain per conversation | submit, run, drain, shutdown | one turn at a time and in order per conversation; nothing lost but at shutdown |
| final delivery (`final-delivery-handler.ts`, `PostgresDeliveryRepository`) | `outbound_deliveries` | reserve, send, mark delivered / failed / ambiguous | a message is not sent twice without a trace; a record does not contradict what happened |
| working memory and pending interactions (`orchestrator-session-memory.ts`, `tools/working-memory.ts`, `pending-interactions.ts`, `conversation-turn-router.ts`) | the document of a household, its mutex, versioned interaction rows | inspect, propose, claim, write, read back, expire, complete, recover | a change is written on what was shown, in time, once, and its record is true |
| accounting (`packages/accounting`, `accounting-request-materializers.ts`, migration 0004) | accounts, mappings, periods, drafts, journals | materialize, post, correct, change the chart, read back | postings fit their accounts; one reversal and one replacement |
| ingestion and period close (`packages/ingestion`, migration 0006) | batches, rows, reconciliations, period events | upload, normalize, import, reconcile, close, reopen | closed books are final; a batch is posted by one confirmation |
| planning (`packages/planning`, migrations 0008 and 0025) | budgets, obligations, goals, debt plans | activate, update, archive | versions may overlap; no account is mapped twice to a category on one day |
| reporting (`packages/reporting`, migration 0009) | balances, daily balances, net worth, drift | apply, finalize, check, rebuild | projections equal the ledger |
| scheduler (`application-scheduler.ts`, `PostgresSchedulerRepository`) | `scheduled_jobs`, `scheduled_runs` | claim, run with retries, complete | an occurrence reaches the user once; its outcome is recorded once |
| telegram (`telegram-polling-receiver.ts`, `telegram-update-processor.ts`, `pairing-service.ts`, `channel-pairing.ts`) | polling offset, pairing requests, principals, lanes | poll, receive, pair, approve, revoke | nothing acknowledged unhandled; requests bounded as far as calls can race; an approval stands |
| logging (`packages/runtime/src/logging`) | queue, barriers, health of the sinks | log, write, flush, close | a flush that resolved is complete |
| process and launcher (`gateway-runtime.ts`, `daemon-runtime.ts`, `live-cli`) | pid file, readiness, signal handlers | start, stop, status | no live gateway is lost from sight |
| query evidence, contracts, migrations runner | none, or read-only | - | - |

How they interact: a channel message passes the receiver and the gateway's
registry and starts an orchestrator turn; the turn calls teams, whose maker and
checker write the verification ledger; a checked mutation artifact is executed
by its team or becomes a proposal; the user's answer (a later turn, or two of
them at once) resumes or cancels the command through the coordinator; the
command's handler writes the books, the plans or the imports, and the posting
transaction updates the projections; the final response goes out through
delivery. The scheduler starts the same turns on its own. The parts share no
memory: they meet in PostgreSQL rows, and that is where their races are.

Hard behaviour, and where: COMMIT without an answer and retries of a
transaction (`serializable-runner.ts`); a state machine spread over two tables
that no single transaction updates (`command-state-resolver.ts`); retries of a
whole team execution with new command ids (`team-lead-supervisor.ts`); two
answers of one user (`chart-mutation-runtime.ts`, `pending-interactions.ts`);
turns that were aborted and go on (`orchestrator-session-memory.ts`); proposals
resolved against older books (`accounting-journal-handler.ts`); queues that
drain while work arrives (`active-turn-registry.ts`, `dispatcher.ts`); deadlines
that race a send (`final-delivery-handler.ts`); claims that outlive their
process (`delivery-scheduler.ts`). The full list, each with its line and the
property that covers it, is `hazards` in `PROJECT.json`.

## The modules

| module | what it is |
|---|---|
| `MutationStore` | the tables of the checked-mutation subsystem and the statements on them, with `StoreSpec`: any statements, in any order |
| `CheckedMutation` | concurrent calls of the coordinator over that store, one action per await, with faults and crashes |
| `MutationOutcome` | the promise: one outcome per checked proposal, decided once, success only for a verified effect |
| `CheckedMutationRefinement` | the mapping of the first two onto the third: what an observer of books, ledger and answers sees |
| `CheckedMutationProofs` | theorems about the above, the store by itself first |
| `TurnRegistry` | `ActiveTurnRegistry`: slots, queues, drains and shutdown at the grain of event-loop jobs |
| `ChannelGateway` | extends `TurnRegistry` with `handleInbound`, the turn, its deadline, and `FinalDeliveryHandler` over the delivery tables |
| `TurnRegistryProofs`, `ChannelGatewayProofs` | theorems about the two |
| `VerificationLedger` | tasks, artifacts, verdicts, runs and attempts, one operator per method of the repository |
| `TeamExecution` | extends the ledger: one call of a team with its supervisor, work cells and agent calls |
| `TeamResult`, `DelegatedCall` | what a call returns, and its promise: one result that says whether the books changed |
| `TeamCallRefinement` | the mapping of `TeamExecution` onto `DelegatedCall` |
| `OrchestratorTurn` | the conversation's workflow, the model loop and its tools, and the answer to a proposal |
| `WorkingMemory` | the document, its mutex, the tools, the router and the pending interactions |
| `Books` | accounts, mappings, periods, drafts and journals, and the requests that change them |
| `PeriodClose` | extends the books with imports, reconciliations, closes and reopenings |
| `Projections` | balances, daily balances, net worth, drift and rebuilds |
| `Planning` | budgets, obligations, savings goals, debt plans |
| `Scheduler`, `Telegram`, `Logging`, `Launcher` | the processes around the conversation |
| `AgentProofs`, `WorkingMemoryProofs`, `RecordProofs`, `ProjectionProofs`, `ServiceProofs` | theorems about agents, working memory, books with planning, projections, and services |
| `MCCheckedMutation`, `MCChannelGateway`, `MCWorkingMemory`, `MCPeriodClose`, `MCProjections`, `MCPlanning`, `MCScheduler`, `MCTelegram`, `MCLauncher` | values for their constants |
| `MCCalls`, `MCTurns`, `MCConversation`, `MCAgents`, `MCRecords`, `MCServices` | the instances TLC checks |

## The runs

Components that share no state would multiply each other's states without
adding an interleaving that matters. The instance modules therefore hold several
of them and a variable `part` (or `scene`) that `Init` chooses and nothing
changes: a behaviour is one of the chosen part, and every action of every part
is explored.

| run | parts | distinct states | shows |
|---|---|---|---|
| `mutation` | checked mutations | 519,000 | one effect, consistent evidence, and the refinement of `MutationOutcome` |
| `calls` | three scenes of checked mutations | 318,000 | only checked commands are applied; calls return; retrying settles |
| `turns` | registry; gateway | 206,000 | one turn at a time, in order, each ends; shutdown waits for all and returns |
| `conversation` | gateway; working memory | 1,589,000 | at most one post per message with a true record; confirmed changes of memory |
| `agents` | team call; orchestrator turn | 173,000 | results rest on checked work, one effect per call and turn, everything ends |
| `records` | books; projections; planning | 221,000 | the constraints hold the books together against stale proposals |
| `services` | scheduler; telegram; logging; launcher | 1,567,000 | nothing runs twice, is acknowledged unhandled, lost or forgotten |
| `wedge`, `changes`, `correction`, `rebuild`, `variance` | one each | - | the disagreements under [Findings](#findings) |

Deadlock is checked in `mutation` and `calls`, where a call that waits for a
lock must not wait for ever. The other runs stop when their messages, requests
or bounded counters are used up, and say `CHECK_DEADLOCK FALSE`. Symmetry is
used only in runs without liveness properties, over sets whose members no
definition tells apart.

## Checked mutations

### State and actions

`MutationStore` has one variable per table or column that matters: `row` (the
status in `mutation_commands`), `receipts`, `readback`, `applied` (how often
the domain rows of a command were committed, which the program does not count
and the books show), `task` (the status of the verification task from
`checker_validated` on) and `lock` (who holds the `FOR UPDATE` lock of
`claim_mutation_command`). An *envelope* is one complete command with its id,
key, payload and confirmation; two envelopes with the same id or key are a
replay that drifted, two with the same proposal are rivals for one checked
artifact. Constraints and triggers of migrations 0005 and 0019 are guards.

The writes inside a SERIALIZABLE transaction (domain rows, receipt, status) are
invisible until COMMIT, so a transaction is represented by its lock, and
`ApplyCommit` publishes them in one step. A client that goes away after it sent
COMMIT leaves the lock to `Orphan`: the server still decides. Waiting for a row
lock is an action that is not enabled.

`CheckedMutation` gives each call a program counter:

| code | actions |
|---|---|
| `execute`: artifact and verdict checks, `register` | `Start`, `Register`, `Insert` |
| `reconcile` (up to three rounds: read command, read task, move task, mark pending, re-read) | `ReadCommand`, `ReadTask`, `MoveTask`, `MarkPending`, `Resolved` |
| `SerializableMutationRunner.run` | `Begin` (takes the snapshot), `Claim`, `Advance` (handler, bridge, COMMIT sent), `Acknowledged`, `LookupReceipt` |
| the server | `ServerCommits`, `OrphanAborts` |
| catch of `execute` | `Reconcile` at "error", `MarkFailed`, `Reconcile` at "failed" |
| `performReadback`, `recordReadback` | `ReadBack`, `Record`, `UseExisting`, `Replay` |
| `finalize` | `FinalRead`, `FinalMove` |
| faults | `TransactionFault`, `ClaimFault`, `AckLost`, `StorageFault`, `Crash` |
| `chart-mutation-runtime.cancel` | `Cancel` |

`reconcile` is called at five places of `execute` and does something else after
each; `cont` says which. The three kinds of error are those `execute` tells
apart: `receiptLookupRequired`, a plain one, and a plain one whose cause was a
serialization failure.

### Instances

`mutation` has two calls; a command, a drifted replay of it and a rival for its
proposal; two attempts; two faults; and a user who may decline. `calls` has
three scenes: `guards` (two calls; a good command, one without exact
confirmation, one that reuses a command id, one that was not accepted; one
fault), `rivals` (two calls of one command, one fault) and `retry` (one call at a
time, three faults, submitted again for ever).

Why these bounds are enough to be interesting: every race in the code is
between two parties for one row (register, task transition, mark pending,
commit, read-back, final transition), and a third call only repeats the part of
one of them; the theorems cover any number of calls. Two faults let a COMMIT
become undecided *and* the reconciliation after it fail; two attempts make both
answers of the retry bound happen (`MaxAttempts` is 1..5 in the code's schema).
The restart of a process is a `Crash` followed by a new `Submit`.

### Properties

- `EffectOnce`: a checked proposal changes the books at most once.
- `ReceiptMatchesEffect`: receipt, status and domain rows are one transaction.
- `InDoubtNotFailed`: while a COMMIT is undecided nobody settles the command as
  failed. This is what makes `markExecutionFailed` after a lost connection safe.
- `VerifiedAnswer`: success means effect, receipt, passed read-back and a
  verified task.
- `OnlyCheckedApplied`: nothing unaccepted or unconfirmed is applied.
- `KeepsPromise`: the refinement. The outcome is read off the effect and its
  read-back, what is published off the task; both move once.
- `CallReturns`, `RetrySettles`: calls end, and retrying settles the task.

Also proved, with no run of their own: `LedgerNeverAhead` (the task never shows
what the command has not reached), `CancelledNeverApplied` (declining wins
completely or loses completely) and `GuardNeverRaises` (no statement runs into
the exception of `guard_mutation_command_update`).

### Fairness

There is weak fairness of `Work(p)`, because the event loop resumes every call
whose query was answered, and of `ServerDecides(e)`, because PostgreSQL decides
each COMMIT it received or rolls an orphaned session back. A call that waits for
a lock has no enabled step, and the holder's progress frees it, so weak fairness
is enough. Faults, crashes and users get none. The scene `retry` adds weak
fairness of submitting. Nothing in the repository resubmits a command by
itself: that is an assumption on the environment (a user who answers again), and
`RetrySettles` is to be read that way. It holds with one caller at a time; with
two concurrent ones the first finding refutes it.

## Channel gateway

### State and actions

A *work* is one arrival of a platform message; a message delivered twice is two
works with one `Message`. `TurnRegistry` models `ActiveTurnRegistry`: `slotAt`
is its Map, `slots` the slot objects (a closure can hold one that has left the
Map, so they are kept apart), `work` what became of each turn, `gate` the
shutdown. JavaScript runs a job to its end, so the interesting steps are the
jobs between: after `run` cleared `active`, the `finally` that schedules the
drain or drops the slot is a later job, and so are the next round of the drain
loop and the `finally` after the loop. `job` says which of them is pending.

| code | actions |
|---|---|
| `submit`, `run` | `Submit`, `EndTurn` |
| `scheduleDrain` after a turn that `submit` started | `Settle` |
| the drain loop, and its `finally` | `LoopOn`, `EndDrain` |
| `shutdown`, `drainIdle` | `Close`, `Closed` |
| `recordInboundMessage`, then `submit` with the deadline running | `RecordInbound`, `SubmitTurn` |
| orchestrator, reservation, send, `markDelivered` / `markDeliveryFailed` | `Respond`, `Reserve`, `StartSend`, `Post`, `SendFails`, `SendReturns`, `MarkDelivered`, `Delivered`, `MarkDeliveryFailed` |
| `AbortSignal.timeout` | `Expire`, `StartExpired`, `LateUpdate` |
| failing statements, process exit | `StorageFault`, `LateFault`, `Crash` |

`abortable` lets a turn end while the statement or the send it awaited is still
under way. So `Expire` ends the turn, decides at once whether an interrupted
reservation or send took effect, and leaves the updates that will still reach
the delivery row in `late`, in any order: an aborted `markDelivered` and the
`markDeliveryFailed('ambiguous')` that follows it are both unconditional.
Each turn has a new response id, so a reservation never meets an older one.

A turn awaits at least once, so it cannot end before a job that was already
waiting when it began (`EndTurn` needs `job = "none"`).

### Instances

In `turns` the registry has four turns of one conversation and one of another,
with shutdown and restart at any time; the gateway has a message delivered twice
and a follow-up, without crash or fault, but with a model, a platform and a
database that need never answer. In `conversation` the same three works meet one
crash and one failing statement. Four turns are one that `submit` starts, one
that waits, one that arrives between two rounds of the drain, and one that
arrives after the loop found the queue empty. Conversations share nothing but
the Map and the shutdown. The copies of a message can overlap in every await, or
be separated by the crash.

### Properties

- `OneTurn`: never two turns of one conversation at a time.
- `FirstComeFirstServed`: turns start in the order they were accepted.
- `ShutdownReturns`: a shutdown returns, and when it has, no accepted turn is
  queued or running.
- `TurnsEnd`: every accepted turn ends. A submission between the last look at
  the queue and the deletion of the drain is not forgotten; in the gateway, a
  turn that expired in its queue does not block the ones behind it.
- `PostedOnce`, `PostLeavesTrace`: one post per platform message, and none
  without a delivery row.
- `RecordTruthful`, `TimeoutIsRecorded`: `delivered` is backed by a post, the
  answer of a handler agrees with the row, and a timeout after the post leaves
  a settled row.

`FirstComeFirstServed` and the second half of `ShutdownReturns` are stated
`unless coupled`. When a call of the registry runs in the one job between the
end of a direct turn and its `scheduleDrain`, it finds the slot neither active
nor draining: a submission then starts at once, ahead of the queue, and
`drainIdle` can resolve too early. The composed program does not open that
window: a submission follows the answer of a PostgreSQL query, which arrives in
a later turn of the event loop. The history variable `coupled` records that it
was opened. `OneTurn` and `TurnsEnd` hold even then.

### Fairness

The registry by itself assumes that the event loop runs its jobs, that a turn
ends (it has a deadline), and that a shutdown whose promises settled returns.
The gateway assumes less: callbacks, timers, and the start of an expired turn.
The model, the platform and the database need never answer.

## Agents

### State and actions

`VerificationLedger` has the rows a work cell keeps: the status of its `task`,
whether it has a `linked` maker artifact, its latest `verdict`, and the `run`
and `attempt` of each agent. `TeamExecution` is one call of `runTeamLead` over
it. `lead` says where the supervisor is, `at` what each work cell awaits, and
`res` what a cell returned. A team is of one of four kinds: `report` has no
effect, `execute` runs the mutation in the same call (transaction capture),
`confirm` waits for the user (chart of accounts), `unwired` cells declare an
effect that their coordinator does not prepare.

| code | actions |
|---|---|
| `team-runtime.ts`: completing a request before the lead plans | `MaterializeRequest` |
| `TeamLeadSupervisor.run`, `assessRetry` | `Plan`, `Supervise`, `Reject` |
| `TeamExecutor.executeWorkCell` | `CreateTask`, `SelectContract`, `BeginMaker`, `SaveMaker`, `ValidateMaker`, `BeginChecker`, `SaveVerdict`, `ValidateChecker`, `Conclude`, `FailCell` |
| `AgentInvocationRunner` | `StartRun`, `StartAttempt`, `Generate`, `EndAttempt`, `EndRun` |
| `executePrepared` | `ExecuteMutation`: verified, or thrown with or without the effect, as `CheckedMutation` allows |
| the signal of the turn | `Abort` |

Work cells of a parallel plan are independent processes: when one throws,
`Promise.all` ends the call and the others go on behind it.

`OrchestratorTurn` is a conversation: a suspended workflow run that a message
resumes, the model loop with the tools its step offers, delegations side by
side, the repetition of a generation after a working-memory failure, the reply
built from results when the model never submits one, and the answer to a
proposed change with the continuation of a capture. The model chooses anything
its tools allow. A delegated call returns or throws in one step what `DelegatedCall`
promises of it, and `TeamExecution` is shown to keep that promise.

### Properties

- `VerifiedIsChecked`: a verified result rests on tasks the ledger verified, by
  an accepting verdict on the linked artifact, and so does every mutation.
- `CallKeepsPromise`: the refinement. A call changes the books at most once. Each
  execution has a new command id, so nothing below ties a retry to what was done
  before; it is the supervisor that must not retry an execution whose mutation
  threw. The caller of `runTeamLead` sees one result, which is "persisted"
  exactly when the books changed, or an error; after either, nothing that the
  call left behind changes the books, and a verified mutation is never hidden by
  an error. (A caller whose turn was aborted no longer waits; that turn is given
  up, `GiveUp`.) `OneEffect`, its first sentence by itself, has no run of its
  own and is proved.
- `WorkIsSettled`: when the work has ended, cancelled and timed out work
  included, and no statement failed, no run or attempt of any agent is left
  running and the task of every work cell is terminal, unless a mutation has it
  or a proposal was left to nobody. The task of the lead itself is not meant:
  `team-runtime.ts` creates it and no code moves it on from `created`.
- `TeamCallEnds`: a call ends, and so do the cells it left behind.
- `EffectsInOneStep`: calls of a turn that changed or may have changed something
  belong to one step of the model.
- `TurnAnswers`: a turn comes to a reply or an error, whatever the model does.

The instance has one call of each kind with two executions, an abort at any time
and one failing statement, a plan for either of two cells and one for both; and
a conversation of two messages with three model steps, two delegations and two
tool calls a step. A retry needs two executions, a race two cells, and the
repetition of a generation three steps. `ShouldRetry` is as liberal as
`assessRetry`: one piece of work that failed in a way a retry may help, or one
without a failure, is enough for a further execution.

Fairness: the supervisor, each task and the turn go on, because the event loop
resumes them, PostgreSQL answers or fails, and every call of a model has a
deadline (`agent-invocation-runner.ts`), which the model allows at any time.

## Working memory

`WorkingMemory` models the document of a household (`doc`: who wrote each entry
last), the pending interactions (`row`), the mutex per household and one `turn`
per message. A turn that the gateway gave up goes on until it next calls the
model, beside the turn of the following message; a process that dies leaves its
rows, and the message may be delivered again.

| code | actions |
|---|---|
| a message, its redelivery | `Send`, `Replay` |
| `findOpen`, `findExpired`, classification | `FindOpen`, `ClassifyInput` |
| `claim`, `resolvePendingWorkingMemoryMutation`, `recoverResolvingInteraction` | `Claim`, `ResolvePending`, `Recover`, `Examine` |
| `OrchestratorSessionMemory` under its mutex | `Load`, `Write`, `Readback` |
| reply, `complete`, `expire` | `Reply`, `Record` |
| tools `inspect`, `mutate`, `propose` | `Inspect`, `Mutate`, `Propose`, `Validate`, `Persist` |
| time, deadline, exit | `ExpireProposal`, `AbortTurn`, `Stop` |

- `WritesOnWhatWasShown`: a write finds the document as it was when the change
  was proposed, so it undoes nothing that another member saved since.
- `ApprovedInTime`: a proposal is written only when its member approved it, in
  a turn that began before it expired. `claim` itself does not look at the time.
- `RecordIsTrue`: "applied" was written, or others have written what comes to the
  same: an entry that says the same, or the removal of what was to be removed.
  "rejected" never was written. A recovery judges from the document alone, and by
  content (`EffectIsPresent`), so it cannot tell whose change it finds; deletions
  are meant like any other change.
- `OutcomeIsFinal`: a recorded outcome is not changed by a turn that was given
  up and is still at work.

What an entry says is the constant `Says`. The read-back after a write
(`ReadbackVerified`) asks that the content is there and was not there before, so a
replacement by the same words is recorded as failed, although it was written.
A message that brings an intent of its own closes an expired proposal first
(`Record`) and goes on as a normal turn, also when another turn has already given
the row its outcome.

The instance: a proposal of one member, two further messages of hers that
answer it, propose something else or neither, a message of another member who
saves an entry of his own, and one crash, abort or failing statement. Proposals
create, replace, delete or clear. The last message of a member proposes nothing
in the instance (`Answerable`), for no message could answer it. `MCSays` lets the
second message of the one say what the other says. The document is written as a
whole and compared by its revision, so one existing and one new entry suffice.

## Records

A *request* is resolved against the books as they are (`materialize`), takes its
time in a team, and is committed later in a SERIALIZABLE transaction, which is
one step; its effect is read back afterwards. Requests are processes, so every
commit meets books other than the ones its request was checked against.

`Books` has accounts, source mappings, periods, drafts and journals.
`CaptureRequest` and `CaptureDraft` resolve a transaction by identifiers or by
names, `FindPeriod` and `CreatePeriod` give it a month, `ResolveJournal` works
out a reversal, a replacement or both, `ChartRequest` and `ChartDraft` a change
of the chart. `PostJournal`, `ChangeChart` and `ChangeMapping` are the commits;
their guards (`JournalFits`, `ChartFits`, `MappingFits`) are the constraints and
triggers of migration 0004, one operator each. The entries of a request are a
set: they are posted in one transaction, and their order cannot be seen. `Refuse` is the rollback,
`ReadBack` the comparison. `PeriodClose` adds documents (`FindDocument`,
`Receive`, `Normalize`, `MarkChecked`), imports (`ResolveImport`,
`ConfirmImport`), and `Reconcile`, `Close` and `Reopen`; `events` is the history
of each month in the order of its rows.

- `PostingsFitAccounts`: a posting is in the currency of its account, whose
  class is the one it had, although the chart changes meanwhile.
- `CorrectedOnce`: a journal is reversed once, replaced once, and exactly.
- `ClosedBooksAreFinal`: while a period stays closed its journals do not change.
- `HistoryIsTrue`: closes and reopenings alternate, a reopening names the close
  before it, and the state of the period is what the last event says.
- `BatchPostedOnce`: what was posted for a batch comes of one confirmation of it,
  whichever of several made side by side is committed first, and a batch that
  was posted says so. The handler locks the batch and each row and refuses what
  it does not find as it was normalized. A decision may name a row of another
  batch, in the model as in the code: `ingestion-repository.ts:238` looks the two
  up by their own ids and never compares them. Which rows a confirmation names is
  left to the checker of the ingestion team, so no property says that every row
  is posted by its own batch.

Three requests are enough for a change that lands between the resolution and
the commit of a second one and is corrected by a third.

`Projections`: a posting and its balances are one transaction, while each
statement of a maintenance call commits by itself, because it is given a pool.
`PostAndApply`, `InsertCurrent`, `DeleteCurrent`, `FinalizeDaily`,
`FinalizeWorth`, `Check`, `RecordDrift`, `Resolve` are those statements. A
foreign account has a native and no reporting balance. `BalancesFollowLedger`
holds for accounts in the reporting currency: after any postings in any order,
and again after a rebuild that covered every journal and was not cut short; for
foreign ones the finding of `rebuild` refutes it. Two maintenance calls and three
accounts: one plain, one liability, one foreign.

`Planning`: five commands from activation of budgets, obligations, goals, debt
plans and archiving. A row is its key with the command that inserted it, because
archiving frees a key. Versions of a scope may overlap: migration 0025 dropped the
trigger of 0008 that refused them, and two tests rely on it. What is left is the
rule for mappings (`budget_mappings_no_active_overlap`): an account is mapped to a
category once at a time. `MappedOnce` says what the sums of a budget need of it:
no day of an allocation has two mappings of an account to its category in force,
although versions share mappings, overlap, are archived, and their keys are used
again. `RowCountsOnce`, which the view `budget_variance` would need in addition,
is refuted by a run of its own. The five budgets of the instance meet, touch on
one day, share a mapping and name a category of another one; five commands allow
an archive and a second row on the freed key between them.

## Services

`Scheduler`: `Scan`, `LockRows` and `InsertRuns` are the claim transaction with
its snapshot, `FOR UPDATE SKIP LOCKED` and unique run key; the claims of a call
are a set that `StartClaim` takes in the order of the query, oldest due time
first; `RunTarget`,
`Deliver`, `CompleteRun` the dispatch of a claim with its retries; `ClaimFails`,
`CompleteFails` and `Die` fail at each place, before or after the effect.
`Rearm` is whoever owns a job and moves its next run. `OccurrenceOnce`: an
occurrence reaches the user at most once. `OutcomeRecordedOnce`: a recorded
outcome is never rewritten, and a success is recorded only for what was
delivered. A run whose process died stays `claimed`; nothing in the code takes
it up again, so there is no liveness property here.

`Telegram`: the polling loop (`Start`, `DeleteWebhook`, `GetUpdates`,
`HandlePolled`, `ApiFails`), the webhook (`HandlePosted`), the processor
(`ReceiveUpdate`, `JudgePairing`, `UpsertRequest`, `Reply`,
`ResolveConversation`, `StartNewConversation`, `Inbound`), and operators
(`ReadForApproval`, `Consume`, `CountFailure`, `Revoke`). Calls throw at every
step (`HandleThrows`, `ApprovalFails`) and the process dies (`Crash`).
`HandledBeforeAcknowledged`: what Telegram will not deliver again was handled to
the end. `PendingBounded`: the list of open requests is read before the insert,
so calls of the webhook that run side by side pass the bound `MAX_PENDING`, by at
most one for each call beyond the first; while polling, where one call runs at a
time, never more than `MAX_PENDING` are open. The instance has both modes and two
concurrent calls. `ApprovalStands`: two approvals of one request leave the
household of the first. Three updates of three users let requests compete for one
place; the same user writes again when an update is delivered again. The
constants of the code are scaled to one tick or one attempt.

`Logging`: `Log` with displacement by severity, `Process` and `Delivered`, the
sinks with writes that end well or fail (`WriteEnds`, `WriteFails`), `Flush`,
`CloseLogger`, `Drain`, `CloseSinks`, `Restart`. What a sink does with its files
is not modelled: nothing outside the sink sees it.
`FlushIsComplete`: when a flush resolves, no record logged before it is queued
or in a sink's hands. One place in the queue makes displacement and control
records beyond the capacity happen within four records.

`Launcher`: the life of a gateway process, `StartDaemon`, `StopDaemon`, `Status`
with every step and failure between, the live CLI, and the state file, which may
hold a pid, nothing or garbage. `NoGatewayLost` speaks of daemon commands that
ran one after the other: a live process is then the one in the file, or has been
sent SIGTERM by the start that gave it up. With overlapping commands, a command
that dies, or the CLI's own start it is not true, and nothing in the repository
says that it is; see the observations below.

## Findings

Each is the violation of one property by a run of its own.

1. **`wedge`.** After `markExecutionPending` the resolver reads the command
   again and returns whatever it finds (`command-state-resolver.ts:56`). If
   another call committed in between, the task stays at `execution_pending`
   while this call records the read-back; the pair
   (`readback_verified`, `execution_pending`) is then rejected by every later
   `reconcile`, although the books are right. No effect is lost or repeated, but
   the task can never be completed. `checked-mutation-recovery.test.ts:101`
   expects that state to be repaired when found one step earlier.
2. **`changes`.** "No changes were made. Please try again."
   (`orchestrator.ts:1813`) is said when every delegated call of a turn threw. A
   team that executes its own mutation can throw after the commit, when the
   read-back fails, for example; the repeated request then makes a new command.
3. **`correction`.** `accounting-journal-handler.ts:97` binds the two drafts of a
   reverse-and-replace to the one artifact of the command, and
   `journal_drafts_artifact_once` (migration 0004, line 172) lets an artifact
   have one draft: such a correction is never posted.
   `accounting-journal-handler.test.ts:83` replaces the database.
4. **`rebuild`.** `rebuildCurrentBalances` (`projection-rebuilder.ts:19`) has its
   two sums the other way round than `projection-writer.ts:15`, so a rebuild
   leaves a foreign account with a native balance of 0, which the drift check
   then reports. `reporting-projections.test.ts:215` has no foreign account.
5. **`variance`.** The view `reporting.budget_variance`
   (`0025_allow_overlapping_budget_versions.sql:24-37`) joins an allocation with
   every mapping of its category that shares a day with its period, and then with
   every posting of the period to the mapped account; it does not compare the day
   of the posting with the mapping. When the period meets two mappings of an
   account that follow each other, each posting is counted twice.
   `reporting-projections.test.ts:145` expects each row to show what was posted;
   its versions share one mapping.

Observations, which no run counts as a violation because no document denies them
or their outcome is safe. The models contain all of them that concern their
component.

- `reconcile` reads command and task in two queries and calls the pair
  inconsistent when another caller moved both in between, so a concurrent caller
  can be refused; `checked-mutation-concurrency.test.ts:18` expects each to get
  the receipt. The mutation itself succeeds.
- Only a raw `40001` of the domain handler is retried: the bridge normalises its
  own errors first, so a serialization failure in `claim` or `commit` settles
  the command as failed on its first attempt (compare
  `serializable-runner.test.ts:32`).
- `chart-mutation-runtime.resume` records a new confirmation id on every call,
  so a repeated answer is a drifted replay and refused.
- Between the start of a send and the end of `markDelivered`, every error that is
  neither an abort nor a `TypeError` counts as a failed send
  (`final-delivery-handler.ts:258`), so an answer that cannot be parsed, or a
  failing `UPDATE` after an acknowledged send, records a posted message as
  `failed`. `RecordTruthful` therefore says nothing of `failed` rows.
- `selectTeamResult` prefers a verified result to a proposal of the same turn,
  which is then neither asked about nor kept.
- The reconciliation and import handlers are not registered in `team-runtime.ts`
  (169-171), and the read-back of planning commands is a stub
  (`planning-command-handlers.ts:38`).
- An obligation with a category that is unknown or archived silently has none
  (`obligation-repository.ts:11`), and an allocation whose key is used by a
  second savings goal moves to it.
- The lockout of a pairing code is decided on the count of an earlier read
  (`pairing-service.ts:177`): codes tried at the same time
  each see a count below the bound.
- Two first messages of a chat through the webhook start two conversations
  (`telegram-update-processor.ts:147`), and webhook calls can pass the bound on
  pairing requests, by one for each call beyond the first that runs at the time.
- The task of a team's lead stays `created` for ever (`team-runtime.ts:265`).
- Nothing compares the batch of an import with the batch of the rows it decides
  (`ingestion-repository.ts:238`).
- Two daemon starts at once spawn two gateways (`daemon-runtime.ts:94`). The
  CLI's stop waits for ever for an engine that exited before
  (`runtime-controller.ts:160`).
- A scheduled run of a process that died stays `claimed`, and with overlap
  policy `skip` its job is not claimed again.

## Proofs

A run checks two calls, three envelopes or four turns; a theorem holds for every
value of the constants that the named assumptions allow: any number of calls,
proposals, turns, messages, jobs, processes, documents and requests, and any
bound on faults. Every safety invariant and action property of the passing runs
is proved. Each proof has the same shape: an inductive invariant, which TLC
checked on the instances of the runs first, one lemma per action or group of
actions that it is kept, and the property from it.

### Checked mutations

`StoreSafe` says that `StoreInv` is inductive for `StoreSpec`: the table
constraints and status guards alone make the effect unique and the evidence
consistent, whoever issues the statements. `EffectOnce` is not inductive by
itself. Two envelopes of one proposal are kept apart by
`OneCommandPerProposal`; a second `ApplyCommit` of one envelope by
`ReceiptMatchesEffect`, since a receipt implies a status past
`execution_pending`; and a commit of a failed command by `InDoubtNotFailed`.

The second part of `CheckedMutationProofs` proves `ImplementsStore` (every step of a call is a
step of the store or leaves it alone), which carries `StoreInv` over, and the
inductive `IndInv`. What it adds, and why:

- `LockHeld`: a row is locked by the call inside its transaction, so
  `ServerCommits` can only publish what that call prepared;
- `Started`: a command past `registered` has a task past `checker_validated`;
  with it `Cancel` cannot meet a running command;
- `Remembers`: what a call read stays true up to forward moves (`Since`) while
  it awaits. This is the heart of the argument: a stale status is a lower bound
  of the present one, so the compare-and-swap that acts on it either fails or
  moves the task to a status its command has reached.

From it follow `TypeCorrect`, `EffectAtMostOnce`, `ReceiptIsEvidence`,
`InDoubtSafe`, `LedgerTrails`, `CancelledIsSafe`, `AnswerIsBacked`,
`GuardIsQuiet`, and with a second small induction `OnlyChecked`.

`PromiseKept` is the refinement `Spec => KeepsPromise`. The outcome an observer
sees is a quantified statement about all commands of a proposal; `OutcomeByRow`
turns it into the status of its only command. Then each statement of the store
is either quiet (`QuietStatement`), or decides one proposal
(`DecidingStatement`: COMMIT, a failed execution, a read-back), and each move of
the ledger publishes an outcome that was decided, declines, or is not seen
(`LedgerPublishes`). The answers are a second observation: only `FinalRead` and
`FinalMove` make a call answer success (`WorkAnswers`), and there the outcome is
verified because the ledger never runs ahead.

### Channel gateway

`TurnRegistryProofs` proves `RegistryInv` inductive and `OneTurn` from it. `OneTurn`
alone is not inductive: two running turns of a conversation are the same only
because each runs in a slot of its conversation (`RunningInSlot`) and because a
slot that runs, queues or awaits a job is the one the Map holds (`SlotsKept`),
which is what makes deleting by key safe. A drain must not start a turn over a
running one (`JobsIdle`), and must start turns of its own conversation
(`QueueOfConversation`).

The order of turns needs `OrderInv`: what was accepted in a conversation is what
has started, followed by exactly the queue of its slot (`StartedBefore`), and a
slot at rest has an empty queue (`SlotsRest`), so that a submission that starts
at once overtakes nobody. From it follow `FirstComeFirstServedAlways` and
`ClosedMeansEndedAlways`, the safety half of `ShutdownReturns`.

`ChannelGatewayProofs` proves that every step of the gateway is a step of the
registry or leaves it alone, so both carry over (`GatewayOneTurn`,
`GatewayServesInOrder`), and the inductive `DeliveryInv`: what a handler awaits
determines its row and the platform (`Fits`), a late update belongs to a turn
that its deadline ended and says "delivered" only after a post (`LateTrue`),
such a turn left a settled row or the update that will settle it
(`SettledLater`), and one arrival holds a message (`ClaimedOnce`, the unique
inbound row). `PostedOnce`, `PostLeavesTrace`, `RecordTruthful` and
`TimeoutIsRecorded` follow.

### Agents

`TeamInv` of `TeamExecution`: a result that is verified or has an effect rests
on an accepted verdict (`ResultRests`); executions and their cells start in
order, and cells left behind belong to earlier ones or the current (`InOrder`);
a mutation was made by the last execution, for which the supervisor is not in a
phase from which it could plan again (`AppliedLast`); a row is running only
while its agent is at work, as long as no statement failed (`RowsSettled`), from which and from
what a returned cell says of its task `WorkIsSettled` follows.
`OneEffect` needs `AppliedLast` together with the fact that a plan of an
executing team has one cell.

`CallPromiseKept` is the refinement `TeamSpec => CallKeepsPromise`. Its heart is
that a mutation which was made belongs to the only cell of the present execution
(`OnlyCell`) and that a cell says "persisted" only of one that was made
(`PersistedApplied`, with a small induction of its own). So an assembled result
cannot mix a change with a failure (`AssembledIsPromised`), and a call that
throws for any other reason than its mutation has changed nothing
(`RejectedUnchanged`).

`OrchestratorInv` says that a turn whose calls
touched the books is `Barred` from delegating in a later step, across the
repetition of a generation; `EffectsInOneStep` follows.

### Working memory

`MemoryInv`: a row keeps the one answer it was claimed with (`RowTrue`), what a
turn has read of an interaction no longer changes (`InteractionTrue`), a turn
changes the document for an interaction only after an approval in time
(`AnswerTrue`), and whoever is between loading and reading back holds the mutex
and has the document as it is (`TurnTrue`). The last part makes
`WritesOnWhatWasShown` true of turns that were given up, too. `ApprovedInTime`,
`OutcomeIsFinal` follows from the others. For `RecordIsTrue` a recovery that infers
"applied" from the document has to lead to a write: an entry that is there was
written by whom the document names (`EntriesWritten`), one that is gone since the
proposal was removed by a change that was written (`BasesKept`), and so the change
was made or has been made superfluous (`Achieved`).

### Records

`CloseInv` joins what the books need: a journal stands for a draft of its own
request (`JournalsKnown`), which is why two commits cannot post one entry twice;
a correction is the only one of its type (`CorrectionsKnown`); periods do not
share a month (`PeriodsApart`); what a request carries to its commit names
things that exist (`RequestsKnown`), although it was resolved against older
books. `PostingsFitAccounts`, `HistoryIsTrue` and `CorrectedOnce` are parts or
consequences; `ClosedBooksAreFinal` is an action property of the same invariant.
`BatchInv` is `BatchPostedOnce` with the batches that there are:
`BatchPostedOnceAlways` has no hypothesis about which rows a confirmation decides.

`PlanningInv` keeps the mappings of an account to a category row apart, archived or
not, which is more than `MappedOnce` says and what the trigger compares. It does
not rest on the versions, which may overlap.

### Projections

`BalancesFollowLedger` compares a balance that was kept by additions with a sum
over the ledger. Its proof needs what a sum over a set is, in three steps:

- The induction theorems of the library take an operator as a parameter, which
  the provers cannot instantiate. `FiniteInduction` takes the property as a set
  `Q` of sets instead: the empty set is in it, and one more element of `S` does
  not lead out of it. It rests on the library's minimal elements of a
  well-founded relation (`WFMin`), through `LeastNatural`.
- `MapThenSumSet` takes the members of a set in the order of a `CHOOSE`, and its
  recursive function is a `CHOOSE` itself. `TotalIsCount` shows that it is the
  number of units debited less the number credited, where a unit is a pair of a
  journal and a number up to its amount. Unlike a sum, a set of units has a
  cardinality, and so nothing depends on the order. `TotalAdds`, which says that
  one more journal adds its amount, follows.
- `PostedRows` and `PostingAdds` join the two sides: `applyJournal` adds to the
  row what the ledger's sum grows by, whatever the date of the journal.

`ProjectionInv` adds `RowsTouched`: only an account that was posted to has a row.
The insert of a rebuild writes the accounts with journals and takes for granted
that the others have no row; it fails when one of its own has been written since
the delete.

`RebuildRepairsOneCurrency` is about the finding of `rebuild`. The run refutes
`RebuildRepairs` with a foreign account; the theorem says that it holds for every
household without one. The sums that are the other way round are therefore the
only thing that keeps a complete rebuild from repairing the current balances.

### Services

- `ScheduleInv`: a claim has one dispatcher (`ClaimsApart`), claims still to be
  dispatched are undelivered, and the one under way is delivered only by its own
  delivery (`ClaimsTrue`). Crashes leave rows `claimed`, which nobody takes up
  again; that is why `OccurrenceOnce` holds.
- `LauncherInv`: as long as commands do not overlap, a live gateway is in the
  file, given up, or the child of a start that has still to write it
  (`Accounted`), and a command overwrites no live one (`FileKnown`).
- `LoggingInv`: each record that is queued or being written is among the pending
  sequences, once, and above the last barrier that resolved.
- `TelegramInv`: what lies below the polling offset is handled and the batch
  starts at it (`PolledInOrder`), a user has one open request
  (`OneOpenRequest`), and the users who have an open request or are about to
  write one are at most `MAX_PENDING` and the other calls that can run
  (`RoomForApplicants`): only a verdict adds a user, and while it is given the
  calls about to write are those others.

### Assumptions

They are named in the modules, and TLC evaluates each in the runs that use it.
`EnvelopeAssumption`, `LockAssumption`, `WorkAssumption`, `TaskAssumption`: the
constants have their types, and the extra values (`Free`, `None`, a lead) are not
members of the sets they are told apart from. `PolicyAssumption`: `MaxAttempts`
in 1..5 as in the schema of the policy. `TeamAssumption`: a team that executes or
confirms mutations has plans of one work cell, which is what the coordinator
accepts for a mutation. `SchedulerAssumption`, `TelegramAssumption` (updates are
a sequence, the handlers are finitely many and the poller is one of them, the
limits are positive),
`LauncherAssumption`, `LoggingAssumption`, `TurnAssumption`,
`BoundAssumption`: types of constants.
`ProjectionsAssumption`: types, too; the effective dates are finitely many (a date
has four digits for its year), and the value that marks a missing row is not a
row. `BooksAssumption`, `CloseAssumption`: identifiers of requests,
opened periods and charts are different, and a batch is of a document that may be
uploaded. `MemoryAssumption`: types of constants; what an entry says (`Says`) is free.
`PlanningAssumption`: allocations and mappings end no earlier than they begin, as
the constraints of migration 0008 say.

### Only model-checked

- All liveness (`CallReturns`, `RetrySettles`, `TurnsEnd`, `ShutdownReturns`,
  `TeamCallEnds`, `TurnAnswers`), which is out of the prover's reach together
  with `ENABLED`.
- The five properties of [Findings](#findings), which are false.

## Not modelled

- The content of payloads and hashes: two envelopes are equal or not. Amounts
  are 1, or a proposal is sound or not; exchange rates and entries of more than
  two postings are not there, and read-backs compare what was committed with
  what is there, not amounts.
- `requestRevision`, `inspectResumableTasks` and `listResumable`: nothing in the
  program calls them, so a task has one artifact and is not resumed.
- The fallback from one model to the next within an agent call; prompts, schemas
  and the parsing of model output. What a model may answer is a free choice.
- Channel commands (`/new`), the typing heartbeat, and the replay of an existing
  delivery reservation, which needs a response id that occurs twice.
- The HTTP route `/plus-one/inbound`, which calls the orchestrator without the
  registry and so without order between two requests of a conversation.
- The Markdown of the working-memory document and its limits; parsing of
  uploaded documents and the score of probable duplicates; formatting,
  redaction and the text of log lines, and the rotation of log files, which no
  property of the dispatcher depends on.
- Query evidence and its SQL validation, contracts and configuration: parsers
  and read-only code without state to go wrong. The migrations runner is a
  sequential script under one advisory lock.
- PostgreSQL's serializable snapshot isolation: a transaction is one step, and a
  conflict is a fault it may suffer. Where a transaction of the code is not
  SERIALIZABLE (claims of the scheduler, pairing, rebuilds), its statements are
  modelled one by one as far as their order can be seen.

## Plan

What a next version would add, the most useful first.

1. Theorems beside the other findings, as `RebuildRepairsOneCurrency` is beside
   that of `rebuild`: which states of a command and its task the resolver can repair
   with one caller at a time, and which budgets the variance view counts right.
2. `CheckedMutation` with the handlers of `Books` inside its transaction.
3. Channel commands, and the route that goes around the registry.
