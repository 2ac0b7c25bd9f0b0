--------------------------- MODULE MutationStore ---------------------------
(***************************************************************************)
(* The durable state of the checked-mutation subsystem and the SQL         *)
(* statements that change it: operations.mutation_commands,                *)
(* mutation_receipts, mutation_readbacks, the status column of             *)
(* operations.verification_tasks, and the domain rows (journals, accounts, *)
(* budgets) a command writes in the accounting or planning schema.         *)
(*                                                                         *)
(* An envelope stands for one complete checked command: its command id,    *)
(* idempotency key, type, payload, confirmation and the (task, checked     *)
(* proposal) it executes.  Two envelopes that share a command id or a key  *)
(* are a replay that drifted; two that share a proposal are two commands   *)
(* for one checked artifact.                                               *)
(***************************************************************************)
EXTENDS Naturals

CONSTANTS
  Envelopes,  \* complete checked commands a caller may submit
  Proposals,  \* (task, checked maker artifact) pairs
  Callers,    \* concurrent calls of the coordinator
  CommandId, IdemKey, Proposal,  \* identity of an envelope
  Accepted,   \* envelopes equal to a maker artifact with an accepted verdict
  Confirmed,  \* envelopes whose external confirmation is exact, or not needed
  Free, Orphan

ASSUME EnvelopeAssumption ==
  /\ Proposal \in [Envelopes -> Proposals]
  /\ Accepted \subseteq Envelopes
  /\ Confirmed \subseteq Envelopes

ASSUME LockAssumption ==
  /\ Free \notin Callers
  /\ Orphan \notin Callers
  /\ Free # Orphan

VARIABLES
  row,        \* status of the command row, "none" while there is no row
  receipts,   \* envelopes with a row in mutation_receipts
  readback,   \* the row in mutation_readbacks, "none" while there is none
  applied,    \* how often the domain effect of the envelope was committed
  task,       \* status of the verification task of a proposal
  lock        \* holder of the FOR UPDATE lock on the command row

store == <<row, receipts, readback, applied, task, lock>>

RowStatus == {"none", "registered", "execution_pending", "committed",
              "readback_verified", "execution_failed", "readback_failed"}

\* The statuses a task can have once its maker artifact was accepted.
TaskStatus == {"checker_validated", "execution_pending", "committed",
               "readback_verified", "execution_failed", "readback_failed",
               "verified", "partial"}

TerminalTask == {"verified", "partial", "execution_failed", "readback_failed"}

Effective == {"committed", "readback_verified", "readback_failed"}

StoreTypeOK ==
  /\ row \in [Envelopes -> RowStatus]
  /\ receipts \subseteq Envelopes
  /\ readback \in [Envelopes -> {"none", "passed", "failed"}]
  /\ applied \in [Envelopes -> Nat]
  /\ task \in [Proposals -> TaskStatus]
  /\ lock \in [Envelopes -> Callers \cup {Free, Orphan}]

StoreInit ==
  /\ row = [e \in Envelopes |-> "none"]
  /\ receipts = {}
  /\ readback = [e \in Envelopes |-> "none"]
  /\ applied = [e \in Envelopes |-> 0]
  /\ task = [t \in Proposals |-> "checker_validated"]
  /\ lock = [e \in Envelopes |-> Free]

-----------------------------------------------------------------------------
\* Queries.

Present(e) == row[e] # "none"

\* findByIdempotency: the rows bound to the key of e (at most one).
SameKey(e) == {f \in Envelopes : Present(f) /\ IdemKey[f] = IdemKey[e]}

\* (seeded fault: the confirmation of the artifact is not compared)
MissingConfirmationCheck(e) == e \in Accepted

\* The validate_mutation_command_insert trigger.
Insertable(e) == e \in Accepted \cap Confirmed

\* The unique constraints of mutation_commands, in the order of their indexes.
IdTaken(e) == \E f \in Envelopes : Present(f) /\ CommandId[f] = CommandId[e]
KeyTaken(e) == SameKey(e) # {}

\* (seeded fault: no unique constraint on the checked proposal)
NoProposalConstraint(e) == FALSE

ProposalTaken(e) ==
  \E f \in Envelopes : Present(f) /\ Proposal[f] = Proposal[e]

-----------------------------------------------------------------------------
\* Statements.  Each one is a transaction of its own.

InsertCommand(e) ==
  /\ Insertable(e)
  /\ ~ IdTaken(e) /\ ~ KeyTaken(e) /\ ~ ProposalTaken(e)
  /\ row' = [row EXCEPT ![e] = "registered"]
  /\ UNCHANGED <<receipts, readback, applied, task, lock>>

MarkExecutionPending(e) ==
  /\ row[e] = "registered"
  /\ row' = [row EXCEPT ![e] = "execution_pending"]
  /\ UNCHANGED <<receipts, readback, applied, task, lock>>

\* (seeded fault: the command is failed without waiting for its row lock)
FailWithoutLock(e) ==
  /\ row[e] = "execution_pending"
  /\ row' = [row EXCEPT ![e] = "execution_failed"]
  /\ UNCHANGED <<receipts, readback, applied, task, lock>>

\* An UPDATE guarded by the expected status: it waits for the row lock first.
MarkExecutionFailed(e) ==
  /\ lock[e] = Free
  /\ row[e] = "execution_pending"
  /\ row' = [row EXCEPT ![e] = "execution_failed"]
  /\ UNCHANGED <<receipts, readback, applied, task, lock>>

\* (seeded fault: a second read-back replaces the first)
ReplaceReadback(e, passed) ==
  /\ e \in receipts
  /\ readback' = [readback EXCEPT ![e] = IF passed THEN "passed" ELSE "failed"]
  /\ row' = [row EXCEPT ![e] = IF passed THEN "readback_verified"
                                         ELSE "readback_failed"]
  /\ UNCHANGED <<receipts, applied, task, lock>>

RecordReadback(e, passed) ==
  /\ row[e] = "committed"
  /\ e \in receipts
  /\ readback[e] = "none"
  /\ readback' = [readback EXCEPT ![e] = IF passed THEN "passed" ELSE "failed"]
  /\ row' = [row EXCEPT ![e] = IF passed THEN "readback_verified"
                                         ELSE "readback_failed"]
  /\ UNCHANGED <<receipts, applied, task, lock>>

\* ledger.transition: SELECT ... FOR UPDATE, compare, append, update.
TaskTransition(t, from, to) ==
  /\ task[t] = from
  /\ task' = [task EXCEPT ![t] = to]
  /\ UNCHANGED <<row, receipts, readback, applied, lock>>

-----------------------------------------------------------------------------
\* The SERIALIZABLE domain transaction.  Its writes (domain rows, receipt,
\* command status) are invisible until COMMIT, so the transaction is its lock.

AcquireClaim(e, p) ==
  /\ lock[e] = Free
  /\ row[e] = "execution_pending"
  /\ lock' = [lock EXCEPT ![e] = p]
  /\ UNCHANGED <<row, receipts, readback, applied, task>>

\* (seeded fault: the client returns to its pool inside the transaction)
ForgottenRollback(e) == UNCHANGED store

Rollback(e) ==
  /\ lock' = [lock EXCEPT ![e] = Free]
  /\ UNCHANGED <<row, receipts, readback, applied, task>>

\* The client is gone but the server still holds an undecided COMMIT.
Abandon(e) ==
  /\ lock' = [lock EXCEPT ![e] = Orphan]
  /\ UNCHANGED <<row, receipts, readback, applied, task>>

\* (seeded fault: the receipt is written and the status update is missing)
CommitKeepsPending(e) ==
  /\ row[e] = "execution_pending"
  /\ e \notin receipts
  /\ applied' = [applied EXCEPT ![e] = @ + 1]
  /\ receipts' = receipts \cup {e}
  /\ lock' = [lock EXCEPT ![e] = Free]
  /\ UNCHANGED <<row, readback, task>>

ApplyCommit(e) ==
  /\ row[e] = "execution_pending"
  /\ e \notin receipts
  /\ applied' = [applied EXCEPT ![e] = @ + 1]
  /\ receipts' = receipts \cup {e}
  /\ row' = [row EXCEPT ![e] = "committed"]
  /\ lock' = [lock EXCEPT ![e] = Free]
  /\ UNCHANGED <<readback, task>>

-----------------------------------------------------------------------------
\* Everything that ever happens to the store, whoever does it.
StoreNext ==
  \/ \E e \in Envelopes :
       \/ InsertCommand(e) \/ MarkExecutionPending(e) \/ MarkExecutionFailed(e)
       \/ \E passed \in BOOLEAN : RecordReadback(e, passed)
       \/ \E p \in Callers : AcquireClaim(e, p)
       \/ Rollback(e)
       \/ lock[e] # Free /\ (Abandon(e) \/ ApplyCommit(e))
  \/ \E t \in Proposals, from, to \in TaskStatus : TaskTransition(t, from, to)

StoreSpec == StoreInit /\ [][StoreNext]_store

\* The updates the guard_mutation_command_update trigger lets through.
Successors(s) ==
  CASE s = "registered" -> {"execution_pending", "execution_failed"}
    [] s = "execution_pending" -> {"committed", "execution_failed"}
    [] s = "committed" -> {"readback_verified", "readback_failed"}
    [] OTHER -> {}

\* The statement leaves the evidence the trigger asks for.
Evidence(e, to) ==
  /\ to = "committed" => e \in receipts'
  /\ to = "readback_verified" => readback'[e] = "passed"
  /\ to = "readback_failed" => readback'[e] = "failed"

GuardAccepts(e) ==
  row'[e] # row[e] /\ Present(e) =>
    row'[e] \in Successors(row[e]) /\ Evidence(e, row'[e])

-----------------------------------------------------------------------------
(* Properties of the store.                                                  *)

Of(t) == {e \in Envelopes : Proposal[e] = t}

\* A checked proposal changes the books at most once, however many calls,
\* commands, retries and crashes it goes through.
EffectOnce ==
  /\ \A e \in Envelopes : applied[e] <= 1
  /\ \A e, f \in Envelopes :
       e # f /\ Proposal[e] = Proposal[f] => applied[e] = 0 \/ applied[f] = 0

\* The receipt, the command status and the domain rows are one transaction: a
\* caller that finds any of them may rely on the other two.
ReceiptMatchesEffect ==
  \A e \in Envelopes :
    /\ e \in receipts <=> applied[e] > 0
    /\ e \in receipts <=> row[e] \in Effective

\* The status of a read back command says what its read-back found.
ReadbackMatchesRow ==
  \A e \in Envelopes :
    /\ readback[e] = "passed" <=> row[e] = "readback_verified"
    /\ readback[e] = "failed" <=> row[e] = "readback_failed"

\* At most one command ever exists for a checked proposal.
OneCommandPerProposal ==
  \A e, f \in Envelopes :
    Present(e) /\ Present(f) /\ Proposal[e] = Proposal[f] => e = f

\* While a transaction holds the command row, and in particular while its
\* COMMIT is undecided, no other call can settle the command as failed.
InDoubtNotFailed ==
  \A e \in Envelopes : lock[e] # Free => row[e] = "execution_pending"

StoreInv ==
  /\ StoreTypeOK
  /\ EffectOnce /\ ReceiptMatchesEffect
  /\ ReadbackMatchesRow /\ OneCommandPerProposal
  /\ InDoubtNotFailed
=============================================================================
