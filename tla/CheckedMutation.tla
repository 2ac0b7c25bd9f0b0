-------------------------- MODULE CheckedMutation --------------------------
(***************************************************************************)
(* Concurrent calls of CheckedMutationWorkCellCoordinator.resume (or       *)
(* executePrepared): CheckedMutationExecutor.execute with the              *)
(* SerializableMutationRunner and the CommandStateResolver inside it, then *)
(* finalize.  Every database round trip is a step of its own, because the  *)
(* calls run in one event loop (and in several processes) and interleave   *)
(* at each await.  A call that ended is in "done" with its outcome in err; *)
(* the same or another envelope may be submitted again afterwards.         *)
(***************************************************************************)
EXTENDS MutationStore

CONSTANTS
  MaxAttempts,  \* SerializableMutationPolicy.maxAttempts
  MaxFaults,    \* bound on crashes, lost connections and failing statements
  Cancellable   \* proposals whose pending confirmation a user may decline

ASSUME PolicyAssumption ==
  /\ MaxAttempts \in 1..5
  /\ MaxFaults \in Nat
  /\ Cancellable \subseteq Proposals
  /\ Envelopes # {}

VARIABLES
  pc,        \* where each call is
  env,       \* the envelope it executes
  view,      \* the command status its resolver read last
  snap,      \* the command status in the snapshot of its transaction
  cont,      \* which reconcile call of execute it is in
  tries,     \* attempt number inside CommandStateResolver.reconcile
  attempt,   \* attempt number inside SerializableMutationRunner.run
  err,       \* the error it will throw: none, plain, conflict, lookup
  passed,    \* outcome of its read-back
  faults     \* faults so far

call == <<pc, env, view, snap, cont, tries, attempt, err, passed>>
vars == <<store, call, faults>>

ReconcileTries == 3

\* plain:    receiptLookupRequired is false
\* conflict: plain, and the cause was SQLSTATE 40001 raised inside the bridge
\* lookup:   receiptLookupRequired is true
ErrorKind == {"none", "plain", "conflict", "lookup"}

InResolver == {"rcRead", "rcTask", "rcMove", "rcMark", "rcReread"}
InTransaction == {"exec", "bridge", "commit", "sent"}
PC == InResolver \cup InTransaction \cup
      {"idle", "register", "insert", "resolved", "begin", "claim", "acked",
       "lookupCommit", "lookupConn", "markFailed", "readback", "record",
       "existing", "replay", "finalRead", "finalMove", "done"}

CallTypeOK ==
  /\ pc \in [Callers -> PC]
  /\ env \in [Callers -> Envelopes]
  /\ view \in [Callers -> RowStatus]
  /\ snap \in [Callers -> RowStatus]
  /\ cont \in [Callers -> {"first", "error", "failed", "pending", "final"}]
  /\ tries \in [Callers -> 1..ReconcileTries]
  /\ attempt \in [Callers -> 1..MaxAttempts]
  /\ err \in [Callers -> ErrorKind]
  /\ passed \in [Callers -> BOOLEAN]
  /\ faults \in 0..MaxFaults

NoEnvelope == CHOOSE e \in Envelopes : TRUE

Init ==
  /\ StoreInit
  /\ pc = [p \in Callers |-> "idle"]
  /\ env = [p \in Callers |-> NoEnvelope]
  /\ view = [p \in Callers |-> "none"]
  /\ snap = [p \in Callers |-> "none"]
  /\ cont = [p \in Callers |-> "first"]
  /\ tries = [p \in Callers |-> 1]
  /\ attempt = [p \in Callers |-> 1]
  /\ err = [p \in Callers |-> "none"]
  /\ passed = [p \in Callers |-> FALSE]
  /\ faults = 0

-----------------------------------------------------------------------------
(* Moves of the program counter; each one says what else of the call changes. *)

Goto(p, l) ==
  /\ pc' = [pc EXCEPT ![p] = l]
  /\ UNCHANGED <<env, view, snap, cont, tries, attempt, err, passed>>

Finish(p, kind) ==
  /\ pc' = [pc EXCEPT ![p] = "done"]
  /\ err' = [err EXCEPT ![p] = kind]
  /\ UNCHANGED <<env, view, snap, cont, tries, attempt, passed>>

\* Call CommandStateResolver.reconcile at point c of execute, holding error kind.
Reconcile(p, c, kind) ==
  /\ pc' = [pc EXCEPT ![p] = "rcRead"]
  /\ cont' = [cont EXCEPT ![p] = c]
  /\ tries' = [tries EXCEPT ![p] = 1]
  /\ err' = [err EXCEPT ![p] = kind]
  /\ UNCHANGED <<env, view, snap, attempt, passed>>

\* Back to idle, with nothing kept: the state of a call is in memory only.
Reset(p) ==
  /\ pc' = [pc EXCEPT ![p] = "idle"]
  /\ env' = [env EXCEPT ![p] = NoEnvelope]
  /\ view' = [view EXCEPT ![p] = "none"]
  /\ snap' = [snap EXCEPT ![p] = "none"]
  /\ cont' = [cont EXCEPT ![p] = "first"]
  /\ tries' = [tries EXCEPT ![p] = 1]
  /\ attempt' = [attempt EXCEPT ![p] = 1]
  /\ err' = [err EXCEPT ![p] = "none"]
  /\ passed' = [passed EXCEPT ![p] = FALSE]

\* runner.run throws: the executor reconciles before it decides what it means.
RunFailed(p, kind) == Reconcile(p, "error", kind)

\* runner.run returns a receipt: execute reconciles before it reads back.
RunSucceeded(p) == Reconcile(p, "pending", "none")

-----------------------------------------------------------------------------
(* Entry: execute checks the artifact and its verdict, then registers.       *)

Start(p, e) ==
  /\ pc[p] = "idle"
  /\ pc' = [pc EXCEPT ![p] = IF e \in Accepted THEN "register" ELSE "done"]
  /\ err' = [err EXCEPT ![p] = IF e \in Accepted THEN "none" ELSE "plain"]
  /\ env' = [env EXCEPT ![p] = e]
  /\ UNCHANGED <<store, view, snap, cont, tries, attempt, passed>>

\* validateReplay: the row found under the key must be this very envelope.
ValidateReplay(p) ==
  IF SameKey(env[p]) = {env[p]} THEN Reconcile(p, "first", "none")
                                ELSE Finish(p, "lookup")

Register(p) ==
  /\ pc[p] = "register"
  /\ IF KeyTaken(env[p]) THEN ValidateReplay(p) ELSE Goto(p, "insert")
  /\ UNCHANGED store

\* The INSERT, and what register makes of a refused one.
Insert(p) ==
  LET e == env[p] IN
  /\ pc[p] = "insert"
  /\ \/ /\ InsertCommand(e)
        /\ Reconcile(p, "first", "none")
     \/ /\ ~ Insertable(e)
        /\ Finish(p, "plain")
        /\ UNCHANGED store
     \/ /\ Insertable(e) /\ (IdTaken(e) \/ KeyTaken(e))
        /\ IF KeyTaken(e) THEN ValidateReplay(p) ELSE Finish(p, "plain")
        /\ UNCHANGED store
     \/ /\ Insertable(e) /\ ~ IdTaken(e) /\ ~ KeyTaken(e) /\ ProposalTaken(e)
        /\ Finish(p, "lookup")
        /\ UNCHANGED store

-----------------------------------------------------------------------------
(* CommandStateResolver.reconcile: read the command, read the task, move     *)
(* whichever is behind.  The two reads and the two moves are four separate   *)
(* transactions.                                                             *)

\* The task status one step behind command status v, the statuses level with
\* it, and where the ledger transition moves the task to.
Behind(v) ==
  CASE v \in {"registered", "execution_pending"} -> "checker_validated"
    [] v \in {"committed", "execution_failed"} -> "execution_pending"
    [] OTHER -> "committed"

Ahead(v) == IF v = "registered" THEN "execution_pending" ELSE v

Level(v) ==
  {Ahead(v)} \cup IF v = "readback_verified" THEN {"verified"} ELSE {}

\* The error reconcile throws, seen from the call site.
ResolverFailed(p, kind) ==
  IF cont[p] # "error" THEN Finish(p, kind)
  ELSE IF err[p] = "lookup" THEN Finish(p, "lookup") ELSE Goto(p, "markFailed")

\* A lost compare-and-swap: reconcile starts over, three times at most.
Stale(p, kind) ==
  IF tries[p] < ReconcileTries
  THEN /\ pc' = [pc EXCEPT ![p] = "rcRead"]
       /\ tries' = [tries EXCEPT ![p] = @ + 1]
       /\ UNCHANGED <<env, view, snap, cont, attempt, err, passed>>
  ELSE ResolverFailed(p, kind)

\* findByCommandId, before the switch and after markExecutionPending.
ReadCommand(p) ==
  /\ pc[p] \in {"rcRead", "rcReread"}
  /\ view' = [view EXCEPT ![p] = row[env[p]]]
  /\ pc' = [pc EXCEPT ![p] = IF @ = "rcRead" THEN "rcTask" ELSE "resolved"]
  /\ UNCHANGED <<store, env, snap, cont, tries, attempt, err, passed>>

AfterMove(p) == IF view[p] = "registered" THEN "rcMark" ELSE "resolved"

ReadTask(p) ==
  LET seen == task[Proposal[env[p]]] IN
  /\ pc[p] = "rcTask"
  /\ IF seen = Behind(view[p]) THEN Goto(p, "rcMove")
     ELSE IF seen \in Level(view[p]) THEN Goto(p, AfterMove(p))
     ELSE ResolverFailed(p, "lookup")      \* mutation_state_inconsistent
  /\ UNCHANGED store

MoveTask(p) ==
  LET t == Proposal[env[p]] IN
  /\ pc[p] = "rcMove"
  /\ \/ /\ TaskTransition(t, Behind(view[p]), Ahead(view[p]))
        /\ Goto(p, AfterMove(p))
     \/ /\ task[t] # Behind(view[p])      \* stale_task_state
        /\ Stale(p, "plain")
        /\ UNCHANGED store

MarkPending(p) ==
  LET e == env[p] IN
  /\ pc[p] = "rcMark"
  /\ \/ MarkExecutionPending(e) /\ Goto(p, "rcReread")
     \/ /\ row[e] # "registered"          \* mutation_command_state_conflict
        /\ Stale(p, "lookup")
        /\ UNCHANGED store

\* Continue execute at label l with no error in hand.
Continue(p, l) ==
  /\ pc' = [pc EXCEPT ![p] = l]
  /\ err' = [err EXCEPT ![p] = "none"]
  /\ attempt' = [attempt EXCEPT ![p] = IF l = "begin" THEN 1 ELSE @]
  /\ UNCHANGED <<env, view, snap, cont, tries, passed>>

\* execute branches on the state reconcile returned.
Proceed(p) ==
  LET v == view[p] IN
  CASE v = "readback_verified" -> Continue(p, "replay")
    [] v = "execution_pending" /\ cont[p] = "first" -> Continue(p, "begin")
    [] v = "committed" /\ env[p] \in receipts -> Continue(p, "readback")
    [] OTHER -> Finish(p, "lookup")

Resolved(p) ==
  /\ pc[p] = "resolved"
  /\ CASE cont[p] \in {"first", "pending"} -> Proceed(p)
       [] cont[p] = "error" ->
            IF view[p] \in {"committed", "readback_verified"} THEN Proceed(p)
            ELSE ResolverFailed(p, "lookup")
       [] cont[p] = "failed" -> Finish(p, err[p])
       [] cont[p] = "final" ->
            IF passed[p] /\ view[p] # "readback_failed"
            THEN Continue(p, "finalRead") ELSE Finish(p, "lookup")
  /\ UNCHANGED store

-----------------------------------------------------------------------------
(* SerializableMutationRunner.run.                                           *)

\* BEGIN ISOLATION LEVEL SERIALIZABLE; set_config takes the snapshot.
Begin(p) ==
  /\ pc[p] = "begin"
  /\ pc' = [pc EXCEPT ![p] = "claim"]
  /\ snap' = [snap EXCEPT ![p] = row[env[p]]]
  /\ UNCHANGED <<store, env, view, cont, tries, attempt, err, passed>>

\* claim_mutation_command: FOR UPDATE on the row as the snapshot shows it.
Claim(p) ==
  LET e == env[p] IN
  /\ pc[p] = "claim"
  /\ \/ /\ snap[p] = "execution_pending"
        /\ AcquireClaim(e, p)
        /\ Goto(p, "exec")
     \/ /\ snap[p] \in {"execution_pending", "committed", "readback_verified"}
        /\ row[e] # snap[p]               \* could not serialize access
        /\ RunFailed(p, "conflict")
        /\ UNCHANGED store
     \/ /\ snap[p] \in {"committed", "readback_verified"}
        /\ row[e] = snap[p]
        /\ IF e \in receipts THEN RunSucceeded(p) ELSE RunFailed(p, "lookup")
        /\ UNCHANGED store
     \/ /\ snap[p] \notin {"execution_pending", "committed", "readback_verified"}
        /\ RunFailed(p, "plain")
        /\ UNCHANGED store

\* handler.execute, bridge.commit and the COMMIT message succeed; their writes
\* stay inside the transaction.
Advance(p) ==
  /\ pc[p] \in {"exec", "bridge", "commit"}
  /\ Goto(p, CASE pc[p] = "exec" -> "bridge"
              [] pc[p] = "bridge" -> "commit"
              [] pc[p] = "commit" -> "sent")
  /\ UNCHANGED store

\* PostgreSQL decides a COMMIT it received.
ServerCommits(e) ==
  /\ lock[e] \in {Orphan} \cup {p \in Callers : pc[p] = "sent"}
  /\ ApplyCommit(e)
  /\ pc' = [p \in Callers |-> IF p = lock[e] THEN "acked" ELSE pc[p]]
  /\ UNCHANGED <<env, view, snap, cont, tries, attempt, err, passed, faults>>

OrphanAborts(e) ==
  /\ lock[e] = Orphan
  /\ Rollback(e)
  /\ UNCHANGED <<call, faults>>

Acknowledged(p) ==
  /\ pc[p] = "acked"
  /\ RunSucceeded(p)
  /\ UNCHANGED store

\* findReceipt after an undecided COMMIT, or after a lost connection.
LookupReceipt(p) ==
  /\ pc[p] \in {"lookupCommit", "lookupConn"}
  /\ IF env[p] \in receipts THEN RunSucceeded(p)
     ELSE RunFailed(p, IF pc[p] = "lookupCommit" THEN "lookup" ELSE "plain")
  /\ UNCHANGED store

\* markExecutionFailed, then reconcile the task, then rethrow.
MarkFailed(p) ==
  LET e == env[p] IN
  /\ pc[p] = "markFailed"
  /\ \/ MarkExecutionFailed(e) /\ Reconcile(p, "failed", err[p])
     \/ /\ row[e] # "execution_pending"
        /\ Finish(p, "lookup")
        /\ UNCHANGED store

-----------------------------------------------------------------------------
(* Read-back and finalize.                                                   *)

\* performReadback finds the receipt and the domain rows it names.
ReadBack(p) ==
  /\ pc[p] = "readback"
  /\ passed' = [passed EXCEPT ![p] = env[p] \in receipts /\ applied[env[p]] > 0]
  /\ pc' = [pc EXCEPT ![p] = "record"]
  /\ UNCHANGED <<store, env, view, snap, cont, tries, attempt, err>>

Record(p) ==
  LET e == env[p] IN
  /\ pc[p] = "record"
  /\ \/ RecordReadback(e, passed[p]) /\ Reconcile(p, "final", "none")
     \/ row[e] # "committed" /\ Goto(p, "existing") /\ UNCHANGED store

\* recordReadback lost: another call recorded the read-back first.
UseExisting(p) ==
  LET found == readback[env[p]] IN
  /\ pc[p] = "existing"
  /\ IF found = "none" THEN Finish(p, "plain")
     ELSE /\ pc' = [pc EXCEPT ![p] = "rcRead"]
          /\ cont' = [cont EXCEPT ![p] = "final"]
          /\ tries' = [tries EXCEPT ![p] = 1]
          /\ passed' = [passed EXCEPT ![p] = (found = "passed")]
          /\ UNCHANGED <<env, view, snap, attempt, err>>
  /\ UNCHANGED store

\* requireVerifiedReplay.
Replay(p) ==
  /\ pc[p] = "replay"
  /\ IF env[p] \in receipts /\ readback[env[p]] = "passed"
     THEN Goto(p, "finalRead") ELSE Finish(p, "lookup")
  /\ UNCHANGED store

\* (seeded fault: finalize takes the read-back for the verified task)
FinalReadOnly(p) ==
  /\ pc[p] = "finalRead"
  /\ Finish(p, IF task[Proposal[env[p]]] \in {"verified", "readback_verified"}
               THEN "none" ELSE "lookup")
  /\ UNCHANGED store

FinalRead(p) ==
  LET seen == task[Proposal[env[p]]] IN
  /\ pc[p] = "finalRead"
  /\ CASE seen = "verified" -> Finish(p, "none")
       [] seen = "readback_verified" -> Goto(p, "finalMove")
       [] OTHER -> Finish(p, "lookup")
  /\ UNCHANGED store

\* VerificationRuntime.complete: compare-and-swap on readback_verified.
FinalMove(p) ==
  LET t == Proposal[env[p]] IN
  /\ pc[p] = "finalMove"
  /\ \/ TaskTransition(t, "readback_verified", "verified") /\ Finish(p, "none")
     \/ /\ task[t] # "readback_verified"  \* stale_task_state
        /\ Finish(p, "plain")
        /\ UNCHANGED store

\* The caller takes the outcome; the call is over.
Return(p) ==
  /\ pc[p] = "done"
  /\ Reset(p)
  /\ UNCHANGED store

-----------------------------------------------------------------------------
(* Faults: statements that fail, connections and processes that are lost.    *)

MayRetry(p) == attempt[p] < MaxAttempts

\* A statement inside the transaction fails.  Only a raw 40001 from the
\* handler is retried; the bridge hands its errors out normalised.
TransactionFault(p) ==
  /\ pc[p] \in {"exec", "bridge", "sent"}
  /\ Rollback(env[p])
  /\ \/ /\ pc[p] = "exec" /\ MayRetry(p)
        /\ pc' = [pc EXCEPT ![p] = "begin"]
        /\ attempt' = [attempt EXCEPT ![p] = @ + 1]
        /\ UNCHANGED <<env, view, snap, cont, tries, err, passed>>
     \/ pc[p] = "exec" /\ ~ MayRetry(p) /\ RunFailed(p, "lookup")
     \/ pc[p] = "exec" /\ RunFailed(p, "plain")
     \/ pc[p] = "exec" /\ Goto(p, "lookupConn")
     \/ pc[p] = "bridge" /\ \E kind \in {"plain", "conflict"} : RunFailed(p, kind)
     \/ pc[p] = "sent" /\ Goto(p, "lookupCommit")

\* No transaction yet: overall timeout, no connection, 40001, lock timeout.
ClaimFault(p) ==
  /\ \/ pc[p] = "begin" /\ RunFailed(p, "lookup")
     \/ pc[p] = "begin" /\ RunFailed(p, "plain")
     \/ pc[p] = "begin" /\ Goto(p, "lookupConn")
     \/ pc[p] = "claim" /\ \E kind \in {"plain", "conflict"} : RunFailed(p, kind)
  /\ UNCHANGED store

\* The connection drops while COMMIT is on its way or answered.
AckLost(p) ==
  /\ \/ pc[p] = "sent" /\ Abandon(env[p])
     \/ pc[p] = "acked" /\ UNCHANGED store
  /\ Goto(p, "lookupCommit")

\* A statement outside the transaction fails: storage is unavailable.
StorageFault(p) ==
  /\ \/ pc[p] \in InResolver /\ ResolverFailed(p, "plain")
     \/ pc[p] \in {"lookupCommit", "lookupConn"} /\ RunFailed(p, "plain")
     \/ pc[p] = "record" /\ Goto(p, "existing")
     \/ /\ pc[p] = "readback"
        /\ passed' = [passed EXCEPT ![p] = FALSE]
        /\ pc' = [pc EXCEPT ![p] = "record"]
        /\ UNCHANGED <<env, view, snap, cont, tries, attempt, err>>
     \/ /\ pc[p] \in {"register", "insert", "markFailed", "existing", "replay",
                      "finalRead", "finalMove"}
        /\ Finish(p, "plain")
  /\ UNCHANGED store

\* The process dies: PostgreSQL rolls back whatever it did not see COMMIT for.
Crash(p) ==
  /\ pc[p] \notin {"idle", "done"}
  /\ CASE pc[p] = "sent" -> Abandon(env[p])
       [] pc[p] \in InTransaction \ {"sent"} -> Rollback(env[p])
       [] OTHER -> UNCHANGED store
  /\ Reset(p)

\* The user declines: VerificationRuntime.complete(partial).
Cancel(t) ==
  /\ TaskTransition(t, "checker_validated", "partial")
  /\ UNCHANGED <<call, faults>>

-----------------------------------------------------------------------------
Work(p) ==
  /\ \/ Register(p) \/ Insert(p)
     \/ ReadCommand(p) \/ ReadTask(p) \/ MoveTask(p) \/ MarkPending(p)
     \/ Resolved(p)
     \/ Begin(p) \/ Claim(p) \/ Advance(p) \/ Acknowledged(p)
     \/ LookupReceipt(p) \/ MarkFailed(p)
     \/ ReadBack(p) \/ Record(p) \/ UseExisting(p) \/ Replay(p)
     \/ FinalRead(p) \/ FinalMove(p) \/ Return(p)
  /\ UNCHANGED faults

Submit(p) == \E e \in Envelopes : Start(p, e) /\ UNCHANGED faults

Fault(p) ==
  /\ faults < MaxFaults
  /\ faults' = faults + 1
  /\ TransactionFault(p) \/ ClaimFault(p) \/ AckLost(p) \/ StorageFault(p)
     \/ Crash(p)

Next ==
  \/ \E p \in Callers : Submit(p) \/ Work(p) \/ Fault(p)
  \/ \E e \in Envelopes : ServerCommits(e) \/ OrphanAborts(e)
  \/ \E t \in Cancellable : Cancel(t)

Spec == Init /\ [][Next]_vars

\* The event loop resumes every call whose query was answered, and PostgreSQL
\* decides every COMMIT it received.  Nothing says a fault or a user acts.
ServerDecides(e) == ServerCommits(e) \/ OrphanAborts(e)

FairSpec ==
  /\ Spec
  /\ \A p \in Callers : WF_vars(Work(p))
  /\ \A e \in Envelopes : WF_vars(ServerDecides(e))

-----------------------------------------------------------------------------
(* Properties.                                                               *)

TypeOK == StoreTypeOK /\ CallTypeOK

\* Nothing reaches the books without an accepting verdict for that very artifact
\* and, where the command needs one, a confirmation of that very artifact.
OnlyCheckedApplied ==
  \A e \in Envelopes : applied[e] > 0 => e \in Accepted \cap Confirmed

\* The command of proposal t got as far as task status s says.
Backed(t, s) ==
  LET reached(S) == \E e \in Of(t) : row[e] \in S IN
  /\ s = "execution_pending" => reached(RowStatus \ {"none"})
  /\ s = "committed" => reached(Effective)
  /\ s \in {"readback_verified", "verified"} => reached({"readback_verified"})
  /\ s = "readback_failed" => reached({"readback_failed"})
  /\ s = "execution_failed" => reached({"execution_failed"})

\* The verification ledger trails the command: no task shows a status before
\* the command of its proposal reached it.
LedgerNeverAhead == \A t \in Proposals : Backed(t, task[t])

\* A mutation its user declined is never executed, whichever of the two
\* answers of the user the process handles first.
CancelledNeverApplied ==
  \A t \in Proposals : task[t] = "partial" =>
    \A e \in Of(t) : row[e] \in {"none", "registered"} /\ applied[e] = 0

\* A call that answers success leaves durable evidence behind: one effect, its
\* receipt, a passed read-back, and a verified task.
VerifiedAnswer ==
  \A p \in Callers : pc[p] = "done" /\ err[p] = "none" =>
    /\ applied[env[p]] = 1 /\ env[p] \in receipts
    /\ readback[env[p]] = "passed" /\ row[env[p]] = "readback_verified"
    /\ task[Proposal[env[p]]] = "verified"

\* No statement of the repository runs into the exception of the trigger that
\* guards the command row, in no interleaving: a call would see it as a conflict.
GuardNeverRaises == [][\A e \in Envelopes : GuardAccepts(e)]_vars

\* Calls that wait for a row lock, retry a lost compare-and-swap or reconcile
\* an ambiguous COMMIT all come to an end.
CallReturns == \A p \in Callers : pc[p] # "idle" ~> pc[p] = "idle"

\* Submitting a registered command again, after any fault, settles its task.
Settles ==
  \A e \in Envelopes : Present(e) ~> task[Proposal[e]] \in TerminalTask

\* The resolver can repair what it finds: a task is level with its command or
\* one step behind it, or was declined before anything happened.
Repairable ==
  \A e \in Envelopes : Present(e) =>
    task[Proposal[e]] \in {Behind(row[e]), "partial"} \cup Level(row[e])

-----------------------------------------------------------------------------
(* The inductive invariant behind the safety properties.                     *)

\* The row lock belongs to the call that is inside its transaction.
LockHeld ==
  \A e \in Envelopes, p \in Callers :
    lock[e] = p <=> pc[p] \in InTransaction /\ env[p] = e

\* A command leaves "registered" only after its task left "checker_validated".
Started ==
  \A e \in Envelopes :
    row[e] \notin {"none", "registered"} =>
      task[Proposal[e]] \notin {"checker_validated", "partial"}

\* The statuses a command seen in status s can have by now.
Since(s) ==
  CASE s = "registered" -> RowStatus \ {"none"}
    [] s = "execution_pending" -> RowStatus \ {"none", "registered"}
    [] s = "committed" -> Effective
    [] OTHER -> {s}

Unregistered == {"idle", "register", "insert"}

\* What a call remembers from one await to the next stays true meanwhile.
Remembers(p) ==
  LET e == env[p] IN
  /\ pc[p] \in Unregistered => view[p] = "none"
  /\ pc[p] \notin Unregistered \cup {"done"} => Present(e)
  /\ pc[p] \in {"rcTask", "rcMove", "rcMark", "rcReread", "resolved"}
       => view[p] # "none"
  /\ view[p] # "none" => row[e] \in Since(view[p])
  /\ pc[p] = "rcMark" => task[Proposal[e]] \notin {"checker_validated", "partial"}
  /\ pc[p] \in InResolver \cup {"resolved"} /\ cont[p] \in {"error", "failed"}
       => err[p] # "none"
  /\ pc[p] = "markFailed" => err[p] # "none"
  /\ pc[p] = "done" /\ err[p] = "none" =>
       row[e] = "readback_verified" /\ task[Proposal[e]] = "verified"

IndInv ==
  /\ StoreInv /\ CallTypeOK /\ LockHeld
  /\ LedgerNeverAhead /\ Started
  /\ \A p \in Callers : Remembers(p)
=============================================================================
