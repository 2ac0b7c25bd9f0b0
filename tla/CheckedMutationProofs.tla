----------------------- MODULE CheckedMutationProofs -----------------------
(***************************************************************************)
(* Proofs about CheckedMutation, for every set of callers and commands and *)
(* every bound on attempts and faults.  The store comes first: whoever  *)
(* runs its statements, in whatever order and however often, each of them  *)
(* keeps its invariant, so the calls need no argument of their own for it. *)
(***************************************************************************)
EXTENDS CheckedMutationRefinement, TLAPS

-----------------------------------------------------------------------------
(* The store.                                                              *)

\* The empty store satisfies the invariant.
LEMMA StoreInitInv == StoreInit => StoreInv
<1> SUFFICES ASSUME StoreInit PROVE StoreInv
  OBVIOUS
<1>1. StoreTypeOK
  BY DEF StoreInit, StoreTypeOK, RowStatus, TaskStatus
<1>2. EffectOnce /\ ReceiptMatchesEffect
  BY DEF StoreInit, EffectOnce, ReceiptMatchesEffect, Effective
<1>3. ReadbackMatchesRow /\ OneCommandPerProposal /\ InDoubtNotFailed
  BY DEF StoreInit, ReadbackMatchesRow, OneCommandPerProposal, Present,
         InDoubtNotFailed
<1> QED
  BY <1>1, <1>2, <1>3 DEF StoreInv

\* Every statement keeps the columns in their types.
LEMMA StoreTypeStep == ASSUME StoreTypeOK, [StoreNext]_store PROVE StoreTypeOK'
<1> USE DEF StoreTypeOK
<1>1. CASE UNCHANGED store
  BY <1>1 DEF store
<1>2. ASSUME NEW e \in Envelopes,
             \/ InsertCommand(e) \/ MarkExecutionPending(e)
             \/ MarkExecutionFailed(e)
      PROVE  StoreTypeOK'
  BY <1>2 DEF InsertCommand, MarkExecutionPending, MarkExecutionFailed, RowStatus
<1>3. ASSUME NEW e \in Envelopes, NEW ok \in BOOLEAN, RecordReadback(e, ok)
      PROVE  StoreTypeOK'
  BY <1>3 DEF RecordReadback, RowStatus
<1>4. ASSUME NEW e \in Envelopes, NEW p \in Callers, AcquireClaim(e, p)
      PROVE  StoreTypeOK'
  BY <1>4 DEF AcquireClaim
<1>5. ASSUME NEW e \in Envelopes, Rollback(e) \/ Abandon(e) \/ ApplyCommit(e)
      PROVE  StoreTypeOK'
  BY <1>5 DEF Rollback, Abandon, ApplyCommit, RowStatus
<1>6. ASSUME NEW t \in Proposals, NEW from \in TaskStatus, NEW to \in TaskStatus,
             TaskTransition(t, from, to)
      PROVE  StoreTypeOK'
  BY <1>6 DEF TaskTransition
<1> QED
  BY <1>1, <1>2, <1>3, <1>4, <1>5, <1>6 DEF StoreNext

\* Every statement keeps the invariant.
LEMMA StoreStep == ASSUME StoreInv, [StoreNext]_store PROVE StoreInv'
<1> USE DEF StoreInv
<1>0. StoreTypeOK'
  BY StoreTypeStep
<1> DEFINE Rest == /\ EffectOnce /\ ReceiptMatchesEffect
                   /\ ReadbackMatchesRow /\ OneCommandPerProposal
                   /\ InDoubtNotFailed
<1>1. CASE UNCHANGED store
  BY <1>0, <1>1 DEF store, EffectOnce, ReceiptMatchesEffect, ReadbackMatchesRow,
              OneCommandPerProposal, InDoubtNotFailed, Present
<1>2. ASSUME NEW e \in Envelopes,
             \/ InsertCommand(e) \/ MarkExecutionPending(e)
             \/ MarkExecutionFailed(e)
      PROVE  Rest'
  <2>1. EffectOnce' /\ ReceiptMatchesEffect'
    BY <1>2 DEF InsertCommand, MarkExecutionPending, MarkExecutionFailed,
                EffectOnce, ReceiptMatchesEffect, Effective, StoreTypeOK,
                IdTaken, Present
  <2>2. ReadbackMatchesRow' /\ InDoubtNotFailed'
    BY <1>2 DEF InsertCommand, MarkExecutionPending, MarkExecutionFailed,
                ReadbackMatchesRow, InDoubtNotFailed, StoreTypeOK, IdTaken, Present
  <2>3. OneCommandPerProposal'
    BY <1>2 DEF InsertCommand, MarkExecutionPending, MarkExecutionFailed,
                OneCommandPerProposal, ProposalTaken, Present, StoreTypeOK
  <2> QED BY <2>1, <2>2, <2>3
<1>3. ASSUME NEW e \in Envelopes, NEW ok \in BOOLEAN, RecordReadback(e, ok)
      PROVE  Rest'
  <2>1. EffectOnce' /\ ReceiptMatchesEffect'
    BY <1>3 DEF RecordReadback, EffectOnce, ReceiptMatchesEffect, Effective, StoreTypeOK
  <2>2. ReadbackMatchesRow' /\ InDoubtNotFailed'
    BY <1>3 DEF RecordReadback, ReadbackMatchesRow, InDoubtNotFailed, StoreTypeOK
  <2>3. OneCommandPerProposal'
    BY <1>3 DEF RecordReadback, OneCommandPerProposal, Present, StoreTypeOK
  <2> QED BY <2>1, <2>2, <2>3
<1>4. ASSUME NEW e \in Envelopes, NEW p \in Callers, AcquireClaim(e, p)
      PROVE  Rest'
  BY <1>4 DEF AcquireClaim, EffectOnce, ReceiptMatchesEffect, ReadbackMatchesRow,
              OneCommandPerProposal, InDoubtNotFailed, Present, StoreTypeOK
<1>5. ASSUME NEW e \in Envelopes, Rollback(e) \/ (lock[e] # Free /\ Abandon(e))
      PROVE  Rest'
  BY <1>5 DEF Rollback, Abandon, EffectOnce, ReceiptMatchesEffect,
              ReadbackMatchesRow, OneCommandPerProposal, InDoubtNotFailed,
              Present, StoreTypeOK
<1>6. ASSUME NEW e \in Envelopes, ApplyCommit(e)
      PROVE  Rest'
  <2>1. applied[e] = 0
    BY <1>6 DEF ApplyCommit, ReceiptMatchesEffect, StoreTypeOK
  <2>2. \A f \in Envelopes : f # e /\ Proposal[f] = Proposal[e] => applied[f] = 0
    BY <1>6 DEF ApplyCommit, ReceiptMatchesEffect, OneCommandPerProposal,
                Present, Effective, StoreTypeOK
  <2>3. EffectOnce'
    BY <1>6, <2>1, <2>2 DEF ApplyCommit, EffectOnce, StoreTypeOK
  <2>4. ReceiptMatchesEffect'
    BY <1>6 DEF ApplyCommit, ReceiptMatchesEffect, Effective, StoreTypeOK
  <2>5. ReadbackMatchesRow' /\ OneCommandPerProposal' /\ InDoubtNotFailed'
    BY <1>6 DEF ApplyCommit, ReadbackMatchesRow, OneCommandPerProposal,
                InDoubtNotFailed, Present, StoreTypeOK
  <2> QED BY <2>3, <2>4, <2>5
<1>7. ASSUME NEW t \in Proposals, NEW from \in TaskStatus, NEW to \in TaskStatus,
             TaskTransition(t, from, to)
      PROVE  Rest'
  BY <1>7 DEF TaskTransition, EffectOnce, ReceiptMatchesEffect, ReadbackMatchesRow,
              OneCommandPerProposal, InDoubtNotFailed, Present
<1> QED
  BY <1>0, <1>1, <1>2, <1>3, <1>4, <1>5, <1>6, <1>7 DEF StoreNext

\* Every run of the statements keeps effect, receipt, command status, read-back
\* and row lock in step, and executes a proposal at most once.
THEOREM StoreSafe == StoreSpec => []StoreInv
<1>1. StoreInit => StoreInv
  BY StoreInitInv
<1>2. StoreInv /\ [StoreNext]_store => StoreInv'
  BY StoreStep
<1> QED
  BY <1>1, <1>2, PTL DEF StoreSpec

-----------------------------------------------------------------------------
(* The calls.                                                              *)

\* An idle call remembers some envelope.
LEMMA NoEnvelopeType == NoEnvelope \in Envelopes
BY PolicyAssumption DEF NoEnvelope

\* Calls start in their types.
LEMMA CallTypeInit == Init => CallTypeOK
BY NoEnvelopeType, PolicyAssumption
DEF Init, CallTypeOK, RowStatus, PC, InResolver, InTransaction, ErrorKind, ReconcileTries

-----------------------------------------------------------------------------
(* Moves of a call keep its variables in their types.                        *)

\* Each way execute moves on keeps the variables of a call in their types.
LEMMA MoveTypes ==
  ASSUME CallTypeOK, NEW p \in Callers, UNCHANGED faults
  PROVE  /\ \A l \in PC : Goto(p, l) => CallTypeOK'
         /\ \A kind \in ErrorKind : Finish(p, kind) => CallTypeOK'
         /\ \A c \in {"first", "error", "failed", "pending", "final"},
               kind \in ErrorKind : Reconcile(p, c, kind) => CallTypeOK'
         /\ Reset(p) => CallTypeOK'
         /\ \A kind \in ErrorKind : RunFailed(p, kind) => CallTypeOK'
         /\ RunSucceeded(p) => CallTypeOK'
         /\ \A l \in PC : Continue(p, l) => CallTypeOK'
         /\ \A kind \in ErrorKind : ResolverFailed(p, kind) => CallTypeOK'
         /\ \A kind \in ErrorKind : Stale(p, kind) => CallTypeOK'
<1> USE DEF CallTypeOK
<1>1. \A l \in PC : Goto(p, l) => CallTypeOK'
  BY DEF Goto
<1>2. \A kind \in ErrorKind : Finish(p, kind) => CallTypeOK'
  BY DEF Finish, PC
<1>3. \A c \in {"first", "error", "failed", "pending", "final"},
         kind \in ErrorKind : Reconcile(p, c, kind) => CallTypeOK'
  BY DEF Reconcile, PC, InResolver, ReconcileTries
<1>4. Reset(p) => CallTypeOK'
  BY NoEnvelopeType, PolicyAssumption
  DEF Reset, PC, RowStatus, ErrorKind, ReconcileTries
<1>5. \A kind \in ErrorKind : RunFailed(p, kind) => CallTypeOK'
  BY <1>3 DEF RunFailed
<1>6. RunSucceeded(p) => CallTypeOK'
  BY <1>3 DEF RunSucceeded, ErrorKind
<1>7. \A l \in PC : Continue(p, l) => CallTypeOK'
  BY PolicyAssumption DEF Continue, ErrorKind
<1>8. \A kind \in ErrorKind : ResolverFailed(p, kind) => CallTypeOK'
  BY <1>1, <1>2 DEF ResolverFailed, ErrorKind, PC
<1>9. \A kind \in ErrorKind : Stale(p, kind) => CallTypeOK'
  BY <1>8 DEF Stale, ReconcileTries, PC, InResolver
<1> QED
  BY <1>1, <1>2, <1>3, <1>4, <1>5, <1>6, <1>7, <1>8, <1>9

\* So does every step of a call.
LEMMA WorkTypes ==
  ASSUME StoreTypeOK, CallTypeOK, NEW p \in Callers, Work(p)
  PROVE  CallTypeOK'
<1>0. UNCHANGED faults
  BY DEF Work
<1> USE <1>0, MoveTypes DEF ErrorKind, PC, InResolver, InTransaction
<1>1. CASE Register(p)
  BY <1>1 DEF Register, ValidateReplay
<1>2. CASE Insert(p)
  BY <1>2 DEF Insert, ValidateReplay
<1>3. CASE ReadCommand(p)
  BY <1>3 DEF ReadCommand, CallTypeOK, StoreTypeOK
<1>4. CASE ReadTask(p)
  BY <1>4 DEF ReadTask, AfterMove
<1>5. CASE MoveTask(p)
  BY <1>5 DEF MoveTask, AfterMove
<1>6. CASE MarkPending(p)
  BY <1>6 DEF MarkPending
<1>7. CASE Resolved(p)
  <2>1. Proceed(p) => CallTypeOK'
    BY DEF Proceed
  <2> QED
    BY <1>7, <2>1 DEF Resolved, CallTypeOK
<1>8. CASE Begin(p)
  BY <1>8 DEF Begin, CallTypeOK, StoreTypeOK
<1>9. CASE Claim(p)
  BY <1>9 DEF Claim
<1>10. CASE Advance(p)
  BY <1>10 DEF Advance
<1>11. CASE Acknowledged(p)
  BY <1>11 DEF Acknowledged
<1>12. CASE LookupReceipt(p)
  BY <1>12 DEF LookupReceipt
<1>13. CASE MarkFailed(p)
  BY <1>13 DEF MarkFailed, CallTypeOK
<1>14. CASE ReadBack(p)
  BY <1>14 DEF ReadBack, CallTypeOK
<1>15. CASE Record(p)
  BY <1>15 DEF Record
<1>16. CASE UseExisting(p)
  <2>1. CASE readback[env[p]] = "none"
    BY <1>16, <2>1 DEF UseExisting
  <2>2. CASE readback[env[p]] # "none"
    <3>1. /\ passed' = [passed EXCEPT ![p] = (readback[env[p]] = "passed")]
          /\ pc' = [pc EXCEPT ![p] = "rcRead"] /\ cont' = [cont EXCEPT ![p] = "final"]
          /\ tries' = [tries EXCEPT ![p] = 1] /\ UNCHANGED <<env, view, snap, attempt, err>>
      BY <1>16, <2>2 DEF UseExisting
    <3>2. passed' \in [Callers -> BOOLEAN]
      BY <3>1, Zenon DEF CallTypeOK
    <3>3. /\ pc' \in [Callers -> PC]
          /\ cont' \in [Callers -> {"first", "error", "failed", "pending", "final"}]
      BY <3>1 DEF CallTypeOK
    <3>4. tries' \in [Callers -> 1..ReconcileTries]
      <4>1. 1 \in 1..ReconcileTries
        BY DEF ReconcileTries
      <4> QED
        BY <3>1, <4>1, Zenon DEF CallTypeOK
    <3> QED
      BY <3>1, <3>2, <3>3, <3>4 DEF CallTypeOK
  <2> QED
    BY <2>1, <2>2
<1>17. CASE Replay(p)
  BY <1>17 DEF Replay
<1>18. CASE FinalRead(p)
  BY <1>18 DEF FinalRead
<1>19. CASE FinalMove(p)
  BY <1>19 DEF FinalMove
<1>20. CASE Return(p)
  BY <1>20 DEF Return
<1> QED
  BY <1>1, <1>2, <1>3, <1>4, <1>5, <1>6, <1>7, <1>8, <1>9, <1>10, <1>11, <1>12,
     <1>13, <1>14, <1>15, <1>16, <1>17, <1>18, <1>19, <1>20 DEF Work

\* So does every fault: a retry is counted only while one is left.
LEMMA FaultTypes ==
  ASSUME StoreTypeOK, CallTypeOK, NEW p \in Callers, Fault(p)
  PROVE  CallTypeOK'
<1> USE DEF CallTypeOK, ErrorKind, PC, InResolver, InTransaction
<1>0. faults' \in 0..MaxFaults
  BY PolicyAssumption DEF Fault
<1>1. CASE TransactionFault(p)
  BY <1>0, <1>1, PolicyAssumption
  DEF TransactionFault, MayRetry, RunFailed, Reconcile, Goto, ReconcileTries
<1>2. CASE ClaimFault(p)
  BY <1>0, <1>2 DEF ClaimFault, RunFailed, Reconcile, Goto, ReconcileTries
<1>3. CASE AckLost(p)
  BY <1>0, <1>3 DEF AckLost, Goto
<1>4. CASE StorageFault(p)
  <2>1. CASE pc[p] = "readback"
    BY <1>0, <1>4, <2>1 DEF StorageFault
  <2>2. CASE pc[p] # "readback"
    BY <1>0, <1>4, <2>2
    DEF StorageFault, ResolverFailed, Finish, Goto, RunFailed, Reconcile,
        ReconcileTries
  <2> QED
    BY <2>1, <2>2
<1>5. CASE Crash(p)
  BY <1>0, <1>5, NoEnvelopeType, PolicyAssumption
  DEF Crash, Reset, RowStatus, ReconcileTries
<1> QED
  BY <1>1, <1>2, <1>3, <1>4, <1>5 DEF Fault

\* So does every step of the system.
LEMMA CallTypeStep ==
  ASSUME StoreTypeOK, CallTypeOK, [Next]_vars PROVE CallTypeOK'
<1>1. CASE UNCHANGED vars
  BY <1>1 DEF vars, call, CallTypeOK
<1>2. ASSUME NEW p \in Callers, Submit(p) PROVE CallTypeOK'
  BY <1>2 DEF Submit, Start, CallTypeOK, ErrorKind, PC
<1>3. ASSUME NEW p \in Callers, Work(p) PROVE CallTypeOK'
  BY <1>3, WorkTypes
<1>4. ASSUME NEW p \in Callers, Fault(p) PROVE CallTypeOK'
  BY <1>4, FaultTypes
<1>5. ASSUME NEW e \in Envelopes, ServerCommits(e) \/ OrphanAborts(e)
      PROVE  CallTypeOK'
  BY <1>5 DEF ServerCommits, OrphanAborts, call, CallTypeOK, PC
<1>6. ASSUME NEW t \in Cancellable, Cancel(t) PROVE CallTypeOK'
  BY <1>6 DEF Cancel, call, CallTypeOK
<1> QED
  BY <1>1, <1>2, <1>3, <1>4, <1>5, <1>6 DEF Next

-----------------------------------------------------------------------------
(* A step of one call leaves the memory of the others alone.                 *)

\* Call q is where it was, with what it remembered.
SameCall(q) ==
  /\ pc'[q] = pc[q] /\ env'[q] = env[q] /\ view'[q] = view[q]
  /\ cont'[q] = cont[q] /\ err'[q] = err[q]

\* Each way execute moves on concerns one call.
LEMMA MoveFrames ==
  ASSUME CallTypeOK, NEW p \in Callers, NEW q \in Callers \ {p}
  PROVE  /\ \A l : Goto(p, l) => SameCall(q)
         /\ \A kind : Finish(p, kind) => SameCall(q)
         /\ \A c, kind : Reconcile(p, c, kind) => SameCall(q)
         /\ Reset(p) => SameCall(q)
         /\ \A kind : RunFailed(p, kind) => SameCall(q)
         /\ RunSucceeded(p) => SameCall(q)
         /\ \A l : Continue(p, l) => SameCall(q)
         /\ \A kind : ResolverFailed(p, kind) => SameCall(q)
         /\ \A kind : Stale(p, kind) => SameCall(q)
         /\ ValidateReplay(p) => SameCall(q)
         /\ Proceed(p) => SameCall(q)
<1> USE DEF CallTypeOK, SameCall
<1>1. \A l : Goto(p, l) => SameCall(q)
  BY DEF Goto
<1>2. \A kind : Finish(p, kind) => SameCall(q)
  BY DEF Finish
<1>3. \A c, kind : Reconcile(p, c, kind) => SameCall(q)
  BY DEF Reconcile
<1>4. Reset(p) => SameCall(q)
  BY DEF Reset
<1>5. /\ \A kind : RunFailed(p, kind) => SameCall(q)
      /\ RunSucceeded(p) => SameCall(q)
  BY <1>3 DEF RunFailed, RunSucceeded
<1>6. \A l : Continue(p, l) => SameCall(q)
  BY DEF Continue
<1>7. \A kind : ResolverFailed(p, kind) => SameCall(q)
  BY <1>1, <1>2 DEF ResolverFailed
<1>8. \A kind : Stale(p, kind) => SameCall(q)
  BY <1>7 DEF Stale
<1>9. ValidateReplay(p) => SameCall(q)
  BY <1>2, <1>3 DEF ValidateReplay
<1>10. Proceed(p) => SameCall(q)
  BY <1>2, <1>6 DEF Proceed
<1> QED
  BY <1>1, <1>2, <1>3, <1>4, <1>5, <1>6, <1>7, <1>8, <1>9, <1>10

\* So does every step of a call.
LEMMA CallFrame ==
  ASSUME CallTypeOK, NEW p \in Callers, NEW q \in Callers \ {p},
         Submit(p) \/ Work(p) \/ Fault(p)
  PROVE  SameCall(q)
<1>1. CASE Submit(p)
  BY <1>1 DEF Submit, Start, SameCall, CallTypeOK
<1>2. CASE Register(p) \/ Insert(p)
  BY <1>2, MoveFrames DEF Register, Insert
<1>3. CASE ReadCommand(p) \/ Begin(p) \/ ReadBack(p) \/ UseExisting(p)
  BY <1>3, MoveFrames
  DEF ReadCommand, Begin, ReadBack, UseExisting, SameCall, CallTypeOK
<1>4. CASE ReadTask(p) \/ MoveTask(p) \/ MarkPending(p)
  BY <1>4, MoveFrames DEF ReadTask, MoveTask, MarkPending
<1>5. CASE Resolved(p)
  BY <1>5, MoveFrames DEF Resolved, CallTypeOK
<1>6. CASE Claim(p) \/ Advance(p) \/ Acknowledged(p) \/ LookupReceipt(p)
  BY <1>6, MoveFrames DEF Claim, Advance, Acknowledged, LookupReceipt
<1>7. CASE MarkFailed(p) \/ Record(p) \/ Replay(p)
  BY <1>7, MoveFrames DEF MarkFailed, Record, Replay
<1>8. CASE FinalRead(p) \/ FinalMove(p) \/ Return(p)
  BY <1>8, MoveFrames DEF FinalRead, FinalMove, Return
<1>9. CASE Fault(p)
  <2>1. CASE TransactionFault(p)
    BY <2>1, MoveFrames DEF TransactionFault, SameCall, CallTypeOK
  <2>2. CASE ClaimFault(p) \/ AckLost(p) \/ Crash(p)
    BY <2>2, MoveFrames DEF ClaimFault, AckLost, Crash
  <2>3. CASE StorageFault(p)
    BY <2>3, MoveFrames DEF StorageFault, SameCall, CallTypeOK
  <2> QED
    BY <1>9, <2>1, <2>2, <2>3 DEF Fault
<1> QED
  BY <1>1, <1>2, <1>3, <1>4, <1>5, <1>6, <1>7, <1>8, <1>9 DEF Work

-----------------------------------------------------------------------------
(* Every step of the system is a statement of the store or leaves it alone.  *)

\* The ledger transitions the subsystem asks for.
LedgerMoves ==
  {<<"checker_validated", "execution_pending">>, <<"checker_validated", "partial">>,
   <<"execution_pending", "committed">>, <<"execution_pending", "execution_failed">>,
   <<"committed", "readback_verified">>, <<"committed", "readback_failed">>,
   <<"readback_verified", "verified">>}

\* A task takes one of these transitions, and its command got that far.
LedgerMove ==
  \E t \in Proposals, m \in LedgerMoves :
    TaskTransition(t, m[1], m[2]) /\ Backed(t, m[2])

\* Task t stays, or takes such a transition.
LedgerForward(t) ==
  \/ task'[t] = task[t]
  \/ <<task[t], task'[t]>> \in LedgerMoves /\ Backed(t, task'[t])

\* A transition of the ledger is a statement of the store.
LEMMA LedgerMoveSteps ==
  ASSUME StoreTypeOK, LedgerMove
  PROVE  StoreNext /\ \A t \in Proposals : LedgerForward(t)
<1> PICK t \in Proposals, m \in LedgerMoves :
           TaskTransition(t, m[1], m[2]) /\ Backed(t, m[2])
  BY DEF LedgerMove
<1>1. m[1] \in TaskStatus /\ m[2] \in TaskStatus /\ m = <<m[1], m[2]>>
  BY DEF LedgerMoves, TaskStatus
<1>2. StoreNext
  BY <1>1 DEF StoreNext
<1>3. ASSUME NEW u \in Proposals
      PROVE  LedgerForward(u)
  <2>1. CASE u = t
    BY <1>1, <2>1 DEF TaskTransition, StoreTypeOK, LedgerForward
  <2>2. CASE u # t
    BY <2>2 DEF TaskTransition, StoreTypeOK, LedgerForward
  <2> QED
    BY <2>1, <2>2
<1> QED
  BY <1>2, <1>3

\* The resolver moves the ledger along one edge of the task state machine.
LEMMA ResolverMove ==
  ASSUME NEW v \in RowStatus \ {"none"}, NEW e \in Envelopes, row[e] \in Since(v)
  PROVE  /\ <<Behind(v), Ahead(v)>> \in LedgerMoves
         /\ Backed(Proposal[e], Ahead(v))
<1>1. <<Behind(v), Ahead(v)>> \in LedgerMoves
  BY DEF RowStatus, Behind, Ahead, LedgerMoves
<1>2. e \in Of(Proposal[e])
  BY DEF Of
<1>3. Backed(Proposal[e], Ahead(v))
  BY <1>2 DEF Backed, Ahead, Since, RowStatus, Effective
<1> QED
  BY <1>1, <1>3

\* A step of a call is a statement of the store, and moves the ledger along its edges.
LEMMA WorkStore ==
  ASSUME StoreTypeOK, CallTypeOK, LedgerNeverAhead,
         NEW p \in Callers, Remembers(p), Work(p)
  PROVE  /\ UNCHANGED store \/ StoreNext
         /\ UNCHANGED task \/ LedgerMove
<1>0. env[p] \in Envelopes /\ Proposal[env[p]] \in Proposals
  BY EnvelopeAssumption DEF CallTypeOK
<1>1. CASE UNCHANGED store
  BY <1>1 DEF store
<1>2. CASE Insert(p)
  BY <1>0, <1>2 DEF Insert, InsertCommand, StoreNext, store
<1>3. CASE MoveTask(p)
  <2>1. CASE TaskTransition(Proposal[env[p]], Behind(view[p]), Ahead(view[p]))
    <3>1. view[p] \in RowStatus \ {"none"} /\ row[env[p]] \in Since(view[p])
      BY <1>3 DEF MoveTask, Remembers, CallTypeOK
    <3>2. LedgerMove
      BY <1>0, <2>1, <3>1, ResolverMove DEF LedgerMove
    <3> QED
      BY <3>2, LedgerMoveSteps
  <2> QED
    BY <1>3, <1>1, <2>1 DEF MoveTask
<1>4. CASE MarkPending(p)
  BY <1>0, <1>1, <1>4 DEF MarkPending, MarkExecutionPending, StoreNext
<1>5. CASE Claim(p)
  BY <1>0, <1>1, <1>5 DEF Claim, AcquireClaim, StoreNext
<1>6. CASE MarkFailed(p)
  BY <1>0, <1>1, <1>6 DEF MarkFailed, MarkExecutionFailed, StoreNext
<1>7. CASE Record(p)
  <2>1. passed[p] \in BOOLEAN
    BY DEF CallTypeOK
  <2> QED
    BY <1>0, <1>1, <1>7, <2>1 DEF Record, RecordReadback, StoreNext
<1>8. CASE FinalMove(p)
  <2>1. CASE TaskTransition(Proposal[env[p]], "readback_verified", "verified")
    <3>1. Backed(Proposal[env[p]], "verified")
      BY <1>0, <2>1 DEF TaskTransition, LedgerNeverAhead, Backed
    <3>2. LedgerMove
      BY <1>0, <2>1, <3>1 DEF LedgerMove, LedgerMoves
    <3> QED
      BY <3>2, LedgerMoveSteps
  <2> QED
    BY <1>1, <1>8, <2>1 DEF FinalMove
<1> QED
  BY <1>1, <1>2, <1>3, <1>4, <1>5, <1>6, <1>7, <1>8
  DEF Work, Register, ReadCommand, ReadTask, Resolved, Begin, Advance, Acknowledged,
      LookupReceipt, ReadBack, UseExisting, Replay, FinalRead, Return

\* A fault rolls back, abandons or changes nothing; it never moves the ledger.
LEMMA FaultStore ==
  ASSUME StoreTypeOK, CallTypeOK, LockHeld, NEW p \in Callers, Fault(p)
  PROVE  (UNCHANGED store \/ StoreNext) /\ UNCHANGED task
<1>0. env[p] \in Envelopes
  BY DEF CallTypeOK
<1>1. CASE UNCHANGED store
  BY <1>1 DEF store
<1>2. CASE Rollback(env[p])
  BY <1>0, <1>2 DEF Rollback, StoreNext
<1>3. CASE Abandon(env[p]) /\ pc[p] = "sent"
  <2>1. lock[env[p]] # Free
    BY <1>0, <1>3, LockAssumption DEF LockHeld, InTransaction
  <2> QED
    BY <1>0, <1>3, <2>1 DEF Abandon, StoreNext
<1> QED
  BY <1>1, <1>2, <1>3
  DEF Fault, TransactionFault, ClaimFault, AckLost, StorageFault, Crash

\* Every step of the system, the server's and the user's too, is such a statement.
LEMMA StoreSteps ==
  ASSUME StoreTypeOK, CallTypeOK, LockHeld, LedgerNeverAhead,
         \A p \in Callers : Remembers(p), [Next]_vars
  PROVE  [StoreNext]_store /\ \A t \in Proposals : LedgerForward(t)
<1>0. SUFFICES (UNCHANGED store \/ StoreNext) /\ (UNCHANGED task \/ LedgerMove)
  BY LedgerMoveSteps DEF LedgerForward
<1>1. CASE UNCHANGED vars
  BY <1>1 DEF vars, store
<1>2. ASSUME NEW p \in Callers, Submit(p)
      PROVE  UNCHANGED store
  BY <1>2 DEF Submit, Start
<1>3. ASSUME NEW p \in Callers, Work(p)
      PROVE  (UNCHANGED store \/ StoreNext) /\ (UNCHANGED task \/ LedgerMove)
  BY <1>3, WorkStore
<1>4. ASSUME NEW p \in Callers, Fault(p)
      PROVE  (UNCHANGED store \/ StoreNext) /\ UNCHANGED task
  BY <1>4, FaultStore
<1>5. ASSUME NEW e \in Envelopes, ServerCommits(e) \/ OrphanAborts(e)
      PROVE  StoreNext /\ UNCHANGED task
  BY <1>5, LockAssumption
  DEF ServerCommits, OrphanAborts, ApplyCommit, Rollback, StoreNext
<1>6. ASSUME NEW t \in Cancellable, Cancel(t)
      PROVE  LedgerMove
  BY <1>6, PolicyAssumption DEF Cancel, LedgerMove, LedgerMoves, Backed
<1> QED
  BY <1>1, <1>2, <1>3, <1>4, <1>5, <1>6, LedgerMoveSteps DEF Next, store

-----------------------------------------------------------------------------
(* The row lock follows the program counter of its holder.                   *)

\* A call that neither enters nor leaves its transaction leaves the locks true.
LEMMA LockQuiet ==
  ASSUME LockHeld, NEW p \in Callers, \A q \in Callers \ {p} : SameCall(q),
         UNCHANGED lock,
         \/ pc[p] \notin InTransaction /\ pc'[p] \notin InTransaction
         \/ /\ pc[p] \in InTransaction /\ pc'[p] \in InTransaction
            /\ env'[p] = env[p]
  PROVE  LockHeld'
<1> SUFFICES ASSUME NEW e \in Envelopes, NEW q \in Callers
             PROVE  lock'[e] = q <=> pc'[q] \in InTransaction /\ env'[q] = e
  BY DEF LockHeld, InTransaction
<1>1. CASE q = p
  BY <1>1 DEF LockHeld
<1>2. CASE q # p
  BY <1>2 DEF LockHeld, SameCall
<1> QED
  BY <1>1, <1>2

\* Outside Claim and Advance, a fault-free step of a call is not inside its
\* transaction, neither before nor after.
LEMMA WorkOutside ==
  ASSUME CallTypeOK, NEW p \in Callers, Work(p), ~ Claim(p), ~ Advance(p)
  PROVE  UNCHANGED lock /\ pc[p] \notin InTransaction /\ pc'[p] \notin InTransaction
<1> USE DEF CallTypeOK, InTransaction
<1>1. CASE Register(p) \/ Insert(p)
  BY <1>1 DEF Register, Insert, ValidateReplay, Reconcile, Finish, Goto,
              InsertCommand, store
<1>2. CASE ReadCommand(p) \/ ReadTask(p)
  BY <1>2 DEF ReadCommand, ReadTask, ResolverFailed, AfterMove, Goto, Finish, store
<1>3. CASE MoveTask(p)
  BY <1>3 DEF MoveTask, TaskTransition, Stale, ResolverFailed, AfterMove, Goto,
              Finish, store
<1>4. CASE MarkPending(p)
  BY <1>4 DEF MarkPending, MarkExecutionPending, Stale, ResolverFailed, Goto,
              Finish, store
<1>5. CASE Resolved(p)
  <2>1. Proceed(p) => pc'[p] \notin InTransaction
    BY DEF Proceed, Continue, Finish
  <2> QED
    BY <1>5, <2>1 DEF Resolved, ResolverFailed, Goto, Continue, Finish, store
<1>6. CASE Begin(p) \/ Acknowledged(p) \/ LookupReceipt(p)
  BY <1>6 DEF Begin, Acknowledged, LookupReceipt, RunSucceeded, RunFailed,
              Reconcile, store
<1>7. CASE MarkFailed(p) \/ ReadBack(p) \/ Record(p)
  BY <1>7 DEF MarkFailed, MarkExecutionFailed, ReadBack, Record, RecordReadback,
              Reconcile, Finish, Goto, store
<1>8. CASE UseExisting(p) \/ Replay(p) \/ FinalRead(p)
  BY <1>8 DEF UseExisting, Replay, FinalRead, Finish, Goto, store
<1>9. CASE FinalMove(p) \/ Return(p)
  BY <1>9 DEF FinalMove, Return, TaskTransition, Finish, Reset, store
<1> QED
  BY <1>1, <1>2, <1>3, <1>4, <1>5, <1>6, <1>7, <1>8, <1>9 DEF Work

\* Steps of a call keep the locks with the running transactions.
LEMMA WorkLock ==
  ASSUME StoreTypeOK, CallTypeOK, LockHeld, NEW p \in Callers, Work(p)
  PROVE  LockHeld'
<1>0. \A q \in Callers \ {p} : SameCall(q)
  BY CallFrame
<1>1. CASE ~ Claim(p) /\ ~ Advance(p)
  BY <1>0, <1>1, WorkOutside, LockQuiet
<1>2. CASE Advance(p)
  <2>1. UNCHANGED lock /\ pc[p] \in InTransaction /\ pc'[p] \in InTransaction
        /\ env'[p] = env[p]
    BY <1>2 DEF Advance, Goto, CallTypeOK, InTransaction, store
  <2> QED
    BY <1>0, <2>1, LockQuiet
<1>3. CASE Claim(p)
  <2>1. CASE AcquireClaim(env[p], p) /\ Goto(p, "exec")
    BY <1>0, <1>3, <2>1, LockAssumption
    DEF AcquireClaim, Goto, Claim, LockHeld, SameCall, InTransaction, StoreTypeOK,
        CallTypeOK
  <2>2. CASE UNCHANGED store /\ pc'[p] \notin InTransaction
    BY <1>0, <1>3, <2>2, LockQuiet DEF Claim, InTransaction, store
  <2> QED
    BY <1>3, <2>1, <2>2
    DEF Claim, RunFailed, RunSucceeded, Reconcile, InTransaction, CallTypeOK
<1> QED
  BY <1>1, <1>2, <1>3

\* A fault inside a transaction frees its lock or orphans it.
LEMMA FaultLock ==
  ASSUME StoreTypeOK, CallTypeOK, LockHeld, NEW p \in Callers, Fault(p)
  PROVE  LockHeld'
<1>0. \A q \in Callers \ {p} : SameCall(q)
  BY CallFrame
<1>1. CASE UNCHANGED lock /\ pc[p] \notin InTransaction /\ pc'[p] \notin InTransaction
  BY <1>0, <1>1, LockQuiet
<1>2. CASE /\ Rollback(env[p]) \/ Abandon(env[p])
           /\ pc[p] \in InTransaction /\ pc'[p] \notin InTransaction
  BY <1>0, <1>2, LockAssumption
  DEF Rollback, Abandon, LockHeld, SameCall, StoreTypeOK, CallTypeOK
<1>3. CASE TransactionFault(p)
  BY <1>2, <1>3
  DEF TransactionFault, RunFailed, Reconcile, Goto, CallTypeOK, InTransaction
<1>4. CASE ClaimFault(p) \/ AckLost(p)
  BY <1>1, <1>2, <1>4
  DEF ClaimFault, AckLost, RunFailed, Reconcile, Goto, CallTypeOK, InTransaction, store
<1>5. CASE StorageFault(p)
  BY <1>1, <1>5
  DEF StorageFault, ResolverFailed, RunFailed, Reconcile, Goto, Finish, CallTypeOK,
      InTransaction, InResolver, store
<1>6. CASE Crash(p)
  BY <1>1, <1>2, <1>6 DEF Crash, Reset, CallTypeOK, InTransaction, store
<1> QED
  BY <1>3, <1>4, <1>5, <1>6 DEF Fault

\* Every step keeps the locks with the running transactions.
LEMMA LockStep ==
  ASSUME StoreTypeOK, CallTypeOK, LockHeld, [Next]_vars
  PROVE  LockHeld'
<1>1. CASE UNCHANGED vars
  BY <1>1 DEF vars, store, call, LockHeld
<1>2. ASSUME NEW p \in Callers, Submit(p)
      PROVE  LockHeld'
  <2>1. UNCHANGED lock /\ pc[p] \notin InTransaction /\ pc'[p] \notin InTransaction
    BY <1>2 DEF Submit, Start, store, CallTypeOK, InTransaction
  <2> QED
    BY <1>2, <2>1, CallFrame, LockQuiet
<1>3. ASSUME NEW p \in Callers, Work(p) PROVE LockHeld'
  BY <1>3, WorkLock
<1>4. ASSUME NEW p \in Callers, Fault(p) PROVE LockHeld'
  BY <1>4, FaultLock
<1>5. ASSUME NEW e \in Envelopes, ServerCommits(e)
      PROVE  LockHeld'
  BY <1>5, LockAssumption
  DEF ServerCommits, ApplyCommit, LockHeld, InTransaction, StoreTypeOK, CallTypeOK
<1>6. ASSUME NEW e \in Envelopes, OrphanAborts(e)
      PROVE  LockHeld'
  BY <1>6, LockAssumption
  DEF OrphanAborts, Rollback, LockHeld, StoreTypeOK, call
<1>7. ASSUME NEW t \in Cancellable, Cancel(t)
      PROVE  LockHeld'
  BY <1>7 DEF Cancel, TaskTransition, LockHeld, call
<1> QED
  BY <1>1, <1>2, <1>3, <1>4, <1>5, <1>6, <1>7 DEF Next

-----------------------------------------------------------------------------
(* Command rows and tasks only move forward.                                 *)

\* A command row follows the successor relation of the guard trigger.
LEMMA RowForward ==
  ASSUME StoreInv, [StoreNext]_store, NEW e \in Envelopes
  PROVE  \/ row'[e] = row[e]
         \/ row[e] = "none" /\ row'[e] = "registered"
         \/ row[e] # "none" /\ row'[e] \in Successors(row[e])
<1> USE DEF StoreInv, StoreTypeOK
<1>1. CASE UNCHANGED store
  BY <1>1 DEF store
<1>2. ASSUME NEW f \in Envelopes, NEW ok \in BOOLEAN,
             \/ InsertCommand(f) \/ MarkExecutionPending(f)
             \/ MarkExecutionFailed(f) \/ ApplyCommit(f) \/ RecordReadback(f, ok)
      PROVE  \/ row'[e] = row[e]
             \/ row[e] = "none" /\ row'[e] = "registered"
             \/ row[e] # "none" /\ row'[e] \in Successors(row[e])
  BY <1>2
  DEF InsertCommand, IdTaken, Present, MarkExecutionPending, MarkExecutionFailed,
      ApplyCommit, RecordReadback, Successors
<1>3. ASSUME NEW f \in Envelopes,
             \/ Rollback(f) \/ Abandon(f) \/ \E p \in Callers : AcquireClaim(f, p)
      PROVE  row'[e] = row[e]
  BY <1>3 DEF Rollback, Abandon, AcquireClaim
<1>4. ASSUME NEW t \in Proposals, NEW from \in TaskStatus, NEW to \in TaskStatus,
             TaskTransition(t, from, to)
      PROVE  row'[e] = row[e]
  BY <1>4 DEF TaskTransition
<1> QED
  BY <1>1, <1>2, <1>3, <1>4 DEF StoreNext

\* Nothing a call may have read is undone.
Forward ==
  /\ \A e \in Envelopes :
       /\ row[e] # "none" => row'[e] # "none"
       /\ \A s \in RowStatus \ {"none"} : row[e] \in Since(s) => row'[e] \in Since(s)
  /\ \A t \in Proposals :
       /\ task[t] \notin {"checker_validated", "partial"}
            => task'[t] \notin {"checker_validated", "partial"}
       /\ task[t] = "verified" => task'[t] = "verified"

\* Statements of the store undo nothing.
LEMMA MovesForward ==
  ASSUME StoreInv, [StoreNext]_store, \A t \in Proposals : LedgerForward(t)
  PROVE  Forward
<1>1. ASSUME NEW e \in Envelopes
      PROVE  /\ row[e] # "none" => row'[e] # "none"
             /\ \A s \in RowStatus \ {"none"} :
                  row[e] \in Since(s) => row'[e] \in Since(s)
  <2>1. row'[e] \in RowStatus
    BY StoreTypeStep DEF StoreInv, StoreTypeOK
  <2> QED
    BY <2>1, RowForward DEF Successors, Since, RowStatus, Effective
<1>2. ASSUME NEW t \in Proposals
      PROVE  /\ task[t] \notin {"checker_validated", "partial"}
                  => task'[t] \notin {"checker_validated", "partial"}
             /\ task[t] = "verified" => task'[t] = "verified"
  BY <1>2 DEF LedgerForward, LedgerMoves
<1> QED
  BY <1>1, <1>2 DEF Forward

\* The ledger stays behind the commands.
LEMMA LedgerStep ==
  ASSUME LedgerNeverAhead, Forward, \A t \in Proposals : LedgerForward(t)
  PROVE  LedgerNeverAhead'
<1>1. ASSUME NEW t \in Proposals, NEW s, Backed(t, s)
      PROVE  Backed(t, s)'
  <2>1. ASSUME NEW e \in Of(t)
        PROVE  /\ row[e] \in RowStatus \ {"none"} => row'[e] \in RowStatus \ {"none"}
               /\ row[e] \in Effective => row'[e] \in Effective
               /\ \A v \in {"readback_verified", "readback_failed", "execution_failed"} :
                    row[e] = v => row'[e] = v
    BY DEF Of, Forward, Since, RowStatus
  <2> QED
    BY <1>1, <2>1 DEF Backed
<1> QED
  BY <1>1 DEF LedgerNeverAhead, LedgerForward

-----------------------------------------------------------------------------
(* A command starts only once its task did.                                  *)

\* Only a call that saw its task started marks the command pending.
LEMMA StartStep ==
  ASSUME StoreInv, CallTypeOK, \A p \in Callers : Remembers(p), Started, Forward,
         [Next]_vars
  PROVE  Started'
<1> SUFFICES ASSUME NEW e \in Envelopes, row'[e] \notin {"none", "registered"}
             PROVE  task'[Proposal[e]] \notin {"checker_validated", "partial"}
  BY DEF Started
<1> USE DEF StoreInv, StoreTypeOK
<1>0. Proposal[e] \in Proposals
  BY EnvelopeAssumption
<1>1. CASE row[e] \notin {"none", "registered"}
  BY <1>0, <1>1 DEF Started, Forward
<1>2. CASE row[e] \in {"none", "registered"}
  <2>1. \E p \in Callers : Work(p)
    <3>1. ~ UNCHANGED vars /\ \A p \in Callers : ~ Submit(p)
      BY <1>2 DEF vars, store, Submit, Start
    <3>2. \A p \in Callers : ~ Fault(p)
      BY <1>2
      DEF Fault, TransactionFault, ClaimFault, AckLost, StorageFault, Crash, Rollback,
          Abandon, store
    <3>3. \A f \in Envelopes : ~ ServerCommits(f) /\ ~ OrphanAborts(f)
      BY <1>2 DEF ServerCommits, OrphanAborts, ApplyCommit, Rollback
    <3>4. \A t \in Cancellable : ~ Cancel(t)
      BY <1>2 DEF Cancel, TaskTransition
    <3> QED
      BY <3>1, <3>2, <3>3, <3>4 DEF Next
  <2> PICK p \in Callers : Work(p)
    BY <2>1
  <2>2. pc[p] = "rcMark" /\ env[p] = e /\ UNCHANGED task
    <3>1. CASE MarkPending(p)
      BY <1>2, <3>1 DEF MarkPending, MarkExecutionPending, store, CallTypeOK
    <3>2. CASE ~ MarkPending(p)
      <4>1. row' # row
        BY <1>2
      <4>2. Insert(p) \/ MoveTask(p) \/ Claim(p) \/ MarkFailed(p) \/ Record(p)
            \/ FinalMove(p)
        BY <4>1, <3>2
        DEF Work, Register, ReadCommand, ReadTask, Resolved, Begin, Advance,
            Acknowledged, LookupReceipt, ReadBack, UseExisting, Replay, FinalRead,
            Return, store
      <4> QED
        BY <1>2, <4>1, <4>2
        DEF Insert, MoveTask, Claim, MarkFailed, Record, FinalMove, InsertCommand,
            TaskTransition, AcquireClaim, MarkExecutionFailed, RecordReadback, store,
            CallTypeOK
    <3> QED
      BY <3>1, <3>2
  <2> QED
    BY <2>2 DEF Remembers
<1> QED
  BY <1>1, <1>2

-----------------------------------------------------------------------------
(* What a call remembers stays true while others act, and in its own steps.  *)

\* Steps of others leave true what a call remembers.
LEMMA RemembersStays ==
  ASSUME CallTypeOK, Forward, NEW q \in Callers, Remembers(q), SameCall(q)
  PROVE  Remembers(q)'
<1>1. env[q] \in Envelopes /\ Proposal[env[q]] \in Proposals /\ view[q] \in RowStatus
  BY EnvelopeAssumption DEF CallTypeOK
<1>2. row[env[q]] = "readback_verified" => row'[env[q]] = "readback_verified"
  BY <1>1 DEF Forward, Since, RowStatus
<1> QED
  BY <1>1, <1>2 DEF Remembers, SameCall, Forward, Present

\* A call whose proposal is verified in the ledger executed the very command
\* that was verified.
LEMMA VerifiedIsMine ==
  ASSUME StoreInv, LedgerNeverAhead, NEW e \in Envelopes, Present(e),
         task[Proposal[e]] \in {"readback_verified", "verified"}
  PROVE  row[e] = "readback_verified"
<1>1. PICK f \in Of(Proposal[e]) : row[f] = "readback_verified"
  BY EnvelopeAssumption DEF LedgerNeverAhead, Backed
<1>2. Present(f) /\ Proposal[f] = Proposal[e] /\ f \in Envelopes
  BY <1>1 DEF Of, Present
<1>3. f = e
  BY <1>2 DEF StoreInv, OneCommandPerProposal
<1> QED
  BY <1>1, <1>3

\* Steps of the call itself do too.
LEMMA WorkRemembers ==
  ASSUME StoreInv, StoreInv', CallTypeOK, LedgerNeverAhead, Started, Forward,
         NEW p \in Callers, Remembers(p), Work(p)
  PROVE  Remembers(p)'
<1> DEFINE e == env[p]
<1> USE DEF CallTypeOK, Remembers, Unregistered, InResolver, Present
<1>0. e \in Envelopes /\ Proposal[e] \in Proposals /\ view[p] \in RowStatus
  BY EnvelopeAssumption
<1>1. /\ row[e] # "none" => row'[e] # "none"
      /\ view[p] # "none" => row'[e] \in Since(view[p])
  BY <1>0 DEF Forward
<1>2. CASE Register(p) \/ Insert(p)
  BY <1>0, <1>1, <1>2
  DEF Register, Insert, ValidateReplay, SameKey, InsertCommand, Reconcile, Finish,
      Goto, store, StoreInv, StoreTypeOK
<1>3. CASE ReadCommand(p)
  <2>1. row[e] \in RowStatus \ {"none"} => row[e] \in Since(row[e])
    BY DEF Since, RowStatus, Effective
  <2> QED
    BY <1>0, <1>3, <2>1 DEF ReadCommand, store, StoreInv, StoreTypeOK
<1>4. CASE ReadTask(p)
  <2>1. pc[p] = "rcTask" /\ view[p] # "none" /\ UNCHANGED store
    BY <1>4 DEF ReadTask
  <2>2. CASE ResolverFailed(p, "lookup")
    BY <1>0, <1>1, <2>1, <2>2 DEF ResolverFailed, Goto, Finish, store
  <2>3. CASE Goto(p, "rcMove")
    BY <1>0, <1>1, <2>1, <2>3 DEF Goto, store
  <2>4. CASE /\ task[Proposal[e]] \in Level(view[p])
             /\ task[Proposal[e]] # Behind(view[p])
             /\ Goto(p, AfterMove(p))
    <3>1. view[p] = "registered"
            => task[Proposal[e]] \notin {"checker_validated", "partial"}
      BY <2>4 DEF Level, Ahead
    <3> QED
      BY <1>0, <1>1, <2>1, <2>4, <3>1 DEF AfterMove, Goto, store
  <2> QED
    BY <1>4, <2>2, <2>3, <2>4 DEF ReadTask
<1>5. CASE MoveTask(p)
  <2>1. pc[p] = "rcMove" /\ view[p] # "none"
    BY <1>5 DEF MoveTask
  <2>2. CASE Stale(p, "plain") /\ UNCHANGED store
    BY <1>0, <1>1, <2>1, <2>2 DEF Stale, ResolverFailed, Goto, Finish, store
  <2>3. CASE /\ TaskTransition(Proposal[e], Behind(view[p]), Ahead(view[p]))
             /\ Goto(p, AfterMove(p))
    <3>1. view[p] = "registered"
            => task'[Proposal[e]] \notin {"checker_validated", "partial"}
      BY <1>0, <2>3 DEF TaskTransition, Ahead, StoreInv, StoreTypeOK
    <3> QED
      BY <1>0, <1>1, <2>1, <2>3, <3>1 DEF AfterMove, Goto
  <2> QED
    BY <1>5, <2>2, <2>3 DEF MoveTask
<1>6. CASE MarkPending(p)
  BY <1>0, <1>1, <1>6
  DEF MarkPending, MarkExecutionPending, Stale, ResolverFailed, Goto, Finish, store
<1>7. CASE Resolved(p)
  <2>1. pc[p] = "resolved" /\ view[p] # "none" /\ UNCHANGED store
    BY <1>7 DEF Resolved
  <2>2. ASSUME NEW l \in {"replay", "begin", "readback", "finalRead"}, Continue(p, l)
        PROVE  Remembers(p)'
    BY <1>0, <1>1, <2>1, <2>2 DEF Continue, store
  <2>3. ASSUME NEW kind \in ErrorKind \ {"none"}, Finish(p, kind)
        PROVE  Remembers(p)'
    BY <1>0, <1>1, <2>1, <2>3 DEF Finish, store
  <2>4. CASE Proceed(p)
    BY <2>2, <2>3, <2>4 DEF Proceed, ErrorKind
  <2>5. CASE cont[p] = "error" /\ ResolverFailed(p, "lookup")
    BY <1>0, <1>1, <2>1, <2>3, <2>5 DEF ResolverFailed, Goto, ErrorKind, store
  <2>6. CASE cont[p] = "failed" /\ Finish(p, err[p])
    BY <2>1, <2>3, <2>6
  <2>7. CASE Continue(p, "finalRead") \/ Finish(p, "lookup")
    BY <2>2, <2>3, <2>7 DEF ErrorKind
  <2> QED
    BY <1>7, <2>4, <2>5, <2>6, <2>7 DEF Resolved
<1>8. CASE Begin(p) \/ Advance(p)
  BY <1>0, <1>1, <1>8 DEF Begin, Advance, Goto, InTransaction, store
<1>9. CASE Claim(p)
  BY <1>0, <1>1, <1>9
  DEF Claim, AcquireClaim, RunFailed, RunSucceeded, Reconcile, Goto, store
<1>10. CASE Acknowledged(p) \/ LookupReceipt(p)
  BY <1>0, <1>1, <1>10
  DEF Acknowledged, LookupReceipt, RunFailed, RunSucceeded, Reconcile, store
<1>11. CASE MarkFailed(p)
  BY <1>0, <1>1, <1>11 DEF MarkFailed, MarkExecutionFailed, Reconcile, Finish, store
<1>12. CASE ReadBack(p) \/ Replay(p)
  BY <1>0, <1>1, <1>12 DEF ReadBack, Replay, Goto, Finish, store
<1>13. CASE Record(p)
  BY <1>0, <1>1, <1>13 DEF Record, RecordReadback, Reconcile, Goto, store
<1>14. CASE UseExisting(p)
  BY <1>0, <1>1, <1>14 DEF UseExisting, Finish, store
<1>15. CASE FinalRead(p)
  <2>1. task[Proposal[e]] = "verified" => row[e] = "readback_verified"
    BY <1>0, <1>15, VerifiedIsMine DEF FinalRead
  <2> QED
    BY <1>0, <1>1, <1>15, <2>1 DEF FinalRead, Finish, Goto, store
<1>16. CASE FinalMove(p)
  <2>1. CASE TaskTransition(Proposal[e], "readback_verified", "verified") /\ Finish(p, "none")
    <3>1. row[e] = "readback_verified"
      BY <1>0, <1>16, <2>1, VerifiedIsMine DEF FinalMove, TaskTransition
    <3> QED
      BY <1>0, <1>1, <2>1, <3>1 DEF TaskTransition, Finish, StoreInv, StoreTypeOK
  <2>2. CASE UNCHANGED store /\ Finish(p, "plain")
    BY <1>0, <1>1, <1>16, <2>2 DEF FinalMove, Finish, store
  <2> QED
    BY <1>16, <2>1, <2>2 DEF FinalMove
<1>17. CASE Return(p)
  BY <1>17 DEF Return, Reset
<1> QED
  BY <1>2, <1>3, <1>4, <1>5, <1>6, <1>7, <1>8, <1>9, <1>10, <1>11, <1>12, <1>13,
     <1>14, <1>15, <1>16, <1>17 DEF Work

\* A new call remembers nothing yet.
LEMMA SubmitRemembers ==
  ASSUME CallTypeOK, NEW p \in Callers, Remembers(p), Submit(p)
  PROVE  Remembers(p)'
<1> PICK e \in Envelopes : Start(p, e) /\ UNCHANGED faults
  BY DEF Submit
<1>1. pc[p] = "idle" /\ view[p] = "none" /\ UNCHANGED <<store, view, cont>>
  BY DEF Start, Remembers, Unregistered
<1>2. \/ pc'[p] = "register"
      \/ pc'[p] = "done" /\ err'[p] = "plain"
  BY DEF Start, CallTypeOK
<1> QED
  BY <1>1, <1>2 DEF Remembers, Unregistered, InResolver

\* A call that goes on after a fault remembers what it read before.
LEMMA FaultRemembers ==
  ASSUME CallTypeOK, Forward, NEW p \in Callers, Remembers(p), Fault(p)
  PROVE  Remembers(p)'
<1> DEFINE e == env[p]
<1> USE DEF CallTypeOK, Remembers, Unregistered, InResolver, Present
<1>0. e \in Envelopes /\ Proposal[e] \in Proposals /\ view[p] \in RowStatus
  BY EnvelopeAssumption
<1>1. /\ row[e] # "none" => row'[e] # "none"
      /\ view[p] # "none" => row'[e] \in Since(view[p])
  BY <1>0 DEF Forward
<1>2. CASE TransactionFault(p)
  BY <1>0, <1>1, <1>2 DEF TransactionFault, RunFailed, Reconcile, Goto, MayRetry
<1>3. CASE ClaimFault(p)
  BY <1>0, <1>1, <1>3 DEF ClaimFault, RunFailed, Reconcile, Goto
<1>4. CASE AckLost(p)
  BY <1>0, <1>1, <1>4 DEF AckLost, Goto
<1>5. CASE StorageFault(p)
  <2>1. CASE pc[p] \in InResolver /\ ResolverFailed(p, "plain")
    BY <1>0, <1>1, <2>1 DEF ResolverFailed, Goto, Finish
  <2>2. CASE pc[p] \in {"lookupCommit", "lookupConn"} /\ RunFailed(p, "plain")
    BY <1>0, <1>1, <2>2 DEF RunFailed, Reconcile
  <2>3. CASE pc[p] = "record" /\ Goto(p, "existing")
    BY <1>0, <1>1, <2>3 DEF Goto
  <2>4. CASE pc[p] = "readback" /\ pc'[p] = "record" /\ UNCHANGED <<env, view, cont, err>>
    BY <1>0, <1>1, <2>4
  <2>5. CASE Finish(p, "plain")
    BY <1>0, <1>1, <2>5 DEF Finish
  <2> QED
    BY <1>5, <2>1, <2>2, <2>3, <2>4, <2>5 DEF StorageFault
<1>6. CASE Crash(p)
  BY <1>6 DEF Crash, Reset
<1> QED
  BY <1>2, <1>3, <1>4, <1>5, <1>6 DEF Fault

\* Every step leaves true what every call remembers.
LEMMA RemembersStep ==
  ASSUME StoreInv, StoreInv', CallTypeOK, LockHeld, LedgerNeverAhead, Started,
         Forward, \A p \in Callers : Remembers(p), [Next]_vars
  PROVE  \A p \in Callers : Remembers(p)'
<1>1. ASSUME UNCHANGED <<call, faults>>
      PROVE  \A p \in Callers : Remembers(p)'
  BY <1>1, RemembersStays DEF call, SameCall
<1>2. ASSUME NEW p \in Callers, Submit(p) \/ Work(p) \/ Fault(p)
      PROVE  \A q \in Callers : Remembers(q)'
  <2>1. Remembers(p)'
    BY <1>2, SubmitRemembers, WorkRemembers, FaultRemembers
  <2>2. ASSUME NEW q \in Callers \ {p} PROVE Remembers(q)'
    BY <1>2, <2>2, CallFrame, RemembersStays
  <2> QED
    BY <2>1, <2>2
<1>3. ASSUME NEW e \in Envelopes, ServerCommits(e), NEW p \in Callers
      PROVE  Remembers(p)'
  <2>1. CASE pc'[p] = pc[p]
    BY <1>3, <2>1, RemembersStays DEF ServerCommits, SameCall
  <2>2. CASE pc'[p] # pc[p]
    <3>1. pc[p] = "sent" /\ pc'[p] = "acked" /\ UNCHANGED <<env, view, cont, err>>
      BY <1>3, <2>2, LockAssumption DEF ServerCommits, CallTypeOK
    <3>2. env[p] \in Envelopes /\ view[p] \in RowStatus
      BY DEF CallTypeOK
    <3> QED
      BY <3>1, <3>2 DEF Remembers, Forward, Present, Unregistered, InResolver
  <2> QED
    BY <2>1, <2>2
<1> QED
  BY <1>1, <1>2, <1>3 DEF Next, OrphanAborts, Cancel, vars

-----------------------------------------------------------------------------
(* The inductive invariant.                                                  *)

\* The invariant holds at the start.
LEMMA IndInit == Init => IndInv
<1> SUFFICES ASSUME Init PROVE IndInv
  OBVIOUS
<1>1. StoreInv
  BY StoreInitInv DEF Init
<1>2. CallTypeOK
  BY CallTypeInit
<1>3. LockHeld
  BY LockAssumption DEF Init, StoreInit, LockHeld, InTransaction
<1>4. LedgerNeverAhead /\ Started
  BY EnvelopeAssumption
  DEF Init, StoreInit, LedgerNeverAhead, Backed, Started
<1>5. \A p \in Callers : Remembers(p)
  BY DEF Init, Remembers, Unregistered, InResolver
<1> QED
  BY <1>1, <1>2, <1>3, <1>4, <1>5 DEF IndInv

\* Under the invariant a step is a statement of the store and undoes nothing.
LEMMA IndStoreStep ==
  ASSUME IndInv, [Next]_vars
  PROVE  /\ [StoreNext]_store /\ StoreInv'
         /\ \A t \in Proposals : LedgerForward(t)
         /\ Forward
<1>1. [StoreNext]_store /\ \A t \in Proposals : LedgerForward(t)
  BY StoreSteps DEF IndInv, StoreInv
<1>2. StoreInv'
  BY <1>1, StoreStep DEF IndInv
<1>3. Forward
  BY <1>1, MovesForward DEF IndInv
<1> QED
  BY <1>1, <1>2, <1>3

\* Every step keeps the invariant.
LEMMA IndStep == IndInv /\ [Next]_vars => IndInv'
<1> SUFFICES ASSUME IndInv, [Next]_vars PROVE IndInv'
  OBVIOUS
<1>1. /\ StoreInv' /\ Forward
      /\ \A t \in Proposals : LedgerForward(t)
  BY IndStoreStep
<1>2. StoreTypeOK /\ StoreInv /\ CallTypeOK /\ LockHeld /\ LedgerNeverAhead /\ Started
      /\ \A p \in Callers : Remembers(p)
  BY DEF IndInv, StoreInv
<1>3. CallTypeOK'
  BY <1>2, CallTypeStep
<1>4. LockHeld'
  BY <1>2, LockStep
<1>5. LedgerNeverAhead'
  BY <1>1, <1>2, LedgerStep
<1>6. Started'
  BY <1>1, <1>2, StartStep
<1>7. \A p \in Callers : Remembers(p)'
  BY <1>1, <1>2, RemembersStep
<1> QED
  BY <1>1, <1>3, <1>4, <1>5, <1>6, <1>7 DEF IndInv

\* The invariant the answers, the ledger and the books rest on: the store is
\* consistent, the row lock follows the running transactions, and what a call
\* read before an await still holds, up to forward moves, when it uses it.
THEOREM Inductive == Spec => []IndInv
BY IndInit, IndStep, PTL DEF Spec

\* Every variable of every call and of the store keeps its type: no retry
\* counter of the runner or the resolver passes its bound.
THEOREM TypeCorrect == Spec => []TypeOK
<1>1. IndInv => TypeOK
  BY DEF IndInv, StoreInv, TypeOK
<1> QED
  BY <1>1, Inductive, PTL

\* No interleaving of calls, retries, lost acknowledgements and crashes makes
\* the domain transaction of a checked proposal commit twice.
THEOREM EffectAtMostOnce == Spec => []EffectOnce
<1>1. IndInv => EffectOnce
  BY DEF IndInv, StoreInv
<1> QED
  BY <1>1, Inductive, PTL

\* A receipt exists exactly when the domain rows do, and exactly when the
\* command status says so: the replay path may trust the receipt alone.
THEOREM ReceiptIsEvidence == Spec => []ReceiptMatchesEffect
<1>1. IndInv => ReceiptMatchesEffect
  BY DEF IndInv, StoreInv
<1> QED
  BY <1>1, Inductive, PTL

\* markExecutionFailed, issued by any call, never overtakes a transaction
\* whose COMMIT may still succeed.
THEOREM InDoubtSafe == Spec => []InDoubtNotFailed
<1>1. IndInv => InDoubtNotFailed
  BY DEF IndInv, StoreInv
<1> QED
  BY <1>1, Inductive, PTL

\* CommandStateResolver.transition never records progress of a task that the
\* command of that task has not made.
THEOREM LedgerTrails == Spec => []LedgerNeverAhead
<1>1. IndInv => LedgerNeverAhead
  BY DEF IndInv
<1> QED
  BY <1>1, Inductive, PTL

\* A proposal its user declined has no effect, even when a second answer of the
\* user started the same command concurrently.
THEOREM CancelledIsSafe == Spec => []CancelledNeverApplied
<1>1. IndInv => CancelledNeverApplied
  <2> SUFFICES ASSUME IndInv, NEW t \in Proposals, task[t] = "partial",
                      NEW e \in Of(t)
               PROVE  row[e] \in {"none", "registered"} /\ applied[e] = 0
    BY DEF CancelledNeverApplied
  <2>1. e \in Envelopes /\ row[e] \in {"none", "registered"}
    BY DEF Of, IndInv, Started
  <2>2. row[e] \notin Effective /\ applied[e] \in Nat
    BY <2>1 DEF Effective, IndInv, StoreInv, StoreTypeOK
  <2>3. ~ (applied[e] > 0)
    BY <2>1, <2>2 DEF IndInv, StoreInv, ReceiptMatchesEffect
  <2> QED
    BY <2>1, <2>2, <2>3
<1> QED
  BY <1>1, Inductive, PTL

\* A coordinator that returns success is backed by the store: one effect, its
\* receipt, a passed read-back and a verified task.
THEOREM AnswerIsBacked == Spec => []VerifiedAnswer
<1>1. IndInv => VerifiedAnswer
  <2> SUFFICES ASSUME IndInv, NEW p \in Callers, pc[p] = "done", err[p] = "none"
               PROVE  /\ applied[env[p]] = 1 /\ env[p] \in receipts
                      /\ readback[env[p]] = "passed"
                      /\ row[env[p]] = "readback_verified"
                      /\ task[Proposal[env[p]]] = "verified"
    BY DEF VerifiedAnswer
  <2>1. env[p] \in Envelopes /\ Remembers(p)
    BY DEF IndInv, CallTypeOK
  <2>2. row[env[p]] = "readback_verified" /\ task[Proposal[env[p]]] = "verified"
    BY <2>1 DEF Remembers
  <2>3. readback[env[p]] = "passed"
    BY <2>1, <2>2 DEF IndInv, StoreInv, ReadbackMatchesRow
  <2>4. env[p] \in receipts /\ applied[env[p]] > 0
    BY <2>1, <2>2 DEF IndInv, StoreInv, ReceiptMatchesEffect, Effective
  <2>5. applied[env[p]] \in Nat /\ applied[env[p]] <= 1
    BY <2>1 DEF IndInv, StoreInv, StoreTypeOK, EffectOnce
  <2> QED
    BY <2>2, <2>3, <2>4, <2>5
<1> QED
  BY <1>1, Inductive, PTL

\* Only a command equal to an accepted maker artifact, with its exact
\* confirmation, ever writes domain rows: register is the one way in.
THEOREM OnlyChecked == Spec => []OnlyCheckedApplied
<1> DEFINE Checked == \A e \in Envelopes : Present(e) => Insertable(e)
<1>1. Init => Checked
  BY DEF Init, StoreInit, Present
<1>2. IndInv /\ Checked /\ [Next]_vars => Checked'
  <2> SUFFICES ASSUME IndInv, Checked, [Next]_vars, NEW e \in Envelopes, Present(e)'
               PROVE  Insertable(e)
    BY DEF Insertable
  <2>1. CASE Present(e)
    BY <2>1
  <2>2. CASE row[e] = "none" /\ row'[e] # "none"
    <3>1. StoreNext /\ StoreTypeOK
      BY <2>2, IndStoreStep DEF IndInv, StoreInv, store
    <3>2. InsertCommand(e)
      BY <2>2, <3>1
      DEF StoreNext, StoreTypeOK, InsertCommand, MarkExecutionPending,
          MarkExecutionFailed, RecordReadback, AcquireClaim, Rollback, Abandon,
          ApplyCommit, TaskTransition
    <3> QED
      BY <3>2 DEF InsertCommand
  <2> QED
    BY <2>1, <2>2 DEF Present
<1>3. IndInv /\ Checked => OnlyCheckedApplied
  <2> SUFFICES ASSUME IndInv, Checked, NEW e \in Envelopes, applied[e] > 0
               PROVE  e \in Accepted \cap Confirmed
    BY DEF OnlyCheckedApplied
  <2>1. Present(e)
    BY DEF IndInv, StoreInv, ReceiptMatchesEffect, Effective, Present
  <2> QED
    BY <2>1 DEF Insertable
<1> QED
  BY <1>1, <1>2, <1>3, Inductive, PTL DEF Spec

\* Every status update the calls send passes the guard trigger: the trigger is
\* a second line of defence and no call depends on its exception.
THEOREM GuardIsQuiet == Spec => GuardNeverRaises
<1>1. ASSUME IndInv, [Next]_vars
      PROVE  \A e \in Envelopes : GuardAccepts(e)
  <2> SUFFICES ASSUME NEW e \in Envelopes, row'[e] # row[e], Present(e)
               PROVE  row'[e] \in Successors(row[e]) /\ Evidence(e, row'[e])
    BY DEF GuardAccepts
  <2>1. [StoreNext]_store /\ StoreInv /\ StoreInv'
    BY <1>1, IndStoreStep DEF IndInv
  <2>2. row'[e] \in Successors(row[e])
    BY <2>1, RowForward DEF Present
  <2>3. Evidence(e, row'[e])
    BY <2>1
    DEF Evidence, StoreInv, ReceiptMatchesEffect, ReadbackMatchesRow, Effective
  <2> QED
    BY <2>2, <2>3
<1>2. IndInv /\ [Next]_vars => [\A e \in Envelopes : GuardAccepts(e)]_vars
  BY <1>1
<1> QED
  BY <1>2, Inductive, PTL DEF Spec, GuardNeverRaises

\* Whatever the calls do, the store sees only the statements MutationStore
\* lists: every property of StoreSpec holds of the whole system.
THEOREM ImplementsStore == Spec => StoreSpec
<1>1. Init => StoreInit
  BY DEF Init
<1>2. IndInv /\ [Next]_vars => [StoreNext]_store
  BY IndStoreStep
<1> QED
  BY <1>1, <1>2, Inductive, PTL DEF Spec, StoreSpec

-----------------------------------------------------------------------------
(* What an outside observer sees.                                            *)

\* The outcome a command in status s stands for.
Standing(s) ==
  CASE s = "readback_verified" -> "verified"
    [] s = "readback_failed" -> "unverified"
    [] s = "committed" -> "applied"
    [] s = "execution_failed" -> "rejected"
    [] OTHER -> "open"

\* The only command of a proposal decides its outcome, unless it was declined.
OutcomeStands(e) ==
  OutcomeOf(Proposal[e]) =
    IF task[Proposal[e]] = "partial" THEN "cancelled" ELSE Standing(row[e])

\* So it does in every state in which the command has its row.
LEMMA OutcomeByRow ==
  ASSUME NEW e \in Envelopes
  PROVE  StoreInv /\ Started /\ Present(e) => OutcomeStands(e)
<1> SUFFICES ASSUME StoreInv, Started, Present(e) PROVE OutcomeStands(e)
  OBVIOUS
<1> DEFINE t == Proposal[e]
<1>1. e \in Of(t) /\ \A f \in Of(t) : f \in Envelopes /\ Proposal[f] = t
  BY DEF Of
<1>2. \A f \in Of(t) : f # e => row[f] = "none"
  BY <1>1 DEF StoreInv, OneCommandPerProposal, Present
<1>3. \A f \in Of(t) :
        /\ row[f] \in RowStatus /\ applied[f] \in Nat
        /\ readback[f] \in {"none", "passed", "failed"}
        /\ readback[f] = "passed" <=> row[f] = "readback_verified"
        /\ readback[f] = "failed" <=> row[f] = "readback_failed"
        /\ applied[f] > 0 <=> row[f] \in Effective
  BY <1>1 DEF StoreInv, StoreTypeOK, ReadbackMatchesRow, ReceiptMatchesEffect
<1>4. task[t] = "partial" => row[e] = "registered"
  BY <1>1, <1>3 DEF Started, Present
<1> QED
  BY <1>1, <1>2, <1>3, <1>4
  DEF OutcomeStands, OutcomeOf, Standing, Effective, RowStatus

\* The same in the next state.
LEMMA OutcomeNext ==
  ASSUME NEW e \in Envelopes, StoreInv', Started', Present(e)'
  PROVE  OutcomeStands(e)'
<1>1. (StoreInv /\ Started /\ Present(e))' => OutcomeStands(e)'
  BY OutcomeByRow, PTL
<1> QED
  BY <1>1

\* A proposal without a command is open, unless its user declined it.
LEMMA OutcomeWithoutCommand ==
  ASSUME StoreInv, NEW t \in Proposals, \A e \in Of(t) : ~ Present(e)
  PROVE  OutcomeOf(t) = IF task[t] = "partial" THEN "cancelled" ELSE "open"
<1>1. \A e \in Of(t) : e \in Envelopes /\ row[e] = "none"
  BY DEF Of, Present
<1>2. \A e \in Of(t) : readback[e] = "none" /\ applied[e] \in Nat /\ ~ (applied[e] > 0)
  BY <1>1 DEF StoreInv, StoreTypeOK, ReadbackMatchesRow, ReceiptMatchesEffect, Effective
<1> QED
  BY <1>1, <1>2 DEF OutcomeOf

\* The outcome of a proposal none of whose rows changed stays.
LEMMA OutcomeStays ==
  ASSUME NEW t \in Proposals, (task[t] = "partial") <=> (task'[t] = "partial"),
         \A e \in Of(t) : /\ row'[e] = row[e] /\ readback'[e] = readback[e]
                          /\ applied'[e] = applied[e]
  PROVE  OutcomeOf(t)' = OutcomeOf(t)
<1>1. \A s : /\ (\E e \in Of(t) : readback'[e] = s) <=> (\E e \in Of(t) : readback[e] = s)
             /\ (\A e \in Of(t) : readback'[e] = s) <=> (\A e \in Of(t) : readback[e] = s)
             /\ (\E e \in Of(t) : row'[e] = s) <=> (\E e \in Of(t) : row[e] = s)
             /\ (\A e \in Of(t) : applied'[e] = s) <=> (\A e \in Of(t) : applied[e] = s)
  OBVIOUS
<1>2. (\E e \in Of(t) : applied'[e] > 0) <=> (\E e \in Of(t) : applied[e] > 0)
  OBVIOUS
<1> QED
  BY <1>1, <1>2 DEF OutcomeOf, Of

\* Only the proposal of command e sees a statement on the row of e.
LEMMA OutcomeElsewhere ==
  ASSUME StoreTypeOK, NEW e \in Envelopes, NEW to, UNCHANGED task,
         \A f \in Envelopes \ {e} : /\ row'[f] = row[f] /\ readback'[f] = readback[f]
                                    /\ applied'[f] = applied[f],
         OutcomeOf(Proposal[e])' = to
  PROVE  /\ outcomes' = [outcomes EXCEPT ![Proposal[e]] = to]
         /\ publications' = publications
<1>1. \A t \in Proposals \ {Proposal[e]} : OutcomeOf(t)' = OutcomeOf(t)
  <2> SUFFICES ASSUME NEW t \in Proposals \ {Proposal[e]}
               PROVE  OutcomeOf(t)' = OutcomeOf(t)
    OBVIOUS
  <2>1. \A f \in Of(t) : f \in Envelopes \ {e}
    BY DEF Of
  <2> QED
    BY <2>1, OutcomeStays
<1> QED
  BY <1>1 DEF outcomes, publications

\* Statements on a command that decide nothing.
LEMMA QuietStatement ==
  ASSUME StoreInv, StoreInv', Started, Started', NEW e \in Envelopes,
         \/ InsertCommand(e) \/ MarkExecutionPending(e) \/ Rollback(e) \/ Abandon(e)
         \/ \E p \in Callers : AcquireClaim(e, p)
  PROVE  outcomes' = outcomes /\ publications' = publications
<1> USE DEF StoreInv, StoreTypeOK
<1>0. /\ UNCHANGED <<task, readback, applied>>
      /\ \A f \in Envelopes \ {e} : row'[f] = row[f]
  BY DEF InsertCommand, MarkExecutionPending, Rollback, Abandon, AcquireClaim
<1>1. OutcomeOf(Proposal[e])' = OutcomeOf(Proposal[e])
  <2>0. Proposal[e] \in Proposals
    BY EnvelopeAssumption
  <2>1. CASE row'[e] = row[e]
    BY <1>0, <2>0, <2>1, OutcomeStays DEF Of
  <2>2. CASE InsertCommand(e)
    <3>1. \A f \in Of(Proposal[e]) : ~ Present(f)
      BY <2>2 DEF InsertCommand, ProposalTaken, Of
    <3>2. OutcomeOf(Proposal[e]) =
            IF task[Proposal[e]] = "partial" THEN "cancelled" ELSE "open"
      BY <2>0, <3>1, OutcomeWithoutCommand
    <3>3. Present(e)' /\ row'[e] = "registered" /\ UNCHANGED task
      BY <2>2 DEF InsertCommand, Present
    <3>4. OutcomeStands(e)'
      BY <3>3, OutcomeNext
    <3> QED
      BY <3>2, <3>3, <3>4 DEF OutcomeStands, Standing
  <2>3. CASE MarkExecutionPending(e)
    <3>1. /\ Present(e) /\ Present(e)' /\ UNCHANGED task
          /\ row[e] = "registered" /\ row'[e] = "execution_pending"
      BY <2>3 DEF MarkExecutionPending, Present
    <3>2. OutcomeStands(e) /\ OutcomeStands(e)'
      BY <3>1, OutcomeByRow, OutcomeNext
    <3> QED
      BY <3>1, <3>2 DEF OutcomeStands, Standing
  <2> QED
    BY <2>1, <2>2, <2>3 DEF Rollback, Abandon, AcquireClaim
<1>2. /\ outcomes' = [outcomes EXCEPT ![Proposal[e]] = OutcomeOf(Proposal[e])]
      /\ publications' = publications
  BY <1>0, <1>1, OutcomeElsewhere
<1> QED
  BY <1>2, EnvelopeAssumption DEF outcomes

\* The statements that decide: COMMIT, a failed execution, a read-back.
Decides(t) ==
  \/ Promise!Decide(t, "open", "applied") \/ Promise!Decide(t, "applied", "verified")
  \/ Promise!Decide(t, "applied", "unverified") \/ Promise!Decide(t, "open", "rejected")

\* Each of them decides the outcome of one proposal, and of no other.
LEMMA DecidingStatement ==
  ASSUME StoreInv, StoreInv', Started, Started', UNCHANGED answers,
         NEW e \in Envelopes, NEW ok \in BOOLEAN,
         MarkExecutionFailed(e) \/ RecordReadback(e, ok) \/ ApplyCommit(e)
  PROVE  Decides(Proposal[e])
<1> USE DEF StoreInv, StoreTypeOK
<1>0. Proposal[e] \in Proposals
  BY EnvelopeAssumption
<1>1. /\ UNCHANGED task
      /\ \A f \in Envelopes \ {e} : /\ row'[f] = row[f] /\ readback'[f] = readback[f]
                                    /\ applied'[f] = applied[f]
  BY DEF MarkExecutionFailed, RecordReadback, ApplyCommit
<1>2. \/ row[e] = "execution_pending" /\ row'[e] \in {"execution_failed", "committed"}
      \/ row[e] = "committed" /\ row'[e] \in {"readback_verified", "readback_failed"}
  BY DEF MarkExecutionFailed, RecordReadback, ApplyCommit
<1>3. Present(e) /\ Present(e)' /\ task[Proposal[e]] # "partial"
  BY <1>2 DEF Present, Started
<1>4. OutcomeStands(e) /\ OutcomeStands(e)'
  BY <1>3, OutcomeByRow, OutcomeNext
<1>5. /\ OutcomeOf(Proposal[e]) = Standing(row[e])
      /\ OutcomeOf(Proposal[e])' = Standing(row'[e])
  BY <1>1, <1>3, <1>4 DEF OutcomeStands
<1>6. /\ outcomes' = [outcomes EXCEPT ![Proposal[e]] = Standing(row'[e])]
      /\ publications' = publications
  BY <1>1, <1>5, OutcomeElsewhere
<1>7. outcomes[Proposal[e]] = Standing(row[e])
  BY <1>0, <1>5 DEF outcomes
<1> QED
  BY <1>2, <1>6, <1>7 DEF Decides, Promise!Decide, Standing

\* A task status that stands for an outcome is backed by a command that has it.
LEMMA SettledOutcome ==
  ASSUME StoreInv, Started, NEW t \in Proposals, task[t] # "partial",
         NEW s \in {"verified", "readback_failed", "execution_failed"}, Backed(t, s)
  PROVE  outcomes[t] = PublishedAs(s) /\ outcomes[t] \in Promise!Settled
<1>1. PICK e \in Of(t) :
             row[e] = IF s = "verified" THEN "readback_verified" ELSE s
  BY DEF Backed
<1>2. e \in Envelopes /\ Proposal[e] = t /\ Present(e)
  BY <1>1 DEF Of, Present
<1>3. OutcomeOf(t) = Standing(row[e])
  BY <1>2, OutcomeByRow DEF OutcomeStands
<1>4. Standing(row[e]) = PublishedAs(s) /\ PublishedAs(s) \in Promise!Settled
  BY <1>1 DEF Standing, PublishedAs, Promise!Settled
<1> QED
  BY <1>3, <1>4 DEF outcomes

\* A move of the ledger publishes the outcome, declines the proposal, or shows
\* nothing to the outside.
LEMMA LedgerPublishes ==
  ASSUME StoreInv, StoreInv', Started, Started', NEW t \in Proposals,
         NEW from \in TaskStatus, NEW to \in TaskStatus, TaskTransition(t, from, to),
         LedgerForward(t)
  PROVE  \/ outcomes' = outcomes /\ publications' = publications
         \/ UNCHANGED answers => Promise!Decline(t)
         \/ UNCHANGED answers => Promise!Publish(t)
<1> USE DEF StoreInv, StoreTypeOK
<1>1. /\ task[t] = from /\ task' = [task EXCEPT ![t] = to] /\ task'[t] = to
      /\ UNCHANGED <<row, readback, applied>>
  BY DEF TaskTransition
<1>2. \A u \in Proposals \ {t} : OutcomeOf(u)' = OutcomeOf(u) /\ task'[u] = task[u]
  BY <1>1, OutcomeStays
<1>3. publications' = [publications EXCEPT ![t] = PublishedAs(to)]
  BY <1>1, <1>2 DEF publications
<1>4. publications[t] = PublishedAs(from)
  BY <1>1 DEF publications
<1>5. CASE from = to
  <2>1. task' = task
    BY <1>1, <1>5
  <2> QED
    BY <1>1, <2>1, OutcomeStays DEF outcomes, publications
<1>6. CASE from # to /\ to # "partial"
  <2>1. <<from, to>> \in LedgerMoves /\ Backed(t, to)
    BY <1>1, <1>6 DEF LedgerForward
  <2>2. from # "partial" /\ PublishedAs(from) = "open"
    BY <2>1 DEF LedgerMoves, PublishedAs
  <2>3. outcomes' = outcomes
    BY <1>1, <1>2, <1>6, <2>2, OutcomeStays DEF outcomes
  <2>4. CASE to \in {"execution_pending", "committed", "readback_verified"}
    <3>1. PublishedAs(to) = "open"
      BY <2>4 DEF PublishedAs
    <3>2. publications' = publications
      BY <1>3, <1>4, <2>2, <3>1 DEF publications
    <3> QED
      BY <2>3, <3>2
  <2>5. CASE to \in {"verified", "readback_failed", "execution_failed"}
    <3>1. outcomes[t] = PublishedAs(to) /\ outcomes[t] \in Promise!Settled
      BY <1>1, <2>1, <2>2, <2>5, SettledOutcome
    <3> QED
      BY <1>3, <1>4, <2>2, <2>3, <3>1 DEF Promise!Publish
  <2> QED
    BY <1>6, <2>1, <2>4, <2>5 DEF LedgerMoves
<1>7. CASE from # to /\ to = "partial"
  <2>1. from = "checker_validated"
    BY <1>1, <1>7 DEF LedgerForward, LedgerMoves
  <2>2. \A e \in Of(t) : /\ e \in Envelopes /\ Proposal[e] = t
                         /\ row[e] \in {"none", "registered"}
    BY <1>1, <2>1 DEF Started, Of
  <2>3. OutcomeOf(t) = "open"
    <3>1. CASE \A e \in Of(t) : ~ Present(e)
      BY <1>1, <2>1, <3>1, OutcomeWithoutCommand
    <3>2. CASE \E e \in Of(t) : Present(e)
      <4> PICK e \in Of(t) : Present(e)
        BY <3>2
      <4>1. OutcomeStands(e)
        BY <2>2, OutcomeByRow
      <4> QED
        BY <1>1, <2>1, <2>2, <4>1 DEF OutcomeStands, Standing, Present
    <3> QED
      BY <3>1, <3>2
  <2>4. OutcomeOf(t)' = "cancelled"
    <3>1. \A e \in Of(t) : row'[e] \in {"none", "registered"} /\ ~ (applied'[e] > 0)
                           /\ readback'[e] = "none"
      BY <1>1, <2>2 DEF ReadbackMatchesRow, ReceiptMatchesEffect, Effective
    <3>2. \A e \in Of(t) : ~ (row'[e] = "execution_failed")
      BY <3>1
    <3> QED
      BY <1>1, <1>7, <3>1, <3>2 DEF OutcomeOf, Of
  <2>5. outcomes' = [outcomes EXCEPT ![t] = "cancelled"] /\ outcomes[t] = "open"
    BY <1>2, <2>3, <2>4 DEF outcomes
  <2>6. PublishedAs(to) = "cancelled"
    BY <1>7 DEF PublishedAs
  <2> QED
    BY <1>3, <2>5, <2>6 DEF Promise!Decline
<1> QED
  BY <1>5, <1>6, <1>7

\* One call moved: only its answer can change.
LEMMA OneAnswer ==
  ASSUME NEW p \in Callers, \A q \in Callers \ {p} : SameCall(q)
  PROVE  answers' = [answers EXCEPT ![p] = AnswerOf(p)']
BY DEF answers, AnswerOf, SameCall

\* A call that answers success read its task as verified in this step, or
\* moved it there.
LEMMA WorkAnswers ==
  ASSUME StoreInv, CallTypeOK, NEW p \in Callers, Remembers(p), Work(p),
         AnswerOf(p)' # NoAnswer
  PROVE  FinalRead(p) \/ FinalMove(p)
<1> SUFFICES ASSUME ~ FinalRead(p), ~ FinalMove(p)
             PROVE  ~ (pc'[p] = "done" /\ err'[p] = "none")
  BY DEF AnswerOf
<1> USE DEF CallTypeOK, ErrorKind
<1>1. CASE Register(p) \/ Insert(p)
  BY <1>1 DEF Register, Insert, ValidateReplay, Reconcile, Finish, Goto
<1>2. CASE ReadCommand(p) \/ ReadTask(p) \/ MoveTask(p) \/ MarkPending(p)
  BY <1>2
  DEF ReadCommand, ReadTask, MoveTask, MarkPending, Stale, ResolverFailed, AfterMove,
      Remembers, InResolver, Goto, Finish
<1>3. CASE Resolved(p)
  <2>1. Proceed(p) => ~ (pc'[p] = "done" /\ err'[p] = "none")
    BY DEF Proceed, Continue, Finish
  <2> QED
    BY <1>3, <2>1 DEF Resolved, ResolverFailed, Remembers, Goto, Continue, Finish
<1>4. CASE Begin(p) \/ Claim(p) \/ Advance(p) \/ Acknowledged(p) \/ LookupReceipt(p)
  BY <1>4 DEF Begin, Claim, Advance, Acknowledged, LookupReceipt, RunSucceeded,
              RunFailed, Reconcile, Goto
<1>5. CASE MarkFailed(p) \/ ReadBack(p) \/ Record(p)
  BY <1>5 DEF MarkFailed, ReadBack, Record, Reconcile, Finish, Goto
<1>6. CASE UseExisting(p) \/ Replay(p) \/ Return(p)
  BY <1>6 DEF UseExisting, Replay, Return, Reset, Finish, Goto
<1> QED
  BY <1>1, <1>2, <1>3, <1>4, <1>5, <1>6 DEF Work

\* No fault and no submission makes a call answer success.
LEMMA OthersAnswerNothing ==
  ASSUME CallTypeOK, NEW p \in Callers, Remembers(p), Submit(p) \/ Fault(p)
  PROVE  AnswerOf(p) = NoAnswer /\ AnswerOf(p)' = NoAnswer
<1> SUFFICES ~ (pc[p] = "done") /\ ~ (pc'[p] = "done" /\ err'[p] = "none")
  BY DEF AnswerOf
<1> USE DEF CallTypeOK, InResolver
<1>1. CASE Submit(p)
  BY <1>1 DEF Submit, Start
<1>2. CASE TransactionFault(p) \/ ClaimFault(p) \/ AckLost(p)
  BY <1>2 DEF TransactionFault, ClaimFault, AckLost, RunFailed, Reconcile, Goto
<1>3. CASE StorageFault(p)
  BY <1>3 DEF StorageFault, ResolverFailed, RunFailed, Reconcile, Goto, Finish
<1>4. CASE Crash(p)
  BY <1>4 DEF Crash, Reset
<1> QED
  BY <1>1, <1>2, <1>3, <1>4 DEF Fault

\* What a step of one call does to the answers.
LEMMA AnswerSteps ==
  ASSUME IndInv, [Next]_vars
  PROVE  \/ UNCHANGED answers
         \/ \E p \in Callers :
              UNCHANGED store /\ answers' = [answers EXCEPT ![p] = NoAnswer]
         \/ \E p \in Callers :
              /\ FinalRead(p) \/ FinalMove(p)
              /\ pc'[p] = "done" /\ err'[p] = "none" /\ answers[p] = NoAnswer
              /\ answers' = [answers EXCEPT ![p] = Proposal[env[p]]]
<1> USE DEF IndInv
<1>1. ASSUME NEW p \in Callers, AnswerOf(p)' = AnswerOf(p),
             \A q \in Callers \ {p} : SameCall(q)
      PROVE  UNCHANGED answers
  BY <1>1, OneAnswer DEF answers
<1>2. ASSUME NEW p \in Callers, Submit(p) \/ Fault(p)
      PROVE  UNCHANGED answers
  BY <1>1, <1>2, CallFrame, OthersAnswerNothing
<1>3. ASSUME NEW p \in Callers, Return(p)
      PROVE  UNCHANGED store /\ answers' = [answers EXCEPT ![p] = NoAnswer]
  <2>1. \A q \in Callers \ {p} : SameCall(q)
    BY <1>3, MoveFrames DEF Return
  <2>2. AnswerOf(p)' = NoAnswer
    BY <1>3 DEF Return, Reset, AnswerOf, CallTypeOK
  <2> QED
    BY <1>3, <2>1, <2>2, OneAnswer DEF Return
<1>4. ASSUME NEW p \in Callers, Work(p), ~ Return(p)
      PROVE  \/ UNCHANGED answers
             \/ /\ FinalRead(p) \/ FinalMove(p)
                /\ pc'[p] = "done" /\ err'[p] = "none" /\ answers[p] = NoAnswer
                /\ answers' = [answers EXCEPT ![p] = Proposal[env[p]]]
  <2>1. \A q \in Callers \ {p} : SameCall(q)
    BY <1>4, CallFrame
  <2>2. pc[p] # "done"
    BY <1>4
    DEF Work, Register, Insert, ReadCommand, ReadTask, MoveTask, MarkPending, Resolved,
        Begin, Claim, Advance, Acknowledged, LookupReceipt, MarkFailed, ReadBack,
        Record, UseExisting, Replay, FinalRead, FinalMove
  <2>3. AnswerOf(p) = NoAnswer /\ answers[p] = NoAnswer
    BY <2>2 DEF AnswerOf, answers
  <2>4. CASE AnswerOf(p)' = NoAnswer
    BY <1>1, <2>1, <2>3, <2>4
  <2>5. CASE AnswerOf(p)' # NoAnswer
    <3>1. FinalRead(p) \/ FinalMove(p)
      BY <1>4, <2>5, WorkAnswers DEF StoreInv
    <3>2. pc'[p] = "done" /\ err'[p] = "none" /\ AnswerOf(p)' = Proposal[env'[p]]
      BY <2>5 DEF AnswerOf
    <3>3. env' = env
      BY <3>1 DEF FinalRead, FinalMove, Finish, Goto
    <3> QED
      BY <2>1, <2>3, <3>1, <3>2, <3>3, OneAnswer
  <2> QED
    BY <2>4, <2>5
<1>5. ASSUME NEW e \in Envelopes, ServerCommits(e)
      PROVE  UNCHANGED answers
  <2>1. \A p \in Callers : /\ err'[p] = err[p] /\ env'[p] = env[p]
                           /\ (pc'[p] = "done") <=> (pc[p] = "done")
    BY <1>5, LockAssumption DEF ServerCommits, CallTypeOK
  <2> QED
    BY <2>1 DEF answers, AnswerOf
<1>6. CASE UNCHANGED call
  BY <1>6 DEF call, answers, AnswerOf
<1> QED
  BY <1>2, <1>3, <1>4, <1>5, <1>6 DEF Next, OrphanAborts, Cancel, vars

\* A step that changes no answer is a step of the promise, or shows nothing.
LEMMA StoreShows ==
  ASSUME IndInv, IndInv', [Next]_vars, UNCHANGED answers
  PROVE  [Promise!Next]_Promise!promise
<1>1. /\ [StoreNext]_store /\ StoreInv /\ StoreInv' /\ Started /\ Started'
      /\ \A t \in Proposals : LedgerForward(t)
  BY IndStoreStep DEF IndInv
<1>2. ASSUME outcomes' = outcomes, publications' = publications
      PROVE  UNCHANGED Promise!promise
  BY <1>2 DEF Promise!promise
<1>3. CASE UNCHANGED store
  <2>1. \A t \in Proposals : OutcomeOf(t)' = OutcomeOf(t)
    BY <1>3, OutcomeStays DEF store
  <2> QED
    BY <1>2, <1>3, <2>1 DEF outcomes, publications, store
<1>4. ASSUME NEW e \in Envelopes,
             \/ InsertCommand(e) \/ MarkExecutionPending(e) \/ Rollback(e) \/ Abandon(e)
             \/ \E p \in Callers : AcquireClaim(e, p)
      PROVE  UNCHANGED Promise!promise
  BY <1>1, <1>2, <1>4, QuietStatement
<1>5. ASSUME NEW e \in Envelopes, NEW ok \in BOOLEAN,
             MarkExecutionFailed(e) \/ RecordReadback(e, ok) \/ ApplyCommit(e)
      PROVE  Promise!Next
  <2>1. Decides(Proposal[e]) /\ Proposal[e] \in Proposals
    BY <1>1, <1>5, DecidingStatement, EnvelopeAssumption
  <2> QED
    BY <2>1 DEF Decides, Promise!Next
<1>6. ASSUME NEW t \in Proposals, NEW from \in TaskStatus, NEW to \in TaskStatus,
             TaskTransition(t, from, to)
      PROVE  [Promise!Next]_Promise!promise
  <2>1. \/ outcomes' = outcomes /\ publications' = publications
        \/ Promise!Decline(t) \/ Promise!Publish(t)
    BY <1>1, <1>6, LedgerPublishes
  <2> QED
    BY <1>2, <2>1 DEF Promise!Next
<1> QED
  BY <1>1, <1>3, <1>4, <1>5, <1>6 DEF StoreNext

\* A call that answers success answers for a verified outcome, and publishes
\* it in the same step if nobody did.
LEMMA AnswerShows ==
  ASSUME IndInv, IndInv', [Next]_vars, NEW p \in Callers, FinalRead(p) \/ FinalMove(p),
         pc'[p] = "done", err'[p] = "none", answers[p] = NoAnswer,
         answers' = [answers EXCEPT ![p] = Proposal[env[p]]]
  PROVE  Promise!Next
<1> DEFINE t == Proposal[env[p]]
<1>1. t \in Proposals /\ CallTypeOK /\ StoreInv /\ Started
  BY EnvelopeAssumption DEF IndInv, CallTypeOK
<1>2. /\ task[t] \in {"readback_verified", "verified"}
      /\ task' = [task EXCEPT ![t] = "verified"]
      /\ UNCHANGED <<row, readback, applied>>
  <2>1. CASE FinalRead(p)
    BY <1>1, <2>1 DEF FinalRead, Finish, Goto, CallTypeOK, StoreInv, StoreTypeOK, store
  <2>2. CASE FinalMove(p)
    BY <1>1, <2>2 DEF FinalMove, TaskTransition, Finish, CallTypeOK, StoreInv, StoreTypeOK
  <2> QED
    BY <2>1, <2>2
<1>3. /\ task[t] # "partial" /\ task'[t] # "partial"
      /\ \A u \in Proposals \ {t} : task'[u] = task[u]
  BY <1>1, <1>2 DEF StoreInv, StoreTypeOK
<1>4. outcomes' = outcomes
  <2>1. \A u \in Proposals : OutcomeOf(u)' = OutcomeOf(u)
    BY <1>2, <1>3, OutcomeStays
  <2> QED
    BY <2>1 DEF outcomes
<1>5. outcomes[t] = "verified"
  <2>1. Backed(t, "verified")
    BY <1>1, <1>2 DEF IndInv, LedgerNeverAhead, Backed
  <2>2. outcomes[t] = PublishedAs("verified")
    BY <1>1, <1>3, <2>1, SettledOutcome
  <2> QED
    BY <2>2 DEF PublishedAs
<1>6. publications' = [publications EXCEPT ![t] = "verified"]
  <2>1. PublishedAs("verified") = "verified" /\ task'[t] = "verified"
    BY <1>1, <1>2 DEF PublishedAs, StoreInv, StoreTypeOK
  <2> QED
    BY <1>1, <1>3, <2>1 DEF publications
<1>7. Promise!Answer(p, t)
  BY <1>4, <1>5, <1>6 DEF Promise!Answer
<1> QED
  BY <1>1, <1>7 DEF Promise!Next

\* At the start every proposal is open and nothing is published or answered.
LEMMA PromiseInit == Init => Promise!Init
<1> SUFFICES ASSUME Init PROVE Promise!Init
  OBVIOUS
<1>1. \A t \in Proposals : OutcomeOf(t) = "open" /\ PublishedAs(task[t]) = "open"
  <2> SUFFICES ASSUME NEW t \in Proposals
               PROVE  OutcomeOf(t) = "open" /\ PublishedAs(task[t]) = "open"
    OBVIOUS
  <2>1. StoreInv /\ task[t] = "checker_validated" /\ \A e \in Of(t) : ~ Present(e)
    BY IndInit DEF IndInv, Init, StoreInit, Of, Present
  <2> QED
    BY <2>1, OutcomeWithoutCommand DEF PublishedAs
<1>2. \A p \in Callers : AnswerOf(p) = NoAnswer
  BY DEF Init, AnswerOf
<1> QED
  BY <1>1, <1>2 DEF Promise!Init, outcomes, publications, answers

\* The checked-mutation subsystem implements MutationOutcome: an observer of the
\* books, the ledger and the answers sees each proposal decided once.
THEOREM PromiseKept == Spec => KeepsPromise
<1>1. ASSUME IndInv, IndInv', [Next]_vars
      PROVE  [Promise!Next]_Promise!promise
  <2>1. CASE UNCHANGED answers
    BY <1>1, <2>1, StoreShows
  <2>2. ASSUME NEW p \in Callers, UNCHANGED store,
               answers' = [answers EXCEPT ![p] = NoAnswer]
        PROVE  Promise!Next
    <3>1. \A t \in Proposals : OutcomeOf(t)' = OutcomeOf(t)
      BY <2>2, OutcomeStays DEF store
    <3>2. outcomes' = outcomes /\ publications' = publications
      BY <2>2, <3>1 DEF outcomes, publications, store
    <3> QED
      BY <2>2, <3>2 DEF Promise!Next, Promise!Forget
  <2>3. ASSUME NEW p \in Callers, FinalRead(p) \/ FinalMove(p),
               pc'[p] = "done", err'[p] = "none", answers[p] = NoAnswer,
               answers' = [answers EXCEPT ![p] = Proposal[env[p]]]
        PROVE  Promise!Next
    BY <1>1, <2>3, AnswerShows
  <2> QED
    BY <1>1, <2>1, <2>2, <2>3, AnswerSteps
<1>2. IndInv /\ IndInv' /\ [Next]_vars => [Promise!Next]_Promise!promise
  BY <1>1
<1> QED
  BY <1>2, PromiseInit, Inductive, PTL DEF Spec, KeepsPromise, Promise!Spec
=============================================================================
