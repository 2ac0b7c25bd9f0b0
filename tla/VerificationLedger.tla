------------------------- MODULE VerificationLedger -------------------------
(***************************************************************************)
(* The rows that a work cell keeps in PostgresVerificationLedgerRepository *)
(* and PostgresArtifactRepository: its task, the maker artifact the task   *)
(* links, the checker verdict on that artifact, and the runs and attempts  *)
(* of its agents.  Every operator is one method of the repositories, with  *)
(* the condition under which its statement finds its row.                  *)
(*                                                                         *)
(* The steps of CheckedMutation on the same task are not repeated here;    *)
(* they begin where a task is left in "checker_validated".                 *)
(***************************************************************************)
EXTENDS Naturals, FiniteSets

CONSTANT Tasks   \* ids of verification tasks

VARIABLES
  task,      \* status of a task, "none" while it has no row
  linked,    \* tasks with a current maker artifact
  verdict,   \* the latest verdict on a task
  run,       \* status of the run of an agent, by task and role
  attempt    \* outcome of its attempt

ledger == <<task, linked, verdict, run, attempt>>

Roles == {"lead", "maker", "checker"}
Verdicts == {"accepted", "rejected", "revision_requested",
             "insufficient_evidence", "conflicted"}

\* The transitions of the state machine that a work cell makes.
Allowed ==
  [created |-> {"skill_selected", "failed"},
   skill_selected |-> {"maker_running", "failed"},
   maker_running |-> {"maker_validated", "failed"},
   maker_validated |-> {"checker_running", "failed"},
   checker_running |-> {"checker_validated", "failed"},
   checker_validated |-> {"verified", "partial", "insufficient_evidence",
                          "conflicted", "failed", "revision_requested",
                          "execution_pending"}]

Terminal == {"execution_failed", "readback_failed", "verified", "partial",
             "insufficient_evidence", "conflicted", "failed"}

LedgerInit ==
  /\ task = [t \in Tasks |-> "none"]
  /\ linked = {}
  /\ verdict = [t \in Tasks |-> "none"]
  /\ run = [a \in Tasks \X Roles |-> "none"]
  /\ attempt = [a \in Tasks \X Roles |-> "none"]

-----------------------------------------------------------------------------
\* The task with its first transition, in one transaction.
CreateTaskRow(t) ==
  /\ task[t] = "none"
  /\ task' = [task EXCEPT ![t] = "created"]
  /\ UNCHANGED <<linked, verdict, run, attempt>>

\* move asserts the state machine, transition compares the status.
Transition(t, from, to) ==
  /\ task[t] = from
  /\ to \in Allowed[from]
  /\ task' = [task EXCEPT ![t] = to]
  /\ UNCHANGED <<linked, verdict, run, attempt>>

\* selectExecutionContract: what the task was given is fixed while it is created.
SelectExecutionContract(t) == task[t] = "created"

LinkMakerArtifact(t) ==
  /\ task[t] = "maker_running"
  /\ linked' = linked \cup {t}
  /\ UNCHANGED <<task, verdict, run, attempt>>

RecordCheckerVerdict(t, v) ==
  /\ task[t] = "checker_running"
  /\ t \in linked
  /\ verdict' = [verdict EXCEPT ![t] = v]
  /\ UNCHANGED <<task, linked, run, attempt>>

StartRunRow(a) ==
  /\ run[a] = "none"
  /\ run' = [run EXCEPT ![a] = "running"]
  /\ UNCHANGED <<task, linked, verdict, attempt>>

FinishRunRow(a, s) ==
  /\ run[a] = "running"
  /\ run' = [run EXCEPT ![a] = s]
  /\ UNCHANGED <<task, linked, verdict, attempt>>

StartAttemptRow(a) ==
  /\ attempt[a] = "none"
  /\ attempt' = [attempt EXCEPT ![a] = "running"]
  /\ UNCHANGED <<task, linked, verdict, run>>

FinishAttemptRow(a, o) ==
  /\ attempt[a] = "running"
  /\ attempt' = [attempt EXCEPT ![a] = o]
  /\ UNCHANGED <<task, linked, verdict, run>>
=============================================================================
