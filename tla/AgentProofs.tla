----------------------------- MODULE AgentProofs -----------------------------
(***************************************************************************)
(* Proofs about TeamExecution and OrchestratorTurn: for any teams, cells   *)
(* and attempt limits a verified team result is one that the ledger        *)
(* verified, a call of a team changes the books at most once, and without  *)
(* storage faults leaves nothing open; and for any limits of the model     *)
(* loop no later step of a turn adds to an effect of an earlier one.       *)
(***************************************************************************)
EXTENDS TeamCallRefinement, OrchestratorTurn, FiniteSetTheorems, TLAPS

-----------------------------------------------------------------------------
(* The calls of a team.                                                      *)

\* A step of a task is its own: it leaves every other task alone, starts from a
\* task that has work to do, and keeps the invariant of the task it moves.
Others(t) ==
  \A u \in Tasks \ {t} :
    /\ at'[u] = at[u] /\ res'[u] = res[u] /\ task'[u] = task[u]
    /\ verdict'[u] = verdict[u] /\ (u \in linked' <=> u \in linked)
    /\ \A r \in Roles : /\ run'[<<u, r>>] = run[<<u, r>>]
                        /\ attempt'[<<u, r>>] = attempt[<<u, r>>]

\* A step of t alone that keeps what the invariant says of t.
Moved(t) ==
  /\ at[t] \notin {"idle", "returned", "threw"}
  /\ t \in Leads => at[t] # "called"
  /\ at'[t] # "idle"
  /\ Others(t)
  /\ TeamTypeOK'
  /\ t \in Works => ResultRests(t)'
  /\ faults' = 0 => faults = 0 /\ RowsSettled(t)'

\* What no step of a team's call touches.
Frame == UNCHANGED <<supervisor, applied, answer, aborted>>

\* The role of an agent depends on its task alone, and only while that moves.
LEMMA RoleType == \A t : Role(t) \in Roles
BY DEF Role, Roles

\* A task keeps its role while its work cell keeps its task.
LEMMA RoleKept ==
  ASSUME NEW t, task'[t] = task[t]
  PROVE  Role(t)' = Role(t)
BY DEF Role, Leads

\* What a step of t leaves alone when no agent of t is at work.
LEMMA QuietStep ==
  ASSUME TeamInv, NEW t \in Tasks, ~ RunOpen(t),
         at[t] \notin {"idle", "returned", "threw"}, t \in Leads => at[t] # "called",
         at'[t] # "idle", Others(t), TeamTypeOK', UNCHANGED <<run, attempt>>,
         t \in Works => ResultRests(t)',
         faults' \in {faults, faults + 1},
         faults' = faults /\ t \in Works /\ at'[t] \in {"returned", "threw"} =>
           task'[t] \in Terminal \/ res'[t].effect = "pending"
  PROVE  Moved(t)
<1>1. faults \in Nat /\ (faults = 0 => RowsSettled(t))
  BY DEF TeamInv, TeamTypeOK
<1>2. faults' = 0 => faults' = faults
  BY <1>1
<1>3. faults = 0 => \A r \in Roles : run[<<t, r>>] # "running" /\ attempt[<<t, r>>] # "running"
  BY <1>1 DEF RowsSettled, RunOpen, AttemptOpen
<1>4. faults' = 0 => RowsSettled(t)'
  BY <1>2, <1>3 DEF RowsSettled
<1> QED
  BY <1>2, <1>4 DEF Moved

\* An agent call, statement by statement.
LEMMA AgentCallMoves ==
  ASSUME TeamInv, NEW t \in Tasks, AgentCall(t), Frame
  PROVE  Moved(t)
<1> USE DEF Frame, supervisor
<1>0. /\ TeamTypeOK /\ (t \in Works => ResultRests(t)) /\ (faults = 0 => RowsSettled(t))
      /\ Agent(t) = <<t, Role(t)>> /\ Role(t) \in Roles /\ faults \in Nat
  BY RoleType DEF TeamInv, Agent, TeamTypeOK
<1>a. \A u \in Tasks, r \in Roles : <<u, r>> \in Tasks \X Roles
  OBVIOUS
<1>1. CASE at[t] = "start_run" /\ StartRunRow(Agent(t)) /\ Goto(t, "start_attempt") /\ OK
  <2>1. Others(t) /\ TeamTypeOK'
    BY <1>0, <1>a, <1>1 DEF Others, TeamTypeOK, StartRunRow, Goto, OK, Locations
  <2>2. Role(t)' = Role(t)
    BY <1>1, RoleKept DEF StartRunRow
  <2>3. (t \in Works => ResultRests(t)') /\ (faults' = 0 => faults = 0 /\ RowsSettled(t)')
    BY <1>0, <1>a, <1>1, <2>2
    DEF TeamTypeOK, StartRunRow, Goto, OK, ResultRests, RowsSettled, RunOpen, AttemptOpen
  <2> QED
    BY <1>0, <1>1, <2>1, <2>3 DEF Moved, TeamTypeOK, Goto
<1>2. CASE at[t] = "start_attempt" /\ StartAttemptRow(Agent(t)) /\ Goto(t, "generate") /\ OK
  <2>1. Others(t) /\ TeamTypeOK'
    BY <1>0, <1>a, <1>2 DEF Others, TeamTypeOK, StartAttemptRow, Goto, OK, Locations
  <2>2. Role(t)' = Role(t)
    BY <1>2, RoleKept DEF StartAttemptRow
  <2>3. (t \in Works => ResultRests(t)') /\ (faults' = 0 => faults = 0 /\ RowsSettled(t)')
    BY <1>0, <1>a, <1>2, <2>2
    DEF TeamTypeOK, StartAttemptRow, Goto, OK, ResultRests, RowsSettled, RunOpen, AttemptOpen
  <2> QED
    BY <1>0, <1>2, <2>1, <2>3 DEF Moved, TeamTypeOK, Goto
<1>3. CASE Generate(t)
  <2>1. outcome' \in [Tasks -> Outcomes \cup {"none", "storage"}]
    <3>1. \A o \in Outcomes : Classify(o) \in Outcomes
      BY DEF Classify, Outcomes
    <3> QED
      BY <1>0, <1>3, <3>1 DEF Generate, TeamTypeOK
  <2>2. Others(t) /\ TeamTypeOK'
    BY <1>0, <1>a, <1>3, <2>1 DEF Others, TeamTypeOK, Generate, ledger, Locations
  <2>3. Role(t)' = Role(t)
    BY <1>3, RoleKept DEF Generate, ledger
  <2>4. (t \in Works => ResultRests(t)') /\ (faults' = 0 => faults = 0 /\ RowsSettled(t)')
    BY <1>0, <1>a, <1>3, <2>3
    DEF TeamTypeOK, Generate, ledger, ResultRests, RowsSettled, RunOpen, AttemptOpen
  <2> QED
    BY <1>0, <1>3, <2>2, <2>4 DEF Moved, TeamTypeOK, Generate
<1>4. CASE at[t] = "end_attempt" /\ FinishAttemptRow(Agent(t), outcome[t])
           /\ Goto(t, "end_run") /\ OK
  <2>1. outcome[t] \in Outcomes \cup {"none", "storage"} /\ outcome[t] # "running"
    BY <1>0 DEF TeamTypeOK, Outcomes
  <2>2. Others(t) /\ TeamTypeOK'
    BY <1>0, <1>a, <1>4, <2>1 DEF Others, TeamTypeOK, FinishAttemptRow, Goto, OK, Locations
  <2>3. Role(t)' = Role(t)
    BY <1>4, RoleKept DEF FinishAttemptRow
  <2>4. (t \in Works => ResultRests(t)') /\ (faults' = 0 => faults = 0 /\ RowsSettled(t)')
    BY <1>0, <1>a, <1>4, <2>1, <2>3
    DEF TeamTypeOK, FinishAttemptRow, Goto, OK, ResultRests, RowsSettled, RunOpen, AttemptOpen
  <2> QED
    BY <1>0, <1>4, <2>2, <2>4 DEF Moved, TeamTypeOK, Goto
<1>5. CASE /\ at[t] = "end_attempt" /\ faults' = faults + 1
           /\ outcome' = [outcome EXCEPT ![t] = Classify("failed")]
           /\ UNCHANGED <<ledger, at, res>>
  <2>1. Classify("failed") \in Outcomes
    BY DEF Classify, Outcomes
  <2>2. Others(t) /\ TeamTypeOK'
    BY <1>0, <1>a, <1>5, <2>1 DEF Others, TeamTypeOK, ledger
  <2>3. (t \in Works => ResultRests(t)') /\ faults' # 0
    BY <1>0, <1>5 DEF ResultRests, ledger
  <2> QED
    BY <1>5, <2>2, <2>3 DEF Moved
<1>6. CASE at[t] = "end_run" /\ FinishRunRow(Agent(t), RunStatus(outcome[t])) /\ OK
           /\ \E l \in {"called", "cancel", "raise"} : Goto(t, l)
  <2>1. /\ RunStatus(outcome[t]) \in {"succeeded", "timed_out", "cancelled", "failed"}
        /\ RunStatus(outcome[t]) # "running"
    BY DEF RunStatus
  <2>2. Others(t) /\ TeamTypeOK'
    BY <1>0, <1>a, <1>6, <2>1 DEF Others, TeamTypeOK, FinishRunRow, Goto, OK, Locations
  <2>3. Role(t)' = Role(t)
    BY <1>6, RoleKept DEF FinishRunRow
  <2>4. (t \in Works => ResultRests(t)') /\ (faults' = 0 => faults = 0 /\ RowsSettled(t)')
    BY <1>0, <1>a, <1>6, <2>1, <2>3
    DEF TeamTypeOK, FinishRunRow, Goto, OK, ResultRests, RowsSettled, RunOpen, AttemptOpen
  <2> QED
    BY <1>0, <1>6, <2>2, <2>4 DEF Moved, TeamTypeOK, Goto
<1>7. CASE \E l \in {"start_run", "start_attempt", "end_attempt", "end_run"} :
             CallFault(t, l) /\ (UNCHANGED ledger \/ FinishRunRow(Agent(t), "failed"))
  <2>1. run' \in {run, [run EXCEPT ![Agent(t)] = "failed"]} /\ UNCHANGED <<task, linked, verdict, attempt>>
    BY <1>7 DEF CallFault, FinishRunRow, ledger
  <2>3. Others(t)
    BY <1>0, <1>a, <1>7, <2>1 DEF Others, TeamTypeOK, CallFault
  <2>4. TeamTypeOK'
    <3>1. run' \in [Tasks \X Roles -> {"none", "running", "succeeded", "failed", "timed_out", "cancelled"}]
      BY <1>0, <2>1 DEF TeamTypeOK
    <3>2. at' \in [Tasks -> Locations] /\ outcome' \in [Tasks -> Outcomes \cup {"none", "storage"}]
          /\ res' = res /\ faults' \in Nat
      BY <1>0, <1>7 DEF TeamTypeOK, CallFault, Locations
    <3> QED
      BY <1>0, <2>1, <3>1, <3>2 DEF TeamTypeOK
  <2>2. (t \in Works => ResultRests(t)') /\ faults' # 0
    BY <1>0, <1>7, <2>1 DEF ResultRests, CallFault, TeamTypeOK
  <2> QED
    BY <1>0, <1>7, <2>2, <2>3, <2>4 DEF Moved, CallFault, TeamTypeOK
<1>8. EndRun(t) => \/ (at[t] = "end_run" /\ FinishRunRow(Agent(t), RunStatus(outcome[t])) /\ OK
                       /\ \E l \in {"called", "cancel", "raise"} : Goto(t, l))
                   \/ (CallFault(t, "end_run") /\ UNCHANGED ledger)
  <2>1. (CASE outcome[t] = "succeeded" -> "called"
           [] outcome[t] = "cancelled" -> "cancel"
           [] OTHER -> "raise") \in {"called", "cancel", "raise"}
    OBVIOUS
  <2> QED
    BY <2>1, Zenon DEF EndRun
<1> QED
  BY <1>1, <1>2, <1>3, <1>4, <1>5, <1>6, <1>7, <1>8 DEF AgentCall, StartRun, StartAttempt, EndAttempt

\* A cell whose call was checked is concluded; other cells wait for a statement.
LEMMA WorkCellMoves ==
  ASSUME TeamInv, NEW t \in Works, WorkCell(t), Frame
  PROVE  Moved(t)
<1> USE DEF Frame, supervisor
<1>0. /\ TeamTypeOK /\ ResultRests(t) /\ (faults = 0 => RowsSettled(t)) /\ faults \in Nat
      /\ t \in Tasks /\ t \notin Leads /\ res[t].effect \in {"none", "pending", "persisted"}
      /\ Role(t) \in Roles
  BY RoleType DEF TeamInv, TeamTypeOK, Works, Leads
<1>f. ASSUME NEW l \in Locations, NEW h \in Locations \ {"idle", "returned"}, FaultAt(t, l, h),
             l \notin {"idle", "returned", "threw"}, ~ RunOpen(t)
      PROVE  Moved(t)
  <2>1. Others(t) /\ TeamTypeOK' /\ ResultRests(t)'
    BY <1>0, <1>f DEF Others, TeamTypeOK, FaultAt, Goto, ledger, ResultRests
  <2>2. faults' = faults + 1 /\ at'[t] = h /\ at[t] = l /\ UNCHANGED <<run, attempt>>
    BY <1>0, <1>f DEF TeamTypeOK, FaultAt, Goto, ledger
  <2> QED
    BY <1>0, <1>f, <2>1, <2>2, QuietStep
<1>m. ASSUME NEW l \in Locations, NEW h \in Locations \ {"idle", "returned", "threw"},
             NEW from, NEW to \in TaskStatus, Move(t, l, from, to, h),
             l \notin {"idle", "returned", "threw"}, ~ RunOpen(t)
      PROVE  Moved(t)
  <2>1. CASE at[t] = l /\ Transition(t, from, to) /\ Goto(t, h) /\ OK
    <3>1. Others(t) /\ TeamTypeOK' /\ ResultRests(t)'
      BY <1>0, <1>m, <2>1 DEF Others, TeamTypeOK, Transition, Goto, OK, ResultRests, NoResult
    <3>2. faults' = faults /\ at'[t] = h /\ UNCHANGED <<run, attempt>>
      BY <1>0, <2>1 DEF TeamTypeOK, Transition, Goto, OK
    <3> QED
      BY <1>0, <1>m, <2>1, <3>1, <3>2, QuietStep
  <2>2. CASE FaultAt(t, l, "threw")
    BY <1>f, <1>m, <2>2 DEF Locations
  <2> QED
    BY <1>m, <2>1, <2>2 DEF Move
<1>1. CASE CreateTask(t)
  <2>1. CASE at[t] = "create" /\ CreateTaskRow(t) /\ Goto(t, "contract") /\ OK
    <3>1. Others(t) /\ TeamTypeOK' /\ ResultRests(t)'
      BY <1>0, <2>1
      DEF Others, TeamTypeOK, CreateTaskRow, Goto, OK, ResultRests, NoResult, Locations, TaskStatus, Allowed
    <3>2. faults' = faults /\ at'[t] = "contract" /\ UNCHANGED <<run, attempt>>
      BY <1>0, <2>1 DEF TeamTypeOK, CreateTaskRow, Goto, OK
    <3> QED
      BY <1>0, <2>1, <3>1, <3>2, QuietStep DEF RunOpen
  <2>2. CASE FaultAt(t, "create", "threw")
    BY <1>f, <2>2 DEF Locations, RunOpen, FaultAt
  <2> QED
    BY <1>0, <1>1, <2>1, <2>2 DEF CreateTask
<1>2. CASE SelectContract(t) \/ BeginMaker(t) \/ ValidateMaker(t) \/ BeginChecker(t) \/ ValidateChecker(t)
  <2>1. {"skill_selected", "maker_running", "maker_validated", "checker_running",
         "checker_validated"} \subseteq TaskStatus
    BY DEF TaskStatus, Allowed
  <2>2. CASE Move(t, "contract", "created", "skill_selected", "begin_maker")
    BY <1>m, <2>1, <2>2 DEF Locations, RunOpen, Move, FaultAt
  <2>3. CASE Move(t, "begin_maker", "skill_selected", "maker_running", "start_run")
    BY <1>m, <2>1, <2>3 DEF Locations, RunOpen, Move, FaultAt
  <2>4. CASE Move(t, "linked", "maker_running", "maker_validated", "begin_checker")
    BY <1>m, <2>1, <2>4 DEF Locations, RunOpen, Move, FaultAt
  <2>5. CASE Move(t, "begin_checker", "maker_validated", "checker_running", "start_run")
    BY <1>m, <2>1, <2>5 DEF Locations, RunOpen, Move, FaultAt
  <2>6. CASE Move(t, "recorded", "checker_running", "checker_validated", "checked")
    BY <1>m, <2>1, <2>6 DEF Locations, RunOpen, Move, FaultAt
  <2> QED
    BY <1>2, <2>2, <2>3, <2>4, <2>5, <2>6
    DEF SelectContract, BeginMaker, ValidateMaker, BeginChecker, ValidateChecker
<1>3. CASE SaveMaker(t)
  <2>1. CASE at[t] = "called" /\ LinkMakerArtifact(t) /\ Goto(t, "linked") /\ OK
    <3>1. Others(t) /\ TeamTypeOK' /\ ResultRests(t)'
      BY <1>0, <2>1
      DEF Others, TeamTypeOK, LinkMakerArtifact, Goto, OK, ResultRests, NoResult, Locations
    <3>2. faults' = faults /\ at'[t] = "linked" /\ UNCHANGED <<run, attempt>>
      BY <1>0, <2>1 DEF TeamTypeOK, LinkMakerArtifact, Goto, OK
    <3> QED
      BY <1>0, <2>1, <3>1, <3>2, QuietStep DEF RunOpen
  <2>2. CASE FaultAt(t, "called", "threw")
    BY <1>f, <2>2 DEF Locations, RunOpen, FaultAt
  <2> QED
    BY <1>3, <2>1, <2>2 DEF SaveMaker
<1>4. CASE SaveVerdict(t)
  <2>1. CASE /\ at[t] = "called" /\ \E v \in Verdicts : RecordCheckerVerdict(t, v)
             /\ Goto(t, "recorded") /\ OK
    <3>1. Others(t) /\ TeamTypeOK' /\ ResultRests(t)'
      BY <1>0, <2>1
      DEF Others, TeamTypeOK, RecordCheckerVerdict, Goto, OK, ResultRests, NoResult, Locations
    <3>2. faults' = faults /\ at'[t] = "recorded" /\ UNCHANGED <<run, attempt>>
      BY <1>0, <2>1 DEF TeamTypeOK, RecordCheckerVerdict, Goto, OK
    <3> QED
      BY <1>0, <2>1, <3>1, <3>2, QuietStep DEF RunOpen
  <2>2. CASE FaultAt(t, "called", "threw")
    BY <1>f, <2>2 DEF Locations, RunOpen, FaultAt
  <2> QED
    BY <1>4, <2>1, <2>2 DEF SaveVerdict
<1>r. ASSUME NEW s \in {"verified", "insufficient_evidence", "conflicted", "failed"},
             NEW p \in Roles \cup {"none", "checker_rejection"},
             NEW c \in Outcomes \cup Verdicts \cup {"none", "storage"},
             NEW e \in {"none", "pending"},
             ~ RunOpen(t), at[t] \notin {"idle", "returned", "threw"},
             Return(t, [status |-> s, effect |-> e, phase |-> p, code |-> c]), OK,
             s = "verified" => verdict[t] = "accepted",
             e = "pending" => s = "verified" /\ UNCHANGED ledger,
             e = "none" => task' = [task EXCEPT ![t] = s] /\ UNCHANGED <<linked, verdict, run, attempt>>
      PROVE  Moved(t)
  <2>1. task' \in [Tasks -> TaskStatus] /\ UNCHANGED <<linked, verdict, run, attempt>>
        /\ (e = "none" => task'[t] = s /\ s \in Terminal) /\ (\A u \in Tasks \ {t} : task'[u] = task[u])
    BY <1>0, <1>r, SMTT(30) DEF TeamTypeOK, TaskStatus, Terminal, ledger
  <2>2. Others(t) /\ TeamTypeOK'
    <3>1. Others(t)
      BY <1>0, <1>r, <2>1 DEF Others, TeamTypeOK, Return
    <3>2. [status |-> s, effect |-> e, phase |-> p, code |-> c] \in
            [status : {"none", "verified", "insufficient_evidence", "conflicted", "failed"},
             effect : {"none", "pending", "persisted"},
             phase : Roles \cup {"none", "checker_rejection"},
             code : Outcomes \cup Verdicts \cup {"none", "storage"}]
      OBVIOUS
    <3>3. at' \in [Tasks -> Locations]
      BY <1>0, <1>r DEF TeamTypeOK, Return, Locations
    <3> QED
      BY <1>0, <1>r, <2>1, <3>1, <3>2, <3>3 DEF TeamTypeOK, Return, OK
  <2>3. res'[t] = [status |-> s, effect |-> e, phase |-> p, code |-> c] /\ at'[t] = "returned"
    BY <1>0, <1>r DEF TeamTypeOK, Return
  <2>4. ResultRests(t)'
    BY <1>0, <1>r, <2>1, <2>3 DEF ResultRests, NoResult
  <2>5. faults' = faults
    BY <1>r DEF OK
  <2> QED
    BY <1>0, <1>r, <2>1, <2>2, <2>3, <2>4, <2>5, QuietStep
<1>5. CASE FailCell(t)
  <2>1. CASE /\ at[t] \in {"raise", "cancel"} /\ Transition(t, task[t], "failed") /\ OK
             /\ Return(t, [status |-> "failed", effect |-> "none",
                           phase |-> Role(t), code |-> outcome[t]])
    <3>1. outcome[t] \in Outcomes \cup Verdicts \cup {"none", "storage"}
      BY <1>0 DEF TeamTypeOK
    <3> QED
      BY <1>0, <1>r, <2>1, <3>1 DEF RunOpen, Transition
  <2>2. CASE at[t] = "cancel" /\ Transition(t, task[t], "failed") /\ OK /\ Goto(t, "threw")
    <3>1. Others(t) /\ TeamTypeOK' /\ ResultRests(t)'
      BY <1>0, <2>2
      DEF Others, TeamTypeOK, Transition, Goto, OK, ResultRests, NoResult, Locations, TaskStatus, Terminal
    <3>2. faults' = faults /\ at'[t] = "threw" /\ task'[t] \in Terminal /\ UNCHANGED <<run, attempt>>
      BY <1>0, <2>2 DEF TeamTypeOK, Transition, Goto, OK, Terminal
    <3> QED
      BY <1>0, <2>2, <3>1, <3>2, QuietStep DEF RunOpen
  <2>3. CASE FaultAt(t, "raise", "threw") \/ FaultAt(t, "cancel", "threw")
    BY <1>f, <2>3 DEF Locations, RunOpen, FaultAt
  <2> QED
    BY <1>5, <2>1, <2>2, <2>3 DEF FailCell
<1>6. CASE Conclude(t)
  <2>1. CASE /\ at[t] = "checked" /\ OK
             /\ \E s \in StatusOf(verdict[t]) :
                  IF s = "verified" /\ team.kind # "report"
                  THEN Return(t, CheckedResult(t, s, "pending")) /\ UNCHANGED ledger
                  ELSE Complete(t, s) /\ Return(t, CheckedResult(t, s, "none"))
    <3>1. PICK s \in StatusOf(verdict[t]) :
                  IF s = "verified" /\ team.kind # "report"
                  THEN Return(t, CheckedResult(t, s, "pending")) /\ UNCHANGED ledger
                  ELSE Complete(t, s) /\ Return(t, CheckedResult(t, s, "none"))
      BY <2>1
    <3>2. /\ s \in {"verified", "insufficient_evidence", "conflicted", "failed"}
          /\ s = "verified" => verdict[t] = "accepted"
      BY DEF StatusOf, TerminalFor
    <3>3. verdict[t] \in Outcomes \cup Verdicts \cup {"none", "storage"}
      BY <1>0 DEF TeamTypeOK
    <3>4. CASE s = "verified" /\ Return(t, CheckedResult(t, s, "pending")) /\ UNCHANGED ledger
      BY <1>0, <1>r, <2>1, <3>2, <3>3, <3>4 DEF RunOpen, CheckedResult
    <3>5. CASE Complete(t, s) /\ Return(t, CheckedResult(t, s, "none"))
      BY <1>0, <1>r, <2>1, <3>2, <3>3, <3>5 DEF RunOpen, CheckedResult, Complete, Transition
    <3> QED
      BY <3>1, <3>4, <3>5
  <2>2. CASE at[t] = "checked" /\ Complete(t, "failed") /\ Goto(t, "threw") /\ OK
    <3>1. Others(t) /\ TeamTypeOK' /\ ResultRests(t)'
      BY <1>0, <2>2
      DEF Others, TeamTypeOK, Complete, Transition, Goto, OK, ResultRests, NoResult, Locations, TaskStatus, Terminal
    <3>2. faults' = faults /\ at'[t] = "threw" /\ task'[t] \in Terminal /\ UNCHANGED <<run, attempt>>
      BY <1>0, <2>2 DEF TeamTypeOK, Complete, Transition, Goto, OK, Terminal
    <3> QED
      BY <1>0, <2>2, <3>1, <3>2, QuietStep DEF RunOpen
  <2>3. CASE FaultAt(t, "checked", "threw")
    BY <1>f, <2>3 DEF Locations, RunOpen, FaultAt
  <2> QED
    BY <1>6, <2>1, <2>2, <2>3 DEF Conclude
<1> QED
  BY <1>1, <1>2, <1>3, <1>4, <1>5, <1>6 DEF WorkCell

\* A lead's step of a call keeps the invariant of its task.
LEMMA LeadCallMoves ==
  ASSUME TeamInv, NEW t \in Leads, LeadCall(t), Frame
  PROVE  Moved(t)
<1> USE DEF Frame, supervisor
<1>0. /\ TeamTypeOK /\ (faults = 0 => RowsSettled(t)) /\ faults \in Nat
      /\ t \in Tasks /\ t \notin Works
  BY DEF TeamInv, TeamTypeOK, Works, Leads
<1>1. CASE at[t] = "create" /\ CreateTaskRow(t) /\ Goto(t, "start_run") /\ OK
  <2>1. Others(t) /\ TeamTypeOK'
    BY <1>0, <1>1
    DEF Others, TeamTypeOK, CreateTaskRow, Goto, OK, Locations, TaskStatus, Allowed
  <2>2. faults' = faults /\ at'[t] = "start_run" /\ UNCHANGED <<run, attempt>>
    BY <1>0, <1>1 DEF TeamTypeOK, CreateTaskRow, Goto, OK
  <2> QED
    BY <1>0, <1>1, <2>1, <2>2, QuietStep DEF RunOpen
<1>2. CASE at[t] \in {"create", "raise", "cancel"} /\ Goto(t, "threw") /\ faults' \in {faults, faults + 1} /\ UNCHANGED ledger
  <2>1. Others(t) /\ TeamTypeOK'
    BY <1>0, <1>2 DEF Others, TeamTypeOK, Goto, Locations, ledger
  <2>2. at'[t] = "threw" /\ UNCHANGED <<run, attempt>>
    BY <1>0, <1>2 DEF TeamTypeOK, Goto, ledger
  <2> QED
    BY <1>0, <1>2, <2>1, <2>2, QuietStep DEF RunOpen
<1> QED
  BY <1>1, <1>2 DEF LeadCall, CreateTask, FaultAt, OK

\* Only the task moves, so what the invariant says of the others stands.
LEMMA TaskStepInv ==
  ASSUME TeamInv, NEW t \in Tasks, TaskStep(t)
  PROVE  TeamInv'
<1>1. Frame /\ Moved(t)
  BY AgentCallMoves, WorkCellMoves, LeadCallMoves DEF TaskStep, Frame
<1>2. /\ UNCHANGED <<team, lead, ord, plan, applied, answer, aborted>>
      /\ Works' = Works /\ Leads' = Leads /\ Planned' = Planned
      /\ Works \subseteq Tasks /\ Leads \subseteq Tasks
  BY <1>1 DEF Frame, supervisor, Works, Leads, Planned
<1>3. /\ \A u \in Works : ResultRests(u)
      /\ InOrder /\ AppliedLast /\ AnswerRests /\ TeamTypeOK
      /\ faults = 0 => \A u \in Tasks : RowsSettled(u)
  BY DEF TeamInv
<1>4. TeamTypeOK'
  BY <1>1 DEF Moved
<1>5. \A u \in Works : ResultRests(u)'
  <2>1. ASSUME NEW u \in Works, u # t PROVE ResultRests(u)'
    BY <1>1, <1>2, <1>3, <2>1 DEF Moved, Others, ResultRests
  <2> QED
    BY <1>1, <2>1 DEF Moved
<1>6. InOrder'
  <2>1. \A u \in Tasks : at'[u] # "idle" => at[u] # "idle"
    BY <1>1 DEF Moved, Others
  <2>2. \A u \in Leads : at'[u] \notin {"idle", "called", "threw"} => at[u] \notin {"idle", "called", "threw"}
    BY <1>1, <1>2 DEF Moved, Others
  <2> QED
    BY <1>2, <1>3, <2>1, <2>2 DEF InOrder
<1>7. \A u \in Works : res[u].status # "none" => at[u] = "returned" /\ u # t
  BY <1>1, <1>3 DEF ResultRests, NoResult, Moved
<1>8. \A u \in Works : res[u].effect # "none" => u # t
  BY <1>1, <1>3 DEF ResultRests, NoResult, Moved
<1>9. AppliedLast'
  <2>1. \A u \in applied : u \in Works /\ res'[u] = res[u]
    BY <1>1, <1>2, <1>3, <1>8 DEF AppliedLast, TeamTypeOK, Moved, Others
  <2> QED
    BY <1>2, <1>3, <2>1 DEF AppliedLast
<1>10. AnswerRests'
  <2>1. Planned \subseteq Works
    BY <1>3, TaskAssumption DEF Planned, TeamTypeOK, Works
  <2>2. ASSUME answer.status = "verified", NEW u \in Planned PROVE res'[u] = res[u]
    BY <1>1, <1>2, <1>3, <1>7, <2>1, <2>2 DEF AnswerRests, Moved, Others
  <2> QED
    BY <1>2, <1>3, <2>2 DEF AnswerRests
<1>11. faults' = 0 => \A u \in Tasks : RowsSettled(u)'
  <2>1. ASSUME faults' = 0, NEW u \in Tasks, u # t PROVE RowsSettled(u)'
    <3>1. Role(u)' = Role(u)
      BY <1>1, <2>1, RoleKept DEF Moved, Others
    <3>2. RowsSettled(u) /\ task'[u] = task[u] /\ at'[u] = at[u] /\ res'[u] = res[u]
          /\ \A r \in Roles : run'[<<u, r>>] = run[<<u, r>>] /\ attempt'[<<u, r>>] = attempt[<<u, r>>]
      BY <1>1, <1>3, <2>1 DEF Moved, Others
    <3> QED
      BY <1>2, <3>1, <3>2 DEF RowsSettled, RunOpen, AttemptOpen
  <2> QED
    BY <1>1, <2>1 DEF Moved
<1> QED
  BY <1>4, <1>5, <1>6, <1>9, <1>10, <1>11 DEF TeamInv

-----------------------------------------------------------------------------
\* The supervisor leaves the rows alone and starts only what is not at work.
LEMMA KeptRows ==
  ASSUME TeamInv, UNCHANGED <<ledger, res, faults>>,
         \A t \in Tasks : at'[t] = at[t] \/ (~ RunOpen(t) /\ at'[t] = "create")
  PROVE  faults' = 0 => \A t \in Tasks : RowsSettled(t)'
<1> SUFFICES ASSUME faults' = 0, NEW t \in Tasks PROVE RowsSettled(t)'
  OBVIOUS
<1>1. RowsSettled(t) /\ UNCHANGED <<task, run, attempt, res>>
  BY DEF TeamInv, ledger
<1>2. Role(t)' = Role(t) /\ Works' = Works
  BY <1>1, RoleKept DEF Works
<1> QED
  BY <1>1, <1>2 DEF RowsSettled, RunOpen, AttemptOpen

\* A task that starts has no result yet, so that results rest as before.
LEMMA KeptResults ==
  ASSUME TeamInv, UNCHANGED <<ledger, res>>,
         \A t \in Works : at'[t] = at[t] \/ (at[t] = "idle" /\ at'[t] = "create")
  PROVE  \A t \in Works : ResultRests(t)'
BY DEF TeamInv, ledger, ResultRests

\* A lead is a task; leads of other executions are other tasks.
LEMMA LeadTask ==
  ASSUME NEW n \in 1..MaxAttempts
  PROVE  /\ <<n, "lead">> \in Leads /\ <<n, "lead">> \in Tasks /\ <<n, "lead">> \notin Works
         /\ \A t \in Leads : t[1] = n => t = <<n, "lead">>
BY TaskAssumption DEF Leads, Works

\* MaterializeRequest starts the lead of the first execution.
LEMMA MaterializeInv ==
  ASSUME TeamInv, MaterializeRequest, UNCHANGED <<aborted, faults>>
  PROVE  TeamInv'
<1> DEFINE u == <<1, "lead">>
<1>0. /\ TeamTypeOK /\ InOrder /\ AppliedLast /\ AnswerRests /\ lead = "request" /\ ord = 1
      /\ Works' = Works /\ Leads' = Leads
  BY DEF TeamInv, InOrder, MaterializeRequest, Works, Leads
<1>1. /\ u \in Leads /\ u \in Tasks /\ u \notin Works /\ (\A t \in Leads : t[1] = 1 => t = u)
      /\ Works \subseteq Tasks /\ Leads \subseteq Tasks
  BY LeadTask, TeamAssumption DEF Leads, Works
<1>2. /\ \/ lead' = "plan" /\ at' = [at EXCEPT ![u] = "create"]
         \/ lead' = "threw" /\ at' = at
      /\ UNCHANGED <<ledger, team, ord, plan, outcome, res, applied, answer>>
  BY DEF MaterializeRequest
<1>3. \A t \in Tasks : t # u => at'[t] = at[t]
  BY <1>0, <1>2 DEF TeamTypeOK
<1>4. at[u] \in {"idle", "called", "threw"} /\ at'[u] \in {at[u], "create"}
      /\ (lead' # "plan" => at'[u] = at[u])
  BY <1>0, <1>1, <1>2 DEF InOrder, TeamTypeOK
<1>5. TeamTypeOK'
  BY <1>0, <1>2 DEF TeamTypeOK, Locations, ledger
<1>6. \A t \in Works : ResultRests(t)'
  BY <1>0, <1>1, <1>2, <1>3, KeptResults
<1>7. InOrder'
  <2>1. \A t \in Works : (at'[t] = at[t] /\ at[t] = "idle") \/ t[1] < ord
    BY <1>0, <1>1, <1>3 DEF InOrder
  <2>2. \A t \in Leads : t # u => at'[t] \in {"idle", "called", "threw"}
    BY <1>0, <1>1, <1>3 DEF InOrder
  <2> QED
    BY <1>0, <1>1, <1>2, <1>4, <2>1, <2>2 DEF InOrder
<1>8. AppliedLast' /\ AnswerRests'
  BY <1>0, <1>2 DEF AppliedLast, AnswerRests
<1>9. faults' = 0 => \A t \in Tasks : RowsSettled(t)'
  BY <1>2, <1>3, <1>4, KeptRows DEF RunOpen
<1> QED
  BY <1>5, <1>6, <1>7, <1>8, <1>9 DEF TeamInv

\* Plan starts the cells of a plan that the team accepts.
LEMMA PlanInv ==
  ASSUME TeamInv, Plan, UNCHANGED <<aborted, faults>>
  PROVE  TeamInv'
<1>0. /\ TeamTypeOK /\ InOrder /\ AppliedLast /\ AnswerRests /\ lead = "plan" /\ lead' = "execute"
      /\ at[<<ord, "lead">>] = "called"
      /\ UNCHANGED <<ledger, team, ord, outcome, res, applied, answer>>
      /\ Works' = Works /\ Leads' = Leads /\ Works \subseteq Tasks /\ Leads \subseteq Tasks
  BY DEF TeamInv, Plan, Works, Leads
<1>1. PICK p \in team.plans :
        /\ plan' = [plan EXCEPT ![ord] = p]
        /\ at' = [t \in Tasks |-> IF t[1] = ord /\ t[2] \in p THEN "create" ELSE at[t]]
  BY DEF Plan
<1>2. p \subseteq Cells /\ ord \in 1..MaxAttempts
  BY <1>0, TeamAssumption DEF TeamTypeOK
<1>3. \A t \in Tasks : at'[t] = at[t] \/ (t \in Works /\ t[1] = ord /\ at[t] = "idle" /\ at'[t] = "create")
  BY <1>0, <1>1, <1>2, TaskAssumption DEF InOrder, Works
<1>4. TeamTypeOK'
  <2>1. plan' \in [1..MaxAttempts -> SUBSET Cells]
    BY <1>0, <1>1, <1>2 DEF TeamTypeOK
  <2>2. at' \in [Tasks -> Locations]
    BY <1>0, <1>1 DEF TeamTypeOK, Locations
  <2> QED
    BY <1>0, <2>1, <2>2 DEF TeamTypeOK, ledger
<1>5. \A t \in Works : ResultRests(t)'
  BY <1>0, <1>3, KeptResults
<1>6. InOrder'
  <2>1. \A n \in 1..MaxAttempts : plan'[n] = {} \/ plan'[n] \in team'.plans
    BY <1>0, <1>1 DEF InOrder, TeamTypeOK
  <2>2. \A t \in Works : at'[t] # "idle" => t[1] < ord \/ t[1] = ord
    BY <1>0, <1>3 DEF InOrder
  <2>3. \A t \in Leads : at'[t] = at[t] /\ at[t] \in {"idle", "called", "threw"}
    BY <1>0, <1>2, <1>3, LeadTask DEF InOrder, Works, Leads
  <2> QED
    BY <1>0, <2>1, <2>2, <2>3 DEF InOrder
<1>7. AppliedLast' /\ AnswerRests'
  BY <1>0 DEF AppliedLast, AnswerRests
<1>8. faults' = 0 => \A t \in Tasks : RowsSettled(t)'
  BY <1>0, <1>3, KeptRows DEF RunOpen
<1> QED
  BY <1>4, <1>5, <1>6, <1>7, <1>8 DEF TeamInv

\* Reject ends the call and leaves everything else as it is.
LEMMA RejectInv ==
  ASSUME TeamInv, Reject, UNCHANGED <<aborted, faults>>
  PROVE  TeamInv'
<1>0. /\ TeamTypeOK /\ InOrder /\ AppliedLast /\ AnswerRests
      /\ lead \in {"plan", "execute"} /\ lead' = "threw"
      /\ (lead = "plan" => at[<<ord, "lead">>] = "threw")
      /\ UNCHANGED <<ledger, team, ord, plan, at, outcome, res, applied, answer>>
      /\ Works' = Works /\ Leads' = Leads /\ Planned' = Planned
  BY DEF TeamInv, Reject, Works, Leads, Planned
<1>1. InOrder'
  <2>1. \A t \in Leads : at[t] \in {"idle", "called", "threw"}
    BY <1>0, LeadTask DEF InOrder, TeamTypeOK
  <2> QED
    BY <1>0, <2>1 DEF InOrder
<1>2. AppliedLast' /\ AnswerRests'
  BY <1>0 DEF AppliedLast, AnswerRests
<1>3. TeamTypeOK' /\ \A t \in Works : ResultRests(t)'
  BY <1>0, KeptResults DEF TeamTypeOK, ledger
<1>4. faults' = 0 => \A t \in Tasks : RowsSettled(t)'
  BY <1>0, KeptRows
<1> QED
  BY <1>0, <1>1, <1>2, <1>3, <1>4 DEF TeamInv

\* A result with an effect is not repeated, and a verified one is verified throughout.
LEMMA AssembledRests ==
  /\ Assembled.effect = "none" => \A t \in Planned : res[t].effect \notin {"pending", "persisted"}
  /\ Assembled.status = "verified" =>
       \A t \in Planned : res[t].status = "verified" /\ res[t].effect # "pending"
<1> DEFINE R == {res[t] : t \in Planned}
<1>1. AggregateStatus(R) = "verified" => \A r \in R : r.status = "verified"
  BY Zenon DEF AggregateStatus
<1> QED
  BY <1>1 DEF Assembled

\* Supervise returns what it assembled, or goes on where nothing was written.
LEMMA SuperviseInv ==
  ASSUME TeamInv, Supervise, UNCHANGED <<aborted, faults>>
  PROVE  TeamInv'
<1>0. /\ TeamTypeOK /\ InOrder /\ AppliedLast /\ AnswerRests /\ lead = "execute"
      /\ UNCHANGED <<ledger, team, plan, outcome, res, applied>>
      /\ Works' = Works /\ Leads' = Leads /\ Works \subseteq Tasks /\ Leads \subseteq Tasks
      /\ \A t \in Works : ResultRests(t)
  BY DEF TeamInv, Supervise, Works, Leads
<1>1. CASE lead' \in {"threw", "returned"} /\ UNCHANGED <<ord, at>>
           /\ (answer' = answer \/ (lead' = "returned" /\ answer' = Assembled))
  <2>1. Planned' = Planned
    BY <1>0, <1>1 DEF Planned
  <2>2. InOrder' /\ AppliedLast' /\ AnswerRests'
    BY <1>0, <1>1, <2>1, AssembledRests DEF InOrder, AppliedLast, AnswerRests
  <2>3. TeamTypeOK' /\ \A t \in Works : ResultRests(t)'
    BY <1>0, <1>1, KeptResults DEF TeamTypeOK, ledger
  <2>4. faults' = 0 => \A t \in Tasks : RowsSettled(t)'
    BY <1>0, <1>1, KeptRows
  <2> QED
    BY <1>0, <2>2, <2>3, <2>4 DEF TeamInv
<1>2. CASE /\ ShouldRetry(Assembled) /\ lead' = "plan" /\ ord' = ord + 1 /\ answer' = answer
           /\ at' = [at EXCEPT ![<<ord + 1, "lead">>] = "create"]
  <2>1. applied = {}
    BY <1>0, <1>2, AssembledRests DEF AppliedLast, ShouldRetry
  <2>2. ord + 1 \in 1..MaxAttempts /\ ord \in 1..MaxAttempts
    <3>1. ord < team.limit /\ team.limit \in 1..MaxAttempts /\ ord \in 1..MaxAttempts
      BY <1>0, <1>2, TeamAssumption DEF ShouldRetry, TeamTypeOK
    <3> QED
      BY <3>1, TeamAssumption
  <2>3. \A t \in Tasks : t # <<ord + 1, "lead">> => at'[t] = at[t]
    BY <1>0, <1>2 DEF TeamTypeOK
  <2>4. at[<<ord + 1, "lead">>] \in {"idle", "called", "threw"}
    BY <1>0, <2>2, LeadTask DEF InOrder
  <2>5. TeamTypeOK'
    BY <1>0, <1>2, <2>2 DEF TeamTypeOK, Locations, ledger
  <2>6. InOrder'
    <3>1. \A t \in Works : at'[t] # "idle" => t[1] < ord + 1
      BY <1>0, <2>2, <2>3, LeadTask, TaskAssumption DEF InOrder, Works
    <3>2. \A t \in Leads : at'[t] \notin {"idle", "called", "threw"} => t[1] = ord + 1
      BY <1>0, <2>2, <2>3, LeadTask DEF InOrder
    <3> QED
      BY <1>0, <1>2, <2>2, <3>1, <3>2 DEF InOrder
  <2>7. AppliedLast' /\ AnswerRests'
    BY <1>0, <1>2, <2>1 DEF AppliedLast, AnswerRests
  <2>8. \A t \in Works : ResultRests(t)'
    BY <1>0, <2>2, <2>3, LeadTask, KeptResults
  <2>9. faults' = 0 => \A t \in Tasks : RowsSettled(t)'
    BY <1>0, <1>2, <2>2, <2>3, <2>4, LeadTask, KeptRows DEF RunOpen, TeamTypeOK
  <2> QED
    BY <1>0, <2>5, <2>6, <2>7, <2>8, <2>9 DEF TeamInv
<1> QED
  BY <1>1, <1>2 DEF Supervise

\* The mutation of a cell that returned its proposal is verified, or the call throws.
LEMMA MutationInv ==
  ASSUME TeamInv, NEW t \in Works, ExecuteMutation(t), UNCHANGED <<aborted, faults>>
  PROVE  TeamInv'
<1>0. /\ TeamTypeOK /\ InOrder /\ AppliedLast /\ AnswerRests /\ lead = "execute"
      /\ t \in Planned /\ at[t] = "returned" /\ team.kind = "execute"
      /\ res[t].effect = "pending" /\ res[t].status = "verified"
      /\ UNCHANGED <<linked, verdict, run, attempt, team, ord, plan, at, outcome, answer>>
      /\ Works' = Works /\ Leads' = Leads /\ Planned' = Planned /\ Works \subseteq Tasks
      /\ \A u \in Works : ResultRests(u)
      /\ faults' = 0 => \A u \in Tasks : RowsSettled(u)
  BY DEF TeamInv, ExecuteMutation, Works, Leads, Planned, ResultRests
<1>1. /\ task' \in [Tasks -> TaskStatus] /\ applied' \in {applied, applied \cup {t}}
      /\ \A u \in Tasks \ {t} : task'[u] = task[u] /\ res'[u] = res[u]
      /\ \/ res' = [res EXCEPT ![t].effect = "persisted"] /\ task'[t] = "verified" /\ lead' = lead
         \/ res' = res /\ lead' = "threw"
  <2>1. t \in Tasks /\ task \in [Tasks -> TaskStatus] /\ MutationOf(t)
    BY <1>0 DEF ExecuteMutation, TeamTypeOK
  <2>2. {"verified", "checker_validated", "execution_pending", "execution_failed",
         "committed", "readback_failed", "readback_verified"} \subseteq TaskStatus
    BY DEF TaskStatus, Allowed, Terminal
  <2>3. \E s \in TaskStatus :
          /\ task' = [task EXCEPT ![t] = s] /\ applied' \in {applied, applied \cup {t}}
          /\ \/ res' = [res EXCEPT ![t].effect = "persisted"] /\ s = "verified" /\ lead' = lead
             \/ res' = res /\ lead' = "threw"
    BY <2>1, <2>2, SMTT(30) DEF MutationOf
  <2>4. DOMAIN res = Tasks
    BY <1>0 DEF TeamTypeOK
  <2> QED
    BY <2>1, <2>3, <2>4
<1>2. /\ res'[t].status = "verified" /\ res'[t].effect \in {"pending", "persisted"}
      /\ (res'[t].effect = "persisted" => task'[t] = "verified")
      /\ (lead' = "execute" => res'[t].effect = "persisted")
  BY <1>0, <1>1 DEF TeamTypeOK
<1>3. TeamTypeOK'
  <2>1. lead' \in {"execute", "threw"} /\ applied' \subseteq Works
    BY <1>0, <1>1 DEF TeamTypeOK
  <2>2. res' = res => TeamTypeOK'
    BY <1>0, <1>1, <2>1 DEF TeamTypeOK
  <2>3. res' = [res EXCEPT ![t].effect = "persisted"] => TeamTypeOK'
    <3> DEFINE Result == [status : {"none", "verified", "insufficient_evidence", "conflicted", "failed"},
                          effect : {"none", "pending", "persisted"},
                          phase : Roles \cup {"none", "checker_rejection"},
                          code : Outcomes \cup Verdicts \cup {"none", "storage"}]
    <3>1. res \in [Tasks -> Result] /\ t \in Tasks
      BY <1>0 DEF TeamTypeOK
    <3>2. ASSUME NEW r \in Result PROVE [r EXCEPT !.effect = "persisted"] \in Result
      OBVIOUS
    <3> HIDE DEF Result
    <3>3. [res EXCEPT ![t].effect = "persisted"] \in [Tasks -> Result]
      BY <3>1, <3>2
    <3> QED
      BY <1>0, <1>1, <2>1, <3>3 DEF TeamTypeOK, Result
  <2> QED
    BY <1>1, <2>2, <2>3
<1>4. ASSUME NEW u \in Works PROVE ResultRests(u)'
  <2>1. CASE u = t
    BY <1>0, <1>1, <1>2, <2>1 DEF ResultRests
  <2>2. CASE u # t
    BY <1>0, <1>1, <2>2 DEF ResultRests
  <2> QED
    BY <2>1, <2>2
<1>5. InOrder'
  <2>1. lead' \in {"execute", "threw"}
    BY <1>0, <1>1
  <2> QED
    BY <1>0, <2>1 DEF InOrder
<1>6. AppliedLast'
  <2>1. applied \subseteq Works /\ lead' \in {"execute", "threw"}
    BY <1>0, <1>1 DEF TeamTypeOK
  <2>2. ASSUME NEW u \in applied, u # t PROVE res'[u] = res[u] /\ res[u].effect = "persisted" /\ u \in Planned
    BY <1>0, <1>1, <2>1, <2>2 DEF AppliedLast
  <2> QED
    BY <1>0, <1>1, <1>2, <2>1, <2>2 DEF AppliedLast
<1>7. AnswerRests'
  BY <1>0 DEF AnswerRests
<1>8. ASSUME faults' = 0, NEW u \in Tasks PROVE RowsSettled(u)'
  <2>1. CASE u = t
    <3>1. \A r \in Roles : run[<<t, r>>] # "running" /\ attempt[<<t, r>>] # "running"
      BY <1>0, <1>8 DEF RowsSettled, RunOpen, AttemptOpen
    <3> QED
      BY <1>0, <1>2, <2>1, <3>1 DEF RowsSettled, Terminal
  <2>2. CASE u # t
    <3>1. Role(u)' = Role(u)
      BY <1>1, <2>2, RoleKept
    <3> QED
      BY <1>0, <1>1, <1>8, <2>2, <3>1 DEF RowsSettled, RunOpen, AttemptOpen
  <2> QED
    BY <2>1, <2>2
<1> QED
  BY <1>3, <1>4, <1>5, <1>6, <1>7, <1>8 DEF TeamInv

\* An aborted signal changes no row; agents only see it in how their calls end.
LEMMA AbortInv ==
  ASSUME TeamInv, Abort \/ UNCHANGED vars
  PROVE  TeamInv'
<1>1. /\ UNCHANGED <<ledger, supervisor, at, outcome, res, applied, answer, faults>>
      /\ aborted' \in {"no", "timeout", "cancel"}
  BY DEF Abort, vars, TeamInv, TeamTypeOK
<1>2. /\ UNCHANGED <<task, linked, verdict, run, attempt, team, lead, ord, plan>>
      /\ Works' = Works /\ Leads' = Leads /\ Planned' = Planned /\ Works \subseteq Tasks
  BY <1>1 DEF ledger, supervisor, Works, Leads, Planned
<1>3. \A t \in Works : ResultRests(t)'
  BY <1>1, KeptResults
<1>4. faults' = 0 => \A t \in Tasks : RowsSettled(t)'
  BY <1>1, KeptRows
<1>5. TeamTypeOK' /\ InOrder' /\ AppliedLast' /\ AnswerRests'
  BY <1>1, <1>2 DEF TeamInv, TeamTypeOK, InOrder, AppliedLast, AnswerRests
<1> QED
  BY <1>2, <1>3, <1>4, <1>5 DEF TeamInv

\* Before the first request nothing runs and nothing is open.
LEMMA TeamInitInv == TeamInit => TeamInv
<1> SUFFICES ASSUME TeamInit PROVE TeamInv
  OBVIOUS
<1>0. \A t \in Tasks, r \in Roles : <<t, r>> \in Tasks \X Roles
  OBVIOUS
<1>1. TeamTypeOK
  <2>1. 1 \in 1..MaxAttempts
    BY TeamAssumption
  <2> QED
    BY <2>1 DEF TeamInit, LedgerInit, TeamTypeOK, TaskStatus, Locations, NoResult
<1>2. (\A t \in Works : ResultRests(t)) /\ InOrder
  BY DEF TeamInit, LedgerInit, ResultRests, InOrder, NoResult, Works, Leads
<1>3. AppliedLast /\ AnswerRests
  BY DEF TeamInit, AppliedLast, AnswerRests
<1>4. \A t \in Tasks : RowsSettled(t)
  BY <1>0 DEF TeamInit, LedgerInit, RowsSettled
<1> QED
  BY <1>1, <1>2, <1>3, <1>4 DEF TeamInv

-----------------------------------------------------------------------------
\* Whatever agents and statements do, the rows of a team call, what its cells
\* returned and what the supervisor makes of it agree with each other.
THEOREM TeamInvariant == TeamSpec => []TeamInv
<1>1. TeamInv /\ [TeamNext]_vars => TeamInv'
  <2> SUFFICES ASSUME TeamInv, [TeamNext]_vars PROVE TeamInv'
    OBVIOUS
  <2>1. CASE SupervisorStep
    BY <2>1, MaterializeInv, PlanInv, RejectInv, SuperviseInv, MutationInv DEF SupervisorStep
  <2>2. CASE Abort \/ UNCHANGED vars
    BY <2>2, AbortInv
  <2>3. CASE \E t \in Tasks : TaskStep(t)
    BY <2>3, TaskStepInv
  <2> QED
    BY <2>1, <2>2, <2>3 DEF TeamNext
<1> QED
  BY <1>1, TeamInitInv, PTL DEF TeamSpec

\* TeamLeadSupervisor reports as verified only what the verification ledger
\* verified, and every mutation had an accepting verdict on its artifact.
THEOREM VerifiedIsCheckedAlways == TeamSpec => []VerifiedIsChecked
<1>1. TeamInv => VerifiedIsChecked
  <2> SUFFICES ASSUME TeamInv PROVE VerifiedIsChecked
    OBVIOUS
  <2>1. Planned \subseteq Works
    BY TaskAssumption DEF TeamInv, TeamTypeOK, Planned, Works
  <2>2. ASSUME NEW t \in Works, res[t].status = "verified"
        PROVE  /\ verdict[t] = "accepted" /\ t \in linked
               /\ (res[t].effect # "pending" => task[t] = "verified")
    BY <2>2 DEF TeamInv, ResultRests
  <2>3. \A t \in applied : t \in Works /\ res[t].status = "verified"
    BY DEF TeamInv, TeamTypeOK, AppliedLast, ResultRests
  <2> QED
    BY <2>1, <2>2, <2>3 DEF VerifiedIsChecked, TeamInv, AnswerRests
<1> QED
  BY <1>1, TeamInvariant, PTL

\* A call of a team changes the books at most once, however often it retries.
THEOREM OneEffectAlways == TeamSpec => []OneEffect
<1>1. TeamInv => OneEffect
  <2> SUFFICES ASSUME TeamInv PROVE OneEffect
    OBVIOUS
  <2>1. CASE applied = {}
    <3>1. Cardinality({}) = 0
      BY FS_EmptySet, Zenon
    <3> QED
      BY <2>1, <3>1 DEF OneEffect
  <2>2. CASE applied # {}
    <3>1. PICK t \in applied : team.kind = "execute" /\ t \in Planned
      BY <2>2 DEF TeamInv, AppliedLast
    <3>2. /\ team \in Teams /\ ord \in 1..MaxAttempts
          /\ plan[ord] = {} \/ plan[ord] \in team.plans
          /\ applied \subseteq Planned
      BY DEF TeamInv, TeamTypeOK, InOrder, AppliedLast
    <3>3. PICK c \in Cells : plan[ord] = {c}
      BY <3>1, <3>2, TeamAssumption DEF Planned
    <3>4. applied = {<<ord, c>>}
      BY <3>1, <3>2, <3>3 DEF Planned
    <3>5. Cardinality({<<ord, c>>}) = 1
      BY FS_Singleton, Zenon
    <3> QED
      BY <3>4, <3>5 DEF OneEffect
  <2> QED
    BY <2>1, <2>2
<1> QED
  BY <1>1, TeamInvariant, PTL

\* When the work of a call has ended and no statement failed, no run or attempt
\* is left running, the lead's included, and the task of every work cell is
\* settled, cancelled work included.
THEOREM WorkIsSettledAlways == TeamSpec => []WorkIsSettled
<1>1. TeamInv => WorkIsSettled
  <2> SUFFICES ASSUME TeamInv, Done, faults = 0
               PROVE  /\ \A t \in Tasks, r \in Roles :
                           run[<<t, r>>] # "running" /\ attempt[<<t, r>>] # "running"
                      /\ \A t \in Works :
                           task[t] \in Terminal \cup {"none"} \/ res[t].effect = "pending"
    <3>1. \A a \in Tasks \X Roles : \E t \in Tasks, r \in Roles : a = <<t, r>>
      OBVIOUS
    <3> QED
      BY <3>1, Zenon DEF WorkIsSettled
  <2>1. \A t \in Tasks : ~ RunOpen(t) /\ ~ AttemptOpen(t)
    BY DEF TeamInv, InOrder, Done, RunOpen, AttemptOpen, Works, Leads
  <2>2. \A t \in Tasks : RowsSettled(t)
    BY DEF TeamInv
  <2>3. \A t \in Works : t \in Tasks /\ at[t] \in {"idle", "returned", "threw"}
    BY DEF Done, Works
  <2> QED
    BY <2>1, <2>2, <2>3 DEF RowsSettled
<1> QED
  BY <1>1, TeamInvariant, PTL

-----------------------------------------------------------------------------
(* A call as its caller sees it.                                             *)

\* Only a mutation gives a work cell a persisted effect.
LEMMA TaskResults ==
  ASSUME TeamInv, NEW t \in Tasks, TaskStep(t)
  PROVE  \A u \in Tasks : res'[u].effect = "persisted" => res[u].effect = "persisted"
<1>1. DOMAIN res = Tasks
  BY DEF TeamInv, TeamTypeOK
<1>2. \/ UNCHANGED res
      \/ \E r : r.effect # "persisted" /\ res' = [res EXCEPT ![t] = r]
  <2>1. CASE AgentCall(t)
    BY <2>1 DEF AgentCall, StartRun, StartAttempt, Generate, EndAttempt, EndRun, Goto, CallFault
  <2>2. CASE LeadCall(t)
    BY <2>2 DEF LeadCall, CreateTask, Goto, FaultAt
  <2>3. CASE \/ CreateTask(t) \/ SelectContract(t) \/ BeginMaker(t) \/ SaveMaker(t)
             \/ ValidateMaker(t) \/ BeginChecker(t) \/ SaveVerdict(t) \/ ValidateChecker(t)
    BY <2>3 DEF CreateTask, SelectContract, BeginMaker, SaveMaker, ValidateMaker, BeginChecker,
                SaveVerdict, ValidateChecker, Move, FaultAt, Goto
  <2>4. CASE FailCell(t)
    <3> DEFINE r == [status |-> "failed", effect |-> "none", phase |-> Role(t), code |-> outcome[t]]
    <3>1. r.effect # "persisted"
      OBVIOUS
    <3>2. UNCHANGED res \/ res' = [res EXCEPT ![t] = r]
      BY <2>4 DEF FailCell, FaultAt, Goto, Return
    <3> QED
      BY <3>1, <3>2
  <2>5. CASE Conclude(t)
    <3>1. \A s, e : CheckedResult(t, s, e).effect = e
      BY DEF CheckedResult
    <3>2. \/ UNCHANGED res
          \/ \E s : \/ res' = [res EXCEPT ![t] = CheckedResult(t, s, "pending")]
                    \/ res' = [res EXCEPT ![t] = CheckedResult(t, s, "none")]
      BY <2>5 DEF Conclude, FaultAt, Goto, Return
    <3> QED
      BY <3>1, <3>2
  <2> QED
    BY <2>1, <2>2, <2>3, <2>4, <2>5 DEF TaskStep, WorkCell
<1> QED
  BY <1>1, <1>2

\* A mutation that was made belongs to the only cell of a call that is executing.
LEMMA OnlyCell ==
  ASSUME TeamInv, NEW t \in applied
  PROVE  Planned = {t} /\ applied = {t} /\ team.kind = "execute" /\ res[t].effect # "none"
<1>1. /\ team.kind = "execute" /\ t \in Planned /\ res[t].effect # "none"
      /\ applied \subseteq Planned
  BY DEF TeamInv, AppliedLast
<1>2. team \in Teams /\ ord \in 1..MaxAttempts /\ (plan[ord] = {} \/ plan[ord] \in team.plans)
  BY DEF TeamInv, TeamTypeOK, InOrder
<1>3. PICK c \in Cells : plan[ord] = {c}
  BY <1>1, <1>2, TeamAssumption DEF Planned
<1>4. Planned = {<<ord, c>>}
  BY <1>3 DEF Planned
<1> QED
  BY <1>1, <1>4

\* A mutation of the call's cell comes after no other.
LEMMA MutationIsFirst ==
  ASSUME TeamInv, NEW t \in Works, ExecuteMutation(t)
  PROVE  applied = {}
<1>1. lead = "execute" /\ t \in Planned /\ res[t].effect = "pending"
  BY DEF ExecuteMutation
<1>2. ASSUME NEW u \in applied PROVE FALSE
  <2>1. t = u
    BY <1>1, OnlyCell
  <2> QED
    BY <1>1, <2>1 DEF TeamInv, AppliedLast
<1> QED
  BY <1>2

\* A work cell says that its mutation was made only when it was.
LEMMA PersistedIsApplied == TeamSpec => []PersistedApplied
<1>1. TeamInit => PersistedApplied
  BY DEF TeamInit, PersistedApplied, NoResult, Works
<1>2. TeamInv /\ PersistedApplied /\ [TeamNext]_vars => PersistedApplied'
  <2> SUFFICES ASSUME TeamInv, PersistedApplied, [TeamNext]_vars PROVE PersistedApplied'
    OBVIOUS
  <2>1. Works' = Works /\ Works \subseteq Tasks /\ DOMAIN res = Tasks
    BY DEF Works, TeamInv, TeamTypeOK
  <2>2. CASE \E t \in Tasks : TaskStep(t)
    BY <2>1, <2>2, TaskResults DEF PersistedApplied, TaskStep
  <2>3. CASE UNCHANGED <<res, applied>>
    BY <2>1, <2>3 DEF PersistedApplied
  <2>4. ASSUME NEW t \in Works, ExecuteMutation(t) PROVE PersistedApplied'
    <3>1. \/ res' = [res EXCEPT ![t].effect = "persisted"] /\ applied' = applied \cup {t}
          \/ res' = res /\ applied \subseteq applied'
      BY <2>4 DEF ExecuteMutation, MutationOf
    <3> QED
      BY <2>1, <3>1 DEF PersistedApplied
  <2> QED
    BY <2>2, <2>3, <2>4
    DEF TeamNext, SupervisorStep, MaterializeRequest, Plan, Reject, Supervise, Abort, vars
<1> QED
  BY <1>1, <1>2, TeamInvariant, PTL DEF TeamSpec

\* What is assembled is a result of the promise, and owns up to a mutation.
LEMMA AssembledIsPromised ==
  ASSUME TeamInv, PersistedApplied, lead = "execute",
         team.kind = "execute" => \A t \in Planned : res[t].effect # "pending"
  PROVE  Assembled \in TeamResults /\ (Assembled.effect = "persisted" <=> applied # {})
<1> DEFINE R == {res[t] : t \in Planned}
<1>1. Planned \subseteq Works
  BY TaskAssumption DEF TeamInv, TeamTypeOK, Planned, Works
<1>2. \A r \in R : /\ r.status \in {"none", "verified", "insufficient_evidence", "conflicted", "failed"}
                   /\ r.effect \in {"none", "pending", "persisted"}
  BY <1>1 DEF TeamInv, TeamTypeOK, Works
<1>3. ASSUME NEW t \in applied PROVE Assembled = [status |-> "verified", effect |-> "persisted"]
  <2>1. Planned = {t} /\ team.kind = "execute" /\ res[t].effect # "none"
    BY OnlyCell
  <2>2. res[t].effect = "persisted" /\ res[t].status = "verified" /\ R = {res[t]}
    BY <1>1, <1>2, <2>1 DEF TeamInv, ResultRests
  <2>3. AggregateStatus(R) = "verified"
    BY <2>2 DEF AggregateStatus
  <2> QED
    BY <2>2, <2>3 DEF Assembled
<1>4. CASE applied = {}
  <2>1. \A r \in R : r.effect # "persisted"
    BY <1>1, <1>4 DEF PersistedApplied
  <2>2. AggregateStatus(R) \in {"verified", "partial", "insufficient_evidence", "conflicted", "failed"}
    BY DEF AggregateStatus
  <2>3. \/ Assembled = [status |-> "partial", effect |-> "awaiting_confirmation"]
        \/ Assembled = [status |-> AggregateStatus(R), effect |-> "none"]
    BY <2>1 DEF Assembled
  <2> QED
    BY <1>4, <2>2, <2>3 DEF TeamResults
<1>5. CASE applied # {}
  BY <1>3, <1>5 DEF TeamResults
<1> QED
  BY <1>4, <1>5

\* The number of mutations of a call tells whether there was one.
LEMMA CountChanges ==
  ASSUME TeamInv
  PROVE  /\ (Changes = 0 <=> applied = {}) /\ (Changes = 1 <=> applied # {})
         /\ Changes \in 0..1
<1>1. Cardinality({}) = 0 /\ \A t : Cardinality({t}) = 1
  BY FS_EmptySet, FS_Singleton, Zenon
<1>2. CASE applied = {}
  BY <1>1, <1>2 DEF Changes
<1>3. CASE applied # {}
  <2>1. PICK t \in applied : applied = {t}
    BY <1>3, OnlyCell
  <2>2. Changes = 1
    BY <1>1, <2>1, Zenon DEF Changes
  <2> QED
    BY <1>3, <2>2
<1> QED
  BY <1>2, <1>3

\* A call that throws on its own has changed nothing before.
LEMMA RejectedUnchanged ==
  ASSUME TeamInv, Reject
  PROVE  applied = {}
<1>1. CASE lead = "plan"
  BY <1>1 DEF TeamInv, AppliedLast
<1>2. CASE lead = "execute"
  <2>1. PICK t \in Planned : at[t] = "threw"
    BY <1>2 DEF Reject
  <2>2. t \in Works
    BY TaskAssumption DEF TeamInv, TeamTypeOK, Planned, Works
  <2>3. res[t].effect = "none"
    BY <2>1, <2>2 DEF TeamInv, ResultRests, NoResult
  <2> QED
    BY <2>1, <2>3, OnlyCell
<1> QED
  BY <1>1, <1>2 DEF Reject

\* The return of a call, or the next execution of a plan.
LEMMA SupervisePromised ==
  ASSUME TeamInv, PersistedApplied, Supervise
  PROVE  Call!Next \/ UNCHANGED <<ResultOfCall, Changes>>
<1>1. lead = "execute" /\ Changes' = Changes /\ ResultOfCall = Call!Open
  BY DEF Supervise, Changes, ResultOfCall, Call!Open
<1>2. CASE team.kind = "unwired" /\ lead' = "threw"
  <2>1. applied = {}
    BY <1>2, OnlyCell
  <2>2. ResultOfCall' = Call!Thrown
    BY <1>2 DEF ResultOfCall, Call!Thrown
  <2> QED
    BY <1>1, <2>1, <2>2, CountChanges DEF Call!Next, Call!Throw
<1>3. CASE lead' = "plan"
  BY <1>1, <1>3 DEF ResultOfCall, Call!Open
<1>4. CASE lead' = "returned" /\ answer' = Assembled
  <2>1. Assembled \in TeamResults /\ (Assembled.effect = "persisted" <=> applied # {})
    BY <1>1, AssembledIsPromised DEF Supervise
  <2>2. ResultOfCall' = Assembled
    BY <1>4 DEF ResultOfCall
  <2>3. ResultOfCall'.effect = "persisted" <=> Changes = 1
    BY <2>1, <2>2, CountChanges
  <2>4. Call!Return
    BY <1>1, <2>1, <2>2, <2>3 DEF Call!Return, Call!TeamResults, TeamResults
  <2> QED
    BY <2>4 DEF Call!Next
<1> QED
  BY <1>2, <1>3, <1>4 DEF Supervise

\* A mutation is verified while the call is open, or ends it with an error.
LEMMA MutationPromised ==
  ASSUME TeamInv, NEW t \in Works, ExecuteMutation(t)
  PROVE  Call!Next
<1>1. applied = {} /\ Changes = 0 /\ ResultOfCall = Call!Open
  BY MutationIsFirst, CountChanges DEF ExecuteMutation, ResultOfCall, Call!Open
<1>2. Cardinality({}) = 0 /\ Cardinality({t}) = 1
  BY FS_EmptySet, FS_Singleton, Zenon
<1>3. CASE lead' = lead /\ applied' = applied \cup {t}
  <2>1. Changes' = 1 /\ ResultOfCall' = ResultOfCall
    BY <1>1, <1>2, <1>3 DEF ExecuteMutation, Changes, ResultOfCall
  <2> QED
    BY <1>1, <2>1 DEF Call!Next, Call!Change
<1>4. CASE lead' = "threw"
  <2>1. applied' = {} \/ applied' = {t}
    BY <1>1 DEF ExecuteMutation, MutationOf
  <2>2. ResultOfCall' = Call!Thrown /\ Changes' \in 0..1
    BY <1>2, <1>4, <2>1 DEF ResultOfCall, Changes, Call!Thrown
  <2> QED
    BY <1>1, <2>2 DEF Call!Next, Call!Throw
<1> QED
  BY <1>3, <1>4 DEF ExecuteMutation, MutationOf

\* Every step of a call is one of the promise or is not seen by the caller.
LEMMA StepPromised ==
  ASSUME TeamInv, PersistedApplied, [TeamNext]_vars
  PROVE  [Call!Next]_<<ResultOfCall, Changes>>
<1>1. CASE UNCHANGED <<lead, answer, applied>>
  BY <1>1 DEF ResultOfCall, Changes
<1>2. CASE MaterializeRequest
  <2>1. applied = {} /\ applied' = applied /\ lead = "request"
    BY <1>2 DEF MaterializeRequest, TeamInv, AppliedLast
  <2>2. ResultOfCall = Call!Open /\ Changes = 0 /\ Changes' = Changes
    BY <2>1, CountChanges DEF ResultOfCall, Changes, Call!Open
  <2>3. ResultOfCall' \in {Call!Open, Call!Thrown}
    BY <1>2 DEF MaterializeRequest, ResultOfCall, Call!Open, Call!Thrown
  <2> QED
    BY <2>2, <2>3 DEF Call!Next, Call!Throw
<1>3. CASE Plan
  BY <1>3 DEF Plan, ResultOfCall, Changes
<1>4. CASE Reject
  <2>1. Changes = 0 /\ Changes' = Changes
    BY <1>4, RejectedUnchanged, CountChanges DEF Reject, Changes
  <2>2. ResultOfCall = Call!Open /\ ResultOfCall' = Call!Thrown
    BY <1>4 DEF Reject, ResultOfCall, Call!Open, Call!Thrown
  <2> QED
    BY <2>1, <2>2 DEF Call!Next, Call!Throw
<1>5. CASE Supervise
  BY <1>5, SupervisePromised
<1>6. CASE \E t \in Works : ExecuteMutation(t)
  BY <1>6, MutationPromised
<1>7. CASE (\E t \in Tasks : TaskStep(t)) \/ Abort \/ UNCHANGED vars
  BY <1>1, <1>7 DEF TaskStep, Abort, supervisor, vars
<1> QED
  BY <1>2, <1>3, <1>4, <1>5, <1>6, <1>7 DEF TeamNext, SupervisorStep

\* runTeamLead keeps what a conversation relies on: whatever agents, retries,
\* failing statements and aborts do, its caller sees one result that says whether
\* the books changed, or an error, and no change afterwards.
THEOREM CallPromiseKept == TeamSpec => CallKeepsPromise
<1>1. TeamInit => Call!Init
  <2>1. Cardinality({}) = 0
    BY FS_EmptySet, Zenon
  <2> QED
    BY <2>1 DEF TeamInit, Call!Init, ResultOfCall, Changes, Call!Open
<1>2. TeamInv /\ PersistedApplied /\ [TeamNext]_vars => [Call!Next]_<<ResultOfCall, Changes>>
  BY StepPromised
<1> QED
  BY <1>1, <1>2, TeamInvariant, PersistedIsApplied, PTL DEF TeamSpec, CallKeepsPromise, Call!Spec

-----------------------------------------------------------------------------
(* The turns of the orchestrator.                                            *)

\* The stored run of a turn.
Runs == [kind : {"none", "confirm", "clarify"}, cont : BOOLEAN]
\* What a turn ends with.
Replies == {"none", "error", "asked", "final", "no_changes", "memory_asked"}

\* A turn that ends has no further step.
LEMMA EndTurnInv ==
  ASSUME OrchestratorInv, NEW r \in Replies, NEW x \in Runs, EndTurn(r, x)
  PROVE  OrchestratorInv'
<1>1. /\ phase' = "idle" /\ reply' = r /\ stored' = x
      /\ UNCHANGED <<turns, resumed, results, count, failed, cont, memory, proposal, steps,
                     calls, changed, hit, hits>>
  BY DEF EndTurn, invocation, trace
<1>2. OrchestratorTypeOK'
  BY <1>1 DEF OrchestratorInv, OrchestratorTypeOK, Runs, Replies
<1> QED
  BY <1>1, <1>2 DEF OrchestratorInv, Answering, Barred

\* Every way of reporting a turn ends it.
LEMMA ReportEnds ==
  ASSUME OrchestratorInv,
         Throw \/ AskAgain \/ TurnFromTeamResults(results, cont)
           \/ (\E r \in Replies : EndTurn(r, NoRun)) \/ EndTurn("error", resumed)
  PROVE  OrchestratorInv'
<1>0. resumed \in Runs /\ NoRun \in Runs /\ cont \in BOOLEAN
  BY DEF OrchestratorInv, OrchestratorTypeOK, Runs, NoRun
<1>1. {"error", "asked", "final"} \subseteq Replies
  BY DEF Replies
<1>2. CASE Throw \/ AskAgain \/ EndTurn("error", resumed)
  BY <1>0, <1>1, <1>2, EndTurnInv DEF Throw, AskAgain
<1>3. CASE \E r \in Replies : EndTurn(r, NoRun)
  BY <1>0, <1>3, EndTurnInv
<1>4. CASE TurnFromTeamResults(results, cont)
  <2>1. \A b \in BOOLEAN : [kind |-> "confirm", cont |-> cont /\ b] \in Runs
                           /\ [kind |-> "clarify", cont |-> cont] \in Runs
    BY <1>0 DEF Runs
  <2> HIDE <1>0
  <2> QED
    BY <1>0, <1>1, <1>4, <2>1, EndTurnInv DEF TurnFromTeamResults
<1> QED
  BY <1>2, <1>3, <1>4

\* What bars a delegation stays as long as the results do.
LEMMA BarredKept == UNCHANGED <<results, failed>> => (Barred' <=> Barred)
BY DEF Barred

\* A delegation that failed bars the next one.
LEMMA BarredFails == failed' = TRUE => Barred'
BY DEF Barred

\* A delegation that has an effect or throws bars the next one.
LEMMA DelegateInv ==
  ASSUME OrchestratorInv, Delegate
  PROVE  OrchestratorInv'
<1>0. /\ OrchestratorTypeOK /\ phase = "tools" /\ calls > 0 /\ calls' = calls - 1
      /\ hits \in 0..1 /\ (hits = 1 => Barred /\ hit) /\ hit \in BOOLEAN
      /\ UNCHANGED <<turns, phase, stored, resumed, memory, proposal, steps, reply>>
  BY DEF OrchestratorInv, OrchestratorTypeOK, Delegate
<1>a. calls' \in 0..MaxCalls
  BY <1>0, TurnAssumption DEF OrchestratorTypeOK
<1>b. ASSUME results' \in Seq(Kept), failed' \in BOOLEAN, cont' \in BOOLEAN, changed' \in BOOLEAN,
             count' \in 0..MaxDelegations, hit' \in BOOLEAN, hits' \in 0..1,
             hits' = 1 => Barred' /\ hit'
      PROVE  OrchestratorInv'
  <2>1. OrchestratorTypeOK'
    BY <1>0, <1>a, <1>b DEF OrchestratorTypeOK
  <2> QED
    BY <1>0, <1>b, <2>1 DEF OrchestratorInv, Answering
<1>t. results \in Seq(Kept) /\ failed \in BOOLEAN /\ cont \in BOOLEAN /\ changed \in BOOLEAN
      /\ count \in 0..MaxDelegations
  BY <1>0 DEF OrchestratorTypeOK
<1>1. CASE failed' = TRUE /\ UNCHANGED <<results, count, cont, trace>>
  <2>1. Barred'
    BY <1>1, BarredFails
  <2> QED
    BY <1>0, <1>1, <1>b, <1>t, <2>1 DEF trace
<1>2. CASE count < MaxDelegations /\ count' = count + 1 /\ cont' \in {cont, TRUE} /\ TeamCall
  <2>1. count' \in 0..MaxDelegations /\ cont' \in BOOLEAN
    <3>1. cont' \in BOOLEAN
      BY <1>t, <1>2, Zenon
    <3>2. count' \in 0..MaxDelegations
      BY <1>t, <1>2, TurnAssumption
    <3> QED
      BY <3>1, <3>2
  <2>2. Hit => hit' /\ hit' \in BOOLEAN /\ hits' \in 0..1
    BY <1>0 DEF Hit
  <2>3. CASE failed' = TRUE /\ changed' \in {changed, TRUE} /\ Hit /\ UNCHANGED results
    <3>1. Barred'
      BY <2>3, BarredFails
    <3>2. changed' \in BOOLEAN /\ failed' \in BOOLEAN
      BY <1>t, <2>3, Zenon
    <3> QED
      BY <1>b, <1>t, <2>1, <2>2, <2>3, <3>1, <3>2
  <2>4. CASE /\ \E r \in TeamResults :
                  /\ results' = Append(results, r)
                  /\ changed' = (changed \/ r.effect = "persisted")
                  /\ IF r.effect # "none" THEN Hit ELSE UNCHANGED <<hit, hits>>
             /\ UNCHANGED failed
    <3>1. PICK r \in TeamResults :
                  /\ results' = Append(results, r)
                  /\ changed' = (changed \/ r.effect = "persisted")
                  /\ IF r.effect # "none" THEN Hit ELSE UNCHANGED <<hit, hits>>
      BY <2>4
    <3>a. r \in Kept
      BY DEF Kept
    <3>2. results' \in Seq(Kept) /\ changed' \in BOOLEAN
      BY <1>t, <3>1, <3>a
    <3>3. /\ \A i \in DOMAIN results : i \in DOMAIN results' /\ results'[i] = results[i]
          /\ Len(results) + 1 \in DOMAIN results' /\ results'[Len(results) + 1] = r
      BY <1>t, <3>1, <3>a
    <3>4. Barred => Barred'
      BY <2>4, <3>3 DEF Barred
    <3>5. r.effect # "none" => Barred'
      BY <3>3 DEF Barred
    <3>6. hit' \in BOOLEAN /\ hits' \in 0..1 /\ (hits' = 1 => Barred' /\ hit')
      BY <1>0, <2>2, <3>1, <3>4, <3>5
    <3> QED
      BY <1>b, <1>t, <2>1, <2>4, <3>2, <3>6
  <2> QED
    BY <1>2, <2>3, <2>4 DEF TeamCall
<1>3. \/ count >= MaxDelegations /\ failed' = TRUE /\ UNCHANGED <<results, count, cont, trace>>
      \/ ~(count >= MaxDelegations) /\ count' = count + 1 /\ cont' \in {cont, TRUE} /\ TeamCall
  BY Zenon DEF Delegate
<1>4. ~(count >= MaxDelegations) => count < MaxDelegations
  BY <1>t, TurnAssumption
<1> QED
  BY <1>1, <1>2, <1>3, <1>4, Zenon

\* A step that leaves the results and the counts of effects alone.
LEMMA QuietTurnStep ==
  ASSUME OrchestratorInv, UNCHANGED <<results, failed, changed, hits>>,
         OrchestratorTypeOK', phase' \notin {"idle"} \cup (Answering \ {"approve", "reject", "ambiguous"}),
         phase' \in Answering => phase \in Answering,
         phase' # "tools" => calls' = 0 /\ ~ hit',
         phase' = "tools" => calls' = 0 \/ hits = 0
  PROVE  OrchestratorInv'
BY BarredKept DEF OrchestratorInv

\* The steps of the loop that add no effect, and the answer that is classified.
LEMMA LoopInv ==
  ASSUME OrchestratorInv,
         Receive \/ Prepare \/ DelegateStep \/ OtherStep \/ EndStep \/ LeaveLoop
           \/ RetryWithoutMemory \/ ClassifyAnswer
  PROVE  OrchestratorInv'
<1>0. /\ OrchestratorTypeOK /\ hits \in 0..1 /\ (hits = 1 => Barred)
      /\ (phase \notin {"idle", "tools"} => calls = 0 /\ ~hit) /\ (phase \in Answering => hits = 0)
  BY DEF OrchestratorInv, OrchestratorTypeOK
<1>1. CASE Receive
  <2>1. /\ <<>> \in Seq(Kept) /\ NoRun \in [kind : {"none", "confirm", "clarify"}, cont : BOOLEAN]
        /\ 0 \in 0..MaxDelegations /\ 0 \in 0..MaxCalls
    BY TurnAssumption DEF NoRun
  <2>2. stored.cont \in BOOLEAN /\ turns + 1 \in Nat
    BY <1>0 DEF OrchestratorTypeOK
  <2>3. OrchestratorTypeOK'
    BY <1>0, <1>1, <2>1, <2>2 DEF Receive, OrchestratorTypeOK, Answering, Generating
  <2> QED
    BY <1>1, <2>3 DEF Receive, OrchestratorInv, Answering
<1>2. CASE Prepare
  <2>1. OrchestratorTypeOK'
    BY <1>0, <1>2 DEF Prepare, RecordMemoryOutcome, trace, OrchestratorTypeOK, Generating
  <2> QED
    BY <1>0, <1>2, <2>1, QuietTurnStep DEF Prepare, trace, Answering
<1>3. CASE DelegateStep
  <2>1. CanDelegate => ~ Barred
    BY DEF CanDelegate, Barred
  <2>2. 1..MaxCalls \subseteq 0..MaxCalls
    BY TurnAssumption
  <2>3. OrchestratorTypeOK'
    BY <1>0, <1>3, <2>2 DEF DelegateStep, trace, OrchestratorTypeOK, Generating
  <2> QED
    BY <1>0, <1>3, <2>1, <2>3, QuietTurnStep DEF DelegateStep, trace, Answering
<1>4. CASE OtherStep
  <2>a. memory' \in {"ok", "degraded", "retried"}
    BY <1>0, <1>4 DEF OtherStep, RecordMemoryOutcome, OrchestratorTypeOK
  <2>b. proposal' \in BOOLEAN
    <3>1. proposal' \in {proposal, TRUE} \/ proposal' \in {proposal}
      BY <1>4, Zenon DEF OtherStep
    <3>2. proposal \in BOOLEAN
      BY <1>0 DEF OrchestratorTypeOK
    <3> QED
      BY <3>1, <3>2, Zenon
  <2>1. OrchestratorTypeOK'
    BY <1>0, <1>4, <2>a, <2>b DEF OtherStep, trace, OrchestratorTypeOK, Generating
  <2> QED
    BY <1>0, <1>4, <2>1, QuietTurnStep DEF OtherStep, trace, Answering
<1>5. CASE EndStep
  <2>1. steps + 1 \in Nat
    BY <1>0 DEF OrchestratorTypeOK
  <2>a. phase' \in {"unsubmitted", "step"} /\ hit' \in BOOLEAN
    <3>1. phase' \in {"unsubmitted", "step"}
      BY <1>5, Zenon DEF EndStep
    <3> QED
      BY <1>5, <3>1 DEF EndStep
  <2>b. /\ steps' \in Nat
        /\ UNCHANGED <<turns, stored, resumed, results, count, failed, cont, memory, proposal,
                       calls, changed, hits, reply>>
    BY <1>5, <2>1 DEF EndStep
  <2>2. OrchestratorTypeOK'
    BY <1>0, <2>a, <2>b DEF OrchestratorTypeOK, Generating
  <2> QED
    BY <1>0, <1>5, <2>2, QuietTurnStep DEF EndStep, Answering
<1>6. CASE LeaveLoop
  <2>1. OrchestratorTypeOK'
    BY <1>0, <1>6 DEF LeaveLoop, invocation, trace, OrchestratorTypeOK, Generating
  <2> QED
    BY <1>0, <1>6, <2>1, QuietTurnStep DEF LeaveLoop, invocation, trace, Answering
<1>7. CASE RetryWithoutMemory
  <2>1. OrchestratorTypeOK'
    BY <1>0, <1>7 DEF RetryWithoutMemory, trace, OrchestratorTypeOK, Generating
  <2> QED
    BY <1>0, <1>7, <2>1, QuietTurnStep DEF RetryWithoutMemory, trace, Answering
<1>8. CASE ClassifyAnswer
  <2>1. OrchestratorTypeOK'
    BY <1>0, <1>8 DEF ClassifyAnswer, invocation, trace, OrchestratorTypeOK, Answering
  <2> QED
    BY <1>0, <1>8, <2>1, QuietTurnStep DEF ClassifyAnswer, invocation, trace, Answering
<1> QED
  BY <1>1, <1>2, <1>3, <1>4, <1>5, <1>6, <1>7, <1>8

\* The change that the user approved, and the capture that waited for it.
LEMMA ApproveInv ==
  ASSUME OrchestratorInv, Approve \/ ContinueCapture
  PROVE  OrchestratorInv'
<1>0. OrchestratorTypeOK /\ hits = 0 /\ calls = 0 /\ ~ hit
  BY DEF OrchestratorInv, Approve, ContinueCapture, Answering
<1>1. results' \in Seq(Kept)
  <2>1. CASE Approve
    <3>1. /\ <<[status |-> "verified", effect |-> "persisted"]>> \in Seq(Kept)
          /\ <<[status |-> "failed", effect |-> "unresolved"]>> \in Seq(Kept)
      BY DEF Kept, TeamResults
    <3> QED
      BY <1>0, <2>1, <3>1 DEF Approve, OrchestratorTypeOK
  <2>2. CASE ContinueCapture
    <3>1. results' = results \/ \E r \in TeamResults : results' = Append(results, r)
      BY <2>2 DEF ContinueCapture
    <3>2. results \in Seq(Kept) /\ TeamResults \subseteq Kept
      BY <1>0 DEF OrchestratorTypeOK, Kept
    <3> QED
      BY <3>1, <3>2
  <2> QED
    BY <2>1, <2>2
<1>2. /\ phase' \in {"approved", "threw"} /\ changed' \in BOOLEAN
      /\ UNCHANGED <<turns, stored, resumed, count, failed, cont, memory, proposal, steps,
                     calls, reply, hit, hits>>
  BY <1>0 DEF Approve, ContinueCapture, trace, OrchestratorTypeOK
<1> QED
  BY <1>0, <1>1, <1>2 DEF OrchestratorInv, OrchestratorTypeOK, Answering

-----------------------------------------------------------------------------
\* Whatever the model calls, a turn that has had an effect is barred from more.
THEOREM OrchestratorInvariant == OrchestratorSpec => []OrchestratorInv
<1>1. OrchestratorInit => OrchestratorInv
  <2>1. <<>> \in Seq(Kept) /\ 0 \in 0..MaxDelegations /\ 0 \in 0..MaxCalls
    BY TurnAssumption
  <2> QED
    <3> SUFFICES ASSUME OrchestratorInit PROVE OrchestratorInv
      OBVIOUS
    <3>1. NoRun \in [kind : {"none", "confirm", "clarify"}, cont : BOOLEAN]
      BY DEF NoRun
    <3>2. OrchestratorTypeOK
      BY <2>1, <3>1 DEF OrchestratorInit, OrchestratorTypeOK
    <3> QED
      BY <3>2 DEF OrchestratorInit, OrchestratorInv, Answering
<1>2. OrchestratorInv /\ [OrchestratorNext]_turnVars => OrchestratorInv'
  <2> SUFFICES ASSUME OrchestratorInv, [OrchestratorNext]_turnVars PROVE OrchestratorInv'
    OBVIOUS
  <2>1. CASE Receive \/ Prepare \/ DelegateStep \/ OtherStep \/ EndStep \/ LeaveLoop
             \/ RetryWithoutMemory \/ ClassifyAnswer
    BY <2>1, LoopInv
  <2>2. CASE Delegate \/ Approve \/ ContinueCapture
    BY <2>2, DelegateInv, ApproveInv
  <2>3. CASE Recover \/ TurnFails \/ Submitted \/ ReportApproved \/ NotApproved \/ GiveUp
    <3>1. {"final", "memory_asked", "no_changes"} \subseteq Replies
      BY DEF Replies
    <3> QED
      BY <2>3, <3>1, ReportEnds
      DEF Recover, TurnFails, Submitted, ReportApproved, NotApproved, GiveUp, Throw
  <2>4. CASE UNCHANGED turnVars
    BY <2>4 DEF turnVars, invocation, trace, OrchestratorInv, OrchestratorTypeOK, Answering, Barred
  <2> QED
    BY <2>1, <2>2, <2>3, <2>4 DEF OrchestratorNext, TurnStep
<1> QED
  BY <1>1, <1>2, PTL DEF OrchestratorSpec

\* OrchestratorAgent lets no later step of a turn add to a change, a proposal or
\* a failure of an earlier one.
THEOREM EffectsInOneStepAlways == OrchestratorSpec => []EffectsInOneStep
<1>1. OrchestratorInv => EffectsInOneStep
  BY DEF OrchestratorInv, EffectsInOneStep
<1> QED
  BY <1>1, OrchestratorInvariant, PTL
=============================================================================
