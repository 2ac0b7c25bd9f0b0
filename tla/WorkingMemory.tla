---------------------------- MODULE WorkingMemory ----------------------------
(***************************************************************************)
(* The working memory of a household and the changes that its members      *)
(* confirm: PostgresPendingInteractionRepository, the conversation-turn    *)
(* router, the working-memory tools, and OrchestratorSessionMemory with    *)
(* its document and its mutex.                                             *)
(*                                                                         *)
(* Every message is a process.  The messages of a member come one after    *)
(* the other, but the turn of a message that was aborted goes on until it  *)
(* next calls the model, beside the turn of the following message.  A      *)
(* proposal is named after the message that made it, and so is the entry   *)
(* that it creates.  All entries belong to the household.                  *)
(***************************************************************************)
EXTENDS Naturals, FiniteSets

CONSTANTS
  Speakers,    \* members of the household, each in a conversation of their own
  Count,       \* number of messages of every member
  Operations,  \* kinds of change that are proposed
  Says,        \* what an entry says that a message writes, and the old entry
  Prompted,    \* members whose first message has left a proposal to answer
  MaxTroubles    \* bound on crashes, turns given up and statements that fail

ASSUME MemoryAssumption ==
  /\ Count \in [Speakers -> Nat]
  /\ Operations \subseteq {"create", "replace", "delete", "clear"}
  /\ Prompted \subseteq {s \in Speakers : Count[s] > 0}
  /\ MaxTroubles \in Nat

Messages == UNION {{s} \X (1..Count[s]) : s \in Speakers}
Speaker(m) == m[1]
Nobody == <<"none", 0>>
Entries == Messages \cup {<<"old", 0>>}

VARIABLES
  doc,      \* the stored document: who wrote an entry last
  row,      \* pending_interactions, by proposal
  passed,   \* proposals past their expiresAt
  turn,     \* the turn of a message
  mutex,    \* the turn that holds the mutex of the household
  written,  \* proposals whose mutation was written
  troubles

memoryVars == <<doc, row, passed, turn, mutex, written, troubles>>

OpenStatus == {"pending", "resolving"}
Empty == [e \in Entries |-> Nobody]
NoChange == [op |-> "none", entry |-> Nobody]

\* A turn: what it awaits, the interaction as it was read (its proposal, version,
\* change and the document this is based on), the decision of the message, the
\* outcome, the document that is being updated, and the proposals that had
\* expired when the turn began.
TurnAt(at) ==
  [at |-> at, id |-> Nobody, version |-> 0, late |-> FALSE, change |-> NoChange,
   base |-> Empty, decision |-> "none", result |-> "none", loaded |-> Empty,
   stale |-> {}, aborted |-> FALSE]

NoRow ==
  [status |-> "none", version |-> 0, by |-> Nobody, decision |-> "none",
   change |-> NoChange, base |-> Empty]

\* resolveWorkingMemoryMutation: what message m can make of document d.
Changes(m, d) ==
  [op : Operations \cap {"create"}, entry : {m}]
    \cup [op : Operations \cap {"replace", "delete"}, entry : {e \in Entries : d[e] # Nobody}]
    \cup [op : Operations \cap {"clear"}, entry : {Nobody}]

\* persistPendingWorkingMemoryInteraction: the row of a proposal.
Pending(c, d) == [NoRow EXCEPT !.status = "pending", !.change = c, !.base = d]

MemoryInit ==
  /\ doc = [Empty EXCEPT ![<<"old", 0>>] = <<"old", 0>>]
  /\ \E c \in [Prompted -> UNION {Changes(<<s, 1>>, doc) : s \in Prompted}] :
       /\ \A s \in Prompted : c[s] \in Changes(<<s, 1>>, doc)
       /\ row = [m \in Messages |-> IF m[2] = 1 /\ m[1] \in Prompted
                                    THEN Pending(c[m[1]], doc) ELSE NoRow]
  /\ passed = {}
  /\ turn = [m \in Messages |-> TurnAt(IF m[2] = 1 /\ m[1] \in Prompted THEN "done" ELSE "unsent")]
  /\ mutex = Nobody
  /\ written = {}
  /\ troubles = 0

-----------------------------------------------------------------------------
At(m, l) == turn[m].at = l
Move(m, t) == turn' = [turn EXCEPT ![m] = t]
Proceed(m, l) == Move(m, IF l = "done" THEN TurnAt(l) ELSE [turn[m] EXCEPT !.at = l])
Resolved(m, r) == Move(m, [turn[m] EXCEPT !.at = "reply", !.result = r])

MemoryFault == troubles < MaxTroubles /\ troubles' = troubles + 1

\* Rows of a member that are still open, expired or not.
OpenOf(s) == {p \in Messages : Speaker(p) = s /\ row[p].status \in OpenStatus}

\* The turn with the interaction that it has read.
Reading(t, p) ==
  [t EXCEPT !.id = p, !.version = row[p].version, !.late = p \in passed,
            !.change = row[p].change, !.base = row[p].base]

\* applyResolvedWorkingMemoryMutation.
Applied(d, c, p) ==
  IF c.op = "clear" THEN Empty
  ELSE [d EXCEPT ![c.entry] = IF c.op = "delete" THEN Nobody ELSE p]

\* workingMemoryMutationEffectIsPresent: the entry says what the proposal says,
\* whoever wrote it.
EffectIsPresent(d, c, p) ==
  CASE c.op = "clear" -> d = Empty
    [] c.op = "delete" -> d[c.entry] = Nobody
    [] OTHER -> d[c.entry] # Nobody /\ Says[d[c.entry]] = Says[p]

\* verifyWorkingMemoryReadback: what is there now was not there before.
ReadbackVerified(before, after, c, p) ==
  EffectIsPresent(after, c, p) /\ ~EffectIsPresent(before, c, p)

\* The proposal whose change the turn makes: its own, if it needs no answer.
Subject(m) == IF turn[m].id = Nobody THEN m ELSE turn[m].id

-----------------------------------------------------------------------------
(* runConversationTurn.                                                      *)

\* A member's next message; the one before it was answered or given up.
Send(m) ==
  /\ At(m, "unsent")
  /\ \A o \in Messages : Speaker(o) = Speaker(m) /\ o[2] < m[2] =>
       At(o, "done") \/ turn[o].aborted
  /\ Move(m, [turn[m] EXCEPT !.at = "replay", !.stale = passed])
  /\ UNCHANGED <<doc, row, passed, mutex, written, troubles>>

\* findByResolutionMessage: a message that was delivered before.
Replay(m) ==
  /\ At(m, "replay")
  /\ LET P == {p \in Messages : row[p].by = m} IN
     \/ P = {} /\ Proceed(m, "find")
     \/ \E p \in P : IF row[p].status = "resolving"
                     THEN Move(m, [Reading(turn[m], p) EXCEPT !.at = "recover"])
                     ELSE Proceed(m, "done")
  /\ UNCHANGED <<doc, row, passed, mutex, written, troubles>>

\* findOpen, and findExpired when there is none.
FindOpen(m) ==
  /\ At(m, "find")
  /\ LET P == OpenOf(Speaker(m)) IN
     \/ P = {} /\ Proceed(m, "inspect")
     \/ \E p \in P : Move(m, [Reading(turn[m], p) EXCEPT
                                 !.at = IF row[p].status = "resolving" /\ p \notin passed
                                        THEN "recover" ELSE "classify"])
  /\ UNCHANGED <<doc, row, passed, mutex, written, troubles>>

\* classifyPendingWorkingMemoryInput and the branches on its answer: a new
\* intent leaves the proposal as it is, unless it has expired.
ClassifyInput(m) ==
  /\ At(m, "classify")
  /\ \/ turn[m].aborted /\ Proceed(m, "done")
     \/ /\ ~turn[m].aborted
        /\ \/ /\ ~turn[m].late
              /\ Move(m, [TurnAt("inspect") EXCEPT !.stale = turn[m].stale])
           \/ /\ turn[m].late
              /\ Move(m, [turn[m] EXCEPT !.at = "reply", !.result = "expired",
                                           !.decision = "new_intent"])
           \/ \E d \in {"approve", "reject", "ambiguous"} :
                Move(m, [turn[m] EXCEPT
                            !.decision = d,
                            !.at = IF turn[m].late \/ d = "ambiguous" THEN "resolve" ELSE "claim"])
  /\ UNCHANGED <<doc, row, passed, mutex, written, troubles>>

\* claim: one message takes the interaction, at the version that it has read.
Claim(m) ==
  LET p == turn[m].id IN
  /\ At(m, "claim")
  /\ IF row[p].status = "pending" /\ row[p].version = turn[m].version
     THEN /\ row' = [row EXCEPT ![p].status = "resolving", ![p].version = @ + 1,
                                ![p].by = m, ![p].decision = turn[m].decision]
          /\ Move(m, [turn[m] EXCEPT !.at = "resolve", !.version = @ + 1])
     ELSE Proceed(m, "done") /\ UNCHANGED row
  /\ UNCHANGED <<doc, passed, mutex, written, troubles>>

\* (seeded fault: the time limit is not checked again before the change)
ResolveWithoutExpiry(m) ==
  /\ At(m, "resolve")
  /\ IF turn[m].decision = "reject" THEN Resolved(m, "rejected")
     ELSE Proceed(m, IF turn[m].decision = "ambiguous" THEN "done" ELSE "lock")
  /\ UNCHANGED <<doc, row, passed, mutex, written, troubles>>

\* resolvePendingWorkingMemoryMutation up to the change itself.
ResolvePending(m) ==
  /\ At(m, "resolve")
  /\ IF turn[m].id \in passed THEN Resolved(m, "expired")
     ELSE IF turn[m].decision = "reject" THEN Resolved(m, "rejected")
     ELSE Proceed(m, IF turn[m].decision = "ambiguous" THEN "done" ELSE "lock")
  /\ UNCHANGED <<doc, row, passed, mutex, written, troubles>>

\* recoverResolvingInteraction: what an earlier turn left behind.
Recover(m) ==
  LET p == turn[m].id
      t == [turn[m] EXCEPT !.decision = row[p].decision] IN
  /\ At(m, "recover")
  /\ Move(m, IF p \in passed THEN [t EXCEPT !.at = "reply", !.result = "expired"]
               ELSE [t EXCEPT !.at = IF t.decision = "reject" THEN "resolve" ELSE "examine"])
  /\ UNCHANGED <<doc, row, passed, mutex, written, troubles>>

\* (seeded fault: a document that has changed is taken for the change itself)
ExamineRevisionOnly(m) ==
  /\ At(m, "examine")
  /\ mutex = Nobody
  /\ IF doc # turn[m].base THEN Resolved(m, "applied") ELSE Proceed(m, "resolve")
  /\ UNCHANGED <<doc, row, passed, mutex, written, troubles>>

\* The document tells whether the change was made, or can still be made.
Examine(m) ==
  LET t == turn[m] IN
  /\ At(m, "examine")
  /\ mutex = Nobody
  /\ \/ /\ IF EffectIsPresent(doc, t.change, t.id) THEN Resolved(m, "applied")
           ELSE IF doc # t.base THEN Resolved(m, "stale")
           ELSE Proceed(m, "resolve")
        /\ UNCHANGED troubles
     \/ MemoryFault /\ Resolved(m, "failed")
  /\ UNCHANGED <<doc, row, passed, mutex, written>>

-----------------------------------------------------------------------------
(* OrchestratorSessionMemory: a change, under the mutex of the household.    *)

\* (seeded fault: updates do not wait for each other)
LoadWithoutMutex(m) ==
  /\ At(m, "lock")
  /\ Move(m, [turn[m] EXCEPT !.at = "write", !.loaded = doc])
  /\ UNCHANGED <<doc, row, passed, mutex, written, troubles>>

\* The document is read, or cannot be.
Load(m) ==
  /\ At(m, "lock")
  /\ mutex = Nobody
  /\ \/ /\ mutex' = m
        /\ Move(m, [turn[m] EXCEPT !.at = "write", !.loaded = doc])
        /\ UNCHANGED troubles
     \/ MemoryFault /\ Resolved(m, "failed") /\ UNCHANGED mutex
  /\ UNCHANGED <<doc, row, passed, written>>

Release == mutex' = Nobody

\* The revision is compared, and the whole document is written.
Write(m) ==
  LET t == turn[m] IN
  /\ At(m, "write")
  /\ \/ t.loaded # t.base /\ Release /\ Resolved(m, "stale") /\ UNCHANGED <<doc, written, troubles>>
     \/ /\ t.loaded = t.base
        /\ doc' = Applied(t.loaded, t.change, Subject(m))
        /\ written' = written \cup {Subject(m)}
        /\ Proceed(m, "readback")
        /\ UNCHANGED <<mutex, troubles>>
     \/ /\ t.loaded = t.base
        /\ MemoryFault /\ Release /\ Resolved(m, "failed") /\ UNCHANGED <<doc, written>>
  /\ UNCHANGED <<row, passed>>

\* verifyWorkingMemoryReadback, or the read fails.
Readback(m) ==
  /\ At(m, "readback")
  /\ Release
  /\ \/ /\ Resolved(m, IF ReadbackVerified(turn[m].loaded, doc, turn[m].change, Subject(m))
                       THEN "applied" ELSE "failed")
        /\ UNCHANGED troubles
     \/ MemoryFault /\ Resolved(m, "failed")
  /\ UNCHANGED <<doc, row, passed, written>>

\* The reply is generated; an aborted turn does not get past this call.
Reply(m) ==
  /\ At(m, "reply")
  /\ Proceed(m, IF turn[m].aborted \/ turn[m].id = Nobody THEN "done" ELSE "record")
  /\ UNCHANGED <<doc, row, passed, mutex, written, troubles>>

\* The WHERE of expire and of complete: the version that the turn knows.
MayExpire(p, t) ==
  row[p].status \in OpenStatus /\ p \in passed /\ row[p].version = t.version
MayComplete(p, t) == row[p].status = "resolving" /\ row[p].version = t.version

\* (seeded fault: the outcome is recorded whatever has happened to the row)
RecordAnyway(m) ==
  /\ At(m, "record")
  /\ row' = [row EXCEPT ![turn[m].id].status = turn[m].result, ![turn[m].id].version = @ + 1]
  /\ Proceed(m, "done")
  /\ UNCHANGED <<doc, passed, mutex, written, troubles>>

\* completeIfTerminal: complete or expire, unless the row has moved on.  A turn
\* with an intent of its own goes on with it, unless the row has no outcome yet,
\* which ends it.
Record(m) ==
  LET p == turn[m].id
      t == turn[m]
      moved == ~IF t.result = "expired" THEN MayExpire(p, t) ELSE MayComplete(p, t)
  IN
  /\ At(m, "record")
  /\ row' = IF moved THEN row
            ELSE [row EXCEPT ![p].status = t.result, ![p].version = @ + 1,
                             ![p].by = IF @ = Nobody THEN m ELSE @]
  /\ IF t.decision = "new_intent" /\ (moved => row[p].status \notin OpenStatus)
     THEN Move(m, [TurnAt("inspect") EXCEPT !.stale = t.stale, !.aborted = t.aborted])
     ELSE Proceed(m, "done")
  /\ UNCHANGED <<doc, passed, mutex, written, troubles>>

-----------------------------------------------------------------------------
(* The tools of a normal turn.                                               *)

\* inspectWorkingMemory; a turn may end without touching the memory.
Inspect(m) ==
  /\ At(m, "inspect")
  /\ mutex = Nobody
  /\ \/ ~turn[m].aborted /\ Move(m, [turn[m] EXCEPT !.at = "mutate", !.base = doc])
     \/ Proceed(m, "done")
  /\ UNCHANGED <<doc, row, passed, mutex, written, troubles>>

\* mutateWorkingMemory: all but some new entries have to be confirmed.
Mutate(m) ==
  /\ At(m, "mutate")
  /\ \/ turn[m].aborted /\ Proceed(m, "done")
     \/ /\ ~turn[m].aborted
        /\ \E c \in Changes(m, turn[m].base), l \in {"validate", "lock"} :
             /\ l = "lock" => c.op = "create"
             /\ Move(m, [turn[m] EXCEPT !.at = l, !.change = c])
  /\ UNCHANGED <<doc, row, passed, mutex, written, troubles>>

\* proposeWorkingMemory: a new or a better fact, always to be confirmed.
Propose(m) ==
  /\ At(m, "mutate")
  /\ ~turn[m].aborted
  /\ \E c \in Changes(m, turn[m].base) :
       /\ c.op \in {"create", "replace"}
       /\ Move(m, [turn[m] EXCEPT !.at = "validate", !.change = c])
  /\ UNCHANGED <<doc, row, passed, mutex, written, troubles>>

\* validateWorkingMemoryMutation.
Validate(m) ==
  /\ At(m, "validate")
  /\ mutex = Nobody
  /\ Proceed(m, IF doc = turn[m].base THEN "persist" ELSE "done")
  /\ UNCHANGED <<doc, row, passed, mutex, written, troubles>>

\* create: one open interaction per member.
Persist(m) ==
  /\ At(m, "persist")
  /\ row' = IF turn[m].aborted \/ OpenOf(Speaker(m)) # {} THEN row
            ELSE [row EXCEPT ![m] = Pending(turn[m].change, turn[m].base)]
  /\ Proceed(m, "done")
  /\ UNCHANGED <<doc, passed, mutex, written, troubles>>

-----------------------------------------------------------------------------
Running == {m \in Messages : turn[m].at \notin {"unsent", "done"}}

\* A quarter of an hour passes.
ExpireProposal(p) ==
  /\ row[p].status \in OpenStatus
  /\ p \notin passed
  /\ passed' = passed \cup {p}
  /\ UNCHANGED <<doc, row, turn, mutex, written, troubles>>

\* The gateway gives a turn up.
AbortTurn(m) ==
  /\ m \in Running
  /\ ~turn[m].aborted
  /\ MemoryFault
  /\ Move(m, [turn[m] EXCEPT !.aborted = TRUE])
  /\ UNCHANGED <<doc, row, passed, mutex, written>>

\* The process dies; a message that was not answered may be delivered again.  One
\* that has written by itself would make a proposal of another name, and is not.
Stop ==
  /\ MemoryFault
  /\ Running # {}
  /\ \E S \in SUBSET {m \in Running : ~turn[m].aborted /\ m \notin written} :
       turn' = [m \in Messages |->
                 IF m \in S THEN [TurnAt("replay") EXCEPT !.stale = passed]
                 ELSE IF m \in Running THEN TurnAt("done") ELSE turn[m]]
  /\ Release
  /\ UNCHANGED <<doc, row, passed, written>>

MessageStep(m) ==
  \/ Replay(m) \/ FindOpen(m) \/ ClassifyInput(m) \/ Claim(m) \/ ResolvePending(m)
  \/ Recover(m) \/ Examine(m) \/ Load(m) \/ Write(m) \/ Readback(m) \/ Reply(m)
  \/ Record(m) \/ Inspect(m) \/ Mutate(m) \/ Propose(m) \/ Validate(m) \/ Persist(m)

MemoryNext ==
  \/ \E m \in Messages : Send(m) \/ MessageStep(m) \/ AbortTurn(m) \/ ExpireProposal(m)
  \/ Stop

MemorySpec == MemoryInit /\ [][MemoryNext]_memoryVars

-----------------------------------------------------------------------------
(* What the state consists of, and why an answer reaches the document as it  *)
(* was given.                                                                *)

Documents == [Entries -> Entries \cup {Nobody}]
ProperChanges ==
  [op : {"create", "replace", "delete"}, entry : Entries] \cup [op : {"clear"}, entry : {Nobody}]
Results == {"applied", "failed", "stale", "expired", "rejected"}

\* Where a turn has no interaction, has one, makes a change, and holds the mutex.
Alone == {"unsent", "replay", "find", "inspect", "mutate", "validate", "persist", "done"}
Answering == {"classify", "claim", "resolve", "recover", "examine", "record"}
Changing == {"lock", "write", "readback"}
Holding == {"write", "readback"}

Turn ==
  [at : Alone \cup Answering \cup Changing \cup {"reply"}, id : Messages \cup {Nobody},
   version : Nat, late : BOOLEAN, change : ProperChanges \cup {NoChange}, base : Documents,
   decision : {"none", "approve", "reject", "ambiguous", "new_intent"},
   result : Results \cup {"none"}, loaded : Documents, stale : SUBSET Messages,
   aborted : BOOLEAN]

Row ==
  [status : OpenStatus \cup Results \cup {"none"}, version : Nat, by : Messages \cup {Nobody},
   decision : {"none", "approve", "reject"}, change : ProperChanges \cup {NoChange},
   base : Documents]

MemoryTypeOK ==
  /\ doc \in Documents
  /\ row \in [Messages -> Row]
  /\ passed \in SUBSET Messages
  /\ turn \in [Messages -> Turn]
  /\ mutex \in Messages \cup {Nobody}
  /\ written \in SUBSET Messages
  /\ troubles \in 0..MaxTroubles

\* Somebody has written the removal of an entry.
Removed(e) ==
  \E q \in written :
    /\ row[q].status # "none"
    /\ \/ row[q].change.op = "clear"
       \/ row[q].change.op = "delete" /\ row[q].change.entry = e

\* The change was written, or others have written what comes to the same: an entry
\* that says the same, or the removal of all that there was to remove.
Achieved(p) ==
  LET c == row[p].change IN
  \/ p \in written
  \/ c.op = "replace" /\ \E w \in written \cup {<<"old", 0>>} : Says[w] = Says[p]
  \/ c.op = "delete" /\ Removed(c.entry)
  \/ c.op = "clear" /\ \A e \in Entries : row[p].base[e] # Nobody => Removed(e)

\* What has vanished from document d was removed.
Kept(d) == \A e \in Entries : d[e] # Nobody => doc[e] # Nobody \/ Removed(e)

\* A row keeps the one answer that it was claimed with, from a message of its own
\* member; what was written was approved, and what is told as done was achieved.
RowTrue(p) ==
  LET r == row[p] IN
  /\ r.status \in {"none", "pending"} => r.decision = "none"
  /\ r.status # "none" => r.change \in Changes(p, r.base)
  /\ r.status = "resolving" => r.decision # "none"
  /\ r.status = "rejected" => r.decision = "reject"
  /\ r.status = "applied" => Achieved(p)
  /\ r.status # "none" /\ p \in written => r.decision = "approve"
  /\ r.by # Nobody => Speaker(r.by) = Speaker(p)

\* An interaction that a turn has read is its member's, and its change does not
\* change any more.
InteractionTrue(m) ==
  LET t == turn[m] IN
  /\ t.at \in Alone => t.id = Nobody
  /\ t.at \in Answering => t.id # Nobody
  /\ t.id # Nobody =>
       /\ Speaker(t.id) = Speaker(m)
       /\ row[t.id].status # "none"
       /\ t.change = row[t.id].change /\ t.base = row[t.id].base
       /\ t.late => t.id \in passed

\* A turn that acts on an answer acts on the answer in the row, and it changes the
\* document only after an approval in time.
AnswerTrue(m) ==
  LET t == turn[m] IN
  /\ t.at = "claim" => t.decision \in {"approve", "reject"}
  /\ t.at = "recover" => row[t.id].decision # "none"
  /\ t.at = "resolve" =>
       \/ t.id \in passed \/ t.decision = "ambiguous"
       \/ t.decision \in {"approve", "reject"} /\ row[t.id].decision = t.decision
  /\ t.at = "examine" => t.decision = "approve" /\ row[t.id].decision = "approve"
  /\ t.at \in Changing /\ t.id # Nobody => row[t.id].decision = "approve" /\ t.id \notin t.stale
  /\ t.at \in {"reply", "record"} =>
       /\ t.result # "none"
       /\ t.id # Nobody /\ t.result = "rejected" => row[t.id].decision = "reject"
       /\ t.id # Nobody /\ t.result = "applied" => Achieved(t.id)

\* One turn at a time is between loading the document and reading it back; a message
\* that has a proposal is done, and one that has written by itself makes none.
TurnTrue(m) ==
  LET t == turn[m] IN
  /\ t.stale \subseteq passed
  /\ t.at \in Holding => mutex = m
  /\ t.at = "write" => t.loaded = doc
  /\ t.at \in Changing \cup {"validate", "persist"} => t.change \in Changes(Subject(m), t.base)
  /\ t.at \in Changing /\ t.id = Nobody => t.change.op = "create"
  /\ row[m].status # "none" => t.at = "done"
  /\ row[m].status = "none" /\ m \in written =>
       t.at = "done" \/ (t.at \in {"readback", "reply"} /\ t.id = Nobody)

\* An entry of the document was created, and whoever wrote it last has written.
EntriesWritten ==
  \A e \in Entries : doc[e] # Nobody =>
    {e, doc[e]} \subseteq written \cup {<<"old", 0>>}

\* No change is based on an entry that vanished by itself.
BasesKept ==
  \A m \in Messages : Kept(turn[m].base) /\ (row[m].status # "none" => Kept(row[m].base))

MemoryInv ==
  /\ MemoryTypeOK
  /\ EntriesWritten /\ BasesKept
  /\ \A m \in Messages : RowTrue(m) /\ InteractionTrue(m) /\ AnswerTrue(m) /\ TurnTrue(m)

-----------------------------------------------------------------------------
(* Properties.                                                               *)

\* A write finds the document exactly as it was when the change was proposed, so
\* that it undoes nothing that another member has saved since.
WritesOnWhatWasShown ==
  [][doc' # doc => \E m \in Messages : At(m, "write") /\ doc = turn[m].base]_memoryVars

\* A proposal that waits for an answer is written only when its member approved
\* it, in a turn that began before it expired.
ApprovedInTime ==
  [][\A p \in written' \ written :
       row[p].status # "none" =>
         /\ row[p].decision = "approve"
         /\ \E m \in Messages : /\ At(m, "write")
                                /\ Speaker(m) = Speaker(p)
                                /\ p \notin turn[m].stale]_memoryVars

\* The outcome that is recorded and told again is true as far as it claims success
\* or a refusal, although a recovery takes it from the document alone: "applied"
\* was written, or others have written what comes to the same, and "rejected"
\* never was.
RecordIsTrue ==
  \A p \in Messages :
    /\ row[p].status = "applied" => Achieved(p)
    /\ row[p].status = "rejected" => p \notin written

\* What a turn has recorded as the outcome stays, although a turn that was given up
\* may still be at work on the same interaction.
OutcomeIsFinal ==
  [][\A p \in Messages :
       row[p].status \notin OpenStatus \cup {"none"} => row'[p].status = row[p].status]_memoryVars
=============================================================================
