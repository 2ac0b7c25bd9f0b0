------------------------- MODULE WorkingMemoryProofs -------------------------
(***************************************************************************)
(* Proofs about WorkingMemory: for any members, messages and kinds of      *)
(* change, a write finds the document as the member was shown it, a change *)
(* that waits for an answer is written only after an approval in time, an  *)
(* outcome that is recorded stays, and it is true.                         *)
(***************************************************************************)
EXTENDS WorkingMemory, TLAPS

-----------------------------------------------------------------------------
(* The parts of the state.                                                   *)

\* Nobody and the old entry are no messages.
LEMMA Names ==
  /\ Nobody \notin Messages /\ <<"old", 0>> \notin Messages
  /\ Messages \subseteq Entries /\ Nobody \notin Entries
BY MemoryAssumption DEF Nobody, Messages, Entries

\* An empty document is a document, and so is what a change makes of one.
LEMMA EmptyDocument == Empty \in Documents
BY DEF Empty, Documents

\* A change makes a document of a document.
LEMMA AppliedDocument ==
  ASSUME NEW d \in Documents, NEW c, NEW p \in Messages
  PROVE  Applied(d, c, p) \in Documents
BY Names, EmptyDocument DEF Applied, Documents

\* An entry of the changed document is of the proposal, or was there before.
LEMMA AppliedEntries ==
  ASSUME NEW d \in Documents, NEW c, NEW p \in Messages, NEW e \in Entries,
         Applied(d, c, p)[e] \in Messages
  PROVE  Applied(d, c, p)[e] = p \/ Applied(d, c, p)[e] = d[e]
BY Names DEF Applied, Documents, Empty

\* What a message can make of a document is a change.
LEMMA ChangesProper == \A m \in Messages : \A d : Changes(m, d) \subseteq ProperChanges
BY Names DEF Changes, ProperChanges

\* What a change asks of the document that it is based on, by its kind.
LEMMA ChangeKinds ==
  ASSUME NEW m \in Messages, NEW d \in Documents, NEW c \in Changes(m, d)
  PROVE  \/ c.op = "create" /\ c.entry = m /\ c.entry \in Entries
         \/ c.op \in {"replace", "delete"} /\ c.entry \in Entries /\ d[c.entry] # Nobody
         \/ c.op = "clear"
BY Names DEF Changes

\* Every field of a new turn is in its range.
LEMMA TurnAtType ==
  ASSUME NEW l \in Alone \cup Answering \cup Changing \cup {"reply"}
  PROVE  TurnAt(l) \in Turn
BY EmptyDocument DEF TurnAt, Turn, NoChange

\* A message that does not exist has no row, and a row begins as a pending one.
LEMMA RowTypes ==
  /\ NoRow \in Row
  /\ \A c \in ProperChanges, d \in Documents :
       /\ Pending(c, d) \in Row
       /\ Pending(c, d).status = "pending" /\ Pending(c, d).decision = "none"
       /\ Pending(c, d).change = c /\ Pending(c, d).base = d /\ Pending(c, d).by = Nobody
<1>1. NoRow \in Row
  BY EmptyDocument DEF NoRow, Row, NoChange
<1>2. ASSUME NEW c \in ProperChanges, NEW d \in Documents
      PROVE  /\ Pending(c, d) \in Row
             /\ Pending(c, d).status = "pending" /\ Pending(c, d).decision = "none"
             /\ Pending(c, d).change = c /\ Pending(c, d).base = d /\ Pending(c, d).by = Nobody
  BY EmptyDocument DEF NoRow, Pending, Row, OpenStatus
<1> QED
  BY <1>1, <1>2

\* What a turn that moves on keeps.
Keeps(m) ==
  /\ turn'[m].id = turn[m].id /\ turn'[m].change = turn[m].change
  /\ turn'[m].base = turn[m].base /\ turn'[m].loaded = turn[m].loaded
  /\ turn'[m].stale = turn[m].stale /\ turn'[m].late = turn[m].late

\* A turn that proceeds keeps what it knows.
LEMMA Proceeds ==
  ASSUME NEW m \in Messages, turn \in [Messages -> Turn],
         NEW l \in Alone \cup Answering \cup Changing \cup {"reply"},
         l # "done", Proceed(m, l)
  PROVE  /\ turn' \in [Messages -> Turn]
         /\ turn'[m].at = l /\ Keeps(m)
         /\ turn'[m].decision = turn[m].decision /\ turn'[m].result = turn[m].result
BY DEF Proceed, Move, Turn, Keeps

\* A turn that is told an outcome keeps what it knows.
LEMMA Resolves ==
  ASSUME NEW m \in Messages, turn \in [Messages -> Turn], NEW r \in Results, Resolved(m, r)
  PROVE  /\ turn' \in [Messages -> Turn]
         /\ turn'[m].at = "reply" /\ Keeps(m)
         /\ turn'[m].decision = turn[m].decision /\ turn'[m].result = r
<1>1. turn[m] \in Turn
  OBVIOUS
<1>2. turn' = [turn EXCEPT ![m] = [turn[m] EXCEPT !.at = "reply", !.result = r]]
  BY DEF Resolved, Move
<1>3. [turn[m] EXCEPT !.at = "reply", !.result = r] \in Turn
  BY <1>1 DEF Turn
<1>4. turn' \in [Messages -> Turn]
  BY <1>2, <1>3
<1>5. turn'[m] = [turn[m] EXCEPT !.at = "reply", !.result = r]
  BY <1>2
<1> QED
  BY <1>1, <1>4, <1>5 DEF Keeps, Turn

-----------------------------------------------------------------------------
(* What a step of one message leaves of the others.                          *)

\* A step of m moves the turn of m alone.
OnlyTurn(m) ==
  /\ turn' \in [Messages -> Turn]
  /\ \A n \in Messages \ {m} : turn'[n] = turn[n]

\* What m may do to the rows, the clock, the document and the mutex, so that the
\* turns of other messages know as much as before.
Shared(m) ==
  /\ \A p \in Messages : row[p].status # "none" =>
       row'[p].status # "none" /\ row'[p].change = row[p].change /\ row'[p].base = row[p].base
  /\ \A p \in Messages : row[p].decision # "none" => row'[p].decision = row[p].decision
  /\ \A p \in Messages \ {m} : row'[p].status # "none" => row[p].status # "none"
  /\ row[m].status = "none" => row'[m].status = "none" \/ row'[m].base = turn[m].base
  /\ \A p \in Messages : p \in written' => p \in written \cup {m} \/ row[p].status # "none"
  /\ passed \subseteq passed' /\ written \subseteq written'
  /\ mutex' # mutex => mutex \in {Nobody, m}
  /\ doc' # doc => mutex = m
  /\ \A e \in Entries : doc[e] # Nobody /\ doc'[e] = Nobody => Removed(e)'

\* What was removed and what was achieved stays so, and what was kept is kept.
LEMMA Lasting ==
  ASSUME MemoryInv, NEW m \in Messages, Shared(m)
  PROVE  /\ \A e \in Entries : Removed(e) => Removed(e)'
         /\ \A p \in Messages : row[p].status # "none" /\ Achieved(p) => Achieved(p)'
         /\ \A d \in Documents : Kept(d) => Kept(d)'
<1>1. \A e \in Entries : Removed(e) => Removed(e)'
  BY DEF Removed, Shared, MemoryInv, MemoryTypeOK
<1>2. ASSUME NEW p \in Messages, row[p].status # "none", Achieved(p)
      PROVE  Achieved(p)'
  <2>1. row'[p].change = row[p].change /\ row'[p].base = row[p].base /\ written \subseteq written'
    BY <1>2 DEF Shared
  <2>2. row[p].change.op = "delete" => row[p].change.entry \in Entries
    <3>1. row[p].base \in Documents /\ row[p].change \in Changes(p, row[p].base)
      BY <1>2 DEF MemoryInv, MemoryTypeOK, Row, RowTrue
    <3> QED
      BY <3>1, ChangeKinds
  <2> QED
    BY <1>1, <1>2, <2>1, <2>2 DEF Achieved
<1>3. ASSUME NEW d \in Documents, Kept(d)
      PROVE  Kept(d)'
  BY <1>1, <1>3 DEF Kept, Shared
<1> QED
  BY <1>1, <1>2, <1>3

\* What a step that leaves the document and the rows alone has achieved.
LEMMA SameAchieved ==
  ASSUME UNCHANGED <<doc, row, written>>
  PROVE  \A p : Achieved(p)' = Achieved(p)
BY DEF Achieved, Removed

\* Where the document of a turn comes from.
KnownBase(m) ==
  \/ turn'[m].base \in {turn[m].base, Empty, doc}
  \/ \E p \in Messages : row[p].status # "none" /\ turn'[m].base = row[p].base

\* A document that is empty, or the present one, has lost nothing.
LEMMA NothingLost == Kept(Empty) /\ Kept(doc)
BY DEF Kept, Empty

\* The other turns keep what the invariant says of them.
LEMMA OtherTurns ==
  ASSUME MemoryInv, NEW m \in Messages, OnlyTurn(m), Shared(m), NEW n \in Messages \ {m}
  PROVE  InteractionTrue(n)' /\ AnswerTrue(n)' /\ TurnTrue(n)'
<1>1. turn'[n] = turn[n] /\ turn[n] \in Turn
  BY DEF OnlyTurn, MemoryInv, MemoryTypeOK
<1>2. InteractionTrue(n) /\ AnswerTrue(n) /\ TurnTrue(n)
  BY DEF MemoryInv
<1>3. turn[n].id # Nobody => turn[n].id \in Messages
  BY <1>1 DEF Turn
<1>4. InteractionTrue(n)'
  BY <1>1, <1>2, <1>3 DEF InteractionTrue, Shared
<1>5. AnswerTrue(n)'
  <2>1. turn[n].at \in {"claim", "recover", "resolve", "examine", "record"} => turn[n].id # Nobody
    BY <1>2 DEF InteractionTrue, Answering
  <2>2. turn[n].at \in {"reply", "record"} /\ turn[n].id # Nobody /\ turn[n].result = "applied" =>
          Achieved(turn[n].id)'
    BY <1>1, <1>2, <1>3, Lasting DEF AnswerTrue, InteractionTrue
  <2> QED
    BY <1>1, <1>2, <1>3, <2>1, <2>2 DEF AnswerTrue, Shared
<1>6. TurnTrue(n)'
  <2>1. turn[n].at \in Holding => mutex = n /\ mutex' = mutex /\ doc' = doc
    BY <1>2, Names DEF TurnTrue, Shared
  <2>2. "write" \in Holding
    BY DEF Holding
  <2> QED
    BY <1>1, <1>2, <2>1, <2>2 DEF TurnTrue, Shared, Subject
<1> QED
  BY <1>4, <1>5, <1>6

\* A step of m that keeps what the invariant says of m, of the rows and of the
\* document keeps the invariant.
LEMMA MessageMoves ==
  ASSUME MemoryInv, NEW m \in Messages, OnlyTurn(m), Shared(m),
         InteractionTrue(m)', AnswerTrue(m)', TurnTrue(m)',
         KnownBase(m),
         doc' \in Documents, row' \in [Messages -> Row], passed' \in SUBSET Messages,
         mutex' \in Messages \cup {Nobody}, written' \in SUBSET Messages,
         troubles' \in 0..MaxTroubles,
         EntriesWritten', \A p \in Messages : RowTrue(p)'
  PROVE  MemoryInv'
<1>1. MemoryTypeOK'
  BY DEF MemoryTypeOK, OnlyTurn
<1>2. \A n \in Messages : InteractionTrue(n)' /\ AnswerTrue(n)' /\ TurnTrue(n)'
  BY OtherTurns
<1>3. \A n \in Messages : /\ turn[n].base \in Documents /\ Kept(turn[n].base)
                          /\ row[n].base \in Documents
                          /\ row[n].status # "none" => Kept(row[n].base)
  BY DEF MemoryInv, MemoryTypeOK, BasesKept, Turn, Row
<1>4. \A d \in Documents : Kept(d) => Kept(d)'
  BY Lasting
<1>5. Kept(Empty) /\ Kept(doc) /\ Empty \in Documents /\ doc \in Documents
  BY NothingLost, EmptyDocument DEF MemoryInv, MemoryTypeOK
<1>6. BasesKept'
  <2> SUFFICES ASSUME NEW n \in Messages
               PROVE  (Kept(turn[n].base) /\ (row[n].status # "none" => Kept(row[n].base)))'
    BY DEF BasesKept
  <2>1. turn'[n].base = turn[n].base \/ KnownBase(n)
    BY DEF OnlyTurn
  <2>2. row'[n].status # "none" =>
          \/ row[n].status # "none" /\ row'[n].base = row[n].base
          \/ row'[n].base = turn[n].base
    BY DEF Shared
  <2> QED
    BY <1>3, <1>4, <1>5, <2>1, <2>2 DEF KnownBase, Kept
<1> QED
  BY <1>1, <1>2, <1>6 DEF MemoryInv

\* Most steps move a turn and nothing else.
LEMMA TurnMoves ==
  ASSUME MemoryInv, NEW m \in Messages, OnlyTurn(m),
         UNCHANGED <<doc, row, passed, mutex, written>>, troubles' \in 0..MaxTroubles,
         KnownBase(m),
         InteractionTrue(m)', AnswerTrue(m)', TurnTrue(m)'
  PROVE  MemoryInv'
<1>1. Shared(m)
  BY DEF Shared
<1>2. EntriesWritten' /\ \A p \in Messages : RowTrue(p)'
  BY SameAchieved DEF MemoryInv, EntriesWritten, RowTrue
<1>3. /\ doc' \in Documents /\ row' \in [Messages -> Row] /\ passed' \in SUBSET Messages
      /\ mutex' \in Messages \cup {Nobody} /\ written' \in SUBSET Messages
  BY DEF MemoryInv, MemoryTypeOK
<1> QED
  BY <1>1, <1>2, <1>3, MessageMoves

\* A turn that is done knows nothing and holds nothing.
LEMMA TurnEnds ==
  ASSUME NEW m \in Messages, turn'[m] = TurnAt("done")
  PROVE  InteractionTrue(m)' /\ AnswerTrue(m)' /\ TurnTrue(m)'
<1>1. turn'[m].at = "done" /\ turn'[m].id = Nobody /\ turn'[m].stale = {}
  BY DEF TurnAt
<1> QED
  BY <1>1 DEF InteractionTrue, AnswerTrue, TurnTrue, Alone, Answering, Changing, Holding

\* Move puts one turn in place.
LEMMA Moves ==
  ASSUME MemoryInv, NEW m \in Messages, NEW t \in Turn, Move(m, t)
  PROVE  OnlyTurn(m) /\ turn'[m] = t
BY DEF Move, OnlyTurn, MemoryInv, MemoryTypeOK

\* Proceed moves one turn.
LEMMA ProceedsAlone ==
  ASSUME MemoryInv, NEW m \in Messages, NEW l, Proceed(m, l), turn' \in [Messages -> Turn]
  PROVE  OnlyTurn(m)
BY DEF Proceed, Move, OnlyTurn, MemoryInv, MemoryTypeOK

\* Resolved moves one turn.
LEMMA ResolvesAlone ==
  ASSUME MemoryInv, NEW m \in Messages, NEW r, Resolved(m, r), turn' \in [Messages -> Turn]
  PROVE  OnlyTurn(m)
BY DEF Resolved, Move, OnlyTurn, MemoryInv, MemoryTypeOK

\* A turn that has read an interaction is at a place of its own.
LEMMA Readings ==
  ASSUME MemoryInv, NEW t \in Turn, NEW p \in Messages, NEW l \in Answering
  PROVE  /\ [Reading(t, p) EXCEPT !.at = l] \in Turn
         /\ [Reading(t, p) EXCEPT !.at = l].at = l
         /\ [Reading(t, p) EXCEPT !.at = l].id = p
         /\ [Reading(t, p) EXCEPT !.at = l].change = row[p].change
         /\ [Reading(t, p) EXCEPT !.at = l].late = (p \in passed)
         /\ [Reading(t, p) EXCEPT !.at = l].stale = t.stale
         /\ [Reading(t, p) EXCEPT !.at = l].base = row[p].base
<1> DEFINE late == p \in passed
           u == [t EXCEPT !.id = p, !.version = row[p].version, !.late = late,
                          !.change = row[p].change, !.base = row[p].base]
<1>1. row[p] \in Row
  BY DEF MemoryInv, MemoryTypeOK
<1>2. /\ row[p].version \in Nat /\ row[p].base \in Documents
      /\ row[p].change \in ProperChanges \cup {NoChange}
  BY <1>1 DEF Row
<1>3. late \in BOOLEAN
  OBVIOUS
<1>4. Reading(t, p) = u
  BY DEF Reading
<1> HIDE DEF late
<1>5. /\ u \in Turn /\ u.id = p /\ u.change = row[p].change
      /\ u.late = late /\ u.stale = t.stale /\ u.base = row[p].base
  BY <1>2, <1>3 DEF Turn
<1> HIDE DEF u
<1>6. /\ [u EXCEPT !.at = l] \in Turn
      /\ [u EXCEPT !.at = l].at = l /\ [u EXCEPT !.at = l].id = u.id
      /\ [u EXCEPT !.at = l].change = u.change /\ [u EXCEPT !.at = l].late = u.late
      /\ [u EXCEPT !.at = l].stale = u.stale /\ [u EXCEPT !.at = l].base = u.base
  BY <1>5 DEF Turn
<1> QED
  BY <1>4, <1>5, <1>6 DEF late

-----------------------------------------------------------------------------
(* One lemma per step.                                                       *)

\* A turn ends and leaves everything else as it is.
LEMMA EndsInv ==
  ASSUME MemoryInv, NEW m \in Messages, Proceed(m, "done"),
         UNCHANGED <<doc, row, passed, mutex, written, troubles>>
  PROVE  MemoryInv'
<1>1. TurnAt("done") \in Turn
  BY TurnAtType DEF Alone
<1>2. Move(m, TurnAt("done"))
  BY DEF Proceed
<1>3. OnlyTurn(m) /\ turn'[m] = TurnAt("done")
  BY <1>1, <1>2, Moves
<1>4. InteractionTrue(m)' /\ AnswerTrue(m)' /\ TurnTrue(m)'
  BY <1>3, TurnEnds
<1>5. troubles' \in 0..MaxTroubles /\ KnownBase(m)
  BY <1>3 DEF MemoryInv, MemoryTypeOK, KnownBase, TurnAt
<1> QED
  BY <1>3, <1>4, <1>5, TurnMoves

\* A turn starts, or starts a new intent: it knows of no interaction.
LEMMA StartsInv ==
  ASSUME MemoryInv, NEW m \in Messages, turn[m].at # "done",
         NEW l \in {"replay", "inspect"}, OnlyTurn(m), turn'[m].at = l, turn'[m].id = Nobody,
         turn'[m].stale \subseteq passed, m \in written => row[m].status # "none",
         turn'[m].base \in {turn[m].base, Empty},
         UNCHANGED <<doc, row, passed, mutex, written, troubles>>
  PROVE  MemoryInv'
<1>1. InteractionTrue(m)' /\ AnswerTrue(m)'
  BY DEF InteractionTrue, AnswerTrue, Answering, Changing
<1>2. row[m].status = "none"
  BY DEF MemoryInv, TurnTrue
<1>3. TurnTrue(m)'
  BY <1>2 DEF TurnTrue, Holding, Changing
<1>4. troubles' \in 0..MaxTroubles /\ KnownBase(m)
  BY DEF MemoryInv, MemoryTypeOK, KnownBase
<1> QED
  BY <1>1, <1>3, <1>4, TurnMoves

\* A message is sent.
LEMMA SendInv ==
  ASSUME MemoryInv, NEW m \in Messages, Send(m)
  PROVE  MemoryInv'
<1> DEFINE t == [turn[m] EXCEPT !.at = "replay", !.stale = passed]
<1>1. turn[m] \in Turn /\ turn[m].at = "unsent" /\ passed \in SUBSET Messages
  BY DEF MemoryInv, MemoryTypeOK, Send, At
<1>2. /\ t \in Turn /\ t.at = "replay" /\ t.id = turn[m].id /\ t.stale = passed
      /\ t.base = turn[m].base
  BY <1>1 DEF Turn, Alone
<1>3. Move(m, t)
  BY DEF Send
<1> HIDE DEF t
<1>4. OnlyTurn(m) /\ turn'[m] = t
  BY <1>2, <1>3, Moves
<1>5. turn[m].id = Nobody /\ (m \in written => row[m].status # "none")
  BY <1>1 DEF MemoryInv, InteractionTrue, TurnTrue, Alone
<1> QED
  BY <1>1, <1>2, <1>4, <1>5, StartsInv DEF Send

\* A turn reads an open interaction of its member.
LEMMA ReadsInv ==
  ASSUME MemoryInv, NEW m \in Messages, turn[m].at \in {"replay", "find"},
         NEW p \in Messages, Speaker(p) = Speaker(m), row[p].status # "none",
         NEW l \in {"recover", "classify"}, l = "recover" => row[p].status = "resolving",
         Move(m, [Reading(turn[m], p) EXCEPT !.at = l]),
         UNCHANGED <<doc, row, passed, mutex, written, troubles>>
  PROVE  MemoryInv'
<1> DEFINE t == [Reading(turn[m], p) EXCEPT !.at = l]
<1>1. turn[m] \in Turn /\ l \in Answering
  BY DEF MemoryInv, MemoryTypeOK, Answering
<1>2. /\ t \in Turn /\ t.at = l /\ t.id = p /\ t.change = row[p].change
      /\ t.late = (p \in passed) /\ t.stale = turn[m].stale /\ t.base = row[p].base
  BY <1>1, Readings
<1> HIDE DEF t
<1>3. OnlyTurn(m) /\ turn'[m] = t
  BY <1>2, Moves DEF t
<1>4. InteractionTrue(m)'
  BY <1>2, <1>3, Names DEF InteractionTrue, Alone, Answering
<1>5. AnswerTrue(m)'
  BY <1>2, <1>3 DEF AnswerTrue, Changing, MemoryInv, RowTrue
<1>6. TurnTrue(m)'
  BY <1>2, <1>3 DEF TurnTrue, Holding, Changing, MemoryInv
<1>7. troubles' \in 0..MaxTroubles /\ KnownBase(m)
  BY <1>2, <1>3 DEF MemoryInv, MemoryTypeOK, KnownBase
<1> QED
  BY <1>3, <1>4, <1>5, <1>6, <1>7, TurnMoves

\* A turn that knows of no interaction goes on without one.
LEMMA GoesOnAlone ==
  ASSUME MemoryInv, NEW m \in Messages, turn[m].at \in {"replay", "find"},
         NEW l \in {"find", "inspect"}, Proceed(m, l),
         UNCHANGED <<doc, row, passed, mutex, written, troubles>>
  PROVE  MemoryInv'
<1>1. turn \in [Messages -> Turn] /\ l \in Alone /\ l # "done"
  BY DEF MemoryInv, MemoryTypeOK, Alone
<1>2. turn' \in [Messages -> Turn] /\ turn'[m].at = l /\ Keeps(m)
  BY <1>1, Proceeds
<1>3. OnlyTurn(m)
  BY <1>2, ProceedsAlone
<1>4. /\ turn[m].id = Nobody /\ turn[m].stale \subseteq passed
      /\ row[m].status = "none" /\ m \notin written
  BY DEF MemoryInv, InteractionTrue, TurnTrue, Alone
<1>5. InteractionTrue(m)' /\ AnswerTrue(m)'
  BY <1>2, <1>4 DEF InteractionTrue, AnswerTrue, Keeps, Answering, Changing
<1>6. TurnTrue(m)'
  BY <1>2, <1>4 DEF TurnTrue, Keeps, Holding, Changing
<1>7. troubles' \in 0..MaxTroubles /\ KnownBase(m)
  BY <1>2 DEF MemoryInv, MemoryTypeOK, KnownBase, Keeps
<1> QED
  BY <1>3, <1>5, <1>6, <1>7, TurnMoves

\* A message that was delivered before is looked up.
LEMMA ReplayInv ==
  ASSUME MemoryInv, NEW m \in Messages, Replay(m)
  PROVE  MemoryInv'
<1>1. turn[m].at = "replay" /\ UNCHANGED <<doc, row, passed, mutex, written, troubles>>
  BY DEF Replay, At
<1>2. CASE Proceed(m, "find")
  BY <1>1, <1>2, GoesOnAlone
<1>3. CASE Proceed(m, "done")
  BY <1>1, <1>3, EndsInv
<1>4. ASSUME NEW p \in Messages, row[p].by = m, row[p].status = "resolving",
             Move(m, [Reading(turn[m], p) EXCEPT !.at = "recover"])
      PROVE  MemoryInv'
  <2>1. Speaker(p) = Speaker(m)
    BY <1>4, Names DEF MemoryInv, RowTrue
  <2> QED
    BY <1>1, <1>4, <2>1, ReadsInv
<1> QED
  BY <1>2, <1>3, <1>4 DEF Replay

\* The open interaction of the member is looked up.
LEMMA FindOpenInv ==
  ASSUME MemoryInv, NEW m \in Messages, FindOpen(m)
  PROVE  MemoryInv'
<1>1. turn[m].at = "find" /\ UNCHANGED <<doc, row, passed, mutex, written, troubles>>
  BY DEF FindOpen, At
<1>2. CASE Proceed(m, "inspect")
  BY <1>1, <1>2, GoesOnAlone
<1>3. ASSUME NEW p \in OpenOf(Speaker(m)), NEW l \in {"recover", "classify"},
             l = "recover" => row[p].status = "resolving",
             Move(m, [Reading(turn[m], p) EXCEPT !.at = l])
      PROVE  MemoryInv'
  <2>1. p \in Messages /\ Speaker(p) = Speaker(m) /\ row[p].status # "none"
    BY <1>3 DEF OpenOf, OpenStatus
  <2> QED
    BY <1>1, <1>3, <2>1, ReadsInv
<1>4. CASE \E p \in OpenOf(Speaker(m)) :
             Move(m, [Reading(turn[m], p) EXCEPT
                        !.at = IF row[p].status = "resolving" /\ p \notin passed
                               THEN "recover" ELSE "classify"])
  <2>1. PICK p \in OpenOf(Speaker(m)) :
             Move(m, [Reading(turn[m], p) EXCEPT
                        !.at = IF row[p].status = "resolving" /\ p \notin passed
                               THEN "recover" ELSE "classify"])
    BY <1>4
  <2>2. CASE row[p].status = "resolving" /\ p \notin passed
    BY <1>3, <2>1, <2>2
  <2>3. CASE ~(row[p].status = "resolving" /\ p \notin passed)
    BY <1>3, <2>1, <2>3
  <2> QED
    BY <2>2, <2>3
<1> QED
  BY <1>2, <1>4 DEF FindOpen

\* A turn that has an interaction stays with it.
LEMMA StaysInv ==
  ASSUME MemoryInv, NEW m \in Messages,
         turn[m].at \in Answering, OnlyTurn(m), Keeps(m),
         turn'[m].at \in {"claim", "resolve", "examine", "lock", "reply", "record"},
         AnswerTrue(m)', UNCHANGED <<doc, row, passed, mutex, written>>,
         troubles' \in 0..MaxTroubles
  PROVE  MemoryInv'
<1>1. InteractionTrue(m) /\ TurnTrue(m) /\ turn[m] \in Turn
  BY DEF MemoryInv, MemoryTypeOK
<1>2. turn[m].id # Nobody /\ turn[m].id \in Messages
  BY <1>1 DEF InteractionTrue, Turn
<1>3. InteractionTrue(m)'
  BY <1>1, <1>2 DEF InteractionTrue, Keeps, Alone
<1>4. row[m].status = "none" /\ m \notin written /\ turn[m].stale \subseteq passed
  BY <1>1 DEF TurnTrue, Answering
<1>5. turn[m].change \in Changes(turn[m].id, turn[m].base)
  BY <1>1, <1>2 DEF InteractionTrue, MemoryInv, RowTrue
<1>6. TurnTrue(m)'
  BY <1>2, <1>4, <1>5 DEF TurnTrue, Keeps, Holding, Subject
<1>7. KnownBase(m)
  BY DEF KnownBase, Keeps
<1> QED
  BY <1>3, <1>6, <1>7, TurnMoves

\* A turn that has read an interaction: what it knows of it.
LEMMA Knows ==
  ASSUME MemoryInv, NEW m \in Messages
  PROVE  /\ turn[m] \in Turn /\ turn \in [Messages -> Turn] /\ troubles \in 0..MaxTroubles
         /\ InteractionTrue(m) /\ AnswerTrue(m) /\ TurnTrue(m)
         /\ turn[m].at \in Answering => turn[m].id \in Messages
BY DEF MemoryInv, MemoryTypeOK, InteractionTrue, Turn

\* Putting a decision and an outcome into a turn leaves the rest of it alone.
LEMMA Decides ==
  ASSUME MemoryInv, NEW m \in Messages, NEW l \in {"claim", "resolve", "reply"},
         NEW d \in {"approve", "reject", "ambiguous", "new_intent"},
         NEW r \in Results \cup {"none"},
         Move(m, [turn[m] EXCEPT !.at = l, !.result = r, !.decision = d])
  PROVE  /\ OnlyTurn(m) /\ Keeps(m)
         /\ turn'[m].at = l /\ turn'[m].decision = d /\ turn'[m].result = r
<1> DEFINE t == [turn[m] EXCEPT !.at = l, !.result = r, !.decision = d]
<1>1. turn[m] \in Turn
  BY Knows
<1>2. l \in Alone \cup Answering \cup Changing \cup {"reply"}
  BY DEF Answering
<1>3. t \in Turn
  BY <1>1, <1>2 DEF Turn
<1>4. t.at = l /\ t.decision = d /\ t.result = r
  BY <1>1 DEF Turn
<1>5. /\ t.id = turn[m].id /\ t.change = turn[m].change /\ t.base = turn[m].base
      /\ t.loaded = turn[m].loaded /\ t.stale = turn[m].stale /\ t.late = turn[m].late
  BY <1>1 DEF Turn
<1> HIDE DEF t
<1>6. OnlyTurn(m) /\ turn'[m] = t
  BY <1>3, Moves DEF t
<1> QED
  BY <1>4, <1>5, <1>6 DEF Keeps

\* What a member's message says of a proposal.
LEMMA ClassifyInputInv ==
  ASSUME MemoryInv, NEW m \in Messages, ClassifyInput(m)
  PROVE  MemoryInv'
<1>1. turn[m].at = "classify" /\ UNCHANGED <<doc, row, passed, mutex, written, troubles>>
  BY DEF ClassifyInput, At
<1>2. /\ turn[m] \in Turn /\ InteractionTrue(m) /\ TurnTrue(m) /\ troubles \in 0..MaxTroubles
      /\ turn[m].at \in Answering
  BY <1>1, Knows DEF Answering
<1>3. CASE Proceed(m, "done")
  BY <1>1, <1>3, EndsInv
<1>4. CASE Move(m, [TurnAt("inspect") EXCEPT !.stale = turn[m].stale])
  <2> DEFINE t == [TurnAt("inspect") EXCEPT !.stale = turn[m].stale]
  <2>1. TurnAt("inspect") \in Turn /\ TurnAt("inspect").at = "inspect" /\ TurnAt("inspect").id = Nobody
    BY TurnAtType DEF Alone, TurnAt
  <2>2. /\ t \in Turn /\ t.at = "inspect" /\ t.id = Nobody /\ t.stale = turn[m].stale
        /\ t.base = Empty
    BY <1>2, <2>1 DEF Turn, TurnAt
  <2> HIDE DEF t
  <2>3. OnlyTurn(m) /\ turn'[m] = t
    BY <1>4, <2>2, Moves DEF t
  <2>4. turn[m].stale \subseteq passed /\ (m \in written => row[m].status # "none")
    BY <1>1, <1>2 DEF TurnTrue
  <2> QED
    BY <1>1, <2>2, <2>3, <2>4, StartsInv
<1>5. CASE Move(m, [turn[m] EXCEPT !.at = "reply", !.result = "expired",
                                   !.decision = "new_intent"])
  <2>1. OnlyTurn(m) /\ Keeps(m) /\ turn'[m].at = "reply" /\ turn'[m].result = "expired"
    BY <1>5, Decides DEF Results
  <2>2. AnswerTrue(m)'
    BY <2>1 DEF AnswerTrue, Changing
  <2> QED
    BY <1>1, <1>2, <2>1, <2>2, StaysInv
<1>6. ASSUME NEW d \in {"approve", "reject", "ambiguous"},
             Move(m, [turn[m] EXCEPT
                        !.decision = d,
                        !.at = IF turn[m].late \/ d = "ambiguous" THEN "resolve" ELSE "claim"])
      PROVE  MemoryInv'
  <2> DEFINE l == IF turn[m].late \/ d = "ambiguous" THEN "resolve" ELSE "claim"
             t == [turn[m] EXCEPT !.decision = d, !.at = l]
  <2>1. /\ l \in {"resolve", "claim"}
        /\ l = "resolve" => turn[m].late \/ d = "ambiguous"
        /\ l = "claim" => d \in {"approve", "reject"}
    BY <1>6
  <2>2. Move(m, t)
    BY <1>6
  <2> HIDE DEF l
  <2>3. /\ t \in Turn /\ t.at = l /\ t.decision = d
        /\ t.id = turn[m].id /\ t.change = turn[m].change /\ t.base = turn[m].base
        /\ t.loaded = turn[m].loaded /\ t.stale = turn[m].stale /\ t.late = turn[m].late
    BY <1>2, <2>1 DEF Turn, Answering
  <2> HIDE DEF t
  <2>4. OnlyTurn(m) /\ turn'[m] = t
    BY <2>2, <2>3, Moves
  <2>5. turn[m].late => turn[m].id \in passed
    BY <1>2 DEF InteractionTrue
  <2>6. AnswerTrue(m)'
    BY <1>1, <2>1, <2>3, <2>4, <2>5 DEF AnswerTrue, Changing
  <2> QED
    BY <1>1, <1>2, <2>1, <2>3, <2>4, <2>6, StaysInv DEF Keeps
<1> QED
  BY <1>3, <1>4, <1>5, <1>6 DEF ClassifyInput

\* A turn that has been told how its answer ends.
LEMMA ResolvedInv ==
  ASSUME MemoryInv, NEW m \in Messages, turn[m].at \in Answering,
         NEW r \in Results, Resolved(m, r),
         r = "rejected" => row[turn[m].id].decision = "reject",
         r = "applied" => Achieved(turn[m].id),
         UNCHANGED <<doc, row, passed, mutex, written>>, troubles' \in 0..MaxTroubles
  PROVE  MemoryInv'
<1>1. turn' \in [Messages -> Turn] /\ turn'[m].at = "reply" /\ Keeps(m) /\ turn'[m].result = r
  BY Knows, Resolves
<1>2. OnlyTurn(m)
  BY <1>1, ResolvesAlone
<1>3. AnswerTrue(m)'
  BY <1>1, SameAchieved DEF AnswerTrue, Keeps, Changing, Results
<1> QED
  BY <1>1, <1>2, <1>3, StaysInv

\* An answer is resolved up to the change itself.
LEMMA ResolvePendingInv ==
  ASSUME MemoryInv, NEW m \in Messages, ResolvePending(m)
  PROVE  MemoryInv'
<1>1. /\ turn[m].at = "resolve" /\ UNCHANGED <<doc, row, passed, mutex, written, troubles>>
      /\ turn[m].at \in Answering
  BY DEF ResolvePending, At, Answering
<1>2. AnswerTrue(m) /\ TurnTrue(m) /\ turn[m].id \in Messages /\ troubles \in 0..MaxTroubles
      /\ turn[m] \in Turn /\ turn \in [Messages -> Turn]
  BY <1>1, Knows
<1>3. CASE Resolved(m, "expired")
  BY <1>1, <1>2, <1>3, ResolvedInv DEF Results
<1>4. CASE turn[m].id \notin passed /\ turn[m].decision = "reject" /\ Resolved(m, "rejected")
  <2>1. row[turn[m].id].decision = "reject"
    BY <1>1, <1>2, <1>4 DEF AnswerTrue
  <2> QED
    BY <1>1, <1>2, <1>4, <2>1, ResolvedInv DEF Results
<1>5. CASE Proceed(m, "done")
  BY <1>1, <1>5, EndsInv
<1>6. CASE turn[m].id \notin passed /\ turn[m].decision \notin {"reject", "ambiguous"} /\ Proceed(m, "lock")
  <2>1. turn' \in [Messages -> Turn] /\ turn'[m].at = "lock" /\ Keeps(m)
    BY <1>2, <1>6, Proceeds DEF Changing
  <2>2. OnlyTurn(m)
    BY <1>6, <2>1, ProceedsAlone
  <2>3. row[turn[m].id].decision = "approve" /\ turn[m].id \notin turn[m].stale
    BY <1>1, <1>2, <1>6 DEF AnswerTrue, TurnTrue
  <2>4. AnswerTrue(m)'
    BY <1>1, <2>1, <2>3 DEF AnswerTrue, Keeps
  <2> QED
    BY <1>1, <1>2, <2>1, <2>2, <2>4, StaysInv
<1> QED
  BY <1>3, <1>4, <1>5, <1>6 DEF ResolvePending

\* A turn takes up what an earlier one left behind, with the answer of the row.
LEMMA RecoverInv ==
  ASSUME MemoryInv, NEW m \in Messages, Recover(m)
  PROVE  MemoryInv'
<1> DEFINE p == turn[m].id
           d == row[p].decision
           t == [turn[m] EXCEPT !.decision = d]
<1>1. /\ turn[m].at = "recover" /\ UNCHANGED <<doc, row, passed, mutex, written, troubles>>
      /\ turn[m].at \in Answering
  BY DEF Recover, At, Answering
<1>2. /\ AnswerTrue(m) /\ p \in Messages /\ troubles \in 0..MaxTroubles
      /\ turn[m] \in Turn /\ row[p] \in Row
  BY <1>1, Knows DEF MemoryInv, MemoryTypeOK
<1>3. d \in {"approve", "reject"}
  BY <1>1, <1>2 DEF AnswerTrue, Row
<1>4. \/ p \in passed /\ Move(m, [t EXCEPT !.at = "reply", !.result = "expired"])
      \/ \E l \in {"resolve", "examine"} :
           /\ l = "examine" => d = "approve"
           /\ Move(m, [t EXCEPT !.at = l])
  <2>1. t.decision = d
    BY <1>2 DEF Turn
  <2>2. d # "reject" => d = "approve"
    BY <1>3
  <2>3. Move(m, IF p \in passed THEN [t EXCEPT !.at = "reply", !.result = "expired"]
                ELSE [t EXCEPT !.at = IF t.decision = "reject" THEN "resolve" ELSE "examine"])
    BY DEF Recover
  <2> HIDE DEF t, d, p
  <2>4. CASE p \in passed
    BY <2>3, <2>4
  <2>5. CASE p \notin passed /\ d = "reject"
    BY <2>1, <2>3, <2>5
  <2>6. CASE p \notin passed /\ d # "reject"
    BY <2>1, <2>2, <2>3, <2>6
  <2> QED
    BY <2>4, <2>5, <2>6
<1>5. /\ t \in Turn /\ t.decision = d
      /\ t.id = turn[m].id /\ t.change = turn[m].change /\ t.base = turn[m].base
      /\ t.loaded = turn[m].loaded /\ t.stale = turn[m].stale /\ t.late = turn[m].late
  <2> HIDE DEF d
  <2> QED
    BY <1>2, <1>3 DEF Turn
<1> HIDE DEF t
<1>6. CASE Move(m, [t EXCEPT !.at = "reply", !.result = "expired"])
  <2> DEFINE u == [t EXCEPT !.at = "reply", !.result = "expired"]
  <2>1. u \in Turn
    BY <1>5 DEF Turn, Results
  <2>2. /\ u.at = "reply" /\ u.result = "expired"
        /\ u.id = t.id /\ u.change = t.change /\ u.base = t.base
        /\ u.loaded = t.loaded /\ u.stale = t.stale /\ u.late = t.late
    BY <1>5 DEF Turn
  <2> HIDE DEF u
  <2>3. OnlyTurn(m) /\ turn'[m] = u
    BY <1>6, <2>1, Moves DEF u
  <2>4. AnswerTrue(m)'
    BY <2>2, <2>3 DEF AnswerTrue, Changing
  <2> QED
    BY <1>1, <1>2, <1>5, <2>2, <2>3, <2>4, StaysInv DEF Keeps
<1>7. ASSUME NEW l \in {"resolve", "examine"}, l = "examine" => d = "approve",
             Move(m, [t EXCEPT !.at = l])
      PROVE  MemoryInv'
  <2> DEFINE u == [t EXCEPT !.at = l]
  <2>1. u \in Turn
    BY <1>5 DEF Turn, Answering
  <2>2. /\ u.at = l /\ u.decision = d
        /\ u.id = t.id /\ u.change = t.change /\ u.base = t.base
        /\ u.loaded = t.loaded /\ u.stale = t.stale /\ u.late = t.late
    BY <1>5 DEF Turn
  <2> HIDE DEF u
  <2>3. OnlyTurn(m) /\ turn'[m] = u
    BY <1>7, <2>1, Moves DEF u
  <2>4. AnswerTrue(m)'
    BY <1>1, <1>3, <1>5, <1>7, <2>2, <2>3 DEF AnswerTrue, Changing
  <2> QED
    BY <1>1, <1>2, <1>5, <2>2, <2>3, <2>4, StaysInv DEF Keeps
<1> QED
  BY <1>4, <1>6, <1>7

\* A change that can be seen in the document was achieved.
LEMMA PresentIsAchieved ==
  ASSUME MemoryInv, NEW p \in Messages, row[p].status # "none",
         EffectIsPresent(doc, row[p].change, p)
  PROVE  Achieved(p)
<1> DEFINE c == row[p].change
           d == row[p].base
<1>1. c \in Changes(p, d) /\ d \in Documents /\ Kept(d) /\ EntriesWritten
  BY DEF MemoryInv, MemoryTypeOK, RowTrue, BasesKept, Row
<1> HIDE DEF c, d
<1>2. EffectIsPresent(doc, c, p)
  BY DEF c
<1>3. CASE c.op = "create" /\ c.entry = p /\ c.entry \in Entries
  BY <1>1, <1>2, <1>3, Names DEF EffectIsPresent, EntriesWritten, Achieved
<1>4. CASE c.op = "replace" /\ c.entry \in Entries
  BY <1>1, <1>2, <1>4 DEF EffectIsPresent, EntriesWritten, Achieved, c
<1>5. CASE c.op = "delete" /\ c.entry \in Entries /\ d[c.entry] # Nobody
  BY <1>1, <1>2, <1>5 DEF EffectIsPresent, Kept, Achieved, c
<1>6. CASE c.op = "clear"
  BY <1>1, <1>2, <1>6 DEF EffectIsPresent, Kept, Achieved, Empty, c, d
<1> QED
  BY <1>1, <1>3, <1>4, <1>5, <1>6, ChangeKinds

\* The change that a turn has read is a change.
LEMMA ChangeRead ==
  ASSUME MemoryInv, NEW m \in Messages, turn[m].id # Nobody
  PROVE  /\ turn[m].id \in Messages /\ row[turn[m].id].status # "none"
         /\ turn[m].change = row[turn[m].id].change
BY DEF MemoryInv, MemoryTypeOK, Turn, InteractionTrue

\* A fault stays within the bound.
LEMMA Faults ==
  ASSUME MemoryInv, MemoryFault
  PROVE  troubles' \in 0..MaxTroubles
BY MemoryAssumption DEF MemoryInv, MemoryTypeOK, MemoryFault

\* The document tells a recovering turn what has become of its change.
LEMMA ExamineInv ==
  ASSUME MemoryInv, NEW m \in Messages, Examine(m)
  PROVE  MemoryInv'
<1>1. /\ turn[m].at = "examine" /\ UNCHANGED <<doc, row, passed, mutex, written>>
      /\ turn[m].at \in Answering
  BY DEF Examine, At, Answering
<1>2. /\ AnswerTrue(m) /\ turn[m].id \in Messages /\ troubles \in 0..MaxTroubles
      /\ turn[m] \in Turn /\ turn \in [Messages -> Turn] /\ InteractionTrue(m)
  BY <1>1, Knows
<1>3. CASE /\ EffectIsPresent(doc, turn[m].change, turn[m].id)
           /\ Resolved(m, "applied") /\ UNCHANGED troubles
  <2>1. Achieved(turn[m].id)
    BY <1>2, <1>3, ChangeRead, PresentIsAchieved, Names
  <2> QED
    BY <1>1, <1>2, <1>3, <2>1, ResolvedInv DEF Results
<1>4. CASE Resolved(m, "stale") /\ UNCHANGED troubles
  BY <1>1, <1>2, <1>4, ResolvedInv DEF Results
<1>5. CASE Resolved(m, "failed") /\ MemoryFault
  BY <1>1, <1>2, <1>5, ResolvedInv, Faults DEF Results
<1>6. CASE Proceed(m, "resolve") /\ UNCHANGED troubles
  <2>1. turn' \in [Messages -> Turn] /\ turn'[m].at = "resolve" /\ Keeps(m)
        /\ turn'[m].decision = turn[m].decision
    BY <1>2, <1>6, Proceeds DEF Answering
  <2>2. OnlyTurn(m)
    BY <1>6, <2>1, ProceedsAlone
  <2>3. AnswerTrue(m)'
    BY <1>1, <1>2, <2>1 DEF AnswerTrue, Keeps, Changing
  <2> QED
    BY <1>1, <1>2, <1>6, <2>1, <2>2, <2>3, StaysInv
<1> QED
  BY <1>3, <1>4, <1>5, <1>6 DEF Examine

\* A row moves on with the same change: the turns that know of it know as much, and
\* the other rows are as they were.
LEMMA RowMoves ==
  ASSUME MemoryInv, NEW m \in Messages, OnlyTurn(m), NEW p \in Messages, row[p].status # "none",
         row' \in [Messages -> Row], \A q \in Messages \ {p} : row'[q] = row[q],
         row'[p].status # "none", row'[p].change = row[p].change, row'[p].base = row[p].base,
         row[p].decision # "none" => row'[p].decision = row[p].decision, RowTrue(p)',
         InteractionTrue(m)', AnswerTrue(m)', TurnTrue(m)', KnownBase(m),
         row[m].status = "none",
         UNCHANGED <<doc, passed, mutex, written, troubles>>
  PROVE  MemoryInv'
<1>1. Shared(m)
  BY DEF Shared
<1>2. EntriesWritten' /\ \A q \in Messages : RowTrue(q)'
  <2>1. \A q \in Messages : row[q].status # "none" /\ Achieved(q) => Achieved(q)'
    BY <1>1, Lasting
  <2>2. ASSUME NEW q \in Messages \ {p}
        PROVE  RowTrue(q)'
    BY <2>1 DEF MemoryInv, RowTrue
  <2> QED
    BY <2>2 DEF MemoryInv, EntriesWritten
<1>3. /\ doc' \in Documents /\ passed' \in SUBSET Messages /\ troubles' \in 0..MaxTroubles
      /\ mutex' \in Messages \cup {Nobody} /\ written' \in SUBSET Messages
  BY DEF MemoryInv, MemoryTypeOK
<1> QED
  BY <1>1, <1>2, <1>3, MessageMoves

\* A pending row is claimed with the answer of the turn, or the turn ends.
LEMMA ClaimInv ==
  ASSUME MemoryInv, NEW m \in Messages, Claim(m)
  PROVE  MemoryInv'
<1>1. /\ turn[m].at = "claim" /\ UNCHANGED <<doc, passed, mutex, written, troubles>>
      /\ turn[m].at \in Answering
  BY DEF Claim, At, Answering
<1>2. /\ AnswerTrue(m) /\ turn[m].id \in Messages /\ InteractionTrue(m) /\ TurnTrue(m)
      /\ turn[m] \in Turn /\ turn \in [Messages -> Turn]
  BY <1>1, Knows
<1>3. PICK p \in Messages, d \in {"approve", "reject"} :
        p = turn[m].id /\ d = turn[m].decision
  BY <1>1, <1>2 DEF AnswerTrue
<1>4. CASE Proceed(m, "done") /\ UNCHANGED row
  BY <1>1, <1>4, EndsInv
<1>5. CASE /\ row[p].status = "pending"
           /\ row' = [row EXCEPT ![p].status = "resolving", ![p].version = @ + 1,
                                 ![p].by = m, ![p].decision = d]
           /\ Move(m, [turn[m] EXCEPT !.at = "resolve", !.version = @ + 1])
  <2> DEFINE v == row[p].version + 1
             w == turn[m].version + 1
             r == [row[p] EXCEPT !.status = "resolving", !.version = v, !.by = m, !.decision = d]
             t == [turn[m] EXCEPT !.at = "resolve", !.version = w]
  <2>1. row \in [Messages -> Row] /\ row[p] \in Row
    BY DEF MemoryInv, MemoryTypeOK
  <2>2. v \in Nat /\ w \in Nat
    BY <1>2, <2>1 DEF Row, Turn
  <2>3. row' = [row EXCEPT ![p] = r] /\ Move(m, t)
    BY <1>5
  <2> HIDE DEF v, w
  <2>4. /\ r \in Row /\ r.status = "resolving" /\ r.by = m /\ r.decision = d
        /\ r.change = row[p].change /\ r.base = row[p].base
    BY <2>1, <2>2 DEF Row, OpenStatus
  <2>5. t \in Turn /\ t.at = "resolve"
    BY <1>2, <2>2 DEF Turn, Answering
  <2>6. /\ t.id = turn[m].id /\ t.change = turn[m].change /\ t.base = turn[m].base
        /\ t.loaded = turn[m].loaded /\ t.stale = turn[m].stale /\ t.late = turn[m].late
        /\ t.decision = d
    BY <1>3, <1>2 DEF Turn
  <2> HIDE DEF t, r
  <2>7. OnlyTurn(m) /\ turn'[m] = t
    BY <2>3, <2>5, Moves
  <2>8. row' \in [Messages -> Row] /\ row'[p] = r /\ \A q \in Messages \ {p} : row'[q] = row[q]
    BY <2>1, <2>3, <2>4
  <2>9. RowTrue(p) /\ Speaker(p) = Speaker(m) /\ row[m].status = "none"
    BY <1>3, <1>1, <1>2, Names DEF MemoryInv, InteractionTrue, TurnTrue
  <2>10. RowTrue(p)'
    <3>1. p \notin written
      BY <1>5, <2>9 DEF RowTrue
    <3> QED
      BY <1>1, <1>5, <2>4, <2>8, <2>9, <3>1 DEF RowTrue
  <2>11. InteractionTrue(m)'
    BY <1>3, <1>1, <1>2, <2>4, <2>5, <2>6, <2>7, <2>8 DEF InteractionTrue, Alone
  <2>12. AnswerTrue(m)'
    BY <1>3, <2>4, <2>5, <2>6, <2>7, <2>8 DEF AnswerTrue, Changing
  <2>13. TurnTrue(m)'
    BY <1>3, <1>1, <1>2, <1>5, <2>5, <2>6, <2>7, <2>8, <2>9 DEF TurnTrue, Holding, Changing
  <2>14. row[p].decision = "none" /\ KnownBase(m)
    BY <1>5, <2>6, <2>7, <2>9 DEF RowTrue, KnownBase
  <2> QED
    BY <1>1, <1>2, <1>5, <2>4, <2>7, <2>8, <2>9, <2>10, <2>11, <2>12, <2>13, <2>14, RowMoves
<1> QED
  BY <1>3, <1>4, <1>5 DEF Claim

\* A turn loads the document under the mutex.
LEMMA LoadInv ==
  ASSUME MemoryInv, NEW m \in Messages, Load(m)
  PROVE  MemoryInv'
<1>1. /\ turn[m].at = "lock" /\ turn[m].at \in Changing /\ mutex = Nobody
      /\ UNCHANGED <<doc, row, passed, written>>
  BY DEF Load, At, Changing
<1>2. /\ AnswerTrue(m) /\ InteractionTrue(m) /\ TurnTrue(m) /\ troubles \in 0..MaxTroubles
      /\ turn[m] \in Turn /\ turn \in [Messages -> Turn] /\ doc \in Documents
  BY Knows DEF MemoryInv, MemoryTypeOK
<1>3. /\ row[m].status = "none" /\ m \notin written
      /\ turn[m].change \in Changes(Subject(m), turn[m].base)
  BY <1>1, <1>2 DEF TurnTrue
<1>4. CASE /\ mutex' = m /\ UNCHANGED troubles
           /\ Move(m, [turn[m] EXCEPT !.at = "write", !.loaded = doc])
  <2> DEFINE t == [turn[m] EXCEPT !.at = "write", !.loaded = doc]
  <2>1. t \in Turn /\ t.at = "write" /\ t.loaded = doc
    BY <1>2 DEF Turn, Changing
  <2>2. /\ t.id = turn[m].id /\ t.change = turn[m].change /\ t.stale = turn[m].stale
        /\ t.late = turn[m].late /\ t.base = turn[m].base
    BY <1>2 DEF Turn
  <2> HIDE DEF t
  <2>3. OnlyTurn(m) /\ turn'[m] = t
    BY <1>4, <2>1, Moves DEF t
  <2>4. InteractionTrue(m)'
    BY <1>1, <1>2, <2>1, <2>2, <2>3 DEF InteractionTrue, Alone, Answering
  <2>5. AnswerTrue(m)'
    BY <1>1, <1>2, <2>1, <2>2, <2>3 DEF AnswerTrue, Changing
  <2>6. TurnTrue(m)'
    BY <1>1, <1>2, <1>3, <1>4, <2>1, <2>2, <2>3 DEF TurnTrue, Subject
  <2>7. Shared(m)
    BY <1>1, <1>4 DEF Shared
  <2>8. EntriesWritten' /\ KnownBase(m) /\ \A p \in Messages : RowTrue(p)'
    BY <1>1, <2>2, <2>3, SameAchieved DEF MemoryInv, EntriesWritten, RowTrue, KnownBase
  <2>9. /\ doc' \in Documents /\ row' \in [Messages -> Row] /\ passed' \in SUBSET Messages
        /\ mutex' \in Messages \cup {Nobody} /\ written' \in SUBSET Messages
        /\ troubles' \in 0..MaxTroubles
    BY <1>1, <1>4 DEF MemoryInv, MemoryTypeOK
  <2> QED
    BY <2>3, <2>4, <2>5, <2>6, <2>7, <2>8, <2>9, MessageMoves
<1>5. CASE MemoryFault /\ Resolved(m, "failed") /\ UNCHANGED mutex
  <2>1. turn' \in [Messages -> Turn] /\ turn'[m].at = "reply" /\ Keeps(m) /\ turn'[m].result = "failed"
    BY <1>2, <1>5, Resolves DEF Results
  <2>2. OnlyTurn(m)
    BY <1>5, <2>1, ResolvesAlone
  <2>3. InteractionTrue(m)'
    BY <1>1, <1>2, <2>1 DEF InteractionTrue, Keeps, Alone, Answering
  <2>4. AnswerTrue(m)'
    BY <2>1 DEF AnswerTrue, Keeps, Changing
  <2>5. TurnTrue(m)'
    BY <1>1, <1>2, <1>3, <2>1 DEF TurnTrue, Keeps, Changing, Holding
  <2>6. KnownBase(m)
    BY <2>1 DEF KnownBase, Keeps
  <2> QED
    BY <1>1, <1>5, <2>2, <2>3, <2>4, <2>5, <2>6, Faults, TurnMoves
<1> QED
  BY <1>4, <1>5 DEF Load

\* A turn that holds the mutex lets go of it, or goes on, without touching the rows.
LEMMA ChangeMoves ==
  ASSUME MemoryInv, NEW m \in Messages, turn[m].at \in Changing, OnlyTurn(m), Keeps(m),
         turn'[m].at \in {"readback", "reply"},
         turn[m].id = Nobody =>
           (m \in written' => row[m].status = "none") /\ written' \subseteq written \cup {m},
         turn[m].id # Nobody => written' \subseteq written \cup {turn[m].id},
         written \subseteq written',
         turn'[m].at = "readback" => mutex = m /\ mutex' = m,
         turn'[m].at = "reply" => turn'[m].result \in Results \ {"rejected"},
         turn'[m].at = "reply" /\ turn'[m].result = "applied" /\ turn[m].id # Nobody =>
           UNCHANGED <<doc, written>> /\ Achieved(turn[m].id),
         \A e \in Entries : doc[e] # Nobody /\ doc'[e] = Nobody => Removed(e)',
         mutex' # mutex => mutex = m /\ mutex' = Nobody,
         doc' # doc => mutex = m, doc' \in Documents, EntriesWritten',
         UNCHANGED <<row, passed>>, troubles' \in 0..MaxTroubles
  PROVE  MemoryInv'
<1>1. /\ AnswerTrue(m) /\ InteractionTrue(m) /\ TurnTrue(m) /\ turn[m] \in Turn
      /\ row[m].status = "none" /\ turn[m].at # "done"
  BY Knows DEF TurnTrue, Changing
<1>2. turn[m].id # Nobody =>
        /\ turn[m].id \in Messages /\ row[turn[m].id].status # "none"
        /\ row[turn[m].id].decision = "approve"
  BY <1>1, ChangeRead DEF InteractionTrue, AnswerTrue
<1>3. InteractionTrue(m)'
  BY <1>1 DEF InteractionTrue, Keeps, Alone, Answering
<1>4. AnswerTrue(m)'
  BY <1>1, SameAchieved DEF AnswerTrue, Keeps, Changing, Results
<1>5. TurnTrue(m)'
  <2>1. m \in written' => turn[m].id = Nobody
    BY <1>1, <1>2 DEF TurnTrue, Changing
  <2> QED
    BY <1>1, <2>1 DEF TurnTrue, Keeps, Changing, Holding, Subject
<1>6. Shared(m)
  BY <1>2 DEF Shared
<1>7. \A p \in Messages : RowTrue(p)'
  <2> SUFFICES ASSUME NEW p \in Messages PROVE RowTrue(p)'
    OBVIOUS
  <2>1. RowTrue(p)
    BY DEF MemoryInv
  <2>2. row[p].status # "none" /\ p \in written' => row[p].decision = "approve"
    BY <1>1, <1>2, <2>1 DEF RowTrue
  <2>3. row[p].status # "none" /\ Achieved(p) => Achieved(p)'
    BY <1>6, Lasting
  <2> QED
    BY <2>1, <2>2, <2>3 DEF RowTrue
<1>8. /\ row' \in [Messages -> Row] /\ passed' \in SUBSET Messages
      /\ mutex' \in Messages \cup {Nobody} /\ written' \in SUBSET Messages /\ KnownBase(m)
  BY <1>2 DEF MemoryInv, MemoryTypeOK, KnownBase, Keeps
<1> QED
  BY <1>3, <1>4, <1>5, <1>6, <1>7, <1>8, MessageMoves

\* The outcome of a change is told, and the mutex is free again.
LEMMA ChangeResolves ==
  ASSUME MemoryInv, NEW m \in Messages, turn[m].at \in Holding,
         NEW r \in {"applied", "stale", "failed"}, Resolved(m, r), Release,
         r = "applied" /\ turn[m].id # Nobody => Achieved(turn[m].id),
         UNCHANGED <<doc, row, passed, written>>, troubles' \in 0..MaxTroubles
  PROVE  MemoryInv'
<1>1. turn \in [Messages -> Turn] /\ TurnTrue(m) /\ r \in Results /\ turn[m].at \in Changing
  BY Knows DEF Results, Holding, Changing
<1>2. turn' \in [Messages -> Turn] /\ turn'[m].at = "reply" /\ Keeps(m) /\ turn'[m].result = r
  BY <1>1, Resolves
<1>3. OnlyTurn(m)
  BY <1>2, ResolvesAlone
<1>4. mutex = m /\ mutex' = Nobody
  BY <1>1 DEF TurnTrue, Release
<1>5. doc' \in Documents /\ EntriesWritten' /\ row[m].status = "none"
  BY <1>1 DEF MemoryInv, MemoryTypeOK, EntriesWritten, TurnTrue, Changing
<1> QED
  BY <1>1, <1>2, <1>3, <1>4, <1>5, ChangeMoves DEF Results

\* The document is written under the mutex, or the change is stale or fails.
LEMMA WriteInv ==
  ASSUME MemoryInv, NEW m \in Messages, Write(m)
  PROVE  MemoryInv'
<1>1. turn[m].at = "write" /\ turn[m].at \in Holding /\ turn[m].at \in Changing
      /\ UNCHANGED <<row, passed>>
  BY DEF Write, At, Holding, Changing
<1>2. /\ turn \in [Messages -> Turn] /\ turn[m] \in Turn /\ InteractionTrue(m) /\ TurnTrue(m)
      /\ troubles \in 0..MaxTroubles
  BY Knows
<1>3. CASE Release /\ Resolved(m, "stale") /\ UNCHANGED <<doc, written, troubles>>
  BY <1>1, <1>2, <1>3, ChangeResolves
<1>4. CASE MemoryFault /\ Release /\ Resolved(m, "failed") /\ UNCHANGED <<doc, written>>
  BY <1>1, <1>4, Faults, ChangeResolves
<1>5. CASE /\ turn[m].loaded = turn[m].base
           /\ doc' = Applied(turn[m].loaded, turn[m].change, Subject(m))
           /\ written' = written \cup {Subject(m)}
           /\ Proceed(m, "readback")
           /\ UNCHANGED <<mutex, troubles>>
  <2>1. /\ Subject(m) \in Messages
        /\ turn[m].id = Nobody => Subject(m) = m
        /\ turn[m].id # Nobody => Subject(m) = turn[m].id
    BY ChangeRead DEF Subject
  <2>2. turn' \in [Messages -> Turn] /\ turn'[m].at = "readback" /\ Keeps(m)
    BY <1>2, <1>5, Proceeds DEF Changing
  <2>3. OnlyTurn(m)
    BY <1>5, <2>2, ProceedsAlone
  <2>4. mutex = m /\ turn[m].loaded = doc /\ row[m].status = "none"
    BY <1>1, <1>2 DEF TurnTrue
  <2>5. doc \in Documents /\ EntriesWritten
    BY DEF MemoryInv, MemoryTypeOK
  <2>6. doc' \in Documents
    BY <1>5, <2>1, <2>4, <2>5, AppliedDocument
  <2>7. /\ turn[m].change \in Changes(Subject(m), doc)
        /\ turn[m].id = Nobody => turn[m].change.op = "create"
    BY <1>1, <1>2, <1>5, <2>4 DEF TurnTrue
  <2>8. EntriesWritten'
    <3> SUFFICES ASSUME NEW e \in Entries, doc'[e] # Nobody
                 PROVE  {e, doc'[e]} \subseteq written' \cup {<<"old", 0>>}
      BY DEF EntriesWritten
    <3>1. \/ doc'[e] = doc[e]
          \/ doc'[e] = Subject(m) /\ e = turn[m].change.entry /\ turn[m].change.op # "delete"
                                 /\ turn[m].change.op # "clear"
      BY <1>5, <2>1, <2>4, <2>5 DEF Applied, Empty, Documents
    <3>2. CASE doc'[e] = doc[e]
      BY <1>5, <2>5, <3>2 DEF EntriesWritten
    <3>3. CASE /\ doc'[e] = Subject(m) /\ e = turn[m].change.entry
               /\ turn[m].change.op # "delete" /\ turn[m].change.op # "clear"
      <4>1. e = Subject(m) \/ doc[e] # Nobody
        BY <2>1, <2>5, <2>7, <3>3, ChangeKinds
      <4> QED
        BY <1>5, <2>5, <3>3, <4>1 DEF EntriesWritten
    <3> QED
      BY <3>1, <3>2, <3>3
  <2>9. ASSUME NEW e \in Entries, doc[e] # Nobody, doc'[e] = Nobody
        PROVE  Removed(e)'
    <3>1. \/ turn[m].change.op = "clear"
          \/ turn[m].change.op = "delete" /\ turn[m].change.entry = e
      BY <1>5, <2>1, <2>4, <2>5, <2>9, Names DEF Applied, Documents
    <3>2. turn[m].id # Nobody
      BY <2>7, <3>1
    <3>3. /\ Subject(m) \in written' /\ row[Subject(m)].status # "none"
          /\ turn[m].change = row[Subject(m)].change
      BY <1>5, <2>1, <3>2, ChangeRead
    <3> QED
      BY <1>1, <3>1, <3>3 DEF Removed
  <2> QED
    BY <1>1, <1>2, <1>5, <2>1, <2>2, <2>3, <2>4, <2>6, <2>8, <2>9, ChangeMoves
<1> QED
  BY <1>3, <1>4, <1>5 DEF Write

\* The document is read back, and the mutex is free again.
LEMMA ReadbackInv ==
  ASSUME MemoryInv, NEW m \in Messages, Readback(m)
  PROVE  MemoryInv'
<1>1. turn[m].at = "readback" /\ turn[m].at \in Holding /\ Release
      /\ UNCHANGED <<doc, row, passed, written>>
  BY DEF Readback, At, Holding
<1>2. troubles \in 0..MaxTroubles
  BY Knows
<1>3. CASE /\ ReadbackVerified(turn[m].loaded, doc, turn[m].change, Subject(m))
           /\ Resolved(m, "applied") /\ UNCHANGED troubles
  <2>1. turn[m].id # Nobody => Achieved(turn[m].id)
    BY <1>3, ChangeRead, PresentIsAchieved DEF Subject, ReadbackVerified
  <2> QED
    BY <1>1, <1>2, <1>3, <2>1, ChangeResolves
<1>4. CASE Resolved(m, "failed") /\ UNCHANGED troubles
  BY <1>1, <1>2, <1>4, ChangeResolves
<1>5. CASE Resolved(m, "failed") /\ MemoryFault
  BY <1>1, <1>5, Faults, ChangeResolves
<1> QED
  BY <1>3, <1>4, <1>5 DEF Readback

\* The reply is generated.
LEMMA ReplyInv ==
  ASSUME MemoryInv, NEW m \in Messages, Reply(m)
  PROVE  MemoryInv'
<1>1. turn[m].at = "reply" /\ UNCHANGED <<doc, row, passed, mutex, written, troubles>>
  BY DEF Reply, At
<1>2. /\ turn \in [Messages -> Turn] /\ InteractionTrue(m) /\ AnswerTrue(m) /\ TurnTrue(m)
      /\ troubles \in 0..MaxTroubles
  BY Knows
<1>3. CASE Proceed(m, "done")
  BY <1>1, <1>3, EndsInv
<1>4. CASE turn[m].id # Nobody /\ Proceed(m, "record")
  <2>1. turn' \in [Messages -> Turn] /\ turn'[m].at = "record" /\ Keeps(m)
        /\ turn'[m].result = turn[m].result
    BY <1>2, <1>4, Proceeds DEF Answering
  <2>2. OnlyTurn(m)
    BY <1>4, <2>1, ProceedsAlone
  <2>3. InteractionTrue(m)'
    BY <1>1, <1>2, <1>4, <2>1 DEF InteractionTrue, Keeps, Alone
  <2>4. AnswerTrue(m)'
    BY <1>1, <1>2, <2>1, SameAchieved DEF AnswerTrue, Keeps, Changing
  <2>5. TurnTrue(m)' /\ KnownBase(m)
    BY <1>1, <1>2, <1>4, <2>1 DEF TurnTrue, Keeps, Holding, Changing, KnownBase
  <2> QED
    BY <1>1, <1>2, <2>2, <2>3, <2>4, <2>5, TurnMoves
<1> QED
  BY <1>3, <1>4 DEF Reply

\* An outcome is recorded, in the version that the turn knows.
LEMMA RecordInv ==
  ASSUME MemoryInv, NEW m \in Messages, Record(m)
  PROVE  MemoryInv'
<1>1. /\ turn[m].at = "record" /\ UNCHANGED <<doc, passed, mutex, written, troubles>>
      /\ turn[m].at \in Answering
  BY DEF Record, At, Answering
<1>2. /\ AnswerTrue(m) /\ turn[m].id \in Messages /\ InteractionTrue(m) /\ TurnTrue(m)
      /\ turn[m] \in Turn
  BY <1>1, Knows
<1>3. turn[m].result \in Results
  BY <1>1, <1>2 DEF AnswerTrue, Turn
<1>4. PICK p \in Messages, o \in Results : p = turn[m].id /\ o = turn[m].result
  BY <1>2, <1>3
<1>5. /\ RowTrue(p) /\ Speaker(p) = Speaker(m) /\ row[m].status = "none" /\ row[p].status # "none"
      /\ turn[m].change = row[p].change /\ turn[m].stale \subseteq passed /\ m \notin written
      /\ o = "rejected" => row[p].decision = "reject"
      /\ o = "applied" => Achieved(p)
  BY <1>1, <1>2, <1>4, Names DEF MemoryInv, InteractionTrue, AnswerTrue, TurnTrue
<1>6. CASE row' = row /\ Proceed(m, "done")
  BY <1>1, <1>6, EndsInv
<1> DEFINE fresh == [TurnAt("inspect") EXCEPT !.stale = turn[m].stale, !.aborted = turn[m].aborted]
<1>10. /\ fresh \in Turn /\ fresh.at = "inspect" /\ fresh.id = Nobody
       /\ fresh.stale = turn[m].stale /\ fresh.base = Empty
  <2>1. /\ TurnAt("inspect") \in Turn /\ TurnAt("inspect").at = "inspect"
        /\ TurnAt("inspect").id = Nobody /\ TurnAt("inspect").base = Empty
    BY TurnAtType DEF Alone, TurnAt
  <2> QED
    BY <1>2, <2>1 DEF Turn
<1> HIDE DEF fresh
<1>11. CASE row' = row /\ Move(m, fresh)
  <2>1. OnlyTurn(m) /\ turn'[m] = fresh
    BY <1>10, <1>11, Moves
  <2> QED
    BY <1>1, <1>5, <1>10, <1>11, <2>1, StartsInv
<1>7. ASSUME row' = [row EXCEPT ![p].status = o, ![p].version = @ + 1,
                                ![p].by = IF @ = Nobody THEN m ELSE @],
             OnlyTurn(m), InteractionTrue(m)', AnswerTrue(m)', turn'[m].at \in {"inspect", "done"},
             turn'[m].base = Empty,
             turn'[m].stale \subseteq passed
      PROVE  MemoryInv'
  <2> DEFINE v == row[p].version + 1
             b == IF row[p].by = Nobody THEN m ELSE row[p].by
             r == [row[p] EXCEPT !.status = o, !.version = v, !.by = b]
  <2>1. row \in [Messages -> Row] /\ row[p] \in Row
    BY DEF MemoryInv, MemoryTypeOK
  <2>2. v \in Nat /\ b \in Messages
    BY <2>1 DEF Row
  <2>3. row' = [row EXCEPT ![p] = r]
    BY <1>7
  <2>4. Speaker(b) = Speaker(p)
    BY <1>5 DEF RowTrue
  <2> HIDE DEF v, b
  <2>5. /\ r \in Row /\ r.status = o /\ r.by = b /\ r.decision = row[p].decision
        /\ r.change = row[p].change /\ r.base = row[p].base
    BY <2>1, <2>2 DEF Row
  <2> HIDE DEF r
  <2>6. row' \in [Messages -> Row] /\ row'[p] = r /\ \A q \in Messages \ {p} : row'[q] = row[q]
    BY <2>1, <2>3, <2>5
  <2>7. o \notin {"none", "pending", "resolving"}
    BY DEF Results
  <2>8. RowTrue(p)'
    <3>1. \A e : Removed(e) => Removed(e)'
      BY <1>1, <2>5, <2>6, <2>7 DEF Removed, MemoryInv, MemoryTypeOK
    <3>2. Achieved(p) => Achieved(p)'
      BY <1>1, <2>5, <2>6, <3>1 DEF Achieved
    <3> QED
      BY <1>1, <1>5, <2>4, <2>5, <2>6, <2>7, <3>2 DEF RowTrue
  <2>9. p # m /\ row'[m].status = "none"
    BY <1>5, <2>6
  <2>10. TurnTrue(m)' /\ KnownBase(m)
    BY <1>1, <1>5, <1>7, <2>9 DEF TurnTrue, Holding, Changing, KnownBase
  <2> QED
    BY <1>1, <1>5, <1>7, <2>5, <2>6, <2>7, <2>8, <2>10, RowMoves
<1>8. CASE /\ row' = [row EXCEPT ![p].status = o, ![p].version = @ + 1,
                                 ![p].by = IF @ = Nobody THEN m ELSE @]
           /\ Proceed(m, "done")
  <2>1. TurnAt("done") \in Turn /\ Move(m, TurnAt("done"))
    BY <1>8, TurnAtType DEF Alone, Proceed
  <2>2. OnlyTurn(m) /\ turn'[m] = TurnAt("done")
    BY <2>1, Moves
  <2>3. turn'[m].at = "done" /\ turn'[m].stale = {} /\ turn'[m].base = Empty
    BY <2>2 DEF TurnAt
  <2> QED
    BY <1>7, <1>8, <2>2, <2>3, TurnEnds
<1>9. CASE /\ row' = [row EXCEPT ![p].status = o, ![p].version = @ + 1,
                                 ![p].by = IF @ = Nobody THEN m ELSE @]
           /\ Move(m, fresh)
  <2>1. OnlyTurn(m) /\ turn'[m] = fresh
    BY <1>9, <1>10, Moves
  <2>2. InteractionTrue(m)' /\ AnswerTrue(m)'
    BY <1>10, <2>1 DEF InteractionTrue, AnswerTrue, Answering, Changing
  <2> QED
    BY <1>5, <1>7, <1>9, <1>10, <2>1, <2>2
<1> QED
  BY <1>4, <1>6, <1>8, <1>9, <1>11 DEF Record, fresh

-----------------------------------------------------------------------------
(* A turn without an interaction.                                            *)

\* A turn that knows of no interaction goes on to a change of its own.
LEMMA AloneMoves ==
  ASSUME MemoryInv, NEW m \in Messages, turn[m].at \in Alone \ {"done"}, OnlyTurn(m),
         turn'[m].at \in {"mutate", "validate", "persist", "lock"},
         turn'[m].id = turn[m].id, turn'[m].stale = turn[m].stale,
         turn'[m].at # "mutate" => /\ turn'[m].change \in Changes(m, turn'[m].base)
                                   /\ turn'[m].base = turn[m].base,
         turn'[m].at = "mutate" => turn'[m].base = doc,
         turn'[m].at = "lock" => turn'[m].change.op = "create",
         UNCHANGED <<doc, row, passed, mutex, written, troubles>>
  PROVE  MemoryInv'
<1>1. InteractionTrue(m) /\ TurnTrue(m) /\ troubles \in 0..MaxTroubles
  BY Knows
<1>2. /\ turn[m].id = Nobody /\ turn[m].stale \subseteq passed
      /\ row[m].status = "none" /\ m \notin written
  BY <1>1 DEF InteractionTrue, TurnTrue, Alone
<1>3. InteractionTrue(m)' /\ AnswerTrue(m)'
  BY <1>2 DEF InteractionTrue, AnswerTrue, Answering, Changing
<1>4. TurnTrue(m)' /\ KnownBase(m)
  BY <1>2 DEF TurnTrue, Holding, Changing, Subject, KnownBase
<1> QED
  BY <1>1, <1>3, <1>4, TurnMoves

\* The document is inspected.
LEMMA InspectInv ==
  ASSUME MemoryInv, NEW m \in Messages, Inspect(m)
  PROVE  MemoryInv'
<1>1. turn[m].at = "inspect" /\ UNCHANGED <<doc, row, passed, mutex, written, troubles>>
  BY DEF Inspect, At
<1>2. turn[m] \in Turn /\ doc \in Documents /\ turn[m].at \in Alone \ {"done"}
  BY <1>1, Knows DEF Alone, MemoryInv, MemoryTypeOK
<1>3. CASE Proceed(m, "done")
  BY <1>1, <1>3, EndsInv
<1>4. CASE Move(m, [turn[m] EXCEPT !.at = "mutate", !.base = doc])
  <2> DEFINE t == [turn[m] EXCEPT !.at = "mutate", !.base = doc]
  <2>1. /\ t \in Turn /\ t.at = "mutate" /\ t.id = turn[m].id /\ t.stale = turn[m].stale
        /\ t.base = doc
    BY <1>2 DEF Turn, Alone
  <2> HIDE DEF t
  <2>2. OnlyTurn(m) /\ turn'[m] = t
    BY <1>4, <2>1, Moves DEF t
  <2> QED
    BY <1>1, <1>2, <2>1, <2>2, AloneMoves
<1> QED
  BY <1>3, <1>4 DEF Inspect

\* A change is asked for, by mutateWorkingMemory or proposeWorkingMemory.
LEMMA ProposesInv ==
  ASSUME MemoryInv, NEW m \in Messages, turn[m].at = "mutate", NEW l \in {"validate", "lock"},
         NEW c \in Changes(m, turn[m].base), l = "lock" => c.op = "create",
         Move(m, [turn[m] EXCEPT !.at = l, !.change = c]),
         UNCHANGED <<doc, row, passed, mutex, written, troubles>>
  PROVE  MemoryInv'
<1>1. turn[m] \in Turn /\ turn[m].at \in Alone \ {"done"} /\ c \in ProperChanges
      /\ l \in Alone \cup Changing
  BY Knows, ChangesProper DEF Alone, Changing
<1> DEFINE t == [turn[m] EXCEPT !.at = l, !.change = c]
<1>2. /\ t \in Turn /\ t.at = l /\ t.change = c /\ t.id = turn[m].id /\ t.stale = turn[m].stale
      /\ t.base = turn[m].base
  BY <1>1 DEF Turn
<1> HIDE DEF t
<1>3. OnlyTurn(m) /\ turn'[m] = t
  BY <1>2, Moves DEF t
<1> QED
  BY <1>1, <1>2, <1>3, AloneMoves

\* A tool asks for a change, or the turn was aborted.
LEMMA MutateInv ==
  ASSUME MemoryInv, NEW m \in Messages, Mutate(m) \/ Propose(m)
  PROVE  MemoryInv'
<1>1. turn[m].at = "mutate" /\ UNCHANGED <<doc, row, passed, mutex, written, troubles>>
  BY DEF Mutate, Propose, At
<1>2. CASE Proceed(m, "done")
  BY <1>1, <1>2, EndsInv
<1>3. CASE \E c \in Changes(m, turn[m].base), l \in {"validate", "lock"} :
             /\ l = "lock" => c.op = "create"
             /\ Move(m, [turn[m] EXCEPT !.at = l, !.change = c])
  BY <1>1, <1>3, ProposesInv
<1> QED
  BY <1>2, <1>3 DEF Mutate, Propose

\* A change is validated against the document.
LEMMA ValidateInv ==
  ASSUME MemoryInv, NEW m \in Messages, Validate(m)
  PROVE  MemoryInv'
<1>1. turn[m].at = "validate" /\ UNCHANGED <<doc, row, passed, mutex, written, troubles>>
      /\ turn[m].at \in Alone \ {"done"}
  BY DEF Validate, At, Alone
<1>2. turn \in [Messages -> Turn] /\ TurnTrue(m)
  BY Knows
<1>3. CASE Proceed(m, "done")
  BY <1>1, <1>3, EndsInv
<1>4. CASE Proceed(m, "persist")
  <2>1. turn' \in [Messages -> Turn] /\ turn'[m].at = "persist" /\ Keeps(m)
    BY <1>2, <1>4, Proceeds DEF Alone
  <2>2. OnlyTurn(m)
    BY <1>4, <2>1, ProceedsAlone
  <2>3. turn[m].change \in Changes(m, turn[m].base)
    BY <1>1, <1>2, Knows DEF TurnTrue, InteractionTrue, Subject
  <2> QED
    BY <1>1, <2>1, <2>2, <2>3, AloneMoves DEF Keeps
<1> QED
  BY <1>3, <1>4 DEF Validate

\* create: the row of a proposal, or none when the member has one open.
LEMMA PersistInv ==
  ASSUME MemoryInv, NEW m \in Messages, Persist(m)
  PROVE  MemoryInv'
<1>1. turn[m].at = "persist" /\ UNCHANGED <<doc, passed, mutex, written, troubles>>
      /\ Proceed(m, "done")
  BY DEF Persist, At
<1>2. /\ turn[m] \in Turn /\ TurnTrue(m) /\ row \in [Messages -> Row] /\ RowTrue(m)
  BY Knows DEF MemoryInv, MemoryTypeOK
<1>3. /\ row[m].status = "none" /\ m \notin written /\ row[m].decision = "none"
      /\ turn[m].change \in Changes(m, turn[m].base) /\ turn[m].change \in ProperChanges
  BY <1>1, <1>2, Knows, ChangesProper DEF TurnTrue, RowTrue, InteractionTrue, Subject, Alone
<1>4. CASE row' = row
  BY <1>1, <1>4, EndsInv
<1>5. CASE row' = [row EXCEPT ![m] = Pending(turn[m].change, turn[m].base)]
  <2> DEFINE r == Pending(turn[m].change, turn[m].base)
  <2>1. /\ r \in Row /\ r.status = "pending" /\ r.decision = "none"
        /\ r.change = turn[m].change /\ r.base = turn[m].base /\ r.by = Nobody
    BY <1>2, <1>3, RowTypes DEF Turn
  <2> HIDE DEF r
  <2>2. row' \in [Messages -> Row] /\ row'[m] = r /\ \A q \in Messages \ {m} : row'[q] = row[q]
    BY <1>2, <1>5, <2>1 DEF r
  <2>3. TurnAt("done") \in Turn /\ Move(m, TurnAt("done"))
    BY <1>1, TurnAtType DEF Alone, Proceed
  <2>4. OnlyTurn(m) /\ turn'[m] = TurnAt("done")
    BY <2>3, Moves
  <2>5. InteractionTrue(m)' /\ AnswerTrue(m)' /\ TurnTrue(m)'
    BY <2>4, TurnEnds
  <2>6. Shared(m)
    BY <1>1, <1>3, <2>1, <2>2 DEF Shared
  <2>7. EntriesWritten' /\ KnownBase(m)
    BY <1>1, <2>4 DEF MemoryInv, EntriesWritten, KnownBase, TurnAt
  <2>8. \A p \in Messages : RowTrue(p)'
    <3>1. \A p \in Messages : row[p].status # "none" /\ Achieved(p) => Achieved(p)'
      BY <2>6, Lasting
    <3>2. ASSUME NEW p \in Messages \ {m}
          PROVE  RowTrue(p)'
      BY <1>1, <2>2, <3>1, <3>2 DEF MemoryInv, RowTrue
    <3>3. RowTrue(m)'
      BY <1>1, <1>3, <2>1, <2>2 DEF RowTrue
    <3> QED
      BY <3>2, <3>3
  <2>9. /\ doc' \in Documents /\ passed' \in SUBSET Messages /\ troubles' \in 0..MaxTroubles
        /\ mutex' \in Messages \cup {Nobody} /\ written' \in SUBSET Messages
    BY <1>1 DEF MemoryInv, MemoryTypeOK
  <2> QED
    BY <2>2, <2>4, <2>5, <2>6, <2>7, <2>8, <2>9, MessageMoves
<1> QED
  BY <1>4, <1>5 DEF Persist

-----------------------------------------------------------------------------
(* The clock, the gateway and the process.                                   *)

\* A proposal runs out of time.
LEMMA ExpireInv ==
  ASSUME MemoryInv, NEW p \in Messages, ExpireProposal(p)
  PROVE  MemoryInv'
<1>1. passed \subseteq passed' /\ UNCHANGED <<doc, row, turn, mutex, written, troubles>>
      /\ passed' = passed \cup {p}
  BY DEF ExpireProposal
<1>2. MemoryTypeOK' /\ EntriesWritten' /\ BasesKept'
  BY <1>1 DEF MemoryInv, MemoryTypeOK, EntriesWritten, BasesKept, Kept, Removed
<1>3. \A m \in Messages : RowTrue(m)' /\ InteractionTrue(m)'
  BY <1>1, SameAchieved DEF MemoryInv, RowTrue, InteractionTrue
<1>4. \A m \in Messages : AnswerTrue(m)' /\ TurnTrue(m)'
  BY <1>1, SameAchieved DEF MemoryInv, AnswerTrue, TurnTrue, Subject
<1> QED
  BY <1>2, <1>3, <1>4 DEF MemoryInv

\* The gateway gives a turn up.
LEMMA AbortInv ==
  ASSUME MemoryInv, NEW m \in Messages, AbortTurn(m)
  PROVE  MemoryInv'
<1> DEFINE t == [turn[m] EXCEPT !.aborted = TRUE]
<1>1. UNCHANGED <<doc, row, passed, mutex, written>> /\ troubles' \in 0..MaxTroubles
  BY Faults DEF AbortTurn
<1>2. turn[m] \in Turn /\ InteractionTrue(m) /\ AnswerTrue(m) /\ TurnTrue(m)
  BY Knows
<1>3. t \in Turn
  BY <1>2 DEF Turn
<1>4. /\ t.at = turn[m].at /\ t.decision = turn[m].decision /\ t.result = turn[m].result
      /\ t.id = turn[m].id /\ t.change = turn[m].change /\ t.base = turn[m].base
      /\ t.loaded = turn[m].loaded /\ t.stale = turn[m].stale /\ t.late = turn[m].late
  BY <1>2 DEF Turn
<1>5. Move(m, t)
  BY DEF AbortTurn
<1> HIDE DEF t
<1>6. OnlyTurn(m) /\ turn'[m] = t
  BY <1>3, <1>5, Moves
<1>7. InteractionTrue(m)'
  BY <1>1, <1>2, <1>4, <1>6 DEF InteractionTrue
<1>8. AnswerTrue(m)'
  BY <1>1, <1>2, <1>4, <1>6, SameAchieved DEF AnswerTrue
<1>9. TurnTrue(m)' /\ KnownBase(m)
  BY <1>1, <1>2, <1>4, <1>6 DEF TurnTrue, Subject, KnownBase
<1> QED
  BY <1>1, <1>6, <1>7, <1>8, <1>9, TurnMoves

\* After a crash a turn is done, or it starts again and has not written anything.
LEMMA StopInv ==
  ASSUME MemoryInv, Stop
  PROVE  MemoryInv'
<1>1. PICK S \in SUBSET {m \in Running : ~turn[m].aborted /\ m \notin written} :
        turn' = [m \in Messages |->
                  IF m \in S THEN [TurnAt("replay") EXCEPT !.stale = passed]
                  ELSE IF m \in Running THEN TurnAt("done") ELSE turn[m]]
  BY DEF Stop
<1>2. UNCHANGED <<doc, row, passed, written>> /\ mutex' = Nobody /\ troubles' \in 0..MaxTroubles
  BY Faults DEF Stop, Release
<1> DEFINE again == [TurnAt("replay") EXCEPT !.stale = passed]
<1>3. /\ again \in Turn /\ again.at = "replay" /\ again.id = Nobody /\ again.stale = passed
      /\ again.base = Empty
  <2>1. /\ TurnAt("replay") \in Turn /\ TurnAt("replay").at = "replay"
        /\ TurnAt("replay").id = Nobody /\ passed \in SUBSET Messages
    BY TurnAtType DEF Alone, TurnAt, MemoryInv, MemoryTypeOK
  <2> QED
    BY <2>1 DEF Turn, TurnAt
<1>4. /\ TurnAt("done") \in Turn /\ TurnAt("done").at = "done" /\ TurnAt("done").base = Empty
      /\ TurnAt("done").id = Nobody /\ TurnAt("done").stale = {}
  BY TurnAtType DEF Alone, TurnAt
<1> HIDE DEF again
<1>5. turn' \in [Messages -> Turn]
  BY <1>1, <1>3, <1>4 DEF MemoryInv, MemoryTypeOK, again
<1>6. MemoryTypeOK' /\ EntriesWritten' /\ \A m \in Messages : RowTrue(m)'
  BY <1>2, <1>5, SameAchieved DEF MemoryInv, MemoryTypeOK, EntriesWritten, RowTrue
<1>8. BasesKept'
  <2>1. \A m \in Messages : turn'[m].base \in {turn[m].base, Empty}
    BY <1>1, <1>3, <1>4 DEF again
  <2> QED
    BY <1>2, <2>1, NothingLost DEF MemoryInv, BasesKept, Kept, Removed
<1>7. ASSUME NEW m \in Messages
      PROVE  InteractionTrue(m)' /\ AnswerTrue(m)' /\ TurnTrue(m)'
  <2>1. InteractionTrue(m) /\ AnswerTrue(m) /\ TurnTrue(m)
    BY Knows
  <2>2. CASE m \in S
    <3>1. turn'[m].at = "replay" /\ turn'[m].id = Nobody /\ turn'[m].stale = passed
      BY <1>1, <1>3, <2>2 DEF again
    <3>2. row[m].status = "none" /\ m \notin written
      BY <1>1, <2>1, <2>2 DEF TurnTrue, Running
    <3> QED
      BY <1>2, <3>1, <3>2 DEF InteractionTrue, AnswerTrue, TurnTrue, Alone, Answering, Changing, Holding
  <2>3. CASE m \notin S /\ m \in Running
    <3>1. turn'[m] = TurnAt("done")
      BY <1>1, <2>3
    <3> QED
      BY <3>1, TurnEnds
  <2>4. CASE m \notin S /\ m \notin Running
    <3>1. turn'[m] = turn[m] /\ turn[m].at \in {"unsent", "done"}
      BY <1>1, <2>4 DEF Running
    <3> QED
      BY <1>2, <2>1, <3>1 DEF InteractionTrue, AnswerTrue, TurnTrue, Alone, Answering, Changing, Holding
  <2> QED
    BY <2>2, <2>3, <2>4
<1> QED
  BY <1>6, <1>7, <1>8 DEF MemoryInv

-----------------------------------------------------------------------------
(* The theorems.                                                             *)

\* The first state: rows that wait for an answer, and messages not sent yet.
LEMMA InitInv == MemoryInit => MemoryInv
<1> SUFFICES ASSUME MemoryInit
             PROVE  MemoryInv
  OBVIOUS
<1>1. /\ doc = [Empty EXCEPT ![<<"old", 0>>] = <<"old", 0>>] /\ doc \in Documents
      /\ passed = {} /\ mutex = Nobody /\ written = {} /\ troubles = 0
  BY EmptyDocument DEF MemoryInit, Documents, Entries
<1>2. PICK c \in [Prompted -> UNION {Changes(<<s, 1>>, doc) : s \in Prompted}] :
        /\ \A s \in Prompted : c[s] \in Changes(<<s, 1>>, doc)
        /\ row = [m \in Messages |-> IF m[2] = 1 /\ m[1] \in Prompted
                                     THEN Pending(c[m[1]], doc) ELSE NoRow]
  BY DEF MemoryInit
<1>3. \A m \in Messages : m[2] = 1 /\ m[1] \in Prompted =>
        c[m[1]] \in ProperChanges /\ c[m[1]] \in Changes(m, doc)
  <2> SUFFICES ASSUME NEW m \in Messages, m[2] = 1, m[1] \in Prompted
               PROVE  c[m[1]] \in ProperChanges /\ c[m[1]] \in Changes(m, doc)
    OBVIOUS
  <2>1. m = <<m[1], 1>>
    BY DEF Messages
  <2>2. c[m[1]] \in Changes(m, doc)
    BY <1>2, <2>1
  <2> QED
    BY <2>2, ChangesProper
<1>4. \A m \in Messages :
        /\ row[m] \in Row
        /\ row[m].status \in {"none", "pending"} /\ row[m].decision = "none" /\ row[m].by = Nobody
        /\ row[m].status # "none" => /\ row[m].change \in Changes(m, doc) /\ row[m].base = doc
                                     /\ m[2] = 1 /\ m[1] \in Prompted
  <2> SUFFICES ASSUME NEW m \in Messages
               PROVE  /\ row[m] \in Row
                      /\ row[m].status \in {"none", "pending"} /\ row[m].decision = "none"
                      /\ row[m].by = Nobody
                      /\ row[m].status # "none" => /\ row[m].change \in Changes(m, doc)
                                                   /\ row[m].base = doc
                                                   /\ m[2] = 1 /\ m[1] \in Prompted
    OBVIOUS
  <2>1. CASE m[2] = 1 /\ m[1] \in Prompted
    <3>1. row[m] = Pending(c[m[1]], doc)
      BY <1>2, <2>1
    <3>2. c[m[1]] \in ProperChanges /\ c[m[1]] \in Changes(m, doc)
      BY <1>3, <2>1
    <3>3. /\ row[m] \in Row /\ row[m].status = "pending" /\ row[m].decision = "none"
          /\ row[m].change = c[m[1]] /\ row[m].base = doc /\ row[m].by = Nobody
      BY <1>1, <3>1, <3>2, RowTypes
    <3> QED
      BY <2>1, <3>2, <3>3
  <2>2. CASE ~(m[2] = 1 /\ m[1] \in Prompted)
    <3>1. row[m] = NoRow
      BY <1>2, <2>2
    <3> QED
      BY <3>1, RowTypes DEF NoRow
  <2> QED
    BY <2>1, <2>2
<1>5. \A m \in Messages :
        /\ turn[m] \in Turn /\ turn[m].at \in {"unsent", "done"} /\ turn[m].id = Nobody
        /\ turn[m].stale = {} /\ turn[m].base = Empty
        /\ m[2] = 1 /\ m[1] \in Prompted => turn[m].at = "done"
  <2> SUFFICES ASSUME NEW m \in Messages
               PROVE  /\ turn[m] \in Turn /\ turn[m].at \in {"unsent", "done"}
                      /\ turn[m].id = Nobody /\ turn[m].stale = {} /\ turn[m].base = Empty
                      /\ m[2] = 1 /\ m[1] \in Prompted => turn[m].at = "done"
    OBVIOUS
  <2>1. turn[m] = TurnAt(IF m[2] = 1 /\ m[1] \in Prompted THEN "done" ELSE "unsent")
    BY DEF MemoryInit
  <2>2. \A l \in {"unsent", "done"} : /\ TurnAt(l) \in Turn /\ TurnAt(l).at = l
                                      /\ TurnAt(l).id = Nobody /\ TurnAt(l).stale = {}
                                      /\ TurnAt(l).base = Empty
    BY TurnAtType DEF Alone, TurnAt
  <2> QED
    BY <2>1, <2>2
<1>6. row \in [Messages -> Row] /\ turn \in [Messages -> Turn]
  BY <1>2, <1>4, <1>5 DEF MemoryInit
<1>7. MemoryTypeOK
  BY <1>1, <1>6, MemoryAssumption DEF MemoryTypeOK
<1>8. EntriesWritten
  BY <1>1, Names DEF EntriesWritten, Empty
<1>12. BasesKept
  BY <1>4, <1>5, NothingLost DEF BasesKept
<1>9. \A m \in Messages : RowTrue(m)
  BY <1>1, <1>4 DEF RowTrue
<1>10. \A m \in Messages : InteractionTrue(m) /\ AnswerTrue(m)
  BY <1>5 DEF InteractionTrue, AnswerTrue, Answering, Changing
<1>11. \A m \in Messages : TurnTrue(m)
  BY <1>1, <1>4, <1>5 DEF TurnTrue, Changing, Holding
<1> QED
  BY <1>7, <1>8, <1>9, <1>10, <1>11, <1>12 DEF MemoryInv

\* Whatever the members, their messages and the kinds of change, the rows, the turns,
\* the mutex and the document agree with each other (MemoryInv): the repository, the
\* router and the session memory keep each other's assumptions.
THEOREM MemoryInvariant == MemorySpec => []MemoryInv
<1>1. MemoryInv /\ [MemoryNext]_memoryVars => MemoryInv'
  <2> SUFFICES ASSUME MemoryInv, [MemoryNext]_memoryVars
               PROVE  MemoryInv'
    OBVIOUS
  <2>1. ASSUME NEW m \in Messages, MessageStep(m)
        PROVE  MemoryInv'
    BY <2>1, ReplayInv, FindOpenInv, ClassifyInputInv, ClaimInv, ResolvePendingInv, RecoverInv,
       ExamineInv, LoadInv, WriteInv, ReadbackInv, ReplyInv, RecordInv, InspectInv, MutateInv,
       ValidateInv, PersistInv DEF MessageStep
  <2>2. CASE UNCHANGED memoryVars
    BY <2>2 DEF memoryVars, MemoryInv, MemoryTypeOK, EntriesWritten, BasesKept, Kept, Removed,
                Achieved, RowTrue, InteractionTrue, AnswerTrue, TurnTrue, Subject
  <2> QED
    BY <2>1, <2>2, SendInv, AbortInv, ExpireInv, StopInv DEF MemoryNext
<1> QED
  BY <1>1, InitInv, PTL DEF MemorySpec

\* "applied" was written, or others have written what comes to the same (Achieved),
\* and "rejected" never was: a recovery that finds the effect in the document finds
\* what somebody has written there, or has removed.
THEOREM RecordIsTrueAlways == MemorySpec => []RecordIsTrue
<1>1. MemoryInv => RecordIsTrue
  BY DEF MemoryInv, RowTrue, RecordIsTrue
<1> QED
  BY <1>1, MemoryInvariant, PTL

\* Only applyWorkingMemoryMutation writes the document.
LEMMA OnlyWrite ==
  ASSUME [MemoryNext]_memoryVars, doc' # doc \/ written' # written
  PROVE  \E m \in Messages : /\ Write(m) /\ turn[m].loaded = turn[m].base
                             /\ written' = written \cup {Subject(m)}
<1>1. \E m \in Messages : Write(m)
  BY ZenonT(30) DEF MemoryNext, MessageStep, memoryVars, Send, AbortTurn, ExpireProposal, Stop, Replay,
         FindOpen, ClassifyInput, Claim, ResolvePending, Recover, Examine, Load, Readback, Reply,
         Record, Inspect, Mutate, Propose, Validate, Persist
<1> QED
  BY <1>1 DEF Write

\* A write finds the document as it was when the change was proposed: the revision is
\* compared with the document as loaded, and under the mutex that is the document.
THEOREM WritesOnWhatWasShownAlways == MemorySpec => WritesOnWhatWasShown
<1>1. MemoryInv /\ [MemoryNext]_memoryVars =>
        [doc' # doc => \E m \in Messages : At(m, "write") /\ doc = turn[m].base]_memoryVars
  <2> SUFFICES ASSUME MemoryInv, [MemoryNext]_memoryVars, doc' # doc
               PROVE  \E m \in Messages : At(m, "write") /\ doc = turn[m].base
    OBVIOUS
  <2>1. PICK m \in Messages : Write(m) /\ turn[m].loaded = turn[m].base
    BY OnlyWrite
  <2>2. At(m, "write") /\ turn[m].loaded = doc
    BY <2>1 DEF Write, At, MemoryInv, TurnTrue
  <2> QED
    BY <2>1, <2>2
<1> QED
  BY <1>1, MemoryInvariant, PTL DEF MemorySpec, WritesOnWhatWasShown

\* A proposal that waits for an answer is written only after its own member approved
\* it, in a turn that began before the quarter of an hour was over.
THEOREM ApprovedInTimeAlways == MemorySpec => ApprovedInTime
<1>1. MemoryInv /\ [MemoryNext]_memoryVars =>
        [\A p \in written' \ written :
           row[p].status # "none" =>
             /\ row[p].decision = "approve"
             /\ \E m \in Messages : /\ At(m, "write")
                                    /\ Speaker(m) = Speaker(p)
                                    /\ p \notin turn[m].stale]_memoryVars
  <2> SUFFICES ASSUME MemoryInv, [MemoryNext]_memoryVars, NEW p \in written' \ written,
                      row[p].status # "none"
               PROVE  /\ row[p].decision = "approve"
                      /\ \E m \in Messages : /\ At(m, "write")
                                             /\ Speaker(m) = Speaker(p)
                                             /\ p \notin turn[m].stale
    OBVIOUS
  <2>1. PICK m \in Messages : Write(m) /\ written' = written \cup {Subject(m)}
    BY OnlyWrite
  <2>2. At(m, "write") /\ p = Subject(m)
    BY <2>1 DEF Write
  <2>3. AnswerTrue(m) /\ InteractionTrue(m) /\ TurnTrue(m)
    BY Knows
  <2>4. turn[m].id # Nobody /\ p = turn[m].id
    BY <2>2, <2>3 DEF Subject, At, TurnTrue
  <2> QED
    BY <2>2, <2>3, <2>4 DEF At, AnswerTrue, InteractionTrue, Changing
<1> QED
  BY <1>1, MemoryInvariant, PTL DEF MemorySpec, ApprovedInTime

\* An outcome that is recorded stays: claim, expire and complete take rows that are
\* still open, and create makes the row of a message that has none.
THEOREM OutcomeIsFinalAlways == MemorySpec => OutcomeIsFinal
<1>1. MemoryInv /\ [MemoryNext]_memoryVars =>
        [\A p \in Messages :
           row[p].status \notin OpenStatus \cup {"none"} => row'[p].status = row[p].status]_memoryVars
  <2> SUFFICES ASSUME MemoryInv, [MemoryNext]_memoryVars, NEW p \in Messages,
                      row[p].status \notin OpenStatus \cup {"none"}
               PROVE  row'[p].status = row[p].status
    OBVIOUS
  <2>1. row \in [Messages -> Row]
    BY DEF MemoryInv, MemoryTypeOK
  <2>2. CASE row' = row
    BY <2>2
  <2>3. ASSUME NEW m \in Messages, Claim(m)
        PROVE  row'[p].status = row[p].status
    <3>1. CASE turn[m].id = p
      BY <2>3, <3>1 DEF Claim, OpenStatus
    <3>2. CASE turn[m].id # p
      BY <2>1, <2>3, <3>2 DEF Claim
    <3> QED
      BY <3>1, <3>2
  <2>4. ASSUME NEW m \in Messages, Record(m)
        PROVE  row'[p].status = row[p].status
    <3>1. CASE turn[m].id = p
      BY <2>4, <3>1 DEF Record, MayExpire, MayComplete, OpenStatus
    <3>2. CASE turn[m].id # p
      BY <2>1, <2>4, <3>2 DEF Record
    <3> QED
      BY <3>1, <3>2
  <2>5. ASSUME NEW m \in Messages, Persist(m)
        PROVE  row'[p].status = row[p].status
    <3>1. p # m
      BY <2>5 DEF MemoryInv, TurnTrue, Persist, At
    <3> QED
      BY <2>1, <2>5, <3>1 DEF Persist
  <2>6. row' = row \/ \E m \in Messages : Claim(m) \/ Record(m) \/ Persist(m)
    BY ZenonT(30) DEF MemoryNext, MessageStep, memoryVars, Send, AbortTurn, ExpireProposal, Stop, Replay,
           FindOpen, ClassifyInput, ResolvePending, Recover, Examine, Load, Write, Readback, Reply,
           Inspect, Mutate, Propose, Validate
  <2> QED
    BY <2>2, <2>3, <2>4, <2>5, <2>6
<1> QED
  BY <1>1, MemoryInvariant, PTL DEF MemorySpec, OutcomeIsFinal
=============================================================================
