------------------------------ MODULE Telegram ------------------------------
(***************************************************************************)
(* How a Telegram message enters: the receiver (long polling or webhook),  *)
(* the update processor, the pairing of a Telegram user with a household   *)
(* (TelegramPairingService over channel_pairing_requests and               *)
(* channel_principals) and the conversation a chat writes to.  The Bot API *)
(* is external: it keeps an update until the receiver acknowledges it.     *)
(***************************************************************************)
EXTENDS Naturals, Sequences, FiniteSets, FiniteSetsExt

CONSTANTS
    Updates,     \* the updates in the order Telegram numbers them: who sent each text
    Handlers,    \* calls of TelegramUpdateProcessor.handle that can run at once
    Poller,      \* the one of them the polling loop uses
    Approvers,   \* calls of approveCode; each approves for a household of its own
    RateLimit,   \* RATE_LIMIT_MS, CODE_TTL_MS and LOCKOUT_MS in ticks
    CodeTtl, Lockout,
    MaxPending,  \* MAX_PENDING
    MaxFailed,   \* MAX_FAILED_ATTEMPTS
    MaxRetries,  \* maxConflictRetries and maxNetworkRetries
    MaxClock,    \* bounds on the clock, on commands and on failures
    MaxPairingCommands, MaxTroubles,
    Nobody

ASSUME TelegramAssumption ==
    /\ Len(Updates) \in Nat /\ DOMAIN Updates = 1 .. Len(Updates)
    /\ IsFiniteSet(Handlers) /\ Poller \in Handlers
    /\ {RateLimit, CodeTtl, Lockout, MaxPending, MaxFailed} \subseteq Nat \ {0}
    /\ {MaxRetries, MaxClock, MaxPairingCommands, MaxTroubles} \subseteq Nat
    /\ Nobody \notin Approvers

VARIABLES
    clock,
    polling,      \* the receiver mode the process is configured with
    acked,        \* the updates Telegram will not deliver again
    receiver,     \* the polling loop: step, offset, batch and retry counters
    handler,      \* each call of handle
    handled,      \* the updates that were answered, ignored or given to the gateway
    pairingRows,  \* channel_pairing_requests in the order of created_at
    principal,    \* channel_principals: the household of a user's active row
    lane,         \* conversations started for a chat; the last one is its active lane
    approver,     \* each call of approveCode
    pairingCommands, troubles
chatVars == <<handled, lane>>
pairingVars == <<pairingRows, principal>>
receiverVars == <<acked, receiver>>
boundVars == <<pairingCommands, troubles>>
telegramVars == <<clock, polling, receiverVars, handler, chatVars, pairingVars, approver, boundVars>>

Ids == DOMAIN Updates
Users == {Updates[k] : k \in Ids}
Idle == [at |-> "idle", update |-> 0, now |-> 0]
Resting == [at |-> "idle", row |-> 0, lock |-> 0]
Down == [at |-> "down", offset |-> 1, batch |-> <<>>, retries |-> [conflict |-> 0, network |-> 0]]

TelegramInit ==
    /\ clock = 0 /\ polling \in BOOLEAN
    /\ acked = {} /\ receiver = Down
    /\ handler = [h \in Handlers |-> Idle]
    /\ handled = {}
    /\ pairingRows = <<>> /\ principal = [u \in Users |-> Nobody]
    /\ lane = [u \in Users |-> 0]
    /\ approver = [a \in Approvers |-> Resting]
    /\ pairingCommands = 0 /\ troubles = 0

Tick == /\ clock < MaxClock /\ clock' = clock + 1
        /\ UNCHANGED <<polling, receiverVars, handler, chatVars, pairingVars, approver, boundVars>>

-----------------------------------------------------------------------------
(* Pairing *)

(* listPendingRequests: ids of the rows neither consumed nor expired. *)
PendingAt(now) == {i \in DOMAIN pairingRows : ~pairingRows[i].consumed /\ pairingRows[i].expires > now}
IsApprovalLocked(i, now) == pairingRows[i].lockedUntil > now

(* (seeded fault: one request too many) *)
TooManyByOne(pending, existing) == Cardinality(pending) > MaxPending /\ existing = {}

TooMany(pending, existing) == Cardinality(pending) >= MaxPending /\ existing = {}

(* The verdict of createPairingRequest on the list it read. *)
PairingVerdict(u, now) ==
    LET pending == PendingAt(now)
        existing == {i \in pending : pairingRows[i].user = u}
    IN  IF \E i \in existing : pairingRows[i].lastSent + RateLimit > now THEN "rate-limited"
        ELSE IF TooMany(pending, existing) THEN "too-many-pending"
        ELSE "created"
(* upsertPendingRequest: one unconsumed row per user, expired or not. *)
UpsertedRequests(u, now) ==
    LET row == [user |-> u, expires |-> now + CodeTtl, lastSent |-> now,
                failed |-> 0, lockedUntil |-> 0, consumed |-> FALSE]
        open == {i \in DOMAIN pairingRows : pairingRows[i].user = u /\ ~pairingRows[i].consumed}
    IN  IF open = {} THEN Append(pairingRows, row)
        ELSE [i \in DOMAIN pairingRows |-> IF i \in open THEN row ELSE pairingRows[i]]

(* approveCode reads the list; a code that matches leads to the consuming   *)
(* transaction unless its row is locked, any other counts against the first *)
(* row that is not locked, and the count read decides on the lock.  The     *)
(* input is the row whose current code was typed, 0 for any other code.     *)
ReadForApproval(a, holder) ==
    /\ approver[a].at = "idle" /\ pairingCommands < MaxPairingCommands
    /\ pairingCommands' = pairingCommands + 1
    /\ LET pending == PendingAt(clock)
           matching == pending \cap {holder}
           open == {i \in pending : ~IsApprovalLocked(i, clock)}
       IN  \/ /\ matching \cap open # {}
              /\ approver' = [approver EXCEPT ![a] = [Resting EXCEPT !.at = "consume", !.row = Min(matching)]]
           \/ /\ matching = {} /\ open # {}
              /\ LET lock == IF pairingRows[Min(open)].failed + 1 >= MaxFailed THEN clock + Lockout ELSE 0
                 IN  approver' = [approver EXCEPT ![a] = [at |-> "fail", row |-> Min(open), lock |-> lock]]
           \/ /\ (matching # {} /\ matching \cap open = {}) \/ (matching = {} /\ open = {})
              /\ UNCHANGED approver
    /\ UNCHANGED <<clock, polling, receiverVars, handler, chatVars, pairingVars, troubles>>

(* (seeded fault: a request can be consumed twice) *)
MayConsumeAgain(i) == TRUE

(* consumePendingAndApprove: the row is taken by its id if it is still      *)
(* unconsumed, and the user's active principal is inserted or overwritten.  *)
MayConsume(i) == ~pairingRows[i].consumed
Consume(a) ==
    /\ approver[a].at = "consume"
    /\ LET i == approver[a].row
       IN  IF MayConsume(i)
           THEN /\ pairingRows' = [pairingRows EXCEPT ![i].consumed = TRUE]
                /\ principal' = [principal EXCEPT ![pairingRows[i].user] = a]
           ELSE UNCHANGED <<pairingRows, principal>>
    /\ approver' = [approver EXCEPT ![a] = Resting]
    /\ UNCHANGED <<clock, polling, receiverVars, handler, chatVars, boundVars>>

(* recordFailedApprovalAttempt: the count goes up where it is now. *)
CountFailure(a) ==
    /\ approver[a].at = "fail"
    /\ LET i == approver[a].row
           lock == approver[a].lock
       IN  pairingRows' = [pairingRows EXCEPT ![i].failed = @ + 1,
                                ![i].lockedUntil = IF lock = 0 THEN @ ELSE lock]
    /\ approver' = [approver EXCEPT ![a] = Resting]
    /\ UNCHANGED <<clock, polling, receiverVars, handler, chatVars, principal, boundVars>>

(* Either transaction fails and rolls back: the call throws. *)
ApprovalFails(a) ==
    /\ approver[a].at # "idle" /\ troubles < MaxTroubles
    /\ troubles' = troubles + 1
    /\ approver' = [approver EXCEPT ![a] = Resting]
    /\ UNCHANGED <<clock, polling, receiverVars, handler, chatVars, pairingVars, pairingCommands>>

Revoke(u) ==
    /\ principal[u] # Nobody /\ pairingCommands < MaxPairingCommands
    /\ pairingCommands' = pairingCommands + 1
    /\ principal' = [principal EXCEPT ![u] = Nobody]
    /\ UNCHANGED <<clock, polling, receiverVars, handler, chatVars, pairingRows, approver, troubles>>

-----------------------------------------------------------------------------
(* TelegramUpdateProcessor.handle *)

From(h) == Updates[handler[h].update]
Move(h, at) == handler' = [handler EXCEPT ![h].at = at]
(* A return: the polling loop moves its offset past the update; a webhook   *)
(* call answers 200, which acknowledges the update.                         *)
Return(h) ==
    /\ handled' = handled \cup {handler[h].update}
    /\ handler' = [handler EXCEPT ![h] = Idle]
    /\ IF polling
       THEN /\ receiver' = [receiver EXCEPT !.offset = handler[h].update + 1, !.batch = Tail(@)]
            /\ UNCHANGED acked
       ELSE acked' = acked \cup {handler[h].update} /\ UNCHANGED receiver

(* handle begins and findPrincipal reads the sender's active principal.     *)
(* Updates that are not private texts with a sender return at once and are  *)
(* left out.                                                                *)
ReceiveUpdate(h, k) ==
    /\ handler' = [handler EXCEPT ![h] =
         [Idle EXCEPT !.update = k, !.at = IF principal[Updates[k]] = Nobody THEN "pair" ELSE "resolve"]]
    /\ UNCHANGED <<clock, polling, receiverVars, chatVars, pairingVars, approver, boundVars>>
Handling == {handler[h].update : h \in {g \in Handlers : handler[g].at # "idle"}}
JudgePairing(h) ==
    /\ handler[h].at = "pair"
    /\ handler' = [handler EXCEPT ![h] = IF PairingVerdict(From(h), clock) = "created"
                                          THEN [@ EXCEPT !.at = "upsert", !.now = clock]
                                          ELSE [@ EXCEPT !.at = "reply"]]
    /\ UNCHANGED <<clock, polling, receiverVars, chatVars, pairingVars, approver, boundVars>>
UpsertRequest(h) ==
    /\ handler[h].at = "upsert"
    /\ pairingRows' = UpsertedRequests(From(h), handler[h].now)
    /\ handler' = [handler EXCEPT ![h].at = "reply", ![h].now = 0]
    /\ UNCHANGED <<clock, polling, receiverVars, chatVars, principal, approver, boundVars>>
(* sendMessage with the code or with the reason there is none. *)
Reply(h) ==
    /\ handler[h].at = "reply"
    /\ Return(h)
    /\ UNCHANGED <<clock, polling, lane, pairingVars, approver, boundVars>>
(* resolveActiveConversation, and startNewConversation when there is none. *)
ResolveConversation(h) ==
    /\ handler[h].at = "resolve"
    /\ Move(h, IF lane[From(h)] = 0 THEN "start" ELSE "inbound")
    /\ UNCHANGED <<clock, polling, receiverVars, chatVars, pairingVars, approver, boundVars>>
StartNewConversation(h) ==
    /\ handler[h].at = "start"
    /\ lane' = [lane EXCEPT ![From(h)] = @ + 1]
    /\ Move(h, "inbound")
    /\ UNCHANGED <<clock, polling, receiverVars, handled, pairingVars, approver, boundVars>>
(* inboundHandler: the channel gateway (ChannelGateway) takes the message. *)
Inbound(h) ==
    /\ handler[h].at = "inbound"
    /\ Return(h)
    /\ UNCHANGED <<clock, polling, lane, pairingVars, approver, boundVars>>

-----------------------------------------------------------------------------
(* The receivers *)

(* The process comes up; polling clears the webhook first (deleteWebhook    *)
(* with its own retries), and starts without an offset.                     *)
Start ==
    /\ receiver.at = "down"
    /\ receiver' = [Down EXCEPT !.at = IF polling THEN "clear" ELSE "serve"]
    /\ UNCHANGED <<clock, polling, acked, handler, chatVars, pairingVars, approver, boundVars>>
DeleteWebhook ==
    /\ receiver.at = "clear"
    /\ receiver' = [receiver EXCEPT !.at = "poll", !.retries.network = 0]
    /\ UNCHANGED <<clock, polling, acked, handler, chatVars, pairingVars, approver, boundVars>>

(* getUpdates: the offset acknowledges what lies below it, and the reply is *)
(* what has arrived since, in order.                                        *)
GetUpdates ==
    /\ receiver.at = "poll" /\ receiver.batch = <<>>
    /\ acked' = acked \cup 1 .. (receiver.offset - 1)
    /\ \E last \in receiver.offset - 1 .. Len(Updates) :
          receiver' = [receiver EXCEPT !.retries = Down.retries,
                         !.batch = [i \in 1 .. (last + 1 - receiver.offset) |-> receiver.offset + i - 1]]
    /\ UNCHANGED <<clock, polling, handler, chatVars, pairingVars, approver, boundVars>>
HandlePolled ==
    /\ receiver.at = "poll" /\ receiver.batch # <<>> /\ handler[Poller].at = "idle"
    /\ ReceiveUpdate(Poller, Head(receiver.batch))

(* A call of the Bot API fails: a conflict or a transient error is retried  *)
(* while its own counter allows, anything else ends the loop.  An error of  *)
(* the loop is thrown from setImmediate and ends the process.               *)
ApiFails(kind) ==
    /\ receiver.at \in {"clear", "poll"} /\ receiver.batch = <<>> /\ troubles < MaxTroubles
    /\ kind = "conflict" => receiver.at = "poll"
    /\ troubles' = troubles + 1
    /\ receiver' = IF kind = "fatal" \/ receiver.retries[kind] = MaxRetries THEN Down
                   ELSE [receiver EXCEPT !.retries[kind] = @ + 1]
    /\ UNCHANGED <<clock, polling, acked, handler, chatVars, pairingVars, approver, pairingCommands>>

(* The webhook route hands an update to a call of its own; Telegram sends   *)
(* one it has no answer for again.                                          *)
HandlePosted(h, k) ==
    /\ receiver.at = "serve" /\ handler[h].at = "idle"
    /\ k \notin acked /\ k \notin Handling
    /\ ReceiveUpdate(h, k)

(* (seeded fault: an update whose handler threw is skipped) *)
ThrowSkipsUpdate(h) ==
    /\ handler[h].at # "idle" /\ troubles < MaxTroubles
    /\ troubles' = troubles + 1
    /\ handler' = [handler EXCEPT ![h] = Idle]
    /\ receiver' = IF polling THEN [receiver EXCEPT !.offset = @ + 1, !.batch = Tail(@)] ELSE receiver
    /\ UNCHANGED <<clock, polling, acked, chatVars, pairingVars, approver, pairingCommands>>

(* A call of handle throws, with a step of it done or not: the polling loop *)
(* ends and the process with it, a webhook call answers 500.                *)
HandleThrows(h) ==
    /\ handler[h].at # "idle" /\ troubles < MaxTroubles
    /\ troubles' = troubles + 1
    /\ handler' = [handler EXCEPT ![h] = Idle]
    /\ receiver' = IF polling THEN Down ELSE receiver
    /\ UNCHANGED <<clock, polling, acked, chatVars, pairingVars, approver, pairingCommands>>
(* The process dies: offset, batch and every call are gone. *)
Crash ==
    /\ receiver.at # "down" /\ troubles < MaxTroubles
    /\ troubles' = troubles + 1
    /\ receiver' = Down
    /\ handler' = [h \in Handlers |-> Idle]
    /\ UNCHANGED <<clock, polling, acked, chatVars, pairingVars, approver, pairingCommands>>

HandleStep(h) ==
    \/ JudgePairing(h) \/ UpsertRequest(h) \/ Reply(h)
    \/ ResolveConversation(h) \/ StartNewConversation(h) \/ Inbound(h)
ReceiveStep == Start \/ DeleteWebhook \/ GetUpdates \/ HandlePolled
ApproveStep(a) == \/ \E holder \in 0 .. Len(pairingRows) : ReadForApproval(a, holder)
                  \/ Consume(a) \/ CountFailure(a) \/ ApprovalFails(a)
TelegramNext ==
    \/ Tick \/ ReceiveStep \/ Crash
    \/ \E kind \in {"conflict", "network", "fatal"} : ApiFails(kind)
    \/ \E h \in Handlers : HandleStep(h) \/ HandleThrows(h) \/ \E k \in Ids : HandlePosted(h, k)
    \/ \E a \in Approvers : ApproveStep(a)
    \/ \E u \in Users : Revoke(u)
TelegramSpec == TelegramInit /\ [][TelegramNext]_telegramVars

-----------------------------------------------------------------------------
(* What Telegram will not deliver again has been handled to the end, in     *)
(* either mode and through crashes, failed calls and redeliveries (the      *)
(* offset moves after handle, TelegramPollingReceiver.start).               *)
HandledBeforeAcknowledged == acked \subseteq handled

(* An approval stands until it is revoked or a later request of the user is *)
(* approved: two approvals of one request, at the same time and for two     *)
(* households, leave the household of the first (consumePendingAndApprove). *)
ApprovalStands ==
    [][\A u \in Users :
          principal[u] # Nobody /\ principal'[u] \notin {principal[u], Nobody} =>
            \E i \in DOMAIN pairingRows :
              /\ pairingRows[i].user = u
              /\ ~pairingRows[i].consumed /\ pairingRows'[i].consumed]_telegramVars

(* The calls of handle that can run at once in the mode of the receiver.    *)
Callers == IF polling THEN {Poller} ELSE Handlers

(* The list createPairingRequest checks against MAX_PENDING is read before  *)
(* the insert.  One by one the calls of the polling loop keep the limit;    *)
(* webhook calls that run side by side go past it by one for each further   *)
(* call, never more, whatever expires, is approved or is sent again.        *)
PendingBounded == Cardinality(PendingAt(clock)) <= MaxPending + Cardinality(Callers) - 1
-----------------------------------------------------------------------------
(* The inductive invariant behind them.                                     *)

PairingRow == [user : Users, expires : Nat, lastSent : Nat, failed : Nat,
               lockedUntil : Nat, consumed : BOOLEAN]
HandleCall == [at : {"idle", "pair", "upsert", "reply", "resolve", "start", "inbound"},
               update : Nat, now : Nat]
ApproveCall == [at : {"idle", "consume", "fail"}, row : Nat, lock : Nat]
TelegramTypeOK ==
    /\ clock \in Nat /\ polling \in BOOLEAN
    /\ acked \subseteq Ids /\ handled \subseteq Ids
    /\ receiver \in [at : {"down", "clear", "poll", "serve"}, offset : Nat, batch : Seq(Ids),
                     retries : [conflict : Nat, network : Nat]]
    /\ handler \in [Handlers -> HandleCall]
    /\ \A h \in Handlers : handler[h].at # "idle" => handler[h].update \in Ids
    /\ pairingRows \in Seq(PairingRow)
    /\ principal \in [Users -> Approvers \cup {Nobody}]
    /\ lane \in [Users -> Nat]
    /\ approver \in [Approvers -> ApproveCall]
    /\ \A a \in Approvers : approver[a].at # "idle" => approver[a].row \in DOMAIN pairingRows
    /\ pairingCommands \in Nat /\ troubles \in Nat

(* The polling loop hands over the updates one by one: what lies below its  *)
(* offset is handled, the batch starts at it, and only its own call runs.   *)
PolledInOrder ==
    IF polling
    THEN /\ receiver.at # "serve" /\ receiver.offset >= 1
         /\ receiver.batch # <<>> => receiver.at = "poll"
         /\ 1 .. receiver.offset - 1 \subseteq handled
         /\ \A i \in DOMAIN receiver.batch : receiver.batch[i] = receiver.offset + i - 1
         /\ \A h \in Handlers : handler[h].at # "idle" =>
               h = Poller /\ receiver.batch # <<>> /\ handler[h].update = receiver.offset
    ELSE receiver.at \in {"down", "serve"}

(* upsertPendingRequest keeps one unconsumed request per user.              *)
OneOpenRequest ==
    \A i, j \in DOMAIN pairingRows :
      pairingRows[i].user = pairingRows[j].user /\ ~pairingRows[i].consumed /\ ~pairingRows[j].consumed
        => i = j

(* A user with an open request, or with a call about to write one; only a   *)
(* verdict adds a user, and it found the limit kept.                        *)
Applicants == {pairingRows[i].user : i \in PendingAt(clock)}
                \cup {From(h) : h \in {g \in Handlers : handler[g].at = "upsert"}}
RoomForApplicants == Cardinality(Applicants) <= MaxPending + Cardinality(Callers) - 1

TelegramInv ==
    /\ TelegramTypeOK /\ PolledInOrder /\ OneOpenRequest /\ RoomForApplicants
    /\ HandledBeforeAcknowledged
=============================================================================
