---------------------------- MODULE TelegramBot ----------------------------
(***************************************************************************)
(* The Telegram frontend: the goroutine that connects, drains and polls    *)
(* the Bot API, the goroutine that sends the queued messages, the server   *)
(* that keeps the updates until they are acknowledged, and the death and   *)
(* restart of the whole program (a crash, or a deploy of itself).          *)
(*                                                                         *)
(* An update and a message are numbered by their arrival.  The text of a   *)
(* message, its rendering and truncation are left out; a delay is a state  *)
(* to be left after some time.                                             *)
(***************************************************************************)
EXTENDS Integers, Sequences

CONSTANTS Arriving,         \* the updates that arrive in the checked instance
          BatchSize,        \* updates in one answer of getUpdates
          OutboxSize,       \* outboxSize
          MaxSendRetries,   \* maxSendRetries
          MaxUpdates, MaxMessages, MaxBoots    \* bounds of the instance

Update == [chat : {"configured", "other"},
           from : {"person", "anonymous admin", "bot", "self"},
           command : BOOLEAN]

ASSUME TelegramAssumption ==
  /\ Arriving \subseteq Update
  /\ BatchSize \in Nat \ {0}
  /\ OutboxSize \in Nat \ {0}
  /\ MaxSendRetries \in Nat
  /\ MaxUpdates \in Nat /\ MaxMessages \in Nat /\ MaxBoots \in Nat

VARIABLES
  updates,     \* the server: every update of the chat, by update_id
  forgotten,   \* the server: the updates up to this id are acknowledged
  boots,       \* how often the program was started
  pc,          \* where the connect and poll goroutine is
  cancelled,   \* the context of Run is done
  offset,      \* b.offset
  drained,     \* b.drained
  ready,       \* b.readyCh is closed
  readyAt,     \* how many updates there were when it was closed
  batch,       \* the updates of the last answer that are still to be handled
  outbox,      \* b.outbox
  sender,      \* where the sender goroutine is
  sending,     \* the message it is sending, 0 for none
  attempt,     \* how often that message was refused with 429
  queued,      \* how many messages were given to enqueue
  handled,     \* the ids of the commands that were dispatched, in that order
  posted       \* the messages in the chat, in that order

serverVars == <<updates, forgotten>>
pollVars   == <<pc, offset, drained, ready, readyAt, batch>>
sendVars   == <<sender, sending, attempt>>
queueVars  == <<outbox, queued>>
vars == <<serverVars, boots, cancelled, pollVars, sendVars, queueVars, handled, posted>>

MaxOf(a, b) == IF a < b THEN b ELSE a

-----------------------------------------------------------------------------
(* The server                                                              *)

\* A call acknowledges every update before its offset.
Acknowledged == MaxOf(forgotten, offset - 1)

\* The call with offset -1 forgets all but the newest update.
AllButNewest == MaxOf(forgotten, Len(updates) - 1)

\* The id of the update that the poll loop takes next.
NextId == MaxOf(forgotten + 1, offset)

\* getUpdates answers with the oldest updates from the offset on that are not acknowledged.
Answer ==
  LET first == NextId
      last  == IF first + BatchSize - 1 < Len(updates) THEN first + BatchSize - 1 ELSE Len(updates)
  IN  [k \in 1..(last - first + 1) |-> first + k - 1]

UserWrites ==
  /\ Len(updates) < MaxUpdates
  /\ \E u \in Arriving : updates' = Append(updates, u)
  /\ UNCHANGED <<forgotten, boots, cancelled, pollVars, sendVars, queueVars, handled, posted>>

-----------------------------------------------------------------------------
(* The program starts and dies; only the server and the chat outlive it    *)

Up == pc # "down"

Init ==
  /\ updates = <<>> /\ forgotten = 0
  /\ boots = 0
  /\ pc = "down" /\ offset = 0 /\ drained = FALSE /\ ready = FALSE /\ readyAt = 0 /\ batch = <<>>
  /\ cancelled = FALSE
  /\ sender = "idle" /\ sending = 0 /\ attempt = 0
  /\ outbox = <<>> /\ queued = 0
  /\ handled = <<>> /\ posted = <<>>

\* New and the start of Run.
Boot ==
  /\ ~Up /\ boots < MaxBoots
  /\ boots' = boots + 1
  /\ pc' = "connect"
  /\ UNCHANGED <<serverVars, cancelled, offset, drained, ready, readyAt, batch, sendVars, queueVars,
                 handled, posted>>

\* Whatever ends the program, at any step: what is in memory is gone.
Die ==
  /\ Up
  /\ pc' = "down" /\ offset' = 0 /\ drained' = FALSE /\ ready' = FALSE /\ readyAt' = 0 /\ batch' = <<>>
  /\ cancelled' = FALSE
  /\ sender' = "idle" /\ sending' = 0 /\ attempt' = 0
  /\ outbox' = <<>>
  /\ UNCHANGED <<serverVars, boots, queued, handled, posted>>

Cancel ==
  /\ Up /\ ~cancelled
  /\ cancelled' = TRUE
  /\ UNCHANGED <<serverVars, boots, pollVars, sendVars, queueVars, handled, posted>>

-----------------------------------------------------------------------------
(* The outbox                                                              *)

\* A caller waits for room (a mutation).
EnqueueBlocks ==
  /\ Len(outbox) < OutboxSize
  /\ queued' = queued + 1
  /\ outbox' = Append(outbox, queued + 1)

\* enqueue: a full outbox drops the message instead of blocking the caller.
Enqueue ==
  /\ queued' = queued + 1
  /\ outbox' = IF Len(outbox) < OutboxSize THEN Append(outbox, queued + 1) ELSE outbox

\* PostMessage, called by the manager's notifier and by HandlePush at any time.
PostMessage ==
  /\ Up /\ queued < MaxMessages
  /\ Enqueue
  /\ UNCHANGED <<serverVars, boots, cancelled, pollVars, sendVars, handled, posted>>

-----------------------------------------------------------------------------
(* Connecting: runOnce inside RunWithBackoff                               *)

\* getMe failed; RunWithBackoff waits and calls runOnce again.
ConnectFails ==
  /\ pc = "connect"
  /\ pc' = "backoff"
  /\ UNCHANGED <<serverVars, boots, cancelled, offset, drained, ready, readyAt, batch, sendVars,
                 queueVars, handled, posted>>

Reconnect ==
  /\ pc = "backoff"
  /\ pc' = "connect"
  /\ UNCHANGED <<serverVars, boots, cancelled, offset, drained, ready, readyAt, batch, sendVars,
                 queueVars, handled, posted>>

\* The bot is marked ready before it drains (a mutation).
ConnectedIsReady ==
  /\ pc = "connect"
  /\ pc' = IF drained THEN "mark ready" ELSE "drain"
  /\ ready' = TRUE /\ readyAt' = Len(updates)
  /\ UNCHANGED <<serverVars, boots, cancelled, offset, drained, batch, sendVars, queueVars, handled, posted>>

\* getMe answered; setMyCommands is tried and its error only logged.
Connected ==
  /\ pc = "connect"
  /\ pc' = IF drained THEN "mark ready" ELSE "drain"
  /\ UNCHANGED <<serverVars, boots, cancelled, offset, drained, ready, readyAt, batch, sendVars,
                 queueVars, handled, posted>>

\* The leftovers are kept (a mutation).
OffsetUnchanged == offset

\* drainPending moves the offset past the newest update, when there is one.
OffsetPastNewest == IF Len(updates) > forgotten THEN MaxOf(offset, Len(updates) + 1) ELSE offset

Drained ==
  /\ pc = "drain"
  /\ offset' = OffsetPastNewest
  /\ forgotten' = AllButNewest
  /\ drained' = TRUE
  /\ pc' = "mark ready"
  /\ UNCHANGED <<updates, boots, cancelled, ready, readyAt, batch, sendVars, queueVars, handled, posted>>

\* The call fails before or after the server did its part.
DrainFails ==
  /\ pc = "drain"
  /\ forgotten' \in {forgotten, AllButNewest}
  /\ pc' = "backoff"
  /\ UNCHANGED <<updates, boots, cancelled, offset, drained, ready, readyAt, batch, sendVars, queueVars,
                 handled, posted>>

MarkReady ==
  /\ pc = "mark ready"
  /\ ready' = TRUE
  /\ readyAt' = Len(updates)
  /\ pc' = "poll"
  /\ UNCHANGED <<serverVars, boots, cancelled, offset, drained, batch, sendVars, queueVars, handled, posted>>

-----------------------------------------------------------------------------
(* pollLoop                                                                *)

\* An answer with updates; a long poll that times out empty changes nothing.
Poll ==
  /\ pc = "poll" /\ ~cancelled
  /\ NextId <= Len(updates)
  /\ forgotten' = Acknowledged
  /\ batch' = Answer
  /\ pc' = "handle"
  /\ UNCHANGED <<updates, boots, cancelled, offset, drained, ready, readyAt, sendVars, queueVars, handled,
                 posted>>

\* The poll loop gives up at the first error (a mutation).
PollFailsForGood ==
  /\ pc = "poll" /\ ~cancelled
  /\ pc' = "stop sender"
  /\ UNCHANGED <<serverVars, boots, cancelled, offset, drained, ready, readyAt, batch, sendVars, queueVars,
                 handled, posted>>

\* An error, a conflict with another poller, or a lost answer: a pause before the next poll.
PollFails ==
  /\ pc = "poll" /\ ~cancelled
  /\ forgotten' \in {forgotten, Acknowledged}
  /\ pc' = "pause"
  /\ UNCHANGED <<updates, boots, cancelled, offset, drained, ready, readyAt, batch, sendVars, queueVars,
                 handled, posted>>

PollAgain ==
  /\ pc = "pause"
  /\ pc' = "poll"
  /\ UNCHANGED <<serverVars, boots, cancelled, offset, drained, ready, readyAt, batch, sendVars, queueVars,
                 handled, posted>>

\* Without the exception for anonymous admins (a mutation).
AcceptedFromNoBot(u) ==
  /\ u.chat = "configured"
  /\ u.from \notin {"bot", "anonymous admin", "self"}
  /\ u.command

\* handleUpdate: a command written in the configured chat, by a person or by an admin who writes
\* as the group; ParseCommand made it a command for this bot.
Accepted(u) ==
  /\ u.chat = "configured"
  /\ u.from = "anonymous admin" \/ u.from \notin {"bot", "self"}
  /\ u.command

AfterUpdate == IF Len(batch) > 1 THEN "handle" ELSE "poll"

\* The offset moves before the update is handled.
OffsetPast(id) == MaxOf(offset, id + 1)

Ignore ==
  /\ pc = "handle"
  /\ ~Accepted(updates[Head(batch)])
  /\ offset' = OffsetPast(Head(batch))
  /\ batch' = Tail(batch)
  /\ pc' = AfterUpdate
  /\ UNCHANGED <<serverVars, boots, cancelled, drained, ready, readyAt, sendVars, queueVars, handled, posted>>

\* dispatchCommand: the call of the manager, or of the confirm handler, takes effect.
Dispatch ==
  /\ pc = "handle"
  /\ Accepted(updates[Head(batch)])
  /\ offset' = OffsetPast(Head(batch))
  /\ handled' = Append(handled, Head(batch))
  /\ pc' = "reply"
  /\ UNCHANGED <<serverVars, boots, cancelled, drained, ready, readyAt, batch, sendVars, queueVars, posted>>

\* It returned, and the response is queued.
Reply ==
  /\ pc = "reply"
  /\ Enqueue
  /\ batch' = Tail(batch)
  /\ pc' = AfterUpdate
  /\ UNCHANGED <<serverVars, boots, cancelled, offset, drained, ready, readyAt, sendVars, handled, posted>>

\* Every wait and call of the connect and poll loops ends with the context; the rest of a batch is handled
\* first.  Run then stops the sender and waits for it.
Leave ==
  /\ cancelled
  /\ pc \in {"connect", "backoff", "drain", "poll", "pause"}
  /\ pc' = "stop sender"
  /\ UNCHANGED <<serverVars, boots, cancelled, offset, drained, ready, readyAt, batch, sendVars, queueVars,
                 handled, posted>>

Return ==
  /\ pc = "stop sender" /\ sender = "done"
  /\ pc' = "returned"
  /\ UNCHANGED <<serverVars, boots, cancelled, offset, drained, ready, readyAt, batch, sendVars, queueVars,
                 handled, posted>>

-----------------------------------------------------------------------------
(* The sender goroutine: sendLoop, sendWithRetry, deliver                  *)

StopSender == cancelled \/ pc = "stop sender"

TakeMessage ==
  /\ Up /\ sender = "idle" /\ outbox # <<>>
  /\ sending' = Head(outbox)
  /\ outbox' = Tail(outbox)
  /\ attempt' = 0
  /\ sender' = "html"
  /\ UNCHANGED <<serverVars, boots, cancelled, pollVars, queued, handled, posted>>

\* The chat has the message.
Sent ==
  /\ sender \in {"html", "plain"}
  /\ posted' = Append(posted, sending)
  /\ sender' = "idle" /\ sending' = 0
  /\ UNCHANGED <<serverVars, boots, cancelled, pollVars, attempt, queueVars, handled>>

\* The markup is refused: the same message once more, as plain text.
MarkupRefused ==
  /\ sender = "html"
  /\ sender' = "plain"
  /\ UNCHANGED <<serverVars, boots, cancelled, pollVars, sending, attempt, queueVars, handled, posted>>

MayRetry == attempt < MaxSendRetries

RateLimited ==
  /\ sender \in {"html", "plain"}
  /\ IF MayRetry
       THEN sender' = "wait" /\ UNCHANGED sending
       ELSE sender' = "idle" /\ sending' = 0
  /\ UNCHANGED <<serverVars, boots, cancelled, pollVars, attempt, queueVars, handled, posted>>

\* Any error is tried again after a while (a mutation).
SendFailsIsRetried ==
  /\ sender \in {"html", "plain"}
  /\ posted' \in {posted, Append(posted, sending)}
  /\ sender' = IF MayRetry THEN "wait" ELSE "idle"
  /\ sending' = IF MayRetry THEN sending ELSE 0
  /\ UNCHANGED <<serverVars, boots, cancelled, pollVars, attempt, queueVars, handled>>

\* Any other error drops the message; the chat has it when only the answer was lost.
SendFails ==
  /\ sender \in {"html", "plain"}
  /\ posted' \in {posted, Append(posted, sending)}
  /\ sender' = "idle" /\ sending' = 0
  /\ UNCHANGED <<serverVars, boots, cancelled, pollVars, attempt, queueVars, handled>>

\* The attempts are not counted (a mutation).
WaitEndsUncounted ==
  /\ sender = "wait"
  /\ sender' = IF StopSender THEN "idle" ELSE "html"
  /\ sending' = IF StopSender THEN 0 ELSE sending
  /\ UNCHANGED <<serverVars, boots, cancelled, pollVars, attempt, queueVars, handled, posted>>

\* The wait is over, or is cut short by the context and the message is given up.
WaitEnds ==
  /\ sender = "wait"
  /\ IF StopSender
       THEN sender' = "idle" /\ sending' = 0 /\ UNCHANGED attempt
       ELSE sender' = "html" /\ attempt' = attempt + 1 /\ UNCHANGED sending
  /\ UNCHANGED <<serverVars, boots, cancelled, pollVars, queueVars, handled, posted>>

SenderStops ==
  /\ sender = "idle" /\ StopSender
  /\ sender' = "done"
  /\ UNCHANGED <<serverVars, boots, cancelled, pollVars, sending, attempt, queueVars, handled, posted>>

-----------------------------------------------------------------------------
PollLoop ==
  \/ ConnectFails \/ Reconnect \/ Connected \/ Drained \/ DrainFails \/ MarkReady
  \/ Poll \/ PollFails \/ PollAgain \/ Ignore \/ Dispatch \/ Reply \/ Leave \/ Return

Sender ==
  TakeMessage \/ Sent \/ MarkupRefused \/ RateLimited \/ SendFails \/ WaitEnds \/ SenderStops

Next == UserWrites \/ Boot \/ Die \/ Cancel \/ PostMessage \/ PollLoop \/ Sender

(* Every call has a timeout, every wait a timer, and a handler returns, so *)
(* both goroutines keep moving; a call that is made again and again is     *)
(* answered some time.  Nothing is assumed of the callers, of the death of *)
(* the program or of the users.                                            *)
Fairness ==
  /\ WF_vars(PollLoop)
  /\ SF_vars(Connected) /\ SF_vars(Drained) /\ SF_vars(Poll)
  /\ SF_vars(Leave)
  /\ WF_vars(Sender) /\ SF_vars(SenderStops)

Spec == Init /\ [][Next]_vars
FairSpec == Spec /\ Fairness

-----------------------------------------------------------------------------
ServerTypes == updates \in Seq(Update) /\ forgotten \in Nat

RunTypes == boots \in Nat /\ cancelled \in BOOLEAN /\ handled \in Seq(Nat)

PollTypes ==
  /\ pc \in {"down", "connect", "backoff", "drain", "mark ready", "poll", "pause", "handle", "reply",
            "stop sender", "returned"}
  /\ offset \in Nat /\ drained \in BOOLEAN
  /\ ready \in BOOLEAN /\ readyAt \in Nat
  /\ batch \in Seq(Nat)
  /\ pc \in {"handle", "reply"} => batch # <<>>

SendTypes ==
  /\ sender \in {"idle", "html", "plain", "wait", "done"}
  /\ sending \in Nat /\ attempt \in Nat
  /\ posted \in Seq(Nat)

QueueTypes == outbox \in Seq(Nat) /\ Len(outbox) <= OutboxSize /\ queued \in Nat

(* Types; the outbox is never longer than its size, and there is an update *)
(* of the batch left while one is handled.                                 *)
TypeOK == ServerTypes /\ RunTypes /\ PollTypes /\ SendTypes /\ QueueTypes

StrictlyIncreasing(s) == \A i, j \in DOMAIN s : i < j => s[i] < s[j]

(* A command is run once at most and commands are run in the order in      *)
(* which they were written, although a restart forgets the offset and an   *)
(* update is acknowledged only by the poll after the one that fetched it   *)
(* (drainPending, pollLoop).                                               *)
RunOnceInOrder == StrictlyIncreasing(handled)

(* A command written after the bot said it was ready is not mistaken for a *)
(* leftover: once the offset is past it, it was run (runOnce drains before *)
(* it marks ready).                                                        *)
NoneSkippedOnceReady ==
  ready => \A i \in DOMAIN updates :
             i > readyAt /\ i < NextId /\ Accepted(updates[i]) => \E k \in DOMAIN handled : handled[k] = i

(* Messages reach the chat in the order in which they were queued and none *)
(* twice, although one is tried again after 429 and after a refusal of its *)
(* markup (one sender, sendWithRetry, deliver).                            *)
PostedInOrderOnce == StrictlyIncreasing(posted)

(* The bot is a command feed: see CommandFeed.                             *)
Feed == INSTANCE CommandFeed WITH
  Updates <- Update,
  Wanted <- [chat : {"configured"}, from : {"person", "anonymous admin"}, command : {TRUE}],
  open <- ready,
  next <- IF ready THEN NextId ELSE 0

ImplementsFeed == Feed!FeedSpec

(* While the bot is ready it catches up with the chat, unless the program  *)
(* dies or is cancelled: errors of the server are waited out (pollLoop),   *)
(* and neither a full outbox nor a message that is refused holds the poll  *)
(* loop up (enqueue).  The instance has finitely many updates.             *)
UpdatesReached == ready ~> (~ready \/ cancelled \/ NextId > Len(updates))

(* The outbox is worked off, unless the program is cancelled: a message    *)
(* that is refused with 429 again and again does not stall those behind it *)
(* (maxSendRetries).                                                       *)
QueueMoves == (outbox # <<>>) ~> (outbox = <<>> \/ cancelled)

(* When its context is cancelled, Run returns, however the server answers  *)
(* and whatever is queued.                                                 *)
RunReturns == (Up /\ cancelled) ~> (pc \in {"down", "returned"})
=============================================================================
