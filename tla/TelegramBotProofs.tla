-------------------------- MODULE TelegramBotProofs --------------------------
(***************************************************************************)
(* Proofs about TelegramBot for any updates, batch and outbox sizes, and   *)
(* any number of retries and restarts: types, the order of commands and of *)
(* messages, and that the bot is a command feed.                           *)
(***************************************************************************)
EXTENDS TelegramBot, SequenceTheorems, TLAPS

-----------------------------------------------------------------------------
(* Helpers.                                                                *)

LEMMA MaxOfInt ==
  ASSUME NEW a \in Int, NEW b \in Int
  PROVE  MaxOf(a, b) \in {a, b} /\ a <= MaxOf(a, b) /\ b <= MaxOf(a, b)
BY DEF MaxOf

\* What is left when the head of a sequence is taken.
LEMMA TailOf ==
  ASSUME NEW s \in Seq(Nat), s # <<>>
  PROVE  /\ 1 \in DOMAIN s /\ Head(s) = s[1] /\ Head(s) \in Nat
         /\ Tail(s) \in Seq(Nat) /\ Len(Tail(s)) = Len(s) - 1
         /\ DOMAIN Tail(s) = 1..(Len(s) - 1) /\ DOMAIN s = 1..Len(s) /\ Len(s) \in Nat \ {0}
         /\ \A k \in DOMAIN Tail(s) : k + 1 \in DOMAIN s /\ Tail(s)[k] = s[k + 1]
<1>1. Len(s) \in Nat /\ Len(s) # 0 /\ DOMAIN s = 1..Len(s) /\ s \in [1..Len(s) -> Nat]
  BY EmptySeq, LenProperties
<1>2. QED
  BY <1>1

\* What a sequence is when something is appended.
LEMMA AppendOf ==
  ASSUME NEW S, NEW s \in Seq(S), NEW x \in S
  PROVE  /\ Append(s, x) \in Seq(S) /\ Len(Append(s, x)) = Len(s) + 1 /\ Len(s) \in Nat
         /\ DOMAIN s = 1..Len(s) /\ DOMAIN Append(s, x) = 1..(Len(s) + 1)
         /\ \A k \in DOMAIN s : Append(s, x)[k] = s[k]
         /\ Append(s, x)[Len(s) + 1] = x
BY LenProperties

LEMMA AppendIncreasing ==
  ASSUME NEW s \in Seq(Nat), NEW x \in Nat, StrictlyIncreasing(s), \A k \in DOMAIN s : s[k] < x
  PROVE  StrictlyIncreasing(Append(s, x))
<1>1. /\ DOMAIN s = 1..Len(s) /\ Len(s) \in Nat /\ DOMAIN Append(s, x) = 1..(Len(s) + 1)
      /\ \A k \in DOMAIN s : Append(s, x)[k] = s[k]
      /\ Append(s, x)[Len(s) + 1] = x
  BY AppendOf
<1>2. ASSUME NEW i \in DOMAIN Append(s, x), NEW j \in DOMAIN Append(s, x), i < j
      PROVE  Append(s, x)[i] < Append(s, x)[j]
  <2>1. i \in DOMAIN s
    BY <1>1, <1>2
  <2>2. CASE j \in DOMAIN s
    BY <1>1, <1>2, <2>1, <2>2 DEF StrictlyIncreasing
  <2>3. CASE j = Len(s) + 1
    BY <1>1, <2>1, <2>3
  <2>4. QED
    BY <1>1, <2>2, <2>3
<1>3. QED
  BY <1>2 DEF StrictlyIncreasing

LEMMA TailIncreasing ==
  ASSUME NEW s \in Seq(Nat), s # <<>>, StrictlyIncreasing(s)
  PROVE  StrictlyIncreasing(Tail(s)) /\ \A k \in DOMAIN Tail(s) : s[1] < Tail(s)[k]
<1>1. /\ 1 \in DOMAIN s /\ DOMAIN Tail(s) = 1..(Len(s) - 1) /\ Len(s) \in Nat
      /\ \A k \in DOMAIN Tail(s) : k + 1 \in DOMAIN s /\ Tail(s)[k] = s[k + 1]
  BY TailOf
<1>2. ASSUME NEW i \in DOMAIN Tail(s), NEW j \in DOMAIN Tail(s), i < j PROVE Tail(s)[i] < Tail(s)[j]
  <2>1. i + 1 < j + 1
    BY <1>1, <1>2
  <2>2. QED
    BY <1>1, <2>1 DEF StrictlyIncreasing
<1>3. ASSUME NEW k \in DOMAIN Tail(s) PROVE s[1] < Tail(s)[k]
  <2>1. 1 < k + 1
    BY <1>1
  <2>2. QED
    BY <1>1, <2>1 DEF StrictlyIncreasing
<1>4. QED
  BY <1>2, <1>3 DEF StrictlyIncreasing

\* The counts that the poll loop computes with.
LEMMA Counts ==
  ASSUME ServerTypes, PollTypes
  PROVE  Len(updates) \in Nat /\ forgotten \in Nat /\ offset \in Nat
BY LenProperties DEF ServerTypes, PollTypes

-----------------------------------------------------------------------------
(* Types.                                                                  *)

\* An answer: consecutive ids from the next one on, none beyond the newest.
LEMMA AnswerTyped ==
  ASSUME ServerTypes, PollTypes, NextId <= Len(updates)
  PROVE  /\ Answer \in Seq(Nat) /\ Answer # <<>>
         /\ \A k \in DOMAIN Answer : Answer[k] = NextId + k - 1 /\ Answer[k] <= Len(updates)
<1> DEFINE last == IF NextId + BatchSize - 1 < Len(updates) THEN NextId + BatchSize - 1 ELSE Len(updates)
           n    == last - NextId + 1
<1>1. NextId \in Nat /\ Len(updates) \in Nat /\ BatchSize \in Nat /\ BatchSize > 0
  <2>1. BatchSize \in Nat /\ BatchSize > 0
    BY TelegramAssumption
  <2>2. QED
    BY <2>1, Counts DEF NextId, MaxOf
<1>2. n \in Nat /\ n > 0 /\ NextId + n - 1 <= Len(updates)
  BY <1>1
<1>3. Answer = [k \in 1..n |-> NextId + k - 1]
  BY DEF Answer
<1> HIDE DEF n
<1>4. Answer \in [1..n -> Nat] /\ \A k \in 1..n : Answer[k] = NextId + k - 1 /\ Answer[k] <= Len(updates)
  BY <1>1, <1>2, <1>3
<1>5. Answer \in Seq(Nat) /\ DOMAIN Answer = 1..n
  BY <1>2, <1>4, SeqDef
<1>6. Answer # <<>>
  BY <1>2, <1>5, EmptySeq
<1>7. QED
  BY <1>4, <1>5, <1>6

(* Types are kept, and the outbox does not outgrow its size: drainPending, *)
(* pollLoop, enqueue and sendLoop.                                         *)
THEOREM TelegramTypes == Spec => []TypeOK
<1>1. ASSUME Init PROVE TypeOK
  <2>1. OutboxSize \in Nat
    BY TelegramAssumption
  <2>2. ServerTypes /\ RunTypes /\ PollTypes /\ SendTypes
    BY <1>1, EmptySeq DEF Init, ServerTypes, RunTypes, PollTypes, SendTypes
  <2>3. QueueTypes
    BY <1>1, <2>1, EmptySeq DEF Init, QueueTypes
  <2>4. QED
    BY <2>2, <2>3 DEF TypeOK
<1>2. TypeOK /\ [Next]_vars => TypeOK'
  <2> SUFFICES ASSUME TypeOK, [Next]_vars PROVE TypeOK'
    OBVIOUS
  <2> USE DEF TypeOK
  <2>1. CASE UserWrites
    <3>1. RunTypes' /\ PollTypes' /\ SendTypes' /\ QueueTypes'
      BY <2>1 DEF UserWrites, RunTypes, PollTypes, SendTypes, QueueTypes, pollVars, sendVars, queueVars
    <3>2. ServerTypes'
      BY <2>1, TelegramAssumption DEF UserWrites, ServerTypes
    <3>3. QED
      BY <3>1, <3>2
  <2>2. CASE Boot
    <3>1. ServerTypes' /\ SendTypes' /\ QueueTypes'
      BY <2>2 DEF Boot, ServerTypes, SendTypes, QueueTypes, serverVars, sendVars, queueVars
    <3>2. RunTypes'
      BY <2>2 DEF Boot, RunTypes
    <3>3. PollTypes'
      BY <2>2 DEF Boot, PollTypes
    <3>4. QED
      BY <3>1, <3>2, <3>3
  <2>3. CASE Die
    <3>1. ServerTypes'
      BY <2>3 DEF Die, ServerTypes, serverVars
    <3>2. RunTypes'
      BY <2>3 DEF Die, RunTypes
    <3>3. PollTypes'
      BY <2>3, EmptySeq DEF Die, PollTypes
    <3>4. SendTypes'
      BY <2>3 DEF Die, SendTypes
    <3>5. QueueTypes'
      BY <2>3, TelegramAssumption DEF Die, QueueTypes
    <3>6. QED
      BY <3>1, <3>2, <3>3, <3>4, <3>5
  <2>4. CASE Cancel
    <3>1. ServerTypes' /\ PollTypes' /\ SendTypes' /\ QueueTypes'
      BY <2>4 DEF Cancel, ServerTypes, PollTypes, SendTypes, QueueTypes, serverVars, pollVars, sendVars, queueVars
    <3>2. RunTypes'
      BY <2>4 DEF Cancel, RunTypes
    <3>3. QED
      BY <3>1, <3>2
  <2>5. CASE PostMessage
    <3>1. ServerTypes' /\ RunTypes' /\ PollTypes' /\ SendTypes'
      BY <2>5 DEF PostMessage, ServerTypes, RunTypes, PollTypes, SendTypes, serverVars, pollVars, sendVars
    <3>2. QueueTypes'
      BY <2>5, TelegramAssumption DEF PostMessage, Enqueue, QueueTypes
    <3>3. QED
      BY <3>1, <3>2
  <2>6. CASE ConnectFails
    <3>1. ServerTypes' /\ RunTypes' /\ SendTypes' /\ QueueTypes'
      BY <2>6 DEF ConnectFails, ServerTypes, RunTypes, SendTypes, QueueTypes, serverVars, sendVars, queueVars
    <3>2. PollTypes'
      BY <2>6 DEF ConnectFails, PollTypes
    <3>3. QED
      BY <3>1, <3>2
  <2>7. CASE Reconnect
    <3>1. ServerTypes' /\ RunTypes' /\ SendTypes' /\ QueueTypes'
      BY <2>7 DEF Reconnect, ServerTypes, RunTypes, SendTypes, QueueTypes, serverVars, sendVars, queueVars
    <3>2. PollTypes'
      BY <2>7 DEF Reconnect, PollTypes
    <3>3. QED
      BY <3>1, <3>2
  <2>8. CASE Connected
    <3>1. ServerTypes' /\ RunTypes' /\ SendTypes' /\ QueueTypes'
      BY <2>8 DEF Connected, ServerTypes, RunTypes, SendTypes, QueueTypes, serverVars, sendVars, queueVars
    <3>2. PollTypes'
      BY <2>8 DEF Connected, PollTypes
    <3>3. QED
      BY <3>1, <3>2
  <2>9. CASE Drained
    <3>1. RunTypes' /\ SendTypes' /\ QueueTypes'
      BY <2>9 DEF Drained, RunTypes, SendTypes, QueueTypes, sendVars, queueVars
    <3>2. AllButNewest \in Nat /\ OffsetPastNewest \in Nat
      BY Counts DEF AllButNewest, OffsetPastNewest, MaxOf
    <3>3. ServerTypes'
      BY <2>9, <3>2 DEF Drained, ServerTypes
    <3>4. PollTypes'
      BY <2>9, <3>2 DEF Drained, PollTypes
    <3>5. QED
      BY <3>1, <3>3, <3>4
  <2>10. CASE DrainFails
    <3>1. RunTypes' /\ SendTypes' /\ QueueTypes'
      BY <2>10 DEF DrainFails, RunTypes, SendTypes, QueueTypes, sendVars, queueVars
    <3>2. ServerTypes'
      BY <2>10 DEF DrainFails, AllButNewest, MaxOf, ServerTypes, PollTypes
    <3>3. PollTypes'
      BY <2>10 DEF DrainFails, AllButNewest, MaxOf, PollTypes, ServerTypes
    <3>4. QED
      BY <3>1, <3>2, <3>3
  <2>11. CASE MarkReady
    <3>1. ServerTypes' /\ RunTypes' /\ SendTypes' /\ QueueTypes'
      BY <2>11 DEF MarkReady, ServerTypes, RunTypes, SendTypes, QueueTypes, serverVars, sendVars, queueVars
    <3>2. PollTypes'
      BY <2>11, LenProperties DEF MarkReady, PollTypes, ServerTypes
    <3>3. QED
      BY <3>1, <3>2
  <2>12. CASE Poll
    <3>1. RunTypes' /\ SendTypes' /\ QueueTypes'
      BY <2>12 DEF Poll, RunTypes, SendTypes, QueueTypes, sendVars, queueVars
    <3>2. ServerTypes'
      BY <2>12 DEF Poll, Acknowledged, MaxOf, ServerTypes, PollTypes
    <3>3. Answer \in Seq(Nat) /\ Answer # <<>>
      BY <2>12, AnswerTyped DEF Poll, PollTypes, ServerTypes
    <3>4. PollTypes'
      BY <2>12, <3>3 DEF Poll, PollTypes
    <3>5. QED
      BY <3>1, <3>2, <3>4
  <2>13. CASE PollFails
    <3>1. RunTypes' /\ SendTypes' /\ QueueTypes'
      BY <2>13 DEF PollFails, RunTypes, SendTypes, QueueTypes, sendVars, queueVars
    <3>2. ServerTypes'
      BY <2>13 DEF PollFails, Acknowledged, MaxOf, ServerTypes, PollTypes
    <3>3. PollTypes'
      BY <2>13 DEF PollFails, Acknowledged, MaxOf, PollTypes, ServerTypes
    <3>4. QED
      BY <3>1, <3>2, <3>3
  <2>14. CASE PollAgain
    <3>1. ServerTypes' /\ RunTypes' /\ SendTypes' /\ QueueTypes'
      BY <2>14 DEF PollAgain, ServerTypes, RunTypes, SendTypes, QueueTypes, serverVars, sendVars, queueVars
    <3>2. PollTypes'
      BY <2>14 DEF PollAgain, PollTypes
    <3>3. QED
      BY <3>1, <3>2
  <2>15. CASE Ignore
    <3>1. ServerTypes' /\ RunTypes' /\ SendTypes' /\ QueueTypes'
      BY <2>15 DEF Ignore, ServerTypes, RunTypes, SendTypes, QueueTypes, serverVars, sendVars, queueVars
    <3>2. batch \in Seq(Nat) /\ batch # <<>>
      BY <2>15 DEF Ignore, PollTypes
    <3>3. Head(batch) \in Nat /\ Tail(batch) \in Seq(Nat) /\ (Len(batch) > 1 => Tail(batch) # <<>>)
      BY <3>2, TailOf, EmptySeq
    <3>4. PollTypes'
      BY <2>15, <3>3 DEF Ignore, OffsetPast, AfterUpdate, MaxOf, PollTypes
    <3>5. QED
      BY <3>1, <3>4
  <2>16. CASE Dispatch
    <3>1. ServerTypes' /\ SendTypes' /\ QueueTypes'
      BY <2>16 DEF Dispatch, ServerTypes, SendTypes, QueueTypes, serverVars, sendVars, queueVars
    <3>2. RunTypes'
      BY <2>16 DEF Dispatch, OffsetPast, MaxOf, RunTypes, PollTypes
    <3>3. PollTypes'
      BY <2>16 DEF Dispatch, OffsetPast, MaxOf, PollTypes
    <3>4. QED
      BY <3>1, <3>2, <3>3
  <2>17. CASE Reply
    <3>1. ServerTypes' /\ RunTypes' /\ SendTypes'
      BY <2>17 DEF Reply, ServerTypes, RunTypes, SendTypes, serverVars, sendVars
    <3>2. batch \in Seq(Nat) /\ batch # <<>>
      BY <2>17 DEF Reply, PollTypes
    <3>3. Head(batch) \in Nat /\ Tail(batch) \in Seq(Nat) /\ (Len(batch) > 1 => Tail(batch) # <<>>)
      BY <3>2, TailOf, EmptySeq
    <3>4. PollTypes'
      BY <2>17, <3>3 DEF Reply, Enqueue, AfterUpdate, PollTypes
    <3>5. QueueTypes'
      BY <2>17, TelegramAssumption DEF Reply, Enqueue, AfterUpdate, QueueTypes
    <3>6. QED
      BY <3>1, <3>4, <3>5
  <2>18. CASE Leave
    <3>1. ServerTypes' /\ RunTypes' /\ SendTypes' /\ QueueTypes'
      BY <2>18 DEF Leave, ServerTypes, RunTypes, SendTypes, QueueTypes, serverVars, sendVars, queueVars
    <3>2. PollTypes'
      BY <2>18 DEF Leave, PollTypes
    <3>3. QED
      BY <3>1, <3>2
  <2>19. CASE Return
    <3>1. ServerTypes' /\ RunTypes' /\ SendTypes' /\ QueueTypes'
      BY <2>19 DEF Return, ServerTypes, RunTypes, SendTypes, QueueTypes, serverVars, sendVars, queueVars
    <3>2. PollTypes'
      BY <2>19 DEF Return, PollTypes
    <3>3. QED
      BY <3>1, <3>2
  <2>20. CASE TakeMessage
    <3>1. ServerTypes' /\ RunTypes' /\ PollTypes'
      BY <2>20 DEF TakeMessage, ServerTypes, RunTypes, PollTypes, serverVars, pollVars
    <3>2. SendTypes'
      BY <2>20 DEF TakeMessage, SendTypes, QueueTypes
    <3>3. QueueTypes'
      BY <2>20, TelegramAssumption DEF TakeMessage, QueueTypes
    <3>4. QED
      BY <3>1, <3>2, <3>3
  <2>21. CASE Sent
    <3>1. ServerTypes' /\ RunTypes' /\ PollTypes' /\ QueueTypes'
      BY <2>21 DEF Sent, ServerTypes, RunTypes, PollTypes, QueueTypes, serverVars, pollVars, queueVars
    <3>2. SendTypes'
      BY <2>21 DEF Sent, SendTypes
    <3>3. QED
      BY <3>1, <3>2
  <2>22. CASE MarkupRefused
    <3>1. ServerTypes' /\ RunTypes' /\ PollTypes' /\ QueueTypes'
      BY <2>22 DEF MarkupRefused, ServerTypes, RunTypes, PollTypes, QueueTypes, serverVars, pollVars, queueVars
    <3>2. SendTypes'
      BY <2>22 DEF MarkupRefused, SendTypes
    <3>3. QED
      BY <3>1, <3>2
  <2>23. CASE RateLimited
    <3>1. ServerTypes' /\ RunTypes' /\ PollTypes' /\ QueueTypes'
      BY <2>23 DEF RateLimited, ServerTypes, RunTypes, PollTypes, QueueTypes, serverVars, pollVars, queueVars
    <3>2. SendTypes'
      BY <2>23 DEF RateLimited, SendTypes
    <3>3. QED
      BY <3>1, <3>2
  <2>24. CASE SendFails
    <3>1. ServerTypes' /\ RunTypes' /\ PollTypes' /\ QueueTypes'
      BY <2>24 DEF SendFails, ServerTypes, RunTypes, PollTypes, QueueTypes, serverVars, pollVars, queueVars
    <3>2. SendTypes'
      BY <2>24 DEF SendFails, SendTypes
    <3>3. QED
      BY <3>1, <3>2
  <2>25. CASE WaitEnds
    <3>1. ServerTypes' /\ RunTypes' /\ PollTypes' /\ QueueTypes'
      BY <2>25 DEF WaitEnds, ServerTypes, RunTypes, PollTypes, QueueTypes, serverVars, pollVars, queueVars
    <3>2. SendTypes'
      BY <2>25 DEF WaitEnds, SendTypes
    <3>3. QED
      BY <3>1, <3>2
  <2>26. CASE SenderStops
    <3>1. ServerTypes' /\ RunTypes' /\ PollTypes' /\ QueueTypes'
      BY <2>26 DEF SenderStops, ServerTypes, RunTypes, PollTypes, QueueTypes, serverVars, pollVars, queueVars
    <3>2. SendTypes'
      BY <2>26 DEF SenderStops, SendTypes
    <3>3. QED
      BY <3>1, <3>2
  <2>27. CASE UNCHANGED vars
    BY <2>27 DEF vars, serverVars, pollVars, sendVars, queueVars, ServerTypes, RunTypes, PollTypes, SendTypes,
      QueueTypes
  <2>28. QED
    BY <2>1, <2>2, <2>3, <2>4, <2>5, <2>6, <2>7, <2>8, <2>9, <2>10, <2>11, <2>12, <2>13, <2>14, <2>15, <2>16, <2>17, <2>18, <2>19, <2>20, <2>21, <2>22, <2>23, <2>24, <2>25, <2>26, <2>27
    DEF Next, PollLoop, Sender
<1>3. QED
  BY <1>1, <1>2, PTL DEF Spec

-----------------------------------------------------------------------------
(* The feed: what the poll loop has reached, on both sides of the network. *)

Bounds == forgotten <= Len(updates) /\ offset <= Len(updates) + 1

Stages ==
  /\ pc = "drain" => ~drained
  /\ pc = "mark ready" => drained
  /\ pc \in {"poll", "pause", "handle", "reply"} => ready
  /\ ready => drained

\* The batch starts at the next update, or with the one that is being replied to.
BatchNext ==
  /\ pc = "handle" => \A k \in DOMAIN batch : batch[k] = NextId + k - 1 /\ batch[k] <= Len(updates)
  /\ pc = "reply" => \A k \in DOMAIN batch : batch[k] = NextId + k - 2 /\ batch[k] <= Len(updates)

HandledBelow == \A k \in DOMAIN handled : handled[k] <= Len(updates) /\ (drained => handled[k] < NextId)

Reached == Bounds /\ Stages /\ BatchNext /\ HandledBelow

\* The variables that Reached and the feed are about.
feedState == <<updates, forgotten, pc, offset, drained, ready, readyAt, batch, handled>>

LEMMA FeedAlone ==
  ASSUME Cancel \/ PostMessage \/ Sender \/ UNCHANGED vars
  PROVE  UNCHANGED feedState
<1>1. CASE Cancel \/ PostMessage
  BY <1>1 DEF Cancel, PostMessage, feedState, serverVars, pollVars
<1>2. CASE Sender
  BY <1>2 DEF Sender, TakeMessage, Sent, MarkupRefused, RateLimited, SendFails, WaitEnds, SenderStops,
              feedState, serverVars, pollVars
<1>3. CASE UNCHANGED vars
  BY <1>3 DEF vars, feedState, serverVars, pollVars
<1>4. QED
  BY <1>1, <1>2, <1>3

LEMMA NextIdNat ==
  ASSUME ServerTypes, PollTypes
  PROVE  NextId \in Nat /\ NextId >= 1 /\ forgotten < NextId /\ offset <= NextId
BY Counts DEF NextId, MaxOf

\* An acknowledgement does not change what comes next.
LEMMA NextIdKept ==
  ASSUME ServerTypes, PollTypes, forgotten' \in {forgotten, Acknowledged}, offset' = offset
  PROVE  NextId' = NextId
BY Counts DEF NextId, Acknowledged, MaxOf

\* After the drain everything that is there counts as reached.
LEMMA NextIdDrained ==
  ASSUME ServerTypes, PollTypes, Reached, Drained
  PROVE  NextId' = Len(updates) + 1 /\ forgotten' <= Len(updates) /\ offset' <= Len(updates) + 1
<1>1. Len(updates) \in Nat /\ forgotten \in Nat /\ offset \in Nat
  BY Counts
<1>2. forgotten <= Len(updates) /\ offset <= Len(updates) + 1
  BY DEF Reached, Bounds
<1>3. forgotten' = AllButNewest /\ offset' = OffsetPastNewest
  BY DEF Drained
<1>4. forgotten' <= Len(updates) /\ forgotten' \in Nat
  BY <1>1, <1>2, <1>3 DEF AllButNewest, MaxOf
<1>5. CASE Len(updates) > forgotten
  <2>1. offset' = Len(updates) + 1
    BY <1>1, <1>2, <1>3, <1>5 DEF OffsetPastNewest, MaxOf
  <2>2. QED
    BY <1>1, <1>4, <2>1 DEF NextId, MaxOf
<1>6. CASE ~(Len(updates) > forgotten)
  <2>1. offset' = offset /\ forgotten = Len(updates)
    BY <1>1, <1>2, <1>3, <1>6 DEF OffsetPastNewest
  <2>2. forgotten' = Len(updates)
    BY <1>1, <1>3, <2>1 DEF AllButNewest, MaxOf
  <2>3. QED
    BY <1>1, <1>2, <2>1, <2>2 DEF NextId, MaxOf
<1>7. QED
  BY <1>5, <1>6

\* The head of the batch is the next update, and after it comes the one behind it.
LEMMA NextIdTaken ==
  ASSUME TypeOK, Reached, Ignore \/ Dispatch
  PROVE  /\ Head(batch) = NextId /\ NextId' = NextId + 1
         /\ NextId \in 1..Len(updates) /\ offset' <= Len(updates) + 1
<1>1. pc = "handle" /\ offset' = OffsetPast(Head(batch)) /\ forgotten' = forgotten
  BY DEF Ignore, Dispatch, serverVars
<1>2. batch \in Seq(Nat) /\ batch # <<>>
  BY <1>1 DEF TypeOK, PollTypes
<1>3. 1 \in DOMAIN batch /\ Head(batch) = batch[1]
  BY <1>2, TailOf
<1>4. Head(batch) = NextId /\ NextId <= Len(updates)
  BY <1>1, <1>3, NextIdNat DEF Reached, BatchNext, TypeOK
<1>5. QED
  BY <1>1, <1>4, NextIdNat, Counts DEF NextId, OffsetPast, MaxOf, TypeOK

LEMMA ReachedKept == TypeOK /\ Reached /\ [Next]_vars => Reached'
<1> SUFFICES ASSUME TypeOK, Reached, [Next]_vars PROVE Reached'
  OBVIOUS
<1> USE DEF Reached
<1>t. ServerTypes /\ PollTypes /\ RunTypes
  BY DEF TypeOK
<1>n. NextId \in Nat /\ Len(updates) \in Nat /\ forgotten \in Nat /\ offset \in Nat /\ NextId >= 1
  BY <1>t, NextIdNat, Counts
<1>b. forgotten <= Len(updates) /\ offset <= Len(updates) + 1
  BY DEF Bounds
<1>k. batch \in Seq(Nat) /\ Len(batch) \in Nat /\ DOMAIN batch = 1..Len(batch) /\ batch \in [1..Len(batch) -> Nat]
  BY <1>t, LenProperties DEF PollTypes
<1>h. handled \in Seq(Nat) /\ \A k \in DOMAIN handled : handled[k] \in Nat
  BY <1>t, LenProperties DEF RunTypes
<1>s. drained \in BOOLEAN /\ ready \in BOOLEAN
  BY <1>t DEF PollTypes
<1>1. CASE UserWrites
  <2>1. PICK u \in Update : updates' = Append(updates, u)
    BY <1>1, TelegramAssumption DEF UserWrites
  <2>2. Len(updates') = Len(updates) + 1
    BY <1>t, <2>1, AppendOf DEF ServerTypes
  <2>3. UNCHANGED <<NextId, forgotten, pc, offset, drained, ready, batch, handled>>
    BY <1>1 DEF UserWrites, NextId, pollVars
  <2>4. Bounds'
    BY <1>n, <1>b, <2>2, <2>3 DEF Bounds
  <2>5. Stages'
    BY <2>3 DEF Stages
  <2>6. BatchNext' /\ HandledBelow'
    BY <1>n, <1>k, <1>h, <2>2, <2>3 DEF BatchNext, HandledBelow
  <2>7. QED
    BY <2>4, <2>5, <2>6
<1>2. CASE Boot \/ ConnectFails \/ Reconnect \/ Connected \/ MarkReady \/ PollAgain \/ Leave \/ Return
  <2> USE DEF Boot, ConnectFails, Reconnect, Connected, MarkReady, PollAgain, Leave, Return
  <2>1. UNCHANGED <<updates, forgotten, offset, drained, batch, handled, NextId>>
    BY <1>2 DEF NextId, serverVars
  <2>2. pc' \notin {"handle", "reply"}
    BY <1>2
  <2>3. Stages'
    <3>1. CASE Boot \/ ConnectFails \/ Reconnect \/ Leave \/ Return
      <4>1. ready' = ready /\ pc' \in {"connect", "backoff", "stop sender", "returned"}
        BY <3>1
      <4>2. QED
        BY <2>1, <4>1 DEF Stages
    <3>2. CASE Connected
      <4>1. ready' = ready /\ pc' = IF drained THEN "mark ready" ELSE "drain"
        BY <3>2
      <4>2. QED
        BY <2>1, <4>1 DEF Stages
    <3>3. CASE MarkReady
      <4>1. drained /\ pc' = "poll" /\ ready'
        BY <3>3 DEF Stages
      <4>2. QED
        BY <2>1, <4>1 DEF Stages
    <3>4. CASE PollAgain
      BY <1>s, <2>1, <3>4 DEF Stages
    <3>5. QED
      BY <1>2, <3>1, <3>2, <3>3, <3>4
  <2>4. QED
    BY <2>1, <2>2, <2>3 DEF Bounds, BatchNext, HandledBelow
<1>3. CASE Die
  <2>1. UNCHANGED <<updates, forgotten, handled>> /\ offset' = 0 /\ pc' = "down" /\ ~drained' /\ ~ready'
    BY <1>3 DEF Die, serverVars
  <2>2. Bounds' /\ HandledBelow'
    BY <1>n, <2>1 DEF Bounds, HandledBelow
  <2>3. Stages' /\ BatchNext'
    BY <2>1 DEF Stages, BatchNext
  <2>4. QED
    BY <2>2, <2>3
<1>4. CASE Drained
  <2>1. NextId' = Len(updates) + 1 /\ forgotten' <= Len(updates) /\ offset' <= Len(updates) + 1
    BY <1>4, <1>t, NextIdDrained
  <2>2. UNCHANGED <<updates, handled>> /\ pc' = "mark ready" /\ drained'
    BY <1>4 DEF Drained
  <2>3. Bounds'
    BY <2>1, <2>2 DEF Bounds
  <2>4. \A k \in DOMAIN handled : handled[k] <= Len(updates) /\ handled[k] < Len(updates) + 1
    BY <1>n, <1>h DEF HandledBelow
  <2>5. HandledBelow'
    BY <2>1, <2>2, <2>4 DEF HandledBelow
  <2>6. Stages' /\ BatchNext'
    BY <2>2 DEF Stages, BatchNext
  <2>7. QED
    BY <2>3, <2>5, <2>6
<1>5. CASE DrainFails
  <2>1. UNCHANGED <<updates, handled, offset, drained, ready>> /\ pc' = "backoff" /\ ~drained
    BY <1>5 DEF DrainFails, Stages
  <2>2. forgotten' <= Len(updates)
    BY <1>5, <1>n, <1>b DEF DrainFails, AllButNewest, MaxOf
  <2>3. QED
    BY <2>1, <2>2 DEF Bounds, Stages, BatchNext, HandledBelow
<1>6. CASE Poll \/ PollFails
  <2>1. forgotten' \in {forgotten, Acknowledged} /\ UNCHANGED <<updates, offset, drained, ready, handled>> /\ ready
    BY <1>6 DEF Poll, PollFails, Stages
  <2>2. Acknowledged <= Len(updates)
    BY <1>n, <1>b DEF Acknowledged, MaxOf
  <2>3. NextId' = NextId
    BY <1>t, <2>1, NextIdKept
  <2>4. Bounds' /\ Stages' /\ HandledBelow'
    BY <1>6, <2>1, <2>2, <2>3 DEF Poll, PollFails, Bounds, Stages, HandledBelow
  <2>5. BatchNext'
    BY <1>6, <1>t, <2>1, <2>3, AnswerTyped DEF Poll, PollFails, BatchNext
  <2>6. QED
    BY <2>4, <2>5
<1>7. CASE Ignore
  <2>1. NextId' = NextId + 1 /\ offset' <= Len(updates) + 1
    BY <1>7, NextIdTaken
  <2>2. batch # <<>> /\ batch' = Tail(batch) /\ UNCHANGED <<updates, forgotten, handled, drained, ready>>
    BY <1>7, <1>t DEF Ignore, PollTypes, serverVars
  <2>3. \A k \in DOMAIN batch' : batch'[k] = NextId' + k - 1 /\ batch'[k] <= Len(updates)
    <3>1. \A k \in DOMAIN batch : batch[k] = NextId + k - 1 /\ batch[k] <= Len(updates)
      BY <1>7 DEF Ignore, BatchNext
    <3>2. /\ DOMAIN batch' = 1..(Len(batch) - 1)
          /\ \A k \in DOMAIN batch' : k + 1 \in DOMAIN batch /\ batch'[k] = batch[k + 1]
      BY <1>k, <2>2, TailOf
    <3>3. QED
      BY <1>n, <1>k, <2>1, <3>1, <3>2
  <2>4. pc' # "reply" /\ Stages'
    BY <1>7 DEF Ignore, AfterUpdate, Stages
  <2>5. HandledBelow'
    BY <1>n, <1>h, <2>1, <2>2 DEF HandledBelow
  <2>6. QED
    BY <1>b, <2>1, <2>2, <2>3, <2>4, <2>5 DEF Bounds, BatchNext
<1>8. CASE Dispatch
  <2>1. NextId' = NextId + 1 /\ Head(batch) = NextId /\ NextId <= Len(updates) /\ offset' <= Len(updates) + 1
    BY <1>8, NextIdTaken
  <2>2. UNCHANGED <<updates, forgotten, batch, drained, ready>> /\ pc' = "reply" /\ ready /\ drained
    BY <1>8 DEF Dispatch, Stages, serverVars
  <2>3. \A k \in DOMAIN batch : batch[k] = NextId' + k - 2 /\ batch[k] <= Len(updates)
    BY <1>8, <1>n, <1>k, <2>1 DEF Dispatch, BatchNext
  <2>4. handled' = Append(handled, NextId)
    BY <1>8, <2>1 DEF Dispatch
  <2>5. \A k \in DOMAIN handled' : handled'[k] <= Len(updates) /\ handled'[k] < NextId'
    BY <1>n, <1>h, <2>1, <2>2, <2>4, AppendOf DEF HandledBelow
  <2>6. QED
    BY <1>b, <2>1, <2>2, <2>3, <2>5 DEF Bounds, Stages, BatchNext, HandledBelow
<1>9. CASE Reply
  <2>1. batch # <<>> /\ batch' = Tail(batch)
    BY <1>9, <1>t DEF Reply, PollTypes
  <2>2. UNCHANGED <<updates, forgotten, offset, NextId, drained, ready, handled>>
    BY <1>9 DEF Reply, NextId, serverVars
  <2>3. \A k \in DOMAIN batch' : batch'[k] = NextId' + k - 1 /\ batch'[k] <= Len(updates)
    BY <1>9, <1>n, <1>k, <2>1, <2>2, TailOf DEF Reply, BatchNext
  <2>4. pc' # "reply" /\ Stages'
    BY <1>9 DEF Reply, AfterUpdate, Stages
  <2>5. QED
    BY <2>2, <2>3, <2>4 DEF Bounds, BatchNext, HandledBelow
<1>10. CASE UNCHANGED feedState
  BY <1>10 DEF feedState, Bounds, Stages, BatchNext, HandledBelow, NextId
<1>11. QED
  BY <1>1, <1>2, <1>3, <1>4, <1>5, <1>6, <1>7, <1>8, <1>9, <1>10, FeedAlone DEF Next, PollLoop

THEOREM TelegramReached == Spec => []Reached
<1>1. Init => Reached
  BY EmptySeq DEF Init, Reached, Bounds, Stages, BatchNext, HandledBelow
<1>2. QED
  BY <1>1, ReachedKept, TelegramTypes, PTL DEF Spec

(* Every command is run once and in the order of the chat: what was run is *)
(* behind the next update, across acknowledgements, drains and restarts.   *)
THEOREM TelegramRunsOnce == Spec => []RunOnceInOrder
<1>1. Init => RunOnceInOrder
  BY DEF Init, RunOnceInOrder, StrictlyIncreasing
<1>2. TypeOK /\ Reached /\ RunOnceInOrder /\ [Next]_vars => RunOnceInOrder'
  <2> SUFFICES ASSUME TypeOK, Reached, RunOnceInOrder, [Next]_vars PROVE RunOnceInOrder'
    OBVIOUS
  <2>1. CASE Dispatch
    <3>1. handled' = Append(handled, NextId) /\ handled \in Seq(Nat) /\ NextId \in Nat
      BY <2>1, NextIdTaken DEF Dispatch, TypeOK, RunTypes
    <3>2. \A k \in DOMAIN handled : handled[k] \in Nat /\ handled[k] < NextId
      BY <2>1, <3>1, LenProperties DEF Dispatch, Reached, Stages, HandledBelow
    <3>3. QED
      BY <3>1, <3>2, AppendOf DEF RunOnceInOrder, StrictlyIncreasing
  <2>2. CASE UNCHANGED handled
    BY <2>2 DEF RunOnceInOrder, StrictlyIncreasing
  <2>3. CASE PollLoop /\ ~Dispatch
    BY <2>2, <2>3 DEF PollLoop, ConnectFails, Reconnect, Connected, Drained, DrainFails, MarkReady, Poll, PollFails,
                      PollAgain, Ignore, Reply, Leave, Return
  <2>4. QED
    BY <2>1, <2>2, <2>3, FeedAlone DEF Next, UserWrites, Boot, Die, feedState
<1>3. QED
  BY <1>1, <1>2, TelegramTypes, TelegramReached, PTL DEF Spec

\* The steps that change nothing a reader of the feed can see.
LEMMA FeedUnchanged ==
  ASSUME \/ Boot \/ Cancel \/ PostMessage \/ Sender \/ UNCHANGED vars
         \/ ConnectFails \/ Reconnect \/ Connected \/ PollAgain \/ Reply \/ Leave \/ Return
  PROVE  UNCHANGED <<updates, handled, ready, readyAt, NextId>>
<1>1. CASE Cancel \/ PostMessage \/ Sender \/ UNCHANGED vars
  BY <1>1, FeedAlone DEF feedState, NextId
<1>2. CASE Boot \/ ConnectFails \/ Reconnect \/ Connected
  BY <1>2 DEF Boot, ConnectFails, Reconnect, Connected, NextId, serverVars
<1>3. CASE PollAgain \/ Reply \/ Leave \/ Return
  BY <1>3 DEF PollAgain, Reply, Leave, Return, NextId, serverVars
<1>4. QED
  BY <1>1, <1>2, <1>3

\* Nor do the calls of the poll loop, but for their acknowledgement.
LEMMA FeedPolled ==
  ASSUME TypeOK, Poll \/ PollFails
  PROVE  UNCHANGED <<updates, handled, ready, readyAt, NextId>>
<1>1. UNCHANGED <<updates, handled, ready, readyAt>>
  BY DEF Poll, PollFails
<1>2. NextId' = NextId
  BY NextIdKept DEF Poll, PollFails, TypeOK
<1>3. QED
  BY <1>1, <1>2

(* No command that arrives after the bot said it was ready is taken for a  *)
(* leftover.                                                               *)
THEOREM TelegramSkipsNone == Spec => []NoneSkippedOnceReady
<1>1. Init => NoneSkippedOnceReady
  BY DEF Init, NoneSkippedOnceReady
<1>2. TypeOK /\ Reached /\ NoneSkippedOnceReady /\ [Next]_vars => NoneSkippedOnceReady'
  <2> SUFFICES ASSUME TypeOK, Reached, NoneSkippedOnceReady, [Next]_vars PROVE NoneSkippedOnceReady'
    OBVIOUS
  <2>t. /\ ServerTypes /\ PollTypes /\ handled \in Seq(Nat) /\ updates \in Seq(Update)
        /\ NextId \in Nat /\ Len(updates) \in Nat /\ DOMAIN updates = 1..Len(updates)
        /\ NextId <= Len(updates) + 1
    BY NextIdNat, Counts, LenProperties DEF TypeOK, ServerTypes, RunTypes, Reached, Bounds, NextId, MaxOf
  <2>1. CASE UserWrites
    <3>1. PICK u \in Update : updates' = Append(updates, u)
      BY <2>1, TelegramAssumption DEF UserWrites
    <3>2. UNCHANGED <<NextId, ready, readyAt, handled>>
      BY <2>1 DEF UserWrites, NextId, pollVars
    <3>3. \A i \in DOMAIN updates' : i < NextId => i \in DOMAIN updates /\ updates'[i] = updates[i]
      BY <2>t, <3>1, AppendOf
    <3>4. QED
      BY <3>2, <3>3 DEF NoneSkippedOnceReady
  <2>2. CASE Die
    BY <2>2 DEF Die, NoneSkippedOnceReady
  <2>3. CASE Drained \/ DrainFails
    <3>1. ~ready'
      BY <2>3 DEF Drained, DrainFails, Reached, Stages
    <3>2. QED
      BY <3>1 DEF NoneSkippedOnceReady
  <2>4. CASE MarkReady
    <3>1. readyAt' = Len(updates) /\ updates' = updates
      BY <2>4 DEF MarkReady, serverVars
    <3>2. QED
      BY <2>t, <3>1 DEF NoneSkippedOnceReady
  <2>5. CASE Ignore
    <3>1. Head(batch) = NextId /\ NextId' = NextId + 1
      BY <2>5, NextIdTaken
    <3>2. UNCHANGED <<updates, ready, readyAt, handled>> /\ ~Accepted(updates[NextId])
      BY <2>5, <3>1 DEF Ignore, serverVars
    <3>3. \A i \in DOMAIN updates : i < NextId' /\ Accepted(updates[i]) => i < NextId
      BY <2>t, <3>1, <3>2
    <3>4. QED
      BY <3>2, <3>3 DEF NoneSkippedOnceReady, Accepted
  <2>6. CASE Dispatch
    <3>1. Head(batch) = NextId /\ NextId' = NextId + 1
      BY <2>6, NextIdTaken
    <3>2. UNCHANGED <<updates, ready, readyAt>> /\ handled' = Append(handled, NextId)
      BY <2>6, <3>1 DEF Dispatch, serverVars
    <3>3. \A i \in DOMAIN updates : i < NextId' => i < NextId \/ i = NextId
      BY <2>t, <3>1
    <3>4. /\ \A k \in DOMAIN handled : k \in DOMAIN handled' /\ handled'[k] = handled[k]
          /\ \E k \in DOMAIN handled' : handled'[k] = NextId
      BY <2>t, <3>2, AppendOf
    <3>5. SUFFICES ASSUME ready', NEW i \in DOMAIN updates', i > readyAt', i < NextId', Accepted(updates'[i])
                   PROVE  \E k \in DOMAIN handled' : handled'[k] = i
      BY <3>2 DEF NoneSkippedOnceReady, Accepted
    <3>6. CASE i = NextId
      BY <3>4, <3>6
    <3>7. CASE i < NextId
      <4>1. PICK k \in DOMAIN handled : handled[k] = i
        BY <3>2, <3>5, <3>7 DEF NoneSkippedOnceReady
      <4>2. QED
        BY <3>4, <4>1
    <3>8. QED
      BY <3>2, <3>3, <3>5, <3>6, <3>7
  <2>7. CASE UNCHANGED <<updates, handled, ready, readyAt, NextId>>
    BY <2>7 DEF NoneSkippedOnceReady, Accepted
  <2>8. QED
    BY <2>1, <2>2, <2>3, <2>4, <2>5, <2>6, <2>7, FeedUnchanged, FeedPolled DEF Next, PollLoop
<1>3. QED
  BY <1>1, <1>2, TelegramTypes, TelegramReached, PTL DEF Spec

-----------------------------------------------------------------------------
(* The refinement.                                                         *)

\* What the feed calls wanted is what the bot accepts.
LEMMA AcceptedIsWanted ==
  ASSUME NEW u \in Update
  PROVE  Accepted(u) <=> u \in [chat : {"configured"}, from : {"person", "anonymous admin"}, command : {TRUE}]
BY DEF Update, Accepted

(* The bot is a command feed (CommandFeed): every step of its poll loop,   *)
(* its sender, the server and the program is a step of the feed or leaves  *)
(* it alone.                                                               *)
THEOREM TelegramFeed == Spec => ImplementsFeed
<1>1. Init => Feed!FeedInit
  BY DEF Init, Feed!FeedInit
<1>2. TypeOK /\ Reached /\ [Next]_vars => [Feed!FeedNext]_(Feed!feedVars)
  <2> SUFFICES ASSUME TypeOK, Reached, [Next]_vars PROVE Feed!FeedNext \/ UNCHANGED Feed!feedVars
    OBVIOUS
  <2>t. /\ updates \in Seq(Update) /\ NextId \in Nat /\ NextId >= 1 /\ Len(updates) \in Nat
        /\ DOMAIN updates = 1..Len(updates) /\ NextId <= Len(updates) + 1
    BY NextIdNat, Counts, LenProperties DEF TypeOK, ServerTypes, Reached, Bounds, NextId, MaxOf
  <2>1. CASE UserWrites
    <3>1. \E u \in Update : updates' = Append(updates, u)
      BY <2>1, TelegramAssumption DEF UserWrites
    <3>2. UNCHANGED <<NextId, ready, handled>>
      BY <2>1 DEF UserWrites, NextId, pollVars
    <3>3. QED
      BY <3>1, <3>2 DEF Feed!FeedNext, Feed!Arrive
  <2>2. CASE Die
    <3>1. UNCHANGED <<updates, handled>> /\ ready' = FALSE
      BY <2>2 DEF Die, serverVars
    <3>2. QED
      BY <3>1 DEF Feed!FeedNext, Feed!Close, Feed!feedVars, TypeOK, PollTypes
  <2>3. CASE Drained \/ DrainFails
    <3>1. ~ready /\ UNCHANGED <<updates, handled, ready>>
      BY <2>3 DEF Drained, DrainFails, Reached, Stages
    <3>2. QED
      BY <3>1 DEF Feed!feedVars
  <2>4. CASE MarkReady
    <3>1. ready' = TRUE /\ UNCHANGED <<updates, handled, NextId>> /\ drained
      BY <2>4 DEF MarkReady, NextId, serverVars, Reached, Stages
    <3>2. CASE ready
      BY <3>1, <3>2 DEF Feed!feedVars, TypeOK, PollTypes
    <3>3. CASE ~ready
      BY <2>t, <3>1, <3>3 DEF Feed!FeedNext, Feed!Open, Reached, HandledBelow
    <3>4. QED
      BY <3>2, <3>3
  <2>5. CASE Ignore \/ Dispatch
    <3>1. Head(batch) = NextId /\ NextId' = NextId + 1 /\ NextId \in 1..Len(updates)
      BY <2>5, NextIdTaken
    <3>2. ready /\ UNCHANGED <<updates, ready>>
      BY <2>5 DEF Ignore, Dispatch, Reached, Stages, serverVars
    <3>3. updates[NextId] \in Update
      BY <2>t, <3>1, ElementOfSeq
    <3>4. handled' = IF Accepted(updates[NextId]) THEN Append(handled, NextId) ELSE handled
      BY <2>5, <3>1 DEF Ignore, Dispatch
    <3>5. QED
      BY <2>t, <3>1, <3>2, <3>3, <3>4, AcceptedIsWanted DEF Feed!FeedNext, Feed!Take
  <2>6. CASE UNCHANGED <<updates, handled, ready, readyAt, NextId>>
    BY <2>6 DEF Feed!feedVars
  <2>7. QED
    BY <2>1, <2>2, <2>3, <2>4, <2>5, <2>6, FeedUnchanged, FeedPolled DEF Next, PollLoop
<1>3. QED
  BY <1>1, <1>2, TelegramTypes, TelegramReached, PTL DEF Spec, ImplementsFeed, Feed!FeedSpec

-----------------------------------------------------------------------------
(* The outbox.                                                             *)

\* A message is sent, waits behind the one that is, or was posted before them.
SendOrder ==
  /\ sender \in {"html", "plain", "wait"} => sending # 0
  /\ sending <= queued
  /\ StrictlyIncreasing(outbox)
  /\ \A k \in DOMAIN outbox : sending < outbox[k] /\ outbox[k] <= queued
  /\ \A k \in DOMAIN posted :
       /\ posted[k] <= queued
       /\ sending # 0 => posted[k] < sending
       /\ \A l \in DOMAIN outbox : posted[k] < outbox[l]

(* Messages are posted in the order of the queue and none twice: there is  *)
(* one sender, and it leaves a message once the chat may have it.          *)
THEOREM TelegramPostsInOrder == Spec => []PostedInOrderOnce
<1>1. Init => SendOrder /\ PostedInOrderOnce
  BY EmptySeq DEF Init, SendOrder, PostedInOrderOnce, StrictlyIncreasing
<1>2. TypeOK /\ SendOrder /\ PostedInOrderOnce /\ [Next]_vars => SendOrder' /\ PostedInOrderOnce'
  <2> SUFFICES ASSUME TypeOK, SendOrder, PostedInOrderOnce, [Next]_vars PROVE SendOrder' /\ PostedInOrderOnce'
    OBVIOUS
  <2>t. /\ outbox \in Seq(Nat) /\ queued \in Nat /\ posted \in Seq(Nat) /\ sending \in Nat
        /\ DOMAIN outbox = 1..Len(outbox) /\ DOMAIN posted = 1..Len(posted)
        /\ Len(outbox) \in Nat /\ Len(posted) \in Nat
        /\ \A k \in DOMAIN outbox : outbox[k] \in Nat
        /\ \A k \in DOMAIN posted : posted[k] \in Nat
    BY LenProperties, ElementOfSeq DEF TypeOK, QueueTypes, SendTypes
  <2>1. CASE Enqueue /\ UNCHANGED <<sendVars, posted>>
    <3>1. CASE outbox' = outbox /\ queued' = queued + 1
      BY <2>1, <2>t, <3>1 DEF SendOrder, PostedInOrderOnce, StrictlyIncreasing, sendVars
    <3>2. CASE outbox' = Append(outbox, queued + 1) /\ queued' = queued + 1
      <4>1. /\ DOMAIN outbox' = 1..(Len(outbox) + 1)
            /\ \A k \in DOMAIN outbox' : outbox'[k] = IF k = Len(outbox) + 1 THEN queued + 1 ELSE outbox[k]
        BY <2>t, <3>2, AppendOf
      <4>2. StrictlyIncreasing(outbox)'
        <5>1. StrictlyIncreasing(outbox) /\ \A k \in DOMAIN outbox : outbox[k] < queued + 1
          BY <2>t DEF SendOrder
        <5>2. StrictlyIncreasing(Append(outbox, queued + 1))
          BY <2>t, <5>1, AppendIncreasing
        <5>3. QED
          BY <3>2, <5>2 DEF StrictlyIncreasing
      <4>3. \A k \in DOMAIN outbox' : sending < outbox'[k] /\ outbox'[k] <= queued + 1
        BY <2>t, <4>1 DEF SendOrder
      <4>4. \A k \in DOMAIN posted : posted[k] <= queued + 1 /\ \A l \in DOMAIN outbox' : posted[k] < outbox'[l]
        BY <2>t, <4>1 DEF SendOrder
      <4>5. UNCHANGED <<sender, sending, posted>> /\ queued' = queued + 1
        BY <2>1, <3>2 DEF sendVars
      <4>6. PostedInOrderOnce'
        BY <4>5 DEF PostedInOrderOnce, StrictlyIncreasing
      <4>7. SendOrder'
        BY <2>t, <4>2, <4>3, <4>4, <4>5 DEF SendOrder
      <4>8. QED
        BY <4>6, <4>7
    <3>3. QED
      BY <2>1, <3>1, <3>2 DEF Enqueue
  <2>2. CASE TakeMessage
    <3>1. outbox # <<>> /\ sending' = Head(outbox) /\ outbox' = Tail(outbox) /\ UNCHANGED <<queued, posted>>
      BY <2>2 DEF TakeMessage
    <3>2. /\ 1 \in DOMAIN outbox /\ sending' = outbox[1]
          /\ DOMAIN outbox' = 1..(Len(outbox) - 1)
          /\ \A k \in DOMAIN outbox' : k + 1 \in DOMAIN outbox /\ outbox'[k] = outbox[k + 1]
      BY <2>t, <3>1, TailOf
    <3>3. StrictlyIncreasing(outbox)' /\ \A k \in DOMAIN outbox' : sending' < outbox'[k] /\ outbox'[k] <= queued
      <4>1. StrictlyIncreasing(Tail(outbox)) /\ \A k \in DOMAIN Tail(outbox) : outbox[1] < Tail(outbox)[k]
        BY <2>t, <3>1, TailIncreasing DEF SendOrder
      <4>2. QED
        BY <2>t, <3>1, <3>2, <4>1 DEF SendOrder, StrictlyIncreasing
    <3>4. sending' # 0 /\ sending' <= queued
      BY <2>t, <3>2 DEF SendOrder
    <3>5. QED
      BY <2>t, <3>1, <3>2, <3>3, <3>4 DEF SendOrder, PostedInOrderOnce, StrictlyIncreasing
  <2>3. CASE /\ sending # 0 /\ posted' = Append(posted, sending)
             /\ sender' = "idle" /\ sending' = 0 /\ UNCHANGED queueVars
    <3>1. /\ DOMAIN posted' = 1..(Len(posted) + 1)
          /\ \A k \in DOMAIN posted' : posted'[k] = IF k = Len(posted) + 1 THEN sending ELSE posted[k]
      BY <2>t, <2>3, AppendOf
    <3>2. PostedInOrderOnce'
      BY <2>t, <2>3, <3>1 DEF SendOrder, PostedInOrderOnce, StrictlyIncreasing
    <3>3. SendOrder'
      BY <2>t, <2>3, <3>1 DEF SendOrder, StrictlyIncreasing, queueVars
    <3>4. QED
      BY <3>2, <3>3
  <2>4. CASE sender' \in {"idle", "done"} /\ sending' = 0 /\ UNCHANGED <<queueVars, posted>>
    BY <2>t, <2>4 DEF SendOrder, PostedInOrderOnce, StrictlyIncreasing, queueVars
  <2>5. CASE sending # 0 /\ UNCHANGED <<queueVars, posted, sending>>
    BY <2>t, <2>5 DEF SendOrder, PostedInOrderOnce, StrictlyIncreasing, queueVars
  <2>6. CASE UNCHANGED <<sender, sending, queueVars, posted>>
    BY <2>6 DEF SendOrder, PostedInOrderOnce, StrictlyIncreasing, queueVars
  <2>7. CASE Die
    BY <2>t, <2>7, EmptySeq DEF Die, SendOrder, PostedInOrderOnce, StrictlyIncreasing
  <2>8. CASE Sender
    <3>1. CASE Sent \/ SendFails
      BY <2>3, <2>4, <3>1 DEF Sent, SendFails, SendOrder
    <3>2. CASE MarkupRefused \/ RateLimited \/ WaitEnds
      BY <2>4, <2>5, <3>2 DEF MarkupRefused, RateLimited, WaitEnds, SendOrder
    <3>3. CASE SenderStops
      BY <2>t, <3>3 DEF SenderStops, SendOrder, PostedInOrderOnce, StrictlyIncreasing, queueVars
    <3>4. QED
      BY <2>2, <2>8, <3>1, <3>2, <3>3 DEF Sender
  <2>9. CASE PollLoop
    <3>1. CASE Reply
      BY <2>1, <3>1 DEF Reply
    <3>2. CASE ~Reply
      BY <2>6, <2>9, <3>2 DEF PollLoop, ConnectFails, Reconnect, Connected, Drained, DrainFails, MarkReady, Poll,
                              PollFails, PollAgain, Ignore, Dispatch, Leave, Return, sendVars
    <3>3. QED
      BY <3>1, <3>2
  <2>10. QED
    BY <2>1, <2>6, <2>7, <2>8, <2>9 DEF Next, UserWrites, Boot, Cancel, PostMessage, vars, sendVars
<1>3. QED
  BY <1>1, <1>2, TelegramTypes, PTL DEF Spec

=============================================================================
