------------------------------ MODULE OpProofs ------------------------------
(***************************************************************************)
(* Proofs about the ops of ServiceManager, for any number of services,     *)
(* callers and reloads: what "service was reloaded; retry" promises, and   *)
(* that a service the operator stopped stays down.                         *)
(***************************************************************************)
EXTENDS DeployProofs, SequenceTheorems

\* Where the op x is: on the channel of g, or in the hands of its loop.
Queued(x, g)  == \E i \in DOMAIN opCh[g] : opCh[g][i] = x
Serving(x, g) == pc[g] = "op" /\ cur[g] = x

\* A caller has one op, on one channel, once.
QueuedOnce ==
  \A g \in Instances : \A i, j \in DOMAIN opCh[g] : opCh[g][i] = opCh[g][j] /\ opCh[g][i] \in Callers => i = j

\* An op belongs to a call that waits for it, or gave up, and has no answer yet.
Unanswered ==
  \A c \in Callers, g \in Instances :
    Queued(c, g) \/ Serving(c, g) => opOn[c] = g /\ opPc[c] \in {"wait", "retry", "gone"} /\ res[c] = "none"

\* An op was run if it is being served or has the answer of a loop that served it.
RanServed ==
  \A c \in Callers :
    /\ \A g \in Instances : Queued(c, g) => ~ran[c]
    /\ \A g \in Instances : Serving(c, g) => ran[c]
    /\ ran[c] => (\E g \in Instances : Serving(c, g)) \/ res[c] \in {"done", "failed"}

\* The calls themselves.
CallsSane ==
  \A c \in Callers :
    /\ opPc[c] \in {"idle", "send"} => res[c] = "none"
    /\ opPc[c] # "idle" => opOn[c] \in Instances
    /\ opPc[c] = "retry" => retired[opOn[c]] /\ ~ran[c]

OpTracked == QueuedOnce /\ Unanswered /\ RanServed /\ CallsSane

-----------------------------------------------------------------------------
(* Queues.                                                                 *)

LEMMA QueueTypes ==
  ASSUME TypeOK, NEW g \in Instances
  PROVE  opCh[g] \in Seq(Messages) /\ Len(opCh[g]) \in Nat /\ DOMAIN opCh[g] = 1..Len(opCh[g])
BY DEF TypeOK, TypeQueues

LEMMA QueuedAppend ==
  ASSUME TypeOK, NEW g \in Instances, NEW x \in Messages, opCh' = [opCh EXCEPT ![g] = Append(@, x)]
  PROVE  /\ \A y \in Messages, h \in Instances : Queued(y, h)' => Queued(y, h) \/ (h = g /\ y = x)
         /\ QueuedOnce /\ (x \in Callers => ~Queued(x, g)) => QueuedOnce'
<1>1. /\ opCh'[g] = Append(opCh[g], x) /\ \A h \in Instances \ {g} : opCh'[h] = opCh[h]
      /\ opCh[g] \in Seq(Messages)
  BY QueueTypes DEF TypeOK, TypeQueues
<1>2. /\ DOMAIN opCh[g] = 1..Len(opCh[g]) /\ DOMAIN opCh'[g] = 1..(Len(opCh[g]) + 1) /\ Len(opCh[g]) \in Nat
      /\ \A i \in DOMAIN opCh[g] : opCh'[g][i] = opCh[g][i]
      /\ opCh'[g][Len(opCh[g]) + 1] = x
  BY <1>1
<1>3. \A i \in DOMAIN opCh'[g] : i \in DOMAIN opCh[g] \/ i = Len(opCh[g]) + 1
  BY <1>2
<1>4. QED
  BY <1>1, <1>2, <1>3 DEF Queued, QueuedOnce

LEMMA TailParts ==
  ASSUME NEW S, NEW q \in Seq(S), q # <<>>
  PROVE  /\ DOMAIN q = 1..Len(q) /\ DOMAIN Tail(q) = 1..(Len(q) - 1) /\ Len(q) \in Nat \ {0}
         /\ \A i \in DOMAIN Tail(q) : Tail(q)[i] = q[i + 1]
         /\ Head(q) = q[1]
<1>1. Len(q) \in Nat /\ Len(q) # 0 /\ DOMAIN q = 1..Len(q) /\ q \in [1..Len(q) -> S]
  BY EmptySeq, LenProperties
<1>2. QED
  BY <1>1

LEMMA QueuedTail ==
  ASSUME TypeOK, NEW g \in Instances, opCh[g] # <<>>, opCh' = [opCh EXCEPT ![g] = Tail(@)],
         NEW x, x = Head(opCh[g])
  PROVE  /\ Queued(x, g)
         /\ \A y \in Messages, h \in Instances : Queued(y, h)' => Queued(y, h)
         /\ QueuedOnce => QueuedOnce'
         /\ QueuedOnce /\ x \in Callers => ~Queued(x, g)'
<1>1. /\ opCh'[g] = Tail(opCh[g]) /\ \A h \in Instances \ {g} : opCh'[h] = opCh[h]
      /\ opCh[g] \in Seq(Messages)
  BY QueueTypes DEF TypeOK, TypeQueues
<1>a. /\ DOMAIN opCh[g] = 1..Len(opCh[g]) /\ DOMAIN Tail(opCh[g]) = 1..(Len(opCh[g]) - 1) /\ Len(opCh[g]) \in Nat \ {0}
      /\ \A i \in DOMAIN Tail(opCh[g]) : Tail(opCh[g])[i] = opCh[g][i + 1]
      /\ Head(opCh[g]) = opCh[g][1]
  BY <1>1, TailParts
<1>2. /\ DOMAIN opCh[g] = 1..Len(opCh[g]) /\ DOMAIN opCh'[g] = 1..(Len(opCh[g]) - 1) /\ Len(opCh[g]) \in Nat \ {0}
      /\ \A i \in DOMAIN opCh'[g] : opCh'[g][i] = opCh[g][i + 1]
      /\ x = opCh[g][1]
  BY <1>1, <1>a, Zenon
<1>3. 1 \in DOMAIN opCh[g] /\ \A i \in DOMAIN opCh'[g] : i + 1 \in DOMAIN opCh[g] /\ i + 1 # 1
  BY <1>2
<1>4. \A i, j \in DOMAIN opCh'[g] : i + 1 = j + 1 => i = j
  BY <1>2
<1>5. QueuedOnce => QueuedOnce'
  BY <1>1, <1>2, <1>3, <1>4 DEF QueuedOnce
<1>6. Queued(x, g) /\ \A y \in Messages, h \in Instances : Queued(y, h)' => Queued(y, h)
  BY <1>1, <1>2, <1>3 DEF Queued
<1>7. ASSUME QueuedOnce, x \in Callers, Queued(x, g)' PROVE FALSE
  <2>1. PICK i \in DOMAIN opCh'[g] : opCh'[g][i] = x
    BY <1>7 DEF Queued
  <2>2. opCh[g][i + 1] = x /\ opCh[g][1] = x
    BY <1>2, <2>1
  <2>3. QED
    BY <1>3, <1>7, <2>1, <2>2 DEF QueuedOnce
<1>8. QED
  BY <1>5, <1>6, <1>7

-----------------------------------------------------------------------------
(* Ops that nobody touches.                                                *)

LEMMA TrackedFrame ==
  ASSUME OpTracked,
         UNCHANGED <<opPc, opOn, ran>>, QueuedOnce',
         \A c \in Callers : res'[c] = res[c],
         \A c \in Callers, g \in Instances : Queued(c, g)' => Queued(c, g),
         \A c \in Callers, g \in Instances : Serving(c, g)' <=> Serving(c, g),
         \A c \in Callers : opOn[c] \in Instances /\ retired[opOn[c]] => retired'[opOn[c]]
  PROVE  OpTracked'
<1>1. Unanswered' /\ RanServed' /\ CallsSane'
  BY DEF OpTracked, Unanswered, RanServed, CallsSane
<1>2. QED
  BY <1>1 DEF OpTracked

\* No op moves when no channel of ops and no hand of a loop does.
LEMMA TrackedAside ==
  ASSUME OpTracked,
         UNCHANGED <<opPc, opOn, ran, opCh, cur>>,
         \A c \in Callers : res'[c] = res[c],
         \A g \in Instances : pc'[g] = "op" <=> pc[g] = "op",
         \A c \in Callers : opOn[c] \in Instances /\ retired[opOn[c]] => retired'[opOn[c]]
  PROVE  OpTracked'
<1>1. QueuedOnce'
  BY DEF OpTracked, QueuedOnce
<1>2. \A c \in Callers, g \in Instances : Queued(c, g)' => Queued(c, g)
  BY DEF Queued
<1>3. \A c \in Callers, g \in Instances : Serving(c, g)' <=> Serving(c, g)
  BY DEF Serving
<1>4. QED
  BY <1>1, <1>2, <1>3, TrackedFrame

-----------------------------------------------------------------------------
(* The steps of a caller.                                                  *)

\* What a caller does to its own call keeps the others as they are.
LEMMA TrackedCall ==
  ASSUME OpTracked, NEW c \in Callers,
         UNCHANGED <<opCh, pc, cur, retired>>,
         \A d \in Callers \ {c} : opPc'[d] = opPc[d] /\ opOn'[d] = opOn[d] /\ ran'[d] = ran[d] /\ res'[d] = res[d],
         opPc'[c] \in {"idle", "send"} => res'[c] = "none",
         opPc'[c] # "idle" => opOn'[c] \in Instances,
         opPc'[c] = "retry" => retired[opOn'[c]] /\ ~ran'[c],
         \/ (\A g \in Instances : ~Queued(c, g) /\ ~Serving(c, g)) /\ ~ran'[c]
         \/ UNCHANGED <<opOn, ran, res>> /\ opPc'[c] \in {"wait", "retry", "gone"}
  PROVE  OpTracked'
<1>1. /\ \A d \in Callers, g \in Instances : Queued(d, g)' <=> Queued(d, g)
      /\ \A d \in Callers, g \in Instances : Serving(d, g)' <=> Serving(d, g)
  BY DEF Queued, Serving
<1>2. QueuedOnce'
  BY DEF OpTracked, QueuedOnce
<1>3. Unanswered'
  BY <1>1 DEF OpTracked, Unanswered
<1>4. RanServed'
  BY <1>1 DEF OpTracked, RanServed
<1>5. CallsSane'
  BY DEF OpTracked, CallsSane
<1>6. QED
  BY <1>2, <1>3, <1>4, <1>5 DEF OpTracked

LEMMA TrackedCaller ==
  ASSUME CoreInv, ShownInv, OpTracked, NEW c \in Callers, CallerStep(c)
  PROVE  OpTracked'
<1>t. /\ opPc \in [Callers -> {"idle", "send", "wait", "retry", "gone"}]
      /\ opOn \in [Callers -> Instances \cup {NoInst}]
      /\ ran \in [Callers -> BOOLEAN] /\ res \in [Messages -> Results] /\ c \in Messages
      /\ services \in Instances \cup {NoInst} /\ NoInst \notin Instances
  BY InstancesAssumption DEF CoreInv, TypeOK, TypeOps, TypeManager, Messages
<1>1. \A g \in Instances : cancelled[g] => retired[g] /\ pc[g] # "op"
  BY DEF CoreInv, CurrentOrRetired, ShownInv, LeavesReplaced
<1>2. opPc[c] \in {"idle", "send"} \/ res[c] # "none" => \A g \in Instances : ~Queued(c, g) /\ ~Serving(c, g)
  BY DEF OpTracked, Unanswered
<1>3. opPc[c] \in {"idle", "send"} => ~ran[c] /\ res[c] = "none"
  BY <1>2 DEF OpTracked, RanServed, CallsSane
<1>4. ASSUME NEW k \in OpKinds, Lookup(c, k) PROVE OpTracked'
  <2>1. /\ opPc[c] = "idle" /\ services \in Instances
        /\ opPc' = [opPc EXCEPT ![c] = "send"] /\ opOn' = [opOn EXCEPT ![c] = services]
        /\ UNCHANGED <<opCh, pc, cur, retired, ran, res>>
    BY <1>t, <1>4 DEF Lookup, chanVars, loopVars
  <2>2. QED
    BY <1>t, <1>2, <1>3, <2>1, TrackedCall
<1>5. CASE Send(c)
  <2>1. /\ opPc[c] = "send" /\ opOn[c] \in Instances
        /\ opPc' = [opPc EXCEPT ![c] = "wait"] /\ opCh' = [opCh EXCEPT ![opOn[c]] = Append(@, c)]
        /\ UNCHANGED <<pc, cur, retired, opOn, ran, res>>
    BY <1>5 DEF Send, loopVars, OpTracked, CallsSane
  <2>2. /\ \A d \in Messages, h \in Instances : Queued(d, h)' => Queued(d, h) \/ (h = opOn[c] /\ d = c)
        /\ QueuedOnce'
    BY <1>t, <1>2, <2>1, QueuedAppend DEF CoreInv, OpTracked
  <2>3. \A d \in Callers, h \in Instances : Serving(d, h)' <=> Serving(d, h)
    BY <2>1 DEF Serving
  <2>4. Unanswered' /\ RanServed'
    BY <1>t, <1>2, <1>3, <2>1, <2>2, <2>3 DEF OpTracked, Unanswered, RanServed, Messages
  <2>5. CallsSane'
    BY <1>t, <2>1 DEF OpTracked, CallsSane
  <2>6. QED
    BY <2>2, <2>4, <2>5 DEF OpTracked
<1>6. CASE SendGone(c) \/ Receive(c)
  <2>1. /\ opPc[c] = "send" \/ res[c] # "none"
        /\ opPc' = [opPc EXCEPT ![c] = "idle"] /\ opOn' = [opOn EXCEPT ![c] = NoInst]
        /\ ran' = [ran EXCEPT ![c] = FALSE] /\ res' = [res EXCEPT ![c] = "none"]
        /\ UNCHANGED <<opCh, pc, cur, retired>>
    BY <1>6 DEF SendGone, Receive, CallerFree, chanVars, loopVars
  <2>2. QED
    BY <1>t, <1>2, <2>1, TrackedCall DEF Messages
<1>7. CASE WaitGone(c)
  <2>1. /\ opPc[c] = "wait" /\ res[c] = "none" /\ Done(opOn[c]) /\ opOn[c] \in Instances
        /\ opPc' = [opPc EXCEPT ![c] = IF mgr = "up" THEN "retry" ELSE "gone"]
        /\ UNCHANGED <<opCh, pc, cur, retired, opOn, ran, res>>
    BY <1>7 DEF WaitGone, GivesUp, chanVars, loopVars, OpTracked, CallsSane
  <2>2. mgr = "up" => retired[opOn[c]] /\ pc[opOn[c]] # "op"
    BY <1>1, <2>1 DEF Done
  <2>3. mgr = "up" => ~ran[c]
    BY <2>1, <2>2 DEF OpTracked, RanServed, Unanswered, Serving
  <2>4. opPc'[c] = IF mgr = "up" THEN "retry" ELSE "gone"
    BY <1>t, <2>1
  <2>5. QED
    BY <1>t, <2>1, <2>2, <2>3, <2>4, TrackedCall
<1>8. QED
  BY <1>4, <1>5, <1>6, <1>7 DEF CallerStep

-----------------------------------------------------------------------------
(* The steps of a loop that serves ops.                                    *)

LEMMA TrackedLoopOp ==
  ASSUME CoreInv, OpTracked, NEW g \in Instances, OpStep(g)
  PROVE  OpTracked'
<1>t. /\ opPc \in [Callers -> {"idle", "send", "wait", "retry", "gone"}]
      /\ opCh \in [Instances -> Seq(Messages)]
      /\ ran \in [Callers -> BOOLEAN] /\ res \in [Messages -> Results]
      /\ pc \in [Instances -> LoopPcs] /\ cur \in [Instances -> Messages \cup {NoReload}]
      /\ retired \in [Instances -> BOOLEAN]
      /\ Callers \subseteq Messages /\ Callers \cap Reloads = {}
  BY MessagesAssumption DEF CoreInv, TypeOK, TypeOps, TypeLoops, TypeQueues, Messages
<1>1. CASE opCh[g] # <<>> /\ pc[g] = "select" /\ (RefuseOp(g) \/ BeginOp(g))
  <2>1. PICK x \in Messages : x = Head(opCh[g])
    BY <1>t, <1>1, HeadTailProperties
  <2>2. opCh' = [opCh EXCEPT ![g] = Tail(@)] /\ UNCHANGED <<opPc, opOn, retired>>
    BY <1>1 DEF RefuseOp, BeginOp, callerVars, loopVars
  <2>3. /\ Queued(x, g) /\ (x \in Callers => ~Queued(x, g)')
        /\ \A y \in Messages, h \in Instances : Queued(y, h)' => Queued(y, h)
        /\ QueuedOnce'
    BY <1>1, <2>1, <2>2, QueuedTail DEF CoreInv, OpTracked
  <2>4. x \in Callers => /\ opOn[x] = g /\ res[x] = "none" /\ ~ran[x] /\ opPc[x] \in {"wait", "retry", "gone"}
                         /\ \A h \in Instances : ~Serving(x, h) /\ ~Queued(x, h)'
    BY <1>t, <2>3 DEF OpTracked, Unanswered, RanServed
  <2>5. CASE RefuseOp(g)
    <3>1. res' = [res EXCEPT ![x] = "reloaded"] /\ UNCHANGED <<pc, cur, ran>>
      BY <2>1, <2>5 DEF RefuseOp, Answer, loopVars, callerVars
    <3>2. \A c \in Callers, h \in Instances : Serving(c, h)' <=> Serving(c, h)
      BY <3>1 DEF Serving
    <3>3. Unanswered' /\ RanServed' /\ CallsSane'
      BY <1>t, <2>2, <2>3, <2>4, <3>1, <3>2 DEF OpTracked, Unanswered, RanServed, CallsSane
    <3>4. QED
      BY <2>3, <3>3 DEF OpTracked
  <2>6. CASE BeginOp(g)
    <3>1. /\ cur' = [cur EXCEPT ![g] = x] /\ pc' = [pc EXCEPT ![g] = "op"] /\ UNCHANGED res /\ ~retired[g]
          /\ ran' = IF x \in Callers THEN [ran EXCEPT ![x] = TRUE] ELSE ran
      BY <2>1, <2>6 DEF BeginOp, Goto
    <3>2. \A c \in Callers, h \in Instances : Serving(c, h)' <=> Serving(c, h) \/ (c = x /\ h = g)
      BY <1>t, <1>1, <3>1 DEF Serving
    <3>3. Unanswered' /\ RanServed' /\ CallsSane'
      BY <1>t, <2>2, <2>3, <2>4, <3>1, <3>2 DEF OpTracked, Unanswered, RanServed, CallsSane
    <3>4. QED
      BY <2>3, <3>3 DEF OpTracked
  <2>7. QED
    BY <1>1, <2>5, <2>6
<1>2. CASE EndQuery(g) \/ EndStart(g) \/ EndStop(g) \/ EndRestart(g)
  <2>1. /\ pc[g] = "op" /\ cur[g] \in Callers
        /\ (\E r \in {"done", "failed"} : res' = [res EXCEPT ![cur[g]] = r])
        /\ cur' = [cur EXCEPT ![g] = NoReload] /\ pc' = [pc EXCEPT ![g] = "select"]
        /\ UNCHANGED <<opCh, opPc, opOn, ran, retired>>
    BY <1>2 DEF EndQuery, EndStart, EndStop, EndRestart, EndOpFrame, Handling, Reply, Answer, Goto, callerVars, chanVars
  <2>2. \A h \in Instances : ~Queued(cur[g], h)
    BY <2>1 DEF OpTracked, RanServed, Serving
  <2>3. PICK c \in Callers : c = cur[g]
    BY <2>1
  <2>4. ran[c] /\ opPc[c] \in {"wait", "retry", "gone"} /\ opOn[c] = g /\ \A h \in Instances : ~Queued(c, h)
    BY <2>1, <2>2, <2>3 DEF OpTracked, RanServed, Unanswered, Serving
  <2>5. /\ \A d \in Callers, h \in Instances : Queued(d, h)' <=> Queued(d, h)
        /\ QueuedOnce'
    BY <2>1 DEF Queued, QueuedOnce, OpTracked
  <2>6. \A d \in Callers, h \in Instances : Serving(d, h)' <=> Serving(d, h) /\ d # c
    <3>1. \A d \in Callers, h \in Instances : Serving(d, h) /\ Serving(d, g) => h = g
      BY DEF OpTracked, Unanswered
    <3>2. QED
      BY <1>t, <2>1, <2>3, <3>1 DEF Serving
  <2>7. res'[c] \in {"done", "failed"} /\ \A d \in Callers \ {c} : res'[d] = res[d]
    BY <1>t, <2>1, <2>3
  <2>8. Unanswered' /\ RanServed' /\ CallsSane'
    BY <2>1, <2>4, <2>5, <2>6, <2>7 DEF OpTracked, Unanswered, RanServed, CallsSane
  <2>9. QED
    BY <2>5, <2>8 DEF OpTracked
<1>3. CASE EndInternalStop(g)
  <2>1. /\ pc[g] = "op" /\ cur[g] \in Reloads
        /\ (\E r \in {"done", "failed"} : res' = [res EXCEPT ![cur[g]] = r])
        /\ cur' = [cur EXCEPT ![g] = NoReload] /\ pc' = [pc EXCEPT ![g] = "select"]
        /\ UNCHANGED <<opCh, opPc, opOn, ran>>
        /\ \A h \in Instances : retired[h] => retired'[h]
    BY <1>t, <1>3 DEF EndInternalStop, Reply, Answer, Goto, Retire, callerVars, chanVars
  <2>2. \A c \in Callers, h \in Instances : Serving(c, h)' <=> Serving(c, h)
    BY <1>t, <2>1 DEF Serving
  <2>3. QueuedOnce' /\ \A c \in Callers, h \in Instances : Queued(c, h)' => Queued(c, h)
    BY <2>1 DEF QueuedOnce, Queued, OpTracked
  <2>4. \A c \in Callers : res'[c] = res[c]
    BY <1>t, <2>1
  <2>5. QED
    BY <2>1, <2>2, <2>3, <2>4, TrackedFrame
<1>4. QED
  BY <1>1, <1>2, <1>3 DEF OpStep, RefuseOp, BeginOp

LEMMA TrackedDone ==
  ASSUME CoreInv, OpTracked, NEW g \in Instances, TakeDone(g)
  PROVE  OpTracked'
<1>t. /\ res \in [Messages -> Results] /\ Callers \subseteq Messages
      /\ opCh \in [Instances -> Seq(Messages)] /\ pc \in [Instances -> LoopPcs]
  BY DEF CoreInv, TypeOK, TypeOps, TypeLoops, TypeQueues, Messages
<1>1. /\ pc[g] = "select" /\ pc' = [pc EXCEPT ![g] = "drained"] /\ opCh' = [opCh EXCEPT ![g] = <<>>]
      /\ res' = [x \in Messages |-> IF x \in ToSet(opCh[g]) THEN GoneMsg ELSE res[x]]
      /\ UNCHANGED <<opPc, opOn, ran, cur, retired>>
  BY DEF TakeDone, Goto, callerVars
<1>2. \A c \in Callers : c \in ToSet(opCh[g]) <=> Queued(c, g)
  BY DEF ToSet, Queued
<1>3. \A c \in Callers : res'[c] = IF Queued(c, g) THEN GoneMsg ELSE res[c]
  BY <1>t, <1>1, <1>2
<1>4. \A c \in Callers, h \in Instances : Queued(c, h)' <=> Queued(c, h) /\ h # g
  BY <1>t, <1>1 DEF Queued
<1>5. \A c \in Callers, h \in Instances : Serving(c, h)' <=> Serving(c, h)
  BY <1>t, <1>1 DEF Serving
<1>6. QueuedOnce'
  BY <1>t, <1>1 DEF QueuedOnce, OpTracked
<1>7. \A c \in Callers : Queued(c, g) => ~ran[c] /\ opOn[c] = g /\ opPc[c] \in {"wait", "retry", "gone"}
  BY DEF OpTracked, Unanswered, RanServed
<1>8. \A c \in Callers : ~Serving(c, g)
  BY <1>1 DEF Serving
<1>9. Unanswered'
  BY <1>1, <1>3, <1>4, <1>5, <1>7, <1>8 DEF OpTracked, Unanswered
<1>10. RanServed'
  BY <1>1, <1>3, <1>4, <1>5, <1>7 DEF OpTracked, RanServed
<1>11. CallsSane'
  BY <1>1, <1>3, <1>7 DEF OpTracked, CallsSane
<1>12. QED
  BY <1>6, <1>9, <1>10, <1>11 DEF OpTracked

-----------------------------------------------------------------------------
(* The invariant and "service was reloaded; retry".                        *)

LEMMA TrackedStep == ASSUME CoreInv, ShownInv, OpTracked, Next PROVE OpTracked'
<1>t. /\ pc \in [Instances -> LoopPcs] /\ res \in [Messages -> Results] /\ Callers \subseteq Messages
      /\ NoInst \notin Instances /\ Callers \cap Reloads = {} /\ NoReload \notin Reloads
  BY MessagesAssumption, InstancesAssumption DEF CoreInv, TypeOK, TypeOps, TypeLoops, Messages
<1>r. \A c \in Callers : opOn[c] \in Instances /\ retired[opOn[c]] => retired'[opOn[c]]
  BY RetiredForever DEF CoreInv
<1>1. ASSUME NEW c \in Callers, CallerStep(c) PROVE OpTracked'
  BY <1>1, TrackedCaller
<1>2. ASSUME NEW g \in Instances, OpStep(g) PROVE OpTracked'
  BY <1>2, TrackedLoopOp
<1>3. ASSUME NEW g \in Instances, TakeDone(g) PROVE OpTracked'
  BY <1>3, TrackedDone
<1>4. ASSUME NEW g \in Instances, SeeReady(g) \/ EndStartup(g) \/ DeployStep(g) PROVE OpTracked'
  <2>1. UNCHANGED <<opPc, opOn, ran, opCh, cur, res>>
    BY <1>4 DEF SeeReady, EndStartup, DeployStep, Stash, BeginDeploy, EndDeploy, DeployStepFails, SelfDeployed,
                DeployRestarts, DeployRestartFails, DeployReceived, callerVars, chanVars
  <2>2. \A h \in Instances : pc'[h] = "op" <=> pc[h] = "op"
    BY <1>t, <1>4 DEF SeeReady, EndStartup, DeployStep, Stash, BeginDeploy, EndDeploy, DeployStepFails,
                      SelfDeployed, DeployRestarts, DeployRestartFails, DeployReceived, Goto
  <2>3. QED
    BY <1>r, <2>1, <2>2, TrackedAside
<1>5. ASSUME NEW g \in Instances, ExitStep(g), ~TakeDone(g) PROVE OpTracked'
  <2>1. UNCHANGED <<opPc, opOn, ran, opCh, cur, res>>
    BY <1>5 DEF ExitStep, AfterDrain, Forward, Chase, Found, Enqueue, callerVars, chanVars
  <2>2. \A h \in Instances : pc'[h] = "op" <=> pc[h] = "op"
    BY <1>t, <1>5 DEF ExitStep, AfterDrain, Forward, Chase, Found, Enqueue, Goto
  <2>3. QED
    BY <1>r, <2>1, <2>2, TrackedAside
<1>6. ASSUME StopReturns \/ EnvironmentStep PROVE OpTracked'
  <2>1. UNCHANGED <<opPc, opOn, ran, opCh, cur, res, pc>>
    BY <1>6 DEF StopReturns, EnvironmentStep, ChildExit, Request, SignalReady, Cancel, callerVars, chanVars, loopVars
  <2>2. QED
    BY <1>r, <2>1, TrackedAside
<1>7. CASE ReloadSend
  <2>1. /\ opCh' = [opCh EXCEPT ![rold] = Append(@, reloading)] /\ reloading \in Reloads /\ rold \in Instances
        /\ UNCHANGED <<opPc, opOn, ran, cur, res, pc>>
    BY <1>7 DEF ReloadSend, callerVars, loopVars, CoreInv, TypeOK, TypeReload, ReloadOwnsOld
  <2>2. QueuedOnce' /\ \A c \in Callers, h \in Instances : Queued(c, h)' => Queued(c, h)
    <3>1. PICK g \in Instances, x \in Messages : g = rold /\ x = reloading
      BY <2>1 DEF Messages
    <3>2. opCh' = [opCh EXCEPT ![g] = Append(@, x)] /\ x \notin Callers
      BY <1>t, <2>1, <3>1
    <3>3. QED
      BY <1>t, <3>2, QueuedAppend DEF CoreInv, OpTracked
  <2>3. \A c \in Callers, h \in Instances : Serving(c, h)' <=> Serving(c, h)
    BY <2>1 DEF Serving
  <2>4. QED
    BY <1>r, <2>1, <2>2, <2>3, TrackedFrame
<1>8. CASE ReloadReply
  <2>1. /\ res' = [res EXCEPT ![reloading] = "none"] /\ reloading \in Reloads
        /\ UNCHANGED <<opPc, opOn, ran, opCh, cur, pc>>
    BY <1>8 DEF ReloadReply, Answer, callerVars, loopVars, chanVars, CoreInv, TypeOK, TypeReload
  <2>2. \A c \in Callers : res'[c] = res[c]
    BY <1>t, <2>1
  <2>3. QED
    BY <1>r, <2>1, <2>2, TrackedAside
<1>9. ASSUME ReloadStep, ~ReloadSend, ~ReloadReply PROVE OpTracked'
  <2>1. UNCHANGED <<opPc, opOn, ran, opCh, cur, res>>
    BY <1>9 DEF ReloadStep, ReloadBegin, ReloadGone, ReloadSwap, ReloadDelete, ReloadCancel, ReloadCreate,
                ReloadStart, callerVars, chanVars, loopVars
  <2>2. \A h \in Instances : pc'[h] = "op" <=> pc[h] = "op"
    <3>1. ASSUME NEW g \in Instances, ReloadSwap(g) \/ ReloadCreate(g)
          PROVE  pc[g] = "none" /\ pc' = [pc EXCEPT ![g] = "built"]
      BY <3>1 DEF ReloadSwap, ReloadCreate, Build, Goto
    <3>2. ASSUME ReloadStart PROVE rnew \in Instances /\ pc[rnew] = "built" /\ pc' = [pc EXCEPT ![rnew] = "select"]
      BY <3>2 DEF ReloadStart, Goto, CoreInv, ReloadOwnsOld
    <3>3. ASSUME ReloadGone \/ ReloadDelete \/ ReloadCancel \/ \E x, c : ReloadBegin(x, c) PROVE UNCHANGED pc
      BY <3>3 DEF ReloadGone, ReloadDelete, ReloadCancel, ReloadBegin, loopVars
    <3>4. QED
      BY <1>t, <1>9, <3>1, <3>2, <3>3 DEF ReloadStep
  <2>3. QED
    BY <1>r, <2>1, <2>2, TrackedAside
<1>10. QED
  BY <1>1, <1>2, <1>3, <1>4, <1>5, <1>6, <1>7, <1>8, <1>9 DEF Next, SystemStep, LoopStep

LEMMA TrackedInvariant == Spec => []OpTracked
<1>1. Init => OpTracked
  <2> SUFFICES ASSUME Init PROVE OpTracked
    OBVIOUS
  <2>1. /\ \A g \in Instances : DOMAIN opCh[g] = {} /\ pc[g] # "op"
        /\ \A c \in Callers : opPc[c] = "idle" /\ res[c] = "none" /\ ran[c] = FALSE
    BY DEF Init, InitAbsent, InitService, Messages
  <2>2. QED
    BY <2>1 DEF OpTracked, QueuedOnce, Unanswered, RanServed, CallsSane, Queued, Serving
<1>2. CoreInv /\ ShownInv /\ OpTracked /\ [Next]_vars => OpTracked'
  <2>1. ASSUME UNCHANGED vars, OpTracked PROVE OpTracked'
    BY <2>1, TrackedAside DEF vars, callerVars, chanVars, loopVars
  <2>2. QED
    BY <2>1, TrackedStep
<1>3. QED
  BY <1>1, <1>2, CoreInvariant, ShownInvariant, PTL DEF Spec

(* "service was reloaded; retry" is true for any number of services,       *)
(* callers and reloads: an op whose call is answered that way has not been *)
(* run and will not be, so that trying again does not do it twice (doOn).  *)
THEOREM ReloadedOpsNotRun == Spec => []ReloadedNotRun
<1>1. CoreInv /\ ShownInv /\ OpTracked => ReloadedNotRun
  <2> SUFFICES ASSUME CoreInv, ShownInv, OpTracked, NEW c \in Callers,
                      opPc[c] = "retry" \/ (opPc[c] \in {"send", "wait"} /\ ReplyNow(c) = "reloaded")
               PROVE  ~ran[c]
    BY DEF ReloadedNotRun
  <2>1. CASE opPc[c] = "retry"
    BY <2>1 DEF OpTracked, CallsSane
  <2>2. CASE opPc[c] \in {"send", "wait"} /\ res[c] = "reloaded"
    BY <2>2 DEF OpTracked, RanServed, Unanswered
  <2>3. CASE opPc[c] \in {"send", "wait"} /\ res[c] = "none" /\ Done(opOn[c]) /\ GoneMsg = "reloaded"
    <3>1. opOn[c] \in Instances /\ cancelled[opOn[c]]
      BY <2>3 DEF OpTracked, CallsSane, Done, GoneMsg
    <3>2. pc[opOn[c]] # "op"
      BY <3>1 DEF ShownInv, LeavesReplaced, CoreInv, CurrentOrRetired
    <3>3. QED
      BY <2>3, <3>2 DEF OpTracked, RanServed, Unanswered, Serving
  <2>4. ReplyNow(c) = "reloaded" => res[c] = "reloaded" \/ (res[c] = "none" /\ Done(opOn[c]) /\ GoneMsg = "reloaded")
    BY DEF ReplyNow
  <2>5. QED
    BY <2>1, <2>2, <2>3, <2>4
<1>2. QED
  BY <1>1, CoreInvariant, ShownInvariant, TrackedInvariant, PTL

-----------------------------------------------------------------------------
(* A stop of the operator.                                                 *)

\* While a stop holds, nothing is left that would start a child: no start is pending or under way ...
NothingStarts ==
  stopHeld => \A g \in Instances : ~alive[g] /\ ~pending[g] /\ pc[g] # "startup"

\* ... no op that starts one is served, and a served stop has taken the pending start back;
NoStartServed ==
  \A c \in Callers, g \in Instances :
    Serving(c, g) => /\ stopHeld => opKind[c] \notin {"start", "restart"}
                     /\ opKind[c] = "stop" => ~pending[g]

\* and what the reload has noted of the old service does not make the new one start.
SnapStays ==
  stopHeld /\ (rpc = "swap" \/ (rpc \in {"send", "wait"} /\ res[reloading] = "done")) =>
    ~snap[reloading].running /\ ~snap[reloading].pending

StoppedInv == NothingStarts /\ NoStartServed /\ SnapStays

\* A step that starts nothing and neither serves nor reloads.
LEMMA StoppedFrame ==
  ASSUME StoppedInv,
         stopHeld' => stopHeld,
         \A g \in Instances : (alive'[g] => alive[g]) /\ (pending'[g] => pending[g]),
         \A g \in Instances : pc'[g] = "startup" => pc[g] = "startup",
         \A c \in Callers, g \in Instances : Serving(c, g)' => Serving(c, g) /\ opKind'[c] = opKind[c],
         rpc' \in {"send", "wait", "swap"} =>
           /\ UNCHANGED <<snap, reloading>>
           /\ rpc' = "swap" => rpc = "swap" \/ (rpc = "wait" /\ res[reloading] = "done")
           /\ rpc' # "swap" /\ res'[reloading] = "done" => rpc \in {"send", "wait"} /\ res[reloading] = "done"
  PROVE  StoppedInv'
<1>1. NothingStarts'
  BY DEF StoppedInv, NothingStarts
<1>2. NoStartServed'
  BY DEF StoppedInv, NoStartServed
<1>3. SnapStays'
  BY DEF StoppedInv, SnapStays
<1>4. QED
  BY <1>1, <1>2, <1>3 DEF StoppedInv

LEMMA StoppedCaller ==
  ASSUME CoreInv, OpTracked, StoppedInv, NEW c \in Callers, CallerStep(c)
  PROVE  StoppedInv'
<1>t. /\ opKind \in [Callers -> OpKinds \cup {"query"}] /\ res \in [Messages -> Results]
      /\ Callers \subseteq Messages /\ Callers \cap Reloads = {}
      /\ rpc # "idle" => reloading \in Reloads
  BY MessagesAssumption DEF CoreInv, TypeOK, TypeOps, TypeReload, Messages
<1>1. UNCHANGED <<alive, pending, pc, cur, rpc, reloading, snap, stopHeld>>
  BY CallersAlone DEF msVars, loopVars, reloadVars, CallerStep, Lookup, Send, SendGone, Receive, WaitGone, CallerFree
<1>2. \A d \in Callers, g \in Instances : Serving(d, g)' <=> Serving(d, g)
  BY <1>1 DEF Serving
<1>3. \/ opKind' = opKind
      \/ (\A g \in Instances : ~Serving(c, g)) /\ \A d \in Callers \ {c} : opKind'[d] = opKind[d]
  <2>1. CASE opPc[c] \in {"idle", "send"} \/ res[c] # "none"
    <3>1. \A g \in Instances : ~Serving(c, g)
      BY <2>1 DEF OpTracked, Unanswered
    <3>2. \A d \in Callers \ {c} : opKind'[d] = opKind[d]
      BY <1>t DEF CallerStep, Lookup, Send, SendGone, Receive, WaitGone, CallerFree
    <3>3. QED
      BY <3>1, <3>2
  <2>2. CASE opPc[c] \notin {"idle", "send"} /\ res[c] = "none"
    BY <2>2 DEF CallerStep, Lookup, Send, SendGone, Receive, WaitGone
  <2>3. QED
    BY <2>1, <2>2
<1>4. rpc # "idle" => res'[reloading] = res[reloading]
  <2>1. res' = res \/ res' = [res EXCEPT ![c] = "none"]
    BY DEF CallerStep, Lookup, Send, SendGone, Receive, WaitGone, CallerFree
  <2>2. QED
    BY <1>t, <2>1 DEF Messages
<1>5. QED
  BY <1>1, <1>2, <1>3, <1>4, StoppedFrame

LEMMA StoppedLoopOp ==
  ASSUME CoreInv, OpTracked, StoppedInv, NEW g \in Instances, OpStep(g)
  PROVE  StoppedInv'
<1>t. /\ opKind \in [Callers -> OpKinds \cup {"query"}] /\ res \in [Messages -> Results]
      /\ pc \in [Instances -> LoopPcs] /\ cur \in [Instances -> Messages \cup {NoReload}]
      /\ alive \in [Instances -> BOOLEAN] /\ pending \in [Instances -> BOOLEAN]
      /\ snap \in [Reloads -> Snapshots] /\ stopHeld \in BOOLEAN
      /\ Callers \subseteq Messages /\ Reloads \subseteq Messages /\ Callers \cap Reloads = {} /\ NoReload \notin Reloads
      /\ rpc # "idle" => reloading \in Reloads
  BY MessagesAssumption DEF CoreInv, TypeOK, TypeOps, TypeReload, TypeLoops, TypeServices, Messages
<1>s. rpc' = rpc /\ reloading' = reloading /\ opKind' = opKind
  BY DEF OpStep, RefuseOp, BeginOp, EndQuery, EndStart, EndStop, EndRestart, EndOpFrame, EndInternalStop,
         reloadVars, callerVars
<1>1. CASE RefuseOp(g) \/ BeginOp(g)
  <2>1. PICK x \in Messages : x = Head(opCh[g])
    BY <1>1, HeadTailProperties DEF RefuseOp, BeginOp, CoreInv, TypeOK, TypeQueues
  <2>2. CASE RefuseOp(g)
    <3>1. /\ UNCHANGED <<alive, pending, pc, cur, snap, stopHeld>>
          /\ res' = [res EXCEPT ![x] = "reloaded"]
      BY <2>1, <2>2 DEF RefuseOp, Answer, loopVars, msVars, reloadVars
    <3>2. \A d \in Callers, h \in Instances : Serving(d, h)' <=> Serving(d, h)
      BY <3>1 DEF Serving
    <3>3. rpc # "idle" /\ res'[reloading] = "done" => res[reloading] = "done"
      BY <1>t, <3>1
    <3>4. QED
      BY <1>s, <3>1, <3>2, <3>3, StoppedFrame
  <2>3. CASE BeginOp(g)
    <3>1. /\ pc[g] = "select" /\ pc' = [pc EXCEPT ![g] = "op"] /\ cur' = [cur EXCEPT ![g] = x]
          /\ UNCHANGED <<alive, snap, res>>
      BY <2>1, <2>3 DEF BeginOp, Goto, reloadVars
    <3>2. /\ x \in Callers => /\ pending' = [pending EXCEPT ![g] = StillPending(g, x)]
                              /\ stopHeld' = (stopHeld /\ opKind[x] \notin {"start", "restart"})
          /\ x \notin Callers => UNCHANGED <<pending, stopHeld>>
      BY <2>1, <2>3 DEF BeginOp
    <3>3. \A c \in Callers, h \in Instances : Serving(c, h)' <=> Serving(c, h) \/ (c = x /\ h = g)
      BY <1>t, <3>1 DEF Serving
    <3>4. /\ stopHeld' => stopHeld
          /\ \A h \in Instances : pending'[h] => pending[h]
          /\ x \in Callers /\ opKind[x] = "stop" => ~pending'[g]
      <4>1. StillPending(g, x) => pending[g] /\ opKind[x] # "stop"
        BY DEF StillPending, Intents
      <4>2. stopHeld' => stopHeld
        BY <1>t, <3>2, Zenon
      <4>3. x \in Callers => pending'[g] = StillPending(g, x) /\ \A h \in Instances \ {g} : pending'[h] = pending[h]
        BY <1>t, <3>2
      <4>4. QED
        BY <3>2, <4>1, <4>2, <4>3, Zenon
    <3>5. NothingStarts'
      BY <1>t, <3>1, <3>4 DEF StoppedInv, NothingStarts
    <3>6. NoStartServed'
      BY <1>s, <3>2, <3>3, <3>4 DEF StoppedInv, NoStartServed
    <3>7. SnapStays'
      BY <1>s, <3>1, <3>4 DEF StoppedInv, SnapStays
    <3>8. QED
      BY <3>5, <3>6, <3>7 DEF StoppedInv
  <2>4. QED
    BY <1>1, <2>2, <2>3
<1>2. CASE EndQuery(g) \/ EndStart(g) \/ EndStop(g) \/ EndRestart(g)
  <2>1. /\ pc[g] = "op" /\ cur[g] \in Callers
        /\ \E r \in {"done", "failed"} : res' = [res EXCEPT ![cur[g]] = r]
        /\ cur' = [cur EXCEPT ![g] = NoReload] /\ pc' = [pc EXCEPT ![g] = "select"]
        /\ UNCHANGED <<pending, snap>>
    BY <1>2 DEF EndQuery, EndStart, EndStop, EndRestart, EndOpFrame, Handling, Reply, Answer, Goto, reloadVars
  <2>2. /\ \A c \in Callers, h \in Instances : Serving(c, h)' => Serving(c, h) /\ h # g
        /\ rpc # "idle" => res'[reloading] = res[reloading]
    BY <1>t, <2>1 DEF Serving
  <2>3. Serving(cur[g], g)
    BY <2>1 DEF Serving
  <2>4. CASE EndQuery(g) \/ EndStart(g) \/ EndRestart(g)
    <3>1. UNCHANGED stopHeld /\ (stopHeld => UNCHANGED alive)
      BY <2>1, <2>3, <2>4 DEF EndQuery, EndStart, EndRestart, Handling, StoppedInv, NoStartServed
    <3>2. QED
      <4>1. NothingStarts'
        BY <1>t, <2>1, <3>1 DEF StoppedInv, NothingStarts
      <4>2. NoStartServed'
        BY <1>s, <2>1, <2>2, <3>1 DEF StoppedInv, NoStartServed
      <4>3. SnapStays'
        BY <1>s, <2>1, <2>2, <3>1 DEF StoppedInv, SnapStays
      <4>4. QED
        BY <4>1, <4>2, <4>3 DEF StoppedInv
  <2>5. CASE EndStop(g)
    <3>1. /\ opKind[cur[g]] = "stop"
          /\ \/ alive' = [alive EXCEPT ![g] = FALSE]
             \/ UNCHANGED <<alive, stopHeld>>
      BY <2>5 DEF EndStop, Handling
    <3>2. /\ ~pending[g] /\ services = g
          /\ \A h \in Instances : h # g => ~alive[h] /\ ~pending[h] /\ pc[h] \notin {"op", "startup"}
      BY <2>1, <2>3, <3>1 DEF StoppedInv, NoStartServed, CoreInv, CurrentOrRetired
    <3>3. ~(rpc = "swap" \/ (rpc \in {"send", "wait"} /\ res[reloading] = "done"))
      BY <1>t, <2>1 DEF CoreInv, CurrentOrRetired, ReloadOwnsOld
    <3>4. NothingStarts'
      BY <1>t, <2>1, <3>1, <3>2 DEF StoppedInv, NothingStarts
    <3>5. NoStartServed'
      BY <2>2, <3>2 DEF Serving, NoStartServed
    <3>6. SnapStays'
      BY <1>s, <2>2, <3>3 DEF SnapStays
    <3>7. QED
      BY <3>4, <3>5, <3>6 DEF StoppedInv
  <2>6. QED
    BY <1>2, <2>4, <2>5
<1>3. CASE EndInternalStop(g)
  <2>1. /\ pc[g] = "op" /\ cur[g] \in Reloads
        /\ cur' = [cur EXCEPT ![g] = NoReload] /\ pc' = [pc EXCEPT ![g] = "select"] /\ UNCHANGED stopHeld
    BY <1>3 DEF EndInternalStop, Reply, Goto
  <2>2. /\ \A h \in Instances : (alive'[h] => alive[h]) /\ (pending'[h] => pending[h])
        /\ \A h \in Instances : pc'[h] = "startup" => pc[h] = "startup"
    BY <1>t, <1>3, <2>1 DEF EndInternalStop, Retire
  <2>3. \A c \in Callers, h \in Instances : Serving(c, h)' => Serving(c, h)
    BY <1>t, <2>1 DEF Serving
  <2>4. NothingStarts'
    BY <2>1, <2>2 DEF StoppedInv, NothingStarts
  <2>5. NoStartServed'
    BY <1>s, <2>1, <2>2, <2>3 DEF StoppedInv, NoStartServed
  <2>6. CASE cur[g] # reloading /\ rpc # "idle"
    <3>1. snap'[reloading] = snap[reloading] /\ res'[reloading] = res[reloading]
      BY <1>t, <1>3, <2>1, <2>6 DEF EndInternalStop, Reply, Answer
    <3>2. SnapStays'
      BY <1>s, <2>1, <3>1 DEF StoppedInv, SnapStays
    <3>3. QED
      BY <2>4, <2>5, <3>2 DEF StoppedInv
  <2>7. CASE cur[g] = reloading
    <3>1. CASE res' = [res EXCEPT ![cur[g]] = "failed"] /\ UNCHANGED snap
      <4>1. res'[reloading] # "done"
        BY <1>t, <2>1, <2>7, <3>1
      <4>2. SnapStays'
        BY <1>s, <2>1, <3>1, <4>1 DEF StoppedInv, SnapStays
      <4>3. QED
        BY <2>4, <2>5, <4>2 DEF StoppedInv
    <3>2. ASSUME NEW seen \in {alive[g], FALSE},
                 snap' = [snap EXCEPT ![cur[g]] = [running |-> seen, pending |-> pending[g], desired |-> desired[g]]]
          PROVE  StoppedInv'
      <4>1. snap'[reloading].running = seen /\ snap'[reloading].pending = pending[g]
        BY <1>t, <2>1, <2>7, <3>2
      <4>2. stopHeld => ~alive[g] /\ ~pending[g]
        BY DEF StoppedInv, NothingStarts
      <4>3. SnapStays'
        BY <1>s, <2>1, <4>1, <4>2 DEF SnapStays
      <4>4. QED
        BY <2>4, <2>5, <4>3 DEF StoppedInv
    <3>3. QED
      BY <1>3, <3>1, <3>2 DEF EndInternalStop, Reply, Answer
  <2>8. CASE rpc = "idle"
    <3>1. SnapStays'
      BY <1>s, <2>8 DEF SnapStays
    <3>2. QED
      BY <2>4, <2>5, <3>1 DEF StoppedInv
  <2>9. QED
    BY <2>6, <2>7, <2>8
<1>4. QED
  BY <1>1, <1>2, <1>3 DEF OpStep

LEMMA StoppedReload ==
  ASSUME CoreInv, StoppedInv, ReloadStep
  PROVE  StoppedInv'
<1>t. /\ res \in [Messages -> Results] /\ Reloads \subseteq Messages
      /\ pc \in [Instances -> LoopPcs] /\ pending \in [Instances -> BOOLEAN]
      /\ reloading \in Reloads \cup {NoReload}
      /\ rpc # "idle" => reloading \in Reloads
  BY DEF CoreInv, TypeOK, TypeOps, TypeReload, TypeLoops, Messages
<1>s. UNCHANGED <<alive, cur, opKind, snap>>
  BY DEF ReloadStep, ReloadBegin, ReloadSend, ReloadGone, ReloadReply, ReloadSwap, ReloadDelete, ReloadCancel,
         ReloadCreate, ReloadStart, msVars, loopVars, callerVars
<1>1. ASSUME NEW x \in Reloads, NEW c \in Configs \cup {NoConfig}, ReloadBegin(x, c) PROVE StoppedInv'
  <2>1. /\ UNCHANGED <<pc, pending, stopHeld, res>> /\ rpc' \in {"idle", "create", "send"}
        /\ rpc' = "send" => reloading' = x
        /\ x \notin reloaded /\ reloading = NoReload
    BY <1>1 DEF ReloadBegin, Finish, loopVars
  <2>2. res[x] # "done"
    BY <2>1, MessagesAssumption DEF CoreInv, ReloadOwnsOld
  <2>3. NothingStarts'
    BY <1>s, <2>1 DEF StoppedInv, NothingStarts
  <2>4. NoStartServed'
    BY <1>s, <2>1 DEF StoppedInv, NoStartServed, Serving
  <2>5. SnapStays'
    BY <2>1, <2>2 DEF SnapStays
  <2>6. QED
    BY <2>3, <2>4, <2>5 DEF StoppedInv
<1>2. CASE ReloadSend \/ ReloadGone \/ ReloadDelete \/ ReloadCancel
  <2>1. UNCHANGED <<pc, pending, stopHeld, res>> /\ (UNCHANGED rpc \/ rpc = "send" \/ rpc' \in {"idle", "cancel", "start"})
    BY <1>2 DEF ReloadSend, ReloadGone, ReloadDelete, ReloadCancel, Finish, loopVars
  <2>2. rpc' \in {"send", "wait", "swap"} => rpc = "send" /\ rpc' = "wait" /\ UNCHANGED reloading
    BY <1>2 DEF ReloadSend, ReloadGone, ReloadDelete, ReloadCancel, Finish
  <2>3. \A c \in Callers, g \in Instances : Serving(c, g)' => Serving(c, g)
    BY <1>s, <2>1 DEF Serving
  <2>4. QED
    BY <1>s, <2>1, <2>2, <2>3, StoppedFrame
<1>3. CASE ReloadReply
  <2>1. /\ UNCHANGED <<pc, pending, stopHeld>>
        /\ rpc = "wait"
        /\ rpc' \in {"idle", "delete"} \/ (rpc' = "swap" /\ res[reloading] = "done" /\ UNCHANGED reloading)
    BY <1>3 DEF ReloadReply, StopSucceeded, Finish, loopVars
  <2>2. \A c \in Callers, g \in Instances : Serving(c, g)' => Serving(c, g)
    BY <1>s, <2>1 DEF Serving
  <2>3. QED
    BY <1>s, <2>1, <2>2, StoppedFrame
<1>4. ASSUME NEW g \in Instances, ReloadSwap(g) PROVE StoppedInv'
  <2>1. /\ rpc = "swap" /\ rpc' = "cancel" /\ UNCHANGED stopHeld
        /\ pc[g] = "none" /\ pc' = [pc EXCEPT ![g] = "built"]
        /\ pending' = [pending EXCEPT ![g] = snap[reloading].running \/
             (snap[reloading].pending /\ ColdBootStart(rconf, snap[reloading].desired))]
    BY <1>4 DEF ReloadSwap, Build, Goto
  <2>2. pending'[g] => snap[reloading].running \/ snap[reloading].pending
    BY <1>t, <2>1
  <2>3. \A h \in Instances \ {g} : pending'[h] = pending[h] /\ pc'[h] = pc[h]
    BY <1>t, <2>1
  <2>4. NothingStarts'
    BY <1>s, <1>t, <2>1, <2>2, <2>3 DEF StoppedInv, NothingStarts, SnapStays
  <2>5. \A c \in Callers, h \in Instances : Serving(c, h)' => Serving(c, h) /\ h # g
    BY <1>s, <1>t, <2>1 DEF Serving
  <2>6. NoStartServed'
    BY <1>s, <2>1, <2>3, <2>5 DEF StoppedInv, NoStartServed
  <2>7. SnapStays'
    BY <2>1 DEF SnapStays
  <2>8. QED
    BY <2>4, <2>6, <2>7 DEF StoppedInv
<1>5. ASSUME NEW g \in Instances, ReloadCreate(g) PROVE StoppedInv'
  <2>1. /\ stopHeld' = FALSE
        /\ pc[g] = "none" /\ pc' = [pc EXCEPT ![g] = "built"]
        /\ \E p : pending' = [pending EXCEPT ![g] = p]
    BY <1>5 DEF ReloadCreate, Build, Goto
  <2>2. \A c \in Callers, h \in Instances : Serving(c, h)' => Serving(c, h) /\ h # g
    BY <1>s, <1>t, <2>1 DEF Serving
  <2>3. NoStartServed'
    BY <1>s, <1>t, <2>1, <2>2 DEF StoppedInv, NoStartServed
  <2>4. NothingStarts' /\ SnapStays'
    BY <2>1 DEF NothingStarts, SnapStays
  <2>5. QED
    BY <2>3, <2>4 DEF StoppedInv
<1>6. CASE ReloadStart
  <2>1. pc' = [pc EXCEPT ![rnew] = "select"] /\ UNCHANGED <<pending, stopHeld>> /\ rpc' = "idle"
    BY <1>6 DEF ReloadStart, Goto, Finish
  <2>2. \A g \in Instances : pc'[g] \in {"op", "startup"} => pc'[g] = pc[g]
    BY <1>t, <2>1
  <2>3. \A c \in Callers, g \in Instances : Serving(c, g)' => Serving(c, g)
    BY <1>s, <2>2 DEF Serving
  <2>4. QED
    BY <1>s, <2>1, <2>2, <2>3, StoppedFrame
<1>7. QED
  BY <1>1, <1>2, <1>3, <1>4, <1>5, <1>6 DEF ReloadStep

LEMMA StoppedStep == ASSUME CoreInv, OpTracked, StoppedInv, Next PROVE StoppedInv'
<1>t. /\ pc \in [Instances -> LoopPcs] /\ alive \in [Instances -> BOOLEAN] /\ pending \in [Instances -> BOOLEAN]
      /\ res \in [Messages -> Results] /\ Reloads \subseteq Messages /\ stopHeld \in BOOLEAN
      /\ rpc # "idle" => reloading \in Reloads
  BY DEF CoreInv, TypeOK, TypeServices, TypeOps, TypeReload, TypeLoops, Messages
<1>1. ASSUME NEW c \in Callers, CallerStep(c) PROVE StoppedInv'
  BY <1>1, StoppedCaller
<1>2. ASSUME NEW g \in Instances, OpStep(g) PROVE StoppedInv'
  BY <1>2, StoppedLoopOp
<1>3. CASE ReloadStep
  BY <1>3, StoppedReload
<1>4. ASSUME NEW g \in Instances, SeeReady(g) \/ EndStartup(g) \/ DeployRestarts(g) PROVE StoppedInv'
  <2>1. UNCHANGED <<cur, opKind, snap, res, rpc, reloading>> /\ stopHeld' \in {stopHeld, FALSE}
    BY <1>4 DEF SeeReady, EndStartup, DeployRestarts, EndDeploy, callerVars, reloadVars
  <2>2. /\ \A h \in Instances : pc'[h] = "op" => pc[h] = "op"
        /\ \A h \in Instances : pending'[h] => pending[h]
    BY <1>t, <1>4 DEF SeeReady, EndStartup, DeployRestarts, EndDeploy, Goto
  <2>3. \A c \in Callers, h \in Instances : Serving(c, h)' => Serving(c, h)
    BY <2>1, <2>2 DEF Serving
  <2>4. NothingStarts'
    <3>1. CASE SeeReady(g)
      BY <1>t, <3>1 DEF SeeReady, Goto, StoppedInv, NothingStarts
    <3>2. CASE EndStartup(g)
      BY <1>t, <3>2 DEF EndStartup, Goto, StoppedInv, NothingStarts
    <3>3. CASE DeployRestarts(g)
      BY <3>3 DEF DeployRestarts, NothingStarts
    <3>4. QED
      BY <1>4, <3>1, <3>2, <3>3
  <2>5. NoStartServed'
    BY <2>1, <2>2, <2>3 DEF StoppedInv, NoStartServed
  <2>6. SnapStays'
    BY <2>1 DEF StoppedInv, SnapStays
  <2>7. QED
    BY <2>4, <2>5, <2>6 DEF StoppedInv
<1>5. ASSUME NEW g \in Instances,
             Stash(g) \/ BeginDeploy(g) \/ DeployStepFails(g) \/ SelfDeployed(g) \/ DeployRestartFails(g) \/ ChildExit(g)
      PROVE  StoppedInv'
  <2>1. UNCHANGED <<cur, opKind, snap, res, rpc, reloading, pending, stopHeld>>
    BY <1>5 DEF Stash, BeginDeploy, DeployStepFails, SelfDeployed, DeployRestartFails, ChildExit, EndDeploy,
                callerVars, reloadVars, loopVars
  <2>2. /\ \A h \in Instances : pc'[h] \in {"op", "startup"} => pc[h] = pc'[h]
        /\ \A h \in Instances : alive'[h] => alive[h]
    BY <1>t, <1>5 DEF Stash, BeginDeploy, DeployStepFails, SelfDeployed, DeployRestartFails, ChildExit, EndDeploy,
                      Goto, msVars, loopVars
  <2>3. \A c \in Callers, h \in Instances : Serving(c, h)' => Serving(c, h)
    BY <2>1, <2>2 DEF Serving
  <2>4. QED
    BY <2>1, <2>2, <2>3, StoppedFrame
<1>6. ASSUME NEW g \in Instances, ExitStep(g) PROVE StoppedInv'
  <2>1. UNCHANGED <<cur, opKind, snap, rpc, reloading, pending, alive, stopHeld>>
    BY <1>6 DEF ExitStep, TakeDone, AfterDrain, Forward, Chase, Found, Enqueue, callerVars, reloadVars, msVars
  <2>2. \A h \in Instances : pc'[h] \in {"op", "startup"} => pc[h] = pc'[h]
    BY <1>t, <1>6 DEF ExitStep, TakeDone, AfterDrain, Forward, Chase, Found, Enqueue, Goto
  <2>3. rpc # "idle" /\ res'[reloading] = "done" => res[reloading] = "done"
    BY <1>t, <1>6 DEF ExitStep, TakeDone, AfterDrain, Forward, Chase, Found, Enqueue, GoneMsg
  <2>4. \A c \in Callers, h \in Instances : Serving(c, h)' => Serving(c, h)
    BY <2>1, <2>2 DEF Serving
  <2>5. QED
    BY <2>1, <2>2, <2>3, <2>4, StoppedFrame
<1>7. ASSUME StopReturns \/ SignalReady \/ Cancel \/ \E r \in Requests : Request(r) PROVE StoppedInv'
  <2>1. UNCHANGED <<cur, opKind, snap, res, rpc, reloading, pending, alive, pc, stopHeld>>
    BY <1>7 DEF StopReturns, SignalReady, Cancel, Request, callerVars, reloadVars, loopVars, msVars
  <2>2. \A c \in Callers, h \in Instances : Serving(c, h)' => Serving(c, h)
    BY <2>1 DEF Serving
  <2>3. QED
    BY <2>1, <2>2, StoppedFrame
<1>8. QED
  BY <1>1, <1>2, <1>3, <1>4, <1>5, <1>6, <1>7 DEF Next, SystemStep, EnvironmentStep, LoopStep, DeployStep

LEMMA StoppedInvariant == Spec => []StoppedInv
<1>1. Init => StoppedInv
  <2> SUFFICES ASSUME Init PROVE StoppedInv
    OBVIOUS
  <2>1. \A g \in Instances : pc[g] \notin {"op", "startup"}
    BY DEF Init, InitAbsent, InitService
  <2>2. stopHeld => \A g \in Instances : ~alive[g] /\ ~pending[g]
    BY DEF Init, InitAbsent, InitService
  <2>3. rpc = "idle"
    BY DEF Init
  <2>4. QED
    BY <2>1, <2>2, <2>3 DEF StoppedInv, NothingStarts, NoStartServed, SnapStays, Serving
<1>2. CoreInv /\ OpTracked /\ StoppedInv /\ [Next]_vars => StoppedInv'
  <2>1. ASSUME UNCHANGED vars, StoppedInv PROVE StoppedInv'
    BY <2>1 DEF vars, msVars, callerVars, loopVars, reloadVars, StoppedInv, NothingStarts, NoStartServed, SnapStays,
                Serving
  <2>2. QED
    BY <2>1, StoppedStep
<1>3. QED
  BY <1>1, <1>2, CoreInvariant, TrackedInvariant, PTL DEF Spec

(* A service that the operator stopped stays down, for any number of       *)
(* services, callers and reloads, until an operator starts or restarts it, *)
(* a deploy restarts it or its name is configured anew (handle, Reload).   *)
THEOREM OperatorStopAlwaysHolds == Spec => []OperatorStopHolds
<1>1. StoppedInv => OperatorStopHolds
  BY DEF StoppedInv, NothingStarts, OperatorStopHolds
<1>2. QED
  BY <1>1, StoppedInvariant, PTL
-----------------------------------------------------------------------------
(* All generations together are one service: SerialService.                *)

Working == {"op", "startup", "deploy"}

\* What a loop does apart from ops, in terms of its control point and its op.
ChoresAt(p, q) ==
  {"startup", "deploy", "reload"} \cap
    {IF p[g] = "op" /\ q[g] \in Reloads THEN "reload" ELSE p[g] : g \in Instances}

LEMMA DoingIs == Doing = ChoresAt(pc, cur) /\ Doing' = ChoresAt(pc', cur')
  BY DEF Doing, ChoreOf, ChoresAt

LEMMA NoChore ==
  ASSUME NEW p \in [Instances -> LoopPcs], NEW q, \A g \in Instances : p[g] \notin Working
  PROVE  ChoresAt(p, q) = {}
BY DEF ChoresAt, Working, LoopPcs

LEMMA OneChore ==
  ASSUME NEW p \in [Instances -> LoopPcs], NEW q, NEW g \in Instances,
         \A h \in Instances \ {g} : p[h] \notin Working
  PROVE  /\ p[g] \in {"startup", "deploy"} => ChoresAt(p, q) = {p[g]}
         /\ p[g] = "op" => ChoresAt(p, q) = IF q[g] \in Reloads THEN {"reload"} ELSE {}
         /\ p[g] \notin Working => ChoresAt(p, q) = {}
<1>1. \A h \in Instances \ {g} : p[h] \notin {"op", "startup", "deploy", "reload"}
  BY DEF Working, LoopPcs
<1>2. \A x : x \in ChoresAt(p, q) <=>
             x \in {"startup", "deploy", "reload"} /\ x = IF p[g] = "op" /\ q[g] \in Reloads THEN "reload" ELSE p[g]
  BY <1>1 DEF ChoresAt
<1>3. p[g] \in LoopPcs
  OBVIOUS
<1>4. QED
  BY <1>2, <1>3 DEF Working, LoopPcs

LEMMA SameChores ==
  ASSUME NEW p \in [Instances -> LoopPcs], NEW q, NEW r \in [Instances -> LoopPcs], NEW s,
         \A g \in Instances : p[g] \in Working \/ r[g] \in Working => r[g] = p[g] /\ s[g] = q[g]
  PROVE  ChoresAt(r, s) = ChoresAt(p, q)
<1>1. ASSUME NEW g \in Instances
      PROVE  (IF p[g] = "op" /\ q[g] \in Reloads THEN "reload" ELSE p[g]) = (IF r[g] = "op" /\ s[g] \in Reloads THEN "reload" ELSE r[g])
             \/ ((IF p[g] = "op" /\ q[g] \in Reloads THEN "reload" ELSE p[g]) \notin {"startup", "deploy", "reload"}
                 /\ (IF r[g] = "op" /\ s[g] \in Reloads THEN "reload" ELSE r[g]) \notin {"startup", "deploy", "reload"})
  BY DEF Working, LoopPcs
<1>2. QED
  BY <1>1 DEF ChoresAt

\* Only one loop works, and only it has a child.
LEMMA WorksAlone ==
  ASSUME CoreInv, NEW g \in Instances, pc[g] # "none", ~retired[g]
  PROVE  \A h \in Instances \ {g} : pc[h] \notin Working /\ ~alive[h]
BY DEF CoreInv, CurrentOrRetired, Working

\* Where an op is in the hands of a loop and what its call says are the same.
LEMMA ProgressOf ==
  ASSUME OpTracked, NEW c \in Callers
  PROVE  /\ Progress(c) = "serving" <=> \E g \in Instances : Serving(c, g)
         /\ Progress(c) = "serving" <=> ran[c] /\ res[c] = "none"
         /\ opPc[c] \in {"idle", "send"} => ~ran[c] /\ res[c] = "none"
<1>1. (\E g \in Instances : Serving(c, g)) => ran[c] /\ res[c] = "none" /\ opPc[c] \in {"wait", "retry", "gone"}
  BY DEF OpTracked, RanServed, Unanswered
<1>2. ran[c] /\ res[c] = "none" => \E g \in Instances : Serving(c, g)
  BY DEF OpTracked, RanServed
<1>3. opPc[c] \in {"idle", "send"} => ~ran[c] /\ res[c] = "none"
  BY <1>1, <1>2 DEF OpTracked, CallsSane, RanServed
<1>4. QED
  BY <1>1, <1>2, <1>3 DEF Progress

LEMMA SameProgress ==
  ASSUME NEW c \in Callers, opPc'[c] = opPc[c], ran'[c] = ran[c], res'[c] = res[c]
  PROVE  Progress(c)' = Progress(c)
BY DEF Progress

\* The service is free when no loop works.
LEMMA FreeWhenIdle ==
  ASSUME TypeOK, OpTracked, \A g \in Instances : pc[g] \notin Working
  PROVE  Serial!Free /\ Doing = {}
<1>1. Doing = {}
  BY DoingIs, NoChore DEF TypeOK, TypeLoops
<1>2. \A c \in Callers : Progress(c) # "serving"
  BY ProgressOf DEF Serving, Working
<1>3. QED
  BY <1>1, <1>2 DEF Serial!Free, Ops

\* One op moves on.
LEMMA OpMoves ==
  ASSUME NEW c \in Callers, NEW a, NEW b, Progress(c) = a, Progress(c)' = b,
         \A d \in Callers \ {c} : Progress(d)' = Progress(d)
  PROVE  Serial!Moves(c, a, b)
BY DEF Serial!Moves, Ops

LEMMA SameOps ==
  ASSUME \A c \in Callers : Progress(c)' = Progress(c)
  PROVE  Ops' = Ops
BY DEF Ops

\* The child of the loop that works is the child of the service.
LEMMA UpIs ==
  ASSUME CoreInv, NEW g \in Instances, pc[g] # "none", ~retired[g],
         NEW b \in BOOLEAN, alive' = [alive EXCEPT ![g] = b]
  PROVE  (Up <=> alive[g]) /\ Up' = b
<1>1. alive \in [Instances -> BOOLEAN] /\ \A h \in Instances \ {g} : ~alive[h]
  BY WorksAlone DEF CoreInv, TypeOK, TypeServices
<1>2. QED
  BY <1>1 DEF Up

\* What is to be shown of a step.
SerialStep == Serial!ServiceNext \/ UNCHANGED Serial!serviceVars

\* The steps of a caller: it calls, its op is queued or turned away, it gets
\* its answer, or it gives up on an op that will not be served.
LEMMA SerialCaller ==
  ASSUME CoreInv, ShownInv, OpTracked, NEW c \in Callers, CallerStep(c)
  PROVE  SerialStep
<1> USE DEF SerialStep, Serial!ServiceNext
<1>t. /\ opPc \in [Callers -> {"idle", "send", "wait", "retry", "gone"}]
      /\ opKind \in [Callers -> OpKinds \cup {"query"}]
      /\ ran \in [Callers -> BOOLEAN] /\ res \in [Messages -> Results] /\ Callers \subseteq Messages
      /\ opOn[c] \in Instances \cup {NoInst}
  BY DEF CoreInv, TypeOK, TypeOps, Messages
<1>u. UNCHANGED <<pc, cur, alive, stopHeld, req>>
  BY DEF CallerStep, Lookup, Send, SendGone, Receive, WaitGone, CallerFree, msVars, loopVars, reqVars
<1>v. Doing' = Doing /\ (Up' <=> Up) /\ Up' = Up
  BY <1>u DEF Doing, ChoreOf, Up
<1>1. ASSUME NEW k \in OpKinds, Lookup(c, k) PROVE SerialStep
  <2>1. opPc[c] = "idle" /\ opPc' = [opPc EXCEPT ![c] = "send"] /\ UNCHANGED <<ran, res>>
    BY <1>1 DEF Lookup
  <2>2. Progress(c) = "idle" /\ Progress(c)' = "calling"
    BY <1>t, <2>1 DEF Progress
  <2>3. \A d \in Callers \ {c} : Progress(d)' = Progress(d)
    BY <1>t, <2>1, SameProgress
  <2>4. Serial!Moves(c, "idle", "calling")
    BY <2>2, <2>3, OpMoves
  <2>5. opKind' = [opKind EXCEPT ![c] = k]
    BY <1>1 DEF Lookup
  <2>6. QED
    BY <1>u, <1>v, <2>4, <2>5 DEF Serial!Call, Serial!opVars, Serial!processVars
<1>2. CASE Send(c)
  <2>1. opPc[c] = "send" /\ opPc' = [opPc EXCEPT ![c] = "wait"] /\ UNCHANGED <<ran, res, opKind>>
    BY <1>2 DEF Send
  <2>2. Progress(c) = "calling" /\ Progress(c)' = "queued"
    BY <1>t, <2>1, ProgressOf DEF Progress
  <2>3. \A d \in Callers \ {c} : Progress(d)' = Progress(d)
    BY <1>t, <2>1, SameProgress
  <2>4. Serial!Moves(c, "calling", "queued")
    BY <2>2, <2>3, OpMoves
  <2>5. QED
    BY <1>u, <1>v, <2>1, <2>4 DEF Serial!Queue, Serial!opVars, Serial!processVars
<1>3. CASE SendGone(c) \/ Receive(c)
  <2>1. /\ opPc[c] = "send" \/ (opPc[c] = "wait" /\ res[c] # "none")
        /\ opPc' = [opPc EXCEPT ![c] = "idle"] /\ ran' = [ran EXCEPT ![c] = FALSE]
        /\ res' = [res EXCEPT ![c] = "none"] /\ opKind' = [opKind EXCEPT ![c] = "query"]
    BY <1>3 DEF SendGone, Receive, CallerFree
  <2>2. Progress(c) \in {"calling", "served", "refused"} /\ Progress(c)' = "idle"
    BY <1>t, <2>1 DEF Progress
  <2>3. \A d \in Callers \ {c} : Progress(d)' = Progress(d)
    BY <1>t, <2>1, SameProgress
  <2>4. \E a \in {"calling", "served", "refused"} : Serial!Moves(c, a, "idle")
    BY <2>2, <2>3, OpMoves
  <2>5. QED
    BY <1>u, <1>v, <2>1, <2>4 DEF Serial!Return, Serial!opVars, Serial!processVars
<1>4. CASE WaitGone(c)
  <2>1. /\ opPc[c] = "wait" /\ res[c] = "none" /\ Done(opOn[c])
        /\ opPc' = [opPc EXCEPT ![c] = IF mgr = "up" THEN "retry" ELSE "gone"]
        /\ UNCHANGED <<ran, res, opKind>>
    BY <1>4 DEF WaitGone, GivesUp
  <2>2. \A d \in Callers \ {c} : Progress(d)' = Progress(d)
    BY <1>t, <2>1, SameProgress
  <2>3. CASE mgr # "up"
    <3>1. Progress(c)' = Progress(c)
      BY <1>t, <2>1, <2>3 DEF Progress
    <3>2. Ops' = Ops
      BY <2>2, <3>1, SameOps
    <3>3. QED
      BY <1>u, <1>v, <2>1, <3>2 DEF Serial!serviceVars, Serial!opVars, Serial!processVars
  <2>4. CASE mgr = "up"
    <3>1. opOn[c] \in Instances /\ pc[opOn[c]] # "op"
      BY <2>1, <2>4 DEF Done, ShownInv, LeavesReplaced, CoreInv, CurrentOrRetired, OpTracked, CallsSane
    <3>2. ~ran[c]
      BY <2>1, <3>1 DEF OpTracked, RanServed, Unanswered, Serving
    <3>3. Progress(c) = "queued" /\ Progress(c)' = "refused"
      BY <1>t, <2>1, <2>4, <3>2 DEF Progress
    <3>4. {c} \in SUBSET {d \in Callers : Ops[d] = "queued"}
      BY <3>3 DEF Ops
    <3>5. Ops' = [d \in Callers |-> IF d \in {c} THEN "refused" ELSE Ops[d]]
      BY <2>2, <3>3 DEF Ops
    <3>6. Serial!Refuse
      BY <1>u, <1>v, <2>1, <3>4, <3>5 DEF Serial!Refuse, Serial!opVars, Serial!processVars
    <3>7. QED
      BY <3>6
  <2>5. QED
    BY <2>3, <2>4
<1>5. QED
  BY <1>1, <1>2, <1>3, <1>4 DEF CallerStep

\* The steps of a loop that serves ops, and the stop of a reload.
LEMMA SerialLoopOp ==
  ASSUME CoreInv, OpTracked, NEW g \in Instances, OpStep(g)
  PROVE  SerialStep
<1> USE DEF SerialStep, Serial!ServiceNext
<1>t. /\ opPc \in [Callers -> {"idle", "send", "wait", "retry", "gone"}]
      /\ opCh \in [Instances -> Seq(Messages)]
      /\ ran \in [Callers -> BOOLEAN] /\ res \in [Messages -> Results]
      /\ pc \in [Instances -> LoopPcs] /\ cur \in [Instances -> Messages \cup {NoReload}]
      /\ alive \in [Instances -> BOOLEAN] /\ stopHeld \in BOOLEAN
      /\ Callers \subseteq Messages /\ Callers \cap Reloads = {} /\ NoReload \notin Reloads /\ Messages = Callers \cup Reloads
  BY MessagesAssumption DEF CoreInv, TypeOK, TypeOps, TypeLoops, TypeQueues, TypeServices, Messages
<1>k. UNCHANGED <<opPc, opKind, req>>
  BY DEF OpStep, RefuseOp, BeginOp, EndQuery, EndStart, EndStop, EndRestart, EndOpFrame, EndInternalStop, callerVars,
         reqVars
<1>1. CASE RefuseOp(g)
  <2>1. PICK x \in Messages : x = Head(opCh[g])
    BY <1>t, <1>1, HeadTailProperties DEF RefuseOp
  <2>2. /\ res' = [res EXCEPT ![x] = "reloaded"] /\ opCh[g] # <<>>
        /\ UNCHANGED <<pc, cur, alive, ran, stopHeld>> /\ Queued(x, g)
    <3>1. opCh' = [opCh EXCEPT ![g] = Tail(@)] /\ opCh[g] # <<>>
      BY <1>1 DEF RefuseOp
    <3>2. Queued(x, g)
      BY <2>1, <3>1, QueuedTail DEF CoreInv
    <3>3. QED
      BY <1>1, <2>1, <3>1, <3>2 DEF RefuseOp, Answer, msVars, loopVars, callerVars
  <2>3. Doing' = Doing /\ (Up' <=> Up) /\ Up' = Up
    BY <2>2 DEF Doing, ChoreOf, Up
  <2>4. \A d \in Callers \ {x} : Progress(d)' = Progress(d)
    BY <1>t, <1>k, <2>2, SameProgress
  <2>5. ASSUME x \in Callers PROVE Progress(x) \in {"queued", "refused"} /\ Progress(x)' = "refused"
    <3>1. ~ran[x] /\ res[x] = "none" /\ opPc[x] \in {"wait", "retry", "gone"}
      BY <2>2, <2>5 DEF OpTracked, RanServed, Unanswered
    <3>2. QED
      BY <1>t, <1>k, <2>2, <2>5, <3>1 DEF Progress
  <2>6. \E C \in SUBSET {d \in Callers : Ops[d] = "queued"} :
          Ops' = [d \in Callers |-> IF d \in C THEN "refused" ELSE Ops[d]]
    <3> DEFINE C == {d \in Callers : d = x /\ Progress(x) = "queued"}
    <3>1. \A d \in Callers : Progress(d)' = IF d \in C THEN "refused" ELSE Progress(d)
      BY <2>4, <2>5
    <3>2. C \in SUBSET {d \in Callers : Ops[d] = "queued"}
      BY DEF Ops
    <3>3. Ops' = [d \in Callers |-> IF d \in C THEN "refused" ELSE Ops[d]]
      BY <3>1 DEF Ops
    <3>4. QED
      BY <3>2, <3>3
  <2>7. Serial!Refuse
    BY <1>k, <2>2, <2>3, <2>6 DEF Serial!Refuse, Serial!opVars, Serial!processVars
  <2>8. QED
    BY <2>7
<1>2. CASE BeginOp(g)
  <2>1. PICK x \in Messages : x = Head(opCh[g])
    BY <1>t, <1>2, HeadTailProperties DEF BeginOp
  <2>2. /\ pc[g] = "select" /\ ~retired[g] /\ opCh[g] # <<>>
        /\ cur' = [cur EXCEPT ![g] = x] /\ pc' = [pc EXCEPT ![g] = "op"] /\ UNCHANGED <<res, alive>>
        /\ ran' = IF x \in Callers THEN [ran EXCEPT ![x] = TRUE] ELSE ran
        /\ opCh' = [opCh EXCEPT ![g] = Tail(@)]
        /\ stopHeld' = IF x \in Callers THEN (stopHeld /\ opKind[x] \notin {"start", "restart"}) ELSE stopHeld
    BY <1>2, <2>1 DEF BeginOp, Goto
  <2>3. Queued(x, g)
    BY <2>1, <2>2, QueuedTail DEF CoreInv
  <2>4. \A h \in Instances \ {g} : pc[h] \notin Working /\ pc'[h] \notin Working
    BY <1>t, <2>2, WorksAlone
  <2>5. pc[g] \notin Working /\ pc'[g] = "op" /\ cur'[g] = x /\ pc' \in [Instances -> LoopPcs]
    BY <1>t, <2>2 DEF Working, LoopPcs
  <2>6. Serial!Free /\ Doing = {}
    BY <2>4, <2>5, FreeWhenIdle DEF CoreInv
  <2>7. Doing' = IF x \in Reloads THEN {"reload"} ELSE {}
    BY <2>4, <2>5, OneChore, DoingIs
  <2>8. (Up' <=> Up) /\ Up' = Up
    BY <2>2 DEF Up
  <2>9. CASE x \in Callers
    <3>1. ~ran[x] /\ res[x] = "none" /\ opPc[x] \in {"wait", "gone"}
      BY <2>2, <2>3, <2>9 DEF OpTracked, RanServed, Unanswered, CallsSane
    <3>2. Progress(x) = "queued" /\ Progress(x)' = "serving"
      BY <1>t, <1>k, <2>2, <2>9, <3>1 DEF Progress
    <3>3. \A d \in Callers \ {x} : Progress(d)' = Progress(d)
      BY <1>t, <1>k, <2>2, <2>9, SameProgress
    <3>4. Serial!Moves(x, "queued", "serving")
      BY <2>9, <3>2, <3>3, OpMoves
    <3>5. Doing' = Doing
      BY <1>t, <2>6, <2>7, <2>9
    <3>6. stopHeld' = (stopHeld /\ opKind[x] \notin {"start", "restart"})
      BY <2>2, <2>9
    <3>7. Serial!Serve(x)
      BY <1>k, <2>6, <2>8, <3>4, <3>5, <3>6 DEF Serial!Serve, Serial!Starts
    <3>8. QED
      BY <2>9, <3>7
  <2>10. CASE x \in Reloads
    <3>1. \A d \in Callers : Progress(d)' = Progress(d)
      BY <1>t, <1>k, <2>2, <2>10, SameProgress
    <3>2. Ops' = Ops /\ Doing' = {"reload"} /\ stopHeld' = stopHeld
      BY <1>t, <2>2, <2>7, <2>10, <3>1, SameOps
    <3>3. Serial!TakeOut
      BY <1>k, <2>6, <2>8, <3>2 DEF Serial!TakeOut, Serial!opVars, Serial!processVars
    <3>4. QED
      BY <3>3
  <2>11. QED
    BY <1>t, <2>9, <2>10
<1>3. CASE EndQuery(g) \/ EndStart(g) \/ EndStop(g) \/ EndRestart(g)
  <2>1. /\ pc[g] = "op" /\ cur[g] \in Callers
        /\ (\E r \in {"done", "failed"} : res' = [res EXCEPT ![cur[g]] = r])
        /\ pc' = [pc EXCEPT ![g] = "select"] /\ UNCHANGED ran
    BY <1>3 DEF EndQuery, EndStart, EndStop, EndRestart, EndOpFrame, Handling, Reply, Answer, Goto, callerVars
  <2>2. PICK c \in Callers : c = cur[g]
    BY <2>1
  <2>3. ~retired[g] /\ \A h \in Instances \ {g} : pc[h] \notin Working /\ pc'[h] \notin Working
    BY <1>t, <2>1, WorksAlone DEF CoreInv, CurrentOrRetired
  <2>4. Doing = {} /\ Doing' = {}
    <3>1. pc' \in [Instances -> LoopPcs] /\ pc'[g] \notin Working
      BY <1>t, <2>1 DEF LoopPcs, Working
    <3>2. Doing = {}
      BY <1>t, <2>1, <2>3, OneChore, DoingIs
    <3>3. Doing' = {}
      BY <2>3, <3>1, OneChore, DoingIs
    <3>4. QED
      BY <3>2, <3>3
  <2>5. Progress(c) = "serving" /\ ran[c] /\ opPc[c] \notin {"idle", "send"}
    BY <2>1, <2>2, ProgressOf DEF Serving
  <2>6. Progress(c)' = "served"
    BY <1>t, <1>k, <2>1, <2>2, <2>5 DEF Progress
  <2>7. \A d \in Callers \ {c} : Progress(d)' = Progress(d)
    BY <1>t, <1>k, <2>1, <2>2, SameProgress
  <2>8. Serial!Moves(c, "serving", "served")
    BY <2>5, <2>6, <2>7, OpMoves
  <2>9. Serial!Effect(opKind[c])
    <3>1. CASE UNCHANGED <<alive, stopHeld>>
      BY <3>1 DEF Up, Serial!Effect
    <3>2. ASSUME NEW b \in BOOLEAN, alive' = [alive EXCEPT ![g] = b] PROVE Up' = b
      BY <2>1, <2>3, <3>2, UpIs
    <3>3. CASE EndQuery(g)
      BY <3>1, <3>3 DEF EndQuery
    <3>4. CASE EndStart(g)
      BY <2>2, <3>1, <3>2, <3>4 DEF EndStart, Handling, Serial!Effect
    <3>5. CASE EndStop(g)
      BY <2>2, <3>1, <3>2, <3>5 DEF EndStop, Handling, Serial!Effect
    <3>6. CASE EndRestart(g)
      BY <2>2, <3>1, <3>2, <3>6 DEF EndRestart, Handling, Serial!Effect
    <3>7. QED
      BY <1>3, <3>3, <3>4, <3>5, <3>6
  <2>10. Serial!Served(c)
    BY <1>k, <2>4, <2>8, <2>9 DEF Serial!Served
  <2>11. QED
    BY <2>10
<1>4. CASE EndInternalStop(g)
  <2>1. /\ pc[g] = "op" /\ cur[g] \in Reloads
        /\ (\E r \in {"done", "failed"} : res' = [res EXCEPT ![cur[g]] = r])
        /\ pc' = [pc EXCEPT ![g] = "select"] /\ UNCHANGED <<ran, stopHeld>>
        /\ alive' = [alive EXCEPT ![g] = FALSE] \/ UNCHANGED alive
    BY <1>4 DEF EndInternalStop, Reply, Answer, Goto, callerVars
  <2>2. ~retired[g] /\ \A h \in Instances \ {g} : pc[h] \notin Working /\ pc'[h] \notin Working
    BY <1>t, <2>1, WorksAlone DEF CoreInv, CurrentOrRetired
  <2>3. Doing = {"reload"}
    BY <1>t, <2>1, <2>2, OneChore, DoingIs
  <2>4. Doing' = {}
    <3>1. pc' \in [Instances -> LoopPcs] /\ pc'[g] \notin Working
      BY <1>t, <2>1 DEF LoopPcs, Working
    <3>2. QED
      BY <2>2, <3>1, OneChore, DoingIs
  <2>5. \A d \in Callers : Progress(d)' = Progress(d)
    BY <1>t, <1>k, <2>1, SameProgress
  <2>6. Ops' = Ops
    BY <2>5, SameOps
  <2>7. Up' \in {FALSE, Up}
    <3>1. CASE alive' = [alive EXCEPT ![g] = FALSE]
      BY <2>1, <2>2, <3>1, UpIs
    <3>2. CASE UNCHANGED alive
      BY <3>2 DEF Up
    <3>3. QED
      BY <2>1, <3>1, <3>2
  <2>8. Serial!EndChore
    BY <1>k, <2>1, <2>3, <2>4, <2>6, <2>7 DEF Serial!EndChore, Serial!opVars, Serial!processVars
  <2>9. QED
    BY <2>8
<1>5. QED
  BY <1>1, <1>2, <1>3, <1>4 DEF OpStep

\* Requests that a loop has, on its channel or set aside, were waiting.
LEMMA ResolveSettles ==
  ASSUME HeldOnce, NEW g \in Instances, NEW s, NEW R \in SUBSET Requests,
         \A r \in R : Held(r, g), Resolve(R, s)
  PROVE  Serial!Settle(R, s)
BY DEF HeldOnce, Resolve, Serial!Settle

\* The steps that start, restart or lose the child apart from ops.
LEMMA SerialChore ==
  ASSUME CoreInv, OpTracked, StoppedInv, HeldOnce, NEW g \in Instances,
         SeeReady(g) \/ EndStartup(g) \/ DeployStep(g) \/ ChildExit(g)
  PROVE  SerialStep
<1> USE DEF SerialStep, Serial!ServiceNext
<1>t. /\ pc \in [Instances -> LoopPcs] /\ alive \in [Instances -> BOOLEAN] /\ stopHeld \in BOOLEAN
  BY DEF CoreInv, TypeOK, TypeLoops, TypeServices
<1>k. UNCHANGED <<opPc, opKind, ran, res>>
  BY DEF SeeReady, EndStartup, DeployStep, Stash, BeginDeploy, DeployStepFails, SelfDeployed, DeployRestarts,
         DeployRestartFails, EndDeploy, ChildExit, callerVars
<1>o. Ops' = Ops
  <2>1. \A d \in Callers : Progress(d)' = Progress(d)
    BY <1>k, SameProgress
  <2>2. QED
    BY <2>1, SameOps
<1>1. CASE Stash(g) \/ (SeeReady(g) /\ ~pending[g])
  <2>1. UNCHANGED <<pc, cur, alive, stopHeld, req>>
    BY <1>1 DEF Stash, SeeReady, msVars, reqVars
  <2>2. Doing' = Doing /\ Up' = Up
    BY <2>1 DEF Doing, ChoreOf, Up
  <2>3. QED
    BY <1>k, <1>o, <2>1, <2>2 DEF Serial!serviceVars, Serial!opVars, Serial!processVars
<1>2. CASE BeginDeploy(g) \/ (SeeReady(g) /\ pending[g])
  <2>1. PICK x \in {"startup", "deploy"} :
          /\ pc[g] = "select" /\ ~retired[g] /\ pc' = [pc EXCEPT ![g] = x]
          /\ UNCHANGED <<alive, stopHeld>>
          /\ x = "startup" => ~stopHeld /\ UNCHANGED req
          /\ x = "deploy" => BeginDeploy(g)
    <3>1. CASE BeginDeploy(g)
      BY <3>1 DEF BeginDeploy, DeployReceived, Goto
    <3>2. CASE SeeReady(g) /\ pending[g]
      BY <3>2 DEF SeeReady, Goto, CoreInv, CurrentOrRetired, StoppedInv, NothingStarts, reqVars
    <3>3. QED
      BY <1>2, <3>1, <3>2
  <2>2. \A h \in Instances \ {g} : pc[h] \notin Working /\ pc'[h] \notin Working
    BY <1>t, <2>1, WorksAlone
  <2>3. pc[g] \notin Working /\ pc' \in [Instances -> LoopPcs] /\ pc'[g] = x
    BY <1>t, <2>1 DEF Working, LoopPcs
  <2>4. Serial!Free
    BY <2>2, <2>3, FreeWhenIdle DEF CoreInv
  <2>5. Doing' = {x}
    BY <2>2, <2>3, OneChore, DoingIs
  <2>6. Up' = Up
    BY <2>1 DEF Up
  <2>7. CASE x = "startup"
    BY <1>k, <1>o, <2>1, <2>4, <2>5, <2>6, <2>7 DEF Serial!Startup, Serial!opVars, Serial!processVars
  <2>8. CASE x = "deploy"
    <3>1. deployCh[g] # {} /\ deployCh[g] \in SUBSET Requests /\ Resolve(deployCh[g], "started")
      BY <2>1, <2>8 DEF BeginDeploy, DeployReceived, CoreInv, TypeOK, TypeQueues
    <3>2. Serial!Settle(deployCh[g], "started")
      BY <3>1, ResolveSettles DEF Held
    <3>3. Serial!Deploy
      BY <1>k, <1>o, <2>1, <2>4, <2>5, <2>6, <2>8, <3>1, <3>2 DEF Serial!Deploy, Serial!opVars, Serial!processVars
    <3>4. QED
      BY <3>3
  <2>9. QED
    BY <2>7, <2>8
<1>3. CASE EndStartup(g) \/ \E s \in {"failed", "running"} : EndDeploy(g, s) /\ DeployStep(g)
  <2>1. pc[g] \in {"startup", "deploy"} /\ pc' = [pc EXCEPT ![g] = "select"]
    BY <1>3 DEF EndStartup, EndDeploy, Goto
  <2>2. ~retired[g] /\ \A h \in Instances \ {g} : pc[h] \notin Working /\ pc'[h] \notin Working
    BY <1>t, <2>1, WorksAlone DEF CoreInv, CurrentOrRetired
  <2>3. Doing = {pc[g]}
    BY <1>t, <2>1, <2>2, OneChore, DoingIs
  <2>4. Doing' = {}
    <3>1. pc' \in [Instances -> LoopPcs] /\ pc'[g] \notin Working
      BY <1>t, <2>1 DEF LoopPcs, Working
    <3>2. QED
      BY <2>2, <3>1, OneChore, DoingIs
  <2>5. ASSUME NEW b \in BOOLEAN, alive' = [alive EXCEPT ![g] = b] PROVE Up' = b
    BY <2>1, <2>2, <2>5, UpIs
  <2>6. UNCHANGED alive => Up' = Up
    BY DEF Up
  <2>7. Up \in BOOLEAN /\ UNCHANGED req
    BY <1>3 DEF Up, EndStartup, EndDeploy, reqVars
  <2>8. CASE EndStartup(g)
    <3>1. pc[g] = "startup" /\ Up' \in BOOLEAN /\ UNCHANGED stopHeld
      BY <2>5, <2>6, <2>7, <2>8 DEF EndStartup
    <3>2. Serial!EndChore
      BY <1>k, <1>o, <2>3, <2>4, <2>7, <3>1 DEF Serial!EndChore, Serial!opVars, Serial!processVars
    <3>3. QED
      BY <3>2
  <2>9. CASE DeployStep(g) /\ pc[g] = "deploy"
    <3>1. \/ Up' = TRUE /\ stopHeld' = FALSE
          \/ Up' \in {FALSE, Up} /\ UNCHANGED stopHeld
      <4>1. CASE DeployRestarts(g)
        BY <2>5, <4>1 DEF DeployRestarts
      <4>2. CASE DeployRestartFails(g)
        BY <2>5, <2>6, <4>2 DEF DeployRestartFails
      <4>3. CASE DeployStepFails(g) \/ SelfDeployed(g)
        BY <2>6, <4>3 DEF DeployStepFails, SelfDeployed
      <4>4. QED
        BY <2>9, <4>1, <4>2, <4>3 DEF DeployStep, Stash, BeginDeploy, DeployReceived
    <3>2. Serial!EndChore
      BY <1>k, <1>o, <2>3, <2>4, <2>7, <2>9, <3>1 DEF Serial!EndChore, Serial!opVars, Serial!processVars
    <3>3. QED
      BY <3>2
  <2>10. QED
    BY <1>3, <2>8, <2>9 DEF EndDeploy
<1>4. CASE ChildExit(g)
  <2>1. alive[g] /\ alive' = [alive EXCEPT ![g] = FALSE] /\ UNCHANGED <<pc, cur, stopHeld, req>>
    BY <1>4 DEF ChildExit, loopVars, reqVars
  <2>2. pc[g] # "none" /\ ~retired[g]
    BY <2>1 DEF CoreInv, CurrentOrRetired
  <2>3. Up /\ Up' = FALSE
    BY <2>1, <2>2, UpIs
  <2>4. Doing' = Doing
    BY <2>1 DEF Doing, ChoreOf
  <2>5. Serial!ProcessEnds
    BY <1>k, <1>o, <2>1, <2>3, <2>4 DEF Serial!ProcessEnds, Serial!opVars, Serial!processVars
  <2>6. QED
    BY <2>5
<1>5. QED
  BY <1>1, <1>2, <1>3, <1>4 DEF DeployStep, DeployStepFails, SelfDeployed, DeployRestarts, DeployRestartFails

\* A loop that ends refuses what is left in its queue, and hands its deploys
\* on, reports or drops them.
LEMMA SerialExit ==
  ASSUME CoreInv, OpTracked, HeldOnce, NEW g \in Instances, ExitStep(g)
  PROVE  SerialStep
<1> USE DEF SerialStep, Serial!ServiceNext
<1>t. /\ pc \in [Instances -> LoopPcs] /\ res \in [Messages -> Results] /\ Callers \subseteq Messages
      /\ opCh \in [Instances -> Seq(Messages)]
  BY DEF CoreInv, TypeOK, TypeOps, TypeLoops, TypeQueues, Messages
<1>k. UNCHANGED <<opPc, opKind, ran, cur, alive, stopHeld>>
  BY DEF ExitStep, TakeDone, AfterDrain, Forward, Chase, Found, Enqueue, callerVars, msVars
<1>p. /\ pc[g] \notin Working /\ pc'[g] \notin Working /\ pc' \in [Instances -> LoopPcs]
      /\ \A h \in Instances \ {g} : pc'[h] = pc[h]
  BY <1>t DEF ExitStep, TakeDone, AfterDrain, Forward, Chase, Found, Enqueue, Goto, Working, LoopPcs
<1>d. Doing' = Doing
  <2>1. \A h \in Instances : pc[h] \in Working \/ pc'[h] \in Working => pc'[h] = pc[h] /\ cur'[h] = cur[h]
    BY <1>k, <1>p
  <2>2. QED
    BY <1>t, <1>p, <2>1, SameChores, DoingIs
<1>u. Up' = Up
  BY <1>k DEF Up
<1>1. CASE TakeDone(g)
  <2>1. res' = [x \in Messages |-> IF x \in ToSet(opCh[g]) THEN GoneMsg ELSE res[x]] /\ UNCHANGED req
    BY <1>1 DEF TakeDone, reqVars
  <2>2. \A c \in Callers : c \in ToSet(opCh[g]) <=> Queued(c, g)
    BY <1>t DEF ToSet, Queued
  <2>3. \A c \in Callers : ~Queued(c, g) => Progress(c)' = Progress(c)
    BY <1>t, <1>k, <2>1, <2>2, SameProgress
  <2>4. ASSUME NEW c \in Callers, Queued(c, g)
        PROVE  Progress(c) \in {"queued", "refused"} /\ Progress(c)' = "refused"
    <3>1. ~ran[c] /\ res[c] = "none" /\ opPc[c] \in {"wait", "retry", "gone"}
      BY <2>4 DEF OpTracked, RanServed, Unanswered
    <3>2. res'[c] # "none"
      BY <1>t, <2>1, <2>2, <2>4 DEF GoneMsg
    <3>3. QED
      BY <1>k, <3>1, <3>2 DEF Progress
  <2> DEFINE C == {d \in Callers : Queued(d, g) /\ Progress(d) = "queued"}
  <2>5. \A d \in Callers : Progress(d)' = IF d \in C THEN "refused" ELSE Progress(d)
    BY <2>3, <2>4
  <2>6. C \in SUBSET {d \in Callers : Ops[d] = "queued"}
    BY DEF Ops
  <2>7. Ops' = [d \in Callers |-> IF d \in C THEN "refused" ELSE Ops[d]]
    BY <2>5 DEF Ops
  <2>8. Serial!Refuse
    BY <1>k, <1>d, <1>u, <2>1, <2>6, <2>7 DEF Serial!Refuse, Serial!opVars, Serial!processVars
  <2>9. QED
    BY <2>8
<1>2. CASE ~TakeDone(g)
  <2>1. UNCHANGED res
    BY <1>2 DEF ExitStep, AfterDrain, Forward, Chase, Found, Enqueue
  <2>2. \A c \in Callers : Progress(c)' = Progress(c)
    BY <1>k, <2>1, SameProgress
  <2>3. Ops' = Ops
    BY <2>2, SameOps
  <2>4. CASE UNCHANGED req
    BY <1>k, <1>d, <1>u, <2>3, <2>4 DEF Serial!serviceVars, Serial!opVars, Serial!processVars
  <2>5. CASE \E R \in {fwd[g], LeftOver(g)}, s \in {"reported", "dropped"} : Resolve(R, s)
    <3>1. fwd[g] \in SUBSET Requests /\ LeftOver(g) \in SUBSET Requests
      BY DEF LeftOver, CoreInv, TypeOK, TypeLoops, TypeQueues
    <3>2. \A R \in {fwd[g], LeftOver(g)}, r \in Requests : r \in R => Held(r, g)
      BY DEF LeftOver, Held
    <3>3. PICK R \in SUBSET Requests, s \in {"reported", "dropped"} : Serial!Settle(R, s)
      BY <2>5, <3>1, <3>2, ResolveSettles
    <3>4. Serial!GiveUpDeploys
      BY <1>k, <1>d, <1>u, <2>3, <3>3 DEF Serial!GiveUpDeploys, Serial!opVars, Serial!processVars
    <3>5. QED
      BY <3>4
  <2>6. QED
    BY <1>2, <2>4, <2>5 DEF ExitStep, AfterDrain, Forward, Chase, Found, Enqueue, reqVars
<1>3. QED
  BY <1>1, <1>2

\* A reload changes generations, not the service; only a name that is new
\* forgets the stop of an operator.
LEMMA SerialReload ==
  ASSUME CoreInv, OpTracked, ReloadStep
  PROVE  SerialStep
<1> USE DEF SerialStep, Serial!ServiceNext
<1>t. /\ pc \in [Instances -> LoopPcs] /\ res \in [Messages -> Results] /\ Callers \subseteq Messages
      /\ Callers \cap Reloads = {} /\ (rpc # "idle" => reloading \in Reloads)
  BY MessagesAssumption DEF CoreInv, TypeOK, TypeOps, TypeLoops, TypeReload, Messages
<1>k. UNCHANGED <<opPc, opKind, ran, cur, alive, req>>
  BY DEF ReloadStep, ReloadBegin, ReloadSend, ReloadGone, ReloadReply, ReloadSwap, ReloadCreate, ReloadDelete,
         ReloadCancel, ReloadStart, Build, callerVars, loopVars, msVars, reqVars
<1>o. Ops' = Ops
  <2>1. \A c \in Callers : res'[c] = res[c]
    BY <1>t DEF ReloadStep, ReloadBegin, ReloadSend, ReloadGone, ReloadReply, Answer, ReloadSwap, ReloadCreate,
                ReloadDelete, ReloadCancel, ReloadStart
  <2>2. \A c \in Callers : Progress(c)' = Progress(c)
    BY <1>k, <2>1, SameProgress
  <2>3. QED
    BY <2>2, SameOps
<1>d. Doing' = Doing
  <2>1. \/ UNCHANGED pc
        \/ \E g \in Instances : pc[g] = "none" /\ pc' = [pc EXCEPT ![g] = "built"]
        \/ rnew \in Instances /\ pc[rnew] = "built" /\ pc' = [pc EXCEPT ![rnew] = "select"]
    BY DEF ReloadStep, ReloadBegin, ReloadSend, ReloadGone, ReloadReply, ReloadSwap, ReloadCreate, Build, Goto,
           ReloadDelete, ReloadCancel, ReloadStart, loopVars, CoreInv, ReloadOwnsOld
  <2>2. /\ pc' \in [Instances -> LoopPcs]
        /\ \A h \in Instances : pc[h] \in Working \/ pc'[h] \in Working => pc'[h] = pc[h]
    BY <1>t, <2>1 DEF Working, LoopPcs
  <2>3. QED
    BY <1>t, <1>k, <2>2, SameChores, DoingIs
<1>u. Up' = Up
  BY <1>k DEF Up
<1>1. ASSUME NEW g \in Instances, ReloadCreate(g) PROVE SerialStep
  <2>1. services = NoInst /\ stopHeld' = FALSE
    BY <1>1 DEF ReloadCreate, CoreInv, ReloadOwnsOld
  <2>2. \A h \in Instances : pc[h] \notin Working /\ ~alive[h]
    BY <2>1, InstancesAssumption DEF CoreInv, CurrentOrRetired, Working
  <2>3. Serial!Free /\ ~Up
    BY <2>2, FreeWhenIdle DEF CoreInv, Up
  <2>4. Serial!Anew
    BY <1>k, <1>o, <1>d, <1>u, <2>1, <2>3 DEF Serial!Anew, Serial!opVars, Serial!processVars
  <2>5. QED
    BY <2>4
<1>2. CASE UNCHANGED stopHeld
  BY <1>k, <1>o, <1>d, <1>u, <1>2 DEF Serial!serviceVars, Serial!opVars, Serial!processVars
<1>3. QED
  BY <1>1, <1>2 DEF ReloadStep, ReloadBegin, ReloadSend, ReloadGone, ReloadReply, ReloadSwap, ReloadDelete,
                    ReloadCancel, ReloadStart

(* One service out of many generations: whatever reloads replace, cancel   *)
(* and start, whichever loop has the op, however calls give up and deploys *)
(* are handed on, callers see one server that does one thing at a time,    *)
(* serves an op at most once and not after it was refused, starts nothing  *)
(* on its own after a stop and runs a deploy at most once (serviceLoop,    *)
(* doOn, handle, Reload, forwardDeploy).                                   *)
THEOREM ManagerServesOneByOne == Spec => ServesOneByOne
<1>1. Init => Serial!ServiceInit
  <2> SUFFICES ASSUME Init PROVE Serial!ServiceInit
    OBVIOUS
  <2>1. Ops = [c \in Callers |-> "idle"] /\ opKind = [c \in Callers |-> "query"]
    <3>1. \A c \in Callers : Progress(c) = "idle"
      BY DEF Init, Progress
    <3>2. QED
      BY <3>1 DEF Ops, Init
  <2>2. Doing = {}
    <3>1. pc \in [Instances -> LoopPcs] /\ \A g \in Instances : pc[g] \in {"select", "none"}
      BY DEF Init, InitAbsent, InitService, LoopPcs
    <3>2. QED
      BY <3>1, NoChore, DoingIs DEF Working
  <2>3. stopHeld \in BOOLEAN /\ (stopHeld => ~Up) /\ Up \in BOOLEAN
    <3>1. stopHeld \in BOOLEAN /\ (stopHeld => \A g \in Instances : ~alive[g])
      BY DEF Init, InitAbsent, InitService
    <3>2. QED
      BY <3>1 DEF Up
  <2>4. req = [r \in Requests |-> "idle"]
    BY DEF Init
  <2>5. QED
    BY <2>1, <2>2, <2>3, <2>4 DEF Serial!ServiceInit
<1>2. ASSUME CoreInv, ShownInv, HeldOnce, OpTracked, StoppedInv, [Next]_vars
      PROVE  [Serial!ServiceNext]_Serial!serviceVars
  <2>0. SerialStep => [Serial!ServiceNext]_Serial!serviceVars
    BY DEF SerialStep
  <2>1. CASE UNCHANGED vars
    <3>1. UNCHANGED <<opPc, opKind, ran, res, pc, cur, alive, stopHeld, req>>
      BY <2>1 DEF vars, msVars, callerVars, loopVars, reqVars
    <3>2. \A c \in Callers : Progress(c)' = Progress(c)
      BY <3>1, SameProgress
    <3>3. Ops' = Ops /\ Doing' = Doing /\ Up' = Up
      BY <3>1, <3>2, SameOps DEF Doing, ChoreOf, Up
    <3>4. QED
      BY <3>1, <3>3 DEF Serial!serviceVars, Serial!opVars, Serial!processVars
  <2>2. ASSUME NEW c \in Callers, CallerStep(c) PROVE SerialStep
    BY <1>2, <2>2, SerialCaller
  <2>3. ASSUME NEW g \in Instances, LoopStep(g) \/ ChildExit(g) PROVE SerialStep
    BY <1>2, <2>3, SerialLoopOp, SerialChore, SerialExit DEF LoopStep
  <2>4. CASE ReloadStep
    BY <1>2, <2>0, <2>4, SerialReload
  <2>5. CASE StopReturns \/ SignalReady \/ Cancel \/ \E r \in Requests : Request(r)
    <3>1. UNCHANGED <<opPc, opKind, ran, res, pc, cur, alive, stopHeld>>
      BY <2>5 DEF StopReturns, SignalReady, Cancel, Request, msVars, callerVars, loopVars
    <3>d. \/ UNCHANGED req
          \/ \E r \in Requests, s \in {"queued", "refused"} : req[r] = "idle" /\ req' = [req EXCEPT ![r] = s]
      BY <2>5 DEF StopReturns, SignalReady, Cancel, Request, reqVars
    <3>2. \A c \in Callers : Progress(c)' = Progress(c)
      BY <3>1, SameProgress
    <3>3. Ops' = Ops /\ Doing' = Doing /\ Up' = Up
      BY <3>1, <3>2, SameOps DEF Doing, ChoreOf, Up
    <3>4. ASSUME NEW r \in Requests, NEW s \in {"queued", "refused"}, req[r] = "idle", req' = [req EXCEPT ![r] = s]
          PROVE  Serial!AskDeploy(r)
      BY <3>1, <3>3, <3>4 DEF Serial!AskDeploy, Serial!opVars, Serial!processVars
    <3>5. UNCHANGED req => SerialStep
      BY <3>1, <3>3 DEF SerialStep, Serial!serviceVars, Serial!opVars, Serial!processVars
    <3>6. QED
      BY <2>0, <3>d, <3>4, <3>5 DEF SerialStep, Serial!ServiceNext
  <2>6. QED
    BY <1>2, <2>0, <2>1, <2>2, <2>3, <2>4, <2>5 DEF Next, SystemStep, EnvironmentStep
<1>3. QED
  BY <1>1, <1>2, CoreInvariant, ShownInvariant, HeldInvariant, TrackedInvariant, StoppedInvariant, PTL
  DEF Spec, ServesOneByOne, Serial!ServiceSpec
=============================================================================
