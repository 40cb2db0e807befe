------------------------ MODULE ServiceManagerProofs ------------------------
(***************************************************************************)
(* Theorems about ServiceManager for every number of generations, callers, *)
(* reloads and requests, every set of configurations and every capacity.   *)
(***************************************************************************)
EXTENDS ServiceManager, SequenceTheorems, TLAPS

USE DEF mgrVars, msVars, chanVars, loopVars, callerVars, reloadVars, reqVars, vars

-----------------------------------------------------------------------------
(* Queues.                                                                 *)

\* A message sent to a queue with room keeps every queue within its capacity.
LEMMA QueueAppend ==
  ASSUME TypeQueues, NEW g \in Instances \cup {NoInst}, NEW x \in Messages, Room(g),
         opCh' = [opCh EXCEPT ![g] = Append(@, x)], UNCHANGED deployCh
  PROVE  TypeQueues'
  <1>1. CASE g \in Instances
    <2>1. Append(opCh[g], x) \in Seq(Messages) /\ Len(Append(opCh[g], x)) = Len(opCh[g]) + 1
      BY <1>1, AppendProperties DEF TypeQueues
    <2> QED
      BY <1>1, <2>1, OpCapAssumption DEF TypeQueues, Room
  <1>2. CASE g = NoInst
    BY <1>2, InstancesAssumption DEF TypeQueues
  <1> QED
    BY <1>1, <1>2 DEF TypeQueues

\* Receiving from a queue that is not empty yields a message.
LEMMA QueueTail ==
  ASSUME TypeQueues, NEW g \in Instances, opCh[g] # <<>>,
         opCh' = [opCh EXCEPT ![g] = Tail(@)], UNCHANGED deployCh
  PROVE  TypeQueues' /\ Head(opCh[g]) \in Messages
  <1>1. /\ Head(opCh[g]) \in Messages
        /\ Tail(opCh[g]) \in Seq(Messages)
        /\ Len(Tail(opCh[g])) = Len(opCh[g]) - 1
    BY HeadTailProperties DEF TypeQueues
  <1> QED
    BY <1>1, OpCapAssumption DEF TypeQueues

-----------------------------------------------------------------------------
(* Types.                                                                  *)

LEMMA TypeInit == Init => TypeOK
  <1> SUFFICES ASSUME Init PROVE TypeOK
    OBVIOUS
  <1>1. TypeManager
    <2>1. services \in Instances \cup {NoInst}
      BY DEF Init, InitAbsent, InitService
    <2>2. ready \in BOOLEAN
      BY DEF Init
    <2>3. mgr = "up" /\ shutdowns \in 0..2
      BY DEF Init
    <2> QED
      BY <2>1, <2>2, <2>3 DEF TypeManager
  <1>2. TypeServices
    <2>1. conf \in [Instances -> Configs \cup {NoConfig}] /\ desired \in [Instances -> Desired]
      BY DEF Init, InitAbsent, InitService, Desired
    <2>2. alive \in [Instances -> BOOLEAN]
      <3>1. CASE InitAbsent
        BY <3>1 DEF InitAbsent
      <3>2. CASE \E g \in Instances : InitService(g)
        <4>1. PICK g \in Instances, a \in BOOLEAN : alive = [i \in Instances |-> i = g /\ a]
          BY <3>2 DEF InitService
        <4> QED
          BY <4>1, Zenon
      <3> QED
        BY <3>1, <3>2 DEF Init
    <2> QED
      BY <2>1, <2>2 DEF Init, TypeServices
  <1>3. TypeQueues
    BY OpCapAssumption DEF Init, TypeQueues, Messages
  <1>4. TypeLoops
    <2>1. pending \in [Instances -> BOOLEAN]
      <3>1. CASE InitAbsent
        BY <3>1 DEF InitAbsent
      <3>2. CASE \E g \in Instances : InitService(g)
        <4>1. PICK g \in Instances, p \in BOOLEAN : pending = [i \in Instances |-> i = g /\ p]
          BY <3>2 DEF InitService
        <4> QED
          BY <4>1, Zenon
      <3> QED
        BY <3>1, <3>2 DEF Init
    <2>2. pc \in [Instances -> LoopPcs] /\ \A g \in Instances : pc[g] # "op"
      BY DEF Init, InitAbsent, InitService, LoopPcs
    <2> QED
      BY <2>1, <2>2 DEF Init, TypeLoops
  <1>5. TypeOps
    BY DEF Init, TypeOps, Results, Messages
  <1>6. TypeReload
    BY DEF Init, TypeReload, ReloadPcs, Snapshots, Desired
  <1>7. TypeRequests
    BY DEF Init, TypeRequests
  <1>8. stopHeld \in BOOLEAN
    BY DEF Init, InitAbsent, InitService
  <1> QED
    BY <1>1, <1>2, <1>3, <1>4, <1>5, <1>6, <1>7, <1>8 DEF TypeOK


LEMMA TypeStep == ASSUME TypeOK, Next PROVE TypeOK'
  <1> USE DEF TypeOK
  <1>1. ASSUME NEW c \in Callers, NEW k \in OpKinds, Lookup(c, k) PROVE TypeOK'
    BY <1>1 DEF TypeManager, TypeServices, TypeQueues, TypeLoops, TypeOps,
      TypeReload, TypeRequests, Lookup, MuFree, LoopPcs, ReloadPcs
  <1>2. ASSUME NEW c \in Callers, Send(c) PROVE TypeOK'
    <2>1. TypeQueues'
      BY <1>2, QueueAppend DEF Send, TypeOps, Messages
    <2> QED
      BY <1>2, <2>1 DEF Send, Room, TypeManager, TypeServices, TypeLoops,
        TypeOps, TypeReload, TypeRequests
  <1>3. ASSUME NEW c \in Callers, SendGone(c) PROVE TypeOK'
    BY <1>3 DEF TypeManager, TypeServices, TypeQueues, TypeLoops, TypeOps,
      TypeReload, TypeRequests, SendGone, CallerFree, Messages, Results
  <1>4. ASSUME NEW c \in Callers, Receive(c) PROVE TypeOK'
    BY <1>4 DEF TypeManager, TypeServices, TypeQueues, TypeLoops, TypeOps,
      TypeReload, TypeRequests, Receive, CallerFree, Messages, Results
  <1>5. ASSUME NEW c \in Callers, WaitGone(c) PROVE TypeOK'
    BY <1>5 DEF TypeManager, TypeServices, TypeQueues, TypeLoops, TypeOps,
      TypeReload, TypeRequests, WaitGone, LoopPcs, ReloadPcs
  <1>6. ASSUME NEW g \in Instances, RefuseOp(g) PROVE TypeOK'
    <2>1. TypeQueues' /\ Head(opCh[g]) \in Messages
      BY <1>6, QueueTail DEF RefuseOp
    <2>2. TypeOps'
      BY <1>6, <2>1 DEF RefuseOp, Answer, Results, TypeOps, Messages
    <2> QED
      BY <1>6, <2>1, <2>2 DEF RefuseOp, Answer, TypeManager, TypeServices,
        TypeLoops, TypeReload, TypeRequests
  <1>7. ASSUME NEW g \in Instances, BeginOp(g) PROVE TypeOK'
    <2>1. TypeQueues' /\ Head(opCh[g]) \in Messages
      BY <1>7, QueueTail DEF BeginOp
    <2>2. TypeServices'
      BY <1>7, <2>1 DEF BeginOp, Goto, StillPending, Desired, TypeServices
    <2>3. TypeLoops'
      BY <1>7, <2>1 DEF BeginOp, Goto, StillPending, Desired, TypeLoops,
        LoopPcs, Messages
    <2>4. TypeOps'
      BY <1>7, <2>1 DEF BeginOp, Goto, StillPending, Desired, TypeOps, Results,
        Messages
    <2> QED
      BY <1>7, <2>1, <2>2, <2>3, <2>4 DEF BeginOp, Goto, StillPending,
        TypeManager, TypeReload, TypeRequests
  <1>8. ASSUME NEW g \in Instances, EndQuery(g) PROVE TypeOK'
    BY <1>8 DEF TypeManager, TypeServices, TypeQueues, TypeLoops, TypeOps,
      TypeReload, TypeRequests, EndQuery, Handling, EndOpFrame, Reply, Answer,
      Goto, Results, LoopPcs, ReloadPcs
  <1>9. ASSUME NEW g \in Instances, EndStart(g) PROVE TypeOK'
    <2>1. TypeServices'
      BY <1>9 DEF EndStart, Handling, EndOpFrame, Reply, Answer, Goto, Results,
        TypeServices, Desired
    <2>2. TypeLoops'
      BY <1>9 DEF EndStart, Handling, EndOpFrame, Reply, Answer, Goto, Results,
        TypeLoops, LoopPcs, Messages
    <2>3. TypeOps'
      BY <1>9 DEF EndStart, Handling, EndOpFrame, Reply, Answer, Goto, Results,
        TypeOps, TypeLoops, Messages
    <2> QED
      BY <1>9, <2>1, <2>2, <2>3 DEF EndStart, Handling, EndOpFrame, Reply,
        Answer, Goto, TypeManager, TypeQueues, TypeReload, TypeRequests
  <1>10. ASSUME NEW g \in Instances, EndStop(g) PROVE TypeOK'
    <2>1. TypeServices'
      BY <1>10 DEF EndStop, Handling, EndOpFrame, Reply, Answer, Goto, Results,
        TypeServices, Desired
    <2>2. TypeLoops'
      BY <1>10 DEF EndStop, Handling, EndOpFrame, Reply, Answer, Goto, Results,
        TypeLoops, LoopPcs, Messages
    <2>3. TypeOps'
      BY <1>10 DEF EndStop, Handling, EndOpFrame, Reply, Answer, Goto, Results,
        TypeOps, TypeLoops, Messages
    <2> QED
      BY <1>10, <2>1, <2>2, <2>3 DEF EndStop, Handling, EndOpFrame, Reply,
        Answer, Goto, TypeManager, TypeQueues, TypeReload, TypeRequests
  <1>11. ASSUME NEW g \in Instances, EndRestart(g) PROVE TypeOK'
    <2>1. TypeServices'
      BY <1>11 DEF EndRestart, Handling, EndOpFrame, Reply, Answer, Goto,
        Results, TypeServices, Desired
    <2>2. TypeLoops'
      BY <1>11 DEF EndRestart, Handling, EndOpFrame, Reply, Answer, Goto,
        Results, TypeLoops, LoopPcs, Messages
    <2>3. TypeOps'
      BY <1>11 DEF EndRestart, Handling, EndOpFrame, Reply, Answer, Goto,
        Results, TypeOps, TypeLoops, Messages
    <2> QED
      BY <1>11, <2>1, <2>2, <2>3 DEF EndRestart, Handling, EndOpFrame, Reply,
        Answer, Goto, TypeManager, TypeQueues, TypeReload, TypeRequests
  <1>12. ASSUME NEW g \in Instances, EndInternalStop(g) PROVE TypeOK'
    <2>1. TypeServices'
      BY <1>12 DEF EndInternalStop, Reply, Answer, Goto, Retire, Results,
        Snapshots, TypeServices, Desired
    <2>2. TypeLoops'
      BY <1>12 DEF EndInternalStop, Reply, Answer, Goto, Retire, Results,
        Snapshots, TypeLoops, LoopPcs, Messages
    <2>3. TypeOps'
      BY <1>12 DEF EndInternalStop, Reply, Answer, Goto, Retire, Results,
        Snapshots, TypeOps, TypeLoops, Messages
    <2>4. TypeReload'
      <3>1. \A seen \in {alive[g], FALSE} :
              [running |-> seen, pending |-> pending[g], desired |-> desired[g]] \in Snapshots
        <4>1. pending[g] \in BOOLEAN /\ alive[g] \in BOOLEAN /\ desired[g] \in Desired
          BY DEF TypeOK, TypeLoops, TypeServices
        <4> QED
          BY <4>1 DEF Snapshots
      <3>2. snap' \in [Reloads -> Snapshots]
        BY <1>12, <3>1 DEF EndInternalStop, TypeOK, TypeReload
      <3> QED
        BY <1>12, <3>2 DEF EndInternalStop, TypeOK, TypeReload
    <2> QED
      BY <1>12, <2>1, <2>2, <2>3, <2>4 DEF EndInternalStop, Reply, Answer,
        Goto, Retire, TypeManager, TypeQueues, TypeRequests
  <1>13. ASSUME NEW g \in Instances, ChildExit(g) PROVE TypeOK'
    BY <1>13 DEF TypeManager, TypeServices, TypeQueues, TypeLoops, TypeOps,
      TypeReload, TypeRequests, ChildExit, LoopPcs, ReloadPcs
  <1>14. ASSUME SignalReady PROVE TypeOK'
    BY <1>14 DEF TypeManager, TypeServices, TypeQueues, TypeLoops, TypeOps,
      TypeReload, TypeRequests, SignalReady, LoopPcs, ReloadPcs
  <1>15. ASSUME NEW g \in Instances, SeeReady(g) PROVE TypeOK'
    <2>1. TypeServices'
      BY <1>15 DEF SeeReady, Goto, Desired, TypeServices
    <2>2. TypeLoops'
      BY <1>15 DEF SeeReady, Goto, Desired, TypeLoops, LoopPcs, Messages
    <2> QED
      BY <1>15, <2>1, <2>2 DEF SeeReady, Goto, TypeManager, TypeQueues,
        TypeOps, TypeReload, TypeRequests
  <1>16. ASSUME NEW g \in Instances, EndStartup(g) PROVE TypeOK'
    <2>1. TypeServices'
      BY <1>16 DEF EndStartup, Goto, TypeServices, Desired
    <2>2. TypeLoops'
      BY <1>16 DEF EndStartup, Goto, TypeLoops, LoopPcs, Messages
    <2> QED
      BY <1>16, <2>1, <2>2 DEF EndStartup, Goto, TypeManager, TypeQueues,
        TypeOps, TypeReload, TypeRequests
  <1>17. ASSUME NEW g \in Instances, Stash(g) PROVE TypeOK'
    BY <1>17 DEF TypeManager, TypeServices, TypeQueues, TypeLoops, TypeOps,
      TypeReload, TypeRequests, Stash, DeployReceived, LeftOver, LoopPcs,
      ReloadPcs
  <1>18. ASSUME NEW g \in Instances, BeginDeploy(g) PROVE TypeOK'
    BY <1>18 DEF TypeManager, TypeServices, TypeQueues, TypeLoops, TypeOps,
      TypeReload, TypeRequests, BeginDeploy, DeployReceived, Resolve, Goto,
      LoopPcs, ReloadPcs
  <1>19. ASSUME NEW g \in Instances, DeployStepFails(g) PROVE TypeOK'
    BY <1>19 DEF TypeManager, TypeServices, TypeQueues, TypeLoops, TypeOps,
      TypeReload, TypeRequests, DeployStepFails, EndDeploy, Goto, LoopPcs,
      ReloadPcs
  <1>20. ASSUME NEW g \in Instances, shutdowns < 2, SelfDeployed(g) PROVE TypeOK'
    BY <1>20 DEF TypeManager, TypeServices, TypeQueues, TypeLoops, TypeOps,
      TypeReload, TypeRequests, SelfDeployed, EndDeploy, Goto, LoopPcs,
      ReloadPcs
  <1>21. ASSUME NEW g \in Instances, DeployRestarts(g) PROVE TypeOK'
    <2>1. TypeServices'
      BY <1>21 DEF DeployRestarts, EndDeploy, Goto, Desired, TypeServices
    <2>2. TypeLoops'
      BY <1>21 DEF DeployRestarts, EndDeploy, Goto, Desired, TypeLoops,
        LoopPcs, Messages
    <2>3. TypeManager'
      BY <1>21 DEF DeployRestarts, EndDeploy, Goto, Desired, TypeManager
    <2> QED
      BY <1>21, <2>1, <2>2, <2>3 DEF DeployRestarts, EndDeploy, Goto,
        TypeQueues, TypeOps, TypeReload, TypeRequests
  <1>22. ASSUME NEW g \in Instances, DeployRestartFails(g) PROVE TypeOK'
    <2>1. TypeServices'
      BY <1>22 DEF DeployRestartFails, EndDeploy, Goto, TypeServices, Desired
    <2>2. TypeLoops'
      BY <1>22 DEF DeployRestartFails, EndDeploy, Goto, TypeLoops, LoopPcs,
        Messages
    <2> QED
      BY <1>22, <2>1, <2>2 DEF DeployRestartFails, EndDeploy, Goto,
        TypeManager, TypeQueues, TypeOps, TypeReload, TypeRequests
  <1>23. ASSUME NEW g \in Instances, TakeDone(g) PROVE TypeOK'
    <2>1. TypeQueues'
      BY <1>23, OpCapAssumption DEF TakeDone, Goto, GoneMsg, Results,
        TypeQueues, Messages
    <2>2. TypeLoops'
      BY <1>23 DEF TakeDone, Goto, GoneMsg, Results, TypeLoops, LoopPcs,
        Messages
    <2>3. TypeOps'
      BY <1>23 DEF TakeDone, Goto, GoneMsg, Results, TypeOps, Messages
    <2> QED
      BY <1>23, <2>1, <2>2, <2>3 DEF TakeDone, Goto, GoneMsg, TypeManager,
        TypeServices, TypeReload, TypeRequests
  <1>24. ASSUME NEW g \in Instances, AfterDrain(g) PROVE TypeOK'
    <2>1. TypeLoops'
      <3>1. LeftOver(g) \in SUBSET Requests
        BY DEF LeftOver, TypeQueues, TypeLoops
      <3> QED
        BY <1>24, <3>1 DEF AfterDrain, Goto, TypeLoops, LoopPcs
    <2>2. TypeQueues'
      BY <1>24 DEF AfterDrain, Goto, LeftOver, Resolve, TypeQueues, Messages
    <2>3. TypeRequests'
      BY <1>24 DEF AfterDrain, Goto, LeftOver, Resolve, TypeRequests
    <2> QED
      BY <1>24, <2>1, <2>2, <2>3 DEF AfterDrain, Goto, LeftOver, Resolve,
        TypeManager, TypeServices, TypeOps, TypeReload
  <1>25. ASSUME NEW g \in Instances, Forward(g) PROVE TypeOK'
    BY <1>25 DEF TypeManager, TypeServices, TypeQueues, TypeLoops, TypeOps,
      TypeReload, TypeRequests, Forward, Goto, FirstTarget, LoopPcs, ReloadPcs
  <1>26. ASSUME NEW g \in Instances, Chase(g) PROVE TypeOK'
    <2>1. TypeLoops'
      BY <1>26 DEF Chase, Goto, TypeLoops, TypeServices, LoopPcs, Messages
    <2> QED
      BY <1>26, <2>1 DEF Chase, Goto, TypeManager, TypeServices, TypeQueues,
        TypeOps, TypeReload, TypeRequests
  <1>27. ASSUME NEW g \in Instances, Found(g) PROVE TypeOK'
    <2>1. TypeLoops'
      BY <1>27 DEF Found, Goto, Resolve, TypeLoops, LoopPcs, Messages
    <2>2. TypeRequests'
      BY <1>27 DEF Found, Goto, Resolve, TypeRequests
    <2> QED
      BY <1>27, <2>1, <2>2 DEF Found, Goto, Resolve, TypeManager, TypeServices,
        TypeQueues, TypeOps, TypeReload
  <1>28. ASSUME NEW g \in Instances, Enqueue(g) PROVE TypeOK'
    <2>1. TypeServices'
      BY <1>28 DEF Enqueue, EnqueueDeploy, Goto, TypeServices, Desired
    <2>2. TypeQueues'
      BY <1>28 DEF Enqueue, EnqueueDeploy, Goto, TypeQueues, TypeLoops,
        Messages
    <2>3. TypeLoops'
      BY <1>28 DEF Enqueue, EnqueueDeploy, Goto, TypeLoops, LoopPcs, Messages
    <2> QED
      BY <1>28, <2>1, <2>2, <2>3 DEF Enqueue, EnqueueDeploy, Goto, TypeManager,
        TypeOps, TypeReload, TypeRequests
  <1>29. ASSUME NEW r \in Requests, Request(r) PROVE TypeOK'
    <2>1. TypeQueues'
      <3>1. CASE services = NoInst
        BY <1>29, <3>1 DEF Request, TypeQueues
      <3>2. CASE services \in Instances
        <4>1. deployCh[services] \cup {r} \in SUBSET Requests
          BY <3>2 DEF TypeQueues
        <4> QED
          BY <1>29, <3>2, <4>1, InstancesAssumption DEF Request, EnqueueDeploy, TypeQueues
      <3> QED
        BY <3>1, <3>2 DEF TypeManager
    <2>2. TypeRequests'
      BY <1>29 DEF Request, TypeManager, TypeRequests
    <2> QED
      BY <1>29, <2>1, <2>2 DEF Request, EnqueueDeploy, TypeManager,
        TypeServices, TypeLoops, TypeOps, TypeReload
  <1>30. ASSUME NEW x \in Reloads, NEW c \in Configs \cup {NoConfig}, ReloadBegin(x, c) PROVE TypeOK'
    BY <1>30 DEF TypeManager, TypeServices, TypeQueues, TypeLoops, TypeOps,
      TypeReload, TypeRequests, ReloadBegin, Finish, LoopPcs, ReloadPcs
  <1>31. ASSUME ReloadSend PROVE TypeOK'
    <2>1. TypeQueues'
      BY <1>31, QueueAppend DEF ReloadSend, TypeReload, Messages
    <2> QED
      BY <1>31, <2>1 DEF ReloadSend, ReloadPcs, TypeManager, TypeServices,
        TypeLoops, TypeOps, TypeReload, TypeRequests
  <1>32. ASSUME ReloadGone PROVE TypeOK'
    BY <1>32 DEF TypeManager, TypeServices, TypeQueues, TypeLoops, TypeOps,
      TypeReload, TypeRequests, ReloadGone, Finish, LoopPcs, ReloadPcs
  <1>33. ASSUME ReloadReply PROVE TypeOK'
    BY <1>33 DEF TypeManager, TypeServices, TypeQueues, TypeLoops, TypeOps,
      TypeReload, TypeRequests, ReloadReply, Finish, Answer, Results, Messages,
      ReloadPcs
  <1>34. ASSUME NEW g \in Instances, ReloadSwap(g) PROVE TypeOK'
    BY <1>34 DEF TypeManager, TypeServices, TypeQueues, TypeLoops, TypeOps,
      TypeReload, TypeRequests, ReloadSwap, Build, Goto, ColdBootStart,
      Snapshots, LoopPcs, ReloadPcs
  <1>35. ASSUME ReloadDelete PROVE TypeOK'
    BY <1>35 DEF TypeManager, TypeServices, TypeQueues, TypeLoops, TypeOps,
      TypeReload, TypeRequests, ReloadDelete, LoopPcs, ReloadPcs
  <1>36. ASSUME ReloadCancel PROVE TypeOK'
    <2>1. TypeServices'
      BY <1>36 DEF ReloadCancel, Finish, TypeServices, Desired
    <2>2. TypeReload'
      BY <1>36 DEF ReloadCancel, Finish, TypeReload, ReloadPcs, Snapshots,
        Desired
    <2> QED
      BY <1>36, <2>1, <2>2 DEF ReloadCancel, Finish, TypeManager, TypeQueues,
        TypeLoops, TypeOps, TypeRequests
  <1>37. ASSUME NEW g \in Instances, ReloadCreate(g) PROVE TypeOK'
    BY <1>37 DEF TypeManager, TypeServices, TypeQueues, TypeLoops, TypeOps,
      TypeReload, TypeRequests, ReloadCreate, Build, Goto, ColdBootStart,
      Desired, LoopPcs, ReloadPcs
  <1>38. ASSUME ReloadStart PROVE TypeOK'
    BY <1>38 DEF TypeManager, TypeServices, TypeQueues, TypeLoops, TypeOps,
      TypeReload, TypeRequests, ReloadStart, Goto, Finish, LoopPcs, ReloadPcs
  <1>39. ASSUME Cancel PROVE TypeOK'
    BY <1>39 DEF TypeManager, TypeServices, TypeQueues, TypeLoops, TypeOps,
      TypeReload, TypeRequests, Cancel, LoopPcs, ReloadPcs
  <1>40. ASSUME StopReturns PROVE TypeOK'
    BY <1>40 DEF TypeManager, TypeServices, TypeQueues, TypeLoops, TypeOps,
      TypeReload, TypeRequests, StopReturns, LoopPcs, ReloadPcs
  <1> QED
    BY <1>1, <1>2, <1>3, <1>4, <1>5, <1>6, <1>7, <1>8, <1>9, <1>10, <1>11,
      <1>12, <1>13, <1>14, <1>15, <1>16, <1>17, <1>18, <1>19, <1>20, <1>21,
      <1>22, <1>23, <1>24, <1>25, <1>26, <1>27, <1>28, <1>29, <1>30, <1>31,
      <1>32, <1>33, <1>34, <1>35, <1>36, <1>37, <1>38, <1>39, <1>40
    DEF Next, SystemStep, EnvironmentStep, CallerStep, LoopStep, OpStep, DeployStep,
      ExitStep, ReloadStep

\* Every variable keeps to its type, in every behaviour of the manager.
THEOREM TypeCorrect == Spec => []TypeOK
  <1>1. TypeOK /\ UNCHANGED vars => TypeOK'
    BY DEF TypeOK, TypeManager, TypeServices, TypeQueues, TypeLoops, TypeOps, TypeReload, TypeRequests
  <1> QED
    BY TypeInit, TypeStep, <1>1, PTL DEF Spec

-----------------------------------------------------------------------------
(* One child.  That at most one generation has a child is not inductive:   *)
(* what keeps it is that a generation which may act is the current one     *)
(* (CurrentOrRetired), and that Reload replaces the current one only after *)
(* the internal stop it sent to that very generation has succeeded         *)
(* (ReloadOwnsOld).                                                        *)

\* The program starts with at most one generation, and no Reload has begun.
LEMMA CoreInit == Init => CurrentOrRetired /\ ReloadOwnsOld
  <1> SUFFICES ASSUME Init PROVE CurrentOrRetired /\ ReloadOwnsOld
    OBVIOUS
  <1>1. ReloadOwnsOld
    <2>1. rpc = "idle" /\ reloading \notin reloaded
      BY DEF Init
    <2>2. \A x \in Reloads, g \in Instances : cur[g] # x /\ DOMAIN opCh[g] = {}
      BY MessagesAssumption DEF Init
    <2>3. \A x \in Reloads : res[x] = "none"
      BY DEF Init, Messages
    <2>4. \A x \in Reloads : res[x] # "done"
      BY <2>3
    <2> QED
      BY <2>1, <2>2, <2>4 DEF ReloadOwnsOld
  <1>2. CurrentOrRetired
    <2>1. CASE InitAbsent
      BY <2>1 DEF Init, InitAbsent, CurrentOrRetired
    <2>2. CASE \E g \in Instances : InitService(g)
      BY <2>2 DEF Init, InitService, CurrentOrRetired
    <2> QED
      BY <2>1, <2>2 DEF Init
  <1> QED
    BY <1>1, <1>2

\* Every step keeps the bond between loops, services map and Reload.
LEMMA CoreStep == ASSUME CoreInv, Next PROVE CurrentOrRetired' /\ ReloadOwnsOld'
  <1> USE InstancesAssumption, MessagesAssumption DEF CoreInv, TypeOK,
    TypeManager, TypeServices, TypeQueues, TypeLoops, TypeOps, TypeReload,
    Messages, CurrentOrRetired, ReloadOwnsOld
  <1>1. ASSUME NEW c \in Callers, NEW k \in OpKinds, Lookup(c, k) PROVE CurrentOrRetired' /\ ReloadOwnsOld'
    BY <1>1 DEF Lookup, MuFree
  <1>2. ASSUME NEW c \in Callers, Send(c) PROVE CurrentOrRetired' /\ ReloadOwnsOld'
    BY <1>2 DEF Send, Room
  <1>3. ASSUME NEW c \in Callers, SendGone(c) PROVE CurrentOrRetired' /\ ReloadOwnsOld'
    BY <1>3 DEF SendGone, CallerFree
  <1>4. ASSUME NEW c \in Callers, Receive(c) PROVE CurrentOrRetired' /\ ReloadOwnsOld'
    BY <1>4 DEF Receive, CallerFree
  <1>5. ASSUME NEW c \in Callers, WaitGone(c) PROVE CurrentOrRetired' /\ ReloadOwnsOld'
    BY <1>5 DEF WaitGone
  <1>6. ASSUME NEW g \in Instances, RefuseOp(g) PROVE CurrentOrRetired' /\ ReloadOwnsOld'
    BY <1>6 DEF RefuseOp, Answer
  <1>7. ASSUME NEW g \in Instances, BeginOp(g) PROVE CurrentOrRetired' /\ ReloadOwnsOld'
    BY <1>7 DEF BeginOp, Goto, StillPending
  <1>8. ASSUME NEW g \in Instances, EndQuery(g) PROVE CurrentOrRetired' /\ ReloadOwnsOld'
    BY <1>8 DEF EndQuery, Handling, EndOpFrame, Reply, Answer, Goto
  <1>9. ASSUME NEW g \in Instances, EndStart(g) PROVE CurrentOrRetired' /\ ReloadOwnsOld'
    BY <1>9 DEF EndStart, Handling, EndOpFrame, Reply, Answer, Goto
  <1>10. ASSUME NEW g \in Instances, EndStop(g) PROVE CurrentOrRetired' /\ ReloadOwnsOld'
    BY <1>10 DEF EndStop, Handling, EndOpFrame, Reply, Answer, Goto
  <1>11. ASSUME NEW g \in Instances, EndRestart(g) PROVE CurrentOrRetired' /\ ReloadOwnsOld'
    BY <1>11 DEF EndRestart, Handling, EndOpFrame, Reply, Answer, Goto
  <1>12. ASSUME NEW g \in Instances, EndInternalStop(g) PROVE CurrentOrRetired' /\ ReloadOwnsOld'
    <2>1. CurrentOrRetired'
      BY <1>12 DEF EndInternalStop, Reply, Answer, Goto, Retire
    <2>2. cur[g] \in reloaded \/ (cur[g] = reloading /\ g = rold)
      BY <1>12 DEF EndInternalStop
    <2>3. \A x \in Reloads : res'[x] = "done" =>
            x \in reloaded \/ (x = reloading /\ rold \in Instances /\ retired'[rold])
      BY <1>12, <2>2 DEF EndInternalStop, Reply, Answer, Goto, Retire
    <2> QED
      BY <1>12, <2>1, <2>3 DEF EndInternalStop, Reply, Answer, Goto, Retire
  <1>13. ASSUME NEW g \in Instances, ChildExit(g) PROVE CurrentOrRetired' /\ ReloadOwnsOld'
    BY <1>13 DEF ChildExit
  <1>14. ASSUME SignalReady PROVE CurrentOrRetired' /\ ReloadOwnsOld'
    BY <1>14 DEF SignalReady
  <1>15. ASSUME NEW g \in Instances, SeeReady(g) PROVE CurrentOrRetired' /\ ReloadOwnsOld'
    BY <1>15 DEF SeeReady, Goto
  <1>16. ASSUME NEW g \in Instances, EndStartup(g) PROVE CurrentOrRetired' /\ ReloadOwnsOld'
    BY <1>16 DEF EndStartup, Goto
  <1>17. ASSUME NEW g \in Instances, Stash(g) PROVE CurrentOrRetired' /\ ReloadOwnsOld'
    BY <1>17 DEF Stash, DeployReceived, LeftOver
  <1>18. ASSUME NEW g \in Instances, BeginDeploy(g) PROVE CurrentOrRetired' /\ ReloadOwnsOld'
    BY <1>18 DEF BeginDeploy, DeployReceived, Resolve, Goto
  <1>19. ASSUME NEW g \in Instances, DeployStepFails(g) PROVE CurrentOrRetired' /\ ReloadOwnsOld'
    BY <1>19 DEF DeployStepFails, EndDeploy, Goto
  <1>20. ASSUME NEW g \in Instances, SelfDeployed(g) PROVE CurrentOrRetired' /\ ReloadOwnsOld'
    BY <1>20 DEF SelfDeployed, EndDeploy, Goto
  <1>21. ASSUME NEW g \in Instances, DeployRestarts(g) PROVE CurrentOrRetired' /\ ReloadOwnsOld'
    BY <1>21 DEF DeployRestarts, EndDeploy, Goto
  <1>22. ASSUME NEW g \in Instances, DeployRestartFails(g) PROVE CurrentOrRetired' /\ ReloadOwnsOld'
    BY <1>22 DEF DeployRestartFails, EndDeploy, Goto
  <1>23. ASSUME NEW g \in Instances, TakeDone(g) PROVE CurrentOrRetired' /\ ReloadOwnsOld'
    BY <1>23 DEF TakeDone, Goto, GoneMsg
  <1>24. ASSUME NEW g \in Instances, AfterDrain(g) PROVE CurrentOrRetired' /\ ReloadOwnsOld'
    BY <1>24 DEF AfterDrain, Goto, LeftOver, Resolve
  <1>25. ASSUME NEW g \in Instances, Forward(g) PROVE CurrentOrRetired' /\ ReloadOwnsOld'
    BY <1>25 DEF Forward, Goto, FirstTarget
  <1>26. ASSUME NEW g \in Instances, Chase(g) PROVE CurrentOrRetired' /\ ReloadOwnsOld'
    BY <1>26 DEF Chase, Goto
  <1>27. ASSUME NEW g \in Instances, Found(g) PROVE CurrentOrRetired' /\ ReloadOwnsOld'
    BY <1>27 DEF Found, Goto, Resolve
  <1>28. ASSUME NEW g \in Instances, Enqueue(g) PROVE CurrentOrRetired' /\ ReloadOwnsOld'
    BY <1>28 DEF Enqueue, EnqueueDeploy, Goto
  <1>29. ASSUME NEW r \in Requests, Request(r) PROVE CurrentOrRetired' /\ ReloadOwnsOld'
    BY <1>29 DEF Request, EnqueueDeploy
  <1>30. ASSUME NEW x \in Reloads, NEW c \in Configs \cup {NoConfig}, ReloadBegin(x, c) PROVE CurrentOrRetired' /\ ReloadOwnsOld'
    <2>1. CurrentOrRetired'
      BY <1>30 DEF ReloadBegin, Finish
    <2>2. \A y \in Reloads, h \in Instances :
            cur[h] = y \/ (\E i \in DOMAIN opCh[h] : opCh[h][i] = y) => y \in reloaded
      BY <1>30 DEF ReloadBegin
    <2>3. \A y \in Reloads : res[y] = "done" => y \in reloaded
      BY <1>30 DEF ReloadBegin
    <2> QED
      BY <1>30, <2>1, <2>2, <2>3 DEF ReloadBegin, Finish, ReloadPcs
  <1>31. ASSUME ReloadSend PROVE CurrentOrRetired' /\ ReloadOwnsOld'
    BY <1>31 DEF ReloadSend, Room
  <1>32. ASSUME ReloadGone PROVE CurrentOrRetired' /\ ReloadOwnsOld'
    BY <1>32 DEF ReloadGone, Finish
  <1>33. ASSUME ReloadReply PROVE CurrentOrRetired' /\ ReloadOwnsOld'
    <2>1. CurrentOrRetired'
      BY <1>33 DEF ReloadReply, Finish
    <2>2. reloading \in Reloads /\ (StopSucceeded(res[reloading]) => retired[rold])
      BY <1>33 DEF ReloadReply, StopSucceeded
    <2>3. \A y \in Reloads : res'[y] = "done" => res[y] = "done" /\ y # reloading
      BY <1>33, <2>2 DEF ReloadReply, Answer
    <2>4. CASE StopSucceeded(res[reloading])
      BY <1>33, <2>1, <2>2, <2>3, <2>4 DEF ReloadReply
    <2>5. CASE ~StopSucceeded(res[reloading])
      BY <1>33, <2>1, <2>2, <2>3, <2>5 DEF ReloadReply, Finish
    <2> QED
      BY <2>4, <2>5
  <1>34. ASSUME NEW g \in Instances, ReloadSwap(g) PROVE CurrentOrRetired' /\ ReloadOwnsOld'
    BY <1>34 DEF ReloadSwap, Build, Goto, ColdBootStart
  <1>35. ASSUME ReloadDelete PROVE CurrentOrRetired' /\ ReloadOwnsOld'
    BY <1>35 DEF ReloadDelete
  <1>36. ASSUME ReloadCancel PROVE CurrentOrRetired' /\ ReloadOwnsOld'
    BY <1>36 DEF ReloadCancel, Finish
  <1>37. ASSUME NEW g \in Instances, ReloadCreate(g) PROVE CurrentOrRetired' /\ ReloadOwnsOld'
    BY <1>37 DEF ReloadCreate, Build, Goto, ColdBootStart
  <1>38. ASSUME ReloadStart PROVE CurrentOrRetired' /\ ReloadOwnsOld'
    BY <1>38 DEF ReloadStart, Goto, Finish
  <1>39. ASSUME Cancel PROVE CurrentOrRetired' /\ ReloadOwnsOld'
    BY <1>39 DEF Cancel
  <1>40. ASSUME StopReturns PROVE CurrentOrRetired' /\ ReloadOwnsOld'
    BY <1>40 DEF StopReturns
  <1> QED
    BY <1>1, <1>2, <1>3, <1>4, <1>5, <1>6, <1>7, <1>8, <1>9, <1>10, <1>11,
      <1>12, <1>13, <1>14, <1>15, <1>16, <1>17, <1>18, <1>19, <1>20, <1>21,
      <1>22, <1>23, <1>24, <1>25, <1>26, <1>27, <1>28, <1>29, <1>30, <1>31,
      <1>32, <1>33, <1>34, <1>35, <1>36, <1>37, <1>38, <1>39, <1>40
    DEF Next, SystemStep, EnvironmentStep, CallerStep, LoopStep, OpStep, DeployStep,
      ExitStep, ReloadStep

\* The inductive invariant holds in every reachable state.
LEMMA CoreInvariant == Spec => []CoreInv
  <1>1. Init => CoreInv
    BY TypeInit, CoreInit DEF CoreInv
  <1>2. CoreInv /\ [Next]_vars => CoreInv'
    <2> SUFFICES ASSUME CoreInv, [Next]_vars PROVE CoreInv'
      OBVIOUS
    <2>1. CASE Next
      BY <2>1, TypeStep, CoreStep DEF CoreInv
    <2>2. CASE UNCHANGED vars
      BY <2>2 DEF CoreInv, TypeOK, TypeManager, TypeServices, TypeQueues, TypeLoops,
        TypeOps, TypeReload, TypeRequests, CurrentOrRetired, ReloadOwnsOld
    <2> QED
      BY <2>1, <2>2
  <1> QED
    BY <1>1, <1>2, PTL DEF Spec

\* For any number of generations, callers, reloads and deploys, at most one
\* generation has a live child.
THEOREM OneChildAlways == Spec => []OneChild
  <1>1. CoreInv => OneChild
    BY DEF CoreInv, CurrentOrRetired, OneChild
  <1> QED
    BY CoreInvariant, <1>1, PTL

\* Only an internal stop that succeeds changes whether a generation is retired.
LEMMA RetiredForever ==
  ASSUME TypeOK, Next PROVE \A g \in Instances : retired[g] => retired'[g]
  <1>1. ASSUME NEW c \in Callers, CallerStep(c) PROVE UNCHANGED retired
    BY <1>1 DEF CallerStep, Lookup, Send, SendGone, Receive, WaitGone, CallerFree
  <1>2. ASSUME NEW g \in Instances, OpStep(g), ~EndInternalStop(g) PROVE UNCHANGED retired
    BY <1>2 DEF OpStep, RefuseOp, BeginOp, EndQuery, EndStart, EndStop, EndRestart, EndOpFrame
  <1>3. ASSUME NEW g \in Instances, EndInternalStop(g)
        PROVE  \A h \in Instances : retired[h] => retired'[h]
    BY <1>3 DEF EndInternalStop, Retire, TypeOK, TypeLoops
  <1>4. ASSUME NEW g \in Instances, SeeReady(g) \/ EndStartup(g) PROVE UNCHANGED retired
    BY <1>4 DEF SeeReady, EndStartup
  <1>5. ASSUME NEW g \in Instances, DeployStep(g) PROVE UNCHANGED retired
    BY <1>5 DEF DeployStep, Stash, BeginDeploy, EndDeploy, DeployStepFails, SelfDeployed,
      DeployRestarts, DeployRestartFails
  <1>6. ASSUME NEW g \in Instances, ExitStep(g) PROVE UNCHANGED retired
    BY <1>6 DEF ExitStep, TakeDone, AfterDrain, Forward, Chase, Found, Enqueue
  <1>7. ASSUME ReloadStep PROVE UNCHANGED retired
    BY <1>7 DEF ReloadStep, ReloadBegin, ReloadSend, ReloadGone, ReloadReply, ReloadSwap,
      ReloadDelete, ReloadCancel, ReloadCreate, ReloadStart
  <1>8. ASSUME StopReturns \/ EnvironmentStep PROVE UNCHANGED retired
    BY <1>8 DEF StopReturns, EnvironmentStep, ChildExit, Request, SignalReady, Cancel
  <1> QED
    BY <1>1, <1>2, <1>3, <1>4, <1>5, <1>6, <1>7, <1>8 DEF Next, SystemStep, LoopStep

\* Once a generation is retired, no step of anybody brings its child back or
\* makes it serve again.
THEOREM RetiredStaysInert == Spec => RetiredInert
  <1> DEFINE Inert == \A g \in Instances : retired[g] => retired'[g] /\ ~alive'[g]
  <1>1. CoreInv /\ CoreInv' /\ [Next]_vars => [Inert]_vars
    <2> SUFFICES ASSUME CoreInv, CoreInv', Next PROVE Inert
      OBVIOUS
    <2>1. \A g \in Instances : retired[g] => retired'[g]
      BY RetiredForever DEF CoreInv
    <2>2. \A g \in Instances : alive'[g] => ~retired'[g]
      BY DEF CoreInv, CurrentOrRetired
    <2> QED
      BY <2>1, <2>2
  <1> QED
    BY CoreInvariant, <1>1, PTL DEF Spec, RetiredInert
=============================================================================
