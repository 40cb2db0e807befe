---------------------------- MODULE DeployProofs ----------------------------
(***************************************************************************)
(* Proofs about the deploys of ServiceManager, for any number of services, *)
(* callers, reloads and requests: an accepted deploy is in one place, it   *)
(* stays with the services that replace the one it was requested for, and  *)
(* "deploying" is shown only while there is something to deploy.           *)
(* What may be left behind takes two reloads, and a second close of        *)
(* shutdownCh two deploys.                                                 *)
(***************************************************************************)
EXTENDS ServiceManagerProofs, FiniteSetTheorems

\* Request r is on the channel of g or set aside by its loop.
Held(r, g) == r \in deployCh[g] \cup fwd[g]

\* Every request is in one place from RequestDeploy until it is started, reported or dropped.
HeldOnce ==
  \A r \in Requests :
    /\ req[r] = "queued" <=> \E g \in Instances : Held(r, g)
    /\ \A g, h \in Instances : Held(r, g) /\ Held(r, h) => g = h
    /\ \A g \in Instances : ~(r \in deployCh[g] /\ r \in fwd[g])

\* A loop that is about to hand on has found somebody.
TargetFound == \A g \in Instances : pc[g] = "enqueue" => fwdTo[g] \in Instances

DeploySteps(g) == Stash(g) \/ BeginDeploy(g) \/ AfterDrain(g) \/ Found(g) \/ Enqueue(g)

deployState == <<deployCh, fwd, req, reqOn>>

-----------------------------------------------------------------------------
(* What leaves the deploys alone.                                          *)

LEMMA CallersAlone ==
  ASSUME NEW c, CallerStep(c)
  PROVE  UNCHANGED <<mgrVars, msVars, deployCh, loopVars, reloadVars, reqVars>>
BY DEF CallerStep, Lookup, Send, SendGone, Receive, WaitGone, CallerFree, chanVars

LEMMA OpsAlone ==
  ASSUME NEW g, OpStep(g)
  PROVE  UNCHANGED <<mgrVars, conf, cancelled, successor, status, deployCh, sawReady, fwd, fwdTo, reqVars>>
<1>1. CASE RefuseOp(g) \/ BeginOp(g)
  BY <1>1 DEF RefuseOp, BeginOp, msVars, loopVars
<1>2. CASE EndQuery(g) \/ EndStart(g) \/ EndStop(g) \/ EndRestart(g)
  BY <1>2 DEF EndQuery, EndStart, EndStop, EndRestart, EndOpFrame, chanVars
<1>3. CASE EndInternalStop(g)
  BY <1>3 DEF EndInternalStop, chanVars
<1>4. QED
  BY <1>1, <1>2, <1>3 DEF OpStep

LEMMA ReloadAlone ==
  ASSUME ReloadStep
  PROVE  UNCHANGED <<ready, mgr, shutdowns, status, alive, deployCh, sawReady, fwd, fwdTo, reqVars>>
<1>1. ASSUME NEW x, NEW c, ReloadBegin(x, c)
      PROVE  UNCHANGED <<ready, mgr, shutdowns, status, alive, deployCh, sawReady, fwd, fwdTo, reqVars>>
  BY <1>1 DEF ReloadBegin, mgrVars, msVars, chanVars, loopVars
<1>2. CASE ReloadSend \/ ReloadGone \/ ReloadReply
  BY <1>2 DEF ReloadSend, ReloadGone, ReloadReply, mgrVars, msVars, chanVars, loopVars
<1>3. ASSUME NEW g, ReloadSwap(g) \/ ReloadCreate(g)
      PROVE  UNCHANGED <<ready, mgr, shutdowns, status, alive, deployCh, sawReady, fwd, fwdTo, reqVars>>
  BY <1>3 DEF ReloadSwap, ReloadCreate, chanVars
<1>4. CASE ReloadDelete \/ ReloadCancel \/ ReloadStart
  BY <1>4 DEF ReloadDelete, ReloadCancel, ReloadStart, mgrVars, msVars, chanVars, loopVars
<1>5. QED
  BY <1>1, <1>2, <1>3, <1>4 DEF ReloadStep

\* Only the six steps that move a request change where it is.
LEMMA DeploysAlone ==
  ASSUME Next, \A g \in Instances : ~DeploySteps(g), \A r \in Requests : ~Request(r)
  PROVE  UNCHANGED deployState
<1>1. ASSUME NEW c \in Callers, CallerStep(c) PROVE UNCHANGED deployState
  BY <1>1, CallersAlone DEF deployState, loopVars, reqVars
<1>2. ASSUME NEW g \in Instances, OpStep(g) PROVE UNCHANGED deployState
  BY <1>2, OpsAlone DEF deployState, reqVars
<1>3. ASSUME NEW g \in Instances, SeeReady(g) \/ EndStartup(g) \/ ChildExit(g) PROVE UNCHANGED deployState
  BY <1>3 DEF SeeReady, EndStartup, ChildExit, deployState, chanVars, loopVars, reqVars
<1>4. ASSUME NEW g \in Instances, DeployStep(g) PROVE UNCHANGED deployState
  BY <1>4 DEF DeployStep, DeploySteps, DeployStepFails, SelfDeployed, DeployRestarts, DeployRestartFails, EndDeploy,
              deployState, chanVars, reqVars
<1>5. ASSUME NEW g \in Instances, ExitStep(g) PROVE UNCHANGED deployState
  BY <1>5 DEF ExitStep, DeploySteps, TakeDone, Forward, Chase, deployState, chanVars, reqVars
<1>6. CASE ReloadStep
  BY <1>6, ReloadAlone DEF deployState, reqVars
<1>7. CASE StopReturns \/ SignalReady \/ Cancel
  BY <1>7 DEF StopReturns, SignalReady, Cancel, deployState, chanVars, loopVars, reqVars
<1>8. QED
  BY <1>1, <1>2, <1>3, <1>4, <1>5, <1>6, <1>7 DEF Next, SystemStep, EnvironmentStep, LoopStep

-----------------------------------------------------------------------------
(* One place.                                                              *)

\* Only Found leads to the hand-over, and nothing changes the target there.
LEMMA TargetStep == ASSUME TypeOK, TargetFound, Next PROVE TargetFound'
<1> USE DEF TargetFound
<1>t. pc \in [Instances -> LoopPcs] /\ fwdTo \in [Instances -> Instances \cup {NoInst}]
  BY DEF TypeOK, TypeLoops
<1>1. ASSUME NEW c \in Callers, CallerStep(c) PROVE TargetFound'
  BY <1>1, CallersAlone DEF loopVars
<1>2. ASSUME NEW g \in Instances, OpStep(g) PROVE TargetFound'
  <2>1. UNCHANGED fwdTo
    BY <1>2, OpsAlone
  <2>2. \A h \in Instances : pc'[h] = "enqueue" => pc[h] = "enqueue"
    BY <1>t, <1>2 DEF OpStep, RefuseOp, BeginOp, EndQuery, EndStart, EndStop, EndRestart, EndInternalStop, Reply,
                      Goto, loopVars
  <2>3. QED
    BY <2>1, <2>2
<1>3. ASSUME NEW g \in Instances, SeeReady(g) \/ EndStartup(g) \/ ChildExit(g) PROVE TargetFound'
  BY <1>t, <1>3 DEF SeeReady, EndStartup, ChildExit, Goto, loopVars
<1>4. ASSUME NEW g \in Instances, DeployStep(g) PROVE TargetFound'
  BY <1>t, <1>4 DEF DeployStep, Stash, BeginDeploy, DeployStepFails, SelfDeployed, DeployRestarts, DeployRestartFails,
                    EndDeploy, Goto
<1>5. ASSUME NEW g \in Instances, TakeDone(g) \/ AfterDrain(g) \/ Forward(g) \/ Chase(g) PROVE TargetFound'
  BY <1>t, <1>5 DEF TakeDone, AfterDrain, Forward, Chase, Goto
<1>6. ASSUME NEW g \in Instances, Found(g) \/ Enqueue(g) PROVE TargetFound'
  BY <1>t, <1>6 DEF Found, Enqueue, Goto
<1>7. CASE ReloadStep
  <2>1. UNCHANGED fwdTo
    BY <1>7, ReloadAlone
  <2>2. \A h \in Instances : pc'[h] = "enqueue" => pc[h] = "enqueue"
    BY <1>t, <1>7 DEF ReloadStep, ReloadBegin, ReloadSend, ReloadGone, ReloadReply, ReloadSwap, ReloadCreate, Build,
                      ReloadDelete, ReloadCancel, ReloadStart, Goto, loopVars
  <2>3. QED
    BY <2>1, <2>2
<1>8. ASSUME NEW r \in Requests, Request(r) PROVE TargetFound'
  BY <1>8 DEF Request, loopVars
<1>9. CASE StopReturns \/ SignalReady \/ Cancel
  BY <1>9 DEF StopReturns, SignalReady, Cancel, loopVars
<1>10. QED
  BY <1>1, <1>2, <1>3, <1>4, <1>5, <1>6, <1>7, <1>8, <1>9
  DEF Next, SystemStep, EnvironmentStep, LoopStep, ExitStep

\* A request goes from place to place, or ends.
LEMMA HeldStep == ASSUME TypeOK, TargetFound, HeldOnce, Next PROVE HeldOnce'
<1> USE DEF HeldOnce, Held
<1>t. /\ deployCh \in [Instances -> SUBSET Requests] /\ fwd \in [Instances -> SUBSET Requests]
      /\ req \in [Requests -> {"idle", "queued", "started", "reported", "refused", "dropped"}]
      /\ services \in Instances \cup {NoInst}
  BY DEF TypeOK, TypeQueues, TypeLoops, TypeRequests, TypeManager
<1>1. ASSUME NEW g \in Instances, Stash(g) PROVE HeldOnce'
  BY <1>t, <1>1 DEF Stash, DeployReceived, LeftOver, reqVars
<1>2. ASSUME NEW g \in Instances, BeginDeploy(g) PROVE HeldOnce'
  BY <1>t, <1>2 DEF BeginDeploy, DeployReceived, Resolve
<1>3. ASSUME NEW g \in Instances, AfterDrain(g) PROVE HeldOnce'
  BY <1>t, <1>3 DEF AfterDrain, LeftOver, Resolve
<1>4. ASSUME NEW g \in Instances, Found(g) PROVE HeldOnce'
  BY <1>t, <1>4 DEF Found, Resolve, chanVars
<1>5. ASSUME NEW g \in Instances, Enqueue(g) PROVE HeldOnce'
  BY <1>t, <1>5 DEF Enqueue, EnqueueDeploy, TargetFound, reqVars
<1>6. ASSUME NEW r \in Requests, Request(r) PROVE HeldOnce'
  BY <1>t, <1>6 DEF Request, EnqueueDeploy, loopVars
<1>7. CASE UNCHANGED deployState
  BY <1>7 DEF deployState
<1>8. QED
  BY <1>1, <1>2, <1>3, <1>4, <1>5, <1>6, <1>7, DeploysAlone DEF DeploySteps

LEMMA HeldInvariant == Spec => [](TargetFound /\ HeldOnce)
<1>1. Init => TargetFound /\ HeldOnce
  BY DEF Init, InitAbsent, InitService, TargetFound, HeldOnce, Held
<1>2. TypeOK /\ TargetFound /\ HeldOnce /\ [Next]_vars => TargetFound' /\ HeldOnce'
  <2>1. UNCHANGED vars /\ TargetFound /\ HeldOnce => TargetFound' /\ HeldOnce'
    BY DEF vars, chanVars, loopVars, reqVars, TargetFound, HeldOnce, Held
  <2>2. QED
    BY <2>1, TargetStep, HeldStep
<1>3. QED
  BY <1>1, <1>2, TypeCorrect, PTL DEF Spec

(* A deploy that was accepted is in exactly one place until it starts or   *)
(* is reported, and nowhere afterwards (enqueueDeploy, forwardDeploy).     *)
THEOREM DeployInOnePlace == Spec => []EachRequestInOnePlace
<1>1. HeldOnce => EachRequestInOnePlace
  <2> SUFFICES ASSUME HeldOnce, NEW r \in Requests
               PROVE  /\ req[r] = "queued" => Cardinality(HeldBy(r)) = 1
                      /\ req[r] # "queued" => HeldBy(r) = {}
                      /\ \A g \in Instances : ~(r \in deployCh[g] /\ r \in fwd[g])
    BY DEF EachRequestInOnePlace
  <2>1. ASSUME req[r] = "queued" PROVE Cardinality(HeldBy(r)) = 1
    <3>1. PICK g \in Instances : Held(r, g)
      BY <2>1 DEF HeldOnce
    <3>2. HeldBy(r) = {g}
      BY <3>1 DEF HeldOnce, HeldBy, Held
    <3>3. QED
      BY <3>2, FS_Singleton
  <2>2. QED
    BY <2>1 DEF HeldOnce, HeldBy, Held
<1>2. QED
  BY <1>1, HeldInvariant, PTL

-----------------------------------------------------------------------------
(* The lineage.                                                            *)

Closed(S) == \A h \in S, k \in Instances : Replaces(k, h) => k \in S

\* g is i or replaced it, perhaps with others in between.
Descends(g, i) == \A S \in SUBSET Instances : i \in S /\ Closed(S) => g \in S

\* Only a service that was replaced has a successor, and its replacement is built.
SuccessorsFresh ==
  \A g \in Instances : successor[g] # NoInst => services # g /\ retired[g]

\* Deploys are held by descendants, and descendants are where a loop looks.
InLineage ==
  /\ \A r \in Requests, g \in Instances : Held(r, g) => Descends(g, reqOn[r])
  /\ \A g \in Instances : pc[g] \in {"chase", "found", "enqueue"} /\ fwdTo[g] # NoInst => Descends(fwdTo[g], g)

LEMMA DescendsTrans ==
  ASSUME NEW g, NEW h, NEW i, Descends(h, g), Descends(g, i)
  PROVE  Descends(h, i)
BY DEF Descends

LEMMA DescendsNext ==
  ASSUME NEW g \in Instances, NEW h, Descends(g, h), successor[g] \in Instances
  PROVE  Descends(successor[g], h)
BY DEF Descends, Closed, Replaces

LEMMA DescendsSelf == \A g : Descends(g, g)
BY DEF Descends

\* A new link is added, none is taken away.
LEMMA SuccessorStep ==
  ASSUME CoreInv, SuccessorsFresh, Next
  PROVE  SuccessorsFresh' /\ \A g \in Instances : successor[g] # NoInst => successor'[g] = successor[g]
<1> USE DEF SuccessorsFresh
<1>t. successor \in [Instances -> Instances \cup {NoInst}] /\ NoInst \notin Instances
  BY InstancesAssumption DEF CoreInv, TypeOK, TypeServices
<1>r. \A g \in Instances : retired[g] => retired'[g]
  BY RetiredForever DEF CoreInv
<1>1. CASE UNCHANGED <<successor, services>>
  BY <1>1, <1>r
<1>2. ASSUME NEW g \in Instances, ReloadSwap(g)
      PROVE  SuccessorsFresh' /\ \A h \in Instances : successor[h] # NoInst => successor'[h] = successor[h]
  <2>1. rold \in Instances /\ services = rold /\ retired[rold]
    BY <1>2 DEF ReloadSwap, CoreInv, ReloadOwnsOld
  <2>2. successor' = [successor EXCEPT ![rold] = g] /\ services' = g /\ pc[g] = "none"
    BY <1>2 DEF ReloadSwap, Build
  <2>3. successor[rold] = NoInst /\ ~retired[g]
    BY <2>1, <2>2 DEF CoreInv, CurrentOrRetired
  <2>4. QED
    BY <1>t, <1>r, <2>1, <2>2, <2>3
<1>3. ASSUME NEW g \in Instances, ReloadCreate(g)
      PROVE  SuccessorsFresh' /\ UNCHANGED successor
  <2>1. UNCHANGED successor /\ services' = g /\ ~retired[g]
    BY <1>3 DEF ReloadCreate, Build, CoreInv, CurrentOrRetired
  <2>2. QED
    BY <1>r, <2>1
<1>4. CASE ReloadDelete
  BY <1>t, <1>r, <1>4 DEF ReloadDelete, msVars
<1>5. CASE ReloadStep
  <2>1. ASSUME NEW x, NEW c, ReloadBegin(x, c) PROVE UNCHANGED <<successor, services>>
    BY <2>1 DEF ReloadBegin, mgrVars, msVars
  <2>2. CASE ReloadSend \/ ReloadGone \/ ReloadReply \/ ReloadCancel \/ ReloadStart
    BY <1>1, <2>2 DEF ReloadSend, ReloadGone, ReloadReply, ReloadCancel, ReloadStart, mgrVars, msVars
  <2>3. QED
    BY <1>1, <1>2, <1>3, <1>4, <1>5, <2>1, <2>2 DEF ReloadStep
<1>6. ASSUME NEW c \in Callers, CallerStep(c) PROVE UNCHANGED <<successor, services>>
  BY <1>6, CallersAlone DEF mgrVars, msVars
<1>7. ASSUME NEW g \in Instances, OpStep(g) PROVE UNCHANGED <<successor, services>>
  BY <1>7, OpsAlone DEF mgrVars
<1>8. ASSUME NEW g \in Instances, SeeReady(g) \/ EndStartup(g) \/ ChildExit(g) PROVE UNCHANGED <<successor, services>>
  BY <1>8 DEF SeeReady, EndStartup, ChildExit, mgrVars
<1>9. ASSUME NEW g \in Instances, DeployStep(g) PROVE UNCHANGED <<successor, services>>
  BY <1>9 DEF DeployStep, Stash, BeginDeploy, DeployStepFails, SelfDeployed, DeployRestarts, DeployRestartFails,
              EndDeploy, mgrVars, msVars
<1>10. ASSUME NEW g \in Instances, ExitStep(g) PROVE UNCHANGED <<successor, services>>
  BY <1>10 DEF ExitStep, TakeDone, AfterDrain, Forward, Chase, Found, Enqueue, mgrVars, msVars
<1>11. ASSUME NEW r \in Requests, Request(r) PROVE UNCHANGED <<successor, services>>
  BY <1>11 DEF Request, mgrVars
<1>12. CASE StopReturns \/ SignalReady \/ Cancel
  BY <1>1, <1>12 DEF StopReturns, SignalReady, Cancel, msVars
<1>13. QED
  BY <1>1, <1>5, <1>6, <1>7, <1>8, <1>9, <1>10, <1>11, <1>12 DEF Next, SystemStep, EnvironmentStep, LoopStep

\* So descendants stay descendants.
LEMMA DescendsKept ==
  ASSUME CoreInv, SuccessorsFresh, Next, NEW g, NEW i, Descends(g, i)
  PROVE  Descends(g, i)'
<1>1. \A S \in SUBSET Instances : Closed(S)' => Closed(S)
  BY SuccessorStep, InstancesAssumption DEF Closed, Replaces
<1>2. QED
  BY <1>1 DEF Descends

\* The targets.
LEMMA LookStep ==
  ASSUME CoreInv, SuccessorsFresh, InLineage, Next
  PROVE  \A g \in Instances :
           pc'[g] \in {"chase", "found", "enqueue"} /\ fwdTo'[g] # NoInst => Descends(fwdTo'[g], g)
<1> DEFINE Look == \A g \in Instances :
                     pc'[g] \in {"chase", "found", "enqueue"} /\ fwdTo'[g] # NoInst => Descends(fwdTo'[g], g)
<1>t. /\ pc \in [Instances -> LoopPcs] /\ fwdTo \in [Instances -> Instances \cup {NoInst}]
      /\ successor \in [Instances -> Instances \cup {NoInst}] /\ NoInst \notin Instances
  BY InstancesAssumption DEF CoreInv, TypeOK, TypeLoops, TypeServices
<1>i. \A g \in Instances : pc[g] \in {"chase", "found", "enqueue"} /\ fwdTo[g] # NoInst => Descends(fwdTo[g], g)
  BY DEF InLineage
<1>0. ASSUME UNCHANGED fwdTo,
             \A h \in Instances : pc'[h] \in {"chase", "found", "enqueue"} => pc[h] \in {"chase", "found", "enqueue"}
      PROVE  Look
  BY <1>0, <1>i
<1>1. ASSUME NEW c \in Callers, CallerStep(c) PROVE Look
  BY <1>0, <1>1, CallersAlone DEF loopVars
<1>2. ASSUME NEW g \in Instances, OpStep(g) PROVE Look
  <2>1. UNCHANGED fwdTo
    BY <1>2, OpsAlone
  <2>2. \A h \in Instances : pc'[h] \in {"chase", "found", "enqueue"} => pc[h] \in {"chase", "found", "enqueue"}
    BY <1>t, <1>2 DEF OpStep, RefuseOp, BeginOp, EndQuery, EndStart, EndStop, EndRestart, EndInternalStop, Reply,
                      Goto, loopVars
  <2>3. QED
    BY <1>0, <2>1, <2>2
<1>3. ASSUME NEW g \in Instances, SeeReady(g) \/ EndStartup(g) \/ ChildExit(g) PROVE Look
  BY <1>t, <1>0, <1>3 DEF SeeReady, EndStartup, ChildExit, Goto, loopVars
<1>4. ASSUME NEW g \in Instances, DeployStep(g) PROVE Look
  <2>1. UNCHANGED fwdTo
    BY <1>4 DEF DeployStep, Stash, BeginDeploy, DeployStepFails, SelfDeployed, DeployRestarts, DeployRestartFails,
                EndDeploy
  <2>2. \A h \in Instances : pc'[h] \in {"chase", "found", "enqueue"} => pc[h] \in {"chase", "found", "enqueue"}
    BY <1>t, <1>4 DEF DeployStep, Stash, BeginDeploy, DeployStepFails, SelfDeployed, DeployRestarts,
                      DeployRestartFails, EndDeploy, Goto
  <2>3. QED
    BY <1>0, <2>1, <2>2
<1>5. ASSUME NEW g \in Instances, TakeDone(g) \/ AfterDrain(g) \/ Found(g) \/ Enqueue(g) PROVE Look
  BY <1>t, <1>0, <1>5 DEF TakeDone, AfterDrain, Found, Enqueue, Goto
<1>6. ASSUME NEW g \in Instances, Forward(g) PROVE Look
  <2>1. fwdTo' = [fwdTo EXCEPT ![g] = successor[g]] /\ pc' = [pc EXCEPT ![g] = "chase"]
    BY <1>6 DEF Forward, FirstTarget, Goto
  <2>2. successor[g] # NoInst => Descends(successor[g], g)
    BY <1>t, DescendsSelf, DescendsNext
  <2>3. QED
    BY <1>t, <1>i, <2>1, <2>2
<1>7. ASSUME NEW g \in Instances, Chase(g) PROVE Look
  <2>1. CASE UNCHANGED fwdTo
    BY <1>t, <1>0, <1>7, <2>1 DEF Chase, Goto
  <2>2. CASE /\ fwdTo[g] # NoInst /\ successor[fwdTo[g]] # NoInst
             /\ fwdTo' = [fwdTo EXCEPT ![g] = successor[fwdTo[g]]] /\ UNCHANGED pc
    <3>1. Descends(fwdTo[g], g)
      BY <1>7, <1>i, <2>2 DEF Chase
    <3>2. Descends(successor[fwdTo[g]], g)
      BY <1>t, <2>2, <3>1, DescendsNext
    <3>3. QED
      BY <1>t, <1>i, <2>2, <3>2
  <2>3. QED
    BY <1>7, <2>1, <2>2 DEF Chase
<1>8. CASE ReloadStep
  <2>1. UNCHANGED fwdTo
    BY <1>8, ReloadAlone
  <2>2. \A h \in Instances : pc'[h] \in {"chase", "found", "enqueue"} => pc[h] \in {"chase", "found", "enqueue"}
    BY <1>t, <1>8 DEF ReloadStep, ReloadBegin, ReloadSend, ReloadGone, ReloadReply, ReloadSwap, ReloadCreate, Build,
                      ReloadDelete, ReloadCancel, ReloadStart, Goto, loopVars
  <2>3. QED
    BY <1>0, <2>1, <2>2
<1>9. ASSUME NEW r \in Requests, Request(r) PROVE Look
  BY <1>0, <1>9 DEF Request, loopVars
<1>10. CASE StopReturns \/ SignalReady \/ Cancel
  BY <1>0, <1>10 DEF StopReturns, SignalReady, Cancel, loopVars
<1>11. QED
  BY <1>1, <1>2, <1>3, <1>4, <1>5, <1>6, <1>7, <1>8, <1>9, <1>10
  DEF Next, SystemStep, EnvironmentStep, LoopStep, ExitStep

\* The holders, by the links as they were.
LEMMA HolderStep ==
  ASSUME CoreInv, TargetFound, HeldOnce, InLineage, Next
  PROVE  \A r \in Requests, g \in Instances : Held(r, g)' => Descends(g, reqOn'[r])
<1> DEFINE Hold == \A r \in Requests, g \in Instances : Held(r, g)' => Descends(g, reqOn'[r])
<1>t. /\ deployCh \in [Instances -> SUBSET Requests] /\ fwd \in [Instances -> SUBSET Requests]
      /\ services \in Instances \cup {NoInst} /\ reqOn \in [Requests -> Instances \cup {NoInst}]
  BY DEF CoreInv, TypeOK, TypeQueues, TypeLoops, TypeManager, TypeRequests
<1>i. \A r \in Requests, g \in Instances : Held(r, g) => Descends(g, reqOn[r])
  BY DEF InLineage
<1>0. ASSUME UNCHANGED reqOn, \A r \in Requests, g \in Instances : Held(r, g)' => Held(r, g) PROVE Hold
  BY <1>0, <1>i
<1>1. ASSUME NEW g \in Instances, Stash(g) \/ BeginDeploy(g) PROVE Hold
  BY <1>t, <1>0, <1>1 DEF Stash, BeginDeploy, DeployReceived, LeftOver, Held, reqVars
<1>2. ASSUME NEW g \in Instances, AfterDrain(g) \/ Found(g) PROVE Hold
  BY <1>t, <1>0, <1>2 DEF AfterDrain, Found, LeftOver, Held, chanVars
<1>3. ASSUME NEW g \in Instances, Enqueue(g) PROVE Hold
  <2>1. /\ fwdTo[g] \in Instances /\ UNCHANGED reqOn
        /\ deployCh' = [deployCh EXCEPT ![fwdTo[g]] = @ \cup fwd[g]] /\ fwd' = [fwd EXCEPT ![g] = {}]
    BY <1>3 DEF Enqueue, EnqueueDeploy, TargetFound, reqVars
  <2>2. Descends(fwdTo[g], g)
    BY <1>3, <2>1, InstancesAssumption DEF Enqueue, InLineage
  <2>3. ASSUME NEW r \in Requests, NEW h \in Instances, Held(r, h)'
        PROVE  Held(r, h) \/ (Held(r, g) /\ h = fwdTo[g])
    BY <1>t, <2>1, <2>3 DEF Held
  <2>4. QED
    BY <1>i, <2>1, <2>2, <2>3, DescendsTrans
<1>4. ASSUME NEW r \in Requests, Request(r) PROVE Hold
  <2>1. CASE services = NoInst
    BY <1>0, <1>4, <2>1 DEF Request, Held, loopVars
  <2>2. CASE services # NoInst
    <3>1. /\ deployCh' = [deployCh EXCEPT ![services] = @ \cup {r}] /\ UNCHANGED fwd
          /\ reqOn' = [reqOn EXCEPT ![r] = services] /\ req[r] = "idle"
      BY <1>4, <2>2 DEF Request, EnqueueDeploy, loopVars
    <3>2. \A g \in Instances : ~Held(r, g)
      BY <3>1 DEF HeldOnce
    <3>3. ASSUME NEW q \in Requests, NEW g \in Instances, Held(q, g)'
          PROVE  IF q = r THEN g = services ELSE Held(q, g)
      BY <1>t, <2>2, <3>1, <3>2, <3>3 DEF Held
    <3>4. QED
      BY <1>t, <1>i, <3>1, <3>3, DescendsSelf
  <2>3. QED
    BY <2>1, <2>2
<1>5. CASE UNCHANGED deployState
  BY <1>0, <1>5 DEF deployState, Held
<1>6. QED
  BY <1>1, <1>2, <1>3, <1>4, <1>5, DeploysAlone DEF DeploySteps

LEMMA LineageInvariant == Spec => [](SuccessorsFresh /\ InLineage)
<1>1. Init => SuccessorsFresh /\ InLineage
  BY DEF Init, InitAbsent, InitService, SuccessorsFresh, InLineage, Held
<1>2. CoreInv /\ TargetFound /\ HeldOnce /\ SuccessorsFresh /\ InLineage /\ [Next]_vars
        => SuccessorsFresh' /\ InLineage'
  <2>1. ASSUME UNCHANGED vars, SuccessorsFresh, InLineage PROVE SuccessorsFresh' /\ InLineage'
    <3>1. UNCHANGED <<successor, services, retired, deployCh, fwd, reqOn, pc, fwdTo>>
      BY <2>1 DEF vars, mgrVars, msVars, chanVars, loopVars, reqVars
    <3>2. QED
      BY <2>1, <3>1 DEF SuccessorsFresh, InLineage, Held, Descends, Closed, Replaces
  <2>2. ASSUME CoreInv, TargetFound, HeldOnce, SuccessorsFresh, InLineage, Next PROVE SuccessorsFresh' /\ InLineage'
    <3>1. SuccessorsFresh'
      BY <2>2, SuccessorStep
    <3>2. \A g, i : Descends(g, i) => Descends(g, i)'
      BY <2>2, DescendsKept
    <3>3. InLineage'
      BY <2>2, <3>2, LookStep, HolderStep DEF InLineage
    <3>4. QED
      BY <3>1, <3>3
  <2>3. QED
    BY <2>1, <2>2
<1>3. QED
  BY <1>1, <1>2, CoreInvariant, HeldInvariant, PTL DEF Spec

(* A deploy only moves to services that replaced the one it was requested  *)
(* for (forwardDeploy).                                                    *)
THEOREM DeployKeepsLineage == Spec => []DeployStaysInLineage
<1>1. InLineage => DeployStaysInLineage
  BY DEF InLineage, DeployStaysInLineage, HeldBy, Held, Descends, Closed
<1>2. QED
  BY <1>1, LineageInvariant, PTL

-----------------------------------------------------------------------------
(* The status that is shown.                                               *)

Leaving == {"drained", "forward", "chase", "found", "enqueue", "exited"}

\* A loop leaves its select for good when it is replaced or the manager stops.
LeavesReplaced ==
  /\ \A g \in Instances : cancelled[g] => retired[g] /\ services # g
  /\ rpc = "cancel" => services # rold
  /\ \A g \in Instances : pc[g] \in Leaving => cancelled[g] \/ mgr # "up"

CarriesSome == \A g \in Instances : pc[g] \in {"forward", "chase", "found", "enqueue"} => fwd[g] # {}

\* As DeployingMeansPending, for every service that was not replaced.
ShownPending ==
  \A g \in Instances :
    status[g] = "deploying" /\ mgr = "up" =>
      deployCh[g] # {} \/ fwd[g] # {} \/ pc[g] = "deploy" \/ cancelled[g]

ShownInv == LeavesReplaced /\ CarriesSome /\ ShownPending

LEMMA ShownStep == ASSUME CoreInv, TargetFound, ShownInv, Next PROVE ShownInv'
<1> USE DEF ShownInv, LeavesReplaced, CarriesSome, ShownPending, Leaving
<1>t. /\ pc \in [Instances -> LoopPcs] /\ cancelled \in [Instances -> BOOLEAN] /\ retired \in [Instances -> BOOLEAN]
      /\ deployCh \in [Instances -> SUBSET Requests] /\ fwd \in [Instances -> SUBSET Requests]
      /\ status \in [Instances -> {"idle", "deploying", "failed", "running"}]
      /\ services \in Instances \cup {NoInst} /\ NoInst \notin Instances
      /\ mgr \in {"up", "cancelled", "stopped"}
  BY InstancesAssumption DEF CoreInv, TypeOK, TypeManager, TypeServices, TypeQueues, TypeLoops
<1>r. \A g \in Instances : retired[g] => retired'[g]
  BY RetiredForever DEF CoreInv
<1>1. ASSUME NEW c \in Callers, CallerStep(c) PROVE ShownInv'
  BY <1>1, CallersAlone DEF mgrVars, msVars, loopVars, reloadVars
<1>2. ASSUME NEW g \in Instances, OpStep(g) PROVE ShownInv'
  <2>1. UNCHANGED <<services, mgr, cancelled, status, deployCh, fwd>>
    BY <1>2, OpsAlone DEF mgrVars
  <2>2. UNCHANGED <<rpc, rold>>
    BY <1>2 DEF OpStep, RefuseOp, BeginOp, EndQuery, EndStart, EndStop, EndRestart, EndOpFrame, EndInternalStop,
                reloadVars
  <2>3. \A h \in Instances : pc'[h] \in Leaving \cup {"deploy"} <=> pc[h] \in Leaving \cup {"deploy"}
    BY <1>t, <1>2 DEF OpStep, RefuseOp, BeginOp, EndQuery, EndStart, EndStop, EndRestart, EndInternalStop, Handling,
                      Reply, Goto, loopVars
  <2>4. \A h \in Instances : pc'[h] = pc[h] \/ pc'[h] \notin Leaving \cup {"deploy"}
    BY <1>t, <1>2 DEF OpStep, RefuseOp, BeginOp, EndQuery, EndStart, EndStop, EndRestart, EndInternalStop,
                      Reply, Goto, loopVars
  <2>5. QED
    BY <1>r, <2>1, <2>2, <2>3, <2>4
<1>3. ASSUME NEW g \in Instances, SeeReady(g) \/ EndStartup(g) \/ ChildExit(g) PROVE ShownInv'
  BY <1>t, <1>3 DEF SeeReady, EndStartup, ChildExit, Goto, mgrVars, chanVars, loopVars, reloadVars
<1>4. ASSUME NEW g \in Instances, Stash(g) PROVE ShownInv'
  BY <1>t, <1>4 DEF Stash, DeployReceived, LeftOver, mgrVars, msVars, reloadVars
<1>5. ASSUME NEW g \in Instances, BeginDeploy(g) PROVE ShownInv'
  BY <1>t, <1>5 DEF BeginDeploy, DeployReceived, Goto, mgrVars, reloadVars
<1>6. ASSUME NEW g \in Instances, NEW s \in {"failed", "running"}, EndDeploy(g, s) PROVE ShownInv'
  BY <1>t, <1>6 DEF EndDeploy, Goto, chanVars, reloadVars
<1>7. ASSUME NEW g \in Instances, TakeDone(g) PROVE ShownInv'
  BY <1>t, <1>7 DEF TakeDone, Done, Goto, mgrVars, msVars, reloadVars
<1>8. ASSUME NEW g \in Instances, AfterDrain(g) PROVE ShownInv'
  BY <1>t, <1>8 DEF AfterDrain, LeftOver, Goto, mgrVars, msVars, reloadVars
<1>9. ASSUME NEW g \in Instances, Forward(g) \/ Chase(g) PROVE ShownInv'
  BY <1>t, <1>9 DEF Forward, Chase, Goto, mgrVars, msVars, chanVars, reloadVars
<1>10. ASSUME NEW g \in Instances, Found(g) PROVE ShownInv'
  BY <1>t, <1>10 DEF Found, Goto, mgrVars, msVars, chanVars, reloadVars
<1>11. ASSUME NEW g \in Instances, Enqueue(g) PROVE ShownInv'
  <2>1. fwdTo[g] \in Instances /\ fwd[g] # {} /\ pc[g] = "enqueue"
    BY <1>11 DEF Enqueue, TargetFound
  <2>2. QED
    BY <1>t, <1>11, <2>1 DEF Enqueue, EnqueueDeploy, Goto, mgrVars, reloadVars
<1>12. ASSUME NEW r \in Requests, Request(r) PROVE ShownInv'
  BY <1>t, <1>12 DEF Request, EnqueueDeploy, mgrVars, loopVars, reloadVars
<1>13. CASE StopReturns \/ SignalReady \/ Cancel
  BY <1>t, <1>13 DEF StopReturns, SignalReady, Cancel, msVars, chanVars, loopVars, reloadVars
<1>14. CASE ReloadStep
  <2>a. UNCHANGED <<mgr, status, deployCh, fwd>>
    BY <1>14, ReloadAlone
  <2>1. ASSUME NEW x \in Reloads, NEW c, ReloadBegin(x, c) PROVE ShownInv'
    BY <1>t, <2>a, <2>1 DEF ReloadBegin, Finish, mgrVars, msVars, loopVars
  <2>2. CASE ReloadSend \/ ReloadGone \/ ReloadReply
    <3>1. UNCHANGED <<services, cancelled, pc, retired>> /\ (rpc' = "cancel" => FALSE)
      BY <2>2 DEF ReloadSend, ReloadGone, ReloadReply, Finish, mgrVars, msVars, loopVars, CoreInv, TypeOK, TypeReload
    <3>2. QED
      BY <2>a, <3>1
  <2>3. ASSUME NEW g \in Instances, ReloadSwap(g) PROVE ShownInv'
    <3>1. services' = g /\ pc[g] = "none" /\ pc' = [pc EXCEPT ![g] = "built"] /\ UNCHANGED <<cancelled, rold, retired>>
      BY <2>3 DEF ReloadSwap, Build, Goto
    <3>2. ~retired[g] /\ retired[rold]
      BY <2>3, <3>1 DEF ReloadSwap, CoreInv, CurrentOrRetired, ReloadOwnsOld
    <3>3. QED
      BY <1>t, <2>a, <3>1, <3>2
  <2>4. ASSUME NEW g \in Instances, ReloadCreate(g) PROVE ShownInv'
    <3>1. /\ services' = g /\ pc[g] = "none" /\ pc' = [pc EXCEPT ![g] = "built"] /\ UNCHANGED <<cancelled, retired>>
          /\ rpc' = "start"
      BY <2>4 DEF ReloadCreate, Build, Goto
    <3>2. ~retired[g]
      BY <3>1 DEF CoreInv, CurrentOrRetired
    <3>3. QED
      BY <1>t, <2>a, <3>1, <3>2
  <2>5. CASE ReloadDelete
    <3>1. services' = NoInst /\ rold \in Instances /\ UNCHANGED <<cancelled, retired, pc, rold>>
      BY <2>5 DEF ReloadDelete, msVars, loopVars, CoreInv, ReloadOwnsOld
    <3>2. QED
      BY <1>t, <2>a, <3>1
  <2>6. CASE ReloadCancel
    <3>1. /\ cancelled' = [cancelled EXCEPT ![rold] = TRUE] /\ UNCHANGED <<services, retired, pc>> /\ rpc' # "cancel"
          /\ retired[rold] /\ services # rold
      BY <2>6 DEF ReloadCancel, Finish, mgrVars, loopVars, CoreInv, ReloadOwnsOld
    <3>2. QED
      BY <1>t, <2>a, <3>1
  <2>7. CASE ReloadStart
    <3>1. UNCHANGED <<services, cancelled, retired>> /\ rpc' = "idle"
      BY <2>7 DEF ReloadStart, Finish, mgrVars, msVars
    <3>2. /\ pc' = [pc EXCEPT ![rnew] = "select"] /\ rnew \in Instances /\ pc[rnew] = "built"
      BY <2>7 DEF ReloadStart, Goto, CoreInv, ReloadOwnsOld
    <3>3. QED
      BY <1>t, <2>a, <3>1, <3>2
  <2>8. QED
    BY <1>14, <2>1, <2>2, <2>3, <2>4, <2>5, <2>6, <2>7 DEF ReloadStep
<1>15. QED
  BY <1>1, <1>2, <1>3, <1>4, <1>5, <1>6, <1>7, <1>8, <1>9, <1>10, <1>11, <1>12, <1>13, <1>14
  DEF Next, SystemStep, EnvironmentStep, LoopStep, ExitStep, DeployStep, DeployStepFails, SelfDeployed,
      DeployRestarts, DeployRestartFails

LEMMA ShownInvariant == Spec => []ShownInv
<1>1. Init => ShownInv
  BY DEF Init, InitAbsent, InitService, ShownInv, LeavesReplaced, CarriesSome, ShownPending, Leaving
<1>2. CoreInv /\ TargetFound /\ ShownInv /\ [Next]_vars => ShownInv'
  <2>1. ASSUME UNCHANGED vars, ShownInv PROVE ShownInv'
    BY <2>1 DEF vars, mgrVars, msVars, chanVars, loopVars, reloadVars, ShownInv, LeavesReplaced, CarriesSome,
                ShownPending
  <2>2. QED
    BY <2>1, ShownStep
<1>3. QED
  BY <1>1, <1>2, CoreInvariant, HeldInvariant, PTL DEF Spec

(* "deploying" does not stick: while it is shown for the service in place, *)
(* a deploy is queued, set aside or running (executeDeploy, forwardDeploy).*)
THEOREM DeployingNeverSticks == Spec => []DeployingMeansPending
<1>1. ShownInv => DeployingMeansPending
  BY DEF ShownInv, LeavesReplaced, ShownPending, DeployingMeansPending
<1>2. QED
  BY <1>1, ShownInvariant, PTL
-----------------------------------------------------------------------------
(* What may be left behind.                                                *)

\* Only Reload cancels a generation or links it to another.
LEMMA LinksAlone ==
  ASSUME Next
  PROVE  /\ ReloadCancel \/ UNCHANGED cancelled
         /\ (\E g \in Instances : ReloadSwap(g)) \/ UNCHANGED successor
<1>1. ASSUME NEW c \in Callers, CallerStep(c) PROVE UNCHANGED <<cancelled, successor>>
  BY <1>1, CallersAlone DEF msVars
<1>2. ASSUME NEW g \in Instances, OpStep(g) PROVE UNCHANGED <<cancelled, successor>>
  BY <1>2, OpsAlone
<1>3. ASSUME NEW g \in Instances, SeeReady(g) \/ EndStartup(g) \/ ChildExit(g) PROVE UNCHANGED <<cancelled, successor>>
  BY <1>3 DEF SeeReady, EndStartup, ChildExit
<1>4. ASSUME NEW g \in Instances, DeployStep(g) PROVE UNCHANGED <<cancelled, successor>>
  BY <1>4 DEF DeployStep, Stash, BeginDeploy, DeployStepFails, SelfDeployed, DeployRestarts, DeployRestartFails,
              EndDeploy, msVars
<1>5. ASSUME NEW g \in Instances, ExitStep(g) PROVE UNCHANGED <<cancelled, successor>>
  BY <1>5 DEF ExitStep, TakeDone, AfterDrain, Forward, Chase, Found, Enqueue, msVars
<1>6. ASSUME NEW g \in Instances, ReloadSwap(g) PROVE UNCHANGED cancelled
  BY <1>6 DEF ReloadSwap
<1>7. CASE ReloadCancel
  BY <1>7 DEF ReloadCancel
<1>8. CASE ReloadStep /\ ~ReloadCancel /\ \A g \in Instances : ~ReloadSwap(g)
  BY <1>8 DEF ReloadStep, ReloadBegin, ReloadSend, ReloadGone, ReloadReply, ReloadDelete, ReloadCreate,
              ReloadStart, msVars
<1>9. CASE StopReturns \/ EnvironmentStep
  BY <1>3, <1>9 DEF StopReturns, EnvironmentStep, Request, SignalReady, Cancel, msVars
<1>10. QED
  BY <1>1, <1>2, <1>3, <1>4, <1>5, <1>6, <1>7, <1>8, <1>9 DEF Next, SystemStep, LoopStep

LEMMA CancelledStays ==
  ASSUME TypeOK, Next, NEW g \in Instances, cancelled[g]
  PROVE  cancelled'[g]
BY LinksAlone DEF ReloadCancel, TypeOK, TypeServices

\* The manager does not come back.
LEMMA ManagerStays == ASSUME Next, mgr' = "up" PROVE mgr = "up"
<1>1. ASSUME NEW c \in Callers, CallerStep(c) PROVE UNCHANGED mgr
  BY <1>1, CallersAlone DEF mgrVars
<1>2. ASSUME NEW g \in Instances, OpStep(g) PROVE UNCHANGED mgr
  BY <1>2, OpsAlone DEF mgrVars
<1>3. ASSUME NEW g \in Instances, SeeReady(g) \/ EndStartup(g) \/ ChildExit(g) PROVE UNCHANGED mgr
  BY <1>3 DEF SeeReady, EndStartup, ChildExit, mgrVars
<1>4. ASSUME NEW g \in Instances, DeployStep(g) PROVE UNCHANGED mgr
  BY <1>4 DEF DeployStep, Stash, BeginDeploy, DeployStepFails, SelfDeployed, DeployRestarts, DeployRestartFails,
              EndDeploy, mgrVars
<1>5. ASSUME NEW g \in Instances, ExitStep(g) PROVE UNCHANGED mgr
  BY <1>5 DEF ExitStep, TakeDone, AfterDrain, Forward, Chase, Found, Enqueue, mgrVars
<1>6. CASE ReloadStep
  BY <1>6, ReloadAlone
<1>7. CASE StopReturns \/ EnvironmentStep
  BY <1>3, <1>7 DEF StopReturns, EnvironmentStep, Request, SignalReady, Cancel, mgrVars
<1>8. QED
  BY <1>1, <1>2, <1>3, <1>4, <1>5, <1>6, <1>7 DEF Next, SystemStep, LoopStep

\* g replaced a generation whose context is done.
Replacement(g) == \E h \in Instances \ {g} : successor[h] = g /\ cancelled[h]

\* A loop on its way out has only been given a deploy by the one it replaced,
\* and only gives one to such a replacement.
StrandInv ==
  mgr = "up" =>
    \A g \in Instances :
      /\ pc[g] \in Leaving \ {"drained"} /\ deployCh[g] # {} => Replacement(g)
      /\ pc[g] \in {"chase", "found", "enqueue"} /\ fwdTo[g] # NoInst => Replacement(fwdTo[g])

\* A generation is not its own successor.
NoLoop == \A g \in Instances : successor[g] # g

\* What StrandInv looks at, apart from the loops.
LEMMA ReplacementKept ==
  ASSUME CoreInv, SuccessorsFresh, ShownInv, Next, NEW g \in Instances, Replacement(g)
  PROVE  Replacement(g)'
<1>1. PICK h \in Instances \ {g} : successor[h] = g /\ cancelled[h]
  BY DEF Replacement
<1>2. successor'[h] = g
  BY <1>1, SuccessorStep, InstancesAssumption
<1>3. cancelled'[h]
  BY <1>1, CancelledStays DEF CoreInv
<1>4. QED
  BY <1>1, <1>2, <1>3 DEF Replacement

LEMMA StrandStep ==
  ASSUME CoreInv, SuccessorsFresh, NoLoop, TargetFound, ShownInv, StrandInv, Next
  PROVE  StrandInv'
<1> USE DEF StrandInv, Leaving
<1>t. /\ pc \in [Instances -> LoopPcs] /\ fwdTo \in [Instances -> Instances \cup {NoInst}]
      /\ deployCh \in [Instances -> SUBSET Requests]
      /\ successor \in [Instances -> Instances \cup {NoInst}]
      /\ services \in Instances \cup {NoInst} /\ NoInst \notin Instances
  BY InstancesAssumption DEF CoreInv, TypeOK, TypeLoops, TypeServices, TypeQueues, TypeManager
<1>m. mgr' = "up" => mgr = "up"
  BY ManagerStays
<1>k. \A g \in Instances : Replacement(g) => Replacement(g)'
  BY ReplacementKept
<1>0. ASSUME UNCHANGED <<fwdTo, deployCh>>,
             \A h \in Instances : pc'[h] \in Leaving => pc'[h] = pc[h]
      PROVE  StrandInv'
  BY <1>t, <1>m, <1>k, <1>0
<1>1. ASSUME NEW c \in Callers, CallerStep(c) PROVE StrandInv'
  BY <1>0, <1>1, CallersAlone DEF loopVars
<1>2. ASSUME NEW g \in Instances, OpStep(g) PROVE StrandInv'
  <2>1. UNCHANGED <<fwdTo, deployCh>>
    BY <1>2, OpsAlone
  <2>2. \A h \in Instances : pc'[h] \in Leaving => pc'[h] = pc[h]
    BY <1>t, <1>2 DEF OpStep, RefuseOp, BeginOp, EndQuery, EndStart, EndStop, EndRestart, EndInternalStop, Reply,
                      Goto, loopVars
  <2>3. QED
    BY <1>0, <2>1, <2>2
<1>3. ASSUME NEW g \in Instances, SeeReady(g) \/ EndStartup(g) \/ ChildExit(g) PROVE StrandInv'
  BY <1>t, <1>0, <1>3 DEF SeeReady, EndStartup, ChildExit, Goto, loopVars, chanVars
<1>4. ASSUME NEW g \in Instances, Stash(g) \/ BeginDeploy(g) PROVE StrandInv'
  <2>1. UNCHANGED fwdTo /\ deployCh' = [deployCh EXCEPT ![g] = {}]
    BY <1>4 DEF Stash, BeginDeploy, DeployReceived
  <2>2. \A h \in Instances : pc'[h] \in Leaving => pc'[h] = pc[h]
    BY <1>t, <1>4 DEF Stash, BeginDeploy, Goto
  <2>3. QED
    BY <1>t, <1>m, <1>k, <2>1, <2>2
<1>5. ASSUME NEW g \in Instances, NEW s, EndDeploy(g, s) PROVE StrandInv'
  BY <1>t, <1>0, <1>5 DEF EndDeploy, Goto, chanVars
<1>6. ASSUME NEW g \in Instances, TakeDone(g) PROVE StrandInv'
  <2>1. UNCHANGED <<fwdTo, deployCh>> /\ pc' = [pc EXCEPT ![g] = "drained"]
    BY <1>6 DEF TakeDone, Goto
  <2>2. QED
    BY <1>t, <1>m, <1>k, <2>1
<1>7. ASSUME NEW g \in Instances, AfterDrain(g) PROVE StrandInv'
  <2>1. UNCHANGED fwdTo /\ deployCh' = [deployCh EXCEPT ![g] = {}]
    BY <1>7 DEF AfterDrain
  <2>2. \E w \in {"forward", "exited"} : pc' = [pc EXCEPT ![g] = w]
    BY <1>7 DEF AfterDrain, Goto
  <2>3. QED
    BY <1>t, <1>m, <1>k, <2>1, <2>2
<1>8. ASSUME NEW g \in Instances, Forward(g), mgr = "up" PROVE StrandInv'
  <2>1. fwdTo' = [fwdTo EXCEPT ![g] = successor[g]] /\ pc' = [pc EXCEPT ![g] = "chase"] /\ UNCHANGED deployCh
    BY <1>8 DEF Forward, FirstTarget, Goto, chanVars
  <2>2. pc[g] = "forward" /\ cancelled[g]
    BY <1>8 DEF Forward, ShownInv, LeavesReplaced
  <2>3. successor[g] # NoInst => Replacement(successor[g])
    BY <1>t, <2>2 DEF Replacement, NoLoop
  <2>4. QED
    BY <1>t, <1>m, <1>k, <2>1, <2>2, <2>3
<1>9. ASSUME NEW g \in Instances, Chase(g), mgr = "up" PROVE StrandInv'
  <2>1. UNCHANGED deployCh /\ pc[g] = "chase"
    BY <1>9 DEF Chase, chanVars
  <2>2. CASE UNCHANGED fwdTo /\ pc' = [pc EXCEPT ![g] = "found"]
    BY <1>t, <1>m, <1>k, <2>1, <2>2
  <2>3. CASE /\ fwdTo[g] # NoInst /\ Done(fwdTo[g]) /\ successor[fwdTo[g]] # NoInst
             /\ fwdTo' = [fwdTo EXCEPT ![g] = successor[fwdTo[g]]] /\ UNCHANGED pc
    <3>1. Replacement(successor[fwdTo[g]])
      BY <1>t, <1>9, <2>3 DEF Replacement, NoLoop, Done
    <3>2. QED
      BY <1>t, <1>m, <1>k, <2>1, <2>3, <3>1
  <2>4. QED
    BY <1>9, <2>2, <2>3 DEF Chase, Goto
<1>10. ASSUME NEW g \in Instances, Found(g) PROVE StrandInv'
  <2>1. UNCHANGED <<deployCh, fwdTo>> /\ pc[g] = "found"
    BY <1>10 DEF Found, chanVars
  <2>2. \E w \in {"enqueue", "exited"} : pc' = [pc EXCEPT ![g] = w]
    BY <1>10 DEF Found, Goto
  <2>3. QED
    BY <1>t, <1>m, <1>k, <2>1, <2>2
<1>11. ASSUME NEW g \in Instances, Enqueue(g), mgr = "up" PROVE StrandInv'
  <2>1. /\ fwdTo[g] \in Instances /\ UNCHANGED fwdTo /\ pc[g] = "enqueue"
        /\ deployCh' = [deployCh EXCEPT ![fwdTo[g]] = @ \cup fwd[g]] /\ pc' = [pc EXCEPT ![g] = "exited"]
    BY <1>11 DEF Enqueue, EnqueueDeploy, TargetFound, Goto
  <2>2. Replacement(fwdTo[g])
    BY <1>t, <1>11, <2>1
  <2>3. \A h \in Instances : deployCh'[h] # {} => deployCh[h] # {} \/ h = fwdTo[g]
    BY <1>t, <2>1
  <2>4. \A h \in Instances : pc'[h] \in Leaving \ {"drained"} => pc[h] \in Leaving \ {"drained"}
    BY <1>t, <2>1
  <2>5. \A h \in Instances : pc'[h] \in {"chase", "found", "enqueue"} => pc'[h] = pc[h]
    BY <1>t, <2>1
  <2>6. QED
    BY <1>t, <1>m, <1>k, <2>1, <2>2, <2>3, <2>4, <2>5
<1>12. ASSUME NEW r \in Requests, Request(r), mgr = "up" PROVE StrandInv'
  <2>1. UNCHANGED <<pc, fwdTo>>
    BY <1>12 DEF Request, loopVars
  <2>2. \A h \in Instances : deployCh'[h] # {} => deployCh[h] # {} \/ h = services
    BY <1>t, <1>12 DEF Request, EnqueueDeploy
  <2>3. services \in Instances => pc[services] \notin Leaving
    BY <1>12 DEF ShownInv, LeavesReplaced
  <2>4. QED
    BY <1>t, <1>m, <1>k, <2>1, <2>2, <2>3
<1>13. CASE StopReturns \/ SignalReady \/ Cancel
  BY <1>0, <1>13 DEF StopReturns, SignalReady, Cancel, chanVars, loopVars
<1>14. CASE ReloadStep
  <2>1. UNCHANGED <<fwdTo, deployCh>>
    BY <1>14, ReloadAlone
  <2>2. \A h \in Instances : pc'[h] \in Leaving => pc'[h] = pc[h]
    BY <1>t, <1>14 DEF ReloadStep, ReloadBegin, ReloadSend, ReloadGone, ReloadReply, ReloadSwap, ReloadCreate, Build,
                       ReloadDelete, ReloadCancel, ReloadStart, Goto, loopVars
  <2>3. QED
    BY <1>0, <2>1, <2>2
<1>15. CASE mgr # "up"
  BY <1>m, <1>15
<1>16. QED
  BY <1>1, <1>2, <1>3, <1>4, <1>5, <1>6, <1>7, <1>8, <1>9, <1>10, <1>11, <1>12, <1>13, <1>14, <1>15
  DEF Next, SystemStep, EnvironmentStep, LoopStep, ExitStep, DeployStep, DeployStepFails, SelfDeployed,
      DeployRestarts, DeployRestartFails

\* With one Reload there is one cancelled generation at most.
OneCancelled ==
  (\A x, y \in Reloads : x = y) =>
    /\ \A g, h \in Instances : cancelled[g] /\ cancelled[h] => g = h
    /\ \A g \in Instances : cancelled[g] => reloaded # {} \/ rpc = "start"

LEMMA OneCancelledStep == ASSUME CoreInv, OneCancelled, Next PROVE OneCancelled'
<1> USE DEF OneCancelled
<1>t. /\ cancelled \in [Instances -> BOOLEAN] /\ reloaded \in SUBSET Reloads
      /\ (rpc # "idle" => reloading \in Reloads) /\ reloading \notin reloaded
  BY DEF CoreInv, TypeOK, TypeServices, TypeReload, ReloadOwnsOld
<1>1. CASE ReloadCancel
  <2>1. rpc = "cancel" /\ cancelled' = [cancelled EXCEPT ![rold] = TRUE]
    BY <1>1 DEF ReloadCancel
  <2>2. (\A x, y \in Reloads : x = y) => reloaded = {} /\ \A g \in Instances : ~cancelled[g]
    BY <1>t, <2>1
  <2>3. reloaded' # {} \/ rpc' = "start"
    BY <1>1 DEF ReloadCancel, Finish
  <2>4. QED
    BY <1>t, <2>1, <2>2, <2>3
<1>2. CASE ~ReloadCancel
  <2>1. UNCHANGED cancelled
    BY <1>2, LinksAlone
  <2>2. reloaded # {} \/ rpc = "start" => reloaded' # {} \/ rpc' = "start"
    <3>1. CASE UNCHANGED reloadVars
      BY <3>1 DEF reloadVars
    <3>2. CASE UNCHANGED <<reloading, rpc, reloaded>>
      BY <3>2
    <3>3. ASSUME NEW c \in Callers, CallerStep(c) PROVE UNCHANGED reloadVars
      BY <3>3, CallersAlone
    <3>4. ASSUME NEW g \in Instances, OpStep(g) PROVE UNCHANGED <<reloading, rpc, reloaded>>
      BY <3>4 DEF OpStep, RefuseOp, BeginOp, EndQuery, EndStart, EndStop, EndRestart, EndOpFrame, EndInternalStop,
                  reloadVars
    <3>5. ASSUME NEW g \in Instances, SeeReady(g) \/ EndStartup(g) \/ ChildExit(g) PROVE UNCHANGED reloadVars
      BY <3>5 DEF SeeReady, EndStartup, ChildExit
    <3>6. ASSUME NEW g \in Instances, DeployStep(g) PROVE UNCHANGED reloadVars
      BY <3>6 DEF DeployStep, Stash, BeginDeploy, DeployStepFails, SelfDeployed, DeployRestarts, DeployRestartFails,
                  EndDeploy
    <3>7. ASSUME NEW g \in Instances, ExitStep(g) PROVE UNCHANGED reloadVars
      BY <3>7 DEF ExitStep, TakeDone, AfterDrain, Forward, Chase, Found, Enqueue
    <3>8. CASE ReloadStep
      <4>1. ASSUME NEW x \in Reloads, NEW c, ReloadBegin(x, c) PROVE rpc # "start" /\ (reloaded # {} => reloaded' # {})
        BY <1>t, <4>1, MessagesAssumption DEF ReloadBegin, Finish
      <4>2. CASE ReloadSend \/ ReloadGone \/ ReloadReply
        BY <4>2 DEF ReloadSend, ReloadGone, ReloadReply, Finish
      <4>3. ASSUME NEW g \in Instances, ReloadSwap(g) \/ ReloadCreate(g) PROVE rpc # "start" /\ UNCHANGED reloaded
        BY <4>3 DEF ReloadSwap, ReloadCreate
      <4>4. CASE ReloadDelete \/ ReloadStart
        BY <4>4 DEF ReloadDelete, ReloadStart, Finish
      <4>5. QED
        BY <1>2, <3>8, <4>1, <4>2, <4>3, <4>4 DEF ReloadStep
    <3>9. CASE StopReturns \/ EnvironmentStep
      BY <3>1, <3>5, <3>9 DEF StopReturns, EnvironmentStep, Request, SignalReady, Cancel
    <3>10. QED
      BY <3>1, <3>2, <3>3, <3>4, <3>5, <3>6, <3>7, <3>8, <3>9 DEF Next, SystemStep, LoopStep
  <2>3. QED
    BY <1>t, <2>1, <2>2
<1>3. QED
  BY <1>1, <1>2

LEMMA NoLoopStep == ASSUME CoreInv, SuccessorsFresh, NoLoop, Next PROVE NoLoop'
<1> USE DEF NoLoop
<1>t. successor \in [Instances -> Instances \cup {NoInst}] /\ NoInst \notin Instances
  BY InstancesAssumption DEF CoreInv, TypeOK, TypeServices
<1>1. ASSUME NEW g \in Instances, ReloadSwap(g) PROVE NoLoop'
  <2>1. successor' = [successor EXCEPT ![rold] = g] /\ pc[g] = "none"
    BY <1>1 DEF ReloadSwap, Build
  <2>2. rold # g
    BY <1>1, <2>1 DEF ReloadSwap, CoreInv, ReloadOwnsOld, CurrentOrRetired
  <2>3. QED
    BY <1>t, <2>1, <2>2
<1>2. CASE \A g \in Instances : ~ReloadSwap(g)
  BY <1>2, LinksAlone
<1>3. QED
  BY <1>1, <1>2

LEMMA StrandInvariant == Spec => [](StrandInv /\ OneCancelled)
<1>1. Init => NoLoop /\ StrandInv /\ OneCancelled
  BY InstancesAssumption DEF Init, InitAbsent, InitService, NoLoop, StrandInv, OneCancelled, Leaving
<1>2. CoreInv /\ TargetFound /\ SuccessorsFresh /\ ShownInv /\ NoLoop /\ StrandInv /\ OneCancelled /\ [Next]_vars
        => NoLoop' /\ StrandInv' /\ OneCancelled'
  <2>1. ASSUME UNCHANGED vars, NoLoop, StrandInv, OneCancelled PROVE NoLoop' /\ StrandInv' /\ OneCancelled'
    <3>1. UNCHANGED <<mgr, successor, cancelled, deployCh, pc, fwdTo, reloaded, rpc>>
      BY <2>1 DEF vars, mgrVars, msVars, chanVars, loopVars, reloadVars
    <3>2. QED
      BY <2>1, <3>1 DEF NoLoop, StrandInv, OneCancelled, Replacement
  <2>2. QED
    BY <2>1, NoLoopStep, StrandStep, OneCancelledStep
<1>3. QED
  BY <1>1, <1>2, CoreInvariant, HeldInvariant, LineageInvariant, ShownInvariant, PTL DEF Spec

(* A deploy is only left behind on a replacement that was itself replaced  *)
(* or removed (forwardDeploy against Reload's cancel).                     *)
THEOREM OnlyReplacementsStrand == Spec => []StrandedByTwoReloads
<1>1. ShownInv /\ StrandInv => StrandedByTwoReloads
  BY DEF ShownInv, LeavesReplaced, StrandInv, Leaving, Replacement, StrandedByTwoReloads
<1>2. QED
  BY <1>1, ShownInvariant, StrandInvariant, PTL

(* As long as there is one Reload no accepted deploy is left behind, for   *)
(* any number of requests (forwardDeploy).                                 *)
THEOREM OneReloadKeepsDeploys == Spec => []OneReloadStrandsNone
<1>1. StrandedByTwoReloads /\ OneCancelled => OneReloadStrandsNone
  BY DEF StrandedByTwoReloads, OneCancelled, OneReloadStrandsNone, NoDeployStranded
<1>2. QED
  BY <1>1, OnlyReplacementsStrand, StrandInvariant, PTL

-----------------------------------------------------------------------------
(* How often shutdownCh is closed.                                         *)

TwoStarted == \E q, r \in Requests : q # r /\ req[q] = "started" /\ req[r] = "started"

Deploying == \E g \in Instances : pc[g] = "deploy"

\* Every close, and the deploy that may lead to one, has a request of its own.
CloseInv ==
  /\ Deploying \/ shutdowns # 0 => \E r \in Requests : req[r] = "started"
  /\ (Deploying /\ shutdowns # 0) \/ shutdowns = 2 => TwoStarted

LEMMA StartedStays ==
  ASSUME TypeOK, HeldOnce, Next, NEW r \in Requests, req[r] = "started"
  PROVE  req'[r] = "started"
<1>t. req \in [Requests -> {"idle", "queued", "started", "reported", "refused", "dropped"}]
      /\ \A g \in Instances : ~Held(r, g)
  BY DEF TypeOK, TypeRequests, HeldOnce
<1>1. ASSUME NEW g \in Instances, DeploySteps(g) PROVE req'[r] = "started"
  BY <1>t, <1>1 DEF DeploySteps, Stash, BeginDeploy, DeployReceived, AfterDrain, Found, Enqueue, LeftOver, Resolve,
                    Held, reqVars
<1>2. ASSUME NEW q \in Requests, Request(q) PROVE req'[r] = "started"
  BY <1>t, <1>2 DEF Request
<1>3. CASE UNCHANGED deployState
  BY <1>3 DEF deployState
<1>4. QED
  BY <1>1, <1>2, <1>3, DeploysAlone

\* Only the deploys themselves begin one or close the channel.
LEMMA ClosesAlone ==
  ASSUME TypeOK, Next, \A g \in Instances : ~DeployStep(g)
  PROVE  UNCHANGED shutdowns /\ \A g \in Instances : pc'[g] = "deploy" => pc[g] = "deploy"
<1> DEFINE Goal == UNCHANGED shutdowns /\ \A g \in Instances : pc'[g] = "deploy" => pc[g] = "deploy"
<1>t. pc \in [Instances -> LoopPcs]
  BY DEF TypeOK, TypeLoops
<1>1. ASSUME NEW c \in Callers, CallerStep(c) PROVE Goal
  BY <1>1, CallersAlone DEF mgrVars, loopVars
<1>2. ASSUME NEW g \in Instances, OpStep(g) PROVE Goal
  BY <1>t, <1>2, OpsAlone DEF OpStep, RefuseOp, BeginOp, EndQuery, EndStart, EndStop, EndRestart, EndInternalStop,
                              Reply, Goto, loopVars, mgrVars
<1>3. ASSUME NEW g \in Instances, SeeReady(g) \/ EndStartup(g) \/ ChildExit(g) PROVE Goal
  BY <1>t, <1>3 DEF SeeReady, EndStartup, ChildExit, Goto, loopVars, mgrVars
<1>4. ASSUME NEW g \in Instances, ExitStep(g) PROVE Goal
  BY <1>t, <1>4 DEF ExitStep, TakeDone, AfterDrain, Forward, Chase, Found, Enqueue, Goto, mgrVars
<1>5. CASE ReloadStep
  BY <1>t, <1>5, ReloadAlone DEF ReloadStep, ReloadBegin, ReloadSend, ReloadGone, ReloadReply, ReloadSwap, ReloadCreate,
                                 Build, ReloadDelete, ReloadCancel, ReloadStart, Goto, loopVars
<1>6. CASE StopReturns \/ EnvironmentStep
  BY <1>3, <1>6 DEF StopReturns, EnvironmentStep, Request, SignalReady, Cancel, loopVars, mgrVars
<1>7. QED
  BY <1>1, <1>2, <1>3, <1>4, <1>5, <1>6 DEF Next, SystemStep, LoopStep

LEMMA CloseStep == ASSUME CoreInv, HeldOnce, CloseInv, Next PROVE CloseInv'
<1> USE DEF CloseInv, Deploying
<1>t. /\ TypeOK /\ pc \in [Instances -> LoopPcs] /\ shutdowns \in {0, 1} /\ deployCh \in [Instances -> SUBSET Requests]
      /\ req \in [Requests -> {"idle", "queued", "started", "reported", "refused", "dropped"}]
  BY DEF CoreInv, TypeOK, TypeManager, TypeLoops, TypeQueues, TypeRequests, Next
<1>s. /\ \A r \in Requests : req[r] = "started" => req'[r] = "started"
      /\ TwoStarted => TwoStarted'
  BY <1>t, StartedStays DEF TwoStarted
<1>u. \A g, h \in Instances : pc[g] \in {"select", "deploy"} /\ ~retired[g] /\ pc[h] = "deploy" => g = h
  BY DEF CoreInv, CurrentOrRetired
<1>1. ASSUME NEW g \in Instances, BeginDeploy(g) PROVE CloseInv'
  <2>1. /\ pc[g] = "select" /\ ~retired[g] /\ UNCHANGED shutdowns
        /\ req' = [q \in Requests |-> IF q \in deployCh[g] THEN "started" ELSE req[q]]
    BY <1>1 DEF BeginDeploy, DeployReceived, Resolve, mgrVars
  <2>2. ~Deploying
    BY <1>u, <2>1
  <2>3. PICK r \in deployCh[g] : r \in Requests
    BY <1>t, <1>1 DEF BeginDeploy, DeployReceived
  <2>4. req[r] = "queued" /\ req'[r] = "started"
    BY <2>1, <2>3 DEF HeldOnce, Held
  <2>5. shutdowns = 1 => TwoStarted'
    BY <1>s, <2>3, <2>4 DEF TwoStarted
  <2>6. QED
    BY <1>t, <2>1, <2>3, <2>4, <2>5
<1>2. ASSUME NEW g \in Instances, SelfDeployed(g) PROVE CloseInv'
  <2>1. pc[g] = "deploy" /\ pc' = [pc EXCEPT ![g] = "select"] /\ shutdowns' = shutdowns + 1 /\ ~retired[g]
    BY <1>2 DEF SelfDeployed, EndDeploy, Goto, CoreInv, CurrentOrRetired
  <2>2. ~Deploying'
    BY <1>t, <1>u, <2>1
  <2>3. QED
    BY <1>t, <1>s, <2>1, <2>2
<1>3. CASE UNCHANGED shutdowns /\ \A g \in Instances : pc'[g] = "deploy" => pc[g] = "deploy"
  BY <1>s, <1>3
<1>4. ASSUME NEW g \in Instances, DeployStep(g), ~BeginDeploy(g), ~SelfDeployed(g) PROVE CloseInv'
  BY <1>t, <1>3, <1>4 DEF DeployStep, Stash, DeployStepFails, DeployRestarts, DeployRestartFails, EndDeploy, Goto,
                          mgrVars
<1>5. QED
  BY <1>t, <1>1, <1>2, <1>3, <1>4, ClosesAlone

(* shutdownCh is closed a second time only when two requests for a deploy  *)
(* were accepted and started: a single self-deploy closes it once          *)
(* (executeDeploy).                                                        *)
THEOREM ClosedOncePerDeploy == Spec => []TwoClosesTwoDeploys
<1>1. Init => CloseInv
  BY DEF Init, InitAbsent, InitService, CloseInv, Deploying
<1>2. CoreInv /\ HeldOnce /\ CloseInv /\ [Next]_vars => CloseInv'
  <2>1. ASSUME UNCHANGED vars, CloseInv PROVE CloseInv'
    BY <2>1 DEF vars, mgrVars, loopVars, reqVars, CloseInv, Deploying, TwoStarted
  <2>2. QED
    BY <2>1, CloseStep
<1>3. CloseInv => TwoClosesTwoDeploys
  BY DEF CloseInv, TwoStarted, TwoClosesTwoDeploys
<1>4. QED
  BY <1>1, <1>2, <1>3, CoreInvariant, HeldInvariant, PTL DEF Spec
=============================================================================
