----------------------------- MODULE AppProofs -----------------------------
(***************************************************************************)
(* Proofs about App for any number of services, pushes, users and reloads: *)
(* the type invariant and the safety invariants that the run checks.       *)
(***************************************************************************)
EXTENDS App, TLAPS

-----------------------------------------------------------------------------
(* The inductive invariants.                                               *)

\* What HandlePush has found out is still so when it uses it, as far as confirmations go.
AskingSeen ==
  \A p \in Pushes :
    /\ asks[p] /\ push[p] = "found" => setting[target[p]] = "asks"
    /\ push[p] \in {"may deploy", "deployed"} => ~asks[p]

\* A pending confirmation was asked for and not accepted yet.
PendingAsked ==
  \A s \in Services : confirmed[s] + (IF pending[s] = "fresh" THEN 1 ELSE 0) <= asked[s]

\* What is over before Shutdown goes on.
ShutdownOrder ==
  /\ \A c \in Callers : shutdown[c] # "idle" => server = "closing"
  /\ \A c \in Callers : shutdown[c] \in {"loops", "done"} => loops # "up"
  /\ \A c \in Callers : shutdown[c] = "done" => loops = "ended"
  /\ loops # "up" => server = "closing"
  /\ ~lock /\ ~exited => loops = "ended"
  /\ exited /\ interactive => loops = "ended"

\* Nothing ends before somebody called Shutdown, which main only does with -i.
ShutdownCalled ==
  /\ shutdown["main"] # "idle" => interactive
  /\ runDone \/ mainDone => \E c \in Callers : shutdown[c] # "idle"
  /\ run = "returned" => runDone \/ mainDone
  /\ exited => MayExit

-----------------------------------------------------------------------------
(* Types are kept: of every variable, of the target of a push that is      *)
(* being handled, and that a.cancel is not called before Run stored it.    *)
THEOREM AppTypes == Spec => []TypeOK
<1>1. Init => TypeOK
  <2> SUFFICES ASSUME Init PROVE TypeOK
    OBVIOUS
  <2>1. RunTypes
    BY AppAssumption DEF Init, RunTypes
  <2>2. StopTypes
    BY AppAssumption DEF Init, StopTypes
  <2>3. ReloadTypes
    BY AppAssumption DEF Init, ReloadTypes, Settings
  <2>4. PushTypes
    BY AppAssumption DEF Init, PushTypes, Handling
  <2>5. AskTypes
    BY AppAssumption DEF Init, AskTypes
  <2>6. QED
    BY <2>1, <2>2, <2>3, <2>4, <2>5 DEF TypeOK
<1>2. TypeOK /\ [Next]_vars => TypeOK'
  <2> SUFFICES ASSUME TypeOK, [Next]_vars PROVE TypeOK'
    OBVIOUS
  <2>1. CASE RunStarts
    <3>1. StopTypes' /\ ReloadTypes' /\ PushTypes' /\ AskTypes'
      BY <2>1
        DEF RunStarts, TypeOK, StopTypes, ReloadTypes, PushTypes, AskTypes, stopVars, reloadVars, pushVars, askVars
    <3>2. RunTypes'
      BY <2>1 DEF RunStarts, TypeOK, RunTypes, runVars
    <3>3. QED
      BY <3>1, <3>2 DEF TypeOK
  <2>2. CASE InputEnds
    <3>1. StopTypes' /\ ReloadTypes' /\ PushTypes' /\ AskTypes'
      BY <2>2
        DEF InputEnds, TypeOK, StopTypes, ReloadTypes, PushTypes, AskTypes, stopVars, reloadVars, pushVars, askVars
    <3>2. RunTypes'
      BY <2>2 DEF InputEnds, TypeOK, RunTypes, runVars
    <3>3. QED
      BY <3>1, <3>2 DEF TypeOK
  <2>3. CASE RunReturns
    <3>1. StopTypes' /\ ReloadTypes' /\ PushTypes' /\ AskTypes'
      BY <2>3
        DEF RunReturns, TypeOK, StopTypes, ReloadTypes, PushTypes, AskTypes, stopVars, reloadVars, pushVars, askVars
    <3>2. RunTypes'
      BY <2>3 DEF RunReturns, TypeOK, RunTypes, runVars
    <3>3. QED
      BY <3>1, <3>2 DEF TypeOK
  <2>4. CASE LoopsEnd
    <3>1. RunTypes' /\ ReloadTypes' /\ PushTypes' /\ AskTypes'
      BY <2>4
        DEF LoopsEnd, TypeOK, RunTypes, ReloadTypes, PushTypes, AskTypes, runVars, reloadVars, pushVars, askVars
    <3>2. StopTypes'
      BY <2>4 DEF LoopsEnd, TypeOK, StopTypes, stopVars
    <3>3. QED
      BY <3>1, <3>2 DEF TypeOK
  <2>5. CASE Exit
    <3>1. ReloadTypes' /\ PushTypes' /\ AskTypes'
      BY <2>5
        DEF Exit, TypeOK, ReloadTypes, PushTypes, AskTypes, reloadVars, pushVars, askVars
    <3>2. RunTypes'
      BY <2>5 DEF Exit, TypeOK, RunTypes, runVars
    <3>3. StopTypes'
      BY <2>5 DEF Exit, TypeOK, StopTypes, stopVars
    <3>4. QED
      BY <3>1, <3>2, <3>3 DEF TypeOK
  <2>6. ASSUME NEW c \in Callers, ServersDown(c) PROVE TypeOK'
    <3>1. RunTypes' /\ ReloadTypes' /\ PushTypes' /\ AskTypes'
      BY <2>6
        DEF ServersDown, TypeOK, RunTypes, ReloadTypes, PushTypes, AskTypes, runVars, reloadVars, pushVars, askVars
    <3>2. StopTypes'
      BY <2>6 DEF ServersDown, TypeOK, StopTypes, stopVars
    <3>3. QED
      BY <3>1, <3>2 DEF TypeOK
  <2>7. ASSUME NEW c \in Callers, ShutdownEnds(c) PROVE TypeOK'
    <3>1. ReloadTypes' /\ PushTypes' /\ AskTypes'
      BY <2>7
        DEF ShutdownEnds, TypeOK, ReloadTypes, PushTypes, AskTypes, reloadVars, pushVars, askVars
    <3>2. RunTypes'
      BY <2>7 DEF ShutdownEnds, TypeOK, RunTypes, runVars
    <3>3. StopTypes'
      BY <2>7 DEF ShutdownEnds, TypeOK, StopTypes, stopVars
    <3>4. QED
      BY <3>1, <3>2, <3>3 DEF TypeOK
  <2>8. ASSUME NEW c \in Callers, ShutdownStarts(c) PROVE TypeOK'
    <3>1. ReloadTypes' /\ PushTypes' /\ AskTypes'
      BY <2>8
        DEF ShutdownStarts, TypeOK, ReloadTypes, PushTypes, AskTypes, reloadVars, pushVars, askVars
    <3>2. RunTypes'
      BY <2>8 DEF ShutdownStarts, TypeOK, RunTypes, runVars
    <3>3. StopTypes'
      BY <2>8 DEF ShutdownStarts, TypeOK, StopTypes, stopVars
    <3>4. QED
      BY <3>1, <3>2, <3>3 DEF TypeOK
  <2>9. ASSUME NEW p \in Pushes, FindService(p) PROVE TypeOK'
    <3>1. RunTypes' /\ StopTypes' /\ ReloadTypes' /\ AskTypes'
      BY <2>9
        DEF FindService, TypeOK, RunTypes, StopTypes, ReloadTypes, AskTypes, runVars, stopVars, reloadVars, askVars
    <3>2. PushTypes'
      BY <2>9 DEF FindService, TypeOK, PushTypes, pushVars, Handling
    <3>3. QED
      BY <3>1, <3>2 DEF TypeOK
  <2>10. ASSUME NEW p \in Pushes, NoService(p) PROVE TypeOK'
    <3>1. RunTypes' /\ StopTypes' /\ ReloadTypes' /\ AskTypes'
      BY <2>10
        DEF NoService, TypeOK, RunTypes, StopTypes, ReloadTypes, AskTypes, runVars, stopVars, reloadVars, askVars
    <3>2. PushTypes'
      BY <2>10 DEF NoService, TypeOK, PushTypes, pushVars, Handling
    <3>3. QED
      BY <3>1, <3>2 DEF TypeOK
  <2>11. ASSUME NEW p \in Pushes, ReadSetting(p) PROVE TypeOK'
    <3>1. RunTypes' /\ StopTypes' /\ ReloadTypes' /\ AskTypes'
      BY <2>11
        DEF ReadSetting, TypeOK, RunTypes, StopTypes, ReloadTypes, AskTypes, runVars, stopVars, reloadVars, askVars
    <3>2. PushTypes'
      BY <2>11 DEF ReadSetting, AsksFirst, TypeOK, PushTypes, pushVars, Handling
    <3>3. QED
      BY <3>1, <3>2 DEF TypeOK
  <2>12. ASSUME NEW p \in Pushes, AskConfirmation(p) PROVE TypeOK'
    <3>1. RunTypes' /\ StopTypes' /\ ReloadTypes'
      BY <2>12
        DEF AskConfirmation, TypeOK, RunTypes, StopTypes, ReloadTypes, runVars, stopVars, reloadVars
    <3>2. PushTypes'
      BY <2>12 DEF AskConfirmation, TypeOK, PushTypes, pushVars, Handling
    <3>3. target[p] \in Services
      BY <2>12 DEF AskConfirmation, TypeOK, PushTypes, Handling
    <3>4. asked[target[p]] + 1 \in Nat
      BY <3>3 DEF TypeOK, AskTypes
    <3>5. AskTypes'
      BY <2>12, <3>3, <3>4 DEF AskConfirmation, TypeOK, AskTypes
    <3>6. QED
      BY <3>1, <3>2, <3>5 DEF TypeOK
  <2>13. ASSUME NEW p \in Pushes, RequestDeploy(p) PROVE TypeOK'
    <3>1. RunTypes' /\ StopTypes' /\ ReloadTypes' /\ AskTypes'
      BY <2>13
        DEF RequestDeploy, TypeOK, RunTypes, StopTypes, ReloadTypes, AskTypes, runVars, stopVars, reloadVars, askVars
    <3>2. PushTypes'
      BY <2>13 DEF RequestDeploy, TypeOK, PushTypes, pushVars, Handling
    <3>3. QED
      BY <3>1, <3>2 DEF TypeOK
  <2>14. ASSUME NEW s \in Services, Reconfigure(s) PROVE TypeOK'
    <3>1. RunTypes' /\ StopTypes' /\ AskTypes'
      BY <2>14
        DEF Reconfigure, TypeOK, RunTypes, StopTypes, AskTypes, runVars, stopVars, askVars
    <3>2. ReloadTypes'
      BY <2>14, AppAssumption DEF Reconfigure, TypeOK, ReloadTypes, reloadVars, Settings
    <3>3. PushTypes'
      BY <2>14 DEF Reconfigure, TypeOK, PushTypes, pushVars, Handling
    <3>4. QED
      BY <3>1, <3>2, <3>3 DEF TypeOK
  <2>15. ASSUME NEW s \in Services, Expire(s) PROVE TypeOK'
    <3>1. RunTypes' /\ StopTypes' /\ ReloadTypes' /\ PushTypes'
      BY <2>15
        DEF Expire, TypeOK, RunTypes, StopTypes, ReloadTypes, PushTypes, runVars, stopVars, reloadVars, pushVars
    <3>2. AskTypes'
      BY <2>15 DEF Expire, TypeOK, AskTypes, askVars
    <3>3. QED
      BY <3>1, <3>2 DEF TypeOK
  <2>16. ASSUME NEW u \in Users, ConfirmDeploys(u) PROVE TypeOK'
    <3>1. RunTypes' /\ StopTypes' /\ ReloadTypes' /\ PushTypes'
      BY <2>16
        DEF ConfirmDeploys, TypeOK, RunTypes, StopTypes, ReloadTypes, PushTypes, runVars, stopVars, reloadVars, pushVars
    <3>2. AskTypes'
      BY <2>16 DEF ConfirmDeploys, TypeOK, AskTypes, askVars
    <3>3. QED
      BY <3>1, <3>2 DEF TypeOK
  <2>17. ASSUME NEW u \in Users, NEW s \in Services, Confirm(u, s) PROVE TypeOK'
    <3>1. RunTypes' /\ StopTypes' /\ ReloadTypes' /\ PushTypes'
      BY <2>17
        DEF Confirm, TypeOK, RunTypes, StopTypes, ReloadTypes, PushTypes, runVars, stopVars, reloadVars, pushVars
    <3>2. AskTypes'
      BY <2>17 DEF Confirm, TypeOK, AskTypes, askVars
    <3>3. QED
      BY <3>1, <3>2 DEF TypeOK
  <2>18. ASSUME NEW u \in Users, NEW s \in Services, ConfirmTooLate(u, s) PROVE TypeOK'
    <3>1. RunTypes' /\ StopTypes' /\ ReloadTypes' /\ PushTypes'
      BY <2>18
        DEF ConfirmTooLate, TypeOK, RunTypes, StopTypes, ReloadTypes, PushTypes, runVars, stopVars, reloadVars, pushVars
    <3>2. AskTypes'
      BY <2>18 DEF ConfirmTooLate, TypeOK, AskTypes, askVars
    <3>3. QED
      BY <3>1, <3>2 DEF TypeOK
  <2>19. CASE UNCHANGED vars
    <3>1. RunTypes'
      BY <2>19 DEF vars, runVars, TypeOK, RunTypes
    <3>2. StopTypes'
      BY <2>19 DEF vars, stopVars, TypeOK, StopTypes
    <3>3. ReloadTypes'
      BY <2>19 DEF vars, reloadVars, TypeOK, ReloadTypes
    <3>4. PushTypes'
      BY <2>19 DEF vars, pushVars, TypeOK, PushTypes
    <3>5. AskTypes'
      BY <2>19 DEF vars, askVars, TypeOK, AskTypes
    <3>6. QED
      BY <3>1, <3>2, <3>3, <3>4, <3>5 DEF TypeOK
  <2>20. QED
    BY <2>1, <2>2, <2>3, <2>4, <2>5, <2>6, <2>7, <2>8, <2>9, <2>10, <2>11, <2>12, <2>13, <2>14, <2>15, <2>16, <2>17, <2>18, <2>19
    DEF Next, StopSteps, Handle
<1>3. QED
  BY <1>1, <1>2, PTL DEF Spec

-----------------------------------------------------------------------------
(* Pushes.                                                                 *)

\* The steps that leave the services map and the pushes alone.
LEMMA PushesAlone ==
  ASSUME NEW c, NEW s, NEW u,
         \/ RunStarts \/ InputEnds \/ StopSteps \/ ShutdownStarts(c)
         \/ Expire(s) \/ ConfirmDeploys(u) \/ Confirm(u, s) \/ ConfirmTooLate(u, s)
         \/ UNCHANGED vars
  PROVE  UNCHANGED <<setting, push, target, asks>>
<1>1. CASE StopSteps
  BY <1>1 DEF StopSteps, RunReturns, LoopsEnd, Exit, ServersDown, ShutdownEnds, reloadVars, pushVars
<1>2. CASE ~StopSteps
  BY <1>2 DEF RunStarts, InputEnds, ShutdownStarts, Expire, ConfirmDeploys, Confirm, ConfirmTooLate, vars,
              reloadVars, pushVars
<1>3. QED
  BY <1>1, <1>2

(* No push deploys a service that asked for a confirmation all along: what *)
(* HandlePush has seen of it is still so, or it did not ask all along.     *)
THEOREM AppAsksFirst == Spec => []NoUnaskedDeploy
<1>1. Init => AskingSeen
  BY DEF Init, AskingSeen
<1>2. TypeOK /\ AskingSeen /\ [Next]_vars => AskingSeen'
  <2> SUFFICES ASSUME TypeOK, AskingSeen, [Next]_vars PROVE AskingSeen'
    OBVIOUS
  <2>1. ASSUME NEW p \in Pushes, FindService(p) PROVE AskingSeen'
    BY <2>1 DEF FindService, AskingSeen, TypeOK, PushTypes, reloadVars
  <2>2. ASSUME NEW p \in Pushes, NoService(p) PROVE AskingSeen'
    BY <2>2 DEF NoService, AskingSeen, TypeOK, PushTypes, reloadVars
  <2>3. ASSUME NEW p \in Pushes, ReadSetting(p) PROVE AskingSeen'
    BY <2>3 DEF ReadSetting, AsksFirst, AskingSeen, TypeOK, PushTypes, reloadVars
  <2>4. ASSUME NEW p \in Pushes, AskConfirmation(p) PROVE AskingSeen'
    BY <2>4 DEF AskConfirmation, AskingSeen, TypeOK, PushTypes, reloadVars
  <2>5. ASSUME NEW p \in Pushes, RequestDeploy(p) PROVE AskingSeen'
    BY <2>5 DEF RequestDeploy, AskingSeen, TypeOK, PushTypes, reloadVars
  <2>6. ASSUME NEW s \in Services, Reconfigure(s) PROVE AskingSeen'
    <3>1. PICK new \in Settings \ {setting[s]} :
            /\ setting' = [setting EXCEPT ![s] = new]
            /\ asks' = [p \in Pushes |-> asks[p] /\ ~(target[p] = s /\ new # "asks")]
      BY <2>6 DEF Reconfigure
    <3>2. UNCHANGED <<push, target>>
      BY <2>6 DEF Reconfigure
    <3>3. ASSUME NEW p \in Pushes, asks'[p] PROVE asks[p] /\ (target[p] = s => new = "asks")
      BY <3>1, <3>3
    <3>4. ASSUME NEW p \in Pushes, asks'[p], push[p] = "found" PROVE setting'[target[p]] = "asks"
      <4>1. target[p] \in Services
        BY <3>4 DEF TypeOK, PushTypes, Handling
      <4>2. QED
        BY <3>1, <3>3, <3>4, <4>1 DEF AskingSeen, TypeOK, ReloadTypes
    <3>5. QED
      BY <3>2, <3>3, <3>4 DEF AskingSeen
  <2>7. CASE UNCHANGED <<setting, push, target, asks>>
    BY <2>7 DEF AskingSeen
  <2>8. QED
    BY <2>1, <2>2, <2>3, <2>4, <2>5, <2>6, <2>7, PushesAlone DEF Next, Handle
<1>3. AskingSeen => NoUnaskedDeploy
  BY DEF AskingSeen, NoUnaskedDeploy
<1>4. QED
  BY <1>1, <1>2, <1>3, AppTypes, PTL DEF Spec

-----------------------------------------------------------------------------
(* Confirmations.                                                          *)

(* A confirmation is accepted at most as often as one was asked for: an    *)
(* entry that can be accepted stands for a question not answered yet.      *)
THEOREM AppConfirmedOnce == Spec => []ConfirmedOnce
<1>1. Init => PendingAsked
  BY DEF Init, PendingAsked
<1>2. TypeOK /\ PendingAsked /\ [Next]_vars => PendingAsked'
  <2> SUFFICES ASSUME TypeOK, PendingAsked, [Next]_vars PROVE PendingAsked'
    OBVIOUS
  <2>1. ASSUME NEW p \in Pushes, AskConfirmation(p) PROVE PendingAsked'
    <3>1. target[p] \in Services
      BY <2>1 DEF AskConfirmation, TypeOK, PushTypes, Handling
    <3>2. UNCHANGED confirmed /\ \A s \in Services : asked'[s] = IF s = target[p] THEN asked[s] + 1 ELSE asked[s]
      BY <2>1, <3>1, Zenon DEF AskConfirmation, TypeOK, AskTypes
    <3>3. \A s \in Services : pending'[s] = IF s = target[p] THEN "fresh" ELSE pending[s]
      BY <2>1, <3>1 DEF AskConfirmation, TypeOK, AskTypes
    <3>4. QED
      BY <3>1, <3>2, <3>3 DEF PendingAsked, TypeOK, AskTypes
  <2>2. ASSUME NEW s \in Services, Expire(s) PROVE PendingAsked'
    BY <2>2 DEF Expire, PendingAsked, TypeOK, AskTypes
  <2>3. ASSUME NEW u \in Users, NEW s \in Services, Confirm(u, s) PROVE PendingAsked'
    BY <2>3 DEF Confirm, PendingAsked, TypeOK, AskTypes
  <2>4. ASSUME NEW u \in Users, NEW s \in Services, ConfirmTooLate(u, s) PROVE PendingAsked'
    BY <2>4 DEF ConfirmTooLate, PendingAsked, TypeOK, AskTypes
  <2>5. CASE UNCHANGED <<pending, asked, confirmed>>
    BY <2>5 DEF PendingAsked
  <2>6. CASE StopSteps
    BY <2>5, <2>6 DEF StopSteps, RunReturns, LoopsEnd, Exit, ServersDown, ShutdownEnds, askVars
  <2>7. ASSUME NEW p \in Pushes, Handle(p), ~AskConfirmation(p) PROVE PendingAsked'
    BY <2>5, <2>7 DEF Handle, FindService, NoService, ReadSetting, RequestDeploy, askVars
  <2>8. QED
    BY <2>1, <2>2, <2>3, <2>4, <2>5, <2>6, <2>7
    DEF Next, RunStarts, InputEnds, ShutdownStarts, Reconfigure, ConfirmDeploys, vars, askVars
<1>3. TypeOK /\ PendingAsked => ConfirmedOnce
  BY DEF TypeOK, AskTypes, PendingAsked, ConfirmedOnce
<1>4. QED
  BY <1>1, <1>2, <1>3, AppTypes, PTL DEF Spec

-----------------------------------------------------------------------------
(* Shutdown.                                                               *)

\* The steps that leave the program's life and Shutdown alone.
LEMMA ShutdownAlone ==
  ASSUME NEW p, NEW s, NEW u,
         \/ Handle(p) \/ Reconfigure(s) \/ Expire(s) \/ ConfirmDeploys(u) \/ Confirm(u, s)
         \/ ConfirmTooLate(u, s) \/ UNCHANGED vars
  PROVE  UNCHANGED <<runVars, stopVars>>
BY DEF Handle, FindService, NoService, ReadSetting, AskConfirmation, RequestDeploy, Reconfigure, Expire,
       ConfirmDeploys, Confirm, ConfirmTooLate, vars

(* The order of Shutdown holds for both callers at any time.               *)
LEMMA AppShutdownOrder == Spec => []ShutdownOrder
<1>1. Init => ShutdownOrder
  BY DEF Init, ShutdownOrder
<1>2. TypeOK /\ ShutdownOrder /\ [Next]_vars => ShutdownOrder'
  <2> SUFFICES ASSUME TypeOK, ShutdownOrder, [Next]_vars PROVE ShutdownOrder'
    OBVIOUS
  <2> USE DEF ShutdownOrder, TypeOK, StopTypes
  <2>1. CASE RunStarts
    BY <2>1 DEF RunStarts, stopVars
  <2>2. CASE InputEnds
    BY <2>2 DEF InputEnds, stopVars
  <2>3. CASE RunReturns
    BY <2>3 DEF RunReturns, stopVars
  <2>4. CASE LoopsEnd
    BY <2>4 DEF LoopsEnd, runVars
  <2>5. CASE Exit
    BY <2>5 DEF Exit, MayExit, Callers
  <2>6. ASSUME NEW c \in Callers, ServersDown(c) PROVE ShutdownOrder'
    BY <2>6 DEF ServersDown, runVars
  <2>7. ASSUME NEW c \in Callers, ShutdownEnds(c) PROVE ShutdownOrder'
    BY <2>7 DEF ShutdownEnds
  <2>8. ASSUME NEW c \in Callers, ShutdownStarts(c) PROVE ShutdownOrder'
    BY <2>8 DEF ShutdownStarts
  <2>9. CASE UNCHANGED <<runVars, stopVars>>
    BY <2>9 DEF runVars, stopVars
  <2>10. QED
    BY <2>1, <2>2, <2>3, <2>4, <2>5, <2>6, <2>7, <2>8, <2>9, ShutdownAlone DEF Next, StopSteps
<1>3. QED
  BY <1>1, <1>2, AppTypes, PTL DEF Spec

(* The lock is free only when the loops have ended: it follows from the    *)
(* order of Shutdown.                                                      *)
THEOREM AppLock == Spec => []LockOutlivesLoops
<1>1. TypeOK /\ ShutdownOrder => LockOutlivesLoops
  BY DEF TypeOK, RunTypes, ShutdownOrder, LockOutlivesLoops
<1>2. QED
  BY <1>1, AppTypes, AppShutdownOrder, PTL

(* No push is in its handler when the loops are told to end, unless the    *)
(* five seconds were over: the server is closed by then and takes no more. *)
THEOREM AppHandlersFirst == Spec => []HandlersFirst
<1>1. Init => HandlersFirst
  BY DEF Init, HandlersFirst
<1>2. TypeOK /\ ShutdownOrder /\ HandlersFirst /\ [Next]_vars => HandlersFirst'
  <2> SUFFICES ASSUME TypeOK, ShutdownOrder, HandlersFirst, [Next]_vars PROVE HandlersFirst'
    OBVIOUS
  <2> USE DEF HandlersFirst, NoHandler
  <2>1. ASSUME NEW p \in Pushes, FindService(p) PROVE HandlersFirst'
    BY <2>1 DEF FindService, Accepting, ShutdownOrder, stopVars
  <2>2. ASSUME NEW p \in Pushes, Handle(p), ~FindService(p) PROVE HandlersFirst'
    <3>1. UNCHANGED <<loops, late>>
      BY <2>2 DEF Handle, NoService, ReadSetting, AskConfirmation, RequestDeploy, stopVars
    <3>2. \A q \in Pushes : push'[q] \in Handling => push[q] \in Handling
      BY <2>2 DEF Handle, NoService, ReadSetting, AskConfirmation, RequestDeploy, TypeOK, PushTypes, Handling
    <3>3. QED
      BY <3>1, <3>2
  <2>3. ASSUME NEW c \in Callers, ServersDown(c) PROVE HandlersFirst'
    BY <2>3 DEF ServersDown, pushVars
  <2>4. CASE LoopsEnd
    BY <2>4 DEF LoopsEnd, pushVars
  <2>5. CASE UNCHANGED <<loops, late, push>>
    BY <2>5
  <2>6. CASE StopSteps
    BY <2>3, <2>4, <2>5, <2>6 DEF StopSteps, RunReturns, Exit, ShutdownEnds, stopVars, pushVars
  <2>7. QED
    BY <2>1, <2>2, <2>5, <2>6
    DEF Next, RunStarts, InputEnds, ShutdownStarts, Reconfigure, Expire, ConfirmDeploys, Confirm,
        ConfirmTooLate, vars, stopVars, pushVars
<1>3. QED
  BY <1>1, <1>2, AppTypes, AppShutdownOrder, PTL DEF Spec

(* With -i, main ends after its own Shutdown; without, only once Shutdown  *)
(* was called, by the signal goroutine (main, App.Run).                    *)
LEMMA AppShutdownCalled == Spec => []ShutdownCalled
<1>1. Init => ShutdownCalled
  BY DEF Init, ShutdownCalled, Callers
<1>2. TypeOK /\ ShutdownCalled /\ [Next]_vars => ShutdownCalled'
  <2> SUFFICES ASSUME TypeOK, ShutdownCalled, [Next]_vars PROVE ShutdownCalled'
    OBVIOUS
  <2> USE DEF ShutdownCalled, TypeOK, StopTypes, Callers, MayExit
  <2>1. CASE RunStarts
    BY <2>1 DEF RunStarts, stopVars
  <2>2. CASE InputEnds
    BY <2>2 DEF InputEnds, stopVars
  <2>3. CASE RunReturns
    BY <2>3 DEF RunReturns, stopVars
  <2>4. CASE LoopsEnd
    BY <2>4 DEF LoopsEnd, runVars
  <2>5. CASE Exit
    BY <2>5 DEF Exit
  <2>6. ASSUME NEW c \in Callers, ServersDown(c) PROVE ShutdownCalled'
    BY <2>6 DEF ServersDown, runVars
  <2>7. ASSUME NEW c \in Callers, ShutdownEnds(c) PROVE ShutdownCalled'
    BY <2>7 DEF ShutdownEnds
  <2>8. ASSUME NEW c \in Callers, ShutdownStarts(c) PROVE ShutdownCalled'
    BY <2>8 DEF ShutdownStarts, MainShutsDown
  <2>9. CASE UNCHANGED <<runVars, stopVars>>
    BY <2>9 DEF runVars, stopVars
  <2>10. QED
    BY <2>1, <2>2, <2>3, <2>4, <2>5, <2>6, <2>7, <2>8, <2>9, ShutdownAlone DEF Next, StopSteps
<1>3. QED
  BY <1>1, <1>2, AppTypes, PTL DEF Spec

(* The program ends before its loops only without -i and in the middle of  *)
(* the Shutdown that a signal began (main).                                *)
THEOREM AppEndsEarlyInShutdown == Spec => []EndsEarlyInShutdownOnly
<1>1. TypeOK /\ ShutdownOrder /\ ShutdownCalled => EndsEarlyInShutdownOnly
  BY DEF TypeOK, StopTypes, ShutdownOrder, ShutdownCalled, EndsEarlyInShutdownOnly, Callers, MayExit
<1>2. QED
  BY <1>1, AppTypes, AppShutdownOrder, AppShutdownCalled, PTL

=============================================================================
