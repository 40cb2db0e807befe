-------------------------------- MODULE App --------------------------------
(***************************************************************************)
(* The wiring of the program: main with its signal goroutine, App.Run and  *)
(* App.Shutdown, the webhook server with its handlers, and the deploys     *)
(* that a push or a confirmation asks the manager for.                     *)
(*                                                                         *)
(* Of the manager only the map of services, the life of the service loops  *)
(* and the state lock are kept; ServiceManager models the rest.  The chat  *)
(* frontends are the users who confirm; their connections and the          *)
(* readiness gate are in Frontends.                                        *)
(***************************************************************************)
EXTENDS Naturals, FiniteSets

CONSTANTS Services,     \* names of services
          Pushes,       \* push events that pass the checks of the webhook handler
          Users,        \* frontends through which somebody confirms
          MaxReloads    \* bound: changes of a service by Reload

ASSUME AppAssumption == MaxReloads \in Nat

\* What the services map holds under a name: nothing, a service of another repository or branch than
\* the pushes are for, one that is deployed on a push, one that asks first.
Settings == {"absent", "other", "deploys", "asks"}

Callers == {"signal", "main"}    \* the goroutines that call Shutdown

VARIABLES
  interactive,  \* the program runs with -i
  exited,       \* main has returned
  cli,          \* cli.Run: "reading" or "done"
  run,          \* App.Run: "new", "waiting" for its context, "returned"
  runDone,      \* the context of Run was cancelled through a.cancel
  mainDone,     \* the context of main was cancelled
  shutdown,     \* where each caller is in Shutdown
  server,       \* the webhook server: "up" or "closing"
  late,         \* a caller gave the handlers up after five seconds
  loops,        \* the service loops: "up", "cancelled", "ended"
  lock,         \* the state lock is held
  setting,      \* the services map
  reloads,      \* how often it was changed
  push,         \* where the handling of each push is
  target,       \* the service it was found to be for
  asks,         \* ghost: that service asked for a confirmation ever since it was found
  pending,      \* a.confirmations: "none", "fresh", "expired" for each name
  asked,        \* ghost: how often a confirmation was asked for, by name
  confirm,      \* each user: "idle" or the name whose confirmation was just accepted
  confirmed     \* ghost: how often a confirmation was accepted, by name

runVars    == <<interactive, exited, cli, run, runDone, mainDone>>
stopVars   == <<shutdown, server, late, loops, lock>>
reloadVars == <<setting, reloads>>
pushVars   == <<push, target, asks>>
askVars    == <<pending, asked, confirm, confirmed>>
vars == <<runVars, stopVars, reloadVars, pushVars, askVars>>

Handling == {"found", "must ask", "may deploy"}

Init ==
  /\ interactive \in BOOLEAN
  /\ exited = FALSE /\ cli = "reading" /\ run = "new" /\ runDone = FALSE /\ mainDone = FALSE
  /\ shutdown = [c \in Callers |-> "idle"]
  /\ server = "up" /\ late = FALSE /\ loops = "up" /\ lock = TRUE
  /\ setting \in [Services -> Settings] /\ reloads = 0
  /\ push = [p \in Pushes |-> "sent"]
  /\ target = [p \in Pushes |-> "none"] /\ asks = [p \in Pushes |-> FALSE]
  /\ pending = [s \in Services |-> "none"] /\ asked = [s \in Services |-> 0]
  /\ confirm = [u \in Users |-> "idle"] /\ confirmed = [s \in Services |-> 0]

-----------------------------------------------------------------------------
(* Run                                                                     *)

\* Run derives its context from main's, stores its cancel function and starts the servers and bots.
RunStarts ==
  /\ ~exited /\ run = "new"
  /\ run' = "waiting"
  /\ UNCHANGED <<interactive, exited, cli, runDone, mainDone, stopVars, reloadVars, pushVars, askVars>>

RunReturns ==
  /\ ~exited /\ run = "waiting" /\ (runDone \/ mainDone)
  /\ run' = "returned"
  /\ UNCHANGED <<interactive, exited, cli, runDone, mainDone, stopVars, reloadVars, pushVars, askVars>>

-----------------------------------------------------------------------------
(* Shutdown, by the signal goroutine and, with -i, at the end of main      *)

\* A signal, or a self-deploy closed shutdownCh.
SignalArrives == shutdown["signal"] = "idle"

\* With -i, after quit or at the end of the input; the context is not looked at while a line is read.
InputEnds ==
  /\ ~exited /\ interactive /\ cli = "reading"
  /\ cli' = "done"
  /\ UNCHANGED <<interactive, exited, run, runDone, mainDone, stopVars, reloadVars, pushVars, askVars>>

MainShutsDown == interactive /\ cli = "done" /\ shutdown["main"] = "idle"

\* a.cancel is called if Run has stored it; then the servers stop listening.
ShutdownStarts(c) ==
  /\ ~exited
  /\ IF c = "signal" THEN SignalArrives ELSE MainShutsDown
  /\ runDone' = (runDone \/ run # "new")
  /\ server' = "closing"
  /\ shutdown' = [shutdown EXCEPT ![c] = "servers"]
  /\ UNCHANGED <<interactive, exited, cli, run, mainDone, late, loops, lock, reloadVars, pushVars, askVars>>

NoHandler == \A p \in Pushes : push[p] \notin Handling

\* The handlers are not waited for (a mutation).
ServersDownAtOnce(c) ==
  /\ ~exited /\ shutdown[c] = "servers"
  /\ loops' = IF loops = "up" THEN "cancelled" ELSE loops
  /\ shutdown' = [shutdown EXCEPT ![c] = "loops"]
  /\ UNCHANGED <<runVars, server, late, lock, reloadVars, pushVars, askVars>>

\* Server.Shutdown returns when no handler runs, or gives up after five seconds; Stop cancels the loops.
ServersDown(c) ==
  /\ ~exited /\ shutdown[c] = "servers"
  /\ late' = (late \/ ~NoHandler)
  /\ loops' = IF loops = "up" THEN "cancelled" ELSE loops
  /\ shutdown' = [shutdown EXCEPT ![c] = "loops"]
  /\ UNCHANGED <<runVars, server, lock, reloadVars, pushVars, askVars>>

LoopsEnd ==
  /\ ~exited /\ loops = "cancelled"
  /\ loops' = "ended"
  /\ UNCHANGED <<runVars, shutdown, server, late, lock, reloadVars, pushVars, askVars>>

\* The first to find the loops cancelled does not wait for them (a mutation).
ShutdownEndsUnwaited(c) ==
  /\ ~exited /\ shutdown[c] = "loops"
  /\ lock' = FALSE
  /\ shutdown' = [shutdown EXCEPT ![c] = "done"]
  /\ mainDone' = (mainDone \/ c = "signal")
  /\ UNCHANGED <<interactive, exited, cli, run, runDone, server, late, loops, reloadVars, pushVars, askVars>>

\* The signal goroutine leaves main's context alone (a mutation).
ShutdownEndsWithoutCancel(c) ==
  /\ ~exited /\ shutdown[c] = "loops" /\ loops = "ended"
  /\ lock' = FALSE
  /\ shutdown' = [shutdown EXCEPT ![c] = "done"]
  /\ UNCHANGED <<runVars, server, late, loops, reloadVars, pushVars, askVars>>

\* Stop has waited for the loops and releases the lock; the signal goroutine then cancels main's context.
ShutdownEnds(c) ==
  /\ ~exited /\ shutdown[c] = "loops" /\ loops = "ended"
  /\ lock' = FALSE
  /\ shutdown' = [shutdown EXCEPT ![c] = "done"]
  /\ mainDone' = (mainDone \/ c = "signal")
  /\ UNCHANGED <<interactive, exited, cli, run, runDone, server, late, loops, reloadVars, pushVars, askVars>>

MayExit == IF interactive THEN shutdown["main"] = "done" ELSE run = "returned"

\* main returns: from Run, or with -i after its own Shutdown.  The kernel frees the lock.
Exit ==
  /\ ~exited
  /\ MayExit
  /\ exited' = TRUE
  /\ lock' = FALSE
  /\ UNCHANGED <<interactive, cli, run, runDone, mainDone, shutdown, server, late, loops, reloadVars,
                 pushVars, askVars>>

-----------------------------------------------------------------------------
(* The services map, as Reload changes it under m.mu                       *)

Reconfigure(s) ==
  /\ ~exited /\ reloads < MaxReloads
  /\ \E new \in Settings \ {setting[s]} :
       /\ setting' = [setting EXCEPT ![s] = new]
       /\ asks' = [p \in Pushes |-> asks[p] /\ ~(target[p] = s /\ new # "asks")]
  /\ reloads' = reloads + 1
  /\ UNCHANGED <<runVars, stopVars, push, target, askVars>>

-----------------------------------------------------------------------------
(* A push: ServeHTTP calls HandlePush, which takes m.mu three times         *)

Accepting == run # "new" /\ server = "up"

\* FindServiceByRepo takes any service of the repository and branch; NotifyWebhook follows.
FindService(p) ==
  /\ ~exited /\ push[p] = "sent" /\ Accepting
  /\ \E s \in Services :
       /\ setting[s] \in {"deploys", "asks"}
       /\ target' = [target EXCEPT ![p] = s]
       /\ asks' = [asks EXCEPT ![p] = setting[s] = "asks"]
  /\ push' = [push EXCEPT ![p] = "found"]
  /\ UNCHANGED <<runVars, stopVars, reloadVars, askVars>>

NoService(p) ==
  /\ ~exited /\ push[p] = "sent" /\ Accepting
  /\ \A s \in Services : setting[s] \in {"absent", "other"}
  /\ push' = [push EXCEPT ![p] = "answered"]
  /\ UNCHANGED <<runVars, stopVars, reloadVars, target, asks, askVars>>

\* A push while a confirmation is pending is taken for the confirmation (a mutation).
AsksUnlessPending(s) == setting[s] = "asks" /\ pending[s] # "fresh"

\* GetServiceConfig; a service that is gone meanwhile has the zero configuration, which does not ask.
AsksFirst(s) == setting[s] = "asks"

ReadSetting(p) ==
  /\ ~exited /\ push[p] = "found"
  /\ push' = [push EXCEPT ![p] = IF AsksFirst(target[p]) THEN "must ask" ELSE "may deploy"]
  /\ UNCHANGED <<runVars, stopVars, reloadVars, target, asks, askVars>>

\* AddPending, in the place of an entry that is there; the frontends that can confirm are told.
AskConfirmation(p) ==
  /\ ~exited /\ push[p] = "must ask"
  /\ pending' = [pending EXCEPT ![target[p]] = "fresh"]
  /\ asked' = [asked EXCEPT ![target[p]] = @ + 1]
  /\ push' = [push EXCEPT ![p] = "answered"]
  /\ UNCHANGED <<runVars, stopVars, reloadVars, target, asks, confirm, confirmed>>

\* RequestDeploy; an unknown service is an error that is logged.
RequestDeploy(p) ==
  /\ ~exited /\ push[p] = "may deploy"
  /\ push' = [push EXCEPT ![p] = IF setting[target[p]] = "absent" THEN "answered" ELSE "deployed"]
  /\ UNCHANGED <<runVars, stopVars, reloadVars, target, asks, askVars>>

-----------------------------------------------------------------------------
(* Confirmations                                                           *)

\* More than the ten minutes of the tracker go by.
Expire(s) ==
  /\ ~exited /\ pending[s] = "fresh"
  /\ pending' = [pending EXCEPT ![s] = "expired"]
  /\ UNCHANGED <<runVars, stopVars, reloadVars, pushVars, asked, confirm, confirmed>>

\* The entry is looked at first and deleted with the request (a mutation).
ConfirmLooksFirst(u, s) ==
  /\ ~exited /\ confirm[u] = "idle" /\ pending[s] = "fresh"
  /\ confirm' = [confirm EXCEPT ![u] = s]
  /\ confirmed' = [confirmed EXCEPT ![s] = @ + 1]
  /\ UNCHANGED <<runVars, stopVars, reloadVars, pushVars, pending, asked>>

\* ConfirmationTracker.Confirm takes an entry that has not expired.
Confirm(u, s) ==
  /\ ~exited /\ confirm[u] = "idle" /\ pending[s] = "fresh"
  /\ pending' = [pending EXCEPT ![s] = "none"]
  /\ confirm' = [confirm EXCEPT ![u] = s]
  /\ confirmed' = [confirmed EXCEPT ![s] = @ + 1]
  /\ UNCHANGED <<runVars, stopVars, reloadVars, pushVars, asked>>

\* It deletes one that has; IsPending does the same.
ConfirmTooLate(u, s) ==
  /\ ~exited /\ confirm[u] = "idle" /\ pending[s] = "expired"
  /\ pending' = [pending EXCEPT ![s] = "none"]
  /\ UNCHANGED <<runVars, stopVars, reloadVars, pushVars, asked, confirm, confirmed>>

\* App.Confirm requests the deploy and answers the user, also when the service is gone.
ConfirmDeploys(u) ==
  /\ ~exited /\ confirm[u] # "idle"
  /\ confirm' = [confirm EXCEPT ![u] = "idle"]
  /\ UNCHANGED <<runVars, stopVars, reloadVars, pushVars, pending, asked, confirmed>>

-----------------------------------------------------------------------------
StopSteps == RunReturns \/ LoopsEnd \/ Exit \/ \E c \in Callers : ServersDown(c) \/ ShutdownEnds(c)

Handle(p) == FindService(p) \/ NoService(p) \/ ReadSetting(p) \/ AskConfirmation(p) \/ RequestDeploy(p)

Next ==
  \/ RunStarts \/ InputEnds \/ StopSteps
  \/ \E c \in Callers : ShutdownStarts(c)
  \/ \E p \in Pushes : Handle(p)
  \/ \E s \in Services : Reconfigure(s) \/ Expire(s)
  \/ \E u \in Users : ConfirmDeploys(u) \/ \E s \in Services : Confirm(u, s) \/ ConfirmTooLate(u, s)

Spec == Init /\ [][Next]_vars

(* Every goroutine of the program runs on: the service loops end (the      *)
(* manager's runs show it), Server.Shutdown has its five seconds.  A       *)
(* signal, the end of the input and the users are not assumed to come.     *)
Fairness ==
  /\ WF_vars(RunStarts) /\ WF_vars(RunReturns) /\ WF_vars(LoopsEnd) /\ WF_vars(Exit)
  /\ WF_vars(ShutdownStarts("main"))
  /\ \A c \in Callers : WF_vars(ServersDown(c)) /\ WF_vars(ShutdownEnds(c))

FairSpec == Spec /\ Fairness

-----------------------------------------------------------------------------
(* Types, and that Run's context is cancelled through a.cancel only after  *)
(* Run has stored it (Shutdown checks it for nil).                         *)
RunTypes ==
  /\ interactive \in BOOLEAN /\ exited \in BOOLEAN
  /\ cli \in {"reading", "done"}
  /\ run \in {"new", "waiting", "returned"}
  /\ runDone \in BOOLEAN /\ mainDone \in BOOLEAN
  /\ run = "new" => ~runDone

StopTypes ==
  /\ shutdown \in [Callers -> {"idle", "servers", "loops", "done"}]
  /\ server \in {"up", "closing"} /\ late \in BOOLEAN
  /\ loops \in {"up", "cancelled", "ended"}
  /\ lock \in BOOLEAN

ReloadTypes == setting \in [Services -> Settings] /\ reloads \in 0..MaxReloads

PushTypes ==
  /\ push \in [Pushes -> {"sent", "answered", "deployed"} \cup Handling]
  /\ target \in [Pushes -> Services \cup {"none"}]
  /\ \A p \in Pushes : push[p] \in Handling => target[p] \in Services
  /\ asks \in [Pushes -> BOOLEAN]

AskTypes ==
  /\ pending \in [Services -> {"none", "fresh", "expired"}]
  /\ asked \in [Services -> Nat] /\ confirmed \in [Services -> Nat]
  /\ confirm \in [Users -> Services \cup {"idle"}]

TypeOK == RunTypes /\ StopTypes /\ ReloadTypes /\ PushTypes /\ AskTypes

(* A push does not deploy a service that asked for a confirmation from the *)
(* lookup to the request, however reloads fall between the three looks of  *)
(* HandlePush at the services map and whatever is pending already.         *)
NoUnaskedDeploy == \A p \in Pushes : push[p] = "deployed" => ~asks[p]

(* A confirmation is accepted once: several users who confirm at a time,   *)
(* a second push and the expiry never make more deploys than pushes asked  *)
(* for (ConfirmationTracker).                                              *)
ConfirmedOnce == \A s \in Services : confirmed[s] <= asked[s]

(* The service loops are told to end only when no push is being handled,   *)
(* unless five seconds were not enough: a push that is being handled       *)
(* reaches a running manager (Shutdown stops the servers first).           *)
HandlersFirst == loops # "up" /\ ~late => NoHandler

(* Whoever of the two callers of Shutdown gets there first, the state lock *)
(* is free for another instance only when every loop has ended, by Stop    *)
(* and, with -i, also at the end of the program (Stop, main).              *)
LockOutlivesLoops == ~lock /\ (exited => interactive) => loops = "ended"

(* Without -i a signal or a self-deploy ends the program, also one that    *)
(* comes before Run has stored its cancel function (main).                 *)
SignalEnds == (~interactive /\ shutdown["signal"] # "idle") ~> exited

(* "Shutdown gracefully stops all components.": the program does not end   *)
(* while a service loop runs.                                              *)
StopsBeforeExit == exited => loops = "ended"

(* How far that is true: with -i always, and otherwise unless the program  *)
(* ends in the middle of the Shutdown that a signal or a self-deploy began.*)
EndsEarlyInShutdownOnly ==
  exited => loops = "ended" \/ (~interactive /\ shutdown["signal"] \in {"servers", "loops"})
=============================================================================
