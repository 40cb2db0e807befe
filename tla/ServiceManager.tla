--------------------------- MODULE ServiceManager ---------------------------
(***************************************************************************)
(* The service manager of internal/service/manager.go, seen from one       *)
(* service name.  Loops of different names share only m.mu, the readiness  *)
(* channel, the manager context and shutdownCh, so one name with several   *)
(* GENERATIONS (managedService values, one per configuration that Reload   *)
(* brings in) shows every interaction:                                     *)
(*                                                                         *)
(*   callers   Do: look the service up, send an op, wait for the answer;   *)
(*   loops     serviceLoop: one goroutine per generation, which serves     *)
(*             ops, deploys, the pending cold-boot start and its own exit; *)
(*   Reload    asks the old loop to stop its backend and retire, swaps the *)
(*             new generation in, cancels the old loop, starts the new;    *)
(*   deploys   RequestDeploy leaves a token on a channel of capacity one;  *)
(*             a retiring loop forwards its token to its successor;        *)
(*   Stop      cancels every loop and waits for them.                      *)
(*                                                                         *)
(* A backend is a child process that is alive or not, whose Start, Stop    *)
(* and Restart may fail; ProcessBackend models it in detail.  The state    *)
(* file is written before every reply and is not a variable here.          *)
(***************************************************************************)
EXTENDS Naturals, Sequences, FiniteSets, SequencesExt

CONSTANTS
  Instances,    \* managedService values, in no particular order
  NoInst,       \* the nil *managedService
  Callers,      \* concurrent callers of Do
  OpKinds,      \* the ops they send
  Reloads,      \* calls of Reload
  NoReload,     \* reloadMu is free
  Requests,     \* calls of RequestDeploy
  Configs,      \* configurations the services directory may hold
  NoConfig,     \* the services directory has no file for this name
  OpCap         \* capacity of opCh (10 in the code)

ASSUME InstancesAssumption == NoInst \notin Instances
ASSUME MessagesAssumption == Callers \cap Reloads = {} /\ NoReload \notin Reloads
ASSUME OpKindsAssumption == OpKinds \subseteq {"start", "stop", "restart", "query"}
ASSUME ConfigsAssumption ==
  /\ Configs \subseteq [autostart : BOOLEAN, force : BOOLEAN, always : BOOLEAN,
                        selfDeploy : BOOLEAN, rev : Nat]
  /\ NoConfig \notin Configs
ASSUME OpCapAssumption == OpCap \in Nat \ {0}

VARIABLES
  \* the Manager
  services,     \* m.services[name], or NoInst when the name is absent
  ready,        \* readyCh is closed
  mgr,          \* "up", "cancelled" (m.ctx is done), "stopped" (Stop returned)
  shutdowns,    \* how often shutdownCh has been closed; the second one panics
  \* the managedService values
  conf,         \* config
  cancelled,    \* cancel() was called on this generation's own context
  successor,    \* successor, set by Reload when it swaps
  desired,      \* state.DesiredStatus
  status,       \* state.Status, as far as deploys set it
  opCh,         \* opCh, a sequence of callers and reloads
  deployCh,     \* deployCh: the requests its one token stands for
  alive,        \* the backend's child process is alive
  \* the loops
  pc,           \* control point of serviceLoop
  cur,          \* the op being handled
  retired,      \* retired
  pending,      \* startupPending
  sawReady,     \* readyC was received and set to nil
  fwd,          \* forwardDeploy: the requests to hand on when the loop exits
  fwdTo,        \* target of forwardDeploy
  \* the calls of Do
  opPc, opKind, opOn,
  res,          \* the buffered result channel of each op
  ran,          \* ghost: the loop handled the op on its backend
  \* Reload
  reloading,    \* the call that holds reloadMu
  rpc,          \* its control point
  reloaded,     \* the calls that returned
  rold, rnew, rconf,
  snap,         \* the reloadSnapshot each internal stop fills in
  \* the calls of RequestDeploy
  req,          \* what became of each
  reqOn,        \* ghost: the generation each was queued on
  stopHeld      \* ghost: an operator stop succeeded and nothing overrode it

mgrVars    == <<services, ready, mgr, shutdowns>>
msVars     == <<conf, cancelled, successor, desired, status, alive>>
chanVars   == <<opCh, deployCh>>
loopVars   == <<pc, cur, retired, pending, sawReady, fwd, fwdTo>>
callerVars == <<opPc, opKind, opOn, ran>>
reloadVars == <<reloading, rpc, reloaded, rold, rnew, rconf, snap>>
reqVars    == <<req, reqOn>>
vars == <<mgrVars, msVars, chanVars, loopVars, callerVars, res, reloadVars,
          reqVars, stopHeld>>

-----------------------------------------------------------------------------
Messages == Callers \cup Reloads
Intents  == {"start", "stop", "restart"}
Desired  == {"running", "stopped"}   \* "running" stands for absent, too
Results  == {"none", "done", "failed", "reloaded", "shutdown"}
LoopPcs  == {"none", "built", "select", "op", "startup", "deploy", "drained",
             "forward", "chase", "found", "enqueue", "exited"}
ReloadPcs == {"idle", "send", "wait", "swap", "delete", "cancel", "create",
              "start"}
Snapshots == [running : BOOLEAN, pending : BOOLEAN, desired : Desired]

\* The context of generation g is done: its own, or the manager's above it.
Done(g) == cancelled[g] \/ mgr # "up"

GoneMsg == IF mgr # "up" THEN "shutdown" ELSE "reloaded"

\* A send on opCh would not block.
Room(g) == Len(opCh[g]) < OpCap

\* m.mu is held across steps only by a loop inside forwardDeploy.
MuFree == \A g \in Instances : pc[g] \notin {"chase", "found", "enqueue"}

\* The cold-boot decision of newManagedService for a child that is not alive.
\* always: a systemctl or launchctl service with adopt: false.
ColdBootStart(c, d) == c.always \/ (c.autostart /\ (d # "stopped" \/ c.force))

\* enqueueDeploy: the token of generation g now also stands for rs.
EnqueueDeploy(g, rs) ==
  /\ deployCh' = [deployCh EXCEPT ![g] = @ \cup rs]
  /\ status' = [status EXCEPT ![g] = "deploying"]

Goto(g, l) == pc' = [pc EXCEPT ![g] = l]

Answer(x, r) == res' = [res EXCEPT ![x] = r]

\* The loop of g returns to its select after handling cur[g].
Reply(g, r) ==
  /\ Answer(cur[g], r)
  /\ cur' = [cur EXCEPT ![g] = NoReload]
  /\ Goto(g, "select")

Resolve(rs, s) == req' = [r \in Requests |-> IF r \in rs THEN s ELSE req[r]]

-----------------------------------------------------------------------------
(* The program starts: NewManager builds the service if it is configured.  *)
(* Its child was adopted (alive), or is dead and will be started when the  *)
(* frontends are ready, or is left alone.  A unit with adopt: false will   *)
(* be restarted when they are ready, whether it runs or not.               *)
InitService(g) ==
  /\ services = g
  /\ pc = [i \in Instances |-> IF i = g THEN "select" ELSE "none"]
  /\ \E c \in Configs, d \in Desired, a, p \in BOOLEAN :
       /\ IF c.always THEN p ELSE p => ~a /\ ColdBootStart(c, d)
       /\ conf = [i \in Instances |-> IF i = g THEN c ELSE NoConfig]
       /\ desired = [i \in Instances |-> IF i = g THEN d ELSE "running"]
       /\ alive = [i \in Instances |-> i = g /\ a]
       /\ pending = [i \in Instances |-> i = g /\ p]
       /\ stopHeld = (d = "stopped" /\ ~a /\ ~p)

InitAbsent ==
  /\ services = NoInst
  /\ pc = [i \in Instances |-> "none"]
  /\ conf = [i \in Instances |-> NoConfig]
  /\ desired = [i \in Instances |-> "running"]
  /\ alive = [i \in Instances |-> FALSE]
  /\ pending = [i \in Instances |-> FALSE]
  /\ stopHeld = FALSE

Init ==
  /\ InitAbsent \/ \E g \in Instances : InitService(g)
  /\ ready = FALSE
  /\ mgr = "up"
  /\ shutdowns = 0
  /\ cancelled = [i \in Instances |-> FALSE]
  /\ successor = [i \in Instances |-> NoInst]
  /\ status = [i \in Instances |-> "idle"]
  /\ opCh = [i \in Instances |-> <<>>]
  /\ deployCh = [i \in Instances |-> {}]
  /\ cur = [i \in Instances |-> NoReload]
  /\ retired = [i \in Instances |-> FALSE]
  /\ sawReady = [i \in Instances |-> FALSE]
  /\ fwd = [i \in Instances |-> {}]
  /\ fwdTo = [i \in Instances |-> NoInst]
  /\ opPc = [c \in Callers |-> "idle"]
  /\ opKind = [c \in Callers |-> "query"]
  /\ opOn = [c \in Callers |-> NoInst]
  /\ res = [x \in Messages |-> "none"]
  /\ ran = [c \in Callers |-> FALSE]
  /\ reloading = NoReload
  /\ rpc = "idle"
  /\ reloaded = {}
  /\ rold = NoInst
  /\ rnew = NoInst
  /\ rconf = NoConfig
  /\ snap = [x \in Reloads |-> [running |-> FALSE, pending |-> FALSE, desired |-> "running"]]
  /\ req = [r \in Requests |-> "idle"]
  /\ reqOn = [r \in Requests |-> NoInst]

-----------------------------------------------------------------------------
(* Do and doOn, one caller, which may call again after an answer.          *)

\* The services map is read under m.mu; an unknown name is answered at once.
Lookup(c, k) ==
  /\ opPc[c] = "idle" /\ MuFree /\ services # NoInst
  /\ opPc' = [opPc EXCEPT ![c] = "send"]
  /\ opKind' = [opKind EXCEPT ![c] = k]
  /\ opOn' = [opOn EXCEPT ![c] = services]
  /\ UNCHANGED <<mgrVars, msVars, chanVars, loopVars, res, ran, reloadVars,
                 reqVars, stopHeld>>

\* The first select of doOn: the queue has room ...
Send(c) ==
  /\ opPc[c] = "send" /\ Room(opOn[c])
  /\ opCh' = [opCh EXCEPT ![opOn[c]] = Append(@, c)]
  /\ opPc' = [opPc EXCEPT ![c] = "wait"]
  /\ UNCHANGED <<mgrVars, msVars, deployCh, loopVars, opKind, opOn, ran, res,
                 reloadVars, reqVars, stopHeld>>

\* What doOn would return now, "none" if it would go on waiting.
ReplyNow(c) ==
  IF res[c] = "none" /\ Done(opOn[c]) THEN GoneMsg ELSE res[c]

\* Do returns and its op with it: the caller may call again.
CallerFree(c) ==
  /\ opPc' = [opPc EXCEPT ![c] = "idle"]
  /\ opKind' = [opKind EXCEPT ![c] = "query"]
  /\ opOn' = [opOn EXCEPT ![c] = NoInst]
  /\ ran' = [ran EXCEPT ![c] = FALSE]
  /\ res' = [res EXCEPT ![c] = "none"]
  /\ UNCHANGED <<mgrVars, msVars, chanVars, loopVars, reloadVars, reqVars,
                 stopHeld>>

\* ... or the service is gone.
SendGone(c) == opPc[c] = "send" /\ Done(opOn[c]) /\ CallerFree(c)

\* The second select: an answer wins over a done context.
Receive(c) == opPc[c] = "wait" /\ res[c] # "none" /\ CallerFree(c)

\* Variant with a mistake: waiting for the answer only.
GivesUpNever(g, x) == FALSE

\* The second select of doOn sees the context done and no answer.
GivesUp(g, x) == Done(g) /\ res[x] = "none"

\* Do returns although its op is still queued or running, and may yet be
\* handled; this caller, told to retry or told of the shutdown, calls no more.
WaitGone(c) ==
  /\ opPc[c] = "wait" /\ GivesUp(opOn[c], c)
  /\ opPc' = [opPc EXCEPT ![c] = IF mgr = "up" THEN "retry" ELSE "gone"]
  /\ UNCHANGED <<mgrVars, msVars, chanVars, loopVars, opKind, opOn, ran, res,
                 reloadVars, reqVars, stopHeld>>

-----------------------------------------------------------------------------
(* The select of serviceLoop: ops.  A retired loop refuses every op.       *)
RefuseOp(g) ==
  /\ pc[g] = "select" /\ opCh[g] # <<>> /\ retired[g]
  /\ Answer(Head(opCh[g]), "reloaded")
  /\ opCh' = [opCh EXCEPT ![g] = Tail(@)]
  /\ UNCHANGED <<mgrVars, msVars, deployCh, loopVars, callerVars, reloadVars,
                 reqVars, stopHeld>>

\* Variant with a mistake: a stop does not cancel the pending startup op.
StillPendingAfterStop(g, x) == pending[g] /\ opKind[x] \notin {"start", "restart"}

\* The operator's intent wins over a pending startup op.
StillPending(g, x) == pending[g] /\ opKind[x] \notin Intents

\* handle up to the backend call: the operator's intent is recorded first.
BeginOp(g) ==
  /\ pc[g] = "select" /\ opCh[g] # <<>> /\ ~retired[g]
  /\ opCh' = [opCh EXCEPT ![g] = Tail(@)]
  /\ cur' = [cur EXCEPT ![g] = Head(opCh[g])]
  /\ Goto(g, "op")
  /\ LET x == Head(opCh[g]) IN
     IF x \in Callers
       THEN /\ ran' = [ran EXCEPT ![x] = TRUE]
            /\ pending' = [pending EXCEPT ![g] = StillPending(g, x)]
            /\ desired' = [desired EXCEPT ![g] =
                             CASE opKind[x] = "stop" -> "stopped"
                               [] opKind[x] \in {"start", "restart"} -> "running"
                               [] OTHER -> @]
            /\ stopHeld' = (stopHeld /\ opKind[x] \notin {"start", "restart"})
       ELSE UNCHANGED <<ran, pending, desired, stopHeld>>
  /\ UNCHANGED <<mgrVars, conf, cancelled, successor, status, alive, deployCh,
                 retired, sawReady, fwd, fwdTo, opPc, opKind, opOn, res,
                 reloadVars, reqVars>>

Handling(g, kinds) ==
  pc[g] = "op" /\ cur[g] \in Callers /\ opKind[cur[g]] \in kinds

\* What an op leaves alone besides the child, its answer and stopHeld.
EndOpFrame ==
  UNCHANGED <<mgrVars, conf, cancelled, successor, desired, status, chanVars,
              retired, pending, sawReady, fwd, fwdTo, callerVars, reloadVars,
              reqVars>>

EndQuery(g) ==
  /\ Handling(g, {"query"})
  /\ \E r \in {"done", "failed"} : Reply(g, r)
  /\ EndOpFrame /\ UNCHANGED <<alive, stopHeld>>

\* Start of a child that runs is a no-op that succeeds.
EndStart(g) ==
  /\ Handling(g, {"start"})
  /\ \/ alive' = [alive EXCEPT ![g] = TRUE] /\ Reply(g, "done")
     \/ ~alive[g] /\ UNCHANGED alive /\ Reply(g, "failed")
  /\ EndOpFrame /\ UNCHANGED stopHeld

EndStop(g) ==
  /\ Handling(g, {"stop"})
  /\ \/ /\ alive' = [alive EXCEPT ![g] = FALSE]
        /\ stopHeld' = TRUE
        /\ Reply(g, "done")
     \/ UNCHANGED <<alive, stopHeld>> /\ Reply(g, "failed")
  /\ EndOpFrame

\* Restart stops, then starts; each half may fail.
EndRestart(g) ==
  /\ Handling(g, {"restart"})
  /\ \/ alive' = [alive EXCEPT ![g] = TRUE] /\ Reply(g, "done")
     \/ alive' = [alive EXCEPT ![g] = FALSE] /\ Reply(g, "failed")
     \/ UNCHANGED alive /\ Reply(g, "failed")
  /\ EndOpFrame /\ UNCHANGED stopHeld

\* Variants with a mistake: the loop goes on serving, or the startup op stays.
RetireNothing(g) ==
  /\ UNCHANGED retired
  /\ pending' = [pending EXCEPT ![g] = FALSE]

RetireKeepsStartup(g) ==
  /\ retired' = [retired EXCEPT ![g] = TRUE]
  /\ UNCHANGED pending

\* Nothing more may run on a generation whose internal stop succeeded.
Retire(g) ==
  /\ retired' = [retired EXCEPT ![g] = TRUE]
  /\ pending' = [pending EXCEPT ![g] = FALSE]

\* internalStop for a reload: on success the generation is retired.  A status
\* query that fails counts as not running.
EndInternalStop(g) ==
  /\ pc[g] = "op" /\ cur[g] \in Reloads
  /\ \/ /\ \E seen \in {alive[g], FALSE} :
            snap' = [snap EXCEPT ![cur[g]] =
                       [running |-> seen, pending |-> pending[g],
                        desired |-> desired[g]]]
        /\ alive' = [alive EXCEPT ![g] = FALSE]
        /\ Retire(g)
        /\ Reply(g, "done")
     \/ UNCHANGED <<snap, alive, retired, pending>> /\ Reply(g, "failed")
  /\ UNCHANGED <<mgrVars, conf, cancelled, successor, desired, status, chanVars,
                 sawReady, fwd, fwdTo, callerVars, reloading, rpc, reloaded,
                 rold, rnew, rconf, reqVars, stopHeld>>

\* The child dies by itself, at any moment.
ChildExit(g) ==
  /\ alive[g]
  /\ alive' = [alive EXCEPT ![g] = FALSE]
  /\ UNCHANGED <<mgrVars, conf, cancelled, successor, desired, status, chanVars,
                 loopVars, callerVars, res, reloadVars, reqVars, stopHeld>>

-----------------------------------------------------------------------------
(* The select of serviceLoop: readiness and the pending cold-boot start.   *)
SignalReady ==
  /\ ~ready
  /\ ready' = TRUE
  /\ UNCHANGED <<services, mgr, shutdowns, msVars, chanVars, loopVars,
                 callerVars, res, reloadVars, reqVars, stopHeld>>

SeeReady(g) ==
  /\ pc[g] = "select" /\ ready /\ ~sawReady[g]
  /\ sawReady' = [sawReady EXCEPT ![g] = TRUE]
  /\ IF pending[g]
       THEN /\ pending' = [pending EXCEPT ![g] = FALSE]
            /\ desired' = [desired EXCEPT ![g] = "running"]
            /\ Goto(g, "startup")
       ELSE UNCHANGED <<pending, desired, pc>>
  /\ UNCHANGED <<mgrVars, conf, cancelled, successor, status, alive, chanVars,
                 cur, retired, fwd, fwdTo, callerVars, res, reloadVars, reqVars,
                 stopHeld>>

EndStartup(g) ==
  /\ pc[g] = "startup"
  /\ \/ alive' = [alive EXCEPT ![g] = TRUE]
     \/ conf[g].always /\ alive' = [alive EXCEPT ![g] = FALSE]  \* half a restart
     \/ UNCHANGED alive
  /\ Goto(g, "select")
  /\ UNCHANGED <<mgrVars, conf, cancelled, successor, desired, status, chanVars,
                 cur, retired, pending, sawReady, fwd, fwdTo, callerVars, res,
                 reloadVars, reqVars, stopHeld>>

-----------------------------------------------------------------------------
(* The select of serviceLoop: deploys, served once readiness was seen.     *)
DeployReceived(g) ==
  /\ pc[g] = "select" /\ sawReady[g] /\ deployCh[g] # {}
  /\ deployCh' = [deployCh EXCEPT ![g] = {}]

\* Variants with a mistake: what is on the channel is forgotten, or what was
\* set aside.
LeftOverSetAside(g) == fwd[g]
LeftOverOnChannel(g) == deployCh[g]

\* The deploys to hand on: set aside already, or on the channel.
LeftOver(g) == fwd[g] \cup deployCh[g]

\* A loop that is being replaced or cancelled keeps the deploy to hand it on.
Stash(g) ==
  /\ DeployReceived(g)
  /\ retired[g] \/ Done(g)
  /\ fwd' = [fwd EXCEPT ![g] = LeftOver(g)]
  /\ UNCHANGED <<mgrVars, msVars, opCh, pc, cur, retired, pending, sawReady,
                 fwdTo, callerVars, res, reloadVars, reqVars, stopHeld>>

\* executeDeploy up to the steps.
BeginDeploy(g) ==
  /\ DeployReceived(g)
  /\ ~retired[g] /\ ~Done(g)
  /\ status' = [status EXCEPT ![g] = "deploying"]
  /\ Resolve(deployCh[g], "started")
  /\ Goto(g, "deploy")
  /\ UNCHANGED <<mgrVars, conf, cancelled, successor, desired, alive, opCh, cur,
                 retired, pending, sawReady, fwd, fwdTo, callerVars, res,
                 reloadVars, reqOn, stopHeld>>

\* The end of executeDeploy: the state, then the loop's select.
EndDeploy(g, s) ==
  /\ pc[g] = "deploy"
  /\ status' = [status EXCEPT ![g] = s]
  /\ Goto(g, "select")
  /\ UNCHANGED <<services, ready, mgr, conf, cancelled, successor,
                 chanVars, cur, retired, pending, sawReady, fwd, fwdTo,
                 callerVars, res, reloadVars, reqVars>>

\* Variant with a mistake: the status is not reset when a step fails.
DeployStepFailsSilently(g) ==
  EndDeploy(g, "deploying") /\ UNCHANGED <<shutdowns, alive, desired, stopHeld>>

DeployStepFails(g) ==
  EndDeploy(g, "failed") /\ UNCHANGED <<shutdowns, alive, desired, stopHeld>>

\* A self-deploy leaves its child alone and asks the program to exit.
SelfDeployed(g) ==
  /\ EndDeploy(g, "running")
  /\ conf[g].selfDeploy
  /\ shutdowns' = shutdowns + 1
  /\ UNCHANGED <<alive, desired, stopHeld>>

\* Any other deploy restarts the child, whatever the operator wanted before.
DeployRestarts(g) ==
  /\ EndDeploy(g, "running")
  /\ ~conf[g].selfDeploy
  /\ alive' = [alive EXCEPT ![g] = TRUE]
  /\ desired' = [desired EXCEPT ![g] = "running"]
  /\ stopHeld' = FALSE
  /\ UNCHANGED shutdowns

DeployRestartFails(g) ==
  /\ EndDeploy(g, "failed")
  /\ ~conf[g].selfDeploy
  /\ alive' = [alive EXCEPT ![g] = FALSE] \/ UNCHANGED alive
  /\ UNCHANGED <<shutdowns, desired, stopHeld>>

-----------------------------------------------------------------------------
(* The select of serviceLoop: the context is done.                         *)

\* exit: drainOps answers what is queued.
TakeDone(g) ==
  /\ pc[g] = "select" /\ Done(g)
  /\ res' = [x \in Messages |->
               IF x \in ToSet(opCh[g]) THEN GoneMsg ELSE res[x]]
  /\ opCh' = [opCh EXCEPT ![g] = <<>>]
  /\ Goto(g, "drained")
  /\ UNCHANGED <<mgrVars, msVars, deployCh, cur, retired, pending, sawReady, fwd,
                 fwdTo, callerVars, reloadVars, reqVars, stopHeld>>

\* A deploy left on the channel is taken along with those set aside.  When
\* the whole manager stops, none is handed on.
AfterDrain(g) ==
  /\ pc[g] = "drained"
  /\ LET left == LeftOver(g) IN
     IF left # {} /\ mgr = "up"
       THEN /\ fwd' = [fwd EXCEPT ![g] = left]
            /\ Goto(g, "forward")
            /\ UNCHANGED req
       ELSE /\ fwd' = [fwd EXCEPT ![g] = {}]
            /\ Goto(g, "exited")
            /\ Resolve(left, "dropped")
  /\ deployCh' = [deployCh EXCEPT ![g] = {}]
  /\ UNCHANGED <<mgrVars, msVars, opCh, cur, retired, pending, sawReady, fwdTo,
                 callerVars, res, reloadVars, reqOn, stopHeld>>

\* Variant with a mistake: the service that has the name now.
FirstTargetByName(g) == services

\* Where forwardDeploy starts to look for a live target.
FirstTarget(g) == successor[g]

\* forwardDeploy: lock m.mu, then follow the successors of replaced ones.
Forward(g) ==
  /\ pc[g] = "forward" /\ MuFree
  /\ fwdTo' = [fwdTo EXCEPT ![g] = FirstTarget(g)]
  /\ Goto(g, "chase")
  /\ UNCHANGED <<mgrVars, msVars, chanVars, cur, retired, pending, sawReady, fwd,
                 callerVars, res, reloadVars, reqVars, stopHeld>>

Chase(g) ==
  /\ pc[g] = "chase"
  /\ LET t == fwdTo[g] IN
     IF t # NoInst /\ Done(t) /\ successor[t] # NoInst
       THEN fwdTo' = [fwdTo EXCEPT ![g] = successor[t]] /\ UNCHANGED pc
       ELSE Goto(g, "found") /\ UNCHANGED fwdTo
  /\ UNCHANGED <<mgrVars, msVars, chanVars, cur, retired, pending, sawReady, fwd,
                 callerVars, res, reloadVars, reqVars, stopHeld>>

\* The last look at the target's context.  A deploy without a live target is
\* reported through DeployFailed.
Found(g) ==
  /\ pc[g] = "found"
  /\ IF fwdTo[g] # NoInst /\ ~Done(fwdTo[g])
       THEN Goto(g, "enqueue") /\ UNCHANGED <<fwd, req>>
       ELSE /\ Goto(g, "exited")
            /\ Resolve(fwd[g], "reported")
            /\ fwd' = [fwd EXCEPT ![g] = {}]
  /\ UNCHANGED <<mgrVars, msVars, chanVars, cur, retired, pending, sawReady,
                 fwdTo, callerVars, res, reloadVars, reqOn, stopHeld>>

\* cancel() does not take m.mu: the target may be retired since Found looked.
Enqueue(g) ==
  /\ pc[g] = "enqueue"
  /\ EnqueueDeploy(fwdTo[g], fwd[g])
  /\ fwd' = [fwd EXCEPT ![g] = {}]
  /\ Goto(g, "exited")
  /\ UNCHANGED <<mgrVars, conf, cancelled, successor, desired, alive, opCh, cur,
                 retired, pending, sawReady, fwdTo, callerVars, res, reloadVars,
                 reqVars, stopHeld>>

-----------------------------------------------------------------------------
(* RequestDeploy: look up and enqueue under m.mu.                          *)
Request(r) ==
  /\ req[r] = "idle" /\ MuFree
  /\ IF services = NoInst
       THEN /\ req' = [req EXCEPT ![r] = "refused"]
            /\ UNCHANGED <<deployCh, status, reqOn>>
       ELSE /\ EnqueueDeploy(services, {r})
            /\ req' = [req EXCEPT ![r] = "queued"]
            /\ reqOn' = [reqOn EXCEPT ![r] = services]
  /\ UNCHANGED <<mgrVars, conf, cancelled, successor, desired, alive, opCh,
                 loopVars, callerVars, res, reloadVars, stopHeld>>

-----------------------------------------------------------------------------
(* Reload, one call at a time (reloadMu).                                  *)

\* Reload returns, its local variables are gone, and reloadMu is free.
Finish(x) ==
  /\ reloading' = NoReload
  /\ reloaded' = reloaded \cup {x}
  /\ rpc' = "idle"
  /\ rold' = NoInst /\ rnew' = NoInst /\ rconf' = NoConfig

\* Read the directory, which anybody may have edited since, and compare what
\* it holds with the service in place.
ReloadBegin(x, c) ==
  /\ reloading = NoReload /\ x \notin reloaded /\ MuFree
  /\ IF c = (IF services = NoInst THEN NoConfig ELSE conf[services])
       THEN Finish(x)
       ELSE /\ reloading' = x
            /\ rpc' = IF services = NoInst THEN "create" ELSE "send"
            /\ rold' = services
            /\ rconf' = c
            /\ UNCHANGED <<reloaded, rnew>>
  /\ UNCHANGED <<mgrVars, msVars, chanVars, loopVars, callerVars, res, snap,
                 reqVars, stopHeld>>

\* doOn with the internal stop.
ReloadSend ==
  /\ rpc = "send" /\ Room(rold)
  /\ opCh' = [opCh EXCEPT ![rold] = Append(@, reloading)]
  /\ rpc' = "wait"
  /\ UNCHANGED <<mgrVars, msVars, deployCh, loopVars, callerVars, res, reloading,
                 reloaded, rold, rnew, rconf, snap, reqVars, stopHeld>>

\* The service stays in place when the internal stop did not succeed.
ReloadGone ==
  /\ \/ rpc = "send" /\ Done(rold)
     \/ rpc = "wait" /\ GivesUp(rold, reloading)
  /\ Finish(reloading)
  /\ UNCHANGED <<mgrVars, msVars, chanVars, loopVars, callerVars, res, snap,
                 reqVars, stopHeld>>

\* Variant with a mistake: any answer of a live loop will do.
StopAnswered(r) == r \in {"done", "failed"}

\* The answer without which Reload leaves the service in place.
StopSucceeded(r) == r = "done"

ReloadReply ==
  /\ rpc = "wait" /\ res[reloading] # "none"
  /\ Answer(reloading, "none")
  /\ IF ~StopSucceeded(res[reloading])
       THEN Finish(reloading)
       ELSE /\ rpc' = IF rconf = NoConfig THEN "delete" ELSE "swap"
            /\ UNCHANGED <<reloading, reloaded, rold, rnew, rconf>>
  /\ UNCHANGED <<mgrVars, msVars, chanVars, loopVars, callerVars, snap, reqVars,
                 stopHeld>>

\* newManagedService: generation g, with the configuration Reload read.
Build(g, p, d) ==
  /\ pc[g] = "none"
  /\ Goto(g, "built")
  /\ conf' = [conf EXCEPT ![g] = rconf]
  /\ pending' = [pending EXCEPT ![g] = p]
  /\ desired' = [desired EXCEPT ![g] = d]
  /\ services' = g
  /\ rnew' = g

\* A replacement starts its child if the old one ran, and decides as on a
\* cold boot if the old one had not made its own cold-boot start yet.
ReloadSwap(g) ==
  /\ rpc = "swap" /\ MuFree
  /\ LET s == snap[reloading] IN
     Build(g, s.running \/ (s.pending /\ ColdBootStart(rconf, s.desired)),
           s.desired)
  /\ successor' = [successor EXCEPT ![rold] = g]
  /\ rpc' = "cancel"
  /\ UNCHANGED <<ready, mgr, shutdowns, cancelled, status, alive, chanVars,
                 cur, retired, sawReady, fwd, fwdTo, callerVars, res, reloading,
                 reloaded, rold, rconf, snap, reqVars, stopHeld>>

ReloadDelete ==
  /\ rpc = "delete" /\ MuFree
  /\ services' = NoInst
  /\ rpc' = "cancel"
  /\ UNCHANGED <<ready, mgr, shutdowns, msVars, chanVars, loopVars,
                 callerVars, res, reloading, reloaded, rold, rnew, rconf, snap,
                 reqVars, stopHeld>>

ReloadCancel ==
  /\ rpc = "cancel"
  /\ cancelled' = [cancelled EXCEPT ![rold] = TRUE]
  /\ IF rconf = NoConfig
       THEN Finish(reloading)
       ELSE rpc' = "start" /\ UNCHANGED <<reloading, reloaded, rold, rnew, rconf>>
  /\ UNCHANGED <<mgrVars, conf, successor, desired, status, alive, chanVars,
                 loopVars, callerVars, res, snap, reqVars, stopHeld>>

\* A name that is new has no state file (cleanOrphans removed it), so it has
\* never run and nobody stopped it.
ReloadCreate(g) ==
  /\ rpc = "create" /\ MuFree
  /\ Build(g, ColdBootStart(rconf, "running"), "running")
  /\ stopHeld' = FALSE
  /\ rpc' = "start"
  /\ UNCHANGED <<ready, mgr, shutdowns, cancelled, successor, status,
                 alive, chanVars, cur, retired, sawReady, fwd, fwdTo, callerVars,
                 res, reloading, reloaded, rold, rconf, snap, reqVars>>

\* startServiceLoop does not look at the manager's context.
ReloadStart ==
  /\ rpc = "start"
  /\ Goto(rnew, "select")
  /\ Finish(reloading)
  /\ UNCHANGED <<mgrVars, msVars, chanVars, cur, retired, pending, sawReady, fwd,
                 fwdTo, callerVars, res, snap, reqVars, stopHeld>>

-----------------------------------------------------------------------------
(* Stop: cancel the context, then wait for the loops.                      *)
Cancel ==
  /\ mgr = "up"
  /\ mgr' = "cancelled"
  /\ UNCHANGED <<services, ready, shutdowns, msVars, chanVars, loopVars,
                 callerVars, res, reloadVars, reqVars, stopHeld>>

StopReturns ==
  /\ mgr = "cancelled"
  /\ \A g \in Instances : pc[g] \in {"none", "built", "exited"}
  /\ mgr' = "stopped"
  /\ UNCHANGED <<services, ready, shutdowns, msVars, chanVars, loopVars,
                 callerVars, res, reloadVars, reqVars, stopHeld>>

-----------------------------------------------------------------------------
CallerStep(c) ==
  \/ \E k \in OpKinds : Lookup(c, k)
  \/ Send(c) \/ SendGone(c) \/ Receive(c) \/ WaitGone(c)

OpStep(g) ==
  \/ RefuseOp(g) \/ BeginOp(g)
  \/ EndQuery(g) \/ EndStart(g) \/ EndStop(g) \/ EndRestart(g)
  \/ EndInternalStop(g)

DeployStep(g) ==
  \/ Stash(g) \/ BeginDeploy(g)
  \/ DeployStepFails(g) \/ SelfDeployed(g)
  \/ DeployRestarts(g) \/ DeployRestartFails(g)

ExitStep(g) ==
  TakeDone(g) \/ AfterDrain(g) \/ Forward(g) \/ Chase(g) \/ Found(g) \/ Enqueue(g)

LoopStep(g) ==
  OpStep(g) \/ SeeReady(g) \/ EndStartup(g) \/ DeployStep(g) \/ ExitStep(g)

ReloadStep ==
  \/ \E x \in Reloads, c \in Configs \cup {NoConfig} : ReloadBegin(x, c)
  \/ ReloadSend \/ ReloadGone \/ ReloadReply
  \/ \E g \in Instances : ReloadSwap(g) \/ ReloadCreate(g)
  \/ ReloadDelete \/ ReloadCancel \/ ReloadStart

\* What the code does of its own accord.
SystemStep ==
  \/ \E c \in Callers : CallerStep(c)
  \/ \E g \in Instances : LoopStep(g)
  \/ ReloadStep
  \/ StopReturns

\* What the program is exposed to.
EnvironmentStep ==
  \/ \E g \in Instances : ChildExit(g)
  \/ \E r \in Requests : Request(r)
  \/ SignalReady \/ Cancel

\* Closing shutdownCh a second time panics, which ends the program.
Next == shutdowns < 2 /\ (SystemStep \/ EnvironmentStep)

Spec == Init /\ [][Next]_vars

\* Goroutines are scheduled, backend calls and deploy steps return, and the app
\* opens the readiness gate after a timeout at the latest, unless it is shutting
\* down.  Strong fairness where the Go runtime gives it: select picks among the
\* ready cases at random, and blocked senders are served in order.  Nothing is
\* assumed of users, children or the directory.
Running(A) == shutdowns < 2 /\ A

Fairness ==
  /\ \A c \in Callers :
       SF_vars(Running(Send(c) \/ SendGone(c) \/ Receive(c) \/ WaitGone(c)))
  /\ \A g \in Instances :
       /\ WF_vars(Running(LoopStep(g)))
       /\ SF_vars(Running(SeeReady(g) \/ Stash(g) \/ BeginDeploy(g) \/ TakeDone(g)))
  /\ SF_vars(Running(reloading # NoReload /\ ReloadStep))
  /\ WF_vars(Running(mgr = "up" /\ SignalReady))

LiveSpec == Spec /\ Fairness

-----------------------------------------------------------------------------
(* Properties.                                                             *)

\* The shape of the state: every variable keeps to its type, and no queue
\* exceeds its capacity.
TypeManager ==
  /\ services \in Instances \cup {NoInst}
  /\ ready \in BOOLEAN
  /\ mgr \in {"up", "cancelled", "stopped"}
  /\ shutdowns \in 0..2

TypeServices ==
  /\ conf \in [Instances -> Configs \cup {NoConfig}]
  /\ cancelled \in [Instances -> BOOLEAN]
  /\ successor \in [Instances -> Instances \cup {NoInst}]
  /\ desired \in [Instances -> Desired]
  /\ status \in [Instances -> {"idle", "deploying", "failed", "running"}]
  /\ alive \in [Instances -> BOOLEAN]

TypeQueues ==
  /\ opCh \in [Instances -> Seq(Messages)]
  /\ \A g \in Instances : Len(opCh[g]) <= OpCap
  /\ deployCh \in [Instances -> SUBSET Requests]

TypeLoops ==
  /\ pc \in [Instances -> LoopPcs]
  /\ cur \in [Instances -> Messages \cup {NoReload}]
  /\ \A g \in Instances : pc[g] = "op" => cur[g] \in Messages
  /\ retired \in [Instances -> BOOLEAN]
  /\ pending \in [Instances -> BOOLEAN]
  /\ sawReady \in [Instances -> BOOLEAN]
  /\ fwd \in [Instances -> SUBSET Requests]
  /\ fwdTo \in [Instances -> Instances \cup {NoInst}]

TypeOps ==
  /\ opPc \in [Callers -> {"idle", "send", "wait", "retry", "gone"}]
  /\ opKind \in [Callers -> OpKinds \cup {"query"}]
  /\ opOn \in [Callers -> Instances \cup {NoInst}]
  /\ res \in [Messages -> Results]
  /\ ran \in [Callers -> BOOLEAN]

TypeReload ==
  /\ reloading \in Reloads \cup {NoReload}
  /\ rpc \in ReloadPcs
  /\ rpc # "idle" => reloading \in Reloads
  /\ reloaded \in SUBSET Reloads
  /\ rold \in Instances \cup {NoInst}
  /\ rnew \in Instances \cup {NoInst}
  /\ rconf \in Configs \cup {NoConfig}
  /\ snap \in [Reloads -> Snapshots]

TypeRequests ==
  /\ req \in [Requests -> {"idle", "queued", "started", "reported", "refused", "dropped"}]
  /\ reqOn \in [Requests -> Instances \cup {NoInst}]

TypeOK ==
  /\ TypeManager /\ TypeServices /\ TypeQueues /\ TypeLoops
  /\ TypeOps /\ TypeReload /\ TypeRequests
  /\ stopHeld \in BOOLEAN

\* The service never runs twice: whatever ops, deploys, cold-boot starts and
\* reloads overlap, at most one generation has a live child ("the swap would
\* otherwise run two copies of the process", manager.go:988).
OneChild == \A g, h \in Instances : alive[g] /\ alive[h] => g = h

\* "service was reloaded; retry" is true: an op answered that way never
\* touched the old backend, so retrying it does not do it twice.
ReloadedNotRun ==
  \A c \in Callers :
    \/ opPc[c] = "retry"
    \/ opPc[c] \in {"send", "wait"} /\ ReplyNow(c) = "reloaded"
      => ~ran[c]

\* A service the operator stopped stays down until an operator start, a
\* restart, a deploy or its removal: no pending cold-boot start and no reload
\* brings it back.
OperatorStopHolds == stopHeld => \A g \in Instances : ~alive[g]

\* An accepted deploy is in exactly one place, a channel or the hands of a
\* retiring loop, until it starts or is reported: it is neither lost nor run
\* twice on the way from a service to its replacement.
HeldBy(r) == {g \in Instances : r \in deployCh[g] \cup fwd[g]}

EachRequestInOnePlace ==
  \A r \in Requests :
    /\ req[r] = "queued" => Cardinality(HeldBy(r)) = 1
    /\ req[r] # "queued" => HeldBy(r) = {}
    /\ \A g \in Instances : ~(r \in deployCh[g] /\ r \in fwd[g])

\* "It targets the recorded successor, never whatever service now has the
\* same name" (manager.go:563): a deploy only moves to generations that
\* replaced the one it was requested for, so a service that is removed and
\* added again does not inherit the deploys of the removed one.
Replaces(g, h) == successor[h] = g

DeployStaysInLineage ==
  \A r \in Requests, g \in Instances :
    g \in HeldBy(r) =>
      \A S \in SUBSET Instances :
        reqOn[r] \in S /\ (\A h \in S, i \in Instances : Replaces(i, h) => i \in S)
          => g \in S

\* While the manager runs, no accepted deploy is left on the channel of a loop
\* that has exited, where nobody would run it or report it ("run on the
\* successor or reported through DeployFailed", the point of forwardDeploy).
NoDeployStranded ==
  mgr = "up" => \A g \in Instances : pc[g] = "exited" => deployCh[g] = {}

\* How far that is true: a deploy is only left behind on a generation that has
\* replaced another and was then replaced or removed itself, so that a single
\* Reload leaves none behind.
StrandedByTwoReloads ==
  mgr = "up" =>
    \A g \in Instances : pc[g] = "exited" /\ deployCh[g] # {} =>
      cancelled[g] /\ \E h \in Instances \ {g} : successor[h] = g /\ cancelled[h]

OneReloadStrandsNone == (\A x, y \in Reloads : x = y) => NoDeployStranded

\* "deploying" is shown for the current service only while a deploy is queued,
\* running or being handed on: it never sticks when nothing is left to do.
DeployingMeansPending ==
  \A g \in Instances :
    services = g /\ status[g] = "deploying" /\ mgr = "up" =>
      deployCh[g] # {} \/ fwd[g] # {} \/ pc[g] = "deploy"

\* shutdownCh "is closed when a self-deploy succeeds": closing it a second
\* time would panic, so at most one self-deploy may get that far.
SelfDeployOnce == shutdowns < 2

\* How far that is true: a second close takes two requests that were started.
TwoClosesTwoDeploys ==
  shutdowns = 2 => \E q, r \in Requests : q # r /\ req[q] = "started" /\ req[r] = "started"

\* Once the internal stop has retired a generation, no queued op, deploy or
\* cold-boot start brings its child back, and it stays retired.
RetiredInert ==
  [][\A g \in Instances : retired[g] => retired'[g] /\ ~alive'[g]]_vars

\* Every call of Do returns, whether its service is served, replaced, removed
\* or shut down while the call waits.
OpsAnswered ==
  \A c \in Callers : opPc[c] \in {"send", "wait"} ~> (opPc[c] \in {"idle", "retry", "gone"} \/ shutdowns = 2)

\* A Reload that began returns: it is not left waiting for a loop that exits.
ReloadReturns ==
  \A x \in Reloads : reloading = x ~> (x \in reloaded \/ shutdowns = 2)

\* Every accepted deploy is started, reported, or dropped by a shutdown.
DeploysResolved ==
  \A r \in Requests :
    req[r] = "queued" ~> (req[r] # "queued" \/ mgr # "up" \/ shutdowns = 2)

-----------------------------------------------------------------------------
(* All generations of a service together, with their queues, reloads and   *)
(* the handing on of deploys, are one service that does one thing at a     *)
(* time: see SerialService.                                                *)

\* How far the op of a call is, whoever has it.
Progress(c) ==
  CASE opPc[c] = "idle" -> "idle"
    [] opPc[c] = "send" -> "calling"
    [] opPc[c] \notin {"idle", "send"} /\ ran[c] -> IF res[c] = "none" THEN "serving" ELSE "served"
    [] OTHER -> IF res[c] = "none" /\ opPc[c] # "retry" THEN "queued" ELSE "refused"

\* What the loop of a generation does apart from the ops of callers.
ChoreOf(g) == IF pc[g] = "op" /\ cur[g] \in Reloads THEN "reload" ELSE pc[g]

Ops    == [c \in Callers |-> Progress(c)]
Doing  == {"startup", "deploy", "reload"} \cap {ChoreOf(g) : g \in Instances}
Up     == \E g \in Instances : alive[g]

Serial == INSTANCE SerialService WITH
  Clients <- Callers, Kinds <- OpKinds, Deploys <- Requests,
  op <- Ops, kind <- opKind, chore <- Doing, running <- Up, held <- stopHeld, request <- req

ServesOneByOne == Serial!ServiceSpec

-----------------------------------------------------------------------------
(* What OneChild, RetiredInert, ReloadedNotRun and OperatorStopHolds rest  *)
(* on: inductive invariants that name how the parts hang together.         *)

\* A generation whose loop was built and that is not retired is the current
\* one; only such a generation has a child or runs anything.
CurrentOrRetired ==
  \A g \in Instances :
    /\ pc[g] # "none" /\ ~retired[g] => services = g
    /\ alive[g] => pc[g] \notin {"none", "built"} /\ ~retired[g]
    /\ pc[g] \in {"op", "startup", "deploy"} => ~retired[g]
    /\ pending[g] => ~retired[g] /\ pc[g] # "none"
    /\ pc[g] = "none" => ~retired[g]

\* Reload works on the service it found, and only takes it out of the map once
\* it is retired; the internal stop of a Reload goes to that service only.
ReloadOwnsOld ==
  /\ rpc = "create" => services = NoInst
  /\ rpc \in {"send", "wait", "swap", "delete"} => services = rold /\ rold \in Instances
  /\ rpc \in {"swap", "delete", "cancel"} => rold \in Instances /\ retired[rold]
  /\ rpc = "delete" => rconf = NoConfig
  /\ rpc = "start" \/ (rpc = "cancel" /\ rconf # NoConfig) =>
       rnew \in Instances /\ pc[rnew] = "built"
  /\ reloading \notin reloaded
  /\ \A x \in Reloads, g \in Instances :
       cur[g] = x \/ (\E i \in DOMAIN opCh[g] : opCh[g][i] = x) =>
         x \in reloaded \/ (x = reloading /\ g = rold)
  /\ \A x \in Reloads :
       res[x] = "done" => x \in reloaded \/ (x = reloading /\ rold \in Instances /\ retired[rold])

CoreInv == TypeOK /\ CurrentOrRetired /\ ReloadOwnsOld

=============================================================================
