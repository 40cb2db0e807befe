# MezzaOps in TLA+

MezzaOps is a daemon that supervises a host's services: it starts, stops and
deploys them on behalf of chat users, of webhooks and of a command line. These
modules model the parts of it where things happen at the same time, get lost or
are cut off in between: the service manager with its goroutines, the process
backend with the children it watches, what the state file carries from one run
of the program to the next, the app that wires everything together and shuts it
down, and the chat frontends that connect, drop and reconnect. TLC checks them
on small instances; TLAPS proves the safety properties, and three refinements,
for instances of any size.

Paths are relative to the repository; `manager.go`, `process.go` and so on are
in `internal/service/`.

## The system

| Component | State | Operations | Who touches it |
|---|---|---|---|
| Service manager (`manager.go`) | services map under `m.mu`, context, `readyCh`, `shutdownCh` | `Do`, `RequestDeploy`, `Reload`, `StartAll`, `StopAll`, `Stop`, `SignalReady` | every frontend, webhook handler, CLI, dashboard |
| Service loop (`manager.go`) | `opCh` (10), `deployCh` (1), `retired`, pending cold-boot start, `exitCh` | one goroutine per generation of a service; serialises ops, deploys, the exit of its child | callers by `opCh`, Reload by an internal stop, `cancel()` |
| Process backend (`process.go`) | `pid`, `pgid`, `process`, `done` under `p.mu` | `Start`, `Stop`, `Restart`, `Status`, `TryAdopt`, `WaitForExit` | its loop, the wait goroutine, `pollAlive` |
| Process verification (`adopt.go`) | none | `verifyProcess` and its rules for Linux and macOS | `TryAdopt`, `cleanOrphans` |
| Cold boot (`newManagedService`) | state file, boot ID | adopt, autostart or leave alone | manager construction, Reload |
| State file and lock (`state.go`, `lock_unix.go`) | one JSON file per service, one flock | atomic save, load, stamp | loops, boot, a second instance |
| systemctl, launchctl backends | none | one command per operation | loops |
| Deploy runner (`internal/deploy`) | none | shell steps in order, stop at the first failure | `executeDeploy` |
| App (`internal/app`) | frontends, confirmations, cancel function, readiness gate | `Run`, `Shutdown`, `HandlePush`, `Confirm`, `waitForReady` | `main`, webhook handler, bots |
| `main.go` | signal channel, context | signal goroutine, CLI, exit | the system, the user |
| Webhook handler (`internal/webhook`) | secret | checks a push and calls `HandlePush` | the web server |
| Confirmation tracker (`confirmation.go`) | pending deploys with an expiry | `AddPending`, `IsPending`, `Confirm` | app |
| Reconnect loop (`internal/reconnect`) | delay | attempt, classify, wait with a capped, jittered backoff | every bot |
| Telegram bot | offset, drained flag, outbox, sender goroutine | connect, drain, poll, dispatch, send | Bot API, manager's notifier |
| Matrix bot | room, published client, crypto helper | connect, sync, `PostMessage` | homeserver, notifier |
| Mattermost bot | identity, channel, websocket | connect, listen, `PostMessage` | server, notifier |
| Discord bot | session, command list, `statusCh` | connect, register commands, presence, reload | library goroutines, `onChange` |
| Dashboard, CLI, configuration, log files, formatting | none or constant | call the manager, parse | users |

Where the behaviour is hard:

* **Reload against everything.** A reload stops a service *through its own
  loop*, swaps a new generation into the map, cancels the old loop and starts
  the new one. Callers, deploys and the cold-boot start may be anywhere in
  between.
* **Deploys must not get lost.** `RequestDeploy` answers at once; the deploy
  waits on a channel of capacity one for readiness, and a loop that is being
  replaced hands it to its successor.
* **Callers must not hang.** A loop may exit while ops are being queued.
* **Children are watched from several goroutines**: the one that spawned them,
  a poller for those adopted from an earlier run, and the loop.
* **Crashes and reboots** decide what the next start may adopt or autostart.
* **A push looks at the services map three times**, and reloads fall between.
* **Two goroutines call `Shutdown`**, and main may be gone before either ends.
* **A chat delivers late, twice or not at all.** The Telegram bot acknowledges
  an update by its next poll and forgets its offset with the program.
* **A connection is rebuilt while others use it**: a Matrix message is taken to
  a client that the next attempt replaces; Discord's handlers outlive the
  goroutine that reads their channel.

What makes each component correct: at most one child per service; an operator's
stop is not undone; a refused op has not run; an accepted deploy is run, handed
on or reported; calls return; a stop kills; a child is never forgotten; a pid
that was reused is never adopted; a command from chat runs at most once and, once the
bot is ready, is not skipped; a service that asks first is not deployed
unasked; the lock outlives the loops; the gate opens for the right reason;
every frontend comes back; no Matrix message leaves unencrypted.

## Modules

| Module | Models | Composed with |
|---|---|---|
| `SerialService` | what the manager promises about one service: the abstract specification of `ServiceManager` | |
| `ServiceManager` | manager, loops, calls, deploys and reloads of one service name | implements `SerialService`; takes a backend to be a child that is alive or not |
| `Backend` | what a backend is to its manager: the abstract specification of `ProcessBackend` | |
| `ProcessBackend` | one process backend with its loop, goroutines, children and pids | implements `Backend`; is what `ServiceManager` abstracts as `alive` |
| `ColdBoot` | one service over several runs of the program and boots of the host: state file, verification, adoption, autostart | an op is its effect and its save; what happens inside a run is in the other two |
| `App` | main, `Run`, `Shutdown`, webhook server, pushes, confirmations | of the manager: the map, the life of the loops, the lock |
| `CommandFeed` | what a chat frontend promises its users: the abstract specification of `TelegramBot` | |
| `TelegramBot` | connect, drain and poll loop, outbox and sender, Bot API server, restarts of the program | implements `CommandFeed` (`INSTANCE ... WITH`) |
| `Reconnect` | `RunWithBackoff` and `nextBackoff` | extended by the three bots below |
| `MatrixBot`, `MattermostBot`, `DiscordBot` | `runOnce` of each, with the goroutines that use its state | composed in `Frontends` |
| `Frontends` | the readiness gate and the context over the configured bots | extends the bots; the Telegram bot takes part by its `markReady` |
| `MC_*` | constants, symmetry and the restrictions of an instance for TLC | |
| `*Proofs` | theorems about the module of that name | `DeployProofs` and `OpProofs` are the second and third part of `ServiceManagerProofs` |

### ServiceManager

One service name with several *generations*: a `managedService` value for each
configuration a reload brings in. Loops of different names share `m.mu`, the
readiness channel, the manager's context and `shutdownCh` only, so one name
with several generations has every interaction; `StartAll` and `StopAll` are
calls of `Do` for each name.

| Variables | Code |
|---|---|
| `services`, `ready`, `mgr`, `shutdowns` | `m.services[name]`, `readyCh` closed, `m.ctx` and the end of `Stop`, number of `close(shutdownCh)` |
| `conf`, `cancelled`, `successor`, `desired`, `status`, `opCh`, `deployCh` | fields of `managedService`; `deployCh` holds the set of requests its one token stands for |
| `alive` | the backend's child |
| `pc`, `cur`, `retired`, `pending`, `sawReady`, `fwd`, `fwdTo` | control point and local variables of `serviceLoop` (`startupPending`, `readyC`, `forwardDeploy`, `target`) |
| `opPc`, `opKind`, `opOn`, `res` | callers in `Do` and `doOn`, and the buffered result channels |
| `reloading`, `rpc`, `rold`, `rnew`, `rconf`, `snap` | the call that holds `reloadMu`, its control point and local variables |
| `req`, `reqOn`, `ran`, `stopHeld` | what became of a deploy request, and history variables the properties use |

Actions follow the code between two points where another goroutine can be
seen: a channel operation, a lock, the start and the end of a backend call.
`Lookup`, `Send`, `SendGone`, `Receive`, `WaitGone` are `Do`/`doOn`;
`BeginOp` ... `EndInternalStop` are `handle` before and after the backend call;
`SeeReady`/`EndStartup` the cold-boot start; `Stash`, `BeginDeploy`, ...
`DeployRestartFails` deploys; `TakeDone`, `AfterDrain`, `Forward`, `Chase`,
`Found`, `Enqueue` the exit of a loop with `forwardDeploy`; `ReloadBegin` ...
`ReloadStart` are `Reload`. `forwardDeploy` holds `m.mu` over `Chase`, `Found`
and `Enqueue`, and every action that takes `m.mu` waits for it (`MuFree`);
`cancel()` does not take it, which is where `NoDeployStranded` fails.

Abstractions: a deploy's steps succeed or fail; a status query, a start, a stop
and a restart may fail; a child may die at any moment; a configuration is a
record of what the start policy depends on and a revision. The notifier and
`onChange` are calls that change nothing here. The state file is not a
variable: it is written before each reply, and a generation created by a reload
reads back what the snapshot carries. A new name starts without a state file
(`cleanOrphans` removed it), with a state directory configured. The program may
start (`InitService`) with a child that was adopted, with a dead one whose start
is pending, with one that is left alone, and, for a systemctl or launchctl
service with `adopt: false`, with a unit that runs and is to be restarted. `LoadServices`
errors end a Reload without effect and are left out. A retired loop ignores the
end of its child; a loop that is not retired only reports it.

`SerialService` is one server without loops, queues or generations. An op of a
client is called, queued, and then served or refused, once; the call returns
with the answer, or before the op was queued. Apart from ops there are chores:
the cold-boot start, a deploy, the stop of a reload. The server does one thing
at a time, a start of its own never follows a stop of the operator, and what was
asked for as a deploy is started, reported or dropped once. Under the mapping
(`Serial` in `ServiceManager`) an op is served while a loop has it (`ran`, no
answer yet) whichever generation that is, and refused as soon as its caller gave
up on it unrun; the chore is that of any loop; the process runs if the child of
some generation does. A reload that swaps generations, the walk along
successors, `cancel` and the exit of a loop are stutters, so the refinement says
that clients cannot tell how many generations there have been.

### Backend and ProcessBackend

| Variables | Code |
|---|---|
| `kid`, `pidOf`, `foreign`, `killed` | the children, the pids the system gave them, pids in use by other programs, children sent SIGKILL |
| `pid`, `done` | `p.pid` (equal to `p.pgid`) and `p.done`, named by the child it belongs to |
| `watch` | the goroutine of each child: `cmd.Wait` and close, or `pollAlive` |
| `lpc`, `then`, `stopPid`, `stopping`, `exitCh` | the loop: in its select, between the op and reading `WaitForExit` again, in `Stop` waiting for `done` before or after SIGKILL, about to do the Start of a Restart |
| `told`, `wiped` | history: exits the loop noticed; a poller cleared the record of another child |

`Start` is one action because it holds `p.mu` throughout. `Stop` clears the
record under the lock and then waits without it. `isRunning` is `kill(pid, 0)`:
true for a zombie and for any process that has the pid now. A child stands for
its process group.

`Backend` is the child the manager thinks of: started when there is none, ended
by itself at any time, and certainly by the time a Stop returns. It has one step
more, `ChildLost`, for what the code does besides: the late end of an adopted
child takes the next one out of sight. Under the mapping (`Seen` in
`ProcessBackend`) the child is the live one that is recorded or that Stop waits
for. Pids, records, signals, zombies, polls and the exit channel are stutters;
that `Start` sees a live recorded child through its pid, and that no other step
drops a record, is what the refinement says.

### ColdBoot

| Variables | Code |
|---|---|
| `boot`, `clock`, `births`, `proc` | the host: its boot ID, steps of its clock, and the process that has each pid, with the start ticks it got |
| `file` | the state file: `desired_status`, `status`, `boot_id` and the backend's record (`pid`, `boot_id`, `boot_time`, `create_time`, `start_id`) |
| `dpc`, `acting` | the program: off, constructed but with its writes still to do, in the loop, between the effect of an op and its save |
| `unread` | `LoadState` failed in this run although there is a file |
| `pending`, `desired`, `recorded` | `autostartOnReady`, `DesiredStatus`, `recordedBootID` |
| `pid`, `held`, `polled` | `p.pid`, the process whose exit channel the loop holds, and whether it was adopted |
| `written`, `stop`, `served`, `mistaken`; `ours` and `who` of a record | history the properties use: whether the last save succeeded, whether an operator's stop was answered and written, what a stranger was recognised by |

`Launch` is `newManagedService` up to its writes, with `TryAdopt` and
`verifyProcess` (`Verify`, which follows the order of the checks in the code);
`Bookkeep` is the writes; `Startup` the cold-boot start; `Op` an op up to its
save and `Save` is `saveServiceState`, which may fail; `Exited` the exit event;
`CleanOrphans` a start of the program without this service in its
configuration. `Crash` is also an orderly end of the program, which writes
nothing and leaves children running. A second program at the same time is
excluded by the flock of `lock_unix.go`, which the kernel drops with its
holder, so `Launch` needs the program to be off.

What fails is part of the model. `LoadState` may fail although there is a file
(manager.go:255): the program then restores nothing, takes the desired status
for empty and has nothing to adopt (`unread`, and `f` in `Launch`), while
`neverRan` stays false. A write may fail: the error is only logged, and an
operator who asked for a stop is answered all the same (manager.go:472-477,
859), so the ghost `stop` tells an answered stop from a written one.

Abstractions: a time is a tuple of boot, ticks and, on Linux, the steps of the
clock. Equal times match; times that differ may be within the tolerances of
`sameBoot` (10 s) and, on Linux, `createTimeMatches` (1 s) or not, and each look
at the host chooses (`Looks`), which allows more than real clocks do. A match by
tolerance is "near" in the model and "verified" in the code; the two are kept
apart for the properties. Ticks are counted per boot, so they do collide across
boots. Verification looks at the host at one instant: the second look of `goneAfter` gives no verdict that a process which
died before the first does not give. The two lookups of a save fail together.
A child is dead when it ends (`ProcessBackend` has zombies). Deploys and
reloads are left out.

### App

| Variables | Code |
|---|---|
| `interactive`, `cli`, `exited` | the `-i` flag, `cli.Run`, main has returned |
| `run`, `runDone`, `mainDone` | `App.Run`, `a.cancel` was called, main's context is done |
| `shutdown`, `server`, `late`, `loops`, `lock` | where the signal goroutine and main are in `Shutdown`; the webhook server; whether its five seconds ran out; the service loops; the flock |
| `setting` | the services map: absent, for another repository, deployed on a push, asks first |
| `push`, `target` | where each call of `HandlePush` is and the service it found |
| `pending`, `confirm` | the tracker with its expiry, the user whose confirmation was accepted |
| `asks`, `asked`, `confirmed` | history the properties use |

`FindService`, `ReadSetting` and `AskConfirmation` or `RequestDeploy` are the
three looks of `HandlePush` at the manager, each under its own hold of `m.mu`;
`Reconfigure` is a reload between them. `ShutdownStarts`, `ServersDown`,
`LoopsEnd` and `ShutdownEnds` are `Shutdown` for either caller, with
`Manager.Stop`. `Exit` is the return of main: without `-i` when `Run` has
returned, with `-i` after main's own `Shutdown`. A self-deploy that closes
`shutdownCh` comes as a signal. Loops end by themselves once cancelled, which
`mgr_live` and `StopReturns` are about.

### CommandFeed and TelegramBot

| Variables | Code |
|---|---|
| `updates`, `forgotten` | the Bot API: all updates by id, and how far they are acknowledged |
| `pc`, `offset`, `drained`, `ready`, `batch` | the goroutine that connects, drains and polls; fields of `Bot` |
| `outbox`, `sender`, `sending`, `attempt` | the queue, the sender goroutine, the message in flight, its retries after 429 |
| `boots`, `cancelled` | runs of the program, the context of `Run` |
| `handled`, `posted`, `queued`, `readyAt` | history: commands run, messages in the chat, messages given to `enqueue`, updates at the time of `markReady` |

A poll acknowledges what is before its offset and answers with the oldest
updates after it; a call may fail before or after the server did its part.
`Dispatch` and `Reply` are the two ends of `dispatchCommand`, and the program
may `Die` between them or anywhere else: what is in memory is gone, the server
and the chat stay. `Accepted` is `handleUpdate`: configured chat, a person or an
admin who writes as the group, a command for this bot. `Reconnect` (the action)
is the wait of `RunWithBackoff`, whose delays are in the module `Reconnect`.

`CommandFeed` has four steps: an update arrives, the feed opens at an update it
has not reached yet, takes the next one, or closes. Under the refinement
mapping the feed is open when the bot is ready, and its next update is the
first that is neither acknowledged nor before the offset. The connection, polls,
failures, retries, acknowledgements and the outbox are stutters.

### Reconnect, MatrixBot, MattermostBot, DiscordBot, Frontends

`Reconnect` has the loop of each frontend (`trying`, `waiting`, `returned`) and
its delay in whole milliseconds; an attempt is a sequence of steps in the bot's
module that ends in `AttemptFails` or `AttemptReturns`.

| Module | Variables | Code |
|---|---|---|
| `MatrixBot` | `mStep`, `mine`, `room`, `stores`, `crypto`, `client`; `post`, `via` | `runOnce` with the client of the attempt, `b.roomID`, clients whose crypto helper has the database open, clients with an initialised helper, `b.client`; each call of `PostMessage` and the client it took |
| `MattermostBot` | `mmStep`, `channel` | `runOnce`, the resolved channel |
| `DiscordBot` | `dStep`, `session`, `commands`, `registered`; `statusCh`, `status`, `counted`, `shown`, `blocked`, `telling`; `handler`, `list` | `runOnce` and `b.session`, `b.commands`, what Discord has; `runStatusLoop` with its channel, the handlers that wait for room, service loops about to call `onChange`; the reload handlers |
| `Frontends` | `gate`, `waitsFor`, `timedOut` | `waitForReadyChannels` |

States and names of services are numbered by their changes, so "up to date" is
an equality of numbers. The discord library may call the Ready and Resumed
handlers whenever it has connected again, and by then Discord has lost the
presence (`shown` is 0). A reload handler takes the published session and sends
the commands in a later step, by a REST call that a closed session makes as
well. A Mattermost server may close the connection in the normal way
(`ClosedNormally`): the event channel is closed and there is no listen error, so
`connectAndListen` goes round and round, deaf, until the context ends or a late
ping timeout arrives. A crypto client may be taken for a later attempt once
nobody holds it.

## Runs

| Run | Checks | Bounds | States |
|---|---|---|---|
| `mgr_ops` | `OneChild`, `OperatorStopHolds`, `ReloadedNotRun`, `RetiredInert`, `ServesOneByOne` | 2 generations, 1 caller that calls again and again with every kind of op, then 1 request, 1 reload, 4 start policies, queue of 1 | 1.59 M |
| `mgr_deploys` | `EachRequestInOnePlace`, `DeployStaysInLineage`, `DeployingMeansPending` | 3 generations, 2 reloads, 1 request | 430 k |
| `mgr_live` | `OpsAnswered`, `ReloadReturns`, `DeploysResolved` | 2 generations, 1 reload, and 1 caller or 1 request | 74 k |
| `proc_children` | `TypeOK`, `NoStrayChild`, `StopKills`, `ImplementsBackend`, `StopEnds`, `ExitNoticed` | 3 children, 2 pids, adopted or spawned | 80 k |
| `cold_boot` | `LoopRecordsItsChild`, `TakenIsOurs`, `AutostartNeverDuplicates`, `OperatorStopSurvives`, `StartsAfterReboot` | 2 boots, 2 processes per boot, 2 pids, 1 clock step, Linux and macOS with a boot ID and a host without one, adopting and not, any number of crashes, failed reads and writes | 1.29 M |
| `telegram` | `RunOnceInOrder`, `NoneSkippedOnceReady`, `PostedInOrderOnce`, `ImplementsFeed`, `UpdatesReached`, `QueueMoves`, `RunReturns` | 2 runs of the program, 2 updates (an admin who writes as the group, another bot), batches of 2, outbox of 1, 1 retry, 1 notification besides the replies | 58 k |
| `app_push` | `NoUnaskedDeploy`, `ConfirmedOnce`, `HandlersFirst`, `LockOutlivesLoops`, `SignalEnds` | 1 service name, 2 pushes, 2 users, 2 changes by reloads, both modes | 149 k |
| `frontends` | `PublishedEncrypts`, `GateWaitsForAll`, `LoneReloadRegisters`, `BackoffSane`, `ComesUpOrLeaves`, `PresenceCatchesUp` | 4 sets of frontends, 2 Matrix clients, 1 message, presence queue of 1, 2 reload handlers, 2 reloads, 1 change, 1 new connection, delays from 4 to 8 ms | 184 k |
| `mgr_stranded` | `NoDeployStranded` fails | 3 generations, 2 reloads, 1 request | |
| `mgr_self_deploy` | `SelfDeployOnce` fails | 1 generation, 2 requests | |
| `proc_adopted` | `OneCopy` fails | 3 children, 2 pids | |
| `app_exit` | `StopsBeforeExit` fails | a signal, nothing else | |

Why the bounds are enough to see the interesting cases:

* **Manager.** `Instances` bounds the generations one name goes through; two are
  needed for a replacement, three for the replacement of a replacement and for
  removing a name and adding it again. `OpCap` is 10 in the code; with 1, one
  caller and a reload already find the queue full. A caller is used again after
  each answer, so one caller gives every sequence of ops; `mgr_ops` has all its
  interleavings with a reload, whose internal stop travels through the same
  queue. A deploy is asked for when no call is under way, and no call comes after
  it (`OneKind` of `MC_ServiceManager`), so that a reload meets ops or a deploy.
  Generations, callers, requests and reloads are interchangeable, so the safety
  runs use symmetry; the liveness run does not. In `mgr_live` calls and requests
  keep apart in the same way, and the first configuration is not `Plain(2)`,
  which is `Plain(1)` under another name. Users, children and edits are under no
  fairness, so this leaves out behaviours with more of them and no others.
* **Backend.** Three children are an adopted one and two spawned ones, the
  least that lets an old poller meet a young child and a second copy; two pids
  give reuse by the next child and by other programs.
* **Cold boot.** Two pids and two processes per boot give a second copy, a pid
  used again by a stranger, and equal ticks in different boots; the program may
  be started and killed any number of times; the host starts fresh or with the
  file of an old version, whose records carry times only or nothing but a pid.
* **Telegram.** Two updates may share a batch or not, arrive before, between or
  after the drain and the readiness, and be acknowledged or not when the program
  dies; two runs of the program have a restart that forgets the offset. With an
  outbox of one, a reply and a notification already fill it, and one retry is
  the least that has both outcomes of a rate limit.
* **App.** Two pushes and two users race for one entry; two changes turn a
  setting away and back between the looks of one push.
* **Frontends.** Matrix has its own deployment, Discord its own, Mattermost and
  Telegram share one (the order of the channels matters), and none at all is the
  fourth: the bots share no state but the context and the gate. Two clients are
  the one of the attempt and the one a message still holds. In Discord either
  reloads or changes of state are looked at (`OneKind` of `MC_Frontends`):
  neither reads what the other writes. Reloads there come when the gate is
  through and no connection has failed. Delays of 4 to 8 with 20 % jitter go
  through first wait, doubling, the cut to whole milliseconds and the cap.

`CHECK_DEADLOCK FALSE` where the system may stop: the manager after `Stop`
returned or the second close of `shutdownCh`, the host after its last boot, the
program after its exit.

### Fairness

`ServiceManager`: goroutines are scheduled, backend calls and deploy steps
return (weak fairness of each loop); a caller blocked on a channel is served in
turn, and `select` picks among the ready cases at random, so a case that is
ready again and again is taken (strong fairness of callers, of Reload, and of
the readiness, deploy and done cases of a loop); the app opens the readiness
gate after a timeout unless it is shutting down. No user, child or edit of the
services directory is assumed to do anything.

`ProcessBackend`: goroutines run, timers fire, a child that got SIGKILL dies,
and the exit event is not passed over forever (`select` again).

`ColdBoot`: once started, the program goes on and the app opens the readiness
gate; nothing makes it start, stay up or get ops. `StartsAfterReboot` is about
executions in which it stays up in the end, in a run that could read the file.

`App`: goroutines run, cancelled loops end, `Server.Shutdown` has its timeout.
Signals, the end of the input, pushes and users are not assumed to come.

`TelegramBot`: both goroutines run (every call has a timeout and every wait a
timer); a call that is made again and again is answered some time (strong
fairness of `Connected`, `Drained`, `Poll`); a cancelled context, or a stopped
sender, wins a `select` some time. Nothing is assumed of users or of the end of
the program.

`Frontends`: goroutines run, `select` as above, and from some time on calls to
the chat servers are answered (`<>[][~CallFails]_vars`). A connection may drop
again and again; cancelling, reloads and changes are not assumed to come, nor is
a ping timeout of a Mattermost connection that was closed normally.

### What the failing runs show

Each of the four claims fails; a theorem says how far it holds.

* **`mgr_stranded`**: `forwardDeploy` checks that the target's context is not
  done and then sends, under `m.mu`; `Reload` cancels a context without `m.mu`.
  If the target is itself being replaced, it can drain its channels and exit
  between the two. The deploy is neither run nor reported, and the replaced
  service's status stays "deploying" on a generation nobody sees. The comment on
  `RequestDeploy` (manager.go:914) says it cannot happen. `DeploysResolved` and
  the one-place property hold in their runs because two reloads are needed, and
  because a stranded deploy still is in one place. `OnlyReplacementsStrand`: it
  takes a generation that replaced one and was then replaced or removed itself;
  `OneReloadKeepsDeploys`: a single reload leaves no deploy behind.
* **`mgr_self_deploy`**: `close(m.shutdownCh)` runs once for every self-deploy
  that succeeds; a second one that was queued in time panics.
  `ClosedOncePerDeploy`: that takes two requests which were both started.
* **`proc_adopted`**: `pollAlive` clears `p.pid` and `p.done` without looking
  whether they are still those of its child. Start a service again within two
  seconds of the death of an adopted child, and the record of the new child is
  lost: it is reported stopped, cannot be stopped, and the next start runs a
  second copy. `OneCopyWithoutAdoption`: a backend that adopted nothing never
  runs two; `NeverThreeCopies`: with adoption there are two at most.
* **`app_exit`**: without `-i`, `a.Run` returns as soon as `Shutdown` cancels
  its context, and main with it: the program ends while `Shutdown` still waits
  for handlers and loops. `AppEndsEarlyInShutdown`: it happens only without `-i`
  and in the middle of the Shutdown that a signal or a self-deploy began.

### What the models have and no run is about

A file that cannot be read counts as one that is not there, except that a
service with `adopt: false` is not autostarted for it. So a service with
`adopt: true` is autostarted in such a run beside a child that lives, and over
a stop that was recorded; `AutostartNeverDuplicates` and `OperatorStopSurvives`
except this case (`unread /\ conf.adopt`) and hold without exception for
`adopt: false`. A stop whose write failed may be undone by the next start of the
program; `OperatorStopSurvives` is about stops that were written. On Linux a
process whose creation time is within a second of the recorded one is accepted
where no start ID decides: a stranger that has the pid may be adopted or killed
as an orphan (`"clockTime" \in mistaken`), and the comment on `verifyProcess`
says no more than that records with a start ID detect pid reuse exactly, which
is `TakenIsOurs`. A Mattermost bot whose connection was closed normally does not
connect again: `ComesUpOrLeaves` counts it as listening, and checks that it
leaves with the context.

A Reload past its internal stop starts the new loop after `Stop` waited for the
loops and released the lock; that loop ends at once, its context being done,
unless its `select` takes another case first. The pid of a spawned child is not
cleared when it ends, so a save may record the identity of a stranger that has
the pid by now, and a `start` takes the stranger for the service; `TakenIsOurs`
is about records that were the program's own child. A service that is made to
ask between the second and the third look of a push is deployed unasked
(`NoUnaskedDeploy` is about services that asked all along). `Confirm` answers
true although `RequestDeploy` failed. Of two reloads in Discord that overlap,
the older list may be registered last (`LoneReloadRegisters` is about one). A
full outbox drops messages. A Matrix message may be given to a client whose
helper has been closed since: it is encrypted, and the send fails.

`ServiceManager` takes a backend to do neither of what `proc_adopted` and the
second sentence of the last paragraph show: its `alive` is `Backend` without
`ChildLost`, which by `BackendImplemented` is the only step it leaves out as far
as children go. Its `OneChild` is about several generations, `OneCopy` about one
backend.

## Theorems

All are proved by TLAPS from the named assumptions on the constants, for any
number of generations, callers, reloads, requests, children, pids, updates,
pushes and users.

| Theorem | Says | Rests on |
|---|---|---|
| `ServiceManagerProofs!TypeCorrect` | `Spec => []TypeOK` | inductive as it stands; one step per action |
| `ServiceManagerProofs!OneChildAlways` | `Spec => []OneChild` | `CoreInv` |
| `ServiceManagerProofs!RetiredStaysInert` | `Spec => RetiredInert` | `CoreInv`, `RetiredForever` |
| `DeployProofs!DeployInOnePlace` | `Spec => []EachRequestInOnePlace` | `HeldOnce`, `TargetFound` |
| `DeployProofs!DeployKeepsLineage` | `Spec => []DeployStaysInLineage` | `SuccessorsFresh`, `InLineage` |
| `DeployProofs!DeployingNeverSticks` | `Spec => []DeployingMeansPending` | `CoreInv`, `ShownInv` |
| `DeployProofs!OnlyReplacementsStrand` | `Spec => []StrandedByTwoReloads` | `ShownInv`, `StrandInv` |
| `DeployProofs!OneReloadKeepsDeploys` | `Spec => []OneReloadStrandsNone` | `StrandInv`, `OneCancelled` |
| `DeployProofs!ClosedOncePerDeploy` | `Spec => []TwoClosesTwoDeploys` | `CoreInv`, `HeldOnce`, `CloseInv` |
| `OpProofs!ReloadedOpsNotRun` | `Spec => []ReloadedNotRun` | `OpTracked` |
| `OpProofs!OperatorStopAlwaysHolds` | `Spec => []OperatorStopHolds` | `StoppedInv` |
| `OpProofs!ManagerServesOneByOne` | `Spec => ServesOneByOne` | `CoreInv`, `HeldOnce`, `ShownInv`, `OpTracked`, `StoppedInv`; every step is a step of `SerialService` or a stutter |
| `ProcessBackendProofs!NoChildStrays` | `Spec => []NoStrayChild` | `ChildInv` |
| `ProcessBackendProofs!ChildTypes` | `Spec => []TypeOK` | `ChildInv` |
| `ProcessBackendProofs!StopAlwaysKills` | `Spec => StopKills` | `ChildInv` |
| `ProcessBackendProofs!BackendImplemented` | `Spec => ImplementsBackend` | `ChildInv`, `SightInv`; every step is a step of `Backend` or a stutter |
| `ProcessBackendProofs!OneCopyWithoutAdoption` | `Spec => []OneCopyUnlessAdopting` | `SightInv` |
| `ProcessBackendProofs!NeverThreeCopies` | `Spec => []TwoCopiesAtMost` | `SightInv` |
| `ColdBootProofs!StopStaysOnDisk` | `Spec => []StopOnDisk` | inductive with `TypeOK` |
| `ColdBootProofs!OperatorStopAlwaysSurvives` | `Spec => OperatorStopSurvives` | `StopOnDisk` |
| `ColdBootProofs!BootTypes` | `Spec => []TypeOK` | inductive as it stands |
| `ColdBootProofs!TakenAlwaysOurs` | `Spec => []TakenIsOurs` | `OwnInv` |
| `ColdBootProofs!AutostartNeverDoubles` | `Spec => AutostartNeverDuplicates` | `DuplicateInv` |
| `ColdBootProofs!LoopAlwaysRecords` | `Spec => []LoopRecordsItsChild` | `RecordInv` |
| `TelegramBotProofs!TelegramTypes` | `Spec => []TypeOK` | inductive as it stands |
| `TelegramBotProofs!TelegramRunsOnce` | `Spec => []RunOnceInOrder` | `Reached` |
| `TelegramBotProofs!TelegramSkipsNone` | `Spec => []NoneSkippedOnceReady` | `Reached` |
| `TelegramBotProofs!TelegramFeed` | `Spec => ImplementsFeed` | `Reached`; every step is a step of `CommandFeed` or a stutter |
| `TelegramBotProofs!TelegramPostsInOrder` | `Spec => []PostedInOrderOnce` | `SendOrder` |
| `AppProofs!AppTypes` | `Spec => []TypeOK` | inductive as it stands |
| `AppProofs!AppAsksFirst` | `Spec => []NoUnaskedDeploy` | `AskingSeen` |
| `AppProofs!AppConfirmedOnce` | `Spec => []ConfirmedOnce` | `PendingAsked` |
| `AppProofs!AppEndsEarlyInShutdown` | `Spec => []EndsEarlyInShutdownOnly` | `ShutdownOrder`, `ShutdownCalled` |
| `AppProofs!AppLock`, `AppProofs!AppHandlersFirst` | `Spec => []LockOutlivesLoops`, `Spec => []HandlersFirst` | `ShutdownOrder` |
| `FrontendsProofs!MatrixAlwaysEncrypts` | `Spec => []PublishedEncrypts` | `MatrixInv` |
| `FrontendsProofs!LoneReloadsRegister` | `Spec => []LoneReloadRegisters` | `ReloadInv` |
| `FrontendsProofs!GateAlwaysWaits` | `Spec => []GateWaitsForAll` | `GateInv` |
| `FrontendsProofs!FrontendTypes` | `Spec => []TypeOK` | `TypesInv` |
| `FrontendsProofs!BackoffIsSane` | `GrowthOutweighsJitter` implies `Spec => BackoffSane` | `BackoffInv` |

`OneChild` is not inductive: nothing in it stops a second generation from
starting a child. `CoreInv` adds that a generation whose loop exists and that is
not retired is the one in the services map, and that only such a generation has
a child or runs anything (`CurrentOrRetired`); and that Reload works on the
generation in the map, takes it out only once it is retired, and that its
internal stop is queued with, handled by or answered by that generation only
(`ReloadOwnsOld`). The last part matters because Reload concludes "retired" from
an answer on a channel.

A deploy is in one place because what a loop sets aside and what is on a
channel never overlap, for one loop or for two (`HeldOnce`), and because a
forwarding loop has found a target before it sends (`TargetFound`). It stays in
its lineage because a walk along successors starts at the loop's own generation
(`InLineage`); a generation that Reload is about to build has no successor and
is nobody's (`SuccessorsFresh`), so a new link does not redirect an old walk.
The lineage is the least set closed under successors, stated as every closed
set that holds the start. "deploying" does not stick because a loop leaves its
select for good only when it was replaced or shut down (`LeavesReplaced`), a
walk carries something (`CarriesSome`), and the status of any other loop is
backed by a deploy (`ShownPending`).

What strands a deploy is proved from `StrandInv`: a loop on its way out is given
a deploy only by the loop it replaced (a request finds the generation in the
map, and no loop leaves before it is out of it), and such a target has a
predecessor that is cancelled. Each Reload cancels once, so with one Reload
there is only one cancelled generation (`OneCancelled`), and it is not its own
successor.

A refused op has not run because it can be followed: an op is on one channel
once (`QueuedOnce`), its call still waits or gave up and has no answer
(`Unanswered`), it counts as run exactly when a loop serves it or answered it
with a result (`RanServed`), and a call that was told to retry is on a retired
generation (`CallsSane`); together `OpTracked`. It needs that only retired
generations are cancelled (`LeavesReplaced`). A stop holds because nothing
that could start the service is left (`StoppedInv`): no start pending or under
way, no served op that starts, and nothing in what a reload noted of the old
generation. `OpTracked` is needed here as well: without it the caller of a
served op might turn it into another one.

`ServesOneByOne` puts these together. One thing at a time: a loop that works is
not retired, and the only generation that is not is the one in the map
(`CoreInv`), so no two loops work at once whatever reloads do. Once or not at
all: `OpTracked`. No start after a stop: `StoppedInv`. Each deploy settled once:
`HeldOnce`.

`NoStrayChild` needs that the recorded pid is that of the child whose channel is
recorded (`RecordMatches`), so that a live recorded child is seen to run and
`Start` is a no-op, and that a goroutine closes a channel only when its child is
dead (`WatchersKnow`), which is also why Stop kills. `SightInv` adds what is
out of sight: there is one poller at most, only an adopted child has one, a live
child is lost only when that poller wipes the record, and it is gone then. So
there are two copies at most, and none is lost without adoption.

`OperatorStopSurvives` is about one kind of step; `StopOnDisk` says what makes it
so in between: a stop that was written is in the file and in the memory of a
program that has read it, where no start is pending, so that every save writes
it again. A program that has not read it holds no child, so no exit makes it
save; its first save comes with an op or with the start that the exception is
about.

No stranger is taken for our child because a record keeps its meaning for as
long as it is in the file (`StandsForOwn` in `OwnInv`): if its boot is this one,
the number of the recorded birth belongs to the child or to nobody, since
numbers are given in order (`DistinctIn`) and an op or a birth only adds higher
ones (`Later`). Nothing of it is needed in another boot, where verification
fails on the boot ID or an absolute creation time. What is left is a creation
time that follows the clock, and `TakenIsOurs` excuses exactly that. No
autostart doubles a described child for the opposite reason: while the process a record was made of can be
alive, the file is `UpToDate`, so verification cannot answer "mismatch" and no
reboot is seen; and nothing changes the file or starts a child while a start is
pending (`PendingInv`). The loop's child is in the file because the record names
one process (`RecordIsOfOne`), because what was adopted still is the process of
the record it was adopted from (`AdoptedIsNamed`), and because of every op's
save. All this holds for hosts with and without a boot ID, with two exceptions
that `LoopRecordsItsChild` states. Where there is no boot ID to add, a bare
record of an old version that was adopted is not written again; it still has
the child's pid, and any holder of that pid would be accepted on its word. And a
process that was adopted by a near time may be another child than the one of the
record, which is put right by the next save.

`AutostartNeverDuplicates` is about children the state file describes. One
whose record was lost is not seen: the program was killed between the start and
the save, the save failed, or an op was saved in a run that had not adopted the
child, be it that the file could not be read. The code's rule that a service without a state file "has never run here"
(manager.go:256) fails in the same window. `LoopRecordsItsChild` says that
there is no other, near times aside. `TakenIsOurs` is about records of the program's own child;
those that an old version wrote without any identity are accepted on purpose
(adopt.go:145).

For Telegram, `Reached` says how far everything has come: offset and
acknowledgements never pass the newest update (`Bounds`), a bot that polls has
drained and is ready (`Stages`), the batch is exactly what follows the offset
(`BatchNext`), and what was run lies below the next update once the bot has
drained (`HandledBelow`). The last is why a restart does not run a command
twice: the drain of the next run steps over everything that was there, whatever
the server still had unacknowledged. `SendOrder` says that what is queued,
in flight and posted is one increasing sequence.

For the app, `AskingSeen` ties what the push has read to what the service has
asked since it was found; `PendingAsked` counts an entry that can still be
confirmed against the confirmations accepted; `ShutdownOrder` says how far
either caller of `Shutdown` must be for the loops and the lock to be where they
are.

For the frontends, `MatrixInv` says what an attempt holds at each of its steps:
the only open database is that of its client, a client is published only while
its attempt is past the crypto helper, and a client that a message has taken is
not handed out again. A lone reload is right because `commands` and the
handler's list agree with the manager from its read to its registration, and a
reconnect in between writes the same (`ReloadInv`). The gate counts only
channels that are ready (`GateInv`), all configured frontends are on its list
(`EveryChannel`), and being ready means to have resolved or registered what
posting needs (`CanPost`); for Discord that is the registered commands, which
no handler replaces by none, since a list is filled before it is registered.
The delays are sane because a frontend has failed in a row exactly when it has a
delay, and that delay is not shorter than the shortest first one (`BackoffInv`).
The hypothesis `GrowthOutweighsJitter` says that even this delay, doubled and
with the jitter taken off, grows by a unit: true of every bot (1 s, factor 2,
jitter 20 %: 60 % are left) and of the run, which checks it. With a jitter of one
half the delays would not grow.

Only model-checked are the liveness properties, since fairness and ENABLED are
out of the prover's reach: `OpsAnswered`, `ReloadReturns`, `DeploysResolved`,
`StopEnds`, `ExitNoticed`, `StartsAfterReboot`, `UpdatesReached`, `QueueMoves`,
`RunReturns`, `SignalEnds`, `ComesUpOrLeaves`, `PresenceCatchesUp`. The
refinements are of the safety parts. The type invariants of `ServiceManager`,
`ColdBoot`, `TelegramBot`, `App` and `Frontends` are proved and in no run.

## Not modelled

* Log files, truncation, message formatting, notifiers: text that nothing else
  depends on. A notification is a `PostMessage`.
* Configuration: loading and defaults are pure; the models take any
  configuration the code could get. `LoadServices` errors end a Reload without
  effect.
* The dashboard and the queries of the CLI read the manager and change nothing;
  the CLI's commands are calls of `Do`. With `-i`, the CLI does not look at the
  context while it reads a line (`App` has that: main waits for the input).
* The webhook handler's checks of signature, event and branch; a push in `App`
  is one that passed them.
* The systemctl and launchctl backends and the deploy runner run commands one
  after the other; in `ServiceManager` they succeed or fail.
* The commands of the bots, which call the manager and post the answer; the
  filters of Matrix and Mattermost events; Matrix's auto-join; Discord's
  interactions apart from reload.
* Deploy history in the state file, and a reload's use of it, are not in
  `ColdBoot`; `cold_boot` has a service that is adopted and one that is not but
  starts over an operator's stop, and no other policies.

What would be next: `Backend`, with `ChildLost`, in the place of `alive` in
`ServiceManager`; process groups with members that outlive their leader; the
deploy states that are saved to the state file.
