----------------------------- MODULE DiscordBot -----------------------------
(***************************************************************************)
(* The Discord frontend: runOnce inside the reconnect loop, the goroutine  *)
(* that keeps the presence up to date, the handlers that run in goroutines *)
(* of the library, and the manager as far as they see it: its services     *)
(* change state and then call onChange, and a reload changes their names.  *)
(* States and names of services are numbered by their changes.  Commands   *)
(* that only call the manager are left out.                                *)
(***************************************************************************)
EXTENDS Reconnect

CONSTANTS StatusCap,     \* capacity of statusCh
          Handlers,      \* interactions of people who reload
          MaxChanges, MaxReloads, MaxConnects   \* bounds of the instance

ASSUME DiscordAssumption ==
  /\ StatusCap \in Nat
  /\ MaxChanges \in Nat /\ MaxReloads \in Nat /\ MaxConnects \in Nat

VARIABLES
  dStep,       \* where the attempt is; "start" between attempts
  session,     \* b.session: "none", "open", "closed"
  commands,    \* b.commands: the names it was built from, 0 before the first time
  registered,  \* the commands that Discord has, 0 for none
  names,       \* the names of the services, as the manager has them
  changes,     \* the states of the services, as the manager has them
  telling,     \* how many service loops are about to call onChange
  statusCh,    \* how many events are queued
  connects,    \* how often the library reported a new connection
  blocked,     \* its handlers that wait for room in statusCh
  status,      \* runStatusLoop: "off", "select", "count", "update"
  counted,     \* lastStatus: the states it was counted from, 0 for none
  shown,       \* the presence that Discord shows, 0 for none
  handler,     \* where each reloading handler is
  list,        \* the names it has read, then the commands it has read
  alone        \* ghost: no other reload has run beside it

sessionVars  == <<dStep, session>>
commandVars  == <<commands, registered, names, handler, list, alone>>
presenceVars == <<changes, telling, statusCh, connects, blocked, status, counted, shown>>
discordVars  == <<sessionVars, commandVars, presenceVars>>

DiscordInit ==
  /\ dStep = "start" /\ session = "none"
  /\ commands = 0 /\ registered = 0 /\ names = 1
  /\ changes = 1 /\ telling = 0 /\ statusCh = 0 /\ connects = 0 /\ blocked = 0
  /\ status = "off" /\ counted = 0 /\ shown = 0
  /\ handler = [h \in Handlers |-> "idle"] /\ list = [h \in Handlers |-> 0]
  /\ alone = [h \in Handlers |-> FALSE]

DAt(step) == loop["discord"] = "trying" /\ dStep = step

-----------------------------------------------------------------------------
(* runOnce                                                                 *)

OpenFails ==
  /\ DAt("start")
  /\ AttemptFails("discord")
  /\ UNCHANGED discordVars

\* session.Open succeeds, and setSession publishes it.
OpenSession ==
  /\ DAt("start")
  /\ session' = "open"
  /\ dStep' = "build"
  /\ UNCHANGED <<loopVars, commandVars, presenceVars>>

\* rebuildCommands.
BuildCommands ==
  /\ DAt("build")
  /\ commands' = names
  /\ dStep' = "register"
  /\ UNCHANGED <<loopVars, session, registered, names, handler, list, alone, presenceVars>>

\* setCommands answers.
RegisterCommands ==
  /\ DAt("register")
  /\ registered' = commands
  /\ dStep' = "mark"
  /\ UNCHANGED <<loopVars, session, commands, names, handler, list, alone, presenceVars>>

\* The session is closed, though it stays published for a moment.
RegisterFails ==
  /\ DAt("register")
  /\ session' = "closed"
  /\ dStep' = "unset"
  /\ UNCHANGED <<loopVars, commandVars, presenceVars>>

UnsetSession ==
  /\ DAt("unset")
  /\ AttemptFails("discord")
  /\ session' = "none"
  /\ dStep' = "start"
  /\ UNCHANGED <<commandVars, presenceVars>>

DiscordReady ==
  /\ DAt("mark")
  /\ MarkReady("discord")
  /\ dStep' = "hook"
  /\ UNCHANGED <<session, commandVars, presenceVars>>

\* The status goroutine starts, and the manager and the library get their callbacks.
InstallHandlers ==
  /\ DAt("hook")
  /\ status' = "select"
  /\ dStep' = "serve"
  /\ UNCHANGED <<loopVars, session, commandVars, changes, telling, statusCh, connects, blocked, counted,
                 shown>>

\* The context is done: the commands are taken back, if Discord answers, and the session closed.
Leave ==
  /\ DAt("serve") /\ cancelled
  /\ registered' \in {0, registered}
  /\ session' = "closed"
  /\ dStep' = "leave"
  /\ UNCHANGED <<loopVars, commands, names, handler, list, alone, presenceVars>>

Left ==
  /\ DAt("leave")
  /\ AttemptReturns("discord")
  /\ session' = "none"
  /\ dStep' = "start"
  /\ UNCHANGED <<commandVars, presenceVars>>

-----------------------------------------------------------------------------
(* The presence                                                            *)

Hooked == dStep \in {"serve", "leave"}

\* A service loop: the state of the service changes ...
Change ==
  /\ changes <= MaxChanges
  /\ changes' = changes + 1
  /\ telling' = telling + 1
  /\ UNCHANGED <<loopVars, sessionVars, commandVars, statusCh, connects, blocked, status, counted, shown>>

\* ... and then it calls onChange, which drops the event when the channel is full.
Tell ==
  /\ telling > 0
  /\ telling' = telling - 1
  /\ statusCh' = IF Hooked /\ statusCh < StatusCap THEN statusCh + 1 ELSE statusCh
  /\ UNCHANGED <<loopVars, sessionVars, commandVars, changes, connects, blocked, status, counted, shown>>

\* Discord connects again, which loses the presence, and the library calls the
\* Ready or the Resumed handler.
Connected ==
  /\ DAt("serve") /\ connects < MaxConnects
  /\ connects' = connects + 1
  /\ blocked' = blocked + 1
  /\ shown' = 0
  /\ UNCHANGED <<loopVars, sessionVars, commandVars, changes, telling, statusCh, status, counted>>

\* These handlers wait until there is room.
Unblock ==
  /\ blocked > 0 /\ statusCh < StatusCap
  /\ blocked' = blocked - 1
  /\ statusCh' = statusCh + 1
  /\ UNCHANGED <<loopVars, sessionVars, commandVars, changes, telling, connects, status, counted, shown>>

\* An event and all that are queued behind it.
DrainEvents ==
  /\ status = "select" /\ statusCh > 0
  /\ statusCh' = 0
  /\ status' = "count"
  /\ UNCHANGED <<loopVars, sessionVars, commandVars, changes, telling, connects, blocked, counted, shown>>

\* The ticker does not repeat what it sent before (a mutation).
TickOnce ==
  /\ status = "select" /\ counted = 0
  /\ status' = "count"
  /\ UNCHANGED <<loopVars, sessionVars, commandVars, changes, telling, statusCh, connects, blocked, counted,
                 shown>>

\* The ticker: it repeats the last presence, which is counted only if there is none yet.
Tick ==
  /\ status = "select"
  /\ status' = IF counted = 0 THEN "count" ELSE "update"
  /\ UNCHANGED <<loopVars, sessionVars, commandVars, changes, telling, statusCh, connects, blocked, counted,
                 shown>>

CountRunning ==
  /\ status = "count"
  /\ counted' = changes
  /\ status' = "update"
  /\ UNCHANGED <<loopVars, sessionVars, commandVars, changes, telling, statusCh, connects, blocked, shown>>

UpdateStatus ==
  /\ status = "update"
  /\ shown' = counted
  /\ status' = "select"
  /\ UNCHANGED <<loopVars, sessionVars, commandVars, changes, telling, statusCh, connects, blocked, counted>>

\* An error is not looked at.
UpdateStatusFails ==
  /\ status = "update"
  /\ status' = "select"
  /\ UNCHANGED <<loopVars, sessionVars, commandVars, changes, telling, statusCh, connects, blocked, counted,
                 shown>>

StatusLoopEnds ==
  /\ status = "select" /\ cancelled
  /\ status' = "off"
  /\ UNCHANGED <<loopVars, sessionVars, commandVars, changes, telling, statusCh, connects, blocked, counted,
                 shown>>

-----------------------------------------------------------------------------
(* Reloads: routeInteraction, and those of other frontends                 *)

Reloading == {h \in Handlers : handler[h] # "idle"}

\* Another frontend reloads; nobody tells Discord.
ReloadElsewhere ==
  /\ names <= MaxReloads
  /\ names' = names + 1
  /\ alone' = [h \in Handlers |-> FALSE]
  /\ UNCHANGED <<loopVars, sessionVars, commands, registered, handler, list, presenceVars>>

ReloadHere(h) ==
  /\ handler[h] = "idle" /\ DAt("serve") /\ names <= MaxReloads
  /\ names' = names + 1
  /\ alone' = [k \in Handlers |-> k = h /\ Reloading = {}]
  /\ handler' = [handler EXCEPT ![h] = "names"]
  /\ UNCHANGED <<loopVars, sessionVars, commands, registered, list, presenceVars>>

\* rebuildCommands reads the names under the lock of the manager ...
ReadNames(h) ==
  /\ handler[h] = "names"
  /\ list' = [list EXCEPT ![h] = names]
  /\ handler' = [handler EXCEPT ![h] = "store"]
  /\ UNCHANGED <<loopVars, sessionVars, commands, registered, names, alone, presenceVars>>

\* The list of the start is registered again (a mutation).
StoreCommandsOnce(h) ==
  /\ handler[h] = "store"
  /\ commands' = IF commands = 0 THEN list[h] ELSE commands
  /\ handler' = [handler EXCEPT ![h] = "take"]
  /\ UNCHANGED <<loopVars, sessionVars, registered, names, list, alone, presenceVars>>

\* ... and stores the commands under its own;
StoreCommands(h) ==
  /\ handler[h] = "store"
  /\ commands' = list[h]
  /\ handler' = [handler EXCEPT ![h] = "take"]
  /\ UNCHANGED <<loopVars, sessionVars, registered, names, list, alone, presenceVars>>

\* the handler reads them there again
TakeCommands(h) ==
  /\ handler[h] = "take"
  /\ list' = [list EXCEPT ![h] = commands]
  /\ handler' = [handler EXCEPT ![h] = "session"]
  /\ UNCHANGED <<loopVars, sessionVars, commands, registered, names, alone, presenceVars>>

\* and takes the session that is published, if there is one;
TakeSession(h) ==
  /\ handler[h] = "session" /\ session # "none"
  /\ handler' = [handler EXCEPT ![h] = "send"]
  /\ UNCHANGED <<loopVars, sessionVars, commands, registered, names, list, alone, presenceVars>>

HandlerEnds(h) ==
  /\ handler' = [handler EXCEPT ![h] = "idle"]
  /\ list' = [list EXCEPT ![h] = 0]
  /\ alone' = [alone EXCEPT ![h] = FALSE]
  /\ UNCHANGED <<loopVars, sessionVars, commands, names, presenceVars>>

NoSession(h) ==
  /\ handler[h] = "session" /\ session = "none"
  /\ HandlerEnds(h)
  /\ UNCHANGED registered

\* a REST call, which a session that was closed since makes as well, registers
\* them; its error is not looked at.
RegisterAgain(h) ==
  /\ handler[h] = "send"
  /\ registered' \in {registered, list[h]}
  /\ HandlerEnds(h)

-----------------------------------------------------------------------------
DiscordAttempt ==
  \/ OpenSession \/ OpenFails \/ BuildCommands \/ RegisterCommands \/ RegisterFails \/ UnsetSession
  \/ DiscordReady \/ InstallHandlers \/ Leave \/ Left
  \/ WaitOver("discord") /\ UNCHANGED discordVars

StatusLoop ==
  DrainEvents \/ Tick \/ CountRunning \/ UpdateStatus \/ UpdateStatusFails \/ StatusLoopEnds

ReloadHandler(h) ==
  \/ ReloadHere(h) \/ ReadNames(h) \/ StoreCommands(h) \/ TakeCommands(h)
  \/ TakeSession(h) \/ NoSession(h) \/ RegisterAgain(h)

DiscordStep ==
  \/ DiscordAttempt
  \/ StatusLoop
  \/ Change \/ Tell \/ Connected \/ Unblock
  \/ ReloadElsewhere \/ \E h \in Handlers : ReloadHandler(h)

-----------------------------------------------------------------------------
(* A reload that is asked for in Discord sends Discord the commands for    *)
(* the services that there are, unless another reload runs beside it: two  *)
(* that overlap may send an old list last (routeInteraction,               *)
(* rebuildCommands).                                                       *)
LoneReloadRegisters ==
  \A h \in Handlers : handler[h] = "send" /\ alone[h] => list[h] = names

(* While the bot is connected, its presence comes to show the services as  *)
(* they are after their last change and no handler of the library stays    *)
(* blocked, although Discord forgets the presence when it connects again,  *)
(* events are dropped when many come at a time, updates fail, and a tick   *)
(* repeats what was counted earlier (runOnce, runStatusLoop).  The         *)
(* instance has finitely many changes.                                     *)
PresenceCatchesUp ==
  <>[](dStep # "serve" \/ cancelled \/ (shown = changes /\ blocked = 0))
=============================================================================
