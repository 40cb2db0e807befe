---------------------------- MODULE ProcessBackend ----------------------------
(***************************************************************************)
(* One ProcessBackend of internal/service/process.go with everybody who    *)
(* touches it: the service loop that calls it and watches its exit channel *)
(* (manager.go), the goroutine that waits for a child it spawned, the      *)
(* goroutine that polls a child it adopted from an earlier run of the      *)
(* program, the children, and the operating system, which gives the pid of *)
(* a child that was reaped to whatever starts next.                        *)
(*                                                                         *)
(* ServiceManager takes a backend to be a child that is alive or not; here *)
(* is what Start and Stop do for that, step by step.  p.mu is held within  *)
(* single actions only.  Log files and the state file are left out.        *)
(***************************************************************************)
EXTENDS Naturals, FiniteSets

CONSTANTS
  Kids,        \* the children this backend may ever have, in order of birth
  NoKid,       \* no child; the nil channel
  Pids,        \* process ids
  NoPid,       \* the pid 0 of an empty record
  Adopting     \* may the program find a child of an earlier run alive?

ASSUME KidsAssumption == Kids \subseteq Nat /\ NoKid \notin Kids
ASSUME PidsAssumption == NoPid \notin Pids
ASSUME AdoptingAssumption == Adopting \in BOOLEAN

VARIABLES
  \* the operating system
  kid,         \* each child: unborn, alive, exited but not reaped, or dead
  pidOf,       \* the pid it was given
  foreign,     \* pids in use by processes of others
  killed,      \* children that were sent SIGKILL
  \* the backend
  pid,         \* p.pid, which is p.pgid too
  done,        \* p.done, the channel of a child, or nil
  watch,       \* the goroutine of each child: cmd.Wait or pollAlive
  \* the service loop
  lpc,         \* its control point
  then,        \* what follows the Stop it is in: nothing, or the Start of Restart
  stopPid,     \* pgid of that Stop
  stopping,    \* done of that Stop
  exitCh,      \* the channel whose closing the loop waits for
  told,        \* ghost: children whose exit the loop noticed
  wiped        \* ghost: pollAlive cleared the record of another child

osVars   == <<kid, pidOf, foreign, killed>>
loopVars == <<lpc, then, stopPid, stopping, exitCh, told>>
vars     == <<osVars, pid, done, watch, loopVars, wiped>>

-----------------------------------------------------------------------------
Waiting == {"waiting", "reaped", "closed"}             \* the goroutine of Start
Polling == {"polling", "sawDead", "cleared", "closed"}  \* pollAlive

\* Variant with a mistake: only a child with a cmd of its own counts.
IsAliveSpawned(p) ==
  \E k \in Kids : pidOf[k] = p /\ kid[k] \in {"alive", "zombie"} /\ watch[k] = "waiting"

\* IsAlive, kill(pid, 0): a child that was not reaped yet is still there.
IsAlive(p) ==
  p \in foreign \/ \E k \in Kids : pidOf[k] = p /\ kid[k] \in {"alive", "zombie"}

Running == pid # NoPid /\ IsAlive(pid)   \* isRunning

Closed(k) == k # NoKid /\ watch[k] = "closed"

-----------------------------------------------------------------------------
(* The program starts, possibly with a child that TryAdopt verified.       *)
InitIdle ==
  /\ kid = [k \in Kids |-> "unborn"]
  /\ pidOf = [k \in Kids |-> NoPid]
  /\ watch = [k \in Kids |-> "none"]
  /\ pid = NoPid /\ done = NoKid /\ exitCh = NoKid

InitAdopted(a, p) ==
  /\ kid = [k \in Kids |-> IF k = a THEN "alive" ELSE "unborn"]
  /\ pidOf = [k \in Kids |-> IF k = a THEN p ELSE NoPid]
  /\ watch = [k \in Kids |-> IF k = a THEN "polling" ELSE "none"]
  /\ pid = p /\ done = a /\ exitCh = a

Init ==
  /\ \/ InitIdle
     \/ Adopting /\ \E a \in Kids, p \in Pids :
                       (\A k \in Kids : a <= k) /\ InitAdopted(a, p)
  /\ foreign = {} /\ killed = {}
  /\ lpc = "select" /\ then = "nothing"
  /\ stopPid = NoPid /\ stopping = NoKid
  /\ told = {} /\ wiped = FALSE

-----------------------------------------------------------------------------
(* The operating system.                                                   *)

\* A child ends by itself, on SIGTERM or on SIGKILL.  A spawned one stays a
\* zombie until cmd.Wait returns; an adopted one is reaped by init.
Die(k) ==
  /\ kid[k] = "alive"
  /\ kid' = [kid EXCEPT ![k] = IF watch[k] \in Polling THEN "dead" ELSE "zombie"]
  /\ UNCHANGED <<pidOf, foreign, killed, pid, done, watch, loopVars, wiped>>

\* A pid that nobody uses is given to somebody else's process, which ends.
ForeignBorn(p) ==
  /\ ~IsAlive(p)
  /\ foreign' = foreign \cup {p}
  /\ UNCHANGED <<kid, pidOf, killed, pid, done, watch, loopVars, wiped>>

ForeignDies(p) ==
  /\ p \in foreign
  /\ foreign' = foreign \ {p}
  /\ UNCHANGED <<kid, pidOf, killed, pid, done, watch, loopVars, wiped>>

-----------------------------------------------------------------------------
(* The goroutine Start leaves behind: cmd.Wait, then close(done).          *)
Reap(k) ==
  /\ watch[k] = "waiting" /\ kid[k] = "zombie"
  /\ kid' = [kid EXCEPT ![k] = "dead"]
  /\ watch' = [watch EXCEPT ![k] = "reaped"]
  /\ UNCHANGED <<pidOf, foreign, killed, pid, done, loopVars, wiped>>

\* Both goroutines end by closing the channel of their child.
Close(k) ==
  /\ watch[k] \in {"reaped", "cleared"}
  /\ watch' = [watch EXCEPT ![k] = "closed"]
  /\ UNCHANGED <<osVars, pid, done, loopVars, wiped>>

(* pollAlive: look every two seconds; then clear p, whatever it records by *)
(* now, under p.mu.                                                        *)
PollSeesDead(k) ==
  /\ watch[k] = "polling" /\ ~IsAlive(pidOf[k])
  /\ watch' = [watch EXCEPT ![k] = "sawDead"]
  /\ UNCHANGED <<osVars, pid, done, loopVars, wiped>>

\* Variant with a mistake: the channel is dropped, the pid is kept.
ClearDoneOnly == pid' = pid /\ done' = NoKid

ClearRecord == pid' = NoPid /\ done' = NoKid

PollClears(k) ==
  /\ watch[k] = "sawDead"
  /\ ClearRecord
  /\ wiped' = (wiped \/ done \notin {k, NoKid})
  /\ watch' = [watch EXCEPT ![k] = "cleared"]
  /\ UNCHANGED <<osVars, loopVars>>

-----------------------------------------------------------------------------
(* The loop: an op, then exitCh is read again.                             *)

\* Variant with a mistake: only an op that stops the child renews exitCh.
RefreshKeeps == UNCHANGED exitCh

Refreshed == exitCh' = done    \* WaitForExit

Refresh ==
  /\ lpc = "refresh"
  /\ Refreshed
  /\ lpc' = "select"
  /\ UNCHANGED <<osVars, pid, done, watch, then, stopPid, stopping, told, wiped>>

\* Status, logs, pull: nothing changes, but exitCh is read again.
Query ==
  /\ lpc = "select"
  /\ lpc' = "refresh"
  /\ UNCHANGED <<osVars, pid, done, watch, then, stopPid, stopping, exitCh, told,
                 wiped>>

\* cmd.Start and the record of the new child, under p.mu.
Spawn(k, p) ==
  /\ kid[k] = "unborn" /\ ~IsAlive(p)
  /\ \A j \in Kids : kid[j] = "unborn" => k <= j
  /\ kid' = [kid EXCEPT ![k] = "alive"]
  /\ pidOf' = [pidOf EXCEPT ![k] = p]
  /\ pid' = p
  /\ done' = k
  /\ watch' = [watch EXCEPT ![k] = "waiting"]

\* Start, from the select or as the second half of Restart (and of a deploy's
\* restart): a no-op while a child runs; the spawn may fail.
Start ==
  /\ lpc = "select" \/ lpc = "start"
  /\ lpc' = "refresh"
  /\ \/ ~Running /\ \E k \in Kids, p \in Pids : Spawn(k, p)
     \/ UNCHANGED <<kid, pidOf, pid, done, watch>>
  /\ then' = "nothing"
  /\ UNCHANGED <<foreign, killed, stopPid, stopping, exitCh, told, wiped>>

\* What follows a Stop.
AfterStop(t) == IF t = "start" THEN "start" ELSE "refresh"

\* Stop of a child that does not run returns at once; otherwise the record is
\* taken and cleared under p.mu and SIGTERM is sent, which a child may ignore.
StopBegins(t) ==
  /\ lpc = "select"
  /\ then' = t
  /\ IF Running
       THEN /\ stopPid' = pid /\ stopping' = done
            /\ pid' = NoPid /\ done' = NoKid
            /\ lpc' = "term"
       ELSE /\ lpc' = AfterStop(t)
            /\ UNCHANGED <<stopPid, stopping, pid, done>>
  /\ UNCHANGED <<osVars, watch, exitCh, told, wiped>>

\* Five seconds went by: SIGKILL goes to the process group, that is to the
\* child or to whoever has its pid now, who may or may not lead a group.
KillAfterTimeout ==
  /\ lpc = "term"
  /\ lpc' = "kill"
  /\ killed' = killed \cup {k \in Kids : pidOf[k] = stopPid /\ kid[k] = "alive"}
  /\ foreign' \in {foreign, foreign \ {stopPid}}
  /\ UNCHANGED <<kid, pidOf, pid, done, watch, then, stopPid, stopping, exitCh,
                 told, wiped>>

\* Variant with a mistake: SIGKILL is taken to have worked.
ExitSeenOnceKilled == Closed(stopping) \/ lpc = "kill"

\* A receive on done returns when done is closed, never when it is nil.
ExitSeen == Closed(stopping)

StopReturns ==
  /\ lpc \in {"term", "kill"} /\ ExitSeen
  /\ lpc' = AfterStop(then)
  /\ stopPid' = NoPid /\ stopping' = NoKid
  /\ UNCHANGED <<osVars, pid, done, watch, then, exitCh, told, wiped>>

\* The loop receives from exitCh: it reports "exited" and saves the state.
ExitEvent ==
  /\ lpc = "select" /\ Closed(exitCh)
  /\ told' = told \cup {exitCh}
  /\ exitCh' = NoKid
  /\ UNCHANGED <<osVars, pid, done, watch, lpc, then, stopPid, stopping, wiped>>

-----------------------------------------------------------------------------
Watcher(k) == Reap(k) \/ PollSeesDead(k) \/ PollClears(k) \/ Close(k)

Loop ==
  \/ Query \/ Refresh \/ Start
  \/ \E t \in {"nothing", "start"} : StopBegins(t)
  \/ KillAfterTimeout \/ StopReturns \/ ExitEvent

OS ==
  \/ \E k \in Kids : Die(k)
  \/ \E p \in Pids : ForeignBorn(p) \/ ForeignDies(p)

Next == (\E k \in Kids : Watcher(k)) \/ Loop \/ OS

Spec == Init /\ [][Next]_vars

\* Goroutines run, an op in progress goes on, timers fire, SIGKILL kills, and
\* select, which picks among the ready cases at random, does not pass over the
\* exit event forever.  No op has to be requested and no child has to end.
Fairness ==
  /\ \A k \in Kids : WF_vars(Watcher(k)) /\ WF_vars(k \in killed /\ Die(k))
  /\ WF_vars(Refresh) /\ WF_vars(lpc = "start" /\ Start)
  /\ WF_vars(KillAfterTimeout \/ StopReturns)
  /\ SF_vars(ExitEvent)

LiveSpec == Spec /\ Fairness

-----------------------------------------------------------------------------
(* Properties.                                                             *)

\* The shape of the state: among it that a record has a pid exactly when it
\* has a channel, so that Stop never waits on a nil channel.
TypeOK ==
  /\ kid \in [Kids -> {"unborn", "alive", "zombie", "dead"}]
  /\ pidOf \in [Kids -> Pids \cup {NoPid}]
  /\ foreign \subseteq Pids /\ killed \subseteq Kids /\ told \subseteq Kids
  /\ pid \in Pids \cup {NoPid}
  /\ done \in Kids \cup {NoKid}
  /\ watch \in [Kids -> {"none"} \cup Waiting \cup Polling]
  /\ lpc \in {"select", "refresh", "start", "term", "kill"}
  /\ then \in {"nothing", "start"}
  /\ stopPid \in Pids \cup {NoPid} /\ stopping \in Kids \cup {NoKid}
  /\ exitCh \in Kids \cup {NoKid}
  /\ wiped \in BOOLEAN
  /\ pid = NoPid <=> done = NoKid
  /\ lpc \in {"term", "kill"} <=> stopping # NoKid

\* The backend never loses sight of a live child: it is the recorded one, or
\* the one Stop waits for, whatever the loop, the goroutines and the system's
\* reuse of pids do in between; so Start never runs a second copy and Stop
\* never forgets the first.  The exception is a pollAlive that clears the
\* record of a younger child.
NoStrayChild ==
  ~wiped => \A k \in Kids : kid[k] = "alive" => k \in {done, stopping}

\* "adopted (no cmd to Wait on)" or spawned, the child that Stop took is dead
\* when Stop returns ("then force-kill"), so what comes next, the Start of a
\* Restart or the swap of a Reload, does not run beside it.
StopKills == [][stopping' # stopping /\ stopping # NoKid => kid[stopping] = "dead"]_vars

\* One service runs one process: "If already running, returns nil"
\* (process.go:63).
OneCopy == \A j, k \in Kids : kid[j] = "alive" /\ kid[k] = "alive" => j = k

\* A Stop returns, also when the child ignores SIGTERM and also when it was
\* adopted and only polled, unless somebody else's process took its pid.
StopEnds ==
  lpc \in {"term", "kill"} ~> (lpc \notin {"term", "kill"} \/ stopPid \in foreign)

\* The end of a child is noticed while it is the recorded one, however many
\* ops are served in between; the end of an adopted child unless pollAlive
\* clears the record first, or somebody else's process takes the pid it polls.
PidTaken(k) == watch[k] = "polling" /\ pidOf[k] \in foreign

ExitNoticed ==
  \A k \in Kids :
    kid[k] = "dead" /\ done = k ~> (k \in told \/ done # k \/ PidTaken(k))

\* Only a poller clears the record of a child that is not its own, so without
\* adoption a service always runs one process, and with it two at most.
OneCopyUnlessAdopting == ~Adopting => OneCopy

TwoCopiesAtMost ==
  \A i, j, k \in Kids :
    kid[i] = "alive" /\ kid[j] = "alive" /\ kid[k] = "alive" => i = j \/ j = k \/ i = k

(* The backend is what the manager takes it to be, apart from the child it *)
(* may lose: see Backend.  Queries, refreshes, signals, reaping, the exit  *)
(* event and the processes of others are stutters.                         *)
Alive    == {k \in Kids : kid[k] = "alive"}
InSight  == Alive \cap {done, stopping}
Polled   == {k \in Kids : watch[k] \in {"polling", "sawDead"}}

Seen == INSTANCE Backend WITH
  Children <- Kids,
  MayAdopt <- Adopting,
  child    <- InSight,
  strays   <- Alive \ InSight,
  ended    <- {k \in Kids : kid[k] \in {"zombie", "dead"}},
  adopted  <- Polled,
  stopping <- stopping # NoKid

ImplementsBackend == Seen!BackendSpec

-----------------------------------------------------------------------------
(* What the proofs of NoStrayChild and StopKills rest on.                  *)

\* A goroutine is past its wait only when its child is dead.
WatchersKnow ==
  \A k \in Kids :
    /\ watch[k] = "none" <=> kid[k] = "unborn"
    /\ watch[k] \in {"reaped", "sawDead", "cleared", "closed"} => kid[k] = "dead"

\* The recorded pid is that of the child whose channel is recorded.
RecordMatches == done # NoKid => pid = pidOf[done] /\ kid[done] # "unborn"

ChildInv == TypeOK /\ WatchersKnow /\ RecordMatches /\ NoStrayChild

(* What the proofs of ImplementsBackend and of the number of copies rest   *)
(* on: there is no recorded child during a Stop, at most one poller, and   *)
(* at most one child out of sight, which the only poller left there.       *)
SightInv ==
  /\ stopping # NoKid => done = NoKid
  /\ Polled # {} => Adopting
  /\ \A j, k \in Polled : j = k
  /\ \A j, k \in Alive \ InSight : j = k
  /\ Alive \ InSight # {} => Adopting /\ Polled = {}

=============================================================================
