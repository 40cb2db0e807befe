------------------------------- MODULE ColdBoot -------------------------------
(***************************************************************************)
(* What survives the daemon.  One service with a process backend, its      *)
(* state file, and everything that can happen between two runs of the      *)
(* program: newManagedService reads the file, adopts the child of an       *)
(* earlier run if verifyProcess recognises it, or schedules an autostart   *)
(* (manager.go, adopt.go, state.go); ops change the child first and are    *)
(* written to the file after; the program may be killed in between, reads  *)
(* and writes may fail, the host may reboot, its clock may be stepped, and *)
(* pids are used again by other programs.                                  *)
(*                                                                         *)
(* ProcessBackend has the inside of one run, ServiceManager the loop and   *)
(* Reload; here an op is two steps, its effect and its save, and children  *)
(* die at once.  Deploys and reloads are left out.                         *)
(***************************************************************************)
EXTENDS Naturals, FiniteSets

CONSTANTS
  Pids,        \* process ids
  NoPid,       \* the pid 0
  NoProc,      \* no process has this pid
  NoRec,       \* a state file without a process record
  NoTime,      \* a time that is not recorded
  Configs,     \* how the service may be configured
  Hosts,       \* what the platform may offer
  MaxBoots,    \* bounds: the boots of the host,
  MaxBirths,   \* the processes that start in one boot,
  MaxSteps     \* and the times its clock is stepped

ASSUME PidsAssumption == NoPid \notin Pids
ASSUME TimesAssumption == NoTime \notin Nat \X Nat
ASSUME ConfigsAssumption ==
  Configs \subseteq [adopt : BOOLEAN, autostart : BOOLEAN, force : BOOLEAN]
\* absolute: creation and boot times come from the kernel and can reject
\* (macOS); otherwise they move with the clock (Linux).
ASSUME HostsAssumption == Hosts \subseteq [absolute : BOOLEAN, bootId : BOOLEAN]
ASSUME BoundsAssumption ==
  MaxBoots \in Nat \ {0} /\ MaxBirths \in Nat \ {0} /\ MaxSteps \in Nat

VARIABLES
  conf, host,  \* chosen at the start
  \* the operating system
  boot,        \* the number of this boot
  clock,       \* how often the clock was stepped
  births,      \* processes started in this boot; each has its number as ticks
  proc,        \* the process that has each pid, or NoProc
  \* the disk
  file,        \* the state file
  \* the program
  dpc,         \* off, built, loop, save
  unread,      \* LoadState failed in this run, though there was a file
  acting,      \* what the coming save belongs to
  pending,     \* autostartOnReady
  desired,     \* state.DesiredStatus
  recorded,    \* recordedBootID
  pid,         \* the backend's p.pid
  held,        \* ticks of the process whose exit is waited for, or 0
  polled,      \* that process was adopted
  \* ghosts
  written,     \* no save has failed, and no near time been trusted, since the last good save
  stop,        \* an operator's stop that nothing overrode: none, answered, written
  served,      \* in this boot an autostart or an operator's op has begun
  mistaken     \* what made a record of our child verify a stranger

osVars  == <<conf, host, boot, clock>>
memVars == <<pending, desired, recorded>>
procVars == <<births, proc, pid, held, polled>>
ghosts  == <<written, stop, served, mistaken>>
vars == <<osVars, memVars, procVars, file, dpc, unread, acting, ghosts>>

-----------------------------------------------------------------------------
Desired == {"running", "stopped"}   \* "running" stands for absent, too
Ops     == {"start", "stop", "restart"}

\* There is no state file: unlike any that a save writes.
NoFile == [absent |-> TRUE]

\* bootIDFn: read once per run; 0 if the host has none.
CurBoot == IF host.bootId THEN boot ELSE 0

Alive(p) == p \in Pids /\ proc[p] # NoProc
Own(p)   == Alive(p) /\ proc[p].own

\* Times as the host reports them now.  On Linux both are computed from the
\* clock and the uptime, so a step of the clock moves them.
Skew == IF host.absolute THEN 0 ELSE clock
BootTime == <<boot, Skew>>
CreateTime(p) == <<boot, proc[p].ticks, Skew>>

-----------------------------------------------------------------------------
(* verifyProcess for the record r of a state file whose boot ID is b.      *)

\* How its looks at the host turn out: whether the start ID and the creation
\* time are found, and whether times that are not the same are within the
\* tolerances of sameBoot and createTimeMatches.  A boot time that cannot be
\* read is passed over as a near one is.
Looks == [start : BOOLEAN, created : BOOLEAN, nearBoot : BOOLEAN, nearCreated : BOOLEAN]

Bare(r) == r.boot = 0 /\ r.start = 0 /\ r.btime = NoTime /\ r.ctime = NoTime

OtherBoot(r, b) ==
  CurBoot # 0 /\ IF r.boot # 0 THEN r.boot # CurBoot ELSE b \notin {0, CurBoot}

SameBoot(r) == CurBoot # 0 /\ r.boot = CurBoot

BootTimeDiffers(r, look) ==
  ~SameBoot(r) /\ r.btime \notin {NoTime, BootTime} /\ ~look.nearBoot

\* The tolerance is 0 where creation times are absolute.  For the code "near" is
\* verified, too.
CheckCreateTime(r, look) ==
  IF ~look.created THEN "unknown"
  ELSE IF CreateTime(r.pid) = r.ctime THEN "verified"
  ELSE IF host.absolute THEN "mismatch"
  ELSE IF look.nearCreated THEN "near" ELSE "unknown"

\* There is a start ID to compare.
StartDecides(r, look) == r.start # 0 /\ SameBoot(r) /\ look.start

\* Variant with a mistake: start ticks are compared before the boots are.
VerifyStartFirst(r, b, look) ==
  IF ~Alive(r.pid) THEN "mismatch"
  ELSE IF r.start # 0 /\ look.start
         THEN (IF proc[r.pid].ticks = r.start THEN "verified" ELSE "mismatch")
  ELSE IF OtherBoot(r, b) THEN "mismatch"
  ELSE "unknown"

Verify(r, b, look) ==
  IF ~Alive(r.pid) THEN "mismatch"
  ELSE IF Bare(r) THEN "verified"
  ELSE IF OtherBoot(r, b) THEN "mismatch"
  ELSE IF BootTimeDiffers(r, look) THEN (IF host.absolute THEN "mismatch" ELSE "unknown")
  ELSE IF StartDecides(r, look)
         THEN (IF proc[r.pid].ticks = r.start THEN "verified" ELSE "mismatch")
  ELSE IF r.start # 0 /\ SameBoot(r) /\ host.absolute THEN "unknown"
  ELSE IF r.ctime # NoTime THEN CheckCreateTime(r, look)
  ELSE "unknown"

\* Ghost: what there was to tell the process by.
Evidence(r, look) ==
  IF StartDecides(r, look) THEN "startID"
  ELSE IF host.absolute THEN "absoluteTime" ELSE "clockTime"

\* What verification of the record in the file f may say, and by what.
Findings(f) ==
  IF f = NoFile THEN {[verdict |-> "nothing", by |-> "nothing"]}
  ELSE IF f.rec = NoRec THEN {[verdict |-> "nothing", by |-> "nothing"]}
  ELSE {[verdict |-> Verify(f.rec, f.boot, look), by |-> Evidence(f.rec, look)] : look \in Looks}

Recognised == {"verified", "near"}

-----------------------------------------------------------------------------
(* The backend: what its operations make of s, the part of the state they  *)
(* change.                                                                 *)
Now == [births |-> births, proc |-> proc, pid |-> pid, held |-> held,
        polled |-> polled]

Becomes(s) ==
  /\ births' = s.births /\ proc' = s.proc
  /\ pid' = s.pid /\ held' = s.held /\ polled' = s.polled

\* isRunning: some process has the recorded pid.
RunningIn(s) == s.pid # NoPid /\ s.proc[s.pid] # NoProc
Running == RunningIn(Now)

Spawned(s, p) ==
  [births |-> s.births + 1,
   proc |-> [s.proc EXCEPT ![p] = [own |-> TRUE, ticks |-> s.births + 1]],
   pid |-> p, held |-> s.births + 1, polled |-> FALSE]

\* Start: nothing to do, or the command cannot be run, or a new child.
AfterStart(s) ==
  IF RunningIn(s) THEN {s}
  ELSE {s} \cup {Spawned(s, p) : p \in {q \in Pids : s.proc[q] = NoProc /\ s.births < MaxBirths}}

\* Stop: signals go to the process group of whoever has the pid.  A stranger
\* need not lead a group; Stop then returns only if the child was not polled.
AfterStop(s) ==
  IF ~RunningIn(s) THEN {s}
  ELSE LET cleared == [s EXCEPT !.pid = NoPid, !.held = 0, !.polled = FALSE]
       IN {[cleared EXCEPT !.proc[s.pid] = NoProc]} \cup
          (IF s.proc[s.pid].own \/ s.polled THEN {} ELSE {cleared})

Effects(op) ==
  CASE op = "start"   -> AfterStart(Now)
    [] op = "stop"    -> AfterStop(Now)
    [] op = "restart" -> UNION {AfterStart(s) : s \in AfterStop(Now)}

-----------------------------------------------------------------------------
(* saveServiceState.                                                       *)

\* SaveBackendState: lookups of a process that is gone fail, others may; the
\* two of one save fail together here.  Two ghosts: ours, that no stranger had
\* the recorded pid at the save, and who, the process that had it.
RecordOf(found) ==
  IF pid = NoPid THEN NoRec
  ELSE LET seen == Running /\ found
       IN [pid |-> pid, boot |-> CurBoot, btime |-> BootTime,
           ctime |-> IF seen THEN CreateTime(pid) ELSE NoTime,
           start |-> IF seen THEN proc[pid].ticks ELSE 0,
           ours |-> Own(pid) \/ ~Running,
           who |-> IF Running THEN <<boot, proc[pid].ticks>> ELSE <<0, 0>>]

\* recordBoot
RecordBoot == recorded' = IF host.bootId THEN boot ELSE recorded

\* Variant with a mistake: the process record is not brought up to date.
SavedOldRecord(b) ==
  {[desired |-> desired, status |-> IF Running THEN "running" ELSE "stopped",
    boot |-> b, rec |-> IF file = NoFile THEN NoRec ELSE file.rec]}

\* The state files a save may write, b being recordedBootID.
Saved(b) ==
  {[desired |-> desired, status |-> IF Running THEN "running" ELSE "stopped",
    boot |-> b, rec |-> RecordOf(found)] : found \in BOOLEAN}

\* The boot ID a save writes: the current one if the backend runs.
SavedBoot == IF Running /\ host.bootId THEN boot ELSE recorded

-----------------------------------------------------------------------------
Off ==
  /\ dpc' = "off" /\ unread' = FALSE /\ acting' = "nothing"
  /\ pending' = FALSE /\ desired' = "running" /\ recorded' = 0
  /\ pid' = NoPid /\ held' = 0 /\ polled' = FALSE

(* The host was never used for this, or was left by an old version, whose  *)
(* records have times at most, with the child still alive or gone.         *)
LegacyRecord(p, times) ==
  [pid |-> p, boot |-> 0, start |-> 0, who |-> <<1, 1>>,
   btime |-> IF times THEN <<1, 0>> ELSE NoTime,
   ctime |-> IF times THEN <<1, 1, 0>> ELSE NoTime,
   ours |-> times]

LegacyFile(p, times) ==
  [desired |-> "running", status |-> "running", boot |-> 0,
   rec |-> LegacyRecord(p, times)]

Init ==
  /\ conf \in Configs /\ host \in Hosts
  /\ boot = 1 /\ clock = 0
  /\ \/ births = 0 /\ file = NoFile /\ proc = [p \in Pids |-> NoProc]
     \/ \E p \in Pids, times, alive \in BOOLEAN :
          /\ births = 1 /\ file = LegacyFile(p, times)
          /\ proc = [q \in Pids |-> IF q = p /\ alive THEN [own |-> TRUE, ticks |-> 1]
                                    ELSE NoProc]
  /\ dpc = "off" /\ unread = FALSE /\ acting = "nothing"
  /\ pending = FALSE /\ desired = "running" /\ recorded = 0
  /\ pid = NoPid /\ held = 0 /\ polled = FALSE
  /\ written = TRUE /\ stop = "none" /\ served = FALSE /\ mistaken = {}

-----------------------------------------------------------------------------
(* The program starts: the lock is free, since the system drops it with    *)
(* its holder.  Below, f is what LoadState gives: the file, or NoFile if   *)
(* there is none or it cannot be read this time.                           *)

\* rebootedSince(b)
RebootedSince(b) == CurBoot # 0 /\ b \notin {0, CurBoot}

\* Variant with a mistake: adopt: false is not asked about a reboot.
AlwaysMayAutostart(f) == TRUE

\* No child of an earlier run can be alive unseen, as the code has it; neverRan
\* is that there is no file, not that it cannot be read.
MayAutostart(f) ==
  conf.adopt \/ file = NoFile \/ (f # NoFile /\ RebootedSince(f.boot))

\* Variant with a mistake: a reboot overrides the operator's stop.
WantsAutostartOnReboot(f) ==
  conf.autostart /\ MayAutostart(f) /\
  (f = NoFile \/ f.desired # "stopped" \/ conf.force \/ RebootedSince(f.boot))

\* The autostart decision.
WantsAutostart(f) ==
  /\ conf.autostart
  /\ f = NoFile \/ f.desired # "stopped" \/ conf.force
  /\ MayAutostart(f)

\* TryAdopt looks at the record at all.
TriesAdoption(f) == conf.adopt /\ f # NoFile /\ f.status # "stopped"

\* Ghost: the process p was recognised by this.
Take(p, by) ==
  mistaken' = IF Own(p) \/ ~file.rec.ours THEN mistaken ELSE mistaken \cup {by}

\* newManagedService up to the writes.
Launch ==
  /\ dpc = "off"
  /\ dpc' = "built"
  /\ \E f \in {file, NoFile} : \E found \in Findings(f) :
       LET adopts == TriesAdoption(f) /\ found.verdict \in Recognised
           unknown == TriesAdoption(f) /\ found.verdict = "unknown"
       IN /\ unread' = (f # file)
          /\ pending' = (WantsAutostart(f) /\ ~adopts /\ ~unknown)
          /\ IF adopts
               THEN /\ pid' = f.rec.pid /\ polled' = TRUE
                    /\ held' = proc[f.rec.pid].ticks
                    /\ Take(f.rec.pid, found.by)
               ELSE UNCHANGED <<pid, polled, held, mistaken>>
          /\ desired' = IF f = NoFile THEN "running" ELSE f.desired
          /\ recorded' = IF f = NoFile THEN 0 ELSE f.boot
          /\ written' = ~(adopts /\ found.verdict = "near")
  /\ UNCHANGED <<osVars, births, proc, file, acting, stop, served>>

\* A record without a boot ID that was adopted is written again.
AdoptedLegacy == polled /\ file.rec.boot = 0 /\ CurBoot # 0

\* Variant with a mistake: the reboot is recorded although a start is pending.
StampsAlways == host.bootId

\* The boot ID is recorded unless a pending start will do it.
Stamps == host.bootId /\ ~pending

\* The writes of newManagedService.
Bookkeep ==
  /\ dpc = "built"
  /\ dpc' = "loop"
  /\ recorded' = IF Stamps THEN boot ELSE recorded
  /\ \E ok \in BOOLEAN :
       /\ written' = IF AdoptedLegacy THEN ok ELSE written
       /\ IF ok /\ AdoptedLegacy THEN file' \in Saved(boot)
          ELSE IF ok /\ Stamps /\ file # NoFile /\ ~unread
                 THEN file' = [file EXCEPT !.boot = boot]
          ELSE UNCHANGED file
  /\ UNCHANGED <<osVars, pending, desired, procVars, unread, acting, stop, served, mistaken>>

-----------------------------------------------------------------------------
(* The loop.                                                               *)

\* The frontends are ready and the scheduled autostart runs.
Startup ==
  /\ dpc = "loop" /\ pending
  /\ pending' = FALSE
  /\ desired' = "running"
  /\ \E s \in AfterStart(Now) : Becomes(s)
  /\ RecordBoot
  /\ dpc' = "save" /\ acting' = "startup"
  /\ served' = TRUE
  /\ stop' = "none"
  /\ UNCHANGED <<osVars, file, unread, written, mistaken>>

\* An operator's op up to its save.
Op(op) ==
  /\ dpc = "loop"
  /\ pending' = FALSE
  /\ RecordBoot
  /\ desired' = IF op = "stop" THEN "stopped" ELSE "running"
  /\ \E s \in Effects(op) : Becomes(s)
  /\ dpc' = "save" /\ acting' = op
  /\ served' = TRUE
  /\ stop' = IF op = "stop" THEN stop ELSE "none"
  /\ UNCHANGED <<osVars, file, unread, written, mistaken>>

\* The exit of the child is seen: cmd.Wait keeps the pid, pollAlive clears it.
Exited ==
  /\ dpc = "loop" /\ held # 0
  /\ IF polled THEN ~Running ELSE \A p \in Pids : Own(p) => proc[p].ticks # held
  /\ held' = 0 /\ polled' = FALSE
  /\ pid' = IF polled THEN NoPid ELSE pid
  /\ dpc' = "save" /\ acting' = "exit"
  /\ UNCHANGED <<osVars, memVars, births, proc, file, unread, ghosts>>

\* saveServiceState, and the answer to the operator, who is not told of a
\* failed write.
Save ==
  /\ dpc = "save"
  /\ dpc' = "loop" /\ acting' = "nothing"
  /\ recorded' = SavedBoot
  /\ \E ok \in BOOLEAN :
       /\ written' = ok
       /\ IF ok THEN file' \in Saved(SavedBoot) ELSE UNCHANGED file
       /\ stop' = IF acting # "stop" /\ stop = "none" THEN "none"
                  ELSE IF stop = "written" \/ (ok /\ desired = "stopped") THEN "written"
                  ELSE "answered"
  /\ UNCHANGED <<osVars, pending, desired, procVars, unread, served, mistaken>>

\* The program ends, killed or told to: children go on, nothing is written.
Crash ==
  /\ dpc # "off"
  /\ Off
  /\ UNCHANGED <<osVars, births, proc, file, ghosts>>

\* The program starts without this service: cleanOrphans removes the file,
\* after it killed a child that is recognised, if it can read it.
CleanOrphans ==
  /\ dpc = "off" /\ file # NoFile
  /\ \E f \in {file, NoFile} : \E found \in Findings(f) :
       IF found.verdict \in Recognised
         THEN Take(f.rec.pid, found.by) /\ proc' = [proc EXCEPT ![f.rec.pid] = NoProc]
         ELSE UNCHANGED <<mistaken, proc>>
  /\ file' = NoFile
  /\ stop' = "none"
  /\ UNCHANGED <<osVars, memVars, births, pid, held, polled, dpc, unread, acting, written,
                 served>>

-----------------------------------------------------------------------------
(* The operating system.                                                   *)
Die(p) ==
  /\ Alive(p)
  /\ proc' = [proc EXCEPT ![p] = NoProc]
  /\ UNCHANGED <<osVars, memVars, births, pid, held, polled, file, dpc, unread, acting, ghosts>>

ForeignBorn(p) ==
  /\ ~Alive(p) /\ births < MaxBirths
  /\ births' = births + 1
  /\ proc' = [proc EXCEPT ![p] = [own |-> FALSE, ticks |-> births + 1]]
  /\ UNCHANGED <<osVars, memVars, pid, held, polled, file, dpc, unread, acting, ghosts>>

ClockStep ==
  /\ clock < MaxSteps /\ ~host.absolute   \* nothing else reads the clock
  /\ clock' = clock + 1
  /\ UNCHANGED <<conf, host, boot, memVars, procVars, file, dpc, unread, acting, ghosts>>

Reboot ==
  /\ boot < MaxBoots
  /\ boot' = boot + 1
  /\ births' = 0 /\ proc' = [p \in Pids |-> NoProc]
  /\ Off
  /\ served' = FALSE
  /\ UNCHANGED <<conf, host, clock, file, written, stop, mistaken>>

-----------------------------------------------------------------------------
Next ==
  \/ Launch \/ Bookkeep \/ Startup \/ Exited \/ Save
  \/ \E op \in Ops : Op(op)
  \/ Crash \/ CleanOrphans \/ ClockStep \/ Reboot
  \/ \E p \in Pids : Die(p) \/ ForeignBorn(p)

Spec == Init /\ [][Next]_vars

\* The program goes on once started, and the app opens the readiness gate.
Fairness == WF_vars(Bookkeep) /\ WF_vars(Startup) /\ WF_vars(Save)

LiveSpec == Spec /\ Fairness

-----------------------------------------------------------------------------
(* Properties.                                                             *)
Records == [pid : Pids, boot : 0..MaxBoots, start : 0..MaxBirths,
            btime : {NoTime} \cup ((1..MaxBoots) \X (0..MaxSteps)),
            ctime : {NoTime} \cup ((1..MaxBoots) \X (1..MaxBirths) \X (0..MaxSteps)),
            ours : BOOLEAN,
            who : (0..MaxBoots) \X (0..MaxBirths)]

ASSUME RecAssumption == NoRec \notin Records

Files == [desired : Desired, status : {"running", "stopped"}, boot : 0..MaxBoots,
          rec : {NoRec} \cup Records]

\* The shape of the state; among it that the program has no memory when off
\* and waits for the exit of a process only while it has a pid recorded.
TypeOK ==
  /\ conf \in Configs /\ host \in Hosts
  /\ boot \in 1..MaxBoots /\ clock \in 0..MaxSteps /\ births \in 0..MaxBirths
  /\ proc \in [Pids -> {NoProc} \cup [own : BOOLEAN, ticks : 1..MaxBirths]]
  /\ file = NoFile \/ file \in Files
  /\ dpc \in {"off", "built", "loop", "save"} /\ unread \in BOOLEAN
  /\ acting \in Ops \cup {"nothing", "startup", "exit"}
  /\ pending \in BOOLEAN /\ desired \in Desired /\ recorded \in 0..MaxBoots
  /\ pid \in Pids \cup {NoPid} /\ held \in 0..MaxBirths /\ polled \in BOOLEAN
  /\ written \in BOOLEAN /\ stop \in {"none", "answered", "written"} /\ served \in BOOLEAN
  /\ mistaken \subseteq {"startID", "absoluteTime", "clockTime"}
  /\ dpc = "off" => pid = NoPid /\ ~pending
  /\ held # 0 => pid # NoPid
  /\ polled => held # 0

\* The state file names the process with pid p.
Described(p) ==
  file # NoFile /\ file.rec # NoRec /\
  file.rec.pid = p /\ file.rec.who = <<boot, proc[p].ticks>>

\* "a surviving child from the previous mezzaops would be duplicated, so
\* autostart only after a host reboot" (manager.go:298), and "rather than
\* risking a duplicate" (adopt.go:134): an autostart never puts a second child
\* beside one that the state file describes, adopted or not, whatever was
\* crashed, rebooted, stepped or reused since the file was written.  Except
\* where the service may be adopted but the file could not be read: LoadState
\* failing then counts as nothing to adopt.
AutostartNeverDuplicates ==
  [][acting # "startup" /\ acting' = "startup" /\ births' # births
       => \/ \A p \in Pids : Own(p) => ~Described(p)
          \/ unread /\ conf.adopt]_vars

\* The record of an old version that has nothing but the pid of p: any process
\* with that pid is taken for the child.
BareNames(p) ==
  file # NoFile /\ file.rec # NoRec /\ file.rec.pid = p /\ Bare(file.rec)

\* Between ops the file describes the child the program runs, so that killing
\* the program then loses no child, unless the write failed or the child was
\* adopted by a time that is only near.  Where there is no boot ID to add, a
\* bare record that was adopted stays as it is.
LoopRecordsItsChild ==
  dpc = "loop" /\ written =>
    \A p \in Pids : Own(p) /\ proc[p].ticks = held =>
      Described(p) \/ (CurBoot = 0 /\ BareNames(p))

\* "autostart must not override that (unless AutostartForce is set)"
\* (manager.go:237): once an operator's stop was answered and written, no start
\* of the program and no reboot starts the service until an operator does, as
\* long as the program can read the file.  A stop is answered even if its write
\* failed (manager.go:859), and then the next start may undo it.
OperatorStopSurvives ==
  [][acting # "startup" /\ acting' = "startup"
       => stop # "written" \/ conf.force \/ (unread /\ conf.adopt)]_vars

\* "Records with a start ID detect pid reuse exactly" (adopt.go:135): what the
\* program adopts, or kills as an orphan, on the word of a record of its own
\* child is that child, and not a stranger that has its pid now, whenever there
\* was a start ID to compare or creation times are absolute.  A creation time
\* that follows the clock may be near by chance.
TakenIsOurs == mistaken \subseteq {"clockTime"}

\* "so neither consumes the reboot signal early" (manager.go:333): after a
\* reboot the service is started once the program stays up and could read the
\* file, however often it was killed before that, unless an operator took over.
Rebooted == file # NoFile /\ file.boot \notin {0, boot}

StartsAfterReboot ==
  <>[](dpc # "off" /\ ~unread) =>
    \A b \in 1..MaxBoots :
      boot = b /\ Rebooted /\ CurBoot # 0 /\ conf.autostart
        /\ (file.desired # "stopped" \/ conf.force)
      ~> (served \/ boot # b)

-----------------------------------------------------------------------------
(* What the proof of OperatorStopSurvives rests on: a stop that was        *)
(* written is on the disk, and in the memory of a program that runs and    *)
(* has read it; one that has not read it writes nothing before an op.      *)
StopOnDisk ==
  /\ pending => dpc \in {"built", "loop"} /\ held = 0
  /\ dpc = "save" /\ acting = "stop" => desired = "stopped"
  /\ stop = "written" /\ ~conf.force =>
       /\ file # NoFile /\ file.desired = "stopped"
       /\ \/ dpc = "off"
          \/ desired = "stopped" /\ ~pending
          \/ unread /\ dpc \in {"built", "loop"} /\ held = 0 /\ ~polled
             /\ (pending => conf.adopt)

=============================================================================
