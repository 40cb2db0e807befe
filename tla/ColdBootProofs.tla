---------------------------- MODULE ColdBootProofs ----------------------------
(***************************************************************************)
(* For any number of boots, pids and processes, on every platform and      *)
(* under every start policy: a written stop outlives the program; a record *)
(* of our child is taken for a stranger by a clock time that is near at    *)
(* most; no autostart doubles a child that the state file describes; and   *)
(* the file describes the child that the loop runs.  Each says what a file *)
(* that cannot be read, or a write that fails, does to it.                 *)
(***************************************************************************)
EXTENDS ColdBoot, TLAPS

-----------------------------------------------------------------------------
(* The shape of the state.  What an operation makes of the part of the     *)
(* state it changes keeps to its types, and so does what a save writes.    *)
Process == [own : BOOLEAN, ticks : 1..MaxBirths]

BackendState ==
  [births : 0..MaxBirths, proc : [Pids -> {NoProc} \cup Process],
   pid : Pids \cup {NoPid}, held : 0..MaxBirths, polled : BOOLEAN]

StateOK(s) ==
  /\ s \in BackendState
  /\ s.held # 0 => s.pid # NoPid
  /\ s.polled => s.held # 0

\* An old version's file is a file, with or without times.
LEMMA LegacyTyped ==
  \A p \in Pids, times \in BOOLEAN : LegacyFile(p, times) \in Files
BY BoundsAssumption DEF LegacyFile, LegacyRecord, Files, Records, Desired

\* The state the backend works on is typed.
LEMMA NowTyped == TypeOK => StateOK(Now)
BY DEF TypeOK, StateOK, BackendState, Now, Process

\* Start leaves the state alone or adds a child.
LEMMA StartTyped == \A s : StateOK(s) => \A t \in AfterStart(s) : StateOK(t)
<1> SUFFICES ASSUME NEW s, StateOK(s), NEW t \in AfterStart(s), t # s
             PROVE  StateOK(t)
  OBVIOUS
<1>1. PICK p \in Pids : s.births < MaxBirths /\ t = Spawned(s, p)
  BY DEF AfterStart
<1>2. s.births + 1 \in 1..MaxBirths
  BY <1>1, BoundsAssumption DEF StateOK, BackendState
<1>3. [own |-> TRUE, ticks |-> s.births + 1] \in Process
  BY <1>2 DEF Process
<1> QED
  BY <1>1, <1>2, <1>3, PidsAssumption DEF StateOK, BackendState, Spawned

\* Stop clears the record, whether or not anything dies.
LEMMA StopTyped == \A s : StateOK(s) => \A t \in AfterStop(s) : StateOK(t)
<1> SUFFICES ASSUME NEW s, StateOK(s), NEW t \in AfterStop(s), t # s
             PROVE  StateOK(t)
  OBVIOUS
<1> DEFINE cleared == [s EXCEPT !.pid = NoPid, !.held = 0, !.polled = FALSE]
<1>1. /\ cleared.pid = NoPid /\ cleared.held = 0 /\ ~cleared.polled
      /\ cleared \in BackendState
  <2> DEFINE a == [s EXCEPT !.pid = NoPid]
             b == [a EXCEPT !.held = 0]
  <2>1. a \in BackendState /\ a.pid = NoPid
    BY DEF StateOK, BackendState
  <2>2. b \in BackendState /\ b.pid = NoPid /\ b.held = 0
    <3> HIDE DEF a
    <3> QED BY <2>1, BoundsAssumption DEF BackendState
  <2>3. cleared = [b EXCEPT !.polled = FALSE]
    OBVIOUS
  <2> HIDE DEF b, cleared
  <2> QED BY <2>2, <2>3 DEF BackendState
<1> HIDE DEF cleared
<1>2. StateOK(cleared)
  BY <1>1 DEF StateOK
<1>3. StateOK([cleared EXCEPT !.proc[s.pid] = NoProc])
  BY <1>1 DEF StateOK, BackendState
<1>4. t = cleared \/ t = [cleared EXCEPT !.proc[s.pid] = NoProc]
  BY DEF AfterStop, cleared
<1> QED
  BY <1>2, <1>3, <1>4

\* Whatever the op, it leaves a typed state.
LEMMA EffectsTyped ==
  ASSUME TypeOK, NEW op \in Ops, NEW s \in Effects(op)
  PROVE  StateOK(s)
<1>1. StateOK(Now)
  BY NowTyped
<1>2. CASE op = "start"
  BY <1>1, <1>2, StartTyped DEF Effects
<1>3. CASE op = "stop"
  BY <1>1, <1>3, StopTyped DEF Effects
<1>4. CASE op = "restart"
  <2>1. PICK m \in AfterStop(Now) : s \in AfterStart(m)
    BY <1>4 DEF Effects
  <2> QED BY <1>1, <2>1, StopTyped, StartTyped
<1> QED
  BY <1>2, <1>3, <1>4 DEF Ops

\* The state the backend leaves behind is typed in the variables.
LEMMA BecomesTyped ==
  ASSUME NEW s, StateOK(s), Becomes(s)
  PROVE  /\ births' \in 0..MaxBirths
         /\ proc' \in [Pids -> {NoProc} \cup Process]
         /\ pid' \in Pids \cup {NoPid} /\ held' \in 0..MaxBirths
         /\ polled' \in BOOLEAN
         /\ held' # 0 => pid' # NoPid
         /\ polled' => held' # 0
BY DEF StateOK, BackendState, Becomes

\* With a pid recorded a save makes a record.
LEMMA RecordTyped ==
  ASSUME TypeOK, pid # NoPid, NEW found \in BOOLEAN
  PROVE  RecordOf(found) \in Records
<1>1. pid \in Pids
  BY DEF TypeOK
<1>2. CurBoot \in 0..MaxBoots /\ Skew \in 0..MaxSteps /\ boot \in 1..MaxBoots
        /\ boot \in 0..MaxBoots
  BY BoundsAssumption DEF TypeOK, CurBoot, Skew
<1>3. Running => proc[pid].ticks \in 1..MaxBirths /\ proc[pid].ticks \in 0..MaxBirths
  BY <1>1, BoundsAssumption DEF TypeOK, Running, RunningIn, Now
<1>4. (Own(pid) \/ ~Running) \in BOOLEAN
  BY DEF Own, Alive, Running, RunningIn, Now, TypeOK
<1>5. 0 \in 0..MaxBoots /\ 0 \in 0..MaxBirths
  BY BoundsAssumption
<1> QED
  BY <1>1, <1>2, <1>3, <1>4, <1>5 DEF RecordOf, Records, BootTime, CreateTime

\* A save writes a typed file.
LEMMA SavedTyped ==
  ASSUME TypeOK, NEW b \in 0..MaxBoots, NEW f \in Saved(b)
  PROVE  f \in Files
<1>1. PICK found \in BOOLEAN :
        f = [desired |-> desired, status |-> IF Running THEN "running" ELSE "stopped",
             boot |-> b, rec |-> RecordOf(found)]
  BY DEF Saved
<1>2. RecordOf(found) \in {NoRec} \cup Records
  BY RecordTyped DEF RecordOf
<1> QED
  BY <1>1, <1>2 DEF Files, TypeOK

\* A recognised record is the one in the file, and names a process that exists.
LEMMA RecognisedNames ==
  ASSUME TypeOK, NEW f \in {file, NoFile}, NEW found \in Findings(f),
         found.verdict \in Recognised
  PROVE  /\ f = file /\ file \in Files /\ file.rec \in Records
         /\ file.rec.pid \in Pids /\ proc[file.rec.pid] # NoProc
         /\ \E look \in Looks : found = [verdict |-> Verify(file.rec, file.boot, look),
                                         by |-> Evidence(file.rec, look)]
<1>1. f # NoFile /\ f.rec # NoRec
  BY DEF Findings, Recognised
<1>2. f = file /\ file \in Files /\ file.rec \in Records
  BY <1>1 DEF TypeOK, Files
<1>3. PICK look \in Looks : found = [verdict |-> Verify(file.rec, file.boot, look),
                                    by |-> Evidence(file.rec, look)]
  BY <1>1, <1>2 DEF Findings
<1>4. Alive(file.rec.pid)
  BY <1>3 DEF Verify, Recognised
<1> QED
  BY <1>2, <1>3, <1>4 DEF Alive

\* What it was recognised by.
LEMMA FoundBy ==
  ASSUME NEW f \in {file, NoFile}, NEW found \in Findings(f), found.verdict \in Recognised
  PROVE  found.by \in {"startID", "absoluteTime", "clockTime"}
BY DEF Findings, Recognised, Evidence

\* The first state is typed.
LEMMA BootTypesInit == Init => TypeOK
<1> SUFFICES ASSUME Init PROVE TypeOK
  OBVIOUS
<1>1. boot \in 1..MaxBoots /\ clock \in 0..MaxSteps /\ recorded \in 0..MaxBoots
        /\ held \in 0..MaxBirths /\ 1 \in 1..MaxBirths
  BY BoundsAssumption DEF Init
<1>2. births \in 0..MaxBirths
        /\ proc \in [Pids -> {NoProc} \cup [own : BOOLEAN, ticks : 1..MaxBirths]]
        /\ (file = NoFile \/ file \in Files)
  <2>1. CASE births = 0 /\ file = NoFile /\ proc = [p \in Pids |-> NoProc]
    BY <2>1, BoundsAssumption
  <2>2. ASSUME NEW p \in Pids, NEW times \in BOOLEAN, NEW alive \in BOOLEAN,
               births = 1, file = LegacyFile(p, times),
               proc = [q \in Pids |-> IF q = p /\ alive THEN [own |-> TRUE, ticks |-> 1]
                                     ELSE NoProc]
        PROVE  /\ births \in 0..MaxBirths
               /\ proc \in [Pids -> {NoProc} \cup [own : BOOLEAN, ticks : 1..MaxBirths]]
               /\ file \in Files
    <3>1. file \in Files
      BY <2>2, LegacyTyped
    <3>2. [own |-> TRUE, ticks |-> 1] \in [own : BOOLEAN, ticks : 1..MaxBirths]
      BY <1>1
    <3>3. births \in 0..MaxBirths
      BY <2>2, BoundsAssumption
    <3> QED BY <2>2, <3>1, <3>2, <3>3
  <2> QED BY <2>1, <2>2 DEF Init
<1> QED
  BY <1>1, <1>2 DEF Init, TypeOK, Desired

\* Every step keeps the shape: what is waited for has a recorded pid, since
\* an op that clears the record clears the wait.
LEMMA BootTypesStep == TypeOK /\ [Next]_vars => TypeOK'
<1> SUFFICES ASSUME TypeOK, [Next]_vars PROVE TypeOK'
  OBVIOUS
<1>0. /\ boot \in 0..MaxBoots /\ 0 \in 0..MaxBoots /\ 0 \in 0..MaxBirths
      /\ NoPid \notin Pids
  BY BoundsAssumption, PidsAssumption DEF TypeOK
<1>1. CASE Launch
  <2>1. PICK f, found :
          /\ f \in {file, NoFile} /\ found \in Findings(f)
          /\ IF TriesAdoption(f) /\ found.verdict \in Recognised
               THEN /\ pid' = f.rec.pid /\ polled' = TRUE
                    /\ held' = proc[f.rec.pid].ticks
                    /\ Take(f.rec.pid, found.by)
               ELSE UNCHANGED <<pid, polled, held, mistaken>>
    BY <1>1 DEF Launch
  <2>2. /\ UNCHANGED <<osVars, births, proc, file, acting, stop, served>>
        /\ dpc = "off" /\ dpc' = "built" /\ written' \in BOOLEAN /\ pending' \in BOOLEAN
        /\ unread' \in BOOLEAN
    BY <1>1 DEF Launch, WantsAutostart
  <2>3. desired' \in Desired /\ recorded' \in 0..MaxBoots
    BY <1>0, <1>1 DEF Launch, TypeOK, Files, Desired
  <2>4. /\ pid' \in Pids \cup {NoPid} /\ held' \in 0..MaxBirths /\ polled' \in BOOLEAN
        /\ mistaken' \subseteq {"startID", "absoluteTime", "clockTime"}
        /\ (held' # 0 => pid' # NoPid) /\ (polled' => held' # 0)
    <3>1. CASE TriesAdoption(f) /\ found.verdict \in Recognised
      <4>1. f = file /\ file.rec.pid \in Pids /\ proc[file.rec.pid] # NoProc
        BY <2>1, <3>1, RecognisedNames
      <4>2. proc[file.rec.pid].ticks \in 1..MaxBirths
        BY <4>1 DEF TypeOK
      <4>3. mistaken' \subseteq {"startID", "absoluteTime", "clockTime"}
        BY <2>1, <3>1, FoundBy DEF Take, TypeOK
      <4> QED BY <1>0, <2>1, <3>1, <4>1, <4>2, <4>3, BoundsAssumption
    <3>2. CASE ~(TriesAdoption(f) /\ found.verdict \in Recognised)
      BY <2>1, <3>2 DEF TypeOK
    <3> QED BY <3>1, <3>2
  <2> QED
    BY <2>2, <2>3, <2>4 DEF TypeOK, osVars
<1>2. CASE Bookkeep
  <2>1. file' = NoFile \/ file' \in Files
    <3>1. PICK ok \in BOOLEAN :
            IF ok /\ AdoptedLegacy THEN file' \in Saved(boot)
            ELSE IF ok /\ Stamps /\ file # NoFile /\ ~unread
                   THEN file' = [file EXCEPT !.boot = boot]
            ELSE UNCHANGED file
      BY <1>2 DEF Bookkeep
    <3>2. CASE file' \in Saved(boot)
      BY <1>0, <3>2, SavedTyped
    <3>3. CASE file # NoFile /\ file' = [file EXCEPT !.boot = boot]
      BY <1>0, <3>3 DEF TypeOK, Files
    <3>4. CASE UNCHANGED file
      BY <3>4 DEF TypeOK
    <3> QED BY <3>1, <3>2, <3>3, <3>4
  <2>2. recorded' \in 0..MaxBoots /\ written' \in BOOLEAN /\ dpc' = "loop"
    BY <1>0, <1>2 DEF Bookkeep, TypeOK, AdoptedLegacy
  <2> QED
    BY <1>2, <2>1, <2>2 DEF Bookkeep, TypeOK, osVars, procVars
<1>3. CASE Startup
  <2>1. PICK s \in AfterStart(Now) : Becomes(s)
    BY <1>3 DEF Startup
  <2>2. StateOK(s)
    BY <2>1, NowTyped, StartTyped
  <2>3. recorded' \in 0..MaxBoots
    BY <1>0, <1>3 DEF Startup, RecordBoot, TypeOK
  <2> QED
    BY <1>3, <2>1, <2>2, <2>3, BecomesTyped
    DEF Startup, TypeOK, Desired, Process, osVars
<1>4. CASE Exited
  BY <1>0, <1>4 DEF Exited, TypeOK, osVars, memVars, ghosts
<1>5. CASE Save
  <2>1. recorded' \in 0..MaxBoots /\ SavedBoot \in 0..MaxBoots
    BY <1>0, <1>5 DEF Save, SavedBoot, TypeOK
  <2>2. PICK ok \in BOOLEAN :
          /\ written' = ok
          /\ IF ok THEN file' \in Saved(SavedBoot) ELSE UNCHANGED file
          /\ stop' \in {"none", "answered", "written"}
    BY <1>5 DEF Save
  <2>3. file' = NoFile \/ file' \in Files
    BY <2>1, <2>2, SavedTyped DEF TypeOK
  <2> QED
    BY <1>5, <2>1, <2>2, <2>3 DEF Save, TypeOK, osVars, procVars
<1>6. ASSUME NEW op \in Ops, Op(op) PROVE TypeOK'
  <2>1. PICK s \in Effects(op) : Becomes(s)
    BY <1>6 DEF Op
  <2>2. StateOK(s)
    BY <2>1, EffectsTyped
  <2>3. recorded' \in 0..MaxBoots /\ desired' \in Desired
          /\ stop' \in {"none", "answered", "written"}
    BY <1>0, <1>6 DEF Op, RecordBoot, TypeOK, Desired
  <2> QED
    BY <1>6, <2>1, <2>2, <2>3, BecomesTyped DEF Op, TypeOK, Process, osVars
<1>7. CASE Crash
  BY <1>0, <1>7 DEF Crash, Off, TypeOK, Desired, osVars, ghosts
<1>8. CASE CleanOrphans
  <2>1. PICK f, found :
          /\ f \in {file, NoFile} /\ found \in Findings(f)
          /\ IF found.verdict \in Recognised
               THEN Take(f.rec.pid, found.by) /\ proc' = [proc EXCEPT ![f.rec.pid] = NoProc]
               ELSE UNCHANGED <<mistaken, proc>>
    BY <1>8 DEF CleanOrphans
  <2>2. /\ mistaken' \subseteq {"startID", "absoluteTime", "clockTime"}
        /\ proc' \in [Pids -> {NoProc} \cup [own : BOOLEAN, ticks : 1..MaxBirths]]
    <3>1. CASE found.verdict \in Recognised
      <4>1. Take(f.rec.pid, found.by) /\ proc' = [proc EXCEPT ![f.rec.pid] = NoProc]
        BY <2>1, <3>1
      <4>2. found.by \in {"startID", "absoluteTime", "clockTime"}
        BY <2>1, <3>1, FoundBy
      <4> QED BY <4>1, <4>2 DEF Take, TypeOK
    <3>2. CASE found.verdict \notin Recognised
      BY <2>1, <3>2 DEF TypeOK
    <3> QED BY <3>1, <3>2
  <2> QED
    BY <1>8, <2>2 DEF CleanOrphans, TypeOK, osVars, memVars
<1>9. CASE ClockStep
  BY <1>9, BoundsAssumption DEF ClockStep, TypeOK, memVars, procVars, ghosts
<1>10. CASE Reboot
  <2>1. boot' \in 1..MaxBoots
    BY <1>10, BoundsAssumption DEF Reboot, TypeOK
  <2>2. proc' \in [Pids -> {NoProc} \cup [own : BOOLEAN, ticks : 1..MaxBirths]]
    BY <1>10 DEF Reboot
  <2> QED
    BY <1>0, <1>10, <2>1, <2>2 DEF Reboot, Off, TypeOK, Desired
<1>11. ASSUME NEW p \in Pids, Die(p) \/ ForeignBorn(p) PROVE TypeOK'
  <2>1. CASE Die(p)
    BY <2>1 DEF Die, TypeOK, osVars, memVars, ghosts
  <2>2. CASE ForeignBorn(p)
    <3>1. births' \in 0..MaxBirths /\ births + 1 \in 1..MaxBirths
      BY <2>2, BoundsAssumption DEF ForeignBorn, TypeOK
    <3>2. proc' \in [Pids -> {NoProc} \cup [own : BOOLEAN, ticks : 1..MaxBirths]]
      BY <2>2, <3>1 DEF ForeignBorn, TypeOK
    <3> QED BY <2>2, <3>1, <3>2 DEF ForeignBorn, TypeOK, osVars, memVars, ghosts
  <2> QED BY <1>11, <2>1, <2>2
<1>12. CASE UNCHANGED vars
  BY <1>12 DEF vars, TypeOK, osVars, memVars, procVars, ghosts
<1> QED
  BY <1>1, <1>2, <1>3, <1>4, <1>5, <1>6, <1>7, <1>8, <1>9, <1>10, <1>11, <1>12
  DEF Next

\* The shape of the state in every run: the loop waits for an exit only while
\* it has a pid recorded, however the program was crashed and started again.
THEOREM BootTypes == Spec => []TypeOK
BY BootTypesInit, BootTypesStep, PTL DEF Spec

-----------------------------------------------------------------------------
(* An operator's stop.                                                     *)

\* A save writes a file, with the intent in memory.
LEMMA SavedShape ==
  \A b : \A f \in Saved(b) : f.desired = desired /\ f # NoFile
BY DEF Saved, NoFile

\* Every step keeps a written stop on the disk, and in a memory that has read
\* it; a program that has not read it waits for nothing and writes nothing.
LEMMA StopStep == TypeOK /\ TypeOK' /\ StopOnDisk /\ [Next]_vars => StopOnDisk'
<1> SUFFICES ASSUME TypeOK, TypeOK', StopOnDisk, [Next]_vars PROVE StopOnDisk'
  OBVIOUS
<1>1. CASE Launch
  <2>1. PICK f \in {file, NoFile} :
          /\ f # file => unread'
          /\ pending' => WantsAutostart(f)
          /\ desired' = IF f = NoFile THEN "running" ELSE f.desired
          /\ pending' \/ f = NoFile => UNCHANGED <<polled, held>>
    BY <1>1 DEF Launch, TriesAdoption
  <2>2. UNCHANGED <<conf, file, acting, stop>> /\ dpc = "off" /\ dpc' = "built"
    BY <1>1 DEF Launch, osVars
  <2>3. held = 0 /\ ~polled
    BY <2>2 DEF TypeOK
  <2>4. CASE f = file
    BY <2>1, <2>2, <2>3, <2>4 DEF StopOnDisk, WantsAutostart
  <2>5. CASE f # file
    BY <2>1, <2>2, <2>3, <2>5 DEF StopOnDisk, WantsAutostart, MayAutostart
  <2> QED BY <2>4, <2>5
<1>2. CASE Bookkeep
  <2>1. PICK ok \in BOOLEAN :
          IF ok /\ AdoptedLegacy THEN file' \in Saved(boot)
          ELSE IF ok /\ Stamps /\ file # NoFile /\ ~unread
                 THEN file' = [file EXCEPT !.boot = boot]
          ELSE UNCHANGED file
    BY <1>2 DEF Bookkeep
  <2>2. /\ UNCHANGED <<pending, desired, unread, held, polled, stop, conf>>
        /\ dpc = "built" /\ dpc' = "loop"
    BY <1>2 DEF Bookkeep, osVars, procVars
  <2>3. CASE ok /\ AdoptedLegacy
    <3>1. file'.desired = desired /\ file' # NoFile
      BY <2>1, <2>3, SavedShape
    <3> QED BY <2>2, <2>3, <3>1 DEF StopOnDisk, AdoptedLegacy
  <2>4. CASE file # NoFile /\ file' = [file EXCEPT !.boot = boot]
    <3>1. file'.desired = file.desired
      BY <2>4 DEF TypeOK, Files
    <3>2. file' # NoFile
      BY <2>4 DEF TypeOK, Files, NoFile
    <3> QED BY <2>2, <3>1, <3>2, <2>4 DEF StopOnDisk
  <2>5. CASE UNCHANGED file
    BY <2>2, <2>5 DEF StopOnDisk
  <2> QED BY <2>1, <2>3, <2>4, <2>5
<1>3. CASE Startup
  BY <1>3 DEF Startup, StopOnDisk, osVars
<1>4. CASE Exited
  BY <1>4 DEF Exited, StopOnDisk, osVars, memVars, ghosts
<1>5. CASE Save
  <2>1. PICK ok \in BOOLEAN :
          /\ IF ok THEN file' \in Saved(SavedBoot) ELSE UNCHANGED file
          /\ stop' = "written" => stop = "written" \/ (ok /\ desired = "stopped" /\
                                    (acting = "stop" \/ stop # "none"))
    BY <1>5 DEF Save
  <2>2. /\ UNCHANGED <<pending, desired, unread, held, polled, conf>>
        /\ dpc = "save" /\ dpc' = "loop"
    BY <1>5 DEF Save, osVars, procVars
  <2>3. CASE ok
    <3>1. file'.desired = desired /\ file' # NoFile
      BY <2>1, <2>3, SavedShape
    <3> QED BY <2>1, <2>2, <2>3, <3>1 DEF StopOnDisk
  <2>4. CASE ~ok
    BY <2>1, <2>2, <2>4 DEF StopOnDisk
  <2> QED BY <2>3, <2>4
<1>6. ASSUME NEW op \in Ops, Op(op) PROVE StopOnDisk'
  BY <1>6 DEF Op, StopOnDisk, osVars
<1>7. CASE Crash
  BY <1>7 DEF Crash, Off, StopOnDisk, osVars, ghosts
<1>8. CASE CleanOrphans
  BY <1>8 DEF CleanOrphans, StopOnDisk, osVars, memVars
<1>9. CASE ClockStep
  BY <1>9 DEF ClockStep, StopOnDisk, memVars, procVars, ghosts
<1>10. CASE Reboot
  BY <1>10 DEF Reboot, Off, StopOnDisk
<1>11. ASSUME NEW p \in Pids, Die(p) \/ ForeignBorn(p) PROVE StopOnDisk'
  BY <1>11 DEF Die, ForeignBorn, StopOnDisk, osVars, memVars, ghosts
<1>12. CASE UNCHANGED vars
  BY <1>12 DEF vars, StopOnDisk, osVars, memVars, procVars, ghosts
<1> QED
  BY <1>1, <1>2, <1>3, <1>4, <1>5, <1>6, <1>7, <1>8, <1>9, <1>10, <1>11, <1>12
  DEF Next

\* A stop that was written is in the state file until an operator starts the
\* service or its configuration is removed; a program that runs has it in its
\* memory, or could not read it, and then has written nothing since.
THEOREM StopStaysOnDisk == Spec => []StopOnDisk
<1>1. Init => TypeOK /\ StopOnDisk
  BY BootTypesInit DEF Init, StopOnDisk
<1>2. TypeOK /\ StopOnDisk /\ [Next]_vars => (TypeOK /\ StopOnDisk)'
  BY BootTypesStep, StopStep
<1> QED BY <1>1, <1>2, PTL DEF Spec

\* Only Startup begins an autostart, and it does so with a start pending.
LEMMA OnlyStartup ==
  ASSUME Next, acting # "startup", acting' = "startup"
  PROVE  Startup
BY DEF Next, Launch, Bookkeep, Exited, Save, Op, Ops, Crash, Off, CleanOrphans,
       ClockStep, Reboot, Die, ForeignBorn

\* No start of the program and no reboot overrides an operator's stop that was
\* written, unless the file cannot be read and the service may be adopted.
THEOREM OperatorStopAlwaysSurvives == Spec => OperatorStopSurvives
<1>1. StopOnDisk /\ [Next]_vars =>
        [acting # "startup" /\ acting' = "startup"
           => stop # "written" \/ conf.force \/ (unread /\ conf.adopt)]_vars
  BY OnlyStartup DEF Startup, StopOnDisk
<1> QED
  BY <1>1, StopStaysOnDisk, PTL DEF Spec, OperatorStopSurvives

-----------------------------------------------------------------------------
(* A record of our own child is never taken for a stranger, but by a clock *)
(* time.  The invariant says what a record that is ours stands for at any  *)
(* later time: within its boot, the number of the child's birth belongs to *)
(* nobody else.                                                            *)
DistinctIn(s) ==
  /\ \A p \in Pids : s.proc[p] # NoProc => s.proc[p].ticks <= s.births
  /\ \A p, q \in Pids :
       s.proc[p] # NoProc /\ s.proc[q] # NoProc /\ s.proc[p].ticks = s.proc[q].ticks
         => p = q

\* From a to b processes may have died, and new ones been born with new ticks.
Later(a, b) ==
  /\ a.births <= b.births
  /\ \A p \in Pids : b.proc[p] # NoProc =>
       b.proc[p] = a.proc[p] \/ b.proc[p].ticks > a.births

\* The process of birth t is ours, or has ended.
OwnBirth(t) ==
  /\ t <= births
  /\ \A p \in Pids : proc[p] # NoProc /\ proc[p].ticks = t => proc[p].own

\* What a record of our child says of the processes of this boot.
StandsForOwn(r) ==
  r.ours =>
    /\ r.boot <= boot /\ r.btime # NoTime
    /\ r.start # 0 /\ r.boot = boot => OwnBirth(r.start)
    /\ r.ctime # NoTime => /\ r.ctime[1] <= boot
                           /\ r.ctime[1] = boot => OwnBirth(r.ctime[2])

RecordMeansOwn == file # NoFile /\ file.rec # NoRec => StandsForOwn(file.rec)

OwnInv == TypeOK /\ DistinctIn(Now) /\ RecordMeansOwn /\ TakenIsOurs

\* Start gives a child a number that nobody had.
LEMMA StartLater ==
  \A s : StateOK(s) /\ DistinctIn(s) =>
    \A t \in AfterStart(s) : DistinctIn(t) /\ Later(s, t)
<1> SUFFICES ASSUME NEW s, StateOK(s), DistinctIn(s), NEW t \in AfterStart(s)
             PROVE  DistinctIn(t) /\ Later(s, t)
  OBVIOUS
<1>1. s.births \in Nat /\ \A p \in Pids : s.proc[p] # NoProc => s.proc[p].ticks \in Nat
  BY BoundsAssumption DEF StateOK, BackendState, Process
<1>2. CASE t = s
  BY <1>1, <1>2 DEF Later
<1>3. CASE t # s
  <2>1. PICK p \in Pids : t = Spawned(s, p)
    BY <1>3 DEF AfterStart
  <2>2. /\ t.births = s.births + 1
        /\ t.proc[p].ticks = s.births + 1
        /\ \A q \in Pids \ {p} : t.proc[q] = s.proc[q]
    BY <2>1 DEF Spawned, StateOK, BackendState
  <2> QED BY <1>1, <2>2 DEF DistinctIn, Later
<1> QED BY <1>2, <1>3

\* Stop only ends processes.
LEMMA StopLater ==
  \A s : StateOK(s) /\ DistinctIn(s) =>
    \A t \in AfterStop(s) : DistinctIn(t) /\ Later(s, t)
<1> SUFFICES ASSUME NEW s, StateOK(s), DistinctIn(s), NEW t \in AfterStop(s)
             PROVE  DistinctIn(t) /\ Later(s, t)
  OBVIOUS
<1>1. s.births \in Nat
  BY BoundsAssumption DEF StateOK, BackendState
<1>2. t.births = s.births /\ \A p \in Pids : t.proc[p] = s.proc[p] \/ t.proc[p] = NoProc
  BY DEF AfterStop, StateOK, BackendState
<1> QED BY <1>1, <1>2 DEF DistinctIn, Later

\* An op is a stop and a start at most.
LEMMA EffectsLater ==
  ASSUME TypeOK, DistinctIn(Now), NEW op \in Ops, NEW s \in Effects(op)
  PROVE  DistinctIn(s) /\ Later(Now, s)
<1>1. StateOK(Now)
  BY NowTyped
<1>2. CASE op = "start"
  BY <1>1, <1>2, StartLater DEF Effects
<1>3. CASE op = "stop"
  BY <1>1, <1>3, StopLater DEF Effects
<1>4. CASE op = "restart"
  <2>1. PICK m \in AfterStop(Now) : s \in AfterStart(m)
    BY <1>4 DEF Effects
  <2>2. StateOK(m) /\ DistinctIn(m) /\ Later(Now, m)
    BY <1>1, <2>1, StopTyped, StopLater
  <2>3. StateOK(s) /\ DistinctIn(s) /\ Later(m, s)
    BY <2>1, <2>2, StartTyped, StartLater
  <2>4. Now.births \in Nat /\ m.births \in Nat /\ s.births \in Nat
          /\ \A p \in Pids : s.proc[p] # NoProc => s.proc[p].ticks \in Nat
    BY <1>1, <2>2, <2>3, BoundsAssumption DEF StateOK, BackendState, Process
  <2> QED BY <2>2, <2>3, <2>4 DEF Later
<1> QED
  BY <1>2, <1>3, <1>4 DEF Ops

\* A record keeps its meaning while processes die and are born.
LEMMA MeaningKept ==
  ASSUME TypeOK, NEW r, StandsForOwn(r), boot' = boot,
         births <= births', births' \in Nat,
         \A p \in Pids : proc'[p] # NoProc => proc'[p] = proc[p] \/ proc'[p].ticks > births,
         r \in Records
  PROVE  StandsForOwn(r)'
<1>1. births \in Nat
  BY BoundsAssumption DEF TypeOK
<1>2. ASSUME NEW t \in Nat, OwnBirth(t) PROVE OwnBirth(t)'
  BY <1>1, <1>2 DEF OwnBirth
<1>3. r.start \in Nat /\ (r.ctime # NoTime => r.ctime[2] \in Nat)
  BY BoundsAssumption DEF Records
<1> QED BY <1>2, <1>3 DEF StandsForOwn

\* What a save writes of our child stands for it.
LEMMA SavedStands ==
  ASSUME TypeOK, DistinctIn(Now), NEW b \in 0..MaxBoots, NEW f \in Saved(b),
         f.rec # NoRec
  PROVE  StandsForOwn(f.rec)
<1>1. PICK found \in BOOLEAN : f.rec = RecordOf(found)
  BY DEF Saved
<1>2. pid # NoPid /\ pid \in Pids
  BY <1>1 DEF RecordOf, TypeOK
<1>3. boot \in Nat /\ CurBoot <= boot /\ Skew \in Nat /\ births \in Nat
  BY BoundsAssumption DEF TypeOK, CurBoot, Skew
<1>4. f.rec.boot = CurBoot /\ f.rec.btime = <<boot, Skew>> 
        /\ f.rec.ours = (Own(pid) \/ ~Running)
  BY <1>1, <1>2 DEF RecordOf, BootTime
<1>5. f.rec.btime # NoTime
  BY <1>3, <1>4, TimesAssumption
<1>6. CASE ~(Running /\ found)
  BY <1>1, <1>2, <1>3, <1>4, <1>5, <1>6 DEF RecordOf, StandsForOwn
<1>7. CASE Running /\ found
  <2>1. f.rec.start = proc[pid].ticks /\ f.rec.ctime = <<boot, proc[pid].ticks, Skew>>
    BY <1>1, <1>2, <1>7 DEF RecordOf, CreateTime
  <2>2. ASSUME f.rec.ours PROVE OwnBirth(proc[pid].ticks)
    <3>1. proc[pid] # NoProc /\ proc[pid].own
      BY <1>2, <1>4, <1>7, <2>2 DEF Own, Alive, Running, RunningIn, Now
    <3> QED BY <1>2, <3>1 DEF DistinctIn, Now, OwnBirth
  <2>3. f.rec.ctime[1] = boot /\ f.rec.ctime[2] = proc[pid].ticks
    BY <2>1
  <2> QED BY <1>3, <1>4, <1>5, <2>1, <2>2, <2>3 DEF StandsForOwn
<1> QED BY <1>6, <1>7

\* A record of our child that is recognised, and not by a clock time, names our
\* child: its start ID is that of the process, or its creation time, to the tick.
LEMMA RecognisedIsOurs ==
  ASSUME OwnInv, NEW f \in {file, NoFile}, NEW found \in Findings(f),
         found.verdict \in Recognised, found.by # "clockTime", file.rec.ours
  PROVE  Own(file.rec.pid)
<1> DEFINE r == file.rec
<1>1. /\ f = file /\ r \in Records /\ r.pid \in Pids /\ proc[r.pid] # NoProc
      /\ file # NoFile /\ r # NoRec
  BY RecognisedNames, RecAssumption DEF OwnInv, Findings, Recognised
<1>2. PICK look \in Looks : /\ found.verdict = Verify(r, file.boot, look)
                            /\ found.by = Evidence(r, look)
  BY RecognisedNames DEF OwnInv
<1>3. StandsForOwn(r)
  BY <1>1 DEF OwnInv, RecordMeansOwn
<1>4. ~Bare(r)
  BY <1>3 DEF StandsForOwn, Bare
<1>5. StartDecides(r, look) \/ host.absolute
  BY <1>2 DEF Evidence
<1>6. \/ r.start # 0 /\ SameBoot(r) /\ proc[r.pid].ticks = r.start
      \/ r.ctime # NoTime /\ CreateTime(r.pid) = r.ctime
  <2>1. CASE StartDecides(r, look)
    BY <1>2, <1>4, <2>1 DEF Verify, StartDecides, Recognised
  <2>2. CASE ~StartDecides(r, look)
    BY <1>2, <1>4, <1>5, <2>2 DEF Verify, CheckCreateTime, Recognised
  <2> QED BY <2>1, <2>2
<1>7. CASE r.start # 0 /\ SameBoot(r) /\ proc[r.pid].ticks = r.start
  <2>1. r.boot = boot
    BY <1>7 DEF SameBoot, CurBoot
  <2> QED BY <1>1, <1>3, <1>7, <2>1 DEF StandsForOwn, OwnBirth, Own, Alive
<1>8. CASE r.ctime # NoTime /\ CreateTime(r.pid) = r.ctime
  <2>1. r.ctime[1] = boot /\ r.ctime[2] = proc[r.pid].ticks
    BY <1>8 DEF CreateTime
  <2> QED BY <1>1, <1>3, <1>8, <2>1 DEF StandsForOwn, OwnBirth, Own, Alive
<1> QED BY <1>6, <1>7, <1>8

\* So nothing else is taken on the word of such a record.
LEMMA TakesOurs ==
  ASSUME OwnInv, NEW f \in {file, NoFile}, NEW found \in Findings(f),
         found.verdict \in Recognised, Take(f.rec.pid, found.by)
  PROVE  TakenIsOurs'
<1>1. f = file
  BY RecognisedNames DEF OwnInv
<1> QED BY <1>1, RecognisedIsOurs DEF Take, OwnInv, TakenIsOurs

\* An old version's record with times is of the first child of the first boot.
LEMMA OwnInit == Init => OwnInv
<1> SUFFICES ASSUME Init PROVE OwnInv
  OBVIOUS
<1>1. TypeOK /\ TakenIsOurs
  BY BootTypesInit DEF Init, TakenIsOurs
<1>2. CASE births = 0 /\ file = NoFile /\ proc = [p \in Pids |-> NoProc]
  BY <1>1, <1>2 DEF OwnInv, DistinctIn, Now, RecordMeansOwn
<1>3. ASSUME NEW p \in Pids, NEW times \in BOOLEAN, NEW alive \in BOOLEAN,
             births = 1, file = LegacyFile(p, times),
             proc = [q \in Pids |-> IF q = p /\ alive THEN [own |-> TRUE, ticks |-> 1]
                                   ELSE NoProc]
      PROVE  OwnInv
  <2>1. \A q \in Pids : proc[q] # NoProc => q = p /\ proc[q].own /\ proc[q].ticks = 1
    BY <1>3
  <2>2. DistinctIn(Now)
    BY <1>3, <2>1 DEF DistinctIn, Now
  <2>3. OwnBirth(1)
    BY <1>3, <2>1 DEF OwnBirth
  <2>4. /\ file.rec.boot = 0 /\ file.rec.start = 0
        /\ file.rec.ours => file.rec.btime = <<1, 0>> /\ file.rec.ctime = <<1, 1, 0>>
    BY <1>3 DEF LegacyFile, LegacyRecord
  <2>5. <<1, 0>> # NoTime /\ boot = 1
    BY TimesAssumption DEF Init
  <2>6. StandsForOwn(file.rec)
    BY <2>3, <2>4, <2>5 DEF StandsForOwn
  <2> QED BY <1>1, <2>2, <2>6 DEF OwnInv, RecordMeansOwn
<1> QED BY <1>2, <1>3 DEF Init

\* A step that leaves the file alone and whose processes are later ones.
LEMMA LaterKeeps ==
  ASSUME OwnInv, TypeOK', UNCHANGED <<boot, file, mistaken>>,
         NEW s, DistinctIn(s), Later(Now, s), births' = s.births, proc' = s.proc
  PROVE  OwnInv'
<1>1. TypeOK /\ births' \in Nat /\ births <= births'
  BY BoundsAssumption DEF OwnInv, TypeOK, Later, Now
<1>2. \A p \in Pids : proc'[p] # NoProc => proc'[p] = proc[p] \/ proc'[p].ticks > births
  BY DEF Later, Now
<1>3. DistinctIn(Now)'
  BY DEF DistinctIn, Now
<1>4. RecordMeansOwn'
  <2> SUFFICES ASSUME file # NoFile, file.rec # NoRec PROVE StandsForOwn(file.rec)'
    BY DEF RecordMeansOwn
  <2>1. PICK r : r = file.rec
    OBVIOUS
  <2>2. r \in Records /\ StandsForOwn(r)
    BY <1>1, <2>1 DEF TypeOK, Files, OwnInv, RecordMeansOwn
  <2>3. StandsForOwn(r)'
    BY <1>1, <1>2, <2>2, MeaningKept
  <2> QED BY <2>1, <2>3 DEF StandsForOwn
<1> QED BY <1>3, <1>4 DEF OwnInv, TakenIsOurs

\* Every step keeps what a record stands for.
LEMMA OwnStep == OwnInv /\ [Next]_vars => OwnInv'
<1> SUFFICES ASSUME OwnInv, [Next]_vars PROVE OwnInv'
  OBVIOUS
<1>1. TypeOK /\ TypeOK' /\ DistinctIn(Now)
  BY BootTypesStep DEF OwnInv
<1>2. StateOK(Now)
  BY <1>1, NowTyped
<1>3. Later(Now, Now) /\ Now.births = births /\ Now.proc = proc
  BY <1>1, BoundsAssumption DEF Later, Now, TypeOK
<1>4. ASSUME file # NoFile, file'.rec = file.rec,
             UNCHANGED <<boot, births, proc>>, TakenIsOurs'
      PROVE  OwnInv'
  <2>1. DistinctIn(Now)'
    BY <1>1, <1>4 DEF DistinctIn, Now
  <2>2. RecordMeansOwn'
    BY <1>4 DEF OwnInv, RecordMeansOwn, StandsForOwn, OwnBirth
  <2> QED BY <1>1, <1>4, <2>1, <2>2 DEF OwnInv
<1>5. ASSUME NEW b \in 0..MaxBoots, file' \in Saved(b),
             UNCHANGED <<boot, births, proc, mistaken>>
      PROVE  OwnInv'
  <2>1. DistinctIn(Now)' /\ TakenIsOurs'
    BY <1>1, <1>5 DEF DistinctIn, Now, OwnInv, TakenIsOurs
  <2>2. RecordMeansOwn'
    <3>1. PICK f \in Saved(b) : f = file'
      BY <1>5
    <3>2. f.rec # NoRec => StandsForOwn(f.rec)
      BY <1>1, SavedStands
    <3> QED BY <1>5, <3>1, <3>2 DEF RecordMeansOwn, StandsForOwn, OwnBirth
  <2> QED BY <1>1, <2>1, <2>2 DEF OwnInv
<1>6. ASSUME UNCHANGED <<boot, births, proc, file, mistaken>> PROVE OwnInv'
  BY <1>1, <1>3, <1>6, LaterKeeps
<1>7. CASE Launch
  <2>1. PICK f, found :
          /\ f \in {file, NoFile} /\ found \in Findings(f)
          /\ IF TriesAdoption(f) /\ found.verdict \in Recognised
               THEN Take(f.rec.pid, found.by) ELSE UNCHANGED mistaken
    BY <1>7 DEF Launch
  <2>2. UNCHANGED <<boot, births, proc, file>>
    BY <1>7 DEF Launch, osVars
  <2>3. CASE TriesAdoption(f) /\ found.verdict \in Recognised
    <3>1. TakenIsOurs'
      BY <2>1, <2>3, TakesOurs
    <3>2. file # NoFile
      BY <2>1, <2>3 DEF TriesAdoption
    <3> QED BY <1>4, <2>2, <3>1, <3>2
  <2>4. CASE ~(TriesAdoption(f) /\ found.verdict \in Recognised)
    BY <1>6, <2>1, <2>2, <2>4
  <2> QED BY <2>3, <2>4
<1>8. CASE Bookkeep
  <2>1. UNCHANGED <<boot, births, proc, mistaken>>
    BY <1>8 DEF Bookkeep, osVars, procVars
  <2>2. \/ file' \in Saved(boot)
        \/ file # NoFile /\ file' = [file EXCEPT !.boot = boot]
        \/ UNCHANGED file
    BY <1>8 DEF Bookkeep
  <2>3. CASE file' \in Saved(boot)
    <3>1. boot \in 0..MaxBoots
      BY <1>1 DEF TypeOK
    <3> QED BY <1>5, <2>1, <2>3, <3>1
  <2>4. CASE file # NoFile /\ file' = [file EXCEPT !.boot = boot]
    <3>1. file'.rec = file.rec
      BY <1>1, <2>4 DEF TypeOK, Files
    <3>2. TakenIsOurs'
      BY <2>1 DEF OwnInv, TakenIsOurs
    <3> QED BY <1>4, <2>1, <2>4, <3>1, <3>2
  <2>5. CASE UNCHANGED file
    BY <1>6, <2>1, <2>5
  <2> QED BY <2>2, <2>3, <2>4, <2>5
<1>9. CASE Startup
  <2>1. PICK s \in AfterStart(Now) : Becomes(s)
    BY <1>9 DEF Startup
  <2>2. DistinctIn(s) /\ Later(Now, s)
    BY <1>1, <1>2, <2>1, StartLater
  <2> QED BY <1>1, <1>9, <2>1, <2>2, LaterKeeps DEF Startup, Becomes, osVars
<1>10. CASE Exited
  BY <1>6, <1>10 DEF Exited, osVars, ghosts
<1>11. CASE Save
  <2>1. UNCHANGED <<boot, births, proc, mistaken>>
    BY <1>11 DEF Save, osVars, procVars
  <2>2. file' \in Saved(SavedBoot) \/ UNCHANGED file
    BY <1>11 DEF Save
  <2>3. SavedBoot \in 0..MaxBoots
    BY <1>1 DEF TypeOK, SavedBoot
  <2> QED BY <1>5, <1>6, <2>1, <2>2, <2>3
<1>12. ASSUME NEW op \in Ops, Op(op) PROVE OwnInv'
  <2>1. PICK s \in Effects(op) : Becomes(s)
    BY <1>12 DEF Op
  <2>2. DistinctIn(s) /\ Later(Now, s)
    BY <1>1, <2>1, EffectsLater
  <2> QED BY <1>1, <1>12, <2>1, <2>2, LaterKeeps DEF Op, Becomes, osVars
<1>13. CASE Crash
  BY <1>6, <1>13 DEF Crash, osVars, ghosts
<1>14. CASE CleanOrphans
  <2>1. PICK f, found :
          /\ f \in {file, NoFile} /\ found \in Findings(f)
          /\ IF found.verdict \in Recognised
               THEN Take(f.rec.pid, found.by) /\ proc' = [proc EXCEPT ![f.rec.pid] = NoProc]
               ELSE UNCHANGED <<mistaken, proc>>
    BY <1>14 DEF CleanOrphans
  <2>2. file' = NoFile /\ births' = births
    BY <1>14 DEF CleanOrphans
  <2>3. TakenIsOurs'
    BY <2>1, TakesOurs DEF OwnInv, TakenIsOurs
  <2>4. \A p \in Pids : proc'[p] = proc[p] \/ proc'[p] = NoProc
    BY <1>1, <2>1 DEF TypeOK
  <2>5. DistinctIn(Now)'
    BY <1>1, <2>2, <2>4 DEF DistinctIn, Now
  <2> QED BY <1>1, <2>2, <2>3, <2>5 DEF OwnInv, RecordMeansOwn
<1>15. CASE ClockStep
  BY <1>6, <1>15 DEF ClockStep, procVars, ghosts
<1>16. CASE Reboot
  <2>1. /\ boot' = boot + 1 /\ file' = file /\ mistaken' = mistaken
        /\ births' = 0 /\ \A p \in Pids : proc'[p] = NoProc
    BY <1>16 DEF Reboot
  <2>2. DistinctIn(Now)'
    BY <2>1 DEF DistinctIn, Now
  <2>3. RecordMeansOwn'
    <3>1. SUFFICES ASSUME file # NoFile, file.rec # NoRec, file.rec.ours
                   PROVE  StandsForOwn(file.rec)'
      BY <2>1 DEF RecordMeansOwn, StandsForOwn
    <3>2. file.rec \in Records /\ boot \in Nat
      BY <1>1, <3>1, BoundsAssumption DEF TypeOK, Files
    <3>3. file.rec.boot \in Nat /\ (file.rec.ctime # NoTime => file.rec.ctime[1] \in Nat)
      BY <3>2, BoundsAssumption DEF Records
    <3>4. StandsForOwn(file.rec)
      BY <3>1 DEF OwnInv, RecordMeansOwn
    <3> QED BY <2>1, <3>1, <3>2, <3>3, <3>4 DEF StandsForOwn
  <2> QED BY <1>1, <2>1, <2>2, <2>3 DEF OwnInv, TakenIsOurs
<1>17. ASSUME NEW p \in Pids, Die(p) \/ ForeignBorn(p) PROVE OwnInv'
  <2> DEFINE s == [births |-> births', proc |-> proc']
  <2>1. UNCHANGED <<boot, file, mistaken>>
    BY <1>17 DEF Die, ForeignBorn, osVars, ghosts
  <2>2. births \in Nat /\ \A q \in Pids : proc[q] # NoProc => proc[q].ticks \in Nat
    BY <1>1, BoundsAssumption DEF TypeOK
  <2>3. /\ \A q \in Pids \ {p} : proc'[q] = proc[q]
        /\ \/ births' = births /\ proc'[p] = NoProc
           \/ births' = births + 1 /\ proc'[p].ticks = births + 1
    BY <1>1, <1>17 DEF Die, ForeignBorn, TypeOK
  <2>4. DistinctIn(s) /\ Later(Now, s)
    BY <1>1, <2>2, <2>3 DEF DistinctIn, Later, Now
  <2> QED BY <1>1, <2>1, <2>4, LaterKeeps
<1>18. CASE UNCHANGED vars
  BY <1>6, <1>18 DEF vars, osVars, procVars, ghosts
<1> QED
  BY <1>7, <1>8, <1>9, <1>10, <1>11, <1>12, <1>13, <1>14, <1>15, <1>16, <1>17, <1>18
  DEF Next

\* What the program adopts or kills on the word of a record of its own child
\* is that child, however pids are used again and clocks and boots move on, if
\* there was a start ID to compare or creation times are absolute: a boot time
\* that is near does not let a stranger pass, a clock time that is near may.
THEOREM TakenAlwaysOurs == Spec => []TakenIsOurs
<1>1. OwnInv => TakenIsOurs
  BY DEF OwnInv
<1> QED BY <1>1, OwnInit, OwnStep, PTL DEF Spec

-----------------------------------------------------------------------------
(* No autostart beside a child the file describes.  While the process that *)
(* a record was made of may be alive, nothing the file says about boots or *)
(* times is out of date, so verification cannot call it a mismatch.        *)
UpToDate(f) ==
  /\ f.status = "running"
  /\ f.rec.boot \in {0, CurBoot}
  /\ CurBoot # 0 => f.boot \in {0, CurBoot}
  /\ f.rec.start \in {0, f.rec.who[2]}
  /\ host.absolute =>
       /\ f.rec.btime \in {NoTime, <<boot, 0>>}
       /\ f.rec.ctime \in {NoTime, <<boot, f.rec.who[2], 0>>}

\* Only who was alive at the save, in this boot, may be alive now.
Faithful(f) ==
  f.rec # NoRec =>
    /\ f.rec.who[1] <= boot
    /\ f.rec.who[1] = boot /\ f.rec.who[2] # 0 => UpToDate(f)

FileFaithful == file # NoFile => Faithful(file)

\* While a start is pending nobody runs whom the file describes, if the file
\* could be read.
PendingInv ==
  pending => /\ dpc \in {"built", "loop"} /\ held = 0 /\ ~polled
             /\ (unread /\ conf.adopt) \/ \A p \in Pids : Own(p) => ~Described(p)

DuplicateInv == TypeOK /\ FileFaithful /\ PendingInv

\* A described child is not a mismatch, and no reboot is seen since the save.
LEMMA DescribedRecognised ==
  ASSUME TypeOK, FileFaithful, NEW p \in Pids, Own(p), Described(p)
  PROVE  /\ file # NoFile /\ file.status = "running"
         /\ ~RebootedSince(file.boot)
         /\ \A found \in Findings(file) : found.verdict \in Recognised \cup {"unknown"}
<1> DEFINE r == file.rec
<1>1. /\ file # NoFile /\ r # NoRec /\ r.pid = p
      /\ r.who = <<boot, proc[p].ticks>>
  BY DEF Described
<1>2. proc[p] # NoProc /\ Alive(r.pid) /\ proc[p].ticks # 0
  BY <1>1, BoundsAssumption DEF Own, Alive, TypeOK
<1>3. r.who[1] = boot /\ r.who[2] = proc[p].ticks
  BY <1>1
<1>4. UpToDate(file)
  BY <1>1, <1>2, <1>3 DEF FileFaithful, Faithful
<1>5. ~OtherBoot(r, file.boot) /\ ~RebootedSince(file.boot)
  BY <1>4 DEF UpToDate, OtherBoot, RebootedSince
<1>6. host.absolute => \A look \in Looks : ~BootTimeDiffers(r, look)
  BY <1>4 DEF UpToDate, BootTimeDiffers, BootTime, Skew
<1>7. r.start # 0 => r.start = proc[r.pid].ticks
  BY <1>1, <1>3, <1>4 DEF UpToDate
<1>8. host.absolute /\ r.ctime # NoTime => CreateTime(r.pid) = r.ctime
  BY <1>1, <1>3, <1>4 DEF UpToDate, CreateTime, Skew
<1>9. ASSUME NEW look \in Looks
      PROVE  Verify(r, file.boot, look) \in {"verified", "near", "unknown"}
  BY <1>2, <1>5, <1>6, <1>7, <1>8 DEF Verify, CheckCreateTime, StartDecides
<1>10. \A found \in Findings(file) : found.verdict \in Recognised \cup {"unknown"}
  BY <1>1, <1>9 DEF Findings, Recognised
<1> QED BY <1>1, <1>4, <1>5, <1>10 DEF UpToDate

\* What a save writes is up to date, if it records the boot of a live child.
LEMMA SavedFaithful ==
  ASSUME TypeOK, NEW b \in 0..MaxBoots, Running /\ host.bootId => b = boot,
         NEW f \in Saved(b)
  PROVE  Faithful(f)
<1> SUFFICES ASSUME f.rec # NoRec PROVE Faithful(f)
  BY DEF Faithful
<1>1. PICK found \in BOOLEAN :
        /\ f.rec = RecordOf(found) /\ f.boot = b
        /\ f.status = IF Running THEN "running" ELSE "stopped"
  BY DEF Saved
<1>2. pid # NoPid /\ boot \in Nat \ {0}
  BY <1>1, BoundsAssumption DEF RecordOf, TypeOK
<1>3. /\ f.rec.boot = CurBoot /\ f.rec.btime = <<boot, Skew>>
      /\ f.rec.ctime = IF Running /\ found THEN CreateTime(pid) ELSE NoTime
      /\ f.rec.start = IF Running /\ found THEN proc[pid].ticks ELSE 0
      /\ f.rec.who = IF Running THEN <<boot, proc[pid].ticks>> ELSE <<0, 0>>
  BY <1>1, <1>2 DEF RecordOf, BootTime
<1>4. CASE ~Running
  <2>1. f.rec.who[1] = 0 /\ f.rec.who[2] = 0
    BY <1>3, <1>4
  <2> QED BY <1>2, <2>1 DEF Faithful
<1>5. CASE Running
  <2>1. f.rec.who[1] = boot /\ f.rec.who[2] = proc[pid].ticks
    BY <1>3, <1>5
  <2>2. CurBoot # 0 => f.boot = CurBoot
    BY <1>1, <1>5 DEF CurBoot
  <2>3. UpToDate(f)
    BY <1>1, <1>3, <1>5, <2>1, <2>2 DEF UpToDate, CreateTime, Skew
  <2> QED BY <1>2, <2>1, <2>3 DEF Faithful
<1> QED BY <1>4, <1>5

\* At first nothing is pending, and an old file is of the first boot.
LEMMA DuplicateInit == Init => DuplicateInv
<1> SUFFICES ASSUME Init PROVE DuplicateInv
  OBVIOUS
<1>1. TypeOK /\ PendingInv
  BY BootTypesInit DEF Init, PendingInv
<1>2. ASSUME NEW p \in Pids, NEW times \in BOOLEAN, file = LegacyFile(p, times)
      PROVE  Faithful(file)
  <2>1. /\ file.status = "running" /\ file.boot = 0 /\ file.rec.boot = 0
        /\ file.rec.start = 0 /\ file.rec.who = <<1, 1>>
        /\ file.rec.btime \in {NoTime, <<1, 0>>}
        /\ file.rec.ctime \in {NoTime, <<1, 1, 0>>}
    BY <1>2 DEF LegacyFile, LegacyRecord
  <2>2. file.rec.who[1] = 1 /\ file.rec.who[2] = 1
    BY <2>1
  <2>3. boot = 1
    BY DEF Init
  <2> QED BY <2>1, <2>2, <2>3 DEF Faithful, UpToDate
<1> QED BY <1>1, <1>2 DEF Init, DuplicateInv, FileFaithful

\* Every step keeps it.
LEMMA DuplicateStep == DuplicateInv /\ [Next]_vars => DuplicateInv'
<1> SUFFICES ASSUME DuplicateInv, [Next]_vars PROVE DuplicateInv'
  OBVIOUS
<1>1. TypeOK /\ TypeOK'
  BY BootTypesStep DEF DuplicateInv
<1>2. ASSUME UNCHANGED <<boot, host, file>> PROVE FileFaithful'
  BY <1>2 DEF DuplicateInv, FileFaithful, Faithful, UpToDate, CurBoot
<1>3. ASSUME NEW b \in 0..MaxBoots, Running /\ host.bootId => b = boot,
             file' \in Saved(b), UNCHANGED <<boot, host>>
      PROVE  FileFaithful'
  <2>1. PICK f \in Saved(b) : f = file'
    BY <1>3
  <2>2. Faithful(f)
    BY <1>1, <1>3, SavedFaithful
  <2> QED BY <1>3, <2>1, <2>2 DEF FileFaithful, Faithful, UpToDate, CurBoot
<1>4. ASSUME ~pending' PROVE PendingInv'
  BY <1>4 DEF PendingInv
<1>5. CASE Launch
  <2>1. FileFaithful'
    BY <1>2, <1>5 DEF Launch, osVars
  <2>2. PICK f, found :
          /\ f \in {file, NoFile} /\ found \in Findings(f)
          /\ LET adopts == TriesAdoption(f) /\ found.verdict \in Recognised
                 unknown == TriesAdoption(f) /\ found.verdict = "unknown"
             IN /\ pending' = (WantsAutostart(f) /\ ~adopts /\ ~unknown)
                /\ ~adopts => UNCHANGED <<held, polled>>
                /\ unread' = (f # file)
    BY <1>5 DEF Launch
  <2>3. /\ dpc = "off" /\ dpc' = "built"
        /\ UNCHANGED <<conf, host, boot, proc, file>>
    BY <1>5 DEF Launch, osVars
  <2>4. held = 0 /\ ~polled
    BY <1>1, <2>3 DEF TypeOK
  <2>5. ASSUME pending', ~(unread' /\ conf.adopt), NEW p \in Pids, Own(p), Described(p)
        PROVE  FALSE
    <3>1. /\ file # NoFile /\ file.status = "running" /\ ~RebootedSince(file.boot)
          /\ f = file => found.verdict \in Recognised \cup {"unknown"}
      BY <1>1, <2>2, <2>5, DescribedRecognised DEF DuplicateInv
    <3>2. conf.adopt
      BY <2>2, <2>5, <3>1 DEF WantsAutostart, MayAutostart
    <3>3. f = file
      BY <2>2, <2>5, <3>2
    <3> QED BY <2>2, <2>5, <3>1, <3>2, <3>3 DEF TriesAdoption
  <2>6. PendingInv'
    BY <2>2, <2>3, <2>4, <2>5 DEF PendingInv, Own, Alive, Described
  <2> QED BY <1>1, <2>1, <2>6 DEF DuplicateInv
<1>6. CASE Bookkeep
  <2>1. UNCHANGED <<conf, boot, host, pending, unread, proc, held, polled>> /\ dpc' = "loop"
    BY <1>6 DEF Bookkeep, osVars, procVars
  <2>2. \/ AdoptedLegacy /\ file' \in Saved(boot)
        \/ Stamps /\ file # NoFile /\ file' = [file EXCEPT !.boot = boot]
        \/ UNCHANGED file
    BY <1>6 DEF Bookkeep
  <2>3. FileFaithful'
    <3>1. CASE file' \in Saved(boot)
      <4>1. boot \in 0..MaxBoots
        BY <1>1 DEF TypeOK
      <4> QED BY <1>3, <2>1, <3>1, <4>1
    <3>2. CASE Stamps /\ file # NoFile /\ file' = [file EXCEPT !.boot = boot]
      <4>1. /\ file'.boot = boot /\ file'.rec = file.rec /\ file'.status = file.status
            /\ CurBoot = boot
        BY <1>1, <3>2 DEF TypeOK, Files, Stamps, CurBoot
      <4> QED
        BY <2>1, <3>2, <4>1
        DEF DuplicateInv, FileFaithful, Faithful, UpToDate, CurBoot
    <3>3. CASE UNCHANGED file
      BY <1>2, <2>1, <3>3
    <3> QED BY <2>2, <3>1, <3>2, <3>3
  <2>4. PendingInv'
    <3>1. CASE pending
      <4>1. UNCHANGED file
        BY <2>2, <3>1 DEF DuplicateInv, PendingInv, AdoptedLegacy, Stamps
      <4> QED
        BY <2>1, <3>1, <4>1 DEF DuplicateInv, PendingInv, Own, Alive, Described
    <3>2. CASE ~pending
      BY <1>4, <2>1, <3>2
    <3> QED BY <3>1, <3>2
  <2> QED BY <1>1, <2>3, <2>4 DEF DuplicateInv
<1>7. CASE Startup
  BY <1>1, <1>2, <1>4, <1>7 DEF Startup, osVars, DuplicateInv
<1>8. CASE Exited
  <2>1. ~pending'
    BY <1>8 DEF Exited, memVars, DuplicateInv, PendingInv
  <2> QED BY <1>1, <1>2, <1>4, <1>8, <2>1 DEF Exited, osVars, DuplicateInv
<1>9. CASE Save
  <2>1. ~pending'
    BY <1>9 DEF Save, DuplicateInv, PendingInv
  <2>2. UNCHANGED <<boot, host>> /\ (file' \in Saved(SavedBoot) \/ UNCHANGED file)
    BY <1>9 DEF Save, osVars
  <2>3. SavedBoot \in 0..MaxBoots /\ (Running /\ host.bootId => SavedBoot = boot)
    BY <1>1 DEF TypeOK, SavedBoot
  <2>4. FileFaithful'
    BY <1>2, <1>3, <2>2, <2>3
  <2> QED BY <1>1, <1>4, <2>1, <2>4 DEF DuplicateInv
<1>10. ASSUME NEW op \in Ops, Op(op) PROVE DuplicateInv'
  BY <1>1, <1>2, <1>4, <1>10 DEF Op, osVars, DuplicateInv
<1>11. CASE Crash
  BY <1>1, <1>2, <1>4, <1>11 DEF Crash, Off, osVars, DuplicateInv
<1>12. CASE CleanOrphans
  <2>1. file' = NoFile /\ ~pending'
    BY <1>1, <1>12 DEF CleanOrphans, memVars, TypeOK
  <2> QED BY <1>1, <1>4, <2>1 DEF DuplicateInv, FileFaithful
<1>13. CASE ClockStep
  BY <1>1, <1>2, <1>13
  DEF ClockStep, memVars, procVars, DuplicateInv, PendingInv, Own, Alive, Described
<1>14. CASE Reboot
  <2>1. boot' = boot + 1 /\ file' = file /\ ~pending'
    BY <1>14 DEF Reboot, Off
  <2>2. ASSUME file # NoFile, file.rec # NoRec PROVE file.rec.who[1] < boot + 1
    <3>1. file.rec.who[1] \in Nat /\ boot \in Nat
      BY <1>1, <2>2, BoundsAssumption DEF TypeOK, Files, Records
    <3> QED BY <2>2, <3>1 DEF DuplicateInv, FileFaithful, Faithful
  <2>3. FileFaithful'
    <3>1. boot \in Nat /\ \A n \in Nat : n < boot + 1 => n <= boot + 1 /\ n # boot + 1
      BY <1>1, BoundsAssumption DEF TypeOK
    <3>2. file # NoFile /\ file.rec # NoRec => file.rec.who[1] \in Nat
      BY <1>1, BoundsAssumption DEF TypeOK, Files, Records
    <3> QED BY <2>1, <2>2, <3>1, <3>2 DEF FileFaithful, Faithful
  <2> QED BY <1>1, <1>4, <2>1, <2>3 DEF DuplicateInv
<1>15. ASSUME NEW p \in Pids, Die(p) \/ ForeignBorn(p) PROVE DuplicateInv'
  <2>1. /\ UNCHANGED <<conf, boot, host, file, pending, unread, dpc, held, polled>>
        /\ \A q \in Pids \ {p} : proc'[q] = proc[q]
        /\ proc'[p] = NoProc \/ ~proc'[p].own
    BY <1>1, <1>15 DEF Die, ForeignBorn, osVars, memVars, TypeOK
  <2>2. PendingInv'
    BY <2>1 DEF DuplicateInv, PendingInv, Own, Alive, Described
  <2> QED BY <1>1, <1>2, <2>1, <2>2 DEF DuplicateInv
<1>16. CASE UNCHANGED vars
  BY <1>1, <1>2, <1>16
  DEF vars, osVars, memVars, procVars, DuplicateInv, PendingInv, Own, Alive, Described
<1> QED
  BY <1>5, <1>6, <1>7, <1>8, <1>9, <1>10, <1>11, <1>12, <1>13, <1>14, <1>15, <1>16
  DEF Next

\* No autostart puts a second child beside one the state file describes, for
\* any number of boots, crashes, processes and pids, on every platform, unless
\* the file cannot be read and the service may be adopted.
THEOREM AutostartNeverDoubles == Spec => AutostartNeverDuplicates
<1>1. DuplicateInv /\ [Next]_vars =>
        [acting # "startup" /\ acting' = "startup" /\ births' # births
           => (\A p \in Pids : Own(p) => ~Described(p)) \/ (unread /\ conf.adopt)]_vars
  BY OnlyStartup DEF Startup, DuplicateInv, PendingInv
<1> QED
  BY <1>1, DuplicateInit, DuplicateStep, PTL DEF Spec, AutostartNeverDuplicates

-----------------------------------------------------------------------------
(* Between ops the file describes the child the program runs.  What a      *)
(* record says of start and creation belongs to the process it was made    *)
(* of, so that an adopted process is that one; and a live child that is    *)
(* waited for has the pid that a save records.                             *)
HeldIn(s) ==
  \A p \in Pids :
    s.proc[p] # NoProc /\ s.proc[p].own /\ s.proc[p].ticks = s.held => p = s.pid

OfOneProcess(r) ==
  /\ r.start # 0 /\ r.boot # 0 => r.who = <<r.boot, r.start>>
  /\ r.ctime # NoTime => r.who = <<r.ctime[1], r.ctime[2]>>

RecordIsOfOne == file # NoFile /\ file.rec # NoRec => OfOneProcess(file.rec)

\* What was adopted is named by the file before the loop starts, if it was not
\* for a time that was only near.
AdoptedIsNamed ==
  dpc = "built" /\ written =>
    \A p \in Pids : Own(p) /\ proc[p].ticks = held =>
      polled /\ (Described(p) \/ BareNames(p))

RecordInv ==
  OwnInv /\ HeldIn(Now) /\ RecordIsOfOne /\ AdoptedIsNamed /\ LoopRecordsItsChild

\* A child that Start makes is the one that is waited for, at the recorded pid.
LEMMA StartHeld ==
  \A s : StateOK(s) /\ DistinctIn(s) /\ HeldIn(s) => \A t \in AfterStart(s) : HeldIn(t)
<1> SUFFICES ASSUME NEW s, StateOK(s), DistinctIn(s), HeldIn(s),
                    NEW t \in AfterStart(s), t # s
             PROVE  HeldIn(t)
  OBVIOUS
<1>1. PICK p \in Pids : t = Spawned(s, p)
  BY DEF AfterStart
<1>2. s.births \in Nat /\ \A q \in Pids : s.proc[q] # NoProc => s.proc[q].ticks \in Nat
  BY BoundsAssumption DEF StateOK, BackendState, Process
<1>3. /\ t.held = s.births + 1 /\ t.pid = p
      /\ \A q \in Pids \ {p} : t.proc[q] = s.proc[q]
  BY <1>1 DEF Spawned, StateOK, BackendState
<1> QED BY <1>2, <1>3 DEF DistinctIn, HeldIn

\* After Stop nothing is waited for, or nothing ran.
LEMMA StopHeld ==
  \A s : StateOK(s) /\ HeldIn(s) => \A t \in AfterStop(s) : HeldIn(t)
<1> SUFFICES ASSUME NEW s, StateOK(s), HeldIn(s), NEW t \in AfterStop(s), t # s
             PROVE  HeldIn(t)
  OBVIOUS
<1>1. t.held = 0
  BY DEF AfterStop, StateOK, BackendState
<1>2. \A q \in Pids : t.proc[q] # NoProc => t.proc[q].ticks # 0
  BY StopTyped, BoundsAssumption DEF StateOK, BackendState, Process
<1> QED BY <1>1, <1>2 DEF HeldIn

\* So after every op.
LEMMA EffectsHeld ==
  ASSUME TypeOK, DistinctIn(Now), HeldIn(Now), NEW op \in Ops, NEW s \in Effects(op)
  PROVE  HeldIn(s)
<1>1. StateOK(Now)
  BY NowTyped
<1>2. CASE op = "start"
  BY <1>1, <1>2, StartHeld DEF Effects
<1>3. CASE op = "stop"
  BY <1>1, <1>3, StopHeld DEF Effects
<1>4. CASE op = "restart"
  <2>1. PICK m \in AfterStop(Now) : s \in AfterStart(m)
    BY <1>4 DEF Effects
  <2>2. StateOK(m) /\ DistinctIn(m) /\ HeldIn(m)
    BY <1>1, <2>1, StopTyped, StopLater, StopHeld
  <2> QED BY <2>1, <2>2, StartHeld
<1> QED
  BY <1>2, <1>3, <1>4 DEF Ops

\* A save makes a record of one process, and that is the child that is waited
\* for, if it is alive.
LEMMA SavedDescribes ==
  ASSUME TypeOK, HeldIn(Now), NEW b \in 0..MaxBoots, NEW f \in Saved(b)
  PROVE  /\ f.rec # NoRec => OfOneProcess(f.rec)
         /\ \A p \in Pids : Own(p) /\ proc[p].ticks = held =>
              f.rec # NoRec /\ f.rec.pid = p /\ f.rec.who = <<boot, proc[p].ticks>>
<1>1. f \in Files
  BY SavedTyped
<1>2. PICK found \in BOOLEAN : f.rec = RecordOf(found)
  BY DEF Saved
<1>3. ASSUME f.rec # NoRec
      PROVE  /\ f.rec.pid = pid /\ f.rec.boot = CurBoot
             /\ f.rec.who = IF Running THEN <<boot, proc[pid].ticks>> ELSE <<0, 0>>
             /\ f.rec.start = IF Running /\ found THEN proc[pid].ticks ELSE 0
             /\ f.rec.ctime = IF Running /\ found THEN <<boot, proc[pid].ticks, Skew>>
                              ELSE NoTime
  BY <1>2, <1>3 DEF RecordOf, CreateTime
<1>4. ASSUME f.rec # NoRec PROVE OfOneProcess(f.rec)
  <2>1. CASE Running /\ found
    <3>1. f.rec.ctime[1] = boot /\ f.rec.ctime[2] = proc[pid].ticks
      BY <1>3, <1>4, <2>1
    <3> QED BY <1>3, <1>4, <2>1, <3>1 DEF OfOneProcess, CurBoot
  <2>2. CASE ~(Running /\ found)
    BY <1>3, <1>4, <2>2 DEF OfOneProcess
  <2> QED BY <2>1, <2>2
<1>5. ASSUME NEW p \in Pids, Own(p), proc[p].ticks = held
      PROVE  f.rec # NoRec /\ f.rec.pid = p /\ f.rec.who = <<boot, proc[p].ticks>>
  <2>1. p = pid
    BY <1>5 DEF HeldIn, Now, Own, Alive
  <2>2. Running /\ pid # NoPid
    BY <1>5, <2>1, PidsAssumption DEF Own, Alive, Running, RunningIn, Now
  <2>3. f.rec # NoRec
    BY <1>2, <2>2, RecordTyped, RecAssumption
  <2> QED BY <1>3, <2>1, <2>2, <2>3
<1> QED BY <1>4, <1>5

\* A verified record names the process it verifies, or has no identity.
LEMMA VerifiedNamed ==
  ASSUME TypeOK, RecordIsOfOne, NEW f \in {file, NoFile}, NEW found \in Findings(f),
         found.verdict = "verified"
  PROVE  Described(file.rec.pid) \/ BareNames(file.rec.pid)
<1> DEFINE r == file.rec
<1>1. /\ file # NoFile /\ r # NoRec /\ r \in Records /\ boot \in Nat \ {0}
  BY RecognisedNames, RecAssumption, BoundsAssumption
  DEF Findings, Recognised, TypeOK
<1>2. OfOneProcess(r)
  BY <1>1 DEF RecordIsOfOne
<1>3. PICK look \in Looks : "verified" = Verify(r, file.boot, look)
  BY RecognisedNames DEF Recognised
<1>4. \/ Bare(r)
      \/ r.start # 0 /\ SameBoot(r) /\ proc[r.pid].ticks = r.start
      \/ r.ctime # NoTime /\ CreateTime(r.pid) = r.ctime
  BY <1>3 DEF Verify, CheckCreateTime, StartDecides
<1>5. CASE Bare(r)
  BY <1>1, <1>5 DEF BareNames
<1>6. CASE r.start # 0 /\ SameBoot(r) /\ proc[r.pid].ticks = r.start
  <2>1. r.boot = boot
    BY <1>6 DEF SameBoot, CurBoot
  <2> QED BY <1>1, <1>2, <1>6, <2>1 DEF OfOneProcess, Described
<1>7. CASE r.ctime # NoTime /\ CreateTime(r.pid) = r.ctime
  <2>1. r.ctime[1] = boot /\ r.ctime[2] = proc[r.pid].ticks
    BY <1>7 DEF CreateTime
  <2> QED BY <1>1, <1>2, <1>7, <2>1 DEF OfOneProcess, Described
<1> QED BY <1>4, <1>5, <1>6, <1>7

\* An old version's record is of the first process of the first boot.
LEMMA RecordInit == Init => RecordInv
<1> SUFFICES ASSUME Init PROVE RecordInv
  OBVIOUS
<1>1. OwnInv /\ TypeOK
  BY OwnInit DEF OwnInv
<1>2. HeldIn(Now) /\ AdoptedIsNamed /\ LoopRecordsItsChild
  BY <1>1, BoundsAssumption
  DEF Init, HeldIn, Now, AdoptedIsNamed, LoopRecordsItsChild, TypeOK
<1>3. ASSUME NEW p \in Pids, NEW times \in BOOLEAN PROVE OfOneProcess(LegacyFile(p, times).rec)
  <2>1. /\ LegacyRecord(p, times).start = 0 /\ LegacyRecord(p, times).who = <<1, 1>>
        /\ LegacyRecord(p, times).ctime \in {NoTime, <<1, 1, 0>>}
    BY DEF LegacyRecord
  <2> QED BY <2>1 DEF OfOneProcess, LegacyFile
<1>4. RecordIsOfOne
  BY <1>3 DEF Init, RecordIsOfOne
<1> QED BY <1>1, <1>2, <1>4 DEF RecordInv

\* Who is named stays named while the file, the host and the child stay.
LEMMA NamesKept ==
  ASSUME UNCHANGED <<boot, host>>, file # NoFile => file' # NoFile /\ file'.rec = file.rec,
         NEW p \in Pids, proc'[p] = proc[p],
         Described(p) \/ BareNames(p)
  PROVE  /\ Described(p) => Described(p)'
         /\ BareNames(p) => BareNames(p)'
         /\ CurBoot' = CurBoot
BY DEF Described, BareNames, Bare, CurBoot

\* The parts of the invariant that look at the file survive every step that
\* leaves the file and the loop alone, if no child appears.
LEMMA RecordKept ==
  ASSUME RecordInv, OwnInv', UNCHANGED <<boot, host, file, dpc, held, polled, written, pid>>,
         \A p \in Pids : Own(p)' => proc'[p] = proc[p]
  PROVE  RecordInv'
<1>1. \A p \in Pids : Own(p)' => Own(p) /\ proc'[p] = proc[p]
  BY DEF Own, Alive
<1>2. HeldIn(Now)'
  BY <1>1 DEF RecordInv, HeldIn, Now, Own, Alive
<1>3. RecordIsOfOne'
  BY DEF RecordInv, RecordIsOfOne, OfOneProcess
<1>4. AdoptedIsNamed'
  BY <1>1, NamesKept DEF RecordInv, AdoptedIsNamed
<1>5. LoopRecordsItsChild'
  BY <1>1, NamesKept DEF RecordInv, LoopRecordsItsChild
<1> QED BY <1>2, <1>3, <1>4, <1>5 DEF RecordInv

\* A step that leaves the select of the loop, or ends the program, owes the
\* file nothing.
LEMMA RecordElsewhere ==
  ASSUME RecordInv, OwnInv', HeldIn(Now)', UNCHANGED file, dpc' \in {"off", "save"}
  PROVE  RecordInv'
BY DEF RecordInv, RecordIsOfOne, OfOneProcess, AdoptedIsNamed, LoopRecordsItsChild

\* Every step keeps it.
LEMMA RecordStep == RecordInv /\ [Next]_vars => RecordInv'
<1> SUFFICES ASSUME RecordInv, [Next]_vars PROVE RecordInv'
  OBVIOUS
<1>1. OwnInv /\ OwnInv' /\ TypeOK /\ TypeOK' /\ DistinctIn(Now) /\ DistinctIn(Now)'
  BY OwnStep DEF RecordInv, OwnInv
<1>2. StateOK(Now) /\ HeldIn(Now) /\ 0 \notin 1..MaxBirths
  BY <1>1, NowTyped DEF RecordInv
<1>3. ASSUME held' = 0 PROVE HeldIn(Now)'
  BY <1>1, <1>2, <1>3 DEF HeldIn, Now, TypeOK
<1>4. ASSUME NEW s, HeldIn(s), Becomes(s) PROVE HeldIn(Now)'
  BY <1>4 DEF HeldIn, Now, Becomes
<1>5. ASSUME NEW b \in 0..MaxBoots, file' \in Saved(b), UNCHANGED <<osVars, procVars>>,
             dpc' = "loop"
      PROVE  RecordInv'
  <2>1. PICK f \in Saved(b) : f = file'
    BY <1>5
  <2>2. /\ f.rec # NoRec => OfOneProcess(f.rec)
        /\ \A p \in Pids : Own(p) /\ proc[p].ticks = held =>
             f.rec # NoRec /\ f.rec.pid = p /\ f.rec.who = <<boot, proc[p].ticks>>
    BY <1>1, <1>2, SavedDescribes
  <2>3. f # NoFile
    BY SavedShape
  <2>4. HeldIn(Now)'
    BY <1>2, <1>5 DEF HeldIn, Now, procVars
  <2>5. RecordIsOfOne'
    BY <2>1, <2>2 DEF RecordIsOfOne, OfOneProcess
  <2>6. LoopRecordsItsChild'
    BY <1>5, <2>1, <2>2, <2>3
    DEF LoopRecordsItsChild, Described, Own, Alive, osVars, procVars
  <2> QED BY <1>1, <1>5, <2>4, <2>5, <2>6 DEF RecordInv, AdoptedIsNamed
<1>6. CASE Launch
  <2>1. PICK f, found :
          /\ f \in {file, NoFile} /\ found \in Findings(f)
          /\ LET adopts == TriesAdoption(f) /\ found.verdict \in Recognised
             IN /\ IF adopts
                     THEN pid' = f.rec.pid /\ polled' = TRUE /\ held' = proc[f.rec.pid].ticks
                     ELSE UNCHANGED <<pid, polled, held>>
                /\ written' = ~(adopts /\ found.verdict = "near")
    BY <1>6 DEF Launch
  <2>2. UNCHANGED <<boot, host, births, proc, file>> /\ dpc = "off" /\ dpc' = "built"
    BY <1>6 DEF Launch, osVars
  <2>3. RecordIsOfOne' /\ LoopRecordsItsChild'
    BY <2>2 DEF RecordInv, RecordIsOfOne, OfOneProcess, LoopRecordsItsChild
  <2>4. CASE TriesAdoption(f) /\ found.verdict \in Recognised
    <3>1. /\ f = file /\ file.rec.pid \in Pids /\ proc[file.rec.pid] # NoProc
          /\ written' => Described(file.rec.pid) \/ BareNames(file.rec.pid)
      BY <1>1, <2>1, <2>4, RecognisedNames, VerifiedNamed DEF RecordInv, Recognised
    <3>2. \A p \in Pids : proc[p] # NoProc /\ proc[p].ticks = held' => p = file.rec.pid
      BY <1>1, <2>1, <2>4, <3>1 DEF DistinctIn, Now
    <3>3. HeldIn(Now)'
      BY <2>1, <2>2, <2>4, <3>1, <3>2 DEF HeldIn, Now
    <3>4. AdoptedIsNamed'
      BY <2>1, <2>2, <2>4, <3>1, <3>2
      DEF AdoptedIsNamed, Described, BareNames, Bare, Own, Alive
    <3> QED BY <1>1, <2>3, <3>3, <3>4 DEF RecordInv
  <2>5. CASE ~(TriesAdoption(f) /\ found.verdict \in Recognised)
    <3>1. held' = 0
      BY <1>1, <2>1, <2>2, <2>5 DEF TypeOK
    <3>2. AdoptedIsNamed'
      BY <1>1, <1>2, <3>1 DEF AdoptedIsNamed, TypeOK, Own, Alive
    <3> QED BY <1>1, <1>3, <2>3, <3>1, <3>2 DEF RecordInv
  <2> QED BY <2>4, <2>5
<1>7. CASE Bookkeep
  <2>1. /\ UNCHANGED <<osVars, procVars>> /\ dpc = "built" /\ dpc' = "loop"
        /\ boot \in 0..MaxBoots
    BY <1>1, <1>7 DEF Bookkeep, TypeOK
  <2>2. PICK ok \in BOOLEAN :
          /\ written' = IF AdoptedLegacy THEN ok ELSE written
          /\ IF ok /\ AdoptedLegacy THEN file' \in Saved(boot)
             ELSE IF ok /\ Stamps /\ file # NoFile /\ ~unread
                    THEN file' = [file EXCEPT !.boot = boot]
             ELSE UNCHANGED file
    BY <1>7 DEF Bookkeep
  <2>3. CASE ok /\ AdoptedLegacy
    BY <1>5, <2>1, <2>2, <2>3
  <2>4. CASE ~(ok /\ AdoptedLegacy)
    <3>1. (file' = NoFile <=> file = NoFile) /\ (file # NoFile => file'.rec = file.rec)
      <4>1. CASE ok /\ Stamps /\ file # NoFile /\ ~unread
        <5>1. /\ file' = [file EXCEPT !.boot = boot]
              /\ file \in Files
          BY <1>1, <2>2, <2>4, <4>1 DEF TypeOK
        <5>2. file' \in Files /\ file'.rec = file.rec /\ file'.desired = file.desired
          BY <2>1, <5>1 DEF Files
        <5>3. file' # NoFile
          BY <5>2 DEF Files, NoFile
        <5> QED BY <4>1, <5>2, <5>3
      <4>2. CASE ~(ok /\ Stamps /\ file # NoFile /\ ~unread)
        BY <2>2, <2>4, <4>2
      <4> QED BY <4>1, <4>2
    <3>2. HeldIn(Now)'
      BY <1>2, <2>1 DEF HeldIn, Now, procVars
    <3>3. RecordIsOfOne'
      BY <3>1 DEF RecordInv, RecordIsOfOne, OfOneProcess
    <3>4. ASSUME written', NEW p \in Pids, Own(p), proc[p].ticks = held
          PROVE  Described(p) \/ (CurBoot = 0 /\ BareNames(p))
      <4>1. ~AdoptedLegacy /\ written
        BY <2>2, <2>4, <3>4
      <4>2. polled /\ (Described(p) \/ BareNames(p))
        BY <2>1, <3>4, <4>1 DEF RecordInv, AdoptedIsNamed
      <4> QED BY <4>1, <4>2 DEF AdoptedLegacy, BareNames, Bare
    <3>5. LoopRecordsItsChild'
      BY <2>1, <3>1, <3>4
      DEF LoopRecordsItsChild, Described, BareNames, Bare, Own, Alive, CurBoot,
          osVars, procVars
    <3> QED BY <1>1, <2>1, <3>2, <3>3, <3>5 DEF RecordInv, AdoptedIsNamed
  <2> QED BY <2>3, <2>4
<1>8. CASE Startup
  <2>1. PICK s \in AfterStart(Now) : Becomes(s)
    BY <1>8 DEF Startup
  <2>2. HeldIn(s)
    BY <1>1, <1>2, <2>1, StartHeld
  <2> QED BY <1>1, <1>4, <1>8, <2>1, <2>2, RecordElsewhere DEF Startup
<1>9. CASE Exited
  BY <1>1, <1>3, <1>9, RecordElsewhere DEF Exited
<1>10. CASE Save
  <2>1. UNCHANGED <<osVars, procVars>> /\ dpc' = "loop" /\ SavedBoot \in 0..MaxBoots
    BY <1>1, <1>10 DEF Save, SavedBoot, TypeOK
  <2>2. PICK ok \in BOOLEAN :
          written' = ok /\ IF ok THEN file' \in Saved(SavedBoot) ELSE UNCHANGED file
    BY <1>10 DEF Save
  <2>3. CASE ok
    BY <1>5, <2>1, <2>2, <2>3
  <2>4. CASE ~ok
    <3>1. HeldIn(Now)'
      BY <1>2, <2>1 DEF HeldIn, Now, procVars
    <3> QED
      BY <1>1, <2>1, <2>2, <2>4, <3>1
      DEF RecordInv, RecordIsOfOne, OfOneProcess, AdoptedIsNamed, LoopRecordsItsChild
  <2> QED BY <2>3, <2>4
<1>11. ASSUME NEW op \in Ops, Op(op) PROVE RecordInv'
  <2>1. PICK s \in Effects(op) : Becomes(s)
    BY <1>11 DEF Op
  <2>2. HeldIn(s)
    BY <1>1, <1>2, <2>1, EffectsHeld
  <2> QED BY <1>1, <1>4, <1>11, <2>1, <2>2, RecordElsewhere DEF Op
<1>12. CASE Crash
  BY <1>1, <1>3, <1>12, RecordElsewhere DEF Crash, Off
<1>13. CASE CleanOrphans
  <2>1. file' = NoFile /\ dpc' = "off" /\ UNCHANGED <<pid, held>> /\ dpc = "off"
    BY <1>13 DEF CleanOrphans
  <2>2. held' = 0
    BY <1>1, <2>1 DEF TypeOK
  <2> QED
    BY <1>1, <1>3, <2>1, <2>2 DEF RecordInv, RecordIsOfOne, AdoptedIsNamed, LoopRecordsItsChild
<1>14. CASE ClockStep
  BY <1>1, <1>14, RecordKept DEF ClockStep, procVars, ghosts
<1>15. CASE Reboot
  BY <1>1, <1>3, <1>15, RecordElsewhere DEF Reboot, Off
<1>16. ASSUME NEW p \in Pids, Die(p) \/ ForeignBorn(p) PROVE RecordInv'
  <2>1. /\ UNCHANGED <<boot, host, file, dpc, held, polled, written, pid>>
        /\ \A q \in Pids \ {p} : proc'[q] = proc[q]
        /\ proc'[p] = NoProc \/ ~proc'[p].own
    BY <1>1, <1>16 DEF Die, ForeignBorn, osVars, memVars, ghosts, TypeOK
  <2>2. \A q \in Pids : Own(q)' => proc'[q] = proc[q]
    BY <2>1 DEF Own, Alive
  <2> QED BY <1>1, <2>1, <2>2, RecordKept
<1>17. CASE UNCHANGED vars
  BY <1>1, <1>17, RecordKept DEF vars, osVars, procVars, ghosts
<1> QED
  BY <1>6, <1>7, <1>8, <1>9, <1>10, <1>11, <1>12, <1>13, <1>14, <1>15, <1>16, <1>17
  DEF Next

\* Between ops the file describes the child the program runs, unless the last
\* write failed or the child was adopted for a time that was only near: a
\* program killed then finds its child again, on any platform.
THEOREM LoopAlwaysRecords == Spec => []LoopRecordsItsChild
<1>1. RecordInv => LoopRecordsItsChild
  BY DEF RecordInv
<1> QED BY <1>1, RecordInit, RecordStep, PTL DEF Spec
=============================================================================
