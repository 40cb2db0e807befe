------------------------ MODULE ProcessBackendProofs ------------------------
(***************************************************************************)
(* Theorems about ProcessBackend for any number of children and pids, with *)
(* adoption and with the reuse of pids by other programs.                  *)
(***************************************************************************)
EXTENDS ProcessBackend, TLAPS

USE KidsAssumption, PidsAssumption DEF osVars, loopVars, vars

\* The program starts with an empty record or with that of an adopted child.
LEMMA ChildInit == Init => ChildInv
  <1> SUFFICES ASSUME Init PROVE ChildInv
    OBVIOUS
  <1> USE DEF Init, ChildInv, TypeOK, WatchersKnow, RecordMatches, NoStrayChild,
    Waiting, Polling
  <1>1. CASE InitIdle
    BY <1>1 DEF InitIdle
  <1>2. ASSUME NEW a \in Kids, NEW p \in Pids, InitAdopted(a, p) PROVE ChildInv
    BY <1>2 DEF InitAdopted
  <1> QED
    BY <1>1, <1>2

\* While the record is in order, a child that is alive is seen to run.
LEMMA AliveIsRunning ==
  ASSUME ChildInv, NEW k \in Kids, kid[k] = "alive", done = k PROVE Running
  BY DEF ChildInv, TypeOK, RecordMatches, Running, IsAlive

\* Every step of the system, of the goroutines and of the loop keeps the
\* record in order.
LEMMA ChildStep == ASSUME ChildInv, Next PROVE ChildInv'
  <1> USE DEF ChildInv, TypeOK, WatchersKnow, RecordMatches, NoStrayChild,
    Waiting, Polling
  <1>1. ASSUME NEW k \in Kids, Reap(k) PROVE ChildInv'
    BY <1>1 DEF Reap
  <1>2. ASSUME NEW k \in Kids, PollSeesDead(k) PROVE ChildInv'
    BY <1>2 DEF PollSeesDead, IsAlive
  <1>3. ASSUME NEW k \in Kids, PollClears(k) PROVE ChildInv'
    BY <1>3 DEF PollClears, ClearRecord
  <1>4. ASSUME NEW k \in Kids, Close(k) PROVE ChildInv'
    BY <1>4 DEF Close
  <1>5. ASSUME Query \/ Refresh PROVE ChildInv'
    BY <1>5 DEF Query, Refresh, Refreshed
  <1>6. ASSUME Start PROVE ChildInv'
    <2>1. ASSUME ~Running, NEW k \in Kids, NEW p \in Pids, Spawn(k, p) PROVE ChildInv'
      <3>1. ~wiped => \A j \in Kids : kid[j] # "alive"
        BY <1>6, <2>1, AliveIsRunning DEF Start
      <3> QED
        BY <1>6, <2>1, <3>1 DEF Start, Spawn
    <2>2. CASE UNCHANGED <<kid, pidOf, pid, done, watch>>
      BY <1>6, <2>2 DEF Start
    <2> QED
      BY <1>6, <2>1, <2>2 DEF Start
  <1>7. ASSUME NEW t \in {"nothing", "start"}, StopBegins(t) PROVE ChildInv'
    BY <1>7 DEF StopBegins, Running, AfterStop
  <1>8. ASSUME KillAfterTimeout PROVE ChildInv'
    BY <1>8 DEF KillAfterTimeout
  <1>9. ASSUME StopReturns PROVE ChildInv'
    BY <1>9 DEF StopReturns, ExitSeen, Closed, AfterStop
  <1>10. ASSUME ExitEvent PROVE ChildInv'
    BY <1>10 DEF ExitEvent, Closed
  <1>11. ASSUME NEW k \in Kids, Die(k) PROVE ChildInv'
    BY <1>11 DEF Die
  <1>12. ASSUME NEW p \in Pids, ForeignBorn(p) \/ ForeignDies(p) PROVE ChildInv'
    BY <1>12 DEF ForeignBorn, ForeignDies
  <1> QED
    BY <1>1, <1>2, <1>3, <1>4, <1>5, <1>6, <1>7, <1>8, <1>9, <1>10, <1>11, <1>12
    DEF Next, Watcher, Loop, OS

\* The inductive invariant holds in every reachable state.
LEMMA ChildInvariant == Spec => []ChildInv
  <1>1. ChildInv /\ UNCHANGED vars => ChildInv'
    BY DEF ChildInv, TypeOK, WatchersKnow, RecordMatches, NoStrayChild
  <1> QED
    BY ChildInit, ChildStep, <1>1, PTL DEF Spec

\* The backend never loses sight of a live child, unless a pollAlive clears
\* the record of a younger one.
THEOREM NoChildStrays == Spec => []NoStrayChild
  <1>1. ChildInv => NoStrayChild
    BY DEF ChildInv
  <1> QED
    BY ChildInvariant, <1>1, PTL

\* The record, the channels and the loop keep to their types, and a record
\* has a channel whenever it has a pid.
THEOREM ChildTypes == Spec => []TypeOK
  <1>1. ChildInv => TypeOK
    BY DEF ChildInv
  <1> QED
    BY ChildInvariant, <1>1, PTL

\* When Stop returns, the child it took is dead.
THEOREM StopAlwaysKills == Spec => StopKills
  <1>1. ASSUME ChildInv, [Next]_vars, stopping' # stopping, stopping # NoKid
        PROVE  kid[stopping] = "dead"
    <2>1. CASE StopReturns
      BY <1>1, <2>1 DEF StopReturns, ExitSeen, Closed, ChildInv, TypeOK, WatchersKnow
    <2>2. CASE \E t \in {"nothing", "start"} : StopBegins(t)
      BY <1>1, <2>2 DEF StopBegins, ChildInv, TypeOK
    <2>3. CASE UNCHANGED stopping
      BY <1>1, <2>3
    <2> QED
      BY <1>1, <2>1, <2>2, <2>3 DEF Next, Watcher, Loop, OS, Reap, PollSeesDead, PollClears,
        Close, Query, Refresh, Start, KillAfterTimeout, ExitEvent, Die, ForeignBorn, ForeignDies
  <1> QED
    BY ChildInvariant, <1>1, PTL DEF Spec, StopKills

-----------------------------------------------------------------------------
(* How many copies run, and the refinement of Backend.                     *)

LEMMA SightInit == Init => SightInv
  <1> SUFFICES ASSUME Init PROVE SightInv
    OBVIOUS
  <1> USE DEF Init, SightInv, Alive, InSight, Polled
  <1>1. CASE InitIdle
    BY <1>1 DEF InitIdle
  <1>2. ASSUME Adopting, NEW a \in Kids, NEW p \in Pids, InitAdopted(a, p) PROVE SightInv
    BY <1>2 DEF InitAdopted
  <1> QED
    BY <1>1, <1>2

\* While the loop is not in a Stop, Start finds no live child in sight.
LEMMA StartFindsNone == ASSUME ChildInv, ~Running PROVE done \notin Alive
  BY AliveIsRunning DEF Alive

\* What a Start does to the children: nothing, or one more in sight where
\* there was none.
LEMMA StartSeen ==
  ASSUME ChildInv, SightInv, Start
  PROVE  \/ Alive' = Alive /\ InSight' = InSight /\ UNCHANGED <<kid, done, watch>>
         \/ /\ InSight = {} /\ stopping = NoKid
            /\ \E k \in Kids :
                 /\ kid[k] = "unborn"
                 /\ kid' = [kid EXCEPT ![k] = "alive"]
                 /\ watch' = [watch EXCEPT ![k] = "waiting"]
                 /\ Alive' = Alive \cup {k} /\ InSight' = {k}
  <1>0. UNCHANGED stopping
    BY DEF Start
  <1>1. ASSUME ~Running, NEW k \in Kids, NEW p \in Pids, Spawn(k, p), stopping = NoKid
        PROVE  /\ InSight = {} /\ kid[k] = "unborn"
               /\ kid' = [kid EXCEPT ![k] = "alive"]
               /\ watch' = [watch EXCEPT ![k] = "waiting"]
               /\ Alive' = Alive \cup {k} /\ InSight' = {k}
    <2>1. done \notin Alive
      BY <1>1, StartFindsNone
    <2>2. kid \in [Kids -> {"unborn", "alive", "zombie", "dead"}]
      BY DEF ChildInv, TypeOK
    <2>3. Alive' = Alive \cup {k}
      BY <1>1, <2>2 DEF Spawn, Alive
    <2> QED
      BY <1>0, <1>1, <2>1, <2>3 DEF Spawn, Alive, InSight
  <1>2. ASSUME UNCHANGED <<kid, pidOf, pid, done, watch>>
        PROVE  Alive' = Alive /\ InSight' = InSight
    BY <1>0, <1>2 DEF Alive, InSight
  <1>3. stopping = NoKid
    BY DEF Start, ChildInv, TypeOK
  <1> QED
    BY <1>1, <1>2, <1>3 DEF Start

\* A Stop moves the child it found from the record to stopping; when it
\* returns that child is dead.
LEMMA StopSeen ==
  ASSUME ChildInv, SightInv,
         \/ StopReturns
         \/ \E t \in {"nothing", "start"} : StopBegins(t)
  PROVE  Alive' = Alive /\ InSight' = InSight /\ UNCHANGED <<kid, watch>>
  <1>1. UNCHANGED <<kid, watch>> /\ Alive' = Alive
    BY DEF StopBegins, StopReturns, Alive
  <1>2. ASSUME NEW t \in {"nothing", "start"}, StopBegins(t) PROVE InSight' = InSight
    BY <1>1, <1>2 DEF StopBegins, InSight, ChildInv, TypeOK, Alive
  <1>3. ASSUME StopReturns PROVE InSight' = InSight
    BY <1>1, <1>3 DEF StopReturns, ExitSeen, Closed, ChildInv, TypeOK, WatchersKnow,
      InSight, Alive
  <1> QED
    BY <1>1, <1>2, <1>3

\* The end of a child.
LEMMA DieSeen ==
  ASSUME ChildInv, NEW k \in Kids, Die(k)
  PROVE  /\ k \in Alive /\ Alive' = Alive \ {k} /\ InSight' = InSight \ {k}
         /\ UNCHANGED <<done, watch, stopping>>
         /\ \E end \in {"zombie", "dead"} : kid' = [kid EXCEPT ![k] = end]
  BY DEF Die, Alive, InSight, ChildInv, TypeOK, loopVars

\* pollAlive clears a record: that of no child, of its own, which is dead, or
\* of the one that was in sight.
LEMMA PollerSeen ==
  ASSUME ChildInv, SightInv, NEW k \in Kids, PollClears(k)
  PROVE  /\ Alive' = Alive /\ Polled = {k} /\ Polled' = {}
         /\ kid[k] = "dead" /\ done' = NoKid /\ UNCHANGED <<kid, stopping>>
         /\ \/ InSight' = InSight
            \/ InSight' = {} /\ stopping = NoKid
  <1> USE DEF PollClears, ClearRecord, ChildInv, TypeOK
  <1>1. Alive' = Alive /\ done' = NoKid /\ UNCHANGED <<kid, stopping>>
    BY DEF Alive, osVars, loopVars
  <1>2. kid[k] = "dead"
    BY DEF WatchersKnow
  <1>3. Polled = {k} /\ Polled' = {}
    <2>1. k \in Polled
      BY DEF Polled
    <2>2. Polled = {k}
      BY <2>1 DEF SightInv, Polled
    <2>3. \A j \in Kids : watch'[j] = IF j = k THEN "cleared" ELSE watch[j]
      OBVIOUS
    <2> QED
      BY <2>2, <2>3 DEF Polled
  <1>4. InSight' = InSight \/ (InSight' = {} /\ stopping = NoKid)
    BY <1>1 DEF SightInv, InSight, Alive
  <1> QED
    BY <1>1, <1>2, <1>3, <1>4

\* What every other step leaves alone.
OutOfSight ==
  \/ \E k \in Kids : Reap(k) \/ PollSeesDead(k) \/ Close(k)
  \/ Query \/ Refresh \/ KillAfterTimeout \/ ExitEvent
  \/ \E p \in Pids : ForeignBorn(p) \/ ForeignDies(p)

LEMMA QuietStep ==
  ASSUME ChildInv, OutOfSight
  PROVE  /\ Alive' = Alive /\ InSight' = InSight /\ Polled' = Polled
         /\ UNCHANGED <<done, stopping>>
         /\ {k \in Kids : kid[k] \in {"zombie", "dead"}}'
              = {k \in Kids : kid[k] \in {"zombie", "dead"}}
  <1> USE DEF Alive, InSight, Polled, ChildInv, TypeOK, Waiting, Polling
  <1>1. ASSUME NEW k \in Kids, Reap(k) \/ PollSeesDead(k) \/ Close(k)
        PROVE  /\ Alive' = Alive /\ Polled' = Polled /\ UNCHANGED <<done, stopping>>
               /\ {j \in Kids : kid[j] \in {"zombie", "dead"}}'
                    = {j \in Kids : kid[j] \in {"zombie", "dead"}}
    BY <1>1 DEF Reap, PollSeesDead, Close
  <1>2. ASSUME \/ Query \/ Refresh \/ KillAfterTimeout \/ ExitEvent
               \/ \E p \in Pids : ForeignBorn(p) \/ ForeignDies(p)
        PROVE  UNCHANGED <<kid, watch, done, stopping>>
    BY <1>2 DEF Query, Refresh, KillAfterTimeout, ExitEvent, ForeignBorn, ForeignDies
  <1>3. Alive' = Alive /\ UNCHANGED <<done, stopping>> => InSight' = InSight
    OBVIOUS
  <1> QED
    BY <1>1, <1>2, <1>3 DEF OutOfSight

LEMMA NextSplits ==
  Next => \/ OutOfSight
          \/ Start
          \/ StopReturns \/ \E t \in {"nothing", "start"} : StopBegins(t)
          \/ \E k \in Kids : PollClears(k) \/ Die(k)
  BY DEF Next, Watcher, Loop, OS, OutOfSight

LEMMA SightStep == ASSUME ChildInv, SightInv, Next PROVE SightInv'
  <1>1. CASE OutOfSight
    BY <1>1, QuietStep DEF SightInv
  <1>2. CASE Start
    <2>1. CASE Alive' = Alive /\ InSight' = InSight /\ UNCHANGED <<kid, done, watch>>
      BY <1>2, <2>1 DEF Start, SightInv, Polled
    <2>2. ASSUME InSight = {}, stopping = NoKid, NEW k \in Kids, kid[k] = "unborn",
                 watch' = [watch EXCEPT ![k] = "waiting"],
                 Alive' = Alive \cup {k}, InSight' = {k}
          PROVE  SightInv'
      <3>1. stopping' = NoKid
        BY <1>2, <2>2 DEF Start
      <3>2. Polled' = Polled
        BY <2>2 DEF Polled, ChildInv, TypeOK, WatchersKnow
      <3>3. (Alive \ InSight)' = Alive \ InSight
        BY <2>2 DEF Alive
      <3> QED
        BY <3>1, <3>2, <3>3 DEF SightInv
    <2> QED
      BY <1>2, <2>1, <2>2, StartSeen
  <1>3. CASE StopReturns \/ \E t \in {"nothing", "start"} : StopBegins(t)
    <2>1. Alive' = Alive /\ InSight' = InSight /\ Polled' = Polled
      BY <1>3, StopSeen DEF Polled
    <2>2. (stopping # NoKid => done = NoKid)'
      BY <1>3 DEF StopReturns, StopBegins, ChildInv, TypeOK
    <2> QED
      BY <2>1, <2>2 DEF SightInv
  <1>4. ASSUME NEW k \in Kids, PollClears(k) PROVE SightInv'
    <2>1. /\ Alive' = Alive /\ Polled = {k} /\ Polled' = {}
          /\ done' = NoKid /\ UNCHANGED stopping
          /\ \/ InSight' = InSight
             \/ InSight' = {} /\ stopping = NoKid
      BY <1>4, PollerSeen
    <2>2. Adopting /\ Alive \ InSight = {}
      BY <2>1 DEF SightInv
    <2>3. \A i, j \in InSight : i = j
      BY DEF SightInv, InSight, Alive
    <2>4. \A i, j \in (Alive \ InSight)' : i = j
      BY <2>1, <2>2, <2>3
    <2> QED
      BY <2>1, <2>2, <2>4 DEF SightInv
  <1>5. ASSUME NEW k \in Kids, Die(k) PROVE SightInv'
    <2>1. Polled' = Polled
      BY <1>5, DieSeen DEF Polled
    <2>2. (Alive \ InSight)' \subseteq Alive \ InSight
      BY <1>5, DieSeen
    <2> QED
      BY <1>5, <2>1, <2>2, DieSeen DEF SightInv
  <1> QED
    BY <1>1, <1>2, <1>3, <1>4, <1>5, NextSplits

LEMMA SightInvariant == Spec => []SightInv
  <1>1. SightInv /\ UNCHANGED vars => SightInv'
    BY DEF SightInv, Alive, InSight, Polled
  <1> QED
    BY ChildInvariant, SightInit, SightStep, <1>1, PTL DEF Spec

\* A service runs at most two copies of its process, in whatever order
\* children die, are started and stopped and pids are used again: the
\* poller that may leave one behind is the only one and does it once.
THEOREM NeverThreeCopies == Spec => []TwoCopiesAtMost
  <1>1. SightInv => TwoCopiesAtMost
    <2> SUFFICES ASSUME SightInv, NEW i \in Alive, NEW j \in Alive, NEW k \in Alive
                 PROVE  i = j \/ j = k \/ i = k
      BY DEF TwoCopiesAtMost, Alive
    <2>1. \A a, b \in InSight : a = b
      BY DEF SightInv, InSight, Alive
    <2> QED
      BY <2>1 DEF SightInv
  <1> QED
    BY SightInvariant, <1>1, PTL

\* A program that found no child of an earlier run alive runs one process per
\* service.
THEOREM OneCopyWithoutAdoption == Spec => []OneCopyUnlessAdopting
  <1>1. SightInv => OneCopyUnlessAdopting
    BY DEF SightInv, OneCopyUnlessAdopting, OneCopy, InSight, Alive
  <1> QED
    BY SightInvariant, <1>1, PTL

\* The backend implements what the manager takes it to be.
THEOREM BackendImplemented == Spec => ImplementsBackend
  <1>1. Init => Seen!BackendInit
    <2> SUFFICES ASSUME Init PROVE Seen!BackendInit
      OBVIOUS
    <2> USE DEF Init, Seen!BackendInit, Alive, InSight, Polled
    <2>1. CASE InitIdle
      BY <2>1 DEF InitIdle
    <2>2. ASSUME Adopting, NEW a \in Kids, NEW p \in Pids, InitAdopted(a, p)
          PROVE  Seen!BackendInit
      BY <2>2 DEF InitAdopted
    <2> QED
      BY <2>1, <2>2
  <1>2. ASSUME ChildInv, SightInv, [Next]_vars
        PROVE  [Seen!BackendNext]_Seen!backendVars
    <2> DEFINE Ended == {k \in Kids : kid[k] \in {"zombie", "dead"}}
    <2>0. kid \in [Kids -> {"unborn", "alive", "zombie", "dead"}]
      BY <1>2 DEF ChildInv, TypeOK
    <2>1. CASE UNCHANGED vars
      BY <2>1 DEF Seen!backendVars, Alive, InSight, Polled
    <2>2. CASE OutOfSight
      BY <1>2, <2>2, QuietStep DEF Seen!backendVars
    <2>3. CASE Start
      <3>1. CASE Alive' = Alive /\ InSight' = InSight /\ UNCHANGED <<kid, done, watch>>
        BY <2>3, <3>1 DEF Start, Seen!backendVars, Polled
      <3>2. ASSUME InSight = {}, stopping = NoKid, NEW k \in Kids, kid[k] = "unborn",
                   kid' = [kid EXCEPT ![k] = "alive"],
                   watch' = [watch EXCEPT ![k] = "waiting"],
                   Alive' = Alive \cup {k}, InSight' = {k}
            PROVE  Seen!StartChild
        <4>1. stopping' = NoKid
          BY <2>3, <3>2 DEF Start
        <4>2. Polled' = Polled
          BY <1>2, <3>2 DEF Polled, ChildInv, TypeOK, WatchersKnow
        <4>3. k \notin Ended /\ k \notin Alive /\ Ended' = Ended
          BY <2>0, <3>2 DEF Alive
        <4>4. (Alive \ InSight)' = Alive \ InSight
          BY <3>2, <4>3
        <4> QED
          BY <3>2, <4>1, <4>2, <4>3, <4>4 DEF Seen!StartChild
      <3> QED
        BY <1>2, <2>3, <3>1, <3>2, StartSeen DEF Seen!BackendNext
    <2>4. CASE StopReturns \/ \E t \in {"nothing", "start"} : StopBegins(t)
      <3>1. /\ InSight' = InSight /\ (Alive \ InSight)' = Alive \ InSight
            /\ Ended' = Ended /\ Polled' = Polled
        BY <1>2, <2>4, StopSeen DEF Polled
      <3>2. CASE StopReturns
        <4>1. stopping # NoKid /\ stopping' = NoKid /\ InSight = {}
          BY <1>2, <3>2 DEF StopReturns, ExitSeen, Closed, ChildInv, TypeOK, WatchersKnow,
            SightInv, InSight, Alive
        <4> QED
          BY <3>1, <4>1 DEF Seen!BackendNext, Seen!ChildStopped
      <3>3. ASSUME NEW t \in {"nothing", "start"}, StopBegins(t)
            PROVE  [Seen!BackendNext]_Seen!backendVars
        <4>1. stopping = NoKid
          BY <1>2, <3>3 DEF StopBegins, ChildInv, TypeOK
        <4> QED
          BY <3>1, <4>1 DEF Seen!BackendNext, Seen!StopChild, Seen!backendVars
      <3> QED
        BY <2>4, <3>2, <3>3
    <2>5. ASSUME NEW k \in Kids, PollClears(k) PROVE Seen!BackendNext
      <3>1. /\ Alive' = Alive /\ Polled = {k} /\ Polled' = {}
            /\ Ended' = Ended /\ k \in Ended /\ stopping' = stopping
        BY <1>2, <2>5, PollerSeen
      <3>2. CASE InSight' = InSight
        BY <3>1, <3>2 DEF Seen!BackendNext, Seen!EndNoted
      <3>3. CASE InSight' = {} /\ stopping = NoKid
        <4>1. (Alive \ InSight)' = (Alive \ InSight) \cup InSight
          BY <3>1, <3>3 DEF InSight
        <4> QED
          BY <3>1, <3>3, <4>1 DEF Seen!BackendNext, Seen!ChildLost
      <3> QED
        BY <1>2, <2>5, <3>2, <3>3, PollerSeen
    <2>6. ASSUME NEW k \in Kids, Die(k) PROVE Seen!BackendNext
      <3>1. /\ k \in Alive /\ InSight' = InSight \ {k} /\ stopping' = stopping
            /\ (Alive \ InSight)' = (Alive \ InSight) \ {k}
        BY <1>2, <2>6, DieSeen
      <3>2. Polled' = Polled
        BY <1>2, <2>6, DieSeen DEF Polled
      <3>3. Ended' = Ended \cup {k}
        BY <1>2, <2>0, <2>6, DieSeen
      <3> QED
        BY <3>1, <3>2, <3>3 DEF Seen!BackendNext, Seen!ChildEnds, InSight
    <2> QED
      BY <1>2, <2>1, <2>2, <2>3, <2>4, <2>5, <2>6, NextSplits
  <1> QED
    BY ChildInvariant, SightInvariant, <1>1, <1>2, PTL
    DEF Spec, ImplementsBackend, Seen!BackendSpec

=============================================================================
