--------------------------- MODULE FrontendsProofs ---------------------------
(***************************************************************************)
(* For any number of clients, messages, handlers, changes and reloads: the *)
(* Matrix bot never sends plain text, the readiness gate waits for every   *)
(* frontend, and a lone reload registers the services that there are.      *)
(* Each has its inductive invariant, which is about one component; what    *)
(* the components share is in LoopsGoOn.                                   *)
(***************************************************************************)
EXTENDS Frontends, TLAPS

(* The shape of a step: each component's actions leave the others' state   *)
(* alone, except that all share the loops and the ready channels.          *)
LEMMA LoopsGoOn ==
  ASSUME [Next]_vars, DOMAIN loop = Frontends, DOMAIN ready = Frontends
  PROVE  /\ DOMAIN loop' = Frontends /\ DOMAIN ready' = Frontends
         /\ \A f \in Frontends : (loop'[f] = "off") <=> (loop[f] = "off")
         /\ \A f \in Frontends : ready[f] => ready'[f]
         /\ cancelled => cancelled'
<1> USE DEF vars, loopVars
<1>1. ASSUME NEW f \in Frontends, AttemptFails(f) \/ AttemptReturns(f) \/ WaitOver(f)
                                  \/ MarkReady(f)
      PROVE  /\ DOMAIN loop' = Frontends /\ DOMAIN ready' = Frontends
             /\ \A g \in Frontends : (loop'[g] = "off") <=> (loop[g] = "off")
             /\ \A g \in Frontends : ready[g] => ready'[g]
             /\ cancelled' = cancelled
  BY <1>1 DEF AttemptFails, AttemptReturns, WaitOver, MarkReady
<1>2. {"discord", "mattermost", "matrix", "telegram"} \subseteq Frontends
  BY FrontendsAssumption
<1>3. CASE MatrixStep
  BY <1>1, <1>2, <1>3
  DEF MatrixStep, MatrixAttempt, Build, BuildFails, ResolveRoom, StepFails, MakeHelper,
      InitHelper, InitHelperFails, Publish, MatrixReady, SyncEnds, CloseHelper, TakeClient,
      SendVia
<1>4. CASE MattermostAttempt
  BY <1>1, <1>2, <1>4
  DEF MattermostAttempt, Identify, ResolveChannel, MattermostReady, ConnectWS,
      MattermostFails, ClosedNormally, ListenEnds
<1>5. CASE DiscordAttempt
  BY <1>1, <1>2, <1>5
  DEF DiscordAttempt, OpenSession, OpenFails, BuildCommands, RegisterCommands,
      RegisterFails, UnsetSession, DiscordReady, InstallHandlers, Leave, Left
<1>6. CASE DiscordStep /\ ~DiscordAttempt
  BY <1>6
  DEF DiscordStep, StatusLoop, DrainEvents, Tick, CountRunning, UpdateStatus,
      UpdateStatusFails, StatusLoopEnds, Change, Tell, Connected, Unblock, ReloadElsewhere,
      ReloadHandler, ReloadHere, ReadNames, StoreCommands, TakeCommands, TakeSession,
      NoSession, HandlerEnds, RegisterAgain
<1>7. CASE TelegramReady
  BY <1>1, <1>2, <1>7 DEF TelegramReady
<1>8. CASE Cancel
  BY <1>8 DEF Cancel
<1> QED BY <1>3, <1>4, <1>5, <1>6, <1>7, <1>8 DEF Next

-----------------------------------------------------------------------------
(* Matrix                                                                  *)

Attempting == {"start", "room", "helper", "init", "publish", "mark", "sync", "close"}

\* What the attempt holds at each step.
AttemptHolds ==
  /\ mStep \in Attempting
  /\ mStep = "start" => mine = NoClient
  /\ mStep # "start" => mine \in Clients
  /\ mStep \notin {"start", "room"} => room
  /\ stores = IF mStep \in {"init", "publish", "mark", "sync", "close"} THEN {mine} ELSE {}
  /\ mStep \in {"publish", "mark", "sync", "close"} => mine \in crypto

\* The published client is the one of the attempt that runs.
PublishedMine == client # NoClient => mStep \in {"mark", "sync"} /\ client = mine

\* A client that a message has taken keeps its crypto helper.
TakenKeeps ==
  /\ DOMAIN post = Messages /\ DOMAIN via = Messages
  /\ \A m \in Messages : /\ post[m] = "taken" => via[m] \in crypto
                         /\ post[m] # "plain"

MatrixInv == AttemptHolds /\ PublishedMine /\ TakenKeeps

\* At first the bot holds nothing.
LEMMA MatrixInvInit == Init => MatrixInv
BY DEF Init, MatrixInit, MatrixInv, AttemptHolds, PublishedMine, TakenKeeps, Attempting

\* Every step of the attempt and of the messages keeps it, and nobody else disturbs it.
LEMMA MatrixInvStep == MatrixInv /\ [Next]_vars => MatrixInv'
<1> SUFFICES ASSUME MatrixInv, [Next]_vars PROVE MatrixInv'
  OBVIOUS
<1> USE ClientAssumption
        DEF MatrixInv, AttemptHolds, PublishedMine, TakenKeeps, Attempting, matrixVars,
            attemptVars, postVars, At, GivenUp
<1>1. CASE Build
  BY <1>1 DEF Build, Held
<1>2. CASE BuildFails
  BY <1>2 DEF BuildFails
<1>3. CASE ResolveRoom
  BY <1>3 DEF ResolveRoom
<1>4. CASE StepFails
  BY <1>4 DEF StepFails
<1>5. CASE MakeHelper
  BY <1>5 DEF MakeHelper
<1>6. CASE InitHelper
  BY <1>6 DEF InitHelper
<1>7. CASE InitHelperFails
  BY <1>7 DEF InitHelperFails
<1>8. CASE Publish
  BY <1>8 DEF Publish
<1>9. CASE MatrixReady
  BY <1>9 DEF MatrixReady
<1>10. CASE SyncEnds
  BY <1>10 DEF SyncEnds
<1>11. CASE CloseHelper
  BY <1>11 DEF CloseHelper
<1>12. ASSUME NEW m \in Messages, TakeClient(m) PROVE MatrixInv'
  BY <1>12 DEF TakeClient
<1>13. ASSUME NEW m \in Messages, SendVia(m) PROVE MatrixInv'
  BY <1>13 DEF SendVia
<1>14. CASE UNCHANGED matrixVars
  BY <1>14
<1> QED
  BY <1>1, <1>2, <1>3, <1>4, <1>5, <1>6, <1>7, <1>8, <1>9, <1>10, <1>11, <1>12, <1>13, <1>14
  DEF Next, vars, MatrixStep, MatrixAttempt

\* However attempts fail and messages are under way, none is sent as plain text.
THEOREM MatrixAlwaysEncrypts == Spec => []PublishedEncrypts
<1>1. MatrixInv => PublishedEncrypts
  BY DEF MatrixInv, AttemptHolds, PublishedMine, TakenKeeps, PublishedEncrypts
<1> QED BY <1>1, MatrixInvInit, MatrixInvStep, PTL DEF Spec

-----------------------------------------------------------------------------
(* Reloads in Discord                                                      *)

HandlerSteps == {"idle", "names", "store", "take", "session", "send"}

\* Nobody's list is empty, and the commands are not while somebody needs them.
ListsFilled ==
  /\ names \in Nat \ {0}
  /\ handler \in [Handlers -> HandlerSteps] /\ list \in [Handlers -> Nat]
  /\ commands \in Nat
  /\ \A h \in Handlers : /\ handler[h] \in {"store", "session", "send"} => list[h] # 0
                         /\ handler[h] \in {"take", "session", "send"} => commands # 0

\* A handler whose reload is alone has what the manager has.
LoneUpToDate ==
  /\ DOMAIN alone = Handlers
  /\ \A h \in Handlers : alone[h] =>
       /\ handler[h] # "idle" /\ \A k \in Handlers \ {h} : handler[k] = "idle"
       /\ handler[h] \in {"store", "session", "send"} => list[h] = names
       /\ handler[h] = "take" => commands = names

ReloadInv == ListsFilled /\ LoneUpToDate

\* At first no handler runs.
LEMMA ReloadInvInit == Init => ReloadInv
BY DEF Init, DiscordInit, ReloadInv, ListsFilled, LoneUpToDate, HandlerSteps

\* Every step keeps it, those of a reconnect included.
LEMMA ReloadInvStep == ReloadInv /\ [Next]_vars => ReloadInv'
<1> SUFFICES ASSUME ReloadInv, [Next]_vars PROVE ReloadInv'
  OBVIOUS
<1> USE DEF ReloadInv, ListsFilled, LoneUpToDate, HandlerSteps, discordVars, commandVars
<1>1. CASE BuildCommands
  BY <1>1 DEF BuildCommands
<1>2. CASE DiscordAttempt /\ ~BuildCommands
  BY <1>2
  DEF DiscordAttempt, OpenSession, OpenFails, RegisterCommands, RegisterFails, UnsetSession,
      DiscordReady, InstallHandlers, Leave, Left
<1>3. CASE StatusLoop \/ Change \/ Tell \/ Connected \/ Unblock
  BY <1>3
  DEF StatusLoop, DrainEvents, Tick, CountRunning, UpdateStatus, UpdateStatusFails,
      StatusLoopEnds, Change, Tell, Connected, Unblock
<1>4. CASE ReloadElsewhere
  BY <1>4 DEF ReloadElsewhere
<1>5. ASSUME NEW h \in Handlers, ReloadHere(h) PROVE ReloadInv'
  <2>1. /\ names' = names + 1 /\ handler' = [handler EXCEPT ![h] = "names"]
        /\ UNCHANGED <<commands, list>> /\ DOMAIN alone' = Handlers
        /\ \A k \in Handlers : alone'[k] => k = h /\ Reloading = {}
    BY <1>5 DEF ReloadHere
  <2>2. Reloading = {} => \A k \in Handlers : handler[k] = "idle"
    BY DEF Reloading
  <2> QED BY <2>1, <2>2
<1>6. ASSUME NEW h \in Handlers, ReadNames(h) PROVE ReloadInv'
  BY <1>6 DEF ReadNames
<1>7. ASSUME NEW h \in Handlers, StoreCommands(h) PROVE ReloadInv'
  BY <1>7 DEF StoreCommands
<1>8. ASSUME NEW h \in Handlers, TakeCommands(h) PROVE ReloadInv'
  BY <1>8 DEF TakeCommands
<1>9. ASSUME NEW h \in Handlers, RegisterAgain(h) PROVE ReloadInv'
  BY <1>9 DEF RegisterAgain, HandlerEnds
<1>10. ASSUME NEW h \in Handlers, TakeSession(h) PROVE ReloadInv'
  BY <1>10 DEF TakeSession
<1>11. ASSUME NEW h \in Handlers, NoSession(h) PROVE ReloadInv'
  BY <1>11 DEF NoSession, HandlerEnds
<1>12. CASE UNCHANGED discordVars
  BY <1>12
<1> QED
  BY <1>1, <1>2, <1>3, <1>4, <1>5, <1>6, <1>7, <1>8, <1>9, <1>10, <1>11, <1>12
  DEF Next, vars, DiscordStep, ReloadHandler

\* A reload that no other overlaps registers the services that there are, whatever
\* connections drop and whatever reconnects build commands meanwhile.
THEOREM LoneReloadsRegister == Spec => []LoneReloadRegisters
<1>1. ReloadInv => LoneReloadRegisters
  BY DEF ReloadInv, LoneUpToDate, LoneReloadRegisters
<1> QED BY <1>1, ReloadInvInit, ReloadInvStep, PTL DEF Spec

-----------------------------------------------------------------------------
(* The gate                                                                *)

\* What a frontend has resolved or registered when it has been ready.
CanPost ==
  /\ ready["matrix"] => room
  /\ mmStep \in {"mark", "connect", "listen", "deaf"} \/ ready["mattermost"] => channel
  /\ dStep = "register" => commands # 0
  /\ dStep \in {"mark", "hook", "serve"} \/ ready["discord"] => registered # 0 \/ cancelled

LoopDomains == DOMAIN loop = Frontends /\ DOMAIN ready = Frontends

PostInv == MatrixInv /\ ReloadInv /\ LoopDomains /\ CanPost

\* At first nobody is ready.
LEMMA PostInvInit == Init => PostInv
BY MatrixInvInit, ReloadInvInit, FrontendsAssumption
DEF Init, PostInv, CanPost, LoopDomains, DiscordInit, MattermostInit, MatrixInit

\* What makes a frontend able to post comes before markReady and stays.
LEMMA PostInvStep == PostInv /\ [Next]_vars => PostInv'
<1> SUFFICES ASSUME PostInv, [Next]_vars PROVE PostInv'
  OBVIOUS
<1>1. MatrixInv' /\ ReloadInv' /\ LoopDomains' /\ (cancelled => cancelled')
  BY MatrixInvStep, ReloadInvStep, LoopsGoOn DEF PostInv, LoopDomains
<1> SUFFICES CanPost'
  BY <1>1 DEF PostInv
<1>2. /\ {"discord", "mattermost", "matrix", "telegram"} \subseteq Frontends
      /\ DOMAIN ready = Frontends
  BY FrontendsAssumption DEF PostInv, LoopDomains
<1> USE <1>1, <1>2 DEF PostInv, CanPost, loopVars, vars
<1>3. CASE MatrixStep /\ UNCHANGED <<mattermostVars, discordVars>>
  <2>1. room => room'
    BY <1>3
    DEF MatrixStep, MatrixAttempt, Build, BuildFails, ResolveRoom, StepFails, MakeHelper,
        InitHelper, InitHelperFails, Publish, MatrixReady, SyncEnds, CloseHelper, TakeClient,
        SendVia, matrixVars, attemptVars
  <2>2. CASE MatrixReady
    <3>1. room' /\ ready' = [ready EXCEPT !["matrix"] = TRUE]
      BY <2>2 DEF MatrixReady, MarkReady, At, MatrixInv, AttemptHolds
    <3> QED
      BY <1>3, <2>2, <3>1
      DEF MatrixReady, MarkReady, mattermostVars, discordVars, sessionVars, commandVars
  <2>3. CASE ~MatrixReady
    <3>1. UNCHANGED ready
      BY <1>3, <2>3
      DEF MatrixStep, MatrixAttempt, Build, BuildFails, ResolveRoom, StepFails, MakeHelper,
          InitHelper, InitHelperFails, Publish, SyncEnds, CloseHelper, TakeClient, SendVia,
          AttemptFails, AttemptReturns, WaitOver
    <3> QED BY <1>3, <2>1, <3>1 DEF mattermostVars, discordVars, sessionVars, commandVars
  <2> QED BY <2>2, <2>3
<1>4. CASE MattermostAttempt /\ UNCHANGED <<matrixVars, discordVars>>
  BY <1>4
  DEF MattermostAttempt, Identify, ResolveChannel, MattermostReady, ConnectWS, MattermostFails,
      ClosedNormally, ListenEnds, MmAt, AttemptFails, AttemptReturns, WaitOver, MarkReady, matrixVars,
      attemptVars, discordVars, sessionVars, commandVars, mattermostVars
<1>5. CASE DiscordAttempt /\ UNCHANGED <<matrixVars, mattermostVars>>
  BY <1>5
  DEF DiscordAttempt, OpenSession, OpenFails, BuildCommands, RegisterCommands, RegisterFails,
      UnsetSession, DiscordReady, InstallHandlers, Leave, Left, DAt, AttemptFails,
      AttemptReturns, WaitOver, MarkReady, matrixVars, attemptVars, discordVars, sessionVars,
      commandVars, mattermostVars, ReloadInv, ListsFilled
<1>6. CASE (StatusLoop \/ Change \/ Tell \/ Connected \/ Unblock \/ ReloadElsewhere)
             /\ UNCHANGED <<matrixVars, mattermostVars>>
  BY <1>6
  DEF StatusLoop, DrainEvents, Tick, CountRunning, UpdateStatus, UpdateStatusFails,
      StatusLoopEnds, Change, Tell, Connected, Unblock, ReloadElsewhere, matrixVars,
      attemptVars, mattermostVars, sessionVars, commandVars
<1>7. ASSUME NEW h \in Handlers, ReloadHandler(h), UNCHANGED <<matrixVars, mattermostVars>>
      PROVE  CanPost'
  BY <1>7
  DEF ReloadHandler, ReloadHere, ReadNames, StoreCommands, TakeCommands, TakeSession,
      NoSession, HandlerEnds, RegisterAgain,
      matrixVars, attemptVars, mattermostVars, sessionVars, ReloadInv, ListsFilled
<1>8. CASE (TelegramReady \/ Cancel) /\ UNCHANGED <<matrixVars, mattermostVars, discordVars>>
  BY <1>8
  DEF TelegramReady, Cancel, MarkReady, matrixVars, attemptVars, mattermostVars, discordVars,
      sessionVars, commandVars
<1>9. CASE UNCHANGED <<loopVars, matrixVars, mattermostVars, discordVars>>
  BY <1>9 DEF matrixVars, attemptVars, mattermostVars, discordVars, sessionVars, commandVars
<1> QED
  BY <1>3, <1>4, <1>5, <1>6, <1>7, <1>8, <1>9 DEF Next, DiscordStep

OnList(s, f) == \E i \in 1..Len(s) : s[i] = f

\* A channel that is collected goes to the end of the list.
LEMMA ChannelAdded ==
  ASSUME NEW s \in Seq(Frontends), NEW g \in Frontends
  PROVE  /\ s \o Channel(g) \in Seq(Frontends)
         /\ \A f : OnList(s, f) => OnList(s \o Channel(g), f)
         /\ g \in Configured => OnList(s \o Channel(g), g)
<1>1. CASE g \in Configured
  <2>1. Channel(g) = <<g>>
    BY <1>1 DEF Channel
  <2>2. /\ s \o <<g>> \in Seq(Frontends) /\ Len(s \o <<g>>) = Len(s) + 1 /\ Len(s) \in Nat
        /\ (s \o <<g>>)[Len(s) + 1] = g
        /\ \A i \in 1..Len(s) : (s \o <<g>>)[i] = s[i]
    OBVIOUS
  <2>3. OnList(s \o <<g>>, g)
    BY <2>2 DEF OnList
  <2>4. \A f : OnList(s, f) => OnList(s \o <<g>>, f)
    BY <2>2 DEF OnList
  <2> QED BY <2>1, <2>2, <2>3, <2>4
<1>2. CASE g \notin Configured
  <2>1. Channel(g) = <<>>
    BY <1>2 DEF Channel
  <2>2. s \o <<>> = s
    OBVIOUS
  <2> QED BY <1>2, <2>1, <2>2
<1> QED BY <1>1, <1>2

\* The list has every configured frontend.
LEMMA EveryChannel ==
  /\ WaitOrder \in Seq(Frontends)
  /\ \A f \in Configured : OnList(WaitOrder, f)
<1> DEFINE one   == <<>> \o Channel("discord")
           two   == one \o Channel("mattermost")
           three == two \o Channel("matrix")
           all   == three \o Channel("telegram")
<1>1. <<>> \in Seq(Frontends)
  OBVIOUS
<1>2. one \in Seq(Frontends) /\ ("discord" \in Configured => OnList(one, "discord"))
  BY <1>1, ChannelAdded, FrontendsAssumption
<1>3. WaitOrder = all
  BY <1>2 DEF WaitOrder, Channel
<1> HIDE DEF one
<1>4. /\ two \in Seq(Frontends) /\ \A f : OnList(one, f) => OnList(two, f)
      /\ "mattermost" \in Configured => OnList(two, "mattermost")
  BY <1>2, ChannelAdded, FrontendsAssumption
<1> HIDE DEF two
<1>5. /\ three \in Seq(Frontends) /\ \A f : OnList(two, f) => OnList(three, f)
      /\ "matrix" \in Configured => OnList(three, "matrix")
  BY <1>4, ChannelAdded, FrontendsAssumption
<1> HIDE DEF three
<1>6. /\ all \in Seq(Frontends) /\ \A f : OnList(three, f) => OnList(all, f)
      /\ "telegram" \in Configured => OnList(all, "telegram")
  BY <1>5, ChannelAdded, FrontendsAssumption
<1> HIDE DEF all
<1> QED
  BY <1>2, <1>3, <1>4, <1>5, <1>6, FrontendsAssumption DEF Configured

\* Without the timer the gate passes only channels that are ready.
GateInv ==
  /\ PostInv
  /\ waitsFor \in Nat
  /\ \A i \in 1..Len(WaitOrder) : i < waitsFor => ready[WaitOrder[i]]
  /\ gate = "signalled" /\ ~timedOut => \A f \in Configured : ready[f]

\* At first the gate has passed no channel.
LEMMA GateInvInit == Init => GateInv
BY PostInvInit, EveryChannel DEF Init, GateInv

\* The gate passes a channel only when it is ready, and ready it remains.
LEMMA GateInvStep == GateInv /\ [Next]_vars => GateInv'
<1> SUFFICES ASSUME GateInv, [Next]_vars PROVE GateInv'
  OBVIOUS
<1>1. PostInv' /\ PostInv
  BY PostInvStep DEF GateInv
<1>2. /\ \A f \in Frontends : (loop'[f] = "off") <=> (loop[f] = "off")
      /\ \A f \in Frontends : ready[f] => ready'[f]
  <2>1. DOMAIN loop = Frontends /\ DOMAIN ready = Frontends
    BY <1>1 DEF PostInv, LoopDomains
  <2> QED BY <2>1, LoopsGoOn
<1>3. Configured' = Configured
  <2>1. \A f : f \in Configured' <=> f \in Configured
    BY <1>2 DEF Configured
  <2> QED BY <2>1
<1>4. WaitOrder' = WaitOrder
  BY <1>3 DEF WaitOrder, Channel
<1>5. /\ Len(WaitOrder) \in Nat /\ Configured \subseteq Frontends
      /\ \A i \in 1..Len(WaitOrder) : WaitOrder[i] \in Frontends
  BY EveryChannel DEF Configured
<1>6. \A i \in 1..Len(WaitOrder) : i < waitsFor => ready'[WaitOrder[i]]
  BY <1>2, <1>5 DEF GateInv
<1>7. CASE UNCHANGED gateVars
  BY <1>1, <1>2, <1>3, <1>4, <1>5, <1>6, <1>7 DEF GateInv, gateVars
<1>8. CASE NothingToWaitFor
  <2>1. Configured = {}
    BY <1>8, EveryChannel DEF NothingToWaitFor, OnList
  <2> QED BY <1>1, <1>3, <1>4, <1>6, <1>8, <2>1 DEF NothingToWaitFor, GateInv
<1>9. CASE SeesReady
  <2>1. ready'[WaitOrder[waitsFor]] \/ waitsFor = 0
    BY <1>2, <1>5, <1>9 DEF SeesReady, GateInv
  <2>2. \A i \in 1..Len(WaitOrder) : i < waitsFor' => ready'[WaitOrder[i]]
    BY <1>6, <1>9, <2>1 DEF SeesReady, GateInv
  <2>3. gate' = "signalled" => \A f \in Configured : ready'[f]
    <3> SUFFICES ASSUME gate' = "signalled", NEW f \in Configured PROVE ready'[f]
      OBVIOUS
    <3>1. PICK i \in 1..Len(WaitOrder) : WaitOrder[i] = f
      BY EveryChannel DEF OnList
    <3>2. i < waitsFor'
      BY <1>5, <1>9, <3>1 DEF SeesReady, GateInv
    <3> QED BY <2>2, <3>1, <3>2
  <2> QED BY <1>1, <1>3, <1>4, <1>9, <2>2, <2>3 DEF SeesReady, GateInv
<1>10. CASE GateTimesOut \/ GateLeaves
  BY <1>1, <1>3, <1>4, <1>6, <1>10 DEF GateTimesOut, GateLeaves, GateInv
<1> QED
  BY <1>7, <1>8, <1>9, <1>10 DEF Next, Gate, vars

\* Unless the timer opens it, the gate opens when every frontend was connected once.
THEOREM GateAlwaysWaits == Spec => []GateWaitsForAll
<1>1. GateInv => GateWaitsForAll
  <2> SUFFICES ASSUME GateInv, gate = "signalled", ~timedOut, NEW f \in Configured
               PROVE  CouldPost(f)
    BY DEF GateWaitsForAll
  <2>1. ready[f] /\ f \in {"discord", "mattermost", "matrix", "telegram"}
    BY FrontendsAssumption DEF GateInv, Configured
  <2> QED BY <2>1 DEF GateInv, PostInv, CanPost, CouldPost
<1> QED BY <1>1, GateInvInit, GateInvStep, PTL DEF Spec

-----------------------------------------------------------------------------
(* Types                                                                   *)

\* No delay is longer than the cap, whatever the jitter.
LEMMA BackoffCapped ==
  ASSUME NEW prev, NEW d \in NextBackoff(prev)
  PROVE  d \in 0..MaxDelay
<1>1. PICK k \in Int : d = Smaller(Larger(k, 1), MaxDelay)
  BY DEF NextBackoff, Jittered
<1> QED BY <1>1, ReconnectAssumption DEF Smaller, Larger

LoopTypes ==
  /\ cancelled \in BOOLEAN
  /\ loop \in [Frontends -> {"off", "trying", "waiting", "returned"}]
  /\ delay \in [Frontends -> 0..MaxDelay]
  /\ inRow \in [Frontends -> 0..2]
  /\ ready \in [Frontends -> BOOLEAN]

\* Every step of a reconnect loop keeps its types.
LEMMA LoopTyped ==
  ASSUME LoopTypes, NEW f,
         AttemptFails(f) \/ AttemptReturns(f) \/ WaitOver(f) \/ MarkReady(f) \/ UNCHANGED loopVars
  PROVE  LoopTypes'
<1>1. CASE AttemptFails(f) /\ ~cancelled
  <2>1. PICK long \in BOOLEAN :
          /\ \E d \in NextBackoff(DelayBefore(f, long)) : delay' = [delay EXCEPT ![f] = d]
          /\ inRow' = [inRow EXCEPT ![f] = IF long \/ @ = 0 THEN 1 ELSE 2]
          /\ loop' = [loop EXCEPT ![f] = "waiting"]
    BY <1>1 DEF AttemptFails
  <2>2. delay' \in [Frontends -> 0..MaxDelay]
    BY <2>1, BackoffCapped DEF LoopTypes
  <2> QED BY <1>1, <2>1, <2>2 DEF LoopTypes, AttemptFails
<1>2. CASE AttemptFails(f) /\ cancelled
  BY <1>2 DEF AttemptFails, LoopTypes
<1>3. CASE AttemptReturns(f) \/ WaitOver(f) \/ MarkReady(f) \/ UNCHANGED loopVars
  BY <1>3 DEF AttemptReturns, WaitOver, MarkReady, LoopTypes, loopVars
<1> QED BY <1>1, <1>2, <1>3

MatrixTypes ==
  /\ client \in Clients \cup {NoClient}
  /\ mine \in Clients \cup {NoClient}
  /\ stores \subseteq Clients /\ crypto \subseteq Clients
  /\ room \in BOOLEAN
  /\ post \in [Messages -> {"new", "dropped", "taken", "encrypted", "plain"}]
  /\ via \in [Messages -> Clients \cup {NoClient}]

\* Every step of the Matrix bot keeps its types.
LEMMA MatrixTyped ==
  ASSUME MatrixInv, MatrixTypes, MatrixStep \/ UNCHANGED matrixVars
  PROVE  MatrixTypes'
<1> USE DEF MatrixTypes, matrixVars, attemptVars, postVars
<1>1. CASE MatrixAttempt
  BY <1>1
  DEF MatrixAttempt, Build, BuildFails, ResolveRoom, StepFails, MakeHelper, InitHelper,
      InitHelperFails, Publish, MatrixReady, SyncEnds, CloseHelper, At, GivenUp, MatrixInv,
      AttemptHolds
<1>2. ASSUME NEW m \in Messages, TakeClient(m) PROVE MatrixTypes'
  BY <1>2 DEF TakeClient
<1>3. ASSUME NEW m \in Messages, SendVia(m) PROVE MatrixTypes'
  BY <1>3 DEF SendVia
<1>4. CASE UNCHANGED matrixVars
  BY <1>4
<1> QED BY <1>1, <1>2, <1>3, <1>4 DEF MatrixStep

MattermostTypes ==
  /\ mmStep \in {"identity", "channel", "mark", "connect", "listen", "deaf"}
  /\ channel \in BOOLEAN

\* Every step of the Mattermost bot keeps its types.
LEMMA MattermostTyped ==
  ASSUME MattermostTypes, MattermostAttempt \/ UNCHANGED mattermostVars
  PROVE  MattermostTypes'
BY DEF MattermostTypes, mattermostVars, MattermostAttempt, Identify, ResolveChannel,
       MattermostReady, ConnectWS, MattermostFails, ClosedNormally, ListenEnds

\* The queue of presence events is never longer than its capacity.
DiscordTypes ==
  /\ dStep \in {"start", "build", "register", "unset", "mark", "hook", "serve", "leave"}
  /\ session \in {"none", "open", "closed"}
  /\ commands \in Nat /\ registered \in Nat /\ names \in Nat /\ changes \in Nat
  /\ telling \in Nat /\ statusCh \in 0..StatusCap /\ connects \in Nat /\ blocked \in Nat
  /\ status \in {"off", "select", "count", "update"} /\ counted \in Nat /\ shown \in Nat
  /\ handler \in [Handlers -> {"idle", "names", "store", "take", "session", "send"}]
  /\ list \in [Handlers -> Nat] /\ alone \in [Handlers -> BOOLEAN]

\* Every step of the Discord bot and of its goroutines keeps its types.
LEMMA DiscordTyped ==
  ASSUME DiscordTypes, DiscordStep \/ UNCHANGED discordVars
  PROVE  DiscordTypes'
<1> USE DiscordAssumption
        DEF DiscordTypes, discordVars, sessionVars, commandVars, presenceVars
<1>1. CASE DiscordAttempt
  BY <1>1
  DEF DiscordAttempt, OpenSession, OpenFails, BuildCommands, RegisterCommands, RegisterFails,
      UnsetSession, DiscordReady, InstallHandlers, Leave, Left
<1>2. CASE StatusLoop
  BY <1>2
  DEF StatusLoop, DrainEvents, Tick, CountRunning, UpdateStatus, UpdateStatusFails,
      StatusLoopEnds
<1>3. CASE Change \/ Tell \/ Connected \/ Unblock
  BY <1>3 DEF Change, Tell, Connected, Unblock
<1>4. CASE ReloadElsewhere
  BY <1>4 DEF ReloadElsewhere
<1>5. ASSUME NEW h \in Handlers, ReloadHandler(h) PROVE DiscordTypes'
  <2>1. CASE ReloadHere(h)
    <3>1. alone' \in [Handlers -> BOOLEAN]
      BY <2>1 DEF ReloadHere
    <3> QED BY <2>1, <3>1 DEF ReloadHere
  <2>2. CASE ReadNames(h) \/ StoreCommands(h) \/ TakeCommands(h) \/ TakeSession(h)
    BY <2>2 DEF ReadNames, StoreCommands, TakeCommands, TakeSession
  <2>3. CASE NoSession(h) \/ RegisterAgain(h)
    <3>1. registered' \in Nat /\ HandlerEnds(h)
      BY <2>3 DEF NoSession, RegisterAgain
    <3> QED BY <3>1 DEF HandlerEnds
  <2> QED BY <1>5, <2>1, <2>2, <2>3 DEF ReloadHandler
<1>6. CASE UNCHANGED discordVars
  BY <1>6
<1> QED BY <1>1, <1>2, <1>3, <1>4, <1>5, <1>6 DEF DiscordStep

GateTypes ==
  gate \in {"waiting", "signalled", "left"} /\ waitsFor \in 1..5 /\ timedOut \in BOOLEAN

\* The gate goes through four channels at most.
LEMMA GateTyped ==
  ASSUME GateTypes, Gate \/ UNCHANGED gateVars
  PROVE  GateTypes'
<1>1. Len(WaitOrder) \in 0..4
  <2>1. \A f \in Frontends : Channel(f) \in Seq(Frontends) /\ Len(Channel(f)) \in 0..1
    BY DEF Channel
  <2>2. \A a, b \in Seq(Frontends) :
          a \o b \in Seq(Frontends) /\ Len(a \o b) = Len(a) + Len(b)
    OBVIOUS
  <2> DEFINE d == Channel("discord")
             n == Channel("mattermost")
             m == Channel("matrix")
             t == Channel("telegram")
  <2>3. /\ {d, n, m, t} \subseteq Seq(Frontends)
        /\ Len(d) \in 0..1 /\ Len(n) \in 0..1 /\ Len(m) \in 0..1 /\ Len(t) \in 0..1
    BY <2>1, FrontendsAssumption
  <2>4. WaitOrder = d \o n \o m \o t
    BY DEF WaitOrder
  <2> HIDE DEF d, n, m, t
  <2>5. d \o n \in Seq(Frontends) /\ Len(d \o n) = Len(d) + Len(n)
    BY <2>2, <2>3
  <2> DEFINE dn == d \o n
  <2> HIDE DEF dn
  <2>6. dn \o m \in Seq(Frontends) /\ Len(dn \o m) = Len(dn) + Len(m)
    BY <2>2, <2>3, <2>5 DEF dn
  <2> DEFINE dnm == dn \o m
  <2> HIDE DEF dnm
  <2>7. Len(dnm \o t) = Len(dnm) + Len(t)
    BY <2>2, <2>3, <2>6 DEF dnm
  <2> QED BY <2>3, <2>4, <2>5, <2>6, <2>7 DEF dn, dnm
<1>2. CASE SeesReady
  <2>1. waitsFor + 1 \in 1..5
    BY <1>1, <1>2 DEF SeesReady, GateTypes
  <2> QED BY <1>2, <2>1 DEF SeesReady, GateTypes
<1>3. CASE Gate /\ ~SeesReady
  BY <1>3 DEF GateTypes, Gate, NothingToWaitFor, GateTimesOut, GateLeaves
<1>4. CASE UNCHANGED gateVars
  BY <1>4 DEF GateTypes, gateVars
<1> QED BY <1>2, <1>3, <1>4

TypesInv ==
  MatrixInv /\ LoopTypes /\ MatrixTypes /\ MattermostTypes /\ DiscordTypes /\ GateTypes

\* The first state is typed.
LEMMA TypesInvInit == Init => TypesInv
<1> SUFFICES ASSUME Init PROVE TypesInv
  OBVIOUS
<1>1. LoopTypes
  <2>1. 0 \in 0..MaxDelay
    BY ReconnectAssumption
  <2>2. 0 \in 0..2
    OBVIOUS
  <2>3. loop \in [Frontends -> {"off", "trying", "waiting", "returned"}]
    BY DEF Init
  <2> QED BY <2>1, <2>2, <2>3 DEF Init, LoopTypes
<1>2. MatrixTypes
  BY DEF Init, MatrixInit, MatrixTypes
<1>3. MattermostTypes
  BY DEF Init, MattermostInit, MattermostTypes
<1>4. DiscordTypes
  <2>1. 0 \in 0..StatusCap
    BY DiscordAssumption
  <2> QED BY <2>1 DEF Init, DiscordInit, DiscordTypes
<1>5. GateTypes
  <2>1. waitsFor \in 1..5
    BY DEF Init
  <2> QED BY <2>1 DEF Init, GateTypes
<1> QED BY <1>1, <1>2, <1>3, <1>4, <1>5, MatrixInvInit DEF TypesInv

\* What a step does to the reconnect loops is a step of one of them.
LEMMA LoopSteps ==
  ASSUME [Next]_vars
  PROVE  \/ \E f \in Frontends :
              AttemptFails(f) \/ AttemptReturns(f) \/ WaitOver(f) \/ MarkReady(f)
         \/ UNCHANGED loopVars \/ Cancel
BY FrontendsAssumption
DEF Next, vars, MatrixStep, MatrixAttempt, Build, BuildFails, ResolveRoom, StepFails,
   MakeHelper, InitHelper, InitHelperFails, Publish, MatrixReady, SyncEnds, CloseHelper,
   TakeClient, SendVia, MattermostAttempt, Identify, ResolveChannel, MattermostReady,
   ConnectWS, MattermostFails, ClosedNormally, ListenEnds, DiscordStep, DiscordAttempt, OpenSession,
   OpenFails, BuildCommands, RegisterCommands, RegisterFails, UnsetSession, DiscordReady,
   InstallHandlers, Leave, Left, StatusLoop, DrainEvents, Tick, CountRunning,
   UpdateStatus, UpdateStatusFails, StatusLoopEnds, Change, Tell, Connected, Unblock,
   ReloadElsewhere, ReloadHandler, ReloadHere, ReadNames, StoreCommands, TakeCommands,
   TakeSession, NoSession, HandlerEnds, RegisterAgain, TelegramReady

\* Every step keeps the types of every component.
LEMMA TypesInvStep == TypesInv /\ [Next]_vars => TypesInv'
<1> SUFFICES ASSUME TypesInv, [Next]_vars PROVE TypesInv'
  OBVIOUS
<1>1. MatrixInv'
  BY MatrixInvStep DEF TypesInv
<1>2. LoopTypes'
  <2>1. \/ \E f \in Frontends :
             AttemptFails(f) \/ AttemptReturns(f) \/ WaitOver(f) \/ MarkReady(f)
        \/ UNCHANGED loopVars \/ Cancel
    BY LoopSteps
  <2>2. CASE Cancel
    BY <2>2 DEF Cancel, TypesInv, LoopTypes
  <2> QED BY <2>1, <2>2, LoopTyped DEF TypesInv
<1>3. MatrixTypes'
  BY MatrixTyped DEF Next, vars, TypesInv
<1>4. MattermostTypes'
  BY MattermostTyped DEF Next, vars, TypesInv
<1>5. DiscordTypes'
  BY DiscordTyped DEF Next, vars, TypesInv
<1>6. GateTypes'
  BY GateTyped DEF Next, vars, TypesInv
<1> QED BY <1>1, <1>2, <1>3, <1>4, <1>5, <1>6 DEF TypesInv

\* The types of all frontends; no wait between attempts is longer than the cap.
THEOREM FrontendTypes == Spec => []TypeOK
<1>1. TypesInv => TypeOK
  BY DEF TypesInv, TypeOK, MatrixInv, AttemptHolds, Attempting, LoopTypes, MatrixTypes,
         MattermostTypes, DiscordTypes, GateTypes
<1> QED BY <1>1, TypesInvInit, TypesInvStep, PTL DEF Spec

-----------------------------------------------------------------------------
(* The waits of the reconnect loop.  All arithmetic is in the lemmas about *)
(* nextBackoff; the invariant is that a frontend that failed has a delay,  *)
(* no shorter than the first one can be unless the cap is.                 *)

\* What the fraction is cut off to.
LEMMA HundredthCut ==
  \A p \in Int : LET k == p \div 100 IN k \in Int /\ 100 * k <= p /\ p < 100 * (k + 1)
OBVIOUS

\* A product grows with its factors.
LEMMA ProductsGrow ==
  \A a, b, c \in Nat : a <= b => a * c <= b * c /\ a * c \in Nat /\ b * c \in Nat
OBVIOUS

\* The jittered delay is within the percentage, or at a bound.
LEMMA JitterBounds ==
  ASSUME NEW d \in Nat \ {0}, NEW w \in Jittered(d)
  PROVE  /\ w \in 1..MaxDelay
         /\ w = MaxDelay \/ 100 * (w + 1) > d * (100 - JitterPercent)
         /\ 100 * w <= (100 + JitterPercent) * d
<1> DEFINE low  == (d * (100 - JitterPercent)) \div 100
           high == (d * (100 + JitterPercent) - 1) \div 100
<1>1. PICK k \in low..high : w = Smaller(Larger(k, 1), MaxDelay)
  BY DEF Jittered
<1>2. /\ JitterPercent \in 1..99 /\ MaxDelay \in Nat \ {0}
      /\ d * (100 - JitterPercent) \in Int /\ d * (100 + JitterPercent) - 1 \in Int
  BY ReconnectAssumption
<1>3. /\ low \in Int /\ high \in Int
      /\ d * (100 - JitterPercent) < 100 * (low + 1)
      /\ 100 * high <= d * (100 + JitterPercent) - 1
  BY <1>2, HundredthCut
<1> HIDE DEF low, high
<1>4. k \in Int /\ low <= k /\ k <= high
  BY <1>1, <1>3
<1>5. 100 <= d * (100 + JitterPercent) /\ d * (100 + JitterPercent) = (100 + JitterPercent) * d
  <2>1. 1 * (100 + JitterPercent) <= d * (100 + JitterPercent)
    BY <1>2, ProductsGrow
  <2> QED BY <1>2, <2>1
<1>6. d * (100 - JitterPercent) \in Int /\ (100 + JitterPercent) * d \in Int
  BY <1>2
<1> DEFINE lo == d * (100 - JitterPercent)
           hi == (100 + JitterPercent) * d
<1>7. /\ lo \in Int /\ hi \in Int /\ lo < 100 * (low + 1) /\ 100 * high <= hi - 1 /\ 100 <= hi
  BY <1>3, <1>5, <1>6
<1>8. w \in 1..MaxDelay /\ (w = MaxDelay \/ 100 * (w + 1) > lo) /\ 100 * w <= hi
  <2> HIDE DEF lo, hi
  <2> QED BY <1>1, <1>2, <1>3, <1>4, <1>7 DEF Smaller, Larger
<1> QED BY <1>8

\* Where growth outweighs jitter the next wait is longer, or at the cap less
\* jitter; it is never below the least one.
LEMMA BackoffGrows ==
  ASSUME GrowthOutweighsJitter, NEW prev \in 1..MaxDelay,
         prev >= LeastDelay \/ prev = MaxDelay, NEW w \in NextBackoff(prev)
  PROVE  /\ w \in 1..MaxDelay
         /\ w >= LeastDelay \/ w = MaxDelay
         /\ w > prev \/ 100 * (w + 1) > (100 - JitterPercent) * MaxDelay
<1> DEFINE keep == 100 - JitterPercent
           first == InitialDelay * keep
<1>1. /\ keep \in 1..99 /\ MaxDelay \in Nat \ {0} /\ InitialDelay \in Nat \ {0}
      /\ InitialDelay <= MaxDelay /\ Factor \in Nat /\ Factor >= 2 /\ prev \in Nat
  BY ReconnectAssumption
<1>2. first \in Int /\ MaxDelay * keep \in Int /\ first <= MaxDelay * keep
  BY <1>1, ProductsGrow
<1>3. LeastDelay \in Nat \ {0} /\ (LeastDelay = 1 \/ 100 * LeastDelay <= first)
  BY <1>2, HundredthCut DEF LeastDelay, Larger
<1>4. prev * Factor \in Nat /\ prev * Factor > prev
  <2>1. 2 * prev <= Factor * prev /\ Factor * prev \in Nat
    BY <1>1, ProductsGrow
  <2>2. prev * Factor = Factor * prev
    BY <1>1
  <2> QED BY <1>1, <2>1, <2>2
<1>5. CASE prev * Factor >= MaxDelay
  <2>1. w \in Jittered(MaxDelay)
    BY <1>1, <1>4, <1>5 DEF NextBackoff, GrownDelay, Smaller
  <2>2. w \in 1..MaxDelay /\ (w = MaxDelay \/ 100 * (w + 1) > MaxDelay * keep)
    BY <1>1, <2>1, JitterBounds
  <2>3. MaxDelay * keep = keep * MaxDelay /\ MaxDelay * keep <= 100 * MaxDelay
    <3>1. keep * MaxDelay <= 100 * MaxDelay
      BY <1>1, ProductsGrow
    <3> QED BY <1>1, <3>1
  <2> HIDE DEF first
  <2> DEFINE capped == MaxDelay * keep
  <2>4. capped \in Int /\ first \in Int /\ first <= capped /\ capped <= 100 * MaxDelay
          /\ (w = MaxDelay \/ 100 * (w + 1) > capped)
    BY <1>2, <2>2, <2>3
  <2>5. (w >= LeastDelay \/ w = MaxDelay) /\ 100 * (w + 1) > capped
    <3> HIDE DEF capped, keep
    <3> QED BY <1>1, <1>3, <2>2, <2>4
  <2> QED BY <2>2, <2>3, <2>5
<1>6. CASE prev * Factor < MaxDelay
  <2> DEFINE gain == Factor * keep - 100
  <2>1. w \in Jittered(prev * Factor)
    BY <1>1, <1>4, <1>6 DEF NextBackoff, GrownDelay, Smaller
  <2>2. w \in 1..MaxDelay /\ (w = MaxDelay \/ 100 * (w + 1) > (prev * Factor) * keep)
    BY <1>1, <1>4, <2>1, JitterBounds
  <2>3. prev >= LeastDelay
    BY <1>1, <1>4, <1>6
  <2>4. gain \in Int /\ LeastDelay * gain >= 100
    BY <1>1 DEF GrowthOutweighsJitter
  <2>5. gain \in Nat
    <3> HIDE DEF gain
    <3> QED BY <1>3, <2>4
  <2>6. prev * gain \in Int /\ LeastDelay * gain <= prev * gain
    <3> HIDE DEF gain
    <3> QED BY <1>1, <1>3, <2>3, <2>5, ProductsGrow
  <2>7. (prev * Factor) * keep = prev * gain + 100 * prev
    <3>1. (prev * Factor) * keep = prev * (Factor * keep)
      BY <1>1
    <3>2. Factor * keep \in Int /\ Factor * keep = gain + 100
      BY <1>1
    <3>3. \A g \in Int : prev * (g + 100) = prev * g + 100 * prev
      BY <1>1
    <3> QED BY <2>4, <3>1, <3>2, <3>3
  <2>8. (prev * Factor) * keep >= 100 * (prev + 1) /\ (prev * Factor) * keep \in Int
    <3> DEFINE more == prev * gain
    <3>1. more \in Int /\ more >= 100
      <4> HIDE DEF gain
      <4>1. LeastDelay * gain \in Int
        BY <1>3, <2>5
      <4> QED BY <2>4, <2>6, <4>1
    <3>2. (prev * Factor) * keep = more + 100 * prev
      BY <2>7
    <3> HIDE DEF more
    <3> QED BY <1>1, <3>1, <3>2
  <2>9. w > prev
    <3> DEFINE grown == (prev * Factor) * keep
    <3>1. grown \in Int /\ grown >= 100 * (prev + 1) /\ (w = MaxDelay \/ 100 * (w + 1) > grown)
      BY <2>2, <2>8
    <3> HIDE DEF grown
    <3> QED BY <1>1, <1>4, <1>6, <2>2, <3>1
  <2> QED BY <1>1, <1>3, <2>2, <2>3, <2>9
<1> QED BY <1>1, <1>4, <1>5, <1>6

\* The first wait is about the initial delay.
LEMMA BackoffStarts ==
  ASSUME NEW w \in NextBackoff(0)
  PROVE  /\ w \in 1..MaxDelay
         /\ w >= LeastDelay \/ w = MaxDelay
         /\ 100 * w <= (100 + JitterPercent) * InitialDelay
<1> DEFINE first == InitialDelay * (100 - JitterPercent)
<1>1. InitialDelay \in Nat \ {0} /\ JitterPercent \in 1..99 /\ first \in Int
  BY ReconnectAssumption
<1>2. w \in Jittered(InitialDelay)
  BY DEF NextBackoff, GrownDelay
<1>3. /\ w \in 1..MaxDelay /\ (w = MaxDelay \/ 100 * (w + 1) > first)
      /\ 100 * w <= (100 + JitterPercent) * InitialDelay
  BY <1>1, <1>2, JitterBounds
<1>4. LeastDelay \in Nat \ {0} /\ (LeastDelay = 1 \/ 100 * LeastDelay <= first)
  BY <1>1, HundredthCut DEF LeastDelay, Larger
<1>5. w >= LeastDelay \/ w = MaxDelay
  <2> HIDE DEF first
  <2> QED BY <1>1, <1>3, <1>4, ReconnectAssumption
<1> QED BY <1>3, <1>5

\* A frontend that failed waits, at least the least delay unless the cap is less.
BackoffInv ==
  /\ LoopTypes
  /\ \A f \in Frontends :
       /\ inRow[f] = 0 <=> delay[f] = 0
       /\ delay[f] # 0 => delay[f] >= LeastDelay \/ delay[f] = MaxDelay

\* A failed attempt: the delay it sets, from the one before.
LEMMA FailureDelays ==
  ASSUME GrowthOutweighsJitter, BackoffInv, NEW f \in Frontends, AttemptFails(f), ~cancelled
  PROVE  /\ BackoffInv'
         /\ loop' = [loop EXCEPT ![f] = "waiting"]
         /\ delay'[f] \in 1..MaxDelay
         /\ inRow'[f] = 1 => 100 * delay'[f] <= (100 + JitterPercent) * InitialDelay
         /\ inRow'[f] = 2 =>
              delay'[f] > delay[f] \/ 100 * (delay'[f] + 1) > (100 - JitterPercent) * MaxDelay
<1>0. PICK long \in BOOLEAN :
        /\ \E d \in NextBackoff(DelayBefore(f, long)) : delay' = [delay EXCEPT ![f] = d]
        /\ inRow' = [inRow EXCEPT ![f] = IF long \/ @ = 0 THEN 1 ELSE 2]
        /\ loop' = [loop EXCEPT ![f] = "waiting"]
  BY DEF AttemptFails
<1>1. PICK w \in NextBackoff(DelayBefore(f, long)) : delay' = [delay EXCEPT ![f] = w]
  BY <1>0
<1>2. LoopTypes'
  BY LoopTyped DEF BackoffInv
<1>3. /\ delay[f] \in 0..MaxDelay /\ delay'[f] = w /\ MaxDelay \in Nat
      /\ \A g \in Frontends \ {f} : delay'[g] = delay[g] /\ inRow'[g] = inRow[g]
      /\ inRow'[f] = IF long \/ inRow[f] = 0 THEN 1 ELSE 2
  BY <1>0, <1>1, ReconnectAssumption DEF BackoffInv, LoopTypes
<1>4. CASE long \/ delay[f] = 0
  <2>1. w \in NextBackoff(0)
    BY <1>1, <1>4 DEF DelayBefore
  <2>2. inRow'[f] = 1
    <3>1. delay[f] = 0 => inRow[f] = 0
      BY DEF BackoffInv
    <3> QED BY <1>3, <1>4, <3>1
  <2>3. /\ w \in 1..MaxDelay /\ (w >= LeastDelay \/ w = MaxDelay)
        /\ 100 * w <= (100 + JitterPercent) * InitialDelay
    BY <2>1, BackoffStarts
  <2>4. BackoffInv'
    BY <1>2, <1>3, <2>2, <2>3 DEF BackoffInv
  <2> QED BY <1>0, <1>3, <2>2, <2>3, <2>4
<1>5. CASE ~long /\ delay[f] # 0
  <2>1. w \in NextBackoff(delay[f]) /\ delay[f] \in 1..MaxDelay
    BY <1>1, <1>3, <1>5 DEF DelayBefore
  <2>2. delay[f] >= LeastDelay \/ delay[f] = MaxDelay
    BY <1>5 DEF BackoffInv
  <2>3. inRow'[f] = 2
    <3>1. inRow[f] # 0
      BY <1>5 DEF BackoffInv
    <3> QED BY <1>3, <1>5, <3>1
  <2>4. /\ w \in 1..MaxDelay /\ (w >= LeastDelay \/ w = MaxDelay)
        /\ w > delay[f] \/ 100 * (w + 1) > (100 - JitterPercent) * MaxDelay
    BY <2>1, <2>2, BackoffGrows
  <2>5. BackoffInv'
    BY <1>2, <1>3, <2>3, <2>4 DEF BackoffInv
  <2> QED BY <1>0, <1>3, <2>3, <2>4, <2>5
<1> QED BY <1>4, <1>5

\* Every step keeps the delays in order, and those that start a wait are sane.
LEMMA BackoffStep ==
  ASSUME GrowthOutweighsJitter, BackoffInv, [Next]_vars
  PROVE  /\ BackoffInv'
         /\ \A f \in Frontends : loop[f] = "trying" /\ loop'[f] = "waiting" =>
              /\ delay'[f] \in 1..MaxDelay
              /\ inRow'[f] = 1 => 100 * delay'[f] <= (100 + JitterPercent) * InitialDelay
              /\ inRow'[f] = 2 =>
                   \/ delay'[f] > delay[f]
                   \/ 100 * (delay'[f] + 1) > (100 - JitterPercent) * MaxDelay
<1>1. CASE \E f \in Frontends : AttemptFails(f) /\ ~cancelled
  <2>1. PICK f \in Frontends : AttemptFails(f) /\ ~cancelled
    BY <1>1
  <2>2. \A g \in Frontends : loop[g] = "trying" /\ loop'[g] = "waiting" => g = f
    BY <2>1, FailureDelays DEF BackoffInv, LoopTypes
  <2> QED BY <2>1, <2>2, FailureDelays
<1>2. CASE ~\E f \in Frontends : AttemptFails(f) /\ ~cancelled
  <2>1. UNCHANGED <<delay, inRow>>
    BY <1>2, LoopSteps
    DEF AttemptFails, AttemptReturns, WaitOver, MarkReady, Cancel, loopVars
  <2>2. LoopTypes'
    BY LoopSteps, LoopTyped DEF BackoffInv, Cancel, LoopTypes
  <2>3. \A f \in Frontends : ~(loop[f] = "trying" /\ loop'[f] = "waiting")
    BY <1>2, LoopSteps
    DEF BackoffInv, LoopTypes, AttemptFails, AttemptReturns, WaitOver, MarkReady, Cancel, loopVars
  <2> QED BY <2>1, <2>2, <2>3 DEF BackoffInv
<1> QED BY <1>1, <1>2

\* Where growth outweighs jitter, as with the defaults, a frontend that failed
\* for the first time, or dropped, waits about the initial delay, and every
\* further wait is longer than the last or near the cap.
THEOREM BackoffIsSane ==
  ASSUME GrowthOutweighsJitter
  PROVE  Spec => BackoffSane
<1>1. Init => BackoffInv
  <2> SUFFICES ASSUME Init PROVE BackoffInv
    OBVIOUS
  <2> QED BY TypesInvInit DEF Init, BackoffInv, TypesInv
<1>2. BackoffInv /\ [Next]_vars => BackoffInv'
  BY BackoffStep
<1>3. BackoffInv /\ [Next]_vars =>
        [\A f \in Frontends : loop[f] = "trying" /\ loop'[f] = "waiting" =>
           /\ delay'[f] \in 1..MaxDelay
           /\ inRow'[f] = 1 => 100 * delay'[f] <= (100 + JitterPercent) * InitialDelay
           /\ inRow'[f] = 2 =>
                delay'[f] > delay[f] \/ 100 * (delay'[f] + 1) > (100 - JitterPercent) * MaxDelay]_loopVars
  BY BackoffStep
<1> QED BY <1>1, <1>2, <1>3, PTL DEF Spec, BackoffSane
=============================================================================
