----------------------------- MODULE Frontends -----------------------------
(***************************************************************************)
(* The chat frontends that are configured, the readiness gate that waits   *)
(* for them, and the context that ends them (App.Run, waitForReady).  The  *)
(* Telegram bot, which has a module of its own, takes part in the gate.    *)
(***************************************************************************)
EXTENDS MatrixBot, MattermostBot, DiscordBot, Sequences

CONSTANT Deployments    \* the sets of frontends that may be configured

ASSUME FrontendsAssumption == Frontends = {"discord", "mattermost", "matrix", "telegram"}

VARIABLES
  gate,       \* waitForReadyChannels: "waiting", "signalled", "left"
  waitsFor,   \* the position of the channel it waits for
  timedOut    \* ghost: it was the timer that opened the gate

gateVars == <<gate, waitsFor, timedOut>>
vars == <<loopVars, matrixVars, mattermostVars, discordVars, gateVars>>

Configured == {f \in Frontends : loop[f] # "off"}

\* The channels, in the order in which they are collected.
Channel(f) == IF f \in Configured THEN <<f>> ELSE <<>>

WaitOrder == Channel("discord") \o Channel("mattermost") \o Channel("matrix") \o Channel("telegram")

Init ==
  /\ \E frontends \in Deployments :
       loop = [f \in Frontends |-> IF f \in frontends THEN "trying" ELSE "off"]
  /\ delay = [f \in Frontends |-> 0] /\ inRow = [f \in Frontends |-> 0]
  /\ ready = [f \in Frontends |-> FALSE]
  /\ cancelled = FALSE
  /\ MatrixInit /\ MattermostInit /\ DiscordInit
  /\ gate = "waiting" /\ waitsFor = 1 /\ timedOut = FALSE

-----------------------------------------------------------------------------
(* The gate                                                                *)

NothingToWaitFor ==
  /\ gate = "waiting" /\ WaitOrder = <<>>
  /\ gate' = "signalled"
  /\ UNCHANGED <<waitsFor, timedOut>>

\* The first channel that is ready opens the gate (a mutation).
SeesTheFirstReady ==
  /\ gate = "waiting" /\ waitsFor <= Len(WaitOrder) /\ ready[WaitOrder[waitsFor]]
  /\ gate' = "signalled"
  /\ waitsFor' = waitsFor + 1
  /\ UNCHANGED timedOut

SeesReady ==
  /\ gate = "waiting" /\ waitsFor <= Len(WaitOrder) /\ ready[WaitOrder[waitsFor]]
  /\ gate' = IF waitsFor = Len(WaitOrder) THEN "signalled" ELSE "waiting"
  /\ waitsFor' = waitsFor + 1
  /\ UNCHANGED timedOut

GateTimesOut ==
  /\ gate = "waiting" /\ WaitOrder # <<>>
  /\ gate' = "signalled"
  /\ timedOut' = TRUE
  /\ UNCHANGED waitsFor

GateLeaves ==
  /\ gate = "waiting" /\ WaitOrder # <<>> /\ cancelled
  /\ gate' = "left"
  /\ UNCHANGED <<waitsFor, timedOut>>

Gate == NothingToWaitFor \/ SeesReady \/ GateTimesOut \/ GateLeaves

-----------------------------------------------------------------------------
\* markReady of the Telegram bot, see TelegramBot.
TelegramReady ==
  /\ loop["telegram"] = "trying" /\ ~ready["telegram"]
  /\ MarkReady("telegram")

Cancel ==
  /\ ~cancelled
  /\ cancelled' = TRUE
  /\ UNCHANGED <<loop, delay, inRow, ready>>

Next ==
  \/ MatrixStep /\ UNCHANGED <<mattermostVars, discordVars, gateVars>>
  \/ MattermostAttempt /\ UNCHANGED <<matrixVars, discordVars, gateVars>>
  \/ DiscordStep /\ UNCHANGED <<matrixVars, mattermostVars, gateVars>>
  \/ (TelegramReady \/ Cancel) /\ UNCHANGED <<matrixVars, mattermostVars, discordVars, gateVars>>
  \/ Gate /\ UNCHANGED <<loopVars, matrixVars, mattermostVars, discordVars>>

Spec == Init /\ [][Next]_vars

\* The Mattermost bot has a connection, as far as it knows.
Listening == mmStep \in {"listen", "deaf"}

\* A call of a chat server fails; a connection that drops does not count.
CallFails ==
  \/ BuildFails \/ StepFails \/ InitHelperFails
  \/ ~Listening /\ MattermostFails
  \/ OpenFails \/ RegisterFails \/ UpdateStatusFails

(* Every goroutine runs on, select picks among ready cases at random, and  *)
(* from some time on calls are answered.  A connection may last or drop    *)
(* again and again.  A reload, a change, the end of the program are not    *)
(* assumed to come.                                                        *)
Fairness ==
  LET matrix     == <<loopVars, matrixVars>>
      mattermost == <<loopVars, mattermostVars>>
      discord    == <<loopVars, discordVars>>
  IN  /\ <>[][~CallFails]_vars
      /\ WF_gateVars(Gate)
      /\ WF_matrix((mStep # "sync" \/ cancelled) /\ MatrixAttempt)
      /\ WF_mattermost((~Listening \/ cancelled) /\ MattermostAttempt)
      /\ WF_discord(DiscordAttempt)
      /\ WF_discord(StatusLoop) /\ SF_discord(DrainEvents)
      /\ WF_discord(Tell) /\ WF_discord(Unblock)

FairSpec == Spec /\ Fairness

-----------------------------------------------------------------------------
TypeOK ==
  /\ cancelled \in BOOLEAN
  /\ loop \in [Frontends -> {"off", "trying", "waiting", "returned"}]
  /\ delay \in [Frontends -> 0..MaxDelay]
  /\ inRow \in [Frontends -> 0..2]
  /\ ready \in [Frontends -> BOOLEAN]
  /\ mStep \in {"start", "room", "helper", "init", "publish", "mark", "sync", "close"}
  /\ mine \in Clients \cup {NoClient} /\ client \in Clients \cup {NoClient}
  /\ stores \subseteq Clients /\ crypto \subseteq Clients
  /\ room \in BOOLEAN
  /\ post \in [Messages -> {"new", "dropped", "taken", "encrypted", "plain"}]
  /\ via \in [Messages -> Clients \cup {NoClient}]
  /\ mmStep \in {"identity", "channel", "mark", "connect", "listen", "deaf"}
  /\ channel \in BOOLEAN
  /\ dStep \in {"start", "build", "register", "unset", "mark", "hook", "serve", "leave"}
  /\ session \in {"none", "open", "closed"}
  /\ commands \in Nat /\ registered \in Nat /\ names \in Nat /\ changes \in Nat
  /\ telling \in Nat /\ statusCh \in 0..StatusCap /\ connects \in Nat /\ blocked \in Nat
  /\ status \in {"off", "select", "count", "update"} /\ counted \in Nat /\ shown \in Nat
  /\ handler \in [Handlers -> {"idle", "names", "store", "take", "session", "send"}]
  /\ list \in [Handlers -> Nat] /\ alone \in [Handlers -> BOOLEAN]
  /\ gate \in {"waiting", "signalled", "left"} /\ waitsFor \in 1..5 /\ timedOut \in BOOLEAN

(* What a frontend needs to post a message was there at some time.         *)
CouldPost(f) ==
  CASE f = "matrix"     -> room
    [] f = "mattermost" -> channel
    [] f = "discord"    -> registered # 0 \/ cancelled
    [] f = "telegram"   -> ready[f]

(* Unless the timer opened it, the gate opens when every frontend has been *)
(* connected once, in whatever order they got ready and however often they *)
(* dropped meanwhile (waitForReadyChannels and the markReady calls).       *)
GateWaitsForAll ==
  gate = "signalled" /\ ~timedOut => \A f \in Configured : CouldPost(f)

\* A frontend is connected, or Run has returned since the program ends.  The
\* Mattermost bot does not notice that its connection was closed in the normal
\* way, and never connects again: "deaf" counts as settled here.
Settled(f) ==
  \/ loop[f] = "off"
  \/ cancelled /\ loop[f] = "returned"
  \/ ~cancelled /\ CASE f = "matrix"     -> mStep = "sync"
                     [] f = "mattermost" -> Listening
                     [] f = "discord"    -> dStep = "serve"

(* The gate does not stay closed; a frontend that is not connected, at the *)
(* start or after a drop, gets connected whatever the others do, but for   *)
(* Mattermost after a normal close, which it takes for a connection; and   *)
(* every Run, that one too, returns when the program ends                  *)
(* (waitForReadyChannels, RunWithBackoff, connectAndListen).               *)
ComesUpOrLeaves ==
  \A f \in Frontends \ {"telegram"} : []<>(gate # "waiting" /\ Settled(f))
=============================================================================
