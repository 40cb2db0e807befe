--------------------------- MODULE MattermostBot ---------------------------
(***************************************************************************)
(* The Mattermost frontend: its attempt inside the reconnect loop.  Unlike *)
(* the Matrix bot it keeps what it resolved when a connection drops, and   *)
(* it is ready before the WebSocket is connected.  The filters of the      *)
(* event handler and the commands, which are calls of the manager, are     *)
(* left out.                                                               *)
(***************************************************************************)
EXTENDS Reconnect

VARIABLES
  mmStep,    \* where the attempt is
  channel    \* b.channelID is known, and b.userID with it

mattermostVars == <<mmStep, channel>>

MattermostInit == mmStep = "identity" /\ channel = FALSE

MmAt(step) == loop["mattermost"] = "trying" /\ mmStep = step

\* resolveIdentity.
Identify ==
  /\ MmAt("identity")
  /\ mmStep' = "channel"
  /\ UNCHANGED <<loopVars, channel>>

\* resolveChannel.
ResolveChannel ==
  /\ MmAt("channel")
  /\ channel' = TRUE
  /\ mmStep' = "mark"
  /\ UNCHANGED loopVars

MattermostReady ==
  /\ MmAt("mark")
  /\ MarkReady("mattermost")
  /\ mmStep' = "connect"
  /\ UNCHANGED channel

\* connectAndListen.
ConnectWS ==
  /\ MmAt("connect")
  /\ mmStep' = "listen"
  /\ UNCHANGED <<loopVars, channel>>

\* The server closes the connection in the normal way: the library closes the
\* event channel and has no error to report, and the loop goes round and round.
ClosedNormally ==
  /\ MmAt("listen")
  /\ mmStep' = "deaf"
  /\ UNCHANGED <<loopVars, channel>>

\* A call fails, the connection drops or a ping times out.
MattermostFails ==
  /\ loop["mattermost"] = "trying" /\ mmStep # "mark"
  /\ AttemptFails("mattermost")
  /\ mmStep' = "identity"
  /\ UNCHANGED channel

\* The context ends the listening.
ListenEnds ==
  /\ MmAt("listen") \/ MmAt("deaf")
  /\ cancelled
  /\ AttemptReturns("mattermost")
  /\ mmStep' = "identity"
  /\ UNCHANGED channel

MattermostAttempt ==
  \/ Identify \/ ResolveChannel \/ MattermostReady \/ ConnectWS
  \/ ClosedNormally \/ MattermostFails \/ ListenEnds
  \/ WaitOver("mattermost") /\ UNCHANGED mattermostVars
=============================================================================
