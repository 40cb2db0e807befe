----------------------------- MODULE MatrixBot -----------------------------
(***************************************************************************)
(* The Matrix frontend: runOnce inside the reconnect loop, against the     *)
(* goroutines that call PostMessage.  Every attempt builds a client of its *)
(* own with a crypto helper on the one crypto database.  The rendering of  *)
(* messages, the filters of the event handlers and the commands, which are *)
(* calls of the manager, are left out: a response is a PostMessage.        *)
(***************************************************************************)
EXTENDS Reconnect

CONSTANTS Clients,     \* identities of clients, free for reuse when nobody holds one
          NoClient,
          Messages     \* the calls of PostMessage

ASSUME ClientAssumption == NoClient \notin Clients

VARIABLES
  mStep,      \* where the attempt is; "start" between attempts
  mine,       \* the client of the attempt
  room,       \* b.roomID is known
  stores,     \* the clients whose crypto helper has the database open
  crypto,     \* the clients with Crypto set: the helper is initialised
  client,     \* b.client
  post,       \* each call of PostMessage
  via         \* the client it has taken

attemptVars == <<mStep, mine, room, stores, crypto, client>>
postVars    == <<post, via>>
matrixVars  == <<attemptVars, postVars>>

MatrixInit ==
  /\ mStep = "start" /\ mine = NoClient /\ room = FALSE
  /\ stores = {} /\ crypto = {} /\ client = NoClient
  /\ post = [m \in Messages |-> "new"] /\ via = [m \in Messages |-> NoClient]

At(step) == loop["matrix"] = "trying" /\ mStep = step

Held(c) == c \in {mine, client} \/ \E m \in Messages : post[m] = "taken" /\ via[m] = c

-----------------------------------------------------------------------------
(* runOnce                                                                 *)

\* buildLocalClient: the discovery of the homeserver, and a fresh client.
Build ==
  /\ At("start")
  /\ \E c \in Clients :
       /\ ~Held(c) /\ c \notin stores
       /\ mine' = c
       /\ crypto' = crypto \ {c}
  /\ mStep' = IF room THEN "helper" ELSE "room"
  /\ UNCHANGED <<loopVars, room, stores, client, postVars>>

BuildFails ==
  /\ At("start")
  /\ AttemptFails("matrix")
  /\ UNCHANGED matrixVars

\* resolveRoomOnClient: kept for all later attempts.
ResolveRoom ==
  /\ At("room")
  /\ room' = TRUE
  /\ mStep' = "helper"
  /\ UNCHANGED <<loopVars, mine, stores, crypto, client, postVars>>

\* The attempt is given up and its client with it.
GivenUp == mStep' = "start" /\ mine' = NoClient

\* The alias is not resolved, or the helper cannot be made.
StepFails ==
  /\ At("room") \/ At("helper")
  /\ AttemptFails("matrix")
  /\ GivenUp
  /\ UNCHANGED <<room, stores, crypto, client, postVars>>

\* NewCryptoHelper opens the database.
MakeHelper ==
  /\ At("helper")
  /\ stores' = stores \cup {mine}
  /\ mStep' = "init"
  /\ UNCHANGED <<loopVars, mine, room, crypto, client, postVars>>

\* helper.Init answers; Crypto is set before the client is published.
InitHelper ==
  /\ At("init")
  /\ crypto' = crypto \cup {mine}
  /\ mStep' = "publish"
  /\ UNCHANGED <<loopVars, mine, room, stores, client, postVars>>

\* The helper is not closed (a mutation).
InitHelperFailsAndLeaks ==
  /\ At("init")
  /\ AttemptFails("matrix")
  /\ GivenUp
  /\ UNCHANGED <<room, stores, crypto, client, postVars>>

InitHelperFails ==
  /\ At("init")
  /\ AttemptFails("matrix")
  /\ stores' = stores \ {mine}
  /\ GivenUp
  /\ UNCHANGED <<room, crypto, client, postVars>>

Publish ==
  /\ At("publish")
  /\ client' = mine
  /\ mStep' = "mark"
  /\ UNCHANGED <<loopVars, mine, room, stores, crypto, postVars>>

MatrixReady ==
  /\ At("mark")
  /\ MarkReady("matrix")
  /\ mStep' = "sync"
  /\ UNCHANGED <<mine, room, stores, crypto, client, postVars>>

\* SyncWithContext returned: an error, or the context.
SyncEnds ==
  /\ At("sync")
  /\ client' = NoClient
  /\ mStep' = "close"
  /\ UNCHANGED <<loopVars, mine, room, stores, crypto, postVars>>

CloseHelper ==
  /\ At("close")
  /\ stores' = stores \ {mine}
  /\ GivenUp
  /\ IF cancelled THEN AttemptReturns("matrix") ELSE AttemptFails("matrix")
  /\ UNCHANGED <<room, crypto, client, postVars>>

-----------------------------------------------------------------------------
(* PostMessage, by a service loop, a push or the response to a command     *)

\* Client and room are read under connMu; without them the message is dropped.
TakeClient(m) ==
  /\ post[m] = "new"
  /\ IF client = NoClient \/ ~room \/ client \notin crypto
       THEN post' = [post EXCEPT ![m] = "dropped"] /\ UNCHANGED via
       ELSE /\ post' = [post EXCEPT ![m] = "taken"]
            /\ via' = [via EXCEPT ![m] = client]
  /\ UNCHANGED <<loopVars, attemptVars>>

\* SendMessageEvent, by now perhaps through a client that was torn down.
SendVia(m) ==
  /\ post[m] = "taken"
  /\ post' = [post EXCEPT ![m] = IF via[m] \in crypto THEN "encrypted" ELSE "plain"]
  /\ via' = [via EXCEPT ![m] = NoClient]
  /\ UNCHANGED <<loopVars, attemptVars>>

MatrixAttempt ==
  \/ Build \/ BuildFails \/ ResolveRoom \/ StepFails \/ MakeHelper \/ InitHelper \/ InitHelperFails
  \/ Publish \/ MatrixReady \/ SyncEnds \/ CloseHelper
  \/ WaitOver("matrix") /\ UNCHANGED matrixVars

MatrixStep ==
  \/ MatrixAttempt
  \/ \E m \in Messages : TakeClient(m) \/ SendVia(m)

-----------------------------------------------------------------------------
(* A client that PostMessage can find has the crypto helper initialised    *)
(* and its database open, and nobody else has that database open; so a     *)
(* message is never sent as plain text, though a reconnect may tear the    *)
(* client down between the look at it and the send (publish-late order of  *)
(* runOnce, its failures and its teardown).                                *)
PublishedEncrypts ==
  /\ client # NoClient => client \in crypto \cap stores /\ room
  /\ \A c, d \in stores : c = d
  /\ \A m \in Messages : post[m] # "plain"
=============================================================================
