---------------------------- MODULE SerialService ----------------------------
(***************************************************************************)
(* What the service manager promises about one service, apart from its     *)
(* loops, its queues and the generations that a reload brings in: a single *)
(* server does one thing at a time.  It serves an op of a client while the *)
(* call goes on, once or not at all; an op that is refused is not served.  *)
(* Between ops it does chores of its own.  A stop of an operator holds: no *)
(* start of the program's own comes after it.  A deploy that was asked for *)
(* is run once, alone or with others, or reported, or dropped for good.    *)
(***************************************************************************)
EXTENDS Naturals

CONSTANTS Clients,    \* those who call operations
          Kinds,      \* the operations
          Deploys     \* requests for a deploy

VARIABLES op,         \* how far the op of each client is
          kind,       \* which one it is; "query" when there is none
          chore,      \* the chore being done: a set with one element or none
          running,    \* the process of the service runs
          held,       \* an operator stopped it, and nobody wants it back since
          request     \* what became of each request for a deploy

opVars      == <<op, kind>>
processVars == <<running, held>>
serviceVars == <<opVars, chore, processVars, request>>

Starts == {"start", "restart"}

ServiceInit ==
  /\ op = [c \in Clients |-> "idle"] /\ kind = [c \in Clients |-> "query"]
  /\ chore = {}
  /\ running \in BOOLEAN /\ held \in BOOLEAN
  /\ held => ~running
  /\ request = [r \in Deploys |-> "idle"]

Free == chore = {} /\ \A c \in Clients : op[c] # "serving"

Moves(c, from, to) == op[c] = from /\ op' = [op EXCEPT ![c] = to]

Call(c) ==
  /\ Moves(c, "idle", "calling")
  /\ \E k \in Kinds : kind' = [kind EXCEPT ![c] = k]
  /\ UNCHANGED <<chore, processVars, request>>

Queue(c) ==
  /\ Moves(c, "calling", "queued")
  /\ UNCHANGED <<kind, chore, processVars, request>>

\* A call returns with the answer to its op, or before it was queued.
Return(c) ==
  /\ \E s \in {"calling", "served", "refused"} : Moves(c, s, "idle")
  /\ kind' = [kind EXCEPT ![c] = "query"]
  /\ UNCHANGED <<chore, processVars, request>>

\* Queued ops are refused, several at once when a loop ends.
Refuse ==
  /\ \E C \in SUBSET {c \in Clients : op[c] = "queued"} :
       op' = [c \in Clients |-> IF c \in C THEN "refused" ELSE op[c]]
  /\ UNCHANGED <<kind, chore, processVars, request>>

Serve(c) ==
  /\ Free
  /\ Moves(c, "queued", "serving")
  /\ held' = (held /\ kind[c] \notin Starts)
  /\ UNCHANGED <<kind, chore, running, request>>

\* An op may fail; a restart may get half way.
Effect(k) ==
  \/ k = "start" /\ running' = TRUE /\ UNCHANGED held
  \/ k = "stop" /\ running' = FALSE /\ held' = TRUE
  \/ k = "restart" /\ running' \in BOOLEAN /\ UNCHANGED held
  \/ UNCHANGED <<running, held>>

Served(c) ==
  /\ Moves(c, "serving", "served")
  /\ Effect(kind[c])
  /\ UNCHANGED <<kind, chore, request>>

\* A cold-boot start never follows a stop of the operator.
Startup ==
  /\ Free /\ ~held
  /\ chore' = {"startup"}
  /\ UNCHANGED <<opVars, processVars, request>>

\* The stop by which a reload takes the old service out.
TakeOut ==
  /\ Free
  /\ chore' = {"reload"}
  /\ UNCHANGED <<opVars, processVars, request>>

AskDeploy(r) ==
  /\ request[r] = "idle"
  /\ \E s \in {"queued", "refused"} : request' = [request EXCEPT ![r] = s]
  /\ UNCHANGED <<opVars, chore, processVars>>

\* The requests of R, all of them waiting so far, get to s.
Settle(R, s) ==
  /\ \A r \in R : request[r] = "queued"
  /\ request' = [r \in Deploys |-> IF r \in R THEN s ELSE request[r]]

Deploy ==
  /\ Free
  /\ chore' = {"deploy"}
  /\ \E R \in SUBSET Deploys : R # {} /\ Settle(R, "started")
  /\ UNCHANGED <<opVars, processVars>>

\* No generation is left to run them, or the program stops.
GiveUpDeploys ==
  /\ \E R \in SUBSET Deploys, s \in {"reported", "dropped"} : Settle(R, s)
  /\ UNCHANGED <<opVars, chore, processVars>>

EndChore ==
  /\ chore' = {}
  /\ \/ chore = {"startup"} /\ running' \in BOOLEAN /\ UNCHANGED held
     \/ chore = {"deploy"} /\ running' = TRUE /\ held' = FALSE
     \/ chore = {"deploy"} /\ running' \in {FALSE, running} /\ UNCHANGED held
     \/ chore = {"reload"} /\ running' \in {FALSE, running} /\ UNCHANGED held
  /\ UNCHANGED <<opVars, request>>

ProcessEnds ==
  /\ running /\ running' = FALSE
  /\ UNCHANGED <<opVars, chore, held, request>>

\* The name is configured anew after it was removed.
Anew ==
  /\ Free /\ ~running
  /\ held' = FALSE
  /\ UNCHANGED <<opVars, chore, running, request>>

ServiceNext ==
  \/ \E c \in Clients : Call(c) \/ Queue(c) \/ Return(c) \/ Serve(c) \/ Served(c)
  \/ Refuse \/ Startup \/ TakeOut \/ Deploy \/ EndChore \/ ProcessEnds \/ Anew
  \/ GiveUpDeploys \/ \E r \in Deploys : AskDeploy(r)

ServiceSpec == ServiceInit /\ [][ServiceNext]_serviceVars
=============================================================================
