---------------------------- MODULE CommandFeed ----------------------------
(***************************************************************************)
(* What a chat frontend promises its users, apart from how it reads the    *)
(* chat: while it is open it takes the updates of the chat one after the   *)
(* other, runs each command of a person once and ignores the rest.  While  *)
(* it is closed (not started, connecting, restarting) updates pile up;     *)
(* when it opens it may skip some of those, but none that arrives later    *)
(* and none that it has already run is taken again.                        *)
(***************************************************************************)
EXTENDS Integers, Sequences

CONSTANTS Updates,   \* what can arrive in the chat
          Wanted     \* the updates that are commands for this frontend

VARIABLES updates,   \* all that has arrived, oldest first; an id is a position
          handled,   \* the ids of the commands that were run, in that order
          open,      \* the frontend says it is ready
          next       \* while open: the id of the update to take next

feedVars == <<updates, handled, open, next>>

FeedTypeOK ==
  /\ updates \in Seq(Updates)
  /\ handled \in Seq(Nat)
  /\ open \in BOOLEAN
  /\ next \in Nat

FeedInit ==
  /\ updates = <<>>
  /\ handled = <<>>
  /\ open = FALSE
  /\ next = 0

Arrive ==
  /\ \E u \in Updates : updates' = Append(updates, u)
  /\ UNCHANGED <<handled, open, next>>

\* Opens at any update that has not been reached yet: what is before it is skipped.
Open ==
  /\ ~open
  /\ open' = TRUE
  /\ next' \in 1..(Len(updates) + 1)
  /\ \A i \in DOMAIN handled : handled[i] < next'
  /\ UNCHANGED <<updates, handled>>

Take ==
  /\ open
  /\ next \in DOMAIN updates
  /\ next' = next + 1
  /\ handled' = IF updates[next] \in Wanted THEN Append(handled, next) ELSE handled
  /\ UNCHANGED <<updates, open>>

Close ==
  /\ open
  /\ open' = FALSE
  /\ next' = 0
  /\ UNCHANGED <<updates, handled>>

FeedNext == Arrive \/ Open \/ Take \/ Close

FeedSpec == FeedInit /\ [][FeedNext]_feedVars
=============================================================================
