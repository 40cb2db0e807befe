------------------------------- MODULE Backend -------------------------------
(***************************************************************************)
(* What the service manager takes a process backend to be, and the one     *)
(* thing it does not expect of it.  A backend has at most one live child,  *)
(* which anybody may see end; it starts a child only when it has none and  *)
(* no Stop is going on, and a Stop ends when the child has.  But a backend *)
(* that adopted a child may once, when the end of that child is noted late,*)
(* lose sight of the child that was started since.                         *)
(***************************************************************************)
EXTENDS Naturals

CONSTANTS Children,   \* all the children a backend may have
          MayAdopt    \* may there be a child of an earlier run of the program?

VARIABLES child,      \* the live child: a set with one element or none
          strays,     \* live children it has lost sight of
          ended,      \* those that have ended
          adopted,    \* the adopted child, until its end is noted
          stopping    \* a Stop waits for the child

backendVars == <<child, strays, ended, adopted, stopping>>

BackendInit ==
  /\ child = {} \/ (MayAdopt /\ \E c \in Children : child = {c})
  /\ adopted = child
  /\ strays = {} /\ ended = {}
  /\ stopping = FALSE

StartChild ==
  /\ child = {} /\ ~stopping
  /\ \E c \in Children \ (ended \cup strays) : child' = {c}
  /\ UNCHANGED <<strays, ended, adopted, stopping>>

ChildEnds(c) ==
  /\ c \in child \cup strays
  /\ child' = child \ {c} /\ strays' = strays \ {c} /\ ended' = ended \cup {c}
  /\ UNCHANGED <<adopted, stopping>>

StopChild ==
  /\ ~stopping /\ stopping' = TRUE
  /\ UNCHANGED <<child, strays, ended, adopted>>

ChildStopped ==
  /\ stopping /\ child = {} /\ stopping' = FALSE
  /\ UNCHANGED <<child, strays, ended, adopted>>

\* The end of the adopted child is noted, in time ...
EndNoted ==
  /\ adopted # {} /\ adopted \subseteq ended
  /\ adopted' = {}
  /\ UNCHANGED <<child, strays, ended, stopping>>

\* ... or when another child has taken its place already.
ChildLost ==
  /\ adopted # {} /\ adopted \subseteq ended /\ ~stopping
  /\ strays' = strays \cup child /\ child' = {}
  /\ adopted' = {}
  /\ UNCHANGED <<ended, stopping>>

BackendNext ==
  \/ StartChild \/ StopChild \/ ChildStopped \/ EndNoted \/ ChildLost
  \/ \E c \in Children : ChildEnds(c)

BackendSpec == BackendInit /\ [][BackendNext]_backendVars
=============================================================================
