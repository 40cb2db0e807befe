------------------------- MODULE MC_ServiceManager -------------------------
(* Small instances of ServiceManager for TLC. *)
EXTENDS ServiceManager, TLC

\* Two revisions of one configuration: a reload between them replaces the
\* service.  Quiet is not started by itself; Forced starts over a stop; Unit is
\* a systemctl service that is restarted on every boot.
Plain(n) == [autostart |-> TRUE, force |-> FALSE, always |-> FALSE, selfDeploy |-> FALSE, rev |-> n]

Forced   == [Plain(1) EXCEPT !.force = TRUE]
Quiet    == [Plain(1) EXCEPT !.autostart = FALSE]
Unit     == [Quiet EXCEPT !.always = TRUE]
Self(n)  == [Plain(n) EXCEPT !.selfDeploy = TRUE]

TwoRevisions  == {Plain(1), Plain(2)}
StartPolicies == {Plain(1), Forced, Quiet, Unit}
SelfDeploying == {Self(1)}

\* Generations, callers and requests are interchangeable.
Symmetry == Permutations(Instances) \cup Permutations(Callers)
              \cup Permutations(Requests) \cup Permutations(Reloads)

\* People call operations until somebody requests a deploy, and none after that.
OneKind ==
  \/ \A r \in Requests : req[r] = "idle"
  \/ \A c \in Callers : opPc[c] = "idle" /\ opOn[c] = NoInst

OneKindSafe == Init /\ [][Next /\ OneKind']_vars

\* For liveness: the environment is under no fairness, so OneKind only leaves out behaviours in which
\* it does more.  The revisions are interchangeable: the service that is there at the start has the first.
OneKindSpec ==
  /\ OneKindSafe /\ \A g \in Instances : conf[g] # Plain(2)
  /\ Fairness
=============================================================================
