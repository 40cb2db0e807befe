---------------------------- MODULE MC_Frontends ----------------------------
EXTENDS Frontends

\* The waits of this instance grow in spite of the jitter, as the defaults do.
ASSUME MC_GrowthAssumption == GrowthOutweighsJitter

MC_Frontends == {"discord", "mattermost", "matrix", "telegram"}

\* Matrix with posts, Mattermost beside Telegram, Discord, and no frontend at all.
MC_Deployments == {{"matrix"}, {"mattermost", "telegram"}, {"discord"}, {}}

\* In Discord either reloads or the presence is looked at: neither reads what the other writes.
\* Reloads come when the gate is through and after no failed connection, which they do not read either.
\* The environment is under no fairness, so that only leaves out behaviours with more than that.
OneKind ==
  \/ names = 1
  \/ changes = 1 /\ connects = 0 /\ delay["discord"] = 0 /\ gate # "waiting"

MC_Spec == Init /\ [][Next /\ OneKind']_vars /\ Fairness
=============================================================================
