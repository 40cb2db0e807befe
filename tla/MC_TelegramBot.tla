--------------------------- MODULE MC_TelegramBot ---------------------------
EXTENDS TelegramBot

\* A command of an admin who writes as the group (its messages carry the flag of a bot), which the
\* bot takes like a person's, and a command of another bot, which it must leave alone.
AsGroup  == [chat |-> "configured", from |-> "anonymous admin", command |-> TRUE]
OfBot    == [chat |-> "configured", from |-> "bot", command |-> TRUE]
MC_Arriving == {AsGroup, OfBot}
=============================================================================
