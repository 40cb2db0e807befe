----------------------------- MODULE MC_ColdBoot -----------------------------
(* Small instances of ColdBoot for TLC. *)
EXTENDS ColdBoot

Policy(a, f) == [adopt |-> a, autostart |-> TRUE, force |-> f]
Policies == {Policy(TRUE, FALSE), Policy(FALSE, TRUE)}

Linux     == [absolute |-> FALSE, bootId |-> TRUE]
MacOS     == [absolute |-> TRUE, bootId |-> TRUE]
NoBootId  == [absolute |-> FALSE, bootId |-> FALSE]   \* its boot ID cannot be read
Platforms == {Linux, MacOS, NoBootId}
=============================================================================
