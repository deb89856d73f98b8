---------------------------- MODULE MCInstaller ----------------------------
(* Installs on small instances: two processes, two consumers, one hooks file. *)
EXTENDS Installer, TLC

CONSTANTS claude, opencode, aider, p1, p2, m1, m2, e1, e2, user

MCProcs == {p1, p2}
MCMarkers == {m1, m2}
MCEndpoints == {e1, e2}

\* e2 is e1 with /opencode behind it.
MCWithin == {<<e1, e2>>}

MCEvents == {"Stop", "SessionEnd", "PreCompact"}
MCInstalledEvents == {"Stop", "SessionEnd"}

\* A hook of the user's own, an event that maps to no list, and a group without hooks for an
\* event that is not installed.
MCUserHooks ==
  {[Stop       |-> [list |-> TRUE, groups |-> <<UserGroup>>],
    SessionEnd |-> [list |-> FALSE, groups |-> <<>>],
    PreCompact |-> [list |-> TRUE, groups |-> <<[isMap |-> TRUE, inner |-> <<>>]>>]]}

MCSymmetry == Permutations(MCProcs) \cup Permutations(MCMarkers) \cup Permutations(MCEndpoints)

MCAgentLists == {<<claude>>, <<aider, opencode>>}
=============================================================================
