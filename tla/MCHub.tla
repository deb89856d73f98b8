------------------------------- MODULE MCHub -------------------------------
(* The Hub on small instances. *)
EXTENDS Hub, TLC

CONSTANTS p1, p2, k1, w1, c1, c2

Pair == {p1, p2}
OneCloser == {c1}
TwoClosers == {c1, c2}

MCTools == {"read", "Read"}
MCCapitalised == [t \in MCTools |-> "Read"]

Payload(session, status, activity, tool) ==
  [session |-> session, sig |-> [status |-> status, activity |-> activity, tool |-> tool]]

\* A tool call and the end of the turn in one session, a heartbeat in another.
MCPayloads == {Payload("s1", NilStatus, TRUE, "read"),
               Payload("s2", NilStatus, TRUE, NoTool),
               Payload("s1", "idle", FALSE, NoTool)}
\* Sound for the runs without liveness: no definition tells them apart.
Symmetry == Permutations(Pair) \cup Permutations(TwoClosers)
=============================================================================
