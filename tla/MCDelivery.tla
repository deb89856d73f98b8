----------------------------- MODULE MCDelivery -----------------------------
(* Hooks on a small instance: a session of Claude's and a subagent in it, a        *)
(* sub-session of OpenCode's, and a session of Codex'.                              *)
EXTENDS Delivery

CONSTANTS c1, a1, o1, o2, x1, k1

MCIds == {c1, a1, o1, o2, x1, k1}
MCTools == {"bash", "Bash"}
MCCapitalised == [t \in Tools |-> "Bash"]

MCPrograms == {Agents, {Claude, Custom}}

Place(agent, id, parent) == [agent |-> agent, id |-> id, parent |-> parent]

MCPlaces == {Place(Claude, c1, NoId), Place(Claude, a1, c1), Place(OpenCode, o2, o1), Place(Codex, x1, NoId)}

Plain(events) == {[event |-> e, tool |-> NoTool, type |-> "unknown"] : e \in events}
Tool(events, t) == {[event |-> e, tool |-> t, type |-> "unknown"] : e \in events}

\* A hook of each kind: a status, a tool, mere activity, nothing; with and without a parent.
MCHooks ==
  [pl \in MCPlaces |->
     CASE pl.id = c1 -> Plain({"UserPromptSubmit", "Stop", "PreCompact"}) \cup Tool({"PreToolUse"}, "Bash")
       [] pl.id = a1 -> Plain({"SubagentStop"}) \cup Tool({"PreToolUse"}, "Bash")
       [] pl.id = o2 -> Plain({"created", "status"}) \cup Tool({"before"}, "bash")
       [] pl.id = x1 -> Plain({"Stop"})]

\* A signal without a status and without activity: there is no such one of the others.
MCCustomSignals == {Signal(NilStatus, FALSE, NoTool, k1, NoId)}
=============================================================================
