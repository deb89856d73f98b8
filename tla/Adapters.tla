------------------------------ MODULE Adapters ------------------------------
(***************************************************************************)
(* adapters/claude, adapters/codex and adapters/opencode, map.go: what     *)
(* Signal, if any, a hook's payload means.                                 *)
(*                                                                         *)
(* Payloads are records of the fields MapHookEvent looks at.  A field that *)
(* is absent or no string reads as "".                                     *)
(***************************************************************************)
EXTENDS Decision

CONSTANTS Ids  \* session ids, ids of subagents included

NoId == ""

ASSUME AdaptersAssumption == NoId \notin Ids

\* MapHookEvent returned nil.
Drop == [status |-> NilStatus, activity |-> FALSE, tool |-> NoTool, session |-> NoId, parent |-> NoId]

Signal(status, activity, tool, session, parent) ==
  [status |-> status, activity |-> activity, tool |-> tool, session |-> session, parent |-> parent]

StatusSignal(status, session, parent) == Signal(status, FALSE, NoTool, session, parent)
ActivitySignal(tool, session, parent) == Signal(NilStatus, TRUE, tool, session, parent)

-----------------------------------------------------------------------------
(* Claude *)

ClaudeDropped ==
  {"InstructionsLoaded", "ConfigChange", "CwdChanged", "FileChanged", "WorktreeCreate",
   "WorktreeRemove", "PreCompact", "PostCompact", "TaskCreated", "TaskCompleted", "TeammateIdle"}

ClaudeInstalled ==
  {"SessionStart", "SessionEnd", "UserPromptSubmit", "PreToolUse", "PostToolUse",
   "PostToolUseFailure", "Stop", "StopFailure", "Notification", "PermissionRequest",
   "PermissionDenied", "SubagentStart", "SubagentStop", "Elicitation", "ElicitationResult"}

ClaudeEvents == ClaudeDropped \cup ClaudeInstalled \cup {"unknown"}

Notifications == {"permission_prompt", "elicitation_dialog", "idle_prompt", "auth_success", "unknown"}

ClaudePayloads ==
  [event : ClaudeEvents, session_id : Ids \cup {NoId}, agent_id : Ids \cup {NoId},
   tool_name : Tools \cup {NoTool}, notification_type : Notifications]

\* The events that mean a status.
ClaudeStatus ==
  [SessionStart |-> "starting", SubagentStart |-> "starting",
   Stop |-> "idle", SubagentStop |-> "idle",
   StopFailure |-> "error", SessionEnd |-> "ended",
   PermissionRequest |-> "awaiting_input", Elicitation |-> "awaiting_input"]

ClaudeToolEvents == {"PreToolUse", "PostToolUse", "PostToolUseFailure", "PermissionDenied"}

\* Bug: the subagent's hooks count for the session around it.
ClaudeSessionBug(p) == p.session_id
\* agent_id is on every hook fired inside a subagent, and identifies it.
ClaudeSession(p) == IF p.agent_id # NoId THEN p.agent_id ELSE p.session_id
\* Bug: only the hook that starts a subagent tells its parent.
ClaudeParentBug(p) == IF p.event = "SubagentStart" THEN p.session_id ELSE NoId
ClaudeParent(p) == IF p.agent_id # NoId THEN p.session_id ELSE NoId

MapClaude(p) ==
  LET session == ClaudeSession(p)
      parent == ClaudeParent(p)
  IN CASE p.event \in DOMAIN ClaudeStatus ->
            StatusSignal(ClaudeStatus[p.event], session, parent)
       [] p.event = "Notification"
            /\ p.notification_type \in {"permission_prompt", "elicitation_dialog"} ->
            StatusSignal("awaiting_input", session, parent)
       [] p.event \in ClaudeToolEvents -> ActivitySignal(p.tool_name, session, parent)
       [] p.event \in {"UserPromptSubmit", "ElicitationResult"} ->
            ActivitySignal(NoTool, session, parent)
       [] OTHER -> Drop

-----------------------------------------------------------------------------
(* Codex *)

CodexInstalled == {"SessionStart", "UserPromptSubmit", "PreToolUse", "PostToolUse", "Stop"}

CodexPayloads ==
  [event : CodexInstalled \cup {"unknown"}, session_id : Ids \cup {NoId},
   tool_name : Tools \cup {NoTool}]

CodexStatus == [SessionStart |-> "starting", Stop |-> "idle"]

MapCodex(p) ==
  CASE p.event \in DOMAIN CodexStatus -> StatusSignal(CodexStatus[p.event], p.session_id, NoId)
    [] p.event = "UserPromptSubmit" -> ActivitySignal(NoTool, p.session_id, NoId)
    [] p.event \in {"PreToolUse", "PostToolUse"} -> ActivitySignal(p.tool_name, p.session_id, NoId)
    [] OTHER -> Drop

-----------------------------------------------------------------------------
(* OpenCode.  sessionID, parentID and tool are those of the inner properties. *)

OpenCodeStatus ==
  [created |-> "starting", idle |-> "idle", asked |-> "awaiting_input", error |-> "error"]

\* session.created, session.idle, permission.asked, session.error, session.status,
\* tool.execute.before and .after, and an event of the ignored ones or an unknown one.
OpenCodeEvents == DOMAIN OpenCodeStatus \cup {"status", "before", "after", "unknown"}

OpenCodePayloads ==
  [event : OpenCodeEvents, session_id : Ids \cup {NoId}, sessionID : Ids \cup {NoId},
   parent_session_id : Ids \cup {NoId}, parentID : Ids \cup {NoId}, tool : Tools \cup {NoTool}]

FirstOf(id1, id2) == IF id1 # NoId THEN id1 ELSE id2

OpenCodeSession(p) == FirstOf(p.session_id, p.sessionID)

OpenCodeParent(p) == FirstOf(p.parent_session_id, p.parentID)

\* Only session.created tells the parent.
MapOpenCode(p) ==
  CASE p.event \in DOMAIN OpenCodeStatus ->
         StatusSignal(OpenCodeStatus[p.event], OpenCodeSession(p),
                      IF p.event = "created" THEN OpenCodeParent(p) ELSE NoId)
    [] p.event = "status" -> ActivitySignal(NoTool, OpenCodeSession(p), NoId)
    [] p.event \in {"before", "after"} -> ActivitySignal(p.tool, OpenCodeSession(p), NoId)
    [] OTHER -> Drop
=============================================================================
