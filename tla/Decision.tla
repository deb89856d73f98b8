------------------------------ MODULE Decision ------------------------------
(***************************************************************************)
(* decision.go: the pure step from a session's state and a Signal to its   *)
(* next state and the Transition to emit, if any.  Also the normalisation  *)
(* the Hub applies to the Transition's tool name (agentstatus.go).         *)
(***************************************************************************)
CONSTANTS
  Tools,        \* non-empty tool names an adapter may report
  Capitalised   \* the spelling of each with its first letter in upper case

ASSUME DecisionAssumption ==
  /\ "" \notin Tools
  /\ Capitalised \in [Tools -> Tools]
  /\ \A t \in Tools : Capitalised[Capitalised[t]] = Capitalised[t]

Statuses == {"starting", "working", "idle", "awaiting_input", "error", "ended"}

\* The zero value of Status, in the state of a session never seen before.
NoStatus == ""
NoTool == ""

\* Signal.Status is a pointer; this is nil.
NilStatus == "nil"

\* What Decide reads of a Signal.
Signals == [status : Statuses \cup {NilStatus},
            activity : BOOLEAN,
            tool : Tools \cup {NoTool}]

SessionStates == [status : Statuses \cup {NoStatus}, tool : Tools \cup {NoTool}]

FreshSession == [status |-> NoStatus, tool |-> NoTool]

\* Rules 1 to 3: the signal says which status the session is in, or nothing.
HasCandidate(sig) == sig.status # NilStatus \/ sig.activity

\* Bug: takes the status pointer for granted.
CandidateBug(sig) == sig.status

Candidate(sig) == IF sig.status # NilStatus THEN sig.status ELSE "working"

\* Bug: a heartbeat clears the tool.
NewToolBug(state, sig) == sig.tool

\* Bug: a tool is kept until another one is named.
NewToolKeptBug(state, sig) == IF sig.tool # NoTool THEN sig.tool ELSE state.tool

\* An authoritative status sets the tool, also to none; mere activity sets it
\* only if it names one.
NewTool(state, sig) ==
  IF sig.status # NilStatus \/ sig.tool # NoTool THEN sig.tool ELSE state.tool

Target(state, sig) == [status |-> Candidate(sig), tool |-> NewTool(state, sig)]

\* Bug: only the status is compared.
EmitsBug(state, sig) == HasCandidate(sig) /\ Candidate(sig) # state.status

\* Rules 4 and 5: there is a Transition unless the pair is unchanged.
Emits(state, sig) == HasCandidate(sig) /\ Target(state, sig) # state

\* The state Decide returns, and the Transition it returns if it Emits.
NextState(state, sig) == IF Emits(state, sig) THEN Target(state, sig) ELSE state

\* Bug: the previous status is read after the session has been updated.
TransitionBug(state, sig) == [status |-> Candidate(sig),
                              prev |-> NextState(state, sig).status,
                              tool |-> NewTool(state, sig)]

Transition(state, sig) == [status |-> Candidate(sig),
                           prev |-> state.status,
                           tool |-> NewTool(state, sig)]

NormalizeToolName(t) == IF t = NoTool THEN t ELSE Capitalised[t]
=============================================================================
