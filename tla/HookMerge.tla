----------------------------- MODULE HookMerge -----------------------------
(***************************************************************************)
(* The edits of a hooks file: applyInstall and applyUninstall of the       *)
(* Claude adapter (settings.json) and of the Codex adapter (hooks.json),   *)
(* which are the same code twice.                                          *)
(*                                                                         *)
(* A hooks file maps an event to a list of groups, each with a list of     *)
(* entries.  An event that is absent counts as one with an empty list, and *)
(* "hooks" that is absent or no object as one with no events: the edits    *)
(* treat them alike.                                                       *)
(***************************************************************************)
EXTENDS Integers, Sequences, FiniteSets

CONSTANTS
  Events,          \* names a hooks file may have an entry for
  InstalledEvents, \* those the adapter registers
  Markers,         \* InstallConfig.Marker of the consumers
  Endpoints,       \* InstallConfig.Endpoint; its command is determined by it
  UserCommand      \* what the user's own entries run

ASSUME HookMergeAssumption ==
  /\ InstalledEvents \subseteq Events /\ InstalledEvents # {}
  /\ UserCommand \notin Endpoints
  /\ "" \notin Markers  \* validateMarker

NoMarker == ""  \* of an entry that is no object, or has no markerField

Entries == [marker : Markers, command : Endpoints]
             \cup [marker : {NoMarker}, command : {UserCommand}]

\* A group that is no object has no entries; neither has one without "hooks".
GroupSet == [isMap : {TRUE}, inner : Seq(Entries)] \cup [isMap : {FALSE}, inner : {<<>>}]

\* What an event maps to: a list of groups, or something else.
EventValues == [list : {TRUE}, groups : Seq(GroupSet)] \cup [list : {FALSE}, groups : {<<>>}]

HookMaps == [Events -> EventValues]

NoGroups == [list |-> TRUE, groups |-> <<>>]
NoHooks == [e \in Events |-> NoGroups]

-----------------------------------------------------------------------------
\* A definition whose name ends in "Bug" is a plausible mistake in the one that
\* follows it.  Only the mutants of PROJECT.json use these.

HasEntry(group, marker) == \E i \in DOMAIN group.inner : group.inner[i].marker = marker

HealedEntry(entry, marker, endpoint) ==
  IF entry.marker = marker THEN [marker |-> marker, command |-> endpoint] ELSE entry

Healed(group, marker, endpoint) ==
  [isMap |-> group.isMap,
   inner |-> [i \in DOMAIN group.inner |-> HealedEntry(group.inner[i], marker, endpoint)]]

NewGroup(marker, endpoint) ==
  [isMap |-> TRUE, inner |-> <<[marker |-> marker, command |-> endpoint]>>]

\* Bug: it does not look for an entry that is there already.
InstallEventBug(value, marker, endpoint) ==
  [list |-> TRUE, groups |-> Append(value.groups, NewGroup(marker, endpoint))]

\* The entries with the marker get the command; if there are none, a group is added.
InstallEvent(value, marker, endpoint) ==
  [list |-> TRUE,
   groups |-> IF \E i \in DOMAIN value.groups : HasEntry(value.groups[i], marker)
              THEN [i \in DOMAIN value.groups |-> Healed(value.groups[i], marker, endpoint)]
              ELSE Append(value.groups, NewGroup(marker, endpoint))]

ApplyInstall(hooks, marker, endpoint) ==
  [e \in Events |-> IF e \in InstalledEvents THEN InstallEvent(hooks[e], marker, endpoint)
                    ELSE hooks[e]]

\* The elements of seq at the places of I, in their order.
Rank(I, i) == Cardinality({j \in I : j <= i})
Selected(seq, I) == [k \in 1 .. Cardinality(I) |-> seq[CHOOSE i \in I : Rank(I, i) = k]]

\* Bug: the entries of all consumers go.
KeptPlacesBug(inner, marker) == {i \in DOMAIN inner : inner[i].marker = NoMarker}
KeptPlaces(inner, marker) == {i \in DOMAIN inner : inner[i].marker # marker}

\* Groups without entries go, also those that had none before.
KeptGroups(groups, marker) ==
  {i \in DOMAIN groups : ~groups[i].isMap \/ KeptPlaces(groups[i].inner, marker) # {}}

Stripped(group, marker) ==
  [isMap |-> group.isMap, inner |-> Selected(group.inner, KeptPlaces(group.inner, marker))]

UninstallEvent(value, marker) ==
  [list |-> value.list,
   groups |-> Selected([i \in DOMAIN value.groups |-> Stripped(value.groups[i], marker)],
                       KeptGroups(value.groups, marker))]

\* All events, not only those an install registers.
ApplyUninstall(hooks, marker) == [e \in Events |-> UninstallEvent(hooks[e], marker)]

-----------------------------------------------------------------------------
(* What is said of a hooks file. *)

\* The places of the entries for an event: which group, and where in it.
Spots(value) == UNION {{i} \X (DOMAIN value.groups[i].inner) : i \in DOMAIN value.groups}
EntryAt(value, spot) == value.groups[spot[1]].inner[spot[2]]
Before(s, t) == s[1] < t[1] \/ (s[1] = t[1] /\ s[2] < t[2])

SpotsOf(value, marker) == {s \in Spots(value) : EntryAt(value, s).marker = marker}
SpotsOfOthers(value, marker) == Spots(value) \ SpotsOf(value, marker)

\* One entry of the consumer, and it runs the command.
HasOne(value, marker, command) ==
  \E s \in Spots(value) : SpotsOf(value, marker) = {s} /\ EntryAt(value, s).command = command

\* The entries of the others are the same ones in the same order.
SameOthers(old, new, marker) ==
  \E to \in [SpotsOfOthers(old, marker) -> SpotsOfOthers(new, marker)] :
    /\ {to[s] : s \in DOMAIN to} = SpotsOfOthers(new, marker)
    /\ \A s \in DOMAIN to : EntryAt(new, to[s]) = EntryAt(old, s)
    /\ \A s, t \in DOMAIN to : Before(s, t) => Before(to[s], to[t])
=============================================================================
