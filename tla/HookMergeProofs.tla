-------------------------- MODULE HookMergeProofs --------------------------
(***************************************************************************)
(* What the edits of a hooks file do to it, for hooks of any size: they    *)
(* yield hooks again, leave exactly the entries they should of their own   *)
(* consumer, and those of the others as they are and in their order.       *)
(***************************************************************************)
EXTENDS HookMerge, FiniteSetTheorems, SequenceTheorems, TLAPS

-----------------------------------------------------------------------------
\* Selected.

\* The ranks of the members of a finite set of places are 1 to its size, in their order.
LEMMA RankFacts ==
  ASSUME NEW n \in Nat, NEW I \in SUBSET (1 .. n)
  PROVE  /\ Cardinality(I) \in Nat
         /\ \A i \in I : Rank(I, i) \in 1 .. Cardinality(I)
         /\ \A i, j \in I : i < j => Rank(I, i) < Rank(I, j)
         /\ \A k \in 1 .. Cardinality(I) : \E i \in I : Rank(I, i) = k
<1> DEFINE UpTo(i) == {j \in I : j <= i}
           c == Cardinality(I)
<1>1. IsFiniteSet(I) /\ c \in Nat
  <2>1. IsFiniteSet(1 .. n)
    BY FS_Interval
  <2> QED
    BY <2>1, FS_Subset, FS_CardinalityType
<1>2. ASSUME NEW i \in I
      PROVE  /\ IsFiniteSet(UpTo(i)) /\ Rank(I, i) = Cardinality(UpTo(i))
             /\ Rank(I, i) \in 1 .. c /\ Rank(I, i) \in Int
  <2>1. IsFiniteSet(UpTo(i)) /\ Cardinality(UpTo(i)) <= c /\ Cardinality(UpTo(i)) \in Nat
    BY <1>1, FS_Subset, FS_CardinalityType
  <2>2. i \in UpTo(i)
    OBVIOUS
  <2>3. Cardinality(UpTo(i)) # 0
    BY <2>1, <2>2, FS_EmptySet
  <2>4. Rank(I, i) = Cardinality(UpTo(i))
    BY DEF Rank
  <2> HIDE DEF UpTo, c
  <2> QED
    BY <1>1, <2>1, <2>3, <2>4
<1>3. ASSUME NEW i \in I, NEW j \in I, i < j
      PROVE  Rank(I, i) < Rank(I, j)
  <2>1. UpTo(i) \subseteq UpTo(j) /\ j \in UpTo(j) /\ j \notin UpTo(i)
    <3>1. \A k \in I : k \in Int
      OBVIOUS
    <3>2. ~(j <= i) /\ j <= j /\ \A k \in I : k <= i => k <= j
      BY <1>3, <3>1
    <3> QED
      BY <3>2
  <2>2. UpTo(i) # UpTo(j)
    BY <2>1
  <2>3. Rank(I, i) <= Rank(I, j) /\ Rank(I, i) # Rank(I, j)
    BY <1>2, <2>1, <2>2, FS_Subset
  <2>4. \A k, l \in Int : k <= l /\ k # l => k < l
    OBVIOUS
  <2> QED
    BY <1>2, <2>3, <2>4
<1> DEFINE f == [i \in I |-> Rank(I, i)]
<1>4. f \in Injection(I, 1 .. c)
  <2>1. f \in [I -> 1 .. c]
    BY <1>2
  <2>2. \A i, j \in I : f[i] = f[j] => i = j
    <3> SUFFICES ASSUME NEW i \in I, NEW j \in I, f[i] = f[j], i # j PROVE FALSE
      OBVIOUS
    <3>1. i < j \/ j < i
      OBVIOUS
    <3>2. f[i] \in Int /\ f[j] \in Int
      BY <1>2
    <3> QED
      BY <1>3, <3>1, <3>2
  <2> HIDE DEF f
  <2> QED
    BY <2>1, <2>2 DEF Injection, IsInjective
<1>5. IsFiniteSet(1 .. c) /\ Cardinality(1 .. c) = c
  <2>1. IsFiniteSet(1 .. c) /\ Cardinality(1 .. c) = IF 1 > c THEN 0 ELSE c - 1 + 1
    <3> HIDE DEF c
    <3>1. 1 \in Int /\ c \in Int
      BY <1>1
    <3> QED
      BY <3>1, FS_Interval
  <2>2. (IF 1 > c THEN 0 ELSE c - 1 + 1) = c
    BY <1>1
  <2> QED
    BY <2>1, <2>2
<1>6. f \in Surjection(I, 1 .. c)
  BY <1>4, <1>5, FS_Injection
<1>7. \A k \in 1 .. c : \E i \in I : f[i] = k
  BY <1>6 DEF Surjection
<1> QED
  BY <1>1, <1>2, <1>3, <1>7

\* What is selected, and where it goes.
LEMMA SelectedFacts ==
  ASSUME NEW S, NEW seq \in Seq(S), NEW I \in SUBSET (DOMAIN seq)
  PROVE  /\ Selected(seq, I) \in Seq(S)
         /\ DOMAIN Selected(seq, I) = 1 .. Cardinality(I)
         /\ Cardinality(I) \in Nat
         /\ \A i \in I : Rank(I, i) \in DOMAIN Selected(seq, I) /\ Selected(seq, I)[Rank(I, i)] = seq[i]
         /\ \A k \in DOMAIN Selected(seq, I) : \E i \in I : Rank(I, i) = k
         /\ \A i, j \in I : i < j => Rank(I, i) < Rank(I, j)
<1> DEFINE n == Len(seq)
           c == Cardinality(I)
           at(k) == CHOOSE i \in I : Rank(I, i) = k
<1>1. n \in Nat /\ DOMAIN seq = 1 .. n /\ \A i \in 1 .. n : seq[i] \in S
  BY LenProperties
<1>2. /\ c \in Nat
      /\ \A i \in I : Rank(I, i) \in 1 .. c
      /\ \A i, j \in I : i < j => Rank(I, i) < Rank(I, j)
      /\ \A k \in 1 .. c : \E i \in I : Rank(I, i) = k
  BY <1>1, RankFacts
<1>3. \A k \in 1 .. c : at(k) \in I /\ Rank(I, at(k)) = k
  BY <1>2
<1>4. \A i \in I : at(Rank(I, i)) = i
  <2> SUFFICES ASSUME NEW i \in I PROVE at(Rank(I, i)) = i
    OBVIOUS
  <2>1. at(Rank(I, i)) \in I /\ Rank(I, at(Rank(I, i))) = Rank(I, i)
    BY <1>2, <1>3
  <2> DEFINE j == at(Rank(I, i))
  <2>2. j \in I /\ Rank(I, j) = Rank(I, i) /\ j \in Int /\ i \in Int
    BY <1>1, <2>1
  <2> HIDE DEF j
  <2>3. ~(i < j) /\ ~(j < i)
    BY <1>2, <2>2
  <2>4. j = i
    BY <2>2, <2>3
  <2> QED
    BY <2>4 DEF j
<1>5. Selected(seq, I) = [k \in 1 .. c |-> seq[at(k)]]
  BY DEF Selected
<1>6. \A k \in 1 .. c : seq[at(k)] \in S
  BY <1>1, <1>3
<1> HIDE DEF at, c
<1>7. Selected(seq, I) \in Seq(S) /\ DOMAIN Selected(seq, I) = 1 .. c
  BY <1>2, <1>5, <1>6, SeqDef
<1>8. \A i \in I : Selected(seq, I)[Rank(I, i)] = seq[i]
  BY <1>2, <1>4, <1>5
<1> QED
  BY <1>2, <1>7, <1>8 DEF c

-----------------------------------------------------------------------------
\* The edits yield hooks.

\* A sequence without places is the empty one.
LEMMA NoPlaces ==
  ASSUME NEW S, NEW seq \in Seq(S), DOMAIN seq = {}
  PROVE  seq = <<>>
<1>1. Len(seq) \in Nat /\ DOMAIN seq = 1 .. Len(seq)
  BY LenProperties
<1>2. Len(seq) \notin Nat \ {0}
  BY <1>1
<1> QED
  BY <1>2, EmptySeq

\* What a group is made of, and what makes a group.
LEMMA GroupParts ==
  ASSUME NEW group \in GroupSet
  PROVE  /\ group.isMap \in BOOLEAN /\ group.inner \in Seq(Entries)
         /\ ~group.isMap => group.inner = <<>>
         /\ DOMAIN group.inner = 1 .. Len(group.inner) /\ Len(group.inner) \in Nat
         /\ \A k \in DOMAIN group.inner : group.inner[k] \in Entries
<1>1. group.isMap \in BOOLEAN /\ group.inner \in Seq(Entries) /\ (~group.isMap => group.inner = <<>>)
  BY EmptySeq DEF GroupSet
<1> QED
  BY <1>1, LenProperties

\* A group is made of entries.
LEMMA AGroup ==
  ASSUME NEW b \in BOOLEAN, NEW seq \in Seq(Entries), ~b => seq = <<>>
  PROVE  [isMap |-> b, inner |-> seq] \in GroupSet
<1>1. CASE b = TRUE
  BY <1>1 DEF GroupSet
<1>2. CASE b = FALSE
  BY <1>2 DEF GroupSet
<1> QED
  BY <1>1, <1>2

\* The same for what an event maps to.
LEMMA ValueParts ==
  ASSUME NEW value \in EventValues
  PROVE  /\ value.list \in BOOLEAN /\ value.groups \in Seq(GroupSet)
         /\ ~value.list => value.groups = <<>>
         /\ DOMAIN value.groups = 1 .. Len(value.groups) /\ Len(value.groups) \in Nat
         /\ \A i \in DOMAIN value.groups : value.groups[i] \in GroupSet
<1>1. value.list \in BOOLEAN /\ value.groups \in Seq(GroupSet) /\ (~value.list => value.groups = <<>>)
  BY EmptySeq DEF EventValues
<1> QED
  BY <1>1, LenProperties

\* What an event maps to is made of groups.
LEMMA AValue ==
  ASSUME NEW b \in BOOLEAN, NEW seq \in Seq(GroupSet), ~b => seq = <<>>
  PROVE  [list |-> b, groups |-> seq] \in EventValues
<1>1. CASE b = TRUE
  BY <1>1 DEF EventValues
<1>2. CASE b = FALSE
  BY <1>2 DEF EventValues
<1> QED
  BY <1>1, <1>2

\* An entry is the user's or a consumer's.
LEMMA EntryParts ==
  ASSUME NEW entry \in Entries
  PROVE  entry.marker \in Markers \cup {NoMarker} /\ NoMarker \notin Markers
  BY HookMergeAssumption DEF Entries, NoMarker

\* A healed group is a group ...
LEMMA HealedType ==
  ASSUME NEW group \in GroupSet, NEW m \in Markers, NEW c \in Endpoints
  PROVE  Healed(group, m, c) \in GroupSet
<1> DEFINE new == [i \in DOMAIN group.inner |-> HealedEntry(group.inner[i], m, c)]
<1>1. \A i \in DOMAIN group.inner : HealedEntry(group.inner[i], m, c) \in Entries
  <2> SUFFICES ASSUME NEW i \in DOMAIN group.inner PROVE HealedEntry(group.inner[i], m, c) \in Entries
    OBVIOUS
  <2>1. group.inner[i] \in Entries /\ [marker |-> m, command |-> c] \in Entries
    BY GroupParts DEF Entries
  <2> QED
    BY <2>1 DEF HealedEntry
<1>2. new \in Seq(Entries) /\ DOMAIN new = DOMAIN group.inner
  BY <1>1, GroupParts, SeqDef
<1>3. ~group.isMap => new = <<>>
  <2> SUFFICES ASSUME ~group.isMap PROVE new = <<>>
    OBVIOUS
  <2>1. DOMAIN group.inner = {}
    BY GroupParts, EmptySeq
  <2> HIDE DEF new
  <2> QED
    BY <1>2, <2>1, NoPlaces
<1> HIDE DEF new
<1>4. [isMap |-> group.isMap, inner |-> new] \in GroupSet
  BY <1>2, <1>3, AGroup, GroupParts
<1> QED
  BY <1>4 DEF Healed, new

\* ... and so is a new one.
LEMMA NewGroupType ==
  ASSUME NEW m \in Markers, NEW c \in Endpoints
  PROVE  NewGroup(m, c) \in GroupSet
<1>1. [marker |-> m, command |-> c] \in Entries
  BY DEF Entries
<1>2. <<[marker |-> m, command |-> c]>> \in Seq(Entries)
  BY <1>1
<1> QED
  BY <1>2, AGroup DEF NewGroup

\* The install of an event makes hooks of hooks.
LEMMA InstallEventType ==
  ASSUME NEW value \in EventValues, NEW m \in Markers, NEW c \in Endpoints
  PROVE  InstallEvent(value, m, c) \in EventValues
<1> DEFINE healed == [i \in DOMAIN value.groups |-> Healed(value.groups[i], m, c)]
           added == Append(value.groups, NewGroup(m, c))
<1>1. healed \in Seq(GroupSet)
  BY ValueParts, HealedType, SeqDef
<1>2. added \in Seq(GroupSet)
  BY ValueParts, NewGroupType, AppendProperties
<1> HIDE DEF healed, added
<1>3. [list |-> TRUE, groups |-> healed] \in EventValues /\ [list |-> TRUE, groups |-> added] \in EventValues
  BY <1>1, <1>2, AValue
<1> QED
  BY <1>3 DEF InstallEvent, healed, added

\* An install yields hooks ...
LEMMA InstallType ==
  ASSUME NEW hooks \in HookMaps, NEW m \in Markers, NEW c \in Endpoints
  PROVE  ApplyInstall(hooks, m, c) \in HookMaps
  BY InstallEventType DEF ApplyInstall, HookMaps

\* A group stripped of some entries is a group.
LEMMA StrippedType ==
  ASSUME NEW group \in GroupSet, NEW m
  PROVE  Stripped(group, m) \in GroupSet
<1> DEFINE I == KeptPlaces(group.inner, m)
           new == Selected(group.inner, I)
<1>1. I \subseteq DOMAIN group.inner
  BY DEF KeptPlaces
<1>2. new \in Seq(Entries) /\ \A k \in DOMAIN new : \E i \in I : Rank(I, i) = k
  BY <1>1, GroupParts, SelectedFacts
<1>3. ~group.isMap => new = <<>>
  <2> SUFFICES ASSUME ~group.isMap PROVE new = <<>>
    OBVIOUS
  <2>1. DOMAIN group.inner = {}
    BY GroupParts, EmptySeq
  <2> HIDE DEF new, I
  <2>2. DOMAIN new = {}
    BY <1>1, <1>2, <2>1
  <2> QED
    BY <1>2, <2>2, NoPlaces
<1> HIDE DEF new
<1>4. [isMap |-> group.isMap, inner |-> new] \in GroupSet
  BY <1>2, <1>3, AGroup, GroupParts
<1> QED
  BY <1>4 DEF Stripped, new

\* The uninstall of an event makes hooks of hooks.
LEMMA UninstallEventType ==
  ASSUME NEW value \in EventValues, NEW m
  PROVE  UninstallEvent(value, m) \in EventValues
<1> DEFINE all == [i \in DOMAIN value.groups |-> Stripped(value.groups[i], m)]
           I == KeptGroups(value.groups, m)
           new == Selected(all, I)
<1>1. all \in Seq(GroupSet) /\ DOMAIN all = DOMAIN value.groups
  BY ValueParts, StrippedType, SeqDef
<1>2. I \subseteq DOMAIN all
  BY DEF KeptGroups
<1> HIDE DEF all, I
<1>3. new \in Seq(GroupSet) /\ \A k \in DOMAIN new : \E i \in I : Rank(I, i) = k
  BY <1>1, <1>2, SelectedFacts
<1>4. ~value.list => new = <<>>
  <2> SUFFICES ASSUME ~value.list PROVE new = <<>>
    OBVIOUS
  <2>1. DOMAIN all = {}
    BY <1>1, ValueParts, EmptySeq
  <2> HIDE DEF new
  <2>2. DOMAIN new = {}
    BY <1>2, <1>3, <2>1
  <2> QED
    BY <1>3, <2>2, NoPlaces
<1> HIDE DEF new
<1>5. [list |-> value.list, groups |-> new] \in EventValues
  BY <1>3, <1>4, AValue, ValueParts
<1> QED
  BY <1>5 DEF UninstallEvent, new, all, I

\* ... and so does an uninstall.
LEMMA UninstallType ==
  ASSUME NEW hooks \in HookMaps, NEW m
  PROVE  ApplyUninstall(hooks, m) \in HookMaps
  BY UninstallEventType DEF ApplyUninstall, HookMaps

-----------------------------------------------------------------------------
\* What an install does to the entries.

\* A spot is a place of a group and a place in it.
LEMMA SpotParts ==
  ASSUME NEW value, NEW s \in Spots(value)
  PROVE  /\ s = <<s[1], s[2]>>
         /\ s[1] \in DOMAIN value.groups /\ s[2] \in DOMAIN value.groups[s[1]].inner
  BY DEF Spots

\* A place of a group and a place in it are a spot.
LEMMA ASpot ==
  ASSUME NEW value, NEW i \in DOMAIN value.groups, NEW k \in DOMAIN value.groups[i].inner
  PROVE  <<i, k>> \in Spots(value) /\ EntryAt(value, <<i, k>>) = value.groups[i].inner[k]
  BY DEF Spots, EntryAt

\* Two values with spots at the same places.
LEMMA SameSpots ==
  ASSUME NEW old, NEW new, DOMAIN old.groups = DOMAIN new.groups,
         \A i \in DOMAIN old.groups : DOMAIN old.groups[i].inner = DOMAIN new.groups[i].inner
  PROVE  Spots(old) = Spots(new)
<1>1. ASSUME NEW s \in Spots(old) PROVE s \in Spots(new)
  BY SpotParts, ASpot
<1>2. ASSUME NEW s \in Spots(new) PROVE s \in Spots(old)
  BY SpotParts, ASpot
<1> QED
  BY <1>1, <1>2

\* A group with one entry behind the others adds one spot.
LEMMA AppendedGroup ==
  ASSUME NEW value \in EventValues, NEW group \in GroupSet, NEW entry, group.inner = <<entry>>,
         NEW new, new.groups = Append(value.groups, group)
  PROVE  \E t : /\ Spots(new) = Spots(value) \cup {t} /\ t \notin Spots(value)
                /\ \A s \in Spots(value) : EntryAt(new, s) = EntryAt(value, s)
                /\ EntryAt(new, t) = entry
<1> DEFINE n == Len(value.groups)
           t == <<n + 1, 1>>
<1>1. /\ n \in Nat /\ DOMAIN value.groups = 1 .. n /\ DOMAIN new.groups = 1 .. n + 1
      /\ \A i \in 1 .. n : new.groups[i] = value.groups[i]
      /\ new.groups[n + 1] = group
  <2>1. value.groups \in Seq(GroupSet) /\ group \in GroupSet
    BY ValueParts
  <2>2. new.groups \in Seq(GroupSet) /\ Len(new.groups) = n + 1
        /\ (\A i \in 1 .. n : new.groups[i] = value.groups[i])
        /\ new.groups[n + 1] = group
    BY <2>1, AppendProperties
  <2> QED
    BY <2>1, <2>2, LenProperties
<1> HIDE DEF n
<1>2. \A i \in 1 .. n + 1 : i \in 1 .. n \/ i = n + 1
  BY <1>1
<1>3. n + 1 \in 1 .. n + 1 /\ n + 1 \notin 1 .. n /\ \A i \in 1 .. n : i \in 1 .. n + 1
  BY <1>1
<1>4. /\ DOMAIN new.groups[n + 1].inner = {1}
      /\ new.groups[n + 1].inner[1] = entry
  BY <1>1
<1>5. Spots(new) = Spots(value) \cup {t} /\ t \notin Spots(value)
  <2>1. \A s \in Spots(new) : s \in Spots(value) \/ s = t
    <3> SUFFICES ASSUME NEW s \in Spots(new) PROVE s \in Spots(value) \/ s = t
      OBVIOUS
    <3>1. s = <<s[1], s[2]>> /\ s[1] \in 1 .. n + 1 /\ s[2] \in DOMAIN new.groups[s[1]].inner
      BY <1>1, SpotParts
    <3>2. CASE s[1] \in 1 .. n
      BY <1>1, <3>1, <3>2, ASpot
    <3>3. CASE s[1] = n + 1
      BY <1>4, <3>1, <3>3
    <3> QED
      BY <1>2, <3>1, <3>2, <3>3
  <2>2. \A s \in Spots(value) : s \in Spots(new)
    <3> SUFFICES ASSUME NEW s \in Spots(value) PROVE s \in Spots(new)
      OBVIOUS
    <3>1. s = <<s[1], s[2]>> /\ s[1] \in 1 .. n /\ s[2] \in DOMAIN value.groups[s[1]].inner
      BY <1>1, SpotParts
    <3> QED
      BY <1>1, <1>3, <3>1, ASpot
  <2>3. t \in Spots(new)
    BY <1>1, <1>3, <1>4, ASpot
  <2>4. t \notin Spots(value)
    BY <1>1, <1>3, SpotParts
  <2> QED
    BY <2>1, <2>2, <2>3, <2>4
<1>6. \A s \in Spots(value) : EntryAt(new, s) = EntryAt(value, s)
  BY <1>1, SpotParts DEF EntryAt
<1>7. EntryAt(new, t) = entry
  BY <1>4 DEF EntryAt
<1> QED
  BY <1>5, <1>6, <1>7

\* The entries of the others stay where they are; so do the consumer's, with the new
\* command; and where it had none there is one.
LEMMA InstallEffect ==
  ASSUME NEW value \in EventValues, NEW m \in Markers, NEW c \in Endpoints,
         NEW new, new = InstallEvent(value, m, c)
  PROVE  /\ SpotsOfOthers(new, m) = SpotsOfOthers(value, m)
         /\ \A s \in SpotsOfOthers(value, m) : EntryAt(new, s) = EntryAt(value, s)
         /\ SpotsOf(value, m) # {} =>
              /\ SpotsOf(new, m) = SpotsOf(value, m)
              /\ \A s \in SpotsOf(value, m) : EntryAt(new, s).command = c
         /\ SpotsOf(value, m) = {} => HasOne(new, m, c)
<1> DEFINE found == \E i \in DOMAIN value.groups : HasEntry(value.groups[i], m)
<1>1. found <=> SpotsOf(value, m) # {}
  <2>1. ASSUME NEW i \in DOMAIN value.groups, HasEntry(value.groups[i], m)
        PROVE  SpotsOf(value, m) # {}
    <3>1. PICK k \in DOMAIN value.groups[i].inner : value.groups[i].inner[k].marker = m
      BY <2>1 DEF HasEntry
    <3>2. <<i, k>> \in Spots(value) /\ EntryAt(value, <<i, k>>).marker = m
      BY <3>1, ASpot
    <3> QED
      BY <3>2 DEF SpotsOf
  <2>2. ASSUME NEW s \in SpotsOf(value, m) PROVE found
    <3>1. s \in Spots(value) /\ EntryAt(value, s).marker = m
      BY DEF SpotsOf
    <3>2. s[1] \in DOMAIN value.groups /\ s[2] \in DOMAIN value.groups[s[1]].inner
      BY <3>1, SpotParts
    <3> QED
      BY <3>1, <3>2 DEF EntryAt, HasEntry
  <2> QED
    BY <2>1, <2>2
<1>2. CASE found
  <2>1. new.groups = [i \in DOMAIN value.groups |-> Healed(value.groups[i], m, c)]
    BY <1>2 DEF InstallEvent
  <2>2. \A i \in DOMAIN value.groups :
          new.groups[i].inner =
            [k \in DOMAIN value.groups[i].inner |-> HealedEntry(value.groups[i].inner[k], m, c)]
    BY <2>1 DEF Healed
  <2>3. Spots(new) = Spots(value)
    <3>1. DOMAIN new.groups = DOMAIN value.groups
      BY <2>1
    <3>2. \A i \in DOMAIN value.groups : DOMAIN new.groups[i].inner = DOMAIN value.groups[i].inner
      BY <2>2
    <3> QED
      BY <3>1, <3>2, SameSpots
  <2>4. \A s \in Spots(value) : EntryAt(new, s) = HealedEntry(EntryAt(value, s), m, c)
    <3> SUFFICES ASSUME NEW s \in Spots(value)
                 PROVE  EntryAt(new, s) = HealedEntry(EntryAt(value, s), m, c)
      OBVIOUS
    <3>1. s[1] \in DOMAIN value.groups /\ s[2] \in DOMAIN value.groups[s[1]].inner
      BY SpotParts
    <3>2. new.groups[s[1]].inner[s[2]] = HealedEntry(value.groups[s[1]].inner[s[2]], m, c)
      BY <2>2, <3>1
    <3> QED
      BY <3>2 DEF EntryAt
  <2>5. \A s \in Spots(value) : EntryAt(new, s).marker = EntryAt(value, s).marker
    BY <2>4 DEF HealedEntry
  <2>6. SpotsOf(new, m) = SpotsOf(value, m) /\ SpotsOfOthers(new, m) = SpotsOfOthers(value, m)
    BY <2>3, <2>5 DEF SpotsOf, SpotsOfOthers
  <2>7. \A s \in SpotsOf(value, m) : EntryAt(new, s).command = c
    BY <2>4 DEF SpotsOf, HealedEntry
  <2>8. \A s \in SpotsOfOthers(value, m) : EntryAt(new, s) = EntryAt(value, s)
    BY <2>4 DEF SpotsOf, SpotsOfOthers, HealedEntry
  <2> QED
    BY <1>1, <1>2, <2>6, <2>7, <2>8
<1>3. CASE ~found
  <2>1. new.groups = Append(value.groups, NewGroup(m, c))
    BY <1>3 DEF InstallEvent
  <2>2. NewGroup(m, c) \in GroupSet /\ NewGroup(m, c).inner = <<[marker |-> m, command |-> c]>>
    BY NewGroupType DEF NewGroup
  <2>3. PICK t : /\ Spots(new) = Spots(value) \cup {t} /\ t \notin Spots(value)
                 /\ \A s \in Spots(value) : EntryAt(new, s) = EntryAt(value, s)
                 /\ EntryAt(new, t) = [marker |-> m, command |-> c]
    BY <2>1, <2>2, AppendedGroup
  <2>4. Spots(new) = Spots(value) \cup {t} /\ t \notin Spots(value)
    BY <2>3
  <2>5. \A s \in Spots(value) : EntryAt(new, s) = EntryAt(value, s)
    BY <2>3
  <2>6. EntryAt(new, t).marker = m /\ EntryAt(new, t).command = c
    BY <2>3
  <2>7. SpotsOf(new, m) = {t} /\ SpotsOfOthers(new, m) = SpotsOfOthers(value, m)
    BY <1>1, <1>3, <2>4, <2>5, <2>6 DEF SpotsOf, SpotsOfOthers
  <2>8. HasOne(new, m, c)
    BY <2>4, <2>6, <2>7 DEF HasOne
  <2>9. \A s \in SpotsOfOthers(value, m) : EntryAt(new, s) = EntryAt(value, s)
    BY <2>5 DEF SpotsOfOthers
  <2> QED
    BY <1>1, <1>3, <2>7, <2>8, <2>9
<1> QED
  BY <1>2, <1>3

\* If a consumer had one entry at the most, it has one after an install.
LEMMA InstalledOnce ==
  ASSUME NEW value \in EventValues, NEW m \in Markers, NEW c \in Endpoints,
         SpotsOf(value, m) = {} \/ \E old : HasOne(value, m, old)
  PROVE  HasOne(InstallEvent(value, m, c), m, c)
<1> DEFINE new == InstallEvent(value, m, c)
<1>1. CASE SpotsOf(value, m) = {}
  BY <1>1, InstallEffect
<1>2. ASSUME NEW old, HasOne(value, m, old) PROVE HasOne(new, m, c)
  <2>1. PICK s \in Spots(value) : SpotsOf(value, m) = {s}
    BY <1>2 DEF HasOne
  <2>2. SpotsOf(new, m) = {s} /\ EntryAt(new, s).command = c
    BY <2>1, InstallEffect
  <2>3. s \in Spots(new)
    BY <2>2 DEF SpotsOf
  <2> QED
    BY <2>2, <2>3 DEF HasOne
<1> QED
  BY <1>1, <1>2

\* The entries of the others stay, in their order.
LEMMA InstallKeepsOrder ==
  ASSUME NEW value \in EventValues, NEW m \in Markers, NEW c \in Endpoints
  PROVE  SameOthers(value, InstallEvent(value, m, c), m)
<1> DEFINE new == InstallEvent(value, m, c)
           to == [s \in SpotsOfOthers(value, m) |-> s]
<1>1. /\ SpotsOfOthers(new, m) = SpotsOfOthers(value, m)
      /\ \A s \in SpotsOfOthers(value, m) : EntryAt(new, s) = EntryAt(value, s)
  BY InstallEffect
<1> HIDE DEF new
<1>2. /\ to \in [SpotsOfOthers(value, m) -> SpotsOfOthers(new, m)]
      /\ DOMAIN to = SpotsOfOthers(value, m) /\ \A s \in DOMAIN to : to[s] = s
  BY <1>1
<1> HIDE DEF to
<1>3. {to[s] : s \in DOMAIN to} = SpotsOfOthers(new, m)
  BY <1>1, <1>2
<1>4. /\ \A s \in DOMAIN to : EntryAt(new, to[s]) = EntryAt(value, s)
      /\ \A s, t \in DOMAIN to : Before(s, t) => Before(to[s], to[t])
  BY <1>1, <1>2
<1> QED
  BY <1>2, <1>3, <1>4 DEF SameOthers, new

-----------------------------------------------------------------------------
\* What an uninstall does to the entries.

\* Where the groups and the entries that are kept go.
LEMMA UninstallPlaces ==
  ASSUME NEW value \in EventValues, NEW m, NEW new, new = UninstallEvent(value, m),
         NEW G, G = KeptGroups(value.groups, m)
  PROVE  /\ \A i \in G : i \in DOMAIN value.groups /\ Rank(G, i) \in DOMAIN new.groups
                         /\ new.groups[Rank(G, i)] = Stripped(value.groups[i], m)
         /\ \A k \in DOMAIN new.groups : \E i \in G : Rank(G, i) = k
         /\ \A i, j \in G : i < j => Rank(G, i) < Rank(G, j)
<1> DEFINE all == [i \in DOMAIN value.groups |-> Stripped(value.groups[i], m)]
<1>1. all \in Seq(GroupSet) /\ DOMAIN all = DOMAIN value.groups
      /\ \A i \in DOMAIN value.groups : all[i] = Stripped(value.groups[i], m)
  BY ValueParts, StrippedType, SeqDef
<1>2. new.groups = Selected(all, G) /\ G \subseteq DOMAIN value.groups
  BY DEF UninstallEvent, KeptGroups
<1> HIDE DEF all
<1>3. /\ \A i \in G : Rank(G, i) \in DOMAIN new.groups /\ new.groups[Rank(G, i)] = all[i]
      /\ \A k \in DOMAIN new.groups : \E i \in G : Rank(G, i) = k
      /\ \A i, j \in G : i < j => Rank(G, i) < Rank(G, j)
  BY <1>1, <1>2, SelectedFacts
<1> QED
  BY <1>1, <1>2, <1>3

\* Where the entries that are kept go within their group.
LEMMA StrippedPlaces ==
  ASSUME NEW group \in GroupSet, NEW m, NEW new, new = Stripped(group, m),
         NEW K, K = KeptPlaces(group.inner, m)
  PROVE  /\ \A k \in K : k \in DOMAIN group.inner /\ Rank(K, k) \in DOMAIN new.inner
                         /\ new.inner[Rank(K, k)] = group.inner[k]
         /\ \A l \in DOMAIN new.inner : \E k \in K : Rank(K, k) = l
         /\ \A k, l \in K : k < l => Rank(K, k) < Rank(K, l)
<1>1. new.inner = Selected(group.inner, K) /\ K \subseteq DOMAIN group.inner
  BY DEF Stripped, KeptPlaces
<1> QED
  BY <1>1, GroupParts, SelectedFacts

\* The consumer's entries go, the others stay in their order.
LEMMA UninstallEffect ==
  ASSUME NEW value \in EventValues, NEW m, NEW new, new = UninstallEvent(value, m)
  PROVE  SpotsOf(new, m) = {} /\ SameOthers(value, new, m)
<1> DEFINE G == KeptGroups(value.groups, m)
           K(i) == KeptPlaces(value.groups[i].inner, m)
           others == SpotsOfOthers(value, m)
           target(s) == <<Rank(G, s[1]), Rank(K(s[1]), s[2])>>
           to == [s \in others |-> target(s)]
\* Another's entry is kept, and so is its group.
<1>1. ASSUME NEW s \in others
      PROVE  /\ s = <<s[1], s[2]>> /\ s[1] \in G /\ s[2] \in K(s[1])
             /\ EntryAt(value, s).marker # m
  <2>1. s \in Spots(value) /\ EntryAt(value, s).marker # m
    BY DEF SpotsOfOthers, SpotsOf
  <2>2. s = <<s[1], s[2]>> /\ s[1] \in DOMAIN value.groups /\ s[2] \in DOMAIN value.groups[s[1]].inner
    BY <2>1, SpotParts
  <2>3. s[2] \in K(s[1])
    BY <2>1, <2>2 DEF KeptPlaces, EntryAt
  <2>4. s[1] \in G
    BY <2>2, <2>3 DEF KeptGroups
  <2> QED
    BY <2>1, <2>2, <2>3, <2>4
<1>2. ASSUME NEW i \in G, NEW k \in K(i)
      PROVE  <<i, k>> \in others
  <2>1. i \in DOMAIN value.groups /\ k \in DOMAIN value.groups[i].inner
        /\ value.groups[i].inner[k].marker # m
    BY DEF KeptGroups, KeptPlaces
  <2>2. <<i, k>> \in Spots(value) /\ EntryAt(value, <<i, k>>).marker # m
    BY <2>1, ASpot
  <2> QED
    BY <2>2 DEF SpotsOfOthers, SpotsOf
\* Where they go.
<1>3. ASSUME NEW s \in others
      PROVE  target(s) \in Spots(new) /\ EntryAt(new, target(s)) = EntryAt(value, s)
  <2> DEFINE i == s[1]
             k == s[2]
  <2>1. i \in G /\ k \in K(i) /\ EntryAt(value, s) = value.groups[i].inner[k]
    BY <1>1 DEF EntryAt
  <2> HIDE DEF G
  <2>2. /\ i \in DOMAIN value.groups /\ Rank(G, i) \in DOMAIN new.groups
        /\ new.groups[Rank(G, i)] = Stripped(value.groups[i], m)
    BY <2>1, UninstallPlaces DEF G
  <2>3. value.groups[i] \in GroupSet
    BY <2>2, ValueParts
  <2>4. /\ Rank(K(i), k) \in DOMAIN Stripped(value.groups[i], m).inner
        /\ Stripped(value.groups[i], m).inner[Rank(K(i), k)] = value.groups[i].inner[k]
    BY <2>1, <2>3, StrippedPlaces
  <2> QED
    BY <2>1, <2>2, <2>4, ASpot
<1>4. ASSUME NEW t \in Spots(new) PROVE \E s \in others : target(s) = t
  <2>1. t = <<t[1], t[2]>> /\ t[1] \in DOMAIN new.groups /\ t[2] \in DOMAIN new.groups[t[1]].inner
    BY SpotParts
  <2>2. PICK i \in G : Rank(G, i) = t[1]
    BY <2>1, UninstallPlaces
  <2>3. i \in DOMAIN value.groups /\ new.groups[t[1]] = Stripped(value.groups[i], m)
    BY <2>2, UninstallPlaces
  <2>4. value.groups[i] \in GroupSet
    BY <2>3, ValueParts
  <2>5. PICK k \in K(i) : Rank(K(i), k) = t[2]
    BY <2>1, <2>3, <2>4, StrippedPlaces
  <2>6. <<i, k>> \in others
    BY <1>2
  <2>7. target(<<i, k>>) = t
    BY <2>1, <2>2, <2>5
  <2> QED
    BY <2>6, <2>7
<1>5. SpotsOf(new, m) = {} /\ SpotsOfOthers(new, m) = Spots(new)
  <2>1. \A t \in Spots(new) : EntryAt(new, t).marker # m
    BY <1>1, <1>3, <1>4
  <2> QED
    BY <2>1 DEF SpotsOf, SpotsOfOthers
<1>6. ASSUME NEW s \in others, NEW t \in others, Before(s, t)
      PROVE  Before(target(s), target(t))
  <2>1. s[1] \in G /\ t[1] \in G /\ s[2] \in K(s[1]) /\ t[2] \in K(t[1])
    BY <1>1
  <2>2. CASE s[1] < t[1]
    <3>1. Rank(G, s[1]) < Rank(G, t[1])
      BY <2>1, <2>2, UninstallPlaces
    <3> QED
      BY <3>1 DEF Before
  <2>3. CASE s[1] = t[1] /\ s[2] < t[2]
    <3>1. value.groups[s[1]] \in GroupSet
      BY <2>1, UninstallPlaces, ValueParts
    <3>2. Rank(K(s[1]), s[2]) < Rank(K(s[1]), t[2])
      BY <2>1, <2>3, <3>1, StrippedPlaces
    <3> QED
      BY <2>3, <3>2 DEF Before
  <2> QED
    BY <1>6, <2>2, <2>3 DEF Before
<1> HIDE DEF G, K, others, target
<1>7. /\ to \in [others -> SpotsOfOthers(new, m)] /\ DOMAIN to = others
      /\ \A s \in others : to[s] = target(s)
  BY <1>3, <1>5
<1> HIDE DEF to
<1>8. {to[s] : s \in DOMAIN to} = SpotsOfOthers(new, m)
  BY <1>3, <1>4, <1>5, <1>7
<1>9. /\ \A s \in DOMAIN to : EntryAt(new, to[s]) = EntryAt(value, s)
      /\ \A s, t \in DOMAIN to : Before(s, t) => Before(to[s], to[t])
  BY <1>3, <1>6, <1>7
<1>10. SameOthers(value, new, m)
  BY <1>7, <1>8, <1>9 DEF SameOthers, others
<1> QED
  BY <1>5, <1>10

-----------------------------------------------------------------------------
\* What it means for the other consumers.

\* The commands an event runs for a consumer.
CommandsOf(value, m) == {EntryAt(value, s).command : s \in SpotsOf(value, m)}

\* Where the others are left alone, every other consumer has what it had.
LEMMA OthersSpared ==
  ASSUME NEW old, NEW new, NEW m, NEW other, SameOthers(old, new, m), other # m
  PROVE  /\ SpotsOf(old, other) = {} => SpotsOf(new, other) = {}
         /\ \A c : HasOne(old, other, c) => HasOne(new, other, c)
         /\ CommandsOf(new, other) = CommandsOf(old, other)
<1>1. PICK to \in [SpotsOfOthers(old, m) -> SpotsOfOthers(new, m)] :
        /\ {to[s] : s \in DOMAIN to} = SpotsOfOthers(new, m)
        /\ \A s \in DOMAIN to : EntryAt(new, to[s]) = EntryAt(old, s)
  BY DEF SameOthers
<1>2. DOMAIN to = SpotsOfOthers(old, m)
  OBVIOUS
<1>3. ASSUME NEW s \in SpotsOf(old, other)
      PROVE  to[s] \in SpotsOf(new, other) /\ EntryAt(new, to[s]) = EntryAt(old, s)
  <2>1. s \in SpotsOfOthers(old, m)
    BY DEF SpotsOf, SpotsOfOthers
  <2>2. to[s] \in SpotsOfOthers(new, m) /\ EntryAt(new, to[s]) = EntryAt(old, s)
    BY <1>1, <1>2, <2>1
  <2> QED
    BY <2>2 DEF SpotsOf, SpotsOfOthers
<1>4. ASSUME NEW t \in SpotsOf(new, other) PROVE \E s \in SpotsOf(old, other) : to[s] = t
  <2>1. t \in SpotsOfOthers(new, m)
    BY DEF SpotsOf, SpotsOfOthers
  <2>2. PICK s \in SpotsOfOthers(old, m) : to[s] = t
    BY <1>1, <1>2, <2>1
  <2>3. EntryAt(old, s).marker = other
    BY <1>1, <1>2, <2>2 DEF SpotsOf
  <2> QED
    BY <2>2, <2>3 DEF SpotsOf, SpotsOfOthers
<1>5. ASSUME NEW c, HasOne(old, other, c) PROVE HasOne(new, other, c)
  <2>1. PICK s \in Spots(old) : SpotsOf(old, other) = {s} /\ EntryAt(old, s).command = c
    BY <1>5 DEF HasOne
  <2>2. to[s] \in SpotsOf(new, other) /\ EntryAt(new, to[s]).command = c
    BY <1>3, <2>1
  <2>3. SpotsOf(new, other) = {to[s]}
    BY <1>4, <2>1, <2>2
  <2> QED
    BY <2>2, <2>3 DEF HasOne, SpotsOf
<1>6. CommandsOf(new, other) = CommandsOf(old, other)
  BY <1>3, <1>4 DEF CommandsOf
<1> QED
  BY <1>4, <1>5, <1>6

\* What an install or an uninstall for m makes of the entries for one event.
LEMMA InstalledValue ==
  ASSUME NEW hooks \in HookMaps, NEW m \in Markers, NEW c \in Endpoints, NEW e \in Events
  PROVE  /\ hooks[e] \in EventValues
         /\ e \in InstalledEvents => ApplyInstall(hooks, m, c)[e] = InstallEvent(hooks[e], m, c)
         /\ e \notin InstalledEvents => ApplyInstall(hooks, m, c)[e] = hooks[e]
         /\ ApplyUninstall(hooks, m)[e] = UninstallEvent(hooks[e], m)
  BY DEF HookMaps, ApplyInstall, ApplyUninstall

\* An install leaves the entries of the others as they are and in their order, for every
\* event (applyInstall of the Claude and the Codex adapters).
THEOREM InstallSparesOthers ==
  ASSUME NEW hooks \in HookMaps, NEW m \in Markers, NEW c \in Endpoints, NEW e \in Events
  PROVE  SameOthers(hooks[e], ApplyInstall(hooks, m, c)[e], m)
<1>1. ASSUME NEW value PROVE SameOthers(value, value, m)
  <2> DEFINE to == [s \in SpotsOfOthers(value, m) |-> s]
  <2>1. /\ to \in [SpotsOfOthers(value, m) -> SpotsOfOthers(value, m)]
        /\ DOMAIN to = SpotsOfOthers(value, m) /\ \A s \in DOMAIN to : to[s] = s
    OBVIOUS
  <2> HIDE DEF to
  <2>2. {to[s] : s \in DOMAIN to} = SpotsOfOthers(value, m)
    BY <2>1
  <2> QED
    BY <2>1, <2>2 DEF SameOthers
<1> QED
  BY <1>1, InstalledValue, InstallKeepsOrder

\* So does an uninstall, which leaves no entry of its own consumer (applyUninstall).
THEOREM UninstallRemovesOwn ==
  ASSUME NEW hooks \in HookMaps, NEW m \in Markers, NEW e \in Events
  PROVE  /\ SpotsOf(ApplyUninstall(hooks, m)[e], m) = {}
         /\ SameOthers(hooks[e], ApplyUninstall(hooks, m)[e], m)
<1>1. hooks[e] \in EventValues /\ ApplyUninstall(hooks, m)[e] = UninstallEvent(hooks[e], m)
  BY DEF HookMaps, ApplyUninstall
<1> QED
  BY <1>1, UninstallEffect
=============================================================================
