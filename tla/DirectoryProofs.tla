-------------------------- MODULE DirectoryProofs ---------------------------
(***************************************************************************)
(* What holds of the directory service and of the client that follows it   *)
(* for every set of players and groups, every limit of participants and    *)
(* revisions, and every number of changes, polls, errors and events on     *)
(* their way: a client whose versions are the server's shows what the      *)
(* server has.                                                             *)
(*                                                                         *)
(* The invariant is about the view that the events on their way lead to    *)
(* (Comes), not the one that is shown: it follows what the refresh thread  *)
(* knows (Follows), and the revisions the server still has cover whatever  *)
(* it lacks (Covers).                                                      *)
(***************************************************************************)
EXTENDS DirectorySync, FiniteSetTheorems, WellFoundedInduction, TLAPS

(* What the window shows, and what it shows after one more event. *)
ViewNow == [member |-> viewMember, dir |-> viewDir, presVer |-> viewPresVer, pres |-> viewPres]

MembershipShown(v, m) ==
    IF m.version <= v.member.version THEN v
    ELSE IF m.group = v.member.group
    THEN [member |-> m, dir |-> v.dir, presVer |-> v.presVer, pres |-> v.pres]
    ELSE [member |-> m, dir |-> NoView, presVer |-> 0, pres |-> NoStates]

DirectoryShown(v, e) ==
    IF e.content.group = v.member.group /\ e.version > v.dir.version
    THEN [member |-> v.member, dir |-> [version |-> e.version, content |-> e.content],
          presVer |-> 0, pres |-> NoStates]
    ELSE v

MergedInto(v, a) ==
    LET base == IF a.mode = "snapshot" THEN NoStates ELSE v.pres
        listed == DOMAIN a.entries \cap DOMAIN v.dir.content.names
    IN [p \in DOMAIN base \cup listed |-> IF p \in listed THEN a.entries[p] ELSE base[p]]

PresenceShown(v, a) ==
    IF v.dir # NoView /\ a.version > v.presVer /\ (a.mode = "delta" => v.presVer # 0)
    THEN [member |-> v.member, dir |-> v.dir, presVer |-> a.version, pres |-> MergedInto(v, a)]
    ELSE v

Shown(v, e) ==
    CASE e.type = "membership" -> MembershipShown(v, e.membership)
      [] e.type = "directory" -> DirectoryShown(v, e)
      [] OTHER -> PresenceShown(v, e.answer)

(* The server. *)
PartialStates == UNION {[M -> BOOLEAN] : M \in SUBSET Members}
Revisions == [version : Nat, entries : PartialStates]

SourcesOK ==
    /\ changes \in 0..MaxChanges
    /\ contexts \in [Actors -> [version : 1..(changes + 1), group : VoiceGroups,
                                members : SUBSET Members]]
    /\ online \subseteq Members
    /\ profileVersions \in [Members -> 0..changes]
    /\ catalog \in 0..changes

PresenceOK(h) ==
    /\ h.version \in Nat
    /\ h.states \in PartialStates
    /\ h.revisions \in Seq(Revisions)
    /\ \A i \in DOMAIN h.revisions : h.revisions[i].version = (h.version - Len(h.revisions)) + i
    /\ h.version = 0 => h.revisions = <<>>
    /\ Len(h.revisions) <= h.version
    /\ \A p \in DOMAIN h.states : \A i \in DOMAIN h.revisions :
          /\ p \in DOMAIN h.revisions[i].entries
          /\ \A j \in DOMAIN h.revisions : j > i => p \notin DOMAIN h.revisions[j].entries
          => h.revisions[i].entries[p] = h.states[p]

ServedOK ==
    /\ DOMAIN directories = VoiceGroups /\ \A g \in VoiceGroups : directories[g].version \in Nat
    /\ DOMAIN presences = VoiceGroups /\ \A g \in VoiceGroups : PresenceOK(presences[g])

(* The refresh thread. *)
InGroup == contexts[Me].group = knownGroup

KnownOK ==
    /\ knownGroup \in VoiceGroups /\ knownGroup <= contexts[Me].group
    /\ knownMember \in Nat /\ knownMember <= contexts[Me].version
    /\ knownMember = contexts[Me].version => InGroup
    /\ knownDir \in Nat /\ knownPres \in Nat

DirectoryFollows(v) ==
    LET last == directories[knownGroup]
    IN /\ v.dir.version = knownDir
       /\ knownDir <= last.version
       /\ knownDir # 0 /\ knownDir = last.version => v.dir.content = last.fingerprint

Lost(h, after) == h.revisions # <<>> /\ after < h.revisions[1].version - 1
ComesLater(h, after, p) ==
    \E i \in DOMAIN h.revisions :
        h.revisions[i].version > after /\ p \in DOMAIN h.revisions[i].entries

Covers(h, after, v) ==
    /\ v.pres = [p \in DOMAIN v.pres |-> v.pres[p]]
    /\ DOMAIN v.pres \subseteq DOMAIN v.dir.content.names
    /\ \A p \in DOMAIN v.dir.content.names \cap DOMAIN h.states :
          \/ p \in DOMAIN v.pres /\ v.pres[p] = h.states[p]
          \/ ComesLater(h, after, p)
          \/ Lost(h, after)

PresenceFollows(v) ==
    LET last == presences[knownGroup]
    IN /\ knownPres <= last.version
       /\ knownPres # 0 => v.presVer = knownPres /\ Covers(last, knownPres, v)
       /\ knownPres = 0 => v.presVer = 0 \/ v.presVer < last.version

Follows(v) ==
    /\ v.member = [version |-> knownMember, group |-> knownGroup]
    /\ v.dir.version \in Nat /\ v.presVer \in Nat
    /\ InGroup => DirectoryFollows(v)
    /\ InGroup /\ knownDir # 0 => PresenceFollows(v)

(* The view that the events on their way lead to. *)
Leads(w) ==
    w[1] = ViewNow /\ \A i \in DOMAIN syncEvents : w[i + 1] = Shown(w[i], syncEvents[i])
Comes(v) == \E w : Leads(w) /\ w[Len(syncEvents) + 1] = v

SyncInv ==
    /\ SourcesOK /\ ServedOK
    /\ \E S : syncEvents \in Seq(S)
    /\ syncPc = "connect" => syncEvents = <<>>
    /\ syncPc # "connect" => KnownOK /\ \E v : Comes(v) /\ Follows(v)

-----------------------------------------------------------------------------
\* A set of natural numbers that is not empty has a least element.
LEMMA LeastExists ==
    ASSUME NEW T \in SUBSET Nat, T # {}
    PROVE  \E x \in T : \A y \in T : x <= y
<1>1. PICK x \in T : \A y \in T : ~(<<y, x>> \in OpToRel(<, Nat))
  BY NatLessThanWellFounded, WFMin
<1>2. ASSUME NEW y \in T PROVE x <= y
  <2>1. x \in Nat /\ y \in Nat
    OBVIOUS
  <2>2. ~(y < x)
    BY <1>1, <2>1 DEF OpToRel
  <2>3. QED
    BY <2>1, <2>2
<1>3. QED
  BY <1>2

\* A set of natural numbers that is bounded and not empty has a greatest element,
\* which is what the maximum of the library denotes.
LEMMA MaxIsGreatest ==
    ASSUME NEW n \in Nat, NEW T \in SUBSET (0..n), T # {}
    PROVE  Max(T) \in T /\ \A y \in T : y <= Max(T)
<1> DEFINE D == {n - y : y \in T}
<1>1. D \in SUBSET Nat /\ D # {}
  <2>1. \A y \in T : n - y \in Nat
    OBVIOUS
  <2>2. QED
    BY <2>1
<1>2. PICK d \in D : \A e \in D : d <= e
  BY <1>1, LeastExists
<1>3. PICK x \in T : d = n - x
  BY <1>2
<1>4. ASSUME NEW y \in T PROVE x >= y
  <2>1. d <= n - y
    BY <1>2
  <2>2. QED
    BY <1>3, <2>1
<1>5. \E z \in T : \A y \in T : z >= y
  BY <1>4
<1>6. Max(T) \in T /\ \A y \in T : Max(T) >= y
  BY <1>5 DEF Max
<1>7. QED
  BY <1>6

-----------------------------------------------------------------------------
\* The version a directory is computed from.
LEMMA SourceVersionFacts ==
    ASSUME SourcesOK, NEW a \in Actors
    PROVE  SourceVersion(a) \in Nat
<1> DEFINE T == {contexts[a].version, catalog} \cup {profileVersions[p] : p \in contexts[a].members}
<1>1. changes \in Nat /\ contexts[a].version \in 1..(changes + 1) /\ catalog \in 0..changes
      /\ contexts[a].members \subseteq Members
  BY SyncAssumption DEF SourcesOK
<1>2. \A p \in contexts[a].members : profileVersions[p] \in 0..changes
  BY <1>1 DEF SourcesOK
<1>3. T \in SUBSET (0..(changes + 1)) /\ T # {} /\ changes + 1 \in Nat
  BY <1>1, <1>2
<1>4. Max(T) \in T
  BY <1>3, MaxIsGreatest
<1>5. SourceVersion(a) = Max(T)
  BY DEF SourceVersion
<1> QED
  BY <1>3, <1>4, <1>5

\* The greater of two numbers.
LEMMA MaxOfTwo ==
    ASSUME NEW x \in Nat, NEW y \in Nat
    PROVE  Max({x, y}) \in Nat /\ Max({x, y}) >= x /\ Max({x, y}) >= y
<1>1. {x, y} \in SUBSET (0..(x + y)) /\ {x, y} # {} /\ x + y \in Nat
  OBVIOUS
<1>2. Max({x, y}) \in {x, y} /\ \A z \in {x, y} : z <= Max({x, y})
  BY <1>1, MaxIsGreatest
<1> QED
  BY <1>2

\* The directory an actor is served: what it may see, under a version that is new
\* unless it is what its group was served last.
LEMMA NextDirectoryFacts ==
    ASSUME SourcesOK, ServedOK, NEW a \in Actors
    PROVE  /\ contexts[a].group \in VoiceGroups
           /\ NextDirectory(a).version \in Nat \ {0}
           /\ NextDirectory(a).fingerprint = Fingerprint(a)
           /\ NextDirectory(a).version >= directories[contexts[a].group].version
           /\ NextDirectory(a).version = directories[contexts[a].group].version =>
                NextDirectory(a) = directories[contexts[a].group]
<1> DEFINE last == directories[contexts[a].group]
<1>1. contexts[a].group \in VoiceGroups
  BY DEF SourcesOK
<1>2. last.version \in Nat
  BY <1>1 DEF ServedOK
<1>3. SourceVersion(a) \in Nat
  BY SourceVersionFacts
<1>4. Max({1, SourceVersion(a)}) \in Nat \ {0}
  BY <1>3, MaxOfTwo
<1>5. Max({last.version + 1, SourceVersion(a)}) \in Nat /\
      Max({last.version + 1, SourceVersion(a)}) >= last.version + 1
  BY <1>2, <1>3, MaxOfTwo
<1> HIDE DEF last
<1>6. CASE last.version = 0
  <2>1. NextDirectory(a) = [version |-> Max({1, SourceVersion(a)}), fingerprint |-> Fingerprint(a)]
    BY <1>6 DEF NextDirectory, last
  <2> QED
    BY <1>1, <1>4, <1>6, <2>1 DEF last
<1>7. CASE last.version # 0 /\ last.fingerprint # Fingerprint(a)
  <2>1. NextDirectory(a) = [version |-> Max({last.version + 1, SourceVersion(a)}),
                            fingerprint |-> Fingerprint(a)]
    BY <1>7 DEF NextDirectory, last
  <2> QED
    BY <1>1, <1>2, <1>5, <2>1 DEF last
<1>8. CASE last.version # 0 /\ last.fingerprint = Fingerprint(a)
  <2>1. NextDirectory(a) = last
    BY <1>8 DEF NextDirectory, last
  <2> QED
    BY <1>1, <1>2, <1>8, <2>1 DEF last
<1> QED
  BY <1>6, <1>7, <1>8

(* Versions only grow, and a version that stays stands for the same content. *)
DirectoriesGrow ==
    /\ DOMAIN directories' = VoiceGroups
    /\ \A g \in VoiceGroups :
         /\ directories'[g].version \in Nat
         /\ directories[g].version <= directories'[g].version
         /\ directories'[g].version = directories[g].version => directories'[g] = directories[g]

\* A directory is served.
LEMMA DirectoryGrows ==
    ASSUME SourcesOK, ServedOK, NEW a \in Actors, DirectoryFor(a)
    PROVE  DirectoriesGrow /\ (Served(a) => directories'[contexts[a].group] = NextDirectory(a))
<1>1. /\ contexts[a].group \in VoiceGroups
      /\ NextDirectory(a).version \in Nat \ {0}
      /\ NextDirectory(a).version >= directories[contexts[a].group].version
      /\ NextDirectory(a).version = directories[contexts[a].group].version =>
           NextDirectory(a) = directories[contexts[a].group]
  BY NextDirectoryFacts
<1>2. DOMAIN directories = VoiceGroups /\ \A g \in VoiceGroups : directories[g].version \in Nat
  BY DEF ServedOK
<1>3. CASE Served(a)
  <2>1. directories' = [directories EXCEPT ![contexts[a].group] = NextDirectory(a)]
    BY <1>3 DEF DirectoryFor
  <2>2. /\ DOMAIN directories' = VoiceGroups
        /\ \A g \in VoiceGroups : directories'[g] =
              IF g = contexts[a].group THEN NextDirectory(a) ELSE directories[g]
    BY <1>1, <1>2, <2>1
  <2> QED
    BY <1>1, <1>2, <2>2 DEF DirectoriesGrow
<1>4. CASE ~Served(a)
  <2>1. directories' = directories
    BY <1>4 DEF DirectoryFor
  <2> QED
    BY <1>2, <1>4, <2>1 DEF DirectoriesGrow
<1> QED
  BY <1>3, <1>4

(* The revisions are followed by e, and d of them dropped. *)
Extends(kept, revs, e, d) ==
    /\ kept \in Seq(Revisions) /\ Len(kept) \in Nat \ {0}
    /\ Len(kept) + d = Len(revs) + 1
    /\ \A i \in 1..Len(kept) : kept[i] = IF i + d = Len(revs) + 1 THEN e ELSE revs[i + d]

(* e says how n differs from h. *)
Revises(e, h, n) ==
    /\ n.version = h.version + 1 /\ n.states \in PartialStates
    /\ e.version = h.version + 1
    /\ \A p \in DOMAIN e.entries : p \in DOMAIN n.states /\ e.entries[p] = n.states[p]
    /\ \A p \in DOMAIN n.states : p \notin DOMAIN e.entries =>
         p \in DOMAIN h.states /\ h.states[p] = n.states[p]

\* A revision is added, and the oldest one dropped when there are too many.
LEMMA KeptFacts ==
    ASSUME NEW revs \in Seq(Revisions), NEW e \in Revisions
    PROVE  \E d \in {0, 1} : Extends(KeptRevisions(Append(revs, e)), revs, e, d)
<1> DEFINE R == Revisions
           kept == KeptRevisions(Append(revs, e))
<1> DEFINE all == Append(revs, e)
<1>1. /\ all \in Seq(R) /\ Len(all) = Len(revs) + 1 /\ Len(revs) \in Nat
      /\ \A i \in 1..(Len(revs) + 1) : all[i] = IF i = Len(revs) + 1 THEN e ELSE revs[i]
  OBVIOUS
<1> HIDE DEF all, kept, R
<1>2. CASE Len(all) > MaxRevisions
  <2>1. kept = Tail(all)
    BY <1>2 DEF KeptRevisions, all, kept
  <2>2. Len(all) >= 2
    BY <1>1, <1>2, DirectoryAssumption
  <2>3. /\ kept \in Seq(R) /\ Len(kept) = Len(all) - 1
        /\ \A i \in 1..Len(kept) : kept[i] = all[i + 1]
    BY <1>1, <2>1, <2>2
  <2>4. Len(kept) + 1 = Len(revs) + 1 /\ Len(kept) \in Nat \ {0}
    BY <1>1, <2>2, <2>3
  <2>5. \A i \in 1..Len(kept) : kept[i] = IF i + 1 = Len(revs) + 1 THEN e ELSE revs[i + 1]
    BY <1>1, <2>3, <2>4
  <2>6. Extends(kept, revs, e, 1)
    BY <2>3, <2>4, <2>5 DEF Extends, R
  <2> QED
    BY <2>6 DEF kept
<1>3. CASE ~(Len(all) > MaxRevisions)
  <2>1. kept = all
    BY <1>3 DEF KeptRevisions, all, kept
  <2>2. Len(kept) + 0 = Len(revs) + 1 /\ Len(kept) \in Nat \ {0} /\ kept \in Seq(R)
    BY <1>1, <2>1
  <2>3. \A i \in 1..Len(kept) : kept[i] = IF i + 0 = Len(revs) + 1 THEN e ELSE revs[i + 0]
    BY <1>1, <2>1
  <2>4. Extends(kept, revs, e, 0)
    BY <2>2, <2>3 DEF Extends, R
  <2> QED
    BY <2>4 DEF kept
<1> QED
  BY <1>2, <1>3

\* What a revision records.
LEMMA EntriesFacts ==
    ASSUME NEW old \in PartialStates, NEW new \in PartialStates
    PROVE  /\ RevisionEntries(old, new) \in PartialStates
           /\ \A p \in DOMAIN RevisionEntries(old, new) :
                p \in DOMAIN new /\ RevisionEntries(old, new)[p] = new[p]
           /\ \A p \in DOMAIN new : p \notin DOMAIN RevisionEntries(old, new) =>
                p \in DOMAIN old /\ old[p] = new[p]
<1> DEFINE D == {q \in DOMAIN new : q \notin DOMAIN old \/ new[q] # old[q]}
<1>1. PICK M \in SUBSET Members : new \in [M -> BOOLEAN]
  BY DEF PartialStates
<1>2. D \in SUBSET Members /\ \A p \in D : p \in DOMAIN new /\ new[p] \in BOOLEAN
  BY <1>1
<1>3. RevisionEntries(old, new) = [p \in D |-> new[p]]
  BY DEF RevisionEntries
<1>4. [p \in D |-> new[p]] \in [D -> BOOLEAN]
  BY <1>2
<1>5. \A p \in DOMAIN new : p \notin D => p \in DOMAIN old /\ old[p] = new[p]
  OBVIOUS
<1> HIDE DEF D
<1>6. RevisionEntries(old, new) \in PartialStates
  BY <1>2, <1>3, <1>4 DEF PartialStates
<1> QED
  BY <1>2, <1>3, <1>5, <1>6

\* A revision e keeps the history in order, and whoever can follow it can still follow
\* it or has to ask for everything; d revisions are dropped.
LEMMA RevisedBy ==
    ASSUME NEW h, PresenceOK(h), NEW n, NEW e, NEW d \in {0, 1},
           Revises(e, h, n), Extends(n.revisions, h.revisions, e, d)
    PROVE  /\ PresenceOK(n)
           /\ \A after \in Nat : \A v : after <= h.version /\ Covers(h, after, v) => Covers(n, after, v)
<1> DEFINE revs == h.revisions
           kept == n.revisions
           S == n.states
<1>1. /\ h.version \in Nat /\ h.states \in PartialStates /\ revs \in Seq(Revisions)
      /\ Len(revs) \in Nat /\ Len(revs) <= h.version /\ DOMAIN revs = 1..Len(revs)
      /\ \A i \in DOMAIN revs : revs[i].version = (h.version - Len(revs)) + i
      /\ \A p \in DOMAIN h.states : \A i \in DOMAIN revs :
            /\ p \in DOMAIN revs[i].entries
            /\ \A j \in DOMAIN revs : j > i => p \notin DOMAIN revs[j].entries
            => revs[i].entries[p] = h.states[p]
  BY DEF PresenceOK
<1>4. n.version = h.version + 1 /\ n.states = S /\ S \in PartialStates
  BY DEF Revises
<1>5. /\ e.version = h.version + 1
      /\ \A p \in DOMAIN e.entries : p \in DOMAIN S /\ e.entries[p] = S[p]
      /\ \A p \in DOMAIN S : p \notin DOMAIN e.entries => p \in DOMAIN h.states /\ h.states[p] = S[p]
  BY DEF Revises
<1>6. kept \in Seq(Revisions) /\ Len(kept) \in Nat \ {0} /\ DOMAIN kept = 1..Len(kept)
  BY DEF Extends
<1>7. /\ Len(kept) + d = Len(revs) + 1
      /\ \A i \in 1..Len(kept) : kept[i] = IF i + d = Len(revs) + 1 THEN e ELSE revs[i + d]
  BY DEF Extends
<1> HIDE DEF revs, kept, S
<1>8. /\ kept[Len(kept)] = e
      /\ \A i \in 1..Len(kept) : i # Len(kept) => i + d \in DOMAIN revs /\ kept[i] = revs[i + d]
      /\ \A i \in DOMAIN revs : i > d => i - d \in 1..Len(kept) /\ kept[i - d] = revs[i]
  <2> DEFINE k == Len(kept)
             r == Len(revs)
  <2>1. k \in Nat \ {0} /\ r \in Nat /\ k + d = r + 1 /\ DOMAIN revs = 1..r
        /\ \A i \in 1..k : kept[i] = IF i + d = r + 1 THEN e ELSE revs[i + d]
    BY <1>1, <1>6, <1>7
  <2> HIDE DEF k, r
  <2>2. kept[k] = e
    BY <2>1
  <2>3. \A i \in 1..k : i # k => i + d \in 1..r /\ kept[i] = revs[i + d]
    BY <2>1
  <2>4. ASSUME NEW i \in 1..r, i > d PROVE i - d \in 1..k /\ kept[i - d] = revs[i]
    <3>1. i - d \in 1..k /\ (i - d) + d = i /\ i # r + 1
      BY <2>1, <2>4
    <3> QED
      BY <2>1, <3>1
  <2> QED
    BY <2>1, <2>2, <2>3, <2>4 DEF k, r
<1>9. \A i \in 1..Len(kept) : kept[i].version = (n.version - Len(kept)) + i
  <2> SUFFICES ASSUME NEW i \in 1..Len(kept)
               PROVE  kept[i].version = (n.version - Len(kept)) + i
    OBVIOUS
  <2> DEFINE hv == h.version
             k == Len(kept)
             r == Len(revs)
  <2>0. hv \in Nat /\ k \in Nat /\ r \in Nat /\ k + d = r + 1 /\ n.version = hv + 1 /\ e.version = hv + 1
    BY <1>1, <1>4, <1>5, <1>6, <1>7
  <2>1. CASE i = Len(kept)
    <3>1. kept[i].version = hv + 1 /\ i = k
      BY <1>8, <2>0, <2>1
    <3> HIDE DEF hv, k
    <3>2. (n.version - k) + i = hv + 1
      BY <2>0, <3>1
    <3> QED
      BY <3>1, <3>2 DEF k
  <2>2. CASE i # Len(kept)
    <3>1. i + d \in DOMAIN revs /\ kept[i] = revs[i + d]
      BY <1>8, <2>2
    <3>2. kept[i].version = (h.version - Len(revs)) + (i + d)
      BY <1>1, <3>1
    <3>3. kept[i].version = (hv - r) + (i + d) /\ i \in Nat
      BY <3>2
    <3> HIDE DEF hv, k, r
    <3>4. (n.version - k) + i = (hv - r) + (i + d)
      <4>1. CASE d = 0
        BY <2>0, <3>3, <4>1
      <4>2. CASE d = 1
        BY <2>0, <3>3, <4>2
      <4> QED
        BY <4>1, <4>2
    <3> QED
      BY <3>3, <3>4 DEF k
  <2> QED
    BY <2>1, <2>2
<1>10. ASSUME NEW p \in DOMAIN S, NEW i \in DOMAIN kept, p \in DOMAIN kept[i].entries,
              \A j \in DOMAIN kept : j > i => p \notin DOMAIN kept[j].entries
       PROVE  kept[i].entries[p] = S[p]
  <2>1. CASE i = Len(kept)
    BY <1>5, <1>8, <1>10, <2>1
  <2>2. CASE i # Len(kept)
    <3>1. p \notin DOMAIN e.entries
      <4>1. Len(kept) \in DOMAIN kept /\ Len(kept) > i
        BY <1>6, <2>2
      <4> QED
        BY <1>8, <1>10, <4>1
    <3>2. p \in DOMAIN h.states /\ h.states[p] = S[p]
      BY <1>5, <3>1
    <3>3. i + d \in DOMAIN revs /\ kept[i] = revs[i + d]
      BY <1>6, <1>8, <2>2
    <3>4. \A j \in DOMAIN revs : j > i + d => p \notin DOMAIN revs[j].entries
      <4> SUFFICES ASSUME NEW j \in DOMAIN revs, j > i + d PROVE p \notin DOMAIN revs[j].entries
        OBVIOUS
      <4>1. j > d /\ j - d > i
        BY <1>1, <1>6
      <4>2. j - d \in DOMAIN kept /\ kept[j - d] = revs[j]
        BY <1>6, <1>8, <4>1
      <4> QED
        BY <1>10, <4>1, <4>2
    <3>5. revs[i + d].entries[p] = h.states[p]
      BY <1>1, <1>10, <3>2, <3>3, <3>4
    <3> QED
      BY <3>2, <3>3, <3>5
  <2> QED
    BY <2>1, <2>2
<1>11. PresenceOK(n)
  <2>1. /\ n.version \in Nat /\ n.version # 0 /\ Len(kept) <= n.version
    BY <1>1, <1>4, <1>6, <1>7
  <2> QED
    BY <1>4, <1>6, <1>9, <1>10, <2>1 DEF PresenceOK, kept
<1>12. ASSUME NEW after \in Nat, NEW v, after <= h.version, Covers(h, after, v)
       PROVE  Covers(n, after, v)
  <2>1. v.pres = [p \in DOMAIN v.pres |-> v.pres[p]] /\ DOMAIN v.pres \subseteq DOMAIN v.dir.content.names
    BY <1>12 DEF Covers
  <2>2. ASSUME NEW p \in DOMAIN v.dir.content.names, p \in DOMAIN S
        PROVE  \/ p \in DOMAIN v.pres /\ v.pres[p] = S[p]
               \/ ComesLater(n, after, p)
               \/ Lost(n, after)
    <3>1. CASE p \in DOMAIN e.entries
      <4>1. Len(kept) \in DOMAIN kept /\ kept[Len(kept)].version > after
        <5>1. e.version > after
          BY <1>1, <1>5, <1>12
        <5>2. Len(kept) \in DOMAIN kept
          BY <1>6
        <5> QED
          BY <1>8, <5>1, <5>2
      <4> QED
        BY <1>8, <3>1, <4>1 DEF ComesLater, kept
    <3>2. CASE p \notin DOMAIN e.entries
      <4>1. p \in DOMAIN h.states /\ h.states[p] = S[p]
        BY <1>5, <2>2, <3>2
      <4>2. \/ p \in DOMAIN v.pres /\ v.pres[p] = h.states[p]
            \/ ComesLater(h, after, p)
            \/ Lost(h, after)
        BY <1>12, <2>2, <4>1 DEF Covers
      <4>3. CASE ComesLater(h, after, p)
        <5>1. PICK i \in DOMAIN revs : revs[i].version > after /\ p \in DOMAIN revs[i].entries
          BY <4>3 DEF ComesLater, revs
        <5>2. CASE i > d
          <6>1. i - d \in DOMAIN kept /\ kept[i - d] = revs[i]
            BY <1>6, <1>8, <5>2
          <6> QED
            BY <5>1, <6>1 DEF ComesLater, kept
        <5>3. CASE ~(i > d)
          <6>1. d = 1 /\ i = 1
            BY <1>1, <5>3
          <6>2. after < kept[1].version - 1 /\ kept # <<>>
            <7>1. 1 \in 1..Len(kept) /\ kept # <<>>
              BY <1>6
            <7>2. kept[1].version = (n.version - Len(kept)) + 1
              BY <1>9, <7>1
            <7>3. revs[1].version = (h.version - Len(revs)) + 1 /\ revs[1].version > after
              BY <1>1, <5>1, <6>1
            <7> QED
              BY <1>1, <1>4, <1>6, <1>7, <6>1, <7>1, <7>2, <7>3
          <6> QED
            BY <6>2 DEF Lost, kept
        <5> QED
          BY <5>2, <5>3
      <4>4. CASE Lost(h, after)
        <5>1. revs # <<>> /\ after < revs[1].version - 1
          BY <4>4 DEF Lost, revs
        <5>2. 1 \in DOMAIN revs /\ 1 \in DOMAIN kept
          BY <1>1, <1>6, <5>1
        <5>3. after < kept[1].version - 1 /\ kept # <<>>
          <6>1. kept[1].version = (n.version - Len(kept)) + 1 /\ kept # <<>>
            BY <1>6, <1>9, <5>2
          <6>2. revs[1].version = (h.version - Len(revs)) + 1
            BY <1>1, <5>2
          <6> QED
            BY <1>1, <1>4, <1>6, <1>7, <5>1, <6>1, <6>2
        <5> QED
          BY <5>3 DEF Lost, kept
      <4> QED
        BY <4>1, <4>2, <4>3, <4>4
    <3> QED
      BY <3>1, <3>2
  <2> QED
    BY <1>4, <2>1, <2>2 DEF Covers
<1> QED
  BY <1>11, <1>12

\* The presence an actor is served: what is the case, under a version that is new
\* unless it is what its group was served last.
LEMMA NextPresenceFacts ==
    ASSUME SourcesOK, ServedOK, NEW a \in Actors, NEW h, h = presences[contexts[a].group],
           NEW n, n = NextPresence(a)
    PROVE  /\ contexts[a].group \in VoiceGroups
           /\ PresenceOK(h) /\ PresenceOK(n)
           /\ n.version \in Nat \ {0} /\ n.version >= h.version
           /\ n.states = CurrentStates(a)
           /\ n.version = h.version => n = h
           /\ \A after \in Nat \ {0} : \A v :
                after <= h.version /\ Covers(h, after, v) => Covers(n, after, v)
<1> DEFINE S == CurrentStates(a)
           e == [version |-> h.version + 1, entries |-> RevisionEntries(h.states, S)]
<1>1. contexts[a].group \in VoiceGroups /\ contexts[a].members \subseteq Members
  BY DEF SourcesOK
<1>2. PresenceOK(h)
  BY <1>1 DEF ServedOK
<1>3. /\ h.version \in Nat /\ h.states \in PartialStates /\ h.revisions \in Seq(Revisions)
  BY <1>2 DEF PresenceOK
<1>4. S \in PartialStates
  <2>1. S \in [contexts[a].members -> BOOLEAN]
    BY DEF CurrentStates
  <2> QED
    BY <1>1, <2>1 DEF PartialStates
<1> HIDE DEF S
<1>5. CASE h.version = 0
  <2>1. n = [version |-> 1, states |-> S, revisions |-> <<>>]
    BY <1>5 DEF NextPresence, S
  <2>2. n.version = 1 /\ n.states = S /\ n.revisions = <<>>
    BY <2>1
  <2>3. PresenceOK(n)
    BY <1>4, <2>2 DEF PresenceOK
  <2> QED
    BY <1>1, <1>2, <1>5, <2>2, <2>3 DEF S
<1>6. CASE h.version # 0 /\ h.states # S
  <2>1. n = [version |-> h.version + 1, states |-> S,
             revisions |-> KeptRevisions(Append(h.revisions, e))]
    BY <1>6 DEF NextPresence, S
  <2>2. n.version = h.version + 1 /\ n.states = S /\ n.revisions = KeptRevisions(Append(h.revisions, e))
    BY <2>1
  <2>3. /\ RevisionEntries(h.states, S) \in PartialStates
        /\ \A p \in DOMAIN RevisionEntries(h.states, S) :
             p \in DOMAIN S /\ RevisionEntries(h.states, S)[p] = S[p]
        /\ \A p \in DOMAIN S : p \notin DOMAIN RevisionEntries(h.states, S) =>
             p \in DOMAIN h.states /\ h.states[p] = S[p]
    BY <1>3, <1>4, EntriesFacts
  <2>4. e \in Revisions
    BY <1>3, <2>3 DEF Revisions
  <2>5. Revises(e, h, n)
    BY <1>4, <2>2, <2>3 DEF Revises
  <2> HIDE DEF e
  <2>6. PICK d \in {0, 1} : Extends(n.revisions, h.revisions, e, d)
    BY <1>3, <2>2, <2>4, KeptFacts
  <2>7. /\ PresenceOK(n)
        /\ \A after \in Nat : \A v : after <= h.version /\ Covers(h, after, v) => Covers(n, after, v)
    BY <1>2, <2>5, <2>6, RevisedBy
  <2> QED
    BY <1>1, <1>2, <1>3, <2>2, <2>7 DEF S
<1>7. CASE h.version # 0 /\ h.states = S
  <2>1. n = h
    BY <1>7 DEF NextPresence, S
  <2> QED
    BY <1>1, <1>2, <1>3, <1>7, <2>1 DEF S
<1> QED
  BY <1>5, <1>6, <1>7

(* Versions only grow, and whoever could follow the revisions still can. *)
PresencesGrow ==
    /\ DOMAIN presences' = VoiceGroups
    /\ \A g \in VoiceGroups :
         /\ PresenceOK(presences'[g])
         /\ presences[g].version <= presences'[g].version
         /\ \A after \in Nat \ {0} : \A v :
              after <= presences[g].version /\ Covers(presences[g], after, v) =>
                Covers(presences'[g], after, v)

\* A presence is served.
LEMMA PresenceGrows ==
    ASSUME SourcesOK, ServedOK, NEW a \in Actors, PresenceFor(a)
    PROVE  PresencesGrow /\ (Served(a) => presences'[contexts[a].group] = NextPresence(a))
<1> DEFINE G == contexts[a].group
<1>1. PICK h : h = presences[G]
  OBVIOUS
<1>2. PICK n : n = NextPresence(a)
  OBVIOUS
<1>3. /\ G \in VoiceGroups
      /\ PresenceOK(h) /\ PresenceOK(n)
      /\ n.version \in Nat \ {0} /\ n.version >= h.version
      /\ \A after \in Nat \ {0} : \A v :
           after <= h.version /\ Covers(h, after, v) => Covers(n, after, v)
  BY <1>1, <1>2, NextPresenceFacts
<1>4. DOMAIN presences = VoiceGroups /\ \A g \in VoiceGroups : PresenceOK(presences[g])
  BY DEF ServedOK
<1>5. \A g \in VoiceGroups : presences[g].version \in Nat
  BY <1>4 DEF PresenceOK
<1>6. CASE Served(a)
  <2>1. presences' = [presences EXCEPT ![G] = n]
    BY <1>2, <1>6 DEF PresenceFor
  <2>2. DOMAIN presences' = VoiceGroups /\ presences'[G] = n
    BY <1>3, <1>4, <2>1
  <2>3. ASSUME NEW g \in VoiceGroups
        PROVE  /\ PresenceOK(presences'[g])
               /\ presences[g].version <= presences'[g].version
               /\ \A after \in Nat \ {0} : \A v :
                    after <= presences[g].version /\ Covers(presences[g], after, v) =>
                      Covers(presences'[g], after, v)
    <3>1. CASE g = G
      BY <1>1, <1>3, <2>2, <3>1, Zenon
    <3>2. CASE g # G
      <4>1. presences'[g] = presences[g]
        BY <1>4, <2>1, <3>2
      <4> QED
        BY <1>4, <1>5, <4>1
    <3> QED
      BY <3>1, <3>2
  <2> QED
    BY <1>2, <2>2, <2>3 DEF PresencesGrow
<1>7. CASE ~Served(a)
  <2>1. presences' = presences
    BY <1>7 DEF PresenceFor
  <2> QED
    BY <1>4, <1>5, <1>7, <2>1 DEF PresencesGrow
<1> QED
  BY <1>6, <1>7

-----------------------------------------------------------------------------
\* Another event is on its way.
LEMMA EventTold ==
    ASSUME NEW e, NEW v, Comes(v), \E S : syncEvents \in Seq(S),
           syncEvents' = Append(syncEvents, e), UNCHANGED clientView
    PROVE  (\E S : syncEvents' \in Seq(S)) /\ \E u : u = Shown(v, e) /\ Comes(u)'
<1>1. PICK S : syncEvents \in Seq(S)
  OBVIOUS
<1> DEFINE T == S \cup {e}
           n == Len(syncEvents)
<1>2. syncEvents \in Seq(T) /\ n \in Nat /\ DOMAIN syncEvents = 1..n
  BY <1>1
<1>3. /\ syncEvents' \in Seq(T) /\ Len(syncEvents') = n + 1 /\ DOMAIN syncEvents' = 1..(n + 1)
      /\ \A i \in 1..n : syncEvents'[i] = syncEvents[i]
      /\ syncEvents'[n + 1] = e
  BY <1>2
<1>4. PICK w : Leads(w) /\ w[n + 1] = v
  BY DEF Comes
<1>5. w[1] = ViewNow /\ \A i \in 1..n : w[i + 1] = Shown(w[i], syncEvents[i])
  BY <1>2, <1>4 DEF Leads
<1>6. PICK u : u = Shown(v, e)
  OBVIOUS
<1>7. PICK k \in Nat : k = n
  BY <1>2
<1>8. PICK x : x = [i \in 1..(k + 2) |-> IF i = k + 2 THEN u ELSE w[i]]
  OBVIOUS
<1>9. /\ x[1] = w[1] /\ x[k + 2] = u
      /\ \A i \in 1..(k + 1) : x[i] = w[i]
  BY <1>7, <1>8
<1>10. ViewNow' = ViewNow
  BY DEF ViewNow, clientView
<1>11. \A i \in DOMAIN syncEvents' : x[i + 1] = Shown(x[i], syncEvents'[i])
  <2> SUFFICES ASSUME NEW i \in 1..(k + 1) PROVE x[i + 1] = Shown(x[i], syncEvents'[i])
    BY <1>3, <1>7
  <2>1. CASE i = k + 1
    <3>1. i + 1 = k + 2 /\ x[i] = w[k + 1] /\ syncEvents'[i] = e /\ w[k + 1] = v
      BY <1>3, <1>4, <1>7, <1>9, <2>1
    <3> QED
      BY <1>6, <1>9, <3>1
  <2>2. CASE i # k + 1
    <3>1. i \in 1..k /\ i + 1 \in 1..(k + 1)
      BY <2>2
    <3> QED
      BY <1>3, <1>5, <1>7, <1>9, <3>1
  <2> QED
    BY <2>1, <2>2
<1>12. Leads(x)'
  BY <1>5, <1>9, <1>10, <1>11 DEF Leads
<1>13. x[Len(syncEvents') + 1] = u
  <2>1. Len(syncEvents') + 1 = k + 2
    BY <1>3, <1>7
  <2> QED
    BY <1>9, <2>1
<1>14. Comes(u)'
  BY <1>12, <1>13 DEF Comes
<1> QED
  BY <1>3, <1>6, <1>14

\* The window takes an event.
LEMMA EventTaken ==
    ASSUME NEW v, Comes(v), \E S : syncEvents \in Seq(S), syncEvents # <<>>,
           syncEvents' = Tail(syncEvents), ViewNow' = Shown(ViewNow, Head(syncEvents))
    PROVE  (\E S : syncEvents' \in Seq(S)) /\ Comes(v)'
<1>1. PICK S : syncEvents \in Seq(S)
  OBVIOUS
<1> DEFINE n == Len(syncEvents)
<1>2. n \in Nat \ {0} /\ DOMAIN syncEvents = 1..n /\ Head(syncEvents) = syncEvents[1]
  BY <1>1
<1>3. /\ syncEvents' \in Seq(S) /\ Len(syncEvents') = n - 1 /\ DOMAIN syncEvents' = 1..(n - 1)
      /\ \A i \in 1..(n - 1) : syncEvents'[i] = syncEvents[i + 1]
  BY <1>1, <1>2
<1>4. PICK w : Leads(w) /\ w[n + 1] = v
  BY DEF Comes
<1>5. w[1] = ViewNow /\ \A i \in 1..n : w[i + 1] = Shown(w[i], syncEvents[i])
  BY <1>2, <1>4 DEF Leads
<1>6. PICK k \in Nat \ {0} : k = n
  BY <1>2
<1>7. PICK x : x = [i \in 1..k |-> w[i + 1]]
  OBVIOUS
<1>8. \A i \in 1..k : x[i] = w[i + 1]
  BY <1>7
<1>9. x[1] = ViewNow'
  <2>1. 1 \in 1..k /\ x[1] = w[1 + 1]
    BY <1>6, <1>8
  <2> QED
    BY <1>2, <1>5, <1>6, <2>1
<1>10. \A i \in DOMAIN syncEvents' : x[i + 1] = Shown(x[i], syncEvents'[i])
  <2> SUFFICES ASSUME NEW i \in 1..(k - 1) PROVE x[i + 1] = Shown(x[i], syncEvents'[i])
    BY <1>3, <1>6
  <2>1. i \in 1..k /\ i + 1 \in 1..k
    OBVIOUS
  <2>2. x[i] = w[i + 1] /\ x[i + 1] = w[(i + 1) + 1] /\ syncEvents'[i] = syncEvents[i + 1]
    BY <1>3, <1>6, <1>8, <2>1
  <2>3. w[(i + 1) + 1] = Shown(w[i + 1], syncEvents[i + 1])
    BY <1>5, <1>6, <2>1
  <2> QED
    BY <2>2, <2>3
<1>11. Leads(x)'
  BY <1>9, <1>10 DEF Leads
<1>12. x[Len(syncEvents') + 1] = v
  <2>1. Len(syncEvents') + 1 = k /\ k \in 1..k /\ w[k + 1] = v
    BY <1>3, <1>4, <1>6
  <2> QED
    BY <1>8, <2>1
<1> QED
  BY <1>3, <1>11, <1>12 DEF Comes

(* What may happen to the server behind the client's back. *)
MeMoves ==
    /\ contexts'[Me].version \in Nat /\ contexts'[Me].group \in VoiceGroups
    /\ contexts[Me].version <= contexts'[Me].version
    /\ contexts[Me].group <= contexts'[Me].group
    /\ contexts'[Me].version = contexts[Me].version => contexts'[Me].group = contexts[Me].group

\* The membership of this client has a version and a group.
LEMMA ContextOfMe ==
    ASSUME SourcesOK
    PROVE  /\ Me \in Actors /\ contexts[Me].version \in Nat
           /\ contexts[Me].group \in VoiceGroups /\ contexts[Me].group \in Nat
<1>1. Me \in Actors /\ changes \in Nat
  BY SyncAssumption DEF SourcesOK
<1>2. contexts[Me] \in [version : 1..(changes + 1), group : VoiceGroups, members : SUBSET Members]
  BY <1>1 DEF SourcesOK
<1>3. contexts[Me].version \in 1..(changes + 1) /\ contexts[Me].group \in VoiceGroups
  BY <1>2
<1>4. contexts[Me].version \in Nat
  BY <1>1, <1>3
<1>5. VoiceGroups \subseteq Nat
  BY DirectoryAssumption
<1> QED
  BY <1>1, <1>3, <1>4, <1>5

\* The server moves on, and the refresh thread keeps what it knows.
LEMMA ServerMoves ==
    ASSUME SourcesOK, ServedOK, KnownOK, NEW v, Follows(v), MeMoves,
           DirectoriesGrow, PresencesGrow, UNCHANGED knownVars
    PROVE  ServedOK' /\ KnownOK' /\ Follows(v)'
<1>0. contexts[Me].version \in Nat /\ contexts[Me].group \in Nat /\ contexts'[Me].group \in Nat
  BY ContextOfMe, DirectoryAssumption DEF MeMoves
<1>1. ServedOK'
  BY DEF ServedOK, DirectoriesGrow, PresencesGrow
<1>2. /\ knownMember' = knownMember /\ knownGroup' = knownGroup
      /\ knownDir' = knownDir /\ knownPres' = knownPres
  BY DEF knownVars
<1>3. /\ knownGroup \in VoiceGroups /\ knownGroup \in Nat /\ knownGroup <= contexts[Me].group
      /\ knownMember \in Nat /\ knownMember <= contexts[Me].version
      /\ knownMember = contexts[Me].version => InGroup
      /\ knownDir \in Nat /\ knownPres \in Nat
  BY DirectoryAssumption DEF KnownOK
<1>4. InGroup' => InGroup
  BY <1>0, <1>2, <1>3 DEF InGroup, MeMoves
<1>5. KnownOK'
  <2>1. knownMember = contexts'[Me].version => contexts'[Me].group = knownGroup
    BY <1>0, <1>3 DEF MeMoves, InGroup
  <2>2. knownGroup <= contexts'[Me].group /\ knownMember <= contexts'[Me].version
    BY <1>0, <1>3 DEF MeMoves
  <2> QED
    BY <1>2, <1>3, <2>1, <2>2 DEF KnownOK, InGroup
<1>6. /\ v.member = [version |-> knownMember, group |-> knownGroup]
      /\ v.dir.version \in Nat /\ v.presVer \in Nat
      /\ InGroup => DirectoryFollows(v)
      /\ InGroup /\ knownDir # 0 => PresenceFollows(v)
  BY DEF Follows
<1>7. /\ directories[knownGroup].version \in Nat /\ directories'[knownGroup].version \in Nat
      /\ directories[knownGroup].version <= directories'[knownGroup].version
      /\ directories'[knownGroup].version = directories[knownGroup].version =>
            directories'[knownGroup] = directories[knownGroup]
  BY <1>3 DEF DirectoriesGrow, ServedOK
<1>8. InGroup => DirectoryFollows(v)'
  BY <1>2, <1>3, <1>6, <1>7 DEF DirectoryFollows
<1>9. /\ presences[knownGroup].version \in Nat /\ presences'[knownGroup].version \in Nat
      /\ presences[knownGroup].version <= presences'[knownGroup].version
      /\ \A after \in Nat \ {0} :
           after <= presences[knownGroup].version /\ Covers(presences[knownGroup], after, v) =>
             Covers(presences'[knownGroup], after, v)
  BY <1>3 DEF PresencesGrow, ServedOK, PresenceOK
<1>10. InGroup /\ knownDir # 0 => PresenceFollows(v)'
  <2> SUFFICES ASSUME PresenceFollows(v) PROVE PresenceFollows(v)'
    BY <1>6
  <2>1. /\ knownPres <= presences[knownGroup].version
        /\ knownPres # 0 => v.presVer = knownPres /\ Covers(presences[knownGroup], knownPres, v)
        /\ knownPres = 0 => v.presVer = 0 \/ v.presVer < presences[knownGroup].version
    BY DEF PresenceFollows
  <2>2. knownPres <= presences'[knownGroup].version
    BY <1>3, <1>9, <2>1
  <2>3. knownPres # 0 => v.presVer = knownPres /\ Covers(presences'[knownGroup], knownPres, v)
    BY <1>3, <1>9, <2>1
  <2>4. knownPres = 0 => v.presVer = 0 \/ v.presVer < presences'[knownGroup].version
    BY <1>6, <1>9, <2>1
  <2> QED
    BY <1>2, <2>2, <2>3, <2>4 DEF PresenceFollows, Covers, ComesLater, Lost
<1>11. Follows(v)'
  BY <1>2, <1>4, <1>6, <1>8, <1>10 DEF Follows
<1> QED
  BY <1>1, <1>5, <1>11

\* The events and the view stay.
LEMMA NothingTold ==
    ASSUME NEW v, Comes(v), UNCHANGED <<syncEvents, clientView>>
    PROVE  Comes(v)'
BY DEF Comes, Leads, ViewNow, clientView

\* The server stays.
LEMMA ServerStays ==
    ASSUME SourcesOK, ServedOK, UNCHANGED directoryVars
    PROVE  MeMoves /\ DirectoriesGrow /\ PresencesGrow
<1>1. contexts' = contexts /\ directories' = directories /\ presences' = presences
  BY DEF directoryVars
<1>2. contexts[Me].version \in Nat /\ contexts[Me].group \in VoiceGroups /\ contexts[Me].group \in Nat
  BY ContextOfMe
<1>3. MeMoves
  BY <1>1, <1>2 DEF MeMoves
<1>4. DirectoriesGrow
  BY <1>1 DEF DirectoriesGrow, ServedOK
<1>5. PresencesGrow
  <2>1. \A g \in VoiceGroups : presences[g].version \in Nat
    BY DEF ServedOK, PresenceOK
  <2> QED
    BY <1>1, <2>1 DEF PresencesGrow, ServedOK
<1> QED
  BY <1>3, <1>4, <1>5

\* Serving a request leaves the data it is computed from.
LEMMA SourcesStay ==
    ASSUME SourcesOK, UNCHANGED <<sourceData, changes>>
    PROVE  SourcesOK' /\ MeMoves
<1>1. contexts' = contexts /\ online' = online /\ profileVersions' = profileVersions
      /\ catalog' = catalog /\ changes' = changes
  BY DEF sourceData
<1>2. contexts[Me].version \in Nat /\ contexts[Me].group \in VoiceGroups /\ contexts[Me].group \in Nat
  BY ContextOfMe
<1>3. MeMoves
  BY <1>1, <1>2 DEF MeMoves
<1>4. SourcesOK'
  BY <1>1 DEF SourcesOK
<1> QED
  BY <1>3, <1>4

-----------------------------------------------------------------------------
\* Nobody was served yet, and nothing is shown.
LEMMA InitSync == SyncInit => SyncInv
<1> SUFFICES ASSUME SyncInit PROVE SyncInv
  OBVIOUS
<1> USE DEF SyncInit, DirectoryInit
<1>1. Min(VoiceGroups) \in VoiceGroups
  <2>1. PICK x \in VoiceGroups : \A y \in VoiceGroups : x <= y
    BY DirectoryAssumption, LeastExists
  <2> QED
    BY <2>1 DEF Min
<1>2. SourcesOK
  <2>1. changes \in 0..MaxChanges /\ catalog \in 0..changes /\ online \subseteq Members
    BY SyncAssumption
  <2>2. profileVersions \in [Members -> 0..changes]
    OBVIOUS
  <2>3. contexts \in [Actors -> [version : 1..(changes + 1), group : VoiceGroups,
                                 members : SUBSET Members]]
    BY <1>1, DirectoryAssumption
  <2> QED
    BY <2>1, <2>2, <2>3 DEF SourcesOK
<1>3. PresenceOK(NoPresence)
  <2>1. NoPresence.version = 0 /\ NoPresence.states = <<>> /\ NoPresence.revisions = <<>>
    BY DEF NoPresence
  <2>2. <<>> \in [{} -> BOOLEAN]
    OBVIOUS
  <2>3. NoPresence.states \in PartialStates
    BY <2>1, <2>2 DEF PartialStates
  <2> QED
    BY <2>1, <2>3 DEF PresenceOK
<1>4. ServedOK
  <2>1. NoDirectory.version \in Nat
    BY DEF NoDirectory
  <2> QED
    BY <1>3, <2>1 DEF ServedOK
<1>5. \E S : syncEvents \in Seq(S)
  <2>1. <<>> \in Seq({})
    OBVIOUS
  <2> QED
    BY <2>1
<1> QED
  BY <1>2, <1>4, <1>5 DEF SyncInv

\* The client connects: it is served a directory and everyone's presence.
LEMMA Connected ==
    ASSUME SyncInv, SyncConnect
    PROVE  SyncInv'
<1>1. /\ SourcesOK /\ ServedOK /\ Me \in Actors /\ syncEvents = <<>> /\ Served(Me)
      /\ DirectoryFor(Me) /\ PresenceFor(Me) /\ syncPc' = "sleep"
      /\ UNCHANGED <<sourceData, changes>> /\ syncEvents' = syncEvents
  BY SyncAssumption DEF SyncInv, SyncConnect, countVars
<1> DEFINE G == contexts[Me].group
           M == contexts[Me].members
<1>2. SourcesOK' /\ MeMoves
  BY <1>1, SourcesStay
<1>3. DirectoriesGrow /\ directories'[G] = NextDirectory(Me)
  BY <1>1, DirectoryGrows
<1>4. PresencesGrow /\ presences'[G] = NextPresence(Me)
  BY <1>1, PresenceGrows
<1>5. ServedOK'
  BY <1>3, <1>4 DEF ServedOK, DirectoriesGrow, PresencesGrow
<1>6. PICK d : d = NextDirectory(Me)
  OBVIOUS
<1>7. PICK n : n = NextPresence(Me)
  OBVIOUS
<1>8. G \in VoiceGroups /\ d.version \in Nat \ {0} /\ d.fingerprint = Fingerprint(Me)
  BY <1>1, <1>6, NextDirectoryFacts
<1>9. n.version \in Nat \ {0} /\ n.states = CurrentStates(Me)
  BY <1>1, <1>7, NextPresenceFacts
<1>10. DirectoryAnswer(Me, 0) = [status |-> 200, version |-> d.version, content |-> d.fingerprint]
  BY <1>1, <1>6, <1>8 DEF DirectoryAnswer, Served
<1>11. PresenceAnswer(Me, 0) = [status |-> 200, version |-> n.version, mode |-> "snapshot",
                                entries |-> n.states]
  BY <1>1, <1>7 DEF PresenceAnswer
<1>12. /\ knownDir' = d.version /\ knownPres' = n.version
       /\ viewDir' = [version |-> d.version, content |-> d.fingerprint]
       /\ viewPresVer' = n.version /\ viewPres' = n.states
       /\ knownMember' = contexts[Me].version /\ knownGroup' = G
       /\ viewMember' = [version |-> contexts[Me].version, group |-> G]
  BY <1>10, <1>11 DEF SyncConnect, MembershipOf
<1>13. contexts' = contexts
  BY <1>1 DEF sourceData
<1>14. KnownOK'
  <2>1. contexts[Me].version \in Nat /\ G \in Nat
    BY <1>1, ContextOfMe
  <2> QED
    BY <1>8, <1>9, <1>12, <1>13, <2>1 DEF KnownOK, InGroup
<1>15. PICK v : v = ViewNow'
  OBVIOUS
<1>16. /\ v.member = [version |-> knownMember', group |-> knownGroup']
       /\ v.dir = [version |-> d.version, content |-> d.fingerprint]
       /\ v.presVer = n.version /\ v.pres = n.states
  BY <1>12, <1>15 DEF ViewNow
<1>17. Comes(v)'
  <2>1. PICK w : w = [i \in 1..1 |-> v]
    OBVIOUS
  <2>2. w[1] = v /\ Len(<<>>) + 1 = 1 /\ DOMAIN <<>> = {}
    BY <2>1
  <2>3. syncEvents' = <<>>
    BY <1>1
  <2>4. Leads(w)' /\ w[Len(syncEvents') + 1] = v
    BY <1>15, <2>2, <2>3 DEF Leads
  <2> QED
    BY <2>4 DEF Comes
<1>18. DOMAIN v.dir.content.names = M
  <2>1. d.fingerprint.names = [p \in M |-> profileVersions[p]]
    BY <1>8 DEF Fingerprint
  <2> QED
    BY <1>16, <2>1
<1>19. Covers(n, n.version, v)
  <2>1. n.states = [p \in M |-> p \in online]
    BY <1>9 DEF CurrentStates
  <2>2. DOMAIN n.states = M /\ n.states = [p \in DOMAIN n.states |-> n.states[p]]
    BY <2>1
  <2> QED
    BY <1>16, <1>18, <2>2 DEF Covers
<1>20. DirectoryFollows(v)'
  <2>1. directories'[knownGroup'] = d
    BY <1>3, <1>6, <1>12
  <2> QED
    BY <1>8, <1>12, <1>16, <2>1 DEF DirectoryFollows
<1>21. PresenceFollows(v)'
  <2>1. presences'[knownGroup'] = n
    BY <1>4, <1>7, <1>12
  <2>2. PresenceFollows(v)' <=>
            /\ knownPres' <= presences'[knownGroup'].version
            /\ knownPres' # 0 => v.presVer = knownPres' /\ Covers(presences'[knownGroup'], knownPres', v)
            /\ knownPres' = 0 => v.presVer = 0 \/ v.presVer < presences'[knownGroup'].version
    BY DEF PresenceFollows, Covers, ComesLater, Lost
  <2> QED
    BY <1>9, <1>12, <1>16, <1>19, <2>1, <2>2
<1>22. Follows(v)'
  BY <1>8, <1>9, <1>16, <1>20, <1>21 DEF Follows
<1>23. \E S : syncEvents' \in Seq(S)
  BY <1>1 DEF SyncInv
<1> QED
  BY <1>1, <1>2, <1>5, <1>14, <1>17, <1>22, <1>23 DEF SyncInv

\* A call fails.
LEMMA FailedCall ==
    ASSUME SyncInv, CallFails
    PROVE  SyncInv'
<1>1. /\ syncPc # "connect" /\ syncPc' # "connect"
      /\ UNCHANGED directoryVars /\ UNCHANGED knownVars /\ UNCHANGED <<syncEvents, clientView>>
      /\ UNCHANGED <<sourceData, changes>>
  BY DEF CallFails, directoryVars, sourceData
<1>2. SourcesOK /\ ServedOK /\ KnownOK /\ \E S : syncEvents \in Seq(S)
  BY <1>1 DEF SyncInv
<1>3. PICK v : Comes(v) /\ Follows(v)
  BY <1>1 DEF SyncInv
<1>4. MeMoves /\ DirectoriesGrow /\ PresencesGrow
  BY <1>1, <1>2, ServerStays
<1>5. ServedOK' /\ KnownOK' /\ Follows(v)'
  BY <1>1, <1>2, <1>3, <1>4, ServerMoves
<1>6. Comes(v)'
  BY <1>1, <1>3, NothingTold
<1>7. SourcesOK'
  BY <1>1, <1>2, SourcesStay
<1> QED
  BY <1>1, <1>2, <1>5, <1>6, <1>7 DEF SyncInv

\* The refresh thread asks for the membership.
LEMMA MembershipRefreshed ==
    ASSUME SyncInv, RefreshMembership
    PROVE  SyncInv'
<1>1. /\ syncPc # "connect" /\ syncPc' # "connect"
      /\ UNCHANGED directoryVars /\ UNCHANGED clientView
      /\ UNCHANGED <<sourceData, changes>>
  BY DEF RefreshMembership, directoryVars, sourceData, countVars
<1>2. SourcesOK /\ ServedOK /\ KnownOK /\ \E S : syncEvents \in Seq(S)
  BY <1>1 DEF SyncInv
<1>3. PICK v : Comes(v) /\ Follows(v)
  BY <1>1 DEF SyncInv
<1>4. MeMoves /\ DirectoriesGrow /\ PresencesGrow /\ SourcesOK'
  BY <1>1, <1>2, ServerStays, SourcesStay
<1> DEFINE cv == contexts[Me].version
           cg == contexts[Me].group
<1>5. cv \in Nat /\ cg \in Nat /\ cg \in VoiceGroups
  BY <1>2, ContextOfMe
<1>6. /\ contexts' = contexts /\ directories' = directories /\ presences' = presences
  BY <1>1 DEF directoryVars
<1>7. CASE ~(cv > knownMember)
  <2>1. UNCHANGED knownVars /\ UNCHANGED <<syncEvents, clientView>>
    BY <1>1, <1>7 DEF RefreshMembership, MembershipOf
  <2>2. ServedOK' /\ KnownOK' /\ Follows(v)'
    BY <1>2, <1>3, <1>4, <2>1, ServerMoves
  <2>3. Comes(v)'
    BY <1>3, <2>1, NothingTold
  <2> QED
    BY <1>1, <1>2, <1>4, <2>1, <2>2, <2>3 DEF SyncInv
<1>8. CASE cv > knownMember
  <2>1. PICK m : m = [version |-> cv, group |-> cg]
    OBVIOUS
  <2>2. PICK e : e = [type |-> "membership", membership |-> m]
    OBVIOUS
  <2>3. /\ knownMember' = cv /\ knownGroup' = cg
        /\ knownDir' = (IF cg = knownGroup THEN knownDir ELSE 0)
        /\ knownPres' = (IF cg = knownGroup THEN knownPres ELSE 0)
        /\ syncEvents' = Append(syncEvents, e)
    BY <1>8, <2>1, <2>2 DEF RefreshMembership, MembershipOf, Tell
  <2>4. PICK u : u = Shown(v, e) /\ Comes(u)'
    BY <1>1, <1>2, <1>3, <2>3, EventTold
  <2>5. \E S : syncEvents' \in Seq(S)
    BY <1>1, <1>2, <1>3, <2>3, EventTold
  <2>6. ServedOK'
    BY <1>2, <1>6 DEF ServedOK, PresenceOK
  <2>7. knownDir \in Nat /\ knownPres \in Nat /\ knownMember \in Nat
    BY <1>2 DEF KnownOK
  <2>8. KnownOK'
    <3>1. knownDir' \in Nat /\ knownPres' \in Nat
      BY <2>3, <2>7
    <3> QED
      BY <1>5, <1>6, <2>3, <3>1 DEF KnownOK, InGroup
  <2>9. u = MembershipShown(v, m) /\ m.version = cv /\ m.group = cg
    BY <2>1, <2>2, <2>4 DEF Shown
  <2>10. /\ v.member = [version |-> knownMember, group |-> knownGroup]
         /\ v.member.version = knownMember /\ v.member.group = knownGroup
         /\ v.dir.version \in Nat /\ v.presVer \in Nat
         /\ InGroup => DirectoryFollows(v)
         /\ InGroup /\ knownDir # 0 => PresenceFollows(v)
    BY <1>3 DEF Follows
  <2>11. ~(m.version <= v.member.version)
    BY <1>5, <1>8, <2>7, <2>9, <2>10
  <2>12. Follows(u)'
    <3>1. CASE cg = knownGroup
      <4>1. u = [member |-> m, dir |-> v.dir, presVer |-> v.presVer, pres |-> v.pres]
        BY <2>9, <2>10, <2>11, <3>1 DEF MembershipShown
      <4>2. u.member = m /\ u.dir = v.dir /\ u.presVer = v.presVer /\ u.pres = v.pres
        BY <4>1
      <4>3. knownDir' = knownDir /\ knownPres' = knownPres /\ knownGroup' = knownGroup
        BY <2>3, <3>1
      <4>4. InGroup
        BY <3>1 DEF InGroup
      <4>5. DirectoryFollows(u)'
        BY <1>6, <2>10, <4>2, <4>3, <4>4 DEF DirectoryFollows
      <4>6. knownDir # 0 => PresenceFollows(u)'
        <5>1. \A h, after : Covers(h, after, v) => Covers(h, after, u)
          BY <4>2 DEF Covers
        <5> SUFFICES ASSUME PresenceFollows(v) PROVE PresenceFollows(u)'
          BY <2>10, <4>4
        <5>2. PresenceFollows(u)
          BY <4>2, <5>1 DEF PresenceFollows
        <5> QED
          BY <1>6, <4>3, <5>2 DEF PresenceFollows, Covers, ComesLater, Lost
      <4> QED
        BY <2>1, <2>3, <2>10, <4>2, <4>3, <4>5, <4>6 DEF Follows
    <3>2. CASE cg # knownGroup
      <4>1. u = [member |-> m, dir |-> NoView, presVer |-> 0, pres |-> NoStates]
        BY <2>9, <2>10, <2>11, <3>2 DEF MembershipShown
      <4>2. u.member = m /\ u.dir.version = 0 /\ u.presVer = 0
        BY <4>1 DEF NoView
      <4>3. knownDir' = 0 /\ knownPres' = 0
        BY <2>3, <3>2
      <4>4. DirectoryFollows(u)'
        <5>1. directories'[knownGroup'].version \in Nat
          BY <1>2, <1>5, <1>6, <2>3 DEF ServedOK
        <5> QED
          BY <4>2, <4>3, <5>1 DEF DirectoryFollows
      <4> QED
        BY <2>1, <2>3, <4>2, <4>3, <4>4 DEF Follows
    <3> QED
      BY <3>1, <3>2
  <2> QED
    BY <1>1, <1>4, <2>4, <2>5, <2>6, <2>8, <2>12 DEF SyncInv
<1> QED
  BY <1>7, <1>8

\* The refresh thread asks for the directory.
LEMMA DirectoryFetchedHolds ==
    ASSUME SyncInv, NEW due \in BOOLEAN, FetchDirectory(due)
    PROVE  SyncInv'
<1>1. /\ syncPc # "connect" /\ syncPc' # "connect" /\ DirectoryFor(Me)
      /\ DirectoryFetched(DirectoryAnswer(Me, knownDir))
      /\ presences' = presences /\ knownMember' = knownMember /\ knownGroup' = knownGroup
      /\ UNCHANGED clientView
      /\ UNCHANGED <<sourceData, changes>>
  BY DEF FetchDirectory, countVars
<1>2. SourcesOK /\ ServedOK /\ KnownOK /\ \E S : syncEvents \in Seq(S)
  BY <1>1 DEF SyncInv
<1>3. PICK v : Comes(v) /\ Follows(v)
  BY <1>1 DEF SyncInv
<1>4. SourcesOK' /\ MeMoves /\ Me \in Actors
  BY <1>1, <1>2, SourcesStay, ContextOfMe
<1>5. DirectoriesGrow /\ (Served(Me) => directories'[contexts[Me].group] = NextDirectory(Me))
  BY <1>1, <1>2, <1>4, DirectoryGrows
<1>6. PresencesGrow
  <2>1. \A g \in VoiceGroups : presences[g].version \in Nat
    BY <1>2 DEF ServedOK, PresenceOK
  <2> QED
    BY <1>1, <1>2, <2>1 DEF PresencesGrow, ServedOK
<1>7. CASE DirectoryAnswer(Me, knownDir).status # 200
  <2>1. UNCHANGED knownVars /\ UNCHANGED <<syncEvents, clientView>>
    BY <1>1, <1>7 DEF DirectoryFetched, knownVars
  <2>2. ServedOK' /\ KnownOK' /\ Follows(v)'
    BY <1>2, <1>3, <1>4, <1>5, <1>6, <2>1, ServerMoves
  <2>3. Comes(v)'
    BY <1>3, <2>1, NothingTold
  <2> QED
    BY <1>1, <1>2, <1>4, <2>1, <2>2, <2>3 DEF SyncInv
<1>8. CASE DirectoryAnswer(Me, knownDir).status = 200
  <2>1. PICK d : d = NextDirectory(Me)
    OBVIOUS
  <2>2. Served(Me) /\ knownDir # d.version /\
        DirectoryAnswer(Me, knownDir) =
            [status |-> 200, version |-> d.version, content |-> d.fingerprint]
    BY <1>8, <2>1 DEF DirectoryAnswer, DirectoryUnavailable, Served
  <2>3. PICK e : e = [type |-> "directory", version |-> d.version, content |-> d.fingerprint]
    OBVIOUS
  <2>4. knownDir' = d.version /\ knownPres' = 0 /\ syncEvents' = Append(syncEvents, e)
    BY <1>1, <2>2, <2>3 DEF DirectoryFetched, Tell
  <2>5. PICK u : u = Shown(v, e) /\ Comes(u)'
    BY <1>1, <1>2, <1>3, <2>4, EventTold
  <2>6. \E S : syncEvents' \in Seq(S)
    BY <1>1, <1>2, <1>3, <2>4, EventTold
  <2>7. ServedOK'
    BY <1>5, <1>6 DEF ServedOK, DirectoriesGrow, PresencesGrow
  <2>8. /\ contexts[Me].group \in VoiceGroups
        /\ d.version \in Nat \ {0} /\ d.fingerprint = Fingerprint(Me)
        /\ d.version >= directories[contexts[Me].group].version
    BY <1>2, <1>4, <2>1, NextDirectoryFacts
  <2>9. d.fingerprint.group = contexts[Me].group
    BY <2>8 DEF Fingerprint
  <2>10. contexts' = contexts
    BY <1>1 DEF sourceData
  <2>11. KnownOK'
    BY <1>1, <1>2, <2>4, <2>8, <2>10 DEF KnownOK, InGroup
  <2>12. u = DirectoryShown(v, e) /\ e.version = d.version /\ e.content = d.fingerprint
    BY <2>3, <2>5 DEF Shown
  <2>13. /\ v.member = [version |-> knownMember, group |-> knownGroup]
         /\ v.member.group = knownGroup
         /\ v.dir.version \in Nat /\ v.presVer \in Nat
         /\ InGroup => DirectoryFollows(v)
    BY <1>3 DEF Follows
  <2>14. CASE InGroup
    <3>1. contexts[Me].group = knownGroup /\ directories'[knownGroup] = d
      BY <1>5, <2>1, <2>2, <2>14 DEF InGroup
    <3>2. d.version > v.dir.version
      <4>1. v.dir.version = knownDir /\ knownDir <= directories[knownGroup].version
        BY <2>13, <2>14 DEF DirectoryFollows
      <4>2. directories[knownGroup].version \in Nat /\ knownDir \in Nat
        BY <1>2, <2>13, <4>1 DEF ServedOK, KnownOK
      <4> QED
        BY <2>2, <2>8, <3>1, <4>1, <4>2
    <3>3. u = [member |-> v.member, dir |-> [version |-> d.version, content |-> d.fingerprint],
               presVer |-> 0, pres |-> NoStates]
      BY <2>9, <2>12, <2>13, <3>1, <3>2 DEF DirectoryShown
    <3>4. /\ u.member = v.member /\ u.dir.version = d.version /\ u.dir.content = d.fingerprint
          /\ u.presVer = 0
      BY <3>3
    <3>5. DirectoryFollows(u)'
      BY <1>1, <2>4, <2>8, <3>1, <3>4 DEF DirectoryFollows
    <3>6. PresenceFollows(u)'
      <4>1. presences'[knownGroup'].version \in Nat
        BY <1>1, <2>8, <3>1, <2>7 DEF ServedOK, PresenceOK
      <4> QED
        BY <2>4, <3>4, <4>1 DEF PresenceFollows
    <3>7. Follows(u)'
      BY <1>1, <2>8, <2>13, <3>4, <3>5, <3>6 DEF Follows
    <3> QED
      BY <1>1, <1>4, <2>5, <2>6, <2>7, <2>11, <3>7 DEF SyncInv
  <2>15. CASE ~InGroup
    <3>1. u = v
      BY <2>9, <2>12, <2>13, <2>15 DEF DirectoryShown, InGroup
    <3>2. ~InGroup'
      BY <1>1, <2>10, <2>15 DEF InGroup
    <3>3. Follows(u)'
      BY <1>1, <2>13, <3>1, <3>2 DEF Follows
    <3> QED
      BY <1>1, <1>4, <2>5, <2>6, <2>7, <2>11, <3>3 DEF SyncInv
  <2> QED
    BY <2>14, <2>15
<1> QED
  BY <1>7, <1>8

\* A delta has, for each player that some later revision lists, what is the case now.
LEMMA LatestFacts ==
    ASSUME NEW h, PresenceOK(h), NEW after \in Nat, NEW L, L = LatestChanges(h, after)
    PROVE  /\ \A p : p \in DOMAIN L <=> p \in DOMAIN h.states /\ ComesLater(h, after, p)
           /\ \A p \in DOMAIN L : L[p] = h.states[p]
<1> DEFINE revs == h.revisions
           newer == {i \in DOMAIN revs : revs[i].version > after}
           listed(p) == {i \in newer : p \in DOMAIN revs[i].entries}
           last(p) == CHOOSE i \in listed(p) : \A j \in listed(p) : j <= i
           D == {q \in DOMAIN h.states : listed(q) # {}}
<1>1. L = [p \in D |-> revs[last(p)].entries[p]]
  BY DEF LatestChanges
<1>2. /\ h.version \in Nat /\ Len(revs) \in Nat /\ DOMAIN revs = 1..Len(revs)
      /\ \A i \in DOMAIN revs : revs[i].version = (h.version - Len(revs)) + i
      /\ \A p \in DOMAIN h.states : \A i \in DOMAIN revs :
            /\ p \in DOMAIN revs[i].entries
            /\ \A j \in DOMAIN revs : j > i => p \notin DOMAIN revs[j].entries
            => revs[i].entries[p] = h.states[p]
  BY DEF PresenceOK
<1>3. \A p : listed(p) # {} <=> ComesLater(h, after, p)
  BY DEF ComesLater
<1>4. ASSUME NEW p \in D PROVE revs[last(p)].entries[p] = h.states[p]
  <2>1. listed(p) \in SUBSET (0..Len(revs)) /\ listed(p) # {}
    BY <1>2
  <2>2. Max(listed(p)) \in listed(p) /\ \A j \in listed(p) : j <= Max(listed(p))
    BY <1>2, <2>1, MaxIsGreatest
  <2>3. last(p) \in listed(p) /\ \A j \in listed(p) : j <= last(p)
    <3> HIDE DEF listed
    <3> QED
      BY <2>2
  <2>4. PICK k : k = last(p)
    OBVIOUS
  <2>5. k \in DOMAIN revs /\ k \in Nat /\ revs[k].version > after /\ p \in DOMAIN revs[k].entries
        /\ \A j \in listed(p) : j <= k
    <3> HIDE DEF last
    <3> QED
      BY <1>2, <2>3, <2>4
  <2>6. \A j \in DOMAIN revs : j > k => p \notin DOMAIN revs[j].entries
    <3> SUFFICES ASSUME NEW j \in DOMAIN revs, j > k, p \in DOMAIN revs[j].entries PROVE FALSE
      OBVIOUS
    <3>1. j \in Nat /\ revs[j].version > after
      <4>1. revs[j].version = (h.version - Len(revs)) + j /\ revs[k].version = (h.version - Len(revs)) + k
        BY <1>2, <2>5
      <4> HIDE DEF last, revs
      <4>2. j \in Nat
        BY <1>2
      <4> QED
        BY <1>2, <2>5, <4>1, <4>2
    <3>2. j \in listed(p)
      BY <3>1
    <3> HIDE DEF listed, last
    <3> QED
      BY <2>5, <3>1, <3>2
  <2>7. revs[k].entries[p] = h.states[p]
    BY <1>2, <2>5, <2>6
  <2> QED
    BY <2>4, <2>7
<1> HIDE DEF listed, last, revs
<1> QED
  BY <1>1, <1>3, <1>4

\* The view shows a snapshot: everyone the directory lists is as the server says.
LEMMA SnapshotShown ==
    ASSUME NEW n, PresenceOK(n), NEW v, NEW a, v.dir # NoView,
           a.version = n.version, a.mode = "snapshot", a.entries = n.states,
           n.version > v.presVer
    PROVE  /\ PresenceShown(v, a).member = v.member /\ PresenceShown(v, a).dir = v.dir
           /\ PresenceShown(v, a).presVer = n.version
           /\ Covers(n, n.version, PresenceShown(v, a))
<1> DEFINE listed == DOMAIN n.states \cap DOMAIN v.dir.content.names
<1>1. MergedInto(v, a) = [p \in listed |-> n.states[p]]
  BY DEF MergedInto, NoStates
<1>2. PICK m : m = [p \in listed |-> n.states[p]]
  OBVIOUS
<1>3. DOMAIN m = listed /\ m = [p \in DOMAIN m |-> m[p]] /\ \A p \in listed : m[p] = n.states[p]
  BY <1>2
<1>4. PICK u : u = PresenceShown(v, a)
  OBVIOUS
<1>5. u = [member |-> v.member, dir |-> v.dir, presVer |-> n.version, pres |-> m]
  BY <1>1, <1>2, <1>4 DEF PresenceShown
<1>6. u.member = v.member /\ u.dir = v.dir /\ u.presVer = n.version /\ u.pres = m
  BY <1>5
<1>7. Covers(n, n.version, u)
  BY <1>3, <1>6 DEF Covers
<1> QED
  BY <1>4, <1>6, <1>7

\* The view shows a delta that was computed for it.
LEMMA DeltaShown ==
    ASSUME NEW n, PresenceOK(n), NEW v, NEW a, NEW after \in Nat \ {0}, v.dir # NoView,
           v.presVer = after, Covers(n, after, v), ~Lost(n, after), after <= n.version,
           a.version = n.version, a.mode = "delta", a.entries = LatestChanges(n, after)
    PROVE  /\ PresenceShown(v, a).member = v.member /\ PresenceShown(v, a).dir = v.dir
           /\ PresenceShown(v, a).presVer = n.version
           /\ Covers(n, n.version, PresenceShown(v, a))
<1>0. n.version \in Nat
  BY DEF PresenceOK
<1>1. CASE after = n.version
  <2>1. PresenceShown(v, a) = v
    BY <1>0, <1>1 DEF PresenceShown
  <2> QED
    BY <1>1, <2>1
<1>2. CASE after # n.version
  <2>1. PICK L : L = LatestChanges(n, after)
    OBVIOUS
  <2>2. /\ \A p : p \in DOMAIN L <=> p \in DOMAIN n.states /\ ComesLater(n, after, p)
        /\ \A p \in DOMAIN L : L[p] = n.states[p]
    BY <2>1, LatestFacts
  <2> DEFINE N == DOMAIN v.dir.content.names
             listed == DOMAIN L \cap N
             D == DOMAIN v.pres \cup listed
  <2>3. MergedInto(v, a) = [p \in D |-> IF p \in listed THEN L[p] ELSE v.pres[p]]
    BY <2>1 DEF MergedInto
  <2>4. PICK m : m = [p \in D |-> IF p \in listed THEN L[p] ELSE v.pres[p]]
    OBVIOUS
  <2>5. DOMAIN m = D /\ m = [p \in DOMAIN m |-> m[p]]
        /\ (\A p \in listed : m[p] = L[p]) /\ (\A p \in DOMAIN v.pres : p \notin listed => m[p] = v.pres[p])
    BY <2>4
  <2>6. PICK u : u = PresenceShown(v, a)
    OBVIOUS
  <2>7. u = [member |-> v.member, dir |-> v.dir, presVer |-> n.version, pres |-> m]
    BY <1>0, <1>2, <2>3, <2>4, <2>6 DEF PresenceShown
  <2>8. u.member = v.member /\ u.dir = v.dir /\ u.presVer = n.version /\ u.pres = m
    BY <2>7
  <2>9. Covers(n, n.version, u)
    <3>1. DOMAIN m \subseteq N
      BY <2>5 DEF Covers
    <3>2. ASSUME NEW p \in N \cap DOMAIN n.states
          PROVE  p \in DOMAIN m /\ m[p] = n.states[p]
      <4>1. CASE ComesLater(n, after, p)
        BY <2>2, <2>5, <4>1
      <4>2. CASE ~ComesLater(n, after, p)
        <5>1. p \in DOMAIN v.pres /\ v.pres[p] = n.states[p]
          BY <4>2 DEF Covers
        <5> QED
          BY <2>2, <2>5, <4>2, <5>1
      <4> QED
        BY <4>1, <4>2
    <3> QED
      BY <2>5, <2>8, <3>1, <3>2 DEF Covers
  <2> QED
    BY <2>6, <2>8, <2>9
<1> QED
  BY <1>1, <1>2

\* Whatever a presence answer does to the view, it is still of the same membership and
\* directory.
LEMMA PresenceShownKeeps ==
    ASSUME NEW v, NEW a, v.presVer \in Nat, a.version \in Nat
    PROVE  LET u == PresenceShown(v, a)
           IN u.member = v.member /\ u.dir = v.dir /\ u.presVer \in Nat
BY DEF PresenceShown

\* The refresh thread asks for the presence.
LEMMA PresenceFetchedHolds ==
    ASSUME SyncInv, FetchPresence
    PROVE  SyncInv'
<1>1. /\ syncPc # "connect" /\ syncPc' # "connect" /\ PresenceFor(Me)
      /\ directories' = directories /\ knownMember' = knownMember /\ knownGroup' = knownGroup
      /\ knownDir' = knownDir
      /\ UNCHANGED clientView
      /\ UNCHANGED <<sourceData, changes>>
  BY DEF FetchPresence, countVars
<1>2. SourcesOK /\ ServedOK /\ KnownOK /\ \E S : syncEvents \in Seq(S)
  BY <1>1 DEF SyncInv
<1>3. PICK v : Comes(v) /\ Follows(v)
  BY <1>1 DEF SyncInv
<1>4. SourcesOK' /\ MeMoves /\ Me \in Actors
  BY <1>1, <1>2, SourcesStay, ContextOfMe
<1>5. PresencesGrow /\ (Served(Me) => presences'[contexts[Me].group] = NextPresence(Me))
  BY <1>1, <1>2, <1>4, PresenceGrows
<1>6. DirectoriesGrow
  BY <1>1, <1>2 DEF DirectoriesGrow, ServedOK
<1>7. ServedOK'
  BY <1>5, <1>6 DEF ServedOK, DirectoriesGrow, PresencesGrow
<1>8. contexts' = contexts
  BY <1>1 DEF sourceData
<1>9. /\ v.member = [version |-> knownMember, group |-> knownGroup]
      /\ v.dir.version \in Nat /\ v.presVer \in Nat
      /\ InGroup => DirectoryFollows(v)
      /\ InGroup /\ knownDir # 0 => PresenceFollows(v)
  BY <1>3 DEF Follows
<1>10. knownDir \in Nat /\ knownPres \in Nat /\ knownGroup \in VoiceGroups
  BY <1>2 DEF KnownOK
<1>11. InGroup' <=> InGroup
  BY <1>1, <1>8 DEF InGroup
<1>12. knownPres' \in Nat => KnownOK'
  BY <1>1, <1>2, <1>8 DEF KnownOK, InGroup
<1>13. PICK n : n = NextPresence(Me)
  OBVIOUS
<1>14. PICK h : h = presences[contexts[Me].group]
  OBVIOUS
<1>15. /\ PresenceOK(n) /\ PresenceOK(h) /\ n.version \in Nat \ {0} /\ n.version >= h.version
       /\ h.version \in Nat
       /\ \A after \in Nat \ {0} : after <= h.version /\ Covers(h, after, v) => Covers(n, after, v)
  <2>1. /\ PresenceOK(n) /\ PresenceOK(h) /\ n.version \in Nat \ {0} /\ n.version >= h.version
        /\ \A after \in Nat \ {0} : \A x : after <= h.version /\ Covers(h, after, x) => Covers(n, after, x)
    BY <1>2, <1>4, <1>13, <1>14, NextPresenceFacts
  <2>2. h.version \in Nat
    BY <2>1 DEF PresenceOK
  <2> QED
    BY <2>1, <2>2
<1> DEFINE answer == PresenceAnswer(Me, knownPres)
\* Any view that has the directory of v, and the presence that the thread knows now.
<1>16. ASSUME NEW u, u.member = v.member, u.dir = v.dir, u.presVer \in Nat,
              InGroup /\ knownDir # 0 => PresenceFollows(u)'
       PROVE  Follows(u)'
  <2>1. InGroup => DirectoryFollows(u)'
    BY <1>1, <1>9, <1>16 DEF DirectoryFollows
  <2> QED
    BY <1>1, <1>9, <1>11, <1>16, <2>1 DEF Follows
<1>17. \A u : PresenceFollows(u)' <=>
            /\ knownPres' <= presences'[knownGroup].version
            /\ knownPres' # 0 => u.presVer = knownPres' /\ Covers(presences'[knownGroup], knownPres', u)
            /\ knownPres' = 0 => u.presVer = 0 \/ u.presVer < presences'[knownGroup].version
  BY <1>1 DEF PresenceFollows, Covers, ComesLater, Lost
\* What the refresh thread knew, if it is of the group it is in.
<1>18. ASSUME InGroup, knownDir # 0
       PROVE  /\ v.dir # NoView /\ knownPres <= h.version
              /\ knownPres # 0 => v.presVer = knownPres /\ Covers(n, knownPres, v)
              /\ knownPres = 0 => v.presVer = 0 \/ v.presVer < h.version
              /\ Served(Me) => presences'[knownGroup] = n
  <2>1. h = presences[knownGroup] /\ contexts[Me].group = knownGroup
    BY <1>14, <1>18 DEF InGroup
  <2>2. v.dir.version = knownDir
    BY <1>9, <1>18 DEF DirectoryFollows
  <2>3. v.dir # NoView
    BY <1>18, <2>2 DEF NoView
  <2>4. /\ knownPres <= h.version
        /\ knownPres # 0 => v.presVer = knownPres /\ Covers(h, knownPres, v)
        /\ knownPres = 0 => v.presVer = 0 \/ v.presVer < h.version
    BY <1>9, <1>18, <2>1 DEF PresenceFollows
  <2> QED
    BY <1>5, <1>10, <1>13, <1>15, <2>1, <2>3, <2>4
<1>19. CASE ~Served(Me)
  <2>1. answer = DirectoryUnavailable
    BY <1>19 DEF PresenceAnswer
  <2>2. knownPres' = knownPres /\ syncEvents' = syncEvents
    BY <2>1 DEF FetchPresence, DirectoryUnavailable
  <2>3. UNCHANGED knownVars /\ UNCHANGED <<syncEvents, clientView>>
    BY <1>1, <2>2 DEF knownVars
  <2>4. KnownOK' /\ Follows(v)'
    BY <1>2, <1>3, <1>4, <1>5, <1>6, <2>3, ServerMoves
  <2>5. Comes(v)'
    BY <1>3, <2>3, NothingTold
  <2> QED
    BY <1>1, <1>2, <1>4, <1>7, <2>2, <2>4, <2>5 DEF SyncInv
<1>20. CASE Served(Me) /\ knownPres # 0 /\ SnapshotRequired(n, knownPres)
  <2>1. answer = [status |-> 409]
    BY <1>13, <1>20 DEF PresenceAnswer
  <2>2. knownPres' = 0 /\ syncEvents' = syncEvents
    BY <2>1 DEF FetchPresence
  <2>3. Comes(v)'
    BY <1>1, <1>3, <2>2, NothingTold
  <2>4. InGroup /\ knownDir # 0 => PresenceFollows(v)'
    <3> SUFFICES ASSUME InGroup, knownDir # 0 PROVE PresenceFollows(v)'
      OBVIOUS
    <3>1. /\ knownPres <= h.version /\ v.presVer = knownPres /\ presences'[knownGroup] = n
      BY <1>18, <1>20
    <3>2. knownPres < n.version
      <4>1. n.revisions # <<>> /\ knownPres < n.revisions[1].version - 1
        BY <1>10, <1>15, <1>20, <3>1 DEF SnapshotRequired
      <4>2. 1 \in DOMAIN n.revisions /\ Len(n.revisions) \in Nat \ {0}
        BY <1>15, <4>1 DEF PresenceOK
      <4>3. n.revisions[1].version = (n.version - Len(n.revisions)) + 1
        BY <1>15, <4>2 DEF PresenceOK
      <4> QED
        BY <1>10, <1>15, <4>1, <4>2, <4>3
    <3> QED
      BY <1>15, <1>17, <2>2, <3>1, <3>2
  <2>5. Follows(v)'
    BY <1>9, <1>16, <2>4
  <2> QED
    BY <1>1, <1>2, <1>4, <1>7, <1>12, <2>2, <2>3, <2>5 DEF SyncInv
<1>21. CASE Served(Me) /\ knownPres # 0 /\ ~SnapshotRequired(n, knownPres)
  <2>1. PICK a : a = [status |-> 200, version |-> n.version, mode |-> "delta",
                      entries |-> LatestChanges(n, knownPres)]
    OBVIOUS
  <2>2. answer = a
    BY <1>13, <1>21, <2>1 DEF PresenceAnswer
  <2>3. PICK e : e = [type |-> "presence", answer |-> a]
    OBVIOUS
  <2>4. a.status = 200 /\ a.version = n.version /\ a.mode = "delta"
        /\ a.entries = LatestChanges(n, knownPres)
    BY <2>1
  <2>5. knownPres' = n.version /\ syncEvents' = Append(syncEvents, e)
    BY <2>2, <2>3, <2>4 DEF FetchPresence, Tell
  <2>6. PICK u : u = Shown(v, e) /\ Comes(u)'
    BY <1>1, <1>2, <1>3, <2>5, EventTold
  <2>7. \E S : syncEvents' \in Seq(S)
    BY <1>1, <1>2, <1>3, <2>5, EventTold
  <2>8. u = PresenceShown(v, a)
    BY <2>3, <2>6 DEF Shown
  <2>9. u.member = v.member /\ u.dir = v.dir /\ u.presVer \in Nat
    BY <1>9, <1>15, <2>4, <2>8, PresenceShownKeeps
  <2>10. InGroup /\ knownDir # 0 => PresenceFollows(u)'
    <3> SUFFICES ASSUME InGroup, knownDir # 0 PROVE PresenceFollows(u)'
      OBVIOUS
    <3>1. /\ v.dir # NoView /\ knownPres <= h.version /\ presences'[knownGroup] = n
          /\ v.presVer = knownPres /\ Covers(n, knownPres, v)
      BY <1>18, <1>21
    <3>2. ~Lost(n, knownPres) /\ knownPres <= n.version
      BY <1>10, <1>15, <1>21, <3>1 DEF SnapshotRequired, Lost
    <3>3. u.presVer = n.version /\ Covers(n, n.version, u)
      BY <1>10, <1>15, <1>21, <2>4, <2>8, <3>1, <3>2, DeltaShown
    <3> QED
      BY <1>15, <1>17, <2>5, <3>1, <3>3
  <2>11. Follows(u)'
    BY <1>16, <2>9, <2>10
  <2> QED
    BY <1>1, <1>4, <1>7, <1>12, <1>15, <2>5, <2>6, <2>7, <2>11 DEF SyncInv
<1>22. CASE Served(Me) /\ knownPres = 0
  <2>1. PICK a : a = [status |-> 200, version |-> n.version, mode |-> "snapshot",
                      entries |-> n.states]
    OBVIOUS
  <2>2. answer = a
    BY <1>13, <1>22, <2>1 DEF PresenceAnswer
  <2>3. PICK e : e = [type |-> "presence", answer |-> a]
    OBVIOUS
  <2>4. a.status = 200 /\ a.version = n.version /\ a.mode = "snapshot" /\ a.entries = n.states
    BY <2>1
  <2>5. knownPres' = n.version /\ syncEvents' = Append(syncEvents, e)
    BY <2>2, <2>3, <2>4 DEF FetchPresence, Tell
  <2>6. PICK u : u = Shown(v, e) /\ Comes(u)'
    BY <1>1, <1>2, <1>3, <2>5, EventTold
  <2>7. \E S : syncEvents' \in Seq(S)
    BY <1>1, <1>2, <1>3, <2>5, EventTold
  <2>8. u = PresenceShown(v, a)
    BY <2>3, <2>6 DEF Shown
  <2>9. u.member = v.member /\ u.dir = v.dir /\ u.presVer \in Nat
    BY <1>9, <1>15, <2>4, <2>8, PresenceShownKeeps
  <2>10. InGroup /\ knownDir # 0 => PresenceFollows(u)'
    <3> SUFFICES ASSUME InGroup, knownDir # 0 PROVE PresenceFollows(u)'
      OBVIOUS
    <3>1. /\ v.dir # NoView /\ presences'[knownGroup] = n
          /\ v.presVer = 0 \/ v.presVer < h.version
      BY <1>18, <1>22
    <3>2. n.version > v.presVer
      BY <1>9, <1>15, <3>1
    <3>3. u.presVer = n.version /\ Covers(n, n.version, u)
      BY <1>15, <2>4, <2>8, <3>1, <3>2, SnapshotShown
    <3> QED
      BY <1>15, <1>17, <2>5, <3>1, <3>3
  <2>11. Follows(u)'
    BY <1>16, <2>9, <2>10
  <2> QED
    BY <1>1, <1>4, <1>7, <1>12, <1>15, <2>5, <2>6, <2>7, <2>11 DEF SyncInv
<1> QED
  BY <1>19, <1>20, <1>21, <1>22

-----------------------------------------------------------------------------
\* The window takes the next event, of whatever type.
LEMMA ViewSteps ==
    ASSUME SyncInv, ViewStep
    PROVE  SyncInv'
<1> DEFINE e == Head(syncEvents)
<1>1. /\ syncEvents # <<>> /\ syncEvents' = Tail(syncEvents) /\ UNCHANGED directoryVars
      /\ UNCHANGED knownVars /\ syncPc' = syncPc /\ UNCHANGED <<sourceData, changes>>
  BY DEF ViewStep, ViewMembership, ViewDirectory, ViewPresence, NextEvent, TakeEvent, countVars,
         directoryVars, sourceData
<1>2. /\ SourcesOK /\ ServedOK /\ KnownOK /\ syncPc # "connect" /\ \E S : syncEvents \in Seq(S)
  BY <1>1 DEF SyncInv
<1>3. PICK v : Comes(v) /\ Follows(v)
  BY <1>2 DEF SyncInv
<1>4. MeMoves /\ DirectoriesGrow /\ PresencesGrow /\ SourcesOK'
  BY <1>1, <1>2, ServerStays, SourcesStay
<1>5. ServedOK' /\ KnownOK' /\ Follows(v)'
  BY <1>1, <1>2, <1>3, <1>4, ServerMoves
<1>6. ViewNow' = Shown(ViewNow, e)
  <2>1. CASE ViewMembership
    <3>1. Shown(ViewNow, e) = MembershipShown(ViewNow, e.membership)
      BY <2>1 DEF Shown, ViewMembership, NextEvent
    <3> HIDE DEF e
    <3>2. IF e.membership.version <= viewMember.version THEN UNCHANGED clientView
          ELSE /\ viewMember' = e.membership
               /\ IF e.membership.group = viewMember.group THEN UNCHANGED <<viewDir, viewPresVer, viewPres>>
                  ELSE viewDir' = NoView /\ viewPresVer' = 0 /\ viewPres' = NoStates
      BY <2>1 DEF ViewMembership, e
    <3> QED
      BY <3>1, <3>2 DEF MembershipShown, ViewNow, clientView
  <2>2. CASE ViewDirectory
    <3>1. Shown(ViewNow, e) = DirectoryShown(ViewNow, e)
      BY <2>2 DEF Shown, ViewDirectory, NextEvent
    <3>2. /\ IF DirectoryAccepted(e)
             THEN /\ viewDir' = [version |-> e.version, content |-> e.content]
                  /\ viewPresVer' = 0
                  /\ viewPres' = NoStates
             ELSE UNCHANGED <<viewDir, viewPresVer, viewPres>>
          /\ viewMember' = viewMember
      BY <2>2 DEF ViewDirectory
    <3> HIDE DEF e
    <3> QED
      BY <3>1, <3>2 DEF DirectoryShown, DirectoryAccepted, ViewNow
  <2>3. CASE ViewPresence
    <3>1. Shown(ViewNow, e) = PresenceShown(ViewNow, e.answer)
      BY <2>3 DEF Shown, ViewPresence, NextEvent
    <3> DEFINE a == e.answer
    <3>2. /\ IF PresenceAccepted(a)
             THEN viewPresVer' = a.version /\ viewPres' = Merged(a)
             ELSE UNCHANGED <<viewPresVer, viewPres>>
          /\ viewMember' = viewMember /\ viewDir' = viewDir
      BY <2>3 DEF ViewPresence
    <3> HIDE DEF e, a
    <3>3. Merged(a) = MergedInto(ViewNow, a)
      BY DEF Merged, MergedInto, ViewNow
    <3>4. PresenceShown(ViewNow, a) =
            IF PresenceAccepted(a)
            THEN [member |-> viewMember, dir |-> viewDir, presVer |-> a.version, pres |-> Merged(a)]
            ELSE ViewNow
      BY <3>3 DEF PresenceShown, PresenceAccepted, ViewNow
    <3> QED
      BY <3>1, <3>2, <3>4 DEF ViewNow, a
  <2> QED
    BY <2>1, <2>2, <2>3 DEF ViewStep
<1>7. (\E S : syncEvents' \in Seq(S)) /\ Comes(v)'
  BY <1>1, <1>2, <1>3, <1>6, EventTaken
<1> QED
  BY <1>1, <1>2, <1>4, <1>5, <1>7 DEF SyncInv

\* The server moves on behind the client's back, while it is connected or before.
LEMMA ServerStepHolds ==
    ASSUME SyncInv, SourcesOK', MeMoves, DirectoriesGrow, PresencesGrow,
           UNCHANGED knownVars, UNCHANGED <<syncEvents, clientView>>, syncPc' = syncPc
    PROVE  SyncInv'
<1>1. SourcesOK /\ ServedOK /\ \E S : syncEvents \in Seq(S)
  BY DEF SyncInv
<1>2. ServedOK'
  BY DEF ServedOK, DirectoriesGrow, PresencesGrow
<1>3. CASE syncPc = "connect"
  BY <1>1, <1>2, <1>3 DEF SyncInv
<1>4. CASE syncPc # "connect"
  <2>1. KnownOK
    BY <1>4 DEF SyncInv
  <2>2. PICK v : Comes(v) /\ Follows(v)
    BY <1>4 DEF SyncInv
  <2>3. KnownOK' /\ Follows(v)'
    BY <1>1, <2>1, <2>2, ServerMoves
  <2>4. Comes(v)'
    BY <2>2, NothingTold
  <2> QED
    BY <1>1, <1>2, <1>4, <2>3, <2>4 DEF SyncInv
<1> QED
  BY <1>3, <1>4

\* Another client polls.
LEMMA OthersPolled ==
    ASSUME SyncInv, OthersPoll
    PROVE  SyncInv'
<1>1. PICK a \in Actors : \/ DirectoryFor(a) /\ UNCHANGED presences
                          \/ PresenceFor(a) /\ UNCHANGED directories
  BY DEF OthersPoll
<1>2. /\ UNCHANGED knownVars /\ UNCHANGED <<syncEvents, clientView>> /\ syncPc' = syncPc
      /\ UNCHANGED <<sourceData, changes>>
  BY DEF OthersPoll
<1>3. SourcesOK /\ ServedOK
  BY DEF SyncInv
<1>4. DirectoriesGrow /\ PresencesGrow
  <2>1. CASE DirectoryFor(a) /\ presences' = presences
    <3>1. DirectoriesGrow
      BY <1>3, <2>1, DirectoryGrows
    <3>2. \A g \in VoiceGroups : presences[g].version \in Nat
      BY <1>3 DEF ServedOK, PresenceOK
    <3> QED
      BY <1>3, <2>1, <3>1, <3>2 DEF PresencesGrow, ServedOK
  <2>2. CASE PresenceFor(a) /\ directories' = directories
    <3>1. PresencesGrow
      BY <1>3, <2>2, PresenceGrows
    <3> QED
      BY <1>3, <2>2, <3>1 DEF DirectoriesGrow, ServedOK
  <2> QED
    BY <1>1, <2>1, <2>2
<1>5. SourcesOK' /\ MeMoves
  BY <1>2, <1>3, SourcesStay
<1> QED
  BY <1>2, <1>4, <1>5, ServerStepHolds

\* The server's data changes: versions go up by one, and a player moves on.
LEMMA ServerDataChanged ==
    ASSUME SyncInv, ServerChanges
    PROVE  SyncInv'
<1>1. /\ UNCHANGED knownVars /\ UNCHANGED <<syncEvents, clientView>> /\ syncPc' = syncPc
      /\ changes < MaxChanges /\ changes' = changes + 1
  BY DEF ServerChanges, ServerChanged
<1>2. SourcesOK /\ ServedOK /\ changes \in Nat /\ changes' \in 0..MaxChanges
  BY <1>1, SyncAssumption DEF SyncInv, SourcesOK
<1>3. directories' = directories /\ presences' = presences
  BY DEF ServerChanges, UpsertProfile, ReplacePublicRoles, ReplaceContext, ConnectedScopesChange,
         GroupActivityChanges
<1>4. DirectoriesGrow
  BY <1>2, <1>3 DEF DirectoriesGrow, ServedOK
<1>5. PresencesGrow
  <2>1. \A g \in VoiceGroups : presences[g].version \in Nat
    BY <1>2 DEF ServedOK, PresenceOK
  <2> QED
    BY <1>2, <1>3, <2>1 DEF PresencesGrow, ServedOK
<1> DEFINE Ctx(k) == [version : 1..(k + 1), group : VoiceGroups, members : SUBSET Members]
<1>6. /\ contexts \in [Actors -> Ctx(changes)] /\ online \subseteq Members
      /\ profileVersions \in [Members -> 0..changes] /\ catalog \in 0..changes
  BY <1>2 DEF SourcesOK
<1>7. /\ contexts \in [Actors -> Ctx(changes')]
      /\ profileVersions \in [Members -> 0..changes'] /\ catalog \in 0..changes'
  <2>1. \A x \in 0..changes : x \in 0..changes'
    BY <1>1, <1>2
  <2>2. \A c \in Ctx(changes) : c \in Ctx(changes')
    <3>1. \A x \in 1..(changes + 1) : x \in 1..(changes' + 1)
      BY <1>1, <1>2
    <3> QED
      BY <3>1
  <2> HIDE DEF Ctx
  <2> QED
    BY <1>6, <2>1, <2>2
<1>8. /\ Me \in Actors /\ contexts[Me].version \in Nat
      /\ contexts[Me].group \in VoiceGroups /\ contexts[Me].group \in Nat
  BY <1>2, ContextOfMe
<1>9. contexts' = contexts => MeMoves
  BY <1>8 DEF MeMoves
<1>10. SourcesOK' /\ MeMoves
  <2>1. ASSUME NEW p \in Members, UpsertProfile(p, profileVersions[p] + 1)
        PROVE  SourcesOK' /\ MeMoves
    <3>1. /\ profileVersions' = [profileVersions EXCEPT ![p] = profileVersions[p] + 1]
          /\ contexts' = contexts /\ online' = online /\ catalog' = catalog
      BY <2>1 DEF UpsertProfile
    <3>2. profileVersions[p] + 1 \in 0..changes'
      BY <1>1, <1>2, <1>6
    <3>3. profileVersions' \in [Members -> 0..changes']
      BY <1>7, <3>1, <3>2
    <3> QED
      BY <1>2, <1>6, <1>7, <1>9, <3>1, <3>3 DEF SourcesOK
  <2>2. ASSUME ReplacePublicRoles(catalog + 1) PROVE SourcesOK' /\ MeMoves
    <3>1. /\ catalog' = catalog + 1
          /\ contexts' = contexts /\ online' = online /\ profileVersions' = profileVersions
      BY <2>2 DEF ReplacePublicRoles
    <3>2. catalog' \in 0..changes'
      BY <1>1, <1>2, <1>6, <3>1
    <3> QED
      BY <1>2, <1>6, <1>7, <1>9, <3>1, <3>2 DEF SourcesOK
  <2>3. ASSUME NEW a \in Actors, NEW g \in VoiceGroups, NEW m \in SUBSET Members,
               MovesOn(a, g), ReplaceContext(a, g, m)
        PROVE  SourcesOK' /\ MeMoves
    <3>1. /\ contexts' = [contexts EXCEPT ![a] =
                [version |-> contexts[a].version + 1, group |-> g, members |-> m]]
          /\ online' = online /\ catalog' = catalog /\ profileVersions' = profileVersions
      BY <2>3 DEF ReplaceContext
    <3>2. contexts[a].version \in 1..(changes + 1)
      BY <1>6
    <3>3. [version |-> contexts[a].version + 1, group |-> g, members |-> m] \in Ctx(changes')
      <4>1. contexts[a].version + 1 \in 1..(changes' + 1)
        BY <1>1, <1>2, <3>2
      <4> QED
        BY <4>1
    <3>4. contexts' \in [Actors -> Ctx(changes')]
      <4> HIDE DEF Ctx
      <4> QED
        BY <1>7, <3>1, <3>3
    <3>5. MeMoves
      <4>1. CASE a = Me
        <5>1. contexts'[Me] = [version |-> contexts[Me].version + 1, group |-> g, members |-> m]
          BY <1>6, <1>8, <3>1, <4>1
        <5>2. contexts'[Me].version = contexts[Me].version + 1 /\ contexts'[Me].group = g
          BY <5>1
        <5>3. g \in Nat /\ g >= contexts[Me].group
          BY <2>3, <4>1, DirectoryAssumption DEF MovesOn
        <5> QED
          BY <1>8, <5>2, <5>3 DEF MeMoves
      <4>2. CASE a # Me
        <5>1. contexts'[Me] = contexts[Me]
          BY <1>6, <1>8, <3>1, <4>2
        <5> QED
          BY <1>8, <5>1 DEF MeMoves
      <4> QED
        BY <4>1, <4>2
    <3> QED
      BY <1>2, <1>6, <1>7, <3>1, <3>4, <3>5 DEF SourcesOK
  <2>4. ASSUME NEW p \in Members, ConnectedScopesChange(p) PROVE SourcesOK' /\ MeMoves
    <3>1. /\ online' = IF p \in online THEN online \ {p} ELSE online \cup {p}
          /\ contexts' = contexts /\ catalog' = catalog /\ profileVersions' = profileVersions
      BY <2>4 DEF ConnectedScopesChange
    <3>2. online' \subseteq Members
      BY <1>6, <3>1
    <3> QED
      BY <1>2, <1>7, <1>9, <3>1, <3>2 DEF SourcesOK
  <2>5. ASSUME NEW g \in VoiceGroups, GroupActivityChanges(g) PROVE SourcesOK' /\ MeMoves
    <3>1. online' = online /\ contexts' = contexts /\ catalog' = catalog
          /\ profileVersions' = profileVersions
      BY <2>5 DEF GroupActivityChanges
    <3> QED
      BY <1>2, <1>6, <1>7, <1>9, <3>1 DEF SourcesOK
  <2> QED
    BY <2>1, <2>2, <2>3, <2>4, <2>5 DEF ServerChanges
<1> QED
  BY <1>1, <1>4, <1>5, <1>10, ServerStepHolds

\* No step leads out of the invariant.
LEMMA StepSync == SyncInv /\ [SyncNext]_allSyncVars => SyncInv'
<1> SUFFICES ASSUME SyncInv, [SyncNext]_allSyncVars PROVE SyncInv'
  OBVIOUS
<1>1. CASE UNCHANGED allSyncVars
  <2>1. /\ UNCHANGED directoryVars /\ UNCHANGED knownVars /\ UNCHANGED <<syncEvents, clientView>>
        /\ syncPc' = syncPc /\ UNCHANGED <<sourceData, changes>>
    BY <1>1 DEF allSyncVars, syncVars, countVars, directoryVars, sourceData
  <2>2. SourcesOK /\ ServedOK
    BY DEF SyncInv
  <2>3. SourcesOK' /\ MeMoves /\ DirectoriesGrow /\ PresencesGrow
    BY <2>1, <2>2, ServerStays, SourcesStay
  <2> QED
    BY <2>1, <2>3, ServerStepHolds
<1>2. CASE SyncConnect
  BY <1>2, Connected
<1>3. CASE CallFails
  BY <1>3, FailedCall
<1>4. CASE RefreshMembership
  BY <1>4, MembershipRefreshed
<1>5. ASSUME NEW due \in BOOLEAN, FetchDirectory(due) PROVE SyncInv'
  BY <1>5, DirectoryFetchedHolds
<1>6. CASE FetchPresence
  BY <1>6, PresenceFetchedHolds
<1>7. CASE ViewStep
  BY <1>7, ViewSteps
<1>8. CASE ServerChanges
  BY <1>8, ServerDataChanged
<1>9. CASE OthersPoll
  BY <1>9, OthersPolled
<1> QED
  BY <1>1, <1>2, <1>3, <1>4, <1>5, <1>6, <1>7, <1>8, <1>9 DEF SyncNext, RefreshStep

\* The invariant says what a client that has the server's versions shows.
LEMMA InvShowsServer == SyncInv => ViewMatchesServer
<1> SUFFICES ASSUME SyncInv, UpToDate
             PROVE  viewDir.content = Fingerprint(Me) /\ viewPres = CurrentStates(Me)
  BY DEF ViewMatchesServer
<1>1. /\ syncPc = "sleep" /\ syncEvents = <<>> /\ knownMember = contexts[Me].version
      /\ knownDir = NextDirectory(Me).version /\ knownPres = NextPresence(Me).version
  BY DEF UpToDate
<1>2. SourcesOK /\ ServedOK /\ KnownOK /\ Me \in Actors
  BY <1>1, SyncAssumption DEF SyncInv
<1>3. PICK v : Comes(v) /\ Follows(v)
  BY <1>1 DEF SyncInv
<1>4. v = ViewNow
  <2>1. PICK w : Leads(w) /\ w[Len(syncEvents) + 1] = v
    BY <1>3 DEF Comes
  <2>2. Len(<<>>) + 1 = 1
    OBVIOUS
  <2> QED
    BY <1>1, <2>1, <2>2 DEF Leads
<1>5. v.dir = viewDir /\ v.pres = viewPres
  BY <1>4 DEF ViewNow
<1>6. contexts[Me].group = knownGroup /\ knownGroup \in VoiceGroups /\ knownDir \in Nat /\ knownPres \in Nat
  BY <1>1, <1>2 DEF KnownOK, InGroup
<1>7. PICK last : last = directories[knownGroup]
  OBVIOUS
<1>8. /\ NextDirectory(Me).version \in Nat \ {0} /\ NextDirectory(Me).version >= last.version
      /\ NextDirectory(Me).fingerprint = Fingerprint(Me)
      /\ NextDirectory(Me).version = last.version => NextDirectory(Me) = last
  BY <1>2, <1>6, <1>7, NextDirectoryFacts
<1>9. v.dir.content = Fingerprint(Me)
  <2>1. knownDir <= last.version /\ (knownDir # 0 /\ knownDir = last.version =>
                                       v.dir.content = last.fingerprint)
    BY <1>3, <1>6, <1>7 DEF Follows, InGroup, DirectoryFollows
  <2>2. last.version \in Nat
    BY <1>2, <1>6, <1>7 DEF ServedOK
  <2>3. knownDir = last.version
    BY <1>1, <1>6, <1>8, <2>1, <2>2
  <2> QED
    BY <1>1, <1>8, <2>1, <2>3
<1>10. PICK h : h = presences[knownGroup]
  OBVIOUS
<1>11. PICK n : n = NextPresence(Me)
  OBVIOUS
<1>12. /\ PresenceOK(h) /\ n.version \in Nat \ {0} /\ n.version >= h.version
       /\ n.states = CurrentStates(Me)
       /\ n.version = h.version => n = h
  <2>1. h = presences[contexts[Me].group]
    BY <1>6, <1>10
  <2> QED
    BY <1>2, <1>11, <2>1, NextPresenceFacts
<1>13. knownPres <= h.version /\ (knownPres # 0 => Covers(h, knownPres, v))
  <2>1. knownDir # 0
    BY <1>1, <1>8
  <2>2. PresenceFollows(v)
    BY <1>3, <1>6, <2>1 DEF Follows, InGroup
  <2> QED
    BY <1>10, <2>2 DEF PresenceFollows
<1>14. /\ h.version \in Nat /\ Len(h.revisions) \in Nat /\ DOMAIN h.revisions = 1..Len(h.revisions)
       /\ \A i \in DOMAIN h.revisions : h.revisions[i].version = (h.version - Len(h.revisions)) + i
  BY <1>12 DEF PresenceOK
<1>15. knownPres = h.version /\ n = h /\ Covers(h, h.version, v)
  BY <1>1, <1>6, <1>11, <1>12, <1>13, <1>14
<1>16. \A i \in DOMAIN h.revisions : h.revisions[i].version <= h.version
  BY <1>14
<1>17. /\ \A p : ~ComesLater(h, h.version, p)
       /\ ~Lost(h, h.version)
  <2>1. \A i \in DOMAIN h.revisions : ~(h.revisions[i].version > h.version)
    BY <1>14, <1>16
  <2>2. ~Lost(h, h.version)
    <3> SUFFICES ASSUME h.revisions # <<>>, h.version < h.revisions[1].version - 1 PROVE FALSE
      BY DEF Lost
    <3>1. h.revisions \in Seq(Revisions)
      BY <1>12 DEF PresenceOK
    <3>2. 1 \in DOMAIN h.revisions
      BY <3>1
    <3> QED
      BY <1>14, <3>2
  <2> QED
    BY <2>1, <2>2 DEF ComesLater
<1>18. DOMAIN v.dir.content.names = contexts[Me].members
  BY <1>9 DEF Fingerprint
<1>19. h.states = [p \in contexts[Me].members |-> p \in online]
  BY <1>12, <1>15 DEF CurrentStates
<1>20. v.pres = h.states
  <2>1. DOMAIN h.states = contexts[Me].members /\ h.states = [p \in DOMAIN h.states |-> h.states[p]]
    BY <1>19
  <2>2. /\ v.pres = [p \in DOMAIN v.pres |-> v.pres[p]]
        /\ DOMAIN v.pres \subseteq DOMAIN h.states
        /\ \A p \in DOMAIN h.states : p \in DOMAIN v.pres /\ v.pres[p] = h.states[p]
    BY <1>15, <1>17, <1>18, <2>1 DEF Covers
  <2>3. DOMAIN v.pres = DOMAIN h.states
    BY <2>2
  <2> QED
    BY <2>1, <2>2, <2>3
<1> QED
  BY <1>5, <1>9, <1>12, <1>15, <1>20

\* A client whose versions are those of the server shows what the server has, however
\* changes, failed calls, polls of other clients (directory.cpp) and events that wait for
\* the window (DesktopModel) interleave with the polls of its refresh thread: a delta is
\* never applied to another base than the one it was computed for, whatever the history of
\* revisions has dropped.
THEOREM ViewAlwaysMatches == SyncSpec => []ViewMatchesServer
<1>1. SyncSpec => []SyncInv
  BY InitSync, StepSync, PTL DEF SyncSpec
<1> QED
  BY <1>1, InvShowsServer, PTL
=============================================================================
