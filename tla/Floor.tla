------------------------------- MODULE Floor --------------------------------
(***************************************************************************)
(* What the control plane promises about who may speak, without its        *)
(* threads, sessions, requests, rooms and audit log.  A player takes the   *)
(* floor of the node the player is in, under the membership of that        *)
(* moment, while nobody else's transmission is in the way; a transmission  *)
(* takes it once and never again; a player whose membership changes has    *)
(* lost it in the same step.                                               *)
(***************************************************************************)
EXTENDS Integers, FiniteSets

CONSTANTS Players, SpeakerLimit, NoMembership

VARIABLES
    membership,  \* of each player, [version, node, ...] or NoMembership
    floor,       \* the transmissions that have the floor: [id, player, version, node, ...]
    spent        \* the ids that have, or have had, the floor

FloorInit == floor = {} /\ spent = {}

TakeFloor(t) ==
    /\ t.id \notin spent
    /\ membership[t.player] # NoMembership
    /\ membership[t.player].version = t.version
    /\ membership[t.player].node = t.node
    /\ \A u \in floor : u.player # t.player
    /\ Cardinality({u \in floor : u.node = t.node}) < SpeakerLimit
    /\ floor' = floor \cup {t}
    /\ spent' = spent \cup {t.id}
    /\ UNCHANGED membership

(* Any number of transmissions may end together. *)
GiveBack ==
    /\ floor' \subseteq floor
    /\ UNCHANGED <<membership, spent>>

(* A membership is created, removed or replaced by a newer one. *)
ChangeMembership(p) ==
    /\ \A q \in Players \ {p} : membership'[q] = membership[q]
    /\ \/ NoMembership \in {membership[p], membership'[p]}
       \/ membership'[p].version > membership[p].version
    /\ floor' = {u \in floor : u.player # p}
    /\ UNCHANGED spent

FloorNext ==
    \/ \E t \in floor' : TakeFloor(t)
    \/ GiveBack
    \/ \E p \in Players : ChangeMembership(p)

FloorSpec == FloorInit /\ [][FloorNext]_<<membership, floor, spent>>
=============================================================================
