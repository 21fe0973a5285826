------------------------------ MODULE PttInput ------------------------------
(***************************************************************************)
(* Push-to-talk input (libs/client/src/ptt_input.cpp).  The                *)
(* PushToTalkBindingEngine turns presses and releases of controls into     *)
(* presses and releases of actions; AuthorizedPushToTalkInput turns those  *)
(* into calls of the voice target.  Both have a mutex, but the engine      *)
(* reports what it computed under its mutex only after it has released it, *)
(* so that the thread of the input source and a thread that replaces       *)
(* bindings or releases everything each carry a list of changes that they  *)
(* deliver one by one.  The second mutex is held while the target works,   *)
(* which takes as long as the network does.                                *)
(*                                                                         *)
(* A control is [kind, page, code, extended, device]; device 0 is the      *)
(* empty device_id, which in a binding stands for every device.            *)
(***************************************************************************)
EXTENDS Integers, Sequences, FiniteSets

CONSTANTS
    Reader,      \* the thread of the input source
    Caller,      \* a thread of the application
    Controls,    \* the controls the input source can report
    Candidates   \* the binding lists the application tries to set

InputThreads == {Reader, Caller}
ActionOrder == <<"team", "specialization", "group">>
PttActions == {ActionOrder[i] : i \in DOMAIN ActionOrder}
NoAction == "none"
AnyDevice == 0

InputControl ==
    [kind : {"keyboard", "mouse", "game_controller"}, page : Nat, code : Nat,
     extended : BOOLEAN, device : Nat]

ASSUME InputAssumption ==
    /\ Controls \subseteq InputControl
    /\ Candidates \subseteq Seq([action : PttActions, chord : Seq(InputControl)])

VARIABLES
    bindings,         \* bindings_
    pressedControls,  \* pressed_controls_
    pressedActions,   \* pressed_actions_
    profiles,         \* devices_, by device_id
    observed,         \* observer_ of the engine is set
    pending,          \* the changes each thread has yet to deliver
    inTarget,         \* the thread that holds AuthorizedPushToTalkInput::mutex_
    activeAction      \* active_action_

engineVars == <<bindings, pressedControls, pressedActions, profiles, observed>>
inputVars == <<engineVars, pending, inTarget, activeAction>>

Changes == [action : PttActions, pressed : BOOLEAN]

InputTypeOK ==
    /\ bindings \in Candidates \cup {<<>>}
    /\ pressedControls \subseteq Controls
    /\ pressedActions \subseteq PttActions
    /\ profiles \subseteq {c.device : c \in Controls}
    /\ observed \in BOOLEAN
    /\ \A t \in InputThreads : \A i \in DOMAIN pending[t] : pending[t][i] \in Changes
    /\ inTarget \in InputThreads \cup {NoAction}
    /\ activeAction \in PttActions \cup {NoAction}

InputInit ==
    /\ bindings = <<>>
    /\ pressedControls = {}
    /\ pressedActions = {}
    /\ profiles = {}
    /\ observed = FALSE
    /\ pending = [t \in InputThreads |-> <<>>]
    /\ inTarget = NoAction
    /\ activeAction = NoAction

-----------------------------------------------------------------------------
(* Validation of a binding list. *)

ValidControl(c) ==
    /\ c.code # 0
    /\ \/ c.kind = "keyboard" /\ c.page = 0
       \/ c.kind = "mouse" /\ c.code <= 5 /\ c.page = 0 /\ ~c.extended
       \/ c.kind = "game_controller" /\ c.page # 0 /\ ~c.extended

KindRank(k) == CASE k = "keyboard" -> 0 [] k = "mouse" -> 1 [] k = "game_controller" -> 2

SortKey(c) == <<KindRank(c.kind), c.page, c.code, IF c.extended THEN 1 ELSE 0, c.device>>

(* The lexicographic order of the sort keys. *)
ControlLess(c, d) ==
    \E i \in 1..5 :
        /\ SortKey(c)[i] < SortKey(d)[i]
        /\ \A j \in 1..(i - 1) : SortKey(c)[j] = SortKey(d)[j]

(* The chord in that order; controls that are equal in it are the same. *)
NormalizedChord(b) ==
    LET at == DOMAIN b.chord
        order == CHOOSE p \in [at -> at] : \A i, j \in at : i < j =>
                     p[i] # p[j] /\ ~ControlLess(b.chord[p[j]], b.chord[p[i]])
    IN  [i \in at |-> b.chord[order[i]]]

SameButton(c, d) ==
    /\ c.kind = d.kind
    /\ c.page = d.page
    /\ c.code = d.code
    /\ c.extended = d.extended

SlipControlsOverlap(c, d) == c = d

ControlsOverlap(c, d) ==
    /\ SameButton(c, d)
    /\ AnyDevice \in {c.device, d.device} \/ c.device = d.device

ChordsOverlap(s, t) ==
    Len(s) = Len(t) /\ \A i \in DOMAIN s : ControlsOverlap(s[i], t[i])

(* empty_chord, invalid_control, duplicate_control; s is normalized. *)
ChordError(s) ==
    \/ s = <<>>
    \/ \E i \in DOMAIN s : ~ValidControl(s[i])
    \/ \E i \in 1..(Len(s) - 1) : s[i] = s[i + 1]

(* duplicate_binding, conflicting_binding. *)
PairError(b, c) ==
    \/ NormalizedChord(b) = NormalizedChord(c)
    \/ b.action # c.action /\ ChordsOverlap(NormalizedChord(b), NormalizedChord(c))

ValidBindings(list) ==
    /\ \A i \in DOMAIN list : ~ChordError(NormalizedChord(list[i]))
    /\ \A i \in DOMAIN list : \A j \in 1..(i - 1) : ~PairError(list[i], list[j])

-----------------------------------------------------------------------------
(* What the engine does under its mutex. *)

HeldControlMatches(expected, held) ==
    SameButton(expected, held) /\ expected.device \in {AnyDevice, held.device}

BindingPressed(b, controls) ==
    \A i \in DOMAIN b.chord : \E held \in controls : HeldControlMatches(b.chord[i], held)

Recalculated(list, controls) ==
    {list[i].action : i \in {j \in DOMAIN list : BindingPressed(list[j], controls)}}

(* The changes from one set of pressed actions to the next, in action order. *)
ActionChanges(old, new) ==
    LET differ(a) == (a \in old) # (a \in new)
        changed == SelectSeq(ActionOrder, differ)
    IN [i \in DOMAIN changed |-> [action |-> changed[i], pressed |-> changed[i] \in new]]

(* notify: the changes go to the observer that was set under the mutex. *)
Notify(t, changes) ==
    pending' = [pending EXCEPT ![t] = IF observed THEN changes ELSE <<>>]

(* A thread calls the engine only when its last call has returned. *)
NotDelivering(t) == pending[t] = <<>>

RecalculateLocked(t, controls) ==
    /\ pressedControls' = controls
    /\ pressedActions' = Recalculated(bindings, controls)
    /\ Notify(t, ActionChanges(pressedActions, pressedActions'))

(* An invalid list changes nothing. *)
SetBindings(list) ==
    /\ NotDelivering(Caller)
    /\ ValidBindings(list)
    /\ bindings' = list
    /\ pressedControls' = {}
    /\ pressedActions' = {}
    /\ Notify(Caller, ActionChanges(pressedActions, {}))
    /\ UNCHANGED <<profiles, observed, inTarget, activeAction>>

ReleaseAll ==
    /\ NotDelivering(Caller)
    /\ RecalculateLocked(Caller, {})
    /\ UNCHANGED <<bindings, profiles, observed, inTarget, activeAction>>

SetObserver(on) ==
    /\ NotDelivering(Caller)
    /\ observed' = on
    /\ UNCHANGED <<bindings, pressedControls, pressedActions, profiles, pending, inTarget,
                   activeAction>>

OnInputDeviceConnected(d) ==
    /\ profiles' = profiles \cup {d}
    /\ UNCHANGED <<bindings, pressedControls, pressedActions, observed, pending, inTarget,
                   activeAction>>

(* A repeated press and the release of a control that is not held return early. *)
OnInputEvent(c, pressed) ==
    \/ /\ ValidControl(c)
       /\ pressed # (c \in pressedControls)
       /\ RecalculateLocked(Reader, IF pressed THEN pressedControls \cup {c}
                                               ELSE pressedControls \ {c})
       /\ UNCHANGED <<bindings, profiles, observed, inTarget, activeAction>>
    \/ /\ ~ValidControl(c) \/ pressed = (c \in pressedControls)
       /\ UNCHANGED inputVars

OfDevice(d) == {c \in pressedControls : c.device = d}

SlipOnInputDeviceRemoved(d) ==
    /\ profiles' = profiles \ {d}
    /\ RecalculateLocked(Reader, pressedControls)
    /\ UNCHANGED <<bindings, observed, inTarget, activeAction>>

OnInputDeviceRemoved(d) ==
    /\ profiles' = profiles \ {d}
    /\ RecalculateLocked(Reader, pressedControls \ OfDevice(d))
    /\ UNCHANGED <<bindings, observed, inTarget, activeAction>>

-----------------------------------------------------------------------------
(* AuthorizedPushToTalkInput::onPushToTalkActionChanged. *)

Delivering(t) == Head(pending[t])

CallsTarget(change) ==
    IF change.pressed THEN activeAction = NoAction ELSE activeAction = change.action

Delivered(t) == pending' = [pending EXCEPT ![t] = Tail(@)]

(* A second action is refused, and a release of an action that is not active
   returns without a call.  (The slip lets a second action wait for the first.) *)
SlipSkipTarget(t) ==
    /\ ~NotDelivering(t)
    /\ inTarget = NoAction
    /\ ~Delivering(t).pressed /\ ~CallsTarget(Delivering(t))
    /\ Delivered(t)
    /\ UNCHANGED <<engineVars, inTarget, activeAction>>

SkipTarget(t) ==
    /\ ~NotDelivering(t)
    /\ inTarget = NoAction
    /\ ~CallsTarget(Delivering(t))
    /\ Delivered(t)
    /\ UNCHANGED <<engineVars, inTarget, activeAction>>

EnterTarget(t) ==
    /\ ~NotDelivering(t)
    /\ inTarget = NoAction
    /\ CallsTarget(Delivering(t))
    /\ inTarget' = t
    /\ UNCHANGED <<engineVars, pending, activeAction>>

(* pressPushToTalk may fail; after releasePushToTalk no action is active,
   whatever its result. *)
TargetReturns(t) ==
    /\ inTarget = t
    /\ inTarget' = NoAction
    /\ Delivered(t)
    /\ activeAction' \in IF Delivering(t).pressed THEN {Delivering(t).action, NoAction}
                                                  ELSE {NoAction}
    /\ UNCHANGED engineVars

DeliveryStep(t) == SkipTarget(t) \/ EnterTarget(t) \/ TargetReturns(t)

-----------------------------------------------------------------------------
(* Correctness. *)

OneButtonOnce(b) ==
    \A i, j \in DOMAIN b.chord : SameButton(b.chord[i], b.chord[j]) => i = j

(* No way of holding as many controls as each of them has satisfies both. *)
ToldApart(b, c) ==
    \A held \in SUBSET Controls :
        Cardinality(held) = Len(b.chord) => ~(BindingPressed(b, held) /\ BindingPressed(c, held))

\* Accepted bindings of different actions can be told apart if their chords are of one
\* length and neither names one button of several devices: validateBindings compares
\* normalized chords position by position, and without the condition it accepts more (see the README).
AcceptedAreDistinguishable ==
    \A i, j \in DOMAIN bindings :
        LET b == bindings[i]
            c == bindings[j]
        IN  /\ b.action # c.action
            /\ Len(b.chord) = Len(c.chord)
            /\ OneButtonOnce(b) /\ OneButtonOnce(c)
            => ToldApart(b, c)

\* No thread keeps a change of an action for ever: it calls the target with it, or the
\* change is refused (a press while another action is active) or ignored (a release of
\* an action that is not active), although a press can hold the mutex that the other
\* thread's release needs and one thread can have the release behind another press.
ChangesDelivered == \A t \in InputThreads : (pending[t] # <<>>) ~> (pending[t] = <<>>)

-----------------------------------------------------------------------------
(* What the documentation says and the code does not do. *)

\* "Active action, or no value when all actions are released" (ptt_input.hpp):
\* when no thread has anything left to deliver and no action is pressed, none is active.
ReleasedMeansInactive ==
    (\A t \in InputThreads : NotDelivering(t)) /\ pressedActions = {} => activeAction = NoAction
=============================================================================
