---------------------------- MODULE InputDevices ----------------------------
(***************************************************************************)
(* The two input sources that feed PttInput: LinuxEvdevInputSource         *)
(* (libs/client/src/linux_evdev_input.cpp: a thread that polls udev and    *)
(* the event nodes) and WinRawInputSource (win_raw_input.cpp: a thread     *)
(* with a hidden window).  A node is a device the system knows (an event   *)
(* node, a raw-input handle); DeviceId gives its device_id, which two      *)
(* nodes of one physical device may share.  A node reports its buttons in  *)
(* one or more reports; on Windows a report carries the buttons that are   *)
(* down, on Linux every change is an event of its own.                     *)
(*                                                                         *)
(* The source's thread makes its calls of the sink one after the other;    *)
(* todo holds the calls one message or event still has to make.            *)
(***************************************************************************)
EXTENDS PttInput

CONSTANTS
    Nodes,          \* device nodes
    DeviceId,       \* [Nodes -> device ids]
    ButtonsOf,      \* [Nodes -> sets of controls]
    ReportOf,       \* the report a button is part of
    MaxMessages     \* bound on what the system sends

ASSUME DeviceAssumption ==
    /\ IsFiniteSet(Nodes) /\ IsFiniteSet(Controls)
    /\ \A n \in Nodes : ButtonsOf[n] \subseteq {c \in Controls : c.device = DeviceId[n]}
    /\ MaxMessages \in Nat

Buttons == UNION {ButtonsOf[n] : n \in Nodes}
ReportIds == {ReportOf[b] : b \in Buttons}

VARIABLES
    platform,   \* "evdev" or "raw"
    lifecycle,  \* of the source
    plugged,    \* the nodes that exist
    down,       \* the buttons that are down, by node
    inputQueue,      \* hot-plug messages and events the system has queued
    opened,     \* devices_: the nodes the source has opened
    reported,   \* pressed_by_report: per node and report, what is down (raw only)
    lostReleases, \* history: the releases of an open node the source never saw
    todo,       \* the calls of the sink the thread has still to make
    messages    \* how many messages were sent

sourceVars == <<lifecycle, opened, reported, lostReleases, todo>>
systemVars == <<platform, plugged, down, inputQueue, messages>>
deviceVars == <<sourceVars, systemVars>>

NoReports == [r \in ReportIds |-> {}]

DevicesTypeOK ==
    /\ platform \in {"evdev", "raw"}
    /\ lifecycle \in {"absent", "starting", "running", "stopping", "stopped"}
    /\ plugged \subseteq Nodes
    /\ down \in [Nodes -> SUBSET Buttons]
    /\ opened \subseteq Nodes
    /\ reported \in [Nodes -> [ReportIds -> SUBSET Buttons]]
    /\ lostReleases \subseteq Nodes \X Buttons
    /\ messages \in 0..MaxMessages

DevicesInit ==
    /\ platform \in {"evdev", "raw"}
    /\ lifecycle = "absent"
    /\ plugged = Nodes
    /\ down = [n \in Nodes |-> {}]
    /\ inputQueue = <<>>
    /\ opened = {}
    /\ reported = [n \in Nodes |-> NoReports]
    /\ lostReleases = {}
    /\ todo = <<>>
    /\ messages = 0

-----------------------------------------------------------------------------
(* The calls of the sink. *)

DeviceConnected(n) == [call |-> "connected", device |-> DeviceId[n]]
Removed(n) == [call |-> "removed", device |-> DeviceId[n]]
Pressed(c) == [call |-> "event", control |-> c, pressed |-> TRUE]
Released(c) == [call |-> "event", control |-> c, pressed |-> FALSE]

SinkCall(c) ==
    \/ c.call = "connected" /\ OnInputDeviceConnected(c.device)
    \/ c.call = "removed" /\ OnInputDeviceRemoved(c.device)
    \/ c.call = "event" /\ OnInputEvent(c.control, c.pressed)

MakeSinkCall ==
    /\ todo # <<>>
    /\ NotDelivering(Reader)
    /\ SinkCall(Head(todo))
    /\ todo' = Tail(todo)
    /\ UNCHANGED <<systemVars, lifecycle, opened, reported, lostReleases>>

(* The thread is between two messages. *)
Between == lifecycle = "running" /\ todo = <<>> /\ NotDelivering(Reader)

AnyOrder(S) ==
    {s \in [1..Cardinality(S) -> S] : \A x \in S : \E i \in DOMAIN s : s[i] = x}

-----------------------------------------------------------------------------
(* The system and its user.  Messages wait for the source only while it
   listens. *)

SystemSends(m) ==
    /\ messages < MaxMessages
    /\ messages' = messages + 1
    /\ inputQueue' = IF lifecycle \in {"starting", "running"} THEN Append(inputQueue, m) ELSE inputQueue

Plug(n) ==
    /\ n \notin plugged
    /\ plugged' = plugged \cup {n}
    /\ SystemSends([type |-> "add", node |-> n])
    /\ UNCHANGED <<platform, down, sourceVars, inputVars>>

Unplug(n) ==
    /\ n \in plugged
    /\ plugged' = plugged \ {n}
    /\ down' = [down EXCEPT ![n] = {}]
    /\ SystemSends([type |-> "remove", node |-> n])
    /\ UNCHANGED <<platform, sourceVars, inputVars>>

Toggle(n, c) ==
    LET now == IF c \in down[n] THEN down[n] \ {c} ELSE down[n] \cup {c}
    IN /\ n \in plugged
       /\ down' = [down EXCEPT ![n] = now]
       /\ SystemSends([type |-> "input", node |-> n, control |-> c, pressed |-> c \in now,
                state |-> {b \in now : ReportOf[b] = ReportOf[c]}])
       /\ UNCHANGED <<platform, plugged, sourceVars, inputVars>>

-----------------------------------------------------------------------------
(* Life cycle. *)

(* Start fails without a trace when udev, the thread, the window or the
   registration cannot be had. *)
Start ==
    /\ lifecycle = "absent"
    /\ NotDelivering(Caller)
    /\ lifecycle' = "starting"
    /\ UNCHANGED <<systemVars, opened, reported, lostReleases, todo, inputVars>>

StartFails ==
    /\ lifecycle = "starting"
    /\ lifecycle' = "stopped"
    /\ inputQueue' = <<>>
    /\ UNCHANGED <<platform, plugged, down, messages, opened, reported, lostReleases, todo, inputVars>>

(* enumerateDevices: every node that can be opened, has a name and a supported
   use and at least one button is added and announced.  A handle that raw input
   already knows is not announced again. *)
EnumerateDevices ==
    /\ lifecycle = "starting"
    /\ \E usable \in SUBSET plugged :
         \E order \in AnyOrder(usable \ opened) :
            /\ opened' = opened \cup usable
            /\ todo' = [i \in DOMAIN order |-> DeviceConnected(order[i])]
    /\ lifecycle' = "running"
    /\ UNCHANGED <<systemVars, reported, lostReleases, inputVars>>

(* evdev's thread leaves its loop and reports every device removed; raw input's
   thread just ends and keeps what it knows. *)
EndLoop ==
    /\ Between
    /\ lifecycle' = "stopping"
    /\ inputQueue' = <<>>
    /\ IF platform = "evdev"
       THEN \E order \in AnyOrder(opened) :
                /\ todo' = [i \in DOMAIN order |-> Removed(order[i])]
                /\ opened' = {}
       ELSE UNCHANGED <<todo, opened>>
    /\ UNCHANGED <<platform, plugged, down, messages, reported, lostReleases, inputVars>>

Stop == NotDelivering(Caller) /\ EndLoop

(* poll fails with something other than EINTR. *)
DevicePollFails == platform = "evdev" /\ EndLoop

Joined ==
    /\ lifecycle = "stopping"
    /\ todo = <<>>
    /\ NotDelivering(Reader)
    /\ lifecycle' = "stopped"
    /\ UNCHANGED <<systemVars, opened, reported, lostReleases, todo, inputVars>>

(* The owner of a stopped source releases what the engine still holds and
   destroys the source; the next start is that of a new one. *)
Discard ==
    /\ lifecycle = "stopped"
    /\ ReleaseAll
    /\ lifecycle' = "absent"
    /\ opened' = {}
    /\ reported' = [n \in Nodes |-> NoReports]
    /\ lostReleases' = {}
    /\ UNCHANGED <<systemVars, todo>>

-----------------------------------------------------------------------------
(* Messages. *)

Receive(type) == Between /\ inputQueue # <<>> /\ Head(inputQueue).type = type /\ inputQueue' = Tail(inputQueue)

(* addDevice, ensureDevice: a node that is already open, or that cannot be used,
   is passed over. *)
EnsureDevice(n) ==
    \/ n \in plugged \ opened /\ opened' = opened \cup {n} /\ todo' = <<DeviceConnected(n)>>
    \/ UNCHANGED <<opened, todo>>

AddDevice ==
    /\ Receive("add")
    /\ EnsureDevice(Head(inputQueue).node)
    /\ UNCHANGED <<platform, lifecycle, plugged, down, messages, reported, lostReleases, inputVars>>

RemoveDevice ==
    /\ Receive("remove")
    /\ LET n == Head(inputQueue).node
       IN /\ opened' = opened \ {n}
          /\ reported' = [reported EXCEPT ![n] = NoReports]
          /\ lostReleases' = lostReleases \ ({n} \X Buttons)
          /\ todo' = IF n \in opened THEN <<Removed(n)>> ELSE <<>>
    /\ UNCHANGED <<platform, lifecycle, plugged, down, messages, inputVars>>

(* The controls an input tells the state of, and those it says were released. *)
ToldBy(m) ==
    IF platform = "evdev" THEN {m.control}
    ELSE {b \in ButtonsOf[m.node] : ReportOf[b] = ReportOf[m.control]}

ReleasedBy(m) ==
    IF platform = "evdev" THEN {b \in {m.control} : ~m.pressed}
    ELSE reported[m.node][ReportOf[m.control]] \ m.state

InputRead(m) == lostReleases' = lostReleases \ ({m.node} \X ToldBy(m))

InputLost(m) ==
    lostReleases' = IF m.node \in opened THEN lostReleases \cup ({m.node} \X ReleasedBy(m))
                                          ELSE lostReleases

(* readEvents: a key event of value 0 or 1 and a known code goes to the sink.
   What an unplugged node had queued is lost with it, and what the kernel threw
   away when its buffer was full: the SYN_DROPPED that tells of it is no key
   event, and readEvents goes on with the next. *)
ReadEvents ==
    /\ platform = "evdev"
    /\ Receive("input")
    /\ LET m == Head(inputQueue)
       IN \/ /\ m.node \in opened \cap plugged
             /\ todo' = <<IF m.pressed THEN Pressed(m.control) ELSE Released(m.control)>>
             /\ InputRead(m)
          \/ UNCHANGED todo /\ InputLost(m)
    /\ UNCHANGED <<platform, lifecycle, plugged, down, messages, opened, reported, inputVars>>

AllPressedButtons(reports) == UNION {reports[r] : r \in ReportIds}

ReleaseCalls(S) == {[i \in DOMAIN s |-> Released(s[i])] : s \in AnyOrder(S)}
PressCalls(S) == {[i \in DOMAIN s |-> Pressed(s[i])] : s \in AnyOrder(S)}

(* The buttons that are no longer in any report are released, then the new ones
   pressed, in the order of an unordered set. *)
ProcessHidReport(announced, old, new) ==
    \E r \in ReleaseCalls(old \ new), p \in PressCalls(new \ old) :
        todo' = announced \o (r \o p)

(* WM_INPUT: the handle is opened if it is not known yet, which announces it;
   then the report replaces the last one with the same id.  The report is dropped,
   of a known device too, when its data cannot be had or is malformed or none of
   its usages can be read; processRawInput and processHidReport just return. *)
ProcessRawInput ==
    /\ platform = "raw"
    /\ Receive("input")
    /\ LET m == Head(inputQueue)
           old == reported[m.node]
           new == [old EXCEPT ![ReportOf[m.control]] = m.state]
           announced == IF m.node \in opened THEN <<>> ELSE <<DeviceConnected(m.node)>>
       IN \/ /\ m.node \in opened \cup plugged
             /\ opened' = opened \cup {m.node}
             /\ reported' = [reported EXCEPT ![m.node] = new]
             /\ ProcessHidReport(announced, AllPressedButtons(old), AllPressedButtons(new))
             /\ InputRead(m)
          \/ EnsureDevice(m.node) /\ UNCHANGED reported /\ InputLost(m)
    /\ UNCHANGED <<platform, lifecycle, plugged, down, messages, inputVars>>

-----------------------------------------------------------------------------
SourceStep ==
    \/ MakeSinkCall
    \/ EnumerateDevices
    \/ Joined
    \/ AddDevice
    \/ RemoveDevice
    \/ ReadEvents
    \/ ProcessRawInput

(* The application replaces bindings while the source runs, and attaches and
   detaches the observer while there is none. *)
CallerStep ==
    \/ \E list \in Candidates : SetBindings(list)
    \/ lifecycle = "absent" /\ \E on \in BOOLEAN : SetObserver(on)

DevicesNext ==
    \/ SourceStep
    \/ Start \/ StartFails \/ Stop \/ DevicePollFails \/ Discard
    \/ \E n \in Nodes : Plug(n) \/ Unplug(n) \/ \E c \in ButtonsOf[n] : Toggle(n, c)
    \/ CallerStep /\ UNCHANGED deviceVars
    \/ \E t \in InputThreads : DeliveryStep(t) /\ UNCHANGED deviceVars

DevicesSpec == InputInit /\ DevicesInit /\ [][DevicesNext]_<<inputVars, deviceVars>>

(* The source's thread keeps reading and every call of the target returns, with a
   result or with the timeout of the network call. *)
DeliveryFairness ==
    /\ \A t \in InputThreads : WF_<<inputVars, deviceVars>>(DeliveryStep(t) /\ UNCHANGED deviceVars)
    /\ WF_<<inputVars, deviceVars>>(SourceStep)

-----------------------------------------------------------------------------
Drained == lifecycle = "running" /\ inputQueue = <<>> /\ todo = <<>>

\* Once the source has worked off what the system sent, a control the engine holds is
\* down on an open device that is still there, or the release that was to end it never
\* reached the source and neither did a later report of that control: no order of
\* hot-plug messages, reports of several ids, lost reports and replaced bindings leaves
\* any other press behind, nor one that outlives its device (linux_evdev_input.cpp,
\* win_raw_input.cpp).
NoGhostInput ==
    Drained => \A c \in pressedControls : \E n \in opened \cap plugged :
                   c \in down[n] \/ <<n, c>> \in lostReleases
=============================================================================
