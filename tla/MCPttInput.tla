----------------------------- MODULE MCPttInput -----------------------------
(* The input source, the engine and one application thread: two controller nodes
   with two buttons on the first, in different reports, and one on the second. *)
EXTENDS InputDevices

CONSTANTS rawReader, uiCaller

Button(code, device) ==
    [kind |-> "game_controller", page |-> 9, code |-> code, extended |-> FALSE,
     device |-> device]

MCNodes == {1, 2}
MCDeviceId == [n \in MCNodes |-> n]
MCControls == {Button(1, 1), Button(2, 1), Button(1, 2)}
MCButtonsOf == [n \in MCNodes |-> {c \in MCControls : c.device = n}]
MCReportOf == [c \in MCControls |-> c.code]

Bound(action, chord) == [action |-> action, chord |-> chord]

(* Three lists that are accepted, two of them with different actions on chords of
   one length, and lists with each of the errors. *)
MCCandidates ==
    {<<Bound("team", <<Button(1, AnyDevice)>>)>>,
     <<Bound("team", <<Button(1, 1)>>), Bound("group", <<Button(2, 1)>>)>>,
     <<Bound("team", <<Button(1, 1), Button(2, 1)>>),
       Bound("group", <<Button(2, 1), Button(1, 2)>>)>>,
     <<Bound("team", <<Button(1, AnyDevice)>>), Bound("group", <<Button(1, 2)>>)>>,
     <<Bound("team", <<Button(0, 1)>>)>>,
     <<Bound("team", <<Button(1, 1), Button(1, 1)>>)>>,
     <<Bound("team", <<>>)>>}

(* The threads that deliver go on, and so does the source. *)
FairDevicesSpec == DevicesSpec /\ DeliveryFairness
=============================================================================
