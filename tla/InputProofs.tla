---------------------------- MODULE InputProofs -----------------------------
(***************************************************************************)
(* What holds of the input devices for every set of nodes, controls and    *)
(* reports, every order of hot plugs, inputs and reads, and every number of *)
(* messages and restarts: a control that the application was told is       *)
(* pressed is held down, or what ends it is on its way or was lost.  And   *)
(* of the bindings, for every list the application tries and chords of any        *)
(* length: those that are accepted can be told apart.                      *)
(***************************************************************************)
EXTENDS InputDevices, FiniteSetTheorems, WellFoundedInduction, TLAPS

-----------------------------------------------------------------------------
(* The input sources. *)

HotPlugs == [type : {"add", "remove"}, node : Nodes]
Inputs ==
    {m \in [type : {"input"}, node : Nodes, control : Buttons, pressed : BOOLEAN,
            state : SUBSET Buttons] :
        /\ m.control \in ButtonsOf[m.node]
        /\ \A b \in m.state : b \in ButtonsOf[m.node] /\ ReportOf[b] = ReportOf[m.control]}
Announcements == [call : {"connected", "removed"}, device : {DeviceId[n] : n \in Nodes}]
InputCalls == [call : {"event"}, control : Buttons, pressed : BOOLEAN]

(* Types; a report lists only buttons of its own, and only open nodes have reports. *)
DeviceShape ==
    /\ DevicesTypeOK
    /\ inputQueue \in Seq(HotPlugs \cup Inputs)
    /\ todo \in Seq(Announcements \cup InputCalls)
    /\ \A n \in Nodes : down[n] \subseteq ButtonsOf[n]
    /\ \A n \in Nodes, r \in ReportIds : \A b \in reported[n][r] :
          b \in ButtonsOf[n] /\ ReportOf[b] = r /\ n \in opened /\ platform = "raw"
    /\ \A c \in pressedControls : ValidControl(c)

(* A message after which a control of the node is not held any more, and one that
   says that it is held. *)
Ends(m, n, c) ==
    /\ m.node = n
    /\ \/ m.type = "remove"
       \/ /\ m.type = "input"
          /\ IF platform = "evdev" THEN m.control = c /\ ~m.pressed
             ELSE ReportOf[m.control] = ReportOf[c] /\ c \notin m.state
Says(m, n, c) ==
    /\ m.type = "input" /\ m.node = n
    /\ IF platform = "evdev" THEN m.control = c /\ m.pressed ELSE c \in m.state

DownNow(n, c) == n \in plugged /\ c \in down[n]

(* Everything a message says is still so, or a later message ends it. *)
MessagesTrue ==
    \A i \in DOMAIN inputQueue : \A n \in Nodes : \A c \in ButtonsOf[n] :
        Says(inputQueue[i], n, c) =>
            DownNow(n, c) \/ \E j \in DOMAIN inputQueue : j > i /\ Ends(inputQueue[j], n, c)

(* The removal of an open node that is gone has yet to be received. *)
RemovalComes ==
    lifecycle = "running" => \A n \in opened : n \notin plugged =>
        \E i \in DOMAIN inputQueue : inputQueue[i].type = "remove" /\ inputQueue[i].node = n

(* The node is why the control is held: it is down, or a message will end it, or the
   message that would have ended it was lost. *)
Holds(n, c) ==
    /\ n \in opened /\ c \in ButtonsOf[n]
    /\ platform = "raw" => c \in reported[n][ReportOf[c]]
    /\ \/ DownNow(n, c)
       \/ \E i \in DOMAIN inputQueue : Ends(inputQueue[i], n, c)
       \/ <<n, c>> \in lostReleases

ReportsTrue ==
    lifecycle = "running" =>
        \A n \in Nodes, r \in ReportIds : \A c \in reported[n][r] : Holds(n, c)

(* The calls that are still to be made, and what they leave held. *)
Kills(k, c) == k = Released(c) \/ k = [call |-> "removed", device |-> c.device]

HeldForAReason ==
    lifecycle = "running" =>
        /\ \A c \in pressedControls :
              (\E i \in DOMAIN todo : Kills(todo[i], c)) \/ \E n \in Nodes : Holds(n, c)
        /\ \A c \in Buttons : \A i \in DOMAIN todo :
              todo[i] = Pressed(c) => \E n \in Nodes : Holds(n, c)

(* A source that does not run yet knows nothing and holds nothing. *)
BeforeRunning ==
    /\ lifecycle \in {"absent", "starting", "stopped"} => todo = <<>>
    /\ lifecycle \in {"absent", "starting"} => opened = {} /\ pressedControls = {}
    /\ lifecycle \notin {"starting", "running"} => inputQueue = <<>>

DeviceInv ==
    DeviceShape /\ MessagesTrue /\ RemovalComes /\ ReportsTrue /\ HeldForAReason /\ BeforeRunning

Sent == HotPlugs \cup Inputs
SinkCalls == Announcements \cup InputCalls

\* The first element of a sequence is taken.
LEMMA TailFacts ==
    ASSUME NEW S, NEW s \in Seq(S), s # <<>>
    PROVE  /\ Head(s) = s[1] /\ 1 \in DOMAIN s /\ Head(s) \in S
           /\ Tail(s) \in Seq(S)
           /\ \A i \in DOMAIN Tail(s) : i \in Nat /\ i + 1 \in DOMAIN s /\ Tail(s)[i] = s[i + 1]
           /\ \A i \in DOMAIN s : i # 1 => i - 1 \in DOMAIN Tail(s) /\ Tail(s)[i - 1] = s[i]
  OBVIOUS

\* An element is appended to a sequence.
LEMMA AppendFacts ==
    ASSUME NEW S, NEW s \in Seq(S), NEW m \in S
    PROVE  /\ Append(s, m) \in Seq(S)
           /\ Len(s) + 1 \in DOMAIN Append(s, m) /\ Append(s, m)[Len(s) + 1] = m
           /\ \A i \in DOMAIN s : /\ i \in Nat /\ i < Len(s) + 1
                                  /\ i \in DOMAIN Append(s, m) /\ Append(s, m)[i] = s[i]
           /\ \A i \in DOMAIN Append(s, m) : i \in DOMAIN s \/ i = Len(s) + 1
  OBVIOUS

\* No node is open and nothing is held at first.
LEMMA InitDevices == InputInit /\ DevicesInit => DeviceInv
<1> SUFFICES ASSUME InputInit, DevicesInit PROVE DeviceInv
  OBVIOUS
<1> USE DEF DevicesInit, InputInit
<1>1. DevicesTypeOK
  <2>1. NoReports \in [ReportIds -> SUBSET Buttons]
    BY DEF NoReports
  <2> QED
    BY <2>1, DeviceAssumption DEF DevicesTypeOK
<1>2. DeviceShape
  <2>1. \A n \in Nodes, r \in ReportIds : reported[n][r] = {}
    BY DEF NoReports
  <2> QED
    BY <1>1, <2>1 DEF DeviceShape
<1>3. MessagesTrue /\ RemovalComes /\ ReportsTrue /\ HeldForAReason /\ BeforeRunning
  BY DEF MessagesTrue, RemovalComes, ReportsTrue, HeldForAReason, BeforeRunning
<1> QED
  BY <1>2, <1>3 DEF DeviceInv

\* What the system sends: whatever stops being down is ended by the message, and what
\* the message says is so.
LEMMA AfterSend ==
    ASSUME DeviceInv, NEW m \in Sent, SystemSends(m),
           UNCHANGED <<platform, sourceVars, pressedControls>>,
           plugged' \subseteq Nodes, down' \in [Nodes -> SUBSET Buttons],
           \A n \in Nodes : down'[n] \subseteq ButtonsOf[n],
           \A n \in Nodes : n \in plugged /\ n \notin plugged' => m.type = "remove" /\ m.node = n,
           \A n \in Nodes : \A c \in ButtonsOf[n] : DownNow(n, c) =>
                (n \in plugged' /\ c \in down'[n]) \/ Ends(m, n, c),
           \A n \in Nodes : \A c \in ButtonsOf[n] : Says(m, n, c) => n \in plugged' /\ c \in down'[n]
    PROVE  DeviceInv'
<1>1. UNCHANGED <<lifecycle, opened, reported, lostReleases, todo>>
  BY DEF sourceVars
<1>2. messages' \in 0..MaxMessages
  BY DeviceAssumption DEF DeviceInv, DeviceShape, DevicesTypeOK, SystemSends
<1>3. inputQueue \in Seq(Sent)
  BY DEF DeviceInv, DeviceShape, Sent
<1>4. inputQueue' \in Seq(Sent)
  BY <1>3, AppendFacts DEF SystemSends
<1>5. DeviceShape'
  BY <1>1, <1>2, <1>4 DEF DeviceInv, DeviceShape, DevicesTypeOK, Sent
<1>6. BeforeRunning'
  BY <1>1 DEF DeviceInv, BeforeRunning, SystemSends
<1>7. CASE lifecycle \notin {"starting", "running"}
  <2>1. inputQueue' = <<>> /\ lifecycle' # "running"
    BY <1>1, <1>6, <1>7 DEF BeforeRunning
  <2> QED
    BY <1>5, <1>6, <2>1 DEF DeviceInv, MessagesTrue, RemovalComes, ReportsTrue, HeldForAReason
<1>8. CASE lifecycle \in {"starting", "running"}
  <2>1. inputQueue' = Append(inputQueue, m)
    BY <1>8 DEF SystemSends
  <2> DEFINE k == Len(inputQueue) + 1
  <2>2. /\ k \in DOMAIN inputQueue' /\ inputQueue'[k] = m
        /\ \A i \in DOMAIN inputQueue : /\ i \in Nat /\ i < k
                                        /\ i \in DOMAIN inputQueue' /\ inputQueue'[i] = inputQueue[i]
        /\ \A i \in DOMAIN inputQueue' : i \in DOMAIN inputQueue \/ i = k
    BY <1>3, <2>1, AppendFacts
  <2> HIDE DEF k
  <2>3. \A x, n, c : /\ Ends(x, n, c)' <=> Ends(x, n, c)
                     /\ Says(x, n, c)' <=> Says(x, n, c)
    BY DEF Ends, Says
  <2>4. MessagesTrue'
    <3> SUFFICES ASSUME NEW i \in DOMAIN inputQueue', NEW n \in Nodes, NEW c \in ButtonsOf[n],
                        Says(inputQueue'[i], n, c)
                 PROVE  \/ DownNow(n, c)'
                        \/ \E j \in DOMAIN inputQueue' : j > i /\ Ends(inputQueue'[j], n, c)
      BY <2>3 DEF MessagesTrue
    <3>1. CASE i = k
      BY <2>2, <3>1 DEF DownNow
    <3>2. CASE i \in DOMAIN inputQueue
      <4>1. DownNow(n, c) \/ \E j \in DOMAIN inputQueue : j > i /\ Ends(inputQueue[j], n, c)
        BY <2>2, <3>2 DEF DeviceInv, MessagesTrue
      <4> QED
        BY <2>2, <3>2, <4>1 DEF DownNow
    <3> QED
      BY <2>2, <3>1, <3>2
  <2>5. \A n \in Nodes : \A c : Holds(n, c) => Holds(n, c)'
    <3> SUFFICES ASSUME NEW n \in Nodes, NEW c, Holds(n, c) PROVE Holds(n, c)'
      OBVIOUS
    <3>1. \/ DownNow(n, c)'
          \/ \E i \in DOMAIN inputQueue' : Ends(inputQueue'[i], n, c)
          \/ <<n, c>> \in lostReleases'
      BY <1>1, <2>2 DEF Holds, DownNow
    <3> QED
      BY <1>1, <2>3, <3>1 DEF Holds
  <2>6. RemovalComes'
    BY <1>1, <2>2 DEF DeviceInv, DeviceShape, DevicesTypeOK, RemovalComes
  <2>7. ReportsTrue'
    BY <1>1, <2>5 DEF DeviceInv, ReportsTrue
  <2>8. HeldForAReason'
    BY <1>1, <2>5 DEF DeviceInv, HeldForAReason
  <2> QED
    BY <1>5, <1>6, <2>4, <2>6, <2>7, <2>8 DEF DeviceInv
<1> QED
  BY <1>7, <1>8

\* The system and its user.
LEMMA SystemSteps ==
    ASSUME DeviceInv, NEW n \in Nodes,
           Plug(n) \/ Unplug(n) \/ \E c \in ButtonsOf[n] : Toggle(n, c)
    PROVE  DeviceInv'
<1>0. /\ plugged \subseteq Nodes /\ down \in [Nodes -> SUBSET Buttons]
      /\ \A x \in Nodes : down[x] \subseteq ButtonsOf[x]
      /\ \A x \in Nodes : ButtonsOf[x] \subseteq Buttons
  BY DEF DeviceInv, DeviceShape, DevicesTypeOK, Buttons
<1>1. CASE Plug(n)
  <2> DEFINE m == [type |-> "add", node |-> n]
  <2>1. m \in Sent /\ \A x, c : ~Says(m, x, c)
    BY DEF Sent, HotPlugs, Says
  <2>2. /\ SystemSends(m) /\ UNCHANGED <<platform, sourceVars, pressedControls>>
        /\ plugged' = plugged \cup {n} /\ UNCHANGED down
    BY <1>1 DEF Plug, inputVars, engineVars
  <2> HIDE DEF m
  <2> QED
    BY <1>0, <2>1, <2>2, AfterSend DEF DownNow
<1>2. CASE Unplug(n)
  <2> DEFINE m == [type |-> "remove", node |-> n]
  <2>1. m \in Sent /\ (\A x, c : ~Says(m, x, c)) /\ (\A c : Ends(m, n, c))
    BY DEF Sent, HotPlugs, Says, Ends
  <2>2. /\ SystemSends(m) /\ UNCHANGED <<platform, sourceVars, pressedControls>>
        /\ plugged' = plugged \ {n} /\ down' = [down EXCEPT ![n] = {}]
    BY <1>2 DEF Unplug, inputVars, engineVars
  <2>3. m.type = "remove" /\ m.node = n
    OBVIOUS
  <2> HIDE DEF m
  <2>4. down' \in [Nodes -> SUBSET Buttons] /\ \A x \in Nodes : down'[x] \subseteq ButtonsOf[x]
    BY <1>0, <2>2
  <2>5. \A x \in Nodes : \A c \in ButtonsOf[x] : DownNow(x, c) =>
            (x \in plugged' /\ c \in down'[x]) \/ Ends(m, x, c)
    BY <1>0, <2>1, <2>2 DEF DownNow
  <2> QED
    BY <1>0, <2>1, <2>2, <2>3, <2>4, <2>5, AfterSend
<1>3. ASSUME NEW c \in ButtonsOf[n], Toggle(n, c) PROVE DeviceInv'
  <2> DEFINE now == IF c \in down[n] THEN down[n] \ {c} ELSE down[n] \cup {c}
             m == [type |-> "input", node |-> n, control |-> c, pressed |-> c \in now,
                   state |-> {b \in now : ReportOf[b] = ReportOf[c]}]
  <2>1. /\ SystemSends(m) /\ UNCHANGED <<platform, plugged, sourceVars, pressedControls>>
        /\ down' = [down EXCEPT ![n] = now] /\ n \in plugged
    BY <1>3 DEF Toggle, inputVars, engineVars
  <2>2. now \subseteq ButtonsOf[n]
    BY <1>0
  <2>3. (c \in now) \in BOOLEAN
    OBVIOUS
  <2>4. m \in Sent
    BY <1>0, <2>2, <2>3 DEF Sent, Inputs
  <2>5. \A d \in down[n] : d \in now \/ d = c
    OBVIOUS
  <2>6. c \notin now => \A d : d = c => Ends(m, n, d)
    BY DEF Ends
  <2>7. \A x, d : Says(m, x, d) => x = n /\ d \in now
    BY DEF Says
  <2> HIDE DEF m, now
  <2>8. down' \in [Nodes -> SUBSET Buttons] /\ \A x \in Nodes : down'[x] \subseteq ButtonsOf[x]
    BY <1>0, <2>1, <2>2
  <2>9. \A x \in Nodes : \A d \in ButtonsOf[x] : DownNow(x, d) =>
            (x \in plugged' /\ d \in down'[x]) \/ Ends(m, x, d)
    BY <1>0, <2>1, <2>5, <2>6 DEF DownNow
  <2>10. \A x \in Nodes : \A d \in ButtonsOf[x] : Says(m, x, d) => x \in plugged' /\ d \in down'[x]
    BY <1>0, <2>1, <2>7
  <2> QED
    BY <1>0, <2>1, <2>4, <2>8, <2>9, <2>10, AfterSend
<1> QED
  BY <1>1, <1>2, <1>3

\* The first message is taken from the queue.
LEMMA AfterReceive ==
    ASSUME DeviceInv, inputQueue # <<>>, inputQueue' = Tail(inputQueue),
           UNCHANGED <<platform, plugged, down>>
    PROVE  /\ Head(inputQueue) \in Sent /\ inputQueue' \in Seq(Sent)
           /\ MessagesTrue'
           /\ \A n \in Nodes : \A c :
                /\ Holds(n, c) /\ ~Ends(Head(inputQueue), n, c) /\ n \in opened'
                /\ platform = "raw" => c \in reported'[n][ReportOf[c]]
                /\ <<n, c>> \in lostReleases => <<n, c>> \in lostReleases'
                => Holds(n, c)'
           /\ \A n \in Nodes : \A c \in ButtonsOf[n] : Says(Head(inputQueue), n, c) =>
                DownNow(n, c)' \/ \E j \in DOMAIN inputQueue' : Ends(inputQueue'[j], n, c)
           /\ lifecycle = "running" => \A n \in opened :
                n \notin plugged /\ ~(Head(inputQueue).type = "remove" /\ Head(inputQueue).node = n)
                => \E i \in DOMAIN inputQueue' :
                        inputQueue'[i].type = "remove" /\ inputQueue'[i].node = n
<1> DEFINE q == inputQueue
           t == inputQueue'
<1>1. q \in Seq(Sent)
  BY DEF DeviceInv, DeviceShape, Sent
<1>2. /\ Head(q) = q[1] /\ 1 \in DOMAIN q /\ Head(q) \in Sent /\ t \in Seq(Sent)
      /\ \A i \in DOMAIN t : i \in Nat /\ i + 1 \in DOMAIN q /\ t[i] = q[i + 1]
      /\ \A i \in DOMAIN q : i # 1 => i - 1 \in DOMAIN t /\ t[i - 1] = q[i]
      /\ \A i \in DOMAIN q : i \in Nat /\ i >= 1
  BY <1>1, TailFacts
<1> HIDE DEF q, t
<1>3. /\ \A x, n, c : (Ends(x, n, c)' <=> Ends(x, n, c)) /\ (Says(x, n, c)' <=> Says(x, n, c))
      /\ \A n, c : DownNow(n, c)' <=> DownNow(n, c)
  BY DEF Ends, Says, DownNow
<1>4. \A i \in DOMAIN q : \A n \in Nodes : \A c \in ButtonsOf[n] : Says(q[i], n, c) =>
          DownNow(n, c) \/ \E j \in DOMAIN q : j > i /\ Ends(q[j], n, c)
  BY DEF DeviceInv, MessagesTrue, q
<1>5. MessagesTrue'
  <2> SUFFICES ASSUME NEW i \in DOMAIN t, NEW n \in Nodes, NEW c \in ButtonsOf[n], Says(t[i], n, c)
               PROVE  DownNow(n, c) \/ \E j \in DOMAIN t : j > i /\ Ends(t[j], n, c)
    BY <1>3 DEF MessagesTrue, t
  <2>1. DownNow(n, c) \/ \E j \in DOMAIN q : j > i + 1 /\ Ends(q[j], n, c)
    BY <1>2, <1>4
  <2>2. ASSUME NEW j \in DOMAIN q, j > i + 1, Ends(q[j], n, c)
        PROVE  \E l \in DOMAIN t : l > i /\ Ends(t[l], n, c)
    <3>1. j - 1 \in DOMAIN t /\ t[j - 1] = q[j] /\ j - 1 > i
      BY <1>2, <2>2
    <3> QED
      BY <2>2, <3>1
  <2> QED
    BY <2>1, <2>2
<1>6. \A n, c : (\E i \in DOMAIN q : Ends(q[i], n, c)) /\ ~Ends(q[1], n, c) =>
          \E i \in DOMAIN t : Ends(t[i], n, c)
  BY <1>2
<1>7. ASSUME NEW n \in Nodes, NEW c, Holds(n, c), ~Ends(Head(q), n, c), n \in opened',
             platform = "raw" => c \in reported'[n][ReportOf[c]],
             <<n, c>> \in lostReleases => <<n, c>> \in lostReleases'
      PROVE  Holds(n, c)'
  <2>1. DownNow(n, c) \/ (\E i \in DOMAIN q : Ends(q[i], n, c)) \/ <<n, c>> \in lostReleases
    BY <1>7 DEF Holds, q
  <2>2. \/ DownNow(n, c)'
        \/ \E i \in DOMAIN t : Ends(t[i], n, c)
        \/ <<n, c>> \in lostReleases'
    BY <1>2, <1>3, <1>6, <1>7, <2>1
  <2> QED
    BY <1>3, <1>7, <2>2 DEF Holds, t
<1>8. ASSUME NEW n \in Nodes, NEW c \in ButtonsOf[n], Says(Head(q), n, c)
      PROVE  DownNow(n, c)' \/ \E j \in DOMAIN t : Ends(t[j], n, c)
  <2>1. DownNow(n, c) \/ \E j \in DOMAIN q : j > 1 /\ Ends(q[j], n, c)
    BY <1>2, <1>4, <1>8
  <2> QED
    BY <1>2, <1>3, <2>1
<1>9. ASSUME lifecycle = "running", NEW n \in opened, n \notin plugged,
             ~(Head(q).type = "remove" /\ Head(q).node = n)
      PROVE  \E i \in DOMAIN t : t[i].type = "remove" /\ t[i].node = n
  <2>1. PICK i \in DOMAIN q : q[i].type = "remove" /\ q[i].node = n
    BY <1>9 DEF DeviceInv, RemovalComes, q
  <2> QED
    BY <1>2, <1>9, <2>1
<1> QED
  BY <1>2, <1>5, <1>7, <1>8, <1>9 DEF q, t

\* What becomes of a node that is announced or reports something.
LEMMA Ensured ==
    ASSUME DeviceInv, todo = <<>>, NEW n \in Nodes, EnsureDevice(n)
    PROVE  /\ opened \subseteq opened' /\ opened' \subseteq Nodes
           /\ opened' \subseteq opened \cup plugged
           /\ todo' \in Seq(SinkCalls)
           /\ \A c : \A i \in DOMAIN todo' : todo'[i] # Pressed(c)
<1>1. DeviceConnected(n) \in SinkCalls /\ \A c : DeviceConnected(n) # Pressed(c)
  BY DEF DeviceConnected, SinkCalls, Announcements, Pressed
<1>2. opened \subseteq Nodes
  BY DEF DeviceInv, DeviceShape, DevicesTypeOK
<1>3. CASE n \in plugged \ opened /\ opened' = opened \cup {n} /\ todo' = <<DeviceConnected(n)>>
  BY <1>1, <1>2, <1>3
<1>4. CASE UNCHANGED <<opened, todo>>
  BY <1>2, <1>4
<1> QED
  BY <1>3, <1>4 DEF EnsureDevice

\* A message after which every held control still has its reason and nothing is pressed.
LEMMA NothingPressed ==
    ASSUME DeviceInv, lifecycle = "running", todo = <<>>,
           NEW n \in Nodes, EnsureDevice(n),
           inputQueue' \in Seq(Sent), MessagesTrue',
           lostReleases' \subseteq Nodes \X Buttons,
           \A x \in Nodes : \A c : Holds(x, c) => Holds(x, c)',
           \A x \in opened :
              x \notin plugged => \E i \in DOMAIN inputQueue' :
                                       inputQueue'[i].type = "remove" /\ inputQueue'[i].node = x,
           UNCHANGED <<platform, lifecycle, plugged, down, messages, reported, pressedControls>>
    PROVE  DeviceInv'
<1>1. /\ opened \subseteq opened' /\ opened' \subseteq Nodes
      /\ opened' \subseteq opened \cup plugged
      /\ todo' \in Seq(SinkCalls)
      /\ \A c : \A i \in DOMAIN todo' : todo'[i] # Pressed(c)
  BY Ensured
<1>2. DeviceShape'
  BY <1>1 DEF DeviceInv, DeviceShape, DevicesTypeOK, Sent, SinkCalls
<1>3. RemovalComes'
  BY <1>1 DEF RemovalComes
<1>4. ReportsTrue'
  BY DEF DeviceInv, ReportsTrue
<1>5. HeldForAReason'
  <2>1. \A c \in pressedControls : \E x \in Nodes : Holds(x, c)'
    BY DEF DeviceInv, HeldForAReason
  <2>2. \A c : Pressed(c)' = Pressed(c)
    BY DEF Pressed
  <2> QED
    BY <1>1, <2>1, <2>2 DEF HeldForAReason
<1>6. BeforeRunning'
  BY DEF BeforeRunning
<1> QED
  BY <1>2, <1>3, <1>4, <1>5, <1>6 DEF DeviceInv

\* An input that is not read: a release in it is now a lost one.
LEMMA InputDropped ==
    ASSUME DeviceInv, lifecycle = "running", inputQueue # <<>>, todo = <<>>,
           NEW m, m = Head(inputQueue), m.type = "input",
           inputQueue' = Tail(inputQueue), EnsureDevice(m.node), InputLost(m),
           UNCHANGED <<platform, lifecycle, plugged, down, messages, reported, pressedControls>>
    PROVE  DeviceInv'
<1>1. /\ m \in Sent /\ inputQueue' \in Seq(Sent) /\ MessagesTrue'
      /\ \A n \in Nodes : \A c :
           /\ Holds(n, c) /\ ~Ends(m, n, c) /\ n \in opened'
           /\ platform = "raw" => c \in reported'[n][ReportOf[c]]
           /\ <<n, c>> \in lostReleases => <<n, c>> \in lostReleases'
           => Holds(n, c)'
      /\ \A n \in opened :
           n \notin plugged => \E i \in DOMAIN inputQueue' :
                                    inputQueue'[i].type = "remove" /\ inputQueue'[i].node = n
  BY AfterReceive
<1>2. m.node \in Nodes /\ m.control \in Buttons
  BY <1>1 DEF Sent, HotPlugs, Inputs
<1>3. opened \subseteq opened'
  BY <1>2, Ensured
<1>4. /\ lostReleases \subseteq lostReleases'
      /\ m.node \in opened => \A c \in ReleasedBy(m) : <<m.node, c>> \in lostReleases'
  BY DEF InputLost
<1>5. lostReleases' \subseteq Nodes \X Buttons
  <2>1. ReportOf[m.control] \in ReportIds
    BY <1>2 DEF ReportIds
  <2>2. reported[m.node][ReportOf[m.control]] \subseteq Buttons /\ lostReleases \subseteq Nodes \X Buttons
    BY <1>2, <2>1 DEF DeviceInv, DeviceShape, DevicesTypeOK
  <2>3. ReleasedBy(m) \subseteq Buttons
    BY <1>2, <2>2 DEF ReleasedBy
  <2> QED
    BY <1>2, <2>2, <2>3 DEF InputLost
<1>6. ASSUME NEW n \in Nodes, NEW c, Holds(n, c) PROVE Holds(n, c)'
  <2>1. n \in opened /\ c \in ButtonsOf[n] /\ (platform = "raw" => c \in reported[n][ReportOf[c]])
    BY <1>6 DEF Holds
  <2>2. CASE ~Ends(m, n, c)
    BY <1>1, <1>3, <1>4, <1>6, <2>1, <2>2
  <2>3. CASE Ends(m, n, c)
    <3>1. m.node = n /\ c \in ReleasedBy(m)
      BY <2>1, <2>3 DEF Ends, ReleasedBy, DeviceInv, DeviceShape, DevicesTypeOK
    <3>2. <<n, c>> \in lostReleases'
      BY <1>4, <2>1, <3>1
    <3> QED
      BY <1>3, <2>1, <3>2 DEF Holds
  <2> QED
    BY <2>2, <2>3
<1> QED
  BY <1>1, <1>2, <1>5, <1>6, NothingPressed

\* addDevice
LEMMA DeviceAdded == DeviceInv /\ AddDevice => DeviceInv'
<1> SUFFICES ASSUME DeviceInv, AddDevice PROVE DeviceInv'
  OBVIOUS
<1> DEFINE m == Head(inputQueue)
<1>1. /\ lifecycle = "running" /\ todo = <<>> /\ inputQueue # <<>>
      /\ m.type = "add" /\ inputQueue' = Tail(inputQueue) /\ EnsureDevice(m.node)
      /\ UNCHANGED <<platform, lifecycle, plugged, down, messages, reported, lostReleases,
                     pressedControls>>
  BY DEF AddDevice, Receive, Between, inputVars, engineVars
<1>2. /\ m \in Sent /\ inputQueue' \in Seq(Sent) /\ MessagesTrue'
      /\ \A x \in Nodes : \A c :
           /\ Holds(x, c) /\ ~Ends(m, x, c) /\ x \in opened'
           /\ platform = "raw" => c \in reported'[x][ReportOf[c]]
           /\ <<x, c>> \in lostReleases => <<x, c>> \in lostReleases'
           => Holds(x, c)'
      /\ \A x \in opened :
           x \notin plugged => \E i \in DOMAIN inputQueue' :
                                    inputQueue'[i].type = "remove" /\ inputQueue'[i].node = x
  BY <1>1, AfterReceive
<1>3. m.node \in Nodes
  BY <1>2 DEF Sent, HotPlugs, Inputs
<1> HIDE DEF m
<1>4. opened \subseteq opened'
  BY <1>1, <1>3, Ensured
<1>5. \A x \in Nodes : \A c : Holds(x, c) => Holds(x, c)'
  BY <1>1, <1>2, <1>4 DEF Holds, Ends
<1>6. lostReleases' \subseteq Nodes \X Buttons
  BY <1>1 DEF DeviceInv, DeviceShape, DevicesTypeOK
<1> QED
  BY <1>1, <1>2, <1>3, <1>5, <1>6, NothingPressed

\* A node is removed, and the engine is told to release what its device holds.
LEMMA DeviceRemoved == DeviceInv /\ RemoveDevice => DeviceInv'
<1> SUFFICES ASSUME DeviceInv, RemoveDevice PROVE DeviceInv'
  OBVIOUS
<1> DEFINE n == Head(inputQueue).node
<1>1. /\ lifecycle = "running" /\ todo = <<>> /\ inputQueue # <<>>
      /\ Head(inputQueue).type = "remove" /\ inputQueue' = Tail(inputQueue)
      /\ UNCHANGED <<platform, lifecycle, plugged, down, messages, pressedControls>>
      /\ opened' = opened \ {n}
      /\ reported' = [reported EXCEPT ![n] = NoReports]
      /\ lostReleases' = lostReleases \ ({n} \X Buttons)
      /\ todo' = IF n \in opened THEN <<Removed(n)>> ELSE <<>>
  BY DEF RemoveDevice, Receive, Between, inputVars, engineVars
<1>2. /\ Head(inputQueue) \in Sent /\ inputQueue' \in Seq(Sent) /\ MessagesTrue'
      /\ \A x \in Nodes : \A c :
           /\ Holds(x, c) /\ ~Ends(Head(inputQueue), x, c) /\ x \in opened'
           /\ platform = "raw" => c \in reported'[x][ReportOf[c]]
           /\ <<x, c>> \in lostReleases => <<x, c>> \in lostReleases'
           => Holds(x, c)'
      /\ \A x \in opened :
           x \notin plugged /\ n # x =>
               \E i \in DOMAIN inputQueue' :
                    inputQueue'[i].type = "remove" /\ inputQueue'[i].node = x
  BY <1>1, AfterReceive
<1>3. n \in Nodes
  BY <1>2 DEF Sent, HotPlugs, Inputs
<1>4. reported \in [Nodes -> [ReportIds -> SUBSET Buttons]]
  BY DEF DeviceInv, DeviceShape, DevicesTypeOK
<1>5. NoReports \in [ReportIds -> SUBSET Buttons] /\ \A r \in ReportIds : NoReports[r] = {}
  BY DEF NoReports
<1>6. Removed(n) \in SinkCalls /\ \A c : Removed(n) # Pressed(c)
  BY <1>3 DEF Removed, SinkCalls, Announcements, Pressed
<1> HIDE DEF n
<1>7. \A x \in Nodes : \A c : x # n /\ Holds(x, c) => Holds(x, c)'
  BY <1>1, <1>2, <1>3, <1>4 DEF Holds, Ends, n
<1>8. \A x \in Nodes, r \in ReportIds :
        reported'[x][r] = IF x = n THEN {} ELSE reported[x][r]
  BY <1>1, <1>3, <1>4, <1>5
<1>9. DeviceShape'
  <2>1. todo' \in Seq(SinkCalls)
    BY <1>1, <1>6
  <2>2. reported' \in [Nodes -> [ReportIds -> SUBSET Buttons]]
    BY <1>1, <1>3, <1>4, <1>5
  <2>3. \A x \in Nodes, r \in ReportIds : \A b \in reported'[x][r] :
          b \in ButtonsOf[x] /\ ReportOf[b] = r /\ x \in opened' /\ platform' = "raw"
    BY <1>1, <1>8 DEF DeviceInv, DeviceShape
  <2>4. lostReleases' \subseteq Nodes \X Buttons
    BY <1>1 DEF DeviceInv, DeviceShape, DevicesTypeOK
  <2> QED
    BY <1>1, <1>2, <2>1, <2>2, <2>3, <2>4 DEF DeviceInv, DeviceShape, DevicesTypeOK, Sent, SinkCalls
<1>10. RemovalComes'
  BY <1>1, <1>2 DEF RemovalComes
<1>11. ReportsTrue'
  BY <1>1, <1>7, <1>8 DEF DeviceInv, ReportsTrue
<1>12. HeldForAReason'
  <2>1. ASSUME NEW c \in pressedControls
        PROVE  (\E i \in DOMAIN todo' : Kills(todo'[i], c)) \/ \E x \in Nodes : Holds(x, c)'
    <3>1. PICK x \in Nodes : Holds(x, c)
      BY <1>1 DEF DeviceInv, HeldForAReason
    <3>2. CASE x # n
      BY <1>7, <3>1, <3>2
    <3>3. CASE x = n
      <4>1. n \in opened /\ c.device = DeviceId[n]
        BY <3>1, <3>3, DeviceAssumption DEF Holds
      <4>2. Kills(Removed(n), c) /\ todo' = <<Removed(n)>>
        BY <1>1, <4>1 DEF Kills, Removed
      <4> QED
        BY <4>2
    <3> QED
      BY <3>2, <3>3
  <2>2. \A i \in DOMAIN todo' : todo'[i] = Removed(n)
    BY <1>1
  <2> QED
    BY <1>1, <1>6, <2>1, <2>2 DEF HeldForAReason
<1>13. BeforeRunning'
  BY <1>1 DEF BeforeRunning
<1> QED
  BY <1>2, <1>9, <1>10, <1>11, <1>12, <1>13 DEF DeviceInv

\* A set is finite, so its elements come in some order.
LEMMA OrderFacts ==
    ASSUME NEW S, IsFiniteSet(S), NEW s \in AnyOrder(S)
    PROVE  /\ s \in Seq(S)
           /\ DOMAIN s = 1..Len(s)
           /\ \A i \in DOMAIN s : s[i] \in S
           /\ \A x \in S : \E i \in DOMAIN s : s[i] = x
<1>1. Cardinality(S) \in Nat
  BY FS_CardinalityType
<1>2. s \in [1..Cardinality(S) -> S] /\ \A x \in S : \E i \in DOMAIN s : s[i] = x
  BY DEF AnyOrder
<1>3. s \in Seq(S)
  BY <1>1, <1>2
<1> QED
  BY <1>2, <1>3

\* The calls of one list followed by those of another.
LEMMA ConcatFacts ==
    ASSUME NEW S, NEW a \in Seq(S), NEW b \in Seq(S)
    PROVE  /\ a \o b \in Seq(S)
           /\ \A i \in DOMAIN a : i \in DOMAIN (a \o b) /\ (a \o b)[i] = a[i]
           /\ \A j \in DOMAIN b : Len(a) + j \in DOMAIN (a \o b) /\ (a \o b)[Len(a) + j] = b[j]
           /\ \A i \in DOMAIN (a \o b) : \/ i \in DOMAIN a /\ (a \o b)[i] = a[i]
                                         \/ i - Len(a) \in DOMAIN b /\ (a \o b)[i] = b[i - Len(a)]
  OBVIOUS

\* The nodes and the buttons are finitely many.
LEMMA FinitelyMany ==
    /\ Buttons \subseteq Controls
    /\ \A S \in SUBSET Buttons : IsFiniteSet(S)
    /\ \A S \in SUBSET Nodes : IsFiniteSet(S)
<1>1. Buttons \subseteq Controls
  BY DeviceAssumption DEF Buttons
<1> QED
  BY <1>1, DeviceAssumption, FS_Subset

\* readEvents
LEMMA EventRead == DeviceInv /\ ReadEvents => DeviceInv'
<1> SUFFICES ASSUME DeviceInv, ReadEvents PROVE DeviceInv'
  OBVIOUS
<1> DEFINE m == Head(inputQueue)
<1>1. /\ lifecycle = "running" /\ todo = <<>> /\ inputQueue # <<>> /\ platform = "evdev"
      /\ m.type = "input" /\ inputQueue' = Tail(inputQueue)
      /\ UNCHANGED <<platform, lifecycle, plugged, down, messages, opened, reported,
                     pressedControls>>
      /\ \/ /\ m.node \in opened /\ m.node \in plugged
            /\ todo' = <<IF m.pressed THEN Pressed(m.control) ELSE Released(m.control)>>
            /\ InputRead(m)
         \/ todo' = todo /\ InputLost(m)
  BY DEF ReadEvents, Receive, Between, inputVars, engineVars
<1>2. CASE todo' = todo /\ InputLost(m)
  <2>1. EnsureDevice(m.node)
    BY <1>1, <1>2 DEF EnsureDevice
  <2> HIDE DEF m
  <2>2. m = Head(inputQueue)
    BY DEF m
  <2> QED
    BY <1>1, <1>2, <2>1, <2>2, InputDropped
<1>3. CASE /\ m.node \in opened /\ m.node \in plugged
           /\ todo' = <<IF m.pressed THEN Pressed(m.control) ELSE Released(m.control)>>
           /\ InputRead(m)
  <2>1. /\ m \in Sent /\ inputQueue' \in Seq(Sent) /\ MessagesTrue'
        /\ \A x \in Nodes : \A c :
             /\ Holds(x, c) /\ ~Ends(m, x, c) /\ x \in opened'
             /\ platform = "raw" => c \in reported'[x][ReportOf[c]]
             /\ <<x, c>> \in lostReleases => <<x, c>> \in lostReleases'
             => Holds(x, c)'
        /\ \A x \in Nodes : \A c \in ButtonsOf[x] : Says(m, x, c) =>
             DownNow(x, c)' \/ \E j \in DOMAIN inputQueue' : Ends(inputQueue'[j], x, c)
        /\ \A x \in opened :
             x \notin plugged => \E i \in DOMAIN inputQueue' :
                                      inputQueue'[i].type = "remove" /\ inputQueue'[i].node = x
    BY <1>1, AfterReceive
  <2>2. /\ m.node \in Nodes /\ m.control \in ButtonsOf[m.node] /\ m.control \in Buttons
        /\ m.pressed \in BOOLEAN
    BY <1>1, <2>1 DEF Sent, HotPlugs, Inputs
  <2> DEFINE k == IF m.pressed THEN Pressed(m.control) ELSE Released(m.control)
  <2>3. todo' = <<k>>
    BY <1>1, <1>3
  <2>4. /\ k \in SinkCalls
        /\ \A c : k = Pressed(c) => m.pressed /\ c = m.control
        /\ ~m.pressed => Kills(k, m.control)
    BY <2>2 DEF SinkCalls, InputCalls, Pressed, Released, Kills
  <2> HIDE DEF m, k
  <2>9. lostReleases' = lostReleases \ ({m.node} \X {m.control})
    BY <1>1, <1>3 DEF InputRead, ToldBy
  <2>0. PICK n \in Nodes, b \in Buttons : n = m.node /\ b = m.control
    BY <2>2
  <2>6. m.pressed => Holds(n, b)'
    <3> SUFFICES ASSUME m.pressed PROVE Holds(n, b)'
      OBVIOUS
    <3>1. Says(m, n, b) /\ b \in ButtonsOf[n]
      BY <1>1, <2>0, <2>2 DEF Says
    <3>2. DownNow(n, b)' \/ \E j \in DOMAIN inputQueue' : Ends(inputQueue'[j], n, b)
      BY <2>1, <3>1
    <3>3. \A y : Ends(y, n, b)' <=> Ends(y, n, b)
      BY <1>1 DEF Ends
    <3> QED
      BY <1>1, <1>3, <2>0, <3>1, <3>2, <3>3 DEF Holds
  <2>5. \A x \in Nodes : \A c : Holds(x, c) => Holds(x, c)' \/ (~m.pressed /\ c = m.control)
    <3> SUFFICES ASSUME NEW x \in Nodes, NEW c, Holds(x, c), ~(~m.pressed /\ c = m.control)
                 PROVE  Holds(x, c)'
      OBVIOUS
    <3>1. CASE x = m.node /\ c = m.control
      BY <2>0, <2>6, <3>1
    <3>2. CASE ~(x = m.node /\ c = m.control)
      <4>1. ~Ends(m, x, c)
        BY <1>1 DEF Ends
      <4>2. x \in opened' /\ (<<x, c>> \in lostReleases => <<x, c>> \in lostReleases')
        BY <1>1, <2>9, <3>2 DEF Holds
      <4> QED
        BY <1>1, <2>1, <4>1, <4>2
    <3> QED
      BY <3>1, <3>2
  <2>7. DeviceShape'
    <3>1. todo' \in Seq(SinkCalls)
      BY <2>3, <2>4
    <3>2. lostReleases' \subseteq Nodes \X Buttons
      BY <2>9 DEF DeviceInv, DeviceShape, DevicesTypeOK
    <3> QED
      BY <1>1, <2>1, <3>1, <3>2 DEF DeviceInv, DeviceShape, DevicesTypeOK, Sent, SinkCalls
  <2>8. RemovalComes'
    BY <1>1, <2>1 DEF RemovalComes
  <2>12. ReportsTrue'
    BY <1>1 DEF DeviceInv, DeviceShape, ReportsTrue
  <2>10. HeldForAReason'
    <3>1. \A c \in pressedControls' :
            (\E i \in DOMAIN todo' : Kills(todo'[i], c)) \/ \E x \in Nodes : Holds(x, c)'
      <4> SUFFICES ASSUME NEW c \in pressedControls
                   PROVE  (\E i \in DOMAIN todo' : Kills(todo'[i], c)) \/ \E x \in Nodes : Holds(x, c)'
        BY <1>1
      <4>1. PICK x \in Nodes : Holds(x, c)
        BY <1>1 DEF DeviceInv, HeldForAReason
      <4>2. CASE ~m.pressed /\ c = m.control
        <5>1. 1 \in DOMAIN todo' /\ todo'[1] = k /\ Kills(k, c)
          BY <2>3, <2>4, <4>2
        <5> QED
          BY <5>1
      <4> QED
        BY <2>5, <4>1, <4>2
    <3>2. \A c \in Buttons : \A i \in DOMAIN todo' : todo'[i] = Pressed(c) =>
              \E x \in Nodes : Holds(x, c)'
      BY <2>0, <2>3, <2>4, <2>6
    <3> QED
      BY <3>1, <3>2 DEF HeldForAReason, Kills
  <2>11. BeforeRunning'
    BY <1>1 DEF BeforeRunning
  <2> QED
    BY <2>1, <2>7, <2>8, <2>10, <2>11, <2>12 DEF DeviceInv
<1> QED
  BY <1>1, <1>2, <1>3

\* The calls of one report: the releases of old \ new, then the presses of new \ old.
LEMMA HidReport ==
    ASSUME NEW old \in SUBSET Buttons, NEW new \in SUBSET Buttons,
           NEW r \in ReleaseCalls(old \ new), NEW p \in PressCalls(new \ old),
           NEW calls, calls = r \o p
    PROVE  /\ calls \in Seq(SinkCalls)
           /\ \A c \in old \ new : \E i \in DOMAIN calls : calls[i] = Released(c)
           /\ \A c : \A i \in DOMAIN calls : calls[i] = Pressed(c) => c \in new
<1> DEFINE gone == old \ new
           come == new \ old
<1>b. PICK s \in AnyOrder(gone) : r = [i \in DOMAIN s |-> Released(s[i])]
  BY DEF ReleaseCalls
<1>c. PICK t \in AnyOrder(come) : p = [i \in DOMAIN t |-> Pressed(t[i])]
  BY DEF PressCalls
<1>2. IsFiniteSet(gone) /\ IsFiniteSet(come) /\ gone \subseteq Buttons /\ come \subseteq Buttons
  BY FinitelyMany
<1>d. come \subseteq new
  OBVIOUS
<1> HIDE DEF gone, come
<1>3. /\ s \in Seq(gone) /\ DOMAIN s = 1..Len(s)
      /\ \A i \in DOMAIN s : s[i] \in gone
      /\ \A x \in gone : \E i \in DOMAIN s : s[i] = x
  BY <1>2, OrderFacts
<1>4. /\ t \in Seq(come) /\ DOMAIN t = 1..Len(t)
      /\ \A i \in DOMAIN t : t[i] \in come
  BY <1>2, OrderFacts
<1>5. \A c \in Buttons : Released(c) \in SinkCalls /\ Pressed(c) \in SinkCalls
  BY DEF Released, Pressed, SinkCalls, InputCalls
<1>6. \A c, d : Released(c) # Pressed(d) /\ (Pressed(c) = Pressed(d) => c = d)
  BY DEF Released, Pressed
<1>7. r \in Seq(SinkCalls) /\ DOMAIN r = DOMAIN s /\ \A i \in DOMAIN s : r[i] = Released(s[i])
  BY <1>2, <1>3, <1>5, <1>b
<1>8. p \in Seq(SinkCalls) /\ DOMAIN p = DOMAIN t /\ \A i \in DOMAIN t : p[i] = Pressed(t[i])
  BY <1>2, <1>4, <1>5, <1>c
<1>10. /\ calls \in Seq(SinkCalls)
       /\ \A i \in DOMAIN r : i \in DOMAIN calls /\ calls[i] = r[i]
       /\ \A i \in DOMAIN calls : \/ i \in DOMAIN r /\ calls[i] = r[i]
                                  \/ i - Len(r) \in DOMAIN p /\ calls[i] = p[i - Len(r)]
  BY <1>7, <1>8, ConcatFacts
<1>11. ASSUME NEW c \in old \ new PROVE \E i \in DOMAIN calls : calls[i] = Released(c)
  <2>1. PICK i \in DOMAIN s : s[i] = c
    BY <1>3 DEF gone
  <2> QED
    BY <1>7, <1>10, <2>1
<1>12. ASSUME NEW c, NEW i \in DOMAIN calls, calls[i] = Pressed(c) PROVE c \in new
  <2>1. CASE i \in DOMAIN r /\ calls[i] = r[i]
    BY <1>6, <1>7, <1>12, <2>1
  <2>2. CASE i - Len(r) \in DOMAIN p /\ calls[i] = p[i - Len(r)]
    <3>1. p[i - Len(r)] = Pressed(t[i - Len(r)]) /\ t[i - Len(r)] \in come
      BY <1>4, <1>8, <2>2
    <3> QED
      BY <1>6, <1>12, <1>d, <2>2, <3>1
  <2> QED
    BY <1>10, <2>1, <2>2
<1> QED
  BY <1>10, <1>11, <1>12

\* The announcement of a node goes before the calls of its report.
LEMMA Announced ==
    ASSUME NEW n \in Nodes, NEW calls \in Seq(SinkCalls),
           NEW all, all = <<DeviceConnected(n)>> \o calls
    PROVE  /\ all \in Seq(SinkCalls)
           /\ \A i \in DOMAIN calls : \E j \in DOMAIN all : all[j] = calls[i]
           /\ \A c : \A j \in DOMAIN all : all[j] = Pressed(c) =>
                \E i \in DOMAIN calls : calls[i] = Pressed(c)
<1>1. DeviceConnected(n) \in SinkCalls /\ \A c : DeviceConnected(n) # Pressed(c)
  BY DEF DeviceConnected, SinkCalls, Announcements, Pressed
<1> DEFINE a == <<DeviceConnected(n)>>
<1>2. a \in Seq(SinkCalls) /\ \A i \in DOMAIN a : a[i] = DeviceConnected(n)
  BY <1>1
<1>3. all = a \o calls
  OBVIOUS
<1> HIDE DEF a
<1>4. \A z : z = a \o calls =>
        /\ z \in Seq(SinkCalls)
        /\ \A j \in DOMAIN calls : Len(a) + j \in DOMAIN z /\ z[Len(a) + j] = calls[j]
        /\ \A i \in DOMAIN z : \/ i \in DOMAIN a /\ z[i] = a[i]
                               \/ i - Len(a) \in DOMAIN calls /\ z[i] = calls[i - Len(a)]
  BY <1>2, ConcatFacts
<1>5. ASSUME NEW z,
             \A j \in DOMAIN calls : Len(a) + j \in DOMAIN z /\ z[Len(a) + j] = calls[j],
             \A i \in DOMAIN z : \/ i \in DOMAIN a /\ z[i] = a[i]
                                 \/ i - Len(a) \in DOMAIN calls /\ z[i] = calls[i - Len(a)]
      PROVE  /\ \A i \in DOMAIN calls : \E j \in DOMAIN z : z[j] = calls[i]
             /\ \A c : \A j \in DOMAIN z : z[j] = Pressed(c) =>
                   \E i \in DOMAIN calls : calls[i] = Pressed(c)
  <2>1. ASSUME NEW c, NEW j \in DOMAIN z, z[j] = Pressed(c)
        PROVE  \E i \in DOMAIN calls : calls[i] = Pressed(c)
    <3>1. ~(j \in DOMAIN a /\ z[j] = a[j])
      BY <1>1, <1>2, <2>1
    <3> QED
      BY <1>5, <2>1, <3>1
  <2> QED
    BY <1>5, <2>1
<1> QED
  BY <1>3, <1>4, <1>5

\* What WM_INPUT makes the thread call: a known node is not announced again.
LEMMA ReportCalls ==
    ASSUME NEW n \in Nodes, NEW old \in SUBSET Buttons, NEW new \in SUBSET Buttons,
           NEW known \in BOOLEAN,
           ProcessHidReport(IF known THEN <<>> ELSE <<DeviceConnected(n)>>, old, new)
    PROVE  /\ todo' \in Seq(SinkCalls)
           /\ \A c \in old \ new : \E i \in DOMAIN todo' : todo'[i] = Released(c)
           /\ \A c : \A i \in DOMAIN todo' : todo'[i] = Pressed(c) => c \in new
<1>1. PICK r \in ReleaseCalls(old \ new), p \in PressCalls(new \ old) :
            todo' = (IF known THEN <<>> ELSE <<DeviceConnected(n)>>) \o (r \o p)
  BY DEF ProcessHidReport
<1>2. \A z : z = r \o p =>
        /\ z \in Seq(SinkCalls)
        /\ \A c \in old \ new : \E i \in DOMAIN z : z[i] = Released(c)
        /\ \A c : \A i \in DOMAIN z : z[i] = Pressed(c) => c \in new
  BY HidReport
<1> DEFINE calls == r \o p
<1>3. /\ calls \in Seq(SinkCalls)
      /\ \A c \in old \ new : \E i \in DOMAIN calls : calls[i] = Released(c)
      /\ \A c : \A i \in DOMAIN calls : calls[i] = Pressed(c) => c \in new
  BY <1>2
<1>4. todo' = (IF known THEN <<>> ELSE <<DeviceConnected(n)>>) \o calls
  BY <1>1
<1> HIDE DEF calls
<1>5. CASE known
  <2>1. todo' = <<>> \o calls
    BY <1>4, <1>5
  <2>2. todo' = calls
    BY <1>3, <2>1
  <2> QED
    BY <1>3, <2>2
<1>6. CASE ~known
  <2>1. todo' = <<DeviceConnected(n)>> \o calls
    BY <1>4, <1>6
  <2>2. \A z : z = <<DeviceConnected(n)>> \o calls =>
          /\ z \in Seq(SinkCalls)
          /\ \A i \in DOMAIN calls : \E j \in DOMAIN z : z[j] = calls[i]
          /\ \A c : \A j \in DOMAIN z : z[j] = Pressed(c) =>
                \E i \in DOMAIN calls : calls[i] = Pressed(c)
    BY <1>3, Announced
  <2>3. /\ todo' \in Seq(SinkCalls)
        /\ \A i \in DOMAIN calls : \E j \in DOMAIN todo' : todo'[j] = calls[i]
        /\ \A c : \A j \in DOMAIN todo' : todo'[j] = Pressed(c) =>
              \E i \in DOMAIN calls : calls[i] = Pressed(c)
    BY <2>1, <2>2
  <2>4. ASSUME NEW c \in old \ new PROVE \E j \in DOMAIN todo' : todo'[j] = Released(c)
    <3>1. PICK i \in DOMAIN calls : calls[i] = Released(c)
      BY <1>3
    <3>2. PICK j \in DOMAIN todo' : todo'[j] = calls[i]
      BY <2>3
    <3> QED
      BY <3>1, <3>2
  <2> QED
    BY <1>3, <2>3, <2>4
<1> QED
  BY <1>5, <1>6

\* WM_INPUT of a node that is there: the report replaces the last one with its id.
LEMMA ReportApplied ==
    ASSUME DeviceInv, lifecycle = "running", todo = <<>>, inputQueue # <<>>, platform = "raw",
           NEW m, m = Head(inputQueue), m.type = "input", m.node \in opened \cup plugged,
           inputQueue' = Tail(inputQueue),
           UNCHANGED <<platform, lifecycle, plugged, down, messages, pressedControls>>,
           opened' = opened \cup {m.node},
           NEW new, new = [reported[m.node] EXCEPT ![ReportOf[m.control]] = m.state],
           reported' = [reported EXCEPT ![m.node] = new], InputRead(m),
           ProcessHidReport(IF m.node \in opened THEN <<>> ELSE <<DeviceConnected(m.node)>>,
                            AllPressedButtons(reported[m.node]), AllPressedButtons(new))
    PROVE  DeviceInv'
<1> DEFINE n == m.node
           old == reported[n]
           r0 == ReportOf[m.control]
<1>1. /\ m \in Sent /\ inputQueue' \in Seq(Sent) /\ MessagesTrue'
      /\ \A x \in Nodes : \A c :
           /\ Holds(x, c) /\ ~Ends(m, x, c) /\ x \in opened'
           /\ platform = "raw" => c \in reported'[x][ReportOf[c]]
           /\ <<x, c>> \in lostReleases => <<x, c>> \in lostReleases'
           => Holds(x, c)'
      /\ \A x \in Nodes : \A c \in ButtonsOf[x] : Says(m, x, c) =>
           DownNow(x, c)' \/ \E j \in DOMAIN inputQueue' : Ends(inputQueue'[j], x, c)
      /\ \A x \in opened :
           x \notin plugged => \E i \in DOMAIN inputQueue' :
                                    inputQueue'[i].type = "remove" /\ inputQueue'[i].node = x
  BY AfterReceive
<1>2. /\ n \in Nodes /\ m.control \in Buttons /\ m.state \in SUBSET Buttons
      /\ \A b \in m.state : b \in ButtonsOf[n] /\ ReportOf[b] = r0
  BY <1>1 DEF Sent, HotPlugs, Inputs
<1>3. r0 \in ReportIds
  BY <1>2 DEF ReportIds
<1>4. /\ reported \in [Nodes -> [ReportIds -> SUBSET Buttons]]
      /\ \A x \in Nodes, r \in ReportIds : \A b \in reported[x][r] :
            b \in ButtonsOf[x] /\ ReportOf[b] = r /\ x \in opened
  BY DEF DeviceInv, DeviceShape, DevicesTypeOK
<1>5. /\ new \in [ReportIds -> SUBSET Buttons]
      /\ \A r \in ReportIds : new[r] = IF r = r0 THEN m.state ELSE old[r]
  BY <1>2, <1>3, <1>4
<1>6. /\ reported' \in [Nodes -> [ReportIds -> SUBSET Buttons]]
      /\ \A x \in Nodes : reported'[x] = IF x = n THEN new ELSE reported[x]
  BY <1>2, <1>4, <1>5
<1>7. /\ AllPressedButtons(old) \in SUBSET Buttons /\ AllPressedButtons(new) \in SUBSET Buttons
      /\ \A c : c \in AllPressedButtons(old) <=> \E r \in ReportIds : c \in old[r]
      /\ \A c : c \in AllPressedButtons(new) <=> \E r \in ReportIds : c \in new[r]
  BY <1>2, <1>4, <1>5 DEF AllPressedButtons
<1>8. ProcessHidReport(IF n \in opened THEN <<>> ELSE <<DeviceConnected(n)>>,
                       AllPressedButtons(old), AllPressedButtons(new))
  OBVIOUS
<1>9. /\ todo' \in Seq(SinkCalls)
      /\ \A c \in AllPressedButtons(old) \ AllPressedButtons(new) :
            \E i \in DOMAIN todo' : todo'[i] = Released(c)
      /\ \A c : \A i \in DOMAIN todo' : todo'[i] = Pressed(c) => c \in AllPressedButtons(new)
  <2> HIDE DEF n, old
  <2> QED
    BY <1>2, <1>7, <1>8, ReportCalls
<1> HIDE DEF n, old, r0
<1>10. n = m.node /\ old = reported[n] /\ r0 = ReportOf[m.control]
  BY DEF n, old, r0
<1>11. \A r \in ReportIds : \A c \in new[r] : c \in ButtonsOf[n] /\ ReportOf[c] = r
  BY <1>2, <1>4, <1>5, <1>10
<1>19. /\ lostReleases' \subseteq Nodes \X Buttons
       /\ \A x, c : <<x, c>> \in lostReleases /\ (x # n \/ ReportOf[c] # r0) => <<x, c>> \in lostReleases'
  BY <1>10 DEF InputRead, ToldBy, DeviceInv, DeviceShape, DevicesTypeOK
<1>12. ASSUME NEW r \in ReportIds, NEW c \in new[r] PROVE Holds(n, c)'
  <2>1. c \in reported'[n][ReportOf[c]] /\ n \in opened' /\ c \in ButtonsOf[n] /\ ReportOf[c] = r
    BY <1>2, <1>6, <1>10, <1>11, <1>12
  <2>2. CASE r = r0
    <3>1. Says(m, n, c)
      BY <1>5, <1>10, <1>12, <2>2 DEF Says
    <3>2. DownNow(n, c)' \/ \E j \in DOMAIN inputQueue' : Ends(inputQueue'[j], n, c)
      BY <1>1, <1>2, <2>1, <3>1
    <3>3. \A y : Ends(y, n, c)' <=> Ends(y, n, c)
      BY <1>10 DEF Ends
    <3> QED
      BY <2>1, <3>2, <3>3, <1>10 DEF Holds
  <2>3. CASE r # r0
    <3>1. c \in reported[n][r]
      BY <1>5, <1>10, <1>12, <2>3
    <3>2. Holds(n, c)
      BY <1>2, <3>1 DEF DeviceInv, ReportsTrue
    <3>3. ~Ends(m, n, c)
      BY <1>10, <2>1, <2>3 DEF Ends
    <3> QED
      BY <1>1, <1>2, <1>19, <2>1, <2>3, <3>2, <3>3
  <2> QED
    BY <2>2, <2>3
<1>13. \A x \in Nodes : \A c : x # n /\ Holds(x, c) => Holds(x, c)'
  <2> SUFFICES ASSUME NEW x \in Nodes, NEW c, x # n, Holds(x, c) PROVE Holds(x, c)'
    OBVIOUS
  <2>1. ~Ends(m, x, c)
    BY <1>10 DEF Ends
  <2>2. x \in opened' /\ c \in reported'[x][ReportOf[c]]
    BY <1>6 DEF Holds
  <2> QED
    BY <1>1, <1>19, <2>1, <2>2
<1>14. DeviceShape'
  <2>1. opened' \subseteq Nodes
    BY <1>2, <1>10 DEF DeviceInv, DeviceShape, DevicesTypeOK
  <2>2. \A x \in Nodes, r \in ReportIds : \A b \in reported'[x][r] :
            b \in ButtonsOf[x] /\ ReportOf[b] = r /\ x \in opened' /\ platform' = "raw"
    BY <1>4, <1>6, <1>10, <1>11
  <2> QED
    BY <1>1, <1>6, <1>9, <1>19, <2>1, <2>2 DEF DeviceInv, DeviceShape, DevicesTypeOK, Sent, SinkCalls
<1>15. RemovalComes'
  BY <1>1, <1>10 DEF RemovalComes
<1>16. ReportsTrue'
  <2>1. ASSUME NEW x \in Nodes, NEW r \in ReportIds, NEW c \in reported'[x][r] PROVE Holds(x, c)'
    <3>1. CASE x = n
      BY <1>6, <1>12, <2>1, <3>1
    <3>2. CASE x # n
      <4>1. Holds(x, c)
        BY <1>6, <2>1, <3>2 DEF DeviceInv, ReportsTrue
      <4> QED
        BY <1>13, <3>2, <4>1
    <3> QED
      BY <3>1, <3>2
  <2> QED
    BY <2>1 DEF ReportsTrue
<1>17. HeldForAReason'
  <2>1. ASSUME NEW c \in pressedControls
        PROVE  (\E i \in DOMAIN todo' : Kills(todo'[i], c)) \/ \E x \in Nodes : Holds(x, c)'
    <3>1. PICK x \in Nodes : Holds(x, c)
      BY DEF DeviceInv, HeldForAReason
    <3>2. CASE x # n
      BY <1>13, <3>1, <3>2
    <3>3. CASE x = n
      <4>1. c \in ButtonsOf[n] /\ c \in old[ReportOf[c]]
        BY <1>10, <3>1, <3>3 DEF Holds
      <4>2. ReportOf[c] \in ReportIds
        BY <1>2, <4>1 DEF ReportIds, Buttons
      <4>3. CASE c \in AllPressedButtons(new)
        BY <1>2, <1>7, <1>12, <4>3
      <4>4. CASE c \notin AllPressedButtons(new)
        <5>1. c \in AllPressedButtons(old)
          BY <1>7, <4>1, <4>2
        <5>2. PICK i \in DOMAIN todo' : todo'[i] = Released(c)
          BY <1>9, <4>4, <5>1
        <5> QED
          BY <5>2 DEF Kills
      <4> QED
        BY <4>3, <4>4
    <3> QED
      BY <3>2, <3>3
  <2>2. ASSUME NEW c \in Buttons, NEW i \in DOMAIN todo', todo'[i] = Pressed(c)
        PROVE  \E x \in Nodes : Holds(x, c)'
    <3>1. c \in AllPressedButtons(new)
      BY <1>9, <2>2
    <3> QED
      BY <1>2, <1>7, <1>12, <3>1
  <2> QED
    BY <2>1, <2>2 DEF HeldForAReason, Kills
<1>18. BeforeRunning'
  BY DEF BeforeRunning
<1> QED
  BY <1>1, <1>14, <1>15, <1>16, <1>17, <1>18 DEF DeviceInv

\* processRawInput
LEMMA RawInput == DeviceInv /\ ProcessRawInput => DeviceInv'
<1> SUFFICES ASSUME DeviceInv, ProcessRawInput PROVE DeviceInv'
  OBVIOUS
<1> DEFINE m == Head(inputQueue)
           new == [reported[m.node] EXCEPT ![ReportOf[m.control]] = m.state]
<1>1. /\ lifecycle = "running" /\ todo = <<>> /\ inputQueue # <<>> /\ platform = "raw"
      /\ m.type = "input" /\ inputQueue' = Tail(inputQueue)
      /\ UNCHANGED <<platform, lifecycle, plugged, down, messages, pressedControls>>
  BY DEF ProcessRawInput, Receive, Between, inputVars, engineVars
<1>2. \/ /\ m.node \in opened \cup plugged
         /\ opened' = opened \cup {m.node}
         /\ reported' = [reported EXCEPT ![m.node] = new]
         /\ ProcessHidReport(IF m.node \in opened THEN <<>> ELSE <<DeviceConnected(m.node)>>,
                             AllPressedButtons(reported[m.node]), AllPressedButtons(new))
         /\ InputRead(m)
      \/ EnsureDevice(m.node) /\ UNCHANGED reported /\ InputLost(m)
  BY DEF ProcessRawInput
<1>3. CASE EnsureDevice(m.node) /\ UNCHANGED reported /\ InputLost(m)
  <2> HIDE DEF m
  <2>1. m = Head(inputQueue)
    BY DEF m
  <2> QED
    BY <1>1, <1>3, <2>1, InputDropped
<1>4. CASE /\ m.node \in opened \cup plugged
           /\ opened' = opened \cup {m.node}
           /\ reported' = [reported EXCEPT ![m.node] = new]
           /\ ProcessHidReport(IF m.node \in opened THEN <<>> ELSE <<DeviceConnected(m.node)>>,
                               AllPressedButtons(reported[m.node]), AllPressedButtons(new))
           /\ InputRead(m)
  <2> HIDE DEF m, new
  <2>1. m = Head(inputQueue) /\ new = [reported[m.node] EXCEPT ![ReportOf[m.control]] = m.state]
    BY DEF m, new
  <2> QED
    BY <1>1, <1>4, <2>1, ReportApplied
<1> QED
  BY <1>2, <1>3, <1>4

\* What a call of the sink does to the controls that are held.
LEMMA SinkCallHolds ==
    ASSUME NEW k \in SinkCalls, SinkCall(k), \A c \in pressedControls : ValidControl(c)
    PROVE  /\ \A c \in pressedControls' : ValidControl(c)
           /\ \A c \in pressedControls' : ~Kills(k, c)
           /\ \A c \in pressedControls' : c \in pressedControls \/ (c \in Buttons /\ k = Pressed(c))
<1>1. CASE k.call = "connected"
  <2>1. pressedControls' = pressedControls /\ \A c : ~Kills(k, c)
    BY <1>1 DEF SinkCall, OnInputDeviceConnected, Kills, Released
  <2> QED
    BY <2>1
<1>2. CASE k.call = "removed"
  <2>1. pressedControls' = pressedControls \ OfDevice(k.device)
    BY <1>2 DEF SinkCall, OnInputDeviceRemoved, RecalculateLocked
  <2>2. \A c : Kills(k, c) => c.device = k.device
    BY <1>2 DEF Kills, Released
  <2> QED
    BY <2>1, <2>2 DEF OfDevice
<1>3. CASE k.call = "event"
  <2>1. /\ OnInputEvent(k.control, k.pressed)
        /\ k.control \in Buttons /\ k.pressed \in BOOLEAN
        /\ k = [call |-> "event", control |-> k.control, pressed |-> k.pressed]
    BY <1>3 DEF SinkCall, SinkCalls, InputCalls, Announcements
  <2>2. \A c : Kills(k, c) => ~k.pressed /\ c = k.control
    BY <1>3 DEF Kills, Released
  <2>3. k.pressed => k = Pressed(k.control)
    BY <2>1 DEF Pressed
  <2>4. CASE k.pressed
    BY <2>1, <2>2, <2>3, <2>4 DEF OnInputEvent, RecalculateLocked, inputVars, engineVars
  <2>5. CASE ~k.pressed
    <3>1. pressedControls' \subseteq pressedControls \ {k.control}
      BY <2>1, <2>5 DEF OnInputEvent, RecalculateLocked, inputVars, engineVars
    <3> QED
      BY <2>2, <3>1
  <2> QED
    BY <2>4, <2>5
<1> QED
  BY <1>1, <1>2, <1>3 DEF SinkCalls, Announcements, InputCalls

\* The source's thread calls the sink.
LEMMA SinkCalled == DeviceInv /\ MakeSinkCall => DeviceInv'
<1> SUFFICES ASSUME DeviceInv, MakeSinkCall PROVE DeviceInv'
  OBVIOUS
<1>1. /\ todo # <<>> /\ SinkCall(Head(todo)) /\ todo' = Tail(todo)
      /\ UNCHANGED <<platform, lifecycle, plugged, down, inputQueue, opened, reported,
                     lostReleases, messages>>
  BY DEF MakeSinkCall, systemVars
<1>2. todo \in Seq(SinkCalls) /\ \A c \in pressedControls : ValidControl(c)
  BY DEF DeviceInv, DeviceShape, SinkCalls
<1>3. /\ Head(todo) = todo[1] /\ 1 \in DOMAIN todo /\ Head(todo) \in SinkCalls
      /\ todo' \in Seq(SinkCalls)
      /\ \A i \in DOMAIN todo' : i + 1 \in DOMAIN todo /\ todo'[i] = todo[i + 1]
      /\ \A i \in DOMAIN todo : i # 1 => i - 1 \in DOMAIN todo' /\ todo'[i - 1] = todo[i]
  BY <1>1, <1>2, TailFacts
<1> DEFINE k == Head(todo)
<1>4. /\ \A c \in pressedControls' : ValidControl(c)
      /\ \A c \in pressedControls' : ~Kills(k, c)
      /\ \A c \in pressedControls' : c \in pressedControls \/ (c \in Buttons /\ k = Pressed(c))
  BY <1>1, <1>2, <1>3, SinkCallHolds
<1> HIDE DEF k
<1>5. /\ \A n, c : Holds(n, c)' <=> Holds(n, c)
      /\ MessagesTrue' /\ RemovalComes' /\ ReportsTrue'
  BY <1>1 DEF DeviceInv, MessagesTrue, RemovalComes, ReportsTrue, Holds, DownNow, Ends, Says
<1>6. DeviceShape'
  BY <1>1, <1>3, <1>4 DEF DeviceInv, DeviceShape, DevicesTypeOK, SinkCalls
<1>7. HeldForAReason'
  <2> SUFFICES ASSUME lifecycle = "running" PROVE HeldForAReason'
    BY <1>1 DEF HeldForAReason
  <2>1. ASSUME NEW c \in pressedControls'
        PROVE  (\E i \in DOMAIN todo' : Kills(todo'[i], c)) \/ \E n \in Nodes : Holds(n, c)
    <3>1. CASE c \in pressedControls
      <4>1. (\E i \in DOMAIN todo : Kills(todo[i], c)) \/ \E n \in Nodes : Holds(n, c)
        BY <3>1 DEF DeviceInv, HeldForAReason
      <4>2. \A i \in DOMAIN todo : Kills(todo[i], c) => i # 1
        BY <1>3, <1>4 DEF k
      <4> QED
        BY <1>3, <4>1, <4>2
    <3>2. CASE c \in Buttons /\ k = Pressed(c)
      BY <1>3, <3>2 DEF DeviceInv, HeldForAReason, k
    <3> QED
      BY <1>4, <3>1, <3>2
  <2>2. \A c \in Buttons : \A i \in DOMAIN todo' : todo'[i] = Pressed(c) => \E n \in Nodes : Holds(n, c)
    BY <1>3 DEF DeviceInv, HeldForAReason
  <2> QED
    BY <1>5, <2>1, <2>2 DEF HeldForAReason, Kills
<1>8. BeforeRunning'
  <2>1. lifecycle \notin {"absent", "starting", "stopped"}
    BY <1>1 DEF DeviceInv, BeforeRunning
  <2> QED
    BY <1>1, <2>1 DEF DeviceInv, BeforeRunning
<1> QED
  BY <1>5, <1>6, <1>7, <1>8 DEF DeviceInv

\* enumerateDevices
LEMMA DevicesEnumerated == DeviceInv /\ EnumerateDevices => DeviceInv'
<1> SUFFICES ASSUME DeviceInv, EnumerateDevices PROVE DeviceInv'
  OBVIOUS
<1>1. /\ lifecycle = "starting" /\ lifecycle' = "running"
      /\ UNCHANGED <<platform, plugged, down, inputQueue, messages, reported, lostReleases,
                     pressedControls>>
  BY DEF EnumerateDevices, systemVars, inputVars, engineVars
<1>2. PICK usable \in SUBSET plugged : \E order \in AnyOrder(usable \ opened) :
            /\ opened' = opened \cup usable
            /\ todo' = [i \in DOMAIN order |-> DeviceConnected(order[i])]
  BY DEF EnumerateDevices
<1> DEFINE fresh == usable \ opened
<1>3. PICK order \in AnyOrder(fresh) :
            /\ opened' = opened \cup usable
            /\ todo' = [i \in DOMAIN order |-> DeviceConnected(order[i])]
  BY <1>2
<1>4. opened = {} /\ pressedControls = {} /\ plugged \subseteq Nodes
  BY <1>1 DEF DeviceInv, BeforeRunning, DeviceShape, DevicesTypeOK
<1>5. opened' \subseteq plugged /\ fresh \subseteq Nodes /\ IsFiniteSet(fresh)
  <2>1. fresh \subseteq Nodes /\ opened' \subseteq plugged
    BY <1>3, <1>4
  <2> QED
    BY <2>1, FinitelyMany
<1> HIDE DEF fresh
<1>6. \A n \in Nodes : DeviceConnected(n) \in SinkCalls /\ \A c : DeviceConnected(n) # Pressed(c)
  BY DEF DeviceConnected, SinkCalls, Announcements, Pressed
<1>7. order \in Seq(fresh) /\ DOMAIN order = 1..Len(order) /\ \A i \in DOMAIN order : order[i] \in Nodes
  BY <1>5, OrderFacts
<1>8. todo' \in Seq(SinkCalls) /\ \A i \in DOMAIN todo' : \E n \in Nodes : todo'[i] = DeviceConnected(n)
  BY <1>3, <1>6, <1>7
<1>9. \A n \in Nodes, r \in ReportIds : reported[n][r] = {}
  BY <1>4 DEF DeviceInv, DeviceShape
<1>10. DeviceShape'
  BY <1>1, <1>4, <1>5, <1>8, <1>9 DEF DeviceInv, DeviceShape, DevicesTypeOK, SinkCalls
<1>11. MessagesTrue'
  BY <1>1 DEF DeviceInv, MessagesTrue, Says, Ends, DownNow
<1>12. RemovalComes' /\ ReportsTrue' /\ BeforeRunning'
  BY <1>1, <1>5, <1>9 DEF RemovalComes, ReportsTrue, BeforeRunning
<1>13. HeldForAReason'
  BY <1>1, <1>4, <1>6, <1>8 DEF HeldForAReason
<1> QED
  BY <1>10, <1>11, <1>12, <1>13 DEF DeviceInv

\* The loop of the source ends.
LEMMA LoopEnded == DeviceInv /\ EndLoop => DeviceInv'
<1> SUFFICES ASSUME DeviceInv, EndLoop PROVE DeviceInv'
  OBVIOUS
<1>1. /\ lifecycle = "running" /\ todo = <<>> /\ lifecycle' = "stopping" /\ inputQueue' = <<>>
      /\ UNCHANGED <<platform, plugged, down, messages, reported, lostReleases, pressedControls>>
      /\ opened \subseteq Nodes
  BY DEF DeviceInv, DeviceShape, DevicesTypeOK, EndLoop, Between, inputVars, engineVars
<1>2. todo' \in Seq(SinkCalls) /\ opened' \subseteq Nodes /\ (platform = "raw" => opened' = opened)
  <2>1. CASE platform # "evdev"
    BY <1>1, <2>1 DEF EndLoop
  <2>2. CASE platform = "evdev"
    <3>1. PICK order \in AnyOrder(opened) :
                /\ todo' = [i \in DOMAIN order |-> Removed(order[i])]
                /\ opened' = {}
      BY <2>2 DEF EndLoop
    <3>2. \A n \in Nodes : Removed(n) \in SinkCalls
      BY DEF Removed, SinkCalls, Announcements
    <3>3. order \in Seq(opened) /\ DOMAIN order = 1..Len(order) /\ \A i \in DOMAIN order : order[i] \in opened
      BY <1>1, OrderFacts, FinitelyMany
    <3> QED
      BY <1>1, <2>2, <3>1, <3>2, <3>3
  <2> QED
    BY <2>1, <2>2
<1>3. DeviceShape'
  <2>1. inputQueue' \in Seq(HotPlugs \cup Inputs)
    BY <1>1
  <2> QED
    BY <1>1, <1>2, <2>1 DEF DeviceInv, DeviceShape, DevicesTypeOK, SinkCalls
<1>4. MessagesTrue' /\ RemovalComes' /\ ReportsTrue' /\ HeldForAReason' /\ BeforeRunning'
  BY <1>1 DEF MessagesTrue, RemovalComes, ReportsTrue, HeldForAReason, BeforeRunning
<1> QED
  BY <1>3, <1>4 DEF DeviceInv

\* The life cycle of the source, and its owner.
LEMMA LifeCycle ==
    ASSUME DeviceInv, Start \/ StartFails \/ Joined \/ Discard
    PROVE  DeviceInv'
<1>0. /\ UNCHANGED <<platform, plugged, down, messages>> /\ lifecycle' # "running"
      /\ todo' = todo /\ todo = <<>>
      /\ inputQueue' = inputQueue \/ inputQueue' = <<>>
  BY DEF Start, StartFails, Joined, Discard, systemVars, DeviceInv, BeforeRunning
<1>1. \/ UNCHANGED <<opened, reported, lostReleases, pressedControls>>
      \/ /\ opened' = {} /\ reported' = [n \in Nodes |-> NoReports] /\ pressedControls' = {}
         /\ lostReleases' = {}
  BY DEF Start, StartFails, Joined, Discard, ReleaseAll, RecalculateLocked, inputVars, engineVars
<1>2. /\ reported' \in [Nodes -> [ReportIds -> SUBSET Buttons]]
      /\ lostReleases' \subseteq Nodes \X Buttons
  BY <1>1 DEF DeviceInv, DeviceShape, DevicesTypeOK, NoReports
<1>3. \A n \in Nodes, r \in ReportIds : \A b \in reported'[n][r] :
          b \in ButtonsOf[n] /\ ReportOf[b] = r /\ n \in opened' /\ platform' = "raw"
  BY <1>0, <1>1 DEF DeviceInv, DeviceShape, NoReports
<1>4. DeviceShape'
  <2>1. inputQueue' \in Seq(HotPlugs \cup Inputs)
    <3>1. inputQueue \in Seq(HotPlugs \cup Inputs) /\ <<>> \in Seq(HotPlugs \cup Inputs)
      BY DEF DeviceInv, DeviceShape
    <3> QED
      BY <1>0, <3>1
  <2>2. lifecycle' \in {"absent", "starting", "running", "stopping", "stopped"}
    BY DEF Start, StartFails, Joined, Discard
  <2> QED
    BY <1>0, <1>1, <1>2, <1>3, <2>1, <2>2 DEF DeviceInv, DeviceShape, DevicesTypeOK
<1>5. MessagesTrue'
  BY <1>0 DEF DeviceInv, MessagesTrue, Says, Ends, DownNow
<1>6. RemovalComes' /\ ReportsTrue' /\ HeldForAReason'
  BY <1>0 DEF RemovalComes, ReportsTrue, HeldForAReason
<1>7. BeforeRunning'
  BY <1>0 DEF DeviceInv, BeforeRunning, Start, StartFails, Joined, Discard, ReleaseAll,
              RecalculateLocked, systemVars, inputVars, engineVars
<1> QED
  BY <1>4, <1>5, <1>6, <1>7 DEF DeviceInv

\* A step that leaves the source alone holds no further control.
LEMMA SourceAlone ==
    ASSUME DeviceInv, UNCHANGED deviceVars, pressedControls' \subseteq pressedControls
    PROVE  DeviceInv'
<1> USE DEF deviceVars, sourceVars, systemVars
<1>1. DeviceShape'
  BY DEF DeviceInv, DeviceShape, DevicesTypeOK
<1>2. MessagesTrue' /\ RemovalComes' /\ ReportsTrue'
  BY DEF DeviceInv, MessagesTrue, RemovalComes, ReportsTrue, Holds, Says, Ends, DownNow
<1>3. \A n, c : Holds(n, c)' <=> Holds(n, c)
  BY DEF Holds, Ends, DownNow
<1>4. HeldForAReason'
  BY <1>3 DEF DeviceInv, HeldForAReason, Kills
<1>5. BeforeRunning'
  BY DEF DeviceInv, BeforeRunning
<1> QED
  BY <1>1, <1>2, <1>4, <1>5 DEF DeviceInv

\* Every step of the source, the system and the application.
LEMMA StepDevices == DeviceInv /\ [DevicesNext]_<<inputVars, deviceVars>> => DeviceInv'
<1> SUFFICES ASSUME DeviceInv, [DevicesNext]_<<inputVars, deviceVars>> PROVE DeviceInv'
  OBVIOUS
<1>1. CASE SourceStep
  BY <1>1, SinkCalled, DevicesEnumerated, LifeCycle, DeviceAdded, DeviceRemoved, EventRead, RawInput
     DEF SourceStep
<1>2. CASE Start \/ StartFails \/ Stop \/ DevicePollFails \/ Discard
  BY <1>2, LifeCycle, LoopEnded DEF Stop, DevicePollFails
<1>3. CASE \E n \in Nodes : Plug(n) \/ Unplug(n) \/ \E c \in ButtonsOf[n] : Toggle(n, c)
  BY <1>3, SystemSteps
<1>4. CASE CallerStep /\ UNCHANGED deviceVars
  <2>1. pressedControls' \subseteq pressedControls
    BY <1>4 DEF CallerStep, SetBindings, SetObserver
  <2> QED
    BY <1>4, <2>1, SourceAlone
<1>5. ASSUME NEW t \in InputThreads, DeliveryStep(t), UNCHANGED deviceVars PROVE DeviceInv'
  <2>1. pressedControls' \subseteq pressedControls
    BY <1>5 DEF DeliveryStep, SkipTarget, EnterTarget, TargetReturns, engineVars
  <2> QED
    BY <1>5, <2>1, SourceAlone
<1>6. CASE UNCHANGED <<inputVars, deviceVars>>
  BY <1>6, SourceAlone DEF inputVars, engineVars
<1> QED
  BY <1>1, <1>2, <1>3, <1>4, <1>5, <1>6 DEF DevicesNext

\* The source's state stays well formed: reports list buttons of open nodes only.
THEOREM DevicesTypeCorrect == DevicesSpec => []DevicesTypeOK
<1>1. DeviceInv => DevicesTypeOK
  BY DEF DeviceInv, DeviceShape
<1> QED
  BY <1>1, InitDevices, StepDevices, PTL DEF DevicesSpec

\* Once the source has worked off what the system sent, a control the engine holds is down
\* on an open device that is there, or its release was lost on the way to the source, for
\* any number of nodes, reports and messages (linux_evdev_input.cpp, win_raw_input.cpp).
THEOREM NoGhostIsHeld == DevicesSpec => []NoGhostInput
<1>1. DeviceInv => NoGhostInput
  <2> SUFFICES ASSUME DeviceInv, Drained, NEW c \in pressedControls
               PROVE  \E n \in opened \cap plugged : c \in down[n] \/ <<n, c>> \in lostReleases
    BY DEF NoGhostInput
  <2>1. lifecycle = "running" /\ inputQueue = <<>> /\ todo = <<>>
    BY DEF Drained
  <2>2. PICK n \in Nodes : Holds(n, c)
    BY <2>1 DEF DeviceInv, HeldForAReason
  <2>3. n \in opened /\ (c \in down[n] \/ <<n, c>> \in lostReleases)
    BY <2>1, <2>2 DEF Holds, DownNow
  <2>4. n \in plugged
    BY <2>1, <2>3 DEF DeviceInv, RemovalComes
  <2> QED
    BY <2>3, <2>4
<1> QED
  BY <1>1, InitDevices, StepDevices, PTL DEF DevicesSpec

-----------------------------------------------------------------------------
(* The bindings.  A chord that names no button twice has one order, by the buttons
   alone, so two chords that the same controls satisfy agree place by place. *)

Prefix(c) == IF c.extended THEN 1 ELSE 0

(* The order of the sort keys, but for the device. *)
ButtonLess(c, d) ==
    \/ KindRank(c.kind) < KindRank(d.kind)
    \/ KindRank(c.kind) = KindRank(d.kind) /\ c.page < d.page
    \/ KindRank(c.kind) = KindRank(d.kind) /\ c.page = d.page /\ c.code < d.code
    \/ /\ KindRank(c.kind) = KindRank(d.kind) /\ c.page = d.page /\ c.code = d.code
       /\ Prefix(c) < Prefix(d)

LEMMA KeyType ==
    ASSUME NEW c \in InputControl, NEW d \in InputControl
    PROVE  /\ KindRank(c.kind) \in Nat /\ Prefix(c) \in Nat /\ c.page \in Nat
           /\ c.code \in Nat /\ c.device \in Nat
           /\ KindRank(c.kind) = KindRank(d.kind) => c.kind = d.kind
           /\ Prefix(c) = Prefix(d) => c.extended = d.extended
<1>1. c.kind \in {"keyboard", "mouse", "game_controller"}
      /\ d.kind \in {"keyboard", "mouse", "game_controller"}
  BY DEF InputControl
<1>2. KindRank(c.kind) \in Nat /\ (KindRank(c.kind) = KindRank(d.kind) => c.kind = d.kind)
  BY <1>1 DEF KindRank
<1>3. c.extended \in BOOLEAN /\ d.extended \in BOOLEAN
  BY DEF InputControl
<1>4. Prefix(c) \in Nat /\ (Prefix(c) = Prefix(d) => c.extended = d.extended)
  BY <1>3 DEF Prefix
<1>5. c.page \in Nat /\ c.code \in Nat /\ c.device \in Nat
  BY DEF InputControl
<1> QED
  BY <1>2, <1>4, <1>5

\* Controls of different buttons are ordered by their buttons.
LEMMA ControlOrder ==
    ASSUME NEW c \in InputControl, NEW d \in InputControl, ~SameButton(c, d)
    PROVE  ControlLess(c, d) <=> ButtonLess(c, d)
<1> DEFINE u == SortKey(c)
           v == SortKey(d)
<1>1. /\ u[1] = KindRank(c.kind) /\ u[2] = c.page /\ u[3] = c.code /\ u[4] = Prefix(c)
      /\ v[1] = KindRank(d.kind) /\ v[2] = d.page /\ v[3] = d.code /\ v[4] = Prefix(d)
  BY DEF SortKey, Prefix
<1> HIDE DEF u, v
<1>2. ControlLess(c, d) <=> \E i \in 1..5 : u[i] < v[i] /\ \A j \in 1..(i - 1) : u[j] = v[j]
  BY DEF ControlLess, u, v
<1>3. ~(u[1] = v[1] /\ u[2] = v[2] /\ u[3] = v[3] /\ u[4] = v[4])
  BY <1>1, KeyType DEF SameButton
<1>4. ButtonLess(c, d) <=>
        \/ u[1] < v[1]
        \/ u[1] = v[1] /\ u[2] < v[2]
        \/ u[1] = v[1] /\ u[2] = v[2] /\ u[3] < v[3]
        \/ u[1] = v[1] /\ u[2] = v[2] /\ u[3] = v[3] /\ u[4] < v[4]
  BY <1>1 DEF ButtonLess
<1>5. ASSUME NEW i \in 1..5, u[i] < v[i], \A j \in 1..(i - 1) : u[j] = v[j]
      PROVE  \/ u[1] < v[1]
             \/ u[1] = v[1] /\ u[2] < v[2]
             \/ u[1] = v[1] /\ u[2] = v[2] /\ u[3] < v[3]
             \/ u[1] = v[1] /\ u[2] = v[2] /\ u[3] = v[3] /\ u[4] < v[4]
  <2>1. i \in {1, 2, 3, 4, 5}
    OBVIOUS
  <2>2. i > 1 => u[1] = v[1]
    BY <1>5
  <2>3. i > 2 => u[2] = v[2]
    BY <1>5
  <2>4. i > 3 => u[3] = v[3]
    BY <1>5
  <2>5. i > 4 => u[4] = v[4]
    BY <1>5
  <2> QED
    BY <1>3, <1>5, <2>1, <2>2, <2>3, <2>4, <2>5
<1>6. ASSUME \/ u[1] < v[1]
             \/ u[1] = v[1] /\ u[2] < v[2]
             \/ u[1] = v[1] /\ u[2] = v[2] /\ u[3] < v[3]
             \/ u[1] = v[1] /\ u[2] = v[2] /\ u[3] = v[3] /\ u[4] < v[4]
      PROVE  \E i \in 1..5 : u[i] < v[i] /\ \A j \in 1..(i - 1) : u[j] = v[j]
  <2>1. CASE u[1] < v[1]
    BY <2>1
  <2>2. CASE u[1] = v[1] /\ u[2] < v[2]
    <3>1. \A j \in 1..(2 - 1) : u[j] = v[j]
      BY <2>2
    <3> QED
      BY <2>2, <3>1
  <2>3. CASE u[1] = v[1] /\ u[2] = v[2] /\ u[3] < v[3]
    <3>1. \A j \in 1..(3 - 1) : u[j] = v[j]
      BY <2>3
    <3> QED
      BY <2>3, <3>1
  <2>4. CASE u[1] = v[1] /\ u[2] = v[2] /\ u[3] = v[3] /\ u[4] < v[4]
    <3>1. \A j \in 1..(4 - 1) : u[j] = v[j]
      BY <2>4
    <3> QED
      BY <2>4, <3>1
  <2> QED
    BY <1>6, <2>1, <2>2, <2>3, <2>4
<1> QED
  BY <1>2, <1>4, <1>5, <1>6

\* The order of the buttons is strict and total, and it sees the button only.
LEMMA ButtonOrder ==
    /\ \A c \in InputControl : ~ButtonLess(c, c)
    /\ \A c, d, e \in InputControl : ButtonLess(c, d) /\ ButtonLess(d, e) => ButtonLess(c, e)
    /\ \A c, d \in InputControl :
          SameButton(c, d) \/ ButtonLess(c, d) \/ ButtonLess(d, c)
<1>1. ASSUME NEW c \in InputControl PROVE ~ButtonLess(c, c)
  BY KeyType DEF ButtonLess
<1>2. ASSUME NEW c \in InputControl, NEW d \in InputControl, NEW e \in InputControl,
             ButtonLess(c, d), ButtonLess(d, e)
      PROVE  ButtonLess(c, e)
  <2>1. \A x \in {c, d, e} : KindRank(x.kind) \in Nat /\ Prefix(x) \in Nat
                             /\ x.page \in Nat /\ x.code \in Nat
    BY KeyType
  <2> QED
    BY <1>2, <2>1 DEF ButtonLess
<1>3. ASSUME NEW c \in InputControl, NEW d \in InputControl,
             ~ButtonLess(c, d), ~ButtonLess(d, c)
      PROVE  SameButton(c, d)
  <2>1. /\ KindRank(c.kind) = KindRank(d.kind) /\ c.page = d.page /\ c.code = d.code
        /\ Prefix(c) = Prefix(d)
    BY <1>3, KeyType DEF ButtonLess
  <2> QED
    BY <2>1, KeyType DEF SameButton
<1> QED
  BY <1>1, <1>2, <1>3

LEMMA ButtonSame ==
    ASSUME NEW c, NEW d, NEW e, NEW f, SameButton(c, e), SameButton(d, f)
    PROVE  ButtonLess(c, d) <=> ButtonLess(e, f)
BY DEF SameButton, ButtonLess, Prefix


\* A chord that names no button twice.
Distinct(s) ==
    /\ s \in Seq(InputControl)
    /\ \A i, j \in DOMAIN s : SameButton(s[i], s[j]) => i = j

Sorted(s) == \A i, j \in DOMAIN s : i < j => ButtonLess(s[i], s[j])

LEMMA Places ==
    ASSUME NEW s, Distinct(s)
    PROVE  /\ Len(s) \in Nat /\ DOMAIN s = 1..Len(s)
           /\ IsFiniteSet(DOMAIN s) /\ Cardinality(DOMAIN s) = Len(s)
           /\ \A i \in DOMAIN s : s[i] \in InputControl
           /\ \A i, j \in DOMAIN s : i # j => ButtonLess(s[i], s[j]) \/ ButtonLess(s[j], s[i])
<1>1. Len(s) \in Nat /\ DOMAIN s = 1..Len(s) /\ \A i \in DOMAIN s : s[i] \in InputControl
  BY DEF Distinct
<1>2. IsFiniteSet(1..Len(s)) /\ Cardinality(1..Len(s)) = Len(s)
  <2>1. PICK n : n = Len(s)
    OBVIOUS
  <2>2. 1 \in Int /\ n \in Int
    BY <1>1, <2>1
  <2>3. IsFiniteSet(1..n) /\ Cardinality(1..n) = IF 1 > n THEN 0 ELSE n - 1 + 1
    BY <2>2, FS_Interval
  <2> QED
    BY <1>1, <2>1, <2>3
<1>3. \A i, j \in DOMAIN s : i # j => ButtonLess(s[i], s[j]) \/ ButtonLess(s[j], s[i])
  BY <1>1, ButtonOrder DEF Distinct
<1> QED
  BY <1>1, <1>2, <1>3

Lower(s, i) == {j \in DOMAIN s : ButtonLess(s[j], s[i])}
Place(s, i) == Cardinality(Lower(s, i)) + 1

LEMMA PlaceType ==
    ASSUME NEW s, Distinct(s), NEW i \in DOMAIN s
    PROVE  Place(s, i) \in DOMAIN s
<1>1. IsFiniteSet(DOMAIN s) /\ Cardinality(DOMAIN s) = Len(s) /\ Len(s) \in Nat
      /\ DOMAIN s = 1..Len(s) /\ s[i] \in InputControl
  BY Places
<1>2. Lower(s, i) \in SUBSET (DOMAIN s) /\ i \notin Lower(s, i)
  BY <1>1, ButtonOrder DEF Lower
<1>3. /\ IsFiniteSet(Lower(s, i))
      /\ Cardinality(Lower(s, i)) <= Cardinality(DOMAIN s)
      /\ Cardinality(DOMAIN s) # Cardinality(Lower(s, i))
  BY <1>1, <1>2, FS_Subset
<1>4. Cardinality(Lower(s, i)) \in Nat
  BY <1>3, FS_CardinalityType
<1> QED
  BY <1>1, <1>3, <1>4 DEF Place

LEMMA PlaceGrows ==
    ASSUME NEW s, Distinct(s), NEW i \in DOMAIN s, NEW j \in DOMAIN s, ButtonLess(s[i], s[j])
    PROVE  Place(s, i) < Place(s, j)
<1>1. IsFiniteSet(DOMAIN s) /\ \A k \in DOMAIN s : s[k] \in InputControl
  BY Places
<1>2. Lower(s, i) \in SUBSET Lower(s, j)
  BY <1>1, ButtonOrder DEF Lower
<1>3. i \in Lower(s, j) /\ i \notin Lower(s, i)
  BY <1>1, ButtonOrder DEF Lower
<1>4. Lower(s, j) \in SUBSET (DOMAIN s)
  BY DEF Lower
<1>5. IsFiniteSet(Lower(s, j))
  BY <1>1, <1>4, FS_Subset
<1>6. /\ IsFiniteSet(Lower(s, i))
      /\ Cardinality(Lower(s, i)) <= Cardinality(Lower(s, j))
      /\ Cardinality(Lower(s, j)) # Cardinality(Lower(s, i))
  BY <1>2, <1>3, <1>5, FS_Subset
<1>7. Cardinality(Lower(s, i)) \in Nat /\ Cardinality(Lower(s, j)) \in Nat
  BY <1>5, <1>6, FS_CardinalityType
<1> QED
  BY <1>6, <1>7 DEF Place

\* The order in which NormalizedChord may put a chord.
Orders(s) ==
    {p \in [DOMAIN s -> DOMAIN s] : \A i, j \in DOMAIN s : i < j =>
        p[i] # p[j] /\ ~ControlLess(s[p[j]], s[p[i]])}

LEMMA OrderExists ==
    ASSUME NEW s, Distinct(s)
    PROVE  Orders(s) # {}
<1> DEFINE at == DOMAIN s
           r == [i \in at |-> Place(s, i)]
           p == [k \in at |-> CHOOSE i \in at : r[i] = k]
<1>1. IsFiniteSet(at) /\ at \subseteq Nat /\ \A i \in at : s[i] \in InputControl
  BY Places
<1>2. r \in [at -> at]
  BY PlaceType
<1>3. \A i, j \in at : r[i] = r[j] => i = j
  <2>1. SUFFICES ASSUME NEW i \in at, NEW j \in at, r[i] = r[j], i # j PROVE FALSE
    OBVIOUS
  <2>2. Place(s, i) = Place(s, j) /\ Place(s, i) \in Nat
    BY <2>1, <1>1, <1>2
  <2>3. ButtonLess(s[i], s[j]) \/ ButtonLess(s[j], s[i])
    BY <2>1, Places
  <2> QED
    BY <2>2, <2>3, PlaceGrows
<1>4. r \in Injection(at, at)
  BY <1>2, <1>3 DEF Injection, IsInjective
<1>5. r \in Surjection(at, at)
  BY <1>1, <1>4, FS_Injection
<1>6. \A k \in at : \E i \in at : r[i] = k
  BY <1>5 DEF Surjection
<1>7. p \in [at -> at] /\ \A k \in at : r[p[k]] = k
  BY <1>6
<1> HIDE DEF p
<1>8. ASSUME NEW i \in at, NEW j \in at, i < j
      PROVE  p[i] # p[j] /\ ~ControlLess(s[p[j]], s[p[i]])
  <2>1. p[i] \in at /\ p[j] \in at /\ Place(s, p[i]) = i /\ Place(s, p[j]) = j
    BY <1>7
  <2>2. p[i] # p[j] /\ i \in Nat /\ j \in Nat
    BY <2>1, <1>8, <1>1
  <2>3. ~ButtonLess(s[p[j]], s[p[i]])
    <3>1. SUFFICES ASSUME ButtonLess(s[p[j]], s[p[i]]) PROVE FALSE
      OBVIOUS
    <3>2. j < i
      BY <2>1, <3>1, PlaceGrows
    <3> QED
      BY <3>2, <1>8, <2>2
  <2>4. ~SameButton(s[p[j]], s[p[i]])
    BY <2>1, <2>2 DEF Distinct
  <2> QED
    BY <1>1, <2>1, <2>2, <2>3, <2>4, ControlOrder
<1>9. p \in Orders(s)
  BY <1>7, <1>8 DEF Orders
<1> QED
  BY <1>9

\* A chord of different buttons, normalized: the same controls, in the order of their buttons.
LEMMA Normalized ==
    ASSUME NEW b, Distinct(b.chord)
    PROVE  /\ DOMAIN NormalizedChord(b) = DOMAIN b.chord
           /\ NormalizedChord(b) \in Seq(InputControl)
           /\ Len(NormalizedChord(b)) = Len(b.chord)
           /\ Sorted(NormalizedChord(b))
           /\ \A i \in DOMAIN b.chord : \E k \in DOMAIN b.chord :
                 NormalizedChord(b)[k] = b.chord[i]
           /\ \A k \in DOMAIN b.chord : \E i \in DOMAIN b.chord :
                 NormalizedChord(b)[k] = b.chord[i]
<1>1. PICK s : s = b.chord
  OBVIOUS
<1> DEFINE at == DOMAIN s
           o == CHOOSE q \in [at -> at] : \A i, j \in at : i < j =>
                    q[i] # q[j] /\ ~ControlLess(s[q[j]], s[q[i]])
           t == [i \in at |-> s[o[i]]]
<1>2. Distinct(s)
  BY <1>1
<1>3. IsFiniteSet(at) /\ at = 1..Len(s) /\ Len(s) \in Nat /\ \A i \in at : s[i] \in InputControl
  BY <1>2, Places
<1>4. \E q \in [at -> at] : \A i, j \in at : i < j =>
          q[i] # q[j] /\ ~ControlLess(s[q[j]], s[q[i]])
  BY <1>2, OrderExists DEF Orders
<1>5. o \in [at -> at] /\ \A i, j \in at : i < j =>
          o[i] # o[j] /\ ~ControlLess(s[o[j]], s[o[i]])
  BY <1>4
<1>6. NormalizedChord(b) = t
  BY <1>1 DEF NormalizedChord
<1> HIDE DEF o
<1>7. \A i, j \in at : o[i] = o[j] => i = j
  <2>1. SUFFICES ASSUME NEW i \in at, NEW j \in at, o[i] = o[j], i # j PROVE FALSE
    OBVIOUS
  <2>2. i < j \/ j < i
    BY <2>1, <1>3
  <2> QED
    BY <1>5, <2>1, <2>2
<1>8. o \in Injection(at, at)
  BY <1>5, <1>7 DEF Injection, IsInjective
<1>9. o \in Surjection(at, at)
  BY <1>3, <1>8, FS_Injection
<1>10. \A i \in at : \E k \in at : o[k] = i
  BY <1>9 DEF Surjection
<1>11. DOMAIN t = at /\ t \in [1..Len(s) -> InputControl]
  BY <1>3, <1>5
<1>12. t \in Seq(InputControl) /\ Len(t) = Len(s)
  <2>1. t \in Seq(InputControl)
    BY <1>3, <1>11
  <2>2. DOMAIN t = 1..Len(t) /\ Len(t) \in Nat
    BY <2>1
  <2> QED
    BY <1>3, <1>11, <2>1, <2>2
<1>13. Sorted(t)
  <2>1. SUFFICES ASSUME NEW i \in at, NEW j \in at, i < j PROVE ButtonLess(t[i], t[j])
    BY <1>11 DEF Sorted
  <2>2. o[i] \in at /\ o[j] \in at /\ o[i] # o[j] /\ ~ControlLess(s[o[j]], s[o[i]])
    BY <1>5, <2>1
  <2>3. ~SameButton(s[o[i]], s[o[j]]) /\ ~SameButton(s[o[j]], s[o[i]])
    BY <1>2, <2>2 DEF Distinct
  <2>4. ~ButtonLess(s[o[j]], s[o[i]])
    BY <1>3, <2>2, <2>3, ControlOrder
  <2>5. ButtonLess(s[o[i]], s[o[j]])
    BY <1>3, <2>2, <2>3, <2>4, ButtonOrder
  <2> QED
    BY <2>5
<1>14. \A i \in at : \E k \in at : t[k] = s[i]
  BY <1>10
<1>15. \A k \in at : \E i \in at : t[k] = s[i]
  BY <1>5
<1> QED
  BY <1>1, <1>6, <1>11, <1>12, <1>13, <1>14, <1>15

\* As many controls as a chord of different buttons has, and it is pressed: each of the
\* controls is one that it asks for.
LEMMA AllHeldAreAsked ==
    ASSUME NEW b, Distinct(b.chord), NEW held, IsFiniteSet(held),
           Cardinality(held) = Len(b.chord), BindingPressed(b, held)
    PROVE  \A h \in held : \E i \in DOMAIN b.chord : HeldControlMatches(b.chord[i], h)
<1>1. PICK s : s = b.chord
  OBVIOUS
<1> DEFINE at == DOMAIN s
           f == [i \in at |-> CHOOSE h \in held : HeldControlMatches(s[i], h)]
<1>2. Distinct(s) /\ Cardinality(held) = Len(s)
  BY <1>1
<1>3. \A i \in at : \E h \in held : HeldControlMatches(s[i], h)
  BY <1>1 DEF BindingPressed
<1>4. f \in [at -> held] /\ \A i \in at : HeldControlMatches(s[i], f[i])
  BY <1>3
<1> HIDE DEF f
<1>5. \A i, j \in at : f[i] = f[j] => i = j
  <2>1. SUFFICES ASSUME NEW i \in at, NEW j \in at, f[i] = f[j] PROVE i = j
    OBVIOUS
  <2>2. HeldControlMatches(s[i], f[i]) /\ HeldControlMatches(s[j], f[i])
    BY <1>4, <2>1
  <2>3. SameButton(s[i], s[j])
    BY <2>2 DEF HeldControlMatches, SameButton
  <2> QED
    BY <1>2, <2>3 DEF Distinct
<1>6. f \in Injection(at, held)
  BY <1>4, <1>5 DEF Injection, IsInjective
<1>7. Cardinality(at) = Cardinality(held)
  BY <1>2, Places
<1>8. f \in Surjection(at, held)
  BY <1>6, <1>7, FS_Injection
<1>9. \A h \in held : \E i \in at : f[i] = h
  BY <1>8 DEF Surjection
<1> QED
  BY <1>1, <1>4, <1>9

\* A control asked for by the one is asked for by the other.
LEMMA AskedByBoth ==
    ASSUME NEW b, NEW c, Distinct(b.chord), Distinct(c.chord), Len(b.chord) = Len(c.chord),
           NEW held, IsFiniteSet(held), Cardinality(held) = Len(b.chord),
           BindingPressed(b, held), BindingPressed(c, held), NEW j \in DOMAIN c.chord
    PROVE  \E i \in DOMAIN b.chord : ControlsOverlap(b.chord[i], c.chord[j])
<1>1. PICK h \in held : HeldControlMatches(c.chord[j], h)
  BY DEF BindingPressed
<1>2. PICK i \in DOMAIN b.chord : HeldControlMatches(b.chord[i], h)
  BY AllHeldAreAsked
<1>3. ControlsOverlap(b.chord[i], c.chord[j])
  BY <1>1, <1>2 DEF HeldControlMatches, ControlsOverlap, SameButton
<1> QED
  BY <1>3

LEMMA OverlapSame ==
    ASSUME NEW c, NEW d
    PROVE  (ControlsOverlap(c, d) => ControlsOverlap(d, c) /\ SameButton(c, d) /\ SameButton(d, c))
BY DEF ControlsOverlap, SameButton

LEMMA LeastPlace ==
    ASSUME NEW T \in SUBSET Nat, T # {}
    PROVE  \E x \in T : \A y \in T : x <= y
<1>1. PICK x \in T : \A y \in T : ~(<<y, x>> \in OpToRel(<, Nat))
  BY NatLessThanWellFounded, WFMin
<1>2. ASSUME NEW y \in T PROVE x <= y
  <2>1. x \in Nat /\ y \in Nat
    OBVIOUS
  <2>2. ~(y < x)
    BY <1>1, <2>1 DEF OpToRel
  <2>3. QED
    BY <2>1, <2>2
<1> QED
  BY <1>2

\* Two sorted lists whose controls overlap each other overlap place by place.
LEMMA SortedOverlap ==
    ASSUME NEW s \in Seq(InputControl), NEW t \in Seq(InputControl), Sorted(s), Sorted(t),
           Len(s) = Len(t),
           \A j \in DOMAIN t : \E i \in DOMAIN s : ControlsOverlap(s[i], t[j]),
           \A i \in DOMAIN s : \E j \in DOMAIN t : ControlsOverlap(t[j], s[i])
    PROVE  ChordsOverlap(s, t)
<1> DEFINE at == DOMAIN s
           T == {k \in at : ~ControlsOverlap(s[k], t[k])}
<1>1. DOMAIN t = at /\ at \subseteq Nat /\ \A k \in at : s[k] \in InputControl /\ t[k] \in InputControl
  OBVIOUS
<1>2. SUFFICES ASSUME T # {} PROVE FALSE
  BY DEF ChordsOverlap
<1>3. T \in SUBSET Nat
  BY <1>1
<1> HIDE DEF T
<1>4. PICK k \in T : \A m \in T : k <= m
  BY <1>2, <1>3, LeastPlace
<1>5. k \in at /\ k \in Nat /\ ~ControlsOverlap(s[k], t[k])
  BY <1>1 DEF T
<1>6. \A m \in at : m < k => ControlsOverlap(s[m], t[m])
  <2>1. \A m \in at : m < k => m \notin T
    BY <1>1, <1>4, <1>5
  <2> QED
    BY <2>1 DEF T
<1>7. PICK l \in at : ControlsOverlap(s[l], t[k])
  BY <1>1, <1>5
<1>8. PICK m \in at : ControlsOverlap(t[m], s[k])
  BY <1>1, <1>5
<1>9. k < l
  <2>1. SUFFICES ASSUME ~(k < l) PROVE FALSE
    OBVIOUS
  <2>2. l # k
    BY <1>5, <1>7
  <2>3. l < k
    BY <1>1, <1>5, <2>1, <2>2
  <2>4. SameButton(s[l], t[l]) /\ SameButton(s[l], t[k])
    BY <1>6, <1>7, <2>3, OverlapSame
  <2>5. SameButton(t[l], t[k]) /\ SameButton(t[k], t[k])
    BY <2>4 DEF SameButton
  <2>6. ButtonLess(t[l], t[k])
    BY <1>1, <1>5, <2>3 DEF Sorted
  <2> QED
    BY <1>1, <1>5, <2>5, <2>6, ButtonSame, ButtonOrder
<1>10. k < m
  <2>1. SUFFICES ASSUME ~(k < m) PROVE FALSE
    OBVIOUS
  <2>2. m # k
    BY <1>5, <1>8, OverlapSame
  <2>3. m < k
    BY <1>1, <1>5, <2>1, <2>2
  <2>4. SameButton(s[m], t[m]) /\ SameButton(t[m], s[k])
    BY <1>6, <1>8, <2>3, OverlapSame
  <2>5. SameButton(s[m], s[k]) /\ SameButton(s[k], s[k])
    BY <2>4 DEF SameButton
  <2>6. ButtonLess(s[m], s[k])
    BY <1>1, <1>5, <2>3 DEF Sorted
  <2> QED
    BY <1>1, <1>5, <2>5, <2>6, ButtonSame, ButtonOrder
<1>11. ButtonLess(s[k], s[l]) /\ ButtonLess(t[k], t[m])
  BY <1>1, <1>5, <1>9, <1>10 DEF Sorted
<1>12. SameButton(s[l], t[k]) /\ SameButton(t[m], s[k])
  BY <1>7, <1>8, OverlapSame
<1>13. SameButton(s[k], s[k]) /\ SameButton(t[k], t[k])
  BY DEF SameButton
<1>14. ButtonLess(s[k], t[k]) /\ ButtonLess(t[k], s[k])
  BY <1>11, <1>12, <1>13, ButtonSame
<1> QED
  BY <1>1, <1>5, <1>14, ButtonOrder

\* Two chords of different buttons that the same controls satisfy: validateBindings would
\* have found that they overlap.
LEMMA NormalizedOverlap ==
    ASSUME NEW b, NEW c, Distinct(b.chord), Distinct(c.chord), Len(b.chord) = Len(c.chord),
           NEW held, IsFiniteSet(held), Cardinality(held) = Len(b.chord),
           BindingPressed(b, held), BindingPressed(c, held)
    PROVE  ChordsOverlap(NormalizedChord(b), NormalizedChord(c))
<1>1. PICK s : s = NormalizedChord(b)
  OBVIOUS
<1>2. PICK t : t = NormalizedChord(c)
  OBVIOUS
<1>3. /\ s \in Seq(InputControl) /\ Sorted(s) /\ DOMAIN s = DOMAIN b.chord
      /\ Len(s) = Len(b.chord)
      /\ \A i \in DOMAIN b.chord : \E k \in DOMAIN s : s[k] = b.chord[i]
      /\ \A k \in DOMAIN s : \E i \in DOMAIN b.chord : s[k] = b.chord[i]
  BY <1>1, Normalized
<1>4. /\ t \in Seq(InputControl) /\ Sorted(t) /\ DOMAIN t = DOMAIN c.chord
      /\ Len(t) = Len(c.chord)
      /\ \A i \in DOMAIN c.chord : \E k \in DOMAIN t : t[k] = c.chord[i]
      /\ \A k \in DOMAIN t : \E i \in DOMAIN c.chord : t[k] = c.chord[i]
  BY <1>2, Normalized
<1>5. ASSUME NEW j \in DOMAIN t PROVE \E i \in DOMAIN s : ControlsOverlap(s[i], t[j])
  <2>1. PICK y \in DOMAIN c.chord : t[j] = c.chord[y]
    BY <1>4
  <2>2. PICK x \in DOMAIN b.chord : ControlsOverlap(b.chord[x], c.chord[y])
    BY AskedByBoth
  <2>3. PICK k \in DOMAIN s : s[k] = b.chord[x]
    BY <1>3
  <2> QED
    BY <2>1, <2>2, <2>3
<1>6. ASSUME NEW i \in DOMAIN s PROVE \E j \in DOMAIN t : ControlsOverlap(t[j], s[i])
  <2>1. PICK x \in DOMAIN b.chord : s[i] = b.chord[x]
    BY <1>3
  <2>2. PICK y \in DOMAIN c.chord : ControlsOverlap(c.chord[y], b.chord[x])
    BY AskedByBoth
  <2>3. PICK k \in DOMAIN t : t[k] = c.chord[y]
    BY <1>4
  <2> QED
    BY <2>1, <2>2, <2>3
<1>7. ChordsOverlap(s, t)
  BY <1>3, <1>4, <1>5, <1>6, SortedOverlap
<1> QED
  BY <1>1, <1>2, <1>7

(* What SetBindings keeps: a list that was accepted. *)
Accepted == bindings = <<>> \/ (bindings \in Candidates /\ ValidBindings(bindings))

LEMMA AcceptedStep == Accepted /\ [DevicesNext]_<<inputVars, deviceVars>> => Accepted'
<1> SUFFICES ASSUME Accepted, [DevicesNext]_<<inputVars, deviceVars>> PROVE Accepted'
  OBVIOUS
<1>1. CASE UNCHANGED bindings
  BY <1>1 DEF Accepted
<1>2. UNCHANGED inputVars => UNCHANGED bindings
  BY DEF inputVars, engineVars
<1>3. MakeSinkCall => UNCHANGED bindings
  BY <1>2 DEF MakeSinkCall, SinkCall, OnInputDeviceConnected, OnInputDeviceRemoved, OnInputEvent
<1>4. CASE SourceStep
  BY <1>1, <1>2, <1>3, <1>4 DEF SourceStep, EnumerateDevices, Joined, AddDevice, RemoveDevice,
     ReadEvents, ProcessRawInput
<1>5. CASE Start \/ StartFails \/ Stop \/ DevicePollFails \/ Discard
  BY <1>1, <1>2, <1>5 DEF Start, StartFails, Stop, DevicePollFails, EndLoop, Discard, ReleaseAll
<1>6. CASE \E n \in Nodes : Plug(n) \/ Unplug(n) \/ \E c \in ButtonsOf[n] : Toggle(n, c)
  BY <1>1, <1>2, <1>6 DEF Plug, Unplug, Toggle
<1>7. CASE CallerStep
  <2>1. CASE \E list \in Candidates : SetBindings(list)
    BY <2>1 DEF SetBindings, Accepted
  <2> QED
    BY <1>1, <1>7, <2>1 DEF CallerStep, SetObserver
<1>8. CASE \E t \in InputThreads : DeliveryStep(t)
  BY <1>1, <1>8 DEF DeliveryStep, SkipTarget, EnterTarget, TargetReturns, engineVars
<1>9. CASE UNCHANGED <<inputVars, deviceVars>>
  BY <1>1, <1>2, <1>9
<1> QED
  BY <1>4, <1>5, <1>6, <1>7, <1>8, <1>9 DEF DevicesNext

LEMMA EntryType ==
    ASSUME NEW S, NEW s \in Seq(S), NEW k \in DOMAIN s
    PROVE  s[k] \in S
OBVIOUS

\* Accepted bindings of different actions that name no button twice are never both
\* pressed by as many controls as each of them has, whatever lists the application tries
\* and however long their chords are.
THEOREM AcceptedAlwaysDistinguishable == DevicesSpec => []AcceptedAreDistinguishable
<1>1. Accepted => AcceptedAreDistinguishable
  <2> SUFFICES ASSUME Accepted,
                      NEW i \in DOMAIN bindings, NEW j \in DOMAIN bindings,
                      bindings[i].action # bindings[j].action,
                      Len(bindings[i].chord) = Len(bindings[j].chord),
                      OneButtonOnce(bindings[i]), OneButtonOnce(bindings[j]),
                      NEW held \in SUBSET Controls,
                      Cardinality(held) = Len(bindings[i].chord),
                      BindingPressed(bindings[i], held), BindingPressed(bindings[j], held)
               PROVE  FALSE
    BY DEF AcceptedAreDistinguishable, ToldApart
  <2>1. bindings \in Candidates /\ ValidBindings(bindings)
    BY DEF Accepted
  <2>2. bindings \in Seq([action : PttActions, chord : Seq(InputControl)])
    BY <2>1, InputAssumption
  <2>3. i \in Nat /\ j \in Nat /\ i >= 1 /\ j >= 1
    BY <2>2
  <2>4. Distinct(bindings[i].chord) /\ Distinct(bindings[j].chord)
    <3>1. \A k \in DOMAIN bindings :
              bindings[k] \in [action : PttActions, chord : Seq(InputControl)]
      BY <2>2, EntryType
    <3>2. \A r \in [action : PttActions, chord : Seq(InputControl)] :
              r.chord \in Seq(InputControl)
      OBVIOUS
    <3> QED
      BY <3>1, <3>2 DEF Distinct, OneButtonOnce
  <2>5. IsFiniteSet(held)
    BY DeviceAssumption, FS_Subset
  <2>6. /\ ChordsOverlap(NormalizedChord(bindings[i]), NormalizedChord(bindings[j]))
        /\ ChordsOverlap(NormalizedChord(bindings[j]), NormalizedChord(bindings[i]))
    BY <2>4, <2>5, NormalizedOverlap
  <2>7. PairError(bindings[i], bindings[j]) /\ PairError(bindings[j], bindings[i])
    BY <2>6 DEF PairError
  <2>8. \A x, y \in DOMAIN bindings : y < x => ~PairError(bindings[x], bindings[y])
    <3>1. \A x, y \in DOMAIN bindings : y < x => y \in 1..(x - 1)
      BY <2>2
    <3> QED
      BY <2>1, <3>1 DEF ValidBindings
  <2>9. i # j
    OBVIOUS
  <2>10. i < j \/ j < i
    BY <2>3, <2>9
  <2> QED
    BY <2>7, <2>8, <2>10
<1>2. InputInit => Accepted
  BY DEF InputInit, Accepted
<1> QED
  BY <1>1, <1>2, AcceptedStep, PTL DEF DevicesSpec
=============================================================================
