------------------------- MODULE ControlPlaneProofs -------------------------
(***************************************************************************)
(* What holds of the control plane for every number of players, sessions,  *)
(* nodes, workers, versions and failures.                                  *)
(***************************************************************************)
EXTENDS ControlPlane, FiniteSetTheorems, TLAPS

(* What a thread carries fits where it is. *)
ThreadOK ==
    \A w \in Threads :
        /\ pc[w] \in {"start_checked", "end_checked", "moderate_checked", "removed"}
                => sess[w] \in Sessions
        /\ pc[w] \in {"authorized", "started"}
                => held[w] \in Transmissions /\ held[w].id < nextId
        /\ pc[w] = "replace_read" => subject[w] \in Players

TypeInv == TypeOK /\ ThreadOK

\* A transmission names a participant of a room.
LEMMA RoomTyped == \A t \in Transmissions : Room(t) \in Players \X Nodes
  BY DEF Transmissions, Room

\* The first state is well typed.
LEMMA InitTyped == Init => TypeInv
<1> SUFFICES ASSUME Init PROVE TypeInv
  OBVIOUS
<1>1. {[version |-> 1, node |-> n, muted |-> FALSE] : n \in Nodes} \subseteq Memberships
  <2> SUFFICES ASSUME NEW n \in Nodes
               PROVE [version |-> 1, node |-> n, muted |-> FALSE] \in Memberships
    OBVIOUS
  <2>1. 1 \in 1..MaxVersion
    BY BoundAssumption
  <2>2. QED
    BY <2>1, Zenon DEF Memberships
<1>2. memberships \in [Players -> Memberships \cup {NoMembership}]
  BY <1>1 DEF Init
<1>3. QED
  BY <1>2, OwnerAssumption, ThreadAssumption, BoundAssumption
     DEF Init, TypeInv, TypeOK, ThreadOK, Threads, Ids, Times, PCs, Erased, NotCreated, NoSession, NoTransmission, NoPlayer, NoId, Transmissions

\* Every step of every thread keeps the state well typed.
LEMMA StepTyped == TypeInv /\ [Next]_vars => TypeInv'
<1> SUFFICES ASSUME TypeInv, [Next]_vars PROVE TypeInv'
  OBVIOUS
<1> USE OwnerAssumption, ThreadAssumption, BoundAssumption
        DEF TypeInv, TypeOK, ThreadOK, Ids, Times, PCs, NoSession, NoPlayer, NoId
<1>1. ASSUME NEW s \in Sessions, CreateSession(s) PROVE TypeInv'
  BY <1>1 DEF CreateSession, livekitVars, auditVars, requestVars, outcomeVars, crashVars, Erased
<1>2. ASSUME NEW w \in Workers, NEW s \in Sessions, StartCheck(w, s) PROVE TypeInv'
  BY <1>2 DEF StartCheck, OpenRequest, storeVars, livekitVars, auditVars, outcomeVars,
              crashVars, Threads
<1>3. ASSUME NEW w \in Workers, AuthorizeStart(w) PROVE TypeInv'
  <2> DEFINE s == sess[w]
             m == memberships[Owner[s]]
             h == [id |-> nextId, player |-> Owner[s], session |-> s,
                   version |-> m.version, node |-> m.node, startedAt |-> now[w]]
  <2>1. UNCHANGED <<clock, sessions, memberships, active, canPublish, failures, strayRights,
                    started, ended, revoking, recording, sweep, restarts, lost>>
    BY <1>3 DEF AuthorizeStart, storeVars, livekitVars, auditVars, outcomeVars, crashVars
  <2>2. CASE /\ HasMembership(Owner[s])
             /\ Generate
             /\ held' = [held EXCEPT ![w] = h]
             /\ pc' = [pc EXCEPT ![w] = "authorized"]
             /\ UNCHANGED <<now, sess, target, subject>>
    <3>1. s \in Sessions /\ Owner[s] \in Players
      BY <1>3 DEF AuthorizeStart, Threads
    <3>2. m \in Memberships
      BY <2>2, <3>1 DEF HasMembership
    <3>3. m.version \in 1..MaxVersion /\ m.node \in Nodes
      BY <3>2 DEF Memberships
    <3>4. h \in Transmissions /\ h.id = nextId /\ nextId' = nextId + 1
      BY <2>2, <3>1, <3>3 DEF Generate, Transmissions, Threads
    <3> HIDE DEF h
    <3>5. nextId' \in 1..(MaxIds + 1)
      BY <2>2, <3>4 DEF Generate
    <3>6. TypeOK'
      <4>1. \A u \in active' : u.id < nextId'
        BY <2>1, <3>4 DEF Transmissions
      <4>2. held' \in [Threads -> Transmissions \cup {NoTransmission}]
        BY <2>2, <3>4
      <4>3. pc' \in [Threads -> PCs]
        BY <2>2
      <4>4. QED
        BY <2>1, <2>2, <3>5, <4>1, <4>2, <4>3
    <3>7. ThreadOK'
      <4> SUFFICES ASSUME NEW v \in Threads
                   PROVE /\ pc'[v] \in {"start_checked", "end_checked", "moderate_checked",
                                         "removed"} => sess'[v] \in Sessions
                         /\ pc'[v] \in {"authorized", "started"}
                                => held'[v] \in Transmissions /\ held'[v].id < nextId'
                         /\ pc'[v] = "replace_read" => subject'[v] \in Players
        BY Zenon
      <4>1. CASE v = w
        BY <2>2, <3>4, <4>1 DEF Transmissions
      <4>2. CASE v # w
        BY <2>2, <3>4, <4>2 DEF Transmissions
      <4>3. QED
        BY <4>1, <4>2
    <3>8. QED
      BY <3>6, <3>7
  <2>3. CASE Done(w) /\ UNCHANGED nextId
    BY <2>1, <2>3 DEF Done, Threads
  <2>4. QED
    BY <1>3, <2>2, <2>3 DEF AuthorizeStart
<1>4. ASSUME NEW w \in Workers, Activate(w) PROVE TypeInv'
  <2> DEFINE t == [held[w] EXCEPT !.node = memberships[held[w].player].node]
  <2>1. /\ t \in Transmissions
        /\ t.id < nextId
        /\ Room(t) \in Players \X Nodes
    <3>1. held[w] \in Transmissions /\ held[w].id < nextId
      BY <1>4 DEF Activate, Threads
    <3>2. memberships[held[w].player] \in Memberships
      BY <1>4, <3>1 DEF Activate, CanActivate, MembershipUnchanged, HasMembership,
                        Transmissions
    <3>3. memberships[held[w].player].node \in Nodes
      BY <3>2 DEF Memberships
    <3>4. QED
      BY <3>1, <3>3 DEF Room, Transmissions
  <2>2. UNCHANGED <<clock, sessions, memberships, nextId, auditVars, outcomeVars, sweep,
                    crashVars>>
    BY <1>4 DEF Activate
  <2>3. CASE /\ RoomServiceAnswers(t, canPublish \cup {Room(t)})
             /\ active' = active \cup {t}
             /\ held' = [held EXCEPT ![w] = t]
             /\ pc' = [pc EXCEPT ![w] = "started"]
             /\ UNCHANGED <<now, sess, target, subject>>
    <3> HIDE DEF t
    <3> QED
      BY <2>1, <2>2, <2>3 DEF RoomServiceAnswers, auditVars, outcomeVars, crashVars, Threads
  <2>4. CASE RoomServiceFails(t, canPublish \cup {Room(t)}) /\ Done(w) /\ UNCHANGED active
    <3> HIDE DEF t
    <3> QED
      BY <2>1, <2>2, <2>4 DEF RoomServiceFails, Done, auditVars, outcomeVars, crashVars,
                              Threads
  <2>5. QED
    BY <1>4, <2>3, <2>4 DEF Activate
<1>5. ASSUME NEW w \in Workers, ActivateRejected(w) PROVE TypeInv'
  BY <1>5 DEF ActivateRejected, Done, storeVars, livekitVars, auditVars, outcomeVars,
              crashVars, Threads
<1>6. ASSUME NEW w \in Workers, RecordStarted(w) PROVE TypeInv'
  <2>1. held[w].id \in Ids
    <3>1. held[w] \in Transmissions
      BY <1>6 DEF RecordStarted, Threads
    <3>2. QED
      BY <3>1 DEF Transmissions
  <2>2. PICK i \in Ids : started' = started \cup {i}
    BY <1>6, <2>1 DEF RecordStarted
  <2>3. /\ Done(w)
        /\ UNCHANGED <<clock, storeVars, nextId, livekitVars, ended, outcomeVars, sweep,
                       crashVars>>
    BY <1>6 DEF RecordStarted
  <2>4. QED
    BY <2>2, <2>3 DEF Done, storeVars, livekitVars, outcomeVars, crashVars, Threads
<1>7. ASSUME NEW w \in Workers, NEW s \in Sessions, NEW i \in Ids, EndCheck(w, s, i)
      PROVE TypeInv'
  BY <1>7 DEF EndCheck, OpenRequest, storeVars, livekitVars, auditVars, outcomeVars,
              crashVars, Threads
<1>8. ASSUME NEW w \in Workers, NEW s \in Sessions, NEW i \in Ids, ModerateCheck(w, s, i)
      PROVE TypeInv'
  BY <1>8 DEF ModerateCheck, OpenRequest, storeVars, livekitVars, auditVars, outcomeVars,
              crashVars, Threads
<1>9. ASSUME NEW w \in Workers, NEW t \in active, EndLocked(w, t) PROVE TypeInv'
  <2>1. Room(t) \in Players \X Nodes
    BY <1>9, RoomTyped
  <2>2. QED
    BY <1>9, <2>1 DEF EndLocked, TakeOut, OnEnded, RoomServiceAnswers, RoomServiceFails,
                      auditVars, requestVars, crashVars, Threads, Transmissions
<1>10. ASSUME NEW w \in Workers, End(w) PROVE TypeInv'
  <2>1. CASE \E t \in active : MayEnd(w, t) /\ EndLocked(w, t)
    BY <1>9, <1>10, <2>1
  <2>2. CASE /\ Done(w)
             /\ UNCHANGED <<clock, storeVars, nextId, livekitVars, auditVars, outcomeVars,
                            sweep, crashVars>>
    BY <2>2 DEF Done, storeVars, livekitVars, auditVars, outcomeVars, crashVars, Threads
  <2>3. QED
    BY <1>10, <2>1, <2>2 DEF End
<1>11. ASSUME NEW w \in Workers, Interrupt(w) PROVE TypeInv'
  <2>1. CASE \E t \in active : MayInterrupt(w, t) /\ EndLocked(w, t)
    BY <1>9, <1>11, <2>1
  <2>2. CASE /\ Done(w)
             /\ UNCHANGED <<clock, storeVars, nextId, livekitVars, auditVars, outcomeVars,
                            sweep, crashVars>>
    BY <2>2 DEF Done, storeVars, livekitVars, auditVars, outcomeVars, crashVars, Threads
  <2>3. QED
    BY <1>11, <2>1, <2>2 DEF Interrupt
<1>12. ASSUME NEW w \in Workers, NEW p \in Players, ReplaceRead(w, p) PROVE TypeInv'
  BY <1>12 DEF ReplaceRead, storeVars, livekitVars, auditVars, outcomeVars, crashVars, Threads
<1>13. ASSUME NEW w \in Workers, NEW m \in Memberships, UpdateMembership(w, m)
       PROVE TypeInv'
  BY <1>13 DEF UpdateMembership, TakeOut, OfPlayer, Done, livekitVars, auditVars,
               requestVars, outcomeVars, crashVars, Threads, Transmissions
<1>14. ASSUME NEW w \in Workers, NEW p \in Players, RemoveMembership(w, p) PROVE TypeInv'
  BY <1>14 DEF RemoveMembership, TakeOut, OfPlayer, livekitVars, auditVars, requestVars,
               crashVars, Threads, Transmissions
<1>15. ASSUME NEW w \in Threads, NEW t \in revoking[w], NotifyEnded(w, t) PROVE TypeInv'
  <2>1. Room(t) \in Players \X Nodes
    BY <1>15, RoomTyped
  <2>2. QED
    BY <1>15, <2>1 DEF NotifyEnded, OnEnded, RoomServiceAnswers, RoomServiceFails, storeVars,
                       auditVars, requestVars, crashVars
<1>16. ASSUME NEW w \in Threads, NEW i \in recording[w], RecordEnded(w, i) PROVE TypeInv'
  BY <1>16 DEF RecordEnded, storeVars, livekitVars, requestVars, crashVars
<1>17. ASSUME NEW w \in Workers, Answer(w) PROVE TypeInv'
  BY <1>17 DEF Answer, Done, storeVars, livekitVars, auditVars, outcomeVars, crashVars, Threads
<1>18. CASE ExpireTimedOut
  BY <1>18 DEF ExpireTimedOut, TakeOut, livekitVars, auditVars, crashVars, Threads,
               Transmissions
<1>19. CASE BeginSweep
  BY <1>19 DEF BeginSweep, ExpiredSessionIds, storeVars, livekitVars, auditVars, requestVars,
               outcomeVars, crashVars, Threads
<1>20. ASSUME NEW s \in Sessions, RemoveSession(s) PROVE TypeInv'
  BY <1>20 DEF RemoveSession, TakeOut, OfSession, livekitVars, auditVars, crashVars, Threads,
               Transmissions
<1>21. CASE EraseSession
  BY <1>21 DEF EraseSession, livekitVars, auditVars, requestVars, outcomeVars, crashVars,
               Threads, Erased
<1>22. CASE EndRound
  BY <1>22 DEF EndRound, Done, storeVars, livekitVars, auditVars, outcomeVars, crashVars,
               Threads
<1>23. CASE Tick
  BY <1>23 DEF Tick, storeVars, livekitVars, auditVars, requestVars, outcomeVars, crashVars
<1>24. CASE Restart
  <2>1. lost' \subseteq Ids
    <3>1. {t.id : t \in active} \subseteq Ids
      BY DEF Transmissions
    <3>2. UNION {recording[w] : w \in Threads} \subseteq Ids
      OBVIOUS
    <3>3. QED
      BY <1>24, <3>1, <3>2 DEF Restart
  <2>2. strayRights' \subseteq Players \X Nodes
    <3>1. active \cup UNION {revoking[w] : w \in Threads} \subseteq Transmissions
      OBVIOUS
    <3>2. {Room(t) : t \in active \cup UNION {revoking[w] : w \in Threads}}
              \subseteq Players \X Nodes
      BY <3>1, RoomTyped
    <3>3. QED
      BY <1>24, <3>2 DEF Restart
  <2>3. QED
    BY <1>24, <2>1, <2>2 DEF Restart, auditVars
<1>25. CASE UNCHANGED vars
  BY <1>25 DEF vars
<1>26. QED
  BY <1>1, <1>2, <1>3, <1>4, <1>5, <1>6, <1>7, <1>8, <1>10, <1>11, <1>12, <1>13, <1>14,
     <1>15, <1>16, <1>17, <1>18, <1>19, <1>20, <1>21, <1>22, <1>23, <1>24, <1>25
     DEF Next, Request, WorkerStep, AfterLockStep, MaintenanceStep

\* The control plane's state is well typed in every reachable state.
THEOREM ControlPlaneTypeCorrect == Spec => []TypeOK
<1>1. Spec => []TypeInv
  BY InitTyped, StepTyped, PTL DEF Spec
<1>2. QED
  BY <1>1, PTL DEF TypeInv

-----------------------------------------------------------------------------
(* The registry.  All of its invariants follow from three ways a step can
   change it. *)

Shrinks == active' \subseteq active /\ UNCHANGED memberships

LosesPlayer ==
    \E p \in Players :
        /\ active' = active \ OfPlayer(p)
        /\ \A q \in Players \ {p} : memberships'[q] = memberships[q]
        /\ \/ NoMembership \in {memberships[p], memberships'[p]}
           \/ memberships'[p].version > memberships[p].version

Gains ==
    \E t \in Transmissions :
        /\ active' = active \cup {t}
        /\ UNCHANGED memberships
        /\ memberships[t.player] # NoMembership
        /\ memberships[t.player].version = t.version
        /\ memberships[t.player].node = t.node
        /\ Cardinality(MatchingSpeakers(t.node)) < SpeakerLimit
        /\ \A u \in active : u.player # t.player

\* A step ends transmissions without touching memberships, or changes one
\* player's membership and ends that player's transmissions, or activates one
\* transmission that passed every check of activate.
LEMMA RegistrySteps == TypeInv /\ [Next]_vars => Shrinks \/ LosesPlayer \/ Gains
<1> SUFFICES ASSUME TypeInv, [Next]_vars PROVE Shrinks \/ LosesPlayer \/ Gains
  OBVIOUS
<1>1. ASSUME NEW w \in Workers, NEW m \in Memberships, UpdateMembership(w, m)
      PROVE Shrinks \/ LosesPlayer
  <2>1. subject[w] \in Players
    BY <1>1 DEF UpdateMembership, TypeInv, ThreadOK, Threads
  <2>2. QED
    BY <1>1, <2>1 DEF UpdateMembership, Newer, HasMembership, TakeOut, Shrinks, LosesPlayer,
                      TypeInv, TypeOK
<1>2. ASSUME NEW w \in Workers, NEW p \in Players, RemoveMembership(w, p)
      PROVE LosesPlayer
  BY <1>2 DEF RemoveMembership, TakeOut, LosesPlayer, TypeInv, TypeOK
<1>3. ASSUME NEW w \in Workers, Activate(w) PROVE Shrinks \/ Gains
  <2> DEFINE t == [held[w] EXCEPT !.node = memberships[held[w].player].node]
  <2>1. held[w] \in Transmissions
    BY <1>3 DEF Activate, TypeInv, ThreadOK, Threads
  <2>2. memberships[held[w].player] \in Memberships
    BY <1>3, <2>1 DEF Activate, CanActivate, MembershipUnchanged, HasMembership,
                      Transmissions, TypeInv, TypeOK
  <2>3. memberships[held[w].player].node \in Nodes
    BY <2>2 DEF Memberships
  <2>4. /\ t \in Transmissions
        /\ t.player = held[w].player
        /\ t.version = held[w].version
        /\ t.node = memberships[t.player].node
    BY <2>1, <2>3 DEF Transmissions
  <2>5. CASE UNCHANGED active
    BY <1>3, <2>5 DEF Activate, Shrinks
  <2>6. CASE active' = active \cup {t}
    <3>1. /\ memberships[held[w].player] # NoMembership
          /\ memberships[held[w].player].version = held[w].version
          /\ Cardinality(MatchingSpeakers(memberships[held[w].player].node)) < SpeakerLimit
          /\ \A u \in active : u.player # held[w].player
          /\ UNCHANGED memberships
      BY <1>3 DEF Activate, CanActivate, MembershipUnchanged, HasMembership, SpeakerSlotFree,
                  SenderSilent
    <3> HIDE DEF t
    <3>2. QED
      BY <2>4, <2>6, <3>1 DEF Gains
  <2>7. QED
    BY <1>3, <2>5, <2>6 DEF Activate
<1>4. ASSUME NEW w \in Workers, NEW t \in active, EndLocked(w, t) PROVE Shrinks
  BY <1>4 DEF EndLocked, TakeOut, Shrinks
<1>5. ASSUME NEW w \in Workers, End(w) \/ Interrupt(w) PROVE Shrinks
  BY <1>4, <1>5 DEF End, Interrupt, Shrinks, storeVars
<1>6. CASE ExpireTimedOut
  BY <1>6 DEF ExpireTimedOut, TakeOut, Shrinks
<1>7. ASSUME NEW s \in Sessions, RemoveSession(s) PROVE Shrinks
  BY <1>7 DEF RemoveSession, TakeOut, Shrinks
<1>8. CASE Restart
  BY <1>8 DEF Restart, Shrinks
<1>9. CASE UNCHANGED vars
  BY <1>9 DEF vars, Shrinks
<1>10. ASSUME NEW w \in Workers, Request(w) PROVE Shrinks \/ LosesPlayer
  BY <1>2, <1>10 DEF Request, StartCheck, EndCheck, ModerateCheck, OpenRequest, ReplaceRead,
                     storeVars, Shrinks
<1>11. ASSUME NEW w \in Workers, WorkerStep(w) PROVE Shrinks \/ LosesPlayer \/ Gains
  BY <1>1, <1>3, <1>5, <1>11 DEF WorkerStep, AuthorizeStart, ActivateRejected, RecordStarted,
                                 Answer, storeVars, Shrinks
<1>12. ASSUME NEW w \in Threads, AfterLockStep(w) PROVE Shrinks
  BY <1>12 DEF AfterLockStep, NotifyEnded, RecordEnded, storeVars, Shrinks
<1>13. CASE MaintenanceStep
  BY <1>6, <1>7, <1>13 DEF MaintenanceStep, BeginSweep, EraseSession, EndRound, storeVars,
                           Shrinks
<1>14. ASSUME NEW s \in Sessions, CreateSession(s) PROVE Shrinks
  BY <1>14 DEF CreateSession, Shrinks
<1>15. CASE Tick
  BY <1>15 DEF Tick, storeVars, Shrinks
<1>16. QED
  BY <1>8, <1>9, <1>10, <1>11, <1>12, <1>13, <1>14, <1>15 DEF Next

RegistryInv ==
    /\ TypeInv
    /\ OneTransmissionPerSender
    /\ ActiveOnCurrentMembership
    /\ IsFiniteSet(active)
    /\ SpeakerLimitRespected

\* The empty registry of a new process satisfies the registry invariant.
LEMMA InitRegistry == Init => RegistryInv
<1> SUFFICES ASSUME Init PROVE RegistryInv
  OBVIOUS
<1>1. \A n \in Nodes : {t \in active : t.node = n} = {}
  BY DEF Init
<1>2. QED
  BY <1>1, InitTyped, FS_EmptySet, BoundAssumption
     DEF RegistryInv, Init, OneTransmissionPerSender, ActiveOnCurrentMembership,
         SpeakerLimitRespected

\* Every step preserves the registry invariant.
LEMMA StepRegistry == RegistryInv /\ [Next]_vars => RegistryInv'
<1> SUFFICES ASSUME RegistryInv, [Next]_vars PROVE RegistryInv'
  OBVIOUS
<1> DEFINE On(n) == {t \in active : t.node = n}
<1>1. TypeInv'
  BY StepTyped DEF RegistryInv
<1>2. ASSUME active' \subseteq active
      PROVE OneTransmissionPerSender' /\ IsFiniteSet(active') /\ SpeakerLimitRespected'
  <2>1. OneTransmissionPerSender'
    BY <1>2 DEF RegistryInv, OneTransmissionPerSender
  <2>2. IsFiniteSet(active')
    BY <1>2, FS_Subset DEF RegistryInv
  <2>3. ASSUME NEW n \in Nodes PROVE Cardinality(On(n)') <= SpeakerLimit
    <3>1. On(n)' \subseteq On(n) /\ On(n) \subseteq active
      BY <1>2
    <3>2. /\ IsFiniteSet(On(n)) /\ IsFiniteSet(On(n)')
          /\ Cardinality(On(n)') <= Cardinality(On(n))
      BY <3>1, FS_Subset DEF RegistryInv
    <3>3. Cardinality(On(n)) <= SpeakerLimit
      BY DEF RegistryInv, SpeakerLimitRespected
    <3> HIDE DEF On
    <3>4. QED
      BY <3>2, <3>3, FS_CardinalityType, BoundAssumption
  <2>4. QED
    BY <2>1, <2>2, <2>3 DEF SpeakerLimitRespected
<1>3. CASE Shrinks
  <2>1. ActiveOnCurrentMembership'
    BY <1>3 DEF Shrinks, RegistryInv, ActiveOnCurrentMembership
  <2>2. QED
    BY <1>1, <1>2, <1>3, <2>1 DEF Shrinks, RegistryInv
<1>4. CASE LosesPlayer
  <2>1. PICK p \in Players :
            /\ active' = active \ OfPlayer(p)
            /\ \A q \in Players \ {p} : memberships'[q] = memberships[q]
    BY <1>4 DEF LosesPlayer
  <2>2. \A t \in active' : t \in active /\ t.player \in Players \ {p}
    BY <2>1 DEF OfPlayer, RegistryInv, TypeInv, TypeOK, Transmissions
  <2>3. ActiveOnCurrentMembership'
    BY <2>1, <2>2 DEF RegistryInv, ActiveOnCurrentMembership
  <2>4. QED
    BY <1>1, <1>2, <2>1, <2>3 DEF RegistryInv
<1>5. CASE Gains
  <2>1. PICK t \in Transmissions :
            /\ active' = active \cup {t}
            /\ UNCHANGED memberships
            /\ memberships[t.player] # NoMembership
            /\ memberships[t.player].version = t.version
            /\ memberships[t.player].node = t.node
            /\ Cardinality(MatchingSpeakers(t.node)) < SpeakerLimit
            /\ \A u \in active : u.player # t.player
    BY <1>5 DEF Gains
  <2>2. OneTransmissionPerSender'
    BY <2>1 DEF RegistryInv, OneTransmissionPerSender
  <2>3. ActiveOnCurrentMembership'
    BY <2>1 DEF RegistryInv, ActiveOnCurrentMembership
  <2>4. IsFiniteSet(active')
    BY <2>1, FS_AddElement DEF RegistryInv
  <2>5. ASSUME NEW n \in Nodes PROVE Cardinality(On(n)') <= SpeakerLimit
    <3>1. CASE n # t.node
      <4>1. On(n)' = On(n)
        BY <2>1, <3>1
      <4>2. QED
        BY <4>1 DEF RegistryInv, SpeakerLimitRespected
    <3>2. CASE n = t.node
      <4>1. \A u \in active : memberships[u.player].version # 0
        BY BoundAssumption DEF RegistryInv, ActiveOnCurrentMembership, TypeInv, TypeOK,
                               Transmissions
      <4>2. On(n) = MatchingSpeakers(n)
        <5>1. NoMembership.version = 0
          BY DEF NoMembership
        <5>2. \A u \in active : HasMembership(u.player)
          BY <4>1, <5>1 DEF HasMembership
        <5>3. QED
          BY <5>2 DEF MatchingSpeakers, RegistryInv, ActiveOnCurrentMembership
      <4>3. On(n)' = On(n) \cup {t} /\ On(n) \subseteq active
        BY <2>1, <3>2
      <4>4. IsFiniteSet(On(n))
        BY <4>3, FS_Subset DEF RegistryInv
      <4>5. Cardinality(On(n)) < SpeakerLimit
        BY <2>1, <3>2, <4>2
      <4> HIDE DEF On
      <4>6. Cardinality(On(n)) \in Nat
        BY <4>4, FS_CardinalityType
      <4>7. Cardinality(On(n)') \in {Cardinality(On(n)), Cardinality(On(n)) + 1}
        BY <4>3, <4>4, FS_AddElement
      <4>8. QED
        BY <4>5, <4>6, <4>7, BoundAssumption
    <3>3. QED
      BY <3>1, <3>2
  <2>6. QED
    BY <1>1, <2>2, <2>3, <2>4, <2>5 DEF RegistryInv, SpeakerLimitRespected
<1>6. QED
  BY <1>3, <1>4, <1>5, RegistrySteps DEF RegistryInv

\* The registry invariant holds in every reachable state.
LEMMA RegistryInvariance == Spec => []RegistryInv
  BY InitRegistry, StepRegistry, PTL DEF Spec

\* Whatever starts race, a player never has two active transmissions.
THEOREM OnePerSender == Spec => []OneTransmissionPerSender
  BY RegistryInvariance, PTL DEF RegistryInv

\* No active transmission survives a change of its sender's membership, and
\* none is activated with an outdated one.
THEOREM ActiveIsCurrent == Spec => []ActiveOnCurrentMembership
  BY RegistryInvariance, PTL DEF RegistryInv

\* The speaker limit of a node is never exceeded.
THEOREM SpeakerLimitHolds == Spec => []SpeakerLimitRespected
  BY RegistryInvariance, PTL DEF RegistryInv

-----------------------------------------------------------------------------
(* The ledger of transmission ids.  EndedExactlyOnce is not inductive: that no
   two threads owe the record of the same end needs to know that a thread which
   takes transmissions out owes nothing yet, and that a started transmission
   enters the ledger as a new one needs to know that the ids which authorized
   starts carry are new. *)

(* A thread owes LiveKit and the audit log nothing unless it has just left a
   locked section. *)
NothingOwed ==
    \A w \in Threads : pc[w] \notin AfterLock => recording[w] = {} /\ revoking[w] = {}

(* The ids in the registry, owed by a thread, recorded as ended and lost with a
   process are disjoint, and the first two hold no id twice. *)
LedgerDisjoint ==
    /\ \A t, u \in active : t.id = u.id => t = u
    /\ \A v, w \in Threads : \A i \in recording[v] : i \in recording[w] => v = w
    /\ \A t \in active : t.id \notin ended \cup lost /\ \A w \in Threads : t.id \notin recording[w]
    /\ \A w \in Threads : \A i \in recording[w] : i \notin ended \cup lost

InLedger(i) ==
    \/ \E t \in active : t.id = i
    \/ \E w \in Threads : i \in recording[w]
    \/ i \in ended \cup lost

(* Only generated ids are in the ledger, and the ids that authorized starts
   carry are new: not in the ledger and not shared. *)
FreshIds ==
    /\ \A i \in Ids : InLedger(i) => i < nextId
    /\ \A w \in Threads : pc[w] = "authorized" => ~InLedger(held[w].id)
    /\ \A v, w \in Threads :
          pc[v] = "authorized" /\ pc[w] = "authorized" /\ held[v].id = held[w].id => v = w

(* Whatever was, or is about to be, announced as started is in the ledger. *)
StartedInLedger ==
    /\ \A i \in started : InLedger(i)
    /\ \A w \in Threads : pc[w] = "started" => InLedger(held[w].id)

LedgerInv ==
    /\ TypeInv
    /\ NothingOwed
    /\ LedgerDisjoint
    /\ FreshIds
    /\ StartedInLedger

(* The ways a step can change the ledger.  A thread that carries an id after
   the step carried it before. *)
Carries(v) == pc'[v] \in {"authorized", "started"} => pc'[v] = pc[v] /\ held'[v] = held[v]

LedgerSame ==
    /\ UNCHANGED <<active, recording, ended, lost, started, nextId>>
    /\ \A v \in Threads : Carries(v)

Generates ==
    \E w \in Threads :
        /\ UNCHANGED <<active, recording, ended, lost, started>>
        /\ nextId' = nextId + 1
        /\ pc'[w] = "authorized"
        /\ held'[w].id = nextId
        /\ \A v \in Threads \ {w} : Carries(v)

Begins ==
    \E w \in Threads, t \in Transmissions :
        /\ pc[w] = "authorized"
        /\ t.id = held[w].id
        /\ active' = active \cup {t}
        /\ pc'[w] = "started"
        /\ held'[w] = t
        /\ \A v \in Threads \ {w} : Carries(v)
        /\ UNCHANGED <<recording, ended, lost, started, nextId>>

Announces ==
    \E w \in Threads :
        /\ pc[w] = "started"
        /\ started' = started \cup {held[w].id}
        /\ \A v \in Threads : Carries(v)
        /\ UNCHANGED <<active, recording, ended, lost, nextId>>

Ends ==
    \E w \in Threads, gone \in SUBSET active :
        /\ recording[w] = {}
        /\ active' = active \ gone
        /\ recording' = [recording EXCEPT ![w] = {t.id : t \in gone}]
        /\ \A v \in Threads : Carries(v)
        /\ UNCHANGED <<ended, lost, started, nextId>>

Records ==
    \E w \in Threads : \E i \in recording[w] :
        /\ ended' = ended \cup {i}
        /\ recording' = [recording EXCEPT ![w] = @ \ {i}]
        /\ \A v \in Threads : Carries(v)
        /\ UNCHANGED <<active, lost, started, nextId>>

Dies ==
    /\ lost' = lost \cup {t.id : t \in active} \cup UNION {recording[w] : w \in Threads}
    /\ active' = {}
    /\ recording' = [w \in Threads |-> {}]
    /\ \A v \in Threads : Carries(v)
    /\ UNCHANGED <<ended, started, nextId>>

LedgerStep ==
    LedgerSame \/ Generates \/ Begins \/ Announces \/ Ends \/ Records \/ Dies

\* Every step of every thread changes the ledger in one of these ways: no handler
\* ends, starts or records a transmission by another route.
LEMMA LedgerSteps == TypeInv /\ NothingOwed /\ [Next]_vars => LedgerStep
<1> SUFFICES ASSUME TypeInv, NothingOwed, [Next]_vars PROVE LedgerStep
  OBVIOUS
<1> USE DEF TypeInv, LedgerStep
<1>1. ASSUME NEW w \in Threads, Done(w) PROVE \A v \in Threads : Carries(v)
  BY <1>1 DEF Done, Carries, TypeOK
<1>2. ASSUME NEW s \in Sessions, CreateSession(s) PROVE LedgerSame
  BY <1>2 DEF CreateSession, LedgerSame, Carries, requestVars, outcomeVars, auditVars, crashVars
<1>3. ASSUME NEW w \in Workers, NEW s \in Sessions, StartCheck(w, s) PROVE LedgerSame
  BY <1>3 DEF StartCheck, OpenRequest, LedgerSame, Carries, storeVars, outcomeVars, auditVars,
              crashVars, TypeOK, Threads
<1>4. ASSUME NEW w \in Workers, NEW s \in Sessions, NEW i \in Ids,
             EndCheck(w, s, i) \/ ModerateCheck(w, s, i)
      PROVE LedgerSame
  BY <1>4 DEF EndCheck, ModerateCheck, OpenRequest, LedgerSame, Carries, storeVars,
              outcomeVars, auditVars, crashVars, TypeOK, Threads
<1>5. ASSUME NEW w \in Workers, NEW p \in Players, ReplaceRead(w, p) PROVE LedgerSame
  BY <1>5 DEF ReplaceRead, LedgerSame, Carries, storeVars, outcomeVars, auditVars, crashVars,
              TypeOK, Threads
<1>6. ASSUME NEW w \in Threads, NEW gone \in SUBSET active, NEW later,
             TakeOut(w, gone, later), recording[w] = {}, \A v \in Threads : Carries(v),
             UNCHANGED <<ended, lost, started, nextId>>
      PROVE Ends
  BY <1>6 DEF TakeOut, Ends
<1>7. ASSUME NEW w \in Threads, NEW x \in {"unlocked", "expired", "removed"},
             pc' = [pc EXCEPT ![w] = x], UNCHANGED held
      PROVE \A v \in Threads : Carries(v)
  BY <1>7 DEF Carries, TypeOK
<1>8. ASSUME NEW w \in Workers, NEW p \in Players, RemoveMembership(w, p) PROVE Ends
  <2>1. recording[w] = {} /\ w \in Threads /\ OfPlayer(p) \in SUBSET active
    BY <1>8 DEF RemoveMembership, NothingOwed, AfterLock, Threads, OfPlayer
  <2>2. \A v \in Threads : Carries(v)
    BY <1>7, <1>8, <2>1 DEF RemoveMembership, requestVars
  <2>3. QED
    BY <1>6, <1>8, <2>1, <2>2 DEF RemoveMembership, auditVars, crashVars
<1>9. ASSUME NEW w \in Workers, AuthorizeStart(w) PROVE LedgerSame \/ Generates
  <2>1. UNCHANGED <<active, recording, ended, lost, started>> /\ w \in Threads
    BY <1>9 DEF AuthorizeStart, storeVars, auditVars, outcomeVars, crashVars, Threads
  <2>2. CASE Done(w) /\ UNCHANGED nextId
    BY <1>1, <2>1, <2>2 DEF LedgerSame
  <2>3. CASE ~(Done(w) /\ UNCHANGED nextId)
    <3>1. PICK h : /\ h.id = nextId
                   /\ held' = [held EXCEPT ![w] = h]
                   /\ pc' = [pc EXCEPT ![w] = "authorized"]
                   /\ Generate
      BY <1>9, <2>3 DEF AuthorizeStart
    <3>2. QED
      BY <2>1, <3>1 DEF Generates, Generate, Carries, TypeOK
  <2>4. QED
    BY <2>2, <2>3
<1>10. ASSUME NEW w \in Workers, Activate(w) PROVE LedgerSame \/ Begins
  <2> DEFINE t == [held[w] EXCEPT !.node = memberships[held[w].player].node]
  <2>1. /\ UNCHANGED <<recording, ended, lost, started, nextId>>
        /\ w \in Threads
        /\ pc[w] = "authorized"
    BY <1>10 DEF Activate, auditVars, outcomeVars, crashVars, Threads
  <2>2. held[w] \in Transmissions
    BY <2>1 DEF ThreadOK
  <2>3. memberships[held[w].player] \in Memberships
    BY <1>10, <2>2 DEF Activate, CanActivate, MembershipUnchanged, HasMembership,
                       Transmissions, TypeOK
  <2>4. t \in Transmissions /\ t.id = held[w].id
    BY <2>2, <2>3 DEF Transmissions, Memberships
  <2>5. CASE Done(w) /\ UNCHANGED active
    BY <1>1, <2>1, <2>5 DEF LedgerSame
  <2>6. CASE /\ active' = active \cup {t}
             /\ held' = [held EXCEPT ![w] = t]
             /\ pc' = [pc EXCEPT ![w] = "started"]
    <3> HIDE DEF t
    <3> QED
      BY <2>1, <2>4, <2>6 DEF Begins, Carries, TypeOK
  <2>7. QED
    BY <1>10, <2>5, <2>6 DEF Activate
<1>11. ASSUME NEW w \in Workers, ActivateRejected(w) \/ Answer(w) PROVE LedgerSame
  BY <1>1, <1>11 DEF ActivateRejected, Answer, LedgerSame, storeVars, auditVars, outcomeVars,
                     crashVars, Threads
<1>12. ASSUME NEW w \in Workers, RecordStarted(w) PROVE Announces
  BY <1>1, <1>12 DEF RecordStarted, Announces, storeVars, outcomeVars, crashVars, Threads
<1>13. ASSUME NEW w \in Workers, NEW t \in active, EndLocked(w, t), pc[w] \notin AfterLock
       PROVE Ends
  <2>1. recording[w] = {} /\ w \in Threads /\ {t} \in SUBSET active
    BY <1>13 DEF NothingOwed, Threads
  <2>2. \A v \in Threads : Carries(v)
    BY <1>7, <1>13, <2>1 DEF EndLocked, requestVars
  <2>3. QED
    BY <1>6, <1>13, <2>1, <2>2 DEF EndLocked, auditVars, crashVars
<1>14. ASSUME NEW w \in Workers, End(w) \/ Interrupt(w) PROVE LedgerSame \/ Ends
  <2>1. CASE \E t \in active : EndLocked(w, t)
    BY <1>13, <1>14, <2>1 DEF End, Interrupt, AfterLock
  <2>2. CASE /\ Done(w)
             /\ UNCHANGED <<clock, storeVars, nextId, livekitVars, auditVars, outcomeVars,
                            sweep, crashVars>>
    BY <1>1, <2>2 DEF LedgerSame, storeVars, auditVars, outcomeVars, crashVars, Threads
  <2>3. QED
    BY <1>14, <2>1, <2>2 DEF End, Interrupt
<1>15. ASSUME NEW w \in Workers, NEW m \in Memberships, UpdateMembership(w, m)
       PROVE LedgerSame \/ Ends
  <2> DEFINE p == subject[w]
  <2>1. recording[w] = {} /\ w \in Threads /\ OfPlayer(p) \in SUBSET active
    BY <1>15 DEF UpdateMembership, NothingOwed, AfterLock, Threads, OfPlayer
  <2>2. UNCHANGED <<ended, lost, started, nextId>>
    BY <1>15 DEF UpdateMembership, auditVars, crashVars
  <2>3. CASE /\ TakeOut(w, OfPlayer(p), OfPlayer(p))
             /\ pc' = [pc EXCEPT ![w] = "unlocked"]
             /\ UNCHANGED requestVars
    <3>1. \A v \in Threads : Carries(v)
      BY <1>7, <2>1, <2>3 DEF requestVars
    <3>2. QED
      BY <1>6, <2>1, <2>2, <2>3, <3>1
  <2>4. CASE Done(w) /\ UNCHANGED <<memberships, active, outcomeVars>>
    BY <1>1, <2>1, <2>2, <2>4 DEF LedgerSame, outcomeVars
  <2>5. QED
    BY <1>15, <2>3, <2>4 DEF UpdateMembership
<1>16. ASSUME NEW w \in Threads, NEW t \in revoking[w], NotifyEnded(w, t) PROVE LedgerSame
  BY <1>16 DEF NotifyEnded, LedgerSame, Carries, storeVars, auditVars, requestVars, crashVars
<1>17. ASSUME NEW w \in Threads, NEW i \in recording[w], RecordEnded(w, i) PROVE Records
  BY <1>17 DEF RecordEnded, Records, Carries, storeVars, requestVars, crashVars
<1>18. CASE ExpireTimedOut
  <2> DEFINE overdue == {t \in active : TimedOut(t, clock)}
  <2>1. /\ recording[Maintenance] = {}
        /\ Maintenance \in Threads
        /\ overdue \in SUBSET active
    BY <1>18 DEF ExpireTimedOut, NothingOwed, AfterLock, Threads
  <2>2. \A v \in Threads : Carries(v)
    BY <1>7, <1>18, <2>1 DEF ExpireTimedOut
  <2>3. TakeOut(Maintenance, overdue, overdue) /\ UNCHANGED <<ended, lost, started, nextId>>
    BY <1>18 DEF ExpireTimedOut, auditVars, crashVars
  <2>4. QED
    BY <1>6, <2>1, <2>2, <2>3
<1>19. ASSUME NEW s \in Sessions, RemoveSession(s) PROVE Ends
  <2>1. /\ recording[Maintenance] = {}
        /\ Maintenance \in Threads
        /\ OfSession(s) \in SUBSET active
    BY <1>19 DEF RemoveSession, NothingOwed, AfterLock, Threads, OfSession
  <2>2. \A v \in Threads : Carries(v)
    BY <1>7, <1>19, <2>1 DEF RemoveSession
  <2>3. QED
    BY <1>6, <1>19, <2>1, <2>2 DEF RemoveSession, auditVars, crashVars
<1>20. CASE BeginSweep \/ EraseSession
  BY <1>20 DEF BeginSweep, EraseSession, LedgerSame, Carries, storeVars, auditVars,
               requestVars, outcomeVars, crashVars, TypeOK, Threads
<1>21. CASE EndRound
  BY <1>1, <1>21 DEF EndRound, LedgerSame, storeVars, auditVars, outcomeVars, crashVars, Threads
<1>22. CASE Tick
  BY <1>22 DEF Tick, LedgerSame, Carries, storeVars, auditVars, requestVars, outcomeVars,
               crashVars
<1>23. CASE Restart
  BY <1>23 DEF Restart, Dies, Carries, auditVars
<1>24. CASE UNCHANGED vars
  BY <1>24 DEF vars, LedgerSame, Carries
<1>25. QED
  BY <1>2, <1>3, <1>4, <1>5, <1>8, <1>9, <1>10, <1>11, <1>12, <1>14, <1>15, <1>16, <1>17,
     <1>18, <1>19, <1>20, <1>21, <1>22, <1>23, <1>24
     DEF Next, Request, WorkerStep, AfterLockStep, MaintenanceStep

\* A new process owes nothing and its ledger is empty.
LEMMA InitLedger == Init => LedgerInv
<1> SUFFICES ASSUME Init PROVE LedgerInv
  OBVIOUS
<1>1. TypeInv
  BY InitTyped
<1>2. NothingOwed /\ LedgerDisjoint /\ FreshIds /\ StartedInLedger
  BY DEF Init, NothingOwed, LedgerDisjoint, FreshIds, StartedInLedger, InLedger
<1>3. QED
  BY <1>1, <1>2 DEF LedgerInv

\* A thread that has left a locked section stays there until it has told LiveKit
\* and the audit log everything it owes (notifyEnded and the audit loop).
LEMMA StepNothingOwed == TypeInv /\ NothingOwed /\ [Next]_vars => NothingOwed'
<1> SUFFICES ASSUME TypeInv, NothingOwed, [Next]_vars PROVE NothingOwed'
  OBVIOUS
<1> USE DEF TypeInv, NothingOwed, AfterLock
<1>1. ASSUME NEW w \in Threads, Done(w), UNCHANGED outcomeVars, Settled(w)
      PROVE NothingOwed'
  BY <1>1 DEF Done, outcomeVars, Settled, TypeOK
<1>2. ASSUME NEW w \in Threads, NEW x \in AfterLock, NEW gone, NEW later,
             TakeOut(w, gone, later), pc' = [pc EXCEPT ![w] = x]
      PROVE NothingOwed'
  BY <1>2 DEF TakeOut, TypeOK
<1>3. ASSUME NEW w \in Threads, NEW x \in PCs, Settled(w), UNCHANGED outcomeVars,
             pc' = [pc EXCEPT ![w] = x]
      PROVE NothingOwed'
  BY <1>3 DEF outcomeVars, Settled, TypeOK
<1>4. ASSUME NEW w \in Workers, Request(w) PROVE NothingOwed'
  <2>1. w \in Threads /\ Settled(w)
    BY <1>4 DEF Request, StartCheck, EndCheck, ModerateCheck, OpenRequest, ReplaceRead,
                RemoveMembership, Settled, Threads
  <2>2. CASE \E p \in Players : RemoveMembership(w, p)
    BY <1>2, <2>1, <2>2 DEF RemoveMembership
  <2>3. CASE ~ \E p \in Players : RemoveMembership(w, p)
    BY <1>3, <1>4, <2>1, <2>3
       DEF Request, StartCheck, EndCheck, ModerateCheck, OpenRequest, ReplaceRead, PCs
  <2>4. QED
    BY <2>2, <2>3
<1>5. ASSUME NEW w \in Workers, AuthorizeStart(w) \/ Activate(w) PROVE NothingOwed'
  <2>1. w \in Threads /\ Settled(w) /\ UNCHANGED outcomeVars
    BY <1>5 DEF AuthorizeStart, Activate, Settled, Threads
  <2>2. Done(w) \/ pc' = [pc EXCEPT ![w] = "authorized"] \/ pc' = [pc EXCEPT ![w] = "started"]
    BY <1>5 DEF AuthorizeStart, Activate
  <2>3. QED
    BY <1>1, <1>3, <2>1, <2>2 DEF PCs
<1>6. ASSUME NEW w \in Workers, ActivateRejected(w) \/ RecordStarted(w) \/ Answer(w)
      PROVE NothingOwed'
  <2>1. w \in Threads /\ Settled(w) /\ UNCHANGED outcomeVars /\ Done(w)
    BY <1>6 DEF ActivateRejected, RecordStarted, Answer, Settled, Threads
  <2>2. QED
    BY <1>1, <2>1
<1>7. ASSUME NEW w \in Workers, End(w) \/ Interrupt(w) PROVE NothingOwed'
  <2>1. w \in Threads /\ Settled(w)
    BY <1>7 DEF End, Interrupt, Settled, Threads
  <2>2. CASE \E t \in active : EndLocked(w, t)
    BY <1>2, <2>1, <2>2 DEF EndLocked
  <2>3. CASE Done(w) /\ UNCHANGED outcomeVars
    BY <1>1, <2>1, <2>3
  <2>4. QED
    BY <1>7, <2>2, <2>3 DEF End, Interrupt
<1>8. ASSUME NEW w \in Workers, NEW m \in Memberships, UpdateMembership(w, m)
      PROVE NothingOwed'
  <2>1. w \in Threads /\ Settled(w)
    BY <1>8 DEF UpdateMembership, Settled, Threads
  <2>2. CASE Done(w) /\ UNCHANGED outcomeVars
    BY <1>1, <2>1, <2>2
  <2>3. CASE ~(Done(w) /\ UNCHANGED outcomeVars)
    BY <1>2, <1>8, <2>1, <2>3 DEF UpdateMembership
  <2>4. QED
    BY <2>2, <2>3
<1>9. ASSUME NEW w \in Threads, AfterLockStep(w) PROVE NothingOwed'
  BY <1>9 DEF AfterLockStep, NotifyEnded, RecordEnded, TypeOK
<1>10. CASE MaintenanceStep
  <2>1. Maintenance \in Threads
    BY DEF Threads
  <2>2. CASE ExpireTimedOut \/ \E s \in Sessions : RemoveSession(s)
    BY <1>2, <2>1, <2>2 DEF ExpireTimedOut, RemoveSession
  <2>3. CASE BeginSweep \/ EraseSession
    BY <1>3, <2>1, <2>3 DEF BeginSweep, EraseSession, PCs
  <2>4. CASE EndRound
    BY <1>1, <2>1, <2>4 DEF EndRound, Settled
  <2>5. QED
    BY <1>10, <2>2, <2>3, <2>4 DEF MaintenanceStep
<1>11. CASE (\E s \in Sessions : CreateSession(s)) \/ Tick
  BY <1>11 DEF CreateSession, Tick, outcomeVars
<1>12. CASE Restart
  BY <1>12 DEF Restart
<1>13. CASE UNCHANGED vars
  BY <1>13 DEF vars
<1>14. QED
  BY <1>4, <1>5, <1>6, <1>7, <1>8, <1>9, <1>10, <1>11, <1>12, <1>13 DEF Next, WorkerStep

\* Every step preserves the ledger invariant.
LEMMA StepLedger == LedgerInv /\ [Next]_vars => LedgerInv'
<1> SUFFICES ASSUME LedgerInv, [Next]_vars PROVE LedgerInv'
  OBVIOUS
<1>1. TypeInv' /\ NothingOwed'
  BY StepTyped, StepNothingOwed DEF LedgerInv
<1>2. LedgerStep
  BY LedgerSteps DEF LedgerInv
<1> SUFFICES LedgerDisjoint' /\ FreshIds' /\ StartedInLedger'
  BY <1>1 DEF LedgerInv
<1>3. /\ active \in SUBSET Transmissions
      /\ recording \in [Threads -> SUBSET Ids]
      /\ nextId \in Nat /\ Ids \subseteq Nat
      /\ \A t \in Transmissions : t.id \in Ids
      /\ \A v \in Threads : pc[v] \in {"authorized", "started"}
                                => held[v].id \in Ids /\ held[v].id < nextId
  BY BoundAssumption DEF LedgerInv, TypeInv, TypeOK, ThreadOK, Transmissions, Ids
<1>4. LedgerDisjoint /\ FreshIds /\ StartedInLedger
  BY DEF LedgerInv
<1>5. ASSUME \A i : InLedger(i)' <=> InLedger(i),
             UNCHANGED <<started, nextId>>,
             \A v \in Threads : Carries(v)
      PROVE FreshIds' /\ StartedInLedger'
  BY <1>4, <1>5 DEF FreshIds, StartedInLedger, Carries
<1>6. CASE LedgerSame
  <2>1. \A i : InLedger(i)' <=> InLedger(i)
    BY <1>6 DEF LedgerSame, InLedger
  <2>2. LedgerDisjoint'
    BY <1>4, <1>6 DEF LedgerSame, LedgerDisjoint
  <2>3. QED
    BY <1>5, <1>6, <2>1, <2>2 DEF LedgerSame
<1>7. CASE Generates
  <2>1. PICK w \in Threads :
            /\ UNCHANGED <<active, recording, ended, lost, started>>
            /\ nextId' = nextId + 1
            /\ pc'[w] = "authorized"
            /\ held'[w].id = nextId
            /\ \A v \in Threads \ {w} : Carries(v)
    BY <1>7 DEF Generates
  <2>2. \A i : InLedger(i)' <=> InLedger(i)
    BY <2>1 DEF InLedger
  <2>3. LedgerDisjoint'
    BY <1>4, <2>1 DEF LedgerDisjoint
  <2>4. nextId \in Ids
    BY <1>1, <2>1 DEF TypeInv, TypeOK, ThreadOK, Transmissions
  <2>5. FreshIds'
    BY <1>3, <1>4, <2>1, <2>2, <2>4 DEF FreshIds, Carries
  <2>6. StartedInLedger'
    BY <1>4, <2>1, <2>2 DEF StartedInLedger, Carries
  <2>7. QED
    BY <2>3, <2>5, <2>6
<1>8. CASE Begins
  <2>1. PICK w \in Threads, t \in Transmissions :
            /\ pc[w] = "authorized"
            /\ t.id = held[w].id
            /\ active' = active \cup {t}
            /\ pc'[w] = "started"
            /\ held'[w] = t
            /\ \A v \in Threads \ {w} : Carries(v)
            /\ UNCHANGED <<recording, ended, lost, started, nextId>>
    BY <1>8 DEF Begins
  <2>2. \A i : InLedger(i)' <=> InLedger(i) \/ i = t.id
    BY <2>1 DEF InLedger
  <2>3. ~InLedger(t.id)
    BY <1>4, <2>1 DEF FreshIds
  <2>4. LedgerDisjoint'
    BY <1>4, <2>1, <2>3 DEF LedgerDisjoint, InLedger
  <2>5. FreshIds'
    BY <1>3, <1>4, <2>1, <2>2 DEF FreshIds, Carries
  <2>6. StartedInLedger'
    BY <1>4, <2>1, <2>2 DEF StartedInLedger, Carries
  <2>7. QED
    BY <2>4, <2>5, <2>6
<1>9. CASE Announces
  <2>1. \A i : InLedger(i)' <=> InLedger(i)
    BY <1>9 DEF Announces, InLedger
  <2>2. LedgerDisjoint'
    BY <1>4, <1>9 DEF Announces, LedgerDisjoint
  <2>3. FreshIds'
    BY <1>4, <1>9, <2>1 DEF Announces, FreshIds, Carries
  <2>4. StartedInLedger'
    BY <1>4, <1>9, <2>1 DEF Announces, StartedInLedger, Carries
  <2>5. QED
    BY <2>2, <2>3, <2>4
<1>10. CASE Ends
  <2>1. PICK w \in Threads, gone \in SUBSET active :
            /\ recording[w] = {}
            /\ active' = active \ gone
            /\ recording' = [recording EXCEPT ![w] = {t.id : t \in gone}]
            /\ \A v \in Threads : Carries(v)
            /\ UNCHANGED <<ended, lost, started, nextId>>
    BY <1>10 DEF Ends
  <2>2. /\ \A i : i \in recording'[w] <=> \E t \in gone : t.id = i
        /\ \A v \in Threads \ {w} : recording'[v] = recording[v]
    BY <1>3, <2>1
  <2>3. ASSUME NEW i PROVE InLedger(i)' <=> InLedger(i)
    BY <2>1, <2>2 DEF InLedger
  <2>4. LedgerDisjoint'
    BY <1>4, <2>1, <2>2 DEF LedgerDisjoint
  <2>5. QED
    BY <1>5, <2>1, <2>3, <2>4
<1>11. CASE Records
  <2>1. PICK w \in Threads, j \in Ids :
            /\ j \in recording[w]
            /\ ended' = ended \cup {j}
            /\ recording' = [recording EXCEPT ![w] = @ \ {j}]
            /\ \A v \in Threads : Carries(v)
            /\ UNCHANGED <<active, lost, started, nextId>>
    BY <1>3, <1>11 DEF Records
  <2>2. /\ recording'[w] = recording[w] \ {j}
        /\ \A v \in Threads \ {w} : recording'[v] = recording[v]
    BY <1>3, <2>1
  <2>3. ASSUME NEW i PROVE InLedger(i)' <=> InLedger(i)
    BY <2>1, <2>2 DEF InLedger
  <2>4. LedgerDisjoint'
    BY <1>4, <2>1, <2>2 DEF LedgerDisjoint
  <2>5. QED
    BY <1>5, <2>1, <2>3, <2>4
<1>12. CASE Dies
  <2>1. \A i : i \in lost' <=> \/ i \in lost
                               \/ \E t \in active : t.id = i
                               \/ \E w \in Threads : i \in recording[w]
    BY <1>12 DEF Dies
  <2>2. \A w \in Threads : recording'[w] = {}
    BY <1>12 DEF Dies
  <2>3. ASSUME NEW i PROVE InLedger(i)' <=> InLedger(i)
    BY <1>12, <2>1, <2>2 DEF Dies, InLedger
  <2>4. LedgerDisjoint'
    BY <1>12, <2>2 DEF Dies, LedgerDisjoint
  <2>5. QED
    BY <1>5, <1>12, <2>3, <2>4 DEF Dies
<1>13. QED
  BY <1>2, <1>6, <1>7, <1>8, <1>9, <1>10, <1>11, <1>12 DEF LedgerStep

\* The ledger invariant holds in every reachable state.
LEMMA LedgerInvariance == Spec => []LedgerInv
  BY InitLedger, StepLedger, PTL DEF Spec

\* A transmission is ended once, whatever end, moderation, membership change,
\* expiry or session sweep races to end it, and none that was announced as started
\* is forgotten, across restarts of the process.
THEOREM EachEndsOnce == Spec => []EndedExactlyOnce
<1>1. LedgerInv => EndedExactlyOnce
  <2> SUFFICES ASSUME LedgerInv, NEW i \in Ids
               PROVE LET isActive == \E t \in active : t.id = i
                     IN /\ isActive => Owed(i) = {} /\ i \notin ended \cup lost
                        /\ Cardinality(Owed(i)) <= 1
                        /\ Owed(i) # {} => i \notin ended \cup lost
                        /\ i \in started => isActive \/ Owed(i) # {} \/ i \in ended \cup lost
    BY DEF EndedExactlyOnce
  <2> DEFINE isActive == \E t \in active : t.id = i
  <2>1. isActive => Owed(i) = {} /\ i \notin ended \cup lost
    BY DEF LedgerInv, LedgerDisjoint, Owed
  <2>2. Cardinality(Owed(i)) <= 1
    <3>1. CASE Owed(i) = {}
      BY <3>1, FS_EmptySet
    <3>2. CASE Owed(i) # {}
      <4>1. PICK w \in Owed(i) : TRUE
        BY <3>2
      <4>2. Owed(i) = {w}
        BY <4>1 DEF Owed, LedgerInv, LedgerDisjoint
      <4>3. QED
        BY <4>2, FS_Singleton, SMTT(30)
    <3>3. QED
      BY <3>1, <3>2
  <2>3. Owed(i) # {} => i \notin ended \cup lost
    BY DEF LedgerInv, LedgerDisjoint, Owed
  <2>4. i \in started => isActive \/ Owed(i) # {} \/ i \in ended \cup lost
    BY DEF LedgerInv, StartedInLedger, InLedger, Owed
  <2>5. QED
    BY <2>1, <2>2, <2>3, <2>4
<1>2. QED
  BY LedgerInvariance, <1>1, PTL

-----------------------------------------------------------------------------
(* The rights LiveKit has handed out.  A right is covered by the transmission it
   was granted for, by a revocation some thread still owes, or by the failure or the
   restart that the last call about it was lost to. *)

Covered(r) ==
    \/ \E t \in active : Room(t) = r
    \/ \E w \in Threads : \E t \in revoking[w] : Room(t) = r
    \/ r \in strayRights

RightsInv == LedgerInv /\ RightsAreAccountedFor

\* Every step keeps the publication rights accounted for: a locked section that
\* takes transmissions out either revokes before it unlocks or owes the revocations.
LEMMA StepRights == RightsInv /\ [Next]_vars => RightsAreAccountedFor'
<1> SUFFICES ASSUME RightsInv, [Next]_vars PROVE RightsAreAccountedFor'
  OBVIOUS
<1>1. /\ revoking \in [Threads -> SUBSET Transmissions]
      /\ \A w \in Threads : pc[w] \notin AfterLock => revoking[w] = {}
      /\ Maintenance \in Threads /\ Workers \subseteq Threads
  BY DEF RightsInv, LedgerInv, TypeInv, TypeOK, NothingOwed, Threads
<1>2. \A r \in canPublish : Covered(r)
  BY DEF RightsInv, RightsAreAccountedFor, Covered
<1> SUFFICES \A r \in canPublish' : Covered(r)'
  BY DEF RightsAreAccountedFor, Covered
<1>3. ASSUME UNCHANGED <<canPublish, strayRights, active, revoking>>
      PROVE \A r \in canPublish' : Covered(r)'
  BY <1>2, <1>3 DEF Covered
<1>4. ASSUME NEW w \in Threads, NEW gone \in SUBSET active, TakeOut(w, gone, gone),
             revoking[w] = {}, UNCHANGED <<canPublish, strayRights>>
      PROVE \A r \in canPublish' : Covered(r)'
  <2>1. revoking'[w] = gone /\ \A v \in Threads \ {w} : revoking'[v] = revoking[v]
    BY <1>1, <1>4 DEF TakeOut
  <2>2. ASSUME NEW r, Covered(r) PROVE Covered(r)'
    BY <1>4, <2>1, <2>2 DEF Covered, TakeOut
  <2>3. QED
    BY <1>2, <1>4, <2>2
<1>5. ASSUME NEW w \in Workers, Activate(w)
      PROVE \A r \in canPublish' : Covered(r)'
  <2> DEFINE t == [held[w] EXCEPT !.node = memberships[held[w].player].node]
  <2>1. UNCHANGED revoking
    BY <1>5 DEF Activate, outcomeVars
  <2>2. CASE RoomServiceAnswers(t, canPublish \cup {Room(t)}) /\ active' = active \cup {t}
    <3> HIDE DEF t
    <3>1. QED
      BY <1>2, <2>1, <2>2 DEF RoomServiceAnswers, Covered
  <2>3. CASE RoomServiceFails(t, canPublish \cup {Room(t)}) /\ UNCHANGED active
    <3> HIDE DEF t
    <3>1. QED
      BY <1>2, <2>1, <2>3 DEF RoomServiceFails, Covered
  <2>4. QED
    BY <1>5, <2>2, <2>3 DEF Activate
<1>6. ASSUME NEW t, OnEnded(t),
             \A r : /\ r # Room(t) /\ Covered(r)
                    /\ r \in strayRights => r \in strayRights'
                    => Covered(r)'
      PROVE \A r \in canPublish' : Covered(r)'
  <2>1. CASE RoomServiceAnswers(t, canPublish \ {Room(t)})
    BY <1>2, <1>6, <2>1 DEF RoomServiceAnswers
  <2>2. CASE RoomServiceFails(t, canPublish \ {Room(t)})
    <3>1. ASSUME NEW r \in canPublish' PROVE Covered(r)'
      <4>1. CASE r = Room(t)
        BY <2>2, <4>1 DEF RoomServiceFails, Covered
      <4>2. CASE r # Room(t)
        BY <1>2, <1>6, <2>2, <3>1, <4>2 DEF RoomServiceFails
      <4>3. QED
        BY <4>1, <4>2
    <3>2. QED
      BY <3>1
  <2>3. QED
    BY <1>6, <2>1, <2>2 DEF OnEnded
<1>7. ASSUME NEW w \in Workers, NEW t \in active, EndLocked(w, t), pc[w] \notin AfterLock
      PROVE \A r \in canPublish' : Covered(r)'
  <2>1. ASSUME NEW r, r # Room(t), Covered(r), r \in strayRights => r \in strayRights'
        PROVE Covered(r)'
    BY <1>1, <1>7, <2>1 DEF EndLocked, TakeOut, Covered
  <2>2. QED
    BY <1>6, <1>7, <2>1 DEF EndLocked
<1>8. ASSUME NEW w \in Workers, End(w) \/ Interrupt(w)
      PROVE \A r \in canPublish' : Covered(r)'
  <2>1. pc[w] \notin AfterLock
    BY <1>8 DEF End, Interrupt, AfterLock
  <2>2. CASE \E t \in active : EndLocked(w, t)
    BY <1>7, <2>1, <2>2
  <2>3. CASE UNCHANGED <<clock, storeVars, nextId, livekitVars, auditVars, outcomeVars,
                         sweep, crashVars>>
    BY <1>3, <2>3 DEF storeVars, livekitVars, outcomeVars
  <2>4. QED
    BY <1>8, <2>2, <2>3 DEF End, Interrupt
<1>9. ASSUME NEW w \in Threads, NEW t \in revoking[w], NotifyEnded(w, t)
      PROVE \A r \in canPublish' : Covered(r)'
  <2>1. ASSUME NEW r, r # Room(t), Covered(r), r \in strayRights => r \in strayRights'
        PROVE Covered(r)'
    BY <1>1, <1>9, <2>1 DEF NotifyEnded, Covered, storeVars
  <2>2. QED
    BY <1>6, <1>9, <2>1 DEF NotifyEnded
<1>10. ASSUME NEW w \in Workers, NEW p \in Players, RemoveMembership(w, p)
       PROVE \A r \in canPublish' : Covered(r)'
  <2>1. revoking[w] = {} /\ w \in Threads /\ OfPlayer(p) \in SUBSET active
    BY <1>1, <1>10 DEF RemoveMembership, AfterLock, OfPlayer
  <2>2. QED
    BY <1>4, <1>10, <2>1 DEF RemoveMembership, livekitVars
<1>11. ASSUME NEW w \in Workers, NEW m \in Memberships, UpdateMembership(w, m)
       PROVE \A r \in canPublish' : Covered(r)'
  <2>1. /\ revoking[w] = {} /\ w \in Threads
        /\ OfPlayer(subject[w]) \in SUBSET active
        /\ UNCHANGED <<canPublish, strayRights>>
    BY <1>1, <1>11 DEF UpdateMembership, AfterLock, OfPlayer, livekitVars
  <2>2. CASE TakeOut(w, OfPlayer(subject[w]), OfPlayer(subject[w]))
    BY <1>4, <2>1, <2>2
  <2>3. CASE UNCHANGED <<memberships, active, outcomeVars>>
    BY <1>3, <2>1, <2>3 DEF outcomeVars
  <2>4. QED
    BY <1>11, <2>2, <2>3 DEF UpdateMembership
<1>12. CASE ExpireTimedOut
  <2> DEFINE overdue == {t \in active : TimedOut(t, clock)}
  <2>1. revoking[Maintenance] = {} /\ overdue \in SUBSET active
    BY <1>1, <1>12 DEF ExpireTimedOut, AfterLock
  <2>2. TakeOut(Maintenance, overdue, overdue) /\ UNCHANGED <<canPublish, strayRights>>
    BY <1>12 DEF ExpireTimedOut, livekitVars
  <2>3. QED
    BY <1>1, <1>4, <2>1, <2>2
<1>13. ASSUME NEW s \in Sessions, RemoveSession(s)
       PROVE \A r \in canPublish' : Covered(r)'
  <2>1. revoking[Maintenance] = {} /\ OfSession(s) \in SUBSET active
    BY <1>1, <1>13 DEF RemoveSession, AfterLock, OfSession
  <2>2. QED
    BY <1>1, <1>4, <1>13, <2>1 DEF RemoveSession, livekitVars
<1>14. CASE Restart
  <2>1. canPublish' = canPublish /\ strayRights \subseteq strayRights'
    BY <1>14 DEF Restart
  <2>2. \A t \in active : Room(t) \in strayRights'
    BY <1>14 DEF Restart
  <2>3. \A w \in Threads : \A t \in revoking[w] : Room(t) \in strayRights'
    <3>1. \A w \in Threads : \A t \in revoking[w] : t \in UNION {revoking[v] : v \in Threads}
      OBVIOUS
    <3>2. QED
      BY <1>14, <3>1 DEF Restart
  <2>4. QED
    BY <1>2, <2>1, <2>2, <2>3 DEF Covered
<1>15. CASE \/ \E s \in Sessions : CreateSession(s)
            \/ Tick
            \/ BeginSweep \/ EraseSession \/ EndRound
            \/ UNCHANGED vars
  BY <1>3, <1>15 DEF CreateSession, Tick, BeginSweep, EraseSession, EndRound, vars, storeVars,
                     livekitVars, outcomeVars
<1>16. ASSUME NEW w \in Workers,
              \/ \E s \in Sessions : StartCheck(w, s)
              \/ \E s \in Sessions, i \in Ids : EndCheck(w, s, i) \/ ModerateCheck(w, s, i)
              \/ \E p \in Players : ReplaceRead(w, p)
              \/ AuthorizeStart(w) \/ ActivateRejected(w) \/ RecordStarted(w) \/ Answer(w)
       PROVE \A r \in canPublish' : Covered(r)'
  BY <1>3, <1>16 DEF StartCheck, EndCheck, ModerateCheck, OpenRequest, ReplaceRead,
                     AuthorizeStart, ActivateRejected, RecordStarted, Answer, storeVars,
                     livekitVars, outcomeVars
<1>17. ASSUME NEW w \in Threads, NEW i \in recording[w], RecordEnded(w, i)
       PROVE \A r \in canPublish' : Covered(r)'
  BY <1>3, <1>17 DEF RecordEnded, storeVars, livekitVars
<1>18. QED
  BY <1>5, <1>8, <1>9, <1>10, <1>11, <1>12, <1>13, <1>14, <1>15, <1>16, <1>17
     DEF Next, Request, WorkerStep, AfterLockStep, MaintenanceStep

\* No interleaving of store calls leaks a publication right: whoever LiveKit lets
\* publish is transmitting or about to be revoked, or the last RoomService call about
\* this participant and room failed or was lost with the process.
THEOREM RightsAccounted == Spec => []RightsAreAccountedFor
<1>1. Init => RightsInv
  BY InitLedger DEF Init, RightsInv, RightsAreAccountedFor
<1>2. RightsInv /\ [Next]_vars => RightsInv'
  BY StepLedger, StepRights DEF RightsInv
<1>3. QED
  BY <1>1, <1>2, PTL DEF Spec, RightsInv

-----------------------------------------------------------------------------
(* The registry implements the floor.  How a step changes the registry
   (RegistrySteps) and how it changes the ledger (LedgerSteps) fit together: the
   step that adds a transmission is the one that spends an id, and no other is. *)

LEMMA IdsOf ==
    ASSUME NEW A, NEW r, NEW e, NEW l, NEW i
    PROVE  i \in {t.id : t \in A} \cup (UNION {r[w] : w \in Threads}) \cup e \cup l
           <=> (\E t \in A : t.id = i) \/ (\E w \in Threads : i \in r[w]) \/ i \in e \/ i \in l
<1>1. i \in UNION {r[w] : w \in Threads} <=> \E w \in Threads : i \in r[w]
  OBVIOUS
<1>2. i \in {t.id : t \in A} <=> \E t \in A : t.id = i
  OBVIOUS
<1> QED
  BY <1>1, <1>2

LEMMA SpentInLedger == \A i : i \in SpentIds <=> InLedger(i)
  BY IdsOf DEF SpentIds, InLedger

\* An id is spent when its transmission enters the registry; whoever ends the
\* transmission, records the end or dies moves the id to another place.
LEMMA SpentSteps ==
    ASSUME LedgerInv, LedgerStep
    PROVE  \/ active' \subseteq active /\ SpentIds' = SpentIds
           \/ \E t \in Transmissions :
                /\ active' = active \cup {t} /\ t.id \notin SpentIds
                /\ SpentIds' = SpentIds \cup {t.id}
<1>1. recording \in [Threads -> SUBSET Ids]
  BY DEF LedgerInv, TypeInv, TypeOK
<1>2. CASE LedgerSame \/ Generates \/ Announces
  BY <1>2 DEF LedgerSame, Generates, Announces, SpentIds
<1>3. CASE Begins
  <2>1. PICK w \in Threads, t \in Transmissions :
            /\ pc[w] = "authorized"
            /\ t.id = held[w].id
            /\ active' = active \cup {t}
            /\ UNCHANGED <<recording, ended, lost>>
    BY <1>3 DEF Begins
  <2>2. t.id \notin SpentIds
    BY <2>1, SpentInLedger DEF LedgerInv, FreshIds
  <2>3. SpentIds' = SpentIds \cup {t.id}
    BY <2>1 DEF SpentIds
  <2> QED
    BY <2>1, <2>2, <2>3
<1>4. CASE Ends
  <2>1. PICK w \in Threads, gone \in SUBSET active :
            /\ recording[w] = {}
            /\ active' = active \ gone
            /\ recording' = [recording EXCEPT ![w] = {t.id : t \in gone}]
            /\ UNCHANGED <<ended, lost>>
    BY <1>4 DEF Ends
  <2>2. /\ recording'[w] = {t.id : t \in gone}
        /\ \A v \in Threads \ {w} : recording'[v] = recording[v]
    BY <1>1, <2>1
  <2>3. SpentIds' = SpentIds
    BY <2>1, <2>2 DEF SpentIds
  <2> QED
    BY <2>1, <2>3
<1>5. CASE Records
  <2>1. PICK w \in Threads, j \in Ids :
            /\ j \in recording[w]
            /\ ended' = ended \cup {j}
            /\ recording' = [recording EXCEPT ![w] = @ \ {j}]
            /\ UNCHANGED <<active, lost>>
    BY <1>1, <1>5 DEF Records
  <2>2. /\ recording'[w] = recording[w] \ {j}
        /\ \A v \in Threads \ {w} : recording'[v] = recording[v]
    BY <1>1, <2>1
  <2>3. SpentIds' = SpentIds
    <3>1. \A i : i \in SpentIds <=> \/ \E t \in active : t.id = i
                                  \/ \E v \in Threads : i \in recording[v]
                                  \/ i \in ended \/ i \in lost
      BY IdsOf DEF SpentIds
    <3>2. \A i : i \in SpentIds' <=> \/ \E t \in active' : t.id = i
                                   \/ \E v \in Threads : i \in recording'[v]
                                   \/ i \in ended' \/ i \in lost'
      BY IdsOf DEF SpentIds
    <3>3. \A i : i \in SpentIds' <=> i \in SpentIds
      BY <2>1, <2>2, <3>1, <3>2
    <3> QED
      BY <3>3
  <2> QED
    BY <2>1, <2>3
<1>6. CASE Dies
  <2>1. /\ lost' = lost \cup {t.id : t \in active} \cup UNION {recording[w] : w \in Threads}
        /\ active' = {} /\ ended' = ended
        /\ \A w \in Threads : recording'[w] = {}
    BY <1>6 DEF Dies
  <2>2. SpentIds' = SpentIds
    <3>1. UNION {recording'[w] : w \in Threads} = {} /\ {t.id : t \in active'} = {}
      BY <2>1
    <3> QED
      BY <2>1, <3>1 DEF SpentIds
  <2> QED
    BY <2>1, <2>2
<1> QED
  BY <1>2, <1>3, <1>4, <1>5, <1>6 DEF LedgerStep

\* The control plane implements Floor, for any number of players, nodes, workers,
\* versions, failures and restarts: a transmission enters the registry once, on the
\* current membership and into a free slot (activate), and the step that changes a
\* membership takes the player's transmissions out (updateMembership, removeMembership).
THEOREM ControlPlaneIsFloor == Spec => IsFloor
<1> DEFINE floorVars == <<memberships, active, SpentIds>>
<1>1. Init => RegistryFloor!FloorInit
  BY DEF Init, RegistryFloor!FloorInit, SpentIds
<1>2. RegistryInv /\ LedgerInv /\ [Next]_vars => [RegistryFloor!FloorNext]_floorVars
  <2> SUFFICES ASSUME RegistryInv, LedgerInv, [Next]_vars
               PROVE  [RegistryFloor!FloorNext]_floorVars
    OBVIOUS
  <2>1. Shrinks \/ LosesPlayer \/ Gains
    BY RegistrySteps DEF RegistryInv
  <2>2. LedgerStep
    BY LedgerSteps DEF LedgerInv
  <2>3. \/ active' \subseteq active /\ SpentIds' = SpentIds
        \/ \E t \in Transmissions :
             /\ active' = active \cup {t} /\ t.id \notin SpentIds
             /\ SpentIds' = SpentIds \cup {t.id}
    BY <2>2, SpentSteps
  <2>4. active \subseteq Transmissions /\ \A t \in active : t.id \in SpentIds
    BY DEF RegistryInv, TypeInv, TypeOK, SpentIds
  <2>5. active' \subseteq active => SpentIds' = SpentIds
    BY <2>3, <2>4
  <2>6. CASE Shrinks
    <3>1. RegistryFloor!GiveBack
      BY <2>5, <2>6 DEF Shrinks, RegistryFloor!GiveBack
    <3> QED
      BY <3>1 DEF RegistryFloor!FloorNext
  <2>7. CASE LosesPlayer
    <3>1. PICK p \in Players :
              /\ active' = active \ OfPlayer(p)
              /\ \A q \in Players \ {p} : memberships'[q] = memberships[q]
              /\ \/ NoMembership \in {memberships[p], memberships'[p]}
                 \/ memberships'[p].version > memberships[p].version
      BY <2>7 DEF LosesPlayer
    <3>2. active' = {u \in active : u.player # p} /\ SpentIds' = SpentIds
      BY <2>5, <3>1 DEF OfPlayer
    <3>3. RegistryFloor!ChangeMembership(p)
      BY <3>1, <3>2 DEF RegistryFloor!ChangeMembership
    <3> QED
      BY <3>3 DEF RegistryFloor!FloorNext
  <2>8. CASE Gains
    <3>1. PICK t \in Transmissions :
              /\ active' = active \cup {t}
              /\ UNCHANGED memberships
              /\ memberships[t.player] # NoMembership
              /\ memberships[t.player].version = t.version
              /\ memberships[t.player].node = t.node
              /\ Cardinality(MatchingSpeakers(t.node)) < SpeakerLimit
              /\ \A u \in active : u.player # t.player
      BY <2>8 DEF Gains
    <3>2. t \notin active
      BY <3>1
    <3>3. t.id \notin SpentIds /\ SpentIds' = SpentIds \cup {t.id}
      BY <2>3, <3>1, <3>2
    <3>4. {u \in active : u.node = t.node} = MatchingSpeakers(t.node)
      <4>1. NoMembership.version = 0
        BY DEF NoMembership
      <4>2. \A u \in active : memberships[u.player].version # 0
        BY BoundAssumption DEF RegistryInv, ActiveOnCurrentMembership, TypeInv, TypeOK,
                               Transmissions
      <4>3. \A u \in active : HasMembership(u.player)
        BY <4>1, <4>2 DEF HasMembership
      <4> QED
        BY <4>3 DEF MatchingSpeakers, RegistryInv, ActiveOnCurrentMembership
    <3>5. Cardinality({u \in active : u.node = t.node}) < SpeakerLimit
      BY <3>1, <3>4
    <3>6. RegistryFloor!TakeFloor(t)
      BY <3>1, <3>3, <3>5 DEF RegistryFloor!TakeFloor, RegistryFloor!Cardinality, Cardinality
    <3> QED
      BY <3>1, <3>6 DEF RegistryFloor!FloorNext
  <2> QED
    BY <2>1, <2>6, <2>7, <2>8
<1> QED
  BY <1>1, <1>2, RegistryInvariance, LedgerInvariance, PTL
     DEF Spec, IsFloor, RegistryFloor!FloorSpec
=============================================================================
