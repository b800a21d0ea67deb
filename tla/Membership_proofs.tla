------------------------- MODULE Membership_proofs -------------------------
(***************************************************************************)
(* Proofs of the safety properties of Membership, for any numbers of       *)
(* clients, areas and hubs and any preferences.                            *)
(***************************************************************************)
EXTENDS Membership, SequenceTheorems, TLAPS

(***************************************************************************)
(* Sequences of activation records                                         *)
(***************************************************************************)

\* The record on top exists, and is an activation.
LEMMA TopIsFrame ==
  ASSUME TypeOK, ~Idle
  PROVE  /\ Len(frames) \in Nat /\ Len(frames) >= 1
         /\ Len(frames) \in 1 .. Len(frames)
         /\ Top \in Frame
         /\ Top.who \in Client /\ Top.to \in Area
         /\ Top.todo \subseteq Client /\ Top.follow \in Client \cup {None}
<1>1. frames \in Seq(Frame) /\ frames # << >>
  BY DEF TypeOK, Idle
<1>2. Len(frames) \in Nat \ {0}
  BY <1>1, EmptySeq
<1>3. Top \in Frame
  BY <1>1, <1>2, ElementOfSeq DEF Top
<1>. QED BY <1>2, <1>3 DEF Frame

\* Marking a follower as visited changes nothing but the top's todo.
LEMMA VisitedFrames ==
  ASSUME TypeOK, ~Idle, NEW f
  PROVE  /\ Visited(f) \in Seq(Frame)
         /\ Len(Visited(f)) = Len(frames)
         /\ \A i \in 1 .. Len(frames) :
              Visited(f)[i] = IF i = Len(frames)
                                THEN [Top EXCEPT !.todo = @ \ {f}]
                                ELSE frames[i]
<1> DEFINE top == [Top EXCEPT !.todo = @ \ {f}]
<1>1. frames \in Seq(Frame) /\ Len(frames) \in 1 .. Len(frames) /\ Top \in Frame
  BY TopIsFrame DEF TypeOK
<1>2. top \in Frame
  BY <1>1 DEF Frame
<1>3. Visited(f) = [frames EXCEPT ![Len(frames)] = top]
  BY <1>1 DEF Visited, Top
<1>. HIDE DEF top
<1>4. /\ [frames EXCEPT ![Len(frames)] = top] \in Seq(Frame)
      /\ Len([frames EXCEPT ![Len(frames)] = top]) = Len(frames)
      /\ \A j \in 1 .. Len(frames) :
           [frames EXCEPT ![Len(frames)] = top][j] = IF j = Len(frames) THEN top ELSE frames[j]
  BY <1>1, <1>2, ExceptSeq
<1>. QED BY <1>3, <1>4 DEF top

\* Returning drops the top.
LEMMA CallerFrames ==
  ASSUME TypeOK, ~Idle
  PROVE  /\ Caller \in Seq(Frame)
         /\ Len(Caller) = Len(frames) - 1
         /\ \A i \in 1 .. Len(Caller) : Caller[i] = frames[i]
<1>1. frames \in Seq(Frame) /\ Len(frames) \in Nat /\ Len(frames) >= 1
  BY TopIsFrame DEF TypeOK
<1>2. \A i \in 1 .. Len(frames) - 1 : frames[i] \in Frame
  BY <1>1, ElementOfSeq
<1>. DEFINE n == Len(frames) - 1
<1>3. /\ SubSeq(frames, 1, n) \in Seq(Frame)
      /\ Len(SubSeq(frames, 1, n)) = IF 1 <= n THEN n - 1 + 1 ELSE 0
      /\ \A i \in 1 .. n - 1 + 1 : SubSeq(frames, 1, n)[i] = frames[1 + i - 1]
  BY <1>1, <1>2, SubSeqProperties
<1>4. n \in Nat /\ n - 1 + 1 = n /\ (~ 1 <= n => n = 0)
  <2>1. \A m \in Nat : m >= 1 => /\ m - 1 \in Nat /\ m - 1 - 1 + 1 = m - 1
                                /\ (~ 1 <= m - 1 => m - 1 = 0)
    OBVIOUS
  <2>2. Len(frames) \in Nat /\ Len(frames) >= 1
    BY <1>1
  <2>3. QED BY <2>1, <2>2, Zenon
<1>5. Len(Caller) = n
  BY <1>3, <1>4, Zenon DEF Caller
<1>6. ASSUME NEW i \in 1 .. n
      PROVE  Caller[i] = frames[i]
  <2>1. i \in 1 .. n - 1 + 1 /\ 1 + i - 1 = i
    BY <1>1
  <2>. QED BY <2>1, <1>3, Zenon DEF Caller
<1>. QED BY <1>3, <1>5, <1>6 DEF Caller

-----------------------------------------------------------------------------
(***************************************************************************)
(* What set_area does                                                      *)
(***************************************************************************)

\* set_area keeps the client sets and the clients' areas in agreement.
LEMMA SetAreaPlaces ==
  ASSUME TypeOK, Placement,
         NEW c \in online, NEW to \in Area,
         NEW fol \in [Client -> Client \cup {None}], NEW spec \in SUBSET online,
         SetArea(fol, spec, c, to), online' = online
  PROVE  /\ area' = [area EXCEPT ![c] = to]
         /\ area' \in [Client -> Area]
         /\ clients' \in [Area -> SUBSET Client]
         /\ cms' \in [Area -> SUBSET Client]
         /\ gms' \in [Hub -> SUBSET Client]
         /\ following' \in [Client -> Client \cup {None}]
         /\ spectating' \subseteq online'
         /\ Placement'
<1>1. c \in Client
  BY DEF TypeOK
<1>2. area' = [area EXCEPT ![c] = to] /\ area' \in [Client -> Area]
  BY DEF SetArea, TypeOK
<1>3. clients' \in [Area -> SUBSET Client]
  BY <1>1 DEF SetArea, TypeOK, Entered
<1>4. cms' \in [Area -> SUBSET Client] /\ gms' \in [Hub -> SUBSET Client]
  BY DEF SetArea, TypeOK
<1>5. following' \in [Client -> Client \cup {None}]
  BY <1>1 DEF SetArea, KeepLeader
<1>6. spectating' \subseteq online'
  BY DEF SetArea
<1>7. Placement'
  BY <1>1, <1>2 DEF Placement, SetArea, Entered, TypeOK
<1>. QED BY <1>2, <1>3, <1>4, <1>5, <1>6, <1>7

\* set_area leaves no authority behind.
LEMMA SetAreaAuthority ==
  ASSUME TypeOK, Placement, AuthorityIsLocal, SingleCmIsPresent,
         NEW c \in online, NEW to \in Area,
         NEW fol \in [Client -> Client \cup {None}], NEW spec \in SUBSET online,
         SetArea(fol, spec, c, to), online' = online
  PROVE  /\ AuthorityIsLocal' /\ SingleCmIsPresent'
         /\ \A h \in Hub : gms'[h] \subseteq gms[h]
<1>1. c \in Client /\ \A x \in Client : area[x] \in Area
  BY DEF TypeOK
<1>2. area' = [area EXCEPT ![c] = to] /\ area' \in [Client -> Area]
  BY SetAreaPlaces
<1>3. \A h \in Hub : gms'[h] = IF LosesGm(c, h, to) THEN gms[h] \ {c} ELSE gms[h]
  BY DEF SetArea
<1>4. \A a \in Area : cms'[a] = IF LosesCm(c, a, to) THEN cms[a] \ {c} ELSE cms[a]
  BY DEF SetArea
<1>5. \A h \in Hub : \A d \in gms'[h] : d \in online' /\ ClientHub(d)' = h
  <2>. TAKE h \in Hub
  <2>. TAKE d \in gms'[h]
  <2>1. d \in gms[h] /\ d \in online /\ HubOf[area[d]] = h /\ d \in Client
    BY <1>3, ZenonT(40) DEF AuthorityIsLocal, ClientHub, TypeOK
  <2>2. CASE d # c
    BY <2>1, <2>2, <1>2 DEF ClientHub, TypeOK
  <2>3. CASE d = c
    BY <2>1, <2>3, <1>1, <1>2, <1>3 DEF ClientHub, LosesGm, TypeOK
  <2>. QED BY <2>2, <2>3
<1>6. \A a \in Area : \A d \in cms'[a] : d \in online' /\ ClientHub(d)' = HubOf[a]
  <2>. TAKE a \in Area
  <2>. TAKE d \in cms'[a]
  <2>1. d \in cms[a] /\ d \in online /\ HubOf[area[d]] = HubOf[a] /\ d \in Client
    BY <1>4, ZenonT(40) DEF AuthorityIsLocal, ClientHub, TypeOK
  <2>2. CASE d # c
    BY <2>1, <2>2, <1>2 DEF ClientHub, TypeOK
  <2>3. CASE d = c
    BY <2>1, <2>3, <1>1, <1>2, <1>4 DEF ClientHub, LosesCm, TypeOK
  <2>. QED BY <2>2, <2>3
<1>7. SingleCmIsPresent'
  <2>. SUFFICES ASSUME NEW a \in Area, HubOf[a] \in SingleCm, NEW d \in cms'[a]
                PROVE  area'[d] = a
    BY DEF SingleCmIsPresent
  <2>1. d \in cms[a] /\ area[d] = a /\ d \in Client
    BY <1>4 DEF SingleCmIsPresent, TypeOK
  <2>2. d # c
    BY <2>1, <1>4 DEF LosesCm
  <2>. QED BY <2>1, <2>2, <1>2 DEF TypeOK
<1>. QED BY <1>3, <1>5, <1>6, <1>7 DEF AuthorityIsLocal

-----------------------------------------------------------------------------
(***************************************************************************)
(* Types and places                                                        *)
(***************************************************************************)

\* Activations concern connected clients.
FramesOnline ==
  \A i \in 1 .. Len(frames) :
    /\ frames[i].who \in online /\ frames[i].todo \subseteq online
    /\ frames[i].follow \in online \cup {None}

PlaceInv == TypeOK /\ Placement /\ FramesOnline

\* A step that uses set_area.
Moving == \E c \in online, to \in Area, fol \in [Client -> Client \cup {None}],
             spec \in SUBSET online : SetArea(fol, spec, c, to)

\* Targets are connected clients of the hub.
LEMMA TargetsOnline ==
  ASSUME TypeOK, Placement, NEW c \in Client, NEW t \in Targets(c)
  PROVE  t \in online /\ t \in Client /\ ClientHub(t) = ClientHub(c)
BY DEF Targets, Placement, TypeOK, ClientHub

\* The follower visited is connected.
LEMMA VisitsOnline ==
  ASSUME PlaceInv, NEW f, Visits(f)
  PROVE  /\ ~Idle /\ f \in Top.todo /\ following[f] = Top.who
         /\ f \in online /\ f \in Client /\ Top.who \in online /\ Top.who \in Client
         /\ Top.to \in Area
<1>1. ~Idle
  BY DEF Visits
<1>2. Top = frames[Len(frames)] /\ Len(frames) \in 1 .. Len(frames) /\ Top \in Frame
  BY <1>1, TopIsFrame DEF PlaceInv, Top
<1>3. Top.todo \subseteq online /\ Top.who \in online
  BY <1>2 DEF PlaceInv, FramesOnline
<1>. QED BY <1>1, <1>2, <1>3 DEF PlaceInv, TypeOK, Frame, Visits

\* Every step of the system, seen from the places and the authorities.
LEMMA StepKinds ==
  ASSUME PlaceInv, Next
  PROVE  \/ UNCHANGED << online, area, clients, cms, gms >>
         \/ Moving /\ online' = online
         \/ \E c \in Client : Connect(c) \/ Disconnect(c)
         \/ \E c \in Client, granted \in SUBSET Client :
              GrantGm(c, granted) \/ GrantCm(c, granted)
         \/ \E c, t \in Client : RevokeGm(c, t) \/ RevokeCm(c, t)
<1>. USE DEF PlaceInv, TypeOK
<1>1. ASSUME NEW c \in Client, Handshake(c) \/ CharSelect(c) \/ Unfollow(c) \/ ShakeOff(c)
      PROVE  UNCHANGED << online, area, clients, cms, gms >>
  BY <1>1 DEF Handshake, CharSelect, Unfollow, ShakeOff
<1>2. ASSUME NEW c \in Client, SelectCharacter(c)
      PROVE  UNCHANGED << online, area, clients, cms, gms >> \/ (Moving /\ online' = online)
  BY <1>2 DEF SelectCharacter, Moving
<1>3. ASSUME NEW c \in Client, NEW to \in Area, ChangeArea(c, to)
      PROVE  Moving /\ online' = online
  BY <1>3 DEF ChangeArea, Moving
<1>4. ASSUME NEW c \in Client, NEW t \in Client, Follow(c, t)
      PROVE  UNCHANGED << online, area, clients, cms, gms >> \/ (Moving /\ online' = online)
  BY <1>4 DEF Follow, Moving
<1>5. ASSUME NEW c \in Client, NEW t \in Client, Free(c, t)
      PROVE  UNCHANGED << online, area, clients, cms, gms >>
  BY <1>5 DEF Free
<1>6. ASSUME NEW c \in Client, NEW t \in Client, ForceFollow(c, t)
      PROVE  UNCHANGED << online, area, clients, cms, gms >> \/ (Moving /\ online' = online)
  <2>1. t \in online
    BY <1>6, TargetsOnline DEF ForceFollow
  <2>2. [following EXCEPT ![t] = c] \in [Client -> Client \cup {None}]
    OBVIOUS
  <2>. QED BY <1>6, <2>1, <2>2 DEF ForceFollow, Moving
<1>7. ASSUME NEW c \in Client, NEW t \in Client, NEW to \in Area, Kick(c, t, to)
      PROVE  Moving /\ online' = online
  <2>1. t \in online
    BY <1>7, TargetsOnline DEF Kick
  <2>. QED BY <1>7, <2>1 DEF Kick, Moving
<1>8. ASSUME NEW f \in Client, LeaderLeftHub(f) \/ FollowerRefused(f) \/ FollowerFails(f)
      PROVE  UNCHANGED << online, area, clients, cms, gms >>
  BY <1>8 DEF LeaderLeftHub, FollowerRefused, FollowerFails, Return
<1>9. ASSUME NEW f \in Client, FollowerComes(f)
      PROVE  Moving /\ online' = online
  BY <1>9, VisitsOnline DEF FollowerComes, Moving
<1>10. ASSUME LoopEnds
       PROVE  UNCHANGED << online, area, clients, cms, gms >>
  BY <1>10 DEF LoopEnds, Return
<1>. QED BY <1>1, <1>2, <1>3, <1>4, <1>5, <1>6, <1>7, <1>8, <1>9, <1>10 DEF Next, Loop

\* Every step of the system, seen from the activations.
LEMMA FrameSteps ==
  ASSUME PlaceInv, Next
  PROVE  \/ Idle /\ frames' = frames
         \/ /\ Idle /\ online' = online
            /\ \E c \in online, to \in Area, t \in online \cup {None} :
                 frames' = << Call(c, to, t) >>
         \/ /\ online' = online
            /\ \E f \in Client :
                 /\ Visits(f)
                 /\ \/ frames' = Visited(f)
                    \/ /\ FollowerComes(f)
                       /\ frames' = Append(Visited(f), Call(f, Top.to, None))
         \/ ~Idle /\ online' = online /\ frames' = Caller
<1>. USE DEF PlaceInv, TypeOK
<1>1. ASSUME NEW c \in Client, \/ Connect(c) \/ Disconnect(c) \/ Handshake(c)
                               \/ CharSelect(c) \/ SelectCharacter(c)
                               \/ Unfollow(c) \/ ShakeOff(c)
      PROVE  Idle /\ frames' = frames
  BY <1>1 DEF Connect, Disconnect, Handshake, CharSelect, SelectCharacter, Unfollow, ShakeOff
<1>2. ASSUME NEW c \in Client, NEW t \in Client,
             Free(c, t) \/ ForceFollow(c, t) \/ RevokeGm(c, t) \/ RevokeCm(c, t)
      PROVE  Idle /\ frames' = frames
  BY <1>2 DEF Free, ForceFollow, RevokeGm, RevokeCm
<1>3. ASSUME NEW c \in Client, NEW t \in Client, NEW to \in Area, Kick(c, t, to)
      PROVE  Idle /\ frames' = frames
  BY <1>3 DEF Kick
<1>4. ASSUME NEW c \in Client, NEW granted \in SUBSET Client,
             GrantGm(c, granted) \/ GrantCm(c, granted)
      PROVE  Idle /\ frames' = frames
  BY <1>4 DEF GrantGm, GrantCm
<1>5. ASSUME NEW c \in Client, NEW to \in Area, ChangeArea(c, to)
      PROVE  /\ Idle /\ online' = online /\ c \in online
             /\ frames' = << Call(c, to, None) >>
  BY <1>5 DEF ChangeArea
<1>6. ASSUME NEW c \in Client, NEW t \in Client, Follow(c, t)
      PROVE  /\ Idle /\ online' = online /\ c \in online /\ t \in online
             /\ area[t] \in Area
             /\ frames' = frames \/ frames' = << Call(c, area[t], t) >>
  BY <1>6, TargetsOnline DEF Follow
<1>7. ASSUME NEW f \in Client, LeaderLeftHub(f) \/ FollowerComes(f) \/ FollowerRefused(f)
      PROVE  /\ online' = online /\ Visits(f)
             /\ \/ frames' = Visited(f)
                \/ /\ FollowerComes(f)
                   /\ frames' = Append(Visited(f), Call(f, Top.to, None))
  BY <1>7 DEF LeaderLeftHub, FollowerComes, FollowerRefused
<1>8. ASSUME NEW f \in Client, FollowerFails(f)
      PROVE  ~Idle /\ online' = online /\ frames' = Caller
  BY <1>8 DEF FollowerFails, Return, Visits
<1>9. ASSUME LoopEnds
      PROVE  ~Idle /\ online' = online /\ frames' = Caller
  BY <1>9 DEF LoopEnds, Return
<1>10. CASE \E c \in Client, to \in Area : ChangeArea(c, to)
  BY <1>5, <1>10
<1>11. CASE \E c, t \in Client : Follow(c, t)
  BY <1>6, <1>11
<1>12. CASE \E f \in Client : LeaderLeftHub(f) \/ FollowerComes(f) \/ FollowerRefused(f)
  BY <1>7, <1>12
<1>. QED BY <1>1, <1>2, <1>3, <1>4, <1>8, <1>9, <1>10, <1>11, <1>12 DEF Next, Loop

\* A call is an activation record, and a sequence of one or one more of them
\* is as one expects.
LEMMA CallFrames ==
  ASSUME PlaceInv, NEW c \in online, NEW to \in Area, NEW t \in online \cup {None}
  PROVE  /\ Call(c, to, t) \in Frame
         /\ << Call(c, to, t) >> \in Seq(Frame)
         /\ Len(<< Call(c, to, t) >>) = 1
         /\ << Call(c, to, t) >>[1] = Call(c, to, t)
         /\ \A s \in Seq(Frame) :
              /\ Append(s, Call(c, to, t)) \in Seq(Frame)
              /\ Len(Append(s, Call(c, to, t))) = Len(s) + 1
              /\ \A i \in 1 .. Len(s) : Append(s, Call(c, to, t))[i] = s[i]
              /\ Append(s, Call(c, to, t))[Len(s) + 1] = Call(c, to, t)
<1>1. Call(c, to, t) \in Frame
  BY DEF Call, Frame, PlaceInv, TypeOK
<1>2. << Call(c, to, t) >> \in Seq(Frame) /\ Len(<< Call(c, to, t) >>) = 1
      /\ << Call(c, to, t) >>[1] = Call(c, to, t)
  BY <1>1
<1>3. ASSUME NEW s \in Seq(Frame)
      PROVE  /\ Append(s, Call(c, to, t)) \in Seq(Frame)
             /\ Len(Append(s, Call(c, to, t))) = Len(s) + 1
             /\ \A i \in 1 .. Len(s) : Append(s, Call(c, to, t))[i] = s[i]
             /\ Append(s, Call(c, to, t))[Len(s) + 1] = Call(c, to, t)
  BY <1>1, <1>3, AppendProperties
<1>. QED BY <1>1, <1>2, <1>3

\* Activations stay activations of connected clients.
LEMMA FramesStayOnline ==
  ASSUME PlaceInv, Next
  PROVE  frames' \in Seq(Frame) /\ FramesOnline'
<1>1. CASE Idle /\ frames' = frames
  <2>1. frames' = << >> /\ << >> \in Seq(Frame) /\ Len(<< >>) = 0
    BY <1>1, EmptySeq DEF Idle
  <2>. QED BY <2>1 DEF FramesOnline
<1>2. ASSUME Idle, online' = online, NEW c \in online, NEW to \in Area,
             NEW t \in online \cup {None}, frames' = << Call(c, to, t) >>
      PROVE  frames' \in Seq(Frame) /\ FramesOnline'
  <2>1. frames' \in Seq(Frame) /\ Len(frames') = 1 /\ frames'[1] = Call(c, to, t)
    BY <1>2, CallFrames
  <2>2. /\ frames'[1].who \in online /\ frames'[1].todo \subseteq online
        /\ frames'[1].follow \in online \cup {None}
    BY <2>1 DEF Call
  <2>. QED BY <2>1, <2>2, <1>2 DEF FramesOnline
<1>3. ASSUME NEW f \in Client, Visits(f)
      PROVE  /\ Visited(f) \in Seq(Frame) /\ Len(Visited(f)) = Len(frames)
             /\ \A i \in 1 .. Len(frames) :
                  /\ Visited(f)[i].who \in online /\ Visited(f)[i].todo \subseteq online
                  /\ Visited(f)[i].follow \in online \cup {None}
  <2>1. ~Idle /\ TypeOK
    BY <1>3 DEF Visits, PlaceInv
  <2>2. /\ Visited(f) \in Seq(Frame) /\ Len(Visited(f)) = Len(frames)
        /\ \A i \in 1 .. Len(frames) : Visited(f)[i] = IF i = Len(frames)
                                THEN [Top EXCEPT !.todo = @ \ {f}]
                                ELSE frames[i]
    BY <2>1, VisitedFrames
  <2>3. /\ Top \in Frame /\ Top = frames[Len(frames)]
        /\ Len(frames) \in 1 .. Len(frames)
    BY <2>1, TopIsFrame DEF Top
  <2>4. /\ [Top EXCEPT !.todo = @ \ {f}].who \in online
        /\ [Top EXCEPT !.todo = @ \ {f}].todo \subseteq online
        /\ [Top EXCEPT !.todo = @ \ {f}].follow \in online \cup {None}
    BY <2>3 DEF PlaceInv, FramesOnline, Frame
  <2>. QED BY <2>2, <2>4 DEF PlaceInv, FramesOnline
<1>4. ASSUME online' = online, NEW f \in Client, Visits(f), frames' = Visited(f)
      PROVE  frames' \in Seq(Frame) /\ FramesOnline'
  BY <1>3, <1>4 DEF FramesOnline
<1>5. ASSUME online' = online, NEW f \in Client, Visits(f),
             frames' = Append(Visited(f), Call(f, Top.to, None))
      PROVE  frames' \in Seq(Frame) /\ FramesOnline'
  <2>1. f \in online /\ Top.to \in Area
    BY <1>5, VisitsOnline
  <2>2. /\ frames' \in Seq(Frame) /\ Len(frames') = Len(frames) + 1
        /\ \A i \in 1 .. Len(frames) : frames'[i] = Visited(f)[i]
        /\ frames'[Len(frames) + 1] = Call(f, Top.to, None)
    BY <1>3, <1>5, <2>1, CallFrames
  <2>3. /\ Call(f, Top.to, None).who \in online
        /\ Call(f, Top.to, None).todo \subseteq online
        /\ Call(f, Top.to, None).follow \in online \cup {None}
    BY <2>1 DEF Call
  <2>4. Len(frames) \in Nat
    BY <1>5, TopIsFrame DEF Visits, PlaceInv
  <2>5. \A i \in 1 .. Len(frames) + 1 : i = Len(frames) + 1 \/ i \in 1 .. Len(frames)
    BY <2>4
  <2>. QED BY <1>3, <1>5, <2>2, <2>3, <2>5 DEF FramesOnline
<1>6. CASE ~Idle /\ online' = online /\ frames' = Caller
  <2>1. /\ frames' \in Seq(Frame) /\ Len(frames') = Len(frames) - 1
        /\ \A i \in 1 .. Len(frames') : frames'[i] = frames[i]
    BY <1>6, CallerFrames DEF PlaceInv
  <2>2. Len(frames) \in Nat
    BY <1>6, TopIsFrame DEF PlaceInv
  <2>3. \A i \in 1 .. Len(frames') : i \in 1 .. Len(frames)
    BY <2>1, <2>2
  <2>. QED BY <1>6, <2>1, <2>3 DEF PlaceInv, FramesOnline
<1>. QED BY <1>1, <1>2, <1>4, <1>5, <1>6, FrameSteps

\* What is said of a client is said of a connected client.
LEMMA FlagsStayOnline ==
  ASSUME PlaceInv, Next
  PROVE  /\ online' \subseteq Client
         /\ checked' \subseteq online' /\ spectating' \subseteq online'
         /\ forced' \subseteq online'
         /\ following' \in [Client -> Client \cup {None}]
<1> DEFINE Goal == /\ online' \subseteq Client
                   /\ checked' \subseteq online' /\ spectating' \subseteq online'
                   /\ forced' \subseteq online'
                   /\ following' \in [Client -> Client \cup {None}]
<1>. USE DEF PlaceInv, TypeOK
<1>1. ASSUME NEW c \in Client, \/ Connect(c) \/ Disconnect(c) \/ Handshake(c)
                               \/ CharSelect(c) \/ Unfollow(c) \/ ShakeOff(c)
      PROVE  Goal
  BY <1>1 DEF Connect, Disconnect, Handshake, CharSelect, Unfollow, ShakeOff, FollowGone
<1>2. ASSUME NEW c \in Client, NEW to \in Area, NEW fol \in [Client -> Client \cup {None}],
             NEW spec \in SUBSET online, c \in online, SetArea(fol, spec, c, to),
             online' = online
      PROVE  /\ spectating' \subseteq online'
             /\ following' \in [Client -> Client \cup {None}]
  BY <1>2, SetAreaPlaces
<1>3. ASSUME NEW c \in Client, SelectCharacter(c)
      PROVE  Goal
  <2>1. c \in online /\ online' = online /\ checked' = checked /\ forced' = forced
    BY <1>3 DEF SelectCharacter
  <2>2. spectating \ {c} \in SUBSET online
    OBVIOUS
  <2>3. CASE spectating' = spectating \ {c} /\ following' = following
    BY <2>1, <2>2, <2>3
  <2>4. CASE \E a \in Area : SetArea(following, spectating \ {c}, c, a)
    BY <1>2, <2>1, <2>2, <2>4
  <2>. QED BY <1>3, <2>3, <2>4 DEF SelectCharacter
<1>4. ASSUME NEW c \in Client, NEW to \in Area, ChangeArea(c, to)
      PROVE  Goal
  BY <1>2, <1>4 DEF ChangeArea
<1>5. ASSUME NEW c \in Client, NEW t \in Client, Follow(c, t)
      PROVE  Goal
  BY <1>2, <1>5 DEF Follow
<1>6. ASSUME NEW c \in Client, NEW t \in Client,
             Free(c, t) \/ RevokeGm(c, t) \/ RevokeCm(c, t)
      PROVE  Goal
  BY <1>6 DEF Free, RevokeGm, RevokeCm
<1>7. ASSUME NEW c \in Client, NEW t \in Client, ForceFollow(c, t)
      PROVE  Goal
  <2>1. t \in online
    BY <1>7, TargetsOnline DEF ForceFollow
  <2>. QED BY <1>2, <1>7, <2>1 DEF ForceFollow
<1>8. ASSUME NEW c \in Client, NEW t \in Client, NEW to \in Area, Kick(c, t, to)
      PROVE  Goal
  <2>1. t \in online
    BY <1>8, TargetsOnline DEF Kick
  <2>. QED BY <1>2, <1>8, <2>1 DEF Kick
<1>9. ASSUME NEW c \in Client, NEW granted \in SUBSET Client,
             GrantGm(c, granted) \/ GrantCm(c, granted)
      PROVE  Goal
  BY <1>9 DEF GrantGm, GrantCm
<1>10. ASSUME NEW f \in Client, LeaderLeftHub(f) \/ FollowerRefused(f)
       PROVE  Goal
  BY <1>10 DEF LeaderLeftHub, FollowerRefused
<1>11. ASSUME NEW f \in Client, FollowerComes(f)
       PROVE  Goal
  <2>1. f \in online /\ Top.to \in Area
    BY <1>11, VisitsOnline DEF FollowerComes
  <2>. QED BY <1>2, <1>11, <2>1 DEF FollowerComes
<1>12. ASSUME NEW fol \in [Client -> Client \cup {None}], ~Idle, Return(fol)
       PROVE  Goal
  BY <1>12, TopIsFrame DEF Return
<1>13. ASSUME NEW f \in Client, FollowerFails(f)
       PROVE  Goal
  BY <1>12, <1>13 DEF FollowerFails, Visits
<1>14. ASSUME LoopEnds
       PROVE  Goal
  BY <1>12, <1>14 DEF LoopEnds
<1>. QED BY <1>1, <1>3, <1>4, <1>5, <1>6, <1>7, <1>8, <1>9, <1>10, <1>11, <1>13, <1>14
         DEF Next, Loop

\* Types and places are kept by every step.
LEMMA PlaceStep ==
  ASSUME PlaceInv, Next
  PROVE  PlaceInv'
<1> DEFINE Placed == /\ area' \in [Client -> Area]
                     /\ clients' \in [Area -> SUBSET Client]
                     /\ cms' \in [Area -> SUBSET Client]
                     /\ gms' \in [Hub -> SUBSET Client]
                     /\ Placement'
<1>1. Placed
  <2>. USE DEF PlaceInv, TypeOK
  <2>1. CASE UNCHANGED << online, area, clients, cms, gms >>
    BY <2>1 DEF Placement
  <2>2. CASE Moving /\ online' = online
    BY <2>2, SetAreaPlaces DEF Moving
  <2>3. ASSUME NEW c \in Client, Connect(c) \/ Disconnect(c)
        PROVE  Placed
    <3>1. DefaultArea[DefaultHub] \in Area
      BY TopologyAssumption
    <3>2. CASE Connect(c)
      BY <3>1, <3>2 DEF Connect, Placement
    <3>3. CASE Disconnect(c)
      BY <3>3 DEF Disconnect, Placement, CmsLeft, ClientHub
    <3>. QED BY <2>3, <3>2, <3>3
  <2>4. ASSUME NEW c \in Client, NEW granted \in SUBSET Client,
               GrantGm(c, granted) \/ GrantCm(c, granted)
        PROVE  Placed
    <3>1. CASE GrantGm(c, granted)
      BY <3>1 DEF GrantGm, Placement
    <3>2. CASE GrantCm(c, granted)
      BY <3>2 DEF GrantCm, Placement
    <3>. QED BY <2>4, <3>1, <3>2
  <2>5. ASSUME NEW c \in Client, NEW t \in Client, RevokeGm(c, t) \/ RevokeCm(c, t)
        PROVE  Placed
    <3>1. CASE RevokeGm(c, t)
      BY <3>1 DEF RevokeGm, Placement
    <3>2. CASE RevokeCm(c, t)
      BY <3>2 DEF RevokeCm, Placement
    <3>. QED BY <2>5, <3>1, <3>2
  <2>. QED BY <2>1, <2>2, <2>3, <2>4, <2>5, StepKinds
<1>2. frames' \in Seq(Frame) /\ FramesOnline'
  BY FramesStayOnline
<1>. QED BY <1>1, <1>2, FlagsStayOnline DEF PlaceInv, TypeOK

LEMMA PlaceInit == Init => PlaceInv
<1>1. << >> \in Seq(Frame) /\ Len(<< >>) = 0
  BY EmptySeq
<1>2. DefaultArea[DefaultHub] \in Area
  BY TopologyAssumption
<1>. QED BY <1>1, <1>2 DEF Init, PlaceInv, TypeOK, Placement, FramesOnline

LEMMA PlaceStutter == PlaceInv /\ UNCHANGED vars => PlaceInv'
BY DEF PlaceInv, TypeOK, Placement, FramesOnline, vars

\* Every variable keeps its type, and flags, authority over activations and
\* the following relation speak of connected clients only.
THEOREM TypesAlways == Spec => [](TypeOK /\ FramesOnline)
<1>1. PlaceInv /\ [Next]_vars => PlaceInv'
  BY PlaceStep, PlaceStutter
<1>2. Spec => []PlaceInv
  BY PlaceInit, <1>1, PTL DEF Spec
<1>. QED BY <1>2, PTL DEF PlaceInv

\* The registered clients, the areas' client sets and the clients' own area
\* agree after any history of moves, kicks and disconnects.
THEOREM PlacementAlways == Spec => []Placement
<1>1. PlaceInv /\ [Next]_vars => PlaceInv'
  BY PlaceStep, PlaceStutter
<1>2. Spec => []PlaceInv
  BY PlaceInit, <1>1, PTL DEF Spec
<1>. QED BY <1>2, PTL DEF PlaceInv

-----------------------------------------------------------------------------
(***************************************************************************)
(* Authority                                                               *)
(***************************************************************************)

AuthInv == PlaceInv /\ AuthorityIsLocal /\ SingleCmIsPresent

\* Authority stays in its hub, whatever the step.
LEMMA AuthStep ==
  ASSUME AuthInv, Next
  PROVE  AuthInv'
<1>0. PlaceInv' /\ PlaceInv
  BY PlaceStep DEF AuthInv
<1>. USE DEF AuthInv, PlaceInv, TypeOK
<1> DEFINE Goal == AuthorityIsLocal' /\ SingleCmIsPresent'
<1>1. ASSUME UNCHANGED << online, area, clients, cms, gms >>
      PROVE  Goal
  BY <1>1 DEF AuthorityIsLocal, SingleCmIsPresent, ClientHub
<1>2. ASSUME Moving /\ online' = online
      PROVE  Goal
  BY <1>2, SetAreaAuthority DEF Moving
<1>3. ASSUME NEW c \in Client, Connect(c)
      PROVE  Goal
  <2>1. c \notin online /\ \A d \in Client : d # c => area'[d] = area[d]
    BY <1>3 DEF Connect
  <2>2. online \subseteq online' /\ gms' = gms /\ cms' = cms
    BY <1>3 DEF Connect
  <2>3. AuthorityIsLocal'
    BY <2>1, <2>2 DEF AuthorityIsLocal, ClientHub
  <2>4. SingleCmIsPresent'
    BY <2>1, <2>2 DEF AuthorityIsLocal, SingleCmIsPresent
  <2>. QED BY <2>3, <2>4
<1>4. ASSUME NEW c \in Client, Disconnect(c)
      PROVE  Goal
  <2>1. /\ online' = online \ {c} /\ area' = area
        /\ gms' = [gms EXCEPT ![ClientHub(c)] = @ \ {c}]
        /\ cms' = [a \in Area |-> cms[a] \ {c}]
    BY <1>4 DEF Disconnect, CmsLeft
  <2>2. \A h \in Hub : \A d \in gms'[h] : d \in gms[h] /\ d # c
    BY <2>1, TopologyAssumption DEF AuthorityIsLocal, ClientHub
  <2>3. \A a \in Area : \A d \in cms'[a] : d \in cms[a] /\ d # c
    BY <2>1
  <2>. QED BY <2>1, <2>2, <2>3 DEF AuthorityIsLocal, SingleCmIsPresent, ClientHub
<1>5. ASSUME NEW c \in Client, NEW granted \in SUBSET Client, GrantGm(c, granted)
      PROVE  Goal
  <2>1. \A t \in granted : t \in online /\ ClientHub(t) = ClientHub(c)
    BY <1>5, TargetsOnline DEF GrantGm
  <2>2. /\ online' = online /\ area' = area /\ cms' = cms
        /\ gms' = [gms EXCEPT ![ClientHub(c)] = @ \cup granted]
    BY <1>5 DEF GrantGm
  <2>. QED BY <2>1, <2>2 DEF AuthorityIsLocal, SingleCmIsPresent, ClientHub
<1>6. ASSUME NEW c \in Client, NEW granted \in SUBSET Client, GrantCm(c, granted)
      PROVE  Goal
  <2>1. \A t \in granted : t \in online /\ area[t] = area[c]
    BY <1>6 DEF GrantCm, Placement
  <2>2. /\ online' = online /\ area' = area /\ gms' = gms
        /\ cms' = [cms EXCEPT ![area[c]] = @ \cup granted]
    BY <1>6 DEF GrantCm
  <2>. QED BY <2>1, <2>2 DEF AuthorityIsLocal, SingleCmIsPresent, ClientHub
<1>7. ASSUME NEW c \in Client, NEW t \in Client, RevokeGm(c, t)
      PROVE  Goal
  BY <1>7 DEF RevokeGm, AuthorityIsLocal, SingleCmIsPresent, ClientHub
<1>8. ASSUME NEW c \in Client, NEW t \in Client, RevokeCm(c, t)
      PROVE  Goal
  BY <1>8 DEF RevokeCm, AuthorityIsLocal, SingleCmIsPresent, ClientHub
<1>9. Goal
  BY <1>0, <1>1, <1>2, <1>3, <1>4, <1>5, <1>6, <1>7, <1>8, StepKinds
<1>. QED BY <1>0, <1>9

LEMMA AuthInit == Init => AuthInv
BY PlaceInit DEF Init, AuthInv, AuthorityIsLocal, SingleCmIsPresent

LEMMA AuthStutter == AuthInv /\ UNCHANGED vars => AuthInv'
BY PlaceStutter DEF AuthInv, AuthorityIsLocal, SingleCmIsPresent, ClientHub, vars

LEMMA AuthAlways == Spec => []AuthInv
<1>1. AuthInv /\ [Next]_vars => AuthInv'
  BY AuthStep, AuthStutter
<1>. QED BY AuthInit, <1>1, PTL DEF Spec

\* No way out of a hub, and no disconnect, leaves GM or CM rights behind.
THEOREM AuthorityAlwaysLocal == Spec => []AuthorityIsLocal
BY AuthAlways, PTL DEF AuthInv

\* A CM of a single_cm hub is always in the one area it is CM of.
THEOREM SingleCmAlwaysPresent == Spec => []SingleCmIsPresent
BY AuthAlways, PTL DEF AuthInv

\* The GMs of a hub grow by /gm only.
LEMMA GmsGrow ==
  ASSUME AuthInv, Next
  PROVE  \/ \A h \in Hub : gms'[h] \subseteq gms[h]
         \/ \E c \in Client, granted \in SUBSET Client : GrantGm(c, granted)
<1>. USE DEF AuthInv, PlaceInv, TypeOK
<1>1. CASE Moving /\ online' = online
  BY <1>1, SetAreaAuthority DEF Moving
<1>2. ASSUME NEW c \in Client, Connect(c) \/ Disconnect(c)
      PROVE  \A h \in Hub : gms'[h] \subseteq gms[h]
  BY <1>2 DEF Connect, Disconnect
<1>3. ASSUME NEW c \in Client, NEW granted \in SUBSET Client, GrantCm(c, granted)
      PROVE  gms' = gms
  BY <1>3 DEF GrantCm
<1>4. ASSUME NEW c \in Client, NEW t \in Client, RevokeGm(c, t) \/ RevokeCm(c, t)
      PROVE  \A h \in Hub : gms'[h] \subseteq gms[h]
  BY <1>4 DEF RevokeGm, RevokeCm
<1>. QED BY <1>1, <1>2, <1>3, <1>4, StepKinds

\* /gm looks at every connection from the address of those it promotes.
LEMMA OneHubStep ==
  ASSUME AuthInv, OneHubPerPerson, Next
  PROVE  OneHubPerPerson'
<1>. USE DEF AuthInv, PlaceInv, TypeOK
<1>1. CASE \A h \in Hub : gms'[h] \subseteq gms[h]
  BY <1>1 DEF OneHubPerPerson
<1>2. ASSUME NEW k \in Client, NEW granted \in SUBSET Client, GrantGm(k, granted)
      PROVE  OneHubPerPerson'
  <2>1. \A t \in granted : t \in online /\ ClientHub(t) = ClientHub(k)
    BY <1>2, TargetsOnline DEF GrantGm
  <2>2. \A h \in Hub : gms'[h] = IF h = ClientHub(k) THEN gms[h] \cup granted ELSE gms[h]
    BY <1>2 DEF GrantGm
  <2>3. ASSUME NEW t \in granted, NEW h \in Hub, NEW d \in gms[h], IpidOf[d] = IpidOf[t]
        PROVE  h = ClientHub(k)
    <3>1. d \in online /\ ClientHub(d) = h
      BY DEF AuthorityIsLocal
    <3>2. d \in Multiclients(t) /\ IsGm(d)
      BY <3>1, <2>3 DEF Multiclients, IsGm
    <3>3. ~GmElsewhere(t)
      BY <1>2 DEF GrantGm
    <3>. QED BY <3>1, <3>2, <3>3, <2>1 DEF GmElsewhere
  <2>. SUFFICES ASSUME NEW g \in Hub, NEW h \in Hub, NEW c \in gms'[g], NEW d \in gms'[h],
                       IpidOf[c] = IpidOf[d]
                PROVE  g = h
    BY DEF OneHubPerPerson
  <2>4. CASE c \in gms[g] /\ d \in gms[h]
    BY <2>4 DEF OneHubPerPerson
  <2>5. CASE c \in gms[g] /\ d \notin gms[h]
    BY <2>2, <2>3, <2>5
  <2>6. CASE c \notin gms[g] /\ d \in gms[h]
    BY <2>2, <2>3, <2>6
  <2>7. CASE c \notin gms[g] /\ d \notin gms[h]
    BY <2>2, <2>7
  <2>. QED BY <2>4, <2>5, <2>6, <2>7
<1>. QED BY <1>1, <1>2, GmsGrow

\* Nobody ever is GM of two hubs through connections from one address.
THEOREM OneHubAlways == Spec => []OneHubPerPerson
<1>1. Init => AuthInv /\ OneHubPerPerson
  BY AuthInit DEF Init, OneHubPerPerson
<1>2. (AuthInv /\ OneHubPerPerson) /\ UNCHANGED vars => (AuthInv /\ OneHubPerPerson)'
  BY AuthStutter DEF OneHubPerPerson, vars
<1>3. (AuthInv /\ OneHubPerPerson) /\ [Next]_vars => (AuthInv /\ OneHubPerPerson)'
  BY AuthStep, OneHubStep, <1>2
<1>. QED BY <1>1, <1>3, PTL DEF Spec

-----------------------------------------------------------------------------
(***************************************************************************)
(* Following                                                               *)
(***************************************************************************)

\* Followers and leaders are connected, and nobody follows itself.
FollowTyped ==
  \A f \in Client : following[f] # None =>
    f \in online /\ following[f] \in online /\ following[f] # f

\* All activations lead to one area, and those who move have arrived there;
\* so has the one /follow is about.
FramesShareTo ==
  \A i \in 1 .. Len(frames) :
    /\ frames[i].to = frames[1].to
    /\ area[frames[i].who] = frames[i].to
    /\ frames[i].follow # None => /\ frames[i].follow # frames[i].who
                                  /\ area[frames[i].follow] = frames[i].to

\* The leader of f is in another hub.
HubGap(f) == following[f] # None /\ ClientHub(f) # ClientHub(following[f])

\* This is so only while the loop over the followers of a client that has
\* just changed hub goes on, and for those it has not come to ...
GapsPending ==
  \A f \in Client : HubGap(f) =>
    /\ Len(frames) = 1
    /\ following[f] = frames[1].who
    /\ f \in frames[1].todo

\* ... and then for all of those.
GapsTogether ==
  \A f \in Client : HubGap(f) =>
    \A g \in frames[1].todo : following[g] = following[f] => HubGap(g)

FollowInv == PlaceInv /\ FollowTyped /\ FramesShareTo /\ GapsPending /\ GapsTogether

\* After set_area the only leader in another hub can be the client that moved.
LEMMA MoveGaps ==
  ASSUME PlaceInv, NEW c \in online, NEW to \in Area,
         NEW fol \in [Client -> Client \cup {None}], NEW spec \in SUBSET online,
         \A f \in Client : fol[f] # None =>
           f \in online /\ fol[f] \in online /\ fol[f] # f,
         \A f \in Client : fol[f] # None /\ f # c => ClientHub(f) = ClientHub(fol[f]),
         SetArea(fol, spec, c, to), online' = online
  PROVE  /\ FollowTyped'
         /\ \A f \in Client : f # c => following'[f] = fol[f]
         /\ area' = [area EXCEPT ![c] = to]
         /\ \A f \in Client : HubGap(f)' =>
              f # c /\ following'[f] = c /\ HubOf[to] # ClientHub(c)
<1>1. c \in Client /\ area' = [area EXCEPT ![c] = to] /\ area \in [Client -> Area]
  BY SetAreaPlaces DEF PlaceInv, TypeOK
<1>2. following' = IF fol[c] \in clients[to] THEN fol ELSE [fol EXCEPT ![c] = None]
  BY DEF SetArea, KeepLeader
<1>3. FollowTyped'
  BY <1>1, <1>2 DEF FollowTyped
<1>4. \A f \in Client : f # c => following'[f] = fol[f]
  BY <1>2
<1>5. following'[c] # None => area'[following'[c]] = to
  <2>. HAVE following'[c] # None
  <2>1. fol[c] = following'[c] /\ fol[c] \in clients[to] /\ fol[c] # c /\ fol[c] \in Client
    BY <1>1, <1>2
  <2>2. area[fol[c]] = to
    BY <2>1 DEF PlaceInv, Placement
  <2>. QED BY <1>1, <2>1, <2>2
<1>6. \A f \in Client : HubGap(f)' => f # c /\ following'[f] = c /\ HubOf[to] # ClientHub(c)
  <2>. SUFFICES ASSUME NEW f \in Client, HubGap(f)'
                PROVE  f # c /\ following'[f] = c /\ HubOf[to] # ClientHub(c)
    OBVIOUS
  <2>1. following'[f] # None /\ HubOf[area'[f]] # HubOf[area'[following'[f]]]
    BY DEF HubGap, ClientHub
  <2>2. f # c
    BY <1>1, <1>5, <2>1
  <2>3. fol[f] # None /\ following'[f] = fol[f] /\ fol[f] \in Client
    BY <1>4, <2>1, <2>2
  <2>4. HubOf[area[f]] = HubOf[area[fol[f]]] /\ area'[f] = area[f]
    BY <1>1, <2>2, <2>3 DEF ClientHub
  <2>5. fol[f] = c
    BY <1>1, <2>1, <2>3, <2>4
  <2>. QED BY <1>1, <2>1, <2>2, <2>3, <2>4, <2>5 DEF ClientHub
<1>. QED BY <1>1, <1>3, <1>4, <1>6

\* Nobody's leader is in another hub between handlers, ...
LEMMA IdleNoGaps ==
  ASSUME FollowInv, Idle
  PROVE  \A f \in Client : ~HubGap(f)
<1>1. Len(<< >>) = 0
  BY EmptySeq
<1>2. Len(frames) = 0 /\ 0 # 1
  BY <1>1 DEF Idle
<1>3. Len(frames) # 1
  BY <1>2, Zenon
<1>. QED BY <1>3, Zenon DEF FollowInv, GapsPending

\* ... nor in a cascade that stays in its hub, ...
LEMMA SameHubNoGaps ==
  ASSUME FollowInv, NEW f \in Client, Visits(f), ClientHub(f) = ClientHub(Top.who)
  PROVE  \A g \in Client : ~HubGap(g)
<1>. SUFFICES ASSUME NEW g \in Client, HubGap(g) PROVE FALSE
  OBVIOUS
<1>1. Len(frames) = 1 /\ following[g] = frames[1].who
  BY DEF FollowInv, GapsPending
<1>2. f \in frames[1].todo /\ following[f] = following[g] /\ Top = frames[1]
  BY <1>1 DEF Visits, Top
<1>3. HubGap(f)
  BY <1>2 DEF FollowInv, GapsTogether
<1>. QED BY <1>1, <1>2, <1>3 DEF HubGap

\* ... nor when the loop over the followers is through.
LEMMA LoopDoneNoGaps ==
  ASSUME FollowInv, LoopDone
  PROVE  \A g \in Client : ~HubGap(g)
<1>. SUFFICES ASSUME NEW g \in Client, HubGap(g) PROVE FALSE
  OBVIOUS
<1>1. Len(frames) = 1 /\ following[g] = frames[1].who /\ g \in frames[1].todo
  BY DEF FollowInv, GapsPending
<1>. QED BY <1>1 DEF LoopDone, Followers, Top

LEMMA NoGapsIsPending ==
  ASSUME PlaceInv', FollowTyped', FramesShareTo', \A f \in Client : ~HubGap(f)'
  PROVE  FollowInv'
BY DEF FollowInv, GapsPending, GapsTogether

\* With no activation around nothing is to be said of them.
LEMMA EmptyFrames ==
  ASSUME frames' = << >>
  PROVE  FramesShareTo'
BY EmptySeq DEF FramesShareTo

\* Steps that move nobody and make nobody follow.
LEMMA StillStep ==
  ASSUME FollowInv, PlaceInv', Idle, frames' = frames, area' = area,
         online' = online,
         \A f \in Client : following'[f] \in {following[f], None}
  PROVE  FollowInv'
<1>1. \A f \in Client : ~HubGap(f)
  BY IdleNoGaps
<1>2. FollowTyped'
  BY DEF FollowInv, FollowTyped
<1>3. \A f \in Client : ~HubGap(f)'
  BY <1>1 DEF HubGap, ClientHub
<1>4. FramesShareTo'
  BY EmptyFrames DEF Idle
<1>. QED BY <1>2, <1>3, <1>4, NoGapsIsPending

\* Steps of an idle server that move one client within its hub.
LEMMA HubMoveStep ==
  ASSUME FollowInv, PlaceInv', Idle, frames' = frames, online' = online,
         NEW c \in online, NEW to \in Area,
         NEW fol \in [Client -> Client \cup {None}], NEW spec \in SUBSET online,
         \A f \in Client : f # c => fol[f] = following[f],
         fol[c] # None => fol[c] \in online /\ fol[c] # c,
         HubOf[to] = ClientHub(c),
         SetArea(fol, spec, c, to)
  PROVE  FollowInv'
<1>. USE DEF FollowInv
<1>1. \A f \in Client : ~HubGap(f)
  BY IdleNoGaps
<1>2. c \in Client
  BY DEF PlaceInv, TypeOK
<1>3. \A f \in Client : fol[f] # None => f \in online /\ fol[f] \in online /\ fol[f] # f
  BY <1>2 DEF FollowTyped
<1>4. \A f \in Client : fol[f] # None /\ f # c => ClientHub(f) = ClientHub(fol[f])
  BY <1>1 DEF HubGap
<1>5. FollowTyped' /\ \A f \in Client : ~HubGap(f)'
  BY <1>3, <1>4, MoveGaps
<1>6. FramesShareTo'
  BY EmptyFrames DEF Idle
<1>. QED BY <1>5, <1>6, NoGapsIsPending

\* What happens to the leaders when somebody connects or leaves.
LEMMA ConnectionStep ==
  ASSUME FollowInv, PlaceInv', NEW c \in Client, Connect(c) \/ Disconnect(c)
  PROVE  FollowInv'
<1>1. \A f \in Client : ~HubGap(f)
  BY IdleNoGaps DEF Connect, Disconnect
<1>. USE DEF FollowInv
<1>2. frames' = << >>
  BY DEF Connect, Disconnect, Idle
<1>3. CASE Connect(c)
  <2>1. /\ following' = following /\ c \notin online /\ online \subseteq online'
        /\ \A f \in Client : f # c => area'[f] = area[f]
    BY <1>3 DEF Connect, PlaceInv, TypeOK
  <2>2. \A f \in Client : following[f] # None => f # c /\ following[f] # c
    BY <2>1 DEF FollowTyped
  <2>3. FollowTyped'
    BY <2>1 DEF FollowTyped
  <2>4. \A f \in Client : following[f] # None => following[f] \in Client
    BY DEF PlaceInv, TypeOK
  <2>5. \A f \in Client : ~HubGap(f)'
    BY <1>1, <2>1, <2>2, <2>4 DEF HubGap, ClientHub
  <2>. QED BY <1>2, <2>3, <2>5, EmptyFrames, NoGapsIsPending
<1>4. CASE Disconnect(c)
  <2>1. /\ online' = online \ {c} /\ area' = area
        /\ \A f \in Client : following'[f] = IF following[f] = c \/ f = c
                                              THEN None ELSE following[f]
    BY <1>4 DEF Disconnect, FollowGone
  <2>2. FollowTyped'
    BY <2>1 DEF FollowTyped
  <2>3. \A f \in Client : ~HubGap(f)'
    BY <1>1, <2>1 DEF HubGap, ClientHub
  <2>. QED BY <1>2, <2>2, <2>3, EmptyFrames, NoGapsIsPending
<1>. QED BY <1>3, <1>4

\* The first activation.
LEMMA CallStep ==
  ASSUME FollowInv, PlaceInv', Idle, online' = online,
         NEW c \in online, NEW to \in Area, NEW t \in online \cup {None},
         SetArea(following, spectating, c, to),
         t # None => t # c /\ area[t] = to,
         frames' = << Call(c, to, t) >>
  PROVE  FollowInv'
<1>. USE DEF FollowInv
<1>1. \A f \in Client : ~HubGap(f)
  BY IdleNoGaps
<1>2. c \in Client /\ following \in [Client -> Client \cup {None}] /\ spectating \in SUBSET online
      /\ area \in [Client -> Area] /\ online \subseteq Client
  BY DEF PlaceInv, TypeOK
<1>3. \A f \in Client : following[f] # None =>
        f \in online /\ following[f] \in online /\ following[f] # f
  BY DEF FollowTyped
<1>4. \A f \in Client : following[f] # None /\ f # c => ClientHub(f) = ClientHub(following[f])
  BY <1>1 DEF HubGap
<1>5. /\ FollowTyped'
      /\ \A f \in Client : f # c => following'[f] = following[f]
      /\ area' = [area EXCEPT ![c] = to]
      /\ \A f \in Client : HubGap(f)' =>
           f # c /\ following'[f] = c /\ HubOf[to] # ClientHub(c)
  BY <1>2, <1>3, <1>4, MoveGaps
<1>6. Len(frames') = 1 /\ frames'[1] = Call(c, to, t)
  BY CallFrames
<1>7. /\ frames'[1].who = c /\ frames'[1].to = to /\ frames'[1].todo = online
      /\ frames'[1].follow = t
  BY <1>6 DEF Call
<1>8. FramesShareTo'
  <2>1. area'[c] = to
    BY <1>2, <1>5
  <2>2. t # None => t # c /\ area'[t] = to
    BY <1>2, <1>5
  <2>. QED BY <1>6, <1>7, <2>1, <2>2 DEF FramesShareTo
<1>9. GapsPending'
  <2>. SUFFICES ASSUME NEW f \in Client, HubGap(f)'
                PROVE  /\ Len(frames') = 1 /\ following'[f] = frames'[1].who
                       /\ f \in frames'[1].todo
    BY DEF GapsPending
  <2>1. f # c /\ following'[f] = c /\ c # None
    BY <1>2, <1>5, ClientAssumption
  <2>. QED BY <1>3, <1>5, <1>6, <1>7, <2>1
<1>10. GapsTogether'
  <2>. SUFFICES ASSUME NEW f \in Client, HubGap(f)',
                       NEW g \in online, following'[g] = following'[f]
                PROVE  HubGap(g)'
    BY <1>7 DEF GapsTogether
  <2>1. following'[g] = c /\ HubOf[to] # ClientHub(c) /\ g \in Client
    BY <1>2, <1>5
  <2>2. g # c
    BY <1>2, <1>5, <2>1, ClientAssumption DEF FollowTyped
  <2>3. following[g] = c /\ c # None
    BY <1>2, <1>5, <2>1, <2>2, ClientAssumption
  <2>4. HubOf[area[g]] = HubOf[area[c]]
    BY <1>4, <2>1, <2>2, <2>3 DEF ClientHub
  <2>5. area'[g] = area[g] /\ area'[c] = to
    BY <1>2, <1>5, <2>1, <2>2
  <2>. QED BY <2>1, <2>3, <2>4, <2>5 DEF HubGap, ClientHub
<1>. QED BY <1>5, <1>8, <1>9, <1>10

\* Marking a follower as visited keeps what the activations say.
LEMMA VisitedShareTo ==
  ASSUME FollowInv, NEW f \in Client, Visits(f)
  PROVE  /\ Len(Visited(f)) = Len(frames) /\ Len(frames) \in 1 .. Len(frames)
         /\ 1 \in 1 .. Len(frames)
         /\ \A i \in 1 .. Len(frames) :
              /\ Visited(f)[i].who = frames[i].who
              /\ Visited(f)[i].to = frames[i].to
              /\ Visited(f)[i].follow = frames[i].follow
              /\ \A g \in frames[i].todo : g # f => g \in Visited(f)[i].todo
              /\ Visited(f)[i].todo \subseteq frames[i].todo
<1>1. ~Idle /\ TypeOK
  BY DEF Visits, FollowInv, PlaceInv
<1>2. /\ Len(Visited(f)) = Len(frames) /\ Top \in Frame
      /\ Len(frames) \in 1 .. Len(frames) /\ Len(frames) \in Nat /\ Len(frames) >= 1
      /\ \A i \in 1 .. Len(frames) : Visited(f)[i] = IF i = Len(frames)
                                THEN [Top EXCEPT !.todo = @ \ {f}]
                                ELSE frames[i]
  BY <1>1, VisitedFrames, TopIsFrame
<1>3. Top = frames[Len(frames)]
  BY DEF Top
<1>4. /\ [Top EXCEPT !.todo = @ \ {f}].who = Top.who
      /\ [Top EXCEPT !.todo = @ \ {f}].to = Top.to
      /\ [Top EXCEPT !.todo = @ \ {f}].follow = Top.follow
      /\ [Top EXCEPT !.todo = @ \ {f}].todo = Top.todo \ {f}
  BY <1>2 DEF Frame
<1>5. 1 \in 1 .. Len(frames)
  BY <1>2
<1>. QED BY <1>2, <1>3, <1>4, <1>5

LEMMA LeaderLeftHubStep ==
  ASSUME FollowInv, PlaceInv', NEW f \in Client, LeaderLeftHub(f)
  PROVE  FollowInv'
<1>. USE DEF FollowInv
<1>1. /\ Visits(f) /\ frames' = Visited(f) /\ area' = area /\ online' = online
      /\ following' = [following EXCEPT ![f] = None]
      /\ following \in [Client -> Client \cup {None}]
  BY DEF LeaderLeftHub, PlaceInv, TypeOK
<1>2. \A g \in Client : following'[g] = IF g = f THEN None ELSE following[g]
  BY <1>1
<1>3. FollowTyped'
  BY <1>1, <1>2 DEF FollowTyped
<1>4. FramesShareTo'
  BY <1>1, VisitedShareTo DEF FramesShareTo
<1>5. \A g \in Client : HubGap(g)' => HubGap(g) /\ g # f /\ following'[g] = following[g]
  BY <1>1, <1>2 DEF HubGap, ClientHub
<1>6. GapsPending'
  BY <1>1, <1>5, VisitedShareTo DEF GapsPending
<1>7. GapsTogether'
  <2>. SUFFICES ASSUME NEW g \in Client, HubGap(g)', NEW h \in frames'[1].todo,
                       following'[h] = following'[g]
                PROVE  HubGap(h)'
    BY DEF GapsTogether
  <2>1. HubGap(g) /\ following'[g] = following[g] /\ following[g] # None
    BY <1>5 DEF HubGap
  <2>2. h \in frames[1].todo
    BY <1>1, VisitedShareTo
  <2>3. frames[1].todo \subseteq online /\ online \subseteq Client
    BY <1>1, VisitedShareTo DEF PlaceInv, FramesOnline, TypeOK
  <2>4. h \in Client /\ following[h] = following[g]
    BY <1>2, <2>1, <2>2, <2>3
  <2>5. HubGap(h)
    BY <2>1, <2>2, <2>4 DEF GapsTogether
  <2>. QED BY <1>1, <2>1, <2>4, <2>5 DEF HubGap, ClientHub
<1>. QED BY <1>3, <1>4, <1>6, <1>7

LEMMA FollowerRefusedStep ==
  ASSUME FollowInv, PlaceInv', NEW f \in Client, FollowerRefused(f)
  PROVE  FollowInv'
<1>1. /\ Visits(f) /\ frames' = Visited(f) /\ area' = area /\ online' = online
      /\ following' = following /\ ClientHub(f) = ClientHub(Top.who)
  BY DEF FollowerRefused
<1>2. \A g \in Client : ~HubGap(g)
  BY <1>1, SameHubNoGaps
<1>3. FollowTyped' /\ \A g \in Client : ~HubGap(g)'
  BY <1>1, <1>2 DEF FollowInv, FollowTyped, HubGap, ClientHub
<1>4. FramesShareTo'
  BY <1>1, VisitedShareTo DEF FollowInv, FramesShareTo
<1>. QED BY <1>3, <1>4, NoGapsIsPending

LEMMA FollowerComesStep ==
  ASSUME FollowInv, PlaceInv', NEW f \in Client, FollowerComes(f)
  PROVE  FollowInv'
<1>1. /\ Visits(f) /\ online' = online /\ ClientHub(f) = ClientHub(Top.who)
      /\ SetArea(following, spectating, f, Top.to)
      /\ frames' = Append(Visited(f), Call(f, Top.to, None))
  BY DEF FollowerComes
<1>2. \A g \in Client : ~HubGap(g)
  BY <1>1, SameHubNoGaps
<1>. USE DEF FollowInv
<1>3. /\ f \in online /\ Top.to \in Area /\ ~Idle
      /\ following \in [Client -> Client \cup {None}] /\ spectating \in SUBSET online
      /\ area \in [Client -> Area] /\ online \subseteq Client
  BY <1>1, VisitsOnline DEF PlaceInv, TypeOK
<1>4. Len(frames) \in 1 .. Len(frames) /\ 1 \in 1 .. Len(frames) /\ Len(frames) \in Nat
  BY <1>1, <1>3, VisitedShareTo, TopIsFrame DEF PlaceInv
<1>5. Top.to = frames[1].to /\ HubOf[Top.to] = ClientHub(f)
  BY <1>1, <1>4 DEF FramesShareTo, Top, ClientHub
<1>6. \A g \in Client : following[g] # None => /\ g \in online /\ following[g] \in online
                                               /\ following[g] # g
                                               /\ ClientHub(g) = ClientHub(following[g])
  BY <1>2 DEF FollowTyped, HubGap
<1>7. /\ FollowTyped' /\ area' = [area EXCEPT ![f] = Top.to]
      /\ \A g \in Client : ~HubGap(g)'
  BY <1>1, <1>3, <1>5, <1>6, MoveGaps
<1>8. Visited(f) \in Seq(Frame) /\ Len(Visited(f)) = Len(frames)
  BY <1>3, VisitedFrames DEF PlaceInv
<1>9. /\ Len(frames') = Len(frames) + 1
      /\ \A i \in 1 .. Len(frames) : frames'[i] = Visited(f)[i]
      /\ frames'[Len(frames) + 1] = Call(f, Top.to, None)
  BY <1>1, <1>3, <1>8, CallFrames
<1>10. FramesShareTo'
  <2>1. \A i \in 1 .. Len(frames) + 1 : i = Len(frames) + 1 \/ i \in 1 .. Len(frames)
    BY <1>4
  <2>2. \A i \in 1 .. Len(frames) : /\ frames'[i].to = Top.to
                                    /\ frames'[i].who = frames[i].who
                                    /\ frames'[i].follow = frames[i].follow
    BY <1>1, <1>5, <1>9, VisitedShareTo DEF FramesShareTo
  <2>3. \A i \in 1 .. Len(frames) :
          /\ frames[i].who \in Client /\ area[frames[i].who] = Top.to
          /\ frames[i].follow # None => /\ frames[i].follow # frames[i].who
                                        /\ frames[i].follow \in Client
                                        /\ area[frames[i].follow] = Top.to
    BY <1>3, <1>5 DEF FramesShareTo, PlaceInv, FramesOnline
  <2>4. \A c \in Client : area[c] = Top.to => area'[c] = Top.to
    BY <1>3, <1>7
  <2>5. /\ frames'[Len(frames) + 1].to = Top.to /\ frames'[Len(frames) + 1].who = f
        /\ frames'[Len(frames) + 1].follow = None /\ area'[f] = Top.to
    BY <1>3, <1>7, <1>9 DEF Call
  <2>6. frames'[1].to = Top.to
    BY <1>4, <2>2
  <2>. QED BY <1>9, <2>1, <2>2, <2>3, <2>4, <2>5, <2>6 DEF FramesShareTo
<1>. QED BY <1>7, <1>10, NoGapsIsPending

\* change_area returns when no leader is in another hub; so does /follow,
\* which then records a leader that is in the area it led to.
LEMMA ReturnStep ==
  ASSUME FollowInv, PlaceInv', ~Idle, area' = area, online' = online,
         \A g \in Client : ~HubGap(g),
         NEW fol \in [Client -> Client \cup {None}],
         \A g \in Client : fol[g] \in {following[g], None},
         Return(fol)
  PROVE  FollowInv'
<1>. USE DEF FollowInv
<1>1. /\ Len(frames) \in 1 .. Len(frames) /\ Len(frames) \in Nat /\ Len(frames) >= 1
      /\ Top.who \in Client
  BY TopIsFrame DEF PlaceInv
<1>2. /\ Len(frames') = Len(frames) - 1
      /\ \A i \in 1 .. Len(frames') : frames'[i] = frames[i]
  BY CallerFrames DEF PlaceInv, Return
<1>3. \A g \in Client :
        following'[g] = IF g = Top.who /\ Top.follow # None THEN Top.follow ELSE fol[g]
  BY <1>1 DEF Return
<1>4. /\ Top.who \in online
      /\ Top.follow # None => /\ Top.follow \in online /\ Top.follow # Top.who
                              /\ area[Top.follow] = area[Top.who]
  BY <1>1 DEF FramesShareTo, PlaceInv, FramesOnline, Top
<1>5. FollowTyped'
  BY <1>3, <1>4 DEF FollowTyped
<1>6. \A g \in Client : ~HubGap(g)'
  BY <1>3, <1>4 DEF HubGap, ClientHub
<1>7. FramesShareTo'
  <2>1. \A i \in 1 .. Len(frames') : i \in 1 .. Len(frames) /\ 1 \in 1 .. Len(frames')
    BY <1>1, <1>2
  <2>2. \A i \in 1 .. Len(frames') : frames'[i] = frames[i] /\ frames'[1] = frames[1]
    BY <1>2, <2>1
  <2>. QED BY <2>1, <2>2 DEF FramesShareTo
<1>. QED BY <1>5, <1>6, <1>7, NoGapsIsPending

\* /follow
LEMMA FollowCommandStep ==
  ASSUME FollowInv, PlaceInv', NEW c \in Client, NEW t \in Client, Follow(c, t)
  PROVE  FollowInv'
<1>1. /\ Idle /\ c \in online /\ t \in online /\ t # c /\ ClientHub(t) = ClientHub(c)
      /\ online' = online /\ area[t] \in Area
  BY TargetsOnline DEF Follow, FollowInv, PlaceInv, TypeOK
<1>2. CASE SetArea(following, spectating, c, area[t]) /\ frames' = << Call(c, area[t], t) >>
  BY <1>1, <1>2, CallStep
<1>3. CASE /\ area[c] = area[t] /\ following' = [following EXCEPT ![c] = t]
           /\ area' = area /\ frames' = frames
  <2>1. \A g \in Client : following'[g] = IF g = c THEN t ELSE following[g]
    BY <1>3 DEF FollowInv, PlaceInv, TypeOK
  <2>2. \A g \in Client : ~HubGap(g)
    BY <1>1, IdleNoGaps
  <2>3. FollowTyped' /\ \A g \in Client : ~HubGap(g)'
    BY <1>1, <1>3, <2>1, <2>2 DEF FollowInv, FollowTyped, HubGap, ClientHub
  <2>4. FramesShareTo'
    BY <1>1, <1>3, EmptyFrames DEF Idle
  <2>. QED BY <2>3, <2>4, NoGapsIsPending
<1>. QED BY <1>2, <1>3 DEF Follow

\* /force_follow
LEMMA ForceFollowStep ==
  ASSUME FollowInv, PlaceInv', NEW c \in Client, NEW t \in Client, ForceFollow(c, t)
  PROVE  FollowInv'
<1> DEFINE fol == [following EXCEPT ![t] = c]
<1>1. /\ Idle /\ c \in online /\ t \in online /\ t # c /\ ClientHub(t) = ClientHub(c)
      /\ online' = online /\ frames' = frames /\ area[c] \in Area
      /\ spectating \in SUBSET online
  BY TargetsOnline DEF ForceFollow, FollowInv, PlaceInv, TypeOK
<1>2. /\ fol \in [Client -> Client \cup {None}] /\ fol[t] = c
      /\ \A g \in Client : g # t => fol[g] = following[g]
  BY DEF FollowInv, PlaceInv, TypeOK
<1>3. CASE SetArea(fol, spectating, t, area[c])
  <2>1. HubOf[area[c]] = ClientHub(t)
    BY <1>1 DEF ClientHub
  <2>. HIDE DEF fol
  <2>. QED BY <1>1, <1>2, <1>3, <2>1, HubMoveStep
<1>4. CASE area[t] = area[c] /\ following' = fol /\ area' = area
  <2>2. \A g \in Client : ~HubGap(g)
    BY <1>1, IdleNoGaps
  <2>3. FollowTyped' /\ \A g \in Client : ~HubGap(g)'
    BY <1>1, <1>2, <1>4, <2>2 DEF FollowInv, FollowTyped, HubGap, ClientHub
  <2>4. FramesShareTo'
    BY <1>1, EmptyFrames DEF Idle
  <2>. QED BY <2>3, <2>4, NoGapsIsPending
<1>. QED BY <1>3, <1>4 DEF ForceFollow

LEMMA FollowStep ==
  ASSUME FollowInv, Next
  PROVE  FollowInv'
<1>0. PlaceInv /\ PlaceInv'
  BY PlaceStep DEF FollowInv
<1>1. ASSUME NEW c \in Client, Connect(c) \/ Disconnect(c)
      PROVE  FollowInv'
  BY <1>0, <1>1, ConnectionStep
<1>2. ASSUME NEW c \in Client, Handshake(c) \/ CharSelect(c)
      PROVE  FollowInv'
  BY <1>0, <1>2, StillStep DEF Handshake, CharSelect
<1>3. ASSUME NEW c \in Client, Unfollow(c) \/ ShakeOff(c)
      PROVE  FollowInv'
  <2>1. \A f \in Client : following'[f] \in {following[f], None}
    BY <1>0, <1>3 DEF Unfollow, ShakeOff, PlaceInv, TypeOK
  <2>. QED BY <1>0, <1>3, <2>1, StillStep DEF Unfollow, ShakeOff
<1>4. ASSUME NEW c \in Client, NEW t \in Client,
             Free(c, t) \/ RevokeGm(c, t) \/ RevokeCm(c, t)
      PROVE  FollowInv'
  <2>1. \A f \in Client : following'[f] \in {following[f], None}
    BY <1>0, <1>4 DEF Free, RevokeGm, RevokeCm, PlaceInv, TypeOK
  <2>. QED BY <1>0, <1>4, <2>1, StillStep DEF Free, RevokeGm, RevokeCm
<1>5. ASSUME NEW c \in Client, NEW granted \in SUBSET Client,
             GrantGm(c, granted) \/ GrantCm(c, granted)
      PROVE  FollowInv'
  BY <1>0, <1>5, StillStep DEF GrantGm, GrantCm
<1>6. ASSUME NEW c \in Client, SelectCharacter(c)
      PROVE  FollowInv'
  <2>1. /\ Idle /\ frames' = frames /\ online' = online /\ c \in online
        /\ spectating \ {c} \in SUBSET online
        /\ following \in [Client -> Client \cup {None}]
        /\ following[c] # None => following[c] \in online /\ following[c] # c
    BY <1>6 DEF SelectCharacter, FollowInv, PlaceInv, TypeOK, FollowTyped
  <2>2. CASE area' = area /\ following' = following
    BY <1>0, <2>1, <2>2, StillStep
  <2>3. ASSUME NEW a \in Area, HubOf[a] = ClientHub(c),
               SetArea(following, spectating \ {c}, c, a)
        PROVE  FollowInv'
    BY <1>0, <2>1, <2>3, HubMoveStep
  <2>. QED BY <1>6, <2>2, <2>3 DEF SelectCharacter
<1>7. ASSUME NEW c \in Client, NEW to \in Area, ChangeArea(c, to)
      PROVE  FollowInv'
  <2>1. c \in online
    BY <1>0, <1>7 DEF ChangeArea, PlaceInv, TypeOK
  <2>. QED BY <1>0, <1>7, <2>1, CallStep DEF ChangeArea
<1>8. ASSUME NEW c \in Client, NEW t \in Client, Follow(c, t) \/ ForceFollow(c, t)
      PROVE  FollowInv'
  BY <1>0, <1>8, FollowCommandStep, ForceFollowStep
<1>9. ASSUME NEW c \in Client, NEW t \in Client, NEW to \in Area, Kick(c, t, to)
      PROVE  FollowInv'
  <2>1. t \in online /\ ClientHub(t) = ClientHub(c)
    BY <1>0, <1>9, TargetsOnline DEF Kick, PlaceInv
  <2>2. /\ Idle /\ frames' = frames /\ online' = online /\ HubOf[to] = ClientHub(t)
        /\ SetArea(following, spectating, t, to)
        /\ spectating \in SUBSET online
        /\ following \in [Client -> Client \cup {None}]
        /\ following[t] # None => following[t] \in online /\ following[t] # t
    BY <1>9, <2>1 DEF Kick, FollowInv, PlaceInv, TypeOK, FollowTyped
  <2>. QED BY <1>0, <2>1, <2>2, HubMoveStep
<1>10. ASSUME NEW f \in Client, LeaderLeftHub(f) \/ FollowerComes(f) \/ FollowerRefused(f)
       PROVE  FollowInv'
  BY <1>0, <1>10, LeaderLeftHubStep, FollowerComesStep, FollowerRefusedStep
<1>11. ASSUME NEW f \in Client, FollowerFails(f)
       PROVE  FollowInv'
  <2>1. /\ Visits(f) /\ ClientHub(f) = ClientHub(Top.who)
        /\ Return([following EXCEPT ![f] = None]) /\ ~Idle
        /\ area' = area /\ online' = online
    BY <1>11 DEF FollowerFails, Return, Visits
  <2>2. \A g \in Client : ~HubGap(g)
    BY <2>1, SameHubNoGaps
  <2>3. /\ [following EXCEPT ![f] = None] \in [Client -> Client \cup {None}]
        /\ \A g \in Client : [following EXCEPT ![f] = None][g] \in {following[g], None}
    BY DEF FollowInv, PlaceInv, TypeOK
  <2>. QED BY <1>0, <2>1, <2>2, <2>3, ReturnStep
<1>12. ASSUME LoopEnds
       PROVE  FollowInv'
  <2>1. \A g \in Client : ~HubGap(g)
    BY <1>12, LoopDoneNoGaps DEF LoopEnds
  <2>2. following \in [Client -> Client \cup {None}]
    BY DEF FollowInv, PlaceInv, TypeOK
  <2>. QED BY <1>0, <1>12, <2>1, <2>2, ReturnStep DEF LoopEnds, Return
<1>. QED BY <1>1, <1>2, <1>3, <1>4, <1>5, <1>6, <1>7, <1>8, <1>9, <1>10, <1>11, <1>12
         DEF Next, Loop

LEMMA FollowInit == Init => FollowInv
<1>. SUFFICES ASSUME Init PROVE FollowInv
  OBVIOUS
<1>1. Len(<< >>) = 0
  BY EmptySeq
<1>2. PlaceInv
  BY PlaceInit
<1>3. FollowTyped /\ \A f \in Client : ~HubGap(f)
  BY DEF Init, FollowTyped, HubGap
<1>4. FramesShareTo
  BY <1>1 DEF Init, FramesShareTo
<1>. QED BY <1>2, <1>3, <1>4 DEF FollowInv, GapsPending, GapsTogether

LEMMA FollowStutter == FollowInv /\ UNCHANGED vars => FollowInv'
<1>. SUFFICES ASSUME FollowInv, UNCHANGED vars PROVE FollowInv'
  OBVIOUS
<1>1. PlaceInv'
  BY PlaceStutter DEF FollowInv
<1>2. FollowTyped' /\ FramesShareTo'
  BY DEF FollowInv, FollowTyped, FramesShareTo, vars
<1>3. GapsPending' /\ GapsTogether'
  BY DEF FollowInv, GapsPending, GapsTogether, HubGap, ClientHub, vars
<1>. QED BY <1>1, <1>2, <1>3 DEF FollowInv

LEMMA FollowAlways == Spec => []FollowInv
<1>1. FollowInv /\ [Next]_vars => FollowInv'
  BY FollowStep, FollowStutter
<1>. QED BY FollowInit, <1>1, PTL DEF Spec

\* Between handlers a follower and its leader are connected and in one hub.
THEOREM FollowAlwaysWithinHub == Spec => []FollowWithinHub
<1>1. FollowInv => FollowWithinHub
  <2>. SUFFICES ASSUME FollowInv, Idle PROVE FollowWithinHub
    BY DEF FollowWithinHub
  <2>1. \A f \in Client : ~HubGap(f)
    BY IdleNoGaps
  <2>. QED BY <2>1 DEF FollowWithinHub, FollowInv, FollowTyped, HubGap
<1>. QED BY <1>1, FollowAlways, PTL

\* A client that gets in was not there, as all those who move already are.
LEMMA MovesOnceStep ==
  ASSUME FollowInv, MovesOnce, Next
  PROVE  MovesOnce'
<1>. USE DEF FollowInv
<1>1. CASE Idle /\ frames' = frames
  BY <1>1 DEF MovesOnce
<1>2. ASSUME NEW c \in online, NEW to \in Area, NEW t \in online \cup {None},
             frames' = << Call(c, to, t) >>
      PROVE  MovesOnce'
  <2>1. Len(frames') = 1
    BY <1>2, CallFrames
  <2>. QED BY <2>1 DEF MovesOnce
<1>3. ASSUME NEW f \in Client, Visits(f), frames' = Visited(f)
      PROVE  MovesOnce'
  BY <1>3, VisitedShareTo DEF MovesOnce
<1>4. ASSUME NEW f \in Client, FollowerComes(f)
      PROVE  MovesOnce'
  <2>1. /\ Visits(f) /\ frames' = Append(Visited(f), Call(f, Top.to, None))
        /\ area[f] # Top.to /\ ~Idle
    BY <1>4 DEF FollowerComes, MayEnter, Visits
  <2>2. f \in online /\ Top.to \in Area /\ Len(frames) \in Nat
    BY <2>1, VisitsOnline, TopIsFrame DEF PlaceInv
  <2>3. Visited(f) \in Seq(Frame) /\ Len(Visited(f)) = Len(frames)
    BY <2>1, VisitedFrames DEF PlaceInv
  <2>4. /\ Len(frames') = Len(frames) + 1
        /\ \A i \in 1 .. Len(frames) : frames'[i] = Visited(f)[i]
        /\ frames'[Len(frames) + 1].who = f
    BY <2>1, <2>2, <2>3, CallFrames DEF Call
  <2>5. \A i \in 1 .. Len(frames) : frames'[i].who = frames[i].who /\ frames[i].who # f
    BY <2>1, <2>4, VisitedShareTo DEF FramesShareTo, Top
  <2>6. \A i \in 1 .. Len(frames) + 1 : i = Len(frames) + 1 \/ i \in 1 .. Len(frames)
    BY <2>2
  <2>. QED BY <2>4, <2>5, <2>6 DEF MovesOnce
<1>5. CASE ~Idle /\ frames' = Caller
  <2>1. /\ Len(frames') = Len(frames) - 1 /\ Len(frames) \in Nat
        /\ \A i \in 1 .. Len(frames') : frames'[i] = frames[i]
    BY <1>5, CallerFrames, TopIsFrame DEF PlaceInv
  <2>2. \A i \in 1 .. Len(frames') : i \in 1 .. Len(frames)
    BY <2>1
  <2>. QED BY <2>1, <2>2 DEF MovesOnce
<1>6. PlaceInv
  OBVIOUS
<1>. HIDE DEF FollowInv
<1>. QED BY <1>1, <1>2, <1>3, <1>4, <1>5, <1>6, FrameSteps

\* No client is in two activations of change_area at once.
THEOREM MovesOnceAlways == Spec => []MovesOnce
<1>1. Init => FollowInv /\ MovesOnce
  <2>1. Len(<< >>) = 0
    BY EmptySeq
  <2>. QED BY <2>1, FollowInit DEF Init, MovesOnce
<1>2. (FollowInv /\ MovesOnce) /\ UNCHANGED vars => (FollowInv /\ MovesOnce)'
  BY FollowStutter DEF MovesOnce, vars
<1>3. (FollowInv /\ MovesOnce) /\ [Next]_vars => (FollowInv /\ MovesOnce)'
  BY FollowStep, MovesOnceStep, <1>2
<1>. QED BY <1>1, <1>3, PTL DEF Spec

=============================================================================
