--------------------------- MODULE Evidence_proofs ---------------------------
(***************************************************************************)
(* That hiders and items mean each other, that what clients were sent is   *)
(* current, and that what nobody sees is not touched, for any clients,     *)
(* items, positions and limit.                                             *)
(***************************************************************************)
EXTENDS Evidence, SequenceTheorems, WellFoundedInduction, TLAPS

\* A list with the same items, whoever hides in them.
SameKinds(l, m) == Len(m) = Len(l) /\ \A i \in 1 .. Len(l) : m[i].kind = l[i].kind

-----------------------------------------------------------------------------
\* Lists

\* Setting the hiding_client of an item changes nothing else.
LEMMA HiderSet ==
  ASSUME NEW l \in Seq(Evidence), NEW i \in 1 .. Len(l), NEW h \in Client \cup {None}
  PROVE  /\ [l EXCEPT ![i].hider = h] \in Seq(Evidence)
         /\ SameKinds(l, [l EXCEPT ![i].hider = h])
         /\ \A j \in 1 .. Len(l) : [l EXCEPT ![i].hider = h][j].hider = IF j = i THEN h ELSE l[j].hider
<1>1. l[i] \in Evidence BY ElementOfSeq
<1>2. \A e \in Evidence : /\ [e EXCEPT !.hider = h] \in Evidence
                          /\ [e EXCEPT !.hider = h].kind = e.kind
                          /\ [e EXCEPT !.hider = h].hider = h
  BY DEF Evidence
<1>3. [l EXCEPT ![i].hider = h] = [l EXCEPT ![i] = [l[i] EXCEPT !.hider = h]] OBVIOUS
<1> QED BY <1>1, <1>2, <1>3, ExceptSeq DEF SameKinds

\* Setting what an item is leaves who hides in it.
LEMMA KindSet ==
  ASSUME NEW l \in Seq(Evidence), NEW i \in 1 .. Len(l), NEW k \in Kind
  PROVE  /\ [l EXCEPT ![i].kind = k] \in Seq(Evidence)
         /\ Len([l EXCEPT ![i].kind = k]) = Len(l)
         /\ \A j \in 1 .. Len(l) : /\ [l EXCEPT ![i].kind = k][j].hider = l[j].hider
                                   /\ j # i => [l EXCEPT ![i].kind = k][j] = l[j]
<1>1. l[i] \in Evidence BY ElementOfSeq
<1>2. \A e \in Evidence : /\ [e EXCEPT !.kind = k] \in Evidence
                          /\ [e EXCEPT !.kind = k].hider = e.hider
  BY DEF Evidence
<1>3. [l EXCEPT ![i].kind = k] = [l EXCEPT ![i] = [l[i] EXCEPT !.kind = k]] OBVIOUS
<1> QED BY <1>1, <1>2, <1>3, ExceptSeq

\* Becoming visible to all is becoming some other kind of item.
LEMMA MadeVisible ==
  ASSUME NEW l \in Seq(Evidence), NEW i \in 1 .. Len(l)
  PROVE  /\ VisibleToAll(l, i) \in Seq(Evidence) /\ Len(VisibleToAll(l, i)) = Len(l)
         /\ \A j \in 1 .. Len(l) : /\ VisibleToAll(l, i)[j].hider = l[j].hider
                                   /\ j # i => VisibleToAll(l, i)[j] = l[j]
<1>1. l[i].kind \in Kind
  <2>1. l[i] \in Evidence BY ElementOfSeq
  <2> QED BY <2>1 DEF Evidence
<1>2. \A k \in Kind : [k EXCEPT !.at = "all"] \in Kind BY DEF Kind
<1>3. [l EXCEPT ![i].kind.at = "all"] = [l EXCEPT ![i].kind = [l[i].kind EXCEPT !.at = "all"]]
  OBVIOUS
<1>4. PICK k \in Kind : VisibleToAll(l, i) = [l EXCEPT ![i].kind = k]
  BY <1>1, <1>2, <1>3, Zenon DEF VisibleToAll
<1> QED BY <1>4, KindSet

\* hide(False) takes out whoever is at the index, and changes nothing else.
LEMMA VacatedItems ==
  ASSUME NEW l \in Seq(Evidence), NEW c
  PROVE  /\ Vacated(c, l) \in Seq(Evidence)
         /\ SameKinds(l, Vacated(c, l))
         /\ \A j \in 1 .. Len(l) :
              Vacated(c, l)[j].hider = IF j = hiddenIn[c] THEN None ELSE l[j].hider
<1>1. DOMAIN l = 1 .. Len(l) BY LenProperties
<1>2. CASE hiddenIn[c] \in DOMAIN l
  BY <1>1, <1>2, HiderSet DEF Vacated, ClearsAtIndex
<1>3. CASE hiddenIn[c] \notin DOMAIN l
  BY <1>1, <1>3 DEF Vacated, ClearsAtIndex, SameKinds
<1> QED BY <1>2, <1>3

\* What is behind a deleted item moves up.
LEMMA DeletedItems ==
  ASSUME NEW l \in Seq(Evidence), NEW i \in 1 .. Len(l)
  PROVE  /\ Deleted(l, i) \in Seq(Evidence) /\ Len(Deleted(l, i)) = Len(l) - 1
         /\ \A j \in 1 .. Len(l) - 1 : Deleted(l, i)[j] = IF j < i THEN l[j] ELSE l[j + 1]
<1> DEFINE a == SubSeq(l, 1, i - 1)
           b == SubSeq(l, i + 1, Len(l))
<1>1. Len(l) \in Nat BY LenProperties
<1>2. a \in Seq(Evidence) /\ Len(a) = i - 1 /\ \A j \in 1 .. i - 1 : a[j] = l[j]
  BY <1>1, SubSeqProperties, ElementOfSeq
<1>3. b \in Seq(Evidence) /\ Len(b) = Len(l) - i /\ \A j \in 1 .. Len(l) - i : b[j] = l[i + j]
  <2>1. \A j \in i + 1 .. Len(l) : l[j] \in Evidence BY <1>1, ElementOfSeq
  <2>2. i + 1 \in Int /\ Len(l) \in Int BY <1>1
  <2>3. /\ b \in Seq(Evidence)
        /\ Len(b) = IF i + 1 <= Len(l) THEN Len(l) - (i + 1) + 1 ELSE 0
        /\ \A j \in 1 .. Len(l) - (i + 1) + 1 : b[j] = l[i + 1 + j - 1]
    BY <2>1, <2>2, SubSeqProperties
  <2> HIDE DEF b
  <2> QED BY <1>1, <2>3
<1> HIDE DEF a, b
<1>4. /\ a \o b \in Seq(Evidence) /\ Len(a \o b) = Len(l) - 1
      /\ \A j \in 1 .. Len(l) - 1 : (a \o b)[j] = IF j <= i - 1 THEN a[j] ELSE b[j - (i - 1)]
  <2>1. /\ a \o b \in Seq(Evidence) /\ Len(a \o b) = Len(a) + Len(b)
        /\ \A j \in 1 .. Len(a) + Len(b) : (a \o b)[j] = IF j <= Len(a) THEN a[j] ELSE b[j - Len(a)]
    BY <1>2, <1>3, ConcatProperties
  <2>2. Len(a) + Len(b) = Len(l) - 1 BY <1>1, <1>2, <1>3
  <2> QED BY <1>2, <2>1, <2>2
<1>5. \A j \in 1 .. Len(l) - 1 : (a \o b)[j] = IF j < i THEN l[j] ELSE l[j + 1]
  <2> TAKE j \in 1 .. Len(l) - 1
  <2>1. CASE j < i BY <1>1, <1>2, <1>4, <2>1
  <2>2. CASE ~(j < i)
    <3>1. j - (i - 1) \in 1 .. Len(l) - i /\ i + (j - (i - 1)) = j + 1 BY <1>1, <2>2
    <3>2. b[j - (i - 1)] = l[j + 1] BY <1>3, <3>1
    <3>3. (a \o b)[j] = b[j - (i - 1)] BY <1>1, <1>4, <2>2
    <3> QED BY <2>2, <3>2, <3>3
  <2> QED BY <2>1, <2>2
<1> QED BY <1>4, <1>5 DEF Deleted, a, b

\* An item that is inserted elsewhere pushes those between there and its place
\* (evidence_insert).
LEMMA InsertedItems ==
  ASSUME NEW m \in Seq(Evidence), NEW i \in 1 .. Len(m), NEW j \in 1 .. Len(m)
  PROVE  /\ Inserted(m, i, j) \in Seq(Evidence) /\ Len(Inserted(m, i, j)) = Len(m)
         /\ \A k \in 1 .. Len(m) :
              Inserted(m, i, j)[k] = IF k = j THEN m[i]
                                     ELSE IF k < j THEN Deleted(m, i)[k] ELSE Deleted(m, i)[k - 1]
<1> DEFINE l == Deleted(m, i)
           a == SubSeq(l, 1, j - 1)
           b == SubSeq(l, j, Len(l))
           x == << m[i] >>
<1>1. /\ Len(m) \in Nat /\ l \in Seq(Evidence) /\ Len(l) = Len(m) - 1
      /\ \A k \in 1 .. Len(l) : l[k] \in Evidence
  BY DeletedItems, LenProperties, ElementOfSeq
<1> HIDE DEF l
<1>2. a \in Seq(Evidence) /\ Len(a) = j - 1 /\ \A k \in 1 .. j - 1 : a[k] = l[k]
  <2>1. 1 \in Int /\ j - 1 \in Int /\ \A k \in 1 .. j - 1 : l[k] \in Evidence BY <1>1
  <2>2. /\ a \in Seq(Evidence) /\ Len(a) = IF 1 <= j - 1 THEN j - 1 - 1 + 1 ELSE 0
        /\ \A k \in 1 .. j - 1 - 1 + 1 : a[k] = l[1 + k - 1]
    BY <2>1, SubSeqProperties
  <2> HIDE DEF a
  <2> QED BY <2>2
<1>3. b \in Seq(Evidence) /\ Len(b) = Len(m) - j /\ \A k \in 1 .. Len(m) - j : b[k] = l[j + k - 1]
  <2>1. j \in Int /\ Len(l) \in Int /\ \A k \in j .. Len(l) : l[k] \in Evidence BY <1>1
  <2>2. /\ b \in Seq(Evidence) /\ Len(b) = IF j <= Len(l) THEN Len(l) - j + 1 ELSE 0
        /\ \A k \in 1 .. Len(l) - j + 1 : b[k] = l[j + k - 1]
    BY <2>1, SubSeqProperties
  <2> HIDE DEF b
  <2> QED BY <1>1, <2>2
<1>4. x \in Seq(Evidence) /\ Len(x) = 1 /\ x[1] = m[i] BY ElementOfSeq
<1> HIDE DEF a, b, x
<1> DEFINE y == a \o x
<1>5. /\ y \in Seq(Evidence) /\ Len(y) = j
      /\ \A k \in 1 .. j : y[k] = IF k = j THEN m[i] ELSE l[k]
  <2>1. /\ y \in Seq(Evidence) /\ Len(y) = Len(a) + Len(x)
        /\ \A k \in 1 .. Len(a) + Len(x) : y[k] = IF k <= Len(a) THEN a[k] ELSE x[k - Len(a)]
    BY <1>2, <1>4, ConcatProperties
  <2> QED BY <1>2, <1>4, <2>1
<1> HIDE DEF y
<1>6. /\ y \o b \in Seq(Evidence) /\ Len(y \o b) = Len(m)
      /\ \A k \in 1 .. Len(m) : (y \o b)[k] = IF k <= j THEN y[k] ELSE b[k - j]
  <2>1. /\ y \o b \in Seq(Evidence) /\ Len(y \o b) = Len(y) + Len(b)
        /\ \A k \in 1 .. Len(y) + Len(b) :
             (y \o b)[k] = IF k <= Len(y) THEN y[k] ELSE b[k - Len(y)]
    BY <1>3, <1>5, ConcatProperties
  <2> QED BY <1>1, <1>3, <1>5, <2>1
<1>7. \A k \in 1 .. Len(m) :
        (y \o b)[k] = IF k = j THEN m[i] ELSE IF k < j THEN l[k] ELSE l[k - 1]
  <2> TAKE k \in 1 .. Len(m)
  <2>1. CASE k <= j BY <1>1, <1>5, <1>6, <2>1
  <2>2. CASE ~(k <= j)
    <3>1. k - j \in 1 .. Len(m) - j /\ j + (k - j) - 1 = k - 1 BY <1>1, <2>2
    <3>2. b[k - j] = l[k - 1] BY <1>3, <3>1
    <3> QED BY <1>6, <2>2, <3>2
  <2> QED BY <2>1, <2>2
<1> QED BY <1>6, <1>7 DEF Inserted, l, a, b, x, y

\* Whether an item is shown to a client depends on what it is, the light, and the client's
\* position, rights and sight alone (create_evi_list).
LEMMA ShownByKind ==
  ASSUME NEW l \in Seq(Evidence), NEW m \in Seq(Evidence), SameKinds(l, m), NEW c, NEW s, NEW t,
         s.dark = t.dark, s.pos[c] = t.pos[c],
         c \in s.owners <=> c \in t.owners, c \in s.blinded <=> c \in t.blinded
  PROVE  Shown(c, m, t) = Shown(c, l, s)
<1>1. DOMAIN l = 1 .. Len(l) /\ DOMAIN m = 1 .. Len(m) BY LenProperties
<1>2. \A i \in 1 .. Len(l) : /\ CanSee(c, m[i].kind, t.pos) <=> CanSee(c, l[i].kind, s.pos)
                             /\ Visible(m[i].kind, InTheDark(c, t)) <=> Visible(l[i].kind, InTheDark(c, s))
  BY DEF CanSee, Visible, InTheDark, SameKinds
<1> QED BY <1>1, <1>2 DEF Shown, SameKinds

\* Nobody is shown an item that is not there.
LEMMA ShownAreItems ==
  ASSUME NEW l \in Seq(Evidence), NEW c, NEW sight
  PROVE  Shown(c, l, sight) \subseteq 1 .. Len(l) /\ Shown(c, l, sight) \subseteq Nat
<1>1. DOMAIN l = 1 .. Len(l) /\ Len(l) \in Nat BY LenProperties
<1> QED BY <1>1 DEF Shown

\* The last one of some items is one of them.
LEMMA LastItem ==
  ASSUME NEW n \in Nat, NEW s \in SUBSET (1 .. n), s # {}
  PROVE  Last(s) \in s
<1> DEFINE back == {n - i : i \in s}
<1>1. back \subseteq Nat /\ back # {}
  <2>1. \A i \in s : n - i \in Nat OBVIOUS
  <2>2. PICK i \in s : TRUE OBVIOUS
  <2> QED BY <2>1, <2>2
<1>2. PICK m \in back : \A k \in back : ~(<< k, m >> \in OpToRel(<, Nat))
  BY <1>1, WFMin, NatLessThanWellFounded
<1>3. PICK i \in s : m = n - i BY <1>2
<1>4. ASSUME NEW j \in s PROVE j <= i
  <2>1. n - j \in back /\ n - j \in Nat /\ m \in Nat BY <1>1, <1>2
  <2>2. << n - j, m >> \in Nat \X Nat BY <2>1
  <2>3. ~(<< n - j, m >>[1] < << n - j, m >>[2])
    BY <1>2, <2>1, <2>2, Zenon DEF OpToRel
  <2> QED BY <1>3, <2>3
<1> QED BY <1>4 DEF Last

-----------------------------------------------------------------------------
\* Types

\* What the actions add and put into the list are items.
LEMMA ItemsAdded ==
  /\ \A k \in Kind : New(k) \in Evidence /\ New(k).kind = k /\ New(k).hider = None
  /\ Plain("all") \in Kind /\ Plain("hidden") \in Kind
  /\ \A c \in Client : AddedKinds(c) \subseteq Kind
  /\ Kinds \subseteq Kind
<1>1. \A k \in Kind : New(k) \in Evidence /\ New(k).kind = k /\ New(k).hider = None
  BY DEF New, Evidence
<1>2. Plain("all") \in Kind /\ Plain("hidden") \in Kind BY DEF Plain, Kind
<1>3. Kinds \subseteq Kind BY EvidenceAssumption
<1>4. \A c \in Client : AddedKinds(c) \subseteq Kind BY <1>2, <1>3 DEF AddedKinds
<1> QED BY <1>1, <1>2, <1>3, <1>4

\* hide(False) leaves types as they are.
LEMMA RevealTypes ==
  ASSUME TypeOK, NEW c \in Client, NEW l \in Seq(Evidence), Reveal(c, l)
  PROVE  /\ list' \in Seq(Evidence) /\ hiddenIn' \in [Client -> Nat \cup {None}]
         /\ dislodged' \subseteq Client
<1>1. list' \in Seq(Evidence) BY VacatedItems DEF Reveal
<1>2. hiddenIn' \in [Client -> Nat \cup {None}] BY DEF Reveal, TypeOK
<1>3. Robbed(c, l) \subseteq Client
  <2>1. CASE hiddenIn[c] \in DOMAIN l
    <3>1. l[hiddenIn[c]] \in Evidence BY <2>1, ElementOfSeq, LenProperties
    <3> QED BY <2>1, <3>1 DEF Robbed, Evidence
  <2> QED BY <2>1 DEF Robbed
<1> QED BY <1>1, <1>2, <1>3 DEF Reveal, TypeOK

\* What clients are sent are indexes.
LEMMA SentTypes ==
  ASSUME TypeOK, list' \in Seq(Evidence), NEW D
  PROVE  Sent(D) \in [Client -> SUBSET Nat]
BY ShownAreItems DEF Sent, TypeOK

\* Who is robbed of a place is a client.
LEMMA RobbedAreClients ==
  ASSUME NEW l \in Seq(Evidence), NEW c
  PROVE  Robbed(c, l) \subseteq Client
<1>1. CASE hiddenIn[c] \in DOMAIN l
  <2>1. l[hiddenIn[c]] \in Evidence BY <1>1, ElementOfSeq, LenProperties
  <2> QED BY <1>1, <2>1 DEF Robbed, Evidence
<1>2. CASE hiddenIn[c] \notin DOMAIN l BY <1>2 DEF Robbed
<1> QED BY <1>1, <1>2

\* Presenting an item takes somebody out or nobody, and changes no other item otherwise.
LEMMA PresentedItems ==
  ASSUME NEW l \in Seq(Evidence), NEW i \in 1 .. Len(l), PresentItem(l, i)
  PROVE  /\ list' \in Seq(Evidence) /\ Len(list') = Len(l)
         /\ \A j \in 1 .. Len(l) : j # i => list'[j].kind = l[j].kind
         /\ ~Reveals => SameKinds(l, list')
         /\ \/ /\ hiddenIn' = hiddenIn /\ dislodged' = dislodged
               /\ \A j \in 1 .. Len(l) : list'[j].hider = l[j].hider
            \/ \E h \in Client :
                 /\ hiddenIn' = [hiddenIn EXCEPT ![h] = None]
                 /\ dislodged' = dislodged \cup Robbed(h, l)
                 /\ \A j \in 1 .. Len(l) : list'[j].hider = Vacated(h, l)[j].hider
<1> DEFINE h == l[i].hider
           out == h # None /\ ~Lost(h, l)
           left == IF out THEN Vacated(h, l) ELSE l
<1>1. h \in Client \cup {None}
  <2>1. l[i] \in Evidence BY ElementOfSeq
  <2> QED BY <2>1 DEF Evidence
<1>2. left \in Seq(Evidence) /\ SameKinds(l, left) BY VacatedItems DEF SameKinds
<1>3. list' = left \/ (Reveals /\ list' = VisibleToAll(left, i)) BY DEF PresentItem
<1>4. /\ list' \in Seq(Evidence) /\ Len(list') = Len(l)
      /\ \A j \in 1 .. Len(l) : list'[j].hider = left[j].hider
      /\ \A j \in 1 .. Len(l) : j # i => list'[j].kind = l[j].kind
      /\ ~Reveals => SameKinds(l, list')
  <2> HIDE DEF left
  <2>1. CASE list' = left BY <1>2, <2>1 DEF SameKinds
  <2>2. CASE Reveals /\ list' = VisibleToAll(left, i)
    <3>1. Len(left) = Len(l) BY <1>2 DEF SameKinds
    <3>2. i \in 1 .. Len(left) BY <3>1
    <3>4. /\ list' \in Seq(Evidence) /\ Len(list') = Len(left)
          /\ \A j \in 1 .. Len(left) : /\ list'[j].hider = left[j].hider
                                       /\ j # i => list'[j] = left[j]
      BY <1>2, <2>2, <3>2, MadeVisible
    <3>5. \A j \in 1 .. Len(l) : left[j].kind = l[j].kind BY <1>2 DEF SameKinds
    <3>6. Reveals BY <2>2
    <3>7. list' \in Seq(Evidence) /\ Len(list') = Len(l) BY <3>1, <3>4
    <3>8. \A j \in 1 .. Len(l) : j # i => list'[j].kind = l[j].kind BY <3>1, <3>4, <3>5
    <3>9. \A j \in 1 .. Len(l) : list'[j].hider = left[j].hider BY <3>1, <3>4
    <3> HIDE DEF left
    <3> QED BY <3>6, <3>7, <3>8, <3>9, Zenon
  <2> QED BY <1>3, <2>1, <2>2
<1>5. CASE out
  <2>1. hiddenIn' = [hiddenIn EXCEPT ![h] = None] /\ dislodged' = dislodged \cup Robbed(h, l)
    BY <1>5 DEF PresentItem
  <2>2. left = Vacated(h, l) /\ h \in Client BY <1>1, <1>5
  <2> QED BY <1>4, <2>1, <2>2
<1>6. CASE ~out
  <2>1. hiddenIn' = hiddenIn /\ dislodged' = dislodged BY <1>6 DEF PresentItem
  <2>2. left = l BY <1>6
  <2> QED BY <1>4, <2>1, <2>2
<1> QED BY <1>5, <1>6

\* It leaves types as they are.
LEMMA PresentTypes ==
  ASSUME TypeOK, NEW l \in Seq(Evidence), NEW i \in 1 .. Len(l), PresentItem(l, i)
  PROVE  /\ list' \in Seq(Evidence) /\ hiddenIn' \in [Client -> Nat \cup {None}]
         /\ dislodged' \subseteq Client
<1>1. list' \in Seq(Evidence) BY PresentedItems
<1>2. \A h \in Client : [hiddenIn EXCEPT ![h] = None] \in [Client -> Nat \cup {None}]
  BY DEF TypeOK
<1>3. hiddenIn' \in [Client -> Nat \cup {None}] /\ dislodged' \subseteq Client
  BY <1>2, PresentedItems, RobbedAreClients, ZenonT(40) DEF TypeOK
<1> QED BY <1>1, <1>3

\* The item that is presented of an inventory is in the list.
LEMMA PresentedIsShown ==
  ASSUME NEW c, NEW l \in Seq(Evidence), NEW sight, Shown(c, l, sight) # {}
  PROVE  /\ Last(Shown(c, l, sight)) \in Shown(c, l, sight)
         /\ Shown(c, l, sight) \subseteq 1 .. Len(l)
<1>1. Len(l) \in Nat /\ Shown(c, l, sight) \subseteq 1 .. Len(l) BY ShownAreItems, LenProperties
<1> QED BY <1>1, LastItem

\* The list that is sent after an item of an inventory was put into it.
LEMMA ListWithAdded ==
  ASSUME TypeOK, NEW c \in Client,
         NEW l \in (IF MayAdd(c) THEN {Append(list, New(k)) : k \in AddedKinds(c)} ELSE {list})
  PROVE  /\ l \in Seq(Evidence) /\ Len(l) >= Len(list)
         /\ \A i \in 1 .. Len(list) : l[i] = list[i]
         /\ \A i \in 1 .. Len(l) : i \notin 1 .. Len(list) => l[i].hider = None
<1>1. list \in Seq(Evidence) /\ Len(list) \in Nat BY LenProperties DEF TypeOK
<1>2. CASE l = list BY <1>1, <1>2
<1>3. ASSUME NEW k \in Kind, l = Append(list, New(k))
      PROVE  /\ l \in Seq(Evidence) /\ Len(l) = Len(list) + 1
             /\ \A i \in 1 .. Len(list) : l[i] = list[i]
             /\ l[Len(list) + 1].hider = None
  BY <1>1, <1>3, ItemsAdded, AppendProperties
<1>4. ASSUME NEW k \in Kind, l = Append(list, New(k))
      PROVE  /\ l \in Seq(Evidence) /\ Len(l) >= Len(list)
             /\ \A i \in 1 .. Len(list) : l[i] = list[i]
             /\ \A i \in 1 .. Len(l) : i \notin 1 .. Len(list) => l[i].hider = None
  BY <1>1, <1>3, <1>4
<1> QED BY <1>2, <1>4, ItemsAdded

\* Every operation leaves types as they are.
LEMMA TypesStep ==
  ASSUME TypeOK, [Next]_vars
  PROVE  TypeOK'
<1> USE DEF Unchanged, Stays, Rights
<1>0. list \in Seq(Evidence) /\ Len(list) \in Nat /\ DOMAIN list = 1 .. Len(list)
  BY LenProperties DEF TypeOK
<1>a. ASSUME list' \in Seq(Evidence), NEW D, SendTo(D)
      PROVE  seen' \in [Client -> SUBSET Nat] /\ unsent' \subseteq Client
  BY <1>a, SentTypes DEF SendTo, TypeOK
<1>1. ASSUME NEW c \in Client, Enter(c) PROVE TypeOK'
  <2>1. seen' \in [Client -> SUBSET Nat] /\ unsent' \subseteq Client
    BY <1>0, <1>1, <1>a DEF Enter
  <2>2. here' \subseteq Client /\ gone' \subseteq here' /\ viewing' \subseteq Client
    BY <1>1 DEF Enter, TypeOK
  <2>3. owners' \subseteq Client /\ blinded' \subseteq Client BY <1>1 DEF Enter, TypeOK
  <2> QED BY <1>1, <2>1, <2>2, <2>3 DEF Enter, TypeOK
<1>2. ASSUME NEW c \in Client, Acts(c), Removed(c) PROVE TypeOK'
  <2>1. Reveal(c, list) BY <1>2 DEF Removed
  <2>2. /\ here' = here \ {c} /\ seen' = [seen EXCEPT ![c] = {}]
        /\ owners' = owners \ {c} /\ blinded' = blinded \ {c}
        /\ UNCHANGED << gone, bag, mode, dark, pos, viewing, unsent >>
    BY <1>2 DEF Removed
  <2>3. c \notin gone BY <1>2 DEF Acts
  <2> QED BY <1>0, <2>1, <2>2, <2>3, RevealTypes DEF TypeOK
<1>3. ASSUME NEW c \in Client, Leave(c) PROVE TypeOK' BY <1>2, <1>3 DEF Leave
<1>4. ASSUME NEW c \in Client, Unhide(c) PROVE TypeOK'
  <2>1. Reveal(c, list) BY <1>4 DEF Unhide
  <2>2. UNCHANGED << here, gone, seen, bag, unsent, mode, dark, pos, viewing, owners, blinded >>
    BY <1>4 DEF Unhide
  <2> QED BY <1>0, <2>1, <2>2, RevealTypes DEF TypeOK
<1>5. ASSUME NEW c \in Client, LeaveHiding(c) PROVE TypeOK' BY <1>4, <1>5 DEF LeaveHiding
<1>6. ASSUME NEW c \in Client, Disconnect(c) PROVE TypeOK'
  <2>1. CASE Lost(c, list) BY <1>6, <2>1 DEF Disconnect, TypeOK, Acts
  <2>2. CASE ~Lost(c, list) BY <1>2, <1>6, <2>2 DEF Disconnect
  <2> QED BY <2>1, <2>2
<1>8. ASSUME NEW c \in Client, Add(c) \/ Overlay(c) PROVE TypeOK'
  <2>1. list' \in Seq(Evidence)
    <3>1. \A k \in Kind : Append(list, New(k)) \in Seq(Evidence)
      BY <1>0, ItemsAdded, AppendProperties
    <3> QED BY <1>0, <1>8, <3>1, ItemsAdded DEF Add, Overlay, AddTo
  <2>2. /\ UNCHANGED << here, gone, hiddenIn, bag, dislodged, mode, dark, pos, viewing, owners, blinded >>
        /\ SendTo(here')
    BY <1>8 DEF Add, Overlay, Broadcast
  <2> QED BY <1>a, <2>1, <2>2 DEF TypeOK
<1>9. ASSUME NEW c \in Client, Load(c) PROVE TypeOK'
  <2>1. list' \in Seq(Evidence)
    <3>1. \A k \in Kind : << New(k) >> \in Seq(Evidence) BY ItemsAdded
    <3>2. << >> \in Seq(Evidence) BY EmptySeq
    <3> QED BY <1>9, <3>1, <3>2, ItemsAdded DEF Load
  <2>2. /\ UNCHANGED << here, gone, hiddenIn, bag, mode, dark, pos, viewing, owners, blinded >>
        /\ SendTo(here') /\ dislodged' \subseteq Client
    BY <1>9 DEF Load, Broadcast, TypeOK
  <2> QED BY <1>a, <2>1, <2>2 DEF TypeOK
<1>10. ASSUME NEW c \in Client, Look(c) PROVE TypeOK'
  <2>1. seen' \in [Client -> SUBSET Nat] BY <1>0, <1>10, ShownAreItems DEF Look, TypeOK
  <2> QED BY <1>10, <2>1 DEF Look, TypeOK
<1>11. ASSUME NEW c \in Client, ViewInventory(c) PROVE TypeOK'
  <2>1. list' = list /\ SendTo({c}) BY <1>11 DEF ViewInventory
  <2>2. seen' \in [Client -> SUBSET Nat] /\ unsent' \subseteq Client BY <1>0, <1>a, <2>1
  <2> QED BY <1>11, <2>2 DEF ViewInventory, TypeOK
<1>12. ASSUME NEW c \in Client, ChangeBag(c) PROVE TypeOK'
  <2>1. PICK n \in {bag[c] - 1, bag[c] + 1} \cap (0 .. MaxBag) : bag' = [bag EXCEPT ![c] = n]
    BY <1>12 DEF ChangeBag
  <2>2. n \in Nat BY <2>1, EvidenceAssumption
  <2> QED BY <1>12, <2>1, <2>2 DEF ChangeBag, TypeOK
<1>13. ASSUME NEW c \in Client, Drop(c) PROVE TypeOK'
  <2>1. list' \in Seq(Evidence)
    <3>1. \A k \in Kind : Append(list, New(k)) \in Seq(Evidence)
      BY <1>0, ItemsAdded, AppendProperties
    <3> QED BY <1>0, <1>13, <3>1, ItemsAdded DEF Drop, AddTo
  <2>2. bag' \in [Client -> Nat] BY <1>13 DEF Drop, TypeOK
  <2>3. /\ UNCHANGED << here, gone, hiddenIn, dislodged, mode, dark, pos, viewing, owners, blinded >>
        /\ SendTo(here')
    BY <1>13 DEF Drop, Broadcast
  <2> QED BY <1>a, <2>1, <2>2, <2>3 DEF TypeOK
<1>14. ASSUME NEW c \in Client, PresentInventory(c) PROVE TypeOK'
  <2>1. PICK l \in (IF MayAdd(c) THEN {Append(list, New(k)) : k \in AddedKinds(c)} ELSE {list}) :
          LET s == Shown(c, l, Sight)
          IN IF s = {} THEN list' = l /\ UNCHANGED << hiddenIn, dislodged >>
             ELSE PresentItem(l, Last(s))
    BY <1>14 DEF PresentInventory
  <2>2. l \in Seq(Evidence) BY ListWithAdded
  <2>3. /\ list' \in Seq(Evidence) /\ hiddenIn' \in [Client -> Nat \cup {None}]
        /\ dislodged' \subseteq Client
    <3>1. CASE Shown(c, l, Sight) = {} BY <2>1, <2>2, <3>1 DEF TypeOK
    <3>2. CASE Shown(c, l, Sight) # {}
      BY <2>1, <2>2, <3>2, PresentedIsShown, PresentTypes
    <3> QED BY <3>1, <3>2
  <2>4. bag' \in [Client -> Nat] /\ viewing' \subseteq Client BY <1>14 DEF PresentInventory, TypeOK
  <2>5. UNCHANGED << here, gone, mode, dark, pos, owners, blinded >> /\ SendTo(here')
    BY <1>14 DEF PresentInventory, Broadcast
  <2> QED BY <1>a, <2>3, <2>4, <2>5 DEF TypeOK
<1>15. ASSUME NEW c \in Client, NEW i \in Index, Hide(c, i) PROVE TypeOK'
  <2>1. i \in 1 .. Len(list) /\ i \in Nat BY <1>0, <1>15 DEF Hide
  <2>2. UNCHANGED << here, gone, seen, bag, unsent, mode, dark, pos, viewing, owners, blinded >>
    BY <1>15 DEF Hide
  <2>3. CASE /\ list' = [list EXCEPT ![i].hider = c] /\ hiddenIn' = [hiddenIn EXCEPT ![c] = i]
             /\ dislodged' \in {dislodged, dislodged \cup {c}}
    BY <1>0, <2>1, <2>2, <2>3, HiderSet DEF TypeOK
  <2>4. CASE list[i].hider # None /\ Reveal(list[i].hider, list)
    <3>1. list[i].hider \in Client
      <4>1. list[i] \in Evidence BY <1>0, <2>1, ElementOfSeq
      <4> QED BY <2>4, <4>1 DEF Evidence
    <3> QED BY <1>0, <2>2, <2>4, <3>1, RevealTypes DEF TypeOK
  <2> QED BY <1>15, <2>3, <2>4 DEF Hide
<1>16. ASSUME NEW c \in Client, NEW i \in Index, Remove(c, i) PROVE TypeOK'
  <2> DEFINE j == Meant(c, i)
  <2>1. j \in 1 .. Len(list) BY <1>0, <1>16 DEF Remove, Named, Meant, Translated
  <2>2. bag' \in [Client -> Nat] BY <1>16 DEF Remove, TypeOK
  <2>3. UNCHANGED << here, gone, mode, dark, pos, viewing, owners, blinded >> /\ DeleteAt(j) BY <1>16 DEF Remove
  <2> HIDE DEF j
  <2>4. Deleted(list, j) \in Seq(Evidence) BY <1>0, <2>1, DeletedItems
  <2>5. list[j].hider \in Client \cup {None}
    <3>1. list[j] \in Evidence BY <1>0, <2>1, ElementOfSeq
    <3> QED BY <3>1 DEF Evidence
  <2>6. list' \in Seq(Evidence)
    BY <2>3, <2>4, VacatedItems DEF DeleteAt
  <2>7. hiddenIn' \in [Client -> Nat \cup {None}] BY <2>3, <2>5 DEF DeleteAt, TypeOK
  <2>8. dislodged' \subseteq Client BY <2>3, <2>4, <2>5, RobbedAreClients DEF DeleteAt, TypeOK
  <2>9. seen' \in [Client -> SUBSET Nat] /\ unsent' \subseteq Client
    <3>1. SendTo(here') \/ (UNCHANGED seen /\ unsent' = unsent \cup here)
      BY <2>3 DEF DeleteAt, Broadcast
    <3> QED BY <1>a, <2>6, <3>1 DEF TypeOK
  <2> QED BY <2>2, <2>3, <2>6, <2>7, <2>8, <2>9 DEF TypeOK
<1>17. ASSUME NEW c \in Client, NEW i \in Index, Edit(c, i) PROVE TypeOK'
  <2> DEFINE j == Meant(c, i)
  <2>1. j \in 1 .. Len(list) BY <1>0, <1>17 DEF Edit, Named, Meant, Translated
  <2>2. PICK k \in EditedKinds(c, j) : list' = [list EXCEPT ![j] = Replaced(k, j)]
    BY <1>17 DEF Edit
  <2>3. dislodged' = dislodged \cup ({list[j].hider} \ {None}) BY <1>17 DEF Edit
  <2>4. /\ UNCHANGED << here, gone, hiddenIn, bag, mode, dark, pos, viewing, owners, blinded >>
        /\ SendTo(here')
    BY <1>17 DEF Edit, Broadcast
  <2> HIDE DEF j
  <2>5. list[j] \in Evidence BY <1>0, <2>1, ElementOfSeq
  <2>6. list[j].kind \in Kind /\ list[j].hider \in Client \cup {None} BY <2>5 DEF Evidence
  <2>7. k \in Kind BY <2>6, ItemsAdded DEF EditedKinds
  <2>8. list' \in Seq(Evidence) BY <1>0, <2>1, <2>2, <2>7, ItemsAdded, ExceptSeq DEF Replaced
  <2> QED BY <1>a, <2>3, <2>4, <2>6, <2>8 DEF TypeOK
<1>18. ASSUME NEW c \in Client, NEW i \in Index, SetProperties(c, i) PROVE TypeOK'
  <2>1. PICK k \in Kinds : list' = [list EXCEPT ![i].kind = k] BY <1>18 DEF SetProperties
  <2>2. i \in 1 .. Len(list) /\ k \in Kind BY <1>0, <1>18, ItemsAdded DEF SetProperties
  <2>3. list' \in Seq(Evidence) BY <1>0, <2>1, <2>2, KindSet
  <2>4. /\ UNCHANGED << here, gone, hiddenIn, bag, dislodged, mode, dark, pos, viewing, owners, blinded >>
        /\ SendTo(here')
    BY <1>18 DEF SetProperties, Broadcast
  <2> QED BY <1>a, <2>3, <2>4 DEF TypeOK
<1>19. ASSUME NEW c \in Client, NEW i \in Index, Present(c, i) PROVE TypeOK'
  <2>1. i \in 1 .. Len(list) /\ PresentItem(list, i) BY <1>0, <1>19 DEF Present
  <2>2. UNCHANGED << here, gone, bag, mode, dark, pos, viewing, owners, blinded >> BY <1>19 DEF Present
  <2>3. list' \in Seq(Evidence) BY <1>0, <2>1, PresentTypes
  <2>4. seen' \in [Client -> SUBSET Nat] /\ unsent' \subseteq Client
    <3>1. SendTo(here') \/ UNCHANGED << seen, unsent >> BY <1>19 DEF Present, Broadcast
    <3> QED BY <1>a, <2>3, <3>1 DEF TypeOK
  <2> QED BY <1>0, <2>1, <2>2, <2>4, PresentTypes DEF TypeOK
<1>20. ASSUME NEW c \in Client, NEW i \in Index, NEW j \in Index, Swap(c, i, j) PROVE TypeOK'
  <2>1. i \in 1 .. Len(list) /\ j \in 1 .. Len(list) BY <1>0, <1>20 DEF Swap
  <2>2. [list EXCEPT ![i] = list[j]] \in Seq(Evidence) /\ Len([list EXCEPT ![i] = list[j]]) = Len(list)
    BY <1>0, <2>1, ElementOfSeq, ExceptSeq
  <2>3. list' = [[list EXCEPT ![i] = list[j]] EXCEPT ![j] = list[i]] BY <1>20 DEF Swap
  <2>4. list' \in Seq(Evidence) BY <1>0, <2>1, <2>2, <2>3, ElementOfSeq, ExceptSeq
  <2>5. /\ UNCHANGED << here, gone, hiddenIn, bag, mode, dark, pos, viewing, owners, blinded >>
        /\ SendTo(here') /\ dislodged' \subseteq Client
    BY <1>20 DEF Swap, Broadcast, TypeOK
  <2> QED BY <1>a, <2>4, <2>5 DEF TypeOK
<1>21. ASSUME NEW c \in Client, NEW i \in Index, NEW j \in Index, Insert(c, i, j) PROVE TypeOK'
  <2>1. i \in 1 .. Len(list) /\ j \in 1 .. Len(list) BY <1>0, <1>21 DEF Insert
  <2>2. list' \in Seq(Evidence) BY <1>0, <1>21, <2>1, InsertedItems DEF Insert
  <2>3. /\ UNCHANGED << here, gone, hiddenIn, bag, mode, dark, pos, viewing, owners, blinded >>
        /\ SendTo(here') /\ dislodged' \subseteq Client
    BY <1>21 DEF Insert, Broadcast, TypeOK
  <2> QED BY <1>a, <2>2, <2>3 DEF TypeOK
<1>22. ASSUME NEW c \in Client, NEW p \in Positions, ChangePosition(c, p) PROVE TypeOK'
  <2>1. Reveal(c, list) BY <1>22 DEF ChangePosition
  <2>2. /\ UNCHANGED << here, gone, bag, mode, dark, viewing, owners, blinded >> /\ pos' = [pos EXCEPT ![c] = p]
        /\ SendTo(here')
    BY <1>22 DEF ChangePosition, Broadcast
  <2>3. list' \in Seq(Evidence) BY <1>0, <2>1, RevealTypes
  <2> QED BY <1>0, <1>a, <2>1, <2>2, <2>3, RevealTypes DEF TypeOK
<1>23. ASSUME NEW c \in Client, NEW m \in Modes, EvidenceMod(c, m) PROVE TypeOK'
  <2>1. seen' \in [Client -> SUBSET Nat] /\ unsent' \subseteq Client
    BY <1>0, <1>a, <1>23 DEF EvidenceMod, Broadcast
  <2> QED BY <1>23, <2>1 DEF EvidenceMod, TypeOK
<1>24. ASSUME NEW c \in Client, NEW d \in Lights, SwitchLights(c, d) PROVE TypeOK'
  <2>1. seen' \in [Client -> SUBSET Nat] /\ unsent' \subseteq Client
    BY <1>0, <1>a, <1>24 DEF SwitchLights, Broadcast
  <2> QED BY <1>24, <2>1 DEF SwitchLights, TypeOK
<1>25. ASSUME NEW c \in Client, Grant(c) PROVE TypeOK'
  <2>1. /\ UNCHANGED << here, gone, bag, mode, dark, pos, viewing, blinded >> /\ SendTo(here')
        /\ list' = list /\ hiddenIn' = hiddenIn /\ dislodged' = dislodged
        /\ owners' \subseteq Client
    BY <1>25 DEF Grant, Broadcast, TypeOK
  <2>2. seen' \in [Client -> SUBSET Nat] /\ unsent' \subseteq Client BY <1>0, <1>a, <2>1
  <2> QED BY <2>1, <2>2 DEF TypeOK
<1>26. ASSUME NEW c \in Client, Withdraw(c) PROVE TypeOK'
  <2>1. /\ UNCHANGED << here, gone, bag, mode, dark, pos, viewing, blinded >> /\ SendTo(here')
        /\ owners' \subseteq Client
    BY <1>26 DEF Withdraw, Broadcast, TypeOK
  <2>2. /\ list' \in Seq(Evidence) /\ hiddenIn' \in [Client -> Nat \cup {None}]
        /\ dislodged' \subseteq Client
    <3>1. CASE Stays BY <3>1 DEF TypeOK
    <3>2. CASE Reveal(c, list) BY <1>0, <3>2, RevealTypes
    <3> QED BY <1>26, <3>1, <3>2 DEF Withdraw
  <2>3. seen' \in [Client -> SUBSET Nat] /\ unsent' \subseteq Client BY <1>a, <2>1, <2>2
  <2> QED BY <2>1, <2>2, <2>3 DEF TypeOK
<1>27. ASSUME NEW c \in Client, Refresh(c) PROVE TypeOK'
  BY <1>27 DEF Refresh, Revoked, TypeOK
<1>28. ASSUME NEW c \in Client, Blind(c) PROVE TypeOK'
  <2>1. /\ UNCHANGED << here, gone, bag, mode, dark, pos, viewing, owners >> /\ SendTo({c})
        /\ list' = list /\ hiddenIn' = hiddenIn /\ dislodged' = dislodged
        /\ blinded' \subseteq Client
    BY <1>28 DEF Blind, TypeOK
  <2>2. seen' \in [Client -> SUBSET Nat] /\ unsent' \subseteq Client BY <1>0, <1>a, <2>1
  <2> QED BY <2>1, <2>2 DEF TypeOK
<1>29. CASE UNCHANGED vars BY <1>29 DEF vars, TypeOK
<1> QED
  BY <1>1, <1>3, <1>4, <1>5, <1>6, <1>8, <1>9, <1>10, <1>11, <1>12, <1>13, <1>14, <1>15, <1>16,
     <1>17, <1>18, <1>19, <1>20, <1>21, <1>22, <1>23, <1>24, <1>25, <1>26, <1>27, <1>28, <1>29
  DEF Next

\* The type invariant holds in every reachable state.
THEOREM TypesAlways == Spec => []TypeOK
<1>1. Init => TypeOK
  <2>1. << >> \in Seq(Evidence) BY EmptySeq
  <2>2. [c \in Client |-> None] \in [Client -> Nat \cup {None}] OBVIOUS
  <2>3. [c \in Client |-> {}] \in [Client -> SUBSET Nat] /\ [c \in Client |-> 0] \in [Client -> Nat]
    OBVIOUS
  <2>4. Init => /\ seen \in [Client -> SUBSET Nat] /\ bag \in [Client -> Nat]
                /\ here \subseteq Client /\ gone \subseteq here /\ viewing \subseteq Client
                /\ dislodged \subseteq Client /\ unsent \subseteq Client
                /\ owners \subseteq Client /\ blinded \subseteq Client
    BY <2>3 DEF Init
  <2> QED BY <2>1, <2>2, <2>4 DEF Init, TypeOK
<1>2. TypeOK /\ [Next]_vars => TypeOK' BY TypesStep
<1> QED BY <1>1, <1>2, PTL DEF Spec

-----------------------------------------------------------------------------
\* Hiders and items

\* HidersAreFound, of other lists, places and clients than those of a state.
Found(l, hid, out) ==
  \A c \in Client \ out : \A i \in 1 .. Len(l) : l[i].hider = c <=> hid[c] = i

Placed(l, hid, out, there) ==
  \A c \in Client \ out : hid[c] # None => c \in there /\ hid[c] \in 1 .. Len(l)

LEMMA FoundAndPlaced ==
  ASSUME TypeOK
  PROVE  HidersAreFound <=> Found(list, hiddenIn, dislodged) /\ Placed(list, hiddenIn, dislodged, here)
<1>1. DOMAIN list = 1 .. Len(list) BY LenProperties DEF TypeOK
<1> QED BY <1>1 DEF HidersAreFound, Found, Placed

LEMMA FoundAndPlacedAfter ==
  ASSUME TypeOK'
  PROVE  HidersAreFound' <=> /\ Found(list', hiddenIn', dislodged')
                             /\ Placed(list', hiddenIn', dislodged', here')
<1>1. DOMAIN list' = 1 .. Len(list') BY LenProperties DEF TypeOK
<1> QED BY <1>1 DEF HidersAreFound, Found, Placed

\* hide(False) takes out a client, and another one only if it says so (Client.hide).
LEMMA VacatedFinds ==
  ASSUME NEW l \in Seq(Evidence), TypeOK, NEW out, NEW there, NEW d \in Client,
         Found(l, hiddenIn, out), Placed(l, hiddenIn, out, there)
  PROVE  LET hid == [hiddenIn EXCEPT ![d] = None]
         IN /\ Found(Vacated(d, l), hid, out \cup Robbed(d, l))
            /\ Placed(Vacated(d, l), hid, out \cup Robbed(d, l), there \ {d})
<1> DEFINE hid == [hiddenIn EXCEPT ![d] = None]
<1>1. DOMAIN l = 1 .. Len(l) /\ Len(l) \in Nat BY LenProperties
<1>2. /\ Len(Vacated(d, l)) = Len(l)
      /\ \A i \in 1 .. Len(l) :
           Vacated(d, l)[i].hider = IF i = hiddenIn[d] THEN None ELSE l[i].hider
  BY VacatedItems DEF SameKinds
<1>3. None \notin Client /\ None \notin Nat BY EvidenceAssumption
<1>4. \A c \in Client : hid[c] = IF c = d THEN None ELSE hiddenIn[c] BY DEF TypeOK
<1>5. ASSUME NEW c \in Client \ (out \cup Robbed(d, l)), NEW i \in 1 .. Len(l)
      PROVE  Vacated(d, l)[i].hider = c <=> hid[c] = i
  <2>1. l[i].hider = c <=> hiddenIn[c] = i BY <1>5 DEF Found
  <2>2. CASE c = d BY <1>2, <1>3, <1>4, <2>1, <2>2
  <2>3. CASE c # d /\ i = hiddenIn[d]
    <3>1. l[i].hider # c BY <1>1, <1>3, <1>5, <2>3 DEF Robbed
    <3> QED BY <1>2, <1>3, <1>4, <2>1, <2>3, <3>1
  <2>4. CASE c # d /\ i # hiddenIn[d] BY <1>2, <1>4, <2>1, <2>4
  <2> QED BY <2>2, <2>3, <2>4
<1>6. ASSUME NEW c \in Client \ (out \cup Robbed(d, l)), hid[c] # None
      PROVE  c \in there \ {d} /\ hid[c] \in 1 .. Len(l)
  BY <1>4, <1>6 DEF Placed
<1> HIDE DEF hid
<1>7. Found(Vacated(d, l), hid, out \cup Robbed(d, l)) BY <1>2, <1>5 DEF Found
<1>8. Placed(Vacated(d, l), hid, out \cup Robbed(d, l), there \ {d}) BY <1>2, <1>6 DEF Placed
<1> QED BY <1>7, <1>8 DEF hid

\* Other lists with the same hiders, longer ones with nobody in what is added, and fewer
\* clients to find.
LEMMA FoundStays ==
  ASSUME NEW l \in Seq(Evidence), NEW m \in Seq(Evidence), Len(m) >= Len(l),
         \A i \in 1 .. Len(l) : m[i].hider = l[i].hider,
         \A i \in 1 .. Len(m) : i \notin 1 .. Len(l) => m[i].hider = None,
         NEW hid, NEW out, NEW out2, out \subseteq out2, NEW there, NEW there2, there \subseteq there2,
         Found(l, hid, out), Placed(l, hid, out, there)
  PROVE  Found(m, hid, out2) /\ Placed(m, hid, out2, there2)
<1>1. Len(l) \in Nat /\ Len(m) \in Nat BY LenProperties
<1>2. None \notin Client /\ None \notin Nat BY EvidenceAssumption
<1>3. ASSUME NEW c \in Client \ out2, NEW i \in 1 .. Len(m) PROVE m[i].hider = c <=> hid[c] = i
  <2>1. CASE i \in 1 .. Len(l) BY <1>3, <2>1 DEF Found
  <2>2. CASE i \notin 1 .. Len(l)
    <3>1. hid[c] # None => hid[c] \in 1 .. Len(l) BY <1>3 DEF Placed
    <3> QED BY <1>1, <1>2, <1>3, <2>2, <3>1
  <2> QED BY <2>1, <2>2
<1>4. ASSUME NEW c \in Client \ out2, hid[c] # None PROVE c \in there2 /\ hid[c] \in 1 .. Len(m)
  <2>1. c \in there /\ hid[c] \in 1 .. Len(l) BY <1>4 DEF Placed
  <2> QED BY <1>1, <2>1
<1> QED BY <1>3, <1>4 DEF Found, Placed

\* The items of others than those who move up stay where they are (del_evidence).
LEMMA DeletedFinds ==
  ASSUME TypeOK, HidersAreFound, NEW i \in 1 .. Len(list), NEW out,
         out = dislodged \cup {c \in Client : hiddenIn[c] # None /\ hiddenIn[c] > i}
  PROVE  LET l == Deleted(list, i)
         IN /\ \A c \in Client \ (out \cup {list[i].hider}) : \A j \in 1 .. Len(l) :
                 l[j].hider = c <=> hiddenIn[c] = j
            /\ Placed(l, hiddenIn, out \cup {list[i].hider}, here)
<1> DEFINE l == Deleted(list, i)
<1>1. list \in Seq(Evidence) /\ Len(list) \in Nat BY LenProperties DEF TypeOK
<1>2. /\ Len(l) = Len(list) - 1
      /\ \A j \in 1 .. Len(l) : l[j] = IF j < i THEN list[j] ELSE list[j + 1]
  BY <1>1, DeletedItems
<1> HIDE DEF l
<1>3. Found(list, hiddenIn, dislodged) /\ Placed(list, hiddenIn, dislodged, here) BY FoundAndPlaced
<1>4. None \notin Nat BY EvidenceAssumption
<1>5. ASSUME NEW c \in Client \ (out \cup {list[i].hider})
      PROVE  hiddenIn[c] = None \/ (c \in here /\ hiddenIn[c] \in 1 .. i - 1)
  <2>1. list[i].hider # c /\ c \notin dislodged BY <1>5
  <2>2. hiddenIn[c] # i BY <1>3, <2>1 DEF Found
  <2>3. hiddenIn[c] = None \/ (c \in here /\ hiddenIn[c] \in 1 .. Len(list)) BY <1>3, <2>1 DEF Placed
  <2>4. hiddenIn[c] # None => ~(hiddenIn[c] > i) BY <1>5
  <2> QED BY <1>1, <2>2, <2>3, <2>4
<1>6. ASSUME NEW c \in Client \ (out \cup {list[i].hider}), NEW j \in 1 .. Len(l)
      PROVE  l[j].hider = c <=> hiddenIn[c] = j
  <2>1. \A k \in 1 .. Len(list) : list[k].hider = c <=> hiddenIn[c] = k BY <1>3, <1>6 DEF Found
  <2>2. CASE j < i BY <1>1, <1>2, <2>1, <2>2
  <2>3. CASE ~(j < i)
    <3>1. l[j] = list[j + 1] /\ j + 1 \in 1 .. Len(list) BY <1>1, <1>2, <2>3
    <3>2. hiddenIn[c] # j + 1 /\ hiddenIn[c] # j BY <1>1, <1>4, <1>5, <2>3
    <3> QED BY <2>1, <3>1, <3>2
  <2> QED BY <2>2, <2>3
<1>7. Placed(l, hiddenIn, out \cup {list[i].hider}, here) BY <1>1, <1>2, <1>5 DEF Placed
<1> QED BY <1>6, <1>7 DEF l

\* Presenting takes out nobody without saying so (reveal_hidden_in of an item).
LEMMA PresentFinds ==
  ASSUME TypeOK, NEW l \in Seq(Evidence), NEW i \in 1 .. Len(l), PresentItem(l, i),
         Found(l, hiddenIn, dislodged), Placed(l, hiddenIn, dislodged, here)
  PROVE  Found(list', hiddenIn', dislodged') /\ Placed(list', hiddenIn', dislodged', here)
<1>1. list' \in Seq(Evidence) /\ Len(list') = Len(l) /\ Len(l) \in Nat
  BY PresentedItems, LenProperties
<1>2. CASE /\ hiddenIn' = hiddenIn /\ dislodged' = dislodged
           /\ \A j \in 1 .. Len(l) : list'[j].hider = l[j].hider
  BY <1>1, <1>2 DEF Found, Placed
<1>3. ASSUME NEW h \in Client,
             hiddenIn' = [hiddenIn EXCEPT ![h] = None], dislodged' = dislodged \cup Robbed(h, l),
             \A j \in 1 .. Len(l) : list'[j].hider = Vacated(h, l)[j].hider
      PROVE  Found(list', hiddenIn', dislodged') /\ Placed(list', hiddenIn', dislodged', here)
  <2>1. Vacated(h, l) \in Seq(Evidence) /\ Len(Vacated(h, l)) = Len(l)
    BY VacatedItems DEF SameKinds
  <2>2. /\ Found(Vacated(h, l), hiddenIn', dislodged')
        /\ Placed(Vacated(h, l), hiddenIn', dislodged', here \ {h})
    BY <1>3, VacatedFinds
  <2> QED BY <1>1, <1>3, <2>1, <2>2, SMTT(30) DEF Found, Placed
<1> QED BY <1>2, <1>3, PresentedItems

\* Every operation leaves hiders and items in agreement.
LEMMA HidersStep ==
  ASSUME TypeOK, TypeOK', HidersAreFound, [Next]_vars
  PROVE  HidersAreFound'
<1> USE DEF Unchanged, Stays
<1>0. /\ list \in Seq(Evidence) /\ Len(list) \in Nat /\ DOMAIN list = 1 .. Len(list)
      /\ list' \in Seq(Evidence) /\ Len(list') \in Nat
  BY LenProperties DEF TypeOK
<1>1. Found(list, hiddenIn, dislodged) /\ Placed(list, hiddenIn, dislodged, here)
  BY FoundAndPlaced
<1> SUFFICES Found(list', hiddenIn', dislodged') /\ Placed(list', hiddenIn', dislodged', here')
  BY FoundAndPlacedAfter
<1>2. None \notin Client /\ None \notin Nat BY EvidenceAssumption
\* Those that only change who is to be found
<1>3. ASSUME \A i \in 1 .. Len(list) : list'[i].hider = list[i].hider, Len(list') = Len(list),
             hiddenIn' = hiddenIn, dislodged \subseteq dislodged', here \subseteq here'
      PROVE  Found(list', hiddenIn', dislodged') /\ Placed(list', hiddenIn', dislodged', here')
  BY <1>0, <1>1, <1>3 DEF Found, Placed
<1>4. ASSUME NEW c \in Client, \/ Enter(c) \/ Look(c) \/ ViewInventory(c) \/ ChangeBag(c)
                               \/ Grant(c) \/ Refresh(c) \/ Blind(c)
      PROVE  Found(list', hiddenIn', dislodged') /\ Placed(list', hiddenIn', dislodged', here')
  BY <1>3, <1>4 DEF Enter, Look, ViewInventory, ChangeBag, Grant, Refresh, Blind
<1>5. ASSUME NEW c \in Client, \/ \E m \in Modes : EvidenceMod(c, m)
                               \/ \E d \in Lights : SwitchLights(c, d)
      PROVE  Found(list', hiddenIn', dislodged') /\ Placed(list', hiddenIn', dislodged', here')
  BY <1>3, <1>5 DEF EvidenceMod, SwitchLights
<1>6. ASSUME NEW c \in Client, Reveal(c, list), here \ {c} \subseteq here'
      PROVE  Found(list', hiddenIn', dislodged') /\ Placed(list', hiddenIn', dislodged', here')
  <2>1. /\ Found(list', hiddenIn', dislodged')
        /\ Placed(list', hiddenIn', dislodged', here \ {c})
    BY <1>0, <1>1, <1>6, VacatedFinds DEF Reveal
  <2> QED BY <1>6, <2>1 DEF Placed
<1>7. ASSUME NEW c \in Client, Leave(c) \/ LeaveHiding(c) \/ Unhide(c)
                               \/ \E p \in Positions : ChangePosition(c, p)
      PROVE  Found(list', hiddenIn', dislodged') /\ Placed(list', hiddenIn', dislodged', here')
  BY <1>6, <1>7 DEF Leave, Removed, LeaveHiding, Unhide, ChangePosition
<1>8. ASSUME NEW c \in Client, Disconnect(c)
      PROVE  Found(list', hiddenIn', dislodged') /\ Placed(list', hiddenIn', dislodged', here')
  <2>1. CASE Lost(c, list) BY <1>3, <1>8, <2>1 DEF Disconnect
  <2>2. CASE ~Lost(c, list) BY <1>6, <1>8, <2>2 DEF Disconnect, Removed
  <2> QED BY <2>1, <2>2
<1>9. ASSUME NEW k \in Kind, list' = Append(list, New(k)),
             hiddenIn' = hiddenIn, dislodged' = dislodged, here' = here
      PROVE  Found(list', hiddenIn', dislodged') /\ Placed(list', hiddenIn', dislodged', here')
  <2>1. /\ Len(list') = Len(list) + 1 /\ \A i \in 1 .. Len(list) : list'[i] = list[i]
        /\ list'[Len(list) + 1].hider = None
    BY <1>0, <1>9, ItemsAdded, AppendProperties
  <2>2. /\ \A i \in 1 .. Len(list) : list'[i].hider = list[i].hider
        /\ \A i \in 1 .. Len(list') : i \notin 1 .. Len(list) => list'[i].hider = None
    BY <1>0, <2>1
  <2>3. Len(list') >= Len(list) BY <1>0, <2>1
  <2> QED BY <1>0, <1>1, <1>9, <2>2, <2>3, FoundStays, Zenon
<1>10. ASSUME NEW c \in Client, Add(c) \/ Overlay(c) \/ Drop(c)
       PROVE  Found(list', hiddenIn', dislodged') /\ Placed(list', hiddenIn', dislodged', here')
  <2>1. hiddenIn' = hiddenIn /\ dislodged' = dislodged /\ here' = here
    BY <1>10 DEF Add, Overlay, Drop
  <2>2. list' = list \/ \E k \in Kind : list' = Append(list, New(k))
    BY <1>10, ItemsAdded DEF Add, Overlay, Drop, AddTo
  <2> QED BY <1>3, <1>9, <2>1, <2>2
<1>11. ASSUME NEW c \in Client, Load(c)
       PROVE  Found(list', hiddenIn', dislodged') /\ Placed(list', hiddenIn', dislodged', here')
  <2>1. \A i \in 1 .. Len(list') : list'[i].hider = None
    <3>1. PICK k \in Kinds : list' \in {<< >>, << New(k) >>} BY <1>11 DEF Load
    <3>2. New(k).hider = None BY ItemsAdded
    <3>3. CASE list' = << >> BY <3>3
    <3>4. CASE list' = << New(k) >> BY <3>2, <3>4
    <3> QED BY <3>1, <3>3, <3>4
  <2>2. /\ hiddenIn' = hiddenIn
        /\ dislodged' = dislodged \cup {d \in Client : hiddenIn[d] # None}
    BY <1>11 DEF Load
  <2> QED BY <1>2, <2>1, <2>2 DEF Found, Placed
<1>12. ASSUME NEW c \in Client, PresentInventory(c)
       PROVE  Found(list', hiddenIn', dislodged') /\ Placed(list', hiddenIn', dislodged', here')
  <2>1. PICK l \in (IF MayAdd(c) THEN {Append(list, New(k)) : k \in AddedKinds(c)} ELSE {list}) :
          LET s == Shown(c, l, Sight)
          IN IF s = {} THEN list' = l /\ UNCHANGED << hiddenIn, dislodged >>
             ELSE PresentItem(l, Last(s))
    BY <1>12 DEF PresentInventory
  <2>2. l \in Seq(Evidence) BY ListWithAdded
  <2>3. Found(l, hiddenIn, dislodged) /\ Placed(l, hiddenIn, dislodged, here)
    <3>1. /\ Len(l) >= Len(list) /\ \A i \in 1 .. Len(list) : l[i].hider = list[i].hider
          /\ \A i \in 1 .. Len(l) : i \notin 1 .. Len(list) => l[i].hider = None
      BY ListWithAdded
    <3> QED BY <1>0, <1>1, <2>2, <3>1, FoundStays, Zenon
  <2>4. here' = here BY <1>12 DEF PresentInventory
  <2>5. CASE Shown(c, l, Sight) = {} BY <2>1, <2>3, <2>4, <2>5
  <2>6. CASE Shown(c, l, Sight) # {}
    BY <2>1, <2>2, <2>3, <2>4, <2>6, PresentedIsShown, PresentFinds
  <2> QED BY <2>5, <2>6
<1>13. ASSUME NEW c \in Client, NEW i \in Index, Hide(c, i)
       PROVE  Found(list', hiddenIn', dislodged') /\ Placed(list', hiddenIn', dislodged', here')
  <2>1. i \in 1 .. Len(list) /\ c \in here /\ here' = here BY <1>0, <1>13 DEF Hide, Acts
  <2>2. CASE /\ list[i].hider = None
             /\ list' = [list EXCEPT ![i].hider = c] /\ hiddenIn' = [hiddenIn EXCEPT ![c] = i]
             /\ dislodged' = IF hiddenIn[c] = None THEN dislodged ELSE dislodged \cup {c}
    <3>1. /\ Len(list') = Len(list)
          /\ \A j \in 1 .. Len(list) : list'[j].hider = IF j = i THEN c ELSE list[j].hider
      BY <1>0, <2>1, <2>2, HiderSet DEF SameKinds
    <3>2. \A d \in Client : hiddenIn'[d] = IF d = c THEN i ELSE hiddenIn[d] BY <2>2 DEF TypeOK
    <3>3. ASSUME NEW d \in Client \ dislodged'
          PROVE  /\ \A j \in 1 .. Len(list) : list[j].hider = d <=> hiddenIn[d] = j
                 /\ hiddenIn[d] # None => d \in here /\ hiddenIn[d] \in 1 .. Len(list)
                 /\ d = c => hiddenIn[d] = None
      BY <1>1, <2>2, <3>3 DEF Found, Placed
    <3>4. Found(list', hiddenIn', dislodged')
      BY <1>2, <2>1, <2>2, <3>1, <3>2, <3>3 DEF Found
    <3>5. Placed(list', hiddenIn', dislodged', here')
      BY <2>1, <3>1, <3>2, <3>3 DEF Placed
    <3> QED BY <3>4, <3>5
  <2>3. CASE list[i].hider # None /\ Reveal(list[i].hider, list)
    <3>1. list[i].hider \in Client
      <4>1. list[i] \in Evidence BY <1>0, <2>1, ElementOfSeq
      <4> QED BY <2>3, <4>1 DEF Evidence
    <3> QED BY <1>6, <2>1, <2>3, <3>1
  <2> QED BY <1>13, <2>2, <2>3 DEF Hide
<1>14. ASSUME NEW c \in Client, NEW i \in Index, Remove(c, i)
       PROVE  Found(list', hiddenIn', dislodged') /\ Placed(list', hiddenIn', dislodged', here')
  <2> DEFINE j == Meant(c, i)
             l == Deleted(list, j)
             h == list[j].hider
             out == dislodged \cup {d \in Client : hiddenIn[d] # None /\ hiddenIn[d] > j}
  <2>1. j \in 1 .. Len(list) BY <1>0, <1>14 DEF Remove, Named, Meant, Translated
  <2>2. here' = here /\ DeleteAt(j) BY <1>14 DEF Remove
  <2> HIDE DEF j
  <2>3. l \in Seq(Evidence) BY <1>0, <2>1, DeletedItems
  <2>4. h \in Client \cup {None}
    <3>1. list[j] \in Evidence BY <1>0, <2>1, ElementOfSeq
    <3> QED BY <3>1 DEF Evidence
  <2>5. /\ Found(l, hiddenIn, out \cup {h})
        /\ Placed(l, hiddenIn, out \cup {h}, here)
    BY <2>1, DeletedFinds DEF Found
  <2>6. CASE h = None /\ list' = l /\ dislodged' = out /\ hiddenIn' = hiddenIn
    BY <1>2, <2>2, <2>5, <2>6 DEF Found, Placed
  <2>7. CASE /\ h # None /\ list' = Vacated(h, l) /\ hiddenIn' = [hiddenIn EXCEPT ![h] = None]
             /\ dislodged' = out \cup Robbed(h, l)
    <3>1. /\ Found(list', hiddenIn', out \cup {h} \cup Robbed(h, l))
          /\ Placed(list', hiddenIn', out \cup {h} \cup Robbed(h, l), here \ {h})
      BY <2>3, <2>4, <2>5, <2>7, VacatedFinds
    <3>2. /\ Len(list') = Len(l)
          /\ \A k \in 1 .. Len(l) : list'[k].hider = IF k = hiddenIn[h] THEN None ELSE l[k].hider
      BY <2>3, <2>7, VacatedItems DEF SameKinds
    <3>3. h \in Client /\ hiddenIn'[h] = None BY <2>4, <2>7 DEF TypeOK
    <3>4. h \notin dislodged' => \A k \in 1 .. Len(l) : list'[k].hider # h
      <4> SUFFICES ASSUME h \notin dislodged', NEW k \in 1 .. Len(l) PROVE list'[k].hider # h
        OBVIOUS
      <4>1. h \notin dislodged /\ hiddenIn[h] = j
        BY <1>1, <2>1, <2>7, <3>3 DEF Found
      <4>2. /\ Len(l) = Len(list) - 1
            /\ l[k] = IF k < j THEN list[k] ELSE list[k + 1]
        BY <1>0, <2>1, DeletedItems
      <4>3. \A n \in 1 .. Len(list) : list[n].hider = h <=> n = j
        BY <1>1, <3>3, <4>1 DEF Found
      <4>4. l[k].hider # h
        <5>1. CASE k < j BY <1>0, <2>1, <4>2, <4>3, <5>1
        <5>2. CASE ~(k < j) BY <1>0, <2>1, <4>2, <4>3, <5>2
        <5> QED BY <5>1, <5>2
      <4> QED BY <2>7, <3>2, <4>4
    <3>5. 1 .. Len(l) \subseteq Nat BY <2>3, LenProperties
    <3>6. Found(list', hiddenIn', dislodged')
      BY <1>2, <2>7, <3>1, <3>2, <3>3, <3>4, <3>5 DEF Found
    <3>7. Placed(list', hiddenIn', dislodged', here')
      BY <2>2, <2>7, <3>1, <3>3 DEF Placed
    <3> QED BY <3>6, <3>7
  <2>8. CASE h # None /\ list' = l /\ dislodged' = out \cup {h} /\ hiddenIn' = hiddenIn
    BY <2>2, <2>5, <2>8
  <2> QED BY <2>2, <2>6, <2>7, <2>8 DEF DeleteAt
<1>15. ASSUME NEW c \in Client, NEW i \in Index, Edit(c, i)
       PROVE  Found(list', hiddenIn', dislodged') /\ Placed(list', hiddenIn', dislodged', here')
  <2> DEFINE j == Meant(c, i)
  <2>1. j \in 1 .. Len(list) BY <1>0, <1>15 DEF Edit, Named, Meant, Translated
  <2>2. PICK k \in EditedKinds(c, j) : list' = [list EXCEPT ![j] = Replaced(k, j)]
    BY <1>15 DEF Edit
  <2>3. /\ dislodged' = dislodged \cup ({list[j].hider} \ {None})
        /\ hiddenIn' = hiddenIn /\ here' = here
    BY <1>15 DEF Edit
  <2> HIDE DEF j
  <2>4. list[j] \in Evidence BY <1>0, <2>1, ElementOfSeq
  <2>5. k \in Kind
    <3>1. list[j].kind \in Kind BY <2>4 DEF Evidence
    <3> QED BY <3>1, ItemsAdded DEF EditedKinds
  <2>6. Replaced(k, j) \in Evidence /\ Replaced(k, j).hider = None BY <2>5, ItemsAdded DEF Replaced
  <2>7. /\ Len(list') = Len(list)
        /\ \A n \in 1 .. Len(list) : list'[n].hider = IF n = j THEN None ELSE list[n].hider
    BY <1>0, <2>1, <2>2, <2>6, ExceptSeq
  <2>8. ASSUME NEW d \in Client \ dislodged' PROVE hiddenIn[d] # j
    <3>1. list[j].hider # d BY <1>2, <2>3, <2>8
    <3> QED BY <1>1, <2>1, <2>3, <2>8, <3>1 DEF Found
  <2>9. Found(list', hiddenIn', dislodged')
    BY <1>1, <1>2, <2>3, <2>7, <2>8 DEF Found
  <2>10. Placed(list', hiddenIn', dislodged', here')
    BY <1>1, <2>3, <2>7 DEF Placed
  <2> QED BY <2>9, <2>10
<1>16. ASSUME NEW c \in Client, NEW i \in Index, SetProperties(c, i)
       PROVE  Found(list', hiddenIn', dislodged') /\ Placed(list', hiddenIn', dislodged', here')
  <2>1. PICK k \in Kinds : list' = [list EXCEPT ![i].kind = k] BY <1>16 DEF SetProperties
  <2>2. i \in 1 .. Len(list) /\ k \in Kind BY <1>0, <1>16, ItemsAdded DEF SetProperties
  <2>3. Len(list') = Len(list) /\ \A j \in 1 .. Len(list) : list'[j].hider = list[j].hider
    BY <1>0, <2>1, <2>2, KindSet
  <2> QED BY <1>3, <1>16, <2>3 DEF SetProperties
<1>17. ASSUME NEW c \in Client, NEW i \in Index, Present(c, i)
       PROVE  Found(list', hiddenIn', dislodged') /\ Placed(list', hiddenIn', dislodged', here')
  <2>1. i \in 1 .. Len(list) /\ PresentItem(list, i) /\ here' = here BY <1>0, <1>17 DEF Present
  <2> QED BY <1>0, <1>1, <2>1, PresentFinds
<1>18. ASSUME NEW c \in Client, NEW i \in Index, NEW j \in Index, Swap(c, i, j)
       PROVE  Found(list', hiddenIn', dislodged') /\ Placed(list', hiddenIn', dislodged', here')
  <2>1. i \in 1 .. Len(list) /\ j \in 1 .. Len(list) /\ i # j BY <1>0, <1>18 DEF Swap
  <2>2. /\ dislodged' = dislodged \cup {d \in Client : hiddenIn[d] \in {i, j}}
        /\ hiddenIn' = hiddenIn /\ here' = here
    BY <1>18 DEF Swap
  <2>3. /\ Len(list') = Len(list)
        /\ \A n \in 1 .. Len(list) :
             list'[n] = IF n = j THEN list[i] ELSE IF n = i THEN list[j] ELSE list[n]
    <3> DEFINE m == [list EXCEPT ![i] = list[j]]
    <3>1. /\ m \in Seq(Evidence) /\ Len(m) = Len(list)
          /\ \A n \in 1 .. Len(list) : m[n] = IF n = i THEN list[j] ELSE list[n]
      BY <1>0, <2>1, ElementOfSeq, ExceptSeq
    <3>2. list' = [m EXCEPT ![j] = list[i]] BY <1>18 DEF Swap
    <3> HIDE DEF m
    <3> QED BY <1>0, <2>1, <3>1, <3>2, ElementOfSeq, ExceptSeq
  <2>4. Found(list', hiddenIn', dislodged') BY <1>1, <2>1, <2>2, <2>3 DEF Found
  <2>5. Placed(list', hiddenIn', dislodged', here') BY <1>1, <2>2, <2>3 DEF Placed
  <2> QED BY <2>4, <2>5
<1>19. ASSUME NEW c \in Client, NEW i \in Index, NEW j \in Index, Insert(c, i, j)
       PROVE  Found(list', hiddenIn', dislodged') /\ Placed(list', hiddenIn', dislodged', here')
  <2>1. i \in 1 .. Len(list) /\ j \in 1 .. Len(list) /\ i # j BY <1>0, <1>19 DEF Insert
  <2>2. /\ dislodged' = dislodged \cup {d \in Client : hiddenIn[d] \in (i .. j) \cup (j .. i)}
        /\ hiddenIn' = hiddenIn /\ here' = here
    BY <1>19 DEF Insert
  <2> DEFINE l == Deleted(list, i)
  <2>3. /\ Len(list') = Len(list)
        /\ \A k \in 1 .. Len(list) :
             list'[k] = IF k = j THEN list[i] ELSE IF k < j THEN l[k] ELSE l[k - 1]
    BY <1>0, <1>19, <2>1, InsertedItems DEF Insert
  <2>4. /\ Len(l) = Len(list) - 1
        /\ \A k \in 1 .. Len(list) - 1 : l[k] = IF k < i THEN list[k] ELSE list[k + 1]
    BY <1>0, <2>1, DeletedItems
  <2> HIDE DEF l
  <2>5. \A k \in 1 .. Len(list) : k \notin (i .. j) \cup (j .. i) => list'[k] = list[k]
    BY <1>0, <2>1, <2>3, <2>4
  <2>6. \A k \in 1 .. Len(list) : k \in (i .. j) \cup (j .. i) =>
          \E n \in 1 .. Len(list) : n \in (i .. j) \cup (j .. i) /\ list'[k] = list[n]
    <3> TAKE k \in 1 .. Len(list)
    <3> HAVE k \in (i .. j) \cup (j .. i)
    <3>1. CASE k = j
      <4>1. list'[k] = list[i] /\ i \in (i .. j) \cup (j .. i) BY <1>0, <2>1, <2>3, <3>1
      <4> QED BY <2>1, <4>1
    <3>2. CASE k < j
      <4>1. list'[k] = list[k + 1] BY <1>0, <2>1, <2>3, <2>4, <3>2
      <4>2. k + 1 \in 1 .. Len(list) /\ k + 1 \in (i .. j) \cup (j .. i) BY <1>0, <2>1, <3>2
      <4> QED BY <4>1, <4>2
    <3>3. CASE k > j
      <4>1. list'[k] = list[k - 1] BY <1>0, <2>1, <2>3, <2>4, <3>3
      <4>2. k - 1 \in 1 .. Len(list) /\ k - 1 \in (i .. j) \cup (j .. i) BY <1>0, <2>1, <3>3
      <4> QED BY <4>1, <4>2
    <3> QED BY <2>1, <3>1, <3>2, <3>3
  <2>7. Found(list', hiddenIn', dislodged')
    <3> SUFFICES ASSUME NEW d \in Client \ dislodged', NEW k \in 1 .. Len(list)
                 PROVE  list'[k].hider = d <=> hiddenIn[d] = k
      BY <2>2, <2>3 DEF Found
    <3>1. \A n \in 1 .. Len(list) : list[n].hider = d <=> hiddenIn[d] = n BY <1>1, <2>2 DEF Found
    <3>2. hiddenIn[d] \notin (i .. j) \cup (j .. i) BY <2>2
    <3>3. CASE k \in (i .. j) \cup (j .. i)
      <4>1. PICK n \in 1 .. Len(list) : n \in (i .. j) \cup (j .. i) /\ list'[k] = list[n] BY <2>6, <3>3
      <4> QED BY <3>1, <3>2, <3>3, <4>1
    <3>4. CASE k \notin (i .. j) \cup (j .. i) BY <2>5, <3>1, <3>4
    <3> QED BY <3>3, <3>4
  <2>8. Placed(list', hiddenIn', dislodged', here') BY <1>1, <2>2, <2>3 DEF Placed
  <2> QED BY <2>7, <2>8
<1>20. ASSUME NEW c \in Client, Withdraw(c)
       PROVE  Found(list', hiddenIn', dislodged') /\ Placed(list', hiddenIn', dislodged', here')
  <2>1. CASE Stays BY <1>3, <1>20, <2>1 DEF Withdraw
  <2>2. CASE Reveal(c, list) BY <1>6, <1>20, <2>2 DEF Withdraw
  <2> QED BY <1>20, <2>1, <2>2 DEF Withdraw
<1>21. CASE UNCHANGED vars BY <1>3, <1>21 DEF vars
<1> QED
  BY <1>4, <1>5, <1>7, <1>8, <1>10, <1>11, <1>12, <1>13, <1>14, <1>15, <1>16, <1>17, <1>18,
     <1>19, <1>20, <1>21 DEF Next

\* The index of a hider and the hiding_client of an item mean each other, for everybody who
\* was not torn from it by a change of the list or somebody's stale index (Client.hide,
\* remove_client, del_evidence, reveal_hidden_in).
THEOREM HidersAlwaysFound == Spec => []HidersAreFound
<1>1. Init => HidersAreFound
  BY EvidenceAssumption DEF Init, HidersAreFound
<1>2. TypeOK /\ TypeOK' /\ HidersAreFound /\ [Next]_vars => HidersAreFound' BY HidersStep
<1> QED BY <1>1, <1>2, TypesAlways, PTL DEF Spec

-----------------------------------------------------------------------------
\* What clients were sent

\* Setting who hides in items changes nothing of what is shown.
LEMMA RevealShowsTheSame ==
  ASSUME TypeOK, NEW c, NEW l \in Seq(Evidence), Reveal(c, l)
  PROVE  list' \in Seq(Evidence) /\ SameKinds(l, list')
BY VacatedItems DEF Reveal

\* Nothing that decides what a client is shown changes, nor what it was sent.
Undisturbed(c) ==
  /\ seen'[c] = seen[c] /\ pos'[c] = pos[c]
  /\ c \in owners' <=> c \in owners
  /\ c \in blinded' <=> c \in blinded

\* Every operation leaves what clients were sent current (send_evidence_list).
LEMMA SeenStep ==
  ASSUME TypeOK, TypeOK', SeenIsCurrent, [Next]_vars
  PROVE  SeenIsCurrent'
<1> USE DEF Unchanged, Stays, Rights
<1>0. list \in Seq(Evidence) /\ list' \in Seq(Evidence) /\ DOMAIN list = 1 .. Len(list)
  BY LenProperties DEF TypeOK
<1>1. SameKinds(list, list) BY DEF SameKinds
<1>2. ASSUME Broadcast PROVE SeenIsCurrent'
  BY <1>2 DEF Broadcast, SendTo, Sent, SeenIsCurrent, TypeOK
<1> DEFINE Lists == here \ (viewing \cup unsent)
<1>3. ASSUME SameKinds(list, list'), dark' = dark,
             \A c \in Lists' : \/ c \in Lists /\ Undisturbed(c)
                               \/ seen'[c] = Shown(c, list', Sight')
      PROVE  SeenIsCurrent'
  <2> SUFFICES ASSUME NEW c \in Lists', c \in Lists, Undisturbed(c)
               PROVE  seen'[c] = Shown(c, list', Sight')
    BY <1>3 DEF SeenIsCurrent
  <2>1. seen[c] = Shown(c, list, Sight) BY DEF SeenIsCurrent
  <2>2. Shown(c, list', Sight') = Shown(c, list, Sight)
    BY <1>0, <1>3, ShownByKind DEF Sight, Undisturbed
  <2> QED BY <2>1, <2>2 DEF Undisturbed
<1>4. ASSUME NEW c \in Client, Enter(c) PROVE SeenIsCurrent'
  <2>1. /\ here' = here \cup {c} /\ viewing \ {c} \subseteq viewing'
        /\ \A d \in Client \ {c} : (d \in owners' <=> d \in owners) /\ (d \in blinded' <=> d \in blinded)
        /\ pos' = pos /\ dark' = dark /\ list' = list /\ SendTo({c})
    BY <1>4 DEF Enter
  <2>2. \A d \in Lists' : (d \in Lists /\ Undisturbed(d)) \/ seen'[d] = Shown(d, list', Sight')
    BY <2>1 DEF SendTo, Sent, Undisturbed, TypeOK
  <2> QED BY <1>1, <1>3, <2>1, <2>2
<1>5. ASSUME NEW c \in Client, Removed(c) PROVE SeenIsCurrent'
  <2>1. SameKinds(list, list') BY <1>0, <1>5, RevealShowsTheSame DEF Removed
  <2>2. \A d \in Lists' : d \in Lists /\ Undisturbed(d)
    BY <1>5 DEF Removed, Undisturbed, TypeOK
  <2> QED BY <1>3, <1>5, <2>1, <2>2 DEF Removed
<1>6. ASSUME NEW c \in Client, Unhide(c) PROVE SeenIsCurrent'
  <2>1. SameKinds(list, list') BY <1>0, <1>6, RevealShowsTheSame DEF Unhide
  <2> QED BY <1>3, <1>6, <2>1 DEF Unhide, Undisturbed
<1>7. ASSUME NEW c \in Client, Leave(c) \/ LeaveHiding(c) PROVE SeenIsCurrent'
  BY <1>5, <1>6, <1>7 DEF Leave, LeaveHiding
<1>8. ASSUME NEW c \in Client, Disconnect(c) PROVE SeenIsCurrent'
  <2>1. CASE Lost(c, list) BY <1>1, <1>3, <1>8, <2>1 DEF Disconnect, Undisturbed
  <2>2. CASE ~Lost(c, list) BY <1>5, <1>8, <2>2 DEF Disconnect
  <2> QED BY <2>1, <2>2
<1>9. ASSUME NEW c \in Client, NEW i \in Index, Hide(c, i) PROVE SeenIsCurrent'
  <2>1. SameKinds(list, list')
    <3>1. CASE list' = [list EXCEPT ![i].hider = c]
      <4>1. i \in 1 .. Len(list) BY <1>0, <1>9 DEF Hide
      <4> QED BY <1>0, <3>1, <4>1, HiderSet
    <3>2. CASE Reveal(list[i].hider, list) BY <1>0, <3>2, RevealShowsTheSame
    <3> QED BY <1>9, <3>1, <3>2 DEF Hide
  <2> QED BY <1>3, <1>9, <2>1 DEF Hide, Undisturbed
<1>10. ASSUME NEW c \in Client, Look(c) PROVE SeenIsCurrent'
  <2>1. \A d \in Lists' : (d \in Lists /\ Undisturbed(d)) \/ seen'[d] = Shown(d, list', Sight')
    BY <1>10 DEF Look, Sight, Undisturbed, TypeOK
  <2> QED BY <1>1, <1>3, <1>10, <2>1 DEF Look
<1>11. ASSUME NEW c \in Client, ViewInventory(c) PROVE SeenIsCurrent'
  <2>1. /\ here' = here /\ viewing \ {c} \subseteq viewing' /\ UNCHANGED << owners, blinded >>
        /\ pos' = pos /\ dark' = dark /\ list' = list /\ SendTo({c})
    BY <1>11 DEF ViewInventory
  <2>2. \A d \in Lists' : (d \in Lists /\ Undisturbed(d)) \/ seen'[d] = Shown(d, list', Sight')
    BY <2>1 DEF SendTo, Sent, Undisturbed, TypeOK
  <2> QED BY <1>1, <1>3, <2>1, <2>2
<1>12. ASSUME NEW c \in Client, ChangeBag(c) PROVE SeenIsCurrent'
  BY <1>1, <1>3, <1>12 DEF ChangeBag, Undisturbed
<1>13. ASSUME NEW c \in Client, NEW i \in Index, Remove(c, i) PROVE SeenIsCurrent'
  <2>1. Broadcast \/ (here' = here /\ unsent' = unsent \cup here) BY <1>13 DEF Remove, DeleteAt
  <2> QED BY <1>2, <2>1 DEF SeenIsCurrent
<1>14. ASSUME NEW c \in Client, NEW i \in Index, Present(c, i) PROVE SeenIsCurrent'
  <2>1. CASE Reveals BY <1>2, <1>14, <2>1 DEF Present
  <2>2. CASE ~Reveals
    <3>1. i \in 1 .. Len(list) /\ PresentItem(list, i) BY <1>0, <1>14 DEF Present
    <3>2. SameKinds(list, list') BY <1>0, <2>2, <3>1, PresentedItems
    <3> QED BY <1>3, <1>14, <2>2, <3>2 DEF Present, Undisturbed
  <2> QED BY <2>1, <2>2
<1>15. ASSUME NEW c \in Client,
              \/ Add(c) \/ Load(c) \/ Overlay(c) \/ Drop(c) \/ PresentInventory(c)
              \/ \E i \in Index : \/ Edit(c, i) \/ SetProperties(c, i)
                                  \/ \E j \in Index : Swap(c, i, j) \/ Insert(c, i, j)
              \/ \E p \in Positions : ChangePosition(c, p)
              \/ \E m \in Modes : EvidenceMod(c, m)
              \/ \E d \in Lights : SwitchLights(c, d)
              \/ Grant(c) \/ Withdraw(c)
       PROVE  SeenIsCurrent'
  BY <1>2, <1>15 DEF Add, Load, Overlay, Drop, PresentInventory, Edit, SetProperties, Swap, Insert,
                     ChangePosition, EvidenceMod, SwitchLights, Grant, Withdraw
<1>16. ASSUME NEW c \in Client, Refresh(c) PROVE SeenIsCurrent'
  <2>1. \A d \in Lists' : d \in Lists /\ Undisturbed(d)
    BY <1>16 DEF Refresh, Revoked, Undisturbed
  <2> QED BY <1>1, <1>3, <1>16, <2>1 DEF Refresh
<1>17. ASSUME NEW c \in Client, Blind(c) PROVE SeenIsCurrent'
  <2>1. /\ UNCHANGED << here, viewing, owners, pos, dark, list >> /\ SendTo({c})
        /\ \A d \in Client \ {c} : d \in blinded' <=> d \in blinded
    BY <1>17 DEF Blind
  <2>2. \A d \in Lists' : (d \in Lists /\ Undisturbed(d)) \/ seen'[d] = Shown(d, list', Sight')
    BY <2>1 DEF SendTo, Sent, Undisturbed, TypeOK
  <2> QED BY <1>1, <1>3, <2>1, <2>2
<1>18. CASE UNCHANGED vars BY <1>1, <1>3, <1>18 DEF vars, Undisturbed
<1> QED
  BY <1>4, <1>6, <1>7, <1>8, <1>9, <1>10, <1>11, <1>12, <1>13, <1>14, <1>15, <1>16, <1>17,
     <1>18 DEF Next

\* The numbers a client was sent are those it would be sent now, whatever changed the list,
\* the light, its position, its sight or its rights, unless a deletion was cut short or
\* /refresh took its rights, until it is sent a list again (broadcast_evidence_list,
\* create_evi_list).
THEOREM SeenAlwaysCurrent == Spec => []SeenIsCurrent
<1>1. Init => SeenIsCurrent
  BY DEF Init, SeenIsCurrent
<1>2. TypeOK /\ TypeOK' /\ SeenIsCurrent /\ [Next]_vars => SeenIsCurrent' BY SeenStep
<1> QED BY <1>1, <1>2, TypesAlways, PTL DEF Spec

-----------------------------------------------------------------------------
\* What nobody sees

\* The items that nobody in the area is shown.
Unseen == DOMAIN list \ UNION {Shown(c, list, Sight) : c \in here}

\* Item i is where it was, or one further up.
Kept(i) == \E j \in DOMAIN list' : j \in {i - 1, i} /\ list'[j].kind = list[i].kind

\* Without owners in the area, no operation removes or changes what nobody is shown: the
\* numbers that del_evidence, edit_evidence and send_ic take are of what their sender was sent.
LEMMA UnseenStep ==
  ASSUME TypeOK, TypeOK', SeenIsCurrent, [Next]_vars, here \cap (owners \cup unsent) = {},
         NEW u \in Unseen
  PROVE  Kept(u)
<1> USE DEF Unchanged, Stays
<1>0. /\ list \in Seq(Evidence) /\ Len(list) \in Nat /\ DOMAIN list = 1 .. Len(list)
      /\ list' \in Seq(Evidence) /\ Len(list') \in Nat /\ DOMAIN list' = 1 .. Len(list')
      /\ u \in 1 .. Len(list)
  BY LenProperties DEF TypeOK, Unseen
<1>1. ASSUME NEW c \in here PROVE u \notin Shown(c, list, Sight) BY <1>1 DEF Unseen
<1>2. \A c \in Client : Acts(c) => c \in here /\ c \notin owners /\ c \notin unsent BY DEF Acts
<1>3. ASSUME SameKinds(list, list') PROVE Kept(u) BY <1>0, <1>3 DEF SameKinds, Kept
<1>4. ASSUME list' = list PROVE Kept(u) BY <1>0, <1>4 DEF Kept
<1>5. ASSUME NEW c, Reveal(c, list) PROVE Kept(u) BY <1>0, <1>3, <1>5, RevealShowsTheSame
<1>6. ASSUME NEW c \in Client, \/ Enter(c) \/ Look(c) \/ ViewInventory(c) \/ ChangeBag(c)
                               \/ Grant(c) \/ Refresh(c) \/ Blind(c)
      PROVE  Kept(u)
  BY <1>4, <1>6 DEF Enter, Look, ViewInventory, ChangeBag, Grant, Refresh, Blind
<1>7. ASSUME NEW c \in Client,
             \/ Leave(c) \/ LeaveHiding(c) \/ Unhide(c) \/ \E p \in Positions : ChangePosition(c, p)
             \/ Withdraw(c)
      PROVE  Kept(u)
  BY <1>4, <1>5, <1>7 DEF Leave, Removed, LeaveHiding, Unhide, ChangePosition, Withdraw
<1>8. ASSUME NEW c \in Client, Disconnect(c) PROVE Kept(u)
  <2>1. CASE Lost(c, list) BY <1>4, <1>8, <2>1 DEF Disconnect
  <2>2. CASE ~Lost(c, list) BY <1>5, <1>8, <2>2 DEF Disconnect, Removed
  <2> QED BY <2>1, <2>2
<1>9. ASSUME NEW c \in Client,
             \/ Load(c) \/ Overlay(c)
             \/ \E i \in Index : SetProperties(c, i) \/ \E j \in Index : Swap(c, i, j) \/ Insert(c, i, j)
             \/ \E m \in Modes : EvidenceMod(c, m)
             \/ \E d \in Lights : SwitchLights(c, d)
      PROVE  Kept(u)
  BY <1>2, <1>9 DEF Load, Overlay, SetProperties, Swap, Insert, EvidenceMod, SwitchLights
<1>10. ASSUME NEW k \in Kind, list' = Append(list, New(k)) PROVE Kept(u)
  <2>1. Len(list') = Len(list) + 1 /\ list'[u] = list[u]
    BY <1>0, <1>10, ItemsAdded, AppendProperties
  <2>2. u \in DOMAIN list' BY <1>0, <2>1
  <2> QED BY <2>1, <2>2 DEF Kept
<1>11. ASSUME NEW c \in Client, Add(c) \/ Drop(c) PROVE Kept(u)
  <2>1. list' = list \/ \E k \in Kind : list' = Append(list, New(k))
    BY <1>11, ItemsAdded DEF Add, Drop, AddTo
  <2> QED BY <1>4, <1>10, <2>1
<1>12. ASSUME NEW c \in Client, PresentInventory(c) PROVE Kept(u)
  <2>1. PICK l \in (IF MayAdd(c) THEN {Append(list, New(k)) : k \in AddedKinds(c)} ELSE {list}) :
          LET s == Shown(c, l, Sight)
          IN IF s = {} THEN list' = l /\ UNCHANGED << hiddenIn, dislodged >>
             ELSE PresentItem(l, Last(s))
    BY <1>12 DEF PresentInventory
  <2>2. l \in Seq(Evidence) /\ Len(l) \in Nat /\ Len(l) >= Len(list) /\ u \in 1 .. Len(l) /\ l[u] = list[u]
    <3>1. l \in Seq(Evidence) /\ Len(l) >= Len(list) /\ l[u] = list[u] BY <1>0, ListWithAdded
    <3>2. Len(l) \in Nat BY <3>1, LenProperties
    <3> QED BY <1>0, <3>1, <3>2
  <2>3. CASE Shown(c, l, Sight) = {} BY <1>0, <2>1, <2>2, <2>3 DEF Kept
  <2>4. CASE Shown(c, l, Sight) # {}
    <3> DEFINE i == Last(Shown(c, l, Sight))
    <3>1. i \in Shown(c, l, Sight) /\ i \in 1 .. Len(l) BY <2>2, <2>4, PresentedIsShown
    <3>2. PresentItem(l, i) BY <2>1, <2>4
    <3>3. c \in here BY <1>2, <1>12 DEF PresentInventory
    <3>4. u \notin Shown(c, l, Sight)
      <4>1. u \notin Shown(c, list, Sight) BY <1>1, <3>3
      <4>2. DOMAIN l = 1 .. Len(l) BY <2>2, LenProperties
      <4> QED BY <1>0, <2>2, <4>1, <4>2 DEF Shown
    <3> HIDE DEF i
    <3>5. Len(list') = Len(l) /\ list'[u].kind = l[u].kind
      BY <2>2, <3>1, <3>2, <3>4, PresentedItems
    <3> QED BY <1>0, <2>2, <3>5 DEF Kept
  <2> QED BY <2>3, <2>4
<1>13. ASSUME NEW c \in Client, NEW i \in Index, Hide(c, i) PROVE Kept(u)
  <2>1. CASE list' = [list EXCEPT ![i].hider = c]
    <3>1. i \in 1 .. Len(list) BY <1>0, <1>13 DEF Hide
    <3> QED BY <1>0, <1>3, <2>1, <3>1, HiderSet
  <2>2. CASE Reveal(list[i].hider, list) BY <1>5, <2>2
  <2> QED BY <1>13, <2>1, <2>2 DEF Hide
\* A number that a player sends is of an item that it is shown.
<1>14. ASSUME NEW c \in Client, NEW i, Named(c, i)
       PROVE  /\ Meant(c, i) = i /\ i \in Shown(c, list, Sight) /\ i # u
              /\ i \in 1 .. Len(list) /\ c \notin owners
  <2>1. c \in here /\ c \notin owners /\ c \notin unsent BY <1>2, <1>14 DEF Named
  <2>2. seen[c] = Shown(c, list, Sight)
    BY <1>14, <2>1 DEF Named, ByCommand, SeenIsCurrent
  <2> QED BY <1>0, <1>1, <1>14, <2>1, <2>2 DEF Named, Meant, Translated
<1>15. ASSUME NEW c \in Client, NEW i \in Index, Remove(c, i) PROVE Kept(u)
  <2>1. DeleteAt(i) /\ i # u /\ i \in 1 .. Len(list) BY <1>14, <1>15 DEF Remove
  <2>2. list' = Deleted(list, i) \/ list' = Vacated(list[i].hider, Deleted(list, i))
    BY <2>1 DEF DeleteAt
  <2> DEFINE l == Deleted(list, i)
  <2>3. /\ l \in Seq(Evidence) /\ Len(l) = Len(list) - 1
        /\ \A j \in 1 .. Len(list) - 1 : l[j] = IF j < i THEN list[j] ELSE list[j + 1]
    BY <1>0, <2>1, DeletedItems
  <2> HIDE DEF l
  <2>4. SameKinds(l, list') BY <2>2, <2>3, VacatedItems DEF SameKinds, l
  <2>5. CASE u < i
    <3>1. u \in 1 .. Len(list) - 1 BY <1>0, <2>1, <2>5
    <3> QED BY <1>0, <2>3, <2>4, <2>5, <3>1 DEF Kept, SameKinds
  <2>6. CASE u > i
    <3>1. u - 1 \in 1 .. Len(list) - 1 /\ ~(u - 1 < i) /\ u - 1 + 1 = u BY <1>0, <2>1, <2>6
    <3>2. l[u - 1] = list[u] BY <2>3, <3>1
    <3>3. u - 1 \in DOMAIN list' /\ list'[u - 1].kind = list[u].kind
      BY <1>0, <2>3, <2>4, <3>1, <3>2 DEF SameKinds
    <3> QED BY <3>3 DEF Kept
  <2> QED BY <1>0, <2>1, <2>5, <2>6
<1>16. ASSUME NEW c \in Client, NEW i \in Index, Edit(c, i) PROVE Kept(u)
  <2>1. Meant(c, i) = i /\ i # u /\ i \in 1 .. Len(list) /\ c \notin owners
    BY <1>14, <1>16 DEF Edit
  <2>2. list' = [list EXCEPT ![i] = Replaced(list[i].kind, i)]
    BY <1>16, <2>1 DEF Edit, EditedKinds
  <2>3. Replaced(list[i].kind, i) \in Evidence
    <3>1. list[i] \in Evidence BY <1>0, <2>1, ElementOfSeq
    <3>2. list[i].kind \in Kind BY <3>1 DEF Evidence
    <3> QED BY <3>2, ItemsAdded DEF Replaced
  <2>4. Len(list') = Len(list) /\ list'[u] = list[u] BY <1>0, <2>1, <2>2, <2>3, ExceptSeq
  <2> QED BY <1>0, <2>4 DEF Kept
<1>17. ASSUME NEW c \in Client, NEW i \in Index, Present(c, i) PROVE Kept(u)
  <2>1. i \in 1 .. Len(list) /\ PresentItem(list, i) /\ c \in here /\ c \notin viewing /\ i \in seen[c]
    BY <1>0, <1>2, <1>17 DEF Present
  <2>2. i # u
    <3>1. c \notin unsent BY <1>2, <1>17 DEF Present
    <3> QED BY <1>1, <2>1, <3>1 DEF SeenIsCurrent
  <2>3. Len(list') = Len(list) /\ list'[u].kind = list[u].kind
    BY <1>0, <2>1, <2>2, PresentedItems
  <2> QED BY <1>0, <2>3 DEF Kept
<1>18. CASE UNCHANGED vars BY <1>4, <1>18 DEF vars
<1> QED
  BY <1>6, <1>7, <1>8, <1>9, <1>11, <1>12, <1>13, <1>15, <1>16, <1>17, <1>18 DEF Next

\* While no owner is in the area, nor anybody who was sent no list, players remove and change
\* only items they are shown, for all players, items and positions (del_evidence,
\* edit_evidence, send_ic).
THEOREM UnseenAlwaysUntouched == Spec => UnseenIsUntouched
<1>1. ASSUME TypeOK, TypeOK', SeenIsCurrent, [Next]_vars
      PROVE  here \cap (owners \cup unsent) = {} =>
               \A i \in DOMAIN list \ UNION {Shown(c, list, Sight) : c \in here} :
                 \E j \in DOMAIN list' : j \in {i - 1, i} /\ list'[j].kind = list[i].kind
  BY <1>1, UnseenStep DEF Unseen, Kept
<1> QED BY <1>1, TypesAlways, SeenAlwaysCurrent, PTL DEF Spec, UnseenIsUntouched

=============================================================================
