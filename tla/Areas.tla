------------------------------- MODULE Areas -------------------------------
(***************************************************************************)
(* The areas of a hub in their order, and the links between them. A link   *)
(* names its target by number, the position in the list of areas: creating,*)
(* removing, swapping, switching and duplicating areas has to renumber the *)
(* links (area_manager.py), the commands of area_access.py make and change *)
(* them, and clients walk along them. A dict is the sequence of its items, *)
(* in the order of insertion. Numbers are the code's, from 0.              *)
(***************************************************************************)
EXTENDS Integers, SequencesExt, FiniteSetsExt

CONSTANTS
  Area,      \* Area instances, of which those in First are there at the start
  First,     \* the areas of the hub in areas.yaml, in order
  Client,
  GMs,       \* who may command areas and links; the others walk
  MaxAreas,  \* the hub's max_areas
  MaxLinks   \* bound: how many links there are

\* Of the fields of a link, the lock stands for those that only refuse a walk or say how
\* the link looks: evidence to hide in, password, peeking, position, hiding, seeing through.
Link == [key : 0 .. MaxAreas - 1, locked : BOOLEAN]

VARIABLES
  areas,   \* area_manager.areas
  links,   \* area.links: [Area -> Seq(Link)]
  where    \* client.area: [Client -> Area]

vars == << areas, links, where >>

Keys(d) == {d[i].key : i \in DOMAIN d}

TypeOK ==
  /\ areas \in Seq(Area) /\ IsInjective(areas)
  /\ \A a \in Area : links[a] \in Seq(Link) /\ Cardinality(Keys(links[a])) = Len(links[a])
  /\ where \in [Client -> Range(areas)]

Init ==
  /\ areas = First
  /\ links = [a \in Area |-> << >>]
  /\ where = [c \in Client |-> First[1]]

-----------------------------------------------------------------------------
\* Dicts

At(d, k) == CHOOSE i \in DOMAIN d : d[i].key = k

\* d[k] = link: in its place if the key is there, else last.
Put(d, k, link) ==
  LET new == [link EXCEPT !.key = k]
  IN IF k \in Keys(d) THEN [d EXCEPT ![At(d, k)] = new] ELSE Append(d, new)

Del(d, k) == SelectSeq(d, LAMBDA l : l.key # k)

Moved(d, k, to) == Put(Del(d, k), to, d[At(d, k)])

-----------------------------------------------------------------------------
\* area_manager.py

Id(a) == (CHOOSE i \in DOMAIN areas : areas[i] = a) - 1

Known(k) == k \in 0 .. Len(areas) - 1

Numbered(k) == areas[k + 1]

\* The first area, or the second if the first one is removed.
Refuge(a) == IF a # areas[1] THEN areas[1] ELSE areas[2]

ShiftedOne(d, k, id) ==
  IF k > id THEN Moved(d, k, k - 1)
  ELSE IF k = id THEN Del(d, k)
  ELSE d

\* Item by item in the order of insertion.
Shifted(d, id) ==
  FoldLeft(LAMBDA r, l : ShiftedOne(r, l.key, id), d, d)

RemoveArea(a) ==
  /\ a \in Range(areas) /\ Len(areas) > 1
  /\ where' = [c \in Client |-> IF where[c] = a THEN Refuge(a) ELSE where[c]]
  /\ links' = [x \in Area |-> IF x = a \/ x \notin Range(areas) THEN << >>
                              ELSE Shifted(links[x], Id(a))]
  /\ areas' = SelectSeq(areas, LAMBDA x : x # a)

\* A single "elif" too many: of two links, one overwrites the other.
RenamedOne(d, i, j) ==
  IF i \in Keys(d) THEN Moved(d, i, j)
  ELSE IF j \in Keys(d) THEN Moved(d, j, i)
  ELSE d

\* If both are there their values change places; if one is, it becomes the other.
Renamed(d, i, j) ==
  IF {i, j} \subseteq Keys(d)
    THEN [d EXCEPT ![At(d, i)] = [d[At(d, j)] EXCEPT !.key = i],
                   ![At(d, j)] = [d[At(d, i)] EXCEPT !.key = j]]
  ELSE IF i \in Keys(d) THEN Moved(d, i, j)
  ELSE IF j \in Keys(d) THEN Moved(d, j, i)
  ELSE d

Reordered(a, b) ==
  areas' = [areas EXCEPT ![Id(a) + 1] = b, ![Id(b) + 1] = a]

\* /area_swap corrects the links.
SwapArea(a, b) ==
  /\ {a, b} \subseteq Range(areas)
  /\ Reordered(a, b)
  /\ links' = [x \in Area |-> Renamed(links[x], Id(a), Id(b))]
  /\ UNCHANGED where

\* /area_switch leaves them: they now lead to the area that has their number.
SwitchArea(a, b) ==
  /\ {a, b} \subseteq Range(areas)
  /\ Reordered(a, b)
  /\ UNCHANGED << links, where >>

CreateArea(a) ==
  /\ a \notin Range(areas) /\ Len(areas) < MaxAreas
  /\ areas' = Append(areas, a)
  /\ UNCHANGED << links, where >>

Fits == MapThenSumSet(LAMBDA a : Len(links'[a]), Area) <= MaxLinks

\* save() and load() copy the links, field by field.
DuplicateArea(a, new) ==
  /\ a \in Range(areas) /\ new \notin Range(areas) /\ Len(areas) < MaxAreas
  /\ areas' = Append(areas, new)
  /\ links' = [links EXCEPT ![new] = links[a]] /\ Fits
  /\ UNCHANGED where

-----------------------------------------------------------------------------
\* Commands on links (area_access.py), from the area in which the client is

NewLink(k) == [key |-> k, locked |-> FALSE]

\* Both ways; an area linked with itself gets one link.
LinkBoth(c, k) ==
  /\ Known(k)
  /\ LET here == where[c] there == Numbered(k)
         d == [links EXCEPT ![here] = Put(@, k, NewLink(k))]
     IN links' = [d EXCEPT ![there] = Put(@, Id(here), NewLink(Id(here)))] /\ Fits
  /\ UNCHANGED << areas, where >>

\* The way back is deleted only if there was a way there.
Unlink(c, k) ==
  /\ Known(k) /\ k \in Keys(links[where[c]])
  /\ LET d == [links EXCEPT ![where[c]] = Del(@, k)]
     IN links' = [d EXCEPT ![Numbered(k)] = Del(@, Id(where[c]))]
  /\ UNCHANGED << areas, where >>

Onelink(c, k) ==
  /\ Known(k)
  /\ links' = [links EXCEPT ![where[c]] = Put(@, k, NewLink(k))] /\ Fits
  /\ UNCHANGED << areas, where >>

OneUnlink(c, k) ==
  /\ k \in Keys(links[where[c]])
  /\ links' = [links EXCEPT ![where[c]] = Del(@, k)]
  /\ UNCHANGED << areas, where >>

LinkLock(c, k) ==
  /\ k \in Keys(links[where[c]])
  /\ links' = [links EXCEPT ![where[c]][At(links[where[c]], k)].locked = TRUE]
  /\ UNCHANGED << areas, where >>

LinkUnlock(c, k) ==
  /\ k \in Keys(links[where[c]])
  /\ links' = [links EXCEPT ![where[c]][At(links[where[c]], k)].locked = FALSE]
  /\ UNCHANGED << areas, where >>

-----------------------------------------------------------------------------
\* Walking (can_access_area, try_access_area): without links every area is open.

Open(c, k) ==
  LET d == links[where[c]]
  IN d # << >> => k \in Keys(d) /\ ~d[At(d, k)].locked

Walk(c, k) ==
  /\ Known(k) /\ Open(c, k)
  /\ where' = [where EXCEPT ![c] = Numbered(k)]
  /\ UNCHANGED << areas, links >>

Ordered ==
  \/ \E a \in Area : RemoveArea(a) \/ CreateArea(a)
  \/ \E a, b \in Area : SwapArea(a, b) \/ SwitchArea(a, b) \/ DuplicateArea(a, b)

Linked ==
  \E c \in GMs, k \in 0 .. MaxAreas - 1 :
    \/ LinkBoth(c, k) \/ Unlink(c, k) \/ Onelink(c, k) \/ OneUnlink(c, k)
    \/ LinkLock(c, k) \/ LinkUnlock(c, k)

Next == Ordered \/ Linked \/ \E c \in Client, k \in 0 .. MaxAreas - 1 : Walk(c, k)

Spec == Init /\ [][Next]_vars

-----------------------------------------------------------------------------
\* Properties

\* Where the links lead, and which are locked
Ways ==
  UNION {{<< a, Numbered(l.key), l.locked >> : l \in {x \in Range(links[a]) : Known(x.key)}} :
         a \in Range(areas)}

Leads == {<< w[1], w[2] >> : w \in Ways}

\* The renumbering of links (remove_area, swap_area): a swap keeps every way between two areas
\* and its lock, also where one area has links to both, or to itself; and a removal gives no
\* area a way that it did not have, nor one that ends outside the list.
ReorderingKeepsTheWays ==
  [][areas' # areas =>
       /\ \A a, b \in Area : SwapArea(a, b) => Ways' = Ways
       /\ Len(areas') < Len(areas) =>
            /\ Leads' \subseteq Leads
            /\ \A a \in Range(areas') : \A k \in Keys(links'[a]) : k < Len(areas')]_vars

\* remove_area shifts the links behind the removed area "down as one area was removed": the
\* ways between the other areas would stay as they were. No run checks it, as it does not
\* hold: see "Disagreements" in the README.
RemovalKeepsOtherWays ==
  [][\A a \in Area : RemoveArea(a) => Ways' = {w \in Ways : a \notin {w[1], w[2]}}]_vars

=============================================================================
