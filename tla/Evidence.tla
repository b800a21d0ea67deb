------------------------------ MODULE Evidence ------------------------------
(***************************************************************************)
(* The evidence of one area (evidence.py), the players who hide in it,     *)
(* their inventories, and what each of them has been shown.                *)
(*                                                                         *)
(* client.hidden_in is an index into the list, item.hiding_client the way  *)
(* back; client.evi_list translates the numbers of the items a client is   *)
(* shown into such indexes. Both are kept while others reorder, shorten    *)
(* and replace the list. Names, texts and images are left out; items are   *)
(* told apart by who is shown them and what may be done with them, the     *)
(* items of an inventory only counted. Players have a character each.      *)
(* Rights and blindness are those of clients that are in the area.         *)
(***************************************************************************)
EXTENDS Integers, Sequences, FiniteSets

CONSTANTS
  Client,
  Trusted,   \* the clients that may be moderators, GMs or CMs
  None,
  Modes,     \* subset of {"FFA", "CM", "HiddenCM"}: the evidence modes that are used
  Lights,    \* values of area.dark that are used
  Kinds,     \* the items owners make
  Positions, \* the positions players take
  Ways,      \* indexes of items that lead out of the area (the links' evidence)
  Reveals,   \* area.present_reveals_evidence
  Limit,     \* EvidenceList.limit
  MaxBag,    \* bound on an inventory
  Carriers,  \* bound: the clients that use their inventories
  Blindable  \* bound: the clients that are blinded

VARIABLES
  here,      \* area.clients
  gone,      \* those whose connection is lost, but who could not be removed
  mode,      \* area.evidence_mod
  dark,      \* area.dark
  owners,    \* the moderators, GMs and CMs
  blinded,   \* client.blinded
  list,      \* area.evi_list.evidences
  hiddenIn,  \* client.hidden_in
  pos,       \* client.pos
  seen,      \* client.evi_list: the indexes of the items a client was last sent
  viewing,   \* clients that view their inventory instead
  bag,       \* how many items an inventory has
  dislodged, \* history: clients whose item was moved, edited, replaced or left for
             \* another, or lost its hiding_client to somebody's stale index
  unsent     \* history: clients that were sent no list, because an exception came before it
             \* or because /refresh took their rights

vars ==
  << here, gone, mode, dark, owners, blinded, list, hiddenIn, pos, seen, viewing, bag, dislodged,
     unsent >>

\* Evidence: where it is shown, show_in_dark, what may be done, and hiding_client.
Kind == [at : Positions \cup {"all", "hidden"}, lit : 0 .. 2,
         may : SUBSET {"hide", "take", "edit"}]

ASSUME EvidenceAssumption ==
  /\ Trusted \cup Carriers \cup Blindable \subseteq Client /\ None \notin Client /\ None \notin Nat
  /\ Lights \subseteq BOOLEAN /\ Lights # {} /\ Modes # {} /\ Positions # {}
  /\ Reveals \in BOOLEAN /\ Limit \in Nat /\ MaxBag \in Nat /\ Ways \subseteq Nat
  /\ Kinds \subseteq Kind

Evidence == [kind : Kind, hider : Client \cup {None}]

New(k) == [kind |-> k, hider |-> None]

\* An item made without metadata.
Plain(p) == [at |-> p, lit |-> 0, may |-> {"take", "edit"}]

TypeOK ==
  /\ here \subseteq Client /\ gone \subseteq here /\ viewing \subseteq Client
  /\ dislodged \subseteq Client /\ unsent \subseteq Client
  /\ owners \subseteq Client /\ blinded \subseteq Client
  /\ mode \in Modes /\ dark \in Lights
  /\ list \in Seq(Evidence)
  /\ hiddenIn \in [Client -> Nat \cup {None}]
  /\ pos \in [Client -> Positions]
  /\ seen \in [Client -> SUBSET Nat]
  /\ bag \in [Client -> Nat]

Init ==
  /\ here = {} /\ gone = {} /\ viewing = {} /\ dislodged = {} /\ unsent = {}
  /\ owners = {} /\ blinded = {}
  /\ mode \in Modes /\ dark \in Lights /\ list = << >>
  /\ hiddenIn = [c \in Client |-> None]
  /\ pos \in [Client -> Positions]
  /\ seen = [c \in Client |-> {}]
  /\ bag = [c \in Client |-> 0]

-----------------------------------------------------------------------------
\* What clients are shown

\* can_see
CanSee(c, kind, ps) == kind.at \in {"all", ps[c]}

\* What decides that.
Sight == [dark |-> dark, pos |-> pos, owners |-> owners, blinded |-> blinded]

\* It is dark for the blinded.
InTheDark(c, sight) == sight.dark \/ c \in sight.blinded

Visible(kind, inTheDark) == IF inTheDark THEN kind.lit # 0 ELSE kind.lit # 2

\* create_evi_list: owners are shown all, others what their position and the light allow.
Shown(c, l, sight) ==
  {i \in DOMAIN l :
     c \in sight.owners
       \/ (CanSee(c, l[i].kind, sight.pos) /\ Visible(l[i].kind, InTheDark(c, sight)))}

SentBefore(D) ==
  [c \in Client |-> IF c \in D \ viewing' THEN Shown(c, list, Sight) ELSE seen[c]]

\* update_evidence_list, for those that do not view their inventories.
Sent(D) == [c \in Client |-> IF c \in D \ viewing' THEN Shown(c, list', Sight') ELSE seen[c]]

SendTo(D) == seen' = Sent(D) /\ unsent' = unsent \ D

\* broadcast_evidence_list
Broadcast == SendTo(here')

Rights == << owners, blinded >>

Unchanged == UNCHANGED << mode, dark, pos, viewing >> /\ UNCHANGED Rights

\* login
Login(c) == mode # "CM" \/ c \in owners

\* A command or packet of a client in the area.
Acts(c) == c \in here \ gone

-----------------------------------------------------------------------------
\* Hiding

\* hide(False) looks the item up by its index, and fails where there is none.
Lost(c, l) == hiddenIn[c] # None /\ hiddenIn[c] \notin DOMAIN l

ClearsAtIndex(c, l) ==
  IF hiddenIn[c] \in DOMAIN l THEN [l EXCEPT ![hiddenIn[c]].hider = None] ELSE l

ClearsNothing(c, l) == l

Vacated(c, l) == ClearsAtIndex(c, l)

\* Others whose hiding_client is cleared in place of that of c.
Robbed(c, l) ==
  IF hiddenIn[c] \in DOMAIN l THEN {l[hiddenIn[c]].hider} \ {None, c} ELSE {}

\* hide(False) of c over the list l, the rest of the call done by then.
Reveal(c, l) ==
  /\ list' = Vacated(c, l)
  /\ hiddenIn' = [hiddenIn EXCEPT ![c] = None]
  /\ dislodged' = dislodged \cup Robbed(c, l)

Stays == UNCHANGED << list, hiddenIn, dislodged >>

\* hide: an item the player can see (light does not matter) and hide in. If it is
\* taken, its hider comes out, and nobody gets in.
Hide(c, i) ==
  /\ Acts(c) /\ i \in DOMAIN list
  /\ CanSee(c, list[i].kind, pos) /\ "hide" \in list[i].kind.may
  /\ LET o == list[i].hider IN
     \/ /\ o = None
        /\ list' = [list EXCEPT ![i].hider = c]
        /\ hiddenIn' = [hiddenIn EXCEPT ![c] = i]
        /\ dislodged' = IF hiddenIn[c] = None THEN dislodged ELSE dislodged \cup {c}
     \/ o # None /\ ~Lost(o, list) /\ Reveal(o, list)
  /\ UNCHANGED << here, gone, seen, bag, unsent >> /\ Unchanged

Unhide(c) ==
  /\ Acts(c) /\ hiddenIn[c] # None /\ ~Lost(c, list)
  /\ Reveal(c, list)
  /\ UNCHANGED << here, gone, seen, bag, unsent >> /\ Unchanged

-----------------------------------------------------------------------------
\* Presence

\* Somebody comes in, with rights or blinded or not.
Enter(c) ==
  /\ c \notin here
  /\ here' = here \cup {c}
  /\ viewing' \in {viewing, viewing \ {c}}   \* as it was elsewhere
  /\ owners' \in {owners, owners \cup ({c} \cap Trusted)}
  /\ blinded' \in {blinded, blinded \cup ({c} \cap Blindable)}
  /\ Stays /\ UNCHANGED << gone, bag, mode, dark, pos >>
  /\ SendTo({c})

\* Area.remove_client, when that is possible.
Removed(c) ==
  /\ Reveal(c, list)
  /\ here' = here \ {c}
  /\ owners' = owners \ {c} /\ blinded' = blinded \ {c}
  /\ seen' = [seen EXCEPT ![c] = {}]
  /\ UNCHANGED << gone, bag, mode, dark, pos, viewing, unsent >>

\* change_area: from a hiding place that is on the way, or from none.
Leave(c) == Acts(c) /\ hiddenIn[c] \in Ways \cup {None} /\ ~Lost(c, list) /\ Removed(c)

\* change_area, otherwise: the move fails, and the player is revealed.
LeaveHiding(c) == hiddenIn[c] \notin Ways /\ Unhide(c)

\* remove_client, of a lost connection: it ends at an item that is not there.
Disconnect(c) ==
  /\ Acts(c)
  /\ IF Lost(c, list)
     THEN gone' = gone \cup {c} /\ Stays /\ UNCHANGED << here, seen, bag, unsent >> /\ Unchanged
     ELSE Removed(c)

\* change_position: reveals first.
ChangePosition(c, p) ==
  /\ Acts(c) /\ p # pos[c] /\ ~Lost(c, list)
  /\ Reveal(c, list)
  /\ pos' = [pos EXCEPT ![c] = p]
  /\ UNCHANGED << here, gone, bag, mode, dark, viewing >> /\ UNCHANGED Rights
  /\ Broadcast

-----------------------------------------------------------------------------
\* Rights

\* login, and add_owner of the hub and the area.
Grant(c) ==
  /\ c \in (here \cap Trusted) \ owners
  /\ owners' = owners \cup {c}
  /\ Stays /\ UNCHANGED << here, gone, bag, mode, dark, pos, viewing, blinded >>
  /\ Broadcast

\* unmod, and remove_owner of the area and of the hub, which then reveals the client (which
\* fails for one whose item is not there).
Withdraw(c) ==
  /\ c \in owners /\ owners' = owners \ {c}
  /\ Stays \/ (~Lost(c, list) /\ Reveal(c, list))
  /\ UNCHANGED << here, gone, bag, mode, dark, pos, viewing, blinded >>
  /\ Broadcast

\* refresh, where the password of a moderator has changed: its list is not sent.
Revoked(c) == owners' = owners \ {c} /\ unsent' = unsent \cup {c}

Refresh(c) ==
  /\ c \in owners /\ Revoked(c)
  /\ Stays /\ UNCHANGED << here, gone, seen, bag, mode, dark, pos, viewing, blinded >>

\* blind, unblind
Blind(c) ==
  /\ c \in here \cap Blindable
  /\ blinded' = IF c \in blinded THEN blinded \ {c} ELSE blinded \cup {c}
  /\ Stays /\ UNCHANGED << here, gone, bag, mode, dark, pos, viewing, owners >>
  /\ SendTo({c})

-----------------------------------------------------------------------------
\* The list

MayAdd(c) == Login(c) /\ (c \in owners \/ ~dark) /\ Len(list) < Limit

\* add_evidence: owners give metadata in HiddenCM, and hide what has none.
AddedKinds(c) ==
  IF mode = "HiddenCM" /\ c \in owners THEN Kinds \cup {Plain("hidden")} ELSE {Plain("all")}

AddTo(c) ==
  IF MayAdd(c) THEN \E k \in AddedKinds(c) : list' = Append(list, New(k)) ELSE UNCHANGED list

\* net_cmd_pe, evidence_add (they send the list even when nothing was added).
Add(c) ==
  /\ Acts(c) /\ MayAdd(c) /\ AddTo(c)
  /\ UNCHANGED << here, gone, hiddenIn, bag, dislodged >> /\ Unchanged
  /\ Broadcast

\* The numbers clients send are those of what they were sent.
Rank(c, i) == Cardinality({j \in seen[c] : j <= i})

Untranslated(c, i) == Rank(c, i)

Translated(c, i) == i

\* get_evidence_list for /evidence and the commands that take the name of an item, which
\* look it up in what they show: seen is current then, also of those that view their
\* inventory (whose packets are about that).
Look(c) ==
  /\ Acts(c)
  /\ seen' = [seen EXCEPT ![c] = Shown(c, list, Sight)]
  /\ Stays /\ UNCHANGED << here, gone, bag, unsent >> /\ Unchanged

ByCommand(c) == seen[c] = Shown(c, list, Sight)

\* del_evidence and edit_evidence: owners send indexes; others name an item they were
\* sent. (The number itself is compared with the length of the list.) The packets of the
\* blinded are refused.
Named(c, i) ==
  /\ Acts(c) /\ Login(c) /\ (c \notin viewing \cup blinded \/ ByCommand(c))
  /\ IF c \in owners THEN i \in DOMAIN list
     ELSE i \in seen[c] /\ Translated(c, i) \in DOMAIN list /\ Rank(c, i) <= Len(list)

Meant(c, i) == IF c \in owners THEN i ELSE Translated(c, i)

Deleted(l, i) == SubSeq(l, 1, i - 1) \o SubSeq(l, i + 1, Len(l))

\* Everybody behind the item moves up; who hides in it comes out of what is at its
\* index then. If there is nothing, the item is gone, and the call ends there: its
\* hider stays, and the others are not told.
DeleteAt(i) ==
  LET h == list[i].hider
      l == Deleted(list, i)
      moved == {c \in Client : hiddenIn[c] # None /\ hiddenIn[c] > i}
  IN \/ /\ h = None
        /\ list' = l /\ dislodged' = dislodged \cup moved
        /\ UNCHANGED hiddenIn /\ Broadcast
     \/ /\ h # None /\ ~Lost(h, l)
        /\ list' = Vacated(h, l)
        /\ hiddenIn' = [hiddenIn EXCEPT ![h] = None]
        /\ dislodged' = dislodged \cup moved \cup Robbed(h, l)
        /\ Broadcast
     \/ /\ h # None /\ Lost(h, l)
        /\ list' = l /\ dislodged' = dislodged \cup moved \cup {h}
        /\ unsent' = unsent \cup here
        /\ UNCHANGED << hiddenIn, seen >>

\* Others take the item with them where owners hide evidence.
Takes(c, i) == mode = "HiddenCM" /\ c \notin owners /\ list[i].kind.at # "hidden"

Remove(c, i) ==
  /\ Named(c, i) /\ (c \in owners \/ ~dark)
  /\ UNCHANGED << here, gone >> /\ Unchanged
  /\ LET j == Meant(c, i) IN
       /\ Takes(c, j) => {"take", "edit"} \subseteq list[j].kind.may /\ bag[c] < MaxBag
       /\ bag' = IF Takes(c, j) THEN [bag EXCEPT ![c] = @ + 1] ELSE bag
       /\ DeleteAt(j)

\* edit_evidence: a new object takes the place of the item, with nobody in it. Owners
\* give metadata in HiddenCM (or hide the item), and reset it elsewhere.
EditedKinds(c, i) ==
  IF c \notin owners THEN {list[i].kind}
  ELSE IF mode = "HiddenCM" THEN Kinds \cup {Plain("hidden")} ELSE {Plain("all")}

Replaced(k, i) == New(k)

MayEdit(c, i) ==
  c \in owners \/ ("edit" \in list[i].kind.may /\ Visible(list[i].kind, InTheDark(c, Sight)))

Edit(c, i) ==
  /\ Named(c, i)
  /\ LET j == Meant(c, i) IN
       /\ MayEdit(c, j)
       /\ \E k \in EditedKinds(c, j) : list' = [list EXCEPT ![j] = Replaced(k, j)]
       /\ dislodged' = dislodged \cup ({list[j].hider} \ {None})
  /\ UNCHANGED << here, gone, hiddenIn, bag >> /\ Unchanged
  /\ Broadcast

\* evidence_swap
Swap(c, i, j) ==
  /\ Acts(c) /\ c \in owners /\ i \in DOMAIN list /\ j \in DOMAIN list /\ i < j
  /\ list' = [list EXCEPT ![i] = list[j], ![j] = list[i]]
  /\ dislodged' = dislodged \cup {d \in Client : hiddenIn[d] \in {i, j}}
  /\ UNCHANGED << here, gone, hiddenIn, bag >> /\ Unchanged
  /\ Broadcast

\* evidence_insert
Inserted(m, i, j) ==
  LET l == Deleted(m, i) IN SubSeq(l, 1, j - 1) \o << m[i] >> \o SubSeq(l, j, Len(l))

Insert(c, i, j) ==
  /\ Acts(c) /\ c \in owners /\ i \in DOMAIN list /\ j \in DOMAIN list /\ i # j
  /\ list' = Inserted(list, i, j)
  /\ dislodged' = dislodged \cup {d \in Client : hiddenIn[d] \in (i .. j) \cup (j .. i)}
  /\ UNCHANGED << here, gone, hiddenIn, bag >> /\ Unchanged
  /\ Broadcast

\* evidence_load, and loading the area: other items, or none, and the hidden are left
\* where they were.
Load(c) ==
  /\ Acts(c) /\ c \in owners
  /\ \E k \in Kinds : list' \in {<< >>, << New(k) >>}
  /\ dislodged' = dislodged \cup {d \in Client : hiddenIn[d] # None}
  /\ UNCHANGED << here, gone, hiddenIn, bag >> /\ Unchanged
  /\ Broadcast

\* evidence_overlay: import_evidence after what is there (Limit bounds it in this model).
Overlay(c) ==
  /\ Acts(c) /\ c \in owners /\ Len(list) < Limit
  /\ \E k \in Kinds : list' = Append(list, New(k))
  /\ UNCHANGED << here, gone, hiddenIn, bag, dislodged >> /\ Unchanged
  /\ Broadcast

\* evidence_pos, evidence_dark, evidence_prefs; set_evidence_props_direct of the panel.
SetProperties(c, i) ==
  /\ Acts(c) /\ c \in owners /\ i \in DOMAIN list
  /\ \E k \in Kinds : list' = [list EXCEPT ![i].kind = k]
  /\ UNCHANGED << here, gone, hiddenIn, bag, dislodged >> /\ Unchanged
  /\ Broadcast

EvidenceMod(c, m) ==
  /\ Acts(c) /\ c \in owners /\ m # mode /\ mode' = m
  /\ Stays /\ UNCHANGED << here, gone, bag, dark, pos, viewing >> /\ UNCHANGED Rights
  /\ Broadcast

SwitchLights(c, d) ==
  /\ Acts(c) /\ c \in owners /\ d # dark /\ dark' = d
  /\ Stays /\ UNCHANGED << here, gone, bag, mode, pos, viewing >> /\ UNCHANGED Rights
  /\ Broadcast

-----------------------------------------------------------------------------
\* Presenting, and the inventory

\* present_reveals_evidence
VisibleToAll(l, i) == [l EXCEPT ![i].kind.at = "all"]

\* Presenting item i of the list l: who hides in it comes out, if that is possible. Then
\* it may become visible to all.
PresentItem(l, i) ==
  LET h == l[i].hider
      out == h # None /\ ~Lost(h, l)
      left == IF out THEN Vacated(h, l) ELSE l
  IN /\ list' = IF Reveals /\ (h = None \/ out) THEN VisibleToAll(left, i) ELSE left
     /\ hiddenIn' = IF out THEN [hiddenIn EXCEPT ![h] = None] ELSE hiddenIn
     /\ dislodged' = IF out THEN dislodged \cup Robbed(h, l) ELSE dislodged

\* The evidence of an IC message.
Present(c, i) ==
  /\ Acts(c) /\ c \notin viewing /\ i \in seen[c] /\ i \in DOMAIN list
  /\ PresentItem(list, i)
  /\ UNCHANGED << here, gone, bag >> /\ Unchanged
  /\ IF Reveals THEN Broadcast ELSE UNCHANGED << seen, unsent >>

Last(s) == CHOOSE i \in s : \A j \in s : j <= i

\* inventory_drop: the item is taken out whether or not the area takes it.
Drop(c) ==
  /\ Acts(c) /\ bag[c] > 0
  /\ bag' = [bag EXCEPT ![c] = @ - 1]
  /\ AddTo(c)
  /\ UNCHANGED << here, gone, hiddenIn, dislodged >> /\ Unchanged
  /\ Broadcast

\* Evidence of an IC message that is in the inventory: it is dropped, and the last item
\* of the list that is sent then, which is another one if it was refused, presented.
PresentInventory(c) ==
  /\ Acts(c) /\ c \in viewing /\ bag[c] > 0
  /\ bag' = [bag EXCEPT ![c] = @ - 1]
  /\ viewing' = viewing \ {c}
  /\ \E l \in (IF MayAdd(c) THEN {Append(list, New(k)) : k \in AddedKinds(c)} ELSE {list}) :
       LET s == Shown(c, l, Sight)
       IN IF s = {} THEN list' = l /\ UNCHANGED << hiddenIn, dislodged >>
          ELSE PresentItem(l, Last(s))
  /\ UNCHANGED << here, gone, mode, dark, pos >> /\ UNCHANGED Rights
  /\ Broadcast

\* set_view_inventory
ViewInventory(c) ==
  /\ Acts(c) /\ c \in Carriers
  /\ viewing' = IF c \in viewing THEN viewing \ {c} ELSE viewing \cup {c}
  /\ Stays /\ UNCHANGED << here, gone, bag, mode, dark, pos >> /\ UNCHANGED Rights
  /\ SendTo({c})

\* Additions to and deletions from an inventory, of players (while they view it), GMs
\* (inventory_add, inventory_remove) and the battle's items.
ChangeBag(c) ==
  /\ Acts(c) /\ c \in Carriers
  /\ \E n \in {bag[c] - 1, bag[c] + 1} \cap (0 .. MaxBag) : bag' = [bag EXCEPT ![c] = n]
  /\ Stays /\ UNCHANGED << here, gone, seen, unsent >> /\ Unchanged

-----------------------------------------------------------------------------
Index == 1 .. Limit

Next ==
  \/ \E c \in Client :
       \/ Enter(c) \/ Leave(c) \/ LeaveHiding(c) \/ Disconnect(c) \/ Unhide(c)
       \/ Grant(c) \/ Withdraw(c) \/ Refresh(c) \/ Blind(c)
       \/ Add(c) \/ Load(c) \/ Overlay(c) \/ Look(c) \/ ViewInventory(c) \/ ChangeBag(c)
       \/ Drop(c) \/ PresentInventory(c)
       \/ \E i \in Index :
            \/ Hide(c, i) \/ Remove(c, i) \/ Edit(c, i) \/ SetProperties(c, i) \/ Present(c, i)
            \/ \E j \in Index : Swap(c, i, j) \/ Insert(c, i, j)
       \/ \E p \in Positions : ChangePosition(c, p)
       \/ \E m \in Modes : EvidenceMod(c, m)
       \/ \E d \in Lights : SwitchLights(c, d)

Spec == Init /\ [][Next]_vars

-----------------------------------------------------------------------------
\* Properties

\* The index of a hider and the hiding_client of an item mean each other, for everybody
\* whose item was not moved, edited, replaced, left for another, or cleared through
\* somebody else's stale index: no other of the ways in which players hide, are
\* discovered, move, present, leave and disconnect tears them apart.
HidersAreFound ==
  \A c \in Client \ dislodged :
    /\ \A i \in DOMAIN list : list[i].hider = c <=> hiddenIn[c] = i
    /\ hiddenIn[c] # None => c \in here /\ hiddenIn[c] \in DOMAIN list

\* The numbers a client was sent are those it would be sent now, after whatever changed
\* the list, the light, its position, its sight or its rights, unless a deletion was cut
\* short or /refresh took its rights: until it is sent a list again.
SeenIsCurrent ==
  \A c \in here \ (viewing \cup unsent) : seen[c] = Shown(c, list, Sight)

\* While no owner is in the area, nor anybody who was sent no list, items that nobody there
\* is shown are not removed or changed, but for who hides in them: others reach through
\* the numbers they were sent only what they may see.
UnseenIsUntouched ==
  [][ here \cap (owners \cup unsent) = {} =>
        \A i \in DOMAIN list \ UNION {Shown(c, list, Sight) : c \in here} :
          \E j \in DOMAIN list' : j \in {i - 1, i} /\ list'[j].kind = list[i].kind ]_vars

\* tsuserver.remove_client: a disconnected client is removed. (It is not, if it hides in
\* an item that was deleted from the end of the list, or in one of a list that was
\* replaced by a shorter one: the README explains.)
DisconnectedAreRemoved == gone = {}

=============================================================================
