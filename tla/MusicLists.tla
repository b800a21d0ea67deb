----------------------------- MODULE MusicLists -----------------------------
(***************************************************************************)
(* The music lists a client's list is put together from: the server's, the *)
(* hub's, the area's and the client's own, and what each client was shown. *)
(*                                                                         *)
(* Lists are mutable and shared: a client's local_music_list holds the     *)
(* categories of the lists it was made of, and is one of them where a list *)
(* replaces the others. Editing a list changes it in every client that     *)
(* holds it, and the server then compares the new list with itself. A list *)
(* that was replaced is nobody's any more and does not change. A list is   *)
(* the set of its songs, of one category; a level is the hub, an area or a *)
(* client. Names are not prefixed by a folder here.                        *)
(***************************************************************************)
EXTENDS Naturals, FiniteSets

CONSTANTS
  Client, Area, Hub, \* the clients, the areas of the hub, and the hub
  File, Songs,       \* the lists that can be loaded, and Songs[f]
  AddedSongs,        \* the songs that people add
  Header,            \* { use_unique_folder }, the head of a list made by /musiclist_add
  Server, ServerLists, \* the server, and the lists that its music.yaml may hold
  Unsaved, None,
  Used               \* bound: the levels whose lists people change

Level == {Hub} \cup Area \cup Client

VARIABLES
  list,    \* music_list of the server, the hub, the areas and the clients
  ref,     \* music_ref of the levels
  replace, \* replace_music of the hub and the areas; that of a client is never set
  allow,   \* client_music of the hub and the areas
  at,      \* client.area, or None before the handshake
  held,    \* client.local_music_list: the levels whose lists it holds,
  kept,    \* and the other lists it holds
  seen,    \* what the client was last sent (FM, SM): those lists as they were
  untold   \* history: clients nothing was sent to when a preference changed, an edit failed,
           \* the server read its list anew (/refresh), or a list was edited that they held on
           \* to, although they had left its area

vars == << list, ref, replace, allow, at, held, kept, seen, untold >>

List == SUBSET ((UNION ServerLists) \cup (UNION {Songs[f] : f \in File}) \cup AddedSongs \cup {Header})

TypeOK ==
  /\ list \in [Level \cup {Server} -> List] /\ ref \in [Level -> File \cup {Unsaved, None}]
  /\ replace \in [Level -> BOOLEAN] /\ allow \in [{Hub} \cup Area -> BOOLEAN]
  /\ at \in [Client -> Area \cup {None}] /\ untold \subseteq Client
  /\ held \in [Client -> SUBSET (Level \cup {Server})]
  /\ \A c \in Client : kept[c] \subseteq List /\ seen[c] \subseteq List

Init ==
  /\ \E songs \in ServerLists :
       list = [l \in Level \cup {Server} |-> IF l = Server THEN songs ELSE {}]
  /\ ref = [l \in Level |-> None]
  /\ replace = [l \in Level |-> FALSE] /\ allow = [l \in {Hub} \cup Area |-> TRUE]
  /\ at = [c \in Client |-> None] /\ untold = {}
  /\ held = [c \in Client |-> {}] /\ kept = [c \in Client |-> {}] /\ seen = [c \in Client |-> {}]

-----------------------------------------------------------------------------
\* construct_music_list: what it makes of lists, refs and preferences.

Over(below, l, refs, lists, rep) ==
  IF refs[l] # None /\ lists[l] # {} THEN IF rep[l] THEN {l} ELSE below \cup {l} ELSE below

\* A list that has the name of one above it is left out: l is over the levels "above".
Names(refs, above) == {refs[k] : k \in above}

ConstructMusicList(c, a, refs, lists, rep, allowed) ==
  LET ofHub == Over({Server}, Hub, refs, lists, rep)
      ofArea == IF refs[a] \in Names(refs, {Hub}) THEN ofHub ELSE Over(ofHub, a, refs, lists, rep)
  IN IF ~allowed[Hub] \/ ~allowed[a] \/ refs[c] \in Names(refs, {Hub, a}) THEN ofArea
     ELSE Over(ofArea, c, refs, lists, rep)

Contents(levels, lists) == {lists[l] : l \in levels}

\* refresh_music of the manager: it sends where the local list differs, or to all with reload.
\* The local list may itself have been changed by the step, or replaced by it.
Edited == {l \in Level : list'[l] # list[l]}

Old(c, replaced) == kept[c] \cup {list[l] : l \in held[c] \cap replaced}

RefreshMusic(clients, replaced, reload) ==
  LET still(c) == held[c] \ replaced
      new(c) == ConstructMusicList(c, at'[c], ref', list', replace', allow')
      differs(c) == Old(c, replaced) \cup Contents(still(c), list') # Contents(new(c), list')
      told == {c \in clients : reload \/ differs(c)}
  IN /\ held' = [c \in Client |-> IF c \in told THEN new(c) ELSE still(c)]
     /\ kept' = [c \in Client |-> IF c \in told THEN {} ELSE Old(c, replaced)]
     /\ seen' = [c \in Client |-> IF c \in told THEN Contents(new(c), list') ELSE seen[c]]
     /\ untold' = (untold \ told) \cup {c \in Client \ clients : held[c] \cap (Edited \ replaced) # {}}

RefreshChanged(clients) == RefreshMusic(clients, {}, FALSE)

\* After an edit, which changed the local lists too.
RefreshEdited(clients) == RefreshMusic(clients, {}, TRUE)

Here(l) == IF l \in Client THEN {l} ELSE {c \in Client : at[c] # None /\ (l = Hub \/ at[c] = l)}

Present(l) == l \in Client => at[l] # None

Settings == << allow, at >>

-----------------------------------------------------------------------------
\* Actions

\* musiclist, area_musiclist, hub_musiclist: a new list.
LoadMusic(l, f) ==
  /\ Present(l)
  /\ list' = [list EXCEPT ![l] = Songs[f]]
  /\ ref' = [ref EXCEPT ![l] = f]
  /\ UNCHANGED replace /\ UNCHANGED Settings
  /\ RefreshMusic(Here(l), {l}, FALSE)

\* Without a name: the list is emptied, whoever holds it.
ClearMusic(l) ==
  /\ Present(l) /\ ref[l] # None
  /\ list' = [list EXCEPT ![l] = {}] /\ ref' = [ref EXCEPT ![l] = None]
  /\ replace' = IF l = Hub THEN [replace EXCEPT ![l] = FALSE] ELSE replace
  /\ UNCHANGED Settings
  /\ RefreshChanged(Here(l))

AddSong(l, s) ==
  /\ Present(l) /\ s \notin list[l]
  /\ list' = [list EXCEPT ![l] = @ \cup (IF @ = {} THEN {Header, s} ELSE {s})]
  /\ ref' = IF list[l] = {} THEN [ref EXCEPT ![l] = Unsaved] ELSE ref
  /\ UNCHANGED replace /\ UNCHANGED Settings

\* musiclist_add
MusiclistAdd(l, s) == AddSong(l, s) /\ RefreshEdited(Here(l))

\* Its length is not a number: it fails when the song is already in the list.
MusiclistAddFails(l, s) ==
  /\ AddSong(l, s)
  /\ untold' = untold \cup {c \in Client : at[c] # None}
  /\ UNCHANGED << held, kept, seen >>

\* musiclist_remove
MusiclistRemove(l, s) ==
  /\ Present(l) /\ s \in list[l] \ {Header}
  /\ list' = [list EXCEPT ![l] = @ \ {s}]
  /\ UNCHANGED << ref, replace >> /\ UNCHANGED Settings
  /\ RefreshEdited(Here(l))

\* toggle_replace_music
ToggleReplaceMusic ==
  /\ replace' = [replace EXCEPT ![Hub] = ~@]
  /\ UNCHANGED << list, ref >> /\ UNCHANGED Settings
  /\ RefreshChanged(Here(Hub))

\* area_pref replace_music and client_music: nobody is told.
AreaPref(a) ==
  /\ \/ replace' = [replace EXCEPT ![a] = ~@] /\ UNCHANGED allow
     \/ allow' = [allow EXCEPT ![a] = ~@] /\ UNCHANGED replace
  /\ untold' = untold \cup Here(a)
  /\ UNCHANGED << list, ref, at, held, kept, seen >>

\* /refresh: the server has a new list. Nobody is told, and who holds the old one keeps it.
RefreshServer(songs) ==
  /\ list' = [list EXCEPT ![Server] = songs]
  /\ held' = [c \in Client |-> held[c] \ {Server}] /\ kept' = [c \in Client |-> Old(c, {Server})]
  /\ untold' = untold \cup {c \in Client : at[c] # None}
  /\ UNCHANGED << ref, replace, seen >> /\ UNCHANGED Settings

\* The handshake (RM) sends the list; a move (change_area) refreshes it.
Move(c, a) ==
  /\ at[c] # a /\ at' = [at EXCEPT ![c] = a]
  /\ UNCHANGED << list, ref, replace, allow >>
  /\ RefreshMusic({c}, {}, at[c] = None)

Next ==
  \/ ToggleReplaceMusic
  \/ \E songs \in ServerLists : RefreshServer(songs)
  \/ \E a \in Area : AreaPref(a) \/ \E c \in Client : Move(c, a)
  \/ \E l \in Used :
       \/ ClearMusic(l)
       \/ \E f \in File : LoadMusic(l, f)
       \/ \E s \in AddedSongs : MusiclistAdd(l, s) \/ MusiclistAddFails(l, s)
       \/ \E s \in AddedSongs \cup UNION {Songs[f] : f \in File} : MusiclistRemove(l, s)

Spec == Init /\ [][Next]_vars

-----------------------------------------------------------------------------
\* Properties

Current(c) == Contents(ConstructMusicList(c, at[c], ref, list, replace, allow), list)

\* The songs a client was shown are those the server would let it play: after lists were
\* loaded, emptied and edited, also where the client's list is the very one that was
\* edited, and wherever it moved. Those of "untold" were shown another list, and are left out
\* until they are sent one again: by a move or a change that makes theirs differ.
ShownIsCurrent == \A c \in Client \ untold : at[c] # None => seen[c] = Current(c)

=============================================================================
