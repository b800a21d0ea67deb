------------------------------ MODULE Messages ------------------------------
(***************************************************************************)
(* In-character messages of one area (net_cmd_ms, send_ic) and the         *)
(* testimony they are recorded in: whispers, additions and amendments, the *)
(* marks that move through it, the judge's signs, and the /testimony       *)
(* commands. Of a text, only what send_ic tells apart is kept; looks,      *)
(* sounds and pairs are left out. Indices are the code's, from 0.          *)
(***************************************************************************)
EXTENDS Integers, Sequences, FiniteSets

CONSTANTS
  Client,         \* the clients of the area
  Owners,         \* its CMs and GMs, and the moderators, in the area or listening elsewhere
  Silenced,       \* those a mute, the flood guard or the area's list keeps from speaking,
                  \* and from the judge's signs
  CanWhisper,     \* area.can_whisper
  MaxStatements,  \* 30
  MaxMessages,    \* bound: how many messages are sent
  None

\* What a message begins with, or is: "**", "++" or green, an objection, "end", no text.
Kind == {"plain", "amend", "add", "shout", "end", "blank"}

\* A message with emote tags is sent in pieces, of which one is kept.
Message == [id : 1 .. MaxMessages, kind : Kind, secret : BOOLEAN, tagged : BOOLEAN,
            for : SUBSET (Client \cup Owners)]

VARIABLES
  last,      \* area.last_ic_message
  testimony, \* area.testimony
  index,     \* area.testimony_index
  title,     \* area.testimony_title is not ""
  recording, \* area.recording
  sent,      \* how many messages were sent
  overheard, \* history: the whispers that somebody heard for whom they were not
  moved,     \* history: statements were moved since the last one was shown
  shown      \* history: the statement that was shown last, None for a new testimony

vars == << last, testimony, index, title, recording, sent, overheard, moved, shown >>

TypeOK ==
  /\ last \in Message \cup {None}
  /\ testimony \in Seq(Message) /\ Len(testimony) <= MaxStatements
  /\ index \in -1 .. MaxStatements /\ sent \in 0 .. MaxMessages
  /\ {title, recording, moved} \subseteq BOOLEAN
  /\ overheard \subseteq 1 .. MaxMessages
  /\ shown \in Message \cup {None}

Init ==
  /\ last = None /\ testimony = << >> /\ index = -1
  /\ title = FALSE /\ recording = FALSE /\ sent = 0
  /\ overheard = {} /\ moved = FALSE /\ shown = None

Testimony == << testimony, index, title, recording, moved, shown >>

-----------------------------------------------------------------------------
\* Python's sequences

\* list[i], for i from -1 on, as a position from 1 on; 0 if there is none.
At(s, i) == IF i = -1 THEN Len(s) ELSE IF i < Len(s) THEN i + 1 ELSE 0

Inserted(s, i, x) ==
  LET k == IF i > Len(s) THEN Len(s) ELSE i
  IN SubSeq(s, 1, k) \o << x >> \o SubSeq(s, k + 1, Len(s))

Popped(s, k) == SubSeq(s, 1, k - 1) \o SubSeq(s, k + 1, Len(s))

-----------------------------------------------------------------------------
\* Who hears what, and what is left of a message

Text(m) == [m EXCEPT !.kind = IF @ = "blank" THEN "blank" ELSE "plain", !.tagged = FALSE]

Overheard(listeners, m) == IF m.secret /\ ~(listeners \subseteq m.for) THEN {m.id} ELSE {}

\* The area, or those a whisper is for; the pieces of one with emote tags are sent without
\* their targets, and so to the area.
Targets(m) == IF m.secret /\ ~m.tagged THEN m.for \cap Client ELSE Client

Heard(m) == overheard' = overheard \cup Overheard(Targets(m), m)

\* testimony_send shows a statement to the whole area; it fails where there is none.
Shown(s, i) ==
  LET k == At(s, i)
  IN IF k = 0 THEN UNCHANGED << index, shown, moved >>
     ELSE index' = i /\ shown' = s[k] /\ moved' = FALSE

ShownTo(s, i) == IF At(s, i) = 0 THEN {} ELSE Overheard(Client, s[At(s, i)])

\* Whispers name their targets, who are here, and moderators and owners hear them too.
ForWhom(c, to) == {c} \cup to \cup Owners

-----------------------------------------------------------------------------
\* net_cmd_ms and send_ic

\* "**": the statement that was shown last, or the first.
Amended(m) ==
  LET i == IF index = -1 THEN 0 ELSE index
      k == At(testimony, i)
  IN IF k = 0 THEN UNCHANGED Testimony /\ UNCHANGED overheard
     ELSE LET s == [testimony EXCEPT ![k] = Text(m)]
          IN /\ testimony' = s
             /\ IF recording THEN moved' = TRUE /\ UNCHANGED << index, shown, overheard >>
                ELSE Shown(s, i) /\ overheard' = overheard \cup ShownTo(s, i)
             /\ UNCHANGED << title, recording >>

\* It ends the recording, and is not the last message of the area.
Ends(m) ==
  /\ recording' = FALSE /\ Heard(m)
  /\ UNCHANGED << testimony, index, title, moved, shown >>

Place == IF index = -1 THEN Len(testimony) ELSE index + 1

\* The new statement comes after the one that is shown, or last; it is shown at once,
\* unless the testimony is being recorded.
Added(m) ==
  LET s == Inserted(testimony, Place, Text(m))
      at == Place
  IN /\ testimony' = s
     /\ IF recording THEN UNCHANGED << index, shown, moved >>
        ELSE Shown(s, at)
     /\ overheard' = overheard \cup Overheard(Targets(m), m)
                       \cup (IF recording THEN {} ELSE ShownTo(s, at))
     /\ UNCHANGED << title, recording >>

IsAdded(m) == (recording /\ m.kind # "blank") \/ (m.kind = "add" /\ testimony # << >>)

Full == Len(testimony) >= MaxStatements

\* An addition to a full testimony is not sent at all; an objection, where there is no
\* testimony, may name or join a minigame and is not sent if that fails.
Swallowed(m) == m.kind = "add" /\ testimony # << >> /\ Full

MayFail(m) == m.kind = "shout" /\ testimony = << >>

Amends(m) == m.kind = "amend" /\ testimony # << >>

Dropped == UNCHANGED << last, overheard >> /\ UNCHANGED Testimony

\* It is the last message of the area before it is recorded.
Delivered(m) ==
  /\ last' = Text(m)
  /\ IF IsAdded(m) /\ ~Full THEN Added(m)
     ELSE Heard(m) /\ UNCHANGED Testimony

SendIC(m) ==
  \/ Amends(m) /\ Amended(m) /\ UNCHANGED last
  \/ (Swallowed(m) \/ MayFail(m)) /\ Dropped
  \/ /\ ~Amends(m) /\ ~Swallowed(m)
     /\ IF recording /\ m.kind = "end" THEN Ends(m) /\ UNCHANGED last
        ELSE Delivered(m)

Sends == sent < MaxMessages /\ sent' = sent + 1

Speaks(c) == c \in Client \ Silenced /\ Sends

Public(kind) ==
  [id |-> sent + 1, kind |-> kind, secret |-> FALSE, tagged |-> FALSE, for |-> Client \cup Owners]

Say(c, kind) == Speaks(c) /\ SendIC(Public(kind))

\* "/w": its text is no longer at the start of the message, so only its colour can add it.
Whisper(c, kind, to, tagged) ==
  /\ Speaks(c) /\ (CanWhisper \/ c \in Owners)
  /\ kind \in {"plain", "add"} /\ to \subseteq Client \ {c}
  /\ SendIC([id |-> sent + 1, kind |-> kind, secret |-> TRUE, tagged |-> tagged,
             for |-> ForWhom(c, to)])

\* "/a" and "/s", or a broadcast list: all areas are of those one owns.
Addresses(c) == c \in Owners

\* Other areas hear it, this one need not.
Broadcast(c) == Addresses(c) /\ Speaks(c) /\ Dropped

\* ">", "<", "=" and ">3"
Navigate(c, i) ==
  /\ c \in Client \ Silenced /\ testimony # << >> /\ ~recording
  /\ i \in {(index + d) % Len(testimony) : d \in -1 .. 1} \cup 0 .. MaxStatements - 1
  /\ Shown(testimony, i) /\ overheard' = overheard \cup ShownTo(testimony, i)
  /\ UNCHANGED << last, testimony, title, recording, sent >>

-----------------------------------------------------------------------------
\* Signs of the judge (net_cmd_rt) and commands of owners

\* A new testimony: nothing is shown of it.
StartsAnew ==
  /\ testimony' = << >> /\ index' = -1 /\ title' = TRUE /\ recording' = TRUE
  /\ moved' = FALSE /\ shown' = None

\* Those who are silenced may not use signs, and those of others than owners leave the
\* testimony alone.
MaySign(c) == c \in (Owners \cap Client) \ Silenced

\* WT: the last message becomes the title, which everybody sees.
WitnessTestimony(c) ==
  /\ MaySign(c) /\ last # None /\ last.kind # "blank"
  /\ StartsAnew
  /\ overheard' = overheard \cup Overheard(Client, last)
  /\ UNCHANGED << last, sent >>

\* CE
CrossExamination(c) ==
  /\ MaySign(c) /\ recording /\ recording' = FALSE
  /\ UNCHANGED << last, testimony, index, title, sent, overheard, moved, shown >>

TestimonyStart(c) ==
  /\ c \in Owners \cap Client /\ StartsAnew
  /\ UNCHANGED << last, sent, overheard >>

TestimonyContinue(c) ==
  /\ c \in Owners \cap Client /\ title /\ ~recording /\ recording' = TRUE
  /\ UNCHANGED << last, testimony, index, title, sent, overheard, moved, shown >>

\* The index and a recording stay as they are.
TestimonyClear(c) ==
  /\ c \in Owners \cap Client /\ testimony # << >>
  /\ testimony' = << >> /\ title' = FALSE /\ moved' = TRUE
  /\ UNCHANGED << last, index, recording, sent, overheard, shown >>

KeepsIndex(i) == index

AfterRemoval(i) == IF index = i THEN -1 ELSE index

\* Number 0 is the last statement; numbers below it, which Python takes too, are left out.
TestimonyRemove(c, i) ==
  /\ c \in Owners \cap Client /\ At(testimony, i) # 0 /\ testimony # << >>
  /\ testimony' = Popped(testimony, At(testimony, i)) /\ index' = AfterRemoval(i)
  /\ moved' = (moved \/ i < index)
  /\ UNCHANGED << last, title, recording, sent, overheard, shown >>

TestimonyAmend(c, i, m) ==
  /\ c \in Owners \cap Client /\ Sends /\ testimony # << >> /\ At(testimony, i) # 0
  /\ testimony' = [testimony EXCEPT ![At(testimony, i)] = m]
  /\ moved' = TRUE
  /\ UNCHANGED << last, index, title, recording, overheard, shown >>

TestimonySwap(c, i, j) ==
  /\ c \in Owners \cap Client /\ testimony # << >>
  /\ At(testimony, i) # 0 /\ At(testimony, j) # 0
  /\ testimony' = [testimony EXCEPT ![At(testimony, i)] = testimony[At(testimony, j)],
                                    ![At(testimony, j)] = testimony[At(testimony, i)]]
  /\ moved' = TRUE
  /\ UNCHANGED << last, index, title, recording, sent, overheard, shown >>

TestimonyInsert(c, i, j) ==
  /\ c \in Owners \cap Client /\ testimony # << >> /\ At(testimony, i) # 0
  /\ testimony' = Inserted(Popped(testimony, At(testimony, i)), j, testimony[At(testimony, i)])
  /\ moved' = TRUE
  /\ UNCHANGED << last, index, title, recording, sent, overheard, shown >>

\* /testimony 3
TestimonyMove(c, i) ==
  /\ c \in Client /\ testimony # << >> /\ ~recording
  /\ Shown(testimony, i) /\ overheard' = overheard \cup ShownTo(testimony, i)
  /\ UNCHANGED << last, testimony, title, recording, sent >>

Number == -1 .. MaxStatements - 1

Next ==
  \E c \in Client :
    \/ \E k \in Kind : Say(c, k)
    \/ \E k \in Kind, to \in SUBSET Client, t \in BOOLEAN : Whisper(c, k, to, t)
    \/ Broadcast(c) \/ WitnessTestimony(c) \/ CrossExamination(c)
    \/ TestimonyStart(c) \/ TestimonyContinue(c) \/ TestimonyClear(c)
    \/ \E i \in Number :
         \/ Navigate(c, i) \/ TestimonyMove(c, i) \/ TestimonyRemove(c, i)
         \/ TestimonyAmend(c, i, Public("plain"))
         \/ \E j \in i + 1 .. MaxStatements - 1 : TestimonySwap(c, i, j)
         \/ \E j \in Number \ {-1} : TestimonyInsert(c, i, j)

Spec == Init /\ [][Next]_vars

-----------------------------------------------------------------------------
\* Properties

\* What /w promises: a message stays between the speaker, those it names and the owners.
WhispersArePrivate == overheard = {}

\* The index is of the statement that everybody saw last, after additions, amendments,
\* removals and moves, unless statements before it went away or it was moved itself.
\* With no index, "++" adds at the end and "**" amends the first statement.
IndexIsOfTheShown ==
  index # -1 /\ ~moved => index < Len(testimony) /\ testimony[index + 1] = shown

=============================================================================
