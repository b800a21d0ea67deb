-------------------------- MODULE Automation_proofs --------------------------
(***************************************************************************)
(* That scripts go on, that the area's own looks come back, and that the   *)
(* timer is on target, for any scripts, triggers, durations and commands.  *)
(* Programs and the commands of a timer are computed by recursion: what is *)
(* needed of them is shown with a least counterexample.                    *)
(***************************************************************************)
EXTENDS Automation, SequenceTheorems, WellFoundedInduction, TLAPS

-----------------------------------------------------------------------------
\* Least and greatest numbers

LEMMA LeastOne ==
  ASSUME NEW S \in SUBSET Nat, S # {}
  PROVE  \E n \in S : \A m \in S : n <= m
<1>1. PICK n \in S : \A m \in S : ~(<< m, n >> \in OpToRel(<, Nat))
  BY WFMin, NatLessThanWellFounded
<1>2. ASSUME NEW m \in S PROVE n <= m
  <2>1. << m, n >> \in Nat \X Nat OBVIOUS
  <2>2. ~(<< m, n >>[1] < << m, n >>[2]) BY <1>1, <2>1, Zenon DEF OpToRel
  <2> QED BY <2>2
<1> QED BY <1>2

LEMMA GreatestOne ==
  ASSUME NEW n \in Nat, NEW S \in SUBSET (0 .. n), S # {}
  PROVE  \E i \in S : \A j \in S : j <= i
<1> DEFINE back == {n - i : i \in S}
<1>1. back \in SUBSET Nat /\ back # {}
  <2>1. \A i \in S : n - i \in Nat OBVIOUS
  <2>2. PICK i \in S : TRUE OBVIOUS
  <2> QED BY <2>1, <2>2
<1>2. PICK m \in back : \A k \in back : m <= k BY <1>1, LeastOne
<1>3. PICK i \in S : m = n - i BY <1>2
<1>4. ASSUME NEW j \in S PROVE j <= i
  <2>1. n - j \in back /\ n - i <= n - j BY <1>2, <1>3
  <2> QED BY <2>1
<1> QED BY <1>4

-----------------------------------------------------------------------------
\* Programs

\* A line of a script ends where it begins, or later (_iter_lines).
LEMMA LineEnds ==
  ASSUME NEW desc \in Seq(Chunk), NEW i \in 1 .. Len(desc)
  PROVE  LineEnd(desc, i) \in i .. Len(desc)
<1> DEFINE ends == {j \in i .. Len(desc) : desc[j].sep = "%"} \cup {Len(desc)}
<1>1. Len(desc) \in Nat BY LenProperties
<1>2. ends \in SUBSET Nat /\ ends # {} /\ ends \subseteq i .. Len(desc) BY <1>1
<1> DEFINE first == CHOOSE j \in ends : \A k \in ends : j <= k
<1>3. first \in ends BY <1>2, LeastOne
<1>4. LineEnd(desc, i) = IF desc[i].is \in {"packet", "command"} THEN first ELSE i
  BY DEF LineEnd
<1> HIDE DEF ends, first
<1> QED BY <1>1, <1>2, <1>3, <1>4

\* What parse_demo_description makes of the chunks from i on, f being what it makes of
\* those from later ones on.
ParsedFrom(f, desc, i) ==
  IF i > Len(desc) THEN << >>
  ELSE IF ~Parsed(desc[i]) THEN f[i + 1]
  ELSE << desc[i].does >> \o f[LineEnd(desc, i) + 1]

LEMMA ProgramIsParsed ==
  ASSUME NEW d
  PROVE  Program(d) = (CHOOSE f : f = [i \in 1 .. Len(Desc[d]) + 1 |-> ParsedFrom(f, Desc[d], i)])[1]
BY Zenon DEF Program, ParsedFrom

\* There is such a function: with what it makes of the chunks from k + 1 on, there is one
\* from k on.
LEMMA ParsingExists ==
  ASSUME NEW desc \in Seq(Chunk)
  PROVE  \E f : f = [i \in 1 .. Len(desc) + 1 |-> ParsedFrom(f, desc, i)]
<1> DEFINE n == Len(desc) + 1
           Has(k) == \E f : f = [i \in k .. n |-> ParsedFrom(f, desc, i)]
           bad == {k \in 1 .. n : ~Has(k)}
<1>1. Len(desc) \in Nat /\ n \in Nat BY LenProperties
<1>2. Has(n)
  <2>1. [i \in n .. n |-> << >>] = [i \in n .. n |-> ParsedFrom([j \in n .. n |-> << >>], desc, i)]
    BY <1>1 DEF ParsedFrom
  <2> QED BY <2>1
<1>3. ASSUME NEW k \in 1 .. n - 1, Has(k + 1) PROVE Has(k)
  <2>1. PICK f : f = [i \in k + 1 .. n |-> ParsedFrom(f, desc, i)] BY <1>3
  <2> DEFINE g == [i \in k .. n |-> IF i = k THEN ParsedFrom(f, desc, k) ELSE f[i]]
  <2>2. \A i \in k + 1 .. n : g[i] = f[i] BY <1>1
  <2>3. ASSUME NEW i \in k .. n PROVE ParsedFrom(g, desc, i) = ParsedFrom(f, desc, i)
    <3>1. CASE i = n BY <1>1, <3>1 DEF ParsedFrom
    <3>2. CASE i < n
      <4>1. i \in 1 .. Len(desc) BY <1>1, <3>2
      <4>2. i + 1 \in k + 1 .. n /\ LineEnd(desc, i) + 1 \in k + 1 .. n
        BY <1>1, <4>1, LineEnds
      <4>3. g[i + 1] = f[i + 1] /\ g[LineEnd(desc, i) + 1] = f[LineEnd(desc, i) + 1]
        BY <2>2, <4>2
      <4> HIDE DEF g
      <4> QED BY <1>1, <4>3 DEF ParsedFrom
    <3> QED BY <1>1, <3>1, <3>2
  <2>4. \A i \in k .. n : g[i] = ParsedFrom(f, desc, i)
    <3> TAKE i \in k .. n
    <3>1. CASE i = k BY <3>1
    <3>2. CASE i # k
      <4>1. i \in k + 1 .. n BY <1>1, <3>2
      <4>2. f[i] = ParsedFrom(f, desc, i) BY <2>1, <4>1
      <4> QED BY <2>2, <4>1, <4>2
    <3> QED BY <3>1, <3>2
  <2>5. g = [i \in k .. n |-> g[i]] OBVIOUS
  <2> HIDE DEF g
  <2>6. g = [i \in k .. n |-> ParsedFrom(g, desc, i)] BY <2>3, <2>4, <2>5
  <2> QED BY <2>6
<1> HIDE DEF Has
<1>4. bad = {}
  <2> SUFFICES ASSUME bad # {} PROVE FALSE OBVIOUS
  <2>1. bad \in SUBSET (0 .. n) BY <1>1
  <2>2. PICK k \in bad : \A j \in bad : j <= k BY <1>1, <2>1, GreatestOne
  <2>3. k \in 1 .. n - 1 BY <1>1, <1>2, <2>2
  <2>4. k + 1 \in 1 .. n /\ ~(k + 1 <= k) BY <1>1, <2>3
  <2>5. Has(k + 1) BY <2>2, <2>4
  <2> QED BY <1>3, <2>2, <2>3, <2>5
<1>5. Has(1) BY <1>1, <1>4
<1> QED BY <1>5 DEF Has

\* A program consists of instructions (parse_demo_description).
LEMMA ProgramIsOfInstructions ==
  ASSUME NEW d \in Demo
  PROVE  Program(d) \in Seq(Instruction)
<1> DEFINE desc == Desc[d]
           n == Len(desc) + 1
           f == CHOOSE f : f = [i \in 1 .. n |-> ParsedFrom(f, desc, i)]
<1>1. desc \in Seq(Chunk) BY AutomationAssumption
<1>2. Len(desc) \in Nat /\ n \in Nat BY <1>1, LenProperties
<1>3. f = [i \in 1 .. n |-> ParsedFrom(f, desc, i)] BY <1>1, ParsingExists
<1>4. Program(d) = f[1] BY ProgramIsParsed
<1> HIDE DEF f, desc
<1>5. \A i \in 1 .. n : f[i] = ParsedFrom(f, desc, i) BY <1>3
<1> DEFINE bad == {i \in 1 .. n : f[i] \notin Seq(Instruction)}
<1>6. bad = {}
  <2> SUFFICES ASSUME bad # {} PROVE FALSE OBVIOUS
  <2>1. bad \in SUBSET (0 .. n) BY <1>2
  <2>2. PICK i \in bad : \A j \in bad : j <= i BY <1>2, <2>1, GreatestOne
  <2>3. \A j \in i + 1 .. n : f[j] \in Seq(Instruction) BY <1>2, <2>2
  <2>6. f[i] = ParsedFrom(f, desc, i) /\ i \in 1 .. n BY <1>5, <2>2
  <2>7. f[i] \notin Seq(Instruction) BY <2>2
  <2> HIDE DEF bad
  <2>4. CASE i = n
    <3>1. f[i] = << >> BY <1>2, <2>4, <2>6 DEF ParsedFrom
    <3> QED BY <2>7, <3>1, EmptySeq
  <2>5. CASE i < n
    <3>1. i \in 1 .. Len(desc) BY <1>2, <2>6, <2>5
    <3>2. i + 1 \in i + 1 .. n /\ LineEnd(desc, i) + 1 \in i + 1 .. n
      BY <1>1, <1>2, <3>1, LineEnds
    <3>3. f[i + 1] \in Seq(Instruction) /\ f[LineEnd(desc, i) + 1] \in Seq(Instruction)
      BY <2>3, <3>2
    <3>4. CASE ~Parsed(desc[i])
      <4>1. f[i] = f[i + 1] BY <1>2, <2>6, <3>1, <3>4 DEF ParsedFrom
      <4> QED BY <2>7, <3>3, <4>1
    <3>5. CASE Parsed(desc[i])
      <4>1. desc[i].does \in Instruction
        <5>1. desc[i] \in Chunk BY <1>1, <3>1, ElementOfSeq
        <5> QED BY <3>5, <5>1 DEF Chunk, Parsed
      <4>2. f[i] = << desc[i].does >> \o f[LineEnd(desc, i) + 1]
        BY <1>2, <2>6, <3>1, <3>5 DEF ParsedFrom
      <4>3. << desc[i].does >> \in Seq(Instruction) BY <4>1
      <4> QED BY <2>7, <3>3, <4>2, <4>3, ConcatProperties
    <3> QED BY <3>4, <3>5
  <2> QED BY <1>2, <2>6, <2>4, <2>5
<1> QED BY <1>2, <1>4, <1>6

-----------------------------------------------------------------------------
\* The commands of a timer

\* What call_commands has made of the runner after k commands, f being what it had before.
ExecutedUpTo(f, r, cs, k) ==
  IF k = 0 THEN r
  ELSE IF \E j \in 1 .. k : Fails(cs[j]) THEN f[k - 1]
  ELSE Executed(f[k - 1], cs[k])

LEMMA AllAreExecuted ==
  ASSUME NEW r, NEW cs
  PROVE  AllExecuted(r, cs) =
           (CHOOSE f : f = [k \in 0 .. Len(cs) |-> ExecutedUpTo(f, r, cs, k)])[Len(cs)]
BY Zenon DEF AllExecuted, ExecutedUpTo

LEMMA ExecutionExists ==
  ASSUME NEW r, NEW cs, Len(cs) \in Nat
  PROVE  \E f : f = [k \in 0 .. Len(cs) |-> ExecutedUpTo(f, r, cs, k)]
<1> DEFINE Has(n) == \E f : f = [k \in 0 .. n |-> ExecutedUpTo(f, r, cs, k)]
           bad == {n \in 0 .. Len(cs) : ~Has(n)}
<1>1. Has(0)
  <2>1. [k \in 0 .. 0 |-> r] = [k \in 0 .. 0 |-> ExecutedUpTo([j \in 0 .. 0 |-> r], r, cs, k)]
    BY DEF ExecutedUpTo
  <2> QED BY <2>1
<1>2. ASSUME NEW n \in 1 .. Len(cs), Has(n - 1) PROVE Has(n)
  <2>1. PICK f : f = [k \in 0 .. n - 1 |-> ExecutedUpTo(f, r, cs, k)] BY <1>2
  <2> DEFINE g == [k \in 0 .. n |-> IF k = n THEN ExecutedUpTo(f, r, cs, n) ELSE f[k]]
  <2>2. \A k \in 0 .. n - 1 : g[k] = f[k] OBVIOUS
  <2>3. ASSUME NEW k \in 0 .. n PROVE ExecutedUpTo(g, r, cs, k) = ExecutedUpTo(f, r, cs, k)
    <3>1. CASE k = 0 BY <3>1 DEF ExecutedUpTo
    <3>2. CASE k # 0
      <4>1. k - 1 \in 0 .. n - 1 BY <3>2
      <4>2. g[k - 1] = f[k - 1] BY <2>2, <4>1
      <4> HIDE DEF g
      <4> QED BY <3>2, <4>2 DEF ExecutedUpTo
    <3> QED BY <3>1, <3>2
  <2>4. \A k \in 0 .. n : g[k] = ExecutedUpTo(f, r, cs, k)
    <3> TAKE k \in 0 .. n
    <3>1. CASE k = n BY <3>1
    <3>2. CASE k # n
      <4>1. k \in 0 .. n - 1 BY <3>2
      <4>2. f[k] = ExecutedUpTo(f, r, cs, k) BY <2>1, <4>1
      <4> QED BY <2>2, <4>1, <4>2
    <3> QED BY <3>1, <3>2
  <2>5. g = [k \in 0 .. n |-> g[k]] OBVIOUS
  <2> HIDE DEF g
  <2>6. g = [k \in 0 .. n |-> ExecutedUpTo(g, r, cs, k)] BY <2>3, <2>4, <2>5
  <2> QED BY <2>6
<1> HIDE DEF Has
<1>3. bad = {}
  <2> SUFFICES ASSUME bad # {} PROVE FALSE OBVIOUS
  <2>1. bad \in SUBSET Nat OBVIOUS
  <2>2. PICK n \in bad : \A m \in bad : n <= m BY <2>1, LeastOne
  <2>3. n \in 1 .. Len(cs) /\ ~Has(n) BY <1>1, <2>2
  <2>4. n - 1 \in 0 .. Len(cs) /\ ~(n <= n - 1) BY <2>3
  <2>5. Has(n - 1) BY <2>2, <2>4
  <2> QED BY <1>2, <2>3, <2>5
<1>4. Has(Len(cs)) BY <1>3
<1> QED BY <1>4 DEF Has

\* What one command leaves true of the runner, all of them leave true (call_commands).
LEMMA CommandsPreserve ==
  ASSUME NEW S, NEW r \in S, NEW C, NEW cs \in Seq(C),
         \A q \in S, c \in C : Executed(q, c) \in S
  PROVE  AllExecuted(r, cs) \in S
<1> DEFINE f == CHOOSE f : f = [k \in 0 .. Len(cs) |-> ExecutedUpTo(f, r, cs, k)]
<1>1. Len(cs) \in Nat BY LenProperties
<1>2. f = [k \in 0 .. Len(cs) |-> ExecutedUpTo(f, r, cs, k)] BY <1>1, ExecutionExists
<1>3. AllExecuted(r, cs) = f[Len(cs)] BY AllAreExecuted
<1> HIDE DEF f
<1>4. \A k \in 0 .. Len(cs) : f[k] = ExecutedUpTo(f, r, cs, k) BY <1>2
<1> DEFINE bad == {k \in 0 .. Len(cs) : f[k] \notin S}
<1>5. bad = {}
  <2> SUFFICES ASSUME bad # {} PROVE FALSE OBVIOUS
  <2>1. bad \in SUBSET Nat OBVIOUS
  <2>2. PICK k \in bad : \A m \in bad : k <= m BY <2>1, LeastOne
  <2>3. f[k] = ExecutedUpTo(f, r, cs, k) /\ k \in 0 .. Len(cs) /\ f[k] \notin S BY <1>4, <2>2
  <2>4. k # 0 BY <2>3 DEF ExecutedUpTo
  <2>5. k - 1 \in 0 .. Len(cs) /\ ~(k <= k - 1) /\ k \in 1 .. Len(cs) BY <1>1, <2>3, <2>4
  <2>6. f[k - 1] \in S BY <2>2, <2>5
  <2>7. cs[k] \in C BY <2>5, ElementOfSeq
  <2> HIDE DEF bad
  <2>8. f[k] = f[k - 1] \/ f[k] = Executed(f[k - 1], cs[k]) BY <2>3, <2>4 DEF ExecutedUpTo
  <2> QED BY <2>3, <2>6, <2>7, <2>8
<1> QED BY <1>1, <1>3, <1>5

-----------------------------------------------------------------------------
\* The runner

\* What the area shows of a script, the script can take back, and it runs.
Tidy(r) == Own \in r.shown => r.modified /\ r.running

\* One that runs has its next step before it.
Pending(r) == r.running => r.schedule # None

Command == Demo \cup {Stop, Summon, Fail, None}

\* A runner that ends (finish).
LEMMA FinishedRunner ==
  ASSUME NEW r \in Runner
  PROVE  /\ Finished(r) \in Runner /\ ~Finished(r).running /\ Finished(r).schedule = None
         /\ Finished(r).recent = r.recent
         /\ Tidy(r) => Tidy(Finished(r))
<1>1. Restored(r) \subseteq r.shown /\ (r.modified => Own \notin Restored(r))
  BY DEF Restored, RestoresOwn
<1>2. << >> \in Seq(Instruction) /\ << >> \in Seq(Place) BY EmptySeq
<1>3. 0 \in 0 .. MaxSteps /\ 1 \in Place BY AutomationAssumption DEF Place
<1>4. \A s \in SUBSET r.shown :
        LET q == [r EXCEPT !.schedule = None, !.running = FALSE, !.queue = << >>, !.index = 1,
                           !.stack = << >>, !.steps = 0, !.shown = s, !.modified = FALSE]
        IN q \in Runner /\ ~q.running /\ q.schedule = None /\ q.recent = r.recent /\ q.shown = s
  BY <1>2, <1>3 DEF Runner
<1> QED BY <1>1, <1>4 DEF Finished, Tidy

\* A demo that starts (start, play_demo).
LEMMA StartedRunner ==
  ASSUME NEW r \in Runner, NEW d \in Demo
  PROVE  /\ Started(r, d) \in Runner /\ Started(r, d).recent = r.recent
         /\ Program(d) = << >> => Started(r, d) = r
         /\ Program(d) # << >> => Pending(Started(r, d))
         /\ Tidy(r) => Tidy(Started(r, d))
<1>1. Program(d) \in Seq(Instruction) /\ << >> \in Seq(Place)
  BY ProgramIsOfInstructions, EmptySeq
<1>2. 0 \in 0 .. MaxSteps /\ 0 # None /\ 0 \in Delay /\ 1 \in Place BY AutomationAssumption DEF Delay, Place
<1>3. \A p \in Seq(Instruction), b \in BOOLEAN :
        LET q == [r EXCEPT !.schedule = 0, !.queue = p, !.index = 1, !.stack = << >>,
                           !.running = TRUE, !.steps = 0, !.run = b]
        IN /\ q \in Runner /\ q.recent = r.recent /\ q.schedule = 0 /\ q.running
           /\ q.shown = r.shown /\ q.modified = r.modified
  BY <1>1, <1>2 DEF Runner
<1>4. CASE Program(d) = << >>
  <2>1. Started(r, d) = r BY <1>4, Zenon DEF Started
  <2> QED BY <1>4, <2>1
<1>5. CASE Program(d) # << >>
  <2> DEFINE b == ~r.run
             q == [r EXCEPT !.schedule = 0, !.queue = Program(d), !.index = 1, !.stack = << >>,
                            !.running = TRUE, !.steps = 0, !.run = b]
  <2>1. Started(r, d) = q BY <1>5, Zenon DEF Started
  <2>2. b \in BOOLEAN OBVIOUS
  <2> HIDE DEF b
  <2>3. /\ q \in Runner /\ q.recent = r.recent /\ q.schedule = 0 /\ q.running
        /\ q.shown = r.shown /\ q.modified = r.modified
    BY <1>1, <1>3, <2>2
  <2> HIDE DEF q
  <2> QED BY <1>2, <1>5, <2>1, <2>3 DEF Tidy, Pending
<1> QED BY <1>4, <1>5

\* /demo of a script, refused or not (ooc_cmd_demo).
LEMMA DemoedRunner ==
  ASSUME NEW r \in Runner, NEW d \in Demo
  PROVE  /\ Demoed(r, d) \in Runner
         /\ Tidy(r) => Tidy(Demoed(r, d))
         /\ Pending(r) => Pending(Demoed(r, d))
         /\ ~Refused(r, d) /\ Program(d) # << >> => Pending(Demoed(r, d))
         /\ Pending(Demoed(r, d)) \/ Demoed(r, d).stray = r.stray
<1>1. /\ Started(r, d) \in Runner
      /\ Program(d) = << >> => Started(r, d) = r
      /\ Program(d) # << >> => Pending(Started(r, d))
      /\ Tidy(r) => Tidy(Started(r, d))
  BY StartedRunner
<1>2. \A q \in Runner : LET p == [q EXCEPT !.recent = TRUE]
                        IN /\ p \in Runner /\ p.schedule = q.schedule /\ p.running = q.running
                           /\ p.shown = q.shown /\ p.modified = q.modified /\ p.stray = q.stray
  BY DEF Runner
<1> QED BY <1>1, <1>2 DEF Demoed, Tidy, Pending

\* A command of a script, a trigger or a timer (RemoteClient.execute).
LEMMA ExecutedCommands ==
  ASSUME NEW r, NEW c \in Command
  PROVE  /\ c \in Demo => Executed(r, c) = Demoed(r, c)
         /\ c = Stop => Executed(r, c) = Finished(r)
         /\ c \notin Demo \cup {Stop} =>
              Executed(r, c) = r \/ (trigger \in Demo /\ Executed(r, c) = Demoed(r, trigger))
<1> USE AutomationAssumption
<1>1. CASE c \in Demo BY <1>1, Zenon DEF Executed
<1>2. CASE c = Stop BY <1>2, Zenon DEF Executed
<1>3. CASE c = Summon /\ trigger \in Demo BY <1>3, Zenon DEF Executed
<1>4. CASE c \notin Demo /\ c # Stop /\ ~(c = Summon /\ trigger \in Demo)
  BY <1>4, Zenon DEF Executed
<1> QED BY <1>1, <1>2, <1>3, <1>4

LEMMA ExecutedRunner ==
  ASSUME NEW r \in Runner, NEW c \in Command
  PROVE  /\ Executed(r, c) \in Runner
         /\ Tidy(r) => Tidy(Executed(r, c))
         /\ Pending(r) => Pending(Executed(r, c))
         /\ Pending(Executed(r, c)) \/ Executed(r, c).stray = r.stray
<1>1. CASE c \in Demo BY <1>1, ExecutedCommands, DemoedRunner
<1>2. CASE c = Stop BY <1>2, ExecutedCommands, FinishedRunner DEF Pending
<1>3. CASE c \notin Demo \cup {Stop} BY <1>3, ExecutedCommands, DemoedRunner
<1> QED BY <1>1, <1>2, <1>3

\* The end of a step (_schedule_next).
LEMMA ContinuedRunner ==
  ASSUME NEW r \in Runner
  PROVE  /\ Continued(r) \in Runner /\ Pending(Continued(r))
         /\ Tidy(r) => Tidy(Continued(r))
<1>1. 0 \in Delay /\ 0 # None BY AutomationAssumption DEF Delay
<1>2. \A b \in BOOLEAN : LET q == [r EXCEPT !.stray = b, !.schedule = 0]
                         IN /\ q \in Runner /\ q.schedule = 0 /\ q.running = r.running
                            /\ q.shown = r.shown /\ q.modified = r.modified
  BY <1>1 DEF Runner
<1>3. CASE r.running
  <2>1. PICK b \in BOOLEAN : Continued(r) = [r EXCEPT !.stray = b, !.schedule = 0]
    BY <1>3, Zenon DEF Continued, ScheduledAgain
  <2>2. /\ Continued(r) \in Runner /\ Continued(r).schedule = 0
        /\ Continued(r).running = r.running /\ Continued(r).shown = r.shown
        /\ Continued(r).modified = r.modified
    BY <1>2, <2>1
  <2> QED BY <1>1, <2>2 DEF Tidy, Pending
<1>4. CASE ~r.running BY <1>4 DEF Continued, Tidy, Pending
<1> QED BY <1>3, <1>4

\* A jump to a label, or to none (_jump).
LEMMA JumpedRunner ==
  ASSUME NEW r \in Runner, NEW l
  PROVE  /\ Jumped(r, l) \in Runner
         /\ Tidy(r) => Tidy(Jumped(r, l))
<1>1. CASE Labels(r.queue, l) = {} BY <1>1, FinishedRunner DEF Jumped
<1>2. CASE Labels(r.queue, l) # {}
  <2>1. r.queue \in Seq(Instruction) BY DEF Runner
  <2>2. Len(r.queue) \in Nat /\ Labels(r.queue, l) \subseteq 0 .. Len(r.queue)
    BY <2>1, LenProperties DEF Labels
  <2>3. Last(Labels(r.queue, l)) \in Labels(r.queue, l)
    <3>1. \E i \in Labels(r.queue, l) : \A j \in Labels(r.queue, l) : j <= i
      BY <1>2, <2>2, GreatestOne
    <3> QED BY <3>1 DEF Last
  <2>4. Last(Labels(r.queue, l)) \in Place BY <2>2, <2>3 DEF Labels, Place
  <2>5. \A n \in Place : LET q == [r EXCEPT !.index = n]
                       IN q \in Runner /\ q.running = r.running /\ q.shown = r.shown
                          /\ q.modified = r.modified
    BY DEF Runner
  <2> QED BY <1>2, <2>4, <2>5 DEF Jumped, Tidy
<1> QED BY <1>1, <1>2

\* What a step may leave: a runner that goes on or has ended.
Goes(r) == r \in Runner /\ Tidy(r) /\ Pending(r)

LEMMA EndsOrGoesOn ==
  ASSUME NEW r \in Runner, Tidy(r)
  PROVE  Goes(Finished(r)) /\ Goes(Continued(r))
BY FinishedRunner, ContinuedRunner DEF Goes, Pending

\* A packet of a script may fail; one that does not is remembered (send_packet).
LEMMA PacketRunner ==
  ASSUME NEW r \in Runner, Tidy(r), r.running, NEW s \in Packet(r)
  PROVE  s \in Runner /\ Tidy(s)
<1>1. CASE s = Finished(r) BY <1>1, FinishedRunner
<1>2. ASSUME NEW a \in {{Own}, Others}, s = [r EXCEPT !.shown = @ \cup a, !.modified = TRUE]
      PROVE  s \in Runner /\ Tidy(s)
  <2>1. \A p \in SUBSET ({Own} \cup Others) :
          LET q == [r EXCEPT !.shown = p, !.modified = TRUE]
          IN q \in Runner /\ q.modified /\ q.running = r.running
    BY DEF Runner
  <2>2. r.shown \cup a \in SUBSET ({Own} \cup Others) BY <1>2 DEF Runner
  <2>3. s = [r EXCEPT !.shown = r.shown \cup a, !.modified = TRUE] BY <1>2
  <2> QED BY <2>1, <2>2, <2>3 DEF Tidy
<1> QED BY <1>1, <1>2 DEF Packet

\* A goto remembers where it comes from, and a return goes back (step).
LEMMA CalledRunner ==
  ASSUME NEW r \in Runner, Tidy(r), NEW l
  PROVE  Goes(Called(r, l)) /\ Goes(Returned(r))
<1>1. r.stack \in Seq(Place) /\ r.index \in Place /\ Len(r.stack) \in Nat BY LenProperties DEF Runner
<1>2. \A t \in Seq(Place), n \in Place :
        LET q == [r EXCEPT !.index = n, !.stack = t]
        IN q \in Runner /\ q.running = r.running /\ q.shown = r.shown /\ q.modified = r.modified
  BY DEF Runner
<1>3. Goes(Called(r, l))
  <2> DEFINE q == [r EXCEPT !.stack = Append(@, r.index)]
  <2>1. Append(r.stack, r.index) \in Seq(Place) BY <1>1, AppendProperties
  <2>2. \A t \in Seq(Place) :
          LET p == [r EXCEPT !.stack = t]
          IN p \in Runner /\ p.running = r.running /\ p.shown = r.shown /\ p.modified = r.modified
    BY DEF Runner
  <2>3. q \in Runner /\ q.running = r.running /\ q.shown = r.shown /\ q.modified = r.modified
    BY <2>1, <2>2
  <2>4. Called(r, l) = Continued(Jumped(q, l)) BY DEF Called
  <2> HIDE DEF q
  <2>5. Tidy(q) BY <2>3 DEF Tidy
  <2> QED BY <2>3, <2>4, <2>5, JumpedRunner, EndsOrGoesOn
<1>4. Goes(Returned(r))
  <2>1. CASE r.stack = << >> BY <2>1, EndsOrGoesOn DEF Returned
  <2>2. CASE r.stack # << >>
    <3> DEFINE n == r.stack[Len(r.stack)]
               t == SubSeq(r.stack, 1, Len(r.stack) - 1)
               q == [r EXCEPT !.index = n, !.stack = t]
    <3>1. Len(r.stack) \in 1 .. Len(r.stack) BY <1>1, <2>2, EmptySeq
    <3>2. n \in Place BY <1>1, <3>1, ElementOfSeq
    <3>3. t \in Seq(Place) BY <1>1, SubSeqProperties, ElementOfSeq
    <3>4. Returned(r) = Continued(q) BY <2>2 DEF Returned
    <3> HIDE DEF n, t
    <3>5. q \in Runner /\ q.running = r.running /\ q.shown = r.shown /\ q.modified = r.modified
      BY <1>2, <3>2, <3>3
    <3> HIDE DEF q
    <3>6. Tidy(q) BY <3>5 DEF Tidy
    <3> QED BY <3>4, <3>5, <3>6, EndsOrGoesOn
  <2> QED BY <2>1, <2>2
<1> QED BY <1>3, <1>4

\* After a command the script goes on, unless it was a /demo that was refused (run_command).
LEMMA CommandedRunner ==
  ASSUME NEW r \in Runner, Tidy(r), NEW c \in Command
  PROVE  /\ Commanded(r, c) \in Runner /\ Tidy(Commanded(r, c))
         /\ Pending(Commanded(r, c)) \/ (c \in Demo /\ (Refused(r, c) \/ Program(c) = << >>))
<1>1. Executed(r, c) \in Runner /\ Tidy(Executed(r, c)) BY ExecutedRunner
<1>2. CASE Fails(c) BY <1>1, <1>2, EndsOrGoesOn DEF Commanded, Goes
<1>3. CASE ~Fails(c) /\ c \in Demo
  BY <1>1, <1>3, ExecutedCommands, DemoedRunner DEF Commanded
<1>4. CASE ~Fails(c) /\ c = Stop
  BY <1>1, <1>4, ExecutedCommands, FinishedRunner DEF Commanded, Pending
<1>5. CASE ~Fails(c) /\ c \notin Demo \cup {Stop}
  BY <1>1, <1>5, EndsOrGoesOn DEF Commanded, Goes
<1> QED BY <1>2, <1>3, <1>4, <1>5

\* What a step makes of an instruction goes on, unless it was a /demo that was refused.
LEMMA PerformedRunner ==
  ASSUME NEW r \in Runner, Tidy(r), r.running, NEW i \in Instruction, NEW s \in Performed(r, i)
  PROVE  /\ s \in Runner /\ Tidy(s)
         /\ Pending(s) \/ (i.op = "command" /\ i.to \in Demo /\ (Refused(r, i.to) \/ Program(i.to) = << >>))
<1>1. i.op \in {"wait", "packet", "label", "goto", "return", "if", "set", "command"}
  BY DEF Instruction
<1>2. CASE i.op = "wait"
  <2>1. i.to \in Delay /\ i.to # None BY <1>2, AutomationAssumption DEF Instruction, Delay
  <2>2. s = [r EXCEPT !.schedule = i.to] BY <1>2, Zenon DEF Performed
  <2>3. \A n \in Delay : LET q == [r EXCEPT !.schedule = n]
                         IN /\ q \in Runner /\ q.schedule = n /\ q.running = r.running
                            /\ q.shown = r.shown /\ q.modified = r.modified
    BY DEF Runner
  <2>4. /\ s \in Runner /\ s.schedule = i.to /\ s.running = r.running
        /\ s.shown = r.shown /\ s.modified = r.modified
    BY <2>1, <2>2, <2>3
  <2> QED BY <2>1, <2>4 DEF Tidy, Pending
<1>3. CASE i.op = "packet"
  <2>1. PICK q \in Packet(r) : s = Continued(q) BY <1>3, Zenon DEF Performed
  <2> QED BY <2>1, PacketRunner, EndsOrGoesOn DEF Goes
<1>4. CASE i.op = "label"
  <2>1. s = Continued(r) BY <1>4, Zenon DEF Performed
  <2> QED BY <2>1, EndsOrGoesOn DEF Goes
<1>5. CASE i.op = "goto"
  <2>1. s = Called(r, i.to) BY <1>5, Zenon DEF Performed
  <2> QED BY <2>1, CalledRunner DEF Goes
<1>6. CASE i.op = "return"
  <2>1. s = Returned(r) BY <1>6, Zenon DEF Performed
  <2> QED BY <2>1, CalledRunner DEF Goes
<1>7. CASE i.op = "if"
  <2>1. s \in Branched(r, i.to) BY <1>7, Zenon DEF Performed
  <2>2. s \in {Continued(r), Finished(r), Continued(Jumped(r, i.to))} BY <2>1 DEF Branched, Computed
  <2> QED BY <2>2, JumpedRunner, EndsOrGoesOn DEF Goes
<1>8. CASE i.op = "set"
  <2>1. s \in Computed(r) BY <1>8, Zenon DEF Performed
  <2> QED BY <2>1, EndsOrGoesOn DEF Computed, Goes
<1>9. CASE i.op = "command"
  <2>1. s = Commanded(r, i.to) BY <1>9, Zenon DEF Performed
  <2>2. i.to \in Command BY <1>9 DEF Instruction, Command
  <2> QED BY <1>9, <2>1, <2>2, CommandedRunner
<1> QED BY <1>1, <1>2, <1>3, <1>4, <1>5, <1>6, <1>7, <1>8, <1>9

-----------------------------------------------------------------------------
\* The steps of the runner

RunnerInv(r, st) == r \in Runner /\ Tidy(r) /\ (Pending(r) \/ r.stray \/ st)

\* The handle that runs is gone while its step is performed.
LEMMA HandleIsSpent ==
  ASSUME NEW r \in Runner
  PROVE  LET q == [r EXCEPT !.schedule = None, !.stray = FALSE]
         IN /\ q \in Runner /\ q.running = r.running /\ q.shown = r.shown
            /\ q.modified = r.modified
BY DEF Runner

LEMMA CountedRunner ==
  ASSUME NEW r \in Runner, ~OutOfSteps(r)
  PROVE  /\ Counted(r) \in Runner /\ Counted(r).running = r.running
         /\ Counted(r).shown = r.shown /\ Counted(r).modified = r.modified
         /\ Counted(r).recent = r.recent
<1>1. r.steps \in 0 .. MaxSteps /\ r.index \in Place BY DEF Runner
<1>2. r.steps + 1 \in 0 .. MaxSteps /\ r.index + 1 \in Place
  BY <1>1, AutomationAssumption DEF OutOfSteps, Place
<1> DEFINE At(m, j) == [r EXCEPT !.steps = m, !.index = j]
<1>3. \A m \in 0 .. MaxSteps, j \in Place :
        /\ At(m, j) \in Runner /\ At(m, j).running = r.running
        /\ At(m, j).shown = r.shown /\ At(m, j).modified = r.modified
        /\ At(m, j).recent = r.recent
  BY DEF Runner
<1>4. Counted(r) = At(r.steps + 1, r.index + 1) BY DEF Counted
<1> HIDE DEF At
<1> QED BY <1>2, <1>3, <1>4

\* A step of a script (step).
LEMMA StepKeeps ==
  ASSUME RunnerInv(runner, stalled), Step
  PROVE  RunnerInv(runner', stalled') /\ stalled' \in BOOLEAN
<1> DEFINE r == [runner EXCEPT !.schedule = None, !.stray = FALSE]
           ended == ~r.running \/ r.index > Len(r.queue)
           i == r.queue[r.index]
           refused == Refused(r, i.to) \/ Program(i.to) = << >>
<1>1. r \in Runner /\ Tidy(r) BY HandleIsSpent DEF RunnerInv, Tidy
<1>2. /\ IF ended \/ OutOfSteps(r) THEN runner' = Finished(r)
         ELSE runner' \in Performed(Counted(r), i)
      /\ stalled' = (~ended /\ ~OutOfSteps(r) /\ i.op = "command" /\ i.to \in Demo /\ refused)
  BY DEF Step
<1> HIDE DEF r
<1>3. CASE ended \/ OutOfSteps(r)
  <2>1. runner' = Finished(r) /\ stalled' = FALSE BY <1>2, <1>3
  <2> QED BY <1>1, <2>1, FinishedRunner DEF RunnerInv, Pending
<1>4. CASE ~(ended \/ OutOfSteps(r))
  <2>1. i \in Instruction
    <3>1. r.queue \in Seq(Instruction) /\ r.index \in Place BY <1>1 DEF Runner
    <3>2. r.index \in 1 .. Len(r.queue) BY <1>4, <3>1, LenProperties DEF Place
    <3> QED BY <3>1, <3>2, ElementOfSeq
  <2> HIDE DEF i
  <2>2. Counted(r) \in Runner /\ Tidy(Counted(r)) /\ Counted(r).running
    BY <1>1, <1>4, CountedRunner DEF Tidy
  <2>3. Refused(Counted(r), i.to) <=> Refused(r, i.to)
    BY <1>1, <1>4, CountedRunner DEF Refused
  <2>4. runner' \in Performed(Counted(r), i) BY <1>2, <1>4
  <2>5. /\ runner' \in Runner /\ Tidy(runner')
        /\ \/ Pending(runner')
           \/ i.op = "command" /\ i.to \in Demo /\ refused
    BY <2>1, <2>2, <2>3, <2>4, PerformedRunner
  <2>6. stalled' = (i.op = "command" /\ i.to \in Demo /\ refused) BY <1>2, <1>4
  <2> HIDE DEF refused
  <2> QED BY <2>5, <2>6, Zenon DEF RunnerInv
<1>5. stalled' \in BOOLEAN
  <2> HIDE DEF ended, i, refused
  <2> QED BY <1>2
<1> QED BY <1>3, <1>4, <1>5

\* Commands of a trigger or a timer, which may find a script in a step (trigger,
\* call_commands): they leave it no worse than they find it.
LEMMA CommandKeeps ==
  ASSUME NEW r, NEW st \in BOOLEAN, RunnerInv(r, st), NEW c \in Command
  PROVE  RunnerInv(Executed(r, c), st)
BY ExecutedRunner DEF RunnerInv

LEMMA CommandsKeep ==
  ASSUME NEW r, NEW st \in BOOLEAN, RunnerInv(r, st), NEW cs \in Seq(Command)
  PROVE  RunnerInv(AllExecuted(r, cs), st)
<1> DEFINE S == {q \in Runner : RunnerInv(q, st)}
<1>1. r \in S BY DEF RunnerInv
<1>2. \A q \in S, c \in Command : Executed(q, c) \in S
  BY CommandKeeps, ExecutedRunner
<1> HIDE DEF S
<1>3. AllExecuted(r, cs) \in S BY <1>1, <1>2, CommandsPreserve
<1> QED BY <1>3 DEF S

\* Whoever is stalled stays so, unless it has ended or goes on.
LEMMA StalledOn ==
  ASSUME NEW r, NEW st \in BOOLEAN, RunnerInv(r, st)
  PROVE  RunnerInv(r, st /\ r.running /\ r.schedule = None) /\ RunnerInv(r, st /\ r.schedule = None)
BY DEF RunnerInv, Pending

LEMMA StartKeeps ==
  ASSUME NEW d \in Demo, RunnerInv(runner, stalled), stalled \in BOOLEAN, PlayDemo(d)
  PROVE  RunnerInv(runner', stalled') /\ stalled' \in BOOLEAN
<1>1. runner' = Started(runner, d) /\ stalled' = (stalled /\ runner'.schedule = None)
  BY DEF PlayDemo
<1>2. RunnerInv(Started(runner, d), stalled) BY StartedRunner DEF RunnerInv
<1> QED BY <1>1, <1>2, StalledOn

LEMMA TickKeeps ==
  ASSUME RunnerInv(runner, stalled), Tick
  PROVE  RunnerInv(runner', stalled)
<1>1. runner \in Runner /\ runner.schedule \in Delay \cup {None} BY DEF RunnerInv, Runner
<1>2. /\ Sooner(runner.schedule) \in Delay \cup {None}
      /\ Sooner(runner.schedule) = None <=> runner.schedule = None
  BY <1>1, AutomationAssumption DEF Sooner, AtLeastZero, Delay
<1>3. \A n \in Delay \cup {None} :
        LET q == [runner EXCEPT !.schedule = n, !.recent = FALSE]
        IN /\ q \in Runner /\ q.schedule = n /\ q.running = runner.running
           /\ q.shown = runner.shown /\ q.modified = runner.modified /\ q.stray = runner.stray
  BY <1>1 DEF Runner
<1>4. runner' = [runner EXCEPT !.schedule = Sooner(runner.schedule), !.recent = FALSE]
  BY DEF Tick
<1> QED BY <1>2, <1>3, <1>4 DEF RunnerInv, Tidy, Pending

-----------------------------------------------------------------------------
\* The timer

\* What it takes for the timer to be on target: how late it is is bounded too.
TimerInv(t, re) ==
  /\ t \in TimerType /\ t.static <= 3 /\ t.left <= 3
  /\ t.expires # None <=> t.started
  /\ t.started => t.set /\ (re \/ AtLeastZero(t.left) - t.expires \in 0 .. Second)

\* What int() takes away is less than a second.
LEMMA Truncation ==
  ASSUME NEW x \in Nat, NEW s \in Nat \ {0}
  PROVE  /\ (x \div s) * s \in Int /\ (x \div s) * s >= 0
         /\ (x \div s) * s <= x /\ x - (x \div s) * s < s
<1> DEFINE q == x \div s
           r == x % s
<1>1. q \in Int /\ r \in 0 .. s - 1 /\ x = s * q + r BY Z3
<1> HIDE DEF q, r
<1>2. q >= 0 BY <1>1, Z3
<1>3. s * q = q * s /\ s * q \in Int BY <1>1, Z3
<1>4. q * s >= 0 BY <1>1, <1>2, Z3
<1> QED BY <1>1, <1>3, <1>4 DEF q

\* The delay of a timer whose time is at most 3, read a tick later or not.
LEMMA SecondsOf ==
  ASSUME NEW n \in Int, NEW lag \in {0, 1}, n <= 3
  PROVE  /\ WholeSeconds(n - lag) \in Delay
         /\ AtLeastZero(n) - WholeSeconds(n - lag) \in 0 .. Second
<1> DEFINE x == AtLeastZero(n - lag)
           w == WholeSeconds(n - lag)
<1>1. x \in Nat /\ x <= AtLeastZero(n) /\ AtLeastZero(n) - x <= 1 /\ AtLeastZero(n) \in 0 .. 3
  BY DEF AtLeastZero
<1>2. Second \in Nat \ {0} BY AutomationAssumption
<1>3. w = (x \div Second) * Second BY DEF WholeSeconds
<1> HIDE DEF x, w
<1>4. w \in Int /\ w >= 0 /\ w <= x /\ x - w < Second BY <1>1, <1>2, <1>3, Truncation
<1>5. w \in 0 .. 3 /\ AtLeastZero(n) - w \in 0 .. Second BY <1>1, <1>2, <1>4
<1> QED BY <1>5 DEF w, Delay

LEMMA ScheduledTimer ==
  ASSUME NEW t \in TimerType, NEW lag \in {0, 1}, t.static <= 3
  PROVE  LET q == StartSchedule(t, lag)
         IN /\ q \in TimerType /\ q.static = t.static /\ q.left = t.left
            /\ q.set = t.set /\ q.started = t.started
            /\ q.expires = IF t.started THEN WholeSeconds(t.static - lag) ELSE None
<1>1. t.static \in Int BY DEF TimerType
<1>2. WholeSeconds(t.static - lag) \in Delay BY <1>1, SecondsOf
<1>3. \A e \in Delay \cup {None} :
        LET q == [t EXCEPT !.expires = e]
        IN /\ q \in TimerType /\ q.static = t.static /\ q.left = t.left /\ q.set = t.set
           /\ q.started = t.started /\ q.expires = e
  BY DEF TimerType
<1> DEFINE e == IF t.started THEN WholeSeconds(t.static - lag) ELSE None
           s == StartSchedule(t, lag)
<1>4. s = [t EXCEPT !.expires = e] /\ e \in Delay \cup {None} BY <1>2 DEF StartSchedule
<1> HIDE DEF e, s
<1>5. s.expires = e /\ s \in TimerType /\ s.static = t.static
      /\ s.left = t.left /\ s.set = t.set /\ s.started = t.started
  BY <1>3, <1>4
<1> QED BY <1>5 DEF e, s

\* A change of the timer ends with its scheduling.
LEMMA ChangeKeeps ==
  ASSUME NEW t \in TimerType, NEW fresh \in BOOLEAN, NEW lags \in SUBSET {0, 1},
         t.static <= 3, t.left <= 3,
         t.started => t.set, t.started /\ fresh => t.left = t.static, Changed(t, fresh, lags)
  PROVE  TimerInv(timer', rearmed') /\ rearmed' \in BOOLEAN
<1>1. PICK lag \in {0, 1} : timer' = StartSchedule(t, lag)
  BY DEF Changed
<1>2. rearmed' = (t.started /\ ~fresh) BY DEF Changed
<1>3. t.static \in Int /\ t.started \in BOOLEAN BY DEF TimerType
<1> DEFINE w == WholeSeconds(t.static - lag)
<1>4. w \in Delay /\ AtLeastZero(t.static) - w \in 0 .. Second BY <1>3, SecondsOf
<1>5. w # None BY <1>4, AutomationAssumption DEF Delay
<1>6. /\ timer' \in TimerType /\ timer'.static = t.static /\ timer'.left = t.left
      /\ timer'.set = t.set /\ timer'.started = t.started
      /\ timer'.expires = IF t.started THEN w ELSE None
  BY <1>1, ScheduledTimer
<1> HIDE DEF w
<1> QED BY <1>2, <1>3, <1>4, <1>5, <1>6 DEF TimerInv

LEMMA SetTimerKeeps ==
  ASSUME TimerInv(timer, rearmed), NEW n \in Int, NEW add \in BOOLEAN, SetTimer(n, add)
  PROVE  TimerInv(timer', rearmed') /\ rearmed' \in BOOLEAN
<1> DEFINE q == Timed(timer, n, add)
<1>1. timer \in TimerType BY DEF TimerInv
<1>2. timer.static \in Int /\ timer.left \in Int BY <1>1 DEF TimerType
<1> DEFINE lags == IF timer.started THEN {0, 1} ELSE {0}
<1>3. AtLeastZero(q.static) \in Delay /\ Changed(q, TRUE, lags) BY DEF SetTimer
<1>7. lags \in SUBSET {0, 1} OBVIOUS
<1> HIDE DEF lags
<1>4. CASE timer.set /\ timer.started
  <2> DEFINE l == (IF add THEN timer.left ELSE 0) + n
  <2>1. l \in Int BY <1>2
  <2>2. \A k \in Int : LET p == [timer EXCEPT !.left = k, !.static = k]
                       IN p \in TimerType /\ p.left = k /\ p.static = k
                          /\ p.set = timer.set /\ p.started = timer.started
    BY <1>1 DEF TimerType
  <2>3. q = [timer EXCEPT !.left = l, !.static = l] BY <1>4 DEF Timed
  <2> HIDE DEF l, q
  <2>4. q \in TimerType /\ q.left = l /\ q.static = l /\ q.set = timer.set
        /\ q.started = timer.started
    BY <2>1, <2>2, <2>3
  <2>5. l <= 3 BY <1>3, <2>1, <2>4 DEF AtLeastZero, Delay
  <2> QED BY <1>3, <1>4, <1>7, <2>4, <2>5, ChangeKeeps
<1>5. CASE timer.set /\ ~timer.started
  <2> DEFINE s == (IF add THEN timer.static ELSE 0) + n
  <2>1. s \in Int BY <1>2
  <2>2. \A k \in Int : LET p == [timer EXCEPT !.static = k]
                       IN p \in TimerType /\ p.left = timer.left /\ p.static = k
                          /\ p.set = timer.set /\ p.started = timer.started
    BY <1>1 DEF TimerType
  <2>3. q = [timer EXCEPT !.static = s] BY <1>5 DEF Timed
  <2> HIDE DEF s, q
  <2>4. q \in TimerType /\ q.left = timer.left /\ q.static = s /\ q.started = timer.started
    BY <2>1, <2>2, <2>3
  <2>5. s <= 3 BY <1>3, <2>1, <2>4 DEF AtLeastZero, Delay
  <2>6. q.left <= 3 BY <2>4 DEF TimerInv
  <2> QED BY <1>3, <1>5, <1>7, <2>4, <2>5, <2>6, ChangeKeeps
<1>6. CASE ~timer.set
  <2> DEFINE s == IF n < 0 THEN -n ELSE n
  <2>1. s \in Int OBVIOUS
  <2>2. \A k \in Int : LET p == [timer EXCEPT !.set = TRUE, !.static = k]
                       IN p \in TimerType /\ p.left = timer.left /\ p.static = k
                          /\ p.set = TRUE /\ p.started = timer.started
    BY <1>1 DEF TimerType
  <2>3. q = [timer EXCEPT !.set = TRUE, !.static = s] BY <1>6 DEF Timed
  <2> HIDE DEF s, q
  <2>4. q \in TimerType /\ q.left = timer.left /\ q.static = s /\ q.started = timer.started
    BY <2>1, <2>2, <2>3
  <2>5. s <= 3 BY <1>3, <2>1, <2>4 DEF AtLeastZero, Delay
  <2>6. q.left <= 3 /\ ~q.started BY <1>6, <2>4 DEF TimerInv
  <2> QED BY <1>3, <1>7, <2>4, <2>5, <2>6, ChangeKeeps
<1> QED BY <1>4, <1>5, <1>6

LEMMA StartTimerKeeps ==
  ASSUME TimerInv(timer, rearmed), StartTimer
  PROVE  TimerInv(timer', rearmed') /\ rearmed' \in BOOLEAN
<1> DEFINE q == TimerStarted(timer)
<1>1. timer \in TimerType /\ timer.set /\ Changed(q, ~timer.started, {0})
      /\ timer.static <= 3 /\ timer.left <= 3
  BY DEF TimerInv, StartTimer
<1>2. CASE timer.started
  <2>1. q = timer BY <1>2 DEF TimerStarted
  <2> QED BY <1>1, <1>2, <2>1, ChangeKeeps
<1>3. CASE ~timer.started
  <2>1. \A k \in Int : LET p == [timer EXCEPT !.started = TRUE, !.left = k]
                       IN p \in TimerType /\ p.left = k /\ p.static = timer.static
                          /\ p.set = timer.set /\ p.started = TRUE
    BY <1>1 DEF TimerType
  <2>2. q = [timer EXCEPT !.started = TRUE, !.left = timer.static] BY <1>3 DEF TimerStarted
  <2>3. timer.static \in Int BY <1>1 DEF TimerType
  <2> HIDE DEF q
  <2>4. q \in TimerType /\ q.left = timer.static /\ q.static = timer.static
        /\ q.set = timer.set /\ q.started = TRUE
    BY <2>1, <2>2, <2>3
  <2> QED BY <1>1, <1>3, <2>4, ChangeKeeps
<1>4. timer.started \in BOOLEAN BY <1>1 DEF TimerType
<1> QED BY <1>2, <1>3, <1>4

LEMMA PauseTimerKeeps ==
  ASSUME TimerInv(timer, rearmed), PauseTimer
  PROVE  TimerInv(timer', rearmed') /\ rearmed' \in BOOLEAN
<1> DEFINE q == TimerPaused(timer)
<1>1. timer \in TimerType /\ timer.set /\ Changed(q, FALSE, {0})
      /\ timer.static <= 3 /\ timer.left <= 3
  BY DEF TimerInv, PauseTimer
<1>2. CASE ~timer.started
  <2>1. q = timer BY <1>2 DEF TimerPaused
  <2> QED BY <1>1, <1>2, <2>1, ChangeKeeps
<1>3. CASE timer.started
  <2>1. \A k \in Int : LET p == [timer EXCEPT !.started = FALSE, !.static = k]
                       IN p \in TimerType /\ p.left = timer.left /\ p.static = k
                          /\ p.started = FALSE
    BY <1>1 DEF TimerType
  <2>2. q = [timer EXCEPT !.started = FALSE, !.static = timer.left] BY <1>3 DEF TimerPaused
  <2>3. timer.left \in Int BY <1>1 DEF TimerType
  <2> HIDE DEF q
  <2>4. q \in TimerType /\ q.left = timer.left /\ q.static = timer.left /\ q.started = FALSE
    BY <2>1, <2>2, <2>3
  <2> QED BY <1>1, <2>4, ChangeKeeps
<1> QED BY <1>2, <1>3

LEMMA FreshTimer == TimerInv(NewTimer, FALSE) /\ NewTimer.commands = << >>
<1>1. << >> \in Seq(Attached) BY EmptySeq
<1>2. NewTimer \in TimerType BY <1>1 DEF NewTimer, TimerType
<1> QED BY <1>2 DEF TimerInv, NewTimer

LEMMA UnsetTimerKeeps ==
  ASSUME UnsetTimer
  PROVE  TimerInv(timer', rearmed') /\ rearmed' \in BOOLEAN
<1>1. timer' = NewTimer /\ rearmed' = FALSE BY DEF UnsetTimer, TimerUnset, NewTimer
<1> QED BY <1>1, FreshTimer

LEMMA AttachKeeps ==
  ASSUME TimerInv(timer, rearmed), NEW c \in Attached, Attach(c)
  PROVE  TimerInv(timer', rearmed)
<1>1. timer \in TimerType /\ timer.commands \in Seq(Attached) BY DEF TimerInv, TimerType
<1>2. << >> \in Seq(Attached) /\ Append(timer.commands, c) \in Seq(Attached)
  BY <1>1, EmptySeq, AppendProperties
<1>3. \A cs \in Seq(Attached) :
        LET q == [timer EXCEPT !.commands = cs]
        IN /\ q \in TimerType /\ q.static = timer.static /\ q.left = timer.left
           /\ q.set = timer.set /\ q.started = timer.started /\ q.expires = timer.expires
  BY <1>1 DEF TimerType
<1>4. PICK cs \in {<< >>, Append(timer.commands, c)} : timer' = [timer EXCEPT !.commands = cs]
  BY DEF Attach
<1>5. /\ timer' \in TimerType /\ timer'.static = timer.static /\ timer'.left = timer.left
      /\ timer'.set = timer.set /\ timer'.started = timer.started /\ timer'.expires = timer.expires
  <2>1. cs \in Seq(Attached) BY <1>2
  <2> QED BY <1>3, <1>4, <2>1
<1> QED BY <1>5 DEF TimerInv

LEMMA ExpireKeeps ==
  ASSUME TimerInv(timer, rearmed), Expire
  PROVE  TimerInv(timer', rearmed') /\ rearmed' \in BOOLEAN
<1>1. timer \in TimerType /\ timer.left <= 3 /\ << >> \in Seq(Attached) BY EmptySeq DEF TimerInv
<1> DEFINE With(n, cs) ==
             [timer EXCEPT !.expires = None, !.static = n, !.started = FALSE, !.commands = cs]
<1>2. \A n \in Int, cs \in Seq(Attached) :
        /\ With(n, cs) \in TimerType /\ With(n, cs).static = n /\ With(n, cs).left = timer.left
        /\ With(n, cs).expires = None /\ With(n, cs).started = FALSE
  BY <1>1 DEF TimerType
<1>3. timer' = With(0, << >>) /\ rearmed' = FALSE BY DEF Expire
<1> HIDE DEF With
<1>4. /\ timer' \in TimerType /\ timer'.static = 0 /\ timer'.left = timer.left
      /\ timer'.expires = None /\ timer'.started = FALSE
  <2>1. 0 \in Int OBVIOUS
  <2> QED BY <1>1, <1>2, <1>3, <2>1, Zenon
<1>5. timer'.static <= 3 /\ timer'.left <= 3 BY <1>1, <1>4
<1>6. (timer'.expires # None) <=> timer'.started BY <1>4
<1>7. ~timer'.started BY <1>4
<1> QED BY <1>3, <1>4, <1>5, <1>6, <1>7 DEF TimerInv

LEMMA TimerTicks ==
  ASSUME TimerInv(timer, rearmed), Tick
  PROVE  TimerInv(timer', rearmed)
<1>1. /\ timer \in TimerType /\ timer.left \in Int /\ timer.expires \in Delay \cup {None}
      /\ timer.started \in BOOLEAN
  BY DEF TimerInv, TimerType
<1>2. CASE timer.started
  <2>1. timer.expires \in Delay /\ timer.expires # 0 BY <1>1, <1>2 DEF TimerInv, Tick
  <2> DEFINE e == Sooner(timer.expires)
  <2>2. e \in Delay /\ e = timer.expires - 1 /\ e # None
    BY <2>1, AutomationAssumption DEF Sooner, AtLeastZero, Delay
  <2>3. \A k \in Int, m \in Delay :
          LET q == [timer EXCEPT !.left = k, !.expires = m]
          IN /\ q \in TimerType /\ q.static = timer.static /\ q.left = k
             /\ q.set = timer.set /\ q.started = timer.started /\ q.expires = m
    BY <1>1 DEF TimerType
  <2>4. timer' = [timer EXCEPT !.left = timer.left - 1, !.expires = e] BY <1>2 DEF Tick
  <2> HIDE DEF e
  <2> DEFINE l == timer.left - 1
  <2>8. l \in Int BY <1>1
  <2> HIDE DEF l
  <2>9. timer' = [timer EXCEPT !.left = l, !.expires = e] BY <2>4 DEF l
  <2>10. /\ timer' \in TimerType /\ timer'.static = timer.static /\ timer'.left = l
         /\ timer'.set = timer.set /\ timer'.started = timer.started /\ timer'.expires = e
    BY <2>2, <2>3, <2>8, <2>9
  <2>5. /\ timer' \in TimerType /\ timer'.static = timer.static /\ timer'.left = timer.left - 1
        /\ timer'.set = timer.set /\ timer'.started = timer.started /\ timer'.expires = e
    BY <2>10 DEF l
  <2>6. AtLeastZero(timer.left) - timer.expires \in 0 .. Second
          => AtLeastZero(timer.left - 1) - e \in 0 .. Second
    BY <1>1, <2>1, <2>2, AutomationAssumption DEF AtLeastZero, Delay
  <2>7. timer'.left <= 3 /\ timer'.static <= 3 BY <1>1, <2>5 DEF TimerInv
  <2> QED BY <1>2, <2>2, <2>5, <2>6, <2>7 DEF TimerInv
<1>3. CASE ~timer.started
  <2>1. timer' = timer BY <1>3 DEF Tick
  <2> QED BY <2>1
<1> QED BY <1>2, <1>3

-----------------------------------------------------------------------------
\* All of it

IInv ==
  /\ RunnerInv(runner, stalled) /\ TimerInv(timer, rearmed)
  /\ trigger \in Triggers \cup {None} /\ used \in 0 .. Budget
  /\ stalled \in BOOLEAN /\ rearmed \in BOOLEAN

LEMMA InitIInv == ASSUME Init PROVE IInv
<1> USE AutomationAssumption
<1>1. << >> \in Seq(Instruction) /\ << >> \in Seq(Place) /\ 0 \in 0 .. MaxSteps /\ 1 \in Place
  BY EmptySeq DEF Place
<1>2. NewRunner \in Runner BY <1>1 DEF NewRunner, Runner
<1>3. RunnerInv(NewRunner, FALSE) BY <1>2 DEF RunnerInv, Tidy, Pending, NewRunner
<1>4. 0 \in 0 .. Budget OBVIOUS
<1>5. /\ runner = NewRunner /\ trigger = None /\ timer = NewTimer
      /\ used = 0 /\ stalled = FALSE /\ rearmed = FALSE
  BY DEF Init
<1>6. RunnerInv(runner, stalled) /\ TimerInv(timer, rearmed) BY <1>3, <1>5, FreshTimer
<1> QED BY <1>4, <1>5, <1>6 DEF IInv

LEMMA UsesIsCounted ==
  ASSUME used \in 0 .. Budget, Uses
  PROVE  used' \in 0 .. Budget
BY AutomationAssumption DEF Uses

LEMMA CommandsAreCommands ==
  /\ Triggers \cup Attached \subseteq Command
  /\ Seq(Attached) \subseteq Seq(Command)
BY AutomationAssumption DEF Command

LEMMA NextIInv == ASSUME IInv, [Next]_vars PROVE IInv'
<1> USE DEF IInv
<1>1. CASE Step
  <2>1. RunnerInv(runner', stalled') /\ stalled' \in BOOLEAN BY <1>1, StepKeeps
  <2>2. UNCHANGED << trigger, timer, used, rearmed >> BY <1>1 DEF Step
  <2> QED BY <2>1, <2>2
<1>2. CASE StopDemo
  <2>1. runner' = Finished(runner) /\ stalled' = FALSE /\ Uses
        /\ UNCHANGED << trigger, timer, rearmed >>
    BY <1>2 DEF StopDemo
  <2>2. RunnerInv(Finished(runner), FALSE) BY FinishedRunner DEF RunnerInv, Pending
  <2> QED BY <2>1, <2>2, UsesIsCounted
<1>3. CASE Join
  <2>1. /\ runner' = Executed(runner, trigger) /\ trigger \in Command /\ Uses
        /\ stalled' = (stalled /\ runner'.running /\ runner'.schedule = None)
        /\ UNCHANGED << trigger, timer, rearmed >>
    BY <1>3, CommandsAreCommands DEF Join
  <2>2. RunnerInv(runner', stalled') BY <2>1, CommandKeeps, StalledOn
  <2> QED BY <2>1, <2>2, UsesIsCounted
<1>4. CASE StartTimer
  <2>1. Uses /\ UNCHANGED << runner, trigger, stalled >> BY <1>4 DEF StartTimer
  <2> QED BY <1>4, <2>1, UsesIsCounted, StartTimerKeeps
<1>5. CASE PauseTimer
  <2>1. Uses /\ UNCHANGED << runner, trigger, stalled >> BY <1>5 DEF PauseTimer
  <2> QED BY <1>5, <2>1, UsesIsCounted, PauseTimerKeeps
<1>6. CASE UnsetTimer
  <2>1. Uses /\ UNCHANGED << runner, trigger, stalled >> BY <1>6 DEF UnsetTimer
  <2> QED BY <1>6, <2>1, UsesIsCounted, UnsetTimerKeeps
<1>7. CASE Expire
  <2>1. /\ runner' = AllExecuted(runner, timer.commands)
        /\ stalled' = (stalled /\ runner'.running /\ runner'.schedule = None)
        /\ UNCHANGED << trigger, used >>
    BY <1>7 DEF Expire
  <2>2. timer.commands \in Seq(Command)
    BY CommandsAreCommands DEF TimerInv, TimerType
  <2>3. RunnerInv(runner', stalled') BY <2>1, <2>2, CommandsKeep, StalledOn
  <2> QED BY <1>7, <2>1, <2>3, ExpireKeeps
<1>8. CASE Tick
  <2>1. UNCHANGED << trigger, used, stalled, rearmed >> BY <1>8 DEF Tick
  <2> QED BY <1>8, <2>1, TickKeeps, TimerTicks
<1>9. ASSUME NEW d \in Demo, PlayDemo(d) PROVE IInv'
  <2>1. Uses /\ UNCHANGED << trigger, timer, rearmed >> BY <1>9 DEF PlayDemo
  <2> QED BY <1>9, <2>1, UsesIsCounted, StartKeeps
<1>10. ASSUME NEW c \in Triggers, SetTrigger(c) PROVE IInv'
  <2>1. Uses /\ trigger' = c /\ UNCHANGED << runner, timer, stalled, rearmed >>
    BY <1>10 DEF SetTrigger
  <2> QED BY <2>1, UsesIsCounted
<1>11. ASSUME NEW n \in Durations \cup Adjustments, NEW add \in BOOLEAN, SetTimer(n, add)
       PROVE  IInv'
  <2>1. Uses /\ UNCHANGED << runner, trigger, stalled >> BY <1>11 DEF SetTimer
  <2>2. n \in Int BY AutomationAssumption
  <2> QED BY <1>11, <2>1, <2>2, UsesIsCounted, SetTimerKeeps
<1>12. ASSUME NEW c \in Attached, Attach(c) PROVE IInv'
  <2>1. Uses /\ UNCHANGED << runner, trigger, stalled, rearmed >> BY <1>12 DEF Attach
  <2> QED BY <1>12, <2>1, UsesIsCounted, AttachKeeps
<1>13. CASE UNCHANGED vars BY <1>13 DEF vars
<1> QED
  BY <1>1, <1>2, <1>3, <1>4, <1>5, <1>6, <1>7, <1>8, <1>9, <1>10, <1>11, <1>12, <1>13 DEF Next

LEMMA IInvAlways == Spec => []IInv
BY InitIInv, NextIInv, PTL DEF Spec

\* A runner, a timer, a trigger and the history are what they should be, in every state.
THEOREM TypesAlways == Spec => []TypeOK
<1>1. IInv => TypeOK BY DEF IInv, TypeOK, RunnerInv, TimerInv
<1> QED BY <1>1, IInvAlways, PTL

\* A script that runs goes on: its next step is scheduled, unless a /demo of its own was
\* refused, for any scripts, triggers and commands (ScriptRunner.step, RemoteClient.execute).
THEOREM StepsAlwaysFollow == Spec => []NextStepIsPending
<1>1. IInv => NextStepIsPending BY DEF IInv, NextStepIsPending, RunnerInv, Pending
<1> QED BY <1>1, IInvAlways, PTL

\* However a script ends, the area has its own bars and background back (finish).
THEOREM AlwaysRestored == Spec => []RestoredWhenStopped
<1>1. IInv => RestoredWhenStopped BY DEF IInv, RestoredWhenStopped, RunnerInv, Tidy
<1> QED BY <1>1, IInvAlways, PTL

\* A timer that is started is due when its target says, or up to a second before it, for any
\* times, adjustments and length of a second, unless it was scheduled anew without a time
\* (Timer.start_schedule).
THEOREM TimerAlwaysOnTarget == Spec => []ExpiryIsOnTarget
<1>1. IInv => ExpiryIsOnTarget BY DEF IInv, ExpiryIsOnTarget, TimerInv
<1> QED BY <1>1, IInvAlways, PTL

=============================================================================
