----------------------------- MODULE Automation -----------------------------
(***************************************************************************)
(* The automation of one area: the demo runner (script_runner.py) that     *)
(* steps through the script in an evidence item, the trigger and the timer *)
(* (timer.py) whose commands run through the same script executor.         *)
(*                                                                         *)
(* Each step of a script is a callback of the event loop of its own. A     *)
(* command of a script may start another script: itself (/demo), or by way *)
(* of the trigger, while the runner is still in the step of the first.     *)
(* The values of variables are left out: an instruction that computes      *)
(* succeeds or fails, a condition holds or not. Time passes in ticks, some *)
(* of which are a second.                                                  *)
(***************************************************************************)
EXTENDS Integers, Sequences, FiniteSets

CONSTANTS
  Demo,         \* the evidence items that are played
  Desc,         \* Desc[d]: the description of an item, as a sequence of chunks
  Own, Others,  \* this area, and the areas of the executor's broadcast list
  Triggers,     \* values of the trigger: commands, or None
  RateLimited,  \* demo_rate_limit_ms is on (and is a tick)
  MaxSteps,     \* demo_max_steps
  Second,       \* so many ticks: a timer's callback is due after whole seconds
  Durations,    \* the times timers are set to
  Adjustments,  \* the times they are adjusted by
  Attached,     \* commands that are queued at the timer
  Stop, Summon, Fail, \* commands besides /demo d: see Executed
  Budget,       \* bound: how often people use commands
  None

VARIABLES
  runner,   \* the ScriptRunner, see Runner
  trigger,  \* area.triggers of a player who enters
  timer,    \* a Timer, see TimerTypes
  used,     \* how many commands people have used
  stalled,  \* history: a /demo of the script was refused, so that nothing was scheduled
  rearmed   \* history: the timer was scheduled anew without a new time

vars == << runner, trigger, timer, used, stalled, rearmed >>

Delay == 0 .. 3 \* bound: how many ticks a wait, or a timer, takes at most

\* What matters of an instruction: how long it waits, the command, the label.
Instruction ==
  [op : {"wait"}, to : Delay]
    \cup [op : {"command"}, to : Demo \cup {Stop, Summon, Fail, None}]
    \cup [op : {"packet", "label", "goto", "return", "if", "set"}, to : Delay \cup {None}]

\* What begins as an instruction, or a blank or unknown line, and the separator after it.
Chunk ==
  [is : {"packet", "command", "instruction"}, does : Instruction, sep : {"%", "nl"}]
    \cup [is : {"blank", "unknown"}, does : {None}, sep : {"%", "nl"}]

ASSUME AutomationAssumption ==
  /\ DOMAIN Desc = Demo /\ \A d \in Demo : Desc[d] \in Seq(Chunk)
  /\ Demo \cap {Stop, Summon, Fail, None} = {} /\ Stop # Summon /\ Stop # Fail /\ Summon # Fail
  /\ None \notin {Stop, Summon, Fail} /\ None \notin Int
  /\ Triggers \cup Attached \subseteq Demo \cup {Stop, Summon, Fail, None}
  /\ MaxSteps \in Nat /\ Budget \in Nat /\ Second \in Nat \ {0} /\ Durations \cup Adjustments \subseteq Int

-----------------------------------------------------------------------------
\* Parsing: packets and commands run to the next "%", other lines to the end of the line
\* or a "%". Lines that are no instructions are dropped.

\* _parse_instruction knows it.
Parsed(chunk) == chunk.is \notin {"blank", "unknown"}

LineEnd(desc, i) ==
  LET ends == {j \in i .. Len(desc) : desc[j].sep = "%"} \cup {Len(desc)}
  IN IF desc[i].is \in {"packet", "command"} THEN CHOOSE j \in ends : \A k \in ends : j <= k ELSE i

Program(d) ==
  LET desc == Desc[d]
      from[i \in 1 .. Len(desc) + 1] ==
        IF i > Len(desc) THEN << >>
        ELSE IF ~Parsed(desc[i]) THEN from[i + 1]
        ELSE << desc[i].does >> \o from[LineEnd(desc, i) + 1]
  IN from[1]

\* _build_labels: the last label of a name.
Labels(queue, l) == {i \in DOMAIN queue : queue[i].op = "label" /\ queue[i].to = l}

Last(S) == CHOOSE i \in S : \A j \in S : j <= i

-----------------------------------------------------------------------------
\* The runner

\* Where in its queue it is: from 1 on.
Place == Nat \ {0}

Runner == [queue : Seq(Instruction),
           index : Place, stack : Seq(Place), running : BOOLEAN, steps : 0 .. MaxSteps,
           schedule : Delay \cup {None}, \* the handle that step() and finish() cancel
           stray : BOOLEAN,              \* an earlier handle, which nothing refers to any more
           modified : BOOLEAN,           \* modified_packets
           shown : SUBSET ({Own} \cup Others), \* areas that show a bar or background of the script
           run : BOOLEAN,                \* history: changes whenever a script is started
           recent : BOOLEAN]             \* the executor has just used /demo

NewRunner ==
  [queue |-> << >>, index |-> 1, stack |-> << >>, running |-> FALSE, steps |-> 0,
   schedule |-> None, stray |-> FALSE, modified |-> FALSE, shown |-> {}, run |-> FALSE,
   recent |-> FALSE]

RestoresOwn(r) == IF r.modified THEN r.shown \ {Own} ELSE r.shown

RestoresNothing(r) == r.shown

\* _reset_modified_packets: this area's own bars and background.
Restored(r) == RestoresOwn(r)

\* finish
Finished(r) ==
  [r EXCEPT !.schedule = None, !.running = FALSE, !.queue = << >>, !.index = 1, !.stack = << >>,
            !.steps = 0, !.shown = Restored(r), !.modified = FALSE]

\* start, and play_demo, which starts nothing if there is nothing to start.
Started(r, d) ==
  IF Program(d) = << >> THEN r
  ELSE [r EXCEPT !.schedule = 0, !.queue = Program(d), !.index = 1, !.stack = << >>,
                 !.running = TRUE, !.steps = 0, !.run = ~@]

Refused(r, d) == RateLimited /\ r.recent

\* ooc_cmd_demo of the executor
Demoed(r, d) == IF Refused(r, d) THEN r ELSE [Started(r, d) EXCEPT !.recent = TRUE]

\* A command of the executor, of those that matter here: another demo, none, one that
\* moves a player in (which fires the trigger), or one that fails.
TriggerFails == trigger = Fail

Executed(r, c) ==
  CASE c \in Demo -> Demoed(r, c)
    [] c = Stop -> Finished(r)
    [] c = Summon /\ trigger \in Demo -> Demoed(r, trigger)
    [] OTHER -> r

\* It has failed: by itself, or by the trigger, as the outputs are collected in one list.
Fails(c) == c = Fail \/ (c = Summon /\ TriggerFails)

NotScheduled(r) == r

ScheduledAgain(r) == [r EXCEPT !.stray = r.schedule # None, !.schedule = 0]

\* The end of step(): schedules the next one, over a handle that a trigger's /demo left.
Continued(r) == IF r.running THEN ScheduledAgain(r) ELSE r

Jumped(r, l) ==
  LET at == Labels(r.queue, l) IN IF at = {} THEN Finished(r) ELSE [r EXCEPT !.index = Last(at)]

\* send_packet, to this area or to the broadcast list; a name in it may be unknown.
Packet(r) ==
  {Finished(r)} \cup {[r EXCEPT !.shown = @ \cup a, !.modified = TRUE] : a \in {{Own}, Others}}

\* set, get, concat, rand and save fail where a value is unknown or of the wrong type.
Computed(r) == {Continued(r), Finished(r)}

Branched(r, l) == Computed(r) \cup {Continued(Jumped(r, l))}

Called(r, l) == Continued(Jumped([r EXCEPT !.stack = Append(@, r.index)], l))

Returned(r) ==
  IF r.stack = << >> THEN Finished(r)
  ELSE Continued([r EXCEPT !.index = r.stack[Len(r.stack)], !.stack = SubSeq(@, 1, Len(@) - 1)])

\* After a /demo of its own the script goes on with the new one, or not at all.
Commanded(r, c) ==
  IF Fails(c) THEN Finished(Executed(r, c))
  ELSE IF c \in Demo \cup {Stop} THEN Executed(r, c)
  ELSE Continued(Executed(r, c))

\* What step() makes of the instruction i, r being past it.
Performed(r, i) ==
  CASE i.op = "wait" -> {[r EXCEPT !.schedule = i.to]}
    [] i.op = "packet" -> {Continued(s) : s \in Packet(r)}
    [] i.op = "label" -> {Continued(r)}
    [] i.op = "goto" -> {Called(r, i.to)}
    [] i.op = "return" -> {Returned(r)}
    [] i.op = "if" -> Branched(r, i.to)
    [] i.op = "set" -> Computed(r)
    [] i.op = "command" -> {Commanded(r, i.to)}

Uncounted(r) == [r EXCEPT !.index = @ + 1]

Counted(r) == [r EXCEPT !.steps = @ + 1, !.index = @ + 1]

OutOfSteps(r) == r.steps >= MaxSteps

\* step: of the schedule, or of the stray handle, which is due before it and cancels it.
Step ==
  LET r == [runner EXCEPT !.schedule = None, !.stray = FALSE]
      ended == ~r.running \/ r.index > Len(r.queue)
      i == r.queue[r.index]
  IN /\ runner.stray \/ runner.schedule = 0
     /\ IF ended \/ OutOfSteps(r) THEN runner' = Finished(r)
        ELSE runner' \in Performed(Counted(r), i)
     /\ stalled' = (/\ ~ended /\ ~OutOfSteps(r) /\ i.op = "command" /\ i.to \in Demo
                    /\ Refused(r, i.to) \/ Program(i.to) = << >>)
     /\ UNCHANGED << trigger, timer, used, rearmed >>

-----------------------------------------------------------------------------
\* People

Uses == used < Budget /\ used' = used + 1

\* /demo of a player, who is not rate limited in this model; a run that was stalled goes on.
PlayDemo(d) ==
  /\ Uses /\ runner' = Started(runner, d)
  /\ stalled' = (stalled /\ runner'.schedule = None)
  /\ UNCHANGED << trigger, timer, rearmed >>

\* /stop_demo, /demo
StopDemo ==
  /\ Uses /\ runner.running /\ runner' = Finished(runner)
  /\ stalled' = FALSE
  /\ UNCHANGED << trigger, timer, rearmed >>

SetTrigger(c) ==
  /\ Uses /\ c # trigger /\ trigger' = c
  /\ UNCHANGED << runner, timer, stalled, rearmed >>

\* A player comes in.
Join ==
  /\ Uses /\ trigger # None
  /\ runner' = Executed(runner, trigger)
  /\ stalled' = (stalled /\ runner'.running /\ runner'.schedule = None)
  /\ UNCHANGED << trigger, timer, rearmed >>

-----------------------------------------------------------------------------
\* The timer

TimerType ==
  [set : BOOLEAN, started : BOOLEAN, static : Int,
   left : Int,                     \* target - now
   expires : Delay \cup {None},    \* the handle of timer_expired
   commands : Seq(Attached)]

NewTimer == [set |-> FALSE, started |-> FALSE, static |-> 0, left |-> 0, expires |-> None,
             commands |-> << >>]

AtLeastZero(n) == IF n < 0 THEN 0 ELSE n

\* int(total_seconds())
WholeSeconds(n) == (AtLeastZero(n) \div Second) * Second

\* Mutant: the callback of a timer that was paused stays.
NotDisarmed(t, lag) ==
  IF t.started THEN [t EXCEPT !.expires = WholeSeconds(t.static - lag)] ELSE t

\* start_schedule, lag ticks after the time was computed.
StartSchedule(t, lag) ==
  [t EXCEPT !.expires = IF t.started THEN WholeSeconds(t.static - lag) ELSE None]

\* ooc_cmd_timer, its time: how much (anew, or to add).
Timed(t, n, add) ==
  IF t.set /\ t.started
  THEN LET left == (IF add THEN t.left ELSE 0) + n
       IN [t EXCEPT !.left = left, !.static = left]
  ELSE IF t.set THEN [t EXCEPT !.static = (IF add THEN t.static ELSE 0) + n]
  ELSE [t EXCEPT !.set = TRUE, !.static = IF n < 0 THEN -n ELSE n]

TimerStarted(t) == IF t.started THEN t ELSE [t EXCEPT !.started = TRUE, !.left = t.static]

TimerPaused(t) == IF t.started THEN [t EXCEPT !.started = FALSE, !.static = t.left] ELSE t

TimerUnset(t) == [NewTimer EXCEPT !.commands = << >>]

\* ooc_cmd_timer, the rest of it: unless it shows, hides, or adds a command, it ends by
\* scheduling the timer by its static time. That is the time that is left when the time
\* has just been given, or the timer was just started; of a timer that runs it is a bit less,
\* as the clock was read once for the target and again for the static time (lag).
Changed(t, fresh, lags) ==
  /\ \E lag \in lags : timer' = StartSchedule(t, lag)
  /\ rearmed' = (t.started /\ ~fresh)

SetTimer(n, add) ==
  /\ Uses /\ AtLeastZero(Timed(timer, n, add).static) \in Delay
  /\ Changed(Timed(timer, n, add), TRUE, IF timer.started THEN {0, 1} ELSE {0})
  /\ UNCHANGED << runner, trigger, stalled >>

StartTimer ==
  /\ Uses /\ timer.set
  /\ Changed(TimerStarted(timer), ~timer.started, {0})
  /\ UNCHANGED << runner, trigger, stalled >>

PauseTimer ==
  /\ Uses /\ timer.set
  /\ Changed(TimerPaused(timer), FALSE, {0})
  /\ UNCHANGED << runner, trigger, stalled >>

UnsetTimer ==
  /\ Uses /\ timer.set
  /\ timer' = TimerUnset(timer) /\ rearmed' = FALSE
  /\ UNCHANGED << runner, trigger, stalled >>

\* "/timer 1 /command" and "/timer 1 /clear"
Attach(c) ==
  /\ Uses /\ timer.set
  /\ timer' \in {[timer EXCEPT !.commands = Append(@, c)], [timer EXCEPT !.commands = << >>]}
  /\ UNCHANGED << runner, trigger, stalled, rearmed >>

\* call_commands: in order, up to one that fails, which ends the others too.
AllExecuted(r, cs) ==
  LET after[k \in 0 .. Len(cs)] ==
        IF k = 0 THEN r
        ELSE IF \E j \in 1 .. k : Fails(cs[j]) THEN after[k - 1]
        ELSE Executed(after[k - 1], cs[k])
  IN after[Len(cs)]

\* timer_expired
Expire ==
  /\ timer.expires = 0
  /\ timer' = [timer EXCEPT !.expires = None, !.static = 0, !.started = FALSE, !.commands = << >>]
  /\ runner' = AllExecuted(runner, timer.commands)
  /\ stalled' = (stalled /\ runner'.running /\ runner'.schedule = None)
  /\ rearmed' = FALSE
  /\ UNCHANGED << trigger, used >>

-----------------------------------------------------------------------------
Sooner(n) == IF n \in Delay THEN AtLeastZero(n - 1) ELSE n

\* Time passes when nothing is due.
Tick ==
  /\ ~runner.stray /\ runner.schedule # 0 /\ timer.expires # 0
  /\ runner.schedule # None \/ timer.started \/ runner.recent
  /\ runner' = [runner EXCEPT !.schedule = Sooner(@), !.recent = FALSE]
  /\ timer' = IF timer.started THEN [timer EXCEPT !.left = @ - 1, !.expires = Sooner(@)] ELSE timer
  /\ UNCHANGED << trigger, used, stalled, rearmed >>

Init ==
  /\ runner = NewRunner /\ trigger = None /\ timer = NewTimer
  /\ used = 0 /\ stalled = FALSE /\ rearmed = FALSE

Next ==
  \/ Step \/ StopDemo \/ Join \/ StartTimer \/ PauseTimer \/ UnsetTimer \/ Expire \/ Tick
  \/ \E d \in Demo : PlayDemo(d)
  \/ \E c \in Triggers : SetTrigger(c)
  \/ \E n \in Durations : SetTimer(n, FALSE)
  \/ \E n \in Adjustments : SetTimer(n, TRUE)
  \/ \E c \in Attached : Attach(c)

\* The event loop runs what is due, and time passes.
Fairness == WF_vars(Step) /\ WF_vars(Expire) /\ WF_vars(Tick)

Spec == Init /\ [][Next]_vars /\ Fairness

-----------------------------------------------------------------------------
\* Properties

TypeOK ==
  /\ runner \in Runner /\ trigger \in Triggers \cup {None} /\ timer \in TimerType
  /\ used \in 0 .. Budget /\ stalled \in BOOLEAN /\ rearmed \in BOOLEAN

\* A script that runs has its next step scheduled, whatever its commands, the trigger,
\* the timer and people do to the runner in the middle of it, unless a /demo of its own
\* was refused (for the rate limit, or because there is nothing in the item).
NextStepIsPending == runner.running => runner.stray \/ runner.schedule # None \/ stalled

\* When no script runs, the area shows its own bars and background, however the last one
\* ended: by an error, a jump to nowhere, too many steps, another demo, or somebody.
RestoredWhenStopped == ~runner.running => Own \notin runner.shown

\* The timer is scheduled just when it is started, through pauses, changes of its time and
\* expiries, and never later than its target says, nor more than a second earlier (the
\* callback is armed for whole seconds), unless it was scheduled again without a new time
\* (by a "start" of a timer that runs).
ExpiryIsOnTarget ==
  /\ timer.expires # None <=> timer.started
  /\ timer.started => timer.set
  /\ timer.started /\ ~rearmed => AtLeastZero(timer.left) - timer.expires \in 0 .. Second

\* Every run of a script ends, also of one that loops or calls itself, or starts a script
\* anew, of which the same is true, if its own /demo was not refused.
RunsEnd ==
  \A run \in BOOLEAN :
    LET Runs == runner.running /\ runner.run = run IN Runs ~> (~Runs \/ stalled)

\* "A script can't run forever" (docs/demo_scripting.md): the area comes to rest. It does
\* not hold for one that starts itself again: the steps are counted from 0.
ScriptsStop == runner.running ~> (~runner.running \/ stalled)

=============================================================================
