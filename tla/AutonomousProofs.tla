--------------------------- MODULE AutonomousProofs ---------------------------
(***************************************************************************)
(* What Autonomous keeps for every set of scripts, of any length, however  *)
(* the scheduler, the commands and the main thread interleave, and in any  *)
(* order of modes.                                                         *)
(*                                                                         *)
(* IInv has five parts: the types; the vector of current commands, which   *)
(* names lines already made into commands in the order of the script       *)
(* (ListSound); the lines begun, each finished or still in the vector      *)
(* (TurnSound); how far a stop has come (StopSound); and the timers of the *)
(* subsystems in each mode (TimerSound).                                   *)
(***************************************************************************)
EXTENDS Autonomous, SequenceTheorems, TLAPS

Commands ==
    [timer : BOOLEAN, at : {"idle", "update", "tail"}, isFinished : BOOLEAN]

Schedulers ==
    [timer : BOOLEAN, pc : {"idle", "scan", "start"}, fish : Nat \ {0}, threadFree : BOOLEAN]

Types ==
    /\ Len(script) \in Nat /\ Line = 1 .. Len(script)
    /\ curLine \in 0 .. Len(script)
    /\ command \in [Line -> Commands]
    /\ scheduler \in Schedulers
    /\ mode \in {"none", "disabled", "autonomous", "teleop", "test"}
    /\ main \in [pc : {"idle", "stop", "element", "cancel", "exception"}, fish : Nat \ {0}]
    /\ overlapped \in BOOLEAN

\* The commands are in the order of their lines, so none is there twice, and
\* there are no more of them than lines.
ListSound ==
    /\ curCommands \in Seq(1 .. curLine)
    /\ \A i, k \in DOMAIN curCommands : i < k => curCommands[i] < curCommands[k]
    /\ \A i \in DOMAIN curCommands : i <= curCommands[i]

Current(l) == \E i \in DOMAIN curCommands : curCommands[i] = l

\* A line begun is finished or current; those the scheduler has passed by
\* without losing threadFree are parallel.
TurnSound ==
    /\ \A l \in 1 .. curLine : command[l].isFinished \/ Current(l)
    /\ scheduler.pc # "scan" => scheduler.fish = 1
    /\ scheduler.pc = "scan" /\ scheduler.threadFree =>
          \A i \in DOMAIN curCommands : i < scheduler.fish => isParallel(curCommands[i])
    /\ InTurn

\* Only a current command has its timer set.  Unless an update overlaps it, a
\* stop finds the scheduler between two updates, and stops one command after
\* the other.
StopSound ==
    /\ \A l \in Line : command[l].timer => Current(l)
    /\ scheduler.pc = "start" => curCommands # <<>>
    /\ main.pc = "exception" => overlapped
    /\ Stopping /\ ~overlapped =>
          /\ scheduler.pc = "idle"
          /\ \A i \in DOMAIN curCommands : i < main.fish => ~command[curCommands[i]].timer
          /\ main.pc = "element" => main.fish <= Len(curCommands)
          /\ main.pc = "cancel" => main.fish > Len(curCommands)
    /\ main.pc = "idle" /\ mode \in {"disabled", "teleop"} /\ ~overlapped =>
          /\ ~scheduler.timer /\ scheduler.pc = "idle"
          /\ \A l \in Line : ~command[l].timer

\* While a mode changes, the timers are those of the mode left, or stopped.
TimerSound ==
    /\ timer \in [Runnables -> [set : BOOLEAN, lost : BOOLEAN]]
    /\ OneEach
    /\ main.pc # "idle" =>
          /\ mode \in {"disabled", "teleop"}
          /\ mode = "teleop" => \A r \in Runnables : ~timer[r].set

IInv == Types /\ ListSound /\ TurnSound /\ StopSound /\ TimerSound

-----------------------------------------------------------------------------
(* Sequences *)

\* What is left when an element of a sequence is removed.
LEMMA RemoveAtProperties ==
    ASSUME NEW S, NEW s \in Seq(S), NEW i \in 1 .. Len(s)
    PROVE  /\ RemoveAt(s, i) \in Seq(S)
           /\ Len(RemoveAt(s, i)) = Len(s) - 1
           /\ \A j \in 1 .. Len(s) - 1 :
                 RemoveAt(s, i)[j] = IF j < i THEN s[j] ELSE s[j + 1]
<1> DEFINE a == SubSeq(s, 1, i - 1)
           b == SubSeq(s, i + 1, Len(s))
<1>0. Len(s) \in Nat /\ \A j \in 1 .. Len(s) : s[j] \in S
  OBVIOUS
<1>1. /\ a \in Seq(S) /\ Len(a) = i - 1
      /\ \A j \in 1 .. i - 1 : a[j] = s[j]
  <2>1. \A j \in 1 .. i - 1 : s[j] \in S
    BY <1>0
  <2>2. /\ a \in Seq(S)
        /\ Len(a) = IF 1 <= i - 1 THEN (i - 1) - 1 + 1 ELSE 0
        /\ \A j \in 1 .. (i - 1) - 1 + 1 : a[j] = s[1 + j - 1]
    BY <1>0, <2>1, SubSeqProperties
  <2> HIDE DEF a
  <2> QED
    BY <1>0, <2>2
<1>2. /\ b \in Seq(S) /\ Len(b) = Len(s) - i
      /\ \A j \in 1 .. Len(s) - i : b[j] = s[i + j]
  <2>1. \A j \in i + 1 .. Len(s) : s[j] \in S
    BY <1>0
  <2>2. /\ b \in Seq(S)
        /\ Len(b) = IF i + 1 <= Len(s) THEN Len(s) - (i + 1) + 1 ELSE 0
        /\ \A j \in 1 .. Len(s) - (i + 1) + 1 : b[j] = s[(i + 1) + j - 1]
    BY <1>0, <2>1, SubSeqProperties
  <2> HIDE DEF b
  <2> QED
    BY <1>0, <2>2
<1>3. RemoveAt(s, i) = a \o b
  BY DEF RemoveAt
<1> HIDE DEF a, b
<1>4. /\ a \o b \in Seq(S)
      /\ Len(a \o b) = Len(a) + Len(b)
      /\ \A j \in 1 .. Len(a) + Len(b) :
            (a \o b)[j] = IF j <= Len(a) THEN a[j] ELSE b[j - Len(a)]
  BY <1>1, <1>2, ConcatProperties
<1>5. \A j \in 1 .. Len(s) - 1 : (a \o b)[j] = IF j < i THEN s[j] ELSE s[j + 1]
  <2> TAKE j \in 1 .. Len(s) - 1
  <2>1. (a \o b)[j] = IF j <= i - 1 THEN a[j] ELSE b[j - (i - 1)]
    BY <1>0, <1>1, <1>2, <1>4
  <2>2. CASE j < i
    BY <1>0, <1>1, <2>1, <2>2
  <2>3. CASE ~(j < i)
    <3>1. j - (i - 1) \in 1 .. Len(s) - i
      BY <1>0, <2>3
    <3>2. b[j - (i - 1)] = s[i + (j - (i - 1))]
      BY <1>2, <3>1
    <3>3. i + (j - (i - 1)) = j + 1
      BY <1>0
    <3> QED
      BY <1>0, <2>1, <2>3, <3>2, <3>3
  <2> QED
    BY <2>2, <2>3
<1> QED
  BY <1>0, <1>1, <1>2, <1>3, <1>4, <1>5

-----------------------------------------------------------------------------
(* The initial states *)

\* The four parts hold at first.
LEMMA InitIInv == Init => IInv
<1> SUFFICES ASSUME Init PROVE IInv
  OBVIOUS
<1>1. Len(script) \in Nat /\ Line = 1 .. Len(script)
  <2> DEFINE first == [name |-> "wait", args |-> "D", parallel |-> FALSE]
  <2>1. script = <<first>>
    BY DEF Init
  <2> HIDE DEF first
  <2> QED
    BY <2>1 DEF Line
<1>2. Types
  <2>1. NewCommand \in Commands
    BY DEF NewCommand, Commands
  <2>2. command \in [Line -> Commands]
    BY <2>1 DEF Init
  <2>3. scheduler \in Schedulers
    BY DEF Init, NewScheduler, Schedulers
  <2>4. /\ curLine \in 0 .. Len(script)
        /\ main \in [pc : {"idle", "stop", "element", "cancel", "exception"},
                    fish : Nat \ {0}]
    BY <1>1 DEF Init
  <2>5. /\ mode \in {"none", "disabled", "autonomous", "teleop", "test"}
        /\ overlapped \in BOOLEAN
    BY DEF Init
  <2> QED
    BY <1>1, <2>2, <2>3, <2>4, <2>5 DEF Types
<1>3. ListSound
  BY <1>1 DEF Init, ListSound
<1>4. TurnSound
  BY <1>1 DEF Init, TurnSound, InTurn, NewScheduler, Current
<1>5. StopSound
  BY <1>1 DEF Init, StopSound, Stopping, NewScheduler, NewCommand
<1>6. TimerSound
  BY DEF Init, TimerSound, OneEach
<1> QED
  BY <1>2, <1>3, <1>4, <1>5, <1>6 DEF IInv

-----------------------------------------------------------------------------
(* The steps *)

\* The step of each thread, by the name of its action.
LEMMA StepCases ==
    ASSUME [Next]_vars
    PROVE  \/ autonomousInit \/ teleopInit \/ disabledInit \/ testMode
           \/ AbandonedSets \/ StopTests \/ StopsElement \/ StopCancels \/ teleopPeriodic
           \/ UpdateBegins \/ Scan \/ AddNextLine \/ StartLast
           \/ (\E l \in Line : CommandThread(l))
           \/ UNCHANGED vars
BY DEF Next, Timers, MainThread, SchedulerThread

\* The end of one mode and the beginning of another, in one word.
LEMMA StopBeginsStep ==
    ASSUME teleopInit \/ disabledInit
    PROVE  /\ UNCHANGED <<plan, command, scheduler, abandoned>>
           /\ main.pc = "idle" /\ main' = [pc |-> "stop", fish |-> 1]
           /\ mode' \in {"disabled", "teleop"}
           /\ overlapped' = (overlapped \/ scheduler.pc # "idle")
BY DEF teleopInit, disabledInit, StopBegins

\* Test mode, the driver, and what was abandoned touch nothing the invariant
\* is about but the mode.
LEMMA QuietStep ==
    ASSUME testMode \/ AbandonedSets \/ teleopPeriodic
    PROVE  /\ UNCHANGED <<plan, command, scheduler, main, timers, overlapped>>
           /\ \/ mode' = mode
              \/ main.pc = "idle" /\ mode' = "test"
BY DEF testMode, AbandonedSets, teleopPeriodic, robot

\* A new period's scheduler: the script is any, and nothing has been made of it.
LEMMA autonomousInitStep ==
    ASSUME autonomousInit
    PROVE  /\ Len(script') \in Nat /\ Line' = 1 .. Len(script')
           /\ curLine' = 0 /\ curCommands' = <<>>
           /\ command' = [l \in Line' |-> NewCommand]
           /\ scheduler' = [NewScheduler EXCEPT !.timer = TRUE]
           /\ main.pc = "idle" /\ main' = main /\ mode' = "autonomous" /\ overlapped' = FALSE
<1> DEFINE T == [name : STRING, args : STRING, parallel : BOOLEAN]
<1>1. script' \in Seq(T)
  BY ScriptAssumption DEF autonomousInit
<1> HIDE DEF T
<1>2. Len(script') \in Nat /\ Line' = 1 .. Len(script')
  BY <1>1 DEF Line
<1> QED
  BY <1>2 DEF autonomousInit, Line

\* The script stays as it is otherwise, and what is read from it with it.
LEMMA ScriptKept ==
    ASSUME [Next]_vars, ~autonomousInit
    PROVE  script' = script /\ Line' = Line /\ \A l : isParallel(l)' = isParallel(l)
<1>1. script' = script
  BY StepCases, StopBeginsStep, QuietStep
  DEF StopTests, StopsElement, StopCancels, UpdateBegins, Scan, AddNextLine, StartLast, CommandThread,
      CommandBegins, CommandFinishes, CommandGoesOn, NavigateEnds, vars, plan
<1> QED
  BY <1>1 DEF Line, isParallel, Known

\* A command's own steps: only its place and isFinished change, and isFinished
\* never from TRUE to FALSE.
LEMMA CommandStep ==
    ASSUME Types, NEW l \in Line, CommandThread(l)
    PROVE  /\ UNCHANGED <<plan, scheduler, robot, timers, overlapped>>
           /\ command' \in [Line -> Commands]
           /\ \A k \in Line : /\ command'[k].timer = command[k].timer
                              /\ command[k].isFinished => command'[k].isFinished
<1>1. CASE CommandBegins(l)
  BY <1>1 DEF CommandBegins, Types, Commands
<1>2. CASE CommandFinishes(l)
  BY <1>2 DEF CommandFinishes, Types, Commands
<1>3. CASE CommandGoesOn(l)
  BY <1>3 DEF CommandGoesOn, Types, Commands
<1>4. CASE NavigateEnds(l)
  BY <1>4 DEF NavigateEnds, Types, Commands
<1> QED
  BY <1>1, <1>2, <1>3, <1>4 DEF CommandThread

\* A scheduler whose fields are changed is a scheduler.
LEMMA SchedulerRecords ==
    ASSUME NEW s \in Schedulers
    PROVE  /\ \A b \in BOOLEAN : [s EXCEPT !.timer = b] \in Schedulers
           /\ \A b \in BOOLEAN : [s EXCEPT !.threadFree = b] \in Schedulers
           /\ [s EXCEPT !.fish = s.fish + 1] \in Schedulers
           /\ \A c \in {"idle", "scan", "start"} : [s EXCEPT !.pc = c] \in Schedulers
           /\ NewScheduler \in Schedulers
<1>1. \A b \in BOOLEAN : [s EXCEPT !.timer = b] \in Schedulers
  BY DEF Schedulers
<1>2. \A b \in BOOLEAN : [s EXCEPT !.threadFree = b] \in Schedulers
  BY DEF Schedulers
<1>3. [s EXCEPT !.fish = s.fish + 1] \in Schedulers
  BY DEF Schedulers
<1>4. \A c \in {"idle", "scan", "start"} : [s EXCEPT !.pc = c] \in Schedulers
  BY DEF Schedulers
<1>5. NewScheduler \in Schedulers
  BY DEF NewScheduler, Schedulers
<1> QED
  BY <1>1, <1>2, <1>3, <1>4, <1>5

\* The end of an update sets no timer.
LEMMA UpdateEndsStep ==
    ASSUME Types, NEW current, UpdateEnds(current)
    PROVE  /\ scheduler' \in Schedulers /\ scheduler'.pc = "idle" /\ scheduler'.fish = 1
           /\ scheduler'.timer => scheduler.timer
<1> DEFINE b == scheduler.timer /\ (current # <<>> \/ hasNextLine)
<1>1. b \in BOOLEAN
  BY Zenon
<1>2. scheduler' = [NewScheduler EXCEPT !.timer = b]
  BY Zenon DEF UpdateEnds
<1>3. b => scheduler.timer
  OBVIOUS
<1> HIDE DEF b
<1>4. NewScheduler \in Schedulers /\ scheduler' \in Schedulers
  BY <1>1, <1>2, SchedulerRecords DEF Types
<1>5. scheduler'.timer = b /\ scheduler'.pc = "idle" /\ scheduler'.fish = 1
  BY <1>1, <1>2 DEF NewScheduler
<1> QED
  BY <1>3, <1>4, <1>5

\* The scan: the vector, with and without the command looked at.
LEMMA ScanStep ==
    ASSUME Types, ListSound, Scan
    PROVE  LET l == curCommands[scheduler.fish] IN
           /\ UNCHANGED <<script, curLine, robot, timers, overlapped>>
           /\ scheduler.pc = "scan" /\ scheduler.fish \in DOMAIN curCommands
           /\ l \in Line
           /\ command' \in [Line -> Commands]
           /\ \A k \in Line : /\ command'[k].isFinished = command[k].isFinished
                              /\ k # l => command'[k] = command[k]
           /\ \/ /\ command[l].isFinished /\ ~command'[l].timer
                 /\ UNCHANGED scheduler
                 /\ curCommands' \in Seq(1 .. curLine)
                 /\ Len(curCommands') = Len(curCommands) - 1
                 /\ \A j \in 1 .. Len(curCommands) - 1 :
                       curCommands'[j] = IF j < scheduler.fish THEN curCommands[j]
                                                               ELSE curCommands[j + 1]
              \/ /\ UNCHANGED <<command, curCommands>>
                 /\ scheduler' = [scheduler EXCEPT !.fish = @ + 1,
                                                   !.threadFree = @ /\ isParallel(l)]
<1> DEFINE l == curCommands[scheduler.fish]
<1>1. Len(script) \in Nat /\ Line = 1 .. Len(script) /\ curLine \in 0 .. Len(script)
  BY DEF Types
<1>2. scheduler.fish \in 1 .. Len(curCommands) /\ curCommands \in Seq(1 .. curLine)
  BY DEF Scan, Types, Schedulers, ListSound
<1>3. l \in 1 .. curLine /\ l \in Line
  BY <1>1, <1>2
<1>4. /\ RemoveAt(curCommands, scheduler.fish) \in Seq(1 .. curLine)
      /\ Len(RemoveAt(curCommands, scheduler.fish)) = Len(curCommands) - 1
      /\ \A j \in 1 .. Len(curCommands) - 1 :
            RemoveAt(curCommands, scheduler.fish)[j] =
               IF j < scheduler.fish THEN curCommands[j] ELSE curCommands[j + 1]
  BY <1>2, RemoveAtProperties
<1>5. UNCHANGED <<script, curLine, robot, timers, overlapped>> /\ scheduler.pc = "scan"
  BY DEF Scan
<1>6. DOMAIN curCommands = 1 .. Len(curCommands)
  BY <1>2
<1>7. CASE command[l].isFinished
  <2>1. /\ command' = [command EXCEPT ![l].timer = FALSE]
        /\ curCommands' = RemoveAt(curCommands, scheduler.fish)
        /\ UNCHANGED scheduler
    BY <1>7 DEF Scan
  <2> HIDE DEF l
  <2>2. /\ command' \in [Line -> Commands]
        /\ \A k \in Line : /\ command'[k].isFinished = command[k].isFinished
                           /\ k # l => command'[k] = command[k]
        /\ ~command'[l].timer
    <3>1. command \in [Line -> Commands]
      BY DEF Types
    <3>2. /\ command'[l].isFinished = command[l].isFinished /\ ~command'[l].timer
          /\ \A k \in Line : k # l => command'[k] = command[k]
      BY <1>3, <2>1, <3>1 DEF Commands
    <3>3. command' \in [Line -> Commands]
      BY <1>3, <2>1, <3>1 DEF Commands
    <3> QED
      BY <3>2, <3>3
  <2> QED
    BY <1>2, <1>3, <1>4, <1>5, <1>6, <1>7, <2>1, <2>2 DEF l
<1>8. CASE ~command[l].isFinished
  <2>1. /\ scheduler' = [scheduler EXCEPT !.fish = @ + 1, !.threadFree = @ /\ isParallel(l)]
        /\ UNCHANGED <<command, curCommands>>
    BY <1>8 DEF Scan
  <2>2. command' \in [Line -> Commands]
    BY <2>1 DEF Types
  <2> QED
    BY <1>2, <1>3, <1>5, <1>6, <2>1, <2>2
<1> QED
  BY <1>7, <1>8

-----------------------------------------------------------------------------
(* Each part of the invariant is kept *)

\* The types.
LEMMA TypesKept == ASSUME IInv, [Next]_vars PROVE Types'
<1> USE DEF IInv
<1>1. CASE autonomousInit
  <2>1. scheduler' \in Schedulers
    <3>2. NewScheduler \in Schedulers
      BY DEF NewScheduler, Schedulers
    <3>3. [NewScheduler EXCEPT !.timer = TRUE] \in Schedulers
      BY <3>2, SchedulerRecords
    <3> QED
      BY <1>1, <3>3, autonomousInitStep
  <2>2. command' \in [Line' -> Commands]
    <3>1. NewCommand \in Commands
      BY DEF NewCommand, Commands
    <3> QED
      BY <1>1, <3>1, autonomousInitStep
  <2>3. Len(script') \in Nat /\ Line' = 1 .. Len(script') /\ curLine' = 0
    BY <1>1, autonomousInitStep
  <2>4. curLine' \in 0 .. Len(script')
    BY <2>3
  <2>5. /\ mode' \in {"none", "disabled", "autonomous", "teleop", "test"}
        /\ main' = main /\ overlapped' \in BOOLEAN
    BY <1>1, autonomousInitStep
  <2> QED
    BY <2>1, <2>2, <2>3, <2>4, <2>5 DEF Types
<1> SUFFICES ASSUME ~autonomousInit PROVE Types'
  BY <1>1
<1>0. /\ script' = script /\ Line' = Line
      /\ Len(script) \in Nat /\ Line = 1 .. Len(script) /\ curLine \in 0 .. Len(script)
  BY ScriptKept DEF Types
<1>2. CASE teleopInit \/ disabledInit
  <2>1. /\ UNCHANGED <<script, curLine, command, scheduler>>
        /\ mode' \in {"disabled", "teleop"}
        /\ main' = [pc |-> "stop", fish |-> 1]
        /\ overlapped' \in BOOLEAN
    BY <1>2, StopBeginsStep DEF plan, Types
  <2>2. main' \in [pc : {"idle", "stop", "element", "cancel", "exception"}, fish : Nat \ {0}]
    BY <2>1
  <2> QED
    BY <1>0, <2>1, <2>2 DEF Types
<1>4. CASE StopTests
  BY <1>0, <1>4 DEF StopTests, Types, plan
<1>5. CASE StopsElement
  <2>1. command' \in [Line -> Commands]
    <3> DEFINE l == curCommands[main.fish]
    <3>1. \/ command' = command
          \/ l \in Line /\ command' = [command EXCEPT ![l].timer = FALSE]
      BY <1>0, <1>5 DEF StopsElement, Types, ListSound
    <3> HIDE DEF l
    <3>2. CASE l \in Line /\ command' = [command EXCEPT ![l].timer = FALSE]
      BY <1>0, <3>2 DEF Types, Commands
    <3> QED
      BY <1>0, <3>1, <3>2 DEF Types
  <2>2. main' \in [pc : {"idle", "stop", "element", "cancel", "exception"}, fish : Nat \ {0}]
    BY <1>5 DEF StopsElement, Types
  <2> QED
    BY <1>0, <1>5, <2>1, <2>2 DEF StopsElement, Types, plan
<1>6. CASE StopCancels
  <2>1. scheduler' \in Schedulers
    BY <1>6, SchedulerRecords DEF StopCancels, Types
  <2>2. main' \in [pc : {"idle", "stop", "element", "cancel", "exception"}, fish : Nat \ {0}]
    BY <1>6 DEF StopCancels
  <2> QED
    BY <1>0, <1>6, <2>1, <2>2 DEF StopCancels, Types, plan
<1>7. CASE testMode \/ AbandonedSets \/ teleopPeriodic
  BY <1>0, <1>7, QuietStep DEF Types, plan
<1>8. CASE UpdateBegins
  BY <1>0, <1>8 DEF UpdateBegins, Types, Schedulers, plan, robot
<1>9. CASE Scan
  <2> DEFINE p == scheduler.threadFree /\ isParallel(curCommands[scheduler.fish])
  <2>1. p \in BOOLEAN
    BY Zenon
  <2>2. \/ UNCHANGED scheduler
        \/ scheduler' = [scheduler EXCEPT !.fish = @ + 1, !.threadFree = p]
    BY <1>9, ScanStep
  <2> HIDE DEF p
  <2>3. scheduler' \in Schedulers
    <3>1. [scheduler EXCEPT !.fish = @ + 1, !.threadFree = p] =
             [[scheduler EXCEPT !.fish = @ + 1] EXCEPT !.threadFree = p]
      OBVIOUS
    <3>2. scheduler \in Schedulers
      BY DEF Types
    <3> DEFINE r == [scheduler EXCEPT !.fish = @ + 1]
    <3>3. r \in Schedulers
      BY <3>2, SchedulerRecords
    <3>4. scheduler' = scheduler \/ scheduler' = [r EXCEPT !.threadFree = p]
      BY <2>2, <3>1
    <3> HIDE DEF r
    <3>5. [r EXCEPT !.threadFree = p] \in Schedulers
      BY <2>1, <3>3, SchedulerRecords
    <3> QED
      BY <3>2, <3>4, <3>5
  <2>4. UNCHANGED <<script, curLine, robot, overlapped>> /\ command' \in [Line -> Commands]
    BY <1>9, ScanStep
  <2> QED
    BY <1>0, <2>3, <2>4 DEF Types, robot
<1>10. CASE AddNextLine
  <2>1. curLine' \in 0 .. Len(script)
    BY <1>0, <1>10 DEF AddNextLine, hasNextLine
  <2>2. scheduler' \in Schedulers
    <3>1. CASE UpdateEnds(curCommands)
      BY <3>1, UpdateEndsStep
    <3>2. CASE ~UpdateEnds(curCommands)
      <4>1. scheduler' = [NewScheduler EXCEPT !.timer = scheduler.timer, !.pc = "start"]
        BY <1>10, <3>2 DEF AddNextLine
      <4> QED
        <5>1. [NewScheduler EXCEPT !.timer = scheduler.timer, !.pc = "start"] =
                 [[NewScheduler EXCEPT !.timer = scheduler.timer] EXCEPT !.pc = "start"]
          OBVIOUS
        <5>2. scheduler.timer \in BOOLEAN /\ NewScheduler \in Schedulers
          BY SchedulerRecords DEF Types, Schedulers
        <5> QED
          BY <4>1, <5>1, <5>2, SchedulerRecords
    <3> QED
      BY <3>1, <3>2
  <2> QED
    BY <1>0, <1>10, <2>1, <2>2 DEF AddNextLine, Types, robot
<1>11. CASE StartLast
  <2> DEFINE l == Last(curCommands)
  <2>1. command' \in [Line -> Commands]
    <3>1. command' = [command EXCEPT ![l].timer = TRUE]
      BY <1>11 DEF StartLast
    <3> HIDE DEF l
    <3> QED
      BY <1>0, <3>1 DEF Types, Commands
  <2>2. scheduler' \in Schedulers
    BY <1>11, UpdateEndsStep DEF StartLast
  <2> QED
    BY <1>0, <1>11, <2>1, <2>2 DEF StartLast, Types, plan, robot
<1>12. ASSUME NEW l \in Line, CommandThread(l) PROVE Types'
  BY <1>0, <1>12, CommandStep DEF Types, plan, robot
<1>13. CASE UNCHANGED vars
  BY <1>0, <1>13 DEF vars, plan, robot, Types
<1> QED
  BY <1>2, <1>4, <1>5, <1>6, <1>7, <1>8, <1>9, <1>10, <1>11, <1>12, <1>13, StepCases

\* The vector of commands: it grows by the line after all those begun.
LEMMA ListKept == ASSUME IInv, [Next]_vars PROVE ListSound'
<1> USE DEF IInv
<1>0. Len(script) \in Nat /\ curLine \in 0 .. Len(script)
  BY DEF Types
<1>1. CASE UNCHANGED <<curLine, curCommands>>
  BY <1>1 DEF ListSound
<1>2. CASE autonomousInit
  BY <1>2, autonomousInitStep DEF ListSound
<1>3. CASE Scan /\ curCommands' # curCommands
  <2>0. curCommands \in Seq(1 .. curLine)
    BY DEF ListSound
  <2>1. /\ scheduler.fish \in 1 .. Len(curCommands) /\ curLine' = curLine
        /\ curCommands' \in Seq(1 .. curLine)
        /\ Len(curCommands') = Len(curCommands) - 1
        /\ \A j \in 1 .. Len(curCommands) - 1 :
              curCommands'[j] = IF j < scheduler.fish THEN curCommands[j]
                                                      ELSE curCommands[j + 1]
    BY <1>3, <2>0, ScanStep
  <2>2. \A i, k \in 1 .. Len(curCommands) : i < k => curCommands[i] < curCommands[k]
    BY <2>0 DEF ListSound
  <2>3. \A i \in 1 .. Len(curCommands) : i <= curCommands[i] /\ curCommands[i] \in 1 .. curLine
    <3>1. \A i \in DOMAIN curCommands : i <= curCommands[i]
      BY DEF ListSound
    <3>2. DOMAIN curCommands = 1 .. Len(curCommands)
      BY <2>0
    <3>3. \A i \in 1 .. Len(curCommands) : curCommands[i] \in 1 .. curLine
      BY <2>0, ElementOfSeq
    <3> QED
      BY <3>1, <3>2, <3>3
  <2>4. DOMAIN curCommands' = 1 .. Len(curCommands) - 1
    BY <2>1
  <2>5. ASSUME NEW i \in 1 .. Len(curCommands) - 1, NEW k \in 1 .. Len(curCommands) - 1, i < k
        PROVE  curCommands'[i] < curCommands'[k]
    <3>1. i \in 1 .. Len(curCommands) /\ k \in 1 .. Len(curCommands)
          /\ i + 1 \in 1 .. Len(curCommands) /\ k + 1 \in 1 .. Len(curCommands)
      BY <2>0
    <3> QED
      BY <2>1, <2>2, <2>5, <3>1
  <2>6. ASSUME NEW i \in 1 .. Len(curCommands) - 1
        PROVE  i <= curCommands'[i]
    <3>1. i \in 1 .. Len(curCommands) /\ i + 1 \in 1 .. Len(curCommands)
      BY <2>0
    <3>2. i <= curCommands[i] /\ i + 1 <= curCommands[i + 1]
          /\ curCommands[i] \in Int /\ curCommands[i + 1] \in Int
      BY <1>0, <2>3, <3>1
    <3> QED
      BY <2>1, <3>2
  <2> QED
    BY <2>1, <2>4, <2>5, <2>6 DEF ListSound
<1>4. CASE AddNextLine /\ curCommands' # curCommands
  <2> DEFINE n == Len(curCommands)
  <2>0. curCommands \in Seq(1 .. curLine) /\ n \in Nat
    BY DEF ListSound
  <2>1. curLine' = curLine + 1 /\ curCommands' = Append(curCommands, curLine + 1)
    BY <1>4 DEF AddNextLine
  <2>2. curCommands' \in Seq(1 .. curLine')
    <3>1. curCommands \in Seq(1 .. curLine + 1)
      BY <1>0, <2>0
    <3> QED
      BY <1>0, <2>1, <3>1
  <2>3. /\ DOMAIN curCommands' = 1 .. n + 1
        /\ \A i \in 1 .. n : curCommands'[i] = curCommands[i]
        /\ curCommands'[n + 1] = curLine + 1
    BY <1>0, <2>0, <2>1
  <2>4. \A i, k \in 1 .. n : i < k => curCommands[i] < curCommands[k]
    BY <2>0 DEF ListSound
  <2>5. \A i \in 1 .. n : i <= curCommands[i] /\ curCommands[i] \in 1 .. curLine
    <3>1. \A i \in DOMAIN curCommands : i <= curCommands[i]
      BY DEF ListSound
    <3>2. DOMAIN curCommands = 1 .. Len(curCommands)
      BY <2>0
    <3>3. \A i \in 1 .. Len(curCommands) : curCommands[i] \in 1 .. curLine
      BY <2>0, ElementOfSeq
    <3> QED
      BY <3>1, <3>2, <3>3
  <2>6. n <= curLine
    BY <1>0, <2>0, <2>5
  <2> HIDE DEF n
  <2>7. ASSUME NEW i \in 1 .. n + 1, NEW k \in 1 .. n + 1, i < k
        PROVE  curCommands'[i] < curCommands'[k]
    <3>1. i \in 1 .. n
      BY <2>0, <2>7
    <3>2. CASE k \in 1 .. n
      BY <2>3, <2>4, <2>7, <3>1, <3>2
    <3>3. CASE k = n + 1
      BY <1>0, <2>3, <2>5, <3>1, <3>3
    <3> QED
      BY <2>0, <3>2, <3>3
  <2>8. ASSUME NEW i \in 1 .. n + 1
        PROVE  i <= curCommands'[i]
    <3>1. CASE i \in 1 .. n
      BY <2>3, <2>5, <3>1
    <3>2. CASE i = n + 1
      BY <1>0, <2>0, <2>3, <2>6, <3>2
    <3> QED
      BY <2>0, <3>1, <3>2
  <2> QED
    BY <2>2, <2>3, <2>7, <2>8 DEF ListSound
<1>5. \/ UNCHANGED <<curLine, curCommands>> \/ autonomousInit
      \/ Scan /\ curCommands' # curCommands
      \/ AddNextLine /\ curCommands' # curCommands
  <2>1. Scan => curLine' = curLine
    BY DEF Scan
  <2>2. AddNextLine => curLine' = curLine \/ curCommands' # curCommands
    <3>1. ListSound
      OBVIOUS
    <3>2. Append(curCommands, curLine + 1) # curCommands
      BY <1>0, <3>1 DEF ListSound
    <3> QED
      BY <3>2 DEF AddNextLine
  <2>3. AddNextLine => curCommands' = curCommands \/ curCommands' # curCommands
    OBVIOUS
  <2>4. (\E l \in Line : CommandThread(l)) => UNCHANGED <<curLine, curCommands>>
    BY CommandStep DEF plan
  <2> QED
    BY <2>1, <2>2, <2>3, <2>4, StepCases, StopBeginsStep, QuietStep
    DEF StopTests, StopsElement, StopCancels, UpdateBegins, StartLast, vars, plan
<1> QED
  BY <1>1, <1>2, <1>3, <1>4, <1>5

\* What is current, read through the domain of the vector.
LEMMA CurrentRange ==
    ASSUME ListSound, NEW l
    PROVE  /\ DOMAIN curCommands = 1 .. Len(curCommands) /\ Len(curCommands) \in Nat
           /\ Current(l) <=> \E i \in 1 .. Len(curCommands) : curCommands[i] = l
           /\ Current(l) => l \in 1 .. curLine
<1>1. curCommands \in Seq(1 .. curLine)
  BY DEF ListSound
<1>2. DOMAIN curCommands = 1 .. Len(curCommands) /\ Len(curCommands) \in Nat
  BY <1>1, LenProperties
<1> QED
  BY <1>1, <1>2, ElementOfSeq DEF Current

\* What a scan does to the current commands: only the one looked at may go,
\* and the ones passed by stay where they are.
LEMMA ScanCurrent ==
    ASSUME Types, ListSound, Scan
    PROVE  /\ \A l : l # curCommands[scheduler.fish] => (Current(l) => Current(l)')
           /\ \A i \in 1 .. Len(curCommands) :
                 i < scheduler.fish => curCommands'[i] = curCommands[i]
           /\ Len(curCommands') \in {Len(curCommands), Len(curCommands) - 1}
<1>1. DOMAIN curCommands = 1 .. Len(curCommands) /\ Len(curCommands) \in Nat
  BY CurrentRange
<1>2. scheduler.fish \in 1 .. Len(curCommands)
  BY <1>1, ScanStep
<1>3. CASE UNCHANGED curCommands
  BY <1>3 DEF Current
<1>4. CASE ~UNCHANGED curCommands
  <2>1. /\ curCommands' \in Seq(1 .. curLine)
        /\ Len(curCommands') = Len(curCommands) - 1
        /\ \A j \in 1 .. Len(curCommands) - 1 :
              curCommands'[j] = IF j < scheduler.fish THEN curCommands[j]
                                                      ELSE curCommands[j + 1]
    BY <1>4, ScanStep
  <2>2. DOMAIN curCommands' = 1 .. Len(curCommands) - 1
    BY <2>1, LenProperties
  <2>3. ASSUME NEW i \in 1 .. Len(curCommands), i # scheduler.fish
        PROVE  \E j \in 1 .. Len(curCommands) - 1 : curCommands'[j] = curCommands[i]
    <3>1. CASE i < scheduler.fish
      <4>1. i \in 1 .. Len(curCommands) - 1
        BY <1>1, <1>2, <3>1
      <4> QED
        BY <2>1, <3>1, <4>1
    <3>2. CASE i > scheduler.fish
      <4>1. i - 1 \in 1 .. Len(curCommands) - 1 /\ ~(i - 1 < scheduler.fish) /\ (i - 1) + 1 = i
        BY <1>1, <1>2, <3>2
      <4> QED
        BY <2>1, <4>1
    <3> QED
      BY <1>1, <1>2, <2>3, <3>1, <3>2
  <2>4. \A l : l # curCommands[scheduler.fish] => (Current(l) => Current(l)')
    BY <1>1, <2>2, <2>3 DEF Current
  <2>5. \A i \in 1 .. Len(curCommands) :
           i < scheduler.fish => curCommands'[i] = curCommands[i]
    BY <1>1, <1>2, <2>1
  <2> QED
    BY <2>1, <2>4, <2>5
<1> QED
  BY <1>3, <1>4

\* The lines begun.
LEMMA TurnKept == ASSUME IInv, [Next]_vars PROVE TurnSound'
<1> USE DEF IInv
<1>2. CASE autonomousInit
  <2>1. curLine' = 0 /\ curCommands' = <<>> /\ scheduler'.pc = "idle" /\ scheduler'.fish = 1
    BY <1>2, autonomousInitStep DEF NewScheduler
  <2> QED
    BY <2>1 DEF TurnSound, InTurn, Current
<1> SUFFICES ASSUME ~autonomousInit PROVE TurnSound'
  BY <1>2
<1>0. /\ script' = script
      /\ Len(script) \in Nat /\ Line = 1 .. Len(script) /\ curLine \in 0 .. Len(script)
      /\ DOMAIN curCommands = 1 .. Len(curCommands) /\ Len(curCommands) \in Nat
      /\ scheduler.fish \in Nat \ {0}
  BY ScriptKept, CurrentRange DEF Types, Schedulers
<1>1. ASSUME UNCHANGED <<curLine, curCommands>>,
             \A k \in Line : command[k].isFinished => command'[k].isFinished,
             \/ scheduler' = scheduler
             \/ scheduler'.fish = 1
             \/ scheduler'.pc = scheduler.pc /\ scheduler'.fish = scheduler.fish
                   /\ scheduler'.threadFree = scheduler.threadFree
      PROVE  TurnSound'
  <2>1. \A l \in 1 .. curLine' : command'[l].isFinished \/ Current(l)'
    BY <1>0, <1>1 DEF TurnSound, Current
  <2>2. scheduler'.pc # "scan" => scheduler'.fish = 1
    BY <1>1 DEF TurnSound
  <2>3. scheduler'.pc = "scan" /\ scheduler'.threadFree =>
           \A i \in DOMAIN curCommands' : i < scheduler'.fish => isParallel(curCommands'[i])
    <3>1. CASE scheduler'.fish = 1
      BY <1>0, <1>1, <3>1
    <3>2. CASE scheduler'.fish # 1
      <4>1. /\ scheduler'.pc = scheduler.pc /\ scheduler'.fish = scheduler.fish
            /\ scheduler'.threadFree = scheduler.threadFree
        BY <1>1, <3>2
      <4> QED
        BY <1>1, <4>1 DEF TurnSound
    <3> QED
      BY <3>1, <3>2
  <2>4. InTurn'
    <3>1. \A l \in 1 .. curLine : \A k \in 1 .. l - 1 : isParallel(k) \/ command'[k].isFinished
      <4>1. \A l \in 1 .. curLine : \A k \in 1 .. l - 1 : k \in Line
        BY <1>0
      <4> QED
        BY <1>0, <1>1, <4>1 DEF TurnSound, InTurn
    <3> QED
      BY <1>0, <1>1, <3>1 DEF InTurn, isParallel, Known
  <2> QED
    BY <1>0, <2>1, <2>2, <2>3, <2>4 DEF TurnSound, isParallel, Known
<1>3. CASE Scan
  <2> DEFINE c == curCommands[scheduler.fish]
  <2>1. /\ curLine' = curLine /\ scheduler.pc = "scan"
        /\ scheduler.fish \in 1 .. Len(curCommands)
        /\ \A k \in Line : command'[k].isFinished = command[k].isFinished
    BY <1>0, <1>3, ScanStep
  <2>2. \/ command[c].isFinished /\ scheduler' = scheduler
        \/ /\ UNCHANGED curCommands
           /\ scheduler' = [scheduler EXCEPT !.fish = @ + 1, !.threadFree = @ /\ isParallel(c)]
    BY <1>3, ScanStep
  <2>3. \A l : l # c => (Current(l) => Current(l)')
    BY <1>3, ScanCurrent
  <2>4. scheduler'.pc = "scan"
    BY <2>1, <2>2 DEF Types, Schedulers
  <2>5. InTurn'
    <3>1. \A l \in 1 .. curLine : \A k \in 1 .. l - 1 : isParallel(k) \/ command'[k].isFinished
      <4>1. \A l \in 1 .. curLine : \A k \in 1 .. l - 1 : k \in Line
        BY <1>0
      <4> QED
        BY <1>0, <2>1, <4>1 DEF TurnSound, InTurn
    <3> QED
      BY <1>0, <2>1, <3>1 DEF InTurn, isParallel, Known
  <2>6. \A l \in 1 .. curLine' : command'[l].isFinished \/ Current(l)'
    <3>1. CASE UNCHANGED curCommands
      BY <1>0, <2>1, <3>1 DEF TurnSound, Current
    <3>2. CASE ~UNCHANGED curCommands
      BY <1>0, <2>1, <2>2, <2>3, <3>2 DEF TurnSound
    <3> QED
      BY <3>1, <3>2
  <2>7. ASSUME scheduler'.threadFree, NEW i \in DOMAIN curCommands', i < scheduler'.fish
        PROVE  isParallel(curCommands'[i])
    <3>1. CASE scheduler' = scheduler
      <4>1. i \in 1 .. Len(curCommands)
        <5>1. DOMAIN curCommands' = 1 .. Len(curCommands')
          BY ListKept, LenProperties DEF ListSound
        <5>2. Len(curCommands') = Len(curCommands) \/ Len(curCommands') = Len(curCommands) - 1
          BY <1>3, ScanCurrent
        <5>3. i \in 1 .. Len(curCommands')
          BY <5>1
        <5>4. \A n \in Nat : \A k \in 1 .. n - 1 : k \in 1 .. n
          OBVIOUS
        <5> QED
          BY <1>0, <5>2, <5>3, <5>4
      <4>2. curCommands'[i] = curCommands[i]
        BY <1>3, <2>7, <3>1, <4>1, ScanCurrent
      <4> QED
        BY <1>0, <2>1, <2>7, <3>1, <4>1, <4>2 DEF TurnSound
    <3>2. CASE scheduler' # scheduler
      <4>1. /\ curCommands' = curCommands
            /\ scheduler' = [scheduler EXCEPT !.fish = @ + 1, !.threadFree = @ /\ isParallel(c)]
        BY <2>2, <3>2
      <4>2. scheduler'.fish = scheduler.fish + 1
        BY <4>1 DEF Types, Schedulers
      <4>3. scheduler'.threadFree = (scheduler.threadFree /\ isParallel(c))
        BY <4>1 DEF Types, Schedulers
      <4>4. scheduler.threadFree /\ isParallel(c)
        BY Zenon, <2>7, <4>3
      <4>5. i \in 1 .. Len(curCommands) /\ (i < scheduler.fish \/ i = scheduler.fish)
        BY <1>0, <2>7, <4>1, <4>2
      <4>6. CASE i < scheduler.fish
        BY <1>0, <2>1, <4>1, <4>4, <4>5, <4>6 DEF TurnSound
      <4>7. CASE i = scheduler.fish
        BY <1>0, <4>1, <4>4, <4>7
      <4> QED
        BY <4>5, <4>6, <4>7
    <3> QED
      BY <3>1, <3>2
  <2> QED
    BY <1>0, <2>4, <2>5, <2>6, <2>7 DEF TurnSound, isParallel, Known
<1>4. CASE AddNextLine /\ curLine' # curLine
  <2>1. /\ curLine' = curLine + 1 /\ curCommands' = Append(curCommands, curLine + 1)
        /\ command' = command
        /\ scheduler.pc = "scan" /\ scheduler.threadFree
        /\ scheduler.fish > Len(curCommands)
        /\ scheduler'.pc = "start" /\ scheduler'.fish = 1
    BY <1>4 DEF AddNextLine, NewScheduler
  <2>2. /\ DOMAIN curCommands' = 1 .. Len(curCommands) + 1
        /\ \A i \in 1 .. Len(curCommands) : curCommands'[i] = curCommands[i]
        /\ curCommands'[Len(curCommands) + 1] = curLine + 1
    BY <1>0, <2>1 DEF ListSound
  <2>3. \A l \in 1 .. curLine' : command'[l].isFinished \/ Current(l)'
    <3>1. \A l \in 1 .. curLine : command[l].isFinished \/ Current(l)
      BY DEF TurnSound
    <3>2. \A l : Current(l) => Current(l)'
      BY <1>0, <2>2 DEF Current
    <3>3. \A l : l = curLine + 1 => Current(l)'
      BY <1>0, <2>2 DEF Current
    <3> QED
      BY <1>0, <2>1, <3>1, <3>2, <3>3
  <2>4. InTurn'
    <3>1. \A k \in 1 .. curLine : isParallel(k) \/ command[k].isFinished
      <4>1. \A i \in 1 .. Len(curCommands) : isParallel(curCommands[i])
        BY <1>0, <2>1 DEF TurnSound
      <4> QED
        BY <1>0, <4>1 DEF TurnSound, Current
    <3>2. \A l \in 1 .. curLine : \A k \in 1 .. l - 1 : isParallel(k) \/ command[k].isFinished
      BY DEF TurnSound, InTurn
    <3>3. \A l \in 1 .. curLine + 1 :
             \A k \in 1 .. l - 1 : isParallel(k) \/ command[k].isFinished
      BY <1>0, <3>1, <3>2
    <3> QED
      BY <1>0, <2>1, <3>3 DEF InTurn, isParallel, Known
  <2> QED
    BY <2>1, <2>3, <2>4 DEF TurnSound
<1>5. ASSUME UpdateBegins \/ StartLast \/ (AddNextLine /\ curLine' = curLine)
      PROVE  TurnSound'
  <2>1. UNCHANGED <<curLine, curCommands>>
    BY <1>0, <1>5 DEF UpdateBegins, StartLast, AddNextLine, plan
  <2>2. \A k \in Line : command[k].isFinished => command'[k].isFinished
    <3>1. CASE StartLast
      BY <3>1 DEF StartLast, Types, Commands
    <3> QED
      BY <1>5, <3>1 DEF UpdateBegins, AddNextLine
  <2>3. scheduler'.fish = 1
    <3>1. CASE UpdateBegins
      BY <3>1 DEF UpdateBegins, TurnSound, Types, Schedulers
    <3>2. CASE StartLast
      BY <3>2, UpdateEndsStep DEF StartLast
    <3>3. CASE AddNextLine /\ curLine' = curLine
      <4>1. UpdateEnds(curCommands)
        BY <1>0, <3>3 DEF AddNextLine
      <4> QED
        BY <4>1, UpdateEndsStep
    <3> QED
      BY <1>5, <3>1, <3>2, <3>3
  <2> QED
    BY <1>1, <2>1, <2>2, <2>3
<1>6. ASSUME \/ teleopInit \/ disabledInit \/ StopTests
             \/ testMode \/ AbandonedSets \/ teleopPeriodic \/ UNCHANGED vars
      PROVE  TurnSound'
  <2>1. UNCHANGED <<plan, command, scheduler>>
    BY <1>6, StopBeginsStep, QuietStep DEF StopTests, vars, plan
  <2> QED
    BY <1>1, <2>1 DEF plan
<1>7. CASE StopsElement
  <2>1. \A k \in Line : command[k].isFinished => command'[k].isFinished
    BY <1>7 DEF StopsElement, Types, Commands
  <2> QED
    BY <1>1, <1>7, <2>1 DEF StopsElement, plan
<1>8. CASE StopCancels
  <2>1. /\ scheduler'.pc = scheduler.pc /\ scheduler'.fish = scheduler.fish
        /\ scheduler'.threadFree = scheduler.threadFree
    BY <1>8 DEF StopCancels, Types, Schedulers
  <2> QED
    BY <1>1, <1>8, <2>1 DEF StopCancels, plan
<1>9. ASSUME NEW l \in Line, CommandThread(l) PROVE TurnSound'
  BY <1>1, <1>9, CommandStep DEF plan
<1> QED
  BY <1>3, <1>4, <1>5, <1>6, <1>7, <1>8, <1>9, StepCases

\* A stop: the steps of the scheduler, and then those of the main thread.
LEMMA StopKept == ASSUME IInv, [Next]_vars PROVE StopSound'
<1> USE DEF IInv
<1>7. CASE autonomousInit
  <2>1. \A l \in Line' : ~command'[l].timer
    BY <1>7, autonomousInitStep DEF NewCommand
  <2>2. /\ ~overlapped' /\ main'.pc = "idle" /\ mode' = "autonomous"
        /\ scheduler'.pc = "idle"
    BY <1>7, autonomousInitStep DEF NewScheduler
  <2> QED
    BY <2>1, <2>2 DEF StopSound, Stopping, Current
<1> SUFFICES ASSUME ~autonomousInit PROVE StopSound'
  BY <1>7
<1>0. /\ Line' = Line
      /\ Len(script) \in Nat /\ Line = 1 .. Len(script) /\ curLine \in 0 .. Len(script)
      /\ DOMAIN curCommands = 1 .. Len(curCommands) /\ Len(curCommands) \in Nat
      /\ \A i \in 1 .. Len(curCommands) : curCommands[i] \in Line
      /\ main.fish \in Nat \ {0}
  <2>1. \A i \in 1 .. Len(curCommands) : curCommands[i] \in 1 .. curLine
    BY ElementOfSeq DEF ListSound
  <2> QED
    BY <2>1, ScriptKept, CurrentRange DEF Types
<1>1. ASSUME UNCHANGED <<mode, main, overlapped>>, scheduler.pc # "idle",
             \A l \in Line : command'[l].timer => Current(l)',
             scheduler'.pc = "start" => curCommands' # <<>>
      PROVE  StopSound'
  BY <1>0, <1>1 DEF StopSound, Stopping
<1>2. CASE UpdateBegins
  <2>1. scheduler.timer
    BY <1>2 DEF UpdateBegins
  <2>2. /\ UNCHANGED <<curCommands, command, mode, main>>
        /\ overlapped' = (overlapped \/ Stopping)
        /\ scheduler'.pc = "scan"
    BY <1>2 DEF UpdateBegins, plan, robot, Types, Schedulers
  <2> QED
    BY <1>0, <2>1, <2>2 DEF StopSound, Stopping, Current
<1>3. CASE Scan
  <2>1. /\ UNCHANGED <<mode, main, overlapped>>
        /\ scheduler.pc = "scan"
    BY <1>3, ScanStep DEF robot
  <2>2. scheduler'.pc = "scan"
    <3>1. CASE scheduler' = scheduler
      BY <2>1, <3>1
    <3>2. CASE scheduler' # scheduler
      BY <1>3, <2>1, <3>2, ScanStep DEF Types, Schedulers
    <3> QED
      BY <3>1, <3>2
  <2> DEFINE c == curCommands[scheduler.fish]
  <2>3. ASSUME NEW l \in Line, command'[l].timer
        PROVE  Current(l)'
    <3>1. CASE l = c
      <4>1. command' = command /\ curCommands' = curCommands
        BY <1>3, <2>3, <3>1, ScanStep
      <4> QED
        BY <2>3, <4>1 DEF StopSound, Current
    <3>2. CASE l # c
      <4>1. command'[l] = command[l]
        BY <1>3, <3>2, ScanStep
      <4> QED
        BY <1>3, <2>3, <3>2, <4>1, ScanCurrent DEF StopSound
    <3> QED
      BY <3>1, <3>2
  <2> QED
    BY <1>1, <2>1, <2>2, <2>3
<1>4. CASE AddNextLine
  <2>1. /\ UNCHANGED <<command, mode, main, overlapped>>
        /\ scheduler.pc = "scan"
    BY <1>4 DEF AddNextLine, robot
  <2>2. CASE UNCHANGED curCommands
    <3>1. UpdateEnds(curCommands)
      <4>0. curCommands \in Seq(1 .. curLine)
        BY DEF ListSound
      <4>1. Append(curCommands, curLine + 1) # curCommands
        BY <4>0
      <4> QED
        BY <1>4, <2>2, <4>1 DEF AddNextLine
    <3>2. scheduler'.pc = "idle"
      BY <3>1, UpdateEndsStep
    <3>3. \A l \in Line : command'[l].timer => Current(l)'
      BY <2>1, <2>2 DEF StopSound, Current
    <3> QED
      BY <1>1, <2>1, <3>2, <3>3
  <2>3. CASE curCommands' = Append(curCommands, curLine + 1)
    <3>1. /\ DOMAIN curCommands' = 1 .. Len(curCommands) + 1
          /\ \A i \in 1 .. Len(curCommands) : curCommands'[i] = curCommands[i]
          /\ curCommands' # <<>>
      BY <1>0, <2>3 DEF ListSound
    <3>2. \A l \in Line : command'[l].timer => Current(l)'
      BY <1>0, <2>1, <3>1 DEF StopSound, Current
    <3> QED
      BY <1>1, <2>1, <3>1, <3>2
  <2> QED
    BY <1>4, <2>2, <2>3 DEF AddNextLine
<1>5. CASE StartLast
  <2> DEFINE c == Last(curCommands)
  <2>1. /\ UNCHANGED <<curCommands, mode, main, overlapped>>
        /\ scheduler.pc = "start"
        /\ command' = [command EXCEPT ![c].timer = TRUE]
    BY <1>5 DEF StartLast, plan, robot
  <2>2. scheduler'.pc = "idle"
    BY <1>5, UpdateEndsStep DEF StartLast
  <2>3. Current(c)
    <3>1. curCommands # <<>>
      BY <2>1 DEF StopSound
    <3>2. Len(curCommands) \in 1 .. Len(curCommands)
      BY <1>0, <3>1, EmptySeq DEF ListSound
    <3> QED
      BY <1>0, <3>2 DEF Current, Last
  <2> HIDE DEF c
  <2>4. \A l \in Line : command'[l].timer => command[l].timer \/ l = c
    BY <2>1 DEF Types, Commands
  <2>5. \A l \in Line : command'[l].timer => Current(l)'
    BY <2>1, <2>3, <2>4 DEF StopSound, Current
  <2> QED
    BY <1>1, <2>1, <2>2, <2>5
<1>6. ASSUME NEW l \in Line, CommandThread(l) PROVE StopSound'
  <2>1. /\ UNCHANGED <<curCommands, scheduler, mode, main, overlapped>>
        /\ \A k \in Line : command'[k].timer = command[k].timer
    BY <1>6, CommandStep DEF plan, robot
  <2> QED
    BY <1>0, <2>1 DEF StopSound, Stopping, Current
<1>8. CASE teleopInit \/ disabledInit
  <2>1. /\ UNCHANGED <<curCommands, command, scheduler>>
        /\ main' = [pc |-> "stop", fish |-> 1]
        /\ overlapped' = (overlapped \/ scheduler.pc # "idle")
    BY <1>8, StopBeginsStep DEF plan
  <2>2. /\ main'.pc = "stop" /\ main'.fish = 1
        /\ ~overlapped' => scheduler.pc = "idle"
    BY <2>1
  <2> QED
    BY <1>0, <2>1, <2>2 DEF StopSound, Stopping, Current
<1>9. CASE StopTests
  <2>1. /\ UNCHANGED <<curCommands, command, scheduler, mode, overlapped>>
        /\ main.pc = "stop" /\ main'.fish = main.fish
        /\ main'.pc = IF main.fish <= Len(curCommands) THEN "element" ELSE "cancel"
    BY <1>9 DEF StopTests, Types, plan
  <2> QED
    BY <1>0, <2>1 DEF StopSound, Stopping, Current
<1>10. CASE StopsElement
  <2>0. /\ UNCHANGED <<curCommands, scheduler, mode, overlapped>>
        /\ main.pc = "element"
    BY <1>10 DEF StopsElement, plan
  <2>1. CASE main.fish <= Len(curCommands)
    <3> DEFINE c == curCommands[main.fish]
    <3>1. /\ command' = [command EXCEPT ![c].timer = FALSE]
          /\ main' = [pc |-> "stop", fish |-> main.fish + 1]
      BY <1>10, <2>1 DEF StopsElement
    <3>2. c \in Line
      BY <1>0, <2>1
    <3> HIDE DEF c
    <3>3. /\ \A l \in Line : command'[l].timer => command[l].timer
          /\ ~command'[c].timer
          /\ main'.pc = "stop" /\ main'.fish = main.fish + 1
      BY <3>1, <3>2 DEF Types, Commands
    <3>4. ASSUME ~overlapped, NEW i \in DOMAIN curCommands, i < main.fish + 1
          PROVE  ~command'[curCommands[i]].timer
      <4>1. CASE i < main.fish
        BY <1>0, <2>0, <3>3, <3>4, <4>1 DEF StopSound, Stopping
      <4>2. CASE i = main.fish
        BY <3>3, <4>2 DEF c
      <4> QED
        BY <1>0, <3>4, <4>1, <4>2
    <3> QED
      BY <1>0, <2>0, <3>3, <3>4 DEF StopSound, Stopping, Current
  <2>2. CASE ~(main.fish <= Len(curCommands))
    <3>1. main'.pc = "exception" /\ command' = command
      BY <1>10, <2>2 DEF StopsElement, Types
    <3>2. overlapped
      BY <2>0, <2>2 DEF StopSound, Stopping
    <3> QED
      BY <1>0, <2>0, <3>1, <3>2 DEF StopSound, Stopping, Current
  <2> QED
    BY <2>1, <2>2
<1>11. CASE StopCancels
  <2>1. /\ UNCHANGED <<curCommands, command, mode, overlapped>>
        /\ main.pc = "cancel" /\ main'.pc = "idle"
        /\ scheduler' = [scheduler EXCEPT !.timer = FALSE]
    BY <1>11 DEF StopCancels, plan
  <2>2. ~scheduler'.timer /\ scheduler'.pc = scheduler.pc
    BY <2>1 DEF Types, Schedulers
  <2>3. ~overlapped => \A l \in Line : ~command[l].timer
    BY <1>0, <2>1 DEF StopSound, Stopping, Current
  <2> QED
    BY <1>0, <2>1, <2>2, <2>3 DEF StopSound, Stopping, Current
<1>12. CASE testMode \/ AbandonedSets \/ teleopPeriodic \/ UNCHANGED vars
  <2>1. /\ UNCHANGED <<curCommands, command, scheduler, main, overlapped>>
        /\ mode' = mode \/ (main.pc = "idle" /\ mode' = "test")
    BY <1>12, QuietStep DEF vars, plan, robot
  <2> QED
    BY <1>0, <2>1 DEF StopSound, Stopping, Current
<1> QED
  BY <1>2, <1>3, <1>4, <1>5, <1>6, <1>8, <1>9, <1>10, <1>11, <1>12, StepCases

\* The timers of the subsystems: what is kept, and what a step may lose.
LEMMA TimersKept == ASSUME IInv, [Next]_vars PROVE TimerSound' /\ LosesOne
<1> USE DEF IInv
<1>0. \A r \in Runnables : timer[r].set \in BOOLEAN /\ timer[r].lost \in BOOLEAN
  BY DEF TimerSound
<1>1. ASSUME UNCHANGED timer,
             \/ UNCHANGED <<mode, main>>
             \/ main.pc = "idle" /\ main' = main /\ mode' = "test"
      PROVE  TimerSound' /\ LosesOne
  BY <1>1 DEF TimerSound, OneEach, LosesOne
<1>2. /\ Stopped \in [Runnables -> [set : BOOLEAN, lost : BOOLEAN]]
      /\ \A r \in Runnables : ~Stopped[r].set /\ Stopped[r].lost = timer[r].lost
  BY DEF Stopped, TimerSound
<1>3. /\ Started \in [Runnables -> [set : BOOLEAN, lost : BOOLEAN]]
      /\ \A r \in Runnables :
            /\ Started[r].set
            /\ ~timer[r].set /\ ~timer[r].lost => ~Started[r].lost
  <2>1. \A r \in Runnables : (timer[r].lost \/ timer[r].set) \in BOOLEAN
    BY Zenon
  <2> QED
    BY <1>0, <2>1 DEF Started
<1>5. CASE autonomousInit
  <2>1. timer' = Started /\ mode' = "autonomous" /\ main' = main /\ main.pc = "idle"
        /\ mode # "autonomous"
    BY <1>5 DEF autonomousInit
  <2>2. mode = "disabled" => \A r \in Runnables : ~timer[r].set
    BY <1>0, <2>1 DEF TimerSound, OneEach
  <2> QED
    BY <1>3, <2>1, <2>2 DEF TimerSound, OneEach, LosesOne
<1>6. CASE teleopInit
  <2>1. timer' = Stopped /\ mode' = "teleop" /\ main'.pc = "stop"
    BY <1>6 DEF teleopInit, StopBegins
  <2> QED
    BY <1>2, <2>1 DEF TimerSound, OneEach, LosesOne
<1>7. CASE disabledInit
  <2>1. timer' = timer /\ mode' = "disabled" /\ main'.pc = "stop"
    BY <1>7 DEF disabledInit, StopBegins
  <2> QED
    BY <2>1 DEF TimerSound, OneEach, LosesOne
<1>8. CASE StopTests \/ StopsElement
  <2>1. /\ timer' = timer /\ mode' = mode
        /\ main.pc # "idle" /\ main'.pc # "idle"
    BY <1>8 DEF StopTests, StopsElement, Types, timers
  <2> QED
    BY <2>1 DEF TimerSound, OneEach, LosesOne
<1>9. CASE StopCancels
  <2>1. /\ timer' = IF mode = "teleop" THEN Started ELSE Stopped
        /\ mode' = mode /\ main'.pc = "idle" /\ main.pc = "cancel"
    BY <1>9 DEF StopCancels
  <2>2. /\ mode \in {"disabled", "teleop"}
        /\ mode = "teleop" => \A r \in Runnables : ~timer[r].set
    BY <2>1 DEF TimerSound
  <2>3. CASE mode = "teleop"
    BY <1>3, <2>1, <2>2, <2>3 DEF TimerSound, OneEach, LosesOne
  <2>4. CASE mode = "disabled"
    BY <1>2, <2>1, <2>4 DEF TimerSound, OneEach, LosesOne
  <2> QED
    BY <2>2, <2>3, <2>4
<1>10. ASSUME NEW l \in Line, CommandThread(l) PROVE UNCHANGED <<mode, main, timer>>
  BY <1>10, CommandStep DEF robot, timers
<1>11. UpdateBegins \/ Scan \/ AddNextLine \/ StartLast => UNCHANGED <<mode, main, timer>>
  BY DEF UpdateBegins, Scan, AddNextLine, StartLast, robot, timers
<1>12. CASE testMode \/ AbandonedSets \/ teleopPeriodic
  BY <1>1, <1>12, QuietStep DEF timers
<1>13. CASE UNCHANGED vars
  BY <1>1, <1>13 DEF vars, robot, timers
<1> QED
  BY <1>1, <1>5, <1>6, <1>7, <1>8, <1>9, <1>10, <1>11, <1>12, <1>13, StepCases

-----------------------------------------------------------------------------
(* The theorems *)

\* The invariant holds in every behaviour.
LEMMA Invariance == Spec => []IInv
<1>1. IInv /\ [Next]_vars => IInv'
  BY TypesKept, ListKept, TurnKept, StopKept, TimersKept DEF IInv
<1> QED
  BY <1>1, InitIInv, PTL DEF Spec

\* The vector holds lines begun, in the order of the script and each once, and
\* never more of them than there are lines, while the scheduler removes and
\* adds commands.
THEOREM TypeCorrect == Spec => []TypeOK
<1>1. IInv => TypeOK
  <2> SUFFICES ASSUME IInv PROVE TypeOK
    OBVIOUS
  <2>1. Len(script) \in Nat /\ curLine \in 0 .. Len(script)
    BY DEF IInv, Types
  <2>2. DOMAIN curCommands = 1 .. Len(curCommands) /\ Len(curCommands) \in Nat
    BY CurrentRange DEF IInv
  <2>3. Len(curCommands) <= curLine
    <3>1. CASE Len(curCommands) = 0
      BY <2>1, <3>1
    <3>2. CASE Len(curCommands) # 0
      <4>1. Len(curCommands) \in 1 .. Len(curCommands)
        BY <2>2, <3>2
      <4>2. curCommands[Len(curCommands)] \in 1 .. curLine
        BY <4>1, ElementOfSeq DEF IInv, ListSound
      <4>3. Len(curCommands) <= curCommands[Len(curCommands)]
        BY <2>2, <4>1 DEF IInv, ListSound
      <4> QED
        BY <2>1, <2>2, <4>2, <4>3
    <3> QED
      BY <3>1, <3>2
  <2>4. \A l \in Line : command[l].at \in {"idle", "update", "tail"}
    BY DEF IInv, Types, Commands
  <2> QED
    BY <2>1, <2>2, <2>3, <2>4 DEF TypeOK, IInv, ListSound
<1> QED
  BY <1>1, Invariance, PTL

\* Scripts of any length are carried out in turn: a line is begun only when
\* those before it have finished, or run beside it.
THEOREM AlwaysInTurn == Spec => []InTurn
<1>1. IInv => InTurn
  BY DEF IInv, TurnSound
<1> QED
  BY <1>1, Invariance, PTL

\* Unless an update of the scheduler overlaps it, disabledInit or teleopInit
\* stops every command there is, however many, and meets no exception.
THEOREM StopAlwaysFinal == Spec => []StopIsFinal
<1>1. IInv => StopIsFinal
  BY DEF IInv, StopSound, StopIsFinal
<1> QED
  BY <1>1, Invariance, PTL

\* In autonomous and teleop each subsystem has the timer that stop() cancels,
\* and while disabled none; a timer is lost only by an autonomous period that
\* does not follow the disabled mode.
THEOREM AlwaysOneTimer == Spec => OneTimer
<1>1. IInv => OneEach
  BY DEF IInv, TimerSound
<1>2. IInv /\ [Next]_vars => [LosesOne]_vars
  BY TimersKept
<1> QED
  BY <1>1, <1>2, Invariance, PTL DEF Spec, OneTimer
===============================================================================
