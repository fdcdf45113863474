------------------------------ MODULE Autonomous ------------------------------
(***************************************************************************)
(* The robot of FRC team 696 through its modes: the scheduler that carries *)
(* out the script of the autonomous period (Scheduler.java), the commands  *)
(* it makes from the lines of the script (Interpreter.java), and the mode  *)
(* changes of Robot.java that stop it.  Every Runnable has a Timer of its  *)
(* own, so the scheduler, each command, and the robot's main thread are    *)
(* threads that share the vector of current commands without a lock.       *)
(* Timer.cancel lets an update that is under way run to its end.           *)
(***************************************************************************)
EXTENDS Naturals, Sequences, SequencesExt

CONSTANT Scripts      \* the scripts the driver station may send

\* A line has a name and arguments: D for a number, B for anything else, which
\* becomes a Boolean; parallel is the value of the last one.  A line of colons
\* alone has no name, which would end the scheduler's thread: it is left out.
ASSUME ScriptAssumption ==
    Scripts \subseteq Seq([name : STRING, args : STRING, parallel : BOOLEAN])

VARIABLES
    script,      \* the lines of the interpreter
    curLine,     \* how many of them were made into commands
    curCommands, \* the commands now current, each named by its line
    command,     \* of each line: is its timer set, is it in update, isFinished
    scheduler,   \* is its timer set, where its update is, and update's locals
    abandoned,   \* something of an earlier period's scheduler went on in the next
    mode, main,  \* the mode, and where the main thread is in changing it
    timer,       \* of each subsystem: is the timer stop() can cancel set, and is
                 \* one lost that start() replaced without cancelling it
    lidar,       \* the LIDAR's task, which never returns, was scheduled
    scripted,    \* the subsystems whose values a script set last
    overlapped   \* ghost: an update of this scheduler ran while its stop() did

plan == <<script, curLine, curCommands>>
robot == <<mode, main>>
timers == <<timer, lidar>>
vars == <<plan, command, scheduler, robot, timers, scripted, abandoned, overlapped>>

Line == DOMAIN script
Subsystems == {"drive", "elevator"}
NewCommand == [timer |-> FALSE, at |-> "idle", isFinished |-> FALSE]
NewScheduler == [timer |-> FALSE, pc |-> "idle", fish |-> 1, threadFree |-> TRUE]

\* What has a Timer.  SwerveDrive starts and stops its four modules with
\* itself, each its steering encoder, and Elevator its intake; module and
\* steerEncoder stand for the four.
Runnables == {"drive", "module", "steerEncoder", "elevator", "intake"}

\* After robotInit, which started the steering encoders.  The first scheduler
\* has a script of its own, and is never started.
Init ==
    /\ script = <<[name |-> "wait", args |-> "D", parallel |-> FALSE]>>
    /\ curLine = 0 /\ curCommands = <<>>
    /\ command = [l \in Line |-> NewCommand]
    /\ scheduler = NewScheduler
    /\ mode = "none" /\ main = [pc |-> "idle", fish |-> 1]
    /\ timer = [r \in Runnables |-> [set |-> r = "steerEncoder", lost |-> FALSE]]
    /\ lidar = FALSE
    /\ scripted = {}
    /\ abandoned = FALSE /\ overlapped = FALSE

-----------------------------------------------------------------------------
(* Interpreter.nextLine: the class by its name, its constructor by the types *)
(* of the arguments.  Of navigate's constructors only the longest makes the  *)
(* controllers that it sets; the others throw.  A line for which anything    *)
(* goes wrong becomes a plain Command.                                       *)

Signatures == {<<"wait", "D">>, <<"setelevator", "DB">>, <<"navigate", "DDDDDBB">>,
               <<"setintake", "DD">>, <<"openintake", "">>, <<"closeintake", "">>}

Known(l) == <<script[l].name, script[l].args>> \in Signatures

isParallel(l) ==
    Known(l) /\ script[l].name \in {"setelevator", "navigate"} /\ script[l].parallel

hasNextLine == curLine < Len(script)

-----------------------------------------------------------------------------
(* The update of a command *)

CommandBegins(l) ==
    /\ command[l].timer /\ command[l].at = "idle"
    /\ command' = [command EXCEPT ![l].at = "update"]
    /\ UNCHANGED <<plan, scheduler, robot, timers, scripted, abandoned, overlapped>>

Sets(l) ==
    scripted' = CASE script[l].name = "navigate" -> scripted \cup {"drive"}
                  [] script[l].name = "setelevator" -> scripted \cup {"elevator"}
                  [] OTHER -> scripted

\* The goal is reached, the time has passed, or there was nothing to wait for.
\* navigate goes on to set the values of the drive once more.
CommandFinishes(l) ==
    /\ command[l].at = "update" /\ Known(l)
    /\ command' = [command EXCEPT ![l].isFinished = TRUE,
                      ![l].at = IF script[l].name = "navigate" THEN "tail" ELSE "idle"]
    /\ Sets(l)
    /\ UNCHANGED <<plan, scheduler, robot, timers, abandoned, overlapped>>

CommandGoesOn(l) ==
    /\ command[l].at = "update"
    /\ Known(l) => script[l].name \in {"wait", "setelevator", "navigate"}
    /\ command' = [command EXCEPT ![l].at = "idle"]
    /\ IF Known(l) THEN Sets(l) ELSE UNCHANGED scripted
    /\ UNCHANGED <<plan, scheduler, robot, timers, abandoned, overlapped>>

NavigateEnds(l) ==
    /\ command[l].at = "tail"
    /\ command' = [command EXCEPT ![l].at = "idle"] /\ Sets(l)
    /\ UNCHANGED <<plan, scheduler, robot, timers, abandoned, overlapped>>

CommandThread(l) ==
    CommandBegins(l) \/ CommandFinishes(l) \/ CommandGoesOn(l) \/ NavigateEnds(l)

-----------------------------------------------------------------------------
(* Scheduler.update *)

Stopping == main.pc \in {"stop", "element", "cancel"}

UpdateBegins ==
    /\ scheduler.timer /\ scheduler.pc = "idle"
    /\ scheduler' = [scheduler EXCEPT !.pc = "scan"]
    /\ overlapped' = (overlapped \/ Stopping)
    /\ UNCHANGED <<plan, command, robot, timers, scripted, abandoned>>

\* Mutant: the command that moves up when one is removed is not looked at.
ScanSkips ==
    /\ scheduler.pc = "scan" /\ scheduler.fish <= Len(curCommands)
    /\ LET l == curCommands[scheduler.fish] IN
       IF command[l].isFinished
       THEN /\ command' = [command EXCEPT ![l].timer = FALSE]
            /\ curCommands' = RemoveAt(curCommands, scheduler.fish)
            /\ scheduler' = [scheduler EXCEPT !.fish = @ + 1]
       ELSE /\ scheduler' = [scheduler EXCEPT !.fish = @ + 1,
                                              !.threadFree = @ /\ isParallel(l)]
            /\ UNCHANGED <<command, curCommands>>
    /\ UNCHANGED <<script, curLine, robot, timers, scripted, abandoned, overlapped>>

\* A finished command is stopped and removed, and the next one moves up.
Scan ==
    /\ scheduler.pc = "scan" /\ scheduler.fish <= Len(curCommands)
    /\ LET l == curCommands[scheduler.fish] IN
       IF command[l].isFinished
       THEN /\ command' = [command EXCEPT ![l].timer = FALSE]
            /\ curCommands' = RemoveAt(curCommands, scheduler.fish)
            /\ UNCHANGED scheduler
       ELSE /\ scheduler' = [scheduler EXCEPT !.fish = @ + 1,
                                              !.threadFree = @ /\ isParallel(l)]
            /\ UNCHANGED <<command, curCommands>>
    /\ UNCHANGED <<script, curLine, robot, timers, scripted, abandoned, overlapped>>

\* With nothing left to do the scheduler stops itself.
UpdateEnds(current) ==
    scheduler' = [NewScheduler EXCEPT !.timer = scheduler.timer /\ (current # <<>> \/ hasNextLine)]

\* The next line becomes a command, and the last of the vector ...
AddNextLine ==
    /\ scheduler.pc = "scan" /\ scheduler.fish > Len(curCommands)
    /\ IF scheduler.threadFree /\ hasNextLine
       THEN /\ curLine' = curLine + 1
            /\ curCommands' = Append(curCommands, curLine + 1)
            /\ scheduler' = [NewScheduler EXCEPT !.timer = scheduler.timer, !.pc = "start"]
       ELSE UpdateEnds(curCommands) /\ UNCHANGED <<curLine, curCommands>>
    /\ UNCHANGED <<script, command, robot, timers, scripted, abandoned, overlapped>>

\* Mutant: the command is added and never started.
StartNone ==
    /\ scheduler.pc = "start"
    /\ UpdateEnds(curCommands)
    /\ UNCHANGED <<plan, command, robot, timers, scripted, abandoned, overlapped>>

\* ... which is started.
StartLast ==
    /\ scheduler.pc = "start"
    /\ command' = [command EXCEPT ![Last(curCommands)].timer = TRUE]
    /\ UpdateEnds(curCommands)
    /\ UNCHANGED <<plan, robot, timers, scripted, abandoned, overlapped>>

SchedulerThread == UpdateBegins \/ Scan \/ AddNextLine \/ StartLast

-----------------------------------------------------------------------------
(* Robot: the mode changes.  Runnable.start replaces the timer that stop     *)
(* cancels, whether or not it was cancelled.                                 *)

Started == [r \in Runnables |-> [set |-> TRUE, lost |-> timer[r].lost \/ timer[r].set]]
Stopped == [r \in Runnables |-> [timer[r] EXCEPT !.set = FALSE]]

\* Something of this period's scheduler has a timer still, or is in its update.
Running ==
    \/ scheduler.timer \/ scheduler.pc # "idle"
    \/ \E l \in Line : command[l].timer \/ command[l].at # "idle"

\* Nothing is stopped but the new scheduler, which takes the place of the old
\* one, as the new timers do.
autonomousInit ==
    /\ main.pc = "idle" /\ mode # "autonomous"
    /\ mode' = "autonomous" /\ timer' = Started /\ lidar' = TRUE
    /\ script' \in Scripts /\ curLine' = 0 /\ curCommands' = <<>>
    /\ command' = [l \in DOMAIN script' |-> NewCommand]
    /\ scheduler' = [NewScheduler EXCEPT !.timer = TRUE]
    /\ abandoned' = (abandoned \/ Running) /\ overlapped' = FALSE
    /\ UNCHANGED <<main, scripted>>

\* What an earlier period left running nobody holds any more, so no mode stops
\* it; its steps are not followed, only what they may set.
AbandonedSets ==
    /\ abandoned /\ \E s \in Subsystems : scripted' = scripted \cup {s}
    /\ UNCHANGED <<plan, command, scheduler, robot, timers, abandoned, overlapped>>

StopBegins(m) ==
    /\ main.pc = "idle" /\ mode # m
    /\ mode' = m /\ main' = [pc |-> "stop", fish |-> 1]
    /\ overlapped' = (overlapped \/ scheduler.pc # "idle")
    /\ UNCHANGED <<plan, command, scheduler, lidar, scripted, abandoned>>

\* Mutant: only the scheduler is stopped.
teleopInitBare == StopBegins("teleop") /\ UNCHANGED timer

\* Drive and elevator are stopped, and then the scheduler.
teleopInit == StopBegins("teleop") /\ timer' = Stopped

\* The scheduler is stopped first.
disabledInit == StopBegins("disabled") /\ UNCHANGED timer

\* Test mode has no init of its own: all goes on as it was.
testMode ==
    /\ main.pc = "idle" /\ mode # "test" /\ mode' = "test"
    /\ UNCHANGED <<plan, command, scheduler, main, timers, scripted, abandoned, overlapped>>

\* Mutant: the scheduler's own timer is cancelled, and its commands run on.
StopNoCommands ==
    /\ main.pc = "stop" /\ main' = [main EXCEPT !.pc = "cancel"]
    /\ UNCHANGED <<plan, command, scheduler, mode, timers, scripted, abandoned, overlapped>>

\* Scheduler.stop: the size is read, and the element taken, one after the other.
StopTests ==
    /\ main.pc = "stop"
    /\ main' = [main EXCEPT !.pc = IF main.fish <= Len(curCommands) THEN "element" ELSE "cancel"]
    /\ UNCHANGED <<plan, command, scheduler, mode, timers, scripted, abandoned, overlapped>>

\* An element that is no longer there is an exception, which ends the program.
StopsElement ==
    /\ main.pc = "element"
    /\ IF main.fish <= Len(curCommands)
       THEN /\ command' = [command EXCEPT ![curCommands[main.fish]].timer = FALSE]
            /\ main' = [pc |-> "stop", fish |-> main.fish + 1]
       ELSE main' = [main EXCEPT !.pc = "exception"] /\ UNCHANGED command
    /\ UNCHANGED <<plan, scheduler, mode, timers, scripted, abandoned, overlapped>>

\* The scheduler's own timer goes last; drive and elevator are started again
\* for the driver, or stopped.
StopCancels ==
    /\ main.pc = "cancel"
    /\ scheduler' = [scheduler EXCEPT !.timer = FALSE]
    /\ timer' = IF mode = "teleop" THEN Started ELSE Stopped
    /\ lidar' = (lidar \/ mode = "teleop")
    /\ main' = [pc |-> "idle", fish |-> 1]
    /\ UNCHANGED <<plan, command, mode, scripted, abandoned, overlapped>>

MainThread == StopTests \/ StopsElement \/ StopCancels

\* The sticks set both subsystems every time (robotCode), unless the button is
\* held: calibrate sets the modules' overrides and offsets, and nothing here.
teleopPeriodic ==
    /\ main.pc = "idle" /\ mode = "teleop"
    /\ \E calibrate \in BOOLEAN : scripted' = IF calibrate THEN scripted ELSE {}
    /\ UNCHANGED <<plan, command, scheduler, robot, timers, abandoned, overlapped>>

\* After an exception in the main thread nothing runs any more.
Timers(A) == main.pc # "exception" /\ A

Next ==
    \/ autonomousInit \/ teleopInit \/ disabledInit \/ testMode
    \/ MainThread \/ teleopPeriodic
    \/ Timers(SchedulerThread) \/ Timers(AbandonedSets)
    \/ \E l \in Line : Timers(CommandThread(l))

\* Timers run their tasks, a known command that is updated again and again
\* reaches its goal at last, and the driver does not calibrate for ever;
\* nothing makes the mode change.
Spec ==
    /\ Init /\ [][Next]_vars
    /\ WF_vars(MainThread) /\ WF_vars(teleopPeriodic)
    /\ WF_vars(Timers(SchedulerThread))
    /\ \A l \in UNION {DOMAIN s : s \in Scripts} :
          /\ WF_vars(l \in Line /\ Timers(CommandThread(l)))
          /\ SF_vars(l \in Line /\ Timers(CommandFinishes(l)))

-----------------------------------------------------------------------------
(* Properties *)

TypeOK ==
    /\ curLine \in 0 .. Len(script) /\ Len(curCommands) <= Len(script)
    /\ \A i, k \in DOMAIN curCommands : i < k => curCommands[i] < curCommands[k]
    /\ \A l \in Line : command[l].at \in {"idle", "update", "tail"}

\* A line is begun only when every line before it has finished but those that
\* were to run beside it: also while finished commands are removed from the
\* vector in which the others are looked for.
InTurn ==
    \A l \in 1 .. curLine : \A k \in 1 .. l - 1 : isParallel(k) \/ command[k].isFinished

\* Once disabledInit or teleopInit is through, no command of the last scheduler
\* is updated any more, and the main thread has met no exception, unless an
\* update of that scheduler ran at the same time.
StopIsFinal ==
    /\ ~overlapped
    /\ \/ main.pc = "idle" /\ mode \in {"disabled", "teleop"}
       \/ main.pc = "exception"
    =>
        /\ main.pc # "exception"
        /\ \A l \in Line : ~command[l].timer

OneEach ==
    main.pc = "idle" /\ mode \in {"autonomous", "teleop", "disabled"} =>
        \A r \in Runnables : timer[r].set = (mode # "disabled")

LosesOne ==
    \A r \in Runnables : ~timer[r].lost /\ timer'[r].lost =>
        mode # "disabled" /\ mode # "autonomous" /\ mode' = "autonomous"

\* Each subsystem has the one timer that stop() cancels while the robot is in
\* autonomous or teleop, and none while it is disabled; a second one, which
\* would update it twice as often and never be cancelled, comes only from an
\* autonomous period that does not follow the disabled mode.  Of the LIDAR
\* nothing is claimed: its task runs on whatever the mode.
OneTimer == []OneEach /\ [][LosesOne]_vars

\* A driver who takes over, and does not calibrate for ever, stays in control
\* in spite of commands whose updates were under way, unless an update of the
\* scheduler ran while it was stopped, or an earlier period left one running.
DriverTakesOver ==
    <>[](mode = "teleop" /\ ~overlapped /\ ~abandoned) => <>[](scripted = {})

\* A script of known lines comes to its end if it is let, and the scheduler
\* stops itself.
ScriptEnds ==
    mode = "autonomous" /\ (\A l \in Line : Known(l))
        ~> (~scheduler.timer \/ mode # "autonomous")
===============================================================================
