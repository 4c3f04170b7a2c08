----------------------------- MODULE SimMessage -----------------------------
(***************************************************************************)
(* The simulation dialogs of the GUI (SimMessage) and the main window's    *)
(* part in them (QucsApp::slotSimulate, slotAfterSimulation, closeFile).   *)
(*                                                                         *)
(* A dialog converts the SPICE files of its page one after the other,      *)
(* starts the simulator and reports the end of the simulation, all from    *)
(* the signals of its QProcess.  Dialogs are not modal: the user may start *)
(* further simulations, abort them, and close the pages they belong to.    *)
(* The static variable oldState of slotStateChanged is one for all of them.*)
(*                                                                         *)
(* QProcess is external.  start() leaves it in a state that depends on the *)
(* platform; it then runs or fails to start, and ends normally or by a     *)
(* crash or signal, emitting stateChanged(NotRunning), finished(int) and   *)
(* then finished(int, ExitStatus).  The converters' ends are handled in    *)
(* the first of these two and the simulator's in the second.               *)
(***************************************************************************)
EXTENDS Integers, Sequences

CONSTANTS
  Dialogs,
  Schematics,    \* pages with a schematic
  VHDLSims,      \* text pages with a VHDL simulation
  VHDLModules,   \* text pages with a VHDL module to be put into a library
  Platforms      \* [start, spice]: the state after start(), "Starting" (Unix) or
                 \* "Running" (Windows), and a bound on the SPICE files of a page

ASSUME PlatformAssumption ==
  Platforms \subseteq [start : {"Starting", "Running"}, spice : Nat]

Pages == Schematics \cup VHDLSims \cup VHDLModules

VARIABLES
  platform,    \* what the program runs on
  open,        \* pages that exist
  DocWidget,   \* page of a dialog
  stage,       \* "unused", "convert", "simulate"
  Collect,     \* SPICE files still to be converted
  SimProcess,  \* "NotRunning", "Starting", "Running"
  oldState,    \* the same, as slotStateChanged last saw it in any dialog
  simKilled,
  visible,     \* is the window shown?
  crashed,     \* did the last process end by a crash or signal?
  ended,       \* the statuses reported by SimulationEnded
  strays,      \* dialogs that have used a page after it was closed
  converting,  \* history: dialogs that have had SPICE files to convert
  shared       \* history: dialogs whose simulators ran at the same time

vars == <<platform, open, DocWidget, stage, Collect, SimProcess, oldState, simKilled,
          visible, crashed, ended, strays, converting, shared>>

Init ==
  /\ platform \in Platforms
  /\ open = Pages
  /\ DocWidget \in [Dialogs -> {CHOOSE p \in Pages : TRUE}]
  /\ stage = [s \in Dialogs |-> "unused"]
  /\ Collect = [s \in Dialogs |-> 0]
  /\ SimProcess = [s \in Dialogs |-> "NotRunning"]
  /\ oldState = "NotRunning"
  /\ simKilled = [s \in Dialogs |-> FALSE]
  /\ visible = [s \in Dialogs |-> FALSE]
  /\ crashed = [s \in Dialogs |-> FALSE]
  /\ ended = [s \in Dialogs |-> <<>>]
  /\ strays = {} /\ converting = {} /\ shared = {}

-----------------------------------------------------------------------------
\* The pages a dialog may touch: isTextDocument, createNetlist, and after a success
\* setChanged and viewport all go through DocWidget.
Touch(s, p) == strays' = IF p \in open THEN strays ELSE strays \cup {s}

\* FinishSimulation for each of a sequence of statuses.  With an error
\* slotAfterSimulation returns at once.
FinishSimulation(s, statuses) == ended' = [ended EXCEPT ![s] = @ \o statuses]

\* Without one, a DC bias calculation and an open data display close the window.
slotAfterSimulation(s) ==
  \/ UNCHANGED visible
  \/ /\ \E i \in Len(ended[s]) + 1 .. Len(ended'[s]) : ended'[s][i] = 0
     /\ visible' = [visible EXCEPT ![s] = FALSE]

-----------------------------------------------------------------------------
(* Starting the simulator. *)

AnyChange(old) == old # "NotRunning"

NoReport(old) == FALSE

\* slotStateChanged(NotRunning) without an error code: a process that was
\* starting has failed to start.
CannotStart(old) == old = "Starting"

StartState == platform.start

\* Where start() waits it may find that the program cannot be started.
FailsAtOnce == StartState = "Running"

\* The other dialogs whose simulators are not at rest.
Simulating(s) ==
  {r \in Dialogs \ {s} : stage[r] = "simulate" /\ SimProcess[r] # "NotRunning"}

\* The connections are made; stateChanged(Starting) and, where start() waits for
\* it, what follows.  A signal that is still being delivered then reaches
\* slotSimEnded, too: late is what it reports.
Launch(s, late) ==
  /\ \/ /\ SimProcess' = [SimProcess EXCEPT ![s] = StartState]
        /\ oldState' = StartState
        /\ FinishSimulation(s, late)
     \/ /\ FailsAtOnce
        /\ SimProcess' = [SimProcess EXCEPT ![s] = "NotRunning"]
        /\ oldState' = "NotRunning"
        /\ FinishSimulation(s, (IF CannotStart("Starting") THEN <<-1>> ELSE <<>>) \o late)
  /\ shared' = IF Simulating(s) = {} THEN shared ELSE shared \cup Simulating(s) \cup {s}

\* The netlist is completed from the page and the simulator started.  Errors
\* in the schematic are reported, those of a VHDL module are not.
startSimulator(s, p, late) ==
  /\ stage' = [stage EXCEPT ![s] = "simulate"]
  /\ Collect' = [Collect EXCEPT ![s] = 0]
  /\ Touch(s, p)
  /\ \/ Launch(s, late)
     \/ /\ p \in Schematics
        /\ FinishSimulation(s, <<-1>>)
        /\ SimProcess' = [SimProcess EXCEPT ![s] = "NotRunning"]
        /\ UNCHANGED <<oldState, shared>>
     \/ /\ p \in VHDLModules
        /\ SimProcess' = [SimProcess EXCEPT ![s] = "NotRunning"]
        /\ UNCHANGED <<oldState, ended, shared>>

\* Is the converter running after start()?
ConverterRuns(st) == st = "Running"

\* The mark at the end of Collect.
AllConverted(n) == n = 0

\* The next SPICE file is converted; n of them are left.  The file may not be
\* readable.  The state of the process is tested right after start().
nextSPICE(s, p, n, late) ==
  \/ AllConverted(n) /\ startSimulator(s, p, late) /\ UNCHANGED converting
  \/ /\ ~AllConverted(n)
     /\ stage' = [stage EXCEPT ![s] = "convert"]
     /\ Collect' = [Collect EXCEPT ![s] = n - 1]
     /\ converting' = converting \cup {s}
     /\ UNCHANGED <<oldState, strays, shared>>
     /\ \/ /\ SimProcess' = [SimProcess EXCEPT ![s] = StartState]
           /\ FinishSimulation(s, IF ConverterRuns(StartState) THEN <<>> ELSE <<-1>>)
        \/ /\ SimProcess' = [SimProcess EXCEPT ![s] = "NotRunning"]
           /\ FinishSimulation(s, <<-1>>)

-----------------------------------------------------------------------------
(* What the user does. *)

\* A new dialog for page p, whose netlist file may not be writable.
slotSimulate(s, p, n) ==
  /\ stage[s] = "unused"
  /\ p \in open
  /\ DocWidget' = [DocWidget EXCEPT ![s] = p]
  /\ visible' = [visible EXCEPT ![s] = TRUE]
  /\ \/ /\ n > 0 => p \in Schematics
        /\ nextSPICE(s, p, n, <<>>)
     \/ /\ n = 0
        /\ stage' = [stage EXCEPT ![s] = "simulate"]
        /\ FinishSimulation(s, <<-1>>)
        /\ UNCHANGED <<Collect, SimProcess, oldState, strays, converting, shared>>
  /\ UNCHANGED <<platform, open, simKilled, crashed>>

\* The abort button closes the window and kills the process, which is noticed
\* when its end is.
AbortSim(s) ==
  /\ visible[s]
  /\ visible' = [visible EXCEPT ![s] = FALSE]
  /\ simKilled' = [simKilled EXCEPT ![s] = TRUE]
  /\ UNCHANGED <<platform, open, DocWidget, stage, Collect, SimProcess, oldState,
                 crashed, ended, strays, converting, shared>>

\* The button to the data display, enabled by FinishSimulation.
slotDisplayButton(s) ==
  /\ visible[s]
  /\ ended[s] # <<>>
  /\ visible' = [visible EXCEPT ![s] = FALSE]
  /\ UNCHANGED <<platform, open, DocWidget, stage, Collect, SimProcess, oldState, simKilled,
                 crashed, ended, strays, converting, shared>>

closeFile(p) ==
  /\ p \in open
  /\ open' = open \ {p}
  /\ UNCHANGED <<platform, DocWidget, stage, Collect, SimProcess, oldState, simKilled,
                 visible, crashed, ended, strays, converting, shared>>

-----------------------------------------------------------------------------
(* What the processes do. *)

ProcessStarted(s) ==
  /\ SimProcess[s] = "Starting"
  /\ SimProcess' = [SimProcess EXCEPT ![s] = "Running"]
  /\ oldState' = IF stage[s] = "simulate" THEN "Running" ELSE oldState
  /\ UNCHANGED <<platform, open, DocWidget, stage, Collect, simKilled, visible,
                 crashed, ended, strays, converting, shared>>

ProcessFailsToStart(s) ==
  /\ SimProcess[s] = "Starting"
  /\ SimProcess' = [SimProcess EXCEPT ![s] = "NotRunning"]
  /\ oldState' = IF stage[s] = "simulate" THEN "NotRunning" ELSE oldState
  /\ IF stage[s] = "simulate" /\ CannotStart(oldState)
       THEN FinishSimulation(s, <<-1>>)
       ELSE UNCHANGED ended
  /\ UNCHANGED <<platform, open, DocWidget, stage, Collect, simKilled, visible,
                 crashed, strays, converting, shared>>

\* The converter has ended, in whatever way: finished(int) converts the next file
\* or starts the simulator.  In the latter case slotSimEnded is connected when
\* finished(int, ExitStatus) follows, with the exit code and status that start()
\* has reset.
slotFinishSpiceNetlist(s) ==
  /\ SimProcess[s] = "Running"
  /\ stage[s] = "convert"
  /\ nextSPICE(s, DocWidget[s], Collect[s], <<0>>)
  /\ UNCHANGED <<platform, open, DocWidget, simKilled, crashed>>
  /\ slotAfterSimulation(s)

\* A code that Windows gives a crashed process.
CrashCode == -2

OnWindows == platform.start = "Running"

\* The exit codes of a process.  On Unix that of a killed one is 0 or the signal's
\* number, depending on the Qt version; on Windows exit codes of any other kind
\* may also be taken as a crash.
ExitCodes(crash) == IF crash /\ OnWindows THEN {1, CrashCode} ELSE {0, 1}

\* The exit code counts when the process was killed by the user and, on Windows,
\* when it is not one of a crash.
exitStatus(s, crash, code) ==
  IF crash /\ (OnWindows => code = CrashCode) /\ ~simKilled[s] THEN -1 ELSE code

EndThenState(s, crash, code) ==
  <<exitStatus(s, crash, code)>>
    \o (IF ~crash /\ CannotStart(oldState) THEN <<-1>> ELSE <<>>)

\* What is reported when the simulator has ended: by slotStateChanged, then by
\* slotSimEnded.
StateThenEnd(s, crash, code) ==
  (IF ~crash /\ CannotStart(oldState) THEN <<-1>> ELSE <<>>)
    \o <<exitStatus(s, crash, code)>>

\* The simulator has ended.  After a success the page is repainted.
slotSimEnded(s, crash, code) ==
  /\ SimProcess[s] = "Running"
  /\ stage[s] = "simulate"
  /\ SimProcess' = [SimProcess EXCEPT ![s] = "NotRunning"]
  /\ crashed' = [crashed EXCEPT ![s] = crash]
  /\ oldState' = "NotRunning"
  /\ FinishSimulation(s, StateThenEnd(s, crash, code))
  /\ UNCHANGED <<platform, open, DocWidget, stage, Collect, simKilled, converting, shared>>
  /\ slotAfterSimulation(s)
  /\ IF exitStatus(s, crash, code) = 0 THEN Touch(s, DocWidget[s]) ELSE UNCHANGED strays

Processes(s) ==
  \/ ProcessStarted(s) \/ ProcessFailsToStart(s)
  \/ slotFinishSpiceNetlist(s)
  \/ \E crash \in BOOLEAN : \E code \in ExitCodes(crash) : slotSimEnded(s, crash, code)

Next ==
  \/ \E s \in Dialogs : Processes(s) \/ AbortSim(s) \/ slotDisplayButton(s)
  \/ \E s \in Dialogs, p \in Pages, n \in 0 .. platform.spice : slotSimulate(s, p, n)
  \/ \E p \in Pages : closeFile(p)

\* Started processes start or fail, and end.
Spec == Init /\ [][Next]_vars /\ \A s \in Dialogs : WF_vars(Processes(s))

-----------------------------------------------------------------------------
(* Properties. *)

States == {"NotRunning", "Starting", "Running"}

\* A dialog never has fewer than no SPICE files left to convert, its process and its
\* window are in a state QProcess and QDialog know (nextSPICE, slotStateChanged).
TypeOK ==
  /\ platform \in Platforms
  /\ open \subseteq Pages
  /\ DocWidget \in [Dialogs -> Pages]
  /\ stage \in [Dialogs -> {"unused", "convert", "simulate"}]
  /\ Collect \in [Dialogs -> 0 .. platform.spice]
  /\ SimProcess \in [Dialogs -> States]
  /\ oldState \in States
  /\ simKilled \in [Dialogs -> BOOLEAN]
  /\ visible \in [Dialogs -> BOOLEAN]
  /\ crashed \in [Dialogs -> BOOLEAN]
  /\ ended \in [Dialogs -> Seq({CrashCode, -1, 0, 1})]
  /\ strays \subseteq Dialogs /\ converting \subseteq Dialogs /\ shared \subseteq Dialogs

\* A dialog without SPICE files whose simulator had no other beside it reports the
\* end once, however the simulator starts, fails, crashes or is killed, whatever
\* the dialogs before it left in oldState, and whatever converters other dialogs
\* run meanwhile.
EndsOnce == \A s \in Dialogs \ (shared \cup converting) : Len(ended[s]) <= 1

\* A dialog without SPICE files has no process left when it reports an end, and a
\* success is the last thing it reports; also when other simulators run and change
\* oldState in between.
ReportIsFinal ==
  \A s \in Dialogs \ converting :
    /\ ended[s] # <<>> => SimProcess[s] = "NotRunning"
    /\ \A i \in DOMAIN ended[s] : ended[s][i] = 0 => i = Len(ended[s])

\* A dialog reports the end of its simulation once.
\* Not kept by the code: README, section 3.
EndsOnceAlways == \A s \in Dialogs \ converting : Len(ended[s]) <= 1

\* "Is called after the simulation process terminates." (slotAfterSimulation): a
\* success is reported when no process is left, also by dialogs that had SPICE
\* files to convert.
\* Not kept by the code: README, section 3.
SuccessMeansStopped ==
  \A s \in Dialogs :
    ended[s] # <<>> /\ ended[s][Len(ended[s])] = 0 => SimProcess[s] = "NotRunning"

\* "Called when the simulation ended with errors before starting the simulator
\* process" (FinishSimulation): when the end is reported no process is left.
\* Not kept by the code: README, section 3.
FinishedMeansStopped ==
  \A s \in Dialogs : ended[s] # <<>> => SimProcess[s] = "NotRunning"

\* "0 = normal, !=0 = error": a process that did not exit normally is not
\* reported as a simulation that ended normally.
\* Not kept by the code: README, section 3.
CrashNotNormal ==
  \A s \in Dialogs : crashed[s] => \A i \in DOMAIN ended[s] : ended[s][i] # 0

\* "the document could be closed during the simulation": no dialog uses a page
\* that has been closed.
\* Not kept by the code: README, section 3.
ClosedPageUntouched == strays = {}

\* "Abort will close the window, which in turn will abort the simulation": no
\* simulator is started by a dialog that was aborted.
\* Not kept by the code: README, section 3.
AbortStops ==
  [][\A s \in Dialogs :
       simKilled[s] /\ stage[s] # "simulate" => stage'[s] # "simulate"]_vars

\* Every simulation the user starts has its end reported, with or without files to
\* convert, unless its simulator ran beside another one.  For a VHDL module
\* there are errors after which startSimulator just returns.
Ends ==
  \A s \in Dialogs :
    stage[s] # "unused" /\ DocWidget[s] \notin VHDLModules ~>
      ended[s] # <<>> \/ s \in shared

\* "process ended without trouble. slotSimEnded will be invoked soon.": the same
\* beside other simulators.
\* Not kept by the code: README, section 3.
EndsAlways ==
  \A s \in Dialogs :
    stage[s] # "unused" /\ DocWidget[s] \notin VHDLModules ~> ended[s] # <<>>
=============================================================================
