# Qucs in TLA+

This directory holds TLA+ models of Qucs, the circuit simulator with a graphical
editor, with the TLC configurations that check them and the TLAPS proofs about them.

## 1. The system

Qucs consists of an editor (`src/qucs/qucs`, C++ with Qt), a simulator that the editor
runs as a process (`qucsator`, `src/qucs-core/src`), a file converter (`qucsconv`) and a
number of small tools, each one dialog around a calculation.

**The simulator** is sequential. It parses and checks a netlist, orders the analyses,
evaluates equations and runs the analyses one after the other; the results go into a
dataset that is written at the end.

| Part | State | Operations | Works with |
|---|---|---|---|
| `net.cpp`, `parasweep.cpp` | list of analyses, lists below sweeps, circuit list | order, run, sweep, insert and remove circuits | all analyses, the dataset, environments |
| `dcsolver.cpp`, `nasolver.cpp` | matrix and vectors, convergence helper, gMin, source factor, iteration counts | solve, continue, fall back, save | global exception stack; bias points for AC, SP, TR |
| `nasolver.cpp` (damping) | damping factor | line search, attenuation, steepest descent | Newton iteration |
| `trsolver.cpp`, `states.cpp`, `transient.cpp` | time, step sizes, order, two rings of eight slots | predict, correct, accept, reject, restart, save | circuits' own state rings, histories, dataset |
| `history.cpp` | time vector shared by several value vectors | append, drop, truncate, search | delay elements, external interface |
| `spsolver.cpp`, `nodelist.cpp` | circuit list, sorted node list | join circuits pairwise | circuit list |
| `hbsolver.cpp` | frequencies, partition of the circuit | collect, expand, split, iterate | Fourier transform |
| `equation.cpp`, `environment.cpp` | equation list, types, constants, tree of environments | check, reorder, evaluate, pass down | sweeps, netlist checker |
| `check_netlist.cpp`, grammars, file readers | parse trees | check, convert | the above |
| `interface/` | a transient solver driven from outside | synchronous and asynchronous steps | `trsolver.cpp` |
| `eqnsys.cpp`, `math/`, `components/` | matrices, device state | numerics | all solvers |

**The editor** runs in one thread and reacts to the user and to the signals of the
processes it starts.

| Part | State | Operations | Works with |
|---|---|---|---|
| `schematic*.cpp` | circuit, symbol, two undo stacks, changed flag | edit, undo, redo, load, save, switch to the symbol | file, settings dialogs, optimizer results |
| `qucs.cpp`, `savedialog.cpp` | tabs, current tab, names | create, open, save, rename, close one or many, quit | documents, files |
| `simmessage.cpp` | process, stage, SPICE files to convert | start, convert, simulate, abort, end | QProcess, the page simulated, other dialogs |
| `textdoc.cpp` | text and its changed flag | edit, load, save | Qt text widget |
| `wire.cpp`, `node.cpp`, `mouseactions.cpp` | geometry | insert, split, join, move | schematic |
| `diagrams/`, `paintings/`, `components/` | drawings, tables | draw | schematic |

**What is hard here.** In the simulator: loops whose end depends on quantities that are
adjusted in every turn; steps that are undone after half of the state was already
written; factors and sources changed for a while and put back; a global exception stack
read by whoever looks next; lists changed while they are walked. In the editor: signals
of several processes that interleave; pages closed while something still refers to them;
a flag that stands for "nothing would be lost" kept through undo, save, rename and
failures. `PROJECT.json` lists these hazards at their lines.

## 2. Modules

| Module | Models | Source |
|---|---|---|
| `Transient` | step control of the transient analysis and its rings | `trsolver.cpp`, `states.cpp` |
| `StepHistory` | what the integrators may rely on: a register of accepted steps | abstract |
| `LineSearch` | search for the damping factor | `nasolver.cpp` |
| `DCSolver` | DC analysis, convergence helpers, continuations, exceptions | `dcsolver.cpp`, `nasolver.cpp` |
| `AnalysisOrder` | chaining and running of analyses and sweeps | `net.cpp`, `parasweep.cpp` |
| `Equations` | checking, ordering and evaluation of equations | `equation.cpp`, `environment.cpp` |
| `Environments` | parameters of nested subcircuits, passed down at every sweep point | `environment.cpp`, `check_netlist.cpp` |
| `NodeList` | the sorted list of nodes, as operators on a sequence | `nodelist.cpp` |
| `SPReduce` | reduction of the netlist in the S-parameter analysis, with `NodeList` | `spsolver.cpp`, `net.cpp` |
| `NetworkReduction` | what that reduction promises | abstract |
| `History` | values kept for circuits with a delay | `history.cpp`, `trsolver.cpp` |
| `SimMessage` | simulation dialogs and their processes | `simmessage.cpp`, `qucs.cpp` |
| `SchematicDoc` | one schematic document with undo and symbol | `schematic*.cpp` |
| `Documents` | the open documents, their tabs and files | `qucs.cpp`, `savedialog.cpp` |

`MC*` modules give values to constants and bounds. The `*Proofs` modules hold the theorems;
`SolverProofs` those about `DCSolver`, `LineSearch`, `NetworkReduction` and `History`, which have
nothing in common but the place. `EquationsInvariant` and `EquationsChecker` hold the first two
parts of the proofs about `Equations`.

**Transient.** Time is counted in ticks and a solution vector is the time it was computed
for and whether the corrector reached it. One action is one turn of the do-while loop of
`trsolver::solve` (`StartTurn` at time zero, `AcceptTurn`, `RejectTurn`, `NoConvergence`,
`Failure`), `SavePoint` is what follows the loop, `Again` the next run of a parameter
sweep on the same object. The truncation error's estimate, convergence and the halves of
an odd number of ticks are chosen freely. `Register` maps the two rings and their shared
position to `StepHistory`.

**LineSearch.** The factors are binary fractions and the search step is halved in every
turn, so they are counted in units of half the current search step; halving it doubles
the counts. Whether a norm is the smallest so far is chosen freely.

**DCSolver.** One action is one iteration (`Iterate`) or one decision between iterations:
of gMin stepping (`gMinFails`, `gMinConverges`), of source stepping (`sourceFails`,
`sourceQuick`, `sourceSlow`), of the retry loop (`Fallback`, `NoFallback`). `solvedAt`
remembers which circuit the last accepted solution belongs to. Which iteration converges,
from the second of a run on, and which exceptions are raised is free; no run is made to
converge.

**AnalysisOrder.** Init enumerates the netlists that the checker lets through, in every
order of registration. `Chain` and `Sort` are the ordering loop, the other actions run the
analyses with an explicit stack for the nested sweeps.

**Equations.** An equation is the name it defines, where it comes from and the names it
refers to; Init enumerates the references. The checker runs at load time, before solver
runs and, at last, with the variables of the dataset (`Solve` starts all but the first). Its
steps are `Collect` (dependencies, undefined and duplicate names), one `recurseDependencies`
per call of that function, one `MoveEquation` per equation reordered, and `applyTypes`; then
follows one `Evaluate` per equation. `evaluated` is the solver run that last evaluated an
equation. The assumptions are that there are finitely many names, that a netlist's list is not
empty (without equations there is no checker to run) and that its equations are nodes of their
own, different from those the checker makes for properties and variables of the dataset.

**Environments.** A tree of subcircuit instances, of which several share a type and with
it one checker. Every type has a parameter `p` and an equation `q` calculated from it.
`Expand` copies a type's variables for an instance. `SweepPoint` sets the swept parameter and
starts `runSolver`, whose recursion is an explicit stack: `SolveEquations` evaluates and
fetches the results back, `NextChild` puts a child's parameter into the shared equations,
`Return` ends a call. Types have levels (`LevelsAssumption`), since the netlist checker
refuses cyclic definitions of subcircuits.

**SPReduce, NodeList, NetworkReduction.** A circuit is its type and the names of its nodes,
and its matrix is represented by the set of circuits it was joined from. One action is one
node or port visited by an inserting loop (`InsertConnectors`, `InsertDifferentialPorts`,
`InsertGrounds`), one call of `reduce` (`Reduce`), one circuit put
back or deleted after a frequency (`getDroppedCircuits`, `deleteUnusedCircuits`), or one
inserted circuit taken out again (`DropConnection`). `NodeList` has the node list's
own sorting, insertion and removal, as operators. In `NetworkReduction` a network is a set
of blocks, a step eliminates one open connection and merges what it touches, and nothing is
said of lists or order.

**History.** There is one vector of times and one of values per history, and a value is
represented by the time it was saved at. `updateHistory` appends to all of them and each
drops old entries by itself. `seek` is the recursive search, written as a recursive
function. The threshold of 127 entries is a constant.

**SimMessage.** A dialog's `QProcess` is external: it is starting or running after
`start()`, as the platform has it, then runs, fails or ends. The slots are actions, driven
by the process or the user. `oldState` is one variable, since it is a static variable in
the code. `platform`, chosen initially, is the state a process is in after `start()` and the
number of SPICE files a page may have; on Windows, where `start()` waits, only a crash's own
exit codes count as a crash. A converter ends with two signals: the first starts the simulator and
connects `slotSimEnded`, which the second then reaches. `converting` and `shared` are history
variables: the dialogs that have had SPICE files, and those whose simulator has run beside
another.

**SchematicDoc.** A circuit is a drawing and a set of port numbers, a symbol a drawing and
the places of its ports; settings outside the undo entries are one value. `Push` is what
`setChanged` does to a stack: cut off, merge marker moves, append, drop the oldest.
The limit may be zero, as the settings dialog allows, and empties the stacks; what reads an
entry of an empty stack is undefined in the code and has no action.
`intact` is a history variable: since the last successful load no load has failed, which
replaces the document and leaves the stacks, and no optimization has ended while the symbol
was edited, which records the symbol instead of the circuit. Symbols
of VHDL and Verilog files, duplicate port numbers and the layout of new symbols are left
out.

**Documents.** A document has a name, a content and a flag. `Edit` sets content and flag to
anything: when the flag is right is the subject of `SchematicDoc`, whose `UnchangedIsSaved`, put
together with `FileAsSaved` here, says that an unchanged document's circuit is what its file
contains. Two history variables belong to a document: `saved`, what it last read from or wrote to
the file of its name, and `shared`, whether that file has been opened again under another
spelling. Saving operations are sets of outcomes on a state record, since they call each other
and ask the user in between; any write may fail. A save adjusts the ports of the document's symbol
(`adjustPortNumbers`), also when the write fails, and a save that succeeds recreates the
subcircuits of that file in all open documents (`updatePortNumber`); both change a content to one with the same subcircuits
(`Uses`). The save dialog is a sequence of steps, as its order is not fixed, and so is the loop of
`slotFileSaveAll`, one `SaveTab` per tab. Names are clean absolute paths, and none is the
"untitled" of a document without one; only `slotChangePage` is given other spellings, which it
looks up as they are. `Without` is said by what it leaves, the other tabs in their order. `lost`
notes which documents the last step deleted although the user had asked to save them and they
were not in their file. All documents are schematics.

`saveSelectedClicked` erases an element of a map and then increments the iterator to it
(`savedialog.cpp:120`), which is undefined. The code builds with Qt 4 only, where a map's node holds
key and value first and its links after them; what freeing the node overwrites is at its front, so
the loop goes on with the next element, or the program crashes where freed memory is filled. The
model has both.

## 3. Runs

Every property is stated in words above its definition. Passing runs:

| Run | Shows | Bounds |
|---|---|---|
| `transient` | rings, time and order stay consistent, and refine `StepHistory`; while the corrector converges every requested point is stored from a solution less than a minimum step after it, and runs end | three points six ticks apart, a minimum step of two ticks, so that remainders below it occur; convergence failures at every turn; a ring of four slots, so that it wraps around |
| `linesearch` | the factor stays in (0, 1]; at most nine evaluations | the code's resolution, 200: complete |
| `dcsolver` | full sources afterwards; solutions of the given circuit only; each helper once; the analysis ends, unless source stepping stays at the full sources for ever | factors of six units, 44 iterations: quick and slow runs both exist (they are told apart at a fixed count) |
| `analyses` | every analysis is placed once; dependencies of nested sweeps fit the results; bias points are current | the netlists of three sweeps and one analysis, or two and two, with and without DC, in every order of registration |
| `simmessage` | while no other simulator runs, a simulation's end is reported, and without SPICE files only once; without SPICE files nothing runs after a report and nothing is reported after a success, whatever else runs | two dialogs after each other and at the same time, on both kinds of platform, with a SPICE file or two |
| `schematicdoc` | only an entry made while the limit is zero takes a position off its stack; while `intact` and the positions are on the stacks, a document that counts as unchanged is in its file and the current entries are what is shown | stacks limited to none, one and two entries and the limit changing, so that every cut and drop occurs; once not `intact`, states with longer stacks are checked but not continued |
| `documents` | unique names, but for files opened under two spellings; a document's file is as it last read or wrote it; named documents selected in the save dialog are saved | two documents, two names, one of them with another spelling, three contents, two of which have the same subcircuit; every write may fail |
| `equations` | what is evaluated is evaluable, comes after what it refers to, is defined once; no equation is lost; cycles of up to three equations are reported | three equations with up to two references each, four together, to each other, a component property, a result of the analyses, a generated and an undefined name; a dataset with and without a variable named like an equation; up to three runs of the checker |
| `environments` | every instance works with its own values at every sweep point, and the shared equations are still those of the instance that reads them | two instances of a type, each with an instance of a second type that is also used beside them; two sweep points in any order, any number of times |
| `spreduce` | node list and circuit list name the same nodes; the head of the list can be joined; the results are those of the ports; the netlist comes back; refinement of `NetworkReduction` | a port and two circuits of two nodes, or two ports and circuits of two nodes and one, connected in every way by ground and three or two other names: open nodes, loops and nodes many circuits share occur; two analyses of two frequencies |
| `history` | values and times stay together; a history covers its delay; the search finds the nearest time, unless that is the last one | two histories, delays of one, three and four, every sequence of steps up to time 13; a threshold of two entries, so that both vectors are shortened several times |

The bounds are small because the questions are about pairs: two ring slots around a step,
two sweeps around an analysis, two undo entries around a save, two documents around a
current tab. The rings, stacks and lists are chosen just long enough to wrap around,
overflow or be reordered. Where the size itself matters the proofs below do without it.

Where a module states a type invariant (`TypeOK`), it holds in the run's instance as well.
Larger instances were checked once and passed: transient runs with points eight and ten ticks
apart or a first step of one tick, three documents with two contents, and the schematic with a port and one value of the settings,
continued only while `intact`.

Deadlock is checked for the transient, DC, environment and S-parameter runs, which repeat
for ever or end in a state that repeats. The others may stop: a search, a list of analyses, a
checker or a time axis ends, and a user may do nothing.

### Disagreements between code and comments

One run, `history_nearest`, checks a statement that a comment makes and the code does not
keep (`NearestIsSaved`; `PROJECT.json` quotes the lines). With two different delays the vector
of times can become shorter than the values of the shorter delay; `nearest` counts from the
front of both, and returns values saved at earlier times.

The same models refute more statements. They have no run of their own; to see one, put the
definition into the configuration named, after changing the constant named in it.

| Configuration | Definition | What happens |
|---|---|---|
| `documents` | `ClosedIsSaved` | closing another tab with "Save" saves the current document instead (`qucs.cpp:1680`) |
| `simmessage` | `EndsOnceAlways` | a second dialog sets the static variable to "Starting", and the end of the first simulation is reported as a failed start too (`simmessage.cpp:686`) |
| `transient` | `SavedConverged` | if the corrector fails at time zero, the loop ends all the same and its vector is stored (`trsolver.cpp:325`) |
| `equations` | `CyclesReported` | a cycle of four, three equations and a component property, is not reported when the netlist is loaded (`equation.cpp:1287`) |
| `equations` | `CheckEnds` | `b` refers to `a` and `c`, which refer to themselves: once `a` is marked, `recurseDependencies` for `b` calls itself with `c` for ever (`equation.cpp:1289`) |
| `spreduce` | `SmallestFirst` | after the circuits are put back, connections whose joining leaves no node can stay behind others: such entries are not moved (`spsolver.cpp:457`) |
| `transient` | `SavedAtPoint` | a rest below the minimum step is stretched to it, so the requested time is passed |
| `transient` | `SteppedForward` | after a failure in the second turn the time stays zero although a step is integrated |
| `transient` | `deltaMax = 8`: `SavedIsNewest` | the vector of a turn without convergence is stored, also at later points |
| `linesearch` | `AppliesMinimum` | the factor applied is the last one tried, not the best |
| `dcsolver` | `EndsAlways` | at the full sources source stepping solves again and again while no run converges quickly: only a quick one is remembered as the last factor solved (`nasolver.cpp:416`) |
| `analyses` | `EverySweepHasChild` | a sweep of the DC analysis loses it to a sweep chained before |
| `simmessage` | `CrashNotNormal` | a killed simulation can be reported as successful |
| `simmessage` | `ClosedPageUntouched` | a closed page is used when its simulation ends |
| `simmessage` | `AbortStops` | aborting a conversion starts the simulator |
| `simmessage` | `EndsAlways` | a simulator that cannot be started is not reported when another dialog has changed the static variable (`simmessage.cpp:686`) |
| `simmessage` | `SuccessMeansStopped` | the second signal of the last converter's end reaches `slotSimEnded` and reports a success while the simulator runs (`simmessage.cpp:575`) |
| `simmessage` | `FinishedMeansStopped` | a converter that is starting is reported as not started |
| `history` | `NearestFound` | a time nearest to the last one is answered with the one before (`history.cpp:132`) |
| `schematicdoc` | `SettingsSaved` | undo takes a document with changed settings for saved |
| `schematicdoc` | `Ports = {p}`: `PlacementSaved` | undo does not bring a port symbol's place back |
| `schematicdoc` | `CircuitSaved` | a load that fails leaves what it has read in an unchanged document; with `LoadFailure` taken out of `load` and without the constraint, undoing behind the symbol forgets the results of an optimization |
| `schematicdoc` | `IndexInRange` | an undo limit of zero empties the stacks |
| `schematicdoc` | `SavedAtZero` | with an empty stack, a document that was edited counts as unchanged |
| `documents` | `AbortedStaysOpen` | a document is deleted after its saving was aborted |
| `documents` | `SelectedIsSaved` | an untitled document selected in the save dialog is lost |
| `documents` | `Docs = {d1, d2, d3}`: `OnlyUntitledCloses` | opening a file closes an untitled document beside others |
| `documents` | `OpenedOnce` | a data display named by a path with `..` is looked up as it is spelled and opened a second time (`qucs.cpp:2212`) |
| `documents` | `OthersAsTheyWere` | saving a document changes others that use it, which do not count as changed (`qucs.cpp:1460`) |

`history::truncate`, which only the interface for external programs reaches, is not modelled.
Its comment says that newer values are dropped; it resizes to the number of times after the
given one (`history.cpp:57`), which by reading is not the number of those to keep.

`Ends` of `SimMessage` is about pages that are not VHDL modules: a VHDL module without a
library directory never reports an end.

### Fairness

`Transient`, `DCSolver`, `LineSearch` and `AnalysisOrder` are sequential loops: weak
fairness of `Next` says that the program goes on running, nothing about which way the
numerics decide. `SimMessage` assumes weak fairness of what the started processes do: they
start or fail to, and they end, as the operating system and terminating simulators give
it. `Equations` has weak fairness of `Next` for `CheckEnds`. Nothing is assumed of the user,
and nothing in the other modules, which have no liveness properties.

## 4. Proofs

The theorems hold for every value of the constants that satisfies the named assumptions.

**SolverProofs, the DC analysis.** `SourcesComeBack` is inductive by itself. `TypeCorrect` and
`GivenNetlistSolved` need an invariant that relates the continuation's factors to the
circuit being solved and to the top of the exception stack: a continuation returns without
an error only from a run at its last factor. `NoHelperTwice` is an action property. While the
retry loop runs, the helpers tried are the requested one and the table up to the current
position (`TriedSoFar`); the next entry is neither, since the table has no entry twice and the
requested one is skipped; and the loop cannot restart without a new helper, because an error
is on top of the exception stack whenever `solve_nonlinear` reports one.

**SolverProofs, the line search.** `FactorInRange` is the assertion at the end of `lineSearch`;
`SearchIsShort` bounds the number of turns by the resolution. The range alone is not
inductive: the next step down would leave it from a small factor. `Room` says how much is
free on either side, depending on the direction, and `LastMove` how far the last step went.

**SolverProofs, the reduction.** `Components`: for every network, what is left when no connection
is open are its connected components. The invariant says that blocks are disjoint, that what an
eliminated connection touched is in one block, and that no block is larger than the eliminated
connections make it (`NoMore`). That `SPReduce` implements it is model-checked.

**SolverProofs, the histories.** `WindowAlways`, `BoundedAlways` and `AlignedAlways`, for any
histories, ages, steps and threshold. `drop` looks at the times to decide what to erase from the
values, so the invariant (`Kept`) also says that all vectors are in the order of time and end alike, and that
the times cover the largest age; from the last, `UnusedAreOld` follows: values without a time are
there only when the times already reach further back than the age. `LoopEnds` and `DropCuts`
say where the loop of `drop` ends and what it leaves.

**EquationsInvariant, EquationsChecker, EquationsProofs.** `EvaluationOrder`, `MarkedIfEvaluable`,
`EquationsKept`, `NamesUnique`, `ShortCyclesFound` and `TypeCorrect`, for every netlist, dataset
and number of runs. They are about one inductive invariant, since what one run of the checker may
rely on are marks and dependencies an earlier run left:

- `Places`, `Sources` and `Marks` say what is in the two lists and which equations have been seen;
  an equation outside has no mark. With `Names`, a second definition is found although the marks
  of the first one are not reset: one of the two is new.
- `Order` says that the reordered list is in the order of evaluation and that equations marked
  in an earlier run are still behind what they depend on. The list of marked equations is in
  front of the rest after `applyTypes`, and the dataset is put in front of both, so this survives
  the runs; with `Progress` it gives `EvaluationOrder`.
- `Contained` and `Followed` bound the dependencies `recurseDependencies` collects from both sides:
  by what an equation refers to, and by what it leads to (`Lead`, the least set closed under
  references).
- `Folded` says what one level of recursion and the dependencies folded in before give for the
  equations already visited. `ShortCycles` turns it into the absence of cycles of up to three
  equations: one of three in a circle refers to an equation visited before it, whose dependencies
  contain what the third one refers to and are folded in. In a circle of four this need not reach
  round: `CyclesReported` of section 3 does not hold.
- `Stuck` says of every equation the reordering leaves over that it leads to something that is not
  evaluable. For the converse of the marks, `EvaluableAreMarked` takes, of the equations that should
  have been marked and were not, one that leads to fewest variables; the one it waits for leads
  to fewer.

`reorderEquations` compares two counts, and `ReadyMeans` shows by cardinalities that they are
equal just when every dependency that is not generated is defined, because no equation defines
a generated variable.

**TransientProofs.** One inductive invariant gives type correctness, `StepsMatch` (every
recorded step is the distance of the solutions around it), `CurrentFollows`,
`OnlyAcceptedStay` and `HistorySuffices`. A rejected or failed turn has overwritten slot 0
of both rings and nothing else, an accepted one moves the position, so lemmas about the
ring (`RejectedKeepsRing`, `AcceptedShiftsRing`) carry the argument; the invariant speaks of
slot 0 only where a turn has left a solution in it. `Refinement` uses the same lemmas to
show that the rings implement `StepHistory`, for every number of slots above two.
`StoredNearPoint` is about the dataset and assumes `Raster`: requested points at least the largest
step apart, as the default of that limit makes them (`trsolver.cpp:788`), none between zero and
that step, and a first step of at most half of it. The property alone
says nothing about a point before it is stored. The invariant `Near` says that the corrector is
always less than the smallest step ahead of the point, and that a step size waits to be
restored (`stepDelta`) only when the point is reached, since `adjustDelta` restores it without
looking at the next one.

**SchematicDocProofs.** `StackPositions`: for any limits, both positions stay on their stacks
until an entry is made while the limit is zero. `NothingUnrecorded`: while `intact` and the
positions are on the stacks, the current entries are what is on the screen.
`NothingLost`: under the same conditions, an unchanged document has its circuit and its symbol's drawing
in the file (`CircuitSaved` and `SavedAtZero` of section 3 show that the conditions are needed). Undo decides by the marks of two entries, so the
invariant says what a mark on *any* entry promises (`ActionMarks`, `SymbolMarks`) and that an
unchanged document is at a pair of marks (`AtMarks`).

**DocumentsProofs.** `NamesAreUnique`, `FilesAreKept` and `SelectedAreSaved`, for any
sets of documents, names, spellings and contents. None of the three is inductive. `Sound` says of
the documents, the files and the tabs together that no document has two tabs, that two open
documents have the same name only if both are `shared` (`Distinct`), and that the file of a
document that is not is the one it last read or wrote (`Stored`); the second part is needed for
the third, because saving one document must not overwrite another's file. While the save dialog
saves and nothing has failed, `SelectedInFile` says that every named document selected and no
longer waiting, with a file of its own, is in its file. A save of an untitled document there gives
the current document a new name and must not disturb that, which again follows from unique names.

**EnvironmentsProofs.** `SharedCheckerIsOurs` and `InstancesHaveOwnValues`, for every
hierarchy with levels. The types on the call stack are of different levels, so no instance
evaluated below a call can overwrite the shared equations of the call (`Calls`). For the values,
`Progress` says which instances are still to be visited: those in every set that contains the
ones waiting on the stack and is closed under children. All others have their values, and
when the stack is empty nobody waits.

**Only model-checked:** the liveness properties (`RunEnds`, `Ends`), which need fairness and are
beyond TLAPS; `NearestButLast`, about what a recursive function computes, which would take
an induction over data; everything in `SPReduce`, with the refinement `ImplementsReduction`, and
in `AnalysisOrder`, whose operations are folds and filters over lists, again inductions over
data. `EndsOnce` and `ReportIsFinal` of `SimMessage` have no proof yet.

## 5. What is not modelled

Floating-point numerics, device equations, geometry, drawing and the generated parsers are
out of reach of these tools and are represented by free choices where a module meets them.
`PROJECT.json` lists every part with its reason. The models do not include what the
dataset contains beyond lengths and order, contents of the shared netlist file, and failing
allocations.

## 6. Plan

In this order:

1. The interface for external programs (`interface/`) as a variant of `Transient`, with
   `history::truncate`.
2. `HBFrequencies` (`hbsolver.cpp`): collecting and expanding frequencies, splitting the circuit.
3. Solutions stored and recalled between sweep points (`nasolver.cpp`), composed with
   `AnalysisOrder` and `DCSolver`.
4. Text documents in `Documents`; imports, exports and the Octave window after `SimMessage`.
5. Wires and nodes of a schematic: splitting and joining keeps what is connected.

Theorems to add: `EndsOnce` and `ReportIsFinal` of `SimMessage`, for any number of dialogs.
