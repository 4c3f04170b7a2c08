---------------------------- MODULE SchematicDoc ----------------------------
(***************************************************************************)
(* One schematic document of the editor: its circuit, its subcircuit       *)
(* symbol, the two undo stacks, the "changed" flag and the file it is      *)
(* saved to (class Schematic).                                             *)
(*                                                                         *)
(* A circuit is represented by its drawing and by the numbers of its port  *)
(* components, a symbol by its drawing and by where its port symbols are.  *)
(* Properties of the document that are not part of the undo entries (grid, *)
(* frame, data set names) are one value, settings.                         *)
(*                                                                         *)
(* A limit of zero leaves a stack empty, with its position before the      *)
(* first entry.  What the code then reads there is undefined: such a step  *)
(* is taken as the end of the program and has no action.                   *)
(***************************************************************************)
EXTENDS Integers, Sequences

CONSTANTS
  Drawings,       \* the drawings a circuit may consist of
  Blank,          \* the empty one
  Ports,          \* port numbers
  Settings,       \* document settings
  Limits          \* values the user gives QucsSettings.maxUndo

ASSUME ContentAssumption == Blank \in Drawings /\ Settings # {}

ASSUME LimitsAssumption == Limits \subseteq Nat

VARIABLES
  doc,            \* the circuit
  sym,            \* the symbol (SymbolPaints)
  settings,
  undoAction,     \* undo stack of the circuit
  undoActionIdx,
  undoSymbol,     \* undo stack of the symbol
  undoSymbolIdx,
  symbolMode,     \* is the symbol being edited?
  DocChanged,
  maxUndo,        \* QucsSettings.maxUndo
  undoEnabled,    \* is the undo button enabled?
  redoEnabled,
  file,           \* what was last saved or loaded
  intact          \* history: since the last successful load no load failed and
                  \* no optimization ended while the symbol was edited

docVars == <<doc, sym, settings>>
stackVars == <<undoAction, undoActionIdx, undoSymbol, undoSymbolIdx>>
menuVars == <<undoEnabled, redoEnabled>>
vars == <<docVars, stackVars, symbolMode, DocChanged, maxUndo, menuVars, file, intact>>

-----------------------------------------------------------------------------
(* Circuits and symbols. *)

Circuits == [draw : Drawings, ports : SUBSET Ports]

\* A symbol has no drawing at all, one without the component's name (bare),
\* the box the program makes, or one drawn from it.  A port symbol is where the
\* program puts it, or moved by the user.
Symbols == {s \in [draw : {"none", "bare", "box", "drawn"},
                    ports : SUBSET Ports, moved : SUBSET Ports] : s.moved \subseteq s.ports}

HasName(s) == s.draw \in {"box", "drawn"}

NoCircuit == [draw |-> Blank, ports |-> {}]
NoSymbol == [draw |-> "none", ports |-> {}, moved |-> {}]

Files == [doc : Circuits, sym : Symbols, settings : Settings]

\* Port symbols follow the ports of the circuit.
adjustPortNumbers(s, c) ==
  [s EXCEPT !.ports = c.ports, !.moved = @ \cap c.ports]

-----------------------------------------------------------------------------
(* Undo stacks. *)

\* An entry; mark is the 'i' of an unchanged document.
Entry(op, mark, val) == [op |-> op, mark |-> mark, val |-> val]

\* The entries up to the current one.
Truncate(stack, idx) == SubSeq(stack, 1, idx + 1)

\* Only one entry for successive marker moves.
Merge(stack, op) ==
  IF op = "m" /\ stack[Len(stack)].op = "m"
    THEN SubSeq(stack, 1, Len(stack) - 1)
    ELSE stack

AtLimit(stack) == IF Len(stack) >= maxUndo THEN Len(stack) - maxUndo + 1 ELSE 0

\* How many of the oldest entries exceed the limit.
Excess(stack) == IF Len(stack) > maxUndo THEN Len(stack) - maxUndo ELSE 0

DropNewest(stack) == SubSeq(stack, 1, Len(stack) - Excess(stack))

Limit(stack) == SubSeq(stack, Excess(stack) + 1, Len(stack))

\* The stack after putting an entry on it; the entry is the current one.
Push(stack, idx, e) == Limit(Append(Merge(Truncate(stack, idx), e.op), e))

\* setChanged (true, true, Op) in schematic edit mode, for circuit c.
PushAction(op, c) ==
  /\ DocChanged' = TRUE
  /\ undoAction' = Push(undoAction, undoActionIdx, Entry(op, FALSE, c))
  /\ undoActionIdx' = Len(undoAction') - 1
  /\ undoEnabled' = TRUE
  /\ redoEnabled' = FALSE
  /\ UNCHANGED <<undoSymbol, undoSymbolIdx>>

\* setChanged (true, true) in symbol edit mode, for symbol s.
PushSymbol(s) ==
  /\ DocChanged' = TRUE
  /\ undoSymbol' = Push(undoSymbol, undoSymbolIdx, Entry("*", FALSE, s))
  /\ undoSymbolIdx' = Len(undoSymbol') - 1
  /\ undoEnabled' = TRUE
  /\ redoEnabled' = FALSE
  /\ UNCHANGED <<undoAction, undoActionIdx>>

\* The buttons as they are set when a stack's position changes.
UpdateMenu(idx, stack) ==
  /\ undoEnabled' = (idx # 0)
  /\ redoEnabled' = (idx # Len(stack) - 1)

-----------------------------------------------------------------------------
\* A new document.
Init ==
  /\ settings \in Settings
  /\ doc = NoCircuit /\ sym = NoSymbol
  /\ file = [doc |-> doc, sym |-> sym, settings |-> settings]
  /\ undoAction = <<Entry(" ", TRUE, doc)>> /\ undoActionIdx = 0
  /\ undoSymbol = <<Entry(" ", TRUE, sym)>> /\ undoSymbolIdx = 0
  /\ symbolMode = FALSE
  /\ DocChanged = FALSE
  /\ undoEnabled = FALSE /\ redoEnabled = FALSE
  /\ maxUndo \in Limits
  /\ intact = TRUE

\* A file is opened, or reloaded because another program modified it.  The
\* editor writes files whose port symbols are those of the circuit.  The entries
\* are marked after they were limited, so there must be some.
LoadDocument ==
  /\ maxUndo # 0
  /\ \E c \in Circuits, s \in Symbols, t \in Settings :
       file' = [doc |-> c, sym |-> adjustPortNumbers(s, c), settings |-> t]
  /\ doc' = file'.doc /\ sym' = file'.sym /\ settings' = file'.settings
  /\ undoAction' = Limit(<<Entry("*", TRUE, doc')>>) /\ undoActionIdx' = 0
  /\ undoSymbol' = Limit(<<Entry("*", TRUE, sym')>>) /\ undoSymbolIdx' = 0
  /\ symbolMode' = FALSE
  /\ DocChanged' = FALSE
  /\ UpdateMenu(undoActionIdx', undoAction')
  /\ intact' = TRUE
  /\ UNCHANGED maxUndo

\* The file cannot be read to its end: what was read replaces the document.
LoadFailure ==
  /\ doc' \in Circuits /\ sym' \in Symbols /\ settings' \in Settings
  /\ intact' = FALSE
  /\ UNCHANGED <<stackVars, symbolMode, DocChanged, maxUndo, menuVars, file>>

load == LoadDocument \/ LoadFailure

\* The circuit is edited.
EditCircuit ==
  /\ ~symbolMode
  /\ doc' \in Circuits
  /\ PushAction("*", doc')
  /\ UNCHANGED <<sym, settings, symbolMode, maxUndo, file, intact>>

\* A diagram's marker is moved; the last entry is read.
MoveMarker ==
  /\ ~symbolMode
  /\ undoAction # <<>>
  /\ doc' \in {c \in Circuits : c.ports = doc.ports}
  /\ PushAction("m", doc')
  /\ UNCHANGED <<sym, settings, symbolMode, maxUndo, file, intact>>

\* The symbol is edited; port symbols and the name can be moved, not deleted.
EditSymbol ==
  /\ symbolMode
  /\ sym' \in {s \in Symbols :
                 /\ HasName(s) = HasName(sym)
                 /\ s.ports = sym.ports
                 /\ sym.moved \subseteq s.moved}
  /\ PushSymbol(sym')
  /\ UNCHANGED <<doc, settings, symbolMode, maxUndo, file, intact>>

\* A finished optimization writes its results into the circuit, which may be
\* hidden behind its symbol by then.
OptimizationDone ==
  /\ doc' \in {c \in Circuits : c.ports = doc.ports}
  /\ IF symbolMode THEN PushSymbol(sym) ELSE PushAction("*", doc')
  /\ intact' = (intact /\ ~symbolMode)
  /\ UNCHANGED <<sym, settings, symbolMode, maxUndo, file>>

\* The document settings are changed in their dialog.
SettingsDialog ==
  /\ settings' \in Settings \ {settings}
  /\ DocChanged' = TRUE
  /\ UNCHANGED <<doc, sym, stackVars, symbolMode, maxUndo, menuVars, file, intact>>

\* A symbol that consists of its port symbols only is replaced by a box.
createSubcircuitSymbol(s) ==
  IF s.draw = "none" THEN [draw |-> "box", ports |-> s.ports, moved |-> {}] ELSE s

\* The document is shown in the given mode.
becomeCurrent(mode) ==
  /\ symbolMode' = mode
  /\ sym' = IF mode THEN createSubcircuitSymbol(adjustPortNumbers(sym, doc)) ELSE sym
  /\ IF sym'.draw # sym.draw
       THEN /\ DocChanged' = TRUE
            /\ undoSymbol' = Push(undoSymbol, undoSymbolIdx, Entry("*", FALSE, sym'))
            /\ undoSymbolIdx' = Len(undoSymbol') - 1
       ELSE UNCHANGED <<DocChanged, undoSymbol, undoSymbolIdx>>
  /\ IF mode THEN UpdateMenu(undoSymbolIdx', undoSymbol')
             ELSE UpdateMenu(undoActionIdx, undoAction)
  /\ UNCHANGED <<doc, settings, undoAction, undoActionIdx, maxUndo, file, intact>>

\* Switch between the circuit and its symbol.
slotSymbolEdit == becomeCurrent(~symbolMode)

\* The user comes back to the document from another one.
slotChangeView == becomeCurrent(symbolMode)

-----------------------------------------------------------------------------
(* Undo and redo. *)

OneMark(a, s) == a.mark \/ s.mark

\* The document counts as unchanged when both stacks are at their marks.
BothMarked(a, s) == a.mark /\ s.mark

\* The current entries; without any symbol entries the mark of the circuit decides.
CurrentAction == undoAction[undoActionIdx + 1]
CurrentSymbol ==
  IF undoSymbol = <<>> THEN Entry(" ", TRUE, NoSymbol) ELSE undoSymbol[undoSymbolIdx + 1]

\* Go to entry i of the symbol's stack.  The circuit's is read at a mark only.
GoToSymbol(i) ==
  /\ undoSymbol # <<>>
  /\ undoSymbolIdx' = i
  /\ sym' = adjustPortNumbers(undoSymbol[i + 1].val, doc)
  /\ IF undoAction = <<>>
       THEN ~undoSymbol[i + 1].mark /\ DocChanged' = TRUE
       ELSE DocChanged' = ~BothMarked(CurrentAction, undoSymbol[i + 1])
  /\ UpdateMenu(i, undoSymbol)
  /\ UNCHANGED <<doc, undoActionIdx>>

\* Go to entry i of the circuit's stack.
GoToAction(i) ==
  /\ undoAction # <<>>
  /\ undoActionIdx' = i
  /\ doc' = undoAction[i + 1].val
  /\ DocChanged' = ~BothMarked(undoAction[i + 1], CurrentSymbol)
  /\ UpdateMenu(i, undoAction)
  /\ UNCHANGED <<sym, undoSymbolIdx>>

undo ==
  /\ \/ symbolMode /\ undoSymbolIdx # 0 /\ GoToSymbol(undoSymbolIdx - 1)
     \/ ~symbolMode /\ undoActionIdx # 0 /\ GoToAction(undoActionIdx - 1)
  /\ UNCHANGED <<settings, undoAction, undoSymbol, symbolMode, maxUndo, file, intact>>

redo ==
  /\ \/ symbolMode /\ undoSymbolIdx # Len(undoSymbol) - 1 /\ GoToSymbol(undoSymbolIdx + 1)
     \/ ~symbolMode /\ undoActionIdx # Len(undoAction) - 1 /\ GoToAction(undoActionIdx + 1)
  /\ UNCHANGED <<settings, undoAction, undoSymbol, symbolMode, maxUndo, file, intact>>

-----------------------------------------------------------------------------
\* Only the current entry is in the state of being unchanged.
Remark(stack, idx) == [i \in DOMAIN stack |-> [stack[i] EXCEPT !.mark = (i = idx + 1)]]

\* The port symbols are adjusted even when the file cannot be written.  When it
\* was, the current entries are marked, so there must be some.
save ==
  /\ sym' = adjustPortNumbers(sym, doc)
  /\ \/ UNCHANGED <<file, DocChanged, undoAction, undoSymbol>>
     \/ /\ undoAction # <<>> /\ undoSymbol # <<>>
        /\ file' = [doc |-> doc, sym |-> sym', settings |-> settings]
        /\ DocChanged' = FALSE
        /\ undoAction' = Remark(undoAction, undoActionIdx)
        /\ undoSymbol' = Remark(undoSymbol, undoSymbolIdx)
  /\ UNCHANGED <<doc, settings, undoActionIdx, undoSymbolIdx, symbolMode, maxUndo,
                 menuVars, intact>>

\* The user changes the length of the undo stacks; they are cut when used next.
QucsSettingsDialog ==
  /\ maxUndo' \in Limits \ {maxUndo}
  /\ UNCHANGED <<docVars, stackVars, symbolMode, DocChanged, menuVars, file, intact>>

Next ==
  \/ load \/ save
  \/ EditCircuit \/ MoveMarker \/ EditSymbol \/ OptimizationDone
  \/ SettingsDialog \/ QucsSettingsDialog
  \/ slotSymbolEdit \/ slotChangeView
  \/ undo \/ redo

Spec == Init /\ [][Next]_vars

-----------------------------------------------------------------------------
(* Properties. *)

Entries(S) == [op : {" ", "*", "m"}, mark : BOOLEAN, val : S]

\* The types of the state: both stacks hold whole documents, each with the flag
\* of the edit and the mark of the saved entry (Schematic::setChanged, save).
TypeOK ==
  /\ doc \in Circuits /\ sym \in Symbols /\ settings \in Settings
  /\ undoAction \in Seq(Entries(Circuits))
  /\ undoSymbol \in Seq(Entries(Symbols))
  /\ undoActionIdx \in Int /\ undoSymbolIdx \in Int
  /\ symbolMode \in BOOLEAN /\ DocChanged \in BOOLEAN
  /\ maxUndo \in Limits
  /\ undoEnabled \in BOOLEAN /\ redoEnabled \in BOOLEAN
  /\ file \in Files
  /\ intact \in BOOLEAN

\* Both positions are on their stacks, where save, undo and redo read them.
IndexInRange ==
  /\ undoActionIdx \in 0 .. Len(undoAction) - 1
  /\ undoSymbolIdx \in 0 .. Len(undoSymbol) - 1

\* "maxUndo could be decreased meanwhile": however setChanged cuts the stacks to a
\* limit that is now far below their positions, and whatever undo, redo and
\* failing loads do, the positions are taken off the stacks by nothing but an
\* entry that is made while the limit is zero.
RangeKept == [][IndexInRange /\ maxUndo # 0 => IndexInRange']_vars

\* The current entries hold what is on the screen.
ScreenIsEntry ==
  /\ undoAction[undoActionIdx + 1].val = doc
  /\ undoSymbol[undoSymbolIdx + 1].val.draw = sym.draw

\* Unless a load failed or an optimization ended behind the symbol, the current
\* entries of the undo stacks hold what is on the screen, so that undo and redo
\* over an entry lose nothing (apart from the port symbols, which follow the
\* circuit); also after a limit of zero, once there are entries again.
EntryIsDocument == intact /\ IndexInRange => ScreenIsEntry

\* With the same exceptions, a document that does not count as changed has its
\* circuit and the drawing of its symbol in its file: closing it without a
\* question loses neither, whatever was edited, undone, saved and cut off at
\* the limit before.
UnchangedIsSaved ==
  intact /\ IndexInRange /\ ~DocChanged => doc = file.doc /\ sym.draw = file.sym.draw

\* "The 'i' means state for being unchanged": the same while the limit of zero has
\* left a stack empty.
\* Not kept by the code: README, section 3.
SavedAtZero == intact /\ ~DocChanged => doc = file.doc /\ sym.draw = file.sym.draw

\* "The 'i' means state for being unchanged": the circuit of an unchanged
\* document is in its file, also after a load that failed or an optimization that
\* ended while the symbol was edited.
\* Not kept by the code: README, section 3.
CircuitSaved == ~DocChanged => doc = file.doc

\* "The 'i' means state for being unchanged": the same for the settings.
\* Not kept by the code: README, section 3.
SettingsSaved == intact /\ ~DocChanged => settings = file.settings

\* "The 'i' means state for being unchanged": the same for the placement of the
\* symbol's ports once the user has moved them.
\* Not kept by the code: README, section 3.
PlacementSaved ==
  intact /\ ~DocChanged => file.sym.moved \subseteq sym.moved
=============================================================================
