------------------------- MODULE SchematicDocProofs -------------------------
(***************************************************************************)
(* A schematic that counts as unchanged is in its file, for every set of   *)
(* drawings, ports, settings and limits of the undo stacks.                *)
(*                                                                         *)
(* UnchangedIsSaved is not inductive: undo decides from the marks of two   *)
(* entries.  ActionMarks and SymbolMarks say what a mark, on any entry,    *)
(* promises; AtMarks that an unchanged document is at a pair of marked     *)
(* entries.  A limit of zero may leave either stack empty: the invariant   *)
(* speaks of each stack by itself, and of a pair while there is one.       *)
(***************************************************************************)
EXTENDS SchematicDoc, SequenceTheorems, TLAPS

ActionMarks ==
  \A i \in 1 .. Len(undoAction) : undoAction[i].mark => undoAction[i].val = file.doc

SymbolMarks ==
  \A i \in 1 .. Len(undoSymbol) :
    undoSymbol[i].mark => undoSymbol[i].val.draw = file.sym.draw

AtMarks ==
  undoAction # <<>> /\ undoSymbol # <<>> /\ ~DocChanged =>
    BothMarked(undoAction[undoActionIdx + 1], undoSymbol[undoSymbolIdx + 1])

\* The current entries, where there are any, hold what is on the screen.
ScreenAction == undoAction # <<>> => undoAction[undoActionIdx + 1].val = doc
ScreenSymbol == undoSymbol # <<>> => undoSymbol[undoSymbolIdx + 1].val.draw = sym.draw

\* A position is that of an entry, or before the first one of an empty stack.
OnStack(idx, stack) ==
  idx \in -1 .. Len(stack) - 1 /\ (idx = -1 => stack = <<>>)

\* The part of the invariant about the shape of the stacks.
Shape ==
  TypeOK /\ OnStack(undoActionIdx, undoAction) /\ OnStack(undoSymbolIdx, undoSymbol)

\* The same, part by part: what the actions change separately.
DocType == doc \in Circuits /\ sym \in Symbols /\ settings \in Settings

ActionStack ==
  /\ undoAction \in Seq(Entries(Circuits))
  /\ OnStack(undoActionIdx, undoAction)
  /\ undoActionIdx \in Int

SymbolStack ==
  /\ undoSymbol \in Seq(Entries(Symbols))
  /\ OnStack(undoSymbolIdx, undoSymbol)
  /\ undoSymbolIdx \in Int

Flags ==
  /\ symbolMode \in BOOLEAN /\ DocChanged \in BOOLEAN
  /\ undoEnabled \in BOOLEAN /\ redoEnabled \in BOOLEAN

Surroundings == maxUndo \in Limits /\ file \in Files /\ intact \in BOOLEAN

\* The part about what is on them.
Content == ScreenAction /\ ScreenSymbol /\ ActionMarks /\ SymbolMarks /\ AtMarks

-----------------------------------------------------------------------------
(* The undo stacks. *)

\* Cutting a stack to the limit keeps its newest entries.
LEMMA LimitKeepsLast ==
  ASSUME NEW E, NEW s \in Seq(E), s # <<>>, maxUndo \in Nat
  PROVE  /\ Limit(s) \in Seq(E)
         /\ Len(Limit(s)) \in 0 .. Len(s)
         /\ maxUndo # 0 => Len(Limit(s)) # 0
         /\ Len(Limit(s)) # 0 => Limit(s)[Len(Limit(s))] = s[Len(s)]
         /\ \A i \in 1 .. Len(Limit(s)) : \E j \in 1 .. Len(s) : Limit(s)[i] = s[j]
<1> DEFINE k == Excess(s)
<1>1. Len(s) \in Nat /\ Len(s) >= 1
  OBVIOUS
<1>2. k \in Nat /\ k <= Len(s) /\ (maxUndo # 0 => k # Len(s))
  BY <1>1 DEF Excess
<1>3. \A i \in k + 1 .. Len(s) : s[i] \in E
  BY <1>1, <1>2
<1> HIDE DEF k
<1>4. /\ SubSeq(s, k + 1, Len(s)) \in Seq(E)
      /\ Len(SubSeq(s, k + 1, Len(s))) = IF k + 1 <= Len(s) THEN Len(s) - (k + 1) + 1 ELSE 0
      /\ \A i \in 1 .. Len(s) - (k + 1) + 1 : SubSeq(s, k + 1, Len(s))[i] = s[(k + 1) + i - 1]
  <2>1. k + 1 \in Int /\ Len(s) \in Int
    BY <1>1, <1>2
  <2>2. QED
    BY <1>3, <2>1, SubSeqProperties
<1>5. Limit(s) = SubSeq(s, k + 1, Len(s))
  BY DEF Limit, k
<1>6. Len(Limit(s)) = Len(s) - k
  BY <1>1, <1>2, <1>4, <1>5
<1>7. \A i \in 1 .. Len(s) - k : Limit(s)[i] = s[k + i]
  BY <1>1, <1>2, <1>4, <1>5
<1>8. Len(s) - k # 0 => Limit(s)[Len(s) - k] = s[Len(s)]
  BY <1>1, <1>2, <1>7
<1>9. \A i \in 1 .. Len(s) - k : k + i \in 1 .. Len(s)
  BY <1>1, <1>2
<1>10. QED
  BY <1>1, <1>2, <1>4, <1>5, <1>6, <1>7, <1>8, <1>9

\* Cutting off what could be redone, and the merged marker move, adds nothing.
LEMMA CutIsPart ==
  ASSUME NEW E, NEW s \in Seq(E), NEW idx, OnStack(idx, s), NEW op,
         op = "m" => s # <<>>
  PROVE  /\ Merge(Truncate(s, idx), op) \in Seq(E)
         /\ Len(Merge(Truncate(s, idx), op)) <= Len(s)
         /\ \A i \in 1 .. Len(Merge(Truncate(s, idx), op)) :
              Merge(Truncate(s, idx), op)[i] = s[i]
<1> DEFINE t == Truncate(s, idx)
<1>1. /\ t \in Seq(E)
      /\ Len(t) = idx + 1
      /\ \A i \in 1 .. idx + 1 : t[i] = s[i]
  <2>1. idx \in Int /\ idx >= -1 /\ idx + 1 <= Len(s) /\ Len(s) \in Nat
    BY DEF OnStack
  <2>2. \A i \in 1 .. idx + 1 : s[i] \in E
    BY <2>1
  <2>3. /\ SubSeq(s, 1, idx + 1) \in Seq(E)
        /\ Len(SubSeq(s, 1, idx + 1)) = IF 1 <= idx + 1 THEN (idx + 1) - 1 + 1 ELSE 0
        /\ \A i \in 1 .. (idx + 1) - 1 + 1 : SubSeq(s, 1, idx + 1)[i] = s[1 + i - 1]
    <3>1. 1 \in Int /\ idx + 1 \in Int
      BY <2>1
    <3>2. QED
      BY <2>2, <3>1, SubSeqProperties
  <2>4. QED
    BY <2>1, <2>3 DEF Truncate
<1>a. idx \in Int /\ idx >= -1 /\ idx + 1 <= Len(s) /\ Len(s) \in Nat
  BY DEF OnStack
<1> HIDE DEF t
<1>2. CASE Merge(t, op) = t
  BY <1>1, <1>2, <1>a DEF t
<1>3. CASE op = "m" /\ Merge(t, op) = SubSeq(t, 1, Len(t) - 1)
  <2>1. idx \in Nat /\ Len(t) - 1 = idx /\ idx <= Len(s) /\ Len(s) \in Nat
    BY <1>1, <1>3, <1>a DEF OnStack
  <2>2. \A i \in 1 .. idx : t[i] \in E
    BY <1>1, <2>1
  <2>3. /\ SubSeq(t, 1, idx) \in Seq(E)
        /\ Len(SubSeq(t, 1, idx)) = IF 1 <= idx THEN idx - 1 + 1 ELSE 0
        /\ \A i \in 1 .. idx - 1 + 1 : SubSeq(t, 1, idx)[i] = t[1 + i - 1]
    <3>1. 1 \in Int /\ idx \in Int
      BY <2>1
    <3>2. QED
      BY <2>2, <3>1, SubSeqProperties
  <2>4. Len(SubSeq(t, 1, idx)) = idx
    BY <2>1, <2>3
  <2>5. \A i \in 1 .. idx : SubSeq(t, 1, idx)[i] = s[i]
    BY <1>1, <2>1, <2>3
  <2>6. QED
    BY <1>3, <2>1, <2>3, <2>4, <2>5 DEF t
<1>4. QED
  BY <1>2, <1>3 DEF Merge, t

\* Stack t is empty or ends in entry e; every other entry of it is one of s.
Extends(E, s, e, t) ==
  /\ t \in Seq(E)
  /\ Len(t) \in Nat
  /\ Len(t) # 0 => t[Len(t)] = e
  /\ \A i \in 1 .. Len(t) : t[i] = e \/ \E j \in 1 .. Len(s) : t[i] = s[j]

\* A new entry is the last one, unless the limit is zero; every other entry was
\* there before.
LEMMA PushKeeps ==
  ASSUME NEW E, NEW s \in Seq(E), NEW idx, OnStack(idx, s), NEW e \in E,
         e.op = "m" => s # <<>>, maxUndo \in Nat
  PROVE  /\ Extends(E, s, e, Push(s, idx, e))
         /\ maxUndo # 0 => Len(Push(s, idx, e)) # 0
<1> DEFINE m == Merge(Truncate(s, idx), e.op)
           a == Append(m, e)
<1>1. /\ m \in Seq(E)
      /\ Len(m) <= Len(s)
      /\ \A i \in 1 .. Len(m) : m[i] = s[i]
  BY CutIsPart
<1> HIDE DEF m
<1>2. /\ a \in Seq(E) /\ Len(a) = Len(m) + 1 /\ Len(m) \in Nat
      /\ a[Len(m) + 1] = e
      /\ \A i \in 1 .. Len(m) : a[i] = m[i]
  BY <1>1
<1>3. a # <<>> /\ a[Len(a)] = e
  BY <1>2
<1> HIDE DEF a
<1>4. /\ Limit(a) \in Seq(E)
      /\ Len(Limit(a)) \in 0 .. Len(a)
      /\ maxUndo # 0 => Len(Limit(a)) # 0
      /\ Len(Limit(a)) # 0 => Limit(a)[Len(Limit(a))] = a[Len(a)]
      /\ \A i \in 1 .. Len(Limit(a)) : \E j \in 1 .. Len(a) : Limit(a)[i] = a[j]
  BY <1>2, <1>3, LimitKeepsLast
<1>5. \A j \in 1 .. Len(a) : a[j] = e \/ \E k \in 1 .. Len(s) : a[j] = s[k]
  <2>1. \A j \in 1 .. Len(a) : j = Len(m) + 1 \/ j \in 1 .. Len(m)
    BY <1>2
  <2>2. Len(s) \in Nat /\ \A j \in 1 .. Len(m) : j \in 1 .. Len(s)
    BY <1>1, <1>2
  <2>3. QED
    BY <1>1, <1>2, <2>1, <2>2
<1>6. Push(s, idx, e) = Limit(a)
  BY DEF Push, a, m
<1>7. Len(Limit(a)) \in Nat
  BY <1>2, <1>4
<1>8. \A i \in 1 .. Len(Limit(a)) :
        Limit(a)[i] = e \/ \E k \in 1 .. Len(s) : Limit(a)[i] = s[k]
  <2> TAKE i \in 1 .. Len(Limit(a))
  <2>1. PICK j \in 1 .. Len(a) : Limit(a)[i] = a[j]
    BY <1>4
  <2>2. a[j] = e \/ \E k \in 1 .. Len(s) : a[j] = s[k]
    BY <1>5
  <2>3. QED
    BY <2>1, <2>2
<1>9. Len(Limit(a)) # 0 => Limit(a)[Len(Limit(a))] = e
  BY <1>3, <1>4
<1> DEFINE r == Limit(a)
<1>10. /\ r \in Seq(E) /\ Len(r) \in Nat /\ (Len(r) # 0 => r[Len(r)] = e)
       /\ \A i \in 1 .. Len(r) : r[i] = e \/ \E k \in 1 .. Len(s) : r[i] = s[k]
  BY <1>4, <1>7, <1>8, <1>9
<1>11. Push(s, idx, e) = r /\ (maxUndo # 0 => Len(r) # 0)
  BY <1>4, <1>6
<1> HIDE DEF r
<1>12. Extends(E, s, e, r)
  BY <1>10, Zenon DEF Extends
<1>13. QED
  BY <1>11, <1>12, Zenon

\* A mark is a Boolean, also of the entry that is put on a stack.
LEMMA EntryType ==
  ASSUME NEW S, NEW v \in S, NEW op \in {" ", "*", "m"}, NEW b \in BOOLEAN
  PROVE  Entry(op, b, v) \in Entries(S)
BY Zenon DEF Entry, Entries

\* Cutting a stack of one entry leaves it.
LEMMA LimitOne ==
  ASSUME NEW e, maxUndo \in Nat \ {0}
  PROVE  Limit(<<e>>) = <<e>>
<1>1. <<e>> \in Seq({e}) /\ Len(<<e>>) = 1
  OBVIOUS
<1>2. Excess(<<e>>) = 0
  BY <1>1 DEF Excess
<1>3. SubSeq(<<e>>, 1, Len(<<e>>)) = <<e>>
  BY <1>1, SubSeqFull
<1>4. QED
  BY <1>2, <1>3 DEF Limit

-----------------------------------------------------------------------------
(* Circuits and symbols. *)

\* Adjusting the port symbols keeps a symbol's type and its drawing.
LEMMA AdjustedSymbol ==
  ASSUME NEW s \in Symbols, NEW c \in Circuits
  PROVE  /\ adjustPortNumbers(s, c) \in Symbols
         /\ adjustPortNumbers(s, c).draw = s.draw
BY DEF Symbols, Circuits, adjustPortNumbers

\* So does replacing an empty symbol by a box, which has a drawing.
LEMMA CreatedSymbol ==
  ASSUME NEW s \in Symbols
  PROVE  createSubcircuitSymbol(s) \in Symbols
BY DEF Symbols, createSubcircuitSymbol

\* The empty circuit and symbol.
LEMMA EmptyContent == NoCircuit \in Circuits /\ NoSymbol \in Symbols
BY ContentAssumption DEF NoCircuit, NoSymbol, Circuits, Symbols
-----------------------------------------------------------------------------
(* The shape of the stacks. *)

\* Recording circuit c makes it the current entry.
LEMMA RecordedCircuit ==
  ASSUME Shape, NEW c \in Circuits, NEW op \in {"*", "m"}, op = "m" => undoAction # <<>>,
         PushAction(op, c)
  PROVE  /\ undoAction' \in Seq(Entries(Circuits))
         /\ OnStack(undoActionIdx, undoAction)'
         /\ undoActionIdx' \in Int
         /\ maxUndo # 0 => undoActionIdx' \in 0 .. Len(undoAction') - 1
         /\ undoAction' # <<>> => undoAction'[undoActionIdx' + 1] = Entry(op, FALSE, c)
         /\ \A i \in 1 .. Len(undoAction') :
              \/ undoAction'[i] = Entry(op, FALSE, c)
              \/ \E j \in 1 .. Len(undoAction) : undoAction'[i] = undoAction[j]
<1> DEFINE e == Entry(op, FALSE, c)
           r == Push(undoAction, undoActionIdx, e)
<1>1. e \in Entries(Circuits) /\ e.op = op
  BY EntryType DEF Entry
<1>2. maxUndo \in Nat
  BY LimitsAssumption DEF Shape, TypeOK
<1>3. undoAction \in Seq(Entries(Circuits)) /\ OnStack(undoActionIdx, undoAction)
  BY DEF Shape, TypeOK
<1>4. undoAction' = r /\ undoActionIdx' = Len(undoAction') - 1
  BY DEF PushAction
<1> HIDE DEF e
<1>5. /\ r \in Seq(Entries(Circuits))
      /\ Len(r) \in Nat
      /\ maxUndo # 0 => Len(r) # 0
      /\ Len(r) # 0 => r[Len(r)] = e
      /\ \A i \in 1 .. Len(r) :
           r[i] = e \/ \E j \in 1 .. Len(undoAction) : r[i] = undoAction[j]
  <2>1. Extends(Entries(Circuits), undoAction, e, r) /\ (maxUndo # 0 => Len(r) # 0)
    BY <1>1, <1>2, <1>3, PushKeeps
  <2> HIDE DEF r
  <2>2. QED
    BY <2>1, Zenon DEF Extends
<1> HIDE DEF r
<1>6. /\ Len(r) - 1 \in -1 .. Len(r) - 1 /\ Len(r) - 1 \in Int
      /\ Len(r) - 1 = -1 => r = <<>>
      /\ r # <<>> => Len(r) # 0
      /\ maxUndo # 0 => Len(r) - 1 \in 0 .. Len(r) - 1
      /\ (Len(r) - 1) + 1 = Len(r)
  BY <1>5
<1>7. undoActionIdx' = Len(r) - 1
  BY <1>4
<1>8. /\ OnStack(undoActionIdx, undoAction)' /\ undoActionIdx' \in Int
      /\ maxUndo # 0 => undoActionIdx' \in 0 .. Len(undoAction') - 1
  BY <1>4, <1>6, <1>7 DEF OnStack
<1>9. undoAction' # <<>> => undoAction'[undoActionIdx' + 1] = e
  BY <1>4, <1>5, <1>6, <1>7
<1>10. \A i \in 1 .. Len(undoAction') :
         undoAction'[i] = e \/ \E j \in 1 .. Len(undoAction) : undoAction'[i] = undoAction[j]
  BY <1>4, <1>5
<1>11. QED
  BY <1>4, <1>5, <1>8, <1>9, <1>10 DEF e

\* Recording symbol s makes it the current entry.
LEMMA RecordedSymbol ==
  ASSUME Shape, NEW s \in Symbols,
         undoSymbol' = Push(undoSymbol, undoSymbolIdx, Entry("*", FALSE, s)),
         undoSymbolIdx' = Len(undoSymbol') - 1
  PROVE  /\ undoSymbol' \in Seq(Entries(Symbols))
         /\ OnStack(undoSymbolIdx, undoSymbol)'
         /\ undoSymbolIdx' \in Int
         /\ maxUndo # 0 => undoSymbolIdx' \in 0 .. Len(undoSymbol') - 1
         /\ undoSymbol' # <<>> => undoSymbol'[undoSymbolIdx' + 1] = Entry("*", FALSE, s)
         /\ \A i \in 1 .. Len(undoSymbol') :
              \/ undoSymbol'[i] = Entry("*", FALSE, s)
              \/ \E j \in 1 .. Len(undoSymbol) : undoSymbol'[i] = undoSymbol[j]
<1> DEFINE e == Entry("*", FALSE, s)
           r == Push(undoSymbol, undoSymbolIdx, e)
<1>1. e \in Entries(Symbols) /\ e.op = "*"
  BY EntryType DEF Entry
<1>2. maxUndo \in Nat
  BY LimitsAssumption DEF Shape, TypeOK
<1>3. undoSymbol \in Seq(Entries(Symbols)) /\ OnStack(undoSymbolIdx, undoSymbol)
  BY DEF Shape, TypeOK
<1>4. undoSymbol' = r /\ undoSymbolIdx' = Len(undoSymbol') - 1
  BY DEF e
<1> HIDE DEF e
<1>5. /\ r \in Seq(Entries(Symbols))
      /\ Len(r) \in Nat
      /\ maxUndo # 0 => Len(r) # 0
      /\ Len(r) # 0 => r[Len(r)] = e
      /\ \A i \in 1 .. Len(r) :
           r[i] = e \/ \E j \in 1 .. Len(undoSymbol) : r[i] = undoSymbol[j]
  <2>1. Extends(Entries(Symbols), undoSymbol, e, r) /\ (maxUndo # 0 => Len(r) # 0)
    BY <1>1, <1>2, <1>3, PushKeeps
  <2> HIDE DEF r
  <2>2. QED
    BY <2>1, Zenon DEF Extends
<1> HIDE DEF r
<1>6. /\ Len(r) - 1 \in -1 .. Len(r) - 1 /\ Len(r) - 1 \in Int
      /\ Len(r) - 1 = -1 => r = <<>>
      /\ r # <<>> => Len(r) # 0
      /\ maxUndo # 0 => Len(r) - 1 \in 0 .. Len(r) - 1
      /\ (Len(r) - 1) + 1 = Len(r)
  BY <1>5
<1>7. undoSymbolIdx' = Len(r) - 1
  BY <1>4
<1>8. /\ OnStack(undoSymbolIdx, undoSymbol)' /\ undoSymbolIdx' \in Int
      /\ maxUndo # 0 => undoSymbolIdx' \in 0 .. Len(undoSymbol') - 1
  BY <1>4, <1>6, <1>7 DEF OnStack
<1>9. undoSymbol' # <<>> => undoSymbol'[undoSymbolIdx' + 1] = e
  BY <1>4, <1>5, <1>6, <1>7
<1>10. \A i \in 1 .. Len(undoSymbol') :
         undoSymbol'[i] = e \/ \E j \in 1 .. Len(undoSymbol) : undoSymbol'[i] = undoSymbol[j]
  BY <1>4, <1>5
<1>11. QED
  BY <1>4, <1>5, <1>8, <1>9, <1>10 DEF e

\* A stack of one entry.
LEMMA OneEntry ==
  ASSUME NEW S, NEW x \in S
  PROVE  <<x>> \in Seq(S) /\ Len(<<x>>) = 1 /\ <<x>>[1] = x
OBVIOUS

\* A new document has the shape.
LEMMA InitShape == Init => Shape
<1> SUFFICES ASSUME Init PROVE Shape
  OBVIOUS
<1>1. doc \in Circuits /\ sym \in Symbols /\ settings \in Settings
  BY EmptyContent DEF Init
<1>2. Entry(" ", TRUE, doc) \in Entries(Circuits) /\ Entry(" ", TRUE, sym) \in Entries(Symbols)
  BY <1>1, EntryType
<1>3. /\ undoAction \in Seq(Entries(Circuits)) /\ Len(undoAction) = 1
      /\ undoSymbol \in Seq(Entries(Symbols)) /\ Len(undoSymbol) = 1
  <2>1. undoAction = <<Entry(" ", TRUE, doc)>> /\ undoSymbol = <<Entry(" ", TRUE, sym)>>
    BY DEF Init
  <2>2. QED
    BY <1>2, <2>1, OneEntry
<1>4. /\ symbolMode \in BOOLEAN /\ DocChanged \in BOOLEAN
      /\ undoEnabled \in BOOLEAN /\ redoEnabled \in BOOLEAN
      /\ intact \in BOOLEAN
  BY Zenon DEF Init
<1>5. file \in Files
  BY <1>1 DEF Init, Files
<1>6. undoActionIdx = 0 /\ undoSymbolIdx = 0 /\ maxUndo \in Limits
  BY DEF Init
<1>7. OnStack(undoActionIdx, undoAction) /\ OnStack(undoSymbolIdx, undoSymbol)
  BY <1>3, <1>6 DEF OnStack
<1>8. undoActionIdx \in Int /\ undoSymbolIdx \in Int
  BY <1>6
<1>9. QED
  BY <1>1, <1>3, <1>4, <1>5, <1>6, <1>7, <1>8, Zenon DEF Shape, TypeOK
\* The parts make up the whole, before and after a step.
LEMMA ShapeParts ==
  /\ Shape <=> DocType /\ ActionStack /\ SymbolStack /\ Flags /\ Surroundings
  /\ Shape' <=> DocType' /\ ActionStack' /\ SymbolStack' /\ Flags' /\ Surroundings'
BY Zenon DEF Shape, TypeOK, DocType, ActionStack, SymbolStack, Flags,
             Surroundings

\* Setting the buttons sets them to Booleans.
LEMMA MenuType ==
  ASSUME NEW i, NEW s, UpdateMenu(i, s)
  PROVE  undoEnabled' \in BOOLEAN /\ redoEnabled' \in BOOLEAN
BY Zenon DEF UpdateMenu

\* Loading a file keeps the shape.
LEMMA LoadShape ==
  ASSUME Shape, load
  PROVE  Shape'
<1>0. /\ ActionStack /\ SymbolStack /\ Flags /\ Surroundings
  BY ShapeParts
<1>1. CASE LoadDocument
  <2>1. PICK c \in Circuits, s \in Symbols, t \in Settings :
          file' = [doc |-> c, sym |-> adjustPortNumbers(s, c), settings |-> t]
    BY <1>1 DEF LoadDocument
  <2> DEFINE z == adjustPortNumbers(s, c)
  <2>2. z \in Symbols
    BY AdjustedSymbol
  <2>3. file' = [doc |-> c, sym |-> z, settings |-> t]
    BY <2>1
  <2> HIDE DEF z
  <2>4. file' \in Files
    BY <2>2, <2>3 DEF Files
  <2>5. doc' = c /\ sym' = z /\ settings' = t
    BY <1>1, <2>3 DEF LoadDocument
  <2>6. maxUndo \in Nat \ {0}
    BY <1>0, <1>1, LimitsAssumption DEF Surroundings, LoadDocument
  <2>7. undoAction' = <<Entry("*", TRUE, c)>> /\ undoSymbol' = <<Entry("*", TRUE, z)>>
    BY <1>1, <2>5, <2>6, LimitOne DEF LoadDocument
  <2>8. Entry("*", TRUE, c) \in Entries(Circuits) /\ Entry("*", TRUE, z) \in Entries(Symbols)
    BY <2>2, EntryType
  <2>9. /\ undoAction' \in Seq(Entries(Circuits)) /\ Len(undoAction') = 1
        /\ undoSymbol' \in Seq(Entries(Symbols)) /\ Len(undoSymbol') = 1
    BY <2>7, <2>8, OneEntry
  <2>10. undoActionIdx' = 0 /\ undoSymbolIdx' = 0
    BY <1>1 DEF LoadDocument
  <2>11. ActionStack' /\ SymbolStack'
    BY <2>9, <2>10 DEF ActionStack, SymbolStack, OnStack
  <2>12. Flags'
    <3>1. symbolMode' \in BOOLEAN /\ DocChanged' \in BOOLEAN
      BY <1>1, Zenon DEF LoadDocument
    <3>2. undoEnabled' \in BOOLEAN /\ redoEnabled' \in BOOLEAN
      BY <1>1, MenuType, Zenon DEF LoadDocument
    <3>3. QED
      BY <3>1, <3>2, Zenon DEF Flags
  <2>13. maxUndo' \in Limits /\ intact' \in BOOLEAN
    BY <1>0, <1>1, Zenon DEF LoadDocument, Surroundings
  <2>14. QED
    BY <2>2, <2>4, <2>5, <2>11, <2>12, <2>13, ShapeParts, Zenon DEF DocType, Surroundings
<1>2. CASE LoadFailure
  <2>1. DocType'
    BY <1>2 DEF LoadFailure, DocType
  <2>2. ActionStack' /\ SymbolStack'
    BY <1>0, <1>2, Zenon DEF LoadFailure, ActionStack, SymbolStack, stackVars
  <2>3. Flags' /\ Surroundings'
    BY <1>0, <1>2, Zenon DEF LoadFailure, Flags, Surroundings, menuVars
  <2>4. QED
    BY <2>1, <2>2, <2>3, ShapeParts, Zenon
<1>3. QED
  BY <1>1, <1>2 DEF load

\* Marking the current entry keeps a stack's type and length.
LEMMA RemarkType ==
  ASSUME NEW S, NEW s \in Seq(Entries(S)), NEW idx
  PROVE  /\ Remark(s, idx) \in Seq(Entries(S))
         /\ Len(Remark(s, idx)) = Len(s)
         /\ \A i \in 1 .. Len(s) : /\ Remark(s, idx)[i].mark = (i = idx + 1)
                                   /\ Remark(s, idx)[i].val = s[i].val
<1>1. DOMAIN s = 1 .. Len(s) /\ Len(s) \in Nat
  OBVIOUS
<1>2. \A i \in 1 .. Len(s) : s[i] \in Entries(S)
  OBVIOUS
<1>3. \A i \in 1 .. Len(s) : [s[i] EXCEPT !.mark = (i = idx + 1)] \in Entries(S)
  BY <1>2 DEF Entries
<1>4. Remark(s, idx) = [i \in 1 .. Len(s) |-> [s[i] EXCEPT !.mark = (i = idx + 1)]]
  BY <1>1 DEF Remark
<1>5. Remark(s, idx) \in Seq(Entries(S)) /\ Len(Remark(s, idx)) = Len(s)
  BY <1>1, <1>3, <1>4
<1>6. \A i \in 1 .. Len(s) : /\ [s[i] EXCEPT !.mark = (i = idx + 1)].mark = (i = idx + 1)
                             /\ [s[i] EXCEPT !.mark = (i = idx + 1)].val = s[i].val
  BY <1>2 DEF Entries
<1>7. QED
  BY <1>4, <1>5, <1>6
\* Saving keeps the shape, whether it succeeds or not.
LEMMA SaveShape ==
  ASSUME Shape, save
  PROVE  Shape'
<1>0. DocType /\ ActionStack /\ SymbolStack /\ Flags /\ Surroundings
  BY ShapeParts
<1> DEFINE z == adjustPortNumbers(sym, doc)
<1>1. z \in Symbols
  BY <1>0, AdjustedSymbol DEF DocType
<1>2. sym' = z /\ doc' = doc /\ settings' = settings
  BY DEF save
<1> HIDE DEF z
<1>3. DocType'
  BY <1>0, <1>1, <1>2 DEF DocType
<1>4. undoActionIdx' = undoActionIdx /\ undoSymbolIdx' = undoSymbolIdx /\ maxUndo' = maxUndo
  BY DEF save
<1>5. /\ undoEnabled' = undoEnabled /\ redoEnabled' = redoEnabled
      /\ symbolMode' = symbolMode /\ intact' = intact
  BY Zenon DEF save, menuVars
<1>6. CASE UNCHANGED <<file, DocChanged, undoAction, undoSymbol>>
  <2>1. ActionStack' /\ SymbolStack'
    BY <1>0, <1>4, <1>6, Zenon DEF ActionStack, SymbolStack
  <2>2. Flags' /\ Surroundings'
    BY <1>0, <1>4, <1>5, <1>6, Zenon DEF Flags, Surroundings
  <2>3. QED
    BY <1>3, <2>1, <2>2, ShapeParts, Zenon
<1>7. CASE /\ file' = [doc |-> doc, sym |-> sym', settings |-> settings]
           /\ DocChanged' = FALSE
           /\ undoAction' = Remark(undoAction, undoActionIdx)
           /\ undoSymbol' = Remark(undoSymbol, undoSymbolIdx)
  <2>1. file' \in Files
    BY <1>0, <1>1, <1>2, <1>7 DEF DocType, Files
  <2>2. /\ Remark(undoAction, undoActionIdx) \in Seq(Entries(Circuits))
        /\ Len(Remark(undoAction, undoActionIdx)) = Len(undoAction)
    BY <1>0, RemarkType DEF ActionStack
  <2>3. /\ Remark(undoSymbol, undoSymbolIdx) \in Seq(Entries(Symbols))
        /\ Len(Remark(undoSymbol, undoSymbolIdx)) = Len(undoSymbol)
    BY <1>0, RemarkType DEF SymbolStack
  <2>4. ActionStack'
    BY <1>0, <1>4, <1>7, <2>2 DEF ActionStack, OnStack
  <2>5. SymbolStack'
    BY <1>0, <1>4, <1>7, <2>3 DEF SymbolStack, OnStack
  <2>6. Flags' /\ Surroundings'
    BY <1>0, <1>4, <1>5, <1>7, <2>1, Zenon DEF Flags, Surroundings
  <2>7. QED
    BY <1>3, <2>4, <2>5, <2>6, ShapeParts, Zenon
<1>8. QED
  BY <1>6, <1>7, Zenon DEF save

\* A step that records circuit c keeps the shape.
LEMMA CircuitStepShape ==
  ASSUME Shape, NEW c \in Circuits, NEW op \in {"*", "m"}, doc' = c,
         op = "m" => undoAction # <<>>,
         PushAction(op, c), UNCHANGED <<sym, settings, symbolMode, maxUndo, file>>,
         intact' \in BOOLEAN
  PROVE  Shape'
<1>0. DocType /\ ActionStack /\ SymbolStack /\ Flags /\ Surroundings
  BY ShapeParts
<1>1. DocType'
  BY <1>0 DEF DocType
<1>2. ActionStack'
  BY RecordedCircuit, Zenon DEF ActionStack
<1>3. SymbolStack'
  BY <1>0, Zenon DEF SymbolStack, PushAction
<1>4. Flags'
  BY <1>0, Zenon DEF Flags, PushAction
<1>5. Surroundings'
  BY <1>0, Zenon DEF Surroundings
<1>6. QED
  BY <1>1, <1>2, <1>3, <1>4, <1>5, ShapeParts, Zenon

\* So does a step that records symbol s.
LEMMA SymbolStepShape ==
  ASSUME Shape, NEW s \in Symbols, sym' = s, doc' \in Circuits,
         PushSymbol(s), UNCHANGED <<settings, symbolMode, maxUndo, file>>,
         intact' \in BOOLEAN
  PROVE  Shape'
<1>0. DocType /\ ActionStack /\ SymbolStack /\ Flags /\ Surroundings
  BY ShapeParts
<1>1. DocType'
  BY <1>0 DEF DocType
<1>2. ActionStack'
  BY <1>0, Zenon DEF ActionStack, PushSymbol
<1>3. SymbolStack'
  <2>1. /\ undoSymbol' = Push(undoSymbol, undoSymbolIdx, Entry("*", FALSE, s))
        /\ undoSymbolIdx' = Len(undoSymbol') - 1
    BY DEF PushSymbol
  <2>2. QED
    BY <2>1, RecordedSymbol, Zenon DEF SymbolStack
<1>4. Flags'
  BY <1>0, Zenon DEF Flags, PushSymbol
<1>5. Surroundings'
  BY <1>0, Zenon DEF Surroundings
<1>6. QED
  BY <1>1, <1>2, <1>3, <1>4, <1>5, ShapeParts, Zenon

\* Showing the document keeps the shape.
LEMMA ShowShape ==
  ASSUME Shape, NEW mode \in BOOLEAN, becomeCurrent(mode)
  PROVE  Shape'
<1>0. DocType /\ ActionStack /\ SymbolStack /\ Flags /\ Surroundings
  BY ShapeParts
<1>1. PICK z \in Symbols : sym' = z
  <2>1. adjustPortNumbers(sym, doc) \in Symbols
    BY <1>0, AdjustedSymbol DEF DocType
  <2>2. createSubcircuitSymbol(adjustPortNumbers(sym, doc)) \in Symbols
    BY <2>1, CreatedSymbol
  <2>3. QED
    BY <1>0, <2>2, Zenon DEF becomeCurrent, DocType
<1>2. DocType'
  BY <1>0, <1>1, Zenon DEF becomeCurrent, DocType
<1>3. ActionStack'
  BY <1>0, Zenon DEF ActionStack, becomeCurrent
<1>4. SymbolStack' /\ DocChanged' \in BOOLEAN
  <2>1. CASE sym'.draw # sym.draw
    <3>1. /\ undoSymbol' = Push(undoSymbol, undoSymbolIdx, Entry("*", FALSE, z))
          /\ undoSymbolIdx' = Len(undoSymbol') - 1
          /\ DocChanged' = TRUE
      BY <1>1, <2>1, Zenon DEF becomeCurrent
    <3>2. QED
      BY <3>1, RecordedSymbol, Zenon DEF SymbolStack
  <2>2. CASE sym'.draw = sym.draw
    BY <1>0, <2>2, Zenon DEF becomeCurrent, SymbolStack, Flags
  <2>3. QED
    BY <2>1, <2>2
<1>5. undoEnabled' \in BOOLEAN /\ redoEnabled' \in BOOLEAN
  BY MenuType, Zenon DEF becomeCurrent
<1>6. symbolMode' \in BOOLEAN
  BY Zenon DEF becomeCurrent
<1>7. Surroundings'
  BY <1>0, Zenon DEF Surroundings, becomeCurrent
<1>8. QED
  BY <1>2, <1>3, <1>4, <1>5, <1>6, <1>7, ShapeParts, Zenon DEF Flags
\* Undo and redo go to an entry of the stack being edited.
LEMMA UndoRedoEntry ==
  ASSUME Shape, undo \/ redo
  PROVE  \E i \in Int :
           \/ symbolMode /\ GoToSymbol(i) /\ i \in 0 .. Len(undoSymbol) - 1
           \/ ~symbolMode /\ GoToAction(i) /\ i \in 0 .. Len(undoAction) - 1
<1>1. /\ undoAction # <<>> => undoActionIdx \in 0 .. Len(undoAction) - 1
      /\ undoSymbol # <<>> => undoSymbolIdx \in 0 .. Len(undoSymbol) - 1
      /\ Len(undoAction) \in Nat /\ Len(undoSymbol) \in Nat
  BY DEF Shape, TypeOK, OnStack
<1>2. CASE undo /\ symbolMode
  <2>1. undoSymbolIdx # 0 /\ GoToSymbol(undoSymbolIdx - 1)
    BY <1>2 DEF undo
  <2>2. undoSymbol # <<>>
    BY <2>1 DEF GoToSymbol
  <2>3. undoSymbolIdx - 1 \in 0 .. Len(undoSymbol) - 1 /\ undoSymbolIdx - 1 \in Int
    BY <1>1, <2>1, <2>2
  <2>4. QED
    BY <1>2, <2>1, <2>3, Zenon
<1>3. CASE undo /\ ~symbolMode
  <2>1. undoActionIdx # 0 /\ GoToAction(undoActionIdx - 1)
    BY <1>3 DEF undo
  <2>2. undoAction # <<>>
    BY <2>1 DEF GoToAction
  <2>3. undoActionIdx - 1 \in 0 .. Len(undoAction) - 1 /\ undoActionIdx - 1 \in Int
    BY <1>1, <2>1, <2>2
  <2>4. QED
    BY <1>3, <2>1, <2>3, Zenon
<1>4. CASE redo /\ symbolMode
  <2>1. undoSymbolIdx # Len(undoSymbol) - 1 /\ GoToSymbol(undoSymbolIdx + 1)
    BY <1>4 DEF redo
  <2>2. undoSymbol # <<>>
    BY <2>1 DEF GoToSymbol
  <2>3. undoSymbolIdx + 1 \in 0 .. Len(undoSymbol) - 1 /\ undoSymbolIdx + 1 \in Int
    BY <1>1, <2>1, <2>2
  <2>4. QED
    BY <1>4, <2>1, <2>3, Zenon
<1>5. CASE redo /\ ~symbolMode
  <2>1. undoActionIdx # Len(undoAction) - 1 /\ GoToAction(undoActionIdx + 1)
    BY <1>5 DEF redo
  <2>2. undoAction # <<>>
    BY <2>1 DEF GoToAction
  <2>3. undoActionIdx + 1 \in 0 .. Len(undoAction) - 1 /\ undoActionIdx + 1 \in Int
    BY <1>1, <2>1, <2>2
  <2>4. QED
    BY <1>5, <2>1, <2>3, Zenon
<1>6. QED
  BY <1>2, <1>3, <1>4, <1>5

\* Undo and redo keep the shape.
LEMMA UndoRedoShape ==
  ASSUME Shape, undo \/ redo
  PROVE  Shape'
<1>0. DocType /\ ActionStack /\ SymbolStack /\ Flags /\ Surroundings
  BY ShapeParts
<1>1. UNCHANGED <<settings, undoAction, undoSymbol, symbolMode, maxUndo, file, intact>>
  BY Zenon DEF undo, redo
<1>2. PICK i \in Int :
        \/ symbolMode /\ GoToSymbol(i) /\ i \in 0 .. Len(undoSymbol) - 1
        \/ ~symbolMode /\ GoToAction(i) /\ i \in 0 .. Len(undoAction) - 1
  BY UndoRedoEntry
<1>3. Surroundings'
  BY <1>0, <1>1, Zenon DEF Surroundings
<1>4. CASE symbolMode /\ GoToSymbol(i) /\ i \in 0 .. Len(undoSymbol) - 1
  <2>1. /\ undoSymbolIdx' = i /\ undoActionIdx' = undoActionIdx /\ doc' = doc
        /\ sym' = adjustPortNumbers(undoSymbol[i + 1].val, doc)
        /\ DocChanged' \in BOOLEAN
        /\ UpdateMenu(i, undoSymbol)
    BY <1>4, Zenon DEF GoToSymbol
  <2>2. undoSymbol[i + 1] \in Entries(Symbols)
    <3>1. i + 1 \in 1 .. Len(undoSymbol)
      BY <1>0, <1>2, <1>4 DEF SymbolStack
    <3>2. QED
      BY <1>0, <3>1 DEF SymbolStack
  <2>3. sym' \in Symbols
    <3>1. undoSymbol[i + 1].val \in Symbols
      BY <2>2 DEF Entries
    <3>2. QED
      BY <1>0, <2>1, <3>1, AdjustedSymbol DEF DocType
  <2>4. DocType'
    BY <1>0, <1>1, <2>1, <2>3, Zenon DEF DocType
  <2>5. ActionStack' /\ SymbolStack'
    BY <1>0, <1>1, <1>4, <2>1 DEF ActionStack, SymbolStack, OnStack
  <2>6. undoEnabled' \in BOOLEAN /\ redoEnabled' \in BOOLEAN
    BY <2>1, MenuType
  <2>7. Flags'
    BY <1>0, <1>1, <2>1, <2>6, Zenon DEF Flags
  <2>8. QED
    BY <1>3, <2>4, <2>5, <2>7, ShapeParts, Zenon
<1>5. CASE ~symbolMode /\ GoToAction(i) /\ i \in 0 .. Len(undoAction) - 1
  <2>1. /\ undoActionIdx' = i /\ undoSymbolIdx' = undoSymbolIdx /\ sym' = sym
        /\ doc' = undoAction[i + 1].val
        /\ DocChanged' \in BOOLEAN
        /\ UpdateMenu(i, undoAction)
    BY <1>5, Zenon DEF GoToAction
  <2>2. undoAction[i + 1] \in Entries(Circuits)
    <3>1. i + 1 \in 1 .. Len(undoAction)
      BY <1>0, <1>2, <1>5 DEF ActionStack
    <3>2. QED
      BY <1>0, <3>1 DEF ActionStack
  <2>3. doc' \in Circuits
    BY <2>1, <2>2 DEF Entries
  <2>4. DocType'
    BY <1>0, <1>1, <2>1, <2>3, Zenon DEF DocType
  <2>5. ActionStack' /\ SymbolStack'
    BY <1>0, <1>1, <1>5, <2>1 DEF ActionStack, SymbolStack, OnStack
  <2>6. undoEnabled' \in BOOLEAN /\ redoEnabled' \in BOOLEAN
    BY <2>1, MenuType
  <2>7. Flags'
    BY <1>0, <1>1, <2>1, <2>6, Zenon DEF Flags
  <2>8. QED
    BY <1>3, <2>4, <2>5, <2>7, ShapeParts, Zenon
<1>6. QED
  BY <1>2, <1>4, <1>5

\* Every step keeps the shape.
LEMMA StepShape ==
  ASSUME Shape, [Next]_vars
  PROVE  Shape'
<1>0. DocType /\ ActionStack /\ SymbolStack /\ Flags /\ Surroundings
  BY ShapeParts
<1>1. CASE load
  BY <1>1, LoadShape
<1>2. CASE save
  BY <1>2, SaveShape
<1>3. CASE EditCircuit
  <2>1. intact' \in BOOLEAN
    BY <1>0, <1>3, Zenon DEF EditCircuit, Surroundings
  <2>2. QED
    BY <1>3, <2>1, CircuitStepShape DEF EditCircuit
<1>4. CASE MoveMarker
  <2>1. intact' \in BOOLEAN
    BY <1>0, <1>4, Zenon DEF MoveMarker, Surroundings
  <2>2. QED
    BY <1>4, <2>1, CircuitStepShape DEF MoveMarker
<1>5. CASE EditSymbol
  <2>1. PICK s \in Symbols : sym' = s
    BY <1>5 DEF EditSymbol
  <2>2. PushSymbol(s) /\ UNCHANGED <<settings, symbolMode, maxUndo, file>> /\ doc' = doc
    BY <1>5, <2>1 DEF EditSymbol
  <2>3. intact' \in BOOLEAN
    BY <1>0, <1>5, Zenon DEF EditSymbol, Surroundings
  <2>4. QED
    BY <1>0, <2>1, <2>2, <2>3, SymbolStepShape DEF DocType
<1>6. CASE OptimizationDone
  <2>1. PICK c \in Circuits : doc' = c
    BY <1>6 DEF OptimizationDone
  <2>2. UNCHANGED <<sym, settings, symbolMode, maxUndo, file>>
    BY <1>6 DEF OptimizationDone
  <2>a. intact' \in BOOLEAN
    BY <1>6, Zenon DEF OptimizationDone
  <2>3. CASE symbolMode
    <3>1. PushSymbol(sym) /\ sym' = sym /\ sym \in Symbols
      BY <1>0, <1>6, <2>3 DEF OptimizationDone, DocType
    <3>2. QED
      BY <2>1, <2>2, <2>a, <3>1, SymbolStepShape
  <2>4. CASE ~symbolMode
    <3>1. PushAction("*", c)
      BY <1>6, <2>1, <2>4 DEF OptimizationDone
    <3>2. QED
      BY <2>1, <2>2, <2>a, <3>1, CircuitStepShape
  <2>5. QED
    BY <2>3, <2>4
<1>7. CASE SettingsDialog
  <2>1. DocType'
    BY <1>0, <1>7 DEF SettingsDialog, DocType
  <2>2. ActionStack' /\ SymbolStack'
    BY <1>0, <1>7, Zenon DEF SettingsDialog, ActionStack, SymbolStack, stackVars
  <2>3. Flags' /\ Surroundings'
    BY <1>0, <1>7, Zenon DEF SettingsDialog, Flags, Surroundings, menuVars
  <2>4. QED
    BY <2>1, <2>2, <2>3, ShapeParts, Zenon
<1>8. CASE QucsSettingsDialog
  <2>1. DocType'
    BY <1>0, <1>8, Zenon DEF QucsSettingsDialog, DocType, docVars
  <2>2. ActionStack' /\ SymbolStack'
    BY <1>0, <1>8, Zenon DEF QucsSettingsDialog, ActionStack, SymbolStack, stackVars
  <2>3. maxUndo' \in Limits
    BY <1>8 DEF QucsSettingsDialog
  <2>4. Flags' /\ Surroundings'
    BY <1>0, <1>8, <2>3, Zenon DEF QucsSettingsDialog, Flags, Surroundings, menuVars
  <2>5. QED
    BY <2>1, <2>2, <2>4, ShapeParts, Zenon
<1>9. CASE slotSymbolEdit
  <2>1. (~symbolMode) \in BOOLEAN
    BY Zenon
  <2>2. QED
    BY <1>9, <2>1, ShowShape, Zenon DEF slotSymbolEdit
<1>10. CASE slotChangeView
  BY <1>0, <1>10, ShowShape, Zenon DEF slotChangeView, Flags
<1>11. CASE undo \/ redo
  BY <1>11, UndoRedoShape
<1>12. CASE UNCHANGED vars
  BY <1>0, <1>12, ShapeParts, Zenon
     DEF vars, docVars, stackVars, menuVars, DocType, ActionStack, SymbolStack, Flags,
         Surroundings
<1>13. QED
  BY <1>1, <1>2, <1>3, <1>4, <1>5, <1>6, <1>7, <1>8, <1>9, <1>10, <1>11, <1>12, Zenon
     DEF Next
-----------------------------------------------------------------------------
(* What is on the stacks. *)

\* A new document is at its marks.
LEMMA InitContent == Init => Content
<1> SUFFICES ASSUME Init PROVE Content
  OBVIOUS
<1> DEFINE a == Entry(" ", TRUE, doc)
           b == Entry(" ", TRUE, sym)
<1>1. a.mark = TRUE /\ a.val = doc /\ b.mark = TRUE /\ b.val = sym
  BY DEF Entry
<1>2. undoAction = <<a>> /\ undoSymbol = <<b>> /\ undoActionIdx = 0 /\ undoSymbolIdx = 0
  BY DEF Init
<1>3. file.doc = doc /\ file.sym = sym
  BY DEF Init
<1> HIDE DEF a, b
<1>4. /\ Len(undoAction) = 1 /\ undoAction[1] = a
      /\ Len(undoSymbol) = 1 /\ undoSymbol[1] = b
  BY <1>2
<1>5. undoActionIdx + 1 = 1 /\ undoSymbolIdx + 1 = 1
  BY <1>2
<1>6. ScreenAction /\ ScreenSymbol
  BY <1>1, <1>4, <1>5 DEF ScreenAction, ScreenSymbol
<1>7. ActionMarks /\ SymbolMarks
  BY <1>1, <1>3, <1>4 DEF ActionMarks, SymbolMarks
<1>8. AtMarks
  BY <1>1, <1>4, <1>5, Zenon DEF AtMarks, BothMarked
<1>9. QED
  BY <1>6, <1>7, <1>8 DEF Content

\* So is one that was loaded.
LEMMA LoadContent ==
  ASSUME Shape, LoadDocument
  PROVE  Content'
<1>1. PICK c, z : doc' = c /\ sym' = z
  OBVIOUS
<1> DEFINE a == Entry("*", TRUE, c)
           b == Entry("*", TRUE, z)
<1>2. a.mark = TRUE /\ a.val = c /\ b.mark = TRUE /\ b.val = z
  BY DEF Entry
<1>3. maxUndo \in Nat \ {0}
  BY LimitsAssumption DEF Shape, TypeOK, LoadDocument
<1>4. undoAction' = <<a>> /\ undoSymbol' = <<b>>
  BY <1>1, <1>3, LimitOne DEF LoadDocument
<1>5. file'.doc = c /\ file'.sym = z
  BY <1>1 DEF LoadDocument
<1>6. undoActionIdx' = 0 /\ undoSymbolIdx' = 0
  BY DEF LoadDocument
<1> HIDE DEF a, b
<1>7. /\ Len(undoAction') = 1 /\ undoAction'[1] = a
      /\ Len(undoSymbol') = 1 /\ undoSymbol'[1] = b
  BY <1>4
<1>8. undoActionIdx' + 1 = 1 /\ undoSymbolIdx' + 1 = 1
  BY <1>6
<1>9. ScreenAction' /\ ScreenSymbol'
  BY <1>1, <1>2, <1>7, <1>8 DEF ScreenAction, ScreenSymbol
<1>10. ActionMarks' /\ SymbolMarks'
  BY <1>2, <1>5, <1>7 DEF ActionMarks, SymbolMarks
<1>11. AtMarks'
  BY <1>2, <1>7, <1>8, Zenon DEF AtMarks, BothMarked
<1>12. QED
  BY <1>9, <1>10, <1>11 DEF Content

\* A step that records circuit c, and leaves the symbol alone.
LEMMA CircuitStepContent ==
  ASSUME Shape, Content,
         NEW c \in Circuits, NEW op \in {"*", "m"}, doc' = c,
         op = "m" => undoAction # <<>>,
         PushAction(op, c), UNCHANGED <<sym, settings, symbolMode, maxUndo, file>>
  PROVE  Content'
<1> DEFINE e == Entry(op, FALSE, c)
<1>1. e.mark = FALSE /\ e.val = c
  BY DEF Entry
<1>2. /\ undoAction' # <<>> => undoAction'[undoActionIdx' + 1] = e
      /\ \A i \in 1 .. Len(undoAction') :
           undoAction'[i] = e \/ \E j \in 1 .. Len(undoAction) : undoAction'[i] = undoAction[j]
  BY RecordedCircuit
<1> HIDE DEF e
<1>3. undoSymbol' = undoSymbol /\ undoSymbolIdx' = undoSymbolIdx /\ DocChanged' = TRUE
  BY DEF PushAction
<1>4. ScreenAction' /\ ScreenSymbol'
  BY <1>1, <1>2, <1>3 DEF Content, ScreenAction, ScreenSymbol
<1>5. ActionMarks'
  <2>1. \A i \in 1 .. Len(undoAction') : undoAction'[i].mark => undoAction'[i].val = file.doc
    <3> TAKE i \in 1 .. Len(undoAction')
    <3>1. CASE undoAction'[i] = e
      BY <1>1, <3>1, Zenon
    <3>2. CASE \E j \in 1 .. Len(undoAction) : undoAction'[i] = undoAction[j]
      BY <3>2, Zenon DEF Content, ActionMarks
    <3>3. QED
      BY <1>2, <3>1, <3>2
  <2>2. QED
    BY <2>1, Zenon DEF ActionMarks
<1>6. SymbolMarks'
  BY <1>3, Zenon DEF Content, SymbolMarks
<1>7. AtMarks'
  BY <1>3, Zenon DEF AtMarks
<1>8. QED
  BY <1>4, <1>5, <1>6, <1>7, Zenon DEF Content

\* A step that records symbol s, and leaves the circuit alone.
LEMMA SymbolStepContent ==
  ASSUME Shape, Content,
         NEW s \in Symbols, sym' = s,
         undoSymbol' = Push(undoSymbol, undoSymbolIdx, Entry("*", FALSE, s)),
         undoSymbolIdx' = Len(undoSymbol') - 1,
         DocChanged' = TRUE, UNCHANGED <<doc, undoAction, undoActionIdx, file>>
  PROVE  Content'
<1> DEFINE e == Entry("*", FALSE, s)
<1>1. e.mark = FALSE /\ e.val = s
  BY DEF Entry
<1>2. /\ undoSymbol' # <<>> => undoSymbol'[undoSymbolIdx' + 1] = e
      /\ \A i \in 1 .. Len(undoSymbol') :
           undoSymbol'[i] = e \/ \E j \in 1 .. Len(undoSymbol) : undoSymbol'[i] = undoSymbol[j]
  BY RecordedSymbol
<1> HIDE DEF e
<1>3. ScreenAction' /\ ScreenSymbol'
  BY <1>1, <1>2 DEF Content, ScreenAction, ScreenSymbol
<1>4. SymbolMarks'
  <2>1. \A i \in 1 .. Len(undoSymbol') :
          undoSymbol'[i].mark => undoSymbol'[i].val.draw = file.sym.draw
    <3> TAKE i \in 1 .. Len(undoSymbol')
    <3>1. CASE undoSymbol'[i] = e
      BY <1>1, <3>1, Zenon
    <3>2. CASE \E j \in 1 .. Len(undoSymbol) : undoSymbol'[i] = undoSymbol[j]
      BY <3>2, Zenon DEF Content, SymbolMarks
    <3>3. QED
      BY <1>2, <3>1, <3>2
  <2>2. QED
    BY <2>1, Zenon DEF SymbolMarks
<1>5. ActionMarks'
  BY Zenon DEF Content, ActionMarks
<1>6. AtMarks'
  BY Zenon DEF AtMarks
<1>7. QED
  BY <1>3, <1>4, <1>5, <1>6, Zenon DEF Content
\* Saving: the current entries alone are marked, and they are what was saved.
LEMMA SaveContent ==
  ASSUME Shape, Content, save
  PROVE  Content'
<1>0. DocType /\ ActionStack /\ SymbolStack
  BY ShapeParts
<1>1. PICK z : sym' = z /\ z.draw = sym.draw
  BY <1>0, AdjustedSymbol DEF DocType, save
<1>2. doc' = doc /\ undoActionIdx' = undoActionIdx /\ undoSymbolIdx' = undoSymbolIdx
  BY DEF save
<1>3. CASE UNCHANGED <<file, DocChanged, undoAction, undoSymbol>>
  <2>1. ScreenAction' /\ ScreenSymbol'
    BY <1>1, <1>2, <1>3, Zenon DEF Content, ScreenAction, ScreenSymbol
  <2>2. ActionMarks' /\ SymbolMarks' /\ AtMarks'
    BY <1>2, <1>3, Zenon DEF Content, ActionMarks, SymbolMarks, AtMarks
  <2>3. QED
    BY <2>1, <2>2, Zenon DEF Content
<1>4. CASE /\ undoAction # <<>> /\ undoSymbol # <<>>
           /\ file' = [doc |-> doc, sym |-> sym', settings |-> settings]
           /\ undoAction' = Remark(undoAction, undoActionIdx)
           /\ undoSymbol' = Remark(undoSymbol, undoSymbolIdx)
  <2>1. file'.doc = doc /\ file'.sym = z
    BY <1>1, <1>4
  <2> DEFINE p == undoActionIdx + 1
             q == undoSymbolIdx + 1
  <2>2. /\ Len(undoAction') = Len(undoAction)
        /\ \A i \in 1 .. Len(undoAction) : /\ undoAction'[i].mark = (i = p)
                                          /\ undoAction'[i].val = undoAction[i].val
    <3>1. undoAction \in Seq(Entries(Circuits))
      BY <1>0 DEF ActionStack
    <3>2. /\ Len(Remark(undoAction, undoActionIdx)) = Len(undoAction)
          /\ \A i \in 1 .. Len(undoAction) :
               /\ Remark(undoAction, undoActionIdx)[i].mark = (i = p)
               /\ Remark(undoAction, undoActionIdx)[i].val = undoAction[i].val
      BY <3>1, RemarkType
    <3>3. QED
      BY <1>4, <3>2
  <2>3. /\ Len(undoSymbol') = Len(undoSymbol)
        /\ \A i \in 1 .. Len(undoSymbol) : /\ undoSymbol'[i].mark = (i = q)
                                          /\ undoSymbol'[i].val = undoSymbol[i].val
    <3>1. undoSymbol \in Seq(Entries(Symbols))
      BY <1>0 DEF SymbolStack
    <3>2. /\ Len(Remark(undoSymbol, undoSymbolIdx)) = Len(undoSymbol)
          /\ \A i \in 1 .. Len(undoSymbol) :
               /\ Remark(undoSymbol, undoSymbolIdx)[i].mark = (i = q)
               /\ Remark(undoSymbol, undoSymbolIdx)[i].val = undoSymbol[i].val
      BY <3>1, RemarkType
    <3>3. QED
      BY <1>4, <3>2
  <2>4. p \in 1 .. Len(undoAction) /\ q \in 1 .. Len(undoSymbol)
    BY <1>0, <1>4 DEF ActionStack, SymbolStack, OnStack
  <2>5. undoActionIdx' + 1 = p /\ undoSymbolIdx' + 1 = q
    BY <1>2
  <2>6. undoAction[p].val = doc /\ undoSymbol[q].val.draw = sym.draw
    BY <1>4 DEF Content, ScreenAction, ScreenSymbol
  <2> HIDE DEF p, q
  <2>7. ScreenAction' /\ ScreenSymbol'
    BY <1>1, <1>2, <2>2, <2>3, <2>4, <2>5, <2>6 DEF ScreenAction, ScreenSymbol
  <2>8. \A i \in 1 .. Len(undoAction) : undoAction'[i].mark => undoAction'[i].val = file'.doc
    BY <2>1, <2>2, <2>6, Zenon
  <2>9. \A i \in 1 .. Len(undoSymbol) :
          undoSymbol'[i].mark => undoSymbol'[i].val.draw = file'.sym.draw
    BY <1>1, <2>1, <2>3, <2>6, Zenon
  <2>10. ActionMarks' /\ SymbolMarks'
    BY <2>2, <2>3, <2>8, <2>9, Zenon DEF ActionMarks, SymbolMarks
  <2>11. undoAction'[p].mark /\ undoSymbol'[q].mark
    BY <2>2, <2>3, <2>4, Zenon
  <2>12. AtMarks'
    BY <2>5, <2>11, Zenon DEF AtMarks, BothMarked
  <2>13. QED
    BY <2>7, <2>10, <2>12, Zenon DEF Content
<1>5. QED
  BY <1>3, <1>4, Zenon DEF save

\* Showing the document.
LEMMA ShowContent ==
  ASSUME Shape, Content, NEW mode \in BOOLEAN, becomeCurrent(mode)
  PROVE  Content'
<1>0. DocType
  BY ShapeParts
<1>1. PICK z \in Symbols : sym' = z
  <2>1. adjustPortNumbers(sym, doc) \in Symbols
    BY <1>0, AdjustedSymbol DEF DocType
  <2>2. createSubcircuitSymbol(adjustPortNumbers(sym, doc)) \in Symbols
    BY <2>1, CreatedSymbol
  <2>3. QED
    BY <1>0, <2>2, Zenon DEF becomeCurrent, DocType
<1>2. UNCHANGED <<doc, undoAction, undoActionIdx, file>>
  BY Zenon DEF becomeCurrent
<1>3. CASE sym'.draw # sym.draw
  <2>1. /\ undoSymbol' = Push(undoSymbol, undoSymbolIdx, Entry("*", FALSE, z))
        /\ undoSymbolIdx' = Len(undoSymbol') - 1
        /\ DocChanged' = TRUE
    BY <1>1, <1>3, Zenon DEF becomeCurrent
  <2>2. QED
    BY <1>1, <1>2, <2>1, SymbolStepContent
<1>4. CASE sym'.draw = sym.draw
  <2>1. UNCHANGED <<DocChanged, undoSymbol, undoSymbolIdx>>
    BY <1>4, Zenon DEF becomeCurrent
  <2>2. ScreenAction' /\ ScreenSymbol'
    BY <1>2, <1>4, <2>1, Zenon DEF Content, ScreenAction, ScreenSymbol
  <2>3. ActionMarks' /\ SymbolMarks' /\ AtMarks'
    BY <1>2, <2>1, Zenon DEF Content, ActionMarks, SymbolMarks, AtMarks
  <2>4. QED
    BY <2>2, <2>3, Zenon DEF Content
<1>5. QED
  BY <1>3, <1>4

\* Undo and redo show the entry they go to, and read its mark.
LEMMA UndoRedoContent ==
  ASSUME Shape, Content, undo \/ redo
  PROVE  Content'
<1>0. DocType /\ ActionStack /\ SymbolStack
  BY ShapeParts
<1>1. UNCHANGED <<undoAction, undoSymbol, file>>
  BY Zenon DEF undo, redo
<1>2. PICK i \in Int :
        \/ symbolMode /\ GoToSymbol(i) /\ i \in 0 .. Len(undoSymbol) - 1
        \/ ~symbolMode /\ GoToAction(i) /\ i \in 0 .. Len(undoAction) - 1
  BY UndoRedoEntry
<1>3. ActionMarks' /\ SymbolMarks'
  BY <1>1, Zenon DEF Content, ActionMarks, SymbolMarks
<1>4. CASE GoToSymbol(i) /\ i \in 0 .. Len(undoSymbol) - 1
  <2>1. /\ undoSymbolIdx' = i /\ undoActionIdx' = undoActionIdx /\ doc' = doc
        /\ sym' = adjustPortNumbers(undoSymbol[i + 1].val, doc)
        /\ undoAction # <<>> =>
             DocChanged' = ~BothMarked(undoAction[undoActionIdx + 1], undoSymbol[i + 1])
    BY <1>4, Zenon DEF GoToSymbol, CurrentAction
  <2>2. undoSymbol[i + 1].val \in Symbols
    <3>1. i + 1 \in 1 .. Len(undoSymbol)
      BY <1>0, <1>4 DEF SymbolStack
    <3>2. undoSymbol[i + 1] \in Entries(Symbols)
      BY <1>0, <3>1 DEF SymbolStack
    <3>3. QED
      BY <3>2 DEF Entries
  <2>3. adjustPortNumbers(undoSymbol[i + 1].val, doc).draw = undoSymbol[i + 1].val.draw
    BY <1>0, <2>2, AdjustedSymbol DEF DocType
  <2>4. ScreenAction' /\ ScreenSymbol'
    BY <1>1, <2>1, <2>3, Zenon DEF Content, ScreenAction, ScreenSymbol
  <2>5. AtMarks'
    BY <1>1, <2>1, Zenon DEF AtMarks
  <2>6. QED
    BY <1>3, <2>4, <2>5, Zenon DEF Content
<1>5. CASE GoToAction(i)
  <2>1. /\ undoActionIdx' = i /\ undoSymbolIdx' = undoSymbolIdx /\ sym' = sym
        /\ doc' = undoAction[i + 1].val
        /\ undoSymbol # <<>> =>
             DocChanged' = ~BothMarked(undoAction[i + 1], undoSymbol[undoSymbolIdx + 1])
    BY <1>5, Zenon DEF GoToAction, CurrentSymbol
  <2>2. ScreenAction' /\ ScreenSymbol'
    BY <1>1, <2>1, Zenon DEF Content, ScreenAction, ScreenSymbol
  <2>3. AtMarks'
    BY <1>1, <2>1, Zenon DEF AtMarks
  <2>4. QED
    BY <1>3, <2>2, <2>3, Zenon DEF Content
<1>6. QED
  BY <1>2, <1>4, <1>5

\* A step that leaves the document intact found it so, or loads it.
LEMMA IntactBefore ==
  ASSUME [Next]_vars, intact'
  PROVE  LoadDocument \/ (intact /\ ~LoadFailure /\ (OptimizationDone => ~symbolMode))
<1>1. CASE load
  BY <1>1, Zenon DEF load, LoadFailure
<1>2. CASE OptimizationDone
  BY <1>2, Zenon DEF OptimizationDone, LoadFailure
<1>3. CASE ~OptimizationDone /\ (save \/ EditCircuit \/ MoveMarker \/ EditSymbol)
  BY <1>3, Zenon DEF save, EditCircuit, MoveMarker, EditSymbol, LoadFailure
<1>4. CASE ~OptimizationDone /\ (SettingsDialog \/ QucsSettingsDialog \/ undo \/ redo)
  BY <1>4, Zenon DEF SettingsDialog, QucsSettingsDialog, undo, redo, LoadFailure
<1>5. CASE ~OptimizationDone /\ (slotSymbolEdit \/ slotChangeView)
  BY <1>5, Zenon DEF slotSymbolEdit, slotChangeView, becomeCurrent, LoadFailure
<1>6. CASE ~OptimizationDone /\ UNCHANGED vars
  BY <1>6, Zenon DEF vars, LoadFailure
<1>7. QED
  BY <1>1, <1>2, <1>3, <1>4, <1>5, <1>6, Zenon DEF Next

\* Every step that leaves the document intact keeps what is on the stacks.
LEMMA StepContent ==
  ASSUME Shape, intact => Content, [Next]_vars, intact'
  PROVE  Content'
<1> SUFFICES ASSUME ~LoadDocument PROVE Content'
  BY LoadContent
<1>0. DocType /\ Flags
  BY ShapeParts
<1>a. Content /\ ~LoadFailure /\ (OptimizationDone => ~symbolMode)
  BY IntactBefore, Zenon
<1>1. ~load
  BY <1>a, Zenon DEF load
<1>2. CASE save
  BY <1>a, <1>2, SaveContent
<1>3. CASE EditCircuit
  BY <1>a, <1>3, CircuitStepContent DEF EditCircuit
<1>4. CASE MoveMarker
  BY <1>a, <1>4, CircuitStepContent DEF MoveMarker
<1>5. CASE EditSymbol
  <2>1. PICK s \in Symbols : sym' = s
    BY <1>5 DEF EditSymbol
  <2>2. /\ undoSymbol' = Push(undoSymbol, undoSymbolIdx, Entry("*", FALSE, s))
        /\ undoSymbolIdx' = Len(undoSymbol') - 1
        /\ DocChanged' = TRUE
        /\ UNCHANGED <<doc, undoAction, undoActionIdx, file>>
    BY <1>5, <2>1 DEF EditSymbol, PushSymbol
  <2>3. QED
    BY <1>a, <2>1, <2>2, SymbolStepContent
<1>6. CASE OptimizationDone
  <2>1. PICK c \in Circuits : doc' = c
    BY <1>6 DEF OptimizationDone
  <2>2. ~symbolMode
    BY <1>a, <1>6, Zenon
  <2>3. PushAction("*", c) /\ UNCHANGED <<sym, settings, symbolMode, maxUndo, file>>
    BY <1>6, <2>1, <2>2 DEF OptimizationDone
  <2>4. QED
    BY <1>a, <2>1, <2>3, CircuitStepContent
<1>7. CASE SettingsDialog
  <2>1. UNCHANGED <<doc, sym, stackVars, file>> /\ DocChanged' = TRUE
    BY <1>7, Zenon DEF SettingsDialog
  <2>2. ScreenAction' /\ ScreenSymbol' /\ ActionMarks' /\ SymbolMarks' /\ AtMarks'
    BY <1>a, <2>1, Zenon
       DEF Content, ScreenAction, ScreenSymbol, ActionMarks, SymbolMarks, AtMarks, stackVars
  <2>3. QED
    BY <2>2, Zenon DEF Content
<1>8. CASE QucsSettingsDialog \/ UNCHANGED vars
  <2>1. UNCHANGED <<docVars, stackVars, DocChanged, file>>
    BY <1>8, Zenon DEF QucsSettingsDialog, vars
  <2>2. ScreenAction' /\ ScreenSymbol' /\ ActionMarks' /\ SymbolMarks' /\ AtMarks'
    BY <1>a, <2>1, Zenon
       DEF Content, ScreenAction, ScreenSymbol, ActionMarks, SymbolMarks, AtMarks, stackVars,
           docVars
  <2>3. QED
    BY <2>2, Zenon DEF Content
<1>9. CASE slotSymbolEdit
  <2>1. (~symbolMode) \in BOOLEAN
    BY Zenon
  <2>2. QED
    BY <1>a, <1>9, <2>1, ShowContent, Zenon DEF slotSymbolEdit
<1>10. CASE slotChangeView
  BY <1>a, <1>0, <1>10, ShowContent, Zenon DEF slotChangeView, Flags
<1>11. CASE undo \/ redo
  BY <1>a, <1>11, UndoRedoContent
<1>12. QED
  BY <1>1, <1>2, <1>3, <1>4, <1>5, <1>6, <1>7, <1>8, <1>9, <1>10, <1>11, Zenon DEF Next

-----------------------------------------------------------------------------
(* Theorems. *)

\* A step that makes no entry, or makes one while the limit is not zero, leaves
\* the positions on their stacks.
LEMMA StepRange ==
  ASSUME Shape, [Next]_vars, IndexInRange, maxUndo # 0
  PROVE  IndexInRange'
<1>0. DocType /\ ActionStack /\ SymbolStack
  BY ShapeParts
<1>1. CASE LoadDocument
  <2>1. maxUndo \in Nat \ {0}
    BY LimitsAssumption DEF Shape, TypeOK
  <2>2. PICK a, b : undoAction' = <<a>> /\ undoSymbol' = <<b>>
    BY <1>1, <2>1, LimitOne DEF LoadDocument
  <2>3. Len(undoAction') = 1 /\ Len(undoSymbol') = 1
    BY <2>2
  <2>4. undoActionIdx' = 0 /\ undoSymbolIdx' = 0
    BY <1>1 DEF LoadDocument
  <2>5. QED
    BY <2>3, <2>4 DEF IndexInRange
<1>2. CASE UNCHANGED stackVars
  BY <1>2, Zenon DEF IndexInRange, stackVars
<1>3. CASE save
  <2>1. Len(undoAction') = Len(undoAction) /\ Len(undoSymbol') = Len(undoSymbol)
    BY <1>0, <1>3, RemarkType DEF save, ActionStack, SymbolStack
  <2>2. undoActionIdx' = undoActionIdx /\ undoSymbolIdx' = undoSymbolIdx
    BY <1>3 DEF save
  <2>3. QED
    BY <2>1, <2>2, Zenon DEF IndexInRange
<1>4. ASSUME NEW c \in Circuits, NEW op \in {"*", "m"}, PushAction(op, c),
             op = "m" => undoAction # <<>>
      PROVE  IndexInRange'
  <2>1. undoActionIdx' \in 0 .. Len(undoAction') - 1
    BY <1>4, RecordedCircuit
  <2>2. undoSymbol' = undoSymbol /\ undoSymbolIdx' = undoSymbolIdx
    BY <1>4 DEF PushAction
  <2>3. QED
    BY <2>1, <2>2, Zenon DEF IndexInRange
<1>5. ASSUME NEW s \in Symbols, UNCHANGED <<undoAction, undoActionIdx>>,
             undoSymbol' = Push(undoSymbol, undoSymbolIdx, Entry("*", FALSE, s)),
             undoSymbolIdx' = Len(undoSymbol') - 1
      PROVE  IndexInRange'
  <2>1. undoSymbolIdx' \in 0 .. Len(undoSymbol') - 1
    BY <1>5, RecordedSymbol
  <2>2. QED
    BY <1>5, <2>1, Zenon DEF IndexInRange
<1>6. CASE EditCircuit \/ MoveMarker
  BY <1>4, <1>6 DEF EditCircuit, MoveMarker
<1>7. CASE EditSymbol
  BY <1>5, <1>7 DEF EditSymbol, PushSymbol
<1>8. CASE OptimizationDone
  BY <1>0, <1>4, <1>5, <1>8 DEF OptimizationDone, PushSymbol, DocType
<1>9. ASSUME NEW mode, becomeCurrent(mode)
      PROVE  IndexInRange'
  <2>1. sym' \in Symbols
    BY <1>0, <1>9, AdjustedSymbol, CreatedSymbol DEF becomeCurrent, DocType
  <2>2. CASE sym'.draw # sym.draw
    BY <1>5, <1>9, <2>1, <2>2 DEF becomeCurrent
  <2>3. CASE sym'.draw = sym.draw
    BY <1>2, <1>9, <2>3, Zenon DEF becomeCurrent, stackVars
  <2>4. QED
    BY <2>2, <2>3
<1>10. CASE undo \/ redo
  <2>1. PICK i \in Int :
          \/ symbolMode /\ GoToSymbol(i) /\ i \in 0 .. Len(undoSymbol) - 1
          \/ ~symbolMode /\ GoToAction(i) /\ i \in 0 .. Len(undoAction) - 1
    BY <1>10, UndoRedoEntry
  <2>2. UNCHANGED <<undoAction, undoSymbol>>
    BY <1>10, Zenon DEF undo, redo
  <2>3. QED
    BY <2>1, <2>2, Zenon DEF GoToSymbol, GoToAction, IndexInRange
<1>11. CASE LoadFailure \/ SettingsDialog \/ QucsSettingsDialog \/ UNCHANGED vars
  BY <1>2, <1>11, Zenon DEF LoadFailure, SettingsDialog, QucsSettingsDialog, vars
<1>12. QED
  BY <1>1, <1>3, <1>6, <1>7, <1>8, <1>9, <1>10, <1>11, Zenon
     DEF Next, load, slotSymbolEdit, slotChangeView

\* setChanged, undo, redo and save read and write the stacks at positions they
\* have until an entry is made while the limit is zero, whatever the limits were
\* before, whatever fails and whenever an optimization ends.
THEOREM StackPositions == Spec => []TypeOK /\ RangeKept
<1>1. Init => Shape
  BY InitShape
<1>2. Shape /\ [Next]_vars => Shape'
  BY StepShape
<1>3. Shape => TypeOK
  BY DEF Shape
<1>4. Shape /\ [Next]_vars => [IndexInRange /\ maxUndo # 0 => IndexInRange']_vars
  BY StepRange
<1>5. QED
  BY <1>1, <1>2, <1>3, <1>4, PTL DEF Spec, RangeKept

\* Whatever is edited, undone, saved, cut off at the limit and shown in whichever
\* order: until a load fails or an optimization ends behind the symbol, and again
\* after the next successful load, what is on the screen and the marks of the
\* entries fit together wherever there are entries.
THEOREM Consistent == Spec => [](EntryIsDocument /\ UnchangedIsSaved)
<1> DEFINE Inv == Shape /\ (intact => Content)
<1>1. Init => Inv
  BY InitShape, InitContent
<1>2. Inv /\ [Next]_vars => Inv'
  <2> SUFFICES ASSUME Shape, intact => Content, [Next]_vars
               PROVE  Shape' /\ (intact' => Content')
    OBVIOUS
  <2>1. QED
    BY StepShape, StepContent
<1>3. Inv => EntryIsDocument /\ UnchangedIsSaved
  <2> SUFFICES ASSUME Shape, Content, IndexInRange
               PROVE  /\ ScreenIsEntry
                      /\ ~DocChanged => doc = file.doc /\ sym.draw = file.sym.draw
    BY Zenon DEF EntryIsDocument, UnchangedIsSaved
  <2>1. /\ undoActionIdx + 1 \in 1 .. Len(undoAction)
        /\ undoSymbolIdx + 1 \in 1 .. Len(undoSymbol)
        /\ undoAction # <<>> /\ undoSymbol # <<>>
    <3>1. ActionStack /\ SymbolStack
      BY ShapeParts
    <3>2. QED
      BY <3>1 DEF ActionStack, SymbolStack, IndexInRange
  <2>2. ScreenIsEntry
    BY <2>1 DEF Content, ScreenAction, ScreenSymbol, ScreenIsEntry
  <2>3. QED
    BY <2>1, <2>2, Zenon
       DEF Content, ScreenIsEntry, ActionMarks, SymbolMarks, AtMarks, BothMarked
<1>4. QED
  BY <1>1, <1>2, <1>3, PTL DEF Spec

\* The entries undo and redo would leave are what they replace: Schematic::undo
\* and redo never lose an edit that is only on the screen.
THEOREM NothingUnrecorded == Spec => []EntryIsDocument
BY Consistent, PTL

\* A document with DocChanged = false is in its file: the question that closing it
\* asks is not left out when something would be lost.
THEOREM NothingLost == Spec => []UnchangedIsSaved
BY Consistent, PTL
=============================================================================
