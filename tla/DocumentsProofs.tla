-------------------------- MODULE DocumentsProofs ---------------------------
(***************************************************************************)
(* Proofs about Documents, for any documents, file names, spellings and    *)
(* contents.                                                               *)
(***************************************************************************)
EXTENDS Documents, WellFoundedInduction, TLAPS

Files == [Names -> Contents \cup {NoFile}]

\* The documents of S have different file names, or share them.
Distinct(ds, S) ==
  \A d, e \in S : d # e /\ ds[d].name = ds[e].name => ds[d].name = Untitled \/ ds[d].shared

\* What a document has read or written last is what is in its file.
Stored(ds, fs, d) ==
  ds[d].name # Untitled /\ ~ds[d].shared /\ ds[d].saved # NoFile => fs[ds[d].name] = ds[d].saved

\* Documents and files as the operations need and leave them.
Sound(ds, fs, ts) ==
  /\ ds \in [Docs -> Document]
  /\ fs \in Files
  /\ ts \in Seq(Docs) /\ IsInjective(ts)
  /\ Distinct(ds, Range(ts))
  /\ \A d \in Range(ts) : Stored(ds, fs, d)

\* Document d is in its file, if it has one of its own.
OwnInFile(s, d) == s.doc[d].name # Untitled /\ ~s.doc[d].shared => InFile(s, d)

\* While the save dialog saves and nothing has failed, the checked documents it is
\* done with are in their files, if they have one.
SelectedInFile ==
  pc = "saving" /\ ~dialog.failed =>
    \A d \in dialog.selected \ dialog.todo : OwnInFile(State, d)

IInv ==
  /\ TypeOK
  /\ pc \notin {"dialog", "saving"} => dialog = NoDialog
  /\ Sound(doc, files, tabs)
  /\ SelectedInFile
  /\ NamedSelectedSaved

-----------------------------------------------------------------------------
(* Tabs. *)

\* A document appended to the tabs.
LEMMA AppendTab ==
  ASSUME NEW ts \in Seq(Docs), IsInjective(ts), NEW e \in Docs, e \notin Range(ts)
  PROVE  /\ Append(ts, e) \in Seq(Docs) /\ IsInjective(Append(ts, e))
         /\ Range(Append(ts, e)) = Range(ts) \cup {e}
<1> DEFINE us == Append(ts, e)
           n == Len(ts)
<1>1. /\ us \in Seq(Docs) /\ n \in Nat /\ DOMAIN us = 1 .. n + 1 /\ DOMAIN ts = 1 .. n
      /\ us[n + 1] = e /\ \A i \in 1 .. n : us[i] = ts[i] /\ us[i] # e
  BY DEF Range
<1> HIDE DEF us, n
<1>2. \A i \in 1 .. n + 1 : i \in 1 .. n \/ i = n + 1
  BY <1>1
<1>3. IsInjective(us)
  BY <1>1, <1>2 DEF IsInjective
<1>4. Range(us) = Range(ts) \cup {e}
  BY <1>1, <1>2 DEF Range
<1> QED
  BY <1>1, <1>3, <1>4 DEF us

\* The tabs without the first.
LEMMA TailTabs ==
  ASSUME NEW ts \in Seq(Docs), IsInjective(ts), ts # <<>>
  PROVE  /\ Tail(ts) \in Seq(Docs) /\ IsInjective(Tail(ts))
         /\ Range(Tail(ts)) \subseteq Range(ts)
BY DEF IsInjective, Range

\* What is left when documents are removed from the tabs.
LEMMA WithoutTabs ==
  ASSUME NEW ts \in Seq(Docs), IsInjective(ts), NEW R, NEW us \in Without(ts, R)
  PROVE  /\ us \in Seq(Docs) /\ IsInjective(us)
         /\ Range(us) = Range(ts) \ R
<1>1. PICK m \in 0 .. Len(ts) : us \in [1 .. m -> Range(ts) \ R]
  BY DEF Without
<1>2. m \in Nat /\ Range(ts) \subseteq Docs
  BY DEF Range
<1>3. us \in Seq(Docs)
  BY <1>1, <1>2
<1>4. Range(us) = Range(ts) \ R
  BY DEF Without
<1>5. ASSUME NEW i \in DOMAIN us, NEW j \in DOMAIN us, i < j
      PROVE  us[i] # us[j]
  <2>1. PICK k, l \in DOMAIN ts : k < l /\ ts[k] = us[i] /\ ts[l] = us[j]
    BY <1>5 DEF Without
  <2>2. k # l
    BY <2>1
  <2>3. QED
    BY <2>1, <2>2 DEF IsInjective
<1>6. IsInjective(us)
  BY <1>1, <1>2, <1>5 DEF IsInjective
<1>7. QED
  BY <1>3, <1>4, <1>6

\* A set of natural numbers has a least member.
LEMMA Least ==
  ASSUME NEW T, T \subseteq Nat, T # {}
  PROVE  \E x \in T : \A y \in T : x <= y
<1> DEFINE R == OpToRel(<, Nat)
<1>1. IsWellFoundedOn(R, Nat)
  BY NatLessThanWellFounded, Zenon
<1> HIDE DEF R
<1>2. PICK x \in T : \A y \in T : ~(<<y, x>> \in R)
  BY <1>1, WFMin, Zenon
<1>3. \A y \in T : ~(y < x)
  BY <1>2, Zenon DEF R, OpToRel
<1> QED
  BY <1>3

\* A bounded set of natural numbers has a greatest member.
LEMMA Greatest ==
  ASSUME NEW n \in Nat, NEW T, T \subseteq 1 .. n, T # {}
  PROVE  \E x \in T : \A y \in T : y <= x
<1> DEFINE U == {n - i : i \in T}
<1>1. U \subseteq Nat /\ U # {}
  <2>1. \A i \in T : n - i \in Nat
    OBVIOUS
  <2>2. PICK i : i \in T
    OBVIOUS
  <2> QED
    BY <2>1, <2>2
<1>2. PICK u \in U : \A v \in U : u <= v
  <2> HIDE DEF U
  <2> QED
    BY <1>1, Least, Zenon
<1>3. PICK x \in T : u = n - x
  BY <1>2
<1>4. ASSUME NEW y \in T PROVE y <= x
  <2>1. n - y \in U
    OBVIOUS
  <2>2. n - x <= n - y
    BY <1>2, <1>3, <2>1
  <2>3. x \in 1 .. n /\ y \in 1 .. n
    BY Zenon
  <2> QED
    BY <2>2, <2>3
<1> QED
  BY <1>4

\* While a document stays, the tab widget selects one that does.
LEMMA SurvivorStays ==
  ASSUME NEW ts \in Seq(Docs), NEW cur, NEW R, ~(Range(ts) \subseteq R)
  PROVE  Survivor(ts, cur, R) \in Range(ts) \ R
<1> DEFINE c == CHOOSE i \in DOMAIN ts : ts[i] = cur
           Stays == {i \in DOMAIN ts : ts[i] \notin R}
           Right == {i \in Stays : i >= c}
<1>1. Stays # {} /\ Stays \subseteq 1 .. Len(ts) /\ Len(ts) \in Nat
  BY DEF Range
<1>2. \A i \in Stays : ts[i] \in Range(ts) \ R
  BY DEF Range
<1>3. CASE Right # {}
  <2>1. PICK x \in Right : \A y \in Right : x <= y
    <3>1. Right \subseteq Nat
      BY <1>1
    <3> HIDE DEF Right
    <3> QED
      BY <1>3, <3>1, Least, Zenon
  <2>2. (CHOOSE i \in Right : \A j \in Right : i <= j) \in Right
    BY <2>1, Zenon
  <2>3. Survivor(ts, cur, R) = ts[CHOOSE i \in Right : \A j \in Right : i <= j]
    BY <1>1, <1>3 DEF Survivor
  <2> QED
    BY <1>2, <2>2, <2>3
<1>4. CASE Right = {}
  <2>1. PICK x \in Stays : \A y \in Stays : y <= x
    <3> HIDE DEF Stays
    <3> QED
      BY <1>1, Greatest, Zenon
  <2>2. (CHOOSE i \in Stays : \A j \in Stays : j <= i) \in Stays
    BY <2>1
  <2>3. Survivor(ts, cur, R) = ts[CHOOSE i \in Stays : \A j \in Stays : j <= i]
    BY <1>1, <1>4, Zenon DEF Survivor
  <2> QED
    BY <1>2, <2>2, <2>3
<1> QED
  BY <1>3, <1>4, Zenon

\* findDoc yields an open document with the name, if there is one.
LEMMA FindDoc ==
  ASSUME tabs \in Seq(Docs), NEW n
  PROVE  /\ findDoc(n) \subseteq Open
         /\ findDoc(n) = {} => \A d \in Open : doc[d].name # n
<1>1. findDoc(n) \subseteq Open
  BY DEF findDoc, Open, Range
<1>2. ASSUME NEW d \in Open, doc[d].name = n
      PROVE  findDoc(n) # {}
  <2> DEFINE T == {j \in DOMAIN tabs : doc[tabs[j]].name = n}
  <2>1. T \subseteq Nat /\ T # {}
    BY <1>2 DEF Open, Range
  <2>2. PICK x \in T : \A y \in T : x <= y
    <3> HIDE DEF T
    <3> QED
      BY <2>1, Least, Zenon
  <2>3. \A k \in 1 .. x - 1 : doc[tabs[k]].name # n
    BY <2>2
  <2>4. tabs[x] \in findDoc(n)
    BY <2>2, <2>3 DEF findDoc
  <2> QED
    BY <2>4
<1> QED
  BY <1>1, <1>2

-----------------------------------------------------------------------------
(* Saving. *)

States(s) == s \in [doc : [Docs -> Document], files : Files, current : Docs]
Results(s) == s \in [doc : [Docs -> Document], files : Files, current : Docs, ok : BOOLEAN]

\* Two documents, or one before and after a step, that differ in their contents only.
Same(x, y) == x.name = y.name /\ x.saved = y.saved /\ x.changed = y.changed /\ x.shared = y.shared

\* State s becomes t when document x is written to the file of its name, or cannot be
\* written; the contents of all documents may change.
Written(s, t, x) ==
  /\ Results(t)
  /\ t.current = s.current
  /\ \A e \in Docs \ {x} : Same(t.doc[e], s.doc[e])
  /\ t.doc[x].name = s.doc[x].name /\ t.doc[x].shared = s.doc[x].shared
  /\ \/ /\ t.ok /\ ~t.doc[x].changed /\ t.doc[x].saved \in Contents
        /\ t.files = [s.files EXCEPT ![s.doc[x].name] = t.doc[x].saved]
     \/ ~t.ok /\ Same(t.doc[x], s.doc[x]) /\ t.files = s.files

\* State s with document x under the name n.
Rename(s, x, n) == [s EXCEPT !.doc[x] = Renamed(@, n)]

\* What saving does to state s: nothing; or it writes document x to its file; or x
\* gets a name no document of S has, and is written to that file.
Outcome(s, t, x, S) ==
  \/ t.doc = s.doc /\ t.files = s.files /\ t.current = s.current /\ t.ok = FALSE
  \/ s.doc[x].name \in Names /\ Written(s, t, x)
  \/ \E n \in Names : Written(Rename(s, x, n), t, x) /\ \A e \in S : s.doc[e].name # n

\* QucsDoc::save writes a document to the file that has its name.
LEMMA SaveWrites ==
  ASSUME NEW s, States(s), NEW x \in Docs, s.doc[x].name \in Names, NEW t \in Save(s, x)
  PROVE  Written(s, t, x)
<1> DEFINE D == s.doc
           F == s.files
           n == D[x].name
<1>1. PICK c \in adjustPortNumbers(D[x].content) :
        \/ t = [doc |-> [D EXCEPT ![x] = Saved(D[x], c)], files |-> [F EXCEPT ![n] = c],
                current |-> s.current, ok |-> TRUE]
        \/ t = [doc |-> [D EXCEPT ![x].content = c], files |-> F,
                current |-> s.current, ok |-> FALSE]
  BY DEF Save
<1>2. /\ D \in [Docs -> Document] /\ F \in Files /\ s.current \in Docs
      /\ D[x] \in Document /\ c \in Contents /\ n \in Names
  BY DEF States, adjustPortNumbers, Alike
<1>3. CASE t = [doc |-> [D EXCEPT ![x] = Saved(D[x], c)], files |-> [F EXCEPT ![n] = c],
                current |-> s.current, ok |-> TRUE]
  <2> DEFINE q == Saved(D[x], c)
  <2>1. /\ q \in Document /\ q.name = n /\ q.shared = D[x].shared
        /\ q.saved = c /\ q.changed = FALSE
    BY <1>2, Zenon DEF Saved, Document
  <2> HIDE DEF q
  <2>2. t.doc = [D EXCEPT ![x] = q] /\ t.files = [F EXCEPT ![n] = c] /\ t.current = s.current /\ t.ok = TRUE
    BY <1>3 DEF q
  <2> HIDE DEF D, F, n
  <2>3. t.doc \in [Docs -> Document] /\ t.doc[x] = q /\ \A e \in Docs \ {x} : t.doc[e] = D[e]
    BY <1>2, <2>1, <2>2
  <2>4. t.files \in Files
    BY <1>2, <2>2, Zenon DEF Files
  <2>5. Results(t)
    BY <1>2, <1>3, <2>2, <2>3, <2>4, Zenon DEF Results, q
  <2> QED
    BY <1>2, <2>1, <2>2, <2>3, <2>5 DEF Written, Same, D, F, n
<1>4. CASE t = [doc |-> [D EXCEPT ![x].content = c], files |-> F,
                current |-> s.current, ok |-> FALSE]
  <2> DEFINE q == [D[x] EXCEPT !.content = c]
  <2>1. q \in Document /\ Same(q, D[x])
    BY <1>2, Zenon DEF Same, Document
  <2> HIDE DEF q
  <2>2. t.doc = [D EXCEPT ![x] = q] /\ t.files = F /\ t.current = s.current /\ t.ok = FALSE
    BY <1>2, <1>4, Zenon DEF q
  <2> HIDE DEF D, F, n
  <2>3. t.doc \in [Docs -> Document] /\ t.doc[x] = q /\ \A e \in Docs \ {x} : t.doc[e] = D[e]
    BY <1>2, <2>1, <2>2
  <2>4. Results(t)
    BY <1>2, <1>4, <2>2, <2>3, Zenon DEF Results
  <2> QED
    BY <1>2, <2>1, <2>2, <2>3, <2>4 DEF Written, Same, D, F, n
<1> QED
  BY <1>1, <1>3, <1>4

\* updatePortNumber changes contents only.
LEMMA UpdateKeeps ==
  ASSUME NEW s, Results(s), NEW n, NEW t \in updatePortNumber(s, n)
  PROVE  /\ Results(t) /\ t.files = s.files /\ t.current = s.current /\ t.ok = s.ok
         /\ \A e \in Docs : Same(t.doc[e], s.doc[e])
<1> DEFINE Users == {e \in Open : n \in Uses[s.doc[e].content]}
           D == s.doc
<1>1. PICK f \in [Users -> Contents] :
        t = [s EXCEPT !.doc = [e \in Docs |-> IF e \in Users THEN [D[e] EXCEPT !.content = f[e]]
                                              ELSE D[e]]]
  BY DEF updatePortNumber
<1> DEFINE E == [e \in Docs |-> IF e \in Users THEN [D[e] EXCEPT !.content = f[e]] ELSE D[e]]
<1>2. D \in [Docs -> Document]
  BY DEF Results
<1>3. ASSUME NEW e \in Docs PROVE E[e] \in Document /\ Same(E[e], D[e])
  <2>1. D[e] \in Document
    BY <1>2
  <2> HIDE DEF D
  <2>2. CASE e \in Users
    <3>1. E[e] = [D[e] EXCEPT !.content = f[e]] /\ f[e] \in Contents
      BY <1>1, <2>2
    <3> QED
      BY <2>1, <3>1, Zenon DEF Document, Same
  <2>3. CASE e \notin Users
    BY <2>1, <2>3 DEF Same
  <2> QED
    BY <2>2, <2>3
<1>4. E \in [Docs -> Document]
  BY <1>3
<1>5. t = [s EXCEPT !.doc = E]
  BY <1>1
<1> HIDE DEF E, D
<1>6. Results(t) /\ t.doc = E /\ t.files = s.files /\ t.current = s.current /\ t.ok = s.ok
  BY <1>4, <1>5, Zenon DEF Results
<1> QED
  BY <1>3, <1>6 DEF D

\* So does saving a document that has a name, with the update that follows.
LEMMA SaveAndUpdateWrites ==
  ASSUME NEW s, States(s), NEW x \in Docs, s.doc[x].name \in Names,
         NEW t \in SaveAndUpdate(s, x)
  PROVE  Written(s, t, x)
<1>1. PICK r \in Save(s, x) : t \in IF r.ok THEN updatePortNumber(r, s.doc[x].name) ELSE {r}
  BY DEF SaveAndUpdate
<1>2. Written(s, r, x) /\ Results(r)
  BY SaveWrites DEF Written
<1>3. CASE ~r.ok
  BY <1>1, <1>2, <1>3
<1>4. CASE r.ok
  <2>1. /\ Results(t) /\ t.files = r.files /\ t.current = r.current /\ t.ok = r.ok
        /\ \A e \in Docs : Same(t.doc[e], r.doc[e])
    BY <1>1, <1>2, <1>4, UpdateKeeps
  <2> QED
    BY <1>2, <1>4, <2>1 DEF Written, Same
<1> QED
  BY <1>3, <1>4

\* Renaming a document.
LEMMA RenameKeeps ==
  ASSUME NEW s, States(s), NEW x \in Docs, NEW n \in Names
  PROVE  /\ States(Rename(s, x, n))
         /\ Rename(s, x, n).files = s.files /\ Rename(s, x, n).current = s.current
         /\ \A e \in Docs \ {x} : Rename(s, x, n).doc[e] = s.doc[e]
         /\ Rename(s, x, n).doc[x].name = n /\ Rename(s, x, n).doc[x].saved = NoFile
         /\ ~Rename(s, x, n).doc[x].shared
<1> DEFINE D == s.doc
           q == Renamed(D[x], n)
           r == Rename(s, x, n)
<1>1. D \in [Docs -> Document] /\ D[x] \in Document
  BY DEF States
<1>2. q \in Document /\ q.name = n /\ q.saved = NoFile /\ q.shared = FALSE
  BY <1>1, Zenon DEF Renamed, Document
<1>3. r = [doc |-> [D EXCEPT ![x] = q], files |-> s.files, current |-> s.current]
  BY DEF States, Rename
<1> HIDE DEF D, q, r
<1>4. /\ [D EXCEPT ![x] = q] \in [Docs -> Document] /\ [D EXCEPT ![x] = q][x] = q
      /\ \A e \in Docs \ {x} : [D EXCEPT ![x] = q][e] = D[e]
  BY <1>1, <1>2
<1>5. r.doc = [D EXCEPT ![x] = q] /\ r.files = s.files /\ r.current = s.current
  BY <1>3
<1>6. States(r)
  BY <1>3, <1>4 DEF States
<1> QED
  BY <1>2, <1>4, <1>5, <1>6 DEF D, r

\* saveAs writes the current document to a file no open document has.
LEMMA SaveAsOutcome ==
  ASSUME NEW s, States(s), Open \subseteq Docs, NEW t \in saveAs(s)
  PROVE  Outcome(s, t, s.current, Open)
<1> DEFINE x == s.current
<1>1. CASE t = [doc |-> s.doc, files |-> s.files, current |-> s.current, ok |-> FALSE]
  <2>1. t.doc = s.doc /\ t.files = s.files /\ t.current = s.current /\ t.ok = FALSE
    BY <1>1
  <2> QED
    BY <2>1 DEF Outcome
<1>2. ASSUME NEW n \in FreeNames(s), t \in SaveAndUpdate(Rename(s, x, n), x)
      PROVE  Outcome(s, t, x, Open)
  <2>1. n \in Names /\ x \in Docs /\ \A e \in Open : s.doc[e].name # n
    BY NamesAssumption DEF FreeNames, OpenNames, Open, States, Untitled
  <2>2. States(Rename(s, x, n)) /\ Rename(s, x, n).doc[x].name = n
    BY <2>1, RenameKeeps
  <2>3. Written(Rename(s, x, n), t, x)
    BY <1>2, <2>1, <2>2, SaveAndUpdateWrites
  <2> QED
    BY <2>1, <2>3 DEF Outcome
<1> QED
  BY <1>1, <1>2, Zenon DEF saveAs, Rename

\* The document saveFile writes when it is to save document d.
Target(s, d) == IF s.doc[d].name = Untitled THEN s.current ELSE d

\* saveFile writes a document that is open.
LEMMA SaveFileOutcome ==
  ASSUME NEW s, States(s), Open \subseteq Docs, s.current \in Open,
         NEW d \in Open, NEW t \in saveFile(s, d)
  PROVE  Target(s, d) \in Open /\ Outcome(s, t, Target(s, d), Open)
<1>1. CASE s.doc[d].name = Untitled
  <2>1. t \in saveAs(s) /\ Target(s, d) = s.current
    BY <1>1 DEF saveFile, Target
  <2> QED
    BY <2>1, SaveAsOutcome
<1>2. CASE s.doc[d].name # Untitled
  <2>1. t \in SaveAndUpdate(s, d) /\ Target(s, d) = d
    BY <1>2 DEF saveFile, Target
  <2>2. d \in Docs /\ s.doc[d].name \in Names
    BY <1>2 DEF States, Document
  <2>3. Written(s, t, d)
    BY <2>1, <2>2, SaveAndUpdateWrites
  <2> QED
    BY <2>1, <2>2, <2>3 DEF Outcome
<1> QED
  BY <1>1, <1>2

\* Writing a document to its file keeps the documents and the files sound, because
\* other documents of that name share it.
LEMMA WritingIsSound ==
  ASSUME NEW s, States(s), Sound(s.doc, s.files, tabs), NEW x \in Open,
         s.doc[x].name \in Names, NEW t, Written(s, t, x)
  PROVE  /\ Sound(t.doc, t.files, tabs)
         /\ t.ok => InFile(t, x)
         /\ \A e \in Open \ {x} : Same(t.doc[e], s.doc[e]) /\ (OwnInFile(s, e) => OwnInFile(t, e))
<1> DEFINE n == s.doc[x].name
<1>1. Open \subseteq Docs /\ x \in Docs /\ n # Untitled /\ s.files \in Files
  BY NamesAssumption DEF Open, Sound, Range, Untitled
<1>2. /\ \A e \in Docs \ {x} : Same(t.doc[e], s.doc[e])
      /\ t.doc[x].name = n /\ t.doc[x].shared = s.doc[x].shared
      /\ t.doc \in [Docs -> Document] /\ t.files \in Files
  BY DEF Written, Results
<1>3. \A e \in Open : t.doc[e].name = s.doc[e].name /\ t.doc[e].shared = s.doc[e].shared
  BY <1>1, <1>2 DEF Same
<1>4. Distinct(t.doc, Open)
  BY <1>3 DEF Distinct, Sound, Open
<1>5. \A m \in Names \ {n} : t.files[m] = s.files[m]
  BY <1>1 DEF Written, Files
<1>6. t.ok => t.files[n] = t.doc[x].saved /\ ~t.doc[x].changed
  BY <1>1 DEF Written, Files
<1>7. \A e \in Open \ {x} : ~s.doc[e].shared => s.doc[e].name # n
  BY <1>1 DEF Distinct, Sound, Open
<1>8. \A e \in Open \ {x} : s.doc[e].name \in Names \cup {Untitled}
  BY <1>1 DEF States, Document
<1>9. ASSUME NEW d \in Open PROVE Stored(t.doc, t.files, d)
  <2>1. Stored(s.doc, s.files, d)
    BY DEF Sound, Open
  <2>2. CASE d = x /\ t.ok
    BY <1>2, <1>6, <2>2 DEF Stored
  <2>3. CASE d = x /\ ~t.ok
    BY <1>2, <2>1, <2>3 DEF Stored, Written, Same
  <2>4. CASE d # x
    <3>1. Same(t.doc[d], s.doc[d])
      BY <1>1, <1>2, <2>4
    <3>2. s.doc[d].name # Untitled /\ ~s.doc[d].shared => s.doc[d].name \in Names \ {n}
      BY <1>7, <1>8, <2>4
    <3> QED
      BY <1>5, <2>1, <3>1, <3>2 DEF Stored, Same
  <2> QED
    BY <2>2, <2>3, <2>4
<1>10. t.ok => InFile(t, x)
  BY <1>1, <1>2, <1>6 DEF InFile
<1>11. ASSUME NEW e \in Open \ {x}
       PROVE  Same(t.doc[e], s.doc[e]) /\ (OwnInFile(s, e) => OwnInFile(t, e))
  <2>1. Same(t.doc[e], s.doc[e])
    BY <1>1, <1>2
  <2>2. s.doc[e].name # Untitled /\ ~s.doc[e].shared => s.doc[e].name \in Names \ {n}
    BY <1>7, <1>8
  <2> QED
    BY <1>5, <2>1, <2>2 DEF OwnInFile, InFile, Same
<1> HIDE DEF n
<1> QED
  BY <1>2, <1>4, <1>9, <1>10, <1>11 DEF Sound, Open

\* A document that gets a name no other has is sound.
LEMMA RenamingIsSound ==
  ASSUME NEW s, States(s), Sound(s.doc, s.files, tabs), NEW x \in Open,
         NEW n \in Names, \A e \in Open : s.doc[e].name # n
  PROVE  Sound(Rename(s, x, n).doc, Rename(s, x, n).files, tabs)
<1> DEFINE r == Rename(s, x, n)
<1>1. Open \subseteq Docs /\ x \in Docs
  BY DEF Open, Sound, Range
<1>2. /\ States(r) /\ r.files = s.files
      /\ \A e \in Docs \ {x} : r.doc[e] = s.doc[e]
      /\ r.doc[x].name = n /\ r.doc[x].saved = NoFile
  BY <1>1, RenameKeeps
<1> HIDE DEF r
<1>3. Distinct(r.doc, Open)
  BY <1>1, <1>2 DEF Distinct, Sound, Open
<1>4. \A d \in Open : Stored(r.doc, r.files, d)
  BY <1>1, <1>2 DEF Stored, Sound, Open
<1>5. r.doc \in [Docs -> Document] /\ r.files \in Files
  BY <1>2 DEF States
<1> QED
  BY <1>3, <1>4, <1>5 DEF Sound, Open, r

\* Saving keeps the documents and the files sound; what is saved is in its file, and
\* what was in its file stays there.
LEMMA SavingIsSound ==
  ASSUME NEW s, States(s), Sound(s.doc, s.files, tabs), NEW x \in Open,
         NEW t, Outcome(s, t, x, Open)
  PROVE  /\ Sound(t.doc, t.files, tabs) /\ t.current = s.current /\ t.ok \in BOOLEAN
         /\ t.ok => /\ InFile(t, x)
                    /\ \A e \in Open \ {x} : /\ Same(t.doc[e], s.doc[e])
                                             /\ OwnInFile(s, e) => OwnInFile(t, e)
<1>1. CASE t.doc = s.doc /\ t.files = s.files /\ t.current = s.current /\ t.ok = FALSE
  BY <1>1
<1>2. CASE s.doc[x].name \in Names /\ Written(s, t, x)
  <2>1. t.current = s.current /\ t.ok \in BOOLEAN
    BY <1>2 DEF Written, Results
  <2> QED
    BY <1>2, <2>1, WritingIsSound
<1>3. ASSUME NEW n \in Names, Written(Rename(s, x, n), t, x), \A e \in Open : s.doc[e].name # n
      PROVE  /\ Sound(t.doc, t.files, tabs) /\ t.current = s.current /\ t.ok \in BOOLEAN
             /\ t.ok => /\ InFile(t, x)
                        /\ \A e \in Open \ {x} : /\ Same(t.doc[e], s.doc[e])
                                                 /\ OwnInFile(s, e) => OwnInFile(t, e)
  <2> DEFINE r == Rename(s, x, n)
  <2>1. Open \subseteq Docs /\ x \in Docs
    BY DEF Open, Sound, Range
  <2>2. /\ States(r) /\ r.files = s.files /\ r.current = s.current
        /\ \A e \in Docs \ {x} : r.doc[e] = s.doc[e]
        /\ r.doc[x].name = n
    BY <2>1, RenameKeeps
  <2>3. Sound(r.doc, r.files, tabs)
    BY <1>3, RenamingIsSound
  <2>4. Written(r, t, x)
    BY <1>3
  <2> HIDE DEF r
  <2>5. /\ Sound(t.doc, t.files, tabs)
        /\ t.ok => InFile(t, x)
        /\ \A e \in Open \ {x} : Same(t.doc[e], r.doc[e]) /\ (OwnInFile(r, e) => OwnInFile(t, e))
    BY <2>2, <2>3, <2>4, WritingIsSound
  <2>6. \A e \in Open \ {x} : r.doc[e] = s.doc[e] /\ (OwnInFile(s, e) => OwnInFile(r, e))
    BY <2>1, <2>2 DEF OwnInFile, InFile
  <2>7. t.current = s.current /\ t.ok \in BOOLEAN
    BY <2>2, <2>4 DEF Written, Results
  <2> QED
    BY <2>5, <2>6, <2>7
<1> QED
  BY <1>1, <1>2, <1>3 DEF Outcome

-----------------------------------------------------------------------------
(* Opening and closing. *)

\* Documents that stay as they are, and blank ones, are sound.
LEMMA StillSound ==
  ASSUME NEW ds, NEW fs, NEW ts, Sound(ds, fs, ts),
         NEW es \in [Docs -> Document], NEW us \in Seq(Docs), IsInjective(us),
         \A d \in Range(us) : \/ es[d] = Opened(Untitled, Blank)
                              \/ d \in Range(ts) /\ es[d] = ds[d]
  PROVE  Sound(es, fs, us)
<1>1. Opened(Untitled, Blank).name = Untitled
  BY DEF Opened
<1>2. Distinct(es, Range(us))
  BY <1>1 DEF Distinct, Sound
<1>3. ASSUME NEW d \in Range(us) PROVE Stored(es, fs, d)
  BY <1>1 DEF Stored, Sound
<1> QED
  BY <1>2, <1>3 DEF Sound

\* The documents of S are as they were, but those with the name n share it with e.
Beside(ds, es, S, e, n) ==
  \A d \in S : /\ es[d].name = ds[d].name /\ es[d].saved = ds[d].saved
               /\ ds[d].shared => es[d].shared
               /\ ds[d].name = n => es[d].shared /\ es[e].shared

\* Only the file n has been written, and e, which has the name n, has read or written it.
Loaded(es, fs, gs, e, n) ==
  /\ es[e].name = n
  /\ \A m \in Names \ {n} : gs[m] = fs[m]
  /\ es[e].saved # NoFile => gs[n] = es[e].saved

\* Document e is opened under the name n.  The file is what e takes it for, unless
\* another document has the name; then they share it.
LEMMA OpenedIsSound ==
  ASSUME NEW ds, NEW fs, NEW ts, Sound(ds, fs, ts),
         NEW us \in Seq(Docs), IsInjective(us), Range(us) \subseteq Range(ts),
         NEW e \in Docs, e \notin Range(us), NEW n \in Names,
         NEW es \in [Docs -> Document], Beside(ds, es, Range(us), e, n),
         NEW gs \in Files, Loaded(es, fs, gs, e, n)
  PROVE  Sound(es, gs, Append(us, e))
<1> USE DEF Beside, Loaded
<1>1. /\ Append(us, e) \in Seq(Docs) /\ IsInjective(Append(us, e))
      /\ Range(Append(us, e)) = Range(us) \cup {e}
  BY AppendTab
<1>2. Range(us) \subseteq Docs /\ ds \in [Docs -> Document]
  BY DEF Range, Sound
<1>3. ASSUME NEW a \in Range(us) \cup {e}, NEW b \in Range(us) \cup {e}, a # b,
             es[a].name = es[b].name
      PROVE  es[a].name = Untitled \/ es[a].shared
  <2>1. CASE a = e
    BY <1>3, <2>1
  <2>2. CASE b = e
    BY <1>3, <2>2
  <2>3. CASE a # e /\ b # e
    <3>1. Distinct(ds, Range(ts)) /\ a \in Range(us) /\ b \in Range(us)
      BY <1>3, <2>3 DEF Sound
    <3>2. ds[a].name = ds[b].name => ds[a].name = Untitled \/ ds[a].shared
      BY <1>3, <3>1 DEF Distinct
    <3> QED
      BY <1>3, <3>1, <3>2
  <2> QED
    BY <2>1, <2>2, <2>3
<1>4. ASSUME NEW d \in Range(us) \cup {e} PROVE Stored(es, gs, d)
  <2>1. CASE d = e
    BY <2>1 DEF Stored
  <2>2. CASE d # e
    <3>1. Stored(ds, fs, d)
      BY <2>2 DEF Sound
    <3>2. ds[d].name # Untitled => ds[d].name \in Names
      BY <1>2, <2>2 DEF Document
    <3> QED
      BY <2>2, <3>1, <3>2 DEF Stored
  <2> QED
    BY <2>1, <2>2
<1>5. Distinct(es, Range(us) \cup {e})
  BY <1>3, Zenon DEF Distinct
<1> QED
  BY <1>1, <1>4, <1>5 DEF Sound

\* The invariant after a step that leaves the program waiting for the user.
LEMMA AtRest ==
  ASSUME Sound(doc', files', tabs'),
         pc' \in {"idle", "quit", "crashed"}, pc' = "idle" => current' \in Range(tabs'),
         dialog' = NoDialog, NamedSelectedSaved'
  PROVE  IInv'
<1>1. /\ NoDialog \in Dialog /\ NoDialog.todo = {} /\ NoDialog.selected = {}
      /\ NoDialog.unsaved = {} /\ NoDialog.range = {}
  BY DEF NoDialog, Dialog
<1>2. TypeOK'
  BY <1>1 DEF TypeOK, Sound, Open, Files
<1>3. SelectedInFile'
  BY DEF SelectedInFile
<1>4. Sound(doc, files, tabs)'
  BY DEF Sound, Stored
<1> QED
  BY <1>2, <1>3, <1>4 DEF IInv

\* The program ends.
LEMMA GoneKeeps ==
  ASSUME Gone, files' \in Files, pc' \in {"quit", "crashed"}, dialog' = NoDialog,
         NamedSelectedSaved'
  PROVE  IInv'
<1> DEFINE blank == Opened(Untitled, Blank)
<1>1. blank \in Document /\ blank.name = Untitled
  BY ContentsAssumption DEF Opened, Document
<1>2. tabs' = <<>> /\ doc' = [d \in Docs |-> blank]
  BY DEF Gone
<1>3. <<>> \in Seq(Docs) /\ IsInjective(<<>>) /\ Range(<<>>) = {}
  BY DEF IsInjective, Range
<1>4. doc' \in [Docs -> Document]
  <2> HIDE DEF blank
  <2> QED
    BY <1>1, <1>2
<1>5. Sound(doc', files', tabs')
  BY <1>2, <1>3, <1>4, Zenon DEF Sound, Distinct
<1> QED
  BY <1>5, AtRest

\* Documents R are closed.
LEMMA DeleteKeeps ==
  ASSUME NEW s, Sound(s.doc, s.files, tabs),
         NEW R, R \subseteq Open, NEW W, NEW by, NEW ok, NEW then,
         Delete(s, R, W, by, ok, then),
         by = "dialog" => \A d \in R \cap W : OwnInFile(s, d)
  PROVE  IInv'
<1> DEFINE blank == Opened(Untitled, Blank)
<1>1. blank \in Document
  BY ContentsAssumption DEF Opened, Document
<1>2. NamedSelectedSaved'
  <2> SUFFICES ASSUME NEW y \in lost', y.by = "dialog", y.named, ~y.shared PROVE FALSE
    BY DEF NamedSelectedSaved
  <2>1. PICK d \in R \cap W :
          ~InFile(s, d) /\ y = [by |-> by, ok |-> ok, named |-> s.doc[d].name # Untitled,
                                shared |-> s.doc[d].shared]
    BY DEF Delete
  <2>2. by = "dialog" /\ (s.doc[d].name # Untitled) /\ ~s.doc[d].shared
    BY <2>1, Zenon
  <2> QED
    BY <2>1, <2>2 DEF OwnInFile
<1>3. tabs \in Seq(Docs) /\ IsInjective(tabs) /\ s.doc \in [Docs -> Document] /\ Open \subseteq Docs
  BY DEF Sound, Open, Range
<1>4. files' = s.files /\ dialog' = NoDialog
  BY DEF Delete
<1>5. CASE then = "quit"
  <2>1. Gone /\ pc' = "quit"
    BY <1>5 DEF Delete
  <2> QED
    BY <1>2, <1>4, <2>1, GoneKeeps DEF Sound
<1>6. CASE then # "quit" /\ CreatesNew(R, then)
  <2>1. PICK e \in Unused \cup R, ts \in Without(tabs, R) :
          /\ tabs' = Append(ts, e)
          /\ current' = e
          /\ doc' = [d \in Docs |-> IF d \in R \cup {e} THEN blank ELSE s.doc[d]]
    BY <1>6 DEF Delete
  <2>2. ts \in Seq(Docs) /\ IsInjective(ts) /\ Range(ts) = Open \ R
    BY <1>3, WithoutTabs DEF Open
  <2>3. e \in Docs /\ e \notin Range(ts)
    BY <1>3, <2>2 DEF Unused
  <2>4. tabs' \in Seq(Docs) /\ IsInjective(tabs') /\ Range(tabs') = (Open \ R) \cup {e}
    BY <2>1, <2>2, <2>3, AppendTab
  <2>5. doc' \in [Docs -> Document]
    <3> HIDE DEF blank
    <3> QED
      BY <1>1, <1>3, <2>1
  <2>6. \A d \in Range(tabs') : doc'[d] = blank \/ (d \in Range(tabs) /\ doc'[d] = s.doc[d])
    <3> HIDE DEF blank
    <3> QED
      BY <1>3, <2>1, <2>3, <2>4 DEF Open
  <2>7. Sound(doc', files', tabs')
    BY <1>4, <2>4, <2>5, <2>6, StillSound
  <2>8. pc' = "idle"
    BY <1>6 DEF Delete
  <2> QED
    BY <1>2, <1>4, <2>1, <2>4, <2>7, <2>8, AtRest
<1>7. CASE then # "quit" /\ ~CreatesNew(R, then)
  <2>1. /\ tabs' \in Without(tabs, R)
        /\ current' = Survivor(tabs, s.current, R)
        /\ doc' = [d \in Docs |-> IF d \in R THEN blank ELSE s.doc[d]]
        /\ pc' = "idle"
    BY <1>7 DEF Delete
  <2>2. tabs' \in Seq(Docs) /\ IsInjective(tabs') /\ Range(tabs') = Open \ R
    BY <1>3, <2>1, WithoutTabs DEF Open
  <2>3. doc' \in [Docs -> Document]
    <3> HIDE DEF blank
    <3> QED
      BY <1>1, <1>3, <2>1
  <2>4. \A d \in Range(tabs') : doc'[d] = blank \/ (d \in Range(tabs) /\ doc'[d] = s.doc[d])
    <3> HIDE DEF blank
    <3> QED
      BY <1>3, <2>1, <2>2 DEF Open
  <2>5. Sound(doc', files', tabs')
    BY <1>4, <2>2, <2>3, <2>4, StillSound
  <2>6. current' \in Range(tabs')
    <3>1. ~(Range(tabs) \subseteq R)
      BY <1>7 DEF CreatesNew, Open
    <3> QED
      BY <1>3, <2>1, <2>2, <3>1, SurvivorStays DEF Open
  <2> QED
    BY <1>2, <1>4, <2>1, <2>5, <2>6, AtRest
<1> QED
  BY <1>5, <1>6, <1>7

-----------------------------------------------------------------------------
(* The steps. *)

\* What the invariant says of the state an operation begins in.
LEMMA Begins ==
  ASSUME IInv
  PROVE  /\ Sound(State.doc, State.files, tabs)
         /\ State.doc = doc /\ State.files = files /\ State.current = current
         /\ Open \subseteq Docs
         /\ pc \notin {"quit", "crashed"} => current \in Open /\ States(State)
<1>1. State.doc = doc /\ State.files = files /\ State.current = current
  BY DEF State
<1>2. Open \subseteq Docs
  BY DEF IInv, TypeOK, Open, Range
<1>3. States(State) <=> current \in Docs
  BY DEF State, States, IInv, TypeOK, Files
<1> QED
  BY <1>1, <1>2, <1>3 DEF IInv, TypeOK

\* What saving a document does to the variables.
LEMMA SaveFileStep ==
  ASSUME IInv, NEW s, States(s), Sound(s.doc, s.files, tabs), s.current \in Open,
         NEW d \in Open, NEW t \in saveFile(s, d)
  PROVE  /\ Sound(t.doc, t.files, tabs) /\ t.current = s.current
         /\ Target(s, d) \in Open /\ Outcome(s, t, Target(s, d), Open)
<1>1. Open \subseteq Docs
  BY Begins
<1>2. Target(s, d) \in Open /\ Outcome(s, t, Target(s, d), Open)
  BY <1>1, SaveFileOutcome
<1> QED
  BY <1>2, SavingIsSound

\* A document is created.
LEMMA NewKeeps ==
  ASSUME IInv, NEW e \in Unused, createEmptySchematic(tabs, e, Opened(Untitled, Blank)),
         files' = files, pc' = "idle", dialog' = NoDialog, lost' = {}
  PROVE  IInv'
<1>1. /\ tabs' = Append(tabs, e) /\ current' = e
      /\ doc' = [doc EXCEPT ![e] = Opened(Untitled, Blank)]
  BY DEF createEmptySchematic
<1>2. tabs \in Seq(Docs) /\ IsInjective(tabs) /\ e \in Docs /\ e \notin Range(tabs)
  BY DEF IInv, TypeOK, Unused, Open
<1>3. tabs' \in Seq(Docs) /\ IsInjective(tabs') /\ Range(tabs') = Range(tabs) \cup {e}
  BY <1>1, <1>2, AppendTab
<1>4. Opened(Untitled, Blank) \in Document /\ doc \in [Docs -> Document]
  BY ContentsAssumption DEF Opened, Document, IInv, TypeOK
<1>5. doc' \in [Docs -> Document]
  BY <1>1, <1>4, Zenon
<1>6. \A d \in Range(tabs') : \/ doc'[d] = Opened(Untitled, Blank)
                              \/ d \in Range(tabs) /\ doc'[d] = doc[d]
  <2>1. Range(tabs') \subseteq Docs
    BY <1>3 DEF Range
  <2> QED
    BY <1>1, <1>2, <1>3, <1>4, <2>1
<1>7. Sound(doc', files', tabs')
  BY <1>3, <1>5, <1>6, StillSound DEF IInv
<1> QED
  BY <1>1, <1>3, <1>7, AtRest DEF IInv, TypeOK, NamedSelectedSaved

\* Editing keeps the invariant.
LEMMA EditKeeps ==
  ASSUME IInv, Edit
  PROVE  IInv'
<1>1. PICK c \in Contents, b \in BOOLEAN :
        doc' = [doc EXCEPT ![current].content = c, ![current].changed = b]
  BY Zenon DEF Edit
<1>2. current \in Open /\ current \in Docs /\ doc \in [Docs -> Document]
  BY Begins DEF Edit, IInv, TypeOK
<1> DEFINE q == [[doc[current] EXCEPT !.content = c] EXCEPT !.changed = b]
<1>3. /\ q \in Document /\ q.name = doc[current].name /\ q.saved = doc[current].saved
      /\ q.shared = doc[current].shared
  <2>1. doc[current] \in Document
    BY <1>2
  <2> QED
    BY <2>1, Zenon DEF Document
<1>4. doc' = [doc EXCEPT ![current] = q]
  BY <1>1, <1>2, Zenon
<1> HIDE DEF q
<1>5. doc' \in [Docs -> Document] /\ doc'[current] = q /\ \A d \in Docs \ {current} : doc'[d] = doc[d]
  BY <1>2, <1>3, <1>4
<1>6. \A d \in Open : /\ doc'[d].name = doc[d].name /\ doc'[d].saved = doc[d].saved
                     /\ doc'[d].shared = doc[d].shared
  BY <1>2, <1>3, <1>5, Begins
<1>7. Distinct(doc', Range(tabs))
  BY <1>6 DEF Distinct, IInv, Sound, Open
<1>8. \A d \in Range(tabs) : Stored(doc', files, d)
  BY <1>6 DEF Stored, IInv, Sound, Open
<1>9. Sound(doc', files', tabs')
  BY <1>5, <1>7, <1>8, Zenon DEF Sound, IInv, Edit
<1> QED
  BY <1>2, <1>9, AtRest DEF Edit, IInv, TypeOK, Open, NamedSelectedSaved

\* Document e is opened as the last tab.
LEMMA LoadKeeps ==
  ASSUME IInv, NEW us \in Seq(Docs), IsInjective(us), Range(us) \subseteq Open,
         NEW e \in Unused, NEW n \in Names, tabs' = Append(us, e), current' = e,
         doc' \in [Docs -> Document], Beside(doc, doc', Range(us), e, n),
         files' \in Files, Loaded(doc', files, files', e, n),
         pc' = "idle", dialog' = NoDialog, lost' = {}
  PROVE  IInv'
<1>1. e \in Docs /\ e \notin Range(us)
  BY DEF Unused, Open
<1>2. Sound(doc, files, tabs) /\ Range(us) \subseteq Range(tabs)
  BY DEF IInv, Open
<1>3. Sound(doc', files', Append(us, e))
  BY <1>1, <1>2, OpenedIsSound, Zenon
<1>4. e \in Range(Append(us, e))
  BY <1>1, AppendTab
<1> QED
  BY <1>3, <1>4, AtRest DEF IInv, TypeOK, NamedSelectedSaved

\* The documents after one is opened that shares its name with those of Twins.
LEMMA OpenPageGives ==
  ASSUME IInv, NEW r, NEW e \in Unused, NEW x \in Document, x.name \in Names, OpenPage(r, e, x),
         r = x.name => \A d \in Open : doc[d].name # r
  PROVE  /\ tabs' = Append(tabs, e) /\ current' = e /\ doc' \in [Docs -> Document]
         /\ doc'[e].name = x.name /\ doc'[e].saved = x.saved
         /\ Beside(doc, doc', Open, e, x.name)
<1> DEFINE Twins == {d \in Open : doc[d].name = x.name /\ x.name # r}
           q == [x EXCEPT !.shared = Twins # {}]
<1>1. /\ tabs' = Append(tabs, e) /\ current' = e
      /\ doc' = [d \in Docs |-> IF d = e THEN q
                                ELSE IF d \in Twins THEN [doc[d] EXCEPT !.shared = TRUE]
                                ELSE doc[d]]
  BY DEF OpenPage
<1>2. doc \in [Docs -> Document] /\ Open \subseteq Docs /\ e \in Docs /\ e \notin Open
  BY Begins DEF IInv, TypeOK, Unused
<1>3. /\ q \in Document /\ q.name = x.name /\ q.saved = x.saved
      /\ q.shared = (Twins # {})
  <2> DEFINE b == Twins # {}
  <2>1. b \in BOOLEAN
    OBVIOUS
  <2>2. q = [x EXCEPT !.shared = b]
    OBVIOUS
  <2> HIDE DEF b
  <2>3. q \in Document /\ q.name = x.name /\ q.saved = x.saved /\ q.shared = b
    BY <2>1, <2>2, Zenon DEF Document
  <2> QED
    BY <2>3 DEF b
<1>4. ASSUME NEW d \in Docs
      PROVE  /\ [doc[d] EXCEPT !.shared = TRUE] \in Document
             /\ [doc[d] EXCEPT !.shared = TRUE].name = doc[d].name
             /\ [doc[d] EXCEPT !.shared = TRUE].saved = doc[d].saved
             /\ [doc[d] EXCEPT !.shared = TRUE].shared = TRUE
  <2>1. doc[d] \in Document
    BY <1>2
  <2> QED
    BY <2>1, Zenon DEF Document
<1> HIDE DEF q
<1>5. doc' \in [Docs -> Document] /\ doc'[e] = q
  BY <1>1, <1>2, <1>3, <1>4
<1>6. ASSUME NEW d \in Open
      PROVE  /\ doc'[d].name = doc[d].name /\ doc'[d].saved = doc[d].saved
             /\ doc[d].shared => doc'[d].shared
             /\ doc[d].name = x.name => doc'[d].shared /\ doc'[e].shared
  <2>1. CASE d \in Twins
    <3>1. doc'[d] = [doc[d] EXCEPT !.shared = TRUE]
      BY <1>1, <1>2, <2>1
    <3> QED
      BY <1>2, <1>3, <1>4, <1>5, <2>1, <3>1
  <2>2. CASE d \notin Twins
    BY <1>1, <1>2, <2>2
  <2> QED
    BY <2>1, <2>2
<1> QED
  BY <1>1, <1>3, <1>5, <1>6 DEF Beside

\* Going to another document, and nothing else, keeps the invariant.
LEMMA ViewKeeps ==
  ASSUME IInv, pc = "idle", current' \in Open, lost' = {},
         UNCHANGED <<doc, files, tabs, pc, dialog>>
  PROVE  IInv'
BY AtRest DEF IInv, TypeOK, Open, NamedSelectedSaved

\* gotoPage keeps the invariant.
LEMMA GotoPageKeeps ==
  ASSUME IInv, NEW n \in Names, gotoPage(n)
  PROVE  IInv'
<1>1. pc = "idle" /\ pc' = "idle" /\ files' = files /\ dialog' = NoDialog /\ lost' = {} /\ dialog' = dialog
  BY DEF gotoPage, IInv
<1>2. tabs \in Seq(Docs) /\ IsInjective(tabs) /\ tabs # <<>> /\ doc \in [Docs -> Document]
  <2>1. /\ tabs \in Seq(Docs) /\ IsInjective(tabs) /\ doc \in [Docs -> Document]
        /\ current \in Range(tabs)
    BY <1>1, Zenon DEF IInv, TypeOK, Open
  <2> QED
    BY <2>1 DEF Range
<1>3. CASE current' \in findDoc(n) /\ doc' = doc /\ tabs' = tabs
  BY <1>1, <1>2, <1>3, FindDoc, ViewKeeps
<1>4. CASE ~(current' \in findDoc(n) /\ doc' = doc /\ tabs' = tabs)
  <2> DEFINE first == doc[tabs[1]]
             ts == IF first.name = Untitled /\ ~first.changed THEN Tail(tabs) ELSE tabs
             x == Opened(n, files[n])
  <2>1. findDoc(n) = {} /\ files[n] # NoFile
    BY <1>4 DEF gotoPage
  <2>2. PICK e \in Unused : createEmptySchematic(ts, e, x)
    BY <1>4 DEF gotoPage
  <2>3. files[n] \in Contents /\ files \in Files
    BY <2>1 DEF IInv, TypeOK, Files
  <2>4. ts \in Seq(Docs) /\ IsInjective(ts) /\ Range(ts) \subseteq Open
    BY <1>2, TailTabs DEF Open
  <2>5. x \in Document /\ x.name = n /\ x.saved = files[n]
    BY <2>3, NamesAssumption DEF Opened, Document, Untitled
  <2> HIDE DEF ts, x
  <2>6. tabs' = Append(ts, e) /\ current' = e /\ doc' = [doc EXCEPT ![e] = x]
    BY <2>2 DEF createEmptySchematic
  <2>7. e \in Docs /\ e \notin Range(ts) /\ Range(ts) \subseteq Docs
    BY <2>4, Begins DEF Unused
  <2>8. /\ doc' \in [Docs -> Document] /\ doc'[e] = x
        /\ \A d \in Range(ts) : doc'[d] = doc[d] /\ doc[d].name # n
    BY <1>2, <2>1, <2>4, <2>5, <2>6, <2>7, FindDoc
  <2>9. Beside(doc, doc', Range(ts), e, n) /\ Loaded(doc', files, files', e, n)
    BY <1>1, <2>5, <2>8 DEF Beside, Loaded
  <2> QED
    BY <1>1, <2>3, <2>4, <2>6, <2>8, <2>9, LoadKeeps
<1> QED
  BY <1>3, <1>4

\* slotChangePage keeps the invariant.
LEMMA ChangePageKeeps ==
  ASSUME IInv, NEW r \in Names \cup Spellings, slotChangePage(r)
  PROVE  IInv'
<1> DEFINE n == absoluteFilePath(r)
<1>1. pc = "idle" /\ pc' = "idle" /\ dialog' = NoDialog /\ lost' = {} /\ dialog' = dialog
  BY DEF slotChangePage, IInv
<1>2. /\ tabs \in Seq(Docs) /\ IsInjective(tabs) /\ tabs # <<>> /\ files \in Files
      /\ n \in Names /\ n # Untitled
  <2>1. /\ tabs \in Seq(Docs) /\ IsInjective(tabs) /\ current \in Range(tabs)
        /\ files \in Files
    BY <1>1, Zenon DEF IInv, TypeOK, Open, Files
  <2>2. tabs # <<>>
    BY <2>1 DEF Range
  <2>3. n \in Names /\ n # Untitled
    BY NamesAssumption, SpellingsAssumption DEF absoluteFilePath, Untitled
  <2> QED
    BY <2>1, <2>2, <2>3
<1> HIDE DEF n
<1>3. CASE current' \in findDoc(r) /\ doc' = doc /\ tabs' = tabs /\ files' = files
  BY <1>1, <1>2, <1>3, FindDoc, ViewKeeps
<1>4. CASE current' = tabs[Len(tabs)] /\ doc' = doc /\ tabs' = tabs /\ files' = files
  <2>1. current' \in Open
    BY <1>2, <1>4 DEF Open, Range
  <2> QED
    BY <1>1, <1>4, <2>1, ViewKeeps
<1>5. ASSUME findDoc(r) = {}, NEW e \in Unused, NEW x \in Document, x.name = n, OpenPage(r, e, x),
             files' \in Files, \A m \in Names \ {n} : files'[m] = files[m],
             x.saved # NoFile => files'[n] = x.saved
      PROVE  IInv'
  <2>1. \A d \in Open : doc[d].name # r
    BY <1>2, <1>5, FindDoc
  <2>2. /\ tabs' = Append(tabs, e) /\ current' = e /\ doc' \in [Docs -> Document]
        /\ doc'[e].name = n /\ doc'[e].saved = x.saved
        /\ Beside(doc, doc', Open, e, n)
    <3>1. x.name \in Names /\ (r = x.name => \A d \in Open : doc[d].name # r)
      BY <1>2, <1>5, <2>1
    <3>2. /\ tabs' = Append(tabs, e) /\ current' = e /\ doc' \in [Docs -> Document]
          /\ doc'[e].name = x.name /\ doc'[e].saved = x.saved
          /\ Beside(doc, doc', Open, e, x.name)
      BY <1>5, <3>1, OpenPageGives, Zenon
    <3> QED
      BY <1>5, <3>2
  <2>3. /\ Range(tabs) \subseteq Open /\ Beside(doc, doc', Range(tabs), e, n)
        /\ Loaded(doc', files, files', e, n)
    BY <1>5, <2>2 DEF Open, Loaded
  <2> QED
    BY <1>1, <1>2, <1>5, <2>2, <2>3, LoadKeeps, Zenon
<1>6. /\ \A c \in Contents : /\ Opened(n, c) \in Document /\ Opened(n, c).name = n
                             /\ Opened(n, c).saved = c
      /\ Renamed(Opened(Untitled, Blank), n) \in Document
      /\ Renamed(Opened(Untitled, Blank), n).name = n
      /\ Renamed(Opened(Untitled, Blank), n).saved = NoFile
  BY <1>2, ContentsAssumption DEF Opened, Renamed, Document
<1>7. ASSUME findDoc(r) = {}, files[n] # NoFile, NEW e \in Unused,
             OpenPage(r, e, Opened(n, files[n])), files' = files
      PROVE  IInv'
  <2>1. files[n] \in Contents
    BY <1>2, <1>7 DEF Files
  <2> QED
    BY <1>2, <1>5, <1>6, <1>7, <2>1
<1>8. ASSUME findDoc(r) = {}, NEW e \in Unused, OpenPage(r, e, Opened(n, Blank)),
             files' = [files EXCEPT ![n] = Blank]
      PROVE  IInv'
  <2>1. files' \in Files /\ files'[n] = Blank /\ \A m \in Names \ {n} : files'[m] = files[m]
    BY <1>2, <1>8, ContentsAssumption DEF Files
  <2> QED
    BY <1>5, <1>6, <1>8, <2>1, ContentsAssumption
<1>9. ASSUME findDoc(r) = {}, NEW e \in Unused,
             OpenPage(r, e, Renamed(Opened(Untitled, Blank), n)), files' = files
      PROVE  IInv'
  BY <1>2, <1>5, <1>6, <1>9
<1> QED
  BY <1>3, <1>4, <1>7, <1>8, <1>9 DEF slotChangePage, n

\* Saving from the menu keeps the invariant.
LEMMA MenuSaveKeeps ==
  ASSUME IInv, slotFileSave \/ slotFileSaveAs
  PROVE  IInv'
<1>1. /\ pc = "idle" /\ pc' = "idle" /\ tabs' = tabs /\ dialog' = NoDialog /\ lost' = {}
  BY DEF slotFileSave, slotFileSaveAs, IInv
<1>2. /\ current \in Open /\ States(State) /\ Sound(State.doc, State.files, tabs)
      /\ State.current = current /\ Open \subseteq Docs
  BY <1>1, Begins
<1>3. PICK t \in saveFile(State, current) \cup saveAs(State) : Becomes(t)
  BY DEF slotFileSave, slotFileSaveAs
<1>4. Sound(t.doc, t.files, tabs) /\ t.current = current
  <2>1. CASE t \in saveFile(State, current)
    BY <1>1, <1>2, <2>1, SaveFileStep
  <2>2. CASE t \in saveAs(State)
    BY <1>2, <2>2, SaveAsOutcome, SavingIsSound
  <2> QED
    BY <2>1, <2>2
<1> QED
  BY <1>1, <1>2, <1>3, <1>4, AtRest DEF Becomes, IInv, TypeOK, NamedSelectedSaved, Open

\* "Save All" begins.
LEMMA SaveAllKeeps ==
  ASSUME IInv, slotFileSaveAll
  PROVE  IInv'
<1>1. /\ pc = "idle" /\ pc' = "saveAll" /\ No' = 1 /\ lost' = {}
      /\ UNCHANGED <<doc, files, tabs, current, dialog>>
  BY DEF slotFileSaveAll
<1>2. 1 \in DOMAIN tabs
  BY <1>1 DEF IInv, TypeOK, Open, Range
<1>3. TypeOK'
  BY <1>1, <1>2 DEF IInv, TypeOK, Open
<1>4. Sound(doc, files, tabs)'
  BY <1>1 DEF IInv, Sound, Stored
<1> QED
  BY <1>1, <1>3, <1>4 DEF IInv, SelectedInFile, NamedSelectedSaved

\* One document is saved by "Save All".
LEMMA SaveTabKeeps ==
  ASSUME IInv, SaveTab
  PROVE  IInv'
<1> DEFINE d == tabs[No]
           s == IF doc[d].name = Untitled THEN [State EXCEPT !.current = d] ELSE State
<1>1. pc = "saveAll" /\ tabs' = tabs /\ dialog' = NoDialog /\ lost' = {}
  BY DEF SaveTab, IInv
<1>2. No \in DOMAIN tabs /\ d \in Open /\ tabs \in Seq(Docs)
  BY <1>1 DEF IInv, TypeOK, Open, Range
<1>3. PICK t \in saveFile(s, d) : Becomes(t)
  BY DEF SaveTab
<1>4. States(s) /\ s.doc = doc /\ s.files = files /\ s.current \in Open
  <2>1. current \in Open /\ States(State) /\ Open \subseteq Docs
    BY <1>1, Begins
  <2>2. d \in Docs
    BY <1>2, <2>1
  <2> HIDE DEF d
  <2> QED
    BY <1>2, <2>1, <2>2 DEF State, States
<1>5. Sound(s.doc, s.files, tabs)
  BY <1>4 DEF IInv
<1> HIDE DEF s
<1>6. Sound(t.doc, t.files, tabs) /\ t.current = s.current
  BY <1>1, <1>2, <1>3, <1>4, <1>5, SaveFileStep
<1>7. Sound(doc', files', tabs') /\ current' \in Range(tabs')
  BY <1>1, <1>3, <1>4, <1>6 DEF Becomes, Open
<1>8. CASE No < Len(tabs)
  <2>1. No' = No + 1 /\ pc' = "saveAll"
    BY <1>1, <1>8 DEF SaveTab
  <2>2. No' \in DOMAIN tabs
    BY <1>2, <1>8, <2>1
  <2>3. TypeOK'
    BY <1>1, <1>7, <2>1, <2>2 DEF IInv, TypeOK, Open, Sound, Files
  <2>4. Sound(doc, files, tabs)'
    BY <1>7 DEF Sound, Stored
  <2> QED
    BY <1>1, <2>1, <2>3, <2>4 DEF IInv, SelectedInFile, NamedSelectedSaved
<1>9. CASE ~(No < Len(tabs))
  <2>1. pc' = "idle"
    BY <1>9 DEF SaveTab
  <2> QED
    BY <1>1, <1>7, <2>1, AtRest, Zenon DEF IInv, TypeOK, NamedSelectedSaved
<1> QED
  BY <1>8, <1>9

\* Closing one document keeps the invariant.
LEMMA CloseFileKeeps ==
  ASSUME IInv, NEW d \in Open, closeFile(d)
  PROVE  IInv'
<1>1. pc = "idle"
  BY DEF closeFile
<1>2. /\ current \in Open /\ States(State) /\ Sound(State.doc, State.files, tabs)
      /\ State.current = current /\ Open \subseteq Docs
  BY <1>1, Begins
<1>3. ASSUME NEW s \in saveFile(State, current), Delete(s, {d}, {d}, "closeFile", s.ok, "stay")
      PROVE  IInv'
  <2>1. Sound(s.doc, s.files, tabs)
    BY <1>1, <1>2, <1>3, SaveFileStep
  <2> QED
    BY <1>2, <1>3, <2>1, DeleteKeeps
<1>4. CASE Delete(State, {d}, {}, "closeFile", TRUE, "stay")
  BY <1>2, <1>4, DeleteKeeps, Zenon
<1> QED
  BY <1>3, <1>4, Zenon DEF closeFile

\* Closing several documents, or asking about them, keeps the invariant.
LEMMA CloseRangeKeeps ==
  ASSUME IInv, NEW R, R \subseteq Open, NEW then \in {"stay", "new", "quit"},
         closeTabsRange(R, then)
  PROVE  IInv'
<1>1. pc = "idle"
  BY DEF closeTabsRange
<1>2. Sound(State.doc, State.files, tabs) /\ Open \subseteq Docs
  BY Begins
<1>3. CASE Unsaved(R) = {}
  <2>1. Delete(State, R, {}, "dialog", TRUE, then)
    BY <1>3, Zenon DEF closeTabsRange
  <2> QED
    BY <1>2, <2>1, DeleteKeeps, Zenon
<1>4. CASE Unsaved(R) # {}
  <2>1. /\ pc' = "dialog" /\ lost' = {}
        /\ dialog' = [NoDialog EXCEPT !.range = R, !.unsaved = Unsaved(R), !.then = then]
        /\ UNCHANGED <<doc, files, tabs, current>>
    BY <1>4, Zenon DEF closeTabsRange
  <2>2. R \in SUBSET Docs /\ Unsaved(R) \in SUBSET Docs /\ Unsaved(R) \subseteq R
    BY <1>2 DEF Unsaved
  <2>3. /\ dialog' \in Dialog /\ dialog'.range = R /\ dialog'.unsaved = Unsaved(R)
        /\ dialog'.selected = {} /\ dialog'.todo = {}
    <3>1. dialog' = [range |-> R, unsaved |-> Unsaved(R), selected |-> {}, todo |-> {},
                     failed |-> FALSE, then |-> then]
      BY <2>1, Zenon DEF NoDialog
    <3> QED
      BY <2>2, <3>1 DEF Dialog
  <2>4. TypeOK'
    BY <1>1, <2>1, <2>2, <2>3 DEF IInv, TypeOK, Open
  <2>5. Sound(doc, files, tabs)'
    BY <2>1 DEF IInv, Sound, Stored
  <2> QED
    BY <2>1, <2>4, <2>5 DEF IInv, SelectedInFile, NamedSelectedSaved
<1> QED
  BY <1>3, <1>4

\* "Save Selected" keeps the invariant.
LEMMA SelectKeeps ==
  ASSUME IInv, saveSelectedClicked
  PROVE  IInv'
<1>1. PICK T \in SUBSET dialog.unsaved :
        dialog' = [dialog EXCEPT !.selected = T, !.todo = T, !.failed = FALSE]
  BY Zenon DEF saveSelectedClicked
<1>2. pc = "dialog" /\ pc' = "saving" /\ lost' = {} /\ UNCHANGED <<doc, files, tabs, current>>
  BY DEF saveSelectedClicked
<1>3. dialog \in Dialog /\ T \subseteq dialog.range /\ T \in SUBSET Docs
  BY <1>1 DEF IInv, TypeOK, Dialog
<1>4. /\ dialog' \in Dialog /\ dialog'.range = dialog.range /\ dialog'.unsaved = dialog.unsaved
      /\ dialog'.selected = T /\ dialog'.todo = T
  BY <1>1, <1>3, Zenon DEF Dialog
<1>5. TypeOK'
  BY <1>2, <1>3, <1>4 DEF IInv, TypeOK, Open
<1>6. Sound(doc, files, tabs)'
  BY <1>2 DEF IInv, Sound, Stored
<1>7. SelectedInFile'
  BY <1>4 DEF SelectedInFile
<1> QED
  BY <1>2, <1>5, <1>6, <1>7 DEF IInv, NamedSelectedSaved

\* One turn of the loop over the checked documents keeps the invariant: what was
\* saved in an earlier turn stays in its file, because no other open document has
\* its name and a document that is given a name gets one no open document has.
LEMMA SaveSelectedKeeps ==
  ASSUME IInv, SaveSelected
  PROVE  IInv'
<1>1. pc = "saving" /\ lost' = {}
  BY DEF SaveSelected
<1>2. /\ current \in Open /\ States(State) /\ Sound(State.doc, State.files, tabs)
      /\ State.current = current /\ State.doc = doc /\ Open \subseteq Docs
  BY <1>1, Begins
<1>3. /\ dialog \in Dialog /\ dialog.todo \subseteq dialog.selected
      /\ dialog.selected \subseteq Open
  BY DEF IInv, TypeOK
<1>4. ASSUME NEW d \in dialog.todo, NEW t \in saveFile(State, d), Becomes(t),
             dialog' = [dialog EXCEPT !.todo = @ \ {d},
                                      !.unsaved = IF t.ok THEN @ \ {d} ELSE @,
                                      !.failed = Unsavable(t.ok)],
             UNCHANGED <<tabs, pc>>
      PROVE  IInv'
  <2> DEFINE x == Target(State, d)
  <2>1. d \in Open
    BY <1>3
  <2>2. /\ Sound(t.doc, t.files, tabs) /\ t.current = current
        /\ x \in Open /\ Outcome(State, t, x, Open)
    BY <1>2, <2>1, SaveFileStep
  <2>3. /\ t.ok \in BOOLEAN
        /\ t.ok => /\ InFile(t, x)
                   /\ \A e \in Open \ {x} : /\ Same(t.doc[e], State.doc[e])
                                            /\ OwnInFile(State, e) => OwnInFile(t, e)
    <3> HIDE DEF x
    <3> QED
      BY <1>2, <2>2, SavingIsSound
  <2>4. doc' = t.doc /\ files' = t.files /\ current' = t.current
    BY <1>4 DEF Becomes
  <2>5. /\ dialog' \in Dialog /\ dialog'.range = dialog.range /\ dialog'.selected = dialog.selected
        /\ dialog'.todo = dialog.todo \ {d} /\ dialog'.unsaved \subseteq dialog.unsaved
        /\ dialog'.failed = Unsavable(t.ok)
    <3> DEFINE u == IF t.ok THEN dialog.unsaved \ {d} ELSE dialog.unsaved
               f == Unsavable(t.ok)
    <3>1. u \subseteq dialog.unsaved
      OBVIOUS
    <3>2. f \in BOOLEAN
      BY DEF Unsavable
    <3>3. dialog' = [dialog EXCEPT !.todo = dialog.todo \ {d}, !.unsaved = u, !.failed = f]
      BY <1>3, <1>4 DEF Dialog
    <3> HIDE DEF u, f
    <3>4. /\ dialog' \in Dialog /\ dialog'.range = dialog.range /\ dialog'.selected = dialog.selected
          /\ dialog'.todo = dialog.todo \ {d} /\ dialog'.unsaved = u /\ dialog'.failed = f
      BY <1>3, <3>1, <3>2, <3>3, Zenon DEF Dialog
    <3> QED
      BY <3>1, <3>4 DEF f
  <2>6. TypeOK'
    <3>1. /\ dialog'.todo \subseteq dialog'.selected /\ dialog'.selected \subseteq dialog'.range
          /\ dialog'.unsaved \subseteq dialog'.range /\ dialog'.range \subseteq Open
      BY <2>5, Zenon DEF IInv, TypeOK
    <3> QED
      BY <1>1, <1>2, <1>4, <2>2, <2>4, <2>5, <3>1, Zenon DEF IInv, TypeOK, Open, Sound, Files
  <2>7. Sound(doc, files, tabs)'
    BY <1>4, <2>2, <2>4 DEF Sound, Stored
  <2>8. SelectedInFile'
    <3> SUFFICES ASSUME ~dialog'.failed, NEW e \in dialog'.selected \ dialog'.todo
                 PROVE  OwnInFile(State', e)
      BY DEF SelectedInFile, OwnInFile, InFile
    <3>1. t.ok /\ ~dialog.failed
      BY <2>3, <2>5, Zenon DEF Unsavable
    <3>2. e \in Open
      BY <1>3, <2>5
    <3>3. OwnInFile(t, e)
      <4>1. CASE e = x
        BY <2>3, <3>1, <4>1 DEF OwnInFile
      <4>2. CASE e # x /\ e = d
        <5>1. doc[d].name = Untitled
          BY <1>2, <4>2 DEF Target
        <5>2. t.doc[e].name = Untitled
          BY <1>2, <2>3, <3>1, <3>2, <4>2, <5>1 DEF Same
        <5> QED
          BY <5>2 DEF OwnInFile
      <4>3. CASE e # x /\ e # d
        <5>1. e \in dialog.selected \ dialog.todo
          BY <2>5, <4>3
        <5>2. OwnInFile(State, e)
          BY <1>1, <3>1, <5>1 DEF IInv, SelectedInFile
        <5> QED
          BY <2>3, <3>1, <3>2, <4>3, <5>2
      <4> QED
        BY <4>1, <4>2, <4>3
    <3> QED
      BY <2>4, <3>3 DEF OwnInFile, InFile, State
  <2> QED
    BY <1>1, <1>4, <2>6, <2>7, <2>8 DEF IInv, NamedSelectedSaved
<1>5. ASSUME NEW d \in dialog.todo, NEW t \in saveFile(State, d), Gone, files' = t.files,
             dialog' = NoDialog, pc' = "crashed"
      PROVE  IInv'
  <2>1. Sound(t.doc, t.files, tabs)
    BY <1>2, <1>3, SaveFileStep
  <2> QED
    BY <1>1, <1>5, <2>1, GoneKeeps DEF Sound, NamedSelectedSaved
<1> QED
  BY <1>4, <1>5, Zenon DEF SaveSelected

\* Leaving the save dialog keeps the invariant.
LEMMA DialogDoneKeeps ==
  ASSUME IInv, SelectedDone \/ dontSaveClicked \/ reject
  PROVE  IInv'
<1>1. /\ Sound(State.doc, State.files, tabs) /\ State.doc = doc
      /\ Open \subseteq Docs /\ dialog.range \subseteq Open
  BY Begins DEF IInv, TypeOK
<1>2. CASE SelectedDone
  <2>1. CASE dialog.failed
    <3>1. pc' = "dialog" /\ lost' = {} /\ UNCHANGED <<doc, files, tabs, current, dialog>> /\ pc = "saving"
      BY <1>2, <2>1 DEF SelectedDone
    <3>2. TypeOK'
      BY <3>1 DEF IInv, TypeOK, Open
    <3>3. Sound(doc, files, tabs)'
      BY <3>1 DEF IInv, Sound, Stored
    <3> QED
      BY <3>1, <3>2, <3>3 DEF IInv, SelectedInFile, NamedSelectedSaved
  <2>2. CASE ~dialog.failed
    <3>1. Delete(State, dialog.range, dialog.selected, "dialog", TRUE, dialog.then)
      BY <1>2, <2>2, Zenon DEF SelectedDone
    <3>2. \A d \in dialog.selected : OwnInFile(State, d)
      BY <1>2, <2>2 DEF SelectedDone, IInv, SelectedInFile
    <3> QED
      BY <1>1, <3>1, <3>2, DeleteKeeps, Zenon
  <2> QED
    BY <2>1, <2>2
<1>3. CASE dontSaveClicked
  <2>1. Delete(State, dialog.range, {}, "dialog", TRUE, dialog.then)
    BY <1>3, Zenon DEF dontSaveClicked
  <2>2. \A d \in dialog.range \cap {} : OwnInFile(State, d)
    OBVIOUS
  <2> QED
    BY <1>1, <2>1, <2>2, DeleteKeeps, Zenon
<1>4. CASE reject
  <2>1. pc = "dialog" /\ pc' = "idle" /\ dialog' = NoDialog /\ lost' = {} /\ files' = files
    BY <1>4 DEF reject
  <2>2. CASE dialog.then = "new"
    <3>1. PICK e \in Unused : createEmptySchematic(tabs, e, Opened(Untitled, Blank))
      BY <1>4, <2>2 DEF reject
    <3> QED
      BY <2>1, <3>1, NewKeeps
  <2>3. CASE dialog.then # "new"
    <3>1. doc' = doc /\ tabs' = tabs /\ current' = current
      BY <1>4, <2>3 DEF reject
    <3>2. Sound(doc', files', tabs')
      BY <2>1, <3>1 DEF IInv
    <3>3. current' \in Range(tabs')
      BY <2>1, <3>1 DEF IInv, TypeOK, Open
    <3>4. NamedSelectedSaved'
      BY <2>1 DEF NamedSelectedSaved
    <3> QED
      BY <1>1, <2>1, <3>2, <3>3, <3>4, AtRest
  <2> QED
    BY <2>2, <2>3
<1> QED
  BY <1>2, <1>3, <1>4

-----------------------------------------------------------------------------
(* The invariant. *)

\* It holds in the initial states.
LEMMA Starts == Init => IInv
<1> SUFFICES ASSUME Init PROVE IInv
  OBVIOUS
<1>1. PICK d \in Docs : tabs = <<d>>
  BY DEF Init
<1>2. tabs \in Seq(Docs) /\ IsInjective(tabs) /\ Range(tabs) = {d} /\ current = d
  BY <1>1 DEF Init, IsInjective, Range
<1>3. Opened(Untitled, Blank) \in Document
  BY ContentsAssumption DEF Opened, Document
<1>4. doc \in [Docs -> Document] /\ files \in Files
  BY <1>3 DEF Init, Files
<1>5. Stored(doc, files, d)
  BY DEF Init, Opened, Stored, Untitled
<1>6. Sound(doc, files, tabs)
  BY <1>2, <1>4, <1>5 DEF Sound, Distinct
<1>7. /\ NoDialog \in Dialog /\ NoDialog.todo = {} /\ NoDialog.selected = {}
      /\ NoDialog.unsaved = {} /\ NoDialog.range = {}
  BY DEF NoDialog, Dialog
<1>8. TypeOK
  BY <1>2, <1>4, <1>7 DEF Init, TypeOK, Open
<1> QED
  BY <1>6, <1>8 DEF IInv, Init, SelectedInFile, NamedSelectedSaved

\* The documents of a range of tabs are open.
LEMMA RangeIsOpen ==
  ASSUME NEW i \in Int, NEW j \in Int, 1 <= i, j <= Len(tabs), tabs \in Seq(Docs), NEW keep
  PROVE  TabRange(i, j, keep) \subseteq Open
BY DEF TabRange, Open, Range

\* Every step keeps the invariant.
LEMMA Steps == IInv /\ [Next]_vars => IInv'
<1> SUFFICES ASSUME IInv, [Next]_vars PROVE IInv'
  OBVIOUS
<1>1. CASE UNCHANGED vars
  BY <1>1, Zenon DEF vars, IInv, TypeOK, Sound, Distinct, Stored, SelectedInFile, OwnInFile, InFile,
              State, NamedSelectedSaved, Open
<1>2. CASE slotFileSaveAll
  BY <1>2, SaveAllKeeps
<1>3. CASE SaveTab
  BY <1>3, SaveTabKeeps
<1>4. CASE Operation
  <2>1. CASE slotFileNew
    <3>1. PICK e \in Unused : createEmptySchematic(tabs, e, Opened(Untitled, Blank))
      BY <2>1 DEF slotFileNew
    <3> QED
      BY <1>4, <2>1, <3>1, NewKeeps DEF slotFileNew, IInv
  <2>2. CASE Edit
    BY <1>4, <2>2, EditKeeps
  <2>3. CASE slotChangeView
    BY <1>4, <2>3, ViewKeeps DEF slotChangeView
  <2>4. CASE slotFileSave \/ slotFileSaveAs
    BY <1>4, <2>4, MenuSaveKeeps
  <2>5. CASE slotFileCloseAll \/ slotMenuProjClose \/ slotFileQuit
    <3>1. PICK then \in {"stay", "new", "quit"} : closeTabsRange(Open, then)
      BY <2>5 DEF slotFileCloseAll, slotMenuProjClose, slotFileQuit
    <3> QED
      BY <1>4, <3>1, CloseRangeKeeps
  <2>6. ASSUME NEW n \in Names, gotoPage(n) PROVE IInv'
    BY <2>6, GotoPageKeeps
  <2>7. ASSUME NEW d \in Open, closeFile(d) PROVE IInv'
    BY <1>4, <2>7, CloseFileKeeps
  <2>8. ASSUME NEW i \in 1 .. Len(tabs),
               closeAllLeft(i) \/ closeAllRight(i) \/ slotFileCloseOthers(i)
        PROVE  IInv'
    <3>1. tabs \in Seq(Docs) /\ Len(tabs) \in Nat
      BY DEF IInv, TypeOK
    <3>2. /\ TabRange(1, i - 1, {}) \subseteq Open
          /\ TabRange(i + 1, Len(tabs), {}) \subseteq Open
          /\ TabRange(1, Len(tabs), {tabs[i]}) \subseteq Open
      BY <3>1, RangeIsOpen
    <3>3. PICK R : R \subseteq Open /\ closeTabsRange(R, "stay")
      BY <2>8, <3>2, Zenon DEF closeAllLeft, closeAllRight, slotFileCloseOthers
    <3> QED
      BY <1>4, <3>3, CloseRangeKeeps
  <2>9. CASE saveSelectedClicked
    BY <1>4, <2>9, SelectKeeps
  <2>10. CASE SaveSelected
    BY <1>4, <2>10, SaveSelectedKeeps
  <2>11. CASE SelectedDone \/ dontSaveClicked \/ reject
    BY <1>4, <2>11, DialogDoneKeeps
  <2>12. ASSUME NEW s \in Names \cup Spellings, slotChangePage(s) PROVE IInv'
    BY <2>12, ChangePageKeeps
  <2> QED
    BY <1>4, <2>1, <2>2, <2>3, <2>4, <2>5, <2>6, <2>7, <2>8, <2>9, <2>10, <2>11, <2>12
    DEF Operation
<1> QED
  BY <1>1, <1>2, <1>3, <1>4 DEF Next

\* It is an invariant of the program.
THEOREM Inductive == Spec => []IInv
BY Starts, Steps, PTL DEF Spec

\* Until the application quits there is a current document, and its tab is one of
\* the tabs, which belong to different documents.
THEOREM TypeCorrect == Spec => []TypeOK
<1>1. IInv => TypeOK
  BY DEF IInv
<1> QED
  BY <1>1, Inductive, PTL

\* Two open documents have the same file name only if slotChangePage has opened the
\* file again under another spelling (gotoPage, saveAs, and the save dialog, "Save All"
\* and closeFile, which call saveAs).
THEOREM NamesAreUnique == Spec => []UniqueNames
<1>1. IInv => UniqueNames
  BY DEF IInv, Sound, Distinct, UniqueNames, Open
<1> QED
  BY <1>1, Inductive, PTL

\* No other document overwrites the file of an open one (saveFile, saveAs, and the
\* save dialog, "Save All" and closeFile, which call them).
THEOREM FilesAreKept == Spec => []FileAsSaved
<1>1. IInv => FileAsSaved
  BY DEF IInv, Sound, Stored, FileAsSaved, Open
<1> QED
  BY <1>1, Inductive, PTL

\* What the user selects in the save dialog has been saved when it is deleted, and its
\* file is as it was saved, if it has one of its own (SaveDialog::saveSelectedClicked,
\* closeTabsRange).
THEOREM SelectedAreSaved == Spec => []NamedSelectedSaved
<1>1. IInv => NamedSelectedSaved
  BY DEF IInv
<1> QED
  BY <1>1, Inductive, PTL
=============================================================================
