----------------------------- MODULE Documents ------------------------------
(***************************************************************************)
(* The open documents of the editor: their tabs, names, "changed" flags,   *)
(* the files on disk, and what becomes of a document's content when it is  *)
(* saved and closed (class QucsApp, SaveDialog).                           *)
(*                                                                         *)
(* A document's content is one value, and editing sets it and the flag to  *)
(* anything: when the flag is right is the subject of SchematicDoc.  Here  *)
(* the subject is which document is written to which file.  File names are *)
(* absolute and clean, as documents have them; a name put together from a  *)
(* path and a setting may be spelled otherwise.                            *)
(* Message boxes and file dialogs are modal, so the operation that opens   *)
(* one is a single step; the dialog that saves several documents is not.   *)
(***************************************************************************)
EXTENDS Integers, Sequences, Functions

CONSTANTS
  Docs,         \* document objects
  Names,        \* file names, absolute and clean
  Spellings,    \* other spellings of file names
  Clean,        \* the file name each of them stands for
  Contents,     \* what a document or a file can contain
  Blank,        \* the content of a new document
  Uses          \* the files a content has subcircuits of

ASSUME ContentsAssumption == Blank \in Contents /\ Uses \in [Contents -> SUBSET Names]

ASSUME NamesAssumption == "untitled" \notin Names

ASSUME SpellingsAssumption ==
  Spellings \cap (Names \cup {"untitled"}) = {} /\ Clean \in [Spellings -> Names]

VARIABLES
  doc,       \* the documents
  files,     \* the files on disk
  tabs,      \* the documents in the order of their tabs
  current,   \* the document whose tab is selected
  pc,        \* "idle", "quit", "crashed", or the state of the save dialog or of slotFileSaveAll
  No,        \* the tab slotFileSaveAll is at
  dialog,    \* what the save dialog is about
  lost       \* documents the user wanted saved that the last step deleted unsaved

vars == <<doc, files, tabs, current, pc, No, dialog, lost>>

Untitled == "untitled"
NoFile == "no file"

\* saved is what the document last read from the file of its name or wrote to it, if
\* it did; shared, whether the file has been opened again under another spelling.
Document == [name : Names \cup {Untitled}, content : Contents, saved : Contents \cup {NoFile},
             changed : BOOLEAN, shared : BOOLEAN]

\* A document as it is when it has just been created, or loaded from the file n.
Opened(n, c) == [name |-> n, content |-> c, saved |-> IF n = Untitled THEN NoFile ELSE c,
                 changed |-> FALSE, shared |-> FALSE]

\* The documents to be closed, those among them not saved yet, those the user has
\* checked and those of them still to be saved; whether one could not be saved; and
\* what follows when the documents are closed.
Dialog == [range : SUBSET Docs, unsaved : SUBSET Docs, selected : SUBSET Docs,
           todo : SUBSET Docs, failed : BOOLEAN, then : {"stay", "new", "quit"}]

NoDialog == [range |-> {}, unsaved |-> {}, selected |-> {}, todo |-> {},
             failed |-> FALSE, then |-> "stay"]

Open == Range(tabs)

\* The document whose name is r, the first of them, if there is one.
findDoc(r) ==
  {tabs[i] : i \in {j \in DOMAIN tabs : /\ doc[tabs[j]].name = r
                                       /\ \A k \in 1 .. j - 1 : doc[tabs[k]].name # r}}

\* The name a document gets that is created as r.
absoluteFilePath(r) == IF r \in Names THEN r ELSE Clean[r]

OpenNames(ds, ts) == {ds[d].name : d \in Range(ts)} \ {Untitled}

Init ==
  /\ tabs \in {<<d>> : d \in Docs}
  /\ current = tabs[1]
  /\ doc = [d \in Docs |-> Opened(Untitled, Blank)]
  /\ files \in [Names -> Contents \cup {NoFile}]
  /\ pc = "idle" /\ No = 0
  /\ dialog = NoDialog
  /\ lost = {}

-----------------------------------------------------------------------------
(* Saving.  The operators yield the possible outcomes of an operation on    *)
(* s = [doc, files, current]; ok is what the operation returns.             *)

State == [doc |-> doc, files |-> files, current |-> current]

\* Contents with the same subcircuits as c.
Alike(c) == {e \in Contents : Uses[e] = Uses[c]}

\* The symbol gets the ports the circuit has.
adjustPortNumbers(c) == Alike(c)

\* Text, labels and place in the list of a component whose symbol is read again.
recreateComponent(c) == Alike(c)

\* Content c of document x is in the file of its name.
Saved(x, c) == [x EXCEPT !.content = c, !.saved = c, !.changed = FALSE]

SaveIfChanged(s, d) ==
  {[doc     |-> [s.doc EXCEPT ![d] = Saved(@, c)],
    files   |-> [s.files EXCEPT ![s.doc[d].name] = IF s.doc[d].changed THEN c ELSE @],
    current |-> s.current, ok |-> TRUE] : c \in adjustPortNumbers(s.doc[d].content)}

\* QucsDoc::save of document d.  The file may turn out not to be writable; the ports
\* are adjusted nevertheless.
Save(s, d) ==
  {[doc     |-> [s.doc EXCEPT ![d] = Saved(@, c)],
    files   |-> [s.files EXCEPT ![s.doc[d].name] = c],
    current |-> s.current, ok |-> TRUE] : c \in adjustPortNumbers(s.doc[d].content)}
  \cup {[doc |-> [s.doc EXCEPT ![d].content = c], files |-> s.files, current |-> s.current,
          ok |-> FALSE] : c \in adjustPortNumbers(s.doc[d].content)}

\* The subcircuits of file n are recreated in all open documents, the one that was
\* saved among them; none of them counts as changed for that.
updatePortNumber(s, n) ==
  LET Users == {e \in Open : n \in Uses[s.doc[e].content]} IN
  {[s EXCEPT !.doc = [e \in Docs |-> IF e \in Users THEN [s.doc[e] EXCEPT !.content = f[e]]
                                    ELSE s.doc[e]]] :
     f \in {g \in [Users -> Contents] : \A e \in Users : g[e] \in recreateComponent(s.doc[e].content)}}

\* What saveFile and saveAs do with a document that has a name.
SaveAndUpdate(s, d) ==
  UNION {IF t.ok THEN updatePortNumber(t, s.doc[d].name) ELSE {t} : t \in Save(s, d)}

AnyName(s) == Names

\* The names that are not those of an open document.
FreeNames(s) == Names \ OpenNames(s.doc, tabs)

\* Document x under the name n, to whose file it has not been written yet.
Renamed(x, n) == [x EXCEPT !.name = n, !.saved = NoFile, !.shared = FALSE]

\* saveAs gives the current document a name and saves it; or the user cancels,
\* or the name is refused.
saveAs(s) ==
  {[doc |-> s.doc, files |-> s.files, current |-> s.current, ok |-> FALSE]}
  \cup UNION {SaveAndUpdate([s EXCEPT !.doc[s.current] = Renamed(@, n)], s.current) :
               n \in FreeNames(s)}

\* saveFile: a document without a name is left to saveAs.
saveFile(s, d) == IF s.doc[d].name = Untitled THEN saveAs(s) ELSE SaveAndUpdate(s, d)

\* The step takes one of the outcomes.
Becomes(s) == doc' = s.doc /\ files' = s.files /\ current' = s.current

-----------------------------------------------------------------------------
(* Tabs. *)

\* Selected by the tab widget when the documents R are removed from tabs ts: the
\* next document to the right that stays, or else to the left.
Survivor(ts, cur, R) ==
  LET c == CHOOSE i \in DOMAIN ts : ts[i] = cur
      Stays == {i \in DOMAIN ts : ts[i] \notin R}
      Right == {i \in Stays : i >= c} IN
  IF Stays = {} THEN cur
  ELSE IF Right # {} THEN ts[CHOOSE i \in Right : \A j \in Right : i <= j]
  ELSE ts[CHOOSE i \in Stays : \A j \in Stays : j <= i]

\* The tabs ts without the documents R, in the order they were in.
Without(ts, R) ==
  {us \in UNION {[1 .. m -> Range(ts) \ R] : m \in 0 .. Len(ts)} :
     /\ Range(us) = Range(ts) \ R
     /\ \A i, j \in DOMAIN us : i < j =>
          \E k, l \in DOMAIN ts : k < l /\ ts[k] = us[i] /\ ts[l] = us[j]}

\* Tabs ts and document e created at their end, as x.
createEmptySchematic(ts, e, x) ==
  /\ tabs' = Append(ts, e)
  /\ current' = e
  /\ doc' = [doc EXCEPT ![e] = x]

Unused == Docs \ Open

slotFileNew ==
  /\ pc = "idle"
  /\ \E e \in Unused : createEmptySchematic(tabs, e, Opened(Untitled, Blank))
  /\ lost' = {}
  /\ UNCHANGED <<files, pc, dialog>>

\* The current document is edited, or an edit is undone.
Edit ==
  /\ pc = "idle"
  /\ \E c \in Contents, b \in BOOLEAN :
       doc' = [doc EXCEPT ![current].content = c, ![current].changed = b]
  /\ lost' = {}
  /\ UNCHANGED <<files, tabs, current, pc, dialog>>

slotChangeView ==
  /\ pc = "idle"
  /\ current' \in Open
  /\ lost' = {}
  /\ UNCHANGED <<doc, files, tabs, pc, dialog>>

\* Go to the document with name n, or load it.  An untitled document in the
\* first tab is closed if it is unchanged.
gotoPage(n) ==
  /\ pc = "idle"
  /\ \/ /\ current' \in findDoc(n)
        /\ UNCHANGED <<doc, tabs>>
     \/ /\ findDoc(n) = {}
        /\ files[n] # NoFile
        /\ LET first == doc[tabs[1]]
               ts == IF first.name = Untitled /\ ~first.changed THEN Tail(tabs) ELSE tabs IN
           \E e \in Unused : createEmptySchematic(ts, e, Opened(n, files[n]))
  /\ lost' = {}
  /\ UNCHANGED <<files, pc, dialog>>

\* Document e is created as x for the page called r.  The documents that have its name
\* already, if r is another spelling, share it from now on.
OpenPage(r, e, x) ==
  LET Twins == {d \in Open : doc[d].name = x.name /\ x.name # r} IN
  /\ tabs' = Append(tabs, e)
  /\ current' = e
  /\ doc' = [d \in Docs |-> IF d = e THEN [x EXCEPT !.shared = Twins # {}]
                            ELSE IF d \in Twins THEN [doc[d] EXCEPT !.shared = TRUE]
                            ELSE doc[d]]

\* Go to the data display of a document, called r by the path and the setting.  It
\* is searched for as r, and created if it does not exist.
slotChangePage(r) ==
  LET n == absoluteFilePath(r) IN
  /\ pc = "idle"
  /\ \/ /\ current' \in findDoc(r)
        /\ UNCHANGED <<doc, tabs, files>>
     \/ /\ findDoc(r) = {}
        /\ files[n] # NoFile
        /\ \E e \in Unused : OpenPage(r, e, Opened(n, files[n]))
        /\ UNCHANGED files
     \/ /\ findDoc(r) = {}
        /\ files[n] = NoFile
        /\ \E e \in Unused : OpenPage(r, e, Opened(n, Blank))
        /\ files' = [files EXCEPT ![n] = Blank]
     \/ /\ findDoc(r) = {}                    \* the file cannot be created
        /\ files[n] = NoFile
        /\ \E e \in Unused : OpenPage(r, e, Renamed(Opened(Untitled, Blank), n))
        /\ UNCHANGED files
     \/ /\ findDoc(r) = {}                    \* loading fails
        /\ files[n] # NoFile
        /\ current' = tabs[Len(tabs)]
        /\ UNCHANGED <<doc, tabs, files>>
  /\ lost' = {}
  /\ UNCHANGED <<pc, dialog>>

-----------------------------------------------------------------------------
(* Saving from the menu. *)

slotFileSave ==
  /\ pc = "idle"
  /\ \E s \in saveFile(State, current) : Becomes(s)
  /\ lost' = {}
  /\ UNCHANGED <<tabs, pc, dialog>>

slotFileSaveAs ==
  /\ pc = "idle"
  /\ \E s \in saveAs(State) : Becomes(s)
  /\ lost' = {}
  /\ UNCHANGED <<tabs, pc, dialog>>

\* slotFileSaveAll begins with the first tab.
slotFileSaveAll ==
  /\ pc = "idle"
  /\ pc' = "saveAll" /\ No' = 1
  /\ lost' = {}
  /\ UNCHANGED <<doc, files, tabs, current, dialog>>

\* One turn of its loop; an untitled document is made the current one.
SaveTab ==
  /\ pc = "saveAll"
  /\ LET d == tabs[No]
         s == IF doc[d].name = Untitled THEN [State EXCEPT !.current = d] ELSE State
     IN  \E t \in saveFile(s, d) : Becomes(t)
  /\ IF No < Len(tabs) THEN No' = No + 1 /\ pc' = pc ELSE No' = 0 /\ pc' = "idle"
  /\ lost' = {}
  /\ UNCHANGED <<tabs, dialog>>

-----------------------------------------------------------------------------
(* Closing. *)

\* Is document d in its file, as it was saved after it was changed last?
InFile(s, d) ==
  /\ s.doc[d].name # Untitled
  /\ ~s.doc[d].changed
  /\ s.files[s.doc[d].name] = s.doc[d].saved

\* An untitled document is created when no document is left (closeFile, opening and
\* closing a project), and after "Close All".
CreatesNew(R, then) == then = "new" \/ Open \subseteq R

\* The program has ended.
Gone ==
  /\ tabs' = <<>>
  /\ doc' = [d \in Docs |-> Opened(Untitled, Blank)]
  /\ UNCHANGED current

\* Documents R are deleted in state s; the user wanted those of W saved.
Delete(s, R, W, by, ok, then) ==
  /\ lost' = {[by |-> by, ok |-> ok, named |-> s.doc[d].name # Untitled,
               shared |-> s.doc[d].shared] : d \in {e \in R \cap W : ~InFile(s, e)}}
  /\ files' = s.files
  /\ pc' = IF then = "quit" THEN "quit" ELSE "idle"
  /\ dialog' = NoDialog
  /\ IF then = "quit"
       THEN Gone
     ELSE IF CreatesNew(R, then)
       THEN \E e \in Unused \cup R, ts \in Without(tabs, R) :
              /\ tabs' = Append(ts, e)
              /\ current' = e
              /\ doc' = [d \in Docs |-> IF d \in R \cup {e} THEN Opened(Untitled, Blank)
                                        ELSE s.doc[d]]
     ELSE /\ tabs' \in Without(tabs, R)
          /\ current' = Survivor(tabs, s.current, R)
          /\ doc' = [d \in Docs |-> IF d \in R THEN Opened(Untitled, Blank) ELSE s.doc[d]]

\* Close document d.  Asked to save, slotFileSave saves the current document.
closeFile(d) ==
  /\ pc = "idle"
  /\ \/ \E s \in saveFile(State, current) :
          doc[d].changed /\ Delete(s, {d}, {d}, "closeFile", s.ok, "stay")
     \/ Delete(State, {d}, {}, "closeFile", TRUE, "stay")    \* unchanged, or discarded

\* The documents between two tabs, without the one to keep.
TabRange(i, j, keep) == {tabs[k] : k \in i .. j} \ keep

\* The documents the save dialog offers.
Unsaved(R) == {d \in R : doc[d].changed}

\* Close a range of documents; if some are changed, the save dialog opens.
closeTabsRange(R, then) ==
  /\ pc = "idle"
  /\ IF Unsaved(R) = {}
       THEN Delete(State, R, {}, "dialog", TRUE, then)
       ELSE /\ pc' = "dialog"
            /\ dialog' = [NoDialog EXCEPT !.range = R, !.unsaved = Unsaved(R), !.then = then]
            /\ lost' = {}
            /\ UNCHANGED <<doc, files, tabs, current>>

closeAllLeft(i) == i > 1 /\ closeTabsRange(TabRange(1, i - 1, {}), "stay")
closeAllRight(i) == i < Len(tabs) /\ closeTabsRange(TabRange(i + 1, Len(tabs), {}), "stay")
slotFileCloseOthers(i) == closeTabsRange(TabRange(1, Len(tabs), {tabs[i]}), "stay")
slotFileCloseAll == closeTabsRange(Open, "new")
slotMenuProjClose == closeTabsRange(Open, "stay")
slotFileQuit == closeTabsRange(Open, "quit")

-----------------------------------------------------------------------------
(* The save dialog. *)

\* "Save Selected", with the checked documents T.
saveSelectedClicked ==
  /\ pc = "dialog"
  /\ \E T \in SUBSET dialog.unsaved :
       dialog' = [dialog EXCEPT !.selected = T, !.todo = T, !.failed = FALSE]
  /\ pc' = "saving"
  /\ lost' = {}
  /\ UNCHANGED <<doc, files, tabs, current>>

ForgetsFailure(ok) == dialog.failed

\* Has a document turned out to be unsavable?
Unsavable(ok) == dialog.failed \/ ~ok

\* One turn of the loop over the checked documents, in the order of their
\* addresses.  A document that is saved is erased from the list the loop is going
\* through: it goes on, or ends in a crash, as the memory of the element is freed.
SaveSelected ==
  /\ pc = "saving"
  /\ \E d \in dialog.todo : \E s \in saveFile(State, d) :
       \/ /\ Becomes(s)
          /\ dialog' = [dialog EXCEPT !.todo = @ \ {d},
                                      !.unsaved = IF s.ok THEN @ \ {d} ELSE @,
                                      !.failed = Unsavable(s.ok)]
          /\ UNCHANGED <<tabs, pc>>
       \/ /\ s.ok
          /\ Gone /\ files' = s.files
          /\ dialog' = NoDialog /\ pc' = "crashed"
  /\ lost' = {}

\* After the loop the dialog is left, unless a document could not be saved.
SelectedDone ==
  /\ pc = "saving"
  /\ dialog.todo = {}
  /\ IF dialog.failed
       THEN /\ pc' = "dialog" /\ lost' = {}
            /\ UNCHANGED <<doc, files, tabs, current, dialog>>
       ELSE Delete(State, dialog.range, dialog.selected, "dialog", TRUE, dialog.then)

\* "Don't Save".
dontSaveClicked ==
  /\ pc = "dialog"
  /\ Delete(State, dialog.range, {}, "dialog", TRUE, dialog.then)

\* "Abort Closing".  slotFileCloseAll creates its new document nevertheless.
reject ==
  /\ pc = "dialog"
  /\ pc' = "idle" /\ dialog' = NoDialog
  /\ lost' = {}
  /\ IF dialog.then = "new"
       THEN \E e \in Unused : createEmptySchematic(tabs, e, Opened(Untitled, Blank))
       ELSE UNCHANGED <<doc, tabs, current>>
  /\ UNCHANGED files

Operation ==
  \/ slotFileNew \/ Edit \/ slotChangeView
  \/ slotFileSave \/ slotFileSaveAs
  \/ slotFileCloseAll \/ slotMenuProjClose \/ slotFileQuit
  \/ \E n \in Names : gotoPage(n)
  \/ \E r \in Names \cup Spellings : slotChangePage(r)
  \/ \E d \in Open : closeFile(d)
  \/ \E i \in 1 .. Len(tabs) : closeAllLeft(i) \/ closeAllRight(i) \/ slotFileCloseOthers(i)
  \/ saveSelectedClicked \/ SaveSelected \/ SelectedDone \/ dontSaveClicked \/ reject

Next ==
  \/ Operation /\ UNCHANGED No
  \/ slotFileSaveAll
  \/ SaveTab

Spec == Init /\ [][Next]_vars

-----------------------------------------------------------------------------
(* Properties. *)

\* Until the application quits there is a current document, and its tab is one of
\* the tabs (closeFile, closeTabsRange); the save dialog offers documents of the
\* range that is being closed.
TypeOK ==
  /\ doc \in [Docs -> Document]
  /\ files \in [Names -> Contents \cup {NoFile}]
  /\ tabs \in Seq(Docs) /\ IsInjective(tabs)
  /\ pc \in {"idle", "dialog", "saving", "saveAll", "quit", "crashed"}
  /\ pc = "saveAll" => No \in DOMAIN tabs
  /\ pc \notin {"quit", "crashed"} => current \in Open
  /\ dialog \in Dialog
  /\ dialog.todo \subseteq dialog.selected /\ dialog.selected \subseteq dialog.range
  /\ dialog.unsaved \subseteq dialog.range /\ dialog.range \subseteq Open

\* Two open documents have the same file name only if slotChangePage has opened one
\* again under another spelling: not by gotoPage or saveAs, nor if slotChangePage is
\* given the name the document has.
UniqueNames ==
  \A d, e \in Open :
    d # e /\ doc[d].name = doc[e].name => doc[d].name = Untitled \/ doc[d].shared

\* The file of an open document is what the document has read from it or written to
\* it last, however often others were opened, renamed and saved meanwhile (saveAs,
\* saveFile, SaveDialog): no other document has overwritten it.
FileAsSaved ==
  \A d \in Open : doc[d].name # Untitled /\ ~doc[d].shared /\ doc[d].saved # NoFile =>
    files[doc[d].name] = doc[d].saved

\* A document with a file name of its own that is selected in the save dialog has been
\* saved to its file, and the file is as it was saved, when the document is deleted;
\* even if files cannot be written, and although the dialog may save other documents,
\* or give the current one another name, in between.
NamedSelectedSaved == ~\E x \in lost : x.by = "dialog" /\ x.named /\ ~x.shared

\* A document closed with "Save" is in its file if saving succeeded (closeFile).
\* Not kept by the code: README, section 3.
ClosedIsSaved == ~\E x \in lost : x.by = "closeFile" /\ x.ok

\* A document closed with "Save" is not deleted if saving was aborted (closeFile).
\* Not kept by the code: README, section 3.
AbortedStaysOpen == ~\E x \in lost : x.by = "closeFile" /\ ~x.ok

\* Every document selected in the save dialog is in its file when it is deleted.
\* Not kept by the code: README, section 3.
SelectedIsSaved == ~\E x \in lost : x.by = "dialog"

\* No file name is open twice (slotChangePage).
\* Not kept by the code: README, section 3.
OpenedOnce ==
  \A d, e \in Open : d # e /\ doc[d].name = doc[e].name => doc[d].name = Untitled

\* Saving a document leaves the others as they are, or they count as changed
\* (updatePortNumber).  Not kept by the code: README, section 3.
OthersAsTheyWere ==
  [][slotFileSave => \A d \in Open \ {current} :
       doc'[d].content # doc[d].content => doc'[d].changed]_vars

\* Opening a document closes an untitled one only if no other was open (gotoPage).
\* Not kept by the code: README, section 3.
OnlyUntitledCloses ==
  [][\A n \in Names : gotoPage(n) /\ Len(tabs) > 1 => Open \subseteq Open']_vars
=============================================================================
