----------------------------- MODULE LayoutStore -----------------------------
(***************************************************************************)
(* The layouts the shell holds: the store with its undo history, its       *)
(* flush and its reload (crates/layout/src/store.rs), the one way a change *)
(* takes to it and the timer that writes it (crates/surfaces/src/          *)
(* layouts.rs), the import of a bundle (crates/surfaces/src/bundles.rs)    *)
(* and the edit an edit mode has open (crates/editor/src/session.rs).      *)
(*                                                                         *)
(* All of it runs on the driver thread, so a handler is one step; between  *)
(* two of them somebody else may rewrite the files.  A layout is the text  *)
(* of its file, and an edit, or what takes it back, the text it leaves.    *)
(***************************************************************************)
EXTENDS Naturals, Sequences, SequencesExt, Subsequence

CONSTANTS
  Layouts,   \* the names a layout of the user's may have
  Shared,    \* those a bundle writes
  Texts,     \* what a layout may hold
  Shipped,   \* what the built-in one holds
  Sound,     \* those that resolve and validate cleanly
  BuiltIn, Absent, Broken,
  MayBeSafe, \* the shell may be started with --safe-layout
  MaxActs    \* bound: what the user and other programs do

ASSUME LayoutAssumption ==
  /\ Shared \subseteq Layouts /\ Shipped \in Texts /\ Sound \subseteq Texts
  /\ BuiltIn \notin Layouts /\ {Absent, Broken} \cap (Texts \cup Layouts) = {}
  /\ Absent \notin {Broken, BuiltIn} /\ MayBeSafe \in BOOLEAN /\ MaxActs \in Nat

VARIABLES
  acts,      \* bound counter
  file,      \* the layout files
  good,      \* layouts/.last-good
  chosen,    \* state.json: the layout this installation draws
  record,    \* state.json: what the bundle wrote
  safe,      \* the store is the recovery one
  library,   \* library.layouts, the built-in one aside
  active,    \* the layout drawn
  done,      \* the edits an undo takes back
  undone,    \* those a redo puts again
  dirty,     \* changed and not written
  seen,      \* what each file held when last read or written
  waiting,   \* WAITING: the timer that writes runs
  recent,    \* something changed since it was armed
  display,   \* what the screen and the draft were made from
  edit,      \* what the open edit began from
  unwritten, \* history: the layouts whose last write failed
  halfway    \* history: an import failed in part and nothing was redrawn since

stateVars   == <<good, chosen, record>>
historyVars == <<done, undone>>
timerVars   == <<waiting, recent>>
screenVars  == <<display, edit, halfway>>
storeVars   == <<acts, file, stateVars, safe, library, active, historyVars, dirty, seen,
                 timerVars, screenVars, unwritten>>

AnyLayout == Layouts \cup {BuiltIn}
Content   == Texts \cup {Absent}
Showing   == [layout : AnyLayout, text : Texts]
Entry     == [layout : Layouts, back : Texts, on : Texts]  \* `on`: what `back` was recorded against

(* The layout drawn, as an edit and the screen take it.                    *)
Shown(name, texts) ==
  [layout |-> name, text |-> IF name = BuiltIn THEN Shipped ELSE texts[name]]

StoreTypeOK ==
  /\ acts \in 0 .. MaxActs
  /\ file \in [Layouts -> Content \cup {Broken}] /\ good \in [Layouts -> Sound \cup {Absent}]
  /\ chosen \in AnyLayout \cup {Absent} /\ record \in [Shared -> Content]
  /\ safe \in BOOLEAN /\ library \in [Layouts -> Content] /\ active \in AnyLayout
  /\ done \in Seq(Entry) /\ undone \in Seq(Entry)
  /\ dirty \subseteq Layouts /\ seen \in [Layouts -> Content]
  /\ waiting \in BOOLEAN /\ recent \in BOOLEAN
  /\ display \in Showing /\ edit \in Showing \cup {Absent}
  /\ unwritten \subseteq Layouts /\ halfway \in BOOLEAN

-----------------------------------------------------------------------------
(* select_active: the layout chosen, as the store holds it or as it last   *)
(* worked, or else the one drawn already.                                  *)
Rescued(texts) ==
  IF chosen \in Layouts /\ texts[chosen] = Absent
    THEN [texts EXCEPT ![chosen] = good[chosen]] ELSE texts

Selected(texts, name) ==
  IF chosen = BuiltIn \/ (chosen \in Layouts /\ Rescued(texts)[chosen] # Absent)
    THEN chosen ELSE name

(* keep_last_good, of the layout drawn when it is clean.                   *)
Keeps ==
  good' = IF active' \in Layouts /\ library'[active'] \in Sound
            THEN [good EXCEPT ![active'] = library'[active']] ELSE good

(* follow_the_store: an edit open on anything else is reverted.            *)
Follows(open) == IF open = Shown(active', library') THEN open ELSE Absent

(* The redraw and the bump that end a change.                              *)
Redraws(open) ==
  /\ Keeps
  /\ display' = Shown(active', library')
  /\ edit' = Follows(open)
  /\ halfway' = FALSE

(* write_once_settled.                                                     *)
Arms == waiting' = TRUE /\ recent' = waiting

(* What another program, or the user, does is bounded.                     *)
Acts == acts < MaxActs /\ acts' = acts + 1

-----------------------------------------------------------------------------
(* is_taken and free_id, and the edit of the layout drawn: the built-in    *)
(* one is copied first, and stays copied when the edit itself is refused.  *)
Free == {l \in Layouts : library[l] = Absent /\ file[l] = Absent}

Commit(l, text, refused, open) ==
  LET forks  == active = BuiltIn
      before == Shown(active, library).text
  IN  /\ l \in (IF forks THEN Free ELSE {active})
      /\ text # before /\ (refused => forks)
      /\ library' = [library EXCEPT ![l] = IF refused THEN before ELSE text]
      /\ active' = l
      /\ chosen' = IF forks THEN l ELSE chosen
      /\ done' = IF refused THEN done
                 ELSE Append(done, [layout |-> l, back |-> before, on |-> text])
      /\ undone' = IF refused THEN undone ELSE <<>>
      /\ dirty' = dirty \cup {l}
      /\ Redraws(open) /\ Arms
      /\ UNCHANGED <<file, record, safe, seen, unwritten>>

(* layouts::edit: a script, a menu.                                        *)
Script ==
  /\ Acts /\ ~safe
  /\ \E l \in Layouts, text \in Texts, refused \in BOOLEAN : Commit(l, text, refused, edit)

(* Edit::begin, Edit::commit and Edit::revert.  What is previewed in       *)
(* between is drawn and kept nowhere.                                      *)
Begin ==
  /\ Acts /\ ~safe /\ edit = Absent
  /\ edit' = display
  /\ UNCHANGED <<file, stateVars, safe, library, active, historyVars, dirty, seen, timerVars,
                 display, halfway, unwritten>>

Decide ==
  /\ edit # Absent
  /\ \E l \in Layouts, text \in Texts, refused \in BOOLEAN : Commit(l, text, refused, Absent)
  /\ UNCHANGED acts

RevertEdit ==
  /\ edit # Absent
  /\ edit' = Absent
  /\ UNCHANGED <<acts, file, stateVars, safe, library, active, historyVars, dirty, seen, timerVars,
                 display, halfway, unwritten>>

(* undo, redo and reverse: what an entry put back is recorded the other    *)
(* way round.                                                              *)
PutBack(e) ==
  /\ library' = [library EXCEPT ![e.layout] = e.back]
  /\ dirty' = dirty \cup {e.layout}
  /\ UNCHANGED active
  /\ Redraws(edit) /\ Arms
  /\ UNCHANGED <<file, chosen, record, safe, seen, unwritten>>

Reversed(e) == [layout |-> e.layout, back |-> library[e.layout], on |-> e.back]

UndoEdit ==
  /\ Acts /\ ~safe /\ done # <<>>
  /\ PutBack(Last(done))
  /\ done' = Front(done)
  /\ undone' = Append(undone, Reversed(Last(done)))

RedoEdit ==
  /\ Acts /\ ~safe /\ undone # <<>>
  /\ PutBack(Last(undone))
  /\ undone' = Front(undone)
  /\ done' = Append(done, Reversed(Last(undone)))

(* start: a layout made from a template is drawn from now on.              *)
StartFrom ==
  /\ Acts /\ ~safe
  /\ \E l \in Free, text \in Sound :
       /\ library' = [library EXCEPT ![l] = text]
       /\ active' = l /\ chosen' = l
       /\ dirty' = dirty \cup {l}
  /\ Redraws(edit) /\ Arms
  /\ UNCHANGED <<file, record, safe, historyVars, seen, unwritten>>

-----------------------------------------------------------------------------
(* forget: the history of what was rewritten goes.                         *)
Forget(gone) ==
  /\ done' = Picked(done, {i \in DOMAIN done : done[i].layout \notin gone})
  /\ undone' = Picked(undone, {i \in DOMAIN undone : undone[i].layout \notin gone})

(* A plausible slip: the shell's own writes are taken for somebody else's. *)
RewrittenAnyway == {l \in Layouts : file[l] \in Texts}

(* LayoutStore::reload: a file that holds what the store saw changes       *)
(* nothing, nor does one that does not parse; a layout whose file is gone  *)
(* goes, unless it is still to be written.                                 *)
Rewritten == {l \in Layouts : file[l] \in Texts /\ file[l] # seen[l]}
Vanished  == {l \in Layouts : file[l] = Absent /\ library[l] # Absent /\ l \notin dirty}

Read(texts) == [l \in Layouts |-> IF l \in Rewritten THEN file[l]
                                  ELSE IF l \in Vanished THEN Absent ELSE texts[l]]

Stands == IF active \in Layouts /\ Read(library)[active] = Absent THEN BuiltIn ELSE active

ReloadFiles ==
  /\ library' = Rescued(Read(library))
  /\ active' = Selected(Read(library), Stands)
  /\ seen' = [l \in Layouts |-> IF library'[l] # Read(library)[l] THEN Absent ELSE Read(seen)[l]]
  /\ dirty' = dirty \ Rewritten
  /\ unwritten' = unwritten \ (Rewritten \cup Vanished)
  /\ Forget(Rewritten \cup Vanished)
  /\ Redraws(edit)
  /\ UNCHANGED <<acts, file, chosen, record, safe, timerVars>>

(* `layout use`: the choice; the reload it asks for is one of the above.   *)
UseLayout ==
  /\ Acts
  /\ \E name \in {l \in Layouts : file[l] \in Texts} \cup {BuiltIn} : chosen' = name
  /\ UNCHANGED <<file, good, record, safe, library, active, historyVars, dirty, seen, timerVars,
                 screenVars, unwritten>>

(* Somebody writes, breaks or removes a file.                              *)
Outside ==
  /\ Acts
  /\ \E l \in Layouts, text \in Content \cup {Broken} :
       text # file[l] /\ file' = [file EXCEPT ![l] = text]
  /\ UNCHANGED <<stateVars, safe, library, active, historyVars, dirty, seen, timerVars, screenVars,
                 unwritten>>

-----------------------------------------------------------------------------
(* flush: whatever is dirty is taken, and what cannot be written is        *)
(* reported.                                                               *)
Flush(failed) ==
  LET wrote == dirty \ failed
  IN  /\ file' = [l \in Layouts |-> IF l \in wrote THEN library[l] ELSE file[l]]
      /\ seen' = [l \in Layouts |-> IF l \in wrote THEN library[l] ELSE seen[l]]
      /\ dirty' = {}
      /\ unwritten' = (unwritten \ wrote) \cup failed

(* on_settled: armed again while the layouts still change.                 *)
OnSettled ==
  /\ waiting
  /\ waiting' = (dirty # {} /\ recent)
  /\ recent' = FALSE
  /\ IF waiting' THEN UNCHANGED <<file, seen, dirty, unwritten>>
                 ELSE \E failed \in SUBSET dirty : Flush(failed)
  /\ UNCHANGED <<acts, stateVars, safe, library, active, historyVars, screenVars>>

(* install of a bundle read and checked: its names are free, or hold what  *)
(* it wrote.  A failed write is put back, and the caller hears of it as a  *)
(* change that was not made (put_bundle, change_or).                       *)
Claimed == [l \in Shared |-> IF library[l] = Absent /\ file[l] = Absent THEN Absent ELSE record[l]]

Import ==
  /\ Acts /\ ~safe
  /\ \A l \in Shared : l \in Free \/ (library[l] # Absent /\ library[l] = Claimed[l])
  /\ \E brought \in [Shared -> Sound], wrote \in SUBSET Shared, whole \in BOOLEAN :
       LET put == [l \in Layouts |-> IF l \in wrote THEN brought[l] ELSE library[l]]
       IN  /\ whole => wrote = Shared
           /\ library' = put
           /\ file' = [l \in Layouts |-> IF l \in wrote THEN put[l] ELSE file[l]]
           /\ seen' = [l \in Layouts |-> IF l \in wrote THEN put[l] ELSE seen[l]]
           /\ record' = [l \in Shared |-> IF l \in wrote THEN put[l] ELSE record[l]]
           /\ dirty' = dirty \ wrote
           /\ unwritten' = unwritten \ wrote
           /\ UNCHANGED active
           /\ IF whole THEN Redraws(edit) /\ Arms
              ELSE /\ halfway' = TRUE
                   /\ recent' = waiting
                   /\ UNCHANGED <<good, waiting, display, edit>>
  /\ Forget(Shared)
  /\ UNCHANGED <<chosen, safe>>

(* The shell ends, having flushed what it could or nothing at all, and     *)
(* starts: load and select_active, or the recovery store of --safe-layout. *)
OnDisk(files) == [l \in Layouts |-> IF files[l] \in Texts THEN files[l] ELSE Absent]

LoadsFiles(files) ==
  /\ library' = IF safe' THEN [l \in Layouts |-> Absent] ELSE Rescued(OnDisk(files))
  /\ active' = IF safe' THEN BuiltIn ELSE Selected(OnDisk(files), BuiltIn)
  /\ seen' = IF safe' THEN [l \in Layouts |-> Absent] ELSE OnDisk(files)

Restart ==
  /\ Acts
  /\ safe' \in {FALSE, MayBeSafe}
  /\ \E wrote \in SUBSET dirty :
       file' = [l \in Layouts |-> IF l \in wrote THEN library[l] ELSE file[l]]
  /\ LoadsFiles(file')
  /\ done' = <<>> /\ undone' = <<>> /\ dirty' = {} /\ unwritten' = {}
  /\ waiting' = FALSE /\ recent' = FALSE
  /\ Redraws(Absent)
  /\ UNCHANGED <<chosen, record>>

-----------------------------------------------------------------------------
(* The shell has started on the files and the choice it found.             *)
StoreInit ==
  /\ acts = 0 /\ safe = FALSE
  /\ file \in [Layouts -> {Absent} \cup Sound] /\ chosen \in {Absent} \cup Layouts
  /\ good = [l \in Layouts |-> Absent] /\ record = [l \in Shared |-> Absent]
  /\ library = file /\ seen = file
  /\ active = IF chosen \in Layouts /\ library[chosen] # Absent THEN chosen ELSE BuiltIn
  /\ done = <<>> /\ undone = <<>> /\ dirty = {} /\ unwritten = {}
  /\ waiting = FALSE /\ recent = FALSE
  /\ display = Shown(active, library) /\ edit = Absent /\ halfway = FALSE

StoreNext ==
  \/ Script \/ Begin \/ Decide \/ RevertEdit \/ UndoEdit \/ RedoEdit \/ StartFrom
  \/ ReloadFiles \/ UseLayout \/ Outside \/ OnSettled \/ Import \/ Restart

(* The timer of the event loop runs out.                                   *)
StoreSpec == StoreInit /\ [][StoreNext]_storeVars /\ WF_storeVars(OnSettled)

-----------------------------------------------------------------------------
(* The next entry of the same layout, and an entry that has none.          *)
Follow(stack, i, j) ==
  /\ i < j /\ stack[j].layout = stack[i].layout
  /\ \A k \in DOMAIN stack : i < k /\ k < j => stack[k].layout # stack[i].layout

Newest(stack, i) == \A j \in DOMAIN stack : i < j => stack[j].layout # stack[i].layout

(* "operations replayed against content that has since been rewritten      *)
(* would restore something that no longer means what it meant" (store.rs): *)
(* each entry of the history applies to the very layout it was recorded    *)
(* against, as the entries after it and the store leave it.                *)
AppliesOn(stack, texts) ==
  \A i \in DOMAIN stack :
    /\ Newest(stack, i) => stack[i].on = texts[stack[i].layout]
    /\ \A j \in DOMAIN stack : Follow(stack, i, j) => stack[i].on = stack[j].back

HistoryApplies == AppliesOn(done, library) /\ AppliesOn(undone, library)

(* The screen shows the layout the store draws, and an edit is committed   *)
(* to the layout it was begun on, short of an import that failed in part.  *)
InStep == halfway \/ (display = Shown(active, library) /\ edit \in {Absent, display})

(* What differs from its file, as the store knows it, is still to be       *)
(* written, short of a write that failed (store.rs, flush).                *)
NoneForgotten ==
  \A l \in Layouts : l \in dirty \cup unwritten \/ seen[l] \in {Absent, library[l]}

(* Whatever is still to be written has a timer to write it, so it does get *)
(* written (layouts.rs, write_once_settled).                               *)
TimerRuns == dirty # {} => waiting

(* The layout drawn is one the store holds (store.rs, active: expect).     *)
DrawsHeld == active = BuiltIn \/ library[active] # Absent

(* What is dirty is held, so that a flush writes it.                     *)
DirtyIsHeld == \A l \in dirty : library[l] # Absent

(* The store, its history, the screen, the files as the store knows them   *)
(* and the timer agree.                                                    *)
StoreHonest == HistoryApplies /\ InStep /\ NoneForgotten /\ TimerRuns /\ DrawsHeld /\ DirtyIsHeld

(* "A reload keeps whatever the files do not contradict" (store.rs): a     *)
(* layout whose file holds what the store saw there, or does not parse,    *)
(* keeps its edits, their place in the flush and its history; and once     *)
(* nobody changes anything, the edits are written.  All the while the      *)
(* store is honest.                                                        *)
History(l, stack) == Picked(stack, {i \in DOMAIN stack : stack[i].layout = l})

EditsOutlast ==
  ReloadFiles => \A l \in Layouts :
    seen[l] # Absent /\ file[l] \in {seen[l], Broken} =>
      /\ library'[l] = library[l] /\ (l \in dirty' <=> l \in dirty)
      /\ History(l, done') = History(l, done) /\ History(l, undone') = History(l, undone)

EditsKept == []StoreHonest /\ [][EditsOutlast]_storeVars /\ <>[](dirty = {})

(* "Under --safe-layout the store holds the built-in layout alone"         *)
(* (docs/features/customization/layouts.md:363; store.rs, StoreError::Safe *)
(* and lib.rs, Layouts say the same); does not hold: a reload reads the    *)
(* user's layouts into it, and draws the one chosen.                       *)
SafeIsBuiltIn == safe => active = BuiltIn /\ \A l \in Layouts : library[l] = Absent
=============================================================================
