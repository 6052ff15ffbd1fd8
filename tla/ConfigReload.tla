----------------------------- MODULE ConfigReload -----------------------------
(***************************************************************************)
(* Loading the configuration again: the watcher thread and the Reloader of *)
(* apps/hogar-shell/src/lib.rs, the fingerprints, stamps and own writes of *)
(* crates/config/src/fingerprint.rs, and the settings window that vouches  *)
(* for its own saves (crates/settings/src/form.rs).                        *)
(*                                                                         *)
(* The files a reload reads are one thing here, and what they hold is a    *)
(* number: 0 for no config.toml, 1 the starter config, 2 and up what was   *)
(* written since.  The driver thread reads, loads and applies in steps the *)
(* user's editor can come between.                                         *)
(***************************************************************************)
EXTENDS Naturals, SequencesExt, Subsequence

CONSTANTS
  MaxWrites,  \* bound: contents ever written, the starter config included
  MaxMoves,   \* bound: edits taken back, reloads asked for, windows opened
  Kept        \* OWN_WRITES_KEPT

ASSUME ReloadAssumption ==
  /\ {MaxWrites, Kept} \subseteq Nat \ {0} /\ MaxWrites > 1 /\ MaxMoves \in Nat

VARIABLES
  files,    \* what the files hold
  written,  \* contents written so far
  broken,   \* those of them that do not parse
  saved,    \* history: what the files hold was put there by a save of the shell's
  moves,    \* bound counter
  last,     \* the watcher's `last`
  ticks,    \* ticks on their way to the driver thread
  pace,     \* where the driver thread is: idle, load, seed, apply, save, stamp
  always,   \* the reload in hand is Reload::Always
  content,  \* what the reload in hand has seen, or the save in hand has read
  loaded,   \* what it has loaded
  own,      \* the reload in hand is of the shell's own write
  owns,     \* OWN_WRITES
  applied,  \* Reloader.applied: 0 for the empty stamp
  screen,   \* what the surfaces are built from
  notice,   \* Reloader.failing: the notice says config.toml did not load
  window,   \* the settings window is open
  forms,    \* what its forms show
  showing,  \* SHOWING: what they were seeded from, as far as the window knows
  stamp,    \* the stamp of its entry: 0 for the empty stamp
  opened    \* OPENED_WITH

worldVars  == <<files, written, broken, saved, moves>>
driverVars == <<pace, always, content, loaded, own>>
stampVars  == <<applied, screen, notice>>
windowVars == <<window, forms, showing, stamp, opened>>
reloadVars == <<worldVars, last, ticks, driverVars, owns, stampVars, windowVars>>

Missing  == 0
Starter  == 1
Unset    == MaxWrites + 1
Contents == 0 .. MaxWrites

ReloadTypeOK ==
  /\ {files, last, content, loaded, screen, forms, showing, opened} \subseteq Contents
  /\ {applied, stamp} \subseteq Contents \cup {Unset}
  /\ written \in 1 .. MaxWrites /\ broken \subseteq 2 .. written /\ moves \in 0 .. MaxMoves
  /\ ticks \in Nat
  /\ pace \in {"idle", "load", "seed", "apply", "save", "stamp"}
  /\ {saved, always, own, notice, window} \subseteq BOOLEAN
  /\ owns \in Seq(1 .. MaxWrites) /\ Len(owns) <= Kept /\ IsInjective(owns)

(* load_at_startup: the stamp is what was read before the load; a file     *)
(* that does not parse is not applied, and the starter config runs.        *)
ReloadInit ==
  /\ written = 2 /\ broken \in SUBSET {2} /\ saved = FALSE /\ moves = 0
  /\ files = 2 /\ last = 2 /\ ticks = 0
  /\ pace = "idle" /\ always = FALSE /\ content = 0 /\ loaded = 0 /\ own = FALSE /\ owns = <<>>
  /\ notice = (files \in broken)
  /\ applied = IF notice THEN Unset ELSE files
  /\ screen = IF notice THEN Starter ELSE files
  /\ window = FALSE /\ forms = 0 /\ showing = 0 /\ stamp = Unset /\ opened = 0

-----------------------------------------------------------------------------
(* The user's editor: in one go, or by removing the file before the new    *)
(* one lands.  A file is not removed within the half second the watcher    *)
(* takes to see the edit before it, and an edit is undone, or reverted, by *)
(* somebody who has seen the shell take it, with no other edit having come *)
(* in the moment of a load: going back within such a moment is a gap the   *)
(* README tells of.  The starter config, once read, is not taken away, nor *)
(* any other while the window's forms are from where there was no file.    *)
Room == written + (IF pace = "save" THEN 1 ELSE 0) < MaxWrites  \* what a save may still write

Writes(fine) ==
  /\ written' = written + 1
  /\ files' = written'
  /\ broken' = IF fine THEN broken ELSE broken \cup {written'}

Edit ==
  /\ Room
  /\ \E fine \in BOOLEAN : Writes(fine)
  /\ saved' = FALSE
  /\ UNCHANGED <<moves, last, ticks, driverVars, owns, stampVars, windowVars>>

Moves == moves < MaxMoves /\ moves' = moves + 1

(* Everybody has seen what the files hold.                                 *)
Quiet  == pace = "idle" /\ ticks = 0 /\ last = files
Taken  == Quiet /\ applied \in {screen, Unset}

Undo ==
  /\ Moves /\ Taken
  /\ files' \in (2 .. written) \ {files}
  /\ saved' = FALSE
  /\ UNCHANGED <<written, broken, last, ticks, driverVars, owns, stampVars, windowVars>>

TakeAway ==
  /\ files # Missing /\ last = files /\ Room
  /\ Starter \notin {content, loaded, forms} /\ (window => showing # Missing)
  /\ files' = Missing
  /\ saved' = FALSE
  /\ UNCHANGED <<written, broken, moves, last, ticks, driverVars, owns, stampVars, windowVars>>

(* watch_config_changes and noticed.                                       *)
Settled(held) == held # Missing

Poll ==
  /\ files # last
  /\ last' = files
  /\ ticks' = IF Settled(files) THEN ticks + 1 ELSE ticks
  /\ UNCHANGED <<worldVars, driverVars, owns, stampVars, windowVars>>

-----------------------------------------------------------------------------
(* wrote: the newest last, and no more than are kept.                      *)
Wrote(q, held) ==
  LET others == Picked(q, {i \in DOMAIN q : q[i] # held}) IN
  IF Len(others) < Kept THEN Append(others, held) ELSE Append(Tail(others), held)

(* written_by_shell: that write is forgotten, and every one before it.     *)
Forgotten(held) ==
  IF \E i \in DOMAIN owns : owns[i] = held
  THEN LET at == CHOOSE i \in DOMAIN owns : owns[i] = held IN SubSeq(owns, at + 1, Len(owns))
  ELSE owns

Needs(mark, held, asked) == asked \/ mark # held

(* A reload that finds nothing to load still takes a notice down.          *)
Unneeded == notice' = FALSE

(* reload: the fingerprint comes before the load.                          *)
Reload(asked) ==
  /\ pace = "idle"
  /\ IF Needs(applied, files, asked)
     THEN /\ pace' = "load" /\ always' = asked /\ content' = files
          /\ own' = (files \in ToSet(owns))
          /\ owns' = Forgotten(files)
          /\ UNCHANGED <<loaded, notice>>
     ELSE /\ Unneeded
          /\ UNCHANGED <<driverVars, owns>>
  /\ UNCHANGED <<written, broken, saved, files, last, applied, screen, windowVars>>

OnTick  == ticks > 0 /\ ticks' = ticks - 1 /\ Reload(FALSE) /\ UNCHANGED moves
OnAsked == Moves /\ Reload(TRUE) /\ UNCHANGED ticks

(* Config::load: what does not parse is reported and not applied, and a    *)
(* missing file is replaced by the starter config.                         *)
LoadFile ==
  /\ pace = "load"
  /\ loaded' = IF files = Missing THEN Starter ELSE files
  /\ pace' = CASE files = Missing -> "seed" [] files \in broken -> "idle" [] OTHER -> "apply"
  /\ notice' = (notice \/ files \in broken)
  /\ UNCHANGED <<worldVars, last, ticks, always, content, own, owns, applied, screen, windowVars>>

Seed ==
  /\ pace = "seed"
  /\ files' = Starter /\ saved' = FALSE
  /\ pace' = "apply"
  /\ UNCHANGED <<written, broken, moves, last, ticks, always, content, loaded, own, owns,
                 stampVars, windowVars>>

(* seeding_from, and the forms from the file as it is; a file that is not  *)
(* there is replaced as they read it.                                      *)
Seeded ==
  /\ showing' = files
  /\ files' = IF files = Missing THEN Starter ELSE files
  /\ forms' = files'
  /\ UNCHANGED saved

(* What a load is recorded as: what was seen before it.                    *)
Recorded == content

(* apply_config, the surface pass, rebuild_all and applied.                *)
Apply ==
  /\ pace = "apply" /\ pace' = "idle"
  /\ screen' = loaded
  /\ applied' = Recorded
  /\ notice' = FALSE
  /\ stamp' = IF window THEN content ELSE stamp
  /\ IF window /\ Needs(stamp, content, always) THEN Seeded ELSE UNCHANGED <<forms, showing, files, saved>>
  /\ UNCHANGED <<written, broken, moves, last, ticks, always, content, loaded, own, owns,
                 window, opened>>

-----------------------------------------------------------------------------
(* The settings window opens, not while an editor has the file away, and   *)
(* remembers what it can go back to.                                       *)
OpenWindow ==
  /\ pace = "idle" /\ files # Missing /\ ~window /\ Moves
  /\ window' = TRUE /\ Seeded /\ stamp' = Unset
  /\ opened' = files'
  /\ UNCHANGED <<written, broken, last, ticks, driverVars, owns, stampVars>>

(* save_sections: a read, and a write around what it read; a file that     *)
(* does not parse is left alone.                                           *)
SaveReads ==
  /\ pace = "idle" /\ files \notin broken /\ Room
  /\ pace' = "save" /\ content' = files
  /\ UNCHANGED <<worldVars, last, ticks, always, loaded, own, owns, stampVars, windowVars>>

(* A plausible slip: a save vouches for the file whatever it carried.      *)
VouchesAlways(found) == window

(* vouch_for: only when the window was showing what the save found.        *)
Vouches(found) == window /\ showing = found

(* form is whether a form of the window saves, or another part of the      *)
(* shell, which vouches for nothing.  Forms that were as the save found    *)
(* the file are as it left it, vouched for or not.                         *)
SaveWrites(form) ==
  /\ pace = "save" /\ (~form \/ window)
  /\ Writes(TRUE) /\ saved' = TRUE
  /\ pace' = "idle"
  /\ owns' = Wrote(owns, files')
  /\ forms' = IF form /\ forms = content THEN files' ELSE forms
  /\ IF form /\ Vouches(content)
       THEN showing' = files' /\ stamp' = files'
       ELSE UNCHANGED <<showing, stamp>>
  /\ UNCHANGED <<moves, last, ticks, always, content, loaded, own, stampVars, window, opened>>

(* revert_to_opened: the whole file, and the forms seeded again from it.   *)
Revert ==
  /\ Taken /\ window /\ opened # Missing /\ Moves
  /\ files' = opened /\ forms' = opened /\ showing' = opened /\ stamp' = opened
  /\ saved' = TRUE
  /\ owns' = Wrote(owns, opened)
  /\ UNCHANGED <<written, broken, last, ticks, driverVars, stampVars, window, opened>>

(* on_settled: the layout is written, and what the files then hold is read *)
(* again to be recorded (stamp_layout_write).                              *)
FlushLayout ==
  /\ pace = "idle" /\ files # Missing /\ Room
  /\ Writes(files \notin broken) /\ saved' = TRUE
  /\ pace' = "stamp"
  /\ UNCHANGED <<moves, last, ticks, always, content, loaded, own, owns, stampVars, windowVars>>

StampLayout ==
  /\ pace = "stamp" /\ pace' = "idle"
  /\ owns' = IF files = Missing THEN owns ELSE Wrote(owns, files)
  /\ UNCHANGED <<worldVars, last, ticks, always, content, loaded, own, stampVars, windowVars>>

Proceeds == LoadFile \/ Seed \/ Apply \/ StampLayout \/ \E form \in BOOLEAN : SaveWrites(form)

ReloadNext ==
  \/ Edit \/ Undo \/ TakeAway \/ Poll
  \/ OnTick \/ OnAsked \/ Proceeds
  \/ OpenWindow \/ SaveReads \/ Revert \/ FlushLayout

(* The watcher polls, the loop delivers its ticks and finishes what it has *)
(* begun; an editor that removed a file writes it.                         *)
ReloadFair ==
  /\ WF_reloadVars(Poll)
  /\ WF_reloadVars(OnTick)
  /\ WF_reloadVars(Proceeds)
  /\ WF_reloadVars(files = Missing /\ Edit)

ReloadSpec == ReloadInit /\ [][ReloadNext]_reloadVars /\ ReloadFair

-----------------------------------------------------------------------------
(* No edit is taken for one already shown: once everybody has looked, the  *)
(* screen is built from what the files hold, or the notice says why not;   *)
(* and a notice is about a file that does not load.                        *)
EditsReachScreen ==
  Quiet /\ files # Missing =>
    IF files \in broken THEN notice ELSE screen = files /\ ~notice

(* "never one it needed": nor is a window spared when it was seeded from a *)
(* file the shell has not applied, and the file has been put back since.   *)
(* It does not hold of a window opened while the file did not load.        *)
FormsCurrent == Quiet /\ window /\ files \notin broken \cup {Missing} => forms = files

(* Applied is announced as an edit unless it is the shell's own write.     *)
Announced == always \/ ~own
Applies   == pace = "apply" /\ pace' = "idle" /\ loaded = files

(* The window that made a change is spared the reload, never another's     *)
(* edit: its forms show what was loaded, or they would write it back.      *)
FormsFollow == [][Applies /\ content = files /\ window => forms' = files]_reloadVars

(* The shell's own write coming back is not announced as an edit, however  *)
(* many are on their way.                                                  *)
OwnQuiet == [][Applies /\ saved /\ ~always => ~Announced]_reloadVars

(* Whatever order the edits, saves and looks come in, it becomes quiet.    *)
Settles == <>[](Quiet /\ EditsReachScreen)

(* "a reload in that moment would load - and write - the starter config in *)
(* place of the user's": no file the user has written is replaced by it.   *)
(* It does not hold: the editor may write between the look and the seed.   *)
SeedsNothingOver == [][pace = "seed" /\ pace' = "apply" => files = Missing]_reloadVars

(* "never from a second read, which could take in an edit landing behind   *)
(* the write and pass it off as the shell's own": an edit is announced. It *)
(* does not hold of a layout's write, which is recorded by a second read.  *)
EditsAnnounced == [][Applies /\ ~saved => Announced]_reloadVars

(* What is on screen, in the notice and in the forms is what the files     *)
(* hold, a change is announced as whose it is, and it all comes to rest.   *)
ReloadFaithful == []EditsReachScreen /\ FormsFollow /\ OwnQuiet /\ Settles
=============================================================================
