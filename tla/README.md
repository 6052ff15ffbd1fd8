# hogar-shell in TLA+

hogar-shell is a desktop shell for Wayland compositors: one process that draws
bars, panels, notifications and the lock screen, reads the machine through some
thirty services, and keeps the user's layout, settings and state in files. Most
of its code is user interface and data. What is hard to get right, and hard to
test, is the small part where threads, the driver's loop, the compositor and
the disk meet. That part is what this directory specifies, model-checks with
TLC and, in all its safety, proves with TLAPS for every size of the instance.

`PROJECT.json` lists the runs, the mutants that show each property can fail,
the source lines each definition stands for, the findings, the hazards and the
theorems. This file explains them.

## 1. The system

| Component (crate, files) | State | Operations and partners |
|---|---|---|
| File writer (`util`: `writer.rs`, `fs.rs`) | a queue of jobs, per path the generations submitted and written, a `working` flag, two condvars | `queue`, `write` and `flush` from any thread; one writer thread that stages, renames and flushes the directory. Called by config, shell state, notifications, weather, notes, the layout store, settings, presets, schemes; `flush` from IPC |
| Shared sources (`util`: `broadcast.rs`, `Broadcast`, `Service`) | the current reading, the subscribers, the `running` flag, the census `RUNNING` | `subscribe`, `publish`, `current`, `awaited`, `seed`; a producer thread per service asks `wanted` |
| Keyed sources (`Keyed`; `automation/sources`) | entries by key, each a `Broadcast`; the declared set | `subscribe`, `retain`, `declare`, `retired` |
| Store (`Store`) | a `Broadcast` without a producer, and a `writing` mutex | `update`, `update_then`, `try_update_then`, `subscribe`, `listen` |
| Lock driver (`platform-wayland/lock.rs`) | the queue of one pending lock, `Driver.lock`, the `LockShared` flags of each handle, `SESSION_LOCKED` | `lock_session`, `LockHandle::unlock`, `poll` once a turn, the `locked`/`finished` events and the sync |
| Session lock (`services/lock.rs`, `session.rs`) | `STATE`, `HOLDING`, `POLLING`, `CONFIRMED`, the record (`Marker`) on disk | `lock`, `unlock`, `on_state`, the confirmation poll, `restore`; logind's watcher thread and its sleep inhibitor |
| Authentication (`pam.rs`, `biometrics.rs`, `lock.rs`) | `busy`, `failures`, `locked_out_until`, `GENERATION`, `RUNNING` | `submit`, fingerprint and face attempts, `succeed`, `fail`, lockout expiry |
| Idle (`services/idle.rs`, `platform-wayland/idle.rs`) | armed stages, `fired`, the latched watches | `reconcile`, stage timeouts, resume, inhibitors |
| Shell state (`services/state.rs`) | a `Store` whose changes are persisted | `update_then` into the file writer |
| Notifications (`services/notifications.rs`, `toaster.rs`) | active and past notifications, timers, do-not-disturb | the D-Bus server, replacement, expiry, trimming, persistence |
| Screen recorder (`services/recorder.rs`) | `STATE` (active, paused), `PID` | `start`, `stop`, `toggle_pause` on the driver's thread; a thread per recording that waits for it (`reap`) |
| Other services (`services`) | one reading each | producers over D-Bus, sysfs, PipeWire, Hyprland's sockets |
| Automation (`automation`) | sources, variables, rules with edges and cooldowns | evaluation on each reading |
| Configuration (`config`) | the live configuration and its fingerprint | load, reload, write, presets, schemes |
| Layout (`layout`) | the layout files, trust, bundles | merge, resolve, validate, store, take back |
| Editor (`editor`) | a session with a draft and its history | modes and tools over the draft |
| Surfaces (`surfaces`) | live windows and transient surfaces | reconcile against the layout |
| Driver (`platform-wayland/platform.rs`) | the Wayland connection, the surfaces, the calloop sources | one turn: lock, mount, dispatch, draw; `watch`, `timeout` |
| Commands (`core/ipc.rs`, `services/command.rs`, `surfaces/bundles.rs`) | the connection being served, the request at hand, the slot of a deferred answer, `IMPORTING` | `serve`, `handle_client`, `answer_with`, `defer`, `Deferred::wait`, `import`, `finish`; one thread for the socket, one per deferred answer, the import worker, the driver |
| Running a command (`util/process.rs`, `automation/sources/run.rs`) | the process group, whether its leader is collected, whether its owner stopped it | `run_line`, `output`, `stream_line`, `Stream::stop`; a reading thread per listener |
| Modules, settings, widgets (`modules`, `settings`, `ui`) | user interface state | |
| Application (`apps/hogar-shell`), helpers (`util`), `doc-scanner`, `apps/spike` | | start order, IPC, commands, documentation, a benchmark |

How they meet. A surface subscribes to a source with `watch`, on a thread made
for the purpose; readings come back through a channel whose receiver is a source
of the driver's loop. Stores fan out the shell's own values in the same way, and
whatever must survive is handed to the file writer. Everything that touches the
compositor runs on the driver's thread, so the session lock is a store that any
thread writes and a performer on the driver's thread that follows it.

What is hard:

* every locked section of a source is short and correct by itself, and any two
  threads can be between two of them (subscribing, retiring, publishing,
  forgetting a key);
* the performer of the lock acts on states that may be long past, while the
  compositor's answers are in flight and the poll reads flags set by another part
  of the loop;
* the shell can die holding the lock; what the next start does depends on a file
  written and removed in an order that has to be right at every moment;
* a write is overtaken, fails half way or loses its directory entry in a power
  cut, while somebody has been told it is safe;
* what a thread or a timer of an earlier lock, notification, OSD or configuration
  brings back arrives when a later one is up;
* work is put off to a later turn (a rule's firing, a settled layout, a redraw of the
  column), and what it was decided on has changed by then;
* the user's editor writes the files the shell reads, loads, vouches for and writes;
* a command the user wrote prints what it likes, leaves processes behind and is stopped
  from one thread while another reads it; a client asks, gives up and hangs up while the
  answer to it is on its way between four threads.

The hazards of `PROJECT.json` name the line of each.

## 2. Modules

### FileWriter (`writer.rs`, `fs.rs`)

| Code | Model |
|---|---|
| `writer()` and its `OnceLock` | `writer`: "unset", "threaded", "inline" |
| `Queue.jobs`, `paths[_].submitted/.written`, `working` | `jobs`, `submitted`, `written`, `working` |
| `queue`, `write` | `Enqueue` (with `HandOver` or `CarryOut`), `Receive`, `ReturnInline` |
| `flush` | `FlushCall`, `FlushWait`, `FlushReturn` |
| `next`, `finish`, `run` | `TakeJob`, `Sleep`, `Finish`, `Answer` |
| `write_atomic`: `stage`, `commit` | `Stage`, `Rename`, `Sync`, each with its error path |
| a killed process, a power cut | `Crash`: any set of unflushed names goes back |

The bytes of a write are its serial, so "newer" is "larger". `disk` is what a
reader sees, `durable` what a power cut leaves. A condvar is the set of threads
asleep on it, and `notify_all` a change of that set; spurious wake-ups add
nothing, since every waiter tests its condition again.

### Files, the abstract specification FileWriter implements

What everybody else may rely on: a register per path with what is wanted, what a
reader sees, what the device holds and what was promised. A file takes, in one go,
only newer contents that were asked of it; a promise is about the device; going down
loses unflushed names and no promise. `FileWriter` maps `asked`, `disk`, `durable` and
`acked` to it (`IsRegister`): the queue, the generations, the verdict `Stale` and the
thread are invisible. Planned modules that only store things (`ShellState`, layout,
configuration) stand on `Files` instead of on the queue.

### Broadcast (`broadcast.rs`: `Broadcast`, `Service`)

Each locked section of `attach`, `start`, `wanted` and `publish` is a step. The
`running` mutex is a variable (`lock`) because `wanted` holds it over the look at
the subscribers and the verdict. A reading is the version of the world it was
taken of. `kind` is how the service's producer works: it publishes every reading
(`clock.rs`), only one that differs (`lockkeys.rs`), or it may return without
asking (`battery.rs`). A service has one kind of producer, chosen in `Init`.

### Keyed (`Keyed`, `sources/mod.rs`, `sources/run.rs`)

One key is followed: keys share nothing but the registry's mutex. Its entry is a
`Broadcast`, whose `wanted` is one step here. `Declare` is a layout being loaded;
`Retain` and `Drop` are the two ends of `retain`, which holds the mutex between.

### LockDriver (`platform-wayland/lock.rs`) and the compositor

The driver's turn (`Turn`) is `poll`: start what is pending, then end or cover
what is up, in that order. `wire` and `events` are the two FIFO directions of the
connection. The compositor is external, written from what the code says it
expects: a refusal is sent on creation, `locked` may come any time later,
`destroy` after `locked` was sent cuts the connection, a dead locker leaves the
session locked. Outputs are one flag (`covered`).

### SessionLock (`services/lock.rs`, `session.rs`) over LockDriver

`SessionLock` extends `LockDriver` and is the composition: the performer calls
`LockSession` and `Unlock` as parts of its own steps, and the driver, the
connection and the compositor take theirs. `queue` is the channel from `STATE` to
the performer. Authentication is its outcome: somebody asks for an unlock.
Death and restart: `Crash`, `CutOff` (a protocol error), `CompositorDies`,
`HangUp` (the compositor sees the client gone), `Boot` (`restore`), which nobody is obliged
to do. The record on disk may fail to be written, and to be removed (`Forgets`, allowed by
`MayFailRecord`). `Managed = FALSE` is a compositor without `ext-session-lock-v1`: the driver
has no lock manager to start with, and every request is told that the session cannot be
locked.
The start of a shell is taken to come after the compositor has seen the last
one go: `restore`'s own comment names the narrower race it leaves.

### LockAuth (`services/lock.rs`, `biometrics.rs`, `session.rs`)

What opens a lock. `LockState` is written by the driver thread, by a PAM thread per password
(`PamAccepts`, `PamRefuses`), by a thread per biometric attempt (`BioStep`, `SensorAnswers`)
and by a thread per lockout (`ClearLockout`), none of which can be called back. A biometric
thread is a place in its function and the tries it has left; the generation it checks
(`IsCurrent`) and the write that follows are two steps. `submit` is two steps too.
`SetLockedHint` is a call in flight per thread (`calls`). A thread may fail to start
(`MayNotStart`, at most `MaxUnstarted` of them): a password without one is never answered
and leaves the field busy until an unlock or another attempt's answer (`unasked`), a lockout
without one is shown until a key is pressed (`unwatched`). A limit of no tries (`MaxTries =
0`) never locks out. The compositor is left to `SessionLock`: a lock that is asked for is
granted.

### Idle (`services/idle.rs`, `platform-wayland/idle.rs`)

`Reconcile` drops every handle and arms the stages again unless something holds them
off; the readings it depends on reach it as `notices`, and only those `watching` was
latched on. The compositor counts down (`Elapses`) and tells of a return (`Resumes`);
an event that is on its way when its handle is dropped finds no callback (`Mine`).

### Notifications (`services/notifications.rs`, `modules/stack/mod.rs`)

The bus thread, the driver thread and a thread per popup clock commit under one mutex
and hand the snapshot on after letting go of it: `Commit`, then `HandOn`. `Push` and
`Arm` are the two halves of a send. The column draws (`Draw`, `Redraw`) and starts the
clocks of what it drew (`Shown`); a clock that rings retires the send it was started for.
`Close` and `Expire` look and let go of the lock, then disarm, then commit what is left
(`taking`, `Disarm`, `TakeDown`), so that anything comes between; an action that is taken
commits first and disarms after.

### Rules (`automation/rules/mod.rs`, `services/events.rs`, `session.rs`)

The engine lives on the driver thread, and a turn of its loop is a step; loads and
firings are deferred (`tasks`), events come from a listener thread (`heard`). A loaded
rule has the serial it was loaded under and the answer its edge saw last. The session
action announces its event, and waits until the hold on it is let go or the grace has
passed (`Ask`, `Held`, `Released`, `Act`). Expressions are a reading, `yes`, `no` or
`error`.

### Schedule (`automation/rules/schedule.rs`)

`NextAfter` is the search for the next moment, day by day; `Look` is the thread's look
at the clock, which the machine may sleep past and somebody may set back. What rings
is compared with all the moments a schedule names (`Names`), a definition of its own.

### Column (`services/toaster.rs`, `modules/stack/mod.rs`)

The toaster's thread with its queue, the OSD's one slot with a timer per showing, whose
cards are one per kind (`Osds`), and what is drawn of everything in one lane, to which all
cards are routed: `Lays` is the order of arrival (`Arrivals`) and the admission
to the room there is (`First`, `Fits`).

### ConfigReload (`apps/hogar-shell/lib.rs`, `config/fingerprint.rs`, `settings/form.rs`)

The files are a number: what was written last. The driver thread takes a reload in
steps (`Reload`, `LoadFile`, `Seed`, `Apply`), a save in two, a settled layout in two
(`FlushLayout`, `StampLayout`), and the user's editor comes between any of them. Four
things are assumed of the editor, and named at its actions: an edit is undone, or the
settings reverted, by somebody who has seen the shell take it; a file is not removed
within the half second the watcher takes to see the edit before it; the starter
configuration is not taken away once read; and no configuration is while a window is open
whose forms were seeded where there was no file. Without them two contents that look alike
are confused, which is a limit of comparing fingerprints and not of the order of steps.
The fourth was found by the proof: a save that is not vouched for moves such forms, a file
taken away once more makes the next save find the nothing the forms were seeded from, and
the reload then spares the window. It takes six contents, more than the run has.

### LayoutStore (`layout/store.rs`, `surfaces/layouts.rs`, `bundles.rs`, `editor/session.rs`)

A layout is the text of its file; an entry of the history holds what it puts back and,
as history, what it was recorded against. Every handler is a step: an edit that forks
the built-in layout when that one is drawn (`Commit`), undo and redo, a reload that
keeps what the files do not contradict (`ReloadFiles`), the timer that writes what has
settled (`OnSettled`), the import of a bundle, a restart. `Outside` is the user's
editor. The writes of a flush, and of an import, may fail one by one.

### Subsequence

`Picked` is what is left of a sequence when some places of it are dropped: `retain`,
`filter`, and every other such walk of the code. It says what `SelectSeq` says (`MCShell`
assumes so of short sequences, `PickedSelects`, and TLC evaluates it), but by the places that
stay rather than by recursion, so that facts about it can be proved (section 4).

### Process (`util/process.rs`, `automation/sources/run.rs`)

`kind` is a listener (`stream_line`) or a run with a deadline (`capture`). The command is
external and does what it likes: it prints, forks into its group or out of it (`setsid`),
exits, closes its pipes. `place` is where the reading thread stands; each chunk read, each
lock taken and each callback is a step, so that `Stops` and `StopKills`, the two halves of
`Group::stop`, come between any two of them. `holding` is who keeps the pipes open, which
`DRAIN_GRACE` (`SeesExit`, `Over`) is there to outlast. Once the leader is collected its
number may be anybody's: a kill sent then is recorded in `hit`. A chunk is a line or
something past a cap, and standard error is read and forgotten, so it is left out.

### Commands (`core/ipc.rs`, `services/command.rs`, `surfaces/bundles.rs`)

The thread that accepts connections serves one at a time (`listener`), and a deferred answer
moves its connection to a thread of its own (`Spawns`, or `CannotSpawn`). A line is an
import, which defers its answer, or an import a rule or a key asks for, which nobody waits
on. Lines come whole and there are only so many of them. `IDLE_TIMEOUT` is one of each read
(`ipc.rs:87`), so a client that sends a byte now and then, or lines without end, holds the
listener for as long as it likes, and is not one of `ClientsServed`. `slot` is
`Slot.handoff` of the request at hand: it is let go of by whoever drops it, wherever the
request's channel is by then (`late`: timed out and not yet said). `fate` follows each
import to who was told. `stuck` is a driver thread or a disk that will not answer again,
which no fairness is asked of.

### Recorder (`services/recorder.rs`)

The recorder is a process of its own, and external: it complains to its standard error, which
is a pipe nobody reads before it has ended, and it ends when interrupted or of itself. The
driver's thread starts it in one step (`Begins`: the number and the state are both there
before the thread that waits for it is), and stops or pauses it in several: the state, the
number and the signal are read and sent apart (`LoadsToStop`, `Interrupts`; `SeesToPause` ..
`NotesPause`). The waiting thread collects it, reads the pipe, clears the number and publishes
the end, each a step (`Reaps`). `pid` is whose number it is, so that a signal to one already
collected can be told (`strayed`).

### SharedState (`broadcast.rs`: `Store`; `services/state.rs`)

A state is the set of changes it has had. A write is four steps under the `writing` mutex: the
value is read and changed, set, sent and persisted, and the change may be refused. The file is
the register of `Files`, instantiated: its numbers stand for what was asked of it
(`contents`), so `Persists` is its `Ask`, `FileTurns` its `Replace` and `Flush`, `GoesDown`
its `GoDown`, and `FileWriter`, which implements `Files`, is what stands behind them. A shell
that starts loads what the file holds. A file that somebody else broke reads as the defaults,
which is where the model begins.

### The harnesses

`MCServices` runs `LockAuth`, `Idle`, `Notifications`, `LockDriver`, `Commands`, `Recorder`
and `SharedState`; `MCShell` runs `Keyed`, `Rules`, `Schedule`, `Column`, `ConfigReload`,
`LayoutStore` and `Process`. The parts of a harness share no variable and no code path, so
nothing is lost by letting one of them run at a time, chosen in `Init` (`part`): the state
space is the sum of theirs, and every property is checked in every part, where it is about the
part that runs; `CommandEnds` of `MCShell` is `RunsEnd` of `Process`, for that part. Each
part's fairness is repeated with `part = ...` in front, since fairness of a part that does not
run asks nothing. The harnesses keep the number of runs small; `Parts` picks one part.

## 3. Runs

Every run checks deadlock off: each of these systems may stop, when nobody asks
for anything any more or a bound is reached.

| Run | Instance | What it shows |
|---|---|---|
| `file_writer` | 2 paths, 2 callers, 3 writes, 1 crash; symmetric | types; an acknowledged write is durable (`AckDurable`); the disk never goes back (`DiskForward`); `flush` is honest (`FlushHonest`); the writer implements `Files` (`IsRegister`) |
| `file_writer_live` | 1 path, 2 callers, 3 writes, 1 crash, with and without the thread | every call returns (`CallsReturn`) |
| `broadcast` | 2 surfaces, 1 caller, 3 producers of each kind, failing spawns, seeding | at most one producer; no subscriber stranded; the census is exact; an unheard producer ends; a polling one heals |
| `broadcast_in_sync` | 2 surfaces, 2 producers that publish changes | violation: see findings |
| `keyed_twice` | 1 key with 2 entries, 2 surfaces, 3 producers, 3 layouts | violation |
| `lock_driver_destroy` | 1 lock | violation |
| `session_lock` | 3 locks, 3 requests, refusals, an impossible lock, a suspend, 2 deaths | the record on disk is true (`RecordHonest`); the poll follows the lock held, and what is announced is in force (`PerformerHonest`); where a shell comes to stay up, a dead one's lock ends behind a lock screen, unlocked, told to be impossible, or with an unlock asked for (`Recovers`) |
| `session_lock_live` | 3 locks, 2 requests, 2 deaths, refusals, take-backs, an impossible lock, a record that cannot be written or removed, a user who clears a dead shell's lock while none runs | a lock is held exactly if wanted, in force if it is, gone if it is not, and no start locks an unlocked session (`RequestsSettle`) |
| `session_lock_record` | 2 locks, 2 requests, 1 death | violation |
| `session_lock_sleep` | 2 locks, 3 requests, a suspend | violation |
| `services` | seven parts, one at a time: unlocking (2 locks taken, 2 passwords, a finger or a face with 1 try or a hint to logind, a thread that cannot be started), idle (2 stages, 3 configurations, 3 arms, 3 changes), notifications (2 ids, 2 sends, 2 acts), the lock's driver (3 locks), commands (2 clients, 2 lines, a driver thread or a disk that sticks), the recorder (2 recordings, a pipe with room for 1), the state (2 writers, a reader, 3 changes, 2 times down) | what an attempt leaves behind is its own (`AttemptsKept`); a lockout lasts as long as it says, and the field comes back (`LockoutRuns`); the stages armed are those that should be, and what fired is what they counted (`ArmedTruly`, `ReturnsWhileArmed`); a popup is changed by its own author, clock or user and goes (`PopupsKept`, `PopupsEnd`); a refused lock is never drawn on, the driver never competes with itself, its flag is honest (`DriverHonest`); every handle is answered and heard (`HandlesReach`); how an import went is said once, to whoever waits or in a notice, and each reply is true (`ImportsTold`); every client is served, whoever holds a connection open (`ClientsServed`); a recorder that runs is the one shown and reached (`RecorderFollowed`); no change of the state is lost or comes back undone (`StateKept`) |
| `shell` | seven parts, one at a time: a key with 2 entries, 2 surfaces, 3 producers; 2 rules, 2 loads; a week of 2 days of 5 ticks; 2 popups, 3 events and an OSD of 2 kinds, with room for 2 cards; 4 contents of the files and 2 moves; 2 layouts of 3 texts and 3 acts; a command that prints twice, forks and leaves something behind | a subscriber is served by the entry it found, an unused key is forgotten (`Served`, `Forgets`); a rule is fired, judged and reported on as it is written (`RulesAsWritten`); the session's end waits for its rules (`SessionWaits`); every time rings once or was slept through (`RingsInTime`); every provider that has a card and room has one drawn, toasts and OSD go by themselves, and the OSD not before its time (`CardsKept`); screen, notice and forms are what the files hold (`ReloadFaithful`); store, history, screen, files and timer agree, and edits are written (`EditsKept`); a command goes with its group, is never killed under another's number and is silent once stopped (`CommandsContained`), and is over by its deadline, or when it exits or is stopped (`CommandEnds`) |

Some properties are conjunctions with named parts, each explained at its definition:
`DriverHonest` is `RefusedUncovered`, `NeverAgainstItself` and `FlagHonest`; `StoreHonest`
is `InStep`, `NoneForgotten`, `TimerRuns`, `DrawsHeld`, `DirtyIsHeld` and `HistoryApplies`;
`ReloadFaithful`, `CardsKept`, `CommandsContained` and `RulesAsWritten` are four each,
`PopupsKept` three, and `Settles` of `Broadcast` is `Retires` and `Heals`. `EditsKept` asks for
`StoreHonest`, and `RequestsSettle` for `RestoresLocked`, at every moment. `RecorderFollowed` is
`Reached`, `PauseShown` and `StoppedEnds`; `StateKept` is `NoneLost`, `FileAsked`, `FileGrows`
and `SeesForward`.

Why these bounds are enough. A write can only be overtaken by one queued after it and judged
against one written before it: three writes of one path are the shortest history with all
three, two paths the fewest for which one could be judged by the other's generation. One
crash separates two processes, and the serial lives through it. A service's races are
between one that leaves, one that comes and one that replaces it: two surfaces and three
producers. A key's entry is forgotten once and made again once. Two locks in a row, with a
third that is asked for while the second is undecided, are the longest chain the driver can
mix up. A death while a restored lock is pending needs two. An attempt that outlives its
lock needs a second lock; a lockout that is cut short by an earlier one needs two passwords
and a limit of one. A reconcile between a stage and its return needs two arms, and a third
shows that the countdown starts again. A send that replaces another, with the first one's
clock running, is two sends; the second id tells them from a new one. A rule is replaced
between its crossing and its firing by a second load, and two rules are the fewest of which
one can stop the other. A week of two days of five ticks, with schedules of up to three
times and two days, has a time before, at and after a look on each kind of day, and the
clock runs for two and a half days. A lane of two, with two popups, three events and two
kinds of OSD that may want it, is the smallest in which a second card of one provider
competes with the first of another. Four contents let an edit, a save and a layout's write
follow the file found; remembering two own writes lets one be dropped. Two layouts, one of
which a bundle writes, and three acts (checked apart with four) reach an edit, a rewrite and
an undo. A command's races are between a chunk in the callback, one behind it and a stop:
two chunks, and one process of each kind (the leader, one of its group, one that left it).
Two clients are one that is served and one that waits; two lines are an import and what
comes while it is in flight, from the same client or the other. A recording begun while the
one before is on its way out is two. Two writers with three changes lose one to the other,
and once more after the shell has been down. Each part was checked alone to see that every
one of its actions fires, and the rules with books of every pair of triggers in sets of
three.

Every property has a mutant: a plausible slip of one mapped definition
(kept next to it in the module, named and commented as such) that TLC refutes
under the run's own bounds, which is the evidence that the bounds reach the case.

### Fairness

Only what the code schedules is fair, and weakly: a running thread takes its next step
(`WriterStep`, `Resume`, `Subscribing`, `Calling`, `Producing`, `Retiring`, `BioStep`,
`HandOn`, `Arm`, `Disarm`, `TakeDown`, `ClearLockout`, `Listen`, `Reads`, `StopKills`,
`ClientThread`, `Worker`, `Presses`, `Reaps`); the driver's loop turns and dispatches what
is queued for it, in particular the poll timer, which re-arms itself, the watcher's ticks
(`OnTick`, `Proceeds`), the column's snapshots (`Draw`), the layouts' timer (`OnSettled`)
and requests (`Driver`); the connection delivers; a compositor that has accepted a lock
grants it, and one that told of an idle seat tells of its return (`Resumes`); a recorder
that was interrupted ends, unless it is stuck; PAM answers; clocks run (`TimePasses`,
`Tick`, `GracePasses`, `Rings`, `DeadlinePasses`, and the timeouts in `ClientThread`); an
editor that removed a file writes it. Nobody is obliged to start a shell that died: the
properties that need one say so (`<>[]up`). Nor is anybody obliged to ask for a write or a
lock, to subscribe, to close, to touch a reader, to sleep, to crash, to refuse or to take a
lock back, a rule's commands may never come back, a command never exits, a client never
sends or hangs up, what is stuck does not move, and the world is not obliged to change.

### Findings

* `broadcast_in_sync`: `attach` sends the current reading and files the sender in
  two steps. A reading published between them reaches neither, and a producer that
  publishes only what differs never repeats it.
* `keyed_twice`: `Keyed::subscribe` leaves the registry with the entry's `Arc`
  before it has started its producer; `retain` then drops an entry about to be used,
  and the next subscriber makes a second one with a second producer.
* `lock_driver_destroy`: a turn sends `lock` and `sync`, the handle is given up before the
  next turn, and the compositor grants the lock meanwhile. The driver has not read `locked`
  and sends `destroy`, which the protocol forbids once the compositor has confirmed; it cuts
  the connection and stays locked, with no record for the next start.
* `session_lock_sleep`: a lock, an unlock and a suspend that asks for a lock again. The
  watcher takes the flag of the first lock, which the performer has given up and the driver
  has just read as granted, for that of its own, and lets go of the inhibitor: the machine
  sleeps behind a lock that the driver's next turn ends. The property is about that step, so
  an unlock of somebody else's after it does not count.
* `session_lock_record`: a shell takes a dead one's lock back, and an unlock asked for before
  the compositor grants it removes the record, which `lock.rs:673` says is kept. The session
  stays locked by the dead process, and the next start does not know.

More were met while modelling. They are not runs, because each would be one of its own for
a single property; most are stated in their module, next to the properties that hold, with
a comment that says they do not. `Parts` and the constants named here reproduce them.

The sources and the driver:

* a producer that returns without asking (`battery.rs`, a battery taken out) leaves
  its slot claimed: `NoStranded` without its condition on `kind` is refuted;
* where no writer thread can be spawned, two callers write one path side by side and
  the older bytes may land last: `DiskForward` with `Spawns = {"inline"}`;
* an unlock and a lock within one turn of the driver: `poll` runs `start` before it
  ends the old lock, answers the new request "finished", and the shell reports it as
  the compositor's doing. With a compositor that never refuses, `refused` is reached;
* a lock asked for while the performer subscribes is lost (`RequestsSettle` with
  `Early = TRUE`).

Unlocking, idle and notifications:

* `Alongside`: a finger waited for marks the field busy, so with a reader that nobody
  touches the password cannot be typed; `biometrics.rs:3` says "They run alongside the
  field";
* `BusyIsReal`: the mark outlives the attempt it was set for, or goes while it runs;
  `lock.rs:82`, "An authentication attempt is in flight; the field is inert until it lands";
* `HintSettles`: each `SetLockedHint` is a thread of its own (`session.rs:186`), and an
  ended lock's call may land last, so logind is left with the wrong answer;
* `ReturnsWhenWoken`: `docs/features/system/idle.md:35`, "`return_action` runs when the seat
  wakes, if that stage had fired"; a reconcile in between drops the handle and the screen
  that a stage blanked is not lit by it (`idle.rs:90`);
* `PopupExpires`: a popup that is armed after the column drew it has no clock until
  something makes the column draw again;
* `ColumnInSync`: two commits may be handed on in the other order, and the column then
  draws the older one until the next change.

Commands:

* `AlwaysSaid`: an import's reply "answers whether that reached whoever asked, and where it did
  not — they stopped waiting — the notice says it after all" (`bundles.rs:694`). Handing the
  answer to the slot counts as having reached them: a client that hung up while its thread
  waits, a channel whose thread has just timed out, or a waiter that could not be spawned,
  leaves an import that nobody is told of. `ImportsTold` says that these are the only ways.

The recorder and the state:

* `SignalsOwn`: the number is cleared after the wait, so a stop or a pause may signal a process
  already collected; `recorder.rs:303`, "`pid` is a process this shell spawned and has not
  reaped";
* `PausedIsLive`: a pause noted after the end stays on the finished recording, whose length is
  then counted as if it were still paused (`recorder.rs:280`);
* `StopEnds`: nobody reads what a recorder writes to its standard error until it has ended, so
  one that has filled the pipe can neither go on nor close its file; and where the thread that
  waits cannot be spawned (`recorder.rs:209`) the recording is shown as running for good;
* `StaysInSync`: a change published while a subscriber is between `attach`'s two steps does not
  reach it before the next change; a `Store` never repeats itself (`broadcast.rs:409`, "so a
  surface starts in sync"), and `listen` has the same two steps.

Automation:

* `StartedIsHeard`: `docs/guides/scripting.md:208` lets a rule fire on each event, `:332`
  lists `started`; the engine loads, and begins to listen, in a turn after `setup_shell`
  emitted it (`lib.rs:349`);
* `GraceIsHonoured`: of two times slept through, one within the grace of the look, the
  first is judged and the second skipped with it (`schedule.rs:164`).

Configuration and layouts:

* `FormsCurrent`: a window opened while `config.toml` does not load is not seeded again if
  the file is put back as it was; `form.rs:155`, "never one it needed";
* `SeedsNothingOver`: the file may be written between the look and the starter's write;
  `fingerprint.rs:77` names that loss as what `settled` is there to prevent;
* `EditsAnnounced`: a layout's write is recorded by a second read (`layouts.rs:356`), which
  `wrote` asks callers never to do (`fingerprint.rs:218`): an edit that lands in between is
  passed off as the shell's own;
* `SafeIsBuiltIn`: under `--safe-layout` a reload reads the user's layouts into the store
  and draws the chosen one; `layouts.md:363`, "the store holds the built-in layout alone";
* a layout whose write fails is no longer dirty (`store.rs:601` takes the set first), and
  the next reload reads the older file back; `store.rs:7`, "nothing is ever lost — only
  deferred". `NoneForgotten` holds short of it (`unwritten`);
* an import that fails half way has changed the store, and `change_or` neither redraws nor
  moves the revision (`layouts.rs:281`); `:46`, "Moves with every change to the store".
  `InStep` holds short of it (`halfway`).

## 4. Proofs

`FileWriterProofs` proves, for every set of paths and callers, any number of writes
and any number of crashes, under the assumption that the writer thread can be spawned
(`Threaded == Spawns = {"threaded"}`; with `Spawns = {"inline"}` TLC refutes
the others, see the findings):

* `TypeCorrect`: `Spec => []TypeOK` (without the assumption);
* `AckDurability`: `Spec => []AckDurable`;
* `DiskMovesForward`: the action property `DiskForward`;
* `FlushIsHonest`: the action property `FlushHonest`;
* `ImplementsRegister`: `Spec => IsRegister`, the refinement of `Files`.

None but the first is inductive. The inductive invariant `IInv` adds to the
types eight named parts, each a fact about the queue between two steps:

| Part | Says | Needed because |
|---|---|---|
| `NoInline` | only the writer thread carries jobs out | the order of the queue is the order of the renames |
| `HeldOK` | the writer holds a job exactly while `working`, from the take to the answer | `flush` looks at `working`, not at the thread |
| `QueueOrder` | serials rise along the queue, and the job in hand is older than all of it | a rename must be newer than the disk |
| `GenerationOrder` | so do the generations of a path, between `written` and `submitted`; the newest request has the newest generation | `Stale` must never drop the newest request |
| `DiskBehind` | disk and failures are older than all that waits; at "sync" the disk holds the job in hand | the directory flush makes that very job durable |
| `OkDurable` | an Ok on its way to a caller is about durable bytes | `AckDurable` at the answer |
| `NewestKept` | the newest request of a path has landed, has failed, waits, or is in hand | `FlushHonest`: with an empty queue and nothing in hand only the first two are left |
| `AckDurable` | the promise itself | |

`InvNext` has one step per action; calls, wakes and returns that move no job and no file
are taken together as `Idle`.

`BroadcastProofs` proves, for any surfaces, callers, versions of the world and kinds of
producer, and any finite number of producer threads:

* `OneProducerAlways`: `Spec => []OneProducer`;
* `NobodyIsStranded`: `Spec => []NoStranded`;
* `CensusIsTrue`: `Spec => []CensusTrue`, and with it `TypeCorrect`: `Spec => []TypeOK`
  (that the count stays a natural number is only true because it is exact).

The argument is about the flag. `LockHeld`: the mutex is held by the one producer inside
`wanted`. `Claimed`: the flag is up exactly while one producer, or the fixture, holds the
claim (a producer that returned unasked leaves it up). `Registered`: a surface that is
there and has registered is filed. `NobodyMissed`: when a producer has seen an empty list
and is about to give the claim up, a surface that has registered since is still before its
own `start`, which the mutex holds back. `NobodyStranded`: hence, with the flag down, every
registered surface has its look at the flag ahead of it. Dropping the mutex from `wanted`
(the mutant `AskUnlocked`) breaks exactly `LockHeld`. `StartSplits` names the thread
`start` makes, and `NextSplits` sets aside the steps that touch neither the list, the flag
nor a producer.

`LockDriverProofs` proves `DriverHonestAlways`: `LockSpec => []DriverHonest`, for any number
of handles and any of the compositor's policies. The inductive invariant `IInv` relates the
two queues of the connection:

| Part | Says | Needed because |
|---|---|---|
| `Known` | whatever is said or held is of a handle that was started; the pending one is the newest and none of them | a new lock is nobody's until now |
| `LockBeforeSync`, `Unanswered`, `LateSurface`, `SettledLate` | a lock's request precedes its sync, whose answer precedes everything drawn on it | a lock that is refused has no surface in flight |
| `RefusalTold`, `RefusalFirst`, `RefusalSettled` | a refusal is read before the answer to the sync behind it | the driver that sees the answer knows of the refusal |
| `OthersReleased`, `Succession`, `NotReleased` | between two locks asked for, and between the one held and the next, lies the end of the first; the current one's end is not in flight | the compositor never refuses a lock because of the driver's own |
| `FlagTrue` | the flag, or a `locked` about to set it, speaks of the lock in force, or of one whose end is on its way | `FlagHonest` |

`TurnSplits` reduces a turn to three cases (a lock is started, ended, or goes on) and
`ServeSplits` what the compositor does with a request to five; each is a lemma of its own,
and the indices of the queues are shifted once, in `Appended` and `Shorter`.

`SessionLockProofs` stands on it. While the shell is up, the performer asks and gives up as
the driver was proved against (`Asks`, `GivesUp`), and across a death of either side `Known`
is what is left of `IInv`; `SInv` adds what the performer keeps by itself (`HeldIsLast`,
`OneChain`, `Numbered`, `Made`). From it: `TypeCorrect`, `HeldIsFollowedAlways`, and
`DriverHonestWhileUp`, the driver's promises for the whole lock, through deaths and restarts.
The rest takes facts about what is in flight, and what the code itself presupposes, which is
a hypothesis of the theorem and a constant of the module:

| Theorem | Argument | Presupposes |
|---|---|---|
| `AnnouncedIsTrueAlways`, `PerformerHonestAlways` | `Announced`: the newest state published, or else the one announced, is the present one | `~Early`: no callback before the performer has subscribed; with it TLC refutes the property |
| `RecordedIsLockedAlways` | `RecordTrue`: with a record of this session the session is locked, and no lock that could still end it, or replace it (`InPlay`), has been given up. `Heard`, `Rising` and `GrantsLast` say what a grant is worth: it was told, handles are asked for in order, and one granted ends only by being given up | `~MayTakeBack`, `~MayClear`, `~MayFailRecord`: the record speaks for as long as nobody but the shell ends its locks, and it can be removed; the poll finds out later when somebody else ends one |
| `KnownIsRecordedAlways` | directly, step by step | `~MayFailRecord`: the record could be written |
| `RecordHonestAlways` | the two before | these three, as in the run `session_lock` |
| `RestoresLockedAlways` | `Restoring`: a lock taken back is the only one in play until it is granted, refused or given up | `~MayClearLate`: the user does not clear the lock between a start's look and its lock, the race `lock.rs:456` names |

The compositor may refuse, in all of them; and `Suspends`, `MayNotLock`, `Notifies`, the
number of locks, requests and deaths are any.

`ServicesProofs` holds the services, one section each.

* Authentication: `AttemptsKeptAlways`: `AuthSpec => []AttemptsKept`, and
  `LockoutHoldsAlways`, the safety half of `LockoutRuns`, for any sensors, limits (none
  too), locks, passwords and threads that cannot be started. The inductive invariant adds to
  `AttemptsKept` only `Clock`: deadlines are numbered and pass in order, so that a new
  lockout's deadline is ahead of whatever an older thread waits for. Most steps are
  `Bystander`s of the two facts, and what a success, a failure and a lock given up do to
  them is stated once each (`SucceedEnds` and its neighbours).
* Idle: `ArmedTrulyAlways`: `IdleSpec => []ArmedTruly`, for any stages, configurations and
  bounds. `InhibitHolds` is inductive with the types. `FiredIsIdle` needs `SentBefore` (what
  is on its way was sent to handles armed by then, so that a reconcile makes all of it void)
  and `IdledOrFollowed` (a stage whose `idled` is still to be read has idled for the
  compositor, or a later event of the same stage follows in the queue): what a dispatch lets
  fire has then idled, or its return is on its way.
* Notifications: `PopupsKeptAlways`: `NotifSpec => PopupsKept`, and `PopupsArmedAlways`, the
  safety half of `PopupsEnd`, for any ids, sends and acts. The invariant needs three facts
  besides: what is up was sent by somebody and by now (`SentByNow`), an id not yet given out
  is nobody's (`FreshGone`), so that a new one replaces nothing, and under do-not-disturb
  nothing pops (`Quiet`). Every step but a send only lets notifications fade
  (`QuietlyFades`).
* The recorder: `RecorderFollowedAlways`, for any number of recordings and any pipe.
  `OnlyLast`: of all recordings only the newest is not over. `FollowsLast`: the state, the
  number and the thread that waits are all of it. `PauseUnderWay` says what a pause that has
  read the state and not yet noted its change still knows.
* The state: `StateKeptAlways`: `SharedSpec => StateKept`, for any writers, readers, changes
  and restarts. `OneWrites` is the `writing` mutex; `AskedLast` and `FileBehind` tie the
  register of `Files` to the contents asked of it, and `FileGrows` orders those, so that what
  a restart loads has lost only what came after it; `SeenBehind` is a reader's place between
  `attach`'s two steps.
* Commands: `ImportsToldAlways`: `CommandsSpec => []ImportsTold`. `Tallied` counts lines,
  replies and the request at hand of each connection; `ImportKnown` says whose import runs,
  `RequestsFresh` that nothing has come of one still on its way; `FatesTold` is where an
  answer that was told, or lost, has gone.
* `ServicesTyped`: `Spec => []TypeOK` of `MCServices`, from all of these and the lock's driver.

`SubsequenceProofs` states what a walk that drops some elements keeps: the type
(`PickedType`), the order of what is left (`PlaceGrows`), which of it is the k-th (`RankOnto`,
`PlaceRank`, `RankPlace`), and that two such walks in a row are one (`PickedOfPicked`). They
are proved from the cardinality of intervals, without an induction, which is what a theorem
about `SelectSeq` would take.

`LayoutStoreProofs` proves `StoreHonestAlways`: `StoreSpec => []StoreHonest`, and
`EditsOutlastAlways`, which are all of `EditsKept` but that edits are written in the end, for
any layouts, texts, imports and restarts. `StoreInv` adds two facts to the parts of
`StoreHonest`: a file that was seen is held (`SeenIsHeld`), and so is every layout the history
speaks of (`Upheld`). The history of a layout is a chain: each entry applies to what the next
one of that layout leaves (`Follow`), the newest to the store. An edit appends a link, undo
moves the last to the other stack, and a reload drops whole chains (`Picked`, whose order
lemmas are used here).

`ShellProofs` holds the shell's parts.

* Keyed sources: `ServedAlways`: `KeyedSpec => []Served`, for any surfaces, entries, producers
  and layouts loaded. The flag of each entry is treated as in `Broadcast`; what is new is
  that an entry is found in one step and started in another. `Found`: a surface past its
  lookup holds the entry it found, which may have been forgotten meanwhile. `Claimed`: a claim
  on an entry is held by a producer that serves it. `Registered`: a surface that has attached
  and is there is among the entry's subscribers, so its producer, whoever started it, cannot
  give the claim up. Nothing is said of the key's present entry, which is why the second
  producer of `keyed_twice` and this theorem go together.
* Commands that run: `ContainedAlways`: `ProcessSpec => CommandsContained`, whatever the
  command prints. `Collected` ties the leader's collection to the end of the reading thread
  and to an empty group; `Silenced` says that whoever has begun to stop a command is not
  inside its callback, which is what the lock of `deliver` is for (the mutant `StopsAnyTime`
  drops it); `OwnPlaces` keeps runs and listeners apart, and `EndTold` is the order of what is
  told.
* The schedule: `RingsInTimeAlways`: `ScheduleSpec => RingsInTime`, for any times, days, length
  of the week and of the day, grace and sleep. The heart is `NextAfterFirst`: what the search
  from day to day finds is the first moment after now that the schedule names, and there is
  one within a week and a day. It takes the arithmetic of days (every moment is one day and
  one tick of it); `RungBefore` adds that what rang is over. The clock begins
  anywhere in the first day, which the bound `End` may not cut short (`DayTicks <= End + 1` of
  `ScheduleAssumption`).
* The rules: `RulesAsWrittenAlways`, and `EndsAfterRulesAlways`, the safety half of
  `SessionWaits`, for any books, budgets and loads. `AsLoaded` and `EdgesStand` tie a loaded
  rule to the book and its edge to the reading; `FiringsAsWritten` says of each firing put
  off that it is of a rule as it was loaded under its serial; `EndHeard` follows the event of
  the session's end from the queue to the firings owed for it; `Overspent`
  and `InTurn` keep who is suspended, and what can be under way before the start and the end.
* The configuration: `ReloadFaithfulAlways`: all of `ReloadFaithful` but that it comes to rest,
  for any number of contents, moves and own writes kept. Of `ReloadInv`, `Reaching` says that
  what the files hold is on screen or about to be looked at, `Recognised` that two contents
  the shell tells apart by fingerprint are not one that came back (the four assumptions
  about the editor are used here), `FormsHeld` that a window shows what it was seeded from or
  vouches for, and `OwnsHeld` that the shell's own write stays known until it is loaded.
* The column: `CardsKeptAlways`: all of `CardsKept` but that everything goes, for any popups,
  events, kinds of OSD and room. `LaneShown`: what is drawn is what the order of arrival admits
  (`DrawnOf`). `BeforeIs`, `BeforeOrders` and `BeforeAll` show that "critical first, then as it
  arrived" is a total order of the cards, `OneFirst` that each provider has one first card
  in it, and `DrawnStays` what leaving and arriving cards do to who is admitted, which is
  where `Arrivals` needs to keep an order (`ArrivalsOrder`).
* `ShellTyped`: `Spec => []TypeOK` of `MCShell`, from all of these and the store of layouts: the
  part that runs keeps its invariant, and the others stand still (`PartsMove`).

With these, every property that a passing run checks is proved in all of its safety, as a
theorem of the same specification and for every value of the constants. What is left to TLC,
because the prover has neither fairness nor `ENABLED`, is what must happen in the end:
`CallsReturn`; `Settles` of `Broadcast` and of `ConfigReload`; `Forgets`; `HandlesReach`;
`Converges`, `WantedIsLocked` and `UnwantedIsLeft` of `RequestsSettle`; `Recovers`;
`FieldReturns` of `LockoutRuns`; `ReturnsWhileArmed`; `ClockEnds` of `PopupsEnd`; `StoppedEnds`
of `RecorderFollowed`; `ClientsServed`; `SessionEnds` of `SessionWaits`; `AllGo` of `CardsKept`;
`RunsEnd`, which is `CommandEnds`; and of `EditsKept` that edits are written. So are the
properties of the violation runs, which do not hold.

## 5. Not modelled, and the plan

Not modelled: user interface (modules other than the column, settings forms, widgets, most of
surfaces and of the editor), data (the layout model with its resolving, merging and
validation, configuration sections, themes), parsing and plain I/O (most services, most commands
and their documentation), the document scanner and the benchmark. They are most of
the lines of the repository, and tests are the right tool for them. Within the modelled
parts: monitors plugged in during a lock, a compositor session that cannot be identified, the
text of refusals, the content of readings, the plain channels of `Store::listen`, what a
recorder's arguments are and the list of recordings, the history,
muting and sounds of notifications, what a rule's commands do, several settings windows,
commands started and forgotten (`run_detached`), and komponents, which the store treats on the
layouts' terms.

Planned, in this order:

1. Proofs of what liveness rests on and is itself safety: no wake-up of the file writer is
   lost, a state that waits for something has it on its way, and every wait has a measure
   that its fair steps lower.
2. The layouts' flush and the configuration's saves over the register of `Files`, as
   `SharedState` has it, so that a power cut reaches them.
3. Surface reconciliation (`surfaces/reconcile.rs`): what is kept, rebuilt and closed when
   the layout, the monitors or the configuration change.
4. The poll fallbacks of the producers, and the writers of `brightness.rs`.
5. Pure algorithms against reference definitions: merging and resolving a layout, the bar's
   and an area's division of space.

The runs are few on purpose: a new module joins a harness, or takes over a run from a bound
that another run subsumes.
