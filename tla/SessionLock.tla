----------------------------- MODULE SessionLock -----------------------------
(***************************************************************************)
(* The session lock as a whole: what the shell wants (LockState), the      *)
(* performer that reconciles it with the lock it holds, the confirmation   *)
(* poll and the record a crashed shell leaves behind, all of               *)
(* crates/services/src/lock.rs; the suspend that waits for the lock        *)
(* (session.rs); and, from LockDriver, the driver and the compositor.      *)
(*                                                                         *)
(* Any thread writes STATE; the performer hears of it through a FIFO       *)
(* channel and so acts on states that may be long past.  Authentication    *)
(* is abstracted to its outcome: somebody asks for an unlock, at any time. *)
(***************************************************************************)
EXTENDS LockDriver

CONSTANTS
  Askers,       \* threads that ask: IPC, the menu, logind, idle, PAM, biometrics
  MaxAsks,      \* bound: requests made
  MaxCrashes,   \* bound: times the shell or the compositor dies
  MayNotLock,   \* TRUE: can_lock may refuse
  MayFailRecord, \* TRUE: writing or removing the record may fail
  MayClear,     \* TRUE: the user may clear the lock of a dead locker,
  MayClearLate, \* and if TRUE with a shell up that is about to take it back
  Notifies,     \* TRUE: the compositor says whether the session is locked
  Early,        \* TRUE: callbacks may run before the performer has subscribed
  Suspends      \* TRUE: the machine may be put to sleep

ASSUME SessionLockAssumption ==
  /\ MaxAsks \in Nat /\ MaxCrashes \in Nat
  /\ {MayNotLock, MayFailRecord, MayClear, MayClearLate, Notifies, Early, Suspends}
       \subseteq BOOLEAN

VARIABLES
  up,           \* the shell runs
  wanted, locked, refused,  \* STATE
  queue,        \* states published to the performer and not yet looked at
  listens,      \* the performer's subscription: "no", "read", "yes"
  asks, asked,  \* what each asker has decided to write, and how many have
  holding,      \* HOLDING: the handle, None if nothing is held
  origin,       \* its Origin
  granted,      \* Holding.granted
  polling,      \* POLLING
  timers,       \* confirmation polls scheduled on the loop
  confirmed,    \* CONFIRMED: the last locked announced
  marker,       \* the record on disk: the compositor session it names, 0 if none
  session,      \* the compositor's session
  crashes,      \* deaths so far
  sleeper,      \* the logind watcher: "awake", "waits", "asleep", "unsure"
  sleepLock     \* an Event::Lock on its way to the driver

stateVars  == <<wanted, locked, refused, queue>>
askVars    == <<asks, asked>>
holdVars   == <<holding, origin, granted, polling, timers>>
sleepVars  == <<sleeper, sleepLock>>
worldVars  == <<marker, session, crashes, up>>
vars == <<stateVars, askVars, holdVars, sleepVars, worldVars, confirmed, listens, lockVars>>

State == [wanted : BOOLEAN, locked : BOOLEAN]

(* Types, that one poll at most is scheduled, and that a crash costs the   *)
(* process everything it held.                                             *)
TypeOK ==
  /\ LockTypeOK
  /\ {up, wanted, locked, refused, granted, polling, confirmed, sleepLock} \subseteq BOOLEAN
  /\ queue \in Seq(State)
  /\ listens \in {"no", "read", "yes"}
  /\ asks \in [Askers -> {"idle", "lock", "unlock"}]
  /\ asked \in 0 .. MaxAsks
  /\ holding \in Handles \cup {None}
  /\ origin \in {"Requested", "Restored"}
  /\ timers \in 0 .. 1
  /\ marker \in 0 .. MaxCrashes + 1
  /\ session \in 1 .. MaxCrashes + 1
  /\ crashes \in 0 .. MaxCrashes
  /\ sleeper \in {"awake", "waits", "asleep", "unsure"}
  /\ ~up => holding = None /\ drv = None /\ ~sessionLocked

Init ==
  /\ LockInit
  /\ wanted = FALSE /\ locked = FALSE /\ refused = FALSE
  /\ queue = <<>> /\ listens = "no" /\ confirmed = FALSE
  /\ asks = [a \in Askers |-> "idle"]
  /\ holding = None /\ origin = "Requested" /\ granted = FALSE
  /\ polling = FALSE /\ timers = 0
  /\ sleeper = "awake" /\ sleepLock = FALSE
  /\ up = TRUE
  /\ asked = 0
  /\ marker = 0 /\ session = 1 /\ crashes = 0

-----------------------------------------------------------------------------
(* STATE.update on top of q: the value changes, and is sent to whoever has *)
(* subscribed by now.                                                      *)
Publish(q, w, l, r) ==
  /\ wanted' = w /\ locked' = l /\ refused' = r
  /\ queue' = IF listens = "yes" THEN Append(q, [wanted |-> w, locked |-> l]) ELSE q

(* The performer subscribes at startup, on a thread of its own (attach).   *)
Listen ==
  /\ up
  /\ \/ /\ listens = "no"
        /\ listens' = "read"
        /\ queue' = Append(queue, [wanted |-> wanted, locked |-> locked])
     \/ /\ listens = "read"
        /\ listens' = "yes"
        /\ UNCHANGED queue
  /\ UNCHANGED <<wanted, locked, refused, askVars, holdVars, sleepVars, worldVars, confirmed,
                 lockVars>>

-----------------------------------------------------------------------------
Ready == up /\ (Early \/ listens = "yes")

(* Requests: lock and unlock look at the state, and then write it.         *)
Consider(a) ==
  /\ Ready
  /\ asks[a] = "idle" /\ asked < MaxAsks
  /\ asked' = asked + 1
  /\ asks' = [asks EXCEPT ![a] = IF wanted THEN "unlock" ELSE "lock"]
  /\ UNCHANGED <<stateVars, holdVars, sleepVars, worldVars, confirmed, listens, lockVars>>

Write(a) ==
  /\ asks[a] # "idle"
  /\ IF asks[a] = "lock" THEN Publish(queue, TRUE, locked, FALSE)
                         ELSE Publish(queue, FALSE, locked, refused)
  /\ asks' = [asks EXCEPT ![a] = "idle"]
  /\ UNCHANGED <<asked, holdVars, sleepVars, worldVars, confirmed, listens, lockVars>>

(* Any other change of STATE (busy, a message, a failed attempt): what the *)
(* performer reads of it is what was there.                                *)
Remark ==
  /\ Ready
  /\ asked < MaxAsks
  /\ asked' = asked + 1
  /\ Publish(queue, wanted, locked, refused)
  /\ UNCHANGED <<asks, holdVars, sleepVars, worldVars, confirmed, listens, lockVars>>

-----------------------------------------------------------------------------
(* A plausible slip: a second chain of polls is started beside the first.  *)
TakeArmsAgain(o) ==
  /\ LockSession
  /\ holding' = used + 1
  /\ origin' = o
  /\ granted' = FALSE
  /\ polling' = TRUE
  /\ timers' = timers + 1
  /\ UNCHANGED <<drv, settled, covered, sessionLocked, hlocked, hunlock, compositorVars, wire>>

(* take, once can_lock has agreed: the lock is asked for, and followed.    *)
Take(o) ==
  /\ LockSession
  /\ holding' = used + 1
  /\ origin' = o
  /\ granted' = FALSE
  /\ polling' = TRUE
  /\ timers' = IF polling THEN timers ELSE timers + 1
  /\ UNCHANGED <<drv, settled, covered, sessionLocked, hlocked, hunlock, compositorVars, wire>>

(* Marker::forget, which says so when the file cannot be removed.          *)
Forgets == marker' = 0 \/ (MayFailRecord /\ UNCHANGED marker)

(* A plausible slip: the record of an unlocked session is left behind.     *)
ReleaseKeepsRecord(q) ==
  /\ Unlock(holding)
  /\ holding' = None
  /\ Publish(q, wanted, FALSE, refused)
  /\ UNCHANGED <<marker, origin, granted, polling, timers, driverVars, used, hlocked,
                 hfinished, compositorVars, wire, events>>

(* release: the record goes before the unlock is asked for.                *)
Release(q) ==
  /\ Forgets
  /\ Unlock(holding)
  /\ holding' = None
  /\ Publish(q, wanted, FALSE, refused)
  /\ UNCHANGED <<origin, granted, polling, timers, driverVars, used, hlocked, hfinished,
                 compositorVars, wire, events>>

(* on_state, with the oldest state published.                              *)
OnState ==
  /\ up /\ queue # <<>>
  /\ LET s == Head(queue) IN
       /\ confirmed' = s.locked
       /\ \/ /\ s.wanted /\ holding = None
             /\ Managed
             /\ Take("Requested")
             /\ queue' = Tail(queue)
             /\ UNCHANGED <<wanted, locked, refused, marker, events>>
          \/ /\ s.wanted /\ holding = None
             /\ MayNotLock \/ ~Managed
             /\ Publish(Tail(queue), FALSE, locked, TRUE)
             /\ UNCHANGED <<holdVars, marker, lockVars>>
          \/ /\ ~s.wanted /\ holding # None
             /\ Release(Tail(queue))
          \/ /\ s.wanted <=> holding # None
             /\ queue' = Tail(queue)
             /\ UNCHANGED <<wanted, locked, refused, holdVars, marker, lockVars>>
  /\ UNCHANGED <<askVars, sleepVars, session, crashes, up, listens>>

-----------------------------------------------------------------------------
(* The confirmation poll.  A tick that learns nothing schedules the next.  *)
TickIdle ==
  /\ timers > 0 /\ holding = None
  /\ polling' = FALSE
  /\ timers' = timers - 1
  /\ UNCHANGED <<stateVars, askVars, holding, origin, granted, sleepVars, worldVars, confirmed,
                 listens, lockVars>>

(* A plausible slip: the state is set without being published.             *)
TickUnannounced ==
  /\ timers > 0 /\ holding # None
  /\ hlocked[holding] /\ ~hfinished[holding] /\ ~granted
  /\ granted' = TRUE
  /\ marker' = session
  /\ locked' = TRUE
  /\ UNCHANGED <<wanted, refused, queue, askVars, holding, origin, polling, timers, sleepVars,
                 session, crashes, up, confirmed, listens, lockVars>>

(* Granted: recorded, then announced.                                      *)
TickGranted ==
  /\ timers > 0 /\ holding # None
  /\ hlocked[holding] /\ ~hfinished[holding] /\ ~granted
  /\ granted' = TRUE
  /\ marker' = session \/ (MayFailRecord /\ marker' = marker)
  /\ Publish(queue, wanted, TRUE, refused)
  /\ UNCHANGED <<askVars, holding, origin, polling, timers, sleepVars, session, crashes, up,
                 confirmed, listens, lockVars>>

(* Ended, with the record of a granted lock forgotten, and that of a       *)
(* restore the compositor refused kept; the chain of polls stops.          *)
WasGranted == granted \/ hlocked[holding]

(* A plausible slip: an ended lock stays wanted.                           *)
TickEndedStillWanted ==
  /\ timers > 0 /\ holding # None
  /\ hfinished[holding]
  /\ IF WasGranted THEN Forgets ELSE UNCHANGED marker
  /\ holding' = None
  /\ polling' = FALSE
  /\ timers' = timers - 1
  /\ locked' = FALSE /\ refused' = TRUE
  /\ UNCHANGED <<wanted, queue, askVars, origin, granted, sleepVars, session, crashes, up,
                 confirmed, listens, lockVars>>

TickEnded ==
  /\ timers > 0 /\ holding # None
  /\ hfinished[holding]
  /\ IF WasGranted THEN Forgets ELSE UNCHANGED marker
  /\ holding' = None
  /\ polling' = FALSE
  /\ timers' = timers - 1
  /\ Publish(queue, FALSE, FALSE, TRUE)
  /\ UNCHANGED <<askVars, origin, granted, sleepVars, session, crashes, up, confirmed,
                 listens, lockVars>>

Tick == Ready /\ (TickIdle \/ TickGranted \/ TickEnded)

-----------------------------------------------------------------------------
(* The machine is about to sleep: the watcher asks for the lock and waits  *)
(* for the flag, not for long, before it lets go of the inhibitor.         *)
PrepareForSleep ==
  /\ Suspends /\ Ready /\ sleeper = "awake" /\ ~sleepLock
  /\ asked < MaxAsks
  /\ asked' = asked + 1
  /\ sleeper' = "waits"
  /\ sleepLock' = TRUE
  /\ UNCHANGED <<stateVars, asks, holdVars, worldVars, confirmed, listens, lockVars>>

(* session::on_event on the driver thread: lock().                         *)
SleepLocks ==
  /\ sleepLock
  /\ sleepLock' = FALSE
  /\ IF wanted THEN UNCHANGED stateVars ELSE Publish(queue, TRUE, locked, FALSE)
  /\ UNCHANGED <<askVars, holdVars, sleeper, worldVars, confirmed, listens, lockVars>>

(* wait_until_locked: the flag is seen, or the grace runs out.             *)
Sleep ==
  /\ sleeper = "waits"
  /\ sleeper' = IF sessionLocked THEN "asleep" ELSE "unsure"
  /\ UNCHANGED <<stateVars, askVars, holdVars, sleepLock, worldVars, confirmed, listens, lockVars>>

Resume ==
  /\ sleeper \in {"asleep", "unsure"}
  /\ sleeper' = "awake"
  /\ UNCHANGED <<stateVars, askVars, holdVars, sleepLock, worldVars, confirmed, listens, lockVars>>

-----------------------------------------------------------------------------
(* Death and restart.                                                      *)

(* The shell's process ends; what it had sent is still on the wire.        *)
Dies(w) ==
  /\ up' = FALSE
  /\ wanted' = FALSE /\ locked' = FALSE /\ refused' = FALSE
  /\ queue' = <<>> /\ listens' = "no" /\ confirmed' = FALSE
  /\ asks' = [a \in Askers |-> "idle"]
  /\ holding' = None /\ origin' = "Requested" /\ granted' = FALSE
  /\ polling' = FALSE /\ timers' = 0
  /\ sleeper' = "awake" /\ sleepLock' = FALSE
  /\ pending' = None /\ drv' = None
  /\ settled' = FALSE /\ covered' = FALSE /\ sessionLocked' = FALSE
  /\ wire' = w /\ events' = <<>>
  /\ UNCHANGED <<asked, handleVars>>

Crash ==
  /\ up /\ crashes < MaxCrashes
  /\ crashes' = crashes + 1
  /\ Dies(wire)
  /\ UNCHANGED <<marker, session, compositorVars>>

(* The connection was cut: the driver's loop ends with an error.           *)
CutOff ==
  /\ up /\ broken
  /\ Dies(<<>>)
  /\ broken' = FALSE
  /\ UNCHANGED <<marker, session, crashes, holder, clocked, told, refusals>>

(* The compositor dies, and every client with it; the record is a file.    *)
CompositorDies ==
  /\ crashes < MaxCrashes
  /\ crashes' = crashes + 1
  /\ session' = session + 1
  /\ IF up THEN Dies(<<>>)
           ELSE wire' = <<>> /\ events' = <<>> /\ UNCHANGED <<up, stateVars, askVars, holdVars,
                  sleepVars, confirmed, listens, driverVars, handleVars>>
  /\ holder' = None /\ clocked' = FALSE /\ broken' = FALSE
  /\ UNCHANGED <<marker, told, refusals>>

(* The compositor sees a client gone that held, or had asked for, a lock.  *)
HangUp ==
  /\ ~up /\ wire = <<>>
  /\ holder \in Handles
  /\ holder' = Orphaned
  /\ UNCHANGED <<stateVars, askVars, holdVars, sleepVars, worldVars, confirmed, listens,
                 driverVars, handleVars, clocked, told, refusals, broken, wire, events>>

(* hl.clear_crashed_lockscreen(). With a shell up it is the race that      *)
(* restore names: "typed at exactly that moment".                          *)
Clear ==
  /\ MayClear /\ (up => MayClearLate) /\ holder = Dead
  /\ holder' = None /\ clocked' = FALSE
  /\ UNCHANGED <<stateVars, askVars, holdVars, sleepVars, worldVars, confirmed, listens,
                 driverVars, handleVars, told, refusals, broken, wire, events>>

(* A plausible slip: the compositor's two answers are swapped.             *)
RestorationInverted ==
  IF marker = session THEN (IF clocked THEN "Unlocked" ELSE "Take") ELSE "Nothing"

(* restoration, by the record found and the compositor's word.             *)
Restoration ==
  CASE marker = 0         -> "Nothing"
    [] marker \notin {0, session} -> "Discard"
    [] marker = session   -> IF ~Notifies THEN "Unverified"
                             ELSE IF clocked THEN "Take" ELSE "Unlocked"

(* A start, up to restore, on the driver thread before the loop runs.      *)
Boot ==
  /\ ~up /\ wire = <<>> /\ holder \notin Handles
  /\ up' = TRUE
  /\ events' = <<>>
  /\ \/ /\ Restoration = "Take" /\ Managed
        /\ Take("Restored")
        /\ wanted' = TRUE
        /\ UNCHANGED <<refused, marker>>
     \/ /\ Restoration = "Take" /\ (MayNotLock \/ ~Managed)
        /\ refused' = TRUE
        /\ UNCHANGED <<wanted, holdVars, marker, driverVars, handleVars, compositorVars, wire>>
     \/ /\ Restoration # "Take"
        /\ IF Restoration \in {"Discard", "Unlocked"} THEN Forgets ELSE UNCHANGED marker
        /\ UNCHANGED <<wanted, refused, holdVars, driverVars, handleVars, compositorVars, wire>>
  /\ UNCHANGED <<locked, queue, askVars, sleepVars, session, crashes, confirmed, listens>>

-----------------------------------------------------------------------------
shellVars == <<stateVars, askVars, holdVars, sleepVars, worldVars, confirmed, listens>>

DriverTurn == up /\ Turn /\ UNCHANGED shellVars
DriverRead == up /\ Read /\ UNCHANGED shellVars
Serves     == Serve /\ UNCHANGED shellVars
Grants     == Grant /\ UNCHANGED shellVars
TakesBack  == TakeBack /\ UNCHANGED shellVars

Next ==
  \/ Listen \/ OnState \/ Tick
  \/ \E a \in Askers : Consider(a) \/ Write(a)
  \/ Remark
  \/ PrepareForSleep \/ SleepLocks \/ Sleep \/ Resume
  \/ DriverTurn \/ DriverRead \/ Serves \/ Grants \/ TakesBack
  \/ Crash \/ CutOff \/ CompositorDies \/ HangUp \/ Clear \/ Boot

(* The driver's loop runs its callbacks, decided writes are made, the      *)
(* connection delivers, a cut one ends the shell.  Nobody has to ask, to   *)
(* sleep, to crash, to start the shell again or to take a lock back.       *)
Fairness ==
  /\ WF_vars(Listen) /\ WF_vars(OnState) /\ WF_vars(Tick)
  /\ \A a \in Askers : WF_vars(Write(a))
  /\ WF_vars(SleepLocks)
  /\ WF_vars(DriverTurn) /\ WF_vars(DriverRead) /\ WF_vars(Serves) /\ WF_vars(Grants)
  /\ WF_vars(CutOff) /\ WF_vars(HangUp)

Spec == Init /\ [][Next]_vars /\ Fairness

-----------------------------------------------------------------------------
(* Properties.                                                             *)

(* No moment exists in which the session is unlocked and the record says   *)
(* otherwise, crashes of either side included, as long as the shell is the *)
(* only one to end its locks (lock.rs, release and Marker).                *)
RecordedIsLocked == marker = session => clocked

(* While the shell knows of a lock the compositor granted it, a crash      *)
(* leaves a record the next start takes it back by (lock.rs, follow).      *)
KnownIsRecorded == holding # None /\ granted => marker = session

(* A lock held is followed until the compositor's answer is known: however *)
(* locks follow each other, there is one chain of polls, and it does not   *)
(* stop before the lock does (lock.rs, arm_confirmation_poll).             *)
HeldIsFollowed == holding # None => polling /\ timers = 1

(* A start takes a lock back only in a session that is locked              *)
(* (lock.rs, restoration).                                                 *)
RestoresLocked ==
  holding # None /\ origin = "Restored" /\ holding \notin told \cup refusals => clocked

(* What the shell has announced is what is true, once every state it       *)
(* published has been looked at (lock.rs, session_event).                  *)
AnnouncedIsTrue == listens = "yes" /\ queue = <<>> => confirmed = locked

(* Whatever requests, refusals and stale states come in between, in the    *)
(* end the shell holds a lock exactly if one is wanted.                    *)
Converges == <>[]up => <>[](up /\ (holding # None <=> wanted))

(* A lock that stays wanted is in force, and the shell knows it.           *)
WantedIsLocked == <>[](up /\ wanted) => <>[](clocked /\ locked)

(* A lock that stays unwanted leaves the compositor.                       *)
UnwantedIsLeft == <>[](up /\ ~wanted) => <>[](holder \notin Handles)

(* "Takes back a lock the previous hogar-shell died holding, so the user   *)
(* meets a password prompt" (lock.rs, restore): with a recorded lock left  *)
(* by a dead shell, and a shell that comes to stay up, the session comes   *)
(* to be behind the shell's lock screen or unlocked, unless the user is    *)
(* told that it cannot be, or somebody asks for an unlock meanwhile.       *)
Recovers ==
  <>[]up =>
    (~up /\ holder = Dead /\ marker = session
       ~> sessionLocked \/ ~clocked \/ refused \/ \E a \in Askers : asks[a] = "unlock")

(* The record is "kept when a lock ends without ever being granted: that   *)
(* is a restore the compositor would not accept, and the lock it was       *)
(* restoring is still held by the process that died" (lock.rs, follow): a  *)
(* restored lock the shell lets go of before it was granted leaves it.     *)
KeptUntilGranted ==
  [][holding # None /\ holding' = None /\ origin = "Restored" /\ ~WasGranted
       => marker' = marker]_vars

(* "the point of the delay is that the screen is covered before the        *)
(* machine sleeps" (session.rs, wait_until_locked): when the watcher lets  *)
(* the machine sleep on the flag's word, and a lock is wanted, the screen  *)
(* is locked by a lock that has not been given up.                         *)
SleepsLocked ==
  [][sleeper = "waits" /\ sleeper' = "asleep" /\ wanted => clocked /\ ~hunlock[drv]]_vars

(* The record of a lock says neither too much nor too little.              *)
RecordHonest == RecordedIsLocked /\ KnownIsRecorded

(* No start locks a session that is not locked, and requests end in the    *)
(* lock, or in the session, that was asked for.                            *)
RequestsSettle == []RestoresLocked /\ Converges /\ WantedIsLocked /\ UnwantedIsLeft

(* What the performer follows and says is what there is.                   *)
PerformerHonest == HeldIsFollowed /\ AnnouncedIsTrue
=============================================================================
