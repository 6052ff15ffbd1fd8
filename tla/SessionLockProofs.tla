--------------------------- MODULE SessionLockProofs ---------------------------
(* The session lock as a whole keeps its driver's promises, and its own:   *)
(* what is followed, announced, recorded and taken back is what there is,  *)
(* for any requests, crashes and restarts of either side.                  *)
EXTENDS SessionLock, LockDriverProofs

(* Whatever is known of a handle, it is one that was made.                 *)
Made ==
  /\ \A h \in Handles : hlocked[h] \/ hfinished[h] \/ hunlock[h] => h <= used
  /\ ~up => pending = None /\ settled = FALSE

(* A lock held is the last one asked for, and not given up.                *)
HeldIsLast == holding # None => holding = used /\ ~hunlock[holding]

(* There is a chain of polls, or there is none.                            *)
OneChain ==
  /\ timers = IF polling THEN 1 ELSE 0
  /\ holding # None => polling

(* Sessions are numbered by the deaths before them, records by sessions.   *)
Numbered == session <= crashes + 1 /\ marker <= session

SInv ==
  /\ TypeOK
  /\ Known /\ (up => Orderly)
  /\ Made /\ HeldIsLast /\ OneChain /\ Numbered

-----------------------------------------------------------------------------
(* The shell's part of a step: what STATE, the performer and the watcher   *)
(* make of their own variables.                                            *)
LEMMA PublishTypes ==
  ASSUME NEW q \in Seq(State), NEW w \in BOOLEAN, NEW l \in BOOLEAN, NEW r \in BOOLEAN,
         Publish(q, w, l, r)
  PROVE  /\ wanted' = w /\ locked' = l /\ refused' = r
         /\ queue' \in Seq(State)
<1>1. [wanted |-> w, locked |-> l] \in State
  BY DEF State
<1> QED
  BY <1>1 DEF Publish

(* While the shell lives, it and the compositor do what the driver was     *)
(* proved against: it asks, gives up, and lets the loop turn.              *)
LEMMA OnStateSplits ==
  ASSUME SInv, OnState
  PROVE  \/ Take("Requested") /\ holding = None /\ UNCHANGED <<marker, events>>
         \/ Release(Tail(queue)) /\ holding # None
         \/ UNCHANGED <<holdVars, marker, lockVars>>
BY DEF OnState

LEMMA Asks ==
  ASSUME NEW o, Take(o), UNCHANGED events
  PROVE  Ask
BY DEF Take, Ask

LEMMA GivesUp ==
  ASSUME SInv, NEW q, Release(q), holding # None
  PROVE  holding \in Handles /\ GiveUp(holding)
<1>1. holding \in Handles /\ holding = used /\ ~hunlock[holding]
  BY DEF SInv, TypeOK, HeldIsLast
<1>2. UNCHANGED <<driverVars, used, hlocked, hfinished, compositorVars, wire, events>> /\ Unlock(holding)
  BY DEF Release
<1>3. used \in Nat
  BY DEF SInv, TypeOK, LockTypeOK
<1> QED
  BY <1>1, <1>2, <1>3 DEF GiveUp

(* Steps that leave the driver and its connection alone.                   *)
Apart ==
  \/ Listen \/ Tick
  \/ \E a \in Askers : Consider(a) \/ Write(a)
  \/ Remark
  \/ PrepareForSleep \/ SleepLocks \/ Sleep \/ Resume

LEMMA ApartKeeps ==
  ASSUME Apart
  PROVE  UNCHANGED <<lockVars, session, crashes, up>>
<1>1. Tick => UNCHANGED <<lockVars, session, crashes, up>>
  BY DEF Tick, TickIdle, TickGranted, TickEnded, worldVars
<1> QED
  BY <1>1 DEF Apart, Listen, Consider, Write, Remark, PrepareForSleep, SleepLocks, Sleep, Resume,
              worldVars

Turns == DriverTurn \/ DriverRead \/ Serves \/ Grants \/ TakesBack

LEMMA AliveSteps ==
  ASSUME SInv, Apart \/ OnState \/ Turns
  PROVE  [LockNext]_lockVars /\ up' = up
<1>1. CASE Apart
  BY <1>1, ApartKeeps
<1>2. CASE OnState
  <2>1. up' = up
    BY <1>2 DEF OnState
  <2>2. CASE Take("Requested") /\ UNCHANGED events
    BY <2>1, <2>2, Asks DEF LockNext
  <2>3. CASE Release(Tail(queue)) /\ holding # None
    BY <2>1, <2>3, GivesUp DEF LockNext
  <2>4. CASE UNCHANGED lockVars
    BY <2>1, <2>4
  <2> QED
    BY <1>2, <2>2, <2>3, <2>4, OnStateSplits
<1>3. CASE Turns
  BY <1>3 DEF Turns, DriverTurn, DriverRead, Serves, Grants, TakesBack, LockNext, shellVars, worldVars
<1> QED
  BY <1>1, <1>2, <1>3

LEMMA NextSplits ==
  ASSUME [Next]_vars
  PROVE  \/ Apart \/ OnState \/ Turns
         \/ Crash \/ CutOff \/ CompositorDies \/ HangUp \/ Clear \/ Boot
         \/ UNCHANGED vars
BY DEF Next, Apart, Turns

-----------------------------------------------------------------------------
(* A death, of either side, leaves nothing of the shell's but its handles, *)
(* the record, and what it had sent.                                       *)
Perished ==
  /\ up' = FALSE /\ holding' = None /\ pending' = None /\ drv' = None /\ sessionLocked' = FALSE
  /\ settled' = FALSE /\ covered' \in BOOLEAN
  /\ polling' \in BOOLEAN /\ timers' = IF polling' THEN 1 ELSE 0
  /\ events' = <<>> /\ wire' \in {wire, <<>>}
  /\ UNCHANGED <<handleVars, told, refusals, marker>>
  /\ \/ UNCHANGED <<holder, clocked>> /\ session' = session
     \/ wire' = <<>> /\ holder' = None /\ clocked' = FALSE /\ session' = session + 1
  /\ broken' \in BOOLEAN
  /\ crashes' \in 0 .. MaxCrashes /\ session' <= crashes' + 1

LEMMA DeathPerishes ==
  ASSUME SInv, Crash \/ CutOff \/ CompositorDies
  PROVE  Perished
<1>0. MaxCrashes \in Nat /\ crashes \in 0 .. MaxCrashes /\ session \in Nat /\ session <= crashes + 1
  BY SessionLockAssumption DEF SInv, TypeOK, Numbered
<1>1. /\ broken \in BOOLEAN /\ settled \in BOOLEAN /\ covered \in BOOLEAN /\ polling \in BOOLEAN
      /\ timers = IF polling THEN 1 ELSE 0
      /\ ~up => holding = None /\ drv = None /\ sessionLocked = FALSE /\ pending = None /\ up = FALSE
             /\ settled = FALSE
  BY DEF SInv, TypeOK, LockTypeOK, OneChain, Made
<1> DEFINE Emptied ==
      /\ up' = FALSE /\ holding' = None /\ pending' = None /\ drv' = None /\ sessionLocked' = FALSE
      /\ settled' = FALSE /\ covered' \in BOOLEAN
      /\ polling' \in BOOLEAN /\ timers' = IF polling' THEN 1 ELSE 0
      /\ events' = <<>> /\ UNCHANGED handleVars
<1>2. ASSUME NEW w, Dies(w)
      PROVE  Emptied /\ wire' = w
  BY <1>2 DEF Dies
<1>3. CASE Crash
  <2>1. Dies(wire) /\ crashes' = crashes + 1 /\ crashes < MaxCrashes
        /\ UNCHANGED <<marker, session, holder, clocked, told, refusals, broken>>
    BY <1>3 DEF Crash, compositorVars
  <2>2. Emptied /\ wire' = wire
    BY <1>2, <2>1
  <2>3. crashes' \in 0 .. MaxCrashes /\ session' <= crashes' + 1
    BY <1>0, <2>1
  <2> HIDE DEF Emptied
  <2>4. /\ UNCHANGED <<told, refusals, marker, holder, clocked, session>> /\ broken' \in BOOLEAN
        /\ wire' \in {wire, <<>>}
    BY <1>1, <2>1, <2>2
  <2> QED
    BY <2>2, <2>3, <2>4 DEF Perished, Emptied
<1>4. CASE CutOff
  <2>1. Dies(<<>>) /\ broken' = FALSE
        /\ UNCHANGED <<marker, session, crashes, holder, clocked, told, refusals>>
    BY <1>4 DEF CutOff
  <2>2. Emptied /\ wire' = <<>>
    BY <1>2, <2>1
  <2>3. crashes' \in 0 .. MaxCrashes /\ session' <= crashes' + 1
    BY <1>0, <2>1
  <2> QED
    BY <2>1, <2>2, <2>3 DEF Perished
<1>5. CASE CompositorDies
  <2>1. /\ crashes' = crashes + 1 /\ crashes < MaxCrashes /\ session' = session + 1
        /\ holder' = None /\ clocked' = FALSE /\ broken' = FALSE /\ UNCHANGED <<marker, told, refusals>>
    BY <1>5 DEF CompositorDies
  <2>2. ASSUME up PROVE Emptied /\ wire' = <<>>
    <3>1. Dies(<<>>)
      BY <1>5, <2>2 DEF CompositorDies
    <3> QED
      BY <1>2, <3>1
  <2>3. ASSUME ~up PROVE Emptied /\ wire' = <<>>
    <3>1. /\ wire' = <<>> /\ events' = <<>>
          /\ UNCHANGED <<up, holding, polling, timers, pending, drv, settled, covered, sessionLocked, handleVars>>
      BY <1>5, <2>3 DEF CompositorDies, holdVars, driverVars
    <3> QED
      BY <1>1, <2>3, <3>1
  <2>4. Emptied /\ wire' = <<>>
    BY <2>2, <2>3
  <2>5. crashes' \in 0 .. MaxCrashes /\ session' <= crashes' + 1
    BY <1>0, <2>1
  <2> QED
    BY <2>1, <2>4, <2>5 DEF Perished
<1> QED
  BY <1>3, <1>4, <1>5

(* A start finds the connection empty and no lock of its own.              *)
Started ==
  /\ ~up /\ up' = TRUE
  /\ wire = <<>> /\ wire' = <<>> /\ events' = <<>>
  /\ holder \notin Handles
  /\ UNCHANGED <<drv, sessionLocked, settled, covered, hlocked, hunlock, compositorVars, session, crashes>>
  /\ \/ /\ marker = session /\ clocked
        /\ LockSession
        /\ holding' = used + 1 /\ origin' = "Restored" /\ granted' = FALSE
        /\ polling' = TRUE /\ timers' = IF polling THEN timers ELSE timers + 1
        /\ UNCHANGED marker
     \/ /\ UNCHANGED <<holdVars, pending, handleVars>>
        /\ marker' \in {0, marker}

LEMMA BootStarts ==
  ASSUME SInv, Boot
  PROVE  Started
<1>1. /\ ~up /\ wire = <<>> /\ holder \notin Handles /\ up' = TRUE /\ events' = <<>>
      /\ UNCHANGED <<session, crashes>>
  BY DEF Boot
<1>2. CASE Restoration = "Take" /\ Take("Restored") /\ UNCHANGED marker
  <2>1. marker = session /\ clocked
    BY <1>2 DEF Restoration, SInv, TypeOK
  <2> QED
    BY <1>1, <1>2, <2>1 DEF Take, Started
<1>3. CASE UNCHANGED <<holdVars, marker, driverVars, handleVars, compositorVars, wire>>
  BY <1>1, <1>3 DEF Started, driverVars, handleVars
<1>4. CASE /\ Forgets \/ UNCHANGED marker
           /\ UNCHANGED <<holdVars, driverVars, handleVars, compositorVars, wire>>
  BY <1>1, <1>4 DEF Forgets, Started, driverVars, handleVars
<1> QED
  BY <1>2, <1>3, <1>4 DEF Boot

-----------------------------------------------------------------------------
(* The driver's side: its types always, its order while the shell lives.   *)
DriverInv == LockTypeOK /\ Known /\ (up => Orderly)

LEMMA AliveDriver ==
  ASSUME SInv, up, Apart \/ OnState \/ Turns
  PROVE  DriverInv'
<1>1. IInv
  BY DEF SInv, TypeOK, IInv
<1>2. IInv'
  BY <1>1, AliveSteps, IInvNext
<1> QED
  BY <1>2 DEF IInv, Orderly, DriverInv

(* With the shell dead the compositor reads on.                            *)
LEMMA OrphanServes ==
  ASSUME LockTypeOK, Known, Serve
  PROVE  LockTypeOK' /\ Known'
<1> PICK m \in Requests :
      /\ m = Head(wire) /\ wire # <<>> /\ wire' = Tail(wire) /\ ~broken
      /\ UNCHANGED <<driverVars, handleVars>>
      /\ \/ m.kind = "lock" /\ Accepted(m.h)
         \/ m.kind = "lock" /\ Refused(m.h)
         \/ m.kind = "sync" /\ Synced(m.h)
         \/ m.kind = "surface" /\ UNCHANGED <<compositorVars, events>>
         \/ m.kind \in {"unlock", "destroy"} /\ Released(m.h)
  BY ServeSplits
<1>1. wire \in Seq(Requests) /\ events \in Seq(Answers) /\ None \notin Handles /\ Dead \notin Handles
  BY DEF LockTypeOK, None, Dead, Handles
<1>2. /\ 1 \in DOMAIN wire /\ wire[1] = m
      /\ \A i \in DOMAIN wire' : i \in Nat /\ i + 1 \in DOMAIN wire /\ wire'[i] = wire[i + 1]
  BY <1>1, Shorter
<1>3. m.h \in Handles /\ Old(m.h) /\ \A h : Old(h) <=> Old(h)'
  BY <1>2, Messages DEF Known, Old, driverVars, handleVars
<1>4. \A i \in DOMAIN wire' : Old(wire'[i].h)
  BY <1>2, <1>3 DEF Known
<1>5. \A i \in DOMAIN events' : Old(events'[i].h)
  <2>1. ASSUME NEW k \in {"finished", "done"}, events' = Append(events, Msg(k, m.h))
        PROVE  \A i \in DOMAIN events' : Old(events'[i].h)
    <3>1. \A i \in DOMAIN events' : (i \in DOMAIN events /\ events'[i] = events[i]) \/ events'[i] = Msg(k, m.h)
      BY <1>1, <1>3, <2>1, Appended, Messages
    <3> QED
      BY <1>3, <3>1, Messages DEF Known
  <2>2. events' = events => \A i \in DOMAIN events' : Old(events'[i].h)
    BY <1>3 DEF Known
  <2> QED
    BY <2>1, <2>2 DEF Accepted, Refused, Synced, Released, OneMore
<1>6. (holder \in Handles => Old(holder))' /\ (\A h \in told \cup refusals : Old(h))'
  BY <1>1, <1>3 DEF Known, Accepted, Refused, Synced, Released, compositorVars
<1>7. (pending # None => pending = used)' /\ (drv # None => Old(drv))'
  BY <1>3 DEF Known, driverVars, handleVars
<1>8. (\A i \in DOMAIN wire : Old(wire[i].h))' /\ (\A i \in DOMAIN events : Old(events[i].h))'
  BY <1>3, <1>4, <1>5
<1> QED
  BY <1>6, <1>7, <1>8, ServeTypes DEF Known

LEMMA OrphanGranted ==
  ASSUME LockTypeOK, Known, Grant \/ TakeBack
  PROVE  LockTypeOK' /\ Known'
<1>1. wire \in Seq(Requests) /\ events \in Seq(Answers) /\ told \subseteq Handles
  BY DEF LockTypeOK
<1>2. /\ UNCHANGED <<used, pending, drv, refusals, wire>> /\ holder \in Handles
      /\ holder' \in {holder, None} /\ told' \subseteq told \cup {holder}
      /\ \E k \in {"locked", "finished"} : events' = Append(events, Msg(k, holder))
  BY <1>1 DEF Grant, TakeBack, driverVars, handleVars
<1>3. Old(holder) /\ (\A h : Old(h) <=> Old(h)') /\ None \notin Handles
  BY <1>2 DEF Known, Old, None, Handles
<1>4. \A i \in DOMAIN events' : Old(events'[i].h)
  <2> PICK k \in {"locked", "finished"} : events' = Append(events, Msg(k, holder))
    BY <1>2
  <2>0. Msg(k, holder) \in Answers
    BY <1>2, Messages
  <2>1. \A i \in DOMAIN events' : (i \in DOMAIN events /\ events'[i] = events[i]) \/ events'[i] = Msg(k, holder)
    BY <1>1, <2>0, Appended
  <2> QED
    BY <1>3, <2>1, Messages DEF Known
<1>5. (\A i \in DOMAIN events : Old(events[i].h))' /\ (\A i \in DOMAIN wire : Old(wire[i].h))'
  BY <1>2, <1>3, <1>4 DEF Known
<1>6. (holder \in Handles => Old(holder))' /\ (\A h \in told \cup refusals : Old(h))'
      /\ (pending # None => pending = used)' /\ (drv # None => Old(drv))'
  BY <1>2, <1>3 DEF Known
<1> QED
  BY <1>5, <1>6, GrantTypes DEF Known

LEMMA OrphanDriver ==
  ASSUME SInv, ~up, Apart \/ OnState \/ Turns
  PROVE  DriverInv'
<1>1. LockTypeOK /\ Known /\ up' = up
  BY AliveSteps DEF SInv, TypeOK
<1>2. CASE Serve \/ Grant \/ TakeBack
  BY <1>1, <1>2, OrphanServes, OrphanGranted DEF DriverInv
<1>3. CASE UNCHANGED lockVars
  <2>1. LockTypeOK'
    BY <1>1, <1>3 DEF LockTypeOK, lockVars, driverVars, handleVars, compositorVars
  <2>2. Known'
    BY <1>1, <1>3 DEF Known, Old, lockVars, driverVars, handleVars, compositorVars
  <2> QED
    BY <1>1, <2>1, <2>2 DEF DriverInv
<1> QED
  BY <1>2, <1>3, ApartKeeps DEF OnState, Turns, DriverTurn, DriverRead, Serves, Grants, TakesBack

LEMMA DeathDriver ==
  ASSUME SInv, Perished
  PROVE  DriverInv'
<1>1. LockTypeOK /\ Known /\ None \notin Handles /\ None # Dead
  BY DEF SInv, TypeOK, None, Handles, Dead
<1>2. \A h : Old(h) => Old(h)'
  BY <1>1 DEF Perished, Old, handleVars, LockTypeOK, None
<1>3. LockTypeOK'
  <2>1. wire' \in Seq(Requests) /\ events' \in Seq(Answers)
    <3>1. wire \in Seq(Requests) /\ wire' \in {wire, <<>>} /\ events' = <<>>
      BY <1>1 DEF Perished, LockTypeOK
    <3>2. <<>> \in Seq(Requests) /\ <<>> \in Seq(Answers)
      OBVIOUS
    <3> QED
      BY <3>1, <3>2
  <2>2. holder' \in Handles \cup {None, Dead} /\ clocked' \in BOOLEAN /\ (holder' = Dead => clocked')
    <3>1. (holder' = holder /\ clocked' = clocked) \/ (holder' = None /\ clocked' = FALSE)
      BY DEF Perished
    <3>2. holder \in Handles \cup {None, Dead} /\ clocked \in BOOLEAN /\ (holder = Dead => clocked)
      BY <1>1 DEF LockTypeOK
    <3> QED
      BY <1>1, <3>1, <3>2
  <2>3. UNCHANGED <<used, hlocked, hfinished, hunlock, told, refusals>>
    BY DEF Perished, handleVars
  <2> QED
    BY <1>1, <2>1, <2>2, <2>3 DEF LockTypeOK, Perished
<1>4. Known'
  <2>1. /\ wire' \in {wire, <<>>} /\ events' = <<>> /\ pending' = None /\ drv' = None
        /\ told' = told /\ refusals' = refusals /\ holder' \in {holder, None}
    BY DEF Perished
  <2>2. (\A i \in DOMAIN wire : Old(wire[i].h))' /\ (\A i \in DOMAIN events : Old(events[i].h))'
    BY <1>1, <1>2, <2>1 DEF Known
  <2>3. (holder \in Handles => Old(holder))' /\ (\A h \in told \cup refusals : Old(h))'
    BY <1>1, <1>2, <2>1 DEF Known
  <2> QED
    BY <2>1, <2>2, <2>3 DEF Known
<1> QED
  BY <1>3, <1>4 DEF DriverInv, Perished

(* The compositor's lock is nobody's in particular, before and after.      *)
LEMMA StrayDriver ==
  ASSUME SInv, HangUp \/ Clear
  PROVE  DriverInv' /\ up' = up
<1>1. LockTypeOK /\ Known /\ None \notin Handles /\ None # Dead /\ Dead \notin Handles
  BY DEF SInv, TypeOK, None, Handles, Dead
<1>2. /\ UNCHANGED <<used, hlocked, hfinished, hunlock, told, refusals, broken, pending, drv, settled,
                     covered, sessionLocked, wire, events, up>>
      /\ holder' \in {None, Dead} /\ (holder' = Dead => clocked') /\ clocked' \in BOOLEAN
      /\ (up => holder = Dead)
  BY <1>1 DEF HangUp, Clear, driverVars, handleVars, worldVars, Orphaned, LockTypeOK
<1>3. LockTypeOK'
  BY <1>1, <1>2 DEF LockTypeOK
<1>4. Known'
  BY <1>1, <1>2 DEF Known, Old
<1>5. ASSUME up PROVE Orderly'
  <2>1. Orderly /\ holder = Dead
    BY <1>2, <1>5 DEF SInv
  <2>2. LockBeforeSync' /\ Unanswered' /\ LateSurface' /\ SettledLate' /\ NotReleased'
    BY <1>2, <2>1 DEF Orderly, LockBeforeSync, Unanswered, LateSurface, SettledLate, NotReleased,
                      Releases, InFlight
  <2>3. RefusalTold' /\ RefusalFirst' /\ RefusalSettled' /\ RefusedUncovered'
    BY <1>2, <2>1 DEF Orderly, RefusalTold, RefusalFirst, RefusalSettled, RefusedUncovered, InFlight
  <2>4. OthersReleased'
    BY <1>1, <1>2, <2>1 DEF Orderly, OthersReleased, Releases
  <2>5. Succession'
    BY <1>1, <1>2, <2>1 DEF Orderly, Succession, Releases
  <2>6. FlagTrue'
    <3>1. drv # None => holder # drv
      BY <1>1, <2>1 DEF LockTypeOK
    <3> QED
      BY <1>2, <2>1, <3>1 DEF Orderly, FlagTrue, InForce, InFlight
  <2> QED
    BY <1>4, <2>2, <2>3, <2>4, <2>5, <2>6 DEF Orderly
<1> QED
  BY <1>2, <1>3, <1>4, <1>5 DEF DriverInv

(* A driver with nothing behind it is in order.                            *)
LEMMA BootDriver ==
  ASSUME SInv, Started
  PROVE  DriverInv'
<1>1. LockTypeOK /\ Known /\ None \notin Handles /\ drv = None /\ pending = None /\ ~sessionLocked
  BY DEF SInv, TypeOK, None, Handles, Started, Made
<1>2. /\ wire' = <<>> /\ events' = <<>> /\ drv' = None /\ ~sessionLocked' /\ up'
      /\ UNCHANGED <<sessionLocked, settled, covered, hlocked, hunlock, holder, clocked, told, refusals, broken>>
      /\ holder \notin Handles
  BY <1>1 DEF Started, compositorVars
<1>3. /\ used' \in 0 .. MaxLocks /\ used' >= used /\ used \in Nat
      /\ pending' = None \/ (pending' = used' /\ used' = used + 1)
      /\ hfinished' = hfinished
  <2>1. CASE LockSession
    BY <1>1, <2>1, LockDriverAssumption DEF LockSession, LockTypeOK
  <2>2. CASE UNCHANGED <<pending, handleVars>>
    BY <1>1, <2>2 DEF handleVars, LockTypeOK
  <2> QED
    BY <2>1, <2>2 DEF Started
<1>4. LockTypeOK'
  <2>1. pending' \in Handles \cup {None} /\ (pending' = None \/ (pending' # drv' /\ pending' <= used'))
    BY <1>1, <1>2, <1>3, LockDriverAssumption DEF LockTypeOK, Handles, None
  <2>2. wire' \in Seq(Requests) /\ events' \in Seq(Answers)
    BY <1>2
  <2> QED
    BY <1>1, <1>2, <1>3, <2>1, <2>2 DEF LockTypeOK
<1>5. \A h : Old(h) => Old(h)'
  BY <1>1, <1>3 DEF Old, None
<1>6. Known'
  <2>1. (pending # None => pending = used)' /\ (drv # None => Old(drv))'
    BY <1>2, <1>3
  <2>2. (\A i \in DOMAIN wire : Old(wire[i].h))' /\ (\A i \in DOMAIN events : Old(events[i].h))'
    BY <1>2
  <2>3. (holder \in Handles => Old(holder))' /\ (\A h \in told \cup refusals : Old(h))'
    BY <1>1, <1>2, <1>5 DEF Known
  <2> QED
    BY <2>1, <2>2, <2>3 DEF Known
<1>7. Orderly'
  <2>1. settled' = FALSE
    BY <1>2 DEF SInv, Made, Started
  <2>2. LockBeforeSync' /\ Unanswered' /\ LateSurface' /\ SettledLate' /\ NotReleased'
    BY <1>2, <2>1 DEF LockBeforeSync, Unanswered, LateSurface, SettledLate, NotReleased
  <2>3. RefusalTold' /\ RefusalFirst' /\ RefusalSettled' /\ RefusedUncovered'
    <3>1. drv' \notin refusals'
      BY <1>1, <1>2 DEF LockTypeOK
    <3> QED
      BY <1>2, <2>1, <3>1 DEF RefusalTold, RefusalFirst, RefusalSettled, RefusedUncovered, InFlight
  <2>4. OthersReleased' /\ Succession' /\ FlagTrue'
    BY <1>2 DEF OthersReleased, Succession, FlagTrue
  <2> QED
    BY <1>6, <2>2, <2>3, <2>4 DEF Orderly
<1> QED
  BY <1>2, <1>4, <1>6, <1>7 DEF DriverInv

-----------------------------------------------------------------------------
(* The shell's types: what the program's own variables hold.               *)
ShellTypes ==
  /\ {up, wanted, locked, refused, granted, polling, confirmed, sleepLock} \subseteq BOOLEAN
  /\ queue \in Seq(State)
  /\ listens \in {"no", "read", "yes"}
  /\ asks \in [Askers -> {"idle", "lock", "unlock"}]
  /\ asked \in 0 .. MaxAsks
  /\ holding \in Handles \cup {None}
  /\ origin \in {"Requested", "Restored"}
  /\ timers \in 0 .. 1
  /\ marker \in 0 .. MaxCrashes + 1
  /\ session \in 1 .. MaxCrashes + 1
  /\ crashes \in 0 .. MaxCrashes
  /\ sleeper \in {"awake", "waits", "asleep", "unsure"}

DownHoldsNothing == ~up => holding = None /\ drv = None /\ ~sessionLocked

LEMMA TypesSplit ==
  /\ TypeOK <=> LockTypeOK /\ ShellTypes /\ DownHoldsNothing
  /\ SInv <=> DriverInv /\ ShellTypes /\ DownHoldsNothing /\ Made /\ HeldIsLast /\ OneChain /\ Numbered
BY DEF TypeOK, ShellTypes, DownHoldsNothing, SInv, DriverInv

LEMMA Joined ==
  ASSUME DriverInv', ShellTypes', DownHoldsNothing', Made', HeldIsLast', OneChain', Numbered'
  PROVE  SInv'
BY DEF TypeOK, ShellTypes, DownHoldsNothing, SInv, DriverInv

LEMMA ApartTypes ==
  ASSUME SInv, Apart
  PROVE  ShellTypes' /\ OneChain' /\ marker' \in {0, session, marker}
         /\ holding' \in {holding, None}
<1> USE SessionLockAssumption DEF ShellTypes, OneChain, stateVars, askVars, holdVars, sleepVars, worldVars
<1>1. ShellTypes /\ OneChain
  BY TypesSplit
<1>2. CASE Listen
  <2>1. [wanted |-> wanted, locked |-> locked] \in State
    BY <1>1 DEF State
  <2>2. UNCHANGED <<wanted, locked, refused, askVars, holdVars, sleepVars, worldVars, confirmed>>
    BY <1>2 DEF Listen
  <2>3. queue' \in Seq(State) /\ listens' \in {"no", "read", "yes"}
    BY <1>1, <1>2, <2>1 DEF Listen
  <2> QED
    BY <1>1, <2>2, <2>3
<1>3. ASSUME NEW a \in Askers, Consider(a)
      PROVE  ShellTypes' /\ OneChain' /\ UNCHANGED <<marker, holding>>
  BY <1>1, <1>3 DEF Consider
<1>4. ASSUME NEW a \in Askers, Write(a)
      PROVE  ShellTypes' /\ OneChain' /\ UNCHANGED <<marker, holding>>
  <2>1. CASE Publish(queue, TRUE, locked, FALSE)
    BY <1>1, <1>4, <2>1, PublishTypes DEF Write
  <2>2. CASE Publish(queue, FALSE, locked, refused)
    BY <1>1, <1>4, <2>2, PublishTypes DEF Write
  <2> QED
    BY <1>4, <2>1, <2>2 DEF Write
<1>5. CASE Remark
  BY <1>1, <1>5, PublishTypes DEF Remark
<1>6. CASE PrepareForSleep
  BY <1>1, <1>6 DEF PrepareForSleep
<1>7. CASE SleepLocks
  <2>1. CASE Publish(queue, TRUE, locked, FALSE)
    BY <1>1, <1>7, <2>1, PublishTypes DEF SleepLocks
  <2>2. CASE UNCHANGED stateVars
    BY <1>1, <1>7, <2>2 DEF SleepLocks
  <2> QED
    BY <1>7, <2>1, <2>2 DEF SleepLocks
<1>8. CASE Sleep \/ Resume
  BY <1>1, <1>8 DEF Sleep, Resume
<1>9. CASE TickIdle
  <2>1. /\ polling' = FALSE /\ timers > 0 /\ timers' = timers - 1 /\ holding = None
        /\ UNCHANGED <<stateVars, askVars, holding, origin, granted, sleepVars, worldVars, confirmed, listens>>
    BY <1>9 DEF TickIdle
  <2>2. timers' = 0 /\ timers' \in 0 .. 1
    BY <1>1, <2>1
  <2> QED
    BY <1>1, <2>1, <2>2
<1>10. CASE TickGranted
  <2>1. /\ granted' = TRUE /\ marker' \in {session, marker} /\ Publish(queue, wanted, TRUE, refused)
        /\ UNCHANGED <<askVars, holding, origin, polling, timers, sleepVars, session, crashes, up,
                       confirmed, listens>>
    BY <1>10 DEF TickGranted
  <2>2. wanted' = wanted /\ locked' = TRUE /\ refused' = refused /\ queue' \in Seq(State)
    BY <1>1, <2>1, PublishTypes
  <2>3. marker' \in 0 .. MaxCrashes + 1
    BY <1>1, <2>1
  <2> QED
    BY <1>1, <2>1, <2>2, <2>3
<1>11. CASE TickEnded
  <2>1. /\ marker' \in {0, marker} /\ holding' = None /\ polling' = FALSE
        /\ timers > 0 /\ timers' = timers - 1 /\ Publish(queue, FALSE, FALSE, TRUE)
        /\ UNCHANGED <<askVars, origin, granted, sleepVars, session, crashes, up, confirmed, listens>>
    BY <1>11 DEF TickEnded, Forgets
  <2>2. wanted' = FALSE /\ locked' = FALSE /\ refused' = TRUE /\ queue' \in Seq(State)
    BY <1>1, <2>1, PublishTypes
  <2>3. marker' \in 0 .. MaxCrashes + 1 /\ timers' = 0 /\ timers' \in 0 .. 1
    BY <1>1, <2>1
  <2> QED
    BY <1>1, <2>1, <2>2, <2>3
<1> QED
  BY <1>2, <1>3, <1>4, <1>5, <1>6, <1>7, <1>8, <1>9, <1>10, <1>11 DEF Apart, Tick

(* What on_state does to the shell's own variables.                        *)
LEMMA OnStateTypes ==
  ASSUME SInv, OnState
  PROVE  ShellTypes' /\ OneChain' /\ marker' \in {0, marker}
<1> USE DEF ShellTypes, OneChain
<1>0. ShellTypes /\ OneChain /\ LockTypeOK
  BY TypesSplit DEF DriverInv
<1>1. /\ queue # <<>> /\ confirmed' = Head(queue).locked
      /\ UNCHANGED <<asks, asked, sleeper, sleepLock, session, crashes, up, listens>>
  BY DEF OnState, askVars, sleepVars
<1>2. Head(queue) \in State /\ Tail(queue) \in Seq(State)
  BY <1>0, <1>1, HeadTailProperties
<1>3. confirmed' \in BOOLEAN
  BY <1>1, <1>2 DEF State
<1>4. CASE /\ Take("Requested") /\ holding = None /\ queue' = Tail(queue)
           /\ UNCHANGED <<wanted, locked, refused, marker>>
  <2>1. /\ used < MaxLocks /\ holding' = used + 1 /\ origin' = "Requested" /\ granted' = FALSE
        /\ polling' = TRUE /\ timers' = IF polling THEN timers ELSE timers + 1
    BY <1>4 DEF Take, LockSession
  <2>2. holding' \in Handles
    BY <1>0, <2>1, LockDriverAssumption DEF LockTypeOK, Handles
  <2>3. timers' = 1 /\ timers' \in 0 .. 1
    BY <1>0, <2>1
  <2> QED
    BY <1>0, <1>1, <1>2, <1>3, <1>4, <2>1, <2>2, <2>3
<1>5. CASE Publish(Tail(queue), FALSE, locked, TRUE) /\ UNCHANGED <<holdVars, marker>>
  <2>1. wanted' = FALSE /\ locked' = locked /\ refused' = TRUE /\ queue' \in Seq(State)
    BY <1>0, <1>2, <1>5, PublishTypes
  <2> QED
    BY <1>0, <1>1, <1>3, <1>5, <2>1 DEF holdVars
<1>6. CASE Release(Tail(queue))
  <2>1. /\ marker' \in {0, marker} /\ holding' = None /\ Publish(Tail(queue), wanted, FALSE, refused)
        /\ UNCHANGED <<origin, granted, polling, timers>>
    BY <1>6 DEF Release, Forgets
  <2>2. wanted' = wanted /\ locked' = FALSE /\ refused' = refused /\ queue' \in Seq(State)
    BY <1>0, <1>2, <2>1, PublishTypes
  <2>3. marker' \in 0 .. MaxCrashes + 1
    BY <1>0, <2>1, SessionLockAssumption
  <2> QED
    BY <1>0, <1>1, <1>3, <2>1, <2>2, <2>3
<1>7. CASE queue' = Tail(queue) /\ UNCHANGED <<wanted, locked, refused, holdVars, marker>>
  BY <1>0, <1>1, <1>2, <1>3, <1>7 DEF holdVars
<1> QED
  BY <1>4, <1>5, <1>6, <1>7 DEF OnState

LEMMA DeathTypes ==
  ASSUME SInv, Crash \/ CutOff \/ CompositorDies
  PROVE  ShellTypes' /\ OneChain'
<1> USE DEF ShellTypes
<1>0. ShellTypes /\ Numbered /\ Perished
  BY TypesSplit, DeathPerishes
<1>9. /\ marker' \in 0 .. MaxCrashes + 1 /\ session' \in 1 .. MaxCrashes + 1 /\ crashes' \in 0 .. MaxCrashes
      /\ holding' \in Handles \cup {None} /\ timers' \in 0 .. 1 /\ OneChain'
  <2>1. MaxCrashes \in Nat /\ session \in Nat /\ session >= 1
    BY <1>0, SessionLockAssumption
  <2>2. /\ marker' = marker /\ session' \in {session, session + 1} /\ crashes' \in 0 .. MaxCrashes
        /\ session' <= crashes' + 1 /\ holding' = None /\ timers' = IF polling' THEN 1 ELSE 0
    BY <1>0 DEF Perished
  <2>3. session' \in 1 .. MaxCrashes + 1
    <3>1. session' \in Nat /\ session' >= 1
      BY <2>1, <2>2
    <3>2. crashes' \in Nat /\ crashes' <= MaxCrashes
      BY <2>1, <2>2
    <3>3. session' <= crashes' + 1 /\ MaxCrashes \in Nat
      BY <2>1, <2>2
    <3>4. session' <= MaxCrashes + 1
      <4>1. \A a, b, c \in Nat : a <= b + 1 /\ b <= c => a <= c + 1
        OBVIOUS
      <4> QED
        BY <3>1, <3>2, <3>3, <4>1
    <3> QED
      BY <3>1, <3>3, <3>4
  <2> QED
    BY <1>0, <2>2, <2>3 DEF OneChain
<1>1. ASSUME NEW w, Dies(w)
      PROVE  /\ {up, wanted, locked, refused, granted, polling, confirmed, sleepLock}' \subseteq BOOLEAN
             /\ queue' \in Seq(State) /\ listens' = "no"
             /\ asks' \in [Askers -> {"idle", "lock", "unlock"}] /\ asked' = asked
             /\ origin' = "Requested" /\ sleeper' = "awake"
  <2>1. <<>> \in Seq(State) /\ [a \in Askers |-> "idle"] \in [Askers -> {"idle", "lock", "unlock"}]
    OBVIOUS
  <2>2. /\ up' = FALSE /\ wanted' = FALSE /\ locked' = FALSE /\ refused' = FALSE
        /\ queue' = <<>> /\ listens' = "no" /\ confirmed' = FALSE
        /\ asks' = [a \in Askers |-> "idle"] /\ asked' = asked
        /\ origin' = "Requested" /\ granted' = FALSE /\ polling' = FALSE
        /\ sleeper' = "awake" /\ sleepLock' = FALSE
    BY <1>1 DEF Dies
  <2> QED
    BY <2>1, <2>2
<1>2. CASE Crash \/ CutOff \/ (CompositorDies /\ up)
  <2>1. PICK w : Dies(w)
    BY <1>2 DEF Crash, CutOff, CompositorDies
  <2>2. /\ {up, wanted, locked, refused, granted, polling, confirmed, sleepLock}' \subseteq BOOLEAN
        /\ queue' \in Seq(State) /\ listens' = "no"
        /\ asks' \in [Askers -> {"idle", "lock", "unlock"}] /\ asked' = asked
        /\ origin' = "Requested" /\ sleeper' = "awake"
    BY <1>1, <2>1
  <2> QED
    BY <1>0, <1>9, <2>2
<1>3. CASE CompositorDies /\ ~up
  <2>1. UNCHANGED <<up, stateVars, askVars, holdVars, sleepVars, confirmed, listens>>
    BY <1>3 DEF CompositorDies
  <2> QED
    BY <1>0, <1>9, <2>1 DEF stateVars, askVars, holdVars, sleepVars
<1> QED
  BY <1>2, <1>3

LEMMA BootTypes ==
  ASSUME SInv, Boot
  PROVE  ShellTypes' /\ OneChain'
<1> USE DEF ShellTypes, OneChain
<1>0. ShellTypes /\ OneChain /\ LockTypeOK /\ Started /\ DownHoldsNothing
  BY TypesSplit, BootStarts DEF DriverInv
<1>1. /\ UNCHANGED <<locked, queue, askVars, sleepVars, session, crashes, confirmed, listens>> /\ up' = TRUE
      /\ wanted' \in {TRUE, wanted} /\ refused' \in {TRUE, refused} /\ marker' \in {0, marker}
  <2>1. marker' \in {0, marker}
    BY <1>0 DEF Started
  <2> QED
    BY <2>1 DEF Boot
<1>2. marker' \in 0 .. MaxCrashes + 1
  BY <1>0, <1>1, SessionLockAssumption
<1>3. CASE /\ used < MaxLocks /\ holding' = used + 1 /\ origin' = "Restored" /\ granted' = FALSE
           /\ polling' = TRUE /\ timers' = IF polling THEN timers ELSE timers + 1
  <2>1. holding' \in Handles
    BY <1>0, <1>3, LockDriverAssumption DEF LockTypeOK, Handles
  <2>2. timers' = 1 /\ timers' \in 0 .. 1
    BY <1>0, <1>3
  <2> QED
    BY <1>0, <1>1, <1>2, <1>3, <2>1, <2>2 DEF askVars, sleepVars
<1>4. CASE UNCHANGED holdVars
  BY <1>0, <1>1, <1>2, <1>4 DEF holdVars, askVars, sleepVars
<1> QED
  BY <1>0, <1>3, <1>4 DEF Started, LockSession

-----------------------------------------------------------------------------
(* What is known of handles, held and made.                                *)
LEMMA HandlesMade ==
  ASSUME LockTypeOK, Known, [LockNext]_lockVars,
         \A h \in Handles : hlocked[h] \/ hfinished[h] \/ hunlock[h] => h <= used
  PROVE  /\ \A h \in Handles : hlocked'[h] \/ hfinished'[h] \/ hunlock'[h] => h <= used'
         /\ \A h \in Handles : hunlock'[h] /\ ~hunlock[h] => \E g \in Handles : g = h /\ GiveUp(g)
<1>1. /\ used \in Nat /\ pending \in Handles \cup {None} /\ None \notin Handles /\ drv \in Handles \cup {None}
      /\ hlocked \in [Handles -> BOOLEAN] /\ hfinished \in [Handles -> BOOLEAN]
      /\ hunlock \in [Handles -> BOOLEAN]
      /\ pending # None => pending = used
      /\ \A h \in Handles : h \in Nat
  BY DEF LockTypeOK, Known, None, Handles
<1>2. CASE Ask
  <2>1. /\ used' = used + 1 /\ UNCHANGED <<hlocked, hunlock>>
        /\ hfinished' = IF pending = None THEN hfinished ELSE [hfinished EXCEPT ![pending] = TRUE]
    BY <1>2 DEF Ask, LockSession
  <2>2. \A h \in Handles : hfinished'[h] => h = pending \/ hfinished[h]
    BY <1>1, <2>1
  <2>3. \A h \in Handles : hlocked'[h] \/ hfinished'[h] \/ hunlock'[h] => h <= used
    BY <1>1, <2>1, <2>2
  <2> QED
    BY <1>1, <2>1, <2>3
<1>3. ASSUME NEW g \in Handles, GiveUp(g)
      PROVE  /\ \A h \in Handles : hlocked'[h] \/ hfinished'[h] \/ hunlock'[h] => h <= used'
             /\ \A h \in Handles : hunlock'[h] /\ ~hunlock[h] => h = g
  <2>1. g <= used /\ UNCHANGED <<used, hlocked, hfinished>> /\ hunlock' = [hunlock EXCEPT ![g] = TRUE]
    BY <1>3 DEF GiveUp, Unlock
  <2>2. \A h \in Handles : hunlock'[h] => h = g \/ hunlock[h]
    BY <1>1, <2>1
  <2> QED
    BY <2>1, <2>2
<1>4. CASE Turn
  <2>1. UNCHANGED <<used, hunlock>> /\ hfinished' = Finished /\ (End \/ Cover)
    BY <1>4 DEF Turn
  <2>2. \A h \in Handles : hfinished'[h] => h = pending \/ hfinished[h]
    BY <1>1, <2>1 DEF Finished, Ignored
  <2>3. \A h \in Handles : hlocked'[h] => hlocked[h]
    BY <1>1, <2>1 DEF End, Cover
  <2> QED
    BY <1>1, <2>1, <2>2, <2>3
<1>5. CASE Read
  <2> PICK e \in Answers : e = Head(events) /\ Old(e.h)
    BY <1>5, Shorter DEF Read, LockTypeOK, Known
  <2>1. /\ UNCHANGED <<used, hunlock>> /\ e.h \in Handles
        /\ hlocked' = [hlocked EXCEPT ![e.h] = @ \/ (e.kind = "locked" /\ drv = e.h)]
        /\ hfinished' = [hfinished EXCEPT ![e.h] = @ \/ (e.kind = "finished" /\ drv = e.h)]
    BY <1>5, Messages DEF Read
  <2>2. \A h \in Handles : (hlocked'[h] => h = e.h \/ hlocked[h]) /\ (hfinished'[h] => h = e.h \/ hfinished[h])
    BY <1>1, <2>1
  <2>3. e.h <= used
    BY <1>1 DEF Old
  <2> QED
    BY <2>1, <2>2, <2>3
<1>6. CASE Serve \/ Grant \/ TakeBack \/ UNCHANGED lockVars
  BY <1>6 DEF Serve, Grant, TakeBack, lockVars, handleVars
<1> QED
  BY <1>2, <1>3, <1>4, <1>5, <1>6 DEF LockNext

LEMMA Kept ==
  ASSUME SInv, up' = up, Apart \/ OnState \/ Turns
  PROVE  Made' /\ HeldIsLast' /\ DownHoldsNothing' /\ Numbered'
<1>0. /\ LockTypeOK /\ Known /\ ShellTypes /\ DownHoldsNothing /\ Made /\ HeldIsLast /\ Numbered
      /\ [LockNext]_lockVars
  BY TypesSplit, AliveSteps DEF DriverInv
<1>1. \A h \in Handles : hlocked'[h] \/ hfinished'[h] \/ hunlock'[h] => h <= used'
  BY <1>0, HandlesMade DEF Made
<1>2. ~up => UNCHANGED <<pending, settled, drv, sessionLocked>>
  <2>1. CASE Apart
    BY <2>1, ApartKeeps DEF lockVars, driverVars
  <2>2. CASE OnState
    BY <2>2 DEF OnState
  <2>3. CASE Turns
    BY <2>3 DEF Turns, DriverTurn, DriverRead, Serves, Grants, TakesBack, Serve, Grant, TakeBack, driverVars
  <2> QED
    BY <2>1, <2>2, <2>3
<1>3. Made'
  BY <1>0, <1>1, <1>2 DEF Made
<1>4. Numbered' /\ session' = session /\ crashes' = crashes
  <2>1. session' = session /\ crashes' = crashes
    BY ApartKeeps DEF OnState, Turns, DriverTurn, DriverRead, Serves, Grants, TakesBack, shellVars, worldVars
  <2>2. marker' \in {0, session, marker}
    BY ApartTypes, OnStateTypes DEF Turns, DriverTurn, DriverRead, Serves, Grants, TakesBack, shellVars, worldVars
  <2>3. session \in Nat /\ marker \in Nat /\ crashes \in Nat
    BY <1>0, SessionLockAssumption DEF ShellTypes
  <2> QED
    BY <1>0, <2>1, <2>2, <2>3 DEF Numbered
<1>5. /\ holding' = holding \/ holding' = None \/ (up /\ Take("Requested"))
      /\ ~up => holding' \in {holding, None}
  <2>1. Apart => holding' \in {holding, None}
    BY ApartTypes
  <2>2. Turns => holding' = holding
    BY DEF Turns, DriverTurn, DriverRead, Serves, Grants, TakesBack, shellVars, holdVars
  <2>3. OnState => up /\ (holding' = holding \/ holding' = None \/ Take("Requested"))
    BY OnStateSplits DEF OnState, holdVars, Release
  <2> QED
    BY <2>1, <2>2, <2>3
<1>6. HeldIsLast'
  <2>1. CASE Take("Requested")
    <3>1. holding' = used + 1 /\ used' = used + 1 /\ hunlock' = hunlock /\ used \in Nat
      BY <1>0, <2>1 DEF Take, LockSession, LockTypeOK
    <3>2. used + 1 \in Handles => ~hunlock[used + 1]
      BY <1>0, <3>1 DEF Made
    <3>3. used + 1 \in Handles
      BY <1>0, <2>1, LockDriverAssumption DEF Take, LockSession, LockTypeOK, Handles
    <3> QED
      BY <3>1, <3>2, <3>3 DEF HeldIsLast
  <2>2. CASE holding' = holding /\ holding # None
    <3>1. CASE OnState
      <4>1. ~Take("Requested") => UNCHANGED lockVars
        BY <1>0, <2>2, <3>1, OnStateSplits DEF Release
      <4> QED
        BY <1>0, <2>1, <2>2, <4>1 DEF HeldIsLast, lockVars, handleVars
    <3>2. CASE Apart \/ Turns
      <4>1. UNCHANGED <<used, hunlock>>
        BY <3>2, ApartKeeps DEF Turns, DriverTurn, DriverRead, Serves, Grants, TakesBack, Turn, Read,
             Serve, Grant, TakeBack, lockVars, handleVars
      <4> QED
        BY <1>0, <2>2, <4>1 DEF HeldIsLast
    <3> QED
      BY <3>1, <3>2
  <2>3. CASE holding' = None
    BY <2>3 DEF HeldIsLast
  <2> QED
    BY <1>5, <2>1, <2>2, <2>3
<1>7. DownHoldsNothing'
  BY <1>0, <1>2, <1>5 DEF DownHoldsNothing
<1> QED
  BY <1>3, <1>4, <1>6, <1>7

LEMMA DeathKeeps ==
  ASSUME SInv, Perished
  PROVE  Made' /\ HeldIsLast' /\ DownHoldsNothing' /\ Numbered'
<1>1. Made' /\ HeldIsLast' /\ DownHoldsNothing'
  BY DEF SInv, Made, HeldIsLast, DownHoldsNothing, Perished, handleVars
<1>2. Numbered'
  <2>1. session' \in {session, session + 1} /\ marker' = marker /\ session' <= crashes' + 1
    BY DEF Perished
  <2>2. session \in Nat /\ marker \in Nat /\ marker <= session
    BY SessionLockAssumption DEF SInv, TypeOK, Numbered
  <2> QED
    BY <2>1, <2>2 DEF Numbered
<1> QED
  BY <1>1, <1>2

LEMMA StrayKeeps ==
  ASSUME SInv, HangUp \/ Clear
  PROVE  ShellTypes' /\ OneChain' /\ Made' /\ HeldIsLast' /\ DownHoldsNothing' /\ Numbered'
<1>1. UNCHANGED <<stateVars, askVars, holdVars, sleepVars, worldVars, confirmed, listens, driverVars, handleVars>>
  BY DEF HangUp, Clear
<1>2. ShellTypes' /\ OneChain'
  BY <1>1, TypesSplit DEF ShellTypes, OneChain, stateVars, askVars, holdVars, sleepVars, worldVars
<1>3. Made' /\ HeldIsLast' /\ DownHoldsNothing' /\ Numbered'
  BY <1>1 DEF SInv, TypeOK, Made, HeldIsLast, DownHoldsNothing, Numbered, holdVars, worldVars, driverVars, handleVars
<1> QED
  BY <1>2, <1>3

LEMMA BootKeeps ==
  ASSUME SInv, Started
  PROVE  Made' /\ HeldIsLast' /\ DownHoldsNothing' /\ Numbered'
<1>0. /\ LockTypeOK /\ Made /\ Numbered /\ holding = None /\ pending = None /\ used \in Nat /\ up'
      /\ session \in Nat /\ marker \in Nat /\ UNCHANGED <<hunlock, hlocked, session, crashes>>
      /\ marker' \in {0, marker}
  <2>1. ~up /\ up' /\ UNCHANGED <<hunlock, hlocked, session, crashes>> /\ marker' \in {0, marker}
    BY DEF Started, handleVars
  <2>2. session \in Nat /\ marker \in Nat /\ holding = None
    BY <2>1, SessionLockAssumption DEF SInv, TypeOK
  <2> QED
    BY <2>1, <2>2 DEF SInv, TypeOK, LockTypeOK, Made
<1>1. Numbered'
  BY <1>0 DEF Numbered
<1>2. CASE LockSession /\ holding' = used + 1
  <2>1. used' = used + 1 /\ hfinished' = hfinished /\ used + 1 \in Handles
    BY <1>0, <1>2, LockDriverAssumption DEF LockSession, LockTypeOK, Handles
  <2>2. \A h \in Handles : h \in Nat
    BY DEF Handles
  <2>3. Made'
    BY <1>0, <2>1, <2>2 DEF Made
  <2>4. HeldIsLast'
    BY <1>0, <1>2, <2>1 DEF Made, HeldIsLast
  <2> QED
    BY <1>0, <1>1, <2>3, <2>4 DEF DownHoldsNothing
<1>3. CASE UNCHANGED <<holdVars, handleVars>>
  <2>1. Made' /\ HeldIsLast'
    BY <1>0, <1>3 DEF Made, HeldIsLast, holdVars, handleVars
  <2> QED
    BY <1>0, <1>1, <2>1 DEF DownHoldsNothing
<1> QED
  BY <1>2, <1>3 DEF Started

LEMMA SInvInit == Init => SInv
<1> SUFFICES ASSUME Init PROVE SInv
  OBVIOUS
<1>1. IInv
  BY IInvInit DEF Init
<1>2. TypeOK
  <2>1. /\ queue \in Seq(State) /\ asks \in [Askers -> {"idle", "lock", "unlock"}]
        /\ marker \in 0 .. MaxCrashes + 1 /\ session \in 1 .. MaxCrashes + 1
        /\ crashes \in 0 .. MaxCrashes /\ asked \in 0 .. MaxAsks
    <3>1. queue = <<>> /\ asks = [a \in Askers |-> "idle"] /\ marker = 0 /\ session = 1 /\ crashes = 0
          /\ asked = 0
      BY DEF Init
    <3>2. MaxCrashes \in Nat /\ MaxAsks \in Nat
      BY SessionLockAssumption
    <3>3. queue \in Seq(State) /\ asks \in [Askers -> {"idle", "lock", "unlock"}]
      BY <3>1
    <3>4. \A n \in Nat : 0 \in 0 .. n + 1 /\ 1 \in 1 .. n + 1 /\ 0 \in 0 .. n
      OBVIOUS
    <3>5. 0 \in 0 .. MaxCrashes + 1 /\ 1 \in 1 .. MaxCrashes + 1 /\ 0 \in 0 .. MaxCrashes /\ 0 \in 0 .. MaxAsks
      BY <3>2, <3>4
    <3> QED
      BY <3>1, <3>3, <3>5
  <2> QED
    <3>1. /\ up = TRUE /\ wanted = FALSE /\ locked = FALSE /\ refused = FALSE /\ granted = FALSE
          /\ polling = FALSE /\ confirmed = FALSE /\ sleepLock = FALSE
          /\ listens = "no" /\ origin = "Requested" /\ sleeper = "awake" /\ holding = None /\ timers = 0
      BY DEF Init
    <3>2. LockTypeOK /\ timers \in 0 .. 1
      BY <1>1, <3>1 DEF IInv
    <3> QED
      BY <2>1, <3>1, <3>2 DEF TypeOK
<1>3. Made /\ HeldIsLast /\ OneChain /\ Numbered
  BY SessionLockAssumption DEF Init, LockInit, NoHandle, Made, HeldIsLast, OneChain, Numbered
<1> QED
  BY <1>1, <1>2, <1>3 DEF SInv, IInv, Orderly

LEMMA SInvNext == SInv /\ [Next]_vars => SInv'
<1> SUFFICES ASSUME SInv, [Next]_vars PROVE SInv'
  OBVIOUS
<1>1. CASE Apart \/ OnState \/ Turns
  <2>1. up' = up
    BY <1>1, AliveSteps
  <2>2. DriverInv'
    BY <1>1, AliveDriver, OrphanDriver
  <2>3. Made' /\ HeldIsLast' /\ DownHoldsNothing' /\ Numbered'
    BY <1>1, <2>1, Kept
  <2>4. ShellTypes' /\ OneChain'
    <3>1. CASE Turns
      <4>1. UNCHANGED shellVars
        BY <3>1 DEF Turns, DriverTurn, DriverRead, Serves, Grants, TakesBack
      <4> QED
        BY <4>1, TypesSplit DEF ShellTypes, OneChain, shellVars, stateVars, askVars, holdVars, sleepVars, worldVars
    <3> QED
      BY <1>1, <3>1, ApartTypes, OnStateTypes
  <2> QED
    BY <2>2, <2>3, <2>4, Joined
<1>2. CASE Crash \/ CutOff \/ CompositorDies
  BY <1>2, DeathPerishes, DeathDriver, DeathTypes, DeathKeeps, Joined
<1>3. CASE HangUp \/ Clear
  BY <1>3, StrayDriver, StrayKeeps, Joined
<1>4. CASE Boot
  BY <1>4, BootStarts, BootDriver, BootTypes, BootKeeps, Joined
<1>5. CASE UNCHANGED vars
  <2>1. UNCHANGED <<shellVars, lockVars>>
    BY <1>5 DEF vars, shellVars, stateVars, askVars, holdVars, sleepVars, worldVars
  <2>2. ShellTypes' /\ OneChain' /\ Made' /\ HeldIsLast' /\ DownHoldsNothing' /\ Numbered'
    BY <2>1, TypesSplit DEF ShellTypes, OneChain, Made, HeldIsLast, DownHoldsNothing, Numbered, shellVars,
       stateVars, askVars, holdVars, sleepVars, worldVars, lockVars, driverVars, handleVars
  <2>3. LockTypeOK' /\ Known'
    BY <2>1 DEF SInv, TypeOK, LockTypeOK, Known, Old, lockVars, driverVars, handleVars, compositorVars
  <2>4. up => Orderly'
    <3>1. up => IInv'
      BY <2>1, IInvNext DEF SInv, TypeOK, IInv
    <3> QED
      BY <3>1 DEF IInv
  <2> QED
    BY <2>1, <2>2, <2>3, <2>4, Joined DEF DriverInv, shellVars, worldVars
<1> QED
  BY <1>1, <1>2, <1>3, <1>4, <1>5, NextSplits

(* The shell's and the driver's parts of the lock fit together.            *)
THEOREM SInvAlways == Spec => []SInv
BY SInvInit, SInvNext, PTL DEF Spec

(* Types hold; at most one poll is scheduled at any time, and a death      *)
(* costs the process everything it held (lock.rs).                         *)
THEOREM TypeCorrect == Spec => []TypeOK
<1>1. SInv => TypeOK
  BY DEF SInv
<1> QED
  BY <1>1, SInvAlways, PTL

(* However locks follow each other, a lock held is followed by one chain   *)
(* of polls, which does not stop before the lock does                      *)
(* (arm_confirmation_poll of lock.rs).                                     *)
THEOREM HeldIsFollowedAlways == Spec => []HeldIsFollowed
<1>1. SInv => HeldIsFollowed
  BY DEF SInv, OneChain, HeldIsFollowed
<1> QED
  BY <1>1, SInvAlways, PTL

(* The performer, whatever it is asked, never makes the driver break a     *)
(* promise: while the shell lives it provokes no refusal, draws on no      *)
(* refused lock, and the flag a suspend waits for speaks of the lock in    *)
(* force, across crashes and restarts of either side.                      *)
THEOREM DriverHonestWhileUp == Spec => [](up => DriverHonest)
<1>1. SInv => (up => DriverHonest)
  BY IInvHonest DEF SInv, TypeOK, IInv
<1> QED
  BY <1>1, SInvAlways, PTL

-----------------------------------------------------------------------------
(* What is announced.  A shell whose callbacks wait for its performer has  *)
(* published nothing that was missed.                                      *)
Before ==
  /\ listens # "yes" => ~locked /\ ~sleepLock /\ \A a \in Askers : asks[a] = "idle"
  /\ listens # "yes" => ~confirmed /\ \A i \in DOMAIN queue : ~queue[i].locked
  /\ listens = "no" => queue = <<>>

(* The newest state published, or else announced, is the present one.      *)
LastTrue ==
  listens = "yes" => IF queue = <<>> THEN confirmed = locked ELSE queue[Len(queue)].locked = locked

Announced == Before /\ LastTrue

LEMMA PublishLast ==
  ASSUME NEW q \in Seq(State), NEW w, NEW l, NEW r, listens = "yes", listens' = "yes", Publish(q, w, l, r),
         w \in BOOLEAN, l \in BOOLEAN
  PROVE  Announced'
<1> DEFINE s == [wanted |-> w, locked |-> l]
<1>1. s \in State /\ s.locked = l
  BY DEF State
<1>2. queue' = Append(q, s) /\ locked' = l
  BY DEF Publish
<1> HIDE DEF s
<1>3. Len(q) \in Nat /\ Len(queue') = Len(q) + 1 /\ queue'[Len(q) + 1] = s /\ queue' \in Seq(State)
  BY <1>1, <1>2, Appended
<1>4. queue' # <<>> /\ queue'[Len(queue')] = s
  <2>1. Len(queue') # 0
    BY <1>3
  <2>2. Len(<<>>) = 0
    OBVIOUS
  <2> QED
    BY <1>3, <2>1, <2>2
<1>5. LastTrue'
  BY <1>1, <1>2, <1>4 DEF LastTrue
<1> QED
  BY <1>5 DEF Announced, Before

(* The oldest state leaves the channel, and is announced.                  *)
LEMMA HeadAnnounced ==
  ASSUME Announced, queue \in Seq(State), queue # <<>>, queue' = Tail(queue), confirmed' = Head(queue).locked,
         listens' = listens, locked' = locked, UNCHANGED <<asks, sleepLock>>
  PROVE  Announced'
<1>1. /\ 1 \in DOMAIN queue /\ Head(queue) = queue[1] /\ Tail(queue) \in Seq(State)
      /\ \A i \in DOMAIN Tail(queue) : i \in Nat /\ i + 1 \in DOMAIN queue /\ Tail(queue)[i] = queue[i + 1]
  BY Shorter
<1>2. Before'
  <2>1. CASE listens # "yes"
    BY <1>1, <2>1 DEF Announced, Before
  <2>2. CASE listens = "yes"
    BY <2>2 DEF Before
  <2> QED
    BY <2>1, <2>2
<1>3. LastTrue'
  <2> SUFFICES ASSUME listens = "yes"
               PROVE  IF queue' = <<>> THEN confirmed' = locked' ELSE queue'[Len(queue')].locked = locked'
    BY DEF LastTrue
  <2>1. queue[Len(queue)].locked = locked
    BY DEF Announced, LastTrue
  <2>2. Len(queue) \in Nat /\ Len(queue) # 0 /\ Len(Tail(queue)) = Len(queue) - 1
    BY HeadTailProperties
  <2>3. CASE Tail(queue) = <<>>
    <3>0. Len(<<>>) = 0 /\ \A n \in Nat : n - 1 = 0 => n = 1
      OBVIOUS
    <3>1. Len(queue) = 1
      BY <2>2, <2>3, <3>0
    <3> QED
      BY <1>1, <2>1, <2>3, <3>1
  <2>4. CASE Tail(queue) # <<>>
    <3>1. Len(Tail(queue)) # 0
      <4>1. \A t \in Seq(State) : Len(t) = 0 => t = <<>>
        OBVIOUS
      <4> QED
        BY <1>1, <2>4, <4>1
    <3>2. Len(Tail(queue)) \in DOMAIN Tail(queue)
      BY <1>1, <2>2, <3>1
    <3>3. Tail(queue)[Len(Tail(queue))] = queue[Len(queue)]
      BY <1>1, <2>2, <3>2
    <3> QED
      BY <2>1, <2>4, <3>3
  <2> QED
    BY <2>3, <2>4
<1> QED
  BY <1>2, <1>3 DEF Announced

LEMMA ApartAnnounced ==
  ASSUME ~Early, SInv, Announced, Apart
  PROVE  Announced'
<1> USE DEF stateVars, askVars, holdVars, sleepVars, worldVars
<1>1. /\ ShellTypes /\ queue \in Seq(State) /\ locked \in BOOLEAN /\ wanted \in BOOLEAN
      /\ refused \in BOOLEAN /\ confirmed \in BOOLEAN
  BY TypesSplit DEF ShellTypes
<1>2. Ready => listens = "yes"
  BY DEF Ready
<1>3. CASE UNCHANGED <<queue, locked, confirmed, listens, asks, sleepLock>>
  BY <1>3 DEF Announced, Before, LastTrue
<1>4. CASE Listen
  <2>1. /\ UNCHANGED <<locked, confirmed, asks, sleepLock>> /\ listens # "yes"
    BY <1>4 DEF Listen
  <2>2. ~locked /\ ~sleepLock /\ (\A a \in Askers : asks[a] = "idle") /\ ~confirmed
        /\ \A i \in DOMAIN queue : ~queue[i].locked
    BY <2>1 DEF Announced, Before
  <2>3. CASE listens' = "read" /\ listens = "no" /\ queue' = Append(queue, [wanted |-> wanted, locked |-> locked])
    <3>1. [wanted |-> wanted, locked |-> locked] \in State
      BY <1>1 DEF State
    <3>2. \A i \in DOMAIN queue' : ~queue'[i].locked
      BY <1>1, <2>2, <2>3, <3>1, Appended
    <3> QED
      BY <2>1, <2>2, <2>3, <3>2 DEF Announced, Before, LastTrue
  <2>4. CASE listens' = "yes" /\ listens = "read" /\ queue' = queue
    <3>1. CASE queue = <<>>
      <4>1. confirmed = FALSE /\ locked = FALSE
        BY <1>1, <2>2
      <4> QED
        BY <2>1, <2>4, <3>1, <4>1 DEF Announced, Before, LastTrue
    <3>2. CASE queue # <<>>
      <4>1. Len(queue) \in DOMAIN queue /\ queue[Len(queue)] \in State
        BY <1>1, <3>2
      <4>2. queue[Len(queue)].locked \in BOOLEAN
        BY <4>1 DEF State
      <4>3. queue[Len(queue)].locked = locked
        BY <1>1, <2>2, <4>1, <4>2
      <4> QED
        BY <2>1, <2>4, <3>2, <4>3 DEF Announced, Before, LastTrue
    <3> QED
      BY <3>1, <3>2
  <2> QED
    BY <1>4, <2>3, <2>4 DEF Listen
<1>5. ASSUME NEW a \in Askers, Consider(a)
      PROVE  Announced'
  BY <1>2, <1>5 DEF Consider, Announced, Before, LastTrue
<1>6. ASSUME NEW a \in Askers, Write(a)
      PROVE  Announced'
  <2>1. listens = "yes" /\ listens' = listens
    BY <1>6 DEF Write, Announced, Before
  <2> QED
    BY <1>1, <1>6, <2>1, PublishLast DEF Write
<1>7. CASE Remark
  BY <1>1, <1>2, <1>7, PublishLast DEF Remark
<1>8. CASE PrepareForSleep
  BY <1>2, <1>8 DEF PrepareForSleep, Announced, Before, LastTrue
<1>9. CASE SleepLocks
  <2>1. listens = "yes" /\ listens' = listens
    BY <1>9 DEF SleepLocks, Announced, Before
  <2>2. CASE UNCHANGED stateVars
    BY <1>9, <2>1, <2>2 DEF SleepLocks, Announced, Before, LastTrue
  <2>3. CASE Publish(queue, TRUE, locked, FALSE)
    BY <1>1, <2>1, <2>3, PublishLast
  <2> QED
    BY <1>9, <2>2, <2>3 DEF SleepLocks
<1>10. CASE Sleep \/ Resume
  BY <1>3, <1>10 DEF Sleep, Resume
<1>11. CASE Tick
  <2>1. listens = "yes" /\ listens' = listens
    BY <1>2, <1>11 DEF Tick, TickIdle, TickGranted, TickEnded
  <2>2. CASE TickIdle
    BY <1>3, <2>2 DEF TickIdle
  <2>3. CASE TickGranted
    BY <1>1, <2>1, <2>3, PublishLast DEF TickGranted
  <2>4. CASE TickEnded
    BY <1>1, <2>1, <2>4, PublishLast DEF TickEnded
  <2> QED
    BY <1>11, <2>2, <2>3, <2>4 DEF Tick
<1> QED
  BY <1>4, <1>5, <1>6, <1>7, <1>8, <1>9, <1>10, <1>11 DEF Apart

LEMMA OnStateAnnounced ==
  ASSUME SInv, Announced, OnState
  PROVE  Announced'
<1>1. /\ ShellTypes /\ queue \in Seq(State) /\ locked \in BOOLEAN /\ wanted \in BOOLEAN
  BY TypesSplit DEF ShellTypes
<1>2. /\ queue # <<>> /\ confirmed' = Head(queue).locked
      /\ listens' = listens /\ UNCHANGED <<asks, sleepLock>>
  BY DEF OnState, askVars, sleepVars
<1>3. Tail(queue) \in Seq(State) /\ Head(queue) = queue[1] /\ 1 \in DOMAIN queue
      /\ \A i \in DOMAIN Tail(queue) : i + 1 \in DOMAIN queue /\ Tail(queue)[i] = queue[i + 1]
  BY <1>1, <1>2, Shorter
<1>4. CASE queue' = Tail(queue) /\ locked' = locked
  BY <1>1, <1>2, <1>4, HeadAnnounced
<1>5. ASSUME NEW w \in BOOLEAN, NEW l \in BOOLEAN, NEW r, Publish(Tail(queue), w, l, r), l \in {FALSE, locked}
      PROVE  Announced'
  <2>1. CASE listens = "yes"
    BY <1>2, <1>3, <1>5, <2>1, PublishLast
  <2>2. CASE listens # "yes"
    <3>1. queue' = Tail(queue) /\ locked' = l
      BY <1>5, <2>2 DEF Publish
    <3>2. ~locked /\ ~sleepLock /\ (\A a \in Askers : asks[a] = "idle")
          /\ (\A i \in DOMAIN queue : ~queue[i].locked) /\ listens # "no"
      BY <1>2, <2>2 DEF Announced, Before
    <3>3. ~confirmed' /\ ~locked' /\ \A i \in DOMAIN queue' : ~queue'[i].locked
      <4>1. locked = FALSE
        BY <1>1, <3>2
      <4>2. locked' = FALSE
        BY <1>5, <3>1, <4>1
      <4>3. ~confirmed'
        BY <1>2, <1>3, <3>2
      <4>4. \A i \in DOMAIN queue' : ~queue'[i].locked
        BY <1>3, <3>1, <3>2
      <4> QED
        BY <4>2, <4>3, <4>4
    <3> QED
      BY <1>2, <2>2, <3>2, <3>3 DEF Announced, Before, LastTrue
  <2> QED
    BY <2>1, <2>2
<1>6. CASE Publish(Tail(queue), FALSE, locked, TRUE)
  BY <1>1, <1>5, <1>6
<1>7. CASE Publish(Tail(queue), wanted, FALSE, refused)
  BY <1>1, <1>5, <1>7
<1> QED
  BY <1>4, <1>6, <1>7 DEF OnState, Release

LEMMA AnnouncedNext == ~Early => (SInv /\ Announced /\ [Next]_vars => Announced')
<1> SUFFICES ASSUME ~Early, SInv, Announced, [Next]_vars PROVE Announced'
  OBVIOUS
<1>1. CASE UNCHANGED <<queue, locked, confirmed, listens, asks, sleepLock>>
  BY <1>1 DEF Announced, Before, LastTrue
<1>2. ASSUME NEW w, Dies(w)
      PROVE  Announced'
  <2>1. /\ locked' = FALSE /\ queue' = <<>> /\ listens' = "no" /\ confirmed' = FALSE
        /\ asks' = [a \in Askers |-> "idle"] /\ sleepLock' = FALSE
    BY <1>2 DEF Dies
  <2> QED
    BY <2>1 DEF Announced, Before, LastTrue
<1>3. CASE Crash \/ CutOff \/ CompositorDies
  <2>1. Crash \/ CutOff => \E w : Dies(w)
    BY DEF Crash, CutOff
  <2>2. CompositorDies => (\E w : Dies(w)) \/ UNCHANGED <<stateVars, askVars, sleepVars, confirmed, listens>>
    BY DEF CompositorDies
  <2> QED
    BY <1>1, <1>2, <1>3, <2>1, <2>2 DEF stateVars, askVars, sleepVars
<1>4. CASE Turns \/ HangUp \/ Clear \/ Boot \/ UNCHANGED vars
  BY <1>1, <1>4 DEF Turns, DriverTurn, DriverRead, Serves, Grants, TakesBack, HangUp, Clear, Boot, vars,
     shellVars, stateVars, askVars, sleepVars
<1> QED
  BY <1>3, <1>4, ApartAnnounced, OnStateAnnounced, NextSplits

(* When every state published has been looked at, what was announced is    *)
(* what is true, as long as callbacks wait for the performer to listen     *)
(* (session_event of lock.rs; with Early it is refuted).                   *)
THEOREM AnnouncedIsTrueAlways ==
  ASSUME ~Early
  PROVE  Spec => []AnnouncedIsTrue
<1>1. Init => Announced
  BY DEF Init, Announced, Before, LastTrue
<1>2. SInv /\ Announced /\ [Next]_vars => Announced'
  BY AnnouncedNext
<1>3. Announced => AnnouncedIsTrue
  BY DEF Announced, LastTrue, AnnouncedIsTrue
<1> QED
  BY <1>1, <1>2, <1>3, SInvAlways, PTL DEF Spec

(* What the performer follows and says is what there is (lock.rs).         *)
THEOREM PerformerHonestAlways ==
  ASSUME ~Early
  PROVE  Spec => []PerformerHonest
<1>1. Spec => []AnnouncedIsTrue
  BY AnnouncedIsTrueAlways
<1> QED
  BY <1>1, HeldIsFollowedAlways, PTL DEF PerformerHonest

-----------------------------------------------------------------------------
(* What is recorded, and taken back.                                       *)

(* What the shell has heard of a grant was said, and a session that is     *)
(* locked is locked by somebody.                                           *)
Heard ==
  /\ \A h \in Handles : hlocked[h] => h \in told
  /\ \A i \in DOMAIN events, h \in Handles : events[i] = Msg("locked", h) => h \in told
  /\ \A i \in DOMAIN wire, h \in Handles : wire[i] = Msg("unlock", h) => h \in told
  /\ clocked => holder # None

(* Locks are asked for once, and in the order they were made.              *)
Rising ==
  /\ \A i, k \in DOMAIN wire, g, h \in Handles :
       wire[i] = Msg("lock", g) /\ wire[k] = Msg("lock", h) /\ i < k => g < h
  /\ \A i \in DOMAIN wire, g \in Handles :
       wire[i] = Msg("lock", g) =>
         g > holder /\ g \notin told \cup refusals /\ (drv = None \/ g <= drv)

(* A lock that is, or may still be, in force.                              *)
InPlay(h) == h \in {holder, drv, pending} \/ InFlight(wire, Msg("lock", h))

(* A lock granted stays so until the shell gives it up: nothing finishes   *)
(* it, and it ends only with its handle given up.                          *)
GrantsLast ==
  /\ holder \notin refusals
  /\ \A h \in told : h \notin refusals /\ ~hfinished[h]
  /\ \A h \in Handles : hfinished[h] /\ InPlay(h) => h \in refusals
  /\ \A i \in DOMAIN events, h \in Handles : events[i] = Msg("finished", h) => h \in refusals
  /\ \A i \in DOMAIN wire, h \in Handles : wire[i] = Msg("unlock", h) => hunlock[h]
  /\ drv \in told => holder = drv /\ clocked

(* What the shell holds and knows granted is what its driver has up.       *)
HeldIsUp == holding # None /\ hlocked[holding] => drv = holding

(* A record of this session names a lock, and no lock given up is left     *)
(* that could still end, or become, the one in force.                      *)
RecordTrue ==
  marker = session => clocked /\ \A h \in Handles : InPlay(h) => ~hunlock[h]

-----------------------------------------------------------------------------
(* What a turn of the driver says, exactly.                                *)
Continues(u, s, t) ==
  /\ \A i \in DOMAIN s : i \in Nat /\ i <= Len(s) /\ i \in DOMAIN u /\ u[i] = s[i]
  /\ \A i \in DOMAIN u :
       \/ i \in DOMAIN s
       \/ i \in Nat /\ i > Len(s) /\ \E j \in DOMAIN t : i = Len(s) + j /\ u[i] = t[j]

LEMMA Joins ==
  ASSUME NEW S, NEW s \in Seq(S), NEW t \in Seq(S), NEW u, u = s \o t
  PROVE  u \in Seq(S) /\ Continues(u, s, t)
<1>1. /\ u \in Seq(S) /\ Len(u) = Len(s) + Len(t)
      /\ \A i \in 1 .. Len(s) + Len(t) : u[i] = IF i <= Len(s) THEN s[i] ELSE t[i - Len(s)]
  BY ConcatProperties
<1>2. /\ Len(s) \in Nat /\ Len(t) \in Nat /\ DOMAIN s = 1 .. Len(s) /\ DOMAIN t = 1 .. Len(t)
      /\ DOMAIN u = 1 .. Len(s) + Len(t)
  BY <1>1
<1>3. ASSUME NEW i \in DOMAIN u, i \notin DOMAIN s
      PROVE  i \in Nat /\ i > Len(s) /\ \E j \in DOMAIN t : i = Len(s) + j /\ u[i] = t[j]
  <2>1. i \in Nat /\ i > Len(s) /\ i - Len(s) \in 1 .. Len(t) /\ i = Len(s) + (i - Len(s))
    BY <1>2, <1>3
  <2>2. u[i] = t[i - Len(s)]
    BY <1>1, <1>2, <2>1
  <2> QED
    BY <1>2, <2>1, <2>2
<1> QED
  BY <1>1, <1>2, <1>3 DEF Continues

(* A request a turn may add: about the lock in hand, which it asks for if  *)
(* it starts it, and unlocks only if the shell knows it granted.           *)
Added(m) ==
  /\ Current # None /\ m.h = Current
  /\ m.kind = "lock" => Starts
  /\ m.kind = "unlock" => Over /\ hlocked[Current]

LEMMA TurnAdds ==
  ASSUME LockTypeOK, Turn
  PROVE  /\ \A i \in DOMAIN wire : i \in DOMAIN wire' /\ wire'[i] = wire[i]
         /\ \A i \in DOMAIN wire' : i \notin DOMAIN wire =>
              Added(wire'[i]) /\ \A k \in DOMAIN wire : k < i
         /\ \A i, k \in DOMAIN wire' : i \notin DOMAIN wire /\ k \notin DOMAIN wire
              /\ wire'[i].kind = "lock" /\ wire'[k].kind = "lock" => i = k
         /\ drv' \in {None, Current}
<1>1. /\ wire \in Seq(Requests) /\ pending \in Handles \cup {None} /\ drv \in Handles \cup {None}
      /\ (End \/ Cover) /\ None \notin Handles
  BY DEF LockTypeOK, Turn, None, Handles
<1>2. /\ StartRequests \in Seq(Requests)
      /\ \A j \in DOMAIN StartRequests :
           Added(StartRequests[j]) /\ (StartRequests[j].kind = "lock" => j = 1)
  <2>1. CASE Starts
    <3>1. Current = pending /\ pending \in Handles /\ Current # None
      BY <1>1, <2>1 DEF Current, Starts
    <3> DEFINE a == Msg("lock", pending)
               b == Msg("sync", pending)
    <3>2. a \in Requests /\ b \in Requests /\ a.kind = "lock" /\ b.kind = "sync" /\ a.h = pending /\ b.h = pending
      BY <3>1, Messages
    <3>3. StartRequests = <<a, b>>
      BY <2>1 DEF StartRequests
    <3> HIDE DEF a, b
    <3>4. /\ <<a, b>> \in Seq(Requests) /\ DOMAIN <<a, b>> = 1 .. 2 /\ <<a, b>>[1] = a /\ <<a, b>>[2] = b
          /\ \A j \in 1 .. 2 : j = 1 \/ j = 2
      BY <3>2
    <3>5. Added(a) /\ Added(b)
      BY <2>1, <3>1, <3>2 DEF Added
    <3>6. \A j \in 1 .. 2 : (<<a, b>>[j] = a /\ j = 1) \/ <<a, b>>[j] = b
      BY <3>4
    <3>7. \A j \in 1 .. 2 : Added(<<a, b>>[j]) /\ (<<a, b>>[j].kind = "lock" => j = 1)
      BY <3>2, <3>5, <3>6
    <3> QED
      BY <3>3, <3>4, <3>7
  <2>2. CASE ~Starts
    <3>1. StartRequests = <<>> /\ <<>> \in Seq(Requests) /\ DOMAIN <<>> = {}
      BY <2>2 DEF StartRequests
    <3> QED
      BY <3>1
  <2> QED
    BY <2>1, <2>2
<1>3. PICK more \in Seq(Requests) :
        /\ wire' = (wire \o StartRequests) \o more
        /\ \A j \in DOMAIN more : Added(more[j]) /\ more[j].kind # "lock"
  <2>0. ASSUME NEW m \in Requests, Added(m), m.kind # "lock"
        PROVE  <<m>> \in Seq(Requests) /\ \A j \in DOMAIN <<m>> : Added(<<m>>[j]) /\ <<m>>[j].kind # "lock"
    <3>1. <<m>> \in Seq(Requests) /\ DOMAIN <<m>> = {1} /\ <<m>>[1] = m
      OBVIOUS
    <3>2. \A j \in DOMAIN <<m>> : <<m>>[j] = m
      BY <3>1
    <3> QED
      BY <2>0, <3>1, <3>2
  <2>1. CASE End
    <3> DEFINE m == Msg(IF hlocked[Current] THEN "unlock" ELSE "destroy", Current)
    <3>1. Over /\ Current \in Handles /\ Current # None /\ wire' = (wire \o StartRequests) \o <<m>>
      BY <1>1, <2>1 DEF End, Over, Current
    <3>2. m \in Requests /\ m.h = Current /\ m.kind # "lock" /\ (m.kind = "unlock" => hlocked[Current])
      BY <3>1, Messages
    <3> HIDE DEF m
    <3>3. Added(m)
      BY <3>1, <3>2 DEF Added
    <3> QED
      BY <2>0, <3>1, <3>2, <3>3
  <2>2. CASE Cover
    <3> DEFINE covers == ~Starts /\ drv # None /\ settled /\ ~covered
               m == Msg("surface", drv)
    <3>1. wire' = (wire \o StartRequests) \o (IF covers THEN <<m>> ELSE <<>>)
      BY <2>2 DEF Cover
    <3>2. CASE covers
      <4>1. drv \in Handles /\ Current = drv /\ Current # None
        BY <1>1, <3>2 DEF Current
      <4>2. m \in Requests /\ m.h = Current /\ m.kind = "surface"
        BY <4>1, Messages
      <4> HIDE DEF m
      <4>3. Added(m) /\ m.kind # "lock"
        BY <4>1, <4>2 DEF Added
      <4> QED
        BY <2>0, <3>1, <3>2, <4>2, <4>3
    <3>3. CASE ~covers
      <4>1. wire' = (wire \o StartRequests) \o <<>> /\ <<>> \in Seq(Requests) /\ DOMAIN <<>> = {}
        BY <3>1, <3>3
      <4> QED
        BY <4>1
    <3> QED
      BY <3>2, <3>3
  <2> QED
    BY <1>1, <2>1, <2>2
<1> PICK v : v = wire \o StartRequests
  OBVIOUS
<1>4. v \in Seq(Requests) /\ Continues(v, wire, StartRequests)
  BY <1>1, <1>2, Joins
<1>5. Continues(wire', v, more)
  BY <1>3, <1>4, Joins
<1>6. Len(wire) \in Nat /\ Len(v) \in Nat
  BY <1>1, <1>4
<1>7. \A i \in DOMAIN wire' : i \notin DOMAIN wire =>
        /\ Added(wire'[i]) /\ i \in Nat
        /\ wire'[i].kind = "lock" => i = Len(wire) + 1
  BY <1>2, <1>3, <1>4, <1>5 DEF Continues
<1>8. \A i \in DOMAIN wire' : i \notin DOMAIN wire => \A k \in DOMAIN wire : k < i
  <2> SUFFICES ASSUME NEW i \in DOMAIN wire', i \notin DOMAIN wire, NEW k \in DOMAIN wire
               PROVE  k < i
    OBVIOUS
  <2>1. CASE i \in DOMAIN v
    BY <1>4, <1>6, <2>1 DEF Continues
  <2>2. CASE i \notin DOMAIN v
    <3>1. k \in Nat /\ k <= Len(v) /\ i \in Nat /\ i > Len(v)
      BY <1>4, <1>5, <2>2 DEF Continues
    <3> QED
      BY <1>6, <3>1
  <2> QED
    BY <2>1, <2>2
<1>9. drv' \in {None, Current}
  BY <1>1 DEF End, Cover
<1> QED
  BY <1>4, <1>5, <1>7, <1>8, <1>9 DEF Continues

-----------------------------------------------------------------------------
(* What the compositor makes of the oldest request.                        *)
Freed(m) ==
  IF holder = m.h
    THEN \/ m.kind = "unlock" /\ holder' = None /\ clocked' = FALSE
         \/ m.kind = "destroy" /\ holder' = Orphaned /\ clocked' = clocked
    ELSE UNCHANGED <<holder, clocked>>

Serving(m) ==
  /\ m = Msg(m.kind, m.h) /\ m.h \in Handles
  /\ 1 \in DOMAIN wire /\ wire[1] = m
  /\ \A i \in DOMAIN wire' : i \in Nat /\ i >= 1 /\ i + 1 \in DOMAIN wire /\ wire'[i] = wire[i + 1]
  /\ UNCHANGED <<used, pending, drv, hlocked, hfinished, hunlock, told>>
  /\ \/ m.kind = "lock" /\ Accepted(m.h) /\ clocked' = clocked
     \/ m.kind = "lock" /\ Refused(m.h) /\ clocked' = clocked
     \/ m.kind = "sync" /\ Synced(m.h)
     \/ m.kind = "surface" /\ UNCHANGED <<compositorVars, events>>
     \/ m.kind \in {"unlock", "destroy"} /\ Freed(m) /\ UNCHANGED <<refusals, events>>

LEMMA ServesOne ==
  ASSUME LockTypeOK, Serve
  PROVE  \E m \in Requests : Serving(m)
<1> PICK m \in Requests :
      /\ m = Head(wire) /\ wire # <<>> /\ wire' = Tail(wire) /\ ~broken
      /\ UNCHANGED <<driverVars, handleVars>>
      /\ \/ m.kind = "lock" /\ Accepted(m.h)
         \/ m.kind = "lock" /\ Refused(m.h)
         \/ m.kind = "sync" /\ Synced(m.h)
         \/ m.kind = "surface" /\ UNCHANGED <<compositorVars, events>>
         \/ m.kind \in {"unlock", "destroy"} /\ Released(m.h)
  BY ServeSplits
<1>1. /\ 1 \in DOMAIN wire /\ wire[1] = m /\ m = Msg(m.kind, m.h) /\ m.h \in Handles
      /\ \A i \in DOMAIN wire' : i \in Nat /\ i + 1 \in DOMAIN wire /\ wire'[i] = wire[i + 1]
  BY Shorter, Messages DEF LockTypeOK
<1>2. \A i \in DOMAIN wire' : i >= 1
  BY Shorter DEF LockTypeOK
<1>3. Served(m)
  BY DEF Serve
<1>4. m.kind \in {"unlock", "destroy"} => Freed(m) /\ UNCHANGED <<refusals, events, told>>
  BY <1>3 DEF Served, Freed
<1>5. m.kind = "lock" => clocked' = clocked /\ told' = told
  BY <1>3 DEF Served
<1>6. told' = told
  BY <1>4, <1>5 DEF Synced, compositorVars
<1> QED
  BY <1>1, <1>2, <1>4, <1>5, <1>6 DEF Serving, driverVars, handleVars

(* What the driver makes of the oldest answer.                             *)
Reading(e) ==
  /\ e = Msg(e.kind, e.h) /\ e.h \in Handles
  /\ 1 \in DOMAIN events /\ events[1] = e
  /\ \A i \in DOMAIN events' : i + 1 \in DOMAIN events /\ events'[i] = events[i + 1]
  /\ UNCHANGED <<used, pending, drv, hunlock, holder, clocked, told, refusals, wire>>
  /\ \A h \in Handles : hlocked'[h] => hlocked[h] \/ (e = Msg("locked", h) /\ drv = h)
  /\ \A h \in Handles : hfinished'[h] => hfinished[h] \/ (e = Msg("finished", h) /\ drv = h)

LEMMA ReadsOne ==
  ASSUME LockTypeOK, Read
  PROVE  \E e \in Answers : Reading(e)
<1> PICK e \in Answers : e = Head(events) /\ e = Msg(e.kind, e.h) /\ e.h \in Handles
  BY Shorter, Messages DEF Read, LockTypeOK
<1>1. /\ 1 \in DOMAIN events /\ events[1] = e
      /\ \A i \in DOMAIN events' : i + 1 \in DOMAIN events /\ events'[i] = events[i + 1]
  BY Shorter DEF Read, LockTypeOK
<1>2. /\ hlocked' = [hlocked EXCEPT ![e.h] = @ \/ (e.kind = "locked" /\ drv = e.h)]
      /\ hfinished' = [hfinished EXCEPT ![e.h] = @ \/ (e.kind = "finished" /\ drv = e.h)]
      /\ UNCHANGED <<used, pending, drv, hunlock, holder, clocked, told, refusals, wire>>
  BY DEF Read, compositorVars
<1>3. hlocked \in [Handles -> BOOLEAN] /\ hfinished \in [Handles -> BOOLEAN]
  BY DEF LockTypeOK
<1>4. ASSUME NEW h \in Handles
      PROVE  /\ hlocked'[h] => hlocked[h] \/ (e.kind = "locked" /\ e.h = h /\ drv = h)
             /\ hfinished'[h] => hfinished[h] \/ (e.kind = "finished" /\ e.h = h /\ drv = h)
  BY <1>2, <1>3
<1>5. \A k, h : e.kind = k /\ e.h = h => e = Msg(k, h)
  OBVIOUS
<1> QED
  BY <1>1, <1>2, <1>4, <1>5 DEF Reading

(* A turn, as far as grants and handles go.                                *)
Turning ==
  /\ pending' = None
  /\ UNCHANGED <<used, hunlock, holder, clocked, told, refusals, events>>
  /\ \A h \in Handles : hlocked'[h] => hlocked[h] /\ (drv = h => drv' = h)
  /\ \A h \in Handles : hfinished'[h] => hfinished[h] \/ (h = pending /\ (drv # None \/ ~Managed))
  /\ Over /\ hlocked[Current] => hunlock[Current] \/ hfinished'[Current]

LEMMA TurnsOnce ==
  ASSUME LockTypeOK, Turn
  PROVE  Turning
<1>1. /\ pending' = None /\ hfinished' = Finished
      /\ UNCHANGED <<used, hunlock, holder, clocked, told, refusals, events>>
      /\ hlocked \in [Handles -> BOOLEAN] /\ hfinished \in [Handles -> BOOLEAN]
      /\ (End \/ Cover)
  BY DEF Turn, compositorVars, LockTypeOK
<1>2. \A h \in Handles : hfinished'[h] => hfinished[h] \/ (h = pending /\ (drv # None \/ ~Managed))
  BY <1>1 DEF Finished, Ignored, Starts
<1>3. Over => hunlock[Current] \/ hfinished'[Current]
  BY <1>1 DEF Over
<1>4. \A h \in Handles : hlocked'[h] => hlocked[h] /\ (drv = h => drv' = h)
  <2>1. drv # None => Current = drv
    BY DEF Current, Starts
  <2>2. None \notin Handles /\ drv \in Handles \cup {None}
    BY DEF None, Handles, LockTypeOK
  <2>3. CASE End
    <3>1. hlocked' = [hlocked EXCEPT ![Current] = FALSE]
      BY <2>3 DEF End
    <3> QED
      BY <1>1, <2>1, <2>2, <3>1
  <2>4. CASE Cover
    BY <2>1, <2>2, <2>4 DEF Cover
  <2> QED
    BY <1>1, <2>3, <2>4
<1> QED
  BY <1>1, <1>2, <1>3, <1>4 DEF Turning

-----------------------------------------------------------------------------
(* What is heard and asked for, over the steps of the driver's side.       *)
LEMMA LockFacts ==
  ASSUME LockTypeOK
  PROVE  /\ wire \in Seq(Requests) /\ events \in Seq(Answers)
         /\ told \subseteq Handles /\ refusals \subseteq Handles
         /\ drv \in Handles \cup {None} /\ pending \in Handles \cup {None}
         /\ holder \in Handles \cup {None, Dead}
         /\ None \notin Handles /\ Dead \notin Handles /\ None # Dead
         /\ \A h \in Handles : h \in Nat /\ h > None /\ h > Dead
         /\ None \in Int /\ Dead \in Int
BY DEF LockTypeOK, None, Dead, Handles

LEMMA AppendedAnswer ==
  ASSUME LockTypeOK, NEW k \in {"locked", "finished", "done"}, NEW h \in Handles,
         events' = Append(events, Msg(k, h))
  PROVE  \A i \in DOMAIN events' : (i \in DOMAIN events /\ events'[i] = events[i]) \/ events'[i] = Msg(k, h)
<1>1. events \in Seq(Answers) /\ Msg(k, h) \in Answers
  BY LockFacts, Messages
<1> QED
  BY <1>1, Appended

LEMMA HeardStep ==
  ASSUME LockTypeOK, Heard, [LockNext]_lockVars
  PROVE  Heard'
<1>1. CASE UNCHANGED <<hlocked, told, events, wire, clocked, holder>>
  BY <1>1 DEF Heard
<1>2. CASE Turn
  <2>1. Turning
    BY <1>2, TurnsOnce
  <2>2. \A i \in DOMAIN wire', h \in Handles : wire'[i] = Msg("unlock", h) => h \in told
    <3> SUFFICES ASSUME NEW i \in DOMAIN wire', NEW h \in Handles, wire'[i] = Msg("unlock", h)
                 PROVE  h \in told
      OBVIOUS
    <3>1. CASE i \in DOMAIN wire
      BY <1>2, <3>1, TurnAdds DEF Heard
    <3>2. CASE i \notin DOMAIN wire
      <4>1. Added(wire'[i])
        BY <1>2, <3>2, TurnAdds
      <4>2. wire'[i].kind = "unlock" /\ wire'[i].h = h
        BY Messages
      <4> QED
        BY <4>1, <4>2 DEF Added, Heard
    <3> QED
      BY <3>1, <3>2
  <2> QED
    BY <2>1, <2>2 DEF Turning, Heard
<1>3. CASE Read
  <2> PICK e \in Answers : Reading(e)
    BY <1>3, ReadsOne
  <2>1. \A h \in Handles : hlocked'[h] => h \in told
    BY DEF Reading, Heard
  <2>2. \A i \in DOMAIN events', h \in Handles : events'[i] = Msg("locked", h) => h \in told
    BY DEF Reading, Heard
  <2> QED
    BY <2>1, <2>2 DEF Reading, Heard
<1>4. CASE Serve
  <2> PICK m \in Requests : Serving(m)
    BY <1>4, ServesOne
  <2>1. \A i \in DOMAIN wire', h \in Handles : wire'[i] = Msg("unlock", h) => h \in told'
    BY DEF Serving, Heard
  <2>2. \A i \in DOMAIN events', h \in Handles : events'[i] = Msg("locked", h) => h \in told'
    <3>1. ASSUME NEW k \in {"finished", "done"}, events' = Append(events, Msg(k, m.h))
          PROVE  \A i \in DOMAIN events', h \in Handles : events'[i] = Msg("locked", h) => h \in told'
      <4>1. \A i \in DOMAIN events' : (i \in DOMAIN events /\ events'[i] = events[i]) \/ events'[i] = Msg(k, m.h)
        BY <3>1, AppendedAnswer DEF Serving
      <4>2. \A h : Msg(k, m.h) # Msg("locked", h)
        BY Messages
      <4> QED
        BY <4>1, <4>2 DEF Serving, Heard
    <3>2. events' = events \/ \E k \in {"finished", "done"} : events' = Append(events, Msg(k, m.h))
      BY DEF Serving, Accepted, Refused, Synced
    <3>3. events' = events => \A i \in DOMAIN events', h \in Handles : events'[i] = Msg("locked", h) => h \in told'
      BY DEF Serving, Heard
    <3> QED
      BY <3>1, <3>2, <3>3
  <2>3. clocked' => holder' # None
    BY LockFacts DEF Serving, Accepted, Refused, Synced, Freed, Orphaned, Heard, compositorVars
  <2>4. \A h \in Handles : hlocked'[h] => h \in told'
    BY DEF Serving, Heard
  <2> QED
    BY <2>1, <2>2, <2>3, <2>4 DEF Heard
<1>5. CASE Grant \/ TakeBack
  <2>1. /\ UNCHANGED <<hlocked, wire>> /\ told \subseteq told' /\ holder \in Handles /\ holder \in told'
        /\ (clocked' => holder' # None)
    BY <1>5, LockFacts DEF Grant, TakeBack, handleVars
  <2> PICK k \in {"locked", "finished"} : events' = Append(events, Msg(k, holder))
    BY <1>5 DEF Grant, TakeBack
  <2>2. \A i \in DOMAIN events' : (i \in DOMAIN events /\ events'[i] = events[i]) \/ events'[i] = Msg(k, holder)
    BY <2>1, AppendedAnswer
  <2>3. \A h : Msg(k, holder) = Msg("locked", h) => h = holder
    BY Messages
  <2>4. \A i \in DOMAIN events', h \in Handles : events'[i] = Msg("locked", h) => h \in told'
    BY <2>1, <2>2, <2>3 DEF Heard
  <2> QED
    BY <2>1, <2>4 DEF Heard
<1> QED
  BY <1>1, <1>2, <1>3, <1>4, <1>5 DEF LockNext, Ask, LockSession, GiveUp, Unlock, lockVars, driverVars, handleVars,
     compositorVars

LEMMA RisingStep ==
  ASSUME LockTypeOK, Known, Rising, [LockNext]_lockVars
  PROVE  Rising'
<1>0. /\ \A i \in DOMAIN wire : wire[i].h < used \/ pending = None
      /\ used \in Nat /\ (pending # None => pending = used)
  BY DEF Known, Old, LockTypeOK
<1>1. CASE UNCHANGED <<told, refusals, wire, drv, holder>>
  BY <1>1 DEF Rising
<1>2. CASE Turn
  <2>1. Turning
    BY <1>2, TurnsOnce
  <2>2. ASSUME NEW i \in DOMAIN wire', NEW g \in Handles, wire'[i] = Msg("lock", g), i \notin DOMAIN wire
        PROVE  g = pending /\ pending = used /\ pending # None /\ drv' \in {None, pending}
               /\ wire'[i].kind = "lock"
    <3>1. Added(wire'[i]) /\ drv' \in {None, Current}
      BY <1>2, <2>2, TurnAdds
    <3>2. wire'[i].kind = "lock" /\ wire'[i].h = g
      BY <2>2, Messages
    <3> QED
      BY <1>0, <3>1, <3>2 DEF Added, Starts, Current
  <2>3. ASSUME NEW i \in DOMAIN wire', NEW k \in DOMAIN wire', NEW g \in Handles, NEW h \in Handles,
               wire'[i] = Msg("lock", g), wire'[k] = Msg("lock", h), i < k
        PROVE  g < h
    <3>1. CASE i \in DOMAIN wire /\ k \in DOMAIN wire
      BY <1>2, <2>3, <3>1, TurnAdds DEF Rising
    <3>2. CASE i \in DOMAIN wire /\ k \notin DOMAIN wire
      <4>1. h = used /\ pending # None
        BY <2>2, <2>3, <3>2
      <4>2. wire[i] = Msg("lock", g)
        BY <1>2, <2>3, <3>2, TurnAdds
      <4>3. wire[i].h = g
        BY <4>2, Messages
      <4> QED
        BY <1>0, <3>2, <4>1, <4>3
    <3>3. CASE i \notin DOMAIN wire /\ k \in DOMAIN wire
      <4>1. k < i
        BY <1>2, <3>3, TurnAdds
      <4>2. i \in Nat /\ k \in Nat
        <5>1. wire' \in Seq(Requests)
          BY <1>2, TurnTypes DEF LockTypeOK
        <5> QED
          BY <5>1
      <4> QED
        BY <2>3, <4>1, <4>2
    <3>4. CASE i \notin DOMAIN wire /\ k \notin DOMAIN wire
      <4>1. i = k
        BY <1>2, <2>2, <2>3, <3>4, TurnAdds
      <4>2. wire' \in Seq(Requests)
        BY <1>2, TurnTypes DEF LockTypeOK
      <4>3. i \in Nat
        BY <4>2
      <4> QED
        BY <2>3, <4>1, <4>3
    <3> QED
      BY <3>1, <3>2, <3>3, <3>4
  <2>4. ASSUME NEW i \in DOMAIN wire', NEW g \in Handles, wire'[i] = Msg("lock", g)
        PROVE  g > holder /\ g \notin told \cup refusals /\ (drv' = None \/ g <= drv')
    <3>1. CASE i \in DOMAIN wire
      <4>1. wire[i] = Msg("lock", g)
        BY <1>2, <2>4, <3>1, TurnAdds
      <4>2. g > holder /\ g \notin told \cup refusals /\ (drv = None \/ g <= drv)
        BY <3>1, <4>1 DEF Rising
      <4>3. drv' = None \/ drv' = drv \/ (drv' = pending /\ pending = used /\ pending # None)
        BY <1>0, <1>2, TurnAdds DEF Current, Starts
      <4>4. wire[i].h = g
        BY <4>1, Messages
      <4>5. drv = None \/ drv' = drv \/ drv' = None
        BY <1>2, TurnAdds DEF Current, Starts
      <4>6. pending # None => g < used
        BY <1>0, <3>1, <4>4
      <4> QED
        BY <1>0, <4>2, <4>3, <4>5, <4>6, LockFacts
    <3>2. CASE i \notin DOMAIN wire
      <4>1. g = pending /\ pending = used /\ pending # None /\ drv' \in {None, pending}
        BY <2>2, <2>4, <3>2
      <4>2. holder \in Handles => holder \in 1 .. used /\ holder # pending
        BY DEF Known, Old
      <4>3. g > holder
        BY <1>0, <4>1, <4>2, LockFacts
      <4>4. g \notin told \cup refusals
        BY <4>1 DEF Known, Old
      <4> QED
        BY <1>0, <4>1, <4>3, <4>4
    <3> QED
      BY <3>1, <3>2
  <2> QED
    BY <2>1, <2>3, <2>4 DEF Turning, Rising
<1>3. CASE Read
  BY <1>1, <1>3, ReadsOne DEF Reading
<1>4. CASE Serve
  <2> PICK m \in Requests : Serving(m)
    BY <1>4, ServesOne
  <2>1. /\ \A i \in DOMAIN wire' : i \in Nat /\ i >= 1 /\ i + 1 \in DOMAIN wire /\ wire'[i] = wire[i + 1]
        /\ 1 \in DOMAIN wire /\ wire[1] = m /\ m = Msg(m.kind, m.h) /\ m.h \in Handles
        /\ drv' = drv /\ told' = told
    BY DEF Serving
  <2>2. ASSUME NEW i \in DOMAIN wire', NEW k \in DOMAIN wire', NEW g \in Handles, NEW h \in Handles,
               wire'[i] = Msg("lock", g), wire'[k] = Msg("lock", h), i < k
        PROVE  g < h
    <3>1. i + 1 < k + 1 /\ i + 1 \in DOMAIN wire /\ k + 1 \in DOMAIN wire
      BY <2>1, <2>2
    <3> QED
      BY <2>1, <2>2, <3>1 DEF Rising
  <2>3. ASSUME NEW i \in DOMAIN wire', NEW g \in Handles, wire'[i] = Msg("lock", g)
        PROVE  g > holder' /\ g \notin told' \cup refusals' /\ (drv' = None \/ g <= drv')
    <3>1. i + 1 \in DOMAIN wire /\ wire[i + 1] = Msg("lock", g) /\ 1 < i + 1
      BY <2>1, <2>3
    <3>2. g > holder /\ g \notin told \cup refusals /\ (drv = None \/ g <= drv)
      BY <3>1 DEF Rising
    <3>3. m.kind = "lock" => m.h < g
      BY <2>1, <3>1 DEF Rising
    <3>4. \/ holder' = m.h /\ m.kind = "lock"
          \/ holder' \in {holder, None, Dead}
      BY DEF Serving, Accepted, Refused, Synced, Freed, Orphaned, compositorVars
    <3>5. refusals' \subseteq refusals \/ (m.kind = "lock" /\ refusals' = refusals \cup {m.h})
      BY DEF Serving, Accepted, Refused, Synced, compositorVars
    <3>6. g > holder'
      BY <2>1, <3>2, <3>3, <3>4, LockFacts
    <3>7. m.kind = "lock" => m.h # g
      BY <2>1, <3>3, LockFacts
    <3> QED
      BY <2>1, <3>2, <3>5, <3>6, <3>7
  <2> QED
    BY <2>2, <2>3 DEF Rising
<1>5. CASE Grant \/ TakeBack
  <2>1. /\ UNCHANGED <<wire, drv, refusals>> /\ holder' \in {holder, None} /\ told' \subseteq told \cup {holder}
        /\ holder \in Handles
    BY <1>5, LockFacts DEF Grant, TakeBack, driverVars
  <2>2. ASSUME NEW i \in DOMAIN wire, NEW g \in Handles, wire[i] = Msg("lock", g)
        PROVE  g > holder' /\ g \notin told' \cup refusals
    <3>1. g > holder /\ g \notin told \cup refusals
      BY <2>2 DEF Rising
    <3> QED
      BY <2>1, <3>1, LockFacts
  <2> QED
    BY <2>1, <2>2 DEF Rising
<1> QED
  BY <1>1, <1>2, <1>3, <1>4, <1>5 DEF LockNext, Ask, GiveUp, lockVars, driverVars, compositorVars

(* A step never brings a lock back into play.                              *)
LEMMA PlayTurn ==
  ASSUME LockTypeOK, Known, Turn
  PROVE  /\ \A h \in Handles : InPlay(h)' => InPlay(h)
         /\ \A h \in Handles : InPlay(h)' => h # pending \/ Starts
<1>1. Turning /\ drv' \in {None, Current}
  BY TurnsOnce, TurnAdds
<1>2. ASSUME NEW h \in Handles, NEW i \in DOMAIN wire', wire'[i] = Msg("lock", h)
      PROVE  InFlight(wire, Msg("lock", h)) \/ (h = pending /\ Starts)
  <2>1. CASE i \in DOMAIN wire
    BY <1>2, <2>1, TurnAdds DEF InFlight
  <2>2. CASE i \notin DOMAIN wire
    <3>1. Added(wire'[i]) /\ wire'[i].kind = "lock" /\ wire'[i].h = h
      BY <1>2, <2>2, TurnAdds, Messages
    <3> QED
      BY <3>1 DEF Added, Current
  <2> QED
    BY <2>1, <2>2
<1>3. \A h \in Handles : InFlight(wire, Msg("lock", h)) => h # pending
  BY Messages DEF InFlight, Known, Old
<1>4. None \notin Handles /\ (holder \in Handles => holder # pending) /\ (pending = None \/ pending # drv)
  BY LockFacts DEF Known, Old, LockTypeOK
<1>5. ASSUME NEW h \in Handles, InPlay(h)'
      PROVE  \/ h = holder \/ (h = drv' /\ h = Current)
             \/ InFlight(wire, Msg("lock", h)) \/ (h = pending /\ Starts)
  <2>1. holder' = holder /\ pending' = None
    BY <1>1 DEF Turning
  <2>2. CASE \E i \in DOMAIN wire' : wire'[i] = Msg("lock", h)
    BY <1>2, <2>2
  <2> QED
    BY <1>1, <1>4, <1>5, <2>1, <2>2 DEF InPlay, InFlight
<1>6. Current = drv \/ (Current = pending /\ Starts)
  BY DEF Current
<1> QED
  BY <1>3, <1>4, <1>5, <1>6 DEF InPlay

LEMMA PlayServe ==
  ASSUME LockTypeOK, NEW m, Serving(m)
  PROVE  \A h \in Handles : InPlay(h)' => InPlay(h)
<1>1. \A h \in Handles : InFlight(wire, Msg("lock", h))' => InFlight(wire, Msg("lock", h))
  BY DEF Serving, InFlight
<1>2. \A h \in Handles : m = Msg("lock", h) => InFlight(wire, Msg("lock", h))
  BY DEF Serving, InFlight
<1>3. (m.kind = "lock" /\ holder' = m.h) \/ holder' \in {holder, None, Dead}
  BY DEF Serving, Accepted, Refused, Synced, Freed, Orphaned, compositorVars
<1>4. drv' = drv /\ pending' = pending /\ m = Msg(m.kind, m.h)
  BY DEF Serving
<1> QED
  BY <1>1, <1>2, <1>3, <1>4, LockFacts DEF InPlay

LEMMA GrantsStep ==
  ASSUME ~MayTakeBack, LockTypeOK, Known, drv # None => NotReleased,
         \A h \in Handles : hfinished[h] => h <= used,
         Heard, Rising, GrantsLast, [LockNext]_lockVars
  PROVE  GrantsLast'
<1>0. /\ holder \notin refusals
      /\ \A h \in told : h \notin refusals /\ ~hfinished[h]
      /\ \A h \in Handles : hfinished[h] /\ InPlay(h) => h \in refusals
      /\ \A i \in DOMAIN events, h \in Handles : events[i] = Msg("finished", h) => h \in refusals
      /\ \A i \in DOMAIN wire, h \in Handles : wire[i] = Msg("unlock", h) => hunlock[h]
      /\ drv \in told => holder = drv /\ clocked
      /\ \A h \in Handles : InPlay(h) <=> h \in {holder, drv, pending} \/ InFlight(wire, Msg("lock", h))
  BY DEF GrantsLast, InPlay
<1>1. CASE Ask
  <2>1. /\ UNCHANGED <<holder, refusals, told, events, wire, hunlock, drv, clocked>>
        /\ pending' = used + 1
        /\ hfinished' = IF pending = None THEN hfinished ELSE [hfinished EXCEPT ![pending] = TRUE]
    BY <1>1 DEF Ask, LockSession, compositorVars
  <2>2. \A h \in Handles : hfinished'[h] => hfinished[h] \/ h = pending
    BY <2>1 DEF LockTypeOK
  <2>3. /\ \A h \in Handles : InFlight(wire, Msg("lock", h)) => h # pending
        /\ (holder \in Handles => holder # pending) /\ (pending # None => pending # drv)
        /\ \A h \in told : h # pending
    BY Messages DEF InFlight, Known, Old, LockTypeOK
  <2>4. ASSUME NEW h \in Handles, hfinished'[h], InPlay(h)'
        PROVE  h \in refusals
    <3>1. h \in {holder, drv, used + 1} \/ InFlight(wire, Msg("lock", h))
      BY <2>1, <2>4 DEF InPlay, InFlight
    <3>2. h # pending
      <4>1. pending = used \/ pending = None
        BY DEF Known
      <4>2. used \in Nat /\ used + 1 # used
        BY DEF LockTypeOK
      <4> QED
        BY <2>3, <3>1, <4>1, <4>2, LockFacts
    <3>3. hfinished[h]
      BY <2>2, <2>4, <3>2
    <3>4. CASE h # used + 1
      BY <1>0, <3>1, <3>3, <3>4
    <3>5. h # used + 1
      <4>1. used \in Nat /\ h <= used
        BY <3>3 DEF LockTypeOK
      <4> QED
        BY <4>1
    <3> QED
      BY <3>4, <3>5
  <2> QED
    BY <1>0, <2>1, <2>2, <2>3, <2>4, LockFacts DEF GrantsLast
<1>2. CASE UNCHANGED <<holder, refusals, told, hfinished, events, wire, drv, pending, clocked>>
           /\ \A h \in Handles : hunlock[h] => hunlock'[h]
  BY <1>0, <1>2 DEF GrantsLast, InPlay, InFlight
<1>3. CASE Turn
  <2>1. Turning /\ drv' \in {None, Current}
    BY <1>3, TurnsOnce, TurnAdds
  <2>2. \A h \in told : h # pending
    BY DEF Known, Old
  <2>3. \A h \in Handles : hfinished'[h] => hfinished[h] \/ (h = pending /\ (drv # None \/ ~Managed))
    BY <2>1 DEF Turning
  <2>4. \A h \in told : h \notin refusals /\ ~hfinished'[h]
    BY <1>0, <2>2, <2>3, LockFacts
  <2>5. \A h \in Handles : hfinished'[h] /\ InPlay(h)' => h \in refusals
    BY <1>0, <1>3, <2>3, PlayTurn DEF Starts
  <2>6. ASSUME NEW i \in DOMAIN wire', NEW h \in Handles, wire'[i] = Msg("unlock", h)
        PROVE  hunlock[h]
    <3>1. CASE i \in DOMAIN wire
      BY <1>0, <1>3, <2>6, <3>1, TurnAdds
    <3>2. CASE i \notin DOMAIN wire
      <4>1. Added(wire'[i]) /\ wire'[i].kind = "unlock" /\ wire'[i].h = h
        BY <1>3, <2>6, <3>2, TurnAdds, Messages
      <4>2. Over /\ hlocked[Current] /\ h = Current
        BY <4>1 DEF Added
      <4>3. h \in told
        BY <4>2 DEF Heard
      <4> QED
        BY <2>1, <2>4, <4>2, <4>3 DEF Turning
    <3> QED
      BY <3>1, <3>2
  <2>7. drv' \in told => holder = drv' /\ clocked
    <3>1. Current = drv \/ Current = pending
      BY DEF Current
    <3> QED
      BY <1>0, <2>1, <2>2, <3>1, LockFacts
  <2> QED
    BY <1>0, <2>1, <2>4, <2>5, <2>6, <2>7 DEF Turning, GrantsLast
<1>4. CASE Read
  <2> PICK e \in Answers : Reading(e)
    BY <1>4, ReadsOne
  <2>1. \A h \in Handles : hfinished'[h] => hfinished[h] \/ h \in refusals
    BY <1>0 DEF Reading
  <2>2. \A i \in DOMAIN events', h \in Handles : events'[i] = Msg("finished", h) => h \in refusals
    BY <1>0 DEF Reading
  <2>3. \A h \in Handles : InPlay(h)' <=> InPlay(h)
    BY DEF Reading, InPlay, InFlight
  <2>4. UNCHANGED <<hunlock, holder, clocked, told, refusals, wire, drv>>
    BY DEF Reading
  <2> QED
    BY <1>0, <2>1, <2>2, <2>3, <2>4, LockFacts DEF GrantsLast
<1>5. CASE Serve
  <2> PICK m \in Requests : Serving(m)
    BY <1>5, ServesOne
  <2>1. /\ UNCHANGED <<drv, pending, hfinished, hunlock, told>>
        /\ m = Msg(m.kind, m.h) /\ m.h \in Handles /\ 1 \in DOMAIN wire /\ wire[1] = m
        /\ \A i \in DOMAIN wire', h \in Handles : wire'[i] = Msg("unlock", h) => hunlock[h]
    BY <1>0 DEF Serving
  <2>2. m.kind = "lock" => m.h > holder /\ m.h \notin told \cup refusals
    BY <2>1 DEF Rising
  <2>3. \A h \in Handles : InPlay(h)' => InPlay(h)
    BY PlayServe
  <2>4. refusals' = refusals \/ (m.kind = "lock" /\ refusals' = refusals \cup {m.h} /\ holder' = holder)
    BY DEF Serving, Accepted, Refused, Synced, compositorVars
  <2>5. holder' \notin refusals'
    <3>1. (m.kind = "lock" /\ holder' = m.h /\ refusals' = refusals) \/ holder' \in {holder, None, Dead}
      BY DEF Serving, Accepted, Refused, Synced, Freed, Orphaned, compositorVars
    <3> QED
      BY <1>0, <2>1, <2>2, <2>4, <3>1, LockFacts
  <2>6. \A i \in DOMAIN events', h \in Handles : events'[i] = Msg("finished", h) => h \in refusals'
    <3>1. ASSUME NEW k \in {"finished", "done"}, events' = Append(events, Msg(k, m.h)),
                 k = "finished" => m.h \in refusals'
          PROVE  \A i \in DOMAIN events', h \in Handles : events'[i] = Msg("finished", h) => h \in refusals'
      <4>1. \A i \in DOMAIN events' : (i \in DOMAIN events /\ events'[i] = events[i]) \/ events'[i] = Msg(k, m.h)
        BY <2>1, <3>1, AppendedAnswer
      <4>2. \A h : Msg(k, m.h) = Msg("finished", h) => k = "finished" /\ h = m.h
        BY Messages
      <4> QED
        BY <1>0, <2>4, <3>1, <4>1, <4>2
    <3>2. \/ events' = events
          \/ events' = Append(events, Msg("finished", m.h)) /\ m.h \in refusals'
          \/ events' = Append(events, Msg("done", m.h))
      BY DEF Serving, Accepted, Refused, Synced
    <3> QED
      BY <1>0, <2>4, <3>1, <3>2
  <2>7. ASSUME drv \in told
        PROVE  holder' = drv /\ clocked'
    <3>1. holder = drv /\ clocked /\ drv \in Handles /\ drv # None
      BY <1>0, <2>7, LockFacts
    <3>2. m.kind \in {"unlock", "destroy"} => m.h # drv
      BY <2>1, <3>1 DEF NotReleased, Releases
    <3> QED
      BY <3>1, <3>2 DEF Serving, Accepted, Refused, Synced, Freed, compositorVars
  <2>8. \A h \in told : h \notin refusals' /\ ~hfinished[h]
    BY <1>0, <2>2, <2>4
  <2>9. \A h \in Handles : hfinished[h] /\ InPlay(h)' => h \in refusals'
    BY <1>0, <2>3, <2>4
  <2> QED
    BY <2>1, <2>5, <2>6, <2>7, <2>8, <2>9 DEF GrantsLast
<1>6. CASE Grant
  <2>1. /\ UNCHANGED <<drv, pending, hfinished, hunlock, holder, refusals, wire>>
        /\ told' = told \cup {holder} /\ clocked' = TRUE /\ holder \in Handles
        /\ events' = Append(events, Msg("locked", holder))
    BY <1>6 DEF Grant, driverVars, handleVars
  <2>2. \A i \in DOMAIN events' : (i \in DOMAIN events /\ events'[i] = events[i]) \/ events'[i] = Msg("locked", holder)
    BY <2>1, AppendedAnswer
  <2>3. \A h : Msg("locked", holder) # Msg("finished", h)
    BY Messages
  <2>4. ~hfinished[holder]
    BY <1>0, <2>1
  <2>5. \A h \in Handles : InPlay(h)' <=> InPlay(h)
    BY <2>1 DEF InPlay, InFlight
  <2> QED
    BY <1>0, <2>1, <2>2, <2>3, <2>4, <2>5 DEF GrantsLast
<1>7. ~TakeBack
  BY DEF TakeBack
<1>8. ASSUME NEW g \in Handles, GiveUp(g)
      PROVE  \A h \in Handles : hunlock[h] => hunlock'[h]
  BY <1>8 DEF GiveUp, Unlock, LockTypeOK
<1> QED
  BY <1>1, <1>2, <1>3, <1>4, <1>5, <1>6, <1>7, <1>8 DEF LockNext, GiveUp, lockVars, driverVars, handleVars,
     compositorVars

-----------------------------------------------------------------------------
(* The same over deaths and starts, of either side.                        *)
LEMMA StraySteps ==
  ASSUME HangUp \/ Clear
  PROVE  /\ UNCHANGED <<pending, drv, used, hlocked, hfinished, hunlock, told, refusals, wire, events,
                        marker, session, holding, origin, up>>
         /\ \/ ~up /\ wire = <<>> /\ holder \in Handles /\ holder' = Orphaned /\ clocked' = clocked
            \/ MayClear /\ (up => MayClearLate) /\ holder = Dead /\ holder' = None /\ clocked' = FALSE
BY DEF HangUp, Clear, driverVars, handleVars, worldVars, holdVars

LEMMA Sequenced == \A S : \A s \in Seq(S) : s = <<>> => DOMAIN s = {}
OBVIOUS

LEMMA StartedSteps ==
  ASSUME SInv, Started
  PROVE  /\ wire' = wire /\ DOMAIN wire = {} /\ events' = <<>>
         /\ UNCHANGED <<hlocked, hfinished, hunlock, drv, holder, clocked, told, refusals, session>>
         /\ drv = None /\ holding = None /\ pending = None /\ holder \notin Handles
         /\ \/ /\ marker = session /\ clocked /\ used < MaxLocks /\ used' = used + 1
               /\ pending' = used + 1 /\ holding' = used + 1 /\ UNCHANGED marker
            \/ UNCHANGED <<holding, origin, pending>> /\ marker' \in {0, marker}
<1>1. /\ ~up /\ wire = <<>> /\ wire' = wire /\ events' = <<>> /\ holder \notin Handles
      /\ UNCHANGED <<hlocked, hunlock, drv, holder, clocked, told, refusals, session>>
  BY DEF Started, compositorVars
<1>2. drv = None /\ holding = None /\ pending = None
  BY <1>1 DEF SInv, TypeOK, Made
<1>3. DOMAIN wire = {}
  BY <1>1
<1>4. CASE LockSession /\ marker = session /\ clocked /\ holding' = used + 1 /\ UNCHANGED marker
  <2>1. /\ used < MaxLocks /\ used' = used + 1 /\ pending' = used + 1 /\ hfinished' = hfinished
    BY <1>2, <1>4 DEF LockSession
  <2> QED
    BY <1>1, <1>2, <1>3, <1>4, <2>1
<1>5. CASE UNCHANGED <<holdVars, pending, handleVars>> /\ marker' \in {0, marker}
  BY <1>1, <1>2, <1>3, <1>5 DEF holdVars, handleVars
<1> QED
  BY <1>4, <1>5 DEF Started

LEMMA HeardNext == SInv /\ Heard /\ [Next]_vars => Heard'
<1> SUFFICES ASSUME SInv, Heard, [Next]_vars PROVE Heard'
  OBVIOUS
<1>0. LockTypeOK /\ DOMAIN <<>> = {}
  BY DEF SInv, TypeOK
<1>1. CASE Apart \/ OnState \/ Turns \/ UNCHANGED vars
  <2>1. [LockNext]_lockVars
    BY <1>1, AliveSteps DEF vars
  <2> QED
    BY <1>0, <2>1, HeardStep
<1>2. CASE Perished
  <2>1. /\ events' = <<>> /\ wire' \in {wire, <<>>} /\ UNCHANGED <<hlocked, told>>
        /\ ((holder' = holder /\ clocked' = clocked) \/ clocked' = FALSE)
    BY <1>2 DEF Perished, handleVars
  <2>2. \A i \in DOMAIN wire', h \in Handles : wire'[i] = Msg("unlock", h) => h \in told
    BY <1>0, <2>1 DEF Heard
  <2>3. \A i \in DOMAIN events' : FALSE
    BY <1>0, <2>1
  <2> QED
    BY <2>1, <2>2, <2>3 DEF Heard
<1>3. CASE HangUp \/ Clear
  <2>1. UNCHANGED <<hlocked, told, wire, events>>
    BY <1>3, StraySteps
  <2>2. clocked' => holder' # None
    BY <1>0, <1>3, StraySteps, LockFacts DEF Orphaned
  <2> QED
    BY <2>1, <2>2 DEF Heard
<1>4. CASE Started
  <2>1. \A i \in DOMAIN events' : FALSE
    BY <1>0, <1>4, StartedSteps
  <2> QED
    BY <1>4, <2>1, StartedSteps DEF Heard
<1> QED
  BY <1>1, <1>2, <1>3, <1>4, NextSplits, DeathPerishes, BootStarts

LEMMA RisingNext == SInv /\ Rising /\ [Next]_vars => Rising'
<1> SUFFICES ASSUME SInv, Rising, [Next]_vars PROVE Rising'
  OBVIOUS
<1>0. LockTypeOK /\ Known /\ DOMAIN <<>> = {}
  BY DEF SInv, TypeOK
<1>1. CASE Apart \/ OnState \/ Turns \/ UNCHANGED vars
  <2>1. [LockNext]_lockVars
    BY <1>1, AliveSteps DEF vars
  <2> QED
    BY <1>0, <2>1, RisingStep
<1>2. CASE Perished
  <2>1. wire' \in {wire, <<>>} /\ UNCHANGED <<told, refusals>> /\ drv' = None /\ holder' \in {holder, None}
    BY <1>2 DEF Perished
  <2>2. CASE wire' = wire
    BY <2>1, <2>2, LockFacts, <1>0 DEF Rising
  <2>3. CASE wire' = <<>>
    <3>1. \A i \in DOMAIN wire' : FALSE
      BY <1>0, <2>3
    <3> QED
      BY <3>1 DEF Rising
  <2> QED
    BY <2>1, <2>2, <2>3
<1>3. CASE HangUp \/ Clear
  <2>1. /\ UNCHANGED <<told, refusals, wire, drv>> /\ holder' \in {None, Dead}
    BY <1>3, StraySteps DEF Orphaned
  <2>2. \A g \in Handles : g > holder'
    BY <1>0, <2>1, LockFacts
  <2> QED
    BY <2>1, <2>2 DEF Rising
<1>4. CASE Started
  <2>1. \A i \in DOMAIN wire' : FALSE
    BY <1>4, StartedSteps
  <2> QED
    BY <2>1 DEF Rising
<1> QED
  BY <1>1, <1>2, <1>3, <1>4, NextSplits, DeathPerishes, BootStarts

(* What the shell's own steps make of the lock it holds and of the record. *)
LEMMA ShellSteps ==
  ASSUME SInv, Apart \/ OnState \/ Turns
  PROVE  /\ session' = session /\ session # 0
         /\ UNCHANGED <<holding, origin>> \/ holding' = None \/ Take("Requested")
         /\ \/ marker' = marker /\ (hunlock' = hunlock \/ MayFailRecord)
            \/ marker' = 0
            \/ marker' = session /\ UNCHANGED lockVars /\ holding # None /\ hlocked[holding]
<1>0. session # 0
  BY DEF SInv, TypeOK
<1>1. CASE Apart
  <2>1. UNCHANGED <<lockVars, session>>
    BY <1>1, ApartKeeps
  <2>2. CASE Tick
    BY <1>0, <2>1, <2>2 DEF Tick, TickIdle, TickGranted, TickEnded, Forgets, worldVars, lockVars, handleVars
  <2>3. CASE ~Tick
    <3>1. UNCHANGED <<holdVars, worldVars>>
      BY <1>1, <2>3 DEF Apart, Listen, Consider, Write, Remark, PrepareForSleep, SleepLocks, Sleep, Resume,
         worldVars
    <3> QED
      BY <1>0, <2>1, <3>1 DEF holdVars, worldVars, lockVars, handleVars
  <2> QED
    BY <2>2, <2>3
<1>2. CASE OnState
  <2>1. session' = session
    BY <1>2 DEF OnState
  <2>2. CASE Take("Requested") /\ UNCHANGED <<marker, events>>
    BY <1>0, <2>1, <2>2 DEF Take
  <2>3. CASE Release(Tail(queue)) /\ holding # None
    BY <1>0, <2>1, <2>3 DEF Release, Forgets
  <2>4. CASE UNCHANGED <<holdVars, marker, lockVars>>
    BY <1>0, <2>1, <2>4 DEF holdVars, lockVars, handleVars
  <2> QED
    BY <1>2, <2>2, <2>3, <2>4, OnStateSplits
<1>3. CASE Turns
  <2>1. UNCHANGED <<holding, origin, marker, session>>
    BY <1>3 DEF Turns, DriverTurn, DriverRead, Serves, Grants, TakesBack, shellVars, holdVars, worldVars
  <2>2. hunlock' = hunlock
    BY <1>3 DEF Turns, DriverTurn, DriverRead, Serves, Grants, TakesBack, Turn, Read, Serve, Grant, TakeBack,
       handleVars
  <2> QED
    BY <1>0, <2>1, <2>2
<1> QED
  BY <1>1, <1>2, <1>3

LEMMA TakeSteps ==
  ASSUME SInv, Take("Requested")
  PROVE  /\ holding' = used + 1 /\ origin' = "Requested" /\ used' = used + 1 /\ pending' = used + 1
         /\ used + 1 \in Handles /\ used \in Nat
         /\ ~hlocked[used + 1] /\ ~hfinished[used + 1] /\ ~hunlock[used + 1]
         /\ UNCHANGED <<drv, hlocked, hunlock, holder, clocked, told, refusals, wire>>
<1>1. /\ used \in Nat /\ used < MaxLocks /\ holding' = used + 1 /\ origin' = "Requested"
      /\ used' = used + 1 /\ pending' = used + 1
      /\ UNCHANGED <<drv, hlocked, hunlock, holder, clocked, told, refusals, wire>>
  BY DEF Take, LockSession, compositorVars, SInv, TypeOK, LockTypeOK
<1>2. used + 1 \in Handles
  BY <1>1, LockDriverAssumption DEF Handles
<1>3. ~(used + 1 <= used)
  BY <1>1
<1> QED
  BY <1>1, <1>2, <1>3 DEF SInv, Made

LEMMA HeldIsUpNext == SInv /\ HeldIsUp /\ [Next]_vars => HeldIsUp'
<1> SUFFICES ASSUME SInv, HeldIsUp, [Next]_vars PROVE HeldIsUp'
  OBVIOUS
<1>0. LockTypeOK /\ holding \in Handles \cup {None}
  BY DEF SInv, TypeOK
<1>1. CASE holding' = None
  BY <1>1 DEF HeldIsUp
<1>2. CASE UNCHANGED <<holding, hlocked, drv>>
  BY <1>2 DEF HeldIsUp
<1>3. CASE Apart \/ OnState \/ Turns
  <2>1. CASE Take("Requested")
    BY <2>1, TakeSteps DEF HeldIsUp
  <2>2. CASE UNCHANGED holding
    <3>1. CASE Turn
      <4>1. Turning
        BY <1>0, <3>1, TurnsOnce
      <4> QED
        BY <1>0, <2>2, <4>1 DEF HeldIsUp, Turning
    <3>2. CASE Read
      <4> PICK e \in Answers : Reading(e)
        BY <1>0, <3>2, ReadsOne
      <4> QED
        BY <1>0, <2>2 DEF HeldIsUp, Reading
    <3>3. CASE ~Turn /\ ~Read
      <4>1. UNCHANGED <<hlocked, drv>>
        BY <1>3, <3>3, AliveSteps DEF LockNext, Ask, GiveUp, Serve, Grant, TakeBack, lockVars, driverVars,
           handleVars
      <4> QED
        BY <1>2, <2>2, <4>1
    <3> QED
      BY <3>1, <3>2, <3>3
  <2> QED
    BY <1>1, <1>3, <2>1, <2>2, ShellSteps
<1>4. CASE Perished
  BY <1>1, <1>4 DEF Perished
<1>5. CASE HangUp \/ Clear
  BY <1>2, <1>5, StraySteps
<1>6. CASE Started
  <2>1. /\ UNCHANGED <<hlocked, drv>> /\ ((holding' = used + 1 /\ used < MaxLocks) \/ holding' = holding)
    BY <1>6, StartedSteps
  <2>2. CASE holding' = used + 1 /\ used < MaxLocks
    <3>1. used + 1 \in Handles /\ ~(used + 1 <= used)
      BY <1>0, <2>2, LockDriverAssumption DEF LockTypeOK, Handles
    <3>2. ~hlocked[used + 1]
      BY <3>1 DEF SInv, Made
    <3> QED
      BY <2>1, <2>2, <3>2 DEF HeldIsUp
  <2> QED
    BY <1>2, <2>1, <2>2
<1>7. CASE UNCHANGED vars
  BY <1>2, <1>7 DEF vars, holdVars, lockVars, driverVars, handleVars
<1> QED
  BY <1>3, <1>4, <1>5, <1>6, <1>7, NextSplits, DeathPerishes, BootStarts

LEMMA GrantsLastNext == ~MayTakeBack => (SInv /\ Heard /\ Rising /\ GrantsLast /\ [Next]_vars => GrantsLast')
<1> SUFFICES ASSUME ~MayTakeBack, SInv, Heard, Rising, GrantsLast, [Next]_vars PROVE GrantsLast'
  OBVIOUS
<1>0. /\ LockTypeOK /\ Known /\ (drv # None => NotReleased)
      /\ \A h \in Handles : hfinished[h] => h <= used
      /\ DOMAIN <<>> = {}
  BY DEF SInv, TypeOK, Orderly, Made
<1>00. /\ holder \notin refusals
       /\ \A h \in told : h \notin refusals /\ ~hfinished[h]
       /\ \A h \in Handles : hfinished[h] /\ InPlay(h) => h \in refusals
       /\ \A i \in DOMAIN events, h \in Handles : events[i] = Msg("finished", h) => h \in refusals
       /\ \A i \in DOMAIN wire, h \in Handles : wire[i] = Msg("unlock", h) => hunlock[h]
  BY DEF GrantsLast
<1>1. CASE Apart \/ OnState \/ Turns \/ UNCHANGED vars
  <2>1. [LockNext]_lockVars
    BY <1>1, AliveSteps DEF vars
  <2> QED
    BY <1>0, <2>1, GrantsStep
<1>2. CASE Perished
  <2>1. /\ UNCHANGED <<hfinished, hunlock, told, refusals>> /\ drv' = None /\ pending' = None
        /\ wire' \in {wire, <<>>} /\ events' = <<>> /\ holder' \in {holder, None}
    BY <1>2 DEF Perished, handleVars
  <2>2. \A h \in Handles : InPlay(h)' => InPlay(h)
    BY <1>0, <2>1, LockFacts DEF InPlay, InFlight
  <2>3. \A i \in DOMAIN wire', h \in Handles : wire'[i] = Msg("unlock", h) => hunlock[h]
    BY <1>0, <1>00, <2>1
  <2>4. (\A i \in DOMAIN events' : FALSE) /\ holder' \notin refusals /\ drv' \notin told
    BY <1>0, <1>00, <2>1, LockFacts
  <2> QED
    BY <1>00, <2>1, <2>2, <2>3, <2>4 DEF GrantsLast
<1>3. CASE HangUp \/ Clear
  <2>1. /\ UNCHANGED <<hfinished, hunlock, told, refusals, wire, events, drv, pending>> /\ holder' \in {None, Dead}
        /\ ~up \/ holder = Dead
    BY <1>3, StraySteps DEF Orphaned
  <2>2. \A h \in Handles : InPlay(h)' => InPlay(h)
    BY <1>0, <2>1, LockFacts DEF InPlay, InFlight
  <2>3. holder' \notin refusals
    BY <1>0, <2>1, LockFacts
  <2>4. drv \notin told
    <3>1. ~up => drv = None
      BY DEF SInv, TypeOK
    <3>2. drv \in told => holder = drv
      BY DEF GrantsLast
    <3> QED
      BY <1>0, <2>1, <3>1, <3>2, LockFacts
  <2> QED
    BY <1>00, <2>1, <2>2, <2>3, <2>4 DEF GrantsLast
<1>4. CASE Started
  <2>1. /\ DOMAIN wire' = {} /\ events' = <<>> /\ drv' = None /\ holder' = holder
        /\ UNCHANGED <<hfinished, hunlock, told, refusals>> /\ holder \notin Handles
        /\ pending' \in {None, used + 1}
    BY <1>4, StartedSteps
  <2>2. \A h \in Handles : hfinished[h] => h # used + 1
    BY <1>0 DEF LockTypeOK, Handles
  <2>3. \A h \in Handles : InPlay(h)' => h = used + 1
    BY <1>0, <2>1, LockFacts DEF InPlay, InFlight
  <2>4. drv' \notin told /\ \A i \in DOMAIN events' : FALSE
    BY <1>0, <2>1, LockFacts
  <2> QED
    BY <1>00, <2>1, <2>2, <2>3, <2>4 DEF GrantsLast
<1> QED
  BY <1>1, <1>2, <1>3, <1>4, NextSplits, DeathPerishes, BootStarts

-----------------------------------------------------------------------------
(* A record of this session is of a locked one.                            *)
Wanting == clocked /\ \A h \in Handles : InPlay(h) => ~hunlock[h]

LEMMA WantingStep ==
  ASSUME LockTypeOK, Known, GrantsLast, ~MayTakeBack, Wanting, Turn \/ Read \/ Serve \/ Grant \/ TakeBack
  PROVE  Wanting'
<1>1. CASE Turn
  BY <1>1, TurnsOnce, PlayTurn DEF Turning, Wanting
<1>2. CASE Read
  <2> PICK e \in Answers : Reading(e)
    BY <1>2, ReadsOne
  <2>1. \A h \in Handles : InPlay(h)' => InPlay(h)
    BY DEF Reading, InPlay, InFlight
  <2> QED
    BY <2>1 DEF Reading, Wanting
<1>3. CASE Serve
  <2> PICK m \in Requests : Serving(m)
    BY <1>3, ServesOne
  <2>1. \A h \in Handles : InPlay(h)' => InPlay(h)
    BY PlayServe
  <2>2. m.kind = "unlock" => holder # m.h
    <3>1. m.kind = "unlock" => hunlock[m.h]
      BY DEF Serving, GrantsLast
    <3>2. m.kind = "unlock" => ~InPlay(m.h)
      BY <3>1 DEF Serving, Wanting
    <3> QED
      BY <3>2 DEF InPlay
  <2>3. clocked' = clocked
    BY <2>2 DEF Serving, Accepted, Refused, Synced, Freed, compositorVars
  <2> QED
    BY <2>1, <2>3 DEF Serving, Wanting
<1>4. CASE Grant
  <2>1. \A h \in Handles : InPlay(h)' => InPlay(h)
    BY <1>4 DEF Grant, driverVars, InPlay, InFlight
  <2> QED
    BY <1>4, <2>1 DEF Grant, handleVars, Wanting
<1>5. ~TakeBack
  BY DEF TakeBack
<1> QED
  BY <1>1, <1>2, <1>3, <1>4, <1>5

(* When a grant is recorded, the lock it is of is the only one about.      *)
LEMMA RecordedAlone ==
  ASSUME SInv, Heard, Rising, GrantsLast, HeldIsUp, holding # None, hlocked[holding]
  PROVE  Wanting
<1>1. LockTypeOK /\ Known /\ holding \in Handles /\ holding = used /\ ~hunlock[holding]
  BY DEF SInv, TypeOK, HeldIsLast
<1>2. drv = holding /\ drv \in told
  BY <1>1 DEF HeldIsUp, Heard
<1>3. holder = holding /\ clocked
  BY <1>2 DEF GrantsLast
<1>4. pending = None
  BY <1>1, <1>2 DEF Known, LockTypeOK
<1>5. \A h \in Handles : ~InFlight(wire, Msg("lock", h))
  <2> SUFFICES ASSUME NEW h \in Handles, NEW i \in DOMAIN wire, wire[i] = Msg("lock", h)
               PROVE  FALSE
    BY DEF InFlight
  <2>1. h > holder /\ (drv = None \/ h <= drv)
    BY DEF Rising
  <2>2. h > holding /\ h <= holding /\ h \in Nat /\ holding \in Nat
    BY <1>1, <1>2, <1>3, <2>1, LockFacts
  <2> QED
    BY <2>2
<1>6. \A h \in Handles : InPlay(h) => h = holding
  BY <1>1, <1>2, <1>3, <1>4, <1>5, LockFacts DEF InPlay
<1> QED
  BY <1>1, <1>3, <1>6 DEF Wanting

LEMMA RecordTrueNext ==
  ~MayTakeBack /\ ~MayClear /\ ~MayFailRecord =>
    (SInv /\ Heard /\ Rising /\ GrantsLast /\ HeldIsUp /\ RecordTrue /\ [Next]_vars => RecordTrue')
<1> SUFFICES ASSUME ~MayTakeBack, ~MayClear, ~MayFailRecord, SInv, Heard, Rising, GrantsLast, HeldIsUp, RecordTrue,
                    [Next]_vars, marker' = session'
             PROVE  Wanting'
  BY DEF RecordTrue, Wanting
<1>0. LockTypeOK /\ Known /\ session # 0 /\ DOMAIN <<>> = {}
  BY DEF SInv, TypeOK
<1>1. marker = session => Wanting
  BY DEF RecordTrue, Wanting
<1>2. CASE Apart \/ OnState \/ Turns
  <2>1. CASE marker' = session /\ UNCHANGED lockVars /\ holding # None /\ hlocked[holding]
    <3>1. Wanting
      BY <2>1, RecordedAlone
    <3> QED
      BY <2>1, <3>1 DEF Wanting, InPlay, InFlight, lockVars, driverVars, handleVars, compositorVars
  <2>2. CASE marker' = marker /\ hunlock' = hunlock
    <3>1. Wanting
      BY <1>1, <1>2, <2>2, ShellSteps
    <3>2. CASE Turn \/ Read \/ Serve \/ Grant \/ TakeBack
      BY <1>0, <3>1, <3>2, WantingStep
    <3>3. CASE Ask
      <4>1. UNCHANGED <<clocked, holder, drv, wire, hunlock>> /\ pending' = used + 1
        BY <3>3 DEF Ask, LockSession, compositorVars
      <4>2. \A h \in Handles : hunlock[h] => h # used + 1
        BY <1>0 DEF SInv, Made, LockTypeOK
      <4> QED
        BY <3>1, <4>1, <4>2 DEF Wanting, InPlay, InFlight
    <3>4. CASE UNCHANGED <<clocked, holder, drv, wire, pending>>
      BY <2>2, <3>1, <3>4 DEF Wanting, InPlay, InFlight
    <3> QED
      BY <1>2, <3>2, <3>3, <3>4, AliveSteps DEF LockNext, GiveUp, lockVars, driverVars, compositorVars
  <2> QED
    BY <1>0, <1>2, <2>1, <2>2, ShellSteps
<1>3. CASE Perished
  <2>1. /\ drv' = None /\ pending' = None /\ wire' \in {wire, <<>>} /\ marker' = marker /\ hunlock' = hunlock
        /\ \/ UNCHANGED <<holder, clocked>> /\ session' = session
           \/ session' = session + 1
    BY <1>3 DEF Perished, handleVars
  <2>2. session' = session
    <3>1. marker <= session /\ session \in Nat /\ marker \in Nat
      BY SessionLockAssumption DEF SInv, TypeOK, Numbered
    <3> QED
      BY <2>1, <3>1
  <2>3. Wanting /\ UNCHANGED <<holder, clocked>>
    <3>1. session \in Nat
      BY SessionLockAssumption DEF SInv, TypeOK
    <3>2. session + 1 # session
      BY <3>1
    <3> QED
      BY <1>1, <2>1, <2>2, <3>2
  <2>4. \A h \in Handles : InPlay(h)' => InPlay(h)
    BY <1>0, <2>1, <2>3, LockFacts DEF InPlay, InFlight
  <2> QED
    BY <2>1, <2>3, <2>4 DEF Wanting
<1>4. CASE HangUp \/ Clear
  <2>1. /\ UNCHANGED <<marker, session, hunlock, drv, pending, wire, clocked>> /\ holder' \in {None, Dead}
    BY <1>4, StraySteps DEF Orphaned
  <2>2. Wanting
    BY <1>1, <2>1
  <2>3. \A h \in Handles : InPlay(h)' => InPlay(h)
    BY <1>0, <2>1, LockFacts DEF InPlay, InFlight
  <2> QED
    BY <2>1, <2>2, <2>3 DEF Wanting
<1>5. CASE Started
  <2>1. /\ DOMAIN wire' = {} /\ drv' = None /\ holder' = holder /\ clocked' = clocked /\ hunlock' = hunlock
        /\ session' = session /\ holder \notin Handles /\ pending' \in {None, used + 1} /\ marker' \in {0, marker}
    BY <1>5, StartedSteps
  <2>2. Wanting
    BY <1>0, <1>1, <2>1
  <2>3. \A h \in Handles : hunlock[h] => h # used + 1
    BY <1>0 DEF SInv, Made, LockTypeOK
  <2>4. \A h \in Handles : InPlay(h)' => h = used + 1
    BY <1>0, <2>1, LockFacts DEF InPlay, InFlight
  <2> QED
    BY <2>1, <2>2, <2>3, <2>4 DEF Wanting
<1>6. CASE UNCHANGED vars
  BY <1>1, <1>6 DEF vars, worldVars, lockVars, driverVars, handleVars, compositorVars, Wanting, InPlay, InFlight
<1> QED
  BY <1>2, <1>3, <1>4, <1>5, <1>6, NextSplits, DeathPerishes, BootStarts

(* What the shell knows granted is on record, if the record can be written. *)
LEMMA KnownNext == ~MayFailRecord => (SInv /\ KnownIsRecorded /\ [Next]_vars => KnownIsRecorded')
<1> SUFFICES ASSUME ~MayFailRecord, SInv, KnownIsRecorded, [Next]_vars PROVE KnownIsRecorded'
  OBVIOUS
<1>0. granted \in BOOLEAN /\ up \in BOOLEAN
  BY DEF SInv, TypeOK
<1>1. CASE holding' = None
  BY <1>1 DEF KnownIsRecorded
<1>2. CASE UNCHANGED <<holding, granted, marker, session>>
  BY <1>2 DEF KnownIsRecorded
<1>3. CASE granted' = FALSE
  BY <1>3 DEF KnownIsRecorded
<1>4. CASE Apart
  <2>1. CASE Tick
    BY <1>1, <1>2, <2>1, ApartKeeps DEF Tick, TickIdle, TickGranted, TickEnded, worldVars, KnownIsRecorded
  <2>2. CASE ~Tick
    BY <1>2, <1>4, <2>2 DEF Apart, Listen, Consider, Write, Remark, PrepareForSleep, SleepLocks, Sleep, Resume,
       worldVars, holdVars
  <2> QED
    BY <2>1, <2>2
<1>5. CASE OnState
  BY <1>1, <1>2, <1>3, <1>5, OnStateSplits DEF OnState, Take, Release, holdVars
<1>6. CASE Turns
  BY <1>2, <1>6 DEF Turns, DriverTurn, DriverRead, Serves, Grants, TakesBack, shellVars, holdVars, worldVars
<1>7. CASE Perished
  BY <1>1, <1>7 DEF Perished
<1>8. CASE HangUp \/ Clear \/ UNCHANGED vars
  BY <1>2, <1>8 DEF HangUp, Clear, vars, holdVars, worldVars
<1>9. CASE Started
  BY <1>1, <1>3, <1>9, StartedSteps DEF Started, holdVars
<1> QED
  BY <1>4, <1>5, <1>6, <1>7, <1>8, <1>9, NextSplits, DeathPerishes, BootStarts

-----------------------------------------------------------------------------
(* A lock taken back has the compositor, or its refusal, to itself.        *)
Only(h) ==
  /\ \A i \in DOMAIN wire : wire[i].h = h
  /\ {drv, pending} \subseteq {None, h}
  /\ h \in told \cup refusals \/ (clocked /\ holder \in {Dead, h})

LEMMA OnlyStep ==
  ASSUME LockTypeOK, Heard, NEW h \in Handles, Only(h), Turn \/ Read \/ Serve \/ Grant \/ TakeBack
  PROVE  Only(h)'
<1>0. /\ \A i \in DOMAIN wire : wire[i].h = h
      /\ drv \in {None, h} /\ pending \in {None, h}
      /\ h \in told \cup refusals \/ (clocked /\ holder \in {Dead, h})
  BY DEF Only
<1>1. CASE Turn
  <2>1. Turning /\ drv' \in {None, Current}
    BY <1>1, TurnsOnce, TurnAdds
  <2>2. Current \in {None, h}
    BY <1>0 DEF Current
  <2>3. \A i \in DOMAIN wire' : wire'[i].h = h
    <3> SUFFICES ASSUME NEW i \in DOMAIN wire' PROVE wire'[i].h = h
      OBVIOUS
    <3>1. CASE i \in DOMAIN wire
      BY <1>0, <1>1, <3>1, TurnAdds
    <3>2. CASE i \notin DOMAIN wire
      BY <1>1, <2>2, <3>2, TurnAdds DEF Added
    <3> QED
      BY <3>1, <3>2
  <2> QED
    BY <1>0, <2>1, <2>2, <2>3 DEF Turning, Only
<1>2. CASE Read
  <2> PICK e \in Answers : Reading(e)
    BY <1>2, ReadsOne
  <2> QED
    BY <1>0 DEF Reading, Only
<1>3. CASE Serve
  <2> PICK m \in Requests : Serving(m)
    BY <1>3, ServesOne
  <2>1. /\ m.h = h /\ UNCHANGED <<drv, pending, told>> /\ m = Msg(m.kind, h) /\ 1 \in DOMAIN wire /\ wire[1] = m
        /\ \A i \in DOMAIN wire' : wire'[i].h = h
    BY <1>0 DEF Serving
  <2>2. refusals \subseteq refusals'
    BY DEF Serving, Accepted, Refused, Synced, compositorVars
  <2>3. CASE h \in told \cup refusals
    BY <1>0, <2>1, <2>2, <2>3 DEF Only
  <2>4. CASE h \notin told \cup refusals /\ clocked /\ holder \in {Dead, h}
    <3>1. m.kind # "unlock"
      BY <2>1, <2>4 DEF Heard
    <3>2. h \in refusals' \/ (clocked' /\ holder' \in {Dead, h})
      BY <2>1, <2>4, <3>1 DEF Serving, Accepted, Refused, Synced, Freed, Orphaned, compositorVars
    <3> QED
      BY <1>0, <2>1, <3>2 DEF Only
  <2> QED
    BY <1>0, <2>3, <2>4
<1>4. CASE Grant \/ TakeBack
  <2>1. /\ UNCHANGED <<wire, drv, pending, refusals>> /\ told \subseteq told'
        /\ holder \in told' /\ holder # Dead
        /\ (holder' = holder /\ clocked') \/ holder \in told
    BY <1>4, LockFacts DEF Grant, TakeBack, driverVars
  <2> QED
    BY <1>0, <2>1 DEF Only
<1> QED
  BY <1>1, <1>2, <1>3, <1>4

Restoring == holding # None /\ origin = "Restored" => Only(holding)

LEMMA RestoringNext == ~MayClearLate => (SInv /\ Heard /\ Restoring /\ [Next]_vars => Restoring')
<1> SUFFICES ASSUME ~MayClearLate, SInv, Heard, Restoring, [Next]_vars PROVE Restoring'
  OBVIOUS
<1>0. LockTypeOK /\ holding \in Handles \cup {None} /\ None \notin Handles
  BY LockFacts DEF SInv, TypeOK
<1>1. CASE holding' = None
  BY <1>1 DEF Restoring
<1>2. CASE UNCHANGED <<holding, origin, wire, drv, pending, told, refusals, clocked, holder>>
  BY <1>2 DEF Restoring, Only
<1>3. CASE Apart \/ OnState \/ Turns
  <2>1. CASE Take("Requested")
    BY <2>1, TakeSteps DEF Restoring
  <2>2. CASE UNCHANGED <<holding, origin>> /\ holding # None
    <3>1. CASE Turn \/ Read \/ Serve \/ Grant \/ TakeBack
      <4>1. origin = "Restored" => Only(holding)'
        BY <1>0, <2>2, <3>1, OnlyStep DEF Restoring
      <4> QED
        BY <2>2, <4>1 DEF Restoring, Only
    <3>2. CASE ~(Turn \/ Read \/ Serve \/ Grant \/ TakeBack)
      <4>1. ~Turns
        BY <3>2 DEF Turns, DriverTurn, DriverRead, Serves, Grants, TakesBack
      <4>2. UNCHANGED <<wire, drv, pending, told, refusals, clocked, holder>>
        <5>1. CASE Apart
          BY <5>1, ApartKeeps DEF lockVars, driverVars, compositorVars
        <5>2. CASE OnState
          <6>1. ~Take("Requested") \/ holding # None
            BY <2>2
          <6>2. CASE Release(Tail(queue))
            BY <2>2, <6>2 DEF Release
          <6>3. CASE UNCHANGED <<holdVars, marker, lockVars>>
            BY <6>3 DEF lockVars, driverVars, compositorVars
          <6> QED
            BY <2>2, <5>2, <6>2, <6>3, OnStateSplits
        <5> QED
          BY <1>3, <4>1, <5>1, <5>2
      <4> QED
        BY <1>2, <2>2, <4>2
    <3> QED
      BY <3>1, <3>2
  <2> QED
    BY <1>1, <1>3, <2>1, <2>2, ShellSteps
<1>4. CASE Perished
  BY <1>1, <1>4 DEF Perished
<1>5. CASE HangUp \/ Clear
  <2>1. ~up /\ holding' = holding
    BY <1>5, StraySteps
  <2> QED
    BY <1>1, <2>1 DEF SInv, TypeOK
<1>6. CASE Started
  <2>1. /\ DOMAIN wire' = {} /\ drv' = None /\ holder' = holder /\ clocked' = clocked /\ holder \notin Handles
        /\ \/ clocked /\ holding' = used + 1 /\ pending' = used + 1
           \/ holding' = None
    BY <1>6, StartedSteps
  <2>2. clocked => holder = Dead
    BY <1>0, <2>1, LockFacts DEF Heard
  <2>3. CASE clocked /\ holding' = used + 1 /\ pending' = used + 1
    BY <2>1, <2>2, <2>3 DEF Restoring, Only
  <2> QED
    BY <1>1, <2>1, <2>3
<1>7. CASE UNCHANGED vars
  BY <1>2, <1>7 DEF vars, holdVars, lockVars, driverVars, compositorVars
<1> QED
  BY <1>3, <1>4, <1>5, <1>6, <1>7, NextSplits, DeathPerishes, BootStarts

-----------------------------------------------------------------------------
LEMMA RecordInit == Init => Heard /\ Rising /\ GrantsLast /\ HeldIsUp /\ RecordTrue /\ Restoring /\ KnownIsRecorded
<1> SUFFICES ASSUME Init
             PROVE  Heard /\ Rising /\ GrantsLast /\ HeldIsUp /\ RecordTrue /\ Restoring /\ KnownIsRecorded
  OBVIOUS
<1>1. /\ hlocked = NoHandle /\ hfinished = NoHandle /\ wire = <<>> /\ events = <<>> /\ holder = None
      /\ clocked = FALSE /\ told = {} /\ refusals = {} /\ holding = None /\ marker = 0 /\ session = 1
  BY DEF Init, LockInit
<1>2. DOMAIN wire = {} /\ DOMAIN events = {}
  BY <1>1
<1>3. \A h \in Handles : ~hlocked[h] /\ ~hfinished[h]
  BY <1>1 DEF NoHandle
<1> QED
  BY <1>1, <1>2, <1>3 DEF Heard, Rising, GrantsLast, HeldIsUp, RecordTrue, Restoring, KnownIsRecorded

(* A record of this compositor session is of a session that is locked: no  *)
(* step, and no crash between two of them, leaves one unlocked with the    *)
(* record of a lock, as long as nobody but the shell ends its locks        *)
(* (release, and Marker of lock.rs).                                       *)
THEOREM RecordedIsLockedAlways ==
  ASSUME ~MayTakeBack, ~MayClear, ~MayFailRecord
  PROVE  Spec => []RecordedIsLocked
<1> DEFINE R == Heard /\ Rising /\ GrantsLast /\ HeldIsUp /\ RecordTrue
<1>1. Init => R
  BY RecordInit
<1>2. SInv /\ R /\ [Next]_vars => R'
  BY HeardNext, RisingNext, GrantsLastNext, HeldIsUpNext, RecordTrueNext
<1>3. R => RecordedIsLocked
  BY DEF RecordTrue, RecordedIsLocked
<1> HIDE DEF R
<1> QED
  BY <1>1, <1>2, <1>3, SInvAlways, PTL DEF Spec

(* While the shell knows of a grant, the record a restart needs is there,  *)
(* as long as it could be written (follow of lock.rs).                     *)
THEOREM KnownIsRecordedAlways ==
  ASSUME ~MayFailRecord
  PROVE  Spec => []KnownIsRecorded
<1>1. SInv /\ KnownIsRecorded /\ [Next]_vars => KnownIsRecorded'
  BY KnownNext
<1> QED
  BY <1>1, RecordInit, SInvAlways, PTL DEF Spec

(* The record of a lock says neither too much nor too little (lock.rs).    *)
THEOREM RecordHonestAlways ==
  ASSUME ~MayTakeBack, ~MayClear, ~MayFailRecord
  PROVE  Spec => []RecordHonest
<1>1. Spec => []RecordedIsLocked
  BY RecordedIsLockedAlways
<1>2. Spec => []KnownIsRecorded
  BY KnownIsRecordedAlways
<1> QED
  BY <1>1, <1>2, PTL DEF RecordHonest

(* A start takes a lock back only in a session that is locked, whether the *)
(* compositor then grants it, refuses it, or takes it back, as long as the *)
(* user does not clear it once the shell is up (restoration of lock.rs).   *)
THEOREM RestoresLockedAlways ==
  ASSUME ~MayClearLate
  PROVE  Spec => []RestoresLocked
<1>1. SInv /\ Heard /\ Restoring /\ [Next]_vars => Heard' /\ Restoring'
  BY HeardNext, RestoringNext
<1>2. Restoring => RestoresLocked
  BY DEF Restoring, Only, RestoresLocked
<1> QED
  BY <1>1, <1>2, RecordInit, SInvAlways, PTL DEF Spec
=============================================================================
