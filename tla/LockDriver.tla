------------------------------ MODULE LockDriver ------------------------------
(***************************************************************************)
(* The driver's half of the session lock: lock_session, LockHandle and     *)
(* poll of crates/platform-wayland/src/lock.rs, against a compositor that  *)
(* speaks ext-session-lock-v1.                                             *)
(*                                                                         *)
(* The shell holds handles; the driver, once a turn, starts the lock that  *)
(* was asked for, ends the one that is over and covers the outputs.  The   *)
(* two ends of the connection are FIFO: wire carries requests, events      *)
(* carries answers, and either may be in flight while the other changes.   *)
(*                                                                         *)
(* The compositor is external.  It is modelled from what the code expects  *)
(* of it: a refusal is sent on creation (start), locked may come at any    *)
(* time after that, destroy after locked was sent is a protocol error      *)
(* (end), and a session whose locker died stays locked (Marker).           *)
(* Outputs are abstracted to "they have their surfaces" (covered).         *)
(***************************************************************************)
EXTENDS Integers, Sequences

CONSTANTS
  MaxLocks,     \* bound: handles ever made
  MayRefuse,    \* TRUE: the compositor may refuse a lock on an unlocked session
  MayTakeBack,  \* TRUE: the compositor may end a lock it granted
  AllowRestore, \* TRUE: it hands the lock of a dead client to the next that asks
  Managed       \* TRUE: it implements ext-session-lock-v1 (Driver.lock_manager)

ASSUME LockDriverAssumption ==
  /\ MaxLocks \in Nat
  /\ {MayRefuse, MayTakeBack, AllowRestore, Managed} \subseteq BOOLEAN

Handles == 1 .. MaxLocks
None    == 0         \* no handle
Dead    == -1        \* a locker that died holding the lock

VARIABLES
  used,        \* handles made so far
  pending,     \* LOCK_QUEUE
  drv,         \* Driver.lock, by the handle it answers to
  settled,     \* LockSession.settled
  covered,     \* LockSession.covered names every output
  hlocked, hfinished, hunlock,  \* LockShared, per handle
  sessionLocked,  \* SESSION_LOCKED
  wire, events,   \* requests and answers in flight
  holder,      \* compositor: the lock in force or asked for
  clocked,     \* compositor: the session is locked
  told,        \* compositor: the locks it has sent locked
  refusals,    \* compositor: the locks it refused on creation
  broken       \* the compositor has cut the connection for a protocol error

driverVars     == <<pending, drv, settled, covered, sessionLocked>>
handleVars     == <<used, hlocked, hfinished, hunlock>>
compositorVars == <<holder, clocked, told, refusals, broken>>
lockVars       == <<driverVars, handleVars, compositorVars, wire, events>>

Requests == [kind : {"lock", "sync", "surface", "unlock", "destroy"}, h : Handles]
Answers  == [kind : {"locked", "finished", "done"}, h : Handles]
Msg(k, h) == [kind |-> k, h |-> h]

(* Types, and that a request is left for the driver once.                  *)
LockTypeOK ==
  /\ used \in 0 .. MaxLocks
  /\ {pending, drv} \subseteq Handles \cup {None}
  /\ {settled, covered, sessionLocked, clocked, broken} \subseteq BOOLEAN
  /\ {hlocked, hfinished, hunlock} \subseteq [Handles -> BOOLEAN]
  /\ wire \in Seq(Requests)
  /\ events \in Seq(Answers)
  /\ holder \in Handles \cup {None, Dead}
  /\ told \subseteq Handles
  /\ refusals \subseteq Handles
  /\ holder = Dead => clocked
  /\ pending = None \/ (pending # drv /\ pending <= used)

NoHandle == [h \in Handles |-> FALSE]

LockInit ==
  /\ used = 0
  /\ pending = None
  /\ drv = None
  /\ settled = FALSE
  /\ covered = FALSE
  /\ hlocked = NoHandle /\ hfinished = NoHandle /\ hunlock = NoHandle
  /\ sessionLocked = FALSE
  /\ wire = <<>> /\ events = <<>>
  /\ holder = None
  /\ clocked = FALSE
  /\ told = {}
  /\ refusals = {}
  /\ broken = FALSE

-----------------------------------------------------------------------------
(* The shell's calls.                                                      *)

(* lock_session: a new handle, left for the driver; one left before and    *)
(* not yet looked at is answered "finished".                               *)
LockSession ==
  /\ used < MaxLocks
  /\ used' = used + 1
  /\ pending' = used + 1
  /\ hfinished' = IF pending = None THEN hfinished ELSE [hfinished EXCEPT ![pending] = TRUE]

(* LockHandle::unlock.                                                     *)
Unlock(h) == hunlock' = [hunlock EXCEPT ![h] = TRUE]

-----------------------------------------------------------------------------
(* poll, one turn of the driver: start what is pending, then end or cover  *)
(* what is up.                                                             *)

Starts  == pending # None /\ drv = None /\ Managed
Ignored == pending # None /\ ~Starts
Current == IF Starts THEN pending ELSE drv

FinishedSilently == hfinished    \* a plausible slip: its owner is never told

(* A request that starts nothing is told so: a lock is up, or there is no  *)
(* way to ask for one.                                                     *)
Finished ==
  IF Ignored THEN [hfinished EXCEPT ![pending] = TRUE] ELSE hfinished

StartRequests == IF Starts THEN <<Msg("lock", pending), Msg("sync", pending)>> ELSE <<>>

Over == Current # None /\ (hunlock[Current] \/ Finished[Current])

(* end: unlock_and_destroy once granted, destroy before.                   *)
End ==
  /\ Over
  /\ wire' = wire \o StartRequests
               \o <<Msg(IF hlocked[Current] THEN "unlock" ELSE "destroy", Current)>>
  /\ drv' = None
  /\ settled' = FALSE
  /\ covered' = FALSE
  /\ hlocked' = [hlocked EXCEPT ![Current] = FALSE]
  /\ sessionLocked' = FALSE

(* cover_outputs, once the sync behind the lock was answered.              *)
Cover ==
  /\ ~Over
  /\ LET covers == ~Starts /\ drv # None /\ settled /\ ~covered IN
       /\ wire' = wire \o StartRequests
                    \o (IF covers THEN <<Msg("surface", drv)>> ELSE <<>>)
       /\ covered' = (covered \/ covers)
  /\ drv' = Current
  /\ UNCHANGED <<settled, hlocked, sessionLocked>>

HasTurn == pending # None \/ Over \/ (drv # None /\ settled /\ ~covered)

(* A plausible slip: the request is looked at, and stays in the queue.     *)
TurnKeepsRequest ==
  /\ ~broken
  /\ HasTurn
  /\ UNCHANGED pending
  /\ hfinished' = Finished
  /\ End \/ Cover
  /\ UNCHANGED <<used, hunlock, compositorVars, events>>

Turn ==
  /\ ~broken
  /\ HasTurn
  /\ pending' = None
  /\ hfinished' = Finished
  /\ End \/ Cover
  /\ UNCHANGED <<used, hunlock, compositorVars, events>>

-----------------------------------------------------------------------------
(* The driver reads an answer.  Those for an object it has destroyed are   *)
(* dropped by the library; the sync's is a separate object and names the   *)
(* lock it was sent behind (LockVerdict).                                  *)
SettledByAny(h) == TRUE    \* a plausible slip

SettledBy(h) == settled \/ drv = h

Read ==
  /\ ~broken
  /\ events # <<>>
  /\ LET e == Head(events) IN
       /\ hlocked' = [hlocked EXCEPT ![e.h] = @ \/ (e.kind = "locked" /\ drv = e.h)]
       /\ hfinished' = [hfinished EXCEPT ![e.h] = @ \/ (e.kind = "finished" /\ drv = e.h)]
       /\ sessionLocked' = (sessionLocked \/ (e.kind = "locked" /\ drv = e.h))
       /\ settled' = IF e.kind = "done" /\ drv # None THEN SettledBy(e.h) ELSE settled
  /\ events' = Tail(events)
  /\ UNCHANGED <<used, pending, drv, covered, hunlock, compositorVars, wire>>

-----------------------------------------------------------------------------
(* The compositor (external).                                              *)

(* A lock is asked for: accepted, or refused at once.                      *)
Accept(h) ==
  /\ holder = None \/ (holder = Dead /\ AllowRestore)
  /\ holder' = h
  /\ UNCHANGED <<events, refusals>>

Refuse(h) ==
  /\ MayRefuse \/ holder # None
  /\ ~(holder = Dead /\ AllowRestore)
  /\ events' = Append(events, Msg("finished", h))
  /\ refusals' = refusals \cup {h}
  /\ UNCHANGED holder

(* The locker is gone without having unlocked.                             *)
Orphaned == IF clocked THEN Dead ELSE None

Served(m) ==
  CASE m.kind = "lock" ->
         /\ Accept(m.h) \/ Refuse(m.h)
         /\ UNCHANGED <<clocked, told, broken>>
    [] m.kind = "sync" ->
         /\ events' = Append(events, Msg("done", m.h))
         /\ UNCHANGED compositorVars
    [] m.kind = "surface" -> UNCHANGED <<compositorVars, events>>
    [] m.kind = "unlock" ->
         /\ holder' = IF holder = m.h THEN None ELSE holder
         /\ clocked' = IF holder = m.h THEN FALSE ELSE clocked
         /\ UNCHANGED <<told, refusals, broken, events>>
    [] m.kind = "destroy" ->
         /\ holder' = IF holder = m.h THEN Orphaned ELSE holder
         /\ broken' = (m.h \in told)
         /\ UNCHANGED <<clocked, told, refusals, events>>

Serve ==
  /\ ~broken
  /\ wire # <<>>
  /\ Served(Head(wire))
  /\ wire' = Tail(wire)
  /\ UNCHANGED <<driverVars, handleVars>>

(* Nothing of the session is on any screen: locked.                        *)
Grant ==
  /\ holder \in Handles \ told
  /\ clocked' = TRUE
  /\ told' = told \cup {holder}
  /\ events' = Append(events, Msg("locked", holder))
  /\ UNCHANGED <<driverVars, handleVars, holder, refusals, broken, wire>>

(* It ends a lock it had granted.                                          *)
TakeBack ==
  /\ MayTakeBack
  /\ holder \in told
  /\ holder' = None
  /\ clocked' = FALSE
  /\ events' = Append(events, Msg("finished", holder))
  /\ UNCHANGED <<driverVars, handleVars, told, refusals, broken, wire>>

-----------------------------------------------------------------------------
(* An owner that may ask for a lock and give any of its locks up, at any   *)
(* time, and so asks more of the driver than the shell does.               *)
Ask == LockSession /\ UNCHANGED <<drv, settled, covered, sessionLocked, hlocked, hunlock,
                                  compositorVars, wire, events>>

GiveUp(h) ==
  /\ h <= used /\ ~hunlock[h]
  /\ Unlock(h)
  /\ UNCHANGED <<driverVars, used, hlocked, hfinished, compositorVars, wire, events>>

LockNext ==
  \/ Ask
  \/ \E h \in Handles : GiveUp(h)
  \/ Turn \/ Read \/ Serve \/ Grant \/ TakeBack

(* The loop turns, the connection delivers, a compositor that accepted a   *)
(* lock grants it; nobody has to ask for one or give it up.                *)
LockFair ==
  /\ WF_lockVars(Turn) /\ WF_lockVars(Read)
  /\ WF_lockVars(Serve) /\ WF_lockVars(Grant)

LockSpec == LockInit /\ [][LockNext]_lockVars /\ LockFair

-----------------------------------------------------------------------------
(* Properties.                                                             *)

InFlight(s, m) == \E i \in DOMAIN s : s[i] = m

(* A lock the compositor refused never gets a surface, however late its    *)
(* answers are read: Hyprland cuts the connection of a client that sends   *)
(* one (platform-wayland/src/lock.rs, start).                              *)
RefusedUncovered == \A h \in refusals : ~InFlight(wire, Msg("surface", h))

(* What a suspend waits on is the compositor's word on this very lock:     *)
(* while it is set the session is locked, unless the compositor has taken  *)
(* the lock back and the driver has yet to act on it (SESSION_LOCKED).     *)
FlagHonest ==
  sessionLocked =>
    /\ drv # None
    /\ \/ holder = drv /\ clocked
       \/ InFlight(events, Msg("finished", drv))
       \/ hfinished[drv]
       \/ broken

(* The driver asks for a lock only when its last one is over: the          *)
(* compositor never refuses it because of itself (start).                  *)
NeverAgainstItself ==
  wire # <<>> /\ Head(wire).kind = "lock" => holder \in {None, Dead}

(* Nobody is left waiting on a handle: it turns locked or finished, or is  *)
(* given up, however many requests were displaced or ignored               *)
(* (lock_session, start); and a lock given up leaves the compositor        *)
(* (LockHandle::unlock).                                                   *)
Answered(h) == hlocked[h] \/ hfinished[h] \/ hunlock[h]

HandlesReach ==
  <>[](broken \/ \A h \in 1 .. used : Answered(h) /\ (hunlock[h] => holder # h))

(* A lock is ended by "unlock_and_destroy once the compositor confirmed it *)
(* (destroy would be a protocol error), a plain destroy when it never did" *)
(* (end): no destroy is sent for a lock the compositor has granted.        *)
DestroysUngranted ==
  [][\A h \in told : InFlight(wire', Msg("destroy", h)) => InFlight(wire, Msg("destroy", h))]_lockVars

(* The driver never provokes the compositor, nor is refused by it because  *)
(* of a lock of its own, and the flag it sets speaks of the lock in force. *)
DriverHonest == RefusedUncovered /\ NeverAgainstItself /\ FlagHonest
=============================================================================
