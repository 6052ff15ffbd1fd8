------------------------------- MODULE LockAuth -------------------------------
(***************************************************************************)
(* Unlocking: the password (submit, succeed, fail and the lockout of       *)
(* crates/services/src/lock.rs), the fingerprint and the face that run     *)
(* beside it (biometrics.rs) and the hint logind is given (session.rs).    *)
(*                                                                         *)
(* LockState is written by the driver thread, by a PAM thread per attempt, *)
(* by a thread per biometric attempt and by a thread per lockout, none of  *)
(* which can be interrupted.  The compositor's side of a lock is           *)
(* SessionLock's: here a lock that is asked for is granted.                *)
(***************************************************************************)
EXTENDS Naturals, SequencesExt

CONSTANTS
  Kits,        \* what may be configured and found: sets of KitParts
  MaxTries,    \* [lock] max_tries, or 0 where lockout_seconds is 0
  BioTries,    \* max_fprint_tries and max_howdy_tries
  MaxTakes,    \* bound: locks taken
  MaxSubmits,  \* bound: passwords submitted
  MaxUnstarted \* bound: threads the system refuses to start

KitParts == {"finger", "face", "wake", "logind"}

ASSUME LockAuthAssumption ==
  /\ Kits \subseteq SUBSET KitParts
  /\ {MaxTries, MaxUnstarted} \subseteq Nat
  /\ {BioTries, MaxTakes, MaxSubmits} \subseteq Nat \ {0}

VARIABLES
  kit,        \* the methods configured, and "logind" if there is one to be told
  want,       \* LockState.wanted
  busy,       \* LockState.busy: "none", "password", "finger" or "face"
  failures,   \* LockState.failures
  until,      \* LockState.locked_out_until: a deadline's number, 0 for None
  deadlines,  \* lockouts begun, and how many of their deadlines have passed
  passed,
  clearers,   \* the deadlines a lockout thread sleeps towards
  unwatched,  \* and those whose thread could not be started
  unseen,     \* values of wanted the performer has yet to see
  held,       \* a lock is held
  takes,      \* locks taken; the number of the one held
  current,    \* RUNNING and GENERATION: the lock attempts are made for, 0 for none
  typed,      \* submit has read the state and is about to write it
  asked,      \* passwords submitted
  pam,        \* the attempts PAM is thinking about
  unasked,    \* and those whose thread could not be started
  bio,        \* each biometric thread: where it is and the tries it has left
  calls,      \* SetLockedHint calls on their way
  hint        \* what logind believes

sharedVars == <<want, busy, failures, until, unseen>>
holdVars   == <<held, takes, current, calls>>
pamVars    == <<typed, asked, pam, unasked>>
clockVars  == <<deadlines, passed, clearers, unwatched>>
authVars   == <<kit, sharedVars, holdVars, pamVars, clockVars, bio, hint>>

Threads == [method : {"finger", "face"}, lock : 1 .. MaxTakes, retry : BOOLEAN]
Places  == {"off", "check", "mark", "verify", "matched", "open", "clear"}

AuthTypeOK ==
  /\ kit \in Kits
  /\ {want, held, typed, hint} \subseteq BOOLEAN
  /\ busy \in {"none", "password", "finger", "face"}
  /\ failures \in 0 .. MaxSubmits
  /\ {deadlines, passed} \subseteq 0 .. MaxSubmits
  /\ until \in 0 .. deadlines /\ passed <= deadlines
  /\ {clearers, unwatched} \subseteq SUBSET (1 .. deadlines)
  /\ unseen \in Seq(BOOLEAN)
  /\ takes \in 0 .. MaxTakes /\ current \in {0, takes}
  /\ asked \in 0 .. MaxSubmits /\ {pam, unasked} \subseteq SUBSET (1 .. asked)
  /\ bio \in [Threads -> [at : Places, left : 0 .. BioTries]]
  /\ calls \subseteq [lock : 1 .. MaxTakes, on : BOOLEAN]

AuthInit ==
  /\ kit \in Kits
  /\ want = FALSE /\ busy = "none" /\ failures = 0 /\ until = 0 /\ unseen = <<>>
  /\ held = FALSE /\ takes = 0 /\ current = 0 /\ calls = {} /\ hint = FALSE
  /\ typed = FALSE /\ asked = 0 /\ pam = {} /\ unasked = {}
  /\ deadlines = 0 /\ passed = 0 /\ clearers = {} /\ unwatched = {}
  /\ bio = [t \in Threads |-> [at |-> "off", left |-> 0]]

-----------------------------------------------------------------------------
LockedOut == until > passed
Accepts   == busy = "none" /\ ~LockedOut

(* STATE.update with wanted = w, on top of the channel q.  A value equal   *)
(* to the one before it makes the performer do nothing, and is left out.   *)
Tell(q, w) ==
  /\ want' = w
  /\ unseen' = IF w = (IF q = <<>> THEN held ELSE q[Len(q)]) THEN q ELSE Append(q, w)

LocksWanted(q) == {i \in DOMAIN q : q[i]}

LockAsked ==
  /\ ~want /\ takes + Cardinality(LocksWanted(unseen)) < MaxTakes
  /\ failures' = 0 /\ until' = 0
  /\ Tell(unseen, TRUE)
  /\ UNCHANGED <<kit, busy, holdVars, pamVars, clockVars, bio, hint>>

(* hogar-shell lock off.                                                   *)
UnlockAsked ==
  /\ want
  /\ busy' = "none"
  /\ Tell(unseen, FALSE)
  /\ UNCHANGED <<kit, failures, until, holdVars, pamVars, clockVars, bio, hint>>

-----------------------------------------------------------------------------
(* biometrics::start: a thread for each method, a face's on trigger_on_wake.*)
Started(n) ==
  [t \in Threads |-> IF /\ t.method \in kit /\ t.lock = n /\ ~t.retry
                        /\ t.method = "face" => "wake" \in kit
                     THEN [at |-> "check", left |-> BioTries] ELSE bio[t]]

Hint(n, on) == calls' = IF "logind" \in kit THEN calls \cup {[lock |-> n, on |-> on]} ELSE calls

Take ==
  /\ ~held
  /\ held' = TRUE
  /\ takes' = takes + 1
  /\ current' = takes + 1
  /\ bio' = Started(takes + 1)
  /\ Hint(takes + 1, TRUE)
  /\ UNCHANGED <<want, failures, until>>

(* A plausible slip: the lockout goes, and the count stays.                *)
ReleaseKeepsCount ==
  /\ held
  /\ held' = FALSE
  /\ current' = 0
  /\ Hint(takes, FALSE)
  /\ until' = 0
  /\ UNCHANGED <<takes, want, bio, failures>>

(* release: stand_down, and what a new lock starts from.                   *)
Release ==
  /\ held
  /\ held' = FALSE
  /\ current' = 0
  /\ Hint(takes, FALSE)
  /\ failures' = 0 /\ until' = 0
  /\ UNCHANGED <<takes, want, bio>>

(* on_state; the driver thread is not in the middle of submit.             *)
Perform ==
  /\ unseen # <<>> /\ ~typed
  /\ unseen' = Tail(unseen)
  /\ \/ Head(unseen) /\ Take
     \/ ~Head(unseen) /\ Release
     \/ /\ Head(unseen) = held
        /\ UNCHANGED <<held, takes, current, calls, want, failures, until, bio>>
  /\ UNCHANGED <<kit, busy, pamVars, clockVars, hint>>

(* ended: the compositor took the lock back.                               *)
Ended ==
  /\ held /\ ~typed
  /\ held' = FALSE
  /\ current' = 0
  /\ takes' = takes
  /\ Hint(takes, FALSE)
  /\ want' = FALSE
  /\ unseen' = IF TRUE \in Range(unseen) THEN Append(unseen, FALSE) ELSE <<>>
  /\ UNCHANGED <<kit, busy, failures, until, pamVars, clockVars, bio, hint>>

(* set_locked_hint: each call is made on a thread of its own.              *)
HintLands ==
  /\ \E c \in calls : calls' = calls \ {c} /\ hint' = c.on
  /\ UNCHANGED <<kit, sharedVars, held, takes, current, pamVars, clockVars, bio>>

-----------------------------------------------------------------------------
(* submit, in two steps: what it reads may change before it writes.        *)
SubmitReads ==
  /\ want /\ Accepts /\ ~typed /\ asked < MaxSubmits
  /\ typed' = TRUE
  /\ UNCHANGED <<kit, sharedVars, holdVars, asked, pam, unasked, clockVars, bio, hint>>

MayNotStart == Cardinality(unasked) + Cardinality(unwatched) < MaxUnstarted

(* The attempt is marked before its thread is there, which the system may  *)
(* refuse to start; nobody looks (let _ =).                                *)
SubmitWrites ==
  /\ typed
  /\ typed' = FALSE
  /\ busy' = "password"
  /\ asked' = asked + 1
  /\ \/ pam' = pam \cup {asked'} /\ UNCHANGED unasked
     \/ MayNotStart /\ unasked' = unasked \cup {asked'} /\ UNCHANGED pam
  /\ UNCHANGED <<kit, want, failures, until, unseen, holdVars, clockVars, bio, hint>>

(* succeed: the one path out of the lock.                                  *)
Succeed ==
  /\ busy' = "none" /\ failures' = 0 /\ until' = 0
  /\ Tell(unseen, FALSE)

PamAccepts ==
  /\ \E i \in pam : pam' = pam \ {i}
  /\ Succeed
  /\ UNCHANGED <<kit, holdVars, typed, asked, unasked, clockVars, bio, hint>>

(* fail, and clear_lockout_when_elapsed, whose thread may not start either.*)
Fail ==
  /\ busy' = "none"
  /\ failures' = failures + 1
  /\ IF MaxTries > 0 /\ failures' >= MaxTries
       THEN /\ deadlines' = deadlines + 1
            /\ until' = deadlines'
            /\ \/ clearers' = clearers \cup {until'} /\ UNCHANGED unwatched
               \/ MayNotStart /\ unwatched' = unwatched \cup {until'} /\ UNCHANGED clearers
       ELSE UNCHANGED <<deadlines, until, clearers, unwatched>>

PamRefuses ==
  /\ \E i \in pam : pam' = pam \ {i}
  /\ Fail
  /\ UNCHANGED <<kit, want, unseen, holdVars, typed, asked, unasked, passed, bio, hint>>

TimePasses ==
  /\ passed < deadlines
  /\ passed' = passed + 1
  /\ UNCHANGED <<kit, sharedVars, holdVars, pamVars, deadlines, clearers, unwatched, bio, hint>>

(* A plausible slip: it does not look.                                     *)
ForgivenBlindly(d) == failures' = 0 /\ until' = 0

(* The lockout thread wakes past its deadline, and looks at the state as   *)
(* it is then.                                                             *)
Forgiven(d) ==
  IF LockedOut THEN UNCHANGED <<failures, until>> ELSE failures' = 0 /\ until' = 0

ClearLockout ==
  /\ \E d \in clearers : d <= passed /\ clearers' = clearers \ {d} /\ Forgiven(d)
  /\ UNCHANGED <<kit, want, busy, unseen, holdVars, pamVars, deadlines, passed, unwatched, bio,
                 hint>>

-----------------------------------------------------------------------------
(* A biometric thread.  A finger clears the mark on every way out, a face  *)
(* only when its tries are spent.                                          *)
IsCurrent(t) == current = t.lock
Goes(t, place) == bio' = [bio EXCEPT ![t].at = place]
Leaves(t) == IF t.method = "finger" THEN "clear" ELSE "off"

Checks(t) ==
  /\ bio[t].at = "check"
  /\ Goes(t, IF IsCurrent(t) THEN "mark" ELSE Leaves(t))
  /\ UNCHANGED sharedVars

(* The reader is another thread's, or there is none.                       *)
NoReader(t) ==
  /\ t.method = "finger" /\ bio[t] = [at |-> "check", left |-> BioTries]
  /\ Goes(t, "off")
  /\ UNCHANGED sharedVars

Marks(t) ==
  /\ bio[t].at = "mark"
  /\ busy' = t.method
  /\ Goes(t, "verify")
  /\ UNCHANGED <<want, failures, until, unseen>>

(* What the sensor answers: a match, or none; the last try of a finger     *)
(* clears the mark before the way out does it again.                       *)
Matches(t) == bio[t].at = "verify" /\ Goes(t, "matched") /\ UNCHANGED sharedVars

Mismatches(t) ==
  /\ bio[t].at = "verify"
  /\ bio' = [bio EXCEPT ![t] = [at |-> IF @.left = 1 THEN "clear" ELSE "check", left |-> @.left - 1]]
  /\ busy' = IF bio[t].left = 1 /\ t.method = "finger" THEN "none" ELSE busy
  /\ UNCHANGED <<want, failures, until, unseen>>

Breaks(t) == bio[t].at = "verify" /\ Goes(t, "clear") /\ UNCHANGED sharedVars

Judges(t) ==
  /\ bio[t].at = "matched"
  /\ Goes(t, IF IsCurrent(t) THEN "open" ELSE Leaves(t))
  /\ UNCHANGED sharedVars

Opens(t) == bio[t].at = "open" /\ Succeed /\ Goes(t, Leaves(t))

Clears(t) ==
  /\ bio[t].at = "clear"
  /\ busy' = "none"
  /\ Goes(t, "off")
  /\ UNCHANGED <<want, failures, until, unseen>>

BioRest  == UNCHANGED <<kit, holdVars, pamVars, clockVars, hint>>
SensorAnswers  == (\E t \in Threads : Matches(t) \/ Mismatches(t) \/ Breaks(t)) /\ BioRest
BioStep(t) == (Checks(t) \/ Marks(t) \/ Judges(t) \/ Opens(t) \/ Clears(t)) /\ BioRest
ReaderAway == (\E t \in Threads : NoReader(t)) /\ BioRest

(* retry_face: one try of the lock on screen.                              *)
RetryFace ==
  /\ "face" \in kit /\ current # 0 /\ ~typed
  /\ LET t == [method |-> "face", lock |-> current, retry |-> TRUE] IN
       /\ bio[t] = [at |-> "off", left |-> 0]
       /\ bio' = [bio EXCEPT ![t] = [at |-> "check", left |-> 1]]
  /\ UNCHANGED sharedVars
  /\ BioRest

-----------------------------------------------------------------------------
AuthNext ==
  \/ LockAsked \/ UnlockAsked \/ Perform \/ Ended \/ HintLands
  \/ SubmitReads \/ SubmitWrites \/ PamAccepts \/ PamRefuses \/ TimePasses \/ ClearLockout
  \/ SensorAnswers \/ ReaderAway \/ RetryFace
  \/ \E t \in Threads : BioStep(t)

(* Every thread is scheduled, PAM answers and the clock runs; a sensor     *)
(* need not answer, for nobody has to touch it.                            *)
AuthFair ==
  /\ WF_authVars(Perform)
  /\ WF_authVars(SubmitWrites)
  /\ WF_authVars(PamAccepts \/ PamRefuses)
  /\ WF_authVars(TimePasses)
  /\ WF_authVars(ClearLockout)
  /\ WF_authVars(HintLands)
  /\ WF_authVars(\E t \in Threads : BioStep(t))

AuthSpec == AuthInit /\ [][AuthNext]_authVars /\ AuthFair

-----------------------------------------------------------------------------
(* A password shown as being checked is the last one submitted, and PAM    *)
(* has yet to answer it, whichever attempts of earlier locks answer first; *)
(* or it never will, for want of a thread to ask it on.                    *)
PasswordInFlight == busy = "password" => asked \in pam \cup unasked

(* Failures that have reached max_tries always have a lockout beside them: *)
(* no order of unlocks, locks and late answers leaves the count and loses  *)
(* the lockout, for then the next typo would lock the user out at once.    *)
LimitHolds == MaxTries > 0 /\ failures >= MaxTries => until # 0

(* A lockout that runs ends by the clock, by a success, or with the lock;  *)
(* the thread of an earlier one does not cut it short.                     *)
LockoutHolds == [][LockedOut => LockedOut' \/ passed' # passed \/ ~want' \/ ~want \/ held # held']_authVars

(* Every lockout is taken away, with nobody pressing a key, and with a     *)
(* password alone the field always comes back. What it takes is a thread:  *)
(* a lockout without one is over all the same once its time has passed,    *)
(* and shown until a key is pressed; an attempt without one is the end of  *)
(* the field.                                                              *)
FieldReturns ==
  []<>(/\ until = 0 \/ (until \in unwatched /\ ~LockedOut)
       /\ kit \subseteq {"logind"} => busy = "none" \/ asked \in unasked)

(* "They run alongside the field": a lock screen's field takes a password  *)
(* sooner or later, whether or not anybody touches the reader. It does not *)
(* hold: the mark of a finger waited for is the field's too.               *)
Alongside == want ~> Accepts \/ ~want

(* What logind is left with, once every call has landed, is whether a lock *)
(* is held: "no ending can leave logind reporting a session locked that    *)
(* nothing is covering". It does not hold: the calls race each other.      *)
HintSettles == "logind" \in kit /\ calls = {} => hint = held

(* busy: "An authentication attempt is in flight; the field is inert until *)
(* it lands". It does not hold: a finger let go of by an unlock still marks*)
(* the field, and a password's answer takes the mark of a face away.       *)
BusyIsReal ==
  busy \in {"finger", "face"} =>
    \E t \in Threads : t.method = busy /\ bio[t].at # "off"

(* What an attempt leaves behind is its own: neither the field's mark nor  *)
(* the count of failures is left where nothing will take it down.          *)
AttemptsKept == PasswordInFlight /\ LimitHolds

(* A lockout lasts as long as it says, and what it and an attempt hold     *)
(* back comes back.                                                        *)
LockoutRuns == LockoutHolds /\ FieldReturns
=============================================================================
