--------------------------- MODULE ServicesProofs ---------------------------
(* What is proved of the services, for any constants that their modules    *)
(* allow: a part for each, with an inductive invariant of its own.         *)
EXTENDS MCServices, LockDriverProofs, SequenceTheorems, FiniteSetTheorems, TLAPS

-----------------------------------------------------------------------------
(* LockAuth: what an attempt to unlock leaves behind, and how long a       *)
(* lockout lasts.                                                          *)

(* The deadlines of lockouts are numbered, and pass in that order.         *)
Clock == deadlines \in Nat /\ passed \in Nat /\ passed <= deadlines /\ until \in Nat /\ failures \in Nat

(* The counts are what an attempt can have brought them to.                *)
AuthInv == Clock /\ asked \in Nat /\ AttemptsKept

(* The steps that neither fail an attempt, nor forgive, nor let time pass. *)
Untimed == UNCHANGED <<deadlines, passed>> /\ (UNCHANGED <<failures, until>> \/ (failures' = 0 /\ until' = 0))

(* A password's mark is left, taken off, or another method's.              *)
NotAsked == UNCHANGED <<asked, pam, unasked>> /\ busy' \in {busy, "none", "finger", "face"}

LEMMA AuthConstants == MaxTries \in Nat
BY LockAuthAssumption

-----------------------------------------------------------------------------
(* A success and a lock given up end what was counted for them.            *)
LEMMA SucceedEnds ==
  ASSUME Succeed
  PROVE  busy' = "none" /\ failures' = 0 /\ until' = 0 /\ ~want'
BY DEF Succeed, Tell

LEMMA PerformKeeps ==
  ASSUME Perform
  PROVE  /\ Untimed /\ NotAsked
         /\ UNCHANGED until \/ held' # held
<1>1. UNCHANGED <<busy, pamVars, clockVars>>
  BY Zenon DEF Perform
<1>2. CASE Take
  BY <1>1, <1>2 DEF Take, Untimed, NotAsked, pamVars, clockVars
<1>3. CASE Release
  BY <1>1, <1>3 DEF Release, Untimed, NotAsked, pamVars, clockVars
<1>4. CASE UNCHANGED <<held, takes, current, calls, want, failures, until, bio>>
  BY <1>1, <1>4 DEF Untimed, NotAsked, pamVars, clockVars
<1> QED
  BY <1>2, <1>3, <1>4, Zenon DEF Perform

(* A biometric thread takes no part in the lockout but by a success, and   *)
(* no part in a password.                                                  *)
LEMMA BioKeeps ==
  ASSUME SensorAnswers \/ ReaderAway \/ RetryFace \/ \E t \in Threads : BioStep(t)
  PROVE  /\ Untimed /\ NotAsked
         /\ UNCHANGED until \/ ~want'
<1>r. UNCHANGED <<deadlines, passed, asked, pam, unasked>>
  BY DEF SensorAnswers, ReaderAway, RetryFace, BioStep, BioRest, pamVars, clockVars
<1>1. CASE UNCHANGED sharedVars
  BY <1>r, <1>1 DEF sharedVars, Untimed, NotAsked
<1>2. CASE busy' \in {busy, "none", "finger", "face"} /\ UNCHANGED <<want, failures, until, unseen>>
  BY <1>r, <1>2 DEF Untimed, NotAsked
<1>3. CASE Succeed
  BY <1>r, <1>3, SucceedEnds DEF Untimed, NotAsked
<1>4. ASSUME NEW t \in Threads, Matches(t) \/ Breaks(t) \/ NoReader(t) \/ Checks(t) \/ Judges(t)
      PROVE  UNCHANGED sharedVars
  BY <1>4 DEF Matches, Breaks, NoReader, Checks, Judges
<1>5. ASSUME NEW t \in Threads, Mismatches(t) \/ Marks(t) \/ Clears(t)
      PROVE  busy' \in {busy, "none", "finger", "face"} /\ UNCHANGED <<want, failures, until, unseen>>
  <2>1. t.method \in {"finger", "face"}
    BY DEF Threads
  <2> QED
    BY <1>5, <2>1 DEF Mismatches, Marks, Clears
<1>6. ASSUME NEW t \in Threads, Opens(t)
      PROVE  Succeed
  BY <1>6 DEF Opens
<1>7. RetryFace => UNCHANGED sharedVars
  BY DEF RetryFace
<1> QED
  BY <1>1, <1>2, <1>3, <1>4, <1>5, <1>6, <1>7 DEF SensorAnswers, ReaderAway, BioStep

(* Whoever did not submit, was not answered and is not the clock.          *)
Bystander ==
  \/ LockAsked \/ UnlockAsked \/ Perform \/ Ended \/ HintLands \/ SubmitReads
  \/ SensorAnswers \/ ReaderAway \/ RetryFace \/ (\E t \in Threads : BioStep(t))
  \/ UNCHANGED authVars

LEMMA BystanderKeeps ==
  ASSUME Bystander
  PROVE  /\ Untimed /\ NotAsked
         /\ UNCHANGED until \/ held' # held \/ ~want \/ ~want'
<1>1. CASE LockAsked
  BY <1>1 DEF LockAsked, Untimed, NotAsked, pamVars, clockVars
<1>2. CASE UnlockAsked
  BY <1>2 DEF UnlockAsked, Tell, Untimed, NotAsked, pamVars, clockVars
<1>3. CASE Perform
  BY <1>3, PerformKeeps
<1>4. CASE Ended \/ HintLands \/ SubmitReads
  BY <1>4 DEF Ended, HintLands, SubmitReads, Untimed, NotAsked, pamVars, clockVars, sharedVars
<1>5. CASE SensorAnswers \/ ReaderAway \/ RetryFace \/ \E t \in Threads : BioStep(t)
  BY <1>5, BioKeeps
<1>6. CASE UNCHANGED authVars
  BY <1>6 DEF authVars, sharedVars, pamVars, clockVars, Untimed, NotAsked
<1> QED
  BY <1>1, <1>2, <1>3, <1>4, <1>5, <1>6 DEF Bystander

LEMMA BystanderInv ==
  ASSUME AuthInv, Bystander
  PROVE  AuthInv'
<1> USE AuthConstants DEF AuthInv, Clock
<1>1. Untimed /\ NotAsked
  BY BystanderKeeps
<1>2. Clock' /\ asked' \in Nat
  BY <1>1 DEF Untimed, NotAsked
<1>3. LimitHolds'
  BY <1>1 DEF AttemptsKept, LimitHolds, Untimed
<1>4. PasswordInFlight'
  BY <1>1 DEF AttemptsKept, PasswordInFlight, NotAsked
<1> QED
  BY <1>2, <1>3, <1>4 DEF AttemptsKept

(* An answer of PAM's: the password is no longer being checked.            *)
LEMMA RefusedInv ==
  ASSUME AuthInv, PamRefuses
  PROVE  AuthInv' /\ passed' = passed /\ until' \in {until, deadlines + 1}
<1> USE AuthConstants DEF AuthInv, Clock
<1>1. /\ busy' = "none" /\ failures' = failures + 1 /\ passed' = passed /\ asked' = asked
      /\ \/ failures' >= MaxTries /\ deadlines' = deadlines + 1 /\ until' = deadlines + 1
         \/ ~(MaxTries > 0 /\ failures' >= MaxTries) /\ deadlines' = deadlines /\ until' = until
  BY DEF PamRefuses, Fail
<1>2. Clock' /\ asked' \in Nat
  BY <1>1
<1>3. LimitHolds'
  BY <1>1 DEF LimitHolds
<1>4. PasswordInFlight'
  BY <1>1 DEF PasswordInFlight
<1> QED
  BY <1>1, <1>2, <1>3, <1>4 DEF AttemptsKept

-----------------------------------------------------------------------------
LEMMA AuthInvInit == AuthInit => AuthInv
BY AuthConstants DEF AuthInit, AuthInv, Clock, AttemptsKept, PasswordInFlight, LimitHolds

LEMMA AuthInvNext == AuthInv /\ [AuthNext]_authVars => AuthInv'
<1> SUFFICES ASSUME AuthInv, [AuthNext]_authVars
             PROVE  AuthInv'
  OBVIOUS
<1> USE AuthConstants DEF AuthInv, Clock
<1>1. CASE Bystander
  BY <1>1, BystanderInv
<1>2. CASE SubmitWrites
  <2>1. UNCHANGED <<deadlines, passed, until, failures>> /\ asked' = asked + 1 /\ asked' \in pam' \cup unasked'
    BY <1>2 DEF SubmitWrites, clockVars
  <2> QED
    BY <2>1 DEF AttemptsKept, PasswordInFlight, LimitHolds
<1>3. CASE PamAccepts
  <2>1. UNCHANGED <<deadlines, passed, asked>> /\ busy' = "none" /\ failures' = 0 /\ until' = 0
    BY <1>3, SucceedEnds DEF PamAccepts, clockVars
  <2> QED
    BY <2>1 DEF AttemptsKept, PasswordInFlight, LimitHolds
<1>4. CASE PamRefuses
  BY <1>4, RefusedInv
<1>5. CASE TimePasses
  <2>1. UNCHANGED <<deadlines, until, failures, asked, busy, pam, unasked>> /\ passed' = passed + 1 /\ passed < deadlines
    BY <1>5 DEF TimePasses, sharedVars, pamVars
  <2> QED
    BY <2>1 DEF AttemptsKept, PasswordInFlight, LimitHolds
<1>6. CASE ClearLockout
  <2>1. UNCHANGED <<deadlines, passed, asked, busy, pam, unasked>>
        /\ (UNCHANGED <<failures, until>> \/ (failures' = 0 /\ until' = 0))
    BY <1>6 DEF ClearLockout, Forgiven, pamVars
  <2> QED
    BY <2>1 DEF AttemptsKept, PasswordInFlight, LimitHolds
<1> QED
  BY <1>1, <1>2, <1>3, <1>4, <1>5, <1>6 DEF AuthNext, Bystander

(* The counts of the attempts, and what they leave behind, are right.      *)
THEOREM AuthInvAlways == AuthSpec => []AuthInv
BY AuthInvInit, AuthInvNext, PTL DEF AuthSpec

(* What an attempt leaves behind is its own: a password shown as being     *)
(* checked is one PAM has yet to answer, or one that had no thread to be   *)
(* asked on, and a count that has reached the limit has a lockout beside   *)
(* it, whichever thread of whichever lock ends in between.                 *)
THEOREM AttemptsKeptAlways == AuthSpec => []AttemptsKept
<1>1. AuthInv => AttemptsKept
  BY DEF AuthInv
<1> QED
  BY <1>1, AuthInvAlways, PTL

(* No lockout is cut short but by the clock, a success or the lock's end.  *)
THEOREM LockoutHoldsAlways == AuthSpec => LockoutHolds
<1> DEFINE Kept == LockedOut' \/ passed' # passed \/ ~want' \/ ~want \/ held # held'
<1>1. ASSUME AuthInv, [AuthNext]_authVars, LockedOut
      PROVE  Kept
  <2> USE DEF AuthInv, Clock, LockedOut
  <2>1. CASE Bystander
    BY <1>1, <2>1, BystanderKeeps DEF Untimed
  <2>2. CASE SubmitWrites
    BY <1>1, <2>2 DEF SubmitWrites, clockVars
  <2>3. CASE PamAccepts
    BY <2>3, SucceedEnds DEF PamAccepts
  <2>4. CASE PamRefuses
    BY <1>1, <2>4, RefusedInv
  <2>5. CASE TimePasses
    BY <1>1, <2>5 DEF TimePasses
  <2>6. CASE ClearLockout
    BY <1>1, <2>6 DEF ClearLockout, Forgiven
  <2> QED
    BY <1>1, <2>1, <2>2, <2>3, <2>4, <2>5, <2>6 DEF AuthNext, Bystander
<1>2. AuthInv /\ [AuthNext]_authVars => [LockedOut => Kept]_authVars
  BY <1>1
<1> QED
  BY <1>2, AuthInvAlways, PTL DEF AuthSpec, LockoutHolds

-----------------------------------------------------------------------------
(* The locks asked for and not yet taken, one more or one less.            *)
LEMMA WantedFinite ==
  ASSUME NEW q \in Seq(BOOLEAN)
  PROVE  IsFiniteSet(LocksWanted(q)) /\ Cardinality(LocksWanted(q)) \in Nat
<1>1. IsFiniteSet(1 .. Len(q)) /\ LocksWanted(q) \in SUBSET (1 .. Len(q))
  BY FS_Interval DEF LocksWanted
<1>2. IsFiniteSet(LocksWanted(q))
  BY <1>1, FS_Subset
<1> QED
  BY <1>2, FS_CardinalityType

LEMMA WantedMore ==
  ASSUME NEW q \in Seq(BOOLEAN), NEW w \in BOOLEAN
  PROVE  /\ w = TRUE => Cardinality(LocksWanted(Append(q, w))) = Cardinality(LocksWanted(q)) + 1
         /\ w = FALSE => Cardinality(LocksWanted(Append(q, w))) = Cardinality(LocksWanted(q))
<1>1. /\ Len(q) \in Nat /\ DOMAIN q = 1 .. Len(q) /\ DOMAIN Append(q, w) = 1 .. Len(q) + 1
      /\ Append(q, w)[Len(q) + 1] = w /\ \A i \in 1 .. Len(q) : Append(q, w)[i] = q[i]
  OBVIOUS
<1>2. 1 .. Len(q) + 1 = (1 .. Len(q)) \cup {Len(q) + 1} /\ Len(q) + 1 \notin 1 .. Len(q)
  BY <1>1
<1>3. /\ w = TRUE => LocksWanted(Append(q, w)) = LocksWanted(q) \cup {Len(q) + 1}
      /\ w = FALSE => LocksWanted(Append(q, w)) = LocksWanted(q)
  BY <1>1, <1>2 DEF LocksWanted
<1>4. Len(q) + 1 \notin LocksWanted(q)
  BY <1>1, <1>2 DEF LocksWanted
<1>5. Cardinality(LocksWanted(q) \cup {Len(q) + 1}) = Cardinality(LocksWanted(q)) + 1
  BY <1>4, WantedFinite, FS_AddElement
<1> QED
  BY <1>3, <1>5, WantedFinite

LEMMA WantedLess ==
  ASSUME NEW q \in Seq(BOOLEAN), q # <<>>
  PROVE  /\ Head(q) = TRUE => Cardinality(LocksWanted(q)) = Cardinality(LocksWanted(Tail(q))) + 1
         /\ Head(q) = FALSE => Cardinality(LocksWanted(q)) = Cardinality(LocksWanted(Tail(q)))
<1> DEFINE S == LocksWanted(q) \ {1}
           T == LocksWanted(Tail(q))
           f == [i \in T |-> i + 1]
<1>1. /\ Len(q) \in Nat /\ DOMAIN q = 1 .. Len(q) /\ Len(q) # 0 /\ 1 \in DOMAIN q /\ Head(q) = q[1]
      /\ Tail(q) \in Seq(BOOLEAN) /\ Len(Tail(q)) = Len(q) - 1
  OBVIOUS
<1>2. DOMAIN Tail(q) = 1 .. Len(q) - 1 /\ \A i \in 1 .. Len(q) - 1 : Tail(q)[i] = q[i + 1]
  BY <1>1
<1>3. \A i \in T : i \in Nat /\ f[i] = i + 1 /\ i + 1 \in S
  BY <1>1, <1>2 DEF LocksWanted
<1>4. \A j \in S : j \in Nat /\ j - 1 \in T /\ (j - 1) + 1 = j
  BY <1>1, <1>2 DEF LocksWanted
<1>5. f \in Bijection(T, S)
  <2>1. f \in [T -> S] /\ \A i, j \in T : f[i] = f[j] => i = j
    BY <1>3
  <2>2. \A j \in S : \E i \in T : f[i] = j
    BY <1>3, <1>4
  <2> QED
    BY <2>1, <2>2 DEF Bijection, Injection, Surjection, IsInjective
<1>6. Cardinality(S) = Cardinality(T)
  BY <1>1, <1>5, WantedFinite, FS_Bijection DEF ExistsBijection
<1>7. Cardinality(S) = IF 1 \in LocksWanted(q) THEN Cardinality(LocksWanted(q)) - 1 ELSE Cardinality(LocksWanted(q))
  BY WantedFinite, FS_RemoveElement
<1>8. q[1] = TRUE => 1 \in LocksWanted(q)
  BY <1>1, Zenon DEF LocksWanted
<1>9. q[1] = FALSE => 1 \notin LocksWanted(q)
  BY <1>1, Zenon DEF LocksWanted
<1> HIDE DEF S, T
<1>10. Cardinality(LocksWanted(q)) \in Nat /\ Cardinality(T) \in Nat
  BY <1>1, WantedFinite DEF T
<1>11. /\ 1 \in LocksWanted(q) => Cardinality(LocksWanted(q)) = Cardinality(T) + 1
       /\ 1 \notin LocksWanted(q) => Cardinality(LocksWanted(q)) = Cardinality(T)
  BY <1>6, <1>7, <1>10
<1>12. Head(q) = q[1]
  BY <1>1
<1> QED
  BY <1>8, <1>9, <1>11, <1>12, Zenon DEF T

-----------------------------------------------------------------------------
(* Types: the passwords bound the failures and the lockouts, the locks     *)
(* asked for bound those taken, and a biometric thread that looks has a    *)
(* try left.                                                               *)
CountsTyped ==
  /\ typed \in BOOLEAN /\ asked \in 0 .. MaxSubmits /\ pam \subseteq 1 .. asked /\ unasked \subseteq 1 .. asked
  /\ deadlines \in Nat /\ passed \in 0 .. deadlines /\ until \in 0 .. deadlines
  /\ clearers \subseteq 1 .. deadlines /\ unwatched \subseteq 1 .. deadlines
  /\ failures \in Nat
  /\ failures + Cardinality(pam) <= asked /\ deadlines + Cardinality(pam) <= asked
  /\ typed => asked < MaxSubmits

LocksTyped ==
  /\ want \in BOOLEAN /\ held \in BOOLEAN /\ hint \in BOOLEAN
  /\ unseen \in Seq(BOOLEAN)
  /\ takes \in 0 .. MaxTakes /\ current \in {0, takes}
  /\ calls \subseteq [lock : 1 .. MaxTakes, on : BOOLEAN]
  /\ takes + Cardinality(LocksWanted(unseen)) <= MaxTakes
  /\ held = TRUE => takes > 0

BioTyped ==
  /\ busy \in {"none", "password", "finger", "face"}
  /\ bio \in [Threads -> [at : Places, left : 0 .. BioTries]]
  /\ \A t \in Threads : bio[t].at \in {"check", "mark", "verify"} => bio[t].left > 0

AuthTyped == kit \in Kits /\ CountsTyped /\ LocksTyped /\ BioTyped

LEMMA AuthBounds ==
  /\ MaxTakes \in Nat /\ MaxTakes > 0 /\ MaxSubmits \in Nat /\ MaxSubmits > 0
  /\ BioTries \in Nat /\ BioTries > 0
BY LockAuthAssumption

LEMMA AuthTypedIs == AuthTyped => AuthTypeOK
<1> SUFFICES ASSUME AuthTyped PROVE AuthTypeOK
  OBVIOUS
<1>1. IsFiniteSet(1 .. asked) /\ pam \in SUBSET (1 .. asked)
  BY AuthBounds, FS_Interval DEF AuthTyped, CountsTyped
<1>2. Cardinality(pam) \in Nat
  BY <1>1, FS_Subset, FS_CardinalityType
<1>3. failures \in 0 .. MaxSubmits /\ deadlines \in 0 .. MaxSubmits /\ passed \in 0 .. MaxSubmits /\ passed <= deadlines
  BY <1>2, AuthBounds DEF AuthTyped, CountsTyped
<1> QED
  BY <1>3 DEF AuthTyped, CountsTyped, LocksTyped, BioTyped, AuthTypeOK

(* One password less to answer.                                            *)
LEMMA PamAnswered ==
  ASSUME CountsTyped, NEW i \in pam
  PROVE  /\ Cardinality(pam) \in Nat /\ Cardinality(pam \ {i}) \in Nat
         /\ Cardinality(pam \ {i}) = Cardinality(pam) - 1
<1>1. IsFiniteSet(1 .. asked) /\ pam \in SUBSET (1 .. asked)
  BY AuthBounds, FS_Interval DEF CountsTyped
<1>2. IsFiniteSet(pam)
  BY <1>1, FS_Subset
<1> QED
  BY <1>2, FS_RemoveElement, FS_CardinalityType

(* What is forgiven, or a lockout whose thread has gone, breaks no bound.  *)
LEMMA ForgivenKeeps ==
  ASSUME CountsTyped, UNCHANGED <<typed, asked, pam, unasked, deadlines, passed, unwatched>>,
         clearers' \subseteq clearers,
         UNCHANGED <<failures, until>> \/ (failures' = 0 /\ until' = 0)
  PROVE  CountsTyped'
<1>1. CASE UNCHANGED <<failures, until>>
  BY <1>1 DEF CountsTyped
<1>2. CASE failures' = 0 /\ until' = 0
  <2>1. Cardinality(pam) \in Nat /\ asked \in Nat /\ Cardinality(pam) <= asked
    <3>1. /\ IsFiniteSet(1 .. asked) /\ pam \in SUBSET (1 .. asked) /\ asked \in Nat
      BY AuthBounds, FS_Interval DEF CountsTyped
    <3>2. Cardinality(pam) \in Nat
      BY <3>1, FS_Subset, FS_CardinalityType
    <3> QED
      BY <3>1, <3>2 DEF CountsTyped
  <2>2. 0 \in 0 .. deadlines /\ 0 + Cardinality(pam) <= asked
    BY <2>1 DEF CountsTyped
  <2> QED
    BY <1>2, <2>2 DEF CountsTyped
<1> QED
  BY <1>1, <1>2

LEMMA BystanderStill ==
  ASSUME Bystander, ~SubmitReads
  PROVE  UNCHANGED <<typed, clearers, unwatched>>
<1>1. LockAsked \/ UnlockAsked \/ Perform => UNCHANGED <<typed, clearers, unwatched>>
  BY Zenon DEF LockAsked, UnlockAsked, Perform, pamVars, clockVars
<1>4. Ended \/ HintLands => UNCHANGED <<typed, clearers, unwatched>>
  BY DEF Ended, HintLands, pamVars, clockVars
<1>2. SensorAnswers \/ ReaderAway \/ RetryFace => UNCHANGED <<typed, clearers, unwatched>>
  BY DEF SensorAnswers, ReaderAway, RetryFace, BioRest, pamVars, clockVars
<1>3. (\E t \in Threads : BioStep(t)) \/ UNCHANGED authVars => UNCHANGED <<typed, clearers, unwatched>>
  BY DEF BioStep, BioRest, pamVars, clockVars, authVars
<1> QED
  BY <1>1, <1>2, <1>3, <1>4 DEF Bystander

LEMMA CountsNext ==
  ASSUME CountsTyped, [AuthNext]_authVars
  PROVE  CountsTyped'
<1> USE AuthBounds
<1>f. Cardinality(pam) \in Nat /\ IsFiniteSet(pam)
  <2>1. IsFiniteSet(1 .. asked) /\ pam \in SUBSET (1 .. asked)
    BY FS_Interval DEF CountsTyped
  <2> QED
    BY <2>1, FS_Subset, FS_CardinalityType
<1>1. CASE Bystander /\ ~SubmitReads
  <2>1. UNCHANGED <<typed, clearers, unwatched>>
    BY <1>1, BystanderStill
  <2>2. /\ UNCHANGED <<typed, clearers, unwatched, deadlines, passed, asked, pam, unasked>>
        /\ UNCHANGED <<failures, until>> \/ (failures' = 0 /\ until' = 0)
    BY <1>1, <2>1, BystanderKeeps DEF Untimed, NotAsked
  <2> QED
    BY <2>2, ForgivenKeeps
<1>2. CASE SubmitReads
  BY <1>2 DEF SubmitReads, CountsTyped, sharedVars, clockVars
<1>3. CASE SubmitWrites
  <2>1. /\ UNCHANGED <<failures, until, deadlines, passed, clearers, unwatched>>
        /\ typed = TRUE /\ typed' = FALSE /\ asked' = asked + 1
        /\ \/ pam' = pam \cup {asked + 1} /\ unasked' = unasked
           \/ pam' = pam /\ unasked' = unasked \cup {asked + 1}
    BY <1>3 DEF SubmitWrites, clockVars, CountsTyped
  <2>2. asked + 1 \notin pam /\ asked \in Nat /\ asked < MaxSubmits
    BY <2>1 DEF CountsTyped
  <2>3. Cardinality(pam') \in {Cardinality(pam), Cardinality(pam) + 1}
    BY <1>f, <2>1, <2>2, FS_AddElement
  <2>4. asked' \in 0 .. MaxSubmits /\ pam' \subseteq 1 .. asked' /\ unasked' \subseteq 1 .. asked'
    <3>1. /\ 1 .. asked + 1 = (1 .. asked) \cup {asked + 1} /\ asked + 1 \in 0 .. MaxSubmits
          /\ pam \subseteq 1 .. asked /\ unasked \subseteq 1 .. asked
      BY <2>2 DEF CountsTyped
    <3> QED
      BY <2>1, <3>1
  <2>5. failures' + Cardinality(pam') <= asked' /\ deadlines' + Cardinality(pam') <= asked'
    BY <1>f, <2>1, <2>2, <2>3 DEF CountsTyped
  <2> QED
    BY <2>1, <2>4, <2>5 DEF CountsTyped
<1>4. CASE PamAccepts
  <2>1. PICK i \in pam : pam' = pam \ {i}
    BY <1>4 DEF PamAccepts
  <2>2. UNCHANGED <<typed, asked, unasked, deadlines, passed, clearers, unwatched>> /\ failures' = 0 /\ until' = 0
    BY <1>4, SucceedEnds DEF PamAccepts, clockVars
  <2> QED
    BY <2>1, <2>2, PamAnswered DEF CountsTyped
<1>5. CASE PamRefuses
  <2>1. PICK i \in pam : pam' = pam \ {i}
    BY <1>5 DEF PamRefuses
  <2>2. /\ UNCHANGED <<typed, asked, unasked, passed>> /\ failures' = failures + 1
        /\ \/ /\ deadlines' = deadlines + 1 /\ until' = deadlines + 1
              /\ clearers' \subseteq clearers \cup {deadlines + 1}
              /\ unwatched' \subseteq unwatched \cup {deadlines + 1}
           \/ UNCHANGED <<deadlines, until, clearers, unwatched>>
    BY <1>5 DEF PamRefuses, Fail
  <2>3. /\ Cardinality(pam) \in Nat /\ Cardinality(pam') = Cardinality(pam) - 1 /\ pam' \subseteq 1 .. asked
    BY <2>1, PamAnswered DEF CountsTyped
  <2>4. failures' + Cardinality(pam') <= asked' /\ deadlines' + Cardinality(pam') <= asked'
    BY <2>2, <2>3 DEF CountsTyped
  <2>5. /\ failures' \in Nat /\ deadlines' \in Nat /\ passed' \in 0 .. deadlines' /\ until' \in 0 .. deadlines'
        /\ clearers' \subseteq 1 .. deadlines' /\ unwatched' \subseteq 1 .. deadlines'
    <3>1. deadlines \in Nat /\ deadlines + 1 \in Nat /\ 1 .. deadlines \subseteq 1 .. deadlines + 1
          /\ passed \in 0 .. deadlines + 1 /\ deadlines + 1 \in 1 .. deadlines + 1 /\ deadlines + 1 \in 0 .. deadlines + 1
      BY DEF CountsTyped
    <3>2. /\ failures' \in Nat /\ passed \in 0 .. deadlines /\ until \in 0 .. deadlines
          /\ clearers \subseteq 1 .. deadlines /\ unwatched \subseteq 1 .. deadlines /\ passed' = passed
      BY <2>2 DEF CountsTyped
    <3> QED
      BY <2>2, <3>1, <3>2
  <2> QED
    BY <2>2, <2>3, <2>4, <2>5 DEF CountsTyped
<1>6. CASE TimePasses
  BY <1>6 DEF TimePasses, CountsTyped, sharedVars, pamVars
<1>7. CASE ClearLockout
  <2>1. /\ UNCHANGED <<typed, asked, pam, unasked, deadlines, passed, unwatched>> /\ clearers' \subseteq clearers
        /\ UNCHANGED <<failures, until>> \/ (failures' = 0 /\ until' = 0)
    BY <1>7 DEF ClearLockout, Forgiven, pamVars
  <2> QED
    BY <2>1, ForgivenKeeps
<1> QED
  BY <1>1, <1>2, <1>3, <1>4, <1>5, <1>6, <1>7 DEF AuthNext, Bystander

(* A value told at the end, or the one there already.                      *)
LEMMA TellKeeps ==
  ASSUME LocksTyped, NEW w \in BOOLEAN, Tell(unseen, w), UNCHANGED <<hint, held, takes, current, calls>>,
         w = TRUE => takes + Cardinality(LocksWanted(unseen)) < MaxTakes
  PROVE  LocksTyped'
<1>1. unseen \in Seq(BOOLEAN) /\ takes \in Nat
  BY AuthBounds DEF LocksTyped
<1>2. want' = w /\ (unseen' = unseen \/ unseen' = Append(unseen, w))
  BY Zenon DEF Tell
<1>3. Cardinality(LocksWanted(unseen)) \in Nat /\ Append(unseen, w) \in Seq(BOOLEAN)
  BY <1>1, WantedFinite
<1>4. /\ w = TRUE => Cardinality(LocksWanted(Append(unseen, w))) = Cardinality(LocksWanted(unseen)) + 1
      /\ w = FALSE => Cardinality(LocksWanted(Append(unseen, w))) = Cardinality(LocksWanted(unseen))
  BY <1>1, WantedMore
<1>5. takes + Cardinality(LocksWanted(unseen')) <= MaxTakes
  <2>1. takes + Cardinality(LocksWanted(unseen)) <= MaxTakes
    BY DEF LocksTyped
  <2>2. CASE unseen' = unseen
    BY <2>1, <2>2
  <2>3. CASE unseen' = Append(unseen, w) /\ w = FALSE
    BY <1>4, <2>1, <2>3
  <2>4. CASE unseen' = Append(unseen, w) /\ w = TRUE
    <3>1. Cardinality(LocksWanted(unseen')) = Cardinality(LocksWanted(unseen)) + 1
      BY <1>4, <2>4
    <3>2. takes + Cardinality(LocksWanted(unseen)) < MaxTakes
      BY <2>4
    <3> QED
      BY <1>1, <1>3, <3>1, <3>2, AuthBounds
  <2> QED
    BY <1>2, <2>2, <2>3, <2>4
<1>6. takes' + Cardinality(LocksWanted(unseen')) <= MaxTakes
  BY <1>5
<1> QED
  BY <1>1, <1>2, <1>3, <1>6 DEF LocksTyped

(* The hint logind is sent is about a lock there has been.                 *)
LEMMA HintKeeps ==
  ASSUME calls \subseteq [lock : 1 .. MaxTakes, on : BOOLEAN], NEW n \in 1 .. MaxTakes, NEW on \in BOOLEAN, Hint(n, on)
  PROVE  calls' \subseteq [lock : 1 .. MaxTakes, on : BOOLEAN]
<1>1. [lock |-> n, on |-> on] \in [lock : 1 .. MaxTakes, on : BOOLEAN]
  OBVIOUS
<1> QED
  BY <1>1 DEF Hint

LEMMA PerformTypes ==
  ASSUME LocksTyped, Perform
  PROVE  LocksTyped'
<1> USE AuthBounds
<1>1. /\ unseen \in Seq(BOOLEAN) /\ unseen # <<>> /\ unseen' = Tail(unseen) /\ hint' = hint
      /\ takes \in Nat /\ takes <= MaxTakes
  <2>1. unseen # <<>> /\ unseen' = Tail(unseen) /\ hint' = hint
    BY Zenon DEF Perform
  <2> QED
    BY <2>1 DEF LocksTyped
<1>2. /\ Head(unseen) \in BOOLEAN /\ unseen' \in Seq(BOOLEAN)
      /\ Cardinality(LocksWanted(unseen)) \in Nat /\ Cardinality(LocksWanted(unseen')) \in Nat
  <2>1. Head(unseen) \in BOOLEAN /\ Tail(unseen) \in Seq(BOOLEAN)
    BY <1>1, HeadTailProperties
  <2> QED
    BY <1>1, <2>1, WantedFinite
<1>3. /\ Head(unseen) = TRUE => Cardinality(LocksWanted(unseen)) = Cardinality(LocksWanted(unseen')) + 1
      /\ Head(unseen) = FALSE => Cardinality(LocksWanted(unseen)) = Cardinality(LocksWanted(unseen'))
  <2>1. unseen \in Seq(BOOLEAN) /\ unseen # <<>> /\ unseen' = Tail(unseen)
    BY <1>1
  <2>2. /\ Head(unseen) = TRUE => Cardinality(LocksWanted(unseen)) = Cardinality(LocksWanted(Tail(unseen))) + 1
        /\ Head(unseen) = FALSE => Cardinality(LocksWanted(unseen)) = Cardinality(LocksWanted(Tail(unseen)))
    BY <2>1, WantedLess, Zenon
  <2> QED
    BY <2>1, <2>2, Zenon
<1>4. /\ takes + Cardinality(LocksWanted(unseen')) <= MaxTakes
      /\ Head(unseen) = TRUE => takes + 1 + Cardinality(LocksWanted(unseen')) <= MaxTakes
  <2>1. takes + Cardinality(LocksWanted(unseen)) <= MaxTakes
    BY DEF LocksTyped
  <2>2. CASE Head(unseen) = TRUE
    <3>1. Cardinality(LocksWanted(unseen)) = Cardinality(LocksWanted(unseen')) + 1
      BY <1>3, <2>2, Zenon
    <3>2. \A a, b, c, d \in Nat : a + b <= c /\ b = d + 1 => a + d <= c /\ a + 1 + d <= c
      OBVIOUS
    <3>3. Cardinality(LocksWanted(unseen)) \in Nat /\ Cardinality(LocksWanted(unseen')) \in Nat
      BY <1>2, Zenon
    <3>4. takes + Cardinality(LocksWanted(unseen')) <= MaxTakes /\ takes + 1 + Cardinality(LocksWanted(unseen')) <= MaxTakes
      BY <1>1, <2>1, <3>1, <3>2, <3>3
    <3> QED
      BY <3>4, Zenon
  <2>3. CASE Head(unseen) = FALSE
    <3>1. Cardinality(LocksWanted(unseen)) = Cardinality(LocksWanted(unseen'))
      BY <1>3, <2>3, Zenon
    <3>2. takes + Cardinality(LocksWanted(unseen')) <= MaxTakes
      BY <2>1, <3>1, Zenon
    <3> QED
      BY <2>3, <3>2, Zenon
  <2> QED
    BY <1>2, <2>2, <2>3, Zenon
<1>5. \/ Head(unseen) = TRUE /\ Take
      \/ Release
      \/ UNCHANGED <<held, takes, current, calls, want>>
  BY <1>2, Zenon DEF Perform
<1>6. CASE Head(unseen) = TRUE /\ Take
  <2>1. /\ held' = TRUE /\ takes' = takes + 1 /\ current' = takes + 1 /\ want' = want /\ Hint(takes + 1, TRUE)
    BY <1>6, Zenon DEF Take
  <2>2. takes + 1 \in 1 .. MaxTakes /\ takes' + Cardinality(LocksWanted(unseen')) <= MaxTakes
    <3>1. takes + 1 + Cardinality(LocksWanted(unseen')) <= MaxTakes
      BY <1>4, <1>6, Zenon
    <3> QED
      BY <1>1, <1>2, <2>1, <3>1
  <2>3. calls' \subseteq [lock : 1 .. MaxTakes, on : BOOLEAN]
    BY <2>1, <2>2, HintKeeps DEF LocksTyped
  <2>4. want \in BOOLEAN /\ hint \in BOOLEAN
    BY DEF LocksTyped
  <2> QED
    BY <1>1, <1>2, <2>1, <2>2, <2>3, <2>4 DEF LocksTyped
<1>7. CASE Release
  <2>1. held = TRUE /\ held' = FALSE /\ takes' = takes /\ current' = 0 /\ want' = want /\ Hint(takes, FALSE)
    BY <1>7 DEF Release, LocksTyped
  <2>2. takes \in 1 .. MaxTakes /\ takes' + Cardinality(LocksWanted(unseen')) <= MaxTakes
    <3>1. takes + Cardinality(LocksWanted(unseen')) <= MaxTakes
      BY <1>4, Zenon
    <3> QED
      BY <1>1, <2>1, <3>1 DEF LocksTyped
  <2>3. calls' \subseteq [lock : 1 .. MaxTakes, on : BOOLEAN]
    BY <2>1, <2>2, HintKeeps DEF LocksTyped
  <2>4. want \in BOOLEAN /\ hint \in BOOLEAN
    BY DEF LocksTyped
  <2> QED
    BY <1>1, <1>2, <2>1, <2>2, <2>3, <2>4 DEF LocksTyped
<1>8. CASE UNCHANGED <<held, takes, current, calls, want>>
  <2>1. takes' + Cardinality(LocksWanted(unseen')) <= MaxTakes
    BY <1>4, <1>8, Zenon
  <2> QED
    BY <1>1, <1>2, <1>8, <2>1 DEF LocksTyped
<1> QED
  BY <1>5, <1>6, <1>7, <1>8, Zenon

LEMMA EndedTypes ==
  ASSUME LocksTyped, Ended
  PROVE  LocksTyped'
<1> USE AuthBounds
<1>1. /\ held = TRUE /\ held' = FALSE /\ takes' = takes /\ current' = 0 /\ want' = FALSE /\ hint' = hint
      /\ Hint(takes, FALSE) /\ (unseen' = Append(unseen, FALSE) \/ unseen' = <<>>)
  BY Zenon DEF Ended, LocksTyped
<1>2. takes \in 1 .. MaxTakes /\ takes \in Nat /\ unseen \in Seq(BOOLEAN) /\ hint \in BOOLEAN
  BY <1>1 DEF LocksTyped
<1>3. calls' \subseteq [lock : 1 .. MaxTakes, on : BOOLEAN]
  BY <1>1, <1>2, HintKeeps DEF LocksTyped
<1>4. Append(unseen, FALSE) \in Seq(BOOLEAN) /\ <<>> \in Seq(BOOLEAN)
  BY <1>2
<1>5. /\ Cardinality(LocksWanted(Append(unseen, FALSE))) = Cardinality(LocksWanted(unseen))
      /\ Cardinality(LocksWanted(<<>>)) = 0
  <2>1. LocksWanted(<<>>) = {}
    BY DEF LocksWanted
  <2>2. Cardinality(LocksWanted(unseen)) \in Nat
    BY <1>2, WantedFinite
  <2> QED
    BY <1>2, <2>1, <2>2, WantedMore, FS_EmptySet
<1>6. takes' + Cardinality(LocksWanted(unseen')) <= MaxTakes
  <2>1. takes + Cardinality(LocksWanted(unseen)) <= MaxTakes /\ takes + 0 <= MaxTakes
    BY <1>2 DEF LocksTyped
  <2> QED
    BY <1>1, <1>5, <2>1
<1> QED
  BY <1>1, <1>2, <1>3, <1>4, <1>6 DEF LocksTyped

LEMMA LocksNext ==
  ASSUME LocksTyped, [AuthNext]_authVars
  PROVE  LocksTyped'
<1>1. CASE LockAsked
  <2>1. Tell(unseen, TRUE) /\ takes + Cardinality(LocksWanted(unseen)) < MaxTakes
        /\ UNCHANGED <<hint, held, takes, current, calls>>
    BY <1>1 DEF LockAsked, holdVars
  <2> QED
    BY <2>1, TellKeeps
<1>2. ASSUME Tell(unseen, FALSE), UNCHANGED <<hint, held, takes, current, calls>>
      PROVE  LocksTyped'
  BY <1>2, TellKeeps
<1>3. CASE UNCHANGED <<want, held, hint, unseen, takes, current, calls>>
  BY <1>3 DEF LocksTyped
<1>4. CASE UnlockAsked \/ PamAccepts
  BY <1>2, <1>4 DEF UnlockAsked, PamAccepts, Succeed, holdVars
<1>5. CASE Perform
  BY <1>5, PerformTypes
<1>6. CASE Ended
  BY <1>6, EndedTypes
<1>7. CASE HintLands
  <2>1. PICK c \in calls : calls' = calls \ {c} /\ hint' = c.on
    BY <1>7 DEF HintLands
  <2>2. UNCHANGED <<want, held, unseen, takes, current>> /\ hint' \in BOOLEAN
    BY <1>7, <2>1 DEF HintLands, sharedVars, LocksTyped
  <2> QED
    BY <2>1, <2>2 DEF LocksTyped
<1>8. CASE SubmitReads \/ SubmitWrites \/ PamRefuses \/ TimePasses \/ ClearLockout \/ UNCHANGED authVars
  BY <1>3, <1>8 DEF SubmitReads, SubmitWrites, PamRefuses, TimePasses, ClearLockout, sharedVars, holdVars, authVars
<1>9. CASE SensorAnswers \/ ReaderAway \/ RetryFace \/ \E t \in Threads : BioStep(t)
  <2>1. UNCHANGED <<hint, held, takes, current, calls>>
    BY <1>9 DEF SensorAnswers, ReaderAway, RetryFace, BioStep, BioRest, holdVars
  <2>2. Tell(unseen, FALSE) \/ UNCHANGED <<want, unseen>>
    BY <1>9 DEF SensorAnswers, ReaderAway, RetryFace, BioStep, Matches, Mismatches, Breaks, NoReader, Checks, Marks,
       Judges, Opens, Clears, Succeed, sharedVars
  <2> QED
    BY <1>2, <1>3, <2>1, <2>2, Zenon
<1> QED
  BY <1>1, <1>4, <1>5, <1>6, <1>7, <1>8, <1>9 DEF AuthNext

(* A thread that goes on keeps its tries, and looks only with one left.    *)
LEMMA GoesKeeps ==
  ASSUME BioTyped, NEW t \in Threads, NEW spot \in Places, Goes(t, spot),
         busy' \in {"none", "password", "finger", "face"},
         spot \in {"check", "mark", "verify"} => bio[t].left > 0
  PROVE  BioTyped'
<1>1. /\ bio'[t].at = spot /\ bio'[t].left = bio[t].left /\ bio'[t] \in [at : Places, left : 0 .. BioTries]
      /\ \A u \in Threads : u # t => bio'[u] = bio[u]
      /\ bio' \in [Threads -> [at : Places, left : 0 .. BioTries]]
  BY DEF BioTyped, Goes
<1> QED
  BY <1>1 DEF BioTyped

LEMMA BioStepTypes ==
  ASSUME BioTyped, NEW t \in Threads,
         Checks(t) \/ Marks(t) \/ Judges(t) \/ Opens(t) \/ Clears(t) \/ Matches(t) \/ Mismatches(t) \/ Breaks(t) \/ NoReader(t)
  PROVE  BioTyped'
<1> USE AuthBounds
<1>t. /\ bio[t] \in [at : Places, left : 0 .. BioTries] /\ busy \in {"none", "password", "finger", "face"}
      /\ bio[t].at \in {"check", "mark", "verify"} => bio[t].left > 0
      /\ t.method \in {"finger", "face"}
  BY DEF BioTyped, Threads
<1>p. Leaves(t) \in {"clear", "off"} /\ {"clear", "off", "mark", "verify", "matched", "open"} \subseteq Places
  BY DEF Leaves, Places
<1>1. CASE Checks(t)
  <2>1. \E spot \in {"mark", "clear", "off"} : Goes(t, spot)
    BY <1>1, <1>p DEF Checks
  <2>2. busy' = busy /\ bio[t].at = "check"
    BY <1>1 DEF Checks, sharedVars
  <2> QED
    BY <1>t, <1>p, <2>1, <2>2, GoesKeeps
<1>2. CASE Marks(t)
  <2>1. Goes(t, "verify") /\ busy' = t.method /\ bio[t].at = "mark"
    BY <1>2 DEF Marks
  <2> QED
    BY <1>t, <1>p, <2>1, GoesKeeps
<1>3. CASE Judges(t)
  <2>1. \E spot \in {"open", "clear", "off"} : Goes(t, spot)
    BY <1>3, <1>p DEF Judges
  <2>2. busy' = busy
    BY <1>3 DEF Judges, sharedVars
  <2> QED
    BY <1>t, <1>p, <2>1, <2>2, GoesKeeps
<1>4. CASE Opens(t)
  <2>1. \E spot \in {"clear", "off"} : Goes(t, spot)
    BY <1>4, <1>p DEF Opens
  <2>2. busy' = "none"
    BY <1>4 DEF Opens, Succeed
  <2> QED
    BY <1>t, <1>p, <2>1, <2>2, GoesKeeps
<1>5. CASE Clears(t)
  <2>1. Goes(t, "off") /\ busy' = "none"
    BY <1>5 DEF Clears
  <2> QED
    BY <1>t, <1>p, <2>1, GoesKeeps
<1>6. CASE Matches(t) \/ Breaks(t) \/ NoReader(t)
  <2>1. \E spot \in {"matched", "clear", "off"} : Goes(t, spot)
    BY <1>6 DEF Matches, Breaks, NoReader
  <2>2. busy' = busy
    BY <1>6 DEF Matches, Breaks, NoReader, sharedVars
  <2> QED
    BY <1>t, <1>p, <2>1, <2>2, GoesKeeps
<1>7. CASE Mismatches(t)
  <2>1. /\ bio' = [bio EXCEPT ![t] = [at |-> IF bio[t].left = 1 THEN "clear" ELSE "check", left |-> bio[t].left - 1]]
        /\ bio[t].at = "verify"
    BY <1>7 DEF Mismatches
  <2>2. busy' \in {"none", "password", "finger", "face"}
    BY <1>7, <1>t DEF Mismatches
  <2>3. bio[t].left \in 1 .. BioTries /\ bio[t].left - 1 \in 0 .. BioTries
        /\ (bio[t].left # 1 => bio[t].left - 1 > 0)
    BY <1>t, <2>1
  <2>4. /\ bio'[t] = [at |-> IF bio[t].left = 1 THEN "clear" ELSE "check", left |-> bio[t].left - 1]
        /\ \A u \in Threads : u # t => bio'[u] = bio[u]
    BY <2>1 DEF BioTyped
  <2>5. bio'[t] \in [at : Places, left : 0 .. BioTries]
    BY <2>3, <2>4 DEF Places
  <2>6. bio'[t].at \in {"check", "mark", "verify"} => bio'[t].left > 0
    BY <2>3, <2>4
  <2>7. bio' \in [Threads -> [at : Places, left : 0 .. BioTries]]
    BY <2>1, <2>4, <2>5 DEF BioTyped
  <2> QED
    BY <2>2, <2>4, <2>6, <2>7 DEF BioTyped
<1> QED
  BY <1>1, <1>2, <1>3, <1>4, <1>5, <1>6, <1>7

LEMMA BioNext ==
  ASSUME BioTyped, LocksTyped, [AuthNext]_authVars
  PROVE  BioTyped'
<1> USE AuthBounds
<1>1. ASSUME bio' = bio, busy' \in {busy, "none", "password"}
      PROVE  BioTyped'
  BY <1>1 DEF BioTyped
<1>2. CASE LockAsked \/ UnlockAsked \/ Ended \/ HintLands \/ SubmitReads \/ SubmitWrites
  BY <1>1, <1>2, Zenon DEF LockAsked, UnlockAsked, Ended, HintLands, SubmitReads, SubmitWrites, sharedVars
<1>3. CASE PamAccepts \/ PamRefuses \/ TimePasses \/ ClearLockout \/ UNCHANGED authVars
  BY <1>1, <1>3 DEF PamAccepts, Succeed, PamRefuses, Fail, TimePasses, ClearLockout, sharedVars, authVars
<1>4. CASE Perform
  <2>1. busy' = busy /\ (bio' = bio \/ bio' = Started(takes + 1))
    BY <1>4, Zenon DEF Perform, Take, Release
  <2>2. CASE bio' = Started(takes + 1)
    <3>1. [at |-> "check", left |-> BioTries] \in [at : Places, left : 0 .. BioTries]
      BY DEF Places
    <3>2. \A t \in Threads : bio'[t] = [at |-> "check", left |-> BioTries] \/ bio'[t] = bio[t]
      BY <2>2, Zenon DEF Started
    <3>3. bio' \in [Threads -> [at : Places, left : 0 .. BioTries]]
      <4>1. DOMAIN bio' = Threads /\ bio' = [t \in Threads |-> bio'[t]]
        BY <2>2, Zenon DEF Started
      <4>2. \A t \in Threads : bio'[t] \in [at : Places, left : 0 .. BioTries]
        BY <3>1, <3>2 DEF BioTyped
      <4> QED
        BY <4>1, <4>2
    <3>4. \A t \in Threads : bio'[t].at \in {"check", "mark", "verify"} => bio'[t].left > 0
      BY <3>2 DEF BioTyped
    <3> QED
      BY <2>1, <3>3, <3>4 DEF BioTyped
  <2> QED
    BY <1>1, <2>1, <2>2
<1>5. CASE RetryFace
  <2>1. current # 0 /\ busy' = busy
        /\ LET t == [method |-> "face", lock |-> current, retry |-> TRUE]
           IN  bio' = [bio EXCEPT ![t] = [at |-> "check", left |-> 1]]
    BY <1>5 DEF RetryFace, sharedVars
  <2>2. current \in 1 .. MaxTakes
    BY <2>1 DEF LocksTyped
  <2>3. [at |-> "check", left |-> 1] \in [at : Places, left : 0 .. BioTries]
    BY DEF Places
  <2>4. PICK t \in Threads : bio' = [bio EXCEPT ![t] = [at |-> "check", left |-> 1]]
    BY <2>1, <2>2 DEF Threads
  <2>5. /\ bio'[t] = [at |-> "check", left |-> 1] /\ \A u \in Threads : u # t => bio'[u] = bio[u]
        /\ bio' \in [Threads -> [at : Places, left : 0 .. BioTries]]
    BY <2>3, <2>4 DEF BioTyped
  <2> QED
    BY <2>1, <2>5 DEF BioTyped
<1>6. CASE SensorAnswers \/ ReaderAway \/ \E t \in Threads : BioStep(t)
  BY <1>6, BioStepTypes DEF SensorAnswers, ReaderAway, BioStep
<1> QED
  BY <1>2, <1>3, <1>4, <1>5, <1>6 DEF AuthNext

LEMMA AuthTypedNext ==
  ASSUME AuthTyped, [AuthNext]_authVars
  PROVE  AuthTyped'
<1>1. kit' = kit
  <2>1. LockAsked \/ UnlockAsked \/ Perform \/ Ended \/ HintLands => kit' = kit
    BY Zenon DEF LockAsked, UnlockAsked, Perform, Ended, HintLands
  <2>2. SubmitReads \/ SubmitWrites \/ PamAccepts \/ PamRefuses \/ TimePasses \/ ClearLockout => kit' = kit
    BY Zenon DEF SubmitReads, SubmitWrites, PamAccepts, PamRefuses, TimePasses, ClearLockout
  <2>3. SensorAnswers \/ ReaderAway \/ RetryFace \/ (\E t \in Threads : BioStep(t)) => kit' = kit
    BY DEF SensorAnswers, ReaderAway, RetryFace, BioStep, BioRest
  <2> QED
    BY <2>1, <2>2, <2>3, Zenon DEF AuthNext, authVars
<1> QED
  BY <1>1, CountsNext, LocksNext, BioNext DEF AuthTyped

LEMMA AuthTypedInit == AuthInit => AuthTyped
<1> SUFFICES ASSUME AuthInit PROVE AuthTyped
  OBVIOUS
<1> USE AuthBounds
<1>1. LocksWanted(<<>>) = {} /\ Cardinality({}) = 0 /\ <<>> \in Seq(BOOLEAN)
  <2>1. LocksWanted(<<>>) = {}
    BY DEF LocksWanted
  <2>2. <<>> \in Seq(BOOLEAN)
    OBVIOUS
  <2> QED
    BY <2>1, <2>2, FS_EmptySet
<1>2. CountsTyped
  <2>1. /\ asked = 0 /\ pam = {} /\ Cardinality(pam) = 0 /\ failures = 0 /\ deadlines = 0 /\ passed = 0 /\ until = 0
        /\ clearers = {} /\ unwatched = {} /\ unasked = {} /\ typed = FALSE
    BY <1>1, Zenon DEF AuthInit
  <2>2. 0 \in 0 .. MaxSubmits /\ 0 \in 0 .. 0 /\ 0 \in Nat /\ 0 + 0 <= 0
    OBVIOUS
  <2> QED
    BY <2>1, <2>2 DEF CountsTyped
<1>3. LocksTyped
  <2>1. Cardinality(LocksWanted(unseen)) = 0
    BY <1>1, Zenon DEF AuthInit
  <2>2. 0 \in 0 .. MaxTakes /\ 0 + 0 <= MaxTakes
    OBVIOUS
  <2>3. unseen = <<>> /\ takes = 0 /\ held = FALSE /\ current = 0 /\ calls = {} /\ want = FALSE /\ hint = FALSE
    BY DEF AuthInit
  <2>4. takes + Cardinality(LocksWanted(unseen)) <= MaxTakes
    BY <2>1, <2>3
  <2> QED
    BY <1>1, <2>2, <2>3, <2>4 DEF LocksTyped
<1>4. BioTyped
  BY DEF AuthInit, BioTyped, Places
<1> QED
  BY <1>2, <1>3, <1>4 DEF AuthInit, AuthTyped

-----------------------------------------------------------------------------
(* Idle: the stages that count down are those that should, and what has   *)
(* fired is what they counted.                                             *)

(* What the compositor has sent was sent to handles armed by then.         *)
SentBefore == \A i \in DOMAIN sent : sent[i].arm <= arms

(* A countdown still to be read is over for the compositor, or is followed *)
(* by the return that took it back.                                        *)
IdledOrFollowed ==
  \A i \in DOMAIN sent : Mine(sent[i]) /\ sent[i].idle =>
    \/ sent[i].stage \in idled
    \/ \E j \in DOMAIN sent : j > i /\ Mine(sent[j]) /\ sent[j].stage = sent[i].stage

IdleInv == IdleTypeOK /\ SentBefore /\ InhibitHolds /\ FiredIsIdle /\ IdledOrFollowed

-----------------------------------------------------------------------------
(* What a reconcile leaves, whoever asked for it: handles of a number of   *)
(* their own, or none.                                                     *)
Rearmed ==
  /\ fired' = {} /\ idled' = {} /\ watching' \subseteq Kinds
  /\ \/ armed' = TRUE /\ arms < MaxArms /\ arms' = arms + 1
     \/ armed' = FALSE /\ arms' = arms

LEMMA Reconciles ==
  ASSUME NEW ACTION c, NEW ACTION t, Reconcile(c, t), watching \subseteq Kinds
  PROVE  /\ Rearmed
         /\ armed' <=> c.on /\ InhibitedBy(c, t) = {}
<1>1. Watched(c) \subseteq Kinds
  BY DEF Watched, Kinds
<1>2. watching' \subseteq Kinds
  BY <1>1 DEF Reconcile
<1>3. CASE c.on /\ InhibitedBy(c, t) = {}
  BY <1>2, <1>3 DEF Reconcile, Rearmed
<1>4. CASE ~(c.on /\ InhibitedBy(c, t) = {})
  BY <1>2, <1>4 DEF Reconcile, Rearmed
<1> QED
  BY <1>3, <1>4

LEMMA Reconciling ==
  ASSUME IdleTypeOK, Load \/ SetManual \/ \E k \in Kinds : Hears(k)
  PROVE  /\ Rearmed
         /\ armed' <=> conf'.on /\ InhibitedBy(conf', truth') = {}
         /\ sent' = sent
<1> USE DEF IdleTypeOK
<1>1. CASE Load
  BY <1>1, Reconciles DEF Load
<1>2. CASE SetManual
  BY <1>2, Reconciles DEF SetManual
<1>3. ASSUME NEW k \in Kinds, Hears(k)
      PROVE  Reconcile(conf, truth) /\ conf' = conf /\ truth' = truth /\ sent' = sent
  BY <1>3 DEF Hears
<1> QED
  BY <1>1, <1>2, <1>3, Reconciles

(* The variables keep their types.                                         *)
LEMMA IdleTypeNext ==
  ASSUME IdleTypeOK, [IdleNext]_idleVars
  PROVE  IdleTypeOK'
<1>0. MaxArms \in Nat /\ MaxChanges \in Nat
  BY IdleAssumption
<1>1. ASSUME Load \/ SetManual \/ \E k \in Kinds : Hears(k)
      PROVE  IdleTypeOK'
  <2>1. Rearmed /\ sent' = sent
    BY <1>1, Reconciling
  <2>d. fired' = {} /\ idled' = {} /\ watching' \subseteq Kinds /\ armed' \in BOOLEAN
    BY <2>1 DEF Rearmed
  <2>e. arms \in 0 .. MaxArms
    BY DEF IdleTypeOK
  <2>2. arms' \in 0 .. MaxArms
    BY <1>0, <2>1, <2>e DEF Rearmed
  <2>3. conf' \in Confs /\ away' = away /\ done' = done /\ changes' \in 0 .. MaxChanges
    BY <1>0, <1>1 DEF Load, SetManual, Hears, IdleTypeOK
  <2>4. truth' \in [Kinds -> BOOLEAN]
    BY <1>1 DEF Load, SetManual, Hears, IdleTypeOK
  <2>11. ASSUME Load
        PROVE  notices' = notices
    BY <2>11 DEF Load
  <2>12. ASSUME SetManual
        PROVE  notices' \subseteq notices \cup {"manual"}
    BY <2>12 DEF SetManual
  <2>c. ASSUME NEW k \in Kinds, Hears(k)
        PROVE  notices' \subseteq notices
    BY <2>c DEF Hears
  <2>5. notices' \subseteq notices \cup {"manual"}
    BY <1>1, <2>11, <2>12, <2>c
  <2> QED
    BY <2>1, <2>d, <2>2, <2>3, <2>4, <2>5 DEF IdleTypeOK, Kinds
<1>2. ASSUME NEW k \in {"audio", "charging"}, ReadingChanges(k)
      PROVE  IdleTypeOK'
  <2>1. changes' \in 0 .. MaxChanges
    BY <1>0, <1>2 DEF ReadingChanges, IdleTypeOK
  <2>2. truth' \in [Kinds -> BOOLEAN]
    BY <1>2 DEF ReadingChanges, IdleTypeOK
  <2>3. notices' \subseteq Kinds
    BY <1>2 DEF ReadingChanges, IdleTypeOK, Kinds
  <2> QED
    BY <1>2, <2>1, <2>2, <2>3 DEF ReadingChanges, IdleTypeOK
<1>3. ASSUME NEW s \in Stages, Elapses(s) \/ Resumes(s)
      PROVE  IdleTypeOK'
  <2>1. armed = TRUE /\ idled' \subseteq Stages
    BY <1>3 DEF Elapses, Resumes, IdleTypeOK
  <2>2. PICK b \in BOOLEAN : sent' = Append(sent, [arm |-> arms, stage |-> s, idle |-> b])
    BY <1>3 DEF Elapses, Resumes
  <2>3. sent' \in Seq([arm : 0 .. MaxArms, stage : Stages, idle : BOOLEAN])
    BY <2>2 DEF IdleTypeOK
  <2> QED
    BY <1>3, <2>1, <2>3 DEF Elapses, Resumes, IdleTypeOK
<1>4. CASE GoesAway \/ ComesBack
  BY <1>4 DEF GoesAway, ComesBack, IdleTypeOK
<1>5. CASE Dispatch
  <2>1. sent' \in Seq([arm : 0 .. MaxArms, stage : Stages, idle : BOOLEAN])
    BY <1>5 DEF Dispatch, IdleTypeOK
  <2>11. sent # <<>> /\ sent \in Seq([arm : 0 .. MaxArms, stage : Stages, idle : BOOLEAN])
    BY <1>5 DEF Dispatch, IdleTypeOK
  <2>12. Head(sent) \in [arm : 0 .. MaxArms, stage : Stages, idle : BOOLEAN]
    BY <2>11, HeadTailProperties
  <2>2. sent # <<>> /\ Head(sent).stage \in Stages
    BY <2>11, <2>12
  <2>3. PICK s \in Stages : \/ armed /\ (OnIdle(s) \/ OnResume(s))
                            \/ UNCHANGED <<fired, done>>
    BY <1>5, <2>2 DEF Dispatch, Mine
  <2>4. fired' \subseteq fired \cup {s} /\ done' \subseteq done \cup {s} /\ (~armed => fired' = fired)
    BY <2>3 DEF OnIdle, OnResume
  <2> QED
    BY <1>5, <2>1, <2>4 DEF Dispatch, IdleTypeOK
<1>6. CASE UNCHANGED idleVars
  BY <1>6 DEF idleVars, IdleTypeOK
<1> QED
  BY <1>1, <1>2, <1>3, <1>4, <1>5, <1>6 DEF IdleNext

-----------------------------------------------------------------------------
(* What has been sent, one event more or one less.                         *)
IdleEvent == [arm : 0 .. MaxArms, stage : Stages, idle : BOOLEAN]

LEMMA EventMore ==
  ASSUME IdleTypeOK, NEW e, sent' = Append(sent, e)
  PROVE  /\ DOMAIN sent' = DOMAIN sent \cup {Len(sent) + 1}
         /\ sent'[Len(sent) + 1] = e
         /\ \A i \in DOMAIN sent : sent'[i] = sent[i] /\ i \in Nat /\ Len(sent) + 1 > i
<1>1. sent \in Seq(IdleEvent)
  BY DEF IdleTypeOK, IdleEvent
<1> QED
  BY <1>1

LEMMA EventLess ==
  ASSUME IdleTypeOK, sent # <<>>, sent' = Tail(sent)
  PROVE  /\ 1 \in DOMAIN sent /\ Head(sent) = sent[1]
         /\ \A i \in DOMAIN sent' : i \in Nat /\ i + 1 \in DOMAIN sent /\ sent'[i] = sent[i + 1]
         /\ \A i \in DOMAIN sent : i \in Nat /\ (i # 1 => i - 1 \in DOMAIN sent' /\ sent'[i - 1] = sent[i])
<1>1. sent \in Seq(IdleEvent) /\ Len(sent) \in Nat /\ DOMAIN sent = 1 .. Len(sent) /\ Len(sent) # 0
  BY DEF IdleTypeOK, IdleEvent
<1>2. /\ Head(sent) = sent[1] /\ Len(sent') = Len(sent) - 1 /\ sent' \in Seq(IdleEvent)
      /\ \A i \in 1 .. Len(sent') : sent'[i] = sent[i + 1]
  BY <1>1, HeadTailProperties, SMT
<1>3. DOMAIN sent' = 1 .. Len(sent')
  BY <1>2
<1>4. 1 \in DOMAIN sent
  BY <1>1
<1>5. \A i \in DOMAIN sent' : i \in Nat /\ i + 1 \in DOMAIN sent /\ sent'[i] = sent[i + 1]
  BY <1>1, <1>2, <1>3
<1>6. ASSUME NEW i \in DOMAIN sent
      PROVE  i \in Nat /\ (i # 1 => i - 1 \in DOMAIN sent' /\ sent'[i - 1] = sent[i])
  <2>1. i \in Nat /\ i >= 1 /\ i <= Len(sent)
    BY <1>1
  <2>2. i # 1 => i - 1 \in 1 .. Len(sent') /\ (i - 1) + 1 = i
    BY <1>1, <1>2, <2>1
  <2> QED
    BY <1>2, <1>3, <2>1, <2>2
<1> QED
  BY <1>2, <1>4, <1>5, <1>6

(* A reconcile leaves no event to anybody, and nothing fired.              *)
LEMMA RearmedNext ==
  ASSUME IdleInv, Load \/ SetManual \/ \E k \in Kinds : Hears(k)
  PROVE  SentBefore' /\ InhibitHolds' /\ FiredIsIdle' /\ IdledOrFollowed'
<1>1. /\ Rearmed /\ sent' = sent
      /\ armed' <=> conf'.on /\ InhibitedBy(conf', truth') = {}
  BY Reconciling DEF IdleInv
<1>2. arms \in Nat /\ \A i \in DOMAIN sent : sent[i].arm \in Nat /\ sent[i].arm <= arms
  <2>1. arms \in Nat
    BY IdleAssumption DEF IdleInv, IdleTypeOK
  <2>2. sent \in Seq([arm : 0 .. MaxArms, stage : Stages, idle : BOOLEAN])
    BY DEF IdleInv, IdleTypeOK
  <2>3. ASSUME NEW i \in DOMAIN sent PROVE sent[i].arm \in Nat
    <3>1. i \in 1 .. Len(sent)
      BY <2>2
    <3>2. sent[i] \in [arm : 0 .. MaxArms, stage : Stages, idle : BOOLEAN]
      BY <2>2, <3>1, ElementOfSeq
    <3> QED
      BY <3>2
  <2> QED
    BY <2>1, <2>3 DEF IdleInv, SentBefore
<1>3. \A i \in DOMAIN sent' : ~(armed' /\ sent'[i].arm = arms')
  BY <1>1, <1>2 DEF Rearmed
<1>4. SentBefore'
  BY <1>1, <1>2 DEF Rearmed, SentBefore
<1>5. InhibitHolds'
  BY <1>1 DEF InhibitHolds
<1>6. FiredIsIdle' /\ IdledOrFollowed'
  BY <1>1, <1>3 DEF FiredIsIdle, IdledOrFollowed, Mine, Rearmed
<1> QED
  BY <1>4, <1>5, <1>6

(* The compositor counts down or sees the user back: one event more.       *)
LEMMA ToldNext ==
  ASSUME IdleInv, NEW s \in Stages, Elapses(s) \/ Resumes(s)
  PROVE  SentBefore' /\ InhibitHolds' /\ FiredIsIdle' /\ IdledOrFollowed'
<1> DEFINE n == Len(sent) + 1
<1>1. PICK b \in BOOLEAN : /\ sent' = Append(sent, [arm |-> arms, stage |-> s, idle |-> b])
                          /\ idled' = IF b THEN idled \cup {s} ELSE idled \ {s}
  <2>1. CASE Elapses(s)
    BY <2>1 DEF Elapses
  <2>2. CASE Resumes(s)
    BY <2>2 DEF Resumes
  <2> QED
    BY <2>1, <2>2
<1>2. /\ DOMAIN sent' = DOMAIN sent \cup {n}
      /\ sent'[n] = [arm |-> arms, stage |-> s, idle |-> b]
      /\ \A i \in DOMAIN sent : sent'[i] = sent[i] /\ n > i
  BY <1>1, EventMore DEF IdleInv
<1>3. /\ armed /\ UNCHANGED <<conf, truth, notices, watching, arms, armed, fired>>
  BY DEF Elapses, Resumes, IdleInv, IdleTypeOK
<1>4. arms \in Nat
  BY IdleAssumption DEF IdleInv, IdleTypeOK
<1> HIDE DEF n
<1>5. SentBefore'
  BY <1>2, <1>3, <1>4 DEF IdleInv, SentBefore
<1>6. InhibitHolds'
  BY <1>3 DEF IdleInv, InhibitHolds, Configured, InhibitedBy
<1>7. /\ n \in DOMAIN sent' /\ armed' /\ sent'[n].arm = arms'
      /\ sent'[n].stage = s /\ sent'[n].idle = b
  BY <1>2, <1>3
<1>8. FiredIsIdle'
  BY <1>1, <1>2, <1>3, <1>7 DEF IdleInv, FiredIsIdle, Mine
<1>9. IdledOrFollowed'
  BY <1>1, <1>2, <1>3, <1>7 DEF IdleInv, IdledOrFollowed, Mine
<1> QED
  BY <1>5, <1>6, <1>8, <1>9

(* The oldest event is read.                                               *)
LEMMA DispatchNext ==
  ASSUME IdleInv, Dispatch
  PROVE  SentBefore' /\ InhibitHolds' /\ FiredIsIdle' /\ IdledOrFollowed'
<1>1. sent # <<>> /\ sent' = Tail(sent)
      /\ UNCHANGED <<conf, truth, notices, watching, arms, armed, idled>>
  BY DEF Dispatch
<1>2. /\ 1 \in DOMAIN sent /\ Head(sent) = sent[1]
      /\ \A i \in DOMAIN sent' : i \in Nat /\ i + 1 \in DOMAIN sent /\ sent'[i] = sent[i + 1]
      /\ \A i \in DOMAIN sent : i \in Nat /\ (i # 1 => i - 1 \in DOMAIN sent' /\ sent'[i - 1] = sent[i])
  BY <1>1, EventLess DEF IdleInv
<1>3. SentBefore'
  BY <1>1, <1>2 DEF IdleInv, SentBefore
<1>4. InhibitHolds'
  BY <1>1 DEF IdleInv, InhibitHolds, Configured, InhibitedBy
<1>5. IdledOrFollowed'
  <2>1. SUFFICES ASSUME NEW i \in DOMAIN sent', armed, sent'[i].arm = arms,
                        sent'[i].idle, sent'[i].stage \notin idled
                 PROVE  \E j \in DOMAIN sent' : j > i /\ sent'[j].arm = arms /\ sent'[j].stage = sent'[i].stage
    BY <1>1 DEF IdledOrFollowed, Mine
  <2>2. /\ i + 1 \in DOMAIN sent /\ Mine(sent[i + 1])
        /\ sent[i + 1].idle /\ sent[i + 1].stage \notin idled
    BY <1>1, <1>2, <2>1 DEF Mine
  <2>3. PICK j \in DOMAIN sent : j > i + 1 /\ Mine(sent[j]) /\ sent[j].stage = sent[i + 1].stage
    BY <2>2 DEF IdleInv, IdledOrFollowed
  <2>4. i \in Nat /\ j \in Nat /\ j - 1 \in DOMAIN sent' /\ sent'[j - 1] = sent[j] /\ j - 1 > i
    BY <1>2, <2>3
  <2> QED
    BY <1>2, <2>3, <2>4 DEF Mine
<1>6. FiredIsIdle'
  <2>1. SUFFICES ASSUME NEW s \in fired', s \notin idled
                 PROVE  \E j \in DOMAIN sent' : armed /\ sent'[j].arm = arms /\ sent'[j].stage = s
    BY <1>1 DEF FiredIsIdle, Mine
  <2>2. PICK j \in DOMAIN sent : j # 1 /\ Mine(sent[j]) /\ sent[j].stage = s
    <3>1. CASE Mine(sent[1]) /\ sent[1].stage = s
      <4>1. sent[1].idle
        BY <1>2, <2>1, <3>1 DEF Dispatch, OnResume
      <4> QED
        BY <1>2, <2>1, <3>1, <4>1 DEF IdleInv, IdledOrFollowed
    <3>2. CASE ~(Mine(sent[1]) /\ sent[1].stage = s)
      <4>1. s \in fired
        BY <1>2, <2>1, <3>2 DEF Dispatch, OnIdle, OnResume
      <4> QED
        BY <2>1, <3>2, <4>1 DEF IdleInv, FiredIsIdle
    <3> QED
      BY <3>1, <3>2
  <2>3. j - 1 \in DOMAIN sent' /\ sent'[j - 1] = sent[j]
    BY <1>2, <2>2
  <2> QED
    BY <2>2, <2>3 DEF Mine
<1> QED
  BY <1>3, <1>4, <1>5, <1>6

(* A reading changes: whoever watches it is told of it.                    *)
LEMMA ReadingNext ==
  ASSUME IdleInv, NEW k \in {"audio", "charging"}, ReadingChanges(k)
  PROVE  InhibitHolds'
<1>1. /\ notices' = notices \cup (watching \cap {k})
      /\ truth' = [truth EXCEPT ![k] = ~@] /\ truth \in [Kinds -> BOOLEAN]
      /\ UNCHANGED <<conf, watching, armed>>
  BY DEF ReadingChanges, IdleInv, IdleTypeOK
<1>2. CASE k \in watching
  BY <1>1, <1>2 DEF InhibitHolds
<1>3. CASE k \notin watching /\ k \in Configured
  BY <1>1, <1>3 DEF InhibitHolds, Configured
<1>4. CASE k \notin watching /\ k \notin Configured
  <2>1. (k = "audio" /\ ~conf.audio) \/ (k = "charging" /\ ~conf.charging)
    BY <1>4 DEF Configured
  <2>2. InhibitedBy(conf, truth') = InhibitedBy(conf, truth)
    BY <1>1, <2>1 DEF InhibitedBy
  <2> QED
    BY <1>1, <1>4, <2>2 DEF IdleInv, InhibitHolds, Configured
<1> QED
  BY <1>2, <1>3, <1>4

LEMMA IdleInvNext ==
  ASSUME IdleInv, [IdleNext]_idleVars
  PROVE  IdleInv'
<1>1. IdleTypeOK'
  BY IdleTypeNext DEF IdleInv
<1>2. ASSUME UNCHANGED <<arms, armed, fired, idled, sent>>
      PROVE  SentBefore' /\ FiredIsIdle' /\ IdledOrFollowed'
  BY <1>2 DEF IdleInv, SentBefore, FiredIsIdle, IdledOrFollowed, Mine
<1>3. CASE Load \/ SetManual \/ \E k \in Kinds : Hears(k)
  BY <1>1, <1>3, RearmedNext DEF IdleInv
<1>4. ASSUME NEW s \in Stages, Elapses(s) \/ Resumes(s)
      PROVE  IdleInv'
  BY <1>1, <1>4, ToldNext DEF IdleInv
<1>5. CASE Dispatch
  BY <1>1, <1>5, DispatchNext DEF IdleInv
<1>6. ASSUME NEW k \in {"audio", "charging"}, ReadingChanges(k)
      PROVE  IdleInv'
  <2>1. UNCHANGED <<arms, armed, fired, idled, sent>>
    BY <1>6 DEF ReadingChanges
  <2> QED
    BY <1>1, <1>2, <1>6, <2>1, ReadingNext DEF IdleInv
<1>7. CASE GoesAway \/ ComesBack \/ UNCHANGED idleVars
  <2>1. UNCHANGED <<conf, truth, notices, watching, arms, armed, fired, idled, sent>>
    BY <1>7 DEF GoesAway, ComesBack, idleVars
  <2>2. InhibitHolds'
    BY <2>1 DEF IdleInv, InhibitHolds, Configured, InhibitedBy
  <2> QED
    BY <1>1, <1>2, <2>1, <2>2 DEF IdleInv
<1> QED
  BY <1>3, <1>4, <1>5, <1>6, <1>7 DEF IdleNext

LEMMA IdleInvInit == IdleInit => IdleInv
<1>1. ASSUME IdleInit PROVE IdleTypeOK
  <2>1. 0 \in 0 .. MaxArms /\ 0 \in 0 .. MaxChanges
    BY IdleAssumption
  <2>2. truth \in [Kinds -> BOOLEAN]
    BY <1>1 DEF IdleInit
  <2>3. sent \in Seq([arm : 0 .. MaxArms, stage : Stages, idle : BOOLEAN])
    BY <1>1 DEF IdleInit
  <2> QED
    BY <1>1, <2>1, <2>2, <2>3 DEF IdleInit, IdleTypeOK
<1>2. IdleInit => SentBefore /\ FiredIsIdle /\ IdledOrFollowed
  BY DEF IdleInit, SentBefore, FiredIsIdle, IdledOrFollowed
<1>3. IdleInit => InhibitHolds
  BY DEF IdleInit, InhibitHolds, Configured
<1> QED
  BY <1>1, <1>2, <1>3 DEF IdleInv

(* Once the shell has heard of every change, the stages are armed exactly  *)
(* while nothing it watches holds them off, and what has fired is what the *)
(* compositor counted for them (idle.rs, reconcile and arm).               *)
THEOREM ArmedTrulyAlways == IdleSpec => []ArmedTruly
<1>1. IdleInv => ArmedTruly
  BY DEF IdleInv, ArmedTruly
<1> QED
  BY <1>1, IdleInvInit, IdleInvNext, PTL DEF IdleSpec

-----------------------------------------------------------------------------
(* Notifications: who may change a popup, and that none is forgotten.      *)

(* What is up was sent, by one of the two kinds of author.                 *)
SentByNow == \A id \in Ids : live[id] # Gone => live[id].by # "nobody" /\ live[id].sent \in 1 .. sends

(* An id that was not given out yet is nobody's.                           *)
FreshGone == \A id \in Ids : id > nextId => live[id] = Gone

(* What is retired under do-not-disturb stays so.                          *)
Quiet == dnd => Popped(live) = {}

NotifInv == NotifTypeOK /\ SentByNow /\ FreshGone /\ Quiet /\ PopupsArmed

-----------------------------------------------------------------------------
(* The facts that a step which sends nothing leaves alone: a notification  *)
(* is as it was, without its popup, or gone.                               *)
Fades == \A id \in Ids : live'[id] \in {live[id], [live[id] EXCEPT !.popup = FALSE], Gone}

LEMMA IdsAreNat ==
  MaxIds \in Nat \ {0} /\ MaxSends \in Nat \ {0} /\ MaxActs \in Nat \ {0} /\ Ids \subseteq Nat
BY NotificationsAssumption DEF Ids

LEMMA FadesKeeps ==
  ASSUME NotifInv, live' \in [Ids -> [by : {"nobody", "shell", "client"}, sent : 0 .. MaxSends, popup : BOOLEAN]],
         Fades, nextId' = nextId, sends' = sends
  PROVE  SentByNow' /\ FreshGone' /\ Popped(live') \subseteq Popped(live)
         /\ \A id \in Ids : live'[id].popup => live'[id] = live[id]
<1>1. ASSUME NEW id \in Ids
      PROVE  /\ live'[id] # Gone => live[id] # Gone /\ live'[id].by = live[id].by /\ live'[id].sent = live[id].sent
             /\ live'[id].popup => live'[id] = live[id]
  BY <1>1 DEF Fades, Gone, NotifInv, NotifTypeOK
<1> QED
  BY <1>1 DEF SentByNow, FreshGone, Popped, NotifInv, Gone

(* Only a send is not a fading.                                            *)
Quietly ==
  \/ HandOn \/ Subscribe \/ SetDnd \/ ClearAll \/ Draw \/ Redraw
  \/ \E t \in {"bus", "ui"} : Arm(t) \/ Disarm(t) \/ TakeDown(t)
  \/ \E t \in {"bus", "ui"}, id \in Ids : Close(t, id)
  \/ \E id \in Ids : Expire(id)
  \/ \E c \in clocks : Rings(c)
  \/ UNCHANGED notifVars

LEMMA QuietlyFades ==
  ASSUME NotifInv, Quietly
  PROVE  /\ live' \in [Ids -> [by : {"nobody", "shell", "client"}, sent : 0 .. MaxSends, popup : BOOLEAN]]
         /\ Fades /\ nextId' = nextId /\ sends' = sends
<1> DEFINE Type == [Ids -> [by : {"nobody", "shell", "client"}, sent : 0 .. MaxSends, popup : BOOLEAN]]
<1>t. live \in Type /\ Gone \in [by : {"nobody", "shell", "client"}, sent : 0 .. MaxSends, popup : BOOLEAN]
  BY IdsAreNat DEF NotifInv, NotifTypeOK, Gone
<1>1. CASE live' = live /\ nextId' = nextId /\ sends' = sends
  BY <1>1, <1>t DEF Fades
<1>2. CASE SetDnd
  BY <1>2, <1>t DEF SetDnd, Commit, Rest, Fades
<1>3. CASE ClearAll
  BY <1>3, <1>t DEF ClearAll, Commit, Rest, Fades
<1>4. ASSUME NEW t \in {"bus", "ui"}, Disarm(t)
      PROVE  live' \in Type /\ Fades /\ nextId' = nextId /\ sends' = sends
  BY <1>1, <1>4 DEF Disarm, Rest
<1>5. ASSUME NEW t \in {"bus", "ui"}, TakeDown(t)
      PROVE  live' \in Type /\ Fades /\ nextId' = nextId /\ sends' = sends
  BY <1>5, <1>t DEF TakeDown, Commit, Rest, Fades
<1>8. ASSUME NEW t \in {"bus", "ui"}, NEW i \in Ids, Close(t, i) \/ Expire(i)
      PROVE  live' \in Type /\ Fades /\ nextId' = nextId /\ sends' = sends
  BY <1>1, <1>8 DEF Close, Expire, TakesDown, Rest
<1>6. ASSUME NEW c \in clocks, Rings(c)
      PROVE  live' \in Type /\ Fades /\ nextId' = nextId /\ sends' = sends
  BY <1>6, <1>t DEF Rings, Retired, Commit, Rest, Fades
<1>7. CASE HandOn \/ Subscribe \/ Draw \/ Redraw \/ (\E t \in {"bus", "ui"} : Arm(t)) \/ UNCHANGED notifVars
  BY <1>7, <1>1 DEF HandOn, Subscribe, Draw, Redraw, Arm, notifVars
<1> QED
  BY <1>2, <1>3, <1>4, <1>5, <1>6, <1>7, <1>8 DEF Quietly

-----------------------------------------------------------------------------
(* A send takes an id that is its author's, or one that was never given.   *)
LEMMA PushTakesOwn ==
  ASSUME NotifInv, NEW t \in {"bus", "ui"}, NEW author \in {"shell", "client"}, NEW r \in 0 .. MaxIds,
         Push(t, author, r)
  PROVE  \E id \in Ids :
           /\ live' = [live EXCEPT ![id] = [by |-> author, sent |-> sends + 1, popup |-> Pops]]
           /\ live[id] = Gone \/ live[id].by = author
           /\ nextId' \in {nextId, id} /\ id <= nextId' /\ nextId <= nextId'
           /\ arming[t] = 0 /\ arming' = [arming EXCEPT ![t] = id]
           /\ toClock' = toClock /\ clocks' = clocks /\ dnd' = dnd
           /\ sends < MaxSends /\ sends' = sends + 1
           /\ flight' = flight \cup {[up |-> Popped(live'), by |-> t]}
<1> DEFINE id == Assigned(r, author)
<1>1. id \in Ids
  BY IdsAreNat DEF Push, Assigned, MayTake, NotifInv, NotifTypeOK, Ids
<1>2. live[id] = Gone \/ live[id].by = author
  <2>1. CASE r # 0 /\ MayTake(r, author)
    BY <1>1, <2>1 DEF Assigned, MayTake, NotifInv, SentByNow, NotifTypeOK
  <2>2. CASE ~(r # 0 /\ MayTake(r, author))
    BY <1>1, <2>2, IdsAreNat DEF Assigned, NotifInv, FreshGone, NotifTypeOK
  <2> QED
    BY <2>1, <2>2
<1>3. nextId' \in {nextId, id} /\ id <= nextId' /\ nextId <= nextId'
  <2>1. nextId \in Nat
    BY IdsAreNat DEF NotifInv, NotifTypeOK
  <2>2. nextId' = IF id > nextId THEN id ELSE nextId
    BY DEF Push
  <2> HIDE DEF id
  <2>3. id \in Nat
    BY <1>1, IdsAreNat
  <2> QED
    BY <2>1, <2>2, <2>3
<1>4. live' = [live EXCEPT ![id] = [by |-> author, sent |-> sends + 1, popup |-> Pops]]
  BY DEF Push, Commit
<1>5. flight' = flight \cup {[up |-> Popped(live'), by |-> t]}
  BY <1>4 DEF Push, Commit
<1>6. /\ arming[t] = 0 /\ arming' = [arming EXCEPT ![t] = id]
      /\ toClock' = toClock /\ clocks' = clocks /\ dnd' = dnd
      /\ sends < MaxSends /\ sends' = sends + 1
  BY DEF Push, Free
<1> HIDE DEF id
<1> QED
  BY <1>1, <1>2, <1>3, <1>4, <1>5, <1>6

(* The variables keep their types.                                         *)
LEMMA NotifTypeNext ==
  ASSUME NotifInv, [NotifNext]_notifVars
  PROVE  NotifTypeOK'
<1> USE IdsAreNat
<1>t. NotifTypeOK
  BY DEF NotifInv
<1>1. ASSUME NEW t \in {"bus", "ui"}, NEW author \in {"shell", "client"}, NEW r \in 0 .. MaxIds,
             Push(t, author, r)
      PROVE  NotifTypeOK'
  <2>1. PICK id \in Ids :
           /\ live' = [live EXCEPT ![id] = [by |-> author, sent |-> sends + 1, popup |-> Pops]]
           /\ nextId' \in {nextId, id}
           /\ arming' = [arming EXCEPT ![t] = id]
           /\ toClock' = toClock /\ clocks' = clocks /\ dnd' = dnd
           /\ sends < MaxSends /\ sends' = sends + 1
           /\ flight' = flight \cup {[up |-> Popped(live'), by |-> t]}
    BY <1>1, PushTakesOwn
  <2>2. id \in 0 .. MaxIds /\ sends' \in 0 .. MaxSends /\ Pops \in BOOLEAN
    BY <1>t, <2>1 DEF Ids, NotifTypeOK, Pops
  <2>3. live' \in [Ids -> [by : {"nobody", "shell", "client"}, sent : 0 .. MaxSends, popup : BOOLEAN]]
    BY <1>t, <2>1, <2>2 DEF NotifTypeOK
  <2>4. flight' \subseteq [up : SUBSET Ids, by : {"bus", "ui", "clock"}]
    BY <1>t, <2>1 DEF NotifTypeOK, Popped
  <2>5. arming' \in [{"bus", "ui"} -> 0 .. MaxIds]
    BY <1>t, <2>1, <2>2 DEF NotifTypeOK
  <2>6. nextId' \in 0 .. MaxIds
    BY <1>t, <2>1, <2>2 DEF NotifTypeOK
  <2>7. toClock' \subseteq Ids /\ clocks' \subseteq [id : Ids, sent : 1 .. MaxSends] /\ dnd' \in BOOLEAN
    BY <1>t, <2>1 DEF NotifTypeOK
  <2>8. UNCHANGED <<listening, inbox, column, taking, acts>>
    BY <1>1 DEF Push
  <2> QED
    BY <1>t, <2>2, <2>3, <2>4, <2>5, <2>6, <2>7, <2>8 DEF NotifTypeOK
<1>2. ASSUME Quietly
      PROVE  NotifTypeOK'
  <2>1. /\ live' \in [Ids -> [by : {"nobody", "shell", "client"}, sent : 0 .. MaxSends, popup : BOOLEAN]]
        /\ nextId' \in 0 .. MaxIds /\ sends' \in 0 .. MaxSends
    BY <1>t, <1>2, QuietlyFades DEF NotifTypeOK
  <2>2. Popped(live') \subseteq Ids
    BY DEF Popped
  <2>3. ASSUME NEW up \in SUBSET Ids, Shown(up)
        PROVE  toClock' \subseteq Ids /\ clocks' \subseteq [id : Ids, sent : 1 .. MaxSends]
    <3>1. ASSUME NEW id \in toClock \cap up, live[id] # Gone
          PROVE  [id |-> id, sent |-> live[id].sent] \in [id : Ids, sent : 1 .. MaxSends]
      BY <1>t, <3>1 DEF NotifInv, SentByNow, NotifTypeOK
    <3> QED
      BY <1>t, <2>3, <3>1 DEF Shown, NotifTypeOK
  <2>4. CASE HandOn
    <3>1. PICK f \in flight : /\ flight' = flight \ {f}
                              /\ inbox' = IF listening THEN Append(inbox, f.up) ELSE inbox
      BY <2>4 DEF HandOn
    <3>2. f.up \in SUBSET Ids
      BY <1>t DEF NotifTypeOK
    <3>3. inbox' \in Seq(SUBSET Ids)
      BY <1>t, <3>1, <3>2 DEF NotifTypeOK
    <3>4. flight' \subseteq [up : SUBSET Ids, by : {"bus", "ui", "clock"}]
      BY <1>t, <3>1 DEF NotifTypeOK
    <3> QED
      BY <1>t, <2>1, <2>4, <3>3, <3>4 DEF HandOn, NotifTypeOK
  <2>5. CASE Subscribe
    <3>1. Popped(live) \in SUBSET Ids
      BY DEF Popped
    <3>2. inbox' \in Seq(SUBSET Ids) /\ listening' \in BOOLEAN
      BY <2>5, <3>1 DEF Subscribe
    <3>3. UNCHANGED <<dnd, flight, arming, toClock, clocks, column, taking, acts>>
      BY <2>5 DEF Subscribe
    <3> QED
      BY <1>t, <2>1, <3>2, <3>3 DEF NotifTypeOK
  <2>6. CASE SetDnd \/ ClearAll
    <3>a. acts < MaxActs /\ acts' = acts + 1 /\ acts \in 0 .. MaxActs
      BY <1>t, <2>6 DEF SetDnd, ClearAll, Acts, NotifTypeOK
    <3>b. dnd \in BOOLEAN
      BY <1>t DEF NotifTypeOK
    <3>c. dnd' = ~dnd \/ dnd' = dnd
      BY <2>6 DEF SetDnd, ClearAll
    <3>d. acts' \in 0 .. MaxActs
      BY <3>a
    <3>e. dnd' \in BOOLEAN
      BY <3>b, <3>c
    <3>1. acts' \in 0 .. MaxActs /\ dnd' \in BOOLEAN
      BY <3>d, <3>e
    <3>2. flight' = flight \cup {[up |-> Popped(live'), by |-> "ui"]}
      BY <2>6 DEF SetDnd, ClearAll, Commit
    <3>3. flight' \subseteq [up : SUBSET Ids, by : {"bus", "ui", "clock"}]
      BY <1>t, <2>2, <3>2 DEF NotifTypeOK
    <3> QED
      BY <1>t, <2>1, <2>6, <3>1, <3>3 DEF SetDnd, ClearAll, Rest, NotifTypeOK
  <2>7. ASSUME NEW t \in {"bus", "ui"}, NEW i \in Ids, Close(t, i) \/ Expire(i)
        PROVE  NotifTypeOK'
    <3>a. acts < MaxActs /\ acts' = acts + 1 /\ acts \in 0 .. MaxActs
      BY <1>t, <2>7 DEF Close, Expire, TakesDown, Acts, NotifTypeOK
    <3>b. acts' \in 0 .. MaxActs
      BY <3>a
    <3>1. PICK u \in {"bus", "ui"}, d \in BOOLEAN :
            taking' = [taking EXCEPT ![u] = [id |-> i, drops |-> d, disarmed |-> FALSE]]
      BY <2>7 DEF Close, Expire, TakesDown
    <3>2. taking' \in [{"bus", "ui"} -> [id : 0 .. MaxIds, drops : BOOLEAN, disarmed : BOOLEAN]]
      <4>1. i \in 0 .. MaxIds
        BY DEF Ids
      <4> QED
        BY <1>t, <3>1, <4>1 DEF NotifTypeOK
    <3>3. UNCHANGED <<dnd, flight, toClock, clocks, arming, listening, inbox, column>>
      BY <2>7 DEF Close, Expire, TakesDown, Rest
    <3> QED
      BY <1>t, <2>1, <3>b, <3>2, <3>3 DEF NotifTypeOK
  <2>13. ASSUME NEW t \in {"bus", "ui"}, Disarm(t)
         PROVE  NotifTypeOK'
    <3>1. taking' \in [{"bus", "ui"} -> [id : 0 .. MaxIds, drops : BOOLEAN, disarmed : BOOLEAN]]
      BY <1>t, <2>13 DEF Disarm, NotifTypeOK
    <3>2. toClock' \subseteq Ids /\ UNCHANGED <<dnd, flight, clocks, arming, listening, inbox, column, acts>>
      BY <1>t, <2>13 DEF Disarm, Rest, NotifTypeOK
    <3> QED
      BY <1>t, <2>1, <3>1, <3>2 DEF NotifTypeOK
  <2>14. ASSUME NEW t \in {"bus", "ui"}, TakeDown(t)
         PROVE  NotifTypeOK'
    <3>1. taking' \in [{"bus", "ui"} -> [id : 0 .. MaxIds, drops : BOOLEAN, disarmed : BOOLEAN]]
      BY <1>t, <2>14 DEF TakeDown, NoTaking, NotifTypeOK
    <3>2. flight' = flight \cup {[up |-> Popped(live'), by |-> t]}
      BY <2>14 DEF TakeDown, Commit
    <3>3. flight' \subseteq [up : SUBSET Ids, by : {"bus", "ui", "clock"}]
      BY <1>t, <2>2, <3>2 DEF NotifTypeOK
    <3>4. UNCHANGED <<dnd, toClock, clocks, arming, listening, inbox, column, acts>>
      BY <2>14 DEF TakeDown, Rest
    <3> QED
      BY <1>t, <2>1, <3>1, <3>3, <3>4 DEF NotifTypeOK
  <2>8. ASSUME NEW c \in clocks, Rings(c)
        PROVE  NotifTypeOK'
    <3>1. flight' \subseteq [up : SUBSET Ids, by : {"bus", "ui", "clock"}]
      BY <1>t, <2>2, <2>8 DEF Rings, Commit, NotifTypeOK
    <3> QED
      BY <1>t, <2>1, <2>8, <3>1 DEF Rings, Rest, NotifTypeOK
  <2>9. CASE Draw
    <3>1. inbox \in Seq(SUBSET Ids) /\ inbox # <<>>
      BY <1>t, <2>9 DEF Draw, NotifTypeOK
    <3>2. column' \in SUBSET Ids /\ inbox' \in Seq(SUBSET Ids) /\ Shown(column')
      BY <2>9, <3>1 DEF Draw
    <3> QED
      BY <1>t, <2>1, <2>3, <2>9, <3>2 DEF Draw, NotifTypeOK
  <2>10. CASE Redraw
    <3>1. column \in SUBSET Ids /\ Shown(column) /\ acts' \in 0 .. MaxActs
      BY <1>t, <2>10 DEF Redraw, Acts, NotifTypeOK
    <3> QED
      BY <1>t, <2>1, <2>3, <2>10, <3>1 DEF Redraw, NotifTypeOK
  <2>11. ASSUME NEW t \in {"bus", "ui"}, Arm(t)
         PROVE  NotifTypeOK'
    <3>1. arming[t] \in Ids
      BY <1>t, <2>11 DEF Arm, NotifTypeOK, Ids
    <3>a. toClock' = toClock \cup {arming[t]} /\ arming' = [arming EXCEPT ![t] = 0]
      BY <2>11 DEF Arm, Armed
    <3>b. toClock \subseteq Ids /\ arming \in [{"bus", "ui"} -> 0 .. MaxIds] /\ 0 \in 0 .. MaxIds
      BY <1>t DEF NotifTypeOK
    <3>2. toClock' \subseteq Ids /\ arming' \in [{"bus", "ui"} -> 0 .. MaxIds]
      BY <3>a, <3>b, <3>1
    <3>3. UNCHANGED <<dnd, flight, clocks, listening, inbox, column, taking, acts>>
      BY <2>11 DEF Arm
    <3> QED
      BY <1>t, <2>1, <3>2, <3>3 DEF NotifTypeOK
  <2>12. CASE UNCHANGED notifVars
    BY <1>t, <2>12 DEF notifVars, NotifTypeOK
  <2> QED
    BY <1>2, <2>4, <2>5, <2>6, <2>7, <2>8, <2>9, <2>10, <2>11, <2>12, <2>13, <2>14 DEF Quietly
<1> QED
  BY <1>1, <1>2 DEF NotifNext, Quietly

-----------------------------------------------------------------------------
(* What is up, as a send leaves it.                                        *)
LEMMA PushKeeps ==
  ASSUME NotifInv, NEW t \in {"bus", "ui"}, NEW author \in {"shell", "client"}, NEW r \in 0 .. MaxIds,
         Push(t, author, r)
  PROVE  /\ SentByNow' /\ FreshGone' /\ Quiet' /\ PopupsArmed'
         /\ \A i \in Ids : live[i] # Gone => live'[i].by = live[i].by
         /\ \A i \in Ids : live'[i] = live[i] \/ live'[i].sent # live[i].sent
         /\ clocks' = clocks
<1> USE IdsAreNat
<1>t. taking' = taking
  BY DEF Push
<1>1. PICK id \in Ids :
         /\ live' = [live EXCEPT ![id] = [by |-> author, sent |-> sends + 1, popup |-> Pops]]
         /\ live[id] = Gone \/ live[id].by = author
         /\ nextId' \in {nextId, id} /\ id <= nextId' /\ nextId <= nextId'
         /\ arming[t] = 0 /\ arming' = [arming EXCEPT ![t] = id]
         /\ toClock' = toClock /\ clocks' = clocks /\ dnd' = dnd
         /\ sends < MaxSends /\ sends' = sends + 1
  BY PushTakesOwn
<1>2. live \in [Ids -> [by : {"nobody", "shell", "client"}, sent : 0 .. MaxSends, popup : BOOLEAN]]
      /\ sends \in Nat /\ nextId \in Nat /\ arming \in [{"bus", "ui"} -> 0 .. MaxIds]
  BY DEF NotifInv, NotifTypeOK
<1>3. live'[id] = [by |-> author, sent |-> sends + 1, popup |-> Pops] /\ live'[id] # Gone
  BY <1>1, <1>2 DEF Gone
<1>4. \A i \in Ids : i # id => live'[i] = live[i]
  BY <1>1, <1>2
<1>5. SentByNow'
  <2>1. ASSUME NEW i \in Ids, live'[i] # Gone
        PROVE  live'[i].by # "nobody" /\ live'[i].sent \in 1 .. sends'
    <3>1. CASE i = id
      BY <1>1, <1>2, <1>3, <3>1
    <3>2. CASE i # id
      BY <1>1, <1>2, <1>4, <2>1, <3>2 DEF NotifInv, SentByNow
    <3> QED
      BY <3>1, <3>2
  <2> QED
    BY <2>1 DEF SentByNow
<1>6. FreshGone'
  <2>1. ASSUME NEW i \in Ids, i > nextId'
        PROVE  live'[i] = Gone
    <3>a. i \in Nat /\ id \in Nat /\ nextId' \in Nat
      BY <1>1, <1>2
    <3>1. i # id /\ i > nextId
      BY <1>1, <1>2, <2>1, <3>a
    <3> QED
      BY <1>4, <3>1 DEF NotifInv, FreshGone
  <2> QED
    BY <2>1 DEF FreshGone
<1>7. Quiet'
  <2>1. ASSUME dnd', NEW i \in Ids
        PROVE  ~live'[i].popup
    <3>1. ~Pops /\ Popped(live) = {}
      BY <1>1, <2>1 DEF Pops, NotifInv, Quiet
    <3>2. CASE i = id
      <4>1. live'[i].popup = Pops
        BY <1>3, <3>2
      <4> QED
        BY <3>1, <4>1
    <3>3. CASE i # id
      <4>1. i \notin Popped(live)
        BY <3>1
      <4>2. ~live[i].popup
        BY <4>1, <2>1 DEF Popped
      <4>3. live'[i] = live[i]
        BY <1>4, <3>3
      <4> QED
        BY <4>2, <4>3
    <3> QED
      BY <3>2, <3>3
  <2> QED
    BY <2>1 DEF Quiet, Popped
<1>8. PopupsArmed'
  <2>1. ASSUME NEW i \in Popped(live')
        PROVE  PopupArmed(i)'
    <3>1. CASE i = id
      BY <1>1, <1>2, <3>1 DEF PopupArmed
    <3>2. CASE i # id
      <4>1. i \in Ids /\ live'[i] = live[i] /\ i \in Popped(live)
        BY <1>4, <2>1, <3>2 DEF Popped
      <4>2. PopupArmed(i) /\ i # 0
        BY <4>1 DEF NotifInv, PopupsArmed, Ids
      <4>3. CASE i \in toClock \/ [id |-> i, sent |-> live[i].sent] \in clocks
        BY <1>1, <4>1, <4>3 DEF PopupArmed
      <4>5. ASSUME NEW u \in {"bus", "ui"}, taking[u].id = i, taking[u].disarmed
            PROVE  taking'[u].id = i /\ taking'[u].disarmed
        BY <1>t, <4>5
      <4>4. ASSUME NEW u \in {"bus", "ui"}, arming[u] = i
            PROVE  arming'[u] = i
        BY <1>1, <1>2, <4>2, <4>4
      <4> QED
        BY <4>2, <4>3, <4>4, <4>5 DEF PopupArmed
    <3> QED
      BY <3>1, <3>2
  <2> QED
    BY <2>1 DEF PopupsArmed
<1>9. ASSUME NEW i \in Ids
      PROVE  /\ live[i] # Gone => live'[i].by = live[i].by
             /\ live'[i] = live[i] \/ live'[i].sent # live[i].sent
  <2>1. CASE i = id
    <3>1. CASE live[i] = Gone
      BY <1>2, <1>3, <2>1, <3>1 DEF Gone
    <3>2. CASE live[i] # Gone
      <4>1. live[i].sent \in 1 .. sends /\ live[i].by = author
        BY <1>1, <2>1, <3>2 DEF NotifInv, SentByNow
      <4> QED
        BY <1>2, <1>3, <2>1, <4>1
    <3> QED
      BY <3>1, <3>2
  <2>2. CASE i # id
    BY <1>4, <2>2
  <2> QED
    BY <2>1, <2>2
<1> QED
  BY <1>1, <1>5, <1>6, <1>7, <1>8, <1>9

(* Nor does any other step leave a popup without its clock.                *)
LEMMA QuietlyKeepsArmed ==
  ASSUME NotifInv, Quietly
  PROVE  PopupsArmed'
<1> DEFINE Arms(i) == \/ i \in toClock'
                      \/ [id |-> i, sent |-> live[i].sent] \in clocks'
                      \/ \E t \in {"bus", "ui"} : arming'[t] = i \/ (taking'[t].id = i /\ taking'[t].disarmed)
<1>1. \A i \in Ids : live'[i].popup => live'[i] = live[i]
  BY QuietlyFades, FadesKeeps
<1> SUFFICES ASSUME NEW i \in Ids, live'[i].popup
             PROVE  Arms(i)
  BY <1>1 DEF PopupsArmed, PopupArmed, Popped
<1>2. live[i].popup /\ PopupArmed(i)
  BY <1>1 DEF NotifInv, PopupsArmed, Popped
<1>3. CASE toClock' = toClock /\ clocks' = clocks /\ arming' = arming /\ taking' = taking
  BY <1>2, <1>3 DEF PopupArmed
<1>4. ASSUME NEW t \in {"bus", "ui"}, Arm(t)
      PROVE  Arms(i)
  <2>1. toClock' = toClock \cup {arming[t]} /\ clocks' = clocks /\ arming' = [arming EXCEPT ![t] = 0]
        /\ taking' = taking
    BY <1>4 DEF Arm, Armed
  <2>2. arming \in [{"bus", "ui"} -> 0 .. MaxIds]
    BY DEF NotifInv, NotifTypeOK
  <2> QED
    BY <1>2, <2>1, <2>2 DEF PopupArmed
<1>5. ASSUME NEW up, Shown(up), arming' = arming, live' = live, taking' = taking
      PROVE  Arms(i)
  <2>1. CASE i \in toClock /\ i \in up
    <3>1. live[i] # Gone
      BY <1>2 DEF Gone
    <3> QED
      BY <1>5, <2>1, <3>1 DEF Shown
  <2>2. CASE ~(i \in toClock /\ i \in up)
    BY <1>2, <1>5, <2>2 DEF Shown, PopupArmed
  <2> QED
    BY <2>1, <2>2
<1>6. ASSUME NEW t \in {"bus", "ui"}, NEW j \in Ids, Close(t, j) \/ Expire(j)
      PROVE  Arms(i)
  <2>1. PICK u \in {"bus", "ui"}, d \in BOOLEAN :
          /\ taking[u].id = 0
          /\ taking' = [taking EXCEPT ![u] = [id |-> j, drops |-> d, disarmed |-> FALSE]]
          /\ toClock' = toClock /\ clocks' = clocks /\ arming' = arming
    BY <1>6 DEF Close, Expire, TakesDown, Free, Rest
  <2>2. \A v \in {"bus", "ui"} : taking[v].id = i => taking'[v] = taking[v]
    BY IdsAreNat, <2>1 DEF NotifInv, NotifTypeOK, Ids
  <2> QED
    BY <1>2, <2>1, <2>2 DEF PopupArmed
<1>10. ASSUME NEW t \in {"bus", "ui"}, Disarm(t)
       PROVE  Arms(i)
  <2>1. /\ toClock' = toClock \ {taking[t].id} /\ clocks' = clocks /\ arming' = arming
        /\ taking' = [taking EXCEPT ![t].disarmed = TRUE]
    BY <1>10 DEF Disarm, Rest
  <2>2. /\ taking'[t].id = taking[t].id /\ taking'[t].disarmed
        /\ \A u \in {"bus", "ui"} : taking'[u].id = taking[u].id /\ (taking[u].disarmed => taking'[u].disarmed)
    BY <2>1 DEF NotifInv, NotifTypeOK
  <2> QED
    BY <1>2, <2>1, <2>2 DEF PopupArmed
<1>11. ASSUME NEW t \in {"bus", "ui"}, TakeDown(t)
       PROVE  Arms(i)
  <2>1. /\ toClock' = toClock /\ clocks' = clocks /\ arming' = arming
        /\ taking' = [taking EXCEPT ![t] = NoTaking]
    BY <1>11 DEF TakeDown, Rest
  <2>2. taking[t].id # i
    BY <1>11 DEF TakeDown, Commit, Gone, NotifInv, NotifTypeOK
  <2>3. \A u \in {"bus", "ui"} : taking[u].id = i => taking'[u] = taking[u]
    BY <2>1, <2>2 DEF NotifInv, NotifTypeOK
  <2> QED
    BY <1>2, <2>1, <2>3 DEF PopupArmed
<1>7. ASSUME NEW c \in clocks, Rings(c)
      PROVE  Arms(i)
  <2>1. /\ toClock' = toClock /\ clocks' = clocks \ {c} /\ arming' = arming /\ live' = Retired(c)
        /\ taking' = taking
    BY <1>7 DEF Rings, Rest, Commit
  <2>2. ~(c.id = i /\ c.sent = live[i].sent)
    BY <2>1 DEF Retired, NotifInv, NotifTypeOK
  <2>3. c # [id |-> i, sent |-> live[i].sent]
    BY <2>2
  <2> QED
    BY <1>2, <2>1, <2>3 DEF PopupArmed
<1>8. CASE HandOn \/ Subscribe \/ SetDnd \/ ClearAll \/ UNCHANGED notifVars
  BY <1>3, <1>8 DEF HandOn, Subscribe, SetDnd, ClearAll, Rest, notifVars
<1>9. CASE Draw \/ Redraw
  BY <1>5, <1>9 DEF Draw, Redraw
<1> QED
  BY <1>4, <1>6, <1>7, <1>8, <1>9, <1>10, <1>11 DEF Quietly

(* Under do-not-disturb nothing comes up.                                  *)
LEMMA QuietlyKeepsQuiet ==
  ASSUME NotifInv, Quietly
  PROVE  Quiet'
<1>1. Popped(live') \subseteq Popped(live)
  BY QuietlyFades, FadesKeeps
<1>2. CASE dnd' = dnd
  BY <1>1, <1>2 DEF NotifInv, Quiet
<1>3. CASE SetDnd
  BY <1>3 DEF SetDnd, Commit, Quiet, Popped, NotifInv, NotifTypeOK
<1>4. dnd' = dnd \/ SetDnd
  BY DEF Quietly, HandOn, Subscribe, ClearAll, Draw, Redraw, Arm, Close, Expire, TakesDown, Disarm,
         TakeDown, Rings, notifVars
<1> QED
  BY <1>2, <1>3, <1>4

-----------------------------------------------------------------------------
LEMMA NotifInvInit == NotifInit => NotifInv
<1> SUFFICES ASSUME NotifInit
             PROVE  NotifInv
  OBVIOUS
<1>a. 0 \in 0 .. MaxIds /\ 0 \in 0 .. MaxSends /\ 0 \in 0 .. MaxActs
  BY IdsAreNat
<1>b. live \in [Ids -> [by : {"nobody", "shell", "client"}, sent : 0 .. MaxSends, popup : BOOLEAN]]
  BY <1>a DEF NotifInit, Gone
<1>c. arming \in [{"bus", "ui"} -> 0 .. MaxIds] /\ inbox \in Seq(SUBSET Ids)
  BY <1>a DEF NotifInit
<1>d. nextId = 0 /\ sends = 0 /\ acts = 0 /\ dnd = FALSE /\ listening = FALSE /\ flight = {}
      /\ toClock = {} /\ clocks = {} /\ column = {}
  BY DEF NotifInit
<1>e. taking \in [{"bus", "ui"} -> [id : 0 .. MaxIds, drops : BOOLEAN, disarmed : BOOLEAN]]
  BY <1>a DEF NotifInit, NoTaking
<1>1. NotifTypeOK
  BY <1>a, <1>b, <1>c, <1>d, <1>e DEF NotifTypeOK
<1>2. Popped(live) = {}
  BY DEF NotifInit, Popped, Gone
<1> QED
  BY <1>1, <1>2 DEF NotifInit, NotifInv, SentByNow, FreshGone, Quiet, PopupsArmed

LEMMA NotifInvNext == NotifInv /\ [NotifNext]_notifVars => NotifInv'
<1> SUFFICES ASSUME NotifInv, [NotifNext]_notifVars
             PROVE  NotifInv'
  OBVIOUS
<1>1. NotifTypeOK'
  BY NotifTypeNext
<1>2. ASSUME NEW t \in {"bus", "ui"}, NEW author \in {"shell", "client"}, NEW r \in 0 .. MaxIds,
             Push(t, author, r)
      PROVE  NotifInv'
  BY <1>1, <1>2, PushKeeps DEF NotifInv
<1>3. CASE Quietly
  <2>1. SentByNow' /\ FreshGone'
    BY <1>3, QuietlyFades, FadesKeeps
  <2> QED
    BY <1>1, <1>3, <2>1, QuietlyKeepsArmed, QuietlyKeepsQuiet DEF NotifInv
<1> QED
  BY <1>2, <1>3 DEF NotifNext, Quietly

(* What holds of popups, their clocks and who drew them in every state.    *)
THEOREM NotifInvAlways == NotifSpec => []NotifInv
BY NotifInvInit, NotifInvNext, PTL DEF NotifSpec

(* Every popup whose sender has been answered has its clock running, or    *)
(* will have it as soon as the column draws it.                            *)
THEOREM PopupsArmedAlways == NotifSpec => []PopupsArmed
<1>1. NotifInv => PopupsArmed
  BY DEF NotifInv
<1> QED
  BY <1>1, NotifInvAlways, PTL

(* What one step does to a popup.                                          *)
LEMMA StepKeeps ==
  ASSUME NotifInv, NotifInv', [NotifNext]_notifVars
  PROVE  /\ \A id \in Ids : live[id] # Gone => live'[id] = Gone \/ live'[id].by = live[id].by
         /\ \A id \in Ids : live'[id].popup /\ ~live[id].popup => live'[id].sent # live[id].sent
         /\ dnd' => Popped(live') = {}
         /\ \A c \in clocks \ clocks' : live[c.id].sent # c.sent => live'[c.id] = live[c.id]
<1>1. dnd' => Popped(live') = {}
  BY DEF NotifInv, Quiet
<1>2. ASSUME NEW t \in {"bus", "ui"}, NEW author \in {"shell", "client"}, NEW r \in 0 .. MaxIds,
             Push(t, author, r)
      PROVE  /\ \A id \in Ids : live[id] # Gone => live'[id] = Gone \/ live'[id].by = live[id].by
             /\ \A id \in Ids : live'[id].popup /\ ~live[id].popup => live'[id].sent # live[id].sent
             /\ \A c \in clocks \ clocks' : live[c.id].sent # c.sent => live'[c.id] = live[c.id]
  BY <1>2, PushKeeps
<1>3. CASE Quietly
  <2>1. \A id \in Ids : live[id] # Gone => live'[id] = Gone \/ live'[id].by = live[id].by
    BY <1>3, QuietlyFades DEF Fades, Gone, NotifInv, NotifTypeOK
  <2>2. \A id \in Ids : live'[id].popup => live'[id] = live[id]
    BY <1>3, QuietlyFades, FadesKeeps
  <2>3. ASSUME NEW c \in clocks \ clocks', live[c.id].sent # c.sent
        PROVE  live'[c.id] = live[c.id]
    <3>1. CASE clocks \subseteq clocks'
      BY <2>3, <3>1
    <3>2. ASSUME NEW d \in clocks, Rings(d)
          PROVE  live'[c.id] = live[c.id]
      <4>1. c = d /\ live' = Retired(c) /\ c.id \in Ids
        BY <2>3, <3>2 DEF Rings, Commit, NotifInv, NotifTypeOK
      <4> QED
        BY <2>3, <4>1 DEF Retired
    <3>3. clocks \subseteq clocks' \/ \E d \in clocks : Rings(d)
      BY <1>3 DEF Quietly, HandOn, Subscribe, SetDnd, ClearAll, Draw, Redraw, Shown, Arm, Close,
                  Expire, TakesDown, Disarm, TakeDown, Rest, notifVars
    <3> QED
      BY <3>1, <3>2, <3>3
  <2> QED
    BY <1>1, <2>1, <2>2, <2>3
<1> QED
  BY <1>1, <1>2, <1>3 DEF NotifNext, Quietly

(* Whoever acts in between, a popup is changed by its own author, its own  *)
(* clock or the user, and never comes back.                                *)
THEOREM PopupsKeptAlways == NotifSpec => PopupsKept
<1>1. NotifInv /\ NotifInv' /\ [NotifNext]_notifVars =>
         /\ [\A id \in Ids : live[id] # Gone => live'[id] = Gone \/ live'[id].by = live[id].by]_notifVars
         /\ [/\ \A id \in Ids : live'[id].popup /\ ~live[id].popup => live'[id].sent # live[id].sent
             /\ dnd' => Popped(live') = {}]_notifVars
         /\ [\A c \in clocks \ clocks' : live[c.id].sent # c.sent => live'[c.id] = live[c.id]]_notifVars
  BY StepKeeps
<1> QED
  BY <1>1, NotifInvAlways, PTL DEF NotifSpec, PopupsKept, AuthorsKept, SuppressedStays, ClockRetiresOwn

-----------------------------------------------------------------------------
(* Recorder: the recording that runs is the one that is shown, and that a  *)
(* stop or a pause reaches.                                                *)

(* Only of the last recording is there a process or a thread.              *)
OnlyLast ==
  \A n \in Recordings :
    /\ n # begun => ~Alive(n) /\ reaper[n] \in {"none", "done"}
    /\ n > begun => n \notin suspended
    /\ reaper[n] \in {"reads", "clears", "publishes", "done"} => ~Alive(n)

(* What is published, and whose the number is, follows that thread.        *)
FollowsLast ==
  IF begun = 0 THEN ~active /\ pid = 0
               ELSE /\ active <=> reaper[begun] # "done"
                    /\ pid = IF reaper[begun] \in {"publishes", "done"} THEN 0 ELSE begun

(* A pause between its signal and its note is the one that was seen due,   *)
(* of the recording that was there; a signal goes to somebody.             *)
PauseUnderWay ==
  /\ at = "pause" => hand = begun
  /\ at \in {"stop", "pause"} => hand # 0
  /\ \A n \in Recordings : rec[n] = "runs" =>
       /\ at \in {"seen", "pause"} => was = paused
       /\ at = "note" => (was <=> n \notin suspended)

RecorderInv == RecorderTypeOK /\ OnlyLast /\ FollowsLast /\ PauseShown /\ PauseUnderWay

LEMMA RecorderConstants == MaxRecordings \in Nat /\ MaxRecordings > 0 /\ PipeRoom \in Nat
BY RecorderAssumption

LEMMA RecorderTypeNext ==
  ASSUME RecorderInv, [RecorderNext]_recorderVars
  PROVE  RecorderTypeOK'
<1> USE RecorderConstants DEF Recordings
<1>0. RecorderTypeOK /\ (at \in {"stop", "pause"} => hand # 0)
  BY DEF RecorderInv, PauseUnderWay
<1>1. CASE Begins
  <2>1. begun' \in 0 .. MaxRecordings /\ begun + 1 \in Recordings /\ pid' \in 0 .. begun' /\ hand' \in 0 .. begun'
    BY <1>0, <1>1 DEF Begins, RecorderTypeOK
  <2>2. rec' \in [Recordings -> {"unborn", "runs", "blocked", "exited", "collected"}]
    BY <1>0, <1>1 DEF Begins, RecorderTypeOK
  <2>3. reaper' \in [Recordings -> {"none", "waits", "reads", "clears", "publishes", "done"}]
    BY <1>0, <1>1 DEF Begins, RecorderTypeOK
  <2>4. active' \in BOOLEAN /\ paused' \in BOOLEAN /\ UNCHANGED <<suspended, stopSent, complaint, at, was, strayed>>
    BY <1>1 DEF Begins
  <2> QED
    BY <1>0, <2>1, <2>2, <2>3, <2>4 DEF RecorderTypeOK
<1>2. CASE LoadsToStop \/ SeesToPause \/ LoadsToPause \/ NotesPause
  BY <1>0, <1>2 DEF LoadsToStop, SeesToPause, LoadsToPause, NotesPause, RecorderTypeOK
<1>3. CASE Interrupts \/ TellsToPause
  <2>1. Alive(hand) => hand \in Recordings
    BY <1>0, <1>3 DEF Interrupts, TellsToPause, RecorderTypeOK
  <2>2. stopSent' \subseteq Recordings /\ suspended' \subseteq Recordings
    BY <1>0, <1>3, <2>1 DEF Interrupts, TellsToPause, Signalled, RecorderTypeOK
  <2>3. strayed' \in BOOLEAN
    BY <1>0, <1>3 DEF Interrupts, TellsToPause, StrayOf, RecorderTypeOK
  <2> QED
    BY <1>0, <1>3, <2>2, <2>3 DEF Interrupts, TellsToPause, RecorderTypeOK
<1>4. ASSUME NEW n \in Recordings, Reaps(n)
      PROVE  RecorderTypeOK'
  <2>1. rec' \in [Recordings -> {"unborn", "runs", "blocked", "exited", "collected"}]
    BY <1>0, <1>4 DEF Reaps, Collects, ReadsComplaint, ClearsNumber, PublishesEnd, RecorderTypeOK
  <2>2. reaper' \in [Recordings -> {"none", "waits", "reads", "clears", "publishes", "done"}]
    BY <1>0, <1>4 DEF Reaps, Collects, ReadsComplaint, ClearsNumber, PublishesEnd, RecorderTypeOK
  <2>3. complaint' \in [Recordings -> 0 .. PipeRoom]
    BY <1>0, <1>4 DEF Reaps, Collects, ReadsComplaint, ClearsNumber, PublishesEnd, RecorderTypeOK
  <2>4. active' \in BOOLEAN /\ paused' \in BOOLEAN /\ pid' \in {pid, 0}
    BY <1>0, <1>4 DEF Reaps, Collects, ReadsComplaint, ClearsNumber, PublishesEnd, RecorderTypeOK
  <2> QED
    BY <1>0, <1>4, <2>1, <2>2, <2>3, <2>4 DEF Reaps, ReaperRest, RecorderTypeOK
<1>5. ASSUME NEW n \in Recordings, Complains(n) \/ Ends(n)
      PROVE  RecorderTypeOK'
  <2>1. rec' \in [Recordings -> {"unborn", "runs", "blocked", "exited", "collected"}]
    BY <1>0, <1>5 DEF Complains, Ends, RecorderTypeOK
  <2>2. complaint' \in [Recordings -> 0 .. PipeRoom]
    BY <1>0, <1>5 DEF Complains, Ends, RecorderTypeOK
  <2> QED
    BY <1>0, <1>5, <2>1, <2>2 DEF Complains, Ends, RecorderRest, RecorderTypeOK
<1>6. CASE UNCHANGED recorderVars
  BY <1>0, <1>6 DEF recorderVars, RecorderTypeOK
<1> QED
  BY <1>1, <1>2, <1>3, <1>4, <1>5, <1>6 DEF RecorderNext, Button, Presses

(* What the driver thread does about the one there is.                     *)
LEMMA PressesKeep ==
  ASSUME RecorderInv, LoadsToStop \/ SeesToPause \/ Presses
  PROVE  OnlyLast' /\ FollowsLast' /\ PauseShown' /\ PauseUnderWay'
<1> USE RecorderConstants DEF Recordings
<1>1. UNCHANGED <<active, pid, begun, rec, reaper>>
  BY DEF LoadsToStop, SeesToPause, Presses, Interrupts, LoadsToPause, TellsToPause, NotesPause
<1>2. hand \in 0 .. begun /\ begun \in Nat /\ was \in BOOLEAN /\ paused \in BOOLEAN
  BY DEF RecorderInv, RecorderTypeOK
<1>3. \A n \in Recordings : Alive(n) => n = begun
  BY DEF RecorderInv, OnlyLast
<1>4. FollowsLast'
  BY <1>1 DEF RecorderInv, FollowsLast
<1>5. ASSUME UNCHANGED <<paused, suspended>>, at' # "note", at # "note"
      PROVE  OnlyLast' /\ PauseShown'
  BY <1>1, <1>5 DEF RecorderInv, OnlyLast, PauseShown, Alive
<1>6. CASE LoadsToStop \/ Interrupts
  <2>1. UNCHANGED <<paused, suspended>> /\ at # "note" /\ at' \in {"idle", "stop"} /\ (at' = "stop" => hand' # 0)
    BY <1>6 DEF LoadsToStop, Interrupts
  <2>2. PauseUnderWay'
    BY <2>1 DEF PauseUnderWay
  <2> QED
    BY <1>4, <1>5, <2>1, <2>2
<1>7. CASE SeesToPause
  <2>1. UNCHANGED <<paused, suspended>> /\ at # "note" /\ at' = "seen" /\ was' = paused
    BY <1>7 DEF SeesToPause
  <2>2. PauseUnderWay'
    BY <2>1 DEF PauseUnderWay
  <2> QED
    BY <1>4, <1>5, <2>1, <2>2
<1>8. CASE LoadsToPause
  <2>1. pid # 0 => pid = begun
    BY DEF RecorderInv, FollowsLast
  <2>2. /\ UNCHANGED <<paused, suspended, was>> /\ at = "seen" /\ hand' = pid
        /\ at' = IF pid = 0 THEN "idle" ELSE "pause"
    BY <1>8 DEF LoadsToPause
  <2>3. PauseUnderWay'
    BY <1>1, <2>1, <2>2 DEF RecorderInv, PauseUnderWay
  <2> QED
    BY <1>4, <1>5, <2>2, <2>3
<1>9. CASE TellsToPause
  <2>1. hand = begun /\ at' = "note" /\ UNCHANGED <<paused, was>>
    BY <1>9 DEF TellsToPause, RecorderInv, PauseUnderWay
  <2>2. suspended' = IF ~Alive(begun) THEN suspended
                     ELSE IF begun \in suspended THEN suspended \ {begun} ELSE suspended \cup {begun}
    BY <1>9, <2>1 DEF TellsToPause
  <2>3. ASSUME NEW n \in Recordings, rec[n] = "runs"
        PROVE  was' <=> n \notin suspended'
    <3>1. n = begun /\ Alive(begun)
      BY <1>3, <2>3 DEF Alive
    <3>2. was = paused /\ (paused <=> n \in suspended)
      BY <1>9, <2>3 DEF TellsToPause, RecorderInv, PauseShown, PauseUnderWay
    <3> QED
      BY <2>1, <2>2, <3>1, <3>2
  <2>4. PauseShown' /\ PauseUnderWay'
    BY <1>1, <2>1, <2>3 DEF PauseShown, PauseUnderWay
  <2>5. OnlyLast'
    BY <1>1, <1>2, <2>2 DEF RecorderInv, OnlyLast, Alive
  <2> QED
    BY <1>4, <2>4, <2>5
<1>10. CASE NotesPause
  BY <1>1, <1>2, <1>4, <1>10 DEF NotesPause, RecorderInv, OnlyLast, PauseShown, PauseUnderWay, Alive
<1> QED
  BY <1>4, <1>6, <1>7, <1>8, <1>9, <1>10 DEF Presses

LEMMA RecorderInvNext ==
  ASSUME RecorderInv, [RecorderNext]_recorderVars
  PROVE  RecorderInv'
<1> USE RecorderConstants DEF Recordings
<1>0. RecorderTypeOK'
  BY RecorderTypeNext DEF RecorderInv
<1>t. /\ begun \in Nat /\ begun <= MaxRecordings /\ rec \in [Recordings -> {"unborn", "runs", "blocked", "exited", "collected"}]
      /\ reaper \in [Recordings -> {"none", "waits", "reads", "clears", "publishes", "done"}]
  BY DEF RecorderInv, RecorderTypeOK
<1>1. CASE Begins
  <2>1. PICK r \in {"waits", "none"} :
          /\ begun' = begun + 1 /\ begun' \in Recordings /\ pid' = begun' /\ active' = TRUE /\ paused' = FALSE
          /\ rec' = [rec EXCEPT ![begun + 1] = "runs"] /\ reaper' = [reaper EXCEPT ![begun + 1] = r]
          /\ UNCHANGED <<suspended, hand, at, was>> /\ at = "idle" /\ ~active
    <3>1. begun' = begun + 1 /\ begun < MaxRecordings /\ \E r \in {"waits", "none"} : reaper' = [reaper EXCEPT ![begun'] = r]
      BY <1>1 DEF Begins
    <3>2. begun' \in Recordings
      BY <1>t, <3>1
    <3> QED
      BY <1>1, <3>1, <3>2 DEF Begins, MayBegin
  <2>2. begun # 0 => reaper[begun] = "done"
    BY <2>1 DEF RecorderInv, FollowsLast
  <2>3. \A n \in Recordings : ~Alive(n) /\ reaper[n] \in {"none", "done"}
    BY <1>t, <2>2 DEF RecorderInv, OnlyLast
  <2>4. OnlyLast'
    BY <1>t, <2>1, <2>3 DEF RecorderInv, OnlyLast, Alive
  <2>5. FollowsLast'
    BY <1>t, <2>1 DEF FollowsLast
  <2>6. begun + 1 \notin suspended
    BY <1>t, <2>1 DEF RecorderInv, OnlyLast
  <2>7. PauseShown' /\ PauseUnderWay'
    BY <1>t, <2>1, <2>3, <2>6 DEF PauseShown, PauseUnderWay, Alive
  <2> QED
    BY <1>0, <2>4, <2>5, <2>7 DEF RecorderInv
<1>2. CASE LoadsToStop \/ SeesToPause \/ Presses
  BY <1>0, <1>2, PressesKeep DEF RecorderInv
<1>3. ASSUME NEW n \in Recordings, Reaps(n)
      PROVE  RecorderInv'
  <2>1. UNCHANGED <<begun, suspended, hand, at, was>>
    BY <1>3 DEF Reaps, ReaperRest
  <2>2. n = begun /\ reaper[n] \in {"waits", "reads", "clears", "publishes"}
    BY <1>3 DEF Reaps, Collects, ReadsComplaint, ClearsNumber, PublishesEnd, RecorderInv, OnlyLast
  <2>3. ~Alive(n) /\ \A m \in Recordings : ~Alive(m)
    BY <1>3, <2>2 DEF Reaps, Collects, ReadsComplaint, ClearsNumber, PublishesEnd, RecorderInv, OnlyLast, Alive
  <2>4. \A m \in Recordings : rec'[m] \notin {"runs", "blocked"}
    BY <1>3, <1>t, <2>3 DEF Reaps, Collects, ReadsComplaint, ClearsNumber, PublishesEnd, Alive
  <2>5. OnlyLast' /\ FollowsLast'
    BY <1>3, <1>t, <2>1, <2>2, <2>4
    DEF Reaps, Collects, ReadsComplaint, ClearsNumber, PublishesEnd, RecorderInv, OnlyLast, FollowsLast, Alive
  <2>6. PauseShown' /\ PauseUnderWay'
    BY <2>1, <2>4 DEF RecorderInv, PauseShown, PauseUnderWay
  <2> QED
    BY <1>0, <2>5, <2>6 DEF RecorderInv
<1>4. ASSUME NEW n \in Recordings, Complains(n) \/ Ends(n)
      PROVE  RecorderInv'
  <2>1. UNCHANGED <<active, paused, pid, begun, suspended, reaper, hand, at, was>>
    BY <1>4 DEF Complains, Ends, RecorderRest
  <2>2. rec[n] = "runs" /\ \A m \in Recordings : rec'[m] = rec[m] \/ (m = n /\ rec'[m] \in {"blocked", "exited"})
    BY <1>4, <1>t DEF Complains, Ends
  <2>3. OnlyLast' /\ FollowsLast'
    BY <2>1, <2>2 DEF RecorderInv, OnlyLast, FollowsLast, Alive
  <2>4. PauseShown' /\ PauseUnderWay'
    BY <2>1, <2>2 DEF RecorderInv, PauseShown, PauseUnderWay
  <2> QED
    BY <1>0, <2>3, <2>4 DEF RecorderInv
<1>5. CASE UNCHANGED recorderVars
  BY <1>0, <1>5 DEF recorderVars, RecorderInv, OnlyLast, FollowsLast, PauseShown, PauseUnderWay, Alive
<1> QED
  BY <1>1, <1>2, <1>3, <1>4, <1>5 DEF RecorderNext, Button, Presses

LEMMA RecorderInvInit == RecorderInit => RecorderInv
<1> SUFFICES ASSUME RecorderInit PROVE RecorderInv
  OBVIOUS
<1>1. RecorderTypeOK
  <2>1. begun = 0 /\ 0 \in 0 .. MaxRecordings /\ 0 \in 0 .. 0 /\ 0 \in 0 .. PipeRoom
    BY RecorderConstants DEF RecorderInit
  <2> QED
    BY <2>1 DEF RecorderInit, RecorderTypeOK
<1>2. OnlyLast /\ FollowsLast
  BY DEF RecorderInit, OnlyLast, FollowsLast, Alive
<1>3. PauseShown /\ PauseUnderWay
  BY DEF RecorderInit, PauseShown, PauseUnderWay
<1> QED
  BY <1>1, <1>2, <1>3 DEF RecorderInv

(* The recorder that runs is the only one, it is shown, and a stop reaches *)
(* it; what is shown as paused is (recorder.rs, start and toggle_pause).   *)
THEOREM RecorderFollowedAlways == RecorderSpec => [](Reached /\ PauseShown)
<1>1. RecorderInv => Reached /\ PauseShown
  BY RecorderConstants DEF RecorderInv, Reached, OnlyLast, FollowsLast, Recordings
<1>2. RecorderInv /\ [RecorderNext]_recorderVars => RecorderInv'
  BY RecorderInvNext
<1> QED
  BY <1>1, <1>2, RecorderInvInit, PTL DEF RecorderSpec

-----------------------------------------------------------------------------
(* SharedState: no change is lost, and the file and the subscribers get    *)
(* them in the order they were made.                                       *)

(* The writing mutex: one writer at a time, with a copy of the value that  *)
(* is published, and what it changed in it.                                *)
OneWrites ==
  /\ \A v, w \in Writers : writes[v].at # "rest" /\ writes[w].at # "rest" => v = w
  /\ \A w \in Writers :
       /\ writes[w].at # "rest" => writes[w].change \in Updates /\ Len(contents) < updates
       /\ writes[w].at = "changing" => writes[w].next = state \cup {writes[w].change}
       /\ writes[w].at \in {"sending", "queueing"} => writes[w].next = state

(* What the file was asked for last: the state, but for what the one       *)
(* writer is about to ask for.                                             *)
Newest == Contents(Len(contents))
AskedLast ==
  /\ Newest \subseteq state
  /\ (\A w \in Writers : writes[w].at \in {"rest", "changing"}) => Newest = state

(* The file is one of those it was asked for.                              *)
FileBehind ==
  /\ Len(contents) <= updates
  /\ \A p \in StateFile :
       wanted[p] = Len(contents) /\ file[p] \in 0 .. Len(contents) /\ device[p] \in 0 .. Len(contents)

(* Nobody was sent, or is about to be, what the state does not have.       *)
SeenBehind ==
  \A r \in Readers :
    /\ reads[r].at = "there" <=> r \in subs
    /\ reads[r].at = "read" => reads[r].value \subseteq state
    /\ seen[r] \subseteq state

SharedInv == SharedTypeOK /\ NoneLost /\ OneWrites /\ AskedLast /\ FileGrows /\ FileBehind /\ SeenBehind

LEMMA SharedConstants == MaxUpdates \in Nat /\ MaxUpdates > 0 /\ MaxDowns \in Nat
BY SharedStateAssumption

(* What the invariant says of the sequence of contents.                    *)
LEMMA ContentsFacts ==
  ASSUME SharedInv
  PROVE  /\ contents \in Seq(SUBSET Updates) /\ Len(contents) \in Nat /\ DOMAIN contents = 1 .. Len(contents)
         /\ updates \in Nat /\ updates <= MaxUpdates /\ Len(contents) <= updates
         /\ state \subseteq Updates
BY SharedConstants DEF SharedInv, SharedTypeOK, FileBehind

(* A writer moves on, and leaves what was asked of the file alone.         *)
LEMMA ChangesKeep ==
  ASSUME SharedInv, NEW w \in Writers, Writes(w) \/ Refuses(w) \/ SetsState(w) \/ SendsState(w)
  PROVE  SharedInv'
<1> USE SharedConstants DEF Updates
<1>c. UNCHANGED <<contents, onDisk, subs, reads, downs>> /\ updates' \in {updates, updates + 1}
  BY DEF Writes, Refuses, SetsState, SendsState
<1>t. /\ state \subseteq Updates /\ made = state /\ updates \in 0 .. MaxUpdates
      /\ writes \in [Writers -> [at : {"rest", "changing", "sending", "queueing"},
                                 change : 0 .. MaxUpdates, next : SUBSET Updates]]
      /\ seen \in [Readers -> SUBSET Updates]
  BY DEF SharedInv, SharedTypeOK, NoneLost
<1>l. Len(contents) \in Nat /\ Len(contents) <= updates
  BY ContentsFacts
<1>g. FileGrows'
  BY <1>c DEF SharedInv, FileGrows
<1>f. ASSUME updates' \in Nat, updates <= updates'
      PROVE  FileBehind'
  <2>1. updates \in Nat /\ \A l, m, n \in Nat : l <= m /\ m <= n => l <= n
    BY <1>t
  <2>2. Len(contents) <= updates'
    BY <1>l, <1>f, <2>1
  <2> QED
    BY <1>c, <2>2 DEF SharedInv, FileBehind, onDisk
<1>o. \A v \in Writers : v # w /\ writes[w].at # "rest" => writes[v].at = "rest"
  BY DEF SharedInv, OneWrites
<1>1. CASE Writes(w)
  <2>1. /\ \A v \in Writers : writes[v].at = "rest"
        /\ updates' = updates + 1 /\ updates' \in 1 .. MaxUpdates
        /\ writes' = [writes EXCEPT ![w] = [at |-> "changing", change |-> updates + 1, next |-> state \cup {updates + 1}]]
        /\ UNCHANGED <<state, seen, made>>
    BY <1>1, <1>t DEF Writes, MayWrite, NoneWrites
  <2>2. SharedTypeOK'
    <3>1. writes' \in [Writers -> [at : {"rest", "changing", "sending", "queueing"},
                                 change : 0 .. MaxUpdates, next : SUBSET Updates]]
      BY <1>t, <2>1
    <3> QED
      BY <1>c, <1>t, <2>1, <3>1 DEF SharedInv, SharedTypeOK, onDisk
  <2>3. OneWrites'
    BY <1>c, <1>t, <1>l, <2>1 DEF OneWrites
  <2>4. AskedLast'
    BY <1>c, <1>t, <2>1 DEF SharedInv, AskedLast, Newest, Contents
  <2>5. SeenBehind' /\ NoneLost'
    BY <1>c, <2>1 DEF SharedInv, SeenBehind, NoneLost
  <2> QED
    BY <1>f, <1>g, <1>t, <2>1, <2>2, <2>3, <2>4, <2>5 DEF SharedInv
<1>2. CASE Refuses(w)
  <2>1. /\ writes' = [writes EXCEPT ![w] = AtRest] /\ writes[w].at = "changing"
        /\ UNCHANGED <<state, seen, made, updates>>
    BY <1>2 DEF Refuses
  <2>2. SharedTypeOK'
    <3>1. writes' \in [Writers -> [at : {"rest", "changing", "sending", "queueing"},
                                 change : 0 .. MaxUpdates, next : SUBSET Updates]]
      BY <1>t, <2>1 DEF AtRest
    <3> QED
      BY <1>c, <1>t, <2>1, <3>1 DEF SharedInv, SharedTypeOK, onDisk
  <2>3. OneWrites'
    BY <1>c, <1>t, <1>o, <2>1 DEF SharedInv, OneWrites, AtRest
  <2>4. AskedLast'
    BY <1>c, <1>t, <1>o, <2>1 DEF SharedInv, AskedLast, Newest, Contents, AtRest
  <2>5. SeenBehind' /\ NoneLost'
    BY <1>c, <2>1 DEF SharedInv, SeenBehind, NoneLost
  <2> QED
    BY <1>f, <1>g, <1>t, <2>1, <2>2, <2>3, <2>4, <2>5 DEF SharedInv
<1>3. CASE SetsState(w)
  <2>1. /\ writes' = [writes EXCEPT ![w].at = "sending"] /\ writes[w].at = "changing"
        /\ state' = writes[w].next /\ made' = made \cup {writes[w].change}
        /\ UNCHANGED <<seen, updates>>
    BY <1>3 DEF SetsState
  <2>2. state' = state \cup {writes[w].change} /\ writes[w].change \in Updates
    BY <2>1 DEF SharedInv, OneWrites
  <2>3. SharedTypeOK'
    <3>1. writes' \in [Writers -> [at : {"rest", "changing", "sending", "queueing"},
                                 change : 0 .. MaxUpdates, next : SUBSET Updates]]
      BY <1>t, <2>1
    <3> QED
      BY <1>c, <1>t, <2>1, <2>2, <3>1 DEF SharedInv, SharedTypeOK, onDisk
  <2>4. OneWrites'
    BY <1>c, <1>t, <1>o, <2>1 DEF SharedInv, OneWrites
  <2>5. AskedLast'
    <3>1. Newest' = Newest /\ Newest \subseteq state /\ writes'[w].at = "sending"
      BY <1>c, <1>t, <2>1 DEF SharedInv, AskedLast, Newest, Contents
    <3> QED
      BY <2>2, <3>1 DEF AskedLast
  <2>6. SeenBehind' /\ NoneLost'
    BY <1>c, <1>t, <2>1, <2>2 DEF SharedInv, SeenBehind, NoneLost
  <2> QED
    BY <1>f, <1>g, <1>t, <2>1, <2>3, <2>4, <2>5, <2>6 DEF SharedInv
<1>4. CASE SendsState(w)
  <2>1. /\ writes' = [writes EXCEPT ![w].at = "queueing"] /\ writes[w].at = "sending"
        /\ seen' = [r \in Readers |-> IF r \in subs THEN writes[w].next ELSE seen[r]]
        /\ UNCHANGED <<state, made, updates>> /\ writes[w].next = state
    BY <1>4 DEF SendsState, SharedInv, OneWrites
  <2>2. SharedTypeOK'
    <3>1. writes' \in [Writers -> [at : {"rest", "changing", "sending", "queueing"},
                                 change : 0 .. MaxUpdates, next : SUBSET Updates]]
      BY <1>t, <2>1
    <3> QED
      BY <1>c, <1>t, <2>1, <3>1 DEF SharedInv, SharedTypeOK, onDisk
  <2>3. OneWrites'
    BY <1>c, <1>t, <1>o, <2>1 DEF SharedInv, OneWrites
  <2>4. AskedLast'
    <3>1. Newest' = Newest /\ Newest \subseteq state /\ writes'[w].at = "queueing"
      BY <1>c, <1>t, <2>1 DEF SharedInv, AskedLast, Newest, Contents
    <3> QED
      BY <2>1, <3>1 DEF AskedLast
  <2>5. SeenBehind' /\ NoneLost'
    BY <1>c, <2>1 DEF SharedInv, SeenBehind, NoneLost
  <2> QED
    BY <1>f, <1>g, <1>t, <2>1, <2>2, <2>3, <2>4, <2>5 DEF SharedInv
<1> QED
  BY <1>1, <1>2, <1>3, <1>4

(* The one writer asks for what it made of the state.                      *)
LEMMA PersistsKeep ==
  ASSUME SharedInv, NEW w \in Writers, Persists(w)
  PROVE  SharedInv'
<1> USE SharedConstants DEF Updates
<1> DEFINE n == Len(contents) + 1
<1>1. /\ writes' = [writes EXCEPT ![w] = AtRest] /\ writes[w].at = "queueing" /\ writes[w].next = state
      /\ contents' = Append(contents, state) /\ wanted' = [p \in StateFile |-> Len(contents')]
      /\ UNCHANGED <<state, subs, reads, seen, made, updates, downs>> /\ Len(contents) < updates
  BY DEF Persists, SharedInv, OneWrites
<1>2. UNCHANGED <<file, device, promised>>
  BY DEF Persists, File!Ask, StateFile
<1>3. /\ contents \in Seq(SUBSET Updates) /\ Len(contents) \in Nat /\ updates \in Nat /\ updates <= MaxUpdates
      /\ state \subseteq Updates
  BY ContentsFacts
<1>4. /\ Len(contents') = n /\ contents'[n] = state /\ n \in Nat /\ n <= updates /\ n # 0
      /\ \A i \in 1 .. Len(contents) : contents'[i] = contents[i]
      /\ contents' \in Seq(SUBSET Updates)
  BY <1>1, <1>3
<1>t. writes \in [Writers -> [at : {"rest", "changing", "sending", "queueing"},
                              change : 0 .. MaxUpdates, next : SUBSET Updates]]
  BY DEF SharedInv, SharedTypeOK
<1>o. \A v \in Writers : writes'[v].at = "rest"
  BY <1>1, <1>t DEF SharedInv, OneWrites, AtRest
<1>5. SharedTypeOK'
  <2>1. writes' \in [Writers -> [at : {"rest", "changing", "sending", "queueing"},
                              change : 0 .. MaxUpdates, next : SUBSET Updates]]
    BY <1>1, <1>t DEF AtRest
  <2>2. wanted' \in [StateFile -> 0 .. MaxUpdates]
    BY <1>1, <1>3, <1>4
  <2> QED
    BY <1>1, <1>2, <1>4, <2>1, <2>2 DEF SharedInv, SharedTypeOK
<1>6. OneWrites'
  BY <1>o DEF OneWrites
<1>7. AskedLast'
  BY <1>1, <1>4 DEF AskedLast, Newest, Contents
<1>8. FileGrows'
  <2>1. ASSUME NEW i \in 2 .. n
        PROVE  contents'[i - 1] \subseteq contents'[i]
    <3>1. CASE i = n /\ Len(contents) = 0
      BY <2>1, <3>1
    <3>2. CASE i = n /\ Len(contents) # 0
      <4>1. contents'[i - 1] = Newest
        BY <1>3, <1>4, <3>2 DEF Newest, Contents
      <4> QED
        BY <1>4, <3>2, <4>1 DEF SharedInv, AskedLast
    <3>3. CASE i # n
      <4>1. i \in 2 .. Len(contents) /\ i - 1 \in 1 .. Len(contents) /\ i \in 1 .. Len(contents)
        BY <1>3, <2>1, <3>3
      <4> QED
        BY <1>4, <4>1 DEF SharedInv, FileGrows
    <3> QED
      BY <3>1, <3>2, <3>3
  <2> QED
    BY <1>4, <2>1 DEF FileGrows
<1>9. FileBehind'
  BY <1>1, <1>2, <1>3, <1>4 DEF SharedInv, FileBehind
<1>10. SeenBehind' /\ NoneLost'
  BY <1>1 DEF SharedInv, SeenBehind, NoneLost
<1> QED
  BY <1>5, <1>6, <1>7, <1>8, <1>9, <1>10 DEF SharedInv

(* The readers, and the file.                                              *)
LEMMA ReadersKeep ==
  ASSUME SharedInv, NEW r \in Readers, ReadsState(r) \/ IsFiled(r) \/ IsClosed(r)
  PROVE  SharedInv'
<1>1. UNCHANGED <<state, writes, made, updates, contents, onDisk, downs>>
  BY DEF ReadsState, IsFiled, IsClosed
<1>2. NoneLost' /\ OneWrites' /\ AskedLast' /\ FileGrows' /\ FileBehind'
  BY <1>1 DEF SharedInv, NoneLost, OneWrites, AskedLast, Newest, Contents, FileGrows, FileBehind, onDisk
<1>t. /\ state \subseteq Updates /\ subs \subseteq Readers
      /\ reads \in [Readers -> [at : {"away", "read", "there"}, value : SUBSET Updates]]
      /\ seen \in [Readers -> SUBSET Updates]
  BY DEF SharedInv, SharedTypeOK
<1>3. /\ subs' \subseteq Readers
      /\ reads' \in [Readers -> [at : {"away", "read", "there"}, value : SUBSET Updates]]
      /\ seen' \in [Readers -> SUBSET Updates]
  BY <1>t DEF ReadsState, IsFiled, IsClosed, Nowhere
<1>4. SharedTypeOK'
  BY <1>1, <1>3 DEF SharedInv, SharedTypeOK, onDisk
<1>5. SeenBehind'
  BY <1>1, <1>t DEF ReadsState, IsFiled, IsClosed, Nowhere, SharedInv, SeenBehind
<1> QED
  BY <1>2, <1>4, <1>5 DEF SharedInv

LEMMA FileTurnsKeep ==
  ASSUME SharedInv, FileTurns
  PROVE  SharedInv'
<1> USE SharedConstants
<1>1. UNCHANGED <<state, subs, writes, reads, seen, made, updates, contents, downs>>
  BY DEF FileTurns
<1>2. /\ UNCHANGED <<wanted, promised>>
      /\ \A p \in StateFile : file'[p] \in 0 .. Len(contents) /\ device'[p] \in 0 .. Len(contents)
      /\ {file', device'} \subseteq [StateFile -> 0 .. MaxUpdates]
  <2>1. /\ Len(contents) \in Nat /\ Len(contents) <= MaxUpdates
        /\ {file, device} \subseteq [StateFile -> 0 .. MaxUpdates]
    BY ContentsFacts DEF SharedInv, SharedTypeOK
  <2>2. ASSUME NEW p \in StateFile, File!Replace(p)
        PROVE  UNCHANGED <<wanted, promised, device>> /\ \E s \in 0 .. Len(contents) : file' = [file EXCEPT ![p] = s]
    <3>1. PICK s \in (file[p] + 1) .. wanted[p] : file' = [file EXCEPT ![p] = s]
      BY <2>2 DEF File!Replace
    <3>2. wanted[p] = Len(contents) /\ file[p] \in Nat
      BY <2>1 DEF SharedInv, FileBehind
    <3>3. s \in 0 .. Len(contents)
      BY <2>1, <3>2
    <3> QED
      BY <2>2, <3>1, <3>3 DEF File!Replace
  <2>3. ASSUME NEW p \in StateFile, File!Flush(p)
        PROVE  UNCHANGED <<wanted, promised, file>> /\ device' = [device EXCEPT ![p] = file[p]]
    BY <2>3 DEF File!Flush
  <2>4. PICK p \in StateFile : File!Replace(p) \/ File!Flush(p)
    BY DEF FileTurns
  <2>5. CASE File!Replace(p)
    <3>1. PICK s \in 0 .. Len(contents) : file' = [file EXCEPT ![p] = s]
      BY <2>2, <2>5
    <3>2. file' \in [StateFile -> 0 .. MaxUpdates]
      BY <2>1, <3>1
    <3> QED
      BY <2>1, <2>2, <2>5, <3>1, <3>2 DEF SharedInv, FileBehind
  <2>6. CASE File!Flush(p)
    BY <2>1, <2>3, <2>6 DEF SharedInv, FileBehind
  <2> QED
    BY <2>4, <2>5, <2>6
<1>3. SharedTypeOK'
  BY <1>1, <1>2 DEF SharedInv, SharedTypeOK
<1>4. FileBehind'
  BY <1>1, <1>2 DEF SharedInv, FileBehind
<1> QED
  BY <1>1, <1>3, <1>4 DEF SharedInv, NoneLost, OneWrites, AskedLast, Newest, Contents, FileGrows, SeenBehind

(* Contents as far as the n-th.                                            *)
LEMMA Shortened ==
  ASSUME NEW S, NEW s \in Seq(S), NEW n \in 0 .. Len(s)
  PROVE  /\ SubSeq(s, 1, n) \in Seq(S) /\ Len(SubSeq(s, 1, n)) = n
         /\ \A i \in 1 .. n : SubSeq(s, 1, n)[i] = s[i]
<1>1. Len(s) \in Nat /\ n \in Int /\ 1 \in Int /\ n - 1 + 1 = n
  OBVIOUS
<1>2. \A i \in 1 .. n : s[i] \in S
  BY <1>1, ElementOfSeq
<1>3. /\ SubSeq(s, 1, n) \in Seq(S)
      /\ Len(SubSeq(s, 1, n)) = IF 1 <= n THEN n - 1 + 1 ELSE 0
      /\ \A i \in 1 .. n - 1 + 1 : SubSeq(s, 1, n)[i] = s[1 + i - 1]
  BY <1>1, <1>2, SubSeqProperties
<1>4. \A i \in 1 .. n : 1 + i - 1 = i
  BY <1>1
<1> QED
  BY <1>1, <1>3, <1>4

(* The shell comes back with contents that were asked for, and nothing of  *)
(* what was asked for later.                                               *)
LEMMA GoesDownKeeps ==
  ASSUME SharedInv, GoesDown
  PROVE  SharedInv'
<1> USE SharedConstants
<1> DEFINE p == "state.json"
           n == file'[p]
<1>1. /\ contents \in Seq(SUBSET Updates) /\ Len(contents) \in Nat /\ DOMAIN contents = 1 .. Len(contents)
      /\ updates \in Nat /\ updates <= MaxUpdates /\ Len(contents) <= updates
  BY ContentsFacts
<1>2. /\ \A q \in StateFile : q = p
      /\ p \in StateFile
  BY DEF StateFile
<1>3. /\ device' = file' /\ wanted' = file' /\ promised' = promised
      /\ file' \in [StateFile -> 0 .. MaxUpdates] /\ n \in 0 .. Len(contents)
  <2>1. PICK lost \in SUBSET StateFile : file' = [q \in StateFile |-> IF q \in lost THEN device[q] ELSE file[q]]
    BY DEF GoesDown, File!GoDown
  <2>2. {file, device} \subseteq [StateFile -> 0 .. MaxUpdates]
    BY DEF SharedInv, SharedTypeOK
  <2>3. device[p] \in 0 .. Len(contents) /\ file[p] \in 0 .. Len(contents)
    BY <1>2 DEF SharedInv, FileBehind
  <2> QED
    BY <1>2, <2>1, <2>2, <2>3 DEF GoesDown, File!GoDown
<1> HIDE DEF n
<1>4. /\ state' = Contents(n) /\ contents' = SubSeq(contents, 1, n) /\ made' = state' /\ subs' = {}
      /\ writes' = [w \in Writers |-> AtRest] /\ updates' = updates
      /\ reads' = [r \in Readers |-> Nowhere] /\ seen' = [r \in Readers |-> {}]
      /\ downs' = downs + 1 /\ downs < MaxDowns
  BY <1>2 DEF GoesDown, n
<1>5. /\ contents' \in Seq(SUBSET Updates) /\ Len(contents') = n
      /\ \A i \in 1 .. n : contents'[i] = contents[i]
  BY <1>1, <1>3, <1>4, Shortened
<1>6. state' \subseteq Updates
  <2>1. n # 0 => n \in 1 .. Len(contents)
    BY <1>1, <1>3
  <2>2. n # 0 => contents[n] \in SUBSET Updates
    BY <1>1, <2>1, ElementOfSeq
  <2> QED
    BY <1>4, <2>2 DEF Contents
<1>7. SharedTypeOK'
  <2>1. downs' \in 0 .. MaxDowns
    BY <1>4 DEF SharedInv, SharedTypeOK
  <2>2. writes' \in [Writers -> [at : {"rest", "changing", "sending", "queueing"},
                                 change : 0 .. MaxUpdates, next : SUBSET Updates]]
    BY <1>4 DEF AtRest
  <2>3. /\ reads' \in [Readers -> [at : {"away", "read", "there"}, value : SUBSET Updates]]
        /\ seen' \in [Readers -> SUBSET Updates]
    BY <1>4 DEF Nowhere
  <2> QED
    BY <1>3, <1>4, <1>5, <1>6, <2>1, <2>2, <2>3 DEF SharedInv, SharedTypeOK
<1>8. OneWrites' /\ NoneLost' /\ SeenBehind'
  BY <1>4 DEF OneWrites, NoneLost, SeenBehind, AtRest, Nowhere
<1>9. Newest' = state'
  <2>1. n \in Nat /\ (n # 0 => n \in 1 .. n)
    BY <1>1, <1>3
  <2> QED
    BY <1>4, <1>5, <2>1 DEF Newest, Contents
<1>10. AskedLast'
  BY <1>9 DEF AskedLast
<1>11. FileGrows'
  <2>1. ASSUME NEW i \in 2 .. n
        PROVE  contents'[i - 1] \subseteq contents'[i]
    <3>1. i \in 1 .. n /\ i - 1 \in 1 .. n /\ i \in 2 .. Len(contents)
      BY <1>1, <1>3, <2>1
    <3> QED
      BY <1>5, <3>1 DEF SharedInv, FileGrows
  <2> QED
    BY <1>5, <2>1 DEF FileGrows
<1>12. FileBehind'
  <2>1. n <= updates' /\ n \in 0 .. n
    BY <1>1, <1>3, <1>4
  <2>2. \A q \in StateFile : wanted'[q] = n /\ file'[q] = n /\ device'[q] = n
    BY <1>2, <1>3 DEF n
  <2> QED
    BY <1>5, <2>1, <2>2 DEF FileBehind
<1> QED
  BY <1>7, <1>8, <1>10, <1>11, <1>12 DEF SharedInv

LEMMA SharedInvNext ==
  ASSUME SharedInv, [SharedNext]_stateVars
  PROVE  SharedInv'
<1>1. ASSUME UNCHANGED stateVars
      PROVE  SharedInv'
  BY <1>1 DEF stateVars, onDisk, SharedInv, SharedTypeOK, NoneLost, OneWrites, AskedLast, Newest, Contents,
              FileGrows, FileBehind, SeenBehind
<1> QED
  BY <1>1, ChangesKeep, PersistsKeep, ReadersKeep, FileTurnsKeep, GoesDownKeeps DEF SharedNext

LEMMA SharedInvInit == SharedInit => SharedInv
<1> SUFFICES ASSUME SharedInit PROVE SharedInv
  OBVIOUS
<1> USE SharedConstants DEF SharedInit
<1>1. /\ contents = <<>> /\ contents \in Seq(SUBSET Updates) /\ Len(contents) = 0
      /\ {} \in SUBSET Updates /\ 0 \in 0 .. MaxUpdates /\ 0 \in 0 .. MaxDowns
  OBVIOUS
<1>2. wanted = [p \in StateFile |-> 0] /\ file = wanted /\ device = wanted /\ promised = wanted
  BY DEF File!Init
<1>3. {wanted, file, device, promised} \subseteq [StateFile -> 0 .. MaxUpdates]
  BY <1>1, <1>2
<1>4. SharedTypeOK
  BY <1>1, <1>3 DEF SharedTypeOK, AtRest, Nowhere
<1>5. NoneLost /\ OneWrites /\ SeenBehind /\ AskedLast
  BY <1>1 DEF NoneLost, OneWrites, SeenBehind, AskedLast, Newest, Contents, AtRest, Nowhere
<1>6. FileGrows /\ FileBehind
  BY <1>1, <1>2 DEF FileGrows, FileBehind
<1> QED
  BY <1>4, <1>5, <1>6 DEF SharedInv

(* No change is lost to another, the file is asked for the state as the    *)
(* writers leave it, later contents have every change that earlier ones    *)
(* have, and no subscriber sees the state go back (broadcast.rs, write and *)
(* attach; state.rs, persist).                                             *)
THEOREM StateKeptAlways == SharedSpec => StateKept
<1> DEFINE Forward == \A r \in Readers : reads'[r].at = "there" /\ reads[r].at = "there" => seen[r] \subseteq seen'[r]
<1>1. SharedInv => NoneLost /\ FileAsked /\ FileGrows
  <2> SUFFICES ASSUME SharedInv, NoneWrites
               PROVE  \A p \in StateFile : Contents(wanted[p]) = state
    BY DEF SharedInv, FileAsked
  <2>1. Newest = state
    BY DEF SharedInv, AskedLast, NoneWrites
  <2> QED
    BY <2>1 DEF SharedInv, FileBehind, Newest
<1>2. ASSUME SharedInv, SharedNext
      PROVE  Forward
  <2>1. CASE seen' = seen
    BY <2>1
  <2>2. ASSUME NEW w \in Writers, SendsState(w)
        PROVE  Forward
    <3>1. writes[w].next = state /\ \A r \in Readers : seen[r] \subseteq state
      BY <1>2, <2>2 DEF SendsState, SharedInv, OneWrites, SeenBehind
    <3> QED
      BY <2>2, <3>1 DEF SendsState
  <2>3. ASSUME NEW r \in Readers, IsFiled(r) \/ IsClosed(r)
        PROVE  Forward
    <3>1. /\ reads \in [Readers -> [at : {"away", "read", "there"}, value : SUBSET Updates]]
          /\ seen \in [Readers -> SUBSET Updates]
      BY <1>2 DEF SharedInv, SharedTypeOK
    <3> QED
      BY <2>3, <3>1 DEF IsFiled, IsClosed, Nowhere
  <2>4. CASE GoesDown
    BY <2>4 DEF GoesDown, Nowhere
  <2> QED
    BY <1>2, <2>1, <2>2, <2>3, <2>4 DEF SharedNext, Writes, Refuses, SetsState, Persists, ReadsState, FileTurns
<1>3. SharedInv /\ [SharedNext]_stateVars => [Forward]_stateVars
  BY <1>2
<1>4. SharedInv /\ [SharedNext]_stateVars => SharedInv'
  BY SharedInvNext
<1> QED
  BY <1>1, <1>3, <1>4, SharedInvInit, PTL DEF SharedSpec, StateKept, SeesForward

-----------------------------------------------------------------------------
(* Commands: how an import went is said once, to whoever waits or in a     *)
(* notice, and every reply is to the line it follows.                      *)

(* A connection has a reply to each of its requests, but for the one that  *)
(* is at hand.                                                             *)
Counted(c) ==
  /\ nth[c] + Len(lines[c]) <= written
  /\ place[c] \in {"away", "queued", "reading"} => Len(replies[c]) = nth[c]
  /\ place[c] \in {"asked", "late", "promised", "waiting", "telling"} => Len(replies[c]) + 1 = nth[c]
  /\ place[c] = "closed" => Len(replies[c]) <= nth[c]

(* Whose answer is awaited is the import in flight, whose answer has come  *)
(* is one answered, and what a thread is about to say is so.               *)
Awaited(c) ==
  /\ slot[c] = "waiting" => /\ place[c] \in {"late", "promised", "waiting"}
                            /\ importing = [by |-> c, nr |-> nth[c], answers |-> TRUE]
  /\ slot[c] = "answered" => /\ place[c] \in {"late", "promised", "waiting", "telling"}
                             /\ fate[Id(c, nth[c])] = "answered"
                             /\ place[c] = "telling" => said[c] = "outcome"
  /\ place[c] \in {"promised", "waiting"} => slot[c] # "none" /\ said[c] = "a_notice_will_say"
  /\ place[c] = "late" => said[c] = "no_answer"
  /\ place[c] = "telling" /\ said[c] = "outcome" => slot[c] = "answered"
  /\ place[c] = "telling" /\ said[c] = "a_notice_will_say" => fate[Id(c, nth[c])] \in {"reading", "noticed"}

Tallied == \A c \in Clients : Counted(c) /\ Awaited(c)

(* The driver thread knows of an import while the worker is at it.         *)
ImportKnown ==
  IF worker = "idle" THEN importing = NoImport
                     ELSE importing.by \in Clients /\ importing.nr \in 1 .. MaxLines

(* Nothing has come of a request that is on its way, or not made yet: its  *)
(* thread, if it is still at it, has not been answered.                    *)
Fresh(id) ==
  /\ id.nr <= nth[id.by] /\ fate[id] = "none"
  /\ ~Has(id, {"promised", "waiting", "telling"})
  /\ Has(id, {"late"}) => slot[id.by] = "none"

RequestsFresh ==
  /\ \A i, j \in DOMAIN requests : requests[i].id = requests[j].id => i = j
  /\ \A i \in DOMAIN requests : Fresh(requests[i].id)
  /\ \A id \in Asker : id.nr > nth[id.by] => fate[id] = "none"

(* What is told is told in a reply, and what is lost was to be one.        *)
FatesTold ==
  \A id \in Asker :
    /\ fate[id] = "told" => id.nr \in DOMAIN replies[id.by]
    /\ fate[id] = "lost" => id.by \in gone \cup cut \/ id.nr \in DOMAIN replies[id.by]

CommandsInv ==
  CommandsTypeOK /\ Tallied /\ ImportKnown /\ RequestsFresh /\ FatesTold /\ ImportsTold

LEMMA CommandConstants == MaxLines \in Nat /\ MaxLines > 0 /\ Nobody \notin Clients
BY CommandsAssumption

(* What the invariant says of a connection, for arithmetic.                *)
LEMMA ConnectionFacts ==
  ASSUME CommandsInv, NEW c \in Clients
  PROVE  /\ nth[c] \in Nat /\ Len(lines[c]) \in Nat /\ Len(replies[c]) \in Nat /\ written \in Nat
         /\ nth[c] <= MaxLines /\ written <= MaxLines
         /\ lines[c] \in Seq(Lines) /\ replies[c] \in Seq(Replies)
         /\ DOMAIN replies[c] = 1 .. Len(replies[c])
         /\ place[c] \in {"asked", "late", "promised", "waiting", "telling"} =>
              /\ nth[c] \in 1 .. MaxLines /\ Id(c, nth[c]) \in Asker
              /\ nth[c] \notin DOMAIN replies[c] /\ nth[c] = Len(replies[c]) + 1
<1>1. /\ nth[c] \in 0 .. MaxLines /\ written \in 0 .. MaxLines
      /\ lines[c] \in Seq(Lines) /\ replies[c] \in Seq(Replies)
  BY DEF CommandsInv, CommandsTypeOK
<1>2. /\ nth[c] \in Nat /\ Len(lines[c]) \in Nat /\ Len(replies[c]) \in Nat /\ written \in Nat
      /\ nth[c] <= MaxLines /\ written <= MaxLines /\ DOMAIN replies[c] = 1 .. Len(replies[c])
  BY <1>1, CommandConstants
<1>3. ASSUME place[c] \in {"asked", "late", "promised", "waiting", "telling"}
      PROVE  nth[c] \in 1 .. MaxLines /\ nth[c] \notin DOMAIN replies[c] /\ nth[c] = Len(replies[c]) + 1
  <2>1. Len(replies[c]) + 1 = nth[c]
    BY <1>3 DEF CommandsInv, Tallied, Counted
  <2> QED
    BY <1>2, <2>1, CommandConstants
<1> QED
  BY <1>1, <1>2, <1>3 DEF Asker, Id

LEMMA RequestFacts ==
  ASSUME CommandsInv
  PROVE  /\ requests \in Seq([id : Asker, what : Lines]) /\ Len(requests) \in Nat
         /\ DOMAIN requests = 1 .. Len(requests)
         /\ \A i \in DOMAIN requests :
              i \in Nat /\ requests[i].id \in Asker /\ requests[i].id.by \in Clients /\ requests[i].what \in Lines
<1>1. /\ requests \in Seq([id : Asker, what : Lines]) /\ Len(requests) \in Nat
      /\ DOMAIN requests = 1 .. Len(requests)
  BY DEF CommandsInv, CommandsTypeOK
<1>2. ASSUME NEW i \in DOMAIN requests
      PROVE  i \in Nat /\ requests[i] \in [id : Asker, what : Lines]
  <2>1. i \in 1 .. Len(requests) /\ i \in Nat
    BY <1>1
  <2>2. \A S : \A q \in Seq(S) : \A k \in 1 .. Len(q) : q[k] \in S
    BY ElementOfSeq
  <2> QED
    BY <1>1, <2>1, <2>2
<1> QED
  BY <1>1, <1>2 DEF Asker

Placed == {"away", "queued", "reading", "asked", "late", "promised", "waiting", "telling", "closed"}

(* A connection's own steps: what is the others' stays.                    *)
Own(c) ==
  /\ \E p \in Placed : place' = [place EXCEPT ![c] = p]
  /\ \E r \in Replies : said' = [said EXCEPT ![c] = r]
  /\ \E o \in {"none", "waiting", "answered"} : slot' = [slot EXCEPT ![c] = o]
  /\ \E l \in Seq(Lines) : lines' = [lines EXCEPT ![c] = l]
  /\ \E n \in 0 .. MaxLines : nth' = [nth EXCEPT ![c] = n]
  /\ \E q \in Seq(Replies) : replies' = [replies EXCEPT ![c] = q]
  /\ written' \in 0 .. MaxLines /\ written <= written'
  /\ listener' \in {listener, Nobody, c}
  /\ gone' \in {gone, gone \cup {c}} /\ cut' \in {cut, cut \cup {c}}
  /\ UNCHANGED <<importing, worker, stuck>>

LEMMA OwnKeepsTypes ==
  ASSUME CommandsInv, NEW c \in Clients, Own(c),
         requests' \in Seq([id : Asker, what : Lines]), fate' \in [Asker -> Fates]
  PROVE  CommandsTypeOK'
<1>1. CommandsTypeOK
  BY DEF CommandsInv
<1>p. PICK p \in Placed, o \in {"none", "waiting", "answered"} :
        place' = [place EXCEPT ![c] = p] /\ slot' = [slot EXCEPT ![c] = o]
  BY DEF Own
<1>a. place \in [Clients -> Placed] /\ slot \in [Clients -> {"none", "waiting", "answered"}]
  BY <1>1 DEF CommandsTypeOK, Placed
<1>2. place' \in [Clients -> Placed] /\ slot' \in [Clients -> {"none", "waiting", "answered"}]
  BY <1>p, <1>a
<1>3. said' \in [Clients -> Replies] /\ nth' \in [Clients -> 0 .. MaxLines]
  BY <1>1 DEF Own, CommandsTypeOK
<1>4. lines' \in [Clients -> Seq(Lines)] /\ replies' \in [Clients -> Seq(Replies)]
  BY <1>1 DEF Own, CommandsTypeOK
<1>5. /\ written' \in 0 .. MaxLines /\ listener' \in Clients \cup {Nobody}
      /\ gone' \subseteq Clients /\ cut' \subseteq Clients
      /\ importing' \in [by : Clients \cup {Nobody}, nr : Nat, answers : BOOLEAN]
      /\ worker' \in {"idle", "reading", "read"} /\ stuck' \subseteq {"driver", "disk"}
  BY <1>1 DEF Own, CommandsTypeOK
<1> QED
  BY <1>2, <1>3, <1>4, <1>5 DEF CommandsTypeOK, Placed

(* The others are served as they were, if nothing becomes of their         *)
(* requests.                                                               *)
LEMMA OthersServed ==
  ASSUME CommandsInv, NEW c \in Clients, Own(c),
         \A id \in Asker : id.by # c => fate'[id] = fate[id],
         Counted(c)', Awaited(c)'
  PROVE  Tallied'
<1> SUFFICES ASSUME NEW d \in Clients, d # c
             PROVE  Counted(d)' /\ Awaited(d)'
  BY DEF Tallied
<1>1. /\ UNCHANGED <<place[d], said[d], slot[d], lines[d], nth[d], replies[d], importing>>
      /\ written' \in Nat /\ written <= written'
  BY DEF Own, CommandsInv, CommandsTypeOK
<1>2. nth[d] + Len(lines[d]) <= written'
  <2>1. nth[d] + Len(lines[d]) <= written
    BY DEF CommandsInv, Tallied, Counted
  <2>2. \A k, m, n \in Nat : k <= m /\ m <= n => k <= n
    OBVIOUS
  <2>3. nth[d] + Len(lines[d]) \in Nat /\ written \in Nat
    BY ConnectionFacts
  <2> QED
    BY <1>1, <2>1, <2>2, <2>3
<1>3. Counted(d)'
  BY <1>1, <1>2 DEF CommandsInv, Tallied, Counted
<1>4. place[d] \in {"asked", "late", "promised", "waiting", "telling"} => fate'[Id(d, nth[d])] = fate[Id(d, nth[d])]
  BY ConnectionFacts DEF Id
<1>5. Awaited(d)'
  BY <1>1, <1>4 DEF CommandsInv, Tallied, Awaited, Id
<1> QED
  BY <1>3, <1>5

(* So are the requests of all, if nobody goes where only an answered one   *)
(* is.                                                                     *)
LEMMA StillFresh ==
  ASSUME CommandsInv, NEW c \in Clients, Own(c), UNCHANGED <<requests, nth>>,
         \A id \in Asker : fate[id] = "none" => fate'[id] = "none",
         place'[c] \in {"promised", "waiting", "telling"} => place[c] \in {"promised", "waiting", "telling"},
         place'[c] = "late" => slot'[c] = "none" \/ (place[c] = "late" /\ slot'[c] = slot[c])
  PROVE  RequestsFresh'
<1>1. ASSUME NEW i \in DOMAIN requests
      PROVE  Fresh(requests[i].id)'
  <2> DEFINE id == requests[i].id
  <2>1. id \in Asker /\ Fresh(id)
    BY RequestFacts DEF CommandsInv, RequestsFresh
  <2>2. id.by \in Clients
    BY <2>1 DEF Asker
  <2>3. CASE id.by = c
    BY <2>1, <2>3 DEF Fresh, Has
  <2>4. CASE id.by # c
    <3>1. UNCHANGED <<place[id.by], slot[id.by]>>
      BY <2>2, <2>4 DEF Own, CommandsInv, CommandsTypeOK
    <3> QED
      BY <2>1, <3>1 DEF Fresh, Has
  <2> QED
    BY <2>3, <2>4
<1> QED
  BY <1>1 DEF CommandsInv, RequestsFresh

(* A step that leaves the replies and what became of the imports.          *)
Untold == UNCHANGED <<replies, fate, importing>> /\ gone \subseteq gone' /\ cut \subseteq cut'

LEMMA UntoldKeeps ==
  ASSUME CommandsInv, Untold
  PROVE  FatesTold' /\ ImportsTold'
BY DEF Untold, CommandsInv, FatesTold, ImportsTold, OneImport, LostOnlyWith, RepliesTrue

(* What a step leaves of a connection is, trivially, its own.              *)
LEMMA OwnSame ==
  ASSUME CommandsInv, NEW c \in Clients
  PROVE  /\ \E p \in Placed : place = [place EXCEPT ![c] = p]
         /\ \E r \in Replies : said = [said EXCEPT ![c] = r]
         /\ \E o \in {"none", "waiting", "answered"} : slot = [slot EXCEPT ![c] = o]
         /\ \E l \in Seq(Lines) : lines = [lines EXCEPT ![c] = l]
         /\ \E n \in 0 .. MaxLines : nth = [nth EXCEPT ![c] = n]
         /\ \E q \in Seq(Replies) : replies = [replies EXCEPT ![c] = q]
<1>1. /\ place \in [Clients -> Placed] /\ said \in [Clients -> Replies]
      /\ slot \in [Clients -> {"none", "waiting", "answered"}]
  BY DEF CommandsInv, CommandsTypeOK, Placed
<1>2. /\ lines \in [Clients -> Seq(Lines)] /\ nth \in [Clients -> 0 .. MaxLines]
      /\ replies \in [Clients -> Seq(Replies)]
  BY DEF CommandsInv, CommandsTypeOK
<1>3. \A S : \A f \in [Clients -> S] : f[c] \in S /\ f = [f EXCEPT ![c] = f[c]]
  OBVIOUS
<1> QED
  BY <1>1, <1>2, <1>3

(* Of the steps of a connection, those that make or answer no request.     *)
Aside(c) ==
  \/ Client(c)
  \/ /\ TakesUp(c) \/ Idles(c) \/ TimesOut(c) \/ Spawns(c) \/ GetsAnswer(c) \/ GivesUp(c)
     /\ UNCHANGED <<written, importing, worker, stuck>>

LEMMA AsideIsOwn ==
  ASSUME CommandsInv, NEW c \in Clients, Aside(c)
  PROVE  /\ Own(c) /\ Untold
         /\ UNCHANGED <<requests, nth>>
<1>t. /\ written \in 0 .. MaxLines /\ MaxLines \in Nat
      /\ lines[c] \in Seq(Lines) /\ {"late", "reading", "queued", "closed", "waiting", "telling"} \subseteq Placed
      /\ {"no_answer", "outcome"} \subseteq Replies
  BY ConnectionFacts, CommandConstants DEF CommandsInv, CommandsTypeOK, Placed, Replies
<1>w. written <= written
  BY <1>t
<1>1. CASE Client(c)
  <2>1. CASE Connects(c)
    BY <1>1, <1>t, <1>w, <2>1, OwnSame DEF Client, Connects, Own, Untold, socketVars, importVars
  <2>2. CASE HangsUp(c)
    BY <1>1, <1>t, <1>w, <2>2, OwnSame DEF Client, HangsUp, Own, Untold, threadVars, importVars
  <2>3. ASSUME NEW what \in Lines, Sends(c, what)
        PROVE  Own(c) /\ Untold /\ UNCHANGED <<requests, nth>>
    <3>1. written' \in 0 .. MaxLines /\ written <= written'
      BY <1>t, <2>3 DEF Sends
    <3>2. Append(lines[c], what) \in Seq(Lines)
      BY <1>t, AppendProperties
    <3>3. lines' = [lines EXCEPT ![c] = Append(lines[c], what)]
      BY <2>3 DEF Sends
    <3> QED
      BY <1>1, <2>3, <3>1, <3>2, <3>3, OwnSame DEF Client, Sends, Own, Untold, threadVars, importVars
  <2> QED
    BY <1>1, <2>1, <2>2, <2>3 DEF Client
<1>2. CASE TakesUp(c) /\ UNCHANGED <<written, importing, worker, stuck>>
  BY <1>2, <1>t, <1>w, OwnSame DEF TakesUp, Own, Untold
<1>3. CASE Idles(c) /\ UNCHANGED <<written, importing, worker, stuck>>
  BY <1>3, <1>t, <1>w, OwnSame DEF Idles, Closes, Freed, Own, Untold
<1>4. CASE TimesOut(c) /\ UNCHANGED <<written, importing, worker, stuck>>
  BY <1>4, <1>t, <1>w, OwnSame DEF TimesOut, Own, Untold
<1>5. CASE Spawns(c) /\ UNCHANGED <<written, importing, worker, stuck>>
  BY <1>5, <1>t, <1>w, OwnSame DEF Spawns, Freed, Own, Untold
<1>6. CASE GetsAnswer(c) /\ UNCHANGED <<written, importing, worker, stuck>>
  BY <1>6, <1>t, <1>w, OwnSame DEF GetsAnswer, Own, Untold
<1>7. CASE GivesUp(c) /\ UNCHANGED <<written, importing, worker, stuck>>
  BY <1>7, <1>t, <1>w, OwnSame DEF GivesUp, Own, Untold
<1> QED
  BY <1>1, <1>2, <1>3, <1>4, <1>5, <1>6, <1>7 DEF Aside

LEMMA AsideKeeps ==
  ASSUME CommandsInv, NEW c \in Clients, Aside(c)
  PROVE  CommandsInv'
<1>1. Own(c) /\ Untold /\ UNCHANGED <<requests, nth>> /\ UNCHANGED <<replies, fate, importing, worker>>
  BY AsideIsOwn DEF Own, Untold
<1>t. /\ place \in [Clients -> Placed] /\ said \in [Clients -> Replies]
      /\ slot \in [Clients -> {"none", "waiting", "answered"}] /\ lines \in [Clients -> Seq(Lines)]
  BY DEF CommandsInv, CommandsTypeOK, Placed
<1>i. Counted(c) /\ Awaited(c)
  BY DEF CommandsInv, Tallied
<1>2. Counted(c)'
  <2>1. CASE Client(c)
    <3>1. nth[c] \in Nat /\ Len(lines[c]) \in Nat /\ written \in Nat
      BY ConnectionFacts
    <3>2. ASSUME NEW what \in Lines, Sends(c, what)
          PROVE  nth[c] + Len(lines'[c]) <= written'
      <4>1. lines'[c] = Append(lines[c], what) /\ written' = written + 1
        BY <1>t, <3>2 DEF Sends
      <4>2. lines[c] \in Seq(Lines)
        BY <1>t
      <4>3. Len(lines'[c]) = Len(lines[c]) + 1
        BY <4>1, <4>2, AppendProperties
      <4> QED
        BY <1>i, <3>1, <4>1, <4>3 DEF Counted
    <3>3. CASE Connects(c) \/ HangsUp(c)
      BY <1>1, <1>t, <1>i, <3>3 DEF Connects, HangsUp, socketVars, threadVars, Counted
    <3>4. ASSUME NEW what \in Lines, Sends(c, what)
          PROVE  Counted(c)'
      BY <1>1, <1>i, <3>2, <3>4 DEF Sends, threadVars, Counted
    <3> QED
      BY <2>1, <3>3, <3>4 DEF Client
  <2>2. CASE ~Client(c)
    <3>1. UNCHANGED <<lines, written>>
      BY <2>2 DEF Aside, TakesUp, Idles, TimesOut, Spawns, GetsAnswer, GivesUp
    <3>2. \/ place[c] = "queued" /\ place'[c] = "reading"
          \/ place[c] = "reading" /\ place'[c] = "closed"
          \/ place[c] \in {"asked", "promised", "waiting"} /\ place'[c] \in {"late", "waiting", "telling"}
      BY <1>t, <2>2 DEF Aside, TakesUp, Idles, Closes, TimesOut, Spawns, GetsAnswer, GivesUp
    <3>3. nth[c] \in Nat
      BY ConnectionFacts
    <3> QED
      BY <1>1, <1>i, <3>1, <3>2, <3>3 DEF Counted
  <2> QED
    BY <2>1, <2>2
<1>3. Awaited(c)'
  <2>1. place[c] = "asked" => slot[c] = "none"
    BY <1>t, <1>i DEF Awaited
  <2>2. slot[c] = "waiting" /\ place[c] = "waiting" => fate[Id(c, nth[c])] = "reading"
    <3>1. ASSUME slot[c] = "waiting", place[c] = "waiting"
          PROVE  fate[Id(c, nth[c])] = "reading"
      <4>1. importing = [by |-> c, nr |-> nth[c], answers |-> TRUE] /\ importing # NoImport
        BY <1>i, <3>1, CommandConstants DEF Awaited, NoImport
      <4>2. Id(c, nth[c]) \in Asker
        BY <3>1, ConnectionFacts
      <4> QED
        BY <4>1, <4>2 DEF CommandsInv, ImportsTold, OneImport, Id
    <3> QED
      BY <3>1
  <2>3. CASE Client(c)
    <3>1. UNCHANGED <<said, slot>> /\ (place' = place \/ (place[c] = "away" /\ place'[c] = "queued"))
      BY <1>t, <2>3 DEF Client, Connects, HangsUp, Sends, socketVars, threadVars
    <3> QED
      BY <1>1, <1>i, <3>1 DEF Awaited, Id
  <2>4. CASE TakesUp(c) \/ Idles(c) \/ Spawns(c)
    BY <1>1, <1>t, <1>i, <2>4 DEF TakesUp, Idles, Closes, Spawns, Awaited, Id
  <2>5. CASE TimesOut(c)
    BY <1>1, <1>t, <1>i, <2>1, <2>5 DEF TimesOut, Awaited, Id
  <2>6. CASE GetsAnswer(c)
    BY <1>1, <1>t, <1>i, <2>6 DEF GetsAnswer, Awaited, Id
  <2>7. CASE GivesUp(c)
    BY <1>1, <1>t, <1>i, <2>2, <2>7 DEF GivesUp, Awaited, Id
  <2> QED
    BY <2>3, <2>4, <2>5, <2>6, <2>7 DEF Aside
<1>4. RequestsFresh'
  <2>1. /\ place'[c] \in {"promised", "waiting", "telling"} => place[c] \in {"promised", "waiting", "telling"}
        /\ place'[c] = "late" => slot'[c] = "none" \/ (place[c] = "late" /\ slot'[c] = slot[c])
    <3>1. place[c] = "asked" => slot[c] = "none"
      BY <1>t, <1>i DEF Awaited
    <3> QED
      BY <1>t, <3>1 DEF Aside, Client, Connects, HangsUp, Sends, TakesUp, Idles, Closes, TimesOut, Spawns, GetsAnswer,
                        GivesUp, socketVars, threadVars
  <2> QED
    BY <1>1, <2>1, StillFresh
<1>5. Tallied'
  BY <1>1, <1>2, <1>3, OthersServed
<1>6. CommandsTypeOK'
  <2>1. requests' \in Seq([id : Asker, what : Lines]) /\ fate' \in [Asker -> Fates]
    BY <1>1 DEF CommandsInv, CommandsTypeOK
  <2> QED
    BY <1>1, <2>1, OwnKeepsTypes
<1>7. FatesTold' /\ ImportsTold' /\ ImportKnown'
  BY <1>1, UntoldKeeps DEF CommandsInv, ImportKnown
<1> QED
  BY <1>4, <1>5, <1>6, <1>7 DEF CommandsInv

(* A request is made: the newest there is, of which nothing is known.      *)
LEMMA AsksKeeps ==
  ASSUME CommandsInv, NEW c \in Clients, Asks(c), UNCHANGED <<written, importing, worker, stuck>>
  PROVE  CommandsInv'
<1> DEFINE n == nth[c] + 1
           new == [id |-> Id(c, n), what |-> Head(lines[c])]
<1>1. /\ place' = [place EXCEPT ![c] = "asked"] /\ place[c] = "reading" /\ lines[c] # <<>>
      /\ lines' = [lines EXCEPT ![c] = Tail(lines[c])] /\ nth' = [nth EXCEPT ![c] = n]
      /\ requests' = Append(requests, new)
      /\ UNCHANGED <<gone, listener, said, slot, replies, cut, fate>>
  BY DEF Asks
<1>t. /\ place \in [Clients -> Placed] /\ nth \in [Clients -> 0 .. MaxLines] /\ lines \in [Clients -> Seq(Lines)]
  BY DEF CommandsInv, CommandsTypeOK, Placed
<1>i. Counted(c) /\ Awaited(c) /\ Untold
  BY <1>1 DEF CommandsInv, Tallied, Untold
<1>n. /\ nth[c] \in Nat /\ Len(lines[c]) \in Nat /\ Len(replies[c]) \in Nat /\ written \in Nat
      /\ written <= MaxLines /\ MaxLines \in Nat /\ lines[c] \in Seq(Lines)
  BY ConnectionFacts, CommandConstants
<1>l. Head(lines[c]) \in Lines /\ Tail(lines[c]) \in Seq(Lines) /\ Len(Tail(lines[c])) = Len(lines[c]) - 1
      /\ Len(lines[c]) # 0
  BY <1>1, <1>n, HeadTailProperties
<1>2. n \in 1 .. MaxLines /\ n + Len(Tail(lines[c])) <= written
  <2>1. nth[c] + Len(lines[c]) <= written
    BY <1>i DEF Counted
  <2>2. Len(Tail(lines[c])) = Len(lines[c]) - 1 /\ Len(lines[c]) # 0
    BY <1>l
  <2>3. \A a, b, w, m \in Nat : a + b <= w /\ w <= m /\ b # 0 => a + 1 \in 1 .. m /\ (a + 1) + (b - 1) <= w
    OBVIOUS
  <2> QED
    BY <1>n, <2>1, <2>2, <2>3
<1>3. new \in [id : Asker, what : Lines] /\ Id(c, n) \in Asker
  BY <1>l, <1>2 DEF Asker, Id
<1>w. written \in 0 .. MaxLines /\ written <= written /\ "asked" \in Placed /\ n \in 0 .. MaxLines
  BY <1>n, <1>2 DEF Placed
<1>4. Own(c)
  BY <1>1, <1>l, <1>w, OwnSame DEF Own
<1> HIDE DEF n, new
<1>5. CommandsTypeOK'
  <2>1. requests' \in Seq([id : Asker, what : Lines]) /\ fate' \in [Asker -> Fates]
    BY <1>1, <1>3, AppendProperties DEF CommandsInv, CommandsTypeOK
  <2> QED
    BY <1>4, <2>1, OwnKeepsTypes
<1>6. Tallied'
  <2>1. Counted(c)'
    <3>1. nth'[c] = n /\ lines'[c] = Tail(lines[c]) /\ place'[c] = "asked" /\ n = nth[c] + 1
      BY <1>1, <1>t DEF n
    <3> QED
      BY <1>1, <1>i, <1>n, <1>2, <3>1 DEF Counted
  <2>2. Awaited(c)'
    BY <1>1, <1>t, <1>i DEF Awaited
  <2> QED
    BY <1>1, <1>4, <2>1, <2>2, OthersServed
<1>7. RequestsFresh'
  <2> DEFINE m == Len(requests) + 1
  <2>1. /\ DOMAIN requests' = DOMAIN requests \cup {m} /\ requests'[m] = new
        /\ \A i \in DOMAIN requests : requests'[i] = requests[i] /\ i # m
    <3>1. requests \in Seq([id : Asker, what : Lines]) /\ Len(requests) \in Nat /\ DOMAIN requests = 1 .. Len(requests)
      BY RequestFacts
    <3> QED
      BY <1>1, <1>3, <3>1
  <2> HIDE DEF m
  <2>2. /\ new.id = Id(c, n) /\ n = nth[c] + 1 /\ nth'[c] = n /\ nth[c] < n
        /\ \A d \in Clients : nth[d] <= nth'[d] /\ (d # c => nth'[d] = nth[d])
    <3>1. \A d \in Clients : nth[d] \in Nat
      BY <1>t
    <3> QED
      BY <1>1, <1>t, <1>n, <3>1 DEF new, n
  <2>3. ASSUME NEW id \in Asker, id = new.id
        PROVE  Fresh(id)'
    <3>1. id.by = c /\ id.nr = n /\ id.nr > nth[id.by]
      BY <1>n, <2>2, <2>3 DEF Id
    <3>2. fate[id] = "none"
      BY <2>3, <3>1 DEF CommandsInv, RequestsFresh
    <3>3. place'[c] = "asked" /\ n <= n
      BY <1>1, <1>t, <1>n, <2>2
    <3> QED
      BY <1>1, <2>2, <3>1, <3>2, <3>3 DEF Fresh, Has
  <2>4. ASSUME NEW i \in DOMAIN requests, NEW id \in Asker, id = requests[i].id
        PROVE  Fresh(id)' /\ id # new.id
    <3>1. id \in Asker /\ id.by \in Clients /\ Fresh(id) /\ id.nr \in Nat
      BY <2>4, RequestFacts, <1>n DEF CommandsInv, RequestsFresh, Asker
    <3>2. id.nr <= nth'[id.by] /\ fate'[id] = "none"
      <4>1. nth[id.by] \in Nat /\ nth'[id.by] \in Nat
        BY <1>1, <1>t, <1>w, <2>2, <3>1
      <4>2. nth[id.by] <= nth'[id.by] /\ id.nr <= nth[id.by]
        BY <2>2, <3>1 DEF Fresh
      <4>3. \A k, l, j \in Nat : k <= l /\ l <= j => k <= j
        OBVIOUS
      <4> QED
        BY <1>1, <3>1, <4>1, <4>2, <4>3 DEF Fresh
    <3>3. CASE id.by = c
      <4>1. id.nr <= nth[c] /\ id.nr # n
        BY <1>n, <2>2, <3>1, <3>3 DEF Fresh
      <4>2. ~Has(id, {"promised", "waiting", "telling"})' /\ ~Has(id, {"late"})'
        BY <1>1, <1>t, <3>3 DEF Has
      <4> QED
        BY <2>2, <3>2, <4>1, <4>2 DEF Fresh, Id
    <3>4. CASE id.by # c
      <4>1. UNCHANGED <<place[id.by], nth[id.by], slot>>
        BY <1>1, <1>t, <3>1, <3>4
      <4> QED
        BY <2>2, <3>1, <3>2, <3>4, <4>1 DEF Fresh, Has, Id
    <3> QED
      BY <3>3, <3>4
  <2>5. ASSUME NEW id \in Asker, id.nr > nth'[id.by]
        PROVE  fate'[id] = "none"
    <3>1. id.by \in Clients /\ id.nr \in Nat
      BY <1>n, <2>5 DEF Asker
    <3>2. id.nr > nth[id.by]
      <4>1. nth[id.by] \in Nat /\ nth'[id.by] \in Nat /\ nth[id.by] <= nth'[id.by]
        BY <1>t, <1>1, <1>w, <2>2, <3>1
      <4>2. \A k, l, j \in Nat : k <= l /\ j > l => j > k
        OBVIOUS
      <4> QED
        BY <2>5, <3>1, <4>1, <4>2
    <3> QED
      BY <1>1, <2>5, <3>2 DEF CommandsInv, RequestsFresh
  <2>a. /\ new.id \in Asker
        /\ \A i \in DOMAIN requests : requests[i].id \in Asker /\ requests[i].id # new.id
    BY <1>3, <2>2, <2>4, RequestFacts
  <2>6. \A i \in DOMAIN requests' : \A id \in Asker : id = requests'[i].id => Fresh(id)'
    BY <2>1, <2>3, <2>4
  <2>7. \A i \in DOMAIN requests' : requests'[i].id \in Asker
    BY <2>1, <2>a
  <2>8. ASSUME NEW i \in DOMAIN requests', NEW j \in DOMAIN requests', requests'[i].id = requests'[j].id
        PROVE  i = j
    BY <2>1, <2>a, <2>8 DEF CommandsInv, RequestsFresh
  <2> QED
    BY <2>5, <2>6, <2>7, <2>8 DEF RequestsFresh, Fresh, Has
<1>8. FatesTold' /\ ImportsTold' /\ ImportKnown'
  BY <1>i, UntoldKeeps DEF CommandsInv, ImportKnown
<1> QED
  BY <1>5, <1>6, <1>7, <1>8 DEF CommandsInv

(* A reply follows a request.                                              *)
LEMMA RepliesNamed ==
  ASSUME CommandsInv, NEW c \in Clients, NEW k \in DOMAIN replies[c]
  PROVE  Id(c, k) \in Asker
<1>1. k \in 1 .. Len(replies[c]) /\ Len(replies[c]) \in Nat /\ nth[c] \in Nat /\ nth[c] <= MaxLines
  BY ConnectionFacts
<1>2. place[c] \in Placed /\ Counted(c)
  BY DEF CommandsInv, CommandsTypeOK, Tallied, Placed
<1>3. Len(replies[c]) <= nth[c]
  BY <1>1, <1>2 DEF Counted, Placed
<1>4. k \in 1 .. MaxLines
  BY <1>1, <1>3, CommandConstants
<1> QED
  BY <1>4 DEF Id, Asker

(* The answer of the request at hand is told, or lost with its connection. *)
LEMMA FatesFollow ==
  ASSUME CommandsInv, NEW c \in Clients, Own(c), nth' = nth,
         place[c] \in {"asked", "late", "promised", "waiting", "telling"},
         NEW id \in Asker, id = Id(c, nth[c]),
         fate' = fate \/ (slot[c] = "answered" /\ \E f \in {"told", "lost"} : fate' = [fate EXCEPT ![id] = f]),
         replies' = replies \/ replies' = [replies EXCEPT ![c] = Append(replies[c], said[c])],
         replies' # replies => (said[c] = "outcome" <=> fate'[id] = "told"),
         replies' # replies /\ said[c] = "a_notice_will_say" => fate'[id] \in {"reading", "noticed"},
         fate' # fate /\ fate'[id] = "told" => replies' # replies,
         fate' # fate /\ fate'[id] = "lost" => c \in gone \cup cut' \/ (replies' # replies /\ said[c] = "no_answer")
  PROVE  FatesTold' /\ ImportsTold' /\ \A i \in Asker : i.by # c => fate'[i] = fate[i]
<1> DEFINE n == nth[c]
<1>n. /\ id = Id(c, n) /\ id.by = c /\ id.nr = n /\ n = Len(replies[c]) + 1
      /\ n \notin DOMAIN replies[c] /\ replies[c] \in Seq(Replies)
  BY ConnectionFacts DEF Id
<1> HIDE DEF n
<1>t. /\ fate \in [Asker -> Fates] /\ replies \in [Clients -> Seq(Replies)]
      /\ said[c] \in Replies /\ gone \subseteq gone' /\ cut \subseteq cut' /\ importing' = importing
  BY DEF CommandsInv, CommandsTypeOK, Own
<1>e. \A i, j \in Asker : i.by = j.by /\ i.nr = j.nr => i = j
  BY DEF Asker
<1>a. slot[c] = "answered" => fate[id] = "answered"
  <2>1. Awaited(c)
    BY DEF CommandsInv, Tallied
  <2> QED
    BY <1>n, <2>1 DEF Awaited
<1>1. \A i \in Asker : i # id => fate'[i] = fate[i]
  BY <1>t
<1>2. fate' # fate => fate[id] = "answered" /\ fate'[id] \in {"told", "lost"}
  BY <1>t, <1>a
<1>3. /\ \A d \in Clients : d # c => replies'[d] = replies[d]
      /\ replies' # replies => DOMAIN replies'[c] = DOMAIN replies[c] \cup {n} /\ replies'[c][n] = said[c]
      /\ \A d \in Clients : DOMAIN replies[d] \subseteq DOMAIN replies'[d]
      /\ \A d \in Clients : \A k \in DOMAIN replies[d] : replies'[d][k] = replies[d][k]
  <2>1. CASE replies' = replies
    BY <2>1
  <2>2. CASE replies' = [replies EXCEPT ![c] = Append(replies[c], said[c])]
    <3>1. replies'[c] = Append(replies[c], said[c]) /\ \A d \in Clients : d # c => replies'[d] = replies[d]
      BY <1>t, <2>2
    <3>2. /\ DOMAIN Append(replies[c], said[c]) = DOMAIN replies[c] \cup {n}
          /\ Append(replies[c], said[c])[n] = said[c]
          /\ \A k \in DOMAIN replies[c] : Append(replies[c], said[c])[k] = replies[c][k]
      BY <1>n, <1>t
    <3> QED
      BY <3>1, <3>2
  <2> QED
    BY <2>1, <2>2
<1>4. OneImport'
  BY <1>1, <1>2, <1>t DEF CommandsInv, ImportsTold, OneImport
<1>5. ASSUME NEW i \in Asker
      PROVE  /\ LostOnlyWith(i)'
             /\ fate'[i] = "told" => i.nr \in DOMAIN replies'[i.by]
             /\ fate'[i] = "lost" => i.by \in gone' \cup cut' \/ i.nr \in DOMAIN replies'[i.by]
  <2>1. i.by \in Clients
    BY DEF Asker
  <2>2. CASE fate'[i] = fate[i]
    <3>1. LostOnlyWith(i) /\ (fate[i] = "lost" => i.by \in gone \cup cut \/ i.nr \in DOMAIN replies[i.by])
      BY DEF CommandsInv, ImportsTold, FatesTold
    <3>2. fate[i] = "told" => i.nr \in DOMAIN replies[i.by]
      BY DEF CommandsInv, FatesTold
    <3> QED
      BY <1>3, <1>t, <2>1, <2>2, <3>1, <3>2 DEF LostOnlyWith
  <2>3. CASE i = id /\ fate' # fate
    BY <1>2, <1>3, <1>n, <1>t, <2>3 DEF LostOnlyWith
  <2> QED
    BY <1>1, <2>2, <2>3
<1>6. ASSUME NEW d \in Clients, NEW k \in DOMAIN replies'[d]
      PROVE  /\ replies'[d][k] = "a_notice_will_say" => fate'[Id(d, k)] \in {"reading", "noticed"}
             /\ replies'[d][k] = "outcome" <=> fate'[Id(d, k)] = "told"
  <2>1. CASE k \in DOMAIN replies[d]
    <3>1. /\ replies[d][k] = "a_notice_will_say" => fate[Id(d, k)] \in {"reading", "noticed"}
          /\ replies[d][k] = "outcome" <=> fate[Id(d, k)] = "told"
      BY <2>1 DEF CommandsInv, ImportsTold, RepliesTrue
    <3>2. Id(d, k) # id /\ Id(d, k) \in Asker
      <4>1. d = c => k # n
        BY <1>n, <2>1
      <4> QED
        BY <1>n, <2>1, <4>1, RepliesNamed DEF Id
    <3>3. fate'[Id(d, k)] = fate[Id(d, k)] /\ replies'[d][k] = replies[d][k]
      BY <1>1, <1>3, <2>1, <3>2
    <3> QED
      BY <3>1, <3>3
  <2>2. CASE k \notin DOMAIN replies[d]
    <3>1. d = c /\ k = n /\ replies' # replies /\ replies'[c][n] = said[c]
      BY <1>3, <1>6, <2>2
    <3>2. /\ said[c] = "a_notice_will_say" => fate'[id] \in {"reading", "noticed"}
          /\ said[c] = "outcome" <=> fate'[id] = "told"
      BY <3>1
    <3> QED
      BY <1>n, <3>1, <3>2
  <2> QED
    BY <2>1, <2>2
<1>7. ImportsTold'
  BY <1>4, <1>5, <1>6 DEF ImportsTold, RepliesTrue, Id
<1>8. FatesTold'
  BY <1>5 DEF FatesTold
<1>9. \A i \in Asker : i.by # c => fate'[i] = fate[i]
  BY <1>1, <1>n
<1> QED
  BY <1>7, <1>8, <1>9

LEMMA TellsKeeps ==
  ASSUME CommandsInv, NEW c \in Clients, Tells(c) \/ CannotSpawn(c), UNCHANGED <<written, importing, worker, stuck>>
  PROVE  CommandsInv'
<1> DEFINE id == Id(c, nth[c])
<1>t. /\ place \in [Clients -> Placed] /\ said \in [Clients -> Replies]
      /\ slot \in [Clients -> {"none", "waiting", "answered"}]
      /\ fate \in [Asker -> Fates] /\ replies \in [Clients -> Seq(Replies)]
  BY DEF CommandsInv, CommandsTypeOK, Placed
<1>i. Counted(c) /\ Awaited(c)
  BY DEF CommandsInv, Tallied
<1>p. place[c] \in {"late", "promised", "telling"} /\ UNCHANGED <<lines, nth, requests, written>>
  BY DEF Tells, CannotSpawn
<1>n. /\ nth[c] \in Nat /\ id \in Asker /\ nth[c] = Len(replies[c]) + 1 /\ Len(replies[c]) \in Nat
      /\ Len(lines[c]) \in Nat /\ written \in 0 .. MaxLines /\ written <= written /\ written \in Nat
      /\ replies[c] \in Seq(Replies)
  BY <1>p, ConnectionFacts DEF CommandsInv, CommandsTypeOK
<1>1. \/ UNCHANGED replies /\ place' = [place EXCEPT ![c] = "closed"]
      \/ /\ replies' = [replies EXCEPT ![c] = Append(replies[c], said[c])]
         /\ place' = [place EXCEPT ![c] = "reading"]
         /\ Tells(c) /\ c \notin gone
  BY DEF Tells, CannotSpawn, Closes
<1>2. /\ slot' = [slot EXCEPT ![c] = "none"] /\ said' \in {said, [said EXCEPT ![c] = "ok"]}
      /\ listener' \in {listener, Nobody} /\ gone' = gone /\ cut' \in {cut, cut \cup {c}}
  BY DEF Tells, CannotSpawn, Closes, Freed
<1>3. Append(replies[c], said[c]) \in Seq(Replies) /\ Len(Append(replies[c], said[c])) = nth[c]
  BY <1>n, <1>t, AppendProperties
<1>4. Own(c)
  <2>1. \E p \in Placed : place' = [place EXCEPT ![c] = p]
    BY <1>1 DEF Placed
  <2>2. \E q \in Seq(Replies) : replies' = [replies EXCEPT ![c] = q]
    <3>1. CASE replies' = replies
      <4>1. \E q \in Seq(Replies) : replies = [replies EXCEPT ![c] = q]
        BY OwnSame
      <4> QED
        BY <3>1, <4>1
    <3>2. CASE replies' = [replies EXCEPT ![c] = Append(replies[c], said[c])]
      BY <1>3, <3>2
    <3> QED
      BY <1>1, <3>1, <3>2
  <2>3. \E r \in Replies : said' = [said EXCEPT ![c] = r]
    BY <1>2, OwnSame DEF Replies
  <2>4. \E o \in {"none", "waiting", "answered"} : slot' = [slot EXCEPT ![c] = o]
    BY <1>2
  <2>5. /\ \E l \in Seq(Lines) : lines' = [lines EXCEPT ![c] = l]
        /\ \E n \in 0 .. MaxLines : nth' = [nth EXCEPT ![c] = n]
    BY <1>p, OwnSame
  <2>6. written' \in 0 .. MaxLines /\ written <= written'
    BY <1>p, <1>n
  <2> QED
    BY <1>2, <2>1, <2>2, <2>3, <2>4, <2>5, <2>6 DEF Own
<1> HIDE DEF id
<1>5. /\ fate' = fate \/ (slot[c] = "answered" /\ \E f \in {"told", "lost"} : fate' = [fate EXCEPT ![id] = f])
      /\ fate' \in [Asker -> Fates]
  <2>1. \/ fate' = fate
        \/ slot[c] = "answered" /\ \E f \in {"told", "lost"} : fate' = [fate EXCEPT ![id] = f]
    BY <1>i DEF Tells, CannotSpawn, Wasted, id, Awaited
  <2> QED
    BY <1>t, <2>1 DEF Fates
<1>6. FatesTold' /\ ImportsTold' /\ \A i \in Asker : i.by # c => fate'[i] = fate[i]
  <2>0. said[c] = "outcome" \/ fate[id] # "told"
    <3>1. nth[c] \notin DOMAIN replies[c] /\ id.nr = nth[c] /\ id.by = c
      BY <1>p, ConnectionFacts DEF id, Id
    <3> QED
      BY <1>n, <3>1 DEF CommandsInv, FatesTold
  <2>1. CASE replies' = replies
    <3>1. fate' # fate => c \in gone \cup cut' /\ fate'[id] = "lost"
      <4>1. CASE Tells(c)
        <5>1. c \in gone
          <6>1. replies[c] # Append(replies[c], said[c])
            BY <1>n, <1>3
          <6> QED
            BY <1>t, <2>1, <4>1, <6>1 DEF Tells
        <5>2. fate' = IF slot[c] = "answered" THEN [fate EXCEPT ![id] = "lost"] ELSE fate
          BY <4>1, <5>1 DEF Tells, Wasted, id
        <5> QED
          BY <1>t, <1>n, <5>1, <5>2
      <4>2. CASE CannotSpawn(c)
        BY <1>t, <1>n, <4>2 DEF CannotSpawn, Wasted, id
      <4> QED
        BY <4>1, <4>2
    <3> QED
      BY <1>4, <1>5, <1>n, <1>p, <2>1, <3>1, FatesFollow DEF id
  <2>2. CASE /\ replies' = [replies EXCEPT ![c] = Append(replies[c], said[c])]
             /\ Tells(c) /\ c \notin gone
    <3>1. CASE place[c] = "telling" /\ said[c] = "outcome"
      <4>1. fate' = [fate EXCEPT ![id] = "told"]
        BY <2>2, <3>1 DEF Tells, id
      <4>2. fate'[id] = "told" /\ replies' # replies
        <5>1. replies[c] # Append(replies[c], said[c])
          BY <1>n, <1>3
        <5> QED
          BY <1>t, <1>n, <2>2, <4>1, <5>1
      <4> QED
        BY <1>4, <1>5, <1>n, <1>p, <2>2, <3>1, <4>1, <4>2, FatesFollow DEF id
    <3>2. CASE ~(place[c] = "telling" /\ said[c] = "outcome")
      <4>1. fate' = IF slot[c] = "answered" THEN [fate EXCEPT ![id] = "lost"] ELSE fate
        BY <2>2, <3>2 DEF Tells, Wasted, id
      <4>2. said[c] # "outcome" /\ (fate' # fate => place[c] = "late" /\ said[c] = "no_answer" /\ fate'[id] = "lost")
        BY <1>t, <1>n, <1>p, <1>i, <2>2, <3>2, <4>1 DEF Awaited, Tells
      <4>3. fate'[id] # "told" /\ (said[c] = "a_notice_will_say" => fate'[id] \in {"reading", "noticed"})
        <5>1. said[c] = "a_notice_will_say" => place[c] = "telling" /\ fate[id] \in {"reading", "noticed"}
          BY <1>i, <2>2 DEF Awaited, Tells, id
        <5> QED
          BY <1>t, <1>n, <2>0, <4>1, <4>2, <5>1
      <4>4. replies' # replies
        <5>1. replies[c] # Append(replies[c], said[c])
          BY <1>n, <1>3
        <5> QED
          BY <1>t, <2>2, <5>1
      <4>5. /\ replies' # replies => (said[c] = "outcome" <=> fate'[id] = "told")
            /\ ~(fate' # fate /\ fate'[id] = "told")
            /\ fate' # fate /\ fate'[id] = "lost" => replies' # replies /\ said[c] = "no_answer"
        BY <4>2, <4>3, <4>4
      <4> QED
        BY <1>4, <1>5, <1>n, <1>p, <2>2, <4>3, <4>5, FatesFollow DEF id
    <3> QED
      BY <3>1, <3>2
  <2> QED
    BY <1>1, <2>1, <2>2
<1>7. Counted(c)' /\ Awaited(c)'
  <2>1. slot'[c] = "none" /\ place'[c] \in {"reading", "closed"}
    BY <1>1, <1>2, <1>t
  <2>2. Len(replies'[c]) <= nth[c] /\ (place'[c] = "reading" => Len(replies'[c]) = nth[c])
    BY <1>1, <1>3, <1>n, <1>t
  <2> QED
    BY <1>p, <1>i, <2>1, <2>2 DEF Counted, Awaited
<1>8. Tallied'
  BY <1>4, <1>6, <1>7, OthersServed
<1>9. RequestsFresh'
  <2>1. \A i \in Asker : fate[i] = "none" => fate'[i] = "none"
    <3>1. slot[c] = "answered" => fate[id] = "answered"
      BY <1>i DEF Awaited, id
    <3> QED
      BY <1>5, <1>t, <1>n, <3>1
  <2>2. place'[c] \in {"reading", "closed"}
    BY <1>1, <1>t
  <2> QED
    BY <1>4, <1>p, <2>1, <2>2, StillFresh
<1>10. CommandsTypeOK'
  <2>1. requests' \in Seq([id : Asker, what : Lines])
    BY <1>p DEF CommandsInv, CommandsTypeOK
  <2> QED
    BY <1>4, <1>5, <2>1, OwnKeepsTypes
<1> QED
  BY <1>6, <1>8, <1>9, <1>10 DEF CommandsInv, ImportKnown

(* Has, of a request that is next: its thread waits for the reply, or has  *)
(* stopped waiting for it.                                                 *)
LEMMA HeadFacts ==
  ASSUME CommandsInv, requests # <<>>
  PROVE  /\ Head(requests).id \in Asker /\ Head(requests).id.by \in Clients /\ Fresh(Head(requests).id)
         /\ Tail(requests) \in Seq([id : Asker, what : Lines])
         /\ \A i \in DOMAIN Tail(requests) :
              /\ i + 1 \in DOMAIN requests /\ Tail(requests)[i] = requests[i + 1] /\ i \in Nat
              /\ Tail(requests)[i].id # Head(requests).id /\ Tail(requests)[i].id \in Asker
<1>1. /\ requests \in Seq([id : Asker, what : Lines]) /\ Len(requests) \in Nat
      /\ DOMAIN requests = 1 .. Len(requests)
      /\ \A i \in DOMAIN requests : requests[i].id \in Asker /\ requests[i].id.by \in Clients
  BY RequestFacts
<1>2. /\ Head(requests) = requests[1] /\ Tail(requests) \in Seq([id : Asker, what : Lines])
      /\ Len(Tail(requests)) = Len(requests) - 1 /\ Len(requests) # 0
      /\ \A i \in 1 .. Len(Tail(requests)) : Tail(requests)[i] = requests[i + 1]
  BY <1>1, HeadTailProperties, SMT
<1>3. 1 \in DOMAIN requests /\ DOMAIN Tail(requests) = 1 .. Len(Tail(requests))
  BY <1>1, <1>2
<1>4. ASSUME NEW i \in DOMAIN Tail(requests)
      PROVE  i + 1 \in DOMAIN requests /\ Tail(requests)[i] = requests[i + 1] /\ i \in Nat /\ i + 1 # 1
  BY <1>1, <1>2, <1>3
<1>5. \A i \in DOMAIN Tail(requests) : Tail(requests)[i].id # Head(requests).id /\ Tail(requests)[i].id \in Asker
  BY <1>1, <1>2, <1>3, <1>4 DEF CommandsInv, RequestsFresh
<1>6. Head(requests).id \in Asker /\ Head(requests).id.by \in Clients /\ Fresh(Head(requests).id)
  BY <1>1, <1>2, <1>3 DEF CommandsInv, RequestsFresh
<1> QED
  BY <1>2, <1>4, <1>5, <1>6

(* The driver thread tells a thread: only the one whose request it is,     *)
(* which waited for a reply or has stopped waiting.                        *)
Reaches(id) ==
  /\ UNCHANGED <<lines, nth, replies, written>>
  /\ \A c \in Clients :
       \/ UNCHANGED <<place[c], said[c], slot[c]>>
       \/ /\ c = id.by /\ nth[c] = id.nr /\ place[c] \in {"asked", "late"} /\ slot[c] = "none"
          /\ \/ place[c] = "asked" /\ place'[c] \in {"telling", "promised"}
             \/ place[c] = "late" /\ place'[c] = "late" /\ said'[c] = said[c]
  /\ place' \in [Clients -> Placed] /\ said' \in [Clients -> Replies]
  /\ slot' \in [Clients -> {"none", "waiting", "answered"}]

LEMMA RunsShape ==
  ASSUME CommandsInv, NEW id \in Asker, id.by \in Clients, Fresh(id), UNCHANGED socketVars,
         (\E r \in {"refused", "ok"} : Now(id, r)) \/ Later(id)
  PROVE  /\ Reaches(id)
         /\ \A c \in Clients : slot'[c] # slot[c] \/ place'[c] # place[c] \/ said'[c] # said[c] =>
              \/ place[c] = "asked" /\ place'[c] = "telling" /\ said'[c] \in {"refused", "ok"} /\ slot'[c] = slot[c]
              \/ /\ Later(id) /\ slot'[c] = "waiting"
                 /\ place'[c] = "promised" => said'[c] = "a_notice_will_say"
                 /\ place'[c] \in {"promised", "late"}
<1> DEFINE c == id.by
<1>t. /\ place \in [Clients -> Placed] /\ said \in [Clients -> Replies]
      /\ slot \in [Clients -> {"none", "waiting", "answered"}]
  BY DEF CommandsInv, CommandsTypeOK, Placed
<1>s. place[c] = "asked" => slot[c] = "none"
  BY <1>t DEF CommandsInv, Tallied, Awaited
<1>u. UNCHANGED <<lines, nth, replies, written>>
  BY DEF socketVars
<1>1. ASSUME NEW r \in {"refused", "ok"}, Now(id, r)
      PROVE  /\ slot' = slot
             /\ \/ UNCHANGED <<place, said>>
                \/ /\ place[c] = "asked" /\ nth[c] = id.nr
                   /\ place' = [place EXCEPT ![c] = "telling"] /\ said' = [said EXCEPT ![c] = r]
  BY <1>1 DEF Now, Has
<1>2. ASSUME Later(id)
      PROVE  \/ UNCHANGED <<slot, place, said>>
             \/ /\ place[c] = "asked" /\ nth[c] = id.nr /\ slot' = [slot EXCEPT ![c] = "waiting"]
                /\ place' = [place EXCEPT ![c] = "promised"] /\ said' = [said EXCEPT ![c] = "a_notice_will_say"]
             \/ /\ place[c] = "late" /\ nth[c] = id.nr /\ slot' = [slot EXCEPT ![c] = "waiting"]
                /\ UNCHANGED <<place, said>> /\ slot[c] = "none"
  BY <1>2 DEF Later, Has, Fresh
<1>w. {"telling", "promised"} \subseteq Placed /\ {"refused", "ok", "a_notice_will_say"} \subseteq Replies
  BY DEF Placed, Replies
<1> HIDE DEF c
<1>3. c = id.by /\ c \in Clients
  BY DEF c
<1>4. ASSUME NEW r \in {"refused", "ok"}, Now(id, r)
      PROVE  /\ Reaches(id)
             /\ \A d \in Clients : slot'[d] # slot[d] \/ place'[d] # place[d] \/ said'[d] # said[d] =>
                  place[d] = "asked" /\ place'[d] = "telling" /\ said'[d] \in {"refused", "ok"} /\ slot'[d] = slot[d]
  <2>1. CASE UNCHANGED <<place, said>>
    BY <1>1, <1>4, <1>t, <1>u, <2>1 DEF Reaches
  <2>2. CASE /\ place[c] = "asked" /\ nth[c] = id.nr
             /\ place' = [place EXCEPT ![c] = "telling"] /\ said' = [said EXCEPT ![c] = r]
    BY <1>1, <1>3, <1>4, <1>s, <1>t, <1>u, <1>w, <2>2 DEF Reaches
  <2> QED
    BY <1>1, <1>4, <2>1, <2>2
<1>5. ASSUME Later(id)
      PROVE  /\ Reaches(id)
             /\ \A d \in Clients : slot'[d] # slot[d] \/ place'[d] # place[d] \/ said'[d] # said[d] =>
                  /\ slot'[d] = "waiting" /\ place'[d] \in {"promised", "late"}
                  /\ place'[d] = "promised" => said'[d] = "a_notice_will_say"
  <2>1. CASE UNCHANGED <<slot, place, said>>
    BY <1>t, <1>u, <2>1 DEF Reaches
  <2>2. CASE /\ place[c] = "asked" /\ nth[c] = id.nr /\ slot' = [slot EXCEPT ![c] = "waiting"]
             /\ place' = [place EXCEPT ![c] = "promised"] /\ said' = [said EXCEPT ![c] = "a_notice_will_say"]
    BY <1>3, <1>s, <1>t, <1>u, <1>w, <2>2 DEF Reaches
  <2>3. CASE /\ place[c] = "late" /\ nth[c] = id.nr /\ slot' = [slot EXCEPT ![c] = "waiting"]
             /\ UNCHANGED <<place, said>> /\ slot[c] = "none"
    BY <1>3, <1>t, <1>u, <2>3 DEF Reaches
  <2> QED
    BY <1>2, <1>5, <2>1, <2>2, <2>3
<1> QED
  BY <1>4, <1>5

LEMMA RunsLineKeeps ==
  ASSUME CommandsInv, RunsLine, UNCHANGED <<socketVars, stuck>>
  PROVE  CommandsInv'
<1> DEFINE id == Head(requests).id
           defers == Head(requests).what = "import"
<1>h. /\ id \in Asker /\ id.by \in Clients /\ Fresh(id) /\ requests' = Tail(requests) /\ requests # <<>>
  BY HeadFacts DEF RunsLine
<1>u. UNCHANGED <<lines, gone, listener, nth, written, replies, cut, stuck>>
  BY DEF socketVars
<1>1. \/ /\ importing # NoImport /\ Now(id, "refused") /\ UNCHANGED <<importing, worker, fate>>
      \/ /\ importing = NoImport /\ importing' = [by |-> id.by, nr |-> id.nr, answers |-> defers]
         /\ worker' = "reading" /\ fate' = [fate EXCEPT ![id] = "reading"]
         /\ IF defers THEN Later(id) ELSE Now(id, "ok")
  BY DEF RunsLine, importVars
<1> HIDE DEF id, defers
<1>t. /\ fate \in [Asker -> Fates] /\ slot \in [Clients -> {"none", "waiting", "answered"}]
      /\ importing \in [by : Clients \cup {Nobody}, nr : Nat, answers : BOOLEAN]
  BY DEF CommandsInv, CommandsTypeOK
<1>n. id.nr \in 1 .. MaxLines /\ id.nr \in Nat /\ (\A i, j \in Asker : i.by = j.by /\ i.nr = j.nr => i = j)
  BY <1>h, CommandConstants DEF Asker
<1>s. /\ Reaches(id)
      /\ \A c \in Clients : slot'[c] # slot[c] \/ place'[c] # place[c] \/ said'[c] # said[c] =>
              \/ place[c] = "asked" /\ place'[c] = "telling" /\ said'[c] \in {"refused", "ok"} /\ slot'[c] = slot[c]
              \/ /\ Later(id) /\ slot'[c] = "waiting"
                 /\ place'[c] = "promised" => said'[c] = "a_notice_will_say"
                 /\ place'[c] \in {"promised", "late"}
  <2>1. (\E r \in {"refused", "ok"} : Now(id, r)) \/ Later(id)
    BY <1>1
  <2>2. UNCHANGED socketVars
    OBVIOUS
  <2> QED
    BY <1>h, <2>1, <2>2, RunsShape
<1>l. \/ importing # NoImport /\ UNCHANGED <<importing, worker, fate>>
         /\ \A c \in Clients : slot'[c] = slot[c]
      \/ /\ importing = NoImport /\ importing'.by = id.by /\ importing'.nr = id.nr /\ worker' = "reading"
         /\ importing' \in [by : Clients, nr : Nat, answers : BOOLEAN]
         /\ fate' = [fate EXCEPT ![id] = "reading"]
         /\ \A c \in Clients : slot'[c] = slot[c]
              \/ (slot'[c] = "waiting" /\ importing' = [by |-> id.by, nr |-> id.nr, answers |-> TRUE])
  <2>1. CASE importing # NoImport /\ Now(id, "refused") /\ UNCHANGED <<importing, worker, fate>>
    BY <2>1 DEF Now
  <2>2. CASE /\ importing = NoImport /\ importing' = [by |-> id.by, nr |-> id.nr, answers |-> defers]
             /\ worker' = "reading" /\ fate' = [fate EXCEPT ![id] = "reading"]
             /\ IF defers THEN Later(id) ELSE Now(id, "ok")
    <3>1. defers \in BOOLEAN
      BY DEF defers
    <3>2. \A c \in Clients : slot'[c] = slot[c] \/ (slot'[c] = "waiting" /\ defers)
      <4>1. CASE defers
        BY <1>s, <2>2, <4>1
      <4>2. CASE ~defers
        BY <2>2, <4>2 DEF Now
      <4> QED
        BY <4>1, <4>2
    <3>3. CASE defers = TRUE
      BY <1>h, <1>n, <2>2, <3>2, <3>3
    <3>4. CASE defers = FALSE
      BY <1>h, <1>n, <2>2, <3>2, <3>4
    <3> QED
      BY <3>1, <3>3, <3>4
  <2> QED
    BY <1>1, <2>1, <2>2
<1>f. \A i \in Asker : fate'[i] = fate[i] \/ (i = id /\ fate[i] = "none" /\ fate'[i] = "reading")
  BY <1>l, <1>h, <1>t DEF Fresh
<1>2. CommandsTypeOK'
  <2>1. fate' \in [Asker -> Fates]
    BY <1>l, <1>h, <1>t DEF Fates
  <2>2. importing' \in [by : Clients \cup {Nobody}, nr : Nat, answers : BOOLEAN]
    BY <1>l, <1>t
  <2>3. requests' \in Seq([id : Asker, what : Lines])
    BY <1>h, HeadFacts
  <2>4. worker' \in {"idle", "reading", "read"}
    BY <1>l DEF CommandsInv, CommandsTypeOK
  <2>5. /\ place' \in [Clients -> Placed] /\ said' \in [Clients -> Replies]
        /\ slot' \in [Clients -> {"none", "waiting", "answered"}]
    BY <1>s DEF Reaches
  <2> QED
    BY <1>u, <2>1, <2>2, <2>3, <2>4, <2>5 DEF CommandsInv, CommandsTypeOK, Placed
<1>3. Tallied'
  <2> SUFFICES ASSUME NEW c \in Clients
               PROVE  Counted(c)' /\ Awaited(c)'
    BY DEF Tallied
  <2>i. Counted(c) /\ Awaited(c)
    BY DEF CommandsInv, Tallied
  <2>1. Counted(c)'
    <3>1. \/ place'[c] = place[c]
          \/ place[c] \in {"asked", "late"} /\ place'[c] \in {"telling", "promised", "late"}
      BY <1>s DEF Reaches
    <3> QED
      BY <1>u, <2>i, <3>1 DEF Counted
  <2>2. CASE UNCHANGED <<place[c], said[c], slot[c]>>
    <3>1. slot[c] = "waiting" => importing' = importing
      BY <1>l, <2>i, CommandConstants DEF Awaited, NoImport
    <3>2. /\ slot[c] = "answered" => fate'[Id(c, nth[c])] = "answered"
          /\ place[c] = "telling" /\ said[c] = "a_notice_will_say" => fate'[Id(c, nth[c])] \in {"reading", "noticed"}
      <4>1. place[c] \in {"late", "promised", "waiting", "telling"} => Id(c, nth[c]) \in Asker
        BY ConnectionFacts
      <4> QED
        BY <1>f, <2>i, <4>1 DEF Awaited
    <3> QED
      BY <1>u, <2>1, <2>2, <2>i, <3>1, <3>2 DEF Awaited, Id
  <2>3. CASE ~UNCHANGED <<place[c], said[c], slot[c]>>
    <3>1. /\ c = id.by /\ nth[c] = id.nr /\ place[c] \in {"asked", "late"} /\ slot[c] = "none"
          /\ \/ place[c] = "asked" /\ place'[c] \in {"telling", "promised"}
             \/ place[c] = "late" /\ place'[c] = "late" /\ said'[c] = said[c]
      BY <1>s, <2>3 DEF Reaches
    <3>2. \/ place[c] = "asked" /\ place'[c] = "telling" /\ said'[c] \in {"refused", "ok"} /\ slot'[c] = slot[c]
          \/ /\ Later(id) /\ slot'[c] = "waiting"
             /\ place'[c] = "promised" => said'[c] = "a_notice_will_say"
             /\ place'[c] \in {"promised", "late"}
      BY <1>s, <2>3
    <3>3. CASE place'[c] = "telling" /\ said'[c] \in {"refused", "ok"} /\ slot'[c] = "none"
      BY <2>1, <3>3 DEF Awaited
    <3>4. CASE /\ slot'[c] = "waiting" /\ place'[c] \in {"promised", "late"}
               /\ place'[c] = "promised" => said'[c] = "a_notice_will_say"
      <4>1. importing' = [by |-> c, nr |-> nth[c], answers |-> TRUE]
        BY <1>l, <3>1, <3>4
      <4>2. place'[c] = "late" => said'[c] = "no_answer"
        BY <2>i, <3>1, <3>4 DEF Awaited
      <4> QED
        BY <1>u, <2>1, <3>4, <4>1, <4>2 DEF Awaited
    <3> QED
      BY <3>1, <3>2, <3>3, <3>4
  <2> QED
    BY <2>1, <2>2, <2>3
<1>4. RequestsFresh'
  <2>1. \A i \in DOMAIN requests' :
          /\ i + 1 \in DOMAIN requests /\ requests'[i] = requests[i + 1] /\ i \in Nat
          /\ requests'[i].id # id /\ requests'[i].id \in Asker
    BY <1>h, HeadFacts DEF id
  <2>2. ASSUME NEW i \in DOMAIN requests', NEW k \in Asker, k = requests'[i].id
        PROVE  Fresh(k)'
    <3>1. Fresh(k) /\ k # id /\ k.by \in Clients
      BY <2>1, <2>2 DEF CommandsInv, RequestsFresh, Asker
    <3>2. CASE UNCHANGED <<place[k.by], slot[k.by]>>
      BY <1>f, <1>u, <3>1, <3>2 DEF Fresh, Has
    <3>3. CASE k.by = id.by /\ nth[k.by] = id.nr
      BY <1>f, <1>h, <1>n, <1>u, <3>1, <3>3 DEF Fresh, Has
    <3> QED
      BY <1>s, <3>1, <3>2, <3>3 DEF Reaches
  <2>3. \A i, j \in DOMAIN requests' : requests'[i].id = requests'[j].id => i = j
    <3>1. ASSUME NEW i \in DOMAIN requests', NEW j \in DOMAIN requests', requests'[i].id = requests'[j].id
          PROVE  i = j
      <4>1. i + 1 = j + 1
        BY <2>1, <3>1 DEF CommandsInv, RequestsFresh
      <4> QED
        BY <2>1, <4>1
    <3> QED
      BY <3>1
  <2>4. \A k \in Asker : k.nr > nth'[k.by] => fate'[k] = "none"
    <3>1. ASSUME NEW k \in Asker, k.nr > nth[k.by]
          PROVE  k # id
      <4>1. nth[k.by] \in Nat /\ k.nr \in Nat
        BY ConnectionFacts, CommandConstants DEF Asker
      <4> QED
        BY <1>h, <3>1, <4>1 DEF Fresh
    <3> QED
      BY <1>u, <1>f, <3>1 DEF CommandsInv, RequestsFresh
  <2>5. \A i \in DOMAIN requests' : \A k \in Asker : k = requests'[i].id => Fresh(k)'
    BY <2>2
  <2> QED
    BY <2>1, <2>3, <2>4, <2>5 DEF RequestsFresh, Fresh, Has
<1>5. FatesTold'
  BY <1>u, <1>f DEF CommandsInv, FatesTold
<1>6. ImportsTold'
  <2>1. OneImport'
    <3>1. CASE importing # NoImport /\ UNCHANGED <<importing, worker, fate>>
      BY <3>1 DEF CommandsInv, ImportsTold, OneImport
    <3>2. CASE importing = NoImport /\ importing'.by = id.by /\ importing'.nr = id.nr /\ fate' = [fate EXCEPT ![id] = "reading"]
      <4>1. Id(importing'.by, importing'.nr) = id /\ importing' # NoImport
        BY <1>h, <1>n, <3>2, CommandConstants DEF Id, NoImport, Asker
      <4>2. \A i \in Asker : fate'[i] = "reading" <=> i = id
        BY <1>t, <1>h, <3>2 DEF CommandsInv, ImportsTold, OneImport
      <4> QED
        BY <4>1, <4>2 DEF OneImport
    <3> QED
      BY <1>l, <3>1, <3>2
  <2>2. \A i \in Asker : LostOnlyWith(i)'
    BY <1>u, <1>f DEF CommandsInv, ImportsTold, LostOnlyWith
  <2>3. ASSUME NEW c \in Clients, NEW k \in DOMAIN replies[c]
        PROVE  /\ replies[c][k] = "a_notice_will_say" => fate'[Id(c, k)] \in {"reading", "noticed"}
               /\ replies[c][k] = "outcome" <=> fate'[Id(c, k)] = "told"
    <3>1. /\ replies[c][k] = "a_notice_will_say" => fate[Id(c, k)] \in {"reading", "noticed"}
          /\ replies[c][k] = "outcome" <=> fate[Id(c, k)] = "told"
      BY <2>3 DEF CommandsInv, ImportsTold, RepliesTrue
    <3>2. fate'[Id(c, k)] = fate[Id(c, k)] \/ (fate[Id(c, k)] = "none" /\ fate'[Id(c, k)] = "reading")
      <4>1. CASE fate' = fate
        BY <4>1
      <4>2. CASE fate' = [fate EXCEPT ![id] = "reading"]
        BY <1>h, <1>t, <4>2 DEF Fresh
      <4> QED
        BY <1>l, <4>1, <4>2
    <3> QED
      BY <3>1, <3>2
  <2> QED
    BY <1>u, <2>1, <2>2, <2>3 DEF ImportsTold, RepliesTrue, Id
<1>7. ImportKnown'
  BY <1>l, <1>h, <1>n DEF CommandsInv, ImportKnown
<1> QED
  BY <1>2, <1>3, <1>4, <1>5, <1>6, <1>7 DEF CommandsInv

(* How the import went is handed to whoever waits, or noticed.             *)
LEMMA FinishesKeeps ==
  ASSUME CommandsInv, Finishes, UNCHANGED <<socketVars, stuck>>
  PROVE  CommandsInv'
<1> DEFINE id == Id(importing.by, importing.nr)
<1>u. /\ UNCHANGED <<lines, gone, listener, nth, written, replies, cut, stuck, requests, place, said>>
      /\ importing' = NoImport /\ worker' = "idle" /\ worker = "read"
  BY DEF socketVars, Finishes
<1>t. /\ fate \in [Asker -> Fates] /\ slot \in [Clients -> {"none", "waiting", "answered"}]
      /\ importing \in [by : Clients \cup {Nobody}, nr : Nat, answers : BOOLEAN]
  BY DEF CommandsInv, CommandsTypeOK
<1>h. /\ importing.by \in Clients /\ importing.nr \in 1 .. MaxLines /\ importing # NoImport
      /\ id \in Asker /\ id.by = importing.by /\ id.nr = importing.nr
  BY <1>u, CommandConstants DEF CommandsInv, ImportKnown, NoImport, Asker, Id
<1>1. \/ /\ importing.answers /\ Waits(id)
         /\ slot' = [slot EXCEPT ![id.by] = "answered"] /\ fate' = [fate EXCEPT ![id] = "answered"]
      \/ ~(importing.answers /\ Waits(id)) /\ slot' = slot /\ fate' = [fate EXCEPT ![id] = "noticed"]
  BY DEF Finishes
<1>r. fate[id] = "reading" /\ \A i \in Asker : fate[i] = "reading" => i = id
  BY <1>h DEF CommandsInv, ImportsTold, OneImport
<1> HIDE DEF id
<1>w. Waits(id) => /\ place[id.by] \in {"late", "promised", "waiting"} /\ nth[id.by] = id.nr
                   /\ id.nr \notin DOMAIN replies[id.by]
  BY <1>h, ConnectionFacts DEF Waits, Has
<1>f. /\ fate' \in [Asker -> Fates] /\ \A i \in Asker : i # id => fate'[i] = fate[i]
      /\ fate'[id] = IF importing.answers /\ Waits(id) THEN "answered" ELSE "noticed"
      /\ slot' \in [Clients -> {"none", "waiting", "answered"}]
      /\ \A c \in Clients : slot'[c] = IF importing.answers /\ Waits(id) /\ c = id.by THEN "answered" ELSE slot[c]
  BY <1>1, <1>t, <1>h DEF Fates
<1>2. CommandsTypeOK'
  BY <1>u, <1>f, CommandConstants DEF CommandsInv, CommandsTypeOK, NoImport
<1>3. Tallied'
  <2> SUFFICES ASSUME NEW c \in Clients
               PROVE  Counted(c)' /\ Awaited(c)'
    BY DEF Tallied
  <2>i. Counted(c) /\ Awaited(c)
    BY DEF CommandsInv, Tallied
  <2>1. Counted(c)'
    BY <1>u, <2>i DEF Counted
  <2>2. place[c] \in {"late", "promised", "waiting", "telling"} => Id(c, nth[c]) \in Asker
    BY ConnectionFacts
  <2>3. slot[c] = "waiting" => importing.answers /\ Waits(id) /\ c = id.by /\ nth[c] = id.nr
    <3>1. ASSUME slot[c] = "waiting"
          PROVE  importing = [by |-> c, nr |-> nth[c], answers |-> TRUE] /\ place[c] \in {"late", "promised", "waiting"}
      BY <2>i, <3>1 DEF Awaited
    <3> QED
      BY <1>h, <3>1 DEF Waits, Has
  <2>4. slot'[c] # "waiting"
    BY <1>f, <2>3
  <2>5. CASE importing.answers /\ Waits(id) /\ c = id.by
    <3>1. /\ slot'[c] = "answered" /\ place[c] \in {"late", "promised", "waiting"} /\ Id(c, nth[c]) = id
          /\ fate'[id] = "answered"
      BY <1>f, <1>h, <1>w, <2>5 DEF Id, id
    <3>2. /\ place[c] \in {"promised", "waiting"} => said[c] = "a_notice_will_say"
          /\ place[c] = "late" => said[c] = "no_answer"
      BY <2>i DEF Awaited
    <3> QED
      BY <1>u, <2>1, <3>1, <3>2 DEF Awaited, Id
  <2>6. CASE ~(importing.answers /\ Waits(id) /\ c = id.by)
    <3>1. slot'[c] = slot[c]
      BY <1>f, <2>6
    <3>2. slot[c] = "answered" => fate'[Id(c, nth[c])] = "answered"
      BY <1>f, <1>r, <2>2, <2>i DEF Awaited
    <3>3. ASSUME place[c] = "telling", said[c] = "a_notice_will_say"
          PROVE  fate'[Id(c, nth[c])] \in {"reading", "noticed"}
      <4>1. fate[Id(c, nth[c])] \in {"reading", "noticed"} /\ Id(c, nth[c]) \in Asker
        BY <2>i, <2>2, <3>3 DEF Awaited
      <4>2. CASE Id(c, nth[c]) = id
        <5>1. ~Waits(id)
          BY <1>h, <1>w, <3>3, <4>2 DEF Id
        <5> QED
          BY <1>f, <4>2, <5>1
      <4>3. CASE Id(c, nth[c]) # id
        BY <1>f, <4>1, <4>3
      <4> QED
        BY <4>2, <4>3
    <3>4. Awaited(c)'
      BY <1>u, <2>i, <2>4, <3>1, <3>2, <3>3 DEF Awaited, Id
    <3> QED
      BY <2>1, <3>4
  <2> QED
    BY <2>5, <2>6
<1>4. RequestsFresh'
  <2>1. ASSUME NEW k \in Asker, Fresh(k)
        PROVE  Fresh(k)'
    <3>1. k.by \in Clients /\ k # id
      BY <1>r, <2>1 DEF Fresh, Asker
    <3>2. k.nr = nth[k.by] => ~(Waits(id) /\ k.by = id.by)
      BY <1>h, <1>w, <3>1 DEF Asker
    <3>3. Has(k, {"late"}) => slot'[k.by] = slot[k.by]
      BY <1>f, <3>1, <3>2 DEF Has
    <3> QED
      BY <1>u, <1>f, <2>1, <3>1, <3>3 DEF Fresh, Has
  <2>2. \A k \in Asker : k.nr > nth[k.by] => fate'[k] = "none"
    BY <1>f, <1>r DEF CommandsInv, RequestsFresh
  <2>3. \A i \in DOMAIN requests : requests[i].id \in Asker /\ Fresh(requests[i].id)
    BY RequestFacts DEF CommandsInv, RequestsFresh
  <2>4. \A i \in DOMAIN requests : \A k \in Asker : k = requests[i].id => Fresh(k)'
    BY <2>1, <2>3
  <2>5. \A i, j \in DOMAIN requests : requests[i].id = requests[j].id => i = j
    BY DEF CommandsInv, RequestsFresh
  <2> QED
    BY <1>u, <2>2, <2>3, <2>4, <2>5 DEF RequestsFresh, Fresh, Has
<1>5. FatesTold'
  BY <1>u, <1>f DEF CommandsInv, FatesTold
<1>6. ImportsTold'
  <2>1. OneImport'
    BY <1>u, <1>f, <1>r DEF OneImport, NoImport
  <2>2. \A i \in Asker : LostOnlyWith(i)'
    BY <1>u, <1>f DEF CommandsInv, ImportsTold, LostOnlyWith
  <2>3. ASSUME NEW c \in Clients, NEW k \in DOMAIN replies[c]
        PROVE  /\ replies[c][k] = "a_notice_will_say" => fate'[Id(c, k)] \in {"reading", "noticed"}
               /\ replies[c][k] = "outcome" <=> fate'[Id(c, k)] = "told"
    <3>1. /\ replies[c][k] = "a_notice_will_say" => fate[Id(c, k)] \in {"reading", "noticed"}
          /\ replies[c][k] = "outcome" <=> fate[Id(c, k)] = "told"
      BY <2>3 DEF CommandsInv, ImportsTold, RepliesTrue
    <3>2. CASE Id(c, k) = id
      <4>1. ~Waits(id)
        BY <1>h, <1>w, <2>3, <3>2 DEF Id
      <4> QED
        BY <1>f, <1>r, <3>1, <3>2, <4>1
    <3>3. CASE Id(c, k) # id
      <4>1. fate'[Id(c, k)] = fate[Id(c, k)]
        BY <1>f, <2>3, <3>3, RepliesNamed
      <4> QED
        BY <3>1, <4>1
    <3> QED
      BY <3>2, <3>3
  <2> QED
    BY <1>u, <2>1, <2>2, <2>3 DEF ImportsTold, RepliesTrue, Id
<1>7. ImportKnown'
  BY <1>u DEF ImportKnown, NoImport
<1> QED
  BY <1>2, <1>3, <1>4, <1>5, <1>6, <1>7 DEF CommandsInv

LEMMA CommandsInvNext ==
  ASSUME CommandsInv, [CommandsNext]_commandVars
  PROVE  CommandsInv'
<1>1. ASSUME NEW c \in Clients, ClientThread(c)
      PROVE  CommandsInv'
  <2>1. UNCHANGED <<written, importing, worker, stuck>>
    BY <1>1 DEF ClientThread
  <2>2. CASE TakesUp(c) \/ Idles(c) \/ TimesOut(c) \/ Spawns(c) \/ GetsAnswer(c) \/ GivesUp(c)
    BY <2>1, <2>2, AsideKeeps DEF Aside
  <2> QED
    BY <1>1, <2>1, <2>2, AsksKeeps, TellsKeeps DEF ClientThread
<1>2. ASSUME NEW c \in Clients, Client(c)
      PROVE  CommandsInv'
  BY <1>2, AsideKeeps DEF Aside
<1>3. CASE Driver
  BY <1>3, RunsLineKeeps, FinishesKeeps DEF Driver
<1>4. CASE Worker \/ (\E what \in {"driver", "disk"} : Sticks(what)) \/ UNCHANGED commandVars
  <2>1. /\ UNCHANGED <<lines, gone, listener, nth, written, replies, cut, place, said, slot, requests, importing, fate>>
        /\ worker' = worker \/ (worker = "reading" /\ worker' = "read")
        /\ stuck' = stuck \/ stuck' \in {{"driver"}, {"disk"}}
    BY <1>4 DEF Worker, Sticks, commandVars, socketVars, threadVars, importVars
  <2>2. CommandsTypeOK' /\ ImportKnown'
    BY <2>1 DEF CommandsInv, CommandsTypeOK, ImportKnown
  <2>3. Tallied'
    BY <2>1 DEF CommandsInv, Tallied, Counted, Awaited, Id
  <2>4. RequestsFresh'
    BY <2>1 DEF CommandsInv, RequestsFresh, Fresh, Has
  <2>5. FatesTold' /\ ImportsTold'
    BY <2>1, UntoldKeeps DEF Untold
  <2> QED
    BY <2>2, <2>3, <2>4, <2>5 DEF CommandsInv
<1> QED
  BY <1>1, <1>2, <1>3, <1>4 DEF CommandsNext

LEMMA CommandsInvInit == CommandsInit => CommandsInv
<1> SUFFICES ASSUME CommandsInit PROVE CommandsInv
  OBVIOUS
<1>1. /\ <<>> \in Seq(Lines) /\ <<>> \in Seq(Replies) /\ Len(<<>>) = 0 /\ DOMAIN <<>> = {}
      /\ <<>> \in Seq([id : Asker, what : Lines])
  OBVIOUS
<1>2. 0 \in 0 .. MaxLines /\ 0 \in Nat /\ 0 + 0 <= 0
  BY CommandConstants
<1>3. CommandsTypeOK
  BY <1>1, <1>2 DEF CommandsInit, CommandsTypeOK, NoImport, Replies, Fates
<1>4. Tallied
  BY <1>1, <1>2 DEF CommandsInit, Tallied, Counted, Awaited
<1>5. ImportKnown /\ RequestsFresh /\ FatesTold
  BY <1>1 DEF CommandsInit, ImportKnown, RequestsFresh, FatesTold
<1>6. ImportsTold
  BY <1>1 DEF CommandsInit, ImportsTold, OneImport, LostOnlyWith, RepliesTrue
<1> QED
  BY <1>3, <1>4, <1>5, <1>6 DEF CommandsInv

(* How an import went is said once, to whoever waits or in a notice; each  *)
(* reply is to the line it follows; what is lost is lost with a connection *)
(* that went, or one just told that no answer came (bundles.rs, finish;    *)
(* ipc.rs, Deferred::wait).                                                *)
THEOREM ImportsToldAlways == CommandsSpec => []ImportsTold
<1>1. CommandsInv => ImportsTold
  BY DEF CommandsInv
<1>2. CommandsInv /\ [CommandsNext]_commandVars => CommandsInv'
  BY CommandsInvNext
<1> QED
  BY <1>1, <1>2, CommandsInvInit, PTL DEF CommandsSpec

-----------------------------------------------------------------------------
(* The seven parts side by side: a step of the whole is a step of each, or *)
(* leaves it as it is.                                                     *)
ServicesInv ==
  AuthTyped /\ AuthInv /\ IdleInv /\ NotifInv /\ IInv /\ CommandsInv /\ RecorderInv /\ SharedInv

LEMMA PartsMove ==
  ASSUME [Next]_partVars
  PROVE  /\ [AuthNext]_authVars /\ [IdleNext]_idleVars /\ [NotifNext]_notifVars /\ [LockNext]_lockVars
         /\ [CommandsNext]_commandVars /\ [RecorderNext]_recorderVars /\ [SharedNext]_stateVars
BY Zenon DEF Next, partVars

LEMMA ServicesInvNext == ServicesInv /\ [Next]_partVars => ServicesInv'
<1> SUFFICES ASSUME ServicesInv, [Next]_partVars PROVE ServicesInv'
  OBVIOUS
<1>1. AuthTyped' /\ AuthInv'
  BY PartsMove, AuthTypedNext, AuthInvNext DEF ServicesInv
<1>2. IdleInv' /\ NotifInv'
  BY PartsMove, IdleInvNext, NotifInvNext DEF ServicesInv
<1>3. IInv' /\ CommandsInv'
  BY PartsMove, IInvNext, CommandsInvNext DEF ServicesInv
<1>4. RecorderInv' /\ SharedInv'
  BY PartsMove, RecorderInvNext, SharedInvNext DEF ServicesInv
<1> QED
  BY <1>1, <1>2, <1>3, <1>4 DEF ServicesInv

LEMMA ServicesInvInit == Init => ServicesInv
<1>1. Init => AuthInit /\ IdleInit /\ NotifInit /\ LockInit /\ CommandsInit /\ RecorderInit /\ SharedInit
  BY DEF Init
<1> QED
  BY <1>1, AuthTypedInit, AuthInvInit, IdleInvInit, NotifInvInit, IInvInit, CommandsInvInit, RecorderInvInit,
     SharedInvInit DEF ServicesInv

(* Every part keeps its types, whichever of them runs.                     *)
THEOREM ServicesTyped == Spec => []TypeOK
<1>1. ServicesInv => TypeOK
  <2>1. IdleInv => IdleTypeOK
    BY DEF IdleInv
  <2>2. NotifInv => NotifTypeOK
    BY DEF NotifInv
  <2>3. IInv => LockTypeOK
    BY DEF IInv
  <2>4. CommandsInv => CommandsTypeOK
    BY DEF CommandsInv
  <2>5. RecorderInv => RecorderTypeOK
    BY DEF RecorderInv
  <2>6. SharedInv => SharedTypeOK
    BY DEF SharedInv
  <2> QED
    BY <2>1, <2>2, <2>3, <2>4, <2>5, <2>6, AuthTypedIs DEF ServicesInv, TypeOK
<1> QED
  BY <1>1, ServicesInvInit, ServicesInvNext, PTL DEF Spec
=============================================================================
