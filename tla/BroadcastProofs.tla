--------------------------- MODULE BroadcastProofs ---------------------------
(* One producer per service, and nobody left without it: for any surfaces, *)
(* any callers and any number of producer threads.                         *)
EXTENDS Broadcast, FiniteSetTheorems, TLAPS

(* A surface past its registration, whose producer is accounted for.       *)
Listed(s)  == spc[s] \in {"start", "on"} /\ alive[s]

(* The mutex is held by the one producer inside wanted, and a producer is  *)
(* unique among those that hold a claim.                                   *)
LockHeld == \A r \in Runs : rpc[r] \in LockedPc <=> lock = r

(* The flag stands for exactly one claim: a producer's, or a fixture's.    *)
Claimed ==
  /\ \A q, r \in Runs : rpc[q] \in ClaimPc /\ rpc[r] \in ClaimPc => q = r
  /\ seeded => running /\ \A r \in Runs : rpc[r] \notin ClaimPc
  /\ (\E r \in Runs : rpc[r] \in ClaimPc) => running
  /\ running /\ ~seeded /\ kind # "returns" => \E r \in Runs : rpc[r] \in ClaimPc

(* A surface that is there and has registered stays registered.            *)
Registered == \A s \in Surfaces : Listed(s) => s \in subs

(* A producer that was told it is not wanted was told so with no surface   *)
(* past its start: one that registers since will still look at the flag.   *)
NobodyMissed ==
  \A r \in Runs : rpc[r] = "quit" =>
    \A s \in Surfaces : Listed(s) => spc[s] = "start"

(* While no producer is claimed, every registered surface is about to look *)
(* at the flag, unless the last look found no thread.                      *)
NobodyStranded ==
  ~running /\ ~unspawned => \A s \in Surfaces : Listed(s) => spc[s] = "start"

IInv ==
  /\ TypeOK
  /\ CensusTrue
  /\ LockHeld
  /\ Claimed
  /\ Registered
  /\ NobodyMissed
  /\ NobodyStranded

-----------------------------------------------------------------------------
(* The steps, seen from the flag.                                          *)

(* What the callers and the world do between two sections of the service.  *)
Aside ==
  UNCHANGED <<given, subs, running, lock, census, spc, alive, rpc, unspawned>>

(* Start with its thread named: it was there already, a fresh one was      *)
(* claimed, or none could be had.                                          *)
LEMMA StartSplits ==
  ASSUME Start
  PROVE  /\ lock = None
         /\ \/ running /\ UNCHANGED <<running, census, rpc, unspawned>>
            \/ \E r \in Runs : /\ ~running /\ running' /\ rpc[r] = "unborn"
                               /\ rpc' = [rpc EXCEPT ![r] = "read"]
                               /\ census' = census + 1 /\ unspawned' = FALSE
            \/ ~running /\ unspawned' = TRUE /\ UNCHANGED <<running, census, rpc>>
<1>1. Unborn # {} => Fresh \in Unborn
  BY DEF Fresh
<1> QED
  BY <1>1 DEF Start, Unborn

(* The steps that touch the subscribers of the service, the flag, its lock *)
(* or a producer; all others are Aside.                                    *)
LEMMA NextSplits ==
  ASSUME [Next]_vars
  PROVE  \/ Aside
         \/ \E s \in Surfaces : Subscribe(s) \/ Subscribing(s) \/ Close(s)
         \/ \E c \in Callers : CallerStarts(c) \/ CallerSends(c)
         \/ \E r \in Runs : Producing(r) \/ GiveUp(r)
BY DEF Next, vars, Aside, Calling, CallCurrent, CallPublish, CallerRecords, WorldChanges, given,
       surfaceVars, producerVars

(* Every variable but the census keeps its type whatever the step.         *)
LEMMA TypeNext ==
  ASSUME TypeOK, [Next]_vars, census' \in Nat
  PROVE  TypeOK'
<1> USE DEF TypeOK, Reading, given, surfaceVars, callerVars, producerVars, RunPc, ClaimPc
<1>0. 1 \in Reading /\ 0 \in Reading
  BY BroadcastAssumption
<1>1. ASSUME NEW s \in Surfaces, Subscribe(s) \/ Attach(s) \/ Push(s) \/ Close(s)
      PROVE  TypeOK'
  BY <1>1 DEF Subscribe, Attach, Push, Close
<1>2. ASSUME NEW s \in Surfaces, StartFor(s)
      PROVE  TypeOK'
  BY <1>2, StartSplits DEF StartFor
<1>3. ASSUME NEW c \in Callers, CallCurrent(c) \/ CallPublish(c) \/ CallerRecords(c)
      PROVE  TypeOK'
  BY <1>0, <1>3, BroadcastAssumption DEF CallCurrent, CallPublish, CallerRecords, Record
<1>4. ASSUME NEW c \in Callers, CallerStarts(c)
      PROVE  TypeOK'
  BY <1>4, StartSplits DEF CallerStarts
<1>5. ASSUME NEW c \in Callers, CallerSends(c)
      PROVE  TypeOK'
  BY <1>5 DEF CallerSends, FanOut
<1>6. ASSUME NEW r \in Runs, TakeReading(r) \/ LookIn(r) \/ GiveUp(r) \/ Records(r)
      PROVE  TypeOK'
  BY <1>6 DEF TakeReading, LookIn, GiveUp, Records, Record
<1>7. ASSUME NEW r \in Runs, Sends(r)
      PROVE  TypeOK'
  BY <1>7 DEF Sends, FanOut
<1>8. ASSUME NEW r \in Runs, Ask(r) \/ Look(r) \/ Keep(r) \/ Quit(r) \/ Return(r)
      PROVE  TypeOK'
  BY <1>8 DEF Ask, Look, Keep, Quit, Return
<1>9. CASE WorldChanges \/ UNCHANGED vars
  BY <1>9, BroadcastAssumption DEF WorldChanges, vars
<1> QED
  BY <1>1, <1>2, <1>3, <1>4, <1>5, <1>6, <1>7, <1>8, <1>9
  DEF Next, Subscribing, Calling, Producing

-----------------------------------------------------------------------------
(* The census.                                                             *)

(* The threads a reader of the census should find there.                   *)
Live == {r \in Runs : rpc[r] \notin {"unborn", "gone"}}

(* There are finitely many producer threads.                               *)
LEMMA LiveFinite == IsFiniteSet(Live) /\ Cardinality(Live) \in Nat
<1>1. IsFiniteSet(Live)
  BY FS_Subset, BroadcastAssumption DEF Live
<1> QED
  BY <1>1, FS_CardinalityType

(* Each step keeps the census the number of threads there are.             *)
LEMMA CensusNext ==
  ASSUME TypeOK, CensusTrue, [Next]_vars
  PROVE  CensusTrue' /\ census' \in Nat
<1> USE DEF TypeOK, RunPc, ClaimPc
<1>0. census = Cardinality(Live) /\ (CensusTrue' <=> census' = Cardinality(Live'))
  BY DEF CensusTrue, Live
<1>1. ASSUME census' = census, Live' = Live
      PROVE  CensusTrue' /\ census' \in Nat
  BY <1>0, <1>1, LiveFinite
<1>2. ASSUME NEW r \in Runs, rpc[r] = "unborn", rpc' = [rpc EXCEPT ![r] = "read"],
             census' = census + 1
      PROVE  CensusTrue' /\ census' \in Nat
  <2>1. Live' = Live \cup {r} /\ r \notin Live
    BY <1>2 DEF Live
  <2>2. Cardinality(Live \cup {r}) = Cardinality(Live) + 1
    BY <2>1, LiveFinite, FS_AddElement
  <2> QED
    BY <1>0, <1>2, <2>1, <2>2, LiveFinite
<1>3. ASSUME NEW r \in Runs, Return(r)
      PROVE  CensusTrue' /\ census' \in Nat
  <2>1. Live' = Live \ {r} /\ r \in Live /\ census' = census - 1
    BY <1>3 DEF Return, Live
  <2>2. Cardinality(Live \ {r}) = Cardinality(Live) - 1 /\ Cardinality(Live \ {r}) \in Nat
    BY <2>1, LiveFinite, FS_RemoveElement, FS_CardinalityType
  <2> QED
    BY <1>0, <2>1, <2>2, LiveFinite
<1>4. ASSUME Start
      PROVE  CensusTrue' /\ census' \in Nat
  <2>1. CASE UNCHANGED <<census, rpc>>
    BY <1>1, <2>1 DEF Live
  <2> QED
    BY <1>2, <1>4, <2>1, StartSplits
<1>5. ASSUME NEW r \in Runs, Producing(r) \/ GiveUp(r), ~Return(r)
      PROVE  census' = census /\ Live' = Live
  BY <1>5 DEF Producing, TakeReading, LookIn, Records, Sends, Ask, Look, Keep, Quit, GiveUp, Live
<1>6. ASSUME NEW s \in Surfaces, Subscribe(s) \/ Attach(s) \/ Push(s) \/ Close(s)
      PROVE  census' = census /\ Live' = Live
  BY <1>6 DEF Subscribe, Attach, Push, Close, producerVars, Live
<1>7. ASSUME NEW c \in Callers, CallerSends(c)
      PROVE  census' = census /\ Live' = Live
  BY <1>7 DEF CallerSends, producerVars, Live
<1>8. CASE Aside
  BY <1>1, <1>8 DEF Aside, Live
<1> QED
  BY <1>1, <1>3, <1>4, <1>5, <1>6, <1>7, <1>8, NextSplits
  DEF Subscribing, StartFor, CallerStarts

-----------------------------------------------------------------------------
(* The flag.                                                               *)

Flag == LockHeld /\ Claimed /\ Registered /\ NobodyMissed /\ NobodyStranded

(* Nothing is started, and nobody listens, at the start.                   *)
LEMMA InvInit == Init => IInv
<1> SUFFICES ASSUME Init PROVE IInv
  OBVIOUS
<1> USE DEF Init
<1>1. TypeOK
  <2>1. seeded \in BOOLEAN
    <3>1. CASE MaySeed
      BY <3>1
    <3>2. CASE ~MaySeed
      BY <3>2
    <3> QED
      BY <3>1, <3>2
  <2>2. 0 \in Reading /\ 1 \in Reading
    BY BroadcastAssumption DEF Reading
  <2>3. running \in BOOLEAN /\ current \in Reading
    BY <2>1, <2>2
  <2> QED
    BY <2>1, <2>2, <2>3 DEF TypeOK, RunPc
<1>2. CensusTrue
  <2>1. Live = {}
    BY DEF Live
  <2>2. Cardinality(Live) = 0
    BY <2>1, FS_EmptySet
  <2> QED
    BY <2>2 DEF CensusTrue, Live
<1>3. Flag
  BY BroadcastAssumption
  DEF Flag, LockHeld, Claimed, Registered, NobodyMissed, NobodyStranded, Listed, ClaimPc, LockedPc
<1> QED
  BY <1>1, <1>2, <1>3 DEF IInv, Flag

(* Looking at the flag under its mutex, and starting a producer where there*)
(* is none, leaves one claim; the surface that looked is accounted for.    *)
LEMMA FlagStart ==
  ASSUME TypeOK, Flag, Start, UNCHANGED <<given, subs, lock, alive>>,
         \/ UNCHANGED spc
         \/ \E s \in Surfaces : spc[s] = "start" /\ spc' = [spc EXCEPT ![s] = "on"]
  PROVE  Flag'
<1> USE DEF TypeOK, RunPc, ClaimPc, LockedPc, given
<1>0. /\ lock = None
      /\ \A r \in Runs : rpc[r] \notin LockedPc
      /\ \A s \in Surfaces : Listed(s)' <=> Listed(s)
  BY StartSplits, BroadcastAssumption DEF Flag, LockHeld, Listed
<1>1. CASE running /\ UNCHANGED <<running, rpc, unspawned>>
  BY <1>0, <1>1 DEF Flag, LockHeld, Claimed, Registered, NobodyMissed, NobodyStranded
<1>2. ASSUME NEW r \in Runs, ~running, running', rpc[r] = "unborn",
             rpc' = [rpc EXCEPT ![r] = "read"], unspawned' = FALSE
      PROVE  Flag'
  <2>1. \A q \in Runs : rpc[q] \notin ClaimPc
    BY <1>2 DEF Flag, Claimed
  <2>2. \A q \in Runs : rpc'[q] = IF q = r THEN "read" ELSE rpc[q]
    BY <1>2
  <2>3. ~seeded
    BY <1>2 DEF Flag, Claimed
  <2> QED
    BY <1>0, <1>2, <2>1, <2>2, <2>3
    DEF Flag, LockHeld, Claimed, Registered, NobodyMissed, NobodyStranded
<1>3. CASE ~running /\ unspawned' = TRUE /\ UNCHANGED <<running, rpc>>
  BY <1>0, <1>3 DEF Flag, LockHeld, Claimed, Registered, NobodyMissed, NobodyStranded
<1> QED
  BY <1>1, <1>2, <1>3, StartSplits

(* Each step keeps the flag true to the producers and to the surfaces.     *)
LEMMA FlagNext ==
  ASSUME TypeOK, Flag, [Next]_vars
  PROVE  Flag'
<1> USE DEF TypeOK, RunPc, ClaimPc, LockedPc, given, surfaceVars, callerVars, producerVars
<1> USE DEF Flag, LockHeld, Claimed, Registered, NobodyMissed, NobodyStranded, Listed
<1>1. ASSUME NEW s \in Surfaces, Subscribe(s) \/ Attach(s)
      PROVE  Flag'
  BY <1>1 DEF Subscribe, Attach
<1>2. ASSUME NEW s \in Surfaces, Push(s)
      PROVE  Flag'
  BY <1>2 DEF Push
<1>3. ASSUME NEW s \in Surfaces, Close(s)
      PROVE  Flag'
  BY <1>3 DEF Close
<1>4. ASSUME NEW s \in Surfaces, StartFor(s)
      PROVE  Flag'
  BY <1>4, FlagStart DEF StartFor
<1>5. ASSUME NEW c \in Callers, CallerStarts(c)
      PROVE  Flag'
  BY <1>5, FlagStart DEF CallerStarts
<1>6. ASSUME NEW c \in Callers, CallerSends(c)
      PROVE  Flag'
  BY <1>6 DEF CallerSends, FanOut
<1>7. ASSUME NEW r \in Runs, TakeReading(r) \/ LookIn(r) \/ Records(r)
      PROVE  Flag'
  BY <1>7 DEF TakeReading, LookIn, Records
<1>8. ASSUME NEW r \in Runs, GiveUp(r)
      PROVE  Flag'
  BY <1>8 DEF GiveUp
<1>9. ASSUME NEW r \in Runs, Sends(r)
      PROVE  Flag'
  BY <1>9 DEF Sends, FanOut
<1>10. ASSUME NEW r \in Runs, Ask(r)
      PROVE  Flag'
  BY <1>10, BroadcastAssumption DEF Ask
<1>11. ASSUME NEW r \in Runs, Look(r)
      PROVE  Flag'
  BY <1>11 DEF Look
<1>12. ASSUME NEW r \in Runs, Keep(r)
      PROVE  Flag'
  BY <1>12, BroadcastAssumption DEF Keep
<1>13. ASSUME NEW r \in Runs, Quit(r)
      PROVE  Flag'
  BY <1>13, BroadcastAssumption DEF Quit
<1>14. ASSUME NEW r \in Runs, Return(r)
      PROVE  Flag'
  BY <1>14 DEF Return
<1>15. CASE Aside
  BY <1>15 DEF Aside
<1> QED
  BY <1>1, <1>2, <1>3, <1>4, <1>5, <1>6, <1>7, <1>8, <1>9, <1>10, <1>11, <1>12, <1>13, <1>14,
     <1>15, NextSplits
  DEF Subscribing, Producing

-----------------------------------------------------------------------------
(* The theorems.                                                           *)

(* The invariant holds in every state the service reaches.                 *)
THEOREM Invariance == Spec => []IInv
<1>1. IInv /\ [Next]_vars => IInv'
  BY CensusNext, TypeNext, FlagNext DEF IInv, Flag
<1> QED
  BY <1>1, InvInit, PTL DEF Spec

(* Every variable keeps its type; the count of the census never goes below *)
(* zero (broadcast.rs, Running).                                           *)
THEOREM TypeCorrect == Spec => []TypeOK
<1>1. IInv => TypeOK
  BY DEF IInv
<1> QED
  BY <1>1, Invariance, PTL

(* A service never has two producers at once, and a fixture's has none     *)
(* (broadcast.rs, start and wanted).                                       *)
THEOREM OneProducerAlways == Spec => []OneProducer
<1>1. IInv => OneProducer
  BY DEF IInv, Claimed, OneProducer, Claims
<1> QED
  BY <1>1, Invariance, PTL

(* A subscription that lands while the producer is retiring is served: by  *)
(* it, or by the one it starts (broadcast.rs, wanted).                     *)
THEOREM NobodyIsStranded == Spec => []NoStranded
<1>1. ASSUME IInv PROVE NoStranded
  <2> USE DEF IInv, Claimed, NobodyStranded, Listed
  <2>1. SUFFICES ASSUME NEW s \in Surfaces, spc[s] = "on", alive[s], ~seeded, ~unspawned,
                        kind # "returns"
                 PROVE  \E r \in Runs : rpc[r] \in ClaimPc
    BY DEF NoStranded, Claims
  <2>2. running
    BY <1>1, <2>1
  <2> QED
    BY <1>1, <2>1, <2>2
<1> QED
  BY <1>1, Invariance, PTL

(* The census counts the threads there are, those on their way out too.    *)
THEOREM CensusIsTrue == Spec => []CensusTrue
<1>1. IInv => CensusTrue
  BY DEF IInv
<1> QED
  BY <1>1, Invariance, PTL
=============================================================================
