----------------------------- MODULE ShellProofs -----------------------------
(***************************************************************************)
(* The parts of the shell that share no state, each for any values of its  *)
(* constants: keyed sources, commands that are run, schedules and rules.   *)
(* What a rule of the engine, a time of a schedule or an entry of a key is *)
(* stays with the part; nothing of one is used by another's proof.         *)
(***************************************************************************)
EXTENDS MCShell, LayoutStoreProofs, SequenceTheorems, WellFoundedInduction

-----------------------------------------------------------------------------
(* A surface that reads a key is served by the entry it found, however     *)
(* often the key is forgotten and filed again: for any surfaces, entries,  *)
(* producer threads and layouts.                                           *)
(* A subscription past its lookup has found an entry.                      *)
FoundEntry == \A s \in Surfaces : spc[s] \in {"push", "start", "on"} => sentry[s] \in Entries

(* A claim is held by a producer that serves (Broadcast.running).          *)
ClaimServed == \A e \in Entries : claims[e] => \E r \in Serving : rentry[r] = e

(* A surface that is there and has attached is filed with its entry.       *)
FiledAt ==
  \A s \in Surfaces : spc[s] \in {"start", "on"} /\ alive[s] => s \in subs[sentry[s]]

KeyedInv == KeyedTypeOK /\ FoundEntry /\ ClaimServed /\ FiledAt /\ Served

-----------------------------------------------------------------------------
(* The variables keep their types.                                         *)
LEMMA KeyedTypeNext ==
  ASSUME KeyedTypeOK, FoundEntry, [KeyedNext]_keyedVars
  PROVE  KeyedTypeOK'
<1> USE KeyedAssumption DEF KeyedTypeOK
<1>1. ASSUME NEW named \in BOOLEAN, Declare(named)
      PROVE  KeyedTypeOK'
  BY <1>1 DEF Declare, Forgetters
<1>2. ASSUME NEW s \in Surfaces, Subscribe(s) \/ Close(s)
      PROVE  KeyedTypeOK'
  BY <1>2 DEF Subscribe, Close
<1>3. ASSUME NEW s \in Surfaces, Lookup(s)
      PROVE  KeyedTypeOK'
  BY <1>3 DEF Lookup
<1>4. ASSUME NEW s \in Surfaces, Attach(s)
      PROVE  KeyedTypeOK'
  BY <1>4 DEF Attach, FoundEntry
<1>5. ASSUME NEW s \in Surfaces, Start(s)
      PROVE  KeyedTypeOK'
  <2>1. sentry[s] \in Entries /\ spc' = [spc EXCEPT ![s] = "on"]
        /\ UNCHANGED <<declared, layouts, entry, used, subs, alive, sentry, fpc>>
    BY <1>5 DEF Start, FoundEntry
  <2>2. spc' \in [Surfaces -> {"off", "lookup", "push", "start", "on"}]
    BY <2>1
  <2>3. CASE UNCHANGED <<claims, rpc, rentry>>
    BY <2>1, <2>2, <2>3
  <2>4. ASSUME NEW r \in Runs, claims' = [claims EXCEPT ![sentry[s]] = TRUE],
               rpc' = [rpc EXCEPT ![r] = "serving"],
               rentry' = [rentry EXCEPT ![r] = sentry[s]]
        PROVE  KeyedTypeOK'
    BY <2>1, <2>2, <2>4
  <2> QED
    BY <1>5, <2>3, <2>4 DEF Start
<1>6. ASSUME NEW r \in Runs, Quit(r) \/ Retired(r) \/ Ends(r)
      PROVE  KeyedTypeOK'
  <2>1. CASE Quit(r)
    BY <2>1 DEF Quit
  <2>2. CASE Retired(r)
    BY <2>2 DEF Retired, Forgetters
  <2>3. CASE Ends(r)
    BY <2>3 DEF Ends
  <2> QED
    BY <1>6, <2>1, <2>2, <2>3
<1>7. ASSUME NEW t \in Forgetters, Forgetting(t)
      PROVE  KeyedTypeOK'
  BY <1>7 DEF Forgetting, Retain, Drop
<1>8. CASE UNCHANGED keyedVars
  BY <1>8 DEF keyedVars
<1> QED
  BY <1>1, <1>2, <1>3, <1>4, <1>5, <1>6, <1>7, <1>8
  DEF KeyedNext, Subscribing, Retiring, Forgetters

(* What the forgetting threads do touches no surface and no producer.      *)
LEMMA ForgettingNext ==
  ASSUME KeyedInv, UNCHANGED <<claims, subs, spc, alive, sentry, rentry>>,
         \A r \in Runs : rpc[r] = "serving" => rpc'[r] = "serving"
  PROVE  FoundEntry' /\ ClaimServed' /\ FiledAt' /\ Served'
BY DEF KeyedInv, FoundEntry, ClaimServed, FiledAt, Served, Serving

(* One subscription moves.                                                 *)
LEMMA SubscribingNext ==
  ASSUME KeyedInv, NEW s \in Surfaces, Subscribe(s) \/ Lookup(s) \/ Close(s)
  PROVE  FoundEntry' /\ ClaimServed' /\ FiledAt' /\ Served'
<1> USE DEF KeyedInv, KeyedTypeOK
<1>1. UNCHANGED <<claims, subs, rpc, rentry>>
  BY DEF Subscribe, Lookup, Close
<1>2. ClaimServed' /\ Serving' = Serving
  BY <1>1 DEF ClaimServed, Serving
<1>3. CASE Subscribe(s)
  BY <1>1, <1>2, <1>3 DEF Subscribe, FoundEntry, FiledAt, Served
<1>4. CASE Lookup(s)
  <2>1. sentry' = [sentry EXCEPT ![s] = entry'] /\ spc' = [spc EXCEPT ![s] = "push"]
        /\ entry' \in Entries /\ alive' = alive
    BY <1>4 DEF Lookup
  <2> QED
    BY <1>1, <1>2, <2>1 DEF FoundEntry, FiledAt, Served
<1>5. CASE Close(s)
  BY <1>1, <1>2, <1>5 DEF Close, FoundEntry, FiledAt, Served
<1> QED
  BY <1>3, <1>4, <1>5

LEMMA AttachNext ==
  ASSUME KeyedInv, NEW s \in Surfaces, Attach(s)
  PROVE  FoundEntry' /\ ClaimServed' /\ FiledAt' /\ Served'
<1> USE DEF KeyedInv, KeyedTypeOK
<1>1. UNCHANGED <<claims, alive, sentry, rpc, rentry>> /\ spc[s] = "push"
      /\ sentry[s] \in Entries /\ s \in DOMAIN spc /\ sentry[s] \in DOMAIN subs
  BY DEF Attach, FoundEntry
<1>2. ClaimServed' /\ Serving' = Serving
  BY <1>1 DEF ClaimServed, Serving
<1>3. CASE /\ subs' = [subs EXCEPT ![sentry[s]] = @ \cup {s}]
           /\ spc' = [spc EXCEPT ![s] = "start"]
  BY <1>1, <1>2, <1>3 DEF FoundEntry, FiledAt, Served
<1>4. CASE ~alive[s] /\ spc' = [spc EXCEPT ![s] = "on"] /\ subs' = subs
  BY <1>1, <1>2, <1>4 DEF FoundEntry, FiledAt, Served
<1> QED
  BY <1>3, <1>4 DEF Attach

(* Whoever starts finds the claim taken, or takes it and makes a producer. *)
LEMMA StartNext ==
  ASSUME KeyedInv, NEW s \in Surfaces, Start(s)
  PROVE  FoundEntry' /\ ClaimServed' /\ FiledAt' /\ Served'
<1> USE DEF KeyedInv, KeyedTypeOK
<1>1. /\ spc[s] = "start" /\ spc' = [spc EXCEPT ![s] = "on"] /\ sentry[s] \in Entries
      /\ UNCHANGED <<subs, alive, sentry>>
  BY DEF Start, FoundEntry
<1>2. FoundEntry' /\ FiledAt'
  BY <1>1 DEF FoundEntry, FiledAt
<1>3. /\ \A r \in Serving : r \in Serving' /\ rentry'[r] = rentry[r]
      /\ \E r \in Serving' : rentry'[r] = sentry[s]
      /\ \A e \in Entries : claims'[e] => claims[e] \/ e = sentry[s]
  <2>1. CASE claims[sentry[s]] /\ UNCHANGED <<claims, rpc, rentry>>
    BY <1>1, <2>1 DEF ClaimServed, Serving
  <2>2. ASSUME NEW r \in Runs, rpc[r] = "unborn",
               claims' = [claims EXCEPT ![sentry[s]] = TRUE],
               rpc' = [rpc EXCEPT ![r] = "serving"],
               rentry' = [rentry EXCEPT ![r] = sentry[s]]
        PROVE  <1>3!1 /\ <1>3!2 /\ <1>3!3
    BY <1>1, <2>2 DEF Serving
  <2> QED
    BY <2>1, <2>2 DEF Start
<1>4. ClaimServed'
  BY <1>3 DEF ClaimServed
<1>5. Served'
  BY <1>1, <1>3 DEF Served
<1> QED
  BY <1>2, <1>4, <1>5

(* A producer quits only where nobody alive is filed.                      *)
LEMMA QuitNext ==
  ASSUME KeyedInv, NEW r \in Runs, Quit(r)
  PROVE  FoundEntry' /\ ClaimServed' /\ FiledAt' /\ Served'
<1> USE DEF KeyedInv, KeyedTypeOK
<1> DEFINE e == rentry[r]
<1>1. /\ e \in Entries /\ UNCHANGED <<spc, alive, sentry, rentry>>
      /\ subs' = [subs EXCEPT ![e] = {}] /\ claims' = [claims EXCEPT ![e] = FALSE]
      /\ rpc' = [rpc EXCEPT ![r] = "retired"] /\ rpc[r] = "serving"
  BY DEF Quit
<1>2. \A s \in Surfaces : spc[s] \in {"start", "on"} /\ alive[s] => sentry[s] # e
  BY DEF Quit, Wanted, FiledAt
<1>3. \A q \in Serving : rentry[q] # e => q \in Serving'
  BY <1>1 DEF Serving
<1> HIDE DEF e
<1>4. FoundEntry'
  BY <1>1 DEF FoundEntry
<1>5. ClaimServed'
  BY <1>1, <1>3 DEF ClaimServed
<1>6. FiledAt'
  BY <1>1, <1>2 DEF FiledAt, FoundEntry
<1>7. Served'
  BY <1>1, <1>2, <1>3 DEF Served
<1> QED
  BY <1>4, <1>5, <1>6, <1>7

LEMMA KeyedNextKeeps ==
  ASSUME KeyedInv, [KeyedNext]_keyedVars
  PROVE  KeyedInv'
<1>1. KeyedTypeOK'
  BY KeyedTypeNext DEF KeyedInv
<1>2. ASSUME NEW named \in BOOLEAN, Declare(named)
      PROVE  FoundEntry' /\ ClaimServed' /\ FiledAt' /\ Served'
  BY <1>2, ForgettingNext DEF Declare
<1>3. ASSUME NEW r \in Runs, Retired(r) \/ Ends(r)
      PROVE  FoundEntry' /\ ClaimServed' /\ FiledAt' /\ Served'
  <2>1. UNCHANGED <<claims, subs, spc, alive, sentry, rentry>>
    BY <1>3 DEF Retired, Ends
  <2>2. \A q \in Runs : rpc[q] = "serving" => rpc'[q] = "serving"
    BY <1>3 DEF Retired, Ends, KeyedInv, KeyedTypeOK
  <2> QED
    BY <2>1, <2>2, ForgettingNext
<1>4. ASSUME NEW t \in Forgetters, Forgetting(t)
      PROVE  FoundEntry' /\ ClaimServed' /\ FiledAt' /\ Served'
  BY <1>4, ForgettingNext DEF Forgetting, Retain, Drop
<1>5. ASSUME UNCHANGED keyedVars
      PROVE  FoundEntry' /\ ClaimServed' /\ FiledAt' /\ Served'
  BY <1>5, ForgettingNext DEF keyedVars
<1>6. FoundEntry' /\ ClaimServed' /\ FiledAt' /\ Served'
  <2>1. ASSUME NEW s \in Surfaces, Subscribe(s) \/ Subscribing(s) \/ Close(s)
        PROVE  FoundEntry' /\ ClaimServed' /\ FiledAt' /\ Served'
    BY <2>1, SubscribingNext, AttachNext, StartNext DEF Subscribing
  <2>2. ASSUME NEW r \in Runs, Retiring(r)
        PROVE  FoundEntry' /\ ClaimServed' /\ FiledAt' /\ Served'
    BY <2>2, <1>3, <1>4, QuitNext DEF Retiring, Forgetters
  <2>3. Loop \in Forgetters
    BY DEF Forgetters
  <2>4. CASE \E named \in BOOLEAN : Declare(named)
    BY <2>4, <1>2
  <2>5. CASE Forgetting(Loop)
    BY <2>3, <2>5, <1>4
  <2> QED
    BY <2>1, <2>2, <2>4, <2>5, <1>5 DEF KeyedNext
<1> QED
  BY <1>1, <1>6 DEF KeyedInv

LEMMA KeyedStarts == KeyedInit => KeyedInv
<1> SUFFICES ASSUME KeyedInit PROVE KeyedInv
  OBVIOUS
<1>1. KeyedTypeOK
  <2>1. layouts \in 0 .. MaxLayouts
    BY KeyedAssumption DEF KeyedInit
  <2>2. /\ claims \in [Entries -> BOOLEAN] /\ subs \in [Entries -> SUBSET Surfaces]
        /\ spc \in [Surfaces -> {"off", "lookup", "push", "start", "on"}]
        /\ alive \in [Surfaces -> BOOLEAN] /\ sentry \in [Surfaces -> Entries \cup {None}]
        /\ rpc \in [Runs -> {"unborn", "serving", "retired", "forgets", "gone"}]
        /\ rentry \in [Runs -> Entries \cup {None}]
        /\ fpc \in [Forgetters -> {"idle", "keep", "drop"}]
    BY DEF KeyedInit
  <2> QED
    BY <2>1, <2>2 DEF KeyedInit, KeyedTypeOK
<1>2. FoundEntry /\ FiledAt /\ Served
  BY DEF KeyedInit, FoundEntry, FiledAt, Served
<1>3. ClaimServed
  BY DEF KeyedInit, ClaimServed
<1> QED
  BY <1>1, <1>2, <1>3 DEF KeyedInv

(* However often the key is forgotten and filed again, a surface that      *)
(* subscribed and is still there is served by a producer of the entry it   *)
(* looked up (broadcast.rs, Keyed::subscribe).                             *)
THEOREM ServedAlways == KeyedSpec => []Served
<1>1. KeyedInv => Served
  BY DEF KeyedInv
<1> QED
  BY <1>1, KeyedStarts, KeyedNextKeeps, PTL DEF KeyedSpec

-----------------------------------------------------------------------------
(* What stopping a command promises, whatever it does and prints: nothing   *)
(* is killed under a number that is no longer the command's, nothing of its *)
(* group outlives a run, and its owner hears of the end last and of nothing *)
(* once it has stopped it.                                                  *)
(* The leader is collected on the way to the end, and by nobody else.      *)
Collected ==
  /\ reaped => procs \cap Members = {}
  /\ reaped <=> place \in {"end", "ending", "done"}

(* A place only a listener's thread comes to, or only a run's.             *)
OwnPlaces ==
  /\ kind = "listen" => place # "drop"
  /\ kind = "run" => place \notin {"telling", "refused", "resting", "end", "ending"} /\ owner = "has"

(* Nobody who has begun to stop a command is inside its callback.          *)
Silenced ==
  /\ owner # "has" => stopped
  /\ stopped => place \notin {"telling", "resting", "ending"}

(* The end is told last, on the way out.                                   *)
EndTold ==
  /\ \A i \in DOMAIN told : told[i] = "end" => i = Len(told) /\ place = "done"
  /\ place = "done" /\ kind = "listen" /\ ~stopped => told # <<>> /\ told[Len(told)] = "end"

ProcessInv == ProcessTypeOK /\ KillsOwn /\ Collected /\ OwnPlaces /\ Silenced /\ EndTold

-----------------------------------------------------------------------------
(* A kill of the group while its leader is not collected.                  *)
LEMMA KillReaches ==
  ASSUME ~reaped, KillsOwn, holding \subseteq procs, KillGroup
  PROVE  procs' = procs \ Members /\ holding' \subseteq procs' /\ KillsOwn' /\ pipe' = pipe /\ printed' = printed
BY DEF KillGroup, KillsOwn

(* Kill, collected or not, takes only processes away.                      *)
LEMMA KillTakes ==
  ASSUME ProcessInv, Kill
  PROVE  procs' \subseteq procs /\ holding' \subseteq procs' /\ KillsOwn' /\ pipe' = pipe /\ printed' = printed
<1>1. CASE reaped
  BY <1>1 DEF Kill, commandVars, ProcessInv, ProcessTypeOK, KillsOwn
<1>2. CASE ~reaped
  BY <1>2, KillReaches DEF Kill, ProcessInv, ProcessTypeOK
<1> QED
  BY <1>1, <1>2

(* One more line, or the end, told.                                        *)
LEMMA Told ==
  ASSUME NEW s \in Seq({"line", "end"}), NEW e \in {"line", "end"}
  PROVE  /\ Append(s, e) \in Seq({"line", "end"}) /\ Append(s, e) # <<>>
         /\ Len(Append(s, e)) = Len(s) + 1 /\ Append(s, e)[Len(Append(s, e))] = e
         /\ \A i \in DOMAIN Append(s, e) : i = Len(s) + 1 \/ (i \in DOMAIN s /\ Append(s, e)[i] = s[i])
OBVIOUS

LEMMA LineTold ==
  ASSUME NEW s \in Seq({"line", "end"}), \A i \in DOMAIN s : s[i] # "end"
  PROVE  Append(s, "line") \in Seq({"line", "end"}) /\ \A i \in DOMAIN Append(s, "line") : Append(s, "line")[i] # "end"
<1> QED
  BY Told

(* What the command does leaves the threads alone.                         *)
LEMMA CommandKeeps ==
  ASSUME ProcessInv, Command
  PROVE  ProcessInv'
<1> USE DEF Members
<1> DEFINE WorldOK == /\ pipe' \in Seq(Chunks) /\ printed' \in 0 .. MaxPrints
                      /\ procs' \subseteq Members \cup {"stray"} /\ holding' \subseteq procs'
                      /\ reaped => procs' \cap Members = {}
<1>1. WorldOK
  <2>1. CASE Prints
    <3>1. printed \in 0 .. MaxPrints /\ pipe \in Seq(Chunks)
      BY DEF ProcessInv, ProcessTypeOK
    <3>2. printed' = printed + 1 /\ printed < MaxPrints
      BY <2>1 DEF Prints
    <3>3. printed' \in 0 .. MaxPrints
      BY <3>1, <3>2, ProcessAssumption
    <3>4. \E c \in Chunks : pipe' = Append(pipe, c) \/ pipe' = pipe
      BY <2>1 DEF Prints
    <3>5. pipe' \in Seq(Chunks)
      BY <3>1, <3>4
    <3> QED
      BY <2>1, <3>3, <3>5 DEF Prints, ProcessInv, ProcessTypeOK, Collected
  <2>2. ASSUME NEW p \in {"child", "stray"}, Forks(p)
        PROVE  WorldOK
    BY <2>2 DEF Forks, ProcessInv, ProcessTypeOK, Collected
  <2>3. ASSUME NEW p \in procs, Exits(p) \/ ClosesPipes(p)
        PROVE  WorldOK
    BY <2>3 DEF Exits, ClosesPipes, ProcessInv, ProcessTypeOK, Collected
  <2> QED
    BY <2>1, <2>2, <2>3 DEF Command
<1> QED
  BY <1>1 DEF Command, ProcessInv, ProcessTypeOK, KillsOwn, Collected, OwnPlaces, Silenced, EndTold

(* The reading thread.                                                     *)
LEMMA ReadsKeep ==
  ASSUME ProcessInv, Reads
  PROVE  ProcessInv'
<1> USE DEF Members, Goes
<1>0. UNCHANGED <<kind, overdue, stopped, owner>> /\ ProcessTypeOK
  BY DEF Reads, ProcessInv
<1>1. CASE ReadsRun
  <2>1. pipe' \in Seq(Chunks)
    BY <1>1, <1>0 DEF ReadsRun, ProcessTypeOK
  <2> QED
    BY <1>1, <1>0, <2>1 DEF ReadsRun, ProcessInv, ProcessTypeOK, KillsOwn, Collected, OwnPlaces, Silenced, EndTold
<1>2. CASE Locks
  <2>a. pipe \in Seq(Chunks) /\ pipe # <<>> /\ pipe' \in {pipe, Tail(pipe)}
    BY <1>2, <1>0 DEF Locks, ProcessTypeOK
  <2>1. pipe' \in Seq(Chunks)
    BY <2>a
  <2> QED
    BY <1>2, <1>0, <2>1 DEF Locks, ProcessInv, ProcessTypeOK, KillsOwn, Collected, OwnPlaces, Silenced, EndTold
<1>3. CASE Tells
  <2>1. told' \in {told, Append(told, "line")}
    BY <1>3 DEF Tells
  <2>2. pipe' = <<>> \/ pipe' \in Seq(Chunks)
    BY <1>3, <1>0 DEF Tells, ProcessTypeOK
  <2>a. told \in Seq({"line", "end"}) /\ \A i \in DOMAIN told : told[i] # "end"
    BY <1>3 DEF ProcessInv, EndTold, ProcessTypeOK, Tells
  <2>3. told' \in Seq({"line", "end"}) /\ \A i \in DOMAIN told' : told'[i] # "end"
    BY <2>1, <2>a, LineTold
  <2>4. place = "telling" /\ place' \in {"refused", "drain"} /\ UNCHANGED <<procs, holding, printed, grace, outcome, reaped, hit>>
    BY <1>3 DEF Tells
  <2>5. ProcessTypeOK'
    <3>1. <<>> \in Seq(Chunks)
      OBVIOUS
    <3>2. pipe' \in Seq(Chunks)
      BY <2>2, <3>1
    <3> QED
      BY <1>0, <2>3, <2>4, <3>2 DEF ProcessTypeOK
  <2>6. KillsOwn' /\ Collected' /\ OwnPlaces' /\ Silenced'
    BY <1>0, <2>4 DEF ProcessInv, KillsOwn, Collected, OwnPlaces, Silenced
  <2>7. EndTold'
    BY <2>3, <2>4 DEF EndTold
  <2> QED
    BY <2>5, <2>6, <2>7 DEF ProcessInv
<1>4. ASSUME told' = told, UNCHANGED <<commandVars, reaped, hit>>, place \in {"drain", "drained", "end"},
             place' \in {"drain", "drained", "wait", "drop", "resting", "ending", "done"},
             grace' \in BOOLEAN, outcome' \in {"none", "exited", "overlong", "overran"},
             place' \in {"ending", "done"} <=> place = "end",
             place' = "drop" => kind = "run", place' = "resting" => kind = "listen",
             stopped => place' \notin {"resting", "ending"},
             place' = "done" => stopped
      PROVE  ProcessInv'
  BY <1>4, <1>0 DEF commandVars, ProcessInv, ProcessTypeOK, KillsOwn, Collected, OwnPlaces, Silenced, EndTold
<1>a. CASE SeesExit
  BY <1>a, <1>0, <1>4 DEF SeesExit, ProcessTypeOK
<1>b. CASE Drained
  BY <1>b, <1>0, <1>4 DEF Drained, ProcessTypeOK
<1>c. CASE TimesOut
  BY <1>c, <1>0, <1>4 DEF TimesOut, ProcessTypeOK
<1>5. CASE Refuses
  <2>1. procs' \subseteq procs /\ holding' \subseteq procs' /\ KillsOwn' /\ pipe' = pipe /\ printed' = printed
    BY <1>5, <1>0, KillTakes DEF Refuses, commandVars, ProcessTypeOK, ProcessInv, KillsOwn
  <2>2. hit' \in BOOLEAN
    BY <1>5, <1>0 DEF Refuses, Kill, KillGroup, commandVars, ProcessTypeOK
  <2> QED
    BY <1>5, <1>0, <2>1, <2>2 DEF Refuses, ProcessInv, ProcessTypeOK, Collected, OwnPlaces, Silenced, EndTold
<1>d. CASE LocksRest
  BY <1>d, <1>0, <1>4 DEF LocksRest, ProcessTypeOK
<1>e. CASE Awaits
  BY <1>e, <1>0, <1>4 DEF Awaits, ProcessTypeOK
<1>f. CASE LocksEnd
  BY <1>f, <1>0, <1>4 DEF LocksEnd, ProcessTypeOK
<1>7. CASE TellsRest
  <2>a. told \in Seq({"line", "end"}) /\ (\A i \in DOMAIN told : told[i] # "end") /\ told' \in {told, Append(told, "line")}
    BY <1>7 DEF ProcessInv, EndTold, ProcessTypeOK, TellsRest
  <2>1. told' \in Seq({"line", "end"}) /\ \A i \in DOMAIN told' : told'[i] # "end"
    BY <2>a, LineTold
  <2> QED
    BY <1>7, <1>0, <2>1 DEF TellsRest, commandVars, ProcessInv, ProcessTypeOK, KillsOwn, Collected, OwnPlaces, Silenced, EndTold
<1>8. CASE Waits \/ Drops
  <2>1. ~reaped /\ KillGroup /\ reaped' = TRUE /\ told' = told /\ grace' = grace
    BY <1>8 DEF Waits, Drops, Collect, ProcessInv, Collected
  <2>2. procs' = procs \ Members /\ holding' \subseteq procs' /\ KillsOwn' /\ pipe' = pipe /\ printed' = printed
    BY <2>1, <1>0, KillReaches DEF ProcessInv, ProcessTypeOK
  <2>3. hit' \in BOOLEAN
    BY <2>1, <1>0 DEF KillGroup, ProcessTypeOK
  <2> QED
    BY <1>8, <1>0, <2>1, <2>2, <2>3 DEF Waits, Drops, ProcessInv, ProcessTypeOK, Collected, OwnPlaces, Silenced, EndTold
<1>9. CASE TellsEnd
  <2>1. told' \in Seq({"line", "end"}) /\ told' # <<>> /\ told'[Len(told')] = "end"
        /\ \A i \in DOMAIN told' : told'[i] = "end" => i = Len(told')
    BY <1>9, <1>0, Told DEF ProcessInv, EndTold, ProcessTypeOK, TellsEnd
  <2> QED
    BY <1>9, <1>0, <2>1 DEF TellsEnd, commandVars, ProcessInv, ProcessTypeOK, KillsOwn, Collected, OwnPlaces, Silenced, EndTold
<1> QED
  BY <1>1, <1>2, <1>3, <1>a, <1>b, <1>c, <1>5, <1>d, <1>e, <1>f, <1>7, <1>8, <1>9 DEF Reads

(* The clock, and the owner's thread.                                      *)
LEMMA OthersKeep ==
  ASSUME ProcessInv, DeadlinePasses \/ Stops \/ StopKills \/ UNCHANGED processVars
  PROVE  ProcessInv'
<1> USE DEF commandVars, ProcessInv, ProcessTypeOK, KillsOwn, Collected, OwnPlaces, Silenced, EndTold
<1>1. CASE DeadlinePasses
  BY <1>1 DEF DeadlinePasses
<1>3. CASE Stops
  BY <1>3 DEF Stops, MayStop
<1>4. CASE UNCHANGED processVars
  BY <1>4 DEF processVars
<1>2. CASE StopKills
  <2>1. procs' \subseteq procs /\ holding' \subseteq procs' /\ KillsOwn' /\ pipe' = pipe /\ printed' = printed
    BY <1>2, KillTakes DEF StopKills
  <2>2. hit' \in BOOLEAN
    BY <1>2 DEF StopKills, Kill, KillGroup
  <2> QED
    BY <1>2, <2>1, <2>2 DEF StopKills
<1> QED
  BY <1>1, <1>2, <1>3, <1>4

LEMMA ProcessStarts == ProcessInit => ProcessInv
<1> SUFFICES ASSUME ProcessInit
             PROVE  ProcessInv
  OBVIOUS
<1>1. ProcessTypeOK
  <2>1. pipe \in Seq(Chunks) /\ told \in Seq({"line", "end"}) /\ printed \in 0 .. MaxPrints
    BY ProcessAssumption DEF ProcessInit
  <2> QED
    BY <2>1 DEF ProcessInit, ProcessTypeOK, Members
<1>2. KillsOwn /\ Collected /\ OwnPlaces /\ Silenced
  BY DEF ProcessInit, KillsOwn, Collected, OwnPlaces, Silenced
<1>3. EndTold
  BY DEF ProcessInit, EndTold
<1> QED
  BY <1>1, <1>2, <1>3 DEF ProcessInv

LEMMA ProcessNextKeeps == ProcessInv /\ [ProcessNext]_processVars => ProcessInv'
BY CommandKeeps, ReadsKeep, OthersKeep DEF ProcessNext

(* What holds of a command and its two threads in every state.             *)
THEOREM ProcessInvAlways == ProcessSpec => []ProcessInv
<1> QED
  BY ProcessStarts, ProcessNextKeeps, PTL DEF ProcessSpec

LEMMA ProcessInvContains == ProcessInv => KillsOwn /\ GroupEnds /\ EndsLast
BY DEF ProcessInv, Collected, GroupEnds, EndTold, EndsLast

(* A step that calls the callback is taken by a thread inside it.          *)
LEMMA Silent == ProcessInv /\ [ProcessNext]_processVars => [owner = "left" => told' = told]_processVars
<1> SUFFICES ASSUME ProcessInv, ProcessNext, owner = "left"
             PROVE  told' = told
  BY DEF processVars
<1>1. stopped /\ place \notin {"telling", "resting", "ending"}
  BY DEF ProcessInv, Silenced
<1>2. CASE Reads
  BY <1>1, <1>2 DEF Reads, ReadsRun, Locks, Tells, SeesExit, Drained, TimesOut, Refuses, LocksRest, TellsRest, Awaits, Waits,
                    LocksEnd, TellsEnd, Drops
<1> QED
  BY <1>2 DEF ProcessNext, Command, DeadlinePasses, Stops, StopKills

(* A command is contained (process.rs, Group): no kill goes to a number    *)
(* the system has handed on, what it left in its group goes with it, its   *)
(* listener hears of the end last, and of nothing once a stop returned.    *)
THEOREM ContainedAlways == ProcessSpec => CommandsContained
<1> QED
  BY ProcessInvAlways, ProcessInvContains, ProcessNextKeeps, Silent, PTL DEF ProcessSpec, CommandsContained, StopIsFinal

-----------------------------------------------------------------------------
(* Schedules: a time that comes while the shell is up, awake or asleep, is *)
(* rung for, once. The next moment is a least element of a set of naturals,*)
(* and the day it is on the quotient by the ticks of a day.                *)
LEMMA LeastOfNaturals ==
  ASSUME NEW S \in SUBSET Nat, S # {}
  PROVE  Min(S) \in S /\ \A y \in S : Min(S) <= y
<1>1. PICK m \in S : \A y \in S : ~ (<<y, m>> \in OpToRel(<, Nat))
  BY NatLessThanWellFounded, WFMin
<1>2. \A y \in S : ~(y < m)
  BY <1>1 DEF OpToRel
<1>3. \A y \in S : m <= y
  BY <1>2
<1>4. \E m2 \in S : \A y \in S : m2 <= y
  BY <1>3
<1> QED
  BY <1>4 DEF Min

LEMMA ProductGrows ==
  ASSUME NEW p \in Nat, NEW q \in Nat, NEW w \in Nat, p < q
  PROVE  p * w + w <= q * w
<1>1. PICK k \in Nat : q = p + 1 + k
  <2>1. q - p - 1 \in Nat /\ q = p + 1 + (q - p - 1)
    OBVIOUS
  <2> QED
    BY <2>1
<1>2. (p + 1 + k) * w = p * w + w + k * w
  OBVIOUS
<1>3. k * w \in Nat /\ p * w \in Nat /\ q * w \in Nat
  OBVIOUS
<1> QED
  BY <1>1, <1>2, <1>3

(* A moment is a day, and a time of that day.                              *)
LEMMA DivisionOf ==
  ASSUME NEW t \in Nat, NEW w \in Nat, w > 0
  PROVE  /\ t \div w \in Nat /\ t % w \in Nat /\ t % w < w
         /\ (t \div w) * w <= t /\ t < (t \div w) * w + w
         /\ (t \div w) * w + (t % w) = t
<1>1. t % w \in 0 .. w - 1
  OBVIOUS
<1>2. t \div w \in Int /\ t \div w >= 0
  OBVIOUS
<1>3. (t \div w) * w <= t
  OBVIOUS
<1>4. t < (t \div w) * w + w
  OBVIOUS
<1>5. (t \div w) * w + (t % w) = t
  OBVIOUS
<1> QED
  BY <1>1, <1>2, <1>3, <1>4, <1>5

LEMMA DivisionIs ==
  ASSUME NEW q \in Nat, NEW r \in Nat, NEW w \in Nat, r < w
  PROVE  (q * w + r) \div w = q /\ (q * w + r) % w = r
<1>1. ASSUME NEW t \in Nat, t = q * w + r
      PROVE  t \div w = q /\ t % w = r
  <2>1. w > 0 /\ q * w \in Nat
    OBVIOUS
  <2>2. /\ t \div w \in Nat /\ t % w \in Nat
        /\ (t \div w) * w <= t /\ t < (t \div w) * w + w
        /\ (t \div w) * w + (t % w) = t
    BY <2>1, DivisionOf
  <2>3. PICK k \in Nat : k = t \div w
    BY <2>2
  <2>4. k < q => k * w + w <= q * w
    BY ProductGrows
  <2>5. q < k => q * w + w <= k * w
    BY ProductGrows
  <2>6. k * w \in Nat /\ k * w <= t /\ t < k * w + w /\ k * w + (t % w) = t
    BY <2>2, <2>3
  <2>7. \A a, b \in Nat : (k < q => a + w <= b) /\ (q < k => b + w <= a)
           /\ a <= b + r /\ b + r < a + w => k = q
    OBVIOUS
  <2>8. k = q
    BY <1>1, <2>1, <2>4, <2>5, <2>6, <2>7
  <2>9. t % w = r
    BY <1>1, <2>1, <2>2, <2>6, <2>8
  <2> QED
    BY <2>3, <2>8, <2>9
<1>2. q * w + r \in Nat
  OBVIOUS
<1> QED
  BY <1>1, <1>2


LEMMA ScheduleData ==
  ASSUME times \in TimeLists, days \in DayLists
  PROVE  /\ DayTicks \in Nat /\ DayTicks > 0 /\ Week \in Nat /\ Week > 0
         /\ times # {} /\ \A a \in times : a \in Nat /\ a < DayTicks
         /\ days # {} /\ \A d \in days : d \in Nat /\ d < Week
<1>1. DayTicks \in Nat /\ DayTicks > 0 /\ Week \in Nat /\ Week > 0
  BY ScheduleAssumption
<1>2. times # {} /\ times \subseteq 0 .. DayTicks - 1
  BY ScheduleAssumption
<1>3. days # {} /\ days \subseteq 0 .. Week - 1
  BY ScheduleAssumption
<1> QED
  BY <1>1, <1>2, <1>3

(* A day of the week comes within the week.                                *)
LEMMA DayComes ==
  ASSUME NEW today \in Nat, NEW d \in Nat, NEW w \in Nat, d < w
  PROVE  \E k \in 1 .. w : (today + k) % w = d
<1> DEFINE q == today \div w
           r == today % w
<1>1. w > 0
  OBVIOUS
<1>2. q \in Nat /\ r \in Nat /\ r < w /\ q * w + r = today
  BY <1>1, DivisionOf
<1>3. q * w \in Nat /\ (q + 1) * w = q * w + w
  BY <1>2
<1>4. CASE r < d
  <2>1. d - r \in 1 .. w /\ today + (d - r) = q * w + d
    BY <1>2, <1>3, <1>4
  <2>2. (q * w + d) % w = d
    BY <1>2, DivisionIs
  <2> QED
    BY <2>1, <2>2
<1>5. CASE d <= r
  <2>1. w + d - r \in 1 .. w /\ today + (w + d - r) = (q + 1) * w + d
    BY <1>2, <1>3, <1>5
  <2>2. q + 1 \in Nat
    BY <1>2
  <2>3. ((q + 1) * w + d) % w = d
    BY <2>2, DivisionIs
  <2> QED
    BY <2>1, <2>3
<1> QED
  BY <1>2, <1>4, <1>5

(* next_after: a time the schedule names, still ahead, and the first.      *)
LEMMA NextAfterFirst ==
  ASSUME times \in TimeLists, days \in DayLists, NEW now \in Nat
  PROVE  /\ NextAfter(now) \in Nat /\ NextAfter(now) > now /\ Names(NextAfter(now))
         /\ \A t \in Nat : now < t /\ t < NextAfter(now) => ~Names(t)
<1> DEFINE today == now \div DayTicks
           ahead == {k \in 0 .. Week : (today + k) % Week \in days
                                         /\ Later(today + k, now) # {}}
           m == Min(ahead)
           past == Later(today + m, now)
           n == Min(past)
<1>1. /\ DayTicks \in Nat /\ DayTicks > 0 /\ Week \in Nat /\ Week > 0
      /\ times # {} /\ \A a \in times : a \in Nat /\ a < DayTicks
      /\ days # {} /\ \A d \in days : d \in Nat /\ d < Week
  BY ScheduleData
<1>2. /\ today \in Nat /\ today * DayTicks <= now /\ now < today * DayTicks + DayTicks
      /\ today * DayTicks \in Nat
  BY <1>1, DivisionOf
<1>3. \A k \in Nat : Later(today + k, now) \in SUBSET Nat
  <2> SUFFICES ASSUME NEW k \in Nat
               PROVE  Later(today + k, now) \in SUBSET Nat
    OBVIOUS
  <2>1. (today + k) * DayTicks \in Nat
    BY <1>1, <1>2
  <2>2. \A a \in times : (today + k) * DayTicks + a \in Nat
    BY <1>1, <2>1
  <2> HIDE DEF today
  <2> QED
    BY <2>2 DEF Later
<1>4. ahead # {}
  <2>1. PICK d \in days : d \in Nat /\ d < Week
    BY <1>1
  <2>2. PICK k \in 1 .. Week : (today + k) % Week = d
    BY <1>1, <1>2, <2>1, DayComes
  <2>3. PICK a \in times : a \in Nat
    BY <1>1
  <2>4. (today + k) * DayTicks + a > now
    <3>1. today < today + k /\ today + k \in Nat
      BY <1>2
    <3>2. today * DayTicks + DayTicks <= (today + k) * DayTicks
      BY <1>1, <1>2, <3>1, ProductGrows
    <3>3. (today + k) * DayTicks \in Nat
      BY <1>1, <3>1
    <3> HIDE DEF today
    <3> QED
      BY <1>1, <1>2, <2>3, <3>2, <3>3
  <2>5. (today + k) * DayTicks + a \in Later(today + k, now)
    <3> HIDE DEF today
    <3> QED
      BY <2>3, <2>4 DEF Later
  <2>6. k \in ahead
    <3> HIDE DEF today
    <3> QED
      BY <2>1, <2>2, <2>5
  <2> QED
    BY <2>6
<1>5. m \in ahead /\ \A k \in ahead : m <= k
  <2>1. ahead \in SUBSET Nat
    BY <1>1
  <2> HIDE DEF ahead
  <2> QED
    BY <1>4, <2>1, LeastOfNaturals
<1>6. m \in 0 .. Week /\ m \in Nat /\ (today + m) % Week \in days /\ past # {}
  <2> HIDE DEF today, m
  <2> QED
    BY <1>1, <1>5
<1>7. n \in past /\ n \in Nat /\ \A t \in past : n <= t
  <2>1. past \in SUBSET Nat
    BY <1>3, <1>6
  <2> HIDE DEF past
  <2> QED
    BY <1>6, <2>1, LeastOfNaturals
<1>8. PICK a \in times : n = (today + m) * DayTicks + a /\ n > now
  <2> HIDE DEF today, m, n
  <2> QED
    BY <1>7 DEF Later
<1>9. today + m \in Nat /\ a \in Nat /\ a < DayTicks
  BY <1>1, <1>2, <1>6
<1>10. n \div DayTicks = today + m /\ n % DayTicks = a
  <2> HIDE DEF today, m, n
  <2> QED
    BY <1>1, <1>8, <1>9, DivisionIs
<1>11. Names(n)
  <2> HIDE DEF today, m, n
  <2> QED
    BY <1>6, <1>8, <1>10 DEF Names
<1>12. ASSUME NEW t \in Nat, now < t, t < n, Names(t)
       PROVE  FALSE
  <2>1. PICK q, r \in Nat : q = t \div DayTicks /\ r = t % DayTicks
    BY <1>1, DivisionOf
  <2>2. /\ r < DayTicks /\ q * DayTicks <= t /\ t < q * DayTicks + DayTicks
        /\ q * DayTicks + r = t /\ r \in times /\ q % Week \in days
    BY <1>1, <1>12, <2>1, DivisionOf DEF Names
  <2>3. q * DayTicks \in Nat
    BY <1>1
  <2>4. today <= q
    <3>1. q < today => q * DayTicks + DayTicks <= today * DayTicks
      BY <1>1, <1>2, ProductGrows
    <3> HIDE DEF today
    <3> QED
      BY <1>1, <1>2, <1>12, <2>2, <2>3, <3>1
  <2>5. q <= today + m
    <3>1. today + m < q => (today + m) * DayTicks + DayTicks <= q * DayTicks
      BY <1>1, <1>9, ProductGrows
    <3>2. (today + m) * DayTicks \in Nat
      BY <1>1, <1>9
    <3> HIDE DEF today, m, n
    <3> QED
      BY <1>1, <1>2, <1>6, <1>8, <1>9, <1>12, <2>2, <2>3, <3>1, <3>2
  <2>6. PICK k \in 0 .. Week : q = today + k /\ k <= m
    <3>1. q - today \in 0 .. Week /\ q = today + (q - today) /\ q - today <= m
      <4> HIDE DEF today, m
      <4> QED
        BY <1>1, <1>2, <1>6, <2>4, <2>5
    <3> QED
      BY <3>1
  <2>7. t \in Later(today + k, now)
    <3>1. t = (today + k) * DayTicks + r
      BY <2>2, <2>6
    <3> HIDE DEF today
    <3> QED
      BY <1>12, <2>2, <3>1 DEF Later
  <2>8. k \in ahead
    <3>1. (today + k) % Week \in days
      BY <2>2, <2>6
    <3>2. Later(today + k, now) # {}
      BY <2>7
    <3> HIDE DEF today
    <3> QED
      BY <3>1, <3>2
  <2>9. k = m
    <3> HIDE DEF ahead, m
    <3> QED
      BY <1>5, <1>6, <2>6, <2>8
  <2>10. n <= t
    <3> HIDE DEF n, m
    <3> QED
      BY <1>7, <2>7, <2>9
  <2> HIDE DEF n
  <2> QED
    BY <1>7, <1>12, <2>10
<1>13. NextAfter(now) = n
  BY DEF NextAfter
<1> HIDE DEF n
<1> QED
  BY <1>7, <1>8, <1>11, <1>12, <1>13

(* What rang is over.                                                      *)
RungBefore == \A t \in rung : t < next

ScheduleInv == ScheduleTypeOK /\ WaitsForTheFirst /\ NoneMissed /\ RungBefore

LEMMA ScheduleStarts == ScheduleInit => ScheduleInv
<1> SUFFICES ASSUME ScheduleInit
             PROVE  ScheduleInv
  OBVIOUS
<1>1. /\ times \in TimeLists /\ days \in DayLists /\ clock \in 0 .. DayTicks - 1
      /\ next = NextAfter(clock) /\ rung = {} /\ steady = clock /\ back = 0
  BY DEF ScheduleInit
<1>2. clock \in Nat /\ clock \in 0 .. End /\ back \in 0 .. MaxBack
  BY <1>1, ScheduleAssumption
<1>3. /\ next \in Nat /\ next > clock /\ Names(next)
      /\ \A t \in Nat : clock < t /\ t < next => ~Names(t)
  BY <1>1, <1>2, NextAfterFirst
<1>4. ScheduleTypeOK
  BY <1>1, <1>2, <1>3 DEF ScheduleTypeOK
<1>5. WaitsForTheFirst
  BY <1>2, <1>3 DEF WaitsForTheFirst
<1>6. NoneMissed /\ RungBefore
  BY <1>1, <1>2 DEF NoneMissed, RungBefore
<1> QED
  BY <1>4, <1>5, <1>6 DEF ScheduleInv

(* A look at the clock, forwards or back.                                  *)
LEMMA LookKeeps ==
  ASSUME ScheduleInv, NEW now \in 0 .. End, Look(now), UNCHANGED <<times, days>>,
         back' \in 0 .. MaxBack, now <= clock => back' # 0, back' = 0 => back = 0
  PROVE  /\ times' \in TimeLists /\ days' \in DayLists /\ clock' \in 0 .. End /\ clock' = now
         /\ next' \in Int /\ rung' \subseteq 0 .. End
         /\ WaitsForTheFirst' /\ RungBefore'
         /\ \A t \in rung' : Names(t)'
<1>1. /\ times \in TimeLists /\ days \in DayLists /\ clock \in 0 .. End /\ next \in Int
      /\ rung \subseteq 0 .. End /\ End \in Nat
      /\ Names(next) /\ next > clock /\ back \in 0 .. MaxBack /\ MaxBack \in Nat
      /\ \A t \in rung : Names(t) /\ t < next
  BY ScheduleAssumption DEF ScheduleInv, ScheduleTypeOK, WaitsForTheFirst, NoneMissed, RungBefore
<1>2. /\ clock' = now /\ times' = times /\ days' = days
      /\ next' = IF now >= next THEN NextAfter(now) ELSE next
      /\ rung' = IF Rings(now) THEN rung \cup {next} ELSE rung
  BY DEF Look
<1>3. now \in Nat /\ next \in Nat
  BY <1>1
<1>4. \A t : Names(t)' <=> Names(t)
  BY <1>2 DEF Names
<1>5. Rings(now) => now >= next
  BY DEF Rings
<1>6. CASE now >= next
  <2>1. /\ next' \in Nat /\ next' > now /\ Names(next')
        /\ \A t \in Nat : now < t /\ t < next' => ~Names(t)
    BY <1>1, <1>2, <1>3, <1>6, NextAfterFirst
  <2>2. rung' \subseteq rung \cup {next}
    BY <1>2
  <2>3. \A t \in rung' : t \in 0 .. End /\ Names(t) /\ t < next'
    BY <1>1, <1>3, <1>6, <2>1, <2>2
  <2>4. WaitsForTheFirst'
    <3>1. Names(next)'
      BY <1>2, <2>1 DEF Names
    <3>2. \A t \in (clock + 1 .. next - 1)' : ~Names(t)'
      BY <1>2, <1>3, <1>4, <2>1
    <3> QED
      BY <1>2, <2>1, <3>1, <3>2 DEF WaitsForTheFirst
  <2> QED
    BY <1>1, <1>2, <1>4, <2>1, <2>3, <2>4 DEF RungBefore
<1>7. CASE now < next
  <2>1. next' = next /\ rung' = rung
    BY <1>1, <1>2, <1>3, <1>5, <1>7
  <2>2. WaitsForTheFirst'
    <3>1. Names(next)' /\ (next > clock)'
      BY <1>1, <1>2, <1>7, <2>1 DEF Names
    <3>2. ASSUME back' = 0
          PROVE  \A t \in (clock + 1 .. next - 1)' : ~Names(t)'
      <4>1. clock < now /\ back = 0
        BY <1>1, <1>3, <3>2
      <4>2. \A t \in clock + 1 .. next - 1 : ~Names(t)
        BY <4>1 DEF ScheduleInv, WaitsForTheFirst
      <4>3. \A t \in now + 1 .. next - 1 : t \in clock + 1 .. next - 1
        BY <1>1, <1>3, <4>1
      <4> QED
        BY <1>2, <1>4, <2>1, <4>2, <4>3
    <3> QED
      BY <3>1, <3>2 DEF WaitsForTheFirst
  <2> QED
    BY <1>1, <1>2, <1>4, <2>1, <2>2 DEF RungBefore
<1> QED
  BY <1>1, <1>3, <1>6, <1>7

LEMMA ScheduleNextKeeps == ScheduleInv /\ [ScheduleNext]_scheduleVars => ScheduleInv'
<1> SUFFICES ASSUME ScheduleInv, [ScheduleNext]_scheduleVars
             PROVE  ScheduleInv'
  OBVIOUS
<1>1. /\ clock \in 0 .. End /\ steady \in 0 .. End /\ back \in 0 .. MaxBack
      /\ End \in Nat /\ MaxBack \in Nat /\ Asleep \in Nat /\ next \in Int
  BY ScheduleAssumption DEF ScheduleInv, ScheduleTypeOK
<1>2. CASE Awake
  <2> DEFINE now == clock + 1
  <2>1. now \in 0 .. End /\ Look(now) /\ UNCHANGED <<times, days, steady, back>>
    BY <1>1, <1>2 DEF Awake
  <2>2. /\ times' \in TimeLists /\ days' \in DayLists /\ clock' \in 0 .. End /\ clock' = now
        /\ next' \in Int /\ rung' \subseteq 0 .. End
        /\ WaitsForTheFirst' /\ RungBefore'
        /\ \A t \in rung' : Names(t)'
    <3>1. ~(now <= clock)
      BY <1>1
    <3>2. back' = back
      BY <2>1
    <3> HIDE DEF now
    <3> QED
      BY <1>1, <2>1, <3>1, <3>2, LookKeeps
  <2>3. \A t : Names(t)' <=> Names(t)
    BY <2>1 DEF Names
  <2>4. ASSUME back' = 0, NEW t \in (steady + 1 .. clock)', Names(t)'
        PROVE  t \in rung'
    <3>1. t \in steady + 1 .. now /\ back = 0 /\ Names(t)
      BY <2>1, <2>2, <2>3, <2>4
    <3>2. rung \subseteq rung'
      BY <2>1 DEF Look
    <3>3. CASE t \in steady + 1 .. clock
      BY <3>1, <3>2, <3>3 DEF ScheduleInv, NoneMissed
    <3>4. CASE t = now
      <4>1. next > clock /\ \A u \in clock + 1 .. next - 1 : ~Names(u)
        BY <3>1 DEF ScheduleInv, WaitsForTheFirst
      <4>2. next = now
        BY <1>1, <3>1, <3>4, <4>1
      <4>3. Rings(now)
        BY <1>1, <4>2, ScheduleAssumption DEF Rings
      <4>4. rung' = rung \cup {next}
        BY <2>1, <4>3 DEF Look
      <4> QED
        BY <3>4, <4>2, <4>4
    <3> QED
      BY <1>1, <3>1, <3>3, <3>4
  <2>5. NoneMissed'
    BY <2>2, <2>4 DEF NoneMissed
  <2>6. ScheduleTypeOK'
    BY <1>1, <2>1, <2>2 DEF ScheduleTypeOK
  <2> QED
    BY <2>2, <2>5, <2>6 DEF ScheduleInv
<1>3. ASSUME NEW now \in 0 .. End, Look(now), steady' = clock', UNCHANGED <<times, days>>,
             back' \in 0 .. MaxBack, now <= clock => back' # 0, back' = 0 => back = 0
      PROVE  ScheduleInv'
  <2>1. /\ times' \in TimeLists /\ days' \in DayLists /\ clock' \in 0 .. End
        /\ next' \in Int /\ rung' \subseteq 0 .. End
        /\ WaitsForTheFirst' /\ RungBefore'
        /\ \A t \in rung' : Names(t)'
    BY <1>3, LookKeeps
  <2>2. (steady + 1 .. clock)' = {}
    <3>1. \A k \in 0 .. End : k + 1 .. k = {}
      BY <1>1
    <3> QED
      BY <1>3, <2>1, <3>1
  <2>3. NoneMissed'
    BY <2>1, <2>2 DEF NoneMissed
  <2>4. ScheduleTypeOK'
    BY <1>3, <2>1 DEF ScheduleTypeOK
  <2> QED
    BY <2>1, <2>3, <2>4 DEF ScheduleInv
<1>4. CASE Sleeps
  <2>1. PICK asleep \in 2 .. Asleep : clock + asleep <= End /\ Look(clock + asleep)
    BY <1>4 DEF Sleeps
  <2>2. clock + asleep \in 0 .. End /\ ~(clock + asleep <= clock)
    BY <1>1, <2>1
  <2>3. UNCHANGED <<times, days, back>> /\ steady' = clock'
    BY <1>4 DEF Sleeps
  <2> QED
    BY <1>1, <1>3, <2>1, <2>2, <2>3
<1>5. CASE SetBack
  <2>1. PICK now \in 0 .. clock - 1 : Look(now)
    BY <1>5 DEF SetBack
  <2>2. now \in 0 .. End
    BY <1>1
  <2>3. back' \in 0 .. MaxBack /\ back' # 0 /\ steady' = clock' /\ UNCHANGED <<times, days>>
    BY <1>1, <1>5 DEF SetBack
  <2> QED
    BY <1>3, <2>1, <2>2, <2>3
<1>6. CASE UNCHANGED scheduleVars
  BY <1>6 DEF ScheduleInv, ScheduleTypeOK, WaitsForTheFirst, NoneMissed, RungBefore, Names,
              scheduleVars
<1> QED
  BY <1>2, <1>4, <1>5, <1>6 DEF ScheduleNext

(* A step rings for a time reached, by no more than the grace, and waits   *)
(* for one that is later than any that rang.                               *)
LEMMA LooksRing ==
  ASSUME ScheduleInv, [ScheduleNext]_scheduleVars
  PROVE  /\ \A t \in rung : next' # next => next' > t
         /\ \A t \in rung' \ rung : t <= clock' /\ clock' - t <= Grace
<1>1. /\ clock \in 0 .. End /\ next \in Int /\ End \in Nat /\ Asleep \in Nat
      /\ times \in TimeLists /\ days \in DayLists
      /\ \A t \in rung : t \in Int /\ t < next
  BY ScheduleAssumption DEF ScheduleInv, ScheduleTypeOK, RungBefore
<1>2. ASSUME NEW now \in Nat, Look(now)
      PROVE  /\ \A t \in rung : next' # next => next' > t
             /\ \A t \in rung' \ rung : t <= clock' /\ clock' - t <= Grace
  <2>1. NextAfter(now) \in Nat /\ NextAfter(now) > now
    BY <1>1, NextAfterFirst
  <2>2. next' # next => next' = NextAfter(now) /\ now >= next
    BY <1>2 DEF Look
  <2>3. \A t \in rung' \ rung : t = next /\ Rings(now) /\ clock' = now
    BY <1>2 DEF Look
  <2>4. \A t \in rung : next' # next => next' > t
    BY <1>1, <2>1, <2>2
  <2>5. \A t \in rung' \ rung : t <= clock' /\ clock' - t <= Grace
    BY <1>1, <2>3 DEF Rings
  <2> QED
    BY <2>4, <2>5
<1>3. CASE Awake
  <2>1. clock + 1 \in Nat /\ Look(clock + 1)
    BY <1>1, <1>3 DEF Awake
  <2> QED
    BY <1>2, <2>1
<1>4. CASE Sleeps
  <2>1. PICK asleep \in 2 .. Asleep : Look(clock + asleep)
    BY <1>4 DEF Sleeps
  <2>2. clock + asleep \in Nat
    BY <1>1
  <2> QED
    BY <1>2, <2>1, <2>2
<1>5. CASE SetBack
  <2>1. PICK now \in 0 .. clock - 1 : Look(now)
    BY <1>5 DEF SetBack
  <2> QED
    BY <1>1, <1>2, <2>1
<1>6. CASE UNCHANGED scheduleVars
  BY <1>6 DEF scheduleVars
<1> QED
  BY <1>3, <1>4, <1>5, <1>6 DEF ScheduleNext

(* An alarm waits for the first time its schedule names, misses none while *)
(* the clock is watched, rings for one once and never late: for any times, *)
(* days, week and grace.                                                   *)
THEOREM RingsInTimeAlways == ScheduleSpec => RingsInTime
<1>1. ScheduleInv => WaitsForTheFirst /\ NoneMissed
  BY DEF ScheduleInv
<1>2. ScheduleInv /\ [ScheduleNext]_scheduleVars =>
        [\A t \in rung : next' # next => next' > t]_scheduleVars
  BY LooksRing
<1>3. ScheduleInv /\ [ScheduleNext]_scheduleVars =>
        [\A t \in rung' \ rung : t <= clock' /\ clock' - t <= Grace]_scheduleVars
  BY LooksRing
<1> QED
  BY <1>1, <1>2, <1>3, ScheduleStarts, ScheduleNextKeeps, PTL
  DEF ScheduleSpec, RingsInTime, RingsOnce, SkippedNotLate

(* The variables of an alarm keep their types.                             *)
THEOREM ScheduleTyped == ScheduleSpec => []ScheduleTypeOK
<1>1. ScheduleInv => ScheduleTypeOK
  BY DEF ScheduleInv
<1> QED
  BY <1>1, ScheduleStarts, ScheduleNextKeeps, PTL DEF ScheduleSpec

-----------------------------------------------------------------------------
(* Rules: what is loaded is what is written and has seen the reading there *)
(* is, and a firing that is put off is of the rule that runs or of one     *)
(* gone.                                                                   *)
Readings   == {"yes", "no", "error"}
RuleText   == [on : Triggers, text : {1, 2}]
LoadedRule == [serial : Nat, rule : RuleText, meaning : {"none", "number", "text"},
               seen : {"never", "yes", "no"}]
ToLoad     == [do : {"load"}, book : [RuleIds -> RuleText]]
Firing     == [do : {"fire"}, id : RuleIds, serial : Nat \ {0}, rule : RuleText]
RuleTask   == ToLoad \cup Firing

LoadsAt(s) == {i \in DOMAIN s : s[i].do = "load"}

(* What there is, of the shape it has.                                     *)
RulesShape ==
  /\ setup \in BOOLEAN /\ late \in BOOLEAN /\ delivering \in BOOLEAN
  /\ book \in [RuleIds -> RuleText] /\ var \in {"none", "number", "text"} /\ x \in Readings
  /\ running \in [RuleIds -> LoadedRule] /\ serial \in Nat
  /\ tasks \in Seq(RuleTask) /\ due \in Seq(Firing) /\ owed \subseteq Firing
  /\ heard \in Seq({"started", "ending"}) /\ spent \in [RuleIds -> 0 .. PerSecond + 1]
  /\ listener \in {"none", "spawned", "listening"} /\ stray \in {"none", "free", "holding"}
  /\ session \in {"up", "waiting", "ended"}
  /\ suspended \subseteq RuleIds /\ misfired \in BOOLEAN

(* A rule that runs is the one written, and means what it meant.           *)
AsLoaded ==
  \A id \in RuleIds : Loaded(running[id]) =>
    /\ running[id].serial <= serial
    /\ running[id].rule = book[id] /\ running[id].meaning = Meaning(book[id], var)
    /\ Prepared(book[id], var)

(* An edge has seen the reading there is.                                  *)
HasSeen(r, reading) == Watches(r) => Value(r.rule, reading) \in {"error", r.seen}

EdgesStand == \A id \in RuleIds : HasSeen(running[id], x)

(* A firing that is put off is of the rule that runs, or of one gone.      *)
AsWritten(t) ==
  t.serial <= serial /\ (running[t.id].serial = t.serial => t.rule = running[t.id].rule)

FiringsAsWritten ==
  /\ \A i \in DOMAIN tasks : tasks[i].do = "fire" => AsWritten(tasks[i])
  /\ \A i \in DOMAIN due : AsWritten(due[i])
  /\ \A t \in owed : AsWritten(t)

(* What the session waits for is on its way to the rules, or being fired.  *)
EndHeard ==
  \A t \in owed : running[t.id].serial = t.serial =>
    /\ t.rule.on = "ending" /\ "ending" \in ToSet(heard)
    /\ delivering /\ Head(heard) = "ending" => t \in ToSet(due)

Overspent == \A id \in RuleIds : spent[id] > PerSecond => id \in suspended

InTurn ==
  /\ delivering => setup /\ heard # <<>>
  /\ session = "up" => owed = {} /\ "ending" \notin ToSet(heard)
  /\ ~setup => session = "up"
  /\ Loads <= MaxLoads

RulesInv ==
  /\ RulesShape /\ AsLoaded /\ EdgesStand /\ FiringsAsWritten /\ EndHeard /\ Overspent /\ InTurn
  /\ FiresAsWritten /\ FailuresWritten

-----------------------------------------------------------------------------
LEMMA InOrderType ==
  ASSUME NEW ids \in SUBSET RuleIds
  PROVE  /\ InOrder(ids) \in Seq(RuleIds)
         /\ \A i \in DOMAIN InOrder(ids) : InOrder(ids)[i] \in ids
         /\ \A id \in ids : \E i \in DOMAIN InOrder(ids) : InOrder(ids)[i] = id
<1> DEFINE at == {i \in DOMAIN Order : Order[i] \in ids}
           q == Picked(Order, at)
<1>1. Order \in Seq(RuleIds) /\ DOMAIN Order = 1 .. 2 /\ Order[1] = "a" /\ Order[2] = "b"
  BY DEF Order, RuleIds
<1>2. at \in SUBSET DOMAIN Order
  OBVIOUS
<1>3. /\ IsFiniteSet(at) /\ at \subseteq Nat /\ Cardinality(at) \in Nat
      /\ q \in Seq(RuleIds) /\ DOMAIN q = 1 .. Cardinality(at)
      /\ \A k \in 1 .. Cardinality(at) : Place(at, k) \in at /\ q[k] = Order[Place(at, k)]
  <2> HIDE DEF at
  <2> QED
    BY <1>1, <1>2, PickedType
<1>4. \A i \in DOMAIN q : q[i] \in ids
  <2>1. \A i \in at : Order[i] \in ids
    OBVIOUS
  <2> HIDE DEF at, q
  <2> QED
    BY <1>3, <2>1
<1>5. ASSUME NEW id \in ids
      PROVE  \E i \in DOMAIN q : q[i] = id
  <2>1. PICK i \in 1 .. 2 : Order[i] = id
    BY <1>1 DEF RuleIds
  <2>2. i \in at
    BY <1>1, <2>1
  <2>3. Place(at, Rank(at, i)) = i /\ Rank(at, i) \in 1 .. Cardinality(at)
    BY <1>3, <2>2, RankPlace, RankType
  <2> HIDE DEF at, q
  <2> QED
    BY <1>3, <2>1, <2>3
<1>6. InOrder(ids) = q
  BY DEF InOrder
<1> HIDE DEF q
<1> QED
  BY <1>3, <1>4, <1>5, <1>6

(* What an edge's expression gives is an answer or a failure.              *)
LEMMA ValueType ==
  ASSUME NEW rule, NEW reading \in Readings
  PROVE  Value(rule, reading) \in Readings
BY DEF Value, Readings

(* What is noticed: a firing of each loaded edge that crosses.             *)
LEMMA NoticedType ==
  ASSUME NEW rules \in [RuleIds -> LoadedRule], NEW now \in Readings
  PROVE  /\ Noticed(rules, now) \in Seq(Firing)
         /\ \A i \in DOMAIN Noticed(rules, now) :
              \E id \in RuleIds : /\ Noticed(rules, now)[i] = Fire(id, rules[id])
                                  /\ Watches(rules[id]) /\ rules[id].seen = "no"
<1> DEFINE crossed == {id \in RuleIds : Watches(rules[id])
                                          /\ Crosses(rules[id], Value(rules[id].rule, now))}
           order == InOrder(crossed)
           q == [i \in DOMAIN order |-> Fire(order[i], rules[order[i]])]
<1>1. Noticed(rules, now) = q
  BY DEF Noticed
<1>2. crossed \in SUBSET RuleIds
  OBVIOUS
<1>3. order \in Seq(RuleIds) /\ \A i \in DOMAIN order : order[i] \in crossed
  <2> HIDE DEF crossed
  <2> QED
    BY <1>2, InOrderType
<1>4. \A id \in crossed : id \in RuleIds /\ Watches(rules[id]) /\ rules[id].seen = "no"
  BY DEF Crosses
<1>5. \A id \in crossed : Fire(id, rules[id]) \in Firing
  <2> SUFFICES ASSUME NEW id \in crossed
               PROVE  Fire(id, rules[id]) \in Firing
    OBVIOUS
  <2>1. id \in RuleIds /\ rules[id] \in LoadedRule /\ rules[id].serial # 0
    BY <1>4 DEF Watches, Loaded
  <2>2. rules[id].serial \in Nat \ {0} /\ rules[id].rule \in RuleText
    BY <2>1 DEF LoadedRule
  <2> QED
    BY <2>1, <2>2 DEF Fire, Firing
<1>6. \A i \in DOMAIN order : q[i] = Fire(order[i], rules[order[i]]) /\ q[i] \in Firing
  <2> HIDE DEF crossed, order
  <2> QED
    BY <1>3, <1>5
<1>7. DOMAIN order = 1 .. Len(order) /\ Len(order) \in Nat
  <2> HIDE DEF order
  <2> QED
    BY <1>3
<1>8. q \in Seq(Firing) /\ DOMAIN q = DOMAIN order
  <2>1. q \in [1 .. Len(order) -> Firing]
    <3> HIDE DEF order
    <3> QED
      BY <1>6, <1>7
  <2> HIDE DEF q, order
  <2> QED
    BY <1>7, <2>1
<1> HIDE DEF q, order, crossed
<1> QED
  BY <1>1, <1>3, <1>4, <1>6, <1>8

(* What the loads put off are, of tasks put one after the other.           *)
LEMMA LoadsJoined ==
  ASSUME NEW s \in Seq(RuleTask), NEW t \in Seq(Firing)
  PROVE  /\ s \o t \in Seq(RuleTask) /\ Len(s \o t) = Len(s) + Len(t)
         /\ \A i \in 1 .. Len(s) : (s \o t)[i] = s[i]
         /\ \A i \in Len(s) + 1 .. Len(s) + Len(t) :
              i - Len(s) \in DOMAIN t /\ (s \o t)[i] = t[i - Len(s)]
         /\ LoadsAt(s \o t) = LoadsAt(s)
<1> DEFINE u == s \o t
<1>1. t \in Seq(RuleTask)
  BY DEF RuleTask
<1>2. /\ u \in Seq(RuleTask) /\ Len(u) = Len(s) + Len(t)
      /\ Len(s) \in Nat /\ Len(t) \in Nat
      /\ DOMAIN s = 1 .. Len(s) /\ DOMAIN t = 1 .. Len(t) /\ DOMAIN u = 1 .. Len(s) + Len(t)
  BY <1>1
<1>3. \A i \in 1 .. Len(s) : u[i] = s[i]
  BY <1>1
<1>4. \A i \in Len(s) + 1 .. Len(s) + Len(t) : i - Len(s) \in DOMAIN t /\ u[i] = t[i - Len(s)]
  BY <1>1, <1>2
<1>5. \A j \in DOMAIN t : t[j].do = "fire"
  <2>1. \A j \in DOMAIN t : t[j] \in Firing
    BY <1>2
  <2> QED
    BY <2>1 DEF Firing
<1> HIDE DEF u
<1>6. LoadsAt(u) = LoadsAt(s)
  <2>1. \A i \in DOMAIN u : i \in LoadsAt(u) => i \in LoadsAt(s)
    <3> SUFFICES ASSUME NEW i \in DOMAIN u, u[i].do = "load"
                 PROVE  i \in DOMAIN s /\ s[i].do = "load"
      BY DEF LoadsAt
    <3>1. CASE i \in 1 .. Len(s)
      BY <1>2, <1>3, <3>1
    <3>2. CASE i \in Len(s) + 1 .. Len(s) + Len(t)
      BY <1>4, <1>5, <3>2
    <3> QED
      BY <1>2, <3>1, <3>2
  <2>2. \A i \in DOMAIN s : i \in LoadsAt(s) => i \in LoadsAt(u)
    BY <1>2, <1>3 DEF LoadsAt
  <2> QED
    BY <2>1, <2>2 DEF LoadsAt
<1> QED
  BY <1>2, <1>3, <1>4, <1>6 DEF u

LEMMA LoadsFinite ==
  ASSUME NEW s \in Seq(RuleTask)
  PROVE  IsFiniteSet(LoadsAt(s)) /\ Cardinality(LoadsAt(s)) \in Nat
<1>1. IsFiniteSet(1 .. Len(s))
  BY FS_Interval
<1>2. LoadsAt(s) \in SUBSET (1 .. Len(s))
  BY DEF LoadsAt
<1>3. IsFiniteSet(LoadsAt(s))
  BY <1>1, <1>2, FS_Subset
<1> QED
  BY <1>3, FS_CardinalityType

LEMMA LoadsMore ==
  ASSUME NEW s \in Seq(RuleTask), NEW e \in ToLoad
  PROVE  Cardinality(LoadsAt(Append(s, e))) = Cardinality(LoadsAt(s)) + 1
<1> DEFINE n == Len(s)
           t == Append(s, e)
<1>1. e \in RuleTask
  BY DEF RuleTask
<1>2. /\ n \in Nat /\ DOMAIN s = 1 .. n /\ DOMAIN t = 1 .. n + 1
      /\ t[n + 1] = e /\ \A i \in 1 .. n : t[i] = s[i]
  BY <1>1
<1>3. e.do = "load"
  BY DEF ToLoad
<1>4. n + 1 \notin LoadsAt(s)
  BY <1>2 DEF LoadsAt
<1>5. LoadsAt(t) = LoadsAt(s) \cup {n + 1}
  <2>1. \A i \in 1 .. n + 1 : i \in 1 .. n \/ i = n + 1
    BY <1>2
  <2> HIDE DEF t, n
  <2> QED
    BY <1>2, <1>3, <2>1 DEF LoadsAt
<1> HIDE DEF t, n
<1>6. Cardinality(LoadsAt(t)) = Cardinality(LoadsAt(s)) + 1
  BY <1>4, <1>5, LoadsFinite, FS_AddElement
<1> QED
  BY <1>6 DEF t

LEMMA LoadsLess ==
  ASSUME NEW s \in Seq(RuleTask), s # <<>>
  PROVE  /\ Tail(s) \in Seq(RuleTask) /\ Head(s) \in RuleTask /\ Len(Tail(s)) < Len(s)
         /\ \A i \in DOMAIN Tail(s) : i + 1 \in DOMAIN s /\ Tail(s)[i] = s[i + 1]
         /\ Cardinality(LoadsAt(Tail(s)))
              = Cardinality(LoadsAt(s)) - (IF Head(s).do = "load" THEN 1 ELSE 0)
<1> DEFINE n == Len(s)
           t == Tail(s)
           A == LoadsAt(t)
           B == LoadsAt(s) \ {1}
           f == [i \in A |-> i + 1]
<1>1. /\ n \in Nat /\ n > 0 /\ DOMAIN s = 1 .. n /\ Len(t) = n - 1 /\ DOMAIN t = 1 .. n - 1
      /\ t \in Seq(RuleTask)
  OBVIOUS
<1>2. \A i \in 1 .. n - 1 : t[i] = s[i + 1]
  OBVIOUS
<1>3. Head(s) = s[1] /\ 1 \in DOMAIN s /\ s[1] \in RuleTask
  BY <1>1
<1> HIDE DEF t
<1>4. f \in [A -> B]
  <2>1. \A i \in A : i \in 1 .. n - 1 /\ i + 1 \in 1 .. n /\ i + 1 # 1 /\ s[i + 1].do = "load"
    BY <1>1, <1>2 DEF LoadsAt
  <2> QED
    BY <1>1, <2>1 DEF LoadsAt
<1>5. \A i, j \in A : f[i] = f[j] => i = j
  <2>1. \A i \in A : i \in Nat
    BY <1>1 DEF LoadsAt
  <2> QED
    BY <2>1
<1>6. \A b \in B : \E i \in A : f[i] = b
  <2> SUFFICES ASSUME NEW b \in B
               PROVE  \E i \in A : f[i] = b
    OBVIOUS
  <2>1. b \in 2 .. n /\ s[b].do = "load"
    BY <1>1 DEF LoadsAt
  <2>2. b - 1 \in 1 .. n - 1 /\ (b - 1) + 1 = b
    BY <1>1, <2>1
  <2>3. b - 1 \in A
    BY <1>1, <1>2, <2>1, <2>2 DEF LoadsAt
  <2> QED
    BY <2>2, <2>3
<1>7. f \in Bijection(A, B)
  BY <1>4, <1>5, <1>6 DEF Bijection, Injection, Surjection, IsInjective
<1>8. IsFiniteSet(A)
  BY <1>1, LoadsFinite
<1> HIDE DEF f, A, B
<1>9. Cardinality(A) = Cardinality(B)
  BY <1>7, <1>8, FS_Bijection DEF ExistsBijection
<1>10. Cardinality(B) = Cardinality(LoadsAt(s)) - (IF s[1].do = "load" THEN 1 ELSE 0)
  <2>1. 1 \in LoadsAt(s) <=> s[1].do = "load"
    BY <1>3 DEF LoadsAt
  <2>2. Cardinality(LoadsAt(s) \ {1})
          = IF 1 \in LoadsAt(s) THEN Cardinality(LoadsAt(s)) - 1 ELSE Cardinality(LoadsAt(s))
    BY LoadsFinite, FS_RemoveElement
  <2>3. Cardinality(LoadsAt(s)) \in Nat
    BY LoadsFinite
  <2> QED
    BY <2>1, <2>2, <2>3 DEF B
<1>11. \A i \in DOMAIN t : i + 1 \in DOMAIN s /\ t[i] = s[i + 1]
  BY <1>1, <1>2
<1>12. Len(t) < Len(s)
  BY <1>1
<1> QED
  BY <1>1, <1>3, <1>9, <1>10, <1>11, <1>12 DEF t, A

-----------------------------------------------------------------------------
(* A rule that has looked again: the same one, having seen what there is.  *)
Same(r, s) == r.serial = s.serial /\ r.rule = s.rule /\ r.meaning = s.meaning

LEMMA WatchedType ==
  ASSUME NEW rules \in [RuleIds -> LoadedRule], NEW now \in Readings
  PROVE  /\ Watched(rules, now) \in [RuleIds -> LoadedRule]
         /\ \A id \in RuleIds : /\ Same(Watched(rules, now)[id], rules[id])
                                /\ HasSeen(Watched(rules, now)[id], now)
                                /\ HasSeen(rules[id], now)
                                     => Watched(rules, now)[id] = rules[id]
<1> DEFINE W == Watched(rules, now)
<1>1. ASSUME NEW id \in RuleIds
      PROVE  /\ W[id] \in LoadedRule /\ Same(W[id], rules[id]) /\ HasSeen(W[id], now)
             /\ HasSeen(rules[id], now) => W[id] = rules[id]
  <2> DEFINE r == rules[id]
             v == Value(r.rule, now)
  <2>1. r \in LoadedRule /\ v \in {"yes", "no", "error"}
    BY ValueType DEF Readings
  <2>2. r.seen \in {"never", "yes", "no"}
    BY <2>1 DEF LoadedRule
  <2>3. CASE Watches(r)
    <3>1. W[id] = [r EXCEPT !.seen = Seen(r, v)]
      BY <2>3 DEF Watched
    <3>2. Seen(r, v) \in {"never", "yes", "no"} /\ (v = "error" \/ Seen(r, v) = v)
      BY <2>1, <2>2 DEF Seen
    <3>3. /\ W[id] \in LoadedRule /\ W[id].seen = Seen(r, v) /\ W[id].rule = r.rule
          /\ W[id].serial = r.serial /\ W[id].meaning = r.meaning
      BY <2>1, <3>1, <3>2 DEF LoadedRule
    <3>4. HasSeen(W[id], now)
      BY <3>2, <3>3 DEF HasSeen
    <3>5. HasSeen(r, now) => W[id] = r
      <4> SUFFICES ASSUME HasSeen(r, now)
                   PROVE  W[id] = r
        OBVIOUS
      <4>1. Seen(r, v) = r.seen
        BY <2>1, <2>3 DEF HasSeen, Seen
      <4> QED
        BY <2>1, <3>1, <4>1 DEF LoadedRule
    <3> QED
      BY <3>3, <3>4, <3>5 DEF Same
  <2>4. CASE ~Watches(r)
    <3>1. W[id] = r
      BY <2>4 DEF Watched
    <3> QED
      BY <2>1, <2>4, <3>1 DEF Same, HasSeen
  <2> QED
    BY <2>3, <2>4
<1>2. W \in [RuleIds -> LoadedRule]
  <2>1. W = [id \in RuleIds |-> W[id]]
    BY DEF Watched
  <2> HIDE DEF W
  <2> QED
    BY <1>1, <2>1
<1> QED
  BY <1>1, <1>2

(* The reactive pass: the rules as they are loaded look again, and what    *)
(* crosses is put off after what already was.                              *)
LEMMA Reacted ==
  ASSUME NEW rules \in [RuleIds -> LoadedRule], NEW now \in Readings, NEW later \in Seq(RuleTask),
         Reacts(rules, now, later)
  PROVE  /\ x' = now /\ running' \in [RuleIds -> LoadedRule] /\ EdgesStand'
         /\ \A id \in RuleIds : /\ Same(running'[id], rules[id])
                                /\ HasSeen(rules[id], now) => running'[id] = rules[id]
         /\ tasks' \in Seq(RuleTask)
         /\ \A i \in DOMAIN tasks' :
              \/ i <= Len(later) /\ tasks'[i] = later[i]
              \/ /\ i > Len(later) /\ tasks'[i] \in Firing
                 /\ \E id \in RuleIds : /\ tasks'[i] = Fire(id, rules[id])
                                        /\ Loaded(rules[id]) /\ rules[id].seen = "no"
         /\ LoadsAt(tasks') = LoadsAt(later)
<1> DEFINE q == Noticed(rules, now)
<1>1. x' = now /\ running' = Watched(rules, now) /\ tasks' = later \o q
  BY DEF Reacts
<1>2. /\ q \in Seq(Firing)
      /\ \A i \in DOMAIN q : \E id \in RuleIds : /\ q[i] = Fire(id, rules[id])
                                                 /\ Watches(rules[id]) /\ rules[id].seen = "no"
  BY NoticedType
<1> HIDE DEF q
<1>3. /\ tasks' \in Seq(RuleTask) /\ Len(tasks') = Len(later) + Len(q)
      /\ \A i \in 1 .. Len(later) : tasks'[i] = later[i]
      /\ \A i \in Len(later) + 1 .. Len(later) + Len(q) :
           i - Len(later) \in DOMAIN q /\ tasks'[i] = q[i - Len(later)]
      /\ LoadsAt(tasks') = LoadsAt(later)
  BY <1>1, <1>2, LoadsJoined
<1>4. ASSUME NEW i \in DOMAIN tasks'
      PROVE  \/ i <= Len(later) /\ tasks'[i] = later[i]
             \/ /\ i > Len(later) /\ tasks'[i] \in Firing
                /\ \E id \in RuleIds : /\ tasks'[i] = Fire(id, rules[id])
                                       /\ Loaded(rules[id]) /\ rules[id].seen = "no"
  <2>1. Len(later) \in Nat /\ Len(q) \in Nat /\ i \in 1 .. Len(later) + Len(q)
    BY <1>2, <1>3
  <2>2. CASE i <= Len(later)
    BY <1>3, <2>1, <2>2
  <2>3. CASE i > Len(later)
    <3>1. i \in Len(later) + 1 .. Len(later) + Len(q)
      BY <2>1, <2>3
    <3>2. i - Len(later) \in DOMAIN q /\ tasks'[i] = q[i - Len(later)]
      BY <1>3, <3>1
    <3>3. q[i - Len(later)] \in Firing
      BY <1>2, <3>2
    <3> QED
      BY <1>2, <2>3, <3>2, <3>3 DEF Watches
  <2> QED
    BY <2>1, <2>2, <2>3
<1>5. /\ running' \in [RuleIds -> LoadedRule]
      /\ \A id \in RuleIds : /\ Same(running'[id], rules[id]) /\ HasSeen(running'[id], x')
                             /\ HasSeen(rules[id], now) => running'[id] = rules[id]
  BY <1>1, WatchedType
<1>6. EdgesStand'
  BY <1>5 DEF EdgesStand, HasSeen, Value, Watches, Loaded, IsEdge
<1> QED
  BY <1>1, <1>3, <1>4, <1>5, <1>6

-----------------------------------------------------------------------------
(* While what is loaded stays the same, but for what it has seen, so does  *)
(* what was put off.                                                       *)
LEMMA SameKeeps ==
  ASSUME RulesShape, AsLoaded, UNCHANGED <<serial, book, var>>,
         \A id \in RuleIds : Same(running'[id], running[id])
  PROVE  /\ AsLoaded'
         /\ \A t \in Firing : AsWritten(t) => AsWritten(t)'
<1>1. \A id \in RuleIds : /\ running'[id].serial = running[id].serial
                          /\ running'[id].rule = running[id].rule
                          /\ running'[id].meaning = running[id].meaning
  BY DEF Same
<1>2. AsLoaded'
  BY <1>1 DEF AsLoaded, Loaded, Meaning, Prepared
<1>3. \A t \in Firing : AsWritten(t) => AsWritten(t)'
  BY <1>1 DEF AsWritten, Firing
<1> QED
  BY <1>2, <1>3

(* What firing a rule, or refusing to, leaves: the rules as they were but  *)
(* for what they have seen, and new crossings after the tasks put off.     *)
Fired(later) ==
  /\ running' \in [RuleIds -> LoadedRule] /\ x' \in Readings /\ EdgesStand'
  /\ \A id \in RuleIds : Same(running'[id], running[id])
  /\ tasks' \in Seq(RuleTask) /\ LoadsAt(tasks') = LoadsAt(later)
  /\ \A i \in DOMAIN tasks' :
       \/ i <= Len(later) /\ tasks'[i] = later[i]
       \/ /\ i > Len(later) /\ tasks'[i] \in Firing
          /\ \E id \in RuleIds : /\ tasks'[i] = Fire(id, running[id])
                                 /\ Loaded(running[id]) /\ running[id].seen = "no"
  /\ spent' \in [RuleIds -> 0 .. PerSecond + 1] /\ suspended' \subseteq RuleIds
  /\ Overspent' /\ misfired' \in BOOLEAN /\ FiresAsWritten' /\ FailuresWritten'

LEMMA Untouched ==
  ASSUME RulesInv, NEW later \in Seq(RuleTask), tasks' = later,
         UNCHANGED <<book, x, running>>
  PROVE  /\ running' \in [RuleIds -> LoadedRule] /\ x' \in Readings /\ EdgesStand'
         /\ \A id \in RuleIds : Same(running'[id], running[id])
         /\ tasks' \in Seq(RuleTask) /\ LoadsAt(tasks') = LoadsAt(later)
         /\ \A i \in DOMAIN tasks' : i <= Len(later) /\ tasks'[i] = later[i]
<1>1. running' = running /\ x' = x
  OBVIOUS
<1>2. EdgesStand'
  BY <1>1 DEF RulesInv, EdgesStand, HasSeen, Watches, Value, Loaded, IsEdge
<1>3. \A i \in DOMAIN later : i <= Len(later)
  OBVIOUS
<1> QED
  BY <1>1, <1>2, <1>3 DEF RulesInv, RulesShape, Same

LEMMA Performed ==
  ASSUME RulesInv, NEW id \in Written(book) \ suspended, NEW later \in Seq(RuleTask),
         Perform(id, book[id], later), UNCHANGED <<book, var, serial>>
  PROVE  Fired(later)
<1>1. /\ id \in RuleIds /\ spent[id] \in 0 .. PerSecond + 1 /\ ~(spent[id] > PerSecond)
      /\ PerSecond \in Nat
  BY RulesAssumption DEF RulesInv, RulesShape, Overspent, Written
<1>2. spent' = [spent EXCEPT ![id] = @ + 1] /\ spent \in [RuleIds -> 0 .. PerSecond + 1]
  BY DEF Perform, RulesInv, RulesShape
<1>3. spent[id] + 1 \in 0 .. PerSecond + 1
  BY <1>1
<1>4. /\ spent' \in [RuleIds -> 0 .. PerSecond + 1] /\ spent'[id] = spent[id] + 1
      /\ \A i \in RuleIds \ {id} : spent'[i] = spent[i]
  BY <1>1, <1>2, <1>3
<1>5. /\ failing \cup suspended \subseteq Written(book) /\ id \in Written(book)
      /\ suspended \subseteq RuleIds /\ ~misfired /\ misfired \in BOOLEAN
  BY DEF RulesInv, RulesShape, FailuresWritten, FiresAsWritten
<1>6. Written(book') = Written(book)
  OBVIOUS
<1>7. CASE Within(spent'[id])
  <2>1. /\ \E now \in {"yes", "no"} \cup {x} : Reacts(running, now, later)
        /\ failing' \in {failing \ {id}, failing \cup {id}}
        /\ misfired' = (misfired \/ book[id] # book[id])
        /\ suspended' = suspended
    BY <1>7 DEF Perform
  <2>2. PICK now \in {"yes", "no"} \cup {x} : Reacts(running, now, later)
    BY <2>1
  <2>3. now \in Readings /\ running \in [RuleIds -> LoadedRule]
    BY DEF RulesInv, RulesShape, Readings
  <2>4. /\ x' = now /\ running' \in [RuleIds -> LoadedRule] /\ EdgesStand'
        /\ \A i \in RuleIds : Same(running'[i], running[i])
        /\ tasks' \in Seq(RuleTask)
        /\ \A i \in DOMAIN tasks' :
             \/ i <= Len(later) /\ tasks'[i] = later[i]
             \/ /\ i > Len(later) /\ tasks'[i] \in Firing
                /\ \E r \in RuleIds : /\ tasks'[i] = Fire(r, running[r])
                                      /\ Loaded(running[r]) /\ running[r].seen = "no"
        /\ LoadsAt(tasks') = LoadsAt(later)
    BY <2>2, <2>3, Reacted
  <2>5. Overspent'
    <3>1. ~(spent'[id] > PerSecond)
      BY <1>1, <1>4, <1>7 DEF Within
    <3> QED
      BY <1>4, <2>1, <3>1 DEF Overspent, RulesInv
  <2>6. FailuresWritten'
    BY <1>5, <1>6, <2>1 DEF FailuresWritten
  <2>7. FiresAsWritten' /\ misfired' \in BOOLEAN
    BY <1>5, <2>1 DEF FiresAsWritten
  <2> QED
    BY <1>4, <1>5, <2>1, <2>3, <2>4, <2>5, <2>6, <2>7 DEF Fired
<1>8. CASE ~Within(spent'[id])
  <2>1. /\ suspended' = suspended \cup {id} /\ failing' = failing \cup {id}
        /\ tasks' = later /\ x' = x /\ running' = running /\ misfired' = misfired
    BY <1>8 DEF Perform
  <2>2. Overspent'
    BY <1>4, <2>1 DEF Overspent, RulesInv
  <2>3. FailuresWritten'
    BY <1>5, <1>6, <2>1 DEF FailuresWritten
  <2>4. FiresAsWritten' /\ misfired' \in BOOLEAN
    BY <1>5, <2>1 DEF FiresAsWritten
  <2>5. suspended' \subseteq RuleIds
    BY <1>1, <1>5, <2>1
  <2>6. /\ running' \in [RuleIds -> LoadedRule] /\ x' \in Readings /\ EdgesStand'
        /\ \A i \in RuleIds : Same(running'[i], running[i])
        /\ tasks' \in Seq(RuleTask) /\ LoadsAt(tasks') = LoadsAt(later)
        /\ \A i \in DOMAIN tasks' : i <= Len(later) /\ tasks'[i] = later[i]
    BY <2>1, Untouched
  <2> QED
    BY <1>4, <2>2, <2>3, <2>4, <2>5, <2>6 DEF Fired
<1> QED
  BY <1>7, <1>8

LEMMA FiredOne ==
  ASSUME RulesInv, NEW t \in Firing, AsWritten(t), NEW later \in Seq(RuleTask),
         FireOne(t, later), UNCHANGED <<book, var, serial>>
  PROVE  Fired(later)
<1>1. t.id \in RuleIds /\ t.serial \in Nat \ {0}
  BY DEF Firing
<1>2. Current(t) => t.id \in Written(book) \ suspended /\ t.rule = book[t.id]
  BY <1>1 DEF Current, AsWritten, RulesInv, AsLoaded, Loaded, Prepared, Written
<1>3. CASE Current(t) /\ Perform(t.id, t.rule, later)
  <2>1. Perform(t.id, book[t.id], later) /\ t.id \in Written(book) \ suspended
    BY <1>2, <1>3
  <2> QED
    BY <2>1, Performed
<1>4. ASSUME tasks' = later, UNCHANGED <<x, running, spent, suspended, misfired>>,
             failing' = failing \/ (failing' = failing \cup {t.id} /\ Current(t))
      PROVE  Fired(later)
  <2>1. /\ running' \in [RuleIds -> LoadedRule] /\ x' \in Readings /\ EdgesStand'
        /\ \A i \in RuleIds : Same(running'[i], running[i])
        /\ tasks' \in Seq(RuleTask) /\ LoadsAt(tasks') = LoadsAt(later)
        /\ \A i \in DOMAIN tasks' : i <= Len(later) /\ tasks'[i] = later[i]
    BY <1>4, Untouched
  <2>2. spent' \in [RuleIds -> 0 .. PerSecond + 1] /\ suspended' \subseteq RuleIds /\ Overspent'
    BY <1>4 DEF RulesInv, RulesShape, Overspent
  <2>3. Written(book') = Written(book)
    OBVIOUS
  <2>4. FailuresWritten'
    BY <1>2, <1>4, <2>3 DEF RulesInv, FailuresWritten
  <2>5. FiresAsWritten' /\ misfired' \in BOOLEAN
    BY <1>4 DEF RulesInv, RulesShape, FiresAsWritten
  <2> QED
    BY <2>1, <2>2, <2>4, <2>5 DEF Fired
<1>5. CASE Skip(later)
  BY <1>4, <1>5 DEF Skip
<1>6. CASE Current(t) /\ failing' = failing \cup {t.id} /\ tasks' = later
             /\ UNCHANGED <<x, running, spent, suspended, misfired>>
  BY <1>4, <1>6
<1> QED
  BY <1>3, <1>5, <1>6 DEF FireOne

(* What is put off next to crossings just noticed is of the rules there    *)
(* are.                                                                    *)
LEMMA FiredWritten ==
  ASSUME RulesInv, NEW later \in Seq(RuleTask), Fired(later), UNCHANGED <<book, var, serial>>,
         \A i \in DOMAIN later : later[i].do = "fire" => AsWritten(later[i])
  PROVE  /\ AsLoaded' /\ \A t \in Firing : AsWritten(t) => AsWritten(t)'
         /\ \A i \in DOMAIN tasks' : tasks'[i].do = "fire" => AsWritten(tasks[i])'
         /\ \A i \in DOMAIN tasks' : i > Len(later) /\ tasks'[i].do = "fire" =>
              /\ running[tasks'[i].id].seen = "no"
              /\ running[tasks'[i].id].serial = tasks'[i].serial
<1>1. /\ tasks' \in Seq(RuleTask)
      /\ \A i \in DOMAIN tasks' :
           \/ i <= Len(later) /\ tasks'[i] = later[i]
           \/ /\ i > Len(later) /\ tasks'[i] \in Firing
              /\ \E id \in RuleIds : /\ tasks'[i] = Fire(id, running[id])
                                     /\ Loaded(running[id]) /\ running[id].seen = "no"
  BY DEF Fired
<1>2. AsLoaded' /\ \A t \in Firing : AsWritten(t) => AsWritten(t)'
  BY SameKeeps DEF RulesInv, Fired
<1>3. \A i \in DOMAIN tasks' : i \in Nat \ {0} /\ tasks'[i] \in RuleTask
  BY <1>1
<1>4. \A t \in RuleTask : t.do = "fire" => t \in Firing
  BY DEF RuleTask, ToLoad
<1>5. ASSUME NEW i \in DOMAIN tasks', i > Len(later)
      PROVE  /\ AsWritten(tasks[i])'
             /\ running[tasks'[i].id].seen = "no"
             /\ running[tasks'[i].id].serial = tasks'[i].serial
  <2>1. Len(later) \in Nat /\ i \in Nat
    BY <1>3
  <2>2. PICK id \in RuleIds : /\ tasks'[i] = Fire(id, running[id])
                              /\ Loaded(running[id]) /\ running[id].seen = "no"
    BY <1>1, <1>5, <2>1
  <2>3. /\ tasks'[i].id = id /\ tasks'[i].serial = running[id].serial
        /\ tasks'[i].rule = running[id].rule
    BY <2>2 DEF Fire
  <2>4. running[id].serial <= serial /\ running'[id].rule = running[id].rule
    BY <2>2 DEF RulesInv, AsLoaded, Fired, Same
  <2> QED
    BY <2>2, <2>3, <2>4 DEF AsWritten
<1>6. ASSUME NEW i \in DOMAIN tasks', ~(i > Len(later)), tasks'[i].do = "fire"
      PROVE  AsWritten(tasks[i])'
  <2>1. Len(later) \in Nat /\ i \in Nat \ {0} /\ DOMAIN later = 1 .. Len(later)
    BY <1>3
  <2>2. i \in DOMAIN later /\ tasks'[i] = later[i]
    BY <1>1, <1>6, <2>1
  <2>3. AsWritten(later[i]) /\ later[i] \in Firing
    BY <1>3, <1>4, <1>6, <2>2
  <2>4. AsWritten(later[i])'
    BY <1>2, <2>3
  <2> QED
    BY <2>2, <2>4 DEF AsWritten
<1> QED
  BY <1>2, <1>5, <1>6

-----------------------------------------------------------------------------
(* A firing put off is one of those a rule may be fired for.               *)
LEMMA HeadFires ==
  ASSUME RulesInv, tasks # <<>>
  PROVE  /\ Head(tasks).do = "fire" => Head(tasks) \in Firing /\ AsWritten(Head(tasks))
         /\ Head(tasks).do = "load" => Head(tasks) \in ToLoad
         /\ Tail(tasks) \in Seq(RuleTask)
         /\ \A i \in DOMAIN Tail(tasks) :
              Tail(tasks)[i].do = "fire" => AsWritten(Tail(tasks)[i])
<1>1. tasks \in Seq(RuleTask) /\ \A i \in DOMAIN tasks : tasks[i].do = "fire" => AsWritten(tasks[i])
  BY DEF RulesInv, RulesShape, FiringsAsWritten
<1>2. /\ Tail(tasks) \in Seq(RuleTask) /\ Head(tasks) \in RuleTask
      /\ \A i \in DOMAIN Tail(tasks) : i + 1 \in DOMAIN tasks /\ Tail(tasks)[i] = tasks[i + 1]
  BY <1>1, LoadsLess
<1>3. 1 \in DOMAIN tasks /\ Head(tasks) = tasks[1]
  BY <1>1
<1>4. \A i \in DOMAIN Tail(tasks) : Tail(tasks)[i].do = "fire" => AsWritten(Tail(tasks)[i])
  <2> SUFFICES ASSUME NEW i \in DOMAIN Tail(tasks), Tail(tasks)[i].do = "fire"
               PROVE  AsWritten(Tail(tasks)[i])
    OBVIOUS
  <2>1. i + 1 \in DOMAIN tasks /\ Tail(tasks)[i] = tasks[i + 1]
    BY <1>2
  <2> QED
    BY <1>1, <2>1
<1>5. \A t \in RuleTask : /\ t.do = "fire" => t \in Firing
                          /\ t.do = "load" => t \in ToLoad
  BY DEF RuleTask, ToLoad, Firing
<1> QED
  BY <1>1, <1>2, <1>3, <1>4, <1>5

(* How many loads there have been and are to come.                         *)
LEMMA LoadsOf ==
  ASSUME RulesInv
  PROVE  /\ Cardinality(LoadsAt(tasks)) \in Nat /\ serial \in Nat /\ MaxLoads \in Nat
         /\ serial + Cardinality(LoadsAt(tasks)) <= MaxLoads
         /\ Loads = serial + Cardinality(LoadsAt(tasks))
<1>1. Loads = serial + Cardinality(LoadsAt(tasks))
  BY DEF Loads, LoadsAt
<1>2. Cardinality(LoadsAt(tasks)) \in Nat
  BY LoadsFinite DEF RulesInv, RulesShape
<1> QED
  BY <1>1, <1>2, RulesAssumption DEF RulesInv, RulesShape, InTurn

(* The steps that fire a rule on a turn of its own, or on request.         *)
LEMMA FiringKeeps ==
  ASSUME RulesInv, NEW later \in Seq(RuleTask), Fired(later), Len(later) <= Len(tasks),
         \A i \in DOMAIN later : later[i].do = "fire" => AsWritten(later[i]),
         Cardinality(LoadsAt(later)) = Cardinality(LoadsAt(tasks)),
         UNCHANGED <<setup, book, var, serial, delivering, listener, stray, heard, session, late>>,
         due' \in Seq(Firing), owed' \subseteq owed,
         \A t \in ToSet(due') : t \in ToSet(due),
         \A t \in owed' : t \in ToSet(due) => t \in ToSet(due')
  PROVE  /\ RulesInv'
         /\ \A i \in DOMAIN tasks' : i > Len(tasks) /\ tasks'[i].do = "fire" =>
              /\ running[tasks'[i].id].seen = "no"
              /\ running[tasks'[i].id].serial = tasks'[i].serial
<1>1. /\ AsLoaded' /\ \A t \in Firing : AsWritten(t) => AsWritten(t)'
      /\ \A i \in DOMAIN tasks' : tasks'[i].do = "fire" => AsWritten(tasks[i])'
      /\ \A i \in DOMAIN tasks' : i > Len(later) /\ tasks'[i].do = "fire" =>
           /\ running[tasks'[i].id].seen = "no"
           /\ running[tasks'[i].id].serial = tasks'[i].serial
  BY FiredWritten
<1>2. /\ due \in Seq(Firing) /\ owed \subseteq Firing /\ tasks \in Seq(RuleTask)
      /\ (\A i \in DOMAIN due : AsWritten(due[i])) /\ (\A t \in owed : AsWritten(t))
  BY DEF RulesInv, RulesShape, FiringsAsWritten
<1>3. RulesShape'
  BY <1>2 DEF RulesInv, RulesShape, Fired
<1>4. FiringsAsWritten'
  <2>0. \A i \in DOMAIN due : due[i] \in Firing
    BY <1>2
  <2>1. \A t \in ToSet(due') : t \in Firing /\ AsWritten(t)
    <3> SUFFICES ASSUME NEW t \in ToSet(due)
                 PROVE  t \in Firing /\ AsWritten(t)
      OBVIOUS
    <3>1. PICK i \in DOMAIN due : t = due[i]
      BY DEF ToSet
    <3> QED
      BY <1>2, <2>0, <3>1
  <2>2. \A i \in DOMAIN due' : due'[i] \in ToSet(due')
    BY DEF ToSet
  <2>3. \A i \in DOMAIN due' : AsWritten(due[i])'
    <3> SUFFICES ASSUME NEW i \in DOMAIN due'
                 PROVE  AsWritten(due[i])'
      OBVIOUS
    <3>1. AsWritten(due'[i]) /\ due'[i] \in Firing
      BY <2>1, <2>2
    <3>2. running'[due'[i].id].serial = running[due'[i].id].serial
          /\ running'[due'[i].id].rule = running[due'[i].id].rule
      BY <3>1 DEF Firing, Fired, Same
    <3> QED
      BY <3>1, <3>2 DEF AsWritten
  <2>4. \A t \in owed' : AsWritten(t)'
    BY <1>1, <1>2
  <2> QED
    BY <1>1, <2>3, <2>4 DEF FiringsAsWritten
<1>5. EndHeard'
  <2> SUFFICES ASSUME NEW t \in owed', running'[t.id].serial = t.serial
               PROVE  /\ t.rule.on = "ending" /\ "ending" \in ToSet(heard')
                      /\ delivering' /\ Head(heard') = "ending" => t \in ToSet(due')
    BY DEF EndHeard
  <2>1. t \in owed /\ t.id \in RuleIds
    BY <1>2 DEF Firing
  <2>2. running[t.id].serial = t.serial
    BY <2>1 DEF Fired, Same
  <2> QED
    BY <2>1, <2>2 DEF RulesInv, EndHeard
<1>6. InTurn'
  <2>1. Loads' = serial' + Cardinality(LoadsAt(tasks'))
    BY DEF Loads, LoadsAt
  <2>2. Loads' <= MaxLoads
    BY <2>1, LoadsOf DEF Fired
  <2> QED
    BY <2>2 DEF RulesInv, InTurn
<1>7. RulesInv'
  BY <1>1, <1>3, <1>4, <1>5, <1>6 DEF RulesInv, Fired
<1>8. \A i \in DOMAIN tasks' : i > Len(tasks) => i > Len(later)
  <2>1. tasks' \in Seq(RuleTask)
    BY DEF Fired
  <2>2. Len(tasks) \in Nat /\ Len(later) \in Nat /\ \A i \in DOMAIN tasks' : i \in Nat
    BY <1>2, <2>1
  <2> QED
    BY <2>2
<1> QED
  BY <1>1, <1>7, <1>8

(* What is deferred follows a "no" that the reading itself gave.           *)
Crossing ==
  \A i \in DOMAIN tasks' :
    i > Len(tasks) /\ tasks'[i].do = "fire" =>
      running[tasks'[i].id].seen = "no" /\ running[tasks'[i].id].serial = tasks'[i].serial

LEMMA TurnKeeps ==
  ASSUME RulesInv, Turn
  PROVE  RulesInv' /\ Crossing
<1>1. /\ tasks # <<>> /\ Head(tasks).do = "fire" /\ FireOne(Head(tasks), Tail(tasks))
      /\ UNCHANGED <<setup, book, var, serial, due, delivering, listener, stray, heard,
                     session, late, owed>>
  BY DEF Turn
<1>2. tasks \in Seq(RuleTask) /\ due \in Seq(Firing)
  BY DEF RulesInv, RulesShape
<1>3. /\ Head(tasks) \in Firing /\ AsWritten(Head(tasks)) /\ Tail(tasks) \in Seq(RuleTask)
      /\ \A i \in DOMAIN Tail(tasks) : Tail(tasks)[i].do = "fire" => AsWritten(Tail(tasks)[i])
  BY <1>1, HeadFires
<1>4. /\ Len(Tail(tasks)) < Len(tasks) /\ Len(Tail(tasks)) \in Nat /\ Len(tasks) \in Nat
      /\ Cardinality(LoadsAt(Tail(tasks)))
           = Cardinality(LoadsAt(tasks)) - (IF Head(tasks).do = "load" THEN 1 ELSE 0)
  BY <1>1, <1>2, LoadsLess
<1>5. Len(Tail(tasks)) <= Len(tasks) /\ Cardinality(LoadsAt(Tail(tasks))) = Cardinality(LoadsAt(tasks))
  BY <1>1, <1>4, LoadsOf
<1>6. Fired(Tail(tasks))
  BY <1>1, <1>3, FiredOne
<1> QED
  BY <1>1, <1>2, <1>3, <1>5, <1>6, FiringKeeps DEF Crossing

LEMMA RunNowKeeps ==
  ASSUME RulesInv, NEW id \in RuleIds, RunNow(id)
  PROVE  RulesInv' /\ Crossing
<1>1. /\ id \in Written(book) \ suspended /\ Perform(id, book[id], tasks)
      /\ UNCHANGED <<setup, book, var, serial, due, delivering, listener, stray, heard,
                     session, late, owed>>
  BY DEF RunNow
<1>2. /\ tasks \in Seq(RuleTask) /\ due \in Seq(Firing)
      /\ \A i \in DOMAIN tasks : tasks[i].do = "fire" => AsWritten(tasks[i])
  BY DEF RulesInv, RulesShape, FiringsAsWritten
<1>3. Fired(tasks)
  BY <1>1, <1>2, Performed
<1>4. Len(tasks) <= Len(tasks)
  BY <1>2
<1> QED
  BY <1>1, <1>2, <1>3, <1>4, FiringKeeps DEF Crossing

LEMMA FireDueKeeps ==
  ASSUME RulesInv, FireDue
  PROVE  RulesInv' /\ Crossing
<1>1. /\ due # <<>> /\ due' = Tail(due) /\ owed' = owed \ {Head(due)}
      /\ FireOne(Head(due), tasks)
      /\ UNCHANGED <<setup, book, var, serial, delivering, listener, stray, heard, session, late>>
  BY DEF FireDue
<1>2. /\ tasks \in Seq(RuleTask) /\ due \in Seq(Firing)
      /\ \A i \in DOMAIN tasks : tasks[i].do = "fire" => AsWritten(tasks[i])
      /\ \A i \in DOMAIN due : AsWritten(due[i])
  BY DEF RulesInv, RulesShape, FiringsAsWritten
<1>3. /\ Tail(due) \in Seq(Firing) /\ Head(due) = due[1] /\ 1 \in DOMAIN due
      /\ DOMAIN due = 1 .. Len(due) /\ DOMAIN Tail(due) = 1 .. Len(due) - 1 /\ Len(due) \in Nat
      /\ \A i \in 1 .. Len(due) - 1 : Tail(due)[i] = due[i + 1]
  BY <1>1, <1>2
<1>4. Head(due) \in Firing /\ AsWritten(Head(due))
  BY <1>2, <1>3
<1>5. Fired(tasks)
  BY <1>1, <1>2, <1>4, FiredOne
<1>6. \A t \in ToSet(due') : t \in ToSet(due)
  <2> SUFFICES ASSUME NEW i \in DOMAIN Tail(due)
               PROVE  \E j \in DOMAIN due : due[j] = Tail(due)[i]
    BY <1>1 DEF ToSet
  <2>1. i + 1 \in DOMAIN due
    BY <1>3
  <2> QED
    BY <1>3, <2>1
<1>7. \A t \in owed' : t \in ToSet(due) => t \in ToSet(due')
  <2> SUFFICES ASSUME NEW j \in DOMAIN due, due[j] # Head(due)
               PROVE  \E i \in DOMAIN Tail(due) : Tail(due)[i] = due[j]
    BY <1>1 DEF ToSet
  <2>1. j \in 1 .. Len(due) /\ j # 1
    BY <1>3
  <2>2. j - 1 \in 1 .. Len(due) - 1 /\ (j - 1) + 1 = j
    BY <1>3, <2>1
  <2> QED
    BY <1>3, <2>2
<1>8. Len(tasks) <= Len(tasks) /\ owed' \subseteq owed /\ due' \in Seq(Firing)
  BY <1>1, <1>2, <1>3
<1> QED
  BY <1>1, <1>2, <1>5, <1>6, <1>7, <1>8, FiringKeeps DEF Crossing

LEMMA PublishKeeps ==
  ASSUME RulesInv, Publish
  PROVE  RulesInv' /\ Crossing
<1>1. PICK now \in Readings : Reacts(running, now, tasks)
  BY DEF Publish, Readings
<1>2. UNCHANGED <<setup, book, var, serial, due, delivering, listener, stray, heard, spent,
                  suspended, failing, misfired, session, late, owed>>
  BY DEF Publish
<1>3. /\ tasks \in Seq(RuleTask) /\ due \in Seq(Firing) /\ running \in [RuleIds -> LoadedRule]
      /\ \A i \in DOMAIN tasks : tasks[i].do = "fire" => AsWritten(tasks[i])
  BY DEF RulesInv, RulesShape, FiringsAsWritten
<1>4. /\ x' = now /\ running' \in [RuleIds -> LoadedRule] /\ EdgesStand'
      /\ \A id \in RuleIds : Same(running'[id], running[id])
      /\ tasks' \in Seq(RuleTask) /\ LoadsAt(tasks') = LoadsAt(tasks)
      /\ \A i \in DOMAIN tasks' :
           \/ i <= Len(tasks) /\ tasks'[i] = tasks[i]
           \/ /\ i > Len(tasks) /\ tasks'[i] \in Firing
              /\ \E id \in RuleIds : /\ tasks'[i] = Fire(id, running[id])
                                     /\ Loaded(running[id]) /\ running[id].seen = "no"
  BY <1>1, <1>3, Reacted
<1>5. /\ spent' \in [RuleIds -> 0 .. PerSecond + 1] /\ suspended' \subseteq RuleIds
      /\ misfired' \in BOOLEAN /\ Overspent' /\ FiresAsWritten' /\ FailuresWritten'
  BY <1>2 DEF RulesInv, RulesShape, Overspent, FiresAsWritten, FailuresWritten, Written
<1>6. Fired(tasks)
  BY <1>4, <1>5 DEF Fired
<1>7. Len(tasks) <= Len(tasks)
  BY <1>3
<1> QED
  BY <1>2, <1>3, <1>6, <1>7, FiringKeeps DEF Crossing

-----------------------------------------------------------------------------
(* What becomes of a rule as the set is checked again: it is not loaded,   *)
(* or it is the one it was, or it is one no firing was put off for.        *)
LEMMA ReconciledIs ==
  ASSUME RulesShape, NEW b \in [RuleIds -> RuleText], NEW v \in {"none", "number", "text"}
  PROVE  /\ Reconciled(b, v) \in [RuleIds -> LoadedRule]
         /\ \A id \in RuleIds :
              \/ Reconciled(b, v)[id] = NotLoaded /\ ~Prepared(b[id], v)
              \/ /\ Reconciled(b, v)[id] = running[id]
                 /\ Prepared(b[id], v) /\ Unchanged(running[id], b[id], v)
              \/ /\ Reconciled(b, v)[id] = [serial |-> serial + 1, rule |-> b[id],
                                            meaning |-> Meaning(b[id], v), seen |-> "never"]
                 /\ Prepared(b[id], v) /\ ~Unchanged(running[id], b[id], v)
<1> DEFINE new(id) == [serial |-> serial + 1, rule |-> b[id], meaning |-> Meaning(b[id], v),
                       seen |-> "never"]
<1>1. NotLoaded \in LoadedRule
  <2>1. NotLoaded.rule \in RuleText
    BY DEF NotLoaded, RuleText, Triggers
  <2> QED
    BY <2>1 DEF NotLoaded, LoadedRule
<1>2. \A id \in RuleIds : new(id) \in LoadedRule
  <2> SUFFICES ASSUME NEW id \in RuleIds
               PROVE  new(id) \in LoadedRule
    OBVIOUS
  <2>1. serial + 1 \in Nat /\ b[id] \in RuleText
    BY DEF RulesShape
  <2>2. Meaning(b[id], v) \in {"none", "number", "text"}
    BY DEF Meaning
  <2> QED
    BY <2>1, <2>2 DEF LoadedRule
<1>3. running \in [RuleIds -> LoadedRule]
  BY DEF RulesShape
<1> HIDE DEF new
<1>4. Reconciled(b, v) = [id \in RuleIds |->
                            IF ~Prepared(b[id], v) THEN NotLoaded
                            ELSE IF Unchanged(running[id], b[id], v) THEN running[id]
                            ELSE new(id)]
  BY DEF Reconciled, new
<1>5. ASSUME NEW id \in RuleIds
      PROVE  \/ Reconciled(b, v)[id] = NotLoaded /\ ~Prepared(b[id], v)
             \/ /\ Reconciled(b, v)[id] = running[id]
                /\ Prepared(b[id], v) /\ Unchanged(running[id], b[id], v)
             \/ /\ Reconciled(b, v)[id] = new(id)
                /\ Prepared(b[id], v) /\ ~Unchanged(running[id], b[id], v)
  BY <1>4
<1> QED
  BY <1>1, <1>2, <1>3, <1>4, <1>5 DEF new

(* Checking the set again, for a new book or a new variable.               *)
Rechecked(b, v, later) ==
  /\ RulesInv' /\ Crossing
  /\ \A id \in RuleIds :
       Loaded(running[id]) =>
         (b[id] = book[id] /\ (book[id].on = "named" => v = var) <=> running'[id] = running[id])

LEMMA ReconcileKeeps ==
  ASSUME RulesInv, ~delivering, NEW b \in [RuleIds -> RuleText],
         NEW v \in {"none", "number", "text"}, NEW later \in Seq(RuleTask),
         Reconcile(b, v, later), book' = b, var' = v,
         Len(later) <= Len(tasks), serial + 1 + Cardinality(LoadsAt(later)) <= MaxLoads,
         \A i \in DOMAIN later : later[i].do = "fire" => AsWritten(later[i]),
         UNCHANGED <<setup, due, delivering, session, late, owed>>,
         spent' \in [RuleIds -> 0 .. PerSecond + 1], suspended' \subseteq RuleIds,
         misfired' \in BOOLEAN, Overspent', FiresAsWritten', FailuresWritten'
  PROVE  Rechecked(b, v, later)
<1> DEFINE rules == Reconciled(b, v)
           new(id) == [serial |-> serial + 1, rule |-> b[id], meaning |-> Meaning(b[id], v),
                       seen |-> "never"]
<1>1. /\ serial' = serial + 1 /\ Reacts(rules, x, later) /\ Listens(rules)
      /\ serial \in Nat /\ x \in Readings /\ due \in Seq(Firing) /\ owed \subseteq Firing
      /\ heard \in Seq({"started", "ending"}) /\ tasks \in Seq(RuleTask)
  BY DEF Reconcile, RulesInv, RulesShape
<1>2. /\ rules \in [RuleIds -> LoadedRule]
      /\ \A id \in RuleIds :
           \/ rules[id] = NotLoaded /\ ~Prepared(b[id], v)
           \/ rules[id] = running[id] /\ Prepared(b[id], v) /\ Unchanged(running[id], b[id], v)
           \/ rules[id] = new(id) /\ Prepared(b[id], v) /\ ~Unchanged(running[id], b[id], v)
  BY ReconciledIs DEF RulesInv
<1> HIDE DEF rules
<1>3. /\ x' = x /\ running' \in [RuleIds -> LoadedRule] /\ EdgesStand'
      /\ \A id \in RuleIds : /\ Same(running'[id], rules[id])
                             /\ HasSeen(rules[id], x) => running'[id] = rules[id]
      /\ tasks' \in Seq(RuleTask) /\ LoadsAt(tasks') = LoadsAt(later)
      /\ \A i \in DOMAIN tasks' :
           \/ i <= Len(later) /\ tasks'[i] = later[i]
           \/ /\ i > Len(later) /\ tasks'[i] \in Firing
              /\ \E id \in RuleIds : /\ tasks'[i] = Fire(id, rules[id])
                                     /\ Loaded(rules[id]) /\ rules[id].seen = "no"
  BY <1>1, <1>2, Reacted DEF Reacts
<1>4. ASSUME NEW id \in RuleIds
      PROVE  \/ running'[id] = NotLoaded /\ ~Prepared(b[id], v) /\ rules[id] = NotLoaded
             \/ /\ running'[id] = running[id] /\ rules[id] = running[id]
                /\ Prepared(b[id], v) /\ Unchanged(running[id], b[id], v)
             \/ /\ running'[id].serial = serial + 1 /\ running'[id].rule = b[id]
                /\ running'[id].meaning = Meaning(b[id], v) /\ rules[id].seen = "never"
                /\ Prepared(b[id], v) /\ ~Unchanged(running[id], b[id], v)
  <2>1. HasSeen(NotLoaded, x)
    BY DEF HasSeen, NotLoaded, Watches, Loaded
  <2>2. HasSeen(running[id], x)
    BY DEF RulesInv, EdgesStand
  <2>3. new(id).serial = serial + 1 /\ new(id).rule = b[id]
        /\ new(id).meaning = Meaning(b[id], v) /\ new(id).seen = "never"
    OBVIOUS
  <2> HIDE DEF new
  <2>4. CASE rules[id] = NotLoaded /\ ~Prepared(b[id], v)
    BY <1>3, <2>1, <2>4
  <2>5. CASE rules[id] = running[id] /\ Prepared(b[id], v) /\ Unchanged(running[id], b[id], v)
    BY <1>3, <2>2, <2>5
  <2>6. CASE rules[id] = new(id) /\ Prepared(b[id], v) /\ ~Unchanged(running[id], b[id], v)
    BY <1>3, <2>3, <2>6 DEF Same
  <2> QED
    BY <1>2, <2>4, <2>5, <2>6
<1>5. NotLoaded.serial = 0
  BY DEF NotLoaded
<1> HIDE DEF new
<1>6. AsLoaded'
  <2> SUFFICES ASSUME NEW id \in RuleIds, running'[id].serial # 0
               PROVE  /\ running'[id].serial <= serial + 1
                      /\ running'[id].rule = b[id] /\ running'[id].meaning = Meaning(b[id], v)
                      /\ Prepared(b[id], v)
    BY <1>1 DEF AsLoaded, Loaded, Meaning, Prepared
  <2>1. CASE running'[id] = running[id] /\ Prepared(b[id], v) /\ Unchanged(running[id], b[id], v)
    <3>1. running[id].serial \in Nat /\ running[id].serial <= serial
      BY <2>1 DEF RulesInv, RulesShape, LoadedRule, AsLoaded, Loaded, Unchanged
    <3> QED
      BY <1>1, <2>1, <3>1 DEF Unchanged
  <2>2. CASE /\ running'[id].serial = serial + 1 /\ running'[id].rule = b[id]
             /\ running'[id].meaning = Meaning(b[id], v) /\ Prepared(b[id], v)
    BY <1>1, <2>2
  <2> QED
    BY <1>4, <1>5, <2>1, <2>2
<1>7. \A t \in Firing : AsWritten(t) =>
        /\ AsWritten(t)'
        /\ running'[t.id].serial = t.serial =>
             running'[t.id] = running[t.id] /\ rules[t.id] = running[t.id]
  <2> SUFFICES ASSUME NEW t \in Firing, AsWritten(t)
               PROVE  /\ AsWritten(t)'
                      /\ running'[t.id].serial = t.serial =>
                           running'[t.id] = running[t.id] /\ rules[t.id] = running[t.id]
    OBVIOUS
  <2>1. t.id \in RuleIds /\ t.serial \in Nat \ {0} /\ t.serial <= serial
    BY DEF Firing, AsWritten
  <2>2. t.serial <= serial' /\ t.serial # serial + 1 /\ t.serial # 0
    BY <1>1, <2>1
  <2>3. running'[t.id].serial = t.serial =>
          running'[t.id] = running[t.id] /\ rules[t.id] = running[t.id]
    BY <1>4, <1>5, <2>1, <2>2
  <2> QED
    BY <2>2, <2>3 DEF AsWritten
<1>8. ASSUME NEW i \in DOMAIN tasks', i > Len(later)
      PROVE  /\ running[tasks'[i].id].seen = "no"
             /\ running[tasks'[i].id].serial = tasks'[i].serial
             /\ AsWritten(tasks[i])'
  <2>1. Len(later) \in Nat /\ i \in Nat
    BY <1>3
  <2>2. PICK id \in RuleIds : /\ tasks'[i] = Fire(id, rules[id])
                              /\ Loaded(rules[id]) /\ rules[id].seen = "no"
    BY <1>3, <1>8, <2>1
  <2>3. rules[id] = running[id] /\ running'[id] = running[id]
    BY <1>4, <1>5, <2>2 DEF Loaded
  <2>4. /\ tasks'[i].id = id /\ tasks'[i].serial = running[id].serial
        /\ tasks'[i].rule = running[id].rule
    BY <2>2, <2>3 DEF Fire
  <2>5. running[id].serial <= serial' /\ running[id].serial \in Nat
    BY <1>1, <2>2, <2>3 DEF RulesInv, AsLoaded, RulesShape, LoadedRule
  <2> QED
    BY <2>2, <2>3, <2>4, <2>5 DEF AsWritten
<1>9. FiringsAsWritten'
  <2>1. ASSUME NEW i \in DOMAIN tasks', tasks'[i].do = "fire", ~(i > Len(later))
        PROVE  AsWritten(tasks[i])'
    <3>1. Len(later) \in Nat /\ i \in Nat \ {0} /\ DOMAIN later = 1 .. Len(later)
      BY <1>3
    <3>2. i \in DOMAIN later /\ tasks'[i] = later[i]
      BY <1>3, <2>1, <3>1
    <3>3. later[i] \in RuleTask /\ AsWritten(later[i])
      BY <2>1, <3>2
    <3>4. later[i] \in Firing
      BY <2>1, <3>2, <3>3 DEF RuleTask, ToLoad
    <3>5. AsWritten(later[i])'
      BY <1>7, <3>3, <3>4
    <3> QED
      BY <3>2, <3>5 DEF AsWritten
  <2>2. \A i \in DOMAIN due : due[i] \in Firing /\ AsWritten(due[i])
    BY <1>1 DEF RulesInv, FiringsAsWritten
  <2>3. \A i \in DOMAIN due : AsWritten(due[i])'
    <3> SUFFICES ASSUME NEW i \in DOMAIN due
                 PROVE  AsWritten(due[i])'
      OBVIOUS
    <3>1. due[i] \in Firing /\ AsWritten(due[i]) /\ due' = due
      BY <2>2
    <3>2. PICK t \in Firing : t = due[i]
      BY <3>1
    <3>3. AsWritten(t)'
      BY <1>7, <3>1, <3>2
    <3> QED
      BY <3>1, <3>2, <3>3 DEF AsWritten
  <2>4. \A t \in owed' : AsWritten(t)'
    BY <1>1, <1>7 DEF RulesInv, FiringsAsWritten
  <2>5. \A i \in DOMAIN tasks' : tasks'[i].do = "fire" => AsWritten(tasks[i])'
    BY <1>8, <2>1
  <2>6. \A i \in DOMAIN due' : AsWritten(due[i])'
    BY <2>3
  <2> QED
    BY <2>4, <2>5, <2>6 DEF FiringsAsWritten
<1>10. EndHeard'
  <2> SUFFICES ASSUME NEW t \in owed, running'[t.id].serial = t.serial
               PROVE  t.rule.on = "ending" /\ "ending" \in ToSet(heard')
    BY DEF EndHeard
  <2>1. t \in Firing /\ AsWritten(t) /\ t.id \in RuleIds /\ t.serial # 0
    BY <1>1 DEF RulesInv, FiringsAsWritten, Firing
  <2>2. rules[t.id] = running[t.id] /\ running[t.id].serial = t.serial
    BY <1>7, <2>1
  <2>3. t.rule = running[t.id].rule /\ t.rule.on = "ending" /\ "ending" \in ToSet(heard)
    BY <2>1, <2>2 DEF AsWritten, RulesInv, EndHeard
  <2>4. OnEvent(rules[t.id], "ending")
    BY <2>1, <2>2, <2>3 DEF OnEvent, Loaded
  <2>5. heard' = heard
    BY <1>1, <2>1, <2>4 DEF Listens
  <2> QED
    BY <2>3, <2>5
<1>11. /\ heard' \in Seq({"started", "ending"}) /\ heard' \in {heard, <<>>}
       /\ listener' \in {"none", "spawned", "listening"} /\ stray' \in {"none", "free", "holding"}
  <2>1. <<>> \in Seq({"started", "ending"})
    OBVIOUS
  <2>2. listener \in {"none", "spawned", "listening"} /\ stray \in {"none", "free", "holding"}
    BY DEF RulesInv, RulesShape
  <2> QED
    BY <1>1, <2>1, <2>2 DEF Listens
<1>12. RulesShape'
  <2>1. serial' \in Nat
    BY <1>1
  <2> QED
    BY <1>1, <1>3, <1>11, <2>1 DEF RulesInv, RulesShape
<1>13. InTurn'
  <2>1. Loads' = serial' + Cardinality(LoadsAt(tasks'))
    BY DEF Loads, LoadsAt
  <2>2. Loads' <= MaxLoads
    BY <1>1, <1>3, <2>1
  <2>3. ToSet(<<>>) = {}
    BY DEF ToSet
  <2>4. "ending" \notin ToSet(heard) => "ending" \notin ToSet(heard')
    BY <1>11, <2>3
  <2> QED
    BY <2>2, <2>4 DEF RulesInv, InTurn
<1>14. Crossing
  <2> SUFFICES ASSUME NEW i \in DOMAIN tasks', i > Len(tasks)
               PROVE  i > Len(later)
    BY <1>8 DEF Crossing
  <2>1. i \in Nat /\ Len(tasks) \in Nat /\ Len(later) \in Nat
    BY <1>1, <1>3
  <2> QED
    BY <2>1
<1>15. ASSUME NEW id \in RuleIds, Loaded(running[id])
       PROVE  b[id] = book[id] /\ (book[id].on = "named" => v = var) <=> running'[id] = running[id]
  <2>1. /\ running[id].serial <= serial /\ running[id].serial # 0 /\ running[id].serial \in Nat
        /\ running[id].rule = book[id] /\ running[id].meaning = Meaning(book[id], var)
        /\ Prepared(book[id], var)
    BY <1>15 DEF RulesInv, AsLoaded, Loaded, RulesShape, LoadedRule
  <2>2. running[id].serial # serial + 1
    BY <1>1, <2>1
  <2>3. ASSUME b[id] = book[id], book[id].on = "named" => v = var
        PROVE  running'[id] = running[id]
    <3>1. Meaning(b[id], v) = Meaning(book[id], var) /\ Prepared(b[id], v)
      BY <2>1, <2>3 DEF Meaning, Prepared
    <3>2. Unchanged(running[id], b[id], v)
      BY <1>15, <2>1, <2>3, <3>1 DEF Unchanged
    <3> QED
      BY <1>4, <3>1, <3>2
  <2>4. ASSUME running'[id] = running[id]
        PROVE  b[id] = book[id] /\ (book[id].on = "named" => v = var)
    <3>1. Unchanged(running[id], b[id], v)
      BY <1>4, <1>5, <2>1, <2>2, <2>4
    <3>2. b[id] = book[id] /\ Meaning(book[id], v) = Meaning(book[id], var)
      BY <2>1, <3>1 DEF Unchanged
    <3> QED
      BY <3>2 DEF Meaning
  <2> QED
    BY <2>3, <2>4
<1>16. RulesInv'
  BY <1>3, <1>6, <1>9, <1>10, <1>12, <1>13 DEF RulesInv
<1> QED
  BY <1>14, <1>15, <1>16 DEF Rechecked

(* An unchanged rule keeps its edge, a changed one starts anew.            *)
KeepsEdges ==
  \A id \in RuleIds :
    serial' # serial /\ Loaded(running[id]) =>
      (book'[id] = book[id] /\ (book[id].on = "named" => var' = var)
         <=> running'[id] = running[id])

LEMMA LoadBookKeeps ==
  ASSUME RulesInv, LoadBook
  PROVE  RulesInv' /\ Crossing /\ KeepsEdges
<1>1. /\ ~delivering /\ tasks # <<>> /\ Head(tasks).do = "load" /\ book' = Head(tasks).book
      /\ spent' = [id \in RuleIds |-> 0] /\ suspended' = {} /\ var' = var
      /\ failing' = Refiled(failing, book') \ suspended
      /\ Reconcile(book', var, Tail(tasks))
      /\ UNCHANGED <<setup, due, delivering, misfired, session, late, owed>>
  BY DEF LoadBook, Idle
<1>2. /\ Head(tasks) \in ToLoad /\ Tail(tasks) \in Seq(RuleTask)
      /\ \A i \in DOMAIN Tail(tasks) : Tail(tasks)[i].do = "fire" => AsWritten(Tail(tasks)[i])
  BY <1>1, HeadFires
<1>3. book' \in [RuleIds -> RuleText] /\ var \in {"none", "number", "text"} /\ tasks \in Seq(RuleTask)
  BY <1>1, <1>2 DEF ToLoad, RulesInv, RulesShape
<1>4. /\ Len(Tail(tasks)) < Len(tasks)
      /\ Cardinality(LoadsAt(Tail(tasks))) = Cardinality(LoadsAt(tasks)) - 1
  BY <1>1, <1>3, LoadsLess
<1>5. Len(Tail(tasks)) <= Len(tasks) /\ serial + 1 + Cardinality(LoadsAt(Tail(tasks))) <= MaxLoads
  <2>1. Len(Tail(tasks)) \in Nat /\ Len(tasks) \in Nat
    BY <1>2, <1>3
  <2> QED
    BY <1>4, <2>1, LoadsOf
<1>6. spent' \in [RuleIds -> 0 .. PerSecond + 1] /\ Overspent'
  <2>1. PerSecond \in Nat /\ 0 \in 0 .. PerSecond + 1 /\ ~(0 > PerSecond)
    BY RulesAssumption
  <2> QED
    BY <1>1, <2>1 DEF Overspent
<1>7. /\ FailuresWritten' /\ FiresAsWritten' /\ suspended' \subseteq RuleIds
      /\ misfired' \in BOOLEAN
  BY <1>1 DEF FailuresWritten, FiresAsWritten, Refiled, RulesInv, RulesShape
<1>8. Rechecked(book', var, Tail(tasks))
  BY <1>1, <1>2, <1>3, <1>5, <1>6, <1>7, ReconcileKeeps
<1> QED
  BY <1>1, <1>8 DEF Rechecked, KeepsEdges

LEMMA DeclareVarKeeps ==
  ASSUME RulesInv, DeclareVar
  PROVE  RulesInv' /\ Crossing /\ KeepsEdges
<1>1. /\ ~delivering /\ Loads < MaxLoads /\ var' \in {"none", "number", "text"}
      /\ Reconcile(book, var', tasks)
      /\ UNCHANGED <<setup, book, due, delivering, spent, suspended, failing, misfired,
                     session, late, owed>>
  BY DEF DeclareVar, Idle
<1>2. /\ tasks \in Seq(RuleTask) /\ book \in [RuleIds -> RuleText]
      /\ \A i \in DOMAIN tasks : tasks[i].do = "fire" => AsWritten(tasks[i])
  BY DEF RulesInv, RulesShape, FiringsAsWritten
<1>3. Len(tasks) <= Len(tasks) /\ serial + 1 + Cardinality(LoadsAt(tasks)) <= MaxLoads
  BY <1>1, <1>2, LoadsOf
<1>4. /\ spent' \in [RuleIds -> 0 .. PerSecond + 1] /\ suspended' \subseteq RuleIds
      /\ misfired' \in BOOLEAN /\ Overspent' /\ FiresAsWritten' /\ FailuresWritten'
  BY <1>1 DEF RulesInv, RulesShape, Overspent, FiresAsWritten, FailuresWritten, Written
<1>5. book' = book
  BY <1>1
<1>6. Rechecked(book, var', tasks)
  BY <1>1, <1>2, <1>3, <1>4, ReconcileKeeps
<1> QED
  BY <1>5, <1>6 DEF Rechecked, KeepsEdges

(* The steps that leave what is loaded, and what it has seen, alone.       *)
LEMMA InstallKeeps ==
  ASSUME RulesInv, Install
  PROVE  RulesInv' /\ Crossing
<1>1. /\ ~delivering /\ Loads < MaxLoads
      /\ UNCHANGED <<setup, book, var, x, running, serial, due, delivering, listener, stray,
                     heard, spent, suspended, failing, misfired, session, late, owed>>
  BY DEF Install, Idle
<1>2. PICK b \in Books : tasks' = Append(tasks, Load(b))
  BY DEF Install
<1>3. Load(b) \in ToLoad /\ Load(b) \in RuleTask /\ Load(b).do = "load"
  BY RulesAssumption DEF Load, ToLoad, RuleTask, RuleText
<1>4. /\ tasks \in Seq(RuleTask) /\ due \in Seq(Firing)
      /\ \A i \in DOMAIN tasks : tasks[i].do = "fire" => AsWritten(tasks[i])
  BY DEF RulesInv, RulesShape, FiringsAsWritten
<1> HIDE DEF Load
<1>5. /\ tasks' \in Seq(RuleTask) /\ Len(tasks) \in Nat
      /\ DOMAIN tasks = 1 .. Len(tasks) /\ DOMAIN tasks' = 1 .. Len(tasks) + 1
      /\ tasks'[Len(tasks) + 1] = Load(b)
      /\ \A i \in 1 .. Len(tasks) : tasks'[i] = tasks[i]
  BY <1>2, <1>3, <1>4
<1>6. \A i \in DOMAIN tasks' : tasks'[i].do = "fire" => i \in DOMAIN tasks /\ tasks'[i] = tasks[i]
  <2>1. \A i \in DOMAIN tasks' : i \in 1 .. Len(tasks) \/ i = Len(tasks) + 1
    BY <1>5
  <2>2. Load(b).do # "fire"
    BY <1>3
  <2> QED
    BY <1>5, <2>1, <2>2
<1>7. Loads' <= MaxLoads
  <2>1. Loads' = serial' + Cardinality(LoadsAt(tasks'))
    BY DEF Loads, LoadsAt
  <2>2. Cardinality(LoadsAt(tasks')) = Cardinality(LoadsAt(tasks)) + 1
    BY <1>2, <1>3, <1>4, LoadsMore
  <2> QED
    BY <1>1, <2>1, <2>2, LoadsOf
<1>8. FiringsAsWritten'
  BY <1>1, <1>6 DEF RulesInv, FiringsAsWritten, AsWritten
<1>9. RulesShape'
  BY <1>1, <1>5 DEF RulesInv, RulesShape
<1>10. AsLoaded' /\ EdgesStand' /\ EndHeard' /\ Overspent' /\ FiresAsWritten' /\ FailuresWritten'
  BY <1>1 DEF RulesInv, AsLoaded, EdgesStand, EndHeard, Overspent, FiresAsWritten, FailuresWritten,
              Loaded, Meaning, Prepared, HasSeen, Watches, Value, IsEdge, Written
<1>11. InTurn'
  BY <1>1, <1>7 DEF RulesInv, InTurn
<1>12. Crossing
  <2>1. \A i \in DOMAIN tasks : i <= Len(tasks) /\ i \in Nat
    BY <1>5
  <2> QED
    BY <1>5, <1>6, <2>1 DEF Crossing
<1> QED
  BY <1>8, <1>9, <1>10, <1>11, <1>12 DEF RulesInv

LEMMA QuietKeeps ==
  ASSUME RulesInv, UNCHANGED <<book, var, x, running, serial, tasks, suspended, failing, misfired>>,
         RulesShape', Overspent', EndHeard',
         \A i \in DOMAIN due' : AsWritten(due'[i]), \A t \in owed' : AsWritten(t),
         delivering' => setup' /\ heard' # <<>>,
         session' = "up" => owed' = {} /\ "ending" \notin ToSet(heard'),
         ~setup' => session' = "up"
  PROVE  RulesInv' /\ Crossing
<1>1. AsLoaded' /\ EdgesStand' /\ FiresAsWritten' /\ FailuresWritten'
  BY DEF RulesInv, AsLoaded, EdgesStand, FiresAsWritten, FailuresWritten,
         Loaded, Meaning, Prepared, HasSeen, Watches, Value, IsEdge, Written
<1>2. FiringsAsWritten'
  BY DEF RulesInv, FiringsAsWritten, AsWritten
<1>3. InTurn'
  BY DEF RulesInv, InTurn, Loads
<1>4. Crossing
  <2>1. tasks' = tasks /\ tasks \in Seq(RuleTask)
    BY DEF RulesInv, RulesShape
  <2>2. \A i \in DOMAIN tasks : i <= Len(tasks) /\ i \in Nat /\ Len(tasks) \in Nat
    BY <2>1
  <2> QED
    BY <2>1, <2>2 DEF Crossing
<1> QED
  BY <1>1, <1>2, <1>3, <1>4 DEF RulesInv

LEMMA ElapseKeeps ==
  ASSUME RulesInv, NEW id \in RuleIds, Elapse(id)
  PROVE  RulesInv' /\ Crossing
<1>1. /\ spent' = [spent EXCEPT ![id] = 0] /\ spent \in [RuleIds -> 0 .. PerSecond + 1]
      /\ PerSecond \in Nat
      /\ UNCHANGED <<setup, book, var, x, running, serial, tasks, due, delivering, listener,
                     stray, heard, suspended, failing, misfired, session, late, owed>>
  BY RulesAssumption DEF Elapse, RulesInv, RulesShape
<1>2. 0 \in 0 .. PerSecond + 1 /\ ~(0 > PerSecond)
  BY <1>1
<1>3. /\ spent' \in [RuleIds -> 0 .. PerSecond + 1]
      /\ \A i \in RuleIds : spent'[i] = IF i = id THEN 0 ELSE spent[i]
  BY <1>1, <1>2
<1>4. RulesShape' /\ Overspent'
  BY <1>1, <1>2, <1>3 DEF RulesInv, RulesShape, Overspent
<1>5. EndHeard'
  BY <1>1 DEF RulesInv, EndHeard
<1> QED
  BY <1>1, <1>4, <1>5, QuietKeeps DEF RulesInv, InTurn, FiringsAsWritten

(* The listener and the grace: nothing a firing depends on.                *)
LEMMA WaitingKeeps ==
  ASSUME RulesInv, Listen \/ StrayGoes \/ GracePasses \/ Act
  PROVE  RulesInv' /\ Crossing
<1>1. UNCHANGED <<setup, book, var, x, running, serial, tasks, due, delivering, heard, spent,
                  suspended, failing, misfired, owed>>
  BY DEF Listen, StrayGoes, GracePasses, Act
<1>3. /\ (listener' = listener \/ listener' = "listening") /\ (stray' = stray \/ stray' = "none")
      /\ session' = session \/ (session = "waiting" /\ session' = "ended")
  BY DEF Listen, StrayGoes, GracePasses, Act
<1>4. late' = late \/ late' = TRUE
  BY DEF Listen, StrayGoes, GracePasses, Act
<1>2. RulesShape' /\ Overspent' /\ EndHeard'
  <2>1. /\ listener' \in {"none", "spawned", "listening"}
        /\ stray' \in {"none", "free", "holding"} /\ session' \in {"up", "waiting", "ended"}
    BY <1>3 DEF RulesInv, RulesShape
  <2>2. late' \in BOOLEAN
    BY <1>4 DEF RulesInv, RulesShape
  <2>3. RulesShape'
    BY <1>1, <2>1, <2>2 DEF RulesInv, RulesShape
  <2>4. Overspent' /\ EndHeard'
    BY <1>1 DEF RulesInv, Overspent, EndHeard
  <2> QED
    BY <2>3, <2>4
<1> QED
  BY <1>1, <1>2, <1>3, QuietKeeps DEF RulesInv, InTurn, FiringsAsWritten

(* What is heard is in the order it was said.                              *)
LEMMA EmitsType ==
  ASSUME RulesInv, NEW event \in {"started", "ending"}, Emits(event)
  PROVE  /\ heard' \in Seq({"started", "ending"}) /\ stray' \in {"none", "free", "holding"}
         /\ heard # <<>> => heard' # <<>> /\ Head(heard') = Head(heard)
         /\ ToSet(heard') = ToSet(heard) \cup (IF listener = "listening" THEN {event} ELSE {})
<1>1. heard \in Seq({"started", "ending"}) /\ stray \in {"none", "free", "holding"}
  BY DEF RulesInv, RulesShape
<1>2. stray' \in {"none", "free", "holding"}
  BY <1>1 DEF Emits
<1>3. CASE listener = "listening"
  <2> DEFINE n == Len(heard)
  <2>1. heard' = Append(heard, event)
    BY <1>3 DEF Emits
  <2>2. /\ heard' \in Seq({"started", "ending"}) /\ n \in Nat /\ DOMAIN heard = 1 .. n
        /\ DOMAIN heard' = 1 .. n + 1 /\ heard'[n + 1] = event
        /\ \A i \in 1 .. n : heard'[i] = heard[i]
    BY <1>1, <2>1
  <2>3. heard # <<>> => heard' # <<>> /\ Head(heard') = Head(heard)
    BY <1>1, <2>1
  <2>4. \A i \in 1 .. n + 1 : i \in 1 .. n \/ i = n + 1
    BY <2>2
  <2>5. n + 1 \in 1 .. n + 1 /\ \A i \in 1 .. n : i \in 1 .. n + 1
    BY <2>2
  <2> HIDE DEF n
  <2>6. ToSet(heard') = ToSet(heard) \cup {event}
    BY <2>2, <2>4, <2>5 DEF ToSet
  <2> QED
    BY <1>2, <1>3, <2>2, <2>3, <2>6
<1>4. CASE listener # "listening"
  BY <1>1, <1>2, <1>4 DEF Emits
<1> QED
  BY <1>3, <1>4

LEMMA SetupReturnsKeeps ==
  ASSUME RulesInv, SetupReturns
  PROVE  RulesInv' /\ Crossing
<1>1. /\ ~setup /\ setup' = TRUE /\ Emits("started")
      /\ UNCHANGED <<book, var, x, running, serial, tasks, due, delivering, listener, spent,
                     suspended, failing, misfired, session, late, owed>>
  BY DEF SetupReturns
<1>2. ~delivering /\ session = "up" /\ owed = {} /\ "ending" \notin ToSet(heard)
  BY <1>1 DEF RulesInv, InTurn
<1>3. /\ heard' \in Seq({"started", "ending"}) /\ stray' \in {"none", "free", "holding"}
      /\ "ending" \notin ToSet(heard')
  BY <1>1, <1>2, EmitsType
<1>4. RulesShape' /\ Overspent' /\ EndHeard'
  BY <1>1, <1>2, <1>3 DEF RulesInv, RulesShape, Overspent, EndHeard
<1> QED
  BY <1>1, <1>2, <1>3, <1>4, QuietKeeps DEF RulesInv, FiringsAsWritten

LEMMA AskKeeps ==
  ASSUME RulesInv, Ask
  PROVE  RulesInv' /\ Crossing
<1> DEFINE those == {id \in RuleIds : OnEvent(running[id], "ending")}
<1>1. /\ setup /\ session = "up" /\ session' = "waiting" /\ Emits("ending")
      /\ owed' = IF listener = "listening" THEN {Fire(id, running[id]) : id \in those} ELSE {}
      /\ UNCHANGED <<setup, book, var, x, running, serial, tasks, due, delivering, listener, spent,
                     suspended, failing, misfired, late>>
  BY DEF Ask
<1>2. "ending" \notin ToSet(heard) /\ (delivering => heard # <<>>)
      /\ heard \in Seq({"started", "ending"})
  BY <1>1 DEF RulesInv, InTurn, RulesShape
<1>3. /\ heard' \in Seq({"started", "ending"}) /\ stray' \in {"none", "free", "holding"}
      /\ heard # <<>> => heard' # <<>> /\ Head(heard') = Head(heard)
      /\ listener = "listening" => "ending" \in ToSet(heard')
  BY <1>1, EmitsType
<1>4. heard # <<>> => Head(heard) \in ToSet(heard)
  <2>1. heard # <<>> => 1 \in DOMAIN heard /\ Head(heard) = heard[1]
    BY <1>2
  <2> QED
    BY <2>1 DEF ToSet
<1>5. \A t \in owed' : /\ t \in Firing /\ AsWritten(t) /\ t.rule.on = "ending"
                       /\ listener = "listening"
  <2> SUFFICES ASSUME NEW id \in RuleIds, OnEvent(running[id], "ending")
               PROVE  /\ Fire(id, running[id]) \in Firing /\ AsWritten(Fire(id, running[id]))
                      /\ Fire(id, running[id]).rule.on = "ending"
    BY <1>1
  <2>1. running[id] \in LoadedRule /\ running[id].serial # 0 /\ running[id].rule.on = "ending"
    BY DEF OnEvent, Loaded, RulesInv, RulesShape
  <2>2. running[id].serial \in Nat \ {0} /\ running[id].rule \in RuleText
    BY <2>1 DEF LoadedRule
  <2>3. running[id].serial <= serial
    BY <2>1 DEF RulesInv, AsLoaded, Loaded
  <2> QED
    BY <2>1, <2>2, <2>3 DEF Fire, Firing, AsWritten
<1>6. EndHeard'
  <2> SUFFICES ASSUME NEW t \in owed'
               PROVE  /\ t.rule.on = "ending" /\ "ending" \in ToSet(heard')
                      /\ ~(delivering /\ Head(heard') = "ending")
    BY <1>1 DEF EndHeard
  <2> QED
    BY <1>2, <1>3, <1>4, <1>5
<1>7. RulesShape' /\ Overspent'
  BY <1>1, <1>3, <1>5 DEF RulesInv, RulesShape, Overspent
<1> HIDE DEF those
<1>8. session' # "up" /\ setup' /\ (delivering' => heard' # <<>>)
  BY <1>1, <1>2, <1>3
<1> QED
  BY <1>1, <1>5, <1>6, <1>7, <1>8, QuietKeeps DEF RulesInv, FiringsAsWritten

LEMMA DeliverKeeps ==
  ASSUME RulesInv, Deliver
  PROVE  RulesInv' /\ Crossing
<1> DEFINE on  == {id \in RuleIds : OnEvent(running[id], Head(heard))}
           hits == InOrder(on)
<1>1. /\ setup /\ heard # <<>> /\ delivering' = TRUE
      /\ due' = [i \in DOMAIN hits |-> Fire(hits[i], running[hits[i]])]
      /\ UNCHANGED <<setup, book, var, x, running, serial, tasks, listener, stray, heard, spent,
                     suspended, failing, misfired, session, late, owed>>
  BY DEF Deliver, Idle
<1>2. on \in SUBSET RuleIds
  OBVIOUS
<1>3. \A id \in on : Fire(id, running[id]) \in Firing /\ AsWritten(Fire(id, running[id]))
  <2> SUFFICES ASSUME NEW id \in RuleIds, OnEvent(running[id], Head(heard))
               PROVE  Fire(id, running[id]) \in Firing /\ AsWritten(Fire(id, running[id]))
    OBVIOUS
  <2>1. running[id] \in LoadedRule /\ running[id].serial # 0
    BY DEF OnEvent, Loaded, RulesInv, RulesShape
  <2>2. running[id].serial \in Nat \ {0} /\ running[id].rule \in RuleText
    BY <2>1 DEF LoadedRule
  <2>3. running[id].serial <= serial
    BY <2>1 DEF RulesInv, AsLoaded, Loaded
  <2> QED
    BY <2>1, <2>2, <2>3 DEF Fire, Firing, AsWritten
<1>4. /\ hits \in Seq(RuleIds) /\ \A i \in DOMAIN hits : hits[i] \in on
      /\ \A id \in on : \E i \in DOMAIN hits : hits[i] = id
  <2> HIDE DEF on
  <2> QED
    BY <1>2, InOrderType
<1>5. \A id \in RuleIds : OnEvent(running[id], Head(heard)) => id \in on
  OBVIOUS
<1> HIDE DEF on, hits
<1>6. Len(hits) \in Nat /\ DOMAIN hits = 1 .. Len(hits)
  BY <1>4
<1>7. /\ due' \in Seq(Firing) /\ DOMAIN due' = DOMAIN hits
      /\ \A i \in DOMAIN due' : due'[i] = Fire(hits[i], running[hits[i]]) /\ AsWritten(due'[i])
  <2>1. due' \in [1 .. Len(hits) -> Firing]
    BY <1>1, <1>3, <1>4, <1>6
  <2>2. due' \in Seq(Firing)
    BY <1>6, <2>1
  <2> QED
    BY <1>1, <1>3, <1>4, <1>6, <2>2
<1>8. EndHeard'
  <2> SUFFICES ASSUME NEW t \in owed, running[t.id].serial = t.serial
               PROVE  /\ t.rule.on = "ending" /\ "ending" \in ToSet(heard)
                      /\ Head(heard) = "ending" => t \in ToSet(due')
    BY <1>1 DEF EndHeard
  <2>1. t \in Firing /\ AsWritten(t) /\ t.rule.on = "ending" /\ "ending" \in ToSet(heard)
    BY DEF RulesInv, RulesShape, FiringsAsWritten, EndHeard
  <2>2. ASSUME Head(heard) = "ending"
        PROVE  t \in ToSet(due')
    <3>1. t.id \in RuleIds /\ t.serial # 0 /\ t.rule = running[t.id].rule
      BY <2>1 DEF Firing, AsWritten
    <3>2. t.id \in on
      BY <1>5, <2>1, <2>2, <3>1 DEF OnEvent, Loaded
    <3>3. PICK i \in DOMAIN hits : hits[i] = t.id
      BY <1>4, <3>2
    <3>4. due'[i] = Fire(t.id, running[t.id]) /\ i \in DOMAIN due'
      BY <1>7, <3>3
    <3>5. Fire(t.id, running[t.id]) = t
      BY <2>1, <3>1 DEF Fire, Firing
    <3> QED
      BY <3>4, <3>5 DEF ToSet
  <2> QED
    BY <2>1, <2>2
<1>9. RulesShape' /\ Overspent'
  BY <1>1, <1>7 DEF RulesInv, RulesShape, Overspent
<1> QED
  BY <1>1, <1>7, <1>8, <1>9, QuietKeeps DEF RulesInv, InTurn, FiringsAsWritten

LEMMA DeliveredKeeps ==
  ASSUME RulesInv, Delivered
  PROVE  RulesInv' /\ Crossing
<1>1. /\ delivering /\ due = <<>> /\ delivering' = FALSE /\ heard' = Tail(heard)
      /\ UNCHANGED <<setup, book, var, x, running, serial, tasks, due, listener, stray, spent,
                     suspended, failing, misfired, session, late, owed>>
  BY DEF Delivered
<1>2. heard \in Seq({"started", "ending"}) /\ heard # <<>>
  BY <1>1 DEF RulesInv, RulesShape, InTurn
<1>3. /\ heard' \in Seq({"started", "ending"}) /\ Head(heard) = heard[1]
      /\ Len(heard) \in Nat /\ DOMAIN heard = 1 .. Len(heard)
      /\ DOMAIN Tail(heard) = 1 .. Len(heard) - 1
      /\ \A i \in 1 .. Len(heard) - 1 : Tail(heard)[i] = heard[i + 1]
  BY <1>1, <1>2
<1>4. ToSet(heard') \subseteq ToSet(heard)
  <2> SUFFICES ASSUME NEW i \in 1 .. Len(heard) - 1
               PROVE  heard[i + 1] \in ToSet(heard)
    BY <1>1, <1>3 DEF ToSet
  <2>1. i + 1 \in DOMAIN heard
    BY <1>3
  <2> QED
    BY <2>1 DEF ToSet
<1>5. Head(heard) # "ending" /\ "ending" \in ToSet(heard) => "ending" \in ToSet(heard')
  <2> SUFFICES ASSUME NEW j \in DOMAIN heard, heard[j] = "ending", Head(heard) # "ending"
               PROVE  \E i \in DOMAIN Tail(heard) : Tail(heard)[i] = "ending"
    BY <1>1 DEF ToSet
  <2>1. j \in 1 .. Len(heard) /\ j # 1
    BY <1>3
  <2>2. j - 1 \in 1 .. Len(heard) - 1 /\ (j - 1) + 1 = j
    BY <1>3, <2>1
  <2> QED
    BY <1>3, <2>2
<1>6. EndHeard'
  <2> SUFFICES ASSUME NEW t \in owed, running[t.id].serial = t.serial
               PROVE  t.rule.on = "ending" /\ "ending" \in ToSet(heard')
    BY <1>1 DEF EndHeard
  <2>1. /\ t.rule.on = "ending" /\ "ending" \in ToSet(heard)
        /\ Head(heard) = "ending" => t \in ToSet(due)
    BY <1>1 DEF RulesInv, EndHeard
  <2>2. t \notin ToSet(due)
    BY <1>1 DEF ToSet
  <2> QED
    BY <1>5, <2>1, <2>2
<1>7. RulesShape' /\ Overspent'
  BY <1>1, <1>3 DEF RulesInv, RulesShape, Overspent
<1> QED
  BY <1>1, <1>4, <1>6, <1>7, QuietKeeps DEF RulesInv, InTurn, FiringsAsWritten

-----------------------------------------------------------------------------
LEMMA RulesStart ==
  ASSUME RulesInit
  PROVE  RulesInv
<1>1. PICK b \in Books : tasks = <<Load(b)>>
  BY DEF RulesInit
<1>2. /\ setup = FALSE /\ late = FALSE /\ session = "up" /\ owed = {}
      /\ book = [id \in RuleIds |-> NotLoaded.rule]
      /\ var \in {"none", "number"} /\ x \in Readings
      /\ running = [id \in RuleIds |-> NotLoaded] /\ serial = 0
      /\ due = <<>> /\ delivering = FALSE /\ heard = <<>> /\ listener = "none" /\ stray = "none"
      /\ spent = [id \in RuleIds |-> 0] /\ suspended = {} /\ failing = {} /\ misfired = FALSE
  BY DEF RulesInit, Readings
<1>3. NotLoaded \in LoadedRule /\ NotLoaded.rule \in RuleText /\ NotLoaded.serial = 0
  <2>1. NotLoaded.rule \in RuleText
    BY DEF NotLoaded, RuleText, Triggers
  <2> QED
    BY <2>1 DEF NotLoaded, LoadedRule
<1>4. Load(b) \in ToLoad /\ Load(b) \in RuleTask /\ Load(b).do = "load"
  BY RulesAssumption DEF Load, ToLoad, RuleTask, RuleText
<1>5. PerSecond \in Nat /\ MaxLoads \in Nat \ {0} /\ 0 \in 0 .. PerSecond + 1 /\ ~(0 > PerSecond)
  BY RulesAssumption
<1> HIDE DEF Load
<1>6. tasks \in Seq(RuleTask) /\ DOMAIN tasks = {1} /\ tasks[1] = Load(b)
  BY <1>1, <1>4
<1>7. /\ <<>> \in Seq(Firing) /\ <<>> \in Seq({"started", "ending"})
      /\ DOMAIN <<>> = {} /\ ToSet(<<>>) = {}
  <2>1. <<>> \in Seq(Firing) /\ <<>> \in Seq({"started", "ending"})
    OBVIOUS
  <2>2. DOMAIN <<>> = {}
    OBVIOUS
  <2> QED
    BY <2>1, <2>2 DEF ToSet
<1>8. RulesShape
  <2>1. /\ spent \in [RuleIds -> 0 .. PerSecond + 1] /\ running \in [RuleIds -> LoadedRule]
        /\ book \in [RuleIds -> RuleText]
    BY <1>2, <1>3, <1>5
  <2> QED
    BY <1>2, <1>6, <1>7, <2>1 DEF RulesShape
<1>9. \A id \in RuleIds : ~Loaded(running[id])
  BY <1>2, <1>3 DEF Loaded
<1>10. AsLoaded /\ EdgesStand
  BY <1>9 DEF AsLoaded, EdgesStand, HasSeen, Watches
<1>11. FiringsAsWritten
  <2>1. \A i \in DOMAIN tasks : tasks[i].do # "fire"
    BY <1>4, <1>6
  <2> QED
    BY <1>2, <1>7, <2>1 DEF FiringsAsWritten
<1>12. InTurn
  <2>1. Loads = serial + Cardinality(LoadsAt(tasks))
    BY DEF Loads, LoadsAt
  <2>2. LoadsAt(tasks) = {1}
    BY <1>4, <1>6 DEF LoadsAt
  <2>3. Cardinality({1}) = 1
    BY FS_Singleton
  <2>4. Loads <= MaxLoads
    BY <1>2, <1>5, <2>1, <2>2, <2>3
  <2> QED
    BY <1>2, <1>7, <2>4 DEF InTurn
<1>13. Overspent
  BY <1>2, <1>5 DEF Overspent
<1>14. EndHeard /\ FiresAsWritten /\ FailuresWritten
  BY <1>2 DEF EndHeard, FiresAsWritten, FailuresWritten
<1> QED
  BY <1>8, <1>10, <1>11, <1>12, <1>13, <1>14 DEF RulesInv

(* The session ends after the rules its event triggers.                    *)
EndsAfter ==
  session # "ended" /\ session' = "ended" /\ ~late =>
    \A t \in owed : running[t.id].serial # t.serial

LEMMA RulesStep ==
  ASSUME RulesInv, RulesNext
  PROVE  RulesInv' /\ Crossing /\ KeepsEdges /\ EndsAfter
<1>1. RulesInv' /\ Crossing
  BY TurnKeeps, RunNowKeeps, FireDueKeeps, PublishKeeps, LoadBookKeeps, DeclareVarKeeps,
     InstallKeeps, ElapseKeeps, WaitingKeeps, SetupReturnsKeeps, AskKeeps, DeliverKeeps,
     DeliveredKeeps DEF RulesNext
<1>2. KeepsEdges
  <2>1. CASE LoadBook \/ DeclareVar
    BY <2>1, LoadBookKeeps, DeclareVarKeeps
  <2>2. CASE ~(LoadBook \/ DeclareVar)
    <3>1. serial' = serial
      BY <2>2 DEF RulesNext, SetupReturns, Install, Publish, Turn, Listen, StrayGoes, Deliver,
                  FireDue, Delivered, Ask, GracePasses, Act, RunNow, Elapse
    <3> QED
      BY <3>1 DEF KeepsEdges
  <2> QED
    BY <2>1, <2>2
<1>3. EndsAfter
  <2>1. CASE Act
    <3>1. ~late => "ending" \notin ToSet(heard)
      BY <2>1 DEF Act, Released, Held
    <3> QED
      BY <3>1 DEF EndsAfter, RulesInv, EndHeard
  <2>2. CASE ~Act
    <3>1. session' = session \/ session' = "waiting"
      BY <2>2 DEF RulesNext, SetupReturns, LoadBook, DeclareVar, Install, Publish, Turn, Listen,
                  StrayGoes, Deliver, FireDue, Delivered, Ask, GracePasses, RunNow, Elapse
    <3> QED
      BY <3>1 DEF EndsAfter
  <2> QED
    BY <2>1, <2>2
<1> QED
  BY <1>1, <1>2, <1>3

LEMMA RulesStutters ==
  ASSUME RulesInv, UNCHANGED rulesVars
  PROVE  RulesInv'
<1>1. RulesShape' /\ Overspent' /\ EndHeard'
  BY DEF RulesInv, rulesVars, RulesShape, Overspent, EndHeard
<1> QED
  BY <1>1, QuietKeeps DEF RulesInv, rulesVars, InTurn, FiringsAsWritten

LEMMA RulesInvAlways == RulesSpec => []RulesInv
<1>1. RulesInv /\ [RulesNext]_rulesVars => RulesInv'
  BY RulesStep, RulesStutters
<1> QED
  BY <1>1, RulesStart, PTL DEF RulesSpec

(* However loads and firings are put off to later turns, a rule is fired,  *)
(* judged and reported on as it is written, keeps its edge across reloads  *)
(* that leave it unchanged, and fires once for each time its expression    *)
(* turns: for any books, budgets and number of loads.                      *)
THEOREM RulesAsWrittenAlways == RulesSpec => RulesAsWritten
<1>1. RulesInv => FiresAsWritten /\ FailuresWritten
  BY DEF RulesInv
<1>2. RulesInv /\ [RulesNext]_rulesVars =>
        /\ [\A id \in RuleIds :
              serial' # serial /\ Loaded(running[id]) =>
                (book'[id] = book[id] /\ (book[id].on = "named" => var' = var)
                   <=> running'[id] = running[id])]_rulesVars
        /\ [\A i \in DOMAIN tasks' :
              i > Len(tasks) /\ tasks'[i].do = "fire" =>
                running[tasks'[i].id].seen = "no" /\ running[tasks'[i].id].serial = tasks'[i].serial]_rulesVars
  <2> SUFFICES ASSUME RulesInv, RulesNext
               PROVE  KeepsEdges /\ Crossing
    BY Zenon DEF KeepsEdges, Crossing
  <2> QED
    BY RulesStep
<1>3. RulesSpec => [](FiresAsWritten /\ FailuresWritten)
  BY <1>1, RulesInvAlways, PTL
<1>4. RulesSpec => ReloadKeeps /\ OncePerCrossing
  BY <1>2, RulesInvAlways, PTL DEF RulesSpec, ReloadKeeps, OncePerCrossing
<1> QED
  BY <1>3, <1>4, PTL DEF RulesAsWritten

(* The session ends after the rules its event triggers: unless the grace   *)
(* has passed, each that heard of it has been fired, or was taken out.     *)
THEOREM EndsAfterRulesAlways == RulesSpec => EndsAfterRules
<1>1. RulesInv /\ [RulesNext]_rulesVars =>
        [session # "ended" /\ session' = "ended" /\ ~late =>
           \A t \in owed : running[t.id].serial # t.serial]_rulesVars
  BY RulesStep DEF EndsAfter
<1> QED
  BY <1>1, RulesInvAlways, PTL DEF RulesSpec, EndsAfterRules

LEMMA RulesTypes == RulesInv => RulesTypeOK
<1> SUFFICES ASSUME RulesInv
             PROVE  RulesTypeOK
  OBVIOUS
<1>1. \A id \in RuleIds : /\ running[id] \in LoadedRule
                          /\ running[id].serial # 0 => running[id].serial <= serial
  BY DEF RulesInv, RulesShape, AsLoaded, Loaded
<1>2. \A id \in RuleIds : /\ running[id].serial \in Nat /\ running[id].seen \in {"never", "yes", "no"}
                          /\ running[id].serial <= serial
  BY <1>1 DEF RulesInv, RulesShape, LoadedRule
<1>3. \A id \in RuleIds : running[id].serial \in 0 .. MaxLoads
  BY <1>2, LoadsOf
<1>4. failing \subseteq RuleIds
  BY DEF RulesInv, FailuresWritten, Written
<1>5. misfired \in BOOLEAN
  BY DEF RulesInv, RulesShape
<1>6. \A id \in RuleIds : spent[id] \in 0 .. PerSecond + 1
  BY DEF RulesInv, RulesShape
<1>7. {setup, late, delivering, misfired} \subseteq BOOLEAN
  BY <1>5 DEF RulesInv, RulesShape
<1> QED
  BY <1>2, <1>3, <1>4, <1>6, <1>7 DEF RulesInv, RulesShape, RulesTypeOK, RuleText, Readings

(* The engine's types, with loads and budgets within their bounds.         *)
THEOREM RulesTyped == RulesSpec => []RulesTypeOK
BY RulesTypes, RulesInvAlways, PTL

-----------------------------------------------------------------------------
(* The configuration that is loaded again: what is on screen, in the       *)
(* notice and in the forms of the settings window is what the files hold,  *)
(* whoever writes them and whenever it is looked at.                       *)
(* What there is, of the shape it has: nothing is shown, remembered or     *)
(* vouched for that was not written.                                       *)
ReloadShape ==
  /\ written \in 2 .. MaxWrites /\ broken \subseteq 2 .. written /\ moves \in 0 .. MaxMoves
  /\ files \in 0 .. written /\ last \in 0 .. written /\ ticks \in Nat
  /\ content \in 0 .. written /\ loaded \in 0 .. written /\ screen \in 0 .. written
  /\ forms \in 0 .. written /\ showing \in 0 .. written /\ opened \in 0 .. written
  /\ applied \in (0 .. written) \cup {Unset} /\ stamp \in (0 .. written) \cup {Unset}
  /\ pace \in {"idle", "load", "seed", "apply", "save", "stamp"}
  /\ saved \in BOOLEAN /\ always \in BOOLEAN /\ own \in BOOLEAN /\ notice \in BOOLEAN
  /\ window \in BOOLEAN
  /\ pace = "save" => written < MaxWrites
  /\ saved => files # Missing

OwnsShape == owns \in Seq(1 .. MaxWrites) /\ Len(owns) <= Kept /\ IsInjective(owns)

Loading == pace \in {"load", "seed", "apply"}

(* What the files hold is on screen, or about to be looked at.             *)
Reaching ==
  /\ EditsReachScreen /\ screen \notin broken
  /\ pace = "apply" => loaded \notin broken /\ loaded # Missing
  /\ pace \in {"apply", "stamp"} /\ files # Missing /\ ~(pace = "apply" /\ files = loaded) =>
       last # files \/ ticks > 0

(* What a reload took in is not what the files hold once more, if it was   *)
(* not what it loaded.                                                     *)
Recognised ==
  /\ pace # "apply" /\ applied \notin {screen, Unset, Missing} => files # applied
  /\ pace = "apply" /\ content \notin {loaded, Missing} => files # content
  /\ files = Starter => Starter \in {loaded, forms}
  /\ files = Missing => last # Starter
  /\ Loading /\ content = Starter => files # Missing
  /\ pace = "seed" => content # Starter /\ loaded = Starter
  /\ Loading /\ ~always => applied # content

(* What the window vouched for since the last reload is what it shows.     *)
FormsHeld ==
  window =>
    /\ stamp \in {Unset, applied, forms}
    /\ showing # Missing => forms = showing
    /\ showing = Missing => /\ files # Missing /\ stamp \in {Unset, applied}
                            /\ ~(pace = "save" /\ content = Missing)

(* What the shell has written, it knows as its own until it has loaded it. *)
OwnsHeld ==
  /\ saved /\ pace \in {"idle", "save"} /\ applied # files /\ files \notin broken =>
       files \in ToSet(owns)
  /\ Loading /\ saved => content = files /\ (always \/ own \/ files \in broken)

ReloadInv == ReloadShape /\ OwnsShape /\ Reaching /\ Recognised /\ FormsHeld /\ OwnsHeld

-----------------------------------------------------------------------------
LEMMA CountedTo ==
  ASSUME NEW n \in Nat
  PROVE  IsFiniteSet(1 .. n) /\ Cardinality(1 .. n) = n
<1>1. /\ IsFiniteSet(1 .. n)
      /\ Cardinality(1 .. n) = IF 1 > n THEN 0 ELSE n - 1 + 1
  BY FS_Interval
<1> QED
  BY <1>1

(* A write is the newest of those kept, and is kept once.                  *)
LEMMA WroteType ==
  ASSUME NEW q \in Seq(1 .. MaxWrites), Len(q) <= Kept, IsInjective(q), NEW held \in 1 .. MaxWrites
  PROVE  /\ Wrote(q, held) \in Seq(1 .. MaxWrites) /\ Len(Wrote(q, held)) <= Kept
         /\ IsInjective(Wrote(q, held)) /\ held \in ToSet(Wrote(q, held))
<1> DEFINE S == 1 .. MaxWrites
           at == {i \in DOMAIN q : q[i] # held}
           n == Cardinality(at)
           others == Picked(q, at)
<1>0. at \in SUBSET DOMAIN q /\ DOMAIN q = 1 .. Len(q) /\ Len(q) \in Nat /\ q \in Seq(S)
  OBVIOUS
<1>1. \A i \in at : q[i] # held
  OBVIOUS
<1>2. Kept \in Nat /\ Kept > 0
  BY ReloadAssumption
<1>3. \A i, j \in DOMAIN q : q[i] = q[j] => i = j
  BY DEF IsInjective
<1> HIDE DEF at, S
<1>4. /\ IsFiniteSet(at) /\ at \subseteq Nat /\ n \in Nat
      /\ others \in Seq(S) /\ DOMAIN others = 1 .. n
      /\ \A k \in 1 .. n : Place(at, k) \in at /\ others[k] = q[Place(at, k)]
  BY <1>0, PickedType
<1>5. n <= Len(q)
  <2>1. IsFiniteSet(1 .. Len(q)) /\ Cardinality(1 .. Len(q)) = Len(q)
    BY <1>0, CountedTo
  <2>2. at \in SUBSET (1 .. Len(q))
    BY <1>0
  <2> QED
    BY <2>1, <2>2, FS_Subset
<1>6. Len(others) = n
  BY <1>4
<1>7. \A k, m \in 1 .. n : others[k] = others[m] => k = m
  <2> SUFFICES ASSUME NEW k \in 1 .. n, NEW m \in 1 .. n, others[k] = others[m]
               PROVE  k = m
    OBVIOUS
  <2>1. Place(at, k) = Place(at, m)
    <3>1. Place(at, k) \in DOMAIN q /\ Place(at, m) \in DOMAIN q
      BY <1>0, <1>4
    <3>2. q[Place(at, k)] = q[Place(at, m)]
      BY <1>4
    <3> QED
      BY <1>3, <3>1, <3>2
  <2>2. k < m <=> Place(at, k) < Place(at, m)
    BY <1>4, PlaceGrows
  <2>3. m < k <=> Place(at, m) < Place(at, k)
    BY <1>4, PlaceGrows
  <2>4. Place(at, k) \in Nat /\ Place(at, m) \in Nat
    <3>1. Place(at, k) \in at /\ Place(at, m) \in at
      BY <1>4
    <3> QED
      BY <1>4, <3>1
  <2>5. k \in Nat /\ m \in Nat
    OBVIOUS
  <2> QED
    BY <2>1, <2>2, <2>3, <2>4, <2>5
<1>8. \A k \in 1 .. n : others[k] # held
  BY <1>1, <1>4
<1>9. held \in S
  BY DEF S
<1>10. Wrote(q, held) = IF Len(others) < Kept THEN Append(others, held)
                                              ELSE Append(Tail(others), held)
  BY DEF Wrote, at
<1> HIDE DEF others, n
(* Of a sequence without it, that has room.                                *)
<1>11. ASSUME NEW s \in Seq(S), Len(s) < Kept, \A k \in DOMAIN s : s[k] # held,
              \A k, m \in DOMAIN s : s[k] = s[m] => k = m
       PROVE  /\ Append(s, held) \in Seq(S) /\ Len(Append(s, held)) <= Kept
              /\ IsInjective(Append(s, held)) /\ held \in ToSet(Append(s, held))
  <2> DEFINE t == Append(s, held)
             l == Len(s)
  <2>1. /\ t \in Seq(S) /\ l \in Nat /\ Len(t) = l + 1
        /\ DOMAIN s = 1 .. l /\ DOMAIN t = 1 .. l + 1
        /\ t[l + 1] = held /\ \A k \in 1 .. l : t[k] = s[k]
    BY <1>9
  <2>2. \A k \in 1 .. l + 1 : k \in 1 .. l \/ k = l + 1
    BY <2>1
  <2>3. l + 1 \in 1 .. l + 1
    BY <2>1
  <2>4. l + 1 <= Kept
    BY <1>2, <1>11, <2>1
  <2> HIDE DEF t, l
  <2>5. \A k, m \in DOMAIN t : t[k] = t[m] => k = m
    BY <1>11, <2>1, <2>2
  <2>6. held \in ToSet(t)
    BY <2>1, <2>3 DEF ToSet
  <2> QED
    BY <2>1, <2>4, <2>5, <2>6 DEF IsInjective, t
<1>12. CASE Len(others) < Kept
  <2>1. /\ \A k \in DOMAIN others : others[k] # held
        /\ \A k, m \in DOMAIN others : others[k] = others[m] => k = m
    BY <1>4, <1>7, <1>8
  <2>2. /\ Append(others, held) \in Seq(S) /\ Len(Append(others, held)) <= Kept
        /\ IsInjective(Append(others, held)) /\ held \in ToSet(Append(others, held))
    BY <1>4, <1>11, <1>12, <2>1
  <2> QED
    BY <1>10, <1>12, <2>2 DEF S
<1>13. CASE ~(Len(others) < Kept)
  <2> DEFINE t == Tail(others)
  <2>1. n > 0 /\ n = Kept
    BY <1>0, <1>2, <1>4, <1>5, <1>6, <1>13
  <2>2. /\ t \in Seq(S) /\ Len(t) = n - 1 /\ DOMAIN t = 1 .. n - 1
        /\ \A k \in 1 .. n - 1 : t[k] = others[k + 1]
    BY <1>4, <1>6, <2>1
  <2>3. \A k \in 1 .. n - 1 : k + 1 \in 1 .. n
    BY <1>4
  <2>4. Len(t) < Kept
    BY <1>4, <2>1, <2>2
  <2> HIDE DEF t
  <2>5. \A k \in DOMAIN t : t[k] # held
    BY <1>8, <2>2, <2>3
  <2>6. \A k, m \in DOMAIN t : t[k] = t[m] => k = m
    <3> SUFFICES ASSUME NEW k \in 1 .. n - 1, NEW m \in 1 .. n - 1, others[k + 1] = others[m + 1]
                 PROVE  k = m
      BY <2>2
    <3>1. k + 1 = m + 1
      BY <1>7, <2>3
    <3> QED
      BY <1>4, <3>1
  <2>7. /\ Append(t, held) \in Seq(S) /\ Len(Append(t, held)) <= Kept
        /\ IsInjective(Append(t, held)) /\ held \in ToSet(Append(t, held))
    BY <1>11, <2>2, <2>4, <2>5, <2>6
  <2> QED
    BY <1>10, <1>13, <2>7 DEF S, t
<1> QED
  BY <1>12, <1>13 DEF S

(* What is forgotten with a write are those before it.                     *)
LEMMA ForgottenType ==
  ASSUME OwnsShape, NEW held
  PROVE  /\ Forgotten(held) \in Seq(1 .. MaxWrites) /\ Len(Forgotten(held)) <= Kept
         /\ IsInjective(Forgotten(held))
<1>1. /\ owns \in Seq(1 .. MaxWrites) /\ Len(owns) \in Nat /\ DOMAIN owns = 1 .. Len(owns)
      /\ Len(owns) <= Kept /\ Kept \in Nat
      /\ \A i, j \in DOMAIN owns : owns[i] = owns[j] => i = j
  BY ReloadAssumption DEF OwnsShape, IsInjective
<1>4. \A i \in DOMAIN owns : owns[i] \in 1 .. MaxWrites
  <2> DEFINE S == 1 .. MaxWrites
  <2>1. owns \in Seq(S)
    BY <1>1
  <2> HIDE DEF S
  <2>2. \A i \in DOMAIN owns : owns[i] \in S
    BY <2>1
  <2> QED
    BY <2>2 DEF S
<1>2. CASE \E i \in DOMAIN owns : owns[i] = held
  <2> DEFINE a == CHOOSE i \in DOMAIN owns : owns[i] = held
             n == Len(owns)
             t == SubSeq(owns, a + 1, n)
  <2>1. a \in 1 .. n /\ n \in Nat
    BY <1>1, <1>2
  <2>2. Forgotten(held) = t
    BY <1>2 DEF Forgotten
  <2> HIDE DEF a
  <2>3. a + 1 \in Int /\ n \in Int /\ \A i \in a + 1 .. n : owns[i] \in 1 .. MaxWrites
    <3>1. a \in Nat /\ n \in Nat
      BY <1>1, <2>1
    <3>3. \A i \in 1 .. n : owns[i] \in 1 .. MaxWrites
      BY <1>1, <1>4
    <3> HIDE DEF n
    <3>2. \A i \in a + 1 .. n : i \in 1 .. n
      BY <3>1
    <3>4. a + 1 \in Int /\ n \in Int
      BY <3>1
    <3> QED
      BY <3>2, <3>3, <3>4
  <2>4. /\ t \in Seq(1 .. MaxWrites) /\ Len(t) = (IF a + 1 <= n THEN n - (a + 1) + 1 ELSE 0)
        /\ \A i \in 1 .. n - (a + 1) + 1 : t[i] = owns[a + 1 + i - 1]
    BY <2>3, SubSeqProperties
  <2>5. Len(t) = n - a /\ Len(t) <= n
    BY <2>1, <2>4
  <2>6. DOMAIN t = 1 .. n - a
    BY <2>4, <2>5
  <2>7. \A i \in 1 .. n - a : t[i] = owns[a + i] /\ a + i \in 1 .. n
    BY <2>1, <2>4
  <2> HIDE DEF t, n
  <2>8. \A i, j \in DOMAIN t : t[i] = t[j] => i = j
    <3> SUFFICES ASSUME NEW i \in 1 .. n - a, NEW j \in 1 .. n - a, owns[a + i] = owns[a + j]
                 PROVE  i = j
      BY <2>6, <2>7
    <3>1. a + i = a + j
      BY <1>1, <2>7 DEF n
    <3> QED
      BY <2>1, <3>1
  <2>9. Len(t) <= Kept
    BY <1>1, <2>1, <2>5 DEF n
  <2> QED
    BY <2>2, <2>4, <2>8, <2>9 DEF IsInjective
<1>3. CASE ~ \E i \in DOMAIN owns : owns[i] = held
  BY <1>1, <1>3 DEF Forgotten, OwnsShape
<1> QED
  BY <1>2, <1>3

(* The shape of all but OWN_WRITES is kept.                               *)
LEMMA ReloadShapeNext ==
  ASSUME ReloadShape, [ReloadNext]_reloadVars
  PROVE  ReloadShape'
<1> USE ReloadAssumption DEF ReloadShape, Unset, Missing, Starter, worldVars, driverVars, stampVars, windowVars
<1>1. CASE Edit
  <2>1. /\ saved' \in BOOLEAN /\ always' \in BOOLEAN /\ own' \in BOOLEAN /\ notice' \in BOOLEAN
        /\ window' \in BOOLEAN
    BY <1>1, Zenon DEF Edit, Writes, Room
  <2>2. saved' => files' # Missing
    BY <1>1 DEF Edit, Writes, Room
  <2> QED
    BY <1>1, <2>1, <2>2 DEF Edit, Writes, Room
<1>2. CASE Undo
  <2>1. /\ saved' \in BOOLEAN /\ always' \in BOOLEAN /\ own' \in BOOLEAN /\ notice' \in BOOLEAN
        /\ window' \in BOOLEAN
    BY <1>2, Zenon DEF Undo, Taken, Quiet, Moves
  <2>2. saved' => files' # Missing
    BY <1>2 DEF Undo, Taken, Quiet, Moves
  <2> QED
    BY <1>2, <2>1, <2>2 DEF Undo, Taken, Quiet, Moves
<1>3. CASE TakeAway
  <2>1. /\ saved' \in BOOLEAN /\ always' \in BOOLEAN /\ own' \in BOOLEAN /\ notice' \in BOOLEAN
        /\ window' \in BOOLEAN
    BY <1>3, Zenon DEF TakeAway
  <2>2. saved' => files' # Missing
    BY <1>3 DEF TakeAway
  <2> QED
    BY <1>3, <2>1, <2>2 DEF TakeAway
<1>4. CASE Poll
  BY <1>4 DEF Poll, Settled
<1>5. CASE OnTick
  <2>1. /\ saved' = saved /\ window' = window
        /\ UNCHANGED <<always, own>> \/ (always' = FALSE /\ own' = (files \in ToSet(owns)))
        /\ notice' = FALSE \/ notice' = notice
    BY <1>5, Zenon DEF OnTick, Reload, Needs, Unneeded
  <2>2. always' \in BOOLEAN
    BY <2>1, Zenon
  <2>3. own' \in BOOLEAN
    <3>1. (files \in ToSet(owns)) \in BOOLEAN
      OBVIOUS
    <3>2. own \in BOOLEAN
      BY Zenon
    <3> QED
      BY <2>1, <3>1, <3>2, Zenon
  <2>4. notice' \in BOOLEAN
    BY <2>1, Zenon
  <2>5. saved' => files' # Missing
    BY <1>5 DEF OnTick, Reload
  <2> QED
    BY <1>5, <2>1, <2>2, <2>3, <2>4, <2>5 DEF OnTick, Reload, Needs, Unneeded
<1>6. CASE OnAsked
  BY <1>6 DEF OnAsked, Reload, Needs, Moves
<1>7. CASE LoadFile
  BY <1>7 DEF LoadFile
<1>8. CASE Seed
  <2>1. /\ saved' \in BOOLEAN /\ always' \in BOOLEAN /\ own' \in BOOLEAN /\ notice' \in BOOLEAN
        /\ window' \in BOOLEAN
    BY <1>8, Zenon DEF Seed
  <2>2. saved' => files' # Missing
    BY <1>8 DEF Seed
  <2> QED
    BY <1>8, <2>1, <2>2 DEF Seed
<1>9. CASE Apply
  <2>1. /\ saved' \in BOOLEAN /\ always' \in BOOLEAN /\ own' \in BOOLEAN /\ notice' \in BOOLEAN
        /\ window' \in BOOLEAN
    BY <1>9, Zenon DEF Apply, Seeded, Needs, Recorded
  <2>2. saved' => files' # Missing
    BY <1>9 DEF Apply, Seeded, Needs, Recorded
  <2> QED
    BY <1>9, <2>1, <2>2 DEF Apply, Seeded, Needs, Recorded
<1>10. CASE StampLayout
  BY <1>10 DEF StampLayout
<1>11. CASE \E form \in BOOLEAN : SaveWrites(form)
  BY <1>11 DEF SaveWrites, Writes, Vouches
<1>12. CASE OpenWindow
  BY <1>12 DEF OpenWindow, Seeded, Moves
<1>13. CASE SaveReads
  BY <1>13 DEF SaveReads, Room
<1>14. CASE Revert
  BY <1>14 DEF Revert, Taken, Quiet, Moves
<1>15. CASE FlushLayout
  BY <1>15 DEF FlushLayout, Writes, Room
<1>16. CASE UNCHANGED reloadVars
  BY <1>16 DEF reloadVars
<1> QED
  BY <1>1, <1>2, <1>3, <1>4, <1>5, <1>6, <1>7, <1>8, <1>9, <1>10,
     <1>11, <1>12, <1>13, <1>14, <1>15, <1>16 DEF ReloadNext, Proceeds

(* Whoever has looked has taken it in, or is about to.                    *)
LEMMA ReachingNext ==
  ASSUME ReloadShape, Reaching, Recognised, [ReloadNext]_reloadVars
  PROVE  Reaching'
<1> USE ReloadAssumption DEF ReloadShape, Reaching, EditsReachScreen, Quiet, Recognised, Loading,
               Unset, Missing, Starter, worldVars, driverVars, stampVars, windowVars
<1>1. CASE Edit
  BY <1>1 DEF Edit, Writes, Room
<1>2. CASE Undo
  BY <1>2 DEF Undo, Taken, Quiet, Moves
<1>3. CASE TakeAway
  BY <1>3 DEF TakeAway
<1>4. CASE Poll
  BY <1>4 DEF Poll, Settled
<1>5. CASE OnTick
  BY <1>5 DEF OnTick, Reload, Needs, Unneeded
<1>6. CASE OnAsked
  BY <1>6 DEF OnAsked, Reload, Needs, Moves
<1>7. CASE LoadFile
  BY <1>7 DEF LoadFile
<1>8. CASE Seed
  BY <1>8 DEF Seed
<1>9. CASE Apply
  BY <1>9 DEF Apply, Seeded, Needs, Recorded
<1>10. CASE StampLayout
  BY <1>10 DEF StampLayout
<1>11. CASE \E form \in BOOLEAN : SaveWrites(form)
  BY <1>11 DEF SaveWrites, Writes, Vouches
<1>12. CASE OpenWindow
  BY <1>12 DEF OpenWindow, Seeded, Moves
<1>13. CASE SaveReads
  BY <1>13 DEF SaveReads, Room
<1>14. CASE Revert
  BY <1>14 DEF Revert, Taken, Quiet, Moves
<1>15. CASE FlushLayout
  BY <1>15 DEF FlushLayout, Writes, Room
<1>16. CASE UNCHANGED reloadVars
  BY <1>16 DEF reloadVars
<1> QED
  BY <1>1, <1>2, <1>3, <1>4, <1>5, <1>6, <1>7, <1>8, <1>9, <1>10,
     <1>11, <1>12, <1>13, <1>14, <1>15, <1>16 DEF ReloadNext, Proceeds

(* What is recognised stays so.                                           *)
LEMMA RecognisedNext ==
  ASSUME ReloadShape, Reaching, Recognised, [ReloadNext]_reloadVars
  PROVE  Recognised'
<1> USE ReloadAssumption DEF ReloadShape, Recognised, Loading, Unset, Missing, Starter, worldVars, driverVars, stampVars, windowVars
<1>1. CASE Edit
  BY <1>1 DEF Edit, Writes, Room
<1>2. CASE Undo
  BY <1>2 DEF Undo, Taken, Quiet, Moves
<1>3. CASE TakeAway
  BY <1>3 DEF TakeAway
<1>4. CASE Poll
  BY <1>4 DEF Poll, Settled
<1>5. CASE OnTick
  BY <1>5 DEF OnTick, Reload, Needs, Unneeded
<1>6. CASE OnAsked
  BY <1>6 DEF OnAsked, Reload, Needs, Moves
<1>7. CASE LoadFile
  BY <1>7 DEF LoadFile
<1>8. CASE Seed
  BY <1>8 DEF Seed
<1>9. CASE Apply
  BY <1>9 DEF Apply, Seeded, Needs, Recorded
<1>10. CASE StampLayout
  BY <1>10 DEF StampLayout
<1>11. CASE \E form \in BOOLEAN : SaveWrites(form)
  BY <1>11 DEF SaveWrites, Writes, Vouches
<1>12. CASE OpenWindow
  BY <1>12 DEF OpenWindow, Seeded, Moves
<1>13. CASE SaveReads
  BY <1>13 DEF SaveReads, Room
<1>14. CASE Revert
  BY <1>14 DEF Revert, Taken, Quiet, Moves
<1>15. CASE FlushLayout
  BY <1>15 DEF FlushLayout, Writes, Room
<1>16. CASE UNCHANGED reloadVars
  BY <1>16 DEF reloadVars
<1> QED
  BY <1>1, <1>2, <1>3, <1>4, <1>5, <1>6, <1>7, <1>8, <1>9, <1>10,
     <1>11, <1>12, <1>13, <1>14, <1>15, <1>16 DEF ReloadNext, Proceeds

(* The forms show what the window vouched for.                            *)
LEMMA FormsHeldNext ==
  ASSUME ReloadShape, FormsHeld, [ReloadNext]_reloadVars
  PROVE  FormsHeld'
<1> USE ReloadAssumption DEF ReloadShape, FormsHeld, Unset, Missing, Starter, worldVars, driverVars, stampVars, windowVars
<1>1. CASE Edit
  BY <1>1 DEF Edit, Writes, Room
<1>2. CASE Undo
  BY <1>2 DEF Undo, Taken, Quiet, Moves
<1>3. CASE TakeAway
  BY <1>3 DEF TakeAway
<1>4. CASE Poll
  BY <1>4 DEF Poll, Settled
<1>5. CASE OnTick
  BY <1>5 DEF OnTick, Reload, Needs, Unneeded
<1>6. CASE OnAsked
  BY <1>6 DEF OnAsked, Reload, Needs, Moves
<1>7. CASE LoadFile
  BY <1>7 DEF LoadFile
<1>8. CASE Seed
  BY <1>8 DEF Seed
<1>9. CASE Apply
  BY <1>9 DEF Apply, Seeded, Needs, Recorded
<1>10. CASE StampLayout
  BY <1>10 DEF StampLayout
<1>11. CASE \E form \in BOOLEAN : SaveWrites(form)
  BY <1>11 DEF SaveWrites, Writes, Vouches
<1>12. CASE OpenWindow
  BY <1>12 DEF OpenWindow, Seeded, Moves
<1>13. CASE SaveReads
  BY <1>13 DEF SaveReads, Room
<1>14. CASE Revert
  BY <1>14 DEF Revert, Taken, Quiet, Moves
<1>15. CASE FlushLayout
  BY <1>15 DEF FlushLayout, Writes, Room
<1>16. CASE UNCHANGED reloadVars
  BY <1>16 DEF reloadVars
<1> QED
  BY <1>1, <1>2, <1>3, <1>4, <1>5, <1>6, <1>7, <1>8, <1>9, <1>10,
     <1>11, <1>12, <1>13, <1>14, <1>15, <1>16 DEF ReloadNext, Proceeds

(* OWN_WRITES keeps its shape.                                            *)
LEMMA OwnsShapeNext ==
  ASSUME ReloadShape, OwnsShape, [ReloadNext]_reloadVars
  PROVE  OwnsShape'
<1>0. ASSUME OwnsShape, UNCHANGED owns
      PROVE  OwnsShape'
  BY <1>0 DEF OwnsShape
<1>1. ASSUME NEW held \in 1 .. MaxWrites, owns' = Wrote(owns, held)
      PROVE  OwnsShape'
  BY <1>1, WroteType DEF OwnsShape
<1>2. ASSUME NEW asked \in BOOLEAN, Reload(asked)
      PROVE  OwnsShape'
  <2>1. owns' = owns \/ owns' = Forgotten(files)
    BY <1>2 DEF Reload
  <2> QED
    BY <1>0, <2>1, ForgottenType DEF OwnsShape
<1>3. CASE OnTick \/ OnAsked
  BY <1>2, <1>3 DEF OnTick, OnAsked
<1>4. CASE StampLayout
  <2>1. files # Missing => files \in 1 .. MaxWrites
    BY ReloadAssumption DEF ReloadShape, Missing
  <2> QED
    BY <1>0, <1>1, <1>4, <2>1 DEF StampLayout
<1>5. CASE \E form \in BOOLEAN : SaveWrites(form)
  <2>1. files' \in 1 .. MaxWrites /\ owns' = Wrote(owns, files')
    BY <1>5, ReloadAssumption DEF SaveWrites, Writes, ReloadShape
  <2> QED
    BY <1>1, <2>1
<1>6. CASE Revert
  <2>1. opened \in 1 .. MaxWrites /\ owns' = Wrote(owns, opened)
    BY <1>6, ReloadAssumption DEF Revert, ReloadShape, Missing
  <2> QED
    BY <1>1, <2>1
<1>7. CASE \/ Edit \/ Undo \/ TakeAway \/ Poll \/ LoadFile \/ Seed \/ Apply
           \/ OpenWindow \/ SaveReads \/ FlushLayout \/ UNCHANGED reloadVars
  <2>1. UNCHANGED owns
    BY <1>7 DEF Edit, Undo, TakeAway, Poll, LoadFile, Seed, Apply, OpenWindow, SaveReads,
                FlushLayout, reloadVars
  <2> QED
    BY <1>0, <2>1
<1> QED
  BY <1>3, <1>4, <1>5, <1>6, <1>7 DEF ReloadNext, Proceeds

(* What the shell has written stays known as its own.                     *)
LEMMA OwnsHeldNext ==
  ASSUME ReloadShape, OwnsShape, OwnsHeld, [ReloadNext]_reloadVars
  PROVE  OwnsHeld'
<1> USE ReloadAssumption DEF ReloadShape, OwnsHeld, Loading, Unset, Missing, Starter, worldVars, driverVars, stampVars, windowVars
<1>1. CASE Edit
  BY <1>1 DEF Edit, Writes, Room
<1>2. CASE Undo
  BY <1>2 DEF Undo, Taken, Quiet, Moves
<1>3. CASE TakeAway
  BY <1>3 DEF TakeAway
<1>4. CASE Poll
  BY <1>4 DEF Poll, Settled
<1>5. CASE OnTick
  BY <1>5 DEF OnTick, Reload, Needs, Unneeded
<1>6. CASE OnAsked
  BY <1>6 DEF OnAsked, Reload, Needs, Moves
<1>7. CASE LoadFile
  BY <1>7 DEF LoadFile
<1>8. CASE Seed
  BY <1>8 DEF Seed
<1>9. CASE Apply
  BY <1>9 DEF Apply, Seeded, Needs, Recorded
<1>10. CASE StampLayout
  <2>1. saved => files \in 1 .. MaxWrites /\ owns' = Wrote(owns, files)
    BY <1>10 DEF StampLayout
  <2>2. saved => files \in ToSet(owns')
    BY <2>1, WroteType DEF OwnsShape
  <2> QED
    BY <1>10, <2>2 DEF StampLayout
<1>11. CASE \E form \in BOOLEAN : SaveWrites(form)
  <2>1. files' \in 1 .. MaxWrites /\ owns' = Wrote(owns, files') /\ pace' = "idle"
    BY <1>11 DEF SaveWrites, Writes
  <2>2. files' \in ToSet(owns')
    BY <2>1, WroteType DEF OwnsShape
  <2> QED
    BY <2>1, <2>2
<1>12. CASE OpenWindow
  BY <1>12 DEF OpenWindow, Seeded, Moves
<1>13. CASE SaveReads
  BY <1>13 DEF SaveReads, Room
<1>14. CASE Revert
  <2>1. opened \in 1 .. MaxWrites /\ owns' = Wrote(owns, opened) /\ pace' = "idle" /\ files' = opened
    BY <1>14 DEF Revert, Taken, Quiet
  <2>2. files' \in ToSet(owns')
    BY <2>1, WroteType DEF OwnsShape
  <2> QED
    BY <2>1, <2>2
<1>15. CASE FlushLayout
  BY <1>15 DEF FlushLayout, Writes, Room
<1>16. CASE UNCHANGED reloadVars
  BY <1>16 DEF reloadVars
<1> QED
  BY <1>1, <1>2, <1>3, <1>4, <1>5, <1>6, <1>7, <1>8, <1>9, <1>10,
     <1>11, <1>12, <1>13, <1>14, <1>15, <1>16 DEF ReloadNext, Proceeds

LEMMA ReloadInvInit ==
  ReloadInit => ReloadInv
<1> SUFFICES ASSUME ReloadInit PROVE ReloadInv
  OBVIOUS
<1> USE ReloadAssumption DEF Unset, Missing, Starter
<1>1. /\ written = 2 /\ files = 2 /\ last = 2 /\ ticks = 0 /\ moves = 0
      /\ pace = "idle" /\ content = 0 /\ loaded = 0 /\ owns = <<>>
      /\ forms = 0 /\ showing = 0 /\ stamp = Unset /\ opened = 0 /\ broken \subseteq {2}
  BY DEF ReloadInit
<1>2. ~saved /\ ~always /\ ~own /\ ~window
  BY DEF ReloadInit
<1>3. saved \in BOOLEAN /\ always \in BOOLEAN /\ own \in BOOLEAN /\ window \in BOOLEAN
  BY Zenon DEF ReloadInit
<1>4. notice \in BOOLEAN
  <2>1. (files \in broken) \in BOOLEAN
    OBVIOUS
  <2> QED
    BY <2>1, Zenon DEF ReloadInit
<1>5. \/ notice /\ files \in broken /\ applied = Unset /\ screen = Starter
      \/ ~notice /\ files \notin broken /\ applied = files /\ screen = files
  BY Zenon DEF ReloadInit
<1>6. ReloadShape
  BY <1>1, <1>2, <1>3, <1>4, <1>5 DEF ReloadShape
<1>7. OwnsShape
  <2>1. <<>> \in Seq(1 .. MaxWrites)
    OBVIOUS
  <2>2. Len(<<>>) = 0 /\ \A i, j \in DOMAIN <<>> : FALSE
    OBVIOUS
  <2> QED
    BY <1>1, <2>1, <2>2 DEF OwnsShape, IsInjective
<1>8. Reaching
  BY <1>1, <1>5 DEF Reaching, EditsReachScreen, Quiet
<1>9. Recognised /\ FormsHeld
  BY <1>1, <1>2, <1>5 DEF Recognised, FormsHeld, Loading
<1>10. OwnsHeld
  BY <1>1, <1>2 DEF OwnsHeld, Loading
<1> QED
  BY <1>6, <1>7, <1>8, <1>9, <1>10 DEF ReloadInv

LEMMA ReloadInvNext == ReloadInv /\ [ReloadNext]_reloadVars => ReloadInv'
BY ReloadShapeNext, OwnsShapeNext, ReachingNext, RecognisedNext, FormsHeldNext, OwnsHeldNext
DEF ReloadInv

(* The configuration that is loaded again keeps its invariant, whoever     *)
(* edits, saves or looks.                                                  *)
THEOREM ReloadInvAlways == ReloadSpec => []ReloadInv
BY ReloadInvInit, ReloadInvNext, PTL DEF ReloadSpec

LEMMA ReloadTypes == ReloadInv => ReloadTypeOK
BY ReloadAssumption DEF ReloadInv, ReloadShape, OwnsShape, ReloadTypeOK, Contents

(* The variables of the reload keep their types.                           *)
THEOREM ReloadTyped == ReloadSpec => []ReloadTypeOK
BY ReloadTypes, ReloadInvAlways, PTL

(* Only an Apply applies what was loaded.                                  *)
LEMMA AppliesBy ==
  ASSUME [ReloadNext]_reloadVars, Applies
  PROVE  Apply
BY DEF Applies, ReloadNext, Proceeds, Edit, Undo, TakeAway, Poll, OnTick, OnAsked, Reload, LoadFile,
       Seed, StampLayout, SaveWrites, OpenWindow, SaveReads, Revert, FlushLayout, Taken, Quiet,
       reloadVars, worldVars, driverVars, stampVars, windowVars

(* No edit is taken for one already shown (Reloader::reload), the window   *)
(* spared a reload shows what was loaded, and the shell's own write coming *)
(* back is not announced as an edit: all of ReloadFaithful but that it     *)
(* comes to rest.                                                          *)
THEOREM ReloadFaithfulAlways == ReloadSpec => []EditsReachScreen /\ FormsFollow /\ OwnQuiet
<1>1. ReloadInv => EditsReachScreen
  BY DEF ReloadInv, Reaching
<1>2. ReloadInv /\ [ReloadNext]_reloadVars =>
        [Applies /\ content = files /\ window => forms' = files]_reloadVars
  <2> SUFFICES ASSUME ReloadInv, [ReloadNext]_reloadVars, Applies, content = files, window
               PROVE  forms' = files
    OBVIOUS
  <2>1. Apply
    BY AppliesBy
  <2>2. files = loaded /\ files # Missing
    BY DEF ReloadInv, Reaching, Applies
  <2>3. CASE Needs(stamp, content, always)
    BY <2>1, <2>2, <2>3 DEF Apply, Seeded
  <2>4. CASE ~Needs(stamp, content, always)
    <3>1. stamp = content /\ ~always /\ forms' = forms
      BY <2>1, <2>4 DEF Apply, Needs
    <3>2. applied # content /\ content # Unset
      BY <2>1, <3>1, ReloadAssumption
      DEF Apply, ReloadInv, ReloadShape, Recognised, Loading, Unset
    <3> QED
      BY <3>1, <3>2 DEF ReloadInv, FormsHeld
  <2> QED
    BY <2>3, <2>4
<1>3. ReloadInv /\ [ReloadNext]_reloadVars => [Applies /\ saved /\ ~always => ~Announced]_reloadVars
  <2> SUFFICES ASSUME ReloadInv, [ReloadNext]_reloadVars, Applies, saved, ~always
               PROVE  ~Announced
    OBVIOUS
  <2>1. Loading /\ files \notin broken
    BY DEF ReloadInv, Reaching, Applies, Loading
  <2>2. own
    BY <2>1 DEF ReloadInv, OwnsHeld
  <2> QED
    BY <2>2 DEF Announced
<1> QED
  BY ReloadInvAlways, <1>1, <1>2, <1>3, PTL DEF ReloadSpec, FormsFollow, OwnQuiet

-----------------------------------------------------------------------------
(* The column of cards: what is drawn is the first card of whoever speaks  *)
(* and, in the order of their arrival, those there is room for.            *)
(* One before the other in a sequence.                                     *)
Ahead(q, a, b) == \E i, j \in DOMAIN q : q[i] = a /\ q[j] = b /\ i < j

(* What a selection of a sequence without repetitions holds, and in what   *)
(* order.                                                                  *)
LEMMA PickedKeeps ==
  ASSUME NEW S, NEW q \in Seq(S), IsInjective(q), NEW at \in SUBSET DOMAIN q
  PROVE  /\ Picked(q, at) \in Seq(S) /\ IsInjective(Picked(q, at))
         /\ ToSet(Picked(q, at)) = {q[i] : i \in at}
         /\ \A a, b \in ToSet(Picked(q, at)) : Ahead(Picked(q, at), a, b) <=> Ahead(q, a, b)
<1> DEFINE n == Cardinality(at)
           p == Picked(q, at)
<1>1. /\ IsFiniteSet(at) /\ at \subseteq Nat /\ n \in Nat
      /\ p \in Seq(S) /\ DOMAIN p = 1 .. n
      /\ \A k \in 1 .. n : Place(at, k) \in at /\ p[k] = q[Place(at, k)]
  BY PickedType
<1>2. \A i, j \in DOMAIN q : q[i] = q[j] => i = j
  BY DEF IsInjective
<1>3. \A i \in at : Rank(at, i) \in 1 .. n /\ p[Rank(at, i)] = q[i]
  BY <1>1, RankType, RankPlace
<1> HIDE DEF p, n
<1>4. \A k, m \in 1 .. n : k < m <=> Place(at, k) < Place(at, m)
  BY <1>1, PlaceGrows DEF n
<1>5. \A k, m \in 1 .. n : p[k] = p[m] => k = m
  <2> SUFFICES ASSUME NEW k \in 1 .. n, NEW m \in 1 .. n, p[k] = p[m]
               PROVE  k = m
    OBVIOUS
  <2>1. Place(at, k) = Place(at, m) /\ Place(at, k) \in Nat
    BY <1>1, <1>2
  <2>2. ~(k < m) /\ ~(m < k)
    BY <1>4, <2>1
  <2> QED
    BY <1>1, <2>2
<1>6. ToSet(p) = {q[i] : i \in at}
  <2>1. \A a \in ToSet(p) : a \in {q[i] : i \in at}
    BY <1>1 DEF ToSet
  <2>2. \A i \in at : q[i] \in ToSet(p)
    BY <1>1, <1>3 DEF ToSet
  <2> QED
    BY <2>1, <2>2
<1>7. ASSUME NEW a \in ToSet(p), NEW b \in ToSet(p), Ahead(p, a, b)
      PROVE  Ahead(q, a, b)
  <2>1. PICK k \in 1 .. n, m \in 1 .. n : p[k] = a /\ p[m] = b /\ k < m
    BY <1>1, <1>7 DEF Ahead
  <2>2. Place(at, k) < Place(at, m) /\ Place(at, k) \in DOMAIN q /\ Place(at, m) \in DOMAIN q
    BY <1>1, <1>4, <2>1
  <2> QED
    BY <1>1, <2>1, <2>2 DEF Ahead
<1>8. ASSUME NEW a \in ToSet(p), NEW b \in ToSet(p), Ahead(q, a, b)
      PROVE  Ahead(p, a, b)
  <2>1. PICK k \in 1 .. n, m \in 1 .. n : p[k] = a /\ p[m] = b
    BY <1>1 DEF ToSet
  <2>2. PICK i \in DOMAIN q, j \in DOMAIN q : q[i] = a /\ q[j] = b /\ i < j
    BY <1>8 DEF Ahead
  <2>3. Place(at, k) = i /\ Place(at, m) = j
    BY <1>1, <1>2, <2>1, <2>2
  <2>4. k < m
    BY <1>4, <2>2, <2>3
  <2> QED
    BY <1>1, <2>1, <2>4 DEF Ahead
<1> QED
  BY <1>1, <1>5, <1>6, <1>7, <1>8 DEF IsInjective, p

(* One sequence after another, with nothing in common.                     *)
LEMMA AfterOther ==
  ASSUME NEW S, NEW u \in Seq(S), NEW v \in Seq(S), IsInjective(u), IsInjective(v),
         ToSet(u) \cap ToSet(v) = {}
  PROVE  /\ u \o v \in Seq(S) /\ IsInjective(u \o v) /\ ToSet(u \o v) = ToSet(u) \cup ToSet(v)
         /\ \A a, b \in ToSet(u) : Ahead(u \o v, a, b) <=> Ahead(u, a, b)
         /\ \A a \in ToSet(u), b \in ToSet(v) : Ahead(u \o v, a, b)
<1> DEFINE w == u \o v
           l == Len(u)
           r == Len(v)
<1>1. /\ w \in Seq(S) /\ l \in Nat /\ r \in Nat /\ Len(w) = l + r
      /\ DOMAIN u = 1 .. l /\ DOMAIN v = 1 .. r /\ DOMAIN w = 1 .. l + r
      /\ \A i \in 1 .. l + r : w[i] = IF i <= l THEN u[i] ELSE v[i - l]
  BY ConcatProperties
<1>2. /\ \A i, j \in 1 .. l : u[i] = u[j] => i = j
      /\ \A i, j \in 1 .. r : v[i] = v[j] => i = j
  BY <1>1 DEF IsInjective
<1>3. \A i \in 1 .. l, j \in 1 .. r : u[i] # v[j]
  BY <1>1 DEF ToSet
<1> HIDE DEF w, l, r
<1>4. \A i \in 1 .. l + r : (i \in 1 .. l /\ w[i] = u[i]) \/ (i > l /\ i - l \in 1 .. r /\ w[i] = v[i - l])
  BY <1>1
<1>5. \A i \in 1 .. l : i \in 1 .. l + r /\ w[i] = u[i]
  BY <1>1
<1>6. \A j \in 1 .. r : l + j \in 1 .. l + r /\ w[l + j] = v[j]
  <2> SUFFICES ASSUME NEW j \in 1 .. r
               PROVE  l + j \in 1 .. l + r /\ w[l + j] = v[j]
    OBVIOUS
  <2>1. l + j \in 1 .. l + r /\ ~(l + j <= l) /\ l + j - l = j
    BY <1>1
  <2> QED
    BY <1>1, <2>1
<1>7. \A i, j \in 1 .. l + r : w[i] = w[j] => i = j
  <2> SUFFICES ASSUME NEW i \in 1 .. l + r, NEW j \in 1 .. l + r, w[i] = w[j]
               PROVE  i = j
    OBVIOUS
  <2>1. CASE i \in 1 .. l /\ w[i] = u[i] /\ j \in 1 .. l /\ w[j] = u[j]
    BY <1>2, <2>1
  <2>2. CASE i - l \in 1 .. r /\ w[i] = v[i - l] /\ j - l \in 1 .. r /\ w[j] = v[j - l]
    <3>1. i - l = j - l
      BY <1>2, <2>2
    <3> QED
      BY <1>1, <3>1
  <2> QED
    BY <1>3, <1>4, <2>1, <2>2
<1>8. ToSet(w) = ToSet(u) \cup ToSet(v)
  <2>1. \A a \in ToSet(w) : a \in ToSet(u) \cup ToSet(v)
    BY <1>1, <1>4 DEF ToSet
  <2>2. \A a \in ToSet(u) : a \in ToSet(w)
    BY <1>1, <1>5 DEF ToSet
  <2>3. \A a \in ToSet(v) : a \in ToSet(w)
    <3> SUFFICES ASSUME NEW j \in 1 .. r
                 PROVE  v[j] \in ToSet(w)
      BY <1>1 DEF ToSet
    <3>1. l + j \in DOMAIN w /\ w[l + j] = v[j]
      BY <1>1, <1>6
    <3> QED
      BY <3>1 DEF ToSet
  <2> QED
    BY <2>1, <2>2, <2>3
<1>9. ASSUME NEW a \in ToSet(u), NEW b \in ToSet(u)
      PROVE  Ahead(w, a, b) <=> Ahead(u, a, b)
  <2>1. PICK i \in 1 .. l, j \in 1 .. l : u[i] = a /\ u[j] = b
    BY <1>1 DEF ToSet
  <2>2. Ahead(u, a, b) <=> i < j
    BY <1>1, <1>2, <2>1 DEF Ahead
  <2>3. Ahead(w, a, b) <=> i < j
    BY <1>1, <1>5, <1>7, <2>1 DEF Ahead
  <2> QED
    BY <2>2, <2>3
<1>10. ASSUME NEW a \in ToSet(u), NEW b \in ToSet(v)
       PROVE  Ahead(w, a, b)
  <2>1. PICK i \in 1 .. l, j \in 1 .. r : u[i] = a /\ v[j] = b
    BY <1>1 DEF ToSet
  <2>2. i < l + j
    BY <1>1
  <2> QED
    BY <1>1, <1>5, <1>6, <2>1, <2>2 DEF Ahead
<1> QED
  BY <1>1, <1>7, <1>8, <1>9, <1>10 DEF IsInjective, w

LEMMA AheadOrders ==
  ASSUME NEW S, NEW q \in Seq(S), IsInjective(q)
  PROVE  /\ \A a, b \in ToSet(q) : a = b \/ Ahead(q, a, b) \/ Ahead(q, b, a)
         /\ \A a, b : ~(Ahead(q, a, b) /\ Ahead(q, b, a))
         /\ \A a, b, c : Ahead(q, a, b) /\ Ahead(q, b, c) => Ahead(q, a, c)
<1>1. DOMAIN q = 1 .. Len(q) /\ Len(q) \in Nat /\ \A i, j \in DOMAIN q : q[i] = q[j] => i = j
  BY DEF IsInjective
<1>2. \A i \in DOMAIN q : i \in Nat
  BY <1>1
<1>3. ASSUME NEW a \in ToSet(q), NEW b \in ToSet(q)
      PROVE  a = b \/ Ahead(q, a, b) \/ Ahead(q, b, a)
  <2>1. PICK i \in DOMAIN q, j \in DOMAIN q : q[i] = a /\ q[j] = b
    BY DEF ToSet
  <2>2. i = j \/ i < j \/ j < i
    BY <1>2
  <2> QED
    BY <2>1, <2>2 DEF Ahead
<1>4. ASSUME NEW a, NEW b, Ahead(q, a, b), Ahead(q, b, a)
      PROVE  FALSE
  <2>1. PICK i \in DOMAIN q, j \in DOMAIN q : q[i] = a /\ q[j] = b /\ i < j
    BY <1>4 DEF Ahead
  <2>2. PICK k \in DOMAIN q, m \in DOMAIN q : q[k] = b /\ q[m] = a /\ k < m
    BY <1>4 DEF Ahead
  <2>3. m = i /\ k = j
    BY <1>1, <2>1, <2>2
  <2> QED
    BY <1>2, <2>1, <2>2, <2>3
<1>5. ASSUME NEW a, NEW b, NEW c, Ahead(q, a, b), Ahead(q, b, c)
      PROVE  Ahead(q, a, c)
  <2>1. PICK i \in DOMAIN q, j \in DOMAIN q : q[i] = a /\ q[j] = b /\ i < j
    BY <1>5 DEF Ahead
  <2>2. PICK k \in DOMAIN q, m \in DOMAIN q : q[k] = b /\ q[m] = c /\ k < m
    BY <1>5 DEF Ahead
  <2>3. k = j
    BY <1>1, <2>1, <2>2
  <2>4. i < m
    BY <1>2, <2>1, <2>2, <2>3
  <2> QED
    BY <2>1, <2>2, <2>4 DEF Ahead
<1> QED
  BY <1>3, <1>4, <1>5

(* Some of those in a sequence have a first, and a last.                   *)
LEMMA AheadOfAll ==
  ASSUME NEW S, NEW q \in Seq(S), NEW P \in SUBSET ToSet(q), P # {}
  PROVE  /\ \E a \in P : \A b \in P : a = b \/ Ahead(q, a, b)
         /\ \E a \in P : \A b \in P : a = b \/ Ahead(q, b, a)
<1> DEFINE l == Len(q)
           at == {i \in DOMAIN q : q[i] \in P}
           behind == {l - i : i \in at}
<1>1. DOMAIN q = 1 .. l /\ l \in Nat
  OBVIOUS
<1>2. \A b \in P : \E i \in at : q[i] = b
  BY DEF ToSet
<1>3. at # {} /\ at \in SUBSET Nat /\ \A i \in at : i \in DOMAIN q /\ q[i] \in P /\ i \in Nat /\ l - i \in Nat
  BY <1>1, <1>2
<1>4. behind # {} /\ behind \in SUBSET Nat
  BY <1>3
<1>5. \A k \in behind : \E i \in at : k = l - i
  OBVIOUS
<1>6. \A i \in at : l - i \in behind
  OBVIOUS
<1> HIDE DEF at, behind, l
<1>7. \E a \in P : \A b \in P : a = b \/ Ahead(q, a, b)
  <2> DEFINE m == Min(at)
  <2>1. m \in at /\ \A i \in at : m <= i
    BY <1>3, LeastOfNaturals
  <2> HIDE DEF m
  <2>2. \A i \in at : i = m \/ m < i
    BY <1>3, <2>1
  <2>3. \A b \in P : q[m] = b \/ Ahead(q, q[m], b)
    BY <1>2, <1>3, <2>1, <2>2 DEF Ahead
  <2> QED
    BY <1>3, <2>1, <2>3
<1>8. \E a \in P : \A b \in P : a = b \/ Ahead(q, b, a)
  <2>1. Min(behind) \in behind /\ \A k \in behind : Min(behind) <= k
    BY <1>4, LeastOfNaturals
  <2>2. PICK m \in at : Min(behind) = l - m
    BY <1>5, <2>1
  <2>3. \A i \in at : l - m <= l - i
    BY <1>6, <2>1, <2>2
  <2>4. \A i \in at : i = m \/ i < m
    BY <1>1, <1>3, <2>3
  <2>5. \A b \in P : q[m] = b \/ Ahead(q, b, q[m])
    BY <1>2, <1>3, <2>4 DEF Ahead
  <2> QED
    BY <1>3, <2>5
<1> QED
  BY <1>7, <1>8

(* What is critical comes first, the rest as it arrived.                   *)
LEMMA BeforeIs ==
  ASSUME NEW order, NEW a, NEW b
  PROVE  Before(a, b, order) <=> \/ a \in Critical /\ b \notin Critical
                                 \/ (a \in Critical <=> b \in Critical) /\ Ahead(order, a, b)
<1>1. CASE (a \in Critical) = (b \in Critical)
  BY <1>1 DEF Before, Ahead
<1>2. CASE (a \in Critical) # (b \in Critical)
  BY <1>2 DEF Before
<1> QED
  BY <1>1, <1>2

(* That is a strict order.                                                 *)
LEMMA BeforeOrders ==
  ASSUME NEW order \in Seq(Slots), IsInjective(order)
  PROVE  /\ \A a, b \in ToSet(order) : a = b \/ Before(a, b, order) \/ Before(b, a, order)
         /\ \A a, b : ~(Before(a, b, order) /\ Before(b, a, order))
         /\ \A a, b, c : Before(a, b, order) /\ Before(b, c, order) => Before(a, c, order)
<1>1. /\ \A a, b \in ToSet(order) : a = b \/ Ahead(order, a, b) \/ Ahead(order, b, a)
      /\ \A a, b : ~(Ahead(order, a, b) /\ Ahead(order, b, a))
      /\ \A a, b, c : Ahead(order, a, b) /\ Ahead(order, b, c) => Ahead(order, a, c)
  BY AheadOrders
<1>2. \A a, b : Before(a, b, order) <=>
        \/ a \in Critical /\ b \notin Critical
        \/ (a \in Critical <=> b \in Critical) /\ Ahead(order, a, b)
  BY BeforeIs
<1> QED
  BY <1>1, <1>2

LEMMA BeforeAll ==
  ASSUME NEW order \in Seq(Slots), IsInjective(order), NEW P \in SUBSET ToSet(order), P # {}
  PROVE  /\ \E a \in P : \A b \in P : a = b \/ Before(a, b, order)
         /\ \E a \in P : \A b \in P : a = b \/ Before(b, a, order)
<1>1. \A a, b : Before(a, b, order) <=>
        \/ a \in Critical /\ b \notin Critical
        \/ (a \in Critical <=> b \in Critical) /\ Ahead(order, a, b)
  BY BeforeIs
<1>2. \A Q \in SUBSET ToSet(order) : Q # {} =>
        /\ \E a \in Q : \A b \in Q : a = b \/ Ahead(order, a, b)
        /\ \E a \in Q : \A b \in Q : a = b \/ Ahead(order, b, a)
  BY AheadOfAll
<1>3. CASE P \cap Critical # {} /\ P \ Critical # {}
  <2>1. PICK a \in P \cap Critical : \A b \in P \cap Critical : a = b \/ Ahead(order, a, b)
    BY <1>2, <1>3
  <2>2. PICK c \in P \ Critical : \A b \in P \ Critical : c = b \/ Ahead(order, b, c)
    BY <1>2, <1>3
  <2> QED
    BY <1>1, <2>1, <2>2
<1>4. CASE P \cap Critical = {} \/ P \ Critical = {}
  <2>1. \A a, b \in P : Before(a, b, order) <=> Ahead(order, a, b)
    BY <1>1, <1>4
  <2> QED
    BY <1>2, <2>1
<1> QED
  BY <1>3, <1>4

-----------------------------------------------------------------------------
(* What is drawn of an order.                                              *)
DrawnOf(order) ==
  First(order) \cup {s \in ToSet(order) \ First(order) : Fits(s, First(order), order)}

Speaking(order) == {Kind(s) : s \in ToSet(order)}

LEMMA HeldFinite ==
  ASSUME NEW S, NEW q \in Seq(S)
  PROVE  IsFiniteSet(ToSet(q))
<1>1. q \in [DOMAIN q -> ToSet(q)] /\ DOMAIN q = 1 .. Len(q) /\ Len(q) \in Nat
  BY DEF ToSet
<1>2. IsFiniteSet(1 .. Len(q))
  <2>1. 1 \in Int /\ Len(q) \in Int
    BY <1>1
  <2> QED
    BY <2>1, FS_Interval
<1>3. q \in Surjection(DOMAIN q, ToSet(q))
  BY <1>1 DEF ToSet, Surjection
<1> QED
  BY <1>1, <1>2, <1>3, FS_Surjection

(* Whoever speaks has one first card, before all its others.               *)
LEMMA OneFirst ==
  ASSUME NEW order \in Seq(Slots), IsInjective(order)
  PROVE  /\ First(order) \subseteq ToSet(order) /\ IsFiniteSet(First(order))
         /\ \A s \in ToSet(order) : \E f \in First(order) :
              Kind(f) = Kind(s) /\ (f = s \/ Before(f, s, order))
         /\ \A f, g \in First(order) : Kind(f) = Kind(g) => f = g
         /\ {Kind(s) : s \in First(order)} = Speaking(order)
         /\ IsFiniteSet(Speaking(order))
         /\ Cardinality(First(order)) = Cardinality(Speaking(order))
<1> DEFINE F == First(order)
           all == ToSet(order)
           kinds == Speaking(order)
<1>1. /\ \A a, b \in all : a = b \/ Before(a, b, order) \/ Before(b, a, order)
      /\ \A a, b : ~(Before(a, b, order) /\ Before(b, a, order))
  BY BeforeOrders
<1>2. \A f : f \in F <=> f \in all /\ \A t \in all : Kind(t) = Kind(f) => ~Before(t, f, order)
  BY DEF First
<1>3. \A k : k \in kinds <=> \E s \in all : k = Kind(s)
  BY DEF Speaking
<1>4. IsFiniteSet(all)
  BY HeldFinite
<1> HIDE DEF F, all, kinds
<1>5. IsFiniteSet(F) /\ F \subseteq all
  BY <1>2, <1>4, FS_Subset
<1>6. ASSUME NEW s \in all
      PROVE  \E f \in F : Kind(f) = Kind(s) /\ (f = s \/ Before(f, s, order))
  <2> DEFINE P == {t \in all : Kind(t) = Kind(s)}
  <2>1. P \in SUBSET all /\ P # {} /\ s \in P
    BY <1>6
  <2>2. PICK f \in P : \A b \in P : f = b \/ Before(f, b, order)
    BY <2>1, BeforeAll DEF all
  <2>3. f \in all /\ Kind(f) = Kind(s)
    BY <2>2
  <2>4. \A t \in all : Kind(t) = Kind(f) => ~Before(t, f, order)
    BY <1>1, <2>2, <2>3
  <2> QED
    BY <1>2, <2>1, <2>2, <2>3, <2>4
<1>7. \A f, g \in F : Kind(f) = Kind(g) => f = g
  BY <1>1, <1>2
<1>8. {Kind(s) : s \in F} = kinds
  <2>1. \A k \in kinds : \E f \in F : k = Kind(f)
    BY <1>3, <1>6
  <2>2. \A f \in F : Kind(f) \in kinds
    BY <1>2, <1>3
  <2> QED
    BY <2>1, <2>2
<1>9. IsFiniteSet(kinds) /\ Cardinality(F) = Cardinality(kinds)
  <2> DEFINE f == [s \in F |-> Kind(s)]
  <2>1. f \in [F -> kinds]
    BY <1>8
  <2>2. f \in Injection(F, kinds)
    BY <1>7, <2>1 DEF Injection, IsInjective
  <2>3. f \in Surjection(F, kinds)
    BY <1>8, <2>1 DEF Surjection
  <2> QED
    BY <1>5, <2>2, <2>3, FS_Surjection
<1> QED
  BY <1>5, <1>6, <1>7, <1>8, <1>9 DEF F, all, kinds

(* A provider's first card is on screen, and the others have room.         *)
LEMMA DrawnSpeaks ==
  ASSUME NEW order \in Seq(Slots), IsInjective(order)
  PROVE  /\ DrawnOf(order) \subseteq ToSet(order)
         /\ {Kind(s) : s \in DrawnOf(order)} = Speaking(order)
         /\ Cardinality(DrawnOf(order)) > Capacity =>
              Cardinality(DrawnOf(order)) = Cardinality(Speaking(order))
<1> DEFINE F == First(order)
           D == DrawnOf(order)
           rest == D \ F
           kinds == Speaking(order)
<1>1. /\ F \subseteq ToSet(order) /\ IsFiniteSet(F)
      /\ {Kind(s) : s \in F} = kinds /\ Cardinality(F) = Cardinality(kinds)
  BY OneFirst
<1>2. D \subseteq ToSet(order) /\ F \subseteq D
  BY <1>1 DEF DrawnOf
<1>3. {Kind(s) : s \in D} = kinds
  <2>1. \A s \in D : Kind(s) \in kinds
    BY <1>2 DEF Speaking
  <2>2. \A k \in kinds : \E s \in D : k = Kind(s)
    BY <1>1, <1>2
  <2> QED
    BY <2>1, <2>2
<1>4. ASSUME Cardinality(D) > Capacity
      PROVE  rest = {}
  <2> SUFFICES ASSUME rest # {} PROVE FALSE
    OBVIOUS
  <2>1. rest \in SUBSET ToSet(order) /\ IsFiniteSet(ToSet(order))
    BY <1>2, HeldFinite
  <2>2. PICK s \in rest : \A b \in rest : s = b \/ Before(b, s, order)
    BY <2>1, BeforeAll
  <2> DEFINE W == Waiting(s, F, order)
  <2>3. rest \in SUBSET W /\ W \in SUBSET ToSet(order)
    BY <1>2, <2>2 DEF Waiting
  <2>4. IsFiniteSet(W) /\ IsFiniteSet(rest)
    BY <2>1, <2>3, FS_Subset
  <2>5. Cardinality(rest) <= Cardinality(W)
    BY <2>3, <2>4, FS_Subset
  <2>6. Cardinality(W) + Cardinality(F) <= Capacity
    BY <2>2 DEF DrawnOf, Fits
  <2>7. Cardinality(D) = Cardinality(F) + Cardinality(rest)
    <3>1. D = F \cup rest /\ F \cap rest = {}
      BY <1>2
    <3>2. Cardinality(F \cup rest) = Cardinality(F) + Cardinality(rest) - Cardinality(F \cap rest)
      BY <1>1, <2>4, FS_Union
    <3>3. Cardinality(F \cap rest) = 0
      BY <3>1, FS_EmptySet
    <3>4. Cardinality(F) \in Nat /\ Cardinality(rest) \in Nat
      BY <1>1, <2>4, FS_CardinalityType
    <3> HIDE DEF F, D, rest
    <3>5. Cardinality(D) = Cardinality(F) + Cardinality(rest) - 0
      BY <3>1, <3>2, <3>3
    <3> QED
      BY <3>4, <3>5
  <2>8. Cardinality(F) \in Nat /\ Cardinality(rest) \in Nat /\ Cardinality(W) \in Nat /\ Capacity \in Nat
    BY <1>1, <2>4, FS_CardinalityType, ColumnAssumption
  <2> QED
    BY <1>4, <2>5, <2>6, <2>7, <2>8
<1>5. ASSUME Cardinality(D) > Capacity
      PROVE  Cardinality(D) = Cardinality(kinds)
  <2>1. D = F
    BY <1>2, <1>4, <1>5
  <2> QED
    BY <1>1, <2>1
<1> QED
  BY <1>2, <1>3, <1>5

(* Arrivals::order: those who stay keep their order, and who comes, comes  *)
(* after them.                                                             *)
LEMMA ArrivalsOrder ==
  ASSUME arrived \in Seq(Slots), IsInjective(arrived), NEW cards \in Seq(Slots), IsInjective(cards)
  PROVE  /\ Arrivals(cards) \in Seq(Slots) /\ IsInjective(Arrivals(cards))
         /\ ToSet(Arrivals(cards)) = ToSet(cards)
         /\ \A a, b \in ToSet(arrived) \cap ToSet(cards) :
              Ahead(Arrivals(cards), a, b) <=> Ahead(arrived, a, b)
         /\ \A a \in ToSet(arrived) \cap ToSet(cards), b \in ToSet(cards) \ ToSet(arrived) :
              Ahead(Arrivals(cards), a, b)
<1> DEFINE stay == {i \in DOMAIN arrived : arrived[i] \in ToSet(cards)}
           come == {i \in DOMAIN cards : cards[i] \notin ToSet(arrived)}
           u == Picked(arrived, stay)
           v == Picked(cards, come)
<1>1. /\ u \in Seq(Slots) /\ IsInjective(u) /\ ToSet(u) = {arrived[i] : i \in stay}
      /\ \A a, b \in ToSet(u) : Ahead(u, a, b) <=> Ahead(arrived, a, b)
  <2>1. stay \in SUBSET DOMAIN arrived
    OBVIOUS
  <2> HIDE DEF stay
  <2> QED
    BY <2>1, PickedKeeps
<1>2. v \in Seq(Slots) /\ IsInjective(v) /\ ToSet(v) = {cards[i] : i \in come}
  <2>1. come \in SUBSET DOMAIN cards
    OBVIOUS
  <2> HIDE DEF come
  <2> QED
    BY <2>1, PickedKeeps
<1>3. Arrivals(cards) = u \o v
  BY DEF Arrivals
<1>4. {arrived[i] : i \in stay} = ToSet(arrived) \cap ToSet(cards)
  BY DEF ToSet
<1>5. {cards[i] : i \in come} = ToSet(cards) \ ToSet(arrived)
  BY DEF ToSet
<1> HIDE DEF u, v, stay, come
<1>6. ToSet(u) = ToSet(arrived) \cap ToSet(cards) /\ ToSet(v) = ToSet(cards) \ ToSet(arrived)
  BY <1>1, <1>2, <1>4, <1>5
<1>7. ToSet(u) \cap ToSet(v) = {} /\ ToSet(u) \cup ToSet(v) = ToSet(cards)
  BY <1>6
<1>8. /\ u \o v \in Seq(Slots) /\ IsInjective(u \o v) /\ ToSet(u \o v) = ToSet(u) \cup ToSet(v)
      /\ \A a, b \in ToSet(u) : Ahead(u \o v, a, b) <=> Ahead(u, a, b)
      /\ \A a \in ToSet(u), b \in ToSet(v) : Ahead(u \o v, a, b)
  BY <1>1, <1>2, <1>7, AfterOther
<1>9. \A a, b \in ToSet(arrived) \cap ToSet(cards) : Ahead(u \o v, a, b) <=> Ahead(arrived, a, b)
  BY <1>1, <1>6, <1>8
<1>10. \A a \in ToSet(arrived) \cap ToSet(cards), b \in ToSet(cards) \ ToSet(arrived) :
         Ahead(u \o v, a, b)
  BY <1>6, <1>8
<1> QED
  BY <1>3, <1>7, <1>8, <1>9, <1>10

(* A card drawn is drawn again, unless another provider begins to speak or *)
(* a critical card that was not drawn is.                                  *)
LEMMA DrawnStays ==
  ASSUME NEW old \in Seq(Slots), IsInjective(old), NEW new \in Seq(Slots), IsInjective(new),
         \A a, b \in ToSet(old) \cap ToSet(new) : Ahead(new, a, b) <=> Ahead(old, a, b),
         \A a \in ToSet(old) \cap ToSet(new), b \in ToSet(new) \ ToSet(old) : Ahead(new, a, b),
         Speaking(new) \subseteq Speaking(old),
         Critical \cap DrawnOf(new) \subseteq DrawnOf(old),
         NEW s \in DrawnOf(old), s \in ToSet(new)
  PROVE  s \in DrawnOf(new)
<1> DEFINE F == First(old)
           G == First(new)
           both == ToSet(old) \cap ToSet(new)
           W == Waiting(s, F, old)
           V == Waiting(s, G, new)
<1>1. s \in both /\ DrawnOf(old) \subseteq ToSet(old) /\ G \subseteq DrawnOf(new)
  BY DrawnSpeaks DEF DrawnOf
<1>2. \A a, b \in both : Before(a, b, new) <=> Before(a, b, old)
  BY BeforeIs
<1>3. \A a \in both, b \in ToSet(new) \ ToSet(old) :
        Before(b, a, new) => b \in Critical /\ a \notin Critical
  <2>1. \A a, b : ~(Ahead(new, a, b) /\ Ahead(new, b, a))
    BY AheadOrders
  <2> QED
    BY <2>1, BeforeIs
<1>4. \A t \in ToSet(new) \cap Critical : t \in DrawnOf(new) => t \in ToSet(old)
  BY <1>1
<1>5. \A y \in F : y \in ToSet(new) => y \in G
  <2> SUFFICES ASSUME NEW y \in F, y \in ToSet(new), y \notin G
               PROVE  FALSE
    OBVIOUS
  <2>1. y \in both
    BY OneFirst
  <2>2. PICK f \in G : Kind(f) = Kind(y) /\ (f = y \/ Before(f, y, new))
    BY OneFirst
  <2>3. f \in ToSet(new) /\ Before(f, y, new)
    BY <2>2, OneFirst
  <2>4. CASE f \in ToSet(old)
    <3>1. Before(f, y, old)
      BY <1>2, <2>1, <2>3, <2>4
    <3> QED
      BY <2>2, <2>4, <3>1 DEF First
  <2>5. CASE f \notin ToSet(old)
    BY <1>1, <1>3, <1>4, <2>1, <2>3, <2>5
  <2> QED
    BY <2>4, <2>5
<1>6. Cardinality(G) <= Cardinality(F) /\ Cardinality(G) \in Nat /\ Cardinality(F) \in Nat
  <2>1. /\ Cardinality(F) = Cardinality(Speaking(old)) /\ IsFiniteSet(Speaking(old))
        /\ Cardinality(G) = Cardinality(Speaking(new)) /\ IsFiniteSet(G) /\ IsFiniteSet(F)
    BY OneFirst
  <2> QED
    BY <2>1, FS_Subset, FS_CardinalityType
<1>7. ASSUME s \notin G
      PROVE  s \in DrawnOf(new)
  <2>1. s \notin F /\ Cardinality(W) + Cardinality(F) <= Capacity
    BY <1>1, <1>5, <1>7 DEF DrawnOf, Fits
  <2>2. \A t \in V : t \in ToSet(old) => t \in W
    <3> SUFFICES ASSUME NEW t \in V, t \in ToSet(old)
                 PROVE  t \in W
      OBVIOUS
    <3>1. t \in both /\ t \notin G /\ (t = s \/ Before(t, s, new))
      BY DEF Waiting
    <3>2. t \notin F /\ (t = s \/ Before(t, s, old))
      BY <1>1, <1>2, <1>5, <3>1
    <3> QED
      BY <3>1, <3>2 DEF Waiting
  <2>3. IsFiniteSet(W) /\ IsFiniteSet(V) /\ s \in W
    <3>1. IsFiniteSet(ToSet(old)) /\ IsFiniteSet(ToSet(new))
      BY HeldFinite
    <3>2. W \in SUBSET ToSet(old) /\ V \in SUBSET ToSet(new)
      BY DEF Waiting
    <3> QED
      BY <1>1, <2>1, <3>1, <3>2, FS_Subset DEF Waiting
  <2>4. Cardinality(W) \in Nat /\ Cardinality(V) \in Nat /\ Capacity \in Nat
    BY <2>3, FS_CardinalityType, ColumnAssumption
  <2>5. \A t \in V : t \in ToSet(old)
    <3> DEFINE N == V \ ToSet(old)
    <3> SUFFICES ASSUME N # {}
                 PROVE  FALSE
      OBVIOUS
    <3>1. N \in SUBSET ToSet(new)
      BY DEF Waiting
    <3>2. PICK c \in N : \A b \in N : c = b \/ Before(c, b, new)
      BY <3>1, BeforeAll
    <3> DEFINE U == Waiting(c, G, new)
    <3>3. /\ c \in ToSet(new) /\ c \notin ToSet(old) /\ c \notin G /\ c # s /\ Before(c, s, new)
      BY <1>1, <3>2 DEF Waiting
    <3>4. c \in Critical
      BY <1>1, <1>3, <3>3
    <3>5. \A t \in U : t # c => t \in W /\ t # s
      <4> SUFFICES ASSUME NEW t \in U, t # c
                   PROVE  t \in W /\ t # s
        OBVIOUS
      <4>1. t \in ToSet(new) /\ t \notin G /\ Before(t, c, new)
        BY DEF Waiting
      <4>2. Before(t, s, new) /\ ~Before(c, t, new) /\ ~Before(s, c, new)
        BY <3>3, <4>1, BeforeOrders
      <4>3. t \in V
        BY <4>1, <4>2 DEF Waiting
      <4>4. t \in ToSet(old)
        BY <3>2, <4>2, <4>3
      <4> QED
        BY <2>2, <4>1, <4>2, <4>3, <4>4
    <3>6. IsFiniteSet(U) /\ c \in U
      <4>1. IsFiniteSet(ToSet(new)) /\ U \in SUBSET ToSet(new)
        BY HeldFinite DEF Waiting
      <4> QED
        BY <3>3, <4>1, FS_Subset DEF Waiting
    <3>7. Cardinality(U) <= Cardinality(W)
      <4>1. U \ {c} \in SUBSET (W \ {s})
        BY <3>5
      <4>2. IsFiniteSet(W \ {s}) /\ Cardinality(W \ {s}) = Cardinality(W) - 1
        BY <2>3, FS_RemoveElement
      <4>3. Cardinality(U \ {c}) = Cardinality(U) - 1
        BY <3>6, FS_RemoveElement
      <4>4. Cardinality(U \ {c}) <= Cardinality(W \ {s})
        BY <4>1, <4>2, FS_Subset
      <4>5. Cardinality(U) \in Nat
        BY <3>6, FS_CardinalityType
      <4> HIDE DEF U, W
      <4> QED
        BY <2>4, <4>2, <4>3, <4>4, <4>5
    <3>8. Cardinality(U) \in Nat
      BY <3>6, FS_CardinalityType
    <3>9. Fits(c, G, new)
      BY <1>6, <2>1, <2>4, <3>7, <3>8 DEF Fits
    <3>10. c \in DrawnOf(new)
      BY <3>3, <3>9 DEF DrawnOf
    <3> QED
      BY <1>4, <3>3, <3>4, <3>10
  <2>6. Cardinality(V) <= Cardinality(W)
    <3>1. V \in SUBSET W
      BY <2>2, <2>5
    <3> QED
      BY <2>3, <3>1, FS_Subset
  <2>7. Fits(s, G, new)
    BY <1>6, <2>1, <2>4, <2>6 DEF Fits
  <2> QED
    BY <1>7, <2>7 DEF DrawnOf
<1> QED
  BY <1>1, <1>7

-----------------------------------------------------------------------------
(* Toasts that may be live: each about an event of its own.                *)
Live(q) ==
  /\ q \in Seq(Toast) /\ Len(q) <= Visible
  /\ \A i, j \in DOMAIN q : q[i].event = q[j].event => i = j

LEMMA LivePicked ==
  ASSUME NEW q, Live(q), NEW at \in SUBSET DOMAIN q
  PROVE  Live(Picked(q, at))
<1> DEFINE n == Cardinality(at)
           p == Picked(q, at)
<1>1. q \in Seq(Toast) /\ Len(q) \in Nat /\ DOMAIN q = 1 .. Len(q) /\ Len(q) <= Visible
  BY DEF Live
<1>2. IsInjective(q)
  BY DEF Live, IsInjective
<1>3. /\ IsFiniteSet(at) /\ at \subseteq Nat /\ n \in Nat
      /\ p \in Seq(Toast) /\ DOMAIN p = 1 .. n
      /\ \A k \in 1 .. n : Place(at, k) \in at /\ p[k] = q[Place(at, k)]
  BY <1>1, PickedType
<1>4. IsInjective(p)
  BY <1>1, <1>2, PickedKeeps
<1>5. n <= Len(q)
  <2>1. 1 \in Int /\ Len(q) \in Int
    BY <1>1
  <2>2. IsFiniteSet(1 .. Len(q)) /\ Cardinality(1 .. Len(q)) = IF 1 > Len(q) THEN 0 ELSE Len(q) - 1 + 1
    BY <2>1, FS_Interval
  <2>3. at \in SUBSET (1 .. Len(q))
    BY <1>1
  <2>4. n <= Cardinality(1 .. Len(q))
    BY <2>2, <2>3, FS_Subset
  <2> QED
    BY <1>1, <1>3, <2>2, <2>4
<1>6. Len(p) = n
  BY <1>3
<1> HIDE DEF n, p
<1>7. \A i, j \in 1 .. n : p[i].event = p[j].event => i = j
  <2> SUFFICES ASSUME NEW i \in 1 .. n, NEW j \in 1 .. n, p[i].event = p[j].event
               PROVE  i = j
    OBVIOUS
  <2>1. Place(at, i) = Place(at, j)
    BY <1>3 DEF Live
  <2>2. p[i] = p[j]
    BY <1>3, <2>1
  <2> QED
    BY <1>3, <1>4, <2>2 DEF IsInjective
<1>8. n <= Visible
  BY <1>1, <1>3, <1>5, ColumnAssumption
<1> QED
  BY <1>3, <1>6, <1>7, <1>8 DEF Live, p

(* toaster::admit keeps no more than fit, one for an event.                *)
LEMMA LiveAdmitted ==
  ASSUME NEW q, Live(q), NEW t \in Toast
  PROVE  Live(Admitted(q, t))
<1>1. q \in Seq(Toast) /\ Len(q) \in Nat /\ DOMAIN q = 1 .. Len(q) /\ Len(q) <= Visible
  BY DEF Live
<1>2. \A i \in DOMAIN q : q[i] \in Toast
  BY <1>1
<1>3. \A i, j \in DOMAIN q : q[i].event = q[j].event => i = j
  BY DEF Live
<1>4. CASE \E i \in DOMAIN q : q[i].event = t.event
  <2> DEFINE r == [i \in DOMAIN q |-> IF q[i].event = t.event THEN t ELSE q[i]]
  <2>1. r \in Seq(Toast) /\ Len(r) = Len(q) /\ DOMAIN r = DOMAIN q
    <3>1. \A i \in 1 .. Len(q) : r[i] \in Toast
      BY <1>1, <1>2
    <3>2. r \in [1 .. Len(q) -> Toast]
      BY <1>1, <3>1
    <3>3. DOMAIN r = 1 .. Len(q)
      BY <1>1
    <3> HIDE DEF r
    <3>4. r \in Seq(Toast)
      BY <1>1, <3>2
    <3> QED
      BY <1>1, <3>3, <3>4
  <2>2. \A i \in DOMAIN q : r[i].event = q[i].event
    OBVIOUS
  <2>3. r = Admitted(q, t)
    BY <1>4 DEF Admitted
  <2> HIDE DEF r
  <2> QED
    BY <1>1, <1>3, <2>1, <2>2, <2>3 DEF Live
<1>5. CASE \A i \in DOMAIN q : q[i].event # t.event
  <2> DEFINE s == Append(q, t)
             l == Len(q) + 1
  <2>1. /\ s \in Seq(Toast) /\ Len(s) = l /\ DOMAIN s = 1 .. l /\ l \in Nat
        /\ s[l] = t /\ \A i \in 1 .. Len(q) : s[i] = q[i]
    BY <1>1
  <2>2. \A i \in 1 .. l : i = l \/ i \in DOMAIN q
    BY <1>1
  <2>3. Admitted(q, t) = IF l > Visible THEN SubSeq(s, l - Visible + 1, l) ELSE SubSeq(s, 1, l)
    BY <1>5, <2>1 DEF Admitted, Latest
  <2>4. Visible \in Nat /\ l <= Visible + 1 /\ Len(q) \in Nat
    BY <1>1, ColumnAssumption
  <2> HIDE DEF s
  <2>5. \A i, j \in 1 .. l : s[i].event = s[j].event => i = j
    BY <1>1, <1>3, <1>5, <2>1, <2>2
  <2>6. \A i \in 1 .. l : s[i] \in Toast
    BY <2>1
  <2> HIDE DEF l
  <2>7. ASSUME NEW f \in Nat \ {0}, f <= l + 1, l - f + 1 <= Visible
        PROVE  Live(SubSeq(s, f, l))
    <3> DEFINE u == SubSeq(s, f, l)
    <3>1. \A i \in f .. l : i \in 1 .. l
      BY <2>1
    <3>2. \A i \in f .. l : s[i] \in Toast
      BY <2>6, <3>1
    <3>3. f \in Int /\ l \in Int
      BY <2>1
    <3>4. /\ u \in Seq(Toast) /\ Len(u) = IF f <= l THEN l - f + 1 ELSE 0
          /\ \A i \in 1 .. l - f + 1 : u[i] = s[f + i - 1]
      BY <3>2, <3>3, SubSeqProperties
    <3>5. Len(u) = l - f + 1 /\ l - f + 1 \in Nat
      BY <2>1, <2>7, <3>4
    <3>6. DOMAIN u = 1 .. l - f + 1
      BY <3>4, <3>5
    <3>7. \A i \in 1 .. l - f + 1 : f + i - 1 \in 1 .. l
      BY <2>1, <2>7
    <3> HIDE DEF u
    <3>8. \A i, j \in DOMAIN u : u[i].event = u[j].event => i = j
      <4> SUFFICES ASSUME NEW i \in 1 .. l - f + 1, NEW j \in 1 .. l - f + 1,
                          s[f + i - 1].event = s[f + j - 1].event
                   PROVE  i = j
        BY <3>4, <3>6
      <4>1. f + i - 1 = f + j - 1
        BY <2>5, <3>7
      <4> QED
        BY <4>1
    <3> QED
      BY <2>7, <3>4, <3>5, <3>8 DEF Live, u
  <2>8. CASE l > Visible
    <3>1. /\ l - Visible + 1 \in Nat \ {0} /\ l - Visible + 1 <= l + 1
          /\ l - (l - Visible + 1) + 1 <= Visible
      BY <2>1, <2>4, <2>8, ColumnAssumption
    <3> QED
      BY <2>3, <2>7, <2>8, <3>1
  <2>9. CASE ~(l > Visible)
    BY <2>1, <2>3, <2>4, <2>7, <2>9
  <2> QED
    BY <2>8, <2>9
<1> QED
  BY <1>4, <1>5

(* The cards of the three providers are slots, each there once.            *)
LEMMA CardsType ==
  ASSUME NEW up \in Seq(Popups), IsInjective(up), NEW q, Live(q), NEW shown \in Osds \cup {NoOsd}
  PROVE  Cards(up, q, shown) \in Seq(Slots) /\ IsInjective(Cards(up, q, shown))
<1> DEFINE ev == [i \in DOMAIN q |-> q[i].event]
           tail == IF shown = NoOsd THEN <<>> ELSE <<shown>>
<1>1. q \in Seq(Toast) /\ DOMAIN q = 1 .. Len(q) /\ Len(q) \in Nat
  BY DEF Live
<1>2. \A i \in DOMAIN q : q[i].event \in Events
  <2>1. \A i \in DOMAIN q : q[i] \in Toast
    BY <1>1
  <2> QED
    BY <2>1 DEF Toast
<1>3. ev \in Seq(Slots) /\ IsInjective(ev) /\ ToSet(ev) \subseteq Events
  <2>1. ev \in [1 .. Len(q) -> Slots]
    BY <1>1, <1>2 DEF Slots
  <2>2. DOMAIN ev = DOMAIN q /\ \A i \in DOMAIN q : ev[i] = q[i].event
    OBVIOUS
  <2> HIDE DEF ev
  <2>3. ev \in Seq(Slots)
    BY <1>1, <2>1
  <2> QED
    BY <1>2, <2>2, <2>3 DEF Live, IsInjective, ToSet
<1>4. tail \in Seq(Slots) /\ IsInjective(tail) /\ ToSet(tail) \subseteq Osds
  <2>1. CASE shown # NoOsd
    <3>1. <<shown>> \in Seq(Slots) /\ DOMAIN <<shown>> = 1 .. 1 /\ <<shown>>[1] = shown /\ shown \in Osds
      BY <2>1 DEF Slots
    <3> QED
      BY <2>1, <3>1 DEF IsInjective, ToSet
  <2>2. CASE shown = NoOsd
    <3>1. <<>> \in Seq(Slots)
      OBVIOUS
    <3>2. DOMAIN <<>> = {}
      OBVIOUS
    <3> QED
      BY <2>2, <3>1, <3>2 DEF IsInjective, ToSet
  <2> QED
    BY <2>1, <2>2
<1>5. up \in Seq(Slots) /\ ToSet(up) \subseteq Popups
  <2>1. \A i \in DOMAIN up : up[i] \in Popups
    OBVIOUS
  <2>2. up \in [1 .. Len(up) -> Slots] /\ Len(up) \in Nat
    BY <2>1 DEF Slots
  <2>3. up \in Seq(Slots)
    BY <2>2
  <2> QED
    BY <2>1, <2>3 DEF ToSet
<1>6. Cards(up, q, shown) = (up \o ev) \o tail
  BY DEF Cards
<1> HIDE DEF ev, tail
<1>7. ToSet(up) \cap ToSet(ev) = {}
  BY <1>3, <1>5, ColumnAssumption
<1>8. up \o ev \in Seq(Slots) /\ IsInjective(up \o ev) /\ ToSet(up \o ev) = ToSet(up) \cup ToSet(ev)
  BY <1>3, <1>5, <1>7, AfterOther
<1>9. ToSet(up \o ev) \cap ToSet(tail) = {}
  BY <1>3, <1>4, <1>5, <1>8, ColumnAssumption
<1>10. (up \o ev) \o tail \in Seq(Slots) /\ IsInjective((up \o ev) \o tail)
  BY <1>4, <1>8, <1>9, AfterOther
<1> QED
  BY <1>6, <1>10

-----------------------------------------------------------------------------
(* Who is there, of the shape it has.                                      *)
Providers ==
  /\ popping \in Seq(Popups) /\ IsInjective(popping)
  /\ Live(toasts) /\ osd \in Osds \cup {NoOsd} /\ posts \in 0 .. MaxPosts

(* A timer of the OSD shown last has the time left that the OSD has.       *)
TimersRun ==
  /\ shows \in 0 .. MaxShows /\ since \in 0 .. Life
  /\ timers \subseteq [gen : 1 .. MaxShows, left : 0 .. Life]
  /\ \A t \in timers : t.gen <= shows /\ (t.gen = shows => since <= t.left)

(* What is on screen is what is drawn of those there are.                  *)
LaneShown == arrived \in Seq(Slots) /\ IsInjective(arrived) /\ drawn = DrawnOf(arrived)

ColumnInv == Providers /\ TimersRun /\ LaneShown

(* A lane drawn again.                                                     *)
LEMMA LaysShown ==
  ASSUME LaneShown, NEW up \in Seq(Popups), IsInjective(up), NEW q, Live(q),
         NEW shown \in Osds \cup {NoOsd},
         Lays(up, q, shown)
  PROVE  /\ LaneShown'
         /\ \A s \in drawn \cap ToSet(arrived') :
              \/ s \in drawn'
              \/ Speaking(arrived') \ Speaking(arrived) # {}
              \/ (Critical \cap drawn') \ drawn # {}
<1> DEFINE cards == Cards(up, q, shown)
<1>1. cards \in Seq(Slots) /\ IsInjective(cards)
  BY CardsType
<1>2. arrived' = Arrivals(cards) /\ drawn' = DrawnOf(arrived')
  BY DEF Lays, DrawnOf
<1> HIDE DEF cards
<1>3. /\ arrived' \in Seq(Slots) /\ IsInjective(arrived') /\ ToSet(arrived') = ToSet(cards)
      /\ \A a, b \in ToSet(arrived) \cap ToSet(cards) : Ahead(arrived', a, b) <=> Ahead(arrived, a, b)
      /\ \A a \in ToSet(arrived) \cap ToSet(cards), b \in ToSet(cards) \ ToSet(arrived) :
           Ahead(arrived', a, b)
  BY <1>1, <1>2, ArrivalsOrder DEF LaneShown
<1>4. LaneShown'
  BY <1>2, <1>3 DEF LaneShown, DrawnOf, First, Fits, Waiting
<1>5. ASSUME NEW s \in drawn \cap ToSet(arrived'), Speaking(arrived') \subseteq Speaking(arrived),
             Critical \cap drawn' \subseteq drawn
      PROVE  s \in drawn'
  <2>1. arrived \in Seq(Slots) /\ IsInjective(arrived) /\ drawn = DrawnOf(arrived)
    BY DEF LaneShown
  <2>2. Critical \cap DrawnOf(arrived') \subseteq DrawnOf(arrived) /\ s \in DrawnOf(arrived) /\ s \in ToSet(arrived')
    BY <1>2, <1>5, <2>1
  <2>3. s \in DrawnOf(arrived')
    BY <1>3, <1>5, <2>1, <2>2, DrawnStays
  <2> QED
    BY <1>2, <2>3
<1> QED
  BY <1>4, <1>5

(* What a step does that draws the lane again.                             *)
LaneDrawn ==
  /\ popping' \in Seq(Popups) /\ IsInjective(popping') /\ Live(toasts')
  /\ osd' \in Osds \cup {NoOsd}
  /\ Lays(popping', toasts', osd')

LEMMA ColumnSteps ==
  ASSUME Providers, TimersRun, [ColumnNext]_columnVars
  PROVE  Providers' /\ TimersRun' /\ (LaneDrawn \/ UNCHANGED <<arrived, drawn>>)
<1>0. \A q : Live(q) => Live(Unexpired(q))
  BY LivePicked DEF Unexpired
<1>1. ASSUME NEW q, Live(q), Receives(q), posts' \in 0 .. MaxPosts
      PROVE  Providers' /\ TimersRun' /\ LaneDrawn
  <2>1. Live(toasts') /\ Lays(popping, toasts', osd)
        /\ UNCHANGED <<popping, osd, shows, timers, since>>
    BY <1>0, <1>1 DEF Receives
  <2>2. popping' = popping /\ osd' = osd
    BY <2>1
  <2> QED
    BY <1>1, <2>1, <2>2 DEF Providers, TimersRun, LaneDrawn, Live
<1>2. ASSUME NEW event \in Events, PostToast(event)
      PROVE  Providers' /\ TimersRun' /\ LaneDrawn
  <2>1. [event |-> event, left |-> Life] \in Toast
    BY ColumnAssumption DEF Toast
  <2>2. Live(Admitted(toasts, [event |-> event, left |-> Life]))
    BY <2>1, LiveAdmitted DEF Providers
  <2>3. posts' \in 0 .. MaxPosts
    BY <1>2, ColumnAssumption DEF PostToast, Providers
  <2> QED
    BY <1>1, <1>2, <2>2, <2>3 DEF PostToast
<1>3. CASE DismissToast
  <2>1. PICK event \in Events :
          Receives(Picked(toasts, {i \in DOMAIN toasts : toasts[i].event # event}))
    BY <1>3 DEF DismissToast
  <2>2. Live(Picked(toasts, {i \in DOMAIN toasts : toasts[i].event # event}))
    BY LivePicked DEF Providers
  <2>3. posts' \in 0 .. MaxPosts
    BY <1>3 DEF DismissToast, Providers
  <2> QED
    BY <1>1, <2>1, <2>2, <2>3
<1>4. CASE ClearToasts
  <2>1. <<>> \in Seq(Toast)
    OBVIOUS
  <2>2. Len(<<>>) = 0 /\ DOMAIN <<>> = {}
    OBVIOUS
  <2>3. Live(<<>>)
    BY <2>1, <2>2, ColumnAssumption DEF Live
  <2> QED
    BY <1>1, <1>4, <2>3 DEF ClearToasts, Providers
<1>5. CASE ToasterWakes
  BY <1>1, <1>5 DEF ToasterWakes, Providers
<1>6. ASSUME NEW k \in Osds, ShowOsd(k)
      PROVE  Providers' /\ TimersRun' /\ LaneDrawn
  <2>1. UNCHANGED <<popping, posts, toasts>> /\ osd' = k /\ Lays(popping, toasts, k)
    BY <1>6 DEF ShowOsd
  <2>2. TimersRun'
    BY <1>6, ColumnAssumption DEF ShowOsd, TimersRun
  <2> QED
    BY <2>1, <2>2 DEF Providers, LaneDrawn, Live
<1>7. CASE ClearOsd
  <2>1. UNCHANGED <<popping, posts, toasts>> /\ osd' = NoOsd /\ Lays(popping, toasts, NoOsd)
    BY <1>7 DEF ClearOsd
  <2>2. TimersRun'
    BY <1>7, ColumnAssumption DEF ClearOsd, TimersRun
  <2> QED
    BY <2>1, <2>2 DEF Providers, LaneDrawn, Live
<1>8. CASE OsdTimer
  <2>1. UNCHANGED <<popping, posts, toasts>> /\ Lays(popping, toasts, osd')
    BY <1>8 DEF OsdTimer
  <2>2. osd' \in Osds \cup {NoOsd}
    BY <1>8 DEF OsdTimer, Providers
  <2>3. TimersRun'
    BY <1>8 DEF OsdTimer, TimersRun
  <2> QED
    BY <2>1, <2>2, <2>3 DEF Providers, LaneDrawn, Live
<1>9. CASE Tick
  <2>1. UNCHANGED <<popping, posts, osd, shows, arrived, drawn>>
    BY <1>9 DEF Tick
  <2>2. Live(toasts')
    <3>1. \A i \in DOMAIN toasts : toasts[i] \in Toast
      BY DEF Providers, Live
    <3>2. \A t \in Toast : Less(t) \in Toast /\ Less(t).event = t.event
      BY ColumnAssumption DEF Less, Toast
    <3>3. DOMAIN toasts = 1 .. Len(toasts) /\ Len(toasts) \in Nat
      BY DEF Providers, Live
    <3> DEFINE r == [i \in DOMAIN toasts |-> Less(toasts[i])]
    <3>4. r \in [1 .. Len(toasts) -> Toast] /\ \A i \in DOMAIN toasts : r[i].event = toasts[i].event
      BY <3>1, <3>2, <3>3
    <3>5. DOMAIN r = 1 .. Len(toasts) /\ toasts' = r
      BY <1>9, <3>3 DEF Tick
    <3> HIDE DEF r
    <3>6. r \in Seq(Toast) /\ Len(r) = Len(toasts)
      BY <3>3, <3>4, <3>5
    <3> QED
      BY <3>3, <3>4, <3>5, <3>6 DEF Providers, Live
  <2>3. TimersRun'
    <3>1. \A t \in timers : /\ t.gen \in 1 .. MaxShows /\ t.left \in 0 .. Life
                            /\ t.gen <= shows /\ (t.gen = shows => since <= t.left)
      BY DEF TimersRun
    <3>2. \A t \in timers : Less(t) = [gen |-> t.gen, left |-> IF t.left > 0 THEN t.left - 1 ELSE 0]
      BY DEF Less, TimersRun
    <3>3. timers' = {Less(t) : t \in timers} /\ shows' = shows
          /\ since' = IF since > 0 THEN since - 1 ELSE 0
      BY <1>9 DEF Tick
    <3>4. since' \in 0 .. Life /\ shows' \in 0 .. MaxShows
      BY <3>3, ColumnAssumption DEF TimersRun
    <3>5. \A u \in timers' : /\ u \in [gen : 1 .. MaxShows, left : 0 .. Life]
                             /\ u.gen <= shows' /\ (u.gen = shows' => since' <= u.left)
      <4> SUFFICES ASSUME NEW t \in timers
                   PROVE  /\ Less(t) \in [gen : 1 .. MaxShows, left : 0 .. Life]
                          /\ Less(t).gen <= shows' /\ (Less(t).gen = shows' => since' <= Less(t).left)
        BY <3>3
      <4> QED
        BY <3>1, <3>2, <3>3, ColumnAssumption DEF TimersRun
    <3> QED
      BY <3>4, <3>5 DEF TimersRun
  <2> QED
    BY <2>1, <2>2, <2>3 DEF Providers, Live
<1>10. CASE Notify
  <2>1. PICK p \in Popups :
          popping' = IF p \in ToSet(popping)
                     THEN Picked(popping, {i \in DOMAIN popping : popping[i] # p})
                     ELSE Append(popping, p)
    BY <1>10 DEF Notify
  <2>2. /\ UNCHANGED <<posts, toasts, osd, shows, timers, since>>
        /\ Lays(popping', toasts, osd)
    BY <1>10 DEF Notify
  <2>3. popping' \in Seq(Popups) /\ IsInjective(popping')
    <3>1. CASE p \in ToSet(popping)
      <4> DEFINE at == {i \in DOMAIN popping : popping[i] # p}
      <4>1. at \in SUBSET DOMAIN popping /\ popping' = Picked(popping, at)
        BY <2>1, <3>1
      <4> HIDE DEF at
      <4> QED
        BY <4>1, PickedKeeps DEF Providers
    <3>2. CASE p \notin ToSet(popping)
      <4> DEFINE l == Len(popping)
      <4>1. /\ DOMAIN popping = 1 .. l /\ l \in Nat /\ popping' = Append(popping, p)
            /\ \A i, j \in 1 .. l : popping[i] = popping[j] => i = j
            /\ \A i \in 1 .. l : popping[i] # p
        BY <2>1, <3>2 DEF Providers, IsInjective, ToSet
      <4>2. /\ popping' \in Seq(Popups) /\ DOMAIN popping' = 1 .. l + 1
            /\ popping'[l + 1] = p /\ \A i \in 1 .. l : popping'[i] = popping[i]
        BY <4>1 DEF Providers
      <4>3. \A i \in 1 .. l + 1 : i = l + 1 \/ i \in 1 .. l
        BY <4>1
      <4> HIDE DEF l
      <4> QED
        BY <4>1, <4>2, <4>3 DEF IsInjective
    <3> QED
      BY <3>1, <3>2
  <2> QED
    BY <2>2, <2>3 DEF Providers, TimersRun, LaneDrawn, Live
<1>11. CASE UNCHANGED columnVars
  BY <1>11 DEF columnVars, Providers, TimersRun, Live
<1> QED
  BY <1>2, <1>3, <1>4, <1>5, <1>6, <1>7, <1>8, <1>9, <1>10, <1>11 DEF ColumnNext

LEMMA ColumnInvInit ==
  ColumnInit => ColumnInv
<1> SUFFICES ASSUME ColumnInit PROVE ColumnInv
  OBVIOUS
<1>1. /\ popping = <<>> /\ toasts = <<>> /\ arrived = <<>> /\ posts = 0 /\ shows = 0
      /\ timers = {} /\ since = 0 /\ drawn = {}
  BY DEF ColumnInit
<1>2. osd \in Osds \cup {NoOsd}
  BY Zenon DEF ColumnInit
<1>3. \A S : <<>> \in Seq(S)
  OBVIOUS
<1>4. Len(<<>>) = 0 /\ DOMAIN <<>> = {}
  OBVIOUS
<1>5. Providers
  BY <1>1, <1>2, <1>3, <1>4, ColumnAssumption DEF Providers, Live, IsInjective
<1>6. TimersRun
  BY <1>1, ColumnAssumption DEF TimersRun
<1>7. ToSet(<<>>) = {}
  BY <1>4 DEF ToSet
<1>8. LaneShown
  BY <1>1, <1>3, <1>4, <1>7 DEF LaneShown, DrawnOf, First, IsInjective
<1> QED
  BY <1>5, <1>6, <1>8 DEF ColumnInv

(* What is drawn stays what the order and the room for it give.            *)
LEMMA ColumnInvNext ==
  ASSUME ColumnInv, [ColumnNext]_columnVars
  PROVE  /\ ColumnInv'
         /\ \A s \in drawn \cap ToSet(arrived') :
              \/ s \in drawn'
              \/ Speaking(arrived') \ Speaking(arrived) # {}
              \/ (Critical \cap drawn') \ drawn # {}
<1>1. Providers' /\ TimersRun' /\ (LaneDrawn \/ UNCHANGED <<arrived, drawn>>)
  BY ColumnSteps DEF ColumnInv
<1>2. CASE LaneDrawn
  <2> DEFINE up == popping'
             q == toasts'
             shown == osd'
  <2>1. up \in Seq(Popups) /\ IsInjective(up) /\ Live(q) /\ shown \in Osds \cup {NoOsd}
        /\ Lays(up, q, shown) /\ LaneShown
    BY <1>2 DEF LaneDrawn, ColumnInv
  <2> HIDE DEF up, q, shown
  <2> QED
    BY <1>1, <2>1, LaysShown DEF ColumnInv
<1>3. CASE UNCHANGED <<arrived, drawn>>
  BY <1>1, <1>3 DEF ColumnInv, LaneShown, DrawnOf, First, Fits, Waiting
<1> QED
  BY <1>1, <1>2, <1>3

(* The column keeps its invariant.                                         *)
THEOREM ColumnInvAlways == ColumnSpec => []ColumnInv
<1>1. ColumnInv /\ [ColumnNext]_columnVars => ColumnInv'
  BY ColumnInvNext
<1> QED
  BY ColumnInvInit, <1>1, PTL DEF ColumnSpec

LEMMA ColumnTypes == ColumnInv => ColumnTypeOK
<1> SUFFICES ASSUME ColumnInv PROVE ColumnTypeOK
  OBVIOUS
<1>1. drawn \subseteq ToSet(arrived)
  BY DrawnSpeaks DEF ColumnInv, LaneShown
<1> QED
  BY <1>1 DEF ColumnInv, Providers, TimersRun, LaneShown, Live, ColumnTypeOK

(* The variables of the column keep their types.                           *)
THEOREM ColumnTyped == ColumnSpec => []ColumnTypeOK
BY ColumnTypes, ColumnInvAlways, PTL

(* No card keeps another provider from speaking, or takes a place that is  *)
(* taken (stack/mod.rs, Arrivals::order and admit), and an OSD that was    *)
(* shown again stays its whole time: CardsKept, but that all goes.         *)
THEOREM CardsKeptAlways == ColumnSpec => []EveryProviderSpeaks /\ NotDisplaced /\ OsdStaysItsTime
<1>1. ColumnInv => EveryProviderSpeaks
  <2> SUFFICES ASSUME ColumnInv PROVE EveryProviderSpeaks
    OBVIOUS
  <2>1. arrived \in Seq(Slots) /\ IsInjective(arrived) /\ drawn = DrawnOf(arrived)
    BY DEF ColumnInv, LaneShown
  <2>2. /\ {Kind(s) : s \in DrawnOf(arrived)} = Speaking(arrived)
        /\ Cardinality(DrawnOf(arrived)) > Capacity =>
             Cardinality(DrawnOf(arrived)) = Cardinality(Speaking(arrived))
    BY <2>1, DrawnSpeaks
  <2> QED
    BY <2>1, <2>2 DEF EveryProviderSpeaks, Speaking
<1>2. ColumnInv /\ [ColumnNext]_columnVars =>
        [\A s \in drawn \cap ToSet(arrived') :
           s \in drawn'
           \/ {Kind(c) : c \in ToSet(arrived')} \ {Kind(c) : c \in ToSet(arrived)} # {}
           \/ (Critical \cap drawn') \ drawn # {}]_columnVars
  BY ColumnInvNext DEF Speaking
<1>3. ColumnInv /\ [ColumnNext]_columnVars =>
        [osd # NoOsd /\ osd' = NoOsd => since = 0 \/ (since' = 0 /\ timers' = timers)]_columnVars
  <2> SUFFICES ASSUME ColumnInv, [ColumnNext]_columnVars, osd # NoOsd, osd' = NoOsd
               PROVE  since = 0 \/ (since' = 0 /\ timers' = timers)
    OBVIOUS
  <2>1. ClearOsd \/ OsdTimer
    <3>1. ASSUME NEW k \in Osds, ShowOsd(k)
          PROVE  FALSE
      BY <3>1, ColumnAssumption DEF ShowOsd, NoOsd
    <3> QED
      BY <3>1 DEF ColumnNext, ToasterWakes, DismissToast, ClearToasts, Tick, Notify, PostToast,
                  Receives, columnVars
  <2>2. CASE ClearOsd
    BY <2>2 DEF ClearOsd
  <2>3. CASE OsdTimer
    <3>1. PICK t \in timers : t.left = 0 /\ osd' = IF Replaced(t) THEN osd ELSE NoOsd
      BY <2>3 DEF OsdTimer
    <3>2. t.gen = shows
      BY <3>1 DEF Replaced
    <3> QED
      BY <3>1, <3>2, ColumnAssumption DEF ColumnInv, TimersRun
  <2> QED
    BY <2>1, <2>2, <2>3
<1> QED
  BY ColumnInvAlways, <1>1, <1>2, <1>3, PTL DEF ColumnSpec, NotDisplaced, OsdStaysItsTime

-----------------------------------------------------------------------------
(* The parts side by side: one runs, and the others stay as they began.    *)
ShellInv ==
  KeyedInv /\ RulesInv /\ ScheduleInv /\ ColumnInv /\ ReloadInv /\ StoreInv /\ ProcessInv

LEMMA PartsMove ==
  ASSUME [Next]_partVars
  PROVE  /\ [KeyedNext]_keyedVars /\ [RulesNext]_rulesVars /\ [ScheduleNext]_scheduleVars
         /\ [ColumnNext]_columnVars /\ [ReloadNext]_reloadVars /\ [StoreNext]_storeVars
         /\ [ProcessNext]_processVars
BY Zenon DEF Next, partVars

LEMMA ShellInvInit == Init => ShellInv
<1>1. Init => /\ KeyedInit /\ RulesInit /\ ScheduleInit /\ ColumnInit /\ ReloadInit /\ StoreInit
              /\ ProcessInit
  BY DEF Init
<1> QED
  BY <1>1, KeyedStarts, RulesStart, ScheduleStarts, ColumnInvInit, ReloadInvInit, StoreStarts,
     ProcessStarts DEF ShellInv

LEMMA ShellInvNext == ShellInv /\ [Next]_partVars => ShellInv'
<1> SUFFICES ASSUME ShellInv, [Next]_partVars PROVE ShellInv'
  OBVIOUS
<1>1. KeyedInv' /\ ScheduleInv'
  BY PartsMove, KeyedNextKeeps, ScheduleNextKeeps DEF ShellInv
<1>2. RulesInv'
  BY PartsMove, RulesStep, RulesStutters DEF ShellInv
<1>3. ColumnInv' /\ ReloadInv'
  BY PartsMove, ColumnInvNext, ReloadInvNext DEF ShellInv
<1>4. StoreInv' /\ ProcessInv'
  BY PartsMove, StoreNextKeeps, ProcessNextKeeps DEF ShellInv
<1> QED
  BY <1>1, <1>2, <1>3, <1>4 DEF ShellInv

(* Every part keeps its types, whichever of them runs.                     *)
THEOREM ShellTyped == Spec => []TypeOK
<1>1. ShellInv => TypeOK
  <2>1. KeyedInv => KeyedTypeOK
    BY DEF KeyedInv
  <2>2. ScheduleInv => ScheduleTypeOK
    BY DEF ScheduleInv
  <2>3. StoreInv => StoreTypeOK
    BY DEF StoreInv
  <2>4. ProcessInv => ProcessTypeOK
    BY DEF ProcessInv
  <2> QED
    BY <2>1, <2>2, <2>3, <2>4, RulesTypes, ColumnTypes, ReloadTypes DEF ShellInv, TypeOK
<1> QED
  BY <1>1, ShellInvInit, ShellInvNext, PTL DEF Spec
=============================================================================
