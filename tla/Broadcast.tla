------------------------------ MODULE Broadcast ------------------------------
(***************************************************************************)
(* One shared source of the shell: Broadcast and Service of                *)
(* crates/util/src/broadcast.rs.  A service has at most one producer       *)
(* thread, started by whoever needs it first and stopped by itself once    *)
(* nobody listens; its readings are fanned out to the surfaces that        *)
(* subscribed.                                                             *)
(*                                                                         *)
(* A subscription runs on a thread of its own (platform_wayland::watch),   *)
(* so every locked section of attach, start, wanted and publish is a step  *)
(* of its own here, and any two threads interleave between them.  The      *)
(* running mutex is modelled (lock), because wanted holds it across two    *)
(* other sections; the others guard one section each.                      *)
(*                                                                         *)
(* A reading is abstracted to the version of the world it was taken of; 0  *)
(* is "no reading yet".                                                    *)
(***************************************************************************)
EXTENDS Integers, FiniteSets

CONSTANTS
  Surfaces,    \* subscriptions: the surfaces that subscribe, each once
  Callers,     \* threads of the shell that read or publish without subscribing
  Runs,        \* bound: the producer threads that can ever be started
  None,        \* nobody holds the running mutex
  MaxWorld,    \* bound: versions of the world
  Kinds,       \* how the service's producer works: see kind
  MayNotSpawn, \* TRUE: spawning a thread may fail
  MaySeed      \* TRUE: the service may be seeded by a preview fixture

ASSUME BroadcastAssumption ==
  /\ None \notin Runs
  /\ IsFiniteSet(Runs)
  /\ MaxWorld \in Nat \ {0}
  /\ Kinds \subseteq {"polls", "changes", "returns"}
  /\ {MayNotSpawn, MaySeed} \subseteq BOOLEAN

VARIABLES
  kind,      \* "polls": publishes every reading (the clock); "changes": only
             \* one that differs (the lock keys); "returns": like "polls", but
             \* it may return without having asked (the battery)
  world,     \* what a reading taken now would say
  current,   \* Broadcast.current
  subs,      \* Broadcast.subscribers
  running,   \* Broadcast.running, the flag
  lock,      \* who holds the mutex around it
  census,    \* RUNNING, the count filed under this service
  spc,       \* where the thread of each subscription is
  alive,     \* EventSender::alive: the surface is still there
  got,       \* the last reading each surface was sent
  cpc, cval, \* where each caller is, and what it publishes
  rpc, rval, \* where each producer thread is, and its last reading
  seeded,    \* the slot was claimed by seed
  unspawned  \* the last attempt to start a producer found no thread

surfaceVars  == <<spc, alive, got>>
callerVars   == <<cpc, cval>>
producerVars == <<rpc, rval>>
given        == <<kind, seeded>>    \* what no step changes
vars == <<given, world, current, subs, running, lock, census, surfaceVars, callerVars,
          producerVars, unspawned>>

Reading == 0 .. MaxWorld

(* A run holds its claim from the spawn to the false it is told.           *)
ClaimPc  == {"read", "set", "send", "ask", "look", "keep", "quit"}
LockedPc == {"look", "keep", "quit"}
RunPc    == ClaimPc \cup {"unborn", "return", "gone"}

TypeOK ==
  /\ kind \in Kinds
  /\ world \in Reading
  /\ current \in Reading
  /\ subs \subseteq Surfaces
  /\ running \in BOOLEAN
  /\ lock \in Runs \cup {None}
  /\ census \in Nat
  /\ spc \in [Surfaces -> {"off", "attach", "push", "start", "on", "refused"}]
  /\ alive \in [Surfaces -> BOOLEAN]
  /\ got \in [Surfaces -> Reading]
  /\ cpc \in [Callers -> {"idle", "read", "start", "set", "send"}]
  /\ cval \in [Callers -> Reading]
  /\ rpc \in [Runs -> RunPc]
  /\ rval \in [Runs -> Reading]
  /\ seeded \in BOOLEAN
  /\ unspawned \in BOOLEAN

(* seed claims the slot and leaves its reading before anything subscribes. *)
Init ==
  /\ kind \in Kinds
  /\ world = 1
  /\ seeded \in IF MaySeed THEN BOOLEAN ELSE {FALSE}
  /\ current = IF seeded THEN 1 ELSE 0
  /\ running = seeded
  /\ subs = {}
  /\ lock = None
  /\ census = 0
  /\ spc = [s \in Surfaces |-> "off"]
  /\ alive = [s \in Surfaces |-> FALSE]
  /\ got = [s \in Surfaces |-> 0]
  /\ cpc = [c \in Callers |-> "idle"]
  /\ cval = [c \in Callers |-> 0]
  /\ rpc = [r \in Runs |-> "unborn"]
  /\ rval = [r \in Runs |-> 0]
  /\ unspawned = FALSE

-----------------------------------------------------------------------------
(* The thread the next spawn makes: threads are named as they come.        *)
Unborn == {r \in Runs : rpc[r] = "unborn"}
Fresh  == CHOOSE r \in Unborn : TRUE

(* Plausible slips of the next operator: the producer is not counted, and  *)
(* the census keeps one producer per service rather than a count.          *)
StartUncounted ==
  /\ lock = None
  /\ IF running
       THEN UNCHANGED <<running, census, rpc, unspawned>>
       ELSE /\ Unborn # {}
            /\ rpc' = [rpc EXCEPT ![Fresh] = "read"]
            /\ running' = TRUE
            /\ UNCHANGED <<census, unspawned>>

StartCountsOne ==
  /\ lock = None
  /\ IF running
       THEN UNCHANGED <<running, census, rpc, unspawned>>
       ELSE /\ Unborn # {}
            /\ rpc' = [rpc EXCEPT ![Fresh] = "read"]
            /\ running' = TRUE
            /\ census' = 1
            /\ UNCHANGED unspawned

(* Broadcast::start, under the running mutex.  The census names the        *)
(* producer before it is spawned and until it has returned.                *)
Start ==
  /\ lock = None
  /\ IF running
       THEN UNCHANGED <<running, census, rpc, unspawned>>
       ELSE \/ /\ Unborn # {}
               /\ rpc' = [rpc EXCEPT ![Fresh] = "read"]
               /\ running' = TRUE
               /\ census' = census + 1
               /\ unspawned' = FALSE
            \/ /\ MayNotSpawn
               /\ unspawned' = TRUE
               /\ UNCHANGED <<running, census, rpc>>

(* The two halves of Broadcast::publish that a thread can be caught        *)
(* between: the current reading first, then every surface still there.     *)
Record(v) == current' = v

(* A plausible slip: the retain keeps the surfaces that are gone.          *)
FanOutInverted(v) ==
  /\ subs' = {s \in subs : ~alive[s]}
  /\ got'  = [s \in Surfaces |-> IF s \in subs /\ alive[s] THEN v ELSE got[s]]

FanOut(v) ==
  /\ subs' = {s \in subs : alive[s]}
  /\ got'  = [s \in Surfaces |-> IF s \in subs /\ alive[s] THEN v ELSE got[s]]

-----------------------------------------------------------------------------
(* A surface subscribes (Service::subscribe) and closes.                   *)
Subscribe(s) ==
  /\ spc[s] = "off"
  /\ spc' = [spc EXCEPT ![s] = "attach"]
  /\ alive' = [alive EXCEPT ![s] = TRUE]
  /\ UNCHANGED <<world, current, subs, running, lock, census, got, callerVars,
                 producerVars, given, unspawned>>

(* attach up to the send of the current reading: a surface already gone is *)
(* not registered, and starts nothing.                                     *)
Attach(s) ==
  /\ spc[s] = "attach"
  /\ \/ /\ current = 0
        /\ spc' = [spc EXCEPT ![s] = "push"]
        /\ UNCHANGED got
     \/ /\ current # 0 /\ alive[s]
        /\ spc' = [spc EXCEPT ![s] = "push"]
        /\ got' = [got EXCEPT ![s] = current]
     \/ /\ current # 0 /\ ~alive[s]
        /\ spc' = [spc EXCEPT ![s] = "refused"]
        /\ UNCHANGED got
  /\ UNCHANGED <<world, current, subs, running, lock, census, alive, callerVars,
                 producerVars, given, unspawned>>

(* The rest of attach: another step, the locks are two.                    *)
Push(s) ==
  /\ spc[s] = "push"
  /\ subs' = subs \cup {s}
  /\ spc' = [spc EXCEPT ![s] = "start"]
  /\ UNCHANGED <<world, current, running, lock, census, alive, got, callerVars,
                 producerVars, given, unspawned>>

StartFor(s) ==
  /\ spc[s] = "start"
  /\ Start
  /\ spc' = [spc EXCEPT ![s] = "on"]
  /\ UNCHANGED <<world, current, subs, lock, alive, got, callerVars, rval, given>>

(* The surface goes away: its receiver is dropped, its sender stays filed. *)
Close(s) ==
  /\ alive[s]
  /\ alive' = [alive EXCEPT ![s] = FALSE]
  /\ UNCHANGED <<world, current, subs, running, lock, census, spc, got, callerVars,
                 producerVars, given, unspawned>>

-----------------------------------------------------------------------------
(* Threads that use a service without subscribing: Service::current and    *)
(* awaited ("read", which only has to start it), and Service::publish      *)
(* after a change the shell itself made ("start", "set", "send").          *)
CallCurrent(c) ==
  /\ cpc[c] = "idle" /\ cval[c] = 0
  /\ cpc' = [cpc EXCEPT ![c] = "read"]
  /\ cval' = [cval EXCEPT ![c] = 1]
  /\ UNCHANGED <<world, current, subs, running, lock, census, surfaceVars,
                 producerVars, given, unspawned>>

CallPublish(c) ==
  /\ cpc[c] = "idle"
  /\ world < MaxWorld
  /\ world' = world + 1
  /\ cval' = [cval EXCEPT ![c] = world + 1]
  /\ cpc' = [cpc EXCEPT ![c] = "start"]
  /\ UNCHANGED <<current, subs, running, lock, census, surfaceVars, producerVars,
                 given, unspawned>>

CallerStarts(c) ==
  /\ cpc[c] \in {"read", "start"}
  /\ Start
  /\ cpc' = [cpc EXCEPT ![c] = IF @ = "read" THEN "idle" ELSE "set"]
  /\ UNCHANGED <<world, current, subs, lock, surfaceVars, cval, rval, given>>

CallerRecords(c) ==
  /\ cpc[c] = "set"
  /\ Record(cval[c])
  /\ cpc' = [cpc EXCEPT ![c] = "send"]
  /\ UNCHANGED <<world, subs, running, lock, census, surfaceVars, cval, producerVars,
                 given, unspawned>>

CallerSends(c) ==
  /\ cpc[c] = "send"
  /\ FanOut(cval[c])
  /\ cpc' = [cpc EXCEPT ![c] = "idle"]
  /\ UNCHANGED <<world, current, running, lock, census, spc, alive, cval, producerVars,
                 given, unspawned>>

-----------------------------------------------------------------------------
(* A producer thread: take a reading, publish it, ask whether that was     *)
(* worth doing.                                                            *)
TakeReading(r) ==
  /\ rpc[r] = "read"
  /\ kind # "changes" \/ rval[r] # world
  /\ rval' = [rval EXCEPT ![r] = world]
  /\ rpc' = [rpc EXCEPT ![r] = "set"]
  /\ UNCHANGED <<world, current, subs, running, lock, census, surfaceVars, callerVars,
                 given, unspawned>>

(* Nothing changed: nothing is published, and it still asks.               *)
LookIn(r) ==
  /\ rpc[r] = "read"
  /\ kind = "changes" /\ rval[r] = world
  /\ rpc' = [rpc EXCEPT ![r] = "ask"]
  /\ UNCHANGED <<world, current, subs, running, lock, census, surfaceVars, callerVars,
                 rval, given, unspawned>>

(* A producer whose device is gone: the slot stays claimed.                *)
GiveUp(r) ==
  /\ kind = "returns"
  /\ rpc[r] = "read"
  /\ rpc' = [rpc EXCEPT ![r] = "return"]
  /\ UNCHANGED <<world, current, subs, running, lock, census, surfaceVars, callerVars,
                 rval, given, unspawned>>

Records(r) ==
  /\ rpc[r] = "set"
  /\ Record(rval[r])
  /\ rpc' = [rpc EXCEPT ![r] = "send"]
  /\ UNCHANGED <<world, subs, running, lock, census, surfaceVars, callerVars, rval,
                 given, unspawned>>

Sends(r) ==
  /\ rpc[r] = "send"
  /\ FanOut(rval[r])
  /\ rpc' = [rpc EXCEPT ![r] = "ask"]
  /\ UNCHANGED <<world, current, running, lock, census, spc, alive, callerVars, rval,
                 given, unspawned>>

(* A plausible slip: the flag is only locked where it is written.          *)
AskUnlocked(r) ==
  /\ rpc[r] = "ask"
  /\ rpc' = [rpc EXCEPT ![r] = "look"]
  /\ UNCHANGED <<world, current, subs, running, lock, census, surfaceVars, callerVars,
                 rval, given, unspawned>>

(* Broadcast::wanted: the mutex, the look at the subscribers, the verdict. *)
Ask(r) ==
  /\ rpc[r] = "ask"
  /\ lock = None
  /\ lock' = r
  /\ rpc' = [rpc EXCEPT ![r] = "look"]
  /\ UNCHANGED <<world, current, subs, running, census, surfaceVars, callerVars, rval,
                 given, unspawned>>

Look(r) ==
  /\ rpc[r] = "look"
  /\ subs' = {s \in subs : alive[s]}
  /\ rpc' = [rpc EXCEPT ![r] = IF subs' # {} THEN "keep" ELSE "quit"]
  /\ UNCHANGED <<world, current, running, lock, census, surfaceVars, callerVars, rval,
                 given, unspawned>>

Keep(r) ==
  /\ rpc[r] = "keep"
  /\ lock' = None
  /\ rpc' = [rpc EXCEPT ![r] = "read"]
  /\ UNCHANGED <<world, current, subs, running, census, surfaceVars, callerVars, rval,
                 given, unspawned>>

(* A plausible slip: the claim is given up, and the producer goes on.      *)
QuitGoesOn(r) ==
  /\ rpc[r] = "quit"
  /\ running' = FALSE
  /\ lock' = None
  /\ rpc' = [rpc EXCEPT ![r] = "read"]
  /\ UNCHANGED <<world, current, subs, census, surfaceVars, callerVars, rval,
                 given, unspawned>>

Quit(r) ==
  /\ rpc[r] = "quit"
  /\ running' = FALSE
  /\ lock' = None
  /\ rpc' = [rpc EXCEPT ![r] = "return"]
  /\ UNCHANGED <<world, current, subs, census, surfaceVars, callerVars, rval,
                 given, unspawned>>

(* The thread's last act: its name leaves the census.                      *)
Return(r) ==
  /\ rpc[r] = "return"
  /\ census' = census - 1
  /\ rpc' = [rpc EXCEPT ![r] = "gone"]
  /\ UNCHANGED <<world, current, subs, running, lock, surfaceVars, callerVars, rval,
                 given, unspawned>>

(* The system changes by itself.                                           *)
WorldChanges ==
  /\ world < MaxWorld
  /\ world' = world + 1
  /\ UNCHANGED <<current, subs, running, lock, census, surfaceVars, callerVars,
                 producerVars, given, unspawned>>

Subscribing(s) == Attach(s) \/ Push(s) \/ StartFor(s)
Calling(c)     == CallerStarts(c) \/ CallerRecords(c) \/ CallerSends(c)
Producing(r)   == TakeReading(r) \/ LookIn(r) \/ Records(r) \/ Sends(r)
                    \/ Ask(r) \/ Look(r) \/ Keep(r) \/ Quit(r) \/ Return(r)

Next ==
  \/ \E s \in Surfaces : Subscribe(s) \/ Subscribing(s) \/ Close(s)
  \/ \E c \in Callers : CallCurrent(c) \/ CallPublish(c) \/ Calling(c)
  \/ \E r \in Runs : Producing(r) \/ GiveUp(r)
  \/ WorldChanges

(* Every thread that has something to do does it; nothing obliges a        *)
(* surface to come or go, or the world to change.                          *)
Spec ==
  /\ Init /\ [][Next]_vars
  /\ \A s \in Surfaces : WF_vars(Subscribing(s))
  /\ \A c \in Callers : WF_vars(Calling(c))
  /\ \A r \in Runs : WF_vars(Producing(r))

-----------------------------------------------------------------------------
(* Properties.                                                             *)

Claims == {r \in Runs : rpc[r] \in ClaimPc}

(* A service never has two producers that have not been told to stop, and  *)
(* a seeded one has none (broadcast.rs, wanted, start and seed).           *)
OneProducer ==
  /\ \A q, r \in Claims : q = r
  /\ seeded => Claims = {}

(* Nobody who has subscribed and is still there is left without a producer *)
(* by one that retired at the same moment (broadcast.rs, wanted:           *)
(* "a subscription landing between ...").  It fails for a producer that    *)
(* returns without having asked.                                           *)
NoStranded ==
  \A s \in Surfaces :
    spc[s] = "on" /\ alive[s] /\ ~seeded /\ ~unspawned /\ kind # "returns" => Claims # {}

(* shell status lists a service for as long as a thread of it exists, a    *)
(* restart that overtakes the outgoing thread included (RUNNING).          *)
CensusTrue == census = Cardinality({r \in Runs : rpc[r] \notin {"unborn", "gone"}})

(* A producer nobody listens to stops, and its thread ends.                *)
Retires ==
  <>[](\A s \in Surfaces : ~alive[s]) => <>[](\A r \in Runs : rpc[r] \in {"unborn", "gone"})

(* A surface that stays is in the end sent what is true, however its       *)
(* subscription, the producer's turns and outside publishes interleave: a  *)
(* polling producer heals what they miss.                                  *)
Heals ==
  \A s \in Surfaces :
    <>[](alive[s] /\ spc[s] = "on" /\ ~seeded /\ ~unspawned /\ kind = "polls")
      => <>[](got[s] = world)

(* A producer is there for as long as somebody listens, and then it ends.  *)
Settles == Retires /\ Heals

(* attach: "so a late subscriber starts in sync".  Once no thread is in    *)
(* the middle of anything, a subscriber has been sent the current reading. *)
Quiet ==
  /\ \A s \in Surfaces : spc[s] \in {"off", "on", "refused"}
  /\ \A c \in Callers : cpc[c] = "idle"
  /\ \A r \in Runs : rpc[r] \notin {"set", "send"}

StartsInSync == Quiet => \A s \in subs : alive[s] => got[s] = current

=============================================================================
