-------------------------------- MODULE Keyed --------------------------------
(***************************************************************************)
(* The registry of producers filed by a key chosen at run time: Keyed of   *)
(* crates/util/src/broadcast.rs, as crates/automation/src/sources/mod.rs   *)
(* uses it for the sources a layout declares.  One key is followed; keys   *)
(* share nothing but the registry's mutex.                                 *)
(*                                                                         *)
(* A key's entry is a Broadcast of its own.  Its wanted is one step here:  *)
(* what the steps inside it may let through is Broadcast's subject.  What  *)
(* is followed step by step is the time between looking the entry up and   *)
(* starting its producer, and between reading the declared set and         *)
(* forgetting what it does not name.                                       *)
(***************************************************************************)
EXTENDS Integers, FiniteSets

CONSTANTS
  Entries,   \* bound: the entries the key can ever have, one at a time
  Surfaces,  \* subscriptions, each made once
  Runs,      \* bound: the producer threads that can ever be started
  None,      \* no entry
  Loop,      \* the driver's loop thread, which declares
  MaxLayouts \* bound: layouts declared

ASSUME KeyedAssumption ==
  /\ None \notin Entries
  /\ Loop \notin Runs
  /\ MaxLayouts \in Nat

Forgetters == Runs \cup {Loop}

VARIABLES
  declared,  \* DECLARED names the key
  layouts,   \* layouts declared so far
  entry,     \* the key's entry in Keyed.entries
  used,      \* entries made so far
  claims,    \* per entry, Broadcast.running
  subs,      \* per entry, Broadcast.subscribers
  spc, alive, \* where each subscription's thread is, and whether its surface lives
  sentry,    \* the entry each subscription looked up
  rpc, rentry, \* where each producer thread is, and the entry it serves
  fpc        \* where each thread that forgets is: "idle", "keep" (about to ask
             \* what is declared), "drop" (about to drop the entry), under the
             \* registry's mutex

keyedVars == <<declared, layouts, entry, used, claims, subs, spc, alive, sentry, rpc, rentry, fpc>>

(* Types, and that no two entries share an id (Entry::id).                 *)
KeyedTypeOK ==
  /\ declared \in BOOLEAN
  /\ layouts \in 0 .. MaxLayouts
  /\ entry \in Entries \cup {None}
  /\ used \subseteq Entries
  /\ claims \in [Entries -> BOOLEAN]
  /\ subs \in [Entries -> SUBSET Surfaces]
  /\ spc \in [Surfaces -> {"off", "lookup", "push", "start", "on"}]
  /\ alive \in [Surfaces -> BOOLEAN]
  /\ sentry \in [Surfaces -> Entries \cup {None}]
  /\ rpc \in [Runs -> {"unborn", "serving", "retired", "forgets", "gone"}]
  /\ rentry \in [Runs -> Entries \cup {None}]
  /\ fpc \in [Forgetters -> {"idle", "keep", "drop"}]
  /\ entry # None => entry \in used
  /\ \A r \in Runs : rentry[r] = None <=> rpc[r] = "unborn"

KeyedInit ==
  /\ declared = FALSE
  /\ layouts = 0
  /\ entry = None
  /\ used = {}
  /\ claims = [e \in Entries |-> FALSE]
  /\ subs = [e \in Entries |-> {}]
  /\ spc = [s \in Surfaces |-> "off"]
  /\ alive = [s \in Surfaces |-> FALSE]
  /\ sentry = [s \in Surfaces |-> None]
  /\ rpc = [r \in Runs |-> "unborn"]
  /\ rentry = [r \in Runs |-> None]
  /\ fpc = [t \in Forgetters |-> "idle"]

-----------------------------------------------------------------------------
(* The registry's mutex: retain holds it from the first question to the    *)
(* last drop, the lookup of subscribe takes and leaves it.                 *)
RegistryFree == \A t \in Forgetters : fpc[t] # "drop"

(* declare: a layout is loaded, and names the key or not.                  *)
Declare(named) ==
  /\ fpc[Loop] = "idle"
  /\ layouts < MaxLayouts
  /\ layouts' = layouts + 1
  /\ declared' = named
  /\ fpc' = [fpc EXCEPT ![Loop] = "keep"]
  /\ UNCHANGED <<entry, used, claims, subs, spc, alive, sentry, rpc, rentry>>

(* retain, the question: keep(key), or the producer still runs.            *)
Forgettable == ~declared /\ entry # None /\ ~claims[entry]

Retain(t) ==
  /\ fpc[t] = "keep"
  /\ RegistryFree
  /\ fpc' = [fpc EXCEPT ![t] = IF Forgettable THEN "drop" ELSE "idle"]
  /\ UNCHANGED <<declared, layouts, entry, used, claims, subs, spc, alive, sentry, rpc, rentry>>

Drop(t) ==
  /\ fpc[t] = "drop"
  /\ entry' = None
  /\ fpc' = [fpc EXCEPT ![t] = "idle"]
  /\ UNCHANGED <<declared, layouts, used, claims, subs, spc, alive, sentry, rpc, rentry>>

-----------------------------------------------------------------------------
(* A surface of the running layout reads the key (watch, then subscribe on *)
(* a thread of its own).                                                   *)
Subscribe(s) ==
  /\ spc[s] = "off"
  /\ declared
  /\ spc' = [spc EXCEPT ![s] = "lookup"]
  /\ alive' = [alive EXCEPT ![s] = TRUE]
  /\ UNCHANGED <<declared, layouts, entry, used, claims, subs, sentry, rpc, rentry, fpc>>

(* The key's entry, made if there is none; the mutex is left with the Arc. *)
Lookup(s) ==
  /\ spc[s] = "lookup"
  /\ RegistryFree
  /\ \/ entry # None /\ UNCHANGED <<entry, used>>
     \/ /\ entry = None
        /\ \E e \in Entries \ used : entry' = e /\ used' = used \cup {e}
  /\ sentry' = [sentry EXCEPT ![s] = entry']
  /\ spc' = [spc EXCEPT ![s] = "push"]
  /\ UNCHANGED <<declared, layouts, claims, subs, alive, rpc, rentry, fpc>>

(* attach; a surface already gone may find that out, and start nothing.    *)
Attach(s) ==
  /\ spc[s] = "push"
  /\ \/ /\ subs' = [subs EXCEPT ![sentry[s]] = @ \cup {s}]
        /\ spc' = [spc EXCEPT ![s] = "start"]
     \/ /\ ~alive[s]
        /\ \E r \in Runs : rentry[r] = sentry[s]
        /\ spc' = [spc EXCEPT ![s] = "on"]
        /\ UNCHANGED subs
  /\ UNCHANGED <<declared, layouts, entry, used, claims, alive, sentry, rpc, rentry, fpc>>

(* Broadcast::start on the entry looked up, which may be forgotten by now. *)
Start(s) ==
  /\ spc[s] = "start"
  /\ \/ claims[sentry[s]] /\ UNCHANGED <<claims, rpc, rentry>>
     \/ /\ ~claims[sentry[s]]
        /\ claims' = [claims EXCEPT ![sentry[s]] = TRUE]
        /\ \E r \in Runs :
             /\ rpc[r] = "unborn"
             /\ rpc' = [rpc EXCEPT ![r] = "serving"]
             /\ rentry' = [rentry EXCEPT ![r] = sentry[s]]
  /\ spc' = [spc EXCEPT ![s] = "on"]
  /\ UNCHANGED <<declared, layouts, entry, used, subs, alive, sentry, fpc>>

Close(s) ==
  /\ alive[s]
  /\ alive' = [alive EXCEPT ![s] = FALSE]
  /\ UNCHANGED <<declared, layouts, entry, used, claims, subs, spc, sentry, rpc, rentry, fpc>>

-----------------------------------------------------------------------------
(* A producer that asks wanted and hears false gives its claim up.         *)

WantedIfFiled(r) ==    \* a plausible slip: what is forgotten is taken for unread
  entry = rentry[r] /\ \E s \in subs[rentry[r]] : alive[s]

Wanted(r) == \E s \in subs[rentry[r]] : alive[s]

Quit(r) ==
  /\ rpc[r] = "serving"
  /\ ~Wanted(r)
  /\ subs' = [subs EXCEPT ![rentry[r]] = {}]
  /\ claims' = [claims EXCEPT ![rentry[r]] = FALSE]
  /\ rpc' = [rpc EXCEPT ![r] = "retired"]
  /\ UNCHANGED <<declared, layouts, entry, used, spc, alive, sentry, rentry, fpc>>

(* A plausible slip: the producer ends without asking.                     *)
RetiredQuietly(r) ==
  /\ rpc[r] = "retired"
  /\ rpc' = [rpc EXCEPT ![r] = "gone"]
  /\ UNCHANGED <<declared, layouts, entry, used, claims, subs, spc, alive, sentry, rentry, fpc>>

(* retired: asks the registry to forget, if its key is not declared.       *)
Retired(r) ==
  /\ rpc[r] = "retired"
  /\ IF declared
       THEN rpc' = [rpc EXCEPT ![r] = "gone"] /\ UNCHANGED fpc
       ELSE /\ rpc' = [rpc EXCEPT ![r] = "forgets"]
            /\ fpc' = [fpc EXCEPT ![r] = "keep"]
  /\ UNCHANGED <<declared, layouts, entry, used, claims, subs, spc, alive, sentry, rentry>>

Ends(r) ==
  /\ rpc[r] = "forgets"
  /\ fpc[r] = "idle"
  /\ rpc' = [rpc EXCEPT ![r] = "gone"]
  /\ UNCHANGED <<declared, layouts, entry, used, claims, subs, spc, alive, sentry, rentry, fpc>>

Subscribing(s) == Lookup(s) \/ Attach(s) \/ Start(s)
Forgetting(t)  == Retain(t) \/ Drop(t)
Retiring(r)    == Quit(r) \/ Retired(r) \/ Ends(r) \/ Forgetting(r)

KeyedNext ==
  \/ \E named \in BOOLEAN : Declare(named)
  \/ \E s \in Surfaces : Subscribe(s) \/ Subscribing(s) \/ Close(s)
  \/ \E r \in Runs : Retiring(r)
  \/ Forgetting(Loop)

(* Threads are scheduled.                                                  *)
KeyedFair ==
  /\ \A s \in Surfaces : WF_keyedVars(Subscribing(s))
  /\ \A r \in Runs : WF_keyedVars(Retiring(r))
  /\ WF_keyedVars(Forgetting(Loop))

KeyedSpec == KeyedInit /\ [][KeyedNext]_keyedVars /\ KeyedFair

-----------------------------------------------------------------------------
(* Properties.                                                             *)

Serving == {r \in Runs : rpc[r] = "serving"}

(* However often the key is forgotten and filed again, a surface that      *)
(* subscribed and is still there is served by a producer of the entry it   *)
(* looked up (broadcast.rs, Keyed::subscribe).                             *)
Served ==
  \A s \in Surfaces :
    spc[s] = "on" /\ alive[s] => \E r \in Serving : rentry[r] = sentry[s]

(* A key no layout declares any more, and nobody reads, is forgotten with  *)
(* its reading (sources/mod.rs, declare and retired).                      *)
Forgets ==
  <>[](~declared /\ \A s \in Surfaces : ~alive[s]) => <>[](entry = None)

(* Keyed::retain: "dropping it then would let the next subscriber on the   *)
(* same key start a second producer beside the first".                     *)
OneProducerPerKey == \A q, r \in Serving : q = r
=============================================================================
